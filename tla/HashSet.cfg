SPECIFICATION Spec
CONSTANTS
  a1 = a1
  a2 = a2
  b1 = b1
  c1 = c1
  d1 = d1
  Item = {a1, a2, b1, c1, d1}
  Key <- SetKey
  Hash <- SetHash
  Name = {"one", "two"}
  Capacities = {1}
  MaxItems <- SetBound
  NULL = NULL
PROPERTIES
  SetSpec
