------------------------------- MODULE ItemSet -------------------------------
(***************************************************************************)
(* What BRSet.h promises: sets of items that hold one item of each key,    *)
(* whatever buckets the items are in.                                      *)
(***************************************************************************)
EXTENDS Naturals, FiniteSets

CONSTANTS Item, Key, Name, NULL

VARIABLES
  members,    \* members[s]: the items of set s
  ret         \* the last call and what it returned

NoItem == [s \in Name |-> {}]

Same(s, t) == {u \in members[s] : Key[u] = Key[t]}
Lookup(s, t) == IF Same(s, t) = {} THEN NULL ELSE CHOOSE u \in Same(s, t) : TRUE

Returns(op, value) == ret' = [op |-> op, value |-> value]

Becomes(s, items) == members' = [members EXCEPT ![s] = items]

Init == members = NoItem /\ ret = [op |-> "new", value |-> NULL]

Add(s, t) ==
  Becomes(s, (members[s] \ Same(s, t)) \cup {t}) /\ Returns("add", Lookup(s, t))

Remove(s, t) == Becomes(s, members[s] \ Same(s, t)) /\ Returns("remove", Lookup(s, t))

Clear(s) == Becomes(s, {}) /\ Returns("clear", NULL)

Shared(s, o) == {t \in members[s] : Same(o, t) # {}}

Union(s, o) ==
  Becomes(s, (members[s] \ Shared(s, o)) \cup members[o]) /\ Returns("union", NULL)

Minus(s, o) == Becomes(s, members[s] \ Shared(s, o)) /\ Returns("minus", NULL)

Intersect(s, o) == Becomes(s, Shared(s, o)) /\ Returns("intersect", NULL)

Get(s, t) == UNCHANGED members /\ Returns("get", Lookup(s, t))

Count(s) == UNCHANGED members /\ Returns("count", Cardinality(members[s]))

Intersects(s, o) ==
  UNCHANGED members /\ Returns("intersects", IF Shared(s, o) = {} THEN 0 ELSE 1)

Next ==
  \E s \in Name :
    \/ Clear(s) \/ Count(s)
    \/ \E t \in Item : Add(s, t) \/ Remove(s, t) \/ Get(s, t)
    \/ \E o \in Name \ {s} : Union(s, o) \/ Minus(s, o) \/ Intersect(s, o) \/ Intersects(s, o)

Spec == Init /\ [][Next]_<<members, ret>>
=============================================================================
