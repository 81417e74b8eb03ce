-------------------------------- MODULE BRSet --------------------------------
(***************************************************************************)
(* The hash table of loafwallet-core (BRSet.c), in which the wallet keeps  *)
(* transactions, spent outputs and used addresses, and the peer manager    *)
(* blocks, orphans and checkpoints.  Collisions go to the next free        *)
(* bucket, so taking an item out moves what was put behind it; and a table *)
(* that gets full is replaced by a larger one.                             *)
(*                                                                         *)
(* Each call is one action: callers hold a lock of their own.  A probe     *)
(* that would not end has no value here, which stops a run.  A set is not  *)
(* taken from itself.                                                      *)
(***************************************************************************)
EXTENDS Integers, SequencesExt, FiniteSetsExt

CONSTANTS
  Item,
  Key,           \* Key[t] = Key[u]: eq() finds t and u equivalent
  Hash,          \* Hash[k]: what hash() gives for items of key k
  Name,          \* the sets
  Capacities,    \* capacities the sets are made with
  MaxItems,      \* bound: MaxItems[s] items in set s
  NULL

\* The first of the sizes a table may have.
tableSizes == <<1, 3, 7, 13, 23, 37, 59, 97>>

ASSUME SetAssumption ==
  /\ NULL \notin Item
  /\ \A t \in Item : Key[t] \in DOMAIN Hash
  /\ \A k \in DOMAIN Hash : Hash[k] \in Nat
  /\ Capacities \subseteq 0..59

VARIABLES
  set,    \* set[s].table: what is in each bucket; set[s].itemCount
  ret     \* the last call and what it returned

vars == <<set, ret>>

---------------------------------------------------------------------------
\* The next larger size than the capacity needs.
Empty(capacity) ==
  LET i == Min({j \in DOMAIN tableSizes : tableSizes[j] >= capacity})
  IN [table |-> [b \in 0..tableSizes[i + 1] - 1 |-> NULL], itemCount |-> 0]

Size(x) == Cardinality(DOMAIN x.table)

\* Where a search for an item of key k ends: at the item or a free bucket.
Bucket(x, k) ==
  LET Probe(n) == (Hash[k] + n) % Size(x)
      stops == {n \in 0..Size(x) - 1 :
                  x.table[Probe(n)] = NULL \/ Key[x.table[Probe(n)]] = k}
  IN Probe(Min(stops))

ItemOf(x, k) == x.table[Bucket(x, k)]

\* The items in the order of their buckets.
AllItems(x) ==
  SelectSeq([i \in 1..Size(x) |-> x.table[i - 1]], LAMBDA t : t # NULL)

Place(x, t) ==
  LET b == Bucket(x, Key[t])
  IN [table |-> [x.table EXCEPT ![b] = t],
      itemCount |-> x.itemCount + (IF x.table[b] = NULL THEN 1 ELSE 0)]

Vacate(x, b) == [table |-> [x.table EXCEPT ![b] = NULL], itemCount |-> x.itemCount - 1]

Limit(x) == ((Size(x) + 2) \div 3) * 2

RECURSIVE Added(_, _)

Joined(x, y) == FoldLeft(Added, x, AllItems(y))

\* A table over its limit is replaced by one with all its items.
Added(x, t) ==
  LET placed == Place(x, t)
  IN IF placed.itemCount > Limit(x) THEN Joined(Empty(Size(x)), placed) ELSE placed

\* What follows a freed bucket, up to the next free one, is put in again.
\* size is read before the table may grow.
RECURSIVE Reinserted(_, _, _)
Reinserted(x, b, size) ==
  IF x.table[b] = NULL THEN x
  ELSE Reinserted(Added(Vacate(x, b), x.table[b]), (b + 1) % size, size)

Removed(x, k) ==
  LET b == Bucket(x, k)
  IN IF x.table[b] = NULL THEN x
     ELSE Reinserted(Vacate(x, b), (b + 1) % Size(x), Size(x))

Without(x, y) == FoldLeft(LAMBDA z, t : Removed(z, Key[t]), x, AllItems(y))

\* Each bucket is looked at once.
FaultCommon(x, y, b) ==
  FoldLeft(LAMBDA z, i :
             IF z.table[i - 1] = NULL \/ ItemOf(y, Key[z.table[i - 1]]) # NULL THEN z
             ELSE Removed(z, Key[z.table[i - 1]]),
           x, [i \in 1..Size(x) |-> i])

\* A bucket is looked at again when its item was removed: another may be there.
RECURSIVE Common(_, _, _)
Common(x, y, b) ==
  IF b = Size(x) THEN x
  ELSE IF x.table[b] # NULL /\ ItemOf(y, Key[x.table[b]]) = NULL
       THEN Common(Removed(x, Key[x.table[b]]), y, b)
       ELSE Common(x, y, b + 1)

---------------------------------------------------------------------------
Init ==
  /\ set \in [Name -> {Empty(c) : c \in Capacities}]
  /\ ret = [op |-> "new", value |-> NULL]

Returns(op, value) == ret' = [op |-> op, value |-> value]

Changes(s, x) ==
  /\ Len(AllItems(x)) <= MaxItems[s]
  /\ set' = [set EXCEPT ![s] = x]

BRSetAdd(s, t) == Changes(s, Added(set[s], t)) /\ Returns("add", ItemOf(set[s], Key[t]))

BRSetRemove(s, t) ==
  Changes(s, Removed(set[s], Key[t])) /\ Returns("remove", ItemOf(set[s], Key[t]))

BRSetClear(s) ==
  /\ Changes(s, [table |-> [b \in DOMAIN set[s].table |-> NULL], itemCount |-> 0])
  /\ Returns("clear", NULL)

BRSetUnion(s, o) == Changes(s, Joined(set[s], set[o])) /\ Returns("union", NULL)

BRSetMinus(s, o) == Changes(s, Without(set[s], set[o])) /\ Returns("minus", NULL)

BRSetIntersect(s, o) == Changes(s, Common(set[s], set[o], 0)) /\ Returns("intersect", NULL)

BRSetGet(s, t) == UNCHANGED set /\ Returns("get", ItemOf(set[s], Key[t]))

BRSetCount(s) == UNCHANGED set /\ Returns("count", set[s].itemCount)

BRSetIntersects(s, o) ==
  /\ UNCHANGED set
  /\ Returns("intersects",
       IF \E t \in ToSet(AllItems(set[o])) : ItemOf(set[s], Key[t]) # NULL THEN 1 ELSE 0)

Next ==
  \E s \in Name :
    \/ BRSetClear(s) \/ BRSetCount(s)
    \/ \E t \in Item : BRSetAdd(s, t) \/ BRSetRemove(s, t) \/ BRSetGet(s, t)
    \/ \E o \in Name \ {s} :
         BRSetUnion(s, o) \/ BRSetMinus(s, o) \/ BRSetIntersect(s, o) \/ BRSetIntersects(s, o)

Spec == Init /\ [][Next]_vars

---------------------------------------------------------------------------
\* The table is the set it promises to be: whatever was added, removed, joined
\* or intersected before, in whatever order items met in their buckets, went
\* round its end or moved to a larger table, every call returns what it
\* returns of a set, and the items listed are the members.
Abstract == INSTANCE ItemSet WITH members <- [s \in Name |-> ToSet(AllItems(set[s]))]
SetSpec == Abstract!Spec
=============================================================================
