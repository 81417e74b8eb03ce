------------------------- MODULE WalletStoreProofs -------------------------
(***************************************************************************)
(* What holds of WalletStore for every set of transactions, any queue and  *)
(* any restarts: that table, wallet and listener agree, as long as what is *)
(* listed is the wallet's own; and a condition under which it is.          *)
(***************************************************************************)
EXTENDS WalletStore, BRWalletProofs

-----------------------------------------------------------------------------
(***************************************************************************)
(* Rows, and jobs about them.                                              *)
(***************************************************************************)
Row == [tx : Tx, h : HeightsOrUnconfirmed, ts : Stamps \cup {0}]

Jobs ==
  [kind : {"added", "deleted"}, txs : {{t} : t \in Tx}, h : {0}, ts : {0}]
    \cup [kind : {"updated"}, txs : SUBSET Tx, h : HeightsOrUnconfirmed, ts : Stamps \cup {0}]

StoreType ==
  /\ table \in Seq(Row) /\ rows \in Seq(Row)
  /\ queue \in Seq(Jobs)
  /\ phase \in {"loading", "checking", "up"}

-----------------------------------------------------------------------------
(***************************************************************************)
(* What the listener knows.                                                *)
(***************************************************************************)
Stack == Elems(todo)

\* The frames on the stack are those of one operation.
RemovalOps == {"recount", "count", "remove", "removed"}
UpdateOps == {"recount", "count", "set", "endset", "updated"}
Within(ops) == \A f \in Stack : f.op \in ops
AddedLast == \A i \in DOMAIN todo : todo[i].op = "added" => i = Len(todo)
SetsEnd == \A f \in Stack : f.op = "set" => todo[Len(todo)].op = "endset"
OneOperation ==
  AddedLast /\ SetsEnd /\ \E ops \in {RegistrationOps, RemovalOps, UpdateOps} : Within(ops)

Listed == Distinct(transactions) /\ Registered \subseteq allTx

Knows(t) == told.height[t] # -1
Awaited(op, t) == \E f \in Stack : f.op = op /\ f.tx = t

\* The listener knows what is listed, but for the callbacks to come.
ToldInv ==
  /\ \A t \in Registered : Knows(t) \/ Awaited("added", t)
  /\ \A t \in Tx \ Registered : ~ Knows(t) \/ Awaited("removed", t)
  /\ \A f \in Stack : f.op = "added" => f.tx \in Registered /\ ~ Knows(f.tx)
  /\ \A f \in Stack : f.op = "removed" => f.tx \notin allTx
  /\ \A t \in Registered \ upd.txs : Knows(t) => told.height[t] = height[t]

\* An update gives one height to all it changes, and tells of them at its end.
UpdInv ==
  /\ \A f, g \in Stack : {f.op, g.op} \subseteq {"set", "endset", "updated"} => f.h = g.h
  /\ \A f \in Stack : f.op \in {"set", "endset", "updated"} =>
       \A t \in Registered \cap upd.txs : height[t] = f.h
  /\ upd.txs # {} => \E f \in Stack : f.op \in {"endset", "updated"}

WalletInv == OneOperation /\ Listed /\ ToldInv /\ UpdInv

-----------------------------------------------------------------------------
(***************************************************************************)
(* What the table will hold when the queue is worked off.                  *)
(***************************************************************************)
JobsOf(kind, t) == {i \in DOMAIN queue : queue[i].kind = kind /\ t \in queue[i].txs}
Rows(t) == {r \in DOMAIN table : table[r].tx = t}

\* Nothing deletes a row that is still to be inserted, and there is one at a time;
\* the old row, if there is one, is deleted before.
InsertedOnce(t) ==
  /\ \A i \in JobsOf("added", t) : \A j \in JobsOf("added", t) \cup JobsOf("deleted", t) : j <= i
  /\ JobsOf("added", t) # {} /\ Rows(t) # {} => JobsOf("deleted", t) # {}

\* The listener knows what has a row, or will have one.
KnownStored(t) ==
  Knows(t) <=> \/ JobsOf("added", t) # {}
               \/ Rows(t) # {} /\ JobsOf("deleted", t) = {}

\* The last update of a row carries the height the listener knows, and so does
\* a row that no job is about, unless it has that of an update under way.
HeightStored(t) ==
  Knows(t) =>
    /\ \A i \in JobsOf("updated", t) :
         (\A j \in JobsOf("updated", t) \cup JobsOf("added", t) : j <= i)
           => queue[i].h = told.height[t]
    /\ JobsOf("updated", t) \cup JobsOf("added", t) = {} =>
         \A r \in Rows(t) : \/ table[r].h = told.height[t]
                            \/ t \in upd.txs /\ table[r].h = height[t]

QueueInv ==
  /\ ToBeAdded \subseteq allTx
  /\ \A t \in Tx : InsertedOnce(t) /\ KnownStored(t) /\ HeightStored(t)

-----------------------------------------------------------------------------
(***************************************************************************)
(* A start.                                                                *)
(***************************************************************************)
Stored == {table[r].tx : r \in DOMAIN table}

StartInv ==
  /\ queue = <<>> /\ upd = NoUpd
  /\ allTx = Registered /\ Distinct(transactions)
  /\ \A t \in Tx : told.height[t] = IF t \in Stored THEN height[t] ELSE -1
  /\ \A r \in DOMAIN table : table[r].h = height[table[r].tx]
  /\ phase = "loading" => todo = <<>> /\ Registered \cup {rows[i].tx : i \in DOMAIN rows} = Stored
  /\ phase = "checking" => Within({"recount", "count"}) /\ Registered = Stored

OneRow == \A r, s \in DOMAIN table : table[r].tx = table[s].tx => r = s

StoreInv ==
  /\ OneRow
  /\ phase = "up" => WalletInv /\ QueueInv
  /\ phase # "up" => StartInv

-----------------------------------------------------------------------------
(***************************************************************************)
(* The stack of frames, as the set of what is on it.                       *)
(***************************************************************************)
LEMMA ElemsConcat ==
  ASSUME NEW S, NEW fs \in Seq(S), NEW gs \in Seq(S)
  PROVE  Elems(fs \o gs) = Elems(fs) \cup Elems(gs)
<1> DEFINE hs == fs \o gs
<1>1. Len(fs) \in Nat /\ DOMAIN fs = 1 .. Len(fs) /\ Len(gs) \in Nat /\ DOMAIN gs = 1 .. Len(gs)
  BY LenProperties
<1>2. DOMAIN hs = 1 .. Len(fs) + Len(gs)
      /\ \A i \in 1 .. Len(fs) + Len(gs) :
           hs[i] = IF i <= Len(fs) THEN fs[i] ELSE gs[i - Len(fs)]
  BY <1>1, ConcatProperties, LenProperties
<1> HIDE DEF hs
<1>3. ASSUME NEW i \in DOMAIN hs PROVE hs[i] \in Elems(fs) \cup Elems(gs)
  <2>1. i <= Len(fs) => i \in DOMAIN fs
    BY <1>1, <1>2
  <2>2. ~ (i <= Len(fs)) => i - Len(fs) \in DOMAIN gs
    BY <1>1, <1>2
  <2> QED BY <1>2, <2>1, <2>2 DEF Elems
<1>4. ASSUME NEW i \in DOMAIN fs PROVE fs[i] \in Elems(hs)
  <2>1. i \in DOMAIN hs /\ hs[i] = fs[i]
    BY <1>1, <1>2
  <2> QED BY <2>1 DEF Elems
<1>5. ASSUME NEW i \in DOMAIN gs PROVE gs[i] \in Elems(hs)
  <2>1. i + Len(fs) \in DOMAIN hs /\ ~ (i + Len(fs) <= Len(fs)) /\ (i + Len(fs)) - Len(fs) = i
    BY <1>1, <1>2
  <2>2. hs[i + Len(fs)] = gs[i]
    BY <1>2, <2>1
  <2> QED BY <2>1, <2>2 DEF Elems
<1>6. Elems(hs) = Elems(fs) \cup Elems(gs)
  BY <1>3, <1>4, <1>5 DEF Elems
<1> QED BY <1>6 DEF hs

LEMMA ElemsFew ==
  /\ Elems(<<>>) = {}
  /\ \A a : Elems(<<a>>) = {a}
  /\ \A a, b : Elems(<<a, b>>) = {a, b}
BY DEF Elems

LEMMA ElemsHead ==
  ASSUME NEW S, NEW s \in Seq(S), s # <<>>
  PROVE  /\ Elems(s) = {Head(s)} \cup Elems(Tail(s))
         /\ Head(s) \in S /\ Tail(s) \in Seq(S)
<1>1. /\ Len(s) \in Nat /\ DOMAIN s = 1 .. Len(s) /\ Len(s) >= 1
      /\ Head(s) \in S /\ Head(s) = s[1] /\ Tail(s) \in Seq(S)
      /\ DOMAIN Tail(s) = 1 .. (Len(s) - 1)
      /\ \A i \in 1 .. (Len(s) - 1) : Tail(s)[i] = s[i + 1]
  BY EmptySeq, LenProperties, HeadTailProperties
<1>2. ASSUME NEW i \in DOMAIN s PROVE s[i] = Head(s) \/ s[i] \in Elems(Tail(s))
  <2>1. i # 1 => i - 1 \in DOMAIN Tail(s) /\ (i - 1) + 1 = i
    BY <1>1
  <2>2. i # 1 => Tail(s)[i - 1] = s[i]
    BY <1>1, <2>1
  <2> QED BY <1>1, <2>1, <2>2 DEF Elems
<1>3. ASSUME NEW i \in DOMAIN Tail(s) PROVE Tail(s)[i] \in Elems(s)
  <2>1. i + 1 \in DOMAIN s
    BY <1>1
  <2> QED BY <1>1, <2>1 DEF Elems
<1>4. Head(s) \in Elems(s)
  BY <1>1 DEF Elems
<1>5. Elems(s) = {Head(s)} \cup Elems(Tail(s))
  BY <1>2, <1>3, <1>4 DEF Elems
<1> QED BY <1>1, <1>5

LEMMA StackShape ==
  ASSUME TypeInv, todo # <<>>
  PROVE  Top \in Stack /\ Stack = {Top} \cup Elems(Tail(todo))
<1>1. todo \in Seq(Frames)
  BY DEF TypeInv, TodoType
<1> QED BY <1>1, ElemsHead DEF Stack, Top

LEMMA StackContinue ==
  ASSUME TypeInv, todo # <<>>, NEW fs \in Seq(Frames), Continue(fs)
  PROVE  /\ Stack' = Elems(fs) \cup Elems(Tail(todo))
         /\ Stack = {Top} \cup Elems(Tail(todo))
<1>1. Tail(todo) \in Seq(Frames) /\ todo \in Seq(Frames)
  BY FrameType, TypeInvOK DEF TypeInv, TodoType
<1>2. Stack = {Top} \cup Elems(Tail(todo))
  BY StackShape
<1>3. Stack' = Elems(fs) \cup Elems(Tail(todo))
  <2> DEFINE rest == Tail(todo)
  <2>1. todo' = fs \o rest
    BY DEF Continue
  <2>2. rest \in Seq(Frames)
    BY <1>1
  <2> HIDE DEF rest
  <2>3. Elems(fs \o rest) = Elems(fs) \cup Elems(rest)
    BY <2>2, ElemsConcat
  <2>4. Stack' = Elems(fs) \cup Elems(rest)
    BY <2>1, <2>3 DEF Stack
  <2> QED BY <2>4 DEF rest
<1> QED BY <1>2, <1>3

LEMMA AddedContinue ==
  ASSUME TypeInv, todo # <<>>, AddedLast, NEW fs \in Seq(Frames), Continue(fs),
         \A f \in Elems(fs) : f.op # "added"
  PROVE  AddedLast'
<1> DEFINE rest == Tail(todo)
           m == Len(fs)
<1>1. rest \in Seq(Frames) /\ m \in Nat /\ DOMAIN fs = 1 .. m
  BY FrameType, TypeInvOK, LenProperties
<1>2. /\ Len(todo) \in Nat /\ DOMAIN todo = 1 .. Len(todo) /\ Len(rest) = Len(todo) - 1
      /\ \A i \in 1 .. Len(todo) - 1 : rest[i] = todo[i + 1]
  BY TodoShape
<1> HIDE DEF rest, m
<1>3. /\ Len(todo') = m + Len(rest) /\ DOMAIN todo' = 1 .. m + Len(rest)
      /\ \A i \in 1 .. m + Len(rest) : todo'[i] = IF i <= m THEN fs[i] ELSE rest[i - m]
  <2>1. todo' = fs \o rest
    BY DEF Continue, rest
  <2> QED BY <1>1, <2>1, ConcatProperties, LenProperties DEF m
<1> SUFFICES ASSUME NEW i \in DOMAIN todo', todo'[i].op = "added" PROVE i = Len(todo')
  BY DEF AddedLast
<1>4. ~ (i <= m)
  <2>1. i <= m => i \in DOMAIN fs /\ todo'[i] = fs[i]
    BY <1>1, <1>3
  <2> QED BY <2>1 DEF Elems
<1>5. i - m \in 1 .. Len(todo) - 1 /\ i \in Nat
  BY <1>1, <1>2, <1>3, <1>4
<1>6. todo'[i] = todo[(i - m) + 1] /\ (i - m) + 1 \in DOMAIN todo
  BY <1>2, <1>3, <1>4, <1>5
<1>7. (i - m) + 1 = Len(todo)
  BY <1>6 DEF AddedLast
<1> QED BY <1>1, <1>2, <1>3, <1>5, <1>7

LEMMA SetsContinue ==
  ASSUME TypeInv, todo # <<>>, SetsEnd, NEW fs \in Seq(Frames), Continue(fs),
         \A f \in Elems(fs) : f.op # "set"
  PROVE  SetsEnd' /\ (Top.op = "set" => \E f \in Elems(Tail(todo)) : f.op = "endset")
<1> DEFINE rest == Tail(todo)
           m == Len(fs)
<1>1. rest \in Seq(Frames) /\ m \in Nat
  BY FrameType, TypeInvOK, LenProperties
<1>2. /\ Len(todo) \in Nat /\ DOMAIN todo = 1 .. Len(todo) /\ 1 \in DOMAIN todo
      /\ Len(rest) = Len(todo) - 1 /\ DOMAIN rest = 1 .. Len(todo) - 1
      /\ Top = todo[1] /\ \A i \in 1 .. Len(todo) - 1 : rest[i] = todo[i + 1]
  BY TodoShape
<1>3. Stack' = Elems(fs) \cup Elems(rest) /\ Stack = {Top} \cup Elems(rest)
  BY StackContinue
<1> HIDE DEF rest, m
<1>4. /\ Len(todo') = m + Len(rest)
      /\ \A i \in 1 .. m + Len(rest) : todo'[i] = IF i <= m THEN fs[i] ELSE rest[i - m]
  <2>1. todo' = fs \o rest
    BY DEF Continue, rest
  <2> QED BY <1>1, <2>1, ConcatProperties DEF m
<1>5. ASSUME NEW f \in Elems(rest), f.op = "set" PROVE todo'[Len(todo')].op = "endset"
  <2>1. Len(todo) # 1
    BY <1>2, <1>5 DEF Elems
  <2>2. todo'[Len(todo')] = todo[Len(todo)]
    <3>1. Len(todo') \in 1 .. m + Len(rest) /\ ~ (Len(todo') <= m) /\ Len(todo') - m = Len(todo) - 1
      BY <1>1, <1>2, <1>4, <2>1
    <3>2. Len(todo) - 1 \in 1 .. Len(todo) - 1 /\ (Len(todo) - 1) + 1 = Len(todo)
      BY <1>2, <2>1
    <3> QED BY <1>2, <1>4, <3>1, <3>2
  <2> QED BY <1>3, <1>5, <2>2 DEF SetsEnd
<1>6. ASSUME Top.op = "set" PROVE \E f \in Elems(rest) : f.op = "endset"
  <2>1. todo[Len(todo)].op = "endset"
    BY <1>3, <1>6 DEF SetsEnd
  <2>2. Len(todo) # 1
    BY <1>2, <1>6, <2>1
  <2>3. Len(todo) - 1 \in DOMAIN rest /\ (Len(todo) - 1) + 1 = Len(todo)
    BY <1>2, <2>2
  <2>4. rest[Len(todo) - 1] = todo[Len(todo)]
    BY <1>2, <2>3
  <2> QED BY <2>1, <2>3, <2>4 DEF Elems
<1> QED BY <1>3, <1>5, <1>6 DEF SetsEnd, rest

LEMMA OperationContinue ==
  ASSUME TypeInv, todo # <<>>, OneOperation, NEW fs \in Seq(Frames), Continue(fs),
         \A f \in Elems(fs) :
           /\ f.op \notin {"added", "set"}
           /\ \A ops \in {RegistrationOps, RemovalOps, UpdateOps} : Top.op \in ops => f.op \in ops
  PROVE  OneOperation'
<1>1. AddedLast' /\ SetsEnd'
  BY AddedContinue, SetsContinue DEF OneOperation
<1>2. PICK ops \in {RegistrationOps, RemovalOps, UpdateOps} : Within(ops)
  BY DEF OneOperation
<1>3. Within(ops)'
  BY <1>2, StackContinue DEF Within
<1> QED BY <1>1, <1>3 DEF OneOperation

LEMMA OperationStart ==
  ASSUME NEW fs, Start(fs), \A i \in DOMAIN fs : fs[i].op = "added" => i = Len(fs),
         \A f \in Elems(fs) : f.op = "set" => fs[Len(fs)].op = "endset",
         NEW ops \in {RegistrationOps, RemovalOps, UpdateOps}, \A f \in Elems(fs) : f.op \in ops
  PROVE  OneOperation' /\ Stack = {} /\ Stack' = Elems(fs)
<1>1. todo' = fs /\ todo = <<>>
  BY DEF Start, Idle
<1> HIDE DEF RegistrationOps, RemovalOps, UpdateOps
<1> QED BY <1>1 DEF OneOperation, AddedLast, SetsEnd, Within, Stack, Elems

\* On top, a frame says which operation is under way.
LEMMA OperationOf ==
  ASSUME TypeInv, OneOperation, todo # <<>>
  PROVE  /\ Top.op \in {"remove", "removed"} => Within(RemovalOps)
         /\ Top.op \in {"set", "endset", "updated"} => Within(UpdateOps)
         /\ Top.op \in {"unusedExternal", "unusedInternal", "added"} => Within(RegistrationOps)
         /\ Top.op = "added" => Tail(todo) = <<>>
<1>1. PICK ops \in {RegistrationOps, RemovalOps, UpdateOps} : Within(ops)
  BY DEF OneOperation
<1>2. Top \in Stack
  BY TodoShape DEF Stack, Elems
<1>3. Top.op = "added" => Tail(todo) = <<>>
  <2>1. Top.op = "added" => Len(todo) = 1
    BY TodoShape DEF OneOperation, AddedLast
  <2>2. Len(todo) = 1 => Len(Tail(todo)) = 0 /\ Tail(todo) \in Seq(Frames)
    BY TodoShape, FrameType, TypeInvOK
  <2> QED BY <2>1, <2>2, EmptySeq
<1> QED BY <1>1, <1>2, <1>3 DEF Within, RegistrationOps, RemovalOps, UpdateOps

-----------------------------------------------------------------------------
(***************************************************************************)
(* Steps of the wallet that tell nobody.                                   *)
(***************************************************************************)
LEMMA Unlisted ==
  ASSUME UNCHANGED transactions
  PROVE  Registered' = Registered /\ (Listed /\ allTx \subseteq allTx' => Listed')
BY DEF Registered, Listed, Distinct

\* A frame that leaves the list, the heights and the listener as they are.
LEMMA QuietContinue ==
  ASSUME TypeInv, WalletInv, todo # <<>>, NEW fs \in Seq(Frames), Continue(fs),
         UNCHANGED <<allTx, transactions, height, told, upd>>,
         Top.op \notin {"added", "removed", "updated"},
         \A f \in Elems(fs) :
           /\ f.op \notin {"added", "removed", "set", "endset"}
           /\ f.op = "updated" => Top.op = "endset" /\ f.h = Top.h
           /\ \A ops \in {RegistrationOps, RemovalOps, UpdateOps} : Top.op \in ops => f.op \in ops,
         Top.op = "endset" /\ upd.txs # {} => \E f \in Elems(fs) : f.op = "updated"
  PROVE  WalletInv'
<1>1. OneOperation'
  BY OperationContinue DEF WalletInv
<1>2. Listed' /\ Registered' = Registered
  BY Unlisted DEF WalletInv
<1> DEFINE rest == Elems(Tail(todo))
<1>3. Stack' = Elems(fs) \cup rest /\ Stack = {Top} \cup rest
  BY StackContinue
<1> HIDE DEF rest
<1>4. ToldInv'
  <2>1. \A t \in Tx : Knows(t)' <=> Knows(t)
    BY DEF Knows
  <2>2. \A f \in Stack : f.op \in {"added", "removed"} => f \in Stack'
    BY <1>3
  <2>3. \A f \in Stack' : f.op \in {"added", "removed"} => f \in Stack
    BY <1>3
  <2>4. \A t \in Tx : (Awaited("added", t) => Awaited("added", t)')
                      /\ (Awaited("removed", t) => Awaited("removed", t)')
    BY <2>2 DEF Awaited
  <2>5. Registered \subseteq Tx
    BY HeightNat
  <2>6. \A f \in Stack' : f.op = "added" => f.tx \in Tx /\ f.tx \in Registered /\ ~ Knows(f.tx)
    BY <2>3, <2>5 DEF WalletInv, ToldInv
  <2> QED BY <1>2, <2>1, <2>3, <2>4, <2>5, <2>6 DEF WalletInv, ToldInv
<1>5. UpdInv'
  <2>1. \A f \in Stack' : f.op \in {"set", "endset", "updated"} =>
          \E g \in Stack : g.op \in {"set", "endset", "updated"} /\ g.h = f.h
    BY <1>3
  <2>2. upd.txs # {} => \E f \in Stack' : f.op \in {"endset", "updated"}
    BY <1>3 DEF WalletInv, UpdInv
  <2> QED BY <1>2, <2>1, <2>2 DEF WalletInv, UpdInv
<1> QED BY <1>1, <1>2, <1>4, <1>5 DEF WalletInv

\* Nothing is owed to the listener between operations.
LEMMA IdleKnows ==
  ASSUME TypeInv, WalletInv, Idle
  PROVE  /\ upd.txs = {} /\ Stack = {}
         /\ \A t \in Tx : Knows(t) <=> t \in Registered
         /\ \A t \in Registered : told.height[t] = height[t]
<1>1. Stack = {}
  BY DEF Idle, Stack, Elems
<1>2. upd.txs = {}
  BY <1>1 DEF WalletInv, UpdInv
<1>3. Registered \subseteq Tx
  BY HeightNat
<1> QED BY <1>1, <1>2, <1>3 DEF WalletInv, ToldInv, Awaited

\* An operation that begins so.
LEMMA QuietStart ==
  ASSUME TypeInv, WalletInv, NEW fs, Start(fs),
         UNCHANGED <<allTx, transactions, height, told>>, upd' \in {upd, NoUpd},
         NEW ops \in {RegistrationOps, RemovalOps, UpdateOps},
         \A f \in Elems(fs) : f.op \in ops /\ f.op \notin {"added", "removed"},
         \A f, g \in Elems(fs) : {f.op, g.op} \subseteq {"set", "endset", "updated"} => f.h = g.h,
         \A f \in Elems(fs) : f.op = "set" => fs[Len(fs)].op = "endset"
  PROVE  WalletInv'
<1>1. \A i \in DOMAIN fs : fs[i].op = "added" => i = Len(fs)
  BY DEF Elems
<1>2. OneOperation' /\ Stack' = Elems(fs)
  BY <1>1, OperationStart
<1>3. Listed' /\ Registered' = Registered
  BY Unlisted DEF WalletInv
<1>4. /\ upd.txs = {} /\ \A t \in Tx : Knows(t) <=> t \in Registered
      /\ \A t \in Registered : told.height[t] = height[t]
  BY IdleKnows DEF Start
<1>5. upd'.txs = {}
  BY <1>4 DEF NoUpd
<1>6. \A t \in Tx : Knows(t)' <=> Knows(t)
  BY DEF Knows
<1>7. Registered \subseteq Tx
  BY HeightNat
<1>8. ToldInv'
  BY <1>2, <1>3, <1>4, <1>6, <1>7 DEF ToldInv, Awaited
<1>9. UpdInv'
  BY <1>2, <1>5 DEF UpdInv
<1> QED BY <1>2, <1>3, <1>8, <1>9 DEF WalletInv

\* A step that touches none of all this.
LEMMA QuietRest ==
  ASSUME WalletInv, UNCHANGED <<allTx, transactions, height, told, upd, todo>>
  PROVE  WalletInv'
BY DEF WalletInv, OneOperation, AddedLast, SetsEnd, Within, Stack, Elems, Listed, Distinct, Registered,
       ToldInv, UpdInv, Knows, Awaited

-----------------------------------------------------------------------------
(***************************************************************************)
(* The operations of the wallet, frame by frame.                           *)
(***************************************************************************)
LEMMA WalletRegister ==
  ASSUME TypeInv, WalletInv, NEW t \in Tx, NEW ts \in Stamps \cup {0}, RegisterWalletTx(t, ts)
  PROVE  WalletInv'
<1> DEFINE add == Frame("added", t, 0, 0)
           g == <<Recount>> \o Unused(0)
           fs == g \o <<add>>
<1>1. Start(fs) /\ t \notin allTx /\ allTx' = allTx \cup {t} /\ UNCHANGED <<told, upd>>
  BY DEF RegisterWalletTx, Learn
<1>2. add \in Frames /\ add.op = "added" /\ add.tx = t
  BY TypeInvOK, FrameType DEF Frame
<1> HIDE DEF add
<1>3. g \in Seq(Frames) /\ \A f \in Elems(g) : f.op \in {"recount", "unusedExternal", "unusedInternal"}
  <2> DEFINE r == <<Recount>>
             u == Unused(0)
  <2>1. r \in Seq(Frames) /\ u \in Seq(Frames)
    BY TypeInvOK, FrameType
  <2>2. \A f \in Elems(r) : f.op = "recount"
    BY ElemsFew DEF Recount, Frame
  <2>3. \A f \in Elems(u) : f.op \in {"unusedExternal", "unusedInternal"}
    BY ElemsFew DEF Unused, Frame
  <2> HIDE DEF r, u
  <2>4. r \o u \in Seq(Frames) /\ Elems(r \o u) = Elems(r) \cup Elems(u)
    BY <2>1, ElemsConcat, ConcatProperties
  <2> QED BY <2>2, <2>3, <2>4 DEF r, u
<1> HIDE DEF g
<1>4. Elems(fs) = Elems(g) \cup {add}
  <2> DEFINE a == <<add>>
  <2>1. a \in Seq(Frames) /\ Elems(a) = {add}
    BY <1>2, ElemsFew
  <2> HIDE DEF a
  <2>2. Elems(g \o a) = Elems(g) \cup Elems(a)
    BY <1>3, <2>1, ElemsConcat
  <2> QED BY <2>1, <2>2 DEF a
<1>5. ASSUME NEW i \in DOMAIN fs, fs[i].op = "added" PROVE i = Len(fs)
  <2>1. /\ Len(fs) = Len(g) + 1 /\ DOMAIN fs = 1 .. Len(g) + 1
        /\ \A j \in 1 .. Len(g) + 1 : fs[j] = IF j <= Len(g) THEN g[j] ELSE add
    BY <1>2, <1>3, Joined
  <2>2. Len(g) \in Nat /\ DOMAIN g = 1 .. Len(g)
    BY <1>3, LenProperties
  <2> HIDE DEF fs
  <2>3. i <= Len(g) => i \in DOMAIN g /\ fs[i] = g[i]
    BY <2>1, <2>2
  <2>4. ~ (i <= Len(g))
    BY <1>3, <1>5, <2>3 DEF Elems
  <2> QED BY <2>1, <2>2, <2>4
<1> HIDE DEF fs
<1>6. OneOperation' /\ Stack' = Elems(fs)
  BY <1>1, <1>2, <1>3, <1>4, <1>5, OperationStart DEF RegistrationOps
<1>7. /\ upd.txs = {} /\ \A u \in Tx : Knows(u) <=> u \in Registered
      /\ \A u \in Registered : told.height[u] = height[u]
  BY <1>1, IdleKnows DEF Start
<1>8. Registered \subseteq allTx /\ Registered \subseteq Tx /\ Distinct(transactions)
  BY HeightNat DEF WalletInv, Listed
<1>9. Registered' = Registered \cup {t} /\ Distinct(transactions')
  <2>1. transactions \in Seq(Tx) /\ transactions' = InsertTx(height', transactions, t)
    BY DEF TypeInv, HoldingsType, RegisterWalletTx
  <2>2. t \notin Elems(transactions)
    BY <1>1, <1>8, RegisteredElems
  <2>3. Elems(transactions') = Elems(transactions) \cup {t} /\ Distinct(transactions')
    BY <1>8, <2>1, <2>2, InsertTxElems
  <2> QED BY <2>3 DEF Registered, Elems
<1>10. Listed'
  BY <1>1, <1>8, <1>9 DEF Listed
<1>11. \A u \in Registered : height'[u] = height[u]
  BY <1>1, <1>8 DEF RegisterWalletTx, Learn, TypeInv, HoldingsType
<1>12. \A u \in Tx : Knows(u)' <=> Knows(u)
  BY <1>1 DEF Knows
<1>13. Awaited("added", t)' /\ ~ Knows(t)
  BY <1>1, <1>2, <1>4, <1>6, <1>7, <1>8 DEF Awaited
<1>14. ToldInv'
  <2>1. \A f \in Stack' : f.op \in {"added", "removed"} => f = add
    BY <1>3, <1>4, <1>6
  <2>2. \A u \in Registered' \ upd'.txs : Knows(u)' => told'.height[u] = height'[u]
    BY <1>1, <1>7, <1>8, <1>9, <1>11, <1>12, <1>13
  <2> QED BY <1>2, <1>7, <1>8, <1>9, <1>12, <1>13, <2>1, <2>2 DEF ToldInv
<1>15. UpdInv'
  BY <1>1, <1>2, <1>3, <1>4, <1>6, <1>7 DEF UpdInv
<1> QED BY <1>6, <1>10, <1>14, <1>15 DEF WalletInv

LEMMA WalletRegisterOther ==
  ASSUME TypeInv, WalletInv, NEW t \in Tx, NEW ts \in Stamps \cup {0}, RegisterOtherTx(t, ts)
  PROVE  WalletInv'
<1>1. /\ t \notin allTx /\ allTx' = allTx \cup {t}
      /\ UNCHANGED <<transactions, told, upd, todo>> /\ Idle
  BY DEF RegisterOtherTx, Learn
<1>2. Registered' = Registered /\ Listed' /\ Registered \subseteq allTx /\ Registered \subseteq Tx
  BY <1>1, HeightNat, Unlisted DEF WalletInv, Listed
<1>3. \A u \in Registered : height'[u] = height[u]
  BY <1>1, <1>2 DEF RegisterOtherTx, Learn, TypeInv, HoldingsType
<1>4. Stack = {} /\ Stack' = {} /\ OneOperation'
  BY <1>1, IdleKnows DEF Stack, Elems, OneOperation, AddedLast, SetsEnd, Within, WalletInv
<1>5. \A u \in Tx : Knows(u)' <=> Knows(u)
  BY <1>1 DEF Knows
<1>6. ToldInv'
  BY <1>1, <1>2, <1>3, <1>4, <1>5 DEF WalletInv, ToldInv, Awaited
<1>7. UpdInv'
  BY <1>1, <1>4 DEF WalletInv, UpdInv
<1> QED BY <1>2, <1>4, <1>6, <1>7 DEF WalletInv

LEMMA WalletUpdate ==
  ASSUME TypeInv, WalletInv, NEW txs \in Seq(Tx), NEW h \in HeightsOrUnconfirmed,
         NEW ts \in Stamps \cup {0}, UpdateTransactions(txs, h, ts)
  PROVE  WalletInv'
<1> DEFINE e == Frame("endset", "unknown", h, ts)
           ss == [i \in 1 .. Len(txs) |-> Frame("set", txs[i], h, ts)]
           fs == ss \o <<e>>
<1>1. Len(txs) \in Nat /\ \A i \in 1 .. Len(txs) : txs[i] \in Tx
  BY LenProperties, ElementOfSeq
<1>2. ss \in Seq(Frames)
  <2>1. ss \in [1 .. Len(txs) -> Frames]
    BY <1>1, TypeInvOK, FrameType
  <2> QED BY <1>1, <2>1, SeqDef
<1>3. \A f \in Elems(ss) : f.op = "set" /\ f.h = h
  BY DEF Elems, Frame
<1>4. e \in Frames /\ e.op = "endset" /\ e.h = h
  BY TypeInvOK, FrameType DEF Frame
<1> HIDE DEF ss, e
<1>5. Elems(fs) = Elems(ss) \cup {e} /\ fs[Len(fs)] = e
  <2> DEFINE a == <<e>>
  <2>1. a \in Seq(Frames) /\ Elems(a) = {e}
    BY <1>4, ElemsFew
  <2>2. fs[Len(fs)] = e
    <3>1. Len(ss) \in Nat
      BY <1>2, LenProperties
    <3>2. /\ Len(fs) = Len(ss) + 1
          /\ \A i \in 1 .. Len(ss) + 1 : fs[i] = IF i <= Len(ss) THEN ss[i] ELSE e
      BY <1>2, <1>4, Joined
    <3> HIDE DEF fs
    <3> QED BY <3>1, <3>2
  <2> HIDE DEF a
  <2>3. Elems(ss \o a) = Elems(ss) \cup Elems(a)
    BY <1>2, <2>1, ElemsConcat
  <2>4. fs = ss \o a
    BY DEF a
  <2> HIDE DEF fs
  <2> QED BY <2>1, <2>2, <2>3, <2>4
<1>6. Start(fs) /\ UNCHANGED <<allTx, transactions, height, told>> /\ upd' = NoUpd
  BY DEF UpdateTransactions, holdings, ss, e
<1> HIDE DEF fs
<1>7. /\ \A f \in Elems(fs) : f.op \in UpdateOps /\ f.op \notin {"added", "removed"}
      /\ \A f, g \in Elems(fs) : {f.op, g.op} \subseteq {"set", "endset", "updated"} => f.h = g.h
      /\ \A f \in Elems(fs) : f.op = "set" => fs[Len(fs)].op = "endset"
  BY <1>3, <1>4, <1>5 DEF UpdateOps
<1> QED BY <1>6, <1>7, QuietStart

LEMMA WalletUpdates ==
  ASSUME TypeInv, WalletInv,
         \/ \E txs \in Blocks, h \in Heights, ts \in Stamps : ConfirmTxs(txs, h, ts)
         \/ \E t \in Tx, ts \in Stamps : MarkVerified(t, ts)
         \/ \E t \in Tx : MarkUnverified(t)
  PROVE  WalletInv'
<1>1. Blocks \subseteq Seq(Tx)
  BY TxAssumption
<1>2. \A t \in Tx : <<t>> \in Seq(Tx)
  OBVIOUS
<1> QED BY <1>1, <1>2, WalletUpdate
        DEF ConfirmTxs, MarkVerified, MarkUnverified, HeightsOrUnconfirmed

LEMMA WalletStarts ==
  ASSUME TypeInv, WalletInv, (\E t \in Tx : StartRemove(t)) \/ LoadFilterAddrs
  PROVE  WalletInv'
<1>1. ASSUME NEW t \in Tx, StartRemove(t) PROVE WalletInv'
  <2> DEFINE fs == <<Frame("remove", t, 0, 0)>>
  <2>1. Start(fs) /\ UNCHANGED <<allTx, transactions, height, told, upd>>
    BY <1>1 DEF StartRemove, holdings
  <2>2. \A f \in Elems(fs) : f.op = "remove"
    BY ElemsFew DEF Frame
  <2> HIDE DEF fs
  <2> QED BY <2>1, <2>2, QuietStart DEF RemovalOps
<1>2. CASE LoadFilterAddrs
  <2> DEFINE fs == Unused(FILTER_GAP)
  <2>1. Start(fs) /\ UNCHANGED <<allTx, transactions, height, told, upd>>
    BY <1>2 DEF LoadFilterAddrs, holdings
  <2>2. \A f \in Elems(fs) : f.op \in {"unusedExternal", "unusedInternal"}
    BY ElemsFew DEF Frame, Unused
  <2> HIDE DEF fs
  <2> QED BY <2>1, <2>2, QuietStart DEF RegistrationOps
<1> QED BY <1>1, <1>2

LEMMA WalletReorganise ==
  ASSUME TypeInv, WalletInv, NEW h, SetTxUnconfirmedAfter(h)
  PROVE  WalletInv'
<1> DEFINE after == ConfirmedAfter(h)
           f == Frame("updated", "unknown", TX_UNCONFIRMED, 0)
<1>1. /\ height' = [t \in Tx |-> IF t \in after THEN TX_UNCONFIRMED ELSE height[t]]
      /\ upd' = [txs |-> after, needs |-> FALSE]
      /\ Start(IF after = {} THEN <<>> ELSE <<Recount, f>>)
      /\ UNCHANGED <<allTx, transactions, told>>
  BY DEF SetTxUnconfirmedAfter
<1>2. after \subseteq Registered
  BY DEF ConfirmedAfter, Registered
<1> HIDE DEF after
<1>3. CASE after = {}
  <2>1. Start(<<>>) /\ upd' = NoUpd
    BY <1>1, <1>3 DEF NoUpd
  <2>2. height' = height
    BY <1>1, <1>3 DEF TypeInv, HoldingsType
  <2>3. Elems(<<>>) = {}
    BY ElemsFew
  <2> QED BY <1>1, <2>1, <2>2, <2>3, QuietStart
<1>4. CASE after # {}
  <2> DEFINE fs == <<Recount, f>>
  <2>1. Start(fs)
    BY <1>1, <1>4
  <2>2. Elems(fs) = {Recount, f} /\ Recount.op = "recount" /\ f.op = "updated" /\ f.h = TX_UNCONFIRMED
    BY ElemsFew DEF Recount, Frame
  <2>3. \A i \in DOMAIN fs : fs[i] \in Elems(fs)
    BY DEF Elems
  <2> HIDE DEF fs, f
  <2>4. OneOperation' /\ Stack' = {Recount, f}
    <3>1. \A g \in Elems(fs) : g.op \in UpdateOps /\ g.op # "added" /\ g.op # "set"
      BY <2>2 DEF UpdateOps
    <3>2. \A i \in DOMAIN fs : fs[i].op = "added" => i = Len(fs)
      BY <2>3, <3>1
    <3> QED BY <2>1, <2>2, <3>1, <3>2, OperationStart
  <2>5. Registered' = Registered /\ Listed'
    BY <1>1, Unlisted DEF WalletInv
  <2>6. /\ \A t \in Tx : Knows(t) <=> t \in Registered
        /\ \A t \in Registered : told.height[t] = height[t]
    BY <2>1, IdleKnows DEF Start
  <2>7. Registered \subseteq Tx
    BY HeightNat
  <2>8. \A t \in Tx : Knows(t)' <=> Knows(t)
    BY <1>1 DEF Knows
  <2>9. ToldInv'
    <3>1. \A g \in Stack' : g.op \notin {"added", "removed"}
      BY <2>2, <2>4
    <3>2. \A t \in Registered' \ upd'.txs : height'[t] = height[t]
      BY <1>1, <2>5, <2>7
    <3> QED BY <1>1, <2>5, <2>6, <2>7, <2>8, <3>1, <3>2 DEF ToldInv
  <2>10. UpdInv'
    <3>1. \A g \in Stack' : g.op \in {"set", "endset", "updated"} => g = f
      BY <2>2, <2>4
    <3>2. \A t \in Registered' \cap upd'.txs : height'[t] = TX_UNCONFIRMED
      BY <1>1, <2>5, <2>7
    <3>3. \E g \in Stack' : g.op \in {"endset", "updated"}
      BY <2>2, <2>4
    <3> QED BY <2>2, <3>1, <3>2, <3>3 DEF UpdInv
  <2> QED BY <2>4, <2>5, <2>9, <2>10 DEF WalletInv
<1> QED BY <1>3, <1>4

\* The frames that only replace what is on top.
LEMMA WalletQuiet ==
  ASSUME TypeInv, WalletInv,
         StartCount \/ EndCount \/ UnusedAddrs \/ RemoveUnknown \/ SkipTx
  PROVE  WalletInv'
<1>1. <<>> \in Seq(Frames) /\ Elems(<<>>) = {}
  BY ElemsFew
<1>2. CASE StartCount
  <2> DEFINE f == Frame("count", "unknown", 0, 0)
             fs == <<f>>
  <2>0. f \in Frames /\ f.op = "count"
    BY TypeInvOK, FrameType DEF Frame
  <2> HIDE DEF f
  <2>1. fs \in Seq(Frames) /\ Elems(fs) = {f} /\ f.op = "count"
    BY <2>0, ElemsFew
  <2>2. /\ todo # <<>> /\ Top.op = "recount" /\ Continue(fs)
        /\ UNCHANGED <<allTx, transactions, height, told, upd>>
    BY <1>2 DEF StartCount, Running, holdings, f
  <2> HIDE DEF fs
  <2> QED BY <2>1, <2>2, QuietContinue DEF RegistrationOps, RemovalOps, UpdateOps
<1>3. CASE EndCount \/ UnusedAddrs \/ RemoveUnknown \/ SkipTx
  <2>1. /\ todo # <<>> /\ Continue(<<>>)
        /\ Top.op \in {"count", "unusedExternal", "unusedInternal", "remove", "set"}
        /\ UNCHANGED <<allTx, transactions, height, told, upd>>
    BY <1>3 DEF EndCount, UnusedAddrs, RemoveUnknown, SkipTx, Running, holdings
  <2> QED BY <1>1, <2>1, QuietContinue
<1> QED BY <1>2, <1>3

LEMMA WalletRemoveDependants ==
  ASSUME TypeInv, WalletInv, RemoveDependants
  PROVE  WalletInv'
<1> DEFINE D == Dependants(Top.tx)
<1>1. PICK s \in [1 .. Cardinality(D) -> D] :
        Continue(RemovalOrder([i \in DOMAIN s |-> transactions[s[i]]]))
  BY DEF RemoveDependants
<1>2. /\ todo # <<>> /\ Top \in Frames /\ Top.op = "remove"
      /\ UNCHANGED <<allTx, transactions, height, told, upd>>
  BY TypeInvOK, FrameType DEF RemoveDependants, Running, holdings
<1> DEFINE deps == [i \in DOMAIN s |-> transactions[s[i]]]
           fs == [i \in 1 .. Len(deps) |-> Frame("remove", deps[i], 0, 0)]
           gs == RemovalOrder(deps)
<1>3. deps \in Seq(Tx)
  BY <1>1, DependantsSeq
<1>4. fs \in Seq(Frames) /\ \A f \in Elems(fs) : f.op = "remove"
  <2>1. Len(deps) \in Nat /\ \A i \in 1 .. Len(deps) : deps[i] \in Tx
    BY <1>3, LenProperties, ElementOfSeq
  <2> HIDE DEF deps
  <2>2. fs \in [1 .. Len(deps) -> Frames]
    BY <2>1, TypeInvOK, FrameType
  <2>3. fs \in Seq(Frames)
    BY <2>1, <2>2, SeqDef
  <2>4. \A i \in 1 .. Len(deps) : fs[i].op = "remove"
    BY DEF Frame
  <2> QED BY <2>2, <2>3, <2>4 DEF Elems
<1>5. gs \in Seq(Frames) /\ \A f \in Elems(gs) : f.op = "remove"
  <2> DEFINE a == <<Top>>
  <2>1. a \in Seq(Frames) /\ Elems(a) = {Top}
    BY <1>2, ElemsFew
  <2>2. gs = fs \o a
    BY DEF RemovalOrder
  <2> HIDE DEF a, fs, gs
  <2>3. fs \o a \in Seq(Frames) /\ Elems(fs \o a) = Elems(fs) \cup Elems(a)
    BY <1>4, <2>1, ElemsConcat, ConcatProperties
  <2> QED BY <1>2, <1>4, <2>1, <2>2, <2>3
<1>6. Continue(gs)
  BY <1>1
<1> HIDE DEF gs
<1>7. \A f \in Elems(gs) :
        /\ f.op \notin {"added", "removed", "set", "endset"}
        /\ f.op # "updated"
        /\ \A ops \in {RegistrationOps, RemovalOps, UpdateOps} : Top.op \in ops => f.op \in ops
  BY <1>2, <1>5
<1> QED BY <1>2, <1>5, <1>6, <1>7, QuietContinue

LEMMA WalletEndSet ==
  ASSUME TypeInv, WalletInv, EndSet
  PROVE  WalletInv'
<1> DEFINE f == [Top EXCEPT !.op = "updated"]
           r == IF upd.needs THEN <<Recount>> ELSE <<>>
           n == IF upd.txs # {} THEN <<f>> ELSE <<>>
           fs == r \o n
<1>1. /\ todo # <<>> /\ Top \in Frames /\ Top.op = "endset" /\ Continue(fs)
      /\ UNCHANGED <<allTx, transactions, height, told, upd>>
  BY TypeInvOK, FrameType DEF EndSet, Running, holdings, Notice
<1>2. f \in Frames /\ f.op = "updated" /\ f.h = Top.h
  BY <1>1 DEF Frames
<1>3. Recount \in Frames /\ Recount.op = "recount"
  BY TypeInvOK, FrameType DEF Recount, Frame
<1>4. r \in Seq(Frames) /\ Elems(r) \subseteq {Recount}
  BY <1>3, ElemsFew
<1> HIDE DEF f
<1>5. n \in Seq(Frames) /\ Elems(n) \subseteq {f} /\ (upd.txs # {} => f \in Elems(n))
  BY <1>2, ElemsFew
<1> HIDE DEF r, n
<1>6. fs \in Seq(Frames) /\ Elems(fs) = Elems(r) \cup Elems(n)
  BY <1>4, <1>5, ElemsConcat, ConcatProperties
<1> HIDE DEF fs
<1>7. \A g \in Elems(fs) :
        /\ g.op \notin {"added", "removed", "set", "endset"}
        /\ g.op = "updated" => Top.op = "endset" /\ g.h = Top.h
        /\ \A ops \in {RegistrationOps, RemovalOps, UpdateOps} : Top.op \in ops => g.op \in ops
  BY <1>1, <1>2, <1>3, <1>4, <1>5, <1>6 DEF RegistrationOps, RemovalOps, UpdateOps
<1>8. upd.txs # {} => \E g \in Elems(fs) : g.op = "updated"
  BY <1>2, <1>5, <1>6
<1> QED BY <1>1, <1>6, <1>7, <1>8, QuietContinue

LEMMA WalletRest ==
  ASSUME WalletInv, Count \/ (\E c \in Chains : NextAddress(c)) \/ Tick
  PROVE  WalletInv'
<1>1. UNCHANGED <<allTx, transactions, height, told, upd, todo>>
  BY DEF Count, CountInvalid, CountPending, CountOutputs, NextAddress, Tick, holdings
<1> QED BY <1>1, QuietRest

\* Steps that pop or replace a frame of an operation, and change the rest.
LEMMA WalletRemoveTransaction ==
  ASSUME TypeInv, WalletInv, RemoveTransaction
  PROVE  WalletInv'
<1> DEFINE x == Top.tx
           r == Removed(x)
           fs == AfterRemoval(x)
           rest == Elems(Tail(todo))
<1>1. /\ todo # <<>> /\ Top.op = "remove" /\ x \in Tx /\ x \in allTx
      /\ Continue(fs) /\ allTx' = allTx \ {x}
      /\ UNCHANGED <<height, told, upd>>
  BY TypeInvOK, TopType DEF RemoveTransaction, Running
<1>2. r \in Frames /\ r.op = "removed" /\ r.tx = x /\ Recount.op = "recount" /\ Recount \in Frames
  <2>1. Recount \in Frames
    BY TypeInvOK, FrameType
  <2>2. Recount.op = "recount"
    BY DEF Frame, Recount
  <2>3. PICK b \in BOOLEAN : r = [op |-> "removed", tx |-> x, h |-> 0, ts |-> 0, was |-> b]
    BY DEF Removed, Frame
  <2> HIDE DEF r, x
  <2>4. r.op = "removed" /\ r.tx = x
    BY <2>3
  <2>5. r \in Frames
    BY <1>1, <2>3 DEF Frames
  <2> QED BY <2>1, <2>2, <2>4, <2>5
<1>3. fs = <<Recount, r>>
  BY DEF AfterRemoval
<1> HIDE DEF r, fs
<1>4. fs \in Seq(Frames) /\ Elems(fs) = {Recount, r}
  BY <1>2, <1>3, ElemsFew
<1>5. Stack' = {Recount, r} \cup rest /\ Stack = {Top} \cup rest
  BY <1>1, <1>4, StackContinue
<1>6. Within(RemovalOps)
  BY <1>1, OperationOf DEF WalletInv
<1> HIDE DEF rest
<1>7. OneOperation'
  <2>1. \A f \in Elems(fs) :
          /\ f.op \notin {"added", "set"}
          /\ \A ops \in {RegistrationOps, RemovalOps, UpdateOps} : Top.op \in ops => f.op \in ops
    BY <1>1, <1>2, <1>4 DEF RegistrationOps, RemovalOps, UpdateOps
  <2> QED BY <1>1, <1>4, <2>1, OperationContinue DEF WalletInv
<1>8. Registered \subseteq Tx /\ Registered \subseteq allTx /\ Distinct(transactions) /\ transactions \in Seq(Tx)
  BY HeightNat DEF WalletInv, Listed, TypeInv, HoldingsType
<1>9. Registered' = Registered \ {x} /\ Distinct(transactions')
  <2>1. CASE x \in Registered
    <3>1. transactions' = RemoveTx(transactions, x) /\ x \in Elems(transactions)
      BY <2>1, RegisteredElems DEF RemoveTransaction
    <3>2. Elems(transactions') = Elems(transactions) \ {x} /\ Distinct(transactions')
      BY <1>8, <3>1, RemoveTxElems
    <3> QED BY <3>2 DEF Registered, Elems
  <2>2. CASE x \notin Registered
    <3>1. transactions' = transactions
      BY <2>2 DEF RemoveTransaction
    <3> QED BY <1>8, <2>2, <3>1 DEF Registered, Distinct
  <2> QED BY <2>1, <2>2
<1>10. Listed'
  BY <1>1, <1>8, <1>9 DEF Listed
<1>11. \A t \in Tx : Knows(t)' <=> Knows(t)
  BY <1>1 DEF Knows
<1>12. \A f \in Stack : f.op \in RemovalOps
  BY <1>6 DEF Within
<1>13. upd.txs = {}
  BY <1>12 DEF WalletInv, UpdInv, RemovalOps
<1>14. ToldInv'
  <2>1. \A t \in Registered : Knows(t)
    BY <1>12 DEF WalletInv, ToldInv, Awaited, RemovalOps
  <2>2. \A f \in Stack' : f.op # "added" /\ (f.op = "removed" => f = r \/ f \in Stack)
    BY <1>2, <1>5, <1>12 DEF RemovalOps
  <2>3. \A t \in Tx : t = x => Awaited("removed", t)'
    BY <1>2, <1>5 DEF Awaited
  <2>4. ASSUME NEW t \in Tx, Awaited("removed", t) PROVE Awaited("removed", t)'
    BY <1>1, <1>5, <2>4 DEF Awaited
  <2>5. \A f \in Stack' : f.op = "removed" => f.tx \notin allTx'
    BY <1>1, <1>2, <2>2 DEF WalletInv, ToldInv
  <2>6. \A t \in Tx \ Registered' : ~ Knows(t)' \/ Awaited("removed", t)'
    BY <1>9, <1>11, <2>3, <2>4 DEF WalletInv, ToldInv
  <2>7. \A t \in Registered' \ upd'.txs : Knows(t)' => told'.height[t] = height'[t]
    BY <1>1, <1>9, <1>13, <2>1 DEF WalletInv, ToldInv
  <2> QED BY <1>8, <1>9, <1>11, <2>1, <2>2, <2>5, <2>6, <2>7 DEF ToldInv
<1>15. UpdInv'
  BY <1>1, <1>2, <1>5, <1>12, <1>13 DEF UpdInv, RemovalOps
<1> QED BY <1>7, <1>10, <1>14, <1>15 DEF WalletInv

\* While an update is under way, the listener knows what is listed.
LEMMA UpdateKnows ==
  ASSUME TypeInv, WalletInv, todo # <<>>, Top.op \in {"set", "endset", "updated"}
  PROVE  /\ Stack = {Top} \cup Elems(Tail(todo))
         /\ \A f \in Stack : f.op \in UpdateOps /\ (f.op \in {"set", "endset", "updated"} => f.h = Top.h)
         /\ \A t \in Tx : Knows(t) <=> t \in Registered
<1>1. Within(UpdateOps)
  BY OperationOf DEF WalletInv
<1>2. Stack = {Top} \cup Elems(Tail(todo))
  <2>1. \A i \in DOMAIN todo : i # 1 => i - 1 \in DOMAIN Tail(todo) /\ (i - 1) + 1 = i
    BY TodoShape
  <2>2. \A i \in DOMAIN Tail(todo) : i + 1 \in DOMAIN todo
    BY TodoShape
  <2> QED BY <2>1, <2>2, TodoShape DEF Stack, Elems
<1>3. \A f \in Stack : f.op \in UpdateOps /\ (f.op \in {"set", "endset", "updated"} => f.h = Top.h)
  BY <1>1, <1>2 DEF Within, WalletInv, UpdInv
<1>4. \A f \in Stack : f.op \notin {"added", "removed"}
  BY <1>3 DEF UpdateOps
<1>5. Registered \subseteq Tx
  BY HeightNat
<1> QED BY <1>2, <1>3, <1>4, <1>5 DEF WalletInv, ToldInv, Awaited

LEMMA ResortedElems ==
  ASSUME transactions \in Seq(Tx), Distinct(transactions), NEW ht, NEW t \in Tx
  PROVE  Elems(Resorted(ht, t)) = Elems(transactions) /\ Distinct(Resorted(ht, t))
<1>1. CASE t \in Registered
  <2>1. t \in Elems(transactions)
    BY <1>1, RegisteredElems
  <2> DEFINE s == RemoveTx(transactions, t)
  <2>2. Elems(s) = Elems(transactions) \ {t} /\ Distinct(s)
    BY <2>1, RemoveTxElems
  <2>3. s \in Seq(Tx)
    BY <1>1, RemoveTxType DEF Registered
  <2> HIDE DEF s
  <2>4. Elems(InsertTx(ht, s, t)) = Elems(s) \cup {t} /\ Distinct(InsertTx(ht, s, t))
    BY <2>2, <2>3, InsertTxElems
  <2>5. Resorted(ht, t) = InsertTx(ht, s, t)
    BY <1>1 DEF Resorted, s
  <2> QED BY <2>1, <2>2, <2>4, <2>5
<1>2. CASE t \notin Registered
  BY <1>2 DEF Resorted
<1> QED BY <1>1, <1>2

LEMMA WalletSetWalletTx ==
  ASSUME TypeInv, WalletInv, SetWalletTx
  PROVE  WalletInv'
<1> DEFINE x == Top.tx
           rest == Elems(Tail(todo))
<1>1. /\ todo # <<>> /\ Top.op = "set" /\ x \in Tx /\ Continue(<<>>)
      /\ height' = [height EXCEPT ![x] = Top.h]
      /\ transactions' = Resorted(height', x)
      /\ upd'.txs = upd.txs \cup {x}
      /\ UNCHANGED <<allTx, told>>
  BY TypeInvOK, TopType DEF SetWalletTx, Running, SetHeight
<1>2. <<>> \in Seq(Frames) /\ Elems(<<>>) = {}
  BY ElemsFew
<1>3. Stack' = rest
  BY <1>1, <1>2, StackContinue
<1>4. OneOperation'
  BY <1>1, <1>2, OperationContinue DEF WalletInv
<1>5. \E f \in rest : f.op = "endset"
  BY <1>1, <1>2, SetsContinue DEF WalletInv, OneOperation
<1> HIDE DEF rest
<1>6. transactions \in Seq(Tx) /\ Distinct(transactions) /\ Registered \subseteq allTx /\ Registered \subseteq Tx
  BY HeightNat DEF TypeInv, HoldingsType, WalletInv, Listed
<1>7. Registered' = Registered /\ Listed'
  <2>1. Elems(transactions') = Elems(transactions) /\ Distinct(transactions')
    BY <1>1, <1>6, ResortedElems
  <2> QED BY <1>1, <1>6, <2>1 DEF Registered, Elems, Listed
<1>8. /\ Stack = {Top} \cup rest
      /\ \A f \in Stack : f.op \in UpdateOps /\ (f.op \in {"set", "endset", "updated"} => f.h = Top.h)
      /\ \A t \in Tx : Knows(t) <=> t \in Registered
  BY <1>1, UpdateKnows DEF rest
<1>9. \A t \in Tx : Knows(t)' <=> Knows(t)
  BY <1>1 DEF Knows
<1>10. /\ \A t \in Registered : t # x => height'[t] = height[t]
       /\ height'[x] = Top.h
  BY <1>1, <1>6 DEF TypeInv, HoldingsType
<1>11. ToldInv'
  <2>1. \A f \in Stack' : f.op \notin {"added", "removed"}
    BY <1>3, <1>8 DEF UpdateOps
  <2>2. \A t \in Registered' \ upd'.txs : Knows(t)' => told'.height[t] = height'[t]
    BY <1>1, <1>6, <1>7, <1>9, <1>10 DEF WalletInv, ToldInv
  <2> QED BY <1>6, <1>7, <1>8, <1>9, <2>1, <2>2 DEF ToldInv
<1>12. UpdInv'
  <2>1. \A f \in Stack' : f \in Stack
    BY <1>3, <1>8
  <2>2. ASSUME NEW f \in Stack', f.op \in {"set", "endset", "updated"},
               NEW t \in Registered' \cap upd'.txs
        PROVE  height'[t] = f.h
    <3>1. f.h = Top.h /\ t \in Registered
      BY <1>7, <1>8, <2>1, <2>2
    <3>2. t # x => height[t] = f.h
      BY <1>1, <2>1, <2>2, <3>1 DEF WalletInv, UpdInv
    <3> QED BY <1>10, <3>1, <3>2
  <2> QED BY <1>3, <1>5, <1>8, <2>1, <2>2 DEF UpdInv
<1> QED BY <1>4, <1>7, <1>11, <1>12 DEF WalletInv

LEMMA WalletSetOtherTx ==
  ASSUME TypeInv, WalletInv, OwnListed, SetOtherTx
  PROVE  WalletInv'
<1> DEFINE x == Top.tx
           rest == Elems(Tail(todo))
<1>1. /\ todo # <<>> /\ Top.op = "set" /\ x \in Tx /\ Continue(<<>>)
      /\ height' = [height EXCEPT ![x] = Top.h]
      /\ allTx \ {x} \subseteq allTx' /\ allTx' \subseteq allTx
      /\ UNCHANGED <<transactions, told, upd>>
  BY TypeInvOK, TopType DEF SetOtherTx, Running, SetHeight
<1>2. <<>> \in Seq(Frames) /\ Elems(<<>>) = {}
  BY ElemsFew
<1>3. Stack' = rest
  BY <1>1, <1>2, StackContinue
<1>4. OneOperation'
  BY <1>1, <1>2, OperationContinue DEF WalletInv
<1>5. \E f \in rest : f.op = "endset"
  BY <1>1, <1>2, SetsContinue DEF WalletInv, OneOperation
<1> HIDE DEF rest
<1>6. x \notin Registered /\ Registered \subseteq Tx /\ Registered \subseteq allTx /\ Distinct(transactions)
  BY HeightNat DEF OwnListed, SetOtherTx, WalletInv, Listed
<1>7. Registered' = Registered /\ Listed'
  BY <1>1, <1>6 DEF Registered, Listed, Distinct
<1>8. /\ Stack = {Top} \cup rest
      /\ \A f \in Stack : f.op \in UpdateOps
      /\ \A t \in Tx : Knows(t) <=> t \in Registered
  BY <1>1, UpdateKnows DEF rest
<1>9. \A t \in Tx : Knows(t)' <=> Knows(t)
  BY <1>1 DEF Knows
<1>10. \A t \in Registered : height'[t] = height[t]
  BY <1>1, <1>6 DEF TypeInv, HoldingsType
<1>11. ToldInv'
  <2>1. \A f \in Stack' : f.op \notin {"added", "removed"}
    BY <1>3, <1>8 DEF UpdateOps
  <2>2. \A t \in Registered' \ upd'.txs : Knows(t)' => told'.height[t] = height'[t]
    BY <1>1, <1>6, <1>7, <1>9, <1>10 DEF WalletInv, ToldInv
  <2> QED BY <1>6, <1>7, <1>8, <1>9, <2>1, <2>2 DEF ToldInv
<1>12. UpdInv'
  <2>1. \A f \in Stack' : f \in Stack
    BY <1>3, <1>8
  <2> QED BY <1>1, <1>3, <1>5, <1>7, <1>10, <2>1 DEF WalletInv, UpdInv
<1> QED BY <1>4, <1>7, <1>11, <1>12 DEF WalletInv

-----------------------------------------------------------------------------
\* The callbacks.
LEMMA WalletTellAdded ==
  ASSUME TypeInv, WalletInv, TellAdded
  PROVE  /\ WalletInv' /\ Top.tx \in Registered /\ ~ Knows(Top.tx) /\ upd.txs = {} /\ upd' = upd
         /\ told'.height = [told.height EXCEPT ![Top.tx] = height[Top.tx]]
         /\ UNCHANGED <<allTx, transactions, height>>
<1> DEFINE x == Top.tx
<1>1. /\ todo # <<>> /\ Top.op = "added" /\ x \in Tx /\ Continue(<<>>)
      /\ told'.height = [told.height EXCEPT ![x] = height[x]]
      /\ UNCHANGED <<allTx, transactions, height, upd>>
  BY TypeInvOK, TopType DEF TellAdded, Running, holdings, TypeInv, ToldType
<1>2. Tail(todo) = <<>> /\ Within(RegistrationOps)
  BY <1>1, OperationOf DEF WalletInv
<1>3. <<>> \in Seq(Frames) /\ Elems(<<>>) = {}
  BY ElemsFew
<1>4. Stack' = {} /\ Stack = {Top}
  BY <1>1, <1>2, <1>3, StackContinue
<1>5. OneOperation'
  BY <1>1, <1>3, OperationContinue DEF WalletInv
<1>6. x \in Registered /\ ~ Knows(x)
  BY <1>1, <1>4 DEF WalletInv, ToldInv
<1>7. upd.txs = {}
  BY <1>1, <1>4 DEF WalletInv, UpdInv
<1>8. Registered \subseteq Tx /\ height \in [Tx -> Nat] /\ told.height \in [Tx -> HeightsOrNone \cup {-1}]
  BY HeightNat DEF TypeInv, ToldType
<1>9. Registered' = Registered /\ Listed'
  BY <1>1, Unlisted DEF WalletInv
<1>10. /\ \A t \in Tx : Knows(t)' <=> Knows(t) \/ t = x
       /\ \A t \in Tx : told'.height[t] = IF t = x THEN height[t] ELSE told.height[t]
  <2>1. told'.height[x] = height[x] /\ height[x] # -1
    BY <1>1, <1>8
  <2>2. \A t \in Tx : told'.height[t] = IF t = x THEN height[t] ELSE told.height[t]
    BY <1>1, <1>8
  <2> QED BY <2>1, <2>2 DEF Knows
<1>11. ToldInv'
  <2>1. \A t \in Registered : t # x => Knows(t) /\ told.height[t] = height[t]
    BY <1>1, <1>4, <1>7 DEF WalletInv, ToldInv, Awaited
  <2>2. \A t \in Tx \ Registered : ~ Knows(t)
    BY <1>1, <1>4 DEF WalletInv, ToldInv, Awaited
  <2> QED BY <1>1, <1>4, <1>6, <1>8, <1>9, <1>10, <2>1, <2>2 DEF ToldInv
<1>12. UpdInv'
  BY <1>1, <1>4, <1>7 DEF UpdInv
<1> QED BY <1>1, <1>5, <1>6, <1>7, <1>9, <1>11, <1>12 DEF WalletInv

LEMMA WalletTellRemoved ==
  ASSUME TypeInv, WalletInv, TellRemoved
  PROVE  /\ WalletInv' /\ Top.tx \notin allTx /\ upd.txs = {} /\ upd' = upd
         /\ told'.height = [told.height EXCEPT ![Top.tx] = -1]
         /\ UNCHANGED <<allTx, transactions, height>>
<1> DEFINE x == Top.tx
           rest == Elems(Tail(todo))
<1>1. /\ todo # <<>> /\ Top.op = "removed" /\ x \in Tx /\ Continue(<<>>)
      /\ told'.height = [told.height EXCEPT ![x] = -1]
      /\ UNCHANGED <<allTx, transactions, height, upd>>
  BY TypeInvOK, TopType DEF TellRemoved, Running, holdings, TypeInv, ToldType
<1>2. Within(RemovalOps)
  BY <1>1, OperationOf DEF WalletInv
<1>3. <<>> \in Seq(Frames) /\ Elems(<<>>) = {}
  BY ElemsFew
<1>4. Stack' = rest /\ Stack = {Top} \cup rest
  BY <1>1, <1>3, StackContinue
<1> HIDE DEF rest
<1>5. OneOperation'
  BY <1>1, <1>3, OperationContinue DEF WalletInv
<1>6. \A f \in Stack : f.op \in RemovalOps
  BY <1>2 DEF Within
<1>7. x \notin allTx
  BY <1>1, <1>4 DEF WalletInv, ToldInv
<1>8. upd.txs = {}
  BY <1>6 DEF WalletInv, UpdInv, RemovalOps
<1>9. Registered \subseteq Tx /\ Registered \subseteq allTx
  BY HeightNat DEF WalletInv, Listed
<1>10. Registered' = Registered /\ Listed'
  BY <1>1, Unlisted DEF WalletInv
<1>11. /\ \A t \in Tx : Knows(t)' <=> Knows(t) /\ t # x
       /\ \A t \in Tx : t # x => told'.height[t] = told.height[t]
  BY <1>1 DEF Knows, TypeInv, ToldType
<1>12. ToldInv'
  <2>1. \A t \in Registered : t # x /\ Knows(t) /\ told.height[t] = height[t]
    BY <1>6, <1>7, <1>8, <1>9 DEF WalletInv, ToldInv, Awaited, RemovalOps
  <2>2. \A f \in Stack' : f.op # "added" /\ (f.op = "removed" => f.tx \notin allTx)
    BY <1>4, <1>6 DEF WalletInv, ToldInv, RemovalOps
  <2>3. ASSUME NEW t \in Tx \ Registered, t # x, Knows(t) PROVE Awaited("removed", t)'
    <3>1. PICK f \in Stack : f.op = "removed" /\ f.tx = t
      BY <2>3 DEF WalletInv, ToldInv, Awaited
    <3> QED BY <1>4, <2>3, <3>1 DEF Awaited
  <2> QED BY <1>1, <1>9, <1>10, <1>11, <2>1, <2>2, <2>3 DEF ToldInv
<1>13. UpdInv'
  BY <1>1, <1>4, <1>6, <1>8 DEF UpdInv, RemovalOps
<1> QED BY <1>1, <1>5, <1>7, <1>8, <1>10, <1>12, <1>13 DEF WalletInv

LEMMA WalletTellUpdated ==
  ASSUME TypeInv, WalletInv, TellUpdated
  PROVE  /\ WalletInv' /\ upd'.txs = {} /\ UNCHANGED <<allTx, transactions, height>>
         /\ \A t \in Tx : told'.height[t] = IF t \in upd.txs /\ Knows(t) THEN Top.h ELSE told.height[t]
<1> DEFINE rest == Elems(Tail(todo))
<1>1. /\ todo # <<>> /\ Top.op = "updated" /\ Continue(<<>>) /\ Top.h \in HeightsOrUnconfirmed
      /\ upd' = NoUpd /\ UNCHANGED <<allTx, transactions, height>>
      /\ told'.height = [t \in Tx |-> IF t \in upd.txs /\ told.height[t] # -1 THEN Top.h ELSE told.height[t]]
  BY TypeInvOK, TopType DEF TellUpdated, Running, holdings, TypeInv, ToldType
<1>2. <<>> \in Seq(Frames) /\ Elems(<<>>) = {}
  BY ElemsFew
<1>3. Stack' = rest
  BY <1>1, <1>2, StackContinue
<1>4. OneOperation'
  BY <1>1, <1>2, OperationContinue DEF WalletInv
<1> HIDE DEF rest
<1>5. /\ Stack = {Top} \cup rest
      /\ \A f \in Stack : f.op \in UpdateOps /\ (f.op \in {"set", "endset", "updated"} => f.h = Top.h)
      /\ \A t \in Tx : Knows(t) <=> t \in Registered
  BY <1>1, UpdateKnows DEF rest
<1>6. Registered' = Registered /\ Listed' /\ Registered \subseteq Tx
  BY <1>1, Unlisted, HeightNat DEF WalletInv
<1>7. \A t \in Tx : told'.height[t] = IF t \in upd.txs /\ Knows(t) THEN Top.h ELSE told.height[t]
  BY <1>1 DEF Knows
<1>8. \A t \in Tx : Knows(t)' <=> Knows(t)
  <2>1. Top.h # -1
    BY <1>1, HeightNat
  <2> QED BY <1>7, <2>1 DEF Knows
<1>9. upd'.txs = {}
  BY <1>1 DEF NoUpd
<1>10. \A t \in Registered : told'.height[t] = height[t]
  <2>1. \A t \in Registered \cap upd.txs : height[t] = Top.h
    BY <1>1, <1>5 DEF WalletInv, UpdInv
  <2>2. \A t \in Registered \ upd.txs : told.height[t] = height[t]
    BY <1>5, <1>6 DEF WalletInv, ToldInv
  <2> QED BY <1>5, <1>6, <1>7, <2>1, <2>2
<1>11. ToldInv'
  <2>1. \A f \in Stack' : f.op \notin {"added", "removed"}
    BY <1>3, <1>5 DEF UpdateOps
  <2> QED BY <1>1, <1>5, <1>6, <1>8, <1>10, <2>1 DEF ToldInv
<1>12. UpdInv'
  BY <1>3, <1>5, <1>9 DEF UpdInv
<1> QED BY <1>1, <1>4, <1>6, <1>7, <1>9, <1>11, <1>12 DEF WalletInv

-----------------------------------------------------------------------------
(***************************************************************************)
(* A step of the wallet either tells the listener, and there is a job for  *)
(* it, or it leaves the listener and the heights of an update alone.       *)
(***************************************************************************)
Tells == TellAdded \/ TellRemoved \/ TellUpdated

LEMMA CalledTells ==
  ASSUME TypeInv, Tells
  PROVE  Called = JobOf(Top) /\ Top.op \in {"added", "removed", "updated"} /\ todo # <<>>
<1>1. Continue(<<>>) /\ todo # <<>> /\ Top.op \in {"added", "removed", "updated"}
  BY DEF Tells, TellAdded, TellRemoved, TellUpdated, Running
<1>2. Tail(todo) \in Seq(Frames)
  BY <1>1, FrameType, TypeInvOK
<1>3. todo' = Tail(todo)
  BY <1>1, <1>2, ConcatEmptySeq DEF Continue
<1> QED BY <1>1, <1>3 DEF Called, Idle

LEMMA CalledNone ==
  ASSUME TypeInv, Next, ~ Tells
  PROVE  Called = <<>>
<1>1. CASE Work
  <2>1. todo # <<>> /\ Top.op \notin {"added", "removed", "updated"}
    BY <1>1 DEF Work, Tells, StartCount, Count, CountInvalid, CountPending, CountOutputs, Counting,
                EndCount, UnusedAddrs, RemoveUnknown, RemoveDependants, RemoveTransaction, SkipTx,
                SetWalletTx, SetOtherTx, EndSet, Running
  <2> QED BY <2>1 DEF Called, JobOf
<1>2. CASE Idle
  BY <1>2 DEF Called
<1>3. CASE todo' = todo /\ ~ Idle
  <2>1. Len(todo) \in Nat /\ Len(Tail(todo)) = Len(todo) - 1
    BY <1>3, TodoShape DEF Idle
  <2>2. Len(todo) # Len(Tail(todo))
    BY <2>1
  <2>3. todo # Tail(todo)
    BY <2>2
  <2> QED BY <1>3, <2>3 DEF Called
<1>4. Work \/ Idle \/ todo' = todo
  BY DEF Next, Register, RegisterWalletTx, RegisterOtherTx, StartRemove, ConfirmTxs, MarkVerified,
         MarkUnverified, UpdateTransactions, SetTxUnconfirmedAfter, LoadFilterAddrs, Start,
         NextAddress, Tick
<1> QED BY <1>1, <1>2, <1>3, <1>4

\* The transactions of an update keep the height it gives them.
HeightsKept ==
  \A t \in Tx : Knows(t) /\ t \in upd.txs => t \in upd'.txs /\ height'[t] = height[t]

LEMMA KeptSame ==
  ASSUME UNCHANGED <<height, upd>> \/ upd.txs = {}
  PROVE  HeightsKept
BY DEF HeightsKept

LEMMA WalletUntold ==
  ASSUME TypeInv, WalletInv, OwnListed, Next, ~ Tells
  PROVE  WalletInv' /\ UNCHANGED told /\ HeightsKept
<1>0. Idle => upd.txs = {}
  BY IdleKnows
<1>1. CASE \/ StartCount \/ Count \/ EndCount \/ UnusedAddrs \/ RemoveUnknown \/ RemoveDependants
           \/ SkipTx \/ EndSet \/ LoadFilterAddrs \/ Tick
           \/ (\E t \in Tx : StartRemove(t)) \/ \E c \in Chains : NextAddress(c)
  <2>1. UNCHANGED <<told, height, upd>>
    BY <1>1 DEF StartCount, Count, CountInvalid, CountPending, CountOutputs, EndCount, UnusedAddrs,
                RemoveUnknown, RemoveDependants, SkipTx, EndSet, StartRemove, LoadFilterAddrs,
                NextAddress, Tick, holdings
  <2>2. WalletInv'
    BY <1>1, WalletQuiet, WalletRest, WalletRemoveDependants, WalletEndSet, WalletStarts
  <2> QED BY <2>1, <2>2, KeptSame
<1>2. CASE RemoveTransaction
  <2>1. UNCHANGED <<told, height, upd>>
    BY <1>2 DEF RemoveTransaction
  <2> QED BY <1>2, <2>1, KeptSame, WalletRemoveTransaction
<1>3. CASE SetWalletTx
  <2>1. /\ todo # <<>> /\ Top.op = "set" /\ Top.tx \in Tx /\ UNCHANGED told
        /\ height' = [height EXCEPT ![Top.tx] = Top.h] /\ upd'.txs = upd.txs \cup {Top.tx}
    BY <1>3, TypeInvOK, TopType DEF SetWalletTx, Running, SetHeight
  <2>2. Top \in Stack /\ \A t \in Tx : Knows(t) <=> t \in Registered
    BY <2>1, UpdateKnows
  <2>3. \A t \in Registered \cap upd.txs : height[t] = Top.h
    BY <2>1, <2>2 DEF WalletInv, UpdInv
  <2>4. HeightsKept
    BY <2>1, <2>2, <2>3 DEF HeightsKept, TypeInv, HoldingsType
  <2> QED BY <1>3, <2>1, <2>4, WalletSetWalletTx
<1>4. CASE SetOtherTx
  <2>1. /\ todo # <<>> /\ Top.op = "set" /\ Top.tx \in Tx /\ UNCHANGED <<told, upd>>
        /\ height' = [height EXCEPT ![Top.tx] = Top.h] /\ Top.tx \notin Registered
    BY <1>4, TypeInvOK, TopType DEF SetOtherTx, Running, SetHeight, OwnListed
  <2>2. \A t \in Tx : Knows(t) <=> t \in Registered
    BY <2>1, UpdateKnows
  <2>3. HeightsKept
    BY <2>1, <2>2 DEF HeightsKept, TypeInv, HoldingsType
  <2> QED BY <1>4, <2>1, <2>3, WalletSetOtherTx
<1>5. CASE Register
  <2>1. Idle /\ UNCHANGED told
    BY <1>5 DEF Register, RegisterWalletTx, RegisterOtherTx, Start
  <2>2. WalletInv'
    BY <1>5, WalletRegister, WalletRegisterOther DEF Register
  <2> QED BY <1>0, <2>1, <2>2, KeptSame
<1>6. CASE \/ \E txs \in Blocks, h \in Heights, ts \in Stamps : ConfirmTxs(txs, h, ts)
           \/ \E t \in Tx, ts \in Stamps : MarkVerified(t, ts)
           \/ \E t \in Tx : MarkUnverified(t)
  <2>1. Idle /\ UNCHANGED told
    BY <1>6 DEF ConfirmTxs, MarkVerified, MarkUnverified, UpdateTransactions, Start
  <2>2. WalletInv'
    BY <1>6, WalletUpdates
  <2> QED BY <1>0, <2>1, <2>2, KeptSame
<1>7. ASSUME NEW h \in Heights \cup {0}, SetTxUnconfirmedAfter(h)
      PROVE  WalletInv' /\ UNCHANGED told /\ HeightsKept
  <2>1. Idle /\ UNCHANGED told
    BY <1>7 DEF SetTxUnconfirmedAfter, Start
  <2>2. WalletInv'
    BY <1>7, WalletReorganise
  <2> QED BY <1>0, <2>1, <2>2, KeptSame
<1> QED BY <1>1, <1>2, <1>3, <1>4, <1>5, <1>6, <1>7 DEF Next, Work, Tells

-----------------------------------------------------------------------------
(***************************************************************************)
(* The queue, as the wallet goes on.                                       *)
(***************************************************************************)
LEMMA ToBeAddedIs ==
  \A t : t \in ToBeAdded <=> JobsOf("added", t) # {}
<1> SUFFICES ASSUME NEW t PROVE t \in ToBeAdded <=> JobsOf("added", t) # {}
  OBVIOUS
<1>1. ASSUME t \in ToBeAdded PROVE JobsOf("added", t) # {}
  <2>1. PICK i \in DOMAIN queue : queue[i].kind = "added" /\ t \in queue[i].txs
    BY <1>1 DEF ToBeAdded, ToSet
  <2> QED BY <2>1 DEF JobsOf
<1>2. ASSUME NEW i \in JobsOf("added", t) PROVE t \in ToBeAdded
  BY <1>2 DEF ToBeAdded, ToSet, JobsOf
<1> QED BY <1>1, <1>2

LEMMA QueueUntold ==
  ASSUME QueueInv, UNCHANGED <<table, queue, told>>, HeightsKept,
         (allTx \ allTx') \cap ToBeAdded = {}
  PROVE  QueueInv'
<1>1. ToBeAdded' = ToBeAdded
  BY DEF ToBeAdded
<1>2. ToBeAdded' \subseteq allTx'
  BY <1>1 DEF QueueInv
<1>3. \A kind, t : JobsOf(kind, t)' = JobsOf(kind, t) /\ Rows(t)' = Rows(t)
  BY DEF JobsOf, Rows
<1>4. \A t : Knows(t)' <=> Knows(t)
  BY DEF Knows
<1>5. ASSUME NEW t \in Tx PROVE InsertedOnce(t)' /\ KnownStored(t)' /\ HeightStored(t)'
  <2>1. InsertedOnce(t)' /\ KnownStored(t)'
    BY <1>3, <1>4 DEF QueueInv, InsertedOnce, KnownStored
  <2>2. HeightStored(t)'
    <3>1. Knows(t) /\ t \in upd.txs => t \in upd'.txs /\ height'[t] = height[t]
      BY DEF HeightsKept
    <3> QED BY <1>3, <1>4, <3>1 DEF QueueInv, HeightStored
  <2> QED BY <2>1, <2>2
<1> QED BY <1>2, <1>5 DEF QueueInv

LEMMA JobsAppend ==
  ASSUME queue \in Seq(Jobs), NEW j \in Jobs, queue' = queue \o <<j>>
  PROVE  /\ Len(queue) \in Nat /\ queue'[Len(queue) + 1] = j
         /\ \A i \in 1 .. Len(queue) : queue'[i] = queue[i]
         /\ \A kind, t : JobsOf(kind, t) \subseteq 1 .. Len(queue)
         /\ \A kind, t, i : i \in JobsOf(kind, t)' <=>
              \/ i \in JobsOf(kind, t)
              \/ i = Len(queue) + 1 /\ j.kind = kind /\ t \in j.txs
         /\ \A kind, t : j.kind # kind \/ t \notin j.txs => JobsOf(kind, t)' = JobsOf(kind, t)
<1> DEFINE q == queue \o <<j>>
           n == Len(queue)
<1>1. n \in Nat /\ DOMAIN queue = 1 .. n
  BY LenProperties
<1>2. DOMAIN q = 1 .. n + 1 /\ \A i \in 1 .. n + 1 : q[i] = IF i <= n THEN queue[i] ELSE j
  BY Joined
<1>3. queue' = q
  OBVIOUS
<1> HIDE DEF q, n
<1>4. q[n + 1] = j
  BY <1>1, <1>2
<1>5. \A i \in DOMAIN queue : q[i] = queue[i]
  BY <1>1, <1>2
<1>6. \A i : i \in DOMAIN q <=> i \in DOMAIN queue \/ i = n + 1
  BY <1>1, <1>2
<1>7. ASSUME NEW kind, NEW t, NEW i
      PROVE  i \in JobsOf(kind, t)' <=>
               i \in JobsOf(kind, t) \/ (i = n + 1 /\ j.kind = kind /\ t \in j.txs)
  <2>1. i \in JobsOf(kind, t)' <=> i \in DOMAIN q /\ q[i].kind = kind /\ t \in q[i].txs
    BY <1>3 DEF JobsOf
  <2>2. n + 1 \notin DOMAIN queue
    BY <1>1
  <2> QED BY <1>4, <1>5, <1>6, <2>1, <2>2 DEF JobsOf
<1>8. /\ \A i \in 1 .. n : q[i] = queue[i]
      /\ \A kind, t : JobsOf(kind, t) \subseteq 1 .. n
  BY <1>1, <1>5 DEF JobsOf
<1>9. ASSUME NEW kind, NEW t, j.kind # kind \/ t \notin j.txs
      PROVE  JobsOf(kind, t)' = JobsOf(kind, t)
  <2>1. \A i : i \in JobsOf(kind, t)' <=> i \in JobsOf(kind, t)
    BY <1>7, <1>9
  <2> HIDE DEF JobsOf
  <2> QED BY <2>1
<1> QED BY <1>1, <1>3, <1>4, <1>7, <1>8, <1>9 DEF n

LEMMA QueueAdded ==
  ASSUME TypeInv, StoreType, WalletInv, QueueInv, TellAdded, queue' = queue \o Called,
         UNCHANGED table
  PROVE  QueueInv'
<1> DEFINE x == Top.tx
           j == Job("added", {x}, 0, 0)
           n == Len(queue)
<1>1. /\ x \in Registered /\ ~ Knows(x) /\ upd.txs = {} /\ upd' = upd
      /\ told'.height = [told.height EXCEPT ![x] = height[x]]
      /\ UNCHANGED <<allTx, transactions, height>>
  BY WalletTellAdded
<1>2. x \in Tx /\ x \in allTx /\ height[x] \in Nat
  BY <1>1, HeightNat DEF WalletInv, Listed
<1>3. queue' = queue \o <<j>>
  <2>1. Called = JobOf(Top) /\ Top.op = "added"
    BY CalledTells DEF Tells, TellAdded, Running
  <2> QED BY <2>1 DEF JobOf
<1>4. j \in Jobs /\ j.kind = "added" /\ j.txs = {x}
  BY <1>2 DEF Jobs, Job
<1> HIDE DEF j
<1>5. /\ n \in Nat /\ queue'[n + 1] = j
      /\ \A i \in 1 .. n : queue'[i] = queue[i]
      /\ \A kind, t : JobsOf(kind, t) \subseteq 1 .. n
      /\ \A kind, t, i : i \in JobsOf(kind, t)' <=>
           \/ i \in JobsOf(kind, t)
           \/ i = n + 1 /\ j.kind = kind /\ t \in j.txs
      /\ \A kind, t : j.kind # kind \/ t \notin j.txs => JobsOf(kind, t)' = JobsOf(kind, t)
  BY <1>3, <1>4, JobsAppend DEF StoreType
<1> HIDE DEF n
<1>6. \A t : Rows(t)' = Rows(t)
  BY DEF Rows
<1>7. \A t \in Tx : told'.height[t] = IF t = x THEN height[x] ELSE told.height[t]
  BY <1>1, <1>2 DEF TypeInv, ToldType
<1>8. ToBeAdded' \subseteq allTx'
  <2>1. (\A t : t \in ToBeAdded <=> JobsOf("added", t) # {})'
    BY ToBeAddedIs, PTL
  <2>2. ASSUME NEW t \in ToBeAdded' PROVE t \in allTx
    <3>1. PICK i : i \in JobsOf("added", t)'
      BY <2>1
    <3>2. i \in JobsOf("added", t) \/ t = x
      BY <1>4, <1>5, <3>1
    <3> QED BY <1>2, <3>2, ToBeAddedIs DEF QueueInv
  <2> QED BY <1>1, <2>2
<1>9. ASSUME NEW t \in Tx, t # x PROVE InsertedOnce(t)' /\ KnownStored(t)' /\ HeightStored(t)'
  <2>1. \A kind : JobsOf(kind, t)' = JobsOf(kind, t)
    BY <1>4, <1>5, <1>9
  <2>2. told'.height[t] = told.height[t] /\ (Knows(t)' <=> Knows(t))
    BY <1>7, <1>9 DEF Knows
  <2>3. InsertedOnce(t) /\ KnownStored(t) /\ HeightStored(t)
    BY DEF QueueInv
  <2>4. InsertedOnce(t)' /\ KnownStored(t)'
    BY <1>6, <2>1, <2>2, <2>3 DEF InsertedOnce, KnownStored
  <2>5. HeightStored(t)'
    <3>1. /\ JobsOf("added", t)' = JobsOf("added", t) /\ JobsOf("updated", t)' = JobsOf("updated", t)
          /\ \A i \in JobsOf("updated", t) : queue'[i] = queue[i]
      <4>1. JobsOf("updated", t) \subseteq 1 .. n /\ \A i \in 1 .. n : queue'[i] = queue[i]
        BY <1>5
      <4> QED BY <2>1, <4>1
    <3>2. t \notin upd.txs
      BY <1>1
    <3> QED BY <1>6, <2>2, <2>3, <3>1, <3>2 DEF HeightStored
  <2> QED BY <2>4, <2>5
<1>10. ASSUME NEW t \in Tx, t = x PROVE InsertedOnce(t)' /\ KnownStored(t)' /\ HeightStored(t)'
  <2>1. JobsOf("added", t) = {} /\ (Rows(t) # {} => JobsOf("deleted", t) # {})
    BY <1>1, <1>10 DEF QueueInv, KnownStored
  <2>2. \A i : i \in JobsOf("added", t)' <=> i = n + 1
    BY <1>4, <1>5, <1>10, <2>1
  <2>3. /\ JobsOf("deleted", t)' = JobsOf("deleted", t) /\ JobsOf("updated", t)' = JobsOf("updated", t)
        /\ \A kind : \A i \in JobsOf(kind, t) : i \in 1 .. n
    BY <1>4, <1>5
  <2>4. Knows(t)'
    BY <1>2, <1>7, <1>10 DEF Knows
  <2>5. InsertedOnce(t)'
    BY <1>5, <1>6, <2>1, <2>2, <2>3 DEF InsertedOnce
  <2>6. KnownStored(t)'
    BY <2>2, <2>4 DEF KnownStored
  <2>7. HeightStored(t)'
    <3>1. \A i \in JobsOf("updated", t)' : ~ (n + 1 <= i)
      BY <1>5, <2>3
    <3> QED BY <2>2, <3>1 DEF HeightStored
  <2> QED BY <2>5, <2>6, <2>7
<1> QED BY <1>8, <1>9, <1>10 DEF QueueInv

LEMMA QueueRemoved ==
  ASSUME TypeInv, StoreType, WalletInv, QueueInv, TellRemoved, queue' = queue \o Called,
         UNCHANGED table
  PROVE  QueueInv'
<1> DEFINE x == Top.tx
           j == Job("deleted", {x}, 0, 0)
           n == Len(queue)
<1>1. /\ x \notin allTx /\ upd.txs = {} /\ upd' = upd
      /\ told'.height = [told.height EXCEPT ![x] = -1]
      /\ UNCHANGED <<allTx, transactions, height>>
  BY WalletTellRemoved
<1>2. Called = JobOf(Top) /\ Top.op = "removed" /\ x \in Tx
  BY CalledTells, TypeInvOK, TopType DEF Tells, TellRemoved, Running
<1>3. queue' = queue \o <<j>>
  BY <1>2 DEF JobOf
<1>4. j \in Jobs /\ j.kind = "deleted" /\ j.txs = {x}
  BY <1>2 DEF Jobs, Job
<1> HIDE DEF j
<1>5. /\ n \in Nat /\ queue'[n + 1] = j
      /\ \A i \in 1 .. n : queue'[i] = queue[i]
      /\ \A kind, t : JobsOf(kind, t) \subseteq 1 .. n
      /\ \A kind, t, i : i \in JobsOf(kind, t)' <=>
           \/ i \in JobsOf(kind, t)
           \/ i = n + 1 /\ j.kind = kind /\ t \in j.txs
      /\ \A kind, t : j.kind # kind \/ t \notin j.txs => JobsOf(kind, t)' = JobsOf(kind, t)
  BY <1>3, <1>4, JobsAppend DEF StoreType
<1> HIDE DEF n
<1>6. \A t : Rows(t)' = Rows(t)
  BY DEF Rows
<1>7. \A t \in Tx : told'.height[t] = IF t = x THEN -1 ELSE told.height[t]
  BY <1>1, <1>2 DEF TypeInv, ToldType
<1>8. \A t : JobsOf("added", t)' = JobsOf("added", t) /\ JobsOf("updated", t)' = JobsOf("updated", t)
  BY <1>4, <1>5
<1>9. ToBeAdded' \subseteq allTx'
  <2>1. (\A t : t \in ToBeAdded <=> JobsOf("added", t) # {})'
    BY ToBeAddedIs, PTL
  <2> QED BY <1>1, <1>8, <2>1, ToBeAddedIs DEF QueueInv
<1>10. ASSUME NEW t \in Tx, t # x PROVE InsertedOnce(t)' /\ KnownStored(t)' /\ HeightStored(t)'
  <2>1. JobsOf("deleted", t)' = JobsOf("deleted", t)
    BY <1>4, <1>5, <1>10
  <2>2. told'.height[t] = told.height[t] /\ (Knows(t)' <=> Knows(t))
    BY <1>7, <1>10 DEF Knows
  <2>3. InsertedOnce(t) /\ KnownStored(t) /\ HeightStored(t)
    BY DEF QueueInv
  <2>4. InsertedOnce(t)' /\ KnownStored(t)'
    BY <1>6, <1>8, <2>1, <2>2, <2>3 DEF InsertedOnce, KnownStored
  <2>5. HeightStored(t)'
    <3>1. \A i \in JobsOf("updated", t) : queue'[i] = queue[i]
      <4>1. JobsOf("updated", t) \subseteq 1 .. n /\ \A i \in 1 .. n : queue'[i] = queue[i]
        BY <1>5
      <4> QED BY <4>1
    <3>2. t \notin upd.txs
      BY <1>1
    <3> QED BY <1>6, <1>8, <2>2, <2>3, <3>1, <3>2 DEF HeightStored
  <2> QED BY <2>4, <2>5
<1>11. ASSUME NEW t \in Tx, t = x PROVE InsertedOnce(t)' /\ KnownStored(t)' /\ HeightStored(t)'
  <2>1. JobsOf("added", t)' = {} /\ ~ Knows(t)'
    BY <1>1, <1>7, <1>8, <1>11, ToBeAddedIs DEF QueueInv, Knows
  <2>2. n + 1 \in JobsOf("deleted", t)'
    BY <1>4, <1>5, <1>11
  <2> QED BY <2>1, <2>2 DEF InsertedOnce, KnownStored, HeightStored
<1> QED BY <1>9, <1>10, <1>11 DEF QueueInv

LEMMA QueueUpdated ==
  ASSUME TypeInv, StoreType, WalletInv, QueueInv, TellUpdated, queue' = queue \o Called,
         UNCHANGED table
  PROVE  QueueInv'
<1> DEFINE h == Top.h
           j == Job("updated", upd.txs, h, Top.ts)
           n == Len(queue)
<1>1. /\ upd'.txs = {} /\ UNCHANGED <<allTx, transactions, height>>
      /\ \A t \in Tx : told'.height[t] = IF t \in upd.txs /\ Knows(t) THEN h ELSE told.height[t]
  BY WalletTellUpdated
<1>2. Called = JobOf(Top) /\ Top.op = "updated" /\ h \in HeightsOrUnconfirmed /\ Top.ts \in Stamps \cup {0}
  BY CalledTells, TypeInvOK, FrameType DEF Tells, TellUpdated, Running, Frames
<1>3. queue' = queue \o <<j>>
  BY <1>2 DEF JobOf
<1>4. j \in Jobs /\ j.kind = "updated" /\ j.txs = upd.txs /\ j.h = h
  BY <1>2 DEF Jobs, Job, TypeInv, UpdType
<1> HIDE DEF j
<1>5. /\ n \in Nat /\ queue'[n + 1] = j
      /\ \A i \in 1 .. n : queue'[i] = queue[i]
      /\ \A kind, t : JobsOf(kind, t) \subseteq 1 .. n
      /\ \A kind, t, i : i \in JobsOf(kind, t)' <=>
           \/ i \in JobsOf(kind, t)
           \/ i = n + 1 /\ j.kind = kind /\ t \in j.txs
      /\ \A kind, t : j.kind # kind \/ t \notin j.txs => JobsOf(kind, t)' = JobsOf(kind, t)
  BY <1>3, <1>4, JobsAppend DEF StoreType
<1> HIDE DEF n
<1>6. \A t : Rows(t)' = Rows(t)
  BY DEF Rows
<1>7. \A t : JobsOf("added", t)' = JobsOf("added", t) /\ JobsOf("deleted", t)' = JobsOf("deleted", t)
  BY <1>4, <1>5
<1>8. \A t \in Tx : Knows(t)' <=> Knows(t)
  <2>1. h # -1
    BY <1>2, HeightNat
  <2> QED BY <1>1, <2>1 DEF Knows
<1>9. ToBeAdded' \subseteq allTx'
  <2>1. (\A t : t \in ToBeAdded <=> JobsOf("added", t) # {})'
    BY ToBeAddedIs, PTL
  <2> QED BY <1>1, <1>7, <2>1, ToBeAddedIs DEF QueueInv
<1>10. ASSUME NEW t \in Tx PROVE InsertedOnce(t)' /\ KnownStored(t)' /\ HeightStored(t)'
  <2>1. InsertedOnce(t) /\ KnownStored(t) /\ HeightStored(t)
    BY DEF QueueInv
  <2>2. InsertedOnce(t)' /\ KnownStored(t)'
    BY <1>6, <1>7, <1>8, <2>1 DEF InsertedOnce, KnownStored
  <2>3. ASSUME t \in upd.txs, Knows(t) PROVE HeightStored(t)'
    <3>1. told'.height[t] = h /\ n + 1 \in JobsOf("updated", t)'
      BY <1>1, <1>4, <1>5, <2>3
    <3>2. ASSUME NEW i \in JobsOf("updated", t)', n + 1 <= i PROVE queue'[i].h = h
      <4>1. i = n + 1
        BY <1>5, <3>2
      <4> QED BY <1>4, <1>5, <4>1
    <3> QED BY <3>1, <3>2 DEF HeightStored
  <2>4. ASSUME t \notin upd.txs PROVE HeightStored(t)'
    <3>1. JobsOf("updated", t)' = JobsOf("updated", t) /\ told'.height[t] = told.height[t]
      BY <1>1, <1>4, <1>5, <2>4
    <3>2. \A i \in JobsOf("updated", t) : queue'[i] = queue[i]
      <4>1. JobsOf("updated", t) \subseteq 1 .. n /\ \A i \in 1 .. n : queue'[i] = queue[i]
        BY <1>5
      <4> QED BY <4>1
    <3> QED BY <1>6, <1>7, <1>8, <2>1, <2>4, <3>1, <3>2 DEF HeightStored
  <2>5. ASSUME ~ Knows(t) PROVE HeightStored(t)'
    BY <1>8, <2>5 DEF HeightStored
  <2> QED BY <2>2, <2>3, <2>4, <2>5
<1> QED BY <1>9, <1>10 DEF QueueInv

-----------------------------------------------------------------------------
(***************************************************************************)
(* walletQueue: the jobs about a transaction move to the front, and one of *)
(* them may be done.                                                       *)
(***************************************************************************)
MovedUp(kind, t, d) ==
  \A i \in JobsOf(kind, t)' : i \in Nat /\ i + d \in JobsOf(kind, t) /\ queue'[i].h = queue[i + d].h
StillThere(kind, t, d) ==
  \A i \in JobsOf(kind, t) : i \in Nat /\ i >= 1 /\ i - d \in JobsOf(kind, t)'

LEMMA JobsMoved ==
  ASSUME QueueInv, UNCHANGED vars, NEW t \in Tx, NEW d \in {0, 1},
         \A kind \in {"added", "deleted", "updated"} : MovedUp(kind, t, d) /\ StillThere(kind, t, d),
         Rows(t)' = {} <=> Rows(t) = {},
         \A r \in Rows(t)' : \E s \in Rows(t) : table'[r].h = table[s].h
  PROVE  InsertedOnce(t)' /\ KnownStored(t)' /\ HeightStored(t)'
<1> DEFINE A == JobsOf("added", t)
           D == JobsOf("deleted", t)
           U == JobsOf("updated", t)
<1>1. /\ \A i \in A' : i \in Nat /\ i + d \in A
      /\ \A i \in D' : i \in Nat /\ i + d \in D
      /\ \A i \in U' : i \in Nat /\ i + d \in U /\ queue'[i].h = queue[i + d].h
  BY DEF MovedUp
<1>2. /\ \A i \in A : i \in Nat /\ i - d \in A'
      /\ \A i \in D : i \in Nat /\ i - d \in D'
      /\ \A i \in U : i \in Nat /\ i - d \in U'
  BY DEF StillThere
<1>3. (A' = {} <=> A = {}) /\ (D' = {} <=> D = {}) /\ (U' = {} <=> U = {})
  BY <1>1, <1>2
<1>4. InsertedOnce(t) /\ KnownStored(t) /\ HeightStored(t)
  BY DEF QueueInv
<1>5. Knows(t)' = Knows(t) /\ told' = told /\ height' = height /\ upd' = upd
  BY DEF Knows, vars, holdings
<1> HIDE DEF A, D, U
<1>6. InsertedOnce(t)'
  <2>1. ASSUME NEW i \in A', NEW j \in A' \cup D' PROVE j <= i
    <3>1. i \in Nat /\ i + d \in A /\ j \in Nat /\ j + d \in A \cup D
      BY <1>1
    <3>2. j + d <= i + d
      BY <1>4, <3>1 DEF InsertedOnce, A, D
    <3> QED BY <3>1, <3>2
  <2>2. A' # {} /\ Rows(t)' # {} => D' # {}
    BY <1>3, <1>4 DEF InsertedOnce, A, D
  <2> QED BY <2>1, <2>2 DEF InsertedOnce, A, D
<1>7. KnownStored(t)'
  BY <1>3, <1>4, <1>5 DEF KnownStored, A, D
<1>8. HeightStored(t)'
  <2>1. ASSUME Knows(t), NEW i \in U', \A j \in U' \cup A' : j <= i
        PROVE  queue'[i].h = told.height[t]
    <3>1. i \in Nat /\ i + d \in U /\ queue'[i].h = queue[i + d].h
      BY <1>1
    <3>2. ASSUME NEW k \in U \cup A PROVE k <= i + d
      <4>1. k \in Nat /\ k - d \in U' \cup A'
        BY <1>2
      <4>2. k - d <= i
        BY <2>1, <4>1
      <4> QED BY <3>1, <4>1, <4>2
    <3> QED BY <1>4, <2>1, <3>1, <3>2 DEF HeightStored, A, U
  <2>2. ASSUME Knows(t), U' \cup A' = {}, NEW r \in Rows(t)'
        PROVE  table'[r].h = told.height[t] \/ (t \in upd.txs /\ table'[r].h = height[t])
    <3>1. U \cup A = {}
      BY <1>3, <2>2
    <3> QED BY <1>4, <2>2, <3>1 DEF HeightStored, A, U
  <2> QED BY <1>5, <2>1, <2>2 DEF HeightStored, A, U
<1> QED BY <1>6, <1>7, <1>8

\* The first job updates the rows of t.
LEMMA JobsUpdated ==
  ASSUME QueueInv, UNCHANGED vars, NEW t \in Tx, NEW d \in {0, 1},
         \A kind \in {"added", "deleted"} : MovedUp(kind, t, d) /\ StillThere(kind, t, d),
         MovedUp("updated", t, d), 1 \in JobsOf("updated", t),
         \A i \in JobsOf("updated", t) : i \in Nat /\ i >= 1 /\ (i = 1 \/ i - d \in JobsOf("updated", t)'),
         Rows(t)' = Rows(t), \A r \in Rows(t)' : table'[r].h = queue[1].h
  PROVE  InsertedOnce(t)' /\ KnownStored(t)' /\ HeightStored(t)'
<1> DEFINE A == JobsOf("added", t)
           D == JobsOf("deleted", t)
           U == JobsOf("updated", t)
<1>1. /\ \A i \in A' : i \in Nat /\ i + d \in A
      /\ \A i \in D' : i \in Nat /\ i + d \in D
      /\ \A i \in U' : i \in Nat /\ i + d \in U /\ queue'[i].h = queue[i + d].h
  BY DEF MovedUp
<1>2. /\ \A i \in A : i \in Nat /\ i - d \in A'
      /\ \A i \in D : i \in Nat /\ i - d \in D'
      /\ \A i \in U : i \in Nat /\ i >= 1 /\ (i = 1 \/ i - d \in U')
  BY DEF StillThere
<1>3. (A' = {} <=> A = {}) /\ (D' = {} <=> D = {})
  BY <1>1, <1>2
<1>4. InsertedOnce(t) /\ KnownStored(t) /\ HeightStored(t)
  BY DEF QueueInv
<1>5. Knows(t)' = Knows(t) /\ told' = told /\ height' = height /\ upd' = upd
  BY DEF Knows, vars, holdings
<1>0. 1 \in U
  OBVIOUS
<1> HIDE DEF A, D, U
<1>6. InsertedOnce(t)'
  <2>1. ASSUME NEW i \in A', NEW j \in A' \cup D' PROVE j <= i
    <3>1. i \in Nat /\ i + d \in A /\ j \in Nat /\ j + d \in A \cup D
      BY <1>1
    <3>2. j + d <= i + d
      BY <1>4, <3>1 DEF InsertedOnce, A, D
    <3> QED BY <3>1, <3>2
  <2>2. A' # {} /\ Rows(t)' # {} => D' # {}
    BY <1>3, <1>4 DEF InsertedOnce, A, D
  <2> QED BY <2>1, <2>2 DEF InsertedOnce, A, D
<1>7. KnownStored(t)'
  BY <1>3, <1>4, <1>5 DEF KnownStored, A, D
<1>8. HeightStored(t)'
  <2>1. ASSUME Knows(t), NEW i \in U', \A j \in U' \cup A' : j <= i
        PROVE  queue'[i].h = told.height[t]
    <3>1. i \in Nat /\ i + d \in U /\ i + d >= 1 /\ queue'[i].h = queue[i + d].h
      BY <1>1, <1>2
    <3>2. ASSUME NEW k \in U \cup A PROVE k <= i + d
      <4>1. k \in Nat /\ (k = 1 \/ k - d \in U' \cup A')
        BY <1>2
      <4>2. k = 1 \/ k - d <= i
        BY <2>1, <4>1
      <4> QED BY <3>1, <4>1, <4>2
    <3> QED BY <1>4, <2>1, <3>1, <3>2 DEF HeightStored, A, U
  <2>2. ASSUME Knows(t), U' \cup A' = {}, NEW r \in Rows(t)'
        PROVE  table'[r].h = told.height[t]
    <3>1. \A k \in U \cup A : k <= 1
      BY <1>2, <1>3, <2>2
    <3>2. queue[1].h = told.height[t]
      BY <1>0, <1>4, <2>2, <3>1 DEF HeightStored, A, U
    <3> QED BY <3>2
  <2> QED BY <1>5, <2>1, <2>2 DEF HeightStored, A, U
<1> QED BY <1>6, <1>7, <1>8

\* The first job is done.
LEMMA JobsPop ==
  ASSUME queue \in Seq(Jobs), queue # <<>>, queue' = Tail(queue)
  PROVE  /\ NextJob \in Jobs
         /\ \A kind, t : 1 \in JobsOf(kind, t) <=> NextJob.kind = kind /\ t \in NextJob.txs
         /\ \A kind, t : MovedUp(kind, t, 1)
         /\ \A kind, t : \A i \in JobsOf(kind, t) :
              i \in Nat /\ i >= 1 /\ (i = 1 \/ i - 1 \in JobsOf(kind, t)')
         /\ \A kind, t : ~ (NextJob.kind = kind /\ t \in NextJob.txs) => StillThere(kind, t, 1)
<1> DEFINE q == Tail(queue)
           n == Len(queue)
<1>1. /\ n \in Nat /\ n >= 1 /\ DOMAIN queue = 1 .. n /\ NextJob = queue[1] /\ NextJob \in Jobs
      /\ DOMAIN q = 1 .. n - 1 /\ \A i \in 1 .. n - 1 : q[i] = queue[i + 1]
  <2>1. n \in Nat /\ n # 0 /\ DOMAIN queue = 1 .. n
    BY EmptySeq, LenProperties
  <2>2. NextJob = queue[1] /\ NextJob \in Jobs
    BY HeadTailProperties DEF NextJob
  <2>3. q \in Seq(Jobs) /\ Len(q) = n - 1 /\ \A i \in 1 .. n - 1 : q[i] = queue[i + 1]
    BY HeadTailProperties
  <2> QED BY <2>1, <2>2, <2>3, LenProperties
<1>2. queue' = q
  OBVIOUS
<1> HIDE DEF q, n
<1>3. ASSUME NEW kind, NEW t
      PROVE  /\ 1 \in JobsOf(kind, t) <=> NextJob.kind = kind /\ t \in NextJob.txs
             /\ MovedUp(kind, t, 1)
             /\ \A i \in JobsOf(kind, t) : i \in Nat /\ i >= 1 /\ (i = 1 \/ i - 1 \in JobsOf(kind, t)')
  <2>1. 1 \in JobsOf(kind, t) <=> NextJob.kind = kind /\ t \in NextJob.txs
    BY <1>1 DEF JobsOf
  <2>2. ASSUME NEW i \in JobsOf(kind, t)'
        PROVE  i \in Nat /\ i + 1 \in JobsOf(kind, t) /\ queue'[i].h = queue[i + 1].h
    <3>1. i \in DOMAIN q /\ q[i].kind = kind /\ t \in q[i].txs
      BY <1>2 DEF JobsOf
    <3>2. i \in Nat /\ i + 1 \in DOMAIN queue /\ q[i] = queue[i + 1]
      BY <1>1, <3>1
    <3> QED BY <1>2, <3>1, <3>2 DEF JobsOf
  <2>3. ASSUME NEW i \in JobsOf(kind, t)
        PROVE  i \in Nat /\ i >= 1 /\ (i = 1 \/ i - 1 \in JobsOf(kind, t)')
    <3>1. i \in 1 .. n /\ queue[i].kind = kind /\ t \in queue[i].txs
      BY <1>1 DEF JobsOf
    <3>2. i # 1 => i - 1 \in DOMAIN q /\ q[i - 1] = queue[i]
      BY <1>1, <3>1
    <3> QED BY <1>1, <1>2, <3>1, <3>2 DEF JobsOf
  <2> QED BY <2>1, <2>2, <2>3 DEF MovedUp
<1> QED BY <1>1, <1>3 DEF StillThere

LEMMA RowsAtIs ==
  ASSUME table \in Seq(Row), NEW at, at \subseteq DOMAIN table
  PROVE  LET s == RowsAt(at)
         IN  /\ s \in Seq(Row)
             /\ \A i \in at : \E k \in DOMAIN s : s[k] = table[i]
             /\ \A k \in DOMAIN s : \E i \in at : s[k] = table[i]
             /\ \A k, l \in DOMAIN s : k # l =>
                  \E i, j \in at : i # j /\ s[k] = table[i] /\ s[l] = table[j]
<1> DEFINE n == Len(table)
           c == Cardinality(at)
           upTo(i) == PlaceIn(at, i)
           p(k) == CHOOSE i \in at : upTo(i) = k
           s == RowsAt(at)
<1>1. n \in Nat /\ DOMAIN table = 1 .. n
  BY LenProperties
<1>2. at \subseteq 1 .. n
  BY <1>1
<1>3. c \in Nat /\ \A i \in at : upTo(i) \in 1 .. c
  BY <1>1, <1>2, NthWithin
<1>4. \A k \in 1 .. c : \E i \in at : upTo(i) = k
  <2>1. n \in Nat /\ at \subseteq 1 .. n
    BY <1>1, <1>2
  <2> HIDE DEF n
  <2> QED BY <2>1, Nth
<1>5. \A i \in at, k \in at : upTo(i) = upTo(k) => i = k
  BY <1>1, <1>2, NthOnly
<1>6. s = [k \in 1 .. c |-> table[p(k)]]
  BY DEF RowsAt, PlaceIn
<1> HIDE DEF n, c, s, upTo
<1>7. \A k \in 1 .. c : p(k) \in at /\ upTo(p(k)) = k
  BY <1>4
<1> HIDE DEF p
<1>8. \A i \in at : table[i] \in Row
  BY ElementOfSeq, <1>1, <1>2 DEF n
<1>9. DOMAIN s = 1 .. c /\ \A k \in 1 .. c : s[k] = table[p(k)]
  BY <1>6
<1>10. s \in Seq(Row)
  <2>1. s \in [1 .. c -> Row]
    BY <1>6, <1>7, <1>8
  <2> QED BY <1>3, <2>1, SeqDef
<1>11. ASSUME NEW i \in at PROVE \E k \in DOMAIN s : s[k] = table[i]
  <2>1. upTo(i) \in 1 .. c /\ p(upTo(i)) = i
    BY <1>3, <1>5, <1>7
  <2> QED BY <1>9, <2>1
<1>12. \A k \in DOMAIN s : \E i \in at : s[k] = table[i]
  BY <1>7, <1>9
<1>13. ASSUME NEW k \in DOMAIN s, NEW l \in DOMAIN s, k # l
       PROVE  \E i, j \in at : i # j /\ s[k] = table[i] /\ s[l] = table[j]
  <2>1. p(k) \in at /\ p(l) \in at /\ p(k) # p(l)
    BY <1>7, <1>9, <1>13
  <2> QED BY <1>9, <2>1
<1> QED BY <1>10, <1>11, <1>12, <1>13 DEF s

LEMMA RowShape ==
  ASSUME StoreType
  PROVE  \A r \in DOMAIN table : table[r] \in Row /\ table[r].tx \in Tx
<1>1. \A r \in DOMAIN table : table[r] \in Row
  BY ElementOfSeq, LenProperties DEF StoreType
<1> QED BY <1>1 DEF Row

LEMMA JobsTail ==
  ASSUME StoreType, queue # <<>>
  PROVE  Tail(queue) \in Seq(Jobs) /\ NextJob \in Jobs
BY HeadTailProperties DEF StoreType, NextJob

\* A job that is not about t, in a step that leaves the rows of t.
LEMMA PopOther ==
  ASSUME StoreType, QueueInv, UNCHANGED vars, queue # <<>>, queue' = Tail(queue),
         NEW t \in Tx, t \notin NextJob.txs,
         Rows(t)' = {} <=> Rows(t) = {},
         \A r \in Rows(t)' : \E s \in Rows(t) : table'[r].h = table[s].h
  PROVE  InsertedOnce(t)' /\ KnownStored(t)' /\ HeightStored(t)'
<1>1. \A kind \in {"added", "deleted", "updated"} : MovedUp(kind, t, 1) /\ StillThere(kind, t, 1)
  BY JobsPop DEF StoreType
<1> QED BY <1>1, JobsMoved

LEMMA QueueToBeAdded ==
  ASSUME QueueInv, UNCHANGED vars, \A t : JobsOf("added", t)' # {} => JobsOf("added", t) # {}
  PROVE  ToBeAdded' \subseteq allTx'
<1>1. (\A t : t \in ToBeAdded <=> JobsOf("added", t) # {})'
  BY ToBeAddedIs, PTL
<1>2. allTx' = allTx
  BY DEF vars, holdings
<1> QED BY <1>1, <1>2, ToBeAddedIs DEF QueueInv

LEMMA StoreInsertRow ==
  ASSUME TypeInv, StoreType, OneRow, WalletInv, QueueInv, InsertRow
  PROVE  OneRow' /\ QueueInv'
<1>1. /\ queue # <<>> /\ NextJob.kind = "added" /\ queue' = Tail(queue)
      /\ UNCHANGED <<vars, phase, rows>>
  BY DEF InsertRow
<1>2. PICK t \in NextJob.txs : table' = Append(table, [tx |-> t, h |-> height[t], ts |-> timestamp[t]])
  BY DEF InsertRow
<1>3. Tail(queue) \in Seq(Jobs) /\ NextJob \in Jobs
  BY <1>1, JobsTail
<1>4. t \in Tx /\ NextJob.txs = {t}
  BY <1>1, <1>3 DEF Jobs
<1> DEFINE row == [tx |-> t, h |-> height[t], ts |-> timestamp[t]]
           m == Len(table)
<1>5. row \in Row /\ row.tx = t /\ row.h = height[t]
  BY <1>4 DEF Row, TypeInv, HoldingsType
<1> HIDE DEF row
<1>6. /\ m \in Nat /\ DOMAIN table = 1 .. m /\ DOMAIN table' = 1 .. m + 1
      /\ \A r \in 1 .. m : table'[r] = table[r]
      /\ table'[m + 1] = row
  <2>1. table \in Seq(Row)
    BY DEF StoreType
  <2>2. table' = Append(table, row)
    BY <1>2 DEF row
  <2> QED BY <1>5, <2>1, <2>2, AppendProperties, LenProperties
<1> HIDE DEF m
<1>8. /\ \A kind, u : 1 \in JobsOf(kind, u) <=> NextJob.kind = kind /\ u \in NextJob.txs
      /\ \A kind, u : MovedUp(kind, u, 1)
      /\ \A kind, u : \A i \in JobsOf(kind, u) :
           i \in Nat /\ i >= 1 /\ (i = 1 \/ i - 1 \in JobsOf(kind, u)')
  BY <1>1, JobsPop DEF StoreType
<1>9. JobsOf("added", t) = {1} /\ JobsOf("deleted", t) = {} /\ 1 \notin JobsOf("updated", t)
  <2>1. 1 \in JobsOf("added", t) /\ 1 \notin JobsOf("deleted", t) /\ 1 \notin JobsOf("updated", t)
    BY <1>1, <1>4, <1>8
  <2>2. \A j \in JobsOf("added", t) \cup JobsOf("deleted", t) : j <= 1
    BY <1>4, <2>1 DEF QueueInv, InsertedOnce
  <2>3. \A j \in JobsOf("added", t) \cup JobsOf("deleted", t) : j \in Nat /\ j >= 1
    BY <1>8
  <2>4. \A j \in JobsOf("added", t) \cup JobsOf("deleted", t) : j = 1
    BY <2>2, <2>3
  <2> QED BY <2>1, <2>4
<1>10. Rows(t) = {} /\ Knows(t)
  BY <1>4, <1>9 DEF QueueInv, InsertedOnce, KnownStored
<1>11. Rows(t)' = {m + 1} /\ \A u : u # t => Rows(u)' = Rows(u)
  <2>1. ASSUME NEW u, NEW r PROVE r \in Rows(u)' <=> r \in Rows(u) \/ (u = t /\ r = m + 1)
    <3>1. r \in Rows(u)' <=> r \in 1 .. m + 1 /\ table'[r].tx = u
      BY <1>6 DEF Rows
    <3>2. r \in Rows(u) <=> r \in 1 .. m /\ table[r].tx = u
      BY <1>6 DEF Rows
    <3>3. r \in 1 .. m + 1 <=> r \in 1 .. m \/ r = m + 1
      BY <1>6
    <3>4. m + 1 \notin 1 .. m
      BY <1>6
    <3> QED BY <1>5, <1>6, <3>1, <3>2, <3>3, <3>4
  <2>2. \A r : r \in Rows(t)' <=> r = m + 1
    BY <1>10, <2>1
  <2>3. \A u : u # t => \A r : r \in Rows(u)' <=> r \in Rows(u)
    BY <2>1
  <2> HIDE DEF Rows
  <2> QED BY <2>2, <2>3
<1>12. OneRow'
  <2>1. ASSUME NEW r \in 1 .. m + 1, NEW s \in 1 .. m + 1, table'[r].tx = table'[s].tx, r \in 1 .. m
        PROVE  s \in 1 .. m
    <3>1. table'[r].tx # t
      BY <1>6, <1>10, <2>1 DEF Rows
    <3>2. s # m + 1
      BY <1>5, <1>6, <2>1, <3>1
    <3> QED BY <1>6, <3>2
  <2>2. \A r \in 1 .. m + 1 : r \in 1 .. m \/ r = m + 1
    BY <1>6
  <2>3. m + 1 \notin 1 .. m
    BY <1>6
  <2>4. ASSUME NEW r \in 1 .. m + 1, NEW s \in 1 .. m + 1, table'[r].tx = table'[s].tx
        PROVE  r = s
    <3>1. CASE r \in 1 .. m
      <4>1. s \in 1 .. m
        BY <2>1, <2>4, <3>1
      <4> QED BY <1>6, <2>4, <3>1, <4>1 DEF OneRow
    <3>2. CASE r = m + 1
      <4>1. s \notin 1 .. m
        BY <2>1, <2>3, <2>4, <3>2
      <4> QED BY <2>2, <3>2, <4>1
    <3> QED BY <2>2, <3>1, <3>2
  <2> QED BY <1>6, <2>4 DEF OneRow
<1>13. ASSUME NEW u \in Tx, u # t PROVE InsertedOnce(u)' /\ KnownStored(u)' /\ HeightStored(u)'
  <2>1. Rows(u)' = Rows(u) /\ u \notin NextJob.txs
    BY <1>4, <1>11, <1>13
  <2>2. \A r \in Rows(u) : table'[r] = table[r]
    BY <1>6 DEF Rows
  <2> QED BY <1>1, <2>1, <2>2, PopOther
<1>14. ASSUME NEW u \in Tx, u = t PROVE InsertedOnce(u)' /\ KnownStored(u)' /\ HeightStored(u)'
  <2>1. JobsOf("added", u)' = {} /\ JobsOf("deleted", u)' = {}
    <3>1. MovedUp("added", u, 1) /\ MovedUp("deleted", u, 1)
      BY <1>8
    <3>2. JobsOf("added", u) = {1} /\ JobsOf("deleted", u) = {}
      BY <1>9, <1>14
    <3>3. \A i \in JobsOf("added", u)' : i \in Nat /\ i + 1 = 1 /\ i + 1 - 1 = i
      BY <3>1, <3>2 DEF MovedUp
    <3>4. \A i \in JobsOf("added", u)' : i = 0
      BY <3>3
    <3>5. 0 \notin JobsOf("added", u)'
      <4>1. DOMAIN queue' = 1 .. Len(queue')
        BY <1>1, <1>3, LenProperties
      <4> QED BY <4>1 DEF JobsOf
    <3> QED BY <3>1, <3>2, <3>4, <3>5 DEF MovedUp
  <2>2. told' = told /\ height' = height /\ upd' = upd /\ Knows(u) /\ Knows(u)'
    BY <1>1, <1>10, <1>14 DEF Knows, vars, holdings
  <2>3. InsertedOnce(u)'
    BY <2>1 DEF InsertedOnce
  <2>4. KnownStored(u)'
    BY <1>11, <1>14, <2>1, <2>2 DEF KnownStored
  <2>5. HeightStored(u)'
    <3>1. ASSUME NEW i \in JobsOf("updated", u)', \A j \in JobsOf("updated", u)' : j <= i
          PROVE  queue'[i].h = told.height[u]
      <4>1. i \in Nat /\ i + 1 \in JobsOf("updated", u) /\ queue'[i].h = queue[i + 1].h
        BY <1>8 DEF MovedUp
      <4>2. ASSUME NEW k \in JobsOf("updated", u) \cup JobsOf("added", u) PROVE k <= i + 1
        <5>1. k \in Nat /\ (k = 1 \/ k - 1 \in JobsOf("updated", u)')
          BY <1>8, <1>9, <1>14
        <5>2. k = 1 \/ k - 1 <= i
          BY <3>1, <5>1
        <5> QED BY <4>1, <5>1, <5>2
      <4>3. HeightStored(u)
        BY DEF QueueInv
      <4> QED BY <2>2, <4>1, <4>2, <4>3 DEF HeightStored
    <3>2. ASSUME NEW r \in Rows(u)'
          PROVE  table'[r].h = told.height[u] \/ (u \in upd.txs /\ table'[r].h = height[u])
      <4>1. table'[r].h = height[u]
        BY <1>5, <1>6, <1>11, <1>14
      <4>2. u \in Registered
        <5>1. u \in allTx
          BY <1>9, <1>14, ToBeAddedIs DEF QueueInv
        <5>2. u \in Registered \/ Awaited("removed", u)
          BY <2>2 DEF WalletInv, ToldInv
        <5> QED BY <5>1, <5>2 DEF WalletInv, ToldInv, Awaited
      <4>3. u \notin upd.txs => told.height[u] = height[u]
        BY <2>2, <4>2 DEF WalletInv, ToldInv
      <4> QED BY <4>1, <4>3
    <3> QED BY <2>1, <2>2, <3>1, <3>2 DEF HeightStored
  <2> QED BY <2>3, <2>4, <2>5
<1>15. ToBeAdded' \subseteq allTx'
  <2>1. \A u : JobsOf("added", u)' # {} => JobsOf("added", u) # {}
    BY <1>8 DEF MovedUp
  <2> QED BY <1>1, <2>1, QueueToBeAdded
<1>16. QueueInv'
  BY <1>13, <1>14, <1>15 DEF QueueInv
<1> QED BY <1>12, <1>16

LEMMA JobsSplit ==
  ASSUME queue \in Seq(Jobs), queue # <<>>, NEW left, NextJob.kind = "updated",
         queue' = <<[NextJob EXCEPT !.txs = left]>> \o Tail(queue), left \subseteq NextJob.txs
  PROVE  /\ queue' \in Seq(Jobs)
         /\ \A kind, u : MovedUp(kind, u, 0)
         /\ \A kind, u : \A i \in JobsOf(kind, u) :
              i \in Nat /\ i >= 1 /\ (i - 0 \in JobsOf(kind, u)' \/ (i = 1 /\ u \notin left))
<1> DEFINE j == [NextJob EXCEPT !.txs = left]
           a == <<j>>
           r == Tail(queue)
           q == a \o r
           n == Len(queue)
<1>1. /\ n \in Nat /\ n >= 1 /\ DOMAIN queue = 1 .. n /\ NextJob = queue[1] /\ NextJob \in Jobs
      /\ r \in Seq(Jobs) /\ Len(r) = n - 1 /\ \A i \in 1 .. n - 1 : r[i] = queue[i + 1]
  <2>1. n \in Nat /\ n # 0 /\ DOMAIN queue = 1 .. n
    BY EmptySeq, LenProperties
  <2>2. NextJob = queue[1] /\ NextJob \in Jobs
    BY HeadTailProperties DEF NextJob
  <2> QED BY <2>1, <2>2, HeadTailProperties
<1>2. j \in Jobs /\ j.kind = NextJob.kind /\ j.h = NextJob.h /\ j.txs = left
  BY <1>1 DEF Jobs
<1> HIDE DEF j, r, n
<1>3. a \in Seq(Jobs) /\ Len(a) = 1 /\ a[1] = j
  BY <1>2
<1> HIDE DEF a
<1>4. /\ q \in Seq(Jobs) /\ Len(q) = 1 + Len(r)
      /\ \A i \in 1 .. 1 + Len(r) : q[i] = IF i <= 1 THEN a[i] ELSE r[i - 1]
  <2>2. a \in Seq(Jobs) /\ r \in Seq(Jobs)
    BY <1>1, <1>3
  <2>1. /\ a \o r \in Seq(Jobs) /\ Len(a \o r) = Len(a) + Len(r)
        /\ \A i \in 1 .. Len(a) + Len(r) : (a \o r)[i] = IF i <= Len(a) THEN a[i] ELSE r[i - Len(a)]
    BY <2>2, ConcatProperties
  <2> QED BY <1>3, <2>1
<1> HIDE DEF q
<1>5. DOMAIN q = 1 .. n /\ q[1] = j /\ \A i \in 1 .. n : i # 1 => q[i] = queue[i]
  <2>1. DOMAIN q = 1 .. n /\ Len(r) = n - 1
    BY <1>1, <1>4, LenProperties
  <2>2. q[1] = j
    BY <1>1, <1>3, <1>4, <2>1
  <2>3. ASSUME NEW i \in 1 .. n, i # 1 PROVE q[i] = queue[i]
    <3>1. i \in 1 .. 1 + Len(r) /\ ~ (i <= 1) /\ i - 1 \in 1 .. n - 1 /\ (i - 1) + 1 = i
      BY <1>1, <2>1, <2>3
    <3> QED BY <1>1, <1>4, <3>1
  <2> QED BY <2>1, <2>2, <2>3
<1>6. queue' = q
  BY DEF q, a, j, r
<1>7. ASSUME NEW kind, NEW u
      PROVE  /\ MovedUp(kind, u, 0)
             /\ \A i \in JobsOf(kind, u) :
                  i \in Nat /\ i >= 1 /\ (i - 0 \in JobsOf(kind, u)' \/ (i = 1 /\ u \notin left))
  <2>1. ASSUME NEW i \in JobsOf(kind, u)'
        PROVE  i \in Nat /\ i + 0 \in JobsOf(kind, u) /\ queue'[i].h = queue[i + 0].h
    <3>1. i \in 1 .. n /\ q[i].kind = kind /\ u \in q[i].txs
      BY <1>5, <1>6 DEF JobsOf
    <3>2. i \in Nat /\ i + 0 = i /\ i \in DOMAIN queue
      BY <1>1, <3>1
    <3>3. queue[i].kind = kind /\ u \in queue[i].txs /\ q[i].h = queue[i].h
      BY <1>1, <1>2, <1>5, <3>1
    <3> QED BY <1>6, <3>2, <3>3 DEF JobsOf
  <2>2. ASSUME NEW i \in JobsOf(kind, u)
        PROVE  i \in Nat /\ i >= 1 /\ (i - 0 \in JobsOf(kind, u)' \/ (i = 1 /\ u \notin left))
    <3>1. i \in 1 .. n /\ queue[i].kind = kind /\ u \in queue[i].txs
      BY <1>1 DEF JobsOf
    <3>2. i \in Nat /\ i >= 1 /\ i - 0 = i /\ i \in DOMAIN q
      BY <1>1, <1>5, <3>1
    <3>3. CASE i # 1
      <4>1. q[i] = queue[i]
        BY <1>5, <3>1, <3>3
      <4> QED BY <1>6, <3>1, <3>2, <4>1 DEF JobsOf
    <3>4. CASE i = 1
      <4>1. q[i].kind = kind /\ q[i].txs = left
        BY <1>1, <1>2, <1>5, <3>1, <3>4
      <4> QED BY <1>6, <3>2, <3>4, <4>1 DEF JobsOf
    <3> QED BY <3>3, <3>4
  <2> QED BY <2>1, <2>2 DEF MovedUp
<1> QED BY <1>4, <1>6, <1>7

LEMMA StoreUpdateRow ==
  ASSUME TypeInv, StoreType, OneRow, WalletInv, QueueInv, UpdateRow
  PROVE  OneRow' /\ QueueInv'
<1>1. queue # <<>> /\ NextJob.kind = "updated" /\ UNCHANGED <<vars, phase, rows>>
  BY DEF UpdateRow
<1>2. PICK t \in NextJob.txs :
        LET left == NextJob.txs \ {t}
        IN  /\ table' = [i \in DOMAIN table |->
                  IF table[i].tx # t THEN table[i]
                  ELSE [tx |-> t, h |-> NextJob.h, ts |-> NextJob.ts]]
            /\ queue' = (IF left = {} THEN <<>> ELSE <<[NextJob EXCEPT !.txs = left]>>) \o Tail(queue)
  BY DEF UpdateRow
<1> DEFINE left == NextJob.txs \ {t}
           row == [tx |-> t, h |-> NextJob.h, ts |-> NextJob.ts]
<1>3. /\ table' = [i \in DOMAIN table |-> IF table[i].tx # t THEN table[i] ELSE row]
      /\ queue' = (IF left = {} THEN <<>> ELSE <<[NextJob EXCEPT !.txs = left]>>) \o Tail(queue)
  BY <1>2
<1>4. Tail(queue) \in Seq(Jobs) /\ NextJob \in Jobs /\ NextJob = queue[1]
  BY <1>1, JobsTail, HeadTailProperties DEF StoreType, NextJob
<1>5. t \in Tx /\ row.tx = t /\ row.h = NextJob.h
  BY <1>1, <1>4 DEF Jobs
<1>6. left \subseteq NextJob.txs /\ \A u : u \in left <=> u \in NextJob.txs /\ u # t
  OBVIOUS
<1> HIDE DEF row, left
<1>8. /\ DOMAIN table' = DOMAIN table
      /\ \A r \in DOMAIN table : table'[r].tx = table[r].tx
      /\ \A r \in DOMAIN table : table'[r] = IF table[r].tx # t THEN table[r] ELSE row
  BY <1>3, <1>5
<1>9. OneRow'
  BY <1>8 DEF OneRow
<1>10. \A u : Rows(u)' = Rows(u)
  BY <1>8 DEF Rows
<1>11. /\ \A u : u # t => \A r \in Rows(u) : table'[r] = table[r]
       /\ \A r \in Rows(t) : table'[r].h = queue[1].h
  BY <1>4, <1>5, <1>8 DEF Rows
<1>12. PICK d \in {0, 1} :
         /\ \A kind, u : MovedUp(kind, u, d)
         /\ \A kind, u : \A i \in JobsOf(kind, u) :
              i \in Nat /\ i >= 1 /\ (i - d \in JobsOf(kind, u)' \/ (i = 1 /\ u \notin left))
  <2>1. CASE left = {}
    <3>1. queue' = Tail(queue)
      BY <1>3, <1>4, <2>1, ConcatEmptySeq
    <3>2. /\ \A kind, u : MovedUp(kind, u, 1)
          /\ \A kind, u : \A i \in JobsOf(kind, u) :
               i \in Nat /\ i >= 1 /\ (i - 1 \in JobsOf(kind, u)' \/ (i = 1 /\ u \notin left))
      BY <1>1, <2>1, <3>1, JobsPop DEF StoreType
    <3> QED BY <3>2
  <2>2. CASE left # {}
    <3>1. queue' = <<[NextJob EXCEPT !.txs = left]>> \o Tail(queue)
      BY <1>3, <2>2
    <3> QED BY <1>1, <1>6, <3>1, JobsSplit DEF StoreType
  <2> QED BY <2>1, <2>2
<1>14. \A kind, u : 1 \in JobsOf(kind, u) <=> NextJob.kind = kind /\ u \in NextJob.txs
  <2>1. 1 \in DOMAIN queue
    BY <1>1, EmptySeq, LenProperties DEF StoreType
  <2> QED BY <1>4, <2>1 DEF JobsOf
<1>15. ASSUME NEW u \in Tx, u # t PROVE InsertedOnce(u)' /\ KnownStored(u)' /\ HeightStored(u)'
  <2>1. \A kind \in {"added", "deleted", "updated"} : StillThere(kind, u, d)
    <3>1. \A kind : 1 \in JobsOf(kind, u) => u \in left
      BY <1>6, <1>14, <1>15
    <3> QED BY <1>12, <3>1 DEF StillThere
  <2>2. /\ Rows(u)' = {} <=> Rows(u) = {}
        /\ \A r \in Rows(u)' : \E s \in Rows(u) : table'[r].h = table[s].h
    BY <1>10, <1>11, <1>15
  <2> QED BY <1>1, <1>12, <2>1, <2>2, JobsMoved
<1>16. ASSUME NEW u \in Tx, u = t PROVE InsertedOnce(u)' /\ KnownStored(u)' /\ HeightStored(u)'
  <2>1. 1 \in JobsOf("updated", u) /\ 1 \notin JobsOf("added", u) /\ 1 \notin JobsOf("deleted", u)
    BY <1>1, <1>14, <1>16
  <2>2. StillThere("added", u, d) /\ StillThere("deleted", u, d)
    BY <1>12, <2>1 DEF StillThere
  <2>3. \A i \in JobsOf("updated", u) : i \in Nat /\ i >= 1 /\ (i = 1 \/ i - d \in JobsOf("updated", u)')
    BY <1>12
  <2>4. Rows(u)' = Rows(u) /\ \A r \in Rows(u)' : table'[r].h = queue[1].h
    BY <1>10, <1>11, <1>16
  <2> QED BY <1>1, <1>12, <2>1, <2>2, <2>3, <2>4, JobsUpdated
<1>17. ToBeAdded' \subseteq allTx'
  <2>1. \A u : JobsOf("added", u)' # {} => JobsOf("added", u) # {}
    BY <1>12 DEF MovedUp
  <2> QED BY <1>1, <2>1, QueueToBeAdded
<1>18. QueueInv'
  BY <1>15, <1>16, <1>17 DEF QueueInv
<1> QED BY <1>9, <1>18

LEMMA StoreDeleteRow ==
  ASSUME TypeInv, StoreType, OneRow, WalletInv, QueueInv, DeleteRow
  PROVE  OneRow' /\ QueueInv'
<1> DEFINE at == {i \in DOMAIN table : table[i].tx \notin NextJob.txs}
           s == RowsAt(at)
<1>1. /\ queue # <<>> /\ NextJob.kind = "deleted" /\ queue' = Tail(queue) /\ table' = s
      /\ UNCHANGED <<vars, phase, rows>>
  BY DEF DeleteRow
<1>2. Tail(queue) \in Seq(Jobs) /\ NextJob \in Jobs
  BY <1>1, JobsTail
<1>3. PICK t \in Tx : NextJob.txs = {t}
  BY <1>1, <1>2 DEF Jobs
<1>4. \A i : i \in at <=> i \in DOMAIN table /\ table[i].tx # t
  BY <1>3
<1> HIDE DEF at
<1>5. /\ \A i \in at : \E k \in DOMAIN s : s[k] = table[i]
      /\ \A k \in DOMAIN s : \E i \in at : s[k] = table[i]
      /\ \A k, l \in DOMAIN s : k # l => \E i, j \in at : i # j /\ s[k] = table[i] /\ s[l] = table[j]
  <2>1. at \subseteq DOMAIN table /\ table \in Seq(Row)
    BY <1>4 DEF StoreType
  <2> QED BY <2>1, RowsAtIs
<1> HIDE DEF s
<1>7. OneRow'
  <2> SUFFICES ASSUME NEW k \in DOMAIN s, NEW l \in DOMAIN s, k # l, s[k].tx = s[l].tx PROVE FALSE
    BY <1>1 DEF OneRow
  <2>1. PICK i \in at, j \in at : i # j /\ s[k] = table[i] /\ s[l] = table[j]
    BY <1>5
  <2> QED BY <1>4, <2>1 DEF OneRow
<1>8. Rows(t)' = {}
  BY <1>1, <1>4, <1>5 DEF Rows
<1>9. ASSUME NEW u, u # t
      PROVE  /\ Rows(u)' = {} <=> Rows(u) = {}
             /\ \A r \in Rows(u)' : \E i \in Rows(u) : table'[r].h = table[i].h
  <2>1. ASSUME NEW r \in Rows(u)' PROVE \E i \in Rows(u) : table'[r].h = table[i].h
    <3>1. r \in DOMAIN s /\ s[r].tx = u
      BY <1>1 DEF Rows
    <3>2. PICK i \in at : s[r] = table[i]
      BY <1>5, <3>1
    <3>3. i \in Rows(u)
      BY <1>4, <3>1, <3>2 DEF Rows
    <3> QED BY <1>1, <3>2, <3>3
  <2>2. ASSUME NEW i \in Rows(u) PROVE Rows(u)' # {}
    <3>1. i \in at /\ table[i].tx = u
      BY <1>4, <1>9 DEF Rows
    <3>2. PICK k \in DOMAIN s : s[k] = table[i]
      BY <1>5, <3>1
    <3>3. k \in Rows(u)'
      BY <1>1, <3>1, <3>2 DEF Rows
    <3> QED BY <3>3
  <2> QED BY <2>1, <2>2
<1>10. /\ \A kind, u : 1 \in JobsOf(kind, u) <=> NextJob.kind = kind /\ u \in NextJob.txs
       /\ \A kind, u : MovedUp(kind, u, 1)
       /\ \A kind, u : \A i \in JobsOf(kind, u) :
            i \in Nat /\ i >= 1 /\ (i = 1 \/ i - 1 \in JobsOf(kind, u)')
  BY <1>1, JobsPop DEF StoreType
<1>11. ASSUME NEW u \in Tx, u # t PROVE InsertedOnce(u)' /\ KnownStored(u)' /\ HeightStored(u)'
  BY <1>1, <1>3, <1>9, <1>11, PopOther
<1>12. ASSUME NEW u \in Tx, u = t PROVE InsertedOnce(u)' /\ KnownStored(u)' /\ HeightStored(u)'
  <2> DEFINE A == JobsOf("added", u)
             U == JobsOf("updated", u)
  <2>1. 1 \in JobsOf("deleted", u) /\ 1 \notin A /\ 1 \notin U
    BY <1>1, <1>3, <1>10, <1>12
  <2>2. \A i \in A' : i \in Nat /\ i + 1 \in A
    BY <1>10 DEF MovedUp
  <2>3. \A i \in JobsOf("deleted", u)' : i \in Nat /\ i + 1 \in JobsOf("deleted", u)
    BY <1>10 DEF MovedUp
  <2>4. \A i \in U' : i \in Nat /\ i + 1 \in U /\ queue'[i].h = queue[i + 1].h
    BY <1>10 DEF MovedUp
  <2>5. (\A i \in A : i \in Nat /\ i - 1 \in A') /\ (\A i \in U : i \in Nat /\ i - 1 \in U')
    BY <1>10, <2>1
  <2>6. InsertedOnce(u) /\ KnownStored(u) /\ HeightStored(u)
    BY DEF QueueInv
  <2>7. Rows(u)' = {} /\ told' = told /\ (Knows(u)' <=> Knows(u))
    BY <1>1, <1>8, <1>12 DEF Knows, vars
  <2> HIDE DEF A, U
  <2>8. InsertedOnce(u)'
    <3>1. ASSUME NEW i \in A', NEW j \in A' \cup JobsOf("deleted", u)' PROVE j <= i
      <4>1. i \in Nat /\ i + 1 \in A /\ j \in Nat /\ j + 1 \in A \cup JobsOf("deleted", u)
        BY <2>2, <2>3
      <4>2. j + 1 <= i + 1
        BY <2>6, <4>1 DEF InsertedOnce, A
      <4> QED BY <4>1, <4>2
    <3> QED BY <2>7, <3>1 DEF InsertedOnce, A
  <2>9. KnownStored(u)'
    <3>1. A' = {} <=> A = {}
      BY <2>2, <2>5
    <3>2. Knows(u) <=> A # {}
      BY <2>1, <2>6 DEF KnownStored, A
    <3> QED BY <2>7, <3>1, <3>2 DEF KnownStored, A
  <2>10. HeightStored(u)'
    <3>1. ASSUME Knows(u), NEW i \in U', \A j \in U' \cup A' : j <= i
          PROVE  queue'[i].h = told.height[u]
      <4>1. i \in Nat /\ i + 1 \in U /\ queue'[i].h = queue[i + 1].h
        BY <2>4
      <4>2. ASSUME NEW k \in U \cup A PROVE k <= i + 1
        <5>1. k \in Nat /\ k - 1 \in U' \cup A'
          BY <2>5
        <5>2. k - 1 <= i
          BY <3>1, <5>1
        <5> QED BY <4>1, <5>1, <5>2
      <4> QED BY <2>6, <3>1, <4>1, <4>2 DEF HeightStored, A, U
    <3> QED BY <2>7, <3>1 DEF HeightStored, A, U
  <2> QED BY <2>8, <2>9, <2>10
<1>13. ToBeAdded' \subseteq allTx'
  <2>1. \A u : JobsOf("added", u)' # {} => JobsOf("added", u) # {}
    BY <1>10 DEF MovedUp
  <2> QED BY <1>1, <2>1, QueueToBeAdded
<1>14. QueueInv'
  BY <1>11, <1>12, <1>13 DEF QueueInv
<1> QED BY <1>7, <1>14

-----------------------------------------------------------------------------
(***************************************************************************)
(* The types of the store, and a start.                                    *)
(***************************************************************************)
LEMMA RowTypes ==
  ASSUME TypeInv, StoreType, InsertRow \/ UpdateRow \/ DeleteRow
  PROVE  StoreType'
<1>1. queue # <<>> /\ UNCHANGED <<vars, phase, rows>>
  BY DEF InsertRow, UpdateRow, DeleteRow
<1>2. Tail(queue) \in Seq(Jobs) /\ NextJob \in Jobs
  BY <1>1, JobsTail
<1>3. CASE InsertRow
  <2>1. PICK t \in NextJob.txs : table' = Append(table, [tx |-> t, h |-> height[t], ts |-> timestamp[t]])
    BY <1>3 DEF InsertRow
  <2>2. t \in Tx
    BY <1>2 DEF Jobs
  <2> DEFINE row == [tx |-> t, h |-> height[t], ts |-> timestamp[t]]
  <2>3. row \in Row
    BY <2>2 DEF Row, TypeInv, HoldingsType
  <2> HIDE DEF row
  <2>4. table' = Append(table, row)
    BY <2>1 DEF row
  <2>5. table' \in Seq(Row)
    BY <2>3, <2>4, AppendProperties DEF StoreType
  <2> QED BY <1>1, <1>2, <1>3, <2>5 DEF StoreType, InsertRow
<1>4. CASE UpdateRow
  <2>1. PICK t \in NextJob.txs :
          LET left == NextJob.txs \ {t}
          IN  /\ table' = [i \in DOMAIN table |->
                    IF table[i].tx # t THEN table[i]
                    ELSE [tx |-> t, h |-> NextJob.h, ts |-> NextJob.ts]]
              /\ queue' = (IF left = {} THEN <<>> ELSE <<[NextJob EXCEPT !.txs = left]>>) \o Tail(queue)
    BY <1>4 DEF UpdateRow
  <2> DEFINE left == NextJob.txs \ {t}
             row == [tx |-> t, h |-> NextJob.h, ts |-> NextJob.ts]
             m == Len(table)
  <2>2. row \in Row
    BY <1>2, <1>4 DEF Row, Jobs, UpdateRow
  <2>3. m \in Nat /\ DOMAIN table = 1 .. m /\ \A r \in 1 .. m : table[r] \in Row
    BY RowShape, LenProperties DEF StoreType
  <2>4. table' = [i \in DOMAIN table |-> IF table[i].tx # t THEN table[i] ELSE row]
    BY <2>1
  <2> HIDE DEF row, m
  <2>5. table' \in Seq(Row)
    <3>1. table' \in [1 .. m -> Row]
      BY <2>2, <2>3, <2>4
    <3> QED BY <2>3, <3>1, SeqDef
  <2>6. queue' \in Seq(Jobs)
    <3>1. CASE left = {}
      <4>1. queue' = Tail(queue)
        BY <1>2, <2>1, <3>1, ConcatEmptySeq
      <4> QED BY <1>2, <4>1
    <3>2. CASE left # {}
      <4>1. queue' = <<[NextJob EXCEPT !.txs = left]>> \o Tail(queue) /\ NextJob.kind = "updated"
        BY <1>4, <2>1, <3>2 DEF UpdateRow
      <4>2. left \subseteq NextJob.txs /\ queue \in Seq(Jobs)
        BY DEF StoreType
      <4> HIDE DEF left
      <4> QED BY <1>1, <4>1, <4>2, JobsSplit
    <3> QED BY <3>1, <3>2
  <2> QED BY <1>1, <2>5, <2>6 DEF StoreType
<1>5. CASE DeleteRow
  <2> DEFINE at == {i \in DOMAIN table : table[i].tx \notin NextJob.txs}
  <2>1. at \subseteq DOMAIN table /\ table' = RowsAt(at) /\ queue' = Tail(queue)
    BY <1>5 DEF DeleteRow
  <2> HIDE DEF at
  <2>2. table' \in Seq(Row)
    BY <2>1, RowsAtIs DEF StoreType
  <2> QED BY <1>1, <1>2, <2>1, <2>2 DEF StoreType
<1> QED BY <1>3, <1>4, <1>5

LEMMA CalledType ==
  ASSUME TypeInv
  PROVE  Called \in Seq(Jobs)
<1>1. CASE Idle
  BY <1>1 DEF Called
<1>2. CASE ~ Idle
  <2>1. Top \in Frames /\ (Top.op \in {"added", "removed"} => Top.tx \in Tx)
    BY <1>2, TypeInvOK, FrameType, TopType DEF Idle
  <2>2. upd.txs \subseteq Tx
    BY DEF TypeInv, UpdType
  <2>3. Top.op \in {"added", "removed"} =>
          Job("added", {Top.tx}, 0, 0) \in Jobs /\ Job("deleted", {Top.tx}, 0, 0) \in Jobs
    BY <2>1 DEF Job, Jobs
  <2>4. Top.op = "updated" => Job("updated", upd.txs, Top.h, Top.ts) \in Jobs
    BY <2>1, <2>2 DEF Job, Jobs, Frames
  <2> DEFINE a == Job("added", {Top.tx}, 0, 0)
             b == Job("deleted", {Top.tx}, 0, 0)
             c == Job("updated", upd.txs, Top.h, Top.ts)
  <2>5. JobOf(Top) = CASE Top.op = "added" -> <<a>> [] Top.op = "removed" -> <<b>>
                       [] Top.op = "updated" -> <<c>> [] OTHER -> <<>>
    BY DEF JobOf
  <2> HIDE DEF a, b, c
  <2>6. \/ Top.op = "added" /\ JobOf(Top) = <<a>>
        \/ Top.op = "removed" /\ JobOf(Top) = <<b>>
        \/ Top.op = "updated" /\ JobOf(Top) = <<c>>
        \/ JobOf(Top) = <<>>
    BY <2>5
  <2>7. /\ Top.op = "added" => a \in Jobs
        /\ Top.op = "removed" => b \in Jobs
        /\ Top.op = "updated" => c \in Jobs
    BY <2>3, <2>4 DEF a, b, c
  <2>8. \A j \in Jobs : <<j>> \in Seq(Jobs)
    OBVIOUS
  <2>9. JobOf(Top) \in Seq(Jobs)
    <3>1. <<>> \in Seq(Jobs)
      OBVIOUS
    <3> QED BY <2>6, <2>7, <2>8, <3>1
  <2> QED BY <2>1, <2>9 DEF Called
<1> QED BY <1>1, <1>2

LEMMA RowOfIs ==
  ASSUME StoreType
  PROVE  \A t \in Tx : IF RowOf(t) = 0 THEN t \notin Stored
                       ELSE RowOf(t) \in DOMAIN table /\ table[RowOf(t)].tx = t
<1> SUFFICES ASSUME NEW t \in Tx
             PROVE  IF RowOf(t) = 0 THEN t \notin Stored
                    ELSE RowOf(t) \in DOMAIN table /\ table[RowOf(t)].tx = t
  OBVIOUS
<1> DEFINE at == {i \in 1 .. Len(table) : table[i].tx = t}
<1>1. RowOf(t) = IF at # {} THEN Min(at) ELSE 0
  BY DEF RowOf, SelectInSeq
<1>2. Len(table) \in Nat /\ DOMAIN table = 1 .. Len(table)
  BY LenProperties DEF StoreType
<1>3. CASE at = {}
  BY <1>1, <1>2, <1>3 DEF Stored
<1>4. CASE at # {}
  <2>1. at \subseteq Nat
    OBVIOUS
  <2>2. Min(at) \in at
    <3> HIDE DEF at
    <3> QED BY <1>4, <2>1, LeastNat
  <2> QED BY <1>1, <1>2, <1>4, <2>2
<1> QED BY <1>3, <1>4

LEMMA EmptyType ==
  ASSUME EmptyBooks
  PROVE  BooksType' /\ ScanType' /\ UpdType' /\ BlockType' /\ Registered' = {} /\ Distinct(transactions')
<1>1. BooksType'
  BY DEF EmptyBooks, BooksType, UsedBounded
<1>2. ScanType' /\ UpdType' /\ BlockType'
  BY DEF EmptyBooks, ScanType, NoScan, UpdType, NoUpd, BlockType, HeightsOrNone
<1>3. Registered' = {} /\ Distinct(transactions')
  BY DEF EmptyBooks, Registered, Distinct
<1> QED BY <1>1, <1>2, <1>3

LEMMA StartRestart ==
  ASSUME TypeInv, StoreType, Restart
  PROVE  TypeInv' /\ StoreType' /\ (OneRow => OneRow' /\ StartInv') /\ phase' = "loading"
<1> DEFINE found(t) == RowOf(t) # 0
<1>1. /\ height' = [t \in Tx |-> IF ~ found(t) THEN TX_UNCONFIRMED ELSE table[RowOf(t)].h]
      /\ timestamp' = [t \in Tx |-> IF ~ found(t) THEN 0 ELSE table[RowOf(t)].ts]
      /\ told' = [balance |-> 0, alert |-> "none",
                  height |-> [t \in Tx |-> IF ~ found(t) THEN -1 ELSE table[RowOf(t)].h]]
      /\ EmptyBooks /\ chainLen' = [c \in Chains |-> 0]
      /\ todo' = <<>> /\ queue' = <<>> /\ phase' = "loading" /\ rows' = table
      /\ UNCHANGED <<table, now>>
  BY DEF Restart
<1>2. \A t \in Tx : IF ~ found(t) THEN t \notin Stored
                    ELSE RowOf(t) \in DOMAIN table /\ table[RowOf(t)].tx = t
  BY RowOfIs
<1> HIDE DEF found
<1>3. \A t \in Tx : found(t) => /\ table[RowOf(t)].h \in HeightsOrUnconfirmed
                                /\ table[RowOf(t)].ts \in Stamps \cup {0}
  BY <1>2, RowShape DEF Row
<1>4. HoldingsType'
  BY <1>1, <1>3 DEF EmptyBooks, HoldingsType, HeightsOrUnconfirmed
<1>5. ToldType'
  BY <1>1, <1>3 DEF ToldType, HeightsOrNone, HeightsOrUnconfirmed
<1>6. ChainType' /\ TodoType' /\ NowType'
  BY <1>1 DEF ChainType, TodoType, NowType, TypeInv
<1>7. TypeInv'
  BY <1>1, <1>4, <1>5, <1>6, EmptyType DEF TypeInv
<1>8. StoreType'
  BY <1>1 DEF StoreType
<1>9. ASSUME OneRow PROVE OneRow' /\ StartInv'
  <2>1. OneRow' /\ Stored' = Stored
    BY <1>1, <1>9 DEF OneRow, Stored
  <2>2. queue' = <<>> /\ upd' = NoUpd /\ allTx' = Registered' /\ Distinct(transactions') /\ Registered' = {}
    BY <1>1, EmptyType DEF EmptyBooks
  <2>3. \A t \in Tx : found(t) <=> t \in Stored
    BY <1>2 DEF Stored
  <2>4. \A t \in Tx : told'.height[t] = IF t \in Stored THEN height'[t] ELSE -1
    BY <1>1, <2>3
  <2>5. ASSUME NEW r \in DOMAIN table PROVE table[r].h = height'[table[r].tx]
    <3>1. table[r].tx \in Tx /\ table[r].tx \in Stored
      BY RowShape DEF Stored
    <3>2. RowOf(table[r].tx) = r
      BY <1>2, <1>9, <2>3, <3>1 DEF OneRow
    <3> QED BY <1>1, <2>3, <3>1, <3>2
  <2>6. {rows'[i].tx : i \in DOMAIN rows'} = Stored
    BY <1>1 DEF Stored
  <2> QED BY <1>1, <2>1, <2>2, <2>4, <2>5, <2>6 DEF StartInv
<1> QED BY <1>1, <1>7, <1>8, <1>9

LEMMA StartTypes ==
  ASSUME TypeInv, StoreType, LoadTx \/ Loaded \/ Recounts \/ Accepted \/ Refused
  PROVE  TypeInv' /\ StoreType'
<1>1. CASE LoadTx
  <2>1. /\ rows # <<>> /\ rows' = Tail(rows)
        /\ UNCHANGED <<height, timestamp, blockHeight, chainLen, balance, totalSent,
                       totalReceived, utxos, balanceHist, spentOutputs, invalidTx,
                       pendingTx, scan, upd, todo, told, now, table, queue, phase>>
    BY <1>1 DEF LoadTx
  <2>2. Head(rows) \in Row /\ Tail(rows) \in Seq(Row)
    BY <2>1, HeadTailProperties DEF StoreType
  <2>3. StoreType'
    BY <2>1, <2>2 DEF StoreType
  <2>4. PICK t \in Tx : \/ UNCHANGED <<allTx, transactions, usedAddrs>>
                        \/ /\ allTx' = allTx \cup {t}
                           /\ transactions' = InsertTx(height, transactions, t)
                           /\ usedAddrs' = usedAddrs \cup {a \in AddrsOf(t) : a.chain # "none"}
    BY <1>1, <2>2 DEF LoadTx, Row
  <2>5. InsertTx(height, transactions, t) \in Seq(Tx)
    BY InsertTxType DEF TypeInv, HoldingsType
  <2>6. HoldingsType'
    BY <2>1, <2>4, <2>5 DEF TypeInv, HoldingsType
  <2>7. BooksType'
    <3>1. usedAddrs' \subseteq Addresses
      BY <2>4, BodyType DEF TypeInv, BooksType
    <3>2. UsedBounded'
      <4>1. PICK m \in Nat : \A a \in AddrsOf(t) : a.idx <= m
        BY AddrsBounded
      <4>2. PICK n \in Nat : \A a \in usedAddrs : a.idx <= n
        BY DEF TypeInv, BooksType, UsedBounded
      <4>3. ASSUME NEW a \in usedAddrs' PROVE a.idx <= m + n
        <5>1. a.idx <= m \/ a.idx <= n
          BY <2>4, <4>1, <4>2, <4>3
        <5>2. a.idx \in Nat
          BY <3>1, <4>3 DEF Addresses
        <5> QED BY <5>1, <5>2
      <4> QED BY <4>3 DEF UsedBounded
    <3> QED BY <2>1, <3>1, <3>2 DEF TypeInv, BooksType
  <2> QED BY <2>1, <2>3, <2>6, <2>7, TypeUnchanged DEF TypeInv
<1>2. CASE Loaded
  <2>1. \A c \in Chains : GrownLen(c, GAP_LIMIT[c]) \in Nat
    BY Grown, LimitAssumption DEF TypeInv, ChainType, BooksType
  <2>2. ChainType' /\ TodoType'
    <3>1. <<Recount>> \in Seq(Frames)
      BY TypeInvOK, FrameType
    <3> QED BY <1>2, <2>1, <3>1 DEF Loaded, ChainType, TodoType
  <2> QED BY <1>2, <2>2, TypeUnchanged DEF Loaded, TypeInv, StoreType
<1>3. CASE Recounts
  BY <1>3, TypeStep DEF Recounts, Next, StoreType, store
<1>4. CASE Accepted
  BY <1>4, TypeStep DEF Accepted, StoreType
<1>5. CASE Refused
  <2>1. ChainType' /\ ToldType' /\ TodoType' /\ NowType'
    BY <1>5, LimitAssumption DEF Refused, ChainType, ToldType, TodoType, NowType, TypeInv
  <2>2. HoldingsType'
    BY <1>5 DEF Refused, EmptyBooks, HoldingsType, HeightsOrUnconfirmed
  <2>3. BooksType' /\ ScanType' /\ UpdType' /\ BlockType'
    BY <1>5, EmptyType DEF Refused
  <2>4. StoreType'
    BY <1>5 DEF Refused, StoreType
  <2> QED BY <2>1, <2>2, <2>3, <2>4 DEF TypeInv
<1> QED BY <1>1, <1>2, <1>3, <1>4, <1>5

LEMMA TypesStep ==
  ASSUME TypeInv, StoreType, [StoreNext]_storeVars
  PROVE  TypeInv' /\ StoreType'
<1>1. CASE UNCHANGED storeVars
  BY <1>1, TypeStep DEF storeVars, store, StoreType
<1>2. CASE WalletStep
  <2>1. TypeInv' /\ UNCHANGED <<table, phase, rows>> /\ queue' = queue \o Called
    BY <1>2, TypeStep DEF WalletStep
  <2>2. queue' \in Seq(Jobs)
    <3>1. Called \in Seq(Jobs) /\ queue \in Seq(Jobs)
      BY CalledType DEF StoreType
    <3> HIDE DEF Called
    <3> QED BY <2>1, <3>1, ConcatProperties
  <2> QED BY <2>1, <2>2 DEF StoreType
<1>3. CASE InsertRow \/ UpdateRow \/ DeleteRow
  <2>1. UNCHANGED vars
    BY <1>3 DEF InsertRow, UpdateRow, DeleteRow
  <2> QED BY <1>3, <2>1, RowTypes, TypeStep
<1>4. CASE Restart
  BY <1>4, StartRestart
<1> QED BY <1>1, <1>2, <1>3, <1>4, StartTypes DEF StoreNext

\* A row taken over is listed; the rest will be.
LEMMA StartLoad ==
  ASSUME TypeInv, StoreType, OneRow, StartInv, LoadTx
  PROVE  OneRow' /\ StartInv' /\ phase' = "loading"
<1>1. /\ phase = "loading" /\ rows # <<>> /\ rows' = Tail(rows)
      /\ UNCHANGED <<height, upd, todo, told, table, queue, phase>>
  BY DEF LoadTx
<1> DEFINE t == Head(rows).tx
           left == {rows[i].tx : i \in DOMAIN rows}
<1>2. t \in Tx /\ left = {t} \cup {Tail(rows)[i].tx : i \in DOMAIN Tail(rows)}
  <2>1. rows \in Seq(Row) /\ rows # <<>>
    BY <1>1 DEF StoreType
  <2>2. Elems(rows) = {Head(rows)} \cup Elems(Tail(rows)) /\ Head(rows) \in Row
    BY <2>1, ElemsHead
  <2>3. left = {r.tx : r \in Elems(rows)}
    BY DEF Elems
  <2>4. {Tail(rows)[i].tx : i \in DOMAIN Tail(rows)} = {r.tx : r \in Elems(Tail(rows))}
    BY DEF Elems
  <2> HIDE DEF left
  <2> QED BY <2>2, <2>3, <2>4 DEF Row
<1>3. /\ allTx' = Registered' /\ Distinct(transactions') /\ Registered' = Registered \cup {t}
  <2>1. CASE t \in allTx
    <3>1. UNCHANGED <<allTx, transactions>> /\ t \in Registered
      BY <2>1 DEF LoadTx, StartInv
    <3> QED BY <3>1 DEF StartInv, Registered
  <2>2. CASE t \notin allTx
    <3>1. allTx' = allTx \cup {t} /\ transactions' = InsertTx(height, transactions, t)
      BY <2>2 DEF LoadTx
    <3>2. transactions \in Seq(Tx) /\ t \notin Elems(transactions) /\ Distinct(transactions)
      BY <2>2, RegisteredElems DEF TypeInv, HoldingsType, StartInv
    <3> HIDE DEF t
    <3>3. Elems(transactions') = Elems(transactions) \cup {t} /\ Distinct(transactions')
      BY <1>2, <3>1, <3>2, InsertTxElems
    <3>4. Registered = Elems(transactions) /\ Registered' = Elems(transactions')
      BY DEF Registered, Elems
    <3> QED BY <3>1, <3>3, <3>4 DEF StartInv
  <2> QED BY <2>1, <2>2
<1> DEFINE more == {Tail(rows)[i].tx : i \in DOMAIN Tail(rows)}
<1>4. Registered' \cup {rows'[i].tx : i \in DOMAIN rows'} = Stored
  <2>1. Registered \cup left = Stored
    BY <1>1 DEF StartInv
  <2>2. {rows'[i].tx : i \in DOMAIN rows'} = more
    BY <1>1
  <2>3. left = {t} \cup more
    BY <1>2
  <2> HIDE DEF left, more, t
  <2> QED BY <1>3, <2>1, <2>2, <2>3
<1>5. OneRow' /\ Stored' = Stored
  BY <1>1 DEF OneRow, Stored
<1> HIDE DEF t, left, more
<1> QED BY <1>1, <1>3, <1>4, <1>5 DEF StartInv

\* Nothing but a recount is left of a start that has taken over the rows.
LEMMA StartOnly ==
  ASSUME TypeInv, Within({"recount", "count"}), Work
  PROVE  /\ StartCount \/ Count \/ EndCount
         /\ UNCHANGED <<allTx, transactions, height, told, upd>>
         /\ Within({"recount", "count"})'
<1>1. todo # <<>>
  BY DEF Work, StartCount, Count, CountInvalid, CountPending, CountOutputs, Counting, EndCount,
         UnusedAddrs, RemoveUnknown, RemoveDependants, RemoveTransaction, SkipTx, SetWalletTx,
         SetOtherTx, EndSet, TellAdded, TellRemoved, TellUpdated, Running
<1>2. Top \in Stack /\ Stack = {Top} \cup Elems(Tail(todo))
  BY <1>1, StackShape
<1>3. Top.op \in {"recount", "count"}
  BY <1>2 DEF Within
<1>4. StartCount \/ Count \/ EndCount
  BY <1>3 DEF Work, UnusedAddrs, RemoveUnknown, RemoveDependants, RemoveTransaction, SkipTx,
              SetWalletTx, SetOtherTx, EndSet, TellAdded, TellRemoved, TellUpdated, Running
<1>5. UNCHANGED <<allTx, transactions, height, told, upd>>
  BY <1>4 DEF StartCount, Count, CountInvalid, CountPending, CountOutputs, EndCount, holdings
<1>6. CASE Count
  <2>1. UNCHANGED todo
    BY <1>6 DEF Count, CountInvalid, CountPending, CountOutputs
  <2>2. Stack' = Stack
    BY <2>1 DEF Stack, Elems
  <2> QED BY <1>4, <1>5, <2>2 DEF Within
<1>7. CASE StartCount
  <2> DEFINE next == Frame("count", "unknown", 0, 0)
             fs == <<next>>
  <2>1. fs \in Seq(Frames) /\ Continue(fs) /\ next.op = "count"
    BY <1>7, TypeInvOK, FrameType DEF StartCount, Frame
  <2>2. Elems(fs) = {next}
    BY ElemsFew
  <2> HIDE DEF fs, next
  <2>3. Stack' = {next} \cup Elems(Tail(todo))
    BY <1>1, <2>1, <2>2, StackContinue
  <2>4. \A g \in Stack' : g.op \in {"recount", "count"}
    BY <1>2, <2>1, <2>3 DEF Within
  <2> QED BY <1>4, <1>5, <2>4 DEF Within
<1>8. CASE EndCount
  <2> DEFINE fs == <<>>
  <2>1. fs \in Seq(Frames) /\ Continue(fs)
    BY <1>8 DEF EndCount
  <2>2. Elems(fs) = {}
    BY ElemsFew
  <2> HIDE DEF fs
  <2>3. Stack' = Elems(Tail(todo))
    BY <1>1, <2>1, <2>2, StackContinue
  <2>4. \A g \in Stack' : g.op \in {"recount", "count"}
    BY <1>2, <2>3 DEF Within
  <2> QED BY <1>4, <1>5, <2>4 DEF Within
<1> QED BY <1>4, <1>5, <1>6, <1>7, <1>8

LEMMA StartCheck ==
  ASSUME TypeInv, StoreType, OneRow, StartInv, phase # "up", Loaded \/ Recounts
  PROVE  OneRow' /\ StartInv' /\ phase' = "checking"
<1>1. CASE Loaded
  <2>1. /\ phase = "loading" /\ rows = <<>> /\ phase' = "checking" /\ todo' = <<Recount>>
        /\ UNCHANGED <<allTx, transactions, height, upd, told, table, queue>>
    BY <1>1 DEF Loaded, holdings
  <2>2. OneRow' /\ Stored' = Stored /\ Registered' = Registered
    BY <2>1 DEF OneRow, Stored, Registered
  <2>3. Registered = Stored
    <3>1. Registered \cup {rows[i].tx : i \in DOMAIN rows} = Stored
      BY <2>1 DEF StartInv
    <3>2. DOMAIN rows = {}
      BY <2>1
    <3> QED BY <3>1, <3>2
  <2>4. Within({"recount", "count"})'
    <3>1. Elems(<<Recount>>) = {Recount} /\ Recount.op = "recount"
      BY ElemsFew DEF Recount, Frame
    <3>2. Stack' = {Recount}
      BY <2>1, <3>1 DEF Stack
    <3> HIDE DEF Recount
    <3> QED BY <3>1, <3>2 DEF Within
  <2> QED BY <2>1, <2>2, <2>3, <2>4 DEF StartInv
<1>2. CASE Recounts
  <2>1. phase = "checking" /\ UNCHANGED store /\ Work
    BY <1>2 DEF Recounts
  <2>2. Within({"recount", "count"}) /\ Registered = Stored
    BY <2>1 DEF StartInv
  <2>3. UNCHANGED <<allTx, transactions, height, told, upd>> /\ Within({"recount", "count"})'
    BY <2>1, <2>2, StartOnly
  <2>4. OneRow' /\ Stored' = Stored /\ Registered' = Registered
    BY <2>1, <2>3 DEF OneRow, Stored, Registered, store
  <2> QED BY <2>1, <2>2, <2>3, <2>4 DEF StartInv, store
<1> QED BY <1>1, <1>2

\* No operation, no jobs, and the listener knows what is listed and has a row.
AtRest ==
  /\ todo = <<>> /\ queue = <<>> /\ upd.txs = {}
  /\ Distinct(transactions) /\ Registered \subseteq allTx
  /\ \A t \in Tx : (Knows(t) <=> t \in Registered) /\ (Knows(t) <=> Rows(t) # {})
  /\ \A t \in Registered : told.height[t] = height[t]
  /\ \A t \in Tx : \A r \in Rows(t) : table[r].h = told.height[t]

LEMMA RegisteredIn ==
  ASSUME TypeInv
  PROVE  Registered \subseteq Tx
BY ElementOfSeq, LenProperties DEF TypeInv, HoldingsType, Registered

LEMMA Rested == TypeInv /\ AtRest => WalletInv /\ QueueInv
<1> SUFFICES ASSUME TypeInv, AtRest PROVE WalletInv /\ QueueInv
  OBVIOUS
<1> USE DEF AtRest
<1>1. Stack = {}
  BY ElemsFew DEF Stack
<1>2. OneOperation
  <2>1. AddedLast /\ SetsEnd
    BY <1>1 DEF AddedLast, SetsEnd
  <2>2. Within(RegistrationOps)
    BY <1>1 DEF Within
  <2> QED BY <2>1, <2>2 DEF OneOperation
<1>3. Listed /\ ToldInv /\ UpdInv
  <2>1. Registered \subseteq Tx
    BY RegisteredIn
  <2>2. Listed
    BY DEF Listed
  <2>3. ToldInv
    BY <1>1, <2>1 DEF ToldInv
  <2>4. UpdInv
    BY <1>1 DEF UpdInv
  <2> QED BY <2>2, <2>3, <2>4
<1>4. \A kind, t : JobsOf(kind, t) = {}
  BY DEF JobsOf
<1>5. \A t : t \notin ToBeAdded
  BY <1>4, ToBeAddedIs
<1>6. \A t \in Tx : InsertedOnce(t) /\ KnownStored(t) /\ HeightStored(t)
  <2> SUFFICES ASSUME NEW t \in Tx PROVE InsertedOnce(t) /\ KnownStored(t) /\ HeightStored(t)
    OBVIOUS
  <2>1. JobsOf("added", t) = {} /\ JobsOf("deleted", t) = {} /\ JobsOf("updated", t) = {}
    BY <1>4
  <2> QED BY <2>1 DEF InsertedOnce, KnownStored, HeightStored
<1> QED BY <1>2, <1>3, <1>5, <1>6 DEF WalletInv, QueueInv

LEMMA RowsStored == \A t : Rows(t) # {} <=> t \in Stored
BY DEF Rows, Stored

LEMMA StartUp ==
  ASSUME TypeInv, StoreType, OneRow, StartInv, Accepted \/ Refused
  PROVE  OneRow' /\ (WalletInv /\ QueueInv)' /\ phase' = "up"
<1>1. CASE Accepted
  <2>1. phase = "checking" /\ phase' = "up" /\ todo = <<>> /\ UNCHANGED <<vars, table, queue>>
    BY <1>1 DEF Accepted, Idle
  <2>2. Registered = Stored /\ queue = <<>> /\ upd.txs = {} /\ allTx = Registered
        /\ Distinct(transactions)
    BY <2>1 DEF StartInv, NoUpd
  <2>3. \A t \in Tx : told.height[t] = IF t \in Stored THEN height[t] ELSE -1
    BY DEF StartInv
  <2>4. \A t \in Tx : height[t] \in Nat
    BY HeightNat DEF TypeInv, HoldingsType
  <2>5. \A t \in Tx : Knows(t) <=> t \in Stored
    BY <2>3, <2>4 DEF Knows
  <2>6. Registered \subseteq Tx
    BY RegisteredIn
  <2>7. \A t \in Tx : \A r \in Rows(t) : table[r].h = told.height[t]
    <3> SUFFICES ASSUME NEW t \in Tx, NEW r \in Rows(t) PROVE table[r].h = told.height[t]
      OBVIOUS
    <3>1. r \in DOMAIN table /\ table[r].tx = t /\ t \in Stored
      BY DEF Rows, Stored
    <3>2. table[r].h = height[table[r].tx]
      BY <3>1 DEF StartInv
    <3> QED BY <2>3, <3>1, <3>2
  <2>8. \A t \in Registered : told.height[t] = height[t]
    BY <2>2, <2>3, <2>6
  <2>9. \A t \in Tx : (Knows(t) <=> t \in Registered) /\ (Knows(t) <=> Rows(t) # {})
    BY <2>2, <2>5, RowsStored
  <2>10. WalletInv /\ QueueInv
    BY <2>1, <2>2, <2>7, <2>8, <2>9, Rested DEF AtRest
  <2>11. WalletInv'
    <3>1. UNCHANGED <<allTx, transactions, height, told, upd, todo>>
      BY <2>1 DEF vars, holdings
    <3> QED BY <2>10, <3>1, QuietRest
  <2>12. QueueInv'
    <3>1. UNCHANGED <<table, queue, told>> /\ UNCHANGED <<height, upd>> /\ allTx' = allTx
      BY <2>1 DEF vars, holdings
    <3>2. HeightsKept
      BY <3>1, KeptSame
    <3> QED BY <2>10, <3>1, <3>2, QueueUntold
  <2>13. OneRow'
    BY <2>1 DEF OneRow
  <2> QED BY <2>1, <2>11, <2>12, <2>13
<1>2. CASE Refused
  <2>1. /\ phase' = "up" /\ todo' = <<>> /\ table' = <<>> /\ UNCHANGED queue
        /\ told'.height = [t \in Tx |-> -1]
    BY <1>2 DEF Refused
  <2>2. queue' = <<>>
    BY <2>1 DEF StartInv
  <2>3. Registered' = {} /\ Distinct(transactions') /\ upd'.txs = {}
    BY <1>2, EmptyType DEF Refused, EmptyBooks, NoUpd
  <2>4. OneRow' /\ \A t : Rows(t)' = {}
    BY <2>1 DEF OneRow, Rows
  <2>5. \A t \in Tx : ~ Knows(t)'
    BY <2>1 DEF Knows
  <2>6. (WalletInv /\ QueueInv)'
    <3>1. \A t \in Tx : (Knows(t)' <=> t \in Registered') /\ (Knows(t)' <=> Rows(t)' # {})
      BY <2>3, <2>4, <2>5
    <3>2. \A t \in Tx : \A r \in Rows(t)' : table'[r].h = told'.height[t]
      BY <2>4
    <3>3. AtRest'
      BY <2>1, <2>2, <2>3, <3>1, <3>2 DEF AtRest
    <3>4. (TypeInv /\ AtRest => WalletInv /\ QueueInv)'
      BY Rested, PTL
    <3> QED BY <3>3, <3>4, StartTypes
  <2> QED BY <2>1, <2>4, <2>6
<1> QED BY <1>1, <1>2

-----------------------------------------------------------------------------
(***************************************************************************)
(* Table, wallet and listener.                                             *)
(***************************************************************************)
LEMMA StoreInvInit == StoreInit => TypeInv /\ StoreType /\ StoreInv
<1> SUFFICES ASSUME StoreInit PROVE TypeInv /\ StoreType /\ StoreInv
  OBVIOUS
<1>1. Init /\ table = <<>> /\ queue = <<>> /\ phase = "up" /\ rows = <<>>
  BY DEF StoreInit
<1>2. TypeInv /\ StoreType
  BY <1>1, TypeInit DEF StoreType
<1>3. OneRow
  BY <1>1 DEF OneRow
<1>4. AtRest
  <2>1. todo = <<>> /\ upd.txs = {} /\ Registered = {} /\ Distinct(transactions)
    BY <1>1 DEF Init, NoUpd, Registered, Distinct
  <2>2. \A t \in Tx : ~ Knows(t)
    BY <1>1 DEF Init, Knows
  <2>3. \A t : Rows(t) = {}
    BY <1>1 DEF Rows
  <2> QED BY <1>1, <2>1, <2>2, <2>3 DEF AtRest
<1>5. WalletInv /\ QueueInv
  BY <1>2, <1>4, Rested
<1> QED BY <1>1, <1>2, <1>3, <1>5 DEF StoreInv

LEMMA StoreWallet ==
  ASSUME TypeInv, StoreType, StoreInv, OwnListed, WalletStep
  PROVE  StoreInv'
<1>1. /\ phase = "up" /\ Next /\ queue' = queue \o Called /\ UNCHANGED <<table, phase>>
      /\ (allTx \ allTx') \cap ToBeAdded = {}
      /\ WalletInv /\ QueueInv /\ OneRow
  BY DEF WalletStep, StoreInv
<1>2. CASE Tells
  BY <1>1, <1>2, QueueAdded, QueueRemoved, QueueUpdated, WalletTellAdded, WalletTellRemoved,
     WalletTellUpdated DEF Tells, StoreInv, OneRow
<1>3. CASE ~ Tells
  <2>1. WalletInv' /\ UNCHANGED told /\ HeightsKept
    BY <1>1, <1>3, WalletUntold
  <2>2. UNCHANGED queue
    <3>1. Called = <<>> /\ queue \in Seq(Jobs)
      BY <1>1, <1>3, CalledNone DEF StoreType
    <3> QED BY <1>1, <3>1, ConcatEmptySeq
  <2>3. QueueInv'
    BY <1>1, <2>1, <2>2, QueueUntold
  <2> QED BY <1>1, <2>1, <2>3 DEF StoreInv, OneRow
<1> QED BY <1>2, <1>3

LEMMA StoreRows ==
  ASSUME TypeInv, StoreType, StoreInv, InsertRow \/ UpdateRow \/ DeleteRow
  PROVE  StoreInv'
<1>1. queue # <<>> /\ UNCHANGED <<vars, phase>>
  BY DEF InsertRow, UpdateRow, DeleteRow
<1>2. phase = "up" /\ WalletInv /\ QueueInv /\ OneRow
  BY <1>1 DEF StoreInv, StartInv
<1>3. OneRow' /\ QueueInv'
  BY <1>2, StoreInsertRow, StoreUpdateRow, StoreDeleteRow
<1>4. WalletInv'
  BY <1>1, <1>2, QuietRest DEF vars, holdings
<1> QED BY <1>1, <1>2, <1>3, <1>4 DEF StoreInv

LEMMA StoreStep ==
  ASSUME TypeInv, StoreType, StoreInv, OwnListed, [StoreNext]_storeVars
  PROVE  StoreInv'
<1>1. CASE UNCHANGED storeVars
  <2>1. UNCHANGED <<allTx, transactions, height, told, upd, todo, table, queue, phase, rows>>
    BY <1>1 DEF storeVars, store, vars, holdings
  <2>2. OneRow' <=> OneRow
    BY <2>1 DEF OneRow
  <2>3. WalletInv => WalletInv'
    BY <2>1, QuietRest
  <2>4. QueueInv => QueueInv'
    <3>1. UNCHANGED <<height, upd>> /\ UNCHANGED <<table, queue, told>> /\ allTx' = allTx
      BY <2>1
    <3>2. HeightsKept
      BY <3>1, KeptSame
    <3> QED BY <3>1, <3>2, QueueUntold
  <2>5. StartInv => StartInv'
    <3>1. Registered' = Registered /\ Stored' = Stored /\ Stack' = Stack
      BY <2>1 DEF Registered, Stored, Stack, Elems
    <3>2. Distinct(transactions') <=> Distinct(transactions)
      BY <2>1
    <3>3. Within({"recount", "count"}) => Within({"recount", "count"})'
      BY <3>1 DEF Within
    <3> QED BY <2>1, <3>1, <3>2, <3>3 DEF StartInv
  <2> QED BY <2>1, <2>2, <2>3, <2>4, <2>5 DEF StoreInv
<1>2. CASE WalletStep
  BY <1>2, StoreWallet
<1>3. CASE InsertRow \/ UpdateRow \/ DeleteRow
  BY <1>3, StoreRows
<1>4. CASE Restart
  BY <1>4, StartRestart DEF StoreInv
<1>5. CASE LoadTx
  <2>1. phase = "loading" /\ StartInv /\ OneRow
    BY <1>5 DEF LoadTx, StoreInv
  <2> QED BY <1>5, <2>1, StartLoad DEF StoreInv
<1>6. CASE Loaded \/ Recounts
  <2>1. phase # "up" /\ StartInv /\ OneRow
    BY <1>6 DEF Loaded, Recounts, StoreInv
  <2> QED BY <1>6, <2>1, StartCheck DEF StoreInv
<1>7. CASE Accepted \/ Refused
  <2>1. StartInv /\ OneRow
    BY <1>7 DEF Accepted, Refused, StoreInv
  <2> QED BY <1>7, <2>1, StartUp DEF StoreInv
<1> QED BY <1>1, <1>2, <1>3, <1>4, <1>5, <1>6, <1>7 DEF StoreNext

LEMMA StoreInvAgrees == TypeInv /\ StoreType /\ StoreInv => StoreAgrees
<1> SUFFICES ASSUME TypeInv, StoreType, StoreInv, phase = "up", Idle, queue = <<>>
             PROVE  /\ IsInjective([i \in DOMAIN table |-> table[i].tx])
                    /\ {<<r.tx, r.h>> : r \in ToSet(table)} = {<<t, height[t]>> : t \in Registered}
                    /\ told.height = [t \in Tx |-> IF t \in Registered THEN height[t] ELSE -1]
  BY DEF StoreAgrees
<1>1. OneRow /\ WalletInv /\ QueueInv
  BY DEF StoreInv
<1>2. /\ upd.txs = {}
      /\ \A t \in Tx : Knows(t) <=> t \in Registered
      /\ \A t \in Registered : told.height[t] = height[t]
  BY <1>1, IdleKnows
<1>3. \A kind, t : JobsOf(kind, t) = {}
  BY DEF JobsOf
<1>4. Registered \subseteq Tx
  BY RegisteredIn
<1>5. \A t \in Tx : Rows(t) # {} <=> t \in Registered
  <2> SUFFICES ASSUME NEW t \in Tx PROVE Rows(t) # {} <=> t \in Registered
    OBVIOUS
  <2>1. JobsOf("added", t) = {} /\ JobsOf("deleted", t) = {} /\ KnownStored(t)
    BY <1>1, <1>3 DEF QueueInv
  <2> QED BY <1>2, <2>1 DEF KnownStored
<1>6. \A r \in DOMAIN table : /\ table[r].tx \in Registered
                              /\ table[r].h = height[table[r].tx]
  <2> SUFFICES ASSUME NEW r \in DOMAIN table
               PROVE  table[r].tx \in Registered /\ table[r].h = height[table[r].tx]
    OBVIOUS
  <2> DEFINE t == table[r].tx
  <2>1. t \in Tx /\ r \in Rows(t)
    BY RowShape DEF Rows
  <2>2. t \in Registered /\ Knows(t)
    BY <1>2, <1>5, <2>1
  <2>3. HeightStored(t) /\ JobsOf("added", t) = {} /\ JobsOf("updated", t) = {}
    BY <1>1, <1>3, <2>1 DEF QueueInv
  <2>4. table[r].h = told.height[t]
    BY <1>2, <2>1, <2>2, <2>3 DEF HeightStored
  <2> QED BY <1>2, <2>2, <2>4
<1>7. IsInjective([i \in DOMAIN table |-> table[i].tx])
  BY <1>1 DEF OneRow, IsInjective
<1>8. {<<r.tx, r.h>> : r \in ToSet(table)} = {<<t, height[t]>> : t \in Registered}
  <2>1. ASSUME NEW r \in ToSet(table)
        PROVE  <<r.tx, r.h>> \in {<<t, height[t]>> : t \in Registered}
    <3>1. PICK i \in DOMAIN table : r = table[i]
      BY DEF ToSet
    <3> QED BY <1>6, <3>1
  <2>2. ASSUME NEW t \in Registered
        PROVE  <<t, height[t]>> \in {<<r.tx, r.h>> : r \in ToSet(table)}
    <3>1. PICK i \in DOMAIN table : table[i].tx = t
      BY <1>4, <1>5 DEF Rows
    <3>2. table[i] \in ToSet(table) /\ table[i].h = height[t]
      BY <1>6, <3>1 DEF ToSet
    <3> QED BY <3>1, <3>2
  <2> QED BY <2>1, <2>2
<1>9. told.height = [t \in Tx |-> IF t \in Registered THEN height[t] ELSE -1]
  <2>1. told.height \in [Tx -> HeightsOrNone \cup {-1}]
    BY DEF TypeInv, ToldType
  <2>2. \A t \in Tx : told.height[t] = IF t \in Registered THEN height[t] ELSE -1
    BY <1>2 DEF Knows
  <2> QED BY <2>1, <2>2
<1> QED BY <1>7, <1>8, <1>9

\* When no operation, callback or job is under way, the table holds what the
\* wallet lists, once each and at its height, and the listener was told of just
\* that, through any restarts: as long as what is listed is the wallet's own.
\* (loadTransactions takes over what txAdded, txUpdated and txDeleted wrote.)
THEOREM StoreAgreesHolds == StoreSpec /\ []OwnListed => []StoreAgrees
<1> DEFINE IInv == TypeInv /\ StoreType /\ StoreInv
<1>1. StoreInit => IInv
  BY StoreInvInit
<1>2. IInv /\ OwnListed /\ [StoreNext]_storeVars => IInv'
  BY TypesStep, StoreStep
<1>3. IInv => StoreAgrees
  BY StoreInvAgrees
<1> HIDE DEF IInv
<1> QED BY <1>1, <1>2, <1>3, PTL DEF StoreSpec

-----------------------------------------------------------------------------
(***************************************************************************)
(* What a restart leaves of the wallet's books and address chains.  The    *)
(* wallet is not there for anybody until it has taken over the rows; from  *)
(* then on a recount is due, or the books agree.                           *)
(***************************************************************************)
RestartInv ==
  /\ TypeInv /\ StoreType
  /\ phase = "loading" => todo = <<>> /\ AmountsType
  /\ phase # "loading" => BooksInv /\ GapInv

LEMMA EmptyAmounts ==
  ASSUME EmptyBooks
  PROVE  AmountsType'
<1>1. (Priced({}))'
  BY FS_EmptySet DEF Priced
<1>2. utxos' = {} /\ balanceHist' = <<>> /\ scan' = [i |-> 1, bal |-> 0, prev |-> 0]
      /\ balance' = 0 /\ totalReceived' = 0 /\ totalSent' = 0
  BY DEF EmptyBooks, NoScan
<1> QED BY <1>1, <1>2 DEF AmountsType, Priced

LEMMA RestartLoaded ==
  ASSUME RestartInv, TypeInv', Loaded
  PROVE  BooksInv' /\ GapInv' /\ phase' = "checking"
<1>1. /\ phase = "loading" /\ phase' = "checking" /\ todo' = <<Recount>> /\ Recount.op = "recount"
      /\ chainLen' = [c \in Chains |-> GrownLen(c, GAP_LIMIT[c])]
      /\ UNCHANGED <<balance, totalSent, totalReceived, utxos, balanceHist, scan>>
  BY DEF Loaded, Recount, Frame, books
<1> HIDE DEF Recount
<1>2. DOMAIN todo' = {1} /\ todo'[1] = Recount /\ Top' = Recount /\ todo' # <<>>
  BY <1>1 DEF Top
<1>3. Running("recount")' /\ ~ Running("count")'
  BY <1>1, <1>2 DEF Running
<1>4. CountsFirst' /\ HistInv' /\ TotalsInv'
  BY <1>2, <1>3 DEF CountsFirst, HistInv, TotalsInv, Recounting
<1>5. AmountsType'
  BY <1>1 DEF RestartInv, AmountsType, Priced, Worth, OutputOf
<1>6. \A c \in Chains : chainLen'[c] >= GAP_LIMIT[c]
  <2>1. \A c \in Chains : GrownLen(c, GAP_LIMIT[c]) >= GAP_LIMIT[c]
    BY Grown, LimitAssumption DEF RestartInv, TypeInv, ChainType, BooksType
  <2> QED BY <1>1, <2>1
<1>7. RegistrationInv'
  BY <1>1, <1>2 DEF RegistrationInv
<1> QED BY <1>1, <1>4, <1>5, <1>6, <1>7 DEF BooksInv, GapInv

LEMMA RestartRefused ==
  ASSUME RestartInv, TypeInv', Refused
  PROVE  BooksInv' /\ GapInv' /\ phase' = "up"
<1>1. /\ EmptyBooks /\ todo' = <<>> /\ phase' = "up" /\ chainLen' = GAP_LIMIT
  BY DEF Refused
<1>2. /\ transactions' = <<>> /\ balanceHist' = <<>>
      /\ balance' = 0 /\ totalReceived' = 0 /\ totalSent' = 0
  BY <1>1 DEF EmptyBooks
<1>3. ~ Running("recount")' /\ ~ Running("count")' /\ DOMAIN todo' = {}
  BY <1>1 DEF Running
<1>4. CountsFirst' /\ HistInv' /\ TotalsInv'
  BY <1>2, <1>3 DEF CountsFirst, HistInv, TotalsInv, Recounting
<1>5. GapInv'
  BY <1>1, <1>3, LimitAssumption DEF GapInv, RegistrationInv
<1> QED BY <1>1, <1>4, <1>5, EmptyAmounts DEF BooksInv

LEMMA BooksStay ==
  ASSUME BooksInv, GapInv, UNCHANGED vars
  PROVE  BooksInv' /\ GapInv'
BY BooksStep, GapStep

LEMMA RestartStep == RestartInv /\ [StoreNext]_storeVars => RestartInv'
<1> SUFFICES ASSUME RestartInv, [StoreNext]_storeVars PROVE RestartInv'
  OBVIOUS
<1>0. TypeInv' /\ StoreType'
  BY TypesStep DEF RestartInv
<1>1. CASE UNCHANGED <<vars, phase>>
  <2>1. AmountsType => AmountsType'
    BY <1>1 DEF AmountsType, Priced, Worth, OutputOf, vars, books
  <2>2. UNCHANGED todo
    BY <1>1 DEF vars
  <2> QED BY <1>0, <1>1, <2>1, <2>2, BooksStay DEF RestartInv
<1>2. CASE WalletStep \/ Recounts
  <2>1. Next /\ phase # "loading" /\ UNCHANGED phase
    BY <1>2 DEF WalletStep, Recounts, Next, store
  <2> QED BY <1>0, <2>1, BooksStep, GapStep DEF RestartInv
<1>3. CASE Restart
  <2>1. todo' = <<>> /\ phase' = "loading" /\ EmptyBooks
    BY <1>3 DEF Restart
  <2> QED BY <1>0, <2>1, EmptyAmounts DEF RestartInv
<1>4. CASE LoadTx
  <2>1. phase = "loading"
        /\ UNCHANGED <<phase, todo, balance, totalSent, totalReceived, utxos, balanceHist, scan>>
    BY <1>4 DEF LoadTx
  <2>2. AmountsType'
    BY <2>1 DEF RestartInv, AmountsType, Priced, Worth, OutputOf
  <2> QED BY <1>0, <2>1, <2>2 DEF RestartInv
<1>5. CASE Loaded
  BY <1>0, <1>5, RestartLoaded DEF RestartInv
<1>6. CASE Accepted
  <2>1. phase = "checking" /\ phase' = "up" /\ UNCHANGED vars
    BY <1>6 DEF Accepted
  <2> QED BY <1>0, <2>1, BooksStay DEF RestartInv
<1>7. CASE Refused
  BY <1>0, <1>7, RestartRefused DEF RestartInv
<1>8. \/ UNCHANGED <<vars, phase>> \/ WalletStep \/ Restart \/ LoadTx \/ Loaded \/ Recounts
      \/ Accepted \/ Refused
  BY DEF StoreNext, InsertRow, UpdateRow, DeleteRow, storeVars, store
<1> QED BY <1>1, <1>2, <1>3, <1>4, <1>5, <1>6, <1>7, <1>8

LEMMA RestartAlways == StoreSpec => []RestartInv
<1>1. StoreInit => RestartInv
  BY StoreInvInit, BooksInit, GapInit DEF StoreInit, RestartInv
<1> QED BY <1>1, RestartStep, PTL DEF StoreSpec

\* Whoever gets the lock of a wallet that was started from its table finds an
\* entry of balanceHist for every transaction, and the balance to be what was
\* received less what was sent.
THEOREM BooksRestarted == StoreSpec => [](phase # "loading" => HistoryComplete /\ TotalsAgree)
<1>1. RestartInv => (phase # "loading" => HistoryComplete /\ TotalsAgree)
  BY DEF RestartInv, BooksInv, HistInv, TotalsInv, HistoryComplete, TotalsAgree, LockHeld,
         Recounting, Running, Idle, Top
<1> QED BY <1>1, RestartAlways, PTL

\* The chains that BRWalletNew generates anew, from the rows there are, end in
\* a full gap of unused addresses too when the listener hears of a transaction.
THEOREM GapFullRestarted == StoreSpec => []GapFull
<1>1. RestartInv => GapFull
  <2> SUFFICES ASSUME RestartInv, Running("added") PROVE \A c \in Chains : UnusedGap(c)
    BY DEF GapFull
  <2>1. BooksInv /\ GapInv
    BY DEF RestartInv, Running
  <2>2. 1 \in DOMAIN todo /\ todo[1].op = "added" /\ DOMAIN todo = 1 .. Len(todo) /\ Len(todo) \in Nat
    BY <2>1, TodoShape DEF Running, BooksInv
  <2>3. \A c \in Chains : ~ Follows(1, c)
    BY <2>2 DEF Follows
  <2> QED BY <2>1, <2>2, <2>3 DEF GapInv, RegistrationInv
<1> QED BY <1>1, RestartAlways, PTL
=============================================================================
