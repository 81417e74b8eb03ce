--------------------------- MODULE BRWalletProofs ---------------------------
(***************************************************************************)
(* What holds of BRWallet for every set of transactions, heights and gaps, *)
(* in three parts: the types; the list of transactions and what is removed *)
(* from it; the books that _BRWalletUpdateBalance makes of the list.       *)
(***************************************************************************)
EXTENDS BRWallet, Extrema, FiniteSetTheorems, SequenceTheorems, TLAPS

-----------------------------------------------------------------------------
(***************************************************************************)
(* Bounds.                                                                 *)
(***************************************************************************)
\* The values of a finite sequence of naturals are bounded.
LEMMA SeqBounded ==
  ASSUME NEW k \in Nat, NEW s \in [1 .. k -> Nat]
  PROVE  \E n \in Nat : \A i \in 1 .. k : s[i] <= n
<1> DEFINE Bounds(m) == {n \in Nat : \A i \in 1 .. m : s[i] <= n}
           Bad == {m \in 0 .. k : Bounds(m) = {}}
<1>1. SUFFICES ASSUME Bad # {} PROVE FALSE
  <2>1. k \notin Bad => Bounds(k) # {}
    OBVIOUS
  <2> QED BY <2>1, <1>1
<1>2. Min(Bad) \in Bad /\ \A m \in Bad : Min(Bad) <= m
  <2>1. Bad \subseteq Nat
    OBVIOUS
  <2> HIDE DEF Bad
  <2> QED BY <1>1, <2>1, LeastNat
<1>3. PICK m \in Bad : \A j \in Bad : m <= j
  BY <1>2
<1>4. m # 0
  <2>1. 0 \in Bounds(0)
    OBVIOUS
  <2> QED BY <2>1, <1>3
<1>5. m - 1 \in 0 .. k /\ m - 1 \notin Bad
  <2>1. m \in 0 .. k
    BY <1>3
  <2>2. m - 1 \in 0 .. k /\ ~ (m <= m - 1)
    BY <2>1, <1>4
  <2> HIDE DEF Bad
  <2> QED BY <2>2, <1>3
<1>6. PICK n \in Nat : \A i \in 1 .. m - 1 : s[i] <= n
  <2>1. Bounds(m - 1) # {}
    BY <1>5
  <2> QED BY <2>1
<1>7. n + s[m] \in Bounds(m)
  <2>1. m \in 1 .. k /\ s[m] \in Nat
    BY <1>3, <1>4
  <2>2. ASSUME NEW i \in 1 .. m PROVE s[i] <= n + s[m]
    <3>1. i \in 1 .. k /\ s[i] \in Nat
      BY <2>1
    <3>2. CASE i = m
      BY <3>2, <2>1
    <3>3. CASE i \in 1 .. m - 1
      BY <3>3, <3>1, <2>1, <1>6
    <3> QED BY <3>2, <3>3, <2>1
  <2> QED BY <2>1, <2>2
<1> QED BY <1>3, <1>7

-----------------------------------------------------------------------------
(***************************************************************************)
(* The constants.                                                          *)
(***************************************************************************)
LEMMA BodyType ==
  ASSUME NEW t \in Tx
  PROVE  /\ Body[t].ins \subseteq Outpoints
         /\ Body[t].outs \in Seq([addr : Addresses, amount : Nat])
         /\ AddrsOf(t) \subseteq Addresses
         /\ OutputsOf(t) \subseteq Outpoints
<1>1. Body[t] \in Bodies
  BY TxAssumption
<1>2. Body[t].ins \subseteq Outpoints
  BY <1>1 DEF Bodies
<1>3. Body[t].outs \in Seq([addr : Addresses, amount : Nat])
  BY <1>1 DEF Bodies
<1>4. DOMAIN Body[t].outs \subseteq Nat
  BY <1>3, LenProperties
<1>5. AddrsOf(t) \subseteq Addresses
  <2>1. ASSUME NEW n \in DOMAIN Body[t].outs
        PROVE  Body[t].outs[n] \in [addr : Addresses, amount : Nat]
    BY <1>3, LenProperties, ElementOfSeq
  <2> QED BY <2>1 DEF AddrsOf
<1>6. OutputsOf(t) \subseteq Outpoints
  BY <1>4 DEF OutputsOf, Outpoints
<1> QED BY <1>2, <1>3, <1>5, <1>6

\* the chain indexes of the addresses a transaction pays are bounded
LEMMA AddrsBounded ==
  ASSUME NEW t \in Tx
  PROVE  \E n \in Nat : \A a \in AddrsOf(t) : a.idx <= n
<1> DEFINE outs == Body[t].outs
           k == Len(outs)
           s == [i \in 1 .. k |-> outs[i].addr.idx]
<1>1. outs \in Seq([addr : Addresses, amount : Nat])
  BY BodyType
<1>2. k \in Nat /\ DOMAIN outs = 1 .. k
  BY <1>1, LenProperties
<1>3. s \in [1 .. k -> Nat]
  <2>1. ASSUME NEW i \in 1 .. k PROVE outs[i].addr.idx \in Nat
    <3>1. outs[i] \in [addr : Addresses, amount : Nat]
      BY <1>1, ElementOfSeq
    <3> QED BY <3>1 DEF Addresses
  <2> QED BY <2>1
<1>4. PICK n \in Nat : \A i \in 1 .. k : s[i] <= n
  <2> HIDE DEF s, k
  <2> QED BY <1>2, <1>3, SeqBounded
<1>5. \A i \in 1 .. k : outs[i].addr.idx <= n
  BY <1>4
<1> QED BY <1>5, <1>2 DEF AddrsOf

-----------------------------------------------------------------------------
(***************************************************************************)
(* The list of transactions.                                               *)
(***************************************************************************)
LEMMA InsertPosition ==
  ASSUME NEW ht, NEW s \in Seq(Tx), NEW t
  PROVE  /\ InsertPos(ht, s, t) \in 0 .. Len(s)
         /\ \A i \in 1 .. Len(s) :
              i > InsertPos(ht, s, t) => ComesAfter(ht, s[i], t)
         /\ InsertPos(ht, s, t) # 0 => ~ ComesAfter(ht, s[InsertPos(ht, s, t)], t)
<1> DEFINE P == {0} \cup {i \in DOMAIN s : ~ ComesAfter(ht, s[i], t)}
<1>1. Len(s) \in Nat /\ DOMAIN s = 1 .. Len(s)
  BY LenProperties
<1>2. Len(s) \in Int /\ P \subseteq Int /\ P # {} /\ \A i \in P : i <= Len(s)
  BY <1>1
<1>3. Max(P) \in P /\ \A i \in P : i <= Max(P)
  <2> HIDE DEF P
  <2> QED BY <1>1, <1>2, GreatestInt
<1>4. InsertPos(ht, s, t) = Max(P)
  BY DEF InsertPos
<1>5. P \subseteq 0 .. Len(s)
  BY <1>1
<1>6. \A i \in 1 .. Len(s) : i \notin P => ComesAfter(ht, s[i], t)
  BY <1>1
<1>7. \A i \in P : i # 0 => ~ ComesAfter(ht, s[i], t)
  BY <1>1
<1>8. \A i \in 1 .. Len(s) : i > Max(P) => i \notin P
  <2> HIDE DEF P
  <2>1. Max(P) \in Int
    BY <1>2, <1>3
  <2>2. ASSUME NEW i \in 1 .. Len(s), i > Max(P), i \in P PROVE FALSE
    <3>1. i <= Max(P) /\ i \in Int
      BY <2>2, <1>1, <1>3
    <3> QED BY <3>1, <2>1, <2>2
  <2> QED BY <2>2
<1> HIDE DEF P
<1> QED BY <1>3, <1>4, <1>5, <1>6, <1>7, <1>8

LEMMA InsertTxType ==
  ASSUME NEW ht, NEW s \in Seq(Tx), NEW t \in Tx
  PROVE  /\ InsertTx(ht, s, t) \in Seq(Tx)
         /\ Len(InsertTx(ht, s, t)) = Len(s) + 1
<1> DEFINE k == InsertPos(ht, s, t)
           n == Len(s) + 1
<1>1. Len(s) \in Nat /\ s \in [1 .. Len(s) -> Tx]
  BY LenProperties
<1>2. k \in 0 .. Len(s)
  BY InsertPosition
<1>3. InsertTx(ht, s, t) =
        [i \in 1 .. n |-> IF i <= k THEN s[i] ELSE IF i = k + 1 THEN t ELSE s[i - 1]]
  BY DEF InsertTx
<1>4. InsertTx(ht, s, t) \in [1 .. n -> Tx]
  BY <1>1, <1>2, <1>3
<1>5. n \in Nat
  BY <1>1
<1> QED BY <1>4, <1>5, SeqDef, LenProperties

LEMMA RemovePosition ==
  ASSUME NEW s \in Seq(Tx), NEW t, \E i \in DOMAIN s : s[i] = t
  PROVE  Max({i \in DOMAIN s : s[i] = t}) \in {i \in DOMAIN s : s[i] = t}
<1> DEFINE P == {i \in DOMAIN s : s[i] = t}
<1>1. Len(s) \in Nat /\ DOMAIN s = 1 .. Len(s)
  BY LenProperties
<1>2. Len(s) \in Int /\ P \subseteq Int /\ P # {} /\ \A i \in P : i <= Len(s)
  BY <1>1
<1> HIDE DEF P
<1>3. Max(P) \in P
  BY <1>1, <1>2, GreatestInt
<1> QED BY <1>3 DEF P

LEMMA RemoveTxType ==
  ASSUME NEW s \in Seq(Tx), NEW t, \E i \in DOMAIN s : s[i] = t
  PROVE  /\ RemoveTx(s, t) \in Seq(Tx)
         /\ Len(RemoveTx(s, t)) = Len(s) - 1
<1> DEFINE k == Max({i \in DOMAIN s : s[i] = t})
           n == Len(s) - 1
<1>1. Len(s) \in Nat /\ s \in [1 .. Len(s) -> Tx] /\ DOMAIN s = 1 .. Len(s)
  BY LenProperties
<1>2. k \in 1 .. Len(s)
  BY RemovePosition, <1>1
<1>3. RemoveTx(s, t) = [i \in 1 .. n |-> IF i < k THEN s[i] ELSE s[i + 1]]
  BY DEF RemoveTx
<1>4. n \in Nat
  BY <1>1, <1>2
<1>5. RemoveTx(s, t) \in [1 .. n -> Tx]
  <2>1. \A i \in 1 .. n : i \in 1 .. Len(s) /\ i + 1 \in 1 .. Len(s)
    BY <1>1
  <2> QED BY <2>1, <1>1, <1>3
<1> QED BY <1>4, <1>5, SeqDef, LenProperties

-----------------------------------------------------------------------------
(***************************************************************************)
(* The address chains.                                                     *)
(***************************************************************************)
UsedBounded == \E n \in Nat : \A a \in usedAddrs : a.idx <= n

\* Growing a chain finds a length, never a shorter one, at which the chain ends
\* in a gap; it stays as it is when it does already.
LEMMA Grown ==
  ASSUME chainLen \in [Chains -> Nat], usedAddrs \subseteq Addresses, UsedBounded,
         NEW c \in Chains, NEW gap \in Nat
  PROVE  /\ GrownLen(c, gap) \in Nat /\ GrownLen(c, gap) >= chainLen[c] /\ GrownLen(c, gap) >= gap
         /\ UsedIndexes(c) \cap (GrownLen(c, gap) - gap) .. (GrownLen(c, gap) - 1) = {}
         /\ chainLen[c] >= gap /\ UsedIndexes(c) \cap (chainLen[c] - gap) .. (chainLen[c] - 1) = {}
              => GrownLen(c, gap) = chainLen[c]
<1> DEFINE top == Max(UsedIndexes(c) \cup {chainLen[c]})
           P == {n \in chainLen[c] .. top + gap + 1 :
                   /\ n >= gap
                   /\ UsedIndexes(c) \cap (n - gap) .. (n - 1) = {}}
<1>1. chainLen[c] \in Nat
  OBVIOUS
<1>2. PICK m \in Nat : \A a \in usedAddrs : a.idx <= m
  BY DEF UsedBounded
<1>3. UsedIndexes(c) \subseteq Nat /\ \A i \in UsedIndexes(c) : i <= m
  BY <1>2 DEF UsedIndexes, Addresses
<1>4. top \in UsedIndexes(c) \cup {chainLen[c]}
      /\ \A i \in UsedIndexes(c) \cup {chainLen[c]} : i <= top
  <2> DEFINE U == UsedIndexes(c) \cup {chainLen[c]}
  <2>1. U \subseteq Int /\ U # {} /\ m + chainLen[c] \in Int
    BY <1>1, <1>3
  <2>2. \A i \in U : i <= m + chainLen[c]
    BY <1>1, <1>3
  <2> HIDE DEF U
  <2>3. Max(U) \in U /\ \A i \in U : i <= Max(U)
    BY <2>1, <2>2, GreatestInt
  <2> QED BY <2>3 DEF U
<1>5. top \in Nat
  BY <1>1, <1>3, <1>4
<1>6. top + gap + 1 \in P
  <2>1. chainLen[c] <= top /\ \A i \in UsedIndexes(c) : i <= top
    BY <1>4
  <2> HIDE DEF top
  <2> QED BY <1>1, <1>3, <1>5, <2>1
<1>7. P \subseteq Nat
  <2> HIDE DEF top
  <2> QED BY <1>1, <1>5
<1>8. Min(P) \in P /\ \A n \in P : Min(P) <= n
  <2> HIDE DEF P
  <2> QED BY <1>6, <1>7, LeastNat
<1>9. GrownLen(c, gap) = Min(P)
  BY DEF GrownLen
<1>10. chainLen[c] <= top
  BY <1>4
<1> HIDE DEF top
<1>11. /\ Min(P) \in Nat /\ Min(P) >= chainLen[c] /\ Min(P) >= gap
       /\ UsedIndexes(c) \cap (Min(P) - gap) .. (Min(P) - 1) = {}
  BY <1>1, <1>5, <1>8
<1>12. ASSUME chainLen[c] >= gap,
              UsedIndexes(c) \cap (chainLen[c] - gap) .. (chainLen[c] - 1) = {}
       PROVE  Min(P) = chainLen[c]
  <2>1. chainLen[c] \in P
    BY <1>1, <1>5, <1>10, <1>12
  <2>2. Min(P) <= chainLen[c]
    BY <1>8, <2>1
  <2> HIDE DEF P
  <2> QED BY <1>1, <1>11, <2>2
<1> HIDE DEF P
<1> QED BY <1>9, <1>11, <1>12

-----------------------------------------------------------------------------
(***************************************************************************)
(* Frames.                                                                 *)
(***************************************************************************)
LEMMA FrameType ==
  ASSUME TypeOK
  PROVE  /\ todo # <<>> => Top \in Frames /\ Tail(todo) \in Seq(Frames)
         /\ Recount \in Frames
         /\ \A extra \in Nat : Unused(extra) \in Seq(Frames)
         /\ \A t \in Tx : /\ Frame("remove", t, 0, 0) \in Frames
                         /\ Frame("added", t, 0, 0) \in Frames
         /\ Frame("count", "unknown", 0, 0) \in Frames
         /\ \A h \in HeightsOrUnconfirmed, ts \in Stamps \cup {0} :
              /\ \A t \in Tx : Frame("set", t, h, ts) \in Frames
              /\ Frame("endset", "unknown", h, ts) \in Frames
              /\ Frame("updated", "unknown", h, ts) \in Frames
<1>1. todo # <<>> => Top \in Frames /\ Tail(todo) \in Seq(Frames)
  BY HeadTailProperties DEF TypeOK, Top
<1>2. Recount \in Frames /\ Frame("count", "unknown", 0, 0) \in Frames
  BY DEF Recount, Frame, Frames
<1>3. ASSUME NEW extra \in Nat PROVE Unused(extra) \in Seq(Frames)
  <2>1. GAP_LIMIT["external"] + extra \in Nat /\ GAP_LIMIT["internal"] + extra \in Nat
    BY LimitAssumption DEF Chains
  <2>2. \A n \in Nat : /\ Frame("unusedExternal", "unknown", n, 0) \in Frames
                       /\ Frame("unusedInternal", "unknown", n, 0) \in Frames
    BY DEF Frame, Frames
  <2> QED BY <2>1, <2>2 DEF Unused
<1>4. ASSUME NEW t \in Tx
      PROVE  Frame("remove", t, 0, 0) \in Frames /\ Frame("added", t, 0, 0) \in Frames
  BY DEF Frame, Frames
<1>5. ASSUME NEW h \in HeightsOrUnconfirmed, NEW ts \in Stamps \cup {0}
      PROVE  /\ \A t \in Tx : Frame("set", t, h, ts) \in Frames
             /\ Frame("endset", "unknown", h, ts) \in Frames
             /\ Frame("updated", "unknown", h, ts) \in Frames
  BY DEF Frame, Frames
<1> QED BY <1>1, <1>2, <1>3, <1>4, <1>5

\* what a frame carries, by its kind
LEMMA TopType ==
  ASSUME TypeOK, todo # <<>>
  PROVE  /\ Top.op = "set" => /\ Top.tx \in Tx
                              /\ Top.h \in HeightsOrUnconfirmed
                              /\ Top.ts \in Stamps \cup {0}
         /\ Top.op \in {"endset", "updated"} => Top.h \in HeightsOrUnconfirmed
         /\ Top.op \in {"remove", "removed", "added"} => Top.tx \in Tx
         /\ Top.op \in {"unusedExternal", "unusedInternal"} => Top.h \in Nat
BY FrameType DEF Frames

LEMMA ContinueType ==
  ASSUME TypeOK, todo # <<>>, NEW fs \in Seq(Frames), Continue(fs)
  PROVE  todo' \in Seq(Frames)
BY FrameType, ConcatProperties DEF Continue

-----------------------------------------------------------------------------
(***************************************************************************)
(* The type invariant.  To be inductive it needs the indexes of the used   *)
(* addresses bounded, for the address chains to find a length, and the     *)
(* fields of the two records whose amounts it leaves open.                 *)
(***************************************************************************)
HoldingsType == /\ allTx \subseteq Tx /\ transactions \in Seq(Tx)
                /\ height \in [Tx -> HeightsOrUnconfirmed]
                /\ timestamp \in [Tx -> Stamps \cup {0}]
BooksType == /\ utxos \subseteq Outpoints /\ spentOutputs \subseteq Outpoints
             /\ invalidTx \subseteq Tx /\ pendingTx \subseteq Tx
             /\ usedAddrs \subseteq Addresses /\ UsedBounded
ScanType == scan.i \in Nat \ {0} /\ DOMAIN scan = {"i", "bal", "prev"}
UpdType == upd \in [txs : SUBSET Tx, needs : BOOLEAN]
TodoType == todo \in Seq(Frames)
ToldType == /\ told.height \in [Tx -> HeightsOrNone \cup {-1}]
            /\ told.alert \in {"none", "notify", "rescan"}
            /\ DOMAIN told = {"balance", "height", "alert"}
ChainType == chainLen \in [Chains -> Nat]
BlockType == blockHeight \in HeightsOrNone
NowType == now \in Nat

TypeInv ==
  /\ HoldingsType /\ BlockType /\ ChainType /\ BooksType /\ ScanType
  /\ UpdType /\ TodoType /\ ToldType /\ NowType

LEMMA TypeInvOK == TypeInv => TypeOK
BY DEF TypeInv, TypeOK, HoldingsType, BlockType, ChainType, BooksType, ScanType,
       UpdType, TodoType, ToldType, NowType

LEMMA TypeUnchanged ==
  ASSUME TypeInv
  PROVE  /\ UNCHANGED holdings => HoldingsType'
         /\ UNCHANGED blockHeight => BlockType'
         /\ UNCHANGED chainLen => ChainType'
         /\ UNCHANGED books => BooksType'
         /\ UNCHANGED scan => ScanType'
         /\ UNCHANGED upd => UpdType'
         /\ UNCHANGED todo => TodoType'
         /\ UNCHANGED told => ToldType'
         /\ UNCHANGED now => NowType'
BY DEF TypeInv, HoldingsType, BlockType, ChainType, BooksType, ScanType, UpdType,
       TodoType, ToldType, NowType, UsedBounded, holdings, books

LEMMA TypeInit == Init => TypeInv
<1> SUFFICES ASSUME Init PROVE TypeInv
  OBVIOUS
<1> USE DEF Init
<1>1. HoldingsType /\ BlockType
  BY DEF HoldingsType, BlockType, HeightsOrUnconfirmed, HeightsOrNone
<1>2. ChainType /\ NowType
  BY LimitAssumption DEF ChainType, NowType
<1>3. BooksType
  BY DEF BooksType, UsedBounded
<1>4. ScanType
  BY DEF ScanType, NoScan
<1>5. UpdType /\ TodoType
  BY DEF UpdType, NoUpd, TodoType
<1>6. ToldType
  BY DEF ToldType
<1> QED BY <1>1, <1>2, <1>3, <1>4, <1>5, <1>6 DEF TypeInv

LEMMA ReturnType ==
  ASSUME TypeInv, todo # <<>>, Continue(<<>>)
  PROVE  TodoType'
<1>1. <<>> \in Seq(Frames)
  OBVIOUS
<1> QED BY <1>1, TypeInvOK, ContinueType DEF TodoType

\* the recount
LEMMA TypeStartCount ==
  ASSUME TypeInv, StartCount
  PROVE  TypeInv'
<1>1. BooksType'
  BY DEF StartCount, BooksType, UsedBounded
<1>2. ScanType'
  BY DEF StartCount, ScanType, NoScan
<1>3. TodoType'
  <2>1. <<Frame("count", "unknown", 0, 0)>> \in Seq(Frames)
    BY TypeInvOK, FrameType
  <2> QED BY <2>1, TypeInvOK, ContinueType DEF StartCount, Running, TodoType
<1> QED BY <1>1, <1>2, <1>3, TypeUnchanged DEF StartCount, TypeInv

LEMMA TypeCount ==
  ASSUME TypeInv, NEW t \in Tx, CountInvalid(t) \/ CountPending(t) \/ CountOutputs(t)
  PROVE  TypeInv'
<1>1. UNCHANGED <<holdings, blockHeight, chainLen, upd, todo, told, now>>
  BY DEF CountInvalid, CountPending, CountOutputs
<1>2. ScanType'
  BY DEF CountInvalid, CountPending, CountOutputs, ScanType, TypeInv
<1>3. BooksType'
  <2> USE DEF BooksType, UsedBounded, TypeInv
  <2>1. CASE CountInvalid(t)
    BY <2>1 DEF CountInvalid
  <2>2. CASE CountPending(t)
    BY <2>2, BodyType DEF CountPending
  <2>3. CASE CountOutputs(t)
    <3>1. /\ utxos' = (utxos \cup NewUtxos(t)) \ SpentWith(t)
          /\ spentOutputs' = SpentWith(t)
          /\ usedAddrs' = usedAddrs \cup {a \in AddrsOf(t) : a.chain # "none"}
          /\ UNCHANGED <<invalidTx, pendingTx>>
      BY <2>3 DEF CountOutputs
    <3>2. NewUtxos(t) \subseteq Outpoints /\ SpentWith(t) \subseteq Outpoints
      BY BodyType DEF NewUtxos, SpentWith
    <3>3. usedAddrs' \subseteq Addresses
      BY <3>1, BodyType
    <3>4. PICK m \in Nat : \A a \in usedAddrs : a.idx <= m
      OBVIOUS
    <3>5. PICK n \in Nat : \A a \in AddrsOf(t) : a.idx <= n
      BY AddrsBounded
    <3>6. ASSUME NEW a \in usedAddrs' PROVE a.idx <= m + n
      <4>1. a \in usedAddrs \/ a \in AddrsOf(t)
        BY <3>1
      <4>2. a.idx \in Nat
        BY <3>3 DEF Addresses
      <4> QED BY <4>1, <4>2, <3>4, <3>5
    <3>7. UsedBounded'
      BY <3>6
    <3> QED BY <3>1, <3>2, <3>3, <3>7
  <2> QED BY <2>1, <2>2, <2>3
<1> QED BY <1>1, <1>2, <1>3, TypeUnchanged DEF TypeInv

LEMMA TypeEndCount ==
  ASSUME TypeInv, EndCount
  PROVE  TypeInv'
<1>1. BooksType'
  BY DEF EndCount, BooksType, UsedBounded, TypeInv
<1>2. ScanType'
  BY DEF EndCount, ScanType, NoScan
<1>3. TodoType'
  BY ReturnType DEF EndCount, Running
<1> QED BY <1>1, <1>2, <1>3, TypeUnchanged DEF EndCount, TypeInv

\* the address chains
LEMMA TypeChains ==
  ASSUME TypeInv,
         UnusedAddrs \/ LoadFilterAddrs \/ \E c \in Chains : NextAddress(c)
  PROVE  TypeInv'
<1>1. ASSUME NEW c \in Chains, NEW gap \in Nat, GrowChain(c, gap)
      PROVE  ChainType'
  <2>1. GrownLen(c, gap) \in Nat
    BY Grown DEF TypeInv, ChainType, BooksType
  <2> QED BY <1>1, <2>1 DEF GrowChain, ChainType, TypeInv
<1>2. CASE UnusedAddrs
  <2>1. todo # <<>> /\ Top.h \in Nat /\ Continue(<<>>)
    BY <1>2, TypeInvOK, TopType DEF UnusedAddrs, Running
  <2>2. GrowChain("external", Top.h) \/ GrowChain("internal", Top.h)
    BY <1>2 DEF UnusedAddrs
  <2>3. ChainType'
    BY <2>1, <2>2, <1>1 DEF Chains
  <2>4. TodoType'
    BY <2>1, ReturnType
  <2> QED BY <1>2, <2>3, <2>4, TypeUnchanged DEF UnusedAddrs, TypeInv
<1>3. CASE LoadFilterAddrs
  <2>1. TodoType'
    BY <1>3, TypeInvOK, FrameType, LimitAssumption DEF LoadFilterAddrs, Start, TodoType
  <2> QED BY <1>3, <2>1, TypeUnchanged DEF LoadFilterAddrs, TypeInv
<1>4. ASSUME NEW c \in Chains, NextAddress(c) PROVE TypeInv'
  <2>1. ChainType'
    BY <1>4, <1>1 DEF NextAddress
  <2> QED BY <1>4, <2>1, TypeUnchanged DEF NextAddress, TypeInv
<1> QED BY <1>2, <1>3, <1>4

\* a registration
LEMMA TypeRegister ==
  ASSUME TypeInv, NEW t \in Tx, NEW ts \in Stamps \cup {0},
         RegisterWalletTx(t, ts) \/ RegisterOtherTx(t, ts)
  PROVE  TypeInv'
<1>1. /\ allTx' \subseteq Tx
      /\ height' \in [Tx -> HeightsOrUnconfirmed]
      /\ timestamp' \in [Tx -> Stamps \cup {0}]
  BY DEF RegisterWalletTx, RegisterOtherTx, Learn, TypeInv, HoldingsType,
         HeightsOrUnconfirmed
<1>2. CASE RegisterWalletTx(t, ts)
  <2>1. transactions' \in Seq(Tx)
    BY <1>2, InsertTxType DEF RegisterWalletTx, TypeInv, HoldingsType
  <2>2. TodoType'
    <3>1. /\ <<Recount>> \in Seq(Frames) /\ Unused(0) \in Seq(Frames)
          /\ <<Frame("added", t, 0, 0)>> \in Seq(Frames)
      BY TypeInvOK, FrameType
    <3>2. todo' = <<Recount>> \o Unused(0) \o <<Frame("added", t, 0, 0)>>
      BY <1>2 DEF RegisterWalletTx, Start
    <3>3. todo' \in Seq(Frames)
      BY <3>1, <3>2, ConcatProperties
    <3> QED BY <3>3 DEF TodoType
  <2> QED BY <1>1, <1>2, <2>1, <2>2, TypeUnchanged
          DEF RegisterWalletTx, TypeInv, HoldingsType
<1>3. CASE RegisterOtherTx(t, ts)
  BY <1>1, <1>3, TypeUnchanged DEF RegisterOtherTx, TypeInv, HoldingsType
<1> QED BY <1>2, <1>3

\* a removal
LEMMA TypeRemove ==
  ASSUME TypeInv,
         \/ \E t \in Tx : StartRemove(t)
         \/ RemoveUnknown \/ RemoveDependants \/ RemoveTransaction
  PROVE  TypeInv'
<1>1. ASSUME NEW t \in Tx, StartRemove(t) PROVE TypeInv'
  <2>1. TodoType'
    BY <1>1, TypeInvOK, FrameType DEF StartRemove, Start, TodoType
  <2> QED BY <1>1, <2>1, TypeUnchanged DEF StartRemove, TypeInv
<1>2. CASE RemoveUnknown
  <2>1. TodoType'
    BY <1>2, ReturnType DEF RemoveUnknown, Running
  <2> QED BY <1>2, <2>1, TypeUnchanged DEF RemoveUnknown, TypeInv
<1>3. CASE RemoveDependants
  <2> DEFINE D == Dependants(Top.tx)
  <2>1. PICK s \in [1 .. Cardinality(D) -> D] :
          Continue(RemovalOrder([i \in DOMAIN s |-> transactions[s[i]]]))
    BY <1>3 DEF RemoveDependants
  <2>2. todo # <<>> /\ Top \in Frames
    BY <1>3, TypeInvOK, FrameType DEF RemoveDependants, Running
  <2> DEFINE deps == [i \in DOMAIN s |-> transactions[s[i]]]
             fs == [i \in 1 .. Len(deps) |-> Frame("remove", deps[i], 0, 0)]
  <2>3. deps \in Seq(Tx)
    <3>1. D \subseteq 1 .. Len(transactions)
      BY LenProperties DEF Dependants, TypeInv, HoldingsType
    <3>2. Cardinality(D) \in Nat
      <4>1. IsFiniteSet(1 .. Len(transactions))
        BY FS_Interval, LenProperties DEF TypeInv, HoldingsType
      <4> HIDE DEF D
      <4> QED BY <3>1, <4>1, FS_Subset, FS_CardinalityType
    <3>3. \A d \in D : transactions[d] \in Tx
      BY <3>1, ElementOfSeq DEF TypeInv, HoldingsType
    <3> HIDE DEF D
    <3>4. deps \in [1 .. Cardinality(D) -> Tx]
      BY <3>3
    <3> QED BY <3>2, <3>4, SeqDef
  <2>4. fs \in Seq(Frames)
    <3>1. Len(deps) \in Nat /\ \A i \in 1 .. Len(deps) : deps[i] \in Tx
      BY <2>3, LenProperties, ElementOfSeq
    <3> HIDE DEF deps
    <3>2. fs \in [1 .. Len(deps) -> Frames]
      BY <3>1, TypeInvOK, FrameType
    <3> QED BY <3>1, <3>2, SeqDef
  <2>5. TodoType'
    <3>1. <<Top>> \in Seq(Frames)
      BY <2>2
    <3>2. fs \o <<Top>> \in Seq(Frames)
      <4> HIDE DEF fs
      <4> QED BY <2>4, <3>1, ConcatProperties
    <3>3. RemovalOrder(deps) = fs \o <<Top>>
      BY DEF RemovalOrder
    <3> HIDE DEF fs, deps
    <3> QED BY <2>1, <2>2, <3>2, <3>3, TypeInvOK, ContinueType DEF TodoType, deps
  <2> QED BY <1>3, <2>5, TypeUnchanged DEF RemoveDependants, TypeInv
<1>4. CASE RemoveTransaction
  <2>1. todo # <<>> /\ Top.tx \in Tx /\ Continue(AfterRemoval(Top.tx))
    BY <1>4, TypeInvOK, TopType DEF RemoveTransaction, Running
  <2>2. TodoType'
    <3>1. AfterRemoval(Top.tx) \in Seq(Frames)
      <4>1. Removed(Top.tx) \in Frames
        BY <2>1 DEF Removed, Frame, Frames
      <4> QED BY <4>1, TypeInvOK, FrameType DEF AfterRemoval
    <3> QED BY <3>1, <2>1, TypeInvOK, ContinueType DEF TodoType
  <2>3. HoldingsType'
    BY <1>4, RemoveTxType DEF RemoveTransaction, TypeInv, HoldingsType, Registered
  <2> QED BY <1>4, <2>2, <2>3, TypeUnchanged DEF RemoveTransaction, TypeInv
<1> QED BY <1>1, <1>2, <1>3, <1>4

\* an update
LEMMA UpdateType ==
  ASSUME TypeInv, NEW txs \in Seq(Tx), NEW h \in HeightsOrUnconfirmed,
         NEW ts \in Stamps \cup {0}, UpdateTransactions(txs, h, ts)
  PROVE  TypeInv'
<1> DEFINE fs == [i \in 1 .. Len(txs) |-> Frame("set", txs[i], h, ts)]
<1>1. fs \in Seq(Frames)
  <2>1. Len(txs) \in Nat /\ \A i \in 1 .. Len(txs) : txs[i] \in Tx
    BY LenProperties, ElementOfSeq
  <2>2. fs \in [1 .. Len(txs) -> Frames]
    BY <2>1, TypeInvOK, FrameType
  <2> QED BY <2>1, <2>2, SeqDef
<1>2. TodoType'
  <2>1. <<Frame("endset", "unknown", h, ts)>> \in Seq(Frames)
    BY TypeInvOK, FrameType
  <2>2. todo' = fs \o <<Frame("endset", "unknown", h, ts)>>
    BY DEF UpdateTransactions, Start
  <2> HIDE DEF fs
  <2> QED BY <1>1, <2>1, <2>2, ConcatProperties DEF TodoType
<1>3. BlockType'
  BY DEF UpdateTransactions, HeightSeen, BlockType, TypeInv, HeightsOrUnconfirmed,
         HeightsOrNone
<1>4. UpdType'
  BY DEF UpdateTransactions, UpdType, NoUpd
<1> QED BY <1>2, <1>3, <1>4, TypeUnchanged DEF UpdateTransactions, TypeInv

LEMMA TypeUpdate ==
  ASSUME TypeInv,
         \/ \E txs \in Blocks, h \in Heights, ts \in Stamps : ConfirmTxs(txs, h, ts)
         \/ \E t \in Tx, ts \in Stamps : MarkVerified(t, ts)
         \/ \E t \in Tx : MarkUnverified(t)
  PROVE  TypeInv'
<1>1. Blocks \subseteq Seq(Tx)
  BY TxAssumption
<1>2. \A t \in Tx : <<t>> \in Seq(Tx)
  OBVIOUS
<1> QED BY <1>1, <1>2, UpdateType
        DEF ConfirmTxs, MarkVerified, MarkUnverified, HeightsOrUnconfirmed

\* the steps of an update, and a reorganisation
LEMMA TypeSet ==
  ASSUME TypeInv, SkipTx \/ SetWalletTx \/ SetOtherTx
  PROVE  TypeInv'
<1>1. /\ todo # <<>> /\ Continue(<<>>)
      /\ Top.tx \in Tx /\ Top.h \in HeightsOrUnconfirmed
      /\ Top.ts \in Stamps \cup {0}
  BY TypeInvOK, TopType DEF SkipTx, SetWalletTx, SetOtherTx, Running
<1>2. TodoType'
  BY <1>1, ReturnType
<1>3. CASE SkipTx
  BY <1>2, <1>3, TypeUnchanged DEF SkipTx, TypeInv
<1>4. SetHeight(Top) => /\ height' \in [Tx -> HeightsOrUnconfirmed]
                        /\ timestamp' \in [Tx -> Stamps \cup {0}]
  BY <1>1 DEF SetHeight, TypeInv, HoldingsType
<1>5. CASE SetWalletTx
  <2>1. transactions' \in Seq(Tx)
    <3>1. CASE Top.tx \in Registered
      <4>1. RemoveTx(transactions, Top.tx) \in Seq(Tx)
        BY <3>1, RemoveTxType DEF Registered, TypeInv, HoldingsType
      <4> QED BY <1>1, <1>5, <3>1, <4>1, InsertTxType DEF SetWalletTx, Resorted
    <3>2. CASE Top.tx \notin Registered
      BY <1>5, <3>2 DEF SetWalletTx, Resorted, TypeInv, HoldingsType
    <3> QED BY <3>1, <3>2
  <2>2. UpdType'
    BY <1>1, <1>5 DEF SetWalletTx, UpdType, TypeInv
  <2>3. HoldingsType'
    BY <1>4, <1>5, <2>1 DEF SetWalletTx, TypeInv, HoldingsType
  <2> QED BY <1>2, <1>5, <2>2, <2>3, TypeUnchanged DEF SetWalletTx, TypeInv
<1>6. CASE SetOtherTx
  <2>1. HoldingsType'
    BY <1>4, <1>6 DEF SetOtherTx, TypeInv, HoldingsType
  <2> QED BY <1>2, <1>6, <2>1, TypeUnchanged DEF SetOtherTx, TypeInv
<1> QED BY <1>3, <1>5, <1>6

LEMMA TypeEndSet ==
  ASSUME TypeInv, EndSet
  PROVE  TypeInv'
<1>1. todo # <<>> /\ Top \in Frames /\ Top.op = "endset"
  BY TypeInvOK, FrameType DEF EndSet, Running
<1>2. [Top EXCEPT !.op = "updated"] \in Frames
  BY <1>1 DEF Frames
<1>3. Notice(Top) \in Seq(Frames)
  BY <1>2 DEF Notice
<1>4. (IF upd.needs THEN <<Recount>> ELSE <<>>) \in Seq(Frames)
  BY TypeInvOK, FrameType
<1>5. TodoType'
  <2>1. (IF upd.needs THEN <<Recount>> ELSE <<>>) \o Notice(Top) \in Seq(Frames)
    BY <1>3, <1>4, ConcatProperties
  <2> QED BY <1>1, <2>1, TypeInvOK, ContinueType DEF EndSet, TodoType
<1> QED BY <1>5, TypeUnchanged DEF EndSet, TypeInv

LEMMA TypeReorganise ==
  ASSUME TypeInv, NEW h \in Heights \cup {0}, SetTxUnconfirmedAfter(h)
  PROVE  TypeInv'
<1>1. ConfirmedAfter(h) \subseteq Tx
  BY ElementOfSeq, LenProperties DEF ConfirmedAfter, TypeInv, HoldingsType
<1>2. HoldingsType'
  BY DEF SetTxUnconfirmedAfter, TypeInv, HoldingsType, HeightsOrUnconfirmed
<1>3. BlockType' /\ UpdType'
  BY <1>1 DEF SetTxUnconfirmedAfter, BlockType, UpdType, HeightsOrNone
<1>4. TodoType'
  <2>1. /\ Recount \in Frames
        /\ Frame("updated", "unknown", TX_UNCONFIRMED, 0) \in Frames
    BY TypeInvOK, FrameType DEF HeightsOrUnconfirmed
  <2> QED BY <2>1 DEF SetTxUnconfirmedAfter, Start, TodoType
<1> QED BY <1>2, <1>3, <1>4, TypeUnchanged DEF SetTxUnconfirmedAfter, TypeInv

\* the callbacks
LEMMA TypeTell ==
  ASSUME TypeInv, TellAdded \/ TellRemoved \/ TellUpdated
  PROVE  TypeInv'
<1>1. TodoType'
  BY ReturnType DEF TellAdded, TellRemoved, TellUpdated, Running
<1>2. CASE TellAdded
  <2>1. Top.tx \in Tx
    BY <1>2, TypeInvOK, TopType DEF TellAdded, Running
  <2>2. height[Top.tx] \in HeightsOrNone
    BY <2>1 DEF TypeInv, HoldingsType, HeightsOrUnconfirmed, HeightsOrNone
  <2>3. ToldType'
    BY <1>2, <2>1, <2>2 DEF TellAdded, TypeInv, ToldType
  <2> QED BY <1>1, <1>2, <2>3, TypeUnchanged DEF TellAdded, TypeInv
<1>3. CASE TellRemoved
  <2>1. Top.tx \in Tx
    BY <1>3, TypeInvOK, TopType DEF TellRemoved, Running
  <2>2. ToldType'
    BY <1>3, <2>1 DEF TellRemoved, TypeInv, ToldType
  <2> QED BY <1>1, <1>3, <2>2, TypeUnchanged DEF TellRemoved, TypeInv
<1>4. CASE TellUpdated
  <2>1. Top.h \in HeightsOrNone
    BY <1>4, TypeInvOK, TopType DEF TellUpdated, Running, HeightsOrUnconfirmed,
       HeightsOrNone
  <2>2. ToldType'
    BY <1>4, <2>1 DEF TellUpdated, TypeInv, ToldType
  <2>3. UpdType'
    BY <1>4 DEF TellUpdated, UpdType, NoUpd
  <2> QED BY <1>1, <1>4, <2>2, <2>3, TypeUnchanged DEF TellUpdated, TypeInv
<1> QED BY <1>2, <1>3, <1>4

LEMMA TypeStep == TypeInv /\ [Next]_vars => TypeInv'
<1> SUFFICES ASSUME TypeInv, [Next]_vars PROVE TypeInv'
  OBVIOUS
<1>1. CASE UNCHANGED vars
  BY <1>1, TypeUnchanged DEF vars, TypeInv
<1>2. CASE Tick
  <2>1. NowType'
    BY <1>2 DEF Tick, NowType, TypeInv
  <2> QED BY <1>2, <2>1, TypeUnchanged DEF Tick, TypeInv
<1>3. CASE Work
  BY <1>3, TypeStartCount, TypeCount, TypeEndCount, TypeChains, TypeRemove, TypeSet,
     TypeEndSet, TypeTell DEF Work, Count
<1>4. CASE Register
  BY <1>4, TypeRegister DEF Register
<1> QED BY <1>1, <1>2, <1>3, <1>4, TypeChains, TypeRemove, TypeUpdate,
           TypeReorganise DEF Next

\* Every variable keeps its type, whatever order transactions confirm in.
THEOREM TypeCorrect == Spec => []TypeOK
<1>1. Spec => []TypeInv
  BY TypeInit, TypeStep, PTL DEF Spec
<1> QED BY <1>1, TypeInvOK, PTL

-----------------------------------------------------------------------------
(***************************************************************************)
(* The order of the wallet's list, what it can look up, and what it        *)
(* removes, when transactions confirm after what they spend (OutOfOrder is *)
(* FALSE); and that the wallet then implements the ledger.                 *)
(***************************************************************************)
Elems(s) == {s[i] : i \in DOMAIN s}
Distinct(s) == \A i, j \in DOMAIN s : i # j => s[i] # s[j]
Sorted(ht, s) == \A i, j \in DOMAIN s : i < j => ht[s[i]] <= ht[s[j]]

-----------------------------------------------------------------------------
(***************************************************************************)
(* Inserting into the list and removing from it.                           *)
(***************************************************************************)
LEMMA InsertTxElems ==
  ASSUME NEW ht, NEW s \in Seq(Tx), NEW t \in Tx
  PROVE  /\ Elems(InsertTx(ht, s, t)) = Elems(s) \cup {t}
         /\ Distinct(s) /\ t \notin Elems(s) => Distinct(InsertTx(ht, s, t))
<1> DEFINE k == InsertPos(ht, s, t)
           n == Len(s) + 1
           r == InsertTx(ht, s, t)
<1>1. Len(s) \in Nat /\ DOMAIN s = 1 .. Len(s) /\ k \in 0 .. Len(s)
  BY LenProperties, InsertPosition
<1>2. r = [i \in 1 .. n |-> IF i <= k THEN s[i] ELSE IF i = k + 1 THEN t ELSE s[i - 1]]
  BY DEF InsertTx
<1>3. DOMAIN r = 1 .. n
  BY <1>2
<1> HIDE DEF r, k
<1>4. Elems(r) \subseteq Elems(s) \cup {t}
  <2>1. ASSUME NEW i \in 1 .. n PROVE r[i] \in Elems(s) \cup {t}
    <3>1. CASE i <= k
      <4>1. i \in 1 .. Len(s) /\ r[i] = s[i]
        BY <1>1, <1>2, <3>1
      <4> QED BY <4>1, <1>1 DEF Elems
    <3>2. CASE i = k + 1
      BY <1>1, <1>2, <3>2
    <3>3. CASE i > k + 1
      <4>1. i - 1 \in 1 .. Len(s) /\ r[i] = s[i - 1]
        BY <1>1, <1>2, <3>3
      <4> QED BY <4>1, <1>1 DEF Elems
    <3> QED BY <3>1, <3>2, <3>3, <1>1
  <2> QED BY <2>1, <1>3 DEF Elems
<1>5. t \in Elems(r)
  <2>1. k + 1 \in 1 .. n /\ r[k + 1] = t
    BY <1>1, <1>2
  <2> QED BY <2>1, <1>3 DEF Elems
<1>6. Elems(s) \subseteq Elems(r)
  <2>1. ASSUME NEW j \in 1 .. Len(s) PROVE s[j] \in Elems(r)
    <3>1. CASE j <= k
      <4>1. j \in 1 .. n /\ r[j] = s[j]
        BY <1>1, <1>2, <3>1
      <4> QED BY <4>1, <1>3 DEF Elems
    <3>2. CASE j > k
      <4>1. j + 1 \in 1 .. n /\ r[j + 1] = s[j]
        BY <1>1, <1>2, <3>2
      <4> QED BY <4>1, <1>3 DEF Elems
    <3> QED BY <3>1, <3>2, <1>1
  <2> QED BY <2>1, <1>1 DEF Elems
<1>7. ASSUME Distinct(s), t \notin Elems(s), NEW i \in 1 .. n, NEW j \in 1 .. n, i < j
      PROVE  r[i] # r[j]
  <2>1. \A p, q \in 1 .. Len(s) : p # q => s[p] # s[q]
    BY <1>7, <1>1 DEF Distinct
  <2>2. \A p \in 1 .. Len(s) : s[p] # t
    BY <1>7, <1>1 DEF Elems
  <2>3. CASE j <= k
    <3>1. i \in 1 .. Len(s) /\ j \in 1 .. Len(s) /\ r[i] = s[i] /\ r[j] = s[j]
      BY <1>1, <1>2, <1>7, <2>3
    <3> QED BY <3>1, <2>1, <1>7
  <2>4. CASE j = k + 1
    <3>1. i \in 1 .. Len(s) /\ r[i] = s[i] /\ r[j] = t
      BY <1>1, <1>2, <1>7, <2>4
    <3> QED BY <3>1, <2>2
  <2>5. CASE j > k + 1 /\ i <= k
    <3>1. i \in 1 .. Len(s) /\ j - 1 \in 1 .. Len(s) /\ i # j - 1
          /\ r[i] = s[i] /\ r[j] = s[j - 1]
      BY <1>1, <1>2, <1>7, <2>5
    <3> QED BY <3>1, <2>1
  <2>6. CASE j > k + 1 /\ i = k + 1
    <3>1. j - 1 \in 1 .. Len(s) /\ r[i] = t /\ r[j] = s[j - 1]
      BY <1>1, <1>2, <1>7, <2>6
    <3> QED BY <3>1, <2>2
  <2>7. CASE j > k + 1 /\ i > k + 1
    <3>1. i - 1 \in 1 .. Len(s) /\ j - 1 \in 1 .. Len(s) /\ i - 1 # j - 1
          /\ r[i] = s[i - 1] /\ r[j] = s[j - 1]
      BY <1>1, <1>2, <1>7, <2>7
    <3> QED BY <3>1, <2>1
  <2> QED BY <2>3, <2>4, <2>5, <2>6, <2>7, <1>1
<1>8. Distinct(s) /\ t \notin Elems(s) => Distinct(r)
  <2>1. n \in Nat
    BY <1>1
  <2>2. ASSUME Distinct(s), t \notin Elems(s), NEW i \in 1 .. n, NEW j \in 1 .. n, i # j
        PROVE  r[i] # r[j]
    <3>1. CASE i < j
      BY <2>2, <3>1, <1>7
    <3>2. CASE j < i
      BY <2>2, <3>2, <1>7
    <3> QED BY <2>2, <3>1, <3>2
  <2> QED BY <2>2, <1>3 DEF Distinct
<1> QED BY <1>4, <1>5, <1>6, <1>8 DEF r

\* The insertion keeps the list sorted by height.
LEMMA InsertTxSorted ==
  ASSUME NEW ht \in [Tx -> Nat], NEW s \in Seq(Tx), NEW t \in Tx, Sorted(ht, s)
  PROVE  Sorted(ht, InsertTx(ht, s, t))
<1> DEFINE k == InsertPos(ht, s, t)
           n == Len(s) + 1
           r == InsertTx(ht, s, t)
<1>1. Len(s) \in Nat /\ DOMAIN s = 1 .. Len(s) /\ k \in 0 .. Len(s)
  BY LenProperties, InsertPosition
<1>2. r = [i \in 1 .. n |-> IF i <= k THEN s[i] ELSE IF i = k + 1 THEN t ELSE s[i - 1]]
  BY DEF InsertTx
<1>3. DOMAIN r = 1 .. n
  BY <1>2
<1>4. \A i \in 1 .. Len(s) : ht[s[i]] \in Nat
  BY <1>1, ElementOfSeq
<1>5. \A i \in 1 .. Len(s) : i > k => ht[t] <= ht[s[i]]
  <2>1. ASSUME NEW i \in 1 .. Len(s), i > k PROVE ht[t] <= ht[s[i]]
    <3>1. ComesAfter(ht, s[i], t)
      BY <2>1, InsertPosition
    <3> QED BY <3>1, <1>4 DEF ComesAfter
  <2> QED BY <2>1
<1>6. \A i, j \in 1 .. Len(s) : i < j => ht[s[i]] <= ht[s[j]]
  BY <1>1 DEF Sorted
<1>7. \A i \in 1 .. Len(s) : i <= k => ht[s[i]] <= ht[t]
  <2>1. CASE k = 0
    BY <2>1
  <2>2. CASE k # 0
    <3>1. ~ ComesAfter(ht, s[k], t)
      BY <2>2, InsertPosition
    <3>2. k \in 1 .. Len(s)
      BY <1>1, <2>2
    <3>3. ht[s[k]] <= ht[t]
      <4>1. ~ (ht[s[k]] > ht[t])
        BY <3>1 DEF ComesAfter
      <4> QED BY <4>1, <3>2, <1>4
    <3> HIDE DEF k
    <3>4. ASSUME NEW i \in 1 .. Len(s), i <= k PROVE ht[s[i]] <= ht[t]
      <4>1. i = k \/ i < k
        BY <3>2, <3>4
      <4>2. ht[s[i]] <= ht[s[k]]
        BY <4>1, <3>2, <3>4, <1>4, <1>6
      <4>3. ht[s[i]] \in Nat /\ ht[s[k]] \in Nat /\ ht[t] \in Nat
        BY <3>2, <3>4, <1>4
      <4> QED BY <4>2, <4>3, <3>3
    <3> QED BY <3>4
  <2> QED BY <2>1, <2>2
<1> HIDE DEF r, k
<1>8. ASSUME NEW i \in 1 .. n, NEW j \in 1 .. n, i < j
      PROVE  ht[r[i]] <= ht[r[j]]
  <2>3. CASE j <= k
    <3>1. i \in 1 .. Len(s) /\ j \in 1 .. Len(s) /\ r[i] = s[i] /\ r[j] = s[j]
      BY <1>1, <1>2, <1>8, <2>3
    <3> QED BY <3>1, <1>6, <1>8
  <2>4. CASE j = k + 1
    <3>1. i \in 1 .. Len(s) /\ i <= k /\ r[i] = s[i] /\ r[j] = t
      BY <1>1, <1>2, <1>8, <2>4
    <3> QED BY <3>1, <1>7
  <2>5. CASE j > k + 1 /\ i <= k
    <3>1. i \in 1 .. Len(s) /\ j - 1 \in 1 .. Len(s) /\ i < j - 1
          /\ r[i] = s[i] /\ r[j] = s[j - 1]
      BY <1>1, <1>2, <1>8, <2>5
    <3> QED BY <3>1, <1>6
  <2>6. CASE j > k + 1 /\ i = k + 1
    <3>1. j - 1 \in 1 .. Len(s) /\ j - 1 > k /\ r[i] = t /\ r[j] = s[j - 1]
      BY <1>1, <1>2, <1>8, <2>6
    <3> QED BY <3>1, <1>5
  <2>7. CASE j > k + 1 /\ i > k + 1
    <3>1. i - 1 \in 1 .. Len(s) /\ j - 1 \in 1 .. Len(s) /\ i - 1 < j - 1
          /\ r[i] = s[i - 1] /\ r[j] = s[j - 1]
      BY <1>1, <1>2, <1>8, <2>7
    <3> QED BY <3>1, <1>6
  <2> QED BY <2>3, <2>4, <2>5, <2>6, <2>7, <1>1
<1>9. Sorted(ht, r)
  BY <1>3, <1>8 DEF Sorted
<1> QED BY <1>9 DEF r

LEMMA RemoveTxElems ==
  ASSUME NEW s \in Seq(Tx), NEW t \in Elems(s), Distinct(s)
  PROVE  /\ Elems(RemoveTx(s, t)) = Elems(s) \ {t}
         /\ Distinct(RemoveTx(s, t))
         /\ \A ht : Sorted(ht, s) => Sorted(ht, RemoveTx(s, t))
<1> DEFINE k == Max({i \in DOMAIN s : s[i] = t})
           n == Len(s) - 1
           r == RemoveTx(s, t)
           src(i) == IF i < k THEN i ELSE i + 1
<1>1. Len(s) \in Nat /\ DOMAIN s = 1 .. Len(s)
  BY LenProperties
<1>2. k \in 1 .. Len(s) /\ s[k] = t
  BY RemovePosition, <1>1 DEF Elems
<1>3. r = [i \in 1 .. n |-> IF i < k THEN s[i] ELSE s[i + 1]]
  BY DEF RemoveTx
<1>4. DOMAIN r = 1 .. n
  BY <1>3
<1>5. \A i, j \in 1 .. Len(s) : i # j => s[i] # s[j]
  BY <1>1 DEF Distinct
<1> HIDE DEF r, k
<1>6. \A i \in 1 .. n : /\ src(i) \in 1 .. Len(s) /\ src(i) # k
                        /\ r[i] = s[src(i)]
  BY <1>1, <1>2, <1>3
<1>7. \A i, j \in 1 .. n : i < j => src(i) < src(j)
  BY <1>1, <1>2
<1>8. Elems(r) \subseteq Elems(s) \ {t}
  <2>1. ASSUME NEW i \in 1 .. n PROVE r[i] \in Elems(s) /\ r[i] # t
    BY <1>1, <1>2, <1>5, <1>6 DEF Elems
  <2> QED BY <2>1, <1>4 DEF Elems
<1>9. Elems(s) \ {t} \subseteq Elems(r)
  <2>1. ASSUME NEW j \in 1 .. Len(s), s[j] # t PROVE s[j] \in Elems(r)
    <3>1. j # k
      BY <2>1, <1>2
    <3>2. CASE j < k
      <4>1. j \in 1 .. n /\ r[j] = s[j]
        BY <3>2, <1>1, <1>2, <1>3
      <4> QED BY <4>1, <1>4 DEF Elems
    <3>3. CASE j > k
      <4>1. j - 1 \in 1 .. n /\ r[j - 1] = s[j]
        BY <3>3, <1>1, <1>2, <1>3
      <4> QED BY <4>1, <1>4 DEF Elems
    <3> QED BY <3>1, <3>2, <3>3, <1>2
  <2> QED BY <2>1, <1>1 DEF Elems
<1>10. Distinct(r)
  <2>1. ASSUME NEW i \in 1 .. n, NEW j \in 1 .. n, i # j PROVE r[i] # r[j]
    <3>1. i < j \/ j < i
      BY <2>1
    <3>2. src(i) # src(j)
      BY <3>1, <1>6, <1>7
    <3> HIDE DEF src
    <3> QED BY <3>2, <1>5, <1>6
  <2> QED BY <2>1, <1>4 DEF Distinct
<1>11. ASSUME NEW ht, Sorted(ht, s) PROVE Sorted(ht, r)
  <2>1. \A i, j \in 1 .. Len(s) : i < j => ht[s[i]] <= ht[s[j]]
    BY <1>11, <1>1 DEF Sorted
  <2>2. ASSUME NEW i \in 1 .. n, NEW j \in 1 .. n, i < j PROVE ht[r[i]] <= ht[r[j]]
    <3>1. src(i) < src(j) /\ src(i) \in 1 .. Len(s) /\ src(j) \in 1 .. Len(s)
      BY <2>2, <1>6, <1>7
    <3>2. r[i] = s[src(i)] /\ r[j] = s[src(j)]
      BY <1>6
    <3> HIDE DEF src
    <3> QED BY <3>1, <3>2, <2>1
  <2> QED BY <2>2, <1>4 DEF Sorted
<1> QED BY <1>8, <1>9, <1>10, <1>11 DEF r

-----------------------------------------------------------------------------
(***************************************************************************)
(* The inductive invariant.                                                *)
(***************************************************************************)
\* what is listed above what it spends
InOrder == \A t, u \in Registered : Spends(u, t) => height[t] <= height[u]

\* Nothing that pays the wallet or spends what pays it is freed, so a listed
\* transaction stays associated with the wallet.
Associated == \A t \in Registered : ContainsTx(t)

\* What is being removed is unconfirmed, unless it is gone already, and no
\* update is under way.
RemoveFrames ==
  \A i \in DOMAIN todo : todo[i].op = "remove" =>
    /\ \/ todo[i].tx \notin allTx
       \/ todo[i].tx \in Registered /\ height[todo[i].tx] = TX_UNCONFIRMED
    /\ \A j \in DOMAIN todo : todo[j].op # "set"

\* The hashes left of an update come first, carry one height, and confirm
\* nothing before what it spends.
SetFrame(i) ==
  /\ \A j \in 1 .. i : todo[j].op = "set" /\ todo[j].h = todo[i].h
  /\ todo[i].tx \in allTx => height[todo[i].tx] \in {todo[i].h, TX_UNCONFIRMED}
  /\ todo[i].h # TX_UNCONFIRMED =>
       \A o \in Body[todo[i].tx].ins :
         o.tx \in Registered => \/ height[o.tx] <= todo[i].h
                                \/ \E j \in 1 .. i - 1 : todo[j].tx = o.tx

SetFrames == \A i \in DOMAIN todo : todo[i].op = "set" => SetFrame(i)

ListInv ==
  /\ Distinct(transactions) /\ Registered \subseteq allTx
  /\ Sorted(height, transactions)
  /\ InOrder
  /\ Associated

SafeInv == TypeInv /\ ListInv /\ RemoveFrames /\ SetFrames

LEMMA RegisteredElems == Registered = Elems(transactions)
BY DEF Registered, Elems

LEMMA HeightNat ==
  ASSUME TypeInv
  PROVE  /\ height \in [Tx -> Nat] /\ TX_UNCONFIRMED \in Nat
         /\ \A t \in Tx : height[t] <= TX_UNCONFIRMED
         /\ \A h \in HeightsOrUnconfirmed : h \in Nat /\ h <= TX_UNCONFIRMED
         /\ Registered \subseteq Tx
<1>1. \A h \in HeightsOrUnconfirmed : h \in Nat /\ h <= TX_UNCONFIRMED
  BY HeightAssumption DEF HeightsOrUnconfirmed
<1>2. height \in [Tx -> HeightsOrUnconfirmed]
  BY DEF TypeInv, HoldingsType
<1>3. Registered \subseteq Tx
  BY ElementOfSeq, LenProperties DEF TypeInv, HoldingsType, Registered
<1> QED BY <1>1, <1>2, <1>3, HeightAssumption

\* The list invariant depends on four variables.
LEMMA ListUnchanged ==
  ASSUME ListInv, UNCHANGED <<holdings, chainLen>>
  PROVE  ListInv'
<1>1. \A t \in Registered : ContainsTx(t) => ContainsTx(t)'
  BY DEF ContainsTx, SpendsMine, Mine, holdings
<1> QED BY <1>1 DEF ListInv, holdings, Sorted, InOrder, Associated, Registered

\* Longer chains make no transaction a stranger's.
LEMMA ListGrows ==
  ASSUME TypeInv, ListInv, UNCHANGED holdings,
         \E c \in Chains, gap \in Nat : GrowChain(c, gap)
  PROVE  ListInv'
<1>1. \A c \in Chains : chainLen'[c] >= chainLen[c] /\ chainLen[c] \in Nat /\ chainLen'[c] \in Nat
  <2>1. PICK c \in Chains, gap \in Nat : GrowChain(c, gap)
    OBVIOUS
  <2>2. GrownLen(c, gap) \in Nat /\ GrownLen(c, gap) >= chainLen[c]
    BY Grown DEF TypeInv, ChainType, BooksType
  <2> QED BY <2>1, <2>2 DEF GrowChain, TypeInv, ChainType
<1>2. ASSUME NEW a \in Addresses, Mine(a) PROVE Mine(a)'
  <2>1. a.chain \in Chains /\ a.idx < chainLen[a.chain] /\ a.idx \in Nat
    BY <1>2 DEF Mine, Addresses
  <2> QED BY <2>1, <1>1 DEF Mine
<1>3. ASSUME NEW t \in Registered PROVE ContainsTx(t)'
  <2>1. t \in Tx /\ ContainsTx(t)
    BY HeightNat DEF ListInv, Associated
  <2>2. CASE \E a \in AddrsOf(t) : Mine(a)
    BY <2>1, <2>2, <1>2, BodyType DEF ContainsTx
  <2>3. CASE \E o \in Body[t].ins : SpendsMine(o)
    <3>1. PICK o \in Body[t].ins : SpendsMine(o)
      BY <2>3
    <3>2. o.tx \in Tx /\ o.n \in DOMAIN Body[o.tx].outs
      BY <3>1 DEF SpendsMine, TypeInv, HoldingsType
    <3>3. OutputOf(o).addr \in Addresses
      BY <3>2, BodyType DEF OutputOf, AddrsOf
    <3>4. SpendsMine(o)'
      BY <3>1, <3>3, <1>2 DEF SpendsMine, holdings
    <3> QED BY <3>4 DEF ContainsTx
  <2> QED BY <2>1, <2>2, <2>3 DEF ContainsTx
<1> QED BY <1>3 DEF ListInv, holdings, Sorted, InOrder, Associated, Registered

-----------------------------------------------------------------------------
(***************************************************************************)
(* The frames of an operation.                                             *)
(***************************************************************************)
LEMMA TodoShape ==
  ASSUME TypeInv, todo # <<>>
  PROVE  /\ Len(todo) \in Nat /\ DOMAIN todo = 1 .. Len(todo) /\ 1 \in DOMAIN todo
         /\ Top = todo[1] /\ Len(Tail(todo)) = Len(todo) - 1
         /\ DOMAIN Tail(todo) = 1 .. Len(todo) - 1
         /\ \A i \in DOMAIN Tail(todo) : Tail(todo)[i] = todo[i + 1]
<1>1. todo \in Seq(Frames)
  BY DEF TypeInv, TodoType
<1> QED BY <1>1, EmptySeq, LenProperties, HeadTailProperties DEF Top

\* Every frame left is one pushed or one that was there below the top.
LEMMA Pushed ==
  ASSUME TypeInv, todo # <<>>, NEW fs \in Seq(Frames), Continue(fs)
  PROVE  \A i \in DOMAIN todo' :
           \/ \E j \in DOMAIN fs : todo'[i] = fs[j]
           \/ \E j \in DOMAIN todo : todo'[i] = todo[j]
<1>1. Tail(todo) \in Seq(Frames)
  BY FrameType, TypeInvOK
<1>2. ASSUME NEW i \in DOMAIN todo'
      PROVE  \/ \E j \in DOMAIN fs : todo'[i] = fs[j]
             \/ \E j \in DOMAIN todo : todo'[i] = todo[j]
  <2>1. i \in 1 .. Len(fs) + Len(Tail(todo))
        /\ todo'[i] = IF i <= Len(fs) THEN fs[i] ELSE Tail(todo)[i - Len(fs)]
    BY <1>1, <1>2, ConcatProperties DEF Continue
  <2>2. Len(fs) \in Nat /\ DOMAIN fs = 1 .. Len(fs)
    BY LenProperties
  <2>3. CASE i <= Len(fs)
    BY <2>1, <2>2, <2>3
  <2>4. CASE i > Len(fs)
    <3>1. i - Len(fs) \in DOMAIN Tail(todo)
      BY <2>1, <2>2, <2>4, TodoShape
    <3>2. todo'[i] = todo[i - Len(fs) + 1]
      BY <2>1, <2>2, <2>4, <3>1, TodoShape
    <3>3. i - Len(fs) + 1 \in DOMAIN todo
      BY <3>1, <2>2, <2>4, <2>1, TodoShape
    <3> QED BY <3>2, <3>3
  <2> QED BY <2>1, <2>2, <2>3, <2>4
<1> QED BY <1>2

\* While something else than an update is on top, no update is under way.
LEMMA NoSet ==
  ASSUME TypeInv, SetFrames, Idle \/ Top.op # "set"
  PROVE  \A i \in DOMAIN todo : todo[i].op # "set"
<1>1. CASE Idle
  BY <1>1, EmptySeq DEF Idle
<1>2. CASE ~ Idle
  <2>1. ASSUME NEW i \in DOMAIN todo, todo[i].op = "set" PROVE FALSE
    <3>1. 1 \in 1 .. i /\ Top = todo[1]
      BY <1>2, <2>1, TodoShape DEF Idle
    <3> QED BY <3>1, <2>1, <1>2 DEF SetFrames, SetFrame
  <2> QED BY <2>1
<1> QED BY <1>1, <1>2

\* Steps that leave the list alone and push nothing that changes it.
LEMMA FramesUnchanged ==
  ASSUME SafeInv, UNCHANGED <<allTx, transactions, height>>,
         Idle \/ Top.op # "set",
         \A i \in DOMAIN todo' :
           \/ \E j \in DOMAIN todo : todo'[i] = todo[j]
           \/ todo'[i].op \notin {"set", "remove"}
  PROVE  RemoveFrames' /\ SetFrames'
<1>1. \A i \in DOMAIN todo' : todo'[i].op # "set"
  BY NoSet DEF SafeInv
<1>2. SetFrames'
  BY <1>1 DEF SetFrames
<1>3. Registered' = Registered
  BY DEF Registered
<1>4. ASSUME NEW i \in DOMAIN todo', todo'[i].op = "remove"
      PROVE  \/ todo'[i].tx \notin allTx
             \/ todo'[i].tx \in Registered /\ height[todo'[i].tx] = TX_UNCONFIRMED
  BY <1>4 DEF SafeInv, RemoveFrames
<1>5. RemoveFrames'
  BY <1>1, <1>3, <1>4 DEF RemoveFrames
<1> QED BY <1>2, <1>5

\* The frame on top is done with.
LEMMA FramesReturn ==
  ASSUME SafeInv, UNCHANGED <<allTx, transactions, height>>, todo # <<>>,
         Top.op # "set", Continue(<<>>)
  PROVE  RemoveFrames' /\ SetFrames'
<1>1. <<>> \in Seq(Frames) /\ DOMAIN <<>> = {}
  BY EmptySeq
<1> QED BY <1>1, Pushed, FramesUnchanged DEF SafeInv

-----------------------------------------------------------------------------
(***************************************************************************)
(* The inductive invariant is one: SafeInit, and a lemma for each action.  *)
(***************************************************************************)
LEMMA SafeInit == Init => SafeInv
<1> SUFFICES ASSUME Init PROVE SafeInv
  OBVIOUS
<1>1. TypeInv
  BY TypeInit
<1>2. transactions = <<>> /\ todo = <<>> /\ Registered = {}
  BY EmptySeq DEF Init, Registered
<1>3. ListInv
  BY <1>2, EmptySeq DEF ListInv, Distinct, Sorted, InOrder, Associated
<1>4. RemoveFrames /\ SetFrames
  BY <1>2, EmptySeq DEF RemoveFrames, SetFrames
<1> QED BY <1>1, <1>3, <1>4 DEF SafeInv

\* Steps that leave the transactions alone.
LEMMA SafeQuiet ==
  ASSUME SafeInv, TypeInv',
         \/ StartCount \/ Count \/ EndCount \/ Tick \/ UNCHANGED vars
         \/ TellAdded \/ TellRemoved \/ TellUpdated \/ RemoveUnknown \/ EndSet
  PROVE  SafeInv'
<1>1. ListInv'
  <2>1. UNCHANGED <<holdings, chainLen>>
    BY DEF StartCount, Count, CountInvalid, CountPending, CountOutputs, EndCount,
           Tick, vars, TellAdded, TellRemoved, TellUpdated, RemoveUnknown, EndSet
  <2> QED BY <2>1, ListUnchanged DEF SafeInv
<1>2. RemoveFrames' /\ SetFrames'
  <2>1. CASE StartCount
    <3>1. <<Frame("count", "unknown", 0, 0)>> \in Seq(Frames)
      BY FrameType, TypeInvOK DEF SafeInv
    <3>2. todo # <<>> /\ Top.op # "set" /\ Continue(<<Frame("count", "unknown", 0, 0)>>)
          /\ UNCHANGED <<allTx, transactions, height>>
      BY <2>1 DEF StartCount, Running, holdings
    <3>3. \A j \in DOMAIN <<Frame("count", "unknown", 0, 0)>> :
            <<Frame("count", "unknown", 0, 0)>>[j].op = "count"
      BY DEF Frame
    <3>4. \A i \in DOMAIN todo' :
            \/ \E j \in DOMAIN todo : todo'[i] = todo[j]
            \/ todo'[i].op \notin {"set", "remove"}
      BY <3>1, <3>2, <3>3, Pushed DEF SafeInv
    <3> QED BY <3>2, <3>4, FramesUnchanged
  <2>2. CASE EndSet
    <3> DEFINE fs == (IF upd.needs THEN <<Recount>> ELSE <<>>) \o Notice(Top)
    <3>1. todo # <<>> /\ Top.op = "endset" /\ Continue(fs)
          /\ UNCHANGED <<allTx, transactions, height>>
      BY <2>2 DEF EndSet, Running, holdings
    <3>2. /\ fs \in Seq(Frames)
          /\ \A i \in DOMAIN fs : fs[i].op \in {"recount", "updated"}
      <4> DEFINE F == {f \in Frames : f.op \in {"recount", "updated"}}
      <4>1. Recount \in F
        BY FrameType, TypeInvOK DEF Recount, Frame, SafeInv
      <4>2. [Top EXCEPT !.op = "updated"] \in F
        <5>1. Top \in Frames
          BY <3>1, FrameType, TypeInvOK DEF SafeInv
        <5> QED BY <5>1, <3>1 DEF Frames
      <4> HIDE DEF F
      <4>3. fs \in Seq(F)
        BY <4>1, <4>2 DEF Notice
      <4> HIDE DEF fs
      <4> QED BY <4>3, SeqDef, ElementOfSeq, LenProperties DEF F
    <3> HIDE DEF fs
    <3>4. \A i \in DOMAIN todo' :
            \/ \E j \in DOMAIN todo : todo'[i] = todo[j]
            \/ todo'[i].op \notin {"set", "remove"}
      BY <3>1, <3>2, Pushed DEF SafeInv
    <3> QED BY <3>1, <3>4, FramesUnchanged
  <2>3. CASE EndCount \/ TellAdded \/ TellRemoved \/ TellUpdated \/ RemoveUnknown
    <3>1. todo # <<>> /\ Top.op # "set" /\ Continue(<<>>)
          /\ UNCHANGED <<allTx, transactions, height>>
      BY <2>3 DEF EndCount, TellAdded, TellRemoved, TellUpdated, RemoveUnknown,
                  Running, holdings
    <3> QED BY <3>1, FramesReturn
  <2>4. CASE Count \/ Tick \/ UNCHANGED vars
    <3>1. UNCHANGED <<allTx, transactions, height, todo>>
      BY <2>4 DEF Count, CountInvalid, CountPending, CountOutputs, Tick, vars, holdings
    <3> QED BY <3>1 DEF SafeInv, RemoveFrames, SetFrames, SetFrame, Registered
  <2> QED BY <2>1, <2>2, <2>3, <2>4
<1> QED BY <1>1, <1>2 DEF SafeInv

\* The address chains grow.
LEMMA SafeChains ==
  ASSUME SafeInv, TypeInv',
         UnusedAddrs \/ LoadFilterAddrs \/ \E c \in Chains : NextAddress(c)
  PROVE  SafeInv'
<1>1. CASE UnusedAddrs
  <2>1. todo # <<>> /\ Top.op # "set" /\ Top.h \in Nat /\ Continue(<<>>)
        /\ UNCHANGED holdings
    BY <1>1, TypeInvOK, TopType DEF UnusedAddrs, Running, SafeInv
  <2>2. \E c \in Chains, gap \in Nat : GrowChain(c, gap)
    BY <1>1, <2>1 DEF UnusedAddrs, Chains
  <2>3. ListInv'
    BY <2>1, <2>2, ListGrows DEF SafeInv
  <2>4. RemoveFrames' /\ SetFrames'
    BY <2>1, FramesReturn DEF holdings
  <2> QED BY <2>3, <2>4 DEF SafeInv
<1>2. CASE LoadFilterAddrs
  <2>1. ListInv'
    BY <1>2, ListUnchanged DEF LoadFilterAddrs, SafeInv
  <2>2. \A i \in DOMAIN todo' : todo'[i].op \notin {"set", "remove"}
    BY <1>2 DEF LoadFilterAddrs, Start, Unused, Frame
  <2>3. RemoveFrames' /\ SetFrames'
    BY <1>2, <2>2, FramesUnchanged DEF LoadFilterAddrs, Start, holdings
  <2> QED BY <2>1, <2>3 DEF SafeInv
<1>3. ASSUME NEW c \in Chains, NextAddress(c) PROVE SafeInv'
  <2>1. ListInv'
    BY <1>3, ListGrows DEF NextAddress, SafeInv
  <2>2. RemoveFrames' /\ SetFrames'
    BY <1>3 DEF NextAddress, SafeInv, RemoveFrames, SetFrames, SetFrame, Registered,
                holdings
  <2> QED BY <2>1, <2>2 DEF SafeInv
<1> QED BY <1>1, <1>2, <1>3

\* What else the wallet learns of only adds to what pays it.
LEMMA ContainsMore ==
  ASSUME allTx \subseteq allTx', UNCHANGED chainLen, NEW t, ContainsTx(t)
  PROVE  ContainsTx(t)'
BY DEF ContainsTx, SpendsMine, Mine

LEMMA SafeRegister ==
  ASSUME SafeInv, TypeInv', ~ OutOfOrder, NEW t \in Tx, NEW ts \in Stamps \cup {0},
         RegisterWalletTx(t, ts) \/ RegisterOtherTx(t, ts)
  PROVE  SafeInv'
<1>1. /\ t \notin allTx /\ allTx' = allTx \cup {t} /\ UNCHANGED chainLen
      /\ height' = [height EXCEPT ![t] = TX_UNCONFIRMED] /\ Idle
      /\ \A u \in Registered : Spends(u, t) => height[u] = TX_UNCONFIRMED
  BY DEF RegisterWalletTx, RegisterOtherTx, Learn, Start, Relayable
<1>2. /\ height \in [Tx -> Nat] /\ height' \in [Tx -> Nat] /\ TX_UNCONFIRMED \in Nat
      /\ \A u \in Tx : height[u] <= TX_UNCONFIRMED
      /\ Registered \subseteq Tx /\ transactions \in Seq(Tx)
  BY HeightNat, <1>1 DEF SafeInv, TypeInv, HoldingsType
<1>3. t \notin Registered /\ \A u \in Registered : height'[u] = height[u]
  BY <1>1, <1>2 DEF SafeInv, ListInv
<1>4. Sorted(height', transactions)
  <2>1. \A i \in DOMAIN transactions : transactions[i] \in Registered
    BY DEF Registered
  <2> QED BY <2>1, <1>3 DEF Sorted, SafeInv, ListInv
<1>5. CASE RegisterWalletTx(t, ts)
  <2>1. transactions' = InsertTx(height', transactions, t)
    BY <1>5 DEF RegisterWalletTx
  <2>2. Registered' = Registered \cup {t} /\ Distinct(transactions')
    <3>1. Registered = Elems(transactions) /\ Registered' = Elems(transactions')
      BY DEF Registered, Elems
    <3>2. Distinct(transactions) /\ t \notin Elems(transactions)
      BY <1>3, <3>1 DEF SafeInv, ListInv
    <3>3. /\ Elems(transactions') = Elems(transactions) \cup {t}
          /\ Distinct(transactions')
      BY <1>2, <2>1, <3>2, InsertTxElems
    <3> QED BY <3>1, <3>3
  <2>3. Sorted(height', transactions')
    BY <2>1, <1>2, <1>4, InsertTxSorted
  <2>4. InOrder'
    <3>1. ASSUME NEW p \in Registered', NEW u \in Registered', Spends(u, p)
          PROVE  height'[p] <= height'[u]
      <4>1. CASE u = t
        BY <4>1, <1>1, <1>2, <1>3, <2>2
      <4>2. CASE u # t /\ p = t
        BY <4>2, <1>1, <1>2, <2>2, <3>1
      <4>3. CASE u # t /\ p # t
        BY <4>3, <1>3, <2>2, <3>1 DEF SafeInv, ListInv, InOrder
      <4> QED BY <4>1, <4>2, <4>3
    <3>2. \A p, u \in Registered' : Spends(u, p) => height'[p] <= height'[u]
      BY <3>1
    <3> QED BY <3>2 DEF InOrder, Spends
  <2>5. Associated'
    <3>1. ASSUME NEW u \in Registered' PROVE ContainsTx(u)'
      <4>1. ContainsTx(u)
        BY <3>1, <2>2, <1>5 DEF RegisterWalletTx, SafeInv, ListInv, Associated
      <4> QED BY <4>1, <1>1, ContainsMore
    <3> QED BY <3>1 DEF Associated
  <2>6. ListInv'
    BY <1>1, <2>2, <2>3, <2>4, <2>5 DEF ListInv, SafeInv
  <2>7. \A i \in DOMAIN todo' : todo'[i].op \notin {"set", "remove"}
    BY <1>5 DEF RegisterWalletTx, Start, Recount, Unused, Frame
  <2>8. RemoveFrames' /\ SetFrames'
    BY <2>7 DEF RemoveFrames, SetFrames
  <2> QED BY <2>6, <2>8 DEF SafeInv
<1>6. CASE RegisterOtherTx(t, ts)
  <2>1. UNCHANGED <<transactions, todo>> /\ Registered' = Registered
    BY <1>6 DEF RegisterOtherTx, Registered
  <2>2. InOrder'
    BY <2>1, <1>3 DEF SafeInv, ListInv, InOrder, Spends
  <2>3. Associated'
    <3>1. ASSUME NEW u \in Registered' PROVE ContainsTx(u)'
      BY <3>1, <2>1, <1>1, ContainsMore DEF SafeInv, ListInv, Associated
    <3> QED BY <3>1 DEF Associated
  <2>4. ListInv'
    BY <1>1, <1>4, <2>1, <2>2, <2>3 DEF ListInv, SafeInv
  <2>5. RemoveFrames' /\ SetFrames'
    BY <1>1, <2>1, EmptySeq DEF Idle, RemoveFrames, SetFrames
  <2> QED BY <2>4, <2>5 DEF SafeInv
<1> QED BY <1>5, <1>6

\* A listed transaction that spends an unconfirmed one is among those the
\* removal finds: the list is sorted and nothing is below what it spends.
LEMMA FoundDependant ==
  ASSUME TypeInv, ListInv, NEW t \in Registered, NEW u \in Registered,
         u # t, Spends(u, t)
  PROVE  Dependants(t) # {}
<1>1. PICK i \in DOMAIN transactions : transactions[i] = u
  BY DEF Registered
<1>2. /\ Len(transactions) \in Nat /\ DOMAIN transactions = 1 .. Len(transactions)
      /\ \A j \in DOMAIN transactions : transactions[j] \in Tx
  BY LenProperties, ElementOfSeq DEF TypeInv, HoldingsType
<1>3. ASSUME NEW j \in i .. Len(transactions) PROVE height[transactions[j]] >= height[t]
  <2>1. i \in 1 .. Len(transactions) /\ j \in 1 .. Len(transactions) /\ (i = j \/ i < j)
    BY <1>1, <1>2
  <2>2. height[u] <= height[transactions[j]]
    <3>1. height[transactions[i]] \in Nat
      BY <1>2, <2>1, HeightNat
    <3> QED BY <2>1, <3>1, <1>1, <1>2 DEF ListInv, Sorted
  <2>3. height[t] <= height[u]
    BY DEF ListInv, InOrder
  <2>4. height[t] \in Nat /\ height[u] \in Nat /\ height[transactions[j]] \in Nat
    BY <1>2, <2>1, HeightNat
  <2> QED BY <2>2, <2>3, <2>4
<1> QED BY <1>1, <1>3 DEF Dependants

\* what RemoveTransaction is at: listed, unconfirmed, spent by nothing listed
LEMMA Removable ==
  ASSUME SafeInv, RemoveTransaction
  PROVE  /\ Top.tx \in Registered /\ height[Top.tx] = TX_UNCONFIRMED
         /\ Registered' = Registered \ {Top.tx}
         /\ \A u \in Registered' : ~ Spends(u, Top.tx)
         /\ Distinct(transactions') /\ Sorted(height, transactions')
<1>1. todo # <<>> /\ Top.op = "remove" /\ Top.tx \in allTx /\ Dependants(Top.tx) = {}
  BY DEF RemoveTransaction, Running
<1>2. Top.tx \in Registered /\ height[Top.tx] = TX_UNCONFIRMED
  BY <1>1, TodoShape DEF SafeInv, RemoveFrames
<1>3. /\ Registered' = Registered \ {Top.tx}
      /\ Distinct(transactions') /\ Sorted(height, transactions')
  <2>1. Registered = Elems(transactions) /\ Registered' = Elems(transactions')
    BY DEF Registered, Elems
  <2>2. transactions' = RemoveTx(transactions, Top.tx)
    BY <1>2 DEF RemoveTransaction
  <2>3. transactions \in Seq(Tx) /\ Top.tx \in Elems(transactions)
        /\ Distinct(transactions) /\ Sorted(height, transactions)
    BY <1>2, <2>1 DEF SafeInv, ListInv, TypeInv, HoldingsType
  <2> QED BY <2>1, <2>2, <2>3, RemoveTxElems
<1>4. \A u \in Registered' : ~ Spends(u, Top.tx)
  BY <1>1, <1>2, <1>3, FoundDependant DEF SafeInv
<1> QED BY <1>2, <1>3, <1>4

LEMMA SafeRemoveTransaction ==
  ASSUME SafeInv, TypeInv', RemoveTransaction
  PROVE  SafeInv'
<1> DEFINE t == Top.tx
           fs == AfterRemoval(t)
<1>1. /\ Registered' = Registered \ {t} /\ allTx' = allTx \ {t}
      /\ UNCHANGED <<height, chainLen>>
      /\ \A u \in Registered' : ~ Spends(u, t)
      /\ Distinct(transactions') /\ Sorted(height', transactions')
  BY Removable DEF RemoveTransaction
<1>2. InOrder'
  BY <1>1 DEF SafeInv, ListInv, InOrder, Spends
<1>3. Associated'
  <2>1. ASSUME NEW u \in Registered' PROVE ContainsTx(u)'
    <3>1. ContainsTx(u) /\ ~ Spends(u, t)
      BY <1>1 DEF SafeInv, ListInv, Associated
    <3> QED BY <3>1, <1>1 DEF ContainsTx, SpendsMine, Mine, Spends
  <2> QED BY <2>1 DEF Associated
<1>4. ListInv'
  BY <1>1, <1>2, <1>3 DEF SafeInv, ListInv
<1>5. todo # <<>> /\ Top.op = "remove" /\ Continue(fs)
  BY DEF RemoveTransaction, Running
<1>6. fs \in Seq(Frames) /\ \A i \in DOMAIN fs : fs[i].op \in {"recount", "removed"}
  <2>1. t \in Tx
    BY Removable, HeightNat DEF SafeInv
  <2>2. Recount \in Frames /\ Recount.op = "recount"
    BY FrameType, TypeInvOK DEF Recount, Frame, SafeInv
  <2>3. Removed(t) \in Frames /\ Removed(t).op = "removed"
    <3>1. Frame("removed", t, 0, 0) \in Frames
      BY <2>1 DEF Frame, Frames
    <3>2. [Frame("removed", t, 0, 0) EXCEPT !.was = TRUE] \in Frames
      BY <2>1 DEF Frame, Frames
    <3> QED BY <3>1, <3>2 DEF Removed, Frame
  <2> QED BY <2>2, <2>3 DEF AfterRemoval
<1> HIDE DEF fs
<1>7. \A i \in DOMAIN todo' :
        \/ \E j \in DOMAIN todo : todo'[i] = todo[j]
        \/ todo'[i].op \notin {"set", "remove"}
  BY <1>5, <1>6, Pushed DEF SafeInv
<1>8. \A i \in DOMAIN todo' : todo'[i].op # "set"
  BY <1>5, <1>7, NoSet DEF SafeInv
<1>9. SetFrames'
  BY <1>8 DEF SetFrames
<1>10. ASSUME NEW i \in DOMAIN todo', todo'[i].op = "remove"
       PROVE  \/ todo'[i].tx \notin allTx'
              \/ todo'[i].tx \in Registered' /\ height'[todo'[i].tx] = TX_UNCONFIRMED
  BY <1>1, <1>7, <1>10 DEF SafeInv, RemoveFrames
<1>11. RemoveFrames'
  BY <1>8, <1>10 DEF RemoveFrames
<1> QED BY <1>4, <1>9, <1>11 DEF SafeInv

LEMMA SafeRemoveDependants ==
  ASSUME SafeInv, TypeInv', RemoveDependants
  PROVE  SafeInv'
<1> DEFINE t == Top.tx
           D == Dependants(t)
<1>1. /\ todo # <<>> /\ Top.op = "remove" /\ t \in allTx
      /\ UNCHANGED <<holdings, chainLen>>
  BY DEF RemoveDependants, Running
<1>2. t \in Registered /\ height[t] = TX_UNCONFIRMED
  BY <1>1, TodoShape DEF SafeInv, RemoveFrames
<1>3. PICK s \in [1 .. Cardinality(D) -> D] :
        Continue(RemovalOrder([i \in DOMAIN s |-> transactions[s[i]]]))
  BY DEF RemoveDependants
<1> DEFINE deps == [i \in DOMAIN s |-> transactions[s[i]]]
           F == {f \in Frames : /\ f.op = "remove" /\ f.tx \in Registered
                                /\ height[f.tx] = TX_UNCONFIRMED}
<1>4. \A i \in D : transactions[i] \in Registered
                  /\ height[transactions[i]] = TX_UNCONFIRMED
  <2>1. ASSUME NEW i \in D
        PROVE  transactions[i] \in Registered /\ height[transactions[i]] = TX_UNCONFIRMED
    <3>1. i \in DOMAIN transactions /\ transactions[i] \in Registered
      BY DEF Dependants, Registered
    <3>2. height[transactions[i]] >= height[t]
      <4>1. Len(transactions) \in Nat /\ i \in i .. Len(transactions)
        BY <3>1, LenProperties DEF SafeInv, TypeInv, HoldingsType
      <4> QED BY <4>1 DEF Dependants
    <3>3. height[transactions[i]] <= TX_UNCONFIRMED
          /\ height[transactions[i]] \in Nat /\ TX_UNCONFIRMED \in Nat
      BY <3>1, HeightNat DEF SafeInv
    <3> QED BY <1>2, <3>1, <3>2, <3>3
  <2> QED BY <2>1
<1>5. RemovalOrder(deps) \in Seq(F)
  <2>1. Top \in F
    BY <1>1, <1>2, FrameType, TypeInvOK DEF SafeInv
  <2>2. DOMAIN deps = DOMAIN s /\ DOMAIN s = 1 .. Cardinality(D)
    OBVIOUS
  <2>3. Cardinality(D) \in Nat
    <3>1. D \subseteq 1 .. Len(transactions) /\ Len(transactions) \in Nat
      BY LenProperties DEF Dependants, SafeInv, TypeInv, HoldingsType
    <3>2. IsFiniteSet(D)
      <4>1. IsFiniteSet(1 .. Len(transactions))
        BY <3>1, FS_Interval
      <4> HIDE DEF D
      <4> QED BY <3>1, <4>1, FS_Subset
    <3> QED BY <3>2, FS_CardinalityType
  <2>4. \A u \in Registered : height[u] = TX_UNCONFIRMED => Frame("remove", u, 0, 0) \in F
    BY FrameType, TypeInvOK, HeightNat DEF Frame, SafeInv
  <2>5. deps \in Seq(Tx)
    BY <1>4, <2>2, <2>3, HeightNat, SeqDef DEF SafeInv
  <2>6. Len(deps) = Cardinality(D)
    BY <2>2, <2>3, <2>5, LenProperties
  <2> HIDE DEF D
  <2>7. \A i \in 1 .. Len(deps) : Frame("remove", deps[i], 0, 0) \in F
    BY <1>4, <2>2, <2>4, <2>6
  <2> HIDE DEF F, deps
  <2>8. [i \in 1 .. Len(deps) |-> Frame("remove", deps[i], 0, 0)] \in Seq(F)
    BY <2>7, <2>3, <2>6, SeqDef
  <2>9. <<Top>> \in Seq(F)
    BY <2>1
  <2> QED BY <2>8, <2>9, ConcatProperties DEF RemovalOrder
<1>6. ListInv'
  BY <1>1, ListUnchanged DEF SafeInv
<1> DEFINE fs == RemovalOrder(deps)
<1>7. fs \in Seq(Frames) /\ \A i \in DOMAIN fs : fs[i] \in F
  <2> HIDE DEF fs
  <2>1. fs \in Seq(F)
    BY <1>5 DEF fs
  <2> QED BY <2>1, ElementOfSeq, LenProperties, SeqDef
<1> HIDE DEF fs, F, deps
<1>8. \A i \in DOMAIN todo' : todo'[i] \in F \/ \E j \in DOMAIN todo : todo'[i] = todo[j]
  BY <1>1, <1>3, <1>7, Pushed DEF SafeInv, fs, deps
<1>9. \A i \in DOMAIN todo' : todo'[i].op # "set"
  BY <1>1, <1>8, NoSet DEF SafeInv, F
<1>10. Registered' = Registered /\ UNCHANGED <<allTx, height>>
  BY <1>1 DEF holdings, Registered
<1>11. ASSUME NEW i \in DOMAIN todo', todo'[i].op = "remove"
       PROVE  \/ todo'[i].tx \notin allTx
              \/ todo'[i].tx \in Registered /\ height[todo'[i].tx] = TX_UNCONFIRMED
  BY <1>8, <1>11 DEF SafeInv, RemoveFrames, F
<1>12. RemoveFrames' /\ SetFrames'
  BY <1>9, <1>10, <1>11 DEF RemoveFrames, SetFrames
<1> QED BY <1>6, <1>12 DEF SafeInv

LEMMA SafeStartRemove ==
  ASSUME SafeInv, TypeInv', NEW t \in Tx, StartRemove(t)
  PROVE  SafeInv'
<1>1. UNCHANGED <<holdings, chainLen>> /\ Registered' = Registered
  BY DEF StartRemove, holdings, Registered
<1>2. ListInv'
  BY <1>1, ListUnchanged DEF SafeInv
<1>3. todo' = <<Frame("remove", t, 0, 0)>>
      /\ t \in Registered' /\ height'[t] = TX_UNCONFIRMED
  BY <1>1 DEF StartRemove, Start, holdings
<1>4. RemoveFrames' /\ SetFrames'
  BY <1>3 DEF RemoveFrames, SetFrames, Frame
<1> QED BY <1>2, <1>4 DEF SafeInv

\* An update begins: what a block brings it confirms in the order of a chain.
LEMMA SafeUpdate ==
  ASSUME SafeInv, TypeInv', NEW txs \in Seq(Tx), NEW h, NEW ts,
         UpdateTransactions(txs, h, ts),
         \A i \in DOMAIN txs :
           /\ txs[i] \in allTx => height[txs[i]] \in {h, TX_UNCONFIRMED}
           /\ h # TX_UNCONFIRMED => \A o \in Body[txs[i]].ins :
                o.tx \in Registered => \/ height[o.tx] <= h
                                       \/ \E j \in 1 .. i - 1 : txs[j] = o.tx
  PROVE  SafeInv'
<1> DEFINE sets == [i \in 1 .. Len(txs) |-> Frame("set", txs[i], h, ts)]
           e == Frame("endset", "unknown", h, ts)
           n == Len(txs)
<1>1. todo' = sets \o <<e>> /\ UNCHANGED <<holdings, chainLen>>
      /\ Registered' = Registered
  BY DEF UpdateTransactions, Start, holdings, Registered
<1>2. n \in Nat /\ DOMAIN txs = 1 .. n
  BY LenProperties
<1>3. DOMAIN todo' = 1 .. n + 1
      /\ \A i \in 1 .. n + 1 : todo'[i] = IF i <= n THEN sets[i] ELSE e
  <2> DEFINE S == {sets[i] : i \in 1 .. n} \cup {e}
  <2>1. sets \in Seq(S) /\ <<e>> \in Seq(S)
    BY <1>2, SeqDef
  <2>2. Len(sets) = n /\ Len(<<e>>) = 1 /\ <<e>>[1] = e
    BY <1>2, <2>1, LenProperties
  <2> HIDE DEF S, sets, e
  <2>3. DOMAIN todo' = 1 .. Len(todo') /\ Len(todo') = n + 1
    BY <1>1, <1>2, <2>1, <2>2, ConcatProperties, LenProperties
  <2>4. ASSUME NEW i \in 1 .. n + 1 PROVE todo'[i] = IF i <= n THEN sets[i] ELSE e
    <3>1. todo'[i] = IF i <= n THEN sets[i] ELSE <<e>>[i - n]
      BY <1>1, <1>2, <2>1, <2>2, ConcatProperties
    <3> QED BY <3>1, <2>2, <1>2
  <2> QED BY <2>3, <2>4
<1>4. \A i \in 1 .. n : /\ todo'[i].op = "set" /\ todo'[i].tx = txs[i]
                        /\ todo'[i].h = h
  BY <1>2, <1>3 DEF Frame
<1>5. todo'[n + 1].op = "endset"
  BY <1>2, <1>3 DEF Frame
<1>6. RemoveFrames'
  <2>1. \A i \in DOMAIN todo' : i \in 1 .. n \/ i = n + 1
    BY <1>2, <1>3
  <2>2. \A i \in DOMAIN todo' : todo'[i].op # "remove"
    BY <2>1, <1>4, <1>5
  <2> QED BY <2>2 DEF RemoveFrames
<1>7. SetFrames'
  <2>1. ASSUME NEW i \in DOMAIN todo', todo'[i].op = "set" PROVE SetFrame(i)'
    <3>1. i \in 1 .. n
      <4>1. i \in 1 .. n \/ i = n + 1
        BY <1>2, <1>3
      <4> QED BY <4>1, <2>1, <1>5
    <3>2. \A j \in 1 .. i : /\ todo'[j].op = "set" /\ todo'[j].tx = txs[j]
                            /\ todo'[j].h = h
      BY <3>1, <1>2, <1>4
    <3>3. UNCHANGED <<allTx, height>>
      BY <1>1 DEF holdings
    <3>4. todo'[i].tx = txs[i] /\ todo'[i].h = h /\ i \in DOMAIN txs
      BY <3>1, <3>2, <1>2
    <3>5. \A j \in 1 .. i - 1 : todo'[j].tx = txs[j]
      BY <3>1, <3>2
    <3>6. \A j \in 1 .. i : todo'[j].op = "set" /\ todo'[j].h = todo'[i].h
      BY <3>2, <3>4
    <3>7. todo'[i].tx \in allTx' => height'[todo'[i].tx] \in {todo'[i].h, TX_UNCONFIRMED}
      BY <3>3, <3>4
    <3>8. ASSUME todo'[i].h # TX_UNCONFIRMED, NEW o \in Body[todo'[i].tx].ins,
                 o.tx \in Registered'
          PROVE  \/ height'[o.tx] <= todo'[i].h
                 \/ \E j \in 1 .. i - 1 : todo'[j].tx = o.tx
      <4>1. height[o.tx] <= h \/ \E j \in 1 .. i - 1 : txs[j] = o.tx
        BY <3>4, <3>8, <1>1
      <4> QED BY <4>1, <3>3, <3>4, <3>5
    <3> QED BY <3>6, <3>7, <3>8 DEF SetFrame
  <2> QED BY <2>1 DEF SetFrames
<1>8. ListInv'
  BY <1>1, ListUnchanged DEF SafeInv
<1> QED BY <1>6, <1>7, <1>8 DEF SafeInv

\* The hash on top is dealt with: it has its height, unless it is not listed.
LEMMA SetReturn ==
  ASSUME SafeInv, Running("set"), Continue(<<>>),
         allTx' \subseteq allTx, Registered' = Registered,
         \A u \in Tx : u # Top.tx => height'[u] = height[u],
         Top.tx \in allTx' \cup Registered => height'[Top.tx] = Top.h
  PROVE  RemoveFrames' /\ SetFrames'
<1>1. todo # <<>> /\ Top.op = "set" /\ Top = todo[1]
      /\ DOMAIN todo = 1 .. Len(todo) /\ 1 \in DOMAIN todo /\ Len(todo) \in Nat
  BY TodoShape DEF Running, SafeInv
<1>2. todo' = Tail(todo)
  <2>1. Tail(todo) \in Seq(Frames)
    BY <1>1, FrameType, TypeInvOK DEF SafeInv
  <2> QED BY <2>1, ConcatEmptySeq DEF Continue
<1>3. /\ DOMAIN todo' = 1 .. Len(todo) - 1
      /\ \A i \in DOMAIN todo' : todo'[i] = todo[i + 1] /\ i + 1 \in DOMAIN todo
  BY <1>1, <1>2, TodoShape DEF SafeInv
<1>4. RemoveFrames'
  <2>1. \A i \in DOMAIN todo : todo[i].op # "remove"
    BY <1>1 DEF SafeInv, RemoveFrames
  <2> QED BY <2>1, <1>3 DEF RemoveFrames
<1>5. ASSUME NEW i \in DOMAIN todo', todo'[i].op = "set" PROVE SetFrame(i)'
  <2> DEFINE f == todo'[i]
  <2>1. SetFrame(i + 1) /\ f = todo[i + 1] /\ i \in Nat
    BY <1>1, <1>3, <1>5 DEF SafeInv, SetFrames
  <2>2. \A j \in 1 .. i + 1 : todo[j].op = "set" /\ todo[j].h = f.h
    BY <2>1 DEF SetFrame
  <2>3. \A j \in 1 .. i : todo'[j] = todo[j + 1] /\ j + 1 \in 1 .. i + 1
    <3>1. \A j \in 1 .. i : j \in DOMAIN todo'
      BY <1>1, <1>3, <2>1
    <3> QED BY <3>1, <1>3, <2>1
  <2>4. Top.h = f.h
    BY <1>1, <2>1, <2>2
  <2>5. f.tx \in Tx
    BY <1>1, <1>3, <1>5, ElementOfSeq DEF SafeInv, TypeInv, TodoType, Frames
  <2>6. f.tx \in allTx' => height'[f.tx] \in {f.h, TX_UNCONFIRMED}
    <3>1. CASE f.tx = Top.tx
      BY <3>1, <2>4
    <3>2. CASE f.tx # Top.tx
      BY <3>2, <2>1, <2>5 DEF SetFrame
    <3> QED BY <3>1, <3>2
  <2>7. ASSUME f.h # TX_UNCONFIRMED, NEW o \in Body[f.tx].ins, o.tx \in Registered'
        PROVE  height'[o.tx] <= f.h \/ \E j \in 1 .. i - 1 : todo'[j].tx = o.tx
    <3>1. o.tx \in Registered /\ o.tx \in Tx
      BY <2>7, HeightNat DEF SafeInv
    <3>2. height[o.tx] <= f.h \/ \E j \in 1 .. (i + 1) - 1 : todo[j].tx = o.tx
      BY <2>1, <2>7, <3>1 DEF SetFrame
    <3>3. CASE o.tx = Top.tx
      <4>1. height'[o.tx] = f.h
        BY <3>1, <3>3, <2>4
      <4>2. f.h \in Nat
        BY <1>1, <2>4, TopType, TypeInvOK, HeightNat DEF SafeInv
      <4> QED BY <4>1, <4>2
    <3>4. CASE o.tx # Top.tx /\ height[o.tx] <= f.h
      BY <3>1, <3>4
    <3>5. CASE o.tx # Top.tx /\ \E j \in 1 .. (i + 1) - 1 : todo[j].tx = o.tx
      <4>1. PICK j \in 1 .. (i + 1) - 1 : todo[j].tx = o.tx
        BY <3>5
      <4>2. j # 1
        BY <4>1, <3>5, <1>1
      <4>3. j - 1 \in 1 .. i - 1 /\ j - 1 \in 1 .. i /\ (j - 1) + 1 = j
        BY <4>1, <4>2, <2>1
      <4>4. todo'[j - 1].tx = o.tx
        BY <4>1, <4>3, <2>3
      <4> QED BY <4>3, <4>4
    <3> QED BY <3>2, <3>3, <3>4, <3>5
  <2> QED BY <2>2, <2>3, <2>6, <2>7 DEF SetFrame
<1> QED BY <1>4, <1>5 DEF SetFrames

LEMMA SafeSkip ==
  ASSUME SafeInv, TypeInv', SkipTx
  PROVE  SafeInv'
<1>1. UNCHANGED <<holdings, chainLen>> /\ Registered' = Registered
  BY DEF SkipTx, holdings, Registered
<1>2. ListInv'
  BY <1>1, ListUnchanged DEF SafeInv
<1>3. Top.tx \in allTx => height[Top.tx] = Top.h
  BY DEF SkipTx, NothingToSet
<1>4. RemoveFrames' /\ SetFrames'
  BY <1>1, <1>3, SetReturn DEF SkipTx, holdings, SafeInv, ListInv
<1> QED BY <1>2, <1>4 DEF SafeInv

\* what is known of the hash on top
LEMMA TopSet ==
  ASSUME SafeInv, Running("set"), ~ NothingToSet(Top)
  PROVE  /\ Top.tx \in Tx /\ Top.tx \in allTx /\ Top.h \in Nat /\ Top.h <= TX_UNCONFIRMED
         /\ height[Top.tx] \in {Top.h, TX_UNCONFIRMED}
         /\ \A u \in Registered : Spends(Top.tx, u) => height[u] <= Top.h
<1>1. todo # <<>> /\ Top.op = "set" /\ Top = todo[1] /\ 1 \in DOMAIN todo
  BY TodoShape DEF Running, SafeInv
<1>2. Top.tx \in Tx /\ Top.tx \in allTx /\ Top.h \in HeightsOrUnconfirmed
  BY <1>1, TopType, TypeInvOK DEF SafeInv, NothingToSet
<1>3. SetFrame(1)
  BY <1>1 DEF SafeInv, SetFrames
<1>4. height[Top.tx] \in {Top.h, TX_UNCONFIRMED}
  BY <1>1, <1>2, <1>3 DEF SetFrame
<1>5. ASSUME NEW u \in Registered, Spends(Top.tx, u) PROVE height[u] <= Top.h
  <2>1. CASE Top.h = TX_UNCONFIRMED
    BY <2>1, HeightNat DEF SafeInv
  <2>2. CASE Top.h # TX_UNCONFIRMED
    <3>1. PICK o \in Body[Top.tx].ins : o.tx = u
      BY <1>5 DEF Spends
    <3>2. height[o.tx] <= todo[1].h \/ \E j \in 1 .. 1 - 1 : todo[j].tx = o.tx
      BY <3>1, <1>1, <1>3, <2>2 DEF SetFrame
    <3> QED BY <3>1, <3>2, <1>1
  <2> QED BY <2>1, <2>2
<1> QED BY <1>2, <1>4, <1>5, HeightNat DEF SafeInv

LEMMA SafeSetWalletTx ==
  ASSUME SafeInv, TypeInv', SetWalletTx
  PROVE  SafeInv' /\ Registered' = Registered
<1> DEFINE t == Top.tx
<1>1. Running("set") /\ ~ NothingToSet(Top) /\ Continue(<<>>)
      /\ UNCHANGED <<allTx, chainLen>>
      /\ height' = [height EXCEPT ![t] = Top.h]
      /\ transactions' = Resorted(height', t)
  BY DEF SetWalletTx, SetHeight
<1>2. /\ t \in Tx /\ t \in allTx /\ Top.h \in Nat /\ Top.h <= TX_UNCONFIRMED
      /\ height[t] \in {Top.h, TX_UNCONFIRMED}
      /\ \A u \in Registered : Spends(t, u) => height[u] <= Top.h
  BY <1>1, TopSet
<1>3. /\ height \in [Tx -> Nat] /\ height' \in [Tx -> Nat] /\ TX_UNCONFIRMED \in Nat
      /\ \A u \in Tx : height[u] <= TX_UNCONFIRMED
      /\ Registered \subseteq Tx /\ transactions \in Seq(Tx)
  BY HeightNat, <1>1, <1>2 DEF SafeInv, TypeInv, HoldingsType
<1>4. height'[t] = Top.h /\ \A u \in Tx : u # t => height'[u] = height[u]
  BY <1>1, <1>2, <1>3
<1> HIDE DEF t
<1>5. Registered = Elems(transactions) /\ Registered' = Elems(transactions')
  BY DEF Registered, Elems
<1>6. Registered' = Registered /\ Distinct(transactions') /\ Sorted(height', transactions')
  <2>1. CASE t \in Registered
    <3> DEFINE r == RemoveTx(transactions, t)
    <3>1. r \in Seq(Tx)
      BY <1>3, <2>1, RemoveTxType DEF Registered
    <3>2. Elems(r) = Registered \ {t} /\ Distinct(r) /\ Sorted(height, r)
      BY <1>3, <1>5, <2>1, RemoveTxElems DEF SafeInv, ListInv
    <3> HIDE DEF r
    <3>3. Sorted(height', r)
      <4>1. \A i \in DOMAIN r : r[i] \in Tx /\ r[i] # t
        BY <3>2, <1>3 DEF Elems
      <4> QED BY <3>2, <4>1, <1>4 DEF Sorted
    <3>4. transactions' = InsertTx(height', r, t)
      BY <1>1, <2>1 DEF Resorted, r
    <3>5. Elems(transactions') = Elems(r) \cup {t} /\ Distinct(transactions')
      BY <3>1, <3>2, <3>4, <1>2, InsertTxElems
    <3>6. Sorted(height', transactions')
      BY <3>1, <3>3, <3>4, <1>2, <1>3, InsertTxSorted
    <3> QED BY <3>2, <3>5, <3>6, <1>5, <2>1
  <2>2. CASE t \notin Registered
    <3>1. transactions' = transactions
      BY <1>1, <2>2 DEF Resorted
    <3>2. \A i \in DOMAIN transactions : transactions[i] \in Tx /\ transactions[i] # t
      BY <2>2, <1>3 DEF Registered
    <3> QED BY <3>1, <3>2, <1>4, <1>5 DEF SafeInv, ListInv, Sorted
  <2> QED BY <2>1, <2>2
<1>7. InOrder'
  <2>1. ASSUME NEW p \in Registered, NEW u \in Registered, Spends(u, p)
        PROVE  height'[p] <= height'[u]
    <3>1. height[p] <= height[u]
      BY <2>1 DEF SafeInv, ListInv, InOrder
    <3>2. p \in Tx /\ u \in Tx /\ height[p] \in Nat /\ height[u] \in Nat
      BY <1>3
    <3>3. CASE u = t /\ p # t
      BY <3>3, <2>1, <1>2, <1>4, <3>2
    <3>4. CASE u = t /\ p = t
      BY <3>4, <1>2, <1>4
    <3>5. CASE u # t /\ p = t
      <4>1. Top.h <= height[p]
        BY <3>5, <1>2, <1>3
      <4> QED BY <4>1, <3>1, <3>2, <3>5, <1>2, <1>4
    <3>6. CASE u # t /\ p # t
      BY <3>6, <3>1, <3>2, <1>4
    <3> QED BY <3>3, <3>4, <3>5, <3>6
  <2> QED BY <2>1, <1>6 DEF InOrder, Spends
<1>8. Associated'
  BY <1>1, <1>6 DEF SafeInv, ListInv, Associated, ContainsTx, SpendsMine, Mine
<1>9. ListInv'
  BY <1>1, <1>6, <1>7, <1>8 DEF SafeInv, ListInv
<1>10. RemoveFrames' /\ SetFrames'
  BY <1>1, <1>4, <1>6, SetReturn DEF t
<1> QED BY <1>6, <1>9, <1>10 DEF SafeInv

LEMMA SafeSetOtherTx ==
  ASSUME SafeInv, TypeInv', SetOtherTx
  PROVE  /\ SafeInv' /\ Registered' = Registered
         /\ \A u \in Registered : height'[u] = height[u]
<1> DEFINE t == Top.tx
<1>1. Running("set") /\ ~ NothingToSet(Top) /\ Continue(<<>>)
      /\ UNCHANGED <<transactions, chainLen>>
      /\ height' = [height EXCEPT ![t] = Top.h]
      /\ allTx' \subseteq allTx /\ allTx \subseteq allTx' \cup {t}
      /\ ~ ContainsTx(t)
  BY DEF SetOtherTx, SetHeight
<1>2. t \in Tx /\ t \notin Registered
  BY <1>1, TopSet DEF SafeInv, ListInv, Associated
<1>3. height'[t] = Top.h /\ \A u \in Tx : u # t => height'[u] = height[u]
  BY <1>1, <1>2, HeightNat DEF SafeInv
<1>4. Registered' = Registered /\ Registered \subseteq Tx
  BY <1>1, HeightNat DEF Registered, SafeInv
<1>5. \A u \in Registered : height'[u] = height[u]
  BY <1>2, <1>3, <1>4
<1>6. Sorted(height', transactions')
  <2>1. \A i \in DOMAIN transactions : transactions[i] \in Registered
    BY DEF Registered
  <2> QED BY <2>1, <1>1, <1>5 DEF Sorted, SafeInv, ListInv
<1>7. InOrder'
  BY <1>4, <1>5 DEF InOrder, SafeInv, ListInv, Spends
<1>8. Associated'
  <2>1. ASSUME NEW u \in Registered PROVE ContainsTx(u)'
    <3>1. ContainsTx(u)
      BY <2>1 DEF SafeInv, ListInv, Associated
    <3>2. CASE \E a \in AddrsOf(u) : Mine(a)
      BY <3>2, <1>1 DEF ContainsTx, Mine
    <3>3. CASE \E o \in Body[u].ins : SpendsMine(o)
      <4>1. PICK o \in Body[u].ins : SpendsMine(o)
        BY <3>3
      <4>2. o.tx # t
        BY <4>1, <1>1 DEF SpendsMine, ContainsTx, AddrsOf, OutputOf
      <4>3. SpendsMine(o)'
        BY <4>1, <4>2, <1>1 DEF SpendsMine, Mine
      <4> QED BY <4>3 DEF ContainsTx
    <3> QED BY <3>1, <3>2, <3>3 DEF ContainsTx
  <2> QED BY <2>1, <1>4 DEF Associated
<1>9. ListInv'
  BY <1>1, <1>2, <1>4, <1>6, <1>7, <1>8 DEF SafeInv, ListInv
<1>10. RemoveFrames' /\ SetFrames'
  BY <1>1, <1>3, <1>4, SetReturn
<1> QED BY <1>4, <1>5, <1>9, <1>10 DEF SafeInv

\* The walk back finds everything confirmed above the join.
LEMMA FoundAfter ==
  ASSUME TypeInv, ListInv, NEW h \in Nat
  PROVE  ConfirmedAfter(h) = {t \in Registered : height[t] > h}
<1>1. /\ Len(transactions) \in Nat /\ DOMAIN transactions = 1 .. Len(transactions)
      /\ \A i \in DOMAIN transactions : height[transactions[i]] \in Nat
  BY LenProperties, ElementOfSeq, HeightNat DEF TypeInv, HoldingsType
<1>2. \A i \in DOMAIN transactions :
        height[transactions[i]] > h
          => \A k \in i .. Len(transactions) : height[transactions[k]] > h
  <2>1. ASSUME NEW i \in DOMAIN transactions, height[transactions[i]] > h,
               NEW k \in i .. Len(transactions)
        PROVE  height[transactions[k]] > h
    <3>1. k \in DOMAIN transactions /\ i \in DOMAIN transactions /\ (i = k \/ i < k)
      BY <1>1, <2>1
    <3>2. height[transactions[i]] <= height[transactions[k]]
      BY <3>1, <1>1 DEF ListInv, Sorted
    <3>3. height[transactions[i]] \in Nat /\ height[transactions[k]] \in Nat
      BY <3>1, <1>1
    <3> QED BY <2>1, <3>2, <3>3
  <2> QED BY <2>1
<1>3. \A i \in DOMAIN transactions :
        (\A k \in i .. Len(transactions) : height[transactions[k]] > h)
          => height[transactions[i]] > h
  BY <1>1
<1> QED BY <1>2, <1>3 DEF ConfirmedAfter, Registered

LEMMA SafeReorganise ==
  ASSUME SafeInv, TypeInv', NEW h \in Heights \cup {0}, SetTxUnconfirmedAfter(h)
  PROVE  /\ SafeInv' /\ Registered' = Registered
         /\ \A t \in Registered :
              height'[t] = IF height[t] > h THEN TX_UNCONFIRMED ELSE height[t]
<1> DEFINE after == ConfirmedAfter(h)
<1>1. h \in Nat
  BY HeightAssumption
<1>2. after = {t \in Registered : height[t] > h}
  BY <1>1, FoundAfter DEF SafeInv
<1>3. UNCHANGED <<allTx, transactions, chainLen>> /\ Idle
      /\ height' = [t \in Tx |-> IF t \in after THEN TX_UNCONFIRMED ELSE height[t]]
      /\ todo' = IF after = {} THEN <<>>
                 ELSE <<Recount, Frame("updated", "unknown", TX_UNCONFIRMED, 0)>>
  BY DEF SetTxUnconfirmedAfter, Start
<1> HIDE DEF after
<1>4. /\ height \in [Tx -> Nat] /\ TX_UNCONFIRMED \in Nat
      /\ \A u \in Tx : height[u] <= TX_UNCONFIRMED
      /\ Registered \subseteq Tx
  BY HeightNat DEF SafeInv
<1>5. Registered' = Registered
  BY <1>3 DEF Registered
<1>6. \A t \in Registered :
        height'[t] = IF height[t] > h THEN TX_UNCONFIRMED ELSE height[t]
  BY <1>2, <1>3, <1>4
<1>7. \A t, u \in Registered : height[t] <= height[u] => height'[t] <= height'[u]
  <2>1. ASSUME NEW t \in Registered, NEW u \in Registered, height[t] <= height[u]
        PROVE  height'[t] <= height'[u]
    <3>1. height[t] \in Nat /\ height[u] \in Nat /\ height[t] <= TX_UNCONFIRMED
          /\ height[u] <= TX_UNCONFIRMED
      BY <1>4
    <3> QED BY <2>1, <3>1, <1>1, <1>4, <1>6
  <2> QED BY <2>1
<1>8. Sorted(height', transactions')
  <2>1. \A i \in DOMAIN transactions : transactions[i] \in Registered
    BY DEF Registered
  <2> QED BY <2>1, <1>3, <1>7 DEF Sorted, SafeInv, ListInv
<1>9. InOrder'
  BY <1>5, <1>7 DEF InOrder, SafeInv, ListInv, Spends
<1>10. Associated'
  BY <1>3, <1>5 DEF SafeInv, ListInv, Associated, ContainsTx, SpendsMine, Mine
<1>11. ListInv'
  BY <1>3, <1>5, <1>8, <1>9, <1>10 DEF SafeInv, ListInv
<1>12. \A i \in DOMAIN todo' : todo'[i].op \notin {"set", "remove"}
  BY <1>3, EmptySeq DEF Recount, Frame
<1>13. RemoveFrames' /\ SetFrames'
  BY <1>12 DEF RemoveFrames, SetFrames
<1> QED BY <1>5, <1>6, <1>11, <1>13 DEF SafeInv

LEMMA SafeStep ==
  ASSUME ~ OutOfOrder, SafeInv, [Next]_vars
  PROVE  SafeInv'
<1>1. TypeInv'
  BY TypeStep DEF SafeInv
<1>2. CASE UNCHANGED vars \/ Tick
  BY <1>1, <1>2, SafeQuiet
<1>3. CASE Work
  BY <1>1, <1>3, SafeQuiet, SafeChains, SafeRemoveDependants, SafeRemoveTransaction,
     SafeSkip, SafeSetWalletTx, SafeSetOtherTx DEF Work
<1>4. CASE Register
  BY <1>1, <1>4, SafeRegister DEF Register
<1>5. ASSUME NEW t \in Tx, StartRemove(t) PROVE SafeInv'
  BY <1>1, <1>5, SafeStartRemove
<1>6. ASSUME NEW txs \in Blocks, NEW h \in Heights, NEW ts \in Stamps,
             ConfirmTxs(txs, h, ts)
      PROVE  SafeInv'
  <2>1. txs \in Seq(Tx) /\ UpdateTransactions(txs, h, ts) /\ ChainAccepts(txs, h)
    BY <1>6, TxAssumption DEF ConfirmTxs
  <2> QED BY <1>1, <2>1, SafeUpdate DEF ChainAccepts
<1>7. ASSUME NEW t \in Tx, NEW ts \in Stamps \cup {0},
             height[t] = TX_UNCONFIRMED, UpdateTransactions(<<t>>, TX_UNCONFIRMED, ts)
      PROVE  SafeInv'
  <2>1. <<t>> \in Seq(Tx) /\ DOMAIN <<t>> = {1} /\ <<t>>[1] = t
    OBVIOUS
  <2> QED BY <1>1, <1>7, <2>1, SafeUpdate
<1>8. ASSUME NEW h \in Heights \cup {0}, SetTxUnconfirmedAfter(h) PROVE SafeInv'
  BY <1>1, <1>8, SafeReorganise
<1>9. CASE LoadFilterAddrs \/ \E c \in Chains : NextAddress(c)
  BY <1>1, <1>9, SafeChains
<1>10. (\E t \in Tx, ts \in Stamps : MarkVerified(t, ts)) \/ (\E t \in Tx : MarkUnverified(t))
         => SafeInv'
  BY <1>7 DEF MarkVerified, MarkUnverified
<1> QED BY <1>2, <1>3, <1>4, <1>5, <1>6, <1>8, <1>9, <1>10 DEF Next

LEMMA SafeAlways == ~ OutOfOrder /\ Spec => []SafeInv
<1> SUFFICES ASSUME ~ OutOfOrder PROVE Spec => []SafeInv
  OBVIOUS
<1>1. SafeInv /\ [Next]_vars => SafeInv'
  BY SafeStep
<1> QED BY <1>1, SafeInit, PTL DEF Spec

-----------------------------------------------------------------------------
(***************************************************************************)
(* What follows, for every set of transactions, heights and gap limits.    *)
(***************************************************************************)
\* When transactions confirm after what they spend, the list is sorted by
\* height between any two steps of _BRWalletInsertTx and its callers.
THEOREM OldestFirstHolds == ~ OutOfOrder /\ Spec => []OldestFirst
<1>1. SafeInv => OldestFirst
  BY DEF SafeInv, ListInv, Sorted, OldestFirst
<1> QED BY <1>1, SafeAlways, PTL

\* No transaction is listed twice, or still listed after it was freed.
THEOREM NoDanglingHolds == ~ OutOfOrder /\ Spec => []NoDangling
<1>1. SafeInv => NoDangling
  BY DEF SafeInv, ListInv, Distinct, NoDangling
<1> QED BY <1>1, SafeAlways, PTL

\* Whatever BRWalletUpdateTransactions and BRWalletSetTxUnconfirmedAfter do,
\* nothing listed is below what it spends.
THEOREM ParentsFirstHolds == ~ OutOfOrder /\ Spec => []ParentsFirst
<1>1. SafeInv => ParentsFirst
  BY DEF SafeInv, ListInv, InOrder, ParentsFirst, Ledger!ParentsFirst, Ledger!Held
<1> QED BY <1>1, SafeAlways, PTL

\* the transactions that are listed, for each kind of step
LEMMA ListedStep ==
  ASSUME ~ OutOfOrder, SafeInv, [Next]_vars
  PROVE  \/ Registered' = Registered
         \/ \E t \in Tx, ts \in Stamps \cup {0} :
              RegisterWalletTx(t, ts) /\ Registered' = Registered \cup {t}
         \/ RemoveTransaction
<1>1. CASE RemoveTransaction
  BY <1>1
<1>2. CASE SetWalletTx
  <2>1. TypeInv'
    BY TypeStep DEF SafeInv
  <2> QED BY <1>2, <2>1, SafeSetWalletTx
<1>3. ASSUME NEW t \in Tx, NEW ts \in Stamps \cup {0}, RegisterWalletTx(t, ts)
      PROVE  Registered' = Registered \cup {t}
  <2>1. transactions' = InsertTx(height', transactions, t) /\ transactions \in Seq(Tx)
    BY <1>3 DEF RegisterWalletTx, SafeInv, TypeInv, HoldingsType
  <2>2. Registered = Elems(transactions) /\ Registered' = Elems(transactions')
    BY DEF Registered, Elems
  <2> QED BY <2>1, <2>2, InsertTxElems
<1>4. ASSUME ~ RemoveTransaction, ~ SetWalletTx,
             ~ \E t \in Tx, ts \in Stamps \cup {0} : RegisterWalletTx(t, ts)
      PROVE  UNCHANGED transactions
  BY <1>4 DEF Next, Work, Register, vars, holdings, StartCount, Count, CountInvalid,
     CountPending, CountOutputs, EndCount, UnusedAddrs, RemoveUnknown, RemoveDependants,
     SkipTx, SetOtherTx, EndSet, TellAdded, TellRemoved, TellUpdated, StartRemove,
     ConfirmTxs, MarkVerified, MarkUnverified, UpdateTransactions,
     SetTxUnconfirmedAfter, LoadFilterAddrs, NextAddress, Tick, RegisterOtherTx
<1> QED BY <1>1, <1>2, <1>3, <1>4 DEF Registered

\* BRWalletRemoveTransaction gives up a transaction only when nothing in the
\* wallet spends it any more.
THEOREM DependantsFirstHolds == ~ OutOfOrder /\ Spec => DependantsFirst
<1> SUFFICES ASSUME ~ OutOfOrder PROVE Spec => DependantsFirst
  OBVIOUS
<1>1. ASSUME SafeInv, [Next]_vars
      PROVE  \A t \in Registered \ Registered' : ~ \E u \in Registered' : Spends(u, t)
  <2>1. CASE RemoveTransaction
    BY <2>1, <1>1, Removable
  <2>2. CASE ~ RemoveTransaction
    BY <2>2, <1>1, ListedStep
  <2> QED BY <2>1, <2>2
<1>2. SafeInv /\ [Next]_vars
        => [\A t \in Registered \ Registered' : ~ \E u \in Registered' : Spends(u, t)]_vars
  BY <1>1
<1> QED BY <1>2, SafeAlways, PTL DEF Spec, DependantsFirst

-----------------------------------------------------------------------------
(***************************************************************************)
(* The wallet implements the ledger.                                       *)
(***************************************************************************)
confOf == [t \in Registered |-> height[t]]

LEMMA LedgerInit == Init => Ledger!Init
<1> SUFFICES ASSUME Init PROVE Ledger!Init
  OBVIOUS
<1>1. Registered = {}
  BY EmptySeq DEF Init, Registered
<1> QED BY <1>1 DEF Ledger!Init

LEMMA LedgerAdd ==
  ASSUME ~ OutOfOrder, SafeInv, NEW t \in Tx, NEW ts \in Stamps \cup {0},
         RegisterWalletTx(t, ts), Registered' = Registered \cup {t}
  PROVE  Ledger!Add(t)
<1>1. /\ t \notin allTx /\ height' = [height EXCEPT ![t] = TX_UNCONFIRMED]
      /\ \A u \in Registered : Spends(u, t) => height[u] = TX_UNCONFIRMED
  BY DEF RegisterWalletTx, Learn, Relayable
<1>2. t \notin Registered /\ Registered \subseteq Tx /\ height \in [Tx -> Nat]
  BY <1>1, HeightNat DEF SafeInv, ListInv
<1>3. confOf' = [u \in Registered \cup {t} |->
                   IF u = t THEN TX_UNCONFIRMED ELSE confOf[u]]
  BY <1>1, <1>2 DEF confOf
<1> QED BY <1>1, <1>2, <1>3 DEF Ledger!Add, Ledger!Held, confOf

LEMMA LedgerDrop ==
  ASSUME SafeInv, RemoveTransaction
  PROVE  \E t \in Tx : Ledger!Drop(t)
<1>1. PICK t \in Tx : t = Top.tx
  BY Removable, HeightNat DEF SafeInv
<1>2. /\ t \in Registered /\ height[t] = TX_UNCONFIRMED
      /\ Registered' = Registered \ {t}
      /\ \A u \in Registered' : ~ Spends(u, t)
      /\ UNCHANGED height
  BY <1>1, Removable DEF RemoveTransaction
<1>3. ~ Spends(t, t)
  BY TxAssumption DEF Spends
<1>4. confOf' = [u \in Registered \ {t} |-> confOf[u]]
  BY <1>2 DEF confOf
<1>5. Ledger!Drop(t)
  BY <1>2, <1>3, <1>4 DEF Ledger!Drop, Ledger!Held, confOf
<1> QED BY <1>5

LEMMA LedgerConfirm ==
  ASSUME SafeInv, SetWalletTx
  PROVE  (\E t \in Tx, h \in Heights : Ledger!Confirm(t, h)) \/ UNCHANGED confOf
<1>1. Running("set") /\ ~ NothingToSet(Top)
      /\ height' = [height EXCEPT ![Top.tx] = Top.h]
  BY DEF SetWalletTx, SetHeight
<1>2. PICK t \in Tx, h \in HeightsOrUnconfirmed : t = Top.tx /\ h = Top.h
  BY <1>1, TopType, TypeInvOK DEF Running, SafeInv
<1>3. /\ height[t] \in {h, TX_UNCONFIRMED}
      /\ \A u \in Registered : Spends(t, u) => height[u] <= h
      /\ Registered \subseteq Tx /\ height \in [Tx -> Nat]
  BY <1>1, <1>2, TopSet, HeightNat DEF SafeInv
<1>4. Registered' = Registered
  <2>1. TypeInv'
    BY TypeSet DEF SafeInv
  <2> QED BY <2>1, SafeSetWalletTx
<1>5. CASE height[t] = h \/ t \notin Registered
  <2>1. \A u \in Registered : height'[u] = height[u]
    BY <1>1, <1>2, <1>3, <1>5
  <2> QED BY <2>1, <1>4 DEF confOf
<1>6. CASE height[t] # h /\ t \in Registered
  <2>1. h \in Heights /\ height[t] = TX_UNCONFIRMED
    BY <1>3, <1>6 DEF HeightsOrUnconfirmed
  <2>2. confOf' = [confOf EXCEPT ![t] = h]
    BY <1>1, <1>2, <1>3, <1>4, <1>6 DEF confOf
  <2>3. Ledger!Confirm(t, h)
    BY <2>1, <2>2, <1>3, <1>6 DEF Ledger!Confirm, Ledger!Held, confOf
  <2> QED BY <2>1, <2>3
<1> QED BY <1>5, <1>6

LEMMA LedgerReorganise ==
  ASSUME SafeInv, NEW h \in Heights \cup {0}, SetTxUnconfirmedAfter(h)
  PROVE  Ledger!Reorganise(h)
<1>1. TypeInv'
  BY TypeReorganise DEF SafeInv
<1>2. /\ Registered' = Registered
      /\ \A t \in Registered :
           height'[t] = IF height[t] > h THEN TX_UNCONFIRMED ELSE height[t]
  BY <1>1, SafeReorganise
<1>3. confOf' = [t \in Registered |->
                   IF confOf[t] > h THEN TX_UNCONFIRMED ELSE confOf[t]]
  BY <1>2 DEF confOf
<1> QED BY <1>3 DEF Ledger!Reorganise, Ledger!Held, confOf

\* Every other step leaves the transactions listed, and their heights, alone.
LEMMA LedgerStutter ==
  ASSUME ~ OutOfOrder, SafeInv, [Next]_vars, ~ RemoveTransaction, ~ SetWalletTx,
         ~ \E h \in Heights \cup {0} : SetTxUnconfirmedAfter(h),
         ~ \E t \in Tx, ts \in Stamps \cup {0} : RegisterWalletTx(t, ts)
  PROVE  UNCHANGED confOf
<1>1. Registered' = Registered
  BY ListedStep
<1>2. CASE SetOtherTx
  <2>1. TypeInv'
    BY <1>2, TypeSet DEF SafeInv
  <2> QED BY <1>2, <2>1, SafeSetOtherTx DEF confOf
<1>3. ASSUME NEW t \in Tx, NEW ts \in Stamps \cup {0}, RegisterOtherTx(t, ts)
      PROVE  \A u \in Registered : height'[u] = height[u]
  <2>1. t \notin Registered /\ Registered \subseteq Tx
    BY <1>3, HeightNat DEF RegisterOtherTx, Learn, SafeInv, ListInv
  <2> QED BY <1>3, <2>1, HeightNat DEF RegisterOtherTx, Learn, SafeInv
<1>4. ASSUME ~ SetOtherTx,
             ~ \E t \in Tx, ts \in Stamps \cup {0} : RegisterOtherTx(t, ts)
      PROVE  UNCHANGED height
  BY <1>4 DEF Next, Work, Register, vars, holdings, StartCount, Count, CountInvalid,
     CountPending, CountOutputs, EndCount, UnusedAddrs, RemoveUnknown, RemoveDependants,
     SkipTx, EndSet, TellAdded, TellRemoved, TellUpdated, StartRemove,
     ConfirmTxs, MarkVerified, MarkUnverified, UpdateTransactions,
     LoadFilterAddrs, NextAddress, Tick
<1> QED BY <1>1, <1>2, <1>3, <1>4 DEF confOf

LEMMA LedgerStep ==
  ASSUME ~ OutOfOrder, SafeInv, [Next]_vars
  PROVE  Ledger!Next \/ UNCHANGED confOf
<1>1. CASE \E t \in Tx, ts \in Stamps \cup {0} : RegisterWalletTx(t, ts)
  <2>1. PICK t \in Tx, ts \in Stamps \cup {0} : RegisterWalletTx(t, ts)
    BY <1>1
  <2>2. transactions' = InsertTx(height', transactions, t) /\ transactions \in Seq(Tx)
    BY <2>1 DEF RegisterWalletTx, SafeInv, TypeInv, HoldingsType
  <2>3. Registered = Elems(transactions) /\ Registered' = Elems(transactions')
    BY DEF Registered, Elems
  <2>4. Registered' = Registered \cup {t}
    BY <2>2, <2>3, InsertTxElems
  <2> QED BY <2>1, <2>4, LedgerAdd DEF Ledger!Next
<1>2. CASE RemoveTransaction
  BY <1>2, LedgerDrop DEF Ledger!Next
<1>3. CASE SetWalletTx
  BY <1>3, LedgerConfirm DEF Ledger!Next
<1>4. CASE \E h \in Heights \cup {0} : SetTxUnconfirmedAfter(h)
  BY <1>4, LedgerReorganise DEF Ledger!Next
<1> QED BY <1>1, <1>2, <1>3, <1>4, LedgerStutter

\* The wallet, with its list, its frames and its callbacks, does nothing to the
\* transactions it holds that the ledger does not allow.
THEOREM LedgerImplemented == ~ OutOfOrder /\ Spec => LedgerSpec
<1> SUFFICES ASSUME ~ OutOfOrder PROVE Spec => LedgerSpec
  OBVIOUS
<1>1. SafeInv /\ [Next]_vars => [Ledger!Next]_confOf
  BY LedgerStep
<1> QED BY <1>1, LedgerInit, SafeAlways, PTL DEF Spec, LedgerSpec, Ledger!Spec, confOf

-----------------------------------------------------------------------------
(***************************************************************************)
(* The books of the wallet: what _BRWalletUpdateBalance makes of the list  *)
(* of transactions, and what the rest of the wallet may rely on while the  *)
(* lock is free; the conflicts it has told apart; and the addresses that   *)
(* are left for the next payments.                                         *)
(***************************************************************************)
-----------------------------------------------------------------------------
(***************************************************************************)
(* Amounts.  The library sums a set by a function defined by recursion     *)
(* over its subsets.  That there is one, and what its values are, follows  *)
(* from a set of finite sets having a smallest one.                        *)
(***************************************************************************)
Worth(o) == OutputOf(o).amount
Pick(S) == CHOOSE x \in S : TRUE

Sums(g, S) ==
  g = [s \in SUBSET S |-> IF s = {} THEN 0 ELSE Worth(Pick(s)) + g[s \ {Pick(s)}]]

LEMMA SmallestSet ==
  ASSUME NEW C, C # {}, \A S \in C : IsFiniteSet(S)
  PROVE  \E S \in C : \A T \in C : Cardinality(S) <= Cardinality(T)
<1> DEFINE N == {Cardinality(S) : S \in C}
<1>1. N \subseteq Nat /\ N # {}
  BY FS_CardinalityType
<1>2. Min(N) \in N /\ \A n \in N : Min(N) <= n
  <2> HIDE DEF N
  <2> QED BY <1>1, LeastNat
<1> QED BY <1>2

\* Every subset that is smaller than all that are bad is good.
LEMMA Smaller ==
  ASSUME NEW S, IsFiniteSet(S), NEW x \in S
  PROVE  IsFiniteSet(S \ {x}) /\ ~ (Cardinality(S) <= Cardinality(S \ {x}))
<1>1. /\ IsFiniteSet(S \ {x}) /\ Cardinality(S \ {x}) = Cardinality(S) - 1
      /\ Cardinality(S) \in Nat
  BY FS_RemoveElement, FS_CardinalityType
<1> QED BY <1>1

LEMMA Picked ==
  ASSUME NEW S, S # {}
  PROVE  Pick(S) \in S
BY DEF Pick

LEMMA SumsUnique ==
  ASSUME NEW S, IsFiniteSet(S), NEW g, NEW h, Sums(g, S), Sums(h, S)
  PROVE  g = h
<1> DEFINE Bad == {s \in SUBSET S : g[s] # h[s]}
<1>1. \A s \in Bad : IsFiniteSet(s)
  BY FS_Subset
<1>2. ASSUME Bad # {} PROVE FALSE
  <2>1. PICK s \in Bad : \A t \in Bad : Cardinality(s) <= Cardinality(t)
    <3> HIDE DEF Bad
    <3> QED BY <1>1, <1>2, SmallestSet
  <2>2. s # {}
    BY <2>1 DEF Sums
  <2> DEFINE r == s \ {Pick(s)}
  <2>3. r \in SUBSET S /\ r \notin Bad
    BY <1>1, <2>1, <2>2, Picked, Smaller
  <2>4. g[s] = Worth(Pick(s)) + g[r] /\ h[s] = Worth(Pick(s)) + h[r]
    BY <2>1, <2>2 DEF Sums
  <2> QED BY <2>1, <2>3, <2>4
<1>3. g = [s \in SUBSET S |-> g[s]] /\ h = [s \in SUBSET S |-> h[s]]
  BY DEF Sums
<1> QED BY <1>2, <1>3

LEMMA SumsWithin ==
  ASSUME NEW S, NEW g, Sums(g, S), NEW T \in SUBSET S
  PROVE  Sums([s \in SUBSET T |-> g[s]], T)
<1> DEFINE h == [s \in SUBSET T |-> g[s]]
<1>1. \A s \in SUBSET T : h[s] = g[s] /\ s \in SUBSET S /\ s \ {Pick(s)} \in SUBSET T
  OBVIOUS
<1>2. \A s \in SUBSET T : g[s] = IF s = {} THEN 0 ELSE Worth(Pick(s)) + g[s \ {Pick(s)}]
  BY <1>1 DEF Sums
<1>3. \A s \in SUBSET T : h[s] = IF s = {} THEN 0 ELSE Worth(Pick(s)) + h[s \ {Pick(s)}]
  BY <1>1, <1>2
<1> QED BY <1>3 DEF Sums

LEMMA AmountChosen ==
  ASSUME NEW S
  PROVE  Amount(S) = (CHOOSE g : Sums(g, S))[S]
BY DEF Amount, MapThenSumSet, MapThenFoldSet, Sums, Worth, Pick

\* The function that sums S sums every subset of S as that is summed.
LEMMA AmountWithin ==
  ASSUME NEW S, IsFiniteSet(S), NEW g, Sums(g, S), NEW T \in SUBSET S
  PROVE  g[T] = Amount(T)
<1> DEFINE h == [s \in SUBSET T |-> g[s]]
<1>1. Sums(h, T) /\ IsFiniteSet(T)
  BY SumsWithin, FS_Subset
<1>2. Sums(CHOOSE f : Sums(f, T), T)
  BY <1>1
<1>3. h = CHOOSE f : Sums(f, T)
  BY <1>1, <1>2, SumsUnique
<1>4. h[T] = g[T]
  OBVIOUS
<1> QED BY <1>3, <1>4, AmountChosen

LEMMA SumsExist ==
  ASSUME NEW S, IsFiniteSet(S)
  PROVE  \E g : Sums(g, S)
<1> DEFINE Bad == {T \in SUBSET S : ~ \E g : Sums(g, T)}
<1>1. \A T \in SUBSET S : IsFiniteSet(T)
  BY FS_Subset
<1>2. ASSUME Bad # {} PROVE FALSE
  <2>1. PICK T \in Bad : \A s \in Bad : Cardinality(T) <= Cardinality(s)
    <3>1. \A s \in Bad : IsFiniteSet(s)
      BY <1>1
    <3> HIDE DEF Bad
    <3> QED BY <1>2, <3>1, SmallestSet
  <2> DEFINE g == [s \in SUBSET T |-> IF s = {} THEN 0
                                      ELSE Worth(Pick(s)) + Amount(s \ {Pick(s)})]
  <2>2. ASSUME NEW s \in SUBSET T, s # {}
        PROVE  g[s \ {Pick(s)}] = Amount(s \ {Pick(s)})
    <3> DEFINE r == s \ {Pick(s)}
    <3>1. r \in SUBSET T /\ r # T
      BY <2>2, Picked
    <3>2. IsFiniteSet(T) /\ IsFiniteSet(r) /\ Cardinality(r) < Cardinality(T)
      <4>1. IsFiniteSet(T) /\ IsFiniteSet(r)
        BY <1>1, <2>1, <3>1
      <4>2. Cardinality(r) <= Cardinality(T) /\ Cardinality(r) # Cardinality(T)
        BY <3>1, <4>1, FS_Subset
      <4> HIDE DEF r
      <4> QED BY <4>1, <4>2, FS_CardinalityType
    <3>3. r \notin Bad /\ r \in SUBSET S
      <4>1. Cardinality(r) \in Nat /\ Cardinality(T) \in Nat
        BY <3>2, FS_CardinalityType
      <4>2. ~ (Cardinality(T) <= Cardinality(r))
        BY <3>2, <4>1
      <4> QED BY <2>1, <3>1, <4>2
    <3>4. PICK f : Sums(f, r)
      BY <3>3
    <3> HIDE DEF r
    <3>5. f[r] = Amount(r)
      BY <3>2, <3>4, AmountWithin
    <3>6. CASE r = {}
      <4>1. f[r] = 0
        BY <3>4, <3>6 DEF Sums
      <4> QED BY <3>1, <3>5, <3>6, <4>1 DEF r
    <3>7. CASE r # {}
      <4>1. r \ {Pick(r)} \in SUBSET r
        OBVIOUS
      <4>2. f[r] = Worth(Pick(r)) + f[r \ {Pick(r)}]
        BY <3>4, <3>7 DEF Sums
      <4>3. f[r \ {Pick(r)}] = Amount(r \ {Pick(r)})
        BY <3>2, <3>4, <4>1, AmountWithin
      <4> QED BY <3>1, <3>5, <3>7, <4>2, <4>3 DEF r
    <3> QED BY <3>6, <3>7
  <2>3. Sums(g, T)
    <3>1. g = [s \in SUBSET T |-> IF s = {} THEN 0
                                  ELSE Worth(Pick(s)) + g[s \ {Pick(s)}]]
      <4> DEFINE a(s) == Amount(s \ {Pick(s)})
      <4>1. \A s \in SUBSET T : s # {} => g[s \ {Pick(s)}] = a(s)
        BY <2>2
      <4> DEFINE h == [s \in SUBSET T |-> IF s = {} THEN 0
                                          ELSE Worth(Pick(s)) + g[s \ {Pick(s)}]]
      <4>2. \A s \in SUBSET T : h[s] = IF s = {} THEN 0 ELSE Worth(Pick(s)) + a(s)
        <5> HIDE DEF g, a
        <5> QED BY <4>1
      <4>3. \A s \in SUBSET T : h[s] = g[s]
        BY <4>2
      <4>4. g = [s \in SUBSET T |-> g[s]] /\ h = [s \in SUBSET T |-> h[s]]
        OBVIOUS
      <4> HIDE DEF g, h
      <4>5. g = h
        BY <4>3, <4>4
      <4> QED BY <4>5 DEF h
    <3> QED BY <3>1 DEF Sums
  <2> QED BY <2>1, <2>3
<1>3. S \notin Bad
  BY <1>2
<1> QED BY <1>3

\* What a set is worth, an output at a time.
LEMMA AmountStep ==
  ASSUME NEW S, IsFiniteSet(S)
  PROVE  Amount(S) = IF S = {} THEN 0 ELSE Worth(Pick(S)) + Amount(S \ {Pick(S)})
<1>1. PICK g : Sums(g, S)
  BY SumsExist
<1>2. S \in SUBSET S /\ S \ {Pick(S)} \in SUBSET S
  OBVIOUS
<1>3. g[S] = Amount(S) /\ g[S \ {Pick(S)}] = Amount(S \ {Pick(S)})
  BY <1>1, <1>2, AmountWithin
<1>4. g[S] = IF S = {} THEN 0 ELSE Worth(Pick(S)) + g[S \ {Pick(S)}]
  BY <1>1, <1>2 DEF Sums
<1> QED BY <1>3, <1>4

Priced(S) == IsFiniteSet(S) /\ \A o \in S : Worth(o) \in Nat

LEMMA PricedWithin ==
  ASSUME NEW S, Priced(S), NEW T, T \subseteq S
  PROVE  Priced(T)
BY FS_Subset DEF Priced

LEMMA AmountEmpty == Amount({}) = 0
BY AmountStep, FS_EmptySet

LEMMA AmountNat ==
  ASSUME NEW S, Priced(S)
  PROVE  Amount(S) \in Nat
<1> DEFINE Bad == {T \in SUBSET S : Amount(T) \notin Nat}
<1>1. \A T \in SUBSET S : IsFiniteSet(T)
  BY FS_Subset DEF Priced
<1>2. ASSUME Bad # {} PROVE FALSE
  <2>1. PICK T \in Bad : \A s \in Bad : Cardinality(T) <= Cardinality(s)
    <3>1. \A s \in Bad : IsFiniteSet(s)
      BY <1>1
    <3> HIDE DEF Bad
    <3> QED BY <1>2, <3>1, SmallestSet
  <2>2. T # {}
    BY <2>1, AmountEmpty
  <2> DEFINE r == T \ {Pick(T)}
  <2>3. Pick(T) \in S /\ r \in SUBSET S /\ r \notin Bad
    BY <1>1, <2>1, <2>2, Picked, Smaller
  <2>4. Amount(T) = Worth(Pick(T)) + Amount(r)
    BY <1>1, <2>1, <2>2, AmountStep
  <2>5. Worth(Pick(T)) \in Nat /\ Amount(r) \in Nat
    BY <2>3 DEF Priced
  <2> HIDE DEF r
  <2> QED BY <2>1, <2>4, <2>5
<1> QED BY <1>2

\* It does not matter which output is counted first.
LEMMA AmountLess ==
  ASSUME NEW S, Priced(S), NEW x \in S
  PROVE  Amount(S) = Worth(x) + Amount(S \ {x})
<1> DEFINE Bad == {T \in SUBSET S : \E y \in T : Amount(T) # Worth(y) + Amount(T \ {y})}
<1>1. \A T \in SUBSET S : IsFiniteSet(T) /\ Priced(T)
  BY FS_Subset, PricedWithin DEF Priced
<1>2. ASSUME Bad # {} PROVE FALSE
  <2>1. PICK T \in Bad : \A s \in Bad : Cardinality(T) <= Cardinality(s)
    <3>1. \A s \in Bad : IsFiniteSet(s)
      BY <1>1
    <3> HIDE DEF Bad
    <3> QED BY <1>2, <3>1, SmallestSet
  <2>2. PICK y \in T : Amount(T) # Worth(y) + Amount(T \ {y})
    BY <2>1
  <2> DEFINE c == Pick(T)
  <2>3. c \in T /\ T \in SUBSET S
    BY <2>1, <2>2, Picked
  <2>4. Amount(T) = Worth(c) + Amount(T \ {c})
    BY <1>1, <2>3, AmountStep
  <2> HIDE DEF c
  <2>5. c # y
    BY <2>2, <2>4
  <2>6. T \ {c} \notin Bad /\ T \ {y} \notin Bad
    BY <1>1, <2>1, <2>3, Smaller
  <2> DEFINE U == (T \ {c}) \ {y}
  <2>7. Amount(T \ {c}) = Worth(y) + Amount(U)
    BY <2>3, <2>5, <2>6
  <2>8. Amount(T \ {y}) = Worth(c) + Amount(U)
    <3>1. (T \ {y}) \ {c} = U
      OBVIOUS
    <3>2. Amount(T \ {y}) = Worth(c) + Amount((T \ {y}) \ {c})
      BY <2>3, <2>5, <2>6
    <3> QED BY <3>1, <3>2
  <2>9. Worth(y) \in Nat /\ Worth(c) \in Nat /\ Amount(U) \in Nat
    <3>1. U \in SUBSET S
      BY <2>3
    <3> HIDE DEF U
    <3> QED BY <2>2, <2>3, <3>1, <1>1, AmountNat DEF Priced
  <2> HIDE DEF U
  <2> QED BY <2>2, <2>4, <2>7, <2>8, <2>9
<1>3. S \notin Bad
  BY <1>2
<1> QED BY <1>3

LEMMA AmountSplit ==
  ASSUME NEW S, Priced(S), NEW T \in SUBSET S
  PROVE  Amount(S) = Amount(S \ T) + Amount(T)
<1> DEFINE Bad == {s \in SUBSET S : Amount(S) # Amount(S \ s) + Amount(s)}
<1>1. \A s \in SUBSET S : IsFiniteSet(s) /\ Priced(s)
  BY FS_Subset, PricedWithin DEF Priced
<1>2. ASSUME Bad # {} PROVE FALSE
  <2>1. PICK s \in Bad : \A r \in Bad : Cardinality(s) <= Cardinality(r)
    <3>1. \A r \in Bad : IsFiniteSet(r)
      BY <1>1
    <3> HIDE DEF Bad
    <3> QED BY <1>2, <3>1, SmallestSet
  <2>2. s # {}
    <3>1. S \ {} = S /\ Amount(S) \in Nat
      BY AmountNat
    <3> QED BY <2>1, <3>1, AmountEmpty
  <2>3. PICK x \in s : TRUE
    BY <2>2
  <2> DEFINE r == s \ {x}
  <2>4. r \in SUBSET S /\ r \notin Bad
    BY <1>1, <2>1, Smaller
  <2>5. Amount(S) = Amount(S \ r) + Amount(r)
    BY <2>4
  <2>6. x \in S \ r /\ S \ r \in SUBSET S /\ (S \ r) \ {x} = S \ s
    BY <2>1
  <2>7. Amount(S \ r) = Worth(x) + Amount(S \ s)
    BY <1>1, <2>6, AmountLess
  <2>8. Amount(s) = Worth(x) + Amount(r)
    BY <1>1, <2>1, AmountLess
  <2>9. Worth(x) \in Nat /\ Amount(S \ s) \in Nat /\ Amount(r) \in Nat
    <3>1. S \ s \in SUBSET S
      OBVIOUS
    <3> QED BY <1>1, <2>1, <2>4, <3>1, AmountNat DEF Priced
  <2> HIDE DEF r
  <2> QED BY <2>1, <2>5, <2>7, <2>8, <2>9
<1> QED BY <1>2

\* Worth of the outputs that come and go when one transaction is counted.
Exchanged(S, N, X) ==
  /\ Priced((S \cup N) \ X)
  /\ Amount(S) + Amount(N) - Amount((S \cup N) \cap X) = Amount((S \cup N) \ X)

LEMMA AmountChange ==
  ASSUME NEW S, NEW N, Priced(S), Priced(N), S \cap N = {}, NEW X
  PROVE  Exchanged(S, N, X)
<1> DEFINE A == S \cup N
<1>1. Priced(A)
  <2>1. IsFiniteSet(A)
    BY FS_Union DEF Priced
  <2> QED BY <2>1 DEF Priced
<1>2. Amount(A) = Amount(S) + Amount(N)
  <2>1. N \in SUBSET A /\ A \ N = S
    OBVIOUS
  <2> HIDE DEF A
  <2>2. Amount(A) = Amount(A \ N) + Amount(N)
    BY <1>1, <2>1, AmountSplit
  <2> QED BY <2>1, <2>2
<1>3. Amount(A) = Amount(A \ X) + Amount(A \cap X)
  <2>1. A \cap X \in SUBSET A /\ A \ (A \cap X) = A \ X
    OBVIOUS
  <2> HIDE DEF A
  <2>2. Amount(A) = Amount(A \ (A \cap X)) + Amount(A \cap X)
    BY <1>1, <2>1, AmountSplit
  <2> QED BY <2>1, <2>2
<1>4. Priced(A \ X) /\ Priced(A \cap X)
  BY <1>1, PricedWithin
<1>5. Amount(A) \in Nat /\ Amount(A \ X) \in Nat /\ Amount(A \cap X) \in Nat
      /\ Amount(S) \in Nat /\ Amount(N) \in Nat
  BY <1>1, <1>4, AmountNat
<1> HIDE DEF A
<1>6. Amount(S) + Amount(N) - Amount(A \cap X) = Amount(A \ X)
  BY <1>2, <1>3, <1>5
<1> QED BY <1>4, <1>6 DEF A, Exchanged

LEMMA NewPriced ==
  ASSUME NEW t \in Tx
  PROVE  Priced(NewUtxos(t)) /\ \A o \in NewUtxos(t) : o.tx = t
<1> DEFINE outs == Body[t].outs
           k == Len(outs)
           f == [n \in 1 .. k |-> [tx |-> t, n |-> n]]
<1>1. outs \in Seq([addr : Addresses, amount : Nat])
  BY BodyType
<1>2. k \in Nat /\ DOMAIN outs = 1 .. k
  BY <1>1, LenProperties
<1>3. IsFiniteSet(OutputsOf(t))
  <2>1. f \in Surjection(1 .. k, OutputsOf(t))
    <3>1. OutputsOf(t) = [tx : {t}, n : 1 .. k]
      BY <1>2 DEF OutputsOf
    <3>2. \A n \in 1 .. k : f[n] \in OutputsOf(t)
      BY <3>1
    <3>3. \A o \in OutputsOf(t) : o.n \in 1 .. k /\ f[o.n] = o
      BY <3>1
    <3> HIDE DEF k
    <3>4. f \in [1 .. k -> OutputsOf(t)]
      BY <3>2
    <3> QED BY <3>3, <3>4 DEF Surjection
  <2>2. IsFiniteSet(1 .. k)
    BY <1>2, FS_Interval
  <2> QED BY <2>1, <2>2, FS_Surjection
<1>4. \A o \in OutputsOf(t) : o.tx = t /\ Worth(o) \in Nat
  <2>1. \A n \in 1 .. k : outs[n] \in [addr : Addresses, amount : Nat]
    BY <1>1, ElementOfSeq
  <2>2. \A o \in OutputsOf(t) : o.tx = t /\ o.n \in 1 .. k
    BY <1>2 DEF OutputsOf
  <2> HIDE DEF k
  <2> QED BY <2>1, <2>2 DEF Worth, OutputOf
<1>5. NewUtxos(t) \in SUBSET OutputsOf(t)
  BY DEF NewUtxos
<1>6. IsFiniteSet(NewUtxos(t))
  BY <1>3, <1>5, FS_Subset
<1> QED BY <1>4, <1>5, <1>6 DEF Priced

-----------------------------------------------------------------------------
(***************************************************************************)
(* The recount.  It is what an operation does first, so whatever changes   *)
(* the list while the lock is free leaves a recount to be done at once.    *)
(***************************************************************************)
Counts(f) == f.op \in {"recount", "count"}
Plain(f) == f.op \notin {"recount", "count", "added"}
Recounting == Running("recount") \/ Running("count")

CountsFirst == \A i \in DOMAIN todo : i # 1 => ~ Counts(todo[i])

\* What the books hold of the amounts and of the history, counted so far or
\* through the whole list.
AmountsType ==
  /\ balanceHist \in Seq(Int) /\ Priced(utxos)
  /\ scan.bal \in Int /\ scan.prev \in Int /\ balance \in Int
  /\ totalReceived \in Int /\ totalSent \in Int

HistInv ==
  /\ Running("count") => scan.i <= Len(transactions) + 1 /\ Len(balanceHist) = scan.i - 1
  /\ ~ Recounting => Len(balanceHist) = Len(transactions)

TotalsInv ==
  /\ Running("count") => scan.prev = scan.bal /\ scan.bal = totalReceived - totalSent
  /\ ~ Recounting => balance = totalReceived - totalSent

BooksInv == TypeInv /\ CountsFirst /\ AmountsType /\ HistInv /\ TotalsInv

\* What has been counted: the outputs left are of it, and what it spends,
\* unless it is invalid, is spent, and not by two of which one is unconfirmed.
CountedTo(n) ==
  /\ \A o \in utxos : \E i \in 1 .. n : o.tx = transactions[i]
  /\ \A i \in 1 .. n :
       transactions[i] \notin invalidTx => Body[transactions[i]].ins \subseteq spentOutputs
  /\ \A i, j \in 1 .. n :
       /\ i < j /\ transactions[i] \notin invalidTx /\ transactions[j] \notin invalidTx
       /\ height[transactions[j]] = TX_UNCONFIRMED
       => Body[transactions[i]].ins \cap Body[transactions[j]].ins = {}

Conflicts(t, u) ==
  /\ t # u /\ TX_UNCONFIRMED \in {height[t], height[u]}
  /\ Body[t].ins \cap Body[u].ins # {}

WorthInv ==
  /\ Running("count") => scan.bal = Amount(utxos) /\ CountedTo(scan.i - 1)
  /\ ~ Recounting => /\ balance = Amount(utxos)
                     /\ \A t, u \in Registered \ invalidTx : ~ Conflicts(t, u)

SoundInv == SafeInv /\ BooksInv /\ WorthInv /\ NoUnderflow

-----------------------------------------------------------------------------
(***************************************************************************)
(* Frames that follow, and books that stay.                                *)
(***************************************************************************)
LEMMA Joined ==
  ASSUME NEW S, NEW s \in Seq(S), NEW x \in S
  PROVE  /\ s \o <<x>> \in Seq(S) /\ Len(s \o <<x>>) = Len(s) + 1
         /\ DOMAIN (s \o <<x>>) = 1 .. Len(s) + 1
         /\ \A i \in 1 .. Len(s) + 1 : (s \o <<x>>)[i] = IF i <= Len(s) THEN s[i] ELSE x
<1> DEFINE a == <<x>>
<1>1. a \in Seq(S) /\ Len(a) = 1 /\ a[1] = x
  OBVIOUS
<1> HIDE DEF a
<1> DEFINE g == s \o a
<1>2. /\ g \in Seq(S) /\ Len(g) = Len(s) + Len(a)
      /\ \A i \in 1 .. Len(s) + Len(a) : g[i] = IF i <= Len(s) THEN s[i] ELSE a[i - Len(s)]
  BY <1>1, ConcatProperties
<1> HIDE DEF g
<1>3. Len(s) \in Nat /\ DOMAIN g = 1 .. Len(s) + 1
  BY <1>1, <1>2, LenProperties
<1>4. \A i \in 1 .. Len(s) + 1 : ~ (i <= Len(s)) => i - Len(s) = 1
  BY <1>3
<1>5. \A i \in 1 .. Len(s) + 1 : g[i] = IF i <= Len(s) THEN s[i] ELSE x
  BY <1>1, <1>2, <1>4
<1> QED BY <1>1, <1>2, <1>3, <1>5 DEF a, g

LEMMA Continued ==
  ASSUME TypeInv, CountsFirst, todo # <<>>, NEW fs \in Seq(Frames), Continue(fs),
         \A j \in DOMAIN fs : j # 1 => ~ Counts(fs[j])
  PROVE  /\ CountsFirst'
         /\ fs = <<>> => ~ Recounting'
         /\ fs # <<>> => todo' # <<>> /\ Top' = fs[1]
<1>1. Tail(todo) \in Seq(Frames) /\ todo \in Seq(Frames)
  BY FrameType, TypeInvOK DEF TypeInv, TodoType
<1>2. /\ todo' \in Seq(Frames) /\ Len(todo') = Len(fs) + Len(Tail(todo))
      /\ \A i \in 1 .. Len(fs) + Len(Tail(todo)) :
           todo'[i] = IF i <= Len(fs) THEN fs[i] ELSE Tail(todo)[i - Len(fs)]
  BY <1>1, ConcatProperties DEF Continue
<1>3. /\ Len(fs) \in Nat /\ DOMAIN fs = 1 .. Len(fs)
      /\ DOMAIN todo' = 1 .. Len(todo') /\ Len(Tail(todo)) \in Nat
      /\ DOMAIN Tail(todo) = 1 .. Len(Tail(todo))
  BY <1>1, <1>2, LenProperties
<1>4. \A i \in DOMAIN Tail(todo) : ~ Counts(Tail(todo)[i])
  <2> SUFFICES ASSUME NEW i \in DOMAIN Tail(todo) PROVE ~ Counts(Tail(todo)[i])
    OBVIOUS
  <2>1. Tail(todo)[i] = todo[i + 1] /\ i + 1 \in DOMAIN todo /\ i + 1 # 1
    BY TodoShape
  <2> QED BY <2>1 DEF CountsFirst
<1>5. ASSUME NEW i \in DOMAIN todo', i # 1 \/ fs = <<>> PROVE ~ Counts(todo'[i])
  <2>1. CASE i <= Len(fs)
    <3>1. i \in DOMAIN fs /\ todo'[i] = fs[i] /\ fs # <<>>
      BY <2>1, <1>2, <1>3, EmptySeq
    <3> QED BY <3>1, <1>5
  <2>2. CASE ~ (i <= Len(fs))
    <3>1. i \in 1 .. Len(fs) + Len(Tail(todo))
      BY <1>2, <1>3
    <3>2. todo'[i] = Tail(todo)[i - Len(fs)]
      BY <1>2, <2>2, <3>1
    <3>3. i - Len(fs) \in 1 .. Len(Tail(todo))
      BY <1>3, <2>2, <3>1
    <3> QED BY <1>3, <1>4, <3>2, <3>3
  <2> QED BY <2>1, <2>2
<1>6. CountsFirst'
  BY <1>5 DEF CountsFirst
<1>7. ASSUME fs = <<>> PROVE ~ Recounting'
  <2>1. CASE todo' = <<>>
    BY <2>1 DEF Recounting, Running
  <2>2. CASE todo' # <<>>
    <3>1. 1 \in DOMAIN todo' /\ Top' = todo'[1]
      BY <1>2, <2>2, EmptySeq, HeadTailProperties, LenProperties DEF Top
    <3> QED BY <3>1, <1>5, <1>7 DEF Recounting, Running, Counts
  <2> QED BY <2>1, <2>2
<1>8. ASSUME fs # <<>> PROVE todo' # <<>> /\ Top' = fs[1]
  <2>1. 1 <= Len(fs) /\ 1 \in 1 .. Len(todo')
    BY <1>8, <1>2, <1>3, EmptySeq
  <2>2. todo' # <<>>
    BY <2>1, <1>3, EmptySeq
  <2>3. Top' = todo'[1]
    BY <1>2, <2>2, HeadTailProperties DEF Top
  <2> QED BY <2>1, <2>2, <2>3, <1>2
<1> QED BY <1>6, <1>7, <1>8

LEMMA Started ==
  ASSUME NEW fs \in Seq(Frames), todo' = fs, \A j \in DOMAIN fs : j # 1 => ~ Counts(fs[j])
  PROVE  /\ CountsFirst'
         /\ fs = <<>> => ~ Recounting'
         /\ fs # <<>> => todo' # <<>> /\ Top' = fs[1]
<1>1. CountsFirst'
  BY DEF CountsFirst
<1>2. fs # <<>> => Top' = fs[1]
  BY HeadTailProperties DEF Top
<1> QED BY <1>1, <1>2 DEF Recounting, Running

\* A step that leaves the books alone either calls for a recount, or there is
\* none before it and none after it.
LeftAlone ==
  /\ UNCHANGED <<books, scan>> /\ CountsFirst'
  /\ \/ Running("recount")'
     \/ ~ Recounting' /\ ~ Recounting /\ Len(transactions') = Len(transactions)

LEMMA BooksKept ==
  ASSUME BooksInv, TypeInv', LeftAlone
  PROVE  BooksInv'
<1>1. ~ Running("count")' /\ (Recounting' \/ (~ Recounting /\ Len(transactions') = Len(transactions)))
  BY DEF LeftAlone, Running, Recounting
<1>2. UNCHANGED <<balance, totalSent, totalReceived, utxos, balanceHist, scan>> /\ CountsFirst'
  BY DEF LeftAlone, books
<1>3. AmountsType'
  BY <1>2 DEF BooksInv, AmountsType, Priced, Worth, OutputOf
<1>4. HistInv' /\ TotalsInv'
  BY <1>1, <1>2 DEF BooksInv, HistInv, TotalsInv
<1> QED BY <1>2, <1>3, <1>4 DEF BooksInv

LEMMA BooksInit == Init => BooksInv
<1> SUFFICES ASSUME Init PROVE BooksInv
  OBVIOUS
<1>1. TypeInv
  BY TypeInit
<1>2. CountsFirst /\ ~ Recounting
  BY DEF Init, CountsFirst, Recounting, Running
<1>3. AmountsType
  BY FS_EmptySet DEF Init, AmountsType, NoScan, Priced
<1>4. HistInv /\ TotalsInv
  BY <1>2 DEF Init, HistInv, TotalsInv, Recounting, NoScan
<1> QED BY <1>1, <1>2, <1>3, <1>4 DEF BooksInv

LEMMA BooksStartCount ==
  ASSUME BooksInv, TypeInv', StartCount
  PROVE  BooksInv'
<1> DEFINE f == Frame("count", "unknown", 0, 0)
<1>1. todo # <<>> /\ f \in Frames /\ Continue(<<f>>)
  BY TypeInvOK, FrameType DEF StartCount, Running, BooksInv
<1>2. f.op = "count"
  BY DEF Frame
<1> HIDE DEF f
<1>3. CountsFirst' /\ todo' # <<>> /\ Top' = f
  <2>1. <<f>> \in Seq(Frames) /\ \A j \in DOMAIN <<f>> : j # 1 => ~ Counts(<<f>>[j])
    BY <1>1
  <2> QED BY <1>1, <2>1, Continued DEF BooksInv
<1>4. Running("count")'
  BY <1>2, <1>3 DEF Running
<1>5. AmountsType'
  BY FS_EmptySet DEF StartCount, AmountsType, NoScan, Priced, BooksInv
<1>6. transactions' \in Seq(Tx)
  BY DEF TypeInv, HoldingsType
<1>7. HistInv'
  <2>1. scan'.i = 1 /\ Len(balanceHist') = 0 /\ Len(transactions') \in Nat
    BY <1>6, LenProperties DEF StartCount, NoScan
  <2> QED BY <1>4, <2>1 DEF HistInv, Recounting
<1>8. TotalsInv'
  BY <1>4 DEF StartCount, NoScan, TotalsInv, Recounting
<1> QED BY <1>3, <1>5, <1>7, <1>8 DEF BooksInv

\* The books once one more transaction is counted.
LEMMA BooksCounted ==
  ASSUME BooksInv, TypeInv', NEW t \in Tx, Counting(t),
         UNCHANGED <<transactions, todo, balance>>,
         NEW b \in Int, balanceHist' = Append(balanceHist, b),
         scan'.i = scan.i + 1, scan'.bal = b, scan'.prev = b, Priced(utxos'),
         totalReceived' \in Int, totalSent' \in Int, b = totalReceived' - totalSent'
  PROVE  BooksInv'
<1>1. CountsFirst' /\ Running("count") /\ Running("count")'
  BY DEF BooksInv, CountsFirst, Counting, Running, Top
<1>2. balanceHist \in Seq(Int) /\ Len(balanceHist) = scan.i - 1 /\ scan.i \in Nat
  BY <1>1 DEF BooksInv, AmountsType, HistInv, TypeInv, ScanType
<1>3. balanceHist' \in Seq(Int) /\ Len(balanceHist') = scan'.i - 1
  BY <1>2, AppendProperties
<1>4. transactions \in Seq(Tx) /\ Len(transactions) \in Nat /\ scan.i <= Len(transactions)
  BY LenProperties DEF BooksInv, TypeInv, HoldingsType, Counting
<1>5. AmountsType'
  BY <1>3 DEF AmountsType, BooksInv
<1>6. HistInv'
  <2>1. scan'.i <= Len(transactions') + 1
    <3>1. Len(transactions') = Len(transactions)
      OBVIOUS
    <3>2. scan.i + 1 <= Len(transactions) + 1
      BY <1>2, <1>4
    <3>3. scan'.i = scan.i + 1
      OBVIOUS
    <3> QED BY <3>1, <3>2, <3>3
  <2> QED BY <1>1, <1>3, <2>1 DEF HistInv, Recounting
<1>7. TotalsInv'
  BY <1>1 DEF TotalsInv, Recounting
<1> QED BY <1>1, <1>5, <1>6, <1>7 DEF BooksInv

LEMMA GainDifference ==
  ASSUME NEW a \in Int, NEW b \in Int, NEW r \in Int, NEW s \in Int, a = r - s
  PROVE  /\ Gain(a, b) \in Nat /\ Gain(b, a) \in Nat
         /\ b = (r + Gain(a, b)) - (s + Gain(b, a))
BY DEF Gain

LEMMA BooksCount ==
  ASSUME BooksInv, TypeInv', NEW t \in Tx, CountInvalid(t) \/ CountPending(t) \/ CountOutputs(t)
  PROVE  BooksInv'
<1>1. Counting(t) /\ UNCHANGED <<transactions, todo, balance>>
  BY DEF CountInvalid, CountPending, CountOutputs, holdings
<1>2. /\ scan.bal \in Int /\ scan.prev = scan.bal /\ Priced(utxos)
      /\ scan.bal = totalReceived - totalSent /\ totalReceived \in Int /\ totalSent \in Int
      /\ DOMAIN scan = {"i", "bal", "prev"}
  BY <1>1 DEF BooksInv, AmountsType, TotalsInv, Counting, TypeInv, ScanType
<1>3. CASE CountInvalid(t) \/ CountPending(t)
  <2>1. /\ balanceHist' = Append(balanceHist, scan.bal) /\ scan' = [scan EXCEPT !.i = @ + 1]
        /\ UNCHANGED <<totalReceived, totalSent, utxos>>
    BY <1>3 DEF CountInvalid, CountPending
  <2>2. scan'.i = scan.i + 1 /\ scan'.bal = scan.bal /\ scan'.prev = scan.bal
    BY <2>1, <1>2
  <2>3. Priced(utxos')
    BY <2>1, <1>2
  <2> QED BY <1>1, <1>2, <2>1, <2>2, <2>3, BooksCounted
<1>4. CASE CountOutputs(t)
  <2> DEFINE b == BalanceWith(t)
  <2>1. /\ totalReceived' = totalReceived + Gain(scan.prev, b)
        /\ totalSent' = totalSent + Gain(b, scan.prev)
        /\ balanceHist' = Append(balanceHist, b)
        /\ scan' = [i |-> scan.i + 1, bal |-> b, prev |-> b]
        /\ utxos' = (utxos \cup NewUtxos(t)) \ SpentWith(t)
    BY <1>4 DEF CountOutputs
  <2>2. Priced(utxos \cup NewUtxos(t))
    <3>1. Priced(NewUtxos(t))
      BY NewPriced
    <3> QED BY <1>2, <3>1, FS_Union DEF Priced
  <2>3. Priced(utxos')
    BY <2>1, <2>2, PricedWithin
  <2>4. b \in Int
    <3>1. Amount(NewUtxos(t)) \in Nat
      BY NewPriced, AmountNat
    <3>2. Amount((utxos \cup NewUtxos(t)) \cap SpentWith(t)) \in Nat
      BY <2>2, PricedWithin, AmountNat
    <3> QED BY <1>2, <3>1, <3>2 DEF BalanceWith
  <2> HIDE DEF b
  <2>5. /\ Gain(scan.prev, b) \in Nat /\ Gain(b, scan.prev) \in Nat
        /\ b = (totalReceived + Gain(scan.prev, b)) - (totalSent + Gain(b, scan.prev))
    <3>1. scan.prev \in Int /\ scan.prev = totalReceived - totalSent
      BY <1>2
    <3>2. totalReceived \in Int /\ totalSent \in Int
      BY <1>2
    <3> DEFINE p == scan.prev
    <3> HIDE DEF p
    <3>3. p \in Int /\ p = totalReceived - totalSent
      BY <3>1 DEF p
    <3>4. /\ Gain(p, b) \in Nat /\ Gain(b, p) \in Nat
          /\ b = (totalReceived + Gain(p, b)) - (totalSent + Gain(b, p))
      BY <2>4, <3>2, <3>3, GainDifference
    <3> QED BY <3>4 DEF p
  <2>6. totalReceived' \in Int /\ totalSent' \in Int /\ b = totalReceived' - totalSent'
    BY <1>2, <2>1, <2>5
  <2>7. scan'.i = scan.i + 1 /\ scan'.bal = b /\ scan'.prev = b
    BY <2>1
  <2> QED BY <1>1, <2>1, <2>3, <2>4, <2>6, <2>7, BooksCounted
<1> QED BY <1>3, <1>4

LEMMA BooksEndCount ==
  ASSUME BooksInv, TypeInv', EndCount
  PROVE  BooksInv'
<1>1. Running("count") /\ todo # <<>> /\ Continue(<<>>) /\ scan.i > Len(transactions)
  BY DEF EndCount, Running
<1>2. CountsFirst' /\ ~ Recounting'
  <2>1. <<>> \in Seq(Frames) /\ \A j \in DOMAIN <<>> : j # 1 => ~ Counts(<<>>[j])
    OBVIOUS
  <2> QED BY <1>1, <2>1, Continued DEF BooksInv
<1>3. UNCHANGED <<transactions, balanceHist, utxos, totalReceived, totalSent>> /\ balance' = scan.bal
      /\ scan' = NoScan
  BY DEF EndCount, holdings
<1>4. AmountsType'
  BY <1>3 DEF BooksInv, AmountsType, NoScan, Priced, Worth, OutputOf
<1>5. Len(balanceHist) = Len(transactions)
  <2>1. scan.i <= Len(transactions) + 1 /\ Len(balanceHist) = scan.i - 1 /\ scan.i \in Nat
    BY <1>1 DEF BooksInv, HistInv, TypeInv, ScanType
  <2>2. transactions \in Seq(Tx) /\ Len(transactions) \in Nat
    BY LenProperties DEF BooksInv, TypeInv, HoldingsType
  <2> QED BY <1>1, <2>1, <2>2
<1>6. HistInv' /\ TotalsInv'
  BY <1>1, <1>2, <1>3, <1>5 DEF BooksInv, HistInv, TotalsInv, Recounting
<1> QED BY <1>2, <1>4, <1>6 DEF BooksInv

LEMMA DependantsSeq ==
  ASSUME TypeInv, NEW t, NEW s \in [1 .. Cardinality(Dependants(t)) -> Dependants(t)]
  PROVE  [i \in DOMAIN s |-> transactions[s[i]]] \in Seq(Tx)
<1> DEFINE D == Dependants(t)
<1>1. D \subseteq 1 .. Len(transactions)
  BY LenProperties DEF Dependants, TypeInv, HoldingsType
<1>2. Cardinality(D) \in Nat
  <2>1. IsFiniteSet(1 .. Len(transactions))
    BY FS_Interval, LenProperties DEF TypeInv, HoldingsType
  <2> HIDE DEF D
  <2> QED BY <1>1, <2>1, FS_Subset, FS_CardinalityType
<1>3. \A d \in D : transactions[d] \in Tx
  BY <1>1, ElementOfSeq DEF TypeInv, HoldingsType
<1> DEFINE r == [i \in DOMAIN s |-> transactions[s[i]]]
<1> HIDE DEF D
<1>4. r \in [1 .. Cardinality(D) -> Tx]
  BY <1>3 DEF D
<1> HIDE DEF r
<1>5. r \in Seq(Tx)
  BY <1>2, <1>4, SeqDef
<1> QED BY <1>5 DEF r

\* An operation other than a registration starts, or goes on.
RegistrationOps == {"recount", "count", "unusedExternal", "unusedInternal", "added"}

OtherWork ==
  \E fs \in Seq(Frames) :
    /\ \A j \in DOMAIN fs : fs[j].op # "added"
    /\ Start(fs) \/ (todo # <<>> /\ Top.op \notin RegistrationOps /\ Continue(fs))

LEMMA BooksReturn ==
  ASSUME BooksInv, UNCHANGED <<books, scan>>,
         todo # <<>>, Top.op \notin {"recount", "count"}, Continue(<<>>),
         Len(transactions') = Len(transactions)
  PROVE  LeftAlone
<1>1. CountsFirst' /\ ~ Recounting'
  <2>1. <<>> \in Seq(Frames) /\ \A j \in DOMAIN <<>> : j # 1 => ~ Counts(<<>>[j])
    OBVIOUS
  <2> QED BY <2>1, Continued DEF BooksInv
<1>2. ~ Recounting
  BY DEF Recounting, Running
<1> QED BY <1>1, <1>2 DEF LeftAlone

LEMMA BooksContinue ==
  ASSUME BooksInv, UNCHANGED <<books, scan>>,
         todo # <<>>, Top.op \notin RegistrationOps,
         NEW fs \in Seq(Frames), Continue(fs), \A j \in DOMAIN fs : j # 1 => Plain(fs[j]),
         \/ fs # <<>> /\ fs[1].op = "recount"
         \/ UNCHANGED transactions /\ (fs # <<>> => Plain(fs[1]))
  PROVE  LeftAlone /\ OtherWork
<1>1. CountsFirst' /\ (fs = <<>> => ~ Recounting') /\ (fs # <<>> => todo' # <<>> /\ Top' = fs[1])
  BY Continued DEF BooksInv, Plain, Counts
<1>2. ~ Recounting
  BY DEF Recounting, Running, RegistrationOps
<1>3. ASSUME fs # <<>> /\ fs[1].op = "recount" PROVE LeftAlone
  <2>1. Running("recount")'
    BY <1>1, <1>3 DEF Running
  <2> QED BY <1>1, <2>1 DEF LeftAlone
<1>4. ASSUME UNCHANGED transactions /\ (fs # <<>> => Plain(fs[1])) PROVE LeftAlone
  <2>1. ~ Recounting'
    BY <1>1, <1>4 DEF Recounting, Running, Plain
  <2> QED BY <1>1, <1>2, <1>4, <2>1 DEF LeftAlone
<1>5. OtherWork
  <2>1. \A j \in DOMAIN fs : fs # <<>> /\ (j = 1 \/ Plain(fs[j]))
    BY EmptySeq
  <2>2. \A j \in DOMAIN fs : fs[j].op # "added"
    BY <2>1 DEF Plain
  <2> QED BY <2>2 DEF OtherWork
<1> QED BY <1>3, <1>4, <1>5

LEMMA BooksStart ==
  ASSUME BooksInv, UNCHANGED <<books, scan>>,
         NEW fs \in Seq(Frames), Start(fs), \A j \in DOMAIN fs : j # 1 => ~ Counts(fs[j]),
         \/ fs # <<>> /\ fs[1].op = "recount"
         \/ UNCHANGED transactions /\ (fs # <<>> => ~ Counts(fs[1]))
  PROVE  LeftAlone
<1>1. CountsFirst' /\ (fs = <<>> => ~ Recounting') /\ (fs # <<>> => todo' # <<>> /\ Top' = fs[1])
  BY Started DEF Start
<1>2. ~ Recounting
  BY DEF Recounting, Running, Start, Idle
<1>3. CASE fs # <<>> /\ fs[1].op = "recount"
  <2>1. Running("recount")'
    BY <1>1, <1>3 DEF Running
  <2> QED BY <1>1, <2>1 DEF LeftAlone
<1>4. CASE UNCHANGED transactions /\ (fs # <<>> => ~ Counts(fs[1]))
  <2>1. ~ Recounting'
    BY <1>1, <1>4 DEF Recounting, Running, Counts
  <2> QED BY <1>1, <1>2, <1>4, <2>1 DEF LeftAlone
<1> QED BY <1>3, <1>4

LEMMA OtherStart ==
  ASSUME BooksInv, UNCHANGED <<books, scan>>,
         NEW fs \in Seq(Frames), Start(fs), \A j \in DOMAIN fs : j # 1 => Plain(fs[j]),
         \/ fs # <<>> /\ fs[1].op = "recount"
         \/ UNCHANGED transactions /\ (fs # <<>> => Plain(fs[1]))
  PROVE  LeftAlone /\ OtherWork
<1>1. LeftAlone
  BY BooksStart DEF Plain, Counts
<1>2. \A j \in DOMAIN fs : fs # <<>> /\ (j = 1 \/ Plain(fs[j]))
  BY EmptySeq
<1>3. \A j \in DOMAIN fs : fs[j].op # "added"
  BY <1>2 DEF Plain
<1> QED BY <1>1, <1>3 DEF OtherWork

LEMMA BooksRest ==
  ASSUME BooksInv, UNCHANGED <<books, scan, transactions, todo>>, ~ LockHeld
  PROVE  LeftAlone
<1>1. ~ Recounting /\ ~ Recounting'
  BY DEF LockHeld, Recounting, Running, Idle, Top
<1>2. CountsFirst'
  BY DEF BooksInv, CountsFirst
<1> QED BY <1>1, <1>2 DEF LeftAlone

LEMMA StartFrames ==
  ASSUME TypeInv, NEW t \in Tx
  PROVE  LET fs == <<Recount>> \o Unused(0) \o <<Frame("added", t, 0, 0)>>
         IN  /\ fs \in Seq(Frames) /\ fs # <<>> /\ fs[1].op = "recount"
             /\ \A j \in DOMAIN fs : j # 1 => ~ Counts(fs[j])
<1> DEFINE add == Frame("added", t, 0, 0)
           un == Unused(0)
           fs == <<Recount>> \o un \o <<add>>
<1>1. un \in Seq(Frames) /\ add \in Frames /\ Recount \in Frames
  BY TypeInvOK, FrameType
<1>2. Len(un) = 2 /\ \A j \in DOMAIN un : ~ Counts(un[j])
  BY DEF Unused, Counts, Frame
<1>3. Len(un) = 2 /\ \A j \in 1 .. 2 : ~ Counts(un[j])
  BY <1>1, <1>2, LenProperties
<1>4. Recount.op = "recount" /\ ~ Counts(add)
  BY DEF Recount, Frame, Counts
<1>5. fs \in Seq(Frames) /\ fs # <<>> /\ fs[1].op = "recount"
      /\ \A j \in DOMAIN fs : j # 1 => ~ Counts(fs[j])
  <2> HIDE DEF add, un
  <2> DEFINE g == <<Recount>> \o un
  <2>1. /\ g \in Seq(Frames) /\ Len(g) = 3
        /\ \A i \in 1 .. 3 : g[i] = IF i <= 1 THEN Recount ELSE un[i - 1]
    <3> DEFINE r == <<Recount>>
    <3>1. r \in Seq(Frames) /\ Len(r) = 1 /\ r[1] = Recount
      BY <1>1
    <3> HIDE DEF r
    <3>2. /\ r \o un \in Seq(Frames) /\ Len(r \o un) = Len(r) + Len(un)
          /\ \A i \in 1 .. Len(r) + Len(un) :
               (r \o un)[i] = IF i <= Len(r) THEN r[i] ELSE un[i - Len(r)]
      BY <1>1, <3>1, ConcatProperties
    <3>3. Len(r) + Len(un) = 3 /\ \A i \in 1 .. 3 : i <= 1 => i = 1
      BY <1>3, <3>1
    <3>4. \A i \in 1 .. 3 : (r \o un)[i] = IF i <= 1 THEN Recount ELSE un[i - 1]
      BY <3>1, <3>2, <3>3
    <3> QED BY <3>2, <3>3, <3>4 DEF r
  <2> HIDE DEF g
  <2>3. fs \in Seq(Frames) /\ DOMAIN fs = 1 .. 4
        /\ \A i \in 1 .. 4 : fs[i] = IF i <= 3 THEN g[i] ELSE add
    BY <1>1, <2>1, Joined DEF g
  <2> HIDE DEF fs
  <2>4. ASSUME NEW j \in 1 .. 4, j # 1 PROVE ~ Counts(fs[j])
    <3>1. CASE j = 4
      BY <2>3, <3>1, <1>4
    <3>2. CASE j \in 2 .. 3
      <4>1. fs[j] = un[j - 1] /\ j - 1 \in 1 .. 2
        BY <2>1, <2>3, <3>2
      <4> QED BY <4>1, <1>3
    <3> QED BY <2>4, <3>1, <3>2
  <2>5. fs[1] = Recount /\ fs # <<>>
    BY <2>1, <2>3
  <2> QED BY <2>3, <2>4, <2>5, <1>4
<1> QED BY <1>5

LEMMA BooksRegister ==
  ASSUME BooksInv, NEW t \in Tx, NEW ts \in Stamps \cup {0},
         RegisterWalletTx(t, ts) \/ RegisterOtherTx(t, ts)
  PROVE  LeftAlone
<1>1. CASE RegisterWalletTx(t, ts)
  <2> DEFINE fs == <<Recount>> \o Unused(0) \o <<Frame("added", t, 0, 0)>>
  <2>1. Start(fs) /\ UNCHANGED <<books, scan>>
    BY <1>1 DEF RegisterWalletTx
  <2>2. /\ fs \in Seq(Frames) /\ fs # <<>> /\ fs[1].op = "recount"
        /\ \A j \in DOMAIN fs : j # 1 => ~ Counts(fs[j])
    BY StartFrames DEF BooksInv
  <2> HIDE DEF fs
  <2> QED BY <2>1, <2>2, BooksStart
<1>2. CASE RegisterOtherTx(t, ts)
  BY <1>2, BooksRest DEF RegisterOtherTx, LockHeld
<1> QED BY <1>1, <1>2

LEMMA RemovalFrames ==
  ASSUME TypeInv, NEW t \in Tx
  PROVE  LET fs == AfterRemoval(t)
         IN  /\ fs \in Seq(Frames) /\ fs # <<>> /\ fs[1].op = "recount"
             /\ \A j \in DOMAIN fs : j # 1 => Plain(fs[j])
<1> DEFINE fs == AfterRemoval(t)
<1>1. Removed(t) \in Frames /\ Plain(Removed(t))
  BY DEF Removed, Frame, Frames, Plain
<1>2. Recount \in Frames /\ Recount.op = "recount"
  BY TypeInvOK, FrameType DEF Recount, Frame
<1>3. fs = <<Recount, Removed(t)>>
  BY DEF AfterRemoval
<1> HIDE DEF fs
<1>4. /\ fs \in Seq(Frames) /\ fs # <<>> /\ fs[1].op = "recount"
      /\ \A j \in DOMAIN fs : j # 1 => Plain(fs[j])
  BY <1>1, <1>2, <1>3
<1> QED BY <1>4 DEF fs

LEMMA BooksRemove ==
  ASSUME BooksInv,
         (\E t \in Tx : StartRemove(t)) \/ RemoveDependants \/ RemoveTransaction
  PROVE  LeftAlone /\ OtherWork
<1>1. ASSUME NEW t \in Tx, StartRemove(t) PROVE LeftAlone /\ OtherWork
  <2> DEFINE f == Frame("remove", t, 0, 0)
  <2>1. f \in Frames /\ Plain(f)
    BY TypeInvOK, FrameType DEF Frame, Plain, BooksInv
  <2>2. Start(<<f>>) /\ UNCHANGED <<books, scan, transactions>>
    BY <1>1 DEF StartRemove, holdings
  <2> HIDE DEF f
  <2>3. <<f>> \in Seq(Frames) /\ \A j \in DOMAIN <<f>> : Plain(<<f>>[j])
    BY <2>1
  <2> QED BY <2>1, <2>2, <2>3, OtherStart
<1>2. CASE RemoveDependants
  <2> DEFINE D == Dependants(Top.tx)
  <2>1. PICK s \in [1 .. Cardinality(D) -> D] :
          Continue(RemovalOrder([i \in DOMAIN s |-> transactions[s[i]]]))
    BY <1>2 DEF RemoveDependants
  <2>2. todo # <<>> /\ Top \in Frames /\ Top.op = "remove" /\ UNCHANGED <<books, scan, transactions>>
    BY <1>2, TypeInvOK, FrameType DEF RemoveDependants, Running, BooksInv, holdings
  <2> DEFINE deps == [i \in DOMAIN s |-> transactions[s[i]]]
             fs == [i \in 1 .. Len(deps) |-> Frame("remove", deps[i], 0, 0)]
             gs == RemovalOrder(deps)
  <2>3. deps \in Seq(Tx)
    BY <2>1, DependantsSeq DEF BooksInv
  <2>4. fs \in Seq(Frames) /\ \A i \in DOMAIN fs : Plain(fs[i])
    <3>1. Len(deps) \in Nat /\ \A i \in 1 .. Len(deps) : deps[i] \in Tx
      BY <2>3, LenProperties, ElementOfSeq
    <3> HIDE DEF deps
    <3>2. fs \in [1 .. Len(deps) -> Frames]
      BY <3>1, TypeInvOK, FrameType DEF BooksInv
    <3>3. fs \in Seq(Frames)
      BY <3>1, <3>2, SeqDef
    <3>4. \A i \in 1 .. Len(deps) : Plain(fs[i])
      BY DEF Plain, Frame
    <3> QED BY <3>2, <3>3, <3>4
  <2>5. gs \in Seq(Frames) /\ \A i \in DOMAIN gs : Plain(gs[i])
    <3>1. gs = fs \o <<Top>> /\ Plain(Top)
      BY <2>2 DEF RemovalOrder, Plain
    <3> HIDE DEF fs, gs
    <3>2. Len(fs) \in Nat /\ DOMAIN fs = 1 .. Len(fs)
      BY <2>4, LenProperties
    <3>3. /\ gs \in Seq(Frames) /\ DOMAIN gs = 1 .. Len(fs) + 1
          /\ \A i \in 1 .. Len(fs) + 1 : gs[i] = IF i <= Len(fs) THEN fs[i] ELSE Top
      BY <2>2, <2>4, <3>1, Joined
    <3> QED BY <2>4, <3>1, <3>2, <3>3
  <2>6. Continue(gs)
    BY <2>1
  <2>7. gs # <<>> => Plain(gs[1])
    <3> HIDE DEF gs
    <3> QED BY <2>5, EmptySeq, LenProperties
  <2>8. Top.op \notin RegistrationOps
    BY <2>2 DEF RegistrationOps
  <2> HIDE DEF gs
  <2> QED BY <2>2, <2>5, <2>6, <2>7, <2>8, BooksContinue
<1>3. CASE RemoveTransaction
  <2> DEFINE fs == AfterRemoval(Top.tx)
  <2>1. todo # <<>> /\ Top.op = "remove" /\ Top.tx \in Tx /\ Continue(fs) /\ UNCHANGED <<books, scan>>
    BY <1>3, TypeInvOK, TopType DEF RemoveTransaction, Running, BooksInv
  <2>2. /\ fs \in Seq(Frames) /\ fs # <<>> /\ fs[1].op = "recount"
        /\ \A j \in DOMAIN fs : j # 1 => Plain(fs[j])
    BY <2>1, RemovalFrames DEF BooksInv
  <2> HIDE DEF fs
  <2>3. Top.op \notin RegistrationOps
    BY <2>1 DEF RegistrationOps
  <2> QED BY <2>1, <2>2, <2>3, BooksContinue
<1> QED BY <1>1, <1>2, <1>3

LEMMA ResortedLen ==
  ASSUME transactions \in Seq(Tx), NEW ht, NEW t \in Tx
  PROVE  Len(Resorted(ht, t)) = Len(transactions)
<1>1. CASE t \in Registered
  <2>1. \E i \in DOMAIN transactions : transactions[i] = t
    BY <1>1 DEF Registered
  <2>2. RemoveTx(transactions, t) \in Seq(Tx) /\ Len(RemoveTx(transactions, t)) = Len(transactions) - 1
    BY <2>1, RemoveTxType
  <2>3. Len(InsertTx(ht, RemoveTx(transactions, t), t)) = Len(transactions) - 1 + 1
    BY <2>2, InsertTxType
  <2> QED BY <1>1, <2>3, LenProperties DEF Resorted
<1>2. CASE t \notin Registered
  BY <1>2 DEF Resorted
<1> QED BY <1>1, <1>2

LEMMA BooksSet ==
  ASSUME BooksInv, SkipTx \/ SetWalletTx \/ SetOtherTx
  PROVE  LeftAlone
<1>1. todo # <<>> /\ Top.op = "set" /\ Top.tx \in Tx /\ Continue(<<>>) /\ UNCHANGED <<books, scan>>
  BY TypeInvOK, TopType DEF SkipTx, SetWalletTx, SetOtherTx, Running, BooksInv
<1>2. Len(transactions') = Len(transactions)
  BY <1>1, ResortedLen DEF SkipTx, SetWalletTx, SetOtherTx, BooksInv, TypeInv, HoldingsType, holdings
<1> QED BY <1>1, <1>2, BooksReturn

LEMMA BooksEndSet ==
  ASSUME BooksInv, EndSet
  PROVE  LeftAlone /\ OtherWork
<1>1. todo # <<>> /\ Top \in Frames /\ Top.op = "endset" /\ UNCHANGED <<books, scan, transactions>>
  BY TypeInvOK, FrameType DEF EndSet, Running, BooksInv, holdings
<1> DEFINE f == [Top EXCEPT !.op = "updated"]
<1>2. f \in Frames /\ f.op = "updated"
  BY <1>1 DEF Frames
<1>3. Recount \in Frames /\ Recount.op = "recount"
  BY TypeInvOK, FrameType DEF BooksInv, Recount, Frame
<1> DEFINE r == IF upd.needs THEN <<Recount>> ELSE <<>>
           fs == r \o Notice(Top)
<1>4. r \in Seq(Frames) /\ (r = <<>> \/ (Len(r) = 1 /\ r[1] = Recount))
  BY <1>3
<1> HIDE DEF r
<1>5. /\ fs \in Seq(Frames) /\ \A j \in DOMAIN fs : j # 1 => Plain(fs[j])
      /\ (fs # <<>> /\ fs[1].op = "recount") \/ (fs # <<>> => Plain(fs[1]))
  <2>1. CASE Notice(Top) = <<>>
    <3>1. fs = r
      BY <1>4, <2>1, ConcatEmptySeq
    <3>2. r # <<>> => DOMAIN r = 1 .. 1
      BY <1>4, LenProperties
    <3> HIDE DEF fs
    <3> QED BY <1>3, <1>4, <3>1, <3>2
  <2>2. CASE Notice(Top) = <<f>>
    <3> HIDE DEF f
    <3>1. /\ fs \in Seq(Frames) /\ DOMAIN fs = 1 .. Len(r) + 1
          /\ \A i \in 1 .. Len(r) + 1 : fs[i] = IF i <= Len(r) THEN r[i] ELSE f
      BY <1>2, <1>4, <2>2, Joined
    <3>2. Len(r) \in 0 .. 1 /\ (Len(r) = 1 => r[1] = Recount)
      BY <1>4, EmptySeq
    <3>3. Plain(f)
      BY <1>2 DEF Plain
    <3> HIDE DEF fs
    <3>4. ASSUME NEW j \in DOMAIN fs, j # 1 \/ Len(r) = 0 PROVE Plain(fs[j])
      BY <3>1, <3>2, <3>3, <3>4
    <3>5. Len(r) = 1 => fs # <<>> /\ fs[1] = Recount
      BY <3>1, <3>2, EmptySeq
    <3>6. Len(r) = 0 => 1 \in DOMAIN fs
      BY <3>1
    <3> QED BY <1>3, <3>1, <3>2, <3>4, <3>5, <3>6
  <2> QED BY <2>1, <2>2 DEF Notice
<1>6. Continue(fs)
  BY DEF EndSet, r
<1>7. Top.op \notin RegistrationOps
  BY <1>1 DEF RegistrationOps
<1> HIDE DEF fs
<1> QED BY <1>1, <1>5, <1>6, <1>7, BooksContinue

LEMMA BooksUpdate ==
  ASSUME BooksInv, NEW txs \in Seq(Tx), NEW h \in HeightsOrUnconfirmed,
         NEW ts \in Stamps \cup {0}, UpdateTransactions(txs, h, ts)
  PROVE  LeftAlone /\ OtherWork
<1> DEFINE e == Frame("endset", "unknown", h, ts)
           ss == [i \in 1 .. Len(txs) |-> Frame("set", txs[i], h, ts)]
           fs == ss \o <<e>>
<1>1. Len(txs) \in Nat /\ \A i \in 1 .. Len(txs) : txs[i] \in Tx
  BY LenProperties, ElementOfSeq
<1>2. ss \in Seq(Frames)
  <2>1. ss \in [1 .. Len(txs) -> Frames]
    BY <1>1, TypeInvOK, FrameType DEF BooksInv
  <2> QED BY <1>1, <2>1, SeqDef
<1>3. \A i \in DOMAIN ss : Plain(ss[i])
  BY DEF Plain, Frame
<1>4. e \in Frames /\ Plain(e)
  BY TypeInvOK, FrameType DEF BooksInv, Plain, Frame
<1>5. fs \in Seq(Frames) /\ \A i \in DOMAIN fs : Plain(fs[i])
  <2> HIDE DEF ss, e
  <2>1. Len(ss) \in Nat /\ DOMAIN ss = 1 .. Len(ss)
    BY <1>2, LenProperties
  <2>2. /\ fs \in Seq(Frames) /\ DOMAIN fs = 1 .. Len(ss) + 1
        /\ \A i \in 1 .. Len(ss) + 1 : fs[i] = IF i <= Len(ss) THEN ss[i] ELSE e
    BY <1>2, <1>4, Joined
  <2> QED BY <1>3, <1>4, <2>1, <2>2
<1>6. Start(fs) /\ UNCHANGED <<books, scan, transactions>>
  BY DEF UpdateTransactions, holdings
<1> HIDE DEF fs
<1>7. fs # <<>> => Plain(fs[1])
  BY <1>5, EmptySeq, LenProperties
<1> QED BY <1>5, <1>6, <1>7, OtherStart

LEMMA BooksReorganise ==
  ASSUME BooksInv, NEW h \in Heights \cup {0}, SetTxUnconfirmedAfter(h)
  PROVE  LeftAlone /\ OtherWork
<1> DEFINE f == Frame("updated", "unknown", TX_UNCONFIRMED, 0)
<1>1. UNCHANGED <<books, scan, transactions>> /\ (Start(<<>>) \/ Start(<<Recount, f>>))
  BY DEF SetTxUnconfirmedAfter
<1>2. f \in Frames /\ Plain(f) /\ Recount \in Frames /\ Recount.op = "recount"
  BY TypeInvOK, FrameType DEF BooksInv, HeightsOrUnconfirmed, Plain, Recount, Frame
<1> HIDE DEF f
<1>3. CASE Start(<<>>)
  <2>1. <<>> \in Seq(Frames) /\ \A j \in DOMAIN <<>> : j # 1 => Plain(<<>>[j])
    OBVIOUS
  <2> QED BY <1>1, <1>3, <2>1, OtherStart
<1>4. CASE Start(<<Recount, f>>)
  <2> DEFINE fs == <<Recount, f>>
  <2>1. /\ fs \in Seq(Frames) /\ fs # <<>> /\ fs[1].op = "recount"
        /\ \A j \in DOMAIN fs : j # 1 => Plain(fs[j])
    BY <1>2
  <2> HIDE DEF fs
  <2> QED BY <1>1, <1>4, <2>1, OtherStart DEF fs
<1> QED BY <1>1, <1>3, <1>4

LEMMA BooksTell ==
  ASSUME BooksInv, TellAdded \/ TellRemoved \/ TellUpdated \/ UnusedAddrs \/ RemoveUnknown
  PROVE  LeftAlone
<1>1. /\ todo # <<>> /\ Continue(<<>>) /\ UNCHANGED <<books, scan, transactions>>
      /\ Top.op \in {"added", "removed", "updated", "unusedExternal", "unusedInternal", "remove"}
  BY DEF TellAdded, TellRemoved, TellUpdated, UnusedAddrs, RemoveUnknown, Running, holdings
<1> QED BY <1>1, BooksReturn

LEMMA BooksLoad ==
  ASSUME BooksInv, LoadFilterAddrs
  PROVE  LeftAlone /\ OtherWork
<1>1. Unused(FILTER_GAP) \in Seq(Frames) /\ \A j \in DOMAIN Unused(FILTER_GAP) : Plain(Unused(FILTER_GAP)[j])
  BY TypeInvOK, FrameType, LimitAssumption DEF BooksInv, Unused, Plain, Frame
<1>2. Start(Unused(FILTER_GAP)) /\ UNCHANGED <<books, scan, transactions>>
  BY DEF LoadFilterAddrs, holdings
<1> DEFINE fs == Unused(FILTER_GAP)
<1> HIDE DEF fs
<1>3. fs # <<>> => Plain(fs[1])
  BY <1>1, EmptySeq, LenProperties DEF fs
<1> QED BY <1>1, <1>2, <1>3, OtherStart DEF fs

LEMMA NotCounted ==
  ASSUME BooksInv, Next
  PROVE  StartCount \/ Count \/ EndCount \/ LeftAlone
<1>1. CASE Tick
  BY <1>1, BooksRest DEF Tick, holdings
<1>2. CASE \E c \in Chains : NextAddress(c)
  BY <1>2, BooksRest DEF NextAddress, holdings
<1>3. CASE LoadFilterAddrs
  BY <1>3, BooksLoad
<1>4. CASE Register
  BY <1>4, BooksRegister DEF Register
<1>5. CASE \E txs \in Blocks, h \in Heights, ts \in Stamps : ConfirmTxs(txs, h, ts)
  BY <1>5, BooksUpdate, TxAssumption DEF ConfirmTxs, HeightsOrUnconfirmed
<1>6. CASE (\E t \in Tx, ts \in Stamps : MarkVerified(t, ts)) \/ (\E t \in Tx : MarkUnverified(t))
  <2>1. \A t \in Tx : <<t>> \in Seq(Tx)
    OBVIOUS
  <2> QED BY <1>6, <2>1, BooksUpdate DEF MarkVerified, MarkUnverified, HeightsOrUnconfirmed
<1>7. CASE \E h \in Heights \cup {0} : SetTxUnconfirmedAfter(h)
  BY <1>7, BooksReorganise
<1>8. CASE Work
  BY <1>8, BooksRemove, BooksSet, BooksEndSet, BooksTell DEF Work
<1> QED BY <1>1, <1>2, <1>3, <1>4, <1>5, <1>6, <1>7, <1>8, BooksRemove DEF Next

LEMMA BooksStep == BooksInv /\ [Next]_vars => BooksInv'
<1> SUFFICES ASSUME BooksInv, [Next]_vars PROVE BooksInv'
  OBVIOUS
<1>1. TypeInv'
  BY TypeStep DEF BooksInv
<1>2. CASE UNCHANGED vars
  <2>1. UNCHANGED <<todo, transactions, books, scan>>
    BY <1>2 DEF vars, holdings
  <2>2. CountsFirst' /\ AmountsType'
    BY <2>1 DEF BooksInv, CountsFirst, AmountsType, Priced, Worth, OutputOf, books
  <2>3. HistInv' /\ TotalsInv'
    BY <2>1 DEF BooksInv, HistInv, TotalsInv, Recounting, Running, Top, books
  <2> QED BY <1>1, <2>2, <2>3 DEF BooksInv
<1>3. CASE Next
  BY <1>1, <1>3, NotCounted, BooksKept, BooksStartCount, BooksCount, BooksEndCount DEF Count
<1> QED BY <1>2, <1>3

LEMMA BooksAlways == Spec => []BooksInv
BY BooksInit, BooksStep, PTL DEF Spec

\* Whoever gets the lock finds an entry of balanceHist for every transaction
\* of the list, whatever order transactions confirm in.
THEOREM HistoryCompleteHolds == Spec => []HistoryComplete
<1>1. BooksInv => HistoryComplete
  BY DEF BooksInv, HistInv, HistoryComplete, LockHeld, Recounting, Running, Idle, Top
<1> QED BY <1>1, BooksAlways, PTL

\* Whoever gets the lock finds the balance to be what was received less what
\* was sent: the two totals are added up by different branches of the recount.
THEOREM TotalsAgreeHolds == Spec => []TotalsAgree
<1>1. BooksInv => TotalsAgree
  BY DEF BooksInv, TotalsInv, TotalsAgree, LockHeld, Recounting, Running, Idle, Top
<1> QED BY <1>1, BooksAlways, PTL

-----------------------------------------------------------------------------
(***************************************************************************)
(* What the books say, when transactions confirm after what they spend.    *)
(***************************************************************************)
\* Unless a recount is called for, no transaction joins the list and none that
\* was confirmed is unconfirmed.
StaysConfirmed ==
  \/ Running("recount")'
  \/ /\ Registered' \subseteq Registered
     /\ \A t \in Registered' : height'[t] = TX_UNCONFIRMED => height[t] = TX_UNCONFIRMED

LEMMA ConfirmedStays ==
  ASSUME ~ OutOfOrder, SafeInv, BooksInv, Next
  PROVE  StaysConfirmed
<1>1. TypeInv'
  BY TypeStep DEF SafeInv
<1>2. ASSUME NEW t \in Tx, NEW ts \in Stamps \cup {0}, RegisterWalletTx(t, ts)
      PROVE  Running("recount")'
  <2> DEFINE fs == <<Recount>> \o Unused(0) \o <<Frame("added", t, 0, 0)>>
  <2>1. todo' = fs
    BY <1>2 DEF RegisterWalletTx, Start
  <2>2. /\ fs \in Seq(Frames) /\ fs # <<>> /\ fs[1].op = "recount"
        /\ \A j \in DOMAIN fs : j # 1 => ~ Counts(fs[j])
    BY StartFrames DEF BooksInv
  <2> HIDE DEF fs
  <2> QED BY <2>1, <2>2, Started DEF Running
<1>3. CASE RemoveTransaction
  <2> DEFINE fs == AfterRemoval(Top.tx)
  <2>1. todo # <<>> /\ Top.tx \in Tx /\ Continue(fs)
    BY <1>3, TypeInvOK, TopType DEF RemoveTransaction, Running, BooksInv
  <2>2. /\ fs \in Seq(Frames) /\ fs # <<>> /\ fs[1].op = "recount"
        /\ \A j \in DOMAIN fs : j # 1 => Plain(fs[j])
    BY <2>1, RemovalFrames DEF BooksInv
  <2> HIDE DEF fs
  <2> QED BY <2>1, <2>2, Continued DEF Running, Plain, Counts, BooksInv, StaysConfirmed
<1>4. CASE SetWalletTx
  <2>1. Registered' = Registered /\ height' = [height EXCEPT ![Top.tx] = Top.h]
    BY <1>1, <1>4, SafeSetWalletTx DEF SetWalletTx, SetHeight
  <2>2. Top.tx \in Tx /\ height[Top.tx] \in {Top.h, TX_UNCONFIRMED}
    BY <1>4, TopSet DEF SetWalletTx
  <2>3. Registered \subseteq Tx /\ height \in [Tx -> Nat]
    BY HeightNat DEF SafeInv
  <2> QED BY <2>1, <2>2, <2>3 DEF StaysConfirmed
<1>5. CASE SetOtherTx
  BY <1>1, <1>5, SafeSetOtherTx DEF StaysConfirmed
<1>6. ASSUME NEW t \in Tx, NEW ts \in Stamps \cup {0}, RegisterOtherTx(t, ts)
      PROVE  StaysConfirmed
  <2>1. t \notin Registered /\ Registered' = Registered /\ Registered \subseteq Tx
    BY <1>6, HeightNat DEF RegisterOtherTx, Learn, SafeInv, ListInv, Registered
  <2>2. height' = [height EXCEPT ![t] = TX_UNCONFIRMED] /\ height \in [Tx -> Nat]
    BY <1>6, HeightNat DEF RegisterOtherTx, Learn, SafeInv
  <2> QED BY <2>1, <2>2 DEF StaysConfirmed
<1>7. ASSUME NEW h \in Heights \cup {0}, SetTxUnconfirmedAfter(h)
      PROVE  StaysConfirmed
  <2>1. CASE ConfirmedAfter(h) = {}
    <3>1. \A t \in Tx : height'[t] = height[t]
      BY <1>7, <2>1 DEF SetTxUnconfirmedAfter
    <3>2. Registered' = Registered /\ Registered \subseteq Tx
      BY <1>7, HeightNat DEF SetTxUnconfirmedAfter, Registered, SafeInv
    <3> QED BY <3>1, <3>2 DEF StaysConfirmed
  <2>2. CASE ConfirmedAfter(h) # {}
    <3> DEFINE fs == <<Recount, Frame("updated", "unknown", TX_UNCONFIRMED, 0)>>
    <3>1. todo' = fs
      BY <1>7, <2>2 DEF SetTxUnconfirmedAfter, Start
    <3>2. Head(fs) = Recount /\ fs # <<>>
      OBVIOUS
    <3> HIDE DEF fs
    <3> QED BY <3>1, <3>2 DEF StaysConfirmed, Running, Top, Recount, Frame
  <2> QED BY <2>1, <2>2
<1>8. ASSUME ~ RemoveTransaction, ~ SetWalletTx, ~ SetOtherTx, ~ Register,
             ~ \E h \in Heights \cup {0} : SetTxUnconfirmedAfter(h)
      PROVE  UNCHANGED <<transactions, height>>
  BY <1>8 DEF Next, Work, holdings, StartCount, Count, CountInvalid,
     CountPending, CountOutputs, EndCount, UnusedAddrs, RemoveUnknown, RemoveDependants,
     SkipTx, EndSet, TellAdded, TellRemoved, TellUpdated, StartRemove,
     ConfirmTxs, MarkVerified, MarkUnverified, UpdateTransactions,
     LoadFilterAddrs, NextAddress, Tick
<1>9. UNCHANGED <<transactions, height>> => StaysConfirmed
  BY DEF StaysConfirmed, Registered
<1> QED BY <1>2, <1>3, <1>4, <1>5, <1>6, <1>7, <1>8, <1>9 DEF Register, StaysConfirmed

\* What the listener is told is the balance.
LEMMA ToldBalance ==
  ASSUME TypeInv, [Next]_vars
  PROVE  told'.balance \in {told.balance, balance}
<1>1. CASE TellAdded \/ TellRemoved \/ TellUpdated
  BY <1>1 DEF TellAdded, TellRemoved, TellUpdated, TypeInv, ToldType
<1>2. CASE ~ (TellAdded \/ TellRemoved \/ TellUpdated)
  <2>1. UNCHANGED told
    BY <1>2 DEF Next, Work, Register, vars, StartCount, Count, CountInvalid,
     CountPending, CountOutputs, EndCount, UnusedAddrs, RemoveUnknown, RemoveDependants,
     RemoveTransaction, SkipTx, SetWalletTx, SetOtherTx, EndSet, StartRemove,
     ConfirmTxs, MarkVerified, MarkUnverified, UpdateTransactions,
     SetTxUnconfirmedAfter, LoadFilterAddrs, NextAddress, Tick, RegisterOtherTx, RegisterWalletTx
  <2> QED BY <2>1
<1> QED BY <1>1, <1>2

LEMMA SoundInit == Init => SoundInv
<1> SUFFICES ASSUME Init PROVE SoundInv
  OBVIOUS
<1>1. SafeInv /\ BooksInv
  BY SafeInit, BooksInit
<1>2. WorthInv
  <2>1. ~ Recounting /\ Registered = {} /\ balance = 0 /\ utxos = {}
    BY EmptySeq DEF Init, Recounting, Running, Registered
  <2> QED BY <2>1, AmountEmpty DEF WorthInv, Recounting
<1>3. NoUnderflow
  BY DEF Init, NoUnderflow, NoScan
<1> QED BY <1>1, <1>2, <1>3 DEF SoundInv

LEMMA SoundAlone ==
  ASSUME SoundInv, LeftAlone, StaysConfirmed, told'.balance \in {told.balance, balance}
  PROVE  WorthInv' /\ NoUnderflow'
<1>1. UNCHANGED <<balance, utxos, scan, invalidTx, balanceHist, totalSent, totalReceived>>
  BY DEF LeftAlone, books
<1>2. NoUnderflow'
  BY <1>1 DEF SoundInv, NoUnderflow
<1>3. CASE Running("recount")'
  <2>1. ~ Running("count")' /\ Recounting'
    BY <1>3 DEF Running, Recounting
  <2> QED BY <1>2, <2>1 DEF WorthInv
<1>4. CASE ~ Running("recount")'
  <2>1. ~ Recounting /\ ~ Recounting'
    BY <1>4 DEF LeftAlone
  <2>2. ASSUME NEW t \in Registered' \ invalidTx', NEW u \in Registered' \ invalidTx'
        PROVE  ~ Conflicts(t, u)'
    BY <1>1, <1>4, <2>1, <2>2 DEF StaysConfirmed, SoundInv, WorthInv, Conflicts
  <2>3. balance' = Amount(utxos)'
    BY <1>1, <2>1 DEF SoundInv, WorthInv
  <2> QED BY <1>2, <2>1, <2>2, <2>3 DEF WorthInv, Recounting
<1> QED BY <1>3, <1>4

LEMMA SoundStartCount ==
  ASSUME SoundInv, BooksInv', StartCount, told'.balance \in {told.balance, balance}
  PROVE  WorthInv' /\ NoUnderflow'
<1>1. /\ scan' = NoScan /\ utxos' = {} /\ balanceHist' = <<>> /\ UNCHANGED balance
      /\ totalSent' = 0 /\ totalReceived' = 0
  BY DEF StartCount
<1>2. NoUnderflow'
  BY <1>1 DEF NoUnderflow, NoScan, SoundInv
<1>3. Running("count")'
  <2> DEFINE f == Frame("count", "unknown", 0, 0)
  <2>1. todo # <<>> /\ f \in Frames /\ Continue(<<f>>) /\ f.op = "count"
    BY TypeInvOK, FrameType DEF StartCount, Running, SoundInv, BooksInv, Frame
  <2> HIDE DEF f
  <2>2. <<f>> \in Seq(Frames) /\ \A j \in DOMAIN <<f>> : j # 1 => ~ Counts(<<f>>[j])
    BY <2>1
  <2> QED BY <2>1, <2>2, Continued DEF SoundInv, BooksInv, Running
<1>4. scan'.bal = 0 /\ scan'.i - 1 = 0 /\ utxos' = {}
  BY <1>1 DEF NoScan
<1>5. CountedTo(0)'
  BY <1>4 DEF CountedTo
<1>6. Amount(utxos)' = 0
  BY <1>4, AmountEmpty
<1> QED BY <1>2, <1>3, <1>4, <1>5, <1>6 DEF WorthInv, Recounting

\* One more transaction: the outputs it brings are new to utxos, and it spends
\* nothing that what was counted before spends, or it is confirmed or invalid.
LEMMA CountedNext ==
  ASSUME SoundInv, NEW t \in Tx, Counting(t),
         CountInvalid(t) \/ CountPending(t) \/ CountOutputs(t),
         NEW CONSTANT n, n = scan.i
  PROVE  CountedTo(n)'
<1>1. n \in Nat \ {0} /\ CountedTo(n - 1) /\ t = transactions[n] /\ n <= Len(transactions)
  BY DEF Counting, SoundInv, WorthInv, BooksInv, TypeInv, ScanType
<1>2. UNCHANGED <<transactions, height>> /\ invalidTx \subseteq invalidTx' /\ spentOutputs \subseteq spentOutputs'
      /\ utxos' \subseteq utxos \cup NewUtxos(t)
  BY DEF CountInvalid, CountPending, CountOutputs, holdings, SpentWith
<1>3. t \notin invalidTx' => /\ Body[t].ins \subseteq spentOutputs'
                             /\ height[t] = TX_UNCONFIRMED => Body[t].ins \cap spentOutputs = {}
  BY DEF CountInvalid, CountPending, CountOutputs, HasBadInput, SpentWith
<1>4. 1 .. n = (1 .. n - 1) \cup {n}
  BY <1>1
<1>5. \A o \in utxos' : \E i \in 1 .. n : o.tx = transactions[i]
  <2>1. \A o \in NewUtxos(t) : o.tx = t
    BY NewPriced
  <2> QED BY <1>1, <1>2, <1>4, <2>1 DEF CountedTo
<1>6. \A i \in 1 .. n : transactions[i] \notin invalidTx' => Body[transactions[i]].ins \subseteq spentOutputs'
  BY <1>1, <1>2, <1>3, <1>4 DEF CountedTo
<1>7. ASSUME NEW i \in 1 .. n, NEW j \in 1 .. n, i < j, transactions[i] \notin invalidTx',
             transactions[j] \notin invalidTx', height[transactions[j]] = TX_UNCONFIRMED
      PROVE  Body[transactions[i]].ins \cap Body[transactions[j]].ins = {}
  <2>1. i \in 1 .. n - 1 /\ transactions[i] \notin invalidTx
    BY <1>1, <1>2, <1>7
  <2>2. CASE j = n
    <3>1. Body[t].ins \cap spentOutputs = {}
      BY <1>1, <1>3, <1>7, <2>2
    <3>2. Body[transactions[i]].ins \subseteq spentOutputs
      BY <1>1, <2>1 DEF CountedTo
    <3> QED BY <1>1, <2>2, <3>1, <3>2
  <2>3. CASE j \in 1 .. n - 1
    BY <1>1, <1>2, <1>7, <2>1, <2>3 DEF CountedTo
  <2> QED BY <2>2, <2>3, <1>4
<1> QED BY <1>2, <1>5, <1>6, <1>7 DEF CountedTo

\* What the scan makes of one more transaction.
LEMMA SoundCount ==
  ASSUME SoundInv, BooksInv', NEW t \in Tx, CountInvalid(t) \/ CountPending(t) \/ CountOutputs(t)
  PROVE  WorthInv' /\ NoUnderflow'
<1>1. /\ Counting(t) /\ UNCHANGED <<todo, balance, told>> /\ scan.i \in Nat \ {0}
      /\ Running("count") /\ t = transactions[scan.i]
      /\ scan.bal = Amount(utxos) /\ scan.bal = scan.prev /\ CountedTo(scan.i - 1)
      /\ Priced(utxos) /\ scan.bal \in Nat /\ DOMAIN scan = {"i", "bal", "prev"}
      /\ totalSent \in Nat /\ totalReceived \in Nat /\ balanceHist \in Seq(Nat)
  BY DEF CountInvalid, CountPending, CountOutputs, Counting, SoundInv, WorthInv, BooksInv,
         TypeInv, ScanType, TotalsInv, AmountsType, NoUnderflow
<1>2. scan'.i = scan.i + 1
  BY <1>1 DEF CountInvalid, CountPending, CountOutputs
<1>3. /\ scan'.bal = Amount(utxos') /\ scan'.bal \in Nat /\ scan'.prev \in Nat
      /\ totalSent' \in Nat /\ totalReceived' \in Nat /\ balanceHist' = Append(balanceHist, scan'.bal)
  <2>1. CASE CountInvalid(t) \/ CountPending(t)
    BY <1>1, <2>1 DEF CountInvalid, CountPending
  <2>2. CASE CountOutputs(t)
    <3> DEFINE b == BalanceWith(t)
    <3>1. /\ totalReceived' = totalReceived + Gain(scan.prev, b)
          /\ totalSent' = totalSent + Gain(b, scan.prev)
          /\ balanceHist' = Append(balanceHist, b)
          /\ scan' = [i |-> scan.i + 1, bal |-> b, prev |-> b]
          /\ utxos' = (utxos \cup NewUtxos(t)) \ SpentWith(t)
      BY <2>2 DEF CountOutputs
    <3>2. utxos \cap NewUtxos(t) = {}
      <4>1. \A o \in NewUtxos(t) : o.tx = t
        BY NewPriced
      <4>2. \A o \in utxos : \E i \in 1 .. scan.i - 1 : o.tx = transactions[i]
        BY <1>1 DEF CountedTo
      <4>3. \A i \in 1 .. scan.i - 1 : transactions[i] # t
        <5>1. scan.i \in DOMAIN transactions /\ \A i \in 1 .. scan.i - 1 : i \in DOMAIN transactions /\ i # scan.i
          BY <1>1, LenProperties DEF Counting, SoundInv, SafeInv, TypeInv, HoldingsType
        <5> QED BY <1>1, <5>1 DEF SoundInv, SafeInv, ListInv, Distinct
      <4> QED BY <4>1, <4>2, <4>3
    <3>3. Priced(utxos') /\ b = Amount(utxos')
      <4>1. Priced(NewUtxos(t))
        BY NewPriced
      <4>2. /\ Priced((utxos \cup NewUtxos(t)) \ SpentWith(t))
            /\ Amount(utxos) + Amount(NewUtxos(t)) - Amount((utxos \cup NewUtxos(t)) \cap SpentWith(t))
                 = Amount((utxos \cup NewUtxos(t)) \ SpentWith(t))
        <5>1. Priced(utxos)
          BY <1>1
        <5> DEFINE N == NewUtxos(t)
                   X == SpentWith(t)
        <5>2. Priced(N) /\ utxos \cap N = {}
          BY <3>2, <4>1
        <5> HIDE DEF N, X
        <5>3. Exchanged(utxos, N, X)
          BY <5>1, <5>2, AmountChange
        <5> QED BY <5>3 DEF N, X, Exchanged
      <4>3. b = Amount(utxos) + Amount(NewUtxos(t)) - Amount((utxos \cup NewUtxos(t)) \cap SpentWith(t))
        BY <1>1 DEF BalanceWith
      <4> QED BY <3>1, <4>2, <4>3
    <3> HIDE DEF b
    <3>4. b \in Nat
      BY <3>3, AmountNat
    <3>5. Gain(scan.prev, b) \in Nat /\ Gain(b, scan.prev) \in Nat
      BY <1>1, <3>4 DEF Gain
    <3>6. scan'.bal = b /\ scan'.prev = b
      BY <3>1
    <3>7. totalReceived' \in Nat /\ totalSent' \in Nat
      BY <1>1, <3>1, <3>5
    <3>8. balanceHist' = Append(balanceHist, scan'.bal) /\ scan'.bal = Amount(utxos')
      BY <3>1, <3>3, <3>6
    <3> QED BY <3>4, <3>6, <3>7, <3>8
  <2> QED BY <2>1, <2>2
<1>4. CountedTo(scan.i - 1)'
  <2>1. PICK n \in Nat : n = scan.i
    BY <1>1
  <2>2. CountedTo(n)'
    BY <1>1, <2>1, CountedNext
  <2>3. scan'.i - 1 = n
    BY <1>2, <2>1
  <2> QED BY <2>2, <2>3 DEF CountedTo
<1>5. Running("count")'
  BY <1>1 DEF Running, Top
<1>6. balanceHist' \in Seq(Nat)
  BY <1>1, <1>3, AppendProperties
<1>7. NoUnderflow'
  BY <1>1, <1>3, <1>6 DEF NoUnderflow, SoundInv
<1>8. Amount(utxos)' = Amount(utxos')
  OBVIOUS
<1> QED BY <1>3, <1>4, <1>5, <1>7, <1>8 DEF WorthInv, Recounting

\* The list is sorted, so of two of which one is unconfirmed the later is.
LEMMA SoundEndCount ==
  ASSUME SoundInv, BooksInv', EndCount
  PROVE  WorthInv' /\ NoUnderflow'
<1>1. /\ Running("count") /\ scan.i > Len(transactions) /\ balance' = scan.bal /\ scan' = NoScan
      /\ UNCHANGED <<transactions, height, utxos, invalidTx, balanceHist, totalSent, totalReceived, told>>
  BY DEF EndCount, holdings
<1>2. ~ Recounting'
  <2>1. <<>> \in Seq(Frames) /\ \A j \in DOMAIN <<>> : j # 1 => ~ Counts(<<>>[j])
    OBVIOUS
  <2>2. todo # <<>> /\ Continue(<<>>)
    BY DEF EndCount, Running
  <2> QED BY <2>1, <2>2, Continued DEF SoundInv, BooksInv
<1>3. NoUnderflow'
  BY <1>1 DEF NoUnderflow, SoundInv, NoScan
<1>4. /\ Len(transactions) \in Nat /\ DOMAIN transactions = 1 .. Len(transactions)
      /\ \A t \in Registered : height[t] \in Nat /\ height[t] <= TX_UNCONFIRMED
      /\ TX_UNCONFIRMED \in Nat
  BY LenProperties, HeightNat DEF SoundInv, SafeInv, TypeInv, HoldingsType
<1>5. CountedTo(Len(transactions))
  <2>1. scan.i - 1 = Len(transactions)
    BY <1>1, <1>4 DEF SoundInv, BooksInv, HistInv, TypeInv, ScanType
  <2> QED BY <1>1, <2>1 DEF SoundInv, WorthInv
<1>6. ASSUME NEW i \in DOMAIN transactions, NEW j \in DOMAIN transactions, i < j,
             transactions[i] \notin invalidTx, transactions[j] \notin invalidTx,
             TX_UNCONFIRMED \in {height[transactions[i]], height[transactions[j]]}
      PROVE  Body[transactions[i]].ins \cap Body[transactions[j]].ins = {}
  <2>1. height[transactions[i]] <= height[transactions[j]]
    BY <1>6 DEF SoundInv, SafeInv, ListInv, Sorted
  <2>2. transactions[i] \in Registered /\ transactions[j] \in Registered
    BY DEF Registered
  <2>3. height[transactions[j]] = TX_UNCONFIRMED
    BY <1>4, <1>6, <2>1, <2>2
  <2> QED BY <1>4, <1>5, <1>6, <2>3 DEF CountedTo
<1>7. ASSUME NEW t \in Registered' \ invalidTx', NEW u \in Registered' \ invalidTx'
      PROVE  ~ Conflicts(t, u)'
  <2>1. PICK i \in DOMAIN transactions : t = transactions[i]
    BY <1>1 DEF Registered
  <2>2. PICK j \in DOMAIN transactions : u = transactions[j]
    BY <1>1 DEF Registered
  <2>3. CASE i = j
    BY <2>1, <2>2, <2>3 DEF Conflicts
  <2>4. CASE i < j
    BY <1>1, <1>6, <1>7, <2>1, <2>2, <2>4 DEF Conflicts
  <2>5. CASE j < i
    BY <1>1, <1>6, <1>7, <2>1, <2>2, <2>5 DEF Conflicts
  <2> QED BY <1>4, <2>3, <2>4, <2>5
<1>8. balance' = Amount(utxos)'
  <2>1. Amount(utxos)' = Amount(utxos)
    BY <1>1
  <2> QED BY <1>1, <2>1 DEF SoundInv, WorthInv
<1> QED BY <1>2, <1>3, <1>7, <1>8 DEF WorthInv, Recounting

LEMMA SoundStep ==
  ASSUME ~ OutOfOrder, SoundInv, [Next]_vars
  PROVE  SoundInv'
<1>1. SafeInv' /\ BooksInv' /\ told'.balance \in {told.balance, balance}
  BY SafeStep, BooksStep, ToldBalance DEF SoundInv, BooksInv
<1>2. CASE UNCHANGED vars
  <2>1. Amount(utxos)' = Amount(utxos)
    BY <1>2 DEF vars, books
  <2>2. UNCHANGED <<todo, scan, balance, totalSent, totalReceived, utxos, balanceHist, told,
                    spentOutputs, invalidTx, transactions, height>>
    BY <1>2 DEF vars, books, holdings
  <2>3. NoUnderflow'
    BY <2>2 DEF SoundInv, NoUnderflow
  <2>4. /\ (Running("count") <=> Running("count")') /\ (Recounting <=> Recounting')
        /\ Registered' = Registered /\ (CountedTo(scan.i - 1) <=> CountedTo(scan.i - 1)')
    BY <2>2 DEF Recounting, Running, Top, Registered, CountedTo
  <2>5. \A t, u \in Registered : Conflicts(t, u) <=> Conflicts(t, u)'
    BY <2>2 DEF Conflicts
  <2>6. WorthInv'
    BY <2>1, <2>2, <2>4, <2>5 DEF SoundInv, WorthInv
  <2> QED BY <1>1, <2>3, <2>6 DEF SoundInv
<1>3. CASE Next
  <2>1. CASE StartCount
    BY <1>1, <2>1, SoundStartCount DEF SoundInv
  <2>2. CASE Count
    BY <1>1, <2>2, SoundCount DEF SoundInv, Count
  <2>3. CASE EndCount
    BY <1>1, <2>3, SoundEndCount DEF SoundInv
  <2>4. CASE LeftAlone
    <3>1. StaysConfirmed
      BY <1>3, ConfirmedStays DEF SoundInv
    <3> QED BY <1>1, <2>4, <3>1, SoundAlone DEF SoundInv
  <2> QED BY <1>3, <2>1, <2>2, <2>3, <2>4, NotCounted DEF SoundInv
<1> QED BY <1>2, <1>3

LEMMA SoundAlways == ~ OutOfOrder /\ Spec => []SoundInv
<1> SUFFICES ASSUME ~ OutOfOrder PROVE Spec => []SoundInv
  OBVIOUS
<1>1. SoundInv /\ [Next]_vars => SoundInv'
  BY SoundStep
<1> QED BY <1>1, SoundInit, PTL DEF Spec

\* Whoever gets the lock finds the balance, which _BRWalletUpdateBalance adds up
\* and decrements as it scans, to be the worth of the unspent outputs it left.
THEOREM BalanceIsUtxosHolds == ~ OutOfOrder /\ Spec => []BalanceIsUtxos
<1>1. SoundInv => BalanceIsUtxos
  BY DEF SoundInv, WorthInv, BalanceIsUtxos, LockHeld, Recounting, Running, Idle, Top
<1> QED BY <1>1, SoundAlways, PTL

\* Of two transactions that spend one output the wallet counts one as invalid,
\* unless both are confirmed; confirmations between two recounts only take
\* pairs out of those it has to tell apart.
THEOREM ConflictFreeHolds == ~ OutOfOrder /\ Spec => []ConflictFree
<1>1. SoundInv => ConflictFree
  BY DEF SoundInv, WorthInv, Conflicts, ConflictFree, LockHeld, Recounting, Running, Idle, Top
<1> QED BY <1>1, SoundAlways, PTL

\* Neither the running balance nor a total is ever taken below 0: the unsigned
\* arithmetic of _BRWalletUpdateBalance does not wrap.
THEOREM NoUnderflowHolds == ~ OutOfOrder /\ Spec => []NoUnderflow
<1>1. SoundInv => NoUnderflow
  BY DEF SoundInv
<1> QED BY <1>1, SoundAlways, PTL

-----------------------------------------------------------------------------
(***************************************************************************)
(* The gaps of the address chains.  While a registration is in progress,   *)
(* for each chain the frame that grows it is left, or it ends in a gap,    *)
(* which no count changes any more.                                        *)
(***************************************************************************)
UnusedFrame(c) ==
  Frame(IF c = "external" THEN "unusedExternal" ELSE "unusedInternal", "unknown", GAP_LIMIT[c], 0)

Follows(i, c) == \E j \in DOMAIN todo : j < i /\ todo[j] = UnusedFrame(c)

RegistrationInv ==
  \A i \in DOMAIN todo : todo[i].op = "added" =>
    /\ \A j \in DOMAIN todo : todo[j].op \in RegistrationOps
    /\ \A c \in Chains : Follows(i, c) \/ (~ Recounting /\ UnusedGap(c))

GapInv == (\A c \in Chains : chainLen[c] >= GAP_LIMIT[c]) /\ RegistrationInv

\* No growth makes a gap shorter than the limit.
LEMMA GapGrows ==
  ASSUME TypeInv, NEW c \in Chains, NEW gap \in Nat, GrowChain(c, gap), UNCHANGED usedAddrs,
         NEW d \in Chains, chainLen[d] >= GAP_LIMIT[d]
  PROVE  /\ chainLen'[d] >= GAP_LIMIT[d]
         /\ UnusedGap(d) => UnusedGap(d)'
         /\ c = d /\ gap = GAP_LIMIT[d] => UnusedGap(d)'
<1> DEFINE n == GrownLen(c, gap)
           used == UsedIndexes(d)
<1>1. /\ n \in Nat /\ n >= chainLen[c] /\ UsedIndexes(c) \cap (n - gap) .. (n - 1) = {}
      /\ chainLen[c] >= gap /\ UsedIndexes(c) \cap (chainLen[c] - gap) .. (chainLen[c] - 1) = {}
           => n = chainLen[c]
  BY Grown DEF TypeInv, ChainType, BooksType
<1>2. chainLen \in [Chains -> Nat] /\ GAP_LIMIT[d] \in Nat /\ chainLen' = [chainLen EXCEPT ![c] = n]
  BY LimitAssumption DEF TypeInv, ChainType, GrowChain
<1>3. UsedIndexes(d)' = used
  BY DEF UsedIndexes
<1>4. CASE c # d
  <2>1. chainLen'[d] = chainLen[d]
    BY <1>2, <1>4
  <2> QED BY <1>3, <1>4, <2>1 DEF UnusedGap
<1>5. CASE c = d
  <2> HIDE DEF n, used
  <2>1. chainLen'[d] = n /\ chainLen[d] \in Nat
    BY <1>2, <1>5
  <2>2. used \cap (n - gap) .. (n - 1) = {} /\ n >= chainLen[d]
    BY <1>1, <1>5 DEF used
  <2>3. ASSUME UnusedGap(d) PROVE used \cap (n - GAP_LIMIT[d]) .. (n - 1) = {}
    <3>1. used \cap (chainLen[d] - GAP_LIMIT[d]) .. (chainLen[d] - 1) = {}
      BY <2>3 DEF UnusedGap, used
    <3>2. CASE gap <= GAP_LIMIT[d]
      <4>1. chainLen[d] >= gap /\ (chainLen[d] - gap) .. (chainLen[d] - 1)
                                    \subseteq (chainLen[d] - GAP_LIMIT[d]) .. (chainLen[d] - 1)
        BY <1>2, <2>1, <3>2
      <4>2. n = chainLen[d]
        BY <1>1, <1>5, <3>1, <4>1 DEF used
      <4> QED BY <3>1, <4>2
    <3>3. CASE ~ (gap <= GAP_LIMIT[d])
      <4>1. (n - GAP_LIMIT[d]) .. (n - 1) \subseteq (n - gap) .. (n - 1)
        BY <1>1, <1>2, <3>3
      <4> QED BY <2>2, <4>1
    <3> QED BY <3>2, <3>3
  <2>4. n >= GAP_LIMIT[d]
    BY <1>1, <1>2, <2>1, <2>2
  <2> QED BY <1>3, <2>1, <2>2, <2>3, <2>4 DEF UnusedGap
<1> QED BY <1>4, <1>5

\* The frame on top is done.
LEMMA GapReturn ==
  ASSUME BooksInv, GapInv, todo # <<>>, Continue(<<>>),
         \A c \in Chains : chainLen'[c] >= GAP_LIMIT[c],
         \A c \in Chains : UnusedGap(c) \/ Top = UnusedFrame(c) => UnusedGap(c)'
  PROVE  GapInv'
<1>1. ~ Recounting'
  <2>1. <<>> \in Seq(Frames) /\ \A j \in DOMAIN <<>> : j # 1 => ~ Counts(<<>>[j])
    OBVIOUS
  <2> QED BY <2>1, Continued DEF BooksInv
<1>2. todo' = Tail(todo)
  <2>1. Tail(todo) \in Seq(Frames)
    BY FrameType, TypeInvOK DEF BooksInv
  <2> QED BY <2>1, ConcatEmptySeq DEF Continue
<1>3. /\ DOMAIN todo' = 1 .. Len(todo) - 1 /\ DOMAIN todo = 1 .. Len(todo) /\ Len(todo) \in Nat
      /\ \A i \in DOMAIN todo' : todo'[i] = todo[i + 1] /\ i + 1 \in DOMAIN todo
      /\ Top = todo[1]
  BY <1>2, TodoShape DEF BooksInv
<1>4. ASSUME NEW i \in DOMAIN todo', todo'[i].op = "added"
      PROVE  /\ \A j \in DOMAIN todo' : todo'[j].op \in RegistrationOps
             /\ \A c \in Chains : Follows(i, c)' \/ UnusedGap(c)'
  <2>1. /\ \A j \in DOMAIN todo : todo[j].op \in RegistrationOps
        /\ \A c \in Chains : Follows(i + 1, c) \/ UnusedGap(c)
    BY <1>3, <1>4 DEF GapInv, RegistrationInv
  <2>2. ASSUME NEW c \in Chains, Follows(i + 1, c), Top # UnusedFrame(c) PROVE Follows(i, c)'
    <3>1. PICK j \in DOMAIN todo : j < i + 1 /\ todo[j] = UnusedFrame(c)
      BY <2>2 DEF Follows
    <3>2. j # 1
      BY <1>3, <2>2, <3>1
    <3>3. j - 1 \in DOMAIN todo' /\ j - 1 < i /\ (j - 1) + 1 = j
      BY <1>3, <3>1, <3>2
    <3> QED BY <1>3, <3>1, <3>3 DEF Follows
  <2> QED BY <1>3, <2>1, <2>2
<1> QED BY <1>1, <1>4 DEF GapInv, RegistrationInv

LEMMA GapOther ==
  ASSUME BooksInv, GapInv, UNCHANGED chainLen, OtherWork
  PROVE  GapInv'
<1>1. PICK fs \in Seq(Frames) :
        /\ \A j \in DOMAIN fs : fs[j].op # "added"
        /\ Start(fs) \/ (todo # <<>> /\ Top.op \notin RegistrationOps /\ Continue(fs))
  BY DEF OtherWork
<1>2. ASSUME NEW i \in DOMAIN todo' PROVE todo'[i].op # "added"
  <2>1. CASE Start(fs)
    BY <1>1, <2>1 DEF Start
  <2>2. CASE todo # <<>> /\ Top.op \notin RegistrationOps /\ Continue(fs)
    <3>1. \A j \in DOMAIN todo : todo[j].op # "added"
      <4>1. 1 \in DOMAIN todo /\ Top = todo[1]
        BY <2>2, TodoShape DEF BooksInv
      <4> QED BY <2>2, <4>1 DEF GapInv, RegistrationInv
    <3>2. (\E j \in DOMAIN fs : todo'[i] = fs[j]) \/ (\E j \in DOMAIN todo : todo'[i] = todo[j])
      BY <2>2, Pushed DEF BooksInv
    <3> QED BY <1>1, <3>1, <3>2
  <2> QED BY <1>1, <2>1, <2>2
<1> QED BY <1>2 DEF GapInv, RegistrationInv

LEMMA GapInit == Init => GapInv
<1> SUFFICES ASSUME Init PROVE GapInv
  OBVIOUS
<1>1. \A c \in Chains : chainLen[c] >= GAP_LIMIT[c]
  BY LimitAssumption DEF Init
<1>2. DOMAIN todo = {}
  BY EmptySeq DEF Init
<1> QED BY <1>1, <1>2 DEF GapInv, RegistrationInv

\* a recount, before or under way, comes before the chains are grown
LEMMA GapCount ==
  ASSUME BooksInv, GapInv, StartCount \/ Count
  PROVE  GapInv'
<1>1. Recounting /\ todo # <<>> /\ UNCHANGED chainLen
  BY DEF StartCount, Count, CountInvalid, CountPending, CountOutputs, Counting, Recounting, Running
<1>2. /\ DOMAIN todo' = DOMAIN todo /\ \A i \in DOMAIN todo : i # 1 => todo'[i] = todo[i]
      /\ Counts(todo[1]) /\ Counts(todo'[1]) /\ 1 \in DOMAIN todo /\ DOMAIN todo = 1 .. Len(todo)
      /\ Len(todo) \in Nat
  <2>1. /\ 1 \in DOMAIN todo /\ DOMAIN todo = 1 .. Len(todo) /\ Len(todo) \in Nat /\ Counts(todo[1])
        /\ Len(Tail(todo)) = Len(todo) - 1 /\ DOMAIN Tail(todo) = 1 .. Len(todo) - 1
        /\ \A i \in DOMAIN Tail(todo) : Tail(todo)[i] = todo[i + 1]
    BY <1>1, TodoShape DEF BooksInv, Recounting, Running, Counts
  <2>2. CASE Count
    BY <2>1, <2>2 DEF Count, CountInvalid, CountPending, CountOutputs
  <2>3. CASE StartCount
    <3> DEFINE f == Frame("count", "unknown", 0, 0)
               a == <<f>>
    <3>1. f \in Frames /\ Counts(f) /\ todo' = a \o Tail(todo)
      BY <2>3, TypeInvOK, FrameType DEF StartCount, Continue, Frame, Counts, BooksInv
    <3> HIDE DEF f
    <3>2. a \in Seq(Frames) /\ Len(a) = 1 /\ a[1] = f
      BY <3>1
    <3>3. Tail(todo) \in Seq(Frames)
      BY <1>1, TypeInvOK, FrameType DEF BooksInv
    <3> HIDE DEF a
    <3>4. /\ todo' \in Seq(Frames) /\ Len(todo') = Len(a) + Len(Tail(todo))
          /\ \A i \in 1 .. Len(a) + Len(Tail(todo)) :
               todo'[i] = IF i <= Len(a) THEN a[i] ELSE Tail(todo)[i - Len(a)]
      BY <3>1, <3>2, <3>3, ConcatProperties
    <3>5. Len(a) + Len(Tail(todo)) = Len(todo) /\ DOMAIN todo' = 1 .. Len(todo)
      BY <2>1, <3>2, <3>4, LenProperties
    <3>6. todo'[1] = f
      BY <2>1, <3>2, <3>4, <3>5
    <3>7. ASSUME NEW i \in DOMAIN todo, i # 1 PROVE todo'[i] = todo[i]
      <4>1. ~ (i <= Len(a)) /\ i - Len(a) \in DOMAIN Tail(todo) /\ (i - Len(a)) + 1 = i
        BY <2>1, <3>2, <3>7
      <4> QED BY <2>1, <3>4, <3>5, <4>1
    <3> QED BY <2>1, <3>1, <3>5, <3>6, <3>7
  <2> QED BY <2>2, <2>3
<1>3. ASSUME NEW i \in DOMAIN todo', todo'[i].op = "added"
      PROVE  /\ \A j \in DOMAIN todo' : todo'[j].op \in RegistrationOps
             /\ \A c \in Chains : Follows(i, c)'
  <2>1. i # 1 /\ i \in DOMAIN todo /\ todo[i].op = "added"
    BY <1>2, <1>3 DEF Counts
  <2>2. /\ \A j \in DOMAIN todo : todo[j].op \in RegistrationOps
        /\ \A c \in Chains : Follows(i, c)
    BY <1>1, <2>1 DEF GapInv, RegistrationInv
  <2>3. \A j \in DOMAIN todo' : todo'[j].op \in RegistrationOps
    BY <1>2, <2>2 DEF Counts, RegistrationOps
  <2>4. ASSUME NEW c \in Chains PROVE Follows(i, c)'
    <3>1. PICK j \in DOMAIN todo : j < i /\ todo[j] = UnusedFrame(c)
      BY <2>2 DEF Follows
    <3>2. j # 1
      BY <1>2, <3>1 DEF UnusedFrame, Frame, Counts
    <3> QED BY <1>2, <3>1, <3>2 DEF Follows
  <2> QED BY <2>3, <2>4
<1> QED BY <1>1, <1>3 DEF GapInv, RegistrationInv

\* the chains, by the writer or by another thread
LEMMA GapUnused ==
  ASSUME BooksInv, GapInv, UnusedAddrs
  PROVE  GapInv'
<1>1. todo # <<>> /\ Continue(<<>>) /\ Top.h \in Nat /\ UNCHANGED usedAddrs
  BY TypeInvOK, TopType DEF UnusedAddrs, Running, BooksInv, books
<1>2. PICK c \in Chains : /\ GrowChain(c, Top.h)
                          /\ Top.op = IF c = "external" THEN "unusedExternal" ELSE "unusedInternal"
  BY DEF UnusedAddrs, Running, Chains
<1>3. ASSUME NEW d \in Chains, Top = UnusedFrame(d) PROVE c = d /\ Top.h = GAP_LIMIT[d]
  BY <1>2, <1>3 DEF UnusedFrame, Frame, Chains
<1>4. ASSUME NEW d \in Chains
      PROVE  /\ chainLen'[d] >= GAP_LIMIT[d]
             /\ UnusedGap(d) \/ Top = UnusedFrame(d) => UnusedGap(d)'
  BY <1>1, <1>2, <1>3, GapGrows DEF BooksInv, GapInv
<1> QED BY <1>1, <1>4, GapReturn

LEMMA GapNextAddress ==
  ASSUME BooksInv, GapInv, NEW c \in Chains, NextAddress(c)
  PROVE  GapInv'
<1>1. GrowChain(c, 1) /\ UNCHANGED <<usedAddrs, todo>>
  BY DEF NextAddress, books
<1>2. \A d \in Chains : chainLen'[d] >= GAP_LIMIT[d] /\ (UnusedGap(d) => UnusedGap(d)')
  BY <1>1, GapGrows DEF BooksInv, GapInv
<1>3. \A i : \A d : Follows(i, d) <=> Follows(i, d)'
  BY <1>1 DEF Follows
<1>4. Recounting' <=> Recounting
  BY <1>1 DEF Recounting, Running, Top
<1> QED BY <1>1, <1>2, <1>3, <1>4 DEF GapInv, RegistrationInv

LEMMA GapRegister ==
  ASSUME BooksInv, GapInv, NEW t \in Tx, NEW ts \in Stamps \cup {0}, RegisterWalletTx(t, ts)
  PROVE  GapInv'
<1> DEFINE ext == UnusedFrame("external")
           int == UnusedFrame("internal")
           add == Frame("added", t, 0, 0)
<1>1. Unused(0) = <<ext, int>>
  <2>1. GAP_LIMIT["external"] + 0 = GAP_LIMIT["external"] /\ GAP_LIMIT["internal"] + 0 = GAP_LIMIT["internal"]
    BY LimitAssumption DEF Chains
  <2> QED BY <2>1 DEF Unused, UnusedFrame
<1>2. todo' = <<Recount>> \o Unused(0) \o <<add>> /\ UNCHANGED chainLen
  BY DEF RegisterWalletTx, Start
<1>3. /\ Recount.op = "recount" /\ ext.op = "unusedExternal" /\ int.op = "unusedInternal"
      /\ add.op = "added"
  BY DEF Recount, UnusedFrame, Frame
<1>4. Unused(0) \in Seq(Frames) /\ add \in Frames /\ Recount \in Frames
  BY TypeInvOK, FrameType DEF BooksInv
<1> HIDE DEF add, ext, int
<1>5. /\ DOMAIN todo' = 1 .. 4 /\ todo'[1] = Recount /\ todo'[2] = ext /\ todo'[3] = int
      /\ todo'[4] = add
  <2>1. Unused(0) \in Seq(Frames) /\ Len(Unused(0)) = 2 /\ Unused(0)[1] = ext /\ Unused(0)[2] = int
    BY <1>1, <1>4
  <2> DEFINE un == Unused(0)
             r == <<Recount>>
  <2>2. r \in Seq(Frames) /\ Len(r) = 1 /\ r[1] = Recount
    BY <1>4
  <2> HIDE DEF un, r
  <2> DEFINE g == r \o un
  <2>3. /\ g \in Seq(Frames) /\ Len(g) = Len(r) + Len(un)
        /\ \A i \in 1 .. Len(r) + Len(un) : g[i] = IF i <= Len(r) THEN r[i] ELSE un[i - Len(r)]
    BY <2>1, <2>2, ConcatProperties DEF un
  <2> HIDE DEF g
  <2>4. Len(g) = 3 /\ g[1] = Recount /\ g[2] = ext /\ g[3] = int
    BY <2>1, <2>2, <2>3 DEF un
  <2>5. todo' = g \o <<add>>
    BY <1>2 DEF g, un, r
  <2>6. /\ DOMAIN todo' = 1 .. Len(g) + 1
        /\ \A i \in 1 .. Len(g) + 1 : todo'[i] = IF i <= Len(g) THEN g[i] ELSE add
    BY <1>4, <2>3, <2>5, Joined
  <2>7. Len(g) + 1 = 4
    BY <2>4
  <2>8. /\ 1 \in 1 .. 4 /\ 2 \in 1 .. 4 /\ 3 \in 1 .. 4 /\ 4 \in 1 .. 4
        /\ 1 <= Len(g) /\ 2 <= Len(g) /\ 3 <= Len(g) /\ ~ (4 <= Len(g))
    BY <2>4
  <2> QED BY <2>4, <2>6, <2>7, <2>8
<1>6. \A i \in DOMAIN todo' : /\ todo'[i].op \in RegistrationOps
                              /\ todo'[i].op = "added" => i = 4
  BY <1>3, <1>5 DEF RegistrationOps
<1>7. \A c \in Chains : Follows(4, c)'
  <2>1. \A c \in Chains : UnusedFrame(c) = ext \/ UnusedFrame(c) = int
    BY DEF Chains, ext, int
  <2> QED BY <1>5, <2>1 DEF Follows
<1> QED BY <1>2, <1>6, <1>7 DEF GapInv, RegistrationInv

LEMMA GapAlone ==
  ASSUME GapInv, UNCHANGED <<todo, chainLen, usedAddrs>>
  PROVE  GapInv'
<1>1. \A i : \A d : Follows(i, d) <=> Follows(i, d)'
  BY DEF Follows
<1>2. \A d : UnusedGap(d) <=> UnusedGap(d)'
  BY DEF UnusedGap, UsedIndexes
<1>3. Recounting' <=> Recounting
  BY DEF Recounting, Running, Top
<1> QED BY <1>1, <1>2, <1>3 DEF GapInv, RegistrationInv

LEMMA GapStep ==
  ASSUME BooksInv, GapInv, [Next]_vars
  PROVE  GapInv'
<1>1. CASE UNCHANGED vars \/ Tick
  <2>1. UNCHANGED <<todo, chainLen, usedAddrs>>
    BY <1>1 DEF vars, Tick, books
  <2> QED BY <2>1, GapAlone
<1>2. CASE StartCount \/ Count
  BY <1>2, GapCount
<1>3. CASE UnusedAddrs
  BY <1>3, GapUnused
<1>4. CASE \E c \in Chains : NextAddress(c)
  BY <1>4, GapNextAddress
<1>5. CASE Register
  <2>1. ASSUME NEW t \in Tx, NEW ts \in Stamps \cup {0}, RegisterOtherTx(t, ts) PROVE GapInv'
    <3>1. UNCHANGED <<todo, chainLen, usedAddrs>>
      BY <2>1 DEF RegisterOtherTx, books
    <3> QED BY <3>1, GapAlone
  <2> QED BY <1>5, <2>1, GapRegister DEF Register
<1>6. CASE EndCount \/ RemoveUnknown \/ SkipTx \/ SetWalletTx \/ SetOtherTx \/ TellAdded
             \/ TellRemoved \/ TellUpdated
  <2>1. /\ todo # <<>> /\ Continue(<<>>) /\ UNCHANGED <<chainLen, usedAddrs>>
        /\ Top.op \notin {"unusedExternal", "unusedInternal"}
    BY <1>6 DEF EndCount, RemoveUnknown, SkipTx, SetWalletTx, SetOtherTx, TellAdded,
                TellRemoved, TellUpdated, Running, books
  <2>2. \A c \in Chains : chainLen'[c] >= GAP_LIMIT[c]
    BY <2>1 DEF GapInv
  <2>3. ASSUME NEW c \in Chains, UnusedGap(c) \/ Top = UnusedFrame(c) PROVE UnusedGap(c)'
    <3>1. Top # UnusedFrame(c)
      BY <2>1 DEF UnusedFrame, Frame
    <3> QED BY <2>1, <2>3, <3>1 DEF UnusedGap, UsedIndexes
  <2> QED BY <2>1, <2>2, <2>3, GapReturn
<1>7. CASE LoadFilterAddrs
  BY <1>7, BooksLoad, GapOther DEF LoadFilterAddrs
<1>8. CASE (\E t \in Tx : StartRemove(t)) \/ RemoveDependants \/ RemoveTransaction
  <2>1. UNCHANGED chainLen
    BY <1>8 DEF StartRemove, RemoveDependants, RemoveTransaction
  <2>2. OtherWork
    BY <1>8, BooksRemove
  <2> QED BY <2>1, <2>2, GapOther
<1>9. CASE EndSet
  BY <1>9, BooksEndSet, GapOther DEF EndSet
<1>10. ASSUME NEW txs \in Seq(Tx), NEW h \in HeightsOrUnconfirmed, NEW ts \in Stamps \cup {0},
              UpdateTransactions(txs, h, ts)
       PROVE  GapInv'
  BY <1>10, BooksUpdate, GapOther DEF UpdateTransactions
<1>11. CASE \E txs \in Blocks, h \in Heights, ts \in Stamps : ConfirmTxs(txs, h, ts)
  BY <1>10, <1>11, TxAssumption DEF ConfirmTxs, HeightsOrUnconfirmed
<1>12. CASE (\E t \in Tx, ts \in Stamps : MarkVerified(t, ts)) \/ (\E t \in Tx : MarkUnverified(t))
  <2>1. \A t \in Tx : <<t>> \in Seq(Tx)
    OBVIOUS
  <2> QED BY <1>10, <1>12, <2>1 DEF MarkVerified, MarkUnverified, HeightsOrUnconfirmed
<1>13. CASE \E h \in Heights \cup {0} : SetTxUnconfirmedAfter(h)
  BY <1>13, BooksReorganise, GapOther DEF SetTxUnconfirmedAfter
<1> QED BY <1>1, <1>2, <1>3, <1>4, <1>5, <1>6, <1>7, <1>8, <1>9, <1>11, <1>12, <1>13
        DEF Next, Work

\* When the listener hears of a new transaction both chains end in a full gap
\* of addresses no counted transaction uses: nothing between the growing of the
\* first chain and the callback, another thread taking addresses included,
\* counts transactions again.
THEOREM GapFullHolds == Spec => []GapFull
<1>1. BooksInv /\ GapInv /\ [Next]_vars => GapInv'
  BY GapStep
<1>2. BooksInv /\ GapInv => GapFull
  <2> SUFFICES ASSUME BooksInv, GapInv, Running("added") PROVE \A c \in Chains : UnusedGap(c)
    BY DEF GapFull
  <2>1. 1 \in DOMAIN todo /\ todo[1].op = "added" /\ DOMAIN todo = 1 .. Len(todo) /\ Len(todo) \in Nat
    BY TodoShape DEF Running, BooksInv
  <2>2. \A c \in Chains : ~ Follows(1, c)
    BY <2>1 DEF Follows
  <2> QED BY <2>1, <2>2 DEF GapInv, RegistrationInv
<1> QED BY <1>1, <1>2, GapInit, BooksAlways, PTL DEF Spec
=============================================================================
