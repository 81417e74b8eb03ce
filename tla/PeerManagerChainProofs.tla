----------------------- MODULE PeerManagerChainProofs -----------------------
(***************************************************************************)
(* What holds of PeerManagerChain for every tree of blocks, every          *)
(* difficulty interval and any number of peers, rescans and restarts.      *)
(***************************************************************************)
EXTENDS PeerManagerChain, Extrema, SequenceTheorems

-----------------------------------------------------------------------------
(***************************************************************************)
(* The constants and the walks.                                            *)
(***************************************************************************)
LEMMA BlockTypes ==
  /\ Checkpoints \subseteq Block /\ Birth \in Checkpoints
  /\ \A b \in Block : Height[b] \in Nat
BY BlockAssumption, CheckpointAssumption

\* The line of a block consists of blocks no higher than it.
LEMMA LineageBelow ==
  ASSUME NEW b \in Block, NEW a \in Lineage[b]
  PROVE  a \in Block /\ Height[a] <= Height[b]
<1> DEFINE Good(c) == \A d \in Lineage[c] : d \in Block /\ Height[d] <= Height[c]
           Bad == {Height[c] : c \in {d \in Block : ~ Good(d)}}
<1>1. SUFFICES ASSUME Bad # {} PROVE FALSE
  <2>1. ~ Good(b) => Height[b] \in Bad
    OBVIOUS
  <2> QED BY <2>1, <1>1
<1>2. Min(Bad) \in Bad /\ \A n \in Bad : Min(Bad) <= n
  <2>1. Bad \subseteq Nat
    BY BlockTypes
  <2> HIDE DEF Bad
  <2> QED BY <1>1, <2>1, LeastNat
<1>3. PICK c \in Block : ~ Good(c) /\ \A n \in Bad : Height[c] <= n
  BY <1>2
<1>4. PICK d \in Lineage[c] : ~ (d \in Block /\ Height[d] <= Height[c])
  BY <1>3
<1>5. Height[c] \in Nat
  BY BlockTypes
<1>6. d # c
  BY <1>4, <1>5
<1>7. Parent[c] # NoBlock /\ d \in Lineage[Parent[c]]
  BY <1>6, <1>4, BlockAssumption
<1>8. Parent[c] \in Block /\ Height[c] = Height[Parent[c]] + 1
  BY <1>7, BlockAssumption
<1>9. Height[Parent[c]] \in Nat
  BY <1>8, BlockTypes
<1>10. Good(Parent[c])
  <2>1. Height[Parent[c]] \notin Bad
    <3> HIDE DEF Bad
    <3> QED BY <1>3, <1>8, <1>9
  <2> QED BY <2>1, <1>8
<1> QED BY <1>10, <1>7, <1>8, <1>9, <1>4, BlockTypes

LEMMA LineType ==
  ASSUME NEW S, NEW b \in Block
  PROVE  Line(S, b) \subseteq Block
BY LineageBelow DEF Line

LEMMA MaxOfTwo ==
  ASSUME NEW m \in Nat, NEW n \in Nat
  PROVE  Max({m, n}) \in Nat /\ Max({m, n}) >= m /\ Max({m, n}) >= n
<1> DEFINE S == {m, n}
<1>1. S \subseteq Int /\ S # {} /\ \A x \in S : x <= m + n
  OBVIOUS
<1>2. m + n \in Int
  OBVIOUS
<1>3. Max(S) \in S /\ \A y \in S : y <= Max(S)
  <2> HIDE DEF S
  <2> QED BY <1>1, <1>2, GreatestInt
<1> QED BY <1>3

\* the heights at which a walk meets blocks have a greatest
LEMMA MaxHeight ==
  ASSUME NEW b \in Block, NEW A, A \subseteq Lineage[b], A # {}
  PROVE  \E a \in A : /\ Max({Height[c] : c \in A}) = Height[a]
                      /\ \A c \in A : Height[c] <= Height[a]
<1> DEFINE S == {Height[c] : c \in A}
<1>1. S \subseteq Int /\ S # {} /\ \A x \in S : x <= Height[b]
  BY LineageBelow, BlockTypes
<1>2. Height[b] \in Int
  BY BlockTypes
<1>3. Max(S) \in S /\ \A y \in S : y <= Max(S)
  <2> HIDE DEF S
  <2> QED BY <1>1, <1>2, GreatestInt
<1> QED BY <1>3

-----------------------------------------------------------------------------
(***************************************************************************)
(* Types.                                                                  *)
(***************************************************************************)
ConfType == [Tx -> {Height[b] : b \in Block} \cup {TX_UNCONFIRMED}]

LEMMA ConfirmedType ==
  ASSUME NEW b \in Block, conf \in ConfType
  PROVE  Confirmed(b) \in ConfType
BY DEF Confirmed, ConfType

LEMMA ReorganisedType ==
  ASSUME NEW b \in Block, NEW S, conf \in ConfType
  PROVE  Reorganised(S, b) \in ConfType
<1> DEFINE At(t) == {a \in Line(S, b) : Height[a] > JoinHeight(S, b) /\ t \in TxsOf[a]}
<1>1. ASSUME NEW t \in Tx, At(t) # {}
      PROVE  Max({Height[a] : a \in At(t)}) \in {Height[c] : c \in Block}
  <2>1. At(t) \subseteq Lineage[b]
    BY DEF Line
  <2> HIDE DEF At
  <2>2. PICK a \in At(t) : Max({Height[c] : c \in At(t)}) = Height[a]
    BY <1>1, <2>1, MaxHeight
  <2>3. a \in Block
    BY <2>1, LineageBelow
  <2> QED BY <2>2, <2>3
<1> HIDE DEF At
<1>2. ASSUME NEW t \in Tx
      PROVE  (IF At(t) # {} /\ Meeting(S, b) # {} THEN Max({Height[a] : a \in At(t)})
              ELSE IF conf[t] > JoinHeight(S, b) THEN TX_UNCONFIRMED ELSE conf[t])
             \in {Height[c] : c \in Block} \cup {TX_UNCONFIRMED}
  BY <1>1 DEF ConfType
<1>3. Reorganised(S, b) =
        [t \in Tx |-> IF At(t) # {} /\ Meeting(S, b) # {} THEN Max({Height[a] : a \in At(t)})
                      ELSE IF conf[t] > JoinHeight(S, b) THEN TX_UNCONFIRMED ELSE conf[t]]
  BY DEF Reorganised, At
<1> QED BY <1>2, <1>3 DEF ConfType

LEMMA SaveType ==
  ASSUME NEW S, S \subseteq Block
  PROVE  Save(S) \in Saves
BY DEF Save, Saves

LEMMA FreeInType ==
  ASSUME NEW s \in Saves, NEW F
  PROVE  FreeIn(s, F) \in Saves
BY DEF FreeIn, Saves

LEMMA FreedType ==
  ASSUME NEW b \in Block
  PROVE  Freed(b) \subseteq Block
BY LineType DEF Freed

LEMMA SavedType ==
  ASSUME NEW b \in Block, NEW S, NEW n
  PROVE  Saved(S, b, n) \subseteq Block
BY LineType DEF Saved

Threads == [Peer -> [next : Block \cup {NoBlock}, save : Saves]]

LEMMA LeavesType ==
  ASSUME NEW p \in Peer, NEW F, NEW n \in Block \cup {NoBlock}, NEW s \in Saves,
         thread \in Threads, queue \in Seq(Saves),
         Leaves(p, [next |-> n, save |-> s], F)
  PROVE  thread' \in Threads /\ queue' \in Seq(Saves)
<1>1. ASSUME NEW q \in Peer
      PROVE  [thread[q] EXCEPT !.save = FreeIn(@, F)] \in [next : Block \cup {NoBlock}, save : Saves]
  BY FreeInType DEF Threads
<1>2. thread' \in Threads
  BY <1>1 DEF Leaves, Threads
<1>3. /\ Len(queue) \in Nat /\ DOMAIN queue = 1 .. Len(queue)
      /\ \A i \in DOMAIN queue : queue[i] \in Saves
  OBVIOUS
<1>4. \A i \in DOMAIN queue : FreeIn(queue[i], F) \in Saves
  BY <1>3, FreeInType
<1>5. queue' \in Seq(Saves)
  BY <1>3, <1>4 DEF Leaves
<1> QED BY <1>2, <1>5

LEMMA DroppedType ==
  ASSUME NEW p \in Peer, NEW F, TypeOK, Dropped(p, F)
  PROVE  thread' \in Threads /\ queue' \in Seq(Saves) /\ estimatedHeight' \in Nat
<1>1. Save({}) \in Saves
  BY SaveType
<1>2. Leaves(p, [next |-> NoBlock, save |-> Save({})], F)
  BY DEF Dropped, NoWork
<1>3. thread \in Threads /\ queue \in Seq(Saves)
  BY DEF TypeOK, Threads
<1> QED BY <1>1, <1>2, <1>3, LeavesType DEF Dropped, TypeOK

LEMMA KeptType ==
  ASSUME NEW p \in Peer, NEW b \in Block, NEW F, NEW O, NEW S, TypeOK,
         O \subseteq Block, S \subseteq Block, Kept(p, b, O, S, F)
  PROVE  /\ thread' \in Threads /\ queue' \in Seq(Saves)
         /\ estimatedHeight' \in Nat /\ orphans' \subseteq Block
<1>1. NextOf(O, b) \in Block \cup {NoBlock}
  BY DEF NextOf
<1>2. Save(S) \in Saves
  BY SaveType
<1>3. thread \in Threads /\ queue \in Seq(Saves)
  BY DEF TypeOK, Threads
<1>4. Leaves(p, [next |-> NextOf(O, b), save |-> Save(S)], F)
  BY DEF Kept
<1>5. thread' \in Threads /\ queue' \in Seq(Saves)
  BY <1>1, <1>2, <1>3, <1>4, LeavesType
<1>6. estimatedHeight' \in Nat
  <2>1. estimatedHeight \in Nat /\ Height[b] \in Nat
    BY BlockTypes DEF TypeOK
  <2>2. Max({estimatedHeight, Height[b]}) \in Nat
    BY <2>1, MaxOfTwo
  <2> QED BY <2>2 DEF Kept
<1>7. orphans' \subseteq Block
  BY DEF Kept
<1> QED BY <1>5, <1>6, <1>7

\* the mempools' new filters free orphans, and add none
LEMMA LeftWithin ==
  ASSUME NEW b, NEW O \in LeftByMempools(b)
  PROVE  O \subseteq orphans
BY DEF LeftByMempools

LEMMA ChainTypeInit == Init => TypeOK
<1> SUFFICES ASSUME Init PROVE TypeOK
  OBVIOUS
<1>1. Save({}) \in Saves
  BY SaveType
<1>2. thread \in Threads /\ queue \in Seq(Saves)
  BY <1>1 DEF Init, Threads, NoWork
<1>3. Birth \in Block /\ blocks \subseteq Block
  BY BlockTypes DEF Init
<1> QED BY <1>2, <1>3 DEF Init, TypeOK, Threads

LEMMA ChainTypeBlock ==
  ASSUME TypeOK, NEW p \in Peer, NEW b \in Block, HandleBlock(p, b)
  PROVE  TypeOK'
<1> USE DEF TypeOK, network, counters
<1>1. CASE Ignore(p, b)
  <2>1. Dropped(p, {})
    BY <1>1 DEF Ignore
  <2> QED BY <1>1, <2>1, DroppedType DEF Ignore, Threads
<1>2. CASE Orphan(p, b)
  <2>1. Dropped(p, {})
    BY <1>2 DEF Orphan
  <2>2. orphans' \subseteq Block
    BY <1>2 DEF Orphan, WithOrphan
  <2> QED BY <1>2, <2>1, <2>2, DroppedType DEF Orphan, Threads
<1>3. CASE Invalid(p, b)
  <2>1. Dropped(p, Freed(b))
    BY <1>3 DEF Invalid
  <2> QED BY <1>3, <2>1, DroppedType DEF Invalid, Threads
<1>4. CASE ExtendMain(p, b)
  <2>1. PICK O \in LeftByMempools(b) :
          Kept(p, b, O, Saved(blocks', b, ExtensionCount(b)), Freed(b))
    BY <1>4 DEF ExtendMain
  <2>2. /\ thread' \in Threads /\ queue' \in Seq(Saves)
        /\ estimatedHeight' \in Nat /\ orphans' \subseteq Block
    <3>1. O \subseteq Block /\ Saved(blocks', b, ExtensionCount(b)) \subseteq Block
      BY LeftWithin, SavedType
    <3> QED BY <2>1, <3>1, KeptType
  <2>3. conf' \in ConfType
    BY <1>4, ConfirmedType DEF ExtendMain, ConfType
  <2> QED BY <1>4, <2>2, <2>3 DEF ExtendMain, Threads, ConfType
<1>5. CASE Existing(p, b)
  <2>1. Kept(p, b, orphans, {}, Freed(b) \cup {b})
    BY <1>5 DEF Existing
  <2>2. /\ thread' \in Threads /\ queue' \in Seq(Saves)
        /\ estimatedHeight' \in Nat /\ orphans' \subseteq Block
    BY <2>1, KeptType
  <2>3. conf' \in ConfType
    BY <1>5, ConfirmedType DEF Existing, ConfType
  <2> QED BY <1>5, <2>2, <2>3 DEF Existing, Threads, ConfType
<1>6. CASE MinedDuringRescan(p, b)
  <2>1. WithOrphan(b) \subseteq Block
    BY DEF WithOrphan
  <2>2. Kept(p, b, WithOrphan(b), {}, Freed(b))
    BY <1>6 DEF MinedDuringRescan
  <2>3. /\ thread' \in Threads /\ queue' \in Seq(Saves)
        /\ estimatedHeight' \in Nat /\ orphans' \subseteq Block
    BY <2>1, <2>2, KeptType
  <2> QED BY <1>6, <2>3 DEF MinedDuringRescan, Threads
<1>7. CASE OldFork(p, b)
  <2>1. Dropped(p, Freed(b))
    BY <1>7 DEF OldFork
  <2> QED BY <1>7, <2>1, DroppedType DEF OldFork, Threads
<1>8. CASE Fork(p, b)
  <2>1. Kept(p, b, orphans, {}, Freed(b))
    BY <1>8 DEF Fork
  <2>2. /\ thread' \in Threads /\ queue' \in Seq(Saves)
        /\ estimatedHeight' \in Nat /\ orphans' \subseteq Block
    BY <2>1, KeptType
  <2> QED BY <1>8, <2>2 DEF Fork, Threads
<1>9. CASE Reorganise(p, b)
  <2>1. PICK O \in LeftByMempools(b) :
          Kept(p, b, O, Saved(blocks', b, CompleteCount(b)), Freed(b))
    BY <1>9 DEF Reorganise
  <2>2. /\ thread' \in Threads /\ queue' \in Seq(Saves)
        /\ estimatedHeight' \in Nat /\ orphans' \subseteq Block
    <3>1. O \subseteq Block /\ Saved(blocks', b, CompleteCount(b)) \subseteq Block
      BY LeftWithin, SavedType
    <3> QED BY <2>1, <3>1, KeptType
  <2>3. conf' \in ConfType
    BY <1>9, ReorganisedType DEF Reorganise, ConfType
  <2> QED BY <1>9, <2>2, <2>3 DEF Reorganise, Threads, ConfType
<1> QED BY <1>1, <1>2, <1>3, <1>4, <1>5, <1>6, <1>7, <1>8, <1>9 DEF HandleBlock

LEMMA ChainTypeSaving ==
  ASSUME TypeOK, SaveBlocks \/ \E p \in Peer : CallSave(p)
  PROVE  TypeOK'
<1>1. thread \in Threads /\ queue \in Seq(Saves)
  BY DEF TypeOK, Threads
<1>2. CASE SaveBlocks
  <2>1. Head(queue) \in Saves /\ Tail(queue) \in Seq(Saves)
    BY <1>1, <1>2 DEF SaveBlocks
  <2>2. Readable(Head(queue)) \subseteq Block /\ Head(queue).blocks \subseteq Block
    BY <2>1 DEF Readable, Saves
  <2>3. disk' \subseteq Block
    BY <1>2, <2>2 DEF SaveBlocks, TypeOK
  <2>4. queue' \in Seq(Saves)
    BY <1>2, <2>1 DEF SaveBlocks
  <2> QED BY <1>2, <2>3, <2>4 DEF SaveBlocks, TypeOK, network, counters
<1>3. ASSUME NEW p \in Peer, CallSave(p) PROVE TypeOK'
  <2>1. thread[p].save \in Saves
    BY <1>1 DEF Threads
  <2>2. queue' \in Seq(Saves)
    BY <1>1, <1>3, <2>1 DEF CallSave
  <2>3. Save({}) \in Saves
    BY SaveType
  <2>4. thread' \in Threads
    BY <1>1, <1>3, <2>3 DEF CallSave, Threads
  <2> QED BY <1>3, <2>2, <2>4 DEF CallSave, TypeOK, Threads, network, counters
<1> QED BY <1>2, <1>3

LEMMA ChainTypeNetwork ==
  ASSUME TypeOK,
         \/ \E p \in Peer, h \in Claims : JoinFirst(p, h) \/ JoinSecond(p, h)
         \/ \E p \in Peer : Disconnect(p)
         \/ UpdateFilter \/ Rescan
  PROVE  TypeOK'
<1> USE DEF TypeOK, network, counters
<1>1. ASSUME NEW p \in Peer, NEW h \in Claims, Joins(p, h)
      PROVE  connected' \subseteq Peer /\ claim' \in [Peer -> Nat]
  BY <1>1, BoundAssumption DEF Joins
<1>2. ASSUME NEW p \in Peer, NEW h \in Claims, JoinFirst(p, h) PROVE TypeOK'
  <2>1. Joins(p, h)
    BY <1>2 DEF JoinFirst
  <2>2. downloadPeer' \in Peer /\ estimatedHeight' \in Nat
    BY <1>1, <1>2, <2>1 DEF JoinFirst
  <2> QED BY <1>1, <1>2, <2>1, <2>2 DEF JoinFirst, LoadBloomFilter
<1>3. ASSUME NEW p \in Peer, NEW h \in Claims, JoinSecond(p, h) PROVE TypeOK'
  <2>1. Joins(p, h)
    BY <1>3 DEF JoinSecond
  <2>2. bloomFilter' \in BOOLEAN /\ orphans' \subseteq Block
    BY <1>3 DEF JoinSecond, LoadBloomFilter
  <2> QED BY <1>1, <1>3, <2>1, <2>2 DEF JoinSecond
<1>4. ASSUME NEW p \in Peer, Disconnect(p) PROVE TypeOK'
  BY <1>4 DEF Disconnect
<1>5. CASE UpdateFilter
  BY <1>5 DEF UpdateFilter, LoadBloomFilter
<1>6. CASE Rescan
  BY <1>6, BlockTypes DEF Rescan
<1> QED BY <1>2, <1>3, <1>4, <1>5, <1>6

LEMMA ChainTypeRestart ==
  ASSUME TypeOK, Restart
  PROVE  TypeOK'
<1>1. /\ estimatedHeight' \in Nat /\ bloomFilter' \in BOOLEAN
      /\ downloadPeer' \in Peer \cup {NoPeer} /\ connected' \subseteq Peer
      /\ claim' \in [Peer -> Nat] /\ queue' \in Seq(Saves)
  <2>1. Volatile
    BY DEF Restart
  <2>2. queue' \in Seq(Saves)
    BY <2>1 DEF Volatile
  <2>3. claim' \in [Peer -> Nat]
    BY <2>1 DEF Volatile
  <2> QED BY <2>1, <2>2, <2>3 DEF Volatile
<1>2. thread' \in Threads
  <2>1. Save({}) \in Saves
    BY SaveType
  <2> QED BY <2>1 DEF Restart, Volatile, Threads, NoWork
<1>3. blocks' \subseteq Block /\ orphans' \subseteq Block /\ lastBlock' \in Block
  <2>1. \A K \in Keyed : K \subseteq Block
    BY DEF Keyed, TypeOK
  <2>2. CASE LastTransitions = {}
    BY <2>1, <2>2, BlockTypes DEF Restart
  <2>3. CASE LastTransitions # {}
    <3>1. PICK t \in LastTransitions, K \in Keyed : StartFrom(t, K)
      BY <2>3 DEF Restart
    <3>2. Following(t, K) \subseteq Block
      BY <2>1 DEF Following, LastTransitions, TypeOK
    <3> QED BY <2>1, <3>1, <3>2, BlockTypes DEF StartFrom
  <2> QED BY <2>2, <2>3
<1>4. restarts' \in Nat /\ UNCHANGED <<conf, disk, rescans>>
  BY DEF Restart, TypeOK
<1> QED BY <1>1, <1>2, <1>3, <1>4 DEF TypeOK, Threads

LEMMA ChainTypeStep == TypeOK /\ [Next]_vars => TypeOK'
<1> SUFFICES ASSUME TypeOK, [Next]_vars PROVE TypeOK'
  OBVIOUS
<1>1. CASE \E p \in Peer, b \in Relayed : HandleBlock(p, b)
  BY <1>1, ChainTypeBlock DEF Relayed
<1>2. CASE SaveBlocks \/ \E p \in Peer : CallSave(p)
  BY <1>2, ChainTypeSaving
<1>3. CASE \/ \E p \in Peer, h \in Claims : JoinFirst(p, h) \/ JoinSecond(p, h)
           \/ \E p \in Peer : Disconnect(p)
           \/ UpdateFilter \/ Rescan
  BY <1>3, ChainTypeNetwork
<1>4. CASE Restart
  BY <1>4, ChainTypeRestart
<1>5. CASE UNCHANGED vars
  BY <1>5 DEF vars, network, counters, TypeOK
<1> QED BY <1>1, <1>2, <1>3, <1>4, <1>5 DEF Next

\* Every variable of the chain keeps its type: in particular a save, and what a
\* restart loads, only ever names blocks, and a reorganisation gives heights of
\* blocks.
THEOREM ChainTypeCorrect == Spec => []TypeOK
<1> QED BY ChainTypeInit, ChainTypeStep, PTL DEF Spec

-----------------------------------------------------------------------------
(***************************************************************************)
(* The chain followed is the highest.                                      *)
(***************************************************************************)
\* blocks stored besides those of before are no higher than the new tip
LEMMA BestChainKept ==
  ASSUME TypeOK, TypeOK', BestChain, Height[lastBlock'] >= Height[lastBlock],
         \A b \in blocks' \ blocks :
           b \in Checkpoints \/ Height[b] <= Height[lastBlock']
  PROVE  BestChain'
<1> SUFFICES ASSUME NEW b \in blocks' \ Checkpoints
             PROVE  Height[b] <= Height[lastBlock']
  BY DEF BestChain
<1>1. Height[b] \in Nat /\ Height[lastBlock] \in Nat /\ Height[lastBlock'] \in Nat
  BY BlockTypes DEF TypeOK
<1>2. CASE b \in blocks
  BY <1>1, <1>2 DEF BestChain
<1>3. CASE b \notin blocks
  BY <1>3
<1> QED BY <1>2, <1>3

LEMMA BestChainBlock ==
  ASSUME TypeOK, TypeOK', BestChain, NEW p \in Peer, NEW b \in Block, HandleBlock(p, b)
  PROVE  BestChain'
<1>1. /\ Height[b] \in Nat /\ Height[lastBlock] \in Nat
      /\ Height[lastBlock'] \in Nat
  BY BlockTypes DEF TypeOK
<1>2. CASE ExtendMain(p, b)
  <2>1. lastBlock' = b /\ Parent[b] = lastBlock /\ blocks' \subseteq blocks \cup {b}
    BY <1>2 DEF ExtendMain
  <2>2. Height[b] = Height[lastBlock] + 1
    <3>1. lastBlock # NoBlock
      BY BlockAssumption DEF TypeOK
    <3> QED BY <2>1, <3>1, BlockAssumption
  <2> QED BY <1>1, <2>1, <2>2, BestChainKept
<1>3. CASE Reorganise(p, b)
  <2>1. lastBlock' = b /\ ~ Shorter(b) /\ blocks' \subseteq blocks \cup {b}
    BY <1>3 DEF Reorganise
  <2> QED BY <1>1, <2>1, BestChainKept DEF Shorter
<1>4. CASE Fork(p, b)
  <2>1. lastBlock' = lastBlock /\ Shorter(b) /\ blocks' \subseteq blocks \cup {b}
    BY <1>4 DEF Fork
  <2> QED BY <1>1, <2>1, BestChainKept DEF Shorter
<1>5. CASE \/ Ignore(p, b) \/ Orphan(p, b) \/ Invalid(p, b) \/ Existing(p, b)
           \/ MinedDuringRescan(p, b) \/ OldFork(p, b)
  <2>1. lastBlock' = lastBlock /\ blocks' \subseteq blocks
    BY <1>5 DEF Ignore, Orphan, Invalid, Existing, MinedDuringRescan, OldFork
  <2> QED BY <1>1, <2>1, BestChainKept
<1> QED BY <1>2, <1>3, <1>4, <1>5 DEF HandleBlock

\* After a restart the tip is the last block that follows the transition.
LEMMA BestChainRestart ==
  ASSUME Restart
  PROVE  BestChain'
<1>1. CASE LastTransitions = {}
  BY <1>1 DEF Restart, BestChain
<1>2. CASE LastTransitions # {}
  <2>1. PICK t \in LastTransitions, K \in Keyed : StartFrom(t, K)
    BY <1>2 DEF Restart
  <2> QED BY <2>1 DEF StartFrom, BestChain
<1> QED BY <1>1, <1>2

\* What a step does to rescans and restarts.
LEMMA CountersStep ==
  ASSUME [Next]_vars
  PROVE  /\ rescans' = rescans \/ Rescan
         /\ restarts' = restarts \/ Restart
<1>1. ASSUME NEW p \in Peer, NEW b \in Relayed, HandleBlock(p, b)
      PROVE  rescans' = rescans /\ restarts' = restarts
  BY <1>1 DEF HandleBlock, Ignore, Orphan, Invalid, ExtendMain, Existing,
              MinedDuringRescan, OldFork, Fork, Reorganise, counters
<1>2. ASSUME NEW p \in Peer, NEW h \in Claims, JoinFirst(p, h) \/ JoinSecond(p, h)
      PROVE  rescans' = rescans /\ restarts' = restarts
  BY <1>2 DEF JoinFirst, JoinSecond, counters
<1>3. ASSUME NEW p \in Peer, CallSave(p) \/ Disconnect(p)
      PROVE  rescans' = rescans /\ restarts' = restarts
  BY <1>3 DEF CallSave, Disconnect, counters
<1>4. CASE SaveBlocks \/ UpdateFilter \/ UNCHANGED vars
  BY <1>4 DEF SaveBlocks, UpdateFilter, counters, vars
<1>5. Rescan => restarts' = restarts
  BY DEF Rescan
<1>6. Restart => rescans' = rescans
  BY DEF Restart
<1> QED BY <1>1, <1>2, <1>3, <1>4, <1>5, <1>6 DEF Next

\* Once there was a rescan there always was one; until then only a block and a
\* restart change the chain.
LEMMA UntilRescan ==
  ASSUME TypeOK, [Next]_vars, rescans' = 0
  PROVE  /\ rescans = 0 /\ ~ Rescan
         /\ \/ \E p \in Peer, b \in Relayed : HandleBlock(p, b)
            \/ Restart
            \/ UNCHANGED <<blocks, lastBlock>>
<1>1. ~ Rescan
  BY DEF Rescan, TypeOK
<1> QED BY <1>1, CountersStep
        DEF Next, vars, SaveBlocks, CallSave, JoinFirst, JoinSecond, Disconnect, UpdateFilter

\* Until a rescan, no stored block is higher than lastBlock after any handler
\* of any peer, or a restart from whatever was saved.
LEMMA BestUntilRescan == Spec => [](rescans = 0 => BestChain)
<1> DEFINE Inv == rescans = 0 => BestChain
<1>1. Init => Inv
  BY DEF Init, BestChain
<1>2. TypeOK /\ TypeOK' /\ Inv /\ [Next]_vars => Inv'
  <2> SUFFICES ASSUME TypeOK, TypeOK', Inv, [Next]_vars, rescans' = 0
               PROVE  BestChain'
    OBVIOUS
  <2>1. BestChain
    BY UntilRescan
  <2>2. CASE \E p \in Peer, b \in Relayed : HandleBlock(p, b)
    BY <2>1, <2>2, BestChainBlock DEF Relayed
  <2>3. CASE Restart
    BY <2>3, BestChainRestart
  <2>4. CASE UNCHANGED <<blocks, lastBlock>>
    BY <2>1, <2>4 DEF BestChain
  <2> QED BY <2>2, <2>3, <2>4, UntilRescan
<1> QED BY <1>1, <1>2, ChainTypeCorrect, PTL DEF Spec

\* Without rescans, no stored block is ever higher than lastBlock.
THEOREM BestChainHolds == MaxRescans = 0 /\ Spec => []BestChain
<1> SUFFICES ASSUME MaxRescans = 0 PROVE Spec => []BestChain
  OBVIOUS
<1>1. Init => rescans = 0
  BY DEF Init
<1>2. TypeOK /\ rescans = 0 /\ [Next]_vars => (rescans = 0)'
  BY CountersStep DEF Rescan
<1> QED BY <1>1, <1>2, ChainTypeCorrect, BestUntilRescan, PTL DEF Spec

-----------------------------------------------------------------------------
(***************************************************************************)
(* Ancestors.                                                              *)
(***************************************************************************)
LEMMA LineageSelf ==
  ASSUME NEW b \in Block
  PROVE  b \in Lineage[b]
BY BlockAssumption

LEMMA LineageParent ==
  ASSUME NEW b \in Block, NEW a \in Lineage[b], a # b
  PROVE  /\ Parent[b] \in Block /\ a \in Lineage[Parent[b]]
         /\ Lineage[b] = {b} \cup Lineage[Parent[b]]
         /\ Height[b] = Height[Parent[b]] + 1
BY BlockAssumption

\* The ancestors of an ancestor, and of two ancestors the lower is one of the
\* other's: by the least height at which it could be otherwise.
LEMMA LineageNested ==
  ASSUME NEW b \in Block
  PROVE  \A a, c \in Lineage[b] :
           /\ Lineage[c] \subseteq Lineage[b]
           /\ Height[a] <= Height[c] => a \in Lineage[c]
<1> DEFINE Good(d) == \A a, c \in Lineage[d] :
                        /\ Lineage[c] \subseteq Lineage[d]
                        /\ Height[a] <= Height[c] => a \in Lineage[c]
           Bad == {Height[d] : d \in {e \in Block : ~ Good(e)}}
<1>1. SUFFICES ASSUME Bad # {} PROVE FALSE
  <2>1. ~ Good(b) => Height[b] \in Bad
    OBVIOUS
  <2> QED BY <2>1, <1>1
<1>2. Min(Bad) \in Bad /\ \A n \in Bad : Min(Bad) <= n
  <2>1. Bad \subseteq Nat
    BY BlockTypes
  <2> HIDE DEF Bad
  <2> QED BY <1>1, <2>1, LeastNat
<1>3. PICK d \in Block : ~ Good(d) /\ \A n \in Bad : Height[d] <= n
  BY <1>2
<1>4. ASSUME NEW e \in Block, Height[d] = Height[e] + 1 PROVE Good(e)
  <2>1. Height[d] \in Nat /\ Height[e] \in Nat
    BY BlockTypes
  <2>2. Height[e] \notin Bad
    <3> HIDE DEF Bad
    <3> QED BY <2>1, <1>3, <1>4
  <2> QED BY <2>2
<1>5. ASSUME NEW a \in Lineage[d], NEW c \in Lineage[d]
      PROVE  /\ Lineage[c] \subseteq Lineage[d]
             /\ Height[a] <= Height[c] => a \in Lineage[c]
  <2>1. CASE c = d
    BY <2>1
  <2>2. CASE c # d
    <3>1. /\ Parent[d] \in Block /\ c \in Lineage[Parent[d]]
          /\ Lineage[d] = {d} \cup Lineage[Parent[d]]
          /\ Height[d] = Height[Parent[d]] + 1
      BY <2>2, LineageParent
    <3> HIDE DEF Good
    <3>2. Good(Parent[d])
      BY <3>1, <1>4
    <3> USE DEF Good
    <3>3. Lineage[c] \subseteq Lineage[d]
      BY <3>1, <3>2
    <3>4. ASSUME Height[a] <= Height[c] PROVE a # d
      <4>1. Height[c] <= Height[Parent[d]]
        BY <3>1, LineageBelow
      <4>2. c \in Block
        BY LineageBelow
      <4>3. Height[c] \in Nat /\ Height[Parent[d]] \in Nat
        BY <3>1, <4>2, BlockTypes
      <4> QED BY <3>1, <3>4, <4>1, <4>3
    <3>5. Height[a] <= Height[c] => a \in Lineage[c]
      BY <3>1, <3>2, <3>4
    <3> QED BY <3>3, <3>5
  <2> QED BY <2>1, <2>2
<1> QED BY <1>3, <1>5

\* A transaction is in one block of a chain, which is above Birth.
LEMMA OneBlock ==
  ASSUME NEW b \in Block, NEW c \in Lineage[b], NEW d \in Lineage[b], NEW t \in Tx,
         t \in TxsOf[c], t \in TxsOf[d]
  PROVE  c = d
<1>1. c \in Block /\ d \in Block
  BY LineageBelow
<1>2. Height[c] \in Nat /\ Height[d] \in Nat
  BY <1>1, BlockTypes
<1>3. c \in Lineage[d] \/ d \in Lineage[c]
  BY <1>2, LineageNested
<1> QED BY <1>1, <1>3, TxAssumption

LEMMA AboveBirth ==
  ASSUME NEW b \in Block, Birth \in Lineage[b], NEW c \in Lineage[b], NEW t \in TxsOf[c]
  PROVE  Height[c] > Height[Birth]
<1>1. c \in Block /\ Birth \in Block
  BY LineageBelow
<1>2. Height[c] \in Nat /\ Height[Birth] \in Nat
  BY <1>1, BlockTypes
<1>3. Height[c] <= Height[Birth] => c \in Lineage[Birth]
  BY LineageNested
<1> QED BY <1>2, <1>3, TxAssumption

-----------------------------------------------------------------------------
(***************************************************************************)
(* The peer manager implements the light client.                           *)
(***************************************************************************)
\* h is where the chain of b has t
At(b, t, h) ==
  \/ \E c \in Lineage[b] : t \in TxsOf[c] /\ h = Height[c]
  \/ (\A c \in Lineage[b] : t \notin TxsOf[c]) /\ h = TX_UNCONFIRMED

LEMMA ConfirmedByAt ==
  ASSUME NEW b \in Block, Birth \in Lineage[b], NEW f, f = [t \in Tx |-> f[t]],
         \A t \in Tx : At(b, t, f[t])
  PROVE  f = Client!ConfirmedBy(b)
<1> DEFINE In(t) == {c \in Lineage[b] : Height[c] > Height[Birth] /\ t \in TxsOf[c]}
           Value(t) == IF In(t) = {} THEN TX_UNCONFIRMED ELSE Height[CHOOSE c \in In(t) : TRUE]
<1>1. ASSUME NEW t \in Tx PROVE f[t] = Value(t)
  <2>1. CASE \A c \in Lineage[b] : t \notin TxsOf[c]
    BY <2>1 DEF At
  <2>2. CASE \E c \in Lineage[b] : t \in TxsOf[c]
    <3>1. PICK c \in Lineage[b] : t \in TxsOf[c] /\ f[t] = Height[c]
      BY <2>2 DEF At
    <3>2. c \in In(t)
      BY <3>1, AboveBirth
    <3>3. \A d \in In(t) : d = c
      BY <3>1, OneBlock
    <3> HIDE DEF In
    <3>4. (CHOOSE d \in In(t) : TRUE) = c
      BY <3>2, <3>3
    <3> QED BY <3>1, <3>2, <3>4
  <2> QED BY <2>1, <2>2
<1>2. Client!ConfirmedBy(b) = [t \in Tx |-> Value(t)]
  BY DEF Client!ConfirmedBy
<1> HIDE DEF Value
<1> QED BY <1>1, <1>2

\* What is stored besides checkpoints descends from Birth.
ClientInv ==
  /\ TypeOK
  /\ \A b \in blocks \ Checkpoints : Birth \in Lineage[b]
  /\ Birth \in Lineage[lastBlock]
  /\ \A t \in Tx : At(lastBlock, t, conf[t])

LEMMA ClientInit == Init => ClientInv /\ Client!Init
<1> SUFFICES ASSUME Init PROVE ClientInv /\ Client!Init
  OBVIOUS
<1>1. TypeOK
  BY ChainTypeInit
<1>2. Birth \in Lineage[lastBlock]
  BY BlockTypes, LineageSelf DEF Init
<1>3. \A t \in Tx : At(lastBlock, t, conf[t])
  BY TxAssumption DEF Init, At
<1> QED BY <1>1, <1>2, <1>3 DEF ClientInv, Client!Init, Init

LEMMA BirthCheckpointed == LastCheckpoint \in Nat /\ Height[Birth] <= LastCheckpoint
<1> DEFINE S == {Height[c] : c \in Checkpoints}
<1>1. PICK c \in Checkpoints : \A d \in Checkpoints : Height[d] <= Height[c]
  BY CheckpointAssumption
<1>2. S \subseteq Int /\ S # {} /\ Height[c] \in Int
  BY BlockTypes
<1>3. \A x \in S : x <= Height[c]
  BY <1>1
<1>4. Max(S) \in S /\ \A y \in S : y <= Max(S)
  <2> HIDE DEF S
  <2> QED BY <1>2, <1>3, GreatestInt
<1> QED BY <1>4, BlockTypes DEF LastCheckpoint

\* What a stored block is the parent of descends from Birth, if it is higher.
LEMMA FromBirth ==
  ASSUME TypeOK, \A d \in blocks \ Checkpoints : Birth \in Lineage[d],
         NEW b \in Block, Parent[b] \in blocks, Height[b] > Height[Birth]
  PROVE  Birth \in Lineage[b]
<1>1. Parent[b] \in Block /\ Parent[b] # NoBlock
  BY BlockAssumption DEF TypeOK
<1>2. Lineage[b] = {b} \cup Lineage[Parent[b]] /\ Height[b] = Height[Parent[b]] + 1
  BY <1>1, BlockAssumption
<1>3. CASE Parent[b] \in Checkpoints
  <2>1. Height[Birth] <= Height[Parent[b]]
    BY <1>1, <1>2, BlockTypes
  <2> QED BY <1>2, <1>3, <2>1, CheckpointAssumption
<1>4. CASE Parent[b] \notin Checkpoints
  BY <1>2, <1>4
<1> QED BY <1>3, <1>4

\* A new tip whose chain has the transactions where conf' has them advances
\* the client.
LEMMA ClientAdvance ==
  ASSUME ClientInv, TypeOK', NEW b \in Block, lastBlock' = b,
         Height[b] > Height[lastBlock], blocks' \subseteq blocks \cup {b},
         Birth \in Lineage[b], \A t \in Tx : At(b, t, conf'[t])
  PROVE  ClientInv' /\ Client!Next
<1>1. ClientInv'
  BY DEF ClientInv, At
<1>2. conf' = [t \in Tx |-> conf'[t]]
  BY DEF TypeOK
<1>3. conf' = Client!ConfirmedBy(b)
  BY <1>2, ConfirmedByAt
<1> QED BY <1>1, <1>3 DEF Client!Next, Client!Advance

LEMMA ClientExtend ==
  ASSUME ClientInv, TypeOK', NEW p \in Peer, NEW b \in Block, ExtendMain(p, b)
  PROVE  ClientInv' /\ Client!Next
<1>1. /\ Parent[b] = lastBlock /\ lastBlock' = b /\ conf' = Confirmed(b)
      /\ blocks' \subseteq blocks \cup {b}
  BY DEF ExtendMain
<1>2. lastBlock \in Block
  BY DEF ClientInv, TypeOK
<1>3. Height[b] = Height[lastBlock] + 1 /\ Lineage[b] = {b} \cup Lineage[lastBlock]
  BY <1>1, <1>2, BlockAssumption
<1>4. Height[b] > Height[lastBlock]
  BY <1>2, <1>3, BlockTypes
<1>5. Birth \in Lineage[b]
  BY <1>3 DEF ClientInv
<1>6. ASSUME NEW t \in Tx PROVE At(b, t, conf'[t])
  <2>1. At(lastBlock, t, conf[t])
    BY DEF ClientInv
  <2>2. CASE t \in TxsOf[b]
    BY <1>1, <1>3, <2>2 DEF Confirmed, At
  <2>3. CASE t \notin TxsOf[b]
    <3>1. conf'[t] = conf[t]
      BY <1>1, <2>3 DEF Confirmed
    <3> QED BY <1>3, <2>1, <2>3, <3>1 DEF At
  <2> QED BY <2>2, <2>3
<1> QED BY <1>1, <1>4, <1>5, <1>6, ClientAdvance

\* A block of the chain relayed again confirms what is confirmed.
LEMMA ClientExisting ==
  ASSUME ClientInv, NEW p \in Peer, NEW b \in Block, Existing(p, b)
  PROVE  UNCHANGED <<lastBlock, conf>>
<1>1. conf' = conf \/ (conf' = Confirmed(b) /\ b \in Lineage[lastBlock])
  BY DEF Existing, Line
<1>2. ASSUME b \in Lineage[lastBlock], NEW t \in TxsOf[b], t \in Tx
      PROVE  conf[t] = Height[b]
  <2>1. At(lastBlock, t, conf[t])
    BY <1>2 DEF ClientInv
  <2>2. PICK c \in Lineage[lastBlock] : t \in TxsOf[c] /\ conf[t] = Height[c]
    BY <1>2, <2>1 DEF At
  <2>3. lastBlock \in Block
    BY DEF ClientInv, TypeOK
  <2>4. c = b
    BY <1>2, <2>2, <2>3, OneBlock
  <2> QED BY <2>2, <2>4
<1>3. b \in Lineage[lastBlock] => Confirmed(b) = conf
  <2>1. conf = [t \in Tx |-> conf[t]]
    BY DEF ClientInv, TypeOK
  <2> QED BY <1>2, <2>1 DEF Confirmed
<1> QED BY <1>1, <1>3 DEF Existing

\* a fork that meets the chain does so in the walk of the reorganisation
LEMMA MeetsByForks ==
  ASSUME ForksMeet, NEW p \in Peer, NEW b \in Relayed, Reorganise(p, b)
  PROVE  Meeting(blocks', b) # {}
BY DEF ForksMeet, Reorganise, New, Valid

\* A reorganisation that finds the join m: what the fork has above it gets the
\* fork's heights, and of the rest what was confirmed above it is unconfirmed.
Left(t, m) == IF conf[t] > Height[m] THEN TX_UNCONFIRMED ELSE conf[t]

LEMMA ReorganiseAtJoin ==
  ASSUME TypeOK, TypeOK', NEW p \in Peer, NEW b \in Relayed, Reorganise(p, b),
         Meeting(blocks', b) # {}
  PROVE  \E m \in Lineage[b] \cap Lineage[lastBlock] : \A t \in Tx :
           \/ \E a \in Lineage[b] : /\ Height[a] > Height[m] /\ t \in TxsOf[a]
                                    /\ conf'[t] = Height[a]
           \/ /\ \A a \in Lineage[b] : t \in TxsOf[a] => ~ (Height[a] > Height[m])
              /\ conf'[t] = Left(t, m)
<1> DEFINE S == blocks'
           J == JoinHeight(S, b)
           A(t) == {a \in Line(S, b) : Height[a] > J /\ t \in TxsOf[a]}
<1>1. conf' = Reorganised(S, b)
  BY DEF Reorganise
<1>2. b \in Block
  BY DEF Relayed
<1>3. Meeting(S, b) # {}
  OBVIOUS
<1> HIDE DEF S
<1>4. PICK m \in Meeting(S, b) : J = Height[m]
  <2>1. Meeting(S, b) \subseteq Lineage[b]
    BY DEF Meeting, Line
  <2>2. J = Max({Height[a] : a \in Meeting(S, b)})
    BY <1>3 DEF JoinHeight
  <2> QED BY <1>2, <1>3, <2>1, <2>2, MaxHeight
<1> HIDE DEF J
<1>5. m \in Lineage[b] /\ m \in Lineage[lastBlock] /\ Height[m] \in Nat
  <2>1. m \in Lineage[b] /\ m \in Lineage[lastBlock]
    BY DEF Meeting, Line
  <2> QED BY <1>2, <2>1, LineageBelow, BlockTypes
<1>6. \A a \in Lineage[b] : Height[a] > Height[m] => a \in Line(S, b)
  <2> SUFFICES ASSUME NEW a \in Lineage[b], Height[a] > Height[m],
                      NEW c \in Lineage[b], Height[a] <= Height[c], Height[c] < Height[b]
               PROVE  c \in S
    BY DEF Line
  <2>1. Height[a] \in Nat /\ Height[c] \in Nat
    BY <1>2, LineageBelow, BlockTypes
  <2>2. Height[m] <= Height[c]
    BY <1>5, <2>1
  <2> QED BY <2>2 DEF Meeting, Line
<1>7. conf' = [t \in Tx |-> IF A(t) # {} /\ Meeting(S, b) # {}
                            THEN Max({Height[a] : a \in A(t)})
                            ELSE IF conf[t] > J THEN TX_UNCONFIRMED ELSE conf[t]]
  BY <1>1 DEF Reorganised, J
<1>8. ASSUME NEW t \in Tx, A(t) # {}
      PROVE  \E a \in Lineage[b] : /\ Height[a] > Height[m] /\ t \in TxsOf[a]
                                   /\ conf'[t] = Height[a]
  <2>1. /\ A(t) \subseteq Lineage[b]
        /\ \A a \in A(t) : t \in TxsOf[a] /\ Height[a] > Height[m]
    BY <1>4 DEF Line
  <2> HIDE DEF A
  <2>2. conf'[t] = Max({Height[a] : a \in A(t)})
    BY <1>3, <1>7, <1>8
  <2>3. PICK a \in A(t) : Max({Height[c] : c \in A(t)}) = Height[a]
    BY <1>2, <1>8, <2>1, MaxHeight
  <2> QED BY <2>1, <2>2, <2>3
<1>9. ASSUME NEW t \in Tx, A(t) = {}
      PROVE  /\ \A a \in Lineage[b] : t \in TxsOf[a] => ~ (Height[a] > Height[m])
             /\ conf'[t] = Left(t, m)
  <2>1. \A a \in Lineage[b] : t \in TxsOf[a] => ~ (Height[a] > Height[m])
    BY <1>4, <1>6, <1>9
  <2> HIDE DEF A
  <2>2. conf'[t] = Left(t, m)
    BY <1>4, <1>7, <1>9 DEF Left
  <2> QED BY <2>1, <2>2
<1> QED BY <1>5, <1>8, <1>9

\* Every transaction is then where the new chain has it: above the join by the
\* fork's blocks, below by what both share.
LEMMA ClientReorganise ==
  ASSUME ClientInv, TypeOK', ForksMeet, NEW p \in Peer, NEW b \in Relayed, Reorganise(p, b)
  PROVE  ClientInv' /\ Client!Next
<1>1. /\ lastBlock' = b /\ ~ Shorter(b) /\ blocks' \subseteq blocks \cup {b}
      /\ Parent[b] \in blocks
  BY DEF Reorganise, New, Valid
<1>2. b \in Block /\ lastBlock \in Block
  BY DEF Relayed, ClientInv, TypeOK
<1>3. Height[b] > Height[lastBlock]
  BY <1>1, <1>2, BlockTypes DEF Shorter
<1>4. Birth \in Lineage[b]
  <2>1. Height[Birth] <= Height[lastBlock]
    BY <1>2, LineageBelow DEF ClientInv
  <2>2. Height[b] > Height[Birth]
    BY <1>2, <1>3, <2>1, BlockTypes
  <2> QED BY <1>1, <1>2, <2>2, FromBirth DEF ClientInv
<1>5. PICK m \in Lineage[b] \cap Lineage[lastBlock] : \A t \in Tx :
        \/ \E a \in Lineage[b] : Height[a] > Height[m] /\ t \in TxsOf[a] /\ conf'[t] = Height[a]
        \/ /\ \A a \in Lineage[b] : t \in TxsOf[a] => ~ (Height[a] > Height[m])
           /\ conf'[t] = Left(t, m)
  BY MeetsByForks, ReorganiseAtJoin DEF ClientInv
<1>6. /\ m \in Block /\ Height[m] \in Nat
      /\ Lineage[m] \subseteq Lineage[b] /\ Lineage[m] \subseteq Lineage[lastBlock]
  BY <1>2, LineageBelow, LineageNested, BlockTypes
<1>7. ASSUME NEW t \in Tx, NEW d \in Lineage[b], t \in TxsOf[d], ~ (Height[d] > Height[m])
      PROVE  d \in Lineage[m]
  <2>1. Height[d] \in Nat
    BY <1>2, LineageBelow, BlockTypes
  <2> QED BY <1>2, <1>6, <1>7, <2>1, LineageNested
<1>8. ASSUME NEW t \in Tx, \A a \in Lineage[b] : t \in TxsOf[a] => ~ (Height[a] > Height[m]),
             conf'[t] = Left(t, m)
      PROVE  At(b, t, conf'[t])
  <2>1. At(lastBlock, t, conf[t])
    BY DEF ClientInv
  <2>2. CASE \A c \in Lineage[lastBlock] : t \notin TxsOf[c]
    <3>1. conf'[t] = TX_UNCONFIRMED
      BY <1>8, <2>1, <2>2 DEF At, Left
    <3>2. \A d \in Lineage[b] : t \notin TxsOf[d]
      BY <1>6, <1>7, <1>8, <2>2
    <3> QED BY <3>1, <3>2 DEF At
  <2>3. ASSUME NEW c \in Lineage[lastBlock], t \in TxsOf[c], conf[t] = Height[c]
        PROVE  At(b, t, conf'[t])
    <3>1. Height[c] \in Nat
      BY <1>2, LineageBelow, BlockTypes
    <3>2. CASE Height[c] <= Height[m]
      <4>1. c \in Lineage[m]
        BY <1>2, <1>6, <3>2, LineageNested
      <4>2. conf'[t] = Height[c]
        BY <1>6, <1>8, <2>3, <3>1, <3>2 DEF Left
      <4> QED BY <1>6, <2>3, <4>1, <4>2 DEF At
    <3>3. CASE Height[c] > Height[m]
      <4>1. conf'[t] = TX_UNCONFIRMED
        BY <1>8, <2>3, <3>3 DEF Left
      <4>2. ASSUME NEW d \in Lineage[b], t \in TxsOf[d] PROVE FALSE
        <5>1. d \in Lineage[m]
          BY <1>7, <1>8, <4>2
        <5>2. d = c
          BY <1>2, <1>6, <2>3, <4>2, <5>1, OneBlock
        <5>3. Height[d] <= Height[m]
          BY <1>6, <5>1, LineageBelow
        <5> QED BY <1>6, <3>1, <3>3, <5>2, <5>3
      <4> QED BY <4>1, <4>2 DEF At
    <3> QED BY <1>6, <3>1, <3>2, <3>3
  <2> QED BY <2>1, <2>2, <2>3 DEF At
<1>9. \A t \in Tx : At(b, t, conf'[t])
  BY <1>5, <1>8 DEF At
<1> QED BY <1>1, <1>2, <1>3, <1>4, <1>9, ClientAdvance

\* a block that is stored, but not followed
LEMMA ClientFork ==
  ASSUME ClientInv, TypeOK', NEW p \in Peer, NEW b \in Block, Fork(p, b)
  PROVE  ClientInv' /\ UNCHANGED <<lastBlock, conf>>
<1>1. /\ Parent[b] \in blocks /\ Height[b] > LastCheckpoint
      /\ blocks' \subseteq blocks \cup {b} /\ UNCHANGED <<lastBlock, conf>>
  BY DEF Fork, New, Valid
<1>2. Height[b] > Height[Birth]
  <2>1. Height[b] \in Nat /\ Height[Birth] \in Nat
    BY BlockTypes
  <2> QED BY <1>1, <2>1, BirthCheckpointed
<1>3. Birth \in Lineage[b]
  BY <1>1, <1>2, FromBirth DEF ClientInv
<1> QED BY <1>1, <1>3 DEF ClientInv, At

LEMMA ClientQuiet ==
  ASSUME ClientInv, TypeOK', blocks' \subseteq blocks, UNCHANGED <<lastBlock, conf>>
  PROVE  ClientInv'
BY DEF ClientInv, At

LEMMA ClientStep ==
  ASSUME MaxRescans = 0, MaxRestarts = 0, ClientInv, ForksMeet, [Next]_vars
  PROVE  ClientInv' /\ [Client!Next]_<<lastBlock, conf>>
<1>1. TypeOK'
  BY ChainTypeStep DEF ClientInv
<1>2. ASSUME NEW p \in Peer, NEW b \in Relayed, HandleBlock(p, b)
      PROVE  ClientInv' /\ [Client!Next]_<<lastBlock, conf>>
  <2>1. b \in Block
    BY DEF Relayed
  <2>2. CASE ExtendMain(p, b)
    BY <1>1, <2>1, <2>2, ClientExtend
  <2>3. CASE Reorganise(p, b)
    BY <1>1, <2>3, ClientReorganise
  <2>4. CASE Fork(p, b)
    BY <1>1, <2>1, <2>4, ClientFork
  <2>5. CASE Existing(p, b)
    <3>1. UNCHANGED <<lastBlock, conf>> /\ blocks' \subseteq blocks
      BY <2>1, <2>5, ClientExisting DEF Existing
    <3> QED BY <1>1, <3>1, ClientQuiet
  <2>6. CASE \/ Ignore(p, b) \/ Orphan(p, b) \/ Invalid(p, b)
             \/ MinedDuringRescan(p, b) \/ OldFork(p, b)
    <3>1. UNCHANGED <<lastBlock, conf>> /\ blocks' \subseteq blocks
      BY <2>6 DEF Ignore, Orphan, Invalid, MinedDuringRescan, OldFork
    <3> QED BY <1>1, <3>1, ClientQuiet
  <2> QED BY <1>2, <2>2, <2>3, <2>4, <2>5, <2>6 DEF HandleBlock
<1>3. CASE UNCHANGED <<blocks, lastBlock, conf>>
  BY <1>1, <1>3, ClientQuiet
<1>4. ~ Rescan /\ ~ Restart
  BY DEF Rescan, Restart, ClientInv, TypeOK
<1>5. \/ \E p \in Peer, b \in Relayed : HandleBlock(p, b)
      \/ UNCHANGED <<blocks, lastBlock, conf>>
  BY <1>4 DEF Next, vars, SaveBlocks, CallSave, JoinFirst, JoinSecond,
              Disconnect, UpdateFilter
<1> QED BY <1>2, <1>3, <1>5

\* Without rescans and restarts, and as long as a fork that wins finds where it
\* joined, following the chain implements the light client: every handler of
\* every peer either leaves tip and confirmations alone or advances to a higher
\* tip and confirms exactly what its chain has.
THEOREM ClientImplemented ==
  MaxRescans = 0 /\ MaxRestarts = 0 /\ Spec /\ []ForksMeet => ClientSpec
<1> SUFFICES ASSUME MaxRescans = 0, MaxRestarts = 0
             PROVE  Spec /\ []ForksMeet => ClientSpec
  OBVIOUS
<1>1. Init => ClientInv /\ Client!Init
  BY ClientInit
<1>2. ClientInv /\ ForksMeet /\ [Next]_vars => ClientInv' /\ [Client!Next]_<<lastBlock, conf>>
  BY ClientStep
<1> QED BY <1>1, <1>2, PTL DEF Spec, ClientSpec, Client!Spec

-----------------------------------------------------------------------------
(***************************************************************************)
(* Transitions: the multiples of the difficulty interval.                  *)
(***************************************************************************)
\* the height of the last transition up to height n
Floor(n) == n - (n % I)

LEMMA Multiple ==
  ASSUME NEW q \in Nat
  PROVE  I * q \in Nat /\ (I * q) % I = 0
BY CheckpointAssumption

LEMMA FloorIs ==
  ASSUME NEW n \in Nat
  PROVE  \E q \in Nat : Floor(n) = I * q /\ Floor(n) <= n /\ n < Floor(n) + I
<1>1. n % I \in 0 .. I - 1 /\ n \div I \in Nat /\ n = I * (n \div I) + (n % I)
  BY CheckpointAssumption
<1> DEFINE q == n \div I
           r == n % I
<1>2. Floor(n) = n - r
  BY DEF Floor
<1> HIDE DEF q, r
<1>3. q \in Nat /\ r \in 0 .. I - 1 /\ n = I * q + r
  BY <1>1 DEF q, r
<1>4. I * q \in Nat
  BY <1>3, Multiple
<1> QED BY <1>2, <1>3, <1>4, CheckpointAssumption

LEMMA FloorType ==
  ASSUME NEW n \in Nat
  PROVE  Floor(n) \in Nat /\ Floor(n) <= n /\ n < Floor(n) + I /\ Floor(n) % I = 0
BY FloorIs, Multiple

\* Of two different multiples one is an interval higher.
LEMMA MultiplesApart ==
  ASSUME NEW p \in Nat, NEW q \in Nat, p > q
  PROVE  I * p >= I * q + I
<1>1. PICK k \in Nat : p = q + 1 + k
  <2>1. p - q - 1 \in Nat /\ p = q + 1 + (p - q - 1)
    OBVIOUS
  <2> QED BY <2>1
<1>2. I * p = I * q + I + I * k
  BY <1>1, CheckpointAssumption
<1>3. I * k \in Nat /\ I * q \in Nat /\ I \in Nat
  BY <1>1, Multiple, CheckpointAssumption
<1> QED BY <1>2, <1>3

LEMMA FloorAbove ==
  ASSUME NEW n \in Nat, NEW m \in Nat, m % I = 0, m <= n
  PROVE  m <= Floor(n)
<1>1. PICK q \in Nat : Floor(n) = I * q /\ n < Floor(n) + I
  BY FloorIs
<1>2. PICK p \in Nat : m = I * p
  BY FloorIs DEF Floor
<1>3. CASE p > q
  BY <1>1, <1>2, <1>3, MultiplesApart, CheckpointAssumption
<1>4. CASE q > p
  <2>1. I * q >= I * p + I /\ I * q \in Nat /\ I * p \in Nat /\ I \in Nat
    BY <1>4, MultiplesApart, Multiple, CheckpointAssumption
  <2> QED BY <1>1, <1>2, <2>1
<1>5. CASE p = q
  BY <1>1, <1>2, <1>5
<1> QED BY <1>3, <1>4, <1>5

LEMMA FloorNext ==
  ASSUME NEW n \in Nat
  PROVE  /\ Floor(n) <= Floor(n + 1) /\ Floor(n + 1) <= Floor(n) + I
         /\ (n + 1) % I = 0 => Floor(n + 1) = n + 1
         /\ (n + 1) % I # 0 => Floor(n + 1) = Floor(n)
<1>1. /\ Floor(n) \in Nat /\ Floor(n) % I = 0 /\ Floor(n) <= n /\ n < Floor(n) + I
      /\ Floor(n + 1) \in Nat /\ Floor(n + 1) % I = 0 /\ Floor(n + 1) <= n + 1
      /\ I \in Nat
  <2> DEFINE m == n + 1
  <2>1. m \in Nat
    OBVIOUS
  <2> HIDE DEF m
  <2>2. Floor(m) \in Nat /\ Floor(m) % I = 0 /\ Floor(m) <= m
    BY <2>1, FloorType
  <2> QED BY <2>2, FloorType, CheckpointAssumption DEF m
<1>2. Floor(n) <= Floor(n + 1)
  BY <1>1, FloorAbove
<1>3. (n + 1) % I = 0 => Floor(n + 1) = n + 1
  BY <1>1, FloorAbove
<1>4. (n + 1) % I # 0 => Floor(n + 1) <= n
  <2>1. (n + 1) % I # 0 => Floor(n + 1) # n + 1
    BY <1>1
  <2> QED BY <1>1, <2>1
<1>5. (n + 1) % I # 0 => Floor(n + 1) <= Floor(n)
  BY <1>1, <1>4, FloorAbove
<1> QED BY <1>1, <1>2, <1>3, <1>5

LEMMA FloorMonotone ==
  ASSUME NEW m \in Nat, NEW n \in Nat, m <= n
  PROVE  Floor(m) <= Floor(n)
<1>1. Floor(m) \in Nat /\ Floor(m) % I = 0 /\ Floor(m) <= m
  BY FloorType
<1>2. Floor(m) <= n
  BY <1>1
<1> QED BY <1>1, <1>2, FloorAbove

\* Only if each block is a transition is one that follows another.
LEMMA NoTwoTransitions ==
  ASSUME NEW n \in Nat, n % I = 0, (n + 1) % I = 0
  PROVE  I = 1
<1>1. PICK p \in Nat : n = I * p
  BY FloorIs DEF Floor
<1>2. PICK q \in Nat : n + 1 = I * q
  BY FloorIs DEF Floor
<1>3. q > p
  <2>1. p > q => I * p >= I * q + I
    BY MultiplesApart
  <2> QED BY <1>1, <1>2, <2>1, CheckpointAssumption
<1>4. I * q >= I * p + I
  BY <1>3, MultiplesApart
<1> QED BY <1>1, <1>2, <1>4, CheckpointAssumption

\* what _BRPeerManager saves starts at the first transition from n on
LEMMA StartAtTransition ==
  ASSUME NEW n \in Nat
  PROVE  LET start == n + ((I - (n % I)) % I)
         IN  start \in Nat /\ start >= n /\ start % I = 0
<1> DEFINE r == n % I
           start == n + ((I - r) % I)
<1>1. r \in 0 .. I - 1 /\ n = Floor(n) + r
  <2>1. r \in 0 .. I - 1
    BY CheckpointAssumption
  <2> HIDE DEF r
  <2> QED BY <2>1 DEF Floor, r
<1>2. PICK q \in Nat : Floor(n) = I * q
  BY FloorIs
<1>3. I % I = 0
  BY CheckpointAssumption
<1> HIDE DEF r
<1>4. CASE r = 0
  <2>1. start = n
    BY <1>3, <1>4, CheckpointAssumption
  <2>2. n % I = 0
    BY <1>4 DEF r
  <2> QED BY <2>1, <2>2 DEF r
<1>5. CASE r # 0
  <2>1. I - r \in Nat /\ I - r < I
    BY <1>1, <1>5, CheckpointAssumption
  <2>2. (I - r) % I = I - r
    BY <2>1, CheckpointAssumption
  <2>3. start = Floor(n) + I /\ start >= n
    <3>1. Floor(n) \in Nat /\ start = n + (I - r)
      BY <2>2, FloorType
    <3> HIDE DEF start
    <3> QED BY <1>1, <2>1, <3>1, CheckpointAssumption
  <2>4. Floor(n) + I = I * (q + 1)
    BY <1>2, CheckpointAssumption
  <2>5. I * (q + 1) \in Nat /\ (I * (q + 1)) % I = 0
    BY Multiple
  <2> QED BY <2>3, <2>4, <2>5 DEF r
<1> QED BY <1>4, <1>5

-----------------------------------------------------------------------------
(***************************************************************************)
(* What is saved.                                                          *)
(***************************************************************************)
\* S has, with a block, those before it back to a transition.
Complete(S) ==
  \A b \in S : \A a \in Lineage[b] : Height[a] >= Height[b] - (Height[b] % I) => a \in S

LEMMA MinHeight ==
  ASSUME NEW A, A \subseteq Block, A # {}
  PROVE  \E a \in A : /\ Min({Height[c] : c \in A}) = Height[a]
                      /\ \A c \in A : Height[a] <= Height[c]
<1> DEFINE S == {Height[c] : c \in A}
<1>1. S \subseteq Nat /\ S # {}
  BY BlockTypes
<1>2. Min(S) \in S /\ \A y \in S : Min(S) <= y
  <2> HIDE DEF S
  <2> QED BY <1>1, LeastNat
<1> QED BY <1>2

\* The walk back from b is cut off at a transition, wherever it ended.
LEMMA SavedComplete ==
  ASSUME NEW b \in Block, NEW S, NEW count \in Int
  PROVE  Complete(Saved(S, b, count))
<1> DEFINE walked == {a \in Line(S, b) : Height[a] > Height[b] - count}
           lowest == Min({Height[a] : a \in walked})
           start == lowest + ((I - (lowest % I)) % I)
<1>1. Saved(S, b, count) = {a \in walked : Height[a] >= start}
  BY DEF Saved
<1>2. walked \subseteq Block /\ walked \subseteq Lineage[b]
  BY LineType DEF Line
<1>3. SUFFICES ASSUME NEW x \in walked, Height[x] >= start, NEW a \in Lineage[x],
                      Height[a] >= Height[x] - (Height[x] % I)
               PROVE  a \in walked /\ Height[a] >= start
  <2> HIDE DEF walked, start
  <2> QED BY <1>1, <1>3 DEF Complete
<1>4. PICK l \in walked : lowest = Height[l] /\ \A c \in walked : Height[l] <= Height[c]
  <2> HIDE DEF walked
  <2> QED BY <1>2, <1>3, MinHeight
<1>5. lowest \in Nat
  BY <1>2, <1>4, BlockTypes
<1> HIDE DEF lowest
<1>6. start \in Nat /\ start >= lowest /\ start % I = 0
  BY <1>5, StartAtTransition
<1> HIDE DEF start
<1>7. x \in Block /\ x \in Lineage[b] /\ Height[x] \in Nat /\ Height[b] \in Nat
  BY <1>2, BlockTypes
<1>8. a \in Lineage[b] /\ a \in Block /\ Height[a] \in Nat
  BY <1>7, LineageNested, LineageBelow, BlockTypes
<1>9. Height[a] >= start
  <2>1. start <= Floor(Height[x]) /\ Floor(Height[x]) \in Nat
    BY <1>3, <1>6, <1>7, FloorAbove, FloorType
  <2>2. Height[a] >= Floor(Height[x])
    BY <1>3 DEF Floor
  <2> QED BY <1>6, <1>8, <2>1, <2>2
<1>10. Height[a] >= Height[l] /\ Height[l] \in Nat
  BY <1>4, <1>5, <1>6, <1>8, <1>9
<1>11. a \in Line(S, b)
  <2> SUFFICES ASSUME NEW c \in Lineage[b], Height[a] <= Height[c], Height[c] < Height[b]
               PROVE  c \in S
    BY <1>8 DEF Line
  <2>1. Height[c] \in Nat
    BY LineageBelow, BlockTypes
  <2>2. Height[l] <= Height[c]
    BY <1>8, <1>10, <2>1
  <2>3. l \in Line(S, b)
    OBVIOUS
  <2> QED BY <2>2, <2>3 DEF Line
<1>12. Height[a] > Height[b] - count
  <2>1. Height[l] > Height[b] - count
    OBVIOUS
  <2> HIDE DEF walked
  <2> QED BY <1>7, <1>8, <1>10, <2>1
<1> QED BY <1>9, <1>11, <1>12

\* Saves that wait, and what is saved.
DiskInv ==
  /\ TypeOK
  /\ Complete(disk)
  /\ \A p \in Peer : Complete(thread[p].save.blocks)
  /\ \A i \in DOMAIN queue : Complete(queue[i].blocks)

LEMMA SaveBack == Complete({}) /\ \A S : Save(S).blocks = S
BY DEF Complete, Save

LEMMA DiskLeaves ==
  ASSUME DiskInv, TypeOK', NEW p \in Peer, NEW n, NEW S, NEW F,
         Leaves(p, [next |-> n, save |-> Save(S)], F), Complete(S), UNCHANGED disk
  PROVE  DiskInv'
<1>1. \A s \in Saves : FreeIn(s, F).blocks = s.blocks
  BY DEF FreeIn, Saves
<1>2. thread \in Threads /\ queue \in Seq(Saves)
  BY DEF DiskInv, TypeOK, Threads
<1>3. ASSUME NEW q \in Peer PROVE Complete(thread'[q].save.blocks)
  <2>1. CASE q = p
    <3>1. thread'[q].save.blocks = S
      BY <2>1, SaveBack DEF Leaves
    <3> QED BY <3>1
  <2>2. CASE q # p
    <3>1. thread[q].save \in Saves
      BY <1>2 DEF Threads
    <3>2. thread'[q].save = FreeIn(thread[q].save, F)
      BY <1>2, <2>2 DEF Leaves, Threads
    <3> QED BY <1>1, <3>1, <3>2 DEF DiskInv
  <2> QED BY <2>1, <2>2
<1>4. ASSUME NEW i \in DOMAIN queue' PROVE Complete(queue'[i].blocks)
  <2>1. i \in DOMAIN queue /\ queue'[i] = FreeIn(queue[i], F)
    BY DEF Leaves
  <2>2. queue[i] \in Saves
    BY <1>2, <2>1, ElementOfSeq
  <2> QED BY <1>1, <2>1, <2>2 DEF DiskInv
<1>5. Complete(disk')
  BY DEF DiskInv
<1> QED BY <1>3, <1>4, <1>5 DEF DiskInv, Complete

LEMMA CountType ==
  ASSUME NEW b \in Block
  PROVE  CompleteCount(b) \in Int /\ ExtensionCount(b) \in Int
<1>1. Height[b] % I \in Int /\ I \in Int
  BY BlockTypes, CheckpointAssumption
<1> QED BY <1>1 DEF CompleteCount, ExtensionCount

LEMMA DiskBlock ==
  ASSUME DiskInv, TypeOK', NEW p \in Peer, NEW b \in Block, HandleBlock(p, b)
  PROVE  DiskInv'
<1>1. PICK n, S, F : /\ Leaves(p, [next |-> n, save |-> Save(S)], F) /\ Complete(S)
                     /\ UNCHANGED disk
  <2>1. ASSUME NEW F, Dropped(p, F)
        PROVE  \E n, S : Leaves(p, [next |-> n, save |-> Save(S)], F) /\ Complete(S)
    BY <2>1, SaveBack DEF Dropped, NoWork
  <2>2. ASSUME NEW O, NEW S, NEW F, Kept(p, b, O, S, F)
        PROVE  \E n : Leaves(p, [next |-> n, save |-> Save(S)], F)
    BY <2>2 DEF Kept
  <2>3. CASE Ignore(p, b) \/ Orphan(p, b) \/ Invalid(p, b) \/ OldFork(p, b)
    <3>1. (Dropped(p, {}) \/ Dropped(p, Freed(b))) /\ UNCHANGED disk
      BY <2>3 DEF Ignore, Orphan, Invalid, OldFork
    <3> QED BY <2>1, <3>1
  <2>4. CASE Existing(p, b) \/ MinedDuringRescan(p, b) \/ Fork(p, b)
    <3>1. /\ \/ Kept(p, b, orphans, {}, Freed(b) \cup {b}) \/ Kept(p, b, WithOrphan(b), {}, Freed(b))
             \/ Kept(p, b, orphans, {}, Freed(b))
          /\ UNCHANGED disk
      BY <2>4 DEF Existing, MinedDuringRescan, Fork
    <3> QED BY <2>2, <3>1, SaveBack
  <2>5. CASE ExtendMain(p, b) \/ Reorganise(p, b)
    <3> DEFINE S(n) == Saved(blocks', b, n)
    <3>1. PICK O : /\ Kept(p, b, O, S(ExtensionCount(b)), Freed(b))
                      \/ Kept(p, b, O, S(CompleteCount(b)), Freed(b))
                   /\ UNCHANGED disk
      BY <2>5 DEF ExtendMain, Reorganise
    <3>2. Complete(S(ExtensionCount(b))) /\ Complete(S(CompleteCount(b)))
      BY SavedComplete, CountType
    <3> HIDE DEF S
    <3> QED BY <2>2, <3>1, <3>2
  <2> QED BY <2>3, <2>4, <2>5 DEF HandleBlock
<1> QED BY <1>1, DiskLeaves

LEMMA DiskCallSave ==
  ASSUME DiskInv, TypeOK', NEW p \in Peer, CallSave(p)
  PROVE  DiskInv'
<1>1. /\ thread \in Threads /\ queue \in Seq(Saves) /\ thread[p].save \in Saves
      /\ queue' = Append(queue, thread[p].save) /\ UNCHANGED disk
      /\ thread' = [thread EXCEPT ![p].save = Save({})]
  BY DEF DiskInv, TypeOK, CallSave, Threads
<1>2. ASSUME NEW q \in Peer PROVE Complete(thread'[q].save.blocks)
  <2>1. CASE q = p
    <3>1. thread'[q].save = Save({})
      BY <1>1, <2>1 DEF Threads
    <3> QED BY <3>1, SaveBack
  <2>2. CASE q # p
    BY <1>1, <2>2 DEF DiskInv, Threads
  <2> QED BY <2>1, <2>2
<1>3. ASSUME NEW i \in DOMAIN queue' PROVE Complete(queue'[i].blocks)
  <2>1. Len(queue) \in Nat /\ DOMAIN queue = 1 .. Len(queue) /\ i \in 1 .. Len(queue) + 1
    BY <1>1, AppendProperties, LenProperties
  <2>2. CASE i = Len(queue) + 1
    BY <1>1, <2>1, <2>2, AppendProperties DEF DiskInv
  <2>3. CASE i # Len(queue) + 1
    <3>1. i \in DOMAIN queue
      BY <2>1, <2>3
    <3>2. queue'[i] = queue[i]
      BY <1>1, <2>1, <3>1, AppendProperties
    <3> QED BY <3>1, <3>2 DEF DiskInv
  <2> QED BY <2>2, <2>3
<1> QED BY <1>1, <1>2, <1>3 DEF DiskInv, Complete

LEMMA DiskSaveBlocks ==
  ASSUME ~ Reused, DiskInv, TypeOK', SaveBlocks
  PROVE  DiskInv'
<1> DEFINE T == Head(queue).blocks
<1>1. queue \in Seq(Saves) /\ queue # <<>> /\ queue' = Tail(queue) /\ UNCHANGED thread
  BY DEF DiskInv, TypeOK, SaveBlocks
<1>2. Len(queue) \in Nat \ {0} /\ DOMAIN queue = 1 .. Len(queue) /\ Head(queue) = queue[1]
  BY <1>1, EmptySeq, LenProperties
<1>3. disk' = T \/ disk' = disk \cup T
  BY DEF SaveBlocks, Readable
<1>4. Complete(T)
  BY <1>2 DEF DiskInv
<1>5. Complete(disk')
  <2> HIDE DEF T
  <2> QED BY <1>3, <1>4 DEF Complete, DiskInv
<1>6. ASSUME NEW i \in DOMAIN queue' PROVE Complete(queue'[i].blocks)
  <2>1. i + 1 \in DOMAIN queue /\ queue'[i] = queue[i + 1]
    BY <1>1, <1>2
  <2> QED BY <2>1 DEF DiskInv
<1> QED BY <1>1, <1>5, <1>6 DEF DiskInv, Complete

LEMMA DiskStep ==
  ASSUME ~ Reused, DiskInv, [Next]_vars
  PROVE  DiskInv'
<1>1. TypeOK'
  BY ChainTypeStep DEF DiskInv
<1>2. CASE \E p \in Peer, b \in Relayed : HandleBlock(p, b)
  BY <1>1, <1>2, DiskBlock DEF Relayed
<1>3. CASE SaveBlocks \/ \E p \in Peer : CallSave(p)
  BY <1>1, <1>3, DiskCallSave, DiskSaveBlocks
<1>4. CASE Restart
  <2>1. thread' = [p \in Peer |-> NoWork] /\ queue' = <<>> /\ UNCHANGED disk
    BY <1>4 DEF Restart, Volatile
  <2>2. \A p \in Peer : Complete(thread'[p].save.blocks)
    BY <2>1, SaveBack DEF NoWork
  <2>3. DOMAIN queue' = {}
    BY <2>1
  <2> QED BY <1>1, <2>1, <2>2, <2>3 DEF DiskInv, Complete
<1>5. CASE UNCHANGED <<thread, queue, disk>>
  BY <1>1, <1>5 DEF DiskInv, Complete
<1>6. \/ \E p \in Peer, b \in Relayed : HandleBlock(p, b)
      \/ SaveBlocks \/ (\E p \in Peer : CallSave(p)) \/ Restart
      \/ UNCHANGED <<thread, queue, disk>>
  BY DEF Next, vars, JoinFirst, JoinSecond, Disconnect, UpdateFilter, Rescan
<1> QED BY <1>2, <1>3, <1>4, <1>5, <1>6

\* If no struct is reused before the application's queue reads it, what is saved
\* has no gap back to a transition: of any chain with any forks, however saves
\* that replace all and saves that add one follow each other, and whatever
\* rescans and restarts come between.
THEOREM DiskFromTransitionHolds == ~ Reused /\ Spec => []DiskFromTransition
<1> SUFFICES ASSUME ~ Reused PROVE Spec => []DiskFromTransition
  OBVIOUS
<1>1. Init => DiskInv
  <2> SUFFICES ASSUME Init PROVE DiskInv
    OBVIOUS
  <2>1. TypeOK /\ disk = {} /\ queue = <<>> /\ thread = [p \in Peer |-> NoWork]
    BY ChainTypeInit DEF Init
  <2>2. \A p \in Peer : Complete(thread[p].save.blocks)
    BY <2>1, SaveBack DEF NoWork
  <2>3. DOMAIN queue = {}
    BY <2>1
  <2> QED BY <2>1, <2>2, <2>3, SaveBack DEF DiskInv
<1>2. DiskInv /\ [Next]_vars => DiskInv'
  BY DiskStep
<1>3. DiskInv => DiskFromTransition
  BY DEF DiskInv, Complete, DiskFromTransition
<1> QED BY <1>1, <1>2, <1>3, PTL DEF Spec

-----------------------------------------------------------------------------
(***************************************************************************)
(* What verifying frees, and what stays.                                   *)
(***************************************************************************)
LEMMA LineageTop ==
  ASSUME NEW b \in Block, NEW a \in Lineage[b], Height[a] >= Height[b]
  PROVE  a = b
<1> SUFFICES ASSUME a # b PROVE FALSE
  OBVIOUS
<1>1. Parent[b] \in Block /\ a \in Lineage[Parent[b]] /\ Height[b] = Height[Parent[b]] + 1
  BY LineageParent
<1>2. a \in Block /\ Height[a] <= Height[Parent[b]]
  BY <1>1, LineageBelow
<1>3. Height[a] \in Nat /\ Height[Parent[b]] \in Nat
  BY <1>1, <1>2, BlockTypes
<1> QED BY <1>1, <1>2, <1>3

\* not older than the transition before the one the next block may be
Recent(a) == Height[a] >= Floor(Height[lastBlock] + 1) - I

LEMMA CheckpointFloor ==
  ASSUME NEW c \in Checkpoints
  PROVE  IsTransition(c) /\ Floor(Height[c]) = Height[c]
BY CheckpointAssumption, BlockTypes DEF IsTransition, Floor

\* A block on top of a stored one is at most the next.
LEMMA HeightNext ==
  ASSUME TypeOK, BestChain, NEW b \in Block, Parent[b] \in blocks, Parent[b] \notin Checkpoints
  PROVE  Height[b] <= Height[lastBlock] + 1
<1>1. Parent[b] \in Block /\ Height[Parent[b]] <= Height[lastBlock]
  BY DEF TypeOK, BestChain
<1>2. Height[b] = Height[Parent[b]] + 1
  BY <1>1, BlockAssumption
<1>3. lastBlock \in Block
  BY DEF TypeOK
<1> QED BY <1>1, <1>2, <1>3, BlockTypes

\* Verifying a block frees only what is older, and no checkpoint.  (A block on
\* top of a checkpoint is no transition, unless every block is.)
LEMMA FreedOld ==
  ASSUME TypeOK, BestChain, NEW b \in Block, Parent[b] \in blocks, NEW a \in Freed(b)
  PROVE  a \notin Checkpoints /\ ~ Recent(a)
<1>1. /\ a \in Block /\ ~ IsTransition(a) /\ IsTransition(b)
      /\ Height[a] < Height[b] - I
  <2>1. a \in Freed(b) /\ Freed(b) \subseteq Block
    BY FreedType
  <2> QED BY <2>1 DEF Freed
<1>2. a \notin Checkpoints
  BY <1>1, CheckpointFloor
<1>3. lastBlock \in Block /\ Parent[b] \in Block
  BY DEF TypeOK
<1>4. Height[a] \in Nat /\ Height[b] \in Nat /\ Height[lastBlock] \in Nat /\ Height[Parent[b]] \in Nat
  BY <1>1, <1>3, BlockTypes
<1>5. Parent[b] \notin Checkpoints
  <2> SUFFICES ASSUME Parent[b] \in Checkpoints PROVE FALSE
    OBVIOUS
  <2>1. Height[b] = Height[Parent[b]] + 1
    BY <1>3, BlockAssumption
  <2>2. Height[Parent[b]] % I = 0 /\ (Height[Parent[b]] + 1) % I = 0
    BY <1>1, <2>1, CheckpointFloor DEF IsTransition
  <2>3. I = 1
    BY <1>4, <2>2, NoTwoTransitions
  <2> QED BY <1>1, <1>4, <2>3 DEF IsTransition
<1>6. Height[b] <= Height[lastBlock] + 1
  BY <1>5, HeightNext
<1> DEFINE n == Height[lastBlock] + 1
<1>7. n \in Nat
  BY <1>4
<1> HIDE DEF n
<1>8. Height[b] <= Floor(n) /\ Floor(n) \in Nat
  BY <1>1, <1>4, <1>6, <1>7, FloorAbove, FloorType DEF IsTransition, n
<1>9. ~ (Height[a] >= Floor(n) - I)
  BY <1>1, <1>4, <1>8, CheckpointAssumption
<1> QED BY <1>2, <1>9 DEF Recent, n

\* A higher tip makes no block recent.
LEMMA RecentBack ==
  ASSUME TypeOK, TypeOK', Height[lastBlock'] >= Height[lastBlock],
         NEW a \in Block, Recent(a)'
  PROVE  Recent(a)
<1>1. Height[lastBlock] \in Nat /\ Height[lastBlock'] \in Nat /\ Height[a] \in Nat
  BY BlockTypes DEF TypeOK
<1> DEFINE m == Height[lastBlock] + 1
           n == Height[lastBlock'] + 1
<1>2. m \in Nat /\ n \in Nat /\ m <= n
  BY <1>1
<1>3. Height[a] >= Floor(n) - I
  BY DEF Recent
<1> HIDE DEF m, n
<1>4. Floor(m) <= Floor(n) /\ Floor(m) \in Nat /\ Floor(n) \in Nat
  BY <1>2, FloorMonotone, FloorType
<1>5. Height[a] >= Floor(m) - I
  BY <1>1, <1>3, <1>4, CheckpointAssumption
<1> QED BY <1>5 DEF Recent, m

\* The tip itself is recent, and what is before it back to a transition.
LEMMA RecentTip ==
  ASSUME TypeOK, NEW a \in Block, Height[a] >= Floor(Height[lastBlock])
  PROVE  Recent(a)
<1> DEFINE n == Height[lastBlock]
<1>1. n \in Nat /\ Height[a] \in Nat
  BY BlockTypes DEF TypeOK
<1> HIDE DEF n
<1>2. Floor(n) \in Nat /\ Floor(n + 1) <= Floor(n) + I
  BY <1>1, FloorType, FloorNext
<1>3. Floor(n + 1) \in Nat
  <2> DEFINE m == n + 1
  <2>1. m \in Nat
    BY <1>1
  <2> HIDE DEF m
  <2>2. Floor(m) \in Nat
    BY <2>1, FloorType
  <2> QED BY <2>2 DEF m
<1>4. Height[a] >= Floor(n)
  BY DEF n
<1>5. Height[a] >= Floor(n + 1) - I
  BY <1>1, <1>2, <1>3, <1>4, CheckpointAssumption
<1> QED BY <1>5 DEF Recent, n

-----------------------------------------------------------------------------
(***************************************************************************)
(* Back from every stored block the chain is there to a transition.        *)
(***************************************************************************)
KeptInv ==
  /\ lastBlock \in blocks
  /\ \A d \in blocks : \A a \in Lineage[d] :
       Height[a] >= Floor(Height[d]) /\ Recent(a) => a \in blocks

\* a handler frees by verifying b, may store b, and may follow it
Handled(b) ==
  /\ Parent[b] \in blocks
  /\ blocks' \in {blocks \ Freed(b), (blocks \ Freed(b)) \cup {b}}
  /\ \/ lastBlock' = lastBlock
     \/ lastBlock' = b /\ b \in blocks' /\ Height[b] > Height[lastBlock]

LEMMA HandlesBlocks ==
  ASSUME TypeOK, NEW p \in Peer, NEW b \in Block, HandleBlock(p, b)
  PROVE  Handled(b) \/ UNCHANGED <<blocks, lastBlock>>
<1>1. CASE ExtendMain(p, b)
  <2>1. lastBlock \in Block /\ Parent[b] = lastBlock
    BY <1>1 DEF TypeOK, ExtendMain
  <2>2. Height[b] > Height[lastBlock]
    BY <2>1, BlockAssumption
  <2> QED BY <1>1, <2>2 DEF ExtendMain, Valid, Handled
<1>2. CASE Reorganise(p, b)
  <2>1. lastBlock \in Block
    BY DEF TypeOK
  <2>2. Height[b] > Height[lastBlock]
    BY <1>2, <2>1, BlockTypes DEF Reorganise, Shorter
  <2> QED BY <1>2, <2>2 DEF Reorganise, New, Valid, Handled
<1>3. CASE Ignore(p, b) \/ Orphan(p, b)
  BY <1>3 DEF Ignore, Orphan
<1>4. CASE Invalid(p, b) \/ Existing(p, b) \/ MinedDuringRescan(p, b) \/ OldFork(p, b) \/ Fork(p, b)
  BY <1>4 DEF Invalid, Existing, MinedDuringRescan, OldFork, Fork, New, Valid, Handled
<1> QED BY <1>1, <1>2, <1>3, <1>4 DEF HandleBlock

\* the handler's tip: no lower, and still stored
LEMMA HandledTip ==
  ASSUME TypeOK, BestChain, lastBlock \in blocks, NEW b \in Block, Handled(b)
  PROVE  Height[lastBlock'] >= Height[lastBlock] /\ lastBlock' \in blocks'
<1>1. lastBlock \in Block /\ Height[lastBlock] \in Nat /\ Height[b] \in Nat
  BY BlockTypes DEF TypeOK
<1>2. Recent(lastBlock)
  BY <1>1, RecentTip, FloorType
<1>3. lastBlock \notin Freed(b)
  BY <1>2, FreedOld DEF Handled
<1> QED BY <1>1, <1>3 DEF Handled

\* b comes on top of its parent's chain, or is itself a transition.
LEMMA FloorOfParent ==
  ASSUME NEW b \in Block, NEW a \in Lineage[b], a # b, Height[a] >= Floor(Height[b])
  PROVE  /\ Parent[b] \in Block /\ a \in Lineage[Parent[b]]
         /\ Height[a] >= Floor(Height[Parent[b]])
<1> DEFINE n == Height[Parent[b]]
<1>1. Parent[b] \in Block /\ a \in Lineage[Parent[b]] /\ Height[b] = n + 1
  BY LineageParent
<1>2. a \in Block /\ Height[a] <= n
  BY <1>1, LineageBelow
<1>3. n \in Nat /\ Height[a] \in Nat
  BY <1>1, <1>2, BlockTypes
<1> HIDE DEF n
<1>4. Height[a] >= Floor(n + 1)
  BY <1>1
<1>5. (n + 1) % I # 0
  <2>1. (n + 1) % I = 0 => Floor(n + 1) = n + 1
    BY <1>3, FloorNext
  <2> QED BY <1>2, <1>3, <1>4, <2>1
<1>6. Floor(n + 1) = Floor(n)
  BY <1>3, <1>5, FloorNext
<1> QED BY <1>1, <1>4, <1>6 DEF n

LEMMA KeptHandled ==
  ASSUME TypeOK, TypeOK', BestChain, KeptInv, NEW b \in Block, Handled(b)
  PROVE  KeptInv'
<1>1. Height[lastBlock'] >= Height[lastBlock] /\ lastBlock' \in blocks'
  BY HandledTip DEF KeptInv
<1> SUFFICES ASSUME NEW d \in blocks', NEW a \in Lineage[d],
                    Height[a] >= Floor(Height[d]), Recent(a)'
             PROVE  a \in blocks'
  BY <1>1 DEF KeptInv, Recent
<1>2. d \in Block /\ a \in Block
  BY LineageBelow DEF TypeOK
<1>3. Recent(a)
  BY <1>1, <1>2, RecentBack
<1>4. a \notin Freed(b)
  BY <1>3, FreedOld DEF Handled
<1>5. CASE d \in blocks
  <2>1. a \in blocks
    BY <1>3, <1>5 DEF KeptInv
  <2> QED BY <1>4, <2>1 DEF Handled
<1>6. CASE d \notin blocks
  <2>1. d = b
    BY <1>6 DEF Handled
  <2>2. CASE a = b
    BY <2>1, <2>2
  <2>3. CASE a # b
    <3>1. Parent[b] \in Block /\ a \in Lineage[Parent[b]] /\ Height[a] >= Floor(Height[Parent[b]])
      BY <2>1, <2>3, FloorOfParent
    <3>2. a \in blocks
      BY <1>3, <3>1 DEF KeptInv, Handled
    <3> QED BY <1>4, <3>2 DEF Handled
  <2> QED BY <2>2, <2>3
<1> QED BY <1>5, <1>6

\* What a restart loads has no gap back to the transition it starts from.
LEMMA KeptRestart ==
  ASSUME TypeOK, TypeOK', Restart
  PROVE  KeptInv'
<1>1. ASSUME NEW d \in Checkpoints, NEW a \in Lineage[d], Height[a] >= Floor(Height[d])
      PROVE  a = d
  BY <1>1, CheckpointFloor, LineageTop, BlockTypes
<1>2. CASE LastTransitions = {}
  <2>1. blocks' = Checkpoints /\ lastBlock' = Birth
    BY <1>2 DEF Restart
  <2> QED BY <1>1, <2>1, BlockTypes DEF KeptInv
<1>3. CASE LastTransitions # {}
  <2>1. PICK t \in LastTransitions, K \in Keyed : StartFrom(t, K)
    BY <1>3 DEF Restart
  <2> DEFINE F == Following(t, K)
  <2>2. blocks' = Checkpoints \cup F /\ lastBlock' \in F
    BY <2>1 DEF StartFrom
  <2>3. t \in Block /\ Height[t] \in Nat /\ Height[t] % I = 0 /\ t \in F
    BY BlockTypes DEF LastTransitions, IsTransition, Following, TypeOK
  <2>4. ASSUME NEW d \in F, NEW a \in Lineage[d], Height[a] >= Floor(Height[d])
        PROVE  a \in F
    <3>1. d \in Block
      BY <2>2 DEF TypeOK
    <3>2. /\ t \in Lineage[d]
          /\ \A c \in Lineage[d] : Height[c] > Height[t] => c \in K
      <4>1. CASE d = t
        <5>1. \A c \in Lineage[t] : Height[c] <= Height[t] /\ Height[c] \in Nat
          BY <2>3, LineageBelow, BlockTypes
        <5> QED BY <2>3, <4>1, <5>1, LineageSelf
      <4>2. CASE d # t
        BY <4>2 DEF Following
      <4> QED BY <4>1, <4>2
    <3>3. Height[t] <= Height[d] /\ a \in Block
      BY <3>1, <3>2, LineageBelow
    <3>4. Height[a] \in Nat /\ Height[d] \in Nat
      BY <3>1, <3>3, BlockTypes
    <3>5. Height[t] <= Floor(Height[d]) /\ Floor(Height[d]) \in Nat
      BY <2>3, <3>3, <3>4, FloorAbove, FloorType
    <3>6. Height[t] <= Height[a]
      BY <2>3, <2>4, <3>4, <3>5
    <3>7. t \in Lineage[a] /\ Lineage[a] \subseteq Lineage[d]
      BY <3>1, <3>2, <3>6, LineageNested
    <3>8. CASE Height[a] > Height[t]
      <4>1. a \in K
        BY <3>2, <3>8
      <4> QED BY <3>2, <3>7, <4>1 DEF Following
    <3>9. CASE ~ (Height[a] > Height[t])
      <4>1. t = a
        BY <2>3, <3>3, <3>4, <3>7, <3>9, LineageTop
      <4> QED BY <2>3, <4>1
    <3> QED BY <3>8, <3>9
  <2> HIDE DEF F
  <2>5. \A d \in blocks' : \A a \in Lineage[d] : Height[a] >= Floor(Height[d]) => a \in blocks'
    BY <1>1, <2>2, <2>4
  <2> QED BY <2>2, <2>5 DEF KeptInv
<1> QED BY <1>2, <1>3

\* Until a rescan, what the next transition block is verified against is there:
\* the chain is complete from lastBlock back to a transition, however forks and
\* the freeing of old blocks by several peers' threads go together, and also
\* when it was rebuilt from whatever was saved.
THEOREM VerifiableHolds == Spec => []Verifiable
<1> DEFINE Inv == rescans = 0 => KeptInv
<1>1. Init => Inv
  <2> SUFFICES ASSUME Init PROVE KeptInv
    OBVIOUS
  <2>1. ASSUME NEW d \in Checkpoints, NEW a \in Lineage[d], Height[a] >= Floor(Height[d])
        PROVE  a = d
    BY <2>1, CheckpointFloor, LineageTop, BlockTypes
  <2> QED BY <2>1, BlockTypes DEF Init, KeptInv
<1>2. TypeOK /\ TypeOK' /\ (rescans = 0 => BestChain) /\ Inv /\ [Next]_vars => Inv'
  <2> SUFFICES ASSUME TypeOK, TypeOK', rescans = 0 => BestChain, Inv, [Next]_vars, rescans' = 0
               PROVE  KeptInv'
    OBVIOUS
  <2>1. BestChain /\ KeptInv
    BY UntilRescan
  <2>2. CASE UNCHANGED <<blocks, lastBlock>>
    BY <2>1, <2>2 DEF KeptInv, Recent
  <2>3. CASE \E p \in Peer, b \in Relayed : HandleBlock(p, b)
    BY <2>1, <2>2, <2>3, HandlesBlocks, KeptHandled DEF Relayed
  <2>4. CASE Restart
    BY <2>4, KeptRestart
  <2> QED BY <2>2, <2>3, <2>4, UntilRescan
<1>3. TypeOK /\ Inv => Verifiable
  <2> SUFFICES ASSUME TypeOK, KeptInv, NEW a \in Lineage[lastBlock],
                      Height[a] >= Height[lastBlock] - (Height[lastBlock] % I)
               PROVE  a \in blocks
    BY DEF Verifiable
  <2>1. a \in Block /\ Height[a] >= Floor(Height[lastBlock])
    BY LineageBelow DEF TypeOK, Floor
  <2>2. Recent(a)
    BY <2>1, RecentTip
  <2> QED BY <2>1, <2>2 DEF KeptInv
<1> QED BY <1>1, <1>2, <1>3, ChainTypeCorrect, BestUntilRescan, PTL DEF Spec

-----------------------------------------------------------------------------
(***************************************************************************)
(* Forks meet the chain.                                                   *)
(***************************************************************************)
\* What is stored besides checkpoints descends from Birth, and so does the tip.
Rooted(d) == Birth \in Lineage[d]
Followed == (blocks \ Checkpoints) \cup {lastBlock}

\* Back from each of them to Birth, whatever is recent is stored.
RootInv ==
  \A d \in Followed :
    /\ Rooted(d)
    /\ \A a \in Lineage[d] : Height[a] >= Height[Birth] /\ Recent(a) => a \in blocks

BirthIsLast == LastCheckpoint = Height[Birth]

LEMMA BirthHighest ==
  ASSUME BirthIsLast, NEW c \in Checkpoints
  PROVE  Height[c] <= Height[Birth] /\ (Height[c] >= Height[Birth] => c = Birth)
<1> DEFINE S == {Height[d] : d \in Checkpoints}
<1>1. PICK e \in Checkpoints : \A d \in Checkpoints : Height[d] <= Height[e]
  BY CheckpointAssumption
<1>2. S \subseteq Int /\ S # {} /\ Height[e] \in Int /\ \A x \in S : x <= Height[e]
  BY <1>1, BlockTypes
<1>3. \A y \in S : y <= Max(S)
  <2> HIDE DEF S
  <2> QED BY <1>2, GreatestInt
<1>4. Height[c] <= Height[Birth]
  BY <1>3 DEF LastCheckpoint, BirthIsLast
<1>5. c \in Lineage[Birth] /\ Birth \in Block
  BY <1>4, CheckpointAssumption
<1> QED BY <1>4, <1>5, LineageTop

\* What may be stored on top of what is: b continues the chain followed, or is
\* above the last checkpoint.
Continued(b) == Parent[b] = lastBlock \/ Height[b] > LastCheckpoint

LEMMA RootParent ==
  ASSUME TypeOK, BirthIsLast, RootInv, NEW b \in Block, Parent[b] \in blocks, Continued(b)
  PROVE  /\ Parent[b] \in Followed \/ Parent[b] = Birth
         /\ Rooted(Parent[b])
         /\ \A a \in Lineage[Parent[b]] :
              Height[a] >= Height[Birth] /\ Recent(a) => a \in blocks
<1>1. Parent[b] \in Block
  BY DEF TypeOK
<1>2. Height[b] = Height[Parent[b]] + 1 /\ Height[Parent[b]] \in Nat /\ Height[Birth] \in Nat
  BY <1>1, BlockAssumption, BlockTypes
<1>3. CASE Parent[b] \in Followed
  BY <1>3 DEF RootInv
<1>4. CASE Parent[b] \notin Followed
  <2>1. Parent[b] \in Checkpoints /\ Parent[b] # lastBlock
    BY <1>4 DEF Followed
  <2>2. Height[b] > Height[Birth]
    BY <2>1 DEF Continued, BirthIsLast
  <2>3. Parent[b] = Birth
    BY <1>2, <2>1, <2>2, BirthHighest
  <2>4. Rooted(Birth)
    BY BlockTypes, LineageSelf DEF Rooted
  <2>5. \A a \in Lineage[Birth] : Height[a] >= Height[Birth] => a = Birth
    BY BlockTypes, LineageTop
  <2>6. Birth \in blocks
    BY <2>3
  <2> QED BY <2>3, <2>4, <2>5, <2>6
<1> QED BY <1>3, <1>4

LEMMA RootHandled ==
  ASSUME TypeOK, TypeOK', BestChain, lastBlock \in blocks, BirthIsLast, RootInv,
         NEW b \in Block, Handled(b), Continued(b) \/ (blocks' \subseteq blocks /\ lastBlock' = lastBlock)
  PROVE  RootInv'
<1>1. Height[lastBlock'] >= Height[lastBlock]
  BY HandledTip
<1>2. ASSUME NEW d \in Followed',
             Rooted(d), \A a \in Lineage[d] : Height[a] >= Height[Birth] /\ Recent(a) => a \in blocks \cup {d},
             d \in blocks \/ d \in blocks'
      PROVE  \A a \in Lineage[d] : Height[a] >= Height[Birth] /\ Recent(a)' => a \in blocks'
  <2> SUFFICES ASSUME NEW a \in Lineage[d], Height[a] >= Height[Birth], Recent(a)'
               PROVE  a \in blocks'
    OBVIOUS
  <2>1. d \in Block /\ a \in Block
    BY LineageBelow DEF Followed, TypeOK
  <2>2. Recent(a)
    BY <1>1, <2>1, RecentBack
  <2>3. a \notin Freed(b)
    BY <2>2, FreedOld DEF Handled
  <2>4. a \in blocks \/ a \in blocks'
    BY <1>2, <2>2
  <2> QED BY <2>3, <2>4 DEF Handled
<1>3. ASSUME NEW d \in Followed'
      PROVE  /\ Rooted(d)
             /\ d \in blocks \/ d \in blocks'
             /\ \A a \in Lineage[d] :
                  Height[a] >= Height[Birth] /\ Recent(a) => a \in blocks \cup {d}
  <2>1. CASE d \in Followed
    BY <2>1 DEF RootInv, Followed, TypeOK
  <2>2. CASE d \notin Followed
    <3>1. d = b /\ b \in blocks'
      BY <2>2 DEF Followed, Handled
    <3>2. Continued(b)
      BY <2>2, <3>1 DEF Followed, Handled
    <3>3. /\ Rooted(Parent[b]) /\ Parent[b] \in Block
          /\ \A a \in Lineage[Parent[b]] :
               Height[a] >= Height[Birth] /\ Recent(a) => a \in blocks
      BY <3>2, RootParent DEF Handled, TypeOK
    <3>4. Lineage[b] = {b} \cup Lineage[Parent[b]]
      BY <3>3, BlockAssumption
    <3> QED BY <3>1, <3>3, <3>4 DEF Rooted
  <2> QED BY <2>1, <2>2
<1>4. \A d \in Followed' :
        \A a \in Lineage[d] : Height[a] >= Height[Birth] /\ Recent(a)' => a \in blocks'
  BY <1>2, <1>3
<1> QED BY <1>3, <1>4 DEF RootInv, Rooted, Recent

LEMMA ContinuesBlocks ==
  ASSUME NEW p \in Peer, NEW b \in Block, HandleBlock(p, b)
  PROVE  Continued(b) \/ (blocks' \subseteq blocks /\ lastBlock' = lastBlock)
<1>1. CASE ExtendMain(p, b)
  BY <1>1 DEF ExtendMain, Continued
<1>2. CASE Reorganise(p, b) \/ Fork(p, b)
  BY <1>2 DEF Reorganise, Fork, Continued
<1>3. CASE \/ Ignore(p, b) \/ Orphan(p, b) \/ Invalid(p, b) \/ Existing(p, b)
           \/ MinedDuringRescan(p, b) \/ OldFork(p, b)
  BY <1>3 DEF Ignore, Orphan, Invalid, Existing, MinedDuringRescan, OldFork
<1> QED BY <1>1, <1>2, <1>3 DEF HandleBlock

LEMMA RootInit ==
  ASSUME Init
  PROVE  RootInv /\ lastBlock \in blocks
<1>1. Followed = {Birth} /\ blocks = Checkpoints /\ Birth \in Checkpoints /\ Birth \in Block
  BY BlockTypes DEF Init, Followed
<1>2. Rooted(Birth) /\ \A a \in Lineage[Birth] : Height[a] >= Height[Birth] => a = Birth
  BY <1>1, LineageSelf, LineageTop DEF Rooted
<1> QED BY <1>1, <1>2 DEF RootInv, Init

\* what the chains of two tips must share for the walks to meet: of a chain one
\* block longer than another, a block no more than an interval before the last
\* transition of the longer
ForksShort ==
  \A b, c \in Block : Rooted(b) /\ Rooted(c) /\ Height[b] = Height[c] + 1
    => \E m \in Lineage[b] \cap Lineage[c] : Height[m] >= Floor(Height[b]) - I

\* The walk back from a followed block gets down to m.
LEMMA WalkReaches ==
  ASSUME TypeOK, NEW b \in Block, NEW c \in Block, NEW S, NEW m \in Lineage[b],
         Lineage[b] = {b} \cup Lineage[c],
         Height[m] >= Height[Birth], Recent(m),
         \A a \in Lineage[c] : Height[a] >= Height[Birth] /\ Recent(a) => a \in S
  PROVE  m \in Line(S, b)
<1> SUFFICES ASSUME NEW a \in Lineage[b], Height[m] <= Height[a], Height[a] < Height[b]
             PROVE  a \in S
  BY DEF Line
<1>1. m \in Block /\ a \in Block /\ lastBlock \in Block
  BY LineageBelow DEF TypeOK
<1>2. Height[a] \in Nat /\ Height[m] \in Nat /\ Height[Birth] \in Nat /\ Height[b] \in Nat
  BY <1>1, BlockTypes
<1>3. a \in Lineage[c]
  BY <1>2
<1> DEFINE n == Floor(Height[lastBlock] + 1) - I
<1>4. n \in Int
  <2> DEFINE k == Height[lastBlock] + 1
  <2>1. k \in Nat
    BY <1>1, BlockTypes
  <2> HIDE DEF k
  <2>2. Floor(k) \in Nat
    BY <2>1, FloorType
  <2> QED BY <2>2, CheckpointAssumption DEF k
<1>5. Height[m] >= n
  BY DEF Recent
<1> HIDE DEF n
<1>6. Height[a] >= Height[Birth] /\ Height[a] >= n
  BY <1>2, <1>4, <1>5
<1> QED BY <1>3, <1>6 DEF Recent, n

\* of m and Birth the higher one
LEMMA HigherJoin ==
  ASSUME NEW b \in Block, NEW c \in Block, Rooted(b), Rooted(c), NEW h \in Int,
         NEW m \in Lineage[b] \cap Lineage[c], Height[m] >= h
  PROVE  \E k \in Lineage[b] \cap Lineage[c] : Height[k] >= h /\ Height[k] >= Height[Birth]
<1>1. m \in Block /\ Birth \in Block
  BY LineageBelow, BlockTypes
<1>2. Height[m] \in Nat /\ Height[Birth] \in Nat
  BY <1>1, BlockTypes
<1>3. CASE Height[m] >= Height[Birth]
  BY <1>3
<1>4. CASE ~ (Height[m] >= Height[Birth])
  <2>1. Height[Birth] >= h
    BY <1>2, <1>4
  <2> QED BY <1>2, <2>1 DEF Rooted
<1> QED BY <1>3, <1>4

LEMMA ForksMeetByRoot ==
  ASSUME TypeOK, BestChain, BirthIsLast, ForksShort, RootInv, lastBlock \in blocks
  PROVE  ForksMeet
<1> SUFFICES ASSUME NEW b \in Relayed \ blocks, Parent[b] \in blocks, ~ Shorter(b),
                    Height[b] > LastCheckpoint
             PROVE  Meeting((blocks \ Freed(b)) \cup {b}, b) # {}
  BY DEF ForksMeet
<1> DEFINE S == (blocks \ Freed(b)) \cup {b}
<1>1. b \in Block /\ lastBlock \in Block /\ Parent[b] \in Block
  BY DEF Relayed, TypeOK
<1>2. /\ Height[b] = Height[Parent[b]] + 1 /\ Lineage[b] = {b} \cup Lineage[Parent[b]]
      /\ Height[b] \in Nat /\ Height[lastBlock] \in Nat /\ Height[Birth] \in Nat
      /\ Height[Parent[b]] \in Nat
  BY <1>1, BlockAssumption, BlockTypes
<1>3. /\ Rooted(Parent[b])
      /\ \A a \in Lineage[Parent[b]] : Height[a] >= Height[Birth] /\ Recent(a) => a \in blocks
  BY <1>1, RootParent DEF Continued
<1>4. /\ Rooted(lastBlock)
      /\ \A a \in Lineage[lastBlock] : Height[a] >= Height[Birth] /\ Recent(a) => a \in blocks
  BY DEF RootInv, Followed
<1>5. Rooted(b)
  BY <1>2, <1>3 DEF Rooted
<1>6. Height[b] = Height[lastBlock] + 1
  <2>1. Height[b] > Height[lastBlock]
    BY <1>2 DEF Shorter
  <2>2. CASE Parent[b] \in Checkpoints
    <3>1. Height[Parent[b]] <= Height[Birth]
      BY <2>2, BirthHighest
    <3>2. Height[Birth] <= Height[lastBlock]
      BY <1>1, <1>4, LineageBelow DEF Rooted
    <3> QED BY <1>2, <2>1, <3>1, <3>2
  <2>3. CASE Parent[b] \notin Checkpoints
    <3>1. Height[b] <= Height[lastBlock] + 1
      BY <1>1, <2>3, HeightNext
    <3> QED BY <1>2, <2>1, <3>1
  <2> QED BY <2>2, <2>3
<1>7. PICK m \in Lineage[b] \cap Lineage[lastBlock] : Height[m] >= Height[Birth] /\ Recent(m)
  <2>1. Floor(Height[b]) - I \in Int
    <3>1. Floor(Height[b]) \in Nat
      BY <1>2, FloorType
    <3> QED BY <3>1, CheckpointAssumption
  <2>2. \E m \in Lineage[b] \cap Lineage[lastBlock] : Height[m] >= Floor(Height[b]) - I
    BY <1>1, <1>4, <1>5, <1>6 DEF ForksShort
  <2>3. \E m \in Lineage[b] \cap Lineage[lastBlock] :
          Height[m] >= Floor(Height[b]) - I /\ Height[m] >= Height[Birth]
    BY <1>1, <1>4, <1>5, <2>1, <2>2, HigherJoin
  <2> QED BY <1>6, <2>3 DEF Recent
<1>8. \A a : Recent(a) => a \notin Freed(b)
  BY <1>1, FreedOld
<1>9. m \in Line(S, b)
  <2>1. \A a \in Lineage[Parent[b]] : Height[a] >= Height[Birth] /\ Recent(a) => a \in S
    BY <1>3, <1>8
  <2> HIDE DEF S
  <2> QED BY <1>1, <1>2, <1>7, <2>1, WalkReaches
<1>10. m \in Line(S, lastBlock)
  <2>1. \A a \in Lineage[lastBlock] : Height[a] >= Height[Birth] /\ Recent(a) => a \in S
    BY <1>4, <1>8
  <2>2. Lineage[lastBlock] = {lastBlock} \cup Lineage[lastBlock]
    BY <1>1, LineageSelf
  <2> HIDE DEF S
  <2> QED BY <1>1, <1>7, <2>1, <2>2, WalkReaches
<1> QED BY <1>9, <1>10 DEF Meeting

\* a step without rescans and restarts
LEMMA OnlyBlocks ==
  ASSUME MaxRescans = 0, MaxRestarts = 0, TypeOK, [Next]_vars
  PROVE  \/ \E p \in Peer, b \in Relayed : HandleBlock(p, b)
         \/ UNCHANGED <<blocks, lastBlock>>
<1>1. ~ Rescan /\ ~ Restart
  BY DEF Rescan, Restart, TypeOK
<1> QED BY <1>1 DEF Next, vars, SaveBlocks, CallSave, JoinFirst, JoinSecond,
                    Disconnect, UpdateFilter

LEMMA RootStep ==
  ASSUME MaxRescans = 0, MaxRestarts = 0, BirthIsLast,
         TypeOK, TypeOK', BestChain, RootInv, lastBlock \in blocks, [Next]_vars
  PROVE  RootInv' /\ (lastBlock \in blocks)'
<1>1. CASE UNCHANGED <<blocks, lastBlock>>
  BY <1>1 DEF RootInv, Followed, Recent
<1>2. ASSUME NEW p \in Peer, NEW b \in Relayed, HandleBlock(p, b), Handled(b)
      PROVE  RootInv' /\ (lastBlock \in blocks)'
  <2>1. b \in Block
    BY DEF Relayed
  <2>2. Continued(b) \/ (blocks' \subseteq blocks /\ lastBlock' = lastBlock)
    BY <1>2, <2>1, ContinuesBlocks
  <2>3. (lastBlock \in blocks)'
    BY <1>2, <2>1, HandledTip
  <2> QED BY <1>2, <2>1, <2>2, <2>3, RootHandled
<1> QED BY <1>1, <1>2, OnlyBlocks, HandlesBlocks DEF Relayed

\* Without rescans and restarts, for keys made after the last checkpoint, and as
\* long as forks are no longer than what is kept: whenever a fork becomes the
\* higher chain, the walks back from both tips meet, whatever was freed and in
\* whichever order the peers sent both.
THEOREM ForksMeetHolds ==
  MaxRescans = 0 /\ MaxRestarts = 0 /\ BirthIsLast /\ ForksShort /\ Spec => []ForksMeet
<1> SUFFICES ASSUME MaxRescans = 0, MaxRestarts = 0, BirthIsLast, ForksShort
             PROVE  Spec => []ForksMeet
  OBVIOUS
<1> DEFINE Stored == lastBlock \in blocks
<1>1. Init => RootInv /\ Stored
  BY RootInit
<1>2. TypeOK /\ TypeOK' /\ BestChain /\ RootInv /\ Stored /\ [Next]_vars => RootInv' /\ Stored'
  BY RootStep
<1>3. TypeOK /\ BestChain /\ RootInv /\ Stored => ForksMeet
  BY ForksMeetByRoot
<1> HIDE DEF Stored
<1> QED BY <1>1, <1>2, <1>3, ChainTypeCorrect, BestChainHolds, PTL DEF Spec

\* Under the same conditions following the chain implements the light client.
THEOREM FollowsTheChain ==
  MaxRescans = 0 /\ MaxRestarts = 0 /\ BirthIsLast /\ ForksShort /\ Spec => ClientSpec
<1> SUFFICES ASSUME MaxRescans = 0, MaxRestarts = 0, BirthIsLast, ForksShort
             PROVE  Spec => ClientSpec
  OBVIOUS
<1> QED BY ForksMeetHolds, ClientImplemented, PTL

-----------------------------------------------------------------------------
(***************************************************************************)
(* What the chain has brought is confirmed.                                *)
(***************************************************************************)
\* Of a chain that has b, each transaction in b is in no other block.
LEMMA ConfirmKeeps ==
  ASSUME NEW d \in Block, NEW b \in Lineage[d], NEW c \in Lineage[d], NEW t \in TxsOf[c],
         c = b \/ conf[t] = Height[c]
  PROVE  t \in Tx /\ Confirmed(b)[t] = Height[c]
<1>1. b \in Block /\ c \in Block
  BY LineageBelow
<1>2. t \in Tx
  BY <1>1, TxAssumption
<1>3. t \in TxsOf[b] => c = b
  BY <1>2, OneBlock
<1> QED BY <1>2, <1>3 DEF Confirmed

\* what MainConfirmed says until a restart
Confirms ==
  \A b \in Lineage[lastBlock] :
    Height[b] > Height[Birth] => \A t \in TxsOf[b] : conf[t] = Height[b]

LEMMA MainBlock ==
  ASSUME TypeOK, TypeOK', Confirms, NEW p \in Peer, NEW b \in Relayed,
         HandleBlock(p, b), Reorganise(p, b) => Meeting(blocks', b) # {}
  PROVE  Confirms'
<1>1. b \in Block /\ lastBlock \in Block
  BY DEF Relayed, TypeOK
<1>2. CASE ExtendMain(p, b)
  <2>1. Parent[b] = lastBlock /\ lastBlock' = b /\ conf' = Confirmed(b)
    BY <1>2 DEF ExtendMain
  <2>2. Lineage[b] = {b} \cup Lineage[lastBlock] /\ b \in Lineage[b]
    BY <1>1, <2>1, BlockAssumption
  <2> SUFFICES ASSUME NEW c \in Lineage[b], Height[c] > Height[Birth], NEW t \in TxsOf[c]
               PROVE  conf'[t] = Height[c]
    BY <2>1 DEF Confirms
  <2>3. c = b \/ conf[t] = Height[c]
    BY <2>2 DEF Confirms
  <2> QED BY <1>1, <2>1, <2>2, <2>3, ConfirmKeeps
<1>3. CASE Existing(p, b)
  <2>1. UNCHANGED lastBlock
    BY <1>3 DEF Existing
  <2>2. CASE UNCHANGED conf
    BY <2>1, <2>2 DEF Confirms
  <2>3. CASE conf' = Confirmed(b) /\ b \in Lineage[lastBlock]
    BY <1>1, <2>1, <2>3, ConfirmKeeps DEF Confirms
  <2> QED BY <1>3, <2>2, <2>3 DEF Existing, Line
<1>4. CASE Reorganise(p, b)
  <2>1. lastBlock' = b
    BY <1>4 DEF Reorganise
  <2>2. PICK m \in Lineage[b] \cap Lineage[lastBlock] : \A t \in Tx :
          \/ \E a \in Lineage[b] : Height[a] > Height[m] /\ t \in TxsOf[a] /\ conf'[t] = Height[a]
          \/ /\ \A a \in Lineage[b] : t \in TxsOf[a] => ~ (Height[a] > Height[m])
             /\ conf'[t] = Left(t, m)
    BY <1>4, ReorganiseAtJoin
  <2> SUFFICES ASSUME NEW c \in Lineage[b], Height[c] > Height[Birth], NEW t \in TxsOf[c]
               PROVE  conf'[t] = Height[c]
    BY <2>1 DEF Confirms
  <2>3. c \in Block /\ m \in Block /\ t \in Tx
    BY <1>1, LineageBelow, TxAssumption
  <2>4. Height[c] \in Nat /\ Height[m] \in Nat
    BY <2>3, BlockTypes
  <2>5. CASE \E a \in Lineage[b] : t \in TxsOf[a] /\ conf'[t] = Height[a]
    BY <1>1, <2>3, <2>5, OneBlock
  <2>6. CASE ~ (Height[c] > Height[m]) /\ conf'[t] = Left(t, m)
    <3>1. c \in Lineage[m] /\ Lineage[m] \subseteq Lineage[lastBlock]
      BY <1>1, <2>4, <2>6, LineageNested
    <3>2. conf[t] = Height[c]
      BY <3>1 DEF Confirms
    <3> QED BY <2>4, <2>6, <3>2 DEF Left
  <2> QED BY <2>2, <2>3, <2>5, <2>6
<1>5. CASE \/ Ignore(p, b) \/ Orphan(p, b) \/ Invalid(p, b) \/ MinedDuringRescan(p, b)
           \/ OldFork(p, b) \/ Fork(p, b)
  BY <1>5 DEF Ignore, Orphan, Invalid, MinedDuringRescan, OldFork, Fork, Confirms
<1> QED BY <1>2, <1>3, <1>4, <1>5 DEF HandleBlock

LEMMA MainFromBirth ==
  ASSUME NEW c \in Lineage[Birth]
  PROVE  ~ (Height[c] > Height[Birth])
<1>1. c \in Block /\ Height[c] <= Height[Birth]
  BY BlockTypes, LineageBelow
<1> QED BY <1>1, BlockTypes

\* Until the process ends, every transaction that the chain of the tip has above
\* Birth is confirmed at its block's height: through forks, blocks relayed again by
\* other peers, rescans that go back to Birth and over the chain again, and the
\* reorganisations before, in and after a rescan, as long as each that happens
\* finds the block where its fork joined.
THEOREM MainConfirmedHolds == Spec /\ JoinFound => []MainConfirmed
<1> DEFINE Finds == restarts = 0 =>
                      \A p \in Peer, b \in Relayed :
                        Reorganise(p, b) => Meeting(blocks', b) # {}
           Inv == restarts = 0 => Confirms
<1>1. Init => Inv
  BY MainFromBirth DEF Init, Confirms
<1>2. TypeOK /\ TypeOK' /\ [Finds]_vars /\ Inv /\ [Next]_vars => Inv'
  <2> SUFFICES ASSUME TypeOK, TypeOK', [Finds]_vars, Inv, [Next]_vars, restarts' = 0
               PROVE  Confirms'
    OBVIOUS
  <2>1. ~ Restart
    BY DEF Restart, TypeOK
  <2>2. restarts = 0 /\ Confirms
    BY <2>1, CountersStep
  <2>3. CASE Finds /\ \E p \in Peer, b \in Relayed : HandleBlock(p, b)
    BY <2>2, <2>3, MainBlock
  <2>4. CASE Rescan
    BY <2>4, MainFromBirth DEF Rescan, Confirms
  <2>5. CASE UNCHANGED <<lastBlock, conf>>
    BY <2>2, <2>5 DEF Confirms
  <2>6. Finds \/ UNCHANGED <<lastBlock, conf>>
    BY DEF vars
  <2> HIDE DEF Finds
  <2> QED BY <2>1, <2>3, <2>4, <2>5, <2>6
          DEF Next, vars, SaveBlocks, CallSave, JoinFirst, JoinSecond, Disconnect, UpdateFilter
<1>3. JoinFound => [][Finds]_vars
  BY DEF JoinFound
<1>4. Inv => MainConfirmed
  BY DEF Confirms, MainConfirmed
<1> HIDE DEF Finds
<1> QED BY <1>1, <1>2, <1>3, <1>4, ChainTypeCorrect, PTL DEF Spec

-----------------------------------------------------------------------------
(***************************************************************************)
(* The next block does not wait.                                           *)
(***************************************************************************)
\* what NextNotWaiting says until a rescan
Waits ==
  bloomFilter =>
    \A o \in orphans : Parent[o] \in blocks => Height[o] # Height[lastBlock] + 1

\* Orphans are found by their parent, one for each.
WaitInv == OnePerParent(orphans) /\ Waits

\* the only orphan that b is the parent of is taken out
LEMMA NextTaken ==
  ASSUME NEW O, OnePerParent(O), NEW b
  PROVE  \A o \in O \ {NextOf(O, b)} : Parent[o] # b
<1> SUFFICES ASSUME NEW o \in O, Parent[o] = b PROVE NextOf(O, b) = o
  OBVIOUS
<1>1. NextOf(O, b) \in O /\ Parent[NextOf(O, b)] = b
  BY DEF NextOf
<1> QED BY <1>1 DEF OnePerParent

LEMMA SiblingReplaced ==
  ASSUME OnePerParent(orphans), NEW b
  PROVE  OnePerParent(WithOrphan(b))
BY DEF OnePerParent, WithOrphan

\* Nothing stored is as high as the block the chain has just gone on to, or it
\* would be a checkpoint, which lets no other block have its height.
LEMMA NoneAsHigh ==
  ASSUME TypeOK, BestChain, NEW b \in Block, Verified(b), Height[b] > Height[lastBlock],
         NEW c \in blocks, Height[c] = Height[b]
  PROVE  c = b
<1>1. Height[b] \in Nat /\ Height[lastBlock] \in Nat
  BY BlockTypes DEF TypeOK
<1>2. c \in Checkpoints
  BY <1>1 DEF BestChain
<1> QED BY <1>2 DEF Verified

\* the chain goes on to b, and takes the orphan that is next
LEMMA WaitForward ==
  ASSUME TypeOK, TypeOK', BestChain, WaitInv, NEW p \in Peer, NEW b \in Block,
         ExtendMain(p, b) \/ Reorganise(p, b)
  PROVE  WaitInv'
<1>1. /\ Verified(b) /\ lastBlock' = b /\ blocks' \subseteq blocks \cup {b}
      /\ Parent[b] = lastBlock \/ ~ Shorter(b)
  BY DEF ExtendMain, Reorganise, New, Valid
<1>2. PICK O \in LeftByMempools(b) : orphans' = O \ {NextOf(O, b)}
  BY DEF ExtendMain, Reorganise, Kept
<1>3. O \subseteq orphans /\ OnePerParent(O)
  BY LeftWithin DEF WaitInv, OnePerParent
<1>4. Height[b] > Height[lastBlock]
  <2>1. lastBlock \in Block /\ Height[b] \in Nat /\ Height[lastBlock] \in Nat
    BY BlockTypes DEF TypeOK
  <2>2. Parent[b] = lastBlock => Height[b] = Height[lastBlock] + 1
    BY <2>1, BlockTypes, BlockAssumption
  <2> QED BY <1>1, <2>1, <2>2 DEF Shorter
<1>5. ASSUME NEW o \in orphans', Parent[o] \in blocks', Height[o] = Height[b] + 1
      PROVE  FALSE
  <2>1. o \in Block /\ Parent[o] \in Block /\ Parent[o] # b
    BY <1>2, <1>3, <1>5, NextTaken DEF TypeOK
  <2>2. Height[o] = Height[Parent[o]] + 1 /\ Height[Parent[o]] \in Nat /\ Height[b] \in Nat
    BY <2>1, BlockAssumption
  <2>3. Parent[o] \in blocks /\ Height[Parent[o]] = Height[b]
    BY <1>1, <1>5, <2>1, <2>2
  <2> QED BY <1>1, <1>4, <2>1, <2>3, NoneAsHigh
<1>6. OnePerParent(orphans')
  BY <1>2, <1>3 DEF OnePerParent
<1> QED BY <1>1, <1>5, <1>6 DEF WaitInv, Waits, OnePerParent

LEMMA WaitBlock ==
  ASSUME TypeOK, TypeOK', BestChain, WaitInv, NEW p \in Peer, NEW b \in Block,
         HandleBlock(p, b)
  PROVE  WaitInv'
<1>1. CASE Orphan(p, b)
  <2>1. /\ UNCHANGED <<blocks, lastBlock, bloomFilter>> /\ Parent[b] \notin blocks
        /\ orphans' = orphans \/ orphans' = WithOrphan(b)
    BY <1>1 DEF Orphan, network
  <2>2. OnePerParent(orphans')
    BY <2>1, SiblingReplaced DEF WaitInv
  <2>3. \A o \in orphans' : o \in orphans \/ o = b
    BY <2>1 DEF WithOrphan
  <2> QED BY <2>1, <2>2, <2>3 DEF WaitInv, Waits, OnePerParent
<1>2. CASE Existing(p, b) \/ Fork(p, b)
  <2>1. /\ UNCHANGED <<lastBlock, bloomFilter>> /\ blocks' \subseteq blocks \cup {b}
        /\ orphans' = orphans \ {NextOf(orphans, b)}
    BY <1>2 DEF Existing, Fork, New, Valid, Kept, network
  <2>2. \A o \in orphans' : o \in orphans /\ Parent[o] # b
    BY <2>1, NextTaken DEF WaitInv
  <2>3. OnePerParent(orphans')
    BY <2>2 DEF WaitInv, OnePerParent
  <2> QED BY <2>1, <2>2, <2>3 DEF WaitInv, Waits, OnePerParent
<1>3. CASE MinedDuringRescan(p, b)
  <2>1. /\ UNCHANGED <<lastBlock, bloomFilter>> /\ blocks' \subseteq blocks
        /\ orphans' = WithOrphan(b) \ {NextOf(WithOrphan(b), b)}
        /\ ~ (Height[b] <= Height[lastBlock] + 1)
    BY <1>3 DEF MinedDuringRescan, CaughtUp, Kept, network
  <2>2. OnePerParent(orphans')
    BY <2>1, SiblingReplaced DEF WaitInv, OnePerParent
  <2>3. \A o \in orphans' : o \in orphans \/ o = b
    BY <2>1 DEF WithOrphan
  <2>4. Height[b] # Height[lastBlock] + 1
    <3>1. Height[b] \in Nat /\ Height[lastBlock] \in Nat
      BY BlockTypes DEF TypeOK
    <3> QED BY <2>1, <3>1
  <2> QED BY <2>1, <2>2, <2>3, <2>4 DEF WaitInv, Waits, OnePerParent
<1>4. CASE Ignore(p, b) \/ Invalid(p, b) \/ OldFork(p, b)
  <2>1. UNCHANGED <<orphans, bloomFilter, lastBlock>> /\ blocks' \subseteq blocks
    BY <1>4 DEF Ignore, Invalid, OldFork, network
  <2> QED BY <2>1 DEF WaitInv, Waits, OnePerParent
<1> QED BY <1>1, <1>2, <1>3, <1>4, WaitForward DEF HandleBlock

LEMMA WaitOther ==
  ASSUME WaitInv,
         \/ \E p \in Peer, h \in Claims : JoinFirst(p, h) \/ JoinSecond(p, h)
         \/ \E p \in Peer : Disconnect(p) \/ CallSave(p)
         \/ SaveBlocks \/ UpdateFilter \/ Restart
  PROVE  WaitInv'
<1> USE DEF WaitInv, Waits, OnePerParent
<1>1. CASE orphans' = {}
  BY <1>1
<1>2. CASE UNCHANGED <<blocks, orphans, lastBlock, bloomFilter>>
  BY <1>2
<1>3. CASE bloomFilter' = FALSE /\ UNCHANGED orphans
  BY <1>3
<1>4. CASE Restart
  <2>1. bloomFilter' = FALSE
    BY <1>4 DEF Restart, Volatile
  <2>2. PICK K \in Keyed : orphans' \subseteq K
    <3>1. CASE LastTransitions = {}
      BY <1>4, <3>1 DEF Restart
    <3>2. CASE LastTransitions # {}
      <4>1. PICK t \in LastTransitions, K \in Keyed : StartFrom(t, K)
        BY <1>4, <3>2 DEF Restart
      <4> QED BY <4>1 DEF StartFrom
    <3> QED BY <3>1, <3>2
  <2> QED BY <2>1, <2>2 DEF Keyed
<1> QED BY <1>1, <1>2, <1>3, <1>4
        DEF JoinFirst, JoinSecond, Disconnect, CallSave, SaveBlocks, UpdateFilter,
            LoadBloomFilter, network

LEMMA WaitStep ==
  ASSUME TypeOK, TypeOK', BestChain, WaitInv, [Next]_vars, ~ Rescan
  PROVE  WaitInv'
<1>1. ASSUME NEW p \in Peer, NEW b \in Block, HandleBlock(p, b) PROVE WaitInv'
  BY <1>1, WaitBlock
<1>2. CASE UNCHANGED vars
  BY <1>2 DEF vars, network, WaitInv, Waits, OnePerParent
<1> QED BY <1>1, <1>2, WaitOther DEF Next, Relayed

\* Until a rescan: the block that would be the next on a stored block never
\* waits among the orphans, whatever keys the wallet was made with, whichever
\* peers sent it and its parent and in whichever order, whatever was put off
\* because it was too far ahead, and also after a restart with what was saved.
THEOREM NextNotWaitingHolds == Spec => []NextNotWaiting
<1> DEFINE Inv == rescans = 0 => WaitInv
<1>1. Init => Inv
  BY DEF Init, WaitInv, Waits, OnePerParent
<1>2. TypeOK /\ TypeOK' /\ (rescans = 0 => BestChain) /\ Inv /\ [Next]_vars => Inv'
  BY UntilRescan, WaitStep
<1>3. Inv => NextNotWaiting
  BY DEF WaitInv, Waits, NextNotWaiting
<1> QED BY <1>1, <1>2, <1>3, ChainTypeCorrect, BestUntilRescan, PTL DEF Spec

=============================================================================
