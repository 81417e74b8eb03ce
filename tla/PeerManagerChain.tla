------------------------- MODULE PeerManagerChain -------------------------
(***************************************************************************)
(* How the peer manager of loafwallet-core (BRPeerManager.c) follows the   *)
(* block chain: blocks arrive from several peers, each on a thread of its  *)
(* own, in any order and more than once; they extend the chain, wait as    *)
(* orphans, start forks or replace the chain, confirm transactions of the  *)
(* wallet, and are handed to the application, which saves them later on a  *)
(* queue of its own; after a restart the chain is rebuilt from what was    *)
(* saved.                                                                  *)
(*                                                                         *)
(* A block handler runs under the manager's lock, so it is one action per  *)
(* branch.  What a thread does after unlocking (call saveBlocks, handle an *)
(* orphan that found its parent) is kept in thread and may interleave with *)
(* anything.  A peer may relay any block at any time, so requests for      *)
(* blocks are not modelled, nor lastOrphan, which only decides whether to  *)
(* send one.  Heights of block structs are those of the tree of blocks; an *)
(* orphan's is unknown until its parent is.                                *)
(***************************************************************************)
EXTENDS Integers, Sequences, FiniteSets, FiniteSetsExt

CONSTANTS
  Block, NoBlock,
  Parent,                    \* prevBlock
  Height,
  Lineage,                   \* Lineage[b]: b and its ancestors
  Checkpoints,               \* checkpoint_array
  Birth,                     \* the last one a week older than the wallet's keys
  BLOCK_DIFFICULTY_INTERVAL,
  Tx,                        \* the wallet's transactions
  TxsOf,                     \* TxsOf[b]: those block b confirms
  TX_UNCONFIRMED,
  Peer, NoPeer,
  Claims,                    \* heights a peer's version message may announce
  NODE_LAG,                  \* a peer further behind "isn't synced"
  Reused,                    \* freed memory may have been reused when it is read
  MaxQueue,                  \* bound: saves waiting on the application's queue
  MaxRescans, MaxRestarts    \* bounds

I == BLOCK_DIFFICULTY_INTERVAL

ASSUME BlockAssumption ==
  /\ NoBlock \notin Block
  /\ Parent \in [Block -> Block \cup {NoBlock}]
  /\ Height \in [Block -> Nat]
  /\ \A b \in Block :
       /\ Parent[b] # NoBlock => Height[b] = Height[Parent[b]] + 1
       /\ Lineage[b] = {b} \cup IF Parent[b] = NoBlock THEN {} ELSE Lineage[Parent[b]]

\* The checkpoints are transitions of one chain, and there is a last one.
ASSUME CheckpointAssumption ==
  /\ I \in Nat \ {0}
  /\ Checkpoints \subseteq Block /\ Birth \in Checkpoints
  /\ \A c \in Checkpoints : Height[c] % I = 0
  /\ \A c, d \in Checkpoints : Height[c] <= Height[d] => c \in Lineage[d]
  /\ \E c \in Checkpoints : \A d \in Checkpoints : Height[d] <= Height[c]

\* A transaction is in at most one block of a chain, and the wallet has none
\* from before its keys.
ASSUME TxAssumption ==
  /\ TxsOf \in [Block -> SUBSET Tx]
  /\ TX_UNCONFIRMED \in Nat
  /\ \A b \in Block : Height[b] < TX_UNCONFIRMED
  /\ \A b, c \in Block : c \in Lineage[b] /\ c # b => TxsOf[b] \cap TxsOf[c] = {}
  /\ \A b \in Lineage[Birth] : TxsOf[b] = {}

ASSUME BoundAssumption ==
  /\ NoPeer \notin Peer
  /\ Claims \subseteq Nat /\ NODE_LAG \in Nat
  /\ MaxQueue \in Nat /\ MaxRescans \in Nat /\ MaxRestarts \in Nat
  /\ Reused \in BOOLEAN

VARIABLES
  blocks,           \* manager->blocks
  orphans,          \* manager->orphans
  lastBlock, estimatedHeight, downloadPeer,
  bloomFilter,      \* there is one
  connected,        \* peers whose handshake is done
  claim,            \* BRPeerLastBlock
  conf,             \* the height of each transaction in the wallet
  thread,           \* what the thread of a peer has left to do without the lock
  queue,            \* saves waiting on the application's queue
  disk,             \* blocks saved
  rescans, restarts

network == <<downloadPeer, bloomFilter, connected, claim>>
counters == <<rescans, restarts>>
vars == <<blocks, orphans, lastBlock, estimatedHeight, network, conf, thread,
          queue, disk, counters>>

-----------------------------------------------------------------------------
(***************************************************************************)
(* Walks through manager->blocks.                                          *)
(***************************************************************************)
IsTransition(b) == Height[b] % I = 0

\* the blocks met going back from b through prevBlock while S has them
Line(S, b) ==
  {a \in Lineage[b] : \A c \in Lineage[b] :
     Height[a] <= Height[c] /\ Height[c] < Height[b] => c \in S}

LastCheckpoint == Max({Height[c] : c \in Checkpoints})

\* _BRPeerManagerVerifyBlock.  The difficulty check itself is switched off.
FindsTransition(b) ==
  IsTransition(b) => \E a \in Line(blocks, b) : Height[a] = Height[b] - I

Verified(b) ==
  /\ FindsTransition(b)
  /\ \A c \in Checkpoints : Height[c] = Height[b] => c = b

FaultFreed(b) ==
  {a \in Line(blocks, b) :
     IsTransition(b) /\ Height[a] < Height[b] /\ ~ IsTransition(a)}

\* what verifying b frees: everything older than the previous transition,
\* other transitions excepted
Freed(b) ==
  IF IsTransition(b) /\ FindsTransition(b)
  THEN {a \in Line(blocks, b) : Height[a] < Height[b] - I /\ ~ IsTransition(a)}
  ELSE {}

-----------------------------------------------------------------------------
(***************************************************************************)
(* Saving.  A save is a set of pointers to block structs; freed has those  *)
(* whose struct was freed since.  One block is added to the saved ones,    *)
(* more than one replace them.                                             *)
(***************************************************************************)
Save(S) == [blocks |-> S, freed |-> {}]
FreeIn(s, F) == [s EXCEPT !.freed = @ \cup (s.blocks \cap F)]

FaultSaved(S, b, count) == {a \in Line(S, b) : Height[a] > Height[b] - count + 1}

\* count blocks back from b, less those before the first transition
Saved(S, b, count) ==
  LET walked == {a \in Line(S, b) : Height[a] > Height[b] - count}
      lowest == Min({Height[a] : a \in walked})
      start == lowest + ((I - (lowest % I)) % I)
  IN  {a \in walked : Height[a] >= start}

\* the download is complete: save all since the transition before the last
CompleteCount(b) ==
  IF Height[b] = estimatedHeight THEN (Height[b] % I) + I + 1 ELSE 0

NoWork == [next |-> NoBlock, save |-> Save({})]
IdleThread(p) == thread[p] = NoWork

-----------------------------------------------------------------------------
(***************************************************************************)
(* _peerRelayedBlock.                                                      *)
(***************************************************************************)
\* the thread of p has b to handle: relayed by p, or an orphan whose parent
\* the thread just handled
Receives(p, b) ==
  /\ thread[p].save.blocks = {}
  /\ IF thread[p].next = NoBlock THEN p \in connected ELSE b = thread[p].next

\* the thread of p has work w left, and F was freed under everyone's saves
Leaves(p, w, F) ==
  /\ thread' = [q \in Peer |->
       IF q = p THEN w ELSE [thread[q] EXCEPT !.save = FreeIn(@, F)]]
  /\ queue' = [i \in DOMAIN queue |-> FreeIn(queue[i], F)]

\* b was freed, or is an orphan of unknown height
Dropped(p, F) ==
  /\ Leaves(p, NoWork, F)
  /\ UNCHANGED estimatedHeight

\* orphans are indexed by prevBlock: a sibling is replaced
WithOrphan(b) == {o \in orphans : Parent[o] # Parent[b]} \cup {b}

FaultNextOf(O, b) == NoBlock

NextOf(O, b) == IF \E o \in O : Parent[o] = b
                THEN CHOOSE o \in O : Parent[o] = b ELSE NoBlock

\* the end of the handler for a block kept, O being the orphans so far
Kept(p, b, O, S, F) ==
  /\ estimatedHeight' = Max({estimatedHeight, Height[b]})
  /\ orphans' = O \ {NextOf(O, b)}
  /\ Leaves(p, [next |-> NextOf(O, b), save |-> Save(S)], F)

\* The orphans left by _BRPeerManagerLoadMempools, at the end of the download:
\* every peer but the download peer gets a new filter, and that one if its own
\* has degraded; a new filter frees them.
LeftByMempools(b) ==
  CASE Height[b] # estimatedHeight \/ connected = {} -> {orphans}
    [] Height[b] = estimatedHeight /\ connected \ {downloadPeer} # {} -> {{}}
    [] OTHER -> {orphans, {}}

\* no bloom filter: what is relayed may be incomplete
Ignore(p, b) ==
  /\ Receives(p, b) /\ ~ bloomFilter
  /\ Dropped(p, {})
  /\ UNCHANGED <<blocks, orphans, lastBlock, network, conf, disk, counters>>

\* the parent is not there: kept as an orphan, unless older than a week
Orphan(p, b) ==
  /\ Receives(p, b) /\ bloomFilter /\ Parent[b] \notin blocks
  /\ orphans' \in {orphans, WithOrphan(b)}
  /\ Dropped(p, {})
  /\ UNCHANGED <<blocks, lastBlock, network, conf, disk, counters>>

Invalid(p, b) ==
  /\ Receives(p, b) /\ bloomFilter /\ Parent[b] \in blocks /\ ~ Verified(b)
  /\ blocks' = blocks \ Freed(b)
  /\ Dropped(p, Freed(b))
  /\ UNCHANGED <<orphans, lastBlock, network, conf, disk, counters>>

Valid(p, b) ==
  Receives(p, b) /\ bloomFilter /\ Parent[b] \in blocks /\ Verified(b)

FaultConfirmed(b) ==
  [t \in Tx |-> IF t \in TxsOf[b] THEN Height[b] + 1 ELSE conf[t]]

\* BRWalletUpdateTransactions
Confirmed(b) == [t \in Tx |-> IF t \in TxsOf[b] THEN Height[b] ELSE conf[t]]

\* the transition block alone, unless the download is complete
ExtensionCount(b) ==
  IF CompleteCount(b) > 0 THEN CompleteCount(b)
  ELSE IF IsTransition(b) THEN 1 ELSE 0

\* a stored struct that b replaces here (in a rescan) is leaked
ExtendMain(p, b) ==
  /\ Valid(p, b) /\ Parent[b] = lastBlock
  /\ blocks' = (blocks \ Freed(b)) \cup {b}
  /\ lastBlock' = b
  /\ conf' = Confirmed(b)
  /\ \E O \in LeftByMempools(b) :
       Kept(p, b, O, Saved(blocks', b, ExtensionCount(b)), Freed(b))
  /\ UNCHANGED <<network, disk, counters>>

\* The walk from lastBlock down to the height of b is never cut short here:
\* the code would compare NULL with b and the process would end.
\* The struct that was stored is freed and replaced by the new one.
Existing(p, b) ==
  /\ Valid(p, b) /\ Parent[b] # lastBlock /\ b \in blocks
  /\ blocks' = blocks \ Freed(b)
  /\ \/ Height[b] >= Height[lastBlock]
     \/ \E a \in Line(blocks', lastBlock) : Height[a] = Height[b]
  /\ conf' = IF b \in Line(blocks', lastBlock) THEN Confirmed(b) ELSE conf
  /\ Kept(p, b, orphans, {}, Freed(b) \cup {b})
  /\ UNCHANGED <<lastBlock, network, disk, counters>>

New(p, b) == Valid(p, b) /\ Parent[b] # lastBlock /\ b \notin blocks

\* waits as an orphan until the rescan is there
CaughtUp(p, b) ==
  Height[lastBlock] >= claim[p] \/ Height[b] <= Height[lastBlock] + 1

MinedDuringRescan(p, b) ==
  /\ New(p, b) /\ ~ CaughtUp(p, b)
  /\ blocks' = blocks \ Freed(b)
  /\ Kept(p, b, WithOrphan(b), {}, Freed(b))
  /\ UNCHANGED <<lastBlock, network, conf, disk, counters>>

OldFork(p, b) ==
  /\ New(p, b) /\ CaughtUp(p, b) /\ Height[b] <= LastCheckpoint
  /\ blocks' = blocks \ Freed(b)
  /\ Dropped(p, Freed(b))
  /\ UNCHANGED <<orphans, lastBlock, network, conf, disk, counters>>

FaultShorter(b) == Height[b] <= Height[lastBlock] + 1
Shorter(b) == Height[b] <= Height[lastBlock]

Fork(p, b) ==
  /\ New(p, b) /\ CaughtUp(p, b) /\ Height[b] > LastCheckpoint /\ Shorter(b)
  /\ blocks' = (blocks \ Freed(b)) \cup {b}
  /\ Kept(p, b, orphans, {}, Freed(b))
  /\ UNCHANGED <<lastBlock, network, conf, disk, counters>>

\* Where walking back from b and from lastBlock through S meets; if the walk
\* from lastBlock ends first, it stops one below that end.
Meeting(S, b) == Line(S, b) \cap Line(S, lastBlock)
JoinHeight(S, b) ==
  IF Meeting(S, b) # {} THEN Max({Height[a] : a \in Meeting(S, b)})
  ELSE Min({Height[a] : a \in Line(S, lastBlock)}) - 1

FaultReorganised(S, b) ==
  [t \in Tx |->
     LET At == {a \in Line(S, b) : Height[a] > JoinHeight(S, b) /\ t \in TxsOf[a]}
     IN  IF At # {} THEN Max({Height[a] : a \in At}) ELSE conf[t]]

FaultUnconfirmed(S, b) ==
  [t \in Tx |-> IF conf[t] > JoinHeight(S, b) THEN TX_UNCONFIRMED ELSE conf[t]]

\* Transactions above the join become unconfirmed, then those of the fork get
\* their heights: not if the walk from lastBlock ended first.
Reorganised(S, b) ==
  [t \in Tx |->
     LET At == {a \in Line(S, b) : Height[a] > JoinHeight(S, b) /\ t \in TxsOf[a]}
     IN  IF At # {} /\ Meeting(S, b) # {} THEN Max({Height[a] : a \in At})
         ELSE IF conf[t] > JoinHeight(S, b) THEN TX_UNCONFIRMED ELSE conf[t]]

Reorganise(p, b) ==
  /\ New(p, b) /\ CaughtUp(p, b) /\ Height[b] > LastCheckpoint /\ ~ Shorter(b)
  /\ blocks' = (blocks \ Freed(b)) \cup {b}
  /\ \E a \in Line(blocks', b) : Height[a] = JoinHeight(blocks', b)
  /\ conf' = Reorganised(blocks', b)
  /\ lastBlock' = b
  /\ \E O \in LeftByMempools(b) :
       Kept(p, b, O, Saved(blocks', b, CompleteCount(b)), Freed(b))
  /\ UNCHANGED <<network, disk, counters>>

HandleBlock(p, b) ==
  \/ Ignore(p, b) \/ Orphan(p, b) \/ Invalid(p, b)
  \/ ExtendMain(p, b) \/ Existing(p, b) \/ MinedDuringRescan(p, b)
  \/ OldFork(p, b) \/ Fork(p, b) \/ Reorganise(p, b)

-----------------------------------------------------------------------------
(***************************************************************************)
(* After the lock: the saveBlocks callback copies the pointers, and the    *)
(* application saves what they point to when its queue gets there.         *)
(***************************************************************************)
CallSave(p) ==
  /\ thread[p].save.blocks # {} /\ Len(queue) < MaxQueue
  /\ queue' = Append(queue, thread[p].save)
  /\ thread' = [thread EXCEPT ![p].save = Save({})]
  /\ UNCHANGED <<blocks, orphans, lastBlock, estimatedHeight, network, conf,
                 disk, counters>>

\* a struct read after it was freed may yield anything: the block is lost
Readable(s) == IF Reused THEN s.blocks \ s.freed ELSE s.blocks

SaveBlocks ==
  /\ queue # <<>>
  /\ LET s == Head(queue)
     IN  \E T \in {Readable(s), s.blocks} :
           disk' = IF Cardinality(s.blocks) > 1 THEN T ELSE disk \cup T
  /\ queue' = Tail(queue)
  /\ UNCHANGED <<blocks, orphans, lastBlock, estimatedHeight, network, conf,
                 thread, counters>>

-----------------------------------------------------------------------------
(***************************************************************************)
(* _peerConnected, _peerDisconnected, filter updates and rescans.          *)
(***************************************************************************)
\* _BRPeerManagerLoadBloomFilter frees the orphans of the old filter
LoadBloomFilter == bloomFilter' = TRUE /\ orphans' = {}

Joins(p, h) ==
  /\ p \notin connected /\ IdleThread(p)
  /\ h + NODE_LAG >= Height[lastBlock]
  /\ connected' = connected \cup {p}
  /\ claim' = [claim EXCEPT ![p] = h]

\* a new peer at height h does not replace the download peer
KeepsDownloadPeer(h) ==
  /\ downloadPeer # NoPeer
  /\ claim[downloadPeer] >= h \/ Height[lastBlock] >= h

JoinSecond(p, h) ==
  /\ Joins(p, h) /\ KeepsDownloadPeer(h)
  /\ IF Height[lastBlock] >= h THEN LoadBloomFilter
     ELSE UNCHANGED <<bloomFilter, orphans>>
  /\ UNCHANGED <<blocks, lastBlock, estimatedHeight, downloadPeer, conf,
                 thread, queue, disk, counters>>

\* the new peer, or another that claims as much or more and is faster
JoinFirst(p, h) ==
  /\ Joins(p, h) /\ ~ KeepsDownloadPeer(h)
  /\ downloadPeer' \in {q \in connected' : \A r \in connected' : claim'[r] <= claim'[q]}
  /\ estimatedHeight' = claim'[downloadPeer']
  /\ LoadBloomFilter
  /\ UNCHANGED <<blocks, lastBlock, conf, thread, queue, disk, counters>>

Disconnect(p) ==
  /\ p \in connected /\ IdleThread(p)
  /\ connected' = connected \ {p}
  /\ claim' = [claim EXCEPT ![p] = 0]
  /\ downloadPeer' = IF p = downloadPeer THEN NoPeer ELSE downloadPeer
  /\ UNCHANGED <<blocks, orphans, lastBlock, estimatedHeight, bloomFilter,
                 conf, thread, queue, disk, counters>>

\* _updateFilterPingDone: while syncing only the download peer gets a new one
UpdateFilter ==
  /\ connected # {} /\ bloomFilter
  /\ IF Height[lastBlock] < estimatedHeight /\ downloadPeer = NoPeer
     THEN bloomFilter' = FALSE /\ UNCHANGED orphans
     ELSE LoadBloomFilter
  /\ UNCHANGED <<blocks, lastBlock, estimatedHeight, downloadPeer, connected,
                 claim, conf, thread, queue, disk, counters>>

\* BRPeerManagerRescan.  The download peer it disconnects goes by Disconnect.
Rescan ==
  /\ downloadPeer # NoPeer /\ rescans < MaxRescans
  /\ rescans' = rescans + 1
  /\ lastBlock' = Birth
  /\ UNCHANGED <<blocks, orphans, estimatedHeight, network, conf, thread,
                 queue, disk, restarts>>

-----------------------------------------------------------------------------
(***************************************************************************)
(* The process ends, and starts again with what was saved.                 *)
(***************************************************************************)
Volatile ==
  /\ estimatedHeight' = 0
  /\ downloadPeer' = NoPeer /\ connected' = {} /\ bloomFilter' = FALSE
  /\ claim' = [p \in Peer |-> 0]
  /\ thread' = [p \in Peer |-> NoWork] /\ queue' = <<>>

\* one saved block for each parent
OnePerParent(K) == \A a, b \in K : Parent[a] = Parent[b] => a = b
Keyed == {K \in SUBSET disk : /\ OnePerParent(K)
                              /\ {Parent[b] : b \in K} = {Parent[b] : b \in disk}}

FaultLastTransitions == {b \in disk : \A c \in disk : Height[c] <= Height[b]}

LastTransitions ==
  {b \in disk : IsTransition(b)
                /\ \A c \in disk : IsTransition(c) => Height[c] <= Height[b]}

\* t and the blocks of K that follow it one by one
Following(t, K) ==
  {b \in K : /\ t \in Lineage[b]
             /\ \A c \in Lineage[b] : Height[c] > Height[t] => c \in K} \cup {t}

\* BRPeerManagerNew
StartFrom(t, K) ==
  LET F == Following(t, K)
  IN  /\ blocks' = Checkpoints \cup F
      /\ lastBlock' \in {b \in F : \A c \in F : Height[c] <= Height[b]}
      /\ orphans' = {o \in K : \A f \in F : Parent[o] # Parent[f]}

Restart ==
  /\ restarts < MaxRestarts
  /\ restarts' = restarts + 1
  /\ IF LastTransitions = {}
     THEN /\ blocks' = Checkpoints /\ lastBlock' = Birth
          /\ orphans' \in Keyed
     ELSE \E t \in LastTransitions, K \in Keyed : StartFrom(t, K)
  /\ Volatile
  /\ UNCHANGED <<conf, disk, rescans>>

-----------------------------------------------------------------------------
Init ==
  /\ blocks = Checkpoints /\ orphans = {}
  /\ lastBlock = Birth /\ estimatedHeight = 0
  /\ downloadPeer = NoPeer /\ connected = {} /\ bloomFilter = FALSE
  /\ claim = [p \in Peer |-> 0]
  /\ conf = [t \in Tx |-> TX_UNCONFIRMED]
  /\ thread = [p \in Peer |-> NoWork] /\ queue = <<>>
  /\ disk = {}
  /\ rescans = 0 /\ restarts = 0

Relayed == {b \in Block : Parent[b] # NoBlock}

Next ==
  \/ \E p \in Peer :
       \/ \E b \in Relayed : HandleBlock(p, b)
       \/ \E h \in Claims : JoinFirst(p, h) \/ JoinSecond(p, h)
       \/ CallSave(p) \/ Disconnect(p)
  \/ SaveBlocks \/ UpdateFilter \/ Rescan \/ Restart

Spec == Init /\ [][Next]_vars

-----------------------------------------------------------------------------
(***************************************************************************)
(* Properties.                                                             *)
(***************************************************************************)
Saves == [blocks : SUBSET Block, freed : SUBSET Block]

\* The type invariant.
TypeOK ==
  /\ blocks \subseteq Block /\ orphans \subseteq Block /\ disk \subseteq Block
  /\ lastBlock \in Block /\ estimatedHeight \in Nat
  /\ downloadPeer \in Peer \cup {NoPeer} /\ connected \subseteq Peer
  /\ bloomFilter \in BOOLEAN /\ claim \in [Peer -> Nat]
  /\ conf \in [Tx -> {Height[b] : b \in Block} \cup {TX_UNCONFIRMED}]
  /\ thread \in [Peer -> [next : Block \cup {NoBlock}, save : Saves]]
  /\ queue \in Seq(Saves)
  /\ rescans \in Nat /\ restarts \in Nat

\* Following the chain implements a light client: whatever the peers' blocks
\* do on the way, the tip moves to higher blocks only and every transaction
\* is confirmed where the chain of the tip has it (BRPeerManager.c:1416).
Client == INSTANCE LightClient WITH tip <- lastBlock
ClientSpec == Client!Spec

\* No fork that was stored is higher than the chain followed, whichever peer
\* sent its parts and in whichever order (BRPeerManager.c:1406).
BestChain ==
  \A b \in blocks \ Checkpoints : Height[b] <= Height[lastBlock]

\* Back from lastBlock the chain is complete down to a transition, so that
\* the next one finds the time of the previous (BRPeerManager.c:1209), also
\* after old blocks were freed, and after a restart.  Not so once a rescan was
\* asked for: it goes over blocks that a transition above may free (1229).
Verifiable ==
  rescans = 0 =>
    \A a \in Lineage[lastBlock] :
      Height[a] >= Height[lastBlock] - (Height[lastBlock] % I) => a \in blocks

\* An orphan waits for a parent that is not there: no block is left behind
\* once its parent is handled, unless it is too far ahead in a rescan.  With
\* checkpoints above the last block one may be too far ahead without a rescan.
OrphansWait ==
  bloomFilter =>
    \A o \in orphans : Parent[o] \in blocks => Height[o] > Height[lastBlock] + 1

\* No orphan is left waiting that would be the next block, on whichever
\* stored block it is: the orphan kept until the chain has caught up is taken
\* as soon as it has (BRPeerManager.c:1453), whatever checkpoints are above.
\* A rescan moves lastBlock back below orphans that were already waiting.
NextNotWaiting ==
  rescans = 0 /\ bloomFilter =>
    \A o \in orphans : Parent[o] \in blocks => Height[o] # Height[lastBlock] + 1

\* Whenever a fork becomes the higher one, the walk back from both tips finds
\* the block where they part (BRPeerManager.c:1411), freed blocks and all.
ForksMeet ==
  \A b \in Relayed \ blocks :
    Parent[b] \in blocks /\ ~ Shorter(b) /\ Height[b] > LastCheckpoint
      => Meeting((blocks \ Freed(b)) \cup {b}, b) # {}

\* What the chain has brought since Birth is confirmed at its height, over
\* reorganisations and rescans.  Not so after a restart: it may go back behind
\* a reorganisation that was not saved yet, and the wallet does not.
MainConfirmed ==
  restarts = 0 =>
    \A b \in Lineage[lastBlock] :
      Height[b] > Height[Birth] => \A t \in TxsOf[b] : conf[t] = Height[b]

\* What is saved has no gap back to a transition, so a restart finds a chain
\* it can go on with (BRPeerManager.c:1465).
DiskFromTransition ==
  \A b \in disk : \A a \in Lineage[b] :
    Height[a] >= Height[b] - (Height[b] % I) => a \in disk

\* Until a restart a reorganisation finds the block where the fork joined
\* (BRPeerManager.c:1411).
JoinFound ==
  [][restarts = 0 =>
       \A p \in Peer, b \in Relayed : Reorganise(p, b) => Meeting(blocks', b) # {}]_vars
=============================================================================
