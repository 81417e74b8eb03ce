---------------------------- MODULE FilterSync ----------------------------
(***************************************************************************)
(* How loafwallet-core finds the wallet's payments: the download peer      *)
(* sends only what matches the bloom filter it was given, the filter has   *)
(* only the addresses generated so far, and a payment found uses one up.   *)
(* So BRPeerManager.c replaces the filter as it goes, and must ask again   *)
(* for blocks that were matched with too few addresses.  BRPeer.c carries  *)
(* its requests and collects a block with its transactions.                *)
(*                                                                         *)
(* One peer, the chain it has, and messages in order both ways; a message  *)
(* and the handlers it runs under the manager's lock are one action.  The  *)
(* filter is the number of addresses of one chain it has.  Headers, forks, *)
(* rescans and other peers are in PeerManagerChain.                        *)
(***************************************************************************)
EXTENDS Integers, Sequences, FiniteSets, SequencesExt, FiniteSetsExt

CONSTANTS
  Tx,
  Mined,          \* Mined[h]: the payments to the wallet in block h
  Pays,           \* Pays[t]: the index of the address t pays
  Gap, Spare,     \* SEQUENCE_GAP_LIMIT_EXTERNAL, and the 100 more of a filter
  Batch,          \* hashes in an answer to getblocks, 500
  Margin,         \* how far behind a degraded filter is rebuilt, 500
  Begin,          \* height of the last block when the program starts
  Tip,            \* height of the peer's last block then
  Announced,      \* payments the peer relays before they are mined
  MaxSessions     \* bound: connections that something ends

Heights == 1..Len(Mined)
Highest(S) == IF S = {} THEN -1 ELSE Max({Pays[t] : t \in S})
MinedBy(h) == UNION {Mined[i] : i \in 1..h}

\* A payment is to one of the next Gap addresses not used before it.
ASSUME FilterAssumption ==
  /\ IsFiniteSet(Tx) /\ Mined \in Seq(SUBSET Tx) /\ Pays \in [Tx -> Nat]
  /\ {Gap, Spare, Batch, Margin, MaxSessions} \subseteq Nat /\ Batch > 0
  /\ Begin \in 0..Tip /\ Tip \in Heights /\ MinedBy(Begin) = {}
  /\ Announced \subseteq Tx
  /\ \A h \in Heights : \A t \in Mined[h] :
       Pays[t] <= Highest({u \in MinedBy(h) : Pays[u] < Pays[t]}) + Gap

VARIABLES
  lastBlock, estimatedHeight,
  bloomFilter,    \* 0 when it is to be rebuilt
  orphans, lastOrphan,
  generated,      \* addresses of the wallet
  wallet,         \* transactions registered
  confirmed,      \* those whose block is set
  conn,           \* the connection, both ends of it
  wire,           \* what the peer has sent
  tip, pool,      \* the peer's last block; payments it has that are not mined
  sessions

manager == <<lastBlock, estimatedHeight, bloomFilter, orphans, lastOrphan,
             generated, wallet, confirmed>>
peer == <<tip, pool>>
vars == <<manager, conn, wire, peer, sessions>>

\* A merkleblock and the tx messages it still needs.
Nothing == [height |-> 0, txs |-> {}, missing |-> {}]

\* out: requests the peer has not answered; pongs: callbacks of the pings.
\* needs: needsFilterUpdate and PEER_FLAG_NEEDSUPDATE; filter: the peer's.
Closed ==
  [up |-> FALSE, lastblock |-> 0, needs |-> FALSE, known |-> {}, blocks |-> <<>>,
   lastHash |-> 0, current |-> Nothing, timer |-> FALSE, out |-> <<>>,
   sentMempool |-> FALSE, pongs |-> <<>>, filter |-> 0]

Init ==
  /\ lastBlock = Begin /\ estimatedHeight = 0
  /\ bloomFilter = 0 /\ orphans = {} /\ lastOrphan = 0
  /\ generated = Gap /\ wallet = {} /\ confirmed = {}
  /\ conn = Closed /\ wire = <<>>
  /\ tip = Tip /\ pool = {}
  /\ sessions = 0

---------------------------------------------------------------------------
\* What is sent to the peer, on a connection c.

Message(kind, height, blocks, txs) ==
  [kind |-> kind, height |-> height, blocks |-> blocks, txs |-> txs]

Send(c, m) == [c EXCEPT !.out = Append(@, m)]

SendPing(c, callback) ==
  Send([c EXCEPT !.pongs = Append(@, callback)], Message("ping", 0, <<>>, {}))

SendGetblocks(c, height) == Send(c, Message("getblocks", height, <<>>, {}))

\* Once for each filter.
SendMempool(c) ==
  IF c.sentMempool THEN c
  ELSE Send([c EXCEPT !.sentMempool = TRUE], Message("mempool", 0, <<>>, {}))

SendGetdata(c, blocks, txs) ==
  IF blocks = <<>> /\ txs = {} THEN c ELSE Send(c, Message("getdata", 0, blocks, txs))

\* All known hashes from the last time height was announced.
RerequestBlocks(c, height) ==
  LET at == {i \in DOMAIN c.blocks : c.blocks[i] = height}
      from == SubSeq(c.blocks, Max(at), Len(c.blocks))
  IN IF at = {} THEN c ELSE SendGetdata([c EXCEPT !.blocks = from], from, {})

---------------------------------------------------------------------------
\* The filter.

Filter(used) == Highest(used) + 1 + Gap + Spare

\* Blocks that came on an old filter are kept.
FaultLoadBloomFilter ==
  /\ bloomFilter' = Filter(wallet)
  /\ generated' = Max({generated, Filter(wallet)})
  /\ UNCHANGED <<orphans, lastOrphan>>

\* Blocks that came on an old filter are dropped.
LoadBloomFilter ==
  /\ bloomFilter' = Filter(wallet)
  /\ generated' = Max({generated, Filter(wallet)})
  /\ orphans' = {} /\ lastOrphan' = 0

SendFilterload(c) ==
  Send([c EXCEPT !.sentMempool = FALSE], Message("filterload", Filter(wallet), <<>>, {}))

\* A pong is waited for first, so that what was asked for is in the wallet.
UpdateFilter(c) ==
  IF c.needs THEN c ELSE SendPing([c EXCEPT !.needs = TRUE], "updateFilterPingDone")

---------------------------------------------------------------------------
\* A connection: its peer becomes the download peer.
PeerConnected ==
  /\ ~ conn.up
  /\ LoadBloomFilter
  /\ estimatedHeight' = tip
  /\ LET c == SendFilterload([conn EXCEPT !.up = TRUE, !.lastblock = tip])
     IN conn' = IF lastBlock < tip
                THEN SendGetblocks([c EXCEPT !.timer = TRUE], lastBlock) ELSE SendMempool(c)
  /\ UNCHANGED <<lastBlock, wallet, confirmed, wire, peer, sessions>>

\* The callbacks of the pings are kept for the next connection.
FaultDisconnect == conn' = [Closed EXCEPT !.pongs = conn.pongs] /\ wire' = <<>>

\* The next connection still waits for the filter of this one.
FaultyDisconnect == conn' = [Closed EXCEPT !.needs = conn.needs] /\ wire' = <<>>

Disconnect == conn' = Closed /\ wire' = <<>>

\* The block that is collected has all its transactions.
Complete == conn.current.height # 0 /\ conn.current.missing = {}

Stalled == wire = <<>> /\ conn.out = <<>> /\ ~ Complete

\* A peer that is too slow, or does not follow the protocol, is left.
Timeout ==
  /\ conn.up /\ conn.timer
  /\ Disconnect
  /\ \/ Stalled /\ UNCHANGED sessions
     \/ sessions < MaxSessions /\ sessions' = sessions + 1
  /\ UNCHANGED <<manager, peer>>

---------------------------------------------------------------------------
\* The peer answers in order.

Matched(h) == {t \in Mined[h] : Pays[t] < conn.filter}

\* What is left of the request that is being answered.
Left(m) ==
  IF m.blocks = <<>> /\ m.txs = {} THEN Tail(conn.out) ELSE [conn.out EXCEPT ![1] = m]

\* A merkleblock is followed by the transactions it matched; a faulty peer
\* leaves one out.  What was announced it has, mined or not.
ServeTx(m) ==
  \E t \in m.txs :
    /\ wire' = Append(wire, Message("tx", 0, <<>>, {t}))
    /\ conn' = [conn EXCEPT !.out = Left([m EXCEPT !.txs = @ \ {t}])]
    /\ UNCHANGED sessions

ServeBlock(m) ==
  /\ m.txs = {} /\ m.blocks # <<>>
  /\ LET h == Head(m.blocks)
         Sent(txs) == [m EXCEPT !.blocks = Tail(@), !.txs = txs]
     IN /\ wire' = Append(wire, Message("merkleblock", h, <<>>, Matched(h)))
        /\ \/ conn' = [conn EXCEPT !.out = Left(Sent(Matched(h)))] /\ UNCHANGED sessions
           \/ /\ sessions < MaxSessions /\ sessions' = sessions + 1
              /\ \E t \in Matched(h) :
                   conn' = [conn EXCEPT !.out = Left(Sent(Matched(h) \ {t}))]

ServeInv(blocks, txs) ==
  wire' = IF blocks = <<>> /\ txs = {} THEN wire
          ELSE Append(wire, Message("inv", 0, blocks, txs))

ServeBlocks(from) ==
  LET count == Min({Batch, tip - from})
  IN ServeInv([i \in 1..count |-> from + i], {})

\* All but data is answered at once.
ServeRequest(m) ==
  /\ conn' = [conn EXCEPT !.out = Tail(@),
                !.filter = IF m.kind = "filterload" THEN m.height ELSE @]
  /\ \/ m.kind = "filterload" /\ UNCHANGED wire
     \/ m.kind = "ping" /\ wire' = Append(wire, Message("pong", 0, <<>>, {}))
     \/ m.kind = "getblocks" /\ ServeBlocks(m.height)
     \/ m.kind = "mempool" /\ ServeInv(<<>>, {t \in pool : Pays[t] < conn.filter})
  /\ UNCHANGED sessions

Serve ==
  /\ conn.up /\ conn.out # <<>>
  /\ LET m == Head(conn.out)
     IN IF m.kind = "getdata" THEN ServeTx(m) \/ ServeBlock(m) ELSE ServeRequest(m)
  /\ UNCHANGED <<manager, peer>>

\* A payment is made, and announced if the filter matches it; it is mined.
Announce(t) ==
  /\ t \in Announced \ (pool \cup MinedBy(tip))
  /\ Pays[t] <= Highest(pool \cup MinedBy(tip)) + Gap
  /\ pool' = pool \cup {t}
  /\ wire' = IF conn.up /\ Pays[t] < conn.filter
             THEN Append(wire, Message("inv", 0, <<>>, {t})) ELSE wire
  /\ UNCHANGED <<manager, conn, tip, sessions>>

Mine ==
  /\ tip + 1 \in Heights
  /\ tip' = tip + 1
  /\ pool' = pool \ Mined[tip + 1]
  /\ wire' = IF conn.up THEN Append(wire, Message("inv", 0, <<tip + 1>>, {})) ELSE wire
  /\ UNCHANGED <<manager, conn, sessions>>

---------------------------------------------------------------------------
\* What arrives.

Arrives(kind) ==
  /\ conn.up /\ wire # <<>> /\ Head(wire).kind = kind
  /\ ~ Complete
  /\ kind # "tx" => conn.current = Nothing
  /\ wire' = Tail(wire)

\* A single hash that was the last one announced is not asked for again.
\* While the filter is replaced hashes are only remembered.
AcceptInv ==
  LET m == Head(wire)
      again == Len(m.blocks) = 1 /\ m.blocks[1] = conn.lastHash
      new == IF again THEN <<>> ELSE m.blocks
      wanted == IF conn.needs THEN <<>> ELSE new
      c == [conn EXCEPT !.blocks = @ \o new, !.known = @ \cup m.txs,
                        !.lastHash = IF Len(new) = 1 THEN new[1] ELSE @]
      asked == SendGetdata(c, wanted, m.txs \ conn.known)
  IN /\ Arrives("inv")
     /\ conn' = IF Len(wanted) >= Batch THEN SendGetblocks(asked, Last(wanted)) ELSE asked
     /\ UNCHANGED <<manager, peer, sessions>>

\* It pays the wallet: of what matches by chance only the number counts.
AcceptTx ==
  /\ Arrives("tx")
  /\ \E t \in Head(wire).txs :
       LET c == [conn EXCEPT !.current.missing = @ \ {t}]
           xs == wallet \cup {t}
           enough == Highest(xs) + 1 + Gap
           replaced == bloomFilter # 0 /\ bloomFilter < enough
       IN /\ wallet' = xs
          /\ generated' = Max({generated, enough})
          /\ bloomFilter' = IF replaced THEN 0 ELSE bloomFilter
          /\ conn' = IF replaced THEN UpdateFilter(c) ELSE c
  /\ UNCHANGED <<lastBlock, estimatedHeight, orphans, lastOrphan, confirmed, peer, sessions>>

\* What was announced already is not waited for.
AcceptMerkleblock ==
  LET m == Head(wire)
  IN /\ Arrives("merkleblock")
     /\ conn' = [conn EXCEPT !.current =
                   [height |-> m.height, txs |-> m.txs, missing |-> m.txs \ conn.known]]
     /\ UNCHANGED <<manager, peer, sessions>>

\* Anything but its transactions while a block is collected is an error.
Incomplete ==
  /\ conn.up /\ wire # <<>> /\ Head(wire).kind # "tx"
  /\ conn.current # Nothing /\ ~ Complete
  /\ Disconnect
  /\ UNCHANGED <<manager, peer, sessions>>

\* Blocks kept as orphans follow the last block.
Extended(ch) ==
  LET Follows(h) == \A i \in (ch.lastBlock + 1)..h : \E o \in ch.orphans : o.height = i
      to == Max({ch.lastBlock} \cup {o.height : o \in {o \in ch.orphans : Follows(o.height)}})
      used == {o \in ch.orphans : o.height <= to}
  IN [lastBlock |-> to, orphans |-> ch.orphans \ used,
      confirmed |-> ch.confirmed \cup (wallet \cap UNION {o.txs : o \in used})]

\* A block is dropped while the filter it came on has too few addresses.
Dropped(c) ==
  /\ bloomFilter = 0
  /\ conn' = [c EXCEPT !.timer = @ \/ lastBlock < estimatedHeight]
  /\ UNCHANGED <<lastBlock, estimatedHeight, orphans, lastOrphan, confirmed,
                 bloomFilter, generated>>

\* An orphan older than a week is not kept.
Aged(c, height) ==
  /\ bloomFilter # 0 /\ height > lastBlock + 1
  /\ conn' = c
  /\ UNCHANGED <<lastBlock, estimatedHeight, orphans, lastOrphan, confirmed,
                 bloomFilter, generated>>

Orphan(c, height, txs) ==
  /\ bloomFilter # 0 /\ height > lastBlock + 1
  /\ conn' = IF lastBlock >= c.lastblock /\ (lastOrphan = 0 \/ lastOrphan # height - 1)
             THEN SendGetblocks(c, lastBlock) ELSE c
  /\ orphans' = orphans \cup {[height |-> height, txs |-> txs]}
  /\ lastOrphan' = height
  /\ UNCHANGED <<lastBlock, estimatedHeight, confirmed, bloomFilter, generated>>

\* The next block, or one the chain has; its transactions are confirmed.
\* At the end of the chain a filter that lets too much through is replaced
\* (orphans above it are gone then) before the mempool is asked for.
Connects(c, height, txs) ==
  \E reload \in BOOLEAN :
    LET kept == {o \in orphans : reload => o.height <= estimatedHeight}
        next == Extended([lastBlock |-> Max({lastBlock, height}), orphans |-> kept,
                          confirmed |-> confirmed \cup (wallet \cap txs)])
        finished == lastBlock < estimatedHeight /\ next.lastBlock >= estimatedHeight
        idle == [c EXCEPT !.timer = FALSE]
    IN /\ bloomFilter # 0 /\ height <= lastBlock + 1
       /\ lastBlock' = next.lastBlock
       /\ confirmed' = next.confirmed
       /\ estimatedHeight' = Max({estimatedHeight, next.lastBlock})
       /\ reload => finished
       /\ IF reload
          THEN LoadBloomFilter /\ conn' = SendPing(SendFilterload(idle), "loadBloomFilterDone")
          ELSE /\ conn' = IF finished THEN SendMempool(idle)
                          ELSE [c EXCEPT !.timer = @ \/ (height > lastBlock /\ height < estimatedHeight)]
               /\ orphans' = next.orphans
               /\ UNCHANGED <<lastOrphan, bloomFilter, generated>>

\* A filter that lets too much through is replaced too.
RelayedBlock ==
  /\ conn.up /\ Complete
  /\ \E degraded \in BOOLEAN :
       LET done == [conn EXCEPT !.current = Nothing]
           c == IF degraded THEN UpdateFilter(done) ELSE done
           b == conn.current
       IN /\ degraded => lastBlock + Margin < conn.lastblock
          /\ \/ Dropped(c)
             \/ Aged(c, b.height)
             \/ Orphan(c, b.height, b.txs)
             \/ Connects(c, b.height, b.txs)
  /\ UNCHANGED <<wallet, wire, peer, sessions>>

---------------------------------------------------------------------------
\* The callbacks of the pings.

UpdateFilterPingDone(c) ==
  /\ LoadBloomFilter
  /\ conn' = SendPing(SendFilterload(c), "updateFilterLoadDone")

\* Blocks that were dropped are asked for again, or, at the end of the
\* chain, only what is not mined.
UpdateFilterLoadDone(c) ==
  LET loaded == [c EXCEPT !.needs = FALSE]
  IN /\ conn' = IF lastBlock < estimatedHeight
                THEN SendPing(RerequestBlocks(loaded, lastBlock), "updateFilterRerequestDone")
                ELSE SendMempool(loaded)
     /\ UNCHANGED <<bloomFilter, generated, orphans, lastOrphan>>

LoadBloomFilterDone(c) ==
  /\ conn' = SendMempool(c)
  /\ UNCHANGED <<bloomFilter, generated, orphans, lastOrphan>>

UpdateFilterRerequestDone(c) ==
  /\ conn' = IF c.needs THEN c ELSE SendGetblocks(c, lastBlock)
  /\ UNCHANGED <<bloomFilter, generated, orphans, lastOrphan>>

AcceptPong ==
  LET callback == Head(conn.pongs)
      c == [conn EXCEPT !.pongs = Tail(@)]
  IN /\ Arrives("pong")
     /\ \/ callback = "updateFilterPingDone" /\ UpdateFilterPingDone(c)
        \/ callback = "updateFilterLoadDone" /\ UpdateFilterLoadDone(c)
        \/ callback = "loadBloomFilterDone" /\ LoadBloomFilterDone(c)
        \/ callback = "updateFilterRerequestDone" /\ UpdateFilterRerequestDone(c)
     /\ UNCHANGED <<lastBlock, estimatedHeight, wallet, confirmed, peer, sessions>>

---------------------------------------------------------------------------

Receive ==
  \/ AcceptInv \/ AcceptTx \/ AcceptMerkleblock \/ RelayedBlock
  \/ AcceptPong \/ Incomplete

Next ==
  \/ PeerConnected \/ Timeout \/ Serve \/ Receive \/ Mine
  \/ \E t \in Announced : Announce(t)

\* The peer answers, messages arrive, a stalled download times out, and the
\* manager connects again.
Fairness == WF_vars(PeerConnected) /\ WF_vars(Timeout) /\ WF_vars(Serve) /\ WF_vars(Receive)

Spec == Init /\ [][Next]_vars /\ Fairness

---------------------------------------------------------------------------
Kinds == {"filterload", "ping", "getblocks", "getdata", "mempool",
          "inv", "tx", "merkleblock", "pong"}
MessageType(m) ==
  /\ m.kind \in Kinds /\ m.txs \subseteq Tx
  /\ Range(m.blocks) \subseteq Heights

\* Every variable has its type; each ping that is not answered has its
\* callback, and the hashes known are of blocks that were announced.
TypeOK ==
  /\ lastBlock \in 0..tip /\ estimatedHeight \in 0..tip
  /\ bloomFilter \in 0..generated
  /\ wallet \cup confirmed \subseteq Tx
  /\ \A o \in orphans : o.height \in lastBlock + 2..tip /\ o.txs \subseteq Tx
  /\ \A i \in DOMAIN wire : MessageType(wire[i])
  /\ \A i \in DOMAIN conn.out : MessageType(conn.out[i])
  /\ Len(conn.pongs) = Cardinality({i \in DOMAIN conn.out : conn.out[i].kind = "ping"})
                        + Cardinality({i \in DOMAIN wire : wire[i].kind = "pong"})
  /\ Range(conn.blocks) \subseteq 1..tip
  /\ tip \in Heights /\ pool \subseteq Tx /\ sessions \in 0..MaxSessions

\* All payments to the wallet up to the last block are known, as mined,
\* although the filter they came on was built before the wallet knew it had
\* their addresses.  The code waits for a pong, so that what was asked for on
\* the old filter is dropped; Connects does not wait (FilterHistory).
PaymentsFound == MinedBy(lastBlock) \subseteq confirmed

\* A download that is behind gets to the end of the chain.
SyncEnds == (lastBlock < estimatedHeight) ~> (lastBlock >= estimatedHeight)
=============================================================================
