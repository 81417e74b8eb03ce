------------------------ MODULE PeerManagerPublish ------------------------
(***************************************************************************)
(* How the peer manager of loafwallet-core (BRPeerManager.c) publishes the *)
(* wallet's transactions: it offers them to the peers it is connected to,  *)
(* gives them to those that ask, counts who relays them back, answers the  *)
(* application, gives up after a timeout, and drops from the wallet what   *)
(* no peer knows.  Peers connect, refuse, forget, stall and disconnect.    *)
(*                                                                         *)
(* A handler runs under the manager's lock, so it is one action.  Of the   *)
(* chain only this is kept: whether the download is behind; all peers      *)
(* claim one height.  What a peer is sent it gets and answers in order:    *)
(* out[p] is what it has not answered, and an answer and its handler are   *)
(* one action, a step for each transaction where BRPeer.c calls the        *)
(* handler for each.  What peers announce by themselves, or because their  *)
(* mempool was asked for, is any of what is in network.                    *)
(***************************************************************************)
EXTENDS Integers, Sequences, FiniteSets, SequencesExt

CONSTANTS
  Peer, NoPeer,
  Tx,                    \* transactions that spend from the wallet
  Inputs,                \* Inputs[t]: those whose outputs t spends
  Held,                  \* unconfirmed transactions the wallet begins with
  maxConnectCount,
  MAX_CONNECT_FAILURES,
  Behind,                \* whether the chain is behind the peers at first
  MaxOpened              \* bound: connections opened

ASSUME PublishAssumption ==
  /\ IsFiniteSet(Peer) /\ NoPeer \notin Peer /\ Held \subseteq Tx
  /\ Inputs \in [Tx -> SUBSET Tx]
  /\ maxConnectCount \in Nat \ {0} /\ MAX_CONNECT_FAILURES \in Nat \ {0}
  /\ Behind \in BOOLEAN /\ MaxOpened \in Nat

VARIABLES
  peer,          \* peer[p]: the connection to p
  tx,            \* tx[t]: what the manager and the wallet know of t
  download,      \* downloadPeer; isConnected says whether there is one
  failures,      \* connectFailureCount
  syncing,       \* syncStartHeight > 0
  behind,        \* lastBlock->height < estimatedHeight
  network,       \* transactions that peers have; each may have it or not
  opened

manager == <<peer, tx, download, failures, syncing, behind>>
vars == <<manager, network, opened>>

\* The link of a peer whose thread only has to call BRPeerManagerConnect.
Links == {"none", "connecting", "connected", "ending", "leaving"}
Callbacks == {"loaded", "mempool", "unrelayed", "offered"}
\* Of the errors only EPROTO does not count as a failure; it is "none" here.
Errors == {"none", "ECONNRESET", "ETIMEDOUT"}
Calls == {"none", "admitted", "waiting", "ok", "EINVAL", "ETIMEDOUT", "ENOTCONN"}

NoLink == [link |-> "none", closing |-> FALSE, timer |-> FALSE, synced |-> FALSE,
           sentMempool |-> FALSE, mempoolDone |-> FALSE, error |-> "none",
           known |-> {}, out |-> <<>>]

\* listed: in publishedTx, with a callback while call is "waiting".
\* shared: the struct listed is the wallet's; freed: the wallet freed it.
NewTx(t) == [listed |-> FALSE, shared |-> FALSE, freed |-> FALSE, call |-> "none",
             held |-> t \in Held, confirmed |-> FALSE,
             valid |-> TRUE, relays |-> {}, requests |-> {}]

Init ==
  /\ peer = [p \in Peer |-> NoLink]
  /\ tx = [t \in Tx |-> NewTx(t)]
  /\ download = NoPeer
  /\ failures = 0 /\ syncing = FALSE /\ behind = Behind
  /\ network = Held
  /\ opened = 0

---------------------------------------------------------------------------
\* Operations on a connection c, on the connections ps and transactions xs.

Connected(ps) == {p \in Peer : ps[p].link = "connected"}
connectedPeers(ps) == {p \in Peer : ps[p].link \in {"connecting", "connected", "ending"}}
Published(xs) == {t \in Tx : xs[t].listed}
Waiting(xs) == {t \in Tx : xs[t].call = "waiting"}
Unconfirmed(xs) == {t \in Tx : xs[t].held /\ ~ xs[t].confirmed}

Ping(callback) == [kind |-> "ping", txs |-> {}, callback |-> callback]
Message(kind, txs) == [kind |-> kind, txs |-> txs, callback |-> "none"]

\* A message to a closed socket is lost; the callback of a ping is kept.
Send(c, m) ==
  IF (c.closing \/ c.link = "ending") /\ m.kind # "ping" THEN c
  ELSE [c EXCEPT !.out = Append(@, m)]

SendInv(c, txs) ==
  LET new == txs \ c.known
  IN IF new = {} THEN c ELSE Send([c EXCEPT !.known = @ \cup new], Message("inv", new))

\* A request while another is open only calls back, which has no effect.
SendMempool(c, xs) ==
  IF c.sentMempool \/ c.mempoolDone THEN [c EXCEPT !.sentMempool = TRUE]
  ELSE [c EXCEPT !.sentMempool = TRUE, !.mempoolDone = ~ c.closing,
                 !.known = @ \cup Published(xs)]

PublishPendingTx(c, xs) ==
  SendInv([c EXCEPT !.timer = @ \/ Waiting(xs) # {}], Published(xs))

\* Loading a filter makes room for another mempool request.
LoadAndPublish(c, xs) ==
  Send(PublishPendingTx([c EXCEPT !.sentMempool = FALSE], xs), Ping("loaded"))

\* The download peer's filter is loaded again if it matches too much.
LoadMempools(ps, xs, dl, degraded) ==
  [q \in Peer |->
     IF ps[q].link # "connected" THEN ps[q]
     ELSE IF q # dl \/ degraded THEN LoadAndPublish(ps[q], xs)
     ELSE SendMempool(ps[q], xs)]

\* The timeout of the sync is cancelled whatever else it guards.
FaultSyncStopped(ps, xs, dl) ==
  IF dl = NoPeer THEN ps ELSE [ps EXCEPT ![dl].timer = FALSE]

\* The timer of the download peer goes on while a publication waits.
SyncStopped(ps, xs, dl) ==
  IF dl = NoPeer \/ Waiting(xs) # {} THEN ps ELSE [ps EXCEPT ![dl].timer = FALSE]

Unrelayed(xs, p) == {t \in Unconfirmed(xs) : p \notin xs[t].relays \cup xs[t].requests}

AskFor(c, missing) ==
  IF missing = {} THEN [c EXCEPT !.synced = TRUE]
  ELSE LET asked == Send(c, Message("getdata", missing))
       IN IF c.synced THEN asked ELSE Send(asked, Ping("unrelayed"))

Asked(xs, p, missing) ==
  [t \in Tx |-> [xs[t] EXCEPT !.requests = IF t \in missing THEN @ \cup {p} ELSE @]]

\* With t the unconfirmed transactions it depends on are listed, silently.
AddTxToPublishList(xs, t) ==
  LET parents(u) == {v \in Inputs[u] : v \in Unconfirmed(xs)}
      Closed(S) == t \in S /\ \A u \in S : \A v \in parents(u) : v \in Published(xs) \cup S
      added == IF t \in Published(xs) THEN {}
               ELSE {u \in Tx : \A S \in SUBSET Tx : Closed(S) => u \in S}
  IN [u \in Tx |-> IF u \notin added THEN xs[u]
                   ELSE [xs[u] EXCEPT !.listed = TRUE, !.shared = xs[u].held, !.freed = FALSE]]

Unlisted(x) == [x EXCEPT !.listed = FALSE, !.shared = FALSE, !.freed = FALSE]

\* The callback is not taken from the list when it is called.
FaultAnswered(x, result) == x

\* Whoever relays, has or asks for t: a callback for t is called with result.
Answered(x, result) == [x EXCEPT !.call = IF @ = "waiting" THEN result ELSE @]

\* No other publication waits: the timeout of p is cancelled, unless it
\* is that of the sync, which goes on with what is the wallet's.
Heard(c, p, t, isWalletTx) ==
  LET isSync == syncing /\ p = download
  IN [c EXCEPT !.timer = (@ /\ (Waiting(tx) \ {t} # {} \/ isSync)) \/ (isSync /\ isWalletTx)]

Popped(p) == [peer[p] EXCEPT !.out = Tail(@)]
Without(c, t) ==
  LET m == Head(c.out)
  IN IF m.txs = {t} THEN [c EXCEPT !.out = Tail(@)]
     ELSE [c EXCEPT !.out = <<[m EXCEPT !.txs = @ \ {t}]>> \o Tail(@)]

---------------------------------------------------------------------------
\* The application.

\* A transaction is published once, before any peer can know it; it was
\* built from outputs of the wallet.
CanPublish(t) ==
  tx[t].call = "none" /\ t \notin Held /\ \A u \in Inputs[t] : tx[u].held

\* Without a connection it is refused, if retries ended or the network is
\* unreachable, or the lock is taken anew before it is offered.
PublishTx(t) ==
  /\ CanPublish(t) /\ download = NoPeer
  /\ \/ tx' = [tx EXCEPT ![t].call = "ENOTCONN"]
     \/ failures < MAX_CONNECT_FAILURES /\ tx' = [tx EXCEPT ![t].call = "admitted"]
  /\ UNCHANGED <<peer, download, failures, syncing, behind, network, opened>>

\* Offered to all peers but the download peer, if there is another.
Offer(t) ==
  LET xs == AddTxToPublishList([tx EXCEPT ![t].call = "waiting"], t)
      to == IF Cardinality(Connected(peer)) = 1 THEN Connected(peer)
            ELSE Connected(peer) \ {download}
  IN /\ \/ tx[t].call = "admitted"
        \/ CanPublish(t) /\ download # NoPeer
     /\ tx' = xs
     /\ peer' = [p \in Peer |-> IF p \notin to THEN peer[p]
                                ELSE Send(PublishPendingTx(peer[p], xs), Ping("offered"))]
     /\ UNCHANGED <<download, failures, syncing, behind, network, opened>>

\* Connections are opened while there are fewer than maxConnectCount and
\* other peers are found; with none at all the sync has failed.
BRPeerManagerConnect(ps) ==
  /\ failures' = IF failures >= MAX_CONNECT_FAILURES THEN 0 ELSE failures
  /\ \E new \in SUBSET {p \in Peer : ps[p].link = "none"} :
       LET now == [p \in Peer |-> IF p \in new THEN [NoLink EXCEPT !.link = "connecting"]
                                  ELSE ps[p]]
       IN /\ new = {} \/ Cardinality(connectedPeers(now)) <= maxConnectCount
          /\ opened' = opened + Cardinality(new) /\ opened' <= MaxOpened
          /\ peer' = now
          /\ syncing' = ( /\ syncing \/ download = NoPeer \/ behind
                         /\ connectedPeers(now) # {} )
  /\ UNCHANGED <<tx, download, behind, network>>

\* Called by the application, at first and when retries have ended.
Connect ==
  /\ connectedPeers(peer) = {} \/ failures >= MAX_CONNECT_FAILURES
  /\ BRPeerManagerConnect(peer)

---------------------------------------------------------------------------
\* A connection begins.

\* The services or the height of p do not suit.
Refuse(p) ==
  /\ peer[p].link = "connecting"
  /\ peer' = [peer EXCEPT ![p].link = "connected", ![p].timer = FALSE, ![p].closing = TRUE]
  /\ UNCHANGED <<tx, download, failures, syncing, behind, network, opened>>

\* Any connected peer may have the lowest ping time.
PeerConnected(p) ==
  LET ps == [peer EXCEPT ![p].link = "connected", ![p].timer = FALSE]
  IN /\ peer[p].link = "connecting"
     /\ failures' = IF behind THEN failures ELSE 0
     /\ IF download # NoPeer
        THEN /\ peer' = IF behind THEN ps ELSE [ps EXCEPT ![p] = LoadAndPublish(@, tx)]
             /\ download' = download
        ELSE \E q \in Connected(ps), degraded \in BOOLEAN :
               LET begun == [ps EXCEPT ![q] =
                               PublishPendingTx([@ EXCEPT !.sentMempool = FALSE], tx)]
               IN /\ download' = q
                  /\ peer' = IF behind THEN [begun EXCEPT ![q].timer = TRUE]
                             ELSE LoadMempools(begun, tx, q, degraded)
     /\ UNCHANGED <<tx, syncing, behind, network, opened>>

\* A block of the download peer, and the last one of the download.
Progress(p) ==
  /\ behind /\ p = download /\ peer[p].link = "connected" /\ ~ peer[p].closing
  /\ peer' = [peer EXCEPT ![p].timer = TRUE]
  /\ failures' = 0
  /\ UNCHANGED <<tx, download, syncing, behind, network, opened>>

CatchUp(p) ==
  /\ behind /\ peer[p].link = "connected" /\ ~ peer[p].closing
  /\ behind' = FALSE
  /\ \E degraded \in BOOLEAN : peer' = LoadMempools(peer, tx, download, degraded)
  /\ UNCHANGED <<tx, download, failures, syncing, network, opened>>

---------------------------------------------------------------------------
\* What a peer answers.

Ahead(p) == IF peer[p].out = <<>> THEN "nothing" ELSE Head(peer[p].out).kind

Answers(p, kind) ==
  /\ peer[p].link = "connected" /\ ~ peer[p].closing
  /\ Ahead(p) = kind

\* A peer is not interested in what was offered, or asks for it.
NotInterested(p, t) ==
  /\ Answers(p, "inv") /\ t \in Head(peer[p].out).txs
  /\ peer' = [peer EXCEPT ![p] = Without(@, t)]
  /\ UNCHANGED <<tx, download, failures, syncing, behind, network, opened>>

\* If t became invalid it leaves the list, and is sent if the wallet has it.
RequestedTx(p, t) ==
  LET x == tx[t]
      given == x.listed /\ (x.valid \/ x.held)
  IN /\ Answers(p, "inv") /\ t \in Head(peer[p].out).txs
     /\ peer' = [peer EXCEPT ![p] = Heard(Without(@, t), p, t, FALSE)]
     /\ tx' = [tx EXCEPT ![t] =
          IF ~ x.listed THEN x
          ELSE IF ~ x.valid THEN Unlisted(Answered(x, "EINVAL"))
          ELSE [Answered(x, "ok") EXCEPT !.relays = @ \cup {p}, !.held = TRUE,
                                         !.shared = @ \/ ~ x.held]]
     /\ network' = IF given THEN network \cup {t} ELSE network
     /\ UNCHANGED <<download, failures, syncing, behind, opened>>

\* It relays or has t: counted after the sync, or if t is published.
Counted(x, p) == IF x.listed \/ ~ syncing THEN x.relays \cup {p} ELSE x.relays

\* A peer announces, asked for its mempool or not, what it has: it is known
\* already, or asked for.
Announces(p, t) ==
  /\ peer[p].link = "connected" /\ ~ peer[p].closing
  /\ t \in network /\ ~ tx[t].confirmed

HasTx(p, t) ==
  LET x == tx[t]
  IN /\ Announces(p, t) /\ t \in peer[p].known
     /\ peer' = [peer EXCEPT ![p] = Heard(@, p, t, x.listed \/ x.held)]
     /\ tx' = [tx EXCEPT ![t] =
          IF ~ (x.listed \/ x.held) THEN x
          ELSE [Answered(x, "ok") EXCEPT
                  !.relays = Counted(x, p), !.requests = @ \ {p},
                  !.held = TRUE, !.shared = @ \/ (x.listed /\ ~ x.held)]]
     /\ UNCHANGED <<download, failures, syncing, behind, network, opened>>

AcceptInv(p, t) ==
  /\ Announces(p, t) /\ t \notin peer[p].known
  /\ peer' = [peer EXCEPT ![p] =
       Send([peer[p] EXCEPT !.known = @ \cup {t}], Message("getdata", {t}))]
  /\ UNCHANGED <<tx, download, failures, syncing, behind, network, opened>>

\* The first inventory after a mempool request counts as the answer to it,
\* and so do 10 seconds without one; a ping follows either.
MempoolAnswered(p) ==
  /\ peer[p].link = "connected" /\ ~ peer[p].closing /\ peer[p].mempoolDone
  /\ peer' = [peer EXCEPT ![p] = Send([@ EXCEPT !.mempoolDone = FALSE], Ping("mempool"))]
  /\ UNCHANGED <<tx, download, failures, syncing, behind, network, opened>>

RelayedTx(p, t) ==
  LET x == tx[t]
      xs == [tx EXCEPT ![t] =
               [Answered(x, "ok") EXCEPT !.held = TRUE, !.requests = @ \ {p},
                                         !.relays = Counted(x, p)]]
      listed == IF x.valid /\ ~ x.confirmed THEN AddTxToPublishList(xs, t) ELSE xs
  IN /\ Answers(p, "getdata") /\ t \in Head(peer[p].out).txs \cap network
     /\ peer' = [peer EXCEPT ![p] = Heard(Without(@, t), p, t, TRUE)]
     /\ tx' = listed
     /\ UNCHANGED <<download, failures, syncing, behind, network, opened>>

\* What was not sent is answered together, at the end.
DataNotfound(p) ==
  LET missing == Head(peer[p].out).txs
  IN /\ Answers(p, "getdata")
     /\ peer' = [peer EXCEPT ![p] = Popped(p)]
     /\ tx' = [t \in Tx |-> IF t \notin missing THEN tx[t]
                 ELSE [tx[t] EXCEPT !.relays = @ \ {p}, !.requests = @ \ {p}]]
     /\ UNCHANGED <<download, failures, syncing, behind, network, opened>>

\* A peer does not take what it was given; it is dropped if it has no reason.
RejectedTx(p, t, spent) ==
  LET x == tx[t]
      misbehaves == x.held /\ ~ spent /\ Inputs[t] \cap Unconfirmed(tx) = {}
  IN /\ peer[p].link = "connected" /\ ~ peer[p].closing /\ p \in x.relays \cup x.requests
     /\ tx' = [tx EXCEPT ![t].requests = @ \ {p},
                         ![t].relays = IF x.held THEN @ \ {p} ELSE @]
     /\ peer' = [peer EXCEPT ![p].closing = misbehaves]
     /\ UNCHANGED <<download, failures, syncing, behind, network, opened>>

---------------------------------------------------------------------------
\* The callbacks of pings: on the pong, or with 0 when the thread ends.

LoadBloomFilterDone(p, success) ==
  /\ peer' = IF success THEN [peer EXCEPT ![p] = SendMempool(Popped(p), tx)]
             ELSE LET ps == [peer EXCEPT ![p] = Popped(p)]
                  IN IF p = download THEN SyncStopped(ps, tx, download) ELSE ps
  /\ syncing' = (syncing /\ (success \/ p # download))
  /\ tx' = tx

MempoolDone(p, success) ==
  LET ps == [peer EXCEPT ![p] = Popped(p)]
      missing == Unrelayed(tx, p)
      stopped == IF syncing THEN SyncStopped(ps, tx, download) ELSE ps
  IN IF success
     THEN /\ peer' = [stopped EXCEPT ![p] = AskFor(@, missing)]
          /\ tx' = Asked(tx, p, missing)
          /\ syncing' = FALSE
     ELSE peer' = ps /\ UNCHANGED <<tx, syncing>>

\* S and what spends it, directly or not, of the transactions of a wallet.
Spenders(S, wallet) ==
  LET Closed(C) == S \subseteq C /\ \A t \in wallet : Inputs[t] \cap C # {} => t \in C
  IN {t \in Tx : \A C \in SUBSET Tx : Closed(C) => t \in C}

\* What no peer knows is removed, with all that spends it.
Unknown(xs) ==
  {t \in Unconfirmed(xs) : /\ xs[t].call # "waiting"
                           /\ xs[t].relays = {} /\ xs[t].requests = {}}

Sweep(xs) ==
  LET dropped == Spenders(Unknown(xs), {t \in Tx : xs[t].held})
  IN [t \in Tx |-> IF t \notin dropped THEN xs[t]
                   ELSE [xs[t] EXCEPT !.held = FALSE, !.freed = @ \/ xs[t].shared]]

\* Nothing is removed until enough peers have told all they have.
UnrelayedDone(p, success) ==
  LET ps == [peer EXCEPT ![p] = [Popped(p) EXCEPT !.synced = @ \/ success]]
      told == /\ \A q \in connectedPeers(ps) : ps[q].synced
              /\ Cardinality(Connected(ps)) >= maxConnectCount
  IN /\ peer' = ps
     /\ tx' = IF told THEN Sweep(tx) ELSE tx
     /\ syncing' = syncing

\* What was offered is asked for, whether the pong came or not.
PublishTxInvDone(p) ==
  LET missing == Unrelayed(tx, p)
  IN /\ peer' = [peer EXCEPT ![p] = AskFor(Popped(p), missing)]
     /\ tx' = Asked(tx, p, missing)
     /\ syncing' = syncing

Call(p, success) ==
  LET callback == Head(peer[p].out).callback
  IN /\ \/ callback = "loaded" /\ LoadBloomFilterDone(p, success)
        \/ callback = "mempool" /\ MempoolDone(p, success)
        \/ callback = "unrelayed" /\ UnrelayedDone(p, success)
        \/ callback = "offered" /\ PublishTxInvDone(p)
     /\ UNCHANGED <<download, failures, behind, network, opened>>

Pong(p) == Answers(p, "ping") /\ Call(p, TRUE)
Drain(p) == peer[p].link = "ending" /\ peer[p].out # <<>> /\ Call(p, FALSE)

---------------------------------------------------------------------------
\* A connection ends: its thread calls the callbacks it has left, then
\* _peerDisconnected, and connects again.

\* The pings among what is unanswered, in order.
Pings(out) ==
  LET at == {i \in DOMAIN out : out[i].kind = "ping"}
      upTo(i) == Cardinality({j \in at : j <= i})
  IN [k \in 1 .. Cardinality(at) |-> out[CHOOSE i \in at : upTo(i) = k]]

\* What is unanswered is not forgotten.
FaultThreadEnd(p, error) ==
  /\ peer' = [peer EXCEPT ![p].link = "ending", ![p].error = error, ![p].timer = FALSE]
  /\ UNCHANGED <<tx, download, failures, syncing, behind, network>>

ThreadEnd(p, error) ==
  /\ peer' = [peer EXCEPT ![p].link = "ending", ![p].error = error, ![p].timer = FALSE,
                          ![p].out = Pings(@)]
  /\ UNCHANGED <<tx, download, failures, syncing, behind, network>>

\* BRPeerDisconnect was called, by this thread or by another.
Closed(p) ==
  /\ peer[p].link = "connected" /\ peer[p].closing
  /\ \E error \in {"none", "ECONNRESET"} : ThreadEnd(p, error)
  /\ UNCHANGED opened

Timeout(p) ==
  /\ peer[p].link = "connecting" \/ (peer[p].link = "connected" /\ peer[p].timer)
  /\ ThreadEnd(p, "ETIMEDOUT")
  /\ UNCHANGED opened

Break(p) ==
  /\ peer[p].link \in {"connecting", "connected"}
  /\ \E error \in {"none", "ECONNRESET"} : ThreadEnd(p, error)
  /\ UNCHANGED opened

\* A count above MAX_CONNECT_FAILURES is not told from the next one.
Failures(p) ==
  LET count == failures + (IF peer[p].error = "none" THEN 0 ELSE 1)
      most == IF p = download THEN MAX_CONNECT_FAILURES ELSE MAX_CONNECT_FAILURES + 1
  IN IF count > most THEN most ELSE count

GivesUp(p) == download \in {p, NoPeer} /\ Failures(p) = MAX_CONNECT_FAILURES

TxError(p) ==
  IF GivesUp(p) THEN "ENOTCONN"
  ELSE IF peer[p].error = "ETIMEDOUT" /\ ( \/ p # download \/ ~ syncing
                                          \/ Cardinality(connectedPeers(peer)) = 1 )
  THEN "ETIMEDOUT" ELSE "none"

\* A publication that failed stays in the list.
FaultCanceled(xs, error) ==
  [t \in Tx |-> IF error # "none" THEN Answered(xs[t], error) ELSE xs[t]]

\* A publication that failed leaves the list, and its struct is freed.
Canceled(xs, error) ==
  [t \in Tx |-> IF error # "none" /\ xs[t].call = "waiting"
                THEN Unlisted(Answered(xs[t], error)) ELSE xs[t]]

\* What the peer relayed still counts.
FaultDisconnected(p) ==
  /\ peer[p].link = "ending" /\ peer[p].out = <<>>
  /\ failures' = Failures(p)
  /\ download' = IF p = download THEN NoPeer ELSE download
  /\ syncing' = (syncing /\ ~ GivesUp(p))
  /\ tx' = Canceled(tx, TxError(p))
  /\ peer' = [peer EXCEPT ![p] =
       IF Failures(p) < MAX_CONNECT_FAILURES THEN [NoLink EXCEPT !.link = "leaving"] ELSE NoLink]
  /\ UNCHANGED <<behind, network, opened>>

Disconnected(p) ==
  /\ peer[p].link = "ending" /\ peer[p].out = <<>>
  /\ failures' = Failures(p)
  /\ download' = IF p = download THEN NoPeer ELSE download
  /\ syncing' = (syncing /\ ~ GivesUp(p))
  /\ tx' = Canceled([t \in Tx |-> [tx[t] EXCEPT !.relays = @ \ {p}]], TxError(p))
  /\ peer' = [peer EXCEPT ![p] =
       IF Failures(p) < MAX_CONNECT_FAILURES THEN [NoLink EXCEPT !.link = "leaving"] ELSE NoLink]
  /\ UNCHANGED <<behind, network, opened>>

Reconnect(p) ==
  /\ peer[p].link = "leaving"
  /\ BRPeerManagerConnect([peer EXCEPT ![p] = NoLink])

---------------------------------------------------------------------------
\* The network: transactions are mined, or double spent.

\* _BRPeerManagerUpdateTx for the block t is in; it was relayed before.
Confirm(t) ==
  /\ t \in network \cap Unconfirmed(tx) /\ tx[t].valid
  /\ tx' = [tx EXCEPT ![t] = [Unlisted(@) EXCEPT !.relays = {}, !.confirmed = TRUE]]
  /\ UNCHANGED <<peer, download, failures, syncing, behind, network, opened>>

Invalidate(t) ==
  /\ tx[t].valid /\ ~ tx[t].confirmed /\ t \notin network
  /\ tx' = [u \in Tx |-> [tx[u] EXCEPT !.valid = @ /\ u \notin Spenders({t}, Tx)]]
  /\ UNCHANGED <<peer, download, failures, syncing, behind, network, opened>>

---------------------------------------------------------------------------

\* What a peer's thread does without anything from the peer.
Thread(p) ==
  \/ Closed(p) \/ Timeout(p) \/ Drain(p) \/ Disconnected(p) \/ Reconnect(p)

Next ==
  \/ Connect
  \/ \E t \in Tx : PublishTx(t) \/ Offer(t) \/ Confirm(t) \/ Invalidate(t)
  \/ \E p \in Peer : \/ Thread(p) \/ Break(p) \/ Refuse(p) \/ PeerConnected(p)
                      \/ Progress(p) \/ CatchUp(p) \/ Pong(p) \/ DataNotfound(p)
                      \/ MempoolAnswered(p)
  \/ \E p \in Peer, t \in Tx :
       \/ NotInterested(p, t) \/ RequestedTx(p, t) \/ HasTx(p, t) \/ RelayedTx(p, t)
       \/ AcceptInv(p, t)
       \/ \E spent \in BOOLEAN : RejectedTx(p, t, spent)

\* Threads run, and time passes.
Fairness == \A p \in Peer : WF_vars(Thread(p))

Spec == Init /\ [][Next]_vars /\ Fairness

---------------------------------------------------------------------------
MessageType(m) ==
  \/ m.kind = "ping" /\ m.txs = {} /\ m.callback \in Callbacks
  \/ m.kind \in {"inv", "getdata"} /\ m.txs \in SUBSET Tx /\ m.callback = "none"

\* Every variable has its type: only the connection of the download peer
\* stands for it, and only what a thread has to answer is left when it ends.
TypeOK ==
  /\ \A p \in Peer :
       LET c == peer[p]
       IN /\ c.link \in Links /\ c.error \in Errors
          /\ {c.closing, c.timer, c.synced, c.sentMempool, c.mempoolDone} \subseteq BOOLEAN
          /\ c.known \subseteq Tx
          /\ \A i \in 1..Len(c.out) : MessageType(c.out[i])
          /\ c.link \in {"none", "leaving"} => c.out = <<>>
          /\ c.link = "ending" => \A i \in 1..Len(c.out) : c.out[i].kind = "ping"
  /\ \A t \in Tx :
       LET x == tx[t]
       IN /\ x.call \in Calls
          /\ {x.listed, x.shared, x.freed, x.held, x.confirmed, x.valid}
               \subseteq BOOLEAN
          /\ x.relays \cup x.requests \subseteq Peer
  /\ download \in {NoPeer} \cup {p \in Peer : peer[p].link \in {"connected", "ending"}}
  /\ failures \in 0..(MAX_CONNECT_FAILURES + 1)
  /\ {syncing, behind} \subseteq BOOLEAN
  /\ network \subseteq Tx
  /\ opened \in 0..MaxOpened

\* While a publication is not answered it is listed, and its struct is the
\* application's: the wallet does not have it, so freeing it when the
\* publication is cancelled frees nothing of the wallet (BRTransactionFree
\* in _peerDisconnected), and a block or a sweep does not take it away.
WaitingOwned ==
  \A t \in Waiting(tx) : tx[t].listed /\ ~ tx[t].held /\ ~ tx[t].shared /\ ~ tx[t].freed

\* Only connected peers count as relaying a transaction, however the
\* answers of a peer, its last callbacks and its end follow each other.
RelaysConnected == \A t \in Tx : tx[t].relays \subseteq connectedPeers(peer)

\* Outside a sync, with a connection to the fixed peer, a publication is
\* answered in time whatever the peer does, or a sync begins, or no peer is
\* left: no handler cancels the timeout that a publication waits for.
Stranded == \A p \in Peer : peer[p].link = "none"
AnsweredOutsideSync ==
  \A t \in Tx : (t \in Waiting(tx) /\ ~ syncing /\ connectedPeers(peer) # {})
                 ~> (t \notin Waiting(tx) \/ syncing \/ Stranded)

\* The peer manager keeps the promise of Publication: while PublishTx has
\* the lock open the publication waits already.
Promise == INSTANCE Publication WITH
  Begun <- Held, public <- network,
  answer <- [t \in Tx |-> IF tx[t].call = "admitted" THEN "waiting" ELSE tx[t].call]

\* One answer each, good only when a peer has been given the transaction,
\* and none is given one that the application was told failed.
PublicationKept == Promise!Spec

\* What the application was told stays true whoever asks or relays later.
AnswersTrue == Promise!Truthful

=============================================================================
