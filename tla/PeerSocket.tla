---------------------------- MODULE PeerSocket ----------------------------
(***************************************************************************)
(* The life of a connection of loafwallet-core: BRPeer.c's thread opens a  *)
(* socket, reads messages from it until something is wrong, and closes it; *)
(* BRPeerManager.c creates and frees the connections and, from any thread, *)
(* closes their sockets.  The manager's calls hold its lock; the thread of *)
(* a connection does not, so its steps on the socket are actions of their  *)
(* own, and so are those of BRPeerDisconnect.                              *)
(*                                                                         *)
(* A descriptor is an index of the process's table of files; file says     *)
(* whose connection is open there, and a closed one is given out again.    *)
(* What messages say is in the modules of the manager.                     *)
(***************************************************************************)
EXTENDS Integers, FiniteSets, FiniteSetsExt

CONSTANTS
  Peer, NoPeer,          \* connections: each is created and freed once
  Fd,                    \* descriptors the process may open
  maxConnectCount,
  MAX_CONNECT_FAILURES

ASSUME SocketAssumption ==
  /\ NoPeer \notin Peer /\ Fd \subseteq Nat /\ IsFiniteSet(Fd)
  /\ maxConnectCount \in Nat \ {0} /\ MAX_CONNECT_FAILURES \in Nat \ {0}

VARIABLES
  peer,
  file,          \* file[d]: the connection open at d
  call,          \* the call of BRPeerDisconnect in progress, under the lock
  app,           \* what the application waits for
  download,      \* downloadPeer; isConnected says whether there is one
  failures       \* connectFailureCount

vars == <<peer, file, call, app, download, failures>>

Closed == -1

\* waiting: waitingForNetwork; pc: where the thread is; socket: the variable
\* of the connection; held: the thread's copy of it; again: whether the thread
\* is to connect others when it leaves.
NewPeer ==
  [link |-> "none", status |-> "disconnected", waiting |-> FALSE, pc |-> "none",
   threads |-> 0, ipv4 |-> FALSE, socket |-> Closed, held |-> Closed,
   again |-> FALSE]

\* targets: the connections it still has to close; held: its copy of the
\* socket of the current one; by: the connection whose thread it is, if any.
NoCall == [step |-> "none", by |-> NoPeer, targets |-> {}, at |-> NoPeer, held |-> Closed]

Init ==
  /\ peer = [p \in Peer |-> NewPeer]
  /\ file = [d \in Fd |-> NoPeer]
  /\ call = NoCall /\ app = "idle"
  /\ download = NoPeer /\ failures = 0

connectedPeers == {p \in Peer : peer[p].link = "live"}
Unlocked == call.step = "none"

---------------------------------------------------------------------------
\* The manager connects.

\* A connection that got its thread still waits for the network.
FaultStart(c, created) ==
  IF created THEN [c EXCEPT !.pc = "open", !.threads = @ + 1]
  ELSE [c EXCEPT !.status = "disconnected"]

\* A new thread may not be had: then the connection stays as it is.
Start(c, created) ==
  IF created THEN [c EXCEPT !.waiting = FALSE, !.pc = "open", !.threads = @ + 1]
  ELSE [c EXCEPT !.waiting = FALSE, !.status = "disconnected"]

\* reachable: what networkIsReachable() answers.
BRPeerConnect(c, reachable, created) ==
  IF c.status # "disconnected" /\ ~ c.waiting THEN c
  ELSE IF reachable THEN Start([c EXCEPT !.status = "connecting"], created)
  ELSE [c EXCEPT !.status = "connecting", !.waiting = TRUE]

\* Those that connect are tried again, and new ones are added if there are.
ManagerConnect(ps) ==
  \E new \in SUBSET {p \in Peer : ps[p].link = "none"}, reachable, created \in BOOLEAN :
    LET live == {p \in Peer : ps[p].link = "live"}
        tried == new \cup {p \in live : ps[p].status = "connecting"}
    IN /\ Cardinality(live) < maxConnectCount
            => Cardinality(live \cup new) <= maxConnectCount
       /\ Cardinality(live) >= maxConnectCount => new = {}
       /\ peer' = [p \in Peer |->
                     IF p \notin tried THEN ps[p]
                     ELSE BRPeerConnect([ps[p] EXCEPT !.link = "live"], reachable, created)]

\* A connection attempt of the user after failures starts counting again.
Retry(n) == IF n >= MAX_CONNECT_FAILURES THEN 0 ELSE n

BRPeerManagerConnect ==
  /\ Unlocked /\ app \in {"idle", "rescan"}
  /\ ManagerConnect(peer)
  /\ failures' = Retry(failures)
  /\ app' = "idle"
  /\ UNCHANGED <<file, call, download>>

---------------------------------------------------------------------------
\* BRPeerDisconnect: the socket is read, cleared, and closed.

Closing(by, targets) ==
  call' = IF targets = {} THEN NoCall ELSE [NoCall EXCEPT !.step = "next", !.by = by, !.targets = targets]

NextTarget ==
  /\ call.step = "next"
  /\ \E p \in call.targets :
       LET more == call.targets \ {p}
       IN call' = IF peer[p].socket # Closed
                  THEN [call EXCEPT !.targets = more, !.at = p, !.step = "clear",
                                    !.held = peer[p].socket]
                  ELSE IF more = {} THEN NoCall ELSE [call EXCEPT !.targets = more]
  /\ UNCHANGED <<peer, file, app, download, failures>>

ClearSocket ==
  /\ call.step = "clear"
  /\ peer' = [peer EXCEPT ![call.at].socket = Closed]
  /\ call' = [call EXCEPT !.step = "close"]
  /\ UNCHANGED <<file, app, download, failures>>

CloseSocket ==
  /\ call.step = "close"
  /\ file' = [file EXCEPT ![call.held] = NoPeer]
  /\ call' = IF call.targets = {} THEN NoCall
             ELSE [call EXCEPT !.step = "next", !.at = NoPeer, !.held = Closed]
  /\ UNCHANGED <<peer, app, download, failures>>

\* The application waits until there is no connection.
BRPeerManagerDisconnect ==
  /\ Unlocked /\ app = "idle"
  /\ Closing(NoPeer, connectedPeers)
  /\ failures' = IF connectedPeers = {} THEN failures ELSE MAX_CONNECT_FAILURES
  /\ app' = "waiting"
  /\ UNCHANGED <<peer, file, download>>

DisconnectDone ==
  /\ Unlocked /\ app = "waiting" /\ connectedPeers = {}
  /\ app' = "idle"
  /\ UNCHANGED <<peer, file, call, download, failures>>

\* Another download peer is wanted.
BRPeerManagerRescan ==
  /\ Unlocked /\ app = "idle" /\ download # NoPeer
  /\ Closing(NoPeer, {download})
  /\ app' = "rescan"
  /\ UNCHANGED <<peer, file, download, failures>>

---------------------------------------------------------------------------
\* The thread of a connection p.

At(p, pc) == peer[p].pc = pc
Free == {d \in Fd : file[d] = NoPeer}

\* With no descriptor left the thread ends, and what the variable held, the
\* socket for IPv6 if this one is for IPv4, is overwritten all the same.
OpenSocket(p) ==
  /\ At(p, "open")
  /\ IF Free = {} THEN peer' = [peer EXCEPT ![p].socket = Closed, ![p].pc = "end"] /\ UNCHANGED file
     ELSE /\ file' = [file EXCEPT ![Min(Free)] = p]
          /\ peer' = [peer EXCEPT ![p].socket = Min(Free), ![p].pc = "connect"]
  /\ UNCHANGED <<call, app, download, failures>>

\* If it cannot connect over IPv6 it opens another socket for IPv4.
SocketConnects(p) ==
  /\ At(p, "connect")
  /\ \/ /\ peer[p].socket # Closed /\ file[peer[p].socket] = p
        /\ peer' = [peer EXCEPT ![p].pc = "loop"]
     \/ peer' = [peer EXCEPT ![p].pc = "end"]
     \/ /\ ~ peer[p].ipv4
        /\ peer' = [peer EXCEPT ![p].pc = "open", ![p].ipv4 = TRUE]
  /\ UNCHANGED <<file, call, app, download, failures>>

\* The socket is copied before the loop, not in it.
FaultLoop(p) ==
  /\ At(p, "loop")
  /\ peer' = [peer EXCEPT ![p].held = IF @ = Closed THEN peer[p].socket ELSE @,
                ![p].pc = IF peer[p].socket = Closed /\ peer[p].held = Closed THEN "end" ELSE "read"]
  /\ UNCHANGED <<file, call, app, download, failures>>

\* The loop's condition, and the copy of the socket that is read from.
Loop(p) ==
  /\ At(p, "loop")
  /\ peer' = [peer EXCEPT ![p].held = peer[p].socket,
                ![p].pc = IF peer[p].socket = Closed THEN "end" ELSE "read"]
  /\ UNCHANGED <<file, call, app, download, failures>>

\* Nothing, an error, or a message.
Read(p) ==
  /\ At(p, "read")
  /\ \/ peer' = [peer EXCEPT ![p].pc = "end"]
     \/ /\ file[peer[p].held] # NoPeer
        /\ \/ peer' = [peer EXCEPT ![p].pc = "loop"]
           \/ /\ peer[p].status = "connecting"
              /\ peer' = [peer EXCEPT ![p].status = "connected", ![p].pc = "greet"]
           \/ /\ peer[p].status = "connected"
              /\ peer' = [peer EXCEPT ![p].pc = "handle"]
  /\ UNCHANGED <<file, call, app, download, failures>>

\* The first of a connection: it may not do, or the best of those that are up
\* takes the place of the download peer, or it is one more.
PeerConnected(p) ==
  /\ At(p, "greet") /\ Unlocked
  /\ peer' = [peer EXCEPT ![p].pc = "loop"]
  /\ \/ Closing(p, {p}) /\ UNCHANGED <<download, failures>>
     \/ /\ Closing(p, {download} \ {NoPeer})
        /\ download' \in {q \in connectedPeers : peer[q].status = "connected"} \ {download}
        /\ failures' \in {failures, 0}
     \/ /\ download # NoPeer /\ call' = NoCall
        /\ failures' \in {failures, 0}
        /\ UNCHANGED download
  /\ UNCHANGED <<file, app>>

\* Blocks of the download peer end the count of failures; a peer that does
\* not keep to the protocol is disconnected.
Handle(p) ==
  /\ At(p, "handle") /\ Unlocked
  /\ peer' = [peer EXCEPT ![p].pc = "loop"]
  /\ \/ Closing(p, {p}) /\ UNCHANGED failures
     \/ p = download /\ failures' = 0 /\ UNCHANGED call
  /\ UNCHANGED <<file, app, download>>

---------------------------------------------------------------------------
\* The end of the thread.

TakeSocket(p) ==
  /\ At(p, "end")
  /\ peer' = [peer EXCEPT ![p].held = peer[p].socket, ![p].pc = "clear"]
  /\ UNCHANGED <<file, call, app, download, failures>>

EndClears(p) ==
  /\ At(p, "clear")
  /\ peer' = [peer EXCEPT ![p].socket = Closed, ![p].status = "disconnected", ![p].pc = "close"]
  /\ UNCHANGED <<file, call, app, download, failures>>

\* The thread leaves the socket open.
FaultEndCloses(p) ==
  /\ At(p, "close")
  /\ peer' = [peer EXCEPT ![p].held = Closed, ![p].pc = "tell"]
  /\ UNCHANGED <<file, call, app, download, failures>>

EndCloses(p) ==
  /\ At(p, "close")
  /\ file' = IF peer[p].held = Closed THEN file ELSE [file EXCEPT ![peer[p].held] = NoPeer]
  /\ peer' = [peer EXCEPT ![p].held = Closed, ![p].pc = "tell"]
  /\ UNCHANGED <<call, app, download, failures>>

\* The manager frees the connection; the thread may then connect others.
\* A protocol error is not counted as a failure, nor is a socket found closed.
PeerDisconnected(p) ==
  /\ At(p, "tell") /\ Unlocked
  /\ \E counted \in BOOLEAN :
       LET n == IF counted THEN failures + 1 ELSE failures
           first == download \in {p, NoPeer}
           m == IF p = download /\ n > MAX_CONNECT_FAILURES THEN MAX_CONNECT_FAILURES ELSE n
           failed == first /\ m = MAX_CONNECT_FAILURES
       IN /\ failures' = Min({m, MAX_CONNECT_FAILURES + 1})
          /\ peer' = [peer EXCEPT ![p].link = "freed", ![p].pc = "leave",
                        ![p].again = ~ failed /\ m < MAX_CONNECT_FAILURES]
  /\ download' = IF download = p THEN NoPeer ELSE download
  /\ UNCHANGED <<file, call, app>>

Leave(p) ==
  /\ At(p, "leave")
  /\ LET left == [peer EXCEPT ![p].pc = "none", ![p].threads = @ - 1]
     IN IF peer[p].again THEN Unlocked /\ ManagerConnect(left) /\ failures' = Retry(failures)
        ELSE peer' = left /\ UNCHANGED failures
  /\ UNCHANGED <<file, call, app, download>>

---------------------------------------------------------------------------

Thread(p) ==
  \/ OpenSocket(p) \/ SocketConnects(p) \/ Loop(p) \/ Read(p) \/ PeerConnected(p)
  \/ Handle(p) \/ TakeSocket(p) \/ EndClears(p) \/ EndCloses(p)
  \/ PeerDisconnected(p) \/ Leave(p)

Call == NextTarget \/ ClearSocket \/ CloseSocket

Next ==
  \/ BRPeerManagerConnect \/ BRPeerManagerDisconnect \/ DisconnectDone
  \/ BRPeerManagerRescan \/ Call
  \/ \E p \in Peer : Thread(p)

\* Threads go on, and get the lock.
Fairness == WF_vars(Call) /\ WF_vars(DisconnectDone) /\ \A p \in Peer : SF_vars(Thread(p))

Spec == Init /\ [][Next]_vars
FairSpec == Spec /\ Fairness

---------------------------------------------------------------------------
Places == {"none", "open", "connect", "loop", "read", "greet", "handle", "end",
           "clear", "close", "tell", "leave"}

\* Every variable has its type; a connection has at most one thread and has
\* it until it is freed, and what a call is about to close has not been freed.
TypeOK ==
  /\ \A p \in Peer :
       /\ peer[p].link \in {"none", "live", "freed"}
       /\ peer[p].status \in {"disconnected", "connecting", "connected"}
       /\ {peer[p].waiting, peer[p].ipv4, peer[p].again} \subseteq BOOLEAN
       /\ peer[p].pc \in Places
       /\ peer[p].threads = (IF peer[p].pc = "none" THEN 0 ELSE 1)
       /\ {peer[p].socket, peer[p].held} \subseteq Fd \cup {Closed}
       /\ peer[p].link = "none" => peer[p] = NewPeer
  /\ file \in [Fd -> Peer \cup {NoPeer}]
  /\ call.step \in {"none", "next", "clear", "close"}
  /\ call.targets \cup ({call.at} \ {NoPeer}) \subseteq connectedPeers
  /\ call.step \in {"clear", "close"} => call.held \in Fd /\ call.at \in Peer
  /\ app \in {"idle", "waiting", "rescan"}
  /\ download \in connectedPeers \cup {NoPeer}
  /\ failures \in 0..MAX_CONNECT_FAILURES + 1

\* What nobody will close: open, and neither the socket of its connection
\* nor in the hands of a thread that is about to close it.
Leaked(p) ==
  {d \in Fd : /\ file[d] = p /\ peer[p].socket # d
              /\ ~ (peer[p].held = d /\ peer[p].pc \in {"clear", "close"})
              /\ ~ (call.held = d /\ call.at = p)}

\* Two threads may both close a socket, and one may clear the number another
\* has just written, but a descriptor is leaked only by a connection that
\* tried IPv4 after IPv6, which does not close the first socket whether or not
\* it gets a second, and then one.
DescriptorsAccounted ==
  \A p \in Peer : Cardinality(Leaked(p)) <= (IF peer[p].ipv4 THEN 1 ELSE 0)

\* A connection that was up and whose socket was closed, by whatever thread,
\* ends: its thread tells the manager, and it is freed.
ConnectionStops ==
  \A p \in Peer :
    (peer[p].status = "connected" /\ peer[p].socket = Closed) ~> peer[p].link = "freed"
=============================================================================
