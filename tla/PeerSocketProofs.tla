------------------------- MODULE PeerSocketProofs -------------------------
(***************************************************************************)
(* What the threads of the connections and the calls that close their      *)
(* sockets keep, for any number of connections and of descriptors: the     *)
(* types, and that a connection leaks at most the socket it gave up for    *)
(* IPv4.                                                                   *)
(***************************************************************************)
EXTENDS PeerSocket, FiniteSetTheorems, Extrema, TLAPS

-----------------------------------------------------------------------------
(***************************************************************************)
(* The inductive invariant.  What matters of a connection is its record c, *)
(* the descriptors O open for it, and the socket h of it that the call in  *)
(* progress has in hand.                                                   *)
(***************************************************************************)
Connection ==
  [link : {"none", "live", "freed"}, status : {"disconnected", "connecting", "connected"},
   waiting : BOOLEAN, pc : Places, threads : Nat, ipv4 : BOOLEAN,
   socket : Fd \cup {Closed}, held : Fd \cup {Closed}, again : BOOLEAN]

Calls == [step : {"none", "next", "clear", "close"}, by : Peer \cup {NoPeer},
          targets : SUBSET Peer, at : Peer \cup {NoPeer}, held : Fd \cup {Closed}]

Shapes ==
  /\ peer \in [Peer -> Connection] /\ file \in [Fd -> Peer \cup {NoPeer}]
  /\ call \in Calls
  /\ app \in {"idle", "waiting", "rescan"}
  /\ download \in connectedPeers \cup {NoPeer}
  /\ failures \in 0..MAX_CONNECT_FAILURES + 1

\* Only a call that closes a socket has one in hand, and its connection lives.
CallOK ==
  /\ call.targets \cup ({call.at} \ {NoPeer}) \subseteq connectedPeers
  /\ call.step = "none" => call = NoCall
  /\ call.step \in {"none", "next"} => call.at = NoPeer /\ call.held = Closed
  /\ call.step \in {"clear", "close"} => call.held \in Fd /\ call.at \in Peer

Owned(p) == {d \in Fd : file[d] = p}
Hand(p) == IF call.at = p THEN call.held ELSE Closed

\* A connection has its thread while it lives.
Lives(c) ==
  /\ c.threads = (IF c.pc = "none" THEN 0 ELSE 1)
  /\ c.link = "none" => c = NewPeer
  /\ c.waiting => c.pc = "none" /\ c.link = "live"
  /\ c.pc = "leave" => c.link = "freed"
  /\ c.pc \notin {"none", "leave"} => c.link = "live"
  /\ c.pc = "clear" => c.socket \in {c.held, Closed}

\* Sets of at most one element and of at most two.
One(S) == \A d, e \in S : d = e
Two(S) == \A c, d, e \in S : c = d \/ d = e \/ c = e

\* It has not opened a socket.
Fresh(c) == \/ c.pc = "none" /\ c.link # "freed"
            \/ c.pc = "open" /\ ~ c.ipv4

\* What it opened, one socket or two, is still open.
Full(c, O) == IF c.ipv4 /\ c.pc # "open" THEN ~ One(O) ELSE O # {}

Lost(c, O, h) ==
  {d \in O : c.socket # d /\ ~ (c.held = d /\ c.pc \in {"clear", "close"}) /\ h # d}

\* A connection opens two sockets at most, and while both are open its
\* variable and the call hold no other: so a call that clears the second
\* has the first in hand, if it has not the second.
Accounted(c, O, h) ==
  /\ Fresh(c) => O = {} /\ c.socket = Closed /\ ~ c.ipv4 /\ h = Closed
  /\ Two(O) /\ One(Lost(c, O, h))
  /\ ~ c.ipv4 => One(O) /\ Lost(c, O, h) = {}
  /\ c.pc = "open" => One(O)
  /\ Full(c, O) => {c.socket, h} \subseteq O \cup {Closed}

SocketInv ==
  /\ Shapes /\ CallOK
  /\ \A p \in Peer : Lives(peer[p]) /\ Accounted(peer[p], Owned(p), Hand(p))

-----------------------------------------------------------------------------
(***************************************************************************)
(* What the steps do to one connection.                                    *)
(***************************************************************************)

\* A descriptor of it is closed by whoever has the number.
LEMMA FullFewer ==
  ASSUME NEW c, NEW O, NEW d, d \in O, Two(O), c.pc = "open" => One(O)
  PROVE  ~ Full(c, O \ {d}) \/ (~ c.ipv4 /\ c.pc # "open" /\ ~ One(O))
<1>1. CASE c.ipv4 /\ c.pc # "open"
  <2>1. One(O \ {d})
    BY DEF One, Two
  <2> QED BY <1>1, <2>1 DEF Full
<1>2. CASE c.pc = "open" \/ One(O)
  <2>1. O \ {d} = {}
    BY <1>2 DEF One
  <2> QED BY <2>1, <1>2 DEF Full, One
<1> QED BY <1>1, <1>2

LEMMA AccountedCloses ==
  ASSUME NEW c, NEW O, NEW h, NEW d, Accounted(c, O, h)
  PROVE  Accounted(c, O \ {d}, h)
<1>1. CASE d \in O
  <2>1. ~ Full(c, O \ {d})
    BY <1>1, FullFewer DEF Accounted
  <2> QED BY <2>1 DEF Accounted, One, Two, Lost
<1>2. CASE d \notin O
  <2>1. O \ {d} = O
    BY <1>2
  <2> QED BY <2>1
<1> QED BY <1>1, <1>2

\* The call has closed what it had in hand.
LEMMA AccountedDrops ==
  ASSUME NEW c, NEW O, NEW h, Accounted(c, O, h)
  PROVE  Accounted(c, O \ {h}, Closed)
<1>1. Accounted(c, O \ {h}, h)
  BY AccountedCloses
<1>2. Lost(c, O \ {h}, Closed) \subseteq Lost(c, O \ {h}, h)
  BY DEF Lost
<1> QED BY <1>1, <1>2 DEF Accounted, One

\* The call takes the socket in hand, and clears it.
LEMMA AccountedTakes ==
  ASSUME NEW c, NEW O, Accounted(c, O, Closed), c.socket # Closed, Closed \notin O
  PROVE  Accounted(c, O, c.socket)
<1>1. Lost(c, O, c.socket) = Lost(c, O, Closed)
  BY DEF Lost
<1> QED BY <1>1 DEF Accounted

LEMMA AccountedClears ==
  ASSUME NEW c \in Connection, NEW O, NEW h \in Fd, Accounted(c, O, h), Closed \notin O
  PROVE  Accounted([c EXCEPT !.socket = Closed], O, h)
<1> DEFINE e == [c EXCEPT !.socket = Closed]
<1>1. /\ e.socket = Closed /\ e.pc = c.pc /\ e.ipv4 = c.ipv4 /\ e.link = c.link /\ e.held = c.held
  BY DEF Connection
<1> HIDE DEF e
<1>2. h # Closed
  BY SocketAssumption DEF Closed
<1>3. Lost(e, O, h) \subseteq Lost(c, O, h) \cup ({c.socket} \cap O)
  BY <1>1 DEF Lost
<1>4. ~ Fresh(e) /\ (Full(e, O) <=> Full(c, O))
  BY <1>1, <1>2 DEF Accounted, Fresh, Full
<1>5. ASSUME Full(c, O) PROVE Accounted(e, O, h)
  <2>1. h \in O /\ c.socket \in O \cup {Closed}
    BY <1>2, <1>5 DEF Accounted
  <2>2. h \notin Lost(e, O, h)
    BY DEF Lost
  <2>3. ~ c.ipv4 => Lost(e, O, h) = {}
    BY <2>1, <2>2 DEF Accounted, One, Lost
  <2>4. One(Lost(e, O, h))
    <3>1. Two(O)
      BY DEF Accounted
    <3>2. One(O \ {h})
      BY <2>1, <3>1 DEF One, Two
    <3>3. Lost(e, O, h) \subseteq O \ {h}
      BY <2>2 DEF Lost
    <3> QED BY <3>2, <3>3 DEF One
  <2> QED BY <1>1, <1>4, <2>1, <2>3, <2>4 DEF Accounted
<1>6. ASSUME ~ Full(c, O) PROVE Accounted(e, O, h)
  <2>1. One(O) /\ (~ c.ipv4 => O = {})
    BY <1>6 DEF Full, One, Accounted
  <2>2. Lost(e, O, h) \subseteq O
    BY DEF Lost
  <2>3. One(Lost(e, O, h))
    BY <2>1, <2>2 DEF One
  <2>4. ~ c.ipv4 => Lost(e, O, h) = {}
    BY <2>1, <2>2
  <2> QED BY <1>1, <1>4, <1>6, <2>3, <2>4 DEF Accounted
<1> QED BY <1>5, <1>6 DEF e

\* A thread that goes on: what it had to close it still has.
LEMMA AccountedGoes ==
  ASSUME NEW c, NEW e, NEW O, NEW h, Accounted(c, O, h), ~ Fresh(e),
         Lost(e, O, h) \subseteq Lost(c, O, h), c.ipv4 => e.ipv4,
         e.pc = "open" => One(O), Full(e, O) => Full(c, O),
         e.socket \in {c.socket, Closed}
  PROVE  Accounted(e, O, h)
<1>1. e.pc = "open" => One(O)
  OBVIOUS
<1>2. Two(O) /\ One(Lost(e, O, h))
  BY DEF Accounted, One
<1>3. ~ e.ipv4 => One(O) /\ Lost(e, O, h) = {}
  BY DEF Accounted
<1>4. Full(e, O) => {e.socket, h} \subseteq O \cup {Closed}
  BY DEF Accounted
<1> QED BY <1>1, <1>2, <1>3, <1>4 DEF Accounted

\* Most of its steps leave the socket as it is.
Running == {"open", "connect", "loop", "read", "greet", "handle", "end"}

LEMMA AccountedRuns ==
  ASSUME NEW c, NEW e, NEW O, NEW h, Accounted(c, O, h), c.pc \in Running,
         e.pc \in Running \ {"open"}, e.socket = c.socket, e.ipv4 = c.ipv4
  PROVE  Accounted(e, O, h)
<1>1. Lost(e, O, h) = Lost(c, O, h)
  BY DEF Lost, Running
<1>2. ~ Fresh(e)
  BY DEF Fresh, Running
<1>3. Full(e, O) => Full(c, O)
  BY DEF Full, Running, One
<1> QED BY <1>1, <1>2, <1>3, AccountedGoes DEF Running

LEMMA AccountedOpens ==
  ASSUME NEW c, NEW e, NEW O, NEW h, Accounted(c, O, h), NEW d, d # Closed, d \notin O,
         c.pc = "open", e.pc = "connect", e.ipv4 = c.ipv4, e.socket = d
  PROVE  Accounted(e, O \cup {d}, h)
<1>1. One(O) /\ ~ Fresh(e)
  BY DEF Accounted, Fresh
<1>2. Two(O \cup {d})
  BY <1>1 DEF One, Two
<1>3. Lost(e, O \cup {d}, h) \subseteq O
  BY DEF Lost
<1>4. CASE c.ipv4
  <2>1. One(Lost(e, O \cup {d}, h))
    BY <1>1, <1>3 DEF One
  <2>2. Full(e, O \cup {d}) => Full(c, O)
    BY <1>4 DEF Full, One
  <2>3. Full(c, O) => h \in O \cup {Closed}
    BY DEF Accounted
  <2> QED BY <1>1, <1>2, <1>4, <2>1, <2>2, <2>3 DEF Accounted
<1>5. CASE ~ c.ipv4
  <2>1. O = {} /\ h = Closed
    BY <1>5 DEF Accounted, Fresh
  <2>2. Lost(e, O \cup {d}, h) = {} /\ One(O \cup {d})
    BY <1>3, <2>1 DEF One
  <2> QED BY <1>1, <1>2, <2>1, <2>2 DEF Accounted, One
<1> QED BY <1>4, <1>5

\* No socket was to be had: the one it opened before, if any, is lost.
LEMMA AccountedFails ==
  ASSUME NEW c, NEW e, NEW O, NEW h, Accounted(c, O, h), c.pc = "open",
         e.pc = "end", e.ipv4 = c.ipv4, e.socket = Closed
  PROVE  Accounted(e, O, h)
<1>1. One(O) /\ (~ c.ipv4 => O = {}) /\ ~ Fresh(e)
  BY DEF Accounted, Fresh
<1>2. Lost(e, O, h) \subseteq O /\ ~ Full(e, O)
  BY <1>1 DEF Lost, Full
<1>3. One(Lost(e, O, h)) /\ (~ e.ipv4 => Lost(e, O, h) = {})
  BY <1>1, <1>2 DEF One
<1> QED BY <1>1, <1>2, <1>3 DEF Accounted, One, Two

\* A connection that starts.
LEMMA AccountedStarts ==
  ASSUME NEW c, NEW e, NEW O, NEW h, Accounted(c, O, h), Fresh(c),
         e.pc \in {"none", "open"}, e.socket = c.socket, e.ipv4 = c.ipv4
  PROVE  Accounted(e, O, h)
<1>1. O = {} /\ c.socket = Closed /\ ~ c.ipv4 /\ h = Closed
  BY DEF Accounted
<1>2. Lost(e, O, h) = {} /\ Two(O) /\ One(O) /\ ~ Full(e, O)
  BY <1>1 DEF Lost, Two, One, Full
<1> QED BY <1>1, <1>2 DEF Accounted, One

-----------------------------------------------------------------------------
(***************************************************************************)
(* What the steps do to all of them.                                       *)
(***************************************************************************)
LEMMA Descriptors == Closed \notin Fd
BY SocketAssumption DEF Closed

LEMMA CloseSome ==
  ASSUME SocketInv, Unlocked, NEW by \in Peer \cup {NoPeer}, NEW T, T \subseteq connectedPeers,
         Closing(by, T), connectedPeers' = connectedPeers
  PROVE  call' \in Calls /\ CallOK' /\ \A p \in Peer : Hand(p)' = Hand(p)
<1>1. call = NoCall
  BY DEF SocketInv, CallOK, Unlocked
<1>2. T \subseteq Peer
  BY DEF connectedPeers
<1>3. CASE T = {}
  <2>1. call' = NoCall
    BY <1>3 DEF Closing
  <2> QED BY <1>1, <2>1 DEF Calls, CallOK, NoCall, Hand
<1>4. CASE T # {}
  <2>1. call' = [step |-> "next", by |-> by, targets |-> T, at |-> NoPeer, held |-> Closed]
    BY <1>4 DEF Closing, NoCall
  <2>2. call' \in Calls
    BY <1>2, <2>1 DEF Calls
  <2>3. CallOK'
    BY <2>1 DEF CallOK
  <2>4. \A p \in Peer : Hand(p)' = Hand(p)
    BY <1>1, <2>1, SocketAssumption DEF Hand, NoCall
  <2> QED BY <2>2, <2>3, <2>4
<1> QED BY <1>3, <1>4

LEMMA SameCall ==
  ASSUME SocketInv, call' = call, connectedPeers' = connectedPeers
  PROVE  call' \in Calls /\ CallOK' /\ \A p \in Peer : Hand(p)' = Hand(p)
BY DEF SocketInv, Shapes, CallOK, Hand

\* What a step of the thread of p may do to the rest, short of a file.
Around(p) ==
  /\ UNCHANGED <<file, app>>
  /\ call' = call \/ \E T \in SUBSET connectedPeers : Unlocked /\ Closing(p, T)
  /\ download' \in connectedPeers \cup {NoPeer} /\ failures' \in 0..MAX_CONNECT_FAILURES + 1

LEMMA Moves ==
  ASSUME SocketInv, NEW p \in Peer, NEW e \in Connection, peer' = [peer EXCEPT ![p] = e],
         e.link = peer[p].link, Lives(e), Accounted(e, Owned(p), Hand(p)),
         Around(p)
  PROVE  SocketInv'
<1>1. /\ peer' \in [Peer -> Connection] /\ peer'[p] = e
      /\ \A q \in Peer \ {p} : peer'[q] = peer[q]
  <2> HIDE DEF Connection
  <2> QED BY DEF SocketInv, Shapes
<1>2. connectedPeers' = connectedPeers
  BY <1>1 DEF connectedPeers
<1>3. call' \in Calls /\ CallOK' /\ \A q \in Peer : Hand(q)' = Hand(q)
  <2>1. CASE call' = call
    BY <1>2, <2>1, SameCall
  <2>2. CASE \E T \in SUBSET connectedPeers : Unlocked /\ Closing(p, T)
    BY <1>2, <2>2, CloseSome
  <2> QED BY <2>1, <2>2 DEF Around
<1>4. \A q \in Peer : Owned(q)' = Owned(q)
  BY DEF Owned, Around
<1>5. \A q \in Peer : Lives(peer'[q]) /\ Accounted(peer'[q], Owned(q)', Hand(q)')
  <2> SUFFICES ASSUME NEW q \in Peer
               PROVE Lives(peer'[q]) /\ Accounted(peer'[q], Owned(q)', Hand(q)')
    OBVIOUS
  <2>1. CASE q = p
    BY <1>1, <1>3, <1>4, <2>1
  <2>2. CASE q # p
    BY <1>1, <1>3, <1>4, <2>2 DEF SocketInv
  <2> QED BY <2>1, <2>2
<1> QED BY <1>1, <1>2, <1>3, <1>5 DEF SocketInv, Shapes, Around

-----------------------------------------------------------------------------
(***************************************************************************)
(* The call that closes sockets.                                           *)
(***************************************************************************)
LEMMA NextTargetKeeps ==
  ASSUME SocketInv, NextTarget
  PROVE  SocketInv'
<1>1. PICK p \in call.targets :
        LET more == call.targets \ {p}
        IN call' = IF peer[p].socket # Closed
                   THEN [call EXCEPT !.targets = more, !.at = p, !.step = "clear",
                                     !.held = peer[p].socket]
                   ELSE IF more = {} THEN NoCall ELSE [call EXCEPT !.targets = more]
  BY DEF NextTarget
<1>2. /\ call.step = "next" /\ call.at = NoPeer /\ call.held = Closed
      /\ UNCHANGED <<peer, file, app, download, failures>>
  BY DEF NextTarget, SocketInv, CallOK
<1>3. call.targets \subseteq connectedPeers /\ p \in Peer /\ peer[p] \in Connection
  BY DEF SocketInv, CallOK, connectedPeers, Shapes
<1>4. connectedPeers' = connectedPeers /\ \A q \in Peer : Owned(q)' = Owned(q)
  BY <1>2 DEF connectedPeers, Owned
<1>5. ASSUME call' \in Calls, CallOK', NEW q \in Peer, \A r \in Peer \ {q} : Hand(r)' = Hand(r),
             Accounted(peer[q], Owned(q), Hand(q)')
      PROVE  SocketInv'
  BY <1>2, <1>4, <1>5 DEF SocketInv, Shapes
<1>6. CASE peer[p].socket # Closed
  <2>1. call' = [step |-> "clear", by |-> call.by, targets |-> call.targets \ {p},
                 at |-> p, held |-> peer[p].socket]
    BY <1>1, <1>6 DEF SocketInv, Shapes, Calls
  <2>2. call' \in Calls
    BY <1>3, <2>1 DEF Calls, SocketInv, Shapes, Connection
  <2>3. CallOK'
    BY <1>1, <1>3, <1>4, <1>6, <2>1 DEF CallOK, Connection
  <2>4. \A r \in Peer \ {p} : Hand(r)' = Hand(r)
    BY <1>2, <2>1, SocketAssumption DEF Hand
  <2>5. Hand(p) = Closed /\ Hand(p)' = peer[p].socket
    BY <1>2, <1>3, <2>1, SocketAssumption DEF Hand
  <2>6. Accounted(peer[p], Owned(p), peer[p].socket)
    <3>1. Accounted(peer[p], Owned(p), Closed)
      BY <1>3, <2>5 DEF SocketInv
    <3>2. Closed \notin Owned(p)
      BY Descriptors DEF Owned
    <3> QED BY <1>6, <3>1, <3>2, AccountedTakes
  <2> QED BY <1>3, <1>5, <2>2, <2>3, <2>4, <2>5, <2>6
<1>7. CASE peer[p].socket = Closed
  <2>1. \/ call' = NoCall
        \/ call' = [step |-> "next", by |-> call.by, targets |-> call.targets \ {p},
                    at |-> NoPeer, held |-> Closed]
    BY <1>1, <1>2, <1>7 DEF SocketInv, Shapes, Calls
  <2>2. call' \in Calls
    BY <2>1 DEF Calls, SocketInv, Shapes, NoCall
  <2>3. CallOK'
    BY <1>3, <1>4, <2>1 DEF CallOK, NoCall
  <2>4. \A r \in Peer : Hand(r)' = Hand(r)
    BY <1>2, <2>1, SocketAssumption DEF Hand, NoCall
  <2> QED BY <1>3, <1>5, <2>2, <2>3, <2>4 DEF SocketInv
<1> QED BY <1>6, <1>7

LEMMA ClearSocketKeeps ==
  ASSUME SocketInv, ClearSocket
  PROVE  SocketInv'
<1> DEFINE p == call.at
           e == [peer[p] EXCEPT !.socket = Closed]
<1>1. /\ call.step = "clear" /\ peer' = [peer EXCEPT ![p] = e]
      /\ call' = [call EXCEPT !.step = "close"]
      /\ UNCHANGED <<file, app, download, failures>>
  BY DEF ClearSocket
<1>2. p \in Peer /\ call.held \in Fd /\ peer[p] \in Connection /\ p \in connectedPeers
  BY <1>1, SocketAssumption DEF SocketInv, CallOK, Shapes
<1>3. e \in Connection /\ e.link = peer[p].link
  BY <1>2 DEF Connection
<1>4. Lives(e)
  <2>1. Lives(peer[p]) /\ peer[p].link = "live"
    BY <1>2 DEF SocketInv, connectedPeers
  <2> QED BY <1>2, <2>1 DEF Lives, Connection
<1>5. Accounted(e, Owned(p), Hand(p))
  <2>1. Hand(p) = call.held /\ Accounted(peer[p], Owned(p), Hand(p))
    BY <1>2 DEF Hand, SocketInv
  <2>2. Closed \notin Owned(p)
    BY Descriptors DEF Owned
  <2> QED BY <1>2, <2>1, <2>2, AccountedClears
<1> HIDE DEF e
<1>6. /\ peer' \in [Peer -> Connection] /\ peer'[p] = e
      /\ \A q \in Peer \ {p} : peer'[q] = peer[q]
  <2> HIDE DEF Connection, p
  <2> QED BY <1>1, <1>2, <1>3 DEF SocketInv, Shapes
<1>7. connectedPeers' = connectedPeers
  BY <1>2, <1>3, <1>6 DEF connectedPeers
<1>8. /\ call' \in Calls /\ call'.step = "close" /\ call'.at = call.at
      /\ call'.held = call.held /\ call'.targets = call.targets
  BY <1>1 DEF SocketInv, Shapes, Calls
<1>9. CallOK' /\ \A q \in Peer : Hand(q)' = Hand(q) /\ Owned(q)' = Owned(q)
  BY <1>1, <1>2, <1>7, <1>8 DEF CallOK, SocketInv, Hand, Owned
<1>10. \A q \in Peer : Lives(peer'[q]) /\ Accounted(peer'[q], Owned(q)', Hand(q)')
  <2> SUFFICES ASSUME NEW q \in Peer
               PROVE Lives(peer'[q]) /\ Accounted(peer'[q], Owned(q)', Hand(q)')
    OBVIOUS
  <2>1. CASE q = p
    BY <1>4, <1>5, <1>6, <1>9, <2>1
  <2>2. CASE q # p
    BY <1>6, <1>9, <2>2 DEF SocketInv
  <2> QED BY <2>1, <2>2
<1> QED BY <1>1, <1>6, <1>7, <1>8, <1>9, <1>10 DEF SocketInv, Shapes

LEMMA CloseSocketKeeps ==
  ASSUME SocketInv, CloseSocket
  PROVE  SocketInv'
<1> DEFINE p == call.at
           d == call.held
<1>1. /\ call.step = "close" /\ file' = [file EXCEPT ![d] = NoPeer]
      /\ call' = IF call.targets = {} THEN NoCall
                 ELSE [call EXCEPT !.step = "next", !.at = NoPeer, !.held = Closed]
      /\ UNCHANGED <<peer, app, download, failures>>
  BY DEF CloseSocket
<1>2. p \in Peer /\ d \in Fd /\ call.targets \subseteq connectedPeers
  BY <1>1 DEF SocketInv, CallOK
<1>3. \A q \in Peer : Owned(q)' = Owned(q) \ {d}
  BY <1>1, <1>2, SocketAssumption DEF SocketInv, Shapes, Owned
<1>4. connectedPeers' = connectedPeers
  BY <1>1 DEF connectedPeers
<1>5. \/ call' = NoCall
      \/ call' = [step |-> "next", by |-> call.by, targets |-> call.targets,
                  at |-> NoPeer, held |-> Closed]
  BY <1>1 DEF SocketInv, Shapes, Calls
<1>6. call' \in Calls /\ CallOK' /\ \A q \in Peer : Hand(q)' = Closed
  BY <1>2, <1>4, <1>5 DEF Calls, SocketInv, Shapes, NoCall, CallOK, Hand
<1>7. \A q \in Peer : Accounted(peer[q], Owned(q) \ {d}, Closed)
  <2> SUFFICES ASSUME NEW q \in Peer PROVE Accounted(peer[q], Owned(q) \ {d}, Closed)
    OBVIOUS
  <2>1. Accounted(peer[q], Owned(q), Hand(q))
    BY DEF SocketInv
  <2>2. CASE q = p
    BY <2>1, <2>2, AccountedDrops DEF Hand
  <2>3. CASE q # p
    BY <2>1, <2>3, AccountedCloses DEF Hand
  <2> QED BY <2>2, <2>3
<1>8. file' \in [Fd -> Peer \cup {NoPeer}]
  BY <1>1 DEF SocketInv, Shapes
<1> QED BY <1>1, <1>3, <1>4, <1>6, <1>7, <1>8 DEF SocketInv, Shapes

-----------------------------------------------------------------------------
(***************************************************************************)
(* The manager connects: connections without a thread get one.             *)
(***************************************************************************)
Starts(c, e) ==
  /\ c.pc = "none" /\ c.link # "freed" /\ e.pc \in {"none", "open"} /\ e.link = "live"
  /\ e.socket = c.socket /\ e.ipv4 = c.ipv4

LEMMA BRPeerConnectStarts ==
  ASSUME NEW c \in Connection, Lives(c), c.link = "none" \/ (c.link = "live" /\ c.status = "connecting"),
         NEW reachable, NEW created,
         NEW e, e = BRPeerConnect([c EXCEPT !.link = "live"], reachable, created)
  PROVE  e = c \/ (Starts(c, e) /\ e \in Connection /\ Lives(e))
<1> DEFINE l == [c EXCEPT !.link = "live"]
<1>1. l \in Connection /\ l.link = "live" /\ l.pc = c.pc /\ l.threads = c.threads
  BY DEF Connection
<1>2. c.link = "none" => c.pc = "none" /\ c.status = "disconnected" /\ ~ c.waiting
  BY DEF Lives, NewPeer
<1>3. CASE l.status # "disconnected" /\ ~ l.waiting
  <2>1. c.link = "live" /\ e = l
    BY <1>2, <1>3 DEF BRPeerConnect, Connection
  <2> QED BY <2>1 DEF Connection
<1>4. CASE ~ (l.status # "disconnected" /\ ~ l.waiting)
  <2>1. c.pc = "none" /\ c.link # "freed" /\ c.threads = 0
    BY <1>2, <1>4 DEF Lives, Connection
  <2>2. l.threads + 1 = 1
    BY <1>1, <2>1
  <2>3. \/ e = [l EXCEPT !.status = "connecting", !.waiting = TRUE]
        \/ e = [[l EXCEPT !.status = "connecting"] EXCEPT
                  !.waiting = FALSE, !.pc = "open", !.threads = 1]
        \/ e = [[l EXCEPT !.status = "connecting"] EXCEPT
                  !.waiting = FALSE, !.status = "disconnected"]
    <3> DEFINE y == [l EXCEPT !.status = "connecting"]
    <3>1. e = IF reachable THEN Start(y, created)
              ELSE [l EXCEPT !.status = "connecting", !.waiting = TRUE]
      BY <1>4 DEF BRPeerConnect
    <3>2. y.threads = 0
      BY <1>1, <2>1 DEF Connection
    <3> HIDE DEF y
    <3>3. Start(y, created) \in {[y EXCEPT !.waiting = FALSE, !.pc = "open", !.threads = 1],
                                [y EXCEPT !.waiting = FALSE, !.status = "disconnected"]}
      BY <3>2 DEF Start
    <3> QED BY <3>1, <3>3 DEF y
  <2> HIDE DEF l
  <2>4. e \in Connection
    <3>1. [l EXCEPT !.status = "connecting"] \in Connection
      BY <1>1 DEF Connection
    <3>2. \A y \in Connection : [y EXCEPT !.waiting = FALSE, !.pc = "open", !.threads = 1] \in Connection
      BY DEF Connection, Places
    <3>3. \A y \in Connection : [y EXCEPT !.waiting = FALSE, !.status = "disconnected"] \in Connection
      BY DEF Connection
    <3>4. [l EXCEPT !.status = "connecting", !.waiting = TRUE] \in Connection
      BY <1>1 DEF Connection
    <3> QED BY <2>3, <3>1, <3>2, <3>3, <3>4
  <2>5. e.link = l.link /\ e.socket = l.socket /\ e.ipv4 = l.ipv4
    BY <1>1, <2>3 DEF Connection
  <2>6. \/ e.pc = l.pc /\ e.threads = l.threads
        \/ e.pc = "open" /\ e.threads = 1 /\ ~ e.waiting
    <3>1. ASSUME e = [[l EXCEPT !.status = "connecting"] EXCEPT
                        !.waiting = FALSE, !.pc = "open", !.threads = 1]
          PROVE  e.pc = "open" /\ e.threads = 1 /\ ~ e.waiting
      BY <1>1, <3>1 DEF Connection
    <3>2. ASSUME e # [[l EXCEPT !.status = "connecting"] EXCEPT
                        !.waiting = FALSE, !.pc = "open", !.threads = 1]
          PROVE  e.pc = l.pc /\ e.threads = l.threads
      BY <1>1, <2>3, <3>2 DEF Connection
    <3> QED BY <3>1, <3>2
  <2>7. l.socket = c.socket /\ l.ipv4 = c.ipv4
    BY DEF l, Connection
  <2>8. Starts(c, e)
    BY <1>1, <2>1, <2>5, <2>6, <2>7 DEF Starts
  <2>9. Lives(e)
    BY <1>1, <2>1, <2>5, <2>6 DEF Lives
  <2> QED BY <2>4, <2>8, <2>9
<1> QED BY <1>3, <1>4

LEMMA ConnectKeeps ==
  ASSUME SocketInv, NEW ps \in [Peer -> Connection], ManagerConnect(ps),
         \A p \in Peer : Lives(ps[p]) /\ Accounted(ps[p], Owned(p), Hand(p)),
         {p \in Peer : ps[p].link = "live"} = connectedPeers,
         UNCHANGED <<file, call, download>>, app' \in {"idle", "waiting", "rescan"},
         failures' \in 0..MAX_CONNECT_FAILURES + 1
  PROVE  SocketInv'
<1>1. \A p \in Peer :
        \/ peer'[p] = ps[p]
        \/ Starts(ps[p], peer'[p]) /\ peer'[p] \in Connection /\ Lives(peer'[p])
  <2> SUFFICES ASSUME NEW p \in Peer
               PROVE \/ peer'[p] = ps[p]
                     \/ Starts(ps[p], peer'[p]) /\ peer'[p] \in Connection /\ Lives(peer'[p])
    OBVIOUS
  <2> HIDE DEF Connection
  <2>1. PICK new \in SUBSET {q \in Peer : ps[q].link = "none"}, reachable, created \in BOOLEAN :
          peer' = [q \in Peer |->
                     IF q \notin new \cup {r \in {v \in Peer : ps[v].link = "live"} :
                                           ps[r].status = "connecting"} THEN ps[q]
                     ELSE BRPeerConnect([ps[q] EXCEPT !.link = "live"], reachable, created)]
    BY DEF ManagerConnect
  <2>2. \/ peer'[p] = ps[p]
        \/ /\ ps[p].link = "none" \/ (ps[p].link = "live" /\ ps[p].status = "connecting")
           /\ peer'[p] = BRPeerConnect([ps[p] EXCEPT !.link = "live"], reachable, created)
    <3> DEFINE tried == new \cup {r \in {v \in Peer : ps[v].link = "live"} :
                                     ps[r].status = "connecting"}
               start == BRPeerConnect([ps[p] EXCEPT !.link = "live"], reachable, created)
    <3>1. peer'[p] = IF p \notin tried THEN ps[p] ELSE start
      BY <2>1
    <3>2. p \in tried => ps[p].link = "none" \/ (ps[p].link = "live" /\ ps[p].status = "connecting")
      OBVIOUS
    <3> HIDE DEF tried, start
    <3>3. peer'[p] = ps[p] \/ (p \in tried /\ peer'[p] = start)
      BY <3>1
    <3> QED BY <3>2, <3>3 DEF start
  <2> QED BY <2>2, BRPeerConnectStarts
<1>2. peer' \in [Peer -> Connection]
  <2>1. PICK f : peer' = [p \in Peer |-> f[p]]
    <3>1. PICK new \in SUBSET {p \in Peer : ps[p].link = "none"}, reachable, created \in BOOLEAN :
            LET live == {p \in Peer : ps[p].link = "live"}
                tried == new \cup {p \in live : ps[p].status = "connecting"}
            IN peer' = [p \in Peer |->
                          IF p \notin tried THEN ps[p]
                          ELSE BRPeerConnect([ps[p] EXCEPT !.link = "live"], reachable, created)]
      BY DEF ManagerConnect
    <3>2. peer' = [p \in Peer |-> peer'[p]]
      BY <3>1
    <3> QED BY <3>2
  <2> HIDE DEF Connection
  <2> QED BY <1>1, <2>1
<1>3. connectedPeers \subseteq connectedPeers'
  BY <1>1 DEF connectedPeers, Starts
<1>4. CallOK' /\ \A p \in Peer : Hand(p)' = Hand(p) /\ Owned(p)' = Owned(p)
  BY <1>3 DEF SocketInv, CallOK, Hand, Owned
<1>5. \A p \in Peer : Lives(peer'[p]) /\ Accounted(peer'[p], Owned(p), Hand(p))
  <2> SUFFICES ASSUME NEW p \in Peer
               PROVE Lives(peer'[p]) /\ Accounted(peer'[p], Owned(p), Hand(p))
    OBVIOUS
  <2>1. CASE peer'[p] = ps[p]
    BY <2>1
  <2>2. CASE Starts(ps[p], peer'[p]) /\ Lives(peer'[p])
    <3>1. Fresh(ps[p])
      BY <2>2 DEF Fresh, Starts
    <3> QED BY <2>2, <3>1, AccountedStarts DEF Starts
  <2> QED BY <1>1, <2>1, <2>2
<1> QED BY <1>2, <1>3, <1>4, <1>5 DEF SocketInv, Shapes

LEMMA RetryFits ==
  ASSUME NEW n \in 0..MAX_CONNECT_FAILURES + 1
  PROVE  Retry(n) \in 0..MAX_CONNECT_FAILURES + 1
BY SocketAssumption DEF Retry

\* What the application calls.
LEMMA AppKeeps ==
  ASSUME SocketInv,
         BRPeerManagerConnect \/ BRPeerManagerDisconnect \/ DisconnectDone \/ BRPeerManagerRescan
  PROVE  SocketInv'
<1>1. CASE BRPeerManagerConnect
  <2>1. /\ ManagerConnect(peer) /\ peer \in [Peer -> Connection]
        /\ failures' \in 0..MAX_CONNECT_FAILURES + 1
    BY <1>1, RetryFits DEF BRPeerManagerConnect, SocketInv, Shapes
  <2>2. app' \in {"idle", "waiting", "rescan"} /\ UNCHANGED <<file, call, download>>
    BY <1>1 DEF BRPeerManagerConnect
  <2>3. \A p \in Peer : Lives(peer[p]) /\ Accounted(peer[p], Owned(p), Hand(p))
    BY DEF SocketInv
  <2> QED BY <2>1, <2>2, <2>3, ConnectKeeps DEF connectedPeers
<1>2. ASSUME UNCHANGED <<peer, file, download>>, app' \in {"idle", "waiting", "rescan"},
             failures' \in 0..MAX_CONNECT_FAILURES + 1,
             \/ call' = call
             \/ \E T \in SUBSET connectedPeers : Unlocked /\ Closing(NoPeer, T)
      PROVE  SocketInv'
  <2>1. connectedPeers' = connectedPeers /\ \A p \in Peer : Owned(p)' = Owned(p)
    BY <1>2 DEF connectedPeers, Owned
  <2>2. call' \in Calls /\ CallOK' /\ \A p \in Peer : Hand(p)' = Hand(p)
    <3>1. CASE call' = call
      BY <2>1, <3>1, SameCall
    <3>2. CASE \E T \in SUBSET connectedPeers : Unlocked /\ Closing(NoPeer, T)
      BY <2>1, <3>2, CloseSome
    <3> QED BY <1>2, <3>1, <3>2
  <2> QED BY <1>2, <2>1, <2>2 DEF SocketInv, Shapes
<1>3. CASE BRPeerManagerDisconnect
  BY <1>2, <1>3, SocketAssumption DEF BRPeerManagerDisconnect, SocketInv, Shapes
<1>4. CASE DisconnectDone
  BY <1>2, <1>4 DEF DisconnectDone, SocketInv, Shapes
<1>5. CASE BRPeerManagerRescan
  <2>1. {download} \in SUBSET connectedPeers
    BY <1>5 DEF BRPeerManagerRescan, SocketInv, Shapes
  <2> QED BY <1>2, <1>5, <2>1 DEF BRPeerManagerRescan, SocketInv, Shapes
<1> QED BY <1>1, <1>3, <1>4, <1>5

-----------------------------------------------------------------------------
(***************************************************************************)
(* The threads.                                                            *)
(***************************************************************************)

\* A running thread that changes its place, its status and its copy.
LEMMA RunsKeeps ==
  ASSUME SocketInv, NEW p \in Peer, peer[p].pc \in Running,
         NEW pc \in Running \ {"open"}, NEW status \in {"disconnected", "connecting", "connected"},
         NEW held \in Fd \cup {Closed},
         peer' = [peer EXCEPT ![p] = [peer[p] EXCEPT !.pc = pc, !.status = status, !.held = held]],
         Around(p)
  PROVE  SocketInv'
<1> DEFINE c == peer[p]
           e == [c EXCEPT !.pc = pc, !.status = status, !.held = held]
<1>1. c \in Connection /\ Lives(c) /\ Accounted(c, Owned(p), Hand(p))
  BY DEF SocketInv, Shapes
<1>2. e \in Connection
  BY <1>1 DEF Connection, Places, Running
<1>3. /\ e.pc = pc /\ e.socket = c.socket /\ e.ipv4 = c.ipv4 /\ e.link = c.link
      /\ e.threads = c.threads /\ e.waiting = c.waiting
  BY <1>1 DEF Connection
<1>4. peer' = [peer EXCEPT ![p] = e]
  OBVIOUS
<1> HIDE DEF e
<1>5. Lives(e)
  <2>1. c.link = "live" /\ c.threads = 1 /\ ~ c.waiting
    BY <1>1 DEF Lives, Running
  <2> QED BY <1>3, <2>1 DEF Lives, Running
<1>6. Accounted(e, Owned(p), Hand(p))
  BY <1>1, <1>3, AccountedRuns
<1> QED BY <1>2, <1>3, <1>4, <1>5, <1>6, Moves

LEMMA PlaceKeeps ==
  ASSUME SocketInv, NEW p \in Peer, peer[p].pc \in Running, NEW pc \in Running \ {"open"},
         peer' = [peer EXCEPT ![p].pc = pc], Around(p)
  PROVE  SocketInv'
<1> DEFINE c == peer[p]
<1>1. c \in Connection
  BY DEF SocketInv, Shapes
<1>2. [c EXCEPT !.pc = pc] = [c EXCEPT !.pc = pc, !.status = c.status, !.held = c.held]
  BY <1>1 DEF Connection
<1>3. c.status \in {"disconnected", "connecting", "connected"} /\ c.held \in Fd \cup {Closed}
  BY <1>1 DEF Connection
<1>4. peer' = [peer EXCEPT ![p] = [c EXCEPT !.pc = pc, !.status = c.status, !.held = c.held]]
  BY <1>2
<1> QED BY <1>3, <1>4, RunsKeeps

LEMMA OpenSocketKeeps ==
  ASSUME SocketInv, NEW p \in Peer, OpenSocket(p)
  PROVE  SocketInv'
<1> DEFINE c == peer[p]
           d == Min(Free)
<1>1. c \in Connection /\ Lives(c) /\ Accounted(c, Owned(p), Hand(p)) /\ c.pc = "open"
  BY DEF SocketInv, Shapes, OpenSocket, At
<1>2. UNCHANGED <<call, app, download, failures>>
  BY DEF OpenSocket
<1>3. CASE Free = {}
  <2> DEFINE e == [c EXCEPT !.socket = Closed, !.pc = "end"]
  <2>1. peer' = [peer EXCEPT ![p] = e] /\ UNCHANGED file
    BY <1>3 DEF OpenSocket
  <2>2. Around(p)
    BY <1>2, <2>1 DEF Around, SocketInv, Shapes, connectedPeers
  <2>3. e \in Connection
    BY <1>1 DEF Connection, Places
  <2>4. /\ e.pc = "end" /\ e.socket = Closed /\ e.ipv4 = c.ipv4 /\ e.link = c.link
        /\ e.threads = c.threads /\ e.waiting = c.waiting
    BY <1>1 DEF Connection
  <2> HIDE DEF e
  <2>5. Lives(e)
    <3>1. c.link = "live" /\ c.threads = 1 /\ ~ c.waiting
      BY <1>1 DEF Lives
    <3> QED BY <2>4, <3>1 DEF Lives
  <2>6. Accounted(e, Owned(p), Hand(p))
    BY <1>1, <2>4, AccountedFails
  <2> QED BY <2>1, <2>2, <2>3, <2>4, <2>5, <2>6, Moves
<1>4. CASE Free # {}
  <2> DEFINE e == [c EXCEPT !.socket = d, !.pc = "connect"]
  <2>1. peer' = [peer EXCEPT ![p] = e] /\ file' = [file EXCEPT ![d] = p]
    BY <1>4 DEF OpenSocket
  <2>2. d \in Fd /\ file[d] = NoPeer
    <3>1. Free \subseteq Nat
      BY SocketAssumption DEF Free
    <3>2. d \in Free
      BY <1>4, <3>1, LeastNat
    <3> QED BY <3>2 DEF Free
  <2> HIDE DEF d
  <2>3. e \in Connection
    BY <1>1, <2>2 DEF Connection, Places
  <2>4. /\ e.pc = "connect" /\ e.socket = d /\ e.ipv4 = c.ipv4 /\ e.link = c.link
        /\ e.threads = c.threads /\ e.waiting = c.waiting
    BY <1>1 DEF Connection
  <2> HIDE DEF e
  <2>5. Lives(e)
    <3>1. c.link = "live" /\ c.threads = 1 /\ ~ c.waiting
      BY <1>1 DEF Lives
    <3> QED BY <2>4, <3>1 DEF Lives
  <2>6. /\ Owned(p)' = Owned(p) \cup {d} /\ d \notin Owned(p)
        /\ \A q \in Peer \ {p} : Owned(q)' = Owned(q)
    BY <2>1, <2>2, SocketAssumption DEF SocketInv, Shapes, Owned
  <2>7. Accounted(e, Owned(p) \cup {d}, Hand(p))
    BY <1>1, <2>2, <2>4, <2>6, Descriptors, AccountedOpens
  <2>8. /\ peer' \in [Peer -> Connection] /\ peer'[p] = e
        /\ \A q \in Peer \ {p} : peer'[q] = peer[q]
    <3> HIDE DEF Connection
    <3> QED BY <2>1, <2>3 DEF SocketInv, Shapes
  <2>9. connectedPeers' = connectedPeers
    BY <2>4, <2>8 DEF connectedPeers
  <2>10. call' \in Calls /\ CallOK' /\ \A q \in Peer : Hand(q)' = Hand(q)
    BY <1>2, <2>9, SameCall
  <2>11. \A q \in Peer : Lives(peer'[q]) /\ Accounted(peer'[q], Owned(q)', Hand(q)')
    <3> SUFFICES ASSUME NEW q \in Peer
                 PROVE Lives(peer'[q]) /\ Accounted(peer'[q], Owned(q)', Hand(q)')
      OBVIOUS
    <3>1. CASE q = p
      BY <2>5, <2>6, <2>7, <2>8, <2>10, <3>1
    <3>2. CASE q # p
      BY <2>6, <2>8, <2>10, <3>2 DEF SocketInv
    <3> QED BY <3>1, <3>2
  <2>12. file' \in [Fd -> Peer \cup {NoPeer}]
    BY <2>1, <2>2 DEF SocketInv, Shapes
  <2> QED BY <1>2, <2>8, <2>9, <2>10, <2>11, <2>12 DEF SocketInv, Shapes
<1> QED BY <1>3, <1>4

LEMMA ThreadRuns ==
  ASSUME SocketInv, NEW p \in Peer,
         \/ SocketConnects(p) \/ Loop(p) \/ Read(p) \/ PeerConnected(p) \/ Handle(p)
  PROVE  SocketInv'
<1> DEFINE c == peer[p]
<1>1. c \in Connection /\ Lives(c) /\ Accounted(c, Owned(p), Hand(p))
  BY DEF SocketInv, Shapes
<1>2. /\ c.status \in {"disconnected", "connecting", "connected"}
      /\ c.held \in Fd \cup {Closed} /\ c.socket \in Fd \cup {Closed}
  BY <1>1 DEF Connection
<1>3. /\ download \in connectedPeers \cup {NoPeer} /\ failures \in 0..MAX_CONNECT_FAILURES + 1
      /\ 0 \in 0..MAX_CONNECT_FAILURES + 1 /\ peer \in [Peer -> Connection]
  BY SocketAssumption DEF SocketInv, Shapes
<1>4. UNCHANGED <<file, app, call, download, failures>> => Around(p)
  BY <1>3 DEF Around
<1>5. CASE SocketConnects(p)
  <2>1. c.pc = "connect" /\ Around(p)
    BY <1>4, <1>5 DEF SocketConnects, At
  <2>2. CASE peer' = [peer EXCEPT ![p].pc = "loop"]
    BY <2>1, <2>2, PlaceKeeps DEF Running
  <2>3. CASE peer' = [peer EXCEPT ![p].pc = "end"]
    BY <2>1, <2>3, PlaceKeeps DEF Running
  <2>4. CASE ~ c.ipv4 /\ peer' = [peer EXCEPT ![p].pc = "open", ![p].ipv4 = TRUE]
    <3> DEFINE e == [c EXCEPT !.pc = "open", !.ipv4 = TRUE]
    <3>1. e \in Connection
      BY <1>1 DEF Connection, Places
    <3>2. /\ e.pc = "open" /\ e.socket = c.socket /\ e.ipv4 /\ e.link = c.link /\ e.held = c.held
          /\ e.threads = c.threads /\ e.waiting = c.waiting
      BY <1>1 DEF Connection
    <3>3. peer' = [peer EXCEPT ![p] = e]
      BY <2>4
    <3> HIDE DEF e
    <3>4. Lives(e)
      BY <1>1, <2>1, <3>2 DEF Lives
    <3>5. Accounted(e, Owned(p), Hand(p))
      <4>1. Lost(e, Owned(p), Hand(p)) = Lost(c, Owned(p), Hand(p))
        BY <2>1, <3>2 DEF Lost
      <4>2. One(Owned(p)) /\ ~ Fresh(e)
        BY <1>1, <2>4, <3>2 DEF Accounted, Fresh
      <4>3. Full(e, Owned(p)) => Full(c, Owned(p))
        BY <2>1, <2>4, <3>2 DEF Full
      <4> QED BY <1>1, <3>2, <4>1, <4>2, <4>3, AccountedGoes
    <3> QED BY <2>1, <3>1, <3>2, <3>3, <3>4, <3>5, Moves
  <2> QED BY <1>5, <2>2, <2>3, <2>4 DEF SocketConnects
<1>6. CASE Loop(p)
  <2>1. c.pc = "loop" /\ Around(p)
    BY <1>4, <1>6 DEF Loop, At
  <2>2. PICK pc \in {"end", "read"} : peer' = [peer EXCEPT ![p].held = c.socket, ![p].pc = pc]
    BY <1>6 DEF Loop
  <2>3. [c EXCEPT !.held = c.socket, !.pc = pc]
          = [c EXCEPT !.pc = pc, !.status = c.status, !.held = c.socket]
    BY <1>1 DEF Connection
  <2>4. peer' = [peer EXCEPT ![p] = [c EXCEPT !.pc = pc, !.status = c.status, !.held = c.socket]]
    BY <2>2, <2>3
  <2>5. pc \in Running \ {"open"} /\ c.pc \in Running
    BY <2>1 DEF Running
  <2> QED BY <1>2, <2>1, <2>4, <2>5, RunsKeeps
<1>7. CASE Read(p)
  <2>1. c.pc = "read" /\ Around(p)
    BY <1>4, <1>7 DEF Read, At
  <2>2. ASSUME NEW pc \in {"end", "loop", "handle"}, peer' = [peer EXCEPT ![p].pc = pc]
        PROVE  SocketInv'
    BY <2>1, <2>2, PlaceKeeps DEF Running
  <2>3. CASE peer' = [peer EXCEPT ![p].status = "connected", ![p].pc = "greet"]
    <3>1. [c EXCEPT !.status = "connected", !.pc = "greet"]
            = [c EXCEPT !.pc = "greet", !.status = "connected", !.held = c.held]
      BY <1>1 DEF Connection
    <3>2. peer' = [peer EXCEPT ![p] =
                     [c EXCEPT !.pc = "greet", !.status = "connected", !.held = c.held]]
      BY <2>3, <3>1
    <3>3. "greet" \in Running \ {"open"} /\ c.pc \in Running
      BY <2>1 DEF Running
    <3> QED BY <1>2, <2>1, <3>2, <3>3, RunsKeeps
  <2> QED BY <1>7, <2>2, <2>3 DEF Read
<1>8. CASE PeerConnected(p)
  <2>1. /\ c.pc = "greet" /\ UNCHANGED <<file, app>> /\ Unlocked
        /\ peer' = [peer EXCEPT ![p].pc = "loop"]
    BY <1>8 DEF PeerConnected, At
  <2>2. call' = call \/ \E T \in SUBSET connectedPeers : Unlocked /\ Closing(p, T)
    <3>1. {p} \in SUBSET connectedPeers
      BY <1>1, <2>1 DEF Lives, connectedPeers
    <3>2. {download} \ {NoPeer} \in SUBSET connectedPeers
      BY <1>3
    <3>3. Unlocked => call = NoCall
      BY DEF SocketInv, CallOK, Unlocked
    <3> QED BY <1>8, <2>1, <3>1, <3>2, <3>3 DEF PeerConnected
  <2>3. download' \in connectedPeers \cup {NoPeer} /\ failures' \in 0..MAX_CONNECT_FAILURES + 1
    BY <1>3, <1>8 DEF PeerConnected
  <2>4. Around(p)
    BY <2>1, <2>2, <2>3 DEF Around
  <2> QED BY <2>1, <2>4, PlaceKeeps DEF Running
<1>9. CASE Handle(p)
  <2>1. /\ c.pc = "handle" /\ UNCHANGED <<file, app, download>> /\ Unlocked
        /\ peer' = [peer EXCEPT ![p].pc = "loop"]
    BY <1>9 DEF Handle, At
  <2>2. call' = call \/ \E T \in SUBSET connectedPeers : Unlocked /\ Closing(p, T)
    <3>1. {p} \in SUBSET connectedPeers
      BY <1>1, <2>1 DEF Lives, connectedPeers
    <3> QED BY <1>9, <2>1, <3>1 DEF Handle
  <2>3. failures' \in 0..MAX_CONNECT_FAILURES + 1
    BY <1>3, <1>9 DEF Handle
  <2>4. Around(p)
    BY <1>3, <2>1, <2>2, <2>3 DEF Around
  <2> QED BY <2>1, <2>4, PlaceKeeps DEF Running
<1> QED BY <1>5, <1>6, <1>7, <1>8, <1>9

\* The end of the thread: the last copy of the socket, cleared and closed.
LEMMA ThreadEnds ==
  ASSUME SocketInv, NEW p \in Peer, TakeSocket(p) \/ EndClears(p)
  PROVE  SocketInv'
<1> DEFINE c == peer[p]
<1>1. c \in Connection /\ Lives(c) /\ Accounted(c, Owned(p), Hand(p))
  BY DEF SocketInv, Shapes
<1>2. Around(p)
  BY DEF Around, TakeSocket, EndClears, SocketInv, Shapes
<1>3. CASE TakeSocket(p)
  <2> DEFINE e == [c EXCEPT !.held = c.socket, !.pc = "clear"]
  <2>1. c.pc = "end" /\ peer' = [peer EXCEPT ![p] = e]
    BY <1>3 DEF TakeSocket, At
  <2>2. e \in Connection
    BY <1>1 DEF Connection, Places
  <2>3. /\ e.pc = "clear" /\ e.socket = c.socket /\ e.held = c.socket /\ e.ipv4 = c.ipv4
        /\ e.link = c.link /\ e.threads = c.threads /\ e.waiting = c.waiting
    BY <1>1 DEF Connection
  <2> HIDE DEF e
  <2>4. Lives(e)
    BY <1>1, <2>1, <2>3 DEF Lives
  <2>5. Accounted(e, Owned(p), Hand(p))
    <3>1. Lost(e, Owned(p), Hand(p)) \subseteq Lost(c, Owned(p), Hand(p))
      BY <2>1, <2>3 DEF Lost
    <3>2. ~ Fresh(e) /\ (Full(e, Owned(p)) => Full(c, Owned(p)))
      BY <2>1, <2>3 DEF Fresh, Full
    <3> QED BY <1>1, <2>3, <3>1, <3>2, AccountedGoes
  <2> QED BY <1>2, <2>1, <2>2, <2>3, <2>4, <2>5, Moves
<1>4. CASE EndClears(p)
  <2> DEFINE e == [c EXCEPT !.socket = Closed, !.status = "disconnected", !.pc = "close"]
  <2>1. c.pc = "clear" /\ peer' = [peer EXCEPT ![p] = e]
    BY <1>4 DEF EndClears, At
  <2>2. e \in Connection
    BY <1>1 DEF Connection, Places
  <2>3. /\ e.pc = "close" /\ e.socket = Closed /\ e.held = c.held /\ e.ipv4 = c.ipv4
        /\ e.link = c.link /\ e.threads = c.threads /\ e.waiting = c.waiting
    BY <1>1 DEF Connection
  <2> HIDE DEF e
  <2>4. Lives(e)
    BY <1>1, <2>1, <2>3 DEF Lives
  <2>5. Accounted(e, Owned(p), Hand(p))
    <3>1. c.socket \in {c.held, Closed} /\ Closed \notin Owned(p)
      BY <1>1, <2>1, Descriptors DEF Lives, Owned
    <3>2. Lost(e, Owned(p), Hand(p)) \subseteq Lost(c, Owned(p), Hand(p))
      BY <2>1, <2>3, <3>1 DEF Lost
    <3>3. ~ Fresh(e) /\ (Full(e, Owned(p)) => Full(c, Owned(p)))
      BY <2>1, <2>3 DEF Fresh, Full
    <3> QED BY <1>1, <2>3, <3>2, <3>3, AccountedGoes
  <2> QED BY <1>2, <2>1, <2>2, <2>3, <2>4, <2>5, Moves
<1> QED BY <1>3, <1>4

LEMMA EndClosesKeeps ==
  ASSUME SocketInv, NEW p \in Peer, EndCloses(p)
  PROVE  SocketInv'
<1> DEFINE c == peer[p]
           d == c.held
           e == [c EXCEPT !.held = Closed, !.pc = "tell"]
<1>1. c \in Connection /\ Lives(c) /\ Accounted(c, Owned(p), Hand(p)) /\ c.pc = "close"
  BY DEF SocketInv, Shapes, EndCloses, At
<1>2. /\ file' = IF d = Closed THEN file ELSE [file EXCEPT ![d] = NoPeer]
      /\ peer' = [peer EXCEPT ![p] = e] /\ UNCHANGED <<call, app, download, failures>>
  BY DEF EndCloses
<1>3. d \in Fd \cup {Closed} /\ e \in Connection
  BY <1>1 DEF Connection, Places
<1>4. /\ e.pc = "tell" /\ e.socket = c.socket /\ e.held = Closed /\ e.ipv4 = c.ipv4
      /\ e.link = c.link /\ e.threads = c.threads /\ e.waiting = c.waiting
  BY <1>1 DEF Connection
<1>5. /\ \A q \in Peer : Owned(q)' = Owned(q) \ {d}
      /\ file' \in [Fd -> Peer \cup {NoPeer}]
  <2> HIDE DEF d
  <2>1. CASE d = Closed
    BY <1>2, <2>1, Descriptors DEF Owned, SocketInv, Shapes
  <2>2. CASE d # Closed
    BY <1>2, <1>3, <2>2, SocketAssumption DEF Owned, SocketInv, Shapes
  <2> QED BY <2>1, <2>2
<1> HIDE DEF e
<1>6. Lives(e)
  BY <1>1, <1>4 DEF Lives
<1>7. Accounted(e, Owned(p) \ {d}, Hand(p))
  <2> DEFINE O == Owned(p) \ {d}
             h == Hand(p)
  <2>1. Accounted(c, O, h)
    BY <1>1, AccountedCloses
  <2>2. Lost(e, O, h) \subseteq Lost(c, O, h)
    BY <1>4 DEF Lost
  <2>3. ~ Fresh(e) /\ (Full(e, O) => Full(c, O))
    BY <1>1, <1>4 DEF Fresh, Full
  <2> HIDE DEF O, h
  <2>4. Accounted(e, O, h)
    BY <1>4, <2>1, <2>2, <2>3, AccountedGoes
  <2> QED BY <2>4 DEF O, h
<1>8. /\ peer' \in [Peer -> Connection] /\ peer'[p] = e
      /\ \A q \in Peer \ {p} : peer'[q] = peer[q]
  <2> HIDE DEF Connection
  <2> QED BY <1>2, <1>3 DEF SocketInv, Shapes
<1>9. connectedPeers' = connectedPeers
  BY <1>4, <1>8 DEF connectedPeers
<1>10. call' \in Calls /\ CallOK' /\ \A q \in Peer : Hand(q)' = Hand(q)
  BY <1>2, <1>9, SameCall
<1>11. \A q \in Peer : Lives(peer'[q]) /\ Accounted(peer'[q], Owned(q)', Hand(q)')
  <2> SUFFICES ASSUME NEW q \in Peer
               PROVE Lives(peer'[q]) /\ Accounted(peer'[q], Owned(q)', Hand(q)')
    OBVIOUS
  <2>1. CASE q = p
    BY <1>5, <1>6, <1>7, <1>8, <1>10, <2>1
  <2>2. CASE q # p
    <3>1. peer'[q] = peer[q] /\ Owned(q)' = Owned(q) \ {d} /\ Hand(q)' = Hand(q)
      BY <1>5, <1>8, <1>10, <2>2
    <3>2. Lives(peer[q]) /\ Accounted(peer[q], Owned(q) \ {d}, Hand(q))
      BY AccountedCloses DEF SocketInv
    <3> QED BY <3>1, <3>2
  <2> QED BY <2>1, <2>2
<1> QED BY <1>2, <1>5, <1>8, <1>9, <1>10, <1>11 DEF SocketInv, Shapes

\* The connection is freed while no call has its socket.
LEMMA PeerDisconnectedKeeps ==
  ASSUME SocketInv, NEW p \in Peer, PeerDisconnected(p)
  PROVE  SocketInv'
<1> DEFINE c == peer[p]
<1>1. /\ c \in Connection /\ Lives(c) /\ Accounted(c, Owned(p), Hand(p)) /\ c.pc = "tell"
      /\ call = NoCall
  BY DEF SocketInv, Shapes, CallOK, PeerDisconnected, At, Unlocked
<1>2. PICK counted \in BOOLEAN :
        LET n == IF counted THEN failures + 1 ELSE failures
            first == download \in {p, NoPeer}
            m == IF p = download /\ n > MAX_CONNECT_FAILURES THEN MAX_CONNECT_FAILURES ELSE n
            failed == first /\ m = MAX_CONNECT_FAILURES
        IN /\ failures' = Min({m, MAX_CONNECT_FAILURES + 1})
           /\ peer' = [peer EXCEPT ![p].link = "freed", ![p].pc = "leave",
                         ![p].again = ~ failed /\ m < MAX_CONNECT_FAILURES]
  BY DEF PeerDisconnected
<1>3. failures' \in 0..MAX_CONNECT_FAILURES + 1
  <2>1. PICK m \in Nat : failures' = Min({m, MAX_CONNECT_FAILURES + 1})
    <3> DEFINE n == IF counted THEN failures + 1 ELSE failures
               m == IF p = download /\ n > MAX_CONNECT_FAILURES THEN MAX_CONNECT_FAILURES ELSE n
    <3>1. failures' = Min({m, MAX_CONNECT_FAILURES + 1})
      BY <1>2
    <3>2. n \in Nat
      BY SocketAssumption DEF SocketInv, Shapes
    <3>3. m \in Nat
      BY <3>2, SocketAssumption
    <3> QED BY <3>1, <3>3
  <2> DEFINE S == {m, MAX_CONNECT_FAILURES + 1}
  <2>2. S \subseteq Nat /\ S # {} /\ MAX_CONNECT_FAILURES + 1 \in S
    BY SocketAssumption
  <2>3. failures' = Min(S)
    BY <2>1
  <2> HIDE DEF S
  <2>4. failures' \in S /\ failures' <= MAX_CONNECT_FAILURES + 1
    BY <2>2, <2>3, LeastNat
  <2> QED BY <2>2, <2>4, SocketAssumption
<1>4. PICK again \in BOOLEAN :
        peer' = [peer EXCEPT ![p].link = "freed", ![p].pc = "leave", ![p].again = again]
  BY <1>2
<1> DEFINE e == [c EXCEPT !.link = "freed", !.pc = "leave", !.again = again]
<1>5. e \in Connection /\ peer' = [peer EXCEPT ![p] = e]
  BY <1>1, <1>4 DEF Connection, Places
<1>6. /\ e.pc = "leave" /\ e.socket = c.socket /\ e.held = c.held /\ e.ipv4 = c.ipv4
      /\ e.link = "freed" /\ e.threads = c.threads /\ e.waiting = c.waiting
  BY <1>1 DEF Connection
<1> HIDE DEF e
<1>7. Lives(e)
  BY <1>1, <1>6 DEF Lives
<1>8. Accounted(e, Owned(p), Hand(p))
  <2>1. Lost(e, Owned(p), Hand(p)) = Lost(c, Owned(p), Hand(p))
    BY <1>1, <1>6 DEF Lost
  <2>2. ~ Fresh(e) /\ (Full(e, Owned(p)) => Full(c, Owned(p)))
    BY <1>1, <1>6 DEF Fresh, Full
  <2> QED BY <1>1, <1>6, <2>1, <2>2, AccountedGoes
<1>9. /\ peer' \in [Peer -> Connection] /\ peer'[p] = e
      /\ \A q \in Peer \ {p} : peer'[q] = peer[q]
  <2> HIDE DEF Connection
  <2> QED BY <1>5 DEF SocketInv, Shapes
<1>10. connectedPeers' = connectedPeers \ {p}
  BY <1>6, <1>9 DEF connectedPeers
<1>11. UNCHANGED <<file, call, app>> /\ download' = IF download = p THEN NoPeer ELSE download
  BY DEF PeerDisconnected
<1>12. download' \in connectedPeers' \cup {NoPeer}
  BY <1>10, <1>11 DEF SocketInv, Shapes
<1>13. CallOK' /\ \A q \in Peer : Hand(q)' = Hand(q) /\ Owned(q)' = Owned(q)
  BY <1>1, <1>11 DEF CallOK, NoCall, Hand, Owned
<1>14. \A q \in Peer : Lives(peer'[q]) /\ Accounted(peer'[q], Owned(q)', Hand(q)')
  <2> SUFFICES ASSUME NEW q \in Peer
               PROVE Lives(peer'[q]) /\ Accounted(peer'[q], Owned(q)', Hand(q)')
    OBVIOUS
  <2>1. CASE q = p
    BY <1>7, <1>8, <1>9, <1>13, <2>1
  <2>2. CASE q # p
    BY <1>9, <1>13, <2>2 DEF SocketInv
  <2> QED BY <2>1, <2>2
<1> QED BY <1>3, <1>9, <1>11, <1>12, <1>13, <1>14 DEF SocketInv, Shapes

\* The thread is over; it may have started others.
LEMMA LeaveKeeps ==
  ASSUME SocketInv, NEW p \in Peer, Leave(p)
  PROVE  SocketInv'
<1> DEFINE c == peer[p]
           e == [c EXCEPT !.pc = "none", !.threads = @ - 1]
           left == [peer EXCEPT ![p] = e]
<1>1. c \in Connection /\ Lives(c) /\ Accounted(c, Owned(p), Hand(p)) /\ c.pc = "leave"
  BY DEF SocketInv, Shapes, Leave, At
<1>2. e \in Connection
  <2>1. c.threads = 1
    BY <1>1 DEF Lives
  <2>2. c.threads - 1 \in Nat
    BY <2>1
  <2> QED BY <1>1, <2>2 DEF Connection, Places
<1>3. /\ e.pc = "none" /\ e.socket = c.socket /\ e.held = c.held /\ e.ipv4 = c.ipv4
      /\ e.link = c.link /\ c.link = "freed" /\ e.threads = c.threads - 1 /\ e.waiting = c.waiting
  BY <1>1 DEF Connection, Lives
<1>4. left = [peer EXCEPT ![p].pc = "none", ![p].threads = @ - 1]
  OBVIOUS
<1>5. /\ \/ ManagerConnect(left) /\ failures' = Retry(failures)
         \/ peer' = left /\ UNCHANGED failures
      /\ UNCHANGED <<file, call, app, download>>
  <2> HIDE DEF left
  <2> QED BY <1>4 DEF Leave
<1> HIDE DEF e
<1>6. Lives(e)
  BY <1>1, <1>3 DEF Lives
<1>7. Accounted(e, Owned(p), Hand(p))
  <2>1. Lost(e, Owned(p), Hand(p)) = Lost(c, Owned(p), Hand(p))
    BY <1>1, <1>3 DEF Lost
  <2>2. ~ Fresh(e) /\ (Full(e, Owned(p)) => Full(c, Owned(p)))
    BY <1>1, <1>3 DEF Fresh, Full
  <2> QED BY <1>1, <1>3, <2>1, <2>2, AccountedGoes
<1>8. left \in [Peer -> Connection] /\ left[p] = e /\ \A q \in Peer \ {p} : left[q] = peer[q]
  <2> HIDE DEF Connection
  <2> QED BY <1>2 DEF SocketInv, Shapes
<1> HIDE DEF left
<1>9. \A q \in Peer : Lives(left[q]) /\ Accounted(left[q], Owned(q), Hand(q))
  <2> SUFFICES ASSUME NEW q \in Peer
               PROVE Lives(left[q]) /\ Accounted(left[q], Owned(q), Hand(q))
    OBVIOUS
  <2>1. CASE q = p
    BY <1>6, <1>7, <1>8, <2>1
  <2>2. CASE q # p
    BY <1>8, <2>2 DEF SocketInv
  <2> QED BY <2>1, <2>2
<1>10. {q \in Peer : left[q].link = "live"} = connectedPeers
  BY <1>3, <1>8 DEF connectedPeers
<1>11. CASE ManagerConnect(left) /\ failures' = Retry(failures)
  <2>1. failures' \in 0..MAX_CONNECT_FAILURES + 1 /\ app' \in {"idle", "waiting", "rescan"}
    BY <1>5, <1>11, RetryFits DEF SocketInv, Shapes
  <2> QED BY <1>5, <1>8, <1>9, <1>10, <1>11, <2>1, ConnectKeeps
<1>12. CASE peer' = left /\ UNCHANGED failures
  <2>1. connectedPeers' = connectedPeers
    BY <1>10, <1>12 DEF connectedPeers
  <2>2. \A q \in Peer : Owned(q)' = Owned(q)
    BY <1>5 DEF Owned
  <2>3. call' \in Calls /\ CallOK' /\ \A q \in Peer : Hand(q)' = Hand(q)
    BY <1>5, <2>1, SameCall
  <2> QED BY <1>5, <1>8, <1>9, <1>12, <2>1, <2>2, <2>3 DEF SocketInv, Shapes
<1> QED BY <1>5, <1>11, <1>12

-----------------------------------------------------------------------------
LEMMA SocketStarts ==
  ASSUME Init
  PROVE  SocketInv
<1>1. NewPeer \in Connection /\ NoCall \in Calls
  BY DEF NewPeer, Connection, Places, NoCall, Calls
<1>2. Shapes
  BY <1>1, SocketAssumption DEF Init, Shapes
<1>3. CallOK
  BY DEF Init, CallOK, NoCall
<1>4. ASSUME NEW p \in Peer PROVE Lives(peer[p]) /\ Accounted(peer[p], Owned(p), Hand(p))
  <2>1. peer[p] = NewPeer /\ Owned(p) = {} /\ Hand(p) = Closed
    BY SocketAssumption DEF Init, Owned, Hand, NoCall
  <2>2. Lives(NewPeer)
    BY DEF Lives, NewPeer
  <2>3. Accounted(NewPeer, {}, Closed)
    BY DEF Accounted, NewPeer, Full, Lost, One, Two
  <2> QED BY <2>1, <2>2, <2>3
<1> QED BY <1>2, <1>3, <1>4 DEF SocketInv

LEMMA SocketKeeps ==
  ASSUME SocketInv, [Next]_vars
  PROVE  SocketInv'
<1>1. CASE BRPeerManagerConnect \/ BRPeerManagerDisconnect \/ DisconnectDone \/ BRPeerManagerRescan
  BY <1>1, AppKeeps
<1>2. CASE Call
  BY <1>2, NextTargetKeeps, ClearSocketKeeps, CloseSocketKeeps DEF Call
<1>3. ASSUME NEW p \in Peer, Thread(p) PROVE SocketInv'
  <2>1. CASE OpenSocket(p)
    BY <2>1, OpenSocketKeeps
  <2>2. CASE SocketConnects(p) \/ Loop(p) \/ Read(p) \/ PeerConnected(p) \/ Handle(p)
    BY <2>2, ThreadRuns
  <2>3. CASE TakeSocket(p) \/ EndClears(p)
    BY <2>3, ThreadEnds
  <2>4. CASE EndCloses(p)
    BY <2>4, EndClosesKeeps
  <2>5. CASE PeerDisconnected(p)
    BY <2>5, PeerDisconnectedKeeps
  <2>6. CASE Leave(p)
    BY <2>6, LeaveKeeps
  <2> QED BY <1>3, <2>1, <2>2, <2>3, <2>4, <2>5, <2>6 DEF Thread
<1>4. CASE UNCHANGED vars
  <2>1. connectedPeers' = connectedPeers /\ \A p \in Peer : Owned(p)' = Owned(p) /\ Hand(p)' = Hand(p)
    BY <1>4 DEF vars, connectedPeers, Owned, Hand
  <2> QED BY <1>4, <2>1 DEF vars, SocketInv, Shapes, CallOK
<1> QED BY <1>1, <1>2, <1>3, <1>4 DEF Next

LEMMA SocketAlways == Spec => []SocketInv
BY SocketStarts, SocketKeeps, PTL DEF Spec

-----------------------------------------------------------------------------
\* The threads, the calls and the connections are of their types: no two
\* threads run for a connection, and what BRPeerDisconnect goes through, the
\* lock being held, are connections that have not been freed.
THEOREM TypeCorrect == Spec => []TypeOK
<1>1. SocketInv => TypeOK
  <2> SUFFICES ASSUME SocketInv PROVE TypeOK
    OBVIOUS
  <2>1. ASSUME NEW p \in Peer
        PROVE /\ peer[p].link \in {"none", "live", "freed"}
              /\ peer[p].status \in {"disconnected", "connecting", "connected"}
              /\ {peer[p].waiting, peer[p].ipv4, peer[p].again} \subseteq BOOLEAN
              /\ peer[p].pc \in Places
              /\ peer[p].threads = (IF peer[p].pc = "none" THEN 0 ELSE 1)
              /\ {peer[p].socket, peer[p].held} \subseteq Fd \cup {Closed}
              /\ peer[p].link = "none" => peer[p] = NewPeer
    <3>1. peer[p] \in Connection /\ Lives(peer[p])
      BY DEF SocketInv, Shapes
    <3> QED BY <3>1 DEF Connection, Lives
  <2>2. call.step \in {"none", "next", "clear", "close"}
    BY DEF SocketInv, Shapes, Calls
  <2> QED BY <2>1, <2>2 DEF TypeOK, SocketInv, Shapes, CallOK
<1> QED BY <1>1, SocketAlways, PTL

\* Whatever threads and calls close, twice or in any order, a connection
\* leaves open at most one descriptor that nobody will close, and that only
\* when it gave up an IPv6 socket for IPv4.
THEOREM DescriptorsAccountedHolds == Spec => []DescriptorsAccounted
<1>1. SocketInv => DescriptorsAccounted
  <2> SUFFICES ASSUME SocketInv, NEW p \in Peer
               PROVE  Cardinality(Leaked(p)) <= (IF peer[p].ipv4 THEN 1 ELSE 0)
    BY DEF DescriptorsAccounted
  <2>1. Leaked(p) = Lost(peer[p], Owned(p), Hand(p))
    BY Descriptors DEF Leaked, Lost, Owned, Hand
  <2>2. Accounted(peer[p], Owned(p), Hand(p)) /\ peer[p] \in Connection
    BY DEF SocketInv, Shapes
  <2>3. CASE Leaked(p) = {}
    <3>1. Cardinality(Leaked(p)) = 0
      BY <2>3, FS_EmptySet
    <3> QED BY <3>1
  <2>4. CASE Leaked(p) # {}
    <3>1. PICK d : d \in Leaked(p)
      BY <2>4
    <3>2. Leaked(p) = {d}
      BY <2>1, <2>2, <3>1 DEF Accounted, One
    <3>3. Cardinality(Leaked(p)) = 1
      BY <3>2, FS_Singleton
    <3>4. peer[p].ipv4
      BY <2>1, <2>2, <2>4 DEF Accounted
    <3> QED BY <3>3, <3>4
  <2> QED BY <2>3, <2>4
<1> QED BY <1>1, SocketAlways, PTL
=============================================================================
