---------------------- MODULE PeerManagerPublishProofs ----------------------
(***************************************************************************)
(* What holds of PeerManagerPublish for any transactions and peers, any    *)
(* number of connections and whatever the chain does: what the application *)
(* is told of its publications is kept, only connected peers count as      *)
(* relaying, and every variable has its type.                              *)
(***************************************************************************)
EXTENDS PeerManagerPublish, Extrema, FiniteSetTheorems, SequenceTheorems, TLAPS

-----------------------------------------------------------------------------
(***************************************************************************)
(* The invariant: a transaction is public exactly when a peer was given it *)
(* and the application told so, or when the wallet had it from the start.  *)
(* Until then the wallet does not have it, and it is listed exactly while  *)
(* its publication is open.                                                *)
(***************************************************************************)
Struct ==
  [listed : BOOLEAN, shared : BOOLEAN, freed : BOOLEAN, call : Calls,
   held : BOOLEAN, confirmed : BOOLEAN, valid : BOOLEAN,
   relays : SUBSET Peer, requests : SUBSET Peer]

Secret(x) ==
  ~ x.held /\ ~ x.shared /\ ~ x.freed /\ (x.listed <=> x.call = "waiting")

Fate ==
  /\ tx \in [Tx -> Struct] /\ network \subseteq Tx
  /\ \A t \in Tx : /\ t \in network <=> (tx[t].call = "ok" \/ t \in Held)
                   /\ t \in Held => tx[t].call = "none"
                   /\ t \notin network => Secret(tx[t])

\* The change of one transaction that tells the application nothing.
Same(x, y) ==
  /\ y.call = x.call /\ y.listed = x.listed /\ y.held = x.held
  /\ y.shared = x.shared /\ y.freed = x.freed

Untold(t) == Same(tx[t], tx'[t]) \/ (t \in network /\ tx'[t].call = tx[t].call)

said == [t \in Tx |-> IF tx[t].call = "admitted" THEN "waiting" ELSE tx[t].call]
told == <<said, network>>

Keeps == Fate' /\ [Promise!Next]_told

LEMMA Quiet ==
  ASSUME Fate, tx' \in [Tx -> Struct], network' = network, \A t \in Tx : Untold(t)
  PROVE  Keeps
<1>1. \A t \in Tx : tx'[t].call = tx[t].call
  BY DEF Untold, Same
<1>2. told' = told
  BY <1>1 DEF told, said
<1>3. Fate'
  BY <1>1 DEF Fate, Untold, Same, Secret
<1> QED BY <1>2, <1>3 DEF Keeps

\* The change of one transaction to y, or of any by changes.
LEMMA OneChanged ==
  ASSUME Fate, NEW t \in Tx, NEW y, y \in Struct, tx' = [tx EXCEPT ![t] = y]
  PROVE  tx' \in [Tx -> Struct] /\ tx'[t] = y /\ \A u \in Tx \ {t} : tx'[u] = tx[u]
<1>1. tx \in [Tx -> Struct]
  BY DEF Fate
<1> HIDE DEF Struct
<1> QED BY <1>1

LEMMA QuietOne ==
  ASSUME Fate, network' = network, NEW t \in Tx, NEW y, y \in Struct,
         tx' = [tx EXCEPT ![t] = y],
         Same(tx[t], y) \/ (t \in network /\ y.call = tx[t].call)
  PROVE  Keeps
<1>1. tx' \in [Tx -> Struct] /\ tx'[t] = y /\ \A u \in Tx \ {t} : tx'[u] = tx[u]
  BY OneChanged
<1>2. \A u \in Tx \ {t} : Untold(u)
  BY <1>1 DEF Untold, Same
<1>3. Untold(t)
  BY <1>1 DEF Untold
<1> QED BY <1>1, <1>2, <1>3, Quiet

LEMMA QuietAll ==
  ASSUME Fate, network' = network, NEW y, tx' = [t \in Tx |-> y[t]],
         \A t \in Tx : y[t] \in Struct,
         \A t \in Tx : Same(tx[t], y[t]) \/ (t \in network /\ y[t].call = tx[t].call)
  PROVE  Keeps
<1>1. tx' \in [Tx -> Struct] /\ \A t \in Tx : tx'[t] = y[t]
  <2> HIDE DEF Struct
  <2> QED OBVIOUS
<1>2. \A t \in Tx : Untold(t)
  BY <1>1 DEF Untold
<1> QED BY <1>1, <1>2, Quiet

LEMMA PublicAnswered ==
  ASSUME Fate, NEW t \in network, NEW result
  PROVE  t \in Tx /\ tx[t].call # "waiting" /\ Answered(tx[t], result) = tx[t]
<1>1. t \in Tx /\ tx[t] \in Struct /\ tx[t].call # "waiting"
  BY DEF Fate
<1>2. [tx[t] EXCEPT !.call = tx[t].call] = tx[t]
  BY <1>1 DEF Struct
<1> QED BY <1>1, <1>2 DEF Answered

\* What else is listed with t the wallet has.
Enlisted(x) == [x EXCEPT !.listed = TRUE, !.shared = x.held, !.freed = FALSE]

LEMMA Listing ==
  ASSUME NEW xs, xs \in [Tx -> Struct], NEW t \in Tx, NEW ys, ys = AddTxToPublishList(xs, t)
  PROVE  /\ ys \in [Tx -> Struct]
         /\ \A u \in Tx : \/ ys[u] = xs[u]
                          \/ (u = t \/ xs[u].held) /\ ys[u] = Enlisted(xs[u])
         /\ ~ xs[t].listed => ys[t] = Enlisted(xs[t])
<1> DEFINE parents(u) == {v \in Inputs[u] : v \in Unconfirmed(xs)}
           Closed2(S) == t \in S /\ \A u \in S : \A v \in parents(u) : v \in Published(xs) \cup S
           added == IF t \in Published(xs) THEN {}
                    ELSE {u \in Tx : \A S \in SUBSET Tx : Closed2(S) => u \in S}
           list == [u \in Tx |-> IF u \notin added THEN xs[u]
                     ELSE Enlisted(xs[u])]
<1>1. AddTxToPublishList(xs, t) = list
  BY DEF AddTxToPublishList, Enlisted
<1>2. \A u \in added : u \in Tx /\ (u = t \/ xs[u].held)
  <2>1. Closed2({t} \cup Unconfirmed(xs)) /\ {t} \cup Unconfirmed(xs) \in SUBSET Tx
    BY DEF Unconfirmed
  <2>2. \A u \in added : u \in {t} \cup Unconfirmed(xs)
    BY <2>1
  <2> QED BY <2>2 DEF Unconfirmed
<1>3. ~ xs[t].listed => t \in added
  BY DEF Published
<1> HIDE DEF added
<1>4. list \in [Tx -> Struct]
  BY DEF Struct, Enlisted
<1>5. \A u \in Tx : \/ list[u] = xs[u]
                    \/ (u = t \/ xs[u].held) /\ list[u] = Enlisted(xs[u])
  <2>1. \A u \in Tx : list[u] = IF u \notin added THEN xs[u] ELSE Enlisted(xs[u])
    OBVIOUS
  <2> HIDE DEF list
  <2> SUFFICES ASSUME NEW u \in Tx
              PROVE \/ list[u] = xs[u]
                    \/ (u = t \/ xs[u].held) /\ list[u] = Enlisted(xs[u])
    OBVIOUS
  <2>2. CASE u \in added
    BY <2>1, <2>2, <1>2
  <2>3. CASE u \notin added
    BY <2>1, <2>3
  <2> QED BY <2>2, <2>3
<1>6. ~ xs[t].listed => list[t] = Enlisted(xs[t])
  BY <1>3
<1> QED BY <1>1, <1>4, <1>5, <1>6

-----------------------------------------------------------------------------
(***************************************************************************)
(* The steps that answer.                                                  *)
(***************************************************************************)
\* The callbacks of PublishTx are told of, so its step is one of the promise.
LEMMA TellOne ==
  ASSUME Fate, NEW t \in Tx, NEW y, tx' = [tx EXCEPT ![t] = y]
  PROVE  said' = [said EXCEPT ![t] = IF y.call = "admitted" THEN "waiting" ELSE y.call]
<1>1. \A u \in Tx : tx'[u] = IF u = t THEN y ELSE tx[u]
  BY DEF Fate
<1> DEFINE a == IF y.call = "admitted" THEN "waiting" ELSE y.call
<1>2. \A u \in Tx : said'[u] = IF u = t THEN a ELSE said[u]
  BY <1>1 DEF said
<1> HIDE DEF a
<1>3. said' = [said EXCEPT ![t] = a]
  BY <1>2 DEF said
<1> QED BY <1>3 DEF a

LEMMA FatePublishTx ==
  ASSUME Fate, NEW t \in Tx, PublishTx(t)
  PROVE  Keeps
<1>1. PICK a \in {"ENOTCONN", "admitted"} : tx' = [tx EXCEPT ![t].call = a]
  BY DEF PublishTx
<1>2. tx[t] \in Struct /\ tx[t].call = "none" /\ t \notin Held /\ network' = network
  BY DEF PublishTx, CanPublish, Fate
<1>3. t \notin network
  BY <1>2 DEF Fate
<1>4. [tx[t] EXCEPT !.call = a] \in Struct /\ tx' = [tx EXCEPT ![t] = [tx[t] EXCEPT !.call = a]]
  BY <1>1, <1>2 DEF Struct, Calls
<1>5. Fate'
  <2> DEFINE y == [tx[t] EXCEPT !.call = a]
  <2>1. Secret(tx[t]) /\ tx[t].call = "none"
    BY <1>2, <1>3 DEF Fate
  <2>2. Secret(y) /\ y.call = a
    BY <1>2, <2>1 DEF Secret, Struct
  <2> HIDE DEF y
  <2>3. tx' \in [Tx -> Struct] /\ tx'[t] = y /\ \A u \in Tx \ {t} : tx'[u] = tx[u]
    BY <1>4, OneChanged DEF y
  <2> QED BY <1>2, <1>3, <2>2, <2>3 DEF Fate
<1>6. Promise!Publish(t)
  <2>1. \E a2 \in {"waiting", "ENOTCONN"} : said' = [said EXCEPT ![t] = a2]
    <3>1. [tx[t] EXCEPT !.call = a].call = a
      BY <1>2 DEF Struct
    <3> QED BY <1>4, <3>1, TellOne
  <2>2. said[t] = "none"
    BY <1>2 DEF said
  <2> QED BY <1>2, <1>3, <2>1, <2>2 DEF Promise!Publish, said
<1> QED BY <1>5, <1>6 DEF Keeps, Promise!Next

LEMMA FateOffer ==
  ASSUME Fate, NEW t \in Tx, Offer(t)
  PROVE  Keeps
<1> DEFINE xs == [tx EXCEPT ![t].call = "waiting"]
<1>1. tx' = AddTxToPublishList(xs, t) /\ network' = network
  BY DEF Offer
<1>2. /\ tx[t] \in Struct /\ tx[t].call \in {"none", "admitted"}
      /\ tx[t].call = "none" => t \notin Held
  BY DEF Offer, CanPublish, Fate
<1>3. t \notin network /\ t \notin Held
  BY <1>2 DEF Fate
<1>4. xs \in [Tx -> Struct] /\ xs[t] = [tx[t] EXCEPT !.call = "waiting"]
  <2> DEFINE y == [tx[t] EXCEPT !.call = "waiting"]
  <2>1. y \in Struct
    BY <1>2 DEF Struct, Calls
  <2>2. xs = [tx EXCEPT ![t] = y] /\ tx \in [Tx -> Struct]
    BY DEF Fate
  <2> HIDE DEF y, xs
  <2>3. xs \in [Tx -> Struct] /\ xs[t] = y
    BY <2>1, <2>2
  <2> QED BY <2>3 DEF y
<1>5. ~ xs[t].listed /\ ~ xs[t].held
  BY <1>2, <1>3, <1>4 DEF Fate, Secret, Struct
<1>6. /\ tx' \in [Tx -> Struct]
      /\ \A u \in Tx : \/ tx'[u] = xs[u]
                       \/ (u = t \/ xs[u].held) /\ tx'[u] = Enlisted(xs[u])
      /\ ~ xs[t].listed => tx'[t] = Enlisted(xs[t])
  <2> HIDE DEF xs
  <2>1. xs \in [Tx -> Struct] /\ tx' = AddTxToPublishList(xs, t)
    BY <1>1, <1>4
  <2> QED BY <2>1, Listing
<1>7. tx'[t] = Enlisted(xs[t])
  BY <1>5, <1>6
<1>8. \A u \in Tx \ {t} : Untold(u)
  <2> SUFFICES ASSUME NEW u \in Tx \ {t} PROVE Untold(u)
    OBVIOUS
  <2>1. xs[u] = tx[u] /\ tx[u] \in Struct
    BY DEF Fate
  <2>2. \/ tx'[u] = tx[u]
        \/ tx[u].held /\ tx'[u] = Enlisted(tx[u])
    <3> HIDE DEF xs
    <3> QED BY <1>6, <2>1
  <2>3. tx[u].held => u \in network
    BY DEF Fate, Secret
  <2> QED BY <2>1, <2>2, <2>3 DEF Untold, Same, Struct, Enlisted
<1>9. Secret(tx'[t]) /\ tx'[t].call = "waiting"
  BY <1>2, <1>3, <1>4, <1>5, <1>7 DEF Secret, Struct, Enlisted
<1>10. Fate'
  <2> SUFFICES ASSUME NEW u \in Tx
              PROVE /\ u \in network <=> (tx'[u].call = "ok" \/ u \in Held)
                    /\ u \in Held => tx'[u].call = "none"
                    /\ u \notin network => Secret(tx'[u])
    BY <1>1, <1>6 DEF Fate
  <2>1. CASE u = t
    BY <2>1, <1>3, <1>9
  <2>2. CASE u # t
    <3>1. Untold(u)
      BY <2>2, <1>8
    <3> QED BY <3>1 DEF Fate, Untold, Same, Secret
  <2> QED BY <2>1, <2>2
<1>11. \A u \in Tx \ {t} : tx'[u].call = tx[u].call
  BY <1>8 DEF Untold, Same
<1>12. [Promise!Next]_told
  <2>1. CASE tx[t].call = "admitted"
    <3>1. told' = told
      BY <2>1, <1>1, <1>9, <1>11 DEF told, said
    <3> QED BY <3>1
  <2>2. CASE tx[t].call = "none"
    <3>1. said[t] = "none" /\ said'[t] = "waiting" /\ \A u \in Tx \ {t} : said'[u] = said[u]
      BY <2>2, <1>9, <1>11 DEF said
    <3>2. said' = [said EXCEPT ![t] = "waiting"]
      BY <3>1 DEF said
    <3>3. Promise!Publish(t)
      BY <3>1, <3>2, <1>1, <1>3 DEF Promise!Publish, said
    <3> QED BY <3>3 DEF Promise!Next
  <2> QED BY <2>1, <2>2, <1>2
<1> QED BY <1>10, <1>12 DEF Keeps

\* What a peer asks for is given to it if the wallet still agrees, and the
\* application is told; if it is not valid any more, it is told that.
LEMMA FateRequestedTx ==
  ASSUME Fate, NEW p \in Peer, NEW t \in Tx, RequestedTx(p, t)
  PROVE  Keeps
<1> DEFINE y == IF ~ tx[t].listed THEN tx[t]
                ELSE IF ~ tx[t].valid THEN Unlisted(Answered(tx[t], "EINVAL"))
                ELSE [Answered(tx[t], "ok") EXCEPT !.relays = @ \cup {p}, !.held = TRUE,
                                                   !.shared = @ \/ ~ tx[t].held]
           given == tx[t].listed /\ (tx[t].valid \/ tx[t].held)
<1>1. /\ tx' = [tx EXCEPT ![t] = y]
      /\ network' = IF given THEN network \cup {t} ELSE network
  BY DEF RequestedTx
<1>2. tx \in [Tx -> Struct] /\ tx[t] \in Struct
  BY DEF Fate
<1>3. y \in Struct
  <2>1. Answered(tx[t], "EINVAL") \in Struct /\ Answered(tx[t], "ok") \in Struct
    BY <1>2 DEF Struct, Answered, Calls
  <2>2. Unlisted(Answered(tx[t], "EINVAL")) \in Struct
    BY <2>1 DEF Struct, Unlisted
  <2>3. Answered(tx[t], "ok") \in Struct /\ (tx[t].shared \/ ~ tx[t].held) \in BOOLEAN
    BY <2>1, <1>2 DEF Struct
  <2>4. [Answered(tx[t], "ok") EXCEPT !.relays = @ \cup {p}, !.held = TRUE,
                                      !.shared = @ \/ ~ tx[t].held] \in Struct
    BY <2>3 DEF Struct
  <2> QED BY <1>2, <2>2, <2>4
<1>4. tx' \in [Tx -> Struct] /\ tx'[t] = y /\ \A u \in Tx \ {t} : tx'[u] = tx[u]
  BY <1>1, <1>2, <1>3
<1>5. CASE t \in network \/ ~ tx[t].listed
  <2>1. network' = network
    BY <1>1, <1>5
  <2>2. y.call = tx[t].call /\ (~ tx[t].listed => y = tx[t])
    BY <1>2, <1>5, PublicAnswered DEF Struct, Unlisted
  <2> HIDE DEF y
  <2>3. \A u \in Tx \ {t} : Untold(u)
    BY <1>4 DEF Untold, Same
  <2>4. Untold(t)
    <3>1. CASE t \in network
      BY <1>4, <2>2, <3>1 DEF Untold
    <3>2. CASE ~ tx[t].listed
      BY <1>4, <2>2, <3>2 DEF Untold, Same
    <3> QED BY <1>5, <3>1, <3>2
  <2> QED BY <1>4, <2>1, <2>3, <2>4, Quiet
<1>6. CASE t \notin network /\ tx[t].listed
  <2>1. tx[t].call = "waiting" /\ ~ tx[t].held /\ t \notin Held
    BY <1>6 DEF Fate, Secret
  <2>2. CASE tx[t].valid
    <3>1. y.call = "ok" /\ network' = network \cup {t}
      BY <1>1, <1>2, <1>6, <2>1, <2>2 DEF Struct, Answered
    <3>2. Fate'
      <4> HIDE DEF y
      <4> SUFFICES ASSUME NEW u \in Tx
                  PROVE /\ u \in network' <=> (tx'[u].call = "ok" \/ u \in Held)
                        /\ u \in Held => tx'[u].call = "none"
                        /\ u \notin network' => Secret(tx'[u])
        BY <1>4, <3>1 DEF Fate
      <4>1. CASE u = t
        BY <4>1, <1>4, <2>1, <3>1
      <4>2. CASE u # t
        BY <4>2, <1>4, <3>1 DEF Fate
      <4> QED BY <4>1, <4>2
    <3>3. Promise!Give(t)
      <4>1. said' = [said EXCEPT ![t] = "ok"] /\ said[t] \in {"waiting", "ok"}
        <5> HIDE DEF y
        <5> QED BY <1>1, <2>1, <3>1, TellOne DEF said
      <4> QED BY <4>1, <3>1 DEF Promise!Give, said
    <3> QED BY <3>2, <3>3 DEF Keeps, Promise!Next
  <2>3. CASE ~ tx[t].valid
    <3>1. y.call = "EINVAL" /\ Secret(y) /\ network' = network
      BY <1>1, <1>2, <1>6, <2>1, <2>3 DEF Struct, Answered, Unlisted, Secret
    <3>2. Fate'
      BY <1>4, <1>6, <3>1, <2>1 DEF Fate
    <3>3. Promise!Invalid(t)
      <4>1. said' = [said EXCEPT ![t] = "EINVAL"] /\ said[t] = "waiting"
        <5> HIDE DEF y
        <5>1. y.call = "EINVAL" /\ tx' = [tx EXCEPT ![t] = y]
          BY <1>1, <3>1
        <5>2. said' = [said EXCEPT ![t] = IF y.call = "admitted" THEN "waiting" ELSE y.call]
          BY <5>1, TellOne
        <5> QED BY <5>1, <5>2, <2>1 DEF said
      <4> QED BY <4>1, <3>1 DEF Promise!Invalid, said
    <3> QED BY <3>2, <3>3 DEF Keeps, Promise!Next
  <2> QED BY <2>2, <2>3
<1> QED BY <1>5, <1>6

\* A connection that ends fails what waits, all of it or nothing.
LEMMA FateDisconnected ==
  ASSUME Fate, NEW p \in Peer, Disconnected(p)
  PROVE  Keeps
<1> DEFINE error == TxError(p)
           failed == {t \in Tx : error # "none" /\ tx[t].call = "waiting"}
           xs == [t \in Tx |-> [tx[t] EXCEPT !.relays = @ \ {p}]]
<1>1. tx' = Canceled(xs, error) /\ network' = network
  BY DEF Disconnected
<1>2. error \in {"none", "ENOTCONN", "ETIMEDOUT"}
  BY DEF TxError
<1> HIDE DEF error
<1>3. xs \in [Tx -> Struct]
  BY DEF Fate, Struct
<1>4. \A t \in Tx : xs[t].call = tx[t].call /\ Same(tx[t], xs[t])
  BY DEF Fate, Struct, Same
<1>5. \A t \in Tx : tx'[t] = IF t \in failed THEN Unlisted(Answered(xs[t], error)) ELSE xs[t]
  BY <1>1, <1>4 DEF Canceled
<1>6. tx' \in [Tx -> Struct]
  <2> HIDE DEF xs
  <2> SUFFICES ASSUME NEW t \in Tx PROVE tx'[t] \in Struct
    BY <1>1 DEF Canceled
  <2>1. xs[t] \in Struct /\ error \in Calls
    BY <1>2, <1>3 DEF Calls
  <2>2. Answered(xs[t], error) \in Struct
    BY <2>1 DEF Answered, Struct
  <2>3. Unlisted(Answered(xs[t], error)) \in Struct
    BY <2>2 DEF Unlisted, Struct
  <2> QED BY <1>5, <2>1, <2>3
<1>7. \A t \in Tx \ failed : Same(tx[t], tx'[t])
  BY <1>4, <1>5
<1>8. \A t \in failed : tx'[t].call = error /\ Secret(tx'[t]) /\ t \notin network /\ t \notin Held
  <2> SUFFICES ASSUME NEW t \in failed
              PROVE tx'[t].call = error /\ Secret(tx'[t]) /\ t \notin network /\ t \notin Held
    OBVIOUS
  <2>1. t \in Tx /\ tx[t].call = "waiting" /\ error # "none" /\ xs[t] \in Struct
    BY <1>3
  <2>2. t \notin network /\ t \notin Held /\ Secret(tx[t])
    BY <2>1 DEF Fate
  <2>3. tx'[t] = [[xs[t] EXCEPT !.call = error] EXCEPT !.listed = FALSE, !.shared = FALSE,
                                                       !.freed = FALSE]
    <3> HIDE DEF xs
    <3> QED BY <1>4, <1>5, <2>1 DEF Unlisted, Answered, Struct
  <2>4. ~ xs[t].held
    BY <1>4, <2>1, <2>2 DEF Same, Secret
  <2> HIDE DEF xs, failed
  <2> QED BY <1>2, <2>1, <2>2, <2>3, <2>4 DEF Secret, Struct
<1>9. Fate'
  <2> SUFFICES ASSUME NEW t \in Tx
              PROVE /\ t \in network <=> (tx'[t].call = "ok" \/ t \in Held)
                    /\ t \in Held => tx'[t].call = "none"
                    /\ t \notin network => Secret(tx'[t])
    BY <1>1, <1>6 DEF Fate
  <2>1. CASE t \in failed
    BY <2>1, <1>2, <1>8
  <2>2. CASE t \notin failed
    <3> HIDE DEF failed
    <3> QED BY <2>2, <1>7 DEF Fate, Same, Secret
  <2> QED BY <2>1, <2>2
<1>10. [Promise!Next]_told
  <2>1. CASE failed = {}
    <3>1. told' = told
      BY <2>1, <1>1, <1>7 DEF told, said, Same
    <3> QED BY <3>1
  <2>2. CASE failed # {}
    <3>1. error \in {"ENOTCONN", "ETIMEDOUT"}
      BY <2>2, <1>2
    <3>2. failed \in SUBSET {t \in Tx : said[t] = "waiting"}
      BY DEF said
    <3> HIDE DEF failed
    <3>3. said' = [t \in Tx |-> IF t \in failed THEN error ELSE said[t]]
      <4>1. \A t \in Tx : said'[t] = IF t \in failed THEN error ELSE said[t]
        BY <3>1, <1>7, <1>8 DEF Same, said
      <4> QED BY <4>1 DEF said
    <3>4. Promise!Fail
      <4>1. error \in Promise!Unpublished
        BY <3>1 DEF Promise!Unpublished
      <4> QED BY <1>1, <3>2, <3>3, <4>1 DEF Promise!Fail, said
    <3> QED BY <3>4 DEF Promise!Next
  <2> QED BY <2>1, <2>2
<1> QED BY <1>9, <1>10 DEF Keeps

-----------------------------------------------------------------------------
(***************************************************************************)
(* The steps that tell the application nothing.                            *)
(***************************************************************************)
LEMMA FateHasTx ==
  ASSUME Fate, NEW p \in Peer, NEW t \in Tx, HasTx(p, t)
  PROVE  Keeps
<1>1. t \in network /\ network' = network
  BY DEF HasTx, Announces
<1>2. tx \in [Tx -> Struct] /\ tx[t] \in Struct /\ Answered(tx[t], "ok") = tx[t]
  BY <1>1, PublicAnswered DEF Fate
<1>3. Counted(tx[t], p) \in SUBSET Peer
  BY <1>2 DEF Counted, Struct
<1>4. PICK y \in Struct : y.call = tx[t].call /\ tx' = [tx EXCEPT ![t] = y]
  <2> DEFINE y == [tx[t] EXCEPT !.relays = Counted(tx[t], p), !.requests = @ \ {p},
                                !.held = TRUE, !.shared = @ \/ (tx[t].listed /\ ~ tx[t].held)]
  <2>1. y \in Struct /\ y.call = tx[t].call
    BY <1>2, <1>3 DEF Struct
  <2>2. tx' = [tx EXCEPT ![t] = IF ~ (tx[t].listed \/ tx[t].held) THEN tx[t] ELSE y]
    BY <1>2 DEF HasTx
  <2> HIDE DEF y
  <2> QED BY <1>2, <2>1, <2>2
<1> QED BY <1>1, <1>4, QuietOne

LEMMA FateRelayedTx ==
  ASSUME Fate, NEW p \in Peer, NEW t \in Tx, RelayedTx(p, t)
  PROVE  Keeps
<1> DEFINE y == [Answered(tx[t], "ok") EXCEPT !.held = TRUE, !.requests = @ \ {p},
                                              !.relays = Counted(tx[t], p)]
           xs == [tx EXCEPT ![t] = y]
<1>1. /\ t \in network /\ network' = network
      /\ tx' = xs \/ tx' = AddTxToPublishList(xs, t)
  BY DEF RelayedTx
<1>2. tx \in [Tx -> Struct] /\ tx[t] \in Struct /\ Answered(tx[t], "ok") = tx[t]
  BY <1>1, PublicAnswered DEF Fate
<1>3. Counted(tx[t], p) \in SUBSET Peer
  BY <1>2 DEF Counted, Struct
<1>4. y \in Struct /\ y.call = tx[t].call
  BY <1>2, <1>3 DEF Struct
<1> HIDE DEF y
<1>5. xs \in [Tx -> Struct] /\ xs[t] = y /\ \A u \in Tx \ {t} : xs[u] = tx[u]
  BY <1>2, <1>4
<1> HIDE DEF xs
<1>6. /\ tx' \in [Tx -> Struct]
      /\ \A u \in Tx : \/ tx'[u] = xs[u]
                       \/ (u = t \/ xs[u].held) /\ tx'[u] = Enlisted(xs[u])
  BY <1>1, <1>5, Listing
<1>7. ASSUME NEW u \in Tx PROVE Untold(u)
  <2>1. tx'[u].call = xs[u].call /\ xs[u].call = tx[u].call
    <3>1. xs[u] \in Struct /\ xs[u].call = tx[u].call
      BY <1>4, <1>5
    <3>2. Enlisted(xs[u]).call = xs[u].call
      BY <3>1 DEF Enlisted, Struct
    <3> QED BY <1>6, <3>1, <3>2
  <2>2. CASE u \in network
    BY <2>1, <2>2 DEF Untold
  <2>3. CASE u \notin network
    <3>1. u # t /\ xs[u] = tx[u] /\ ~ tx[u].held
      BY <2>3, <1>1, <1>5 DEF Fate, Secret
    <3>2. tx'[u] = tx[u]
      BY <3>1, <1>6
    <3> QED BY <3>2 DEF Untold, Same
  <2> QED BY <2>2, <2>3
<1> QED BY <1>1, <1>6, <1>7, Quiet

LEMMA FateDataNotfound ==
  ASSUME Fate, NEW p \in Peer, DataNotfound(p)
  PROVE  Keeps
<1> DEFINE missing == Head(peer[p].out).txs
<1>1. /\ network' = network
      /\ tx' = [t \in Tx |-> IF t \notin missing THEN tx[t]
                  ELSE [tx[t] EXCEPT !.relays = @ \ {p}, !.requests = @ \ {p}]]
  BY DEF DataNotfound
<1> DEFINE y == [t \in Tx |-> IF t \notin missing THEN tx[t]
                  ELSE [tx[t] EXCEPT !.relays = @ \ {p}, !.requests = @ \ {p}]]
<1> HIDE DEF missing
<1>2. \A t \in Tx : y[t] \in Struct /\ Same(tx[t], y[t])
  <2> SUFFICES ASSUME NEW t \in Tx PROVE y[t] \in Struct /\ Same(tx[t], y[t])
    OBVIOUS
  <2>1. tx[t] \in Struct
    BY DEF Fate
  <2> QED BY <2>1 DEF Struct, Same
<1>3. tx' = [t \in Tx |-> y[t]]
  BY <1>1
<1> QED BY <1>1, <1>2, <1>3, QuietAll

LEMMA FateRejectedTx ==
  ASSUME Fate, NEW p \in Peer, NEW t \in Tx, NEW spent, RejectedTx(p, t, spent)
  PROVE  Keeps
<1>1. /\ network' = network
      /\ tx' = [tx EXCEPT ![t].requests = @ \ {p},
                          ![t].relays = IF tx[t].held THEN @ \ {p} ELSE @]
  BY DEF RejectedTx
<1>2. tx[t] \in Struct /\ tx \in [Tx -> Struct]
  BY DEF Fate
<1> DEFINE y == [tx[t] EXCEPT !.requests = @ \ {p},
                              !.relays = IF tx[t].held THEN @ \ {p} ELSE @]
<1>3. y \in Struct /\ Same(tx[t], y)
  BY <1>2 DEF Struct, Same
<1>4. tx' = [tx EXCEPT ![t] = y]
  BY <1>1, <1>2 DEF Struct
<1> QED BY <1>1, <1>3, <1>4, QuietOne

\* Requests are noted; what is removed is not secret, whatever depends on it.
LEMMA FateCall ==
  ASSUME Fate, NEW p \in Peer, NEW success, Call(p, success)
  PROVE  Keeps
<1>1. network' = network
  BY DEF Call
<1>2. PICK missing : tx' \in {tx, Asked(tx, p, missing), Sweep(tx)}
  BY DEF Call, LoadBloomFilterDone, MempoolDone, UnrelayedDone, PublishTxInvDone
<1>3. CASE tx' = tx
  <2>1. tx' \in [Tx -> Struct] /\ \A t \in Tx : Untold(t)
    BY <1>3 DEF Fate, Untold, Same
  <2> QED BY <1>1, <2>1, Quiet
<1>4. CASE tx' = Asked(tx, p, missing)
  <2>1. tx' \in [Tx -> Struct] /\ \A t \in Tx : Untold(t)
    BY <1>4 DEF Fate, Asked, Struct, Untold, Same
  <2> QED BY <1>1, <2>1, Quiet
<1>5. CASE tx' = Sweep(tx)
  <2> DEFINE dropped == Spenders(Unknown(tx), {t \in Tx : tx[t].held})
  <2>1. tx' = [t \in Tx |-> IF t \notin dropped THEN tx[t]
                  ELSE [tx[t] EXCEPT !.held = FALSE, !.freed = @ \/ tx[t].shared]]
    BY <1>5 DEF Sweep
  <2> HIDE DEF dropped
  <2>2. tx' \in [Tx -> Struct]
    <3>1. \A t \in Tx : [tx[t] EXCEPT !.held = FALSE, !.freed = @ \/ tx[t].shared] \in Struct
      BY DEF Fate, Struct
    <3> QED BY <2>1, <3>1 DEF Fate
  <2>3. \A t \in Tx : Untold(t)
    BY <2>1 DEF Fate, Secret, Struct, Untold, Same
  <2> QED BY <1>1, <2>2, <2>3, Quiet
<1> QED BY <1>2, <1>3, <1>4, <1>5

LEMMA FateConfirm ==
  ASSUME Fate, NEW t \in Tx, Confirm(t)
  PROVE  Keeps
<1> DEFINE y == [Unlisted(tx[t]) EXCEPT !.relays = {}, !.confirmed = TRUE]
<1>1. network' = network /\ t \in network /\ tx' = [tx EXCEPT ![t] = y]
  BY DEF Confirm
<1>2. tx[t] \in Struct
  BY DEF Fate
<1>3. y \in Struct /\ y.call = tx[t].call
  BY <1>2 DEF Struct, Unlisted
<1> QED BY <1>1, <1>3, QuietOne

LEMMA FateInvalidate ==
  ASSUME Fate, NEW t \in Tx, Invalidate(t)
  PROVE  Keeps
<1> DEFINE spending == Spenders({t}, Tx)
<1>1. /\ network' = network
      /\ tx' = [u \in Tx |-> [tx[u] EXCEPT !.valid = @ /\ u \notin spending]]
  BY DEF Invalidate
<1> HIDE DEF spending
<1> DEFINE y == [u \in Tx |-> [tx[u] EXCEPT !.valid = @ /\ u \notin spending]]
<1>2. \A u \in Tx : y[u] \in Struct /\ Same(tx[u], y[u])
  <2> SUFFICES ASSUME NEW u \in Tx PROVE y[u] \in Struct /\ Same(tx[u], y[u])
    OBVIOUS
  <2>1. tx[u] \in Struct /\ (tx[u].valid /\ u \notin spending) \in BOOLEAN
    BY DEF Fate
  <2> QED BY <2>1 DEF Struct, Same
<1>3. tx' = [u \in Tx |-> y[u]]
  BY <1>1
<1> QED BY <1>1, <1>2, <1>3, QuietAll

LEMMA FateUnchanged ==
  ASSUME Fate, UNCHANGED <<tx, network>>
  PROVE  Keeps
<1>1. tx' \in [Tx -> Struct] /\ \A u \in Tx : Untold(u)
  BY DEF Fate, Untold, Same
<1> QED BY <1>1, Quiet

-----------------------------------------------------------------------------
LEMMA FateInit ==
  ASSUME Init
  PROVE  Fate /\ Promise!Init
<1>1. tx \in [Tx -> Struct] /\ network = Held
  BY DEF Init, NewTx, Struct, Calls
<1>2. Fate
  BY <1>1, PublishAssumption DEF Init, NewTx, Fate, Secret
<1>3. Promise!Init
  BY <1>1 DEF Init, NewTx, Promise!Init
<1> QED BY <1>2, <1>3

LEMMA FateNext ==
  ASSUME Fate, [Next]_vars
  PROVE  Keeps
<1>1. CASE Connect
  BY <1>1, FateUnchanged DEF Connect, BRPeerManagerConnect
<1>2. ASSUME NEW t \in Tx, PublishTx(t) \/ Offer(t) \/ Confirm(t) \/ Invalidate(t)
      PROVE  Keeps
  BY <1>2, FatePublishTx, FateOffer, FateConfirm, FateInvalidate
<1>3. ASSUME NEW p \in Peer, Thread(p) PROVE Keeps
  <2>1. CASE Closed(p) \/ Timeout(p)
    BY <2>1, FateUnchanged DEF Closed, Timeout, ThreadEnd
  <2>2. CASE Drain(p)
    BY <2>2, FateCall DEF Drain
  <2>3. CASE Disconnected(p)
    BY <2>3, FateDisconnected
  <2>4. CASE Reconnect(p)
    BY <2>4, FateUnchanged DEF Reconnect, BRPeerManagerConnect
  <2> QED BY <1>3, <2>1, <2>2, <2>3, <2>4 DEF Thread
<1>4. ASSUME NEW p \in Peer,
             Break(p) \/ Refuse(p) \/ PeerConnected(p) \/ Progress(p) \/ CatchUp(p) \/ MempoolAnswered(p)
      PROVE  Keeps
  BY <1>4, FateUnchanged DEF Break, ThreadEnd, Refuse, PeerConnected, Progress, CatchUp, MempoolAnswered
<1>5. ASSUME NEW p \in Peer, Pong(p) \/ DataNotfound(p) PROVE Keeps
  BY <1>5, FateCall, FateDataNotfound DEF Pong
<1>6. ASSUME NEW p \in Peer, NEW t \in Tx, NotInterested(p, t) \/ AcceptInv(p, t) PROVE Keeps
  BY <1>6, FateUnchanged DEF NotInterested, AcceptInv
<1>7. ASSUME NEW p \in Peer, NEW t \in Tx, RequestedTx(p, t) \/ HasTx(p, t) \/ RelayedTx(p, t)
      PROVE  Keeps
  BY <1>7, FateRequestedTx, FateHasTx, FateRelayedTx
<1>8. ASSUME NEW p \in Peer, NEW t \in Tx, NEW spent \in BOOLEAN, RejectedTx(p, t, spent)
      PROVE  Keeps
  BY <1>8, FateRejectedTx
<1>9. CASE UNCHANGED vars
  BY <1>9, FateUnchanged DEF vars, manager
<1> QED BY <1>1, <1>2, <1>3, <1>4, <1>5, <1>6, <1>7, <1>8, <1>9 DEF Next

THEOREM FateHolds == Spec => []Fate
<1>1. Init => Fate
  BY FateInit
<1>2. Fate /\ [Next]_vars => Fate'
  BY FateNext DEF Keeps
<1> QED BY <1>1, <1>2, PTL DEF Spec

\* A publication that waits belongs to its caller: it is listed, and neither
\* the wallet nor a block or a sweep has touched its struct.
THEOREM WaitingOwnedHolds == Spec => []WaitingOwned
<1>1. Fate => WaitingOwned
  <2> SUFFICES ASSUME Fate, NEW t \in Waiting(tx)
              PROVE tx[t].listed /\ ~ tx[t].held /\ ~ tx[t].shared /\ ~ tx[t].freed
    BY DEF WaitingOwned
  <2>1. t \in Tx /\ tx[t].call = "waiting"
    BY DEF Waiting
  <2>2. t \notin network
    BY <2>1 DEF Fate
  <2> QED BY <2>1, <2>2 DEF Fate, Secret
<1> QED BY <1>1, FateHolds, PTL

\* What the application is told of a publication is true, and stays true.
THEOREM AnswersTrueHolds == Spec => []AnswersTrue
<1>1. Fate => AnswersTrue
  BY DEF Fate, AnswersTrue, Promise!Truthful, Promise!Unpublished
<1> QED BY <1>1, FateHolds, PTL

\* The peer manager keeps the promise of Publication.
THEOREM PublicationImplemented == Spec => PublicationKept
<1>1. Init => Promise!Init
  BY FateInit
<1>2. Fate /\ [Next]_vars => [Promise!Next]_told
  BY FateNext DEF Keeps
<1> QED BY <1>1, <1>2, FateHolds, PTL DEF Spec, PublicationKept, Promise!Spec, told, said

-----------------------------------------------------------------------------
(***************************************************************************)
(* What the application may conclude from the promise alone.               *)
(***************************************************************************)
\* A transaction whose publication is open is not public: only then may the
\* answer still be a bad one.
Promised ==
  /\ said \in [Tx -> Promise!Answers]
  /\ \A t \in Tx : said[t] = "waiting" => t \notin network
  /\ \A t \in Tx : said[t] \in Promise!Unpublished => t \notin network
  /\ \A t \in Tx : said[t] = "ok" => t \in network

LEMMA PromisedGive ==
  ASSUME Promised, NEW t \in Tx, Promise!Give(t)
  PROVE  Promised'
<1>1. said' = [said EXCEPT ![t] = "ok"] /\ network' = network \cup {t}
  BY DEF Promise!Give, said
<1>2. said[t] \in {"waiting", "ok"}
  BY DEF Promise!Give, said
<1> HIDE DEF said
<1> QED BY <1>1, <1>2 DEF Promised, Promise!Answers, Promise!Unpublished

LEMMA PromisedSay ==
  ASSUME Promised, NEW t \in Tx, Promise!Publish(t) \/ Promise!Invalid(t)
  PROVE  Promised'
<1>1. /\ \E a \in {"waiting", "ENOTCONN", "EINVAL"} : said' = [said EXCEPT ![t] = a]
      /\ network' = network /\ t \notin network
  BY DEF Promise!Publish, Promise!Invalid, said, Promised
<1> HIDE DEF said
<1> QED BY <1>1 DEF Promised, Promise!Answers, Promise!Unpublished

LEMMA PromisedFail ==
  ASSUME Promised, Promise!Fail
  PROVE  Promised'
<1>1. PICK a \in Promise!Unpublished, failed \in SUBSET {t \in Tx : said[t] = "waiting"} :
        said' = [t \in Tx |-> IF t \in failed THEN a ELSE said[t]]
  BY DEF Promise!Fail, said
<1>2. network' = network
  BY DEF Promise!Fail
<1> HIDE DEF said
<1> QED BY <1>1, <1>2 DEF Promised, Promise!Answers, Promise!Unpublished

\* The promise is enough: of whatever keeps it, a publication said to have failed
\* is never public, one said to be good is (the callbacks of
\* BRPeerManagerPublishTx).
THEOREM TruthfulHolds == PublicationKept => []AnswersTrue
<1>1. Promise!Init => Promised
  BY DEF Promise!Init, Promised, said, Promise!Answers, Promise!Unpublished
<1>2. Promised /\ [Promise!Next]_told => Promised'
  <2> SUFFICES ASSUME Promised, [Promise!Next]_told PROVE Promised'
    OBVIOUS
  <2>1. CASE UNCHANGED <<said, network>>
    BY <2>1 DEF Promised
  <2>2. CASE Promise!Next
    BY <2>2, PromisedGive, PromisedSay, PromisedFail DEF Promise!Next
  <2> QED BY <2>1, <2>2 DEF told
<1>3. Promised => AnswersTrue
  BY DEF Promised, AnswersTrue, Promise!Truthful, Promise!Unpublished, said
<1> QED BY <1>1, <1>2, <1>3, PTL DEF PublicationKept, Promise!Spec, told, said

-----------------------------------------------------------------------------
(***************************************************************************)
(* That only connected peers count as relaying, and what a connection is:  *)
(* every handler but those that begin or end a connection leaves the links *)
(* alone, a relay is counted by a handler of a connected peer, and the end *)
(* of a connection takes its peer out of all counts; it leaves only pings  *)
(* unanswered, so that the last of them leaves nothing.                    *)
(***************************************************************************)

(***************************************************************************)
(* The operations on a connection neither begin nor end it.                *)
(***************************************************************************)

Msg == [kind : {"ping"}, txs : {{}}, callback : Callbacks]
         \cup [kind : {"inv", "getdata"}, txs : SUBSET Tx, callback : {"none"}]

Link == [link : Links, closing : BOOLEAN, timer : BOOLEAN, synced : BOOLEAN,
         sentMempool : BOOLEAN, mempoolDone : BOOLEAN, error : Errors,
         known : SUBSET Tx, out : Seq(Msg)]

\* Nothing is unanswered on a connection that is not there, and only pings on
\* one whose thread ends.
IsLink(c) ==
  /\ c \in Link
  /\ c.link \in {"none", "leaving"} => c.out = <<>>
  /\ c.link = "ending" => \A i \in 1 .. Len(c.out) : c.out[i].kind = "ping"

Lives(c) == c.link \notin {"none", "leaving"}

\* d is the connection c after something that did not begin or end it.
Stays(c, d) == IsLink(d) /\ d.link = c.link

LEMMA StaysRefl == ASSUME NEW c, IsLink(c) PROVE Stays(c, c)
BY DEF Stays

LEMMA StaysTrans ==
  ASSUME NEW c, NEW d, NEW e, Stays(c, d), Stays(d, e)
  PROVE  Stays(c, e)
BY DEF Stays

LEMMA Messages ==
  /\ \A callback \in Callbacks : Ping(callback) \in Msg
  /\ \A kind \in {"inv", "getdata"}, txs \in SUBSET Tx : Message(kind, txs) \in Msg
BY DEF Msg, Ping, Message

\* What is unanswered becomes shorter, or longer by a ping while a thread ends.
LEMMA StaysOut ==
  ASSUME NEW c, IsLink(c), NEW s \in Seq(Msg), Lives(c) \/ s = <<>>,
         c.link = "ending" => \A i \in 1 .. Len(s) : s[i].kind = "ping"
  PROVE  Stays(c, [c EXCEPT !.out = s])
<1> HIDE DEF Msg
<1> QED BY DEF Stays, IsLink, Link, Lives

LEMMA StaysSend ==
  ASSUME NEW c, IsLink(c), Lives(c), NEW m \in Msg
  PROVE  Stays(c, Send(c, m))
<1> DEFINE s == Append(c.out, m)
<1>1. c.out \in Seq(Msg)
  BY DEF IsLink, Link
<1>2. CASE (c.closing \/ c.link = "ending") /\ m.kind # "ping"
  BY <1>2, StaysRefl DEF Send
<1>3. CASE ~ ((c.closing \/ c.link = "ending") /\ m.kind # "ping")
  <2>1. Send(c, m) = [c EXCEPT !.out = s]
    BY <1>3 DEF Send
  <2>2. /\ s \in Seq(Msg) /\ Len(s) = Len(c.out) + 1 /\ Len(c.out) \in Nat
        /\ s[Len(c.out) + 1] = m /\ \A i \in 1 .. Len(c.out) : s[i] = c.out[i]
    BY <1>1, AppendProperties, LenProperties
  <2> HIDE DEF s, Msg
  <2>3. c.link = "ending" => \A i \in 1 .. Len(s) : s[i].kind = "ping"
    <3> SUFFICES ASSUME c.link = "ending", NEW i \in 1 .. Len(s) PROVE s[i].kind = "ping"
      OBVIOUS
    <3>1. CASE i = Len(c.out) + 1
      BY <1>3, <2>2, <3>1
    <3>2. CASE i # Len(c.out) + 1
      <4>1. i \in 1 .. Len(c.out)
        BY <2>2, <3>2
      <4> QED BY <2>2, <4>1 DEF IsLink
    <3> QED BY <3>1, <3>2
  <2> QED BY <2>1, <2>2, <2>3, StaysOut
<1> QED BY <1>2, <1>3

LEMMA StaysPopped ==
  ASSUME NEW c, IsLink(c), c.out # <<>>
  PROVE  Stays(c, [c EXCEPT !.out = Tail(c.out)])
<1>1. c.out \in Seq(Msg) /\ Lives(c)
  BY DEF IsLink, Link, Lives
<1> HIDE DEF Msg
<1>2. /\ Tail(c.out) \in Seq(Msg) /\ Len(Tail(c.out)) = Len(c.out) - 1 /\ Len(c.out) \in Nat
      /\ \A i \in 1 .. Len(Tail(c.out)) : Tail(c.out)[i] = c.out[i + 1]
  BY <1>1, HeadTailProperties, LenProperties
<1>3. \A i \in 1 .. Len(Tail(c.out)) : i + 1 \in 1 .. Len(c.out)
  BY <1>2
<1> DEFINE s == Tail(c.out)
<1>4. c.link = "ending" => \A i \in 1 .. Len(s) : s[i].kind = "ping"
  BY <1>2, <1>3 DEF IsLink
<1>5. s \in Seq(Msg)
  BY <1>2
<1> HIDE DEF s
<1>6. Stays(c, [c EXCEPT !.out = s])
  BY <1>1, <1>4, <1>5, StaysOut
<1> QED BY <1>6 DEF s

LEMMA StaysKnown ==
  ASSUME NEW c, IsLink(c), NEW S \in SUBSET Tx
  PROVE  Stays(c, [c EXCEPT !.known = S])
<1> HIDE DEF Msg
<1> QED BY DEF Stays, IsLink, Link

LEMMA StaysTimer ==
  ASSUME NEW c, IsLink(c), NEW b \in BOOLEAN
  PROVE  Stays(c, [c EXCEPT !.timer = b])
<1> HIDE DEF Msg
<1> QED BY DEF Stays, IsLink, Link

LEMMA StaysFlags ==
  ASSUME NEW c, IsLink(c), NEW b \in BOOLEAN
  PROVE  /\ Stays(c, [c EXCEPT !.sentMempool = b])
         /\ Stays(c, [c EXCEPT !.mempoolDone = b])
         /\ Stays(c, [c EXCEPT !.synced = b])
         /\ Stays(c, [c EXCEPT !.closing = b])
<1> HIDE DEF Msg
<1> QED BY DEF Stays, IsLink, Link

LEMMA StaysSendInv ==
  ASSUME NEW c, IsLink(c), Lives(c), NEW txs \in SUBSET Tx
  PROVE  Stays(c, SendInv(c, txs))
<1> DEFINE new == txs \ c.known
           d == [c EXCEPT !.known = @ \cup new]
           m == Message("inv", new)
<1>1. Stays(c, d)
  <2>1. c.known \cup new \in SUBSET Tx
    BY DEF IsLink, Link
  <2> QED BY <2>1, StaysKnown
<1>2. m \in Msg
  BY Messages
<1>3. SendInv(c, txs) = IF new = {} THEN c ELSE Send(d, m)
  BY DEF SendInv
<1> HIDE DEF d, m, Msg
<1>4. Stays(d, Send(d, m))
  BY <1>1, <1>2, StaysSend DEF Stays, Lives
<1> QED BY <1>1, <1>3, <1>4, StaysRefl, StaysTrans

LEMMA StaysSendMempool ==
  ASSUME NEW c, IsLink(c), NEW xs
  PROVE  Stays(c, SendMempool(c, xs))
<1> HIDE DEF Msg
<1>1. Published(xs) \subseteq Tx
  BY DEF Published
<1> QED BY <1>1 DEF Stays, IsLink, Link, SendMempool

LEMMA StaysPublish ==
  ASSUME NEW c, IsLink(c), Lives(c), NEW xs
  PROVE  Stays(c, PublishPendingTx(c, xs))
<1> DEFINE d == [c EXCEPT !.timer = @ \/ Waiting(xs) # {}]
<1>1. Stays(c, d)
  BY StaysTimer
<1>2. Stays(d, SendInv(d, Published(xs)))
  <2>1. Published(xs) \in SUBSET Tx
    BY DEF Published
  <2> HIDE DEF d
  <2> QED BY <1>1, <2>1, StaysSendInv DEF Stays, Lives
<1> QED BY <1>1, <1>2, StaysTrans DEF PublishPendingTx

LEMMA StaysLoad ==
  ASSUME NEW c, IsLink(c), Lives(c), NEW xs
  PROVE  Stays(c, LoadAndPublish(c, xs))
<1> DEFINE d == [c EXCEPT !.sentMempool = FALSE]
           e == PublishPendingTx(d, xs)
<1>1. Stays(c, d)
  BY StaysFlags
<1>2. Stays(d, e)
  <2> HIDE DEF d
  <2> QED BY <1>1, StaysPublish DEF Stays, Lives
<1>3. Stays(e, Send(e, Ping("loaded")))
  <2>1. Ping("loaded") \in Msg
    BY Messages DEF Callbacks
  <2>2. IsLink(e) /\ Lives(e)
    <3> HIDE DEF d, e
    <3> QED BY <1>1, <1>2 DEF Stays, Lives
  <2> HIDE DEF d, e, Msg
  <2> QED BY <2>1, <2>2, StaysSend
<1>4. LoadAndPublish(c, xs) = Send(e, Ping("loaded"))
  BY DEF LoadAndPublish
<1> HIDE DEF d, e
<1> QED BY <1>1, <1>2, <1>3, <1>4, StaysTrans

LEMMA StaysAskFor ==
  ASSUME NEW c, IsLink(c), Lives(c), NEW missing \in SUBSET Tx
  PROVE  Stays(c, AskFor(c, missing))
<1> DEFINE d == Send(c, Message("getdata", missing))
           e == Send(d, Ping("unrelayed"))
<1>1. Message("getdata", missing) \in Msg /\ Ping("unrelayed") \in Msg
  BY Messages DEF Callbacks
<1>2. AskFor(c, missing) \in {[c EXCEPT !.synced = TRUE], d, e}
  BY DEF AskFor
<1> HIDE DEF Msg
<1>3. Stays(c, d) /\ Stays(c, [c EXCEPT !.synced = TRUE])
  BY <1>1, StaysSend, StaysFlags
<1> HIDE DEF d
<1>4. Stays(d, e)
  BY <1>1, <1>3, StaysSend DEF Stays, Lives
<1> HIDE DEF e
<1>5. Stays(c, e)
  BY <1>3, <1>4, StaysTrans
<1> QED BY <1>2, <1>3, <1>5

-----------------------------------------------------------------------------
\* The connections, and those that came from them without a beginning or end.
AreLinks(ps) == ps = [q \in Peer |-> ps[q]] /\ \A q \in Peer : IsLink(ps[q])
AllStay(ps, qs) == AreLinks(qs) /\ \A q \in Peer : qs[q].link = ps[q].link

LEMMA AllStayOne ==
  ASSUME NEW ps, AreLinks(ps), NEW p \in Peer, NEW d, Stays(ps[p], d)
  PROVE  AllStay(ps, [ps EXCEPT ![p] = d])
<1>1. \A q \in Peer : [ps EXCEPT ![p] = d][q] = IF q = p THEN d ELSE ps[q]
  BY DEF AreLinks
<1>2. [ps EXCEPT ![p] = d] = [q \in Peer |-> [ps EXCEPT ![p] = d][q]]
  BY DEF AreLinks
<1> QED BY <1>1, <1>2 DEF AllStay, AreLinks, Stays

LEMMA AllStayLoad ==
  ASSUME NEW ps, AreLinks(ps), NEW xs, NEW dl, NEW degraded
  PROVE  AllStay(ps, LoadMempools(ps, xs, dl, degraded))
<1> DEFINE qs == LoadMempools(ps, xs, dl, degraded)
<1>1. qs = [q \in Peer |->
              IF ps[q].link # "connected" THEN ps[q]
              ELSE IF q # dl \/ degraded THEN LoadAndPublish(ps[q], xs)
              ELSE SendMempool(ps[q], xs)]
  BY DEF LoadMempools
<1> HIDE DEF qs
<1>2. ASSUME NEW q \in Peer PROVE Stays(ps[q], qs[q])
  <2>1. IsLink(ps[q])
    BY DEF AreLinks
  <2>2. qs[q] \in {ps[q], LoadAndPublish(ps[q], xs), SendMempool(ps[q], xs)}
    BY <1>1
  <2>3. ps[q].link = "connected" => Lives(ps[q])
    BY DEF Lives
  <2>4. ps[q].link # "connected" => qs[q] = ps[q]
    BY <1>1
  <2> QED BY <2>1, <2>2, <2>3, <2>4, StaysRefl, StaysLoad, StaysSendMempool
<1>3. qs = [q \in Peer |-> qs[q]]
  BY <1>1
<1>4. AllStay(ps, qs)
  BY <1>2, <1>3 DEF AllStay, AreLinks, Stays
<1> QED BY <1>4 DEF qs

LEMMA AllStayStopped ==
  ASSUME NEW ps, AreLinks(ps), NEW xs, NEW dl \in Peer \cup {NoPeer}
  PROVE  AllStay(ps, SyncStopped(ps, xs, dl))
<1>1. CASE dl = NoPeer \/ Waiting(xs) # {}
  BY <1>1 DEF SyncStopped, AllStay
<1>2. CASE ~ (dl = NoPeer \/ Waiting(xs) # {})
  <2> DEFINE d == [ps[dl] EXCEPT !.timer = FALSE]
  <2>1. dl \in Peer /\ SyncStopped(ps, xs, dl) = [ps EXCEPT ![dl] = d]
    BY <1>2 DEF SyncStopped
  <2>2. Stays(ps[dl], d)
    BY <2>1, StaysTimer DEF AreLinks
  <2> HIDE DEF d
  <2>3. AllStay(ps, [ps EXCEPT ![dl] = d])
    BY <2>1, <2>2, AllStayOne, Zenon
  <2> QED BY <2>1, <2>3
<1> QED BY <1>1, <1>2

LEMMA AllStayTrans ==
  ASSUME NEW ps, NEW qs, NEW rs, AllStay(ps, qs), AllStay(qs, rs)
  PROVE  AllStay(ps, rs)
BY DEF AllStay

LEMMA StaysHeard ==
  ASSUME NEW c, IsLink(c), NEW p, NEW t, NEW isWalletTx
  PROVE  Stays(c, Heard(c, p, t, isWalletTx))
<1> DEFINE isSync == syncing /\ p = download
           b == (c.timer /\ (Waiting(tx) \ {t} # {} \/ isSync)) \/ (isSync /\ isWalletTx)
<1>1. Heard(c, p, t, isWalletTx) = [c EXCEPT !.timer = b]
  BY DEF Heard
<1>2. b \in BOOLEAN
  OBVIOUS
<1> HIDE DEF b
<1> QED BY <1>1, <1>2, StaysTimer

LEMMA StaysWithout ==
  ASSUME NEW c, IsLink(c), c.link = "connected", c.out # <<>>, Head(c.out).kind = "inv"
           \/ Head(c.out).kind = "getdata", NEW t
  PROVE  Stays(c, Without(c, t))
<1> DEFINE m == Head(c.out)
           d == [m EXCEPT !.txs = @ \ {t}]
           s == <<d>> \o Tail(c.out)
<1>1. c.out \in Seq(Msg)
  BY DEF IsLink, Link
<1>2. m \in Msg /\ Tail(c.out) \in Seq(Msg)
  <2> HIDE DEF Msg
  <2> QED BY <1>1, HeadTailProperties
<1>3. d \in Msg
  BY <1>2 DEF Msg
<1>4. Without(c, t) \in {[c EXCEPT !.out = Tail(c.out)], [c EXCEPT !.out = s]}
  BY DEF Without
<1> HIDE DEF Msg, d
<1>5. <<d>> \in Seq(Msg)
  BY <1>3
<1>6. s \in Seq(Msg)
  BY <1>2, <1>5, ConcatProperties
<1> HIDE DEF s, m
<1>7. Stays(c, [c EXCEPT !.out = s])
  BY <1>6, StaysOut DEF Lives
<1> QED BY <1>4, <1>7, StaysPopped

-----------------------------------------------------------------------------
(***************************************************************************)
(* A step keeps the invariant if it leaves the connections there are, and  *)
(* lets only a connected peer count as relaying.                           *)
(***************************************************************************)
Begun(ps) == {p \in Peer : ps[p].link \in {"connected", "ending"}}

RelayInv ==
  AreLinks(peer) /\ download \in {NoPeer} \cup Begun(peer) /\ RelaysConnected

Leaves ==
  /\ AreLinks(peer') /\ connectedPeers(peer) \subseteq connectedPeers(peer')
  /\ Begun(peer) \subseteq Begun(peer')
Counts == \A t \in Tx : tx'[t].relays \subseteq tx[t].relays \cup connectedPeers(peer)

LEMMA RelayStep ==
  ASSUME RelayInv, Leaves, Counts, download' \in {NoPeer, download} \cup Begun(peer')
  PROVE  RelayInv'
BY DEF RelayInv, Leaves, Counts, RelaysConnected

LEMMA LeavesStay ==
  ASSUME AllStay(peer, peer')
  PROVE  Leaves
BY DEF AllStay, Leaves, connectedPeers, Begun

LEMMA LeavesOne ==
  ASSUME AreLinks(peer), NEW p \in Peer, NEW d, Stays(peer[p], d),
         peer' = [peer EXCEPT ![p] = d]
  PROVE  Leaves
<1>1. AllStay(peer, peer')
  BY AllStayOne, Zenon
<1> QED BY <1>1, LeavesStay

LEMMA CountsSame ==
  ASSUME tx' = tx
  PROVE  Counts
BY DEF Counts

\* One transaction changes, and what it counts is p at most.
LEMMA CountsOne ==
  ASSUME Fate, NEW t \in Tx, NEW y, tx' = [tx EXCEPT ![t] = y],
         y.relays \subseteq tx[t].relays \cup connectedPeers(peer)
  PROVE  Counts
<1>1. \A u \in Tx : tx'[u] = IF u = t THEN y ELSE tx[u]
  BY DEF Fate
<1> QED BY <1>1 DEF Counts

\* What is listed with t, of xs, has the relays it had.
LEMMA ListingRelays ==
  ASSUME NEW xs, xs \in [Tx -> Struct], NEW t \in Tx, NEW u \in Tx
  PROVE  AddTxToPublishList(xs, t)[u].relays = xs[u].relays
<1> DEFINE ys == AddTxToPublishList(xs, t)
<1>1. ys[u] = xs[u] \/ ys[u] = Enlisted(xs[u])
  BY Listing
<1>2. Enlisted(xs[u]).relays = xs[u].relays
  BY DEF Enlisted, Struct
<1> QED BY <1>1, <1>2

-----------------------------------------------------------------------------
(***************************************************************************)
(* What the application and the peers do.                                  *)
(***************************************************************************)
LEMMA RelayPublishTx ==
  ASSUME Fate, RelayInv, NEW t \in Tx, PublishTx(t)
  PROVE  RelayInv'
<1>1. PICK a : tx' = [tx EXCEPT ![t].call = a]
  BY DEF PublishTx
<1>2. Counts
  BY <1>1, CountsOne DEF Fate, Struct, Counts
<1>3. Leaves /\ download' = download
  BY DEF PublishTx, RelayInv, Leaves
<1> QED BY <1>2, <1>3, RelayStep DEF RelayInv

LEMMA RelayOffer ==
  ASSUME Fate, RelayInv, NEW t \in Tx, Offer(t)
  PROVE  RelayInv'
<1> DEFINE xs == [tx EXCEPT ![t].call = "waiting"]
           ys == AddTxToPublishList(xs, t)
           to == IF Cardinality(Connected(peer)) = 1 THEN Connected(peer)
                 ELSE Connected(peer) \ {download}
           Offered(p) == Send(PublishPendingTx(peer[p], ys), Ping("offered"))
<1>1. /\ tx' = ys /\ download' = download
      /\ peer' = [p \in Peer |-> IF p \notin to THEN peer[p] ELSE Offered(p)]
  BY DEF Offer
<1>2. xs \in [Tx -> Struct] /\ \A u \in Tx : xs[u].relays = tx[u].relays
  BY DEF Fate, Struct, Calls
<1>4. \A p \in to : Stays(peer[p], Offered(p))
  <2> SUFFICES ASSUME NEW p \in to PROVE Stays(peer[p], Offered(p))
    OBVIOUS
  <2> DEFINE d == PublishPendingTx(peer[p], ys)
  <2>1. p \in Peer /\ IsLink(peer[p]) /\ Lives(peer[p])
    BY DEF RelayInv, AreLinks, Connected, Lives
  <2> HIDE DEF xs, ys, to
  <2>2. Stays(peer[p], d)
    BY <2>1, StaysPublish
  <2>3. Ping("offered") \in Msg
    BY Messages DEF Callbacks
  <2>4. Stays(d, Send(d, Ping("offered")))
    <3> HIDE DEF d, Msg
    <3> QED BY <2>1, <2>2, <2>3, StaysSend DEF Stays, Lives
  <2> QED BY <2>2, <2>4, StaysTrans
<1> HIDE DEF xs, to
<1>3. Counts
  BY <1>1, <1>2, ListingRelays DEF Counts
<1> HIDE DEF Offered
<1>5. AllStay(peer, peer')
  BY <1>1, <1>4 DEF RelayInv, AllStay, AreLinks, Stays
<1> QED BY <1>1, <1>3, <1>5, LeavesStay, RelayStep DEF RelayInv

\* p asks for t, has it or gives it: p is connected.
LEMMA RelayRequestedTx ==
  ASSUME Fate, RelayInv, NEW p \in Peer, NEW t \in Tx, RequestedTx(p, t)
  PROVE  RelayInv'
<1>1. p \in connectedPeers(peer)
  BY DEF RequestedTx, Answers, connectedPeers
<1>2. PICK y : tx' = [tx EXCEPT ![t] = y] /\ y.relays \subseteq tx[t].relays \cup {p}
  <2> DEFINE y == IF ~ tx[t].listed THEN tx[t]
                  ELSE IF ~ tx[t].valid THEN Unlisted(Answered(tx[t], "EINVAL"))
                  ELSE [Answered(tx[t], "ok") EXCEPT !.relays = @ \cup {p}, !.held = TRUE,
                                                     !.shared = @ \/ ~ tx[t].held]
  <2>1. tx' = [tx EXCEPT ![t] = y]
    BY DEF RequestedTx
  <2>2. y.relays \subseteq tx[t].relays \cup {p}
    BY DEF Fate, Struct, Answered, Unlisted
  <2> QED BY <2>1, <2>2
<1>3. Counts
  BY <1>1, <1>2, CountsOne
<1>4. Leaves
  <2> DEFINE c == Without(peer[p], t)
             d == Heard(c, p, t, FALSE)
  <2>1. Stays(peer[p], c)
    BY StaysWithout DEF RelayInv, AreLinks, RequestedTx, Answers, Ahead
  <2> HIDE DEF c
  <2>2. Stays(c, d)
    <3>1. IsLink(c)
      BY <2>1 DEF Stays
    <3> QED BY <3>1, StaysHeard
  <2>3. peer' = [peer EXCEPT ![p] = d]
    BY DEF RequestedTx, c
  <2> HIDE DEF d
  <2> QED BY <2>1, <2>2, <2>3, StaysTrans, LeavesOne DEF RelayInv
<1>5. download' = download
  BY DEF RequestedTx
<1> QED BY <1>3, <1>4, <1>5, RelayStep DEF RelayInv

LEMMA RelayHasTx ==
  ASSUME Fate, RelayInv, NEW p \in Peer, NEW t \in Tx, HasTx(p, t)
  PROVE  RelayInv'
<1>1. p \in connectedPeers(peer)
  BY DEF HasTx, Announces, connectedPeers
<1>2. PICK y : tx' = [tx EXCEPT ![t] = y] /\ y.relays \subseteq tx[t].relays \cup {p}
  <2> DEFINE y == IF ~ (tx[t].listed \/ tx[t].held) THEN tx[t]
                  ELSE [Answered(tx[t], "ok") EXCEPT
                          !.relays = Counted(tx[t], p), !.requests = @ \ {p},
                          !.held = TRUE, !.shared = @ \/ (tx[t].listed /\ ~ tx[t].held)]
  <2>1. tx' = [tx EXCEPT ![t] = y]
    BY DEF HasTx
  <2>2. y.relays \subseteq tx[t].relays \cup {p}
    BY DEF Fate, Struct, Answered, Counted
  <2> QED BY <2>1, <2>2
<1>3. Counts
  BY <1>1, <1>2, CountsOne
<1>4. Leaves
  <2> DEFINE d == Heard(peer[p], p, t, tx[t].listed \/ tx[t].held)
  <2>1. Stays(peer[p], d)
    BY StaysHeard DEF RelayInv, AreLinks
  <2>2. peer' = [peer EXCEPT ![p] = d]
    BY DEF HasTx
  <2> HIDE DEF d
  <2> QED BY <2>1, <2>2, LeavesOne DEF RelayInv
<1>5. download' = download
  BY DEF HasTx
<1> QED BY <1>3, <1>4, <1>5, RelayStep DEF RelayInv

LEMMA RelayRelayedTx ==
  ASSUME Fate, RelayInv, NEW p \in Peer, NEW t \in Tx, RelayedTx(p, t)
  PROVE  RelayInv'
<1> DEFINE y == [Answered(tx[t], "ok") EXCEPT !.held = TRUE, !.requests = @ \ {p},
                                              !.relays = Counted(tx[t], p)]
           xs == [tx EXCEPT ![t] = y]
<1>1. p \in connectedPeers(peer) /\ (tx' = xs \/ tx' = AddTxToPublishList(xs, t))
  BY DEF RelayedTx, Answers, connectedPeers
<1>2. y \in Struct /\ y.relays \subseteq tx[t].relays \cup {p}
  <2>1. tx[t] \in Struct
    BY DEF Fate
  <2>2. Answered(tx[t], "ok") \in Struct /\ Answered(tx[t], "ok").relays = tx[t].relays
    BY <2>1 DEF Struct, Answered, Calls
  <2>3. Counted(tx[t], p) \in SUBSET Peer /\ Counted(tx[t], p) \subseteq tx[t].relays \cup {p}
    BY <2>1 DEF Struct, Counted
  <2> QED BY <2>2, <2>3 DEF Struct
<1> HIDE DEF y
<1>3. xs \in [Tx -> Struct] /\ \A u \in Tx : xs[u] = IF u = t THEN y ELSE tx[u]
  BY <1>2 DEF Fate
<1> HIDE DEF xs
<1>4. \A u \in Tx : tx'[u].relays = xs[u].relays
  BY <1>1, <1>3, ListingRelays
<1>5. Counts
  BY <1>1, <1>2, <1>3, <1>4 DEF Counts
<1>6. Leaves
  <2> DEFINE c == Without(peer[p], t)
             d == Heard(c, p, t, TRUE)
  <2>1. Stays(peer[p], c)
    BY StaysWithout DEF RelayInv, AreLinks, RelayedTx, Answers, Ahead
  <2> HIDE DEF c
  <2>2. Stays(c, d)
    <3>1. IsLink(c)
      BY <2>1 DEF Stays
    <3> QED BY <3>1, StaysHeard
  <2>3. peer' = [peer EXCEPT ![p] = d]
    BY DEF RelayedTx, c
  <2> HIDE DEF d
  <2> QED BY <2>1, <2>2, <2>3, StaysTrans, LeavesOne DEF RelayInv
<1>7. download' = download
  BY DEF RelayedTx
<1> QED BY <1>5, <1>6, <1>7, RelayStep DEF RelayInv

LEMMA RelayDataNotfound ==
  ASSUME Fate, RelayInv, NEW p \in Peer, DataNotfound(p)
  PROVE  RelayInv'
<1> DEFINE missing == Head(peer[p].out).txs
<1>1. /\ download' = download /\ peer' = [peer EXCEPT ![p] = Popped(p)]
      /\ tx' = [t \in Tx |-> IF t \notin missing THEN tx[t]
                  ELSE [tx[t] EXCEPT !.relays = @ \ {p}, !.requests = @ \ {p}]]
  BY DEF DataNotfound
<1> HIDE DEF missing
<1>2. Counts
  BY <1>1 DEF Counts, Fate, Struct
<1>3. Stays(peer[p], Popped(p))
  BY StaysPopped DEF Popped, RelayInv, AreLinks, DataNotfound, Answers, Ahead
<1> QED BY <1>1, <1>2, <1>3, LeavesOne, RelayStep DEF RelayInv

LEMMA RelayRejectedTx ==
  ASSUME Fate, RelayInv, NEW p \in Peer, NEW t \in Tx, NEW spent, RejectedTx(p, t, spent)
  PROVE  RelayInv'
<1> DEFINE y == [tx[t] EXCEPT !.requests = @ \ {p},
                              !.relays = IF tx[t].held THEN @ \ {p} ELSE @]
<1>1. tx' = [tx EXCEPT ![t] = y] /\ y.relays \subseteq tx[t].relays
  BY DEF RejectedTx, Fate, Struct
<1> HIDE DEF y
<1>2. Counts
  BY <1>1, CountsOne
<1>3. PICK b \in BOOLEAN : peer' = [peer EXCEPT ![p].closing = b]
  BY DEF RejectedTx
<1>4. Leaves
  <2> DEFINE d == [peer[p] EXCEPT !.closing = b]
  <2>1. Stays(peer[p], d) /\ peer' = [peer EXCEPT ![p] = d]
    BY <1>3, StaysFlags DEF RelayInv, AreLinks
  <2> HIDE DEF d
  <2> QED BY <2>1, LeavesOne DEF RelayInv
<1>5. download' = download
  BY DEF RejectedTx
<1> QED BY <1>2, <1>4, <1>5, RelayStep DEF RelayInv

\* What a peer answers without a change of what is known of transactions.
LEMMA RelayHeard ==
  ASSUME RelayInv, NEW p \in Peer, NEW t,
         \/ t \in Tx /\ (NotInterested(p, t) \/ AcceptInv(p, t))
         \/ MempoolAnswered(p) \/ Progress(p) \/ CatchUp(p)
  PROVE  RelayInv'
<1>1. IsLink(peer[p])
  BY DEF RelayInv, AreLinks
<1>2. CASE t \in Tx /\ NotInterested(p, t)
  <2>1. Stays(peer[p], Without(peer[p], t)) /\ peer' = [peer EXCEPT ![p] = Without(peer[p], t)]
    BY <1>1, <1>2, StaysWithout DEF NotInterested, Answers, Ahead
  <2>2. Leaves
    BY <2>1, LeavesOne DEF RelayInv
  <2> QED BY <1>2, <2>2, CountsSame, RelayStep DEF NotInterested, RelayInv
<1>3. CASE t \in Tx /\ AcceptInv(p, t)
  <2> DEFINE c == [peer[p] EXCEPT !.known = @ \cup {t}]
             d == Send(c, Message("getdata", {t}))
  <2>0. Stays(peer[p], c) /\ Lives(peer[p])
    <3>1. peer[p].known \cup {t} \in SUBSET Tx
      BY <1>1, <1>3 DEF IsLink, Link
    <3> QED BY <1>1, <1>3, <3>1, StaysKnown DEF AcceptInv, Announces, Lives
  <2>1. peer' = [peer EXCEPT ![p] = d]
    BY <1>3 DEF AcceptInv
  <2>4. Message("getdata", {t}) \in Msg
    BY <1>3, Messages
  <2> HIDE DEF c, Msg
  <2>2. Stays(c, d)
    BY <2>0, <2>4, StaysSend DEF Stays, Lives
  <2> HIDE DEF d
  <2>3. Leaves
    BY <2>0, <2>1, <2>2, StaysTrans, LeavesOne DEF RelayInv
  <2> QED BY <1>3, <2>3, CountsSame, RelayStep DEF AcceptInv, RelayInv
<1>4. CASE MempoolAnswered(p)
  <2> DEFINE c == [peer[p] EXCEPT !.mempoolDone = FALSE]
             d == Send(c, Ping("mempool"))
  <2>1. peer' = [peer EXCEPT ![p] = d] /\ Stays(peer[p], c)
    BY <1>1, <1>4, StaysFlags DEF MempoolAnswered
  <2>4. Ping("mempool") \in Msg /\ Lives(peer[p])
    BY <1>4, Messages DEF Callbacks, MempoolAnswered, Lives
  <2> HIDE DEF c, Msg
  <2>2. Stays(c, d)
    BY <2>1, <2>4, StaysSend DEF Stays, Lives
  <2> HIDE DEF d
  <2>3. Leaves
    BY <2>1, <2>2, StaysTrans, LeavesOne DEF RelayInv
  <2> QED BY <1>4, <2>3, CountsSame, RelayStep DEF MempoolAnswered, RelayInv
<1>5. CASE Progress(p)
  <2> DEFINE d == [peer[p] EXCEPT !.timer = TRUE]
  <2>1. peer' = [peer EXCEPT ![p] = d] /\ Stays(peer[p], d)
    BY <1>1, <1>5, StaysTimer DEF Progress
  <2> HIDE DEF d
  <2>2. Leaves
    BY <2>1, LeavesOne DEF RelayInv
  <2> QED BY <1>5, <2>2, CountsSame, RelayStep DEF Progress, RelayInv
<1>6. CASE CatchUp(p)
  <2>1. Leaves
    BY <1>6, AllStayLoad, LeavesStay DEF CatchUp, RelayInv
  <2> QED BY <1>6, <2>1, CountsSame, RelayStep DEF CatchUp, RelayInv
<1> QED BY <1>2, <1>3, <1>4, <1>5, <1>6

LEMMA RelayConfirm ==
  ASSUME Fate, RelayInv, NEW t \in Tx, Confirm(t)
  PROVE  RelayInv'
<1> DEFINE y == [Unlisted(tx[t]) EXCEPT !.relays = {}, !.confirmed = TRUE]
<1>1. tx' = [tx EXCEPT ![t] = y] /\ y.relays = {}
  BY DEF Confirm, Fate, Struct, Unlisted
<1> HIDE DEF y
<1>2. Counts
  BY <1>1, CountsOne
<1>3. Leaves /\ download' = download
  BY DEF Confirm, Leaves, RelayInv
<1> QED BY <1>2, <1>3, RelayStep DEF RelayInv

LEMMA RelayInvalidate ==
  ASSUME Fate, RelayInv, NEW t \in Tx, Invalidate(t)
  PROVE  RelayInv'
<1> DEFINE spending == Spenders({t}, Tx)
<1>1. tx' = [u \in Tx |-> [tx[u] EXCEPT !.valid = @ /\ u \notin spending]]
  BY DEF Invalidate
<1> HIDE DEF spending
<1>2. Counts
  BY <1>1 DEF Counts, Fate, Struct
<1>3. Leaves /\ download' = download
  BY DEF Invalidate, Leaves, RelayInv
<1> QED BY <1>2, <1>3, RelayStep DEF RelayInv

-----------------------------------------------------------------------------
(***************************************************************************)
(* The callbacks of pings.                                                 *)
(***************************************************************************)
LEMMA AllStayPopped ==
  ASSUME RelayInv, NEW p \in Peer, peer[p].out # <<>>
  PROVE  AllStay(peer, [peer EXCEPT ![p] = Popped(p)])
<1>1. Stays(peer[p], Popped(p))
  BY StaysPopped DEF Popped, RelayInv, AreLinks
<1> QED BY <1>1, AllStayOne, Zenon DEF RelayInv

\* p is one of the connections qs, and becomes d.
LEMMA AllStayThen ==
  ASSUME NEW ps, NEW qs, AllStay(ps, qs), NEW p \in Peer, NEW d, Stays(qs[p], d)
  PROVE  AllStay(ps, [qs EXCEPT ![p] = d])
<1>1. AreLinks(qs)
  BY DEF AllStay
<1>2. AllStay(qs, [qs EXCEPT ![p] = d])
  BY <1>1, AllStayOne, Zenon
<1> HIDE DEF AllStay
<1> QED BY <1>2, AllStayTrans, Zenon

LEMMA CallLinks ==
  ASSUME RelayInv, NEW p \in Peer, NEW success \in BOOLEAN, Call(p, success), peer[p].out # <<>>
  PROVE  AllStay(peer, peer')
<1> DEFINE c == Popped(p)
           ps == [peer EXCEPT ![p] = c]
<1>1. AllStay(peer, ps) /\ AreLinks(ps)
  BY AllStayPopped DEF AllStay
<1>2. ps[p] = c /\ Stays(peer[p], c) /\ IsLink(c) /\ Lives(c)
  <2>1. peer[p].out # <<>> /\ IsLink(peer[p]) /\ Lives(peer[p])
    BY DEF RelayInv, AreLinks, IsLink, Lives
  <2>2. Stays(peer[p], c)
    BY <2>1, StaysPopped DEF Popped
  <2> HIDE DEF c
  <2> QED BY <2>1, <2>2 DEF Stays, Lives, RelayInv, AreLinks
<1>7. Unrelayed(tx, p) \in SUBSET Tx
  BY DEF Unrelayed, Unconfirmed
<1>3. CASE LoadBloomFilterDone(p, success)
  <2>1. \/ peer' = [peer EXCEPT ![p] = SendMempool(c, tx)]
        \/ peer' = ps
        \/ peer' = SyncStopped(ps, tx, download)
    BY <1>3 DEF LoadBloomFilterDone
  <2> HIDE DEF c
  <2>2. AllStay(peer, [peer EXCEPT ![p] = SendMempool(c, tx)])
    <3>1. Stays(peer[p], SendMempool(c, tx))
      BY <1>2, StaysSendMempool, StaysTrans
    <3> QED BY <3>1, AllStayOne, Zenon DEF RelayInv
  <2> HIDE DEF ps
  <2>3. AllStay(peer, SyncStopped(ps, tx, download))
    BY <1>1, AllStayStopped, AllStayTrans DEF RelayInv, Begun
  <2> QED BY <1>1, <2>1, <2>2, <2>3
<1>4. CASE MempoolDone(p, success)
  <2> DEFINE stopped == IF syncing THEN SyncStopped(ps, tx, download) ELSE ps
  <2>1. \/ peer' = [stopped EXCEPT ![p] = AskFor(stopped[p], Unrelayed(tx, p))]
        \/ peer' = ps
    BY <1>4 DEF MempoolDone
  <2> HIDE DEF c, ps
  <2>2. AllStay(peer, stopped)
    BY <1>1, AllStayStopped, AllStayTrans DEF RelayInv, Begun
  <2> HIDE DEF stopped
  <2>5. IsLink(stopped[p]) /\ Lives(stopped[p])
    BY <1>2, <2>2 DEF AllStay, AreLinks, Lives, Stays
  <2>3. Stays(stopped[p], AskFor(stopped[p], Unrelayed(tx, p)))
    BY <1>7, <2>5, StaysAskFor
  <2>4. AllStay(peer, [stopped EXCEPT ![p] = AskFor(stopped[p], Unrelayed(tx, p))])
    BY <2>2, <2>3, AllStayThen, Zenon
  <2> QED BY <1>1, <2>1, <2>4
<1>5. CASE UnrelayedDone(p, success)
  <2> DEFINE d == [c EXCEPT !.synced = @ \/ success]
  <2>1. peer' = [peer EXCEPT ![p] = d]
    BY <1>5 DEF UnrelayedDone
  <2> HIDE DEF c
  <2>2. Stays(c, d)
    <3>1. (c.synced \/ success) \in BOOLEAN
      OBVIOUS
    <3> QED BY <1>2, <3>1, StaysFlags
  <2> HIDE DEF d
  <2>3. Stays(peer[p], d)
    BY <1>2, <2>2, StaysTrans
  <2> QED BY <2>1, <2>3, AllStayOne, Zenon DEF RelayInv
<1>6. CASE PublishTxInvDone(p)
  <2> DEFINE d == AskFor(c, Unrelayed(tx, p))
  <2>1. peer' = [peer EXCEPT ![p] = d]
    BY <1>6 DEF PublishTxInvDone
  <2> HIDE DEF c
  <2>2. Stays(c, d)
    BY <1>2, <1>7, StaysAskFor
  <2> HIDE DEF d
  <2>3. Stays(peer[p], d)
    BY <1>2, <2>2, StaysTrans
  <2> QED BY <2>1, <2>3, AllStayOne, Zenon DEF RelayInv
<1> QED BY <1>3, <1>4, <1>5, <1>6 DEF Call

LEMMA RelayCall ==
  ASSUME Fate, RelayInv, NEW p \in Peer, NEW success \in BOOLEAN, Call(p, success),
         peer[p].out # <<>>
  PROVE  RelayInv'
<1>1. PICK missing : tx' \in {tx, Asked(tx, p, missing), Sweep(tx)}
  BY DEF Call, LoadBloomFilterDone, MempoolDone, UnrelayedDone, PublishTxInvDone
<1>2. Counts
  <2>1. CASE tx' = Asked(tx, p, missing)
    BY <2>1 DEF Counts, Asked, Fate, Struct
  <2>2. CASE tx' = Sweep(tx)
    <3> DEFINE dropped == Spenders(Unknown(tx), {t \in Tx : tx[t].held})
    <3>1. tx' = [t \in Tx |-> IF t \notin dropped THEN tx[t]
                    ELSE [tx[t] EXCEPT !.held = FALSE, !.freed = @ \/ tx[t].shared]]
      BY <2>2 DEF Sweep
    <3> HIDE DEF dropped
    <3>2. \A t \in Tx : tx[t] \in Struct
      BY DEF Fate
    <3>3. \A t \in Tx : tx'[t].relays = tx[t].relays
      BY <3>1, <3>2 DEF Struct
    <3> QED BY <3>3 DEF Counts
  <2> QED BY <1>1, <2>1, <2>2, CountsSame
<1>3. Leaves
  BY CallLinks, LeavesStay
<1>4. download' = download
  BY DEF Call
<1> QED BY <1>2, <1>3, <1>4, RelayStep DEF RelayInv

-----------------------------------------------------------------------------
(***************************************************************************)
(* Connections begin and end.                                              *)
(***************************************************************************)
LEMMA RelayRefuse ==
  ASSUME RelayInv, NEW p \in Peer, Refuse(p)
  PROVE  RelayInv'
<1> DEFINE d == [peer[p] EXCEPT !.link = "connected", !.timer = FALSE, !.closing = TRUE]
<1>1. peer' = [peer EXCEPT ![p] = d]
  BY DEF Refuse, RelayInv, AreLinks
<1>2. IsLink(d) /\ d.link = "connected"
  <2> HIDE DEF Msg
  <2> QED BY DEF RelayInv, AreLinks, IsLink, Link, Links
<1> HIDE DEF d
<1>3. Leaves
  BY <1>1, <1>2 DEF Leaves, RelayInv, AreLinks, connectedPeers, Begun
<1> QED BY <1>3, CountsSame, RelayStep DEF Refuse, RelayInv

LEMMA RelayPeerConnected ==
  ASSUME RelayInv, NEW p \in Peer, PeerConnected(p)
  PROVE  RelayInv'
<1> DEFINE d == [peer[p] EXCEPT !.link = "connected", !.timer = FALSE]
           ps == [peer EXCEPT ![p].link = "connected", ![p].timer = FALSE]
<1>1. ps = [peer EXCEPT ![p] = d]
  BY DEF RelayInv, AreLinks
<1>2. IsLink(d) /\ d.link = "connected"
  <2> HIDE DEF Msg
  <2> QED BY DEF RelayInv, AreLinks, IsLink, Link, Links
<1> HIDE DEF d
<1>3. /\ AreLinks(ps) /\ connectedPeers(peer) \subseteq connectedPeers(ps)
      /\ Begun(peer) \subseteq Begun(ps) /\ Lives(ps[p])
  BY <1>1, <1>2 DEF RelayInv, AreLinks, connectedPeers, Begun, Lives
<1>4. AllStay(ps, peer') /\ download' \in {download} \cup Begun(ps)
  <2>1. CASE download # NoPeer
    <3>1. /\ peer' = ps \/ peer' = [ps EXCEPT ![p] = LoadAndPublish(ps[p], tx)]
          /\ download' = download
      BY <2>1 DEF PeerConnected
    <3> HIDE DEF ps
    <3>2. AllStay(ps, ps)
      BY <1>3 DEF AllStay
    <3>3. AllStay(ps, [ps EXCEPT ![p] = LoadAndPublish(ps[p], tx)])
      <4>1. Stays(ps[p], LoadAndPublish(ps[p], tx))
        BY <1>3, StaysLoad DEF AreLinks
      <4> QED BY <1>3, <4>1, AllStayOne, Zenon
    <3> QED BY <3>1, <3>2, <3>3 DEF RelayInv
  <2>2. CASE download = NoPeer
    <3> DEFINE Started(q) == [ps EXCEPT ![q] =
                              PublishPendingTx([ps[q] EXCEPT !.sentMempool = FALSE], tx)]
    <3>1. PICK q \in Connected(ps), degraded \in BOOLEAN :
            /\ download' = q
            /\ \/ peer' = [Started(q) EXCEPT ![q].timer = TRUE]
               \/ peer' = LoadMempools(Started(q), tx, q, degraded)
      BY <2>2 DEF PeerConnected
    <3>2. q \in Peer /\ q \in Begun(ps) /\ Lives(ps[q])
      BY DEF Connected, Begun, Lives
    <3> DEFINE b == Started(q)
               e == [ps[q] EXCEPT !.sentMempool = FALSE]
               f == PublishPendingTx(e, tx)
    <3>3. b = [ps EXCEPT ![q] = f]
      OBVIOUS
    <3> HIDE DEF b, ps
    <3>4. Stays(ps[q], e)
      BY <1>3, <3>2, StaysFlags DEF AreLinks
    <3> HIDE DEF e
    <3>5. Stays(e, f)
      BY <3>2, <3>4, StaysPublish DEF Stays, Lives
    <3> HIDE DEF f
    <3>6. AllStay(ps, b)
      <4>1. Stays(ps[q], f)
        BY <3>4, <3>5, StaysTrans
      <4> QED BY <1>3, <3>2, <3>3, <4>1, AllStayOne, Zenon
    <3>7. AllStay(ps, LoadMempools(b, tx, q, degraded))
      BY <3>6, AllStayLoad, AllStayTrans DEF AllStay
    <3>8. AllStay(ps, [b EXCEPT ![q].timer = TRUE])
      <4> DEFINE g == [b[q] EXCEPT !.timer = TRUE]
      <4>1. Stays(b[q], g)
        BY <3>2, <3>6, StaysTimer DEF AllStay, AreLinks
      <4> HIDE DEF g
      <4>2. AllStay(ps, [b EXCEPT ![q] = g])
        BY <3>2, <3>6, <4>1, AllStayThen, Zenon
      <4> QED BY <4>2 DEF g
    <3>9. peer' = [b EXCEPT ![q].timer = TRUE] \/ peer' = LoadMempools(b, tx, q, degraded)
      BY <3>1 DEF b
    <3> QED BY <3>1, <3>2, <3>7, <3>8, <3>9
  <2> QED BY <2>1, <2>2
<1> HIDE DEF ps
<1>5. Leaves /\ Begun(ps) \subseteq Begun(peer')
  BY <1>3, <1>4 DEF AllStay, Leaves, connectedPeers, Begun
<1>6. Counts
  BY CountsSame DEF PeerConnected
<1> QED BY <1>4, <1>5, <1>6, RelayStep

LEMMA PingsIs ==
  ASSUME NEW s \in Seq(Msg)
  PROVE  Pings(s) \in Seq(Msg) /\ \A i \in 1 .. Len(Pings(s)) : Pings(s)[i].kind = "ping"
<1> DEFINE at == {i \in DOMAIN s : s[i].kind = "ping"}
           n == Cardinality(at)
           nth(k) == CHOOSE i \in at : PlaceIn(at, i) = k
<1> HIDE DEF Msg
<1>1. DOMAIN s = 1 .. Len(s) /\ Len(s) \in Nat /\ \A i \in DOMAIN s : s[i] \in Msg
  BY LenProperties, ElementOfSeq
<1>2. at \subseteq 1 .. Len(s)
  BY <1>1
<1>3. n \in Nat
  <2> DEFINE m == Len(s)
  <2>1. at \subseteq 1 .. m /\ m \in Nat
    BY <1>1, <1>2
  <2> HIDE DEF at, m
  <2>2. IsFiniteSet(1 .. m)
    BY <2>1, FS_Interval
  <2>3. IsFiniteSet(at)
    BY <2>1, <2>2, FS_Subset
  <2> QED BY <2>3, FS_CardinalityType
<1>4. \A k \in 1 .. n : nth(k) \in at
  <2> SUFFICES ASSUME NEW k \in 1 .. n PROVE nth(k) \in at
    OBVIOUS
  <2>1. \E i \in at : PlaceIn(at, i) = k
    <3> HIDE DEF at
    <3> QED BY <1>1, <1>2, Nth
  <2> HIDE DEF at
  <2> QED BY <2>1
<1>5. Pings(s) = [k \in 1 .. n |-> s[nth(k)]]
  BY DEF Pings, PlaceIn
<1>6. \A k \in 1 .. n : s[nth(k)] \in Msg /\ s[nth(k)].kind = "ping"
  <2> HIDE DEF nth
  <2> QED BY <1>1, <1>4
<1> HIDE DEF nth, n
<1>7. Pings(s) \in [1 .. n -> Msg]
  BY <1>5, <1>6
<1>8. Pings(s) \in Seq(Msg) /\ Len(Pings(s)) = n
  BY <1>3, <1>7
<1> QED BY <1>5, <1>6, <1>8

LEMMA RelayThreadEnd ==
  ASSUME RelayInv, NEW p \in Peer, NEW error \in Errors, ThreadEnd(p, error),
         peer[p].link \in {"connecting", "connected"}
  PROVE  RelayInv'
<1> DEFINE s == Pings(peer[p].out)
           d == [peer[p] EXCEPT !.link = "ending", !.error = error, !.timer = FALSE, !.out = s]
<1>1. peer' = [peer EXCEPT ![p] = d]
  BY DEF ThreadEnd, RelayInv, AreLinks
<1>2. s \in Seq(Msg) /\ \A i \in 1 .. Len(s) : s[i].kind = "ping"
  <2>1. peer[p].out \in Seq(Msg)
    BY DEF RelayInv, AreLinks, IsLink, Link
  <2> QED BY <2>1, PingsIs
<1>3. IsLink(d) /\ d.link = "ending"
  <2> HIDE DEF Msg, s
  <2> QED BY <1>2 DEF RelayInv, AreLinks, IsLink, Link, Links
<1> HIDE DEF d
<1>4. Leaves
  BY <1>1, <1>3 DEF Leaves, RelayInv, AreLinks, connectedPeers, Begun
<1> QED BY <1>4, CountsSame, RelayStep DEF ThreadEnd, RelayInv

LEMMA NoLinkIs ==
  ASSUME NEW l \in {"none", "leaving", "connecting"}
  PROVE  IsLink([NoLink EXCEPT !.link = l]) /\ [NoLink EXCEPT !.link = l].link = l
<1>1. <<>> \in Seq(Msg)
  OBVIOUS
<1> HIDE DEF Msg
<1> QED BY <1>1 DEF IsLink, Link, NoLink, Links, Errors

\* The peer that ends is the only one that is lost, and it counts no more.
LEMMA RelayDisconnected ==
  ASSUME Fate, RelayInv, NEW p \in Peer, Disconnected(p)
  PROVE  RelayInv'
<1> DEFINE error == TxError(p)
           xs == [t \in Tx |-> [tx[t] EXCEPT !.relays = @ \ {p}]]
<1>1. tx' = Canceled(xs, error) /\ download' \in {NoPeer, download}
  BY DEF Disconnected
<1> HIDE DEF error
<1>2. xs \in [Tx -> Struct] /\ \A t \in Tx : xs[t].relays = tx[t].relays \ {p}
  BY DEF Fate, Struct
<1> HIDE DEF xs
<1>3. \A t \in Tx : tx'[t].relays = tx[t].relays \ {p}
  <2> SUFFICES ASSUME NEW t \in Tx PROVE tx'[t].relays = xs[t].relays
    BY <1>2
  <2>1. tx'[t] = xs[t] \/ tx'[t] = Unlisted(Answered(xs[t], error))
    BY <1>1 DEF Canceled
  <2>2. Unlisted(Answered(xs[t], error)).relays = xs[t].relays
    BY <1>2 DEF Unlisted, Answered, Struct
  <2> QED BY <2>1, <2>2
<1>4. /\ AreLinks(peer') /\ connectedPeers(peer) \ {p} \subseteq connectedPeers(peer')
      /\ Begun(peer) \ {p} \subseteq Begun(peer')
  <2>1. PICK l \in {"none", "leaving"} : peer' = [peer EXCEPT ![p] = [NoLink EXCEPT !.link = l]]
    BY DEF Disconnected, NoLink
  <2> DEFINE d == [NoLink EXCEPT !.link = l]
  <2>2. IsLink(d)
    BY NoLinkIs
  <2> HIDE DEF d
  <2>3. peer' = [peer EXCEPT ![p] = d]
    BY <2>1 DEF d
  <2> QED BY <2>2, <2>3 DEF RelayInv, AreLinks, connectedPeers, Begun
<1>5. download' \in {NoPeer} \cup (Begun(peer) \ {p})
  BY PublishAssumption DEF Disconnected, RelayInv
<1> QED BY <1>3, <1>4, <1>5 DEF RelayInv, RelaysConnected

\* Connections are opened to peers that have none.
LEMMA RelayConnect ==
  ASSUME RelayInv, NEW ps, AreLinks(ps), connectedPeers(peer) \subseteq connectedPeers(ps),
         Begun(peer) \subseteq Begun(ps), BRPeerManagerConnect(ps)
  PROVE  RelayInv'
<1> DEFINE d == [NoLink EXCEPT !.link = "connecting"]
<1>1. PICK new \in SUBSET {p \in Peer : ps[p].link = "none"} :
        peer' = [p \in Peer |-> IF p \in new THEN d ELSE ps[p]]
  BY DEF BRPeerManagerConnect
<1>2. IsLink(d)
  BY NoLinkIs
<1> HIDE DEF d
<1>3. Leaves
  BY <1>1, <1>2 DEF Leaves, AreLinks, connectedPeers, Begun
<1> QED BY <1>3, CountsSame, RelayStep DEF BRPeerManagerConnect, RelayInv

LEMMA RelayReconnect ==
  ASSUME RelayInv, NEW p \in Peer, Reconnect(p)
  PROVE  RelayInv'
<1> DEFINE ps == [peer EXCEPT ![p] = NoLink]
<1>1. IsLink(NoLink)
  <2>1. NoLink = [NoLink EXCEPT !.link = "none"]
    BY DEF NoLink
  <2> QED BY <2>1, NoLinkIs
<1>2. /\ AreLinks(ps) /\ connectedPeers(peer) \subseteq connectedPeers(ps)
      /\ Begun(peer) \subseteq Begun(ps)
  BY <1>1 DEF Reconnect, RelayInv, AreLinks, connectedPeers, Begun
<1>3. BRPeerManagerConnect(ps)
  BY DEF Reconnect
<1> HIDE DEF ps
<1> QED BY <1>2, <1>3, RelayConnect

-----------------------------------------------------------------------------
LEMMA RelayInit ==
  ASSUME Init
  PROVE  RelayInv
<1>1. IsLink(NoLink)
  BY DEF IsLink, Link, NoLink, Links, Errors
<1>2. AreLinks(peer) /\ download = NoPeer
  BY <1>1 DEF Init, AreLinks
<1>3. RelaysConnected
  BY DEF Init, NewTx, RelaysConnected
<1> QED BY <1>2, <1>3 DEF RelayInv

LEMMA RelayNext ==
  ASSUME Fate, RelayInv, [Next]_vars
  PROVE  RelayInv'
<1>1. CASE Connect
  BY <1>1, RelayConnect DEF Connect, RelayInv
<1>2. ASSUME NEW t \in Tx, PublishTx(t) \/ Offer(t) \/ Confirm(t) \/ Invalidate(t)
      PROVE  RelayInv'
  BY <1>2, RelayPublishTx, RelayOffer, RelayConfirm, RelayInvalidate
<1>3. ASSUME NEW p \in Peer, Thread(p) \/ Break(p) PROVE RelayInv'
  <2>1. CASE Closed(p) \/ Timeout(p) \/ Break(p)
    <3>1. {"none", "ECONNRESET", "ETIMEDOUT"} \subseteq Errors
      BY DEF Errors
    <3>2. PICK error \in Errors : ThreadEnd(p, error)
      BY <2>1, <3>1 DEF Closed, Timeout, Break
    <3>3. peer[p].link \in {"connecting", "connected"}
      BY <2>1 DEF Closed, Timeout, Break
    <3> QED BY <3>2, <3>3, RelayThreadEnd
  <2>2. CASE Drain(p)
    BY <2>2, RelayCall DEF Drain
  <2>3. CASE Disconnected(p)
    BY <2>3, RelayDisconnected
  <2>4. CASE Reconnect(p)
    BY <2>4, RelayReconnect
  <2> QED BY <1>3, <2>1, <2>2, <2>3, <2>4 DEF Thread
<1>4. ASSUME NEW p \in Peer, Refuse(p) \/ PeerConnected(p) PROVE RelayInv'
  BY <1>4, RelayRefuse, RelayPeerConnected
<1>5. ASSUME NEW p \in Peer, Pong(p) \/ DataNotfound(p) PROVE RelayInv'
  BY <1>5, RelayCall, RelayDataNotfound DEF Pong, Answers, Ahead
<1>6. ASSUME NEW p \in Peer, Progress(p) \/ CatchUp(p) \/ MempoolAnswered(p) PROVE RelayInv'
  BY <1>6, RelayHeard
<1>7. ASSUME NEW p \in Peer, NEW t \in Tx, NotInterested(p, t) \/ AcceptInv(p, t)
      PROVE  RelayInv'
  BY <1>7, RelayHeard
<1>8. ASSUME NEW p \in Peer, NEW t \in Tx, RequestedTx(p, t) \/ HasTx(p, t) \/ RelayedTx(p, t)
      PROVE  RelayInv'
  BY <1>8, RelayRequestedTx, RelayHasTx, RelayRelayedTx
<1>9. ASSUME NEW p \in Peer, NEW t \in Tx, NEW spent \in BOOLEAN, RejectedTx(p, t, spent)
      PROVE  RelayInv'
  BY <1>9, RelayRejectedTx
<1>10. CASE UNCHANGED vars
  BY <1>10 DEF vars, manager, RelayInv, RelaysConnected
<1> QED BY <1>1, <1>2, <1>3, <1>4, <1>5, <1>6, <1>7, <1>8, <1>9, <1>10 DEF Next

\* Only connected peers count as relaying a transaction, so that the sweep
\* never trusts a peer that has gone: of any peers, and however their
\* answers, their last callbacks and their ends follow each other.
THEOREM RelaysConnectedHolds == Spec => []RelaysConnected
<1>1. Init => RelayInv
  BY RelayInit
<1>2. Fate /\ RelayInv /\ [Next]_vars => RelayInv'
  BY RelayNext
<1>3. RelayInv => RelaysConnected
  BY DEF RelayInv
<1> QED BY <1>1, <1>2, <1>3, FateHolds, PTL DEF Spec

-----------------------------------------------------------------------------
(***************************************************************************)
(* The type of the counters and of the state of the sync.                  *)
(***************************************************************************)
Tallies ==
  /\ failures \in 0 .. (MAX_CONNECT_FAILURES + 1) /\ opened \in 0 .. MaxOpened
  /\ syncing \in BOOLEAN /\ behind \in BOOLEAN

\* A peer that connects opens a number of connections.
LEMMA TalliesConnect ==
  ASSUME Tallies, NEW ps, BRPeerManagerConnect(ps)
  PROVE  Tallies'
<1>1. PICK new \in SUBSET {p \in Peer : ps[p].link = "none"} :
        opened' = opened + Cardinality(new) /\ opened' <= MaxOpened
  BY DEF BRPeerManagerConnect
<1>2. new \subseteq Peer
  OBVIOUS
<1>3. Cardinality(new) \in Nat
  BY <1>2, PublishAssumption, FS_Subset, FS_CardinalityType
<1>4. opened' \in 0 .. MaxOpened
  BY <1>1, <1>3, PublishAssumption DEF Tallies
<1>5. failures' \in 0 .. (MAX_CONNECT_FAILURES + 1)
  BY PublishAssumption DEF BRPeerManagerConnect, Tallies
<1>6. syncing' \in BOOLEAN
  BY DEF BRPeerManagerConnect
<1>7. behind' \in BOOLEAN
  BY DEF BRPeerManagerConnect, Tallies
<1> QED BY <1>4, <1>5, <1>6, <1>7 DEF Tallies

LEMMA TalliesDisconnected ==
  ASSUME Tallies, NEW p \in Peer, Disconnected(p)
  PROVE  Tallies'
<1>1. Failures(p) \in 0 .. (MAX_CONNECT_FAILURES + 1)
  BY PublishAssumption DEF Tallies, Failures
<1>2. failures' = Failures(p) /\ UNCHANGED <<behind, opened>>
  BY DEF Disconnected
<1>3. syncing' \in BOOLEAN
  BY DEF Disconnected
<1> QED BY <1>1, <1>2, <1>3 DEF Tallies

\* A callback may stop the sync.
LEMMA TalliesCall ==
  ASSUME Tallies, NEW p \in Peer, NEW success \in BOOLEAN, Call(p, success)
  PROVE  Tallies'
<1>1. UNCHANGED <<failures, behind, opened>>
  BY DEF Call
<1>2. syncing' \in BOOLEAN
  <2>1. CASE LoadBloomFilterDone(p, success)
    BY <2>1 DEF LoadBloomFilterDone
  <2>2. CASE MempoolDone(p, success)
    <3>1. syncing' \in {FALSE, syncing}
      BY <2>2 DEF MempoolDone
    <3> QED BY <3>1 DEF Tallies
  <2>3. CASE UnrelayedDone(p, success) \/ PublishTxInvDone(p)
    <3>1. syncing' = syncing
      BY <2>3 DEF UnrelayedDone, PublishTxInvDone
    <3> QED BY <3>1 DEF Tallies
  <2> QED BY <2>1, <2>2, <2>3 DEF Call
<1> QED BY <1>1, <1>2 DEF Tallies

LEMMA TalliesUnchanged ==
  ASSUME Tallies, failures' \in {0, failures}, behind' \in {FALSE, behind},
         UNCHANGED <<syncing, opened>>
  PROVE  Tallies'
<1>1. failures' \in 0 .. (MAX_CONNECT_FAILURES + 1) /\ opened' \in 0 .. MaxOpened
  BY PublishAssumption DEF Tallies
<1>2. syncing' \in BOOLEAN
  BY DEF Tallies
<1>3. behind' \in BOOLEAN
  BY DEF Tallies
<1> QED BY <1>1, <1>2, <1>3 DEF Tallies

LEMMA TalliesNext ==
  ASSUME Tallies, [Next]_vars
  PROVE  Tallies'
<1>1. CASE Connect
  BY <1>1, TalliesConnect DEF Connect
<1>2. ASSUME NEW t \in Tx, PublishTx(t) \/ Offer(t) \/ Confirm(t) \/ Invalidate(t)
      PROVE  Tallies'
  BY <1>2, TalliesUnchanged DEF PublishTx, Offer, Confirm, Invalidate
<1>3. ASSUME NEW p \in Peer, Thread(p) PROVE Tallies'
  <2>1. CASE Closed(p) \/ Timeout(p)
    BY <2>1, TalliesUnchanged DEF Closed, Timeout, ThreadEnd
  <2>2. CASE Drain(p)
    BY <2>2, TalliesCall DEF Drain
  <2>3. CASE Disconnected(p)
    BY <2>3, TalliesDisconnected
  <2>4. CASE Reconnect(p)
    BY <2>4, TalliesConnect DEF Reconnect
  <2> QED BY <1>3, <2>1, <2>2, <2>3, <2>4 DEF Thread
<1>4. ASSUME NEW p \in Peer,
             Break(p) \/ Refuse(p) \/ PeerConnected(p) \/ Progress(p) \/ CatchUp(p) \/ MempoolAnswered(p)
      PROVE  Tallies'
  BY <1>4, TalliesUnchanged
     DEF Break, ThreadEnd, Refuse, PeerConnected, Progress, CatchUp, MempoolAnswered
<1>5. ASSUME NEW p \in Peer, Pong(p) \/ DataNotfound(p) PROVE Tallies'
  BY <1>5, TalliesCall, TalliesUnchanged DEF Pong, DataNotfound
<1>6. ASSUME NEW p \in Peer, NEW t \in Tx,
             \/ NotInterested(p, t) \/ AcceptInv(p, t)
             \/ RequestedTx(p, t) \/ HasTx(p, t) \/ RelayedTx(p, t)
      PROVE  Tallies'
  BY <1>6, TalliesUnchanged DEF NotInterested, AcceptInv, RequestedTx, HasTx, RelayedTx
<1>7. ASSUME NEW p \in Peer, NEW t \in Tx, NEW spent \in BOOLEAN, RejectedTx(p, t, spent)
      PROVE  Tallies'
  BY <1>7, TalliesUnchanged DEF RejectedTx
<1>8. CASE UNCHANGED vars
  BY <1>8, TalliesUnchanged DEF vars, manager
<1> QED BY <1>1, <1>2, <1>3, <1>4, <1>5, <1>6, <1>7, <1>8 DEF Next

\* What the invariants say of a connection and of a transaction is its type.
LEMMA LinkType ==
  ASSUME NEW c, IsLink(c)
  PROVE  /\ c.link \in Links /\ c.error \in Errors
         /\ {c.closing, c.timer, c.synced, c.sentMempool, c.mempoolDone} \subseteq BOOLEAN
         /\ c.known \subseteq Tx
         /\ \A i \in 1 .. Len(c.out) : MessageType(c.out[i])
<1>1. \A m \in Msg : MessageType(m)
  BY DEF Msg, MessageType
<1>2. c.out \in Seq(Msg)
  BY DEF IsLink, Link
<1>3. \A i \in 1 .. Len(c.out) : c.out[i] \in Msg
  <2> HIDE DEF Msg
  <2> QED BY <1>2, ElementOfSeq
<1>4. \A i \in 1 .. Len(c.out) : MessageType(c.out[i])
  <2> HIDE DEF Msg
  <2> QED BY <1>1, <1>3
<1>5. c.closing \in BOOLEAN /\ c.timer \in BOOLEAN /\ c.synced \in BOOLEAN
      /\ c.sentMempool \in BOOLEAN /\ c.mempoolDone \in BOOLEAN
  BY Zenon DEF IsLink, Link
<1>6. c.link \in Links /\ c.error \in Errors /\ c.known \subseteq Tx
  BY DEF IsLink, Link
<1> QED BY <1>4, <1>5, <1>6

LEMMA TxType ==
  ASSUME NEW x \in Struct
  PROVE  /\ x.call \in Calls
         /\ {x.listed, x.shared, x.freed, x.held, x.confirmed, x.valid} \subseteq BOOLEAN
         /\ x.relays \cup x.requests \subseteq Peer
BY DEF Struct

\* Every variable has its type, of any peers and transactions: the download
\* peer is connected or its thread ends, a connection that is not there has
\* nothing unanswered, and a thread that ends has only callbacks left to call.
THEOREM TypeCorrect == Spec => []TypeOK
<1>1. Init => RelayInv /\ Tallies
  <2>1. Init => Tallies
    <3>1. ASSUME Init PROVE failures \in 0 .. (MAX_CONNECT_FAILURES + 1) /\ opened \in 0 .. MaxOpened
      BY <3>1, PublishAssumption DEF Init
    <3>2. ASSUME Init PROVE syncing \in BOOLEAN /\ behind \in BOOLEAN
      BY <3>2, PublishAssumption, Zenon DEF Init
    <3> QED BY <3>1, <3>2 DEF Tallies
  <2> QED BY <2>1, RelayInit
<1>2. Fate /\ RelayInv /\ Tallies /\ [Next]_vars => RelayInv' /\ Tallies'
  BY RelayNext, TalliesNext
<1>3. Fate /\ RelayInv /\ Tallies => TypeOK
  <2> SUFFICES ASSUME Fate, RelayInv, Tallies PROVE TypeOK
    OBVIOUS
  <2>1. \A p \in Peer : IsLink(peer[p])
    BY DEF RelayInv, AreLinks
  <2>2. \A t \in Tx : tx[t] \in Struct
    BY DEF Fate
  <2>3. download \in {NoPeer} \cup {p \in Peer : peer[p].link \in {"connected", "ending"}}
    BY DEF RelayInv, Begun
  <2>4. {syncing, behind} \subseteq BOOLEAN
    BY DEF Tallies
  <2>5. \A p \in Peer :
          LET c == peer[p]
          IN /\ c.link \in Links /\ c.error \in Errors
             /\ {c.closing, c.timer, c.synced, c.sentMempool, c.mempoolDone} \subseteq BOOLEAN
             /\ c.known \subseteq Tx
             /\ \A i \in 1 .. Len(c.out) : MessageType(c.out[i])
             /\ c.link \in {"none", "leaving"} => c.out = <<>>
             /\ c.link = "ending" => \A i \in 1 .. Len(c.out) : c.out[i].kind = "ping"
    BY <2>1, LinkType DEF IsLink
  <2>6. \A t \in Tx :
          LET x == tx[t]
          IN /\ x.call \in Calls
             /\ {x.listed, x.shared, x.freed, x.held, x.confirmed, x.valid} \subseteq BOOLEAN
             /\ x.relays \cup x.requests \subseteq Peer
    BY <2>2, TxType
  <2>7. network \subseteq Tx
    BY DEF Fate
  <2>8. failures \in 0 .. (MAX_CONNECT_FAILURES + 1) /\ opened \in 0 .. MaxOpened
    BY DEF Tallies
  <2> QED BY <2>3, <2>4, <2>5, <2>6, <2>7, <2>8 DEF TypeOK
<1> QED BY <1>1, <1>2, <1>3, FateHolds, PTL DEF Spec
=============================================================================
