---------------------------- MODULE Publication ----------------------------
(***************************************************************************)
(* What publishing a transaction promises the application: one answer,     *)
(* good only if a peer has the transaction, and after the answer that it   *)
(* was not published (ENOTCONN, ETIMEDOUT) no peer is ever given it.       *)
(***************************************************************************)
CONSTANTS Tx, Begun    \* Begun: what peers may have at first

VARIABLES answer, public

Answers == {"none", "waiting", "ok", "EINVAL", "ENOTCONN", "ETIMEDOUT"}
Unpublished == {"ENOTCONN", "ETIMEDOUT"}

Init == answer = [t \in Tx |-> "none"] /\ public = Begun

Publish(t) ==
  /\ answer[t] = "none" /\ t \notin public
  /\ \E a \in {"waiting", "ENOTCONN"} : answer' = [answer EXCEPT ![t] = a]
  /\ UNCHANGED public

\* A peer gets t, which the application wants published, or relays it.
Give(t) ==
  /\ answer[t] \in {"waiting", "ok"}
  /\ answer' = [answer EXCEPT ![t] = "ok"]
  /\ public' = public \cup {t}

Invalid(t) ==
  /\ answer[t] = "waiting"
  /\ answer' = [answer EXCEPT ![t] = "EINVAL"]
  /\ UNCHANGED public

\* Some that wait fail together.
Fail ==
  /\ \E a \in Unpublished, failed \in SUBSET {t \in Tx : answer[t] = "waiting"} :
       answer' = [t \in Tx |-> IF t \in failed THEN a ELSE answer[t]]
  /\ UNCHANGED public

Next == Fail \/ \E t \in Tx : Publish(t) \/ Give(t) \/ Invalid(t)

Spec == Init /\ [][Next]_<<answer, public>>

\* No transaction said to be unpublished is public, and a good answer is true.
Truthful == \A t \in Tx : /\ answer[t] \in Unpublished => t \notin public
                          /\ answer[t] = "ok" => t \in public
=============================================================================
