---------------------------- MODULE WalletLedger ----------------------------
(***************************************************************************)
(* What a wallet promises about the transactions it holds, without lists,  *)
(* loops, locks or callbacks: it holds each of them at one height, never   *)
(* lower than what it spends, and gives one up only when nothing it holds  *)
(* spends it.                                                              *)
(***************************************************************************)
EXTENDS Integers

CONSTANTS Tx, SpendsTx(_, _), Heights, TX_UNCONFIRMED

\* what the constants must be, a premise of the theorems
LedgerAssumption ==
  /\ TX_UNCONFIRMED \in Nat
  /\ Heights \subseteq Nat
  /\ \A h \in Heights : h < TX_UNCONFIRMED

VARIABLE conf   \* the height of each transaction held

Held == DOMAIN conf

Init == conf = [t \in {} |-> TX_UNCONFIRMED]

\* a new transaction, unconfirmed, as are those that spend it
Add(t) ==
  /\ t \in Tx \ Held
  /\ \A u \in Held : SpendsTx(u, t) => conf[u] = TX_UNCONFIRMED
  /\ conf' = [u \in Held \cup {t} |-> IF u = t THEN TX_UNCONFIRMED ELSE conf[u]]

\* a block confirms t after everything it spends
Confirm(t, h) ==
  /\ t \in Held /\ conf[t] = TX_UNCONFIRMED
  /\ \A u \in Held : SpendsTx(t, u) => conf[u] <= h
  /\ conf' = [conf EXCEPT ![t] = h]

\* the chain above h is gone
Reorganise(h) ==
  conf' = [t \in Held |-> IF conf[t] > h THEN TX_UNCONFIRMED ELSE conf[t]]

\* an unconfirmed transaction nothing depends on is given up
Drop(t) ==
  /\ t \in Held /\ conf[t] = TX_UNCONFIRMED
  /\ \A u \in Held : ~ SpendsTx(u, t)
  /\ conf' = [u \in Held \ {t} |-> conf[u]]

Next ==
  \/ \E t \in Tx : Add(t) \/ Drop(t) \/ \E h \in Heights : Confirm(t, h)
  \/ \E h \in Heights \cup {0} : Reorganise(h)

Spec == Init /\ [][Next]_conf

\* The heights of the wallet are the history of a chain: nothing is confirmed
\* below, or without, what it spends.
ParentsFirst ==
  \A t, u \in Held : SpendsTx(u, t) => conf[t] <= conf[u]
=============================================================================
