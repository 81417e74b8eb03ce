---------------------------- MODULE LightClient ----------------------------
(***************************************************************************)
(* What following a block chain promises a wallet, without peers, orphans, *)
(* filters or memory: there is one tip, it is given up only for a higher   *)
(* one, and the wallet's transactions are confirmed exactly where the      *)
(* chain that ends in the tip has them.                                    *)
(***************************************************************************)
EXTENDS Integers

CONSTANTS Block, Height, Lineage, Tx, TxsOf, Birth, TX_UNCONFIRMED

VARIABLES tip, conf

\* where the chain of b has the transactions it brought since Birth
ConfirmedBy(b) ==
  [t \in Tx |->
     LET At == {c \in Lineage[b] : Height[c] > Height[Birth] /\ t \in TxsOf[c]}
     IN  IF At = {} THEN TX_UNCONFIRMED ELSE Height[CHOOSE c \in At : TRUE]]

Init == tip = Birth /\ conf = [t \in Tx |-> TX_UNCONFIRMED]

Advance(b) ==
  /\ Birth \in Lineage[b]
  /\ Height[b] > Height[tip]
  /\ tip' = b
  /\ conf' = ConfirmedBy(b)

Next == \E b \in Block : Advance(b)

Spec == Init /\ [][Next]_<<tip, conf>>
=============================================================================
