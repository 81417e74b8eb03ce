------------------------ MODULE MCPeerManagerPublish -----------------------
(* Instances of PeerManagerPublish for TLC. *)
EXTENDS PeerManagerPublish, TLC

CONSTANTS p1, p2, t1, t2

\* One payment; a payment that spends the change of another.
PeerSymmetry == Permutations(Peer)
NoInputs == [t \in Tx |-> {}]
Chained == [t \in Tx |-> IF t = t2 THEN {t1} ELSE {}]
=============================================================================
