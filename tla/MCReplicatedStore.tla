------------------------- MODULE MCReplicatedStore -------------------------
(* The key value store for TLC: the constants of its runs. *)
EXTENDS ReplicatedStore

=============================================================================
