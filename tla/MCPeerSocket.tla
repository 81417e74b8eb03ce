--------------------------- MODULE MCPeerSocket ---------------------------
(* The connections for TLC: the peers of its runs. *)
EXTENDS PeerSocket

CONSTANTS p, q
=============================================================================
