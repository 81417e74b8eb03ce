------------------------ MODULE MCPeerManagerChain ------------------------
(***************************************************************************)
(* Instances of PeerManagerChain for TLC.                                  *)
(***************************************************************************)
EXTENDS PeerManagerChain, TLC

HeightIn(parent) ==
  LET h[b \in DOMAIN parent] == IF parent[b] = NoBlock THEN 0 ELSE h[parent[b]] + 1
  IN  h
LineageIn(parent) ==
  LET l[b \in DOMAIN parent] ==
        {b} \cup IF parent[b] = NoBlock THEN {} ELSE l[parent[b]]
  IN  l

PeerSymmetry == Permutations(Peer)

\* a chain a0 .. a4 with a fork c3, c4, c5 from a2; transitions at even heights;
\* t is in both, at different heights, u in the chain only, v in the fork only
ForkParent ==
  "a0" :> NoBlock @@ "a1" :> "a0" @@ "a2" :> "a1" @@ "a3" :> "a2" @@ "a4" :> "a3"
    @@ "c3" :> "a2" @@ "c4" :> "c3" @@ "c5" :> "c4"
ForkBlock == DOMAIN ForkParent
ForkHeight == HeightIn(ForkParent)
ForkLineage == LineageIn(ForkParent)
ForkTx == {"t", "u", "v"}
ForkTxs == [b \in ForkBlock |->
  CASE b \in {"a3", "c4"} -> {"t"} [] b = "a4" -> {"u"} [] b = "c5" -> {"v"} [] OTHER -> {}]

\* a chain a0 .. a5 with a fork c3, c4 from a2; transitions at even heights, a0
\* and a2 checkpoints: a4 and c4 free a1; c1 is a fork older than the last
\* checkpoint, b2 contradicts it; t is in the chain and in the fork, at different
\* heights, u below the join
LineParent ==
  "a0" :> NoBlock @@ "a1" :> "a0" @@ "a2" :> "a1" @@ "a3" :> "a2" @@ "a4" :> "a3"
    @@ "a5" :> "a4" @@ "c1" :> "a0" @@ "b2" :> "a1" @@ "c3" :> "a2" @@ "c4" :> "c3"
LineBlock == DOMAIN LineParent
LineHeight == HeightIn(LineParent)
LineLineage == LineageIn(LineParent)
LineTx == {"t", "u"}
LineTxs == [b \in LineBlock |->
  CASE b = "a2" -> {"u"} [] b \in {"a3", "c4"} -> {"t"} [] OTHER -> {}]
=============================================================================
