--------------------------- MODULE FilterHistory ---------------------------
(***************************************************************************)
(* FilterSync with the one thing about its past that decides whether a     *)
(* payment can be missed.  A filter is replaced in two ways.  UpdateFilter *)
(* drops blocks until a pong says that the last one asked for on the old   *)
(* filter has come.  _BRPeerManagerLoadMempools, at the end of the chain,  *)
(* loads the new filter at once: blocks asked for just before were matched *)
(* with the old one, and are collected as if with the new.                 *)
(***************************************************************************)
EXTENDS FilterSync

VARIABLE overtaken      \* heights of blocks that may be incomplete

\* A block, or a request for some.
Asks(m) == m.kind = "merkleblock" \/ (m.kind = "getdata" /\ m.blocks # <<>>)

\* The filter is replaced by one that covers more while a block is asked for
\* or on its way.
Overtaken ==
  /\ conn.up /\ bloomFilter # 0 /\ bloomFilter' > bloomFilter
  /\ \/ \E i \in DOMAIN wire : Asks(wire[i])
     \/ \E i \in DOMAIN conn.out : Asks(conn.out[i])

\* The blocks that are.
OnTheWay ==
  {wire[i].height : i \in {i \in DOMAIN wire : wire[i].kind = "merkleblock"}}
    \cup UNION {Range(conn.out[i].blocks) : i \in DOMAIN conn.out}

HistoryInit == Init /\ overtaken = {}

HistoryNext ==
  /\ Next
  /\ overtaken' = IF Overtaken THEN overtaken \cup OnTheWay ELSE overtaken

HistoryVars == <<vars, overtaken>>

HistorySpec == HistoryInit /\ [][HistoryNext]_HistoryVars /\ Fairness

---------------------------------------------------------------------------
\* A payment mined no higher than the last block is missed only behind a
\* block that was asked for on one filter and collected after another was
\* loaded without waiting for it.
FoundUnlessOvertaken ==
  \A h \in 1..lastBlock : Mined[h] \subseteq confirmed \/ \E o \in overtaken : o <= h
=============================================================================
