---------------------------- MODULE MCBRWallet ----------------------------
(***************************************************************************)
(* Instances of BRWallet for TLC.                                          *)
(***************************************************************************)
EXTENDS BRWallet, TLC

Ext(i) == [chain |-> "external", idx |-> i]
Int1(i) == [chain |-> "internal", idx |-> i]
Foreign == [chain |-> "foreign", idx |-> 0]

Out(addr, amount) == [addr |-> addr, amount |-> amount]
In(t, n) == [tx |-> t, n |-> n]
Plain(ins, outs) ==
  [ins |-> ins, outs |-> outs, seq |-> "final", lock |-> 0, big |-> FALSE]

MCGap == [c \in Chains |-> IF c = "external" THEN 2 ELSE 1]

\* a pays us; p spends it and can be replaced by fee; w waits for the clock
ClockTx == {"a", "p", "w"}
ClockBodies ==
  ( "a" :> Plain({In("unknown", 1)}, <<Out(Ext(0), 5)>>)
 @@ "p" :> [Plain({In("a", 1)}, <<Out(Foreign, 2), Out(Int1(0), 3)>>)
              EXCEPT !.seq = "replaceable"]
 @@ "w" :> [Plain({In("p", 2)}, <<Out(Ext(1), 3)>>)
              EXCEPT !.seq = "nonfinal", !.lock = 11] )
ClockBody == [t \in ClockTx |-> ClockBodies[t]]
ClockBlocks == {<<"a">>, <<"a", "p">>}

\* a pays us; b, with change, and c spend a, and c spends b too; d spends what
\* b spends
TreeTx == {"a", "b", "c", "d"}
TreeBodies ==
  ( "a" :> Plain({In("unknown", 1)}, <<Out(Ext(0), 5), Out(Ext(1), 3)>>)
 @@ "b" :> Plain({In("a", 1)}, <<Out(Foreign, 2), Out(Int1(0), 3)>>)
 @@ "c" :> Plain({In("a", 2), In("b", 2)}, <<Out(Foreign, 6)>>)
 @@ "d" :> Plain({In("a", 1)}, <<Out(Foreign, 4)>>) )
TreeBody == [t \in TreeTx |-> TreeBodies[t]]
TreeBlocks == {<<"a">>, <<"b">>, <<"d">>, <<"a", "b">>}
=============================================================================
