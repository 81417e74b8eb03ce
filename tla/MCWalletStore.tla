---------------------------- MODULE MCWalletStore ----------------------------
(* Instances of WalletStore for TLC. *)
EXTENDS WalletStore, TLC

Ext(i) == [chain |-> "external", idx |-> i]
Foreign == [chain |-> "foreign", idx |-> 0]

Out(addr, amount) == [addr |-> addr, amount |-> amount]
In(t, n) == [tx |-> t, n |-> n]

MCGap == [c \in Chains |-> IF c = "external" THEN 2 ELSE 1]

\* b pays an address past the gap of a wallet that has nothing else
StoreTx == {"a", "b"}
StoreBody ==
  ( "a" :> [ins |-> {In("unknown", 1)}, outs |-> <<Out(Ext(0), 5)>>,
            seq |-> "final", lock |-> 0, big |-> FALSE]
 @@ "b" :> [ins |-> {In("unknown", 2)}, outs |-> <<Out(Ext(2), 3)>>,
            seq |-> "final", lock |-> 0, big |-> FALSE] )
StoreBlocks == {<<"a">>, <<"b">>, <<"a", "b">>}
=============================================================================
