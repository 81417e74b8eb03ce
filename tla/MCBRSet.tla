------------------------------- MODULE MCBRSet -------------------------------
(* Instances of BRSet for TLC. *)
EXTENDS BRSet, TLC

CONSTANTS a1, a2, b1, c1, d1

\* a1 and a2 are equivalent.  In a table of 3 buckets a1 and c1 meet in the
\* last; of 7, a1 and b1 meet in the last, c1 and d1 in the one before, and
\* both pairs go round the end.
SetKey == a1 :> 1 @@ a2 :> 1 @@ b1 :> 2 @@ c1 :> 3 @@ d1 :> 4
SetHash == <<20, 6, 5, 12>>
SetBound == "one" :> 4 @@ "two" :> 2
=============================================================================
