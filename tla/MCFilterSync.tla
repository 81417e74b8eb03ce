--------------------------- MODULE MCFilterSync ---------------------------
(* Instances of FilterSync for TLC. *)
EXTENDS FilterHistory, TLC

CONSTANTS t1, t2, t3, t4

\* A wallet restored from its phrase while the chain grows: the first payment
\* makes the filter obsolete, the second uses up some of the spare addresses of
\* the next, the third is announced before it is mined, and the fourth is out of
\* reach of that filter, but not of one built when the second is known.
RestorePays == t1 :> 1 @@ t2 :> 2 @@ t3 :> 3 @@ t4 :> 5
RestoreMined == <<{t1}, {t2}, {}, {t3, t4}>>
=============================================================================
