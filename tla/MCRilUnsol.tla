----------------------------- MODULE MCRilUnsol ------------------------------
(* Instances of RilUnsol: a vendor thread beside the dispatch thread, which  *)
(* runs the timers and also sends unsolicited responses.                     *)
EXTENDS RilUnsol

CONSTANTS v1, p1, p2, p3

OneThread == Permutations({p1, p2, p3})
=============================================================================
