---------------------------- MODULE MCRilRequests ----------------------------
(* Instances of RilRequests: one vendor thread beside the dispatch thread,   *)
(* which also completes requests, and two addresses for RequestInfos, which  *)
(* are alike.                                                                *)
EXTENDS RilRequests

CONSTANTS v1, p1, p2, f1

Sym == Permutations({p1, p2})
=============================================================================
