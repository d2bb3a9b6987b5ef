------------------------- MODULE MCGpsLocationProvider ------------------------
(* An instance of GpsLocationProvider: a periodic request far apart, one for *)
(* a single location, and the end of both, with an engine that does not      *)
(* schedule fixes by itself.                                                 *)
EXTENDS GpsLocationProvider, TLC

CONSTANTS w1, w2, w3

Ask4(report, single, interval) == [report |-> report, single |-> single, interval |-> interval]

MCRequest == {Ask4(TRUE, FALSE, "long"), Ask4(TRUE, TRUE, "short"), Ask4(FALSE, FALSE, "short")}

Symmetry == Permutations(Worker)

=============================================================================
