------------------------------- MODULE MCRilSap -------------------------------
(* Instances of RilSap: ids and tokens never used again, and a client that   *)
(* starts over with its tokens on every connection.                          *)
EXTENDS RilSap

CONSTANTS w1, w2

Workers == <<w1, w2>>
Distinct == [m \in Msg |-> m]
Restarted == [m \in Msg |-> 1]
=============================================================================
