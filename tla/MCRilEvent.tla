----------------------------- MODULE MCRilEvent -----------------------------
(* An instance of RilEvent: the wakeup pipe, the listening socket (not       *)
(* persistent) and a client's connection (persistent).  The connection has   *)
(* the highest descriptor, the pipe the lowest but one.                      *)
EXTENDS RilEvent

CONSTANTS wakeup, listen, commands, t1, t2

MCFdEvent == {wakeup, listen, commands}
MCFd == (wakeup :> 5) @@ (listen :> 3) @@ (commands :> 7)
MCPersistent == {wakeup, commands}
MCTimer == {t1, t2}
MCDelay == (t1 :> 0) @@ (t2 :> 1)
=============================================================================
