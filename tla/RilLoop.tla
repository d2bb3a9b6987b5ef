------------------------------- MODULE RilLoop --------------------------------
(***************************************************************************)
(* What the event loop promises to the rest of libril, without its tables, *)
(* its copies of them, the pipe or select.  Events are armed by whoever    *)
(* wants to be called; the loop takes batches of armed events, first       *)
(* timers, then inputs, and calls each member of a batch exactly once      *)
(* before it looks for another batch.  An event that is not persistent is  *)
(* disarmed when it is taken, so that each arming gives at most one call.  *)
(***************************************************************************)
EXTENDS FiniteSets

CONSTANTS
    Source,      \* the events that watch a descriptor
    Alarm,       \* the timers
    Persistent,  \* the inputs that stay armed
    None         \* no callback is running

VARIABLES
    armed,   \* the events that wait
    batch,   \* the events taken, that are to be called
    running  \* the event whose callback runs

vars == <<armed, batch, running>>

Init == armed = {} /\ batch = {} /\ running = None

\* Anybody arms an event that is neither armed nor about to be called; its own
\* callback may arm it again.
Arm(e) ==
    /\ e \notin armed \cup batch
    /\ armed' = armed \cup {e}
    /\ UNCHANGED <<batch, running>>

\* A callback disarms its own event.
Disarm ==
    /\ running \in armed
    /\ armed' = armed \ {running}
    /\ UNCHANGED <<batch, running>>

\* Timers are taken when nothing is left to call; inputs may join them.
TakeTimers(E) ==
    /\ running = None /\ batch = {}
    /\ E \subseteq armed \cap Alarm
    /\ batch' = E
    /\ armed' = armed \ E
    /\ UNCHANGED running

TakeInputs(E) ==
    /\ running = None /\ batch \subseteq Alarm
    /\ E \subseteq armed \cap Source
    /\ batch' = batch \cup E
    /\ armed' = armed \ (E \ Persistent)
    /\ UNCHANGED running

Call(e) ==
    /\ running = None
    /\ e \in batch
    /\ running' = e
    /\ batch' = batch \ {e}
    /\ UNCHANGED armed

Return ==
    /\ running # None
    /\ running' = None
    /\ UNCHANGED <<armed, batch>>

Next ==
    \/ \E e \in Source \cup Alarm : Arm(e) \/ Call(e)
    \/ Disarm
    \/ \E E \in SUBSET armed : TakeTimers(E) \/ TakeInputs(E)
    \/ Return

Spec == Init /\ [][Next]_vars

=============================================================================
