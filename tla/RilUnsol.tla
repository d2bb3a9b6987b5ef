------------------------------- MODULE RilUnsol -------------------------------
(***************************************************************************)
(* Unsolicited responses of libril (ril.cpp): the wake lock that keeps the *)
(* device awake until the phone process has handled one, the timer that    *)
(* gives it back, and the NITZ time kept for a client that is not there.   *)
(*                                                                         *)
(* RIL_onUnsolicitedResponse runs on any thread of the vendor RIL, and on  *)
(* the dispatch thread when a client connects.  The timers fire on the     *)
(* dispatch thread.  The wake lock is held by name and not counted.        *)
(* s_last_wake_timeout_info, the UserCallbackInfos and the stored NITZ     *)
(* response are not protected by any lock, so each access is a step.       *)
(***************************************************************************)
EXTENDS Integers, FiniteSets, SequencesExt

CONSTANTS
    VThread,     \* threads of the vendor RIL
    Dispatch,    \* the dispatch thread
    Addr,        \* addresses malloc can return for a UserCallbackInfo
    None,        \* NULL
    MaxEvent,    \* bound on what the vendor raises
    MaxConn      \* bound on the connections accepted

ASSUME ThreadAssumption == Dispatch \notin VThread
ASSUME BoundAssumption == MaxEvent \in Nat /\ MaxConn \in Nat

VARIABLES
    wakeLock,    \* ANDROID_WAKE_LOCK_NAME is held
    timer,       \* timer[p]: the UserCallbackInfo at p, None when free
    armed,       \* the UserCallbackInfos in the timer list
    last,        \* s_last_wake_timeout_info
    stored,      \* s_lastNITZTimeData: which NITZ time, 0 for NULL
    client,      \* fdCommand and its peer
    pc, ret,     \* what each thread does next; where it returns to
    kind,        \* kind[t]: the response it handles
    time,        \* time[t]: which NITZ time that is, 0 for another response
    ptr,         \* ptr[t]: the UserCallbackInfo it works on
    events,      \* what the vendor has raised so far
    conns,       \* connections so far
    seen         \* the NITZ times delivered, in order

timerVars == <<wakeLock, timer, armed, last>>
dataVars == <<stored, client, conns, seen>>
threadVars == <<pc, ret, kind, time, ptr>>
vars == <<timerVars, dataVars, threadVars, events>>

Thread == VThread \cup {Dispatch}
UserCallbackInfo == [wake : BOOLEAN, cancelled : BOOLEAN]

ASSUME NoneAssumption == None \notin Addr \cup UserCallbackInfo

Goto(t, l) == pc' = [pc EXCEPT ![t] = l] /\ UNCHANGED <<ret, kind, time, ptr>>

\* Thread t leaves RIL_onUnsolicitedResponse.
Return(t) ==
    /\ pc' = [pc EXCEPT ![t] = ret[t]]
    /\ ret' = [ret EXCEPT ![t] = "idle"]
    /\ kind' = [kind EXCEPT ![t] = "dont"]
    /\ time' = [time EXCEPT ![t] = 0]
    /\ ptr' = [ptr EXCEPT ![t] = None]

GotoWith(t, l, p) ==
    /\ pc' = [pc EXCEPT ![t] = l]
    /\ ptr' = [ptr EXCEPT ![t] = p]
    /\ UNCHANGED <<ret, kind, time>>

Init ==
    /\ wakeLock = FALSE
    /\ timer = [p \in Addr |-> None]
    /\ armed = {}
    /\ last = None
    /\ stored = 0
    /\ client = "none"
    /\ pc = [t \in Thread |-> "idle"]
    /\ ret = [t \in Thread |-> "idle"]
    /\ kind = [t \in Thread |-> "dont"]
    /\ time = [t \in Thread |-> 0]
    /\ ptr = [t \in Thread |-> None]
    /\ events = 0
    /\ conns = 0
    /\ seen = <<>>

-----------------------------------------------------------------------------
(* RIL_onUnsolicitedResponse.                                              *)

\* Its first steps, up to the call of the response function: a WAKE_PARTIAL
\* response (NITZ is one) grabs the wake lock.
Enter(t, k, n, r) ==
    /\ wakeLock' = (wakeLock \/ k # "dont")
    /\ kind' = [kind EXCEPT ![t] = k]
    /\ time' = [time EXCEPT ![t] = n]
    /\ ret' = [ret EXCEPT ![t] = r]
    /\ pc' = [pc EXCEPT ![t] = "respond"]
    /\ UNCHANGED ptr

Receive(t, k) ==
    /\ pc[t] = "idle"
    /\ events < MaxEvent
    /\ events' = events + 1
    /\ Enter(t, k, IF k = "nitz" THEN events + 1 ELSE 0, "idle")
    /\ UNCHANGED <<timer, armed, last, dataVars>>

\* Mutant: the wake lock is kept.
ResponseFails_KeepsLock(t) ==
    /\ t \in VThread
    /\ pc[t] = "respond"
    /\ Return(t)
    /\ UNCHANGED <<timerVars, dataVars, events>>

\* error_exit: the response function rejects the vendor's data.
ResponseFails(t) ==
    /\ t \in VThread
    /\ pc[t] = "respond"
    /\ wakeLock' = (wakeLock /\ kind[t] = "dont")
    /\ Return(t)
    /\ UNCHANGED <<timer, armed, last, dataVars, events>>

\* A response that did not grab the wake lock needs no timer.
AfterSend(t) == IF kind[t] = "dont" THEN Return(t) ELSE Goto(t, "last")

\* sendResponse, which succeeds with a client at the other end.
Send(t) ==
    /\ pc[t] = "respond"
    /\ IF client = "up"
       THEN /\ seen' = IF time[t] = 0 THEN seen ELSE Append(seen, time[t])
            /\ AfterSend(t)
       ELSE /\ IF time[t] = 0 THEN AfterSend(t) ELSE Goto(t, "drop")
            /\ UNCHANGED seen
    /\ UNCHANGED <<timerVars, stored, client, conns, events>>

\* The NITZ response kept so far is freed, this one is kept.
DropNITZ(t) ==
    /\ pc[t] = "drop"
    /\ stored' = 0
    /\ Goto(t, "keep")
    /\ UNCHANGED <<timerVars, client, conns, seen, events>>

KeepNITZ(t) ==
    /\ pc[t] = "keep"
    /\ stored' = time[t]
    /\ Goto(t, "last")
    /\ UNCHANGED <<timerVars, client, conns, seen, events>>

\* The previous timeout is cancelled: its pointer is tested, and then written
\* through; the compiler may load it once or twice.
ReadLast(t) ==
    /\ pc[t] = "last"
    /\ GotoWith(t, IF last = None THEN "arm" ELSE "cancel", last)
    /\ UNCHANGED <<timerVars, dataVars, events>>

\* Mutant: the timer is armed, and cancelled with the ones before it.
CancelLast_Own(t) ==
    /\ pc[t] = "cancel"
    /\ \E p \in {q \in Addr : timer[q] = None} :
         /\ timer' = [timer EXCEPT ![p] = [wake |-> TRUE, cancelled |-> TRUE],
                                   ![ptr[t]] = IF @ = None THEN None ELSE [@ EXCEPT !.cancelled = TRUE]]
         /\ armed' = armed \cup {p}
         /\ GotoWith(t, "assign", p)
    /\ UNCHANGED <<wakeLock, last, dataVars, events>>

\* A write to a freed UserCallbackInfo changes nothing here; through NULL it
\* ends the process.
CancelLast(t) ==
    /\ pc[t] = "cancel"
    /\ \E p \in {ptr[t], last} :
         /\ timer' = [q \in Addr |-> IF q = p /\ timer[q] # None
                                     THEN [timer[q] EXCEPT !.cancelled = TRUE] ELSE timer[q]]
         /\ Goto(t, IF p = None THEN "crashed" ELSE "arm")
    /\ UNCHANGED <<wakeLock, armed, last, dataVars, events>>

\* internalRequestTimedCallback: the timer is in the list before the caller has
\* its address.
internalRequestTimedCallback(p, w) ==
    /\ timer[p] = None
    /\ timer' = [timer EXCEPT ![p] = [wake |-> w, cancelled |-> FALSE]]
    /\ armed' = armed \cup {p}

ArmTimeout(t, p) ==
    /\ pc[t] = "arm"
    /\ internalRequestTimedCallback(p, TRUE)
    /\ GotoWith(t, "assign", p)
    /\ UNCHANGED <<wakeLock, last, dataVars, events>>

\* malloc fails, here when all addresses are in use: its result is written through
\* and the process ends.
MallocFails(t, l) ==
    /\ pc[t] = l
    /\ \A p \in Addr : timer[p] # None
    /\ Goto(t, "crashed")
    /\ UNCHANGED <<timerVars, dataVars, events>>

AssignLast(t) ==
    /\ pc[t] = "assign"
    /\ last' = ptr[t]
    /\ Return(t)
    /\ UNCHANGED <<wakeLock, timer, armed, dataVars, events>>

\* The vendor sets a timer of its own.
RIL_requestTimedCallback(t, p) ==
    /\ t \in VThread
    /\ pc[t] = "idle"
    /\ events < MaxEvent
    /\ events' = events + 1
    /\ internalRequestTimedCallback(p, FALSE)
    /\ UNCHANGED <<wakeLock, last, dataVars, threadVars>>

-----------------------------------------------------------------------------
(* The dispatch thread: timers.                                            *)

\* Mutant: the timer stays in the list.
userTimerCallback_StaysListed(p) ==
    /\ pc[Dispatch] = "idle"
    /\ p \in armed
    /\ wakeLock' = (wakeLock /\ ~(timer[p].wake /\ ~timer[p].cancelled))
    /\ GotoWith(Dispatch, "compare", p)
    /\ UNCHANGED <<timer, armed, last, dataVars, events>>

\* A timer is due (RilEvent has their order) and userTimerCallback runs its
\* callback: wakeTimeoutCallback releases the wake lock unless it was cancelled.
userTimerCallback(p) ==
    /\ pc[Dispatch] = "idle"
    /\ p \in armed
    /\ armed' = armed \ {p}
    /\ wakeLock' = (wakeLock /\ ~(timer[p].wake /\ ~timer[p].cancelled))
    /\ GotoWith(Dispatch, "compare", p)
    /\ UNCHANGED <<timer, last, dataVars, events>>

CompareLast ==
    /\ pc[Dispatch] = "compare"
    /\ Goto(Dispatch, IF last = ptr[Dispatch] THEN "clear" ELSE "free")
    /\ UNCHANGED <<timerVars, dataVars, events>>

ClearLast ==
    /\ pc[Dispatch] = "clear"
    /\ last' = None
    /\ Goto(Dispatch, "free")
    /\ UNCHANGED <<wakeLock, timer, armed, dataVars, events>>

FreeTimer ==
    /\ pc[Dispatch] = "free"
    /\ timer' = [timer EXCEPT ![ptr[Dispatch]] = None]
    /\ GotoWith(Dispatch, "idle", None)
    /\ UNCHANGED <<wakeLock, armed, last, dataVars, events>>

-----------------------------------------------------------------------------
(* The dispatch thread: connections.                                       *)

\* onNewCommandConnect sends RIL_UNSOL_RIL_CONNECTED,
Connect ==
    /\ pc[Dispatch] = "idle"
    /\ client = "none" /\ conns < MaxConn
    /\ client' = "up"
    /\ conns' = conns + 1
    /\ Enter(Dispatch, "wake", 0, "radiostate")
    /\ UNCHANGED <<timer, armed, last, stored, seen, events>>

\* the radio state,
SendRadioState ==
    /\ pc[Dispatch] = "radiostate"
    /\ Enter(Dispatch, "wake", 0, "nitz")
    /\ UNCHANGED <<timer, armed, last, dataVars, events>>

\* and the stored NITZ response, if there is one: sendResponseRaw's result is
\* not looked at.
SendNITZ ==
    /\ pc[Dispatch] = "nitz"
    /\ seen' = IF stored # 0 /\ client = "up" THEN Append(seen, stored) ELSE seen
    /\ Goto(Dispatch, IF stored = 0 THEN "idle" ELSE "freenitz")
    /\ UNCHANGED <<timerVars, stored, client, conns, events>>

\* Mutant: the stored response stays.
FreeNITZ_Kept ==
    /\ pc[Dispatch] = "freenitz"
    /\ Goto(Dispatch, "idle")
    /\ UNCHANGED <<timerVars, dataVars, events>>

FreeNITZ ==
    /\ pc[Dispatch] = "freenitz"
    /\ stored' = 0
    /\ Goto(Dispatch, "idle")
    /\ UNCHANGED <<timerVars, client, conns, seen, events>>

\* The client goes away; later the dispatch thread sees it and unsets fdCommand.
ClientGone ==
    /\ client = "up"
    /\ client' = "gone"
    /\ UNCHANGED <<timerVars, threadVars, stored, conns, seen, events>>

Disconnect ==
    /\ pc[Dispatch] = "idle"
    /\ client = "gone"
    /\ client' = "none"
    /\ UNCHANGED <<timerVars, threadVars, stored, conns, seen, events>>

-----------------------------------------------------------------------------

UnsolStep(t) ==
    \/ ResponseFails(t) \/ Send(t) \/ DropNITZ(t) \/ KeepNITZ(t)
    \/ ReadLast(t) \/ CancelLast(t) \/ AssignLast(t)
    \/ MallocFails(t, "arm")
    \/ \E p \in Addr : ArmTimeout(t, p)

VendorStep(t) ==
    \/ \E k \in {"nitz", "wake", "dont"} : Receive(t, k)
    \/ \E p \in Addr : RIL_requestTimedCallback(t, p)
    \/ MallocFails(t, "idle")

TimerStep == CompareLast \/ ClearLast \/ FreeTimer

ConnStep ==
    Connect \/ SendRadioState \/ SendNITZ \/ FreeNITZ \/ ClientGone \/ Disconnect

Alive == \A t \in Thread : pc[t] # "crashed"

Next ==
    /\ Alive
    /\ \/ \E t \in Thread : UnsolStep(t)
       \/ \E t \in VThread : VendorStep(t)
       \/ \E p \in Addr : userTimerCallback(p)
       \/ TimerStep \/ ConnStep

Spec == Init /\ [][Next]_vars

\* Threads go on; the event loop comes round to every timer.
Fairness ==
    /\ \A t \in Thread : WF_vars(Alive /\ UnsolStep(t))
    /\ WF_vars(Alive /\ (TimerStep \/ SendRadioState \/ SendNITZ \/ FreeNITZ))
    /\ \A p \in Addr : SF_vars(Alive /\ userTimerCallback(p))

FairSpec == Spec /\ Fairness

-----------------------------------------------------------------------------
(* Properties.                                                             *)

Handling == {"respond", "drop", "keep", "last", "cancel", "arm"}

TypeOK ==
    /\ wakeLock \in BOOLEAN
    /\ timer \in [Addr -> UserCallbackInfo \cup {None}]
    /\ armed \subseteq {p \in Addr : timer[p] # None}
    /\ last \in Addr \cup {None}
    /\ stored \in 0..MaxEvent
    /\ client \in {"none", "up", "gone"}
    /\ pc \in [Thread -> Handling \cup {"idle", "assign", "compare", "clear", "free", "crashed",
                                        "radiostate", "nitz", "freenitz"}]
    /\ ret \in [Thread -> {"idle", "radiostate", "nitz"}]
    /\ kind \in [Thread -> {"nitz", "wake", "dont"}]
    /\ time \in [Thread -> 0..MaxEvent]
    /\ ptr \in [Thread -> Addr \cup {None}]
    /\ events \in 0..MaxEvent
    /\ conns \in 0..MaxConn
    /\ seen \in Seq(1..MaxEvent)

\* RIL_onUnsolicitedResponse: the wake lock is never leaked.  While it is held, a
\* timer that will release it is in the list or a thread is on its way to one
\* (or to error_exit), in spite of the unlocked s_last_wake_timeout_info.
LockHasTimer ==
    wakeLock =>
        \/ \E p \in armed : timer[p].wake /\ ~timer[p].cancelled
        \/ \E t \in Thread : kind[t] # "dont" /\ pc[t] \in Handling
        \/ ~Alive

\* onNewCommandConnect: a NITZ time is delivered once, however connections and
\* stored responses interleave.
NITZOnce == IsInjective(seen)

\* wakeTimeoutCallback: a wake lock that is grabbed is released in the end.
Released == wakeLock ~> (~wakeLock \/ ~Alive)

\* RIL_onUnsolicitedResponse: as we exit we'll either release it immediately or
\* set a timer to release it later.  While such a timer runs, the lock is held.
HeldUntilTimer ==
    \A p \in armed : timer[p].wake /\ ~timer[p].cancelled => wakeLock
=============================================================================
