------------------------- MODULE GpsLocationProvider --------------------------
(***************************************************************************)
(* GpsLocationProvider.java: enabling, requests and navigating, beside the *)
(* downloads, which share the handler's thread and its queue.              *)
(*                                                                         *)
(* Three kinds of threads meet: binder threads leave messages, the handler *)
(* carries them out, and the engine calls back on a thread of its own.     *)
(* The last two start and stop the engine and set the alarms, and nothing  *)
(* protects mStarted, mSingleShot and mStatus from either.  An operation   *)
(* of theirs is one action up to its next call into the engine.            *)
(*                                                                         *)
(* The source uses VERBOSE, whether verbose logging is on, where it means  *)
(* false.  It is taken to be false.                                        *)
(***************************************************************************)
EXTENDS GpsDownload

CONSTANTS
    Handler,    \* the handler's thread
    Engine,     \* the thread that the engine calls back on
    Request,    \* the requests, [report, single, interval]
    NoRequest,  \* there has been none (null)
    Scheduling, \* GPS_CAPABILITY_SCHEDULING
    MaxCall     \* bound: calls, broadcasts and messages from outside

\* Intervals: at most GPS_POLLING_THRESHOLD_INTERVAL; longer; at least NO_FIX_TIMEOUT.
Interval == {"short", "polling", "long"}

ASSUME ProviderAssumption ==
    /\ Handler # Engine
    /\ NoRequest \notin Request
    /\ Request \subseteq [report : BOOLEAN, single : BOOLEAN, interval : Interval]
    /\ Scheduling \in BOOLEAN
    /\ MaxCall \in Nat

VARIABLES
    mEnabled,
    mProviderRequest,
    mDisableGps,
    mFixInterval,
    mStarted,
    mSingleShot,
    mStatus,        \* 1 temporarily unavailable, 2 available
    engine,         \* whether the engine navigates
    ready,          \* whether it is initialized
    mWakeupIntent,  \* whether the alarm is set
    mTimeoutIntent, \* whether the alarm is set
    cur,            \* the message the handler is in the middle of
    pc,             \* where the handler and the engine's thread are
    then,           \* where each goes on after stopNavigating
    wanted,         \* "no", "periodic" or "single": what navigating is for
    stale,          \* a report of the engine was once under way when navigating began
    calls

requestVars == <<mEnabled, mProviderRequest, mDisableGps, mFixInterval>>
sessionVars == <<mStarted, mSingleShot, mStatus, engine>>
alarmVars == <<mWakeupIntent, mTimeoutIntent>>
threadVars == <<cur, pc, then>>
ghostVars == <<wanted, stale>>
vars == <<downloadVars, requestVars, sessionVars, alarmVars, threadVars, ready, ghostVars, calls>>

NoMessage == Uncounted("none", FALSE)

Goto(t, l) == pc' = [pc EXCEPT ![t] = l]

Init ==
    /\ DownloadInit
    /\ mEnabled = FALSE
    /\ mProviderRequest = NoRequest
    /\ mDisableGps = FALSE
    /\ mFixInterval = "short"
    /\ mStarted = FALSE
    /\ mSingleShot = FALSE
    /\ mStatus = 1
    /\ engine = FALSE
    /\ ready = FALSE
    /\ mWakeupIntent = FALSE
    /\ mTimeoutIntent = FALSE
    /\ cur = NoMessage
    /\ pc = [t \in {Handler, Engine} |-> "idle"]
    /\ then = [t \in {Handler, Engine} |-> "idle"]
    /\ wanted = "no"
    /\ stale = FALSE
    /\ calls = 0

-----------------------------------------------------------------------------
(* Binder threads.                                                         *)

\* enable() and disable(): mLock is held over the message as well.
SetEnabled(on) ==
    /\ mEnabled # on
    /\ mEnabled' = on
    /\ sendMessage("ENABLE", on)
    /\ UNCHANGED <<mProviderRequest, mDisableGps, mFixInterval>>

setRequest(r) ==
    /\ sendMessage("SET_REQUEST", r)
    /\ UNCHANGED requestVars

-----------------------------------------------------------------------------
(* The handler's thread.                                                   *)

HandlerIs(what) == pc[Handler] = "idle" /\ Is(what)

\* The handler has more to do for the head of the queue.
Begun(l) ==
    /\ cur' = Head(queue)
    /\ queue' = Tail(queue)
    /\ Goto(Handler, l)
    /\ UNCHANGED mWakeLock

\* It is done with it.
Done ==
    /\ mWakeLock' = mWakeLock - Release(cur)
    /\ cur' = NoMessage
    /\ Goto(Handler, "idle")
    /\ UNCHANGED queue

restOfDownload == <<delayed, mNetworkAvailable, pending, mPeriodicTimeInjection, job, need>>

\* handleEnable: the engine is initialized, or the provider is disabled again.
handleEnable(ok) ==
    /\ HandlerIs("ENABLE") /\ Head(queue).arg
    /\ mEnabled' = (mEnabled /\ ok)
    /\ ready' = (ready \/ ok)
    /\ mSupportsXtra' = (mSupportsXtra \/ ok)
    /\ Handled(<< >>, 0)
    /\ UNCHANGED <<restOfDownload, mProviderRequest, mDisableGps, mFixInterval, sessionVars,
                   alarmVars, threadVars, ghostVars>>

\* handleDisable: navigating is stopped, then the alarms cancelled and the engine
\* cleaned up.
handleDisable ==
    /\ HandlerIs("ENABLE") /\ ~Head(queue).arg
    /\ Begun("stop")
    /\ then' = [then EXCEPT ![Handler] = "cancel"]
    /\ wanted' = "no"
    /\ UNCHANGED <<restOfDownload, mSupportsXtra, requestVars, sessionVars, alarmVars, ready, stale>>

\* updateRequirements, with what handleSetRequest or updateLowPowerMode have just
\* set.  A session that runs stays as it is, single-shot or not.
updateRequirements(r, disable) ==
    CASE r = NoRequest ->
           Handled(<< >>, 0) /\ UNCHANGED <<threadVars, mFixInterval, wanted>>
      [] r # NoRequest /\ (~r.report \/ disable) ->
           /\ Begun("stop")
           /\ then' = [then EXCEPT ![Handler] = "cancel"]
           /\ wanted' = "no"
           /\ UNCHANGED mFixInterval
      [] OTHER ->
           /\ mFixInterval' = r.interval
           /\ wanted' = IF r.single \/ (mStarted /\ mSingleShot) THEN "single" ELSE "periodic"
           /\ IF mStarted THEN Handled(<< >>, 0) /\ UNCHANGED threadVars
                          ELSE Begun("start") /\ UNCHANGED then

handleSetRequest ==
    /\ HandlerIs("SET_REQUEST")
    /\ mProviderRequest' = Head(queue).arg
    /\ updateRequirements(Head(queue).arg, mDisableGps)
    /\ UNCHANGED <<restOfDownload, mSupportsXtra, mEnabled, mDisableGps, sessionVars, alarmVars,
                   ready, stale>>

\* updateLowPowerMode, of a broadcast: battery saver with the screen off.
updateLowPowerMode ==
    /\ HandlerIs("POWER_SAVE_MODE_CHANGED")
    /\ mDisableGps' = Head(queue).arg
    /\ IF mDisableGps' # mDisableGps
       THEN updateRequirements(mProviderRequest, mDisableGps')
       ELSE Handled(<< >>, 0) /\ UNCHANGED <<threadVars, mFixInterval, wanted>>
    /\ UNCHANGED <<restOfDownload, mSupportsXtra, mEnabled, mProviderRequest, sessionVars,
                   alarmVars, ready, stale>>

onAlarmWakeup ==
    /\ HandlerIs("ALARM_WAKEUP")
    /\ Begun("start")
    /\ UNCHANGED <<restOfDownload, mSupportsXtra, requestVars, sessionVars, alarmVars, ready,
                   then, ghostVars>>

onAlarmTimeout ==
    /\ HandlerIs("ALARM_TIMEOUT")
    /\ Begun("stop")
    /\ then' = [then EXCEPT ![Handler] = "hibernate"]
    /\ UNCHANGED <<restOfDownload, mSupportsXtra, requestVars, sessionVars, alarmVars, ready,
                   ghostVars>>

-----------------------------------------------------------------------------
(* Starting, on the handler's thread.                                      *)

\* startNavigating, from a request or, as if it were periodic, from the alarm.
startNavigating ==
    /\ pc[Handler] = "start"
    /\ IF mStarted
       THEN Done /\ UNCHANGED <<mStarted, mSingleShot, stale>>
       ELSE /\ mStarted' = TRUE
            /\ mSingleShot' = (cur.what # "ALARM_WAKEUP" /\ mProviderRequest.single)
            /\ stale' = (stale \/ pc[Engine] # "idle")
            /\ Goto(Handler, "mode")
            /\ UNCHANGED <<queue, mWakeLock, cur>>
    /\ UNCHANGED <<restOfDownload, mSupportsXtra, requestVars, mStatus, engine, alarmVars, ready,
                   then, wanted>>

\* native_set_position_mode or native_start fails: nothing tries again.
StartFails ==
    /\ pc[Handler] \in {"mode", "engine"}
    /\ mStarted' = FALSE
    /\ wanted' = "no"
    /\ Done
    /\ UNCHANGED <<restOfDownload, mSupportsXtra, requestVars, mSingleShot, mStatus, engine,
                   alarmVars, ready, then, stale>>

SetPositionMode ==
    /\ pc[Handler] = "mode"
    /\ Goto(Handler, "engine")
    /\ UNCHANGED <<downloadVars, requestVars, sessionVars, alarmVars, cur, then, ready, ghostVars>>

NativeStart ==
    /\ pc[Handler] = "engine"
    /\ ready
    /\ engine' = TRUE
    /\ Goto(Handler, "started")
    /\ UNCHANGED <<downloadVars, requestVars, mStarted, mSingleShot, mStatus, alarmVars, cur, then,
                   ready, ghostVars>>

\* Without scheduling by the engine, a long interval gives a fix a minute to come.
Started ==
    /\ pc[Handler] = "started"
    /\ mStatus' = 1
    /\ mTimeoutIntent' = (mTimeoutIntent \/ (~Scheduling /\ mFixInterval = "long"))
    /\ Done
    /\ UNCHANGED <<restOfDownload, mSupportsXtra, requestVars, mStarted, mSingleShot, engine,
                   mWakeupIntent, ready, then, ghostVars>>

-----------------------------------------------------------------------------
(* Stopping and hibernating, on either thread.                             *)

\* stopNavigating does nothing unless navigating was started.
StopNothing(t) ==
    /\ pc[t] = "stop" /\ ~mStarted
    /\ Goto(t, then[t])
    /\ UNCHANGED <<downloadVars, requestVars, sessionVars, alarmVars, cur, then, ready, ghostVars>>

stopNavigating(t) ==
    /\ pc[t] = "stop" /\ mStarted
    /\ mStarted' = FALSE
    /\ mSingleShot' = FALSE
    /\ Goto(t, "stopping")
    /\ UNCHANGED <<downloadVars, requestVars, mStatus, engine, alarmVars, cur, then, ready,
                   ghostVars>>

NativeStop(t) ==
    /\ pc[t] = "stopping"
    /\ engine' = FALSE
    /\ mStatus' = 1
    /\ Goto(t, then[t])
    /\ UNCHANGED <<downloadVars, requestVars, mStarted, mSingleShot, alarmVars, cur, then,
                   ready, ghostVars>>

\* What is left of a message that stopped navigating: both alarms are cancelled,
\* which does not take back a broadcast that one has left already.
CancelAlarms ==
    /\ pc[Handler] = "cancel"
    /\ mWakeupIntent' = FALSE
    /\ mTimeoutIntent' = FALSE
    /\ ready' = (ready /\ cur.what # "ENABLE")
    /\ Done
    /\ UNCHANGED <<restOfDownload, mSupportsXtra, requestVars, sessionVars, then, ghostVars>>

\* Mutant: hibernating without an end.
Hibernate_NoWakeup(t) ==
    /\ pc[t] = "hibernate"
    /\ mTimeoutIntent' = FALSE
    /\ mWakeupIntent' = FALSE
    /\ IF t = Handler THEN Done ELSE Goto(t, "idle") /\ UNCHANGED <<queue, mWakeLock, cur>>
    /\ UNCHANGED <<restOfDownload, mSupportsXtra, requestVars, sessionVars, then, ready, ghostVars>>

\* The end of hibernate: navigating starts again after the interval.
Hibernate(t) ==
    /\ pc[t] = "hibernate"
    /\ mTimeoutIntent' = FALSE
    /\ mWakeupIntent' = TRUE
    /\ IF t = Handler THEN Done ELSE Goto(t, "idle") /\ UNCHANGED <<queue, mWakeLock, cur>>
    /\ UNCHANGED <<restOfDownload, mSupportsXtra, requestVars, sessionVars, then, ready, ghostVars>>

-----------------------------------------------------------------------------
(* The engine's thread: reportLocation.                                    *)

\* The location has been reported.
reportLocation ==
    /\ pc[Engine] = "idle"
    /\ engine
    /\ Goto(Engine, "reported")
    /\ UNCHANGED <<downloadVars, requestVars, sessionVars, alarmVars, cur, then, ready, ghostVars>>

\* One fix is enough for a single-shot session.
SingleShotDone ==
    /\ pc[Engine] = "reported"
    /\ IF mSingleShot
       THEN Goto(Engine, "stop") /\ then' = [then EXCEPT ![Engine] = "fixed"]
       ELSE Goto(Engine, "fixed") /\ UNCHANGED then
    /\ UNCHANGED <<downloadVars, requestVars, sessionVars, alarmVars, cur, ready, ghostVars>>

\* The first fix makes the provider available.
FirstFix ==
    /\ pc[Engine] = "fixed"
    /\ mStatus' = IF mStarted THEN 2 ELSE mStatus
    /\ mTimeoutIntent' = (mTimeoutIntent /\
           ~(mStarted /\ mStatus # 2 /\ ~Scheduling /\ mFixInterval # "long"))
    /\ Goto(Engine, "available")
    /\ UNCHANGED <<downloadVars, requestVars, mStarted, mSingleShot, engine, mWakeupIntent, cur,
                   then, ready, ghostVars>>

\* Without scheduling by the engine, it sleeps between fixes that are far apart.
GotFix ==
    /\ pc[Engine] = "available"
    /\ IF ~Scheduling /\ mStarted /\ mFixInterval # "short"
       THEN Goto(Engine, "stop") /\ then' = [then EXCEPT ![Engine] = "hibernate"]
       ELSE Goto(Engine, "idle") /\ UNCHANGED then
    /\ UNCHANGED <<downloadVars, requestVars, sessionVars, alarmVars, cur, ready, ghostVars>>

-----------------------------------------------------------------------------
(* The specification.                                                      *)

restOfProvider == <<requestVars, sessionVars, alarmVars, threadVars, ready, ghostVars>>

\* An alarm goes off.  The intervals last longer than the handler takes to come to
\* what the same alarm has left before: this bounds the queue.
WakeupAlarm ==
    /\ mWakeupIntent
    /\ ~\E i \in DOMAIN queue : queue[i].what = "ALARM_WAKEUP"
    /\ mWakeupIntent' = FALSE
    /\ Broadcast("ALARM_WAKEUP", FALSE)
    /\ UNCHANGED <<restOfDownload, mSupportsXtra, requestVars, sessionVars, mTimeoutIntent,
                   threadVars, ready, ghostVars>>

TimeoutAlarm ==
    /\ mTimeoutIntent
    /\ ~\E i \in DOMAIN queue : queue[i].what = "ALARM_TIMEOUT"
    /\ mTimeoutIntent' = FALSE
    /\ Broadcast("ALARM_TIMEOUT", FALSE)
    /\ UNCHANGED <<restOfDownload, mSupportsXtra, requestVars, sessionVars, mWakeupIntent,
                   threadVars, ready, ghostVars>>

\* Calls of clients and of the engine, and broadcasts of the system.
Call ==
    \/ /\ \/ \E on \in BOOLEAN : SetEnabled(on)
          \/ \E r \in Request : setRequest(r)
          \/ \E on \in BOOLEAN : (Broadcast("CONNECTIVITY_CHANGE", on)
                                  \/ Broadcast("POWER_SAVE_MODE_CHANGED", on))
                                 /\ UNCHANGED requestVars
       /\ UNCHANGED <<restOfDownload, mSupportsXtra, sessionVars, alarmVars, threadVars, ready,
                      ghostVars>>
    \/ /\ \/ requestUtcTime
          \/ xtraDownloadRequest
          \/ ready /\ \E onDemandTime \in BOOLEAN : setEngineCapabilities(onDemandTime)
       /\ UNCHANGED restOfProvider

Handle ==
    \/ handleDisable \/ handleSetRequest \/ updateLowPowerMode \/ onAlarmWakeup \/ onAlarmTimeout
    \/ \E ok \in BOOLEAN : handleEnable(ok)
    \/ startNavigating \/ StartFails \/ SetPositionMode \/ NativeStart \/ Started
    \/ CancelAlarms
    \/ pc[Handler] = "idle" /\ HandleDownload /\ UNCHANGED restOfProvider

Next ==
    \/ calls < MaxCall /\ calls' = calls + 1 /\ Call
    \/ /\ \/ Handle
          \/ \E t \in {Handler, Engine} :
                 StopNothing(t) \/ stopNavigating(t) \/ NativeStop(t) \/ Hibernate(t)
          \/ reportLocation \/ SingleShotDone \/ FirstFix \/ GotFix
          \/ WakeupAlarm \/ TimeoutAlarm
          \/ (Work \/ \E k \in Kind : Due(k)) /\ UNCHANGED restOfProvider
       /\ UNCHANGED calls

Spec == Init /\ [][Next]_vars

-----------------------------------------------------------------------------
(* Properties.                                                             *)

\* The wake lock counts exactly the messages that hold it, the one at hand included,
\* and the workers: it is never released too often, which would throw, nor kept.
WakeLockExact == mWakeLock = CountOf(queue) + CountOf(<<cur>>) + Cardinality(Working)

\* Neither thread is in the middle of something, and no report has been under way
\* when navigating began: such a report stops the new session as if it were its own,
\* and may do so before the engine is started, which then stays on.
Quiet == pc = [t \in {Handler, Engine} |-> "idle"] /\ ~stale

\* The engine navigates exactly when mStarted says so (it drains the battery unseen
\* otherwise, or is never started again), and as long as periodic locations are
\* wanted, navigating is on or will be: the alarm that starts it again is set, or
\* has gone off.
NavigationNotForgotten ==
    Quiet =>
        /\ engine <=> mStarted
        /\ wanted = "periodic" =>
               \/ mStarted
               \/ mWakeupIntent
               \/ \E i \in DOMAIN queue : queue[i].what = "ALARM_WAKEUP"

=============================================================================
