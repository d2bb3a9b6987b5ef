------------------------------- MODULE RilEvent -------------------------------
(***************************************************************************)
(* The event loop of libril (ril_event.cpp, and the part of ril.cpp that   *)
(* starts it and wakes it up).                                             *)
(*                                                                         *)
(* One dispatch thread runs ril_event_loop: it copies readFds, computes    *)
(* the next timer, blocks in select, and then moves the expired timers and *)
(* the readable events to pending_list and calls their callbacks.  Other   *)
(* threads add events and timers: each takes listMutex for the addition    *)
(* and, after releasing it, writes a byte to the wakeup pipe so that a     *)
(* blocked select returns and the loop reads its tables again.             *)
(*                                                                         *)
(* A section under listMutex is one step.  What the loop reads WITHOUT the *)
(* mutex (readFds, the head of timer_list, nfds) is read in a step of its  *)
(* own, so that additions interleave with it as they do in the program.    *)
(***************************************************************************)
EXTENDS Integers, FiniteSets, SequencesExt

CONSTANTS
    FdEvent,     \* the events that watch a file descriptor
    Fd,          \* Fd[e]: the descriptor e watches (ev->fd)
    Persistent,  \* the events with ev->persist set
    Wakeup,      \* s_wakeupfd_event, which watches the wakeup pipe
    Timer,       \* the timer events (ev->fd = -1)
    Delay,       \* Delay[t]: the relative time t is requested with
    Thread,      \* the threads, other than the dispatch thread, that add events
    MaxEvents,   \* MAX_FD_EVENTS
    MaxTime,     \* bound on the clock
    NoEvent      \* NULL in watch_table

ASSUME EventAssumption ==
    /\ Wakeup \in FdEvent
    /\ Wakeup \in Persistent
    /\ Persistent \subseteq FdEvent
    /\ FdEvent \cap Timer = {}
    /\ NoEvent \notin FdEvent \cup Timer

\* Two events never watch the same descriptor: every event of ril.cpp is set
\* up on a descriptor of its own.
ASSUME FdAssumption ==
    /\ Fd \in [FdEvent -> Nat]
    /\ \A e, f \in FdEvent : Fd[e] = Fd[f] => e = f

\* libril watches at most six descriptors (wakeup, listen, commands, debug, and
\* the listen and command sockets of SAP), fewer than the eight slots.
ASSUME SizeAssumption ==
    /\ MaxEvents \in Nat
    /\ IsFiniteSet(FdEvent)
    /\ Cardinality(FdEvent) <= MaxEvents

ASSUME TimeAssumption ==
    /\ MaxTime \in Nat
    /\ Delay \in [Timer -> Nat]

VARIABLES
    watch,     \* watch_table
    index,     \* index[e]: ev->index, -1 when e is not in the table
    readFds,   \* readFds
    nfds,      \* nfds
    timers,    \* timer_list, from its head
    timeout,   \* timeout[t]: ev->timeout
    pending,   \* pending_list, from its head
    pipe,      \* "none" before pipe(), then whether it holds unread bytes
    ready,     \* the events whose descriptor has something to read
    now,       \* CLOCK_MONOTONIC
    pc,        \* where the dispatch thread is
    rfds,      \* its local rfds: the copy of readFds, then the result of select
    limit,     \* the nfds select was called with
    deadline,  \* when select times out, -1 for never (ptv = NULL)
    cur,       \* the event whose callback is running
    tpc        \* tpc[th]: where thread th is

watchVars == <<watch, index, readFds, nfds>>
timerVars == <<timers, timeout>>
selectVars == <<rfds, limit, deadline>>
vars == <<watchVars, timerVars, pending, pipe, ready, now, pc, selectVars, cur, tpc>>

Event == FdEvent \cup Timer
Slot == 0..(MaxEvents - 1)
LoopPC == {"pipe", "addWakeup", "copy", "calc", "enter", "select",
           "timeouts", "reads", "fire", "callback"}

Watched == {e \in FdEvent : index[e] # -1}

\* The descriptors of a set of events.
Fds(E) == {Fd[e] : e \in E}

\* An event that is nowhere in the loop: its caller may add it.
Inactive(e) == /\ e # cur
               /\ e \notin Range(pending)
               /\ e \in FdEvent => index[e] = -1
               /\ e \in Timer => e \notin Range(timers)

Init ==
    /\ watch = [s \in Slot |-> NoEvent]
    /\ index = [e \in FdEvent |-> -1]
    /\ readFds = {}
    /\ nfds = 0
    /\ timers = <<>>
    /\ timeout = [t \in Timer |-> 0]
    /\ pending = <<>>
    /\ pipe = "none"
    /\ ready = {}
    /\ now = 0
    /\ pc = "pipe"
    /\ rfds = {}
    /\ limit = 0
    /\ deadline = -1
    /\ cur = NoEvent
    /\ tpc = [th \in Thread |-> "run"]

-----------------------------------------------------------------------------
(* The operations on the tables, each one section under listMutex.         *)

\* Mutant: the slot's number is stored one too high.
ril_event_add_IndexOffByOne(e) ==
    /\ \E s \in Slot :
         /\ watch[s] = NoEvent
         /\ \A r \in Slot : watch[r] = NoEvent => s <= r
         /\ watch' = [watch EXCEPT ![s] = e]
         /\ index' = [index EXCEPT ![e] = s + 1]
    /\ readFds' = readFds \cup {Fd[e]}
    /\ nfds' = IF Fd[e] >= nfds THEN Fd[e] + 1 ELSE nfds

\* ril_event_add takes the first free slot; when there is none the event is
\* dropped without a word.
ril_event_add(e) ==
    IF \E s \in Slot : watch[s] = NoEvent
    THEN /\ \E s \in Slot :
              /\ watch[s] = NoEvent
              /\ \A r \in Slot : watch[r] = NoEvent => s <= r
              /\ watch' = [watch EXCEPT ![s] = e]
              /\ index' = [index EXCEPT ![e] = s]
         /\ readFds' = readFds \cup {Fd[e]}
         /\ nfds' = IF Fd[e] >= nfds THEN Fd[e] + 1 ELSE nfds
    ELSE UNCHANGED watchVars

\* Mutant: nfds becomes the highest descriptor left, without the + 1.
removeWatch_NfdsOffByOne(R) ==
    LET left == Fds(Watched \ R)
    IN  /\ watch' = [s \in Slot |-> IF watch[s] \in R THEN NoEvent ELSE watch[s]]
        /\ index' = [e \in FdEvent |-> IF e \in R THEN -1 ELSE index[e]]
        /\ readFds' = readFds \ Fds(R)
        /\ IF \E e \in R : Fd[e] + 1 = nfds
           THEN \E n \in left \cup {0} : /\ \A m \in left : m <= n
                                         /\ nfds' = n
           ELSE nfds' = nfds

\* removeWatch, for each event of a set: nfds is computed again only when the
\* highest descriptor goes.
removeWatch(R) ==
    LET left == Fds(Watched \ R)
    IN  /\ watch' = [s \in Slot |-> IF watch[s] \in R THEN NoEvent ELSE watch[s]]
        /\ index' = [e \in FdEvent |-> IF e \in R THEN -1 ELSE index[e]]
        /\ readFds' = readFds \ Fds(R)
        /\ IF \E e \in R : Fd[e] + 1 = nfds
           THEN \E n \in left \cup {0} : /\ \A m \in left : m <= n
                                         /\ nfds' = n + 1
           ELSE nfds' = nfds

\* ril_timer_add: before the first timer that does not expire earlier.
ril_timer_add(t) ==
    /\ timeout' = [timeout EXCEPT ![t] = now + Delay[t]]
    /\ \E k \in 0..Len(timers) :
         /\ \A i \in 1..k : timeout[timers[i]] < now + Delay[t]
         /\ k < Len(timers) => timeout[timers[k + 1]] >= now + Delay[t]
         /\ timers' = InsertAt(timers, k + 1, t)

-----------------------------------------------------------------------------
(* The other threads: rilEventAddWakeup and internalRequestTimedCallback.  *)

\* Mutant: ril_event_add instead of rilEventAddWakeup.
ThreadAddEvent_NoTrigger(th, e) ==
    /\ tpc[th] = "run"
    /\ e # Wakeup
    /\ Inactive(e)
    /\ ril_event_add(e)
    /\ UNCHANGED <<timerVars, pending, pipe, ready, now, pc, selectVars, cur, tpc>>

ThreadAddEvent(th, e) ==
    /\ tpc[th] = "run"
    /\ e # Wakeup
    /\ Inactive(e)
    /\ ril_event_add(e)
    /\ tpc' = [tpc EXCEPT ![th] = "trigger"]
    /\ UNCHANGED <<timerVars, pending, pipe, ready, now, pc, selectVars, cur>>

\* Mutant: the timer is added and the loop is not woken up.
ThreadAddTimer_NoTrigger(th, t) ==
    /\ tpc[th] = "run"
    /\ Inactive(t)
    /\ now + Delay[t] < MaxTime
    /\ ril_timer_add(t)
    /\ UNCHANGED <<watchVars, pending, pipe, ready, now, pc, selectVars, cur, tpc>>

ThreadAddTimer(th, t) ==
    /\ tpc[th] = "run"
    /\ Inactive(t)
    /\ now + Delay[t] < MaxTime
    /\ ril_timer_add(t)
    /\ tpc' = [tpc EXCEPT ![th] = "trigger"]
    /\ UNCHANGED <<watchVars, pending, pipe, ready, now, pc, selectVars, cur>>

\* triggerEvLoop.  Before pipe() has run s_fdWakeupWrite is 0, and the byte
\* goes to descriptor 0 instead.
triggerEvLoop(th) ==
    /\ tpc[th] = "trigger"
    /\ pipe' = IF pipe = "none" THEN "none" ELSE "full"
    /\ tpc' = [tpc EXCEPT ![th] = "run"]
    /\ UNCHANGED <<watchVars, timerVars, pending, ready, now, pc, selectVars, cur>>

-----------------------------------------------------------------------------
(* The dispatch thread: eventLoop, then ril_event_loop.                    *)

\* s_started has been set and broadcast: other threads already run.
CreatePipe ==
    /\ pc = "pipe"
    /\ pipe' = "empty"
    /\ pc' = "addWakeup"
    /\ UNCHANGED <<watchVars, timerVars, pending, ready, now, selectVars, cur, tpc>>

\* rilEventAddWakeup on the dispatch thread writes no byte, unless
\* pthread_create has not stored s_tid_dispatch yet.
AddWakeup ==
    /\ pc = "addWakeup"
    /\ ril_event_add(Wakeup)
    /\ pipe' \in {pipe, "full"}
    /\ pc' = "copy"
    /\ UNCHANGED <<timerVars, pending, ready, now, selectVars, cur, tpc>>

\* memcpy(&rfds, &readFds), without the mutex.
CopyFds ==
    /\ pc = "copy"
    /\ rfds' = readFds
    /\ pc' = "calc"
    /\ UNCHANGED <<watchVars, timerVars, pending, pipe, ready, now, limit, deadline, cur, tpc>>

\* The head of timer_list, without the mutex.  A timer that has expired
\* already gives a zero timeout: a deadline that has passed.
calcNextTimeout ==
    /\ pc = "calc"
    /\ deadline' = IF timers = <<>> THEN -1 ELSE timeout[timers[1]]
    /\ pc' = "enter"
    /\ UNCHANGED <<watchVars, timerVars, pending, pipe, ready, now, rfds, limit, cur, tpc>>

\* Mutant: select is given the highest descriptor instead of one more.
SelectEnter_HighestFd ==
    /\ pc = "enter"
    /\ limit' = nfds - 1
    /\ pc' = "select"
    /\ UNCHANGED <<watchVars, timerVars, pending, pipe, ready, now, rfds, deadline, cur, tpc>>

SelectEnter ==
    /\ pc = "enter"
    /\ limit' = nfds
    /\ pc' = "select"
    /\ UNCHANGED <<watchVars, timerVars, pending, pipe, ready, now, rfds, deadline, cur, tpc>>

\* What select reports of the descriptors it was given.
Readable(e) == IF e = Wakeup THEN pipe = "full" ELSE e \in ready
Selected == {fd \in rfds : fd < limit /\ \E e \in FdEvent : Fd[e] = fd /\ Readable(e)}
TimedOut == deadline # -1 /\ now >= deadline

\* limit and deadline are dead from here on: the loop computes both again.
SelectReturn ==
    /\ pc = "select"
    /\ Selected # {} \/ TimedOut
    /\ rfds' = Selected
    /\ limit' = 0
    /\ deadline' = -1
    /\ pc' = "timeouts"
    /\ UNCHANGED <<watchVars, timerVars, pending, pipe, ready, now, cur, tpc>>

\* A signal: select fails with EINTR, and the loop starts again.
SelectInterrupted ==
    /\ pc = "select"
    /\ Selected = {} /\ ~TimedOut
    /\ pc' = "copy"
    /\ UNCHANGED <<watchVars, timerVars, pending, pipe, ready, now, selectVars, cur, tpc>>

\* Mutant: a timer counts as expired when its time is reached, not passed.
processTimeouts_Early ==
    /\ pc = "timeouts"
    /\ \E k \in 0..Len(timers) :
         /\ \A i \in 1..k : timeout[timers[i]] <= now
         /\ k < Len(timers) => timeout[timers[k + 1]] > now
         /\ pending' = pending \o SubSeq(timers, 1, k)
         /\ timers' = SubSeq(timers, k + 1, Len(timers))
    /\ pc' = "reads"
    /\ UNCHANGED <<watchVars, timeout, pipe, ready, now, selectVars, cur, tpc>>

\* The head of timer_list up to the first timer that has not expired.
processTimeouts ==
    /\ pc = "timeouts"
    /\ \E k \in 0..Len(timers) :
         /\ \A i \in 1..k : timeout[timers[i]] < now
         /\ k < Len(timers) => timeout[timers[k + 1]] >= now
         /\ pending' = pending \o SubSeq(timers, 1, k)
         /\ timers' = SubSeq(timers, k + 1, Len(timers))
    /\ pc' = "reads"
    /\ UNCHANGED <<watchVars, timeout, pipe, ready, now, selectVars, cur, tpc>>

\* q lists the events of R in the order of their slots.
InSlotOrder(q, R) ==
    /\ Range(q) = R
    /\ \A i, j \in 1..Len(q) : i < j => index[q[i]] < index[q[j]]

\* Mutant: the test of ev->persist is inverted.
processReadReadies_PersistInverted ==
    /\ pc = "reads"
    /\ LET R == {e \in Watched : Fd[e] \in rfds}
       IN  /\ \E k \in 0..MaxEvents : \E q \in [1..k -> R] :
                /\ InSlotOrder(q, R)
                /\ pending' = pending \o q
           /\ removeWatch(R \cap Persistent)
    /\ rfds' = {}
    /\ pc' = "fire"
    /\ UNCHANGED <<timerVars, pipe, ready, now, limit, deadline, cur, tpc>>

\* The count select returned stops the walk early, but never before the last
\* readable event: no two events share a descriptor.
processReadReadies ==
    /\ pc = "reads"
    /\ LET R == {e \in Watched : Fd[e] \in rfds}
       IN  /\ \E k \in 0..MaxEvents : \E q \in [1..k -> R] :
                /\ InSlotOrder(q, R)
                /\ pending' = pending \o q
           /\ removeWatch(R \ Persistent)
    /\ rfds' = {}
    /\ pc' = "fire"
    /\ UNCHANGED <<timerVars, pipe, ready, now, limit, deadline, cur, tpc>>

\* firePending takes the first event off the list and calls it.  The callback
\* of an input event reads what there is; processWakeupCallback only drains
\* the pipe.
FireFirst ==
    /\ pc = "fire"
    /\ pending # <<>>
    /\ cur' = Head(pending)
    /\ pending' = Tail(pending)
    /\ ready' = ready \ {Head(pending)}
    /\ pipe' = IF Head(pending) = Wakeup THEN "empty" ELSE pipe
    /\ pc' = "callback"
    /\ UNCHANGED <<watchVars, timerVars, now, selectVars, tpc>>

\* A callback may add events and timers: on this thread nothing is written to
\* the pipe.
CallbackAddEvent(e) ==
    /\ pc = "callback" /\ cur # Wakeup
    /\ e # Wakeup
    /\ Inactive(e) \/ (e = cur /\ index[e] = -1)
    /\ ril_event_add(e)
    /\ UNCHANGED <<timerVars, pending, pipe, ready, now, pc, selectVars, cur, tpc>>

CallbackAddTimer(t) ==
    /\ pc = "callback" /\ cur # Wakeup
    /\ Inactive(t)
    /\ now + Delay[t] < MaxTime
    /\ ril_timer_add(t)
    /\ UNCHANGED <<watchVars, pending, pipe, ready, now, pc, selectVars, cur, tpc>>

\* ril_event_del is only called from the callback of the event it deletes.
ril_event_del ==
    /\ pc = "callback" /\ cur # Wakeup
    /\ cur \in FdEvent
    /\ index[cur] # -1
    /\ removeWatch({cur})
    /\ UNCHANGED <<timerVars, pending, pipe, ready, now, pc, selectVars, cur, tpc>>

CallbackReturn ==
    /\ pc = "callback"
    /\ cur' = NoEvent
    /\ pc' = "fire"
    /\ UNCHANGED <<watchVars, timerVars, pending, pipe, ready, now, selectVars, tpc>>

FireDone ==
    /\ pc = "fire"
    /\ pending = <<>>
    /\ pc' = "copy"
    /\ UNCHANGED <<watchVars, timerVars, pending, pipe, ready, now, selectVars, cur, tpc>>

-----------------------------------------------------------------------------
(* The environment.                                                        *)

\* A client connects, or sends, or closes its end.
Input(e) ==
    /\ e # Wakeup
    /\ ready' = ready \cup {e}
    /\ UNCHANGED <<watchVars, timerVars, pending, pipe, now, pc, selectVars, cur, tpc>>

Tick ==
    /\ now < MaxTime
    /\ now' = now + 1
    /\ UNCHANGED <<watchVars, timerVars, pending, pipe, ready, pc, selectVars, cur, tpc>>

LoopStep ==
    \/ CreatePipe \/ AddWakeup \/ CopyFds \/ calcNextTimeout \/ SelectEnter
    \/ SelectReturn \/ processTimeouts \/ processReadReadies
    \/ FireFirst \/ FireDone \/ CallbackReturn

CallbackStep ==
    \/ \E e \in FdEvent : CallbackAddEvent(e)
    \/ \E t \in Timer : CallbackAddTimer(t)
    \/ ril_event_del

ThreadStep(th) ==
    \/ \E e \in FdEvent : ThreadAddEvent(th, e)
    \/ \E t \in Timer : ThreadAddTimer(th, t)
    \/ triggerEvLoop(th)

Next ==
    \/ LoopStep
    \/ CallbackStep
    \/ SelectInterrupted
    \/ \E th \in Thread : ThreadStep(th)
    \/ \E e \in FdEvent : Input(e)
    \/ Tick

Spec == Init /\ [][Next]_vars

\* The dispatch thread and the threads that have a byte to write keep running,
\* callbacks return, and time passes.  Nothing forces a client or a thread to
\* ask for anything.
Fairness ==
    /\ WF_vars(LoopStep)
    /\ \A th \in Thread : WF_vars(triggerEvLoop(th))
    /\ WF_vars(Tick)

FairSpec == Spec /\ Fairness

-----------------------------------------------------------------------------
(* Properties.                                                             *)

TypeOK ==
    /\ watch \in [Slot -> FdEvent \cup {NoEvent}]
    /\ index \in [FdEvent -> Slot \cup {-1}]
    /\ readFds \subseteq Nat
    /\ nfds \in Nat
    /\ timers \in Seq(Timer)
    /\ timeout \in [Timer -> Nat]
    /\ pending \in Seq(Event)
    /\ pipe \in {"none", "empty", "full"}
    /\ ready \subseteq FdEvent
    /\ now \in Nat
    /\ pc \in LoopPC
    /\ rfds \subseteq Nat
    /\ limit \in Nat
    /\ deadline \in Nat \cup {-1}
    /\ cur \in Event \cup {NoEvent}
    /\ tpc \in [Thread -> {"run", "trigger"}]

\* watch_table, the events' own index, readFds and nfds say the same thing: the
\* four are updated one by one in ril_event_add and removeWatch, and removeWatch
\* recomputes nfds only for the highest descriptor.
TablesAgree ==
    /\ \A e \in Watched : watch[index[e]] = e
    /\ \A s \in Slot : watch[s] # NoEvent => index[watch[s]] = s
    /\ readFds = Fds(Watched)
    /\ \A e \in Watched : Fd[e] < nfds

\* ril_event_add drops an event when no slot is free and tells nobody.  It never
\* comes to that: an event that is not in the table finds a slot.
AlwaysRoom ==
    \A e \in FdEvent : index[e] = -1 => \E s \in Slot : watch[s] = NoEvent

\* Somebody is about to write to the pipe, or the pipe already holds a byte that
\* the select in progress will see.
WakeupComing ==
    \/ \E th \in Thread : tpc[th] = "trigger"
    \/ pipe = "full" /\ Fd[Wakeup] \in rfds

\* What the loop is about to block on is never older than what it should wait
\* for, unless a wakeup is on its way: every watched descriptor is in the set
\* given to select and below its nfds, and select times out no later than the
\* first timer.  readFds, timer_list and nfds are read without listMutex.
NoLostWakeup ==
    /\ pc \in {"calc", "enter", "select"} =>
         \/ WakeupComing
         \/ \A e \in Watched : Fd[e] \in rfds
    /\ pc = "select" =>
         \/ WakeupComing /\ (pipe = "full" => Fd[Wakeup] < limit)
         \/ \A e \in Watched : Fd[e] < limit
    /\ pc \in {"enter", "select"} =>
         \/ WakeupComing
         \/ \A t \in Range(timers) : deadline # -1 /\ deadline <= timeout[t]

\* A timer is not called before its time has passed: processTimeouts compares
\* with >, select with a relative time computed earlier.
NeverEarly ==
    [][\A t \in Timer : cur # t /\ cur' = t => timeout[t] < now]_vars

\* Input on a watched descriptor reaches its callback (or the event is taken
\* out of the table).
InputServed ==
    \A e \in FdEvent \ {Wakeup} : (e \in ready /\ e \in Watched) ~> (cur = e \/ e \notin Watched)

\* A timer on timer_list is called, also one added while select is blocked with
\* no timeout or with a later one.
TimerServed ==
    \A t \in Timer : (t \in Range(timers)) ~> (cur = t)

\* The tables, the wakeup pipe and select implement the loop that RilLoop
\* describes: whatever other threads add and whenever, each arming of an event
\* that is not persistent is followed by at most one call, every event taken
\* from the tables is called exactly once before the tables are looked at
\* again, and nothing is called that was not armed.  The lists are doubly linked
\* through the event itself: an event linked twice would corrupt both.
Loop == INSTANCE RilLoop WITH
    Source <- FdEvent, Alarm <- Timer, None <- NoEvent,
    armed <- Watched \cup Range(timers), batch <- Range(pending), running <- cur

CallsWhatWasArmed == Loop!Spec

=============================================================================
