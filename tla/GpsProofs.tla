------------------------------ MODULE GpsProofs -------------------------------
(***************************************************************************)
(* Proofs about GpsLocationProvider.java, for every set of workers (also   *)
(* an infinite one), of requests and of calls, and for engines that        *)
(* schedule fixes themselves or do not.                                    *)
(*                                                                         *)
(* TInv has the types and the places of the two threads.  On it rest four  *)
(* invariants that do not need each other but for one: WInv, what holds    *)
(* the wake lock; BInv, which download is running; DInv, which also uses   *)
(* BInv, what comes back to a download; and NInv, what keeps the engine    *)
(* and mStarted together and comes back to navigating.                     *)
(***************************************************************************)
EXTENDS GpsLocationProvider, FiniteSetTheorems, FunctionTheorems, TLAPS

\* A message, a job of a worker, and the places of the two threads.
What == {"none", "CONNECTIVITY_CHANGE", "UPDATE_NETWORK_STATE", "POWER_SAVE_MODE_CHANGED",
         "ENABLE", "SET_REQUEST", "ALARM_WAKEUP", "ALARM_TIMEOUT", "INJECT_NTP_TIME",
         "INJECT_NTP_TIME_FINISHED", "DOWNLOAD_XTRA_DATA", "DOWNLOAD_XTRA_DATA_FINISHED"}
Message == [what : What, arg : BOOLEAN \cup Request, arg2 : BOOLEAN]
Job == [kind : Kind, at : {"get", "tell", "end"}, ok : BOOLEAN] \cup {Free}
Thread == {Handler, Engine}
HandlerPlace == {"idle", "start", "mode", "engine", "started", "stop", "stopping", "cancel",
                 "hibernate"}
EnginePlace == {"idle", "reported", "stop", "stopping", "fixed", "available", "hibernate"}

TypeInv ==
    /\ queue \in Seq(Message)
    /\ delayed \in [Kind -> Nat]
    /\ mWakeLock \in Int
    /\ pending \in [Kind -> 0 .. 2]
    /\ mPeriodicTimeInjection \in BOOLEAN
    /\ mSupportsXtra \in BOOLEAN
    /\ job \in [Worker -> Job]
    /\ need \in [Kind -> BOOLEAN]
    /\ cur \in Message
    /\ pc \in [Thread -> HandlerPlace \cup EnginePlace]
    /\ then \in [Thread -> HandlerPlace \cup EnginePlace]

\* The handler has a message at hand only in the middle of it, and both threads
\* know where they go on after stopNavigating.
Seated ==
    /\ pc[Handler] \in HandlerPlace /\ (pc[Handler] = "idle" => cur = NoMessage)
    /\ pc[Engine] \in EnginePlace
    /\ pc[Handler] \in {"stop", "stopping"} => then[Handler] \in {"cancel", "hibernate"}
    /\ pc[Engine] \in {"stop", "stopping"} => then[Engine] \in {"fixed", "hibernate"}


\* A download that is wanted has been asked for by a message that will not be
\* ignored: if one is running, its end is told before.
Asked(k) ==
    \E j \in DOMAIN queue :
        /\ queue[j].what = Ask(k)
        /\ pending[k] = STATE_DOWNLOADING =>
               \E i \in DOMAIN queue : i < j /\ queue[i].what = Finished(k)

\* A worker that will ask again: it has not failed yet, or has.
WillAsk(k) ==
    \E w \in Worker :
        job[w].kind = k /\ (job[w].at = "get" \/ k = "ntp" \/ ~job[w].ok)

Retained(k) ==
    need[k] /\ (k = "ntp" => mPeriodicTimeInjection) =>
        \/ pending[k] = STATE_PENDING_NETWORK /\ ~mNetworkAvailable
        \/ Asked(k)
        \/ delayed[k] > 0
        \/ WillAsk(k)

\* What a worker has downloaded is not needed while it has yet to tell.
DoneIsDone ==
    \A w \in Worker : job[w].at = "tell" /\ job[w].ok => ~need[job[w].kind]

\* XTRA data is downloaded only for an engine that takes it.
Supported ==
    need["xtra"] \/ (\E w \in Worker : job[w].kind = "xtra") => mSupportsXtra

DInv == DoneIsDone /\ Supported /\ \A k \in Kind : Retained(k)

\* A thread that will set the alarm that starts navigating again.
WillHibernate(t) ==
    pc[t] = "hibernate" \/ (pc[t] \in {"stop", "stopping"} /\ then[t] = "hibernate")

\* The handler, before the session it starts is the engine's.
Starting == pc[Handler] \in {"mode", "engine"}

\* What an alarm has left for the handler.
WakeupLeft == \E i \in DOMAIN queue : queue[i].what = "ALARM_WAKEUP"

\* What the handler is about to do agrees with what navigating is wanted for.
Purpose ==
    /\ pc[Handler] = "start" /\ cur.what # "ALARM_WAKEUP" /\ mProviderRequest.single =>
           wanted # "periodic"
    /\ pc[Handler] = "cancel" => wanted # "periodic"
    /\ pc[Handler] \in {"stop", "stopping"} /\ then[Handler] = "cancel" => wanted # "periodic"

\* The engine agrees with mStarted, but for one who is about to start or stop it.
EngineInStep ==
    /\ Starting => pc[Engine] = "idle" /\ ~engine /\ mStarted
    /\ ~engine /\ mStarted => Starting
    /\ engine /\ ~mStarted => \E t \in Thread : pc[t] = "stopping"
    /\ \A t \in Thread : pc[t] = "stopping" => ~mStarted

\* A session for a single location is one that nobody wants to last.
SingleInStep ==
    /\ mStarted /\ mSingleShot => wanted # "periodic"
    /\ mStarted /\ pc[Engine] = "stop" /\ then[Engine] = "fixed" => mSingleShot

\* Navigating that is wanted is on, or somebody will start it.
Resumes ==
    wanted = "periodic" =>
        \/ mStarted
        \/ mWakeupIntent
        \/ WakeupLeft
        \/ pc[Handler] = "start"
        \/ \E t \in Thread : WillHibernate(t)

NInv == Purpose /\ (~stale => EngineInStep /\ SingleInStep /\ Resumes)
-----------------------------------------------------------------------------
(* Counting what is in the queue.                                          *)

\* Where queue q holds a message of set S.
At(q, S) == {i \in DOMAIN q : q[i] \in S}

LEMMA AtFinite ==
    ASSUME NEW q \in Seq(Message), NEW S
    PROVE  IsFiniteSet(At(q, S)) /\ Cardinality(At(q, S)) \in Nat
<1>1. IsFiniteSet(1 .. Len(q))
  BY FS_Interval
<1>2. DOMAIN q = 1 .. Len(q)
  OBVIOUS
<1>3. At(q, S) \in SUBSET (1 .. Len(q))
  BY <1>2 DEF At
<1>4. IsFiniteSet(At(q, S))
  BY <1>1, <1>3, FS_Subset
<1> QED
  BY <1>4, FS_CardinalityType

LEMMA ConcatFacts ==
    ASSUME NEW p \in Seq(Message), NEW q \in Seq(Message)
    PROVE  /\ p \o q \in Seq(Message)
           /\ Len(p) \in Nat /\ Len(q) \in Nat
           /\ Len(p \o q) = Len(p) + Len(q)
           /\ DOMAIN p = 1 .. Len(p) /\ DOMAIN q = 1 .. Len(q)
           /\ DOMAIN (p \o q) = 1 .. (Len(p) + Len(q))
           /\ \A i \in 1 .. Len(p) : (p \o q)[i] = p[i]
           /\ \A i \in 1 .. Len(q) : (p \o q)[Len(p) + i] = q[i]
OBVIOUS

\* The messages of one queue after another's are counted together.
LEMMA AtConcat ==
    ASSUME NEW p \in Seq(Message), NEW q \in Seq(Message), NEW S
    PROVE  Cardinality(At(p \o q, S)) = Cardinality(At(p, S)) + Cardinality(At(q, S))
<1> DEFINE n == Len(p)
           Later == {i \in DOMAIN (p \o q) : i > n /\ (p \o q)[i] \in S}
           f == [i \in At(q, S) |-> n + i]
<1>n. n \in Nat /\ Len(q) \in Nat
  BY ConcatFacts
<1>1. At(p \o q, S) = At(p, S) \cup Later
  <2>1. \A i : i \in At(p \o q, S) <=> i \in 1 .. (n + Len(q)) /\ (p \o q)[i] \in S
    BY ConcatFacts DEF At
  <2>2. \A i : i \in At(p, S) <=> i \in 1 .. n /\ (p \o q)[i] \in S
    BY ConcatFacts DEF At
  <2>3. \A i : i \in Later <=> i \in 1 .. (n + Len(q)) /\ i > n /\ (p \o q)[i] \in S
    BY ConcatFacts
  <2> HIDE DEF n, Later
  <2>4. \A i : i \in 1 .. (n + Len(q)) <=> i \in 1 .. n \/ (i \in 1 .. (n + Len(q)) /\ i > n)
    BY <1>n
  <2>5. \A i : i \in At(p \o q, S) <=> i \in At(p, S) \cup Later
    BY <2>1, <2>2, <2>3, <2>4
  <2> QED
    BY <2>5
<1>2. At(p, S) \cap Later = {}
  <2>1. \A i \in At(p, S) : i \in 1 .. n
    BY ConcatFacts DEF At
  <2>2. \A i \in Later : i > n
    OBVIOUS
  <2> HIDE DEF n, Later
  <2> QED
    BY <1>n, <2>1, <2>2
<1>3. Later \in SUBSET At(p \o q, S)
  BY DEF At
<1>4. IsFiniteSet(Later)
  <2>1. p \o q \in Seq(Message)
    OBVIOUS
  <2> QED
    BY <2>1, <1>3, AtFinite, FS_Subset
<1>5. Cardinality(Later) = Cardinality(At(q, S))
  <2>1. \A i \in At(q, S) : i \in 1 .. Len(q) /\ q[i] \in S
    BY ConcatFacts DEF At
  <2>2. \A i \in At(q, S) : n + i \in Later
    <3> SUFFICES ASSUME NEW i \in At(q, S) PROVE n + i \in Later
      OBVIOUS
    <3>1. (p \o q)[n + i] \in S /\ i \in 1 .. Len(q)
      BY <2>1, ConcatFacts
    <3>2. n + i \in 1 .. (n + Len(q)) /\ n + i > n
      BY <3>1, <1>n
    <3> QED
      BY <3>1, <3>2, ConcatFacts
  <2>3. \A j \in Later : \E i \in At(q, S) : n + i = j
    <3> SUFFICES ASSUME NEW j \in Later PROVE \E i \in At(q, S) : n + i = j
      OBVIOUS
    <3>1. j \in 1 .. (n + Len(q)) /\ j > n /\ (p \o q)[j] \in S
      BY ConcatFacts
    <3>2. j - n \in 1 .. Len(q) /\ n + (j - n) = j
      BY <3>1, <1>n
    <3>3. (p \o q)[n + (j - n)] = q[j - n]
      BY <3>2, ConcatFacts
    <3>4. j - n \in At(q, S)
      BY <3>1, <3>2, <3>3, ConcatFacts DEF At
    <3> QED
      BY <3>2, <3>4
  <2>4. f \in [At(q, S) -> Later]
    BY <2>2
  <2>5. \A a, b \in At(q, S) : f[a] = f[b] => a = b
    <3>1. \A a \in At(q, S) : a \in Int /\ f[a] = n + a
      BY <2>1
    <3> HIDE DEF n, f
    <3> QED
      BY <3>1, <1>n
  <2>6. \A j \in Later : \E i \in At(q, S) : f[i] = j
    BY <2>3
  <2> HIDE DEF f, Later
  <2>7. f \in Bijection(At(q, S), Later)
    BY <2>4, <2>5, <2>6, Fun_IsBij
  <2>8. ExistsBijection(At(q, S), Later)
    BY <2>7, Fun_ExistsBij
  <2> QED
    BY <2>8, AtFinite, FS_Bijection
<1> HIDE DEF Later
<1>6. Cardinality(At(p, S) \cup Later)
        = Cardinality(At(p, S)) + Cardinality(Later) - Cardinality(At(p, S) \cap Later)
  BY <1>4, AtFinite, FS_Union
<1>7. Cardinality(At(p, S) \cap Later) = 0
  BY <1>2, FS_EmptySet
<1> QED
  BY <1>1, <1>5, <1>6, <1>7, AtFinite

LEMMA AtNone == \A S : Cardinality(At(<< >>, S)) = 0
<1>1. \A S : At(<< >>, S) = {}
  BY DEF At
<1> QED
  BY <1>1, FS_EmptySet

LEMMA AtOne ==
    ASSUME NEW m, NEW S
    PROVE  Cardinality(At(<<m>>, S)) = IF m \in S THEN 1 ELSE 0
<1>1. DOMAIN <<m>> = {1} /\ <<m>>[1] = m
  OBVIOUS
<1>2. At(<<m>>, S) = IF m \in S THEN {1} ELSE {}
  BY <1>1 DEF At
<1> QED
  BY <1>2, FS_EmptySet, FS_Singleton

LEMMA HeadTailFacts ==
    ASSUME NEW q \in Seq(Message), q # << >>
    PROVE  /\ Head(q) \in Message /\ Tail(q) \in Seq(Message)
           /\ q = <<Head(q)>> \o Tail(q)
OBVIOUS

LEMMA AtTail ==
    ASSUME NEW q \in Seq(Message), q # << >>, NEW S
    PROVE  Cardinality(At(Tail(q), S)) = Cardinality(At(q, S)) - (IF Head(q) \in S THEN 1 ELSE 0)
<1> DEFINE h == <<Head(q)>>  t == Tail(q)
<1>1. h \in Seq(Message) /\ t \in Seq(Message) /\ q = h \o t
  BY HeadTailFacts
<1>2. Cardinality(At(h, S)) = IF Head(q) \in S THEN 1 ELSE 0
  BY AtOne
<1> HIDE DEF h, t
<1>3. Cardinality(At(h \o t, S)) = Cardinality(At(h, S)) + Cardinality(At(t, S))
  BY <1>1, AtConcat
<1>4. Cardinality(At(t, S)) \in Nat
  BY <1>1, AtFinite
<1>5. Cardinality(At(t, S)) = Cardinality(At(q, S)) - (IF Head(q) \in S THEN 1 ELSE 0)
  BY <1>1, <1>2, <1>3, <1>4
<1> QED
  BY <1>5 DEF t

\* The queue after its head has been handled and messages sent.
LEMMA AtHandled ==
    ASSUME NEW q \in Seq(Message), q # << >>, NEW p \in Seq(Message), NEW S
    PROVE  Cardinality(At(Tail(q) \o p, S))
             = Cardinality(At(q, S)) + Cardinality(At(p, S)) - (IF Head(q) \in S THEN 1 ELSE 0)
<1> DEFINE t == Tail(q)
<1>1. t \in Seq(Message)
  BY HeadTailFacts
<1>2. Cardinality(At(t, S)) = Cardinality(At(q, S)) - (IF Head(q) \in S THEN 1 ELSE 0)
  BY AtTail
<1> HIDE DEF t
<1>3. Cardinality(At(t \o p, S)) = Cardinality(At(t, S)) + Cardinality(At(p, S))
  BY <1>1, AtConcat
<1>4. /\ Cardinality(At(t, S)) \in Nat /\ Cardinality(At(p, S)) \in Nat
      /\ Cardinality(At(q, S)) \in Nat
  BY <1>1, AtFinite
<1>5. Cardinality(At(t \o p, S))
        = Cardinality(At(q, S)) + Cardinality(At(p, S)) - (IF Head(q) \in S THEN 1 ELSE 0)
  BY <1>2, <1>3, <1>4
<1> QED
  BY <1>5 DEF t
-----------------------------------------------------------------------------
(* Types, and where the threads are.                                       *)

TInv == TypeInv /\ Seated

LEMMA ThreadFacts == Handler \in Thread /\ Engine \in Thread /\ Handler # Engine
BY ProviderAssumption DEF Thread

LEMMA JobFacts ==
    ASSUME NEW j \in Job
    PROVE  j # Free => /\ j.kind \in Kind /\ j.at \in {"get", "tell", "end"} /\ j.ok \in BOOLEAN
                       /\ j \in [kind : Kind, at : {"get", "tell", "end"}, ok : BOOLEAN]
BY DEF Job

LEMMA FreeFacts == Free \in Job /\ Free.kind = "none" /\ Free.at = "idle"
BY DEF Job, Free

LEMMA NewMessages ==
    ASSUME NEW what \in What, NEW arg \in BOOLEAN \cup Request
    PROVE  Counted(what, arg) \in Message /\ Uncounted(what, arg) \in Message
BY DEF Counted, Uncounted, Message

LEMMA AskFacts == \A k \in Kind : Ask(k) \in What /\ Finished(k) \in What
BY DEF Kind, Ask, Finished, What

LEMMA KindFacts ==
    ASSUME NEW j \in Kind, NEW k \in Kind
    PROVE  /\ Ask(j) # Finished(k)
           /\ j # k => Ask(j) # Ask(k) /\ Finished(j) # Finished(k)
BY DEF Kind, Ask, Finished

LEMMA NoMessageType == NoMessage \in Message
<1>1. "none" \in What /\ FALSE \in BOOLEAN \cup Request
  BY DEF What
<1> QED
  BY <1>1, NewMessages DEF NoMessage

LEMMA PlainMessages ==
    ASSUME NEW what \in What
    PROVE  Counted(what, FALSE) \in Message /\ Uncounted(what, FALSE) \in Message
<1>1. FALSE \in BOOLEAN \cup Request
  OBVIOUS
<1> QED
  BY <1>1, NewMessages

\* What each way of sending and handling messages leaves.
QueueType == queue \in Seq(Message) /\ mWakeLock \in Int

LEMMA SeqFacts ==
    /\ << >> \in Seq(Message) /\ Len(<< >>) = 0
    /\ \A m \in Message : <<m>> \in Seq(Message) /\ Len(<<m>>) = 1
    /\ \A p, q \in Seq(Message) :
         p \o q \in Seq(Message) /\ Len(p \o q) = Len(p) + Len(q) /\ Len(p) \in Nat
    /\ \A q \in Seq(Message), m \in Message : Append(q, m) = q \o <<m>>
OBVIOUS

LEMMA SendTypes ==
    ASSUME QueueType, NEW messages \in Seq(Message), SendAll(messages)
    PROVE  QueueType'
BY SeqFacts DEF QueueType, SendAll

LEMMA SendOneTypes ==
    ASSUME QueueType, NEW what \in What, NEW arg \in BOOLEAN \cup Request, sendMessage(what, arg)
    PROVE  QueueType'
<1>1. <<Counted(what, arg)>> \in Seq(Message)
  BY NewMessages, SeqFacts
<1> QED
  BY <1>1, SendTypes DEF sendMessage

LEMMA BroadcastTypes ==
    ASSUME QueueType, NEW what \in What, NEW arg \in BOOLEAN \cup Request, Broadcast(what, arg)
    PROVE  QueueType'
<1>1. Uncounted(what, arg) \in Message
  BY NewMessages
<1> QED
  BY <1>1, SeqFacts DEF QueueType, Broadcast

LEMMA HandledTypes ==
    ASSUME QueueType, queue # << >>, NEW messages \in Seq(Message), NEW acquired \in Int,
           Handled(messages, acquired)
    PROVE  QueueType'
<1>1. Head(queue) \in Message /\ Tail(queue) \in Seq(Message)
  BY HeadTailFacts DEF QueueType
<1>2. Release(Head(queue)) \in Int
  BY DEF Release
<1>3. Len(messages) \in Int
  BY SeqFacts
<1> QED
  BY <1>1, <1>2, <1>3, SeqFacts DEF QueueType, Handled

LEMMA DownloadTypes ==
    ASSUME TypeInv, pc[Handler] = "idle", HandleDownload, UNCHANGED <<cur, pc, then>>
    PROVE  TypeInv'
<1>t. QueueType
  BY DEF TypeInv, QueueType
<1>h. queue # << >>
  BY DEF HandleDownload, onConnectivityChange, handleUpdateNetworkState, handleDownload,
         handleFinished, Is
<1>e. << >> \in Seq(Message) /\ 0 \in Int /\ 1 \in Int
  BY SeqFacts
<1>m. Head(queue) \in Message
  BY <1>t, <1>h, HeadTailFacts DEF QueueType
<1>1. CASE onConnectivityChange
  <2>1. "UPDATE_NETWORK_STATE" \in What
    BY DEF What
  <2>2. Head(queue).arg \in BOOLEAN \cup Request
    BY <1>m DEF Message
  <2>3. <<Counted("UPDATE_NETWORK_STATE", Head(queue).arg)>> \in Seq(Message)
    BY <2>1, <2>2, NewMessages, SeqFacts
  <2>4. QueueType'
    BY <1>1, <1>t, <1>h, <1>e, <2>3, HandledTypes DEF onConnectivityChange
  <2> QED
    BY <1>1, <2>4 DEF onConnectivityChange, QueueType, TypeInv
<1>2. CASE handleUpdateNetworkState
  <2>1. Counted(Ask("ntp"), FALSE) \in Message /\ Counted(Ask("xtra"), FALSE) \in Message
    BY AskFacts, PlainMessages DEF Kind
  <2>2. PICK a \in Seq(Message), b \in Seq(Message) : Handled(a \o b, 0)
    BY <1>2, <2>1, SeqFacts DEF handleUpdateNetworkState
  <2>3. a \o b \in Seq(Message)
    BY SeqFacts
  <2>4. QueueType'
    BY <1>t, <1>h, <1>e, <2>2, <2>3, HandledTypes
  <2> QED
    BY <1>2, <2>4 DEF handleUpdateNetworkState, QueueType, TypeInv
<1>3. ASSUME NEW k \in Kind, handleDownload(k) PROVE TypeInv'
  <2>1. ASSUME NEW n \in {0, 1}, Handled(<< >>, n) PROVE QueueType'
    BY <1>t, <1>h, <1>e, <2>1, HandledTypes
  <2> USE DEF QueueType, TypeInv
  <2>2. CASE Ignored(k)
    BY <1>3, <2>1, <2>2 DEF handleDownload, Ignored
  <2>3. CASE Waits(k)
    BY <1>3, <2>1, <2>3 DEF handleDownload, Waits, STATE_PENDING_NETWORK
  <2>4. CASE Starts(k)
    <3>1. QueueType'
      BY <2>1, <2>4 DEF Starts
    <3>2. job' \in [Worker -> Job]
      BY <2>4 DEF Starts, Job
    <3> QED
      BY <1>3, <2>4, <3>1, <3>2 DEF handleDownload, Starts, STATE_DOWNLOADING
  <2> QED
    BY <1>3, <2>2, <2>3, <2>4 DEF handleDownload
<1>4. ASSUME NEW k \in Kind, handleFinished(k) PROVE TypeInv'
  <2>1. QueueType'
    BY <1>t, <1>h, <1>e, <1>4, HandledTypes DEF handleFinished
  <2> QED
    BY <1>4, <2>1 DEF handleFinished, STATE_IDLE, QueueType, TypeInv
<1> QED
  BY <1>1, <1>2, <1>3, <1>4 DEF HandleDownload

\* What a step of worker w changes of the jobs.
LEMMA GetJob ==
    ASSUME TypeInv, NEW w \in Worker, NEW ok \in BOOLEAN, Get(w, ok)
    PROVE  /\ job[w].kind \in Kind /\ job[w].at = "get" /\ job[w] # Free
           /\ job'[w].at = "tell" /\ job'[w].kind = job[w].kind /\ job'[w].ok = ok
           /\ job'[w] # Free
           /\ \A v \in Worker \ {w} : job'[v] = job[v]
           /\ need' = [need EXCEPT ![job[w].kind] = ~ok]
<1>1. job[w].at = "get" /\ job[w] # Free
  BY FreeFacts DEF Get
<1>2. job[w] \in [kind : Kind, at : {"get", "tell", "end"}, ok : BOOLEAN]
  BY <1>1, JobFacts DEF TypeInv
<1>3. job'[w].at = "tell" /\ job'[w].kind = job[w].kind /\ job'[w].ok = ok
  BY <1>2 DEF Get, TypeInv
<1>4. \A v \in Worker \ {w} : job'[v] = job[v]
  BY DEF Get, TypeInv
<1> QED
  BY <1>1, <1>2, <1>3, <1>4, FreeFacts DEF Get

LEMMA TellJob ==
    ASSUME TypeInv, NEW w \in Worker, Tell(w)
    PROVE  /\ job[w].kind \in Kind /\ job[w].at = "tell" /\ job[w] # Free
           /\ job'[w].at = "end" /\ job'[w].kind = job[w].kind /\ job'[w].ok = job[w].ok
           /\ job'[w] # Free
           /\ \A v \in Worker \ {w} : job'[v] = job[v]
           /\ \E m \in Message :
                m.what = Finished(job[w].kind) /\ queue' = queue \o <<m>> /\ m = Counted(m.what, FALSE)
<1>1. job[w].at = "tell" /\ job[w] # Free
  BY FreeFacts DEF Tell
<1>2. job[w] \in [kind : Kind, at : {"get", "tell", "end"}, ok : BOOLEAN]
  BY <1>1, JobFacts DEF TypeInv
<1>3. /\ job'[w].at = "end" /\ job'[w].kind = job[w].kind /\ job'[w].ok = job[w].ok
      /\ \A v \in Worker \ {w} : job'[v] = job[v]
  BY <1>2 DEF Tell, TypeInv
<1>4. /\ Counted(Finished(job[w].kind), FALSE) \in Message
      /\ Counted(Finished(job[w].kind), FALSE).what = Finished(job[w].kind)
  BY <1>2, AskFacts, PlainMessages DEF Counted
<1>5. queue' = queue \o <<Counted(Finished(job[w].kind), FALSE)>>
  BY DEF Tell, sendMessage, SendAll
<1> QED
  BY <1>1, <1>2, <1>3, <1>4, <1>5, FreeFacts

LEMMA EndJob ==
    ASSUME TypeInv, NEW w \in Worker, End(w)
    PROVE  /\ job[w].kind \in Kind /\ job[w].at = "end" /\ job[w] # Free /\ job[w].ok \in BOOLEAN
           /\ job'[w] = Free
           /\ \A v \in Worker \ {w} : job'[v] = job[v]
<1>1. job[w].at = "end" /\ job[w] # Free
  BY FreeFacts DEF End
<1> QED
  BY <1>1, JobFacts DEF TypeInv, End

LEMMA StartJob ==
    ASSUME TypeInv, NEW k \in Kind, Starts(k)
    PROVE  \E w \in Worker :
             /\ job[w] = Free
             /\ job'[w].kind = k /\ job'[w].at = "get" /\ job'[w] # Free
             /\ \A v \in Worker \ {w} : job'[v] = job[v]
<1>1. PICK w \in Worker :
        job[w] = Free /\ job' = [job EXCEPT ![w] = [kind |-> k, at |-> "get", ok |-> FALSE]]
  BY DEF Starts
<1>2. job'[w] = [kind |-> k, at |-> "get", ok |-> FALSE] /\ \A v \in Worker \ {w} : job'[v] = job[v]
  BY <1>1 DEF TypeInv
<1> QED
  BY <1>1, <1>2, FreeFacts

LEMMA WorkTypes ==
    ASSUME TypeInv, Work \/ \E k \in Kind : Due(k), UNCHANGED <<cur, pc, then>>
    PROVE  TypeInv'
<1> USE DEF TypeInv, QueueType
<1>1. ASSUME NEW w \in Worker, NEW ok \in BOOLEAN, Get(w, ok) PROVE TypeInv'
  <2>1. job[w] # Free
    BY <1>1, FreeFacts DEF Get
  <2>2. job' \in [Worker -> Job]
    BY <1>1, <2>1 DEF Get, Job
  <2> QED
    BY <1>1, <2>2 DEF Get
<1>2. ASSUME NEW w \in Worker, Tell(w) PROVE TypeInv'
  <2>1. job[w] # Free
    BY <1>2, FreeFacts DEF Tell
  <2>2. job' \in [Worker -> Job] /\ job[w].kind \in Kind
    BY <1>2, <2>1, JobFacts DEF Tell, Job
  <2>3. QueueType'
    BY <1>2, <2>2, AskFacts, SendOneTypes DEF Tell
  <2> QED
    BY <1>2, <2>2, <2>3 DEF Tell
<1>3. ASSUME NEW w \in Worker, End(w) PROVE TypeInv'
  BY <1>3 DEF End, Job, Free
<1>4. ASSUME NEW k \in Kind, Due(k) PROVE TypeInv'
  <2>1. QueueType'
    BY <1>4, AskFacts, BroadcastTypes DEF Due
  <2> QED
    BY <1>4, <2>1 DEF Due
<1> QED
  BY <1>1, <1>2, <1>3, <1>4 DEF Work

LEMMA BegunTypes ==
    ASSUME TypeInv, queue # << >>, NEW l \in HandlerPlace, Begun(l)
    PROVE  /\ QueueType' /\ cur' \in Message
           /\ pc' \in [Thread -> HandlerPlace \cup EnginePlace]
           /\ pc'[Handler] = l /\ pc'[Engine] = pc[Engine]
BY HeadTailFacts, ThreadFacts DEF TypeInv, QueueType, Begun, Goto

LEMMA DoneTypes ==
    ASSUME TypeInv, Done
    PROVE  /\ QueueType' /\ cur' = NoMessage /\ cur' \in Message
           /\ pc' \in [Thread -> HandlerPlace \cup EnginePlace]
           /\ pc'[Handler] = "idle" /\ pc'[Engine] = pc[Engine]
BY NoMessageType, ThreadFacts DEF TypeInv, QueueType, Done, Goto, Release, HandlerPlace

LEMMA GotoTypes ==
    ASSUME TypeInv, NEW t \in Thread, NEW l \in HandlerPlace \cup EnginePlace, Goto(t, l)
    PROVE  /\ pc' \in [Thread -> HandlerPlace \cup EnginePlace]
           /\ pc'[t] = l /\ \A u \in Thread \ {t} : pc'[u] = pc[u]
BY DEF TypeInv, Goto

LEMMA HandledAlone ==
    ASSUME TypeInv, queue # << >>, Handled(<< >>, 0)
    PROVE  QueueType'
<1>1. << >> \in Seq(Message) /\ 0 \in Int /\ QueueType
  BY SeqFacts DEF TypeInv, QueueType
<1> QED
  BY <1>1, HandledTypes

\* The rest of the state that has a type.
RestTypes ==
    /\ delayed \in [Kind -> Nat]
    /\ pending \in [Kind -> 0 .. 2]
    /\ mPeriodicTimeInjection \in BOOLEAN
    /\ job \in [Worker -> Job]
    /\ need \in [Kind -> BOOLEAN]

LEMMA TypesTogether ==
    ASSUME QueueType', RestTypes', mSupportsXtra' \in BOOLEAN, cur' \in Message,
           pc' \in [Thread -> HandlerPlace \cup EnginePlace],
           then' \in [Thread -> HandlerPlace \cup EnginePlace]
    PROVE  TypeInv'
BY DEF TypeInv, QueueType, RestTypes

LEMMA RestStays == TypeInv /\ UNCHANGED restOfDownload => RestTypes'
BY DEF TypeInv, RestTypes, restOfDownload

LEMMA PlaceFacts ==
    /\ \A l \in {"idle", "start", "mode", "engine", "started", "stop", "stopping", "cancel",
                 "hibernate"} : l \in HandlerPlace
    /\ \A l \in {"idle", "reported", "stop", "stopping", "fixed", "available", "hibernate"} :
         l \in EnginePlace
BY DEF HandlerPlace, EnginePlace

LEMMA UpdateTypes ==
    ASSUME TInv, queue # << >>, NEW r, NEW disable, updateRequirements(r, disable)
    PROVE  /\ QueueType' /\ cur' \in Message
           /\ pc' \in [Thread -> HandlerPlace \cup EnginePlace]
           /\ then' \in [Thread -> HandlerPlace \cup EnginePlace]
           /\ \/ UNCHANGED threadVars
              \/ pc'[Handler] = "start" /\ pc'[Engine] = pc[Engine] /\ then' = then
              \/ /\ pc'[Handler] = "stop" /\ pc'[Engine] = pc[Engine]
                 /\ then' = [then EXCEPT ![Handler] = "cancel"]
<1> "start" \in HandlerPlace /\ "stop" \in HandlerPlace /\ "cancel" \in HandlerPlace
  BY DEF HandlerPlace
<1>1. CASE r = NoRequest
  BY <1>1, HandledAlone DEF updateRequirements, TInv, TypeInv, threadVars
<1>2. CASE r # NoRequest /\ (~r.report \/ disable)
  <2>1. Begun("stop") /\ then' = [then EXCEPT ![Handler] = "cancel"]
    BY <1>2 DEF updateRequirements
  <2>2. TypeInv
    BY DEF TInv
  <2>3. then' \in [Thread -> HandlerPlace \cup EnginePlace]
    BY <2>1, <2>2 DEF TypeInv
  <2> QED
    BY <2>1, <2>2, <2>3, BegunTypes
<1>3. CASE ~(r = NoRequest) /\ ~(r # NoRequest /\ (~r.report \/ disable))
  <2>1. \/ Handled(<< >>, 0) /\ UNCHANGED threadVars
        \/ Begun("start") /\ UNCHANGED then
    BY <1>3 DEF updateRequirements
  <2>2. TypeInv
    BY DEF TInv
  <2>3. CASE Handled(<< >>, 0) /\ UNCHANGED threadVars
    BY <2>2, <2>3, HandledAlone DEF TypeInv, threadVars
  <2>4. CASE Begun("start") /\ UNCHANGED then
    <3>1. then' \in [Thread -> HandlerPlace \cup EnginePlace]
      BY <2>2, <2>4 DEF TypeInv
    <3> QED
      BY <2>2, <2>4, <3>1, BegunTypes
  <2> QED
    BY <2>1, <2>3, <2>4
<1> QED
  BY <1>1, <1>2, <1>3

\* What the handler does with the head of the queue, downloads aside.
LEMMA MessageTInv ==
    ASSUME TInv,
           \/ handleDisable \/ handleSetRequest \/ updateLowPowerMode
           \/ onAlarmWakeup \/ onAlarmTimeout \/ \E ok \in BOOLEAN : handleEnable(ok)
    PROVE  TInv'
<1>0. queue # << >> /\ TypeInv /\ RestTypes'
  BY RestStays DEF TInv, handleDisable, handleSetRequest, updateLowPowerMode, onAlarmWakeup,
        onAlarmTimeout, handleEnable, HandlerIs, Is
<1>p. "start" \in HandlerPlace /\ "stop" \in HandlerPlace /\ "cancel" \in HandlerPlace
      /\ "hibernate" \in HandlerPlace
  BY DEF HandlerPlace
<1>1. CASE handleDisable
  <2>1. Begun("stop") /\ then' = [then EXCEPT ![Handler] = "cancel"] /\ UNCHANGED mSupportsXtra
    BY <1>1 DEF handleDisable
  <2>2. TypeInv'
    <3>1. then' \in [Thread -> HandlerPlace \cup EnginePlace]
      BY <1>0, <1>p, <2>1 DEF TypeInv
    <3>2. mSupportsXtra' \in BOOLEAN
      BY <1>0, <2>1 DEF TypeInv
    <3> QED
      BY <1>0, <1>p, <2>1, <3>1, <3>2, BegunTypes, TypesTogether
  <2>3. Seated'
    BY <1>0, <1>p, <2>1, BegunTypes, ThreadFacts DEF TInv, Seated, TypeInv
  <2> QED
    BY <2>2, <2>3 DEF TInv
<1>2. CASE onAlarmTimeout
  <2>1. Begun("stop") /\ then' = [then EXCEPT ![Handler] = "hibernate"] /\ UNCHANGED mSupportsXtra
    BY <1>2 DEF onAlarmTimeout
  <2>2. TypeInv'
    <3>1. then' \in [Thread -> HandlerPlace \cup EnginePlace]
      BY <1>0, <1>p, <2>1 DEF TypeInv
    <3>2. mSupportsXtra' \in BOOLEAN
      BY <1>0, <2>1 DEF TypeInv
    <3> QED
      BY <1>0, <1>p, <2>1, <3>1, <3>2, BegunTypes, TypesTogether
  <2>3. Seated'
    BY <1>0, <1>p, <2>1, BegunTypes, ThreadFacts DEF TInv, Seated, TypeInv
  <2> QED
    BY <2>2, <2>3 DEF TInv
<1>3. CASE onAlarmWakeup
  <2>1. Begun("start") /\ UNCHANGED <<then, mSupportsXtra>>
    BY <1>3 DEF onAlarmWakeup
  <2>2. TypeInv'
    <3>1. then' \in [Thread -> HandlerPlace \cup EnginePlace] /\ mSupportsXtra' \in BOOLEAN
      BY <1>0, <2>1 DEF TypeInv
    <3> QED
      BY <1>0, <1>p, <2>1, <3>1, BegunTypes, TypesTogether
  <2>3. Seated'
    BY <1>0, <1>p, <2>1, BegunTypes DEF TInv, Seated
  <2> QED
    BY <2>2, <2>3 DEF TInv
<1>4. CASE \E ok \in BOOLEAN : handleEnable(ok)
  <2>1. Handled(<< >>, 0) /\ UNCHANGED <<cur, pc, then>> /\ mSupportsXtra' \in BOOLEAN
    BY <1>4 DEF handleEnable, threadVars
  <2>2. QueueType'
    BY <1>0, <2>1, HandledAlone
  <2> QED
    BY <1>0, <2>1, <2>2 DEF TInv, TypeInv, Seated, RestTypes, QueueType, NoMessage, Uncounted
<1>5. CASE handleSetRequest \/ updateLowPowerMode
  <2>1. UNCHANGED mSupportsXtra
    BY <1>5 DEF handleSetRequest, updateLowPowerMode
  <2>2. \/ \E r, disable : updateRequirements(r, disable)
        \/ Handled(<< >>, 0) /\ UNCHANGED threadVars
    BY <1>5 DEF handleSetRequest, updateLowPowerMode
  <2>3. /\ QueueType' /\ cur' \in Message
        /\ pc' \in [Thread -> HandlerPlace \cup EnginePlace]
        /\ then' \in [Thread -> HandlerPlace \cup EnginePlace]
        /\ \/ UNCHANGED threadVars
           \/ pc'[Handler] = "start" /\ pc'[Engine] = pc[Engine] /\ then' = then
           \/ /\ pc'[Handler] = "stop" /\ pc'[Engine] = pc[Engine]
              /\ then' = [then EXCEPT ![Handler] = "cancel"]
    <3>1. CASE \E r, disable : updateRequirements(r, disable)
      BY <1>0, <3>1, UpdateTypes
    <3>2. CASE Handled(<< >>, 0) /\ UNCHANGED threadVars
      BY <1>0, <3>2, HandledAlone DEF TypeInv, threadVars
    <3> QED
      BY <2>2, <3>1, <3>2
  <2>4. mSupportsXtra' \in BOOLEAN
    BY <1>0, <2>1 DEF TypeInv
  <2>5. TypeInv'
    BY <1>0, <2>3, <2>4, TypesTogether
  <2>6. Seated'
    BY <1>0, <1>p, <2>3, ThreadFacts DEF TInv, Seated, TypeInv, threadVars, NoMessage, Uncounted
  <2> QED
    BY <2>5, <2>6 DEF TInv
<1> QED
  BY <1>1, <1>2, <1>3, <1>4, <1>5

LEMMA DownloadStill == TypeInv /\ UNCHANGED downloadVars =>
    QueueType' /\ RestTypes' /\ mSupportsXtra' \in BOOLEAN
BY DEF TypeInv, QueueType, RestTypes, downloadVars

\* The handler starts navigating, or comes to the end of a message.
LEMMA HandlerTInv ==
    ASSUME TInv,
           \/ startNavigating \/ StartFails \/ SetPositionMode \/ NativeStart \/ Started
           \/ CancelAlarms
    PROVE  TInv'
<1>0. TypeInv /\ pc[Handler] \notin {"idle", "stop", "stopping"}
  BY DEF TInv, startNavigating, StartFails, SetPositionMode, NativeStart, Started, CancelAlarms
<1>1. then' = then /\ then' \in [Thread -> HandlerPlace \cup EnginePlace]
  BY <1>0 DEF TypeInv, startNavigating, StartFails, SetPositionMode, NativeStart, Started,
              CancelAlarms
<1>2. CASE Done
  <2>1. RestTypes' /\ mSupportsXtra' \in BOOLEAN
    <3>1. UNCHANGED <<restOfDownload, mSupportsXtra>> \/ UNCHANGED downloadVars
      BY DEF startNavigating, StartFails, SetPositionMode, NativeStart, Started, CancelAlarms
    <3> QED
      BY <1>0, <3>1, RestStays, DownloadStill DEF TypeInv
  <2>2. TypeInv'
    BY <1>0, <1>1, <1>2, <2>1, DoneTypes, TypesTogether
  <2> QED
    BY <1>0, <1>1, <1>2, <2>2, DoneTypes, PlaceFacts DEF TInv, Seated
<1>3. CASE ~Done
  <2>1. /\ \E l \in {"mode", "engine", "started"} : Goto(Handler, l)
        /\ UNCHANGED <<queue, mWakeLock, cur, restOfDownload, mSupportsXtra>>
    BY <1>3 DEF startNavigating, StartFails, SetPositionMode, NativeStart, Started, CancelAlarms,
                downloadVars, restOfDownload
  <2>2. PICK l \in {"mode", "engine", "started"} : Goto(Handler, l)
    BY <2>1
  <2>3. l \in HandlerPlace
    BY PlaceFacts
  <2>4. /\ pc' \in [Thread -> HandlerPlace \cup EnginePlace]
        /\ pc'[Handler] = l /\ pc'[Engine] = pc[Engine]
    BY <1>0, <2>2, <2>3, GotoTypes, ThreadFacts
  <2>5. TypeInv'
    BY <1>0, <1>1, <2>1, <2>4, RestStays, TypesTogether DEF TypeInv, QueueType
  <2> QED
    BY <1>1, <2>1, <2>3, <2>4, <2>5 DEF TInv, Seated
<1> QED
  BY <1>2, <1>3

\* Stopping and hibernating, on either thread.
LEMMA StopTInv ==
    ASSUME TInv, NEW t \in Thread,
           StopNothing(t) \/ stopNavigating(t) \/ NativeStop(t) \/ Hibernate(t)
    PROVE  TInv'
<1>0. TypeInv
  BY DEF TInv
<1>1. then' = then /\ then' \in [Thread -> HandlerPlace \cup EnginePlace]
  BY <1>0 DEF TypeInv, StopNothing, stopNavigating, NativeStop, Hibernate
<1>2. RestTypes' /\ mSupportsXtra' \in BOOLEAN
  <2>1. UNCHANGED <<restOfDownload, mSupportsXtra>> \/ UNCHANGED downloadVars
    BY DEF StopNothing, stopNavigating, NativeStop, Hibernate
  <2> QED
    BY <1>0, <2>1, RestStays, DownloadStill DEF TypeInv
<1>3. CASE Done /\ t = Handler /\ pc[t] = "hibernate"
  <2>1. TypeInv'
    BY <1>0, <1>1, <1>2, <1>3, DoneTypes, TypesTogether
  <2> QED
    BY <1>0, <1>1, <1>3, <2>1, DoneTypes, PlaceFacts DEF TInv, Seated
<1>4. CASE ~(Done /\ t = Handler /\ pc[t] = "hibernate")
  <2>1. UNCHANGED <<queue, mWakeLock, cur>>
    BY <1>4 DEF StopNothing, stopNavigating, NativeStop, Hibernate, downloadVars
  <2>2. \/ pc[t] \in {"stop", "stopping"} /\ Goto(t, then[t])
        \/ pc[t] = "stop" /\ Goto(t, "stopping")
        \/ pc[t] = "hibernate" /\ t = Engine /\ Goto(t, "idle")
    BY <1>4 DEF StopNothing, stopNavigating, NativeStop, Hibernate, Thread
  <2>3. \E l : /\ Goto(t, l)
               /\ t = Handler => l \in HandlerPlace \ {"idle", "stop"}
               /\ t = Engine => l \in EnginePlace \ {"stop"}
               /\ l = "stopping" => pc[t] = "stop"
    <3>1. CASE pc[t] \in {"stop", "stopping"} /\ Goto(t, then[t])
      <4>1. /\ t = Handler => then[t] \in {"cancel", "hibernate"}
            /\ t = Engine => then[t] \in {"fixed", "hibernate"}
        BY <3>1 DEF TInv, Seated
      <4> QED
        BY <3>1, <4>1, ThreadFacts, PlaceFacts DEF Thread
    <3>2. CASE pc[t] = "stop" /\ Goto(t, "stopping")
      BY <3>2, PlaceFacts
    <3>3. CASE pc[t] = "hibernate" /\ t = Engine /\ Goto(t, "idle")
      BY <3>3, ThreadFacts, PlaceFacts
    <3> QED
      BY <2>2, <3>1, <3>2, <3>3
  <2>4. PICK l : /\ Goto(t, l)
                 /\ t = Handler => l \in HandlerPlace \ {"idle", "stop"}
                 /\ t = Engine => l \in EnginePlace \ {"stop"}
                 /\ l = "stopping" => pc[t] = "stop"
    BY <2>3
  <2>5. /\ pc' \in [Thread -> HandlerPlace \cup EnginePlace]
        /\ pc'[t] = l /\ \A u \in Thread \ {t} : pc'[u] = pc[u]
    <3>1. l \in HandlerPlace \cup EnginePlace
      BY <2>4 DEF Thread
    <3> QED
      BY <1>0, <2>4, <3>1, GotoTypes
  <2>6. TypeInv'
    BY <1>0, <1>1, <1>2, <2>1, <2>5, TypesTogether DEF TypeInv, QueueType
  <2> QED
    BY <1>1, <2>1, <2>4, <2>5, <2>6, ThreadFacts DEF TInv, Seated, Thread
<1> QED
  BY <1>3, <1>4

\* The engine's thread reports a location.
LEMMA ReportTInv ==
    ASSUME TInv, reportLocation \/ SingleShotDone \/ FirstFix \/ GotFix
    PROVE  TInv'
<1>0. TypeInv
  BY DEF TInv
<1>1. QueueType' /\ RestTypes' /\ mSupportsXtra' \in BOOLEAN /\ cur' = cur
  BY <1>0, DownloadStill DEF reportLocation, SingleShotDone, FirstFix, GotFix
<1>2. \/ \E l \in {"idle", "reported", "fixed", "available"} : Goto(Engine, l) /\ then' = then
      \/ /\ Goto(Engine, "stop")
         /\ \E l \in {"fixed", "hibernate"} : then' = [then EXCEPT ![Engine] = l]
  BY DEF reportLocation, SingleShotDone, FirstFix, GotFix
<1>3. CASE \E l \in {"idle", "reported", "fixed", "available"} : Goto(Engine, l) /\ then' = then
  <2>1. PICK l \in {"idle", "reported", "fixed", "available"} : Goto(Engine, l) /\ then' = then
    BY <1>3
  <2>2. l \in EnginePlace
    BY PlaceFacts
  <2>3. /\ pc' \in [Thread -> HandlerPlace \cup EnginePlace]
        /\ pc'[Engine] = l /\ pc'[Handler] = pc[Handler]
    BY <1>0, <2>1, <2>2, GotoTypes, ThreadFacts
  <2>4. TypeInv'
    BY <1>0, <1>1, <2>1, <2>3, TypesTogether DEF TypeInv
  <2> QED
    BY <1>1, <2>1, <2>2, <2>3, <2>4 DEF TInv, Seated
<1>4. CASE /\ Goto(Engine, "stop")
           /\ \E l \in {"fixed", "hibernate"} : then' = [then EXCEPT ![Engine] = l]
  <2>1. PICK l \in {"fixed", "hibernate"} : then' = [then EXCEPT ![Engine] = l]
    BY <1>4
  <2>2. l \in EnginePlace /\ "stop" \in EnginePlace
    BY PlaceFacts
  <2>3. /\ then' \in [Thread -> HandlerPlace \cup EnginePlace]
        /\ then'[Engine] = l /\ then'[Handler] = then[Handler]
    BY <1>0, <2>1, <2>2, ThreadFacts DEF TypeInv
  <2>4. /\ pc' \in [Thread -> HandlerPlace \cup EnginePlace]
        /\ pc'[Engine] = "stop" /\ pc'[Handler] = pc[Handler]
    BY <1>0, <1>4, <2>2, GotoTypes, ThreadFacts
  <2>5. TypeInv'
    BY <1>0, <1>1, <2>3, <2>4, TypesTogether DEF TypeInv
  <2> QED
    BY <1>1, <2>2, <2>3, <2>4, <2>5 DEF TInv, Seated
<1> QED
  BY <1>2, <1>3, <1>4

\* What comes from outside, and what the handler takes up that asks for no download.
Outside == {"CONNECTIVITY_CHANGE", "POWER_SAVE_MODE_CHANGED", "ENABLE", "SET_REQUEST",
            "ALARM_WAKEUP", "ALARM_TIMEOUT", "INJECT_NTP_TIME", "DOWNLOAD_XTRA_DATA"}
TakenUp == {"POWER_SAVE_MODE_CHANGED", "ENABLE", "SET_REQUEST", "ALARM_WAKEUP", "ALARM_TIMEOUT"}

LEMMA OutsideFacts == Outside \subseteq What
BY DEF Outside, What

\* Alarms, and calls from outside, leave at most one message.
LEMMA CallSends ==
    ASSUME Call \/ WakeupAlarm \/ TimeoutAlarm
    PROVE  \/ \E what \in Outside, arg \in BOOLEAN \cup Request :
                sendMessage(what, arg) \/ Broadcast(what, arg)
           \/ UNCHANGED <<queue, mWakeLock>>
<1> USE DEF Outside
<1>1. CASE WakeupAlarm \/ TimeoutAlarm
  BY <1>1 DEF WakeupAlarm, TimeoutAlarm
<1>2. CASE \E on \in BOOLEAN : SetEnabled(on)
  BY <1>2 DEF SetEnabled
<1>3. CASE \E r \in Request : setRequest(r)
  BY <1>3 DEF setRequest
<1>4. CASE \E on \in BOOLEAN : Broadcast("CONNECTIVITY_CHANGE", on)
                               \/ Broadcast("POWER_SAVE_MODE_CHANGED", on)
  BY <1>4
<1>5. CASE \/ requestUtcTime \/ xtraDownloadRequest
           \/ \E onDemandTime \in BOOLEAN : setEngineCapabilities(onDemandTime)
  BY <1>5 DEF requestUtcTime, xtraDownloadRequest, setEngineCapabilities
<1> QED
  BY <1>1, <1>2, <1>3, <1>4, <1>5 DEF Call

LEMMA CallTInv ==
    ASSUME TInv, Call \/ WakeupAlarm \/ TimeoutAlarm
    PROVE  TInv'
<1>0. TypeInv /\ QueueType
  BY DEF TInv, TypeInv, QueueType
<1>1. UNCHANGED threadVars
  BY DEF Call, WakeupAlarm, TimeoutAlarm, restOfProvider
<1>2. RestTypes' /\ mSupportsXtra' \in BOOLEAN
  <2>1. \/ UNCHANGED <<restOfDownload, mSupportsXtra>>
        \/ requestUtcTime \/ xtraDownloadRequest
        \/ \E onDemandTime \in BOOLEAN : setEngineCapabilities(onDemandTime)
    BY DEF Call, WakeupAlarm, TimeoutAlarm
  <2>2. /\ UNCHANGED <<delayed, pending, mSupportsXtra, job, need>>
        /\ mPeriodicTimeInjection' \in BOOLEAN
    BY <1>0, <2>1 DEF TypeInv, restOfDownload, requestUtcTime, xtraDownloadRequest,
                      setEngineCapabilities
  <2> QED
    BY <1>0, <2>2 DEF TypeInv, RestTypes
<1>3. \/ \E what \in What, arg \in BOOLEAN \cup Request :
           sendMessage(what, arg) \/ Broadcast(what, arg)
      \/ UNCHANGED <<queue, mWakeLock>>
  BY CallSends, OutsideFacts
<1>4. QueueType'
  <2>1. CASE UNCHANGED <<queue, mWakeLock>>
    BY <1>0, <2>1 DEF QueueType
  <2>2. CASE ~UNCHANGED <<queue, mWakeLock>>
    <3>1. PICK what \in What, arg \in BOOLEAN \cup Request :
               sendMessage(what, arg) \/ Broadcast(what, arg)
      BY <1>3, <2>2
    <3> QED
      BY <1>0, <3>1, SendOneTypes, BroadcastTypes
  <2> QED
    BY <2>1, <2>2
<1>5. TypeInv'
  BY <1>0, <1>1, <1>2, <1>4, TypesTogether DEF TypeInv, threadVars
<1> QED
  BY <1>1, <1>5 DEF TInv, Seated, threadVars, NoMessage, Uncounted

LEMMA InitTInv == Init => TInv
<1> SUFFICES ASSUME Init PROVE TInv
  OBVIOUS
<1> USE DEF Init, DownloadInit
<1>1. QueueType
  BY SeqFacts DEF QueueType
<1>2. RestTypes
  <2>1. job \in [Worker -> Job]
    BY FreeFacts
  <2>2. delayed \in [Kind -> Nat] /\ pending \in [Kind -> 0 .. 2]
    BY DEF STATE_PENDING_NETWORK
  <2>3. need \in [Kind -> BOOLEAN] /\ mPeriodicTimeInjection \in BOOLEAN
    OBVIOUS
  <2> QED
    BY <2>1, <2>2, <2>3 DEF RestTypes
<1>3. mSupportsXtra \in BOOLEAN /\ cur \in Message
  BY NoMessageType
<1>4. pc \in [Thread -> HandlerPlace \cup EnginePlace]
  BY PlaceFacts DEF Thread
<1>5. then \in [Thread -> HandlerPlace \cup EnginePlace]
  BY PlaceFacts DEF Thread
<1>6. Seated
  BY PlaceFacts, ThreadFacts DEF Seated, Thread
<1> QED
  BY <1>1, <1>2, <1>3, <1>4, <1>5, <1>6 DEF TInv, TypeInv, QueueType, RestTypes

LEMMA NextTInv == TInv /\ [Next]_vars => TInv'
<1> SUFFICES ASSUME TInv, [Next]_vars PROVE TInv'
  OBVIOUS
<1>1. CASE UNCHANGED vars
  BY <1>1 DEF TInv, TypeInv, Seated, vars, downloadVars, threadVars, NoMessage, Uncounted
<1>2. CASE Next
  <2>1. CASE Call \/ WakeupAlarm \/ TimeoutAlarm
    BY <2>1, CallTInv
  <2>2. CASE \/ startNavigating \/ StartFails \/ SetPositionMode \/ NativeStart \/ Started
             \/ CancelAlarms
    BY <2>2, HandlerTInv
  <2>3. CASE \E t \in {Handler, Engine} :
               StopNothing(t) \/ stopNavigating(t) \/ NativeStop(t) \/ Hibernate(t)
    BY <2>3, StopTInv DEF Thread
  <2>4. CASE reportLocation \/ SingleShotDone \/ FirstFix \/ GotFix
    BY <2>4, ReportTInv
  <2>5. CASE \/ handleDisable \/ handleSetRequest \/ updateLowPowerMode
             \/ onAlarmWakeup \/ onAlarmTimeout \/ \E ok \in BOOLEAN : handleEnable(ok)
    BY <2>5, MessageTInv
  <2>6. CASE /\ \/ pc[Handler] = "idle" /\ HandleDownload
                \/ Work \/ \E k \in Kind : Due(k)
             /\ UNCHANGED restOfProvider
    <3>1. UNCHANGED <<cur, pc, then>>
      BY <2>6 DEF restOfProvider, threadVars
    <3>2. TypeInv'
      BY <2>6, <3>1, DownloadTypes, WorkTypes DEF TInv
    <3> QED
      BY <3>1, <3>2 DEF TInv, Seated, NoMessage, Uncounted
  <2> QED
    BY <1>2, <2>1, <2>2, <2>3, <2>4, <2>5, <2>6 DEF Next, Handle
<1> QED
  BY <1>1, <1>2

LEMMA AlwaysTInv == Spec => []TInv
<1>1. Init => TInv
  BY InitTInv
<1>2. TInv /\ [Next]_vars => TInv'
  BY NextTInv
<1> QED
  BY <1>1, <1>2, PTL DEF Spec
-----------------------------------------------------------------------------
(* The wake lock.                                                          *)

Held == {m \in Message : m.arg2}

\* The inductive invariant, in which what is held is counted by At.
WInv ==
    /\ IsFiniteSet(Working)
    /\ mWakeLock = Cardinality(At(queue, Held)) + Release(cur) + Cardinality(Working)

\* Messages that all hold the wake lock.
AllHeld == {p \in Seq(Message) : Cardinality(At(p, Held)) = Len(p)}

LEMMA HeldMessages ==
    /\ << >> \in AllHeld
    /\ \A what \in What, arg \in BOOLEAN \cup Request : <<Counted(what, arg)>> \in AllHeld
    /\ \A p, q \in AllHeld : p \o q \in AllHeld
<1>1. << >> \in AllHeld
  BY SeqFacts, AtNone DEF AllHeld
<1>2. ASSUME NEW what \in What, NEW arg \in BOOLEAN \cup Request
      PROVE  <<Counted(what, arg)>> \in AllHeld
  <2>1. Counted(what, arg) \in Message /\ Counted(what, arg).arg2
    BY NewMessages DEF Counted
  <2>2. Counted(what, arg) \in Held
    BY <2>1 DEF Held
  <2>3. Cardinality(At(<<Counted(what, arg)>>, Held)) = 1
    BY <2>2, AtOne
  <2> QED
    BY <2>1, <2>3, SeqFacts DEF AllHeld
<1>3. ASSUME NEW p \in AllHeld, NEW q \in AllHeld PROVE p \o q \in AllHeld
  BY AtConcat, SeqFacts DEF AllHeld
<1> QED
  BY <1>1, <1>2, <1>3

LEMMA HeldOrNot ==
    ASSUME NEW m \in Message
    PROVE  Release(m) = IF m \in Held THEN 1 ELSE 0
BY DEF Held, Release

LEMMA NoMessageHolds == Release(NoMessage) = 0
BY DEF Release, NoMessage, Uncounted

\* What is counted is a number.
LEMMA WInvNumbers ==
    ASSUME TypeInv, WInv
    PROVE  /\ Cardinality(At(queue, Held)) \in Int /\ Cardinality(Working) \in Int
           /\ Release(cur) \in Int /\ mWakeLock \in Int
BY AtFinite, FS_CardinalityType DEF TypeInv, WInv, Release

LEMMA JobStays == job' = job => Working' = Working
BY DEF Working

LEMMA WSend ==
    ASSUME TypeInv, WInv, NEW messages \in AllHeld, SendAll(messages),
           cur' = cur, IsFiniteSet(Working'), Cardinality(Working') = Cardinality(Working)
    PROVE  WInv'
<1>1. messages \in Seq(Message) /\ Cardinality(At(messages, Held)) = Len(messages)
  BY DEF AllHeld
<1>2. Cardinality(At(queue \o messages, Held)) = Cardinality(At(queue, Held)) + Len(messages)
  BY <1>1, AtConcat DEF TypeInv
<1>3. queue' = queue \o messages /\ mWakeLock' = mWakeLock + Len(messages)
  BY DEF SendAll
<1>4. Cardinality(At(queue', Held)) = Cardinality(At(queue, Held)) + Len(messages)
  BY <1>2, <1>3
<1>5. Len(messages) \in Int /\ Release(cur') = Release(cur)
  BY <1>1
<1> QED
  BY <1>3, <1>4, <1>5, WInvNumbers DEF WInv

LEMMA WBroadcast ==
    ASSUME TypeInv, WInv, NEW what \in What, NEW arg \in BOOLEAN \cup Request,
           Broadcast(what, arg), UNCHANGED <<cur, job>>
    PROVE  WInv'
<1> DEFINE m == Uncounted(what, arg)
<1>1. m \in Message /\ m \notin Held
  BY NewMessages DEF Held, Uncounted
<1>2. Cardinality(At(<<m>>, Held)) = 0
  BY <1>1, AtOne
<1> HIDE DEF m
<1>3. <<m>> \in Seq(Message)
  BY <1>1, SeqFacts
<1>4. Cardinality(At(queue \o <<m>>, Held)) = Cardinality(At(queue, Held)) + 0
  BY <1>2, <1>3, AtConcat DEF TypeInv
<1>5. queue' = queue \o <<m>> /\ mWakeLock' = mWakeLock
  BY <1>1, SeqFacts DEF Broadcast, TypeInv, m
<1>6. Working' = Working
  BY JobStays
<1> QED
  BY <1>4, <1>5, <1>6, WInvNumbers DEF WInv

LEMMA WHandled ==
    ASSUME TypeInv, WInv, queue # << >>, NEW messages \in AllHeld, NEW acquired \in Int,
           Handled(messages, acquired), cur' = cur,
           IsFiniteSet(Working'), Cardinality(Working') = Cardinality(Working) + acquired
    PROVE  WInv'
<1>1. messages \in Seq(Message) /\ Cardinality(At(messages, Held)) = Len(messages)
  BY DEF AllHeld
<1>2. Head(queue) \in Message /\ Release(Head(queue)) = IF Head(queue) \in Held THEN 1 ELSE 0
  BY HeadTailFacts, HeldOrNot DEF TypeInv
<1>3. Cardinality(At(Tail(queue) \o messages, Held))
        = Cardinality(At(queue, Held)) + Len(messages) - Release(Head(queue))
  BY <1>1, <1>2, AtHandled DEF TypeInv
<1>4. /\ queue' = Tail(queue) \o messages
      /\ mWakeLock' = mWakeLock + Len(messages) + acquired - Release(Head(queue))
  BY DEF Handled
<1>5. Len(messages) \in Int /\ Release(Head(queue)) \in Int /\ Release(cur') = Release(cur)
  BY <1>1 DEF Release
<1>6. Cardinality(At(queue', Held))
        = Cardinality(At(queue, Held)) + Len(messages) - Release(Head(queue))
  BY <1>3, <1>4
<1>7. mWakeLock' = Cardinality(At(queue', Held)) + Release(cur') + Cardinality(Working')
  <2>1. /\ Cardinality(At(queue, Held)) \in Int /\ Release(cur) \in Int
        /\ Cardinality(Working) \in Int
    BY WInvNumbers
  <2>2. mWakeLock = Cardinality(At(queue, Held)) + Release(cur) + Cardinality(Working)
    BY DEF WInv
  <2>3. mWakeLock' = Cardinality(At(queue, Held)) + Release(cur) + Cardinality(Working)
                       + Len(messages) + acquired - Release(Head(queue))
    BY <1>4, <2>2
  <2> QED
    BY <1>5, <1>6, <2>1, <2>3
<1> QED
  BY <1>7 DEF WInv

LEMMA WBegun ==
    ASSUME TInv, WInv, pc[Handler] = "idle", queue # << >>, NEW l, Begun(l), job' = job
    PROVE  WInv'
<1>1. Head(queue) \in Message /\ Release(Head(queue)) = IF Head(queue) \in Held THEN 1 ELSE 0
  BY HeadTailFacts, HeldOrNot DEF TInv, TypeInv
<1>2. Cardinality(At(Tail(queue), Held)) = Cardinality(At(queue, Held)) - Release(Head(queue))
  BY <1>1, AtTail DEF TInv, TypeInv
<1>4. Release(cur) = 0
  BY NoMessageHolds DEF TInv, Seated
<1>5. queue' = Tail(queue) /\ cur' = Head(queue) /\ mWakeLock' = mWakeLock
  BY DEF Begun
<1>6. Cardinality(At(queue', Held)) = Cardinality(At(queue, Held)) - Release(Head(queue))
  BY <1>2, <1>5
<1>7. Release(cur') = Release(Head(queue)) /\ Release(Head(queue)) \in Int
  BY <1>5 DEF Release
<1>8. Working' = Working
  BY JobStays
<1>9. mWakeLock' = Cardinality(At(queue', Held)) + Release(cur') + Cardinality(Working)
  BY <1>4, <1>5, <1>6, <1>7, WInvNumbers DEF WInv, TInv
<1> QED
  BY <1>8, <1>9 DEF WInv

LEMMA WDone ==
    ASSUME TInv, WInv, Done, job' = job
    PROVE  WInv'
<1>1. mWakeLock' = mWakeLock - Release(cur) /\ cur' = NoMessage /\ queue' = queue
  BY DEF Done
<1>2. Working' = Working
  BY JobStays
<1>3. Release(cur') = 0
  BY <1>1, NoMessageHolds
<1> QED
  BY <1>1, <1>2, <1>3, WInvNumbers DEF WInv, TInv

LEMMA WStill ==
    ASSUME WInv, UNCHANGED <<queue, mWakeLock, cur, job>>
    PROVE  WInv'
BY JobStays DEF WInv

LEMMA DownloadWInv ==
    ASSUME TInv, WInv, HandleDownload, cur' = cur
    PROVE  WInv'
<1>0. TypeInv /\ queue # << >>
  BY DEF TInv, HandleDownload, onConnectivityChange, handleUpdateNetworkState, handleDownload,
         handleFinished, Is
<1>e. << >> \in AllHeld /\ 0 \in Int /\ 1 \in Int
  BY HeldMessages
<1>m. Head(queue) \in Message
  BY <1>0, HeadTailFacts DEF TypeInv
<1>j. ASSUME job' = job, NEW messages \in AllHeld, Handled(messages, 0) PROVE WInv'
  <2>1. Working' = Working
    BY <1>j, JobStays
  <2>2. Cardinality(Working') = Cardinality(Working) + 0 /\ IsFiniteSet(Working')
    BY <1>0, <2>1, WInvNumbers DEF WInv
  <2> QED
    BY <1>0, <1>e, <1>j, <2>2, WHandled
<1>1. CASE onConnectivityChange
  <2>1. "UPDATE_NETWORK_STATE" \in What /\ Head(queue).arg \in BOOLEAN \cup Request
    BY <1>m DEF What, Message
  <2> QED
    BY <1>1, <1>j, <2>1, HeldMessages DEF onConnectivityChange
<1>2. CASE handleUpdateNetworkState
  <2>1. /\ <<Counted(Ask("ntp"), FALSE)>> \in AllHeld
        /\ <<Counted(Ask("xtra"), FALSE)>> \in AllHeld
    <3>1. FALSE \in BOOLEAN \cup Request
      OBVIOUS
    <3> QED
      BY <3>1, AskFacts, HeldMessages DEF Kind
  <2>2. PICK a \in AllHeld, b \in AllHeld : Handled(a \o b, 0)
    BY <1>2, <1>e, <2>1 DEF handleUpdateNetworkState
  <2>3. a \o b \in AllHeld /\ job' = job
    BY <1>2, HeldMessages DEF handleUpdateNetworkState
  <2> QED
    BY <1>j, <2>2, <2>3
<1>3. ASSUME NEW k \in Kind, handleDownload(k) PROVE WInv'
  <2>1. CASE Ignored(k) \/ Waits(k)
    BY <1>e, <1>j, <2>1 DEF Ignored, Waits
  <2>2. CASE Starts(k)
    <3>1. PICK w \in Worker :
            job[w] = Free /\ job'[w] # Free /\ \A v \in Worker \ {w} : job'[v] = job[v]
      BY <1>0, <2>2, StartJob
    <3>3. Working' = Working \cup {w} /\ w \notin Working
      BY <3>1 DEF Working
    <3>4. IsFiniteSet(Working') /\ Cardinality(Working') = Cardinality(Working) + 1
      BY <3>3, FS_AddElement DEF WInv
    <3>5. Handled(<< >>, 1)
      BY <2>2 DEF Starts
    <3> QED
      BY <1>0, <1>e, <3>4, <3>5, WHandled
  <2> QED
    BY <1>3, <2>1, <2>2 DEF handleDownload
<1>4. ASSUME NEW k \in Kind, handleFinished(k) PROVE WInv'
  BY <1>e, <1>j, <1>4 DEF handleFinished
<1> QED
  BY <1>1, <1>2, <1>3, <1>4 DEF HandleDownload

LEMMA WorkWInv ==
    ASSUME TInv, WInv, Work \/ \E k \in Kind : Due(k), cur' = cur
    PROVE  WInv'
<1>0. TypeInv
  BY DEF TInv
<1>1. ASSUME NEW w \in Worker, NEW ok \in BOOLEAN, Get(w, ok) PROVE WInv'
  <2>1. job[w] # Free /\ job'[w] # Free /\ \A v \in Worker \ {w} : job'[v] = job[v]
    BY <1>0, <1>1, GetJob
  <2>2. Working' = Working
    BY <2>1 DEF Working
  <2> QED
    BY <1>1, <2>2 DEF Get, WInv
<1>2. ASSUME NEW w \in Worker, Tell(w) PROVE WInv'
  <2>1. /\ job[w] # Free /\ job'[w] # Free /\ \A v \in Worker \ {w} : job'[v] = job[v]
        /\ job[w].kind \in Kind
    BY <1>0, <1>2, TellJob
  <2>2. Working' = Working
    BY <2>1 DEF Working
  <2>3. IsFiniteSet(Working') /\ Cardinality(Working') = Cardinality(Working)
    BY <2>2 DEF WInv
  <2>4. <<Counted(Finished(job[w].kind), FALSE)>> \in AllHeld
    <3>1. FALSE \in BOOLEAN \cup Request
      OBVIOUS
    <3> QED
      BY <2>1, <3>1, AskFacts, HeldMessages
  <2> QED
    BY <1>0, <1>2, <2>3, <2>4, WSend DEF Tell, sendMessage
<1>3. ASSUME NEW w \in Worker, End(w) PROVE WInv'
  <2>1. job[w] # Free /\ job'[w] = Free /\ \A v \in Worker \ {w} : job'[v] = job[v]
    BY <1>0, <1>3, EndJob
  <2>2. Working' = Working \ {w} /\ w \in Working
    BY <2>1 DEF Working
  <2>3. IsFiniteSet(Working') /\ Cardinality(Working') = Cardinality(Working) - 1
    BY <2>2, FS_RemoveElement DEF WInv
  <2>4. mWakeLock' = mWakeLock - 1 /\ queue' = queue
    BY <1>3 DEF End
  <2>5. mWakeLock' = Cardinality(At(queue', Held)) + Release(cur') + Cardinality(Working')
    BY <1>0, <2>3, <2>4, WInvNumbers DEF WInv
  <2> QED
    BY <2>3, <2>5 DEF WInv
<1>4. ASSUME NEW k \in Kind, Due(k) PROVE WInv'
  <2>1. FALSE \in BOOLEAN \cup Request /\ Ask(k) \in What
    BY AskFacts
  <2> QED
    BY <1>0, <1>4, <2>1, WBroadcast DEF Due
<1> QED
  BY <1>1, <1>2, <1>3, <1>4 DEF Work

LEMMA UpdateMoves ==
    ASSUME NEW r, NEW disable, updateRequirements(r, disable)
    PROVE  \/ Handled(<< >>, 0) /\ cur' = cur
           \/ Begun("stop") \/ Begun("start")
BY DEF updateRequirements, threadVars

LEMMA MessageWInv ==
    ASSUME TInv, WInv,
           \/ handleDisable \/ handleSetRequest \/ updateLowPowerMode
           \/ onAlarmWakeup \/ onAlarmTimeout \/ \E ok \in BOOLEAN : handleEnable(ok)
    PROVE  WInv'
<1>0. TypeInv /\ queue # << >> /\ pc[Handler] = "idle" /\ job' = job
  BY DEF TInv, handleDisable, handleSetRequest, updateLowPowerMode, onAlarmWakeup,
         onAlarmTimeout, handleEnable, HandlerIs, Is, restOfDownload
<1>1. \/ Handled(<< >>, 0) /\ cur' = cur
      \/ Begun("stop") \/ Begun("start")
  BY UpdateMoves DEF handleDisable, handleSetRequest, updateLowPowerMode, onAlarmWakeup,
                     onAlarmTimeout, handleEnable, threadVars
<1>2. CASE Handled(<< >>, 0) /\ cur' = cur
  <2>1. << >> \in AllHeld /\ 0 \in Int
    BY HeldMessages
  <2>2. Cardinality(Working') = Cardinality(Working) + 0 /\ IsFiniteSet(Working')
    BY <1>0, JobStays, WInvNumbers DEF WInv
  <2> QED
    BY <1>0, <1>2, <2>1, <2>2, WHandled
<1> QED
  BY <1>0, <1>1, <1>2, WBegun

LEMMA CallWInv ==
    ASSUME TInv, WInv, Call \/ WakeupAlarm \/ TimeoutAlarm
    PROVE  WInv'
<1>0. TypeInv
  BY DEF TInv
<1>1. UNCHANGED <<cur, job>>
  BY DEF Call, WakeupAlarm, TimeoutAlarm, restOfProvider, threadVars, restOfDownload,
         requestUtcTime, xtraDownloadRequest, setEngineCapabilities
<1>2. CASE UNCHANGED <<queue, mWakeLock>>
  BY <1>1, <1>2, WStill
<1>3. ASSUME NEW what \in What, NEW arg \in BOOLEAN \cup Request, sendMessage(what, arg)
      PROVE  WInv'
  <2>1. IsFiniteSet(Working') /\ Cardinality(Working') = Cardinality(Working)
    BY <1>1, JobStays DEF WInv
  <2>2. <<Counted(what, arg)>> \in AllHeld
    BY HeldMessages
  <2> QED
    BY <1>0, <1>1, <1>3, <2>1, <2>2, WSend DEF sendMessage
<1>4. ASSUME NEW what \in What, NEW arg \in BOOLEAN \cup Request, Broadcast(what, arg)
      PROVE  WInv'
  BY <1>0, <1>1, <1>4, WBroadcast
<1>5. \/ \E what \in What, arg \in BOOLEAN \cup Request :
           sendMessage(what, arg) \/ Broadcast(what, arg)
      \/ UNCHANGED <<queue, mWakeLock>>
  BY CallSends, OutsideFacts
<1> QED
  BY <1>2, <1>3, <1>4, <1>5

LEMMA NextWInv == TInv /\ WInv /\ [Next]_vars => WInv'
<1> SUFFICES ASSUME TInv, WInv, [Next]_vars PROVE WInv'
  OBVIOUS
<1>1. CASE UNCHANGED <<queue, mWakeLock, cur, job>>
  BY <1>1, WStill
<1>2. CASE Done /\ job' = job
  BY <1>2, WDone
<1>3. CASE UNCHANGED vars
  BY <1>1, <1>3 DEF vars, downloadVars, threadVars
<1>4. CASE Next
  <2>1. CASE Call \/ WakeupAlarm \/ TimeoutAlarm
    BY <2>1, CallWInv
  <2>2. CASE \/ startNavigating \/ StartFails \/ SetPositionMode \/ NativeStart \/ Started
             \/ CancelAlarms
    BY <1>1, <1>2, <2>2 DEF startNavigating, StartFails, SetPositionMode, NativeStart, Started,
                            CancelAlarms, downloadVars, restOfDownload
  <2>3. CASE \E t \in {Handler, Engine} :
               StopNothing(t) \/ stopNavigating(t) \/ NativeStop(t) \/ Hibernate(t)
    BY <1>1, <1>2, <2>3 DEF StopNothing, stopNavigating, NativeStop, Hibernate, downloadVars,
                            restOfDownload
  <2>4. CASE reportLocation \/ SingleShotDone \/ FirstFix \/ GotFix
    BY <1>1, <2>4 DEF reportLocation, SingleShotDone, FirstFix, GotFix, downloadVars
  <2>5. CASE \/ handleDisable \/ handleSetRequest \/ updateLowPowerMode
             \/ onAlarmWakeup \/ onAlarmTimeout \/ \E ok \in BOOLEAN : handleEnable(ok)
    BY <2>5, MessageWInv
  <2>6. CASE /\ \/ pc[Handler] = "idle" /\ HandleDownload
                \/ Work \/ \E k \in Kind : Due(k)
             /\ UNCHANGED restOfProvider
    BY <2>6, DownloadWInv, WorkWInv DEF restOfProvider, threadVars
  <2> QED
    BY <1>4, <2>1, <2>2, <2>3, <2>4, <2>5, <2>6 DEF Next, Handle
<1> QED
  BY <1>3, <1>4

LEMMA InitWInv == Init => WInv
<1> SUFFICES ASSUME Init PROVE WInv
  OBVIOUS
<1>1. Working = {} /\ queue = << >> /\ cur = NoMessage /\ mWakeLock = 0
  BY DEF Init, DownloadInit, Working
<1>2. Cardinality(At(queue, Held)) = 0
  BY <1>1, AtNone
<1> QED
  BY <1>1, <1>2, FS_EmptySet, NoMessageHolds DEF WInv

\* What CountOf counts.
LEMMA CountOfAt ==
    ASSUME NEW q \in Seq(Message)
    PROVE  CountOf(q) = Cardinality(At(q, Held))
<1>1. \A i \in DOMAIN q : q[i] \in Message
  OBVIOUS
<1>2. \A i \in DOMAIN q : q[i].arg2 <=> q[i] \in Held
  BY <1>1 DEF Held
<1>3. {i \in DOMAIN q : q[i].arg2} = At(q, Held)
  BY <1>2 DEF At
<1> QED
  BY <1>3 DEF CountOf

(* GpsLocationProvider.java counts its wake lock exactly: whatever the order in    *)
(* which messages are sent and handled and workers end, the count is that of the   *)
(* messages that hold it, the one at hand included, and of the workers, so that    *)
(* release() never throws and nothing holds the lock for ever.                     *)
THEOREM WakeLockAlwaysExact == Spec => []WakeLockExact
<1>1. TInv /\ WInv => WakeLockExact
  <2> SUFFICES ASSUME TInv, WInv PROVE WakeLockExact
    OBVIOUS
  <2>1. CountOf(queue) = Cardinality(At(queue, Held))
    BY CountOfAt DEF TInv, TypeInv
  <2>2. CountOf(<<cur>>) = Release(cur)
    <3>1. cur \in Message /\ <<cur>> \in Seq(Message)
      BY SeqFacts DEF TInv, TypeInv
    <3> QED
      BY <3>1, CountOfAt, AtOne, HeldOrNot
  <2> QED
    BY <2>1, <2>2 DEF WInv, WakeLockExact
<1>2. Spec => []WInv
  BY InitWInv, NextWInv, AlwaysTInv, PTL DEF Spec
<1> QED
  BY <1>1, <1>2, AlwaysTInv, PTL
-----------------------------------------------------------------------------
(* Steps that are not about downloads, and what they do to the queue.      *)

ProviderStep ==
    \/ Call \/ WakeupAlarm \/ TimeoutAlarm
    \/ startNavigating \/ StartFails \/ SetPositionMode \/ NativeStart \/ Started \/ CancelAlarms
    \/ \E t \in Thread : StopNothing(t) \/ stopNavigating(t) \/ NativeStop(t) \/ Hibernate(t)
    \/ reportLocation \/ SingleShotDone \/ FirstFix \/ GotFix
    \/ handleDisable \/ handleSetRequest \/ updateLowPowerMode \/ onAlarmWakeup \/ onAlarmTimeout
    \/ \E ok \in BOOLEAN : handleEnable(ok)

LEMMA NextSteps ==
    ASSUME Next
    PROVE  \/ ProviderStep
           \/ /\ \/ pc[Handler] = "idle" /\ HandleDownload
                 \/ Work \/ \E k \in Kind : Due(k)
              /\ UNCHANGED restOfProvider
BY DEF Next, Handle, ProviderStep, Thread

LEMMA AppendFacts ==
    \A q \in Seq(Message), m \in Message :
        /\ Append(q, m) = q \o <<m>> /\ <<m>> \in Seq(Message)
        /\ Append(q, m) \in Seq(Message)
BY SeqFacts

LEMMA HandledNone ==
    ASSUME TypeInv, queue # << >>, NEW acquired, Handled(<< >>, acquired)
    PROVE  queue' = Tail(queue)
<1>1. Tail(queue) \in Seq(Message)
  BY HeadTailFacts DEF TypeInv
<1>2. Tail(queue) \o << >> = Tail(queue)
  BY <1>1
<1> QED
  BY <1>2 DEF Handled

LEMMA ProviderQueue ==
    ASSUME TInv, ProviderStep
    PROVE  \/ queue' = queue
           \/ \E m \in Message : m.what \in Outside /\ queue' = Append(queue, m)
           \/ /\ queue # << >> /\ Head(queue).what \in TakenUp /\ queue' = Tail(queue)
              /\ Head(queue).what = "ALARM_WAKEUP" => onAlarmWakeup
<1>0. TypeInv
  BY DEF TInv
<1>1. CASE Call \/ WakeupAlarm \/ TimeoutAlarm
  <2>1. CASE UNCHANGED <<queue, mWakeLock>>
    BY <2>1
  <2>2. ASSUME NEW what \in Outside, NEW arg \in BOOLEAN \cup Request,
               sendMessage(what, arg) \/ Broadcast(what, arg)
        PROVE  \E m \in Message : m.what \in Outside /\ queue' = Append(queue, m)
    <3>1. /\ Counted(what, arg) \in Message /\ Counted(what, arg).what = what
          /\ Uncounted(what, arg) \in Message /\ Uncounted(what, arg).what = what
      BY NewMessages, OutsideFacts DEF Counted, Uncounted
    <3>2. \/ queue' = Append(queue, Counted(what, arg))
          \/ queue' = Append(queue, Uncounted(what, arg))
      BY <1>0, <2>2, <3>1, AppendFacts DEF sendMessage, SendAll, Broadcast, TypeInv
    <3> QED
      BY <3>1, <3>2
  <2> QED
    BY <1>1, <2>1, <2>2, CallSends
<1>2. CASE \/ startNavigating \/ StartFails \/ SetPositionMode \/ NativeStart \/ Started
           \/ CancelAlarms
  BY <1>2 DEF startNavigating, StartFails, SetPositionMode, NativeStart, Started, CancelAlarms,
              Done, downloadVars
<1>3. CASE \E t \in Thread : StopNothing(t) \/ stopNavigating(t) \/ NativeStop(t) \/ Hibernate(t)
  BY <1>3 DEF StopNothing, stopNavigating, NativeStop, Hibernate, Done, downloadVars
<1>4. CASE reportLocation \/ SingleShotDone \/ FirstFix \/ GotFix
  BY <1>4 DEF reportLocation, SingleShotDone, FirstFix, GotFix, downloadVars
<1>5. CASE \/ handleDisable \/ handleSetRequest \/ updateLowPowerMode
           \/ onAlarmWakeup \/ onAlarmTimeout \/ \E ok \in BOOLEAN : handleEnable(ok)
  <2>1. /\ queue # << >> /\ Head(queue).what \in TakenUp
        /\ Head(queue).what = "ALARM_WAKEUP" => onAlarmWakeup
    BY <1>5 DEF handleDisable, handleSetRequest, updateLowPowerMode, onAlarmWakeup,
                onAlarmTimeout, handleEnable, HandlerIs, Is, TakenUp
  <2>2. Handled(<< >>, 0) \/ Begun("stop") \/ Begun("start")
    BY <1>5, UpdateMoves DEF handleDisable, handleSetRequest, updateLowPowerMode, onAlarmWakeup,
                             onAlarmTimeout, handleEnable
  <2> QED
    BY <1>0, <2>1, <2>2, HandledNone DEF Begun
<1> QED
  BY <1>1, <1>2, <1>3, <1>4, <1>5 DEF ProviderStep

\* What they leave alone, or only add to.
LEMMA ProviderRest ==
    ASSUME TInv, ProviderStep
    PROVE  /\ UNCHANGED <<delayed, mNetworkAvailable, pending, job, need>>
           /\ mSupportsXtra => mSupportsXtra'
           /\ \/ mPeriodicTimeInjection' = mPeriodicTimeInjection
              \/ \E m \in Message : m.what = Ask("ntp") /\ queue' = Append(queue, m)
<1>0. TypeInv
  BY DEF TInv
<1>1. CASE \E onDemandTime \in BOOLEAN : setEngineCapabilities(onDemandTime)
  <2>1. PICK onDemandTime \in BOOLEAN : setEngineCapabilities(onDemandTime)
    BY <1>1
  <2>2. /\ UNCHANGED <<delayed, mNetworkAvailable, pending, job, need, mSupportsXtra>>
        /\ \/ mPeriodicTimeInjection' = mPeriodicTimeInjection
           \/ sendMessage("INJECT_NTP_TIME", FALSE)
    BY <2>1 DEF setEngineCapabilities
  <2>3. CASE sendMessage("INJECT_NTP_TIME", FALSE)
    <3>1. Ask("ntp") = "INJECT_NTP_TIME" /\ "INJECT_NTP_TIME" \in What
      BY DEF Ask, What
    <3>2. /\ Counted("INJECT_NTP_TIME", FALSE) \in Message
          /\ Counted("INJECT_NTP_TIME", FALSE).what = "INJECT_NTP_TIME"
      BY <3>1, PlainMessages DEF Counted
    <3>3. queue' = Append(queue, Counted("INJECT_NTP_TIME", FALSE))
      BY <1>0, <2>3, <3>2, AppendFacts DEF sendMessage, SendAll, TypeInv
    <3> QED
      BY <2>2, <3>1, <3>2, <3>3
  <2> QED
    BY <2>2, <2>3
<1>2. CASE requestUtcTime \/ xtraDownloadRequest
  <2>1. /\ UNCHANGED <<delayed, mNetworkAvailable, pending, job, need>>
        /\ mPeriodicTimeInjection' = mPeriodicTimeInjection /\ mSupportsXtra' = mSupportsXtra
    BY <1>2 DEF requestUtcTime, xtraDownloadRequest
  <2> QED
    BY <2>1
<1>3. CASE UNCHANGED restOfDownload /\ (mSupportsXtra => mSupportsXtra')
  BY <1>3 DEF restOfDownload
<1>4. CASE Call
  BY <1>1, <1>2, <1>3, <1>4 DEF Call
<1>5. CASE UNCHANGED downloadVars
  BY <1>5 DEF downloadVars
<1>6. CASE \/ WakeupAlarm \/ TimeoutAlarm
           \/ startNavigating \/ StartFails \/ SetPositionMode \/ NativeStart \/ Started
           \/ CancelAlarms
  BY <1>3, <1>5, <1>6 DEF WakeupAlarm, TimeoutAlarm, startNavigating, StartFails,
        SetPositionMode, NativeStart, Started, CancelAlarms
<1>7. CASE \/ \E t \in Thread :
                StopNothing(t) \/ stopNavigating(t) \/ NativeStop(t) \/ Hibernate(t)
           \/ reportLocation \/ SingleShotDone \/ FirstFix \/ GotFix
  BY <1>3, <1>5, <1>7 DEF StopNothing, stopNavigating, NativeStop,
        Hibernate, reportLocation, SingleShotDone, FirstFix, GotFix
<1>8. CASE \/ handleDisable \/ handleSetRequest \/ updateLowPowerMode
           \/ onAlarmWakeup \/ onAlarmTimeout \/ \E ok \in BOOLEAN : handleEnable(ok)
  BY <1>3, <1>8 DEF handleDisable, handleSetRequest,
        updateLowPowerMode, onAlarmWakeup, onAlarmTimeout, handleEnable
<1> QED
  BY <1>4, <1>6, <1>7, <1>8 DEF ProviderStep
-----------------------------------------------------------------------------
(* Downloads that run.                                                     *)

Told(k) == {m \in Message : m.what = Finished(k)}
OnIt(k) == {w \in Worker : job[w].kind = k /\ job[w].at \in {"get", "tell"}}

\* The inductive invariant, in which the ends that have been told are counted by At.
OneRun(k) ==
    /\ IsFiniteSet(OnIt(k))
    /\ Cardinality(OnIt(k)) + Cardinality(At(queue, Told(k)))
         = IF pending[k] = STATE_DOWNLOADING THEN 1 ELSE 0

BInv == \A k \in Kind : OneRun(k)

\* A kind of download is not concerned.
LEMMA RunStays ==
    ASSUME NEW k \in Kind, OneRun(k), OnIt(k)' = OnIt(k), pending'[k] = pending[k],
           Cardinality(At(queue', Told(k))) = Cardinality(At(queue, Told(k)))
    PROVE  OneRun(k)'
BY DEF OneRun, Told

LEMMA OnItStays == job' = job => \A k : OnIt(k)' = OnIt(k)
BY DEF OnIt

LEMMA ToldNumbers ==
    ASSUME TypeInv, BInv, NEW k \in Kind
    PROVE  /\ Cardinality(At(queue, Told(k))) \in Nat /\ Cardinality(OnIt(k)) \in Nat
           /\ IsFiniteSet(OnIt(k))
BY AtFinite, FS_CardinalityType DEF TypeInv, BInv, OneRun

\* One more message at the end of the queue.
LEMMA ToldAppend ==
    ASSUME TypeInv, NEW k \in Kind, NEW m \in Message, queue' = Append(queue, m)
    PROVE  Cardinality(At(queue', Told(k)))
             = Cardinality(At(queue, Told(k))) + (IF m.what = Finished(k) THEN 1 ELSE 0)
<1>1. queue \in Seq(Message) /\ <<m>> \in Seq(Message) /\ queue' = queue \o <<m>>
  BY AppendFacts DEF TypeInv
<1>2. Cardinality(At(<<m>>, Told(k))) = IF m.what = Finished(k) THEN 1 ELSE 0
  BY AtOne DEF Told
<1>3. Cardinality(At(queue \o <<m>>, Told(k)))
        = Cardinality(At(queue, Told(k))) + Cardinality(At(<<m>>, Told(k)))
  BY <1>1, AtConcat
<1> QED
  BY <1>1, <1>2, <1>3

\* The head of the queue gone, and messages at its end that tell of no download's end.
Untold(k) == {p \in Seq(Message) : Cardinality(At(p, Told(k))) = 0}

LEMMA UntoldMessages ==
    ASSUME NEW k \in Kind
    PROVE  /\ << >> \in Untold(k)
           /\ \A m \in Message : m.what # Finished(k) => <<m>> \in Untold(k)
           /\ \A p, q \in Untold(k) : p \o q \in Untold(k)
<1>1. << >> \in Untold(k)
  BY SeqFacts, AtNone DEF Untold
<1>2. ASSUME NEW m \in Message, m.what # Finished(k) PROVE <<m>> \in Untold(k)
  <2>1. Cardinality(At(<<m>>, Told(k))) = 0
    BY <1>2, AtOne DEF Told
  <2> QED
    BY <2>1, SeqFacts DEF Untold
<1>3. ASSUME NEW p \in Untold(k), NEW q \in Untold(k) PROVE p \o q \in Untold(k)
  BY AtConcat, SeqFacts DEF Untold
<1> QED
  BY <1>1, <1>2, <1>3

LEMMA ToldHandled ==
    ASSUME TypeInv, queue # << >>, NEW k \in Kind, NEW p \in Untold(k),
           queue' = Tail(queue) \o p
    PROVE  Cardinality(At(queue', Told(k)))
             = Cardinality(At(queue, Told(k)))
               - (IF Head(queue).what = Finished(k) THEN 1 ELSE 0)
<1>1. p \in Seq(Message) /\ Cardinality(At(p, Told(k))) = 0
  BY DEF Untold
<1>2. Head(queue) \in Message /\ queue \in Seq(Message)
  BY HeadTailFacts DEF TypeInv
<1>3. Head(queue) \in Told(k) <=> Head(queue).what = Finished(k)
  BY <1>2 DEF Told
<1>4. Cardinality(At(Tail(queue) \o p, Told(k)))
        = Cardinality(At(queue, Told(k))) + Cardinality(At(p, Told(k)))
          - (IF Head(queue) \in Told(k) THEN 1 ELSE 0)
  BY <1>1, <1>2, AtHandled
<1>5. Cardinality(At(queue, Told(k))) \in Nat
  BY <1>2, AtFinite
<1> QED
  BY <1>1, <1>3, <1>4, <1>5

LEMMA OutsideUntold ==
    ASSUME NEW k \in Kind
    PROVE  Finished(k) \notin Outside /\ Finished(k) \notin TakenUp
BY DEF Finished, Outside, TakenUp

LEMMA ProviderBInv ==
    ASSUME TInv, BInv, ProviderStep
    PROVE  BInv'
<1> SUFFICES ASSUME NEW k \in Kind PROVE OneRun(k)'
  BY DEF BInv
<1>0. TypeInv /\ OneRun(k) /\ Cardinality(At(queue, Told(k))) \in Nat
  BY ToldNumbers DEF TInv, BInv
<1>1. OnIt(k)' = OnIt(k) /\ pending'[k] = pending[k]
  BY ProviderRest, OnItStays
<1>2. Cardinality(At(queue', Told(k))) = Cardinality(At(queue, Told(k)))
  <2>1. CASE queue' = queue
    BY <2>1
  <2>2. ASSUME NEW m \in Message, m.what \in Outside, queue' = Append(queue, m)
        PROVE  Cardinality(At(queue', Told(k))) = Cardinality(At(queue, Told(k)))
    <3>1. m.what # Finished(k)
      BY <2>2, OutsideUntold
    <3> QED
      BY <1>0, <2>2, <3>1, ToldAppend
  <2>3. CASE queue # << >> /\ Head(queue).what \in TakenUp /\ queue' = Tail(queue)
    <3>1. Head(queue).what # Finished(k)
      BY <2>3, OutsideUntold
    <3>2. << >> \in Untold(k)
      BY UntoldMessages
    <3>3. queue' = Tail(queue) \o << >>
      <4>1. Tail(queue) \in Seq(Message)
        BY <1>0, <2>3, HeadTailFacts DEF TypeInv
      <4>2. Tail(queue) \o << >> = Tail(queue)
        BY <4>1
      <4> QED
        BY <2>3, <4>2
    <3> QED
      BY <1>0, <2>3, <3>1, <3>2, <3>3, ToldHandled
  <2> QED
    BY <2>1, <2>2, <2>3, ProviderQueue
<1> QED
  BY <1>0, <1>1, <1>2, RunStays

LEMMA DownloadBInv ==
    ASSUME TInv, BInv, HandleDownload
    PROVE  BInv'
<1> SUFFICES ASSUME NEW k \in Kind PROVE OneRun(k)'
  BY DEF BInv
<1>0. TypeInv /\ OneRun(k) /\ Cardinality(At(queue, Told(k))) \in Nat /\ queue # << >>
  BY ToldNumbers DEF TInv, BInv, HandleDownload, onConnectivityChange, handleUpdateNetworkState,
                     handleDownload, handleFinished, Is
<1>e. << >> \in Untold(k)
  BY UntoldMessages
<1>f. Finished(k) \notin {"CONNECTIVITY_CHANGE", "UPDATE_NETWORK_STATE"}
  BY DEF Finished
<1>h. ASSUME NEW p \in Untold(k), NEW n, Handled(p, n), Head(queue).what # Finished(k)
      PROVE  Cardinality(At(queue', Told(k))) = Cardinality(At(queue, Told(k)))
  <2>1. queue' = Tail(queue) \o p
    BY <1>h DEF Handled
  <2> QED
    BY <1>0, <1>h, <2>1, ToldHandled
<1>1. CASE onConnectivityChange
  <2>1. "UPDATE_NETWORK_STATE" \in What /\ Head(queue).arg \in BOOLEAN \cup Request
    BY <1>0, HeadTailFacts DEF What, Message, TypeInv
  <2>2. <<Counted("UPDATE_NETWORK_STATE", Head(queue).arg)>> \in Untold(k)
    <3>1. /\ Counted("UPDATE_NETWORK_STATE", Head(queue).arg) \in Message
          /\ Counted("UPDATE_NETWORK_STATE", Head(queue).arg).what = "UPDATE_NETWORK_STATE"
      BY <2>1, NewMessages DEF Counted
    <3> QED
      BY <1>f, <3>1, UntoldMessages
  <2>3. Cardinality(At(queue', Told(k))) = Cardinality(At(queue, Told(k)))
    BY <1>1, <1>f, <1>h, <2>2 DEF onConnectivityChange, Is
  <2> QED
    BY <1>0, <1>1, <2>3, RunStays, OnItStays DEF onConnectivityChange
<1>2. CASE handleUpdateNetworkState
  <2>1. ASSUME NEW j \in Kind PROVE <<Counted(Ask(j), FALSE)>> \in Untold(k)
    <3>1. Counted(Ask(j), FALSE) \in Message /\ Counted(Ask(j), FALSE).what = Ask(j)
      BY AskFacts, PlainMessages DEF Counted
    <3> QED
      BY <3>1, KindFacts, UntoldMessages
  <2>2. PICK a \in Untold(k), b \in Untold(k) : Handled(a \o b, 0)
    BY <1>2, <1>e, <2>1 DEF handleUpdateNetworkState, Kind
  <2>3. a \o b \in Untold(k)
    BY UntoldMessages
  <2>4. Cardinality(At(queue', Told(k))) = Cardinality(At(queue, Told(k)))
    BY <1>2, <1>f, <1>h, <2>2, <2>3 DEF handleUpdateNetworkState, Is
  <2> QED
    BY <1>0, <1>2, <2>4, RunStays, OnItStays DEF handleUpdateNetworkState
<1>3. ASSUME NEW j \in Kind, handleDownload(j) PROVE OneRun(k)'
  <2>1. Cardinality(At(queue', Told(k))) = Cardinality(At(queue, Told(k)))
    <3>1. Head(queue).what # Finished(k)
      BY <1>3, KindFacts DEF handleDownload, Is
    <3>2. \E n : Handled(<< >>, n)
      BY <1>3 DEF handleDownload, Ignored, Waits, Starts
    <3> QED
      BY <1>e, <1>h, <3>1, <3>2
  <2>2. CASE Ignored(j)
    BY <1>0, <2>1, <2>2, RunStays, OnItStays DEF Ignored
  <2>3. CASE Waits(j)
    <3>1. /\ pending'[k] = STATE_DOWNLOADING <=> pending[k] = STATE_DOWNLOADING
      BY <1>0, <2>3 DEF Waits, TypeInv, STATE_DOWNLOADING, STATE_PENDING_NETWORK
    <3>2. OnIt(k)' = OnIt(k)
      BY <2>3, OnItStays DEF Waits
    <3> QED
      BY <1>0, <2>1, <3>1, <3>2 DEF OneRun, Told
  <2>4. CASE Starts(j)
    <3>1. PICK w \in Worker :
            /\ job[w] = Free
            /\ job'[w].kind = j /\ job'[w].at = "get"
            /\ \A v \in Worker \ {w} : job'[v] = job[v]
      BY <1>0, <2>4, StartJob
    <3>3. w \notin OnIt(k)
      BY <3>1, FreeFacts DEF OnIt
    <3>4. CASE j = k
      <4>1. OnIt(k)' = OnIt(k) \cup {w}
        BY <3>1, <3>4 DEF OnIt
      <4>2. pending[k] # STATE_DOWNLOADING /\ pending'[k] = STATE_DOWNLOADING
        BY <1>0, <2>4, <3>4 DEF Starts, TypeInv
      <4>3. IsFiniteSet(OnIt(k)') /\ Cardinality(OnIt(k)') = Cardinality(OnIt(k)) + 1
        BY <1>0, <3>3, <4>1, FS_AddElement DEF OneRun
      <4>4. Cardinality(OnIt(k)) \in Nat
        BY ToldNumbers DEF TInv
      <4> QED
        BY <1>0, <2>1, <4>2, <4>3, <4>4 DEF OneRun, Told
    <3>5. CASE j # k
      <4>1. OnIt(k)' = OnIt(k)
        BY <3>1, <3>3, <3>5 DEF OnIt
      <4>2. pending'[k] = pending[k]
        BY <1>0, <2>4, <3>5 DEF Starts, TypeInv
      <4> QED
        BY <1>0, <2>1, <4>1, <4>2, RunStays
    <3> QED
      BY <3>4, <3>5
  <2> QED
    BY <1>3, <2>2, <2>3, <2>4 DEF handleDownload
<1>4. ASSUME NEW j \in Kind, handleFinished(j) PROVE OneRun(k)'
  <2>1. OnIt(k)' = OnIt(k)
    BY <1>4, OnItStays DEF handleFinished
  <2>2. queue' = Tail(queue) \o << >> /\ Head(queue).what = Finished(j)
    BY <1>4 DEF handleFinished, Handled, Is
  <2>3. Cardinality(At(queue', Told(k)))
          = Cardinality(At(queue, Told(k))) - (IF Finished(j) = Finished(k) THEN 1 ELSE 0)
    BY <1>0, <1>e, <2>2, ToldHandled
  <2>4. CASE j = k
    <3>1. pending'[k] = STATE_IDLE
      BY <1>0, <1>4, <2>4 DEF handleFinished, TypeInv
    <3>2. Cardinality(At(queue', Told(k))) \in Nat /\ Cardinality(OnIt(k)) \in Nat
      <4>1. queue' \in Seq(Message)
        BY <1>0, <1>4, HandledNone, HeadTailFacts DEF handleFinished, TypeInv
      <4> QED
        BY <4>1, AtFinite, ToldNumbers DEF TInv
    <3>3. Cardinality(OnIt(k)) + Cardinality(At(queue', Told(k))) = 0
      BY <1>0, <2>3, <2>4, <3>2 DEF OneRun
    <3>4. STATE_IDLE # STATE_DOWNLOADING
      BY DEF STATE_IDLE, STATE_DOWNLOADING
    <3> QED
      BY <1>0, <2>1, <3>1, <3>3, <3>4 DEF OneRun, Told
  <2>5. CASE j # k
    <3>1. pending'[k] = pending[k]
      BY <1>0, <1>4, <2>5 DEF handleFinished, TypeInv
    <3>2. Cardinality(At(queue', Told(k))) = Cardinality(At(queue, Told(k)))
      BY <1>0, <2>3, <2>5, KindFacts
    <3> QED
      BY <1>0, <2>1, <3>1, <3>2, RunStays
  <2> QED
    BY <2>4, <2>5
<1> QED
  BY <1>1, <1>2, <1>3, <1>4 DEF HandleDownload

LEMMA WorkBInv ==
    ASSUME TInv, BInv, Work \/ \E k \in Kind : Due(k)
    PROVE  BInv'
<1> SUFFICES ASSUME NEW k \in Kind PROVE OneRun(k)'
  BY DEF BInv
<1>0. TypeInv /\ OneRun(k) /\ Cardinality(At(queue, Told(k))) \in Nat
      /\ Cardinality(OnIt(k)) \in Nat
  BY ToldNumbers DEF TInv, BInv
<1>1. ASSUME NEW w \in Worker, NEW ok \in BOOLEAN, Get(w, ok) PROVE OneRun(k)'
  <2>4. OnIt(k)' = OnIt(k)
    BY <1>0, <1>1, GetJob DEF OnIt
  <2> QED
    BY <1>0, <1>1, <2>4, RunStays DEF Get
<1>2. ASSUME NEW w \in Worker, Tell(w) PROVE OneRun(k)'
  <2>1. /\ job[w].kind \in Kind /\ job[w].at = "tell"
        /\ job'[w].at = "end" /\ job'[w].kind = job[w].kind
        /\ \A v \in Worker \ {w} : job'[v] = job[v]
    BY <1>0, <1>2, TellJob
  <2>2. PICK m \in Message : m.what = Finished(job[w].kind) /\ queue' = queue \o <<m>>
    BY <1>0, <1>2, TellJob
  <2>3. queue' = Append(queue, m)
    BY <1>0, <2>2, AppendFacts DEF TypeInv
  <2>6. Cardinality(At(queue', Told(k)))
          = Cardinality(At(queue, Told(k)))
            + (IF Finished(job[w].kind) = Finished(k) THEN 1 ELSE 0)
    BY <1>0, <2>2, <2>3, ToldAppend
  <2>7. CASE job[w].kind = k
    <3>1. OnIt(k)' = OnIt(k) \ {w} /\ w \in OnIt(k)
      BY <2>1, <2>7 DEF OnIt
    <3>2. IsFiniteSet(OnIt(k)') /\ Cardinality(OnIt(k)') = Cardinality(OnIt(k)) - 1
      BY <1>0, <3>1, FS_RemoveElement DEF OneRun
    <3>3. Cardinality(At(queue', Told(k))) = Cardinality(At(queue, Told(k))) + 1
      BY <2>6, <2>7
    <3>4. Cardinality(OnIt(k)') + Cardinality(At(queue', Told(k)))
            = Cardinality(OnIt(k)) + Cardinality(At(queue, Told(k)))
      BY <1>0, <3>2, <3>3
    <3>5. pending'[k] = pending[k]
      BY <1>2 DEF Tell
    <3> QED
      BY <1>0, <3>2, <3>4, <3>5 DEF OneRun, Told
  <2>8. CASE job[w].kind # k
    <3>1. OnIt(k)' = OnIt(k)
      BY <2>1, <2>8 DEF OnIt
    <3>2. Cardinality(At(queue', Told(k))) = Cardinality(At(queue, Told(k)))
      BY <1>0, <2>1, <2>6, <2>8, KindFacts
    <3> QED
      BY <1>0, <1>2, <3>1, <3>2, RunStays DEF Tell
  <2> QED
    BY <2>7, <2>8
<1>3. ASSUME NEW w \in Worker, End(w) PROVE OneRun(k)'
  <2>2. OnIt(k)' = OnIt(k)
    BY <1>0, <1>3, EndJob, FreeFacts DEF OnIt
  <2> QED
    BY <1>0, <1>3, <2>2, RunStays DEF End
<1>4. ASSUME NEW j \in Kind, Due(j) PROVE OneRun(k)'
  <2>1. Uncounted(Ask(j), FALSE) \in Message /\ Uncounted(Ask(j), FALSE).what = Ask(j)
    BY AskFacts, PlainMessages DEF Uncounted
  <2>2. queue' = Append(queue, Uncounted(Ask(j), FALSE))
    BY <1>4 DEF Due, Broadcast
  <2>3. Cardinality(At(queue', Told(k))) = Cardinality(At(queue, Told(k)))
    <3>1. Ask(j) # Finished(k)
      BY KindFacts
    <3>2. Cardinality(At(queue', Told(k)))
            = Cardinality(At(queue, Told(k))) + (IF Ask(j) = Finished(k) THEN 1 ELSE 0)
      BY <1>0, <2>1, <2>2, ToldAppend
    <3> QED
      BY <1>0, <3>1, <3>2
  <2> QED
    BY <1>0, <1>4, <2>3, RunStays, OnItStays DEF Due
<1> QED
  BY <1>1, <1>2, <1>3, <1>4 DEF Work

LEMMA NextBInv == TInv /\ BInv /\ [Next]_vars => BInv'
<1> SUFFICES ASSUME TInv, BInv, [Next]_vars PROVE BInv'
  OBVIOUS
<1>1. CASE UNCHANGED vars
  BY <1>1 DEF vars, downloadVars, BInv, OneRun, OnIt, Told
<1>2. CASE Next
  BY <1>2, NextSteps, ProviderBInv, DownloadBInv, WorkBInv
<1> QED
  BY <1>1, <1>2

LEMMA InitBInv == Init => BInv
<1> SUFFICES ASSUME Init, NEW k \in Kind PROVE OneRun(k)
  BY DEF BInv
<1>1. OnIt(k) = {} /\ queue = << >> /\ pending[k] = STATE_PENDING_NETWORK
  BY FreeFacts DEF Init, DownloadInit, OnIt
<1>2. Cardinality(At(queue, Told(k))) = 0
  BY <1>1, AtNone
<1> QED
  BY <1>1, <1>2, FS_EmptySet DEF OneRun, STATE_PENDING_NETWORK, STATE_DOWNLOADING

LEMMA AlwaysBInv == Spec => []BInv
BY InitBInv, NextBInv, AlwaysTInv, PTL DEF Spec

\* What Running counts.
LEMMA RunningMeans ==
    ASSUME TypeInv, NEW k \in Kind
    PROVE  Running(k) = Cardinality(OnIt(k)) + Cardinality(At(queue, Told(k)))
<1>1. \A i \in DOMAIN queue : queue[i] \in Message
  BY DEF TypeInv
<1>2. {i \in DOMAIN queue : queue[i].what = Finished(k)} = At(queue, Told(k))
  BY <1>1 DEF At, Told
<1> QED
  BY <1>2 DEF Running, OnIt

(* A download is marked as running exactly while one worker is on it or its end is *)
(* in the queue (handleDownloadXtraData, handleInjectNtpTime and the messages that *)
(* their workers send): never two workers inject at once, and no mark stays behind *)
(* that would refuse every later download.                                         *)
THEOREM AlwaysBusyIffRunning == Spec => []BusyIffRunning
<1>1. TInv /\ BInv => BusyIffRunning
  BY RunningMeans DEF TInv, BInv, OneRun, BusyIffRunning
<1> QED
  BY <1>1, AlwaysTInv, AlwaysBInv, PTL
-----------------------------------------------------------------------------
(* Downloads that are wanted.                                              *)

LEMMA OnItOne ==
    ASSUME TypeInv, BInv, NEW k \in Kind
    PROVE  /\ \A v, w \in OnIt(k) : v = w
           /\ pending[k] # STATE_DOWNLOADING => OnIt(k) = {}
           /\ pending[k] # STATE_DOWNLOADING => \A i \in DOMAIN queue : queue[i].what # Finished(k)
           /\ pending[k] = STATE_DOWNLOADING /\ OnIt(k) = {} =>
                \E i \in DOMAIN queue : queue[i].what = Finished(k)
<1>1. /\ Cardinality(At(queue, Told(k))) \in Nat /\ Cardinality(OnIt(k)) \in Nat
      /\ IsFiniteSet(OnIt(k)) /\ IsFiniteSet(At(queue, Told(k)))
  BY ToldNumbers, AtFinite DEF TypeInv
<1>2. Cardinality(OnIt(k)) + Cardinality(At(queue, Told(k)))
        = IF pending[k] = STATE_DOWNLOADING THEN 1 ELSE 0
  BY DEF BInv, OneRun
<1>3. \A i \in DOMAIN queue : queue[i] \in Message
  BY DEF TypeInv
<1>4. \A i : i \in At(queue, Told(k)) <=> i \in DOMAIN queue /\ queue[i].what = Finished(k)
  BY <1>3 DEF At, Told
<1>5. \/ Cardinality(OnIt(k)) = 0
      \/ Cardinality(OnIt(k)) = 1
  BY <1>1, <1>2
<1>6. OnIt(k) = {} \/ \E w : OnIt(k) = {w}
  BY <1>1, <1>5, FS_EmptySet, FS_Singleton
<1>7. \A v, w \in OnIt(k) : v = w
  BY <1>6
<1>8. ASSUME pending[k] # STATE_DOWNLOADING
      PROVE  OnIt(k) = {} /\ \A i \in DOMAIN queue : queue[i].what # Finished(k)
  <2>1. Cardinality(OnIt(k)) = 0 /\ Cardinality(At(queue, Told(k))) = 0
    BY <1>1, <1>2, <1>8
  <2>2. OnIt(k) = {} /\ At(queue, Told(k)) = {}
    BY <1>1, <2>1, FS_EmptySet
  <2> QED
    BY <1>4, <2>2
<1>9. ASSUME pending[k] = STATE_DOWNLOADING, OnIt(k) = {}
      PROVE  \E i \in DOMAIN queue : queue[i].what = Finished(k)
  <2>1. Cardinality(OnIt(k)) = 0
    BY <1>9, FS_EmptySet
  <2>2. Cardinality(At(queue, Told(k))) = 1
    BY <1>1, <1>2, <1>9, <2>1
  <2>3. At(queue, Told(k)) # {}
    BY <2>2, FS_EmptySet
  <2> QED
    BY <1>4, <2>3
<1> QED
  BY <1>7, <1>8, <1>9

\* The queue after one more message.
LEMMA AppendAt ==
    ASSUME TypeInv, NEW m \in Message, queue' = Append(queue, m)
    PROVE  /\ \A i \in DOMAIN queue : i \in Nat /\ i \in DOMAIN queue' /\ queue'[i] = queue[i]
           /\ Len(queue) + 1 \in DOMAIN queue' /\ queue'[Len(queue) + 1] = m
           /\ \A i \in DOMAIN queue : i < Len(queue) + 1
BY DEF TypeInv

\* The queue after its head is gone.
LEMMA TailAt ==
    ASSUME TypeInv, queue # << >>, NEW p \in Seq(Message), queue' = Tail(queue) \o p
    PROVE  /\ 1 \in DOMAIN queue /\ queue[1] = Head(queue)
           /\ \A i \in DOMAIN queue :
                i \in Nat /\ (i # 1 => i - 1 \in DOMAIN queue' /\ queue'[i - 1] = queue[i])
<1> DEFINE t == Tail(queue)
<1>1. /\ t \in Seq(Message) /\ Len(queue) \in Nat /\ Len(queue) # 0
      /\ DOMAIN queue = 1 .. Len(queue) /\ Len(t) = Len(queue) - 1
      /\ \A i \in 1 .. Len(t) : t[i] = queue[i + 1]
      /\ queue[1] = Head(queue)
  BY DEF TypeInv
<1> HIDE DEF t
<1>2. /\ DOMAIN (t \o p) = 1 .. (Len(t) + Len(p)) /\ Len(p) \in Nat /\ Len(t) \in Nat
      /\ \A i \in 1 .. Len(t) : (t \o p)[i] = t[i]
  BY <1>1, ConcatFacts
<1>3. queue' = t \o p
  BY DEF t
<1>4. ASSUME NEW i \in 1 .. Len(queue), i # 1
      PROVE  i - 1 \in DOMAIN queue' /\ queue'[i - 1] = queue[i]
  <2>1. i - 1 \in 1 .. Len(t) /\ (i - 1) + 1 = i /\ i - 1 \in 1 .. (Len(t) + Len(p))
    BY <1>1, <1>2, <1>4
  <2>2. queue'[i - 1] = t[i - 1] /\ t[i - 1] = queue[(i - 1) + 1]
    BY <1>1, <1>2, <1>3, <2>1
  <2> QED
    BY <1>2, <1>3, <2>1, <2>2
<1> QED
  BY <1>1, <1>4

\* A message that asks stays where it is, or moves up.
LEMMA AskedAppend ==
    ASSUME TypeInv, NEW k \in Kind, NEW m \in Message, queue' = Append(queue, m), Asked(k),
           pending'[k] = pending[k]
    PROVE  Asked(k)'
<1>1. PICK j \in DOMAIN queue :
        /\ queue[j].what = Ask(k)
        /\ pending[k] = STATE_DOWNLOADING =>
               \E i \in DOMAIN queue : i < j /\ queue[i].what = Finished(k)
  BY DEF Asked
<1>2. j \in DOMAIN queue' /\ queue'[j].what = Ask(k)
  BY <1>1, AppendAt
<1>3. pending'[k] = STATE_DOWNLOADING =>
        \E i \in DOMAIN queue' : i < j /\ queue'[i].what = Finished(k)
  BY <1>1, AppendAt
<1> QED
  BY <1>2, <1>3 DEF Asked, Ask, Finished, STATE_DOWNLOADING

LEMMA AskedTail ==
    ASSUME TypeInv, NEW k \in Kind, queue # << >>, NEW p \in Seq(Message),
           queue' = Tail(queue) \o p, Asked(k),
           Head(queue).what # Ask(k) \/ pending[k] = STATE_DOWNLOADING,
           \/ pending'[k] # STATE_DOWNLOADING
           \/ pending[k] = STATE_DOWNLOADING /\ Head(queue).what # Finished(k)
    PROVE  Asked(k)'
<1>1. PICK j \in DOMAIN queue :
        /\ queue[j].what = Ask(k)
        /\ pending[k] = STATE_DOWNLOADING =>
               \E i \in DOMAIN queue : i < j /\ queue[i].what = Finished(k)
  BY DEF Asked
<1>2. DOMAIN queue = 1 .. Len(queue) /\ Len(queue) \in Nat
  BY DEF TypeInv
<1>3. j # 1
  <2>1. ASSUME j = 1 PROVE FALSE
    <3>1. Head(queue).what = Ask(k)
      BY <1>1, <2>1, TailAt
    <3>2. PICK i \in DOMAIN queue : i < 1
      BY <1>1, <2>1, <3>1
    <3> QED
      BY <1>2, <3>2
  <2> QED
    BY <2>1
<1>4. j - 1 \in DOMAIN queue' /\ queue'[j - 1].what = Ask(k)
  BY <1>1, <1>3, TailAt
<1>5. ASSUME pending'[k] = STATE_DOWNLOADING
      PROVE  \E i \in DOMAIN queue' : i < j - 1 /\ queue'[i].what = Finished(k)
  <2>1. PICK i \in DOMAIN queue : i < j /\ queue[i].what = Finished(k)
    BY <1>1, <1>5
  <2>2. i # 1
    BY <1>5, <2>1, TailAt
  <2>3. i - 1 \in DOMAIN queue' /\ queue'[i - 1].what = Finished(k)
    BY <2>1, <2>2, TailAt
  <2>4. i - 1 < j - 1
    BY <1>2, <2>1
  <2> QED
    BY <2>3, <2>4
<1> QED
  BY <1>4, <1>5 DEF Asked, Ask, Finished, STATE_DOWNLOADING

\* A message that asks, just sent, comes after the end of the download that runs.
LEMMA AskedNow ==
    ASSUME TypeInv, NEW k \in Kind, NEW m \in Message, m.what = Ask(k), queue' = Append(queue, m),
           pending'[k] = STATE_DOWNLOADING => \E i \in DOMAIN queue : queue[i].what = Finished(k)
    PROVE  Asked(k)'
<1> DEFINE j == Len(queue) + 1
<1>1. j \in DOMAIN queue' /\ queue'[j].what = Ask(k)
  BY AppendAt
<1>2. pending'[k] = STATE_DOWNLOADING =>
        \E i \in DOMAIN queue' : i < j /\ queue'[i].what = Finished(k)
  BY AppendAt
<1> HIDE DEF j
<1> QED
  BY <1>1, <1>2 DEF Asked, Ask, Finished, STATE_DOWNLOADING

\* While a download runs that is needed nevertheless, its worker will ask again, or its
\* end is in the queue.
LEMMA AskedOrWillAsk ==
    ASSUME TypeInv, BInv, DInv, NEW k \in Kind, pending[k] = STATE_DOWNLOADING, need[k] \/ k = "ntp"
    PROVE  WillAsk(k) \/ \E i \in DOMAIN queue : queue[i].what = Finished(k)
<1>1. CASE OnIt(k) = {}
  BY <1>1, OnItOne
<1>2. CASE OnIt(k) # {}
  <2>1. PICK w \in Worker : job[w].kind = k /\ job[w].at \in {"get", "tell"}
    BY <1>2 DEF OnIt
  <2>2. job[w].at = "get" \/ k = "ntp" \/ ~job[w].ok
    BY <2>1 DEF DInv, DoneIsDone
  <2> QED
    BY <2>1, <2>2 DEF WillAsk
<1> QED
  BY <1>1, <1>2

LEMMA WillAskStays ==
    ASSUME NEW k \in Kind, WillAsk(k),
           \A w \in Worker : job[w].kind = k =>
               /\ job'[w].kind = k /\ (job[w].at = "get" => job'[w].at = "get")
               /\ job'[w].ok = job[w].ok
    PROVE  WillAsk(k)'
BY DEF WillAsk

\* A message at the head that asks for no download and tells of none's end is gone.
LEMMA RetainedTail ==
    ASSUME TypeInv, NEW k \in Kind, Retained(k), queue # << >>, NEW p \in Seq(Message),
           queue' = Tail(queue) \o p,
           Head(queue).what \notin {Ask(k), Finished(k)},
           UNCHANGED <<pending, delayed, mNetworkAvailable, mPeriodicTimeInjection, job, need>>
    PROVE  Retained(k)'
<1>1. Asked(k) => Asked(k)'
  BY AskedTail
<1>2. WillAsk(k) => WillAsk(k)'
  BY DEF WillAsk
<1> QED
  BY <1>1, <1>2 DEF Retained, STATE_PENDING_NETWORK

LEMMA TakenUpAsks ==
    ASSUME NEW k \in Kind, NEW what \in TakenUp \cup {"CONNECTIVITY_CHANGE", "UPDATE_NETWORK_STATE"}
    PROVE  what \notin {Ask(k), Finished(k)}
BY DEF TakenUp, Ask, Finished

LEMMA ProviderDInv ==
    ASSUME TInv, BInv, DInv, ProviderStep
    PROVE  DInv'
<1>0. TypeInv
  BY DEF TInv
<1>1. /\ UNCHANGED <<delayed, mNetworkAvailable, pending, job, need>>
      /\ mSupportsXtra => mSupportsXtra'
      /\ \/ mPeriodicTimeInjection' = mPeriodicTimeInjection
         \/ \E m \in Message : m.what = Ask("ntp") /\ queue' = Append(queue, m)
  BY ProviderRest
<1>2. DoneIsDone' /\ Supported'
  BY <1>1 DEF DInv, DoneIsDone, Supported
<1>3. ASSUME NEW k \in Kind PROVE Retained(k)'
  <2>0. Retained(k) /\ (WillAsk(k) => WillAsk(k)')
    BY <1>1 DEF DInv, WillAsk
  <2>1. CASE k = "ntp" /\ \E m \in Message : m.what = Ask("ntp") /\ queue' = Append(queue, m)
    <3>1. PICK m \in Message : m.what = Ask(k) /\ queue' = Append(queue, m)
      BY <2>1
    <3>2. pending[k] = STATE_DOWNLOADING =>
            WillAsk(k) \/ \E i \in DOMAIN queue : queue[i].what = Finished(k)
      BY <1>0, <2>1, AskedOrWillAsk
    <3>3. Asked(k)' \/ WillAsk(k)'
      <4>1. CASE WillAsk(k)
        BY <2>0, <4>1
      <4>2. CASE ~WillAsk(k)
        BY <1>0, <1>1, <3>1, <3>2, <4>2, AskedNow
      <4> QED
        BY <4>1, <4>2
    <3> QED
      BY <3>3 DEF Retained
  <2>2. CASE (k = "ntp" => mPeriodicTimeInjection' = mPeriodicTimeInjection)
    <3>1. Asked(k) => Asked(k)'
      <4>1. CASE queue' = queue
        BY <1>1, <4>1 DEF Asked, Ask, Finished, STATE_DOWNLOADING
      <4>2. ASSUME NEW m \in Message, queue' = Append(queue, m), Asked(k) PROVE Asked(k)'
        BY <1>0, <1>1, <4>2, AskedAppend
      <4>3. ASSUME queue # << >>, Head(queue).what \in TakenUp, queue' = Tail(queue), Asked(k)
            PROVE  Asked(k)'
        <5>1. Head(queue).what \notin {Ask(k), Finished(k)}
          BY <4>3, TakenUpAsks
        <5>2. << >> \in Seq(Message) /\ queue' = Tail(queue) \o << >>
          <6>1. Tail(queue) \in Seq(Message)
            BY <1>0, <4>3, HeadTailFacts DEF TypeInv
          <6>2. Tail(queue) \o << >> = Tail(queue)
            BY <6>1
          <6> QED
            BY <4>3, <6>2, SeqFacts
        <5>3. \/ pending'[k] # STATE_DOWNLOADING
              \/ pending[k] = STATE_DOWNLOADING /\ Head(queue).what # Finished(k)
          BY <1>1, <5>1
        <5> QED
          BY <1>0, <4>3, <5>1, <5>2, <5>3, AskedTail
      <4> QED
        BY <4>1, <4>2, <4>3, ProviderQueue
    <3> QED
      BY <1>1, <2>0, <2>2, <3>1 DEF Retained, STATE_PENDING_NETWORK
  <2> QED
    BY <1>1, <2>1, <2>2
<1> QED
  BY <1>2, <1>3 DEF DInv

\* What handleUpdateNetworkState sends again.
LEMMA SentAgain ==
    ASSUME TypeInv, handleUpdateNetworkState
    PROVE  \E p \in Seq(Message) :
             /\ queue' = Tail(queue) \o p
             /\ \A k \in Kind : Head(queue).arg /\ pending[k] = STATE_PENDING_NETWORK =>
                    \E i \in DOMAIN queue' : queue'[i].what = Ask(k)
<1> DEFINE Again2(k) == IF Head(queue).arg /\ pending[k] = STATE_PENDING_NETWORK
                        THEN <<Counted(Ask(k), FALSE)>> ELSE << >>
           a == Again2("ntp")
           b == Again2("xtra")
           t == Tail(queue)
<1>0. "ntp" \in Kind /\ "xtra" \in Kind /\ \A k \in Kind : k = "ntp" \/ k = "xtra"
  BY DEF Kind
<1>1. ASSUME NEW k \in Kind
      PROVE  /\ Again2(k) \in Seq(Message)
             /\ Head(queue).arg /\ pending[k] = STATE_PENDING_NETWORK =>
                  1 \in 1 .. Len(Again2(k)) /\ Again2(k)[1].what = Ask(k)
  <2>1. Counted(Ask(k), FALSE) \in Message /\ Counted(Ask(k), FALSE).what = Ask(k)
    BY AskFacts, PlainMessages DEF Counted
  <2>2. CASE Head(queue).arg /\ pending[k] = STATE_PENDING_NETWORK
    <3>1. Again2(k) = <<Counted(Ask(k), FALSE)>>
      BY <2>2
    <3> HIDE DEF Again2
    <3>2. Again2(k) \in Seq(Message) /\ Len(Again2(k)) = 1
      BY <2>1, <3>1, SeqFacts
    <3>3. Again2(k)[1].what = Ask(k)
      <4> DEFINE m == Counted(Ask(k), FALSE)
      <4>1. m.what = Ask(k) /\ Again2(k) = <<m>>
        BY <2>1, <3>1
      <4> HIDE DEF m
      <4> QED
        BY <4>1
    <3> QED
      BY <3>2, <3>3
  <2>3. CASE ~(Head(queue).arg /\ pending[k] = STATE_PENDING_NETWORK)
    BY <2>3, SeqFacts
  <2> QED
    BY <2>2, <2>3
<1>2. queue' = t \o (a \o b)
  BY DEF handleUpdateNetworkState, Handled
<1>3. t \in Seq(Message)
  BY HeadTailFacts DEF TypeInv, handleUpdateNetworkState, Is
<1>4. a \in Seq(Message) /\ b \in Seq(Message)
  BY <1>0, <1>1
<1>5. /\ Head(queue).arg /\ pending["ntp"] = STATE_PENDING_NETWORK =>
           1 \in 1 .. Len(a) /\ a[1].what = Ask("ntp")
      /\ Head(queue).arg /\ pending["xtra"] = STATE_PENDING_NETWORK =>
           1 \in 1 .. Len(b) /\ b[1].what = Ask("xtra")
  BY <1>0, <1>1
<1> HIDE DEF Again2, a, b, t
<1>6. a \o b \in Seq(Message)
  BY <1>4, SeqFacts
<1>7. ASSUME NEW i \in 1 .. Len(a \o b)
      PROVE  Len(t) + i \in DOMAIN queue' /\ queue'[Len(t) + i] = (a \o b)[i]
  <2>1. Len(t) + i \in 1 .. (Len(t) + Len(a \o b))
    BY <1>3, <1>6, <1>7, ConcatFacts
  <2> QED
    BY <1>2, <1>3, <1>6, <2>1, ConcatFacts
<1>8. /\ 1 \in 1 .. Len(a) => 1 \in 1 .. Len(a \o b) /\ (a \o b)[1] = a[1]
      /\ 1 \in 1 .. Len(b) => Len(a) + 1 \in 1 .. Len(a \o b) /\ (a \o b)[Len(a) + 1] = b[1]
  <2>1. Len(a) \in Nat /\ Len(b) \in Nat /\ Len(a \o b) = Len(a) + Len(b)
    BY <1>4, ConcatFacts
  <2>2. 1 \in 1 .. Len(a) => (a \o b)[1] = a[1]
    BY <1>4, ConcatFacts
  <2>3. 1 \in 1 .. Len(b) => (a \o b)[Len(a) + 1] = b[1]
    BY <1>4, ConcatFacts
  <2> QED
    BY <2>1, <2>2, <2>3
<1>9. ASSUME NEW k \in Kind, Head(queue).arg, pending[k] = STATE_PENDING_NETWORK
      PROVE  \E i \in DOMAIN queue' : queue'[i].what = Ask(k)
  <2>1. CASE k = "ntp"
    BY <1>5, <1>7, <1>8, <1>9, <2>1
  <2>2. CASE k = "xtra"
    BY <1>5, <1>7, <1>8, <1>9, <2>2
  <2> QED
    BY <1>0, <2>1, <2>2
<1>10. queue' = Tail(queue) \o (a \o b)
  BY <1>2 DEF t
<1> QED
  BY <1>6, <1>9, <1>10

\* What downloads and workers do to the queue.
LEMMA DownloadQueue ==
    ASSUME TypeInv, HandleDownload
    PROVE  queue # << >> /\ \E p \in Seq(Message) : queue' = Tail(queue) \o p
<1>1. CASE onConnectivityChange
  <2>1. queue # << >>
    BY <1>1 DEF onConnectivityChange, Is
  <2>2. "UPDATE_NETWORK_STATE" \in What /\ Head(queue).arg \in BOOLEAN \cup Request
    BY <2>1, HeadTailFacts DEF What, Message, TypeInv
  <2> QED
    BY <1>1, <2>1, <2>2, NewMessages, SeqFacts DEF onConnectivityChange, Handled
<1>2. CASE handleUpdateNetworkState
  BY <1>2, SentAgain DEF handleUpdateNetworkState, Is
<1>3. CASE \E k \in Kind : handleDownload(k) \/ handleFinished(k)
  BY <1>3, SeqFacts DEF handleDownload, handleFinished, Ignored, Waits, Starts, Handled, Is
<1> QED
  BY <1>1, <1>2, <1>3 DEF HandleDownload

LEMMA WorkQueue ==
    ASSUME TypeInv, Work \/ \E k \in Kind : Due(k)
    PROVE  queue' = queue \/ \E m \in Message : queue' = Append(queue, m)
<1>1. ASSUME NEW w \in Worker, Tell(w) PROVE \E m \in Message : queue' = Append(queue, m)
  BY <1>1, TellJob, AppendFacts DEF TypeInv
<1>2. ASSUME NEW k \in Kind, Due(k) PROVE \E m \in Message : queue' = Append(queue, m)
  <2>1. Uncounted(Ask(k), FALSE) \in Message
    BY AskFacts, PlainMessages
  <2> QED
    BY <1>2, <2>1 DEF Due, Broadcast
<1> QED
  BY <1>1, <1>2 DEF Work, Get, End

LEMMA DownloadDInv ==
    ASSUME TInv, BInv, DInv, HandleDownload
    PROVE  DInv'
<1>0. TypeInv /\ queue # << >>
  BY DEF TInv, HandleDownload, onConnectivityChange, handleUpdateNetworkState, handleDownload,
         handleFinished, Is
<1>e. << >> \in Seq(Message)
  BY SeqFacts
<1>1. CASE onConnectivityChange
  <2>2. PICK p \in Seq(Message) : queue' = Tail(queue) \o p
    BY <1>0, DownloadQueue
  <2>3. \A k \in Kind : Head(queue).what \notin {Ask(k), Finished(k)}
    BY <1>1, TakenUpAsks DEF onConnectivityChange, Is
  <2>4. \A k \in Kind : Retained(k)'
    BY <1>0, <1>1, <2>2, <2>3, RetainedTail DEF onConnectivityChange, DInv
  <2> QED
    BY <1>1, <2>4 DEF onConnectivityChange, DInv, DoneIsDone, Supported
<1>2. CASE handleUpdateNetworkState
  <2>1. PICK p \in Seq(Message) :
             /\ queue' = Tail(queue) \o p
             /\ \A k \in Kind : Head(queue).arg /\ pending[k] = STATE_PENDING_NETWORK =>
                    \E i \in DOMAIN queue' : queue'[i].what = Ask(k)
    BY <1>0, <1>2, SentAgain
  <2>2. UNCHANGED <<delayed, pending, mPeriodicTimeInjection, mSupportsXtra, job, need>>
        /\ mNetworkAvailable' = Head(queue).arg
    BY <1>2 DEF handleUpdateNetworkState
  <2>3. ASSUME NEW k \in Kind PROVE Retained(k)'
    <3>1. Head(queue).what \notin {Ask(k), Finished(k)}
      BY <1>2, TakenUpAsks DEF handleUpdateNetworkState, Is
    <3>2. Asked(k) => Asked(k)'
      BY <1>0, <2>1, <2>2, <3>1, AskedTail
    <3>3. Head(queue).arg /\ pending[k] = STATE_PENDING_NETWORK => Asked(k)'
      BY <2>1, <2>2 DEF Asked, Ask, Finished, STATE_PENDING_NETWORK, STATE_DOWNLOADING
    <3>4. WillAsk(k) => WillAsk(k)'
      BY <2>2 DEF WillAsk
    <3>5. Retained(k)
      BY DEF DInv
    <3> QED
      BY <2>2, <3>2, <3>3, <3>4, <3>5 DEF Retained, STATE_PENDING_NETWORK
  <2> QED
    BY <2>2, <2>3 DEF DInv, DoneIsDone, Supported
<1>3. ASSUME NEW j \in Kind, handleDownload(j) PROVE DInv'
  <2>0. /\ Head(queue).what = Ask(j)
        /\ UNCHANGED <<delayed, mNetworkAvailable, mPeriodicTimeInjection, mSupportsXtra>>
        /\ queue' = Tail(queue) \o << >>
    BY <1>3 DEF handleDownload, Is, Ignored, Waits, Starts, Handled
  <2>a. ASSUME NEW k \in Kind, k # j PROVE Asked(k) => Asked(k)'
    <3>1. Head(queue).what \notin {Ask(k), Finished(k)}
      BY <2>0, <2>a, KindFacts
    <3>2. pending'[k] = pending[k]
      BY <1>0, <1>3, <2>a DEF handleDownload, Ignored, Waits, Starts, TypeInv
    <3> QED
      BY <1>0, <1>e, <2>0, <3>1, <3>2, AskedTail
  <2>1. CASE Ignored(j)
    <3>1. DoneIsDone' /\ Supported'
      BY <2>0, <2>1 DEF Ignored, DInv, DoneIsDone, Supported
    <3>2. ASSUME NEW k \in Kind PROVE Retained(k)'
      <4>1. Retained(k) /\ (WillAsk(k) => WillAsk(k)') /\ UNCHANGED <<pending, need>>
        BY <2>1 DEF Ignored, DInv, WillAsk
      <4>2. CASE k # j
        BY <2>0, <2>a, <4>1, <4>2 DEF Retained, STATE_PENDING_NETWORK
      <4>3. CASE k = j /\ pending[j] = STATE_DOWNLOADING
        <5>1. Head(queue).what # Finished(k)
          BY <2>0, KindFacts
        <5>2. Asked(k) => Asked(k)'
          BY <1>0, <1>e, <2>0, <4>1, <4>3, <5>1, AskedTail
        <5> QED
          BY <2>0, <4>1, <5>2 DEF Retained, STATE_PENDING_NETWORK
      <4>4. CASE k = j /\ j = "xtra" /\ ~mSupportsXtra
        BY <4>1, <4>4 DEF DInv, Supported, Retained
      <4> QED
        BY <2>1, <4>2, <4>3, <4>4 DEF Ignored
    <3> QED
      BY <3>1, <3>2 DEF DInv
  <2>b. ASSUME pending[j] # STATE_DOWNLOADING
        PROVE  \A w \in Worker : ~(job[w].kind = j /\ job[w].at = "tell")
    BY <1>0, <2>b, OnItOne DEF OnIt
  <2>2. CASE Waits(j)
    <3>0. /\ pending[j] # STATE_DOWNLOADING /\ ~mNetworkAvailable /\ (j = "xtra" => mSupportsXtra)
          /\ pending'[j] = STATE_PENDING_NETWORK /\ job' = job
          /\ \A k \in Kind \ {j} : pending'[k] = pending[k] /\ need'[k] = need[k]
      BY <1>0, <2>2 DEF Waits, TypeInv
    <3>1. DoneIsDone'
      <4> SUFFICES ASSUME NEW w \in Worker, job[w].at = "tell", job[w].ok PROVE ~need'[job[w].kind]
        BY <3>0 DEF DoneIsDone
      <4>1. job[w].kind \in Kind \ {j}
        BY <1>0, <2>b, <3>0, JobFacts, FreeFacts DEF TypeInv
      <4> QED
        BY <3>0, <4>1 DEF DInv, DoneIsDone
    <3>2. Supported'
      <4>1. "xtra" \in Kind
        BY DEF Kind
      <4> QED
        BY <2>0, <3>0, <4>1 DEF DInv, Supported
    <3>3. ASSUME NEW k \in Kind PROVE Retained(k)'
      <4>1. CASE k = j
        BY <2>0, <3>0, <4>1 DEF Retained, STATE_PENDING_NETWORK
      <4>2. CASE k # j
        <5>1. Retained(k) /\ (WillAsk(k) => WillAsk(k)')
          BY <3>0 DEF DInv, WillAsk
        <5> QED
          BY <2>0, <2>a, <3>0, <4>2, <5>1 DEF Retained, STATE_PENDING_NETWORK
      <4> QED
        BY <4>1, <4>2
    <3> QED
      BY <3>1, <3>2, <3>3 DEF DInv
  <2>3. CASE Starts(j)
    <3>0. /\ pending[j] # STATE_DOWNLOADING /\ (j = "xtra" => mSupportsXtra)
          /\ \A k \in Kind \ {j} : pending'[k] = pending[k] /\ need'[k] = need[k]
      BY <1>0, <2>3 DEF Starts, TypeInv
    <3>w. PICK w \in Worker :
            /\ job[w] = Free
            /\ job'[w].kind = j /\ job'[w].at = "get"
            /\ \A v \in Worker \ {w} : job'[v] = job[v]
      BY <1>0, <2>3, StartJob
    <3>1. DoneIsDone'
      <4> SUFFICES ASSUME NEW v \in Worker, job'[v].at = "tell", job'[v].ok
                   PROVE  ~need'[job'[v].kind]
        BY DEF DoneIsDone
      <4>1. v # w /\ job'[v] = job[v]
        BY <3>w
      <4>2. job[v].kind \in Kind \ {j}
        BY <1>0, <2>b, <3>0, <4>1, JobFacts, FreeFacts DEF TypeInv
      <4> QED
        BY <3>0, <4>1, <4>2 DEF DInv, DoneIsDone
    <3>2. Supported'
      <4>1. "xtra" \in Kind
        BY DEF Kind
      <4> QED
        BY <2>0, <3>0, <3>w, <4>1 DEF DInv, Supported
    <3>3. ASSUME NEW k \in Kind PROVE Retained(k)'
      <4>1. CASE k = j
        BY <3>w, <4>1 DEF Retained, WillAsk
      <4>2. CASE k # j
        <5>1. WillAsk(k) => WillAsk(k)'
          <6>1. w \notin {v \in Worker : job[v].kind = k}
            BY <3>w, FreeFacts DEF Kind
          <6> QED
            BY <3>w, <6>1 DEF WillAsk
        <5> QED
          BY <2>0, <2>a, <3>0, <4>2, <5>1 DEF Retained, DInv, STATE_PENDING_NETWORK
      <4> QED
        BY <4>1, <4>2
    <3> QED
      BY <3>1, <3>2, <3>3 DEF DInv
  <2> QED
    BY <1>3, <2>1, <2>2, <2>3 DEF handleDownload
<1>4. ASSUME NEW j \in Kind, handleFinished(j) PROVE DInv'
  <2>0. /\ Head(queue).what = Finished(j)
        /\ UNCHANGED <<delayed, mNetworkAvailable, mPeriodicTimeInjection, mSupportsXtra, job, need>>
        /\ queue' = Tail(queue) \o << >>
    BY <1>4 DEF handleFinished, Is, Handled
  <2>1. /\ pending'[j] = STATE_IDLE
        /\ \A k \in Kind \ {j} : pending'[k] = pending[k]
    BY <1>0, <1>4 DEF handleFinished, TypeInv
  <2>2. DoneIsDone' /\ Supported'
    BY <2>0 DEF DInv, DoneIsDone, Supported
  <2>3. ASSUME NEW k \in Kind PROVE Retained(k)'
    <3>1. Head(queue).what # Ask(k) /\ (k # j => Head(queue).what # Finished(k))
      BY <2>0, KindFacts
    <3>2. \/ pending'[k] # STATE_DOWNLOADING
          \/ pending[k] = STATE_DOWNLOADING /\ Head(queue).what # Finished(k)
      BY <2>1, <3>1 DEF STATE_IDLE, STATE_DOWNLOADING
    <3>3. Asked(k) => Asked(k)'
      BY <1>0, <1>e, <2>0, <3>1, <3>2, AskedTail
    <3>4. WillAsk(k) => WillAsk(k)'
      BY <2>0 DEF WillAsk
    <3>5. k = j => pending[k] = STATE_DOWNLOADING
      <4>1. 1 \in DOMAIN queue /\ queue[1] = Head(queue)
        BY <1>0, <1>e, <2>0, TailAt
      <4> QED
        BY <1>0, <2>0, <4>1, OnItOne
    <3> QED
      BY <2>0, <2>1, <3>3, <3>4, <3>5
         DEF Retained, DInv, STATE_PENDING_NETWORK, STATE_DOWNLOADING
  <2> QED
    BY <2>2, <2>3 DEF DInv
<1> QED
  BY <1>1, <1>2, <1>3, <1>4 DEF HandleDownload

\* Whose job moves on keeps its kind: the others' jobs are as they were.
LEMMA WorkDInv ==
    ASSUME TInv, BInv, DInv, Work \/ \E k \in Kind : Due(k)
    PROVE  DInv'
<1>0. TypeInv
  BY DEF TInv
<1>1. ASSUME NEW w \in Worker, NEW ok \in BOOLEAN, Get(w, ok) PROVE DInv'
  <2> DEFINE j == job[w].kind
  <2>1. /\ j \in Kind /\ job[w].at = "get"
        /\ job'[w].at = "tell" /\ job'[w].kind = j /\ job'[w].ok = ok
        /\ \A v \in Worker \ {w} : job'[v] = job[v]
        /\ need' = [need EXCEPT ![j] = ~ok]
    BY <1>0, <1>1, GetJob
  <2>2. UNCHANGED <<queue, delayed, mNetworkAvailable, pending, mPeriodicTimeInjection, mSupportsXtra>>
    BY <1>1 DEF Get
  <2> HIDE DEF j
  <2>3. need'[j] = ~ok /\ \A k \in Kind \ {j} : need'[k] = need[k]
    BY <1>0, <2>1 DEF TypeInv
  <2>4. DoneIsDone'
    <3> SUFFICES ASSUME NEW v \in Worker, job'[v].at = "tell", job'[v].ok PROVE ~need'[job'[v].kind]
      BY DEF DoneIsDone
    <3>1. CASE v = w
      BY <2>1, <2>3, <3>1
    <3>2. CASE v # w
      <4>1. job'[v] = job[v]
        BY <2>1, <3>2
      <4>2. job[v].kind \in Kind
        BY <1>0, <4>1, JobFacts, FreeFacts DEF TypeInv
      <4>3. job[v].kind # j
        <5>1. job[v].kind = j => v \in OnIt(j) /\ w \in OnIt(j)
          BY <2>1, <4>1 DEF OnIt, j
        <5> QED
          BY <1>0, <2>1, <3>2, <5>1, OnItOne
      <4> QED
        BY <2>3, <4>1, <4>2, <4>3 DEF DInv, DoneIsDone
    <3> QED
      BY <3>1, <3>2
  <2>5. Supported'
    <3>1. "xtra" \in Kind
      BY DEF Kind
    <3> QED
      BY <2>1, <2>2, <2>3, <3>1 DEF DInv, Supported, j
  <2>6. ASSUME NEW k \in Kind PROVE Retained(k)'
    <3>1. CASE k = j
      BY <2>1, <2>3, <3>1 DEF Retained, WillAsk
    <3>2. CASE k # j
      <4>1. WillAsk(k) => WillAsk(k)'
        BY <2>1, <3>2 DEF WillAsk, j
      <4>2. Asked(k) => Asked(k)'
        BY <2>2 DEF Asked, Ask, Finished, STATE_DOWNLOADING
      <4> QED
        BY <2>2, <2>3, <3>2, <4>1, <4>2 DEF DInv, Retained, STATE_PENDING_NETWORK
    <3> QED
      BY <3>1, <3>2
  <2> QED
    BY <2>4, <2>5, <2>6 DEF DInv
<1>2. ASSUME NEW w \in Worker, Tell(w) PROVE DInv'
  <2>1. /\ job[w].at = "tell" /\ job'[w].at = "end"
        /\ job'[w].kind = job[w].kind /\ job'[w].ok = job[w].ok
        /\ \A v \in Worker \ {w} : job'[v] = job[v]
    BY <1>0, <1>2, TellJob
  <2>2. UNCHANGED <<delayed, mNetworkAvailable, pending, mPeriodicTimeInjection, mSupportsXtra, need>>
    BY <1>2 DEF Tell
  <2>3. PICK m \in Message : queue' = Append(queue, m)
    BY <1>0, <1>2, TellJob, AppendFacts DEF TypeInv
  <2>4. DoneIsDone'
    BY <2>1, <2>2 DEF DInv, DoneIsDone
  <2>5. Supported'
    BY <2>1, <2>2 DEF DInv, Supported
  <2>6. ASSUME NEW k \in Kind PROVE Retained(k)'
    <3>1. WillAsk(k) => WillAsk(k)'
      BY <2>1 DEF WillAsk
    <3>2. Asked(k) => Asked(k)'
      BY <1>0, <2>2, <2>3, AskedAppend
    <3> QED
      BY <2>2, <3>1, <3>2 DEF DInv, Retained, STATE_PENDING_NETWORK
  <2> QED
    BY <2>4, <2>5, <2>6 DEF DInv
<1>3. ASSUME NEW w \in Worker, End(w) PROVE DInv'
  <2>1. /\ job[w].kind \in Kind /\ job[w].at = "end" /\ job[w].ok \in BOOLEAN
        /\ job'[w] = Free
        /\ \A v \in Worker \ {w} : job'[v] = job[v]
    BY <1>0, <1>3, EndJob
  <2>2. UNCHANGED <<queue, mNetworkAvailable, pending, mPeriodicTimeInjection, mSupportsXtra, need>>
    BY <1>3 DEF End
  <2>3. \A k \in Kind :
          /\ delayed[k] \in Nat
          /\ delayed'[k] = IF k = job[w].kind /\ Again(w) THEN delayed[k] + 1 ELSE delayed[k]
    <3>1. delayed \in [Kind -> Nat]
      BY <1>0 DEF TypeInv
    <3>2. delayed' = [delayed EXCEPT ![job[w].kind] = @ + IF Again(w) THEN 1 ELSE 0]
      BY <1>3 DEF End
    <3> QED
      BY <3>1, <3>2
  <2>4. DoneIsDone'
    BY <2>1, <2>2, FreeFacts DEF DInv, DoneIsDone
  <2>5. Supported'
    BY <2>1, <2>2, FreeFacts DEF DInv, Supported
  <2>6. ASSUME NEW k \in Kind PROVE Retained(k)'
    <3> SUFFICES ASSUME need[k], k = "ntp" => mPeriodicTimeInjection PROVE Retained(k)'
      BY <2>2 DEF Retained
    <3>1. WillAsk(k) => WillAsk(k)' \/ delayed'[k] > 0
      <4> SUFFICES ASSUME NEW v \in Worker, job[v].kind = k,
                          job[v].at = "get" \/ k = "ntp" \/ ~job[v].ok
                   PROVE  WillAsk(k)' \/ delayed'[k] > 0
        BY DEF WillAsk
      <4>1. CASE v = w
        <5>1. Again(w)
          BY <2>1, <4>1 DEF Again
        <5> QED
          BY <2>3, <4>1, <5>1
      <4>2. CASE v # w
        BY <2>1, <4>2 DEF WillAsk
      <4> QED
        BY <4>1, <4>2
    <3>2. Asked(k) => Asked(k)'
      BY <2>2 DEF Asked, Ask, Finished, STATE_DOWNLOADING
    <3>3. delayed[k] > 0 => delayed'[k] > 0
      BY <2>3
    <3> QED
      BY <2>2, <3>1, <3>2, <3>3 DEF DInv, Retained, STATE_PENDING_NETWORK
  <2> QED
    BY <2>4, <2>5, <2>6 DEF DInv
<1>4. ASSUME NEW j \in Kind, Due(j) PROVE DInv'
  <2>1. UNCHANGED <<mNetworkAvailable, pending, mPeriodicTimeInjection, mSupportsXtra, job, need>>
    BY <1>4 DEF Due
  <2>2. PICK m \in Message : m.what = Ask(j) /\ queue' = Append(queue, m)
    <3>1. Uncounted(Ask(j), FALSE) \in Message /\ Uncounted(Ask(j), FALSE).what = Ask(j)
      BY AskFacts, PlainMessages DEF Uncounted
    <3> QED
      BY <1>4, <3>1 DEF Due, Broadcast
  <2>3. \A k \in Kind \ {j} : delayed'[k] = delayed[k]
    BY <1>0, <1>4 DEF Due, TypeInv
  <2>4. DoneIsDone' /\ Supported'
    BY <2>1 DEF DInv, DoneIsDone, Supported
  <2>5. ASSUME NEW k \in Kind PROVE Retained(k)'
    <3>1. WillAsk(k) => WillAsk(k)'
      BY <2>1 DEF WillAsk
    <3>2. Asked(k) => Asked(k)'
      BY <1>0, <2>1, <2>2, AskedAppend
    <3>3. CASE k # j
      BY <2>1, <2>3, <3>1, <3>2, <3>3 DEF DInv, Retained, STATE_PENDING_NETWORK
    <3>4. CASE k = j
      <4> SUFFICES ASSUME need[k], ~WillAsk(k) PROVE Asked(k)'
        BY <2>1, <3>1 DEF Retained
      <4>1. pending'[k] = STATE_DOWNLOADING => \E i \in DOMAIN queue : queue[i].what = Finished(k)
        BY <1>0, <2>1, AskedOrWillAsk
      <4> QED
        BY <1>0, <2>2, <3>4, <4>1, AskedNow
    <3> QED
      BY <3>3, <3>4
  <2> QED
    BY <2>4, <2>5 DEF DInv
<1> QED
  BY <1>1, <1>2, <1>3, <1>4 DEF Work

LEMMA NextDInv == TInv /\ BInv /\ DInv /\ [Next]_vars => DInv'
<1> SUFFICES ASSUME TInv, BInv, DInv, [Next]_vars PROVE DInv'
  OBVIOUS
<1>1. CASE UNCHANGED vars
  BY <1>1 DEF vars, downloadVars, DInv, DoneIsDone, Supported, Retained, Asked, WillAsk, Ask,
              Finished, STATE_DOWNLOADING, STATE_PENDING_NETWORK
<1>2. CASE Next
  BY <1>2, NextSteps, ProviderDInv, DownloadDInv, WorkDInv
<1> QED
  BY <1>1, <1>2

LEMMA InitDInv == Init => DInv
BY FreeFacts DEF Init, DownloadInit, DInv, DoneIsDone, Supported, Retained, Kind

LEMMA AlwaysDInv == Spec => []DInv
BY InitDInv, NextDInv, AlwaysTInv, AlwaysBInv, PTL DEF Spec

(* A download that handleDownloadXtraData accepted, or handleInjectNtpTime while    *)
(* the time is injected periodically, is not forgotten, however often it fails and  *)
(* whatever the network does: until it is done there is something that comes back   *)
(* to it.                                                                           *)
THEOREM DownloadNeverForgotten == Spec => []DownloadNotForgotten
<1>1. DInv => DownloadNotForgotten
  BY DEF DInv, Retained, Asked, WillAsk, DownloadNotForgotten
<1> QED
  BY <1>1, AlwaysDInv, PTL
-----------------------------------------------------------------------------
(* Navigating.                                                             *)

\* What an alarm has left stays in the queue until the handler takes it up.
LEMMA LeftStays ==
    ASSUME TInv, [Next]_vars, ~onAlarmWakeup
    PROVE  WakeupLeft => WakeupLeft'
<1>0. TypeInv
  BY DEF TInv
<1>1. CASE queue' = queue
  BY <1>1 DEF WakeupLeft
<1>2. ASSUME NEW m \in Message, queue' = Append(queue, m), WakeupLeft PROVE WakeupLeft'
  BY <1>0, <1>2, AppendAt DEF WakeupLeft
<1>3. ASSUME NEW p \in Seq(Message), queue # << >>, queue' = Tail(queue) \o p,
             Head(queue).what # "ALARM_WAKEUP", WakeupLeft
      PROVE  WakeupLeft'
  BY <1>0, <1>3, TailAt DEF WakeupLeft
<1>4. ASSUME NEW p \in Seq(Message), queue # << >>, NEW n, Handled(p, n),
             Head(queue).what # "ALARM_WAKEUP", WakeupLeft
      PROVE  WakeupLeft'
  BY <1>3, <1>4 DEF Handled
<1>5. CASE ProviderStep
  <2>1. ASSUME queue # << >>, Head(queue).what # "ALARM_WAKEUP", queue' = Tail(queue), WakeupLeft
        PROVE  WakeupLeft'
    <3>2. << >> \in Seq(Message) /\ queue' = Tail(queue) \o << >>
      <4>1. Tail(queue) \in Seq(Message)
        BY <1>0, <2>1, HeadTailFacts DEF TypeInv
      <4>2. Tail(queue) \o << >> = Tail(queue)
        BY <4>1
      <4> QED
        BY <2>1, <4>2, SeqFacts
    <3> QED
      BY <1>3, <2>1, <3>2
  <2> QED
    BY <1>1, <1>2, <1>5, <2>1, ProviderQueue
<1>6. CASE HandleDownload
  <2>1. Head(queue).what # "ALARM_WAKEUP" /\ queue # << >>
    BY <1>6 DEF HandleDownload, onConnectivityChange, handleUpdateNetworkState, handleDownload,
                handleFinished, Is, Ask, Finished
  <2>2. \E p \in Seq(Message) : queue' = Tail(queue) \o p
    BY <1>0, <1>6, DownloadQueue
  <2> QED
    BY <1>3, <2>1, <2>2
<1>7. CASE Work \/ \E k \in Kind : Due(k)
  <2>1. queue' = queue \/ \E m \in Message : queue' = Append(queue, m)
    BY <1>0, <1>7, WorkQueue
  <2> QED
    BY <1>1, <1>2, <2>1
<1> QED
  BY <1>1, <1>5, <1>6, <1>7, NextSteps DEF vars, downloadVars

LEMMA GotoEffect ==
    ASSUME TypeInv, NEW t \in Thread, NEW l, Goto(t, l)
    PROVE  pc'[t] = l /\ \A u \in Thread \ {t} : pc'[u] = pc[u]
BY DEF TypeInv, Goto

LEMMA ThenEffect ==
    ASSUME TypeInv, NEW t \in Thread, NEW l, then' = [then EXCEPT ![t] = l]
    PROVE  then'[t] = l /\ \A u \in Thread \ {t} : then'[u] = then[u]
BY DEF TypeInv

LEMMA HandlerGoto ==
    ASSUME TInv, NEW l, Goto(Handler, l)
    PROVE  pc'[Handler] = l /\ pc'[Engine] = pc[Engine]
BY GotoEffect, ThreadFacts DEF TInv

LEMMA EngineGoto ==
    ASSUME TInv, NEW l, Goto(Engine, l)
    PROVE  pc'[Engine] = l /\ pc'[Handler] = pc[Handler]
BY GotoEffect, ThreadFacts DEF TInv

\* The parts of the invariant, for the two threads.
LEMMA Threads ==
    /\ (\E t \in Thread : pc[t] = "stopping")
         <=> pc[Handler] = "stopping" \/ pc[Engine] = "stopping"
    /\ (\A t \in Thread : pc[t] = "stopping" => ~mStarted)
         <=> (pc[Handler] = "stopping" \/ pc[Engine] = "stopping" => ~mStarted)
    /\ (\E t \in Thread : WillHibernate(t)) <=> WillHibernate(Handler) \/ WillHibernate(Engine)
BY DEF Thread

LEMMA ThreadsPrimed ==
    /\ (\E t \in Thread : pc'[t] = "stopping")
         <=> pc'[Handler] = "stopping" \/ pc'[Engine] = "stopping"
    /\ (\A t \in Thread : pc'[t] = "stopping" => ~mStarted')
         <=> (pc'[Handler] = "stopping" \/ pc'[Engine] = "stopping" => ~mStarted')
    /\ (\E t \in Thread : WillHibernate(t)') <=> WillHibernate(Handler)' \/ WillHibernate(Engine)'
BY DEF Thread

navigating == <<pc, then, cur, mProviderRequest, wanted, stale, engine, mStarted, mSingleShot>>

\* Nothing about navigating changes, but that an alarm may go off.
LEMMA NavigatingStays ==
    ASSUME NInv, UNCHANGED navigating,
           mWakeupIntent \/ WakeupLeft => mWakeupIntent' \/ WakeupLeft'
    PROVE  NInv'
<1> USE DEF navigating
<1>1. Purpose'
  BY DEF NInv, Purpose
<1>2. EngineInStep => EngineInStep'
  BY DEF EngineInStep, Starting
<1>3. SingleInStep => SingleInStep'
  BY DEF SingleInStep
<1>4. Resumes => Resumes'
  BY DEF Resumes, WillHibernate
<1> QED
  BY <1>1, <1>2, <1>3, <1>4 DEF NInv

\* Calls, alarms, and what else the handler does with messages.
LEMMA CallNInv ==
    ASSUME TInv, NInv, WakeupLeft => WakeupLeft',
           Call \/ WakeupAlarm \/ TimeoutAlarm \/ \E ok \in BOOLEAN : handleEnable(ok)
    PROVE  NInv'
<1> USE DEF navigating, requestVars, sessionVars, threadVars, ghostVars
<1>1. CASE WakeupAlarm
  <2>1. WakeupLeft'
    <3>1. TypeInv /\ "ALARM_WAKEUP" \in What
      BY DEF TInv, What
    <3>2. /\ Uncounted("ALARM_WAKEUP", FALSE) \in Message
          /\ Uncounted("ALARM_WAKEUP", FALSE).what = "ALARM_WAKEUP"
      BY <3>1, PlainMessages DEF Uncounted
    <3>3. queue' = Append(queue, Uncounted("ALARM_WAKEUP", FALSE))
      BY <1>1 DEF WakeupAlarm, Broadcast
    <3> QED
      BY <3>1, <3>2, <3>3, AppendAt DEF WakeupLeft
  <2> QED
    BY <1>1, <2>1, NavigatingStays DEF WakeupAlarm
<1>2. CASE TimeoutAlarm
  BY <1>2, NavigatingStays DEF TimeoutAlarm
<1>3. CASE \E ok \in BOOLEAN : handleEnable(ok)
  BY <1>3, NavigatingStays DEF handleEnable, alarmVars
<1>4. CASE Call
  <2>1. UNCHANGED <<navigating, mWakeupIntent>>
    BY <1>4 DEF Call, restOfProvider, alarmVars, SetEnabled, setRequest
  <2> QED
    BY <2>1, NavigatingStays
<1> QED
  BY <1>1, <1>2, <1>3, <1>4

\* The handler takes up a message that starts or stops navigating.
LEMMA DisableNInv ==
    ASSUME TInv, NInv, WakeupLeft => WakeupLeft', handleDisable
    PROVE  NInv'
<1>1. /\ Begun("stop") /\ then' = [then EXCEPT ![Handler] = "cancel"] /\ wanted' = "no"
      /\ UNCHANGED <<sessionVars, stale>> /\ pc[Handler] = "idle"
  BY DEF handleDisable, HandlerIs
<1>2. pc'[Handler] = "stop" /\ pc'[Engine] = pc[Engine]
  BY <1>1, HandlerGoto DEF Begun
<1>3. then'[Engine] = then[Engine]
  BY <1>1, ThenEffect, ThreadFacts DEF TInv
<1> QED
  BY <1>1, <1>2, <1>3, Threads, ThreadsPrimed
     DEF NInv, Purpose, EngineInStep, SingleInStep, Resumes, Starting, sessionVars

LEMMA TimeoutNInv ==
    ASSUME TInv, NInv, WakeupLeft => WakeupLeft', onAlarmTimeout
    PROVE  NInv'
<1>1. /\ Begun("stop") /\ then' = [then EXCEPT ![Handler] = "hibernate"]
      /\ UNCHANGED <<sessionVars, alarmVars, ghostVars>> /\ pc[Handler] = "idle"
  BY DEF onAlarmTimeout, HandlerIs
<1>2. pc'[Handler] = "stop" /\ pc'[Engine] = pc[Engine]
  BY <1>1, HandlerGoto DEF Begun
<1>3. then'[Handler] = "hibernate" /\ then'[Engine] = then[Engine]
  BY <1>1, ThenEffect, ThreadFacts DEF TInv
<1>4. WillHibernate(Handler)'
  BY <1>2, <1>3 DEF WillHibernate
<1> QED
  BY <1>1, <1>2, <1>3, <1>4, Threads, ThreadsPrimed
     DEF NInv, Purpose, EngineInStep, SingleInStep, Resumes, Starting, sessionVars, ghostVars

LEMMA WakeupNInv ==
    ASSUME TInv, NInv, onAlarmWakeup
    PROVE  NInv'
<1>1. /\ Begun("start") /\ cur' = Head(queue) /\ Head(queue).what = "ALARM_WAKEUP"
      /\ UNCHANGED <<sessionVars, alarmVars, ghostVars, then>> /\ pc[Handler] = "idle"
  BY DEF onAlarmWakeup, HandlerIs, Is, Begun
<1>2. pc'[Handler] = "start" /\ pc'[Engine] = pc[Engine]
  BY <1>1, HandlerGoto DEF Begun
<1> QED
  BY <1>1, <1>2, Threads, ThreadsPrimed
     DEF NInv, Purpose, EngineInStep, SingleInStep, Resumes, Starting, sessionVars, ghostVars

\* A new request, or a change of power saving.
LEMMA UpdateNInv ==
    ASSUME TInv, NInv, WakeupLeft => WakeupLeft', pc[Handler] = "idle",
           Head(queue).what # "ALARM_WAKEUP",
           NEW disable, updateRequirements(mProviderRequest', disable),
           UNCHANGED <<sessionVars, alarmVars, stale>>
    PROVE  NInv'
<1> DEFINE r == mProviderRequest'
<1> USE DEF sessionVars, alarmVars
<1>1. CASE r = NoRequest
  <2>1. UNCHANGED <<pc, then, cur, wanted>>
    BY <1>1 DEF updateRequirements, threadVars
  <2> QED
    BY <2>1 DEF NInv, Purpose, EngineInStep, SingleInStep, Resumes, Starting, WillHibernate
<1>2. CASE r # NoRequest /\ (~r.report \/ disable)
  <2>1. Begun("stop") /\ then' = [then EXCEPT ![Handler] = "cancel"] /\ wanted' = "no"
    BY <1>2 DEF updateRequirements
  <2>2. pc'[Handler] = "stop" /\ pc'[Engine] = pc[Engine]
    BY <2>1, HandlerGoto DEF Begun
  <2>3. then'[Engine] = then[Engine]
    BY <2>1, ThenEffect, ThreadFacts DEF TInv
  <2> QED
    BY <2>1, <2>2, <2>3, Threads, ThreadsPrimed
       DEF NInv, Purpose, EngineInStep, SingleInStep, Resumes, Starting
<1>3. CASE ~(r = NoRequest) /\ ~(r # NoRequest /\ (~r.report \/ disable))
  <2>1. /\ wanted' = IF r.single \/ (mStarted /\ mSingleShot) THEN "single" ELSE "periodic"
        /\ \/ mStarted /\ UNCHANGED <<pc, then, cur>>
           \/ ~mStarted /\ Begun("start") /\ UNCHANGED then
    BY <1>3 DEF updateRequirements, threadVars
  <2>2. CASE mStarted /\ UNCHANGED <<pc, then, cur>>
    BY <2>1, <2>2 DEF NInv, Purpose, EngineInStep, SingleInStep, Resumes, Starting
  <2>3. CASE ~mStarted /\ Begun("start") /\ UNCHANGED then
    <3>1. pc'[Handler] = "start" /\ pc'[Engine] = pc[Engine]
      BY <2>3, HandlerGoto DEF Begun
    <3> QED
      BY <2>1, <2>3, <3>1, Threads, ThreadsPrimed
         DEF NInv, Purpose, EngineInStep, SingleInStep, Resumes, Starting
  <2> QED
    BY <2>1, <2>2, <2>3
<1> QED
  BY <1>1, <1>2, <1>3

LEMMA RequestNInv ==
    ASSUME TInv, NInv, WakeupLeft => WakeupLeft', handleSetRequest \/ updateLowPowerMode
    PROVE  NInv'
<1>1. /\ pc[Handler] = "idle" /\ Head(queue).what # "ALARM_WAKEUP"
      /\ UNCHANGED <<sessionVars, alarmVars, stale>>
  BY DEF handleSetRequest, updateLowPowerMode, HandlerIs, Is
<1>2. CASE \E disable : updateRequirements(mProviderRequest', disable)
  BY <1>1, <1>2, UpdateNInv
<1>3. CASE UNCHANGED <<threadVars, wanted, mProviderRequest>>
  BY <1>1, <1>3, NavigatingStays DEF navigating, threadVars, sessionVars, alarmVars
<1>4. \/ \E disable : updateRequirements(mProviderRequest', disable)
      \/ UNCHANGED <<threadVars, wanted, mProviderRequest>>
  <2>1. CASE handleSetRequest
    BY <2>1 DEF handleSetRequest
  <2>2. CASE updateLowPowerMode
    <3>1. mProviderRequest' = mProviderRequest
      BY <2>2 DEF updateLowPowerMode
    <3>2. \/ updateRequirements(mProviderRequest, mDisableGps')
          \/ UNCHANGED <<threadVars, wanted>>
      BY <2>2 DEF updateLowPowerMode
    <3> QED
      BY <3>1, <3>2
  <2> QED
    BY <2>1, <2>2
<1> QED
  BY <1>2, <1>3, <1>4

\* The handler starts navigating.
LEMMA StartNInv ==
    ASSUME TInv, NInv, WakeupLeft => WakeupLeft', startNavigating
    PROVE  NInv'
<1>0. pc[Handler] = "start" /\ UNCHANGED <<requestVars, engine, mWakeupIntent, then, wanted>>
  BY DEF startNavigating, alarmVars
<1> USE DEF requestVars
<1>1. CASE mStarted
  <2>1. Done /\ UNCHANGED <<mStarted, mSingleShot, stale>>
    BY <1>1 DEF startNavigating
  <2>2. pc'[Handler] = "idle" /\ pc'[Engine] = pc[Engine]
    BY <2>1, HandlerGoto DEF Done
  <2> QED
    BY <1>0, <1>1, <2>1, <2>2, Threads, ThreadsPrimed
       DEF NInv, Purpose, EngineInStep, SingleInStep, Resumes, Starting
<1>2. CASE ~mStarted
  <2>1. /\ mStarted' /\ (stale' <=> stale \/ pc[Engine] # "idle") /\ Goto(Handler, "mode")
        /\ mSingleShot' = (cur.what # "ALARM_WAKEUP" /\ mProviderRequest.single)
    BY <1>2 DEF startNavigating
  <2>2. pc'[Handler] = "mode" /\ pc'[Engine] = pc[Engine]
    BY <2>1, HandlerGoto
  <2>3. Purpose'
    BY <2>2 DEF Purpose
  <2>4. ASSUME ~stale' PROVE EngineInStep' /\ SingleInStep' /\ Resumes'
    <3>1. ~stale /\ pc[Engine] = "idle" /\ EngineInStep
      BY <2>1, <2>4 DEF NInv
    <3>2. ~engine
      BY <1>0, <1>2, <3>1, Threads DEF EngineInStep
    <3>3. mSingleShot' => wanted # "periodic"
      BY <1>0, <2>1 DEF NInv, Purpose
    <3> QED
      BY <1>0, <2>1, <2>2, <3>1, <3>2, <3>3, Threads, ThreadsPrimed
         DEF EngineInStep, SingleInStep, Resumes, Starting
  <2> QED
    BY <2>3, <2>4 DEF NInv
<1> QED
  BY <1>1, <1>2

LEMMA StartingNInv ==
    ASSUME TInv, NInv, WakeupLeft => WakeupLeft',
           StartFails \/ SetPositionMode \/ NativeStart \/ Started
    PROVE  NInv'
<1> USE Threads, ThreadsPrimed
    DEF NInv, Purpose, EngineInStep, SingleInStep, Resumes, Starting, requestVars, sessionVars,
        alarmVars, ghostVars
<1>1. CASE StartFails
  <2>1. Done /\ pc[Handler] \in {"mode", "engine"} /\ ~mStarted' /\ wanted' = "no"
        /\ UNCHANGED <<engine, then, stale>>
    BY <1>1 DEF StartFails
  <2>2. pc'[Handler] = "idle" /\ pc'[Engine] = pc[Engine]
    BY <2>1, HandlerGoto DEF Done
  <2> QED
    BY <2>1, <2>2
<1>2. CASE SetPositionMode
  <2>1. pc[Handler] = "mode" /\ Goto(Handler, "engine")
    BY <1>2 DEF SetPositionMode
  <2>2. pc'[Handler] = "engine" /\ pc'[Engine] = pc[Engine]
    BY <2>1, HandlerGoto
  <2> QED
    BY <1>2, <2>1, <2>2 DEF SetPositionMode, WillHibernate
<1>3. CASE NativeStart
  <2>1. pc[Handler] = "engine" /\ Goto(Handler, "started")
    BY <1>3 DEF NativeStart
  <2>2. pc'[Handler] = "started" /\ pc'[Engine] = pc[Engine]
    BY <2>1, HandlerGoto
  <2> QED
    BY <1>3, <2>1, <2>2 DEF NativeStart, WillHibernate
<1>4. CASE Started
  <2>1. pc[Handler] = "started" /\ Done /\ UNCHANGED mWakeupIntent
    BY <1>4 DEF Started
  <2>2. pc'[Handler] = "idle" /\ pc'[Engine] = pc[Engine]
    BY <2>1, HandlerGoto DEF Done
  <2> QED
    BY <1>4, <2>1, <2>2 DEF Started, WillHibernate
<1> QED
  BY <1>1, <1>2, <1>3, <1>4

\* Stopping and hibernating.
LEMMA CancelNInv ==
    ASSUME TInv, NInv, CancelAlarms
    PROVE  NInv'
<1>1. pc[Handler] = "cancel" /\ Done /\ UNCHANGED <<sessionVars, then, ghostVars>>
  BY DEF CancelAlarms
<1>2. pc'[Handler] = "idle" /\ pc'[Engine] = pc[Engine]
  BY <1>1, HandlerGoto DEF Done
<1>3. wanted # "periodic"
  BY <1>1 DEF NInv, Purpose
<1> QED
  BY <1>1, <1>2, <1>3, Threads, ThreadsPrimed
     DEF NInv, Purpose, EngineInStep, SingleInStep, Resumes, Starting, sessionVars, ghostVars

LEMMA HibernateNInv ==
    ASSUME TInv, NInv, NEW t \in Thread, Hibernate(t)
    PROVE  NInv'
<1>1. /\ pc[t] = "hibernate" /\ mWakeupIntent'
      /\ UNCHANGED <<requestVars, sessionVars, then, ghostVars>>
      /\ Goto(t, "idle") /\ (t # Handler => UNCHANGED cur)
  BY DEF Hibernate, Done
<1>2. pc'[t] = "idle" /\ \A u \in Thread \ {t} : pc'[u] = pc[u]
  BY <1>1, GotoEffect DEF TInv
<1>3. CASE t = Handler
  <2>1. pc'[Handler] = "idle" /\ pc'[Engine] = pc[Engine]
    BY <1>2, <1>3, ThreadFacts
  <2> QED
    BY <1>1, <1>3, <2>1, Threads, ThreadsPrimed
       DEF NInv, Purpose, EngineInStep, SingleInStep, Resumes, Starting, sessionVars, ghostVars
<1>4. CASE t = Engine
  <2>1. pc'[Engine] = "idle" /\ pc'[Handler] = pc[Handler] /\ UNCHANGED cur
    BY <1>1, <1>2, <1>4, ThreadFacts
  <2> QED
    BY <1>1, <1>4, <2>1, Threads, ThreadsPrimed
       DEF NInv, Purpose, EngineInStep, SingleInStep, Resumes, Starting, sessionVars, ghostVars,
           requestVars
<1> QED
  BY <1>3, <1>4 DEF Thread

LEMMA HandlerStopNInv ==
    ASSUME TInv, NInv, WakeupLeft => WakeupLeft',
           StopNothing(Handler) \/ stopNavigating(Handler) \/ NativeStop(Handler)
    PROVE  NInv'
<1>0. /\ UNCHANGED <<then, cur, mWakeupIntent, requestVars, ghostVars>>
      /\ pc[Handler] \in {"stop", "stopping"} /\ then[Handler] \in {"cancel", "hibernate"}
  BY DEF StopNothing, stopNavigating, NativeStop, alarmVars, TInv, Seated
<1> USE Threads, ThreadsPrimed DEF requestVars, ghostVars
<1>1. CASE StopNothing(Handler) \/ NativeStop(Handler)
  <2>1. /\ UNCHANGED <<mStarted, mSingleShot>> /\ Goto(Handler, then[Handler])
        /\ (pc[Handler] = "stop" /\ ~mStarted /\ engine' = engine)
           \/ (pc[Handler] = "stopping" /\ ~engine')
    BY <1>1 DEF StopNothing, NativeStop, sessionVars
  <2>2. pc'[Handler] = then[Handler] /\ pc'[Engine] = pc[Engine]
    BY <2>1, HandlerGoto
  <2>3. Purpose'
    BY <1>0, <2>2 DEF NInv, Purpose
  <2>4. ASSUME ~stale' PROVE EngineInStep' /\ SingleInStep' /\ Resumes'
    <3>1. EngineInStep'
      BY <1>0, <2>1, <2>2, <2>4 DEF NInv, EngineInStep, Starting
    <3>2. SingleInStep'
      BY <1>0, <2>1, <2>2, <2>4 DEF NInv, SingleInStep
    <3>3. Resumes'
      BY <1>0, <2>1, <2>2, <2>4 DEF NInv, Purpose, Resumes, WillHibernate
    <3> QED
      BY <3>1, <3>2, <3>3
  <2> QED
    BY <2>3, <2>4 DEF NInv
<1>2. CASE stopNavigating(Handler)
  <2>1. /\ pc[Handler] = "stop" /\ mStarted /\ ~mStarted' /\ ~mSingleShot' /\ engine' = engine
        /\ Goto(Handler, "stopping")
    BY <1>2 DEF stopNavigating
  <2>2. pc'[Handler] = "stopping" /\ pc'[Engine] = pc[Engine]
    BY <2>1, HandlerGoto
  <2>3. Purpose'
    BY <1>0, <2>1, <2>2 DEF NInv, Purpose
  <2>4. ASSUME ~stale' PROVE EngineInStep' /\ SingleInStep' /\ Resumes'
    <3>1. EngineInStep'
      BY <1>0, <2>1, <2>2, <2>4 DEF NInv, EngineInStep, Starting
    <3>2. SingleInStep'
      BY <1>0, <2>1, <2>2, <2>4 DEF NInv, SingleInStep
    <3>3. Resumes'
      BY <1>0, <2>1, <2>2, <2>4 DEF NInv, Purpose, Resumes, WillHibernate
    <3> QED
      BY <3>1, <3>2, <3>3
  <2> QED
    BY <2>3, <2>4 DEF NInv
<1> QED
  BY <1>1, <1>2

LEMMA EngineStopNInv ==
    ASSUME TInv, NInv, WakeupLeft => WakeupLeft',
           StopNothing(Engine) \/ stopNavigating(Engine) \/ NativeStop(Engine)
    PROVE  NInv'
<1>0. /\ UNCHANGED <<then, cur, mWakeupIntent, requestVars, ghostVars>>
      /\ pc[Engine] \in {"stop", "stopping"} /\ then[Engine] \in {"fixed", "hibernate"}
  BY DEF StopNothing, stopNavigating, NativeStop, alarmVars, TInv, Seated
<1> USE Threads, ThreadsPrimed DEF requestVars, ghostVars
<1>1. CASE StopNothing(Engine) \/ NativeStop(Engine)
  <2>1. /\ UNCHANGED <<mStarted, mSingleShot>> /\ Goto(Engine, then[Engine])
        /\ (pc[Engine] = "stop" /\ ~mStarted /\ engine' = engine)
           \/ (pc[Engine] = "stopping" /\ ~engine')
    BY <1>1 DEF StopNothing, NativeStop, sessionVars
  <2>2. pc'[Engine] = then[Engine] /\ pc'[Handler] = pc[Handler]
    BY <2>1, EngineGoto
  <2>3. Purpose'
    BY <1>0, <2>2 DEF NInv, Purpose
  <2>4. ASSUME ~stale' PROVE EngineInStep' /\ SingleInStep' /\ Resumes'
    <3>1. EngineInStep'
      BY <1>0, <2>1, <2>2, <2>4 DEF NInv, EngineInStep, Starting
    <3>2. SingleInStep'
      BY <1>0, <2>1, <2>2, <2>4 DEF NInv, SingleInStep
    <3>3. Resumes'
      <4>1. mStarted \/ then[Engine] = "fixed" \/ WillHibernate(Engine)'
        BY <1>0, <2>2 DEF WillHibernate
      <4>2. WillHibernate(Engine) => then[Engine] = "hibernate"
        BY <1>0 DEF WillHibernate
      <4>3. WillHibernate(Handler)' <=> WillHibernate(Handler)
        BY <1>0, <2>2 DEF WillHibernate
      <4> QED
        BY <1>0, <2>1, <2>2, <2>4, <4>1, <4>2, <4>3 DEF NInv, Resumes
    <3> QED
      BY <3>1, <3>2, <3>3
  <2> QED
    BY <2>3, <2>4 DEF NInv
<1>2. CASE stopNavigating(Engine)
  <2>1. /\ pc[Engine] = "stop" /\ mStarted /\ ~mStarted' /\ ~mSingleShot' /\ engine' = engine
        /\ Goto(Engine, "stopping")
    BY <1>2 DEF stopNavigating
  <2>2. pc'[Engine] = "stopping" /\ pc'[Handler] = pc[Handler]
    BY <2>1, EngineGoto
  <2>3. Purpose'
    BY <1>0, <2>1, <2>2 DEF NInv, Purpose
  <2>4. ASSUME ~stale' PROVE EngineInStep' /\ SingleInStep' /\ Resumes'
    <3>1. EngineInStep'
      BY <1>0, <2>1, <2>2, <2>4 DEF NInv, EngineInStep, Starting
    <3>2. SingleInStep'
      BY <1>0, <2>1, <2>2, <2>4 DEF NInv, SingleInStep
    <3>3. Resumes'
      <4>1. then[Engine] = "fixed" => wanted # "periodic"
        BY <1>0, <2>1, <2>4 DEF NInv, SingleInStep
      <4>2. then[Engine] = "hibernate" => WillHibernate(Engine)'
        BY <1>0, <2>2 DEF WillHibernate
      <4> QED
        BY <1>0, <4>1, <4>2 DEF Resumes
    <3> QED
      BY <3>1, <3>2, <3>3
  <2> QED
    BY <2>3, <2>4 DEF NInv
<1> QED
  BY <1>1, <1>2

\* The engine reports a location.
LEMMA ReportNInv ==
    ASSUME TInv, NInv, WakeupLeft => WakeupLeft',
           reportLocation \/ SingleShotDone \/ FirstFix \/ GotFix
    PROVE  NInv'
<1>0. /\ UNCHANGED <<cur, requestVars, ghostVars, mStarted, mSingleShot, engine, mWakeupIntent>>
      /\ pc[Engine] \in {"idle", "reported", "fixed", "available"}
      /\ pc[Engine] = "idle" => engine
  BY DEF reportLocation, SingleShotDone, FirstFix, GotFix, alarmVars, sessionVars
<1> USE Threads, ThreadsPrimed DEF requestVars, ghostVars
<1>1. \/ \E l \in {"idle", "reported", "fixed", "available"} : Goto(Engine, l) /\ then' = then
      \/ /\ Goto(Engine, "stop") /\ then' = [then EXCEPT ![Engine] = "fixed"] /\ mSingleShot
      \/ /\ Goto(Engine, "stop") /\ then' = [then EXCEPT ![Engine] = "hibernate"]
  BY DEF reportLocation, SingleShotDone, FirstFix, GotFix
<1>2. PICK l \in {"idle", "reported", "fixed", "available", "stop"} :
        /\ Goto(Engine, l) /\ then'[Handler] = then[Handler]
        /\ l = "stop" /\ then'[Engine] = "fixed" => mSingleShot
  <2>1. CASE \E l \in {"idle", "reported", "fixed", "available"} : Goto(Engine, l) /\ then' = then
    BY <2>1
  <2>2. CASE /\ Goto(Engine, "stop") /\ then' = [then EXCEPT ![Engine] = "fixed"] /\ mSingleShot
    BY <2>2, ThenEffect, ThreadFacts DEF TInv
  <2>3. CASE /\ Goto(Engine, "stop") /\ then' = [then EXCEPT ![Engine] = "hibernate"]
    <3>1. then'[Engine] = "hibernate" /\ then'[Handler] = then[Handler]
      BY <2>3, ThenEffect, ThreadFacts DEF TInv
    <3>2. then'[Engine] # "fixed"
      BY <3>1
    <3> QED
      BY <2>3, <3>1, <3>2
  <2> QED
    BY <1>1, <2>1, <2>2, <2>3
<1>3. pc'[Engine] = l /\ pc'[Handler] = pc[Handler]
  BY <1>2, EngineGoto
<1>4. Purpose'
  BY <1>0, <1>2, <1>3 DEF NInv, Purpose
<1>5. ASSUME ~stale' PROVE EngineInStep' /\ SingleInStep' /\ Resumes'
  <2>1. EngineInStep'
    BY <1>0, <1>3, <1>5 DEF NInv, EngineInStep, Starting
  <2>2. SingleInStep'
    BY <1>0, <1>2, <1>3, <1>5 DEF NInv, SingleInStep
  <2>3. Resumes'
    BY <1>0, <1>2, <1>3, <1>5 DEF NInv, Resumes, WillHibernate
  <2> QED
    BY <2>1, <2>2, <2>3
<1> QED
  BY <1>4, <1>5 DEF NInv

LEMMA NextNInv == TInv /\ NInv /\ [Next]_vars => NInv'
<1> SUFFICES ASSUME TInv, NInv, [Next]_vars PROVE NInv'
  OBVIOUS
<1>1. CASE onAlarmWakeup
  BY <1>1, WakeupNInv
<1>2. CASE ~onAlarmWakeup
  <2>1. WakeupLeft => WakeupLeft'
    BY <1>2, LeftStays
  <2>2. CASE UNCHANGED navigating /\ UNCHANGED mWakeupIntent
    BY <2>1, <2>2, NavigatingStays
  <2>3. CASE UNCHANGED vars \/ UNCHANGED restOfProvider
    BY <2>2, <2>3
       DEF vars, restOfProvider, navigating, requestVars, sessionVars, threadVars, ghostVars, alarmVars
  <2>4. CASE ProviderStep
    <3>1. CASE \E t \in Thread :
                 StopNothing(t) \/ stopNavigating(t) \/ NativeStop(t) \/ Hibernate(t)
      BY <2>1, <3>1, HibernateNInv, HandlerStopNInv, EngineStopNInv DEF Thread
    <3> QED
      BY <1>2, <2>1, <2>4, <3>1, CallNInv, DisableNInv, TimeoutNInv, RequestNInv, StartNInv,
         StartingNInv, CancelNInv, ReportNInv DEF ProviderStep
  <2> QED
    BY <2>3, <2>4, NextSteps
<1> QED
  BY <1>1, <1>2

LEMMA InitNInv == Init => NInv
BY ThreadFacts, Threads
   DEF Init, NInv, Purpose, EngineInStep, SingleInStep, Resumes, Starting, Thread

LEMMA AlwaysNInv == Spec => []NInv
BY InitNInv, NextNInv, AlwaysTInv, PTL DEF Spec

(* GpsLocationProvider.java, with the handler's thread and the engine's both starting *)
(* and stopping the engine: when both are at rest, and no report was under way when   *)
(* navigating began, the engine navigates exactly if mStarted says so, and periodic   *)
(* navigating that is wanted is on or an alarm will start it.                         *)
THEOREM NavigationNeverForgotten == Spec => []NavigationNotForgotten
<1>1. NInv => NavigationNotForgotten
  <2> SUFFICES ASSUME NInv, Quiet PROVE
         /\ engine <=> mStarted
         /\ wanted = "periodic" => mStarted \/ mWakeupIntent \/ WakeupLeft
    BY DEF NavigationNotForgotten, WakeupLeft
  <2>1. pc[Handler] = "idle" /\ pc[Engine] = "idle" /\ ~stale
    BY DEF Quiet
  <2> QED
    BY <2>1, Threads DEF NInv, EngineInStep, Resumes, Starting, WillHibernate
<1> QED
  BY <1>1, AlwaysNInv, PTL

=============================================================================
