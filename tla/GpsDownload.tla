----------------------------- MODULE GpsDownload ------------------------------
(***************************************************************************)
(* GpsLocationProvider.java: the handler's queue, the wake lock that       *)
(* counts messages and workers, and the downloads of NTP time and XTRA     *)
(* data.                                                                   *)
(*                                                                         *)
(* Everybody leaves messages to one handler thread.  A message sent with   *)
(* sendMessage holds a count of the wake lock until it is handled; delayed *)
(* messages and broadcasts, which the same thread receives, hold none.  A  *)
(* download runs on a worker of the pool, which holds a count as well.     *)
(***************************************************************************)
EXTENDS Integers, FiniteSets, SequencesExt

CONSTANT Worker   \* the threads of the AsyncTask pool

VARIABLES
    queue,              \* the handler's messages and broadcasts, in order
    delayed,            \* delayed[k]: delayed requests for download k
    mWakeLock,          \* its count
    mNetworkAvailable,
    pending,            \* mInjectNtpTimePending and mDownloadXtraDataPending
    mPeriodicTimeInjection,
    mSupportsXtra,
    job,                \* what each worker does
    need                \* need[k]: a download was accepted, and not done since

downloadVars == <<queue, delayed, mWakeLock, mNetworkAvailable, pending,
                  mPeriodicTimeInjection, mSupportsXtra, job, need>>

Kind == {"ntp", "xtra"}

STATE_PENDING_NETWORK == 0
STATE_DOWNLOADING == 1
STATE_IDLE == 2

\* The messages that ask for download k, and that tell of its end.
Ask(k) == IF k = "ntp" THEN "INJECT_NTP_TIME" ELSE "DOWNLOAD_XTRA_DATA"
Finished(k) == IF k = "ntp" THEN "INJECT_NTP_TIME_FINISHED" ELSE "DOWNLOAD_XTRA_DATA_FINISHED"

Free == [kind |-> "none", at |-> "idle", ok |-> FALSE]

\* A message: what it is, its argument, and whether it holds the wake lock (arg2).
Counted(what, arg) == [what |-> what, arg |-> arg, arg2 |-> TRUE]
Uncounted(what, arg) == [what |-> what, arg |-> arg, arg2 |-> FALSE]

DownloadInit ==
    /\ queue = << >>
    /\ delayed = [k \in Kind |-> 0]
    /\ mWakeLock = 0
    /\ mNetworkAvailable = FALSE
    /\ pending = [k \in Kind |-> STATE_PENDING_NETWORK]
    /\ mPeriodicTimeInjection = FALSE
    /\ mSupportsXtra = FALSE
    /\ job = [w \in Worker |-> Free]
    /\ need = [k \in Kind |-> FALSE]

\* sendMessage, of several messages in a row.
SendAll(messages) ==
    /\ mWakeLock' = mWakeLock + Len(messages)
    /\ queue' = queue \o messages

sendMessage(what, arg) == SendAll(<<Counted(what, arg)>>)

\* A broadcast for the receiver, which runs on the handler's thread.
Broadcast(what, arg) ==
    /\ queue' = Append(queue, Uncounted(what, arg))
    /\ UNCHANGED mWakeLock

Is(what) == queue # << >> /\ Head(queue).what = what

\* Mutant: the wake lock is released whoever sent the message.
Release_Always(m) == 1

\* The end of handleMessage: what the message held.
Release(m) == IF m.arg2 THEN 1 ELSE 0

\* The head of the queue handled in one step, which sends messages and acquires
\* the wake lock so many times more.
Handled(messages, acquired) ==
    /\ queue' = Tail(queue) \o messages
    /\ mWakeLock' = mWakeLock + Len(messages) + acquired - Release(Head(queue))

\* The receiver hands a change of connectivity over as a message of its own.
onConnectivityChange ==
    /\ Is("CONNECTIVITY_CHANGE")
    /\ Handled(<<Counted("UPDATE_NETWORK_STATE", Head(queue).arg)>>, 0)
    /\ UNCHANGED <<delayed, mNetworkAvailable, pending, mPeriodicTimeInjection, mSupportsXtra,
                   job, need>>

\* handleUpdateNetworkState (without the AGPS connection): downloads that wait for
\* the network are asked for again.
handleUpdateNetworkState ==
    LET Again(k) == IF Head(queue).arg /\ pending[k] = STATE_PENDING_NETWORK
                    THEN <<Counted(Ask(k), FALSE)>> ELSE << >>
    IN  /\ Is("UPDATE_NETWORK_STATE")
        /\ mNetworkAvailable' = Head(queue).arg
        /\ Handled(Again("ntp") \o Again("xtra"), 0)
        /\ UNCHANGED <<delayed, pending, mPeriodicTimeInjection, mSupportsXtra, job, need>>

\* A download is ignored while one is running, waits for the network, or starts.
Ignored(k) ==
    /\ pending[k] = STATE_DOWNLOADING \/ (k = "xtra" /\ ~mSupportsXtra)
    /\ Handled(<< >>, 0)
    /\ UNCHANGED <<pending, job, need>>

Waits(k) ==
    /\ pending[k] # STATE_DOWNLOADING /\ (k = "xtra" => mSupportsXtra)
    /\ ~mNetworkAvailable
    /\ pending' = [pending EXCEPT ![k] = STATE_PENDING_NETWORK]
    /\ need' = [need EXCEPT ![k] = TRUE]
    /\ Handled(<< >>, 0)
    /\ UNCHANGED job

\* Mutant: the download is not marked as running.
Starts_Unmarked(k) ==
    /\ pending[k] # STATE_DOWNLOADING /\ (k = "xtra" => mSupportsXtra)
    /\ mNetworkAvailable
    /\ need' = [need EXCEPT ![k] = TRUE]
    /\ \E w \in Worker :
         job[w] = Free /\ job' = [job EXCEPT ![w] = [kind |-> k, at |-> "get", ok |-> FALSE]]
    /\ Handled(<< >>, 1)
    /\ UNCHANGED pending

Starts(k) ==
    /\ pending[k] # STATE_DOWNLOADING /\ (k = "xtra" => mSupportsXtra)
    /\ mNetworkAvailable
    /\ pending' = [pending EXCEPT ![k] = STATE_DOWNLOADING]
    /\ need' = [need EXCEPT ![k] = TRUE]
    /\ \E w \in Worker :
         job[w] = Free /\ job' = [job EXCEPT ![w] = [kind |-> k, at |-> "get", ok |-> FALSE]]
    /\ Handled(<< >>, 1)

\* handleInjectNtpTime and handleDownloadXtraData
handleDownload(k) ==
    /\ Is(Ask(k))
    /\ Ignored(k) \/ Waits(k) \/ Starts(k)
    /\ UNCHANGED <<delayed, mNetworkAvailable, mPeriodicTimeInjection, mSupportsXtra>>

handleFinished(k) ==
    /\ Is(Finished(k))
    /\ pending' = [pending EXCEPT ![k] = STATE_IDLE]
    /\ Handled(<< >>, 0)
    /\ UNCHANGED <<delayed, mNetworkAvailable, mPeriodicTimeInjection, mSupportsXtra, job, need>>

-----------------------------------------------------------------------------
(* A worker: it downloads and injects, or fails; tells the handler; asks   *)
(* for the next download, or for this one again, later; and releases the   *)
(* wake lock.                                                              *)

Get(w, ok) ==
    /\ job[w].at = "get"
    /\ job' = [job EXCEPT ![w].at = "tell", ![w].ok = ok]
    /\ need' = [need EXCEPT ![job[w].kind] = ~ok]
    /\ UNCHANGED <<queue, delayed, mWakeLock, mNetworkAvailable, pending,
                   mPeriodicTimeInjection, mSupportsXtra>>

Tell(w) ==
    /\ job[w].at = "tell"
    /\ job' = [job EXCEPT ![w].at = "end"]
    /\ sendMessage(Finished(job[w].kind), FALSE)
    /\ UNCHANGED <<delayed, mNetworkAvailable, pending, mPeriodicTimeInjection, mSupportsXtra, need>>

\* Mutant: what failed is not tried again.
End_NoRetry(w) ==
    /\ job[w].at = "end"
    /\ job' = [job EXCEPT ![w] = Free]
    /\ delayed' = [delayed EXCEPT ![job[w].kind] =
           @ + IF job[w].kind = "ntp" /\ mPeriodicTimeInjection THEN 1 ELSE 0]
    /\ mWakeLock' = mWakeLock - 1
    /\ UNCHANGED <<queue, mNetworkAvailable, pending, mPeriodicTimeInjection, mSupportsXtra, need>>

\* The time is asked for again in any case, if it is injected periodically.
Again(w) == IF job[w].kind = "ntp" THEN mPeriodicTimeInjection ELSE ~job[w].ok

End(w) ==
    /\ job[w].at = "end"
    /\ job' = [job EXCEPT ![w] = Free]
    /\ delayed' = [delayed EXCEPT ![job[w].kind] = @ + IF Again(w) THEN 1 ELSE 0]
    /\ mWakeLock' = mWakeLock - 1
    /\ UNCHANGED <<queue, mNetworkAvailable, pending, mPeriodicTimeInjection, mSupportsXtra, need>>

\* A delayed message is due.
Due(k) ==
    /\ delayed[k] > 0
    /\ delayed' = [delayed EXCEPT ![k] = @ - 1]
    /\ Broadcast(Ask(k), FALSE)
    /\ UNCHANGED <<mNetworkAvailable, pending, mPeriodicTimeInjection, mSupportsXtra, job, need>>

-----------------------------------------------------------------------------
(* Who asks for downloads.                                                 *)

\* sendExtraCommand("force_time_injection") of a client, or requestUtcTime of the
\* engine.
requestUtcTime ==
    /\ sendMessage("INJECT_NTP_TIME", FALSE)
    /\ UNCHANGED <<delayed, mNetworkAvailable, pending, mPeriodicTimeInjection, mSupportsXtra,
                   job, need>>

\* sendExtraCommand("force_xtra_injection") of a client, or the engine's request.
xtraDownloadRequest ==
    /\ mSupportsXtra
    /\ sendMessage("DOWNLOAD_XTRA_DATA", FALSE)
    /\ UNCHANGED <<delayed, mNetworkAvailable, pending, mPeriodicTimeInjection, mSupportsXtra,
                   job, need>>

\* The engine tells its capabilities: without GPS_CAPABILITY_ON_DEMAND_TIME the
\* time is injected periodically from now on.
setEngineCapabilities(onDemandTime) ==
    /\ mPeriodicTimeInjection' = (mPeriodicTimeInjection \/ ~onDemandTime)
    /\ IF mPeriodicTimeInjection' # mPeriodicTimeInjection
       THEN sendMessage("INJECT_NTP_TIME", FALSE)
       ELSE UNCHANGED <<queue, mWakeLock>>
    /\ UNCHANGED <<delayed, mNetworkAvailable, pending, mSupportsXtra, job, need>>

HandleDownload ==
    \/ onConnectivityChange \/ handleUpdateNetworkState
    \/ \E k \in Kind : handleDownload(k) \/ handleFinished(k)

Work == \E w \in Worker : (\E ok \in BOOLEAN : Get(w, ok)) \/ Tell(w) \/ End(w)

-----------------------------------------------------------------------------
(* Properties.                                                             *)

\* The message at hand, if one is, is counted until its handling ends.
CountOf(messages) == Cardinality({i \in DOMAIN messages : messages[i].arg2})
Working == {w \in Worker : job[w] # Free}

\* A download is marked as running exactly while one worker is on it, or has told
\* of its end and the handler has not read it: two workers would inject data
\* twice, and a mark left behind would refuse every later download.
Running(k) ==
    Cardinality({w \in Worker : job[w].kind = k /\ job[w].at \in {"get", "tell"}})
    + Cardinality({i \in DOMAIN queue : queue[i].what = Finished(k)})

BusyIffRunning ==
    \A k \in Kind : Running(k) = IF pending[k] = STATE_DOWNLOADING THEN 1 ELSE 0

\* A download that was accepted is done in the end, whatever fails: as long as it
\* is not, it is running, asked for in the queue or later, about to be asked for, or
\* waits for a network that is not there.  (The time is asked for again only if it
\* is injected periodically.)
DownloadNotForgotten ==
    \A k \in Kind :
        need[k] /\ (k = "ntp" => mPeriodicTimeInjection) =>
            \/ pending[k] = STATE_PENDING_NETWORK /\ ~mNetworkAvailable
            \/ \E i \in DOMAIN queue : queue[i].what = Ask(k)
            \/ delayed[k] > 0
            \/ \E w \in Worker : job[w].kind = k

=============================================================================
