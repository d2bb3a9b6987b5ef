-------------------------------- MODULE RilSap --------------------------------
(***************************************************************************)
(* The SAP socket of libril (RilSocket.cpp, RilSapSocket.cpp,              *)
(* rilSocketQueue.h): requests of the Bluetooth process to the SIM.        *)
(*                                                                         *)
(* The dispatch thread accepts one client at a time and starts a thread    *)
(* for it, which takes requests off dispatchQueue and hands them to the    *)
(* vendor's UIM functions; no such thread ever ends, so that those of      *)
(* earlier connections share the queue with the last.  A request the       *)
(* vendor holds is on pendingResponseQueue.  It is completed on a vendor   *)
(* thread, or on the requesting thread inside onRequest: the response is   *)
(* written to whatever commandFd is, the first entry with the same id and  *)
(* token leaves the queue and is freed, and then the message.              *)
(*                                                                         *)
(* Both queues have a mutex of their own, so that their operations are     *)
(* single steps.  write_lock is a variable.  commandFd is read and written *)
(* without a common lock.                                                  *)
(***************************************************************************)
EXTENDS Integers, FiniteSets, SequencesExt

CONSTANTS
    Fd,          \* descriptor numbers accept can return
    VThread,     \* threads of the vendor
    WThread,     \* WThread[c]: the thread started for connection c
    Dispatch,    \* the dispatch thread
    None,        \* nobody, no descriptor
    MaxConn,     \* bound on the connections clients make
    MaxMsg,      \* bound on the messages clients send
    TokenOf      \* TokenOf[m]: the message id and token client and code know m by

Conn == 1..MaxConn
Msg == 1..MaxMsg

\* The thread started for connection c is WThread[c].
Worker == {WThread[c] : c \in Conn}
Thread == VThread \cup Worker \cup {Dispatch}

ASSUME ThreadAssumption == Dispatch \notin VThread \cup Worker /\ VThread \cap Worker = {}
ASSUME WorkerAssumption == DOMAIN WThread = Conn /\ IsInjective(WThread)
ASSUME NoneAssumption == None \notin Fd \cup Thread \cup {"garbled"} /\ "garbled" \notin Thread
ASSUME BoundAssumption == MaxConn \in Nat /\ MaxMsg \in Nat
ASSUME TokenAssumption == DOMAIN TokenOf = Msg

VARIABLES
    dispatchQueue,         \* the messages to hand to the vendor, newest first
    pendingResponseQueue,  \* the SapSocketRequests, newest first
    alive,       \* the messages whose SapSocketRequest is allocated
    header,      \* the messages whose MsgHeader is allocated
    vendor,      \* the messages the vendor has to complete
    open,        \* open[f]: the connection descriptor f stands for, 0 when closed
    commandFd,
    cmdFd,       \* the descriptor callbackEvent watches
    listening,   \* listenEvent is in the watch table
    write_lock,  \* who holds it
    pc,          \* pc[t]: what thread t does next
    arg,         \* arg[t]: the message it works on, 0 for an unsolicited response
    wfd,         \* wfd[t]: the descriptor it writes to
    conns,       \* connections made so far; they are numbered from 1
    accepted,    \* the connection accepted last
    peer,        \* peer[c]: the client's end
    owner,       \* owner[m]: the connection message m was sent on
    taken,       \* messages read (or lost with their connection) so far
    half,        \* half[c]: who has written part of a response to c
    cleaned      \* connections whose end the vendor was told of

listVars == <<dispatchQueue, pendingResponseQueue, alive>>
queueVars == <<listVars, header, vendor>>
connVars == <<open, commandFd, cmdFd, listening>>
threadVars == <<pc, arg, wfd>>
clientVars == <<conns, accepted, peer, owner, taken>>
envVars == <<clientVars, half, cleaned>>
vars == <<queueVars, connVars, write_lock, threadVars, envVars>>

\* Where a thread goes on after a completion or an unsolicited response.
Base(t) == IF t \in Worker THEN "dequeue" ELSE "idle"

Goto(t, l) == pc' = [pc EXCEPT ![t] = l]
GotoWith(t, l, m) == Goto(t, l) /\ arg' = [arg EXCEPT ![t] = m] /\ UNCHANGED wfd

Up(f) == IF open[f] = 0 THEN FALSE ELSE peer[open[f]] = "up"

\* The connection accepted last has a whole record to read.
HasRecord == taken < Len(owner) /\ owner[taken + 1] = accepted

Init ==
    /\ dispatchQueue = <<>>
    /\ pendingResponseQueue = <<>>
    /\ alive = {} /\ header = {} /\ vendor = {}
    /\ open = [f \in Fd |-> 0]
    /\ commandFd = None
    /\ cmdFd = None
    /\ listening = TRUE
    /\ write_lock = None
    /\ pc = [t \in Thread |-> IF t \in Worker THEN "none"
                              ELSE IF t = Dispatch THEN "select" ELSE "idle"]
    /\ arg = [t \in Thread |-> 0]
    /\ wfd = [t \in Thread |-> None]
    /\ conns = 0
    /\ accepted = 0
    /\ peer = [c \in Conn |-> "none"]
    /\ owner = <<>>
    /\ taken = 0
    /\ half = [c \in Conn |-> None]
    /\ cleaned = {}

-----------------------------------------------------------------------------
(* Clients.                                                                *)

Connect ==
    /\ conns < MaxConn
    /\ \A c \in Conn : peer[c] # "up"
    /\ conns' = conns + 1
    /\ peer' = [peer EXCEPT ![conns + 1] = "up"]
    /\ UNCHANGED <<queueVars, connVars, write_lock, threadVars, accepted, owner, taken, half, cleaned>>

\* A client whose connection was closed at the other end can send no more.  It
\* uses an id and token once per connection.
ClientSend(c) ==
    /\ peer[c] = "up"
    /\ c > accepted \/ \E f \in Fd : open[f] = c
    /\ Len(owner) < MaxMsg
    /\ \A m \in DOMAIN owner : owner[m] = c => TokenOf[m] # TokenOf[Len(owner) + 1]
    /\ owner' = Append(owner, c)
    /\ UNCHANGED <<queueVars, connVars, write_lock, threadVars, conns, accepted, peer, taken, half, cleaned>>

ClientClose(c) ==
    /\ peer[c] = "up"
    /\ peer' = [peer EXCEPT ![c] = "down"]
    /\ UNCHANGED <<queueVars, connVars, write_lock, threadVars, conns, accepted, owner, taken, half, cleaned>>

-----------------------------------------------------------------------------
(* Ril_queue.                                                              *)

\* Adds at the front, and wakes every thread that waits for the queue.
enqueue(q, m) == <<m>> \o q

Broadcast == [t \in Thread |-> IF pc[t] = "waiting" THEN "dequeue" ELSE pc[t]]

\* checkAndDequeue: the entries that may be the first with m's id and token; the
\* id is read through the entry's MsgHeader, of which nothing is known once freed.
Matching(m) ==
    LET q == pendingResponseQueue
        Same(i) == TokenOf[q[i]] = TokenOf[m]
    IN  {i \in DOMAIN q : Same(i) /\ \A j \in 1..(i - 1) : Same(j) => q[j] \notin header}

-----------------------------------------------------------------------------
(* The threads that process requests.                                      *)

\* dequeue: pthread_cond_wait in a loop.
Wait(t) ==
    /\ pc[t] = "dequeue"
    /\ dispatchQueue = <<>>
    /\ Goto(t, "waiting")
    /\ UNCHANGED <<queueVars, connVars, write_lock, arg, wfd, envVars>>

\* Mutant: two threads take the same request.
Dequeue_NotRemoved(t) ==
    /\ pc[t] = "dequeue"
    /\ dispatchQueue # <<>>
    /\ GotoWith(t, "dispatch", Head(dispatchQueue))
    /\ UNCHANGED <<queueVars, connVars, write_lock, envVars>>

Dequeue(t) ==
    /\ pc[t] = "dequeue"
    /\ dispatchQueue # <<>>
    /\ dispatchQueue' = Tail(dispatchQueue)
    /\ GotoWith(t, "dispatch", Head(dispatchQueue))
    /\ UNCHANGED <<pendingResponseQueue, alive, header, vendor, connVars, write_lock, envVars>>

\* dispatchRequest, up to the call of onRequest.
dispatchRequest(t) ==
    /\ pc[t] = "dispatch"
    /\ alive' = alive \cup {arg[t]}
    /\ pendingResponseQueue' = enqueue(pendingResponseQueue, arg[t])
    /\ Goto(t, "onrequest")
    /\ UNCHANGED <<dispatchQueue, header, vendor, connVars, write_lock, arg, wfd, envVars>>

\* The vendor keeps the request, or completes it at once.
OnRequest(t) ==
    /\ pc[t] = "onrequest"
    /\ \/ vendor' = vendor \cup {arg[t]} /\ GotoWith(t, "dequeue", 0)
       \/ UNCHANGED <<vendor, arg, wfd>> /\ Goto(t, "complete")
    /\ UNCHANGED <<listVars, header, connVars, write_lock, envVars>>

-----------------------------------------------------------------------------
(* onRequestComplete and sendResponse.                                     *)

VendorComplete(t, m) ==
    /\ t \in VThread
    /\ pc[t] = "idle"
    /\ m \in vendor
    /\ vendor' = vendor \ {m}
    /\ GotoWith(t, "complete", m)
    /\ UNCHANGED <<listVars, header, connVars, write_lock, envVars>>

\* onUnsolicitedResponse (without a connection it changes nothing).
VendorUnsolicited(t) ==
    /\ t \in VThread
    /\ pc[t] = "idle"
    /\ commandFd # None
    /\ GotoWith(t, "lock", 0)
    /\ UNCHANGED <<queueVars, connVars, write_lock, envVars>>

\* A response without data is not sent.
onRequestComplete(t) ==
    /\ pc[t] = "complete"
    /\ pc' \in {[pc EXCEPT ![t] = l] : l \in {"lock", "remove"}}
    /\ UNCHANGED <<queueVars, connVars, write_lock, arg, wfd, envVars>>

\* Mutant: write_lock is not taken.
LockAndTest_NoMutex(t) ==
    /\ pc[t] = "lock"
    /\ Goto(t, IF commandFd = None THEN "unlock" ELSE "readfd")
    /\ UNCHANGED <<queueVars, connVars, write_lock, arg, wfd, envVars>>

\* sendResponse takes write_lock and tests commandFd,
LockAndTest(t) ==
    /\ pc[t] = "lock"
    /\ write_lock = None
    /\ write_lock' = t
    /\ Goto(t, IF commandFd = None THEN "unlock" ELSE "readfd")
    /\ UNCHANGED <<queueVars, connVars, arg, wfd, envVars>>

\* and reads it again for the write.
ReadCommandFd(t) ==
    /\ pc[t] = "readfd"
    /\ wfd' = [wfd EXCEPT ![t] = commandFd]
    /\ Goto(t, "write")
    /\ UNCHANGED <<queueVars, connVars, write_lock, arg, envVars>>

\* blockingWrite: write takes all or a part of the response,
CanWrite(t) == pc[t] \in {"write", "rest"} /\ wfd[t] # None /\ Up(wfd[t])

WriteSome(t) ==
    /\ CanWrite(t) /\ pc[t] = "write"
    /\ half' = [half EXCEPT ![open[wfd[t]]] = IF @ = None THEN t ELSE "garbled"]
    /\ Goto(t, "rest")
    /\ UNCHANGED <<queueVars, connVars, write_lock, arg, wfd, clientVars, cleaned>>

WriteRest(t) ==
    /\ CanWrite(t)
    /\ half' = [half EXCEPT ![open[wfd[t]]] = IF @ \in {None, t} THEN None ELSE "garbled"]
    /\ Goto(t, "unlock")
    /\ UNCHANGED <<queueVars, connVars, write_lock, arg, wfd, clientVars, cleaned>>

\* or fails, and the descriptor is closed, whatever it stands for by then.
WriteFails(t) ==
    /\ pc[t] \in {"write", "rest"}
    /\ ~CanWrite(t)
    /\ Goto(t, IF wfd[t] = None THEN "unlock" ELSE "broken")
    /\ UNCHANGED <<queueVars, connVars, write_lock, arg, wfd, envVars>>

CloseBroken(t) ==
    /\ pc[t] = "broken"
    /\ open' = [open EXCEPT ![wfd[t]] = 0]
    /\ Goto(t, "unlock")
    /\ UNCHANGED <<queueVars, commandFd, cmdFd, listening, write_lock, arg, wfd, envVars>>

Unlock(t) ==
    /\ pc[t] = "unlock"
    /\ write_lock' = None
    /\ Goto(t, IF arg[t] = 0 THEN "idle" ELSE "remove")
    /\ UNCHANGED <<queueVars, connVars, arg, wfd, envVars>>

\* Mutant: the last entry goes.
checkAndDequeue_Oldest(t) ==
    /\ pc[t] = "remove"
    /\ pendingResponseQueue # <<>>
    /\ alive' = alive \ {Last(pendingResponseQueue)}
    /\ pendingResponseQueue' = Front(pendingResponseQueue)
    /\ Goto(t, "free")
    /\ UNCHANGED <<dispatchQueue, header, vendor, connVars, write_lock, arg, wfd, envVars>>

\* The first entry with the same id and token is freed: by that, not by address.
checkAndDequeue(t) ==
    /\ pc[t] = "remove"
    /\ \/ \E i \in Matching(arg[t]) :
            /\ alive' = alive \ {pendingResponseQueue[i]}
            /\ pendingResponseQueue' = RemoveAt(pendingResponseQueue, i)
       \/ /\ \A i \in Matching(arg[t]) : pendingResponseQueue[i] \notin header
          /\ UNCHANGED <<alive, pendingResponseQueue>>
    /\ Goto(t, "free")
    /\ UNCHANGED <<dispatchQueue, header, vendor, connVars, write_lock, arg, wfd, envVars>>

FreeHeader(t) ==
    /\ pc[t] = "free"
    /\ header' = header \ {arg[t]}
    /\ GotoWith(t, Base(t), 0)
    /\ UNCHANGED <<dispatchQueue, pendingResponseQueue, alive, vendor, connVars, write_lock, envVars>>

-----------------------------------------------------------------------------
(* The dispatch thread.                                                    *)

\* The requests that are gone once connections up to c are closed.
SentUpTo(c) == Cardinality({m \in DOMAIN owner : owner[m] <= c})

\* The listen event is not persistent and leaves the watch table.
SelectListen ==
    /\ pc[Dispatch] = "select"
    /\ cmdFd # None => open[cmdFd] # 0
    /\ listening /\ accepted < conns
    /\ listening' = FALSE
    /\ Goto(Dispatch, "accept")
    /\ UNCHANGED <<queueVars, open, commandFd, cmdFd, write_lock, arg, wfd, envVars>>

SelectCommands ==
    /\ pc[Dispatch] = "select"
    /\ cmdFd # None
    /\ open[cmdFd] # 0
    /\ HasRecord \/ ~Up(cmdFd)
    /\ Goto(Dispatch, "read")
    /\ UNCHANGED <<queueVars, connVars, write_lock, arg, wfd, envVars>>

\* A closed descriptor in readFds: the process kills itself.
SelectFails ==
    /\ pc[Dispatch] = "select"
    /\ cmdFd # None
    /\ open[cmdFd] = 0
    /\ Goto(Dispatch, "killed")
    /\ UNCHANGED <<queueVars, connVars, write_lock, arg, wfd, envVars>>

\* listenCallback: accept fails.
AcceptFails ==
    /\ pc[Dispatch] = "accept"
    /\ listening' = TRUE
    /\ Goto(Dispatch, "select")
    /\ UNCHANGED <<queueVars, open, commandFd, cmdFd, write_lock, arg, wfd, envVars>>

\* The peer is not the Bluetooth process; the vendor is sent a disconnect all the same.
AcceptRefuses ==
    /\ pc[Dispatch] = "accept"
    /\ accepted' = accepted + 1
    /\ peer' = [peer EXCEPT ![accepted + 1] = "down"]
    /\ taken' = SentUpTo(accepted + 1)
    /\ cleaned' = cleaned \cup {accepted + 1}
    /\ listening' = TRUE
    /\ Goto(Dispatch, "select")
    /\ UNCHANGED <<queueVars, open, commandFd, cmdFd, write_lock, arg, wfd, conns, owner, half>>

\* onNewCommandConnect starts a thread.
AcceptBluetooth(f) ==
    /\ pc[Dispatch] = "accept"
    /\ open[f] = 0
    /\ accepted' = accepted + 1
    /\ open' = [open EXCEPT ![f] = accepted + 1]
    /\ commandFd' = f
    /\ cmdFd' = f
    /\ pc' = [pc EXCEPT ![Dispatch] = "select", ![WThread[accepted + 1]] = "dequeue"]
    /\ UNCHANGED <<queueVars, listening, write_lock, arg, wfd, conns, peer, owner, taken, half, cleaned>>

\* Mutant: no thread is woken.
pushRecord_NoBroadcast ==
    /\ pc[Dispatch] = "read"
    /\ HasRecord
    /\ taken' = taken + 1
    /\ header' = header \cup {taken + 1}
    /\ dispatchQueue' = enqueue(dispatchQueue, taken + 1)
    /\ UNCHANGED <<pendingResponseQueue, alive, vendor, connVars, write_lock, pc, arg, wfd, conns, accepted,
                   peer, owner, half, cleaned>>

pushRecord ==
    /\ pc[Dispatch] = "read"
    /\ HasRecord
    /\ taken' = taken + 1
    /\ header' = header \cup {taken + 1}
    /\ dispatchQueue' = enqueue(dispatchQueue, taken + 1)
    /\ pc' = Broadcast
    /\ UNCHANGED <<pendingResponseQueue, alive, vendor, connVars, write_lock, arg, wfd, conns, accepted,
                   peer, owner, half, cleaned>>

\* A record that cannot be decoded is dropped.
PushUndecodable ==
    /\ pc[Dispatch] = "read"
    /\ HasRecord
    /\ taken' = taken + 1
    /\ UNCHANGED <<queueVars, connVars, write_lock, threadVars, conns, accepted, peer, owner, half, cleaned>>

\* EAGAIN.
ReadNothing ==
    /\ pc[Dispatch] = "read"
    /\ ~HasRecord /\ Up(cmdFd)
    /\ Goto(Dispatch, "select")
    /\ UNCHANGED <<queueVars, connVars, write_lock, arg, wfd, envVars>>

\* End of stream, EBADF, or a record that is too large: close(commandFd),
CloseFd ==
    /\ pc[Dispatch] = "read"
    /\ HasRecord \/ ~Up(cmdFd)
    /\ open' = [open EXCEPT ![cmdFd] = 0]
    /\ taken' = SentUpTo(accepted)
    /\ Goto(Dispatch, "unset")
    /\ UNCHANGED <<queueVars, commandFd, cmdFd, listening, write_lock, arg, wfd, conns, accepted, peer, owner,
                   half, cleaned>>

\* commandFd = -1, the event deleted, listening again,
UnsetCommandFd ==
    /\ pc[Dispatch] = "unset"
    /\ commandFd' = None
    /\ cmdFd' = None
    /\ listening' = TRUE
    /\ Goto(Dispatch, "disconnect")
    /\ UNCHANGED <<queueVars, open, write_lock, arg, wfd, envVars>>

\* Mutant: the vendor is not told.
sendDisconnect_Skipped ==
    /\ pc[Dispatch] = "disconnect"
    /\ Goto(Dispatch, "select")
    /\ UNCHANGED <<queueVars, connVars, write_lock, arg, wfd, envVars>>

\* onCommandsSocketClosed: a disconnect goes to the vendor, past both queues.  Its
\* completion finds no socket with id 99 and frees what belongs to it.
sendDisconnect ==
    /\ pc[Dispatch] = "disconnect"
    /\ cleaned' = cleaned \cup {accepted}
    /\ Goto(Dispatch, "select")
    /\ UNCHANGED <<queueVars, connVars, write_lock, arg, wfd, clientVars, half>>

-----------------------------------------------------------------------------

WorkerStep(t) == Wait(t) \/ Dequeue(t) \/ dispatchRequest(t) \/ OnRequest(t)

CompleteStep(t) ==
    \/ onRequestComplete(t) \/ LockAndTest(t) \/ ReadCommandFd(t)
    \/ WriteSome(t) \/ WriteRest(t) \/ WriteFails(t) \/ CloseBroken(t) \/ Unlock(t)
    \/ checkAndDequeue(t) \/ FreeHeader(t)

VendorStep(t) == VendorUnsolicited(t) \/ \E m \in Msg : VendorComplete(t, m)

DispatchStep ==
    \/ SelectListen \/ SelectCommands \/ SelectFails
    \/ AcceptFails \/ AcceptRefuses \/ \E f \in Fd : AcceptBluetooth(f)
    \/ pushRecord \/ PushUndecodable \/ ReadNothing
    \/ CloseFd \/ UnsetCommandFd \/ sendDisconnect

ClientStep == Connect \/ \E c \in Conn : ClientSend(c) \/ ClientClose(c)

Running == pc[Dispatch] # "killed"

Next ==
    /\ Running
    /\ \/ \E t \in Worker : WorkerStep(t)
       \/ \E t \in Worker \cup VThread : CompleteStep(t)
       \/ \E t \in VThread : VendorStep(t)
       \/ DispatchStep \/ ClientStep

Spec == Init /\ [][Next]_vars

-----------------------------------------------------------------------------
(* Properties.                                                             *)

Completing == {"complete", "lock", "readfd", "write", "rest", "broken", "unlock", "remove"}

\* A message is in one place: on dispatchQueue, with the thread that dispatches or
\* completes it, or with the vendor; and its MsgHeader is allocated just as long.
HeaderOwnedOnce ==
    LET Queued(m) == {i \in DOMAIN dispatchQueue : dispatchQueue[i] = m}
        With(m) == {t \in Thread : arg[t] = m}
    IN  \A m \in Msg :
            Cardinality(Queued(m)) + Cardinality(With(m)) + Cardinality({m} \cap vendor)
                = Cardinality({m} \cap header)

\* pendingResponseQueue has exactly the requests that were given to the vendor and
\* not yet completed, once each, and they are allocated: tokens that differ keep
\* completions from freeing each other's request.
PendingIsOutstanding ==
    LET Outstanding == vendor \cup {arg[t] : t \in {u \in Thread : arg[u] # 0 /\ pc[u] \in Completing \cup {"onrequest"}}}
    IN  /\ ToSet(pendingResponseQueue) = Outstanding /\ alive = Outstanding
        /\ IsInjective(pendingResponseQueue)

\* sendResponse does an atomic write operation on the socket: no other response
\* comes between the parts of one.
FrameIntact == \A c \in Conn : half[c] # "garbled"

\* A thread waits for the queue only while it is empty.
NoIdleWorker == (\E t \in Worker : pc[t] = "waiting") => dispatchQueue = <<>>

\* Before the next client is accepted, the vendor has been sent the disconnect of
\* every earlier connection.
CleanedBeforeNext ==
    pc[Dispatch] = "accept" => 1..accepted \subseteq cleaned

\* dispatchRequest: SapSocketRequest will be deallocated in onRequestComplete().
\* It is still allocated when its own completion begins.
AliveUntilCompleted ==
    \A t \in Thread : pc[t] = "complete" => arg[t] \in alive

=============================================================================
