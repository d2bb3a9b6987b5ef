----------------------------- MODULE RilSapProofs -----------------------------
(***************************************************************************)
(* Proofs about the SAP socket, for every set of descriptors and vendor    *)
(* threads, every number of connections (with a thread each) and messages, *)
(* and all tokens.                                                         *)
(*                                                                         *)
(* Nobody waits for a queue that holds a request; the vendor is told of    *)
(* every connection's end before the next is accepted; every message has   *)
(* one owner until its MsgHeader is freed; with tokens that differ, what   *)
(* is pending is what is outstanding; and frames stay whole, as follows.   *)
(*                                                                         *)
(* Frames stay whole although descriptors are closed and their numbers     *)
(* used again while a thread writes: half of a response on a connection    *)
(* that is still open was written by the thread that holds write_lock, to  *)
(* the descriptor it goes on with or is about to close; and connections    *)
(* that are closed are never open again.                                   *)
(***************************************************************************)
EXTENDS RilSap, FiniteSetTheorems, TLAPS

-----------------------------------------------------------------------------
(* The threads that process requests.                                      *)

\* The thread of a connection does nothing before the connection is accepted.
Unstarted == \A c \in Conn : c > accepted => pc[WThread[c]] = "none"

WInv ==
    /\ pc = [t \in Thread |-> pc[t]]
    /\ accepted \in Nat
    /\ Unstarted
    /\ NoIdleWorker

LEMMA DispatchThread == Dispatch \in Thread
BY DEF Thread

LEMMA WorkerThread == \A c \in Conn : WThread[c] \in Worker /\ WThread[c] \in Thread
BY DEF Worker, Thread

\* A thread that runs moves to a place where it does not wait.
LEMMA WorkerGoto ==
    ASSUME WInv, NEW t \in Thread, NEW l, Goto(t, l), pc[t] # "none", l # "waiting",
           UNCHANGED accepted,
           \/ UNCHANGED dispatchQueue
           \/ dispatchQueue # <<>>
    PROVE  WInv'
<1>1. /\ pc' = [u \in Thread |-> pc'[u]] /\ pc'[t] = l
      /\ \A u \in Thread : u # t => pc'[u] = pc[u]
    BY DEF WInv, Goto
<1>2. Unstarted'
    BY <1>1, WorkerThread DEF WInv, Unstarted
<1>3. NoIdleWorker'
    BY <1>1 DEF WInv, NoIdleWorker, Thread
<1> QED BY <1>1, <1>2, <1>3 DEF WInv

LEMMA WorkerStill ==
    ASSUME WInv, UNCHANGED <<pc, accepted, dispatchQueue>>
    PROVE  WInv'
BY DEF WInv, Unstarted, NoIdleWorker

LEMMA WorkerStepWInv ==
    ASSUME WInv, NEW t \in Worker, WorkerStep(t)
    PROVE  WInv'
<1> t \in Thread
    BY DEF Thread
<1>1. CASE Wait(t)
    <2>1. /\ pc[t] = "dequeue" /\ Goto(t, "waiting") /\ dispatchQueue = <<>>
          /\ UNCHANGED <<dispatchQueue, accepted>>
        BY <1>1 DEF Wait, queueVars, listVars, envVars, clientVars
    <2>2. /\ pc' = [u \in Thread |-> pc'[u]]
          /\ \A u \in Thread : u # t => pc'[u] = pc[u]
        BY <2>1 DEF WInv, Goto
    <2>3. Unstarted' /\ NoIdleWorker'
        BY <2>1, <2>2, WorkerThread DEF WInv, Unstarted, NoIdleWorker
    <2> QED BY <2>1, <2>2, <2>3 DEF WInv
<1>2. CASE Dequeue(t)
    BY <1>2, WorkerGoto DEF Dequeue, GotoWith, envVars, clientVars
<1>3. CASE dispatchRequest(t)
    BY <1>3, WorkerGoto DEF dispatchRequest, envVars, clientVars
<1>4. CASE OnRequest(t)
    BY <1>4, WorkerGoto DEF OnRequest, GotoWith, listVars, envVars, clientVars
<1> QED BY <1>1, <1>2, <1>3, <1>4 DEF WorkerStep

LEMMA CompleteStepWInv ==
    ASSUME WInv, NEW t \in Worker \cup VThread, CompleteStep(t)
    PROVE  WInv'
<1> USE DEF queueVars, listVars, envVars, clientVars
<1> t \in Thread
    BY DEF Thread
<1>1. CASE onRequestComplete(t)
    <2>1. PICK l \in {"lock", "remove"} : Goto(t, l)
        BY <1>1 DEF onRequestComplete, Goto
    <2> QED BY <1>1, <2>1, WorkerGoto DEF onRequestComplete
<1>2. CASE LockAndTest(t)
    BY <1>2, WorkerGoto DEF LockAndTest
<1>3. CASE ReadCommandFd(t)
    BY <1>3, WorkerGoto DEF ReadCommandFd
<1>4. CASE WriteSome(t)
    BY <1>4, WorkerGoto DEF WriteSome
<1>5. CASE WriteRest(t)
    BY <1>5, WorkerGoto DEF WriteRest, CanWrite
<1>6. CASE WriteFails(t)
    BY <1>6, WorkerGoto DEF WriteFails
<1>7. CASE CloseBroken(t)
    BY <1>7, WorkerGoto DEF CloseBroken
<1>8. CASE Unlock(t)
    BY <1>8, WorkerGoto DEF Unlock
<1>9. CASE checkAndDequeue(t)
    BY <1>9, WorkerGoto DEF checkAndDequeue
<1>10. CASE FreeHeader(t)
    BY <1>10, WorkerGoto DEF FreeHeader, GotoWith, Base
<1> QED BY <1>1, <1>2, <1>3, <1>4, <1>5, <1>6, <1>7, <1>8, <1>9, <1>10 DEF CompleteStep

LEMMA VendorStepWInv ==
    ASSUME WInv, NEW t \in VThread, VendorStep(t)
    PROVE  WInv'
<1> USE DEF queueVars, listVars, envVars, clientVars
<1> t \in Thread
    BY DEF Thread
<1>1. CASE VendorUnsolicited(t)
    BY <1>1, WorkerGoto DEF VendorUnsolicited, GotoWith
<1>2. CASE \E m \in Msg : VendorComplete(t, m)
    BY <1>2, WorkerGoto DEF VendorComplete, GotoWith
<1> QED BY <1>1, <1>2 DEF VendorStep

LEMMA DispatchStepWInv ==
    ASSUME WInv, DispatchStep
    PROVE  WInv'
<1> USE DispatchThread DEF queueVars, listVars, envVars, clientVars
<1>1. CASE SelectListen
    BY <1>1, WorkerGoto DEF SelectListen
<1>2. CASE SelectCommands
    BY <1>2, WorkerGoto DEF SelectCommands
<1>3. CASE SelectFails
    BY <1>3, WorkerGoto DEF SelectFails
<1>4. CASE AcceptFails
    BY <1>4, WorkerGoto DEF AcceptFails
<1>5. CASE AcceptRefuses
    <2>1. /\ pc' = [pc EXCEPT ![Dispatch] = "select"] /\ pc[Dispatch] = "accept"
          /\ accepted' = accepted + 1 /\ UNCHANGED dispatchQueue
        BY <1>5 DEF AcceptRefuses, Goto
    <2>2. /\ pc' = [u \in Thread |-> pc'[u]] /\ pc'[Dispatch] = "select"
          /\ \A u \in Thread : u # Dispatch => pc'[u] = pc[u]
        BY <2>1 DEF WInv
    <2>3. Unstarted'
        BY <2>1, <2>2, WorkerThread DEF WInv, Unstarted, Conn
    <2>4. NoIdleWorker'
        BY <2>1, <2>2 DEF WInv, NoIdleWorker, Thread
    <2> QED BY <2>1, <2>2, <2>3, <2>4 DEF WInv
<1>6. CASE \E f \in Fd : AcceptBluetooth(f)
    <2> DEFINE w == WThread[accepted + 1]
    <2>1. /\ pc' = [pc EXCEPT ![Dispatch] = "select", ![w] = "dequeue"]
          /\ pc[Dispatch] = "accept" /\ accepted' = accepted + 1 /\ UNCHANGED dispatchQueue
        BY <1>6 DEF AcceptBluetooth
    <2>2. /\ pc' = [u \in Thread |-> pc'[u]]
          /\ \A u \in Thread : u # Dispatch /\ u # w => pc'[u] = pc[u]
          /\ \A u \in Thread : pc'[u] = pc[u] \/ pc'[u] \in {"select", "dequeue"}
        BY <2>1 DEF WInv
    <2>3. ASSUME NEW c \in Conn, c > accepted + 1
          PROVE  pc'[WThread[c]] = "none"
        <3>1. accepted + 1 \in Conn /\ c # accepted + 1 /\ c > accepted
            BY <2>3, BoundAssumption DEF WInv, Conn
        <3>2. WThread[c] # w
            BY <3>1, WorkerAssumption DEF IsInjective
        <3>3. WThread[c] # Dispatch
            BY <3>1, WorkerThread, ThreadAssumption
        <3> QED BY <2>2, <3>1, <3>2, <3>3, WorkerThread DEF WInv, Unstarted
    <2>4. Unstarted'
        BY <2>1, <2>3 DEF Unstarted
    <2>5. NoIdleWorker'
        BY <2>1, <2>2 DEF WInv, NoIdleWorker, Thread
    <2> QED BY <2>1, <2>2, <2>4, <2>5 DEF WInv
<1>7. CASE pushRecord
    <2>1. pc' = Broadcast /\ UNCHANGED accepted
        BY <1>7 DEF pushRecord
    <2>2. /\ pc' = [u \in Thread |-> pc'[u]]
          /\ \A u \in Thread : pc'[u] # "waiting" /\ (pc[u] = "none" => pc'[u] = "none")
        BY <2>1 DEF Broadcast
    <2>3. Unstarted' /\ NoIdleWorker'
        BY <2>1, <2>2, WorkerThread DEF WInv, Unstarted, NoIdleWorker, Thread
    <2> QED BY <2>1, <2>2, <2>3 DEF WInv
<1>8. CASE PushUndecodable
    BY <1>8, WorkerStill DEF PushUndecodable, threadVars
<1>9. CASE ReadNothing
    BY <1>9, WorkerGoto DEF ReadNothing
<1>10. CASE CloseFd
    BY <1>10, WorkerGoto DEF CloseFd
<1>11. CASE UnsetCommandFd
    BY <1>11, WorkerGoto DEF UnsetCommandFd
<1>12. CASE sendDisconnect
    BY <1>12, WorkerGoto DEF sendDisconnect
<1> QED BY <1>1, <1>2, <1>3, <1>4, <1>5, <1>6, <1>7, <1>8, <1>9, <1>10, <1>11, <1>12
        DEF DispatchStep

LEMMA ClientStepWInv ==
    ASSUME WInv, ClientStep
    PROVE  WInv'
BY WorkerStill
   DEF ClientStep, Connect, ClientSend, ClientClose, queueVars, listVars, threadVars

LEMMA NextWInv == WInv /\ [Next]_vars => WInv'
<1> SUFFICES ASSUME WInv, [Next]_vars PROVE WInv'
    OBVIOUS
<1>1. CASE \E t \in Worker : WorkerStep(t)
    BY <1>1, WorkerStepWInv
<1>2. CASE \E t \in Worker \cup VThread : CompleteStep(t)
    BY <1>2, CompleteStepWInv
<1>3. CASE \E t \in VThread : VendorStep(t)
    BY <1>3, VendorStepWInv
<1>4. CASE DispatchStep
    BY <1>4, DispatchStepWInv
<1>5. CASE ClientStep
    BY <1>5, ClientStepWInv
<1>6. CASE UNCHANGED vars
    BY <1>6, WorkerStill DEF vars, queueVars, listVars, threadVars, envVars, clientVars
<1> QED BY <1>1, <1>2, <1>3, <1>4, <1>5, <1>6 DEF Next

LEMMA InitWInv == Init => WInv
<1> SUFFICES ASSUME Init PROVE WInv
    OBVIOUS
<1>1. pc = [t \in Thread |-> pc[t]] /\ accepted \in Nat /\ dispatchQueue = <<>>
    BY DEF Init
<1>2. Unstarted
    BY WorkerThread DEF Init, Unstarted
<1> QED BY <1>1, <1>2 DEF WInv, NoIdleWorker

LEMMA AlwaysWInv == Spec => []WInv
BY InitWInv, NextWInv, PTL DEF Spec

\* No thread of RilSapSocket waits for dispatchQueue while there is a request on it,
\* however many threads earlier connections have left behind (Ril_queue::enqueue
\* wakes them all, with the queue's mutex held).
THEOREM NobodyIdles == Spec => []NoIdleWorker
<1>1. WInv => NoIdleWorker
    BY DEF WInv
<1> QED BY <1>1, AlwaysWInv, PTL

-----------------------------------------------------------------------------
(* What the vendor knows of connections.                                   *)

\* Every connection but the last is cleaned up, and the last too while the dispatch
\* thread listens, but for the moment before sendDisconnect.
CInv ==
    /\ pc = [t \in Thread |-> pc[t]]
    /\ accepted \in Nat
    /\ 1..(accepted - 1) \subseteq cleaned
    /\ listening => pc[Dispatch] = "disconnect" \/ 1..accepted \subseteq cleaned
    /\ pc[Dispatch] = "accept" => ~listening /\ 1..accepted \subseteq cleaned

\* The dispatch thread rests.
LEMMA CleanedStill ==
    ASSUME CInv, pc' = [t \in Thread |-> pc'[t]], pc'[Dispatch] = pc[Dispatch],
           UNCHANGED <<accepted, cleaned, listening>>
    PROVE  CInv'
BY DEF CInv

LEMMA CleanedElsewhere ==
    ASSUME CInv, NEW t \in Worker \cup VThread, NEW l, Goto(t, l),
           UNCHANGED <<accepted, cleaned, listening>>
    PROVE  CInv'
<1>1. t # Dispatch /\ t \in Thread
    BY ThreadAssumption DEF Thread
<1>2. pc' = [u \in Thread |-> pc'[u]] /\ pc'[Dispatch] = pc[Dispatch]
    BY <1>1, DispatchThread DEF CInv, Goto
<1> QED BY <1>2, CleanedStill

\* The dispatch thread goes on, with nothing accepted and no listening begun.
LEMMA CleanedGoto ==
    ASSUME CInv, NEW l, Goto(Dispatch, l), pc[Dispatch] # "disconnect", l # "accept",
           UNCHANGED <<accepted, cleaned, listening>>
    PROVE  CInv'
<1>1. pc' = [u \in Thread |-> pc'[u]] /\ pc'[Dispatch] = l
    BY DispatchThread DEF CInv, Goto
<1> QED BY <1>1 DEF CInv

LEMMA ThreadStepCInv ==
    ASSUME CInv,
           NEW t \in Worker \cup VThread,
           WorkerStep(t) \/ CompleteStep(t) \/ VendorStep(t)
    PROVE  CInv'
<1> USE DEF connVars, envVars, clientVars
<1>1. CASE WorkerStep(t)
    BY <1>1, CleanedElsewhere
       DEF WorkerStep, Wait, Dequeue, dispatchRequest, OnRequest, GotoWith
<1>2. CASE onRequestComplete(t)
    <2>1. PICK l \in {"lock", "remove"} : Goto(t, l)
        BY <1>2 DEF onRequestComplete, Goto
    <2> QED BY <1>2, <2>1, CleanedElsewhere DEF onRequestComplete
<1>3. CASE LockAndTest(t) \/ ReadCommandFd(t) \/ Unlock(t)
    BY <1>3, CleanedElsewhere DEF LockAndTest, ReadCommandFd, Unlock
<1>4. CASE WriteSome(t) \/ WriteRest(t) \/ WriteFails(t) \/ CloseBroken(t)
    BY <1>4, CleanedElsewhere DEF WriteSome, WriteRest, WriteFails, CloseBroken
<1>5. CASE checkAndDequeue(t) \/ FreeHeader(t)
    BY <1>5, CleanedElsewhere DEF checkAndDequeue, FreeHeader, GotoWith
<1>6. CASE VendorStep(t)
    BY <1>6, CleanedElsewhere DEF VendorStep, VendorUnsolicited, VendorComplete, GotoWith
<1> QED BY <1>1, <1>2, <1>3, <1>4, <1>5, <1>6 DEF CompleteStep

LEMMA DispatchStepCInv ==
    ASSUME CInv, DispatchStep
    PROVE  CInv'
<1> USE DispatchThread DEF connVars, envVars, clientVars
<1>1. CASE SelectListen
    <2>1. /\ pc' = [u \in Thread |-> pc'[u]] /\ pc'[Dispatch] = "accept"
          /\ pc[Dispatch] = "select" /\ listening /\ ~listening'
          /\ UNCHANGED <<accepted, cleaned>>
        BY <1>1 DEF SelectListen, CInv, Goto
    <2> QED BY <2>1 DEF CInv
<1>2. CASE SelectCommands \/ SelectFails
    BY <1>2, CleanedGoto DEF SelectCommands, SelectFails
<1>3. CASE AcceptFails
    <2>1. /\ pc' = [u \in Thread |-> pc'[u]] /\ pc'[Dispatch] = "select"
          /\ pc[Dispatch] = "accept" /\ UNCHANGED <<accepted, cleaned>>
        BY <1>3 DEF AcceptFails, CInv, Goto
    <2> QED BY <2>1 DEF CInv
<1>4. CASE AcceptRefuses
    <2>1. /\ pc' = [u \in Thread |-> pc'[u]] /\ pc'[Dispatch] = "select"
          /\ pc[Dispatch] = "accept" /\ accepted' = accepted + 1
          /\ cleaned' = cleaned \cup {accepted + 1}
        BY <1>4 DEF AcceptRefuses, CInv, Goto
    <2>2. 1..accepted' \subseteq cleaned' /\ 1..(accepted' - 1) \subseteq cleaned'
        BY <2>1 DEF CInv
    <2> QED BY <2>1, <2>2 DEF CInv
<1>5. CASE \E f \in Fd : AcceptBluetooth(f)
    <2>1. /\ pc' = [pc EXCEPT ![Dispatch] = "select", ![WThread[accepted + 1]] = "dequeue"]
          /\ pc[Dispatch] = "accept" /\ accepted' = accepted + 1
          /\ UNCHANGED <<cleaned, listening>>
        BY <1>5 DEF AcceptBluetooth
    <2>2. pc' = [u \in Thread |-> pc'[u]] /\ pc'[Dispatch] \in {"select", "dequeue"}
        BY <2>1 DEF CInv
    <2> QED BY <2>1, <2>2 DEF CInv
<1>6. CASE pushRecord
    <2>1. /\ pc' = Broadcast /\ pc[Dispatch] = "read"
          /\ UNCHANGED <<accepted, cleaned, listening>>
        BY <1>6 DEF pushRecord
    <2>2. pc' = [u \in Thread |-> pc'[u]] /\ pc'[Dispatch] = pc[Dispatch]
        BY <2>1 DEF Broadcast
    <2> QED BY <2>1, <2>2, CleanedStill
<1>7. CASE PushUndecodable
    BY <1>7, CleanedStill DEF PushUndecodable, threadVars, CInv
<1>8. CASE ReadNothing \/ CloseFd
    BY <1>8, CleanedGoto DEF ReadNothing, CloseFd
<1>9. CASE UnsetCommandFd
    <2>1. /\ pc' = [u \in Thread |-> pc'[u]] /\ pc'[Dispatch] = "disconnect"
          /\ UNCHANGED <<accepted, cleaned>>
        BY <1>9 DEF UnsetCommandFd, CInv, Goto
    <2> QED BY <2>1 DEF CInv
<1>10. CASE sendDisconnect
    <2>1. /\ pc' = [u \in Thread |-> pc'[u]] /\ pc'[Dispatch] = "select"
          /\ cleaned' = cleaned \cup {accepted} /\ UNCHANGED <<accepted, listening>>
        BY <1>10 DEF sendDisconnect, CInv, Goto
    <2>2. 1..accepted \subseteq cleaned'
        BY <2>1 DEF CInv
    <2> QED BY <2>1, <2>2 DEF CInv
<1> QED BY <1>1, <1>2, <1>3, <1>4, <1>5, <1>6, <1>7, <1>8, <1>9, <1>10 DEF DispatchStep

LEMMA NextCInv == CInv /\ [Next]_vars => CInv'
<1> SUFFICES ASSUME CInv, [Next]_vars PROVE CInv'
    OBVIOUS
<1>1. CASE \E t \in Worker \cup VThread : WorkerStep(t) \/ CompleteStep(t) \/ VendorStep(t)
    BY <1>1, ThreadStepCInv
<1>2. CASE DispatchStep
    BY <1>2, DispatchStepCInv
<1>3. CASE ClientStep
    BY <1>3, CleanedStill
       DEF ClientStep, Connect, ClientSend, ClientClose, connVars, threadVars, CInv
<1>4. CASE UNCHANGED vars
    BY <1>4, CleanedStill DEF vars, connVars, threadVars, envVars, clientVars, CInv
<1> QED BY <1>1, <1>2, <1>3, <1>4 DEF Next

\* When listenCallback accepts a client, onCommandsSocketClosed has sent the vendor the
\* disconnect of every earlier one, whether it was refused, ended by itself or was cut
\* off because of a record that is too large.
THEOREM AlwaysCleaned == Spec => []CleanedBeforeNext
<1>1. Init => CInv
    BY DispatchThread, ThreadAssumption DEF Init, CInv
<1>2. CInv => CleanedBeforeNext
    BY DEF CInv, CleanedBeforeNext
<1> QED BY <1>1, <1>2, NextCInv, PTL DEF Spec

-----------------------------------------------------------------------------
(* The invariant of the write path.                                        *)

Writing == {"readfd", "write", "rest", "broken", "unlock"}

\* Types, as far as they matter, and how connections are numbered.
Typed ==
    /\ pc = [t \in Thread |-> pc[t]]
    /\ wfd \in [Thread -> Fd \cup {None}]
    /\ half = [c \in Conn |-> half[c]]
    /\ open \in [Fd -> Nat]
    /\ commandFd \in Fd \cup {None}
    /\ accepted \in Nat /\ conns \in Nat /\ accepted <= conns /\ conns <= MaxConn
    /\ pc[Dispatch] = "accept" => accepted < conns

\* Who writes has write_lock.
Locked == \A t \in Thread : pc[t] \in Writing => write_lock = t

\* No connection is open twice, or again.
Numbered ==
    /\ \A f \in Fd : open[f] <= accepted
    /\ \A f, g \in Fd : open[f] = open[g] /\ open[f] # 0 => f = g
    /\ \A c \in Conn : c > accepted => half[c] = None

\* The thread t is in the middle of a response on descriptor f.
Midway(t, f) == half[open[f]] = t /\ pc[t] \in {"rest", "broken"} /\ wfd[t] = f

\* Half of a response on an open connection has somebody to finish it.
HalfOwned ==
    \A f \in Fd : open[f] # 0 /\ half[open[f]] # None => \E t \in Thread : Midway(t, f)

FInv == Typed /\ Locked /\ Numbered /\ HalfOwned /\ FrameIntact

-----------------------------------------------------------------------------
LEMMA InitFInv == Init => FInv
<1> SUFFICES ASSUME Init PROVE FInv
    OBVIOUS
<1>1. Typed
    <2>1. pc[Dispatch] # "accept"
        BY DispatchThread, ThreadAssumption DEF Init
    <2>2. conns = 0 /\ accepted = 0 /\ 0 <= MaxConn
        BY BoundAssumption DEF Init
    <2>3. /\ pc = [t \in Thread |-> pc[t]] /\ half = [c \in Conn |-> half[c]]
          /\ wfd \in [Thread -> Fd \cup {None}] /\ open \in [Fd -> Nat]
          /\ commandFd \in Fd \cup {None}
        BY DEF Init
    <2> QED BY <2>1, <2>2, <2>3 DEF Typed
<1>2. Locked
    BY DEF Init, Locked, Writing
<1>3. Numbered /\ HalfOwned
    BY DEF Init, Numbered, HalfOwned
<1>4. FrameIntact
    BY NoneAssumption DEF Init, FrameIntact
<1> QED BY <1>1, <1>2, <1>3, <1>4 DEF FInv

\* An open descriptor stands for a connection.
LEMMA OpenConn ==
    ASSUME FInv, NEW f \in Fd, open[f] # 0
    PROVE  open[f] \in Conn
BY BoundAssumption DEF FInv, Typed, Numbered, Conn

\* Nobody but the thread that has write_lock is in the middle of a response.
LEMMA OnlyWriter ==
    ASSUME FInv, NEW t \in Thread, pc[t] \in Writing,
           NEW f \in Fd, open[f] # 0, half[open[f]] # None
    PROVE  Midway(t, f)
<1>1. PICK u \in Thread : Midway(u, f)
    BY DEF FInv, HalfOwned
<1>2. write_lock = u /\ write_lock = t
    BY <1>1 DEF FInv, Locked, Midway, Writing
<1> QED BY <1>1, <1>2

LEMMA GotoEffect ==
    ASSUME Typed, NEW t \in Thread, NEW l, Goto(t, l)
    PROVE  /\ pc' = [u \in Thread |-> pc'[u]] /\ pc'[t] = l
           /\ \A u \in Thread : u # t => pc'[u] = pc[u]
BY DEF Typed, Goto

\* A step that leaves sockets and lock alone, and moves threads between places where
\* they do not write.
LEMMA QuietStep ==
    ASSUME FInv, UNCHANGED <<open, commandFd, half, accepted, write_lock, wfd>>,
           conns' \in {conns, conns + 1}, conns' <= MaxConn,
           pc' = [t \in Thread |-> pc'[t]],
           \A t \in Thread : \/ pc'[t] = pc[t]
                             \/ pc[t] \notin Writing /\ pc'[t] \notin Writing \cup {"accept"}
    PROVE  FInv'
<1>1. Typed'
    <2>1. Dispatch \in Thread
        BY DEF Thread
    <2> QED BY <2>1 DEF FInv, Typed
<1>2. Locked'
    BY DEF FInv, Locked
<1>3. Numbered' /\ FrameIntact'
    BY DEF FInv, Numbered, FrameIntact
<1>4. HalfOwned'
    BY DEF FInv, HalfOwned, Midway, Writing
<1> QED BY <1>1, <1>2, <1>3, <1>4 DEF FInv

\* The usual case: one thread moves.
LEMMA QuietGoto ==
    ASSUME FInv, UNCHANGED <<open, commandFd, half, accepted, conns, write_lock, wfd>>,
           NEW t \in Thread, NEW l, Goto(t, l),
           pc[t] \notin Writing, l \notin Writing \cup {"accept"}
    PROVE  FInv'
<1>1. Typed
    BY DEF FInv
<1>2. conns \in Nat /\ conns <= MaxConn
    BY <1>1 DEF Typed
<1> QED BY <1>1, <1>2, GotoEffect, QuietStep

-----------------------------------------------------------------------------
(* The write path.                                                         *)

LEMMA LockAndTestFInv ==
    ASSUME FInv, NEW t \in Thread, LockAndTest(t)
    PROVE  FInv'
<1> DEFINE l == IF commandFd = None THEN "unlock" ELSE "readfd"
<1>1. /\ pc[t] = "lock" /\ write_lock = None /\ write_lock' = t /\ Goto(t, l)
      /\ UNCHANGED <<open, commandFd, half, accepted, conns, wfd>>
    BY DEF LockAndTest, connVars, envVars, clientVars
<1>2. /\ pc' = [u \in Thread |-> pc'[u]] /\ pc'[t] \in {"unlock", "readfd"}
      /\ \A u \in Thread : u # t => pc'[u] = pc[u]
    BY <1>1, GotoEffect DEF FInv
<1>3. Typed'
    BY <1>1, <1>2 DEF FInv, Typed, Thread
<1>4. Locked'
    <2>1. \A u \in Thread : pc[u] \notin Writing
        BY <1>1, NoneAssumption DEF FInv, Locked
    <2> QED BY <1>1, <1>2, <2>1 DEF Locked
<1>5. Numbered' /\ FrameIntact'
    BY <1>1 DEF FInv, Numbered, FrameIntact
<1>6. HalfOwned'
    BY <1>1, <1>2 DEF FInv, HalfOwned, Midway
<1> QED BY <1>3, <1>4, <1>5, <1>6 DEF FInv

\* A thread that writes, and goes on doing so.
LEMMA WritingStays ==
    ASSUME FInv, NEW t \in Thread, pc[t] \in Writing, NEW l \in Writing, Goto(t, l),
           UNCHANGED write_lock
    PROVE  Locked'
BY GotoEffect DEF FInv, Locked

LEMMA ReadCommandFdFInv ==
    ASSUME FInv, NEW t \in Thread, ReadCommandFd(t)
    PROVE  FInv'
<1>1. /\ pc[t] = "readfd" /\ Goto(t, "write") /\ wfd' = [wfd EXCEPT ![t] = commandFd]
      /\ UNCHANGED <<open, commandFd, half, accepted, conns, write_lock>>
    BY DEF ReadCommandFd, connVars, envVars, clientVars
<1>2. /\ pc' = [u \in Thread |-> pc'[u]] /\ pc'[t] = "write"
      /\ \A u \in Thread : u # t => pc'[u] = pc[u] /\ wfd'[u] = wfd[u]
    BY <1>1, GotoEffect DEF FInv, Typed
<1>3. Typed'
    BY <1>1, <1>2 DEF FInv, Typed, Thread
<1>4. Locked'
    BY <1>1, WritingStays DEF Writing
<1>5. Numbered' /\ FrameIntact'
    BY <1>1 DEF FInv, Numbered, FrameIntact
<1>6. HalfOwned'
    BY <1>1, <1>2 DEF FInv, HalfOwned, Midway
<1> QED BY <1>3, <1>4, <1>5, <1>6 DEF FInv

LEMMA WriteSomeFInv ==
    ASSUME FInv, NEW t \in Thread, WriteSome(t)
    PROVE  FInv'
<1> DEFINE f == wfd[t]
           c == open[f]
<1>1. /\ pc[t] = "write" /\ Goto(t, "rest") /\ f # None /\ Up(f)
      /\ half' = [half EXCEPT ![c] = IF half[c] = None THEN t ELSE "garbled"]
      /\ UNCHANGED <<open, commandFd, wfd, accepted, conns, write_lock>>
    BY DEF WriteSome, CanWrite, connVars, clientVars
<1>2. f \in Fd /\ c # 0
    BY <1>1 DEF FInv, Typed, Up
<1>3. c \in Conn /\ c <= accepted
    BY <1>2, OpenConn DEF FInv, Numbered
<1>4. \A g \in Fd : open[g] # 0 => half[open[g]] = None
    BY <1>1, OnlyWriter DEF Writing, Midway
<1>5. /\ half' = [i \in Conn |-> half'[i]] /\ half'[c] = t
      /\ \A i \in Conn : i # c => half'[i] = half[i]
    BY <1>1, <1>2, <1>3, <1>4 DEF FInv, Typed
<1>6. /\ pc' = [u \in Thread |-> pc'[u]] /\ pc'[t] = "rest"
      /\ \A u \in Thread : u # t => pc'[u] = pc[u]
    BY <1>1, GotoEffect DEF FInv
<1>7. Typed'
    BY <1>1, <1>5, <1>6 DEF FInv, Typed, Thread
<1>8. Locked'
    BY <1>1, WritingStays DEF Writing
<1>9. Numbered'
    <2>1. \A i \in Conn : i > accepted => i # c
        BY <1>3 DEF FInv, Typed, Conn
    <2> QED BY <1>1, <1>5, <2>1 DEF FInv, Numbered
<1>10. HalfOwned'
    <2>1. ASSUME NEW g \in Fd, open[g] # 0, half'[open[g]] # None
          PROVE  g = f
        BY <1>2, <1>4, <1>5, <2>1, OpenConn DEF FInv, Numbered
    <2>2. Midway(t, f)'
        BY <1>1, <1>5, <1>6 DEF Midway
    <2> QED BY <1>1, <2>1, <2>2 DEF HalfOwned
<1>11. FrameIntact'
    BY <1>5, NoneAssumption DEF FInv, FrameIntact
<1> QED BY <1>7, <1>8, <1>9, <1>10, <1>11 DEF FInv

LEMMA WriteRestFInv ==
    ASSUME FInv, NEW t \in Thread, WriteRest(t)
    PROVE  FInv'
<1> DEFINE f == wfd[t]
           c == open[f]
<1>1. /\ pc[t] \in {"write", "rest"} /\ Goto(t, "unlock") /\ f # None /\ Up(f)
      /\ half' = [half EXCEPT ![c] = IF half[c] \in {None, t} THEN None ELSE "garbled"]
      /\ UNCHANGED <<open, commandFd, wfd, accepted, conns, write_lock>>
    BY DEF WriteRest, CanWrite, connVars, clientVars
<1>2. f \in Fd /\ c # 0
    BY <1>1 DEF FInv, Typed, Up
<1>3. c \in Conn
    BY <1>2, OpenConn
<1>4. \A g \in Fd : open[g] # 0 /\ half[open[g]] # None => g = f /\ half[open[g]] = t
    BY <1>1, OnlyWriter DEF Writing, Midway
<1>5. /\ half' = [i \in Conn |-> half'[i]] /\ half'[c] = None
      /\ \A i \in Conn : i # c => half'[i] = half[i]
    BY <1>1, <1>2, <1>3, <1>4 DEF FInv, Typed
<1>6. /\ pc' = [u \in Thread |-> pc'[u]] /\ pc'[t] = "unlock"
      /\ \A u \in Thread : u # t => pc'[u] = pc[u]
    BY <1>1, GotoEffect DEF FInv
<1>7. Typed'
    BY <1>1, <1>5, <1>6 DEF FInv, Typed, Thread
<1>8. Locked'
    BY <1>1, WritingStays DEF Writing
<1>9. Numbered'
    BY <1>1, <1>5 DEF FInv, Numbered
<1>10. HalfOwned'
    <2>1. \A g \in Fd : open[g] # 0 => half'[open[g]] = None
        BY <1>4, <1>5, OpenConn
    <2> QED BY <1>1, <2>1 DEF HalfOwned
<1>11. FrameIntact'
    BY <1>5, NoneAssumption DEF FInv, FrameIntact
<1> QED BY <1>7, <1>8, <1>9, <1>10, <1>11 DEF FInv

LEMMA WriteFailsFInv ==
    ASSUME FInv, NEW t \in Thread, WriteFails(t)
    PROVE  FInv'
<1> DEFINE l == IF wfd[t] = None THEN "unlock" ELSE "broken"
<1>1. /\ pc[t] \in {"write", "rest"} /\ Goto(t, l)
      /\ UNCHANGED <<open, commandFd, half, wfd, accepted, conns, write_lock>>
    BY DEF WriteFails, connVars, envVars, clientVars
<1>2. /\ pc' = [u \in Thread |-> pc'[u]] /\ pc'[t] = l
      /\ \A u \in Thread : u # t => pc'[u] = pc[u]
    BY <1>1, GotoEffect DEF FInv
<1>3. Typed'
    BY <1>1, <1>2 DEF FInv, Typed, Thread
<1>4. Locked'
    BY <1>1, WritingStays DEF Writing
<1>5. Numbered' /\ FrameIntact'
    BY <1>1 DEF FInv, Numbered, FrameIntact
<1>6. HalfOwned'
    <2>1. ASSUME NEW f \in Fd, NEW u \in Thread, Midway(u, f)
          PROVE  Midway(u, f)'
        BY <1>1, <1>2, <2>1, NoneAssumption DEF Midway
    <2> QED BY <1>1, <2>1 DEF FInv, HalfOwned
<1> QED BY <1>3, <1>4, <1>5, <1>6 DEF FInv

\* A descriptor that is closed takes the half of a response with it.
LEMMA CloseEffect ==
    ASSUME FInv, NEW f, open' = [open EXCEPT ![f] = 0],
           UNCHANGED <<half, accepted>>
    PROVE  Numbered' /\ FrameIntact'
BY DEF FInv, Typed, Numbered, FrameIntact

LEMMA CloseBrokenFInv ==
    ASSUME FInv, NEW t \in Thread, CloseBroken(t)
    PROVE  FInv'
<1> DEFINE f == wfd[t]
<1>1. /\ pc[t] = "broken" /\ Goto(t, "unlock") /\ open' = [open EXCEPT ![f] = 0]
      /\ UNCHANGED <<commandFd, half, wfd, accepted, conns, write_lock>>
    BY DEF CloseBroken, envVars, clientVars
<1>2. /\ pc' = [u \in Thread |-> pc'[u]] /\ pc'[t] = "unlock"
      /\ \A u \in Thread : u # t => pc'[u] = pc[u]
    BY <1>1, GotoEffect DEF FInv
<1>3. Typed'
    BY <1>1, <1>2 DEF FInv, Typed, Thread
<1>4. Locked'
    BY <1>1, WritingStays DEF Writing
<1>5. Numbered' /\ FrameIntact'
    BY <1>1, CloseEffect
<1>6. HalfOwned'
    <2>1. \A g \in Fd : open[g] # 0 /\ half[open[g]] # None => g = f
        BY <1>1, OnlyWriter DEF Writing, Midway
    <2>2. \A g \in Fd : open'[g] # 0 => open'[g] = open[g] /\ g # f
        BY <1>1 DEF FInv, Typed
    <2> QED BY <1>1, <2>1, <2>2 DEF HalfOwned
<1> QED BY <1>3, <1>4, <1>5, <1>6 DEF FInv

LEMMA UnlockFInv ==
    ASSUME FInv, NEW t \in Thread, Unlock(t)
    PROVE  FInv'
<1> DEFINE l == IF arg[t] = 0 THEN "idle" ELSE "remove"
<1>1. /\ pc[t] = "unlock" /\ Goto(t, l) /\ write_lock' = None
      /\ UNCHANGED <<open, commandFd, half, wfd, accepted, conns>>
    BY DEF Unlock, connVars, envVars, clientVars
<1>2. /\ pc' = [u \in Thread |-> pc'[u]] /\ pc'[t] \in {"idle", "remove"}
      /\ \A u \in Thread : u # t => pc'[u] = pc[u]
    BY <1>1, GotoEffect DEF FInv
<1>3. Typed'
    BY <1>1, <1>2 DEF FInv, Typed, Thread
<1>4. Locked'
    <2>1. \A u \in Thread : u # t => pc[u] \notin Writing
        BY <1>1 DEF FInv, Locked, Writing
    <2> QED BY <1>2, <2>1 DEF Locked, Writing
<1>5. Numbered' /\ FrameIntact'
    BY <1>1 DEF FInv, Numbered, FrameIntact
<1>6. HalfOwned'
    BY <1>1, <1>2 DEF FInv, HalfOwned, Midway
<1> QED BY <1>3, <1>4, <1>5, <1>6 DEF FInv

-----------------------------------------------------------------------------
(* The dispatch thread.                                                    *)

LEMMA SelectListenFInv ==
    ASSUME FInv, SelectListen
    PROVE  FInv'
<1>1. /\ pc[Dispatch] = "select" /\ accepted < conns /\ Goto(Dispatch, "accept")
      /\ UNCHANGED <<open, commandFd, half, wfd, accepted, conns, write_lock>>
    BY DEF SelectListen, envVars, clientVars
<1>2. /\ pc' = [u \in Thread |-> pc'[u]] /\ pc'[Dispatch] = "accept"
      /\ \A u \in Thread : u # Dispatch => pc'[u] = pc[u]
    BY <1>1, DispatchThread, GotoEffect DEF FInv
<1>3. Typed'
    BY <1>1, <1>2 DEF FInv, Typed
<1>4. Locked'
    BY <1>1, <1>2 DEF FInv, Locked, Writing
<1>5. Numbered' /\ FrameIntact'
    BY <1>1 DEF FInv, Numbered, FrameIntact
<1>6. HalfOwned'
    BY <1>1, <1>2 DEF FInv, HalfOwned, Midway
<1> QED BY <1>3, <1>4, <1>5, <1>6 DEF FInv

LEMMA AcceptRefusesFInv ==
    ASSUME FInv, AcceptRefuses
    PROVE  FInv'
<1>1. /\ pc[Dispatch] = "accept" /\ Goto(Dispatch, "select") /\ accepted' = accepted + 1
      /\ UNCHANGED <<open, commandFd, half, wfd, conns, write_lock>>
    BY DEF AcceptRefuses
<1>2. /\ pc' = [u \in Thread |-> pc'[u]] /\ pc'[Dispatch] = "select"
      /\ \A u \in Thread : u # Dispatch => pc'[u] = pc[u]
    BY <1>1, DispatchThread, GotoEffect DEF FInv
<1>3. Typed'
    BY <1>1, <1>2 DEF FInv, Typed
<1>4. Locked'
    BY <1>1, <1>2 DEF FInv, Locked, Writing
<1>5. Numbered'
    BY <1>1 DEF FInv, Typed, Numbered, Conn
<1>6. HalfOwned' /\ FrameIntact'
    BY <1>1, <1>2 DEF FInv, HalfOwned, Midway, FrameIntact
<1> QED BY <1>3, <1>4, <1>5, <1>6 DEF FInv

\* The number of the connection is new, so that nobody is in the middle of it.
LEMMA AcceptBluetoothFInv ==
    ASSUME FInv, WInv, NEW f \in Fd, AcceptBluetooth(f)
    PROVE  FInv'
<1> DEFINE c == accepted + 1
<1>1. /\ pc[Dispatch] = "accept" /\ accepted' = c /\ open[f] = 0 /\ commandFd' = f
      /\ open' = [open EXCEPT ![f] = c]
      /\ pc' = [pc EXCEPT ![Dispatch] = "select", ![WThread[c]] = "dequeue"]
      /\ UNCHANGED <<half, wfd, conns, write_lock>>
    BY DEF AcceptBluetooth
<1>2. accepted \in Nat /\ c \in Conn /\ c <= conns /\ half[c] = None
    <2>1. accepted \in Nat /\ conns \in Nat /\ accepted < conns /\ conns <= MaxConn
        BY <1>1 DEF FInv, Typed
    <2>2. c \in Conn /\ c <= conns /\ c > accepted
        BY <2>1, BoundAssumption DEF Conn
    <2> QED BY <2>1, <2>2 DEF FInv, Numbered
<1>3. /\ pc' = [u \in Thread |-> pc'[u]] /\ pc'[Dispatch] # "accept"
      /\ \A u \in Thread : pc'[u] = pc[u] \/ pc'[u] \in {"select", "dequeue"}
      /\ pc[Dispatch] \notin Writing
    BY <1>1, DispatchThread DEF FInv, Typed, Writing
<1>4. \A u \in Thread : pc'[u] \in Writing => pc'[u] = pc[u]
    BY <1>3 DEF Writing
<1>5. /\ open' \in [Fd -> Nat] /\ open'[f] = c
      /\ \A g \in Fd : g # f => open'[g] = open[g]
    BY <1>1, <1>2 DEF FInv, Typed
<1>6. Typed'
    BY <1>1, <1>2, <1>3, <1>5 DEF FInv, Typed
<1>7. Locked'
    BY <1>1, <1>4 DEF FInv, Locked
<1>8. Numbered'
    <2>1. \A g \in Fd : open[g] \in Nat /\ open[g] <= accepted
        BY DEF FInv, Typed, Numbered
    <2> QED BY <1>1, <1>2, <1>5, <2>1 DEF FInv, Numbered, Conn
<1>9. HalfOwned'
    <2> SUFFICES ASSUME NEW g \in Fd, open'[g] # 0, half[open'[g]] # None
                 PROVE  \E t \in Thread : Midway(t, g)'
        BY <1>1 DEF HalfOwned
    <2>1. g # f /\ open'[g] = open[g]
        BY <1>2, <1>5
    <2>2. PICK t \in Thread : Midway(t, g)
        BY <2>1 DEF FInv, HalfOwned
    <2>3. pc'[t] = pc[t]
        <3>1. t # Dispatch
            BY <1>1, <2>2 DEF Midway
        <3>2. t # WThread[c]
            BY <1>2, <2>2 DEF WInv, Unstarted, Midway
        <3> QED BY <1>1, <3>1, <3>2 DEF FInv, Typed
    <2> QED BY <1>1, <2>1, <2>2, <2>3 DEF Midway
<1>10. FrameIntact'
    BY <1>1 DEF FInv, FrameIntact
<1> QED BY <1>6, <1>7, <1>8, <1>9, <1>10 DEF FInv

LEMMA CloseFdFInv ==
    ASSUME FInv, CloseFd
    PROVE  FInv'
<1>1. /\ pc[Dispatch] = "read" /\ Goto(Dispatch, "unset")
      /\ open' = [open EXCEPT ![cmdFd] = 0]
      /\ UNCHANGED <<commandFd, half, wfd, accepted, conns, write_lock>>
    BY DEF CloseFd
<1>2. /\ pc' = [u \in Thread |-> pc'[u]] /\ pc'[Dispatch] = "unset"
      /\ \A u \in Thread : u # Dispatch => pc'[u] = pc[u]
    BY <1>1, DispatchThread, GotoEffect DEF FInv
<1>3. Typed'
    BY <1>1, <1>2 DEF FInv, Typed
<1>4. Locked'
    BY <1>1, <1>2 DEF FInv, Locked, Writing
<1>5. Numbered' /\ FrameIntact'
    BY <1>1, CloseEffect
<1>6. HalfOwned'
    <2>1. \A g \in Fd : open'[g] # 0 => open'[g] = open[g]
        BY <1>1 DEF FInv, Typed
    <2>2. ASSUME NEW g \in Fd, NEW u \in Thread, open'[g] = open[g], Midway(u, g)
          PROVE  Midway(u, g)'
        BY <1>1, <1>2, <2>2 DEF Midway
    <2> QED BY <1>1, <2>1, <2>2 DEF FInv, HalfOwned
<1> QED BY <1>3, <1>4, <1>5, <1>6 DEF FInv

LEMMA UnsetCommandFdFInv ==
    ASSUME FInv, UnsetCommandFd
    PROVE  FInv'
<1>1. /\ pc[Dispatch] = "unset" /\ Goto(Dispatch, "disconnect") /\ commandFd' = None
      /\ UNCHANGED <<open, half, wfd, accepted, conns, write_lock>>
    BY DEF UnsetCommandFd, envVars, clientVars
<1>2. /\ pc' = [u \in Thread |-> pc'[u]] /\ pc'[Dispatch] = "disconnect"
      /\ \A u \in Thread : u # Dispatch => pc'[u] = pc[u]
    BY <1>1, DispatchThread, GotoEffect DEF FInv
<1>3. Typed'
    BY <1>1, <1>2 DEF FInv, Typed
<1>4. Locked'
    BY <1>1, <1>2 DEF FInv, Locked, Writing
<1>5. Numbered' /\ FrameIntact'
    BY <1>1 DEF FInv, Numbered, FrameIntact
<1>6. HalfOwned'
    BY <1>1, <1>2 DEF FInv, HalfOwned, Midway
<1> QED BY <1>3, <1>4, <1>5, <1>6 DEF FInv

-----------------------------------------------------------------------------
(* Every step.                                                             *)

LEMMA WorkerStepFInv ==
    ASSUME FInv, NEW t \in Worker, WorkerStep(t)
    PROVE  FInv'
<1> USE DEF connVars, envVars, clientVars, Writing
<1> t \in Thread
    BY DEF Thread
<1>1. CASE Wait(t)
    BY <1>1, QuietGoto DEF Wait
<1>2. CASE Dequeue(t)
    BY <1>2, QuietGoto DEF Dequeue, GotoWith
<1>3. CASE dispatchRequest(t)
    BY <1>3, QuietGoto DEF dispatchRequest
<1>4. CASE OnRequest(t)
    BY <1>4, QuietGoto DEF OnRequest, GotoWith
<1> QED BY <1>1, <1>2, <1>3, <1>4 DEF WorkerStep

LEMMA CompleteStepFInv ==
    ASSUME FInv, NEW t \in Worker \cup VThread, CompleteStep(t)
    PROVE  FInv'
<1> t \in Thread
    BY DEF Thread
<1>1. CASE onRequestComplete(t)
    <2>1. PICK l \in {"lock", "remove"} : Goto(t, l)
        BY <1>1 DEF onRequestComplete, Goto
    <2>2. /\ pc[t] = "complete"
          /\ UNCHANGED <<open, commandFd, half, accepted, conns, write_lock, wfd>>
        BY <1>1 DEF onRequestComplete, connVars, envVars, clientVars
    <2> QED BY <2>1, <2>2, QuietGoto DEF Writing
<1>2. CASE checkAndDequeue(t)
    <2>1. /\ pc[t] = "remove" /\ Goto(t, "free")
          /\ UNCHANGED <<open, commandFd, half, accepted, conns, write_lock, wfd>>
        BY <1>2 DEF checkAndDequeue, connVars, envVars, clientVars
    <2> QED BY <2>1, QuietGoto DEF Writing
<1>3. CASE FreeHeader(t)
    <2>1. /\ pc[t] = "free" /\ Goto(t, Base(t))
          /\ UNCHANGED <<open, commandFd, half, accepted, conns, write_lock, wfd>>
        BY <1>3 DEF FreeHeader, GotoWith, connVars, envVars, clientVars
    <2> QED BY <2>1, QuietGoto DEF Writing, Base
<1> QED BY <1>1, <1>2, <1>3, LockAndTestFInv, ReadCommandFdFInv, WriteSomeFInv, WriteRestFInv,
           WriteFailsFInv, CloseBrokenFInv, UnlockFInv DEF CompleteStep

LEMMA VendorStepFInv ==
    ASSUME FInv, NEW t \in VThread, VendorStep(t)
    PROVE  FInv'
<1> USE DEF connVars, envVars, clientVars, Writing
<1> t \in Thread
    BY DEF Thread
<1>1. CASE VendorUnsolicited(t)
    BY <1>1, QuietGoto DEF VendorUnsolicited, GotoWith
<1>2. CASE \E m \in Msg : VendorComplete(t, m)
    BY <1>2, QuietGoto DEF VendorComplete, GotoWith
<1> QED BY <1>1, <1>2 DEF VendorStep

LEMMA FrameStill ==
    ASSUME FInv, UNCHANGED <<pc, open, commandFd, half, accepted, write_lock, wfd>>,
           conns' \in {conns, conns + 1}, conns' <= MaxConn
    PROVE  FInv'
<1>1. pc' = [t \in Thread |-> pc'[t]]
    BY DEF FInv, Typed
<1> QED BY <1>1, QuietStep

LEMMA DispatchStepFInv ==
    ASSUME FInv, WInv, DispatchStep
    PROVE  FInv'
<1> USE DispatchThread DEF connVars, envVars, clientVars, Writing
<1>1. CASE SelectCommands
    BY <1>1, QuietGoto DEF SelectCommands
<1>2. CASE SelectFails
    BY <1>2, QuietGoto DEF SelectFails
<1>3. CASE AcceptFails
    BY <1>3, QuietGoto DEF AcceptFails
<1>4. CASE pushRecord
    <2>1. /\ pc' = Broadcast
          /\ UNCHANGED <<open, commandFd, half, accepted, conns, write_lock, wfd>>
        BY <1>4 DEF pushRecord
    <2>2. /\ pc' = [u \in Thread |-> pc'[u]]
          /\ \A u \in Thread : pc'[u] = pc[u] \/ (pc[u] = "waiting" /\ pc'[u] = "dequeue")
        BY <2>1 DEF Broadcast
    <2>3. conns <= MaxConn
        BY DEF FInv, Typed
    <2> QED BY <2>1, <2>2, <2>3, QuietStep
<1>5. CASE PushUndecodable
    <2>1. conns <= MaxConn
        BY DEF FInv, Typed
    <2> QED BY <1>5, <2>1, FrameStill DEF PushUndecodable, threadVars
<1>6. CASE ReadNothing
    BY <1>6, QuietGoto DEF ReadNothing
<1>7. CASE sendDisconnect
    BY <1>7, QuietGoto DEF sendDisconnect
<1> QED BY <1>1, <1>2, <1>3, <1>4, <1>5, <1>6, <1>7, SelectListenFInv, AcceptRefusesFInv,
           AcceptBluetoothFInv, CloseFdFInv, UnsetCommandFdFInv DEF DispatchStep

LEMMA ClientStepFInv ==
    ASSUME FInv, ClientStep
    PROVE  FInv'
<1> USE DEF connVars, envVars, clientVars, threadVars
<1>1. conns \in Nat /\ conns <= MaxConn
    BY DEF FInv, Typed
<1>2. CASE Connect
    BY <1>1, <1>2, BoundAssumption, FrameStill DEF Connect
<1>3. CASE \E c \in Conn : ClientSend(c) \/ ClientClose(c)
    BY <1>1, <1>3, FrameStill DEF ClientSend, ClientClose
<1> QED BY <1>2, <1>3 DEF ClientStep

LEMMA NextFInv == FInv /\ WInv /\ [Next]_vars => FInv'
<1> SUFFICES ASSUME FInv, WInv, [Next]_vars PROVE FInv'
    OBVIOUS
<1>1. CASE \E t \in Worker : WorkerStep(t)
    BY <1>1, WorkerStepFInv
<1>2. CASE \E t \in Worker \cup VThread : CompleteStep(t)
    BY <1>2, CompleteStepFInv
<1>3. CASE \E t \in VThread : VendorStep(t)
    BY <1>3, VendorStepFInv
<1>4. CASE DispatchStep
    BY <1>4, DispatchStepFInv
<1>5. CASE ClientStep
    BY <1>5, ClientStepFInv
<1>6. CASE UNCHANGED vars
    <2>1. conns <= MaxConn
        BY DEF FInv, Typed
    <2> QED BY <1>6, <2>1, FrameStill DEF vars, connVars, threadVars, envVars, clientVars
<1> QED BY <1>1, <1>2, <1>3, <1>4, <1>5, <1>6 DEF Next

\* What sendResponse writes to a client of RilSapSocket is not mixed with another
\* response, although write_lock does not keep the dispatch thread from closing the
\* descriptor, or the kernel from giving its number to the next connection.
THEOREM FramesAlwaysIntact == Spec => []FrameIntact
<1>1. FInv => FrameIntact
    BY DEF FInv
<1> QED BY <1>1, InitFInv, NextFInv, AlwaysWInv, PTL DEF Spec

-----------------------------------------------------------------------------
(* Who owns the messages.                                                  *)

\* Connections are accepted in the order they were made and messages read in the order
\* they were sent; only the last client made can be there.
Ordered ==
    /\ owner \in Seq(Conn) /\ Len(owner) <= MaxMsg
    /\ taken \in 0..Len(owner)
    /\ peer \in [Conn -> {"none", "up", "down"}]
    /\ \A c \in Conn : peer[c] = "up" => c = conns
    /\ \A m \in DOMAIN owner : owner[m] <= conns
    /\ \A m, n \in DOMAIN owner : m <= n => owner[m] <= owner[n]
    /\ \A m \in 1..taken : owner[m] <= accepted

\* Threads that rest have no message, and those that dispatch or complete one do.
InWork ==
    /\ arg \in [Thread -> Msg \cup {0}]
    /\ \A t \in Thread : pc[t] \in {"none", "idle", "dequeue", "waiting"} => arg[t] = 0
    /\ \A t \in Thread : pc[t] \in {"dispatch", "onrequest", "complete", "remove"} => arg[t] # 0
    /\ arg[Dispatch] = 0

Queued(m) == \E i \in DOMAIN dispatchQueue : dispatchQueue[i] = m
InHand(m) == \E t \in Thread : arg[t] = m

\* No two owners of a message, and no allocated MsgHeader without one.
OneOwner ==
    /\ dispatchQueue \in Seq(Msg) /\ vendor \subseteq Msg /\ header \subseteq 1..taken
    /\ \A i, j \in DOMAIN dispatchQueue : dispatchQueue[i] = dispatchQueue[j] => i = j
    /\ \A t, u \in Thread : arg[t] = arg[u] /\ arg[t] # 0 => t = u
    /\ \A m \in Msg :
          /\ m \in header <=> Queued(m) \/ m \in vendor \/ InHand(m)
          /\ ~(Queued(m) /\ m \in vendor)
          /\ ~(Queued(m) /\ InHand(m))
          /\ ~(m \in vendor /\ InHand(m))

HInv == Ordered /\ InWork /\ OneOwner

Outstanding(m) ==
    \/ m \in vendor
    \/ \E t \in Thread : arg[t] = m /\ pc[t] \in Completing \cup {"onrequest"}

\* What is on pendingResponseQueue is outstanding, and the other way round.
PInv ==
    /\ pendingResponseQueue \in Seq(Msg) /\ alive \subseteq Msg
    /\ \A i, j \in DOMAIN pendingResponseQueue :
          pendingResponseQueue[i] = pendingResponseQueue[j] => i = j
    /\ \A m \in Msg :
          /\ Outstanding(m) <=> \E i \in DOMAIN pendingResponseQueue : pendingResponseQueue[i] = m
          /\ Outstanding(m) <=> m \in alive

LEMMA UpToLemma ==
    ASSUME NEW n \in Nat
    PROVE  IsFiniteSet(1..n) /\ Cardinality(1..n) = n
<1>1. 1 \in Int /\ n \in Int
    OBVIOUS
<1>2. IsFiniteSet(1..n) /\ Cardinality(1..n) = IF 1 > n THEN 0 ELSE n - 1 + 1
    BY <1>1, FS_Interval
<1> QED BY <1>2

LEMMA OrderedFacts ==
    ASSUME FInv, Ordered
    PROVE  /\ accepted \in Nat /\ conns \in Nat /\ accepted <= conns /\ conns <= MaxConn
           /\ Len(owner) \in Nat /\ DOMAIN owner = 1..Len(owner)
           /\ taken \in Nat /\ taken <= Len(owner) /\ taken <= MaxMsg
           /\ \A m \in DOMAIN owner : owner[m] \in Conn /\ owner[m] \in Nat
BY BoundAssumption DEF FInv, Typed, Ordered, Conn

\* Every message that is gone with connections up to c was sent on one of them, and
\* none that was read before comes back.
LEMMA SentUpToLemma ==
    ASSUME FInv, Ordered, NEW c \in Nat, c >= accepted
    PROVE  /\ SentUpTo(c) \in taken..Len(owner)
           /\ \A m \in 1..SentUpTo(c) : owner[m] <= c
<1> DEFINE S == {m \in DOMAIN owner : owner[m] <= c}
           n == Len(owner)
<1>1. /\ n \in Nat /\ DOMAIN owner = 1..n
      /\ taken \in 0..n /\ accepted \in Nat
      /\ \A m \in 1..n : owner[m] \in Nat
    BY OrderedFacts DEF Ordered
<1>2. IsFiniteSet(1..n) /\ Cardinality(1..n) = n
    BY <1>1, UpToLemma
<1>3. IsFiniteSet(S) /\ Cardinality(S) \in Nat /\ Cardinality(S) <= n
    BY <1>1, <1>2, FS_Subset, FS_CardinalityType
<1>4. taken <= Cardinality(S)
    <2>1. 1..taken \in SUBSET S
        BY <1>1 DEF Ordered
    <2>2. taken \in Nat
        BY <1>1
    <2>3. Cardinality(1..taken) = taken
        BY <2>2, UpToLemma
    <2>4. Cardinality(1..taken) <= Cardinality(S)
        BY <1>3, <2>1, FS_Subset
    <2> QED BY <2>3, <2>4
<1>5. ASSUME NEW m \in 1..Cardinality(S)
      PROVE  owner[m] <= c
    <2> SUFFICES ASSUME ~(owner[m] <= c) PROVE FALSE
        OBVIOUS
    <2>1. m \in 1..n
        BY <1>3
    <2>2. ASSUME NEW k \in S PROVE k < m
        <3>1. k \in 1..n /\ owner[k] <= c /\ owner[k] \in Nat /\ owner[m] \in Nat
            BY <1>1, <2>1
        <3>2. m <= k => owner[m] <= owner[k]
            BY <1>1, <2>1, <3>1 DEF Ordered
        <3>3. ~(m <= k)
            BY <3>1, <3>2
        <3> QED BY <2>1, <3>1, <3>3
    <2>3. S \in SUBSET (1..(m - 1))
        BY <1>1, <2>1, <2>2
    <2>4. IsFiniteSet(1..(m - 1)) /\ Cardinality(1..(m - 1)) = m - 1
        BY <1>1, <2>1, UpToLemma
    <2>5. Cardinality(S) <= m - 1
        BY <2>3, <2>4, FS_Subset
    <2> QED BY <1>3, <2>1, <2>5
<1> QED BY <1>1, <1>3, <1>4, <1>5 DEF SentUpTo

\* The next record is of a message, sent on the connection accepted last.
LEMMA HasRecordLemma ==
    ASSUME FInv, Ordered, HasRecord
    PROVE  /\ taken + 1 \in DOMAIN owner /\ taken + 1 \in Msg
           /\ owner[taken + 1] = accepted
BY OrderedFacts, BoundAssumption DEF Ordered, HasRecord, Msg

LEMMA OrderedStays ==
    ASSUME Ordered, UNCHANGED clientVars
    PROVE  Ordered'
BY DEF Ordered, clientVars

LEMMA DispatchStepOrdered ==
    ASSUME FInv, Ordered, DispatchStep
    PROVE  Ordered'
<1> USE OrderedFacts, OrderedStays DEF envVars
<1>1. CASE AcceptRefuses
    <2>1. /\ accepted + 1 \in Nat /\ accepted + 1 >= accepted /\ accepted + 1 \in Conn
          /\ accepted' = accepted + 1 /\ UNCHANGED <<conns, owner>>
          /\ peer' = [peer EXCEPT ![accepted + 1] = "down"] /\ taken' = SentUpTo(accepted + 1)
        BY <1>1, BoundAssumption DEF AcceptRefuses, FInv, Typed, Conn
    <2>2. taken' \in 0..Len(owner) /\ \A m \in 1..taken' : owner[m] <= accepted'
        BY <2>1, SentUpToLemma
    <2>3. peer' \in [Conn -> {"none", "up", "down"}] /\ \A c \in Conn : peer'[c] = "up" => c = conns'
        BY <2>1 DEF Ordered
    <2> QED BY <2>1, <2>2, <2>3 DEF Ordered
<1>2. CASE \E f \in Fd : AcceptBluetooth(f)
    BY <1>2 DEF AcceptBluetooth, Ordered
<1>3. CASE pushRecord \/ PushUndecodable
    <2>1. taken' = taken + 1 /\ HasRecord /\ UNCHANGED <<conns, accepted, peer, owner>>
        BY <1>3 DEF pushRecord, PushUndecodable
    <2> QED BY <2>1, HasRecordLemma DEF Ordered
<1>4. CASE CloseFd
    <2>1. taken' = SentUpTo(accepted) /\ UNCHANGED <<conns, accepted, peer, owner>>
        BY <1>4 DEF CloseFd
    <2>2. taken' \in 0..Len(owner) /\ \A m \in 1..taken' : owner[m] <= accepted
        BY <2>1, SentUpToLemma
    <2> QED BY <2>1, <2>2 DEF Ordered
<1>5. CASE SelectListen \/ SelectCommands \/ SelectFails \/ AcceptFails
    BY <1>5 DEF SelectListen, SelectCommands, SelectFails, AcceptFails
<1>6. CASE ReadNothing \/ UnsetCommandFd \/ sendDisconnect
    BY <1>6 DEF ReadNothing, UnsetCommandFd, sendDisconnect
<1> QED BY <1>1, <1>2, <1>3, <1>4, <1>5, <1>6 DEF DispatchStep

LEMMA ClientStepOrdered ==
    ASSUME FInv, Ordered, ClientStep
    PROVE  Ordered'
<1> USE OrderedFacts
<1>1. CASE Connect
    <2>1. conns' = conns + 1 /\ conns + 1 \in Conn /\ UNCHANGED <<owner, taken, accepted>>
        BY <1>1, BoundAssumption DEF Connect, Conn
    <2>2. peer' \in [Conn -> {"none", "up", "down"}] /\ \A c \in Conn : peer'[c] = "up" => c = conns'
        BY <1>1, <2>1 DEF Connect, Ordered
    <2> QED BY <2>1, <2>2 DEF Ordered
<1>2. CASE \E c \in Conn : ClientSend(c)
    <2>1. PICK c \in Conn : ClientSend(c)
        BY <1>2
    <2>2. /\ c = conns /\ Len(owner) < MaxMsg /\ owner' = Append(owner, c)
          /\ UNCHANGED <<conns, accepted, peer, taken>>
        BY <2>1 DEF ClientSend, Ordered
    <2>3. /\ owner' \in Seq(Conn) /\ Len(owner') = Len(owner) + 1
          /\ DOMAIN owner' = 1..(Len(owner) + 1)
          /\ \A m \in DOMAIN owner : owner'[m] = owner[m]
          /\ owner'[Len(owner) + 1] = conns
        BY <2>2 DEF Ordered
    <2> QED BY <2>2, <2>3, BoundAssumption DEF Ordered
<1>3. CASE \E c \in Conn : ClientClose(c)
    BY <1>3 DEF ClientClose, Ordered
<1> QED BY <1>1, <1>2, <1>3 DEF ClientStep

\* Nobody else changes what clients see.
LEMMA ThreadStepClients ==
    ASSUME NEW t, WorkerStep(t) \/ CompleteStep(t) \/ VendorStep(t)
    PROVE  UNCHANGED clientVars
<1> USE DEF envVars
<1>1. CASE WorkerStep(t)
    BY <1>1 DEF WorkerStep, Wait, Dequeue, dispatchRequest, OnRequest
<1>2. CASE CompleteStep(t)
    BY <1>2 DEF CompleteStep, onRequestComplete, LockAndTest, ReadCommandFd, WriteSome, WriteRest,
                WriteFails, CloseBroken, Unlock, checkAndDequeue, FreeHeader
<1>3. CASE VendorStep(t)
    BY <1>3 DEF VendorStep, VendorUnsolicited, VendorComplete
<1> QED BY <1>1, <1>2, <1>3

LEMMA NextOrdered == FInv /\ Ordered /\ [Next]_vars => Ordered'
<1> SUFFICES ASSUME FInv, Ordered, [Next]_vars PROVE Ordered'
    OBVIOUS
<1>1. CASE UNCHANGED vars
    BY <1>1, OrderedStays DEF vars, envVars
<1> QED BY <1>1, OrderedStays, ThreadStepClients, DispatchStepOrdered, ClientStepOrdered DEF Next

\* A thread moves to l with message m.
LEMMA InWorkMoves ==
    ASSUME FInv, InWork, NEW t \in Thread, NEW l, NEW m \in Msg \cup {0}, Goto(t, l),
           arg' = [arg EXCEPT ![t] = m],
           l \in {"none", "idle", "dequeue", "waiting"} => m = 0,
           l \in {"dispatch", "onrequest", "complete", "remove"} => m # 0,
           t = Dispatch => m = 0
    PROVE  InWork'
<1>1. pc'[t] = l /\ \A u \in Thread : u # t => pc'[u] = pc[u]
    BY DEF FInv, Typed, Goto
<1>2. arg' \in [Thread -> Msg \cup {0}] /\ arg'[t] = m /\ \A u \in Thread : u # t => arg'[u] = arg[u]
    BY DEF InWork
<1> QED BY <1>1, <1>2, DispatchThread DEF InWork

LEMMA InWorkStays ==
    ASSUME FInv, InWork, NEW t \in Thread, NEW l, Goto(t, l), UNCHANGED arg,
           l \in {"none", "idle", "dequeue", "waiting"} => arg[t] = 0,
           l \in {"dispatch", "onrequest", "complete", "remove"} => arg[t] # 0
    PROVE  InWork'
<1>1. arg' = [arg EXCEPT ![t] = arg[t]] /\ arg[t] \in Msg \cup {0} /\ (t = Dispatch => arg[t] = 0)
    BY DEF InWork
<1> QED BY <1>1, InWorkMoves

LEMMA ThreadStepInWork ==
    ASSUME FInv, HInv, NEW t \in Worker \cup VThread,
           (t \in Worker /\ WorkerStep(t)) \/ CompleteStep(t) \/ (t \in VThread /\ VendorStep(t))
    PROVE  InWork'
<1>1. t \in Thread /\ t # Dispatch /\ InWork
    BY ThreadAssumption DEF Thread, HInv
<1>2. 0 \notin Msg
    BY BoundAssumption DEF Msg
<1>3. CASE Wait(t)
    BY <1>1, <1>3, InWorkStays DEF Wait, InWork
<1>4. CASE Dequeue(t)
    <2>1. Head(dispatchQueue) \in Msg
        BY <1>4 DEF Dequeue, HInv, OneOwner
    <2> QED BY <1>1, <1>2, <1>4, <2>1, InWorkMoves DEF Dequeue, GotoWith
<1>5. CASE dispatchRequest(t)
    BY <1>1, <1>5, InWorkStays DEF dispatchRequest, InWork
<1>6. CASE OnRequest(t)
    <2>1. CASE GotoWith(t, "dequeue", 0)
        BY <1>1, <2>1, InWorkMoves DEF GotoWith
    <2>2. CASE UNCHANGED arg /\ Goto(t, "complete")
        BY <1>1, <1>6, <2>2, InWorkStays DEF OnRequest, InWork
    <2> QED BY <1>6, <2>1, <2>2 DEF OnRequest
<1>7. CASE onRequestComplete(t)
    <2>1. PICK l \in {"lock", "remove"} : Goto(t, l)
        BY <1>7 DEF onRequestComplete, Goto
    <2> QED BY <1>1, <1>7, <2>1, InWorkStays DEF onRequestComplete, InWork
<1>8. CASE LockAndTest(t)
    BY <1>1, <1>8, InWorkStays DEF LockAndTest
<1>9. CASE ReadCommandFd(t)
    BY <1>1, <1>9, InWorkStays DEF ReadCommandFd
<1>10. CASE WriteSome(t)
    BY <1>1, <1>10, InWorkStays DEF WriteSome
<1>11. CASE WriteRest(t)
    BY <1>1, <1>11, InWorkStays DEF WriteRest
<1>12. CASE WriteFails(t)
    BY <1>1, <1>12, InWorkStays DEF WriteFails
<1>13. CASE CloseBroken(t)
    BY <1>1, <1>13, InWorkStays DEF CloseBroken
<1>14. CASE Unlock(t)
    BY <1>1, <1>14, InWorkStays DEF Unlock
<1>15. CASE checkAndDequeue(t)
    BY <1>1, <1>15, InWorkStays DEF checkAndDequeue
<1>16. CASE FreeHeader(t)
    BY <1>1, <1>16, InWorkMoves DEF FreeHeader, GotoWith, Base
<1>17. CASE VendorUnsolicited(t)
    BY <1>1, <1>17, InWorkMoves DEF VendorUnsolicited, GotoWith
<1>18. CASE \E m \in Msg : VendorComplete(t, m)
    BY <1>1, <1>2, <1>18, InWorkMoves DEF VendorComplete, GotoWith
<1> QED BY <1>3, <1>4, <1>5, <1>6, <1>7, <1>8, <1>9, <1>10, <1>11, <1>12, <1>13, <1>14, <1>15, <1>16,
           <1>17, <1>18 DEF WorkerStep, CompleteStep, VendorStep

LEMMA DispatchStepInWork ==
    ASSUME FInv, WInv, InWork, DispatchStep
    PROVE  InWork'
<1> USE DispatchThread DEF clientVars, envVars, threadVars
<1>1. CASE \E f \in Fd : AcceptBluetooth(f)
    <2> DEFINE w == WThread[accepted + 1]
    <2>1. /\ pc' = [pc EXCEPT ![Dispatch] = "select", ![w] = "dequeue"]
          /\ pc[Dispatch] = "accept" /\ UNCHANGED arg
        BY <1>1 DEF AcceptBluetooth
    <2>2. accepted + 1 \in Conn /\ accepted + 1 > accepted
        BY <2>1, BoundAssumption DEF FInv, Typed, Conn
    <2>3. w \in Thread /\ w # Dispatch /\ pc[w] = "none"
        BY <2>2, WorkerThread, ThreadAssumption DEF WInv, Unstarted
    <2>4. pc'[w] = "dequeue" /\ pc'[Dispatch] = "select"
          /\ \A u \in Thread : u # w /\ u # Dispatch => pc'[u] = pc[u]
        BY <2>1, <2>3 DEF FInv, Typed
    <2> HIDE DEF w
    <2> QED BY <2>1, <2>3, <2>4 DEF InWork
<1>2. CASE pushRecord
    <2>1. pc' = Broadcast /\ UNCHANGED arg
        BY <1>2 DEF pushRecord
    <2>2. \A u \in Thread : pc'[u] = pc[u] \/ (pc[u] = "waiting" /\ pc'[u] = "dequeue")
        BY <2>1 DEF Broadcast
    <2> QED BY <2>1, <2>2 DEF InWork
<1>3. CASE PushUndecodable
    BY <1>3 DEF PushUndecodable, InWork
<1>4. CASE SelectListen
    BY <1>4, InWorkStays DEF SelectListen
<1>5. CASE SelectCommands
    BY <1>5, InWorkStays DEF SelectCommands
<1>6. CASE SelectFails
    BY <1>6, InWorkStays DEF SelectFails
<1>7. CASE AcceptFails
    BY <1>7, InWorkStays DEF AcceptFails
<1>8. CASE AcceptRefuses
    BY <1>8, InWorkStays DEF AcceptRefuses
<1>9. CASE ReadNothing
    BY <1>9, InWorkStays DEF ReadNothing
<1>10. CASE CloseFd
    BY <1>10, InWorkStays DEF CloseFd
<1>11. CASE UnsetCommandFd
    BY <1>11, InWorkStays DEF UnsetCommandFd
<1>12. CASE sendDisconnect
    BY <1>12, InWorkStays DEF sendDisconnect
<1> QED BY <1>1, <1>2, <1>3, <1>4, <1>5, <1>6, <1>7, <1>8, <1>9, <1>10, <1>11, <1>12 DEF DispatchStep

\* What taking from dispatchQueue and adding to it does.
LEMMA HeadLemma ==
    ASSUME NEW S, NEW q \in Seq(S), q # <<>>
    PROVE  /\ Head(q) \in S /\ Head(q) = q[1] /\ 1 \in DOMAIN q
           /\ Tail(q) \in Seq(S)
           /\ DOMAIN q = 1..Len(q) /\ DOMAIN Tail(q) = 1..(Len(q) - 1) /\ Len(q) \in Nat
           /\ \A i \in DOMAIN Tail(q) : Tail(q)[i] = q[i + 1] /\ i + 1 \in DOMAIN q
OBVIOUS

LEMMA EnqueueLemma ==
    ASSUME NEW S, NEW q \in Seq(S), NEW m \in S
    PROVE  /\ enqueue(q, m) \in Seq(S)
           /\ DOMAIN q = 1..Len(q) /\ DOMAIN enqueue(q, m) = 1..(Len(q) + 1) /\ Len(q) \in Nat
           /\ enqueue(q, m)[1] = m
           /\ \A i \in DOMAIN q : enqueue(q, m)[i + 1] = q[i]
BY DEF enqueue

\* An entry that is on the queue once leaves it and the others stay.
LEMMA TailLemma ==
    ASSUME NEW S, NEW q \in Seq(S), q # <<>>,
           \A i, j \in DOMAIN q : q[i] = q[j] => i = j
    PROVE  /\ \A i, j \in DOMAIN Tail(q) : Tail(q)[i] = Tail(q)[j] => i = j
           /\ \A m : (\E i \in DOMAIN Tail(q) : Tail(q)[i] = m)
                     <=> (\E i \in DOMAIN q : q[i] = m) /\ m # Head(q)
<1> USE HeadLemma
<1>1. \A i, j \in DOMAIN Tail(q) : Tail(q)[i] = Tail(q)[j] => i = j
    <2> SUFFICES ASSUME NEW i \in DOMAIN Tail(q), NEW j \in DOMAIN Tail(q), Tail(q)[i] = Tail(q)[j]
                 PROVE  i = j
        OBVIOUS
    <2>1. i \in Int /\ j \in Int /\ q[i + 1] = q[j + 1] /\ i + 1 \in DOMAIN q /\ j + 1 \in DOMAIN q
        OBVIOUS
    <2>2. i + 1 = j + 1
        BY <2>1
    <2> QED BY <2>1, <2>2
<1>2. ASSUME NEW m
      PROVE  (\E i \in DOMAIN Tail(q) : Tail(q)[i] = m) <=> (\E i \in DOMAIN q : q[i] = m) /\ m # Head(q)
    <2>1. ASSUME NEW i \in DOMAIN Tail(q), Tail(q)[i] = m
          PROVE  (\E k \in DOMAIN q : q[k] = m) /\ m # Head(q)
        <3>1. i + 1 \in DOMAIN q /\ q[i + 1] = m /\ i + 1 # 1
            BY <2>1
        <3> QED BY <3>1
    <2>2. ASSUME NEW i \in DOMAIN q, q[i] = m, m # Head(q)
          PROVE  \E k \in DOMAIN Tail(q) : Tail(q)[k] = m
        <3>1. i - 1 \in DOMAIN Tail(q) /\ (i - 1) + 1 = i
            BY <2>2
        <3>2. Tail(q)[i - 1] = q[(i - 1) + 1]
            BY <3>1
        <3> QED BY <2>2, <3>1, <3>2
    <2> QED BY <2>1, <2>2
<1> QED BY <1>1, <1>2

\* An entry that is not on the queue yet.
LEMMA NewEntryLemma ==
    ASSUME NEW S, NEW q \in Seq(S), NEW n \in S,
           \A i, j \in DOMAIN q : q[i] = q[j] => i = j,
           \A i \in DOMAIN q : q[i] # n
    PROVE  /\ \A i, j \in DOMAIN enqueue(q, n) : enqueue(q, n)[i] = enqueue(q, n)[j] => i = j
           /\ \A m : (\E i \in DOMAIN enqueue(q, n) : enqueue(q, n)[i] = m)
                     <=> (\E i \in DOMAIN q : q[i] = m) \/ m = n
<1> DEFINE e == enqueue(q, n)
<1>1. /\ DOMAIN q = 1..Len(q) /\ Len(q) \in Nat /\ DOMAIN e = 1..(Len(q) + 1)
      /\ e[1] = n /\ \A i \in DOMAIN q : e[i + 1] = q[i]
    BY EnqueueLemma
<1> HIDE DEF e
<1>2. \A i \in DOMAIN e : i # 1 => i - 1 \in DOMAIN q /\ e[i] = q[i - 1]
    <2> SUFFICES ASSUME NEW i \in DOMAIN e, i # 1 PROVE i - 1 \in DOMAIN q /\ e[i] = q[i - 1]
        OBVIOUS
    <2>1. i - 1 \in DOMAIN q /\ (i - 1) + 1 = i
        BY <1>1
    <2>2. e[(i - 1) + 1] = q[i - 1]
        BY <1>1, <2>1
    <2> QED BY <2>1, <2>2
<1>3. \A i, j \in DOMAIN e : e[i] = e[j] => i = j
    <2> SUFFICES ASSUME NEW i \in DOMAIN e, NEW j \in DOMAIN e, e[i] = e[j] PROVE i = j
        OBVIOUS
    <2>1. i \in Int /\ j \in Int
        BY <1>1
    <2>2. CASE i = 1 \/ j = 1
        BY <1>1, <1>2, <2>2
    <2>3. CASE i # 1 /\ j # 1
        <3>1. i - 1 = j - 1
            BY <1>2, <2>3
        <3> QED BY <2>1, <3>1
    <2> QED BY <2>2, <2>3
<1>4. ASSUME NEW m
      PROVE  (\E i \in DOMAIN e : e[i] = m) <=> (\E i \in DOMAIN q : q[i] = m) \/ m = n
    <2>1. 1 \in DOMAIN e /\ \A i \in DOMAIN q : i + 1 \in DOMAIN e
        BY <1>1
    <2> QED BY <1>1, <1>2, <2>1
<1> QED BY <1>3, <1>4 DEF e

\* Every message stays where it is.
LEMMA OwnerStays ==
    ASSUME OneOwner, UNCHANGED <<dispatchQueue, vendor, header, arg>>,
           taken \in Nat, taken' \in Nat, taken' >= taken
    PROVE  OneOwner'
<1>1. header' \subseteq 1..taken'
    BY DEF OneOwner
<1> QED BY <1>1 DEF OneOwner, Queued, InHand

\* What thread t has in hand when it had nothing, or has put down.
LEMMA InHandLemma ==
    ASSUME HInv, NEW t \in Thread, NEW m \in Msg \cup {0}, arg' = [arg EXCEPT ![t] = m],
           arg[t] = 0 \/ m = 0
    PROVE  /\ \A n \in Msg : InHand(n)' <=> (InHand(n) /\ n # arg[t]) \/ n = m
           /\ ~InHand(m) \/ m = 0 =>
                 \A u, v \in Thread : arg'[u] = arg'[v] /\ arg'[u] # 0 => u = v
           /\ InHand(arg[t])
<1>1. arg \in [Thread -> Msg \cup {0}] /\ 0 \notin Msg
    BY BoundAssumption DEF HInv, InWork, Msg
<1>2. arg'[t] = m /\ \A u \in Thread : u # t => arg'[u] = arg[u]
    BY <1>1
<1>3. \A u, v \in Thread : arg[u] = arg[v] /\ arg[u] # 0 => u = v
    BY DEF HInv, OneOwner
<1> QED BY <1>1, <1>2, <1>3 DEF InHand

LEMMA DequeueOwner ==
    ASSUME HInv, NEW t \in Worker, Dequeue(t)
    PROVE  OneOwner'
<1> DEFINE q == dispatchQueue
           n == Head(q)
<1> t \in Thread
    BY DEF Thread
<1>1. /\ q # <<>> /\ q' = Tail(q) /\ arg' = [arg EXCEPT ![t] = n] /\ pc[t] = "dequeue"
      /\ UNCHANGED <<vendor, header, taken>>
    BY DEF Dequeue, GotoWith, envVars, clientVars
<1>2. OneOwner /\ arg[t] = 0 /\ q \in Seq(Msg)
    BY <1>1 DEF HInv, InWork, OneOwner
<1>3. n \in Msg /\ Queued(n) /\ Tail(q) \in Seq(Msg)
    BY <1>1, <1>2, HeadLemma DEF Queued
<1>4. /\ \A i, j \in DOMAIN Tail(q) : Tail(q)[i] = Tail(q)[j] => i = j
      /\ \A m \in Msg : Queued(m)' <=> Queued(m) /\ m # n
    <2>1. \A i, j \in DOMAIN q : q[i] = q[j] => i = j
        BY <1>2 DEF OneOwner
    <2>2. /\ \A i, j \in DOMAIN Tail(q) : Tail(q)[i] = Tail(q)[j] => i = j
          /\ \A m : (\E i \in DOMAIN Tail(q) : Tail(q)[i] = m)
                    <=> (\E i \in DOMAIN q : q[i] = m) /\ m # n
        BY <1>1, <1>2, <2>1, TailLemma
    <2> HIDE DEF n
    <2> QED BY <1>1, <2>2 DEF Queued
<1>5. ~InHand(n)
    BY <1>2, <1>3 DEF OneOwner
<1>6. /\ \A m \in Msg : InHand(m)' <=> InHand(m) \/ m = n
      /\ \A u, v \in Thread : arg'[u] = arg'[v] /\ arg'[u] # 0 => u = v
    <2>1. 0 \notin Msg
        BY BoundAssumption DEF Msg
    <2> QED BY <1>1, <1>2, <1>3, <1>5, <2>1, InHandLemma
<1> HIDE DEF n
<1> QED BY <1>1, <1>2, <1>3, <1>4, <1>5, <1>6 DEF OneOwner

\* The vendor keeps it.
LEMMA OnRequestOwner ==
    ASSUME HInv, NEW t \in Worker, OnRequest(t)
    PROVE  OneOwner'
<1> DEFINE n == arg[t]
<1>1. t \in Thread /\ OneOwner /\ taken \in Nat
    BY DEF Thread, HInv, Ordered
<1>2. pc[t] = "onrequest" /\ UNCHANGED <<dispatchQueue, header, taken>>
    BY DEF OnRequest, listVars, envVars, clientVars
<1>3. CASE UNCHANGED <<vendor, arg>>
    BY <1>1, <1>2, <1>3, OwnerStays
<1>4. CASE vendor' = vendor \cup {n} /\ arg' = [arg EXCEPT ![t] = 0]
    <2>1. n \in Msg /\ InHand(n) /\ 0 \notin Msg
        BY <1>1, <1>2, BoundAssumption DEF HInv, InWork, InHand, Msg
    <2>2. /\ \A m \in Msg : InHand(m)' <=> InHand(m) /\ m # n
          /\ \A u, v \in Thread : arg'[u] = arg'[v] /\ arg'[u] # 0 => u = v
        <3>1. 0 \in Msg \cup {0} /\ \A m \in Msg : m # 0
            BY <2>1
        <3>2. /\ \A m \in Msg : InHand(m)' <=> (InHand(m) /\ m # arg[t]) \/ m = 0
              /\ \A u, v \in Thread : arg'[u] = arg'[v] /\ arg'[u] # 0 => u = v
            BY <1>1, <1>4, <3>1, InHandLemma
        <3> HIDE DEF InHand
        <3> QED BY <3>1, <3>2
    <2>3. \A m \in Msg : Queued(m)' <=> Queued(m)
        BY <1>2 DEF Queued
    <2> HIDE DEF n
    <2> QED BY <1>1, <1>2, <1>4, <2>1, <2>2, <2>3 DEF OneOwner
<1> QED BY <1>3, <1>4 DEF OnRequest, GotoWith

\* The vendor completes it.
LEMMA VendorCompleteOwner ==
    ASSUME HInv, NEW t \in VThread, NEW n \in Msg, VendorComplete(t, n)
    PROVE  OneOwner'
<1>1. t \in Thread /\ OneOwner
    BY DEF Thread, HInv
<1>2. /\ pc[t] = "idle" /\ n \in vendor /\ vendor' = vendor \ {n} /\ arg' = [arg EXCEPT ![t] = n]
      /\ UNCHANGED <<dispatchQueue, header, taken>>
    BY DEF VendorComplete, GotoWith, listVars, envVars, clientVars
<1>3. arg[t] = 0 /\ 0 \notin Msg /\ ~InHand(n)
    BY <1>1, <1>2, BoundAssumption DEF HInv, InWork, OneOwner, Msg
<1>4. /\ \A m \in Msg : InHand(m)' <=> InHand(m) \/ m = n
      /\ \A u, v \in Thread : arg'[u] = arg'[v] /\ arg'[u] # 0 => u = v
    BY <1>1, <1>2, <1>3, InHandLemma
<1>5. \A m \in Msg : Queued(m)' <=> Queued(m)
    BY <1>2 DEF Queued
<1> QED BY <1>1, <1>2, <1>3, <1>4, <1>5 DEF OneOwner

LEMMA FreeHeaderOwner ==
    ASSUME HInv, NEW t \in Thread, FreeHeader(t)
    PROVE  OneOwner'
<1> DEFINE n == arg[t]
<1>1. /\ header' = header \ {n} /\ arg' = [arg EXCEPT ![t] = 0]
      /\ UNCHANGED <<dispatchQueue, vendor, taken>> /\ OneOwner
    BY DEF FreeHeader, GotoWith, envVars, clientVars, HInv
<1>2. 0 \notin Msg /\ InHand(n)
    BY BoundAssumption DEF Msg, InHand
<1>3. /\ \A m \in Msg : InHand(m)' <=> InHand(m) /\ m # n
      /\ \A u, v \in Thread : arg'[u] = arg'[v] /\ arg'[u] # 0 => u = v
    BY <1>1, <1>2, InHandLemma
<1>4. \A m \in Msg : Queued(m)' <=> Queued(m)
    BY <1>1 DEF Queued
<1> HIDE DEF n
<1> QED BY <1>1, <1>2, <1>3, <1>4 DEF OneOwner

\* A message that was never read before.
LEMMA PushOwner ==
    ASSUME FInv, HInv, pushRecord
    PROVE  OneOwner'
<1> DEFINE n == taken + 1
           q == dispatchQueue
<1>1. /\ HasRecord /\ taken' = n /\ header' = header \cup {n} /\ q' = enqueue(q, n)
      /\ UNCHANGED <<vendor, arg>>
    BY DEF pushRecord
<1>2. OneOwner /\ Ordered /\ n \in Msg /\ taken \in Nat
    BY <1>1, HasRecordLemma DEF HInv, Ordered
<1>3. n \notin header
    BY <1>2 DEF OneOwner
<1>4. ~Queued(n) /\ n \notin vendor /\ ~InHand(n)
    BY <1>2, <1>3 DEF OneOwner
<1>5. q \in Seq(Msg) /\ (\A i, j \in DOMAIN q : q[i] = q[j] => i = j) /\ \A i \in DOMAIN q : q[i] # n
    BY <1>2, <1>4 DEF OneOwner, Queued
<1>6. /\ enqueue(q, n) \in Seq(Msg)
      /\ \A i, j \in DOMAIN enqueue(q, n) : enqueue(q, n)[i] = enqueue(q, n)[j] => i = j
      /\ \A m : (\E i \in DOMAIN enqueue(q, n) : enqueue(q, n)[i] = m)
                <=> (\E i \in DOMAIN q : q[i] = m) \/ m = n
    BY <1>2, <1>5, EnqueueLemma, NewEntryLemma
<1>7. \A m \in Msg : /\ Queued(m)' <=> Queued(m) \/ m = n
                     /\ InHand(m)' <=> InHand(m)
    BY <1>1, <1>6 DEF Queued, InHand
<1>8. header' \subseteq 1..taken'
    BY <1>1, <1>2 DEF OneOwner
<1> HIDE DEF n
<1> QED BY <1>1, <1>2, <1>3, <1>4, <1>6, <1>7, <1>8 DEF OneOwner

LEMMA ThreadStepOwner ==
    ASSUME FInv, HInv, NEW t \in Worker \cup VThread,
           (t \in Worker /\ WorkerStep(t)) \/ CompleteStep(t) \/ (t \in VThread /\ VendorStep(t))
    PROVE  OneOwner'
<1> USE DEF queueVars, listVars, envVars, clientVars
<1>1. t \in Thread /\ OneOwner /\ taken \in Nat
    BY DEF Thread, HInv, Ordered
<1>2. CASE Wait(t) \/ dispatchRequest(t)
    BY <1>1, <1>2, OwnerStays DEF Wait, dispatchRequest
<1>3. CASE onRequestComplete(t) \/ LockAndTest(t) \/ ReadCommandFd(t) \/ Unlock(t) \/ checkAndDequeue(t)
    BY <1>1, <1>3, OwnerStays DEF onRequestComplete, LockAndTest, ReadCommandFd, Unlock, checkAndDequeue
<1>4. CASE WriteSome(t) \/ WriteRest(t) \/ WriteFails(t) \/ CloseBroken(t)
    BY <1>1, <1>4, OwnerStays DEF WriteSome, WriteRest, WriteFails, CloseBroken
<1>5. CASE t \in VThread /\ VendorUnsolicited(t)
    <2>1. arg' = arg
        BY <1>1, <1>5 DEF VendorUnsolicited, GotoWith, HInv, InWork
    <2> QED BY <1>1, <1>5, <2>1, OwnerStays DEF VendorUnsolicited
<1> QED BY <1>1, <1>2, <1>3, <1>4, <1>5, DequeueOwner, OnRequestOwner, VendorCompleteOwner, FreeHeaderOwner
        DEF WorkerStep, CompleteStep, VendorStep

LEMMA DispatchStepOwner ==
    ASSUME FInv, HInv, DispatchStep
    PROVE  OneOwner'
<1> USE DEF queueVars, listVars, threadVars, envVars, clientVars
<1>1. FInv /\ Ordered /\ OneOwner /\ taken \in Nat /\ Len(owner) \in Nat
    BY DEF HInv, Ordered
<1>2. CASE AcceptRefuses \/ CloseFd
    <2>1. PICK c \in {accepted, accepted + 1} : taken' = SentUpTo(c)
        BY <1>2 DEF AcceptRefuses, CloseFd
    <2>2. c \in Nat /\ c >= accepted
        BY <1>1, <2>1, OrderedFacts
    <2>3. taken' \in Nat /\ taken' >= taken
        BY <1>1, <2>1, <2>2, SentUpToLemma
    <2> QED BY <1>1, <1>2, <2>3, OwnerStays DEF AcceptRefuses, CloseFd
<1>3. CASE \E f \in Fd : AcceptBluetooth(f)
    BY <1>1, <1>3, OwnerStays DEF AcceptBluetooth
<1>4. CASE PushUndecodable
    BY <1>1, <1>4, OwnerStays DEF PushUndecodable
<1>5. CASE SelectListen \/ SelectCommands \/ SelectFails \/ AcceptFails
    BY <1>1, <1>5, OwnerStays DEF SelectListen, SelectCommands, SelectFails, AcceptFails
<1>6. CASE ReadNothing \/ UnsetCommandFd \/ sendDisconnect
    BY <1>1, <1>6, OwnerStays DEF ReadNothing, UnsetCommandFd, sendDisconnect
<1> QED BY <1>2, <1>3, <1>4, <1>5, <1>6, PushOwner DEF DispatchStep

LEMMA NextHInv == FInv /\ WInv /\ HInv /\ [Next]_vars => HInv'
<1> SUFFICES ASSUME FInv, WInv, HInv, [Next]_vars PROVE HInv'
    OBVIOUS
<1>1. Ordered'
    BY NextOrdered DEF HInv
<1>2. CASE ClientStep \/ UNCHANGED vars
    <2>1. UNCHANGED <<queueVars, threadVars, taken>>
        BY <1>2 DEF ClientStep, Connect, ClientSend, ClientClose, vars, envVars, clientVars
    <2>2. InWork'
        BY <2>1 DEF threadVars, HInv, InWork
    <2>3. OneOwner'
        BY <2>1, OwnerStays DEF threadVars, queueVars, listVars, HInv, Ordered
    <2> QED BY <1>1, <2>2, <2>3 DEF HInv
<1>3. CASE DispatchStep
    BY <1>1, <1>3, DispatchStepInWork, DispatchStepOwner DEF HInv
<1>4. ASSUME NEW t \in Worker \cup VThread,
             (t \in Worker /\ WorkerStep(t)) \/ CompleteStep(t) \/ (t \in VThread /\ VendorStep(t))
      PROVE  HInv'
    BY <1>1, <1>4, ThreadStepInWork, ThreadStepOwner DEF HInv
<1> QED BY <1>2, <1>3, <1>4 DEF Next

LEMMA InitHInv == Init => HInv
<1> SUFFICES ASSUME Init PROVE HInv
    OBVIOUS
<1>1. Ordered
    BY BoundAssumption DEF Init, Ordered
<1>2. InWork
    BY DispatchThread DEF Init, InWork
<1>3. OneOwner
    <2>1. 0 \notin Msg
        BY BoundAssumption DEF Msg
    <2> QED BY <2>1 DEF Init, OneOwner, Queued, InHand
<1> QED BY <1>1, <1>2, <1>3 DEF HInv

LEMMA AlwaysHInv == Spec => []HInv
<1>1. Init => FInv /\ WInv /\ HInv
    BY InitFInv, InitWInv, InitHInv
<1>2. FInv /\ WInv /\ HInv /\ [Next]_vars => (FInv /\ WInv /\ HInv)'
    BY NextFInv, NextWInv, NextHInv
<1> QED BY <1>1, <1>2, PTL DEF Spec

\* How many there are, of a set of at most one.
LEMMA AtMostOne ==
    ASSUME NEW S, \A x, y \in S : x = y
    PROVE  Cardinality(S) = IF \E x : x \in S THEN 1 ELSE 0
<1>1. CASE S = {}
    BY <1>1, FS_EmptySet
<1>2. ASSUME NEW x \in S PROVE Cardinality(S) = 1
    <2>1. S = {x}
        BY <1>2
    <2> QED BY <2>1, FS_Singleton
<1> QED BY <1>1, <1>2

\* Ril_queue and RilSapSocket keep track of every message: from pushRecord to the end of
\* onRequestComplete it is on dispatchQueue, with one thread or with the vendor, and its
\* MsgHeader is freed once, by the last of them.
THEOREM HeaderAlwaysOwnedOnce == Spec => []HeaderOwnedOnce
<1>1. ASSUME HInv PROVE HeaderOwnedOnce
    <2> SUFFICES ASSUME NEW m \in Msg
                 PROVE  Cardinality({i \in DOMAIN dispatchQueue : dispatchQueue[i] = m})
                            + Cardinality({t \in Thread : arg[t] = m}) + Cardinality({m} \cap vendor)
                            = Cardinality({m} \cap header)
        BY DEF HeaderOwnedOnce
    <2>1. OneOwner /\ m # 0
        BY <1>1, BoundAssumption DEF HInv, Msg
    <2>2. Cardinality({i \in DOMAIN dispatchQueue : dispatchQueue[i] = m}) = IF Queued(m) THEN 1 ELSE 0
        <3> DEFINE S == {i \in DOMAIN dispatchQueue : dispatchQueue[i] = m}
        <3>1. \A x, y \in S : x = y
            BY <2>1 DEF OneOwner
        <3>2. (\E x : x \in S) <=> Queued(m)
            BY DEF Queued
        <3> QED BY <3>1, <3>2, AtMostOne
    <2>3. Cardinality({t \in Thread : arg[t] = m}) = IF InHand(m) THEN 1 ELSE 0
        <3> DEFINE S == {t \in Thread : arg[t] = m}
        <3>1. \A x, y \in S : x = y
            BY <2>1 DEF OneOwner
        <3>2. (\E x : x \in S) <=> InHand(m)
            BY DEF InHand
        <3> QED BY <3>1, <3>2, AtMostOne
    <2>4. Cardinality({m} \cap vendor) = IF m \in vendor THEN 1 ELSE 0
        <3>1. \A x, y \in {m} \cap vendor : x = y
            OBVIOUS
        <3>2. (\E x : x \in {m} \cap vendor) <=> m \in vendor
            OBVIOUS
        <3> QED BY <3>1, <3>2, AtMostOne
    <2>5. Cardinality({m} \cap header) = IF m \in header THEN 1 ELSE 0
        <3>1. \A x, y \in {m} \cap header : x = y
            OBVIOUS
        <3>2. (\E x : x \in {m} \cap header) <=> m \in header
            OBVIOUS
        <3> QED BY <3>1, <3>2, AtMostOne
    <2> QED BY <2>1, <2>2, <2>3, <2>4, <2>5 DEF OneOwner
<1> QED BY <1>1, AlwaysHInv, PTL

-----------------------------------------------------------------------------
(* Pending requests.                                                       *)

\* Removing the i-th entry.
LEMMA RemoveAtLemma ==
    ASSUME NEW S, NEW q \in Seq(S), NEW i \in DOMAIN q
    PROVE  /\ RemoveAt(q, i) \in Seq(S)
           /\ DOMAIN q = 1..Len(q) /\ Len(q) \in Nat
           /\ DOMAIN RemoveAt(q, i) = 1..(Len(q) - 1)
           /\ \A j \in 1..(Len(q) - 1) : RemoveAt(q, i)[j] = IF j < i THEN q[j] ELSE q[j + 1]
<1> DEFINE a == SubSeq(q, 1, i - 1)
           b == SubSeq(q, i + 1, Len(q))
<1>1. i \in Nat /\ i >= 1 /\ i <= Len(q) /\ Len(q) \in Nat /\ DOMAIN q = 1..Len(q)
    OBVIOUS
<1>2. a \in Seq(S) /\ Len(a) = i - 1 /\ \A j \in 1..(i - 1) : a[j] = q[j]
    BY <1>1
<1>3. b \in Seq(S) /\ Len(b) = Len(q) - i /\ \A j \in 1..(Len(q) - i) : b[j] = q[i + j]
    BY <1>1
<1>4. RemoveAt(q, i) = a \o b
    BY DEF RemoveAt
<1> HIDE DEF a, b
<1>5. /\ a \o b \in Seq(S) /\ Len(a \o b) = Len(a) + Len(b)
      /\ \A j \in 1..(Len(a) + Len(b)) : (a \o b)[j] = IF j <= Len(a) THEN a[j] ELSE b[j - Len(a)]
    <2>1. a \in Seq(S) /\ b \in Seq(S)
        BY <1>2, <1>3
    <2> QED BY <2>1
<1>6. Len(a) + Len(b) = Len(q) - 1 /\ DOMAIN (a \o b) = 1..(Len(q) - 1)
    <2>1. Len(a) + Len(b) = Len(q) - 1
        BY <1>1, <1>2, <1>3
    <2>2. \A s \in Seq(S) : DOMAIN s = 1..Len(s)
        OBVIOUS
    <2> QED BY <1>5, <2>1, <2>2
<1>7. ASSUME NEW j \in 1..(Len(q) - 1)
      PROVE  (a \o b)[j] = IF j < i THEN q[j] ELSE q[j + 1]
    <2>1. j \in Int /\ (a \o b)[j] = IF j <= i - 1 THEN a[j] ELSE b[j - (i - 1)]
        BY <1>2, <1>5, <1>6
    <2>2. CASE j < i
        <3>1. j \in 1..(i - 1)
            BY <1>1, <2>2
        <3> QED BY <1>1, <1>2, <2>1, <2>2, <3>1
    <2>3. CASE ~(j < i)
        <3>1. j - (i - 1) \in 1..(Len(q) - i) /\ i + (j - (i - 1)) = j + 1
            BY <1>1, <2>3
        <3>2. b[j - (i - 1)] = q[i + (j - (i - 1))]
            BY <1>3, <3>1
        <3> QED BY <1>1, <2>1, <2>3, <3>1, <3>2
    <2> QED BY <2>2, <2>3
<1> QED BY <1>1, <1>4, <1>5, <1>6, <1>7

LEMMA RemovedLemma ==
    ASSUME NEW S, NEW q \in Seq(S), NEW i \in DOMAIN q,
           \A j, k \in DOMAIN q : q[j] = q[k] => j = k
    PROVE  /\ \A j, k \in DOMAIN RemoveAt(q, i) : RemoveAt(q, i)[j] = RemoveAt(q, i)[k] => j = k
           /\ \A m : (\E j \in DOMAIN RemoveAt(q, i) : RemoveAt(q, i)[j] = m)
                     <=> (\E j \in DOMAIN q : q[j] = m) /\ m # q[i]
<1> DEFINE e == RemoveAt(q, i)
           Old(j) == IF j < i THEN j ELSE j + 1
<1>1. /\ DOMAIN q = 1..Len(q) /\ Len(q) \in Nat /\ DOMAIN e = 1..(Len(q) - 1)
      /\ \A j \in 1..(Len(q) - 1) : e[j] = IF j < i THEN q[j] ELSE q[j + 1]
    BY RemoveAtLemma
<1> HIDE DEF e
<1>2. \A j \in DOMAIN e : Old(j) \in DOMAIN q /\ Old(j) # i /\ e[j] = q[Old(j)]
    BY <1>1
<1>3. \A k \in DOMAIN q : k # i => \E j \in DOMAIN e : Old(j) = k
    <2> SUFFICES ASSUME NEW k \in DOMAIN q, k # i PROVE \E j \in DOMAIN e : Old(j) = k
        OBVIOUS
    <2>1. CASE k < i
        <3>1. k \in DOMAIN e /\ Old(k) = k
            BY <1>1, <2>1
        <3> QED BY <3>1
    <2>2. CASE k > i
        <3>1. k - 1 \in DOMAIN e /\ Old(k - 1) = k
            BY <1>1, <2>2
        <3> QED BY <3>1
    <2> QED BY <1>1, <2>1, <2>2
<1>4. \A j, k \in DOMAIN e : Old(j) = Old(k) => j = k
    BY <1>1
<1> HIDE DEF Old
<1>5. \A j, k \in DOMAIN e : e[j] = e[k] => j = k
    BY <1>2, <1>4
<1>6. ASSUME NEW m
      PROVE  (\E j \in DOMAIN e : e[j] = m) <=> (\E j \in DOMAIN q : q[j] = m) /\ m # q[i]
    BY <1>2, <1>3
<1> QED BY <1>5, <1>6 DEF e

\* What is outstanding, when thread t moves to l with message m and the vendor's share
\* changes.
LEMMA OutstandingStays ==
    ASSUME PInv, UNCHANGED <<pendingResponseQueue, alive>>,
           \A m \in Msg : Outstanding(m)' <=> Outstanding(m)
    PROVE  PInv'
<1> HIDE DEF Outstanding
<1> QED BY DEF PInv

\* The moves of a thread that change nothing about what is outstanding: between places
\* of the same kind, or with no message.
LEMMA OutstandingMove ==
    ASSUME FInv, PInv, UNCHANGED <<pendingResponseQueue, alive, vendor, arg>>,
           \A t \in Thread : \/ arg[t] = 0
                             \/ pc'[t] \in Completing \cup {"onrequest"} <=> pc[t] \in Completing \cup {"onrequest"}
    PROVE  PInv'
<1>1. 0 \notin Msg
    BY BoundAssumption DEF Msg
<1>2. \A m \in Msg : Outstanding(m)' <=> Outstanding(m)
    BY <1>1 DEF Outstanding
<1> QED BY <1>2, OutstandingStays

LEMMA OutstandingGoto ==
    ASSUME FInv, PInv, UNCHANGED <<pendingResponseQueue, alive, vendor, arg>>,
           NEW t \in Thread, NEW l, Goto(t, l),
           \/ arg[t] = 0
           \/ l \in Completing \cup {"onrequest"} <=> pc[t] \in Completing \cup {"onrequest"}
    PROVE  PInv'
<1>1. pc'[t] = l /\ \A u \in Thread : u # t => pc'[u] = pc[u]
    BY DEF FInv, Typed, Goto
<1> QED BY <1>1, OutstandingMove

\* A thread takes a message up that is outstanding with it just as long as it was before.
LEMMA OutstandingTaken ==
    ASSUME FInv, HInv, PInv, UNCHANGED <<pendingResponseQueue, alive>>,
           NEW t \in Thread, NEW l, Goto(t, l), NEW m \in Msg \cup {0},
           arg' = [arg EXCEPT ![t] = m],
           \A n \in Msg : n \in vendor' \/ (n = m /\ l \in Completing \cup {"onrequest"})
                          <=> n \in vendor \/ (n = arg[t] /\ pc[t] \in Completing \cup {"onrequest"})
    PROVE  PInv'
<1>1. pc'[t] = l /\ \A u \in Thread : u # t => pc'[u] = pc[u]
    BY DEF FInv, Typed, Goto
<1>2. arg'[t] = m /\ \A u \in Thread : u # t => arg'[u] = arg[u]
    BY DEF HInv, InWork
<1>3. \A n \in Msg : Outstanding(n)' <=> Outstanding(n)
    BY <1>1, <1>2 DEF Outstanding
<1> QED BY <1>3, OutstandingStays

\* A thread takes up or puts down a message that is not outstanding with it.
LEMMA OutstandingAside ==
    ASSUME FInv, HInv, PInv, UNCHANGED <<pendingResponseQueue, alive, vendor>>,
           NEW t \in Thread, NEW l, Goto(t, l), NEW m \in Msg \cup {0},
           arg' = [arg EXCEPT ![t] = m],
           arg[t] = 0 \/ pc[t] \notin Completing \cup {"onrequest"},
           m = 0 \/ l \notin Completing \cup {"onrequest"}
    PROVE  PInv'
<1>1. pc'[t] = l /\ \A u \in Thread : u # t => pc'[u] = pc[u]
    BY DEF FInv, Typed, Goto
<1>2. arg'[t] = m /\ \A u \in Thread : u # t => arg'[u] = arg[u]
    BY DEF HInv, InWork
<1>3. 0 \notin Msg
    BY BoundAssumption DEF Msg
<1>4. \A n \in Msg : Outstanding(n)' <=> Outstanding(n)
    BY <1>1, <1>2, <1>3 DEF Outstanding
<1> QED BY <1>4, OutstandingStays

\* The request that thread t gives to the vendor was not outstanding.
LEMMA dispatchRequestPInv ==
    ASSUME FInv, HInv, PInv, NEW t \in Thread, dispatchRequest(t)
    PROVE  PInv'
<1> DEFINE n == arg[t]
           q == pendingResponseQueue
<1>1. /\ pc[t] = "dispatch" /\ alive' = alive \cup {n} /\ q' = enqueue(q, n)
      /\ Goto(t, "onrequest") /\ UNCHANGED <<vendor, arg>>
    BY DEF dispatchRequest
<1>2. n \in Msg /\ OneOwner
    BY <1>1 DEF HInv, InWork
<1>3. pc'[t] = "onrequest" /\ \A u \in Thread : u # t => pc'[u] = pc[u]
    BY <1>1 DEF FInv, Typed, Goto
<1>4. n \notin vendor /\ \A u \in Thread : arg[u] = n => u = t
    <2>1. n # 0 /\ InHand(n)
        BY <1>2, BoundAssumption DEF InHand, Msg
    <2> QED BY <1>2, <2>1 DEF OneOwner
<1>5. ~Outstanding(n)
    BY <1>1, <1>4 DEF Outstanding, Completing
<1>6. \A m \in Msg : Outstanding(m)' <=> Outstanding(m) \/ m = n
    BY <1>1, <1>2, <1>3 DEF Outstanding
<1>7. q \in Seq(Msg) /\ (\A i, j \in DOMAIN q : q[i] = q[j] => i = j) /\ \A i \in DOMAIN q : q[i] # n
    BY <1>2, <1>5 DEF PInv
<1>8. /\ enqueue(q, n) \in Seq(Msg)
      /\ \A i, j \in DOMAIN enqueue(q, n) : enqueue(q, n)[i] = enqueue(q, n)[j] => i = j
      /\ \A m : (\E i \in DOMAIN enqueue(q, n) : enqueue(q, n)[i] = m)
                <=> (\E i \in DOMAIN q : q[i] = m) \/ m = n
    BY <1>2, <1>7, EnqueueLemma, NewEntryLemma
<1> HIDE DEF n, Outstanding
<1> QED BY <1>1, <1>2, <1>6, <1>8 DEF PInv

\* With tokens that differ, the first entry with a message's token is its own.
LEMMA checkAndDequeuePInv ==
    ASSUME IsInjective(TokenOf), FInv, HInv, PInv, NEW t \in Thread, checkAndDequeue(t)
    PROVE  PInv'
<1> DEFINE n == arg[t]
           q == pendingResponseQueue
<1>1. /\ pc[t] = "remove" /\ Goto(t, "free") /\ UNCHANGED <<vendor, arg>>
    BY DEF checkAndDequeue
<1>2. n \in Msg /\ OneOwner /\ InHand(n) /\ n # 0
    BY <1>1, BoundAssumption DEF HInv, InWork, InHand, Msg
<1>3. pc'[t] = "free" /\ \A u \in Thread : u # t => pc'[u] = pc[u]
    BY <1>1 DEF FInv, Typed, Goto
<1>4. n \notin vendor /\ n \in header /\ \A u \in Thread : arg[u] = n => u = t
    BY <1>2 DEF OneOwner
<1>5. Outstanding(n)
    BY <1>1 DEF Outstanding, Completing
<1>6. \A m \in Msg : Outstanding(m)' <=> Outstanding(m) /\ m # n
    BY <1>1, <1>2, <1>3, <1>4 DEF Outstanding, Completing
<1>7. /\ q \in Seq(Msg) /\ DOMAIN q = 1..Len(q) /\ Len(q) \in Nat
      /\ \A i \in DOMAIN q : q[i] \in Msg
      /\ \A i, j \in DOMAIN q : q[i] = q[j] => i = j
    BY DEF PInv
<1>8. PICK k \in DOMAIN q : q[k] = n
    BY <1>2, <1>5 DEF PInv
<1>9. \A i \in DOMAIN q : TokenOf[q[i]] = TokenOf[n] <=> i = k
    BY <1>2, <1>7, <1>8, TokenAssumption DEF IsInjective
<1>10. Matching(n) = {k}
    <2>1. \A i \in Matching(n) : i = k
        BY <1>9 DEF Matching
    <2>2. k \in Matching(n)
        <3>1. \A j \in 1..(k - 1) : j \in DOMAIN q /\ j # k
            BY <1>7, <1>8
        <3> QED BY <1>8, <1>9, <3>1 DEF Matching
    <2> QED BY <2>1, <2>2
<1>11. alive' = alive \ {n} /\ q' = RemoveAt(q, k)
    <2>1. ~\A i \in Matching(n) : q[i] \notin header
        BY <1>4, <1>8, <1>10
    <2>2. PICK i \in Matching(n) : alive' = alive \ {q[i]} /\ q' = RemoveAt(q, i)
        BY <2>1 DEF checkAndDequeue
    <2>3. i = k
        BY <1>10
    <2> QED BY <1>8, <2>2, <2>3
<1>12. /\ RemoveAt(q, k) \in Seq(Msg)
       /\ \A i, j \in DOMAIN RemoveAt(q, k) : RemoveAt(q, k)[i] = RemoveAt(q, k)[j] => i = j
       /\ \A m : (\E i \in DOMAIN RemoveAt(q, k) : RemoveAt(q, k)[i] = m)
                 <=> (\E i \in DOMAIN q : q[i] = m) /\ m # n
    <2>1. RemoveAt(q, k) \in Seq(Msg)
        BY <1>7, <1>8, RemoveAtLemma
    <2>2. \A i, j \in DOMAIN q : q[i] = q[j] => i = j
        BY <1>7
    <2>3. /\ \A i, j \in DOMAIN RemoveAt(q, k) : RemoveAt(q, k)[i] = RemoveAt(q, k)[j] => i = j
          /\ \A m : (\E i \in DOMAIN RemoveAt(q, k) : RemoveAt(q, k)[i] = m)
                    <=> (\E i \in DOMAIN q : q[i] = m) /\ m # q[k]
        BY <1>7, <1>8, <2>2, RemovedLemma
    <2> QED BY <1>8, <2>1, <2>3
<1> HIDE DEF n, Outstanding
<1> QED BY <1>2, <1>6, <1>11, <1>12 DEF PInv

LEMMA ThreadStepPInv ==
    ASSUME IsInjective(TokenOf), FInv, HInv, PInv, NEW t \in Worker \cup VThread,
           (t \in Worker /\ WorkerStep(t)) \/ CompleteStep(t) \/ (t \in VThread /\ VendorStep(t))
    PROVE  PInv'
<1> USE DEF queueVars, listVars, Completing
<1>1. t \in Thread /\ arg[t] \in Msg \cup {0}
    BY DEF Thread, HInv, InWork
<1>2. CASE Wait(t)
    BY <1>1, <1>2, OutstandingGoto DEF Wait
<1>3. CASE Dequeue(t)
    <2>1. Head(dispatchQueue) \in Msg \cup {0}
        BY <1>3, HeadLemma DEF Dequeue, HInv, OneOwner
    <2>2. /\ Goto(t, "dispatch") /\ arg' = [arg EXCEPT ![t] = Head(dispatchQueue)] /\ pc[t] = "dequeue"
          /\ UNCHANGED <<pendingResponseQueue, alive, vendor>>
        BY <1>3 DEF Dequeue, GotoWith
    <2>3. pc[t] \notin Completing \cup {"onrequest"} /\ "dispatch" \notin Completing \cup {"onrequest"}
        BY <2>2
    <2> HIDE DEF Completing
    <2> QED BY <1>1, <2>1, <2>2, <2>3, OutstandingAside
<1>4. CASE OnRequest(t)
    <2>1. CASE vendor' = vendor \cup {arg[t]} /\ GotoWith(t, "dequeue", 0)
        BY <1>1, <1>4, <2>1, OutstandingTaken DEF OnRequest, GotoWith
    <2>2. CASE UNCHANGED <<vendor, arg>> /\ Goto(t, "complete")
        BY <1>1, <1>4, <2>2, OutstandingGoto DEF OnRequest
    <2> QED BY <1>4, <2>1, <2>2 DEF OnRequest
<1>5. CASE onRequestComplete(t)
    <2>1. PICK l \in {"lock", "remove"} : Goto(t, l)
        BY <1>5 DEF onRequestComplete, Goto
    <2> QED BY <1>1, <1>5, <2>1, OutstandingGoto DEF onRequestComplete
<1>6. CASE LockAndTest(t)
    BY <1>1, <1>6, OutstandingGoto DEF LockAndTest
<1>7. CASE ReadCommandFd(t)
    BY <1>1, <1>7, OutstandingGoto DEF ReadCommandFd
<1>8. CASE WriteSome(t)
    BY <1>1, <1>8, OutstandingGoto DEF WriteSome
<1>9. CASE WriteRest(t)
    BY <1>1, <1>9, OutstandingGoto DEF WriteRest, CanWrite
<1>10. CASE WriteFails(t)
    BY <1>1, <1>10, OutstandingGoto DEF WriteFails
<1>11. CASE CloseBroken(t)
    BY <1>1, <1>11, OutstandingGoto DEF CloseBroken
<1>12. CASE Unlock(t)
    BY <1>1, <1>12, OutstandingGoto DEF Unlock
<1>13. CASE FreeHeader(t)
    <2>1. /\ Goto(t, Base(t)) /\ arg' = [arg EXCEPT ![t] = 0] /\ pc[t] = "free"
          /\ UNCHANGED <<pendingResponseQueue, alive, vendor>>
        BY <1>13 DEF FreeHeader, GotoWith
    <2> QED BY <1>1, <2>1, OutstandingAside
<1>14. CASE t \in VThread /\ VendorUnsolicited(t)
    <2>1. arg[t] = 0 /\ 0 \notin Msg
        BY <1>1, <1>14, BoundAssumption DEF VendorUnsolicited, HInv, InWork, Msg
    <2>2. /\ Goto(t, "lock") /\ arg' = [arg EXCEPT ![t] = 0]
          /\ UNCHANGED <<pendingResponseQueue, alive, vendor>>
        BY <1>14 DEF VendorUnsolicited, GotoWith
    <2> QED BY <1>1, <2>1, <2>2, OutstandingAside
<1>15. CASE \E m \in Msg : VendorComplete(t, m)
    <2>1. PICK m \in Msg : VendorComplete(t, m)
        BY <1>15
    <2>2. /\ Goto(t, "complete") /\ arg' = [arg EXCEPT ![t] = m] /\ pc[t] = "idle"
          /\ m \in vendor /\ vendor' = vendor \ {m} /\ UNCHANGED <<pendingResponseQueue, alive>>
        BY <2>1 DEF VendorComplete, GotoWith
    <2>3. \A n \in Msg : n \in vendor' \/ n = m <=> n \in vendor
        BY <2>2
    <2> QED BY <1>1, <2>2, <2>3, OutstandingTaken
<1> QED BY <1>1, <1>2, <1>3, <1>4, <1>5, <1>6, <1>7, <1>8, <1>9, <1>10, <1>11, <1>12, <1>13, <1>14, <1>15,
           dispatchRequestPInv, checkAndDequeuePInv DEF WorkerStep, CompleteStep, VendorStep

\* The dispatch thread has no message.
LEMMA DispatchStepPInv ==
    ASSUME FInv, WInv, HInv, PInv, DispatchStep
    PROVE  PInv'
<1> USE DispatchThread DEF queueVars, listVars, threadVars, Completing
<1>1. arg[Dispatch] = 0 /\ InWork
    BY DEF HInv, InWork
<1>2. CASE \E f \in Fd : AcceptBluetooth(f)
    <2> DEFINE w == WThread[accepted + 1]
    <2>1. /\ pc' = [pc EXCEPT ![Dispatch] = "select", ![w] = "dequeue"]
          /\ pc[Dispatch] = "accept" /\ UNCHANGED <<pendingResponseQueue, alive, vendor, arg>>
        BY <1>2 DEF AcceptBluetooth
    <2>2. accepted + 1 \in Conn /\ accepted + 1 > accepted
        BY <2>1, BoundAssumption DEF FInv, Typed, Conn
    <2>3. w \in Thread /\ pc[w] = "none" /\ arg[w] = 0
        BY <1>1, <2>2, WorkerThread DEF WInv, Unstarted, InWork
    <2>4. \A u \in Thread : u # w /\ u # Dispatch => pc'[u] = pc[u]
        BY <2>1 DEF FInv, Typed
    <2> HIDE DEF w
    <2> QED BY <1>1, <2>1, <2>3, <2>4, OutstandingMove
<1>3. CASE pushRecord
    <2>1. pc' = Broadcast /\ UNCHANGED <<pendingResponseQueue, alive, vendor, arg>>
        BY <1>3 DEF pushRecord
    <2>2. \A u \in Thread : pc'[u] = pc[u] \/ (pc[u] = "waiting" /\ pc'[u] = "dequeue")
        BY <2>1 DEF Broadcast
    <2> QED BY <2>1, <2>2, OutstandingMove
<1>4. CASE PushUndecodable
    BY <1>4, OutstandingMove DEF PushUndecodable
<1>5. CASE SelectListen
    BY <1>1, <1>5, OutstandingGoto DEF SelectListen
<1>6. CASE SelectCommands
    BY <1>1, <1>6, OutstandingGoto DEF SelectCommands
<1>7. CASE SelectFails
    BY <1>1, <1>7, OutstandingGoto DEF SelectFails
<1>8. CASE AcceptFails
    BY <1>1, <1>8, OutstandingGoto DEF AcceptFails
<1>9. CASE AcceptRefuses
    BY <1>1, <1>9, OutstandingGoto DEF AcceptRefuses
<1>10. CASE ReadNothing
    BY <1>1, <1>10, OutstandingGoto DEF ReadNothing
<1>11. CASE CloseFd
    BY <1>1, <1>11, OutstandingGoto DEF CloseFd
<1>12. CASE UnsetCommandFd
    BY <1>1, <1>12, OutstandingGoto DEF UnsetCommandFd
<1>13. CASE sendDisconnect
    BY <1>1, <1>13, OutstandingGoto DEF sendDisconnect
<1> QED BY <1>2, <1>3, <1>4, <1>5, <1>6, <1>7, <1>8, <1>9, <1>10, <1>11, <1>12, <1>13 DEF DispatchStep

LEMMA NextPInv == IsInjective(TokenOf) /\ FInv /\ WInv /\ HInv /\ PInv /\ [Next]_vars => PInv'
<1> SUFFICES ASSUME IsInjective(TokenOf), FInv, WInv, HInv, PInv, [Next]_vars PROVE PInv'
    OBVIOUS
<1>1. CASE ClientStep \/ UNCHANGED vars
    <2>1. UNCHANGED <<queueVars, threadVars>>
        BY <1>1 DEF ClientStep, Connect, ClientSend, ClientClose, vars
    <2> QED BY <2>1, OutstandingMove DEF queueVars, listVars, threadVars
<1>2. CASE DispatchStep
    BY <1>2, DispatchStepPInv
<1>3. ASSUME NEW t \in Worker \cup VThread,
             (t \in Worker /\ WorkerStep(t)) \/ CompleteStep(t) \/ (t \in VThread /\ VendorStep(t))
      PROVE  PInv'
    BY <1>3, ThreadStepPInv
<1> QED BY <1>1, <1>2, <1>3 DEF Next

LEMMA InitPInv == Init => PInv
<1> SUFFICES ASSUME Init PROVE PInv
    OBVIOUS
<1>1. \A m \in Msg : ~Outstanding(m)
    BY DEF Init, Outstanding, Completing
<1> HIDE DEF Outstanding
<1> QED BY <1>1 DEF Init, PInv

\* checkAndDequeue frees the SapSocketRequest of the message that was completed, and no
\* other, when no two messages have the same id and token: then pendingResponseQueue has
\* what the vendor still has to answer, once each.  (A client that starts over with its
\* tokens on a new connection breaks this: see AliveUntilCompleted.)
THEOREM PendingAlwaysOutstanding == IsInjective(TokenOf) => (Spec => []PendingIsOutstanding)
<1> SUFFICES ASSUME IsInjective(TokenOf) PROVE Spec => []PendingIsOutstanding
    OBVIOUS
<1>1. ASSUME HInv, PInv PROVE PendingIsOutstanding
    <2> DEFINE S == vendor \cup {arg[t] : t \in {u \in Thread : arg[u] # 0 /\ pc[u] \in Completing \cup {"onrequest"}}}
    <2>1. S \subseteq Msg
        BY <1>1 DEF HInv, InWork, OneOwner
    <2>2. 0 \notin Msg
        BY BoundAssumption DEF Msg
    <2>3. \A m \in Msg : m \in S <=> Outstanding(m)
        BY <2>2 DEF Outstanding
    <2>4. \A m : m \in ToSet(pendingResponseQueue) <=> \E i \in DOMAIN pendingResponseQueue : pendingResponseQueue[i] = m
        BY DEF ToSet
    <2>5. \A i \in DOMAIN pendingResponseQueue : pendingResponseQueue[i] \in Msg
        BY <1>1 DEF PInv
    <2> HIDE DEF Outstanding, S
    <2>6. ToSet(pendingResponseQueue) = S
        <3>1. \A m \in Msg : m \in ToSet(pendingResponseQueue) <=> m \in S
            BY <1>1, <2>3, <2>4 DEF PInv
        <3>2. ToSet(pendingResponseQueue) \subseteq Msg
            BY <2>4, <2>5
        <3> QED BY <2>1, <3>1, <3>2
    <2>7. alive = S
        BY <1>1, <2>1, <2>3 DEF PInv
    <2>8. IsInjective(pendingResponseQueue)
        BY <1>1 DEF PInv, IsInjective
    <2> QED BY <2>6, <2>7, <2>8 DEF PendingIsOutstanding, S
<1>2. Init => FInv /\ WInv /\ HInv /\ PInv
    BY InitFInv, InitWInv, InitHInv, InitPInv
<1>3. FInv /\ WInv /\ HInv /\ PInv /\ [Next]_vars => (FInv /\ WInv /\ HInv /\ PInv)'
    BY NextFInv, NextWInv, NextHInv, NextPInv
<1>4. HInv /\ PInv => PendingIsOutstanding
    BY <1>1
<1> QED BY <1>2, <1>3, <1>4, PTL DEF Spec

=============================================================================
