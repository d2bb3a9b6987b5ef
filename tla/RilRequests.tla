----------------------------- MODULE RilRequests -----------------------------
(***************************************************************************)
(* Solicited requests of libril (ril.cpp): from a client's record to the   *)
(* vendor RIL and back, over connections that come and go.                 *)
(*                                                                         *)
(* The dispatch thread accepts one client at a time, reads its records,    *)
(* puts a RequestInfo on s_pendingRequests for each and hands it to the    *)
(* vendor RIL.  The vendor answers on threads of its own through           *)
(* RIL_onRequestComplete, which takes the RequestInfo off the list, writes *)
(* the response to whatever connection there is, and frees it.  When the   *)
(* client goes away the dispatch thread closes the descriptor and marks    *)
(* what is pending as cancelled.                                           *)
(*                                                                         *)
(* Locks are those of the code: s_pendingRequestsMutex makes each access   *)
(* to the list one step, s_writeMutex is a variable.  Everything else      *)
(* that threads share (fdCommand, the descriptors themselves, the          *)
(* cancelled flag, the memory of a RequestInfo) is read and written in     *)
(* steps of its own.                                                       *)
(***************************************************************************)
EXTENDS Integers, FiniteSets, SequencesExt

CONSTANTS
    Addr,        \* addresses calloc can return for a RequestInfo
    Fd,          \* descriptor numbers accept can return
    VThread,     \* threads of the vendor RIL
    Dispatch,    \* the dispatch thread
    None,        \* NULL, no descriptor, nobody
    MaxConn,     \* bound on the connections clients make
    MaxReq,      \* bound on the requests clients send
    MaxRestart,  \* bound on the restarts of the process
    RadioOff,    \* whether a request may find the radio off (dispatchVoiceRadioTech)
    DebugPort    \* whether the debug socket is used

ASSUME ThreadAssumption == Dispatch \notin VThread
ASSUME BoundAssumption ==
    /\ MaxConn \in Nat /\ MaxReq \in Nat /\ MaxRestart \in Nat
    /\ RadioOff \in BOOLEAN /\ DebugPort \in BOOLEAN

VARIABLES
    info,        \* info[p]: the RequestInfo at p, None when free
    pending,     \* s_pendingRequests
    vendor,      \* vendor[p]: how often the vendor still has to complete p
    open,        \* open[f]: the connection descriptor f stands for, 0 when closed
    fdCommand,   \* s_ril_param_socket.fdCommand
    cmdFd,       \* the descriptor s_commands_event watches
    listening,   \* s_listen_event is in the watch table
    writer,      \* who holds s_writeMutex
    pc,          \* pc[t]: what thread t does next
    ret,         \* ret[t]: where it goes on after RIL_onRequestComplete or a send
    arg,         \* arg[t]: the RequestInfo it works on
    msg,         \* msg[t]: the request it answers, 0 for an unsolicited response
    wfd,         \* wfd[t]: its copy of fdCommand
    batch,       \* events on the dispatch thread's pending_list
    conns,       \* connections made so far; they are numbered from 1
    accepted,    \* connections accepted so far
    peer,        \* peer[c]: the client's end
    owner,       \* owner[r]: the connection request r was sent on
    taken,       \* requests read from the connection (or lost with it) so far
    got,         \* got[r]: the connections that were sent an answer to r
    half,        \* half[c]: whose header was last written to c, until its data is
    restarts

listVars == <<info, pending, vendor>>
connVars == <<open, fdCommand, cmdFd, listening>>
threadVars == <<pc, ret, arg, msg, wfd, batch>>
clientVars == <<conns, accepted, peer, owner, taken>>
wireVars == <<got, half>>
vars == <<listVars, connVars, writer, threadVars, clientVars, wireVars, restarts>>

Thread == VThread \cup {Dispatch}
Conn == 1..MaxConn
Request == 1..MaxReq
RequestInfo == [req : Request \cup {0}, conn : Conn \cup {0}, local : BOOLEAN, cancelled : BOOLEAN]

ASSUME NoneAssumption ==
    /\ None \notin Addr \cup Fd \cup Thread \cup RequestInfo \cup {"garbled"}
    /\ "garbled" \notin Thread

Base(t) == IF t = Dispatch THEN "select" ELSE "idle"
Goto(t, l) == pc' = [pc EXCEPT ![t] = l]
Call(t, l, r) == /\ pc' = [pc EXCEPT ![t] = l]
                 /\ ret' = [ret EXCEPT ![t] = r]

\* The connection accepted last has a whole record to read, in its socket or in
\* the record stream; requests are read in the order sent.
HasRecord == taken < Len(owner) /\ owner[taken + 1] = accepted

\* Descriptor f is open and its client is there.
Up(f) == IF open[f] = 0 THEN FALSE ELSE peer[open[f]] = "up"

\* The requests that are gone once connections up to c are closed.
SentUpTo(c) == Cardinality({r \in DOMAIN owner : owner[r] <= c})

Init ==
    /\ info = [p \in Addr |-> None]
    /\ pending = {}
    /\ vendor = [p \in Addr |-> 0]
    /\ open = [f \in Fd |-> 0]
    /\ fdCommand = None
    /\ cmdFd = None
    /\ listening = TRUE
    /\ writer = None
    /\ pc = [t \in Thread |-> Base(t)]
    /\ ret = [t \in Thread |-> Base(t)]
    /\ arg = [t \in Thread |-> None]
    /\ msg = [t \in Thread |-> 0]
    /\ wfd = [t \in Thread |-> None]
    /\ batch = {}
    /\ conns = 0
    /\ accepted = 0
    /\ peer = [c \in Conn |-> "none"]
    /\ owner = <<>>
    /\ taken = 0
    /\ got = [r \in Request |-> <<>>]
    /\ half = [c \in Conn |-> None]
    /\ restarts = 0

-----------------------------------------------------------------------------
(* Clients.                                                                *)

Connect ==
    /\ conns < MaxConn
    /\ \A c \in Conn : peer[c] # "up"
    /\ conns' = conns + 1
    /\ peer' = [peer EXCEPT ![conns + 1] = "up"]
    /\ UNCHANGED <<listVars, connVars, writer, threadVars, accepted, owner, taken, wireVars, restarts>>

\* A client whose connection was closed at the other end can send no more.
ClientSend(c) ==
    /\ peer[c] = "up"
    /\ c > accepted \/ \E f \in Fd : open[f] = c
    /\ Len(owner) < MaxReq
    /\ owner' = Append(owner, c)
    /\ UNCHANGED <<listVars, connVars, writer, threadVars, conns, accepted, peer, taken, wireVars, restarts>>

ClientClose(c) ==
    /\ peer[c] = "up"
    /\ peer' = [peer EXCEPT ![c] = "down"]
    /\ UNCHANGED <<listVars, connVars, writer, threadVars, conns, accepted, owner, taken, wireVars, restarts>>

-----------------------------------------------------------------------------
(* RequestInfos.                                                           *)

\* calloc, and the push onto s_pendingRequests under its mutex; the vendor
\* gets the token right after when h = 1.
NewRequestInfo(p, r, h) ==
    /\ info[p] = None
    /\ info' = [info EXCEPT ![p] = [req |-> r, conn |-> IF r = 0 THEN 0 ELSE owner[r],
                                    local |-> r = 0, cancelled |-> FALSE]]
    /\ pending' = pending \cup {p}
    /\ vendor' = [vendor EXCEPT ![p] = @ + h]

issueLocalRequest(p) == NewRequestInfo(p, 0, 1)

\* onCommandsSocketClosed: under s_pendingRequestsMutex.
CancelPending ==
    info' = [p \in Addr |-> IF p \in pending THEN [info[p] EXCEPT !.cancelled = TRUE] ELSE info[p]]

-----------------------------------------------------------------------------
(* RIL_onRequestComplete and sendResponse, on any thread.                  *)

\* A vendor thread completes a request it holds.
VendorComplete(t, p) ==
    /\ t \in VThread
    /\ pc[t] = "idle"
    /\ vendor[p] > 0
    /\ vendor' = [vendor EXCEPT ![p] = @ - 1]
    /\ arg' = [arg EXCEPT ![t] = p]
    /\ Call(t, "dequeue", "idle")
    /\ UNCHANGED <<info, pending, connVars, writer, msg, wfd, batch, clientVars, wireVars, restarts>>

\* A vendor thread sends an unsolicited response (with no connection the send
\* returns at once and changes nothing, so it is left out).
VendorUnsolicited(t) ==
    /\ t \in VThread
    /\ pc[t] = "idle"
    /\ fdCommand # None
    /\ arg' = [arg EXCEPT ![t] = None]
    /\ msg' = [msg EXCEPT ![t] = 0]
    /\ Call(t, "readfd", "idle")
    /\ UNCHANGED <<listVars, connVars, writer, wfd, batch, clientVars, wireVars, restarts>>

\* Mutants: the RequestInfo stays on the list; it is taken for found.
checkAndDequeueRequestInfo_StaysPending(t) ==
    /\ pc[t] = "dequeue"
    /\ Goto(t, IF arg[t] \in pending THEN "check" ELSE ret[t])
    /\ UNCHANGED <<listVars, connVars, writer, ret, arg, msg, wfd, batch, clientVars, wireVars, restarts>>

checkAndDequeueRequestInfo_Unchecked(t) ==
    /\ pc[t] = "dequeue"
    /\ pending' = pending \ {arg[t]}
    /\ Goto(t, "check")
    /\ UNCHANGED <<info, vendor, connVars, writer, ret, arg, msg, wfd, batch, clientVars, wireVars, restarts>>

\* checkAndDequeueRequestInfo: the token is compared, not looked into.
checkAndDequeueRequestInfo(t) ==
    /\ pc[t] = "dequeue"
    /\ pending' = pending \ {arg[t]}
    /\ Goto(t, IF arg[t] \in pending THEN "check" ELSE ret[t])
    /\ UNCHANGED <<info, vendor, connVars, writer, ret, arg, msg, wfd, batch, clientVars, wireVars, restarts>>

\* Mutant: a RequestInfo is answered only when it is cancelled.
CheckCancelled_Inverted(t) ==
    /\ pc[t] = "check"
    /\ IF info[arg[t]].local \/ ~info[arg[t]].cancelled
       THEN Goto(t, "free") /\ UNCHANGED msg
       ELSE /\ pc' \in {[pc EXCEPT ![t] = l] : l \in {"readfd", "response"}}
            /\ msg' = [msg EXCEPT ![t] = info[arg[t]].req]
    /\ UNCHANGED <<listVars, connVars, writer, ret, arg, wfd, batch, clientVars, wireVars, restarts>>

\* Local and cancelled requests are not answered.  The flag is read outside the
\* mutex.  Some response functions issue a local request first.
CheckCancelled(t) ==
    /\ pc[t] = "check"
    /\ IF info[arg[t]].local \/ info[arg[t]].cancelled
       THEN Goto(t, "free") /\ UNCHANGED msg
       ELSE /\ pc' \in {[pc EXCEPT ![t] = l] : l \in {"readfd", "response"}}
            /\ msg' = [msg EXCEPT ![t] = info[arg[t]].req]
    /\ UNCHANGED <<listVars, connVars, writer, ret, arg, wfd, batch, clientVars, wireVars, restarts>>

\* responseRadioPower and responseEnterSimPin.
ResponseIssuesLocal(t, p) ==
    /\ pc[t] = "response"
    /\ issueLocalRequest(p)
    /\ Goto(t, "readfd")
    /\ UNCHANGED <<connVars, writer, ret, arg, msg, wfd, batch, clientVars, wireVars, restarts>>

\* sendResponseRaw copies fdCommand before it takes s_writeMutex.
ReadFdCommand(t) ==
    /\ pc[t] = "readfd"
    /\ wfd' = [wfd EXCEPT ![t] = fdCommand]
    /\ Goto(t, IF fdCommand = None THEN "free" ELSE "lock")
    /\ UNCHANGED <<listVars, connVars, writer, ret, arg, msg, batch, clientVars, wireVars, restarts>>

\* Mutant: the response is written without s_writeMutex.
LockWrite_NoMutex(t) ==
    /\ pc[t] = "lock"
    /\ Goto(t, "header")
    /\ UNCHANGED <<listVars, connVars, writer, ret, arg, msg, wfd, batch, clientVars, wireVars, restarts>>

LockWrite(t) ==
    /\ pc[t] = "lock"
    /\ writer = None
    /\ writer' = t
    /\ Goto(t, "header")
    /\ UNCHANGED <<listVars, connVars, ret, arg, msg, wfd, batch, clientVars, wireVars, restarts>>

\* blockingWrite: write fails when the descriptor is closed or the client has gone.
WriteFails(t) ==
    /\ pc[t] \in {"header", "data"}
    /\ ~Up(wfd[t])
    /\ Goto(t, "broken")
    /\ UNCHANGED <<listVars, connVars, writer, ret, arg, msg, wfd, batch, clientVars, wireVars, restarts>>

\* blockingWrite closes the descriptor, whatever it stands for by now; fdCommand stays.
CloseBroken(t) ==
    /\ pc[t] = "broken"
    /\ open' = [open EXCEPT ![wfd[t]] = 0]
    /\ Goto(t, "unlock")
    /\ UNCHANGED <<listVars, fdCommand, cmdFd, listening, writer, ret, arg, msg, wfd, batch,
                   clientVars, wireVars, restarts>>

WriteHeader(t) ==
    /\ pc[t] = "header"
    /\ Up(wfd[t])
    /\ half' = [half EXCEPT ![open[wfd[t]]] = IF @ = None THEN t ELSE "garbled"]
    /\ Goto(t, "data")
    /\ UNCHANGED <<listVars, connVars, writer, ret, arg, msg, wfd, batch, clientVars, got, restarts>>

WriteData(t) ==
    /\ pc[t] = "data"
    /\ Up(wfd[t])
    /\ LET c == open[wfd[t]]
       IN  /\ half' = [half EXCEPT ![c] = IF @ \in {None, t} THEN None ELSE "garbled"]
           /\ got' = IF msg[t] = 0 THEN got ELSE [got EXCEPT ![msg[t]] = Append(@, c)]
    /\ Goto(t, "unlock")
    /\ UNCHANGED <<listVars, connVars, writer, ret, arg, msg, wfd, batch, clientVars, restarts>>

UnlockWrite(t) ==
    /\ pc[t] = "unlock"
    /\ writer' = None
    /\ Goto(t, "free")
    /\ UNCHANGED <<listVars, connVars, ret, arg, msg, wfd, batch, clientVars, wireVars, restarts>>

\* free(pRI); a send that answers no RequestInfo has nothing to free.
FreeAndReturn(t) ==
    /\ pc[t] = "free"
    /\ info' = [p \in Addr |-> IF p = arg[t] THEN None ELSE info[p]]
    /\ Goto(t, ret[t])
    /\ UNCHANGED <<pending, vendor, connVars, writer, ret, arg, msg, wfd, batch, clientVars, wireVars, restarts>>

-----------------------------------------------------------------------------
(* The dispatch thread: select, and the callbacks it fires.                *)

\* Mutant: the listening socket counts as readable with no client waiting.
Readable_Stale ==
    (IF listening /\ accepted <= conns THEN {"listen"} ELSE {})
    \cup (IF cmdFd # None /\ (HasRecord \/ ~Up(cmdFd)) THEN {"commands"} ELSE {})

Readable ==
    (IF listening /\ accepted < conns THEN {"listen"} ELSE {})
    \cup (IF cmdFd # None /\ (HasRecord \/ ~Up(cmdFd)) THEN {"commands"} ELSE {})

\* Mutant: the listen event is persistent.
SelectReturns_Persistent ==
    /\ pc[Dispatch] = "select"
    /\ cmdFd # None => open[cmdFd] # 0
    /\ batch' \in {Readable, Readable \cup {"debug"}} \ {{}}
    /\ "debug" \in batch' => DebugPort
    /\ Goto(Dispatch, "fire")
    /\ UNCHANGED <<listVars, connVars, writer, ret, arg, msg, wfd, clientVars, wireVars, restarts>>

\* processReadReadies: the listen event is not persistent and leaves the table.
SelectReturns ==
    /\ pc[Dispatch] = "select"
    /\ cmdFd # None => open[cmdFd] # 0
    /\ batch' \in {Readable, Readable \cup {"debug"}} \ {{}}
    /\ "debug" \in batch' => DebugPort
    /\ listening' = (listening /\ "listen" \notin batch')
    /\ Goto(Dispatch, "fire")
    /\ UNCHANGED <<listVars, open, fdCommand, cmdFd, writer, ret, arg, msg, wfd, clientVars, wireVars, restarts>>

\* A closed descriptor in readFds: select fails with EBADF, ril_event_loop
\* returns and eventLoop kills the process.
SelectFails ==
    /\ pc[Dispatch] = "select"
    /\ cmdFd # None /\ open[cmdFd] = 0
    /\ Goto(Dispatch, "killed")
    /\ UNCHANGED <<listVars, connVars, writer, ret, arg, msg, wfd, batch, clientVars, wireVars, restarts>>

\* init starts rild again; every client sees its connection closed.
Restart ==
    /\ pc[Dispatch] = "killed"
    /\ restarts < MaxRestart
    /\ restarts' = restarts + 1
    /\ info' = [p \in Addr |-> None]
    /\ pending' = {}
    /\ vendor' = [p \in Addr |-> 0]
    /\ open' = [f \in Fd |-> 0]
    /\ fdCommand' = None
    /\ cmdFd' = None
    /\ listening' = TRUE
    /\ writer' = None
    /\ pc' = [t \in Thread |-> Base(t)]
    /\ ret' = [t \in Thread |-> Base(t)]
    /\ arg' = [t \in Thread |-> None]
    /\ msg' = [t \in Thread |-> 0]
    /\ wfd' = [t \in Thread |-> None]
    /\ batch' = {}
    /\ accepted' = conns
    /\ peer' = [c \in Conn |-> IF c <= conns THEN "down" ELSE "none"]
    /\ taken' = Len(owner)
    /\ UNCHANGED <<conns, owner, wireVars>>

FireCallback(e, l) ==
    /\ pc[Dispatch] = "fire"
    /\ e \in batch
    /\ batch' = batch \ {e}
    /\ Goto(Dispatch, l)
    /\ UNCHANGED <<listVars, connVars, writer, ret, arg, msg, wfd, clientVars, wireVars, restarts>>

FireDone ==
    /\ pc[Dispatch] = "fire"
    /\ batch = {}
    /\ Goto(Dispatch, "select")
    /\ UNCHANGED <<listVars, connVars, writer, ret, arg, msg, wfd, batch, clientVars, wireVars, restarts>>

\* Mutant: after a failed accept the listen event is not added again.
AcceptFails_Deaf ==
    /\ pc[Dispatch] = "accept"
    /\ Goto(Dispatch, "fire")
    /\ UNCHANGED <<listVars, connVars, writer, ret, arg, msg, wfd, batch, clientVars, wireVars, restarts>>

\* listenCallback: accept fails.
AcceptFails ==
    /\ pc[Dispatch] = "accept"
    /\ listening' = TRUE
    /\ Goto(Dispatch, "fire")
    /\ UNCHANGED <<listVars, open, fdCommand, cmdFd, writer, ret, arg, msg, wfd, batch,
                   clientVars, wireVars, restarts>>

\* listenCallback: the peer is not the phone process.
AcceptRefuses ==
    /\ pc[Dispatch] = "accept"
    /\ accepted' = accepted + 1
    /\ peer' = [peer EXCEPT ![accepted + 1] = "down"]
    /\ taken' = SentUpTo(accepted + 1)
    /\ CancelPending
    /\ listening' = TRUE
    /\ Goto(Dispatch, "fire")
    /\ UNCHANGED <<pending, vendor, open, fdCommand, cmdFd, writer, ret, arg, msg, wfd, batch,
                   conns, owner, wireVars, restarts>>

\* listenCallback: fdCommand is set, the commands event added, and
\* onNewCommandConnect sends RIL_UNSOL_RIL_CONNECTED.
AcceptPhone(f) ==
    /\ pc[Dispatch] = "accept"
    /\ open[f] = 0
    /\ accepted' = accepted + 1
    /\ open' = [open EXCEPT ![f] = accepted + 1]
    /\ fdCommand' = f
    /\ cmdFd' = f
    /\ arg' = [arg EXCEPT ![Dispatch] = None]
    /\ msg' = [msg EXCEPT ![Dispatch] = 0]
    /\ Call(Dispatch, "readfd", "radiostate")
    /\ UNCHANGED <<listVars, listening, writer, wfd, batch, conns, peer, owner, taken, wireVars, restarts>>

\* onNewCommandConnect: the radio state, then the stored NITZ response if there is one.
SendRadioState ==
    /\ pc[Dispatch] = "radiostate"
    /\ Call(Dispatch, "readfd", "nitz")
    /\ UNCHANGED <<listVars, connVars, writer, arg, msg, wfd, batch, clientVars, wireVars, restarts>>

SendNITZ ==
    /\ pc[Dispatch] = "nitz"
    /\ Call(Dispatch, "readfd", "fire") \/ (Goto(Dispatch, "fire") /\ UNCHANGED ret)
    /\ UNCHANGED <<listVars, connVars, writer, arg, msg, wfd, batch, clientVars, wireVars, restarts>>

\* processCommandsCallback: a record that processCommandBuffer takes as a
\* request, up to the call of its dispatch function.
ReadRequest(p) ==
    /\ pc[Dispatch] = "read"
    /\ HasRecord
    /\ NewRequestInfo(p, taken + 1, 0)
    /\ taken' = taken + 1
    /\ arg' = [arg EXCEPT ![Dispatch] = p]
    /\ Goto(Dispatch, "dispatch")
    /\ UNCHANGED <<connVars, writer, ret, msg, wfd, batch, conns, accepted, peer, owner, wireVars, restarts>>

\* Mutant: the record stays in the stream.
ReadUnsupported_NotConsumed ==
    /\ pc[Dispatch] = "read"
    /\ HasRecord
    /\ arg' = [arg EXCEPT ![Dispatch] = None]
    /\ msg' = [msg EXCEPT ![Dispatch] = taken + 1]
    /\ Call(Dispatch, "readfd", "read")
    /\ UNCHANGED <<listVars, connVars, writer, wfd, batch, clientVars, wireVars, restarts>>

\* An unsupported request code is answered at once with a failure.
ReadUnsupported ==
    /\ pc[Dispatch] = "read"
    /\ HasRecord
    /\ taken' = taken + 1
    /\ arg' = [arg EXCEPT ![Dispatch] = None]
    /\ msg' = [msg EXCEPT ![Dispatch] = taken + 1]
    /\ Call(Dispatch, "readfd", "read")
    /\ UNCHANGED <<listVars, connVars, writer, wfd, batch, conns, accepted, peer, owner, wireVars, restarts>>

\* A record without request code and token is skipped.
ReadInvalidBlock ==
    /\ pc[Dispatch] = "read"
    /\ HasRecord
    /\ taken' = taken + 1
    /\ UNCHANGED <<listVars, connVars, writer, threadVars, conns, accepted, peer, owner, wireVars, restarts>>

\* EAGAIN.
ReadNothing ==
    /\ pc[Dispatch] = "read"
    /\ ~HasRecord /\ Up(cmdFd)
    /\ Goto(Dispatch, "fire")
    /\ UNCHANGED <<listVars, connVars, writer, ret, arg, msg, wfd, batch, clientVars, wireVars, restarts>>

\* End of stream, EBADF after a failed write closed the descriptor, or a record
\* larger than MAX_COMMAND_BYTES.
ReadEnd ==
    /\ pc[Dispatch] = "read"
    /\ HasRecord \/ ~Up(cmdFd)
    /\ Goto(Dispatch, "close")
    /\ UNCHANGED <<listVars, connVars, writer, ret, arg, msg, wfd, batch, clientVars, wireVars, restarts>>

\* The dispatch function cannot read its arguments: invalidCommandBlock only logs.
DispatchInvalid ==
    /\ pc[Dispatch] = "dispatch"
    /\ Goto(Dispatch, "read")
    /\ UNCHANGED <<listVars, connVars, writer, ret, arg, msg, wfd, batch, clientVars, wireVars, restarts>>

\* onRequest: the vendor keeps the token for later.
DispatchOnRequest ==
    /\ pc[Dispatch] = "dispatch"
    /\ vendor' = [vendor EXCEPT ![arg[Dispatch]] = @ + 1]
    /\ Goto(Dispatch, "read")
    /\ UNCHANGED <<info, pending, connVars, writer, ret, arg, msg, wfd, batch, clientVars, wireVars, restarts>>

\* The request is completed on the dispatch thread, by the vendor inside
\* onRequest or by the dispatch function itself.
DispatchCompletes ==
    /\ pc[Dispatch] = "dispatch"
    /\ Call(Dispatch, "dequeue", "read")
    /\ UNCHANGED <<listVars, connVars, writer, arg, msg, wfd, batch, clientVars, wireVars, restarts>>

\* dispatchVoiceRadioTech and dispatchCdmaSubscriptionSource with the radio off:
\* there is no return after the first RIL_onRequestComplete.
DispatchCompletesTwice ==
    /\ RadioOff
    /\ pc[Dispatch] = "dispatch"
    /\ Call(Dispatch, "dequeue", "again")
    /\ UNCHANGED <<listVars, connVars, writer, arg, msg, wfd, batch, clientVars, wireVars, restarts>>

CompleteAgain ==
    /\ pc[Dispatch] = "again"
    /\ Call(Dispatch, "dequeue", "read")
    /\ UNCHANGED <<listVars, connVars, writer, arg, msg, wfd, batch, clientVars, wireVars, restarts>>

\* processCommandsCallback at the end of the stream, one shared effect per step:
\* the descriptor (with whatever it still holds), fdCommand and the events, the
\* pending requests.
CloseFd ==
    /\ pc[Dispatch] = "close"
    /\ open' = [open EXCEPT ![cmdFd] = 0]
    /\ taken' = SentUpTo(accepted)
    /\ Goto(Dispatch, "unset")
    /\ UNCHANGED <<listVars, fdCommand, cmdFd, listening, writer, ret, arg, msg, wfd, batch,
                   conns, accepted, peer, owner, wireVars, restarts>>

\* Mutant: the listen event is not added again.
UnsetFdCommand_Deaf ==
    /\ pc[Dispatch] = "unset"
    /\ fdCommand' = None
    /\ cmdFd' = None
    /\ Goto(Dispatch, "cancel")
    /\ UNCHANGED <<listVars, open, listening, writer, ret, arg, msg, wfd, batch, clientVars, wireVars, restarts>>

UnsetFdCommand ==
    /\ pc[Dispatch] = "unset"
    /\ fdCommand' = None
    /\ cmdFd' = None
    /\ listening' = TRUE
    /\ Goto(Dispatch, "cancel")
    /\ UNCHANGED <<listVars, open, writer, ret, arg, msg, wfd, batch, clientVars, wireVars, restarts>>

onCommandsSocketClosed ==
    /\ pc[Dispatch] = "cancel"
    /\ CancelPending
    /\ Goto(Dispatch, "fire")
    /\ UNCHANGED <<pending, vendor, connVars, writer, ret, arg, msg, wfd, batch, clientVars, wireVars, restarts>>

\* debugCallback: nothing is issued, when the arguments cannot be read.
DebugNothing ==
    /\ pc[Dispatch] = "debug"
    /\ Goto(Dispatch, "fire")
    /\ UNCHANGED <<listVars, connVars, writer, ret, arg, msg, wfd, batch, clientVars, wireVars, restarts>>

\* Option 2 sends an unsolicited response.
DebugUnsolicited ==
    /\ pc[Dispatch] = "debug"
    /\ arg' = [arg EXCEPT ![Dispatch] = None]
    /\ msg' = [msg EXCEPT ![Dispatch] = 0]
    /\ Call(Dispatch, "readfd", "fire")
    /\ UNCHANGED <<listVars, connVars, writer, wfd, batch, clientVars, wireVars, restarts>>

\* The other options issue a local request; option 5 a second one 2 s later.
DebugLocalRequest(p) ==
    /\ pc[Dispatch] \in {"debug", "sleep"}
    /\ issueLocalRequest(p)
    /\ \/ Goto(Dispatch, "fire")
       \/ pc[Dispatch] = "debug" /\ Goto(Dispatch, "sleep")
    /\ UNCHANGED <<connVars, writer, ret, arg, msg, wfd, batch, clientVars, wireVars, restarts>>

\* Option 1 also closes the command socket, and leaves its event in the table.
DebugCloseSocket(p) ==
    /\ pc[Dispatch] = "debug"
    /\ issueLocalRequest(p)
    /\ fdCommand # None
    /\ open' = [open EXCEPT ![fdCommand] = 0]
    /\ fdCommand' = None
    /\ Goto(Dispatch, "fire")
    /\ UNCHANGED <<cmdFd, listening, writer, ret, arg, msg, wfd, batch, clientVars, wireVars, restarts>>

-----------------------------------------------------------------------------

CompleteStep(t) ==
    \/ checkAndDequeueRequestInfo(t) \/ CheckCancelled(t)
    \/ \E p \in Addr : ResponseIssuesLocal(t, p)
    \/ ReadFdCommand(t) \/ LockWrite(t)
    \/ WriteFails(t) \/ CloseBroken(t) \/ WriteHeader(t) \/ WriteData(t) \/ UnlockWrite(t)
    \/ FreeAndReturn(t)

ReadStep ==
    \/ \E p \in Addr : ReadRequest(p)
    \/ ReadUnsupported \/ ReadInvalidBlock \/ ReadNothing \/ ReadEnd
    \/ DispatchInvalid \/ DispatchOnRequest \/ DispatchCompletes
    \/ DispatchCompletesTwice \/ CompleteAgain
    \/ CloseFd \/ UnsetFdCommand \/ onCommandsSocketClosed

LoopStep ==
    \/ SelectReturns \/ SelectFails
    \/ FireCallback("listen", "accept")
    \/ FireCallback("commands", "read")
    \/ FireCallback("debug", "debug")
    \/ FireDone
    \/ AcceptFails \/ AcceptRefuses \/ \E f \in Fd : AcceptPhone(f)
    \/ SendRadioState \/ SendNITZ
    \/ DebugNothing \/ DebugUnsolicited
    \/ \E p \in Addr : DebugLocalRequest(p)
    \/ \E p \in Addr : DebugCloseSocket(p)

VendorStep(t) == VendorUnsolicited(t) \/ \E p \in Addr : VendorComplete(t, p)

ClientStep == Connect \/ \E c \in Conn : ClientSend(c) \/ ClientClose(c)

Running == pc[Dispatch] # "killed"

Next ==
    \/ /\ Running
       /\ \/ \E t \in Thread : CompleteStep(t) \/ VendorStep(t)
          \/ ReadStep \/ LoopStep \/ ClientStep
    \/ Restart

Spec == Init /\ [][Next]_vars

\* Every thread that is not waiting goes on, s_writeMutex is granted to whoever
\* keeps asking, accept does not fail for ever, and the vendor completes every
\* request it was given.
Fairness ==
    /\ \A t \in Thread : WF_vars(Running /\ CompleteStep(t)) /\ SF_vars(Running /\ LockWrite(t))
    /\ WF_vars(Running /\ (ReadStep \/ LoopStep))
    /\ SF_vars(Running /\ (AcceptRefuses \/ \E f \in Fd : AcceptPhone(f)))
    /\ \A p \in Addr : SF_vars(Running /\ \E t \in VThread : VendorComplete(t, p))

FairSpec == Spec /\ Fairness

-----------------------------------------------------------------------------
(* Properties.                                                             *)

Owning == {"check", "response", "readfd", "lock", "header", "data", "broken", "unlock", "free"}

TypeOK ==
    /\ info \in [Addr -> RequestInfo \cup {None}]
    /\ pending \subseteq Addr
    /\ vendor \in [Addr -> Nat]
    /\ open \in [Fd -> Conn \cup {0}]
    /\ fdCommand \in Fd \cup {None}
    /\ cmdFd \in Fd \cup {None}
    /\ listening \in BOOLEAN
    /\ writer \in Thread \cup {None}
    /\ pc \in [Thread -> Owning \cup {"idle", "dequeue", "select", "fire", "accept", "read", "dispatch",
                                     "again", "close", "unset", "cancel", "radiostate", "nitz",
                                     "debug", "sleep", "killed"}]
    /\ ret \in [Thread -> {"idle", "select", "fire", "read", "again", "radiostate", "nitz"}]
    /\ arg \in [Thread -> Addr \cup {None}]
    /\ msg \in [Thread -> Request \cup {0}]
    /\ wfd \in [Thread -> Fd \cup {None}]
    /\ batch \subseteq {"listen", "commands", "debug"}
    /\ conns \in 0..MaxConn /\ accepted \in 0..conns
    /\ peer \in [Conn -> {"none", "up", "down"}]
    /\ owner \in Seq(Conn) /\ Len(owner) <= MaxReq
    /\ taken \in 0..Len(owner)
    /\ got \in [Request -> Seq(Conn)]
    /\ half \in [Conn -> Thread \cup {None, "garbled"}]
    /\ restarts \in 0..MaxRestart

\* The RequestInfos thread t may look into and must free.
Holds(t) == IF pc[t] \in Owning THEN {arg[t]} \ {None} ELSE {}

\* A RequestInfo is on s_pendingRequests or held by exactly one thread, never
\* both, and is allocated as long as it is: whoever completes it, wherever the
\* token comes from, it is freed once and not used afterwards, and none leaks.
OwnedOnce ==
    /\ \A p \in Addr : info[p] # None <=> p \in pending \/ \E t \in Thread : p \in Holds(t)
    /\ \A t \in Thread : Holds(t) \cap pending = {}
    /\ \A t, u \in Thread : t # u => Holds(t) \cap Holds(u) = {}

\* A request is answered at most once, over all connections.
AnsweredOnce == \A r \in Request : Len(got[r]) <= 1

\* The header and the data of a response are written one after the other: no
\* other response to the same connection comes between them.
FrameIntact == \A c \in Conn : half[c] # "garbled"

\* startListen: non-persistent so we can accept only one connection at a time.
\* While the loop can accept, no descriptor of an earlier client is left open
\* or watched.
OneConnection ==
    listening \/ pc[Dispatch] = "accept" =>
        fdCommand = None /\ cmdFd = None /\ \A f \in Fd : open[f] = 0

\* The dispatch thread never goes to sleep deaf: it watches the listening socket
\* or a command socket (whose descriptor, if closed, makes select fail and the
\* process restart).
NeverDeaf == pc[Dispatch] = "select" => listening \/ cmdFd # None

\* onCommandsSocketClosed: mark pending requests as "cancelled" so we dont report
\* responses.  No answer reaches a connection other than the one that asked.
ResponseToOwner ==
    \A r \in Request : \A i \in DOMAIN got[r] : got[r][i] = owner[r]

Connected(r) == r \in DOMAIN owner /\ \E f \in Fd : open[f] = owner[r] /\ Up(f)

\* A request the vendor was given is answered, unless its connection ends or the
\* process is killed.
Answered ==
    \A r \in Request :
        (\E p \in Addr : vendor[p] > 0 /\ info[p] # None /\ info[p].req = r)
            ~> (got[r] # <<>> \/ ~Running \/ ~Connected(r))

\* A client that connects is accepted, unless it leaves again or the process
\* is killed: listening always resumes.
Accepted ==
    \A c \in Conn : (peer[c] = "up") ~> (accepted >= c \/ peer[c] # "up" \/ ~Running)

=============================================================================
