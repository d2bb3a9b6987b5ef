-------------------------- MODULE RilRequestsProofs ---------------------------
(***************************************************************************)
(* Proofs about solicited requests, for every set of addresses,            *)
(* descriptors and vendor threads, any number of connections, requests and *)
(* restarts, and radios and debug ports that are or are not there.         *)
(*                                                                         *)
(* The invariants build on each other.  RInv has the types, where each     *)
(* thread may be, what the dispatch thread knows of its descriptors, the   *)
(* order of connections and requests, and who owns each RequestInfo.  FInv *)
(* adds who may write to a connection, and AInv who may still answer a     *)
(* request.                                                                *)
(***************************************************************************)
EXTENDS RilRequests, FiniteSetTheorems, TLAPS

Completing == Owning \cup {"dequeue"}

\* Where threads are: vendor threads only complete requests and send unsolicited
\* responses; the dispatch thread comes back from a completion to what called it.
Placed ==
    /\ \A t \in VThread : pc[t] \in Completing \cup {"idle"} /\ ret[t] = "idle"
    /\ pc[Dispatch] # "idle"
    /\ pc[Dispatch] \in Owning => ret[Dispatch] \in {"fire", "read", "again", "radiostate", "nitz"}
    /\ pc[Dispatch] = "dequeue" => ret[Dispatch] \in {"read", "again"}
    /\ \A t \in Thread : pc[t] \in {"lock", "header", "data", "broken"} => wfd[t] # None
    /\ \A t \in Thread : pc[t] = "check" => arg[t] # None
    /\ pc[Dispatch] = "select" => batch = {}

\* Between the responses of onNewCommandConnect nothing is held or answered.
Greeting ==
    \/ pc[Dispatch] \in {"radiostate", "nitz"}
    \/ pc[Dispatch] \in Owning /\ ret[Dispatch] \in {"radiostate", "nitz"}

GreetsNobody == Greeting => arg[Dispatch] = None /\ msg[Dispatch] = 0

\* The next client can be accepted, or is about to be.
Listens == listening \/ pc[Dispatch] = "accept" \/ "listen" \in batch

\* The dispatch thread is inside processCommandsCallback.
Reading ==
    \/ pc[Dispatch] \in {"read", "dispatch", "again", "close", "unset"}
    \/ pc[Dispatch] \in Completing /\ ret[Dispatch] \in {"read", "again"}

\* Either the listening socket is watched or a command socket is, and only the latter's
\* descriptor can be open.
Wired ==
    /\ Listens <=> cmdFd = None
    /\ fdCommand # None => fdCommand = cmdFd
    /\ \A f \in Fd : open[f] # 0 => cmdFd = f
    /\ pc[Dispatch] = "unset" => \A f \in Fd : open[f] = 0
    /\ Reading => cmdFd # None /\ "commands" \notin batch
    /\ "commands" \in batch => cmdFd # None
    /\ listening => pc[Dispatch] # "accept" /\ "listen" \notin batch
    /\ pc[Dispatch] = "accept" => "listen" \notin batch

\* Connections are accepted in the order they were made and requests read in the order
\* they were sent; only the last client made can be there.
Numbered ==
    /\ pc[Dispatch] = "accept" \/ "listen" \in batch => accepted < conns
    /\ \A f \in Fd : open[f] <= accepted
    /\ \A c \in Conn : peer[c] = "up" => c = conns
    /\ \A r \in DOMAIN owner : owner[r] <= conns
    /\ \A r, s \in DOMAIN owner : r <= s => owner[r] <= owner[s]
    /\ \A r \in 1..taken : owner[r] <= accepted

Kept == TypeOK /\ Placed /\ GreetsNobody /\ Wired /\ Numbered
RInv == Kept /\ OwnedOnce

-----------------------------------------------------------------------------
(* Operators of the model.                                                 *)

LEMMA DispatchThread == Dispatch \in Thread
BY DEF Thread

LEMMA UpToLemma ==
    ASSUME NEW n \in Nat
    PROVE  IsFiniteSet(1..n) /\ Cardinality(1..n) = n
<1>1. 1 \in Int /\ n \in Int
    OBVIOUS
<1>2. IsFiniteSet(1..n) /\ Cardinality(1..n) = IF 1 > n THEN 0 ELSE n - 1 + 1
    BY <1>1, FS_Interval
<1> QED BY <1>2

\* Every request that is gone with connections up to c was sent on one of them, and
\* none that was read before comes back.
LEMMA SentUpToLemma ==
    ASSUME TypeOK, Numbered, NEW c \in Nat, c >= accepted
    PROVE  /\ SentUpTo(c) \in taken..Len(owner)
           /\ \A r \in 1..SentUpTo(c) : owner[r] <= c
<1> DEFINE S == {r \in DOMAIN owner : owner[r] <= c}
           n == Len(owner)
<1>1. /\ n \in Nat /\ DOMAIN owner = 1..n
      /\ taken \in 0..n /\ accepted \in Nat
      /\ \A r \in 1..n : owner[r] \in Nat
    BY BoundAssumption DEF TypeOK, Conn
<1>2. IsFiniteSet(1..n) /\ Cardinality(1..n) = n
    BY <1>1, UpToLemma
<1>3. IsFiniteSet(S) /\ Cardinality(S) \in Nat /\ Cardinality(S) <= n
    BY <1>1, <1>2, FS_Subset, FS_CardinalityType
<1>4. taken <= Cardinality(S)
    <2>1. 1..taken \in SUBSET S
        BY <1>1 DEF Numbered
    <2>2. taken \in Nat
        BY <1>1
    <2>3. Cardinality(1..taken) = taken
        BY <2>2, UpToLemma
    <2>4. Cardinality(1..taken) <= Cardinality(S)
        BY <1>3, <2>1, FS_Subset
    <2> QED BY <2>3, <2>4
<1>5. ASSUME NEW r \in 1..Cardinality(S)
      PROVE  owner[r] <= c
    <2> SUFFICES ASSUME ~(owner[r] <= c) PROVE FALSE
        OBVIOUS
    <2>1. r \in 1..n
        BY <1>3
    <2>2. ASSUME NEW s \in S PROVE s < r
        <3>1. s \in 1..n /\ owner[s] <= c /\ owner[s] \in Nat /\ owner[r] \in Nat
            BY <1>1, <2>1
        <3>2. r <= s => owner[r] <= owner[s]
            BY <1>1, <2>1, <3>1 DEF Numbered
        <3>3. ~(r <= s)
            BY <3>1, <3>2
        <3> QED BY <2>1, <3>1, <3>3
    <2>3. S \in SUBSET (1..(r - 1))
        BY <1>1, <2>1, <2>2
    <2>4. IsFiniteSet(1..(r - 1)) /\ Cardinality(1..(r - 1)) = r - 1
        BY <1>1, <2>1, UpToLemma
    <2>5. Cardinality(S) <= r - 1
        BY <2>3, <2>4, FS_Subset
    <2> QED BY <1>3, <2>1, <2>5
<1> QED BY <1>1, <1>3, <1>4, <1>5 DEF SentUpTo

\* CancelPending changes what is pending and nothing else about it.
LEMMA CancelPendingLemma ==
    ASSUME TypeOK, OwnedOnce, CancelPending
    PROVE  /\ info' \in [Addr -> RequestInfo \cup {None}]
           /\ \A p \in Addr : info'[p] = None <=> info[p] = None
           /\ \A p \in Addr : info[p] # None => info'[p].req = info[p].req
<1> SUFFICES ASSUME NEW p \in Addr
             PROVE  /\ info'[p] \in RequestInfo \cup {None}
                    /\ info'[p] = None <=> info[p] = None
                    /\ info[p] # None => info'[p].req = info[p].req
    BY DEF CancelPending
<1>1. CASE p \in pending
    <2>1. info[p] \in RequestInfo
        BY <1>1 DEF TypeOK, OwnedOnce
    <2>2. info'[p] = [info[p] EXCEPT !.cancelled = TRUE]
        BY <1>1 DEF CancelPending
    <2>3. info'[p] \in RequestInfo /\ info'[p].req = info[p].req
        BY <2>1, <2>2 DEF RequestInfo
    <2> QED BY <2>1, <2>3, NoneAssumption
<1>2. CASE p \notin pending
    BY <1>2 DEF CancelPending, TypeOK
<1> QED BY <1>1, <1>2

\* A new RequestInfo, for a request that was sent or a local one.
LEMMA NewRequestInfoLemma ==
    ASSUME TypeOK, NEW p \in Addr, NEW r \in DOMAIN owner \cup {0}, NEW h \in {0, 1},
           NewRequestInfo(p, r, h)
    PROVE  /\ info' \in [Addr -> RequestInfo \cup {None}] /\ info'[p] # None
           /\ info'[p].req = r
           /\ \A q \in Addr : q # p => info'[q] = info[q]
           /\ pending' = pending \cup {p} /\ pending' \subseteq Addr
           /\ vendor' \in [Addr -> Nat]
<1> DEFINE new == [req |-> r, conn |-> IF r = 0 THEN 0 ELSE owner[r],
                   local |-> (r = 0), cancelled |-> FALSE]
<1>1. new \in RequestInfo /\ new.req = r
    BY BoundAssumption DEF TypeOK, RequestInfo, Request, Conn
<1>2. info' = [info EXCEPT ![p] = new] /\ pending' = pending \cup {p}
      /\ vendor' = [vendor EXCEPT ![p] = vendor[p] + h]
    BY DEF NewRequestInfo
<1>3. vendor' \in [Addr -> Nat] /\ pending' \subseteq Addr
    BY <1>2 DEF TypeOK
<1>4. info' = [q \in Addr |-> IF q = p THEN new ELSE info[q]]
    BY <1>2 DEF TypeOK
<1>5. info'[p] = new /\ \A q \in Addr : q # p => info'[q] = info[q]
    BY <1>4
<1>6. info' \in [Addr -> RequestInfo \cup {None}]
    BY <1>1, <1>4 DEF TypeOK
<1>7. new # None
    BY <1>1, NoneAssumption
<1> HIDE DEF new
<1> QED BY <1>1, <1>2, <1>3, <1>5, <1>6, <1>7

\* The next record is of a request, sent on the connection accepted last.
LEMMA HasRecordLemma ==
    ASSUME TypeOK, HasRecord
    PROVE  /\ taken + 1 \in DOMAIN owner /\ taken + 1 \in Request
           /\ owner[taken + 1] = accepted
BY BoundAssumption DEF TypeOK, HasRecord, Request

LEMMA CompleteStepKept ==
    ASSUME RInv, NEW t \in Thread, CompleteStep(t)
    PROVE  Kept'
<1> Kept /\ OwnedOnce
    BY DEF RInv
<1> USE DispatchThread, NoneAssumption, ThreadAssumption
    DEF listVars, connVars, threadVars, clientVars, wireVars,
        Goto, Call, Owning, Completing, Thread,
        Kept, TypeOK, Placed, GreetsNobody, Greeting, Wired, Listens, Reading, Numbered
<1>1. CASE checkAndDequeueRequestInfo(t)
    BY <1>1 DEF checkAndDequeueRequestInfo
<1>2. CASE CheckCancelled(t)
    <2>1. info[arg[t]] # None /\ arg[t] \in Addr
        BY <1>2 DEF CheckCancelled, OwnedOnce, Holds
    <2>2. info[arg[t]].req \in Request \cup {0}
        BY <2>1 DEF RequestInfo
    <2>3. msg' \in [Thread -> Request \cup {0}] /\ \A u \in Thread : u # t => msg'[u] = msg[u]
        <3>1. msg \in [Thread -> Request \cup {0}]
            OBVIOUS
        <3>2. msg' = msg \/ msg' = [msg EXCEPT ![t] = info[arg[t]].req]
            BY <1>2 DEF CheckCancelled
        <3> HIDE DEF Kept, Thread
        <3> QED BY <2>2, <3>1, <3>2
    <2>4. \E l \in {"free", "readfd", "response"} : pc' = [pc EXCEPT ![t] = l]
        BY <1>2 DEF CheckCancelled
    <2>5. t = Dispatch => ret[t] \in {"fire", "read", "again"} \/ UNCHANGED msg
        BY <1>2 DEF CheckCancelled
    <2>6. /\ pc[t] = "check"
          /\ UNCHANGED <<listVars, connVars, writer, ret, arg, wfd, batch, clientVars, wireVars, restarts>>
        BY <1>2 DEF CheckCancelled
    <2> QED BY <2>3, <2>4, <2>5, <2>6
<1>3. CASE \E p \in Addr : ResponseIssuesLocal(t, p)
    <2>1. PICK p \in Addr : ResponseIssuesLocal(t, p)
        BY <1>3
    <2>2. NewRequestInfo(p, 0, 1)
        BY <2>1 DEF ResponseIssuesLocal, issueLocalRequest
    <2> QED BY <2>1, <2>2, NewRequestInfoLemma DEF ResponseIssuesLocal
<1>4. CASE ReadFdCommand(t)
    BY <1>4 DEF ReadFdCommand
<1>5. CASE LockWrite(t)
    BY <1>5 DEF LockWrite
<1>6. CASE WriteFails(t)
    BY <1>6 DEF WriteFails, Up
<1>7. CASE CloseBroken(t)
    BY <1>7 DEF CloseBroken, Up
<1>8. CASE WriteHeader(t)
    BY <1>8 DEF WriteHeader, Up
<1>9. CASE WriteData(t)
    BY <1>9 DEF WriteData, Up
<1>10. CASE UnlockWrite(t)
    BY <1>10 DEF UnlockWrite
<1>11. CASE FreeAndReturn(t)
    BY <1>11 DEF FreeAndReturn
<1> QED BY <1>1, <1>2, <1>3, <1>4, <1>5, <1>6, <1>7, <1>8, <1>9, <1>10, <1>11 DEF CompleteStep

LEMMA ReadStepKept ==
    ASSUME RInv, ReadStep
    PROVE  Kept'
<1> Kept /\ OwnedOnce
    BY DEF RInv
<1> USE DispatchThread, NoneAssumption, ThreadAssumption
    DEF listVars, connVars, threadVars, clientVars, wireVars,
        Goto, Call, Owning, Completing, Thread,
        Kept, TypeOK, Placed, GreetsNobody, Greeting, Wired, Listens, Reading, Numbered
<1>1. CASE \E p \in Addr : ReadRequest(p)
    <2>1. PICK p \in Addr : ReadRequest(p)
        BY <1>1
    <2>2. NewRequestInfo(p, taken + 1, 0) /\ taken + 1 \in DOMAIN owner /\ owner[taken + 1] = accepted
        BY <2>1, HasRecordLemma DEF ReadRequest
    <2> QED BY <2>1, <2>2, NewRequestInfoLemma DEF ReadRequest
<1>2. CASE ReadUnsupported
    <2>1. taken + 1 \in DOMAIN owner /\ taken + 1 \in Request /\ owner[taken + 1] = accepted
        BY <1>2, HasRecordLemma DEF ReadUnsupported
    <2> QED BY <1>2, <2>1 DEF ReadUnsupported
<1>3. CASE ReadInvalidBlock
    BY <1>3 DEF ReadInvalidBlock, HasRecord
<1>4. CASE ReadNothing
    BY <1>4 DEF ReadNothing
<1>5. CASE ReadEnd
    BY <1>5 DEF ReadEnd
<1>6. CASE DispatchInvalid
    BY <1>6 DEF DispatchInvalid
<1>7. CASE DispatchOnRequest
    <2>1. vendor' \in [Addr -> Nat]
        <3>1. vendor \in [Addr -> Nat]
            OBVIOUS
        <3>2. vendor' = [q \in Addr |-> IF q = arg[Dispatch] THEN vendor[q] + 1 ELSE vendor[q]]
            BY <1>7, <3>1 DEF DispatchOnRequest
        <3> QED BY <3>1, <3>2
    <2> QED BY <1>7, <2>1 DEF DispatchOnRequest
<1>8. CASE DispatchCompletes
    BY <1>8 DEF DispatchCompletes
<1>9. CASE DispatchCompletesTwice
    BY <1>9 DEF DispatchCompletesTwice
<1>10. CASE CompleteAgain
    BY <1>10 DEF CompleteAgain
<1>11. CASE CloseFd
    <2>1. accepted \in Nat
        OBVIOUS
    <2>2. taken' \in 0..Len(owner) /\ \A r \in 1..taken' : owner[r] <= accepted
        BY <1>11, <2>1, SentUpToLemma DEF CloseFd
    <2> QED BY <1>11, <2>2 DEF CloseFd
<1>12. CASE UnsetFdCommand
    BY <1>12 DEF UnsetFdCommand
<1>13. CASE onCommandsSocketClosed
    <2>1. info' \in [Addr -> RequestInfo \cup {None}]
        BY <1>13, CancelPendingLemma DEF onCommandsSocketClosed
    <2> QED BY <1>13, <2>1 DEF onCommandsSocketClosed
<1> QED BY <1>1, <1>2, <1>3, <1>4, <1>5, <1>6, <1>7, <1>8, <1>9, <1>10, <1>11, <1>12, <1>13 DEF ReadStep

LEMMA LoopStepKept ==
    ASSUME RInv, LoopStep
    PROVE  Kept'
<1> Kept /\ OwnedOnce
    BY DEF RInv
<1> USE DispatchThread, NoneAssumption, ThreadAssumption
    DEF listVars, connVars, threadVars, clientVars, wireVars,
        Goto, Call, Owning, Completing, Thread,
        Kept, TypeOK, Placed, GreetsNobody, Greeting, Wired, Listens, Reading, Numbered
<1>1. CASE SelectReturns
    BY <1>1 DEF SelectReturns, Readable
<1>2. CASE SelectFails
    BY <1>2 DEF SelectFails
<1>3. CASE FireCallback("listen", "accept")
    BY <1>3 DEF FireCallback
<1>4. CASE FireCallback("commands", "read")
    BY <1>4 DEF FireCallback
<1>5. CASE FireCallback("debug", "debug")
    BY <1>5 DEF FireCallback
<1>6. CASE FireDone
    BY <1>6 DEF FireDone
<1>7. CASE AcceptFails
    BY <1>7 DEF AcceptFails
<1>8. CASE AcceptRefuses
    <2>1. info' \in [Addr -> RequestInfo \cup {None}]
        BY <1>8, CancelPendingLemma DEF AcceptRefuses
    <2>2. accepted + 1 \in Nat /\ accepted + 1 >= accepted /\ accepted + 1 <= conns /\ accepted + 1 \in Conn
        BY <1>8, BoundAssumption DEF AcceptRefuses, Conn
    <2>3. taken' \in 0..Len(owner) /\ \A r \in 1..taken' : owner[r] <= accepted + 1
        BY <1>8, <2>2, SentUpToLemma DEF AcceptRefuses
    <2>4. TypeOK' /\ Numbered'
        BY <1>8, <2>1, <2>2, <2>3, BoundAssumption DEF AcceptRefuses, Conn
    <2>5. Placed' /\ GreetsNobody' /\ Wired'
        BY <1>8 DEF AcceptRefuses
    <2> QED BY <2>4, <2>5
<1>9. CASE \E f \in Fd : AcceptPhone(f)
    <2>1. PICK f \in Fd : AcceptPhone(f)
        BY <1>9
    <2>2. accepted + 1 <= conns /\ accepted + 1 \in Conn /\ accepted \in Nat
        BY <2>1, BoundAssumption DEF AcceptPhone, Conn
    <2>3. /\ open' \in [Fd -> Conn \cup {0}] /\ open'[f] = accepted + 1
          /\ \A g \in Fd : g # f => open'[g] = 0
        BY <2>1, <2>2 DEF AcceptPhone
    <2>4. Dispatch \notin VThread /\ pc' = [pc EXCEPT ![Dispatch] = "readfd"]
          /\ ret' = [ret EXCEPT ![Dispatch] = "radiostate"]
        BY <2>1 DEF AcceptPhone
    <2>5. TypeOK'
        BY <2>1, <2>2, <2>3, <2>4 DEF AcceptPhone
    <2>6. Placed' /\ GreetsNobody'
        BY <2>1, <2>4 DEF AcceptPhone
    <2>7. Wired'
        BY <2>1, <2>3, <2>4 DEF AcceptPhone
    <2>8. Numbered'
        <3>1. \A r \in 1..taken : owner[r] \in Nat
            BY BoundAssumption DEF Conn
        <3> QED BY <2>1, <2>2, <2>3, <2>4, <3>1 DEF AcceptPhone
    <2> QED BY <2>5, <2>6, <2>7, <2>8
<1>10. CASE SendRadioState
    BY <1>10 DEF SendRadioState
<1>11. CASE SendNITZ
    <2>1. pc[Dispatch] = "nitz" /\ UNCHANGED <<listVars, connVars, writer, arg, msg, wfd, batch, clientVars,
                                             wireVars, restarts>>
        BY <1>11 DEF SendNITZ
    <2>2. CASE Call(Dispatch, "readfd", "fire")
        BY <2>1, <2>2
    <2>3. CASE Goto(Dispatch, "fire") /\ UNCHANGED ret
        BY <2>1, <2>3
    <2> QED BY <1>11, <2>2, <2>3 DEF SendNITZ
<1>12. CASE DebugNothing
    BY <1>12 DEF DebugNothing
<1>13. CASE DebugUnsolicited
    BY <1>13 DEF DebugUnsolicited
<1>14. CASE \E p \in Addr : DebugLocalRequest(p)
    <2>1. PICK p \in Addr : DebugLocalRequest(p)
        BY <1>14
    <2>2. NewRequestInfo(p, 0, 1)
        BY <2>1 DEF DebugLocalRequest, issueLocalRequest
    <2>3. \E l \in {"fire", "sleep"} : Goto(Dispatch, l)
        BY <2>1 DEF DebugLocalRequest
    <2>4. pc[Dispatch] \in {"debug", "sleep"} /\ UNCHANGED <<connVars, writer, ret, arg, msg, wfd, batch,
                   clientVars, wireVars, restarts>>
        BY <2>1 DEF DebugLocalRequest
    <2> QED BY <2>2, <2>3, <2>4, NewRequestInfoLemma
<1>15. CASE \E p \in Addr : DebugCloseSocket(p)
    <2>1. PICK p \in Addr : DebugCloseSocket(p)
        BY <1>15
    <2>2. NewRequestInfo(p, 0, 1)
        BY <2>1 DEF DebugCloseSocket, issueLocalRequest
    <2> QED BY <2>1, <2>2, NewRequestInfoLemma DEF DebugCloseSocket
<1> QED BY <1>1, <1>2, <1>3, <1>4, <1>5, <1>6, <1>7, <1>8, <1>9, <1>10, <1>11, <1>12, <1>13, <1>14, <1>15 DEF LoopStep

LEMMA VendorStepKept ==
    ASSUME RInv, NEW t \in Thread, VendorStep(t)
    PROVE  Kept'
<1> Kept /\ OwnedOnce
    BY DEF RInv
<1> USE DispatchThread, NoneAssumption, ThreadAssumption
    DEF listVars, connVars, threadVars, clientVars, wireVars,
        Goto, Call, Owning, Completing, Thread,
        Kept, TypeOK, Placed, GreetsNobody, Greeting, Wired, Listens, Reading, Numbered
<1>1. CASE VendorUnsolicited(t)
    BY <1>1 DEF VendorUnsolicited
<1>2. CASE \E p \in Addr : VendorComplete(t, p)
    BY <1>2 DEF VendorComplete
<1> QED BY <1>1, <1>2 DEF VendorStep

LEMMA ClientStepKept ==
    ASSUME RInv, ClientStep
    PROVE  Kept'
<1> Kept /\ OwnedOnce
    BY DEF RInv
<1> USE DispatchThread, NoneAssumption, ThreadAssumption
    DEF listVars, connVars, threadVars, clientVars, wireVars,
        Goto, Call, Owning, Completing, Thread,
        Kept, TypeOK, Placed, GreetsNobody, Greeting, Wired, Listens, Reading, Numbered
<1>1. CASE Connect
    <2>1. conns + 1 \in 0..MaxConn /\ conns + 1 \in Conn /\ conns \in Nat /\ accepted \in Nat
        BY <1>1, BoundAssumption DEF Connect, Conn
    <2>2. peer' \in [Conn -> {"none", "up", "down"}] /\ \A c \in Conn : peer'[c] = "up" => c = conns'
        BY <1>1, <2>1 DEF Connect
    <2>3. TypeOK'
        BY <1>1, <2>1, <2>2 DEF Connect
    <2>4. Placed' /\ GreetsNobody' /\ Wired'
        BY <1>1 DEF Connect
    <2>5. Numbered'
        <3>1. \A r \in DOMAIN owner : owner[r] \in Nat
            BY BoundAssumption DEF Conn
        <3> QED BY <1>1, <2>1, <2>2, <3>1 DEF Connect
    <2> QED BY <2>3, <2>4, <2>5
<1>2. CASE \E c \in Conn : ClientSend(c)
    <2>1. PICK c \in Conn : ClientSend(c)
        BY <1>2
    <2>2. c = conns /\ Len(owner) \in Nat /\ Len(owner) < MaxReq /\ owner' = Append(owner, c)
        BY <2>1 DEF ClientSend
    <2>3. /\ owner' \in Seq(Conn) /\ Len(owner') = Len(owner) + 1
          /\ DOMAIN owner = 1..Len(owner) /\ DOMAIN owner' = 1..(Len(owner) + 1)
          /\ \A r \in DOMAIN owner : owner'[r] = owner[r]
          /\ owner'[Len(owner) + 1] = conns
        BY <2>2
    <2>4. TypeOK'
        BY <2>1, <2>2, <2>3, BoundAssumption DEF ClientSend
    <2>5. Placed' /\ GreetsNobody' /\ Wired'
        BY <2>1 DEF ClientSend
    <2>6. Numbered'
        BY <2>1, <2>2, <2>3 DEF ClientSend, Conn
    <2> QED BY <2>4, <2>5, <2>6
<1>3. CASE \E c \in Conn : ClientClose(c)
    BY <1>3 DEF ClientClose
<1> QED BY <1>1, <1>2, <1>3 DEF ClientStep

LEMMA RestartKept ==
    ASSUME RInv, Restart
    PROVE  Kept'
<1> Kept
    BY DEF RInv
<1> USE DEF wireVars
<1>1. TypeOK'
    <2>1. taken' \in 0..Len(owner) /\ accepted' \in 0..conns /\ restarts' \in 0..MaxRestart
        BY BoundAssumption DEF Kept, TypeOK, Restart
    <2>2. /\ pc' \in [Thread -> {"idle", "select"}] /\ ret' \in [Thread -> {"idle", "select"}]
          /\ info' \in [Addr -> RequestInfo \cup {None}] /\ vendor' \in [Addr -> Nat]
        BY DEF Restart, Base
    <2>3. /\ open' \in [Fd -> Conn \cup {0}] /\ peer' \in [Conn -> {"none", "up", "down"}]
          /\ arg' \in [Thread -> Addr \cup {None}] /\ msg' \in [Thread -> Request \cup {0}]
          /\ wfd' \in [Thread -> Fd \cup {None}]
        BY DEF Restart
    <2>4. /\ pending' = {} /\ fdCommand' = None /\ cmdFd' = None /\ listening' /\ writer' = None
          /\ batch' = {} /\ UNCHANGED <<conns, owner, got, half>>
        BY DEF Restart
    <2> QED BY <2>1, <2>2, <2>3, <2>4 DEF Kept, TypeOK
<1>2. Placed'
    BY DispatchThread, ThreadAssumption DEF Restart, Placed, Base, Owning, Completing, Thread
<1>3. GreetsNobody'
    BY DispatchThread DEF Restart, GreetsNobody, Greeting, Base, Owning
<1>4. Wired'
    BY DispatchThread, NoneAssumption DEF Restart, Wired, Listens, Reading, Base, Owning, Completing
<1>5. Numbered'
    <2>1. pc'[Dispatch] = "select" /\ batch' = {} /\ accepted' = conns /\ taken' = Len(owner)
          /\ (\A f \in Fd : open'[f] = 0) /\ (\A c \in Conn : peer'[c] # "up")
          /\ UNCHANGED <<conns, owner>>
        BY DispatchThread DEF Restart, Base
    <2>2. conns \in Nat /\ DOMAIN owner = 1..Len(owner)
        BY DEF Kept, TypeOK
    <2> QED BY <2>1, <2>2 DEF Kept, Numbered
<1> QED BY <1>1, <1>2, <1>3, <1>4, <1>5 DEF Kept

LEMMA InitKept == Init => Kept
<1> SUFFICES ASSUME Init PROVE Kept
    OBVIOUS
<1>1. TypeOK
    <2>1. Base(Dispatch) = "select" /\ \A t \in VThread : Base(t) = "idle"
        BY ThreadAssumption DEF Base
    <2> QED BY <2>1, BoundAssumption DEF Init, TypeOK, Thread
<1>2. Placed
    BY DispatchThread, ThreadAssumption DEF Init, Placed, Base, Owning, Completing, Thread
<1>3. GreetsNobody
    BY DispatchThread DEF Init, GreetsNobody, Greeting, Base, Owning
<1>4. Wired
    BY DispatchThread DEF Init, Wired, Listens, Reading, Base, Owning, Completing
<1>5. Numbered
    BY DispatchThread DEF Init, Numbered, Base
<1> QED BY <1>1, <1>2, <1>3, <1>4, <1>5 DEF Kept

-----------------------------------------------------------------------------
(* Who owns the RequestInfos.                                              *)

\* Nothing is allocated or freed, and everybody holds what they held.
LEMMA OwnersStay ==
    ASSUME OwnedOnce, UNCHANGED pending,
           \A p \in Addr : info'[p] = None <=> info[p] = None,
           \A t \in Thread : Holds(t)' = Holds(t)
    PROVE  OwnedOnce'
BY DEF OwnedOnce

\* A thread that held nothing and holds nothing.
LEMMA HoldsNothing ==
    ASSUME NEW t \in Thread,
           \A u \in Thread : u # t => pc'[u] = pc[u] /\ arg'[u] = arg[u],
           pc[t] \notin Owning \/ arg[t] = None,
           pc'[t] \notin Owning \/ arg'[t] = None
    PROVE  \A u \in Thread : Holds(u)' = Holds(u)
<1>1. Holds(t) = {} /\ Holds(t)' = {}
    BY DEF Holds
<1>2. ASSUME NEW u \in Thread, u # t PROVE Holds(u)' = Holds(u)
    BY <1>2 DEF Holds
<1> QED BY <1>1, <1>2

\* What a thread held is freed.
LEMMA OwnersOfFreed ==
    ASSUME OwnedOnce, NEW t \in Thread, UNCHANGED pending, Holds(t)' = {},
           \A p \in Addr : p \in Holds(t) <=> p = arg[t],
           \A u \in Thread : u # t => Holds(u)' = Holds(u),
           info' = [p \in Addr |-> IF p = arg[t] THEN None ELSE info[p]]
    PROVE  OwnedOnce'
<1>1. ASSUME NEW p \in Addr
      PROVE  info'[p] # None <=> p \in pending' \/ \E u \in Thread : p \in Holds(u)'
    <2>1. CASE p = arg[t]
        <3>1. p \notin pending /\ \A u \in Thread : u # t => p \notin Holds(u)
            BY <2>1 DEF OwnedOnce
        <3>2. \A u \in Thread : p \notin Holds(u)'
            BY <3>1
        <3> QED BY <2>1, <3>1, <3>2
    <2>2. CASE p # arg[t]
        <3>1. p \notin Holds(t) /\ p \notin Holds(t)'
            BY <2>2
        <3>2. \A u \in Thread : p \in Holds(u)' <=> p \in Holds(u)
            BY <3>1
        <3> QED BY <2>2, <3>2 DEF OwnedOnce
    <2> QED BY <2>1, <2>2
<1>2. \A u \in Thread : Holds(u)' \subseteq Holds(u)
    OBVIOUS
<1>3. /\ \A u \in Thread : Holds(u)' \cap pending' = {}
      /\ \A u, v \in Thread : u # v => Holds(u)' \cap Holds(v)' = {}
    BY <1>2 DEF OwnedOnce
<1> QED BY <1>1, <1>3 DEF OwnedOnce

\* A new RequestInfo is on the list.
LEMMA OwnersOfNew ==
    ASSUME Kept, OwnedOnce, NEW p \in Addr, NEW r \in DOMAIN owner \cup {0}, NEW h \in {0, 1},
           NewRequestInfo(p, r, h), \A t \in Thread : Holds(t)' = Holds(t)
    PROVE  OwnedOnce'
<1>1. /\ info'[p] # None /\ pending' = pending \cup {p}
      /\ \A q \in Addr : q # p => info'[q] = info[q]
    BY NewRequestInfoLemma DEF Kept
<1>2. info[p] = None
    BY DEF NewRequestInfo
<1> QED BY <1>1, <1>2 DEF OwnedOnce

\* RIL_onRequestComplete returns to where nothing is held.
LEMMA ReturnPlace ==
    ASSUME Placed, NEW t \in Thread, pc[t] \in Owning \cup {"dequeue"}
    PROVE  ret[t] \notin Owning
<1>1. CASE t = Dispatch
    <2>1. ret[t] \in {"fire", "read", "again", "radiostate", "nitz"}
        BY <1>1 DEF Placed
    <2> QED BY <2>1 DEF Owning
<1>2. CASE t \in VThread
    <2>1. ret[t] = "idle"
        BY <1>2 DEF Placed
    <2> QED BY <2>1 DEF Owning
<1> QED BY <1>1, <1>2 DEF Thread

LEMMA CompleteStepOwned ==
    ASSUME Kept, OwnedOnce, NEW t \in Thread, CompleteStep(t)
    PROVE  OwnedOnce'
<1> USE DispatchThread, NoneAssumption DEF listVars, connVars, threadVars, clientVars, wireVars,
        Goto, Call, Owning, Holds, Kept, TypeOK, Placed, GreetsNobody, Greeting
<1>1. CASE checkAndDequeueRequestInfo(t)
    <2>1. CASE arg[t] \in pending
        BY <1>1, <2>1 DEF checkAndDequeueRequestInfo, OwnedOnce
    <2>2. CASE arg[t] \notin pending
        <3> pending' = pending
            BY <1>1, <2>2 DEF checkAndDequeueRequestInfo
        <3>1. pc[t] = "dequeue" /\ pc'[t] = ret[t]
              /\ \A u \in Thread : u # t => pc'[u] = pc[u] /\ arg'[u] = arg[u]
            BY <1>1, <2>2 DEF checkAndDequeueRequestInfo
        <3>2. ret[t] \notin Owning
            <4>1. Placed
                OBVIOUS
            <4> HIDE DEF Kept, Placed, Owning
            <4> QED BY <3>1, <4>1, ReturnPlace
        <3>3. \A u \in Thread : Holds(u)' = Holds(u)
            BY <3>1, <3>2, HoldsNothing
        <3> QED BY <1>1, <3>3, OwnersStay DEF checkAndDequeueRequestInfo
    <2> QED BY <2>1, <2>2
<1>2. CASE CheckCancelled(t)
    BY <1>2, OwnersStay DEF CheckCancelled
<1>3. CASE \E p \in Addr : ResponseIssuesLocal(t, p)
    <2>1. PICK p \in Addr : ResponseIssuesLocal(t, p)
        BY <1>3
    <2>2. NewRequestInfo(p, 0, 1)
        BY <2>1 DEF ResponseIssuesLocal, issueLocalRequest
    <2> QED BY <2>1, <2>2, OwnersOfNew DEF ResponseIssuesLocal
<1>4. CASE ReadFdCommand(t)
    BY <1>4, OwnersStay DEF ReadFdCommand
<1>5. CASE LockWrite(t)
    BY <1>5, OwnersStay DEF LockWrite
<1>6. CASE WriteFails(t)
    BY <1>6, OwnersStay DEF WriteFails
<1>7. CASE CloseBroken(t)
    BY <1>7, OwnersStay DEF CloseBroken
<1>8. CASE WriteHeader(t)
    BY <1>8, OwnersStay DEF WriteHeader
<1>9. CASE WriteData(t)
    BY <1>9, OwnersStay DEF WriteData
<1>10. CASE UnlockWrite(t)
    BY <1>10, OwnersStay DEF UnlockWrite
<1>11. CASE FreeAndReturn(t)
    <2>0. /\ pc[t] = "free" /\ pc' = [pc EXCEPT ![t] = ret[t]] /\ UNCHANGED <<arg, pending>>
          /\ info' = [p \in Addr |-> IF p = arg[t] THEN None ELSE info[p]]
        BY <1>11 DEF FreeAndReturn
    <2>1. pc'[t] \notin Owning /\ \A u \in Thread : u # t => pc'[u] = pc[u]
        <3>1. pc'[t] = ret[t] /\ \A u \in Thread : u # t => pc'[u] = pc[u]
            BY <2>0
        <3>2. Placed /\ pc[t] \in Owning
            BY <2>0
        <3> HIDE DEF Kept, Placed, Owning
        <3> QED BY <3>1, <3>2, ReturnPlace
    <2>2. /\ \A p \in Addr : p \in Holds(t) <=> p = arg[t]
          /\ Holds(t)' = {} /\ \A u \in Thread : u # t => Holds(u)' = Holds(u)
        BY <2>0, <2>1
    <2> HIDE DEF Kept, Holds, Owning
    <2> QED BY <2>0, <2>2, OwnersOfFreed
<1> QED BY <1>1, <1>2, <1>3, <1>4, <1>5, <1>6, <1>7, <1>8, <1>9, <1>10, <1>11 DEF CompleteStep

LEMMA ReadStepOwned ==
    ASSUME Kept, OwnedOnce, ReadStep
    PROVE  OwnedOnce'
<1> USE DispatchThread, NoneAssumption DEF listVars, connVars, threadVars, clientVars, wireVars,
        Goto, Call, Owning, Holds, Kept, TypeOK, Placed, GreetsNobody, Greeting
<1>1. CASE \E p \in Addr : ReadRequest(p)
    <2>1. PICK p \in Addr : ReadRequest(p)
        BY <1>1
    <2>2. NewRequestInfo(p, taken + 1, 0) /\ taken + 1 \in DOMAIN owner
        BY <2>1, HasRecordLemma DEF ReadRequest, issueLocalRequest
    <2> QED BY <2>1, <2>2, OwnersOfNew DEF ReadRequest
<1>2. CASE ReadUnsupported
    BY <1>2, OwnersStay DEF ReadUnsupported
<1>3. CASE ReadInvalidBlock
    BY <1>3, OwnersStay DEF ReadInvalidBlock
<1>4. CASE ReadNothing
    BY <1>4, OwnersStay DEF ReadNothing
<1>5. CASE ReadEnd
    BY <1>5, OwnersStay DEF ReadEnd
<1>6. CASE DispatchInvalid
    BY <1>6, OwnersStay DEF DispatchInvalid
<1>7. CASE DispatchOnRequest
    BY <1>7, OwnersStay DEF DispatchOnRequest
<1>8. CASE DispatchCompletes
    BY <1>8, OwnersStay DEF DispatchCompletes
<1>9. CASE DispatchCompletesTwice
    BY <1>9, OwnersStay DEF DispatchCompletesTwice
<1>10. CASE CompleteAgain
    BY <1>10, OwnersStay DEF CompleteAgain
<1>11. CASE CloseFd
    BY <1>11, OwnersStay DEF CloseFd
<1>12. CASE UnsetFdCommand
    BY <1>12, OwnersStay DEF UnsetFdCommand
<1>13. CASE onCommandsSocketClosed
    <2>1. \A p \in Addr : info'[p] = None <=> info[p] = None
        BY <1>13, CancelPendingLemma DEF onCommandsSocketClosed
    <2> QED BY <1>13, <2>1, OwnersStay DEF onCommandsSocketClosed
<1> QED BY <1>1, <1>2, <1>3, <1>4, <1>5, <1>6, <1>7, <1>8, <1>9, <1>10, <1>11, <1>12, <1>13 DEF ReadStep

LEMMA LoopStepOwned ==
    ASSUME Kept, OwnedOnce, LoopStep
    PROVE  OwnedOnce'
<1> USE DispatchThread, NoneAssumption DEF listVars, connVars, threadVars, clientVars, wireVars,
        Goto, Call, Owning, Holds, Kept, TypeOK, Placed, GreetsNobody, Greeting
<1>1. CASE SelectReturns
    BY <1>1, OwnersStay DEF SelectReturns
<1>2. CASE SelectFails
    BY <1>2, OwnersStay DEF SelectFails
<1>3. CASE FireCallback("listen", "accept")
    BY <1>3, OwnersStay DEF FireCallback
<1>4. CASE FireCallback("commands", "read")
    BY <1>4, OwnersStay DEF FireCallback
<1>5. CASE FireCallback("debug", "debug")
    BY <1>5, OwnersStay DEF FireCallback
<1>6. CASE FireDone
    BY <1>6, OwnersStay DEF FireDone
<1>7. CASE AcceptFails
    BY <1>7, OwnersStay DEF AcceptFails
<1>8. CASE AcceptRefuses
    <2>1. \A p \in Addr : info'[p] = None <=> info[p] = None
        BY <1>8, CancelPendingLemma DEF AcceptRefuses
    <2> QED BY <1>8, <2>1, OwnersStay DEF AcceptRefuses
<1>9. CASE \E f \in Fd : AcceptPhone(f)
    <2>1. /\ pc[Dispatch] \notin Owning /\ (pc'[Dispatch] \notin Owning \/ arg'[Dispatch] = None)
          /\ \A u \in Thread : u # Dispatch => pc'[u] = pc[u] /\ arg'[u] = arg[u]
        BY <1>9 DEF AcceptPhone
    <2>2. \A u \in Thread : Holds(u)' = Holds(u)
        BY <2>1, HoldsNothing
    <2> QED BY <1>9, <2>2, OwnersStay DEF AcceptPhone
<1>10. CASE SendRadioState
    <2>1. /\ pc[Dispatch] \notin Owning /\ (pc'[Dispatch] \notin Owning \/ arg'[Dispatch] = None)
          /\ \A u \in Thread : u # Dispatch => pc'[u] = pc[u] /\ arg'[u] = arg[u]
        BY <1>10 DEF SendRadioState
    <2>2. \A u \in Thread : Holds(u)' = Holds(u)
        BY <2>1, HoldsNothing
    <2> QED BY <1>10, <2>2, OwnersStay DEF SendRadioState
<1>11. CASE SendNITZ
    <2>1. /\ pc[Dispatch] \notin Owning /\ (pc'[Dispatch] \notin Owning \/ arg'[Dispatch] = None)
          /\ \A u \in Thread : u # Dispatch => pc'[u] = pc[u] /\ arg'[u] = arg[u]
        BY <1>11 DEF SendNITZ
    <2>2. \A u \in Thread : Holds(u)' = Holds(u)
        BY <2>1, HoldsNothing
    <2> QED BY <1>11, <2>2, OwnersStay DEF SendNITZ
<1>12. CASE DebugNothing
    BY <1>12, OwnersStay DEF DebugNothing
<1>13. CASE DebugUnsolicited
    BY <1>13, OwnersStay DEF DebugUnsolicited
<1>14. CASE \E p \in Addr : DebugLocalRequest(p)
    <2>1. PICK p \in Addr : DebugLocalRequest(p)
        BY <1>14
    <2>2. NewRequestInfo(p, 0, 1)
        BY <2>1 DEF DebugLocalRequest, issueLocalRequest
    <2>3. /\ pc[Dispatch] \notin Owning /\ pc'[Dispatch] \notin Owning
          /\ \A u \in Thread : u # Dispatch => pc'[u] = pc[u] /\ arg'[u] = arg[u]
        BY <2>1 DEF DebugLocalRequest
    <2>4. \A u \in Thread : Holds(u)' = Holds(u)
        BY <2>3, HoldsNothing
    <2> HIDE DEF Holds, Owning
    <2> QED BY <2>2, <2>4, OwnersOfNew
<1>15. CASE \E p \in Addr : DebugCloseSocket(p)
    <2>1. PICK p \in Addr : DebugCloseSocket(p)
        BY <1>15
    <2>2. NewRequestInfo(p, 0, 1)
        BY <2>1 DEF DebugCloseSocket, issueLocalRequest
    <2>3. /\ pc[Dispatch] \notin Owning /\ pc'[Dispatch] \notin Owning
          /\ \A u \in Thread : u # Dispatch => pc'[u] = pc[u] /\ arg'[u] = arg[u]
        BY <2>1 DEF DebugCloseSocket
    <2>4. \A u \in Thread : Holds(u)' = Holds(u)
        BY <2>3, HoldsNothing
    <2> HIDE DEF Holds, Owning
    <2> QED BY <2>2, <2>4, OwnersOfNew
<1> QED BY <1>1, <1>2, <1>3, <1>4, <1>5, <1>6, <1>7, <1>8, <1>9, <1>10, <1>11, <1>12, <1>13, <1>14, <1>15 DEF LoopStep

LEMMA VendorStepOwned ==
    ASSUME Kept, OwnedOnce, NEW t \in Thread, VendorStep(t)
    PROVE  OwnedOnce'
<1> USE DispatchThread, NoneAssumption DEF listVars, connVars, threadVars, clientVars, wireVars,
        Goto, Call, Owning, Holds, Kept, TypeOK, Placed, GreetsNobody, Greeting
<1>1. CASE VendorUnsolicited(t)
    BY <1>1, OwnersStay DEF VendorUnsolicited
<1>2. CASE \E p \in Addr : VendorComplete(t, p)
    <2>1. /\ pc[t] \notin Owning /\ (pc'[t] \notin Owning \/ arg'[t] = None)
          /\ \A u \in Thread : u # t => pc'[u] = pc[u] /\ arg'[u] = arg[u]
        BY <1>2 DEF VendorComplete
    <2>2. \A u \in Thread : Holds(u)' = Holds(u)
        BY <2>1, HoldsNothing
    <2> QED BY <1>2, <2>2, OwnersStay DEF VendorComplete
<1> QED BY <1>1, <1>2 DEF VendorStep

LEMMA ClientStepOwned ==
    ASSUME Kept, OwnedOnce, ClientStep
    PROVE  OwnedOnce'
<1> USE DispatchThread, NoneAssumption DEF listVars, connVars, threadVars, clientVars, wireVars,
        Goto, Call, Owning, Holds, Kept, TypeOK, Placed, GreetsNobody, Greeting
<1>1. CASE Connect
    BY <1>1, OwnersStay DEF Connect
<1>2. CASE \E c \in Conn : ClientSend(c) \/ ClientClose(c)
    BY <1>2, OwnersStay DEF ClientSend, ClientClose
<1> QED BY <1>1, <1>2 DEF ClientStep

LEMMA RestartOwned ==
    ASSUME Restart
    PROVE  OwnedOnce'
BY DEF Restart, OwnedOnce, Holds, Base, Owning

LEMMA NextRInv == RInv /\ [Next]_vars => RInv'
<1> SUFFICES ASSUME RInv, [Next]_vars PROVE RInv'
    OBVIOUS
<1> Kept /\ OwnedOnce
    BY DEF RInv
<1>1. ASSUME NEW t \in Thread, CompleteStep(t) PROVE RInv'
    BY <1>1, CompleteStepKept, CompleteStepOwned DEF RInv
<1>2. ASSUME NEW t \in Thread, VendorStep(t) PROVE RInv'
    BY <1>2, VendorStepKept, VendorStepOwned DEF RInv
<1>3. CASE ReadStep
    BY <1>3, ReadStepKept, ReadStepOwned DEF RInv
<1>4. CASE LoopStep
    BY <1>4, LoopStepKept, LoopStepOwned DEF RInv
<1>5. CASE ClientStep
    BY <1>5, ClientStepKept, ClientStepOwned DEF RInv
<1>6. CASE Restart
    BY <1>6, RestartKept, RestartOwned DEF RInv
<1>7. CASE UNCHANGED vars
    <2> USE <1>7 DEF vars, listVars, connVars, threadVars, clientVars, wireVars
    <2>1. TypeOK'
        BY DEF Kept, TypeOK
    <2>2. Placed' /\ GreetsNobody' /\ Wired' /\ Numbered'
        BY DEF Kept, Placed, GreetsNobody, Greeting, Wired, Listens, Reading, Numbered
    <2>3. OwnedOnce'
        BY DEF OwnedOnce, Holds
    <2> QED BY <2>1, <2>2, <2>3 DEF RInv, Kept
<1> QED BY <1>1, <1>2, <1>3, <1>4, <1>5, <1>6, <1>7 DEF Next

LEMMA AlwaysRInv == Spec => []RInv
<1>1. Init => OwnedOnce
    BY DEF Init, OwnedOnce, Holds, Base, Owning
<1> QED BY <1>1, InitKept, NextRInv, PTL DEF Spec, RInv

-----------------------------------------------------------------------------
(* Frames.                                                                 *)

Writing == {"header", "data", "broken", "unlock"}

\* Who writes has s_writeMutex.
Locked == \A t \in Thread : pc[t] \in Writing => writer = t

\* Thread t is in the middle of a response on descriptor f.
Midway(t, f) == half[open[f]] = t /\ pc[t] \in {"data", "broken"} /\ wfd[t] = f

\* Half of a response on an open connection has somebody to finish it, or to close the
\* descriptor.
HalfOwned ==
    /\ \A f \in Fd : open[f] # 0 /\ half[open[f]] # None => \E t \in Thread : Midway(t, f)
    /\ \A c \in Conn : c > accepted => half[c] = None

FInv == Locked /\ HalfOwned /\ FrameIntact

\* Nobody but the thread that has s_writeMutex is in the middle of a response.
LEMMA OnlyWriter ==
    ASSUME FInv, NEW t \in Thread, pc[t] \in Writing,
           NEW f \in Fd, open[f] # 0, half[open[f]] # None
    PROVE  Midway(t, f)
<1>1. PICK u \in Thread : Midway(u, f)
    BY DEF FInv, HalfOwned
<1>2. writer = u /\ writer = t
    BY <1>1 DEF FInv, Locked, Midway, Writing
<1> QED BY <1>1, <1>2

LEMMA GotoEffect ==
    ASSUME TypeOK, NEW t \in Thread, NEW l, Goto(t, l)
    PROVE  pc'[t] = l /\ \A u \in Thread : u # t => pc'[u] = pc[u]
BY DEF TypeOK, Goto

\* A step that writes nothing, and moves threads between places where they do not write.
\* Descriptors are closed, or stand for connections that are new.
LEMMA QuietStep ==
    ASSUME RInv, FInv, UNCHANGED <<writer, half>>,
           accepted' \in Nat, accepted' >= accepted,
           \A f \in Fd : open'[f] \in {open[f], 0} \/ (open'[f] \in Conn /\ open'[f] > accepted),
           \A t \in Thread : \/ pc'[t] = pc[t] /\ wfd'[t] = wfd[t]
                             \/ pc[t] \notin Writing /\ pc'[t] \notin Writing
    PROVE  FInv'
<1>1. Locked'
    BY DEF FInv, Locked
<1>2. HalfOwned'
    <2>1. ASSUME NEW f \in Fd, open'[f] # 0, half[open'[f]] # None
          PROVE  \E t \in Thread : Midway(t, f)'
        <3>1. open'[f] = open[f]
            BY <2>1 DEF FInv, HalfOwned
        <3>2. PICK t \in Thread : Midway(t, f)
            BY <2>1, <3>1 DEF FInv, HalfOwned
        <3>3. pc'[t] = pc[t] /\ wfd'[t] = wfd[t]
            BY <3>2 DEF Midway, Writing
        <3> QED BY <3>1, <3>2, <3>3 DEF Midway
    <2>2. \A c \in Conn : c > accepted' => half'[c] = None
        <3>1. \A c \in Conn : c \in Nat
            BY BoundAssumption DEF Conn
        <3>2. accepted \in Nat
            BY DEF RInv, Kept, TypeOK
        <3> QED BY <3>1, <3>2 DEF FInv, HalfOwned
    <2> QED BY <2>1, <2>2 DEF HalfOwned
<1>3. FrameIntact'
    BY DEF FInv, FrameIntact
<1> QED BY <1>1, <1>2, <1>3 DEF FInv

\* The usual case: one thread moves, and what is open stays as it is or is closed.
LEMMA QuietMove ==
    ASSUME RInv, FInv, UNCHANGED <<writer, half, accepted>>,
           UNCHANGED open \/ \E f \in Fd \cup {None} : open' = [open EXCEPT ![f] = 0],
           NEW t \in Thread, NEW l, Goto(t, l),
           pc[t] \notin Writing, l \notin Writing,
           \A u \in Thread : u # t => wfd'[u] = wfd[u]
    PROVE  FInv'
<1>1. accepted \in Nat
    BY DEF RInv, Kept, TypeOK
<1>2. \A f \in Fd : open'[f] \in {open[f], 0}
    BY DEF RInv, Kept, TypeOK
<1>3. pc'[t] = l /\ \A u \in Thread : u # t => pc'[u] = pc[u]
    BY GotoEffect DEF RInv, Kept
<1> QED BY <1>1, <1>2, <1>3, QuietStep

\* A step of no thread.
LEMMA FramesStay ==
    ASSUME RInv, FInv, UNCHANGED <<writer, half, accepted, open, pc, wfd>>
    PROVE  FInv'
<1>1. accepted \in Nat
    BY DEF RInv, Kept, TypeOK
<1> QED BY <1>1, QuietStep

\* A thread that writes, and goes on doing so.
LEMMA WritingStays ==
    ASSUME RInv, FInv, NEW t \in Thread, pc[t] \in Writing, NEW l, Goto(t, l),
           UNCHANGED writer
    PROVE  Locked'
BY GotoEffect DEF FInv, Locked, RInv, Kept

LEMMA LockWriteFInv ==
    ASSUME RInv, FInv, NEW t \in Thread, LockWrite(t)
    PROVE  FInv'
<1>1. /\ pc[t] = "lock" /\ writer = None /\ writer' = t
      /\ pc'[t] = "header" /\ \A u \in Thread : u # t => pc'[u] = pc[u]
      /\ UNCHANGED <<open, half, accepted, wfd>>
    BY GotoEffect DEF LockWrite, RInv, Kept, connVars, wireVars, clientVars
<1>2. \A u \in Thread : pc[u] \notin Writing
    BY <1>1, NoneAssumption DEF FInv, Locked
<1>3. Locked'
    BY <1>1, <1>2 DEF Locked
<1>4. HalfOwned' /\ FrameIntact'
    BY <1>1 DEF FInv, HalfOwned, Midway, FrameIntact
<1> QED BY <1>3, <1>4 DEF FInv

LEMMA WriteFailsFInv ==
    ASSUME RInv, FInv, NEW t \in Thread, WriteFails(t)
    PROVE  FInv'
<1>1. /\ pc[t] \in {"header", "data"} /\ Goto(t, "broken")
      /\ pc'[t] = "broken" /\ \A u \in Thread : u # t => pc'[u] = pc[u]
      /\ UNCHANGED <<open, half, accepted, writer, wfd>>
    BY GotoEffect DEF WriteFails, RInv, Kept, connVars, wireVars, clientVars
<1>2. Locked'
    BY <1>1, WritingStays DEF Writing
<1>3. HalfOwned' /\ FrameIntact'
    BY <1>1 DEF FInv, HalfOwned, Midway, FrameIntact
<1> QED BY <1>2, <1>3 DEF FInv

LEMMA CloseBrokenFInv ==
    ASSUME RInv, FInv, NEW t \in Thread, CloseBroken(t)
    PROVE  FInv'
<1> DEFINE f == wfd[t]
<1>1. /\ pc[t] = "broken" /\ Goto(t, "unlock") /\ open' = [open EXCEPT ![f] = 0]
      /\ UNCHANGED <<half, accepted, writer, wfd>>
    BY DEF CloseBroken, wireVars, clientVars
<1>2. Locked'
    BY <1>1, WritingStays DEF Writing
<1>3. \A g \in Fd : open'[g] # 0 => open'[g] = open[g] /\ g # f
    BY <1>1 DEF RInv, Kept, TypeOK
<1>4. \A g \in Fd : open[g] # 0 /\ half[open[g]] # None => g = f
    BY <1>1, OnlyWriter DEF Writing, Midway
<1>5. HalfOwned'
    BY <1>1, <1>3, <1>4 DEF FInv, HalfOwned
<1>6. FrameIntact'
    BY <1>1 DEF FInv, FrameIntact
<1> QED BY <1>2, <1>5, <1>6 DEF FInv

\* What an open descriptor stands for.
LEMMA OpenConn ==
    ASSUME RInv, NEW f \in Fd, open[f] # 0
    PROVE  open[f] \in Conn /\ open[f] \in Nat /\ open[f] <= accepted /\ accepted \in Nat
BY BoundAssumption DEF RInv, Kept, TypeOK, Numbered, Conn

LEMMA WriteHeaderFInv ==
    ASSUME RInv, FInv, NEW t \in Thread, WriteHeader(t)
    PROVE  FInv'
<1> DEFINE f == wfd[t]
           c == open[f]
<1>1. /\ pc[t] = "header" /\ Goto(t, "data") /\ Up(f)
      /\ half' = [half EXCEPT ![c] = IF half[c] = None THEN t ELSE "garbled"]
      /\ UNCHANGED <<open, accepted, writer, wfd>>
    BY DEF WriteHeader, connVars, clientVars
<1>2. f \in Fd /\ c # 0
    BY <1>1 DEF RInv, Kept, TypeOK, Placed, Up
<1>3. c \in Conn /\ c \in Nat /\ c <= accepted /\ accepted \in Nat
    BY <1>2, OpenConn
<1>4. \A g \in Fd : open[g] # 0 => half[open[g]] = None /\ g = f
    <2>1. \A g \in Fd : open[g] # 0 => half[open[g]] = None
        BY <1>1, OnlyWriter DEF Writing, Midway
    <2>2. \A g \in Fd : open[g] # 0 => g = f
        BY <1>2 DEF RInv, Kept, Wired
    <2> QED BY <2>1, <2>2
<1>5. half'[c] = t /\ \A i \in Conn : i # c => half'[i] = half[i]
    BY <1>1, <1>2, <1>3, <1>4 DEF RInv, Kept, TypeOK
<1>6. pc'[t] = "data" /\ \A u \in Thread : u # t => pc'[u] = pc[u]
    BY <1>1, GotoEffect DEF RInv, Kept
<1>7. Locked'
    BY <1>1, WritingStays DEF Writing
<1>8. HalfOwned'
    <2>1. Midway(t, f)'
        BY <1>1, <1>5, <1>6 DEF Midway
    <2>2. \A i \in Conn : i > accepted => i # c
        BY <1>3
    <2> QED BY <1>1, <1>4, <1>5, <2>1, <2>2 DEF FInv, HalfOwned
<1>9. FrameIntact'
    BY <1>5, NoneAssumption DEF FInv, FrameIntact
<1> QED BY <1>7, <1>8, <1>9 DEF FInv

LEMMA WriteDataFInv ==
    ASSUME RInv, FInv, NEW t \in Thread, WriteData(t)
    PROVE  FInv'
<1> DEFINE f == wfd[t]
           c == open[f]
<1>1. /\ pc[t] = "data" /\ Goto(t, "unlock") /\ Up(f)
      /\ half' = [half EXCEPT ![c] = IF half[c] \in {None, t} THEN None ELSE "garbled"]
      /\ UNCHANGED <<open, accepted, writer, wfd>>
    BY DEF WriteData, connVars, clientVars
<1>2. f \in Fd /\ c # 0
    BY <1>1 DEF RInv, Kept, TypeOK, Placed, Up
<1>3. c \in Conn /\ \A g \in Fd : open[g] # 0 => g = f
    BY <1>2, OpenConn DEF RInv, Kept, Wired
<1>4. half[c] # None => half[c] = t
    BY <1>1, <1>2, OnlyWriter DEF Writing, Midway
<1>5. half'[c] = None /\ \A i \in Conn : i # c => half'[i] = half[i]
    BY <1>1, <1>3, <1>4 DEF RInv, Kept, TypeOK
<1>6. Locked'
    BY <1>1, WritingStays DEF Writing
<1>7. HalfOwned'
    BY <1>1, <1>3, <1>5 DEF FInv, HalfOwned
<1>8. FrameIntact'
    BY <1>5, NoneAssumption DEF FInv, FrameIntact
<1> QED BY <1>6, <1>7, <1>8 DEF FInv

LEMMA UnlockWriteFInv ==
    ASSUME RInv, FInv, NEW t \in Thread, UnlockWrite(t)
    PROVE  FInv'
<1>1. /\ pc[t] = "unlock" /\ writer' = None
      /\ pc'[t] = "free" /\ \A u \in Thread : u # t => pc'[u] = pc[u]
      /\ UNCHANGED <<open, half, accepted, wfd>>
    BY GotoEffect DEF UnlockWrite, RInv, Kept, connVars, wireVars, clientVars
<1>2. \A u \in Thread : u # t => pc[u] \notin Writing
    BY <1>1 DEF FInv, Locked, Writing
<1>3. Locked'
    BY <1>1, <1>2 DEF Locked, Writing
<1>4. HalfOwned' /\ FrameIntact'
    BY <1>1 DEF FInv, HalfOwned, Midway, FrameIntact
<1> QED BY <1>3, <1>4 DEF FInv

LEMMA CompleteStepFInv ==
    ASSUME RInv, FInv, NEW t \in Thread, CompleteStep(t)
    PROVE  FInv'
<1> USE DispatchThread DEF listVars, connVars, threadVars, clientVars, wireVars, Call, Writing
<1>1. CASE checkAndDequeueRequestInfo(t)
    <2>1. ret[t] \notin Writing
        BY DEF RInv, Kept, TypeOK
    <2> QED BY <1>1, <2>1, QuietMove DEF checkAndDequeueRequestInfo
<1>2. CASE CheckCancelled(t)
    <2>1. PICK l \in {"free", "readfd", "response"} : Goto(t, l)
        BY <1>2 DEF CheckCancelled, Goto
    <2> QED BY <1>2, <2>1, QuietMove DEF CheckCancelled
<1>3. CASE \E p \in Addr : ResponseIssuesLocal(t, p)
    BY <1>3, QuietMove DEF ResponseIssuesLocal
<1>4. CASE ReadFdCommand(t)
    <2>1. \A u \in Thread : u # t => wfd'[u] = wfd[u]
        BY <1>4 DEF ReadFdCommand, RInv, Kept, TypeOK
    <2> QED BY <1>4, <2>1, QuietMove DEF ReadFdCommand
<1>5. CASE FreeAndReturn(t)
    <2>1. ret[t] \notin Writing
        BY DEF RInv, Kept, TypeOK
    <2> QED BY <1>5, <2>1, QuietMove DEF FreeAndReturn
<1> QED BY <1>1, <1>2, <1>3, <1>4, <1>5, LockWriteFInv, WriteFailsFInv, CloseBrokenFInv,
           WriteHeaderFInv, WriteDataFInv, UnlockWriteFInv DEF CompleteStep

LEMMA ReadStepFInv ==
    ASSUME RInv, FInv, ReadStep
    PROVE  FInv'
<1> USE DispatchThread DEF listVars, connVars, threadVars, clientVars, wireVars, Call, Writing
<1>1. CASE \E p \in Addr : ReadRequest(p)
    BY <1>1, QuietMove DEF ReadRequest
<1>2. CASE ReadUnsupported
    BY <1>2, QuietMove DEF ReadUnsupported, Goto
<1>3. CASE ReadInvalidBlock
    BY <1>3, FramesStay DEF ReadInvalidBlock
<1>4. CASE ReadNothing
    BY <1>4, QuietMove DEF ReadNothing
<1>5. CASE ReadEnd
    BY <1>5, QuietMove DEF ReadEnd
<1>6. CASE DispatchInvalid
    BY <1>6, QuietMove DEF DispatchInvalid
<1>7. CASE DispatchOnRequest
    BY <1>7, QuietMove DEF DispatchOnRequest
<1>8. CASE DispatchCompletes
    BY <1>8, QuietMove DEF DispatchCompletes, Goto
<1>9. CASE DispatchCompletesTwice
    BY <1>9, QuietMove DEF DispatchCompletesTwice, Goto
<1>10. CASE CompleteAgain
    BY <1>10, QuietMove DEF CompleteAgain, Goto
<1>11. CASE CloseFd
    <2>1. cmdFd \in Fd \cup {None}
        BY DEF RInv, Kept, TypeOK
    <2> QED BY <1>11, <2>1, QuietMove DEF CloseFd
<1>12. CASE UnsetFdCommand
    BY <1>12, QuietMove DEF UnsetFdCommand
<1>13. CASE onCommandsSocketClosed
    BY <1>13, QuietMove DEF onCommandsSocketClosed
<1> QED BY <1>1, <1>2, <1>3, <1>4, <1>5, <1>6, <1>7, <1>8, <1>9, <1>10, <1>11, <1>12, <1>13 DEF ReadStep

LEMMA LoopStepFInv ==
    ASSUME RInv, FInv, LoopStep
    PROVE  FInv'
<1> USE DispatchThread DEF listVars, connVars, threadVars, clientVars, wireVars, Call, Writing
<1>1. CASE SelectReturns
    BY <1>1, QuietMove DEF SelectReturns
<1>2. CASE SelectFails
    BY <1>2, QuietMove DEF SelectFails
<1>3. CASE FireCallback("listen", "accept")
    BY <1>3, QuietMove DEF FireCallback
<1>4. CASE FireCallback("commands", "read")
    BY <1>4, QuietMove DEF FireCallback
<1>5. CASE FireCallback("debug", "debug")
    BY <1>5, QuietMove DEF FireCallback
<1>6. CASE FireDone
    BY <1>6, QuietMove DEF FireDone
<1>7. CASE AcceptFails
    BY <1>7, QuietMove DEF AcceptFails
<1>8. CASE AcceptRefuses
    <2>1. /\ pc[Dispatch] = "accept" /\ pc'[Dispatch] = "fire"
          /\ \A u \in Thread : u # Dispatch => pc'[u] = pc[u]
        BY <1>8, GotoEffect DEF AcceptRefuses, RInv, Kept
    <2>2. accepted \in Nat /\ accepted' = accepted + 1
        BY <1>8 DEF AcceptRefuses, RInv, Kept, TypeOK
    <2> QED BY <1>8, <2>1, <2>2, QuietStep DEF AcceptRefuses
<1>9. CASE \E f \in Fd : AcceptPhone(f)
    <2>1. PICK f \in Fd : AcceptPhone(f)
        BY <1>9
    <2>2. /\ pc[Dispatch] = "accept" /\ pc'[Dispatch] = "readfd"
          /\ \A u \in Thread : u # Dispatch => pc'[u] = pc[u]
          /\ open' = [open EXCEPT ![f] = accepted + 1] /\ UNCHANGED <<writer, half, wfd>>
        BY <2>1 DEF AcceptPhone, RInv, Kept, TypeOK
    <2>3. accepted \in Nat /\ accepted' = accepted + 1 /\ accepted + 1 \in Conn
        BY <2>1, BoundAssumption DEF AcceptPhone, RInv, Kept, TypeOK, Numbered, Conn
    <2>4. \A g \in Fd : open'[g] \in {open[g], 0} \/ (open'[g] \in Conn /\ open'[g] > accepted)
        BY <2>2, <2>3 DEF RInv, Kept, TypeOK
    <2> QED BY <2>2, <2>3, <2>4, QuietStep
<1>10. CASE SendRadioState
    BY <1>10, QuietMove DEF SendRadioState, Goto
<1>11. CASE SendNITZ
    <2>1. PICK l \in {"readfd", "fire"} : Goto(Dispatch, l)
        BY <1>11 DEF SendNITZ, Goto
    <2> QED BY <1>11, <2>1, QuietMove DEF SendNITZ
<1>12. CASE DebugNothing
    BY <1>12, QuietMove DEF DebugNothing
<1>13. CASE DebugUnsolicited
    BY <1>13, QuietMove DEF DebugUnsolicited, Goto
<1>14. CASE \E p \in Addr : DebugLocalRequest(p)
    <2>1. PICK l \in {"fire", "sleep"} : Goto(Dispatch, l)
        BY <1>14 DEF DebugLocalRequest
    <2> QED BY <1>14, <2>1, QuietMove DEF DebugLocalRequest
<1>15. CASE \E p \in Addr : DebugCloseSocket(p)
    <2>1. fdCommand \in Fd \cup {None}
        BY DEF RInv, Kept, TypeOK
    <2> QED BY <1>15, <2>1, QuietMove DEF DebugCloseSocket
<1> QED BY <1>1, <1>2, <1>3, <1>4, <1>5, <1>6, <1>7, <1>8, <1>9, <1>10, <1>11, <1>12, <1>13, <1>14, <1>15 DEF LoopStep

LEMMA VendorStepFInv ==
    ASSUME RInv, FInv, NEW t \in Thread, VendorStep(t)
    PROVE  FInv'
<1> USE DispatchThread DEF listVars, connVars, threadVars, clientVars, wireVars, Call, Writing
<1>1. CASE VendorUnsolicited(t)
    BY <1>1, QuietMove DEF VendorUnsolicited, Goto
<1>2. CASE \E p \in Addr : VendorComplete(t, p)
    BY <1>2, QuietMove DEF VendorComplete, Goto
<1> QED BY <1>1, <1>2 DEF VendorStep

LEMMA ClientStepFInv ==
    ASSUME RInv, FInv, ClientStep
    PROVE  FInv'
BY FramesStay DEF ClientStep, Connect, ClientSend, ClientClose, connVars, threadVars, wireVars

\* Connections of the earlier process are closed.
LEMMA RestartFInv ==
    ASSUME RInv, FInv, Restart
    PROVE  FInv'
<1>1. \A t \in Thread : pc'[t] \notin Writing
    BY DEF Restart, Base, Writing
<1>2. /\ \A f \in Fd : open'[f] = 0
      /\ accepted' = conns /\ UNCHANGED half
    BY DEF Restart, wireVars
<1>3. accepted \in Nat /\ conns \in Nat /\ accepted <= conns /\ \A c \in Conn : c \in Nat
    BY BoundAssumption DEF RInv, Kept, TypeOK, Conn
<1>4. Locked'
    BY <1>1 DEF Locked
<1>5. HalfOwned'
    BY <1>2, <1>3 DEF FInv, HalfOwned
<1>6. FrameIntact'
    BY <1>2 DEF FInv, FrameIntact
<1> QED BY <1>4, <1>5, <1>6 DEF FInv

LEMMA NextFInv == RInv /\ FInv /\ [Next]_vars => FInv'
<1> SUFFICES ASSUME RInv, FInv, [Next]_vars PROVE FInv'
    OBVIOUS
<1>1. CASE UNCHANGED vars
    BY <1>1, FramesStay DEF vars, connVars, threadVars, clientVars, wireVars
<1> QED BY <1>1, CompleteStepFInv, VendorStepFInv, ReadStepFInv, LoopStepFInv, ClientStepFInv,
           RestartFInv DEF Next

LEMMA InitFInv == Init => FInv
<1> SUFFICES ASSUME Init PROVE FInv
    OBVIOUS
<1>1. Locked
    BY DEF Init, Locked, Base, Writing
<1>2. HalfOwned /\ FrameIntact
    BY NoneAssumption DEF Init, HalfOwned, FrameIntact
<1> QED BY <1>1, <1>2 DEF FInv

-----------------------------------------------------------------------------
(* Answers.                                                                *)

\* Before the write of its data, a thread may still send an answer.
Sending == {"response", "readfd", "lock", "header", "data"}

\* Request r waits for its answer in the RequestInfo at p, or thread t is sending it.
Unanswered(p, r) ==
    /\ info[p] # None
    /\ info[p].req = r
    /\ p \in pending \/ \E t \in Thread : pc[t] = "check" /\ arg[t] = p
Answering(t, r) == pc[t] \in Sending /\ msg[t] = r

\* A request has one place where its answer can come from, and none before it is read
\* or after it is answered.
OneAnswer(r) ==
    /\ \A p, q \in Addr : Unanswered(p, r) /\ Unanswered(q, r) => p = q
    /\ \A t, u \in Thread : Answering(t, r) /\ Answering(u, r) => t = u
    /\ \A p \in Addr, t \in Thread : ~(Unanswered(p, r) /\ Answering(t, r))
    /\ r > taken \/ got[r] # <<>> =>
          /\ \A p \in Addr : ~Unanswered(p, r)
          /\ \A t \in Thread : ~Answering(t, r)
    /\ r > taken => got[r] = <<>>
    /\ Len(got[r]) <= 1

AInv == \A r \in Request : OneAnswer(r)

\* A step that gives request r no new place to be answered from.
LEMMA OneAnswerStays ==
    ASSUME TypeOK, NEW r \in Request, OneAnswer(r),
           taken' \in Nat, taken' >= taken, got'[r] = got[r],
           \A p \in Addr : Unanswered(p, r)' => Unanswered(p, r),
           \A t \in Thread : Answering(t, r)' => Answering(t, r)
    PROVE  OneAnswer(r)'
<1>1. r \in Nat /\ taken \in Nat
    BY BoundAssumption DEF TypeOK, Request
<1>2. r > taken' => r > taken
    BY <1>1
<1> HIDE DEF Unanswered, Answering
<1> QED BY <1>2 DEF OneAnswer

\* What comes on the list is local.
NoNewRequest ==
    \A p \in Addr : info'[p] # None =>
        \/ info'[p].req = 0
        \/ info[p] # None /\ info'[p].req = info[p].req /\ (p \in pending' => p \in pending)

\* Thread t moves to l and no request gets a new place to be answered from: t sends an
\* unsolicited response or what it was sending, looks into what was pending, and what
\* is new is local.
LEMMA AnswerMove ==
    ASSUME RInv, NEW t \in Thread, NEW l, Goto(t, l),
           \A u \in Thread : u # t => arg'[u] = arg[u] /\ msg'[u] = msg[u],
           l \in Sending => msg'[t] = 0 \/ (pc[t] \in Sending /\ msg'[t] = msg[t]),
           l = "check" => arg[t] \in pending /\ arg'[t] = arg[t],
           NoNewRequest,
           NEW r \in Request
    PROVE  /\ \A p \in Addr : Unanswered(p, r)' => Unanswered(p, r)
           /\ \A u \in Thread : Answering(u, r)' => Answering(u, r)
<1>1. pc'[t] = l /\ \A u \in Thread : u # t => pc'[u] = pc[u]
    BY GotoEffect DEF RInv, Kept
<1>2. r # 0
    BY BoundAssumption DEF Request
<1>3. ASSUME NEW p \in Addr, Unanswered(p, r)'
      PROVE  Unanswered(p, r)
    <2>1. info[p] # None /\ info[p].req = r /\ (p \in pending' => p \in pending)
        BY <1>2, <1>3 DEF Unanswered, NoNewRequest
    <2>2. ASSUME NEW u \in Thread, pc'[u] = "check", arg'[u] = p
          PROVE  p \in pending \/ (pc[u] = "check" /\ arg[u] = p)
        BY <1>1, <2>2
    <2> QED BY <1>3, <2>1, <2>2 DEF Unanswered
<1>4. ASSUME NEW u \in Thread, Answering(u, r)'
      PROVE  Answering(u, r)
    BY <1>1, <1>2, <1>4 DEF Answering
<1> QED BY <1>3, <1>4

\* The usual case: no record is read, and none is answered.
LEMMA AnswersStay ==
    ASSUME RInv, AInv, UNCHANGED got, taken' \in Nat, taken' >= taken,
           NEW t \in Thread, NEW l, Goto(t, l),
           \A u \in Thread : u # t => arg'[u] = arg[u] /\ msg'[u] = msg[u],
           l \in Sending => msg'[t] = 0 \/ (pc[t] \in Sending /\ msg'[t] = msg[t]),
           l = "check" => arg[t] \in pending /\ arg'[t] = arg[t],
           NoNewRequest
    PROVE  AInv'
<1> SUFFICES ASSUME NEW r \in Request' PROVE OneAnswer(r)'
    BY DEF AInv
<1>1. r \in Request /\ OneAnswer(r)
    BY DEF AInv, Request
<1>2. /\ \A p \in Addr : Unanswered(p, r)' => Unanswered(p, r)
      /\ \A u \in Thread : Answering(u, r)' => Answering(u, r)
    BY <1>1, AnswerMove
<1>3. TypeOK
    BY DEF RInv, Kept
<1> QED BY <1>1, <1>2, <1>3, OneAnswerStays

\* A step of no thread.
LEMMA AnswersUntouched ==
    ASSUME RInv, AInv, UNCHANGED <<got, info, pending, pc, arg, msg>>,
           taken' \in Nat, taken' >= taken
    PROVE  AInv'
<1> SUFFICES ASSUME NEW r \in Request' PROVE OneAnswer(r)'
    BY DEF AInv
<1>1. r \in Request /\ OneAnswer(r)
    BY DEF AInv, Request
<1>2. /\ \A p \in Addr : Unanswered(p, r)' => Unanswered(p, r)
      /\ \A u \in Thread : Answering(u, r)' => Answering(u, r)
    BY DEF Unanswered, Answering
<1>3. TypeOK
    BY DEF RInv, Kept
<1> QED BY <1>1, <1>2, <1>3, OneAnswerStays

\* The answer moves from the RequestInfo to the thread that looked into it: nobody else
\* holds it and it is not on the list any more.
LEMMA CheckCancelledAInv ==
    ASSUME RInv, AInv, NEW t \in Thread, CheckCancelled(t)
    PROVE  AInv'
<1> DEFINE a == arg[t]
<1>1. pc[t] = "check" /\ UNCHANGED <<info, pending, arg, got, taken>>
    BY DEF CheckCancelled, listVars, wireVars, clientVars
<1>2. a \in Addr /\ info[a] # None
    BY <1>1, NoneAssumption DEF RInv, Kept, TypeOK, Placed, OwnedOnce, Holds, Owning
<1>3. TypeOK /\ taken \in Nat
    BY DEF RInv, Kept, TypeOK
<1>4. CASE info[a].local \/ info[a].cancelled
    <2>1. Goto(t, "free") /\ UNCHANGED msg
        BY <1>4 DEF CheckCancelled
    <2> QED BY <1>1, <1>3, <2>1, AnswersStay DEF Sending, NoNewRequest
<1>5. CASE ~(info[a].local \/ info[a].cancelled)
    <2>1. PICK l \in {"readfd", "response"} : Goto(t, l)
        BY <1>5 DEF CheckCancelled, Goto
    <2>2. pc'[t] = l /\ \A u \in Thread : u # t => pc'[u] = pc[u]
        BY <2>1, GotoEffect, <1>3
    <2>3. info[a].req \in Request \cup {0} /\ msg' = [msg EXCEPT ![t] = info[a].req]
        BY <1>2, <1>3, <1>5 DEF CheckCancelled, TypeOK, RequestInfo
    <2>4. msg'[t] = info[a].req /\ \A u \in Thread : u # t => msg'[u] = msg[u]
        BY <1>3, <2>3 DEF TypeOK
    <2>5. a \notin pending /\ \A u \in Thread : u # t => ~(pc[u] = "check" /\ arg[u] = a)
        BY <1>1, <1>2, NoneAssumption DEF RInv, OwnedOnce, Holds, Owning
    <2>6. ASSUME NEW r \in Request PROVE OneAnswer(r)'
        <3>1. \A p \in Addr : Unanswered(p, r)' => Unanswered(p, r) /\ p # a
            BY <1>1, <2>2, <2>5 DEF Unanswered
        <3>2. \A u \in Thread : Answering(u, r)' => Answering(u, r) \/ (u = t /\ r = info[a].req)
            BY <2>2, <2>4 DEF Answering
        <3>3. OneAnswer(r)
            BY DEF AInv
        <3>4. CASE r # info[a].req
            BY <1>1, <1>3, <3>1, <3>2, <3>3, <3>4, OneAnswerStays
        <3>5. CASE r = info[a].req
            <4>1. Unanswered(a, r)
                BY <1>1, <1>2, <3>5 DEF Unanswered
            <4>2. /\ \A p \in Addr : ~Unanswered(p, r)'
                  /\ \A u \in Thread : ~Answering(u, r)
                  /\ ~(r > taken) /\ got[r] = <<>>
                BY <1>2, <3>1, <3>3, <4>1 DEF OneAnswer
            <4>3. \A u \in Thread : Answering(u, r)' => u = t
                BY <3>2, <4>2
            <4> HIDE DEF Unanswered, Answering
            <4> QED BY <1>1, <4>2, <4>3 DEF OneAnswer
        <3> QED BY <3>4, <3>5
    <2> QED BY <2>6 DEF AInv, Request
<1> QED BY <1>4, <1>5

\* The answer is written: its request has been read, has none yet, and nobody else is
\* there to write another.
LEMMA WriteDataAInv ==
    ASSUME RInv, AInv, NEW t \in Thread, WriteData(t)
    PROVE  AInv'
<1> DEFINE m == msg[t]
           c == open[wfd[t]]
<1>1. /\ pc[t] = "data" /\ Goto(t, "unlock") /\ Up(wfd[t])
      /\ got' = IF m = 0 THEN got ELSE [got EXCEPT ![m] = Append(got[m], c)]
      /\ UNCHANGED <<info, pending, arg, msg, taken>>
    BY DEF WriteData, listVars, clientVars
<1>2. TypeOK /\ taken \in Nat /\ m \in Request \cup {0}
    BY DEF RInv, Kept, TypeOK
<1>3. c \in Conn
    BY <1>1, OpenConn DEF RInv, Kept, TypeOK, Placed, Up
<1>4. pc'[t] = "unlock" /\ \A u \in Thread : u # t => pc'[u] = pc[u]
    BY <1>1, <1>2, GotoEffect
<1>5. ASSUME NEW r \in Request PROVE OneAnswer(r)'
    <2>1. \A p \in Addr : Unanswered(p, r)' => Unanswered(p, r)
        BY <1>1, <1>4 DEF Unanswered
    <2>2. \A u \in Thread : Answering(u, r)' => Answering(u, r) /\ u # t
        BY <1>1, <1>4 DEF Answering, Sending
    <2>3. OneAnswer(r)
        BY DEF AInv
    <2>4. CASE r # m
        <3>1. got'[r] = got[r]
            BY <1>1, <1>2, <2>4 DEF TypeOK
        <3> QED BY <1>1, <1>2, <2>1, <2>2, <2>3, <3>1, OneAnswerStays
    <2>5. CASE r = m
        <3>1. Answering(t, r)
            BY <1>1, <2>5 DEF Answering, Sending
        <3>2. /\ \A p \in Addr : ~Unanswered(p, r)'
              /\ \A u \in Thread : ~Answering(u, r)'
              /\ ~(r > taken) /\ got[r] = <<>>
            BY <2>1, <2>2, <2>3, <3>1 DEF OneAnswer
        <3>3. m # 0 /\ got'[r] = Append(got[r], c)
            BY <1>1, <1>2, <2>5, BoundAssumption DEF TypeOK, Request
        <3>4. Len(got'[r]) = 1
            BY <1>3, <3>2, <3>3
        <3> HIDE DEF Unanswered, Answering
        <3> QED BY <1>1, <3>2, <3>4 DEF OneAnswer
    <2> QED BY <2>4, <2>5
<1> QED BY <1>5 DEF AInv, Request

\* The next request gets its RequestInfo.
LEMMA ReadRequestAInv ==
    ASSUME RInv, AInv, NEW a \in Addr, ReadRequest(a)
    PROVE  AInv'
<1> DEFINE n == taken + 1
<1>1. TypeOK /\ OwnedOnce /\ taken \in Nat
    BY DEF RInv, Kept, TypeOK
<1>2. /\ HasRecord /\ NewRequestInfo(a, n, 0) /\ taken' = n /\ Goto(Dispatch, "dispatch")
      /\ arg' = [arg EXCEPT ![Dispatch] = a] /\ UNCHANGED <<msg, got>>
    BY DEF ReadRequest, wireVars
<1>3. n \in Request /\ n \in DOMAIN owner
    BY <1>1, <1>2, HasRecordLemma
<1>4. /\ info'[a] # None /\ info'[a].req = n /\ pending' = pending \cup {a}
      /\ \A p \in Addr : p # a => info'[p] = info[p]
    BY <1>1, <1>2, <1>3, NewRequestInfoLemma
<1>5. pc'[Dispatch] = "dispatch" /\ \A u \in Thread : u # Dispatch => pc'[u] = pc[u] /\ arg'[u] = arg[u]
    BY <1>1, <1>2, GotoEffect, DispatchThread DEF TypeOK
<1>6. ASSUME NEW r \in Request PROVE OneAnswer(r)'
    <2>1. \A p \in Addr : Unanswered(p, r)' => Unanswered(p, r) \/ (p = a /\ r = n)
        BY <1>4, <1>5 DEF Unanswered
    <2>2. \A u \in Thread : Answering(u, r)' => Answering(u, r)
        BY <1>2, <1>5 DEF Answering, Sending
    <2>3. OneAnswer(r)
        BY DEF AInv
    <2>4. CASE r # n
        BY <1>1, <1>2, <2>1, <2>2, <2>3, <2>4, OneAnswerStays
    <2>5. CASE r = n
        <3>1. /\ \A p \in Addr : ~Unanswered(p, r)
              /\ \A u \in Thread : ~Answering(u, r)
              /\ got[r] = <<>>
            BY <1>1, <2>3, <2>5 DEF OneAnswer
        <3>2. /\ \A p \in Addr : Unanswered(p, r)' => p = a
              /\ \A u \in Thread : ~Answering(u, r)'
              /\ ~(r > taken')
            BY <1>1, <1>2, <2>1, <2>2, <2>5, <3>1
        <3> HIDE DEF Unanswered, Answering
        <3> QED BY <1>2, <3>1, <3>2 DEF OneAnswer
    <2> QED BY <2>4, <2>5
<1> QED BY <1>6 DEF AInv, Request

\* The next request is answered at once by the dispatch thread.
LEMMA ReadUnsupportedAInv ==
    ASSUME RInv, AInv, ReadUnsupported
    PROVE  AInv'
<1> DEFINE n == taken + 1
<1>1. TypeOK /\ taken \in Nat
    BY DEF RInv, Kept, TypeOK
<1>2. /\ HasRecord /\ taken' = n /\ Goto(Dispatch, "readfd") /\ pc[Dispatch] = "read"
      /\ arg' = [arg EXCEPT ![Dispatch] = None] /\ msg' = [msg EXCEPT ![Dispatch] = n]
      /\ UNCHANGED <<info, pending, got>>
    BY DEF ReadUnsupported, listVars, wireVars, Call, Goto
<1>3. n \in Request
    BY <1>1, <1>2, HasRecordLemma
<1>4. /\ pc'[Dispatch] = "readfd"
      /\ \A u \in Thread : u # Dispatch => pc'[u] = pc[u] /\ arg'[u] = arg[u] /\ msg'[u] = msg[u]
      /\ msg'[Dispatch] = n
    BY <1>1, <1>2, GotoEffect, DispatchThread DEF TypeOK
<1>5. ASSUME NEW r \in Request PROVE OneAnswer(r)'
    <2>1. \A p \in Addr : Unanswered(p, r)' => Unanswered(p, r)
        BY <1>2, <1>4 DEF Unanswered
    <2>2. \A u \in Thread : Answering(u, r)' => Answering(u, r) \/ (u = Dispatch /\ r = n)
        BY <1>4 DEF Answering
    <2>3. OneAnswer(r)
        BY DEF AInv
    <2>4. CASE r # n
        BY <1>1, <1>2, <2>1, <2>2, <2>3, <2>4, OneAnswerStays
    <2>5. CASE r = n
        <3>1. /\ \A p \in Addr : ~Unanswered(p, r)
              /\ \A u \in Thread : ~Answering(u, r)
              /\ got[r] = <<>>
            BY <1>1, <2>3, <2>5 DEF OneAnswer
        <3>2. /\ \A p \in Addr : ~Unanswered(p, r)'
              /\ \A u \in Thread : Answering(u, r)' => u = Dispatch
              /\ ~(r > taken')
            BY <1>1, <1>2, <2>1, <2>2, <2>5, <3>1
        <3> HIDE DEF Unanswered, Answering
        <3> QED BY <1>2, <3>1, <3>2 DEF OneAnswer
    <2> QED BY <2>4, <2>5
<1> QED BY <1>5 DEF AInv, Request

LEMMA LocalIsNotNew ==
    ASSUME RInv, NEW p \in Addr, issueLocalRequest(p)
    PROVE  NoNewRequest
<1>1. NewRequestInfo(p, 0, 1) /\ TypeOK
    BY DEF issueLocalRequest, RInv, Kept
<1> QED BY <1>1, NewRequestInfoLemma DEF NoNewRequest

LEMMA CompleteStepAInv ==
    ASSUME RInv, AInv, NEW t \in Thread, CompleteStep(t)
    PROVE  AInv'
<1> USE DispatchThread DEF listVars, connVars, threadVars, clientVars, wireVars, Call, Sending
<1>0. taken \in Nat
    BY DEF RInv, Kept, TypeOK
<1>1. CASE checkAndDequeueRequestInfo(t)
    <2>1. ret[t] \notin Sending \cup {"check"}
        BY DEF RInv, Kept, TypeOK
    <2>2. PICK l \in {"check", ret[t]} : Goto(t, l) /\ (l = "check" => arg[t] \in pending)
        BY <1>1, <2>1 DEF checkAndDequeueRequestInfo
    <2> QED BY <1>0, <1>1, <2>1, <2>2, AnswersStay DEF checkAndDequeueRequestInfo, NoNewRequest
<1>2. CASE \E p \in Addr : ResponseIssuesLocal(t, p)
    BY <1>0, <1>2, LocalIsNotNew, AnswersStay DEF ResponseIssuesLocal
<1>3. CASE ReadFdCommand(t)
    BY <1>0, <1>3, AnswersStay DEF ReadFdCommand, NoNewRequest
<1>4. CASE LockWrite(t)
    BY <1>0, <1>4, AnswersStay DEF LockWrite, NoNewRequest
<1>5. CASE WriteFails(t)
    BY <1>0, <1>5, AnswersStay DEF WriteFails, NoNewRequest
<1>6. CASE CloseBroken(t)
    BY <1>0, <1>6, AnswersStay DEF CloseBroken, NoNewRequest
<1>7. CASE WriteHeader(t)
    BY <1>0, <1>7, AnswersStay DEF WriteHeader, NoNewRequest
<1>8. CASE UnlockWrite(t)
    BY <1>0, <1>8, AnswersStay DEF UnlockWrite, NoNewRequest
<1>9. CASE FreeAndReturn(t)
    <2>1. ret[t] \notin Sending \cup {"check"}
        BY DEF RInv, Kept, TypeOK
    <2>2. NoNewRequest
        BY <1>9 DEF FreeAndReturn, NoNewRequest
    <2> QED BY <1>0, <1>9, <2>1, <2>2, AnswersStay DEF FreeAndReturn
<1> QED BY <1>1, <1>2, <1>3, <1>4, <1>5, <1>6, <1>7, <1>8, <1>9, CheckCancelledAInv, WriteDataAInv DEF CompleteStep

LEMMA ReadStepAInv ==
    ASSUME RInv, AInv, ReadStep
    PROVE  AInv'
<1> USE DispatchThread DEF listVars, connVars, threadVars, clientVars, wireVars, Call, Sending
<1>0. taken \in Nat
    BY DEF RInv, Kept, TypeOK
<1>1. CASE \E p \in Addr : ReadRequest(p)
    BY <1>1, ReadRequestAInv
<1>2. CASE ReadInvalidBlock
    BY <1>0, <1>2, AnswersUntouched DEF ReadInvalidBlock
<1>3. CASE ReadNothing
    BY <1>0, <1>3, AnswersStay DEF ReadNothing, NoNewRequest
<1>4. CASE ReadEnd
    BY <1>0, <1>4, AnswersStay DEF ReadEnd, NoNewRequest
<1>5. CASE DispatchInvalid
    BY <1>0, <1>5, AnswersStay DEF DispatchInvalid, NoNewRequest
<1>6. CASE DispatchOnRequest
    BY <1>0, <1>6, AnswersStay DEF DispatchOnRequest, NoNewRequest
<1>7. CASE DispatchCompletes
    <2>1. Goto(Dispatch, "dequeue") /\ UNCHANGED <<info, pending, arg, msg, got, taken>>
        BY <1>7 DEF DispatchCompletes, Goto
    <2> QED BY <1>0, <2>1, AnswersStay DEF NoNewRequest
<1>8. CASE DispatchCompletesTwice
    <2>1. Goto(Dispatch, "dequeue") /\ UNCHANGED <<info, pending, arg, msg, got, taken>>
        BY <1>8 DEF DispatchCompletesTwice, Goto
    <2> QED BY <1>0, <2>1, AnswersStay DEF NoNewRequest
<1>9. CASE CompleteAgain
    <2>1. Goto(Dispatch, "dequeue") /\ UNCHANGED <<info, pending, arg, msg, got, taken>>
        BY <1>9 DEF CompleteAgain, Goto
    <2> QED BY <1>0, <2>1, AnswersStay DEF NoNewRequest
<1>10. CASE CloseFd
    <2>1. accepted \in Nat /\ TypeOK /\ Numbered
        BY DEF RInv, Kept, TypeOK
    <2>2. taken' \in taken..Len(owner) /\ Len(owner) \in Nat
        BY <1>10, <2>1, SentUpToLemma DEF CloseFd, TypeOK
    <2> QED BY <1>0, <1>10, <2>2, AnswersStay DEF CloseFd, NoNewRequest
<1>11. CASE UnsetFdCommand
    BY <1>0, <1>11, AnswersStay DEF UnsetFdCommand, NoNewRequest
<1>12. CASE onCommandsSocketClosed
    <2>1. NoNewRequest
        BY <1>12, CancelPendingLemma DEF onCommandsSocketClosed, NoNewRequest, RInv, Kept
    <2> QED BY <1>0, <1>12, <2>1, AnswersStay DEF onCommandsSocketClosed
<1> QED BY <1>1, <1>2, <1>3, <1>4, <1>5, <1>6, <1>7, <1>8, <1>9, <1>10, <1>11, <1>12, ReadUnsupportedAInv DEF ReadStep

LEMMA LoopStepAInv ==
    ASSUME RInv, AInv, LoopStep
    PROVE  AInv'
<1> USE DispatchThread DEF listVars, connVars, threadVars, clientVars, wireVars, Call, Sending
<1>0. taken \in Nat
    BY DEF RInv, Kept, TypeOK
<1>1. CASE SelectReturns
    BY <1>0, <1>1, AnswersStay DEF SelectReturns, NoNewRequest
<1>2. CASE SelectFails
    BY <1>0, <1>2, AnswersStay DEF SelectFails, NoNewRequest
<1>3. CASE FireCallback("listen", "accept")
    <2>1. Goto(Dispatch, "accept") /\ UNCHANGED <<info, pending, arg, msg, got, taken>>
        BY <1>3 DEF FireCallback
    <2> QED BY <1>0, <2>1, AnswersStay DEF NoNewRequest
<1>4. CASE FireCallback("commands", "read")
    <2>1. Goto(Dispatch, "read") /\ UNCHANGED <<info, pending, arg, msg, got, taken>>
        BY <1>4 DEF FireCallback
    <2> QED BY <1>0, <2>1, AnswersStay DEF NoNewRequest
<1>5. CASE FireCallback("debug", "debug")
    <2>1. Goto(Dispatch, "debug") /\ UNCHANGED <<info, pending, arg, msg, got, taken>>
        BY <1>5 DEF FireCallback
    <2> QED BY <1>0, <2>1, AnswersStay DEF NoNewRequest
<1>6. CASE FireDone
    BY <1>0, <1>6, AnswersStay DEF FireDone, NoNewRequest
<1>7. CASE AcceptFails
    BY <1>0, <1>7, AnswersStay DEF AcceptFails, NoNewRequest
<1>8. CASE AcceptRefuses
    <2>1. NoNewRequest
        BY <1>8, CancelPendingLemma DEF AcceptRefuses, NoNewRequest, RInv, Kept
    <2>2. accepted + 1 \in Nat /\ accepted + 1 >= accepted /\ TypeOK /\ Numbered
        BY DEF RInv, Kept, TypeOK
    <2>3. taken' \in taken..Len(owner) /\ Len(owner) \in Nat
        BY <1>8, <2>2, SentUpToLemma DEF AcceptRefuses, TypeOK
    <2> QED BY <1>0, <1>8, <2>1, <2>3, AnswersStay DEF AcceptRefuses
<1>9. CASE \E f \in Fd : AcceptPhone(f)
    <2>1. msg'[Dispatch] = 0 /\ \A u \in Thread : u # Dispatch => arg'[u] = arg[u] /\ msg'[u] = msg[u]
        BY <1>9 DEF AcceptPhone, RInv, Kept, TypeOK
    <2>2. Goto(Dispatch, "readfd") /\ UNCHANGED <<info, pending, got, taken>>
        BY <1>9 DEF AcceptPhone, Goto
    <2> QED BY <1>0, <1>9, <2>1, <2>2, AnswersStay DEF AcceptPhone, NoNewRequest
<1>10. CASE SendRadioState
    <2>1. msg[Dispatch] = 0
        BY <1>10 DEF SendRadioState, RInv, Kept, GreetsNobody, Greeting
    <2>2. Goto(Dispatch, "readfd") /\ UNCHANGED <<info, pending, got, taken>>
        BY <1>10 DEF SendRadioState, Goto
    <2> QED BY <1>0, <1>10, <2>1, <2>2, AnswersStay DEF SendRadioState, NoNewRequest
<1>11. CASE SendNITZ
    <2>1. msg[Dispatch] = 0
        BY <1>11 DEF SendNITZ, RInv, Kept, GreetsNobody, Greeting
    <2>2. PICK l \in {"readfd", "fire"} : Goto(Dispatch, l)
        BY <1>11 DEF SendNITZ, Goto
    <2> QED BY <1>0, <1>11, <2>1, <2>2, AnswersStay DEF SendNITZ, NoNewRequest
<1>12. CASE DebugNothing
    BY <1>0, <1>12, AnswersStay DEF DebugNothing, NoNewRequest
<1>13. CASE DebugUnsolicited
    <2>1. msg'[Dispatch] = 0 /\ \A u \in Thread : u # Dispatch => arg'[u] = arg[u] /\ msg'[u] = msg[u]
        BY <1>13 DEF DebugUnsolicited, RInv, Kept, TypeOK
    <2>2. Goto(Dispatch, "readfd") /\ UNCHANGED <<info, pending, got, taken>>
        BY <1>13 DEF DebugUnsolicited, Goto
    <2> QED BY <1>0, <1>13, <2>1, <2>2, AnswersStay DEF DebugUnsolicited, NoNewRequest
<1>14. CASE \E p \in Addr : DebugLocalRequest(p)
    <2>1. PICK l \in {"fire", "sleep"} : Goto(Dispatch, l)
        BY <1>14 DEF DebugLocalRequest
    <2> QED BY <1>0, <1>14, <2>1, LocalIsNotNew, AnswersStay DEF DebugLocalRequest
<1>15. CASE \E p \in Addr : DebugCloseSocket(p)
    BY <1>0, <1>15, LocalIsNotNew, AnswersStay DEF DebugCloseSocket
<1> QED BY <1>1, <1>2, <1>3, <1>4, <1>5, <1>6, <1>7, <1>8, <1>9, <1>10, <1>11, <1>12, <1>13, <1>14, <1>15 DEF LoopStep

LEMMA VendorStepAInv ==
    ASSUME RInv, AInv, NEW t \in Thread, VendorStep(t)
    PROVE  AInv'
<1> USE DispatchThread DEF listVars, connVars, threadVars, clientVars, wireVars, Call, Sending
<1>0. taken \in Nat
    BY DEF RInv, Kept, TypeOK
<1>1. CASE VendorUnsolicited(t)
    <2>1. msg'[t] = 0 /\ \A u \in Thread : u # t => arg'[u] = arg[u] /\ msg'[u] = msg[u]
        BY <1>1 DEF VendorUnsolicited, RInv, Kept, TypeOK
    <2>2. Goto(t, "readfd") /\ UNCHANGED <<info, pending, got, taken>>
        BY <1>1 DEF VendorUnsolicited, Goto
    <2> QED BY <1>0, <1>1, <2>1, <2>2, AnswersStay DEF VendorUnsolicited, NoNewRequest
<1>2. CASE \E p \in Addr : VendorComplete(t, p)
    <2>1. \A u \in Thread : u # t => arg'[u] = arg[u] /\ msg'[u] = msg[u]
        BY <1>2 DEF VendorComplete, RInv, Kept, TypeOK
    <2>2. Goto(t, "dequeue") /\ UNCHANGED <<info, pending, got, taken>>
        BY <1>2 DEF VendorComplete, Goto
    <2> QED BY <1>0, <1>2, <2>1, <2>2, AnswersStay DEF VendorComplete, NoNewRequest
<1> QED BY <1>1, <1>2 DEF VendorStep

LEMMA ClientStepAInv ==
    ASSUME RInv, AInv, ClientStep
    PROVE  AInv'
<1>1. taken \in Nat
    BY DEF RInv, Kept, TypeOK
<1> QED BY <1>1, AnswersUntouched DEF ClientStep, Connect, ClientSend, ClientClose,
           listVars, threadVars, wireVars

\* What the earlier process had read is not answered any more, nor what was sent to it.
LEMMA RestartAInv ==
    ASSUME RInv, AInv, Restart
    PROVE  AInv'
<1>1. taken \in Nat /\ taken' \in Nat /\ taken' >= taken /\ TypeOK
    BY DEF Restart, RInv, Kept, TypeOK
<1>2. UNCHANGED got /\ \A p \in Addr : info'[p] = None
    BY DEF Restart, wireVars
<1>3. \A t \in Thread : pc'[t] \notin Sending
    BY DEF Restart, Base, Sending
<1>4. ASSUME NEW r \in Request PROVE OneAnswer(r)'
    <2>1. \A p \in Addr : ~Unanswered(p, r)'
        BY <1>2 DEF Unanswered
    <2>2. \A t \in Thread : ~Answering(t, r)'
        BY <1>3 DEF Answering
    <2>3. OneAnswer(r)
        BY DEF AInv
    <2> QED BY <1>1, <1>2, <2>1, <2>2, <2>3, OneAnswerStays
<1> QED BY <1>4 DEF AInv, Request

LEMMA NextAInv == RInv /\ AInv /\ [Next]_vars => AInv'
<1> SUFFICES ASSUME RInv, AInv, [Next]_vars PROVE AInv'
    OBVIOUS
<1>1. CASE UNCHANGED vars
    <2>1. taken \in Nat
        BY DEF RInv, Kept, TypeOK
    <2> QED BY <1>1, <2>1, AnswersUntouched DEF vars, listVars, threadVars, clientVars, wireVars
<1> QED BY <1>1, CompleteStepAInv, VendorStepAInv, ReadStepAInv, LoopStepAInv, ClientStepAInv,
           RestartAInv DEF Next

LEMMA InitAInv == Init => AInv
<1> SUFFICES ASSUME Init, NEW r \in Request PROVE OneAnswer(r)
    BY DEF AInv
<1>1. /\ \A p \in Addr : ~Unanswered(p, r)
      /\ \A t \in Thread : ~Answering(t, r)
    BY DEF Init, Unanswered, Answering, Sending, Base
<1>2. got[r] = <<>>
    BY DEF Init
<1> HIDE DEF Unanswered, Answering
<1> QED BY <1>1, <1>2 DEF OneAnswer

-----------------------------------------------------------------------------
(* What holds of every behaviour.                                          *)

\* Every variable has its type: descriptors, RequestInfos and threads are what the C
\* declarations and the locks of ril.cpp take them for, and the counters stay in bounds.
THEOREM TypeCorrect == Spec => []TypeOK
<1>1. RInv => TypeOK
    BY DEF RInv, Kept
<1> QED BY <1>1, AlwaysRInv, PTL

\* checkAndDequeueRequestInfo gives a RequestInfo to one thread: whichever thread completes
\* a token, and also where a dispatch function completes it twice, it is freed once, not
\* used afterwards, and none leaks.
THEOREM OwnedAlwaysOnce == Spec => []OwnedOnce
<1>1. RInv => OwnedOnce
    BY DEF RInv
<1> QED BY <1>1, AlwaysRInv, PTL

\* sendResponseRaw: because blockingWrite closes the descriptor it could not write to
\* before s_writeMutex is released, no response is written into the middle of another.
THEOREM FramesAlwaysIntact == Spec => []FrameIntact
<1>1. FInv => FrameIntact
    BY DEF FInv
<1> QED BY <1>1, AlwaysRInv, NextFInv, InitFInv, PTL DEF Spec

\* RIL_onRequestComplete answers no request twice, over all connections and restarts,
\* also where a dispatch function completes its token again.
THEOREM AlwaysAnsweredOnce == Spec => []AnsweredOnce
<1>1. AInv => AnsweredOnce
    BY DEF AInv, OneAnswer, AnsweredOnce
<1> QED BY <1>1, AlwaysRInv, NextAInv, InitAInv, PTL DEF Spec

\* listenCallback and processCommandsCallback: while the loop can accept a client, no
\* descriptor of an earlier one is open, watched or written to.
THEOREM AlwaysOneConnection == Spec => []OneConnection
<1>1. RInv => OneConnection
    <2> SUFFICES ASSUME RInv, listening \/ pc[Dispatch] = "accept" PROVE OneConnection
        BY DEF OneConnection
    <2>1. cmdFd = None /\ fdCommand = None
        BY DEF RInv, Kept, Wired, Listens
    <2>2. \A f \in Fd : open[f] = 0
        BY <2>1, NoneAssumption DEF RInv, Kept, Wired
    <2> QED BY <2>1, <2>2 DEF OneConnection
<1> QED BY <1>1, AlwaysRInv, PTL

\* ril_event_loop never waits in select with neither the listening socket nor a command
\* socket in its watch table: a client can always get through.
THEOREM NeverDeafAlways == Spec => []NeverDeaf
<1>1. RInv => NeverDeaf
    BY DEF RInv, Kept, Placed, Wired, Listens, NeverDeaf
<1> QED BY <1>1, AlwaysRInv, PTL

=============================================================================
