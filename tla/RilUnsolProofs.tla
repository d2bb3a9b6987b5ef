---------------------------- MODULE RilUnsolProofs ----------------------------
(***************************************************************************)
(* Proofs about the wake lock of unsolicited responses, for every set of   *)
(* threads and addresses, and all bounds.                                  *)
(*                                                                         *)
(* LockHasTimer is inductive once three facts are added to the types: a    *)
(* thread past sendResponse has grabbed the lock, only a response with the *)
(* lock carries a NITZ time, and the timer that fires is out of the list   *)
(* and still allocated.                                                    *)
(*                                                                         *)
(* NITZOnce follows from NInv, which says who has a NITZ time that has not *)
(* been delivered: one thread, or s_lastNITZTimeData.                      *)
(***************************************************************************)
EXTENDS RilUnsol, SequenceTheorems, TLAPS

\* A thread that goes on after sendResponse handles a WAKE_PARTIAL response.
GoesOnWithLock ==
    \A t \in Thread : pc[t] \in Handling \ {"respond"} => kind[t] # "dont"

NITZTakesLock == \A t \in Thread : time[t] # 0 => kind[t] # "dont"

\* userTimerCallback works on a UserCallbackInfo nobody else will free.
FiringOutOfList ==
    pc[Dispatch] \in {"compare", "clear", "free"} =>
        /\ ptr[Dispatch] \in Addr \ armed
        /\ timer[ptr[Dispatch]] # None

IInv == TypeOK /\ GoesOnWithLock /\ NITZTakesLock /\ FiringOutOfList /\ LockHasTimer

-----------------------------------------------------------------------------

LEMMA InitIInv == Init => IInv
<1> SUFFICES ASSUME Init PROVE IInv
    OBVIOUS
<1>1. TypeOK
    <2>1. seen \in Seq(1..MaxEvent)
        BY DEF Init
    <2>2. 0 \in 0..MaxEvent /\ 0 \in 0..MaxConn
        BY BoundAssumption
    <2> QED BY <2>1, <2>2 DEF Init, TypeOK, Thread, Handling
<1>2. GoesOnWithLock /\ NITZTakesLock
    BY DEF Init, GoesOnWithLock, NITZTakesLock, Handling
<1>3. FiringOutOfList /\ LockHasTimer
    BY DEF Init, FiringOutOfList, LockHasTimer, Thread
<1> QED BY <1>1, <1>2, <1>3 DEF IInv

LEMMA CancelledInfo ==
    ASSUME NEW i \in UserCallbackInfo
    PROVE  [i EXCEPT !.cancelled = TRUE] \in UserCallbackInfo
BY DEF UserCallbackInfo

LEMMA NewInfo ==
    ASSUME NEW w \in BOOLEAN
    PROVE  /\ [wake |-> w, cancelled |-> FALSE] \in UserCallbackInfo
           /\ [wake |-> w, cancelled |-> FALSE] # None
<1>1. [wake |-> w, cancelled |-> FALSE] \in UserCallbackInfo
    BY DEF UserCallbackInfo
<1> QED BY <1>1, NoneAssumption

LEMMA ResponseFailsStep ==
    ASSUME IInv, Alive, NEW t \in Thread, ResponseFails(t)
    PROVE  IInv'
<1> USE NoneAssumption, BoundAssumption, ThreadAssumption
<1>1. TypeOK'
    BY DEF IInv, TypeOK, FiringOutOfList, ResponseFails, Return, timerVars, dataVars, threadVars, UserCallbackInfo, Thread, Handling
<1>2. GoesOnWithLock'
    BY DEF IInv, TypeOK, GoesOnWithLock, NITZTakesLock, ResponseFails, Return, timerVars, dataVars, threadVars, Thread, Handling
<1>3. NITZTakesLock'
    BY DEF IInv, TypeOK, NITZTakesLock, ResponseFails, Return, timerVars, dataVars, threadVars, Thread
<1>4. FiringOutOfList'
    BY DEF IInv, TypeOK, FiringOutOfList, ResponseFails, Return, timerVars, dataVars, threadVars, UserCallbackInfo, Thread, Handling
<1>5. LockHasTimer'
    BY DEF IInv, TypeOK, LockHasTimer, GoesOnWithLock, FiringOutOfList, ResponseFails, Return, timerVars, dataVars, threadVars, UserCallbackInfo, Thread, Handling, Alive
<1> QED BY <1>1, <1>2, <1>3, <1>4, <1>5 DEF IInv

LEMMA SendStep ==
    ASSUME IInv, Alive, NEW t \in Thread, Send(t)
    PROVE  IInv'
<1> USE NoneAssumption, BoundAssumption, ThreadAssumption
<1>1. TypeOK'
    <2>1. seen' \in Seq(1..MaxEvent)
        <3>1. seen \in Seq(1..MaxEvent) /\ time[t] \in 0..MaxEvent
            BY DEF IInv, TypeOK
        <3>2. seen' = seen \/ (time[t] # 0 /\ seen' = Append(seen, time[t]))
            BY DEF Send
        <3> QED BY <3>1, <3>2
    <2>2. /\ pc' \in [Thread -> Handling \cup {"idle", "assign", "compare", "clear", "free", "crashed",
                                              "radiostate", "nitz", "freenitz"}]
          /\ ret' \in [Thread -> {"idle", "radiostate", "nitz"}]
        <3>1. /\ pc \in [Thread -> Handling \cup {"idle", "assign", "compare", "clear", "free", "crashed",
                                                 "radiostate", "nitz", "freenitz"}]
              /\ ret \in [Thread -> {"idle", "radiostate", "nitz"}]
            BY DEF IInv, TypeOK
        <3>2. CASE Return(t)
            BY <3>1, <3>2 DEF Return
        <3>3. CASE \E l \in {"drop", "last"} : Goto(t, l)
            BY <3>1, <3>3 DEF Goto, Handling
        <3> QED BY <3>2, <3>3 DEF Send, AfterSend
    <2>3. /\ kind' \in [Thread -> {"nitz", "wake", "dont"}]
          /\ time' \in [Thread -> 0..MaxEvent]
          /\ ptr' \in [Thread -> Addr \cup {None}]
        <3>1. CASE UNCHANGED <<kind, time, ptr>>
            BY <3>1 DEF IInv, TypeOK
        <3>2. CASE Return(t)
            <4>1. /\ kind' = [kind EXCEPT ![t] = "dont"]
                  /\ time' = [time EXCEPT ![t] = 0]
                  /\ ptr' = [ptr EXCEPT ![t] = None]
                BY <3>2 DEF Return
            <4>2. 0 \in 0..MaxEvent
                BY BoundAssumption
            <4> QED BY <4>1, <4>2 DEF IInv, TypeOK
        <3>3. UNCHANGED <<kind, time, ptr>> \/ Return(t)
            BY DEF Send, AfterSend, Goto
        <3> QED BY <3>1, <3>2, <3>3
    <2> QED BY <2>1, <2>2, <2>3 DEF IInv, TypeOK, Send, timerVars
<1>2. GoesOnWithLock'
    BY DEF IInv, TypeOK, GoesOnWithLock, NITZTakesLock, Send, AfterSend, Return, Goto, timerVars, dataVars, threadVars, Thread, Handling
<1>3. NITZTakesLock'
    BY DEF IInv, TypeOK, NITZTakesLock, Send, AfterSend, Return, Goto, timerVars, dataVars, threadVars, Thread
<1>4. FiringOutOfList'
    BY DEF IInv, TypeOK, FiringOutOfList, Send, AfterSend, Return, Goto, timerVars, dataVars, threadVars, UserCallbackInfo, Thread, Handling
<1>5. LockHasTimer'
    BY DEF IInv, TypeOK, LockHasTimer, GoesOnWithLock, FiringOutOfList, Send, AfterSend, Return, Goto, timerVars, dataVars, threadVars, UserCallbackInfo, Thread, Handling, Alive
<1> QED BY <1>1, <1>2, <1>3, <1>4, <1>5 DEF IInv

LEMMA DropNITZStep ==
    ASSUME IInv, Alive, NEW t \in Thread, DropNITZ(t)
    PROVE  IInv'
<1> USE NoneAssumption, BoundAssumption, ThreadAssumption
<1>1. TypeOK'
    BY DEF IInv, TypeOK, FiringOutOfList, DropNITZ, Goto, timerVars, dataVars, threadVars, UserCallbackInfo, Thread, Handling
<1>2. GoesOnWithLock'
    BY DEF IInv, TypeOK, GoesOnWithLock, NITZTakesLock, DropNITZ, Goto, timerVars, dataVars, threadVars, Thread, Handling
<1>3. NITZTakesLock'
    BY DEF IInv, TypeOK, NITZTakesLock, DropNITZ, Goto, timerVars, dataVars, threadVars, Thread
<1>4. FiringOutOfList'
    BY DEF IInv, TypeOK, FiringOutOfList, DropNITZ, Goto, timerVars, dataVars, threadVars, UserCallbackInfo, Thread, Handling
<1>5. LockHasTimer'
    BY DEF IInv, TypeOK, LockHasTimer, GoesOnWithLock, FiringOutOfList, DropNITZ, Goto, timerVars, dataVars, threadVars, UserCallbackInfo, Thread, Handling, Alive
<1> QED BY <1>1, <1>2, <1>3, <1>4, <1>5 DEF IInv

LEMMA KeepNITZStep ==
    ASSUME IInv, Alive, NEW t \in Thread, KeepNITZ(t)
    PROVE  IInv'
<1> USE NoneAssumption, BoundAssumption, ThreadAssumption
<1>1. TypeOK'
    BY DEF IInv, TypeOK, FiringOutOfList, KeepNITZ, Goto, timerVars, dataVars, threadVars, UserCallbackInfo, Thread, Handling
<1>2. GoesOnWithLock'
    BY DEF IInv, TypeOK, GoesOnWithLock, NITZTakesLock, KeepNITZ, Goto, timerVars, dataVars, threadVars, Thread, Handling
<1>3. NITZTakesLock'
    BY DEF IInv, TypeOK, NITZTakesLock, KeepNITZ, Goto, timerVars, dataVars, threadVars, Thread
<1>4. FiringOutOfList'
    BY DEF IInv, TypeOK, FiringOutOfList, KeepNITZ, Goto, timerVars, dataVars, threadVars, UserCallbackInfo, Thread, Handling
<1>5. LockHasTimer'
    BY DEF IInv, TypeOK, LockHasTimer, GoesOnWithLock, FiringOutOfList, KeepNITZ, Goto, timerVars, dataVars, threadVars, UserCallbackInfo, Thread, Handling, Alive
<1> QED BY <1>1, <1>2, <1>3, <1>4, <1>5 DEF IInv

LEMMA ReadLastStep ==
    ASSUME IInv, Alive, NEW t \in Thread, ReadLast(t)
    PROVE  IInv'
<1> USE NoneAssumption, BoundAssumption, ThreadAssumption
<1>1. TypeOK'
    BY DEF IInv, TypeOK, FiringOutOfList, ReadLast, GotoWith, timerVars, dataVars, threadVars, UserCallbackInfo, Thread, Handling
<1>2. GoesOnWithLock'
    BY DEF IInv, TypeOK, GoesOnWithLock, NITZTakesLock, ReadLast, GotoWith, timerVars, dataVars, threadVars, Thread, Handling
<1>3. NITZTakesLock'
    BY DEF IInv, TypeOK, NITZTakesLock, ReadLast, GotoWith, timerVars, dataVars, threadVars, Thread
<1>4. FiringOutOfList'
    BY DEF IInv, TypeOK, FiringOutOfList, ReadLast, GotoWith, timerVars, dataVars, threadVars, UserCallbackInfo, Thread, Handling
<1>5. LockHasTimer'
    BY DEF IInv, TypeOK, LockHasTimer, GoesOnWithLock, FiringOutOfList, ReadLast, GotoWith, timerVars, dataVars, threadVars, UserCallbackInfo, Thread, Handling, Alive
<1> QED BY <1>1, <1>2, <1>3, <1>4, <1>5 DEF IInv

LEMMA CancelLastStep ==
    ASSUME IInv, Alive, NEW t \in Thread, CancelLast(t)
    PROVE  IInv'
<1> USE NoneAssumption, BoundAssumption, ThreadAssumption
<1>1. TypeOK'
    <2>1. timer' \in [Addr -> UserCallbackInfo \cup {None}] /\ \A q \in Addr : timer[q] # None => timer'[q] # None
        <3>1. PICK p \in {ptr[t], last} :
                 timer' = [q \in Addr |-> IF q = p /\ timer[q] # None
                                         THEN [timer[q] EXCEPT !.cancelled = TRUE] ELSE timer[q]]
            BY DEF CancelLast
        <3>2. ASSUME NEW q \in Addr, timer[q] # None
              PROVE  [timer[q] EXCEPT !.cancelled = TRUE] \in UserCallbackInfo
            BY <3>2, CancelledInfo DEF IInv, TypeOK
        <3> QED BY <3>1, <3>2 DEF IInv, TypeOK
    <2> QED BY <2>1 DEF IInv, TypeOK, FiringOutOfList, CancelLast, Goto, timerVars, dataVars, threadVars, UserCallbackInfo, Thread, Handling
<1>2. GoesOnWithLock'
    BY DEF IInv, TypeOK, GoesOnWithLock, NITZTakesLock, CancelLast, Goto, timerVars, dataVars, threadVars, Thread, Handling
<1>3. NITZTakesLock'
    BY DEF IInv, TypeOK, NITZTakesLock, CancelLast, Goto, timerVars, dataVars, threadVars, Thread
<1>4. FiringOutOfList'
    <2>1. \A q \in Addr : timer[q] # None => timer'[q] # None
        <3>1. ASSUME NEW q \in Addr, timer[q] # None
              PROVE  [timer[q] EXCEPT !.cancelled = TRUE] \in UserCallbackInfo
            BY <3>1, CancelledInfo DEF IInv, TypeOK
        <3> QED BY <3>1 DEF CancelLast
    <2>2. pc'[Dispatch] \in {"compare", "clear", "free"} => pc[Dispatch] = pc'[Dispatch]
        BY DEF CancelLast, Goto, IInv, TypeOK, Thread
    <2> QED BY <2>1, <2>2 DEF IInv, FiringOutOfList, CancelLast, Goto
<1>5. LockHasTimer'
    BY DEF IInv, TypeOK, LockHasTimer, GoesOnWithLock, FiringOutOfList, CancelLast, Goto, timerVars, dataVars, threadVars, UserCallbackInfo, Thread, Handling, Alive
<1> QED BY <1>1, <1>2, <1>3, <1>4, <1>5 DEF IInv

LEMMA AssignLastStep ==
    ASSUME IInv, Alive, NEW t \in Thread, AssignLast(t)
    PROVE  IInv'
<1> USE NoneAssumption, BoundAssumption, ThreadAssumption
<1>1. TypeOK'
    BY DEF IInv, TypeOK, FiringOutOfList, AssignLast, Return, timerVars, dataVars, threadVars, UserCallbackInfo, Thread, Handling
<1>2. GoesOnWithLock'
    BY DEF IInv, TypeOK, GoesOnWithLock, NITZTakesLock, AssignLast, Return, timerVars, dataVars, threadVars, Thread, Handling
<1>3. NITZTakesLock'
    BY DEF IInv, TypeOK, NITZTakesLock, AssignLast, Return, timerVars, dataVars, threadVars, Thread
<1>4. FiringOutOfList'
    BY DEF IInv, TypeOK, FiringOutOfList, AssignLast, Return, timerVars, dataVars, threadVars, UserCallbackInfo, Thread, Handling
<1>5. LockHasTimer'
    BY DEF IInv, TypeOK, LockHasTimer, GoesOnWithLock, FiringOutOfList, AssignLast, Return, timerVars, dataVars, threadVars, UserCallbackInfo, Thread, Handling, Alive
<1> QED BY <1>1, <1>2, <1>3, <1>4, <1>5 DEF IInv

LEMMA ArmTimeoutStep ==
    ASSUME IInv, Alive, NEW t \in Thread, NEW p \in Addr, ArmTimeout(t, p)
    PROVE  IInv'
<1> USE NoneAssumption, BoundAssumption, ThreadAssumption
<1>1. TypeOK'
    <2>1. timer' \in [Addr -> UserCallbackInfo \cup {None}] /\ armed' \subseteq {q \in Addr : timer'[q] # None}
        <3>1. \E w \in BOOLEAN : timer' = [timer EXCEPT ![p] = [wake |-> w, cancelled |-> FALSE]]
            BY DEF ArmTimeout, internalRequestTimedCallback
        <3>2. armed' = armed \cup {p}
            BY DEF ArmTimeout, internalRequestTimedCallback
        <3>3. \A w \in BOOLEAN : /\ [wake |-> w, cancelled |-> FALSE] \in UserCallbackInfo
                                 /\ [wake |-> w, cancelled |-> FALSE] # None
            BY NewInfo
        <3>4. timer \in [Addr -> UserCallbackInfo \cup {None}] /\ armed \subseteq {q \in Addr : timer[q] # None}
            BY DEF IInv, TypeOK
        <3> QED BY <3>1, <3>2, <3>3, <3>4
    <2> QED BY <2>1 DEF IInv, TypeOK, FiringOutOfList, ArmTimeout, internalRequestTimedCallback, GotoWith, timerVars, dataVars, threadVars, UserCallbackInfo, Thread, Handling
<1>2. GoesOnWithLock'
    BY DEF IInv, TypeOK, GoesOnWithLock, NITZTakesLock, ArmTimeout, internalRequestTimedCallback, GotoWith, timerVars, dataVars, threadVars, Thread, Handling
<1>3. NITZTakesLock'
    BY DEF IInv, TypeOK, NITZTakesLock, ArmTimeout, internalRequestTimedCallback, GotoWith, timerVars, dataVars, threadVars, Thread
<1>4. FiringOutOfList'
    BY DEF IInv, TypeOK, FiringOutOfList, ArmTimeout, internalRequestTimedCallback, GotoWith, timerVars, dataVars, threadVars, UserCallbackInfo, Thread, Handling
<1>5. LockHasTimer'
    BY DEF IInv, TypeOK, LockHasTimer, GoesOnWithLock, FiringOutOfList, ArmTimeout, internalRequestTimedCallback, GotoWith, timerVars, dataVars, threadVars, UserCallbackInfo, Thread, Handling, Alive
<1> QED BY <1>1, <1>2, <1>3, <1>4, <1>5 DEF IInv

LEMMA ReceiveStep ==
    ASSUME IInv, Alive, NEW t \in Thread, NEW k \in {"nitz", "wake", "dont"}, Receive(t, k)
    PROVE  IInv'
<1> USE NoneAssumption, BoundAssumption, ThreadAssumption
<1>1. TypeOK'
    BY DEF IInv, TypeOK, FiringOutOfList, Receive, Enter, timerVars, dataVars, threadVars, UserCallbackInfo, Thread, Handling
<1>2. GoesOnWithLock'
    BY DEF IInv, TypeOK, GoesOnWithLock, NITZTakesLock, Receive, Enter, timerVars, dataVars, threadVars, Thread, Handling
<1>3. NITZTakesLock'
    BY DEF IInv, TypeOK, NITZTakesLock, Receive, Enter, timerVars, dataVars, threadVars, Thread
<1>4. FiringOutOfList'
    BY DEF IInv, TypeOK, FiringOutOfList, Receive, Enter, timerVars, dataVars, threadVars, UserCallbackInfo, Thread, Handling
<1>5. LockHasTimer'
    BY DEF IInv, TypeOK, LockHasTimer, GoesOnWithLock, FiringOutOfList, Receive, Enter, timerVars, dataVars, threadVars, UserCallbackInfo, Thread, Handling, Alive
<1> QED BY <1>1, <1>2, <1>3, <1>4, <1>5 DEF IInv

LEMMA RIL_requestTimedCallbackStep ==
    ASSUME IInv, Alive, NEW t \in Thread, NEW p \in Addr, RIL_requestTimedCallback(t, p)
    PROVE  IInv'
<1> USE NoneAssumption, BoundAssumption, ThreadAssumption
<1>1. TypeOK'
    <2>1. timer' \in [Addr -> UserCallbackInfo \cup {None}] /\ armed' \subseteq {q \in Addr : timer'[q] # None}
        <3>1. \E w \in BOOLEAN : timer' = [timer EXCEPT ![p] = [wake |-> w, cancelled |-> FALSE]]
            BY DEF RIL_requestTimedCallback, internalRequestTimedCallback
        <3>2. armed' = armed \cup {p}
            BY DEF RIL_requestTimedCallback, internalRequestTimedCallback
        <3>3. \A w \in BOOLEAN : /\ [wake |-> w, cancelled |-> FALSE] \in UserCallbackInfo
                                 /\ [wake |-> w, cancelled |-> FALSE] # None
            BY NewInfo
        <3>4. timer \in [Addr -> UserCallbackInfo \cup {None}] /\ armed \subseteq {q \in Addr : timer[q] # None}
            BY DEF IInv, TypeOK
        <3> QED BY <3>1, <3>2, <3>3, <3>4
    <2> QED BY <2>1 DEF IInv, TypeOK, FiringOutOfList, RIL_requestTimedCallback, internalRequestTimedCallback, timerVars, dataVars, threadVars, UserCallbackInfo, Thread, Handling
<1>2. GoesOnWithLock'
    BY DEF IInv, TypeOK, GoesOnWithLock, NITZTakesLock, RIL_requestTimedCallback, internalRequestTimedCallback, timerVars, dataVars, threadVars, Thread, Handling
<1>3. NITZTakesLock'
    BY DEF IInv, TypeOK, NITZTakesLock, RIL_requestTimedCallback, internalRequestTimedCallback, timerVars, dataVars, threadVars, Thread
<1>4. FiringOutOfList'
    BY DEF IInv, TypeOK, FiringOutOfList, RIL_requestTimedCallback, internalRequestTimedCallback, timerVars, dataVars, threadVars, UserCallbackInfo, Thread, Handling
<1>5. LockHasTimer'
    BY DEF IInv, TypeOK, LockHasTimer, GoesOnWithLock, FiringOutOfList, RIL_requestTimedCallback, internalRequestTimedCallback, timerVars, dataVars, threadVars, UserCallbackInfo, Thread, Handling, Alive
<1> QED BY <1>1, <1>2, <1>3, <1>4, <1>5 DEF IInv

LEMMA userTimerCallbackStep ==
    ASSUME IInv, Alive, NEW p \in Addr, userTimerCallback(p)
    PROVE  IInv'
<1> USE NoneAssumption, BoundAssumption, ThreadAssumption
<1>1. TypeOK'
    BY DEF IInv, TypeOK, FiringOutOfList, userTimerCallback, GotoWith, timerVars, dataVars, threadVars, UserCallbackInfo, Thread, Handling
<1>2. GoesOnWithLock'
    BY DEF IInv, TypeOK, GoesOnWithLock, NITZTakesLock, userTimerCallback, GotoWith, timerVars, dataVars, threadVars, Thread, Handling
<1>3. NITZTakesLock'
    BY DEF IInv, TypeOK, NITZTakesLock, userTimerCallback, GotoWith, timerVars, dataVars, threadVars, Thread
<1>4. FiringOutOfList'
    BY DEF IInv, TypeOK, FiringOutOfList, userTimerCallback, GotoWith, timerVars, dataVars, threadVars, UserCallbackInfo, Thread, Handling
<1>5. LockHasTimer'
    BY DEF IInv, TypeOK, LockHasTimer, GoesOnWithLock, FiringOutOfList, userTimerCallback, GotoWith, timerVars, dataVars, threadVars, UserCallbackInfo, Thread, Handling, Alive
<1> QED BY <1>1, <1>2, <1>3, <1>4, <1>5 DEF IInv

LEMMA CompareLastStep ==
    ASSUME IInv, Alive, CompareLast
    PROVE  IInv'
<1> USE NoneAssumption, BoundAssumption, ThreadAssumption
<1>1. TypeOK'
    BY DEF IInv, TypeOK, FiringOutOfList, CompareLast, Goto, timerVars, dataVars, threadVars, UserCallbackInfo, Thread, Handling
<1>2. GoesOnWithLock'
    BY DEF IInv, TypeOK, GoesOnWithLock, NITZTakesLock, CompareLast, Goto, timerVars, dataVars, threadVars, Thread, Handling
<1>3. NITZTakesLock'
    BY DEF IInv, TypeOK, NITZTakesLock, CompareLast, Goto, timerVars, dataVars, threadVars, Thread
<1>4. FiringOutOfList'
    BY DEF IInv, TypeOK, FiringOutOfList, CompareLast, Goto, timerVars, dataVars, threadVars, UserCallbackInfo, Thread, Handling
<1>5. LockHasTimer'
    BY DEF IInv, TypeOK, LockHasTimer, GoesOnWithLock, FiringOutOfList, CompareLast, Goto, timerVars, dataVars, threadVars, UserCallbackInfo, Thread, Handling, Alive
<1> QED BY <1>1, <1>2, <1>3, <1>4, <1>5 DEF IInv

LEMMA ClearLastStep ==
    ASSUME IInv, Alive, ClearLast
    PROVE  IInv'
<1> USE NoneAssumption, BoundAssumption, ThreadAssumption
<1>1. TypeOK'
    BY DEF IInv, TypeOK, FiringOutOfList, ClearLast, Goto, timerVars, dataVars, threadVars, UserCallbackInfo, Thread, Handling
<1>2. GoesOnWithLock'
    BY DEF IInv, TypeOK, GoesOnWithLock, NITZTakesLock, ClearLast, Goto, timerVars, dataVars, threadVars, Thread, Handling
<1>3. NITZTakesLock'
    BY DEF IInv, TypeOK, NITZTakesLock, ClearLast, Goto, timerVars, dataVars, threadVars, Thread
<1>4. FiringOutOfList'
    BY DEF IInv, TypeOK, FiringOutOfList, ClearLast, Goto, timerVars, dataVars, threadVars, UserCallbackInfo, Thread, Handling
<1>5. LockHasTimer'
    BY DEF IInv, TypeOK, LockHasTimer, GoesOnWithLock, FiringOutOfList, ClearLast, Goto, timerVars, dataVars, threadVars, UserCallbackInfo, Thread, Handling, Alive
<1> QED BY <1>1, <1>2, <1>3, <1>4, <1>5 DEF IInv

LEMMA FreeTimerStep ==
    ASSUME IInv, Alive, FreeTimer
    PROVE  IInv'
<1> USE NoneAssumption, BoundAssumption, ThreadAssumption
<1>1. TypeOK'
    BY DEF IInv, TypeOK, FiringOutOfList, FreeTimer, GotoWith, timerVars, dataVars, threadVars, UserCallbackInfo, Thread, Handling
<1>2. GoesOnWithLock'
    BY DEF IInv, TypeOK, GoesOnWithLock, NITZTakesLock, FreeTimer, GotoWith, timerVars, dataVars, threadVars, Thread, Handling
<1>3. NITZTakesLock'
    BY DEF IInv, TypeOK, NITZTakesLock, FreeTimer, GotoWith, timerVars, dataVars, threadVars, Thread
<1>4. FiringOutOfList'
    BY DEF IInv, TypeOK, FiringOutOfList, FreeTimer, GotoWith, timerVars, dataVars, threadVars, UserCallbackInfo, Thread, Handling
<1>5. LockHasTimer'
    BY DEF IInv, TypeOK, LockHasTimer, GoesOnWithLock, FiringOutOfList, FreeTimer, GotoWith, timerVars, dataVars, threadVars, UserCallbackInfo, Thread, Handling, Alive
<1> QED BY <1>1, <1>2, <1>3, <1>4, <1>5 DEF IInv

LEMMA ConnectStep ==
    ASSUME IInv, Alive, Connect
    PROVE  IInv'
<1> USE NoneAssumption, BoundAssumption, ThreadAssumption
<1>1. TypeOK'
    BY DEF IInv, TypeOK, FiringOutOfList, Connect, Enter, timerVars, dataVars, threadVars, UserCallbackInfo, Thread, Handling
<1>2. GoesOnWithLock'
    BY DEF IInv, TypeOK, GoesOnWithLock, NITZTakesLock, Connect, Enter, timerVars, dataVars, threadVars, Thread, Handling
<1>3. NITZTakesLock'
    BY DEF IInv, TypeOK, NITZTakesLock, Connect, Enter, timerVars, dataVars, threadVars, Thread
<1>4. FiringOutOfList'
    BY DEF IInv, TypeOK, FiringOutOfList, Connect, Enter, timerVars, dataVars, threadVars, UserCallbackInfo, Thread, Handling
<1>5. LockHasTimer'
    BY DEF IInv, TypeOK, LockHasTimer, GoesOnWithLock, FiringOutOfList, Connect, Enter, timerVars, dataVars, threadVars, UserCallbackInfo, Thread, Handling, Alive
<1> QED BY <1>1, <1>2, <1>3, <1>4, <1>5 DEF IInv

LEMMA SendRadioStateStep ==
    ASSUME IInv, Alive, SendRadioState
    PROVE  IInv'
<1> USE NoneAssumption, BoundAssumption, ThreadAssumption
<1>1. TypeOK'
    BY DEF IInv, TypeOK, FiringOutOfList, SendRadioState, Enter, timerVars, dataVars, threadVars, UserCallbackInfo, Thread, Handling
<1>2. GoesOnWithLock'
    BY DEF IInv, TypeOK, GoesOnWithLock, NITZTakesLock, SendRadioState, Enter, timerVars, dataVars, threadVars, Thread, Handling
<1>3. NITZTakesLock'
    BY DEF IInv, TypeOK, NITZTakesLock, SendRadioState, Enter, timerVars, dataVars, threadVars, Thread
<1>4. FiringOutOfList'
    BY DEF IInv, TypeOK, FiringOutOfList, SendRadioState, Enter, timerVars, dataVars, threadVars, UserCallbackInfo, Thread, Handling
<1>5. LockHasTimer'
    BY DEF IInv, TypeOK, LockHasTimer, GoesOnWithLock, FiringOutOfList, SendRadioState, Enter, timerVars, dataVars, threadVars, UserCallbackInfo, Thread, Handling, Alive
<1> QED BY <1>1, <1>2, <1>3, <1>4, <1>5 DEF IInv

LEMMA SendNITZStep ==
    ASSUME IInv, Alive, SendNITZ
    PROVE  IInv'
<1> USE NoneAssumption, BoundAssumption, ThreadAssumption
<1>1. TypeOK'
    <2>1. seen' \in Seq(1..MaxEvent)
        <3>1. seen \in Seq(1..MaxEvent) /\ stored \in 0..MaxEvent
            BY DEF IInv, TypeOK
        <3>2. CASE stored # 0 /\ client = "up"
            <4>1. stored \in 1..MaxEvent
                BY <3>1, <3>2
            <4>2. seen' = Append(seen, stored)
                BY <3>2 DEF SendNITZ
            <4> QED BY <3>1, <4>1, <4>2
        <3>3. CASE ~(stored # 0 /\ client = "up")
            BY <3>1, <3>3 DEF SendNITZ
        <3> QED BY <3>2, <3>3
    <2> QED BY <2>1 DEF IInv, TypeOK, FiringOutOfList, SendNITZ, Goto, timerVars, dataVars, threadVars, UserCallbackInfo, Thread, Handling
<1>2. GoesOnWithLock'
    BY DEF IInv, TypeOK, GoesOnWithLock, NITZTakesLock, SendNITZ, Goto, timerVars, dataVars, threadVars, Thread, Handling
<1>3. NITZTakesLock'
    BY DEF IInv, TypeOK, NITZTakesLock, SendNITZ, Goto, timerVars, dataVars, threadVars, Thread
<1>4. FiringOutOfList'
    BY DEF IInv, TypeOK, FiringOutOfList, SendNITZ, Goto, timerVars, dataVars, threadVars, UserCallbackInfo, Thread, Handling
<1>5. LockHasTimer'
    BY DEF IInv, TypeOK, LockHasTimer, GoesOnWithLock, FiringOutOfList, SendNITZ, Goto, timerVars, dataVars, threadVars, UserCallbackInfo, Thread, Handling, Alive
<1> QED BY <1>1, <1>2, <1>3, <1>4, <1>5 DEF IInv

LEMMA FreeNITZStep ==
    ASSUME IInv, Alive, FreeNITZ
    PROVE  IInv'
<1> USE NoneAssumption, BoundAssumption, ThreadAssumption
<1>1. TypeOK'
    BY DEF IInv, TypeOK, FiringOutOfList, FreeNITZ, Goto, timerVars, dataVars, threadVars, UserCallbackInfo, Thread, Handling
<1>2. GoesOnWithLock'
    BY DEF IInv, TypeOK, GoesOnWithLock, NITZTakesLock, FreeNITZ, Goto, timerVars, dataVars, threadVars, Thread, Handling
<1>3. NITZTakesLock'
    BY DEF IInv, TypeOK, NITZTakesLock, FreeNITZ, Goto, timerVars, dataVars, threadVars, Thread
<1>4. FiringOutOfList'
    BY DEF IInv, TypeOK, FiringOutOfList, FreeNITZ, Goto, timerVars, dataVars, threadVars, UserCallbackInfo, Thread, Handling
<1>5. LockHasTimer'
    BY DEF IInv, TypeOK, LockHasTimer, GoesOnWithLock, FiringOutOfList, FreeNITZ, Goto, timerVars, dataVars, threadVars, UserCallbackInfo, Thread, Handling, Alive
<1> QED BY <1>1, <1>2, <1>3, <1>4, <1>5 DEF IInv

LEMMA MallocFailsStep ==
    ASSUME IInv, Alive, NEW t \in Thread, NEW l \in {"arm", "idle"}, MallocFails(t, l)
    PROVE  IInv'
<1> USE NoneAssumption, BoundAssumption, ThreadAssumption
<1>1. TypeOK'
    BY DEF IInv, TypeOK, MallocFails, Goto, timerVars, dataVars, threadVars, Thread, Handling
<1>2. GoesOnWithLock'
    BY DEF IInv, TypeOK, GoesOnWithLock, MallocFails, Goto, timerVars, dataVars, threadVars, Thread, Handling
<1>3. NITZTakesLock'
    BY DEF IInv, TypeOK, NITZTakesLock, MallocFails, Goto, timerVars, dataVars, threadVars, Thread
<1>4. FiringOutOfList'
    BY DEF IInv, TypeOK, FiringOutOfList, MallocFails, Goto, timerVars, dataVars, threadVars, Thread, Handling
<1>5. LockHasTimer'
    BY DEF IInv, TypeOK, LockHasTimer, MallocFails, Goto, timerVars, dataVars, threadVars, Thread, Handling, Alive
<1> QED BY <1>1, <1>2, <1>3, <1>4, <1>5 DEF IInv

LEMMA ClientGoneStep ==
    ASSUME IInv, Alive, ClientGone
    PROVE  IInv'
<1> USE NoneAssumption, BoundAssumption, ThreadAssumption
<1>1. TypeOK'
    BY DEF IInv, TypeOK, FiringOutOfList, ClientGone, timerVars, dataVars, threadVars, UserCallbackInfo, Thread, Handling
<1>2. GoesOnWithLock'
    BY DEF IInv, TypeOK, GoesOnWithLock, NITZTakesLock, ClientGone, timerVars, dataVars, threadVars, Thread, Handling
<1>3. NITZTakesLock'
    BY DEF IInv, TypeOK, NITZTakesLock, ClientGone, timerVars, dataVars, threadVars, Thread
<1>4. FiringOutOfList'
    BY DEF IInv, TypeOK, FiringOutOfList, ClientGone, timerVars, dataVars, threadVars, UserCallbackInfo, Thread, Handling
<1>5. LockHasTimer'
    BY DEF IInv, TypeOK, LockHasTimer, GoesOnWithLock, FiringOutOfList, ClientGone, timerVars, dataVars, threadVars, UserCallbackInfo, Thread, Handling, Alive
<1> QED BY <1>1, <1>2, <1>3, <1>4, <1>5 DEF IInv

LEMMA DisconnectStep ==
    ASSUME IInv, Alive, Disconnect
    PROVE  IInv'
<1> USE NoneAssumption, BoundAssumption, ThreadAssumption
<1>1. TypeOK'
    BY DEF IInv, TypeOK, FiringOutOfList, Disconnect, timerVars, dataVars, threadVars, UserCallbackInfo, Thread, Handling
<1>2. GoesOnWithLock'
    BY DEF IInv, TypeOK, GoesOnWithLock, NITZTakesLock, Disconnect, timerVars, dataVars, threadVars, Thread, Handling
<1>3. NITZTakesLock'
    BY DEF IInv, TypeOK, NITZTakesLock, Disconnect, timerVars, dataVars, threadVars, Thread
<1>4. FiringOutOfList'
    BY DEF IInv, TypeOK, FiringOutOfList, Disconnect, timerVars, dataVars, threadVars, UserCallbackInfo, Thread, Handling
<1>5. LockHasTimer'
    BY DEF IInv, TypeOK, LockHasTimer, GoesOnWithLock, FiringOutOfList, Disconnect, timerVars, dataVars, threadVars, UserCallbackInfo, Thread, Handling, Alive
<1> QED BY <1>1, <1>2, <1>3, <1>4, <1>5 DEF IInv

-----------------------------------------------------------------------------

\* Every step keeps the invariant.
LEMMA NextIInv == IInv /\ [Next]_vars => IInv'
<1> SUFFICES ASSUME IInv, [Next]_vars PROVE IInv'
    OBVIOUS
<1>1. ASSUME UNCHANGED vars PROVE IInv'
    BY <1>1 DEF vars, timerVars, dataVars, threadVars, IInv, TypeOK, GoesOnWithLock, NITZTakesLock,
                FiringOutOfList, LockHasTimer, Alive
<1>2. ASSUME Alive, NEW t \in Thread, UnsolStep(t) PROVE IInv'
    BY <1>2, ResponseFailsStep, SendStep, DropNITZStep, KeepNITZStep, ReadLastStep, CancelLastStep,
       AssignLastStep, ArmTimeoutStep, MallocFailsStep DEF UnsolStep
<1>3. ASSUME Alive, NEW t \in VThread, VendorStep(t) PROVE IInv'
    BY <1>3, ReceiveStep, RIL_requestTimedCallbackStep, MallocFailsStep DEF VendorStep, Thread
<1>4. ASSUME Alive, NEW p \in Addr, userTimerCallback(p) PROVE IInv'
    BY <1>4, userTimerCallbackStep
<1>5. ASSUME Alive, TimerStep PROVE IInv'
    BY <1>5, CompareLastStep, ClearLastStep, FreeTimerStep DEF TimerStep
<1>6. ASSUME Alive, ConnStep PROVE IInv'
    BY <1>6, ConnectStep, SendRadioStateStep, SendNITZStep, FreeNITZStep, ClientGoneStep, DisconnectStep
       DEF ConnStep
<1> QED BY <1>1, <1>2, <1>3, <1>4, <1>5, <1>6 DEF Next

\* The three facts above hold, and every reachable state is well typed.
THEOREM Invariance == Spec => []IInv
BY InitIInv, NextIInv, PTL DEF Spec

\* TypeOK: timers in the list are allocated, whoever cancels, fires or frees them.
THEOREM TypeCorrect == Spec => []TypeOK
<1>1. IInv => TypeOK
    BY DEF IInv
<1> QED BY <1>1, Invariance, PTL

\* LockHasTimer: RIL_onUnsolicitedResponse and its timers never leak the wake lock,
\* although s_last_wake_timeout_info is used without a lock.
THEOREM LockNeverLeaked == Spec => []LockHasTimer
<1>1. IInv => LockHasTimer
    BY DEF IInv
<1> QED BY <1>1, Invariance, PTL
-----------------------------------------------------------------------------
(* NITZ times.                                                             *)

\* Thread t has a NITZ time that is neither delivered nor stored yet.
Carries(t) == pc[t] \in {"respond", "drop", "keep"} /\ time[t] # 0

\* A time has one carrier, which loses it when it is delivered or stored; what is
\* stored has been delivered only between SendNITZ and FreeNITZ; and the vendor's
\* next time is new.
NInv ==
    /\ \A t \in Thread : Carries(t) =>
          /\ time[t] <= events /\ time[t] # stored
          /\ \A i \in 1..Len(seen) : seen[i] # time[t]
          /\ \A u \in Thread : u # t /\ Carries(u) => time[u] # time[t]
    /\ stored <= events
    /\ \A i \in 1..Len(seen) : seen[i] <= events
    /\ stored # 0 /\ pc[Dispatch] # "freenitz" => \A i \in 1..Len(seen) : seen[i] # stored
    /\ \A i, j \in 1..Len(seen) : seen[i] = seen[j] => i = j

\* A step that has nothing to do with NITZ times.
Quiet ==
    /\ UNCHANGED <<stored, seen>>
    /\ events' \in {events, events + 1}
    /\ \A t \in Thread : Carries(t)' => Carries(t) /\ time'[t] = time[t]
    /\ pc[Dispatch] = "freenitz" => pc'[Dispatch] = "freenitz"

\* The types of the four NITZ variables, in the form the steps below need.
LEMMA SeenTypes ==
    IInv => /\ stored \in Nat /\ events \in Nat /\ \A t \in Thread : time[t] \in Nat
            /\ \A i \in 1..Len(seen) : seen[i] \in Nat
<1> SUFFICES ASSUME IInv
             PROVE  /\ stored \in Nat /\ events \in Nat /\ \A t \in Thread : time[t] \in Nat
                    /\ \A i \in 1..Len(seen) : seen[i] \in Nat
    OBVIOUS
<1>1. seen \in Seq(1..MaxEvent)
    BY DEF IInv, TypeOK
<1>2. \A i \in 1..Len(seen) : seen[i] \in 1..MaxEvent
    BY <1>1, ElementOfSeq
<1>3. stored \in 0..MaxEvent /\ events \in 0..MaxEvent /\ time \in [Thread -> 0..MaxEvent]
    BY DEF IInv, TypeOK
<1> QED BY <1>2, <1>3, BoundAssumption

\* A quiet step keeps NInv, whatever else it does.
LEMMA QuietStep == IInv /\ NInv /\ Quiet => NInv'
<1> SUFFICES ASSUME IInv, NInv, Quiet PROVE NInv'
    OBVIOUS
<1>1. /\ stored' = stored /\ seen' = seen /\ events <= events'
      /\ stored \in Nat /\ events \in Nat /\ events' \in Nat
      /\ \A i \in 1..Len(seen) : seen[i] \in Nat
    BY SeenTypes DEF Quiet
<1>2. \A t \in Thread : Carries(t)' => Carries(t) /\ time'[t] = time[t] /\ time[t] \in Nat
    BY SeenTypes DEF Quiet
<1>3. \A t \in Thread : Carries(t)' =>
         /\ time'[t] <= events' /\ time'[t] # stored'
         /\ \A i \in 1..Len(seen') : seen'[i] # time'[t]
         /\ \A u \in Thread : u # t /\ Carries(u)' => time'[u] # time'[t]
    BY <1>1, <1>2 DEF NInv
<1>4. /\ stored' <= events'
      /\ \A i \in 1..Len(seen') : seen'[i] <= events'
      /\ \A i, j \in 1..Len(seen') : seen'[i] = seen'[j] => i = j
    BY <1>1 DEF NInv
<1>5. stored' # 0 /\ pc'[Dispatch] # "freenitz" => \A i \in 1..Len(seen') : seen'[i] # stored'
    BY <1>1 DEF NInv, Quiet
<1> QED BY <1>3, <1>4, <1>5 DEF NInv

\* A time that is new to seen and gets appended.
LEMMA AppendStep ==
    ASSUME IInv, NEW x \in 1..MaxEvent, seen' = Append(seen, x)
    PROVE  /\ Len(seen') = Len(seen) + 1 /\ Len(seen) \in Nat
           /\ \A i \in 1..Len(seen) : seen'[i] = seen[i]
           /\ seen'[Len(seen) + 1] = x
<1>1. seen \in Seq(1..MaxEvent)
    BY DEF IInv, TypeOK
<1> QED BY <1>1, AppendProperties

LEMMA QuietActions ==
    ASSUME IInv, \/ \E t \in Thread : \/ ResponseFails(t) \/ ReadLast(t) \/ CancelLast(t) \/ AssignLast(t)
                                        \/ \E p \in Addr : ArmTimeout(t, p)
                 \/ \E t \in Thread : MallocFails(t, "arm") \/ MallocFails(t, "idle")
                 \/ \E t \in VThread : \E p \in Addr : RIL_requestTimedCallback(t, p)
                 \/ \E p \in Addr : userTimerCallback(p)
                 \/ TimerStep
                 \/ Connect \/ SendRadioState \/ ClientGone \/ Disconnect
    PROVE  Quiet
<1>1. ASSUME NEW t \in Thread, ResponseFails(t) PROVE Quiet
    BY <1>1 DEF Quiet, Carries, IInv, TypeOK, ResponseFails, Return, timerVars, dataVars, threadVars, Thread
<1>2. ASSUME NEW t \in Thread, ReadLast(t) PROVE Quiet
    BY <1>2 DEF Quiet, Carries, IInv, TypeOK, ReadLast, GotoWith, timerVars, dataVars, threadVars, Thread
<1>3. ASSUME NEW t \in Thread, CancelLast(t) PROVE Quiet
    BY <1>3 DEF Quiet, Carries, IInv, TypeOK, CancelLast, Goto, timerVars, dataVars, threadVars, Thread
<1>4. ASSUME NEW t \in Thread, AssignLast(t) PROVE Quiet
    BY <1>4 DEF Quiet, Carries, IInv, TypeOK, AssignLast, Return, timerVars, dataVars, threadVars, Thread
<1>5. ASSUME NEW t \in Thread, NEW p \in Addr, ArmTimeout(t, p) PROVE Quiet
    BY <1>5 DEF Quiet, Carries, IInv, TypeOK, ArmTimeout, GotoWith, timerVars, dataVars, threadVars, Thread
<1>6. ASSUME NEW t \in VThread, NEW p \in Addr, RIL_requestTimedCallback(t, p) PROVE Quiet
    BY <1>6 DEF Quiet, Carries, IInv, TypeOK, RIL_requestTimedCallback, timerVars, dataVars, threadVars, Thread
<1>7. ASSUME NEW p \in Addr, userTimerCallback(p) PROVE Quiet
    BY <1>7 DEF Quiet, Carries, IInv, TypeOK, userTimerCallback, GotoWith, timerVars, dataVars, threadVars, Thread
<1>8. ASSUME CompareLast PROVE Quiet
    BY <1>8 DEF Quiet, Carries, IInv, TypeOK, CompareLast, Goto, timerVars, dataVars, threadVars, Thread
<1>9. ASSUME ClearLast PROVE Quiet
    BY <1>9 DEF Quiet, Carries, IInv, TypeOK, ClearLast, Goto, timerVars, dataVars, threadVars, Thread
<1>10. ASSUME FreeTimer PROVE Quiet
    BY <1>10 DEF Quiet, Carries, IInv, TypeOK, FreeTimer, GotoWith, timerVars, dataVars, threadVars, Thread
<1>11. ASSUME Connect PROVE Quiet
    BY <1>11 DEF Quiet, Carries, IInv, TypeOK, Connect, Enter, timerVars, dataVars, threadVars, Thread
<1>12. ASSUME SendRadioState PROVE Quiet
    BY <1>12 DEF Quiet, Carries, IInv, TypeOK, SendRadioState, Enter, timerVars, dataVars, threadVars, Thread
<1>13. ASSUME ClientGone PROVE Quiet
    BY <1>13 DEF Quiet, Carries, IInv, TypeOK, ClientGone, timerVars, dataVars, threadVars, Thread
<1>14. ASSUME Disconnect PROVE Quiet
    BY <1>14 DEF Quiet, Carries, IInv, TypeOK, Disconnect, timerVars, dataVars, threadVars, Thread
<1>15. ASSUME NEW t \in Thread, MallocFails(t, "arm") \/ MallocFails(t, "idle") PROVE Quiet
    BY <1>15 DEF Quiet, Carries, IInv, TypeOK, MallocFails, Goto, timerVars, dataVars, threadVars, Thread
<1> QED BY <1>1, <1>2, <1>3, <1>4, <1>5, <1>6, <1>7, <1>8, <1>9, <1>10, <1>11, <1>12, <1>13, <1>14, <1>15 DEF TimerStep

LEMMA InitNInv == Init => NInv
BY BoundAssumption DEF Init, NInv, Carries

LEMMA NextNInv == IInv /\ IInv' /\ NInv /\ [Next]_vars => NInv'
<1> SUFFICES ASSUME IInv, IInv', NInv, [Next]_vars PROVE NInv'
    OBVIOUS
<1>1. ASSUME UNCHANGED vars PROVE NInv'
    BY <1>1 DEF vars, timerVars, dataVars, threadVars, NInv, Carries
<1>2. ASSUME Quiet PROVE NInv'
    BY <1>2, QuietStep
<1>3. ASSUME NEW t \in VThread, NEW k \in {"nitz", "wake", "dont"}, Receive(t, k) PROVE NInv'
    <2>1. /\ UNCHANGED <<stored, seen>> /\ events \in Nat /\ events' = events + 1
          /\ time'[t] \in {0, events + 1} /\ pc[t] = "idle"
          /\ pc[Dispatch] = "freenitz" => pc'[Dispatch] = "freenitz"
        BY <1>3 DEF IInv, TypeOK, Receive, Enter, dataVars, Thread
    <2>2. \A u \in Thread : u # t => pc'[u] = pc[u] /\ time'[u] = time[u]
        BY <1>3 DEF IInv, TypeOK, Receive, Enter, dataVars, Thread
    <2>3. stored \in Nat /\ (\A u \in Thread : time[u] \in Nat) /\ \A i \in 1..Len(seen) : seen[i] \in Nat
        BY SeenTypes
    <2>4. t \in Thread
        BY DEF Thread
    <2>5. ASSUME NEW u \in Thread, Carries(u)'
          PROVE  /\ time'[u] <= events' /\ time'[u] # stored'
                 /\ \A i \in 1..Len(seen') : seen'[i] # time'[u]
        <3>1. CASE u = t
            BY <2>1, <2>3, <2>5, <3>1 DEF NInv, Carries
        <3>2. CASE u # t
            BY <2>1, <2>2, <2>3, <2>5, <3>2 DEF NInv, Carries
        <3> QED BY <3>1, <3>2
    <2>6. ASSUME NEW u \in Thread, Carries(u)', NEW v \in Thread, Carries(v)', v # u
          PROVE  time'[v] # time'[u]
        <3>1. \A w \in Thread : w # t /\ Carries(w)' => Carries(w) /\ time'[w] = time[w] /\ time[w] <= events
            BY <2>2 DEF NInv, Carries
        <3>2. Carries(t)' => time'[t] = events + 1
            BY <2>1 DEF Carries
        <3>3. CASE u = t \/ v = t
            BY <3>1, <3>2, <3>3, <2>1, <2>3, <2>6
        <3>4. CASE u # t /\ v # t
            BY <3>1, <3>4, <2>6 DEF NInv
        <3> QED BY <3>3, <3>4
    <2>7. /\ stored' <= events'
          /\ \A i \in 1..Len(seen') : seen'[i] <= events'
          /\ stored' # 0 /\ pc'[Dispatch] # "freenitz" => \A i \in 1..Len(seen') : seen'[i] # stored'
          /\ \A i, j \in 1..Len(seen') : seen'[i] = seen'[j] => i = j
        BY <2>1, <2>3 DEF NInv
    <2> QED BY <2>5, <2>6, <2>7 DEF NInv
<1>4. ASSUME NEW t \in Thread, Send(t) PROVE NInv'
    <2>1. CASE client = "up" /\ time[t] # 0
        <3>1. time[t] \in 1..MaxEvent /\ seen' = Append(seen, time[t]) /\ Carries(t)
            BY <1>4, <2>1 DEF IInv, TypeOK, Send, Carries
        <3>2. /\ UNCHANGED <<stored, events>>
              /\ ~Carries(t)'
              /\ \A u \in Thread : u # t => pc'[u] = pc[u] /\ time'[u] = time[u]
            BY <1>4, <2>1 DEF IInv, TypeOK, Send, AfterSend, Return, Goto, Carries, Thread
        <3>3. pc[Dispatch] = "freenitz" <=> pc'[Dispatch] = "freenitz"
            <4>1. pc[t] = "respond" /\ pc'[t] # "freenitz" /\ Dispatch \in Thread
                BY <1>4, <2>1 DEF IInv, TypeOK, Send, AfterSend, Return, Goto, Thread
            <4> QED BY <4>1, <3>2
        <3>4. \A u \in Thread : Carries(u)' => u # t /\ Carries(u) /\ time'[u] = time[u]
            BY <3>2 DEF Carries
        <3>5. \A i \in 1..Len(seen') : \/ i \in 1..Len(seen) /\ seen'[i] = seen[i]
                                       \/ i = Len(seen) + 1 /\ seen'[i] = time[t]
            BY <3>1, AppendStep
        <3>6. \A u \in Thread : Carries(u)' =>
                 /\ time'[u] <= events' /\ time'[u] # stored'
                 /\ \A i \in 1..Len(seen') : seen'[i] # time'[u]
                 /\ \A v \in Thread : v # u /\ Carries(v)' => time'[v] # time'[u]
            BY <3>1, <3>2, <3>4, <3>5 DEF NInv
        <3>7. /\ stored' <= events'
              /\ \A i \in 1..Len(seen') : seen'[i] <= events'
              /\ stored' # 0 /\ pc'[Dispatch] # "freenitz" => \A i \in 1..Len(seen') : seen'[i] # stored'
            BY <3>1, <3>2, <3>3, <3>5 DEF NInv
        <3>8. \A i, j \in 1..Len(seen') : seen'[i] = seen'[j] => i = j
            BY <3>1, <3>5 DEF NInv
        <3> QED BY <3>6, <3>7, <3>8 DEF NInv
    <2>2. CASE ~(client = "up" /\ time[t] # 0)
        <3>1. Quiet
            BY <1>4, <2>2 DEF Quiet, Carries, IInv, TypeOK, Send, AfterSend, Return, Goto, Thread
        <3> QED BY <3>1, <1>2
    <2> QED BY <2>1, <2>2
<1>5. ASSUME NEW t \in Thread, DropNITZ(t) PROVE NInv'
    BY <1>5 DEF IInv, TypeOK, NInv, Carries, DropNITZ, Goto, Thread
<1>6. ASSUME NEW t \in Thread, KeepNITZ(t) PROVE NInv'
    BY <1>6 DEF IInv, TypeOK, NInv, Carries, KeepNITZ, Goto, Thread
<1>7. ASSUME SendNITZ PROVE NInv'
    <2>1. CASE stored # 0 /\ client = "up"
        <3>1. stored \in 1..MaxEvent /\ seen' = Append(seen, stored)
            BY <1>7, <2>1 DEF IInv, TypeOK, SendNITZ
        <3>2. /\ UNCHANGED <<stored, events, time>>
              /\ pc[Dispatch] = "nitz" /\ pc'[Dispatch] = "freenitz"
              /\ \A u \in Thread : Carries(u)' => Carries(u)
            BY <1>7, <2>1 DEF IInv, TypeOK, SendNITZ, Goto, Carries, Thread
        <3> QED BY <3>1, <3>2, AppendStep DEF IInv, TypeOK, NInv
    <2>2. CASE ~(stored # 0 /\ client = "up")
        <3>1. Quiet
            BY <1>7, <2>2 DEF Quiet, Carries, IInv, TypeOK, SendNITZ, Goto, Thread
        <3> QED BY <3>1, <1>2
    <2> QED BY <2>1, <2>2
<1>8. ASSUME FreeNITZ PROVE NInv'
    BY <1>8 DEF IInv, TypeOK, NInv, Carries, FreeNITZ, Goto, Thread
<1>9. ASSUME NEW t \in Thread, UnsolStep(t) PROVE NInv'
    <2>1. CASE \/ ResponseFails(t) \/ ReadLast(t) \/ CancelLast(t) \/ AssignLast(t)
               \/ MallocFails(t, "arm") \/ \E p \in Addr : ArmTimeout(t, p)
        <3>1. Quiet
            BY <2>1, QuietActions
        <3> QED BY <3>1, <1>2
    <2>2. CASE Send(t) \/ DropNITZ(t) \/ KeepNITZ(t)
        BY <2>2, <1>4, <1>5, <1>6
    <2> QED BY <1>9, <2>1, <2>2 DEF UnsolStep
<1>10. ASSUME NEW t \in VThread, VendorStep(t) PROVE NInv'
    BY <1>10, <1>2, <1>3, QuietActions DEF VendorStep, Thread
<1>11. ASSUME TimerStep \/ ConnStep PROVE NInv'
    BY <1>11, <1>2, <1>7, <1>8, QuietActions DEF ConnStep
<1>12. ASSUME NEW p \in Addr, userTimerCallback(p) PROVE NInv'
    BY <1>12, <1>2, QuietActions
<1> QED BY <1>1, <1>9, <1>10, <1>11, <1>12 DEF Next

\* NITZOnce: onNewCommandConnect and the vendor's threads never deliver the same
\* NITZ time twice.
THEOREM NITZDeliveredOnce == Spec => []NITZOnce
<1>1. TypeOK /\ NInv => NITZOnce
    <2>1. seen \in Seq(1..MaxEvent) => DOMAIN seen = 1..Len(seen)
        BY LenProperties
    <2> QED BY <2>1 DEF TypeOK, NInv, NITZOnce, IsInjective
<1>2. IInv => TypeOK
    BY DEF IInv
<1>3. Spec => [](IInv /\ NInv)
    BY InitIInv, NextIInv, InitNInv, NextNInv, PTL DEF Spec
<1> QED BY <1>1, <1>2, <1>3, PTL
=============================================================================
