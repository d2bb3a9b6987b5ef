---------------------------- MODULE RilEventProofs ----------------------------
(***************************************************************************)
(* Proofs about the event loop, for every set of events, descriptors,      *)
(* timers and threads.                                                     *)
(*                                                                         *)
(* The inductive invariant IInv adds to the properties what keeps them     *)
(* true: once the loop runs, the wakeup pipe exists, is watched, and is in *)
(* every set given to select; and timer_list is sorted, so its head is the *)
(* earliest timer.  Lists and Expired, on top of it, are about the two     *)
(* lists of events, for NeverEarly and for the refinement of RilLoop.      *)
(***************************************************************************)
EXTENDS RilEvent, FiniteSetTheorems, SequenceTheorems, TLAPS

\* The dispatch thread is between its copy of readFds and the end of select.
Blocking == {"calc", "enter", "select"}

WakeupWatched ==
    /\ pc \in {"pipe", "addWakeup"} <=> Wakeup \notin Watched
    /\ pc # "pipe" => pipe # "none"
    /\ pc \in Blocking => Fd[Wakeup] \in rfds
    /\ pc = "select" => Fd[Wakeup] < limit

TimersSorted ==
    \A i, j \in 1..Len(timers) : i < j => timeout[timers[i]] <= timeout[timers[j]]

IInv == TypeOK /\ TablesAgree /\ WakeupWatched /\ TimersSorted /\ NoLostWakeup

TableTypes ==
    /\ watch \in [Slot -> FdEvent \cup {NoEvent}]
    /\ index \in [FdEvent -> Slot \cup {-1}]
    /\ readFds \subseteq Nat
    /\ nfds \in Nat

-----------------------------------------------------------------------------
(* The operations on the tables.                                           *)

\* Slots are natural numbers, and -1 is not one of them.
LEMMA SlotFacts == Slot \subseteq Nat /\ -1 \notin Slot
BY SizeAssumption DEF Slot

\* While an event is not in the table some slot is free: the occupied slots
\* map one to one into the other events, of which there are fewer.
LEMMA RoomLemma ==
    ASSUME TableTypes, TablesAgree
    PROVE  AlwaysRoom
<1> SUFFICES ASSUME NEW e \in FdEvent, index[e] = -1,
                    \A s \in Slot : watch[s] # NoEvent
             PROVE  FALSE
    BY DEF AlwaysRoom
<1> DEFINE F == FdEvent \ {e}
<1>1. watch \in [Slot -> F]
    <2>1. \A s \in Slot : watch[s] # e
        BY SlotFacts DEF TablesAgree, TableTypes
    <2> QED BY <2>1 DEF TableTypes
<1>2. IsFiniteSet(Slot) /\ Cardinality(Slot) = MaxEvents
    <2>1. 0 \in Int /\ MaxEvents - 1 \in Int /\ MaxEvents \in Nat
        BY SizeAssumption
    <2>2. IsFiniteSet(0..(MaxEvents - 1)) /\ Cardinality(0..(MaxEvents - 1)) =
             IF 0 > MaxEvents - 1 THEN 0 ELSE (MaxEvents - 1) - 0 + 1
        BY <2>1, FS_Interval
    <2> QED BY <2>1, <2>2 DEF Slot
<1>3. IsFiniteSet(F) /\ Cardinality(F) = Cardinality(FdEvent) - 1
    BY SizeAssumption, FS_RemoveElement
<1>4. Cardinality(FdEvent) \in Nat
    BY SizeAssumption, FS_CardinalityType
<1>5. Cardinality(F) < Cardinality(Slot)
    BY <1>2, <1>3, <1>4, SizeAssumption
<1>6. PICK x \in Slot, y \in Slot : x # y /\ watch[x] = watch[y]
    BY <1>1, <1>2, <1>3, <1>5, FS_PigeonHole
<1> QED BY <1>6 DEF TablesAgree

\* ril_event_add keeps the tables in agreement and adds exactly e.
LEMMA AddLemma ==
    ASSUME TableTypes, TablesAgree,
           NEW e \in FdEvent, index[e] = -1, ril_event_add(e)
    PROVE  /\ TableTypes' /\ TablesAgree'
           /\ Watched' = Watched \cup {e}
           /\ readFds' = readFds \cup {Fd[e]}
           /\ nfds' >= nfds
           /\ Fd[e] < nfds'
<1>1. \E s \in Slot : watch[s] = NoEvent
    BY RoomLemma DEF AlwaysRoom
<1>2. PICK s \in Slot :
         /\ watch[s] = NoEvent
         /\ watch' = [watch EXCEPT ![s] = e]
         /\ index' = [index EXCEPT ![e] = s]
    BY <1>1 DEF ril_event_add
<1>3. /\ readFds' = readFds \cup {Fd[e]}
      /\ nfds' = IF Fd[e] >= nfds THEN Fd[e] + 1 ELSE nfds
    BY <1>1 DEF ril_event_add
<1>4. Fd[e] \in Nat
    BY FdAssumption
<1>5. TableTypes' /\ nfds' >= nfds /\ Fd[e] < nfds'
    <2>1. nfds' \in Nat /\ nfds' >= nfds /\ Fd[e] < nfds'
        BY <1>3, <1>4 DEF TableTypes
    <2>2. watch' \in [Slot -> FdEvent \cup {NoEvent}]
        BY <1>2 DEF TableTypes
    <2>3. index' \in [FdEvent -> Slot \cup {-1}]
        BY <1>2 DEF TableTypes
    <2>4. readFds' \subseteq Nat
        BY <1>3, <1>4 DEF TableTypes
    <2> QED BY <2>1, <2>2, <2>3, <2>4 DEF TableTypes
<1>6. Watched' = Watched \cup {e}
    BY <1>2, SlotFacts DEF TableTypes, Watched
<1>7. TablesAgree'
    <2>1. \A f \in Watched' : watch'[index'[f]] = f
        BY <1>2, <1>6, EventAssumption, SlotFacts DEF TableTypes, TablesAgree, Watched
    <2>2. \A r \in Slot : watch'[r] # NoEvent => index'[watch'[r]] = r
        BY <1>2, SlotFacts DEF TableTypes, TablesAgree
    <2>3. readFds' = Fds(Watched')
        BY <1>3, <1>6 DEF TablesAgree, Fds
    <2>4. \A f \in Watched' : Fd[f] < nfds'
        BY <1>3, <1>5, <1>6, FdAssumption DEF TablesAgree, TableTypes, Watched
    <2> QED BY <2>1, <2>2, <2>3, <2>4 DEF TablesAgree
<1> QED BY <1>3, <1>5, <1>6, <1>7

\* removeWatch keeps the tables in agreement and removes exactly R.
LEMMA RemoveLemma ==
    ASSUME TableTypes, TablesAgree,
           NEW R \in SUBSET Watched, removeWatch(R)
    PROVE  TableTypes' /\ TablesAgree' /\ Watched' = Watched \ R
<1> DEFINE left == Fds(Watched \ R)
<1>1. /\ watch' = [s \in Slot |-> IF watch[s] \in R THEN NoEvent ELSE watch[s]]
      /\ index' = [e \in FdEvent |-> IF e \in R THEN -1 ELSE index[e]]
      /\ readFds' = readFds \ Fds(R)
    BY DEF removeWatch
<1>2. left \subseteq Nat
    BY FdAssumption DEF Fds, Watched
<1>3. \/ nfds' = nfds
      \/ \E n \in left \cup {0} : (\A m \in left : m <= n) /\ nfds' = n + 1
    BY DEF removeWatch
<1>4. TableTypes'
    <2>1. nfds' \in Nat
        BY <1>2, <1>3 DEF TableTypes
    <2> QED BY <1>1, <2>1 DEF TableTypes
<1>5. Watched' = Watched \ R
    BY <1>1 DEF Watched, TableTypes
<1>6. TablesAgree'
    <2>1. \A f \in Watched' : watch'[index'[f]] = f
        BY <1>1, <1>5, SlotFacts DEF TableTypes, TablesAgree, Watched
    <2>2. \A r \in Slot : watch'[r] # NoEvent => index'[watch'[r]] = r
        BY <1>1 DEF TableTypes, TablesAgree
    <2>3. readFds' = Fds(Watched')
        BY <1>1, <1>5, FdAssumption DEF TablesAgree, Fds, Watched
    <2>4. \A f \in Watched' : Fd[f] < nfds'
        <3> SUFFICES ASSUME NEW f \in Watched' PROVE Fd[f] < nfds'
            OBVIOUS
        <3>1. Fd[f] \in left /\ Fd[f] \in Nat /\ Fd[f] < nfds
            BY <1>5, FdAssumption DEF TablesAgree, Fds, Watched
        <3> QED BY <1>2, <1>3, <3>1 DEF TableTypes
    <2> QED BY <2>1, <2>2, <2>3, <2>4 DEF TablesAgree
<1> QED BY <1>4, <1>5, <1>6

\* A sequence with an element put in after position k.
LEMMA InsertLemma ==
    ASSUME NEW S, NEW s \in Seq(S), NEW x \in S, NEW k \in 0..Len(s)
    PROVE  /\ InsertAt(s, k + 1, x) \in Seq(S)
           /\ Len(InsertAt(s, k + 1, x)) = Len(s) + 1
           /\ \A i \in 1..k : InsertAt(s, k + 1, x)[i] = s[i]
           /\ InsertAt(s, k + 1, x)[k + 1] = x
           /\ \A i \in (k + 2)..(Len(s) + 1) : InsertAt(s, k + 1, x)[i] = s[i - 1]
<1> DEFINE a == SubSeq(s, 1, k)
           b == <<x>>
           c == SubSeq(s, k + 1, Len(s))
           r == InsertAt(s, k + 1, x)
<1>1. Len(s) \in Nat /\ k \in Nat /\ \A i \in 1..Len(s) : s[i] \in S
    BY LenProperties, ElementOfSeq
<1>2. a \in Seq(S) /\ Len(a) = k /\ \A i \in 1..k : a[i] = s[i]
    <2>1. 1 \in Int /\ k \in Int /\ \A i \in 1..k : s[i] \in S
        BY <1>1
    <2> HIDE DEF a
    <2>2. /\ a \in Seq(S) /\ Len(a) = (IF 1 <= k THEN k - 1 + 1 ELSE 0)
          /\ \A i \in 1..(k - 1 + 1) : a[i] = s[1 + i - 1]
        BY <2>1, SubSeqProperties DEF a
    <2> QED BY <1>1, <2>2
<1>3. /\ c \in Seq(S) /\ Len(c) = Len(s) - k
      /\ \A i \in 1..(Len(s) - k) : c[i] = s[k + i]
    <2>1. k + 1 \in Int /\ Len(s) \in Int /\ \A i \in (k + 1)..Len(s) : s[i] \in S
        BY <1>1
    <2> HIDE DEF c
    <2>2. /\ c \in Seq(S) /\ Len(c) = (IF k + 1 <= Len(s) THEN Len(s) - (k + 1) + 1 ELSE 0)
          /\ \A i \in 1..(Len(s) - (k + 1) + 1) : c[i] = s[(k + 1) + i - 1]
        BY <2>1, SubSeqProperties DEF c
    <2>3. \A i \in 1..(Len(s) - k) : c[i] = s[k + i]
        <3> SUFFICES ASSUME NEW i \in 1..(Len(s) - k) PROVE c[i] = s[k + i]
            OBVIOUS
        <3>1. i \in 1..(Len(s) - (k + 1) + 1) /\ (k + 1) + i - 1 = k + i
            BY <1>1
        <3> QED BY <2>2, <3>1
    <2> QED BY <1>1, <2>2, <2>3
<1>4. b \in Seq(S) /\ Len(b) = 1 /\ b[1] = x
    OBVIOUS
<1> HIDE DEF a, b, c
<1>5. /\ a \o b \in Seq(S) /\ Len(a \o b) = k + 1
      /\ \A i \in 1..(k + 1) : (a \o b)[i] = IF i <= k THEN a[i] ELSE b[i - k]
    <2>1. /\ a \o b \in Seq(S) /\ Len(a \o b) = Len(a) + Len(b)
          /\ \A i \in 1..(Len(a) + Len(b)) :
                (a \o b)[i] = IF i <= Len(a) THEN a[i] ELSE b[i - Len(a)]
        BY <1>2, <1>4, ConcatProperties
    <2> QED BY <1>2, <1>4, <2>1
<1>6. /\ (a \o b) \o c \in Seq(S) /\ Len((a \o b) \o c) = (k + 1) + (Len(s) - k)
      /\ \A i \in 1..((k + 1) + (Len(s) - k)) :
            ((a \o b) \o c)[i] = IF i <= k + 1 THEN (a \o b)[i] ELSE c[i - (k + 1)]
    <2> DEFINE ab == a \o b
    <2> HIDE DEF ab
    <2>1. /\ ab \o c \in Seq(S) /\ Len(ab \o c) = Len(ab) + Len(c)
          /\ \A i \in 1..(Len(ab) + Len(c)) :
                (ab \o c)[i] = IF i <= Len(ab) THEN ab[i] ELSE c[i - Len(ab)]
        BY <1>3, <1>5, ConcatProperties DEF ab
    <2>2. Len(ab) = k + 1
        BY <1>5 DEF ab
    <2>3. /\ ab \o c \in Seq(S) /\ Len(ab \o c) = (k + 1) + (Len(s) - k)
          /\ \A i \in 1..((k + 1) + (Len(s) - k)) :
                (ab \o c)[i] = IF i <= k + 1 THEN ab[i] ELSE c[i - (k + 1)]
        BY <1>3, <2>1, <2>2
    <2> QED BY <2>3 DEF ab
<1>7. r = (a \o b) \o c
    <2>1. (k + 1) - 1 = k
        BY <1>1
    <2> QED BY <2>1 DEF a, b, c, InsertAt
<1> HIDE DEF r
<1>8. r \in Seq(S) /\ Len(r) = Len(s) + 1
    <2> DEFINE u == (a \o b) \o c
    <2>1. u \in Seq(S) /\ Len(u) = (k + 1) + (Len(s) - k)
        BY <1>6
    <2>2. r = u
        BY <1>7
    <2>3. (k + 1) + (Len(s) - k) = Len(s) + 1
        BY <1>1
    <2> QED BY <2>1, <2>2, <2>3
<1>9. \A i \in 1..(k + 1) : r[i] = IF i <= k THEN a[i] ELSE b[i - k]
    <2> SUFFICES ASSUME NEW i \in 1..(k + 1) PROVE r[i] = IF i <= k THEN a[i] ELSE b[i - k]
        OBVIOUS
    <2>1. i \in 1..((k + 1) + (Len(s) - k)) /\ i <= k + 1
        BY <1>1
    <2> QED BY <1>5, <1>6, <1>7, <2>1
<1>10. \A i \in 1..k : r[i] = s[i]
    <2> SUFFICES ASSUME NEW i \in 1..k PROVE r[i] = s[i]
        OBVIOUS
    <2>1. i \in 1..(k + 1) /\ i <= k
        BY <1>1
    <2> QED BY <1>2, <1>9, <2>1
<1>11. r[k + 1] = x
    <2>1. k + 1 \in 1..(k + 1) /\ ~(k + 1 <= k) /\ (k + 1) - k = 1
        BY <1>1
    <2> QED BY <1>4, <1>9, <2>1
<1>12. \A i \in (k + 2)..(Len(s) + 1) : r[i] = s[i - 1]
    <2> SUFFICES ASSUME NEW i \in (k + 2)..(Len(s) + 1) PROVE r[i] = s[i - 1]
        OBVIOUS
    <2>1. /\ i \in 1..((k + 1) + (Len(s) - k)) /\ ~(i <= k + 1)
          /\ i - (k + 1) \in 1..(Len(s) - k) /\ k + (i - (k + 1)) = i - 1
        BY <1>1
    <2>2. r[i] = c[i - (k + 1)]
        BY <1>6, <1>7, <2>1
    <2> QED BY <1>3, <2>1, <2>2
<1> QED BY <1>8, <1>10, <1>11, <1>12 DEF r

\* ril_timer_add keeps timer_list sorted and adds exactly t.
LEMMA TimerLemma ==
    ASSUME timers \in Seq(Timer), timeout \in [Timer -> Nat], now \in Nat, TimersSorted,
           NEW t \in Timer, t \notin Range(timers), ril_timer_add(t)
    PROVE  /\ timers' \in Seq(Timer)
           /\ timeout' \in [Timer -> Nat]
           /\ Range(timers') = Range(timers) \cup {t}
           /\ TimersSorted'
<1>1. now + Delay[t] \in Nat
    BY TimeAssumption
<1>2. timeout' = [timeout EXCEPT ![t] = now + Delay[t]]
    BY DEF ril_timer_add
<1>3. PICK k \in 0..Len(timers) :
         /\ \A i \in 1..k : timeout[timers[i]] < now + Delay[t]
         /\ k < Len(timers) => timeout[timers[k + 1]] >= now + Delay[t]
         /\ timers' = InsertAt(timers, k + 1, t)
    BY DEF ril_timer_add
<1>4. Len(timers) \in Nat /\ k \in Nat /\ \A i \in 1..Len(timers) : timers[i] \in Timer
    BY LenProperties, ElementOfSeq
<1>5. /\ timers' \in Seq(Timer)
      /\ Len(timers') = Len(timers) + 1
      /\ \A i \in 1..k : timers'[i] = timers[i]
      /\ timers'[k + 1] = t
      /\ \A i \in (k + 2)..(Len(timers) + 1) : timers'[i] = timers[i - 1]
    <2> DEFINE r == InsertAt(timers, k + 1, t)
    <2>1. /\ r \in Seq(Timer)
          /\ Len(r) = Len(timers) + 1
          /\ \A i \in 1..k : r[i] = timers[i]
          /\ r[k + 1] = t
          /\ \A i \in (k + 2)..(Len(timers) + 1) : r[i] = timers[i - 1]
        <3>1. r \in Seq(Timer)
            BY InsertLemma
        <3>2. Len(r) = Len(timers) + 1
            BY InsertLemma
        <3>3. \A i \in 1..k : r[i] = timers[i]
            BY InsertLemma
        <3>4. r[k + 1] = t
            BY InsertLemma
        <3>5. \A i \in (k + 2)..(Len(timers) + 1) : r[i] = timers[i - 1]
            BY InsertLemma
        <3> QED BY <3>1, <3>2, <3>3, <3>4, <3>5
    <2> QED BY <1>3, <2>1
<1>6. timeout' \in [Timer -> Nat]
    BY <1>1, <1>2
<1>7. \A i \in 1..Len(timers) : timers[i] # t
    BY DEF Range
<1>8. Range(timers') = Range(timers) \cup {t}
    <2>1. ASSUME NEW x \in Range(timers') PROVE x \in Range(timers) \cup {t}
        <3>1. PICK i \in 1..Len(timers') : x = timers'[i]
            BY <2>1 DEF Range
        <3>2. CASE i <= k
            <4>0. i \in 1..k /\ i \in 1..Len(timers)
                BY <1>4, <1>5, <3>1, <3>2
            <4>1. i \in 1..Len(timers) /\ x = timers[i]
                BY <1>5, <3>1, <4>0
            <4> QED BY <4>1 DEF Range
        <3>3. CASE i = k + 1
            BY <1>5, <3>1, <3>3
        <3>4. CASE i >= k + 2
            <4>0. i \in (k + 2)..(Len(timers) + 1) /\ i - 1 \in 1..Len(timers)
                BY <1>4, <1>5, <3>1, <3>4
            <4>1. i - 1 \in 1..Len(timers) /\ x = timers[i - 1]
                BY <1>5, <3>1, <4>0
            <4> QED BY <4>1 DEF Range
        <3> QED BY <1>4, <1>5, <3>1, <3>2, <3>3, <3>4
    <2>2. ASSUME NEW x \in Range(timers) PROVE x \in Range(timers')
        <3>1. PICK i \in 1..Len(timers) : x = timers[i]
            BY <2>2 DEF Range
        <3>2. CASE i <= k
            <4>1. i \in 1..Len(timers') /\ x = timers'[i]
                BY <1>4, <1>5, <3>1, <3>2
            <4> QED BY <4>1 DEF Range
        <3>3. CASE i > k
            <4>1. /\ i + 1 \in 1..Len(timers') /\ (i + 1) - 1 = i
                  /\ i + 1 \in (k + 2)..(Len(timers) + 1)
                BY <1>4, <1>5, <3>1, <3>3
            <4>2. x = timers'[i + 1]
                BY <1>5, <3>1, <4>1
            <4> QED BY <4>1, <4>2 DEF Range
        <3> QED BY <1>4, <3>1, <3>2, <3>3
    <2>3. t \in Range(timers')
        <3>1. k + 1 \in 1..Len(timers')
            BY <1>4, <1>5
        <3>2. DOMAIN timers' = 1..Len(timers')
            BY <1>5, LenProperties
        <3> QED BY <1>5, <3>1, <3>2 DEF Range
    <2> QED BY <2>1, <2>2, <2>3
<1>9. TimersSorted'
    <2> DEFINE old(i) == timeout[timers[i]]
               new(i) == timeout'[timers'[i]]
               d == now + Delay[t]
    <2>1. \A i \in 1..Len(timers) : old(i) \in Nat /\ timeout'[timers[i]] = old(i)
        BY <1>2, <1>4, <1>7
    <2>2. \A i, j \in 1..Len(timers) : i < j => old(i) <= old(j)
        BY DEF TimersSorted
    <2>3. \A i \in 1..k : new(i) = old(i)
        <3> SUFFICES ASSUME NEW i \in 1..k PROVE new(i) = old(i)
            OBVIOUS
        <3>1. i \in 1..Len(timers) /\ timers'[i] = timers[i]
            BY <1>4, <1>5
        <3> QED BY <2>1, <3>1
    <2>4. new(k + 1) = d /\ d \in Nat
        BY <1>1, <1>2, <1>5
    <2>5. \A i \in (k + 2)..(Len(timers) + 1) : new(i) = old(i - 1)
        <3> SUFFICES ASSUME NEW i \in (k + 2)..(Len(timers) + 1) PROVE new(i) = old(i - 1)
            OBVIOUS
        <3>1. i - 1 \in 1..Len(timers) /\ timers'[i] = timers[i - 1]
            BY <1>4, <1>5
        <3> QED BY <2>1, <3>1
    <2>6. \A i \in 1..k : old(i) <= d
        BY <1>3, <1>4, <2>1, <2>4
    <2>7. \A i \in (k + 1)..Len(timers) : d <= old(i)
        <3>1. CASE k = Len(timers)
            BY <1>4, <3>1
        <3>2. CASE k < Len(timers)
            <4>1. d <= old(k + 1)
                BY <1>3, <1>4, <2>1, <2>4, <3>2
            <4> HIDE DEF d, old
            <4>2. ASSUME NEW i \in (k + 2)..Len(timers) PROVE d <= old(i)
                <5>1. i \in 1..Len(timers) /\ k + 1 \in 1..Len(timers) /\ k + 1 < i
                    BY <1>4
                <5>2. old(k + 1) <= old(i)
                    BY <2>2, <5>1
                <5> QED BY <2>1, <2>4, <4>1, <5>1, <5>2
            <4> QED BY <1>4, <4>1, <4>2
        <3> QED BY <1>4, <3>1, <3>2
    <2> HIDE DEF old, new, d
    <2>8. \A i, j \in 1..(Len(timers) + 1) : i < j => new(i) <= new(j)
        <3> SUFFICES ASSUME NEW i \in 1..(Len(timers) + 1), NEW j \in 1..(Len(timers) + 1), i < j
                     PROVE  new(i) <= new(j)
            OBVIOUS
        <3>1. CASE j <= k
            <4>1. i \in 1..k /\ j \in 1..k /\ i \in 1..Len(timers) /\ j \in 1..Len(timers)
                BY <1>4, <3>1
            <4> QED BY <2>2, <2>3, <4>1
        <3>2. CASE j = k + 1
            BY <1>4, <2>1, <2>3, <2>4, <2>6, <3>2
        <3>3. CASE j >= k + 2 /\ i <= k
            <4>1. /\ i \in 1..k /\ i \in 1..Len(timers) /\ i < j - 1
                  /\ j \in (k + 2)..(Len(timers) + 1) /\ j - 1 \in 1..Len(timers)
                BY <1>4, <3>3
            <4> QED BY <2>2, <2>3, <2>5, <4>1
        <3>4. CASE j >= k + 2 /\ i = k + 1
            BY <1>4, <2>1, <2>4, <2>5, <2>7, <3>4
        <3>5. CASE j >= k + 2 /\ i >= k + 2
            <4>1. /\ i \in (k + 2)..(Len(timers) + 1) /\ i - 1 \in 1..Len(timers)
                  /\ j \in (k + 2)..(Len(timers) + 1) /\ j - 1 \in 1..Len(timers)
                  /\ i - 1 < j - 1
                BY <1>4, <3>5
            <4> QED BY <2>2, <2>5, <4>1
        <3> QED BY <1>4, <3>1, <3>2, <3>3, <3>4, <3>5
    <2> QED BY <1>5, <2>8 DEF TimersSorted, new
<1> QED BY <1>5, <1>6, <1>8, <1>9

-----------------------------------------------------------------------------
(* Type correctness.                                                       *)

\* A prefix and the rest of a sequence, and a sequence after another.
LEMMA SplitLemma ==
    ASSUME NEW S, NEW s \in Seq(S), NEW k \in 0..Len(s)
    PROVE  SubSeq(s, 1, k) \in Seq(S) /\ SubSeq(s, k + 1, Len(s)) \in Seq(S)
<1>1. \A i \in 1..Len(s) : s[i] \in S
    BY ElementOfSeq
<1>2. Len(s) \in Nat /\ 1 \in Int /\ k \in Int /\ k + 1 \in Int /\ Len(s) \in Int
    BY LenProperties
<1>3. SubSeq(s, 1, k) \in Seq(S)
    <2>1. \A i \in 1..k : s[i] \in S
        BY <1>1, <1>2
    <2> QED BY <1>2, <2>1, SubSeqProperties
<1>4. SubSeq(s, k + 1, Len(s)) \in Seq(S)
    <2>1. \A i \in (k + 1)..Len(s) : s[i] \in S
        BY <1>1, <1>2
    <2> QED BY <1>2, <2>1, SubSeqProperties
<1> QED BY <1>3, <1>4

\* The types of the tables are the first part of TypeOK.
LEMMA TypeOKTables == TypeOK => TableTypes
BY DEF TypeOK, TableTypes

\* What processReadReadies puts on pending_list are events.
LEMMA ReadsLemma ==
    ASSUME TypeOK, TablesAgree, processReadReadies
    PROVE  pending' \in Seq(Event)
<1> DEFINE R == {e \in Watched : Fd[e] \in rfds}
<1>1. PICK k \in 0..MaxEvents : \E q \in [1..k -> R] : pending' = pending \o q
    BY DEF processReadReadies
<1>2. PICK q \in [1..k -> R] : pending' = pending \o q
    BY <1>1
<1>3. k \in Nat
    BY SizeAssumption
<1>4. q \in Seq(Event)
    <2>1. q \in Seq(R)
        BY <1>2, <1>3, SeqDef
    <2>2. \A i \in 1..k : q[i] \in Event
        BY <1>2 DEF Watched, Event
    <2> QED BY <1>2, <1>3, <2>2, SeqDef
<1> QED BY <1>2, <1>4, ConcatProperties DEF TypeOK

\* Type correctness is preserved by every step.
LEMMA TypeStep ==
    ASSUME TypeOK, TablesAgree, TimersSorted, WakeupWatched, [Next]_vars
    PROVE  TypeOK'
<1> USE DEF TypeOK
<1>0. TableTypes
    BY TypeOKTables
<1>1. ASSUME NEW th \in Thread, NEW e \in FdEvent, ThreadAddEvent(th, e) PROVE TypeOK'
    <2>1. ril_event_add(e) /\ index[e] = -1
        BY <1>1 DEF ThreadAddEvent, Inactive
    <2>2. TableTypes'
        BY <1>0, <2>1, AddLemma
    <2>3. tpc' \in [Thread -> {"run", "trigger"}]
        BY <1>1 DEF ThreadAddEvent
    <2> QED BY <1>1, <2>2, <2>3 DEF ThreadAddEvent, TableTypes, timerVars, selectVars
<1>2. ASSUME NEW th \in Thread, NEW t \in Timer, ThreadAddTimer(th, t) PROVE TypeOK'
    <2>1. ril_timer_add(t) /\ t \notin Range(timers)
        BY <1>2 DEF ThreadAddTimer, Inactive
    <2>2. timers' \in Seq(Timer) /\ timeout' \in [Timer -> Nat]
        BY <2>1, TimerLemma
    <2>3. tpc' \in [Thread -> {"run", "trigger"}]
        BY <1>2 DEF ThreadAddTimer
    <2> QED BY <1>2, <2>2, <2>3 DEF ThreadAddTimer, watchVars, selectVars
<1>3. ASSUME NEW th \in Thread, triggerEvLoop(th) PROVE TypeOK'
    BY <1>3 DEF triggerEvLoop, watchVars, timerVars, selectVars
<1>4. CASE CreatePipe
    BY <1>4 DEF CreatePipe, LoopPC, watchVars, timerVars, selectVars
<1>5. CASE AddWakeup
    <2> index[Wakeup] = -1
        BY <1>5, EventAssumption DEF AddWakeup, WakeupWatched, Watched
    <2>1. TableTypes'
        BY <1>0, <1>5, AddLemma, EventAssumption DEF AddWakeup
    <2> QED BY <1>5, <2>1 DEF AddWakeup, TableTypes, LoopPC, timerVars, selectVars
<1>6. CASE CopyFds
    BY <1>6 DEF CopyFds, LoopPC, watchVars, timerVars
<1>7. CASE calcNextTimeout
    <2>1. timers # <<>> => timeout[timers[1]] \in Nat
        <3> SUFFICES ASSUME timers # <<>> PROVE timeout[timers[1]] \in Nat
            OBVIOUS
        <3>1. Len(timers) \in Nat \ {0}
            BY EmptySeq
        <3>2. timers[1] \in Timer
            BY <3>1, ElementOfSeq
        <3> QED BY <3>2
    <2> QED BY <1>7, <2>1 DEF calcNextTimeout, LoopPC, watchVars, timerVars
<1>8. CASE SelectEnter
    BY <1>8 DEF SelectEnter, LoopPC, watchVars, timerVars
<1>9. CASE SelectReturn
    BY <1>9 DEF SelectReturn, Selected, LoopPC, watchVars, timerVars
<1>10. CASE SelectInterrupted
    BY <1>10 DEF SelectInterrupted, LoopPC, watchVars, timerVars, selectVars
<1>11. CASE processTimeouts
    <2>1. PICK k \in 0..Len(timers) : /\ pending' = pending \o SubSeq(timers, 1, k)
                                      /\ timers' = SubSeq(timers, k + 1, Len(timers))
        BY <1>11 DEF processTimeouts
    <2>2. SubSeq(timers, 1, k) \in Seq(Timer) /\ timers' \in Seq(Timer)
        BY <2>1, SplitLemma
    <2>3. SubSeq(timers, 1, k) \in Seq(Event)
        BY <2>2, SeqDef DEF Event
    <2>4. pending' \in Seq(Event)
        BY <2>1, <2>3, ConcatProperties
    <2> QED BY <1>11, <2>2, <2>4 DEF processTimeouts, LoopPC, watchVars, selectVars
<1>12. CASE processReadReadies
    <2> DEFINE R == {e \in Watched : Fd[e] \in rfds}
    <2>1. removeWatch(R \ Persistent) /\ R \ Persistent \in SUBSET Watched
        BY <1>12 DEF processReadReadies
    <2>2. TableTypes'
        BY <1>0, <2>1, RemoveLemma
    <2>3. pending' \in Seq(Event)
        BY <1>12, ReadsLemma
    <2> QED BY <1>12, <2>2, <2>3 DEF processReadReadies, TableTypes, LoopPC, timerVars, selectVars
<1>13. CASE FireFirst
    <2>1. pending' \in Seq(Event) /\ cur' \in Event
        BY <1>13, HeadTailProperties DEF FireFirst
    <2> QED BY <1>13, <2>1 DEF FireFirst, LoopPC, watchVars, timerVars, selectVars
<1>14. CASE FireDone
    BY <1>14 DEF FireDone, LoopPC, watchVars, timerVars, selectVars
<1>15. CASE CallbackReturn
    BY <1>15 DEF CallbackReturn, LoopPC, watchVars, timerVars, selectVars
<1>16. ASSUME NEW e \in FdEvent, CallbackAddEvent(e) PROVE TypeOK'
    <2>1. TableTypes'
        BY <1>0, <1>16, AddLemma DEF CallbackAddEvent, Inactive
    <2> QED BY <1>16, <2>1 DEF CallbackAddEvent, TableTypes, timerVars, selectVars
<1>17. ASSUME NEW t \in Timer, CallbackAddTimer(t) PROVE TypeOK'
    <2>1. timers' \in Seq(Timer) /\ timeout' \in [Timer -> Nat]
        BY <1>17, TimerLemma DEF CallbackAddTimer, Inactive
    <2> QED BY <1>17, <2>1 DEF CallbackAddTimer, watchVars, selectVars
<1>18. CASE ril_event_del
    <2>1. removeWatch({cur}) /\ {cur} \in SUBSET Watched
        BY <1>18 DEF ril_event_del, Watched
    <2>2. TableTypes'
        BY <1>0, <2>1, RemoveLemma
    <2> QED BY <1>18, <2>2 DEF ril_event_del, TableTypes, timerVars, selectVars
<1>19. ASSUME NEW e \in FdEvent, Input(e) PROVE TypeOK'
    BY <1>19 DEF Input, watchVars, timerVars, selectVars
<1>20. CASE Tick
    BY <1>20 DEF Tick, watchVars, timerVars, selectVars
<1>21. CASE UNCHANGED vars
    BY <1>21 DEF vars, watchVars, timerVars, selectVars
<1> QED
    BY <1>1, <1>2, <1>3, <1>4, <1>5, <1>6, <1>7, <1>8, <1>9, <1>10, <1>11, <1>12, <1>13,
       <1>14, <1>15, <1>16, <1>17, <1>18, <1>19, <1>20, <1>21
    DEF Next, LoopStep, CallbackStep, ThreadStep

-----------------------------------------------------------------------------
(* The other parts of the invariant.                                       *)

LEMMA QuietTables ==
    ASSUME TablesAgree, UNCHANGED watchVars
    PROVE  TablesAgree' /\ Watched' = Watched
BY DEF TablesAgree, watchVars, Watched, Fds

LEMMA QuietTimers ==
    ASSUME TimersSorted, UNCHANGED timerVars
    PROVE  TimersSorted'
BY DEF TimersSorted, timerVars

\* Outside the blocking part of the loop there is nothing to miss.
LEMMA NotBlocking ==
    ASSUME pc' \notin Blocking
    PROVE  NoLostWakeup'
BY DEF NoLostWakeup, Blocking

\* A thread that adds something is about to write to the pipe.
LEMMA TriggerPending ==
    ASSUME WakeupWatched, NEW th \in Thread, tpc'[th] = "trigger",
           UNCHANGED <<pc, pipe, rfds, limit>>
    PROVE  NoLostWakeup'
BY DEF NoLostWakeup, WakeupComing, WakeupWatched, Blocking

\* The invariant without its types is preserved by every step.
LEMMA InvStep ==
    ASSUME IInv, [Next]_vars
    PROVE  TablesAgree' /\ WakeupWatched' /\ TimersSorted' /\ NoLostWakeup'
<1> DEFINE Goal == TablesAgree' /\ WakeupWatched' /\ TimersSorted' /\ NoLostWakeup'
<1> USE DEF IInv
<1>0. TableTypes /\ Wakeup \in FdEvent
    BY TypeOKTables, EventAssumption
<1>1. ASSUME NEW th \in Thread, NEW e \in FdEvent, ThreadAddEvent(th, e) PROVE Goal
    <2>1. ril_event_add(e) /\ index[e] = -1 /\ e # Wakeup
        BY <1>1 DEF ThreadAddEvent, Inactive
    <2>2. TablesAgree' /\ Watched' = Watched \cup {e}
        BY <1>0, <2>1, AddLemma
    <2>3. WakeupWatched'
        BY <1>1, <2>1, <2>2 DEF ThreadAddEvent, WakeupWatched, selectVars
    <2>4. tpc'[th] = "trigger" /\ UNCHANGED <<pc, pipe, rfds, limit>>
        BY <1>1 DEF ThreadAddEvent, selectVars, TypeOK
    <2> QED BY <1>1, <2>2, <2>3, <2>4, TriggerPending, QuietTimers DEF ThreadAddEvent
<1>2. ASSUME NEW th \in Thread, NEW t \in Timer, ThreadAddTimer(th, t) PROVE Goal
    <2>1. ril_timer_add(t) /\ t \notin Range(timers)
        BY <1>2 DEF ThreadAddTimer, Inactive
    <2>2. TimersSorted'
        BY <2>1, TimerLemma DEF TypeOK
    <2>3. TablesAgree' /\ Watched' = Watched
        BY <1>2, QuietTables DEF ThreadAddTimer
    <2>4. WakeupWatched'
        BY <1>2, <2>3 DEF ThreadAddTimer, WakeupWatched, selectVars
    <2>5. tpc'[th] = "trigger" /\ UNCHANGED <<pc, pipe, rfds, limit>>
        BY <1>2 DEF ThreadAddTimer, selectVars, TypeOK
    <2> QED BY <2>2, <2>3, <2>4, <2>5, TriggerPending
<1>3. ASSUME NEW th \in Thread, triggerEvLoop(th) PROVE Goal
    <2>1. TablesAgree' /\ Watched' = Watched /\ TimersSorted'
        BY <1>3, QuietTables, QuietTimers DEF triggerEvLoop
    <2>2. WakeupWatched'
        BY <1>3, <2>1 DEF triggerEvLoop, WakeupWatched, selectVars
    <2>3. NoLostWakeup'
        <3>1. pc \in Blocking => pipe' = "full" /\ Fd[Wakeup] \in rfds'
            BY <1>3 DEF triggerEvLoop, WakeupWatched, Blocking, selectVars
        <3>2. pc \in Blocking => WakeupComing'
            BY <3>1 DEF WakeupComing
        <3>3. pc' = pc /\ limit' = limit /\ (pc = "select" => Fd[Wakeup] < limit)
            BY <1>3 DEF triggerEvLoop, WakeupWatched, selectVars
        <3> QED BY <3>2, <3>3 DEF NoLostWakeup, Blocking
    <2> QED BY <2>1, <2>2, <2>3
<1>4. CASE CreatePipe
    <2>1. TablesAgree' /\ Watched' = Watched /\ TimersSorted'
        BY <1>4, QuietTables, QuietTimers DEF CreatePipe
    <2>2. WakeupWatched' /\ pc' \notin Blocking
        BY <1>4, <2>1 DEF CreatePipe, WakeupWatched, Blocking
    <2> QED BY <2>1, <2>2, NotBlocking
<1>5. CASE AddWakeup
    <2>1. ril_event_add(Wakeup) /\ index[Wakeup] = -1
        BY <1>0, <1>5 DEF AddWakeup, WakeupWatched, Watched
    <2>2. TablesAgree' /\ Watched' = Watched \cup {Wakeup}
        BY <1>0, <2>1, AddLemma
    <2>3. WakeupWatched' /\ pc' \notin Blocking
        BY <1>5, <2>2 DEF AddWakeup, WakeupWatched, Blocking
    <2> QED BY <1>5, <2>2, <2>3, NotBlocking, QuietTimers DEF AddWakeup
<1>6. CASE CopyFds
    <2>1. TablesAgree' /\ Watched' = Watched /\ TimersSorted'
        BY <1>6, QuietTables, QuietTimers DEF CopyFds
    <2>2. \A e \in Watched' : Fd[e] \in rfds'
        BY <1>6, <2>1 DEF CopyFds, TablesAgree, Fds
    <2>3. WakeupWatched'
        BY <1>6, <2>1, <2>2 DEF CopyFds, WakeupWatched
    <2>4. NoLostWakeup'
        BY <1>6, <2>2 DEF CopyFds, NoLostWakeup
    <2> QED BY <2>1, <2>3, <2>4
<1>7. CASE calcNextTimeout
    <2>1. TablesAgree' /\ Watched' = Watched /\ TimersSorted'
        BY <1>7, QuietTables, QuietTimers DEF calcNextTimeout
    <2>2. WakeupWatched'
        BY <1>7, <2>1 DEF calcNextTimeout, WakeupWatched, Blocking
    <2>3. NoLostWakeup'
        <3>1. \A t \in Range(timers) : deadline' # -1 /\ deadline' <= timeout[t]
            <4> SUFFICES ASSUME NEW t \in Range(timers)
                         PROVE  deadline' # -1 /\ deadline' <= timeout[t]
                OBVIOUS
            <4>1. DOMAIN timers = 1..Len(timers) /\ Len(timers) \in Nat
                BY LenProperties DEF TypeOK
            <4>2. PICK i \in 1..Len(timers) : t = timers[i]
                BY <4>1 DEF Range
            <4>3. timers[1] \in Timer /\ timers[i] \in Timer
                BY <4>1, ElementOfSeq DEF TypeOK
            <4>4. timeout[timers[1]] <= timeout[timers[i]]
                <5>1. CASE i = 1
                    BY <4>3, <5>1 DEF TypeOK
                <5>2. CASE i # 1
                    <6>1. 1 \in 1..Len(timers) /\ 1 < i
                        BY <4>1, <5>2
                    <6> QED BY <6>1 DEF TimersSorted
                <5> QED BY <5>1, <5>2
            <4>5. deadline' = timeout[timers[1]]
                <5>1. timers # <<>>
                    BY <4>1
                <5> QED BY <1>7, <5>1 DEF calcNextTimeout
            <4>6. timeout[timers[1]] \in Nat
                BY <4>3 DEF TypeOK
            <4> QED BY <4>2, <4>4, <4>5, <4>6
        <3>2. /\ UNCHANGED <<timers, timeout, rfds, pipe, tpc>>
              /\ pc = "calc" /\ pc' = "enter"
            BY <1>7 DEF calcNextTimeout, timerVars
        <3> QED BY <2>1, <3>1, <3>2 DEF NoLostWakeup, WakeupComing
    <2> QED BY <2>1, <2>2, <2>3
<1>8. CASE SelectEnter
    <2>1. TablesAgree' /\ Watched' = Watched /\ TimersSorted'
        BY <1>8, QuietTables, QuietTimers DEF SelectEnter
    <2>2. \A e \in Watched' : Fd[e] < limit'
        BY <1>8, <2>1 DEF SelectEnter, TablesAgree
    <2>3. WakeupWatched'
        BY <1>8, <2>1, <2>2 DEF SelectEnter, WakeupWatched, Blocking
    <2>4. /\ UNCHANGED <<timers, timeout, rfds, pipe, tpc, deadline>>
          /\ pc = "enter" /\ pc' = "select"
        BY <1>8 DEF SelectEnter, timerVars
    <2>5. NoLostWakeup'
        BY <2>1, <2>2, <2>4 DEF NoLostWakeup, WakeupComing
    <2> QED BY <2>1, <2>3, <2>5
<1>9. CASE SelectReturn \/ SelectInterrupted \/ FireFirst \/ FireDone \/ CallbackReturn
    <2>1. TablesAgree' /\ Watched' = Watched /\ TimersSorted'
        BY <1>9, QuietTables, QuietTimers
        DEF SelectReturn, SelectInterrupted, FireFirst, FireDone, CallbackReturn
    <2>2. WakeupWatched' /\ pc' \notin Blocking
        BY <1>9, <2>1
        DEF SelectReturn, SelectInterrupted, FireFirst, FireDone, CallbackReturn, WakeupWatched, Blocking
    <2> QED BY <2>1, <2>2, NotBlocking
<1>10. CASE processTimeouts
    <2>1. TablesAgree' /\ Watched' = Watched
        BY <1>10, QuietTables DEF processTimeouts
    <2>2. WakeupWatched' /\ pc' \notin Blocking
        BY <1>10, <2>1 DEF processTimeouts, WakeupWatched, Blocking
    <2>3. TimersSorted'
        <3>1. PICK k \in 0..Len(timers) : timers' = SubSeq(timers, k + 1, Len(timers))
            BY <1>10 DEF processTimeouts
        <3>2. /\ Len(timers) \in Nat
              /\ \A i \in 1..Len(timers) : timers[i] \in Timer
            BY LenProperties, ElementOfSeq DEF TypeOK
        <3>3. /\ Len(timers') = IF k + 1 <= Len(timers) THEN Len(timers) - (k + 1) + 1 ELSE 0
              /\ \A i \in 1..(Len(timers) - (k + 1) + 1) : timers'[i] = timers[(k + 1) + i - 1]
            <4>1. \A i \in (k + 1)..Len(timers) : timers[i] \in Timer
                BY <3>2
            <4> QED BY <3>1, <3>2, <4>1, SubSeqProperties
        <3>4. ASSUME NEW i \in 1..Len(timers'), NEW j \in 1..Len(timers'), i < j
              PROVE  timeout'[timers'[i]] <= timeout'[timers'[j]]
            <4>1. /\ i \in 1..(Len(timers) - (k + 1) + 1) /\ j \in 1..(Len(timers) - (k + 1) + 1)
                  /\ (k + 1) + i - 1 \in 1..Len(timers) /\ (k + 1) + j - 1 \in 1..Len(timers)
                  /\ (k + 1) + i - 1 < (k + 1) + j - 1
                BY <3>2, <3>3, <3>4
            <4>2. timeout' = timeout
                BY <1>10 DEF processTimeouts
            <4> QED BY <3>3, <4>1, <4>2 DEF TimersSorted
        <3> QED BY <3>4 DEF TimersSorted
    <2> QED BY <2>1, <2>2, <2>3, NotBlocking
<1>11. CASE processReadReadies
    <2> DEFINE R == {e \in Watched : Fd[e] \in rfds}
    <2>1. removeWatch(R \ Persistent) /\ R \ Persistent \in SUBSET Watched
        BY <1>11 DEF processReadReadies
    <2>2. TablesAgree' /\ Watched' = Watched \ (R \ Persistent)
        BY <1>0, <2>1, RemoveLemma
    <2>3. WakeupWatched' /\ pc' \notin Blocking
        BY <1>11, <2>2, EventAssumption DEF processReadReadies, WakeupWatched, Blocking
    <2> QED BY <1>11, <2>2, <2>3, NotBlocking, QuietTimers DEF processReadReadies
<1>12. ASSUME NEW e \in FdEvent, CallbackAddEvent(e) PROVE Goal
    <2>1. ril_event_add(e) /\ index[e] = -1
        BY <1>12 DEF CallbackAddEvent, Inactive
    <2>2. TablesAgree' /\ Watched' = Watched \cup {e}
        BY <1>0, <2>1, AddLemma
    <2>3. WakeupWatched' /\ pc' \notin Blocking
        BY <1>12, <2>2 DEF CallbackAddEvent, WakeupWatched, Blocking, selectVars
    <2> QED BY <1>12, <2>2, <2>3, NotBlocking, QuietTimers DEF CallbackAddEvent
<1>13. ASSUME NEW t \in Timer, CallbackAddTimer(t) PROVE Goal
    <2>1. TimersSorted'
        BY <1>13, TimerLemma DEF CallbackAddTimer, Inactive, TypeOK
    <2>2. TablesAgree' /\ Watched' = Watched
        BY <1>13, QuietTables DEF CallbackAddTimer
    <2>3. WakeupWatched' /\ pc' \notin Blocking
        BY <1>13, <2>2 DEF CallbackAddTimer, WakeupWatched, Blocking, selectVars
    <2> QED BY <2>1, <2>2, <2>3, NotBlocking
<1>14. CASE ril_event_del
    <2>1. removeWatch({cur}) /\ {cur} \in SUBSET Watched /\ cur # Wakeup
        BY <1>14 DEF ril_event_del, Watched
    <2>2. TablesAgree' /\ Watched' = Watched \ {cur}
        BY <1>0, <2>1, RemoveLemma
    <2>3. WakeupWatched' /\ pc' \notin Blocking
        BY <1>14, <2>1, <2>2 DEF ril_event_del, WakeupWatched, Blocking, selectVars
    <2> QED BY <1>14, <2>2, <2>3, NotBlocking, QuietTimers DEF ril_event_del
<1>15. CASE (\E e \in FdEvent : Input(e)) \/ Tick \/ UNCHANGED vars
    <2>1. UNCHANGED <<watchVars, timerVars, pipe, pc, selectVars, tpc>>
        BY <1>15 DEF Input, Tick, vars, watchVars, timerVars, selectVars
    <2>2. TablesAgree' /\ Watched' = Watched /\ TimersSorted'
        BY <2>1, QuietTables, QuietTimers
    <2>3. WakeupWatched'
        BY <2>1, <2>2 DEF WakeupWatched, selectVars
    <2>4. NoLostWakeup'
        BY <2>1, <2>2 DEF NoLostWakeup, WakeupComing, selectVars, timerVars
    <2> QED BY <2>2, <2>3, <2>4
<1> QED
    BY <1>1, <1>2, <1>3, <1>4, <1>5, <1>6, <1>7, <1>8, <1>9, <1>10, <1>11, <1>12, <1>13,
       <1>14, <1>15
    DEF Next, LoopStep, CallbackStep, ThreadStep

-----------------------------------------------------------------------------
(* The theorems.                                                           *)

LEMMA InitInv == Init => IInv
<1> SUFFICES ASSUME Init PROVE IInv
    OBVIOUS
<1> USE DEF Init
<1>1. TypeOK
    BY EmptySeq, SizeAssumption DEF TypeOK, LoopPC, Event
<1>2. Watched = {}
    BY DEF Watched
<1>3. TablesAgree
    BY <1>2 DEF TablesAgree, Fds
<1>4. WakeupWatched
    BY <1>2 DEF WakeupWatched, Blocking
<1>5. TimersSorted
    BY DEF TimersSorted
<1>6. NoLostWakeup
    BY DEF NoLostWakeup
<1> QED BY <1>1, <1>3, <1>4, <1>5, <1>6 DEF IInv

\* The inductive invariant.
THEOREM Inductive == Spec => []IInv
<1>1. IInv /\ [Next]_vars => IInv'
    BY TypeStep, InvStep DEF IInv
<1> QED BY InitInv, <1>1, PTL DEF Spec

\* Every variable of the event loop keeps its type.
THEOREM TypeCorrect == Spec => []TypeOK
<1>1. IInv => TypeOK
    BY DEF IInv
<1> QED BY Inductive, <1>1, PTL

\* watch_table, the events' index fields, readFds and nfds agree after every
\* ril_event_add and removeWatch, whatever order threads make them in.
THEOREM TablesAlwaysAgree == Spec => []TablesAgree
<1>1. IInv => TablesAgree
    BY DEF IInv
<1> QED BY Inductive, <1>1, PTL

\* ril_event_add never drops an event, as long as there are no more events than
\* slots.
THEOREM NeverDropped == Spec => []AlwaysRoom
<1>1. IInv => AlwaysRoom
    BY TypeOKTables, RoomLemma DEF IInv
<1> QED BY Inductive, <1>1, PTL

\* The loop never blocks on an old view of its tables without a wakeup coming,
\* although ril_event_loop reads them without listMutex.
THEOREM WakeupNeverLost == Spec => []NoLostWakeup
<1>1. IInv => NoLostWakeup
    BY DEF IInv
<1> QED BY Inductive, <1>1, PTL

-----------------------------------------------------------------------------
(* The lists of events.                                                    *)

\* A list that names nothing twice.
Once(s) == \A i, j \in 1..Len(s) : s[i] = s[j] => i = j

\* The loop has taken no event yet.
BeforeTaking == {"pipe", "addWakeup", "copy", "calc", "enter", "select", "timeouts"}

\* Each list names an event once, the event whose callback runs is on none, and
\* pending_list is empty while the loop looks for events.
Lists ==
    /\ Once(timers) /\ Once(pending)
    /\ pc \in BeforeTaking => pending = <<>>
    /\ pc = "reads" => Range(pending) \subseteq Timer
    /\ pc = "callback" <=> cur # NoEvent
    /\ cur \notin Range(pending)

\* The timers on pending_list have expired.
Expired == \A t \in Timer : t \in Range(pending) => timeout[t] < now

\* Every element of a sequence is in its range, and nothing else.
LEMMA RangeLemma ==
    ASSUME NEW S, NEW s \in Seq(S)
    PROVE  /\ Len(s) \in Nat
           /\ \A i \in 1..Len(s) : s[i] \in Range(s) /\ s[i] \in S
           /\ \A x \in Range(s) : \E i \in 1..Len(s) : x = s[i]
<1>1. Len(s) \in Nat /\ DOMAIN s = 1..Len(s)
    BY LenProperties
<1> QED BY <1>1, ElementOfSeq DEF Range

LEMMA ConcatLemma ==
    ASSUME NEW S, NEW a \in Seq(S), NEW b \in Seq(S)
    PROVE  /\ Range(a \o b) = Range(a) \cup Range(b)
           /\ Once(a) /\ Once(b) /\ Range(a) \cap Range(b) = {} => Once(a \o b)
<1> DEFINE ab == a \o b
<1>1. /\ ab \in Seq(S) /\ Len(ab) = Len(a) + Len(b)
      /\ \A i \in 1..(Len(a) + Len(b)) : ab[i] = IF i <= Len(a) THEN a[i] ELSE b[i - Len(a)]
    BY ConcatProperties
<1> HIDE DEF ab
<1>2. Len(a) \in Nat /\ Len(b) \in Nat
    BY LenProperties
<1>3. \A i \in 1..Len(ab) : \/ i \in 1..Len(a) /\ ab[i] = a[i]
                            \/ i - Len(a) \in 1..Len(b) /\ ab[i] = b[i - Len(a)]
    BY <1>1, <1>2
<1>4. /\ \A i \in 1..Len(a) : i \in 1..Len(ab) /\ ab[i] = a[i]
      /\ \A i \in 1..Len(b) : i + Len(a) \in 1..Len(ab) /\ ab[i + Len(a)] = b[i]
    <2>1. \A i \in 1..Len(a) : i \in 1..(Len(a) + Len(b)) /\ i <= Len(a)
        BY <1>2
    <2>2. \A i \in 1..Len(b) : /\ i + Len(a) \in 1..(Len(a) + Len(b))
                              /\ ~(i + Len(a) <= Len(a)) /\ (i + Len(a)) - Len(a) = i
        BY <1>2
    <2>3. \A i \in 1..Len(a) : i \in 1..Len(ab) /\ ab[i] = a[i]
        BY <1>1, <2>1
    <2>4. ASSUME NEW i \in 1..Len(b) PROVE i + Len(a) \in 1..Len(ab) /\ ab[i + Len(a)] = b[i]
        BY <1>1, <2>2
    <2> QED BY <2>3, <2>4
<1>5. Range(ab) = Range(a) \cup Range(b)
    <2>1. ASSUME NEW x \in Range(ab) PROVE x \in Range(a) \cup Range(b)
        <3>1. PICK i \in 1..Len(ab) : x = ab[i]
            BY <1>1, RangeLemma
        <3> QED BY <1>3, <3>1, RangeLemma
    <2>2. ASSUME NEW x \in Range(a) \cup Range(b) PROVE x \in Range(ab)
        <3>1. CASE x \in Range(a)
            <4>1. PICK i \in 1..Len(a) : x = a[i]
                BY <3>1, RangeLemma
            <4> QED BY <1>1, <1>4, <4>1, RangeLemma
        <3>2. CASE x \in Range(b)
            <4>1. PICK i \in 1..Len(b) : x = b[i]
                BY <3>2, RangeLemma
            <4> QED BY <1>1, <1>4, <4>1, RangeLemma
        <3> QED BY <2>2, <3>1, <3>2
    <2> QED BY <2>1, <2>2
<1>6. ASSUME Once(a), Once(b), Range(a) \cap Range(b) = {} PROVE Once(ab)
    <2> SUFFICES ASSUME NEW i \in 1..Len(ab), NEW j \in 1..Len(ab), ab[i] = ab[j] PROVE i = j
        BY DEF Once
    <2>1. /\ \A k \in 1..Len(a) : a[k] \in Range(a)
          /\ \A k \in 1..Len(b) : b[k] \in Range(b)
        BY RangeLemma
    <2>2. CASE i \in 1..Len(a) /\ ab[i] = a[i]
        <3>1. j \in 1..Len(a) /\ ab[j] = a[j]
            BY <1>3, <1>6, <2>1, <2>2
        <3> QED BY <1>6, <2>2, <3>1 DEF Once
    <2>3. CASE i - Len(a) \in 1..Len(b) /\ ab[i] = b[i - Len(a)]
        <3>1. j - Len(a) \in 1..Len(b) /\ ab[j] = b[j - Len(a)]
            BY <1>3, <1>6, <2>1, <2>3
        <3>2. i - Len(a) = j - Len(a)
            BY <1>6, <2>3, <3>1 DEF Once
        <3> QED BY <1>1, <1>2, <3>2
    <2> QED BY <1>3, <2>2, <2>3
<1> QED BY <1>5, <1>6 DEF ab

\* A list cut after its first k elements.
LEMMA CutLemma ==
    ASSUME NEW S, NEW s \in Seq(S), NEW k \in 0..Len(s), Once(s)
    PROVE  LET a == SubSeq(s, 1, k)
               b == SubSeq(s, k + 1, Len(s))
           IN  /\ Once(a) /\ Once(b)
               /\ Range(a) \subseteq Range(s) /\ Range(b) = Range(s) \ Range(a)
               /\ \A x \in Range(a) : \E i \in 1..k : x = s[i]
<1> DEFINE a == SubSeq(s, 1, k)
           b == SubSeq(s, k + 1, Len(s))
<1>1. Len(s) \in Nat /\ k \in Nat /\ \A i \in 1..Len(s) : s[i] \in S /\ s[i] \in Range(s)
    BY RangeLemma
<1>2. a \in Seq(S) /\ Len(a) = k /\ \A i \in 1..k : a[i] = s[i]
    <2>1. 1 \in Int /\ k \in Int /\ \A i \in 1..k : s[i] \in S
        BY <1>1
    <2> HIDE DEF a
    <2>2. /\ a \in Seq(S) /\ Len(a) = (IF 1 <= k THEN k - 1 + 1 ELSE 0)
          /\ \A i \in 1..(k - 1 + 1) : a[i] = s[1 + i - 1]
        BY <2>1, SubSeqProperties DEF a
    <2> QED BY <1>1, <2>2
<1>3. /\ b \in Seq(S) /\ Len(b) = Len(s) - k
      /\ \A i \in 1..(Len(s) - k) : b[i] = s[k + i]
    <2>1. k + 1 \in Int /\ Len(s) \in Int /\ \A i \in (k + 1)..Len(s) : s[i] \in S
        BY <1>1
    <2> HIDE DEF b
    <2>2. /\ b \in Seq(S) /\ Len(b) = (IF k + 1 <= Len(s) THEN Len(s) - (k + 1) + 1 ELSE 0)
          /\ \A i \in 1..(Len(s) - (k + 1) + 1) : b[i] = s[(k + 1) + i - 1]
        BY <2>1, SubSeqProperties DEF b
    <2>3. \A i \in 1..(Len(s) - k) : b[i] = s[k + i]
        <3> SUFFICES ASSUME NEW i \in 1..(Len(s) - k) PROVE b[i] = s[k + i]
            OBVIOUS
        <3>1. i \in 1..(Len(s) - (k + 1) + 1) /\ (k + 1) + i - 1 = k + i
            BY <1>1
        <3> QED BY <2>2, <3>1
    <2> QED BY <1>1, <2>2, <2>3
<1> HIDE DEF a, b
<1>4. Once(a)
    <2>1. \A i \in 1..k : i \in 1..Len(s)
        BY <1>1
    <2> QED BY <1>2, <2>1 DEF Once
<1>5. Once(b)
    <2> SUFFICES ASSUME NEW i \in 1..Len(b), NEW j \in 1..Len(b), b[i] = b[j] PROVE i = j
        BY DEF Once
    <2>1. k + i \in 1..Len(s) /\ k + j \in 1..Len(s) /\ s[k + i] = s[k + j]
        BY <1>1, <1>3
    <2>2. k + i = k + j
        BY <2>1 DEF Once
    <2> QED BY <1>1, <1>3, <2>2
<1>6. \A x \in Range(a) : \E i \in 1..k : x = s[i]
    BY <1>2, RangeLemma
<1>7. Range(a) \subseteq Range(s)
    <2>1. \A i \in 1..k : i \in 1..Len(s)
        BY <1>1
    <2> QED BY <1>1, <1>6, <2>1
<1>8. Range(b) = Range(s) \ Range(a)
    <2>1. ASSUME NEW x \in Range(b) PROVE x \in Range(s) \ Range(a)
        <3>1. PICK i \in 1..Len(b) : x = b[i]
            BY <1>3, RangeLemma
        <3>2. k + i \in 1..Len(s) /\ x = s[k + i]
            BY <1>1, <1>3, <3>1
        <3>3. ASSUME x \in Range(a) PROVE FALSE
            <4>1. PICK j \in 1..k : x = s[j]
                BY <1>6, <3>3
            <4>2. j \in 1..Len(s) /\ k + i # j
                BY <1>1, <1>3
            <4> QED BY <3>2, <4>1, <4>2 DEF Once
        <3> QED BY <1>1, <3>2, <3>3
    <2>2. ASSUME NEW x \in Range(s), x \notin Range(a) PROVE x \in Range(b)
        <3>1. PICK i \in 1..Len(s) : x = s[i]
            BY RangeLemma
        <3>2. i \notin 1..k
            BY <1>2, <2>2, <3>1, RangeLemma
        <3>3. i - k \in 1..(Len(s) - k) /\ k + (i - k) = i
            BY <1>1, <3>2
        <3>4. i - k \in 1..Len(b) /\ b[i - k] = x
            BY <1>3, <3>1, <3>3
        <3> QED BY <1>3, <3>4, RangeLemma
    <2> QED BY <2>1, <2>2
<1> QED BY <1>4, <1>5, <1>6, <1>7, <1>8 DEF a, b

\* A list without its head.
LEMMA HeadLemma ==
    ASSUME NEW S, NEW s \in Seq(S), s # <<>>, Once(s)
    PROVE  /\ Tail(s) \in Seq(S) /\ Once(Tail(s))
           /\ Head(s) \in Range(s) /\ Range(Tail(s)) = Range(s) \ {Head(s)}
<1> DEFINE t == Tail(s)
           h == Head(s)
<1>1. /\ t \in Seq(S) /\ Len(t) = Len(s) - 1 /\ \A i \in 1..Len(t) : t[i] = s[i + 1]
      /\ h = s[1] /\ Len(s) \in Nat /\ Len(s) >= 1
    BY HeadTailProperties, EmptySeq, LenProperties
<1> HIDE DEF t, h
<1>2. \A i \in 1..Len(t) : i + 1 \in 1..Len(s) /\ i + 1 # 1
    BY <1>1
<1>3. 1 \in 1..Len(s)
    BY <1>1
<1>4. h \in Range(s)
    BY <1>1, <1>3, RangeLemma
<1>5. Once(t)
    <2> SUFFICES ASSUME NEW i \in 1..Len(t), NEW j \in 1..Len(t), t[i] = t[j] PROVE i = j
        BY DEF Once
    <2>1. i + 1 = j + 1
        BY <1>1, <1>2 DEF Once
    <2> QED BY <2>1
<1>6. Range(t) = Range(s) \ {h}
    <2>1. ASSUME NEW x \in Range(t) PROVE x \in Range(s) \ {h}
        <3>1. PICK i \in 1..Len(t) : x = t[i]
            BY <1>1, RangeLemma
        <3>2. i + 1 \in 1..Len(s) /\ x = s[i + 1] /\ i + 1 # 1
            BY <1>1, <1>2, <3>1
        <3>3. s[i + 1] # s[1]
            BY <1>3, <3>2 DEF Once
        <3> QED BY <1>1, <3>2, <3>3, RangeLemma
    <2>2. ASSUME NEW x \in Range(s), x # h PROVE x \in Range(t)
        <3>1. PICK i \in 1..Len(s) : x = s[i]
            BY RangeLemma
        <3>2. i # 1
            BY <1>1, <2>2, <3>1
        <3>3. i - 1 \in 1..Len(t) /\ (i - 1) + 1 = i
            BY <1>1, <3>2
        <3>4. x = t[i - 1]
            BY <1>1, <3>1, <3>3
        <3>5. \A k \in 1..Len(t) : t[k] \in Range(t)
            BY <1>1, RangeLemma
        <3> QED BY <3>3, <3>4, <3>5
    <2> QED BY <2>1, <2>2
<1> QED BY <1>1, <1>4, <1>5, <1>6 DEF t, h

\* ril_timer_add does not link a timer twice.
LEMMA TimerOnce ==
    ASSUME timers \in Seq(Timer), Once(timers),
           NEW t \in Timer, t \notin Range(timers), ril_timer_add(t)
    PROVE  Once(timers')
<1>1. PICK k \in 0..Len(timers) : timers' = InsertAt(timers, k + 1, t)
    BY DEF ril_timer_add
<1> DEFINE r == InsertAt(timers, k + 1, t)
<1>2. Len(r) = Len(timers) + 1
    BY InsertLemma
<1>3. \A i \in 1..k : r[i] = timers[i]
    BY InsertLemma
<1>4. r[k + 1] = t
    BY InsertLemma
<1>5. \A i \in (k + 2)..(Len(timers) + 1) : r[i] = timers[i - 1]
    BY InsertLemma
<1> HIDE DEF r
<1>6. Len(timers) \in Nat /\ k \in Nat /\ \A i \in 1..Len(timers) : timers[i] # t
    BY RangeLemma
<1>7. \A i \in 1..Len(r) : \/ i <= k /\ i \in 1..Len(timers) /\ r[i] = timers[i]
                           \/ i = k + 1 /\ r[i] = t
                           \/ i > k + 1 /\ i - 1 \in 1..Len(timers) /\ r[i] = timers[i - 1]
    <2> SUFFICES ASSUME NEW i \in 1..Len(r)
                 PROVE  \/ i <= k /\ i \in 1..Len(timers) /\ r[i] = timers[i]
                        \/ i = k + 1 /\ r[i] = t
                        \/ i > k + 1 /\ i - 1 \in 1..Len(timers) /\ r[i] = timers[i - 1]
        OBVIOUS
    <2>1. \/ i \in 1..k /\ i <= k /\ i \in 1..Len(timers)
          \/ i = k + 1
          \/ i \in (k + 2)..(Len(timers) + 1) /\ i > k + 1 /\ i - 1 \in 1..Len(timers)
        BY <1>2, <1>6
    <2> QED BY <1>3, <1>4, <1>5, <2>1
<1>8. ASSUME NEW i \in 1..Len(r), NEW j \in 1..Len(r), r[i] = r[j] PROVE i = j
    <2>1. CASE i <= k /\ i \in 1..Len(timers) /\ r[i] = timers[i]
        <3>1. CASE j <= k /\ j \in 1..Len(timers) /\ r[j] = timers[j]
            BY <1>8, <2>1, <3>1 DEF Once
        <3>2. CASE j > k + 1 /\ j - 1 \in 1..Len(timers) /\ r[j] = timers[j - 1]
            <4>1. i = j - 1
                BY <1>8, <2>1, <3>2 DEF Once
            <4> QED BY <1>6, <2>1, <3>2, <4>1
        <3> QED BY <1>6, <1>7, <1>8, <2>1, <3>1, <3>2
    <2>2. CASE i > k + 1 /\ i - 1 \in 1..Len(timers) /\ r[i] = timers[i - 1]
        <3>1. CASE j <= k /\ j \in 1..Len(timers) /\ r[j] = timers[j]
            <4>1. j = i - 1
                BY <1>8, <2>2, <3>1 DEF Once
            <4> QED BY <1>6, <2>2, <3>1, <4>1
        <3>2. CASE j > k + 1 /\ j - 1 \in 1..Len(timers) /\ r[j] = timers[j - 1]
            <4>1. i - 1 = j - 1
                BY <1>8, <2>2, <3>2 DEF Once
            <4> QED BY <1>2, <1>6, <4>1
        <3> QED BY <1>6, <1>7, <1>8, <2>2, <3>1, <3>2
    <2>3. CASE i = k + 1 /\ r[i] = t
        BY <1>6, <1>7, <1>8, <2>3
    <2> QED BY <1>7, <2>1, <2>2, <2>3
<1> QED BY <1>1, <1>8 DEF Once, r

-----------------------------------------------------------------------------
(* The lists, step by step.                                                *)

\* The readable events, in the order of their slots, name none twice.
LEMMA SlotOrderLemma ==
    ASSUME NEW R, NEW k \in Nat, NEW q \in [1..k -> R], InSlotOrder(q, R),
           \A e \in R : index[e] \in Int
    PROVE  q \in Seq(R) /\ Once(q) /\ Range(q) = R
<1>1. q \in Seq(R) /\ Len(q) = k
    BY SeqDef
<1>2. \A i \in 1..Len(q) : q[i] \in R
    BY <1>1
<1>3. \A i, j \in 1..Len(q) : i < j => index[q[i]] < index[q[j]]
    BY DEF InSlotOrder
<1>4. ASSUME NEW i \in 1..Len(q), NEW j \in 1..Len(q), i < j PROVE q[i] # q[j]
    <2>1. index[q[i]] < index[q[j]] /\ index[q[i]] \in Int
        BY <1>2, <1>3, <1>4
    <2> QED BY <2>1
<1>5. Once(q)
    <2> SUFFICES ASSUME NEW i \in 1..Len(q), NEW j \in 1..Len(q), i # j PROVE q[i] # q[j]
        BY DEF Once
    <2>1. i < j \/ j < i
        BY <1>1
    <2> QED BY <1>4, <2>1
<1> QED BY <1>1, <1>5 DEF InSlotOrder

LEMMA EventFacts ==
    /\ FdEvent \subseteq Event /\ Timer \subseteq Event
    /\ FdEvent \cap Timer = {} /\ NoEvent \notin Event /\ Watched \subseteq FdEvent
BY EventAssumption DEF Event, Watched

LEMMA ListsTypes ==
    ASSUME TypeOK
    PROVE  /\ timers \in Seq(Timer) /\ pending \in Seq(Event)
           /\ Range(timers) \subseteq Timer /\ Range(pending) \subseteq Event
<1>1. timers \in Seq(Timer) /\ pending \in Seq(Event)
    BY DEF TypeOK
<1>2. \A x \in Range(timers) : x \in Timer
    BY <1>1, RangeLemma
<1>3. \A x \in Range(pending) : x \in Event
    BY <1>1, RangeLemma
<1> QED BY <1>1, <1>2, <1>3

LEMMA EmptyLists == Range(<<>>) = {} /\ Once(<<>>)
<1> DEFINE e == << >>
<1>1. e \in Seq({}) /\ Len(e) = 0
    BY EmptySeq
<1> HIDE DEF e
<1>2. \A i \in 1..Len(e) : FALSE
    BY <1>1
<1>3. Range(e) = {} /\ Once(e)
    BY <1>1, <1>2, RangeLemma DEF Once
<1> QED BY <1>3 DEF e

\* What processTimeouts takes off timer_list.
LEMMA TimeoutsLemma ==
    ASSUME IInv, Lists, processTimeouts
    PROVE  \E E \in SUBSET Range(timers) :
             /\ Range(pending') = E /\ Range(timers') = Range(timers) \ E
             /\ Once(timers') /\ Once(pending')
             /\ \A t \in E : timeout[t] < now
<1>1. PICK k \in 0..Len(timers) :
         /\ \A i \in 1..k : timeout[timers[i]] < now
         /\ pending' = pending \o SubSeq(timers, 1, k)
         /\ timers' = SubSeq(timers, k + 1, Len(timers))
    BY DEF processTimeouts
<1> DEFINE a == SubSeq(timers, 1, k)
           b == SubSeq(timers, k + 1, Len(timers))
<1>2. timers \in Seq(Timer) /\ Once(timers)
    BY ListsTypes DEF IInv, Lists
<1>3. /\ Once(a) /\ Once(b) /\ Range(a) \subseteq Range(timers)
      /\ Range(b) = Range(timers) \ Range(a)
      /\ \A x \in Range(a) : \E i \in 1..k : x = timers[i]
    BY <1>2, CutLemma
<1>4. a \in Seq(Timer)
    BY <1>2, SplitLemma
<1> HIDE DEF a, b
<1>5. pending = << >>
    BY DEF processTimeouts, Lists, BeforeTaking
<1>6. pending' = a
    <2>1. << >> \o a = a
        BY <1>4, ConcatEmptySeq
    <2>2. pending' = pending \o a
        BY <1>1 DEF a
    <2> QED BY <1>5, <2>1, <2>2
<1>7. timers' = b
    BY <1>1 DEF b
<1>8. \A t \in Range(a) : timeout[t] < now
    BY <1>1, <1>3
<1> QED BY <1>3, <1>6, <1>7, <1>8

\* What processReadReadies appends to pending_list.
LEMMA ReadiesLemma ==
    ASSUME IInv, Lists, processReadReadies
    PROVE  \E R \in SUBSET Watched :
             /\ Range(pending') = Range(pending) \cup R /\ Once(pending')
             /\ Watched' = Watched \ (R \ Persistent)
<1> DEFINE R == {e \in Watched : Fd[e] \in rfds}
<1>1. R \in SUBSET Watched /\ removeWatch(R \ Persistent)
    BY DEF processReadReadies
<1>2. PICK k \in 0..MaxEvents : \E q \in [1..k -> R] :
         InSlotOrder(q, R) /\ pending' = pending \o q
    BY DEF processReadReadies
<1>3. PICK q \in [1..k -> R] : InSlotOrder(q, R) /\ pending' = pending \o q
    BY <1>2
<1> HIDE DEF R
<1>4. k \in Nat
    BY SizeAssumption
<1>5. \A e \in R : index[e] \in Int
    <2>1. index \in [FdEvent -> Slot \cup {-1}] /\ R \subseteq FdEvent
        BY <1>1 DEF Watched, IInv, TypeOK
    <2>2. \A s \in Slot \cup {-1} : s \in Int
        BY SlotFacts
    <2> QED BY <2>1, <2>2
<1>6. q \in Seq(R) /\ Once(q) /\ Range(q) = R
    BY <1>3, <1>4, <1>5, SlotOrderLemma
<1>7. R \subseteq Event /\ R \cap Timer = {}
    BY <1>1, EventFacts
<1>8. q \in Seq(Event)
    <2>1. q \in [1..k -> Event]
        BY <1>7
    <2> QED BY <1>4, <2>1, SeqDef
<1>9. pending \in Seq(Event) /\ Once(pending) /\ Range(pending) \subseteq Timer
    BY ListsTypes DEF IInv, Lists, processReadReadies
<1>10. Range(pending') = Range(pending) \cup R /\ Once(pending')
    BY <1>3, <1>6, <1>7, <1>8, <1>9, ConcatLemma
<1>11. Watched' = Watched \ (R \ Persistent)
    BY <1>1, TypeOKTables, RemoveLemma DEF IInv
<1> QED BY <1>1, <1>10, <1>11

LEMMA FireLemma ==
    ASSUME IInv, Lists, FireFirst
    PROVE  /\ cur' \in Range(pending) /\ Range(pending') = Range(pending) \ {cur'}
           /\ Once(pending') /\ cur' \in Event
BY HeadLemma, ListsTypes DEF IInv, Lists, FireFirst

\* Each step keeps the lists in order.
LEMMA ListsStep ==
    ASSUME IInv, Lists, [Next]_vars
    PROVE  Lists'
<1>0. timers \in Seq(Timer) /\ Range(timers) \subseteq Timer /\ Once(timers)
    BY ListsTypes DEF IInv, Lists
<1>1. ASSUME UNCHANGED <<timers, pending, cur>>, pc' \in BeforeTaking <=> pc \in BeforeTaking,
             pc' = "reads" => pc = "reads", pc' = "callback" <=> pc = "callback"
      PROVE  Lists'
    BY <1>1 DEF Lists
<1>2. ASSUME NEW t \in Timer, t \notin Range(timers), ril_timer_add(t),
             UNCHANGED <<pending, cur, pc>>
      PROVE  Lists'
    BY <1>0, <1>2, TimerOnce DEF Lists
<1>3. ASSUME NEW th \in Thread, ThreadStep(th) PROVE Lists'
    <2>1. ASSUME NEW e \in FdEvent, ThreadAddEvent(th, e) PROVE Lists'
        BY <1>1, <2>1 DEF ThreadAddEvent, timerVars
    <2>2. ASSUME NEW t \in Timer, ThreadAddTimer(th, t) PROVE Lists'
        BY <1>2, <2>2 DEF ThreadAddTimer, Inactive
    <2>3. CASE triggerEvLoop(th)
        BY <1>1, <2>3 DEF triggerEvLoop, timerVars
    <2> QED BY <1>3, <2>1, <2>2, <2>3 DEF ThreadStep
<1>4. CASE CallbackStep
    <2>1. ASSUME NEW e \in FdEvent, CallbackAddEvent(e) PROVE Lists'
        BY <1>1, <2>1 DEF CallbackAddEvent, timerVars
    <2>2. ASSUME NEW t \in Timer, CallbackAddTimer(t) PROVE Lists'
        BY <1>2, <2>2 DEF CallbackAddTimer, Inactive
    <2>3. CASE ril_event_del
        BY <1>1, <2>3 DEF ril_event_del, timerVars
    <2> QED BY <1>4, <2>1, <2>2, <2>3 DEF CallbackStep
<1>5. CASE CreatePipe \/ AddWakeup \/ CopyFds \/ calcNextTimeout \/ SelectEnter
           \/ SelectReturn \/ SelectInterrupted
    BY <1>1, <1>5 DEF CreatePipe, AddWakeup, CopyFds, calcNextTimeout, SelectEnter,
         SelectReturn, SelectInterrupted, timerVars, BeforeTaking
<1>6. CASE processTimeouts
    <2>1. Once(timers') /\ Once(pending') /\ Range(pending') \subseteq Timer
        BY <1>0, <1>6, TimeoutsLemma
    <2>2. pc = "timeouts" /\ pc' = "reads" /\ UNCHANGED cur
        BY <1>6 DEF processTimeouts
    <2>3. cur' = NoEvent
        BY <2>2 DEF Lists
    <2> QED BY <2>1, <2>2, <2>3, EventFacts DEF Lists, BeforeTaking
<1>7. CASE processReadReadies
    <2>1. Once(pending') /\ Range(pending') \subseteq Event
        <3>1. Range(pending) \subseteq Event
            BY ListsTypes DEF IInv
        <3> QED BY <1>7, <3>1, ReadiesLemma, EventFacts
    <2>2. pc = "reads" /\ pc' = "fire" /\ UNCHANGED <<cur, timers>>
        BY <1>7 DEF processReadReadies, timerVars
    <2>3. cur' = NoEvent
        BY <2>2 DEF Lists
    <2> QED BY <2>1, <2>2, <2>3, EventFacts DEF Lists, BeforeTaking
<1>8. CASE FireFirst
    <2>1. pc' = "callback" /\ UNCHANGED timers
        BY <1>8 DEF FireFirst, timerVars
    <2> QED BY <1>8, <2>1, FireLemma, EventFacts DEF Lists, BeforeTaking
<1>9. CASE CallbackReturn
    <2>1. pc' = "fire" /\ cur' = NoEvent /\ UNCHANGED <<timers, pending>>
        BY <1>9 DEF CallbackReturn, timerVars
    <2>2. NoEvent \notin Range(pending)
        BY ListsTypes, EventFacts DEF IInv
    <2> QED BY <2>1, <2>2 DEF Lists, BeforeTaking
<1>10. CASE FireDone
    BY <1>10 DEF FireDone, timerVars, Lists
<1>11. CASE (\E e \in FdEvent : Input(e)) \/ Tick \/ UNCHANGED vars
    BY <1>1, <1>11 DEF Input, Tick, vars, timerVars
<1> QED
    BY <1>3, <1>4, <1>5, <1>6, <1>7, <1>8, <1>9, <1>10, <1>11 DEF Next, LoopStep

LEMMA InitLists == Init => Lists
BY EmptyLists DEF Init, Lists, BeforeTaking

\* pending_list and timer_list hold every event once.
LEMMA AlwaysLists == Spec => []Lists
<1>1. IInv /\ Lists /\ [Next]_vars => Lists'
    BY ListsStep
<1> QED BY Inductive, InitLists, <1>1, PTL DEF Spec

-----------------------------------------------------------------------------
(* Timers are not early.                                                   *)

LEMMA ExpiredStep ==
    ASSUME IInv, Lists, Expired, [Next]_vars
    PROVE  Expired'
<1>0. /\ now \in Nat /\ timeout \in [Timer -> Nat] /\ Range(timers) \subseteq Timer
      /\ Range(pending) \subseteq Event
    BY ListsTypes DEF IInv, TypeOK
<1>1. ASSUME UNCHANGED timeout, now' \in Nat, now <= now',
             Range(pending') \cap Timer \subseteq Range(pending)
      PROVE  Expired'
    <2> SUFFICES ASSUME NEW t \in Timer, t \in Range(pending') PROVE timeout'[t] < now'
        BY DEF Expired
    <2>1. timeout[t] < now /\ timeout'[t] = timeout[t] /\ timeout[t] \in Nat
        BY <1>0, <1>1 DEF Expired
    <2> QED BY <1>0, <1>1, <2>1
<1>2. ASSUME NEW t \in Timer, Inactive(t), ril_timer_add(t), UNCHANGED <<pending, now>>
      PROVE  Expired'
    <2>1. t \notin Range(pending)
        BY <1>2 DEF Inactive
    <2>2. timeout' = [timeout EXCEPT ![t] = now + Delay[t]]
        BY <1>2 DEF ril_timer_add
    <2>3. ASSUME NEW u \in Timer, u \in Range(pending) PROVE timeout'[u] < now'
        BY <1>0, <1>2, <2>1, <2>2, <2>3 DEF Expired
    <2> QED BY <1>2, <2>3 DEF Expired
<1>3. ASSUME NEW th \in Thread, ThreadStep(th) PROVE Expired'
    <2>1. ASSUME NEW t \in Timer, ThreadAddTimer(th, t) PROVE Expired'
        BY <1>2, <2>1 DEF ThreadAddTimer
    <2>2. CASE \E e \in FdEvent : ThreadAddEvent(th, e)
        <3>1. UNCHANGED <<timeout, now, pending>>
            BY <2>2 DEF ThreadAddEvent, timerVars
        <3> QED BY <1>0, <1>1, <3>1
    <2>3. CASE triggerEvLoop(th)
        <3>1. UNCHANGED <<timeout, now, pending>>
            BY <2>3 DEF triggerEvLoop, timerVars
        <3> QED BY <1>0, <1>1, <3>1
    <2> QED BY <1>3, <2>1, <2>2, <2>3 DEF ThreadStep
<1>4. CASE CallbackStep
    <2>1. ASSUME NEW t \in Timer, CallbackAddTimer(t) PROVE Expired'
        BY <1>2, <2>1 DEF CallbackAddTimer
    <2>2. CASE (\E e \in FdEvent : CallbackAddEvent(e)) \/ ril_event_del
        <3>1. UNCHANGED <<timeout, now, pending>>
            BY <2>2 DEF CallbackAddEvent, ril_event_del, timerVars
        <3> QED BY <1>0, <1>1, <3>1
    <2> QED BY <1>4, <2>1, <2>2 DEF CallbackStep
<1>5. CASE CreatePipe \/ AddWakeup \/ CopyFds \/ calcNextTimeout \/ SelectEnter
           \/ SelectReturn \/ SelectInterrupted \/ CallbackReturn \/ FireDone
    <2>1. UNCHANGED <<timeout, now, pending>>
        BY <1>5 DEF CreatePipe, AddWakeup, CopyFds, calcNextTimeout, SelectEnter,
             SelectReturn, SelectInterrupted, CallbackReturn, FireDone, timerVars
    <2> QED BY <1>0, <1>1, <2>1
<1>6. CASE processTimeouts
    <2>1. UNCHANGED <<timeout, now>>
        BY <1>6 DEF processTimeouts
    <2>2. \A t \in Range(pending') : timeout[t] < now
        BY <1>6, TimeoutsLemma
    <2> QED BY <2>1, <2>2 DEF Expired
<1>7. CASE processReadReadies
    <2>1. UNCHANGED <<timeout, now>>
        BY <1>7 DEF processReadReadies, timerVars
    <2>2. Range(pending') \cap Timer \subseteq Range(pending)
        BY <1>7, ReadiesLemma, EventFacts
    <2> QED BY <1>0, <1>1, <2>1, <2>2
<1>8. CASE FireFirst
    <2>1. UNCHANGED <<timeout, now>>
        BY <1>8 DEF FireFirst, timerVars
    <2> QED BY <1>0, <1>1, <1>8, <2>1, FireLemma
<1>9. CASE Tick
    <2>1. UNCHANGED <<timeout, pending>> /\ now' = now + 1
        BY <1>9 DEF Tick, timerVars
    <2> QED BY <1>0, <1>1, <2>1
<1>10. CASE (\E e \in FdEvent : Input(e)) \/ UNCHANGED vars
    <2>1. UNCHANGED <<timeout, now, pending>>
        BY <1>10 DEF Input, vars, timerVars
    <2> QED BY <1>0, <1>1, <2>1
<1> QED
    BY <1>3, <1>4, <1>5, <1>6, <1>7, <1>8, <1>9, <1>10 DEF Next, LoopStep

\* A callback begins in FireFirst only.
LEMMA CurStep ==
    ASSUME [Next]_vars, cur' # cur
    PROVE  FireFirst \/ CallbackReturn
BY DEF Next, LoopStep, CallbackStep, ThreadStep, ThreadAddEvent, ThreadAddTimer, triggerEvLoop,
       CallbackAddEvent, CallbackAddTimer, ril_event_del, CreatePipe, AddWakeup, CopyFds,
       calcNextTimeout, SelectEnter, SelectReturn, SelectInterrupted, processTimeouts,
       processReadReadies, FireDone, Input, Tick, vars

\* processTimeouts, firePending: no timer is called before its time has passed,
\* whenever and by whomever it was added, and however late select returns.
THEOREM TimersNeverEarly == Spec => NeverEarly
<1>1. IInv /\ Lists /\ Expired /\ [Next]_vars => Expired'
    BY ExpiredStep
<1>2. Init => Expired
    BY EmptyLists DEF Init, Expired
<1>3. IInv /\ Lists /\ Expired /\ [Next]_vars =>
        [\A t \in Timer : cur # t /\ cur' = t => timeout[t] < now]_vars
    <2> SUFFICES ASSUME IInv, Lists, Expired, [Next]_vars, NEW t \in Timer, cur # t, cur' = t
                 PROVE  timeout[t] < now
        OBVIOUS
    <2>1. CASE FireFirst
        BY <2>1, FireLemma DEF Expired
    <2>2. CASE CallbackReturn
        BY <2>2, EventFacts DEF CallbackReturn
    <2> QED BY <2>1, <2>2, CurStep
<1> QED BY Inductive, AlwaysLists, <1>1, <1>2, <1>3, PTL DEF Spec, NeverEarly

-----------------------------------------------------------------------------
(* The event loop implements RilLoop.                                      *)

LEMMA LoopInit == Init => Loop!Init
<1> SUFFICES ASSUME Init PROVE Loop!Init
    OBVIOUS
<1>1. Watched = {}
    BY DEF Init, Watched
<1> QED BY <1>1, EmptyLists DEF Init, Loop!Init

\* Steps that leave what RilLoop sees alone.
LEMMA LoopStutter ==
    ASSUME UNCHANGED <<watchVars, timers, pending, cur>>
    PROVE  UNCHANGED Loop!vars
BY DEF Loop!vars, watchVars, Watched

\* Whoever adds an event arms it.
LEMMA LoopArmEvent ==
    ASSUME IInv, NEW e \in FdEvent, ril_event_add(e), index[e] = -1, e \notin Range(pending),
           UNCHANGED <<timers, pending, cur>>
    PROVE  Loop!Next
<1>1. Watched' = Watched \cup {e}
    BY AddLemma, TypeOKTables DEF IInv
<1>2. e \notin Watched \cup Range(timers)
    BY EventFacts, ListsTypes DEF IInv, Watched
<1>3. Loop!Arm(e)
    BY <1>1, <1>2 DEF Loop!Arm
<1> QED BY <1>3 DEF Loop!Next

LEMMA LoopArmTimer ==
    ASSUME IInv, NEW t \in Timer, ril_timer_add(t), Inactive(t),
           UNCHANGED <<watchVars, pending, cur>>
    PROVE  Loop!Next
<1>1. t \notin Range(timers) /\ t \notin Range(pending)
    BY DEF Inactive
<1>2. Range(timers') = Range(timers) \cup {t}
    BY <1>1, TimerLemma DEF IInv, TypeOK
<1>3. t \notin Watched /\ Watched' = Watched
    BY EventFacts DEF watchVars, Watched
<1>4. Loop!Arm(t)
    BY <1>1, <1>2, <1>3 DEF Loop!Arm
<1> QED BY <1>4 DEF Loop!Next

LEMMA LoopTimeouts ==
    ASSUME IInv, Lists, processTimeouts
    PROVE  Loop!Next
<1>1. PICK E \in SUBSET Range(timers) :
         Range(pending') = E /\ Range(timers') = Range(timers) \ E
    BY TimeoutsLemma
<1>2. E \subseteq Timer /\ E \cap Watched = {}
    BY EventFacts, ListsTypes DEF IInv
<1>3. Watched' = Watched /\ UNCHANGED cur
    BY DEF processTimeouts, watchVars, Watched
<1>4. cur = NoEvent /\ Range(pending) = {}
    BY EmptyLists DEF processTimeouts, Lists, BeforeTaking
<1>5. Loop!TakeTimers(E)
    BY <1>1, <1>2, <1>3, <1>4 DEF Loop!TakeTimers
<1>6. E \in SUBSET (Watched \cup Range(timers))
    BY <1>1
<1> QED BY <1>5, <1>6 DEF Loop!Next

LEMMA LoopReadies ==
    ASSUME IInv, Lists, processReadReadies
    PROVE  Loop!Next
<1>1. PICK R \in SUBSET Watched :
         Range(pending') = Range(pending) \cup R /\ Watched' = Watched \ (R \ Persistent)
    BY ReadiesLemma
<1>2. R \subseteq FdEvent /\ R \cap Range(timers) = {}
    BY <1>1, EventFacts, ListsTypes DEF IInv
<1>3. UNCHANGED <<timers, cur>>
    BY DEF processReadReadies, timerVars
<1>4. cur = NoEvent /\ Range(pending) \subseteq Timer
    BY DEF processReadReadies, Lists
<1>5. Loop!TakeInputs(R)
    BY <1>1, <1>2, <1>3, <1>4 DEF Loop!TakeInputs
<1>6. R \in SUBSET (Watched \cup Range(timers))
    BY <1>1
<1> QED BY <1>5, <1>6 DEF Loop!Next

LEMMA LoopFire ==
    ASSUME IInv, Lists, FireFirst
    PROVE  Loop!Next
<1>1. cur' \in Range(pending) /\ Range(pending') = Range(pending) \ {cur'} /\ cur' \in Event
    BY FireLemma
<1>2. cur = NoEvent
    BY DEF FireFirst, Lists
<1>3. UNCHANGED timers /\ Watched' = Watched
    BY DEF FireFirst, timerVars, watchVars, Watched
<1>4. Loop!Call(cur')
    BY <1>1, <1>2, <1>3 DEF Loop!Call
<1> QED BY <1>1, <1>4 DEF Loop!Next, Event

LEMMA LoopReturn ==
    ASSUME Lists, CallbackReturn
    PROVE  Loop!Next
<1>1. cur # NoEvent /\ cur' = NoEvent
    BY DEF CallbackReturn, Lists
<1>2. UNCHANGED <<timers, pending>> /\ Watched' = Watched
    BY DEF CallbackReturn, timerVars, watchVars, Watched
<1> QED BY <1>1, <1>2 DEF Loop!Next, Loop!Return

LEMMA LoopDisarm ==
    ASSUME IInv, ril_event_del
    PROVE  Loop!Next
<1>1. removeWatch({cur}) /\ cur \in Watched /\ UNCHANGED <<timers, pending, cur>>
    BY DEF ril_event_del, Watched, timerVars
<1>2. Watched' = Watched \ {cur}
    BY <1>1, RemoveLemma, TypeOKTables DEF IInv
<1>3. cur \notin Range(timers)
    BY <1>1, EventFacts, ListsTypes DEF IInv
<1>4. Loop!Disarm
    BY <1>1, <1>2, <1>3 DEF Loop!Disarm
<1> QED BY <1>4 DEF Loop!Next

\* Every step of the event loop is one of RilLoop, or none.
LEMMA LoopSteps ==
    ASSUME IInv, Lists, [Next]_vars
    PROVE  Loop!Next \/ UNCHANGED Loop!vars
<1>1. ASSUME NEW th \in Thread, ThreadStep(th) PROVE Loop!Next \/ UNCHANGED Loop!vars
    <2>1. ASSUME NEW e \in FdEvent, ThreadAddEvent(th, e) PROVE Loop!Next
        BY <2>1, LoopArmEvent DEF ThreadAddEvent, Inactive, timerVars
    <2>2. ASSUME NEW t \in Timer, ThreadAddTimer(th, t) PROVE Loop!Next
        BY <2>2, LoopArmTimer DEF ThreadAddTimer
    <2>3. CASE triggerEvLoop(th)
        BY <2>3, LoopStutter DEF triggerEvLoop, timerVars
    <2> QED BY <1>1, <2>1, <2>2, <2>3 DEF ThreadStep
<1>2. CASE CallbackStep
    <2>1. ASSUME NEW e \in FdEvent, CallbackAddEvent(e) PROVE Loop!Next
        <3>1. index[e] = -1 /\ e \notin Range(pending)
            BY <2>1 DEF CallbackAddEvent, Inactive, Lists
        <3> QED BY <2>1, <3>1, LoopArmEvent DEF CallbackAddEvent, timerVars
    <2>2. ASSUME NEW t \in Timer, CallbackAddTimer(t) PROVE Loop!Next
        BY <2>2, LoopArmTimer DEF CallbackAddTimer
    <2> QED BY <1>2, <2>1, <2>2, LoopDisarm DEF CallbackStep
<1>3. CASE AddWakeup
    <2>1. index[Wakeup] = -1 /\ Wakeup \in FdEvent
        BY <1>3, EventAssumption DEF AddWakeup, IInv, WakeupWatched, Watched
    <2>2. Range(pending) = {}
        BY <1>3, EmptyLists DEF AddWakeup, Lists, BeforeTaking
    <2> QED BY <1>3, <2>1, <2>2, LoopArmEvent DEF AddWakeup, timerVars
<1>4. CASE CreatePipe \/ CopyFds \/ calcNextTimeout \/ SelectEnter \/ SelectReturn
           \/ SelectInterrupted \/ FireDone
    BY <1>4, LoopStutter DEF CreatePipe, CopyFds, calcNextTimeout, SelectEnter, SelectReturn,
         SelectInterrupted, FireDone, timerVars
<1>5. CASE (\E e \in FdEvent : Input(e)) \/ Tick \/ UNCHANGED vars
    BY <1>5, LoopStutter DEF Input, Tick, vars, timerVars
<1> QED
    BY <1>1, <1>2, <1>3, <1>4, <1>5, LoopTimeouts, LoopReadies, LoopFire, LoopReturn
    DEF Next, LoopStep

\* The tables, the wakeup pipe and select of ril_event.cpp implement RilLoop: each
\* arming of an event that is not persistent gives at most one call, whatever was
\* taken is called exactly once before the tables are looked at again, and nothing
\* is called that nobody armed.
THEOREM LoopImplemented == Spec => CallsWhatWasArmed
<1>1. IInv /\ Lists /\ [Next]_vars => [Loop!Next]_(Loop!vars)
    BY LoopSteps
<1> QED BY Inductive, AlwaysLists, LoopInit, <1>1, PTL DEF Spec, Loop!Spec, CallsWhatWasArmed

=============================================================================
