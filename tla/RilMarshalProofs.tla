--------------------------- MODULE RilMarshalProofs ---------------------------
(***************************************************************************)
(* Proofs about the state ril.cpp shares between its threads without a     *)
(* lock, for every set of threads, radio states, requests and answers, and *)
(* every bound.                                                            *)
(*                                                                         *)
(* TechTold and DnsCountBounded are inductive once they say which thread   *)
(* is going to put right what does not hold yet: whoever has stored a      *)
(* value goes on to send what is stored then, and whoever has stored too   *)
(* high a count tests what it has stored, or what is stored by then.       *)
(* AutomaticSelected needs to know where the last RADIO_POWER request is,  *)
(* and that its block is one dispatchInts passes on.                       *)
(***************************************************************************)
EXTENDS RilMarshal, RilDispatchProofs

Key == {"tech", "source", "sim"}

\* Where a thread works on a decoded value, and on a list of data calls.
Decoding == {"compare", "store", "notify", "decode", "answer"}
Counting == {"dns", "dnsstore", "dnstest", "dnsreset"}
Label == Decoding \cup Counting \cup {"idle", "power", "respond"}

\* What the threads hold, and the types of what they share.
Held ==
    /\ pc \in [Thread -> Label]
    /\ arg = [t \in Thread |-> arg[t]]
    /\ \A t \in Thread : pc[t] \in Decoding =>
         arg[t] = [k |-> arg[t].k, s |-> arg[t].s] /\ arg[t].k \in Key
    /\ \A t \in Thread : pc[t] \in Counting =>
         /\ arg[t] = [l |-> arg[t].l, done |-> arg[t].done, n |-> arg[t].n]
         /\ arg[t].n \in Nat
    /\ \A t \in VThread : pc[t] \notin {"decode", "answer", "power"}
    /\ pc[Dispatch] \notin Counting
    /\ decoded = [k \in Key |-> decoded[k]]
    /\ told = [k \in Key |-> told[k]]
    /\ n_dns_failures \in Nat

\* A value the client has not been told is on its way.
OnItsWay ==
    \A k \in Key :
        decoded[k] = Unknown \/ decoded[k] \in told[k]
            \/ \E t \in Thread : pc[t] \in {"notify", "answer"} /\ arg[t].k = k

\* Too high a count is about to be seen, or reset.
AboutToReset ==
    n_dns_failures >= MAX_DNS_FAILURES =>
        \E t \in VThread : \/ pc[t] = "dnstest" /\ arg[t].n >= MAX_DNS_FAILURES
                           \/ pc[t] = "dnsreset"

MInv == Held /\ OnItsWay /\ AboutToReset

-----------------------------------------------------------------------------
(* Moves.                                                                  *)

\* Thread t goes to l with a, and what it then holds.
Move(t, l, a) == pc' = [pc EXCEPT ![t] = l] /\ arg' = [arg EXCEPT ![t] = a]

Shape(t, l, a) ==
    /\ l \in Label
    /\ l \in Decoding => a = [k |-> a.k, s |-> a.s] /\ a.k \in Key
    /\ l \in Counting => /\ t \in VThread
                         /\ a = [l |-> a.l, done |-> a.done, n |-> a.n] /\ a.n \in Nat
    /\ t \in VThread => l \notin {"decode", "answer", "power"}

LEMMA BeginMoves ==
    ASSUME NEW t, NEW l, NEW a, Begin(t, l, a)
    PROVE  pc[t] = "idle" /\ Move(t, l, a)
BY DEF Begin, Move

LEMMA ContinueMoves ==
    ASSUME NEW t, NEW l, NEW a, Continue(t, l, a)
    PROVE  /\ l # "idle" => Move(t, l, a)
           /\ l = "idle" => Move(t, l, <<>>)
BY DEF Continue, Goto, Move

LEMMA IdleShape ==
    ASSUME NEW t, NEW l \in {"idle", "respond"}, NEW a
    PROVE  Shape(t, l, a)
BY DEF Shape, Label, Decoding, Counting

LEMMA CountingShape ==
    ASSUME NEW t \in VThread, NEW l \in Counting, NEW a,
           a = [l |-> a.l, done |-> a.done, n |-> a.n], a.n \in Nat
    PROVE  Shape(t, l, a)
BY DEF Shape, Label, Decoding, Counting

LEMMA MoveEffect ==
    ASSUME Held, NEW t \in Thread, NEW l \in Label, NEW a, Move(t, l, a)
    PROVE  /\ pc' \in [Thread -> Label] /\ arg' = [u \in Thread |-> arg'[u]]
           /\ pc'[t] = l /\ arg'[t] = a
           /\ \A u \in Thread : u # t => pc'[u] = pc[u] /\ arg'[u] = arg[u]
BY DEF Held, Move

LEMMA HeldMove ==
    ASSUME Held, NEW t \in Thread, NEW l, NEW a, Shape(t, l, a), Move(t, l, a),
           decoded' = [k \in Key |-> decoded'[k]], told' = [k \in Key |-> told'[k]],
           n_dns_failures' \in Nat
    PROVE  Held'
<1>1. l \in Label
    BY DEF Shape
<1>2. Dispatch \in Thread /\ VThread \subseteq Thread /\ Dispatch \notin VThread
    BY MarshalAssumption DEF Thread
<1> QED BY <1>1, <1>2, MoveEffect DEF Held, Shape

\* A thread that is not about to tell anything leaves the others to.
LEMMA TechMove ==
    ASSUME Held, OnItsWay, NEW t \in Thread, NEW l, NEW a, Shape(t, l, a), Move(t, l, a),
           UNCHANGED <<decoded, told>>, pc[t] \notin {"notify", "answer"}
    PROVE  OnItsWay'
<1>1. l \in Label
    BY DEF Shape
<1> QED BY <1>1, MoveEffect DEF OnItsWay

LEMMA CountMove ==
    ASSUME Held, AboutToReset, NEW t \in Thread, NEW l, NEW a, Shape(t, l, a), Move(t, l, a),
           UNCHANGED n_dns_failures, pc[t] \notin {"dnstest", "dnsreset"}
    PROVE  AboutToReset'
<1>1. l \in Label /\ VThread \subseteq Thread
    BY DEF Shape, Thread
<1> QED BY <1>1, MoveEffect DEF AboutToReset

LEMMA QuietMove ==
    ASSUME MInv, NEW t \in Thread, NEW l, NEW a, Shape(t, l, a), Move(t, l, a),
           UNCHANGED <<decoded, told, n_dns_failures>>,
           pc[t] \notin {"notify", "answer", "dnstest", "dnsreset"}
    PROVE  MInv'
<1>1. Held /\ OnItsWay /\ AboutToReset
    BY DEF MInv
<1>2. Held'
    <2> decoded' = [k \in Key |-> decoded'[k]] /\ told' = [k \in Key |-> told'[k]]
        BY <1>1 DEF Held
    <2> n_dns_failures' \in Nat
        BY <1>1 DEF Held
    <2> QED BY <1>1, HeldMove
<1>3. OnItsWay'
    BY <1>1, TechMove
<1>4. AboutToReset'
    BY <1>1, CountMove
<1> QED BY <1>2, <1>3, <1>4 DEF MInv

\* Nor does anything change that a call leaves alone.
LEMMA StillMInv ==
    ASSUME MInv, UNCHANGED <<pc, arg, decoded, told, n_dns_failures>>
    PROVE  MInv'
BY DEF MInv, Held, OnItsWay, AboutToReset

LEMMA InitMInv == Init => MInv
<1> SUFFICES ASSUME Init PROVE MInv
    OBVIOUS
<1>1. Held
    BY DEF Init, Held, Label, Decoding, Counting, Thread, Key
<1>2. OnItsWay /\ AboutToReset
    BY DEF Init, OnItsWay, AboutToReset, Key, MAX_DNS_FAILURES
<1> QED BY <1>1, <1>2 DEF MInv

-----------------------------------------------------------------------------
(* The decoded radio state.                                                *)

LEMMA FollowingKey ==
    ASSUME NEW k \in Key, NEW s
    PROVE  Following(k, s) \in Key \cup {"done"}
BY DEF Following, Key

LEMMA StepMoves ==
    ASSUME NEW t \in Thread, NEW k \in Key \cup {"done"}, NEW s, Step(t, k, s)
    PROVE  \E l, a : Shape(t, l, a) /\ Move(t, l, a) /\ l \in {"idle", "compare"}
<1>1. CASE k = "done"
    BY <1>1, ContinueMoves, IdleShape DEF Step
<1>2. CASE k # "done"
    <2>1. Move(t, "compare", [k |-> k, s |-> s])
        BY <1>2, ContinueMoves DEF Step
    <2>2. Shape(t, "compare", [k |-> k, s |-> s])
        BY <1>2 DEF Shape, Label, Decoding, Counting
    <2> QED BY <2>1, <2>2
<1> QED BY <1>1, <1>2

LEMMA ReportMInv ==
    ASSUME MInv, NEW t \in Thread, Report(t)
    PROVE  MInv'
<1>1. /\ pc[t] = "idle" /\ UNCHANGED <<decoded, told, n_dns_failures>>
      /\ Move(t, "compare", [k |-> "tech", s |-> radioState])
    BY BeginMoves DEF Report, radioVars
<1>2. Shape(t, "compare", [k |-> "tech", s |-> radioState])
    BY DEF Shape, Label, Decoding, Counting, Key
<1> QED BY <1>1, <1>2, QuietMove

LEMMA CompareMInv ==
    ASSUME MInv, NEW t \in Thread, Compare(t)
    PROVE  MInv'
<1>1. /\ pc[t] = "compare" /\ UNCHANGED <<decoded, told, n_dns_failures>>
      /\ \/ Continue(t, "store", arg[t])
         \/ Step(t, Following(arg[t].k, arg[t].s), arg[t].s)
    BY DEF Compare, radioVars
<1>2. arg[t] = [k |-> arg[t].k, s |-> arg[t].s] /\ arg[t].k \in Key
    BY <1>1 DEF MInv, Held, Decoding
<1>3. CASE Continue(t, "store", arg[t])
    <2>1. Move(t, "store", arg[t])
        BY <1>3, ContinueMoves
    <2>2. Shape(t, "store", arg[t])
        BY <1>2 DEF Shape, Label, Decoding, Counting
    <2> QED BY <1>1, <2>1, <2>2, QuietMove
<1>4. CASE Step(t, Following(arg[t].k, arg[t].s), arg[t].s)
    <2>1. PICK l, a : Shape(t, l, a) /\ Move(t, l, a)
        BY <1>2, <1>4, FollowingKey, StepMoves
    <2> QED BY <1>1, <2>1, QuietMove
<1> QED BY <1>1, <1>3, <1>4

\* What Store leaves: the other values, and what was told of a value stored again.
LEMMA StoreEffect ==
    ASSUME Held, NEW k \in Key, NEW v, Store(k, v)
    PROVE  /\ decoded' = [i \in Key |-> decoded'[i]] /\ told' = [i \in Key |-> told'[i]]
           /\ decoded'[k] = v
           /\ \A i \in Key : i # k => decoded'[i] = decoded[i] /\ told'[i] = told[i]
BY DEF Held, Store

LEMMA TellEffect ==
    ASSUME Held, NEW k \in Key, Tell(k)
    PROVE  /\ told' = [i \in Key |-> told'[i]]
           /\ decoded[k] \in told'[k]
           /\ \A i \in Key : i # k => told'[i] = told[i]
BY DEF Held, Tell

LEMMA StoreNewMInv ==
    ASSUME MInv, NEW t \in Thread, StoreNew(t)
    PROVE  MInv'
<1>1. /\ pc[t] = "store" /\ UNCHANGED n_dns_failures
      /\ Continue(t, "notify", arg[t])
      /\ Store(arg[t].k, Decode(arg[t].k, arg[t].s))
    BY DEF StoreNew
<1> DEFINE k == arg[t].k
           v == Decode(k, arg[t].s)
<1>2. /\ Held /\ OnItsWay /\ AboutToReset
      /\ arg[t] = [k |-> k, s |-> arg[t].s] /\ k \in Key
    BY <1>1 DEF MInv, Held, Decoding
<1>3. Move(t, "notify", arg[t]) /\ Shape(t, "notify", arg[t])
    BY <1>1, <1>2, ContinueMoves DEF Shape, Label, Decoding, Counting
<1>4. /\ decoded' = [i \in Key |-> decoded'[i]] /\ told' = [i \in Key |-> told'[i]]
      /\ \A i \in Key : i # k => decoded'[i] = decoded[i] /\ told'[i] = told[i]
    <2> HIDE DEF v
    <2>1. Store(k, v)
        BY <1>1 DEF v
    <2> QED BY <1>2, <2>1, StoreEffect
<1>5. Held'
    <2>1. n_dns_failures' \in Nat
        BY <1>1, <1>2 DEF Held
    <2> QED BY <1>2, <1>3, <1>4, <2>1, HeldMove
<1>6. OnItsWay'
    <2> SUFFICES ASSUME NEW i \in Key
                 PROVE  decoded'[i] = Unknown \/ decoded'[i] \in told'[i]
                            \/ \E u \in Thread : pc'[u] \in {"notify", "answer"} /\ arg'[u].k = i
        BY DEF OnItsWay
    <2>1. /\ pc'[t] = "notify" /\ arg'[t] = arg[t]
          /\ \A u \in Thread : u # t => pc'[u] = pc[u] /\ arg'[u] = arg[u]
        BY <1>2, <1>3, MoveEffect DEF Shape
    <2>2. CASE i = k
        BY <2>1, <2>2
    <2>3. CASE i # k
        BY <1>1, <1>2, <1>4, <2>1, <2>3 DEF OnItsWay
    <2> QED BY <2>2, <2>3
<1>7. AboutToReset'
    BY <1>1, <1>2, <1>3, CountMove
<1> QED BY <1>5, <1>6, <1>7 DEF MInv

\* Whoever tells a value tells the one that is stored.
LEMMA TellMInv ==
    ASSUME MInv, NEW t \in Thread, pc[t] \in {"notify", "answer"}, Tell(arg[t].k),
           UNCHANGED <<decoded, n_dns_failures>>,
           NEW l, NEW a, Shape(t, l, a), Move(t, l, a)
    PROVE  MInv'
<1> DEFINE k == arg[t].k
<1>1. Held /\ OnItsWay /\ AboutToReset /\ k \in Key
    BY DEF MInv, Held, Decoding
<1>2. /\ told' = [i \in Key |-> told'[i]] /\ decoded[k] \in told'[k]
      /\ \A i \in Key : i # k => told'[i] = told[i]
    BY <1>1, TellEffect
<1>3. Held'
    <2>1. decoded' = [i \in Key |-> decoded'[i]] /\ n_dns_failures' \in Nat
        BY <1>1 DEF Held
    <2> QED BY <1>1, <1>2, <2>1, HeldMove
<1>4. OnItsWay'
    <2>1. \A u \in Thread : u # t => pc'[u] = pc[u] /\ arg'[u] = arg[u]
        BY <1>1, MoveEffect DEF Shape
    <2> QED BY <1>1, <1>2, <2>1 DEF OnItsWay
<1>5. AboutToReset'
    BY <1>1, CountMove
<1> QED BY <1>3, <1>4, <1>5 DEF MInv

LEMMA NotifyMInv ==
    ASSUME MInv, NEW t \in Thread, Notify(t)
    PROVE  MInv'
<1>1. /\ pc[t] = "notify" /\ UNCHANGED <<decoded, n_dns_failures>>
      /\ Tell(arg[t].k)
      /\ Step(t, Following(arg[t].k, arg[t].s), arg[t].s)
    BY DEF Notify
<1>2. arg[t].k \in Key
    BY <1>1 DEF MInv, Held, Decoding
<1>3. PICK l, a : Shape(t, l, a) /\ Move(t, l, a)
    BY <1>1, <1>2, FollowingKey, StepMoves
<1> QED BY <1>1, <1>3, TellMInv

LEMMA AnswerDecodedMInv ==
    ASSUME MInv, AnswerDecoded
    PROVE  MInv'
<1>1. /\ pc[Dispatch] = "answer" /\ UNCHANGED <<decoded, n_dns_failures>>
      /\ Tell(arg[Dispatch].k)
      /\ Move(Dispatch, "idle", <<>>)
    BY ContinueMoves DEF AnswerDecoded
<1>2. Dispatch \in Thread /\ Shape(Dispatch, "idle", <<>>)
    BY IdleShape DEF Thread
<1> QED BY <1>1, <1>2, TellMInv

\* A radio that is off decodes to nothing.
LEMMA OffDecodes ==
    ASSUME NEW k \in Key, NEW s \in {"OFF", "UNAVAILABLE"}
    PROVE  Decode(k, s) = Unknown
BY DEF Key, Decode, decodeVoiceRadioTechnology, decodeCdmaSubscriptionSource, decodeSimStatus,
       SimStates, RuimStates, NvStates

LEMMA StoreDecodedMInv ==
    ASSUME MInv, StoreDecoded
    PROVE  MInv'
<1> DEFINE t == Dispatch
           k == arg[t].k
           s == arg[t].s
           v == Decode(k, s)
<1>1. /\ pc[t] = "decode" /\ UNCHANGED n_dns_failures
      /\ s \in {"OFF", "UNAVAILABLE"} => Move(t, "idle", <<>>)
      /\ s \notin {"OFF", "UNAVAILABLE"} => Move(t, "answer", arg[t])
    BY ContinueMoves DEF StoreDecoded
<1>2. /\ Held /\ OnItsWay /\ AboutToReset /\ t \in Thread
      /\ arg[t] = [k |-> k, s |-> s] /\ k \in Key
    BY <1>1 DEF MInv, Held, Decoding, Thread
<1>3. /\ decoded' = [i \in Key |-> decoded'[i]] /\ told' = [i \in Key |-> told'[i]]
      /\ decoded'[k] = v
      /\ \A i \in Key : i # k => decoded'[i] = decoded[i] /\ told'[i] = told[i]
    <2> HIDE DEF v
    <2>1. Store(k, v)
        BY DEF StoreDecoded, v
    <2> QED BY <1>2, <2>1, StoreEffect
<1>4. n_dns_failures' \in Nat
    BY <1>1, <1>2 DEF Held
<1>5. ASSUME NEW l, NEW a, Shape(t, l, a), Move(t, l, a),
             v = Unknown \/ (l = "answer" /\ a = arg[t])
      PROVE  MInv'
    <2>1. Held'
        BY <1>2, <1>3, <1>4, <1>5, HeldMove
    <2>2. /\ pc'[t] = l /\ arg'[t] = a
          /\ \A u \in Thread : u # t => pc'[u] = pc[u] /\ arg'[u] = arg[u]
        BY <1>2, <1>5, MoveEffect DEF Shape
    <2>3. ASSUME NEW i \in Key
          PROVE  decoded'[i] = Unknown \/ decoded'[i] \in told'[i]
                     \/ \E u \in Thread : pc'[u] \in {"notify", "answer"} /\ arg'[u].k = i
        <3>1. CASE i = k
            BY <1>2, <1>3, <1>5, <2>2, <3>1
        <3>2. CASE i # k
            BY <1>1, <1>2, <1>3, <2>2, <2>3, <3>2 DEF OnItsWay
        <3> QED BY <3>1, <3>2
    <2>4. OnItsWay'
        BY <2>3 DEF OnItsWay
    <2>5. AboutToReset'
        BY <1>1, <1>2, <1>5, CountMove
    <2> QED BY <2>1, <2>4, <2>5 DEF MInv
<1>6. CASE s \in {"OFF", "UNAVAILABLE"}
    <2>1. v = Unknown
        BY <1>2, <1>6, OffDecodes
    <2>2. Shape(t, "idle", <<>>)
        BY IdleShape
    <2> QED BY <1>1, <1>5, <1>6, <2>1, <2>2
<1>7. CASE s \notin {"OFF", "UNAVAILABLE"}
    <2>1. Shape(t, "answer", arg[t])
        BY <1>2, MarshalAssumption DEF Shape, Label, Decoding, Counting
    <2> QED BY <1>1, <1>5, <1>7, <2>1
<1> QED BY <1>6, <1>7

LEMMA dispatchVoiceRadioTechMInv ==
    ASSUME MInv, NEW k \in Key, dispatchVoiceRadioTech(k)
    PROVE  MInv'
<1>1. /\ pc[Dispatch] = "idle" /\ UNCHANGED <<decoded, told, n_dns_failures>>
      /\ Move(Dispatch, "decode", [k |-> k, s |-> radioState])
    BY BeginMoves DEF dispatchVoiceRadioTech, radioVars
<1>2. Dispatch \in Thread /\ Shape(Dispatch, "decode", [k |-> k, s |-> radioState])
    BY MarshalAssumption DEF Shape, Label, Decoding, Counting, Thread
<1> QED BY <1>1, <1>2, QuietMove

-----------------------------------------------------------------------------
(* The radio's power.                                                      *)

LEMMA dispatchRadioPowerMInv ==
    ASSUME MInv, NEW p, dispatchRadioPower(p)
    PROVE  MInv'
<1>1. /\ pc[Dispatch] = "idle" /\ UNCHANGED <<decoded, told, n_dns_failures>>
      /\ Move(Dispatch, "power", p)
    BY BeginMoves DEF dispatchRadioPower, radioVars
<1>2. Dispatch \in Thread /\ Shape(Dispatch, "power", p)
    BY MarshalAssumption DEF Shape, Label, Decoding, Counting, Thread
<1> QED BY <1>1, <1>2, QuietMove

LEMMA OnRequestRadioPowerMInv ==
    ASSUME MInv, OnRequestRadioPower
    PROVE  MInv'
<1>1. /\ pc[Dispatch] = "power" /\ UNCHANGED <<decoded, told, n_dns_failures>>
      /\ Move(Dispatch, "idle", <<>>)
    BY ContinueMoves DEF OnRequestRadioPower, radioVars
<1>2. Dispatch \in Thread /\ Shape(Dispatch, "idle", <<>>)
    BY IdleShape DEF Thread
<1> QED BY <1>1, <1>2, QuietMove

LEMMA CompletePowerMInv ==
    ASSUME MInv, NEW t \in VThread, CompletePower(t)
    PROVE  MInv'
<1>1. /\ pc[t] = "idle" /\ UNCHANGED <<decoded, told, n_dns_failures>>
      /\ Move(t, "respond", <<>>)
    BY ContinueMoves DEF CompletePower, shouldCallResponseFunction, radioVars
<1>2. t \in Thread /\ Shape(t, "respond", <<>>)
    BY IdleShape DEF Thread
<1> QED BY <1>1, <1>2, QuietMove

LEMMA responseRadioPowerMInv ==
    ASSUME MInv, NEW t \in VThread, responseRadioPower(t)
    PROVE  MInv'
<1>1. /\ pc[t] = "respond" /\ UNCHANGED <<decoded, told, n_dns_failures>>
      /\ Move(t, "idle", <<>>)
    BY ContinueMoves DEF responseRadioPower, radioVars
<1>2. t \in Thread /\ Shape(t, "idle", <<>>)
    BY IdleShape DEF Thread
<1> QED BY <1>1, <1>2, QuietMove

-----------------------------------------------------------------------------
(* Data calls without DNS servers.                                         *)

\* An entry that is settled leaves the count a thread holds.
LEMMA SettleMoves ==
    ASSUME Held, NEW t \in VThread, pc[t] \in Counting, NEW status, Settle(t, status)
    PROVE  \E a : Shape(t, "dns", a) /\ Move(t, "dns", a)
<1> DEFINE d == Append(arg[t].done, [Entry(t) EXCEPT !["status"] = status])
           a == [arg[t] EXCEPT !.done = d]
<1>1. Move(t, "dns", a)
    BY ContinueMoves DEF Settle
<1> HIDE DEF d
<1>2. arg[t] = [l |-> arg[t].l, done |-> arg[t].done, n |-> arg[t].n] /\ arg[t].n \in Nat
    BY DEF Held, Thread
<1>3. a = [l |-> arg[t].l, done |-> d, n |-> arg[t].n]
    BY <1>2
<1>4. Shape(t, "dns", a)
    BY <1>2, <1>3, CountingShape DEF Counting
<1> QED BY <1>1, <1>4

LEMMA ListDataCallsMInv ==
    ASSUME MInv, NEW t \in VThread, NEW l, ListDataCalls(t, l)
    PROVE  MInv'
<1> DEFINE a == [l |-> l, done |-> <<>>, n |-> 0]
<1>1. /\ pc[t] = "idle" /\ UNCHANGED <<decoded, told, n_dns_failures>>
      /\ Move(t, "dns", a)
    BY BeginMoves DEF ListDataCalls, radioVars
<1>2. t \in Thread /\ Shape(t, "dns", a)
    BY CountingShape DEF Thread, Counting
<1> QED BY <1>1, <1>2, QuietMove

LEMMA SettleFailedMInv ==
    ASSUME MInv, NEW t \in VThread, SettleFailed(t)
    PROVE  MInv'
<1>1. /\ pc[t] = "dns" /\ UNCHANGED <<decoded, told, n_dns_failures>> /\ t \in Thread /\ Held
    BY DEF SettleFailed, MoreEntries, radioVars, MInv, Thread
<1>2. PICK a : Shape(t, "dns", a) /\ Move(t, "dns", a)
    BY <1>1, SettleMoves DEF SettleFailed, Counting
<1> QED BY <1>1, <1>2, QuietMove

\* A count of 0 needs nobody to reset it.
LEMMA ZeroMInv ==
    ASSUME MInv, NEW t \in VThread, pc[t] \in Counting, n_dns_failures' = 0,
           UNCHANGED <<decoded, told>>, NEW a, Shape(t, "dns", a), Move(t, "dns", a)
    PROVE  MInv'
<1>1. Held /\ OnItsWay /\ t \in Thread /\ pc[t] \notin {"notify", "answer"}
    BY DEF MInv, Thread, Counting
<1>2. Held'
    <2>1. decoded' = [k \in Key |-> decoded'[k]] /\ told' = [k \in Key |-> told'[k]]
        BY <1>1 DEF Held
    <2> QED BY <1>1, <2>1, HeldMove
<1>3. OnItsWay'
    BY <1>1, TechMove
<1>4. AboutToReset'
    BY DEF AboutToReset, MAX_DNS_FAILURES
<1> QED BY <1>2, <1>3, <1>4 DEF MInv

LEMMA SettleGoodMInv ==
    ASSUME MInv, NEW t \in VThread, SettleGood(t)
    PROVE  MInv'
<1>1. /\ pc[t] \in Counting /\ n_dns_failures' = 0 /\ UNCHANGED <<decoded, told>> /\ Held
    BY DEF SettleGood, MoreEntries, radioVars, Counting, MInv
<1>2. PICK a : Shape(t, "dns", a) /\ Move(t, "dns", a)
    BY <1>1, SettleMoves DEF SettleGood
<1> QED BY <1>1, <1>2, ZeroMInv

LEMMA ResetFailuresMInv ==
    ASSUME MInv, NEW t \in VThread, ResetFailures(t)
    PROVE  MInv'
<1>1. /\ pc[t] \in Counting /\ n_dns_failures' = 0 /\ UNCHANGED <<decoded, told>> /\ Held
    BY DEF ResetFailures, radioVars, Counting, MInv
<1>2. PICK a : Shape(t, "dns", a) /\ Move(t, "dns", a)
    BY <1>1, SettleMoves DEF ResetFailures
<1> QED BY <1>1, <1>2, ZeroMInv

LEMMA LoadFailuresMInv ==
    ASSUME MInv, NEW t \in VThread, LoadFailures(t)
    PROVE  MInv'
<1> DEFINE a == [arg[t] EXCEPT !.n = n_dns_failures + 1]
<1>1. /\ pc[t] = "dns" /\ UNCHANGED <<decoded, told, n_dns_failures>> /\ t \in Thread
      /\ Move(t, "dnsstore", a)
    BY ContinueMoves DEF LoadFailures, MoreEntries, radioVars, Thread
<1>2. /\ arg[t] = [l |-> arg[t].l, done |-> arg[t].done, n |-> arg[t].n]
      /\ n_dns_failures \in Nat
    BY <1>1 DEF MInv, Held, Counting
<1>3. a = [l |-> a.l, done |-> a.done, n |-> a.n] /\ a.n \in Nat
    BY <1>2
<1>4. Shape(t, "dnsstore", a)
    BY <1>3, CountingShape DEF Counting
<1> QED BY <1>1, <1>4, QuietMove

\* Whoever stores too high a count goes on to test it.
LEMMA StoreFailuresMInv ==
    ASSUME MInv, NEW t \in VThread, StoreFailures(t)
    PROVE  MInv'
<1>1. /\ pc[t] = "dnsstore" /\ n_dns_failures' = arg[t].n /\ UNCHANGED <<decoded, told>>
      /\ t \in Thread /\ Held /\ OnItsWay
      /\ Move(t, "dnstest", arg[t])
    BY ContinueMoves DEF StoreFailures, radioVars, MInv, Thread
<1>2. /\ arg[t] = [l |-> arg[t].l, done |-> arg[t].done, n |-> arg[t].n] /\ arg[t].n \in Nat
      /\ decoded' = [k \in Key |-> decoded'[k]] /\ told' = [k \in Key |-> told'[k]]
    BY <1>1 DEF Held, Counting
<1>3. Shape(t, "dnstest", arg[t])
    BY <1>2, CountingShape DEF Counting
<1>4. Held' /\ OnItsWay'
    BY <1>1, <1>2, <1>3, HeldMove, TechMove
<1>5. pc'[t] = "dnstest" /\ arg'[t] = arg[t]
    BY <1>1, <1>3, MoveEffect DEF Shape
<1>6. AboutToReset'
    BY <1>1, <1>5 DEF AboutToReset
<1> QED BY <1>4, <1>6 DEF MInv

\* A count that is not too high was not why the limit has been passed.
LEMMA TestFailuresMInv ==
    ASSUME MInv, NEW t \in VThread, TestFailures(t)
    PROVE  MInv'
<1>1. PICK seen \in {arg[t].n, n_dns_failures} :
         IF TooMany(seen) THEN Continue(t, "dnsreset", arg[t])
         ELSE Settle(t, PDP_FAIL_ACTIVATION_REJECT_UNSPECIFIED)
    BY DEF TestFailures
<1>2. /\ pc[t] = "dnstest" /\ UNCHANGED <<decoded, told, n_dns_failures>>
      /\ Held /\ OnItsWay /\ AboutToReset /\ t \in Thread /\ arg[t].n \in Nat
      /\ arg[t] = [l |-> arg[t].l, done |-> arg[t].done, n |-> arg[t].n]
      /\ decoded' = [k \in Key |-> decoded'[k]] /\ told' = [k \in Key |-> told'[k]]
      /\ n_dns_failures \in Nat
    BY DEF TestFailures, radioVars, MInv, Held, Counting, Thread
<1>3. CASE TooMany(seen)
    <2>1. Move(t, "dnsreset", arg[t])
        BY <1>1, <1>3, ContinueMoves
    <2>2. Shape(t, "dnsreset", arg[t])
        BY <1>2, CountingShape DEF Counting
    <2>3. Held' /\ OnItsWay'
        BY <1>2, <2>1, <2>2, HeldMove, TechMove
    <2>4. pc'[t] = "dnsreset"
        BY <1>2, <2>1, <2>2, MoveEffect DEF Shape
    <2> QED BY <2>3, <2>4 DEF MInv, AboutToReset
<1>4. CASE ~TooMany(seen)
    <2>1. PICK a : Shape(t, "dns", a) /\ Move(t, "dns", a)
        BY <1>1, <1>2, <1>4, SettleMoves DEF Counting
    <2>2. Held' /\ OnItsWay'
        BY <1>2, <2>1, HeldMove, TechMove
    <2>3. AboutToReset'
        <3> SUFFICES ASSUME n_dns_failures >= MAX_DNS_FAILURES
                     PROVE  \E u \in VThread :
                                \/ pc'[u] = "dnstest" /\ arg'[u].n >= MAX_DNS_FAILURES
                                \/ pc'[u] = "dnsreset"
            BY <1>2 DEF AboutToReset
        <3>1. ~(arg[t].n >= MAX_DNS_FAILURES)
            BY <1>1, <1>2, <1>4 DEF TooMany
        <3>2. PICK u \in VThread : \/ pc[u] = "dnstest" /\ arg[u].n >= MAX_DNS_FAILURES
                                   \/ pc[u] = "dnsreset"
            BY <1>2 DEF AboutToReset
        <3>3. u # t /\ u \in Thread
            BY <1>2, <3>1, <3>2 DEF Thread
        <3>4. pc'[u] = pc[u] /\ arg'[u] = arg[u]
            BY <1>2, <2>1, <3>3, MoveEffect DEF Shape
        <3> QED BY <3>2, <3>4
    <2> QED BY <2>2, <2>3 DEF MInv
<1> QED BY <1>3, <1>4

LEMMA WriteDataCallsMInv ==
    ASSUME MInv, NEW t \in VThread, WriteDataCalls(t)
    PROVE  MInv'
<1>1. /\ pc[t] = "dns" /\ UNCHANGED <<decoded, told, n_dns_failures>>
      /\ Goto(t, "idle", <<>>)
    BY DEF WriteDataCalls, radioVars
<1>2. Move(t, "idle", <<>>)
    BY <1>1 DEF Goto, Move
<1>3. t \in Thread /\ Shape(t, "idle", <<>>)
    BY IdleShape DEF Thread
<1> QED BY <1>1, <1>2, <1>3, QuietMove

-----------------------------------------------------------------------------
(* Together.                                                               *)

LEMMA NextMInv == MInv /\ [Next]_vars => MInv'
<1> SUFFICES ASSUME MInv, [Next]_vars PROVE MInv'
    OBVIOUS
<1>1. CASE \/ \E b \in Block : \E n \in 0..Len(b.p) : DispatchBlock(b, n)
           \/ \E a \in Data : Answer(a)
           \/ \E s \in RadioState : SetRadioState(s)
           \/ ClientGone
           \/ \E t \in VThread : \E null \in BOOLEAN : responseEnterSimPin(t, null)
           \/ UNCHANGED vars
    <2>1. UNCHANGED <<pc, arg, decoded, told, n_dns_failures>>
        BY <1>1 DEF DispatchBlock, Answer, SetRadioState, ClientGone, responseEnterSimPin,
                    vars, radioVars
    <2> QED BY <2>1, StillMInv
<1>2. CASE \E k \in {"tech", "source"} : dispatchVoiceRadioTech(k)
    BY <1>2, dispatchVoiceRadioTechMInv DEF Key
<1>3. CASE StoreDecoded \/ AnswerDecoded \/ OnRequestRadioPower
    BY <1>3, StoreDecodedMInv, AnswerDecodedMInv, OnRequestRadioPowerMInv
<1>4. CASE \E on \in {0, 1} : dispatchRadioPower(<<Word(1), Word(on)>>)
    BY <1>4, dispatchRadioPowerMInv
<1>5. ASSUME NEW t \in Thread, Report(t) \/ Compare(t) \/ StoreNew(t) \/ Notify(t)
      PROVE  MInv'
    BY <1>5, ReportMInv, CompareMInv, StoreNewMInv, NotifyMInv
<1>6. ASSUME NEW t \in VThread,
             \/ CompletePower(t) \/ responseRadioPower(t)
             \/ \E l \in Calls : ListDataCalls(t, l)
      PROVE  MInv'
    BY <1>6, CompletePowerMInv, responseRadioPowerMInv, ListDataCallsMInv
<1>7. ASSUME NEW t \in VThread,
             \/ SettleFailed(t) \/ SettleGood(t) \/ LoadFailures(t) \/ StoreFailures(t)
             \/ TestFailures(t) \/ ResetFailures(t) \/ WriteDataCalls(t)
      PROVE  MInv'
    BY <1>7, SettleFailedMInv, SettleGoodMInv, LoadFailuresMInv, StoreFailuresMInv,
       TestFailuresMInv, ResetFailuresMInv, WriteDataCallsMInv
<1> QED BY <1>1, <1>2, <1>3, <1>4, <1>5, <1>6, <1>7 DEF Next

LEMMA AlwaysMInv == Spec => []MInv
BY InitMInv, NextMInv, PTL DEF Spec

\* TechTold for every set of threads and radio states: while a decoded value is not known
\* to the client, a thread is between its assignment in processRadioState or
\* dispatchVoiceRadioTech and the message that carries it.
THEOREM TechAlwaysTold == Spec => []TechTold
<1>1. MInv => TechTold
    <2> SUFFICES ASSUME MInv,
                        \A t \in Thread : pc[t] \notin {"compare", "store", "notify", "decode", "answer"},
                        NEW k \in DOMAIN decoded
                 PROVE  decoded[k] = Unknown \/ decoded[k] \in told[k]
        BY DEF TechTold
    <2>1. k \in Key
        BY DEF MInv, Held
    <2> QED BY <2>1 DEF MInv, OnItsWay
<1> QED BY <1>1, AlwaysMInv, PTL

\* DnsCountBounded for every number of vendor threads: a count of MAX_DNS_FAILURES or more
\* is one a thread in responseDataCallListV6 is about to find too high, or to reset.
THEOREM DnsCountAlwaysBounded == Spec => []DnsCountBounded
<1>1. MInv => DnsCountBounded
    <2> SUFFICES ASSUME MInv,
                        \A t \in VThread : pc[t] \notin {"dnsstore", "dnstest", "dnsreset"}
                 PROVE  n_dns_failures < MAX_DNS_FAILURES
        BY DEF DnsCountBounded
    <2>1. ~(n_dns_failures >= MAX_DNS_FAILURES) /\ n_dns_failures \in Nat
        BY DEF MInv, Held, AboutToReset
    <2> QED BY <2>1 DEF MAX_DNS_FAILURES
<1> QED BY <1>1, AlwaysMInv, PTL

-----------------------------------------------------------------------------
(* A RADIO_POWER request is read.                                          *)

\* An int is read where it is.
LEMMA ReadInt ==
    ASSUME NEW p, NEW at, NEW name, NEW n, at <= Len(p), p[at] = Word(n)
    PROVE  /\ Read(p, at, <<int32(name)>>).ok
           /\ Read(p, at, <<int32(name)>>).s[name] = n
<1>1. "int" \in DOMAIN p[at] /\ p[at].int = n
    <2>1. DOMAIN Word(n) = {"int"} /\ Word(n).int = n
        BY DEF Word
    <2> QED BY <2>1
<1>2. Read(p, at, <<int32(name)>>).ok = (at <= Len(p))
    BY OneIntIs
<1>3. Read(p, at, <<int32(name)>>).s[name] = p[at].int
    BY <1>1, OneIntIs
<1>4. Read(p, at, <<int32(name)>>).s[name] = n
    BY <1>1, <1>3
<1>5. Read(p, at, <<int32(name)>>).ok
    BY <1>2
<1> QED BY <1>4, <1>5

\* A list of one int holds when the int does.
LEMMA OneInt ==
    ASSUME NEW p, NEW at
    PROVE  ReadList(p, at, 1, <<int32("int")>>).ok = Read(p, at, <<int32("int")>>).ok
<1> DEFINE format == <<int32("int")>>
<1> HIDE DEF format
<1>1. PICK L : ListSteps(p, at, 1, format, L)
    BY ReadListSteps
<1>2. 0 \in 0..(1 - 1) /\ 0 + 1 = 1
    OBVIOUS
<1>3. L[0 + 1].ok = Read(p, L[0].at, format).ok
    BY <1>1, <1>2 DEF ListSteps
<1>4. L[0].at = at /\ ReadList(p, at, 1, format) = L[1]
    BY <1>1 DEF ListSteps
<1>5. ReadList(p, at, 1, format).ok = Read(p, at, format).ok
    BY <1>2, <1>3, <1>4
<1> QED BY <1>5 DEF format

\* A RADIO_POWER request with one flag reaches the vendor.
LEMMA PowerReaches ==
    ASSUME NEW on
    PROVE  dispatchInts(<<Word(1), Word(on)>>).called
<1> DEFINE p == <<Word(1), Word(on)>>
           r == Read(p, 1, <<int32("count")>>)
           l == ReadList(p, 2, r.s["count"], <<int32("int")>>)
<1>1. Len(p) = 2 /\ p[1] = Word(1) /\ p[2] = Word(on)
    OBVIOUS
<1>2. r.ok /\ r.s["count"] = 1
    <2> HIDE DEF p
    <2> QED BY <1>1, ReadInt
<1>3. Read(p, 2, <<int32("int")>>).ok
    <2> HIDE DEF p
    <2>1. 2 <= Len(p)
        BY <1>1
    <2> QED BY <1>1, <2>1, ReadInt
<1>4. l.ok
    <2> HIDE DEF p, r
    <2> QED BY <1>2, <1>3, OneInt
<1> HIDE DEF p, r, l
<1>5. r.ok /\ r.s["count"] # 0 /\ l.ok
    BY <1>2, <1>4
<1>6. dispatchInts(p) = IF r.ok /\ r.s["count"] # 0 /\ l.ok THEN ToVendor(l.list)
                        ELSE invalidCommandBlock
    BY DEF dispatchInts, p, r, l
<1>7. dispatchInts(p).called
    BY <1>5, <1>6 DEF ToVendor
<1> QED BY <1>7 DEF p

-----------------------------------------------------------------------------
(* The network selection.                                                  *)

\* What the client's last RADIO_POWER request is waiting for while it is on: to reach
\* the vendor, to be answered, or the response function of an answer to it or to an
\* earlier one.
Selecting ==
    radio_is_on /\ ~gone =>
        selected \/ power > 0 \/ pc[Dispatch] = "power" \/ \E t \in VThread : pc[t] = "respond"

\* The dispatch thread passes on a block of one flag, which reaches the vendor.
OneFlag == pc[Dispatch] = "power" => \E on \in {0, 1} : arg[Dispatch] = <<Word(1), Word(on)>>

SInv == power \in Nat /\ OneFlag /\ Selecting

LEMMA InitSInv == Init => SInv
BY DEF Init, SInv, OneFlag, Selecting, Thread

\* A step of a thread that has nothing to do with the power.
LEMMA QuietSInv ==
    ASSUME MInv, SInv, NEW t \in Thread, NEW l, NEW a, Shape(t, l, a), Move(t, l, a),
           UNCHANGED powerVars, pc[t] \notin {"power", "respond"}, l # "power"
    PROVE  SInv'
<1>1. /\ pc'[t] = l /\ arg'[t] = a
      /\ \A u \in Thread : u # t => pc'[u] = pc[u] /\ arg'[u] = arg[u]
    BY MoveEffect DEF MInv, Shape
<1>2. Dispatch \in Thread /\ VThread \subseteq Thread
    BY DEF Thread
<1>3. power' \in Nat
    BY DEF SInv, powerVars
<1>4. OneFlag'
    BY <1>1, <1>2 DEF SInv, OneFlag
<1>5. Selecting'
    <2> SUFFICES ASSUME radio_is_on, ~gone
                 PROVE  selected \/ power > 0 \/ pc'[Dispatch] = "power"
                            \/ \E u \in VThread : pc'[u] = "respond"
        BY DEF Selecting, powerVars
    <2>1. selected \/ power > 0 \/ pc[Dispatch] = "power" \/ \E u \in VThread : pc[u] = "respond"
        BY DEF SInv, Selecting
    <2> QED BY <1>1, <1>2, <2>1
<1> QED BY <1>3, <1>4, <1>5 DEF SInv

LEMMA DecodingSInv ==
    ASSUME MInv, SInv, NEW t \in Thread, Report(t) \/ Compare(t) \/ StoreNew(t) \/ Notify(t)
    PROVE  SInv'
<1>1. CASE Report(t)
    <2>1. /\ pc[t] = "idle" /\ UNCHANGED powerVars
          /\ Move(t, "compare", [k |-> "tech", s |-> radioState])
        BY <1>1, BeginMoves DEF Report
    <2>2. Shape(t, "compare", [k |-> "tech", s |-> radioState])
        BY DEF Shape, Label, Decoding, Counting, Key
    <2> QED BY <2>1, <2>2, QuietSInv
<1>2. CASE Compare(t)
    <2>1. /\ pc[t] = "compare" /\ UNCHANGED powerVars
          /\ \/ Continue(t, "store", arg[t])
             \/ Step(t, Following(arg[t].k, arg[t].s), arg[t].s)
        BY <1>2 DEF Compare
    <2>2. arg[t] = [k |-> arg[t].k, s |-> arg[t].s] /\ arg[t].k \in Key
        BY <2>1 DEF MInv, Held, Decoding
    <2>3. CASE Continue(t, "store", arg[t])
        <3>1. Move(t, "store", arg[t])
            BY <2>3, ContinueMoves
        <3>2. Shape(t, "store", arg[t])
            BY <2>2 DEF Shape, Label, Decoding, Counting
        <3> QED BY <2>1, <3>1, <3>2, QuietSInv
    <2>4. CASE Step(t, Following(arg[t].k, arg[t].s), arg[t].s)
        <3>1. PICK l, a : Shape(t, l, a) /\ Move(t, l, a) /\ l \in {"idle", "compare"}
            BY <2>2, <2>4, FollowingKey, StepMoves
        <3> QED BY <2>1, <3>1, QuietSInv
    <2> QED BY <2>1, <2>3, <2>4
<1>3. CASE StoreNew(t)
    <2>1. /\ pc[t] = "store" /\ UNCHANGED powerVars /\ Continue(t, "notify", arg[t])
        BY <1>3 DEF StoreNew
    <2>2. arg[t] = [k |-> arg[t].k, s |-> arg[t].s] /\ arg[t].k \in Key
        BY <2>1 DEF MInv, Held, Decoding
    <2>3. Move(t, "notify", arg[t]) /\ Shape(t, "notify", arg[t])
        BY <2>1, <2>2, ContinueMoves DEF Shape, Label, Decoding, Counting
    <2> QED BY <2>1, <2>3, QuietSInv
<1>4. CASE Notify(t)
    <2>1. /\ pc[t] = "notify" /\ UNCHANGED powerVars
          /\ Step(t, Following(arg[t].k, arg[t].s), arg[t].s)
        BY <1>4 DEF Notify
    <2>2. arg[t].k \in Key
        BY <2>1 DEF MInv, Held, Decoding
    <2>3. PICK l, a : Shape(t, l, a) /\ Move(t, l, a) /\ l \in {"idle", "compare"}
        BY <2>1, <2>2, FollowingKey, StepMoves
    <2> QED BY <2>1, <2>3, QuietSInv
<1> QED BY <1>1, <1>2, <1>3, <1>4

LEMMA OwnDecodingSInv ==
    ASSUME MInv, SInv,
           \/ \E k \in Key : dispatchVoiceRadioTech(k)
           \/ StoreDecoded \/ AnswerDecoded
    PROVE  SInv'
<1> DEFINE t == Dispatch
<1>0. t \in Thread
    BY DEF Thread
<1>1. CASE \E k \in Key : dispatchVoiceRadioTech(k)
    <2>1. PICK k \in Key : dispatchVoiceRadioTech(k)
        BY <1>1
    <2>2. /\ pc[t] = "idle" /\ UNCHANGED powerVars
          /\ Move(t, "decode", [k |-> k, s |-> radioState])
        BY <2>1, BeginMoves DEF dispatchVoiceRadioTech
    <2>3. Shape(t, "decode", [k |-> k, s |-> radioState])
        BY MarshalAssumption DEF Shape, Label, Decoding, Counting
    <2> QED BY <1>0, <2>2, <2>3, QuietSInv
<1>2. CASE StoreDecoded
    <2>1. /\ pc[t] = "decode" /\ UNCHANGED powerVars
          /\ Move(t, "idle", <<>>) \/ Move(t, "answer", arg[t])
        BY <1>2, ContinueMoves DEF StoreDecoded
    <2>2. arg[t] = [k |-> arg[t].k, s |-> arg[t].s] /\ arg[t].k \in Key
        BY <1>0, <2>1 DEF MInv, Held, Decoding
    <2>3. Shape(t, "idle", <<>>) /\ Shape(t, "answer", arg[t])
        BY <2>2, IdleShape, MarshalAssumption DEF Shape, Label, Decoding, Counting
    <2> QED BY <1>0, <2>1, <2>3, QuietSInv
<1>3. CASE AnswerDecoded
    <2>1. /\ pc[t] = "answer" /\ UNCHANGED powerVars /\ Move(t, "idle", <<>>)
        BY <1>3, ContinueMoves DEF AnswerDecoded
    <2> QED BY <1>0, <2>1, IdleShape, QuietSInv
<1> QED BY <1>1, <1>2, <1>3

LEMMA CountingSInv ==
    ASSUME MInv, SInv, NEW t \in VThread,
           \/ \E l \in Calls : ListDataCalls(t, l)
           \/ SettleFailed(t) \/ SettleGood(t) \/ LoadFailures(t) \/ StoreFailures(t)
           \/ TestFailures(t) \/ ResetFailures(t) \/ WriteDataCalls(t)
    PROVE  SInv'
<1>0. t \in Thread /\ Held
    BY DEF Thread, MInv
<1>1. CASE \E l \in Calls : ListDataCalls(t, l)
    <2>1. PICK l \in Calls : ListDataCalls(t, l)
        BY <1>1
    <2> DEFINE a == [l |-> l, done |-> <<>>, n |-> 0]
    <2>2. pc[t] = "idle" /\ UNCHANGED powerVars /\ Move(t, "dns", a)
        BY <2>1, BeginMoves DEF ListDataCalls
    <2>3. Shape(t, "dns", a)
        BY CountingShape DEF Counting
    <2> QED BY <1>0, <2>2, <2>3, QuietSInv
<1>2. ASSUME NEW status, pc[t] \in Counting, Settle(t, status), UNCHANGED powerVars
      PROVE  SInv'
    <2>1. PICK a : Shape(t, "dns", a) /\ Move(t, "dns", a)
        BY <1>0, <1>2, SettleMoves
    <2> QED BY <1>0, <1>2, <2>1, QuietSInv DEF Counting
<1>3. CASE SettleFailed(t) \/ SettleGood(t) \/ ResetFailures(t)
    <2>1. /\ pc[t] \in Counting /\ UNCHANGED powerVars
          /\ \/ Settle(t, ShortStatus(Entry(t)["status"])) \/ Settle(t, 0)
             \/ Settle(t, PDP_FAIL_REGULAR_DEACTIVATION)
        BY <1>3 DEF SettleFailed, SettleGood, ResetFailures, MoreEntries, Counting
    <2> QED BY <1>2, <2>1
<1>4. ASSUME NEW l \in Counting, NEW n \in Nat, pc[t] \in Counting, UNCHANGED powerVars,
             Move(t, l, [arg[t] EXCEPT !.n = n])
      PROVE  SInv'
    <2>1. arg[t] = [l |-> arg[t].l, done |-> arg[t].done, n |-> arg[t].n]
        BY <1>0, <1>4 DEF Held
    <2> DEFINE a == [arg[t] EXCEPT !.n = n]
    <2>2. a = [l |-> a.l, done |-> a.done, n |-> a.n] /\ a.n \in Nat
        BY <1>4, <2>1
    <2>3. Shape(t, l, a)
        BY <1>4, <2>2, CountingShape
    <2> QED BY <1>0, <1>4, <2>3, QuietSInv DEF Counting
<1>5. CASE LoadFailures(t)
    <2>1. /\ pc[t] = "dns" /\ UNCHANGED powerVars
          /\ Move(t, "dnsstore", [arg[t] EXCEPT !.n = n_dns_failures + 1])
        BY <1>5, ContinueMoves DEF LoadFailures, MoreEntries
    <2>2. n_dns_failures + 1 \in Nat
        BY <1>0 DEF Held
    <2> QED BY <1>4, <2>1, <2>2 DEF Counting
<1>6. ASSUME NEW l \in Counting, pc[t] \in Counting, UNCHANGED powerVars, Move(t, l, arg[t])
      PROVE  SInv'
    <2>1. arg[t] = [l |-> arg[t].l, done |-> arg[t].done, n |-> arg[t].n] /\ arg[t].n \in Nat
        BY <1>0, <1>6 DEF Held
    <2>2. Shape(t, l, arg[t])
        BY <1>6, <2>1, CountingShape
    <2> QED BY <1>0, <1>6, <2>2, QuietSInv DEF Counting
<1>7. CASE StoreFailures(t)
    <2>1. pc[t] = "dnsstore" /\ UNCHANGED powerVars /\ Move(t, "dnstest", arg[t])
        BY <1>7, ContinueMoves DEF StoreFailures
    <2> QED BY <1>6, <2>1 DEF Counting
<1>8. CASE TestFailures(t)
    <2>1. /\ pc[t] = "dnstest" /\ UNCHANGED powerVars
          /\ \/ Continue(t, "dnsreset", arg[t])
             \/ Settle(t, PDP_FAIL_ACTIVATION_REJECT_UNSPECIFIED)
        BY <1>8 DEF TestFailures
    <2>2. CASE Continue(t, "dnsreset", arg[t])
        <3>1. Move(t, "dnsreset", arg[t])
            BY <2>2, ContinueMoves
        <3> QED BY <1>6, <2>1, <3>1 DEF Counting
    <2> QED BY <1>2, <2>1, <2>2 DEF Counting
<1>9. CASE WriteDataCalls(t)
    <2>1. /\ pc[t] = "dns" /\ UNCHANGED powerVars /\ Move(t, "idle", <<>>)
        BY <1>9 DEF WriteDataCalls, Goto, Move
    <2> QED BY <1>0, <2>1, IdleShape, QuietSInv
<1> QED BY <1>1, <1>3, <1>5, <1>7, <1>8, <1>9

\* The flag is set, and its request about to reach the vendor.
LEMMA dispatchRadioPowerSInv ==
    ASSUME MInv, SInv, NEW on \in {0, 1}, dispatchRadioPower(<<Word(1), Word(on)>>)
    PROVE  SInv'
<1> DEFINE p == <<Word(1), Word(on)>>
<1>1. Move(Dispatch, "power", p) /\ UNCHANGED power
    BY BeginMoves DEF dispatchRadioPower
<1>2. Dispatch \in Thread /\ "power" \in Label /\ Held
    BY DEF Thread, Label, MInv
<1>3. pc'[Dispatch] = "power" /\ arg'[Dispatch] = p
    BY <1>1, <1>2, MoveEffect
<1>4. power' \in Nat
    BY <1>1 DEF SInv
<1>5. OneFlag' /\ Selecting'
    BY <1>3 DEF OneFlag, Selecting
<1> QED BY <1>4, <1>5 DEF SInv

\* It does reach it.
LEMMA OnRequestRadioPowerSInv ==
    ASSUME MInv, SInv, OnRequestRadioPower
    PROVE  SInv'
<1>1. pc[Dispatch] = "power" /\ Move(Dispatch, "idle", <<>>)
    BY ContinueMoves DEF OnRequestRadioPower
<1>2. Dispatch \in Thread /\ "idle" \in Label /\ Held
    BY DEF Thread, Label, MInv
<1>3. pc'[Dispatch] = "idle"
    BY <1>1, <1>2, MoveEffect
<1>4. dispatchInts(arg[Dispatch]).called
    BY <1>1, PowerReaches DEF SInv, OneFlag
<1>5. power' = power + 1
    BY <1>4 DEF OnRequestRadioPower
<1>6. power' \in Nat /\ power' > 0
    BY <1>5 DEF SInv
<1>7. OneFlag' /\ Selecting'
    BY <1>3, <1>6 DEF OneFlag, Selecting
<1> QED BY <1>6, <1>7 DEF SInv

\* The answer goes to the response function, whatever it is.
LEMMA CompletePowerSInv ==
    ASSUME MInv, SInv, NEW t \in VThread, CompletePower(t)
    PROVE  SInv'
<1>1. /\ power > 0 /\ power' = power - 1 /\ UNCHANGED <<radio_is_on, selected, gone>>
      /\ Move(t, "respond", <<>>)
    BY ContinueMoves DEF CompletePower, shouldCallResponseFunction
<1>2. t \in Thread /\ t # Dispatch /\ Dispatch \in Thread /\ "respond" \in Label /\ Held
    BY MarshalAssumption DEF Thread, Label, MInv
<1>3. pc'[t] = "respond" /\ pc'[Dispatch] = pc[Dispatch] /\ arg'[Dispatch] = arg[Dispatch]
    BY <1>1, <1>2, MoveEffect
<1>4. power' \in Nat
    BY <1>1 DEF SInv
<1>5. OneFlag' /\ Selecting'
    BY <1>3 DEF SInv, OneFlag, Selecting
<1> QED BY <1>4, <1>5 DEF SInv

\* The response function selects for the flag as it finds it, which is that of the last
\* request.
LEMMA responseRadioPowerSInv ==
    ASSUME MInv, SInv, NEW t \in VThread, responseRadioPower(t)
    PROVE  SInv'
<1>1. /\ UNCHANGED <<radio_is_on, power, gone>> /\ selected' = (selected \/ radio_is_on)
      /\ Move(t, "idle", <<>>)
    BY ContinueMoves DEF responseRadioPower
<1>2. t \in Thread /\ t # Dispatch /\ Dispatch \in Thread /\ "idle" \in Label /\ Held
    BY MarshalAssumption DEF Thread, Label, MInv
<1>3. pc'[Dispatch] = pc[Dispatch] /\ arg'[Dispatch] = arg[Dispatch]
    BY <1>1, <1>2, MoveEffect
<1>4. OneFlag' /\ Selecting' /\ power' \in Nat
    BY <1>1, <1>3 DEF SInv, OneFlag, Selecting
<1> QED BY <1>4 DEF SInv

LEMMA NextSInv == MInv /\ SInv /\ [Next]_vars => SInv'
<1> SUFFICES ASSUME MInv, SInv, [Next]_vars PROVE SInv'
    OBVIOUS
<1>1. CASE \/ \E b \in Block : \E n \in 0..Len(b.p) : DispatchBlock(b, n)
           \/ \E a \in Data : Answer(a)
           \/ \E s \in RadioState : SetRadioState(s)
           \/ UNCHANGED vars
    <2>1. UNCHANGED <<pc, arg, power, radio_is_on, selected, gone>>
        BY <1>1 DEF DispatchBlock, Answer, SetRadioState, vars, powerVars
    <2> QED BY <2>1 DEF SInv, OneFlag, Selecting
<1>2. CASE ClientGone
    <2>1. UNCHANGED <<pc, arg>> /\ power' = 0 /\ gone'
        BY <1>2 DEF ClientGone
    <2> QED BY <2>1 DEF SInv, OneFlag, Selecting
<1>3. CASE \E t \in VThread : \E null \in BOOLEAN : responseEnterSimPin(t, null)
    <2>1. UNCHANGED <<pc, arg, power>> /\ selected'
        BY <1>3 DEF responseEnterSimPin
    <2> QED BY <2>1 DEF SInv, OneFlag, Selecting
<1>4. CASE (\E k \in {"tech", "source"} : dispatchVoiceRadioTech(k))
               \/ StoreDecoded \/ AnswerDecoded
    BY <1>4, OwnDecodingSInv DEF Key
<1>5. CASE OnRequestRadioPower
    BY <1>5, OnRequestRadioPowerSInv
<1>6. CASE \E on \in {0, 1} : dispatchRadioPower(<<Word(1), Word(on)>>)
    BY <1>6, dispatchRadioPowerSInv
<1>7. ASSUME NEW t \in Thread, Report(t) \/ Compare(t) \/ StoreNew(t) \/ Notify(t)
      PROVE  SInv'
    BY <1>7, DecodingSInv
<1>8. ASSUME NEW t \in VThread, CompletePower(t) \/ responseRadioPower(t)
      PROVE  SInv'
    BY <1>8, CompletePowerSInv, responseRadioPowerSInv
<1>9. ASSUME NEW t \in VThread,
             \/ \E l \in Calls : ListDataCalls(t, l)
             \/ SettleFailed(t) \/ SettleGood(t) \/ LoadFailures(t) \/ StoreFailures(t)
             \/ TestFailures(t) \/ ResetFailures(t) \/ WriteDataCalls(t)
      PROVE  SInv'
    BY <1>9, CountingSInv
<1> QED BY <1>1, <1>2, <1>3, <1>4, <1>5, <1>6, <1>7, <1>8, <1>9 DEF Next

\* AutomaticSelected for every number of vendor threads: responseRadioPower looks at
\* radio_is_on, which a later request may have changed, and yet a request to turn the radio
\* on is followed by a selection, because no answer leaves out the response function and
\* none is given before the flag is set.
THEOREM AlwaysSelected == Spec => []AutomaticSelected
<1>1. Spec => []SInv
    BY AlwaysMInv, InitSInv, NextSInv, PTL DEF Spec
<1>2. SInv => AutomaticSelected
    <2> SUFFICES ASSUME SInv, power = 0, radio_is_on, ~gone,
                        \A t \in Thread : pc[t] \notin {"power", "respond"}
                 PROVE  selected
        BY DEF AutomaticSelected
    <2>1. ~(power > 0) /\ pc[Dispatch] # "power" /\ \A t \in VThread : pc[t] # "respond"
        BY DEF Thread
    <2> QED BY <2>1 DEF SInv, Selecting
<1> QED BY <1>1, <1>2, PTL

-----------------------------------------------------------------------------
(* What the vendor gets.                                                   *)

\* The vendor's version is one of the later ones.
LEMMA LateVersion ==
    ASSUME version \in Version
    PROVE  ~(version < 4)
BY MarshalAssumption DEF RIL_VERSION_MIN, RIL_VERSION

\* Whatever request it is and wherever its block ends, every function passes on only what
\* has been sent.
LEMMA DispatchSent ==
    ASSUME NEW b \in Block, NEW n \in 0..Len(b.p), version \in Version
    PROVE  Sent(DispatchWith(b.fn, SubSeq(b.p, 1, n)), DispatchWith(b.fn, b.p))
<1> DEFINE q == SubSeq(b.p, 1, n)
           p == b.p
<1>0. /\ b.fn \in DispatchFunction /\ p \in Seq(Field)
      /\ b.fn \in {"dispatchStrings", "dispatchDataCall"} => Counts(p, 1, Nat \cup {-1})
      /\ b.fn \in {"dispatchInts", "dispatchGsmBrSmsCnf", "dispatchCdmaBrSmsCnf",
                   "dispatchDataProfile"} => Counts(p, 1, Nat)
      /\ b.fn = "dispatchImsSms" /\ ImsHeader(p).s["tech"] = RADIO_TECH_3GPP =>
           Counts(p, 4, Nat \cup {-1})
    BY BlockAssumption
<1>25. Cut(q, p)
    BY <1>0, CutSubSeq
<1>26. ~(version < 4)
    BY LateVersion
<1>27. SUFFICES Sent(DispatchWith(b.fn, q), DispatchWith(b.fn, p))
    OBVIOUS
<1> HIDE DEF q, p
<1>1. CASE b.fn = "dispatchVoid"
    <2>1. /\ DispatchWith(b.fn, q) = dispatchVoid(q)
          /\ DispatchWith(b.fn, p) = dispatchVoid(p)
        BY <1>1 DEF DispatchWith
    <2> QED BY <1>25, <2>1, VoidSent
<1>2. CASE b.fn = "dispatchString"
    <2>1. /\ DispatchWith(b.fn, q) = dispatchString(q)
          /\ DispatchWith(b.fn, p) = dispatchString(p)
        BY <1>2 DEF DispatchWith
    <2> QED BY <1>25, <2>1, StringSent
<1>3. CASE b.fn = "dispatchStrings"
    <2>1. /\ DispatchWith(b.fn, q) = dispatchStrings(q)
          /\ DispatchWith(b.fn, p) = dispatchStrings(p)
        BY <1>3 DEF DispatchWith
    <2> QED BY <1>25, <1>3, <1>0, <2>1, StringsSent
<1>4. CASE b.fn = "dispatchInts"
    <2>1. /\ DispatchWith(b.fn, q) = dispatchInts(q)
          /\ DispatchWith(b.fn, p) = dispatchInts(p)
        BY <1>4 DEF DispatchWith
    <2> QED BY <1>25, <1>4, <1>0, <2>1, IntsSent
<1>5. CASE b.fn = "dispatchRaw"
    <2>1. /\ DispatchWith(b.fn, q) = dispatchRaw(q)
          /\ DispatchWith(b.fn, p) = dispatchRaw(p)
        BY <1>5 DEF DispatchWith
    <2> QED BY <1>25, <2>1, RawSent
<1>6. CASE b.fn = "dispatchSmsWrite"
    <2>1. /\ DispatchWith(b.fn, q) = dispatchSmsWrite(q)
          /\ DispatchWith(b.fn, p) = dispatchSmsWrite(p)
        BY <1>6 DEF DispatchWith
    <2> QED BY <1>25, <2>1, SmsWriteSent
<1>7. CASE b.fn = "dispatchDial"
    <2>1. /\ DispatchWith(b.fn, q) = dispatchDial(q, version)
          /\ DispatchWith(b.fn, p) = dispatchDial(p, version)
        BY <1>7 DEF DispatchWith
    <2> QED BY <1>25, <2>1, DialSent
<1>8. CASE b.fn = "dispatchSIM_IO"
    <2>1. /\ DispatchWith(b.fn, q) = dispatchSIM_IO(q, version)
          /\ DispatchWith(b.fn, p) = dispatchSIM_IO(p, version)
        BY <1>8 DEF DispatchWith
    <2> QED BY <1>25, <2>1, SIM_IOSent
<1>9. CASE b.fn = "dispatchSIM_APDU"
    <2>1. /\ DispatchWith(b.fn, q) = dispatchSIM_APDU(q)
          /\ DispatchWith(b.fn, p) = dispatchSIM_APDU(p)
        BY <1>9 DEF DispatchWith
    <2> QED BY <1>25, <2>1, SIM_APDUSent
<1>10. CASE b.fn = "dispatchCallForward"
    <2>1. /\ DispatchWith(b.fn, q) = dispatchCallForward(q)
          /\ DispatchWith(b.fn, p) = dispatchCallForward(p)
        BY <1>10 DEF DispatchWith
    <2> QED BY <1>25, <2>1, CallForwardSent
<1>11. CASE b.fn = "dispatchCdmaSms"
    <2>1. /\ DispatchWith(b.fn, q) = dispatchCdmaSms(q)
          /\ DispatchWith(b.fn, p) = dispatchCdmaSms(p)
        BY <1>11 DEF DispatchWith
    <2> QED BY <1>25, <2>1, CdmaSmsSent
<1>12. CASE b.fn = "dispatchImsSms"
    <2>1. /\ DispatchWith(b.fn, q) = dispatchImsSms(q)
          /\ DispatchWith(b.fn, p) = dispatchImsSms(p)
        BY <1>12 DEF DispatchWith
    <2> QED BY <1>25, <1>12, <1>0, <2>1, ImsSmsSent
<1>13. CASE b.fn = "dispatchCdmaSmsAck"
    <2>1. /\ DispatchWith(b.fn, q) = dispatchCdmaSmsAck(q)
          /\ DispatchWith(b.fn, p) = dispatchCdmaSmsAck(p)
        BY <1>13 DEF DispatchWith
    <2> QED BY <1>25, <2>1, CdmaSmsAckSent
<1>14. CASE b.fn = "dispatchGsmBrSmsCnf"
    <2>1. /\ DispatchWith(b.fn, q) = dispatchGsmBrSmsCnf(q)
          /\ DispatchWith(b.fn, p) = dispatchGsmBrSmsCnf(p)
        BY <1>14 DEF DispatchWith
    <2> QED BY <1>25, <1>14, <1>0, <2>1, GsmBrSmsCnfSent
<1>15. CASE b.fn = "dispatchCdmaBrSmsCnf"
    <2>1. /\ DispatchWith(b.fn, q) = dispatchCdmaBrSmsCnf(q)
          /\ DispatchWith(b.fn, p) = dispatchCdmaBrSmsCnf(p)
        BY <1>15 DEF DispatchWith
    <2> QED BY <1>25, <1>15, <1>0, <2>1, CdmaBrSmsCnfSent
<1>16. CASE b.fn = "dispatchRilCdmaSmsWriteArgs"
    <2>1. /\ DispatchWith(b.fn, q) = dispatchRilCdmaSmsWriteArgs(q)
          /\ DispatchWith(b.fn, p) = dispatchRilCdmaSmsWriteArgs(p)
        BY <1>16 DEF DispatchWith
    <2> QED BY <1>25, <2>1, RilCdmaSmsWriteArgsSent
<1>17. CASE b.fn = "dispatchDataCall"
    <2>1. /\ DispatchWith(b.fn, q) = dispatchDataCall(q, version)
          /\ DispatchWith(b.fn, p) = dispatchDataCall(p, version)
        BY <1>17 DEF DispatchWith
    <2> QED BY <1>25, <1>17, <1>0, <1>26, <2>1, DataCallSent
<1>18. CASE b.fn = "dispatchSetInitialAttachApn"
    <2>1. /\ DispatchWith(b.fn, q) = dispatchSetInitialAttachApn(q)
          /\ DispatchWith(b.fn, p) = dispatchSetInitialAttachApn(p)
        BY <1>18 DEF DispatchWith
    <2> QED BY <1>25, <2>1, SetInitialAttachApnSent
<1>19. CASE b.fn = "dispatchNVReadItem"
    <2>1. /\ DispatchWith(b.fn, q) = dispatchNVReadItem(q)
          /\ DispatchWith(b.fn, p) = dispatchNVReadItem(p)
        BY <1>19 DEF DispatchWith
    <2> QED BY <1>25, <2>1, NVReadItemSent
<1>20. CASE b.fn = "dispatchNVWriteItem"
    <2>1. /\ DispatchWith(b.fn, q) = dispatchNVWriteItem(q)
          /\ DispatchWith(b.fn, p) = dispatchNVWriteItem(p)
        BY <1>20 DEF DispatchWith
    <2> QED BY <1>25, <2>1, NVWriteItemSent
<1>21. CASE b.fn = "dispatchUiccSubscripton"
    <2>1. /\ DispatchWith(b.fn, q) = dispatchUiccSubscripton(q)
          /\ DispatchWith(b.fn, p) = dispatchUiccSubscripton(p)
        BY <1>21 DEF DispatchWith
    <2> QED BY <1>25, <2>1, UiccSubscriptonSent
<1>22. CASE b.fn = "dispatchSimAuthentication"
    <2>1. /\ DispatchWith(b.fn, q) = dispatchSimAuthentication(q)
          /\ DispatchWith(b.fn, p) = dispatchSimAuthentication(p)
        BY <1>22 DEF DispatchWith
    <2> QED BY <1>25, <2>1, SimAuthenticationSent
<1>23. CASE b.fn = "dispatchDataProfile"
    <2>1. /\ DispatchWith(b.fn, q) = dispatchDataProfile(q)
          /\ DispatchWith(b.fn, p) = dispatchDataProfile(p)
        BY <1>23 DEF DispatchWith
    <2> QED BY <1>25, <1>23, <1>0, <2>1, DataProfileSent
<1>24. CASE b.fn = "dispatchRadioCapability"
    <2>1. /\ DispatchWith(b.fn, q) = dispatchRadioCapability(q)
          /\ DispatchWith(b.fn, p) = dispatchRadioCapability(p)
        BY <1>24 DEF DispatchWith
    <2> QED BY <1>25, <2>1, RadioCapabilitySent
<1> QED BY <1>0, <1>1, <1>2, <1>3, <1>4, <1>5, <1>6, <1>7, <1>8, <1>9, <1>10, <1>11, <1>12, <1>13, <1>14, <1>15, <1>16, <1>17, <1>18, <1>19, <1>20, <1>21, <1>22, <1>23, <1>24 DEF DispatchFunction

\* It is established when a block is dispatched, and forgotten by any other step.
GetsWhatWasSent == version \in Version /\ VendorGetsWhatWasSent

LEMMA DispatchBlockGets ==
    ASSUME GetsWhatWasSent, NEW b \in Block, NEW n \in 0..Len(b.p), DispatchBlock(b, n)
    PROVE  GetsWhatWasSent'
<1>1. PICK x, y : x = DispatchWith(b.fn, SubSeq(b.p, 1, n)) /\ y = DispatchWith(b.fn, b.p)
    OBVIOUS
<1>2. Sent(x, y)
    BY <1>1, DispatchSent DEF GetsWhatWasSent
<1>3. exchange' = [kind |-> "request", b |-> b, n |-> n, full |-> y.args, r |-> x]
    BY <1>1 DEF DispatchBlock
<1>4. exchange'.full = y.args /\ exchange'.r = x
    BY <1>3
<1>5. VendorGetsWhatWasSent'
    BY <1>2, <1>4 DEF Sent, VendorGetsWhatWasSent
<1>6. version' \in Version
    BY DEF DispatchBlock, GetsWhatWasSent
<1> QED BY <1>5, <1>6 DEF GetsWhatWasSent

LEMMA OtherGets ==
    ASSUME GetsWhatWasSent, UNCHANGED version, exchange'.kind # "request"
    PROVE  GetsWhatWasSent'
BY DEF GetsWhatWasSent, VendorGetsWhatWasSent

LEMMA ForgetsGets ==
    ASSUME GetsWhatWasSent, UNCHANGED version, exchange' = NoExchange
    PROVE  GetsWhatWasSent'
<1>1. exchange'.kind # "request"
    BY DEF NoExchange
<1> QED BY <1>1, OtherGets

LEMMA BeginForgets ==
    ASSUME NEW t, NEW l, NEW a, Begin(t, l, a)
    PROVE  UNCHANGED version /\ exchange' = NoExchange
BY DEF Begin

LEMMA ContinueForgets ==
    ASSUME NEW t, NEW l, NEW a, Continue(t, l, a)
    PROVE  UNCHANGED version /\ exchange' = NoExchange
BY DEF Continue, Goto

LEMMA StepForgets ==
    ASSUME NEW t, NEW k, NEW s, Step(t, k, s)
    PROVE  UNCHANGED version /\ exchange' = NoExchange
BY ContinueForgets DEF Step

LEMMA NextGets == GetsWhatWasSent /\ [Next]_vars => GetsWhatWasSent'
<1> SUFFICES ASSUME GetsWhatWasSent, [Next]_vars PROVE GetsWhatWasSent'
    OBVIOUS
<1>1. CASE UNCHANGED vars
    BY <1>1 DEF vars, GetsWhatWasSent, VendorGetsWhatWasSent
<1>2. ASSUME NEW b \in Block, NEW n \in 0..Len(b.p), DispatchBlock(b, n)
      PROVE  GetsWhatWasSent'
    BY <1>2, DispatchBlockGets
<1>3. ASSUME NEW a \in Data, Answer(a) PROVE GetsWhatWasSent'
    <2>1. UNCHANGED version /\ exchange'.kind = "answer"
        BY <1>3 DEF Answer
    <2> QED BY <2>1, OtherGets
<1>4. CASE \/ \E s \in RadioState : SetRadioState(s)
           \/ ClientGone
           \/ \E t \in VThread : \E null \in BOOLEAN : responseEnterSimPin(t, null)
    BY <1>4, ForgetsGets DEF SetRadioState, ClientGone, responseEnterSimPin
<1>5. CASE \/ \E k \in {"tech", "source"} : dispatchVoiceRadioTech(k)
           \/ \E on \in {0, 1} : dispatchRadioPower(<<Word(1), Word(on)>>)
           \/ \E t \in Thread : Report(t)
           \/ \E t \in VThread : \E l \in Calls : ListDataCalls(t, l)
    BY <1>5, BeginForgets, ForgetsGets DEF dispatchVoiceRadioTech, dispatchRadioPower, Report,
       ListDataCalls
<1>6. CASE StoreDecoded \/ AnswerDecoded \/ OnRequestRadioPower
    BY <1>6, ContinueForgets, ForgetsGets DEF StoreDecoded, AnswerDecoded, OnRequestRadioPower
<1>7. ASSUME NEW t \in Thread, Compare(t) \/ StoreNew(t) \/ Notify(t) PROVE GetsWhatWasSent'
    BY <1>7, ContinueForgets, StepForgets, ForgetsGets DEF Compare, StoreNew, Notify
<1>8. ASSUME NEW t \in VThread,
             \/ CompletePower(t) \/ responseRadioPower(t)
             \/ SettleFailed(t) \/ SettleGood(t) \/ LoadFailures(t) \/ StoreFailures(t)
             \/ TestFailures(t) \/ ResetFailures(t)
      PROVE  GetsWhatWasSent'
    BY <1>8, ContinueForgets, ForgetsGets DEF CompletePower, responseRadioPower, SettleFailed,
       SettleGood, LoadFailures, StoreFailures, TestFailures, ResetFailures, Settle
<1>9. ASSUME NEW t \in VThread, WriteDataCalls(t) PROVE GetsWhatWasSent'
    <2>1. UNCHANGED version /\ exchange'.kind = "answer"
        BY <1>9 DEF WriteDataCalls, Goto
    <2> QED BY <2>1, OtherGets
<1> QED BY <1>1, <1>2, <1>3, <1>4, <1>5, <1>6, <1>7, <1>8, <1>9 DEF Next

\* VendorGetsWhatWasSent for every request, every place where its block may end, every
\* version and all room for digits: the dispatch functions look at the status of only some
\* of their reads, and yet a function that calls the vendor has read everything but strings
\* and bytes, which are NULL when they are missing.
THEOREM AlwaysWhatWasSent == Spec => []VendorGetsWhatWasSent
<1>1. Init => GetsWhatWasSent
    BY DEF Init, NoExchange, GetsWhatWasSent, VendorGetsWhatWasSent
<1>2. GetsWhatWasSent => VendorGetsWhatWasSent
    BY DEF GetsWhatWasSent
<1> QED BY <1>1, <1>2, NextGets, PTL DEF Spec

=============================================================================
