----------------------------- MODULE RilMarshal -----------------------------
(***************************************************************************)
(* The marshalling of requests and answers, and the state ril.cpp keeps    *)
(* across them: the voice radio technology, the subscription source and    *)
(* the SIM's status it decodes for a vendor that reports the old radio     *)
(* states; whether the radio was last asked to be on; and how many data    *)
(* calls in a row came without DNS servers.  All of it is static data      *)
(* without a lock, used by the dispatch thread and by the vendor's.        *)
(*                                                                         *)
(* A step is one access to a shared variable, or a call into the vendor.   *)
(* The functions without a state of their own (RilDispatch, RilRespond)    *)
(* are tried one at a time, before anything else happens, and leave what   *)
(* they did in exchange.  How answers travel, and how requests wait for    *)
(* them, is RilRequests and RilUnsol.                                      *)
(***************************************************************************)
EXTENDS RilDispatch, RilRespond, RilClient

CONSTANTS
    Dispatch,   \* the dispatch thread
    VThread,    \* the vendor's threads
    Version,    \* the versions a vendor may register with
    RadioState, \* the radio states the vendor goes through
    Block,      \* the requests: [fn, p]
    Data,       \* the answers: [fn, d]
    Calls,      \* the lists of data calls of a RIL_Data_Call_Response_v6
    MaxCall     \* bound: the calls of the client and of the vendor

RIL_VERSION_MIN == 6
RIL_VERSION == 11

ASSUME MarshalAssumption ==
    /\ Version \subseteq RIL_VERSION_MIN..RIL_VERSION
    /\ Dispatch \notin VThread
    /\ MaxCall \in Nat

DispatchFunction ==
    {"dispatchVoid", "dispatchString", "dispatchStrings", "dispatchInts", "dispatchRaw",
     "dispatchSmsWrite", "dispatchDial", "dispatchSIM_IO", "dispatchSIM_APDU",
     "dispatchCallForward", "dispatchCdmaSms", "dispatchImsSms", "dispatchCdmaSmsAck",
     "dispatchGsmBrSmsCnf", "dispatchCdmaBrSmsCnf", "dispatchRilCdmaSmsWriteArgs",
     "dispatchDataCall", "dispatchSetInitialAttachApn", "dispatchNVReadItem",
     "dispatchNVWriteItem", "dispatchUiccSubscripton", "dispatchSimAuthentication",
     "dispatchDataProfile", "dispatchRadioCapability"}

\* The blocks are sequences of fields.  A count that becomes the length of an array on the
\* stack is one, or -1 where the function knows that as no array: what happens with less,
\* and with one that is no int, the code leaves undefined.
ASSUME BlockAssumption ==
    \A b \in Block :
        /\ b.fn \in DispatchFunction /\ b.p \in Seq(Field)
        /\ b.fn \in {"dispatchStrings", "dispatchDataCall"} => Counts(b.p, 1, Nat \cup {-1})
        /\ b.fn \in {"dispatchInts", "dispatchGsmBrSmsCnf", "dispatchCdmaBrSmsCnf",
                     "dispatchDataProfile"} => Counts(b.p, 1, Nat)
        /\ b.fn = "dispatchImsSms" /\ ImsHeader(b.p).s["tech"] = RADIO_TECH_3GPP =>
             Counts(b.p, 4, Nat \cup {-1})

Thread == {Dispatch} \cup VThread

MAX_DNS_FAILURES == 3
PDP_FAIL_ACTIVATION_REJECT_UNSPECIFIED == 31
PDP_FAIL_REGULAR_DEACTIVATION == 36

Unknown == "-1"
NoExchange == [kind |-> "none"]

VARIABLES
    version,        \* s_callbacks.version
    radioState,     \* what the vendor's onStateRequest returns
    decoded,        \* voiceRadioTech, cdmaSubscriptionSource, simRuimStatus
    told,           \* per decoded value: what the client was told since it last changed
    radio_is_on,    \* the last RADIO_POWER request was to turn it on
    power,          \* RADIO_POWER requests the vendor has not answered
    selected,       \* automatic selection was issued since the last RADIO_POWER
    gone,           \* the client has gone since the last RADIO_POWER
    n_dns_failures, \* data calls in a row without DNS servers
    pc,             \* what each thread does next
    arg,            \* and with what
    exchange,       \* what the last stateless function was given and made of it
    calls           \* calls so far

radioVars == <<radioState, decoded, told>>
powerVars == <<radio_is_on, power, selected, gone>>
vars == <<version, radioVars, powerVars, n_dns_failures, pc, arg, exchange, calls>>

Init ==
    /\ version \in Version
    /\ radioState = "UNAVAILABLE"
    /\ decoded = [k \in {"tech", "source", "sim"} |-> Unknown]
    /\ told = [k \in {"tech", "source", "sim"} |-> {}]
    /\ radio_is_on = FALSE /\ power = 0 /\ selected = FALSE /\ gone = FALSE
    /\ n_dns_failures = 0
    /\ pc = [t \in Thread |-> "idle"]
    /\ arg = [t \in Thread |-> <<>>]
    /\ exchange = NoExchange
    /\ calls = 0

\* A thread begins to handle a call.
Begin(t, label, a) ==
    /\ pc[t] = "idle" /\ calls < MaxCall
    /\ pc' = [pc EXCEPT ![t] = label]
    /\ arg' = [arg EXCEPT ![t] = a]
    /\ calls' = calls + 1
    /\ exchange' = NoExchange
    /\ UNCHANGED version

\* A thread goes on, at last to "idle".
Goto(t, label, a) ==
    /\ pc' = [pc EXCEPT ![t] = label]
    /\ arg' = [arg EXCEPT ![t] = IF label = "idle" THEN <<>> ELSE a]
    /\ UNCHANGED <<version, calls>>

Continue(t, label, a) == Goto(t, label, a) /\ exchange' = NoExchange

-----------------------------------------------------------------------------
(* The functions without state.                                            *)

DispatchWith(fn, p) ==
    CASE fn = "dispatchVoid" -> dispatchVoid(p)
      [] fn = "dispatchString" -> dispatchString(p)
      [] fn = "dispatchStrings" -> dispatchStrings(p)
      [] fn = "dispatchInts" -> dispatchInts(p)
      [] fn = "dispatchRaw" -> dispatchRaw(p)
      [] fn = "dispatchSmsWrite" -> dispatchSmsWrite(p)
      [] fn = "dispatchDial" -> dispatchDial(p, version)
      [] fn = "dispatchSIM_IO" -> dispatchSIM_IO(p, version)
      [] fn = "dispatchSIM_APDU" -> dispatchSIM_APDU(p)
      [] fn = "dispatchCallForward" -> dispatchCallForward(p)
      [] fn = "dispatchCdmaSms" -> dispatchCdmaSms(p)
      [] fn = "dispatchImsSms" -> dispatchImsSms(p)
      [] fn = "dispatchCdmaSmsAck" -> dispatchCdmaSmsAck(p)
      [] fn = "dispatchGsmBrSmsCnf" -> dispatchGsmBrSmsCnf(p)
      [] fn = "dispatchCdmaBrSmsCnf" -> dispatchCdmaBrSmsCnf(p)
      [] fn = "dispatchRilCdmaSmsWriteArgs" -> dispatchRilCdmaSmsWriteArgs(p)
      [] fn = "dispatchDataCall" -> dispatchDataCall(p, version)
      [] fn = "dispatchSetInitialAttachApn" -> dispatchSetInitialAttachApn(p)
      [] fn = "dispatchNVReadItem" -> dispatchNVReadItem(p)
      [] fn = "dispatchNVWriteItem" -> dispatchNVWriteItem(p)
      [] fn = "dispatchUiccSubscripton" -> dispatchUiccSubscripton(p)
      [] fn = "dispatchSimAuthentication" -> dispatchSimAuthentication(p)
      [] fn = "dispatchDataProfile" -> dispatchDataProfile(p)
      [] fn = "dispatchRadioCapability" -> dispatchRadioCapability(p)

RespondWith(fn, d) ==
    CASE fn = "responseInts" -> responseInts(d)
      [] fn = "responseFailCause" -> responseFailCause(d)
      [] fn = "responseStrings" -> responseStrings(d)
      [] fn = "responseString" -> responseString(d)
      [] fn = "responseVoid" -> responseVoid(d)
      [] fn = "responseRaw" -> responseRaw(d)
      [] fn = "responseCallList" -> responseCallList(d, version)
      [] fn = "responseSMS" -> responseSMS(d)
      [] fn = "responseSIM_IO" -> responseSIM_IO(d)
      [] fn = "responseCallForwards" -> responseCallForwards(d)
      [] fn = "responseSsn" -> responseSsn(d)
      [] fn = "responseCellList" -> responseCellList(d)
      [] fn = "responseSimStatus" -> responseSimStatus(d)
      [] fn = "responseSimRefresh" -> responseSimRefresh(d, version)
      [] fn = "responseGsmBrSmsCnf" -> responseGsmBrSmsCnf(d)
      [] fn = "responseCdmaBrSmsCnf" -> responseCdmaBrSmsCnf(d)
      [] fn = "responseCdmaSms" -> responseCdmaSms(d)
      [] fn = "responseDcRtInfo" -> responseDcRtInfo(d)
      [] fn = "responseDataCallList" -> responseDataCallList(d, version)
      [] fn = "responseSetupDataCall" -> responseSetupDataCall(d, version)
      [] fn = "responseRilSignalStrength" -> responseRilSignalStrength(d, version)
      [] fn = "responseCallRing" -> responseCallRing(d)
      [] fn = "responseCdmaSignalInfoRecord" -> responseCdmaSignalInfoRecord(d)
      [] fn = "responseCdmaCallWaiting" -> responseCdmaCallWaiting(d)
      [] fn = "responseCellInfoList" -> responseCellInfoList(d)
      [] fn = "responseCdmaInformationRecords" -> responseCdmaInformationRecords(d)
      [] fn = "responseHardwareConfig" -> responseHardwareConfig(d)
      [] fn = "responseSSData" -> responseSSData(d)

Untouched == exchange = NoExchange /\ calls = 0 /\ \A t \in Thread : pc[t] = "idle"

\* A request whose block ends after n fields; its sender may know fewer of them.
DispatchBlock(b, n) ==
    /\ Untouched
    /\ exchange' = [kind |-> "request", b |-> b, n |-> n,
                    full |-> DispatchWith(b.fn, b.p).args,
                    r |-> DispatchWith(b.fn, SubSeq(b.p, 1, n))]
    /\ UNCHANGED <<version, radioVars, powerVars, n_dns_failures, pc, arg, calls>>

\* The vendor's data becomes an answer or an unsolicited response.
Answer(a) ==
    /\ Untouched
    /\ exchange' = [kind |-> "answer", a |-> a, r |-> RespondWith(a.fn, a.d)]
    /\ UNCHANGED <<version, radioVars, powerVars, n_dns_failures, pc, arg, calls>>

-----------------------------------------------------------------------------
(* The decoded radio state.                                                *)

SimStates == {"SIM_NOT_READY", "SIM_LOCKED_OR_ABSENT", "SIM_READY"}
RuimStates == {"RUIM_NOT_READY", "RUIM_READY", "RUIM_LOCKED_OR_ABSENT"}
NvStates == {"NV_NOT_READY", "NV_READY"}
OldStates == SimStates \cup RuimStates \cup NvStates

decodeVoiceRadioTechnology(s) ==
    IF s \in SimStates THEN "UMTS" ELSE IF s \in RuimStates \cup NvStates THEN "1xRTT" ELSE Unknown

decodeCdmaSubscriptionSource(s) ==
    IF s \in SimStates \cup RuimStates THEN "RUIM_SIM" ELSE IF s \in NvStates THEN "NV" ELSE Unknown

decodeSimStatus(s) ==
    IF s \in {"SIM_LOCKED_OR_ABSENT", "SIM_READY", "RUIM_READY", "RUIM_LOCKED_OR_ABSENT"} THEN s
    ELSE Unknown

is3gpp2(tech) == tech = "1xRTT"

Decode(k, s) ==
    CASE k = "tech" -> decodeVoiceRadioTechnology(s)
      [] k = "source" -> decodeCdmaSubscriptionSource(s)
      [] k = "sim" -> decodeSimStatus(s)

\* What is looked at after k; the source only for a technology that has one.
Following(k, s) ==
    CASE k = "tech" -> IF is3gpp2(Decode("tech", s)) THEN "source" ELSE "sim"
      [] k = "source" -> "sim"
      [] k = "sim" -> "done"

Store(k, v) ==
    /\ decoded' = [decoded EXCEPT ![k] = v]
    /\ told' = [told EXCEPT ![k] = IF decoded[k] = v THEN @ ELSE {}]

Tell(k) == told' = [told EXCEPT ![k] = @ \cup {decoded[k]}]

SetRadioState(s) ==
    /\ s # radioState /\ calls < MaxCall
    /\ radioState' = s
    /\ calls' = calls + 1
    /\ exchange' = NoExchange
    /\ UNCHANGED <<version, decoded, told, powerVars, n_dns_failures, pc, arg>>

\* RADIO_STATE_CHANGED is reported, by the vendor or to a client that has connected: the
\* state is read, and decoded if it is an old one.
Report(t) ==
    /\ radioState \in OldStates
    /\ Begin(t, "compare", [k |-> "tech", s |-> radioState])
    /\ UNCHANGED <<radioVars, powerVars, n_dns_failures>>

Step(t, k, s) ==
    IF k = "done" THEN Continue(t, "idle", <<>>) ELSE Continue(t, "compare", [k |-> k, s |-> s])

\* Mutant: the value is stored before it is compared, so that it never differs.
Compare_Stored(t) ==
    LET k == arg[t].k  s == arg[t].s
    IN  /\ pc[t] = "compare"
        /\ Store(k, Decode(k, s))
        /\ Step(t, Following(k, s), s)
        /\ UNCHANGED <<radioState, powerVars, n_dns_failures>>

\* Nothing is sent when the value is the stored one.
Compare(t) ==
    LET k == arg[t].k  s == arg[t].s
    IN  /\ pc[t] = "compare"
        /\ IF Decode(k, s) # decoded[k] THEN Continue(t, "store", arg[t])
           ELSE Step(t, Following(k, s), s)
        /\ UNCHANGED <<radioVars, powerVars, n_dns_failures>>

StoreNew(t) ==
    /\ pc[t] = "store"
    /\ Store(arg[t].k, Decode(arg[t].k, arg[t].s))
    /\ Continue(t, "notify", arg[t])
    /\ UNCHANGED <<radioState, powerVars, n_dns_failures>>

\* The value is read again to be sent; SIM_STATUS_CHANGED has none, the client asks.
Notify(t) ==
    /\ pc[t] = "notify"
    /\ Tell(arg[t].k)
    /\ Step(t, Following(arg[t].k, arg[t].s), arg[t].s)
    /\ UNCHANGED <<radioState, decoded, powerVars, n_dns_failures>>

\* VOICE_RADIO_TECH and CDMA_GET_SUBSCRIPTION_SOURCE: a radio that is ON leaves them to
\* the vendor; one that is off is answered, and decoded all the same.
dispatchVoiceRadioTech(k) ==
    /\ radioState # "ON"
    /\ Begin(Dispatch, "decode", [k |-> k, s |-> radioState])
    /\ UNCHANGED <<radioVars, powerVars, n_dns_failures>>

StoreDecoded ==
    /\ pc[Dispatch] = "decode"
    /\ Store(arg[Dispatch].k, Decode(arg[Dispatch].k, arg[Dispatch].s))
    /\ Continue(Dispatch, IF arg[Dispatch].s \in {"OFF", "UNAVAILABLE"} THEN "idle" ELSE "answer",
                arg[Dispatch])
    /\ UNCHANGED <<radioState, powerVars, n_dns_failures>>

\* The value is read again for the answer.
AnswerDecoded ==
    /\ pc[Dispatch] = "answer"
    /\ Tell(arg[Dispatch].k)
    /\ Continue(Dispatch, "idle", <<>>)
    /\ UNCHANGED <<radioState, decoded, powerVars, n_dns_failures>>

-----------------------------------------------------------------------------
(* The radio's power.                                                      *)

\* The flag is set before the vendor is called; without a flag nothing happens.
dispatchRadioPower(p) ==
    LET r == Read(p, 1, int32s(<<"count", "is_on">>))
    IN  /\ r.ok /\ r.s["count"] # 0
        /\ Begin(Dispatch, "power", p)
        /\ radio_is_on' = (r.s["is_on"] # 0)
        /\ selected' = FALSE /\ gone' = FALSE
        /\ UNCHANGED <<radioVars, power, n_dns_failures>>

OnRequestRadioPower ==
    /\ pc[Dispatch] = "power"
    /\ power' = IF dispatchInts(arg[Dispatch]).called THEN power + 1 ELSE power
    /\ Continue(Dispatch, "idle", <<>>)
    /\ UNCHANGED <<radioVars, radio_is_on, selected, gone, n_dns_failures>>

\* The client's requests are cancelled, and answered without a response function.
ClientGone ==
    /\ pc[Dispatch] = "idle" /\ power > 0
    /\ power' = 0 /\ gone' = TRUE
    /\ exchange' = NoExchange
    /\ UNCHANGED <<version, radioVars, radio_is_on, selected, n_dns_failures, pc, arg, calls>>

\* Mutant: only data is worth an answer.
shouldCallResponseFunction_NotForNull(isPower, null) == ~null

\* RADIO_POWER has its response function called without data too, whatever the error is.
shouldCallResponseFunction(isPower, null) == isPower \/ ~null

CompletePower(t) ==
    /\ pc[t] = "idle" /\ power > 0
    /\ power' = power - 1
    /\ Continue(t, IF shouldCallResponseFunction(TRUE, TRUE) THEN "respond" ELSE "idle", <<>>)
    /\ UNCHANGED <<radioVars, radio_is_on, selected, gone, n_dns_failures>>

responseRadioPower(t) ==
    /\ pc[t] = "respond"
    /\ selected' = (selected \/ radio_is_on)
    /\ Continue(t, "idle", <<>>)
    /\ UNCHANGED <<radioVars, radio_is_on, power, gone, n_dns_failures>>

\* An unlocked card is one more reason to select a network, once there is an answer.
responseEnterSimPin(t, null) ==
    /\ pc[t] = "idle" /\ calls < MaxCall
    /\ shouldCallResponseFunction(FALSE, null)
    /\ selected' = TRUE
    /\ calls' = calls + 1
    /\ exchange' = NoExchange
    /\ UNCHANGED <<version, radioVars, radio_is_on, power, gone, n_dns_failures, pc, arg>>

-----------------------------------------------------------------------------
(* Data calls without DNS servers.                                         *)

is_valid_addr(addr) == addr \notin {NULL, "0.0.0.0", "::"}

\* The status was copied over a short: the upper half of the int means nothing.
ShortStatus(status) == ((status + 32768) % 65536) - 32768

ListDataCalls(t, l) ==
    /\ Begin(t, "dns", [l |-> l, done |-> <<>>, n |-> 0])
    /\ UNCHANGED <<radioVars, powerVars, n_dns_failures>>

Entry(t) == arg[t].l[Len(arg[t].done) + 1]

\* The next entry is settled with this status.
Settle(t, status) ==
    Continue(t, "dns", [arg[t] EXCEPT !.done = Append(@, [Entry(t) EXCEPT !["status"] = status])])

MoreEntries(t) == pc[t] = "dns" /\ Len(arg[t].done) < Len(arg[t].l)

SettleFailed(t) ==
    /\ MoreEntries(t)
    /\ ShortStatus(Entry(t)["status"]) # 0
    /\ Settle(t, ShortStatus(Entry(t)["status"]))
    /\ UNCHANGED <<radioVars, powerVars, n_dns_failures>>

SettleGood(t) ==
    /\ MoreEntries(t)
    /\ ShortStatus(Entry(t)["status"]) = 0 /\ is_valid_addr(Entry(t)["dnses"])
    /\ n_dns_failures' = 0
    /\ Settle(t, 0)
    /\ UNCHANGED <<radioVars, powerVars>>

LoadFailures(t) ==
    /\ MoreEntries(t)
    /\ ShortStatus(Entry(t)["status"]) = 0 /\ ~is_valid_addr(Entry(t)["dnses"])
    /\ Continue(t, "dnsstore", [arg[t] EXCEPT !.n = n_dns_failures + 1])
    /\ UNCHANGED <<radioVars, powerVars, n_dns_failures>>

StoreFailures(t) ==
    /\ pc[t] = "dnsstore"
    /\ n_dns_failures' = arg[t].n
    /\ Continue(t, "dnstest", arg[t])
    /\ UNCHANGED <<radioVars, powerVars>>

\* Mutant: the limit has to be met exactly.
TooMany_Equal(n) == n = MAX_DNS_FAILURES

TooMany(n) == n >= MAX_DNS_FAILURES

\* The compiler may test the value it has stored, or read it again.
TestFailures(t) ==
    /\ pc[t] = "dnstest"
    /\ \E seen \in {arg[t].n, n_dns_failures} :
         IF TooMany(seen) THEN Continue(t, "dnsreset", arg[t])
         ELSE Settle(t, PDP_FAIL_ACTIVATION_REJECT_UNSPECIFIED)
    /\ UNCHANGED <<radioVars, powerVars, n_dns_failures>>

ResetFailures(t) ==
    /\ pc[t] = "dnsreset"
    /\ n_dns_failures' = 0
    /\ Settle(t, PDP_FAIL_REGULAR_DEACTIVATION)
    /\ UNCHANGED <<radioVars, powerVars>>

WriteDataCalls(t) ==
    /\ pc[t] = "dns" /\ Len(arg[t].done) = Len(arg[t].l)
    /\ LET d == [null |-> FALSE, items |-> arg[t].done,
                 len |-> Len(arg[t].done) * sizeof.RIL_Data_Call_Response_v6]
       IN  exchange' = [kind |-> "answer", a |-> [fn |-> "responseDataCallList", d |-> d],
                        r |-> RespondWith("responseDataCallList", d)]
    /\ Goto(t, "idle", <<>>)
    /\ UNCHANGED <<radioVars, powerVars, n_dns_failures>>

-----------------------------------------------------------------------------
Next ==
    \/ \E b \in Block : \E n \in 0..Len(b.p) : DispatchBlock(b, n)
    \/ \E a \in Data : Answer(a)
    \/ \E s \in RadioState : SetRadioState(s)
    \/ \E k \in {"tech", "source"} : dispatchVoiceRadioTech(k)
    \/ StoreDecoded \/ AnswerDecoded
    \/ \E on \in {0, 1} : dispatchRadioPower(<<Word(1), Word(on)>>)
    \/ OnRequestRadioPower \/ ClientGone
    \/ \E t \in Thread : Report(t) \/ Compare(t) \/ StoreNew(t) \/ Notify(t)
    \/ \E t \in VThread :
         \/ CompletePower(t) \/ responseRadioPower(t)
         \/ \E null \in BOOLEAN : responseEnterSimPin(t, null)
         \/ \E l \in Calls : ListDataCalls(t, l)
         \/ SettleFailed(t) \/ SettleGood(t) \/ LoadFailures(t) \/ StoreFailures(t)
         \/ TestFailures(t) \/ ResetFailures(t) \/ WriteDataCalls(t)

Spec == Init /\ [][Next]_vars

-----------------------------------------------------------------------------
(* Properties.                                                             *)

\* A request whose block ends early is given up, or called with what was sent: the same
\* list of structs, whose members are the sent ones but for strings and bytes that are
\* missing and NULL.  The dispatch functions look at the status of only some of their
\* reads (ril.cpp 558-2067); nothing that was not read may reach the vendor.
VendorGetsWhatWasSent ==
    exchange.kind = "request" /\ exchange.r.called /\ exchange.r.args # NULL =>
        /\ Len(exchange.r.args) = Len(exchange.full)
        /\ \A i \in DOMAIN exchange.full :
             \A name \in DOMAIN exchange.r.args[i] :
                exchange.r.args[i][name] \in {exchange.full[i][name], NULL}

\* What the client takes back to the vendor: a whole answer, or each entry of one.
BackToVendor ==
    LET fn == exchange.a.fn
        p  == exchange.r.p
        same == "responseGsmBrSmsCnf" :> "dispatchGsmBrSmsCnf"
                @@ "responseCdmaBrSmsCnf" :> "dispatchCdmaBrSmsCnf"
                @@ "responseStrings" :> "dispatchStrings" @@ "responseInts" :> "dispatchInts"
                @@ "responseRaw" :> "dispatchRaw" @@ "responseCdmaSms" :> "dispatchCdmaSms"
        nothing == \/ fn = "responseInts" /\ p = <<Word(0)>>
                   \/ fn = "responseRaw" /\ p = <<Word(-1)>>
    IN  IF fn = "responseCallForwards"
        THEN FlattenSeq([i \in 1..p[1].int |->
                 dispatchCallForward(SubSeq(p, 6 * i - 4, 6 * i + 1)).args])
        ELSE IF fn \in DOMAIN same /\ ~nothing THEN DispatchWith(same[fn], p).args
        ELSE exchange.a.d.items

\* A configuration the client got and sets again comes back to the vendor as it was: the
\* broadcast configurations, the call forwardings, a CDMA message and plain data are read
\* in the order and with the bounds they were written with (ril.cpp 1397-1514, 3537-3640).
SetTakesWhatGetGave ==
    exchange.kind = "answer" /\ exchange.r.ret0 => BackToVendor = exchange.a.d.items

\* An answer says itself how it is to be read: the client, which knows neither the
\* vendor's version nor its structs, comes to the end of every answer that is not an
\* error (the version a list of data calls carries, the counts, and what says whether
\* there is more of an entry; ril.cpp 2320-2390, 2583-2652, 2812-2960, 3179-3320).
AnswerTellsItsLayout ==
    exchange.kind = "answer" /\ exchange.r.ret0 /\ exchange.a.fn # "responseHardwareConfig" =>
        ReadBy(exchange.a.fn, exchange.r.p) = Len(exchange.r.p) + 1

\* A decoded value is known to the client once every thread has done with it, although
\* requests assign it as well and a report keeps quiet about what is assigned already
\* (ril.cpp 1642-1691, 4674-4706).
TechTold ==
    (\A t \in Thread : pc[t] \notin {"compare", "store", "notify", "decode", "answer"}) =>
        \A k \in DOMAIN decoded : decoded[k] = Unknown \/ decoded[k] \in told[k]

\* When every RADIO_POWER request has been answered and the last one turned the radio on,
\* a network selection has been issued since that request: the answers look at a flag
\* that requests on their way may have changed (ril.cpp 2043-2067, 2299-2318, 4483-4488).
AutomaticSelected ==
    /\ power = 0 /\ radio_is_on /\ ~gone
    /\ \A t \in Thread : pc[t] \notin {"power", "respond"}
    => selected

\* The count is below its limit when nobody is working on it, even if two lists were
\* answered at once: it never passes the limit and stays (ril.cpp 2485-2503).
DnsCountBounded ==
    (\A t \in VThread : pc[t] \notin {"dnsstore", "dnstest", "dnsreset"}) =>
        n_dns_failures < MAX_DNS_FAILURES

=============================================================================
