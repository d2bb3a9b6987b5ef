---------------------------- MODULE MCRilMarshal ----------------------------
(* An instance of RilMarshal: for each dispatch function a request as the    *)
(* client writes it, for each response function data as a vendor passes it,  *)
(* with and without what is optional, and lists with one length too much.    *)
EXTENDS RilMarshal

Ints(n) == [i \in 1..n |-> Word(i)]
Texts(n) == [i \in 1..n |-> Text(<<"a", "b", "c", "d", "e", "f", "g", "h">>[i])]
Bytes(n) == [i \in 1..n |-> [byte |-> i]]
Byte(n) == <<[byte |-> n]>>
Raw == <<[raw |-> <<1, 2>>]>>
B(fn, p) == [fn |-> fn, p |-> p]

\* A CDMA message with n digits, n digits of a subaddress and n bytes of text.
Cdma(n) ==
    Ints(1) \o Byte(1) \o Ints(5) \o Byte(n) \o Bytes(n)
    \o Ints(1) \o Byte(0) \o Byte(n) \o Bytes(n) \o <<Word(n)>> \o Bytes(n)

\* One whose text has a negative length.
CdmaNoText == Ints(1) \o Byte(1) \o Ints(5) \o Byte(0) \o Ints(1) \o Byte(0) \o Byte(0) \o <<Word(-1)>>

MCBlock ==
    {B("dispatchVoid", <<>>),
     B("dispatchString", Texts(1)), B("dispatchString", <<Text(NULL)>>),
     B("dispatchStrings", <<Word(2)>> \o Texts(2)), B("dispatchStrings", <<Word(-1)>>),
     B("dispatchStrings", <<Word(0)>>),
     B("dispatchInts", <<Word(2)>> \o Ints(2)), B("dispatchInts", <<Word(0)>>),
     B("dispatchRaw", <<Word(2)>> \o Raw), B("dispatchRaw", <<Word(-1)>>),
     B("dispatchSmsWrite", Ints(1) \o Texts(2)),
     B("dispatchDial", Texts(1) \o <<Word(1), Word(0)>>),
     B("dispatchDial", Texts(1) \o <<Word(1), Word(1), Word(3), Word(4), Word(2)>> \o Raw),
     B("dispatchDial", Texts(1) \o <<Word(1), Word(1), Word(3), Word(4), Word(-1)>>),
     B("dispatchSIM_IO", Ints(2) \o Texts(1) \o Ints(3) \o Texts(3)),
     B("dispatchSIM_APDU", Ints(6) \o Texts(1)),
     B("dispatchCallForward", Ints(4) \o Texts(1) \o Ints(1)),
     B("dispatchCallForward", Ints(4) \o <<Text("")>> \o Ints(1)),
     B("dispatchCdmaSms", Cdma(1)), B("dispatchCdmaSms", Cdma(2)),
     B("dispatchCdmaSms", CdmaNoText),
     B("dispatchImsSms", <<Word(1)>> \o Byte(0) \o <<Word(5), Word(2)>> \o Texts(2)),
     B("dispatchImsSms", <<Word(1)>> \o Byte(0) \o <<Word(5), Word(-1)>>),
     B("dispatchImsSms", <<Word(2)>> \o Byte(1) \o <<Word(5)>> \o Cdma(1)),
     B("dispatchImsSms", <<Word(0)>> \o Byte(1) \o <<Word(5)>>),
     B("dispatchCdmaSmsAck", Ints(2)),
     B("dispatchGsmBrSmsCnf", <<Word(2)>> \o Ints(10)),
     B("dispatchCdmaBrSmsCnf", <<Word(2)>> \o Ints(6)),
     B("dispatchRilCdmaSmsWriteArgs",
       Ints(2) \o Byte(1) \o Ints(5) \o Byte(1) \o Bytes(RIL_CDMA_SMS_ADDRESS_MAX)
       \o Ints(1) \o Byte(0) \o Byte(1) \o Bytes(RIL_CDMA_SMS_SUBADDRESS_MAX)
       \o <<Word(1)>> \o Bytes(RIL_CDMA_SMS_BEARER_DATA_MAX)),
     B("dispatchDataCall", <<Word(7)>> \o Texts(7)),
     B("dispatchSetInitialAttachApn", Texts(2) \o Ints(1) \o Texts(2)),
     B("dispatchNVReadItem", Ints(1)), B("dispatchNVWriteItem", Ints(1) \o Texts(1)),
     B("dispatchUiccSubscripton", Ints(4)),
     B("dispatchSimAuthentication", Ints(1) \o Texts(2)),
     B("dispatchDataProfile",
       <<Word(1)>> \o Ints(1) \o Texts(2) \o Ints(1) \o Texts(2) \o Ints(5)),
     B("dispatchRadioCapability", Ints(4) \o <<Text("modem"), Word(5)>>),
     B("dispatchRadioCapability", Ints(4) \o <<Text("a name too long"), Word(5)>>)}

-----------------------------------------------------------------------------
\* A struct whose members have values of their own.
Fill(ints, strs) ==
    [n \in ToSet(ints) \cup ToSet(strs) |->
        IF n \in ToSet(ints) THEN CHOOSE i \in DOMAIN ints : ints[i] = n
        ELSE <<"a", "b", "c", "d", "e", "f">>[CHOOSE i \in DOMAIN strs : strs[i] = n]]

D(size, items) == [null |-> FALSE, len |-> size * Len(items), items |-> items]
A(fn, d) == [fn |-> fn, d |-> d]

\* What a vendor may get wrong: a null pointer with a length, one byte too much.
Wrong(d) == {[d EXCEPT !.null = TRUE], [d EXCEPT !.len = @ + 1]}
Nothing == [null |-> TRUE, len |-> 0, items |-> <<>>]

TheCall ==
    Fill(<<"state", "index", "toa", "isMpty", "isMT", "als", "isVoice", "isVoicePrivacy",
           "numberPresentation", "namePresentation">>, <<"number", "name">>)
    @@ [uusInfo |-> NULL]
TheUusCall ==
    [TheCall EXCEPT !.uusInfo = "uus"]
    @@ [uusType |-> 1, uusDcs |-> 2, uusLength |-> 2, uusData |-> <<1, 2>>]
TheForward ==
    Fill(<<"status", "reason", "serviceClass", "toa", "timeSeconds">>, <<"number">>)
TheDataCall ==
    Fill(<<"suggestedRetryTime", "cid", "active", "mtu">>,
         <<"type", "ifname", "addresses", "dnses", "gateways", "pcscf">>)
    @@ [status |-> 0]
TheApp ==
    Fill(<<"app_type", "app_state", "perso_substate", "pin1_replaced", "pin1", "pin2">>,
         <<"aid_ptr", "app_label_ptr">>)
TheCard ==
    Fill(<<"card_state", "universal_pin_state", "gsm_umts_subscription_app_index",
           "cdma_subscription_app_index", "ims_subscription_app_index">>, <<>>)
TheSignal ==
    Fill(<<"gw_signalStrength", "bitErrorRate", "cdma_dbm", "cdma_ecio", "evdo_dbm", "evdo_ecio",
           "signalNoiseRatio", "rssnr", "rscp">>, <<>>)
    @@ [lte_signalStrength |-> -1, rsrp |-> -90, rsrq |-> -1, cqi |-> 3]
TheTone == Fill(<<"isPresent", "signalType", "alertPitch", "signal">>, <<>>)
TheWaiting ==
    Fill(<<"numberPresentation", "number_type", "number_plan">>, <<"number", "name">>) @@ TheTone
TheCell(type) ==
    [n \in ToSet(cellInfo[type]) |-> 7]
    @@ [cellInfoType |-> type, registered |-> 1, timeStampType |-> 2, timeStamp |-> 9]
TheRecord(name) ==
    [i \in {infoRec[name][k].name : k \in DOMAIN infoRec[name]} |->
        IF i \in {"alpha", "number"} THEN "a" ELSE 7]
    @@ [name |-> name]
TheService(type, request, n) ==
    Fill(<<"teleserviceType", "serviceClass", "result">>, <<>>)
    @@ [serviceType |-> type, requestType |-> request, numValidIndexes |-> n,
        ssInfo |-> <<1, 2, 3, 4>>]
TheMessage(n) ==
    Fill(<<"uTeleserviceID", "bIsServicePresent", "uServicecategory", "digit_mode",
           "number_mode", "number_type", "number_plan", "subaddressType", "odd">>, <<>>)
    @@ [number_of_digits |-> n, digits |-> [i \in 1..Least(n, RIL_CDMA_SMS_ADDRESS_MAX) |-> i],
        sub_number_of_digits |-> n,
        sub_digits |-> [i \in 1..Least(n, RIL_CDMA_SMS_SUBADDRESS_MAX) |-> i],
        uBearerDataLen |-> n,
        aBearerData |-> [i \in 1..Least(n, RIL_CDMA_SMS_BEARER_DATA_MAX) |-> i]]
GsmConfig ==
    Fill(<<"fromServiceId", "toServiceId", "fromCodeScheme", "toCodeScheme", "selected">>, <<>>)
CdmaConfig == Fill(<<"service_category", "language", "selected">>, <<>>)

\* Lists and structs whose length is checked.
Checked ==
    LET L(fn, size, item) == {A(fn, D(size, <<>>)), A(fn, D(size, <<item, item>>))}
        S(fn, size, item) == {A(fn, D(size, <<item>>))}
    IN  L("responseInts", 4, [int |-> 1])
        \cup L("responseStrings", 4, [string |-> "a"])
        \cup L("responseCallList", 4, TheCall) \cup L("responseCallList", 4, TheUusCall)
        \cup L("responseCallForwards", 4, TheForward)
        \cup L("responseCallForwards", 4, [TheForward EXCEPT !["number"] = NULL])
        \cup L("responseCellList", 4, [rssi |-> 1, cid |-> "a"])
        \cup UNION {L("responseCellInfoList", 72, TheCell(type)) : type \in 1..5}
        \cup L("responseHardwareConfig", 88, [type |-> "sim", uuid |-> "a", state |-> 1,
                                              modemUuid |-> "b"])
        \cup {A("responseDataCallList", D(size, <<TheDataCall, TheDataCall>>)) : size \in {36, 40, 44}}
        \cup {A("responseSetupDataCall", D(size, <<TheDataCall>>)) : size \in {36, 40, 44}}
        \cup S("responseSMS", 12, [messageRef |-> 1, ackPDU |-> NULL, errorCode |-> 2])
        \cup S("responseSIM_IO", 12, [sw1 |-> 1, sw2 |-> 2, simResponse |-> "a"])
        \cup S("responseSsn", 20, Fill(<<"notificationType", "code", "index", "type">>, <<"number">>))
        \cup S("responseCdmaSms", 384, TheMessage(1)) \cup S("responseCdmaSms", 384, TheMessage(3))
        \cup S("responseCdmaSignalInfoRecord", 4, TheTone)
        \cup S("responseFailCause", 4, [cause_code |-> 1])
        \cup S("responseFailCause", 8, [cause_code |-> 1, vendor_cause |-> "a"])
        \cup {A("responseSimStatus", [null |-> FALSE, len |-> size, items |-> <<TheCard, TheApp, TheApp>>])
              : size \in {276, 280}}
        \cup {A("responseCdmaInformationRecords",
                [null |-> FALSE, len |-> 84,
                 items |-> <<[numberOfInfoRecs |-> 2], rec, TheRecord(8)>>])
              : rec \in {TheRecord(name) : name \in 0..8 \cup {10}}
                        \cup {[name |-> 9], [TheRecord(0) EXCEPT !["alpha"] = "a text too long"]}}
        \cup {A("responseSSData",
                [null |-> FALSE, len |-> 200, items |-> <<TheService(type, request, n), TheForward>>])
              : type \in {5, 6}, request \in {2, 3}, n \in {0, 1}}

MCData ==
    Checked \cup {A(a.fn, d) : a \in Checked, d \in {Nothing}} \cup
    UNION {{A(a.fn, d) : d \in Wrong(a.d)} : a \in Checked} \cup
    {A("responseVoid", Nothing),
     A("responseString", Nothing), A("responseString", D(4, <<[string |-> "a"]>>)),
     A("responseRaw", Nothing), A("responseRaw", [null |-> TRUE, len |-> 2, items |-> <<>>]),
     A("responseRaw", [null |-> FALSE, len |-> 2, items |-> <<[len |-> 2, data |-> <<1, 2>>]>>]),
     A("responseGsmBrSmsCnf", D(4, <<GsmConfig, GsmConfig>>)),
     A("responseCdmaBrSmsCnf", D(4, <<CdmaConfig, CdmaConfig>>)),
     A("responseDcRtInfo", D(12, <<[time |-> 1, powerState |-> 2]>>)),
     A("responseDcRtInfo", D(4, <<>>)),
     A("responseCallRing", Nothing), A("responseCallRing", D(4, <<TheTone>>)),
     A("responseSimRefresh", D(12, <<[result |-> 1, ef_id |-> 2, aid |-> "a"]>>)),
     A("responseCdmaCallWaiting", D(20, <<TheWaiting>>)),
     A("responseCdmaCallWaiting", D(24, <<TheWaiting>>))} \cup
    {A("responseRilSignalStrength", D(size, <<TheSignal>>)) : size \in {27, 28, 48, 52}}

\* One or two data calls: refused, with DNS servers or without; the upper half of a
\* status is what was there before.
MCCalls ==
    LET C(status, dnses) == [TheDataCall EXCEPT !["status"] = status, !["dnses"] = dnses]
    IN  {<<C(65536, NULL)>>, <<C(0, "::"), C(0, "0.0.0.0")>>, <<C(0, "8.8.8.8"), C(65569, NULL)>>}
=============================================================================
