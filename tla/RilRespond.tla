------------------------------ MODULE RilRespond ------------------------------
(***************************************************************************)
(* The response functions of ril.cpp: what each writes of the vendor's     *)
(* data into the Parcel of an answer or of an unsolicited response.  Data  *)
(* comes as the vendor passes it: whether the pointer is null, the length  *)
(* in bytes, and the structs it points to.  The result says whether the    *)
(* function returns 0 and what it has written, which stays in the Parcel   *)
(* when it returns an error.                                               *)
(***************************************************************************)
EXTENDS RilParcel

CONSTANTS
    RIL_CDMA_MAX_NUMBER_OF_INFO_RECS,   \* records of one CDMA information message
    InfoText                            \* the texts that fit into such a record

INT_MAX == 2147483647

\* The sizes of the vendor's structs in a 32-bit build; only the lists' are compared with
\* each other's multiples.
sizeof == [int |-> 4, pointer |-> 4, RIL_LastCallFailCauseInfo |-> 8, RIL_SMS_Response |-> 12,
           RIL_Data_Call_Response_v4 |-> 20, RIL_Data_Call_Response_v6 |-> 36,
           RIL_Data_Call_Response_v9 |-> 40, RIL_Data_Call_Response_v11 |-> 44,
           RIL_SIM_IO_Response |-> 12, RIL_SuppSvcNotification |-> 20,
           RIL_CDMA_InformationRecords |-> 84, RIL_SignalStrength_v5 |-> 28,
           RIL_SignalStrength_v6 |-> 48, RIL_SignalStrength_v10 |-> 52,
           RIL_CDMA_SignalInfoRecord |-> 4, RIL_CDMA_CallWaiting_v6 |-> 24,
           RIL_CellInfo |-> 72, RIL_HardwareConfig |-> 88, RIL_StkCcUnsolSsResponse |-> 200,
           RIL_CardStatus_v5 |-> 276, RIL_CardStatus_v6 |-> 280,
           RIL_CDMA_SMS_Message |-> 384, RIL_DcRtInfo |-> 12]

Done(p) == [ret0 |-> TRUE, p |-> p]
RIL_ERRNO_INVALID_RESPONSE(p) == [ret0 |-> FALSE, p |-> p]

\* A null pointer with a length is an error of the vendor's.
NullWithLength(d) == d.null /\ d.len # 0

\* A list: how many, then each one.
ListOf(d, size, Item(_)) ==
    LET num == d.len \div size
    IN  <<Word(num)>> \o FlattenSeq([i \in 1..num |-> Item(d.items[i])])

CheckedList(d, size, before, Item(_)) ==
    IF NullWithLength(d) \/ d.len % size # 0 THEN RIL_ERRNO_INVALID_RESPONSE(<<>>)
    ELSE Done(before \o ListOf(d, size, Item))

\* A single struct, which has to be there and have its length.
CheckedStruct(d, size, format) ==
    IF d.null \/ d.len # size THEN RIL_ERRNO_INVALID_RESPONSE(<<>>)
    ELSE Done(Write(d.items[1], format))

-----------------------------------------------------------------------------
(* Plain data.                                                             *)

responseInts(d) == LET Item(s) == Write(s, <<int32("int")>>) IN CheckedList(d, sizeof.int, <<>>, Item)

responseFailCause(d) ==
    IF NullWithLength(d) THEN RIL_ERRNO_INVALID_RESPONSE(<<>>)
    ELSE IF d.len = sizeof.int THEN Done(Write(d.items[1], <<int32("cause_code")>>))
    ELSE IF d.len = sizeof.RIL_LastCallFailCauseInfo
    THEN Done(Write(d.items[1], <<int32("cause_code"), string("vendor_cause")>>))
    ELSE RIL_ERRNO_INVALID_RESPONSE(<<>>)

responseStrings(d) ==
    LET Item(s) == Write(s, <<string("string")>>)
    IN  IF d.null /\ d.len = 0 THEN Done(<<Word(0)>>)
        ELSE CheckedList(d, sizeof.pointer, <<>>, Item)

responseStringsWithVersion(d, version) ==
    LET r == responseStrings(d) IN [r EXCEPT !.p = <<Word(version)>> \o @]

\* The length does not matter.
responseString(d) == Done(<<Text(IF d.null THEN NULL ELSE d.items[1]["string"])>>)

responseVoid(d) == Done(<<>>)

responseRaw(d) ==
    IF NullWithLength(d) THEN RIL_ERRNO_INVALID_RESPONSE(<<>>)
    ELSE IF d.null THEN Done(<<Word(-1)>>)
    ELSE Done(<<Word(d.len)>> \o WriteRaw(d.items[1]["data"], d.len))

-----------------------------------------------------------------------------
(* Calls, messages and the card.                                           *)

\* Mutant: nothing says that there is no user-to-user information.
responseCallList_NoUus(d, version) ==
    LET Item(s) ==
            Write(s, int32s(<<"state", "index", "toa", "isMpty", "isMT", "als", "isVoice",
                              "isVoicePrivacy">>)
                     \o <<string("number"), int32("numberPresentation"), string("name"),
                          int32("namePresentation")>>)
    IN  CheckedList(d, sizeof.pointer, <<>>, Item)

responseCallList(d, version) ==
    LET Uus(s) ==
            IF version < 3 \/ s["uusInfo"] = NULL \/ s["uusData"] = NULL THEN <<Word(0)>>
            ELSE <<Word(1)>> \o Write(s, int32s(<<"uusType", "uusDcs", "uusLength">>))
                 \o WriteRaw(s["uusData"], s["uusLength"])
        Item(s) ==
            Write(s, int32s(<<"state", "index", "toa", "isMpty", "isMT", "als", "isVoice",
                              "isVoicePrivacy">>)
                     \o <<string("number"), int32("numberPresentation"), string("name"),
                          int32("namePresentation")>>) \o Uus(s)
    IN  CheckedList(d, sizeof.pointer, <<>>, Item)

responseSMS(d) ==
    CheckedStruct(d, sizeof.RIL_SMS_Response,
                  <<int32("messageRef"), string("ackPDU"), int32("errorCode")>>)

responseSIM_IO(d) ==
    CheckedStruct(d, sizeof.RIL_SIM_IO_Response,
                  <<int32("sw1"), int32("sw2"), string("simResponse")>>)

responseCallForwards(d) ==
    LET Item(s) == Write(s, <<int32("status"), int32("reason"), int32("serviceClass"),
                              int32("toa"), string("number"), int32("timeSeconds")>>)
    IN  CheckedList(d, sizeof.pointer, <<>>, Item)

responseSsn(d) ==
    CheckedStruct(d, sizeof.RIL_SuppSvcNotification,
                  int32s(<<"notificationType", "code", "index", "type">>)
                  \o <<string("number")>>)

responseCellList(d) ==
    LET Item(s) == Write(s, <<int32("rssi"), string("cid")>>)
    IN  CheckedList(d, sizeof.pointer, <<>>, Item)

\* The applications on the card.
sendSimStatusAppInfo(apps) ==
    <<Word(Len(apps))>> \o
    FlattenSeq([i \in DOMAIN apps |->
        Write(apps[i], int32s(<<"app_type", "app_state", "perso_substate">>)
                       \o <<string("aid_ptr"), string("app_label_ptr")>>
                       \o int32s(<<"pin1_replaced", "pin1", "pin2">>))])

\* The first struct is the card, the others its applications.  Before version 6 a card
\* has no index of the IMS application.
responseSimStatus(d) ==
    LET card == int32s(<<"card_state", "universal_pin_state",
                         "gsm_umts_subscription_app_index", "cdma_subscription_app_index">>)
    IN  IF NullWithLength(d) THEN RIL_ERRNO_INVALID_RESPONSE(<<>>)
        ELSE IF d.len = sizeof.RIL_CardStatus_v6
        THEN Done(Write(d.items[1], card \o int32s(<<"ims_subscription_app_index">>))
                  \o sendSimStatusAppInfo(Tail(d.items)))
        ELSE IF d.len = sizeof.RIL_CardStatus_v5
        THEN Done(Write(d.items[1], card) \o <<Word(-1)>> \o sendSimStatusAppInfo(Tail(d.items)))
        ELSE RIL_ERRNO_INVALID_RESPONSE(<<>>)

\* The data is only a struct since version 7, and is not taken for one after it.
responseSimRefresh(d, version) ==
    IF NullWithLength(d) THEN RIL_ERRNO_INVALID_RESPONSE(<<>>)
    ELSE IF version = 7
    THEN Done(Write(d.items[1], <<int32("result"), int32("ef_id"), string("aid")>>))
    ELSE Done(Write(d.items[1], int32s(<<"result", "ef_id">>)) \o <<Text(NULL)>>)

\* Neither the pointer nor the length of a broadcast configuration is checked.
responseGsmBrSmsCnf(d) ==
    LET Item(s) == Write(s, int32s(<<"fromServiceId", "toServiceId", "fromCodeScheme",
                                     "toCodeScheme", "selected">>))
    IN  Done(ListOf(d, sizeof.pointer, Item))

responseCdmaBrSmsCnf(d) ==
    LET Item(s) == Write(s, int32s(<<"service_category", "language", "selected">>))
    IN  Done(ListOf(d, sizeof.pointer, Item))

responseCdmaSms(d) ==
    CheckedStruct(d, sizeof.RIL_CDMA_SMS_Message,
        <<int32("uTeleserviceID"), uint8("bIsServicePresent"), int32("uServicecategory"),
          int32("digit_mode"), int32("number_mode"), int32("number_type"),
          int32("number_plan"), uint8("number_of_digits"),
          digits("digits", "number_of_digits", RIL_CDMA_SMS_ADDRESS_MAX),
          int32("subaddressType"), uint8("odd"), uint8("sub_number_of_digits"),
          digits("sub_digits", "sub_number_of_digits", RIL_CDMA_SMS_SUBADDRESS_MAX),
          int32("uBearerDataLen"),
          digits("aBearerData", "uBearerDataLen", RIL_CDMA_SMS_BEARER_DATA_MAX)>>)

responseDcRtInfo(d) ==
    IF d.len # sizeof.RIL_DcRtInfo THEN RIL_ERRNO_INVALID_RESPONSE(<<>>)
    ELSE Done(Write(d.items[1], <<int64("time"), int32("powerState")>>))

-----------------------------------------------------------------------------
(* Data calls.                                                             *)

\* The access point is not sent.
responseDataCallListV4(d) ==
    LET Item(s) == Write(s, <<int32("cid"), int32("active"), string("type"), string("address")>>)
    IN  CheckedList(d, sizeof.RIL_Data_Call_Response_v4, <<Word(4)>>, Item)

dataCallV6 ==
    int32s(<<"status", "suggestedRetryTime", "cid", "active">>)
    \o <<string("type"), string("ifname"), string("addresses"), string("dnses"),
         string("gateways")>>

\* The state of each call is settled before it is written: RilMarshal.
responseDataCallListV6(d) ==
    LET Item(s) == Write(s, dataCallV6)
    IN  CheckedList(d, sizeof.RIL_Data_Call_Response_v6, <<Word(6)>>, Item)

responseDataCallListV9(d) ==
    LET Item(s) == Write(s, Append(dataCallV6, string("pcscf")))
    IN  CheckedList(d, sizeof.RIL_Data_Call_Response_v9, <<Word(10)>>, Item)

\* The vendor does not say which struct it uses: its size has to divide the length.
responseDataCallList(d, version) ==
    LET Item(s) == Write(s, dataCallV6 \o <<string("pcscf"), int32("mtu")>>)
    IN  IF version < 5 THEN responseDataCallListV4(d)
        ELSE IF d.len % sizeof.RIL_Data_Call_Response_v6 = 0 THEN responseDataCallListV6(d)
        ELSE IF d.len % sizeof.RIL_Data_Call_Response_v9 = 0 THEN responseDataCallListV9(d)
        ELSE CheckedList(d, sizeof.RIL_Data_Call_Response_v11, <<Word(11)>>, Item)

responseSetupDataCall(d, version) ==
    IF version < 5 THEN responseStringsWithVersion(d, version)
    ELSE responseDataCallList(d, version)

-----------------------------------------------------------------------------
(* Signals and cells.                                                      *)

\* Before version 7 a vendor says -1 for what it does not know.
FixupLte(s) ==
    [s EXCEPT !["lte_signalStrength"] = IF @ = -1 THEN 99 ELSE @,
              !["rsrp"] = IF @ = -1 THEN INT_MAX ELSE IF @ < -1 THEN -@ ELSE @,
              !["rsrq"] = IF @ = -1 THEN INT_MAX ELSE @,
              !["cqi"]  = IF @ = -1 THEN INT_MAX ELSE @]

responseRilSignalStrength(d, version) ==
    LET s   == d.items[1]
        lte == Write(IF version <= 6 THEN FixupLte(s) ELSE s,
                     int32s(<<"lte_signalStrength", "rsrp", "rsrq", "rssnr", "cqi">>))
        unknown == [k \in 1..5 |-> Word(INT_MAX)]
    IN  IF NullWithLength(d) \/ d.len < sizeof.RIL_SignalStrength_v5
        THEN RIL_ERRNO_INVALID_RESPONSE(<<>>)
        ELSE Done(Write(s, int32s(<<"gw_signalStrength", "bitErrorRate", "cdma_dbm", "cdma_ecio",
                                    "evdo_dbm", "evdo_ecio", "signalNoiseRatio">>))
                  \o IF d.len < sizeof.RIL_SignalStrength_v6 THEN <<Word(99)>> \o unknown
                     ELSE lte \o IF d.len >= sizeof.RIL_SignalStrength_v10
                                 THEN Write(s, <<int32("rscp")>>)
                                 ELSE <<Word(INT_MAX)>>)

signalInfo == int32s(<<"isPresent", "signalType", "alertPitch", "signal">>)

marshallSignalInfoRecord(s) == Write(s, signalInfo)

responseCdmaSignalInfoRecord(d) ==
    IF d.null \/ d.len # sizeof.RIL_CDMA_SignalInfoRecord THEN RIL_ERRNO_INVALID_RESPONSE(<<>>)
    ELSE Done(marshallSignalInfoRecord(d.items[1]))

responseCallRing(d) ==
    IF d.null \/ d.len = 0 THEN responseVoid(d) ELSE responseCdmaSignalInfoRecord(d)

responseCdmaCallWaiting(d) ==
    LET s == d.items[1]
    IN  IF NullWithLength(d) THEN RIL_ERRNO_INVALID_RESPONSE(<<>>)
        ELSE Done(Write(s, <<string("number"), int32("numberPresentation"), string("name")>>)
                  \o marshallSignalInfoRecord(s)
                  \o IF d.len >= sizeof.RIL_CDMA_CallWaiting_v6
                     THEN Write(s, int32s(<<"number_type", "number_plan">>))
                     ELSE <<Word(0), Word(0)>>)

\* What a cell has besides its type and its time, for the types 1 to 5: GSM, CDMA, LTE,
\* WCDMA and TD-SCDMA.
cellInfo ==
    <<<<"mcc", "mnc", "lac", "cid", "signalStrength", "bitErrorRate">>,
      <<"networkId", "systemId", "basestationId", "longitude", "latitude", "dbm", "ecio",
        "evdo_dbm", "evdo_ecio", "signalNoiseRatio">>,
      <<"mcc", "mnc", "ci", "pci", "tac", "signalStrength", "rsrp", "rsrq", "rssnr", "cqi",
        "timingAdvance">>,
      <<"mcc", "mnc", "lac", "cid", "psc", "signalStrength", "bitErrorRate">>,
      <<"mcc", "mnc", "lac", "cid", "cpid", "rscp">>>>

responseCellInfoList(d) ==
    LET Item(s) == Write(s, int32s(<<"cellInfoType", "registered", "timeStampType">>)
                            \o <<int64("timeStamp")>>
                            \o IF s["cellInfoType"] \in DOMAIN cellInfo
                               THEN int32s(cellInfo[s["cellInfoType"]]) ELSE <<>>)
    IN  CheckedList(d, sizeof.RIL_CellInfo, <<>>, Item)

-----------------------------------------------------------------------------
(* CDMA information, hardware and supplementary services.                  *)

\* What a record has besides its name, for the names 0 to 8 and 10; the text is checked.
numberInfo == int32s(<<"number_type", "number_plan", "pi", "si">>)
infoRec ==
    0 :> <<string("alpha")>> @@ 7 :> <<string("alpha")>>
    @@ 1 :> <<string("number")>> \o numberInfo @@ 2 :> <<string("number")>> \o numberInfo
    @@ 3 :> <<string("number")>> \o numberInfo
    @@ 4 :> signalInfo
    @@ 5 :> (<<string("number")>> \o numberInfo \o <<int32("redirectingReason")>>)
    @@ 6 :> int32s(<<"lineCtrlPolarityIncluded", "lineCtrlToggle", "lineCtrlReverse",
                     "lineCtrlPowerDenial">>)
    @@ 8 :> <<int32("cause")>>
    @@ 10 :> int32s(<<"upLink", "downLink">>)

\* A record that cannot be sent ends the answer with an error.
responseCdmaInformationRecords(d) ==
    LET s    == d.items[1]
        num  == Least(s["numberOfInfoRecs"], RIL_CDMA_MAX_NUMBER_OF_INFO_RECS)
        Fits(rec) ==
            /\ rec["name"] \in DOMAIN infoRec
            /\ \A i \in DOMAIN infoRec[rec["name"]] :
                 LET f == infoRec[rec["name"]][i] IN f.kind = "str" => rec[f.name] \in InfoText
        Rec(r, i) ==
            LET rec == d.items[i + 1]
            IN  IF ~r.ret0 THEN r
                ELSE IF Fits(rec)
                THEN Done(r.p \o Write(rec, <<int32("name")>> \o infoRec[rec["name"]]))
                ELSE RIL_ERRNO_INVALID_RESPONSE(r.p \o Write(rec, <<int32("name")>>))
    IN  IF d.null \/ d.len # sizeof.RIL_CDMA_InformationRecords
        THEN RIL_ERRNO_INVALID_RESPONSE(<<>>)
        ELSE FoldLeft(Rec, Done(<<Word(num)>>), [i \in 1..num |-> i])

\* The type of an entry is not written, and an entry of another type not at all.
responseHardwareConfig(d) ==
    LET Item(s) ==
            CASE s["type"] = "modem" ->
                   Write(s, <<string("uuid")>>
                            \o int32s(<<"state", "rat", "maxVoice", "maxData", "maxStandby">>))
              [] s["type"] = "sim" ->
                   Write(s, <<string("uuid"), int32("state"), string("modemUuid")>>)
              [] OTHER -> <<>>
    IN  CheckedList(d, sizeof.RIL_HardwareConfig, <<>>, Item)

NUM_SERVICE_CLASSES == 7
SS_INFO_MAX == 4
SS_INTERROGATION == 2

\* Whether it is about call forwarding: the service types up to SS_CF_ALL_CONDITIONAL.
isServiceTypeCfQuery(serType, reqType) == reqType = SS_INTERROGATION /\ serType \in 0..5

\* The first struct is the response, the others the call forwardings.
responseSSData(d) ==
    LET s  == d.items[1]
        n  == Least(s["numValidIndexes"], NUM_SERVICE_CLASSES)
        cf == FlattenSeq([i \in 1..n |->
                  Write(d.items[i + 1],
                        int32s(<<"status", "reason", "serviceClass", "toa">>)
                        \o <<string("number"), int32("timeSeconds")>>)])
    IN  IF d.null \/ d.len # sizeof.RIL_StkCcUnsolSsResponse
        THEN RIL_ERRNO_INVALID_RESPONSE(<<>>)
        ELSE Done(Write(s, int32s(<<"serviceType", "requestType", "teleserviceType",
                                    "serviceClass", "result">>))
                  \o IF isServiceTypeCfQuery(s["serviceType"], s["requestType"])
                     THEN <<Word(n)>> \o cf
                     ELSE <<Word(SS_INFO_MAX)>>
                          \o [i \in 1..SS_INFO_MAX |-> Word(s["ssInfo"][i])])

=============================================================================
