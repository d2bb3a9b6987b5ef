----------------------------- MODULE RilDispatch -----------------------------
(***************************************************************************)
(* The dispatch functions of ril.cpp: what each makes of the block p of a  *)
(* request, the fields after the request number and the token.  A function *)
(* either calls the vendor's onRequest with arguments read from the block, *)
(* or gives the block up; then nobody is called, and the request stays on  *)
(* the pending list without an answer.  Arguments are a list of structs,   *)
(* or NULL.  s_callbacks.version is a parameter where a function uses it.  *)
(*                                                                         *)
(* Left out: the strings' copies and their release, the log.               *)
(***************************************************************************)
EXTENDS RilParcel

CONSTANT Uuid   \* the modem's names that fit into logicalModemUuid

ToVendor(args) == [called |-> TRUE, args |-> args]

\* invalidCommandBlock only writes to the log.
invalidCommandBlock == [called |-> FALSE, args |-> NULL]

\* The members in the order of the format, as the only struct, if the block holds.
Struct(r, holds) == IF holds THEN ToVendor(<<r.s>>) ELSE invalidCommandBlock

-----------------------------------------------------------------------------
(* Plain arguments.                                                        *)

dispatchVoid(p) == ToVendor(NULL)

dispatchString(p) == ToVendor(<<Read(p, 1, <<string("string")>>).s>>)

\* A count of strings from the place at on; -1 stands for a null array.
Strings(p, at) ==
    LET r == Read(p, at, <<int32("count")>>)
        n == r.s["count"]
    IN  [ok |-> r.ok, null |-> n = -1,
         list |-> IF ~r.ok \/ n = -1 THEN NULL
                  ELSE ReadList(p, r.at, n, <<string("string")>>).list]

dispatchStrings(p) ==
    IF Strings(p, 1).ok THEN ToVendor(Strings(p, 1).list) ELSE invalidCommandBlock

dispatchInts(p) ==
    LET r == Read(p, 1, <<int32("count")>>)
        l == ReadList(p, 2, r.s["count"], <<int32("int")>>)
    IN  IF r.ok /\ r.s["count"] # 0 /\ l.ok THEN ToVendor(l.list) ELSE invalidCommandBlock

\* A null array, written as -1, becomes an empty one: data is set again after it has
\* been set to NULL.
dispatchRaw(p) ==
    LET r == Read(p, 1, <<int32("len")>>)
        n == IF r.s["len"] = -1 THEN 0 ELSE r.s["len"]
    IN  IF r.ok
        THEN ToVendor(<<[len |-> n, data |-> readInplace(p, 2, n)]>>)
        ELSE invalidCommandBlock

-----------------------------------------------------------------------------
(* Structs.                                                                *)

dispatchSmsWrite(p) ==
    LET r == Read(p, 1, <<int32("status"), string("pdu")>>)
    IN  Struct(Read(p, 1, <<int32("status"), string("pdu"), string("smsc")>>),
               r.ok /\ r.s["pdu"] # NULL)

\* The user-to-user information of a call; -1 stands for a null array.
Uus(p) ==
    LET r == Read(p, 4, int32s(<<"uusType", "uusDcs", "uusLength">>))
        n == r.s["uusLength"]
    IN  [ok |-> r.ok,
         s |-> IF n = -1 THEN WithMember([r.s EXCEPT !["uusLength"] = 0], "uusData", NULL)
               ELSE WithMember(r.s, "uusData", readInplace(p, r.at, n))]

\* Mutant: the status is not looked at after the last int32.
dispatchDial_Unchecked(p, version) ==
    LET dial == Read(p, 1, <<string("address"), int32("clir")>>)
        r    == Read(p, 3, <<int32("uusPresent")>>)
    IN  IF dial.s["address"] = NULL THEN invalidCommandBlock
        ELSE IF r.ok /\ r.s["uusPresent"] # 0
        THEN ToVendor(<<dial.s, Uus(p).s>>)
        ELSE ToVendor(<<WithMember(dial.s, "uusInfo", NULL)>>)

dispatchDial(p, version) ==
    LET dial == Read(p, 1, <<string("address"), int32("clir")>>)
        r    == Read(p, 3, <<int32("uusPresent")>>)
    IN  IF ~dial.ok \/ dial.s["address"] = NULL THEN invalidCommandBlock
        ELSE IF version < 3 THEN ToVendor(<<dial.s>>)
        ELSE IF ~r.ok THEN invalidCommandBlock
        ELSE IF r.s["uusPresent"] = 0 THEN ToVendor(<<WithMember(dial.s, "uusInfo", NULL)>>)
        ELSE IF Uus(p).ok THEN ToVendor(<<dial.s, Uus(p).s>>)
        ELSE invalidCommandBlock

\* The status of p3 is the last one; the strings after it may be missing.
dispatchSIM_IO(p, version) ==
    LET v5 == <<int32("command"), int32("fileid"), string("path"), int32("p1"), int32("p2"),
                int32("p3"), string("data"), string("pin2")>>
        r  == Read(p, 1, IF version < 6 THEN v5 ELSE Append(v5, string("aidPtr")))
    IN  Struct(r, r.ok)

dispatchSIM_APDU(p) ==
    LET r == Read(p, 1, int32s(<<"sessionid", "cla", "instruction", "p1", "p2", "p3">>)
                        \o <<string("data")>>)
    IN  Struct(r, r.ok)

\* An empty number stands for none.
NoneIfEmpty(s) == IF s = "" THEN NULL ELSE s

dispatchCallForward(p) ==
    LET r == Read(p, 1, <<int32("status"), int32("reason"), int32("serviceClass"),
                          int32("toa"), string("number"), int32("timeSeconds")>>)
    IN  IF r.ok THEN ToVendor(<<[r.s EXCEPT !["number"] = NoneIfEmpty(@)]>>)
        ELSE invalidCommandBlock

dispatchCdmaSmsAck(p) ==
    LET r == Read(p, 1, int32s(<<"uErrorClass", "uSMSCauseCode">>)) IN Struct(r, r.ok)

dispatchSetInitialAttachApn(p) ==
    LET r == Read(p, 1, <<string("apn"), string("protocol"), int32("authtype"),
                          string("username"), string("password")>>)
    IN  Struct(r, r.ok)

dispatchNVReadItem(p) == LET r == Read(p, 1, <<int32("itemID")>>) IN Struct(r, r.ok)

dispatchNVWriteItem(p) ==
    LET r == Read(p, 1, <<int32("itemID"), string("value")>>)
    IN  Struct(r, r.ok /\ r.s["value"] # NULL)

dispatchUiccSubscripton(p) ==
    LET r == Read(p, 1, int32s(<<"slot", "app_index", "sub_type", "act_status">>))
    IN  Struct(r, r.ok)

dispatchSimAuthentication(p) ==
    LET r == Read(p, 1, <<int32("authContext"), string("authData"), string("aid")>>)
    IN  Struct(r, r.ok)

\* The name is copied into a buffer of its own: it must be there, and fit.
readStringFromParcelInplace(s) == s # NULL /\ s \in Uuid

dispatchRadioCapability(p) ==
    LET r == Read(p, 1, int32s(<<"version", "session", "phase", "rat">>)
                        \o <<string("logicalModemUuid"), int32("status")>>)
    IN  Struct(r, r.ok /\ readStringFromParcelInplace(r.s["logicalModemUuid"]))

-----------------------------------------------------------------------------
(* Lists of structs.                                                       *)

\* num structs; the status is looked at once, after the last one.
Structs(p, format) ==
    LET r == Read(p, 1, <<int32("num")>>)
        l == ReadList(p, 2, r.s["num"], format)
    IN  IF r.ok /\ l.ok THEN ToVendor(l.list) ELSE invalidCommandBlock

\* Mutant: two members are read in the wrong order.
dispatchGsmBrSmsCnf_Swapped(p) ==
    Structs(p, int32s(<<"fromServiceId", "fromCodeScheme", "toServiceId", "toCodeScheme",
                        "selected">>))

dispatchGsmBrSmsCnf(p) ==
    Structs(p, int32s(<<"fromServiceId", "toServiceId", "fromCodeScheme", "toCodeScheme",
                        "selected">>))

dispatchCdmaBrSmsCnf(p) == Structs(p, int32s(<<"service_category", "language", "selected">>))

dispatchDataProfile(p) ==
    Structs(p, <<int32("profileId"), string("apn"), string("protocol"), int32("authType"),
                 string("user"), string("password"), int32("type"), int32("maxConnsTime"),
                 int32("maxConns"), int32("waitTime"), int32("enabled")>>)

\* Reading a string to copy it: none is an empty one.
readString16(p, at) ==
    LET s == Read(p, at, <<string("s")>>).s["s"] IN IF s = NULL THEN "" ELSE s

\* Before version 4 only the first six parameters are passed on.
dispatchDataCall(p, version) ==
    LET r == Read(p, 1, <<int32("numParams")>>)
    IN  IF r.ok /\ version < 4 /\ r.s["numParams"] > 6
        THEN dispatchStrings(<<Word(6)>> \o [i \in 1..6 |-> Text(readString16(p, i + 1))])
        ELSE dispatchStrings(p)

-----------------------------------------------------------------------------
(* CDMA and IMS messages.                                                  *)

cdmaAddress ==
    <<int32("uTeleserviceID"), uint8("bIsServicePresent"), int32("uServicecategory"),
      int32("digit_mode"), int32("number_mode"), int32("number_type"), int32("number_plan"),
      uint8("number_of_digits")>>

cdmaSubAddress == <<int32("subaddressType"), uint8("odd"), uint8("sub_number_of_digits")>>

\* As many digits as the message says, at most as many as the struct has room for.
constructCdmaSms(p, at) ==
    Read(p, at,
         cdmaAddress \o <<digits("digits", "number_of_digits", RIL_CDMA_SMS_ADDRESS_MAX)>>
         \o cdmaSubAddress
         \o <<digits("sub_digits", "sub_number_of_digits", RIL_CDMA_SMS_SUBADDRESS_MAX),
              int32("uBearerDataLen"),
              digits("aBearerData", "uBearerDataLen", RIL_CDMA_SMS_BEARER_DATA_MAX)>>)

dispatchCdmaSms(p) == LET r == constructCdmaSms(p, 1) IN Struct(r, r.ok)

\* A message that is written to the card always comes with all digits.
dispatchRilCdmaSmsWriteArgs(p) ==
    LET r == Read(p, 1,
                  <<int32("status")>> \o cdmaAddress
                  \o <<allDigits("digits", RIL_CDMA_SMS_ADDRESS_MAX)>> \o cdmaSubAddress
                  \o <<allDigits("sub_digits", RIL_CDMA_SMS_SUBADDRESS_MAX),
                       int32("uBearerDataLen"),
                       allDigits("aBearerData", RIL_CDMA_SMS_BEARER_DATA_MAX)>>)
    IN  Struct(r, r.ok)

\* header is the struct read so far: format, retry and messageRef.
dispatchImsGsmSms(p, header) ==
    LET l == Strings(p, header.at)
    IN  IF ~l.ok THEN invalidCommandBlock
        ELSE IF l.null THEN ToVendor(<<WithMember(header.s, "gsmMessage", NULL)>>)
        ELSE ToVendor(<<header.s>> \o l.list)

dispatchImsCdmaSms(p, header) ==
    LET r == constructCdmaSms(p, header.at)
    IN  IF r.ok THEN ToVendor(<<header.s, r.s>>) ELSE invalidCommandBlock

RADIO_TECH_3GPP == 1
RADIO_TECH_3GPP2 == 2

ImsHeader(p) == Read(p, 1, <<int32("tech"), uint8("retry"), int32("messageRef")>>)

\* Nobody is called, and nobody told, if the format is neither.
dispatchImsSms(p) ==
    LET r == ImsHeader(p)
    IN  IF ~r.ok THEN invalidCommandBlock
        ELSE IF r.s["tech"] = RADIO_TECH_3GPP THEN dispatchImsGsmSms(p, r)
        ELSE IF r.s["tech"] = RADIO_TECH_3GPP2 THEN dispatchImsCdmaSms(p, r)
        ELSE [called |-> FALSE, args |-> NULL]

=============================================================================
