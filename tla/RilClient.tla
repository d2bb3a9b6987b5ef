------------------------------ MODULE RilClient ------------------------------
(***************************************************************************)
(* The client's side of an answer: the telephony framework reads its       *)
(* fields in turn, and knows nothing but the answer itself.  How many      *)
(* entries a list has, and what is in an entry, must be said by the fields *)
(* before.  The framework is not part of this repository; what it expects  *)
(* is taken from the counts, versions and types that ril.cpp writes.       *)
(***************************************************************************)
EXTENDS RilParcel

int(n) == [i \in 1..n |-> "int"]

\* The place after fields of these kinds, 0 if they are not there.
After(p, at, kinds) ==
    IF /\ at # 0
       /\ at + Len(kinds) - 1 <= Len(p)
       /\ \A i \in DOMAIN kinds : kinds[i] \in DOMAIN p[at + i - 1]
    THEN at + Len(kinds) ELSE 0

\* The place after a count and as many entries; Entry tells an entry's kinds.
AfterList(p, at, Entry(_)) ==
    IF After(p, at, int(1)) = 0 THEN 0
    ELSE FoldLeft(LAMBDA a, i : IF a \in DOMAIN p THEN After(p, a, Entry(a)) ELSE 0,
                  at + 1, [i \in 1..p[at].int |-> i])

\* The int32 at a place, 0 when it is none.
IntAt(p, at) == IF After(p, at, int(1)) = 0 THEN 0 ELSE p[at].int

dataCall(version) ==
    IF version < 5 THEN int(2) \o <<"str", "str">>
    ELSE int(4) \o [i \in 1..(IF version < 10 THEN 5 ELSE 6) |-> "str"]
         \o (IF version < 11 THEN <<>> ELSE int(1))

callForward == int(4) \o <<"str", "int">>

call(p, at) ==
    int(8) \o <<"str", "int", "str", "int", "int">>
    \o IF IntAt(p, at + 12) = 1 THEN int(3) \o <<"raw">> ELSE <<>>

cellLength == [GSM |-> 6, CDMA |-> 10, LTE |-> 11, WCDMA |-> 7, TD_SCDMA |-> 6]
cellType == <<"GSM", "CDMA", "LTE", "WCDMA", "TD_SCDMA">>

cell(p, at) == int(3) \o <<"long">> \o int(cellLength[cellType[IntAt(p, at)]])

informationRecord(p, at) ==
    LET name == IntAt(p, at)
        text == IF name \in {0, 1, 2, 3, 5, 7} THEN <<"str">> ELSE <<>>
    IN  int(1) \o text \o int(CASE name \in {0, 7} -> 0 [] name \in 1..4 -> 4 [] name = 5 -> 5
                                [] name = 6 -> 4 [] name = 8 -> 1 [] OTHER -> 2)

\* What the client makes of an answer written by a response function: the place it has
\* come to at last.
ReadBy(fn, p) ==
    CASE fn \in {"responseDataCallList", "responseSetupDataCall"} ->
           LET Entry(at) == dataCall(IntAt(p, 1)) IN AfterList(p, 2, Entry)
      [] fn = "responseCallList" -> LET Entry(at) == call(p, at) IN AfterList(p, 1, Entry)
      [] fn = "responseCallForwards" -> LET Entry(at) == callForward IN AfterList(p, 1, Entry)
      [] fn = "responseCellList" -> LET Entry(at) == <<"int", "str">> IN AfterList(p, 1, Entry)
      [] fn = "responseCellInfoList" -> LET Entry(at) == cell(p, at) IN AfterList(p, 1, Entry)
      [] fn = "responseCdmaInformationRecords" ->
           LET Entry(at) == informationRecord(p, at) IN AfterList(p, 1, Entry)
      [] fn = "responseSimStatus" ->
           LET Entry(at) == int(3) \o <<"str", "str">> \o int(3)
           IN  AfterList(p, After(p, 1, int(5)), Entry)
      [] fn = "responseSSData" ->
           LET Entry(at) == IF IntAt(p, 2) = 2 /\ IntAt(p, 1) < 6 THEN callForward ELSE int(1)
           IN  AfterList(p, After(p, 1, int(5)), Entry)
      [] fn = "responseStrings" -> LET Entry(at) == <<"str">> IN AfterList(p, 1, Entry)
      [] fn \in {"responseInts", "responseEnterSimPin"} ->
           LET Entry(at) == int(1) IN AfterList(p, 1, Entry)
      [] fn = "responseGsmBrSmsCnf" -> LET Entry(at) == int(5) IN AfterList(p, 1, Entry)
      [] fn = "responseCdmaBrSmsCnf" -> LET Entry(at) == int(3) IN AfterList(p, 1, Entry)
      [] fn = "responseRilSignalStrength" -> After(p, 1, int(13))
      [] fn = "responseSimRefresh" -> After(p, 1, int(2) \o <<"str">>)
      [] fn = "responseCdmaCallWaiting" -> After(p, 1, <<"str", "int", "str">> \o int(6))
      [] fn = "responseSMS" -> After(p, 1, <<"int", "str", "int">>)
      [] fn = "responseSIM_IO" -> After(p, 1, int(2) \o <<"str">>)
      [] fn = "responseSsn" -> After(p, 1, int(4) \o <<"str">>)
      [] OTHER -> Len(p) + 1

=============================================================================
