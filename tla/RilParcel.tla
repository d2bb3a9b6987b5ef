------------------------------ MODULE RilParcel ------------------------------
(***************************************************************************)
(* The Parcels in which requests and responses travel, as ril.cpp uses     *)
(* them: a sequence of fields, read in order.  A field is a record whose   *)
(* only component is named after what it was written as: an int32 ("int"), *)
(* an int64 ("long"), one byte ("byte"), a string ("str") or bytes in      *)
(* place ("raw").  A C struct is a function from its members' names, and a *)
(* format the sequence of the members in the order they are read or        *)
(* written.                                                                *)
(***************************************************************************)
EXTENDS Integers, Sequences, SequencesExt

CONSTANTS
    NULL,       \* the null pointer
    Unread,     \* what a variable holds that no field has been read into
    RIL_CDMA_SMS_ADDRESS_MAX,       \* digits of a CDMA message's address
    RIL_CDMA_SMS_SUBADDRESS_MAX,    \* digits of its subaddress
    RIL_CDMA_SMS_BEARER_DATA_MAX    \* bytes of its text

ASSUME ParcelAssumption ==
    /\ NULL # Unread
    /\ {RIL_CDMA_SMS_ADDRESS_MAX, RIL_CDMA_SMS_SUBADDRESS_MAX, RIL_CDMA_SMS_BEARER_DATA_MAX}
           \subseteq Nat

int32(name) == [kind |-> "int", name |-> name]
int64(name) == [kind |-> "long", name |-> name]
uint8(name) == [kind |-> "byte", name |-> name]
string(name) == [kind |-> "str", name |-> name]

\* As many bytes as the member "count" says, but never more than max; or just max.
digits(name, count, max) == [kind |-> "digits", name |-> name, count |-> count, max |-> max]
allDigits(name, max) == digits(name, NULL, max)

int32s(names) == [i \in DOMAIN names |-> int32(names[i])]

Word(n) == [int |-> n]
Text(s) == [str |-> s]

Least(m, n) == IF m < n THEN m ELSE n

\* What a field may be.
Field ==
    [int : Int] \cup [long : Int] \cup [byte : 0..255] \cup [str : STRING \cup {NULL}]
    \cup [raw : Seq(0..255)]

\* The field at a place, if there is one, is an int of those.
Counts(p, at, counts) == at <= Len(p) => "int" \in DOMAIN p[at] /\ p[at].int \in counts

-----------------------------------------------------------------------------
(* Reading.  A reader is the place of the next field, the status of the    *)
(* last int32 or byte read, which is all the callers look at, and the      *)
(* struct read so far.                                                     *)

\* A struct with a member read into it; what has been read stays.
WithMember(s, name, value) ==
    [m \in DOMAIN s \cup {name} |-> IF m \in DOMAIN s THEN s[m] ELSE value]

\* Past the end a string is NULL; a failed read of anything else leaves the variable
\* as it is, and the place too.
ReadField(p, r, f) ==
    LET there == r.at <= Len(p)
        value == IF there
                 THEN IF f.kind \in DOMAIN p[r.at] THEN p[r.at][f.kind] ELSE Unread
                 ELSE IF f.kind = "str" THEN NULL ELSE Unread
    IN  [at |-> IF there THEN r.at + 1 ELSE r.at,
         ok |-> IF f.kind = "str" THEN r.ok ELSE there,
         s  |-> WithMember(r.s, f.name, value)]

\* A negative length counts as none.
ReadDigits(p, r, f) ==
    LET said  == IF f.count = NULL THEN f.max
                 ELSE IF r.s[f.count] = Unread THEN 0 ELSE Least(r.s[f.count], f.max)
        n     == IF said < 0 THEN 0 ELSE said
        there == r.at + n - 1 <= Len(p)
    IN  [at |-> IF there THEN r.at + n ELSE Len(p) + 1,
         ok |-> IF n = 0 THEN r.ok ELSE there,
         s  |-> WithMember(r.s, f.name, [k \in 1..n |->
                    IF there /\ "byte" \in DOMAIN p[r.at + k - 1] THEN p[r.at + k - 1].byte
                    ELSE Unread])]

\* Reads a struct from the place at on.
Read(p, at, format) ==
    FoldLeft(LAMBDA r, f : IF f.kind = "digits" THEN ReadDigits(p, r, f) ELSE ReadField(p, r, f),
             [at |-> at, ok |-> TRUE, s |-> <<>>], format)

\* Reads n structs.
ReadList(p, at, n, format) ==
    FoldLeft(LAMBDA r, k : LET q == Read(p, r.at, format)
                           IN  [at |-> q.at, ok |-> q.ok, list |-> Append(r.list, q.s)],
             [at |-> at, ok |-> TRUE, list |-> <<>>], [k \in 1..n |-> k])

\* The place of len bytes, NULL if the parcel ends before; there is always room for
\* none.
readInplace(p, at, len) ==
    IF len = 0 THEN <<>>
    ELSE IF at <= Len(p) /\ "raw" \in DOMAIN p[at] THEN p[at].raw
    ELSE NULL

-----------------------------------------------------------------------------
(* Writing.                                                                *)

Write(s, format) ==
    FlattenSeq([i \in DOMAIN format |->
        LET f == format[i]
        IN  IF f.kind = "digits"
            THEN [k \in 1..Least(s[f.count], f.max) |-> ("byte" :> s[f.name][k])]
            ELSE <<f.kind :> s[f.name]>>])

WriteRaw(bytes, len) == IF len = 0 THEN <<>> ELSE <<[raw |-> bytes]>>

=============================================================================
