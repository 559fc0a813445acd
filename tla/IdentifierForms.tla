--------------------------- MODULE IdentifierForms --------------------------
(* TemporalId and ObjectId as the bytes they are stored, compared and printed *)
(* as.  Sizes in bytes are the program's; a byte has fewer values here.       *)
EXTENDS Integers, Sequences, SequencesExt

CONSTANTS
    Digit,      \* how many values a hexadecimal digit has; a byte is two digits
    Second,     \* milliseconds of a second
    Tails,      \* the last eight bytes that the driver may give an id
    Times,      \* the LocalDateTimes that ids are made of, from the epoch in milliseconds
    MaxClock, MaxIds

VARIABLES
    clock,      \* milliseconds since the epoch
    ids         \* TemporalIds: the bytes, and what they were made of

idVars == <<clock, ids>>

Byte == Digit * Digit
Size == 16
OidSize == 12

(* ByteArray.                                                                 *)

\* The bytes as the processor has them (and a mutant of the next definition).
CopyNative(value, size) == [i \in 1 .. size |-> (value \div Byte^(i - 1)) % Byte]
\* The highest byte first; the shift of a negative value keeps its sign.
copy_value(value, size) == [i \in 1 .. size |-> (value \div Byte^(size - i)) % Byte]
\* As an unsigned number.
to_primitive(bytes) == FoldLeft(LAMBDA n, b : n * Byte + b, 0, bytes)
\* memcmp, of arrays of one length.
Less(a, b) == \E i \in DOMAIN a : a[i] < b[i] /\ \A j \in 1 .. i - 1 : a[j] = b[j]

(* ObjectId: four bytes of seconds, and the rest.                             *)

generate_oid(ms, tail) == copy_value(ms \div Second, 4) \o tail
\* The seconds of a time, with the lowest byte first.
OidOfTime(ms) == CopyNative(ms \div Second, 8) \o [i \in 1 .. OidSize - 8 |-> 0]
OidTimes == {ms \in Times : ms >= 0}

(* TemporalId: eight bytes of milliseconds, and the rest of an ObjectId.      *)

IdOf(ms, tail) == copy_value(ms, 8) \o tail
generate_new_id(tail) == IdOf(clock, tail)
IdOfTime(ms) == IdOf(ms, [i \in 1 .. 8 |-> 0])
IdOfOid(oid) == IdOf(to_primitive(SubSeq(oid, 1, 4)) * Second, SubSeq(oid, 5, OidSize))

\* Two numbers of sixteen digits with leading zeros.
Digits(n) == [i \in 1 .. 16 |-> (n \div Digit^(16 - i)) % Digit]
to_string(id) == Digits(to_primitive(SubSeq(id, 1, 8))) \o Digits(to_primitive(SubSeq(id, 9, Size)))
NumberOf(text) == FoldLeft(LAMBDA n, d : n * Digit + d, 0, text)
ParseId(text) == copy_value(NumberOf(SubSeq(text, 1, 16)), 8) \o copy_value(NumberOf(SubSeq(text, 17, 32)), 8)

------------------------------------------------------------------------------
IdsInit == clock = 0 /\ ids = <<>>

Made(bytes, ms, by, oid) ==
    /\ Len(ids) < MaxIds
    /\ ids' = Append(ids, [bytes |-> bytes, ms |-> ms, by |-> by, oid |-> oid])
    /\ UNCHANGED clock

Tick == clock < MaxClock /\ clock' = clock + 1 /\ UNCHANGED ids
Generate == \E tail \in Tails : Made(generate_new_id(tail), clock, "clock", <<>>)
MakeOfTime == \E ms \in Times : Made(IdOfTime(ms), ms, "time", <<>>)
\* The _id of a document that another program wrote is an ObjectId.
MakeOfOid ==
    \E tail \in Tails :
        LET oid == generate_oid(clock, tail) IN Made(IdOfOid(oid), clock - (clock % Second), "oid", oid)
MakeOfOidTime ==
    \E ms \in OidTimes : Made(IdOfOid(OidOfTime(ms)), ms, "oid time", OidOfTime(ms))
\* deserialize: from the text of an id, or as the bytes of one.
Deserialize ==
    \E i \in DOMAIN ids :
        /\ ids' = [ids EXCEPT ![i].bytes = ParseId(to_string(@))]
        /\ UNCHANGED clock

IdsNext == Tick \/ Generate \/ MakeOfTime \/ MakeOfOid \/ MakeOfOidTime \/ Deserialize

------------------------------------------------------------------------------
\* Ids are in the order of the times they stand for, whether they were generated, made of
\* a time or of an ObjectId, or read from a text, and so are their texts; the id of a time
\* is not after any id of the same time, as cutoff times rely on; and ids made of
\* ObjectIds keep their order.  This holds from the epoch on: the id of an earlier time is
\* after all of them.  Nor does the ObjectId of a time, whose bytes are in another order,
\* follow that time.
IdsFollowTime ==
    \A i, j \in DOMAIN ids :
        LET a == ids[i]
            b == ids[j]
            timely == {a.by, b.by} \subseteq {"clock", "time", "oid"}
        IN  i # j /\ a.ms >= 0 /\ b.ms >= 0 =>
                /\ timely /\ a.ms < b.ms => Less(a.bytes, b.bytes)
                /\ timely /\ a.ms = b.ms /\ a.by = "time" => ~Less(b.bytes, a.bytes)
                /\ Less(to_string(a.bytes), to_string(b.bytes)) <=> Less(a.bytes, b.bytes)
                /\ {a.by, b.by} \subseteq {"oid", "oid time"} => (Less(a.oid, b.oid) <=> Less(a.bytes, b.bytes))
=============================================================================
