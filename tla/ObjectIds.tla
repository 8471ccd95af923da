----------------------------- MODULE ObjectIds -----------------------------
(***************************************************************************)
(* An ObjectId as 12 bytes and as a text (objectid.rs), and the            *)
(* expressions over columns of either (expressions.rs). Pure.              *)
(*                                                                         *)
(* A byte is two digits of Radix; an array whose bytes may be null has     *)
(* NullByte in their place. A text is a sequence of characters, of which   *)
(* those that are hexadecimal digits are records. A column is a sequence   *)
(* of optional values: sequences of at most one.                           *)
(***************************************************************************)
EXTENDS Integers, Sequences

CONSTANTS Radix,        \* number of digits (16)
          FirstLetter,  \* the first digit that is a letter (10)
          NullByte      \* a null in an Array(UInt8, 12)

ASSUME RadixAssumption    == Radix \in Nat \ {0}
ASSUME NullByteAssumption == NullByte \notin Nat

None    == <<>>
Some(x) == <<x>>

IdLength    == 12
HexLength   == 24  \* OBJECT_ID_HEX_LEN
StampLength == 4   \* bytes of the creation time, the most significant first

Byte      == 0 .. Radix * Radix - 1
IdBytes   == [1 .. IdLength -> Byte]
HexDigits == {c \in [digit : 0 .. Radix - 1, upper : BOOLEAN] : c.upper => c.digit >= FirstLetter}

Whole(bytes) == Len(bytes) = IdLength /\ \A k \in DOMAIN bytes : bytes[k] # NullByte

----------------------------------------------------------------------------
(* One value.                                                              *)
AllHex(text) == \A k \in DOMAIN text : text[k] \in HexDigits

IsValidObjectId(text) == Len(text) = HexLength /\ AllHex(text)

Lower(d) == [digit |-> d, upper |-> FALSE]

(* ObjectId::to_hex.                                                       *)
ToHex(bytes) ==
    [k \in 1 .. 2 * Len(bytes) |->
        Lower(IF k % 2 = 1 THEN bytes[(k + 1) \div 2] \div Radix ELSE bytes[k \div 2] % Radix)]

Decoded(text) ==
    [k \in 1 .. Len(text) \div 2 |-> text[2 * k - 1].digit * Radix + text[2 * k].digit]

(* ObjectId::parse_str: pairs of digits, and as many bytes as an id has.   *)
FromHex(text) ==
    IF Len(text) % 2 = 0 /\ AllHex(text) /\ Len(Decoded(text)) = IdLength
    THEN Some(Decoded(text))
    ELSE None

\* Mutant of Seconds: the least significant byte comes first.
SecondsReversed(bytes) ==
    LET B == Radix * Radix IN ((bytes[4] * B + bytes[3]) * B + bytes[2]) * B + bytes[1]

Seconds(bytes) ==
    LET B == Radix * Radix IN ((bytes[1] * B + bytes[2]) * B + bytes[3]) * B + bytes[4]

Units == {"ms", "us", "ns"}

SecondsScale == [ms |-> 1000, us |-> 1000000, ns |-> 1000000000]

----------------------------------------------------------------------------
(* A column. What is null, or no id, gives a null.                         *)
IsObjectId(texts) ==
    [r \in DOMAIN texts |-> IF texts[r] = None THEN None ELSE Some(IsValidObjectId(texts[r][1]))]

IdIn(slot) == slot # None /\ Whole(slot[1])

ObjectIdToHex(ids) ==
    [r \in DOMAIN ids |-> IF IdIn(ids[r]) THEN Some(ToHex(ids[r][1])) ELSE None]

ObjectIdFromHex(texts) ==
    [r \in DOMAIN texts |-> IF texts[r] = None THEN None ELSE FromHex(texts[r][1])]

ObjectIdTimestamp(ids, unit) ==
    [r \in DOMAIN ids |-> IF IdIn(ids[r]) THEN Some(Seconds(ids[r][1]) * SecondsScale[unit]) ELSE None]

----------------------------------------------------------------------------
(* Reference: what the first n digits of a text say, digit by digit, and   *)
(* the same text in upper case.                                            *)
DigitsValue(text, n) ==
    LET value[k \in 0 .. n] == IF k = 0 THEN 0 ELSE value[k - 1] * Radix + text[k].digit IN value[n]

InUpperCase(text) == [k \in DOMAIN text |-> [text[k] EXCEPT !.upper = text[k].digit >= FirstLetter]]
============================================================================
