--------------------------- MODULE ConversionProofs ---------------------------
(***************************************************************************)
(* Theorems about Conversion, for any schemas, plans and documents and for *)
(* batches of any size.                                                    *)
(*                                                                         *)
(* The functions of the model recurse along the children of a plan node.   *)
(* What such a function is at a node, given what it is at the children, is *)
(* its equation, from Recursion (the lemmas ...Unfold); what it does for   *)
(* every node follows by induction along the depth of nodes (ByDepth).     *)
(***************************************************************************)
EXTENDS Conversion, SequenceTheorems, WellFoundedInduction, TLAPS

----------------------------------------------------------------------------
(* Induction.                                                              *)

(* A set of natural numbers that is not empty has a least member.          *)
LEMMA LeastNumber ==
    \A N \in SUBSET Nat : N # {} => \E n \in N : \A m \in N : n <= m
<1> SUFFICES ASSUME NEW N \in SUBSET Nat, N # {}
             PROVE  \E n \in N : \A m \in N : n <= m
  OBVIOUS
<1> DEFINE Less == OpToRel(<, Nat)
<1>1. IsWellFoundedOn(Less, Nat)
  BY NatLessThanWellFounded
<1>2. PICK k \in N : TRUE
  OBVIOUS
<1>3. PICK n \in N : \A m \in N : ~(<<m, n>> \in Less)
  BY <1>1, <1>2, WFMin
<1>4. \A m \in N : ~(m < n)
  BY <1>3 DEF OpToRel
<1> QED
  BY <1>4

(* Induction up to a number.                                               *)
LEMMA CountingUp ==
    ASSUME NEW n \in Nat, NEW G, 0 \in G, \A k \in 1 .. n : k - 1 \in G => k \in G
    PROVE  \A k \in 0 .. n : k \in G
<1> DEFINE N == {k \in 0 .. n : k \notin G}
<1>1. SUFFICES ASSUME N # {} PROVE FALSE
  OBVIOUS
<1>2. N \in SUBSET Nat
  OBVIOUS
<1> HIDE DEF N
<1>3. PICK k \in N : \A m \in N : k <= m
  BY <1>1, <1>2, LeastNumber
<1>4. k \in 1 .. n /\ k \notin G
  BY <1>3 DEF N
<1>5. k - 1 \in 0 .. n /\ ~(k <= k - 1)
  BY <1>4
<1>6. k - 1 \notin N
  BY <1>3, <1>5
<1>7. k - 1 \in G
  BY <1>5, <1>6 DEF N
<1> QED
  BY <1>4, <1>7

(* f goes from x0 over the steps G[1], .., G[n].                           *)
Goes(f, n, x0, G) == f = [k \in 0 .. n |-> IF k = 0 THEN x0 ELSE G[k][f[k - 1]]]

LEMMA Successive ==
    ASSUME NEW n \in Nat, NEW G, NEW x0
    PROVE  \E f : Goes(f, n, x0, G)
<1> DEFINE Upto(f, m) == f = [k \in 0 .. m |-> IF k = 0 THEN x0 ELSE G[k][f[k - 1]]]
           Good == {m \in 0 .. n : \E f : Upto(f, m)}
<1>1. 0 \in Good
  <2> DEFINE g == [k \in 0 .. 0 |-> x0]
  <2>1. g = [k \in 0 .. 0 |-> IF k = 0 THEN x0 ELSE G[k][g[k - 1]]]
    OBVIOUS
  <2> HIDE DEF g
  <2> QED
    BY <2>1
<1>2. ASSUME NEW m \in 1 .. n, m - 1 \in Good PROVE m \in Good
  <2>1. PICK g : Upto(g, m - 1)
    BY <1>2
  <2> DEFINE h == [k \in 0 .. m |-> IF k = m THEN G[m][g[m - 1]] ELSE g[k]]
  <2>2. ASSUME NEW k \in 0 .. m PROVE h[k] = IF k = 0 THEN x0 ELSE G[k][h[k - 1]]
    <3>1. CASE k = 0
      BY <2>1, <3>1
    <3>2. CASE k # 0
      <4>1. k - 1 \in 0 .. m /\ k - 1 # m /\ h[k - 1] = g[k - 1]
        BY <3>2
      <4>2. k # m => k \in 0 .. m - 1 /\ g[k] = G[k][g[k - 1]]
        BY <2>1, <3>2
      <4> HIDE DEF Upto
      <4> QED
        BY <3>2, <4>1, <4>2
    <3> QED
      BY <3>1, <3>2
  <2>3. h = [k \in 0 .. m |-> h[k]]
    OBVIOUS
  <2> HIDE DEF h
  <2>4. [k \in 0 .. m |-> h[k]] = [k \in 0 .. m |-> IF k = 0 THEN x0 ELSE G[k][h[k - 1]]]
    BY <2>2, Zenon
  <2> QED
    BY <2>3, <2>4
<1> HIDE DEF Good
<1>3. n \in Good
  BY <1>1, <1>2, CountingUp
<1> QED
  BY <1>3 DEF Good, Goes

----------------------------------------------------------------------------
(* The two forms of an id.                                                 *)

(* The two digits of a byte.                                               *)
LEMMA DigitsOfByte ==
  ASSUME NEW b \in Byte
  PROVE  /\ b \div Radix \in 0 .. Radix - 1
         /\ b % Radix \in 0 .. Radix - 1
         /\ (b \div Radix) * Radix + (b % Radix) = b
<1>1. Radix \in Nat /\ Radix >= 1 /\ b \in Nat /\ b < Radix * Radix
  BY RadixAssumption DEF Byte
<1>2. b % Radix \in 0 .. Radix - 1 /\ b \div Radix \in Int /\ (b \div Radix) * Radix + (b % Radix) = b
  BY <1>1, SMT
<1>3. b \div Radix >= 0 /\ b \div Radix < Radix
  BY <1>1, <1>2, SMT
<1>4. QED
  BY <1>1, <1>2, <1>3

(* Two digits make a byte.                                                 *)
LEMMA ByteOfDigits ==
  ASSUME NEW d \in 0 .. Radix - 1, NEW e \in 0 .. Radix - 1
  PROVE  d * Radix + e \in Byte
<1>1. Radix \in Nat /\ Radix >= 1
  BY RadixAssumption
<1>2. d * Radix <= (Radix - 1) * Radix
  BY <1>1, SMT
<1>3. (Radix - 1) * Radix = Radix * Radix - Radix
  BY <1>1, SMT
<1>4. d * Radix >= 0 /\ d * Radix \in Int /\ Radix * Radix \in Int
  BY <1>1, SMT
<1>5. QED
  BY <1>1, <1>2, <1>3, <1>4 DEF Byte

(* to_hex writes digits in lower case.                                     *)
LEMMA HexDigit ==
  ASSUME NEW d \in 0 .. Radix - 1
  PROVE  Lower(d) \in HexDigits /\ Lower(d).digit = d
BY DEF Lower, HexDigits

(* The case of a letter does not change its digit.                         *)
LEMMA OtherCase ==
  ASSUME NEW D, NEW c \in [digit : D, upper : BOOLEAN], NEW u \in BOOLEAN
  PROVE  LET e == [c EXCEPT !.upper = u] IN
         e \in [digit : D, upper : BOOLEAN] /\ e.digit = c.digit /\ e.upper = u
OBVIOUS

(* A text of twelve bytes has twenty-four digits.                          *)
LEMMA HalfOf ==
  ASSUME NEW n \in Nat, n % 2 = 0, n \div 2 = 12
  PROVE  n = 24
BY SMT

(* The rendering of an id, digit by digit.                                 *)
LEMMA Rendered ==
  ASSUME NEW bytes \in IdBytes
  PROVE  /\ ToHex(bytes) \in [1 .. HexLength -> HexDigits]
         /\ \A k \in 1 .. IdLength : /\ ToHex(bytes)[2 * k - 1].digit = bytes[k] \div Radix
                                     /\ ToHex(bytes)[2 * k].digit = bytes[k] % Radix
<1>1. Len(bytes) = IdLength /\ \A k \in 1 .. IdLength : bytes[k] \in Byte
  BY DEF IdBytes, IdLength
<1>2. ASSUME NEW k \in 1 .. HexLength
      PROVE  /\ k % 2 = 1 => (k + 1) \div 2 \in 1 .. IdLength
             /\ k % 2 # 1 => k \div 2 \in 1 .. IdLength
  BY SMT DEF HexLength, IdLength
<1>3. ASSUME NEW k \in 1 .. HexLength
      PROVE  ToHex(bytes)[k] \in HexDigits
  <2>1. CASE k % 2 = 1
    <3> DEFINE b == bytes[(k + 1) \div 2]
    <3>1. ToHex(bytes)[k] = Lower(b \div Radix)
      BY <1>1, <2>1 DEF ToHex, HexLength, IdLength
    <3>2. b \in Byte
      BY <1>1, <1>2, <2>1
    <3>3. QED
      BY <3>1, <3>2, DigitsOfByte, HexDigit
  <2>2. CASE k % 2 # 1
    <3> DEFINE b == bytes[k \div 2]
    <3>1. ToHex(bytes)[k] = Lower(b % Radix)
      BY <1>1, <2>2 DEF ToHex, HexLength, IdLength
    <3>2. b \in Byte
      BY <1>1, <1>2, <2>2
    <3>3. QED
      BY <3>1, <3>2, DigitsOfByte, HexDigit
  <2>3. QED
    BY <2>1, <2>2
<1>4. ASSUME NEW k \in 1 .. IdLength
      PROVE  /\ ToHex(bytes)[2 * k - 1].digit = bytes[k] \div Radix
             /\ ToHex(bytes)[2 * k].digit = bytes[k] % Radix
  <2>1. /\ 2 * k - 1 \in 1 .. 2 * IdLength /\ (2 * k - 1) % 2 = 1 /\ (2 * k - 1 + 1) \div 2 = k
        /\ 2 * k \in 1 .. 2 * IdLength /\ (2 * k) % 2 = 0 /\ (2 * k) \div 2 = k
    BY SMT DEF IdLength
  <2>2. /\ ToHex(bytes)[2 * k - 1] = Lower(bytes[k] \div Radix)
        /\ ToHex(bytes)[2 * k] = Lower(bytes[k] % Radix)
    BY <1>1, <2>1 DEF ToHex
  <2>3. QED
    BY <2>2 DEF Lower
<1>5. QED
  <2>1. ToHex(bytes) = [k \in 1 .. HexLength |-> ToHex(bytes)[k]]
    BY <1>1 DEF ToHex, HexLength, IdLength
  <2>2. QED
    BY <1>3, <1>4, <2>1

(* The bytes that a text of as many digits as an id has are read as.       *)
LEMMA Read ==
  ASSUME NEW text \in [1 .. HexLength -> HexDigits]
  PROVE  /\ FromHex(text) = Some(Decoded(text))
         /\ Decoded(text) \in IdBytes
         /\ \A k \in 1 .. IdLength :
               Decoded(text)[k] = text[2 * k - 1].digit * Radix + text[2 * k].digit
<1>1. Len(text) = HexLength /\ DOMAIN text = 1 .. HexLength
  BY DEF HexLength
<1>2. Len(text) \div 2 = IdLength /\ Len(text) % 2 = 0
  BY <1>1, SMT DEF HexLength, IdLength
<1>3. Decoded(text) = [k \in 1 .. IdLength |-> text[2 * k - 1].digit * Radix + text[2 * k].digit]
  BY <1>2 DEF Decoded
<1>4. ASSUME NEW k \in 1 .. IdLength
      PROVE  text[2 * k - 1].digit * Radix + text[2 * k].digit \in Byte
  <2>1. text[2 * k - 1] \in HexDigits /\ text[2 * k] \in HexDigits
    BY SMT DEF IdLength, HexLength
  <2>2. text[2 * k - 1].digit \in 0 .. Radix - 1 /\ text[2 * k].digit \in 0 .. Radix - 1
    BY <2>1 DEF HexDigits
  <2>3. QED
    BY <2>2, ByteOfDigits
<1>5. Decoded(text) \in IdBytes
  BY <1>3, <1>4 DEF IdBytes
<1>6. Len(Decoded(text)) = IdLength
  BY <1>5 DEF IdBytes, IdLength
<1>7. AllHex(text)
  BY <1>1 DEF AllHex
<1>8. QED
  BY <1>2, <1>3, <1>5, <1>6, <1>7 DEF FromHex

----------------------------------------------------------------------------
(* An id is rendered as a text that passes for one and parses into it: the *)
(* text form loses nothing. (object_id_to_hex and object_id_from_hex of    *)
(* objectid.rs, is_valid_object_id.)                                       *)
THEOREM HexRoundTrip ==
  ASSUME NEW bytes \in IdBytes
  PROVE  IsValidObjectId(ToHex(bytes)) /\ FromHex(ToHex(bytes)) = Some(bytes)
<1> DEFINE text == ToHex(bytes)
<1>1. text \in [1 .. HexLength -> HexDigits]
  BY Rendered
<1>2. IsValidObjectId(text)
  BY <1>1 DEF IsValidObjectId, AllHex, HexLength
<1>3. ASSUME NEW k \in 1 .. IdLength
      PROVE  Decoded(text)[k] = bytes[k]
  <2>1. Decoded(text)[k] = text[2 * k - 1].digit * Radix + text[2 * k].digit
    BY <1>1, Read
  <2>2. Decoded(text)[k] = (bytes[k] \div Radix) * Radix + (bytes[k] % Radix)
    BY <2>1, Rendered
  <2>3. bytes[k] \in Byte
    BY DEF IdBytes
  <2>4. QED
    BY <2>2, <2>3, DigitsOfByte
<1>4. Decoded(text) = bytes
  <2>1. /\ Decoded(text) = [k \in 1 .. IdLength |-> Decoded(text)[k]]
        /\ bytes = [k \in 1 .. IdLength |-> bytes[k]]
    BY <1>1, Read DEF IdBytes
  <2> HIDE DEF text
  <2>2. QED
    BY <1>3, <2>1
<1>5. QED
  BY <1>1, <1>2, <1>4, Read

(* The check by eye and the parser take the same texts: what is_object_id  *)
(* says yes to parses, and only that.                                      *)
THEOREM ValidIffParses ==
  ASSUME NEW S, NEW text \in Seq(S)
  PROVE  IsValidObjectId(text) <=> FromHex(text) # None
<1>1. ASSUME IsValidObjectId(text)
      PROVE  FromHex(text) # None
  <2>1. text \in [1 .. HexLength -> HexDigits]
    BY <1>1 DEF IsValidObjectId, AllHex
  <2>2. FromHex(text) = Some(Decoded(text))
    BY <2>1, Read
  <2>3. QED
    BY <2>2 DEF Some, None
<1>2. ASSUME FromHex(text) # None
      PROVE  IsValidObjectId(text)
  <2>1. Len(text) % 2 = 0 /\ AllHex(text) /\ Len(Decoded(text)) = IdLength
    BY <1>2 DEF FromHex
  <2>2. Len(text) \in Nat
    OBVIOUS
  <2>3. Len(text) \div 2 \in Nat
    BY <2>2, SMT
  <2>4. Len(Decoded(text)) = Len(text) \div 2
    BY <2>3 DEF Decoded
  <2>5. Len(text) = HexLength
    BY <2>1, <2>2, <2>4, HalfOf DEF IdLength, HexLength
  <2>6. QED
    BY <2>1, <2>5 DEF IsValidObjectId
<1>3. QED
  BY <1>1, <1>2

(* The letters of an id may be in either case.                             *)
THEOREM CaseIgnored ==
  ASSUME NEW text \in [1 .. HexLength -> HexDigits]
  PROVE  FromHex(InUpperCase(text)) = FromHex(text)
<1> DEFINE upper == InUpperCase(text)
<1>1. ASSUME NEW k \in 1 .. HexLength
      PROVE  upper[k] \in HexDigits /\ upper[k].digit = text[k].digit
  <2>1. text[k] \in [digit : 0 .. Radix - 1, upper : BOOLEAN]
    BY DEF HexDigits
  <2>2. upper[k] = [text[k] EXCEPT !.upper = text[k].digit >= FirstLetter]
    BY DEF InUpperCase
  <2>3. (text[k].digit >= FirstLetter) \in BOOLEAN
    OBVIOUS
  <2>4. /\ upper[k].digit = text[k].digit
        /\ upper[k].upper => text[k].digit >= FirstLetter
        /\ upper[k] \in [digit : 0 .. Radix - 1, upper : BOOLEAN]
    BY <2>1, <2>2, <2>3, OtherCase
  <2>5. QED
    BY <2>4 DEF HexDigits
<1>2. upper \in [1 .. HexLength -> HexDigits]
  <2>1. upper = [k \in 1 .. HexLength |-> upper[k]]
    BY DEF InUpperCase
  <2>2. QED
    BY <1>1, <2>1
<1>3. Decoded(upper) = Decoded(text)
  <2>1. ASSUME NEW k \in 1 .. IdLength
        PROVE  Decoded(upper)[k] = Decoded(text)[k]
    <3>1. 2 * k - 1 \in 1 .. HexLength /\ 2 * k \in 1 .. HexLength
      BY SMT DEF IdLength, HexLength
    <3>2. QED
      BY <1>1, <1>2, <3>1, Read
  <2>2. /\ Decoded(upper) = [k \in 1 .. IdLength |-> Decoded(upper)[k]]
        /\ Decoded(text) = [k \in 1 .. IdLength |-> Decoded(text)[k]]
    BY <1>2, Read DEF IdBytes
  <2> HIDE DEF upper
  <2>3. QED
    BY <2>1, <2>2
<1>4. QED
  BY <1>2, <1>3, Read

(* A column of ids that is rendered and parsed again is the same column,   *)
(* nulls included. (object_id_to_hex and object_id_from_hex of             *)
(* expressions.rs.)                                                        *)
THEOREM ColumnRoundTrip ==
  ASSUME NEW n \in Nat,
         NEW ids \in [1 .. n -> {None} \cup {Some(bytes) : bytes \in IdBytes}]
  PROVE  ObjectIdFromHex(ObjectIdToHex(ids)) = ids
<1> DEFINE texts == ObjectIdToHex(ids)
<1>1. ASSUME NEW r \in 1 .. n
      PROVE  ObjectIdFromHex(texts)[r] = ids[r]
  <2>1. CASE ids[r] = None
    <3>1. texts[r] = None
      BY <2>1 DEF ObjectIdToHex, IdIn
    <3>2. QED
      BY <2>1, <3>1 DEF ObjectIdFromHex, ObjectIdToHex
  <2>2. CASE ids[r] # None
    <3>1. PICK bytes \in IdBytes : ids[r] = Some(bytes)
      BY <2>2
    <3>2. Whole(bytes)
      <4>1. Len(bytes) = IdLength /\ DOMAIN bytes = 1 .. IdLength
        BY DEF IdBytes, IdLength
      <4>2. \A k \in 1 .. IdLength : bytes[k] \in Nat
        BY RadixAssumption DEF IdBytes, Byte
      <4>3. QED
        BY <4>1, <4>2, NullByteAssumption DEF Whole
    <3>3. ids[r][1] = bytes
      BY <3>1 DEF Some
    <3>4. texts[r] = Some(ToHex(bytes))
      BY <2>2, <3>2, <3>3 DEF ObjectIdToHex, IdIn
    <3>5. texts[r] # None /\ texts[r][1] = ToHex(bytes)
      BY <3>4 DEF Some, None
    <3>6. ObjectIdFromHex(texts)[r] = FromHex(ToHex(bytes))
      BY <3>5 DEF ObjectIdFromHex, ObjectIdToHex
    <3>7. QED
      BY <3>1, <3>6, HexRoundTrip
  <2>3. QED
    BY <2>1, <2>2
<1>2. ObjectIdFromHex(texts) = [r \in 1 .. n |-> ObjectIdFromHex(texts)[r]]
  BY DEF ObjectIdFromHex, ObjectIdToHex
<1>3. QED
  BY <1>1, <1>2

(* With hexadecimal digits the seconds of an id are an unsigned number of  *)
(* 32 bits, and the moment fits 64 bits in the finest of the units: the    *)
(* product of object_id_timestamp does not overflow.                       *)
THEOREM TimestampFits ==
  ASSUME Radix = 16, NEW bytes \in IdBytes, NEW unit \in Units
  PROVE  /\ Seconds(bytes) \in Nat /\ Seconds(bytes) <= 4294967295
         /\ Seconds(bytes) * SecondsScale[unit] \in Nat /\ Seconds(bytes) * SecondsScale[unit] <= 4611686018427387903
<1>1. \A k \in 1 .. StampLength : bytes[k] \in 0 .. 255
  BY SMT DEF IdBytes, IdLength, StampLength, Byte
<1>2. Seconds(bytes) = ((bytes[1] * 256 + bytes[2]) * 256 + bytes[3]) * 256 + bytes[4]
  BY SMT DEF Seconds
<1>3. Seconds(bytes) \in Nat /\ Seconds(bytes) <= 4294967295
  <2>1. bytes[1] \in 0 .. 255 /\ bytes[2] \in 0 .. 255 /\ bytes[3] \in 0 .. 255 /\ bytes[4] \in 0 .. 255
    BY <1>1 DEF StampLength
  <2>2. PICK a \in 0 .. 255, b \in 0 .. 255, c \in 0 .. 255, d \in 0 .. 255 :
          a = bytes[1] /\ b = bytes[2] /\ c = bytes[3] /\ d = bytes[4]
    BY <2>1, Zenon
  <2>3. Seconds(bytes) = ((a * 256 + b) * 256 + c) * 256 + d
    BY <1>2, <2>2, Zenon
  <2>4. ((a * 256 + b) * 256 + c) * 256 + d \in Nat /\ ((a * 256 + b) * 256 + c) * 256 + d <= 4294967295
    BY SMT
  <2>5. QED
    BY <2>3, <2>4, SMT
<1>4. SecondsScale[unit] \in {1000, 1000000, 1000000000}
  BY SMT DEF Units, SecondsScale
<1>5. /\ Seconds(bytes) * 1000 \in Nat /\ Seconds(bytes) * 1000 <= 4611686018427387903
      /\ Seconds(bytes) * 1000000 \in Nat /\ Seconds(bytes) * 1000000 <= 4611686018427387903
      /\ Seconds(bytes) * 1000000000 \in Nat /\ Seconds(bytes) * 1000000000 <= 4611686018427387903
  BY <1>3, SMT
<1>6. QED
  BY <1>3, <1>4, <1>5, SMT

----------------------------------------------------------------------------
(* Plan nodes, and the values that may be pushed at one.                   *)

----------------------------------------------------------------------------
(* Nodes.                                                                  *)
LEMMA NodeFacts ==
    ASSUME NEW p \in Nodes
    PROVE  /\ Depth(p) \in Nat
           /\ p.nullable \in BOOLEAN
           /\ p.type \in DOMAIN Leaves \/ p.type = "Struct" \/ p.type = "List"
           /\ "Struct" \notin DOMAIN Leaves /\ "List" \notin DOMAIN Leaves
           /\ Len(p.children) \in Nat /\ DOMAIN p.children = 1 .. Len(p.children)
           /\ \A i \in DOMAIN p.children : /\ p.children[i] \in Nodes
                                           /\ Depth(p.children[i]) < Depth(p)
           /\ p.type = "List" => 1 \in DOMAIN p.children
<1>1. "Struct" \notin DOMAIN Leaves /\ "List" \notin DOMAIN Leaves
  BY DEF Leaves
<1> QED
  BY <1>1, NodesAssumption

(* What holds of a node when it holds of all that are less deep holds of   *)
(* every node.                                                             *)
LEMMA ByDepth ==
    ASSUME NEW G, \A p \in Nodes : (\A q \in Nodes : Depth(q) < Depth(p) => q \in G) => p \in G
    PROVE  \A p \in Nodes : p \in G
<1> DEFINE N == {Depth(p) : p \in {q \in Nodes : q \notin G}}
<1>1. SUFFICES ASSUME N # {} PROVE FALSE
  OBVIOUS
<1>2. N \in SUBSET Nat
  BY NodeFacts
<1>3. PICK n \in N : \A m \in N : n <= m
  <2> HIDE DEF N
  <2> QED
    BY <1>1, <1>2, LeastNumber
<1>4. PICK p \in Nodes : p \notin G /\ Depth(p) = n
  BY <1>3
<1>5. ASSUME NEW q \in Nodes, Depth(q) < Depth(p) PROVE q \in G
  <2>1. q \notin G => Depth(q) \in N
    OBVIOUS
  <2>2. Depth(p) \in Nat /\ Depth(q) \in Nat
    BY NodeFacts
  <2> HIDE DEF N
  <2> QED
    BY <1>3, <1>4, <1>5, <2>1, <2>2
<1> QED
  BY <1>4, <1>5

----------------------------------------------------------------------------
(* BSON values and columns.                                                *)
BsonBody(f, p) ==
    [tag : NullTags \cup OtherTags] \cup [tag : ScalarTags, value : Payload]
    \cup [tag : {"ObjectId"}, value : IdBytes] \cup [tag : {"Timestamp"}, time : Nat, increment : Nat]
    \cup CASE p.type = "Struct" ->
                 LET names == {p.children[i].name : i \in DOMAIN p.children}
                     some  == AnyOf([i \in DOMAIN p.children |-> f[p.children[i]]]) IN
                 [tag : {"Array"}]
                 \cup [tag    : {"EmbeddedDocument"},
                       fields : {c \in [names -> some] :
                                    \A i \in DOMAIN p.children :
                                        c[p.children[i].name] \in f[p.children[i]]}]
           [] p.type = "List" ->
                 [tag : {"EmbeddedDocument"}] \cup [tag : {"Array"}, items : Seq(f[p.children[1]])]
           [] OTHER -> [tag : {"EmbeddedDocument", "Array"}]

BsonRec == INSTANCE Recursion WITH S <- Nodes, Rank <- Depth, Body <- BsonBody

(* Children are less deep than their node.                                 *)
LEMMA NodesRanked == BsonRec!Ranked
  BY NodeFacts DEF BsonRec!Ranked

(* What may be pushed at a node, from what may be at its children.         *)
LEMMA BsonUnfold ==
    ASSUME NEW p \in Nodes
    PROVE  Bson[p] = BsonBody(Bson, p)
<1>1. BsonRec!Local
  <2> SUFFICES ASSUME NEW q \in Nodes, NEW g, NEW h,
                      \A y \in Nodes : Depth(y) < Depth(q) => g[y] = h[y]
               PROVE  BsonBody(g, q) = BsonBody(h, q)
    BY DEF BsonRec!Local
  <2>1. \A i \in DOMAIN q.children : g[q.children[i]] = h[q.children[i]]
    BY NodeFacts
  <2>2. [i \in DOMAIN q.children |-> g[q.children[i]]] = [i \in DOMAIN q.children |-> h[q.children[i]]]
    BY <2>1, Zenon
  <2>3. CASE q.type = "Struct"
    BY <2>1, <2>2, <2>3 DEF BsonBody
  <2>4. CASE q.type = "List"
    <3>1. g[q.children[1]] = h[q.children[1]]
      BY <2>1, <2>4, NodeFacts
    <3> QED
      BY <2>4, <3>1 DEF BsonBody
  <2>5. CASE q.type # "Struct" /\ q.type # "List"
    BY <2>5 DEF BsonBody
  <2> QED
    BY <2>3, <2>4, <2>5
<1>2. \E f : f = [q \in Nodes |-> BsonBody(f, q)]
  BY <1>1, NodesRanked, LeastNumber, BsonRec!RecursiveFunction
<1>3. Bson = [q \in Nodes |-> BsonBody(Bson, q)]
  BY <1>2, Zenon DEF Bson, BsonBody
<1> QED
  BY <1>3

(* Each of the sets is in the union of them.                               *)
LEMMA InAnyOf ==
    ASSUME NEW sets, Len(sets) \in Nat, NEW k \in 1 .. Len(sets)
    PROVE  sets[k] \subseteq AnyOf(sets)
<1> DEFINE n  == Len(sets)
           U  == UNION {sets[j] : j \in 1 .. n}
           G  == [j \in 1 .. n |-> [u \in SUBSET U |-> u \cup sets[j]]]
           Is(f) == f = [j \in 0 .. n |-> IF j = 0 THEN {} ELSE f[j - 1] \cup sets[j]]
<1>0. n \in Nat
  OBVIOUS
<1>1. \E f : Is(f)
  <2>1. PICK h : Goes(h, n, {}, G)
    <3> HIDE DEF G, n
    <3> QED
      BY <1>0, Successive
  <2> DEFINE Good == {j \in 0 .. n : h[j] \in SUBSET U}
  <2> HIDE DEF n, U, G
  <2>2. h[0] = {} /\ 0 \in Good
    BY <1>0, <2>1 DEF Goes
  <2>3. ASSUME NEW j \in 1 .. n, j - 1 \in Good PROVE j \in Good /\ h[j] = h[j - 1] \cup sets[j]
    <3>0. j \in 0 .. n /\ j # 0
      BY <1>0
    <3>1. h[j] = G[j][h[j - 1]]
      BY <2>1, <3>0 DEF Goes
    <3>2. h[j - 1] \in SUBSET U
      BY <2>3
    <3>3. h[j] = h[j - 1] \cup sets[j]
      BY <3>1, <3>2 DEF G
    <3>4. sets[j] \subseteq U
      BY DEF U
    <3> QED
      BY <3>2, <3>3, <3>4
  <2> HIDE DEF Good
  <2>4. \A j \in 0 .. n : j \in Good
    BY <1>0, <2>2, <2>3, CountingUp
  <2>5. \A j \in 0 .. n : h[j] = IF j = 0 THEN {} ELSE h[j - 1] \cup sets[j]
    <3>1. ASSUME NEW j \in 1 .. n PROVE h[j] = h[j - 1] \cup sets[j]
      <4>1. j - 1 \in 0 .. n
        BY <1>0
      <4> QED
        BY <4>1, <2>3, <2>4
    <3>2. \A j \in 0 .. n : j = 0 \/ j \in 1 .. n
      BY <1>0
    <3> QED
      BY <2>2, <3>1, <3>2
  <2>6. h = [j \in 0 .. n |-> h[j]]
    BY <2>1 DEF Goes
  <2>7. [j \in 0 .. n |-> h[j]] = [j \in 0 .. n |-> IF j = 0 THEN {} ELSE h[j - 1] \cup sets[j]]
    BY <2>5, Zenon
  <2> QED
    BY <2>6, <2>7
<1> DEFINE upTo == CHOOSE f : Is(f)
<1>2. Is(upTo)
  BY <1>1
<1>3. AnyOf(sets) = upTo[n]
  BY DEF AnyOf
<1> HIDE DEF upTo, n
<1> DEFINE Holds == {j \in 0 .. n : \A i \in 1 .. j : sets[i] \subseteq upTo[j]}
<1>4. 0 \in Holds
  BY <1>0
<1>5. ASSUME NEW j \in 1 .. n, j - 1 \in Holds PROVE j \in Holds
  <2>1. upTo[j] = upTo[j - 1] \cup sets[j]
    BY <1>0, <1>2
  <2>2. ASSUME NEW i \in 1 .. j PROVE sets[i] \subseteq upTo[j]
    BY <1>0, <1>5, <2>1
  <2> QED
    BY <1>0, <2>2
<1> HIDE DEF Holds
<1>6. n \in Holds
  BY <1>0, <1>4, <1>5, CountingUp
<1> QED
  BY <1>0, <1>3, <1>6 DEF Holds, n

(* The tags of scalars, and those which some leaf accepts.                 *)
LEMMA TagsAre ==
    /\ ScalarTags = {"Int32", "Int64", "Double", "Decimal128", "Boolean", "String", "Binary", "DateTime"}
    /\ \A type \in DOMAIN Leaves : Leaves[type] \subseteq ScalarTags \cup {"Timestamp", "ObjectId"}
<1>1. DOMAIN Leaves = {"Int32", "Int64", "Float64", "Decimal128", "Boolean", "String", "Binary",
                       "DateTimeMs", "Timestamp", "ObjectId"}
  BY DEF Leaves
<1>2. /\ Leaves["Int32"] = {"Int32"} /\ Leaves["Int64"] = {"Int32", "Int64"}
      /\ Leaves["Float64"] = {"Double", "Int32", "Int64", "Decimal128"}
      /\ Leaves["Decimal128"] = {"Double", "Int32", "Int64", "Decimal128"}
      /\ Leaves["Boolean"] = {"Boolean"} /\ Leaves["String"] = {"String"} /\ Leaves["Binary"] = {"Binary"}
      /\ Leaves["DateTimeMs"] = {"DateTime", "Timestamp"} /\ Leaves["Timestamp"] = {"DateTime", "Timestamp"}
      /\ Leaves["ObjectId"] = {"ObjectId"}
  BY DEF Leaves
<1> DEFINE all == UNION {Leaves[type] : type \in DOMAIN Leaves}
<1>3. \A x : x \in all
             <=> x \in {"Int32", "Int64", "Double", "Decimal128", "Boolean", "String", "Binary",
                        "DateTime", "Timestamp", "ObjectId"}
  <2>1. ASSUME NEW x, NEW type \in DOMAIN Leaves, x \in Leaves[type]
        PROVE  x \in {"Int32", "Int64", "Double", "Decimal128", "Boolean", "String", "Binary",
                      "DateTime", "Timestamp", "ObjectId"}
    BY <1>1, <1>2, <2>1
  <2>2. /\ "Int32" \in Leaves["Int32"] /\ "Int64" \in Leaves["Int64"] /\ "Double" \in Leaves["Float64"]
        /\ "Decimal128" \in Leaves["Decimal128"] /\ "Boolean" \in Leaves["Boolean"]
        /\ "String" \in Leaves["String"] /\ "Binary" \in Leaves["Binary"]
        /\ "DateTime" \in Leaves["DateTimeMs"] /\ "Timestamp" \in Leaves["Timestamp"]
        /\ "ObjectId" \in Leaves["ObjectId"]
    BY <1>2
  <2> QED
    BY <1>1, <2>1, <2>2
<1>4. ScalarTags = {"Int32", "Int64", "Double", "Decimal128", "Boolean", "String", "Binary", "DateTime"}
  <2>1. ScalarTags = all \ {"Timestamp", "ObjectId"}
    BY Zenon DEF ScalarTags
  <2> HIDE DEF all
  <2>2. \A x : x \in ScalarTags
               <=> x \in {"Int32", "Int64", "Double", "Decimal128", "Boolean", "String", "Binary", "DateTime"}
    BY <1>3, <2>1
  <2> QED
    BY <2>2
<1> QED
  BY <1>1, <1>2, <1>4

(* What is inside a value.                                                 *)
LEMMA BsonParts ==
    ASSUME NEW p \in Nodes, NEW v \in Bson[p]
    PROVE  /\ p.type = "Struct" /\ v.tag = "EmbeddedDocument" =>
                  \A i \in DOMAIN p.children : FieldOf(v, p.children[i]) \in Bson[p.children[i]]
           /\ p.type = "List" /\ v.tag = "Array" => v.items \in Seq(Bson[p.children[1]])
           /\ v.tag \in ScalarTags => v.value \in Payload
           /\ v.tag = "ObjectId" => v.value \in IdBytes
           /\ v.tag = "Timestamp" => v.time \in Nat
<1>1. v \in BsonBody(Bson, p)
  BY BsonUnfold
<1>2. CASE v \in [tag : NullTags \cup OtherTags]
  BY <1>2, TagsAre DEF NullTags, OtherTags
<1>3. CASE v \in [tag : ScalarTags, value : Payload]
  BY <1>3, TagsAre
<1>4. CASE v \in [tag : {"ObjectId"}, value : IdBytes]
  BY <1>4, TagsAre
<1>5. CASE v \in [tag : {"Timestamp"}, time : Nat, increment : Nat]
  BY <1>5, TagsAre
<1>6. CASE /\ v \notin [tag : NullTags \cup OtherTags]
           /\ v \notin [tag : ScalarTags, value : Payload]
           /\ v \notin [tag : {"ObjectId"}, value : IdBytes]
           /\ v \notin [tag : {"Timestamp"}, time : Nat, increment : Nat]
  <2>1. CASE p.type = "Struct"
    <3> DEFINE names == {p.children[i].name : i \in DOMAIN p.children}
               some  == AnyOf([i \in DOMAIN p.children |-> Bson[p.children[i]]])
               fs    == {c \in [names -> some] : \A i \in DOMAIN p.children :
                                        c[p.children[i].name] \in Bson[p.children[i]]}
    <3>1. v \in [tag : {"Array"}] \cup [tag : {"EmbeddedDocument"}, fields : fs]
      BY <1>1, <1>6, <2>1 DEF BsonBody
    <3>2. CASE v \in [tag : {"Array"}]
      BY <2>1, <3>2, TagsAre
    <3>3. CASE v \in [tag : {"EmbeddedDocument"}, fields : fs]
      <4>1. v.tag = "EmbeddedDocument" /\ v.fields \in fs
        <5> HIDE DEF fs
        <5> QED
          BY <3>3
      <4>2. \A i \in DOMAIN p.children : v.fields[p.children[i].name] \in Bson[p.children[i]]
        BY <4>1
      <4> QED
        BY <2>1, <4>1, <4>2, TagsAre DEF FieldOf
    <3> QED
      BY <3>1, <3>2, <3>3
  <2>2. CASE p.type = "List"
    <3>1. v \in [tag : {"EmbeddedDocument"}] \cup [tag : {"Array"}, items : Seq(Bson[p.children[1]])]
      BY <1>1, <1>6, <2>2 DEF BsonBody
    <3> QED
      BY <2>2, <3>1, TagsAre
  <2>3. CASE p.type # "Struct" /\ p.type # "List"
    <3>1. v \in [tag : {"EmbeddedDocument", "Array"}]
      BY <1>1, <1>6, <2>3 DEF BsonBody
    <3> QED
      BY <2>3, <3>1, TagsAre
  <2> QED
    BY <2>1, <2>2, <2>3
<1> QED
  BY <1>2, <1>3, <1>4, <1>5, <1>6

(* What a leaf accepts has a payload.                                      *)
LEMMA LeafPayload ==
    ASSUME NEW p \in Nodes, NEW v \in Bson[p], p.type \in DOMAIN Leaves, v.tag \in Leaves[p.type]
    PROVE  LeafValue(v) \in Payload /\ (p.type = "ObjectId" => LeafValue(v) \in IdBytes)
<1>1. v.tag \in ScalarTags \cup {"Timestamp", "ObjectId"}
  BY TagsAre
<1>2. CASE v.tag \in ScalarTags
  <2>1. LeafValue(v) = v.value /\ v.value \in Payload
    BY <1>2, BsonParts, TagsAre DEF LeafValue
  <2>2. p.type # "ObjectId"
    BY <1>2, TagsAre DEF Leaves
  <2> QED
    BY <2>1, <2>2
<1>3. CASE v.tag = "Timestamp"
  <2>1. LeafValue(v) = <<v.time * MillisPerSecond>> /\ v.time * MillisPerSecond \in Nat
    BY <1>3, BsonParts DEF LeafValue, MillisPerSecond
  <2>2. p.type # "ObjectId"
    BY <1>3 DEF Leaves
  <2> QED
    BY <2>1, <2>2 DEF Payload
<1>4. CASE v.tag = "ObjectId"
  <2>1. LeafValue(v) = v.value /\ v.value \in IdBytes
    BY <1>4, BsonParts DEF LeafValue
  <2>2. IdBytes \subseteq Payload
    <3>1. \A b \in Byte : b \in Int
      BY RadixAssumption DEF Byte
    <3>2. ASSUME NEW b \in IdBytes PROVE b \in Seq(Int \cup {NullByte})
      <4>1. b \in [1 .. 12 -> Int \cup {NullByte}]
        BY <3>1 DEF IdBytes, IdLength
      <4>2. [1 .. 12 -> Int \cup {NullByte}] \in {[1 .. n -> Int \cup {NullByte}] : n \in Nat}
        OBVIOUS
      <4> QED
        BY <4>1, <4>2, SeqDef, Zenon
    <3> QED
      BY <3>2 DEF Payload
  <2> QED
    BY <2>1, <2>2
<1> QED
  BY <1>1, <1>2, <1>3, <1>4

----------------------------------------------------------------------------
(* Columns.                                                                *)

ColumnsBody(f, p) ==
    CASE p.type = "Struct" ->
            LET some == AnyOf([i \in DOMAIN p.children |-> f[p.children[i]]]) IN
            [children : {c \in [DOMAIN p.children -> some] :
                            \A i \in DOMAIN p.children : c[i] \in f[p.children[i]]},
             validity : Seq(BOOLEAN)]
      [] p.type = "List" ->
            [child : f[p.children[1]], offsets : Seq(Nat), validity : Seq(BOOLEAN)]
      [] OTHER -> [values : Seq(Slots)]

ColumnsRec == INSTANCE Recursion WITH S <- Nodes, Rank <- Depth, Body <- ColumnsBody

(* The columns of a node, from those of its children.                      *)
LEMMA ColumnsUnfold ==
    ASSUME NEW p \in Nodes
    PROVE  Columns[p] = ColumnsBody(Columns, p)
<1>1. ColumnsRec!Local
  <2> SUFFICES ASSUME NEW q \in Nodes, NEW g, NEW h,
                      \A y \in Nodes : Depth(y) < Depth(q) => g[y] = h[y]
               PROVE  ColumnsBody(g, q) = ColumnsBody(h, q)
    BY DEF ColumnsRec!Local
  <2>1. \A i \in DOMAIN q.children : g[q.children[i]] = h[q.children[i]]
    BY NodeFacts
  <2>2. [i \in DOMAIN q.children |-> g[q.children[i]]] = [i \in DOMAIN q.children |-> h[q.children[i]]]
    BY <2>1, Zenon
  <2>3. CASE q.type = "Struct"
    BY <2>1, <2>2, <2>3 DEF ColumnsBody
  <2>4. CASE q.type = "List"
    <3>1. g[q.children[1]] = h[q.children[1]]
      BY <2>1, <2>4, NodeFacts
    <3> QED
      BY <2>4, <3>1 DEF ColumnsBody
  <2>5. CASE q.type # "Struct" /\ q.type # "List"
    BY <2>5 DEF ColumnsBody
  <2> QED
    BY <2>3, <2>4, <2>5
<1>2. ColumnsRec!Ranked
  BY NodeFacts DEF ColumnsRec!Ranked
<1>3. \E f : f = [q \in Nodes |-> ColumnsBody(f, q)]
  BY <1>1, <1>2, LeastNumber, ColumnsRec!RecursiveFunction
<1>4. Columns = [q \in Nodes |-> ColumnsBody(Columns, q)]
  BY <1>3, Zenon DEF Columns, ColumnsBody
<1> QED
  BY <1>4

(* The columns of a struct, of a list and of a leaf.                       *)
LEMMA StructColumns ==
    ASSUME NEW p \in Nodes, p.type = "Struct"
    PROVE  /\ \A col \in Columns[p] :
                 /\ col = [children |-> col.children, validity |-> col.validity]
                 /\ col.validity \in Seq(BOOLEAN)
                 /\ DOMAIN col.children = DOMAIN p.children
                 /\ \A i \in DOMAIN p.children : col.children[i] \in Columns[p.children[i]]
           /\ \A c, validity :
                 /\ c = [i \in DOMAIN p.children |-> c[i]]
                 /\ \A i \in DOMAIN p.children : c[i] \in Columns[p.children[i]]
                 /\ validity \in Seq(BOOLEAN)
                 => [children |-> c, validity |-> validity] \in Columns[p]
<1> DEFINE sets == [i \in DOMAIN p.children |-> Columns[p.children[i]]]
           cs   == {c \in [DOMAIN p.children -> AnyOf(sets)] :
                       \A i \in DOMAIN p.children : c[i] \in Columns[p.children[i]]}
<1>1. Columns[p] = [children : cs, validity : Seq(BOOLEAN)]
  BY ColumnsUnfold DEF ColumnsBody
<1>2. Len(sets) \in Nat /\ DOMAIN p.children = 1 .. Len(sets)
  BY NodeFacts
<1>3. \A i \in DOMAIN p.children : sets[i] \subseteq AnyOf(sets)
  <2> HIDE DEF sets
  <2> QED
    BY <1>2, InAnyOf
<1>4. \A i \in DOMAIN p.children : Columns[p.children[i]] \subseteq AnyOf(sets)
  BY <1>3
<1>5. ASSUME NEW col \in Columns[p]
      PROVE  /\ col = [children |-> col.children, validity |-> col.validity]
             /\ col.validity \in Seq(BOOLEAN)
             /\ DOMAIN col.children = DOMAIN p.children
             /\ \A i \in DOMAIN p.children : col.children[i] \in Columns[p.children[i]]
  <2>1. col = [children |-> col.children, validity |-> col.validity] /\ col.children \in cs
        /\ col.validity \in Seq(BOOLEAN)
    <3> HIDE DEF cs
    <3> QED
      BY <1>1
  <2> QED
    BY <2>1
<1>6. ASSUME NEW c, NEW validity \in Seq(BOOLEAN), c = [i \in DOMAIN p.children |-> c[i]],
             \A i \in DOMAIN p.children : c[i] \in Columns[p.children[i]]
      PROVE  [children |-> c, validity |-> validity] \in Columns[p]
  <2>1. c \in [DOMAIN p.children -> AnyOf(sets)]
    <3> HIDE DEF sets
    <3> QED
      BY <1>4, <1>6
  <2>2. c \in cs
    BY <1>6, <2>1
  <2> HIDE DEF cs
  <2> QED
    BY <1>1, <2>2
<1> QED
  BY <1>5, <1>6

(* The columns of a list.                                                  *)
LEMMA ListColumns ==
    ASSUME NEW p \in Nodes, p.type = "List"
    PROVE  /\ p.children[1] \in Nodes
           /\ Columns[p] = [child : Columns[p.children[1]], offsets : Seq(Nat), validity : Seq(BOOLEAN)]
  BY ColumnsUnfold, NodeFacts DEF ColumnsBody

(* The columns of a leaf.                                                  *)
LEMMA LeafColumns ==
    ASSUME NEW p \in Nodes, p.type # "Struct", p.type # "List"
    PROVE  Columns[p] = [values : Seq(Slots)]
  BY ColumnsUnfold DEF ColumnsBody

----------------------------------------------------------------------------
(* What the functions of decode.rs are at a node.                          *)

NewBuilderBody(f, p) ==
    CASE p.type = "Struct" -> [children |-> [i \in DOMAIN p.children |-> f[p.children[i]]],
                               validity |-> <<>>]
      [] p.type = "List"   -> [child |-> f[p.children[1]], offsets |-> <<0>>, validity |-> <<>>]
      [] OTHER             -> [values |-> <<>>]

NewBuilderRec == INSTANCE Recursion WITH S <- Nodes, Rank <- Depth, Body <- NewBuilderBody

(* Builder::new: a struct makes a builder for each field, a list one for   *)
(* its items.                                                              *)
LEMMA NewBuilderUnfold ==
    ASSUME NEW p \in Nodes
    PROVE  NewBuilder[p] = NewBuilderBody(NewBuilder, p)
<1>1. NewBuilderRec!Local
  <2> SUFFICES ASSUME NEW q \in Nodes, NEW g, NEW h,
                      \A y \in Nodes : Depth(y) < Depth(q) => g[y] = h[y]
               PROVE  NewBuilderBody(g, q) = NewBuilderBody(h, q)
    BY DEF NewBuilderRec!Local
  <2>1. \A i \in DOMAIN q.children : g[q.children[i]] = h[q.children[i]]
    BY NodeFacts
  <2>2. q.type = "List" => g[q.children[1]] = h[q.children[1]]
    BY <2>1, NodeFacts
  <2>3. NewBuilderBody(g, q) = NewBuilderBody(h, q)
    <3>1. [i \in DOMAIN q.children |-> g[q.children[i]]]
          = [i \in DOMAIN q.children |-> h[q.children[i]]]
      BY <2>1, Zenon
    <3>2. CASE q.type = "Struct"
      BY <3>1, <3>2 DEF NewBuilderBody
    <3>3. CASE q.type = "List"
      BY <2>2, <3>3 DEF NewBuilderBody
    <3>4. CASE q.type # "Struct" /\ q.type # "List"
      BY <3>4 DEF NewBuilderBody
    <3> QED
      BY <3>2, <3>3, <3>4
  <2> QED
    BY <2>3
<1>2. NewBuilderRec!Ranked
  BY NodeFacts DEF NewBuilderRec!Ranked
<1>3. \E f : f = [q \in Nodes |-> NewBuilderBody(f, q)]
  BY <1>1, <1>2, LeastNumber, NewBuilderRec!RecursiveFunction
<1>4. NewBuilder = [q \in Nodes |-> NewBuilderBody(NewBuilder, q)]
  BY <1>3, Zenon DEF NewBuilder, NewBuilderBody
<1> QED
  BY <1>4

PushNullOne(f, p, b) ==
    WithNull(p, b, IF p.type = "Struct"
                   THEN [i \in DOMAIN p.children |-> f[p.children[i]][b.children[i]]]
                   ELSE <<>>)

PushNullBody(f, p) == [b \in Columns[p] |-> PushNullOne(f, p, b)]

PushNullRec == INSTANCE Recursion WITH S <- Nodes, Rank <- Depth, Body <- PushNullBody

(* push_null: a struct passes a null on to its children.                   *)
LEMMA PushNullUnfold ==
    ASSUME NEW p \in Nodes, NEW b \in Columns[p]
    PROVE  PushNull[p][b] = PushNullOne(PushNull, p, b)
<1>1. PushNullRec!Local
  <2> SUFFICES ASSUME NEW q \in Nodes, NEW g, NEW h,
                      \A y \in Nodes : Depth(y) < Depth(q) => g[y] = h[y]
               PROVE  PushNullBody(g, q) = PushNullBody(h, q)
    BY DEF PushNullRec!Local
  <2>1. \A i \in DOMAIN q.children : g[q.children[i]] = h[q.children[i]]
    BY NodeFacts
  <2>2. q.type = "List" => g[q.children[1]] = h[q.children[1]]
    BY <2>1, NodeFacts
  <2>3. ASSUME NEW c \in Columns[q]
        PROVE  PushNullOne(g, q, c) = PushNullOne(h, q, c)
    <3>1. [i \in DOMAIN q.children |-> g[q.children[i]][c.children[i]]]
          = [i \in DOMAIN q.children |-> h[q.children[i]][c.children[i]]]
      BY <2>1, Zenon
    <3>2. CASE q.type = "Struct"
      BY <3>1, <3>2 DEF PushNullOne
    <3>3. CASE q.type = "List"
      BY <2>2, <3>3 DEF PushNullOne
    <3>4. CASE q.type # "Struct" /\ q.type # "List"
      BY <3>4 DEF PushNullOne
    <3> QED
      BY <3>2, <3>3, <3>4
  <2> QED
    BY <2>3, Zenon DEF PushNullBody
<1>2. PushNullRec!Ranked
  BY NodeFacts DEF PushNullRec!Ranked
<1>3. \E f : f = [q \in Nodes |-> PushNullBody(f, q)]
  BY <1>1, <1>2, LeastNumber, PushNullRec!RecursiveFunction
<1>4. PushNull = [q \in Nodes |-> PushNullBody(PushNull, q)]
  BY <1>3, Zenon DEF PushNull, PushNullBody, PushNullOne
<1>5. PushNull[p] = PushNullBody(PushNull, p)
  BY <1>4
<1> QED
  BY <1>5 DEF PushNullBody

PushOne(f, p, b, v) ==
    IF IsNull(v) THEN PushNull[p][b]
    ELSE CASE p.type = "Struct" ->
                [children |-> [i \in DOMAIN p.children |->
                                  f[p.children[i]][b.children[i]][FieldOf(v, p.children[i])]],
                 validity |-> Append(b.validity, TRUE)]
           [] p.type = "List" ->
                [child    |-> PushAll(f[p.children[1]], b.child, v.items),
                 offsets  |-> Append(b.offsets, NextOffset(b.offsets, Len(v.items))),
                 validity |-> Append(b.validity, TRUE)]
           [] OTHER -> [b EXCEPT !.values = Append(@, Some(LeafValue(v)))]

PushBody(f, p) == [b \in Columns[p] |-> [v \in Bson[p] |-> PushOne(f, p, b, v)]]

PushRec == INSTANCE Recursion WITH S <- Nodes, Rank <- Depth, Body <- PushBody

(* push_value: a struct passes on its fields, a list its items.            *)
LEMMA PushUnfold ==
    ASSUME NEW p \in Nodes, NEW b \in Columns[p], NEW v \in Bson[p]
    PROVE  Push[p][b][v] = PushOne(Push, p, b, v)
<1>1. PushRec!Local
  <2> SUFFICES ASSUME NEW q \in Nodes, NEW g, NEW h,
                      \A y \in Nodes : Depth(y) < Depth(q) => g[y] = h[y]
               PROVE  PushBody(g, q) = PushBody(h, q)
    BY DEF PushRec!Local
  <2>1. \A i \in DOMAIN q.children : g[q.children[i]] = h[q.children[i]]
    BY NodeFacts
  <2>2. q.type = "List" => g[q.children[1]] = h[q.children[1]]
    BY <2>1, NodeFacts
  <2>3. ASSUME NEW c \in Columns[q], NEW w \in Bson[q]
        PROVE  PushOne(g, q, c, w) = PushOne(h, q, c, w)
    <3>1. [i \in DOMAIN q.children |-> g[q.children[i]][c.children[i]][FieldOf(w, q.children[i])]]
          = [i \in DOMAIN q.children |-> h[q.children[i]][c.children[i]][FieldOf(w, q.children[i])]]
      BY <2>1, Zenon
    <3>2. CASE q.type = "Struct"
      BY <3>1, <3>2 DEF PushOne
    <3>3. CASE q.type = "List"
      BY <2>2, <3>3 DEF PushOne
    <3>4. CASE q.type # "Struct" /\ q.type # "List"
      BY <3>4 DEF PushOne
    <3> QED
      BY <3>2, <3>3, <3>4
  <2> QED
    BY <2>3, Zenon DEF PushBody
<1>2. PushRec!Ranked
  BY NodeFacts DEF PushRec!Ranked
<1>3. \E f : f = [q \in Nodes |-> PushBody(f, q)]
  BY <1>1, <1>2, LeastNumber, PushRec!RecursiveFunction
<1>4. Push = [q \in Nodes |-> PushBody(Push, q)]
  BY <1>3, Zenon DEF Push, PushBody, PushOne
<1>5. Push[p] = PushBody(Push, p)
  BY <1>4
<1> QED
  BY <1>5 DEF PushBody

RowOne(f, p, v) ==
    IF IsNull(v) THEN None
    ELSE CASE p.type = "Struct" ->
                Some([i \in DOMAIN p.children |-> f[p.children[i]][FieldOf(v, p.children[i])]])
           [] p.type = "List" -> Some([k \in DOMAIN v.items |-> f[p.children[1]][v.items[k]]])
           [] OTHER           -> Some(LeafValue(v))

RowBody(f, p) == [v \in Bson[p] |-> RowOne(f, p, v)]

RowRec == INSTANCE Recursion WITH S <- Nodes, Rank <- Depth, Body <- RowBody

(* The row of a document, from those of its fields or items.               *)
LEMMA RowUnfold ==
    ASSUME NEW p \in Nodes, NEW v \in Bson[p]
    PROVE  Row[p][v] = RowOne(Row, p, v)
<1>1. RowRec!Local
  <2> SUFFICES ASSUME NEW q \in Nodes, NEW g, NEW h,
                      \A y \in Nodes : Depth(y) < Depth(q) => g[y] = h[y]
               PROVE  RowBody(g, q) = RowBody(h, q)
    BY DEF RowRec!Local
  <2>1. \A i \in DOMAIN q.children : g[q.children[i]] = h[q.children[i]]
    BY NodeFacts
  <2>2. q.type = "List" => g[q.children[1]] = h[q.children[1]]
    BY <2>1, NodeFacts
  <2>3. ASSUME NEW w \in Bson[q]
        PROVE  RowOne(g, q, w) = RowOne(h, q, w)
    <3>1. [i \in DOMAIN q.children |-> g[q.children[i]][FieldOf(w, q.children[i])]]
          = [i \in DOMAIN q.children |-> h[q.children[i]][FieldOf(w, q.children[i])]]
      BY <2>1, Zenon
    <3>2. CASE q.type = "Struct"
      BY <3>1, <3>2 DEF RowOne
    <3>3. CASE q.type = "List"
      BY <2>2, <3>3 DEF RowOne
    <3>4. CASE q.type # "Struct" /\ q.type # "List"
      BY <3>4 DEF RowOne
    <3> QED
      BY <3>2, <3>3, <3>4
  <2> QED
    BY <2>3, Zenon DEF RowBody
<1>2. RowRec!Ranked
  BY NodeFacts DEF RowRec!Ranked
<1>3. \E f : f = [q \in Nodes |-> RowBody(f, q)]
  BY <1>1, <1>2, LeastNumber, RowRec!RecursiveFunction
<1>4. Row = [q \in Nodes |-> RowBody(Row, q)]
  BY <1>3, Zenon DEF Row, RowBody, RowOne
<1>5. Row[p] = RowBody(Row, p)
  BY <1>4
<1> QED
  BY <1>5 DEF RowBody

AtOne(f, p, col, row) ==
    IF ~Valid(p, col, row) THEN None
    ELSE CASE p.type = "Struct" ->
                Some([i \in DOMAIN p.children |-> f[p.children[i]][col.children[i]][row]])
           [] p.type = "List" ->
                Some([k \in 1 .. (col.offsets[row + 1] - col.offsets[row]) |->
                         f[p.children[1]][col.child][col.offsets[row] + k]])
           [] OTHER -> col.values[row]

AtBody(f, p) == [col \in Columns[p] |-> [row \in Nat |-> AtOne(f, p, col, row)]]

AtRec == INSTANCE Recursion WITH S <- Nodes, Rank <- Depth, Body <- AtBody

(* The row of a column, from those of the columns inside it.               *)
LEMMA AtUnfold ==
    ASSUME NEW p \in Nodes, NEW col \in Columns[p], NEW row \in Nat
    PROVE  At[p][col][row] = AtOne(At, p, col, row)
<1>1. AtRec!Local
  <2> SUFFICES ASSUME NEW q \in Nodes, NEW g, NEW h,
                      \A y \in Nodes : Depth(y) < Depth(q) => g[y] = h[y]
               PROVE  AtBody(g, q) = AtBody(h, q)
    BY DEF AtRec!Local
  <2>1. \A i \in DOMAIN q.children : g[q.children[i]] = h[q.children[i]]
    BY NodeFacts
  <2>2. q.type = "List" => g[q.children[1]] = h[q.children[1]]
    BY <2>1, NodeFacts
  <2>3. ASSUME NEW c \in Columns[q], NEW r \in Nat
        PROVE  AtOne(g, q, c, r) = AtOne(h, q, c, r)
    <3>1. [i \in DOMAIN q.children |-> g[q.children[i]][c.children[i]][r]]
          = [i \in DOMAIN q.children |-> h[q.children[i]][c.children[i]][r]]
      BY <2>1, Zenon
    <3>2. CASE q.type = "Struct"
      BY <3>1, <3>2 DEF AtOne
    <3>3. CASE q.type = "List"
      BY <2>2, <3>3 DEF AtOne
    <3>4. CASE q.type # "Struct" /\ q.type # "List"
      BY <3>4 DEF AtOne
    <3> QED
      BY <3>2, <3>3, <3>4
  <2> QED
    BY <2>3, Zenon DEF AtBody
<1>2. AtRec!Ranked
  BY NodeFacts DEF AtRec!Ranked
<1>3. \E f : f = [q \in Nodes |-> AtBody(f, q)]
  BY <1>1, <1>2, LeastNumber, AtRec!RecursiveFunction
<1>4. At = [q \in Nodes |-> AtBody(At, q)]
  BY <1>3, Zenon DEF At, AtBody, AtOne
<1>5. At[p] = AtBody(At, p)
  BY <1>4
<1> QED
  BY <1>5 DEF AtBody

NullsAllowedOne(f, p, col, row) ==
    IF ~Valid(p, col, row) THEN p.nullable
    ELSE CASE p.type = "Struct" ->
                \A i \in DOMAIN p.children : f[p.children[i]][col.children[i]][row]
           [] p.type = "List" ->
                \A k \in 1 .. (col.offsets[row + 1] - col.offsets[row]) :
                    f[p.children[1]][col.child][col.offsets[row] + k]
           [] OTHER -> TRUE

NullsAllowedBody(f, p) == [col \in Columns[p] |-> [row \in Nat |-> NullsAllowedOne(f, p, col, row)]]

NullsRec == INSTANCE Recursion WITH S <- Nodes, Rank <- Depth, Body <- NullsAllowedBody

(* Nulls of a row, from those of the rows inside it.                       *)
LEMMA NullsAllowedUnfold ==
    ASSUME NEW p \in Nodes, NEW col \in Columns[p], NEW row \in Nat
    PROVE  NullsAllowed[p][col][row] = NullsAllowedOne(NullsAllowed, p, col, row)
<1>1. NullsRec!Local
  <2> SUFFICES ASSUME NEW q \in Nodes, NEW g, NEW h,
                      \A y \in Nodes : Depth(y) < Depth(q) => g[y] = h[y]
               PROVE  NullsAllowedBody(g, q) = NullsAllowedBody(h, q)
    BY DEF NullsRec!Local
  <2>1. \A i \in DOMAIN q.children : g[q.children[i]] = h[q.children[i]]
    BY NodeFacts
  <2>2. q.type = "List" => g[q.children[1]] = h[q.children[1]]
    BY <2>1, NodeFacts
  <2>3. ASSUME NEW c \in Columns[q], NEW r \in Nat
        PROVE  NullsAllowedOne(g, q, c, r) = NullsAllowedOne(h, q, c, r)
    <3>1. CASE q.type = "Struct"
      BY <2>1, <3>1 DEF NullsAllowedOne
    <3>2. CASE q.type = "List"
      BY <2>2, <3>2 DEF NullsAllowedOne
    <3>3. CASE q.type # "Struct" /\ q.type # "List"
      BY <3>3 DEF NullsAllowedOne
    <3> QED
      BY <3>1, <3>2, <3>3
  <2> QED
    BY <2>3, Zenon DEF NullsAllowedBody
<1>2. NullsRec!Ranked
  BY NodeFacts DEF NullsRec!Ranked
<1>3. \E f : f = [q \in Nodes |-> NullsAllowedBody(f, q)]
  BY <1>1, <1>2, LeastNumber, NullsRec!RecursiveFunction
<1>4. NullsAllowed = [q \in Nodes |-> NullsAllowedBody(NullsAllowed, q)]
  BY <1>3, Zenon DEF NullsAllowed, NullsAllowedBody, NullsAllowedOne
<1>5. NullsAllowed[p] = NullsAllowedBody(NullsAllowed, p)
  BY <1>4
<1> QED
  BY <1>5 DEF NullsAllowedBody

WellFormedOne(f, p, col, n) ==
    CASE p.type = "Struct" ->
            /\ Len(col.validity) = n
            /\ \A i \in DOMAIN p.children : f[p.children[i]][col.children[i]][n]
      [] p.type = "List" ->
            /\ Len(col.validity) = n
            /\ Len(col.offsets) = n + 1
            /\ \A r \in 1 .. n + 1 : \A s \in r .. n + 1 : col.offsets[r] <= col.offsets[s]
            /\ f[p.children[1]][col.child][Last(col.offsets)]
      [] OTHER -> Len(col.values) = n

WellFormedBody(f, p) == [col \in Columns[p] |-> [n \in Nat |-> WellFormedOne(f, p, col, n)]]

WellFormedRec == INSTANCE Recursion WITH S <- Nodes, Rank <- Depth, Body <- WellFormedBody

(* The rows of a column, from those of the columns inside it.              *)
LEMMA WellFormedUnfold ==
    ASSUME NEW p \in Nodes, NEW col \in Columns[p], NEW n \in Nat
    PROVE  WellFormed[p][col][n] = WellFormedOne(WellFormed, p, col, n)
<1>1. WellFormedRec!Local
  <2> SUFFICES ASSUME NEW q \in Nodes, NEW g, NEW h,
                      \A y \in Nodes : Depth(y) < Depth(q) => g[y] = h[y]
               PROVE  WellFormedBody(g, q) = WellFormedBody(h, q)
    BY DEF WellFormedRec!Local
  <2>1. \A i \in DOMAIN q.children : g[q.children[i]] = h[q.children[i]]
    BY NodeFacts
  <2>2. q.type = "List" => g[q.children[1]] = h[q.children[1]]
    BY <2>1, NodeFacts
  <2>3. ASSUME NEW c \in Columns[q], NEW m \in Nat
        PROVE  WellFormedOne(g, q, c, m) = WellFormedOne(h, q, c, m)
    <3>1. CASE q.type = "Struct"
      BY <2>1, <3>1 DEF WellFormedOne
    <3>2. CASE q.type = "List"
      BY <2>2, <3>2 DEF WellFormedOne
    <3>3. CASE q.type # "Struct" /\ q.type # "List"
      BY <3>3 DEF WellFormedOne
    <3> QED
      BY <3>1, <3>2, <3>3
  <2> QED
    BY <2>3, Zenon DEF WellFormedBody
<1>2. WellFormedRec!Ranked
  BY NodeFacts DEF WellFormedRec!Ranked
<1>3. \E f : f = [q \in Nodes |-> WellFormedBody(f, q)]
  BY <1>1, <1>2, LeastNumber, WellFormedRec!RecursiveFunction
<1>4. WellFormed = [q \in Nodes |-> WellFormedBody(WellFormed, q)]
  BY <1>3, Zenon DEF WellFormed, WellFormedBody, WellFormedOne
<1>5. WellFormed[p] = WellFormedBody(WellFormed, p)
  BY <1>4
<1> QED
  BY <1>5 DEF WellFormedBody

FaultOne(f, p, v) ==
    CASE IsNull(v) -> NullFault(p, v)
      [] p.type = "Struct" /\ v.tag = "EmbeddedDocument" ->
            FirstOf([i \in DOMAIN p.children |-> f[p.children[i]][FieldOf(v, p.children[i])]])
      [] p.type = "List" /\ v.tag = "Array" ->
            FirstOf([k \in DOMAIN v.items |-> f[p.children[1]][v.items[k]]])
      [] OTHER ->
            IF p.type \in DOMAIN Leaves /\ v.tag \in Leaves[p.type] THEN None ELSE Some(Located(p, v))

FaultBody(f, p) == [v \in Bson[p] |-> FaultOne(f, p, v)]

FaultRec == INSTANCE Recursion WITH S <- Nodes, Rank <- Depth, Body <- FaultBody

(* The error of push_value, from those inside the value.                   *)
LEMMA FaultUnfold ==
    ASSUME NEW p \in Nodes, NEW v \in Bson[p]
    PROVE  Fault[p][v] = FaultOne(Fault, p, v)
<1>1. FaultRec!Local
  <2> SUFFICES ASSUME NEW q \in Nodes, NEW g, NEW h,
                      \A y \in Nodes : Depth(y) < Depth(q) => g[y] = h[y]
               PROVE  FaultBody(g, q) = FaultBody(h, q)
    BY DEF FaultRec!Local
  <2>1. \A i \in DOMAIN q.children : g[q.children[i]] = h[q.children[i]]
    BY NodeFacts
  <2>2. q.type = "List" => g[q.children[1]] = h[q.children[1]]
    BY <2>1, NodeFacts
  <2>3. ASSUME NEW w \in Bson[q]
        PROVE  FaultOne(g, q, w) = FaultOne(h, q, w)
    <3>1. [i \in DOMAIN q.children |-> g[q.children[i]][FieldOf(w, q.children[i])]]
          = [i \in DOMAIN q.children |-> h[q.children[i]][FieldOf(w, q.children[i])]]
      BY <2>1, Zenon
    <3>2. CASE q.type = "Struct"
      BY <3>1, <3>2 DEF FaultOne
    <3>3. CASE q.type = "List"
      BY <2>2, <3>3 DEF FaultOne
    <3>4. CASE q.type # "Struct" /\ q.type # "List"
      BY <3>4 DEF FaultOne
    <3> QED
      BY <3>2, <3>3, <3>4
  <2> QED
    BY <2>3, Zenon DEF FaultBody
<1>2. FaultRec!Ranked
  BY NodeFacts DEF FaultRec!Ranked
<1>3. \E f : f = [q \in Nodes |-> FaultBody(f, q)]
  BY <1>1, <1>2, LeastNumber, FaultRec!RecursiveFunction
<1>4. Fault = [q \in Nodes |-> FaultBody(Fault, q)]
  BY <1>3 DEF Fault, FaultBody, FaultOne
<1>5. Fault[p] = FaultBody(Fault, p)
  BY <1>4
<1> QED
  BY <1>5 DEF FaultBody

----------------------------------------------------------------------------
(* Growing columns.                                                        *)

(* c is a column of m rows, the first n of which are those of b.           *)
Grown(p, b, c, n, m) ==
    /\ c \in Columns[p]
    /\ WellFormed[p][c][m]
    /\ \A r \in 1 .. n : /\ At[p][c][r] = At[p][b][r]
                         /\ NullsAllowed[p][c][r] <=> NullsAllowed[p][b][r]

(* The heights of a struct, of a list and of a leaf.                       *)
LEMMA StructWellFormed ==
    ASSUME NEW p \in Nodes, p.type = "Struct", NEW col \in Columns[p], NEW n \in Nat
    PROVE  WellFormed[p][col][n] <=>
              /\ Len(col.validity) = n
              /\ \A i \in DOMAIN p.children : WellFormed[p.children[i]][col.children[i]][n]
<1>1. WellFormed[p][col][n] = WellFormedOne(WellFormed, p, col, n)
  BY WellFormedUnfold
<1> QED
  BY <1>1 DEF WellFormedOne

(* The height of a list.                                                   *)
LEMMA ListWellFormed ==
    ASSUME NEW p \in Nodes, p.type = "List", NEW col \in Columns[p], NEW n \in Nat
    PROVE  WellFormed[p][col][n] <=>
              /\ Len(col.validity) = n
              /\ Len(col.offsets) = n + 1
              /\ \A r \in 1 .. n + 1 : \A s \in r .. n + 1 : col.offsets[r] <= col.offsets[s]
              /\ WellFormed[p.children[1]][col.child][Last(col.offsets)]
<1>1. WellFormed[p][col][n] = WellFormedOne(WellFormed, p, col, n)
  BY WellFormedUnfold
<1> QED
  BY <1>1 DEF WellFormedOne

(* The height of a leaf.                                                   *)
LEMMA LeafWellFormed ==
    ASSUME NEW p \in Nodes, p.type # "Struct", p.type # "List", NEW col \in Columns[p], NEW n \in Nat
    PROVE  WellFormed[p][col][n] <=> Len(col.values) = n
<1>1. WellFormed[p][col][n] = WellFormedOne(WellFormed, p, col, n)
  BY WellFormedUnfold
<1> QED
  BY <1>1 DEF WellFormedOne

(* A struct grows when its children do.                                    *)
LEMMA StructGrown ==
    ASSUME NEW p \in Nodes, p.type = "Struct", NEW b \in Columns[p], NEW n \in Nat, WellFormed[p][b][n],
           NEW ok \in BOOLEAN, NEW cs, cs = [i \in DOMAIN p.children |-> cs[i]],
           \A i \in DOMAIN p.children : Grown(p.children[i], b.children[i], cs[i], n, n + 1)
    PROVE  LET c == [children |-> cs, validity |-> Append(b.validity, ok)] IN
           Grown(p, b, c, n, n + 1) /\ c.validity[n + 1] = ok
<1> DEFINE c == [children |-> cs, validity |-> Append(b.validity, ok)]
<1>1. /\ b.validity \in Seq(BOOLEAN) /\ Len(b.validity) = n
      /\ \A i \in DOMAIN p.children : b.children[i] \in Columns[p.children[i]]
  BY StructColumns, StructWellFormed
<1>2. /\ Append(b.validity, ok) \in Seq(BOOLEAN) /\ Len(Append(b.validity, ok)) = n + 1
      /\ Append(b.validity, ok)[n + 1] = ok
      /\ \A r \in 1 .. n : Append(b.validity, ok)[r] = b.validity[r]
  BY <1>1
<1>3. \A i \in DOMAIN p.children : /\ cs[i] \in Columns[p.children[i]]
                                   /\ WellFormed[p.children[i]][cs[i]][n + 1]
  BY DEF Grown
<1>4. c \in Columns[p]
  BY <1>2, <1>3, StructColumns
<1>5. c.children = cs /\ c.validity = Append(b.validity, ok)
  OBVIOUS
<1> HIDE DEF c
<1>6. WellFormed[p][c][n + 1]
  <2>1. n + 1 \in Nat /\ Len(c.validity) = n + 1
    BY <1>2, <1>5
  <2>2. \A i \in DOMAIN p.children : WellFormed[p.children[i]][c.children[i]][n + 1]
    BY <1>3, <1>5
  <2> QED
    BY <1>4, <2>1, <2>2, StructWellFormed
<1>7. ASSUME NEW r \in 1 .. n
      PROVE  /\ At[p][c][r] = At[p][b][r]
             /\ NullsAllowed[p][c][r] <=> NullsAllowed[p][b][r]
  <2>1. Valid(p, c, r) = b.validity[r] /\ Valid(p, b, r) = b.validity[r] /\ b.validity[r] \in BOOLEAN
    BY <1>1, <1>2, <1>5 DEF Valid
  <2>2. /\ At[p][c][r] = AtOne(At, p, c, r) /\ At[p][b][r] = AtOne(At, p, b, r)
        /\ NullsAllowed[p][c][r] = NullsAllowedOne(NullsAllowed, p, c, r)
        /\ NullsAllowed[p][b][r] = NullsAllowedOne(NullsAllowed, p, b, r)
    BY <1>4, AtUnfold, NullsAllowedUnfold
  <2>3. CASE ~b.validity[r]
    BY <2>1, <2>2, <2>3 DEF AtOne, NullsAllowedOne
  <2>4. CASE b.validity[r]
    <3>1. \A i \in DOMAIN p.children :
             /\ At[p.children[i]][c.children[i]][r] = At[p.children[i]][b.children[i]][r]
             /\ NullsAllowed[p.children[i]][c.children[i]][r] <=> NullsAllowed[p.children[i]][b.children[i]][r]
      BY <1>5, Zenon DEF Grown
    <3>2. [i \in DOMAIN p.children |-> At[p.children[i]][c.children[i]][r]]
          = [i \in DOMAIN p.children |-> At[p.children[i]][b.children[i]][r]]
      BY <3>1, Zenon
    <3>3. At[p][c][r] = At[p][b][r]
      BY <2>1, <2>2, <2>4, <3>2, Zenon DEF AtOne
    <3>4. NullsAllowed[p][c][r] <=> NullsAllowed[p][b][r]
      BY <2>1, <2>2, <2>4, <3>1, Zenon DEF NullsAllowedOne
    <3> QED
      BY <3>3, <3>4
  <2> QED
    BY <2>1, <2>3, <2>4
<1> QED
  BY <1>2, <1>4, <1>5, <1>6, <1>7 DEF Grown, c

(* A list with one more.                                                   *)
ListWith(b, d, m, ok) ==
    [child    |-> d, offsets |-> Append(b.offsets, m),
     validity |-> Append(b.validity, ok)]

(* A list grows by one when its items do by as many as it takes.           *)
LEMMA ListGrown ==
    ASSUME NEW p \in Nodes, p.type = "List", NEW b \in Columns[p], NEW n \in Nat, WellFormed[p][b][n],
           NEW ok \in BOOLEAN, NEW m \in Nat, Last(b.offsets) <= m, NEW d,
           Grown(p.children[1], b.child, d, Last(b.offsets), m)
    PROVE  Grown(p, b, ListWith(b, d, m, ok), n, n + 1)
<1> DEFINE c == ListWith(b, d, m, ok)
           q == p.children[1]
<1>1. /\ b.validity \in Seq(BOOLEAN) /\ Len(b.validity) = n
      /\ b.offsets \in Seq(Nat) /\ Len(b.offsets) = n + 1
      /\ \A r \in 1 .. n + 1 : \A s \in r .. n + 1 : b.offsets[r] <= b.offsets[s]
      /\ b.child \in Columns[q] /\ q \in Nodes
  <2>1. q \in Nodes /\ b \in [child : Columns[q], offsets : Seq(Nat), validity : Seq(BOOLEAN)]
    BY ListColumns
  <2>2. /\ Len(b.validity) = n
        /\ Len(b.offsets) = n + 1
        /\ \A r \in 1 .. n + 1 : \A s \in r .. n + 1 : b.offsets[r] <= b.offsets[s]
    BY ListWellFormed
  <2> HIDE DEF q
  <2> QED
    BY <2>1, <2>2
<1>2. /\ Append(b.validity, ok) \in Seq(BOOLEAN) /\ Len(Append(b.validity, ok)) = n + 1
      /\ Append(b.validity, ok)[n + 1] = ok
      /\ \A r \in 1 .. n : Append(b.validity, ok)[r] = b.validity[r]
  BY <1>1
<1>3. Last(b.offsets) = b.offsets[n + 1] /\ Last(b.offsets) \in Nat
  BY <1>1 DEF Last
<1> DEFINE os == Append(b.offsets, m)
<1>4. /\ os \in Seq(Nat) /\ Len(os) = n + 2
      /\ os[n + 2] = m /\ Last(os) = m
      /\ \A r \in 1 .. n + 1 : os[r] = b.offsets[r]
  BY <1>1, <1>3 DEF Last
<1>5. c.child = d /\ c.offsets = os /\ c.validity = Append(b.validity, ok)
  BY DEF ListWith
<1> HIDE DEF os, q
<1>6. c \in Columns[p]
  <2>1. d \in Columns[q]
    BY DEF Grown, q
  <2>2. c \in [child : Columns[q], offsets : Seq(Nat), validity : Seq(BOOLEAN)]
    BY <1>2, <1>4, <2>1 DEF os, ListWith
  <2> QED
    BY <2>2, ListColumns DEF q
<1> HIDE DEF c
<1>7. WellFormed[p][c][n + 1]
  <2>1. ASSUME NEW r \in 1 .. n + 2, NEW s \in r .. n + 2 PROVE os[r] <= os[s]
    <3>1. CASE s # n + 2
      <4>1. r \in 1 .. n + 1 /\ s \in 1 .. n + 1 /\ s \in r .. n + 1
        BY <3>1
      <4> QED
        BY <1>1, <1>4, <4>1
    <3>2. CASE s = n + 2 /\ r = n + 2
      BY <1>3, <1>4, <3>2
    <3>3. CASE s = n + 2 /\ r # n + 2
      <4>1. r \in 1 .. n + 1 /\ n + 1 \in r .. n + 1
        BY <3>3
      <4>2. b.offsets[r] <= b.offsets[n + 1] /\ b.offsets[r] \in Nat
        BY <1>1, <4>1
      <4> QED
        BY <1>3, <1>4, <3>3, <4>1, <4>2
    <3> QED
      BY <3>1, <3>2, <3>3
  <2>2. WellFormed[p.children[1]][c.child][Last(c.offsets)]
    BY <1>4, <1>5 DEF Grown
  <2>3. (n + 1) + 1 = n + 2 /\ n + 1 \in Nat
    OBVIOUS
  <2>4. /\ Len(c.validity) = n + 1
        /\ Len(c.offsets) = (n + 1) + 1
        /\ \A r \in 1 .. (n + 1) + 1 : \A s \in r .. (n + 1) + 1 : c.offsets[r] <= c.offsets[s]
    BY <1>2, <1>4, <1>5, <2>1, <2>3
  <2> QED
    BY <1>6, <2>2, <2>3, <2>4, ListWellFormed
<1>8. ASSUME NEW r \in 1 .. n
      PROVE  /\ At[p][c][r] = At[p][b][r]
             /\ NullsAllowed[p][c][r] <=> NullsAllowed[p][b][r]
  <2>1. Valid(p, c, r) = b.validity[r] /\ Valid(p, b, r) = b.validity[r] /\ b.validity[r] \in BOOLEAN
    BY <1>1, <1>2, <1>5 DEF Valid
  <2>2. /\ At[p][c][r] = AtOne(At, p, c, r) /\ At[p][b][r] = AtOne(At, p, b, r)
        /\ NullsAllowed[p][c][r] = NullsAllowedOne(NullsAllowed, p, c, r)
        /\ NullsAllowed[p][b][r] = NullsAllowedOne(NullsAllowed, p, b, r)
    BY <1>6, AtUnfold, NullsAllowedUnfold
  <2>3. CASE ~b.validity[r]
    BY <2>1, <2>2, <2>3 DEF AtOne, NullsAllowedOne
  <2>4. CASE b.validity[r]
    <3> DEFINE items == 1 .. (b.offsets[r + 1] - b.offsets[r])
    <3>1. /\ r \in 1 .. n + 1 /\ r + 1 \in 1 .. n + 1 /\ n + 1 \in r + 1 .. n + 1
          /\ r + 1 \in r .. n + 1
      OBVIOUS
    <3>2. /\ b.offsets[r] \in Nat /\ b.offsets[r + 1] \in Nat
          /\ b.offsets[r] <= b.offsets[r + 1] /\ b.offsets[r + 1] <= Last(b.offsets)
      <4> DEFINE offsets == b.offsets
      <4>0. offsets \in Seq(Nat) /\ Len(offsets) = n + 1 /\ n \in Nat
        BY <1>1
      <4> HIDE DEF offsets
      <4>4. offsets[r] \in Nat /\ offsets[r + 1] \in Nat
        BY <4>0, <3>1
      <4>1. b.offsets[r] \in Nat /\ b.offsets[r + 1] \in Nat
        BY <4>4 DEF offsets
      <4>2. b.offsets[r] <= b.offsets[r + 1]
        BY <1>1, <3>1
      <4>3. b.offsets[r + 1] <= b.offsets[n + 1]
        BY <1>1, <3>1
      <4> QED
        BY <1>3, <4>1, <4>2, <4>3
    <3>3. c.offsets[r] = b.offsets[r] /\ c.offsets[r + 1] = b.offsets[r + 1]
      BY <1>4, <1>5, <3>1
    <3>4. \A j \in items : b.offsets[r] + j \in 1 .. Last(b.offsets)
      BY <1>3, <3>2
    <3>5. \A j \in items :
             /\ At[q][c.child][c.offsets[r] + j] = At[q][b.child][b.offsets[r] + j]
             /\ NullsAllowed[q][c.child][c.offsets[r] + j] <=> NullsAllowed[q][b.child][b.offsets[r] + j]
      BY <1>5, <3>3, <3>4 DEF Grown, q
    <3>6. 1 .. (c.offsets[r + 1] - c.offsets[r]) = items
      BY <3>3
    <3> HIDE DEF items
    <3>7. [j \in items |-> At[q][c.child][c.offsets[r] + j]] = [j \in items |-> At[q][b.child][b.offsets[r] + j]]
      BY <3>5, Zenon
    <3>8. /\ At[p][c][r] = Some([j \in items |-> At[q][c.child][c.offsets[r] + j]])
          /\ At[p][b][r] = Some([j \in items |-> At[q][b.child][b.offsets[r] + j]])
      BY <2>1, <2>2, <2>4, <3>6, Zenon DEF AtOne, q, items
    <3>9. /\ NullsAllowed[p][c][r] <=> \A j \in items : NullsAllowed[q][c.child][c.offsets[r] + j]
          /\ NullsAllowed[p][b][r] <=> \A j \in items : NullsAllowed[q][b.child][b.offsets[r] + j]
      BY <2>1, <2>2, <2>4, <3>6, Zenon DEF NullsAllowedOne, q, items
    <3> QED
      BY <3>5, <3>7, <3>8, <3>9
  <2> QED
    BY <2>1, <2>3, <2>4
<1> QED
  BY <1>6, <1>7, <1>8 DEF Grown, c

(* A leaf grows by a slot.                                                 *)
LEMMA LeafGrown ==
    ASSUME NEW p \in Nodes, p.type # "Struct", p.type # "List", NEW b \in Columns[p], NEW n \in Nat,
           WellFormed[p][b][n], NEW slot \in Slots
    PROVE  LET c == [b EXCEPT !.values = Append(@, slot)] IN
           /\ Grown(p, b, c, n, n + 1)
           /\ At[p][c][n + 1] = slot
           /\ NullsAllowed[p][c][n + 1] <=> slot # None \/ p.nullable
<1> DEFINE c == [b EXCEPT !.values = Append(@, slot)]
<1>1. b.values \in Seq(Slots) /\ Len(b.values) = n /\ b = [values |-> b.values]
  <2>1. b \in [values : Seq(Slots)]
    BY LeafColumns
  <2>2. Len(b.values) = n
    BY LeafWellFormed
  <2> QED
    BY <2>1, <2>2
<1>2. c \in Columns[p] /\ c.values = Append(b.values, slot)
  <2>1. c = [values |-> Append(b.values, slot)]
    BY <1>1
  <2>2. Append(b.values, slot) \in Seq(Slots)
    BY <1>1
  <2> HIDE DEF c
  <2>3. c \in [values : Seq(Slots)]
    BY <2>1, <2>2
  <2> QED
    BY <2>1, <2>3, LeafColumns
<1>3. /\ Len(c.values) = n + 1 /\ c.values[n + 1] = slot
      /\ \A r \in 1 .. n : c.values[r] = b.values[r]
  BY <1>1, <1>2
<1> HIDE DEF c
<1>4. WellFormed[p][c][n + 1]
  BY <1>2, <1>3, LeafWellFormed
<1>5. ASSUME NEW d \in Columns[p], NEW r \in Nat
      PROVE  /\ At[p][d][r] = d.values[r]
             /\ NullsAllowed[p][d][r] <=> d.values[r] # None \/ p.nullable
  <2>1. /\ At[p][d][r] = AtOne(At, p, d, r)
        /\ NullsAllowed[p][d][r] = NullsAllowedOne(NullsAllowed, p, d, r)
    BY AtUnfold, NullsAllowedUnfold
  <2>2. Valid(p, d, r) <=> d.values[r] # None
    BY DEF Valid
  <2>3. p.nullable \in BOOLEAN
    BY NodeFacts
  <2> QED
    BY <2>1, <2>2, <2>3, Zenon DEF AtOne, NullsAllowedOne
<1>6. /\ Grown(p, b, c, n, n + 1)
      /\ At[p][c][n + 1] = slot
      /\ NullsAllowed[p][c][n + 1] <=> slot # None \/ p.nullable
  <2>1. \A r \in 1 .. n : r \in Nat
    OBVIOUS
  <2>2. \A r \in 1 .. n : /\ At[p][c][r] = At[p][b][r]
                          /\ NullsAllowed[p][c][r] <=> NullsAllowed[p][b][r]
    BY <1>2, <1>3, <1>5, <2>1
  <2>3. n + 1 \in Nat
    OBVIOUS
  <2>4. Grown(p, b, c, n, n + 1)
    <3>1. c \in Columns[p]
      BY <1>2
    <3>2. WellFormed[p][c][n + 1]
      BY <1>4
    <3> QED
      BY <2>2, <3>1, <3>2 DEF Grown
  <2>5. At[p][c][n + 1] = c.values[n + 1]
    BY <1>2, <1>5, <2>3
  <2>6. NullsAllowed[p][c][n + 1] <=> c.values[n + 1] # None \/ p.nullable
    BY <1>2, <1>5, <2>3
  <2> QED
    BY <1>3, <2>4, <2>5, <2>6
<1> QED
  BY <1>6 DEF c

(* The first error is one of the results, and the first of those that are  *)
(* not None.                                                               *)
LEMMA FirstError ==
    ASSUME NEW results, NEW n \in Nat, DOMAIN results = 1 .. n
    PROVE  \/ FirstOf(results) = None /\ \A i \in 1 .. n : results[i] = None
           \/ \E i \in 1 .. n : /\ FirstOf(results) = results[i] /\ results[i] # None
                                /\ \A j \in 1 .. i - 1 : results[j] = None
<1> DEFINE errors == {i \in DOMAIN results : results[i] # None}
<1>1. CASE errors = {}
  BY <1>1 DEF FirstOf
<1>2. CASE errors # {}
  <2>1. errors \in SUBSET Nat
    OBVIOUS
  <2> HIDE DEF errors
  <2>2. \E i \in errors : \A j \in errors : i <= j
    BY <1>2, <2>1, LeastNumber
  <2>3. Min(errors) \in errors /\ \A j \in errors : Min(errors) <= j
    BY <2>2 DEF Min
  <2> USE DEF errors
  <2>4. FirstOf(results) = results[Min(errors)]
    BY <1>2 DEF FirstOf
  <2> HIDE DEF errors
  <2>5. PICK i \in errors : i = Min(errors)
    BY <2>3
  <2>6. i \in 1 .. n /\ results[i] # None /\ FirstOf(results) = results[i]
    BY <2>4, <2>5 DEF errors
  <2>7. ASSUME NEW j \in 1 .. i - 1 PROVE results[j] = None
    <3>1. j \in 1 .. n /\ ~(i <= j)
      BY <2>6
    <3>2. j \notin errors
      BY <2>3, <2>5, <3>1
    <3> QED
      BY <3>1, <3>2 DEF errors
  <2> QED
    BY <2>6, <2>7
<1> QED
  BY <1>1, <1>2

(* A column has grown by nothing from itself.                              *)
LEMMA Itself ==
    ASSUME NEW p \in Nodes, NEW b \in Columns[p], NEW n \in Nat, WellFormed[p][b][n]
    PROVE  Grown(p, b, b, n, n)
  BY DEF Grown

(* What has grown twice has grown.                                         *)
LEMMA OneAfterTheOther ==
    ASSUME NEW p \in Nodes, NEW b, NEW c, NEW d, NEW k \in Nat, NEW m \in Nat, NEW n \in Nat, k <= m,
           Grown(p, b, c, k, m), Grown(p, c, d, m, n)
    PROVE  Grown(p, b, d, k, n)
<1>1. \A r \in 1 .. k : r \in 1 .. m
  OBVIOUS
<1> QED
  BY <1>1 DEF Grown

(* A null is a row of its own, at every level where there is one.          *)
NullRow(p) ==
    \A b \in Columns[p], n \in Nat :
        WellFormed[p][b][n] =>
            /\ Grown(p, b, PushNull[p][b], n, n + 1)
            /\ At[p][PushNull[p][b]][n + 1] = None
            /\ NullsAllowed[p][PushNull[p][b]][n + 1] <=> p.nullable

(* push_null adds a null row, at every node.                               *)
LEMMA NullPushed == \A p \in Nodes : NullRow(p)
<1> DEFINE Good == {p \in Nodes : NullRow(p)}
<1>1. ASSUME NEW p \in Nodes, \A q \in Nodes : Depth(q) < Depth(p) => q \in Good PROVE p \in Good
  <2> SUFFICES ASSUME NEW b \in Columns[p], NEW n \in Nat, WellFormed[p][b][n]
               PROVE  /\ Grown(p, b, PushNull[p][b], n, n + 1)
                      /\ At[p][PushNull[p][b]][n + 1] = None
                      /\ NullsAllowed[p][PushNull[p][b]][n + 1] <=> p.nullable
    BY DEF NullRow
  <2> DEFINE c == PushNull[p][b]
  <2>1. c = PushNullOne(PushNull, p, b)
    BY PushNullUnfold
  <2>2. ASSUME c \in Columns[p], Valid(p, c, n + 1) = FALSE
        PROVE  At[p][c][n + 1] = None /\ (NullsAllowed[p][c][n + 1] <=> p.nullable)
    <3>1. /\ At[p][c][n + 1] = AtOne(At, p, c, n + 1)
          /\ NullsAllowed[p][c][n + 1] = NullsAllowedOne(NullsAllowed, p, c, n + 1)
      BY <2>2, AtUnfold, NullsAllowedUnfold
    <3> HIDE DEF c
    <3>2. p.nullable \in BOOLEAN
      BY NodeFacts
    <3> QED
      BY <2>2, <3>1, <3>2 DEF AtOne, NullsAllowedOne
  <2>3. CASE p.type = "Struct"
    <3> DEFINE cs == [i \in DOMAIN p.children |-> PushNull[p.children[i]][b.children[i]]]
    <3>1. c = [children |-> cs, validity |-> Append(b.validity, FALSE)]
      BY <2>1, <2>3 DEF PushNullOne, WithNull
    <3>2. ASSUME NEW i \in DOMAIN p.children
          PROVE  Grown(p.children[i], b.children[i], cs[i], n, n + 1)
      <4>1. b.children[i] \in Columns[p.children[i]] /\ WellFormed[p.children[i]][b.children[i]][n]
        BY <2>3, StructColumns, StructWellFormed
      <4>2. NullRow(p.children[i])
        BY <1>1, NodeFacts
      <4> QED
        BY <4>1, <4>2 DEF NullRow
    <3>3. cs = [i \in DOMAIN p.children |-> cs[i]]
      OBVIOUS
    <3> HIDE DEF c, cs
    <3>4. Grown(p, b, c, n, n + 1) /\ c.validity[n + 1] = FALSE
      BY <2>3, <3>1, <3>2, <3>3, StructGrown
    <3>5. c \in Columns[p] /\ Valid(p, c, n + 1) = FALSE
      BY <2>3, <3>4 DEF Grown, Valid
    <3>6. At[p][c][n + 1] = None /\ (NullsAllowed[p][c][n + 1] <=> p.nullable)
      BY <2>2, <3>5
    <3> QED
      BY <3>4, <3>6 DEF c
  <2>4. CASE p.type = "List"
    <3>1. /\ b \in [child : Columns[p.children[1]], offsets : Seq(Nat), validity : Seq(BOOLEAN)]
          /\ p.children[1] \in Nodes
      BY <2>4, ListColumns
    <3>2. Len(b.offsets) = n + 1 /\ WellFormed[p.children[1]][b.child][Last(b.offsets)]
      BY <2>4, ListWellFormed
    <3>3. Last(b.offsets) \in Nat
      BY <3>1, <3>2 DEF Last
    <3>4. c = ListWith(b, b.child, Last(b.offsets), FALSE)
      <4>1. c = [b EXCEPT !.offsets = Append(@, Last(@)), !.validity = Append(@, FALSE)]
        BY <2>1, <2>4 DEF PushNullOne, WithNull
      <4> HIDE DEF c
      <4> QED
        BY <3>1, <4>1 DEF ListWith
    <3>5. Grown(p.children[1], b.child, b.child, Last(b.offsets), Last(b.offsets))
      BY <3>1, <3>2, <3>3, Itself
    <3> HIDE DEF c
    <3>6. Grown(p, b, c, n, n + 1) /\ c.validity[n + 1] = FALSE
      <4>1. FALSE \in BOOLEAN /\ Last(b.offsets) <= Last(b.offsets)
        BY <3>3
      <4>2. Grown(p, b, ListWith(b, b.child, Last(b.offsets), FALSE), n, n + 1)
        BY <2>4, <3>3, <3>5, <4>1, ListGrown
      <4>3. ListWith(b, b.child, Last(b.offsets), FALSE).validity[n + 1] = FALSE
        <5>1. b.validity \in Seq(BOOLEAN) /\ Len(b.validity) = n
          BY <2>4, <3>1, ListWellFormed
        <5> QED
          BY <5>1 DEF ListWith
      <4> QED
        BY <3>4, <4>2, <4>3
    <3>7. c \in Columns[p] /\ Valid(p, c, n + 1) = FALSE
      BY <2>4, <3>6 DEF Grown, Valid
    <3>8. At[p][c][n + 1] = None /\ (NullsAllowed[p][c][n + 1] <=> p.nullable)
      BY <2>2, <3>7
    <3> QED
      BY <3>6, <3>8 DEF c
  <2>5. CASE p.type # "Struct" /\ p.type # "List"
    <3>1. c = [b EXCEPT !.values = Append(@, None)]
      BY <2>1, <2>5 DEF PushNullOne, WithNull
    <3>2. None \in Slots
      BY DEF None, Slots
    <3> DEFINE d == [b EXCEPT !.values = Append(@, None)]
    <3>3. /\ Grown(p, b, d, n, n + 1)
          /\ At[p][d][n + 1] = None
          /\ NullsAllowed[p][d][n + 1] <=> None # None \/ p.nullable
      BY <2>5, <3>2, LeafGrown
    <3> HIDE DEF c, d
    <3>4. c = d
      BY <3>1 DEF d
    <3> QED
      BY <3>3, <3>4 DEF c
  <2> QED
    BY <2>3, <2>4, <2>5
<1>2. \A p \in Nodes : p \in Good
  <2> HIDE DEF Good
  <2> QED
    BY <1>1, ByDepth
<1> QED
  BY <1>2

----------------------------------------------------------------------------
(* Pushing values.                                                         *)

(* A value is the row it says, and has nulls where they are allowed.       *)
ValueRow(p) ==
    \A b \in Columns[p], n \in Nat, v \in Bson[p] :
        WellFormed[p][b][n] /\ Fault[p][v] = None =>
            /\ Grown(p, b, Push[p][b][v], n, n + 1)
            /\ At[p][Push[p][b][v]][n + 1] = Row[p][v]
            /\ NullsAllowed[p][Push[p][b][v]][n + 1]

(* Pushing one value, as ValueRow says it.                                *)
LEMMA OnePushed ==
    ASSUME NEW q \in Nodes, ValueRow(q), NEW b \in Columns[q], NEW n \in Nat, WellFormed[q][b][n],
           NEW v \in Bson[q], Fault[q][v] = None
    PROVE  /\ Grown(q, b, Push[q][b][v], n, n + 1)
           /\ At[q][Push[q][b][v]][n + 1] = Row[q][v]
           /\ NullsAllowed[q][Push[q][b][v]][n + 1]
  BY DEF ValueRow

(* What a list's items are pushed one after the other.                     *)
LEMMA AllPushed ==
    ASSUME NEW q \in Nodes, ValueRow(q), NEW b \in Columns[q], NEW n \in Nat, WellFormed[q][b][n],
           NEW items \in Seq(Bson[q]), \A k \in DOMAIN items : Fault[q][items[k]] = None
    PROVE  LET c == PushAll(Push[q], b, items) IN
           /\ Grown(q, b, c, n, n + Len(items))
           /\ \A k \in 1 .. Len(items) : /\ At[q][c][n + k] = Row[q][items[k]]
                                         /\ NullsAllowed[q][c][n + k]
<1> DEFINE L       == Len(items)
           Steps(h) == /\ h[0] = b
                       /\ \A k \in 1 .. L : h[k - 1] \in Columns[q] => h[k] = Push[q][h[k - 1]][items[k]]
           Is(f)   == f = [k \in 0 .. L |-> IF k = 0 THEN b ELSE Push[q][f[k - 1]][items[k]]]
           Right(c, k) == /\ Grown(q, b, c, n, n + k)
                          /\ \A j \in 1 .. k : /\ At[q][c][n + j] = Row[q][items[j]]
                                               /\ NullsAllowed[q][c][n + j]
<1>1. L \in Nat /\ DOMAIN items = 1 .. L /\ \A k \in 1 .. L : items[k] \in Bson[q]
  OBVIOUS
<1> HIDE DEF L
<1>2. ASSUME NEW h, Steps(h)
      PROVE  \A k \in 0 .. L : Right(h[k], k)
  <2> DEFINE Good == {k \in 0 .. L : Right(h[k], k)}
  <2>1. 0 \in Good
    <3>1. Grown(q, b, h[0], n, n + 0)
      BY <1>2, Itself
    <3> QED
      BY <1>1, <3>1
  <2>2. ASSUME NEW k \in 1 .. L, k - 1 \in Good PROVE k \in Good
    <3> DEFINE c == h[k - 1]
               m == n + (k - 1)
               d == Push[q][c][items[k]]
    <3>1. Right(c, k - 1) /\ m \in Nat /\ m + 1 = n + k
      BY <2>2
    <3>2. c \in Columns[q] /\ WellFormed[q][c][m]
      BY <3>1 DEF Grown
    <3>3. h[k] = d
      BY <1>1, <1>2, <3>2
    <3>4. items[k] \in Bson[q] /\ Fault[q][items[k]] = None
      BY <1>1
    <3> HIDE DEF m, c
    <3>5. /\ Grown(q, c, d, m, m + 1)
          /\ At[q][d][m + 1] = Row[q][items[k]]
          /\ NullsAllowed[q][d][m + 1]
      <4>1. m \in Nat
        BY <3>1
      <4> QED
        BY <3>2, <3>4, <4>1, OnePushed
    <3> HIDE DEF d
    <3>6. Grown(q, b, d, n, n + k)
      <4>1. n <= m /\ n + k \in Nat /\ Grown(q, b, c, n, m)
        BY <3>1 DEF m
      <4>2. Grown(q, c, d, m, n + k)
        BY <3>1, <3>5
      <4> QED
        BY <3>1, <4>1, <4>2, OneAfterTheOther
    <3>7. ASSUME NEW j \in 1 .. k
          PROVE  At[q][d][n + j] = Row[q][items[j]] /\ NullsAllowed[q][d][n + j]
      <4>1. CASE j = k
        BY <3>1, <3>5, <4>1
      <4>2. CASE j # k
        <5>1. j \in 1 .. k - 1 /\ n + j \in 1 .. m
          BY <4>2 DEF m
        <5>2. At[q][c][n + j] = Row[q][items[j]] /\ NullsAllowed[q][c][n + j]
          BY <3>1, <5>1
        <5>3. At[q][d][n + j] = At[q][c][n + j] /\ (NullsAllowed[q][d][n + j] <=> NullsAllowed[q][c][n + j])
          BY <3>5, <5>1 DEF Grown
        <5> QED
          BY <5>2, <5>3
      <4> QED
        BY <4>1, <4>2
    <3>8. Right(d, k)
      BY <3>6, <3>7
    <3>9. k \in 0 .. L
      BY <1>1
    <3> HIDE DEF Right
    <3> QED
      BY <3>3, <3>8, <3>9
  <2> HIDE DEF Good
  <2>3. \A k \in 0 .. L : k \in Good
    BY <1>1, <2>1, <2>2, CountingUp
  <2> QED
    BY <2>3 DEF Good
<1>3. \E f : Is(f)
  <2> DEFINE S == [k \in 1 .. L |-> [c \in Columns[q] |-> Push[q][c][items[k]]]]
  <2>1. PICK h : Goes(h, L, b, S)
    <3> HIDE DEF S
    <3> QED
      BY <1>1, Successive
  <2> HIDE DEF S
  <2>2. h[0] = b
    BY <1>1, <2>1 DEF Goes
  <2>3. ASSUME NEW k \in 1 .. L PROVE h[k] = S[k][h[k - 1]]
    <3>1. k \in 0 .. L /\ k # 0
      BY <1>1
    <3> QED
      BY <2>1, <3>1 DEF Goes
  <2>4. ASSUME NEW k \in 1 .. L, h[k - 1] \in Columns[q] PROVE h[k] = Push[q][h[k - 1]][items[k]]
    BY <2>3, <2>4 DEF S
  <2>5. Steps(h)
    BY <2>2, <2>4
  <2>6. \A k \in 0 .. L : h[k] \in Columns[q]
    <3> HIDE DEF Steps
    <3>1. \A k \in 0 .. L : Right(h[k], k)
      BY <1>2, <2>5
    <3> QED
      BY <3>1 DEF Grown
  <2>7. \A k \in 0 .. L : h[k] = IF k = 0 THEN b ELSE Push[q][h[k - 1]][items[k]]
    <3>1. \A k \in 0 .. L : k = 0 \/ (k \in 1 .. L /\ k - 1 \in 0 .. L)
      BY <1>1
    <3> QED
      BY <2>2, <2>4, <2>6, <3>1
  <2>8. h = [k \in 0 .. L |-> h[k]]
    BY <2>1 DEF Goes
  <2>9. [k \in 0 .. L |-> h[k]] = [k \in 0 .. L |-> IF k = 0 THEN b ELSE Push[q][h[k - 1]][items[k]]]
    BY <2>7, Zenon
  <2> QED
    BY <2>8, <2>9
<1> DEFINE after == CHOOSE f : Is(f)
<1>4. Is(after)
  BY <1>3, Zenon
<1>5. PushAll(Push[q], b, items) = after[L]
  BY Zenon DEF PushAll, L
<1> HIDE DEF after
<1>6. Steps(after)
  <2>1. after[0] = b
    BY <1>1, <1>4
  <2>2. ASSUME NEW k \in 1 .. L PROVE after[k] = Push[q][after[k - 1]][items[k]]
    <3>1. k \in 0 .. L /\ k # 0
      BY <1>1
    <3> QED
      BY <1>4, <3>1
  <2> QED
    BY <2>1, <2>2
<1>7. Right(after[L], L)
  <2> HIDE DEF Steps
  <2> QED
    BY <1>1, <1>2, <1>6
<1> QED
  BY <1>5, <1>7 DEF L

(* What push_value makes of a null, of a document where a struct is        *)
(* declared, of an array where a list is, and of anything else.            *)
LEMMA FaultCases ==
    ASSUME NEW p \in Nodes, NEW v \in Bson[p]
    PROVE  /\ IsNull(v) => Fault[p][v] = NullFault(p, v)
           /\ p.type = "Struct" /\ v.tag = "EmbeddedDocument" =>
                 Fault[p][v] = FirstOf([i \in DOMAIN p.children |->
                                           Fault[p.children[i]][FieldOf(v, p.children[i])]])
           /\ p.type = "List" /\ v.tag = "Array" =>
                 Fault[p][v] = FirstOf([k \in DOMAIN v.items |-> Fault[p.children[1]][v.items[k]]])
           /\ /\ ~IsNull(v)
              /\ ~(p.type = "Struct" /\ v.tag = "EmbeddedDocument")
              /\ ~(p.type = "List" /\ v.tag = "Array")
              => Fault[p][v] = IF p.type \in DOMAIN Leaves /\ v.tag \in Leaves[p.type]
                               THEN None ELSE Some(Located(p, v))
<1>1. Fault[p][v] = FaultOne(Fault, p, v)
  BY FaultUnfold
<1>2. IsNull(v) <=> v.tag \in {"Missing", "Null", "Undefined"}
  BY DEF IsNull, NullTags
<1>3. CASE IsNull(v)
  BY <1>1, <1>2, <1>3 DEF FaultOne
<1>4. CASE ~IsNull(v)
  BY <1>1, <1>2, <1>4 DEF FaultOne
<1> QED
  BY <1>3, <1>4

(* Something is not nothing.                                               *)
LEMMA SomeIsNotNone == \A x : Some(x) # None
  BY DEF Some, None

(* What it accepts.                                                        *)
LEMMA Accepted ==
    ASSUME NEW p \in Nodes, NEW v \in Bson[p], Fault[p][v] = None
    PROVE  /\ IsNull(v) => p.nullable
           /\ ~IsNull(v) /\ p.type = "Struct" =>
                 /\ v.tag = "EmbeddedDocument"
                 /\ \A i \in DOMAIN p.children : /\ FieldOf(v, p.children[i]) \in Bson[p.children[i]]
                                                 /\ Fault[p.children[i]][FieldOf(v, p.children[i])] = None
           /\ ~IsNull(v) /\ p.type = "List" =>
                 /\ v.tag = "Array"
                 /\ v.items \in Seq(Bson[p.children[1]])
                 /\ \A k \in DOMAIN v.items : Fault[p.children[1]][v.items[k]] = None
           /\ ~IsNull(v) /\ p.type # "Struct" /\ p.type # "List" =>
                 p.type \in DOMAIN Leaves /\ v.tag \in Leaves[p.type]
<1>1. ASSUME IsNull(v) PROVE p.nullable
  BY <1>1, FaultCases, SomeIsNotNone DEF NullFault
<1>2. ASSUME ~IsNull(v), p.type = "Struct"
      PROVE  /\ v.tag = "EmbeddedDocument"
             /\ \A i \in DOMAIN p.children : /\ FieldOf(v, p.children[i]) \in Bson[p.children[i]]
                                             /\ Fault[p.children[i]][FieldOf(v, p.children[i])] = None
  <2>1. v.tag = "EmbeddedDocument"
    BY <1>2, FaultCases, SomeIsNotNone, NodeFacts
  <2> DEFINE results == [i \in DOMAIN p.children |-> Fault[p.children[i]][FieldOf(v, p.children[i])]]
  <2>2. FirstOf(results) = None
    BY <1>2, <2>1, FaultCases
  <2>3. Len(p.children) \in Nat /\ DOMAIN results = 1 .. Len(p.children)
    BY NodeFacts
  <2> HIDE DEF results
  <2>4. \A i \in 1 .. Len(p.children) : results[i] = None
    BY <2>2, <2>3, FirstError
  <2> QED
    BY <1>2, <2>1, <2>4, NodeFacts, BsonParts DEF results
<1>3. ASSUME ~IsNull(v), p.type = "List"
      PROVE  /\ v.tag = "Array"
             /\ v.items \in Seq(Bson[p.children[1]])
             /\ \A k \in DOMAIN v.items : Fault[p.children[1]][v.items[k]] = None
  <2>1. v.tag = "Array"
    BY <1>3, FaultCases, SomeIsNotNone, NodeFacts
  <2>2. v.items \in Seq(Bson[p.children[1]])
    BY <1>3, <2>1, BsonParts
  <2> DEFINE results == [k \in DOMAIN v.items |-> Fault[p.children[1]][v.items[k]]]
  <2>3. FirstOf(results) = None
    BY <1>3, <2>1, FaultCases
  <2>4. Len(v.items) \in Nat /\ DOMAIN v.items = 1 .. Len(v.items) /\ DOMAIN results = 1 .. Len(v.items)
    BY <2>2
  <2> HIDE DEF results
  <2>5. \A k \in 1 .. Len(v.items) : results[k] = None
    BY <2>3, <2>4, FirstError
  <2> QED
    BY <2>1, <2>2, <2>4, <2>5 DEF results
<1>4. ASSUME ~IsNull(v), p.type # "Struct", p.type # "List"
      PROVE  p.type \in DOMAIN Leaves /\ v.tag \in Leaves[p.type]
  BY <1>4, FaultCases, SomeIsNotNone
<1> QED
  BY <1>1, <1>2, <1>3, <1>4

(* push_value of a value that it accepts adds the row which the value      *)
(* says, at every node.                                                    *)
LEMMA ValuePushed == \A p \in Nodes : ValueRow(p)
<1> DEFINE Good == {p \in Nodes : ValueRow(p)}
<1>1. ASSUME NEW p \in Nodes, \A q \in Nodes : Depth(q) < Depth(p) => q \in Good PROVE p \in Good
  <2> SUFFICES ASSUME NEW b \in Columns[p], NEW n \in Nat, NEW v \in Bson[p],
                      WellFormed[p][b][n], Fault[p][v] = None
               PROVE  /\ Grown(p, b, Push[p][b][v], n, n + 1)
                      /\ At[p][Push[p][b][v]][n + 1] = Row[p][v]
                      /\ NullsAllowed[p][Push[p][b][v]][n + 1]
    BY DEF ValueRow
  <2> DEFINE c == Push[p][b][v]
  <2>1. c = PushOne(Push, p, b, v) /\ Row[p][v] = RowOne(Row, p, v)
    BY PushUnfold, RowUnfold
  <2>2. ASSUME c \in Columns[p]
        PROVE  /\ At[p][c][n + 1] = AtOne(At, p, c, n + 1)
               /\ NullsAllowed[p][c][n + 1] = NullsAllowedOne(NullsAllowed, p, c, n + 1)
    BY <2>2, AtUnfold, NullsAllowedUnfold
  <2>3. CASE IsNull(v)
    <3>1. c = PushNull[p][b] /\ Row[p][v] = None
      BY <2>1, <2>3 DEF PushOne, RowOne
    <3>2. p.nullable
      BY <2>3, Accepted
    <3> QED
      BY <3>1, <3>2, NullPushed DEF NullRow
  <2>4. CASE ~IsNull(v) /\ p.type = "Struct"
    <3> DEFINE cs == [i \in DOMAIN p.children |->
                         Push[p.children[i]][b.children[i]][FieldOf(v, p.children[i])]]
    <3>1. c = [children |-> cs, validity |-> Append(b.validity, TRUE)]
      BY <2>1, <2>4 DEF PushOne
    <3>2. ASSUME NEW i \in DOMAIN p.children
          PROVE  /\ Grown(p.children[i], b.children[i], cs[i], n, n + 1)
                 /\ At[p.children[i]][cs[i]][n + 1] = Row[p.children[i]][FieldOf(v, p.children[i])]
                 /\ NullsAllowed[p.children[i]][cs[i]][n + 1]
      <4>1. b.children[i] \in Columns[p.children[i]] /\ WellFormed[p.children[i]][b.children[i]][n]
        BY <2>4, StructColumns, StructWellFormed
      <4>2. /\ FieldOf(v, p.children[i]) \in Bson[p.children[i]]
            /\ Fault[p.children[i]][FieldOf(v, p.children[i])] = None
        BY <2>4, Accepted
      <4>3. ValueRow(p.children[i])
        BY <1>1, NodeFacts
      <4> QED
        BY <4>1, <4>2, <4>3, Zenon DEF ValueRow
    <3>3. cs = [i \in DOMAIN p.children |-> cs[i]]
      OBVIOUS
    <3> HIDE DEF c, cs
    <3>4. Grown(p, b, c, n, n + 1) /\ c.validity[n + 1] = TRUE
      BY <2>4, <3>1, <3>2, <3>3, StructGrown
    <3>5. c \in Columns[p] /\ Valid(p, c, n + 1) = TRUE /\ c.children = cs
      BY <2>4, <3>1, <3>4 DEF Grown, Valid
    <3>6. [i \in DOMAIN p.children |-> At[p.children[i]][c.children[i]][n + 1]]
          = [i \in DOMAIN p.children |-> Row[p.children[i]][FieldOf(v, p.children[i])]]
      <4>1. \A i \in DOMAIN p.children :
               At[p.children[i]][c.children[i]][n + 1] = Row[p.children[i]][FieldOf(v, p.children[i])]
        BY <3>2, <3>5
      <4> QED
        BY <4>1, Zenon
    <3>7. At[p][c][n + 1] = Row[p][v]
      BY <2>1, <2>2, <2>4, <3>5, <3>6 DEF AtOne, RowOne
    <3>8. NullsAllowed[p][c][n + 1]
      BY <2>2, <2>4, <3>2, <3>5 DEF NullsAllowedOne
    <3> QED
      BY <3>4, <3>7, <3>8 DEF c
  <2>5. CASE ~IsNull(v) /\ p.type = "List"
    <3> DEFINE q == p.children[1]
               L == Len(v.items)
               d == PushAll(Push[q], b.child, v.items)
    <3>1. /\ b \in [child : Columns[q], offsets : Seq(Nat), validity : Seq(BOOLEAN)]
          /\ q \in Nodes
      BY <2>5, ListColumns
    <3>2. Len(b.offsets) = n + 1 /\ WellFormed[q][b.child][Last(b.offsets)]
      BY <2>5, ListWellFormed
    <3>3. Last(b.offsets) \in Nat
      BY <3>1, <3>2 DEF Last
    <3>4. /\ v.items \in Seq(Bson[q])
          /\ \A k \in DOMAIN v.items : Fault[q][v.items[k]] = None
      BY <2>5, Accepted
    <3>5. L \in Nat /\ DOMAIN v.items = 1 .. L
      BY <3>4
    <3>6. ValueRow(q)
      BY <1>1, <2>5, NodeFacts
    <3>7. b.child \in Columns[q]
      BY <3>1
    <3> HIDE DEF q
    <3>8. /\ Grown(q, b.child, d, Last(b.offsets), Last(b.offsets) + L)
          /\ \A k \in 1 .. L : /\ At[q][d][Last(b.offsets) + k] = Row[q][v.items[k]]
                               /\ NullsAllowed[q][d][Last(b.offsets) + k]
      BY <3>1, <3>2, <3>3, <3>4, <3>6, <3>7, AllPushed
    <3>9. c = [child    |-> d, offsets |-> Append(b.offsets, Last(b.offsets) + L),
               validity |-> Append(b.validity, TRUE)]
      BY <2>1, <2>5 DEF PushOne, NextOffset, q
    <3> HIDE DEF c, d, L
    <3>10. /\ Grown(p, b, c, n, n + 1)
           /\ c.validity[n + 1] = TRUE
           /\ c.offsets[n + 1] = Last(b.offsets) /\ c.offsets[n + 2] = Last(b.offsets) + L
      <4>1. Grown(p.children[1], b.child, d, Last(b.offsets), Last(b.offsets) + L)
        BY <3>8 DEF q
      <4>2. c = ListWith(b, d, Last(b.offsets) + L, TRUE)
        BY <3>9 DEF ListWith
      <4>3. Last(b.offsets) + L \in Nat /\ Last(b.offsets) <= Last(b.offsets) + L
        BY <3>3, <3>5
      <4>4. c.validity = Append(b.validity, TRUE) /\ b.validity \in Seq(BOOLEAN) /\ Len(b.validity) = n
        BY <2>5, <3>1, <3>9, ListWellFormed
      <4>5. c.validity[n + 1] = TRUE
        BY <4>4
      <4>6. TRUE \in BOOLEAN
        OBVIOUS
      <4>7. Grown(p, b, ListWith(b, d, Last(b.offsets) + L, TRUE), n, n + 1)
        BY <2>5, <4>1, <4>3, <4>6, ListGrown
      <4>8. c.offsets[n + 1] = Last(b.offsets) /\ c.offsets[n + 2] = Last(b.offsets) + L
        <5>1. c.offsets = Append(b.offsets, Last(b.offsets) + L) /\ b.offsets \in Seq(Nat)
          BY <3>1, <3>9
        <5>2. Last(b.offsets) = b.offsets[n + 1]
          BY <3>2 DEF Last
        <5> QED
          BY <3>2, <4>3, <5>1, <5>2
      <4> QED
        BY <4>2, <4>5, <4>7, <4>8
    <3>11. c \in Columns[p] /\ Valid(p, c, n + 1) = TRUE /\ c.child = d
      BY <2>5, <3>9, <3>10 DEF Grown, Valid
    <3>12. 1 .. (c.offsets[(n + 1) + 1] - c.offsets[n + 1]) = 1 .. L
      <4>1. (n + 1) + 1 = n + 2 /\ (Last(b.offsets) + L) - Last(b.offsets) = L
        BY <3>3, <3>5
      <4> QED
        BY <3>10, <4>1
    <3>13. [k \in 1 .. L |-> At[q][c.child][c.offsets[n + 1] + k]] = [k \in 1 .. L |-> Row[q][v.items[k]]]
      <4>1. \A k \in 1 .. L : At[q][c.child][c.offsets[n + 1] + k] = Row[q][v.items[k]]
        BY <3>8, <3>10, <3>11
      <4> QED
        BY <4>1, Zenon
    <3>14. At[p][c][n + 1] = Row[p][v]
      <4>1. At[p][c][n + 1] = Some([k \in 1 .. L |-> At[q][c.child][c.offsets[n + 1] + k]])
        BY <2>2, <2>5, <3>11, <3>12 DEF AtOne, q
      <4>2. Row[p][v] = Some([k \in 1 .. L |-> Row[q][v.items[k]]])
        BY <2>1, <2>5, <3>5 DEF RowOne, q
      <4> QED
        BY <3>13, <4>1, <4>2
    <3>15. NullsAllowed[p][c][n + 1]
      <4>1. \A k \in 1 .. L : NullsAllowed[q][c.child][c.offsets[n + 1] + k]
        BY <3>8, <3>10, <3>11
      <4> QED
        BY <2>2, <2>5, <3>11, <3>12, <4>1 DEF NullsAllowedOne, q
    <3> QED
      BY <3>10, <3>14, <3>15 DEF c
  <2>6. CASE ~IsNull(v) /\ p.type # "Struct" /\ p.type # "List"
    <3> DEFINE slot == Some(LeafValue(v))
               d    == [b EXCEPT !.values = Append(@, slot)]
    <3>1. c = d /\ Row[p][v] = slot
      BY <2>1, <2>6 DEF PushOne, RowOne
    <3>2. LeafValue(v) \in Payload
      BY <2>6, Accepted, LeafPayload
    <3>3. slot \in Slots /\ slot # None
      BY <3>2 DEF Slots, Some, None
    <3> HIDE DEF slot
    <3>4. /\ Grown(p, b, d, n, n + 1)
          /\ At[p][d][n + 1] = slot
          /\ NullsAllowed[p][d][n + 1] <=> slot # None \/ p.nullable
      BY <2>6, <3>3, LeafGrown
    <3> HIDE DEF c, d
    <3> QED
      BY <3>1, <3>3, <3>4 DEF c
  <2> QED
    BY <2>3, <2>4, <2>5, <2>6
<1>2. \A p \in Nodes : p \in Good
  <2> HIDE DEF Good
  <2> QED
    BY <1>1, ByDepth
<1> QED
  BY <1>2

(* A new builder holds nothing.                                            *)
Empty(p) == NewBuilder[p] \in Columns[p] /\ WellFormed[p][NewBuilder[p]][0]

(* A new builder is a column without rows, at every node.                  *)
LEMMA NewIsEmpty == \A p \in Nodes : Empty(p)
<1> DEFINE Good == {p \in Nodes : Empty(p)}
<1>1. ASSUME NEW p \in Nodes, \A q \in Nodes : Depth(q) < Depth(p) => q \in Good PROVE p \in Good
  <2>1. NewBuilder[p] = NewBuilderBody(NewBuilder, p)
    BY NewBuilderUnfold
  <2>2. CASE p.type = "Struct"
    <3> DEFINE cs == [i \in DOMAIN p.children |-> NewBuilder[p.children[i]]]
               c  == [children |-> cs, validity |-> <<>>]
    <3>1. NewBuilder[p] = c
      BY <2>1, <2>2 DEF NewBuilderBody
    <3>2. /\ cs = [i \in DOMAIN p.children |-> cs[i]]
          /\ \A i \in DOMAIN p.children : /\ cs[i] \in Columns[p.children[i]]
                                          /\ WellFormed[p.children[i]][cs[i]][0]
      BY <1>1, NodeFacts DEF Empty
    <3> HIDE DEF cs
    <3>3. <<>> \in Seq(BOOLEAN)
      OBVIOUS
    <3>4. c \in Columns[p]
      BY <2>2, <3>2, <3>3, StructColumns
    <3>5. c.children = cs /\ Len(c.validity) = 0
      OBVIOUS
    <3> HIDE DEF c
    <3>6. WellFormed[p][c][0]
      <4>1. \A i \in DOMAIN p.children : WellFormed[p.children[i]][c.children[i]][0]
        BY <3>2, <3>5
      <4>2. 0 \in Nat
        OBVIOUS
      <4> QED
        BY <2>2, <3>4, <3>5, <4>1, <4>2, StructWellFormed
    <3> QED
      BY <3>1, <3>4, <3>6 DEF Empty
  <2>3. CASE p.type = "List"
    <3> DEFINE c == [child |-> NewBuilder[p.children[1]], offsets |-> <<0>>, validity |-> <<>>]
    <3>1. NewBuilder[p] = c
      BY <2>1, <2>3 DEF NewBuilderBody
    <3>2. /\ NewBuilder[p.children[1]] \in Columns[p.children[1]]
          /\ WellFormed[p.children[1]][NewBuilder[p.children[1]]][0]
      BY <1>1, <2>3, NodeFacts DEF Empty
    <3>3. c \in Columns[p]
      <4>1. <<>> \in Seq(BOOLEAN) /\ <<0>> \in Seq(Nat)
        OBVIOUS
      <4>2. c \in [child : Columns[p.children[1]], offsets : Seq(Nat), validity : Seq(BOOLEAN)]
        BY <3>2, <4>1
      <4> HIDE DEF c
      <4> QED
        BY <2>3, <4>2, ListColumns
    <3>4. /\ Len(c.validity) = 0 /\ Len(c.offsets) = 1 /\ Last(c.offsets) = 0 /\ c.offsets[1] = 0
          /\ c.child = NewBuilder[p.children[1]]
      BY DEF Last
    <3> HIDE DEF c
    <3>5. \A r \in 1 .. 0 + 1 : \A s \in r .. 0 + 1 : c.offsets[r] <= c.offsets[s]
      BY <3>4
    <3>6. WellFormed[p][c][0]
      <4>1. 0 \in Nat /\ Len(c.offsets) = 0 + 1
        BY <3>4
      <4>2. WellFormed[p.children[1]][c.child][Last(c.offsets)]
        BY <3>2, <3>4
      <4> QED
        BY <2>3, <3>3, <3>4, <3>5, <4>1, <4>2, ListWellFormed
    <3> QED
      BY <3>1, <3>3, <3>6 DEF Empty
  <2>4. CASE p.type # "Struct" /\ p.type # "List"
    <3>1. NewBuilder[p] = [values |-> <<>>]
      BY <2>1, <2>4 DEF NewBuilderBody
    <3> DEFINE c == [values |-> <<>>]
    <3>2. c \in [values : Seq(Slots)] /\ Len(c.values) = 0 /\ 0 \in Nat
      OBVIOUS
    <3> HIDE DEF c
    <3>3. c \in Columns[p]
      BY <2>4, <3>2, LeafColumns
    <3>4. WellFormed[p][c][0]
      BY <2>4, <3>2, <3>3, LeafWellFormed
    <3> QED
      BY <3>1, <3>3, <3>4 DEF Empty, c
  <2> QED
    BY <2>2, <2>3, <2>4
<1>2. \A p \in Nodes : p \in Good
  <2> HIDE DEF Good
  <2> QED
    BY <1>1, ByDepth
<1> QED
  BY <1>2

----------------------------------------------------------------------------
(* Filler.                                                                 *)

FillOne(f, p, col, rows, filled) ==
    CASE p.type = "Struct" ->
            [children |-> [i \in DOMAIN p.children |-> f[p.children[i]][col.children[i]][rows][filled]],
             validity |-> [r \in DOMAIN col.validity |-> col.validity[r] \/ r \in rows]]
      [] p.type = "List" -> col
      [] OTHER -> [values |-> [r \in DOMAIN col.values |->
                                  IF r \notin rows THEN col.values[r]
                                  ELSE IF filled THEN Some(Filler(p.type)) ELSE None]]

FillBody(f, p) ==
    [col \in Columns[p] |-> [rows \in SUBSET Nat |-> [filled \in BOOLEAN |->
        FillOne(f, p, col, rows, filled)]]]

FillRec == INSTANCE Recursion WITH S <- Nodes, Rank <- Depth, Body <- FillBody

(* Other filler for a column, from that for the columns inside it.         *)
LEMMA FillUnfold ==
    ASSUME NEW p \in Nodes, NEW col \in Columns[p], NEW rows \in SUBSET Nat, NEW filled \in BOOLEAN
    PROVE  Fill[p][col][rows][filled] = FillOne(Fill, p, col, rows, filled)
<1>1. FillRec!Local
  <2> SUFFICES ASSUME NEW q \in Nodes, NEW g, NEW h,
                      \A y \in Nodes : Depth(y) < Depth(q) => g[y] = h[y]
               PROVE  FillBody(g, q) = FillBody(h, q)
    BY DEF FillRec!Local
  <2>1. \A i \in DOMAIN q.children : g[q.children[i]] = h[q.children[i]]
    BY NodeFacts
  <2>2. ASSUME NEW c \in Columns[q], NEW s \in SUBSET Nat, NEW full \in BOOLEAN
        PROVE  FillOne(g, q, c, s, full) = FillOne(h, q, c, s, full)
    <3>1. [i \in DOMAIN q.children |-> g[q.children[i]][c.children[i]][s][full]]
          = [i \in DOMAIN q.children |-> h[q.children[i]][c.children[i]][s][full]]
      BY <2>1, Zenon
    <3> QED
      BY <3>1, Zenon DEF FillOne
  <2> QED
    BY <2>2, Zenon DEF FillBody
<1>2. FillRec!Ranked
  BY NodeFacts DEF FillRec!Ranked
<1>3. \E f : f = [q \in Nodes |-> FillBody(f, q)]
  BY <1>1, <1>2, LeastNumber, FillRec!RecursiveFunction
<1>4. Fill = [q \in Nodes |-> FillBody(Fill, q)]
  BY <1>3, Zenon DEF Fill, FillBody, FillOne
<1>5. Fill[p] = FillBody(Fill, p)
  BY <1>4
<1> QED
  BY <1>5 DEF FillBody

(* A function of the first numbers is a sequence.                          *)
LEMMA FunctionIsSequence ==
    ASSUME NEW T, NEW n \in Nat, NEW f \in [1 .. n -> T]
    PROVE  f \in Seq(T) /\ Len(f) = n
<1>1. [1 .. n -> T] \in {[1 .. k -> T] : k \in Nat}
  OBVIOUS
<1>2. f \in Seq(T)
  BY <1>1, SeqDef, Zenon
<1>3. Len(f) \in Nat /\ DOMAIN f = 1 .. Len(f) /\ DOMAIN f = 1 .. n
  BY <1>2
<1> QED
  BY <1>2, <1>3

(* c is b, a column of n rows, with other things in some of the rows.      *)
KeptBut(p, b, c, n, rows) ==
    /\ c \in Columns[p]
    /\ WellFormed[p][c][n]
    /\ \A r \in 1 .. n : r \notin rows => /\ At[p][c][r] = At[p][b][r]
                                          /\ NullsAllowed[p][c][r] <=> NullsAllowed[p][b][r]

FillKeeps(p) ==
    \A col \in Columns[p], n \in Nat, rows \in SUBSET Nat, filled \in BOOLEAN :
        WellFormed[p][col][n] => KeptBut(p, col, Fill[p][col][rows][filled], n, rows)

(* Rows of a struct, and of a leaf.                                        *)
LEMMA StructRow ==
    ASSUME NEW p \in Nodes, p.type = "Struct", NEW col \in Columns[p], NEW r \in Nat, col.validity[r] \in BOOLEAN
    PROVE  /\ ~col.validity[r] => At[p][col][r] = None /\ (NullsAllowed[p][col][r] <=> p.nullable)
           /\ col.validity[r] =>
                 /\ At[p][col][r] = Some([i \in DOMAIN p.children |-> At[p.children[i]][col.children[i]][r]])
                 /\ NullsAllowed[p][col][r] <=> \A i \in DOMAIN p.children :
                                                   NullsAllowed[p.children[i]][col.children[i]][r]
<1>1. /\ At[p][col][r] = AtOne(At, p, col, r)
      /\ NullsAllowed[p][col][r] = NullsAllowedOne(NullsAllowed, p, col, r)
  BY AtUnfold, NullsAllowedUnfold
<1>2. Valid(p, col, r) = col.validity[r]
  BY DEF Valid
<1>3. CASE col.validity[r]
  BY <1>1, <1>2, <1>3, Zenon DEF AtOne, NullsAllowedOne
<1>4. CASE ~col.validity[r]
  <2>1. p.nullable \in BOOLEAN
    BY NodeFacts
  <2> QED
    BY <1>1, <1>2, <1>4, <2>1 DEF AtOne, NullsAllowedOne
<1> QED
  BY <1>3, <1>4

(* The rows of a leaf are its slots.                                       *)
LEMMA LeafRow ==
    ASSUME NEW p \in Nodes, p.type # "Struct", p.type # "List", NEW d \in Columns[p], NEW r \in Nat
    PROVE  /\ At[p][d][r] = d.values[r]
           /\ NullsAllowed[p][d][r] <=> d.values[r] # None \/ p.nullable
<1>1. /\ At[p][d][r] = AtOne(At, p, d, r)
      /\ NullsAllowed[p][d][r] = NullsAllowedOne(NullsAllowed, p, d, r)
  BY AtUnfold, NullsAllowedUnfold
<1>2. Valid(p, d, r) <=> d.values[r] # None
  BY DEF Valid
<1>3. p.nullable \in BOOLEAN
  BY NodeFacts
<1> QED
  BY <1>1, <1>2, <1>3, Zenon DEF AtOne, NullsAllowedOne

(* A struct keeps what its children keep, wherever it is valid as before.  *)
LEMMA StructKept ==
    ASSUME NEW p \in Nodes, p.type = "Struct", NEW b \in Columns[p], NEW n \in Nat, WellFormed[p][b][n],
           NEW cs, cs = [i \in DOMAIN p.children |-> cs[i]],
           NEW vs \in Seq(BOOLEAN), Len(vs) = n, NEW rows, NEW inside,
           \A i \in DOMAIN p.children : KeptBut(p.children[i], b.children[i], cs[i], n, inside),
           \A r \in 1 .. n : r \notin rows => vs[r] = b.validity[r] /\ (vs[r] => r \notin inside)
    PROVE  KeptBut(p, b, [children |-> cs, validity |-> vs], n, rows)
<1> DEFINE c == [children |-> cs, validity |-> vs]
<1>1. \A i \in DOMAIN p.children : cs[i] \in Columns[p.children[i]] /\ WellFormed[p.children[i]][cs[i]][n]
  BY DEF KeptBut
<1>2. c \in Columns[p]
  BY <1>1, StructColumns
<1>3. c.children = cs /\ c.validity = vs
  OBVIOUS
<1> HIDE DEF c
<1>4. WellFormed[p][c][n]
  BY <1>1, <1>2, <1>3, StructWellFormed
<1>5. ASSUME NEW r \in 1 .. n, r \notin rows
      PROVE  /\ At[p][c][r] = At[p][b][r]
             /\ NullsAllowed[p][c][r] <=> NullsAllowed[p][b][r]
  <2>0. b.validity \in Seq(BOOLEAN) /\ Len(b.validity) = n
    BY StructColumns, StructWellFormed
  <2>1. /\ r \in Nat /\ c.validity[r] \in BOOLEAN /\ b.validity[r] \in BOOLEAN
        /\ b.validity[r] <=> c.validity[r]
        /\ c.validity[r] => r \notin inside
    BY <1>3, <1>5, <2>0
  <2>2. CASE c.validity[r]
    <3>1. \A i \in DOMAIN p.children :
             /\ At[p.children[i]][c.children[i]][r] = At[p.children[i]][b.children[i]][r]
             /\ NullsAllowed[p.children[i]][c.children[i]][r] <=> NullsAllowed[p.children[i]][b.children[i]][r]
      BY <1>3, <2>1, <2>2, Zenon DEF KeptBut
    <3>2. [i \in DOMAIN p.children |-> At[p.children[i]][c.children[i]][r]]
          = [i \in DOMAIN p.children |-> At[p.children[i]][b.children[i]][r]]
      BY <3>1, Zenon
    <3>3. At[p][c][r] = At[p][b][r]
      <4>1. At[p][c][r] = Some([i \in DOMAIN p.children |-> At[p.children[i]][c.children[i]][r]])
        BY <1>2, <2>1, <2>2, StructRow
      <4>2. At[p][b][r] = Some([i \in DOMAIN p.children |-> At[p.children[i]][b.children[i]][r]])
        BY <2>1, <2>2, StructRow
      <4> QED
        BY <3>2, <4>1, <4>2, Zenon
    <3>4. NullsAllowed[p][c][r] <=> NullsAllowed[p][b][r]
      <4>1. NullsAllowed[p][c][r] <=> \A i \in DOMAIN p.children : NullsAllowed[p.children[i]][c.children[i]][r]
        BY <1>2, <2>1, <2>2, StructRow
      <4>2. NullsAllowed[p][b][r] <=> \A i \in DOMAIN p.children : NullsAllowed[p.children[i]][b.children[i]][r]
        BY <2>1, <2>2, StructRow
      <4> QED
        BY <3>1, <4>1, <4>2
    <3> QED
      BY <3>3, <3>4
  <2>3. CASE ~c.validity[r]
    <3>1. At[p][c][r] = None /\ (NullsAllowed[p][c][r] <=> p.nullable)
      BY <1>2, <2>1, <2>3, StructRow
    <3>2. At[p][b][r] = None /\ (NullsAllowed[p][b][r] <=> p.nullable)
      BY <2>1, <2>3, StructRow
    <3> QED
      BY <3>1, <3>2
  <2> QED
    BY <2>1, <2>2, <2>3
<1> QED
  BY <1>2, <1>4, <1>5 DEF KeptBut, c

(* Other filler in some rows leaves the other rows as they are.            *)
LEMMA Filled == \A p \in Nodes : FillKeeps(p)
<1> DEFINE Good == {p \in Nodes : FillKeeps(p)}
<1>1. ASSUME NEW p \in Nodes, \A q \in Nodes : Depth(q) < Depth(p) => q \in Good PROVE p \in Good
  <2> SUFFICES ASSUME NEW b \in Columns[p], NEW n \in Nat, NEW rows \in SUBSET Nat, NEW filled \in BOOLEAN,
                      WellFormed[p][b][n]
               PROVE  KeptBut(p, b, Fill[p][b][rows][filled], n, rows)
    BY DEF FillKeeps
  <2> DEFINE c == Fill[p][b][rows][filled]
  <2>1. c = FillOne(Fill, p, b, rows, filled)
    BY FillUnfold
  <2>2. CASE p.type = "Struct"
    <3> DEFINE cs == [i \in DOMAIN p.children |-> Fill[p.children[i]][b.children[i]][rows][filled]]
               vs == [r \in DOMAIN b.validity |-> b.validity[r] \/ r \in rows]
    <3>1. c = [children |-> cs, validity |-> vs]
      BY <2>1, <2>2, Zenon DEF FillOne
    <3>2. ASSUME NEW i \in DOMAIN p.children
          PROVE  KeptBut(p.children[i], b.children[i], cs[i], n, rows)
      <4>1. b.children[i] \in Columns[p.children[i]] /\ WellFormed[p.children[i]][b.children[i]][n]
        BY <2>2, StructColumns, StructWellFormed
      <4>2. FillKeeps(p.children[i])
        BY <1>1, NodeFacts
      <4> QED
        BY <4>1, <4>2 DEF FillKeeps
    <3>3. cs = [i \in DOMAIN p.children |-> cs[i]]
      OBVIOUS
    <3>4. b.validity \in Seq(BOOLEAN) /\ Len(b.validity) = n
      BY <2>2, StructColumns, StructWellFormed
    <3>5. vs \in Seq(BOOLEAN) /\ Len(vs) = n
      <4>1. vs \in [1 .. n -> BOOLEAN]
        BY <3>4
      <4> HIDE DEF vs
      <4> QED
        BY <4>1, FunctionIsSequence
    <3>6. \A r \in 1 .. n : r \notin rows => vs[r] = b.validity[r] /\ (vs[r] => r \notin rows)
      BY <3>4
    <3> HIDE DEF c, cs, vs
    <3>7. KeptBut(p, b, [children |-> cs, validity |-> vs], n, rows)
      BY <2>2, <3>2, <3>3, <3>5, <3>6, StructKept
    <3> QED
      BY <3>1, <3>7 DEF c
  <2>3. CASE p.type = "List"
    <3>1. c = b
      BY <2>1, <2>3 DEF FillOne
    <3> QED
      BY <3>1 DEF KeptBut
  <2>4. CASE p.type # "Struct" /\ p.type # "List"
    <3> DEFINE us == [r \in DOMAIN b.values |-> IF r \notin rows THEN b.values[r]
                                                ELSE IF filled THEN Some(Filler(p.type)) ELSE None]
    <3>1. c = [values |-> us]
      BY <2>1, <2>4, Zenon DEF FillOne
    <3>2. b.values \in Seq(Slots) /\ Len(b.values) = n
      <4>1. b \in [values : Seq(Slots)]
        BY <2>4, LeafColumns
      <4>2. Len(b.values) = n
        BY <2>4, LeafWellFormed
      <4> QED
        BY <4>1, <4>2
    <3>3. Some(Filler(p.type)) \in Slots /\ None \in Slots
      <4>1. Filler(p.type) \in Payload
        BY <2>4, NodeFacts, FillerAssumption
      <4> QED
        BY <4>1 DEF Some, None, Slots
    <3>4. us \in [1 .. n -> Slots]
      BY <3>2, <3>3
    <3>5. \A r \in 1 .. n : r \notin rows => us[r] = b.values[r]
      BY <3>2
    <3> HIDE DEF us, c
    <3>6. us \in Seq(Slots) /\ Len(us) = n
      BY <3>4, FunctionIsSequence
    <3>7. c \in Columns[p] /\ c.values = us
      BY <2>4, <3>1, <3>6, LeafColumns
    <3>8. WellFormed[p][c][n]
      BY <2>4, <3>6, <3>7, LeafWellFormed
    <3>9. ASSUME NEW r \in 1 .. n, r \notin rows
          PROVE  /\ At[p][c][r] = At[p][b][r]
                 /\ NullsAllowed[p][c][r] <=> NullsAllowed[p][b][r]
      <4>1. c.values[r] = b.values[r]
        BY <3>5, <3>7, <3>9
      <4> QED
        BY <2>4, <3>7, <4>1, LeafRow
    <3> QED
      BY <3>7, <3>8, <3>9 DEF KeptBut, c
  <2> QED
    BY <2>2, <2>3, <2>4
<1>2. \A p \in Nodes : p \in Good
  <2> HIDE DEF Good
  <2> QED
    BY <1>1, ByDepth
<1> QED
  BY <1>2

(* Other filler does not show, at any row.                                 *)
LEMMA FillerDoesNotShow ==
    ASSUME NEW p \in Nodes, NEW b \in Columns[p], NEW n \in Nat, WellFormed[p][b][n], NEW filled \in BOOLEAN
    PROVE  KeptBut(p, b, Refilled(p, b, filled), n, {})
<1>1. CASE p.type = "Struct"
  <2> DEFINE rows == {r \in DOMAIN b.validity : ~b.validity[r]}
             cs   == [i \in DOMAIN p.children |-> Fill[p.children[i]][b.children[i]][rows][filled]]
  <2>1. /\ b = [children |-> b.children, validity |-> b.validity]
        /\ b.validity \in Seq(BOOLEAN) /\ Len(b.validity) = n
        /\ DOMAIN b.children = DOMAIN p.children
    BY <1>1, StructColumns, StructWellFormed
  <2>2. rows \in SUBSET Nat
    BY <2>1
  <2> HIDE DEF rows
  <2>3. Refilled(p, b, filled) = [children |-> cs, validity |-> b.validity]
    <3>1. Refilled(p, b, filled)
          = [b EXCEPT !.children = [i \in DOMAIN @ |-> Fill[p.children[i]][@[i]][rows][filled]]]
      BY <1>1, Zenon DEF Refilled, rows
    <3>2. [i \in DOMAIN b.children |-> Fill[p.children[i]][b.children[i]][rows][filled]] = cs
      BY <2>1
    <3> HIDE DEF cs
    <3> QED
      BY <2>1, <3>1, <3>2
  <2>4. ASSUME NEW i \in DOMAIN p.children
        PROVE  KeptBut(p.children[i], b.children[i], cs[i], n, rows)
    <3>1. b.children[i] \in Columns[p.children[i]] /\ WellFormed[p.children[i]][b.children[i]][n]
      BY <1>1, StructColumns, StructWellFormed
    <3>2. FillKeeps(p.children[i])
      BY Filled, NodeFacts
    <3> QED
      BY <2>2, <3>1, <3>2 DEF FillKeeps
  <2>5. cs = [i \in DOMAIN p.children |-> cs[i]]
    OBVIOUS
  <2>6. \A r \in 1 .. n : r \notin {} => b.validity[r] = b.validity[r] /\ (b.validity[r] => r \notin rows)
    BY <2>1 DEF rows
  <2> HIDE DEF cs
  <2>7. KeptBut(p, b, [children |-> cs, validity |-> b.validity], n, {})
    BY <1>1, <2>1, <2>4, <2>5, <2>6, StructKept
  <2> QED
    BY <2>3, <2>7
<1>2. CASE p.type # "Struct"
  <2>1. Refilled(p, b, filled) = b
    BY <1>2 DEF Refilled
  <2> QED
    BY <2>1 DEF KeptBut
<1> QED
  BY <1>1, <1>2

----------------------------------------------------------------------------
(* The states of a batch.                                                  *)

(* The field after the last one is none.                                   *)
LEMMA Wraps ==
    ASSUME NEW n \in Nat, NEW x \in 0 .. n + 1
    PROVE  x % (n + 1) = IF x = n + 1 THEN 0 ELSE x
  OBVIOUS

(* A sequence in which an element is replaced.                             *)
LEMMA Replaced ==
    ASSUME NEW T, NEW s \in Seq(T), NEW k \in 1 .. Len(s), NEW x \in T
    PROVE  LET t == [s EXCEPT ![k] = x] IN
           /\ t \in Seq(T) /\ Len(t) = Len(s) /\ t[k] = x
           /\ \A r \in 1 .. Len(s) : r # k => t[r] = s[r]
<1>1. [s EXCEPT ![k] = x] \in [1 .. Len(s) -> T]
  OBVIOUS
<1>2. Len(s) \in Nat
  OBVIOUS
<1>3. [s EXCEPT ![k] = x] \in Seq(T) /\ Len([s EXCEPT ![k] = x]) = Len(s)
  BY <1>1, <1>2, FunctionIsSequence
<1> QED
  BY <1>3

Held == UNION {Bson[p] : p \in Nodes}

Shape ==
    /\ schema \in Schemas
    /\ plan \in Seq(Nodes)
    /\ status \in {"given", "schema_error", "decoding", "conversion_error", "framed",
                   "encode_error", "written"}
    /\ docs \in Seq(Seq(Held))
    /\ field \in 0 .. Len(plan)
    /\ DOMAIN columns = DOMAIN plan
    /\ status \in {"given", "schema_error"} => plan = <<>> /\ docs = <<>> /\ field = 0
    /\ status = "framed" => field = 0
    /\ field # 0 => docs # <<>>
    /\ status = "decoding" /\ field # 0 => Len(docs[Len(docs)]) = field - 1

ColumnsHold ==
    \A i \in DOMAIN plan : columns[i] \in Columns[plan[i]] /\ WellFormed[plan[i]][columns[i]][Pushed(i)]

RowsTaken ==
    \A i \in DOMAIN plan : \A r \in 1 .. Pushed(i) :
        /\ docs[r][i] \in Bson[plan[i]]
        /\ Fault[plan[i]][docs[r][i]] = None
        /\ At[plan[i]][columns[i]][r] = Row[plan[i]][docs[r][i]]
        /\ NullsAllowed[plan[i]][columns[i]][r]

IInv == Shape /\ ColumnsHold /\ RowsTaken

(* How many rows of a field have been pushed.                              *)
LEMMA PushedIsANumber ==
    ASSUME Shape, NEW i \in DOMAIN plan
    PROVE  Pushed(i) \in Nat /\ Pushed(i) <= Len(docs) /\ i \in Nat
<1>1. Len(docs) \in Nat /\ (field # 0 => Len(docs) >= 1) /\ i \in Nat
  BY DEF Shape
<1> QED
  BY <1>1 DEF Pushed

(* A batch starts with nothing.                                            *)
LEMMA IInvAtStart == Init => IInv
  BY DEF Init, IInv, Shape, ColumnsHold, RowsTaken

(* A compiled plan comes with an empty builder for each field.             *)
LEMMA CompileKeeps == IInv /\ Compile => IInv'
<1> SUFFICES ASSUME IInv, Compile PROVE IInv'
  OBVIOUS
<1>1. /\ schema \in Schemas /\ schema' = schema /\ docs' = docs /\ field' = field
      /\ plan = <<>> /\ docs = <<>> /\ field = 0 /\ columns = <<>>
  <2>1. DOMAIN columns = {}
    BY DEF IInv, Shape, Compile
  <2> QED
    BY DEF IInv, Shape, Compile
<1>2. CASE SchemaRejection(schema) # None
  BY <1>1, <1>2 DEF IInv, Shape, ColumnsHold, RowsTaken, Compile
<1>3. CASE SchemaRejection(schema) = None
  <2>1. /\ status' = "decoding" /\ plan' = FromFields(schema)
        /\ columns' = [i \in DOMAIN plan' |-> NewBuilder[plan'[i]]]
    BY <1>3 DEF Compile
  <2>2. Len(schema) \in Nat /\ DOMAIN schema = 1 .. Len(schema)
        /\ \A i \in DOMAIN schema : FromFields(schema)[i] \in Nodes
    BY <1>1, <1>3, SchemasAssumption
  <2>3. FromFields(schema) \in [1 .. Len(schema) -> Nodes]
    <3>1. /\ DOMAIN FromFields(schema) = DOMAIN schema
          /\ FromFields(schema) = [i \in DOMAIN schema |-> FromFields(schema)[i]]
      BY DEF FromFields
    <3> QED
      BY <2>2, <3>1
  <2>4. plan' \in Seq(Nodes)
    BY <2>1, <2>2, <2>3, FunctionIsSequence
  <2>5. Shape'
    BY <1>1, <2>1, <2>4 DEF Shape
  <2>6. \A i \in DOMAIN plan' : Pushed(i)' = 0
    BY <1>1 DEF Pushed
  <2>7. ColumnsHold'
    <3> SUFFICES ASSUME NEW i \in DOMAIN plan'
                 PROVE  columns'[i] \in Columns[plan'[i]] /\ WellFormed[plan'[i]][columns'[i]][Pushed(i)']
      BY DEF ColumnsHold
    <3>1. plan'[i] \in Nodes
      BY <2>4
    <3>2. columns'[i] = NewBuilder[plan'[i]]
      BY <2>1
    <3> QED
      BY <2>6, <3>1, <3>2, NewIsEmpty DEF Empty
  <2>8. RowsTaken'
    BY <2>6 DEF RowsTaken
  <2> QED
    BY <2>5, <2>7, <2>8 DEF IInv
<1> QED
  BY <1>2, <1>3

(* Taking a document pushes nothing yet.                                   *)
LEMMA NextDocumentKeeps == IInv /\ NextDocument => IInv'
<1> SUFFICES ASSUME IInv, NextDocument PROVE IInv'
  OBVIOUS
<1>1. /\ schema' = schema /\ plan' = plan /\ status' = status /\ columns' = columns
      /\ docs' = Append(docs, <<>>) /\ field' = 1 % (Len(plan) + 1)
      /\ status = "decoding" /\ field = 0
  BY DEF NextDocument
<1>2. /\ Len(plan) \in Nat /\ docs \in Seq(Seq(Held)) /\ Len(docs) \in Nat
      /\ DOMAIN plan = 1 .. Len(plan) /\ Shape
  BY DEF IInv, Shape
<1>3. field' = IF Len(plan) = 0 THEN 0 ELSE 1
  <2>1. 1 \in 0 .. Len(plan) + 1
    BY <1>2
  <2>2. 1 % (Len(plan) + 1) = IF 1 = Len(plan) + 1 THEN 0 ELSE 1
    BY <1>2, <2>1, Wraps
  <2> QED
    BY <1>1, <1>2, <2>2
<1>4. /\ docs' \in Seq(Seq(Held)) /\ Len(docs') = Len(docs) + 1 /\ docs'[Len(docs) + 1] = <<>>
      /\ \A r \in 1 .. Len(docs) : docs'[r] = docs[r]
  BY <1>1, <1>2
<1>5. Shape'
  <2>1. field' \in 0 .. Len(plan)
    BY <1>2, <1>3
  <2>2. docs' # <<>>
    BY <1>2, <1>4
  <2>3. field' # 0 => Len(docs'[Len(docs')]) = field' - 1
    BY <1>3, <1>4
  <2> QED
    BY <1>1, <1>2, <1>4, <2>1, <2>2, <2>3 DEF Shape
<1>6. \A i \in DOMAIN plan : Pushed(i) = Len(docs) /\ Pushed(i)' = Len(docs)
  BY <1>1, <1>2, <1>3, <1>4 DEF Pushed
<1>7. ColumnsHold'
  BY <1>1, <1>6 DEF IInv, ColumnsHold
<1>8. RowsTaken'
  BY <1>1, <1>4, <1>6 DEF IInv, RowsTaken
<1> QED
  BY <1>5, <1>7, <1>8 DEF IInv

(* Pushing a field adds one row to its builder, what the document says, or *)
(* ends the batch and leaves all builders as they are.                     *)
LEMMA DecodeFieldKeeps == IInv /\ DecodeField => IInv'
<1> SUFFICES ASSUME IInv, DecodeField PROVE IInv'
  OBVIOUS
<1> DEFINE L == Len(docs)
           N == Len(plan)
           p == plan[field]
<1>1. PICK v \in BsonValues(p) :
         /\ docs' = [docs EXCEPT ![L] = Append(@, v)]
         /\ IF Fault[p][v] # None
            THEN status' = "conversion_error" /\ field' = field /\ columns' = columns
            ELSE /\ columns' = [columns EXCEPT ![field] = Push[p][@][v]]
                 /\ field' = (field + 1) % (N + 1)
                 /\ status' = status
  BY DEF DecodeField
<1>2. schema' = schema /\ plan' = plan /\ status = "decoding" /\ field # 0
  BY DEF DecodeField
<1>3. /\ N \in Nat /\ DOMAIN plan = 1 .. N /\ field \in 1 .. N
      /\ docs \in Seq(Seq(Held)) /\ L \in Nat /\ L >= 1 /\ DOMAIN docs = 1 .. L
      /\ Len(docs[L]) = field - 1 /\ docs[L] \in Seq(Held)
      /\ p \in Nodes /\ DOMAIN columns = 1 .. N /\ plan \in Seq(Nodes) /\ schema \in Schemas
  BY <1>2 DEF IInv, Shape
<1> HIDE DEF L, N, p
<1>4. v \in Bson[p] /\ v \in Held
  BY <1>3, ValuesAssumption DEF Held
<1>5. /\ Append(docs[L], v) \in Seq(Held) /\ Len(Append(docs[L], v)) = field
      /\ Append(docs[L], v)[field] = v
      /\ \A i \in 1 .. field - 1 : Append(docs[L], v)[i] = docs[L][i]
  BY <1>3, <1>4
<1>6. /\ docs' \in Seq(Seq(Held)) /\ Len(docs') = L /\ docs'[L] = Append(docs[L], v)
      /\ \A r \in 1 .. L : r # L => docs'[r] = docs[r]
  <2> DEFINE d == Append(docs[L], v)
  <2>1. d \in Seq(Held) /\ L \in 1 .. Len(docs) /\ docs' = [docs EXCEPT ![L] = d]
    BY <1>1, <1>3, <1>5 DEF L
  <2> HIDE DEF d
  <2>2. /\ [docs EXCEPT ![L] = d] \in Seq(Seq(Held)) /\ Len([docs EXCEPT ![L] = d]) = Len(docs)
        /\ [docs EXCEPT ![L] = d][L] = d
        /\ \A r \in 1 .. Len(docs) : r # L => [docs EXCEPT ![L] = d][r] = docs[r]
    BY <1>3, <2>1, Replaced
  <2> QED
    BY <2>1, <2>2, Zenon DEF L, d
<1>7. ASSUME NEW i \in DOMAIN plan
      PROVE  Pushed(i) = IF field <= i THEN L - 1 ELSE L
  BY <1>3 DEF Pushed, L
<1>8. CASE Fault[p][v] # None
  <2>1. status' = "conversion_error" /\ field' = field /\ columns' = columns
    BY <1>1, <1>8
  <2>2. Shape'
    <3>1. docs' # <<>>
      BY <1>3, <1>6
    <3> QED
      BY <1>2, <1>3, <1>6, <2>1, <3>1 DEF Shape, N
  <2>3. ASSUME NEW i \in DOMAIN plan
        PROVE  /\ Pushed(i)' = Pushed(i)
               /\ \A r \in 1 .. Pushed(i) : docs'[r][i] = docs[r][i]
    <3>1. Pushed(i)' = Pushed(i)
      BY <1>3, <1>6, <1>7, <2>1 DEF Pushed, L
    <3>2. ASSUME NEW r \in 1 .. Pushed(i) PROVE docs'[r][i] = docs[r][i]
      <4>1. CASE r # L
        <5>1. r \in 1 .. L
          BY <1>3, <1>7, <4>1
        <5> QED
          BY <1>6, <4>1, <5>1
      <4>2. CASE r = L
        <5>1. i \in 1 .. field - 1
          BY <1>3, <1>7, <4>2
        <5> QED
          BY <1>5, <1>6, <4>2, <5>1
      <4> QED
        BY <4>1, <4>2
    <3> QED
      BY <3>1, <3>2
  <2>4. ColumnsHold'
    BY <1>2, <2>1, <2>3 DEF IInv, ColumnsHold
  <2>5. RowsTaken'
    BY <1>2, <2>1, <2>3 DEF IInv, RowsTaken
  <2> QED
    BY <2>2, <2>4, <2>5 DEF IInv
<1>9. CASE Fault[p][v] = None
  <2>1. /\ columns' = [columns EXCEPT ![field] = Push[p][@][v]]
        /\ field' = (field + 1) % (N + 1) /\ status' = status
    BY <1>1, <1>9
  <2>2. field' = IF field = N THEN 0 ELSE field + 1
    <3>1. field + 1 \in 0 .. N + 1
      BY <1>3
    <3>2. (field + 1) % (N + 1) = IF field + 1 = N + 1 THEN 0 ELSE field + 1
      BY <1>3, <3>1, Wraps
    <3> QED
      BY <1>3, <2>1, <3>2
  <2>3. /\ DOMAIN columns' = 1 .. N /\ columns'[field] = Push[p][columns[field]][v]
        /\ \A i \in 1 .. N : i # field => columns'[i] = columns[i]
    BY <1>3, <2>1
  <2>4. Shape'
    <3>1. docs' # <<>>
      BY <1>3, <1>6
    <3>2. field' \in 0 .. N /\ (field' # 0 => Len(docs'[Len(docs')]) = field' - 1)
      BY <1>3, <1>5, <1>6, <2>2
    <3> QED
      BY <1>2, <1>3, <1>6, <2>1, <2>3, <3>1, <3>2 DEF Shape, N
  <2>5. ASSUME NEW i \in DOMAIN plan
        PROVE  Pushed(i)' = IF i = field THEN L ELSE Pushed(i)
    <3>1. i \in 1 .. N /\ Pushed(i) = IF field <= i THEN L - 1 ELSE L
      BY <1>3, <1>7
    <3>2. Pushed(i)' = IF field' # 0 /\ field' <= i THEN L - 1 ELSE L
      BY <1>6 DEF Pushed
    <3>3. CASE field = N
      BY <1>3, <2>2, <3>1, <3>2, <3>3
    <3>4. CASE field # N
      <4>1. field' = field + 1
        BY <2>2, <3>4
      <4> QED
        BY <1>3, <3>1, <3>2, <4>1
    <3> QED
      BY <3>3, <3>4
  <2>6. ASSUME NEW i \in DOMAIN plan, i # field
        PROVE  /\ columns'[i] = columns[i] /\ Pushed(i)' = Pushed(i)
               /\ \A r \in 1 .. Pushed(i) : docs'[r][i] = docs[r][i]
    <3>1. columns'[i] = columns[i] /\ Pushed(i)' = Pushed(i)
      BY <1>3, <2>3, <2>5, <2>6
    <3>2. ASSUME NEW r \in 1 .. Pushed(i) PROVE docs'[r][i] = docs[r][i]
      <4>1. CASE r # L
        <5>1. r \in 1 .. L
          BY <1>3, <1>7, <4>1
        <5> QED
          BY <1>6, <4>1, <5>1
      <4>2. CASE r = L
        <5>1. i \in 1 .. field - 1
          BY <1>3, <1>7, <4>2
        <5> QED
          BY <1>5, <1>6, <4>2, <5>1
      <4> QED
        BY <4>1, <4>2
    <3> QED
      BY <3>1, <3>2
  <2> DEFINE b == columns[field]
             c == Push[p][b][v]
             n == L - 1
  <2>7. n \in Nat /\ n + 1 = L /\ Pushed(field) = n /\ columns'[field] = c
    BY <1>3, <1>7, <2>3
  <2>8. b \in Columns[p] /\ WellFormed[p][b][n]
    BY <1>3, <2>7 DEF IInv, ColumnsHold, p
  <2>9. /\ Grown(p, b, c, n, n + 1)
        /\ At[p][c][n + 1] = Row[p][v]
        /\ NullsAllowed[p][c][n + 1]
    <3>1. ValueRow(p)
      BY <1>3, ValuePushed
    <3> QED
      BY <1>4, <1>9, <2>7, <2>8, <3>1 DEF ValueRow
  <2> HIDE DEF b, c, n
  <2>10. ColumnsHold'
    <3> SUFFICES ASSUME NEW i \in DOMAIN plan
                 PROVE  columns'[i] \in Columns[plan[i]] /\ WellFormed[plan[i]][columns'[i]][Pushed(i)']
      BY <1>2 DEF ColumnsHold
    <3>1. CASE i = field
      BY <2>5, <2>7, <2>9, <3>1 DEF Grown, p
    <3>2. CASE i # field
      BY <2>6, <3>2 DEF IInv, ColumnsHold
    <3> QED
      BY <3>1, <3>2
  <2>11. RowsTaken'
    <3> SUFFICES ASSUME NEW i \in DOMAIN plan, NEW r \in 1 .. Pushed(i)'
                 PROVE  /\ docs'[r][i] \in Bson[plan[i]]
                        /\ Fault[plan[i]][docs'[r][i]] = None
                        /\ At[plan[i]][columns'[i]][r] = Row[plan[i]][docs'[r][i]]
                        /\ NullsAllowed[plan[i]][columns'[i]][r]
      BY <1>2 DEF RowsTaken
    <3>1. CASE i # field
      <4>1. columns'[i] = columns[i] /\ docs'[r][i] = docs[r][i] /\ r \in 1 .. Pushed(i)
        BY <2>6, <3>1
      <4> QED
        BY <4>1 DEF IInv, RowsTaken
    <3>2. CASE i = field /\ r = L
      <4>1. docs'[r][i] = v /\ columns'[i] = c /\ plan[i] = p
        BY <1>5, <1>6, <2>7, <3>2 DEF p
      <4> QED
        BY <1>4, <1>9, <2>7, <2>9, <3>2, <4>1
    <3>3. CASE i = field /\ r # L
      <4>1. r \in 1 .. n /\ r \in 1 .. Pushed(i) /\ r \in 1 .. L
        <5>1. Pushed(i)' = L /\ Pushed(i) = n
          BY <2>5, <2>7, <3>3
        <5> QED
          BY <2>7, <3>3, <5>1
      <4>2. docs'[r] = docs[r] /\ columns'[i] = c /\ columns[i] = b /\ plan[i] = p
        BY <1>6, <2>7, <3>3, <4>1 DEF p, b
      <4>3. At[p][c][r] = At[p][b][r] /\ (NullsAllowed[p][c][r] <=> NullsAllowed[p][b][r])
        BY <2>9, <4>1 DEF Grown
      <4>4. /\ docs[r][i] \in Bson[plan[i]]
            /\ Fault[plan[i]][docs[r][i]] = None
            /\ At[plan[i]][columns[i]][r] = Row[plan[i]][docs[r][i]]
            /\ NullsAllowed[plan[i]][columns[i]][r]
        BY <4>1 DEF IInv, RowsTaken
      <4> QED
        BY <4>2, <4>3, <4>4
    <3> QED
      BY <3>1, <3>2, <3>3
  <2> QED
    BY <2>4, <2>10, <2>11 DEF IInv
<1> QED
  BY <1>8, <1>9

(* A column of ids holds ids and nulls.                                    *)
LEMMA IdColumns ==
    ASSUME IInv, NEW i \in DOMAIN plan, plan[i].type = "ObjectId"
    PROVE  /\ Pushed(i) \in Nat
           /\ columns[i] = [values |-> columns[i].values]
           /\ columns[i].values \in [1 .. Pushed(i) -> {None} \cup {Some(bytes) : bytes \in IdBytes}]
<1> DEFINE p == plan[i]
           n == Pushed(i)
           ids == columns[i].values
<1>1. p \in Nodes /\ n \in Nat
  BY PushedIsANumber DEF IInv, Shape
<1>2. p.type # "Struct" /\ p.type # "List" /\ p.type \in DOMAIN Leaves /\ Leaves[p.type] = {"ObjectId"}
  BY DEF Leaves
<1>3. columns[i] \in Columns[p] /\ WellFormed[p][columns[i]][n]
  BY DEF IInv, ColumnsHold
<1>4. columns[i] \in [values : Seq(Slots)] /\ Len(ids) = n
  <2> HIDE DEF p, n
  <2>1. Columns[p] = [values : Seq(Slots)]
    BY <1>1, <1>2, LeafColumns
  <2>2. Len(columns[i].values) = n
    BY <1>1, <1>2, <1>3, LeafWellFormed
  <2> QED
    BY <1>3, <2>1, <2>2
<1>5. ASSUME NEW r \in 1 .. n
      PROVE  ids[r] \in {None} \cup {Some(bytes) : bytes \in IdBytes}
  <2> DEFINE v == docs[r][i]
  <2>1. v \in Bson[p] /\ Fault[p][v] = None /\ At[p][columns[i]][r] = Row[p][v]
    BY DEF IInv, RowsTaken
  <2> HIDE DEF p, v, n
  <2>2. At[p][columns[i]][r] = ids[r]
    BY <1>1, <1>2, <1>3, LeafRow
  <2>3. Row[p][v] = RowOne(Row, p, v)
    BY <1>1, <2>1, RowUnfold
  <2>4. CASE IsNull(v)
    BY <2>1, <2>2, <2>3, <2>4 DEF RowOne
  <2>5. CASE ~IsNull(v)
    <3>1. v.tag \in Leaves[p.type]
      BY <1>1, <1>2, <2>1, <2>5, Accepted
    <3>2. LeafValue(v) \in IdBytes
      BY <1>1, <1>2, <2>1, <3>1, LeafPayload DEF p
    <3>3. Row[p][v] = Some(LeafValue(v))
      BY <1>2, <2>3, <2>5 DEF RowOne
    <3> QED
      BY <2>1, <2>2, <3>2, <3>3
  <2> QED
    BY <2>4, <2>5
<1>6. ids \in [1 .. n -> {None} \cup {Some(bytes) : bytes \in IdBytes}]
  <2> HIDE DEF n
  <2>1. DOMAIN ids = 1 .. n /\ ids = [r \in 1 .. n |-> ids[r]]
    BY <1>1, <1>4
  <2> QED
    BY <1>5, <2>1
<1> QED
  BY <1>1, <1>4, <1>6

(* A frame holds the rows that were pushed, whatever its filler.           *)
LEMMA FinishKeeps == IInv /\ Finish => IInv'
<1> SUFFICES ASSUME IInv, Finish PROVE IInv'
  OBVIOUS
<1>1. /\ schema' = schema /\ plan' = plan /\ docs' = docs /\ field' = field /\ status' = "framed"
      /\ field = 0 /\ docs # <<>> /\ Shape
  BY DEF Finish, IInv
<1>2. \A i \in DOMAIN plan : Pushed(i)' = Pushed(i)
  BY <1>1 DEF Pushed
<1>3. CASE columns' = columns
  <2>1. Shape'
    BY <1>1, <1>3 DEF Shape
  <2>2. ColumnsHold' /\ RowsTaken'
    BY <1>1, <1>2, <1>3 DEF IInv, ColumnsHold, RowsTaken
  <2> QED
    BY <2>1, <2>2 DEF IInv
<1>4. ASSUME NEW filled \in BOOLEAN,
             columns' = [i \in DOMAIN columns |-> Refilled(plan[i], columns[i], filled)]
      PROVE  IInv'
  <2>1. DOMAIN columns' = DOMAIN plan /\ \A i \in DOMAIN plan : columns'[i] = Refilled(plan[i], columns[i], filled)
    BY <1>1, <1>4 DEF Shape
  <2>2. Shape'
    BY <1>1, <2>1 DEF Shape
  <2>3. ASSUME NEW i \in DOMAIN plan
        PROVE  KeptBut(plan[i], columns[i], columns'[i], Pushed(i), {})
    <3>1. plan[i] \in Nodes /\ Pushed(i) \in Nat
      BY <1>1, PushedIsANumber DEF Shape
    <3>2. columns[i] \in Columns[plan[i]] /\ WellFormed[plan[i]][columns[i]][Pushed(i)]
      BY DEF IInv, ColumnsHold
    <3>3. KeptBut(plan[i], columns[i], Refilled(plan[i], columns[i], filled), Pushed(i), {})
      BY <3>1, <3>2, FillerDoesNotShow
    <3> QED
      BY <2>1, <3>3
  <2>4. ColumnsHold'
    BY <1>1, <1>2, <2>3 DEF ColumnsHold, KeptBut
  <2>5. RowsTaken'
    <3> SUFFICES ASSUME NEW i \in DOMAIN plan, NEW r \in 1 .. Pushed(i)
                 PROVE  /\ docs[r][i] \in Bson[plan[i]]
                        /\ Fault[plan[i]][docs[r][i]] = None
                        /\ At[plan[i]][columns'[i]][r] = Row[plan[i]][docs[r][i]]
                        /\ NullsAllowed[plan[i]][columns'[i]][r]
      BY <1>1, <1>2 DEF RowsTaken
    <3>1. /\ At[plan[i]][columns'[i]][r] = At[plan[i]][columns[i]][r]
          /\ NullsAllowed[plan[i]][columns'[i]][r] <=> NullsAllowed[plan[i]][columns[i]][r]
      BY <2>3 DEF KeptBut
    <3>2. /\ docs[r][i] \in Bson[plan[i]]
          /\ Fault[plan[i]][docs[r][i]] = None
          /\ At[plan[i]][columns[i]][r] = Row[plan[i]][docs[r][i]]
          /\ NullsAllowed[plan[i]][columns[i]][r]
      BY DEF IInv, RowsTaken
    <3> QED
      BY <3>1, <3>2
  <2> QED
    BY <2>2, <2>4, <2>5 DEF IInv
<1> QED
  BY <1>3, <1>4 DEF Finish

(* Rendering and parsing a column of ids gives the column back.            *)
LEMMA ThroughHexKeeps == IInv /\ ThroughHex => IInv'
<1> SUFFICES ASSUME IInv, ThroughHex PROVE IInv'
  OBVIOUS
<1>1. PICK i \in DOMAIN plan :
         /\ plan[i].type = "ObjectId"
         /\ columns' = [columns EXCEPT ![i].values = ObjectIdFromHex(ObjectIdToHex(@))]
  BY DEF ThroughHex
<1>2. /\ Pushed(i) \in Nat /\ columns[i] = [values |-> columns[i].values]
      /\ columns[i].values \in [1 .. Pushed(i) -> {None} \cup {Some(bytes) : bytes \in IdBytes}]
  BY <1>1, IdColumns
<1>3. ObjectIdFromHex(ObjectIdToHex(columns[i].values)) = columns[i].values
  BY <1>2, ColumnRoundTrip
<1>4. DOMAIN columns' = DOMAIN plan /\ \A j \in DOMAIN plan : columns'[j] = columns[j]
  <2>1. DOMAIN columns = DOMAIN plan
    BY DEF IInv, Shape
  <2>2. [columns[i] EXCEPT !.values = ObjectIdFromHex(ObjectIdToHex(@))] = columns[i]
    BY <1>2, <1>3
  <2> QED
    BY <1>1, <2>1, <2>2
<1>5. UNCHANGED <<schema, plan, docs, field>> /\ status = "framed" /\ status' = "framed"
  BY DEF ThroughHex
<1>6. \A j \in DOMAIN plan : Pushed(j)' = Pushed(j)
  BY <1>5 DEF Pushed
<1>7. Shape'
  BY <1>4, <1>5 DEF IInv, Shape
<1>8. ColumnsHold' /\ RowsTaken'
  BY <1>4, <1>5, <1>6 DEF IInv, ColumnsHold, RowsTaken
<1> QED
  BY <1>7, <1>8 DEF IInv

(* Writing a frame does not change it.                                     *)
LEMMA WriteKeeps == IInv /\ Write => IInv'
<1> SUFFICES ASSUME IInv, Write PROVE IInv'
  OBVIOUS
<1>1. UNCHANGED <<schema, plan, docs, field, columns>> /\ status = "framed"
      /\ status' \in {"encode_error", "written"}
  BY DEF Write
<1> QED
  BY <1>1 DEF IInv, Shape, ColumnsHold, RowsTaken, Pushed

(* The builders hold, row by row, the documents taken so far.              *)
LEMMA IInvHolds == Spec => []IInv
<1>1. IInv /\ [Next]_vars => IInv'
  <2> SUFFICES ASSUME IInv, [Next]_vars PROVE IInv'
    OBVIOUS
  <2>1. CASE UNCHANGED vars
    BY <2>1 DEF vars, IInv, Shape, ColumnsHold, RowsTaken, Pushed
  <2> QED
    BY <2>1, CompileKeeps, NextDocumentKeeps, DecodeFieldKeeps, FinishKeeps, ThroughHexKeeps, WriteKeeps DEF Next
<1> QED
  BY <1>1, IInvAtStart, PTL DEF Spec

(* The builders of all fields and levels stay level with the documents, so *)
(* that finish() can assemble arrays of them.                              *)
THEOREM TypeCorrect == Spec => []TypeOK
<1>1. IInv => TypeOK
  BY DEF IInv, Shape, ColumnsHold, TypeOK
<1> QED
  BY <1>1, IInvHolds, PTL

(* Pushing documents field by field into builders, with nulls pushed down  *)
(* into structs, is the same as converting each document by itself; filler *)
(* does not show.                                                          *)
THEOREM RowWiseHolds == Spec => []RowWise
<1>1. IInv => RowWise
  BY DEF IInv, Shape, RowsTaken, RowWise
<1> QED
  BY <1>1, IInvHolds, PTL

(* A null shows only where the schema allows one, at whatever depth.       *)
THEOREM NullsDeclaredHolds == Spec => []NullsDeclared
<1>1. IInv => NullsDeclared
  BY DEF IInv, Shape, RowsTaken, NullsDeclared
<1> QED
  BY <1>1, IInvHolds, PTL

(* Two digits of a rendering say the byte they were made of.               *)
LEMMA DigitsOfId ==
    ASSUME NEW bytes \in IdBytes
    PROVE  DigitsValue(ToHex(bytes), StampLength * 2) = Seconds(bytes)
<1> DEFINE n     == StampLength * 2
           text  == ToHex(bytes)
           Is(f) == f = [k \in 0 .. n |-> IF k = 0 THEN 0 ELSE f[k - 1] * Radix + text[k].digit]
           G     == [k \in 1 .. n |-> [u \in Int |-> u * Radix + text[k].digit]]
           B     == Radix * Radix
<1>0. n = 8 /\ 1 .. n \subseteq 1 .. HexLength
  BY DEF StampLength, HexLength
<1>1. Radix \in Int /\ \A k \in 1 .. n : text[k].digit \in Int
  <2>1. \A k \in 1 .. n : text[k] \in HexDigits
    BY <1>0, Rendered
  <2>2. \A d \in HexDigits : d.digit \in Int
    BY RadixAssumption DEF HexDigits
  <2> HIDE DEF text
  <2> QED
    BY <2>1, <2>2, RadixAssumption
<1> HIDE DEF text
<1>2. \E f : Is(f)
  <2>1. PICK h : Goes(h, n, 0, G)
    <3> HIDE DEF G
    <3> QED
      BY <1>0, Successive
  <2> HIDE DEF G
  <2>2. h[0] = 0
    BY <1>0, <2>1 DEF Goes
  <2>3. ASSUME NEW k \in 1 .. n PROVE h[k] = G[k][h[k - 1]]
    <3>1. k \in 0 .. n /\ k # 0
      BY <1>0
    <3> QED
      BY <2>1, <3>1 DEF Goes
  <2> DEFINE Good == {k \in 0 .. n : h[k] \in Int}
  <2>4. 0 \in Good
    BY <1>0, <2>2
  <2>5. ASSUME NEW k \in 1 .. n, k - 1 \in Good PROVE k \in Good /\ h[k] = h[k - 1] * Radix + text[k].digit
    <3>1. h[k - 1] \in Int
      BY <2>5
    <3>2. h[k] = h[k - 1] * Radix + text[k].digit
      BY <2>3, <3>1 DEF G
    <3>3. h[k - 1] * Radix \in Int
      BY <1>1, <3>1
    <3>4. h[k] \in Int
      BY <1>1, <3>2, <3>3
    <3> QED
      BY <1>0, <3>2, <3>4
  <2> HIDE DEF Good
  <2>6. \A k \in 0 .. n : k \in Good
    BY <1>0, <2>4, <2>5, CountingUp
  <2>7. \A k \in 0 .. n : h[k] = IF k = 0 THEN 0 ELSE h[k - 1] * Radix + text[k].digit
    <3>1. \A k \in 0 .. n : k = 0 \/ (k \in 1 .. n /\ k - 1 \in 0 .. n)
      BY <1>0
    <3> QED
      BY <2>2, <2>5, <2>6, <3>1
  <2>8. h = [k \in 0 .. n |-> h[k]]
    BY <2>1 DEF Goes
  <2>9. [k \in 0 .. n |-> h[k]] = [k \in 0 .. n |-> IF k = 0 THEN 0 ELSE h[k - 1] * Radix + text[k].digit]
    BY <2>7, Zenon
  <2> QED
    BY <2>8, <2>9
<1> DEFINE value == CHOOSE f : Is(f)
<1>3. Is(value)
  BY <1>2, Zenon
<1>4. DigitsValue(text, n) = value[n]
  BY Zenon DEF DigitsValue
<1> HIDE DEF value
<1>5. value[0] = 0 /\ \A k \in 1 .. 8 : value[k] = value[k - 1] * Radix + text[k].digit
  BY <1>0, <1>3
<1> HIDE DEF n
<1>6. ASSUME NEW k \in 1 .. StampLength, value[2 * k - 2] \in Int
      PROVE  value[2 * k] = value[2 * k - 2] * B + bytes[k] /\ value[2 * k] \in Int
  <2> DEFINE u == value[2 * k - 2]
             d == text[2 * k - 1].digit
             e == text[2 * k].digit
  <2>1. /\ 2 * k \in 1 .. 8 /\ 2 * k - 1 \in 1 .. 8
        /\ (2 * k) - 1 = 2 * k - 1 /\ (2 * k - 1) - 1 = 2 * k - 2
    BY DEF StampLength
  <2>2. value[2 * k - 1] = u * Radix + d
    BY <1>5, <2>1
  <2>3. value[2 * k] = value[2 * k - 1] * Radix + e
    BY <1>5, <2>1
  <2>4. k \in 1 .. IdLength
    BY DEF StampLength, IdLength
  <2>5. bytes[k] \in Byte /\ d = bytes[k] \div Radix /\ e = bytes[k] % Radix
    BY <2>4, Rendered DEF text, IdBytes
  <2>6. d * Radix + e = bytes[k] /\ d \in Int /\ e \in Int /\ bytes[k] \in Int
    <3>1. d \in 0 .. Radix - 1 /\ e \in 0 .. Radix - 1 /\ d * Radix + e = bytes[k]
      BY <2>5, DigitsOfByte
    <3> QED
      BY <2>5, <3>1, RadixAssumption DEF Byte
  <2> HIDE DEF u, d, e
  <2>7. u \in Int /\ Radix \in Int
    BY <1>1, <1>6 DEF u
  <2>8. (u * Radix + d) * Radix + e = u * (Radix * Radix) + (d * Radix + e)
    BY <2>6, <2>7
  <2>9. u * B \in Int
    BY <2>7
  <2> QED
    BY <2>2, <2>3, <2>6, <2>8, <2>9 DEF u
<1>7. value[2] = value[0] * B + bytes[1] /\ value[2] \in Int
  BY <1>5, <1>6 DEF StampLength
<1>8. value[4] = value[2] * B + bytes[2] /\ value[4] \in Int
  BY <1>6, <1>7 DEF StampLength
<1>9. value[6] = value[4] * B + bytes[3] /\ value[6] \in Int
  BY <1>6, <1>8 DEF StampLength
<1>10. value[8] = value[6] * B + bytes[4]
  BY <1>6, <1>9 DEF StampLength
<1>11. value[2] = bytes[1]
  <2>1. bytes[1] \in Byte /\ B \in Int
    BY <1>1 DEF IdBytes, IdLength
  <2>2. bytes[1] \in Int /\ 0 * B = 0
    BY <2>1, RadixAssumption DEF Byte
  <2> QED
    BY <1>5, <1>7, <2>2
<1> HIDE DEF B
<1>12. value[8] = ((bytes[1] * B + bytes[2]) * B + bytes[3]) * B + bytes[4]
  BY <1>8, <1>9, <1>10, <1>11
<1> QED
  BY <1>0, <1>4, <1>12 DEF Seconds, text, B, n

(* is_object_id, object_id_to_hex, object_id_from_hex and                  *)
(* object_id_timestamp agree on every id of a frame.                       *)
THEOREM IdsAgreeHolds == Spec => []IdsAgree
<1>1. ASSUME IInv PROVE IdsAgree
  <2> SUFFICES ASSUME NEW i \in DOMAIN plan, plan[i].type = "ObjectId",
                      NEW r \in DOMAIN columns[i].values
               PROVE  LET ids   == columns[i].values
                          texts == ObjectIdToHex(ids)
                          made  == ObjectIdTimestamp(ids, "ms") IN
                      IF ids[r] = None THEN texts[r] = None /\ made[r] = None
                      ELSE /\ IsObjectId(texts)[r] = Some(TRUE)
                           /\ ObjectIdFromHex(<<Some(InUpperCase(texts[r][1]))>>) = <<ids[r]>>
                           /\ made[r] = Some(MillisPerSecond * DigitsValue(texts[r][1], StampLength * 2))
    BY DEF IdsAgree
  <2> DEFINE ids   == columns[i].values
             texts == ObjectIdToHex(ids)
             made  == ObjectIdTimestamp(ids, "ms")
  <2>1. ids \in [1 .. Pushed(i) -> {None} \cup {Some(bytes) : bytes \in IdBytes}]
    BY <1>1, IdColumns
  <2> HIDE DEF ids
  <2>2. r \in DOMAIN ids /\ r \in DOMAIN texts
    BY DEF ids, ObjectIdToHex
  <2>3. CASE ids[r] = None
    BY <2>2, <2>3 DEF ObjectIdToHex, ObjectIdTimestamp, IdIn, ids
  <2>4. CASE ids[r] # None
    <3>1. PICK bytes \in IdBytes : ids[r] = Some(bytes)
      BY <2>1, <2>2, <2>4
    <3>2. Whole(bytes)
      <4>1. Len(bytes) = IdLength /\ DOMAIN bytes = 1 .. IdLength
        BY DEF IdBytes, IdLength
      <4>2. \A k \in 1 .. IdLength : bytes[k] \in Nat
        BY RadixAssumption DEF IdBytes, Byte
      <4> QED
        BY <4>1, <4>2, NullByteAssumption DEF Whole
    <3>3. ids[r][1] = bytes /\ IdIn(ids[r])
      BY <2>4, <3>1, <3>2 DEF Some, IdIn
    <3>4. texts[r] = Some(ToHex(bytes)) /\ made[r] = Some(Seconds(bytes) * SecondsScale["ms"])
      BY <2>2, <3>3 DEF ObjectIdToHex, ObjectIdTimestamp
    <3>5. texts[r] # None /\ texts[r][1] = ToHex(bytes)
      BY <3>4 DEF Some, None
    <3>6. IsObjectId(texts)[r] = Some(TRUE)
      <4>1. IsObjectId(texts)[r] = Some(IsValidObjectId(texts[r][1]))
        BY <2>2, <3>5 DEF IsObjectId
      <4>2. IsValidObjectId(texts[r][1]) = TRUE
        BY <3>5, HexRoundTrip DEF IsValidObjectId
      <4> QED
        BY <4>1, <4>2
    <3>7. ObjectIdFromHex(<<Some(InUpperCase(texts[r][1]))>>) = <<ids[r]>>
      <4> DEFINE x == InUpperCase(texts[r][1])
      <4>1. FromHex(x) = Some(bytes)
        <5>1. ToHex(bytes) \in [1 .. HexLength -> HexDigits]
          BY Rendered
        <5> QED
          BY <3>5, <5>1, CaseIgnored, HexRoundTrip
      <4> HIDE DEF x
      <4>2. ObjectIdFromHex(<<Some(x)>>) = <<FromHex(x)>>
        BY DEF ObjectIdFromHex, Some, None
      <4> QED
        BY <3>1, <4>1, <4>2 DEF x
    <3>8. made[r] = Some(MillisPerSecond * DigitsValue(texts[r][1], StampLength * 2))
      <4>1. SecondsScale["ms"] = 1000 /\ MillisPerSecond = 1000
        BY DEF SecondsScale, MillisPerSecond
      <4>2. DigitsValue(texts[r][1], StampLength * 2) = Seconds(bytes)
        BY <3>5, DigitsOfId
      <4>3. Seconds(bytes) \in Int
        <5>1. \A k \in 1 .. 4 : bytes[k] \in Int
          BY RadixAssumption DEF IdBytes, IdLength, Byte
        <5>2. Radix * Radix \in Int
          BY RadixAssumption
        <5> QED
          BY <5>1, <5>2 DEF Seconds
      <4> HIDE DEF made, texts
      <4>4. Seconds(bytes) * 1000 = 1000 * Seconds(bytes)
        BY <4>3
      <4> QED
        BY <3>4, <4>1, <4>2, <4>4
    <3> QED
      BY <2>4, <3>6, <3>7, <3>8 DEF ids
  <2> QED
    BY <2>3, <2>4
<1> QED
  BY <1>1, IInvHolds, PTL

----------------------------------------------------------------------------
(* What the functions of encode.rs are at a node.                          *)

(* Rows of a column that may not be null, or not be written.               *)
BadNull(p, col, active, row) == row \in active /\ ~Valid(p, col, row) /\ ~p.nullable

BadValue(p, col, active, row) ==
    row \in active /\ Valid(p, col, row) /\ Unwritable(p, col.values[row][1])

AtRow(p, row) == [path |-> p.path, declared |-> p.type, row |-> row]

SoundOne(f, p, col, n) ==
    CASE p.type = "Struct" ->
            /\ Len(col.validity) = n
            /\ \A i \in DOMAIN p.children : f[p.children[i]][col.children[i]][n]
      [] p.type = "List" ->
            /\ Len(col.validity) = n
            /\ Len(col.offsets) = n + 1
            /\ \A r \in 1 .. n + 1 : \A s \in r .. n + 1 : col.offsets[r] <= col.offsets[s]
            /\ \E m \in Nat : Last(col.offsets) <= m /\ f[p.children[1]][col.child][m]
      [] OTHER -> Len(col.values) = n

SoundBody(f, p) ==
    [col \in Columns[p] |-> [n \in Nat |-> SoundOne(f, p, col, n)]]

(* A column that holds n rows, or more where a list has been sliced: its   *)
(* offsets need not reach the end of the column of its items.              *)
Sound[p \in Nodes] ==
    [col \in Columns[p] |-> [n \in Nat |-> CASE p.type = "Struct" ->
            /\ Len(col.validity) = n
            /\ \A i \in DOMAIN p.children : Sound[p.children[i]][col.children[i]][n]
      [] p.type = "List" ->
            /\ Len(col.validity) = n
            /\ Len(col.offsets) = n + 1
            /\ \A r \in 1 .. n + 1 : \A s \in r .. n + 1 : col.offsets[r] <= col.offsets[s]
            /\ \E m \in Nat : Last(col.offsets) <= m /\ Sound[p.children[1]][col.child][m]
      [] OTHER -> Len(col.values) = n]]

SoundRec == INSTANCE Recursion WITH S <- Nodes, Rank <- Depth, Body <- SoundBody

(* Whether a column holds n rows, from the columns inside it.              *)
LEMMA SoundUnfold ==
    ASSUME NEW p \in Nodes, NEW col \in Columns[p], NEW n \in Nat
    PROVE  Sound[p][col][n] = SoundOne(Sound, p, col, n)
<1>1. SoundRec!Local
  <2> SUFFICES ASSUME NEW q \in Nodes, NEW g, NEW h,
                      \A y \in Nodes : Depth(y) < Depth(q) => g[y] = h[y]
               PROVE  SoundBody(g, q) = SoundBody(h, q)
    BY DEF SoundRec!Local
  <2>1. \A i \in DOMAIN q.children : g[q.children[i]] = h[q.children[i]]
    BY NodeFacts
  <2>2. q.type = "List" => g[q.children[1]] = h[q.children[1]]
    BY <2>1, NodeFacts
  <2>3. ASSUME NEW c \in Columns[q], NEW m \in Nat
        PROVE  SoundOne(g, q, c, m) = SoundOne(h, q, c, m)
    <3>1. CASE q.type = "Struct"
      BY <2>1, <3>1 DEF SoundOne
    <3>2. CASE q.type = "List"
      BY <2>2, <3>2 DEF SoundOne
    <3>3. CASE q.type # "Struct" /\ q.type # "List"
      BY <3>3 DEF SoundOne
    <3> QED
      BY <3>1, <3>2, <3>3
  <2> QED
    BY <2>3, Zenon DEF SoundBody
<1>2. SoundRec!Ranked
  BY NodeFacts DEF SoundRec!Ranked
<1>3. \E f : f = [q \in Nodes |-> SoundBody(f, q)]
  BY <1>1, <1>2, LeastNumber, SoundRec!RecursiveFunction
<1>4. Sound = [q \in Nodes |-> SoundBody(Sound, q)]
  BY <1>3, Zenon DEF Sound, SoundBody, SoundOne
<1>5. Sound[p] = SoundBody(Sound, p)
  BY <1>4
<1> QED
  BY <1>5 DEF SoundBody

SliceOne(f, p, col, lo, hi) ==
    CASE p.type = "Struct" ->
            [children |-> [i \in DOMAIN p.children |-> f[p.children[i]][col.children[i]][lo][hi]],
             validity |-> SubSeq(col.validity, lo + 1, hi)]
      [] p.type = "List" ->
            [col EXCEPT !.offsets = SubSeq(@, lo + 1, hi + 1), !.validity = SubSeq(@, lo + 1, hi)]
      [] OTHER -> [values |-> SubSeq(col.values, lo + 1, hi)]

SliceBody(f, p) ==
    [col \in Columns[p] |-> [lo \in Nat |-> [hi \in Nat |-> SliceOne(f, p, col, lo, hi)]]]

SliceRec == INSTANCE Recursion WITH S <- Nodes, Rank <- Depth, Body <- SliceBody

(* Some rows of a column, from those of the columns inside it.             *)
LEMMA SliceUnfold ==
    ASSUME NEW p \in Nodes, NEW col \in Columns[p], NEW lo \in Nat, NEW hi \in Nat
    PROVE  Slice[p][col][lo][hi] = SliceOne(Slice, p, col, lo, hi)
<1>1. SliceRec!Local
  <2> SUFFICES ASSUME NEW q \in Nodes, NEW g, NEW h,
                      \A y \in Nodes : Depth(y) < Depth(q) => g[y] = h[y]
               PROVE  SliceBody(g, q) = SliceBody(h, q)
    BY DEF SliceRec!Local
  <2>1. \A i \in DOMAIN q.children : g[q.children[i]] = h[q.children[i]]
    BY NodeFacts
  <2>2. q.type = "List" => g[q.children[1]] = h[q.children[1]]
    BY <2>1, NodeFacts
  <2>3. ASSUME NEW c \in Columns[q], NEW l \in Nat, NEW u \in Nat
        PROVE  SliceOne(g, q, c, l, u) = SliceOne(h, q, c, l, u)
    <3>1. [i \in DOMAIN q.children |-> g[q.children[i]][c.children[i]][l][u]]
          = [i \in DOMAIN q.children |-> h[q.children[i]][c.children[i]][l][u]]
      BY <2>1, Zenon
    <3>2. CASE q.type = "Struct"
      BY <3>1, <3>2, Zenon DEF SliceOne
    <3>3. CASE q.type = "List"
      BY <2>2, <3>3 DEF SliceOne
    <3>4. CASE q.type # "Struct" /\ q.type # "List"
      BY <3>4, Zenon DEF SliceOne
    <3> QED
      BY <3>2, <3>3, <3>4
  <2> QED
    BY <2>3, Zenon DEF SliceBody
<1>2. SliceRec!Ranked
  BY NodeFacts DEF SliceRec!Ranked
<1>3. \E f : f = [q \in Nodes |-> SliceBody(f, q)]
  BY <1>1, <1>2, LeastNumber, SliceRec!RecursiveFunction
<1>4. Slice = [q \in Nodes |-> SliceBody(Slice, q)]
  BY <1>3, Zenon DEF Slice, SliceBody, SliceOne
<1>5. Slice[p] = SliceBody(Slice, p)
  BY <1>4
<1> QED
  BY <1>5 DEF SliceBody

EncodeFaultOne(f, p, col, active) ==
    CASE p.type = "Struct" ->
            FirstOf([i \in DOMAIN p.children |->
                        f[p.children[i]][col.children[i]][ChildActive(p, col, active)]]
                    \o <<FirstOf([row \in AllRows(p, col) |->
                                     IF BadNull(p, col, active, row) THEN Some(AtRow(p, row)) ELSE None])>>)
      [] p.type = "List" ->
            FirstOf([row \in AllRows(p, col) |->
                        IF row \in active /\ Valid(p, col, row)
                        THEN f[p.children[1]][Inner(p, col, row)][AllRows(p.children[1], Inner(p, col, row))]
                        ELSE IF BadNull(p, col, active, row) THEN Some(AtRow(p, row)) ELSE None])
      [] OTHER ->
            FirstOf([row \in AllRows(p, col) |->
                        IF BadNull(p, col, active, row) \/ BadValue(p, col, active, row)
                        THEN Some(AtRow(p, row)) ELSE None])

EncodeFaultBody(f, p) ==
    [col \in Columns[p] |-> [active \in SUBSET Nat |-> EncodeFaultOne(f, p, col, active)]]

EncodeFaultRec == INSTANCE Recursion WITH S <- Nodes, Rank <- Depth, Body <- EncodeFaultBody

(* The error of encode_column_where, from those of the columns inside.     *)
LEMMA EncodeFaultUnfold ==
    ASSUME NEW p \in Nodes, NEW col \in Columns[p], NEW active \in SUBSET Nat
    PROVE  EncodeFault[p][col][active] = EncodeFaultOne(EncodeFault, p, col, active)
<1>1. EncodeFaultRec!Local
  <2> SUFFICES ASSUME NEW q \in Nodes, NEW g, NEW h,
                      \A y \in Nodes : Depth(y) < Depth(q) => g[y] = h[y]
               PROVE  EncodeFaultBody(g, q) = EncodeFaultBody(h, q)
    BY DEF EncodeFaultRec!Local
  <2>1. \A i \in DOMAIN q.children : g[q.children[i]] = h[q.children[i]]
    BY NodeFacts
  <2>2. q.type = "List" => g[q.children[1]] = h[q.children[1]]
    BY <2>1, NodeFacts
  <2>3. ASSUME NEW c \in Columns[q], NEW rows \in SUBSET Nat
        PROVE  EncodeFaultOne(g, q, c, rows) = EncodeFaultOne(h, q, c, rows)
    <3>1. [i \in DOMAIN q.children |-> g[q.children[i]][c.children[i]][ChildActive(q, c, rows)]]
          = [i \in DOMAIN q.children |-> h[q.children[i]][c.children[i]][ChildActive(q, c, rows)]]
      BY <2>1, Zenon
    <3>2. CASE q.type = "Struct"
      BY <3>1, <3>2, Zenon DEF EncodeFaultOne
    <3>3. CASE q.type = "List"
      <4>1. g[q.children[1]] = h[q.children[1]] /\ q.type # "Struct"
        BY <2>2, <3>3
      <4> QED
        BY <3>3, <4>1, Zenon DEF EncodeFaultOne
    <3>4. CASE q.type # "Struct" /\ q.type # "List"
      BY <3>4, Zenon DEF EncodeFaultOne
    <3> QED
      BY <3>2, <3>3, <3>4
  <2> QED
    BY <2>3, Zenon DEF EncodeFaultBody
<1>2. EncodeFaultRec!Ranked
  BY NodeFacts DEF EncodeFaultRec!Ranked
<1>3. \E f : f = [q \in Nodes |-> EncodeFaultBody(f, q)]
  BY <1>1, <1>2, LeastNumber, EncodeFaultRec!RecursiveFunction
<1>4. EncodeFault = [q \in Nodes |-> EncodeFaultBody(EncodeFault, q)]
  BY <1>3, Zenon DEF EncodeFault, EncodeFaultBody, EncodeFaultOne, BadNull, BadValue, AtRow
<1>5. EncodeFault[p] = EncodeFaultBody(EncodeFault, p)
  BY <1>4
<1> QED
  BY <1>5 DEF EncodeFaultBody

EncodeOne(f, p, col, active) ==
    LET children ==
            IF p.type = "Struct"
            THEN [i \in DOMAIN p.children |->
                     f[p.children[i]][col.children[i]][ChildActive(p, col, active)]]
            ELSE <<>>
        Value(row) ==
            CASE p.type = "Struct" ->
                    EmbeddedDocument(p, [i \in DOMAIN p.children |-> children[i][row]])
              [] p.type = "List" ->
                    LET inner == Inner(p, col, row) IN
                    [tag |-> "Array",
                     items |-> f[p.children[1]][inner][AllRows(p.children[1], inner)]]
              [] OTHER -> WriteLeaf(p.type, col.values[row][1]) IN
    [row \in AllRows(p, col) |->
        IF row \in active /\ Valid(p, col, row) THEN Value(row) ELSE NullValue]

EncodeBody(f, p) ==
    [col \in Columns[p] |-> [active \in SUBSET Nat |-> EncodeOne(f, p, col, active)]]

EncodeRec == INSTANCE Recursion WITH S <- Nodes, Rank <- Depth, Body <- EncodeBody

(* What encode_column_where makes of a column, from what it makes of the   *)
(* columns inside.                                                         *)
LEMMA EncodeUnfold ==
    ASSUME NEW p \in Nodes, NEW col \in Columns[p], NEW active \in SUBSET Nat
    PROVE  Encode[p][col][active] = EncodeOne(Encode, p, col, active)
<1>1. EncodeRec!Local
  <2> SUFFICES ASSUME NEW q \in Nodes, NEW g, NEW h,
                      \A y \in Nodes : Depth(y) < Depth(q) => g[y] = h[y]
               PROVE  EncodeBody(g, q) = EncodeBody(h, q)
    BY DEF EncodeRec!Local
  <2>1. \A i \in DOMAIN q.children : g[q.children[i]] = h[q.children[i]]
    BY NodeFacts
  <2>2. q.type = "List" => g[q.children[1]] = h[q.children[1]]
    BY <2>1, NodeFacts
  <2>3. ASSUME NEW c \in Columns[q], NEW rows \in SUBSET Nat
        PROVE  EncodeOne(g, q, c, rows) = EncodeOne(h, q, c, rows)
    <3>1. CASE q.type = "Struct"
      <4>1. [i \in DOMAIN q.children |-> g[q.children[i]][c.children[i]][ChildActive(q, c, rows)]]
            = [i \in DOMAIN q.children |-> h[q.children[i]][c.children[i]][ChildActive(q, c, rows)]]
        BY <2>1, Zenon
      <4> QED
        BY <3>1, <4>1, Zenon DEF EncodeOne
    <3>2. CASE q.type = "List"
      <4>1. g[q.children[1]] = h[q.children[1]] /\ q.type # "Struct"
        BY <2>2, <3>2
      <4> QED
        BY <3>2, <4>1, Zenon DEF EncodeOne
    <3>3. CASE q.type # "Struct" /\ q.type # "List"
      BY <3>3, Zenon DEF EncodeOne
    <3> QED
      BY <3>1, <3>2, <3>3
  <2> QED
    BY <2>3, Zenon DEF EncodeBody
<1>2. EncodeRec!Ranked
  BY NodeFacts DEF EncodeRec!Ranked
<1>3. \E f : f = [q \in Nodes |-> EncodeBody(f, q)]
  BY <1>1, <1>2, LeastNumber, EncodeRec!RecursiveFunction
<1>4. Encode = [q \in Nodes |-> EncodeBody(Encode, q)]
  BY <1>3, Zenon DEF Encode, EncodeBody, EncodeOne
<1>5. Encode[p] = EncodeBody(Encode, p)
  BY <1>4
<1> QED
  BY <1>5 DEF EncodeBody

SaysWhatOne(f, p, v, w) ==
    IF IsNull(v) THEN IsNull(w)
    ELSE ~IsNull(w) /\
         CASE p.type = "Struct" ->
                 \A i \in DOMAIN p.children :
                     f[p.children[i]][FieldOf(v, p.children[i])][FieldOf(w, p.children[i])]
           [] p.type = "List" ->
                 /\ Len(v.items) = Len(w.items)
                 /\ \A k \in DOMAIN v.items : f[p.children[1]][v.items[k]][w.items[k]]
           [] p.type = "Timestamp" ->
                 LeafValue(w) = <<(LeafValue(v)[1] \div MillisPerSecond) * MillisPerSecond>>
           [] OTHER -> LeafValue(w) = LeafValue(v)

SaysWhatBody(f, p) ==
    [v \in Bson[p] |-> [w \in Bson[p] |-> SaysWhatOne(f, p, v, w)]]

SaysWhatRec == INSTANCE Recursion WITH S <- Nodes, Rank <- Depth, Body <- SaysWhatBody

(* Whether two values say the same, from whether those inside do.          *)
LEMMA SaysWhatUnfold ==
    ASSUME NEW p \in Nodes, NEW v \in Bson[p], NEW w \in Bson[p]
    PROVE  SaysWhat[p][v][w] = SaysWhatOne(SaysWhat, p, v, w)
<1>1. SaysWhatRec!Local
  <2> SUFFICES ASSUME NEW q \in Nodes, NEW g, NEW h,
                      \A y \in Nodes : Depth(y) < Depth(q) => g[y] = h[y]
               PROVE  SaysWhatBody(g, q) = SaysWhatBody(h, q)
    BY DEF SaysWhatRec!Local
  <2>1. \A i \in DOMAIN q.children : g[q.children[i]] = h[q.children[i]]
    BY NodeFacts
  <2>2. q.type = "List" => g[q.children[1]] = h[q.children[1]]
    BY <2>1, NodeFacts
  <2>3. ASSUME NEW x \in Bson[q], NEW y \in Bson[q]
        PROVE  SaysWhatOne(g, q, x, y) = SaysWhatOne(h, q, x, y)
    <3>1. CASE q.type = "Struct"
      BY <2>1, <3>1 DEF SaysWhatOne
    <3>2. CASE q.type = "List"
      BY <2>2, <3>2 DEF SaysWhatOne
    <3>3. CASE q.type # "Struct" /\ q.type # "List"
      BY <3>3 DEF SaysWhatOne
    <3> QED
      BY <3>1, <3>2, <3>3
  <2> QED
    BY <2>3, Zenon DEF SaysWhatBody
<1>2. SaysWhatRec!Ranked
  BY NodeFacts DEF SaysWhatRec!Ranked
<1>3. \E f : f = [q \in Nodes |-> SaysWhatBody(f, q)]
  BY <1>1, <1>2, LeastNumber, SaysWhatRec!RecursiveFunction
<1>4. SaysWhat = [q \in Nodes |-> SaysWhatBody(SaysWhat, q)]
  BY <1>3, Zenon DEF SaysWhat, SaysWhatBody, SaysWhatOne
<1>5. SaysWhat[p] = SaysWhatBody(SaysWhat, p)
  BY <1>4
<1> QED
  BY <1>5 DEF SaysWhatBody

HasUnwritableOne(f, p, v) ==
    ~IsNull(v) /\ CASE p.type = "Struct" ->
                          \E i \in DOMAIN p.children : f[p.children[i]][FieldOf(v, p.children[i])]
                    [] p.type = "List" -> \E k \in DOMAIN v.items : f[p.children[1]][v.items[k]]
                    [] OTHER           -> Unwritable(p, LeafValue(v))

HasUnwritableBody(f, p) ==
    [v \in Bson[p] |-> HasUnwritableOne(f, p, v)]

UnwritableRec == INSTANCE Recursion WITH S <- Nodes, Rank <- Depth, Body <- HasUnwritableBody

(* Whether a value can be written, from whether those inside can.          *)
LEMMA HasUnwritableUnfold ==
    ASSUME NEW p \in Nodes, NEW v \in Bson[p]
    PROVE  HasUnwritable[p][v] = HasUnwritableOne(HasUnwritable, p, v)
<1>1. UnwritableRec!Local
  <2> SUFFICES ASSUME NEW q \in Nodes, NEW g, NEW h,
                      \A y \in Nodes : Depth(y) < Depth(q) => g[y] = h[y]
               PROVE  HasUnwritableBody(g, q) = HasUnwritableBody(h, q)
    BY DEF UnwritableRec!Local
  <2>1. \A i \in DOMAIN q.children : g[q.children[i]] = h[q.children[i]]
    BY NodeFacts
  <2>2. q.type = "List" => g[q.children[1]] = h[q.children[1]]
    BY <2>1, NodeFacts
  <2>3. ASSUME NEW x \in Bson[q]
        PROVE  HasUnwritableOne(g, q, x) = HasUnwritableOne(h, q, x)
    <3>1. CASE q.type = "Struct"
      BY <2>1, <3>1 DEF HasUnwritableOne
    <3>2. CASE q.type = "List"
      BY <2>2, <3>2 DEF HasUnwritableOne
    <3>3. CASE q.type # "Struct" /\ q.type # "List"
      BY <3>3 DEF HasUnwritableOne
    <3> QED
      BY <3>1, <3>2, <3>3
  <2> QED
    BY <2>3, Zenon DEF HasUnwritableBody
<1>2. UnwritableRec!Ranked
  BY NodeFacts DEF UnwritableRec!Ranked
<1>3. \E f : f = [q \in Nodes |-> HasUnwritableBody(f, q)]
  BY <1>1, <1>2, LeastNumber, UnwritableRec!RecursiveFunction
<1>4. HasUnwritable = [q \in Nodes |-> HasUnwritableBody(HasUnwritable, q)]
  BY <1>3, Zenon DEF HasUnwritable, HasUnwritableBody, HasUnwritableOne
<1>5. HasUnwritable[p] = HasUnwritableBody(HasUnwritable, p)
  BY <1>4
<1> QED
  BY <1>5 DEF HasUnwritableBody

----------------------------------------------------------------------------
(* Columns the encoder can walk, and slices of them.                       *)

(* What it is for a struct, a list and a leaf to hold n rows.              *)
LEMMA StructSound ==
    ASSUME NEW p \in Nodes, p.type = "Struct", NEW col \in Columns[p], NEW n \in Nat
    PROVE  Sound[p][col][n] <=>
              /\ Len(col.validity) = n
              /\ \A i \in DOMAIN p.children : Sound[p.children[i]][col.children[i]][n]
<1>1. Sound[p][col][n] = SoundOne(Sound, p, col, n)
  BY SoundUnfold
<1> QED
  BY <1>1 DEF SoundOne

(* A list.                                                                 *)
LEMMA ListSound ==
    ASSUME NEW p \in Nodes, p.type = "List", NEW col \in Columns[p], NEW n \in Nat
    PROVE  Sound[p][col][n] <=>
              /\ Len(col.validity) = n
              /\ Len(col.offsets) = n + 1
              /\ \A r \in 1 .. n + 1 : \A s \in r .. n + 1 : col.offsets[r] <= col.offsets[s]
              /\ \E m \in Nat : Last(col.offsets) <= m /\ Sound[p.children[1]][col.child][m]
<1>1. Sound[p][col][n] = SoundOne(Sound, p, col, n)
  BY SoundUnfold
<1> QED
  BY <1>1 DEF SoundOne

(* A leaf.                                                                 *)
LEMMA LeafSound ==
    ASSUME NEW p \in Nodes, p.type # "Struct", p.type # "List", NEW col \in Columns[p], NEW n \in Nat
    PROVE  Sound[p][col][n] <=> Len(col.values) = n
<1>1. Sound[p][col][n] = SoundOne(Sound, p, col, n)
  BY SoundUnfold
<1> QED
  BY <1>1 DEF SoundOne

HeldAsSound(p) == \A col \in Columns[p], n \in Nat : WellFormed[p][col][n] => Sound[p][col][n]

(* A column as the decoder leaves it is one the encoder can walk.          *)
LEMMA WellFormedIsSound == \A p \in Nodes : HeldAsSound(p)
<1> DEFINE G == {p \in Nodes : HeldAsSound(p)}
<1>1. ASSUME NEW p \in Nodes, \A y \in Nodes : Depth(y) < Depth(p) => y \in G
      PROVE  p \in G
  <2>1. \A i \in DOMAIN p.children : p.children[i] \in Nodes /\ HeldAsSound(p.children[i])
    BY <1>1, NodeFacts
  <2> SUFFICES ASSUME NEW col \in Columns[p], NEW n \in Nat, WellFormed[p][col][n]
               PROVE  Sound[p][col][n]
    BY DEF HeldAsSound
  <2>2. CASE p.type = "Struct"
    <3>1. Len(col.validity) = n /\ \A i \in DOMAIN p.children : WellFormed[p.children[i]][col.children[i]][n]
      BY <2>2, StructWellFormed
    <3>2. \A i \in DOMAIN p.children : col.children[i] \in Columns[p.children[i]]
      BY <2>2, StructColumns
    <3>3. \A i \in DOMAIN p.children : Sound[p.children[i]][col.children[i]][n]
      BY <2>1, <3>1, <3>2 DEF HeldAsSound
    <3> QED
      BY <2>2, <3>1, <3>3, StructSound
  <2>3. CASE p.type = "List"
    <3> DEFINE m == Last(col.offsets)
    <3>1. /\ Len(col.validity) = n
          /\ Len(col.offsets) = n + 1
          /\ \A r \in 1 .. n + 1 : \A s \in r .. n + 1 : col.offsets[r] <= col.offsets[s]
          /\ WellFormed[p.children[1]][col.child][m]
      BY <2>3, ListWellFormed
    <3>2. col.child \in Columns[p.children[1]] /\ col.offsets \in Seq(Nat)
      <4>1. Columns[p] = [child : Columns[p.children[1]], offsets : Seq(Nat), validity : Seq(BOOLEAN)]
        BY <2>3, ListColumns
      <4> QED
        BY <4>1
    <3>3. m \in Nat
      BY <3>1, <3>2 DEF Last
    <3> HIDE DEF m
    <3>4. HeldAsSound(p.children[1])
      BY <2>1, <2>3, NodeFacts
    <3>5. m <= m /\ Sound[p.children[1]][col.child][m]
      BY <3>1, <3>2, <3>3, <3>4 DEF HeldAsSound
    <3>6. \E k \in Nat : Last(col.offsets) <= k /\ Sound[p.children[1]][col.child][k]
      BY <3>3, <3>5 DEF m
    <3> QED
      BY <2>3, <3>1, <3>6, ListSound
  <2>4. CASE p.type # "Struct" /\ p.type # "List"
    BY <2>4, LeafWellFormed, LeafSound
  <2> QED
    BY <2>2, <2>3, <2>4
<1> HIDE DEF G
<1>2. \A p \in Nodes : p \in G
  BY <1>1, ByDepth
<1> QED
  BY <1>2 DEF G

(* c holds rows lo + 1 .. lo + m of col.                                   *)
SlicedTo(p, col, c, lo, m) ==
    /\ c \in Columns[p]
    /\ Sound[p][c][m]
    /\ \A k \in 1 .. m : \A r \in Nat : r = lo + k => At[p][c][k] = At[p][col][r]

SliceKeeps(p) ==
    \A col \in Columns[p], lo \in Nat, hi \in Nat, n \in Nat, m \in Nat :
        Sound[p][col][n] /\ lo + m = hi /\ hi <= n => SlicedTo(p, col, Slice[p][col][lo][hi], lo, m)

(* The slice of a sequence.                                                *)
LEMMA Sub ==
    ASSUME NEW T, NEW s \in Seq(T), NEW lo \in Nat, NEW hi \in Nat, NEW m \in Nat,
           lo + m = hi, hi <= Len(s)
    PROVE  /\ SubSeq(s, lo + 1, hi) \in Seq(T)
           /\ Len(SubSeq(s, lo + 1, hi)) = m
           /\ \A k \in 1 .. m : \A r \in Nat : r = lo + k => SubSeq(s, lo + 1, hi)[k] = s[r]
<1>1. \A k \in lo + 1 .. hi : s[k] \in T
  OBVIOUS
<1>2. SubSeq(s, lo + 1, hi) \in Seq(T)
  OBVIOUS
<1>3. Len(SubSeq(s, lo + 1, hi)) = m
  OBVIOUS
<1>4. ASSUME NEW k \in 1 .. m, NEW r \in Nat, r = lo + k
      PROVE  SubSeq(s, lo + 1, hi)[k] = s[r]
  <2>1. (lo + 1) + k - 1 = r
    BY <1>4
  <2> QED
    BY <1>4, <2>1
<1> QED
  BY <1>2, <1>3, <1>4

(* Rows of a list.                                                         *)
LEMMA ListRow ==
    ASSUME NEW p \in Nodes, p.type = "List", NEW col \in Columns[p], NEW r \in Nat, col.validity[r] \in BOOLEAN
    PROVE  /\ ~col.validity[r] => At[p][col][r] = None
           /\ col.validity[r] =>
                 At[p][col][r] = Some([k \in 1 .. (col.offsets[r + 1] - col.offsets[r]) |->
                                          At[p.children[1]][col.child][col.offsets[r] + k]])
<1>1. At[p][col][r] = AtOne(At, p, col, r)
  BY AtUnfold
<1>2. Valid(p, col, r) = col.validity[r]
  BY DEF Valid
<1>3. CASE col.validity[r]
  BY <1>1, <1>2, <1>3 DEF AtOne
<1>4. CASE ~col.validity[r]
  BY <1>1, <1>2, <1>4 DEF AtOne
<1> QED
  BY <1>3, <1>4

(* A slice of a struct.                                                    *)
LEMMA StructSliced ==
    ASSUME NEW p \in Nodes, p.type = "Struct",
           \A i \in DOMAIN p.children : SliceKeeps(p.children[i])
    PROVE  SliceKeeps(p)
<1> SUFFICES ASSUME NEW col \in Columns[p], NEW lo \in Nat, NEW hi \in Nat, NEW n \in Nat, NEW m \in Nat,
                    Sound[p][col][n], lo + m = hi, hi <= n
             PROVE  SlicedTo(p, col, Slice[p][col][lo][hi], lo, m)
  BY DEF SliceKeeps
<1> DEFINE cs == [i \in DOMAIN p.children |-> Slice[p.children[i]][col.children[i]][lo][hi]]
           vs == SubSeq(col.validity, lo + 1, hi)
           c  == Slice[p][col][lo][hi]
<1>1. c = [children |-> cs, validity |-> vs]
  <2>1. c = SliceOne(Slice, p, col, lo, hi)
    BY SliceUnfold
  <2> QED
    BY <2>1, Zenon DEF SliceOne
<1>2. /\ col.validity \in Seq(BOOLEAN) /\ Len(col.validity) = n
      /\ \A i \in DOMAIN p.children : col.children[i] \in Columns[p.children[i]]
      /\ \A i \in DOMAIN p.children : Sound[p.children[i]][col.children[i]][n]
  BY StructColumns, StructSound
<1>3. /\ vs \in Seq(BOOLEAN) /\ Len(vs) = m
      /\ \A k \in 1 .. m : \A r \in Nat : r = lo + k => vs[k] = col.validity[r]
  <2>1. col.validity \in Seq(BOOLEAN) /\ hi <= Len(col.validity)
    BY <1>2
  <2> QED
    BY <2>1, Sub
<1>4. ASSUME NEW i \in DOMAIN p.children
      PROVE  SlicedTo(p.children[i], col.children[i], cs[i], lo, m)
  BY <1>2 DEF SliceKeeps
<1> HIDE DEF vs, c
<1>5. cs = [i \in DOMAIN p.children |-> cs[i]]
  OBVIOUS
<1> HIDE DEF cs
<1>6. c \in Columns[p]
  BY <1>1, <1>3, <1>4, <1>5, StructColumns DEF SlicedTo
<1>7. c.children = cs /\ c.validity = vs
  BY <1>1
<1>8. Sound[p][c][m]
  <2>1. \A i \in DOMAIN p.children : Sound[p.children[i]][c.children[i]][m]
    BY <1>4, <1>7 DEF SlicedTo
  <2> QED
    BY <1>3, <1>6, <1>7, <2>1, StructSound
<1>9. ASSUME NEW k \in 1 .. m, NEW r \in Nat, r = lo + k
      PROVE  At[p][c][k] = At[p][col][r]
  <2>1. /\ k \in Nat /\ r \in 1 .. n /\ c.validity[k] \in BOOLEAN /\ col.validity[r] \in BOOLEAN
        /\ c.validity[k] <=> col.validity[r]
    BY <1>2, <1>3, <1>7, <1>9
  <2>2. CASE ~c.validity[k]
    <3>1. At[p][c][k] = None /\ (NullsAllowed[p][c][k] <=> p.nullable)
      BY <1>6, <2>1, <2>2, StructRow
    <3>2. At[p][col][r] = None /\ (NullsAllowed[p][col][r] <=> p.nullable)
      BY <2>1, <2>2, StructRow, Zenon
    <3> QED
      BY <3>1, <3>2
  <2>3. CASE c.validity[k]
    <3>1. At[p][c][k] = Some([i \in DOMAIN p.children |-> At[p.children[i]][c.children[i]][k]])
      BY <1>6, <2>1, <2>3, StructRow
    <3>2. At[p][col][r] = Some([i \in DOMAIN p.children |-> At[p.children[i]][col.children[i]][r]])
      BY <2>1, <2>3, StructRow
    <3>3. \A i \in DOMAIN p.children : At[p.children[i]][c.children[i]][k] = At[p.children[i]][col.children[i]][r]
      BY <1>4, <1>7, <1>9 DEF SlicedTo
    <3>4. [i \in DOMAIN p.children |-> At[p.children[i]][c.children[i]][k]]
          = [i \in DOMAIN p.children |-> At[p.children[i]][col.children[i]][r]]
      BY <3>3, Zenon
    <3> QED
      BY <3>1, <3>2, <3>4, Zenon
  <2> QED
    BY <2>2, <2>3
<1> QED
  BY <1>6, <1>8, <1>9 DEF SlicedTo, c

(* A slice of a list keeps the column of the items, all of it.             *)
LEMMA ListSliced ==
    ASSUME NEW p \in Nodes, p.type = "List"
    PROVE  SliceKeeps(p)
<1> SUFFICES ASSUME NEW col \in Columns[p], NEW lo \in Nat, NEW hi \in Nat, NEW n \in Nat, NEW m \in Nat,
                    Sound[p][col][n], lo + m = hi, hi <= n
             PROVE  SlicedTo(p, col, Slice[p][col][lo][hi], lo, m)
  BY DEF SliceKeeps
<1> DEFINE os == SubSeq(col.offsets, lo + 1, hi + 1)
           vs == SubSeq(col.validity, lo + 1, hi)
           c  == Slice[p][col][lo][hi]
           q  == p.children[1]
<1>0. Columns[p] = [child : Columns[q], offsets : Seq(Nat), validity : Seq(BOOLEAN)]
  BY ListColumns
<1>1. c = [child |-> col.child, offsets |-> os, validity |-> vs]
  <2>1. c = SliceOne(Slice, p, col, lo, hi)
    BY SliceUnfold
  <2>2. c = [col EXCEPT !.offsets = SubSeq(@, lo + 1, hi + 1), !.validity = SubSeq(@, lo + 1, hi)]
    BY <2>1 DEF SliceOne
  <2> HIDE DEF c, q, os, vs
  <2>3. col = [child |-> col.child, offsets |-> col.offsets, validity |-> col.validity]
    BY <1>0
  <2>4. c = [child |-> col.child, offsets |-> SubSeq(col.offsets, lo + 1, hi + 1),
             validity |-> SubSeq(col.validity, lo + 1, hi)]
    BY <2>2, <2>3
  <2> QED
    BY <2>4 DEF os, vs
<1>2. col.child \in Columns[q] /\ col.offsets \in Seq(Nat) /\ col.validity \in Seq(BOOLEAN)
  BY <1>0
<1>3. /\ Len(col.validity) = n
      /\ Len(col.offsets) = n + 1
      /\ \A r \in 1 .. n + 1 : \A s \in r .. n + 1 : col.offsets[r] <= col.offsets[s]
  BY ListSound
<1>4. PICK x \in Nat : Last(col.offsets) <= x /\ Sound[q][col.child][x]
  BY ListSound
<1>5. /\ vs \in Seq(BOOLEAN) /\ Len(vs) = m
      /\ \A k \in 1 .. m : \A r \in Nat : r = lo + k => vs[k] = col.validity[r]
  BY <1>2, <1>3, Sub
<1>6. /\ os \in Seq(Nat) /\ Len(os) = m + 1
      /\ \A k \in 1 .. m + 1 : \A r \in Nat : r = lo + k => os[k] = col.offsets[r]
  <2>1. lo + (m + 1) = hi + 1 /\ hi + 1 <= Len(col.offsets) /\ m + 1 \in Nat /\ hi + 1 \in Nat
    BY <1>3
  <2> QED
    BY <1>2, <2>1, Sub
<1> HIDE DEF vs, os, c, q
<1>7. c \in Columns[p]
  BY <1>0, <1>1, <1>2, <1>5, <1>6
<1>8. c.child = col.child /\ c.offsets = os /\ c.validity = vs
  BY <1>1
<1>9. Sound[p][c][m]
  <2>1. ASSUME NEW r \in 1 .. m + 1, NEW s \in r .. m + 1 PROVE os[r] <= os[s]
    <3>1. s \in 1 .. m + 1 /\ lo + r \in 1 .. n + 1 /\ lo + s \in lo + r .. n + 1 /\ lo + r \in Nat /\ lo + s \in Nat
      OBVIOUS
    <3>2. os[r] = col.offsets[lo + r] /\ os[s] = col.offsets[lo + s]
      BY <1>6, <3>1
    <3> QED
      BY <1>3, <3>1, <3>2
  <2>2. Last(os) <= x
    <3>1. Last(os) = col.offsets[hi + 1]
      <4>1. hi + 1 = lo + (m + 1) /\ m + 1 \in 1 .. m + 1 /\ hi + 1 \in Nat
        OBVIOUS
      <4>2. os[m + 1] = col.offsets[hi + 1]
        BY <1>6, <4>1
      <4> QED
        BY <1>6, <4>2 DEF Last
    <3>2. Last(col.offsets) = col.offsets[n + 1]
      BY <1>3 DEF Last
    <3>3. hi + 1 \in 1 .. n + 1 /\ n + 1 \in hi + 1 .. n + 1
      OBVIOUS
    <3>4. col.offsets[hi + 1] <= col.offsets[n + 1]
      BY <1>3, <3>3
    <3>5. col.offsets[hi + 1] \in Nat /\ col.offsets[n + 1] \in Nat
      BY <1>2, <1>3, <3>3
    <3> QED
      BY <1>4, <3>1, <3>2, <3>4, <3>5
  <2>3. \E y \in Nat : Last(c.offsets) <= y /\ Sound[q][c.child][y]
    BY <1>4, <1>8, <2>2
  <2>4. /\ Len(c.validity) = m /\ Len(c.offsets) = m + 1
        /\ \A r \in 1 .. m + 1 : \A s \in r .. m + 1 : c.offsets[r] <= c.offsets[s]
    BY <1>5, <1>6, <1>8, <2>1
  <2> QED
    BY <1>7, <2>3, <2>4, ListSound DEF q
<1>10. ASSUME NEW k \in 1 .. m, NEW r \in Nat, r = lo + k
       PROVE  At[p][c][k] = At[p][col][r]
  <2>1. /\ k \in Nat /\ r \in 1 .. n /\ c.validity[k] \in BOOLEAN /\ col.validity[r] \in BOOLEAN
        /\ c.validity[k] <=> col.validity[r]
    BY <1>2, <1>3, <1>5, <1>8, <1>10
  <2>2. os[k] = col.offsets[r] /\ os[k + 1] = col.offsets[r + 1]
    <3>1. k \in 1 .. m + 1 /\ k + 1 \in 1 .. m + 1 /\ r + 1 = lo + (k + 1) /\ r + 1 \in Nat
      BY <1>10
    <3> QED
      BY <1>6, <1>10, <3>1
  <2>3. CASE ~c.validity[k]
    <3>1. At[p][c][k] = None
      BY <1>7, <2>1, <2>3, ListRow
    <3>2. At[p][col][r] = None
      BY <2>1, <2>3, ListRow
    <3> QED
      BY <3>1, <3>2
  <2>4. CASE c.validity[k]
    <3>1. At[p][c][k] = Some([j \in 1 .. (c.offsets[k + 1] - c.offsets[k]) |-> At[q][c.child][c.offsets[k] + j]])
      BY <1>7, <2>1, <2>4, ListRow DEF q
    <3>2. At[p][col][r] = Some([j \in 1 .. (col.offsets[r + 1] - col.offsets[r]) |->
                                    At[q][col.child][col.offsets[r] + j]])
      BY <2>1, <2>4, ListRow DEF q
    <3> QED
      BY <1>8, <2>2, <3>1, <3>2
  <2> QED
    BY <2>3, <2>4
<1> QED
  BY <1>7, <1>9, <1>10 DEF SlicedTo, c

(* A slice of a leaf.                                                      *)
LEMMA LeafSliced ==
    ASSUME NEW p \in Nodes, p.type # "Struct", p.type # "List"
    PROVE  SliceKeeps(p)
<1> SUFFICES ASSUME NEW col \in Columns[p], NEW lo \in Nat, NEW hi \in Nat, NEW n \in Nat, NEW m \in Nat,
                    Sound[p][col][n], lo + m = hi, hi <= n
             PROVE  SlicedTo(p, col, Slice[p][col][lo][hi], lo, m)
  BY DEF SliceKeeps
<1> DEFINE xs == SubSeq(col.values, lo + 1, hi)
           c  == Slice[p][col][lo][hi]
<1>0. Columns[p] = [values : Seq(Slots)]
  BY LeafColumns
<1>1. c = [values |-> xs]
  <2>1. c = SliceOne(Slice, p, col, lo, hi)
    BY SliceUnfold
  <2> QED
    BY <2>1, Zenon DEF SliceOne
<1>2. col.values \in Seq(Slots)
  BY <1>0
<1>3. Len(col.values) = n
  BY LeafSound
<1>4. /\ xs \in Seq(Slots) /\ Len(xs) = m
      /\ \A k \in 1 .. m : \A r \in Nat : r = lo + k => xs[k] = col.values[r]
  BY <1>2, <1>3, Sub
<1> HIDE DEF xs, c
<1>5. c \in Columns[p] /\ c.values = xs
  BY <1>0, <1>1, <1>4
<1>6. Sound[p][c][m]
  BY <1>4, <1>5, LeafSound
<1>7. ASSUME NEW k \in 1 .. m, NEW r \in Nat, r = lo + k
      PROVE  At[p][c][k] = At[p][col][r]
  BY <1>4, <1>5, <1>7, LeafRow
<1> QED
  BY <1>5, <1>6, <1>7 DEF SlicedTo, c

(* The series of some rows of a column holds these rows.                   *)
LEMMA Sliced == \A p \in Nodes : SliceKeeps(p)
<1> DEFINE G == {p \in Nodes : SliceKeeps(p)}
<1>1. ASSUME NEW p \in Nodes, \A y \in Nodes : Depth(y) < Depth(p) => y \in G
      PROVE  p \in G
  <2>1. \A i \in DOMAIN p.children : SliceKeeps(p.children[i])
    BY <1>1, NodeFacts
  <2> QED
    BY <2>1, StructSliced, ListSliced, LeafSliced
<1> HIDE DEF G
<1>2. \A p \in Nodes : p \in G
  BY <1>1, ByDepth
<1> QED
  BY <1>2 DEF G

----------------------------------------------------------------------------
(* Rows that say what values do.                                           *)

(* A column that holds n rows has n rows.                                  *)
LEMMA SoundHeight ==
    ASSUME NEW p \in Nodes, NEW col \in Columns[p], NEW n \in Nat, Sound[p][col][n]
    PROVE  AllRows(p, col) = 1 .. n
<1>1. CASE p.type = "Struct"
  BY <1>1, StructSound DEF AllRows, Height
<1>2. CASE p.type = "List"
  BY <1>2, ListSound DEF AllRows, Height
<1>3. CASE p.type # "Struct" /\ p.type # "List"
  BY <1>3, LeafSound DEF AllRows, Height
<1> QED
  BY <1>1, <1>2, <1>3

(* d holds the items of row r of a column of lists, k of them.             *)
Items(p, col, r, d, k) ==
    /\ k \in Nat /\ k = col.offsets[r + 1] - col.offsets[r]
    /\ d \in Columns[p.children[1]]
    /\ Sound[p.children[1]][d][k]
    /\ AllRows(p.children[1], d) = 1 .. k
    /\ \A j \in 1 .. k : At[p.children[1]][d][j] = At[p.children[1]][col.child][col.offsets[r] + j]

(* The series of one list holds its items.                                 *)
LEMMA InnerRows ==
    ASSUME NEW p \in Nodes, p.type = "List", NEW col \in Columns[p], NEW n \in Nat, Sound[p][col][n],
           NEW r \in 1 .. n
    PROVE  \E k : Items(p, col, r, Inner(p, col, r), k)
<1> DEFINE q  == p.children[1]
           lo == col.offsets[r]
           hi == col.offsets[r + 1]
           k  == hi - lo
           d  == Inner(p, col, r)
<1>1. q \in Nodes
  BY ListColumns
<1>2. col.child \in Columns[q] /\ col.offsets \in Seq(Nat)
  <2>1. Columns[p] = [child : Columns[q], offsets : Seq(Nat), validity : Seq(BOOLEAN)]
    BY ListColumns
  <2> QED
    BY <2>1
<1>3. /\ Len(col.offsets) = n + 1
      /\ \A x \in 1 .. n + 1 : \A y \in x .. n + 1 : col.offsets[x] <= col.offsets[y]
  BY ListSound
<1>4. PICK m \in Nat : Last(col.offsets) <= m /\ Sound[q][col.child][m]
  BY ListSound
<1>5. lo \in Nat /\ hi \in Nat /\ lo <= hi /\ hi <= m
  <2>1. r \in 1 .. n + 1 /\ r + 1 \in r .. n + 1 /\ r + 1 \in 1 .. n + 1 /\ n + 1 \in r + 1 .. n + 1
    OBVIOUS
  <2>2. lo \in Nat /\ hi \in Nat /\ col.offsets[n + 1] \in Nat
    <3>1. DOMAIN col.offsets = 1 .. n + 1 /\ \A x \in DOMAIN col.offsets : col.offsets[x] \in Nat
      BY <1>2, <1>3
    <3> QED
      BY <2>1, <3>1
  <2>3. lo <= hi /\ hi <= col.offsets[n + 1]
    BY <1>3, <2>1
  <2>4. Last(col.offsets) = col.offsets[n + 1]
    BY <1>3 DEF Last
  <2> QED
    BY <1>4, <2>2, <2>3, <2>4
<1>6. d = Slice[q][col.child][lo][hi]
  BY DEF Inner
<1> HIDE DEF lo, hi, d, q
<1>7. k \in Nat /\ lo + k = hi
  BY <1>5
<1>8. SliceKeeps(q)
  BY <1>1, Sliced
<1> HIDE DEF k
<1>9. SlicedTo(q, col.child, d, lo, k)
  BY <1>2, <1>4, <1>5, <1>6, <1>7, <1>8 DEF SliceKeeps
<1>10. d \in Columns[q] /\ Sound[q][d][k]
  BY <1>9 DEF SlicedTo
<1>11. AllRows(q, d) = 1 .. k
  BY <1>1, <1>7, <1>10, SoundHeight
<1>12. ASSUME NEW j \in 1 .. k PROVE At[q][d][j] = At[q][col.child][lo + j]
  <2>1. lo + j \in Nat
    BY <1>5, <1>7
  <2> QED
    BY <1>9, <2>1 DEF SlicedTo
<1> QED
  BY <1>7, <1>10, <1>11, <1>12 DEF Items, q, lo, hi, k, d

(* Row r of a column says what v does.                                     *)
Says(p, col, r, v) == v \in Bson[p] /\ Fault[p][v] = None /\ At[p][col][r] = Row[p][v]

(* What says a null.                                                       *)
LEMMA NullSaid ==
    ASSUME NEW p \in Nodes, NEW col \in Columns[p], NEW r \in Nat, NEW v, Says(p, col, r, v)
    PROVE  /\ IsNull(v) <=> ~Valid(p, col, r)
           /\ IsNull(v) => p.nullable
<1>1. At[p][col][r] = AtOne(At, p, col, r) /\ Row[p][v] = RowOne(Row, p, v)
      /\ At[p][col][r] = Row[p][v] /\ v \in Bson[p] /\ Fault[p][v] = None
  BY AtUnfold, RowUnfold DEF Says
<1>2. IsNull(v) => p.nullable
  BY <1>1, Accepted
<1>3. RowOne(Row, p, v) = None <=> IsNull(v)
  BY SomeIsNotNone DEF RowOne
<1>4. AtOne(At, p, col, r) = None <=> ~Valid(p, col, r)
  <2>1. CASE p.type = "Struct" \/ p.type = "List"
    BY <2>1, SomeIsNotNone DEF AtOne
  <2>2. CASE p.type # "Struct" /\ p.type # "List"
    BY <2>2 DEF AtOne, Valid
  <2> QED
    BY <2>1, <2>2
<1> QED
  BY <1>1, <1>2, <1>3, <1>4

(* Some(x) is one thing.                                                   *)
LEMMA SomeIsOne == \A x, y : Some(x) = Some(y) => x = y
  BY DEF Some

(* What says a document: its fields say what is in the children.           *)
LEMMA StructSaid ==
    ASSUME NEW p \in Nodes, p.type = "Struct", NEW col \in Columns[p], NEW r \in Nat, NEW v,
           Says(p, col, r, v), Valid(p, col, r)
    PROVE  /\ v.tag = "EmbeddedDocument" /\ ~IsNull(v)
           /\ \A i \in DOMAIN p.children :
                 Says(p.children[i], col.children[i], r, FieldOf(v, p.children[i]))
<1>1. At[p][col][r] = AtOne(At, p, col, r) /\ Row[p][v] = RowOne(Row, p, v)
      /\ At[p][col][r] = Row[p][v] /\ v \in Bson[p] /\ Fault[p][v] = None
  BY AtUnfold, RowUnfold DEF Says
<1>2. ~IsNull(v)
  BY NullSaid
<1> DEFINE F == [i \in DOMAIN p.children |-> At[p.children[i]][col.children[i]][r]]
           H == [i \in DOMAIN p.children |-> Row[p.children[i]][FieldOf(v, p.children[i])]]
<1>3. AtOne(At, p, col, r) = Some(F)
  BY DEF AtOne
<1>4. RowOne(Row, p, v) = Some(H)
  BY <1>2 DEF RowOne
<1>5. F = H
  <2> HIDE DEF F, H
  <2> QED
    BY <1>1, <1>3, <1>4, SomeIsOne
<1>6. \A i \in DOMAIN p.children :
          At[p.children[i]][col.children[i]][r] = Row[p.children[i]][FieldOf(v, p.children[i])]
  <2>1. \A i \in DOMAIN p.children : F[i] = H[i]
    BY <1>5, Zenon
  <2> QED
    BY <2>1
<1>7. v.tag = "EmbeddedDocument"
      /\ \A i \in DOMAIN p.children : /\ FieldOf(v, p.children[i]) \in Bson[p.children[i]]
                                      /\ Fault[p.children[i]][FieldOf(v, p.children[i])] = None
  BY <1>1, <1>2, Accepted
<1> QED
  BY <1>2, <1>6, <1>7 DEF Says

(* What says an array: its items say what is in the series of the list.    *)
LEMMA ListSaid ==
    ASSUME NEW p \in Nodes, p.type = "List", NEW col \in Columns[p], NEW n \in Nat, Sound[p][col][n],
           NEW r \in 1 .. n, NEW v, Says(p, col, r, v), Valid(p, col, r), NEW k, NEW d,
           Items(p, col, r, d, k)
    PROVE  /\ v.tag = "Array" /\ ~IsNull(v) /\ v.items \in Seq(Bson[p.children[1]]) /\ Len(v.items) = k
           /\ \A j \in 1 .. k : Says(p.children[1], d, j, v.items[j])
<1>0. r \in Nat
  OBVIOUS
<1>1. At[p][col][r] = AtOne(At, p, col, r) /\ Row[p][v] = RowOne(Row, p, v)
      /\ At[p][col][r] = Row[p][v] /\ v \in Bson[p] /\ Fault[p][v] = None
  BY <1>0, AtUnfold, RowUnfold DEF Says
<1>2. ~IsNull(v)
  BY <1>0, NullSaid
<1> DEFINE q == p.children[1]
           F == [j \in 1 .. k |-> At[q][col.child][col.offsets[r] + j]]
           H == [j \in DOMAIN v.items |-> Row[q][v.items[j]]]
<1>3. AtOne(At, p, col, r) = Some(F)
  BY DEF AtOne, Items
<1>4. RowOne(Row, p, v) = Some(H)
  BY <1>2 DEF RowOne
<1>5. F = H
  <2> HIDE DEF F, H
  <2> QED
    BY <1>1, <1>3, <1>4, SomeIsOne
<1>6. v.tag = "Array" /\ v.items \in Seq(Bson[q])
      /\ \A j \in DOMAIN v.items : Fault[q][v.items[j]] = None
  BY <1>1, <1>2, Accepted
<1>7. DOMAIN v.items = 1 .. k
  <2>1. DOMAIN F = DOMAIN H
    BY <1>5, Zenon
  <2> QED
    BY <2>1
<1>8. k \in Nat /\ \A j \in 1 .. k : At[q][d][j] = At[q][col.child][col.offsets[r] + j]
  BY DEF Items
<1>9. Len(v.items) = k
  BY <1>6, <1>7, <1>8
<1>10. ASSUME NEW j \in 1 .. k PROVE Says(q, d, j, v.items[j])
  <2>1. F[j] = H[j]
    BY <1>5, Zenon
  <2>2. F[j] = At[q][d][j]
    BY <1>8
  <2>3. H[j] = Row[q][v.items[j]]
    BY <1>7
  <2>4. Fault[q][v.items[j]] = None
    BY <1>6, <1>7
  <2>5. v.items[j] \in Bson[q]
    <3> HIDE DEF q
    <3>1. v.items \in Seq(Bson[q]) /\ j \in 1 .. Len(v.items)
      BY <1>6, <1>9
    <3> QED
      BY <3>1
  <2> HIDE DEF F, H
  <2> QED
    BY <2>1, <2>2, <2>3, <2>4, <2>5 DEF Says
<1> QED
  BY <1>2, <1>6, <1>9, <1>10

(* What says a scalar.                                                     *)
LEMMA LeafSaid ==
    ASSUME NEW p \in Nodes, p.type # "Struct", p.type # "List", NEW col \in Columns[p], NEW r \in Nat, NEW v,
           Says(p, col, r, v), Valid(p, col, r)
    PROVE  /\ ~IsNull(v) /\ col.values[r][1] = LeafValue(v)
           /\ p.type \in DOMAIN Leaves /\ v.tag \in Leaves[p.type]
<1>1. At[p][col][r] = col.values[r] /\ Row[p][v] = RowOne(Row, p, v)
      /\ At[p][col][r] = Row[p][v] /\ v \in Bson[p] /\ Fault[p][v] = None
  BY LeafRow, RowUnfold DEF Says
<1>2. ~IsNull(v)
  BY NullSaid
<1>3. Row[p][v] = Some(LeafValue(v))
  BY <1>1, <1>2 DEF RowOne
<1>4. col.values[r][1] = LeafValue(v)
  BY <1>1, <1>3 DEF Some
<1> QED
  BY <1>1, <1>2, <1>4, Accepted

----------------------------------------------------------------------------
(* What encode_column_where rejects.                                       *)

(* The active rows of a column of n say what the values vs do.             *)
AllSaid(p, col, n, active, vs) == \A r \in active \cap (1 .. n) : Says(p, col, r, vs[r])

(* What cannot be written is inside a value, and that is all that cannot.  *)
FindsFault(p) ==
    \A col \in Columns[p], n \in Nat, active \in SUBSET Nat : \A vs :
        Sound[p][col][n] /\ AllSaid(p, col, n, active, vs) /\ EncodeFault[p][col][active] # None
        => \E r \in active \cap (1 .. n) : HasUnwritable[p][vs[r]]

(* A null that is said is one that may be.                                 *)
LEMMA NoBadNull ==
    ASSUME NEW p \in Nodes, NEW col \in Columns[p], NEW n \in Nat, NEW active \in SUBSET Nat, NEW vs,
           AllSaid(p, col, n, active, vs), NEW r \in 1 .. n
    PROVE  ~BadNull(p, col, active, r)
<1> SUFFICES ASSUME r \in active, ~Valid(p, col, r), ~p.nullable PROVE FALSE
  BY DEF BadNull
<1>1. Says(p, col, r, vs[r]) /\ r \in Nat
  BY DEF AllSaid
<1> QED
  BY <1>1, NullSaid

(* Where the error of a column comes from when the nulls are all right: of *)
(* a leaf, from a row with a value that cannot be written.                 *)
LEMMA LeafFault ==
    ASSUME NEW p \in Nodes, p.type # "Struct", p.type # "List",
           NEW col \in Columns[p], NEW n \in Nat, NEW active \in SUBSET Nat, NEW vs,
           Sound[p][col][n], AllSaid(p, col, n, active, vs), EncodeFault[p][col][active] # None
    PROVE  \E r \in active \cap (1 .. n) : /\ EncodeFault[p][col][active] = Some(AtRow(p, r))
                                           /\ Valid(p, col, r) /\ Unwritable(p, col.values[r][1])
<1> DEFINE results == [row \in AllRows(p, col) |->
                          IF BadNull(p, col, active, row) \/ BadValue(p, col, active, row)
                          THEN Some(AtRow(p, row)) ELSE None]
<1>1. EncodeFault[p][col][active] = FirstOf(results)
  <2>1. EncodeFault[p][col][active] = EncodeFaultOne(EncodeFault, p, col, active)
    BY EncodeFaultUnfold
  <2> QED
    BY <2>1 DEF EncodeFaultOne
<1>2. DOMAIN results = 1 .. n
  BY SoundHeight
<1> HIDE DEF results
<1>3. PICK r \in 1 .. n : results[r] # None /\ FirstOf(results) = results[r]
  BY <1>1, <1>2, FirstError
<1>4. /\ BadNull(p, col, active, r) \/ BadValue(p, col, active, r)
      /\ results[r] = Some(AtRow(p, r))
  BY <1>2, <1>3 DEF results
<1>5. BadValue(p, col, active, r)
  BY <1>4, NoBadNull
<1>6. r \in active /\ Valid(p, col, r) /\ Unwritable(p, col.values[r][1])
  BY <1>5 DEF BadValue
<1> QED
  BY <1>1, <1>3, <1>4, <1>6

(* Of a struct, from a child.                                              *)
LEMMA StructFault ==
    ASSUME NEW p \in Nodes, p.type = "Struct",
           NEW col \in Columns[p], NEW n \in Nat, NEW active \in SUBSET Nat, NEW vs,
           Sound[p][col][n], AllSaid(p, col, n, active, vs), EncodeFault[p][col][active] # None
    PROVE  \E i \in DOMAIN p.children :
              EncodeFault[p][col][active]
              = EncodeFault[p.children[i]][col.children[i]][ChildActive(p, col, active)]
<1> DEFINE inside == [i \in DOMAIN p.children |->
                         EncodeFault[p.children[i]][col.children[i]][ChildActive(p, col, active)]]
           own    == [row \in AllRows(p, col) |->
                         IF BadNull(p, col, active, row) THEN Some(AtRow(p, row)) ELSE None]
           m      == Len(p.children)
           all    == inside \o <<FirstOf(own)>>
<1>1. EncodeFault[p][col][active] = FirstOf(all)
  <2>1. EncodeFault[p][col][active] = EncodeFaultOne(EncodeFault, p, col, active)
    BY EncodeFaultUnfold
  <2> QED
    BY <2>1 DEF EncodeFaultOne
<1>2. FirstOf(own) = None
  <2>1. DOMAIN own = 1 .. n
    BY SoundHeight
  <2>2. \A r \in 1 .. n : own[r] = None
    BY <2>1, NoBadNull
  <2> HIDE DEF own
  <2> QED
    BY <2>1, <2>2, FirstError
<1>3. m \in Nat /\ DOMAIN p.children = 1 .. m
  BY NodeFacts
<1>4. DOMAIN all = 1 .. m + 1 /\ all[m + 1] = FirstOf(own) /\ \A i \in 1 .. m : all[i] = inside[i]
  <2> HIDE DEF own
  <2>1. inside = [i \in 1 .. m |-> inside[i]] /\ Len(inside) = m /\ DOMAIN inside = 1 .. m
    BY <1>3
  <2> HIDE DEF inside, m
  <2>2. inside \o <<FirstOf(own)>> = [i \in 1 .. m + 1 |-> IF i <= m THEN inside[i] ELSE <<FirstOf(own)>>[i - m]]
    BY <1>3, <2>1
  <2>3. all = [i \in 1 .. m + 1 |-> IF i <= m THEN inside[i] ELSE <<FirstOf(own)>>[i - m]]
    BY <2>2
  <2> HIDE DEF all
  <2> QED
    BY <1>3, <2>3
<1> HIDE DEF all, own, inside, m
<1>5. PICK i \in 1 .. m + 1 : all[i] # None /\ FirstOf(all) = all[i]
  <2>1. m + 1 \in Nat
    BY <1>3
  <2> QED
    BY <1>1, <1>4, <2>1, FirstError
<1>6. i \in 1 .. m /\ FirstOf(all) = inside[i]
  BY <1>2, <1>3, <1>4, <1>5
<1>7. i \in DOMAIN p.children
      /\ FirstOf(all) = EncodeFault[p.children[i]][col.children[i]][ChildActive(p, col, active)]
  BY <1>3, <1>6 DEF inside
<1> QED
  BY <1>1, <1>7

(* Of a list, from the items of a row.                                     *)
LEMMA ListFault ==
    ASSUME NEW p \in Nodes, p.type = "List",
           NEW col \in Columns[p], NEW n \in Nat, NEW active \in SUBSET Nat, NEW vs,
           Sound[p][col][n], AllSaid(p, col, n, active, vs), EncodeFault[p][col][active] # None
    PROVE  \E r \in active \cap (1 .. n) :
              /\ Valid(p, col, r)
              /\ EncodeFault[p][col][active]
                 = EncodeFault[p.children[1]][Inner(p, col, r)][AllRows(p.children[1], Inner(p, col, r))]
<1> DEFINE q       == p.children[1]
           results == [row \in AllRows(p, col) |->
                          IF row \in active /\ Valid(p, col, row)
                          THEN EncodeFault[q][Inner(p, col, row)][AllRows(q, Inner(p, col, row))]
                          ELSE IF BadNull(p, col, active, row) THEN Some(AtRow(p, row)) ELSE None]
<1>1. EncodeFault[p][col][active] = FirstOf(results)
  <2>1. EncodeFault[p][col][active] = EncodeFaultOne(EncodeFault, p, col, active)
    BY EncodeFaultUnfold
  <2>2. p.type # "Struct"
    OBVIOUS
  <2> QED
    BY <2>1, <2>2 DEF EncodeFaultOne
<1>2. DOMAIN results = 1 .. n
  BY SoundHeight
<1> HIDE DEF results
<1>3. PICK r \in 1 .. n : results[r] # None /\ FirstOf(results) = results[r]
  BY <1>1, <1>2, FirstError
<1>4. ~BadNull(p, col, active, r)
  BY NoBadNull
<1>5. r \in active /\ Valid(p, col, r) /\ results[r] = EncodeFault[q][Inner(p, col, r)][AllRows(q, Inner(p, col, r))]
  BY <1>2, <1>3, <1>4 DEF results
<1> QED
  BY <1>1, <1>3, <1>5

(* A leaf.                                                                 *)
LEMMA LeafFindsFault ==
    ASSUME NEW p \in Nodes, p.type # "Struct", p.type # "List"
    PROVE  FindsFault(p)
<1> SUFFICES ASSUME NEW col \in Columns[p], NEW n \in Nat, NEW active \in SUBSET Nat, NEW vs,
                    Sound[p][col][n], AllSaid(p, col, n, active, vs), EncodeFault[p][col][active] # None
             PROVE  \E r \in active \cap (1 .. n) : HasUnwritable[p][vs[r]]
  BY DEF FindsFault
<1>1. PICK r \in active \cap (1 .. n) : Valid(p, col, r) /\ Unwritable(p, col.values[r][1])
  BY LeafFault
<1>2. Says(p, col, r, vs[r]) /\ r \in Nat
  BY DEF AllSaid
<1>3. ~IsNull(vs[r]) /\ col.values[r][1] = LeafValue(vs[r])
  BY <1>1, <1>2, LeafSaid
<1>4. HasUnwritable[p][vs[r]] = HasUnwritableOne(HasUnwritable, p, vs[r])
  BY <1>2, HasUnwritableUnfold DEF Says
<1>5. HasUnwritable[p][vs[r]]
  BY <1>1, <1>3, <1>4 DEF HasUnwritableOne
<1> QED
  BY <1>5

(* The children of a struct say what the fields do, of the rows that are   *)
(* valid.                                                                  *)
LEMMA ChildrenSaid ==
    ASSUME NEW p \in Nodes, p.type = "Struct", NEW col \in Columns[p], NEW n \in Nat, Sound[p][col][n],
           NEW active \in SUBSET Nat, NEW vs, AllSaid(p, col, n, active, vs), NEW i \in DOMAIN p.children,
           NEW ws, \A r \in Nat : ws[r] = FieldOf(vs[r], p.children[i])
    PROVE  /\ p.children[i] \in Nodes /\ col.children[i] \in Columns[p.children[i]]
           /\ Sound[p.children[i]][col.children[i]][n]
           /\ ChildActive(p, col, active) \in SUBSET Nat
           /\ AllSaid(p.children[i], col.children[i], n, ChildActive(p, col, active), ws)
<1>1. p.children[i] \in Nodes /\ col.children[i] \in Columns[p.children[i]] /\ Sound[p.children[i]][col.children[i]][n]
  BY NodeFacts, StructColumns, StructSound
<1>2. ChildActive(p, col, active) \in SUBSET Nat
  BY DEF ChildActive
<1>3. ASSUME NEW r \in ChildActive(p, col, active) \cap (1 .. n)
      PROVE  Says(p.children[i], col.children[i], r, ws[r])
  <2>1. r \in active /\ r \in 1 .. n /\ r \in Nat /\ col.validity[r]
    BY DEF ChildActive
  <2>2. Valid(p, col, r)
    BY <2>1 DEF Valid
  <2>3. Says(p, col, r, vs[r])
    BY <2>1 DEF AllSaid
  <2>4. Says(p.children[i], col.children[i], r, FieldOf(vs[r], p.children[i]))
    BY <2>1, <2>2, <2>3, StructSaid
  <2> QED
    BY <2>1, <2>4
<1>4. AllSaid(p.children[i], col.children[i], n, ChildActive(p, col, active), ws)
  BY <1>3 DEF AllSaid
<1> QED
  BY <1>1, <1>2, <1>4

(* A struct.                                                               *)
LEMMA StructFindsFault ==
    ASSUME NEW p \in Nodes, p.type = "Struct", \A i \in DOMAIN p.children : FindsFault(p.children[i])
    PROVE  FindsFault(p)
<1> SUFFICES ASSUME NEW col \in Columns[p], NEW n \in Nat, NEW active \in SUBSET Nat, NEW vs,
                    Sound[p][col][n], AllSaid(p, col, n, active, vs), EncodeFault[p][col][active] # None
             PROVE  \E r \in active \cap (1 .. n) : HasUnwritable[p][vs[r]]
  BY DEF FindsFault
<1>1. PICK i \in DOMAIN p.children :
         EncodeFault[p.children[i]][col.children[i]][ChildActive(p, col, active)] # None
  BY StructFault
<1> DEFINE ws == [r \in Nat |-> FieldOf(vs[r], p.children[i])]
<1>2. \A r \in Nat : ws[r] = FieldOf(vs[r], p.children[i])
  OBVIOUS
<1> HIDE DEF ws
<1>3. /\ p.children[i] \in Nodes /\ col.children[i] \in Columns[p.children[i]]
      /\ Sound[p.children[i]][col.children[i]][n]
      /\ ChildActive(p, col, active) \in SUBSET Nat
      /\ AllSaid(p.children[i], col.children[i], n, ChildActive(p, col, active), ws)
  BY <1>1, <1>2, ChildrenSaid
<1>4. FindsFault(p.children[i])
  BY <1>1
<1>5. PICK r \in ChildActive(p, col, active) \cap (1 .. n) : HasUnwritable[p.children[i]][ws[r]]
  BY <1>1, <1>3, <1>4 DEF FindsFault
<1>6. r \in active \cap (1 .. n) /\ r \in Nat /\ Valid(p, col, r) /\ Says(p, col, r, vs[r])
  <2>1. r \in active /\ r \in 1 .. n /\ r \in Nat /\ col.validity[r]
    BY DEF ChildActive
  <2> QED
    BY <2>1 DEF Valid, AllSaid
<1>7. ~IsNull(vs[r])
  BY <1>6, StructSaid
<1>8. HasUnwritable[p][vs[r]] = HasUnwritableOne(HasUnwritable, p, vs[r])
  BY <1>6, HasUnwritableUnfold DEF Says
<1>9. HasUnwritable[p.children[i]][FieldOf(vs[r], p.children[i])]
  BY <1>2, <1>5, <1>6
<1>10. HasUnwritable[p][vs[r]]
  BY <1>1, <1>7, <1>8, <1>9 DEF HasUnwritableOne
<1> QED
  BY <1>6, <1>10

(* A list.                                                                 *)
LEMMA ListFindsFault ==
    ASSUME NEW p \in Nodes, p.type = "List", FindsFault(p.children[1])
    PROVE  FindsFault(p)
<1> SUFFICES ASSUME NEW col \in Columns[p], NEW n \in Nat, NEW active \in SUBSET Nat, NEW vs,
                    Sound[p][col][n], AllSaid(p, col, n, active, vs), EncodeFault[p][col][active] # None
             PROVE  \E r \in active \cap (1 .. n) : HasUnwritable[p][vs[r]]
  BY DEF FindsFault
<1> DEFINE q == p.children[1]
<1>1. PICK r \in active \cap (1 .. n) :
         /\ Valid(p, col, r)
         /\ EncodeFault[q][Inner(p, col, r)][AllRows(q, Inner(p, col, r))] # None
  BY ListFault
<1> DEFINE d == Inner(p, col, r)
           items == vs[r].items
<1>2. r \in active /\ r \in Nat /\ r \in 1 .. n /\ Valid(p, col, r) /\ EncodeFault[q][d][AllRows(q, d)] # None
  BY <1>1
<1>3. Says(p, col, r, vs[r])
  BY <1>2 DEF AllSaid
<1>4. PICK k : Items(p, col, r, d, k)
  BY InnerRows
<1> HIDE DEF d
<1>5. /\ ~IsNull(vs[r]) /\ items \in Seq(Bson[q]) /\ Len(items) = k
      /\ \A j \in 1 .. k : Says(q, d, j, items[j])
  BY <1>2, <1>3, <1>4, ListSaid
<1>6. k \in Nat /\ d \in Columns[q] /\ Sound[q][d][k] /\ AllRows(q, d) = 1 .. k /\ 1 .. k \in SUBSET Nat
  BY <1>4 DEF Items
<1> HIDE DEF items, q
<1>7. AllSaid(q, d, k, 1 .. k, items)
  BY <1>5 DEF AllSaid
<1>8. FindsFault(q)
  BY DEF q
<1>9. PICK j \in (1 .. k) \cap (1 .. k) : HasUnwritable[q][items[j]]
  BY <1>2, <1>6, <1>7, <1>8 DEF FindsFault
<1>10. j \in DOMAIN items
  BY <1>5, <1>6
<1>11. HasUnwritable[p][vs[r]] = HasUnwritableOne(HasUnwritable, p, vs[r])
  BY <1>3, HasUnwritableUnfold DEF Says
<1>12. HasUnwritable[p][vs[r]]
  <2>1. p.type # "Struct"
    OBVIOUS
  <2> QED
    BY <1>5, <1>9, <1>10, <1>11, <2>1 DEF HasUnwritableOne, items, q
<1> QED
  BY <1>2, <1>12

(* encode_column_where rejects a column only for a value that was pushed.  *)
LEMMA FaultFound == \A p \in Nodes : FindsFault(p)
<1> DEFINE G == {p \in Nodes : FindsFault(p)}
<1>1. ASSUME NEW p \in Nodes, \A y \in Nodes : Depth(y) < Depth(p) => y \in G
      PROVE  p \in G
  <2>1. \A i \in DOMAIN p.children : FindsFault(p.children[i])
    BY <1>1, NodeFacts
  <2>2. p.type = "List" => FindsFault(p.children[1])
    BY <2>1, NodeFacts
  <2> QED
    BY <2>1, <2>2, StructFindsFault, ListFindsFault, LeafFindsFault
<1> HIDE DEF G
<1>2. \A p \in Nodes : p \in G
  BY <1>1, ByDepth
<1> QED
  BY <1>2 DEF G

----------------------------------------------------------------------------
(* What it writes.                                                         *)

(* w can be read again, and says what v does.                              *)
ReadsBack(p, v, w) == w \in Bson[p] /\ Fault[p][w] = None /\ SaysWhat[p][v][w]

WritesBack(p) ==
    \A col \in Columns[p], n \in Nat, active \in SUBSET Nat : \A vs :
        Sound[p][col][n] /\ AllSaid(p, col, n, active, vs) /\ EncodeFault[p][col][active] = None
        => \A r \in active \cap (1 .. n) : ReadsBack(p, vs[r], Encode[p][col][active][r])

(* Null says a null.                                                       *)
LEMMA NullReadsBack ==
    ASSUME NEW p \in Nodes, p.nullable, NEW v \in Bson[p], IsNull(v)
    PROVE  ReadsBack(p, v, NullValue)
<1>1. NullValue \in [tag : NullTags \cup OtherTags] /\ IsNull(NullValue)
  BY DEF NullValue, NullTags, IsNull
<1>2. NullValue \in Bson[p]
  <2>1. Bson[p] = BsonBody(Bson, p)
    BY BsonUnfold
  <2> QED
    BY <1>1, <2>1, Zenon DEF BsonBody
<1>3. Fault[p][NullValue] = None
  BY <1>1, <1>2, FaultCases DEF NullFault
<1>4. SaysWhat[p][v][NullValue]
  <2>1. SaysWhat[p][v][NullValue] = SaysWhatOne(SaysWhat, p, v, NullValue)
    BY <1>2, SaysWhatUnfold
  <2> QED
    BY <1>1, <2>1 DEF SaysWhatOne
<1> QED
  BY <1>2, <1>3, <1>4 DEF ReadsBack

(* The document made of the values of the children.                        *)
LEMMA DocumentOf ==
    ASSUME NEW p \in Nodes, p.type = "Struct", NEW values,
           \A i \in DOMAIN p.children : values[i] \in Bson[p.children[i]]
    PROVE  LET w == EmbeddedDocument(p, values) IN
           /\ w \in Bson[p] /\ w.tag = "EmbeddedDocument"
           /\ \A i \in DOMAIN p.children : FieldOf(w, p.children[i]) = values[i]
<1> DEFINE names == {p.children[i].name : i \in DOMAIN p.children}
           At1(x) == CHOOSE i \in DOMAIN p.children : p.children[i].name = x
           f     == [x \in names |-> values[At1(x)]]
           some  == AnyOf([i \in DOMAIN p.children |-> Bson[p.children[i]]])
           w     == EmbeddedDocument(p, values)
<1>1. ASSUME NEW i \in DOMAIN p.children PROVE At1(p.children[i].name) = i
  <2>1. At1(p.children[i].name) \in DOMAIN p.children
        /\ p.children[At1(p.children[i].name)].name = p.children[i].name
    OBVIOUS
  <2> QED
    BY <2>1, NamesAssumption
<1>2. w = [tag |-> "EmbeddedDocument", fields |-> f]
  BY DEF EmbeddedDocument
<1> HIDE DEF At1
<1>3. \A i \in DOMAIN p.children : f[p.children[i].name] = values[i]
  BY <1>1
<1>4. f \in [names -> some]
  <2>1. ASSUME NEW x \in names PROVE f[x] \in some
    <3>1. PICK i \in DOMAIN p.children : x = p.children[i].name
      OBVIOUS
    <3>2. f[x] \in Bson[p.children[i]]
      BY <1>3, <3>1
    <3>3. Bson[p.children[i]] \subseteq some
      <4> DEFINE sets == [j \in DOMAIN p.children |-> Bson[p.children[j]]]
      <4>1. Len(sets) = Len(p.children) /\ Len(p.children) \in Nat /\ DOMAIN p.children = 1 .. Len(p.children)
        BY NodeFacts
      <4>2. sets[i] = Bson[p.children[i]]
        OBVIOUS
      <4> HIDE DEF sets
      <4>3. i \in 1 .. Len(sets) /\ Len(sets) \in Nat
        BY <4>1
      <4>4. sets[i] \subseteq AnyOf(sets)
        BY <4>3, InAnyOf
      <4> QED
        BY <4>2, <4>4 DEF sets
    <3> HIDE DEF f, some
    <3> QED
      BY <3>2, <3>3
  <2>2. f = [x \in names |-> f[x]]
    OBVIOUS
  <2> HIDE DEF f, some, names
  <2> QED
    BY <2>1, <2>2
<1>5. w \in Bson[p]
  <2>1. Bson[p] = BsonBody(Bson, p)
    BY BsonUnfold
  <2> DEFINE docs1 == [tag    : {"EmbeddedDocument"},
                       fields : {c \in [names -> some] :
                                    \A i \in DOMAIN p.children : c[p.children[i].name] \in Bson[p.children[i]]}]
  <2>2. \A i \in DOMAIN p.children : f[p.children[i].name] \in Bson[p.children[i]]
    BY <1>3
  <2>3. w \in docs1
    <3> HIDE DEF f, some, names, w
    <3> QED
      BY <1>2, <1>4, <2>2
  <2>4. docs1 \subseteq BsonBody(Bson, p)
    BY DEF BsonBody
  <2> HIDE DEF docs1, w
  <2> QED
    BY <2>1, <2>3, <2>4
<1>6. w.tag = "EmbeddedDocument" /\ w.fields = f
  <2> HIDE DEF f, w
  <2> QED
    BY <1>2
<1> HIDE DEF f, w
<1> QED
  BY <1>3, <1>5, <1>6 DEF FieldOf, w

(* What says the same as a scalar.                                         *)
LEMMA SameScalar ==
    ASSUME NEW p \in Nodes, p.type # "Struct", p.type # "List", NEW v \in Bson[p], ~IsNull(v),
           p.type \in DOMAIN Leaves, NEW w \in Bson[p], w.tag \in Leaves[p.type],
           IF p.type = "Timestamp"
           THEN LeafValue(w) = <<(LeafValue(v)[1] \div MillisPerSecond) * MillisPerSecond>>
           ELSE LeafValue(w) = LeafValue(v)
    PROVE  ReadsBack(p, v, w)
<1>1. ~IsNull(w)
  BY TagsAre DEF IsNull, NullTags
<1>2. Fault[p][w] = None
  BY <1>1, FaultCases
<1>3. SaysWhat[p][v][w] = SaysWhatOne(SaysWhat, p, v, w)
  BY SaysWhatUnfold
<1>4. SaysWhatOne(SaysWhat, p, v, w)
  BY <1>1 DEF SaysWhatOne
<1> QED
  BY <1>2, <1>3, <1>4 DEF ReadsBack

(* What a leaf is written as.                                              *)
LEMMA LeafReadsBack ==
    ASSUME NEW p \in Nodes, p.type # "Struct", p.type # "List", NEW v \in Bson[p], ~IsNull(v),
           p.type \in DOMAIN Leaves, v.tag \in Leaves[p.type], ~Unwritable(p, LeafValue(v))
    PROVE  ReadsBack(p, v, WriteLeaf(p.type, LeafValue(v)))
<1> DEFINE x == LeafValue(v)
           w == WriteLeaf(p.type, x)
<1>1. x \in Payload /\ (p.type = "ObjectId" => x \in IdBytes)
  BY LeafPayload
<1>2. BsonBody(Bson, p) = Bson[p]
  BY BsonUnfold
<1> HIDE DEF x
<1>4. CASE p.type = "Timestamp"
  <2> DEFINE t == x[1] \div MillisPerSecond
  <2>1. t \in Nat
    BY <1>4 DEF Unwritable, x
  <2> HIDE DEF t
  <2>2. w = [tag |-> "Timestamp", time |-> t, increment |-> 0]
    BY <1>4 DEF WriteLeaf, WrittenTag, t
  <2> HIDE DEF w
  <2>3. w.tag = "Timestamp" /\ LeafValue(w) = <<t * MillisPerSecond>>
    BY <2>2 DEF LeafValue
  <2>4. w \in [tag : {"Timestamp"}, time : Nat, increment : Nat]
    BY <2>1, <2>2
  <2>5. w \in Bson[p]
    BY <1>2, <2>4, Zenon DEF BsonBody
  <2>6. "Timestamp" \in Leaves[p.type]
    BY <1>4 DEF Leaves
  <2> QED
    BY <1>4, <2>3, <2>5, <2>6, SameScalar DEF t, x, w
<1>5. CASE p.type = "ObjectId"
  <2>1. w = [tag |-> "ObjectId", value |-> x]
    BY <1>5 DEF WriteLeaf, WrittenTag
  <2> HIDE DEF w
  <2>2. w.tag = "ObjectId" /\ LeafValue(w) = x
    BY <2>1 DEF LeafValue
  <2>3. w \in [tag : {"ObjectId"}, value : IdBytes]
    BY <1>1, <1>5, <2>1
  <2>4. w \in Bson[p]
    BY <1>2, <2>3, Zenon DEF BsonBody
  <2>5. "ObjectId" \in Leaves[p.type]
    BY <1>5 DEF Leaves
  <2> QED
    BY <1>5, <2>2, <2>4, <2>5, SameScalar DEF x, w
<1>6. CASE p.type # "Timestamp" /\ p.type # "ObjectId"
  <2> DEFINE tag == WrittenTag(p.type)
  <2>1. tag \in Leaves[p.type] /\ tag \in ScalarTags /\ tag # "Timestamp"
    BY <1>6, TagsAre DEF WrittenTag, Leaves
  <2> HIDE DEF tag
  <2>2. w = [tag |-> tag, value |-> x]
    BY <2>1 DEF WriteLeaf, tag
  <2> HIDE DEF w
  <2>3. w.tag = tag /\ LeafValue(w) = x
    BY <2>1, <2>2 DEF LeafValue
  <2>4. w \in [tag : ScalarTags, value : Payload]
    BY <1>1, <2>1, <2>2
  <2>5. w \in Bson[p]
    BY <1>2, <2>4, Zenon DEF BsonBody
  <2> QED
    BY <1>6, <2>1, <2>3, <2>5, SameScalar DEF x, w
<1> QED
  BY <1>4, <1>5, <1>6 DEF x

(* A row that is not valid is written as a null.                           *)
LEMMA NullWritten ==
    ASSUME NEW p \in Nodes, NEW col \in Columns[p], NEW n \in Nat, NEW active \in SUBSET Nat, NEW v,
           Sound[p][col][n], NEW r \in active \cap (1 .. n), Says(p, col, r, v), ~Valid(p, col, r)
    PROVE  ReadsBack(p, v, Encode[p][col][active][r])
<1>1. Encode[p][col][active][r] = NullValue
  <2>1. Encode[p][col][active] = EncodeOne(Encode, p, col, active)
    BY EncodeUnfold
  <2>2. r \in AllRows(p, col)
    BY SoundHeight
  <2> QED
    BY <2>1, <2>2, Zenon DEF EncodeOne
<1>2. r \in Nat /\ v \in Bson[p]
  BY DEF Says
<1>3. IsNull(v) /\ p.nullable
  BY <1>2, NullSaid
<1>4. ReadsBack(p, v, NullValue)
  BY <1>2, <1>3, NullReadsBack
<1> QED
  BY <1>1, <1>4

(* A leaf.                                                                 *)
LEMMA LeafWritesBack ==
    ASSUME NEW p \in Nodes, p.type # "Struct", p.type # "List"
    PROVE  WritesBack(p)
<1> SUFFICES ASSUME NEW col \in Columns[p], NEW n \in Nat, NEW active \in SUBSET Nat, NEW vs,
                    Sound[p][col][n], AllSaid(p, col, n, active, vs), EncodeFault[p][col][active] = None,
                    NEW r \in active \cap (1 .. n)
             PROVE  ReadsBack(p, vs[r], Encode[p][col][active][r])
  BY DEF WritesBack
<1>1. Says(p, col, r, vs[r]) /\ r \in Nat /\ vs[r] \in Bson[p]
  BY DEF AllSaid, Says
<1>2. CASE ~Valid(p, col, r)
  BY <1>1, <1>2, NullWritten
<1>3. CASE Valid(p, col, r)
  <2> DEFINE results == [row \in AllRows(p, col) |->
                            IF BadNull(p, col, active, row) \/ BadValue(p, col, active, row)
                            THEN Some(AtRow(p, row)) ELSE None]
  <2>1. FirstOf(results) = None
    <3>1. EncodeFault[p][col][active] = EncodeFaultOne(EncodeFault, p, col, active)
      BY EncodeFaultUnfold
    <3> QED
      BY <3>1, Zenon DEF EncodeFaultOne
  <2>2. DOMAIN results = 1 .. n /\ r \in AllRows(p, col)
    BY SoundHeight
  <2> HIDE DEF results
  <2>3. results[r] = None
    BY <2>1, <2>2, FirstError
  <2>4. ~BadValue(p, col, active, r)
    BY <2>2, <2>3, SomeIsNotNone DEF results
  <2>5. ~Unwritable(p, col.values[r][1])
    BY <1>3, <2>4 DEF BadValue
  <2>6. /\ ~IsNull(vs[r]) /\ col.values[r][1] = LeafValue(vs[r])
        /\ p.type \in DOMAIN Leaves /\ vs[r].tag \in Leaves[p.type]
    BY <1>1, <1>3, LeafSaid
  <2>7. ReadsBack(p, vs[r], WriteLeaf(p.type, LeafValue(vs[r])))
    BY <1>1, <2>5, <2>6, LeafReadsBack
  <2>8. Encode[p][col][active] = EncodeOne(Encode, p, col, active)
    BY EncodeUnfold
  <2>9. Encode[p][col][active][r] = WriteLeaf(p.type, col.values[r][1])
    BY <1>3, <2>2, <2>8 DEF EncodeOne
  <2> QED
    BY <2>6, <2>7, <2>9
<1> QED
  BY <1>2, <1>3

(* A struct.                                                               *)
LEMMA StructWritesBack ==
    ASSUME NEW p \in Nodes, p.type = "Struct", \A i \in DOMAIN p.children : WritesBack(p.children[i])
    PROVE  WritesBack(p)
<1> SUFFICES ASSUME NEW col \in Columns[p], NEW n \in Nat, NEW active \in SUBSET Nat, NEW vs,
                    Sound[p][col][n], AllSaid(p, col, n, active, vs), EncodeFault[p][col][active] = None,
                    NEW r \in active \cap (1 .. n)
             PROVE  ReadsBack(p, vs[r], Encode[p][col][active][r])
  BY DEF WritesBack
<1>1. Says(p, col, r, vs[r]) /\ r \in Nat /\ vs[r] \in Bson[p]
  BY DEF AllSaid, Says
<1>2. CASE ~Valid(p, col, r)
  BY <1>1, <1>2, NullWritten
<1>3. CASE Valid(p, col, r)
  <2> DEFINE act    == ChildActive(p, col, active)
             inside == [i \in DOMAIN p.children |-> EncodeFault[p.children[i]][col.children[i]][act]]
             own    == FirstOf([row \in AllRows(p, col) |->
                                   IF BadNull(p, col, active, row) THEN Some(AtRow(p, row)) ELSE None])
             m      == Len(p.children)
             all    == inside \o <<own>>
             values == [i \in DOMAIN p.children |-> Encode[p.children[i]][col.children[i]][act][r]]
             w      == EmbeddedDocument(p, values)
  <2>1. FirstOf(all) = None
    <3>1. EncodeFault[p][col][active] = EncodeFaultOne(EncodeFault, p, col, active)
      BY EncodeFaultUnfold
    <3> QED
      BY <3>1, Zenon DEF EncodeFaultOne
  <2>2. m \in Nat /\ DOMAIN p.children = 1 .. m
    BY NodeFacts
  <2> HIDE DEF own, act
  <2>3. DOMAIN all = 1 .. m + 1 /\ \A i \in 1 .. m : all[i] = inside[i]
    <3>1. inside = [i \in 1 .. m |-> inside[i]] /\ Len(inside) = m /\ DOMAIN inside = 1 .. m
      BY <2>2
    <3> HIDE DEF inside, m
    <3>2. inside \o <<own>> = [i \in 1 .. m + 1 |-> IF i <= m THEN inside[i] ELSE <<own>>[i - m]]
      BY <2>2, <3>1
    <3>3. all = [i \in 1 .. m + 1 |-> IF i <= m THEN inside[i] ELSE <<own>>[i - m]]
      BY <3>2
    <3> HIDE DEF all
    <3> QED
      BY <2>2, <3>3
  <2>4. \A i \in 1 .. m : inside[i] = None
    <3> HIDE DEF all, inside, m
    <3>1. m + 1 \in Nat /\ \A i \in 1 .. m : i \in 1 .. m + 1
      BY <2>2
    <3>2. \A i \in 1 .. m + 1 : all[i] = None
      BY <2>1, <2>3, <3>1, FirstError
    <3> QED
      BY <2>3, <3>1, <3>2
  <2>5. r \in act
    <3>1. col.validity[r]
      BY <1>3 DEF Valid
    <3> QED
      BY <3>1 DEF act, ChildActive
  <2>6. /\ vs[r].tag = "EmbeddedDocument" /\ ~IsNull(vs[r])
    BY <1>1, <1>3, StructSaid
  <2>7. ASSUME NEW i \in DOMAIN p.children
        PROVE  ReadsBack(p.children[i], FieldOf(vs[r], p.children[i]), values[i])
    <3> DEFINE ws == [x \in Nat |-> FieldOf(vs[x], p.children[i])]
    <3>1. \A x \in Nat : ws[x] = FieldOf(vs[x], p.children[i])
      OBVIOUS
    <3> HIDE DEF ws
    <3>2. /\ p.children[i] \in Nodes /\ col.children[i] \in Columns[p.children[i]]
          /\ Sound[p.children[i]][col.children[i]][n]
          /\ act \in SUBSET Nat
          /\ AllSaid(p.children[i], col.children[i], n, act, ws)
      BY <3>1, ChildrenSaid DEF act
    <3> HIDE DEF values
    <3>3. EncodeFault[p.children[i]][col.children[i]][act] = None
      BY <2>2, <2>4
    <3>4. r \in act \cap (1 .. n)
      BY <2>5
    <3>5. WritesBack(p.children[i])
      OBVIOUS
    <3>6. ReadsBack(p.children[i], ws[r], Encode[p.children[i]][col.children[i]][act][r])
      BY <3>2, <3>3, <3>4, <3>5 DEF WritesBack
    <3>7. values[i] = Encode[p.children[i]][col.children[i]][act][r]
      BY DEF values
    <3> QED
      BY <1>1, <3>1, <3>6, <3>7
  <2>8. Encode[p][col][active][r] = w
    <3>1. Encode[p][col][active] = EncodeOne(Encode, p, col, active)
      BY EncodeUnfold
    <3>2. r \in AllRows(p, col)
      BY SoundHeight
    <3> DEFINE children == [i \in DOMAIN p.children |-> Encode[p.children[i]][col.children[i]][act]]
    <3>3. EncodeOne(Encode, p, col, active)[r]
          = EmbeddedDocument(p, [i \in DOMAIN p.children |-> children[i][r]])
      BY <1>3, <3>2 DEF EncodeOne, act
    <3>4. [i \in DOMAIN p.children |-> children[i][r]] = values
      OBVIOUS
    <3> HIDE DEF values, children
    <3> QED
      BY <3>1, <3>3, <3>4
  <2> HIDE DEF values
  <2>9. /\ w \in Bson[p] /\ w.tag = "EmbeddedDocument"
        /\ \A i \in DOMAIN p.children : FieldOf(w, p.children[i]) = values[i]
    <3>1. \A i \in DOMAIN p.children : values[i] \in Bson[p.children[i]]
      BY <2>7 DEF ReadsBack
    <3> QED
      BY <3>1, DocumentOf
  <2> HIDE DEF w
  <2>10. ~IsNull(w)
    BY <2>9 DEF IsNull, NullTags
  <2>11. Fault[p][w] = None
    <3> DEFINE faults == [i \in DOMAIN p.children |-> Fault[p.children[i]][FieldOf(w, p.children[i])]]
    <3>1. Fault[p][w] = FirstOf(faults)
      BY <2>9, FaultCases
    <3>2. \A i \in DOMAIN p.children : faults[i] = None
      BY <2>7, <2>9 DEF ReadsBack
    <3>3. DOMAIN faults = 1 .. m
      BY <2>2
    <3> HIDE DEF faults, m
    <3> QED
      BY <2>2, <3>1, <3>2, <3>3, FirstError
  <2>12. SaysWhat[p][vs[r]][w]
    <3>1. SaysWhat[p][vs[r]][w] = SaysWhatOne(SaysWhat, p, vs[r], w)
      BY <1>1, <2>9, SaysWhatUnfold
    <3>2. \A i \in DOMAIN p.children :
             SaysWhat[p.children[i]][FieldOf(vs[r], p.children[i])][FieldOf(w, p.children[i])]
      BY <2>7, <2>9 DEF ReadsBack
    <3> QED
      BY <2>6, <2>10, <3>1, <3>2 DEF SaysWhatOne
  <2> QED
    BY <2>8, <2>9, <2>11, <2>12 DEF ReadsBack
<1> QED
  BY <1>2, <1>3

(* The array made of the values of the items.                              *)
LEMMA ArrayOf ==
    ASSUME NEW p \in Nodes, p.type = "List", NEW items \in Seq(Bson[p.children[1]])
    PROVE  LET w == [tag |-> "Array", items |-> items] IN
           w \in Bson[p] /\ w.tag = "Array" /\ w.items = items
<1> DEFINE w == [tag |-> "Array", items |-> items]
           arrays == [tag : {"Array"}, items : Seq(Bson[p.children[1]])]
<1>1. w \in arrays
  OBVIOUS
<1>2. arrays \subseteq BsonBody(Bson, p)
  <2>1. p.type # "Struct"
    OBVIOUS
  <2> QED
    BY <2>1 DEF BsonBody
<1>3. Bson[p] = BsonBody(Bson, p)
  BY BsonUnfold
<1>4. w \in Bson[p]
  <2> HIDE DEF w, arrays
  <2> QED
    BY <1>1, <1>2, <1>3
<1> QED
  BY <1>4

(* A list.                                                                 *)
LEMMA ListWritesBack ==
    ASSUME NEW p \in Nodes, p.type = "List", WritesBack(p.children[1])
    PROVE  WritesBack(p)
<1> SUFFICES ASSUME NEW col \in Columns[p], NEW n \in Nat, NEW active \in SUBSET Nat, NEW vs,
                    Sound[p][col][n], AllSaid(p, col, n, active, vs), EncodeFault[p][col][active] = None,
                    NEW r \in active \cap (1 .. n)
             PROVE  ReadsBack(p, vs[r], Encode[p][col][active][r])
  BY DEF WritesBack
<1>1. Says(p, col, r, vs[r]) /\ r \in Nat /\ vs[r] \in Bson[p]
  BY DEF AllSaid, Says
<1>2. CASE ~Valid(p, col, r)
  BY <1>1, <1>2, NullWritten
<1>3. CASE Valid(p, col, r)
  <2> DEFINE q       == p.children[1]
             results == [row \in AllRows(p, col) |->
                            IF row \in active /\ Valid(p, col, row)
                            THEN EncodeFault[q][Inner(p, col, row)][AllRows(q, Inner(p, col, row))]
                            ELSE IF BadNull(p, col, active, row) THEN Some(AtRow(p, row)) ELSE None]
             d       == Inner(p, col, r)
             items   == vs[r].items
             out     == Encode[q][d][AllRows(q, d)]
             w       == [tag |-> "Array", items |-> out]
  <2>0. p.type # "Struct"
    OBVIOUS
  <2>1. FirstOf(results) = None
    <3>1. EncodeFault[p][col][active] = EncodeFaultOne(EncodeFault, p, col, active)
      BY EncodeFaultUnfold
    <3> QED
      BY <2>0, <3>1 DEF EncodeFaultOne
  <2>2. DOMAIN results = 1 .. n /\ r \in AllRows(p, col)
    BY SoundHeight
  <2> HIDE DEF results
  <2>3. results[r] = None
    BY <2>1, <2>2, FirstError
  <2>4. EncodeFault[q][d][AllRows(q, d)] = None
    BY <1>3, <2>2, <2>3 DEF results
  <2>5. PICK k : Items(p, col, r, d, k)
    BY InnerRows
  <2>6. Encode[p][col][active][r] = w
    <3>1. Encode[p][col][active] = EncodeOne(Encode, p, col, active)
      BY EncodeUnfold
    <3> QED
      BY <1>3, <2>0, <2>2, <3>1 DEF EncodeOne
  <2> HIDE DEF d, out
  <2>7. /\ ~IsNull(vs[r]) /\ items \in Seq(Bson[q]) /\ Len(items) = k
        /\ \A j \in 1 .. k : Says(q, d, j, items[j])
    BY <1>1, <1>3, <2>5, ListSaid
  <2>8. k \in Nat /\ d \in Columns[q] /\ Sound[q][d][k] /\ AllRows(q, d) = 1 .. k /\ 1 .. k \in SUBSET Nat
        /\ q \in Nodes
    BY <2>5, ListColumns DEF Items
  <2>9. WritesBack(q)
    OBVIOUS
  <2> HIDE DEF items, q
  <2>10. AllSaid(q, d, k, 1 .. k, items)
    BY <2>7 DEF AllSaid
  <2>11. \A j \in 1 .. k : ReadsBack(q, items[j], out[j])
    <3>1. \A j \in (1 .. k) \cap (1 .. k) : ReadsBack(q, items[j], Encode[q][d][1 .. k][j])
      BY <2>4, <2>8, <2>9, <2>10 DEF WritesBack
    <3> QED
      BY <2>8, <3>1 DEF out
  <2>12. out \in Seq(Bson[q]) /\ Len(out) = k
    <3>1. Encode[q][d][1 .. k] = EncodeOne(Encode, q, d, 1 .. k)
      BY <2>8, EncodeUnfold
    <3>2. out = [j \in 1 .. k |-> out[j]]
      BY <2>8, <3>1, Zenon DEF out, EncodeOne
    <3>3. \A j \in 1 .. k : out[j] \in Bson[q]
      BY <2>11 DEF ReadsBack
    <3>4. out \in [1 .. k -> Bson[q]]
      BY <3>2, <3>3
    <3> QED
      BY <2>8, <3>4, FunctionIsSequence
  <2>13. w \in Bson[p] /\ w.tag = "Array" /\ w.items = out
    BY <2>12, ArrayOf DEF q
  <2> HIDE DEF w
  <2>14. ~IsNull(w)
    BY <2>13 DEF IsNull, NullTags
  <2>15. DOMAIN out = 1 .. k /\ DOMAIN items = 1 .. k
    BY <2>7, <2>8, <2>12
  <2>16. Fault[p][w] = None
    <3> DEFINE faults == [j \in DOMAIN w.items |-> Fault[q][w.items[j]]]
    <3>1. Fault[p][w] = FirstOf(faults)
      BY <2>13, FaultCases, Zenon DEF q
    <3>2. DOMAIN faults = 1 .. k /\ \A j \in 1 .. k : faults[j] = None
      BY <2>11, <2>13, <2>15 DEF ReadsBack
    <3> HIDE DEF faults
    <3> QED
      BY <2>8, <3>1, <3>2, FirstError
  <2>17. SaysWhat[p][vs[r]][w]
    <3>1. SaysWhat[p][vs[r]][w] = SaysWhatOne(SaysWhat, p, vs[r], w)
      BY <1>1, <2>13, SaysWhatUnfold
    <3>2. Len(items) = Len(w.items) /\ \A j \in DOMAIN items : SaysWhat[q][items[j]][w.items[j]]
      BY <2>7, <2>11, <2>12, <2>13, <2>15 DEF ReadsBack
    <3> QED
      BY <2>0, <2>7, <2>14, <3>1, <3>2, Zenon DEF SaysWhatOne, items, q
  <2> QED
    BY <2>6, <2>13, <2>16, <2>17 DEF ReadsBack
<1> QED
  BY <1>2, <1>3

(* What encode_column_where writes for a row reads back as what the row    *)
(* says.                                                                   *)
LEMMA WrittenBack == \A p \in Nodes : WritesBack(p)
<1> DEFINE G == {p \in Nodes : WritesBack(p)}
<1>1. ASSUME NEW p \in Nodes, \A y \in Nodes : Depth(y) < Depth(p) => y \in G
      PROVE  p \in G
  <2>1. \A i \in DOMAIN p.children : WritesBack(p.children[i])
    BY <1>1, NodeFacts
  <2>2. p.type = "List" => WritesBack(p.children[1])
    BY <2>1, NodeFacts
  <2> QED
    BY <2>1, <2>2, StructWritesBack, ListWritesBack, LeafWritesBack
<1> HIDE DEF G
<1>2. \A p \in Nodes : p \in G
  BY <1>1, ByDepth
<1> QED
  BY <1>2 DEF G

----------------------------------------------------------------------------
(* Written batches.                                                        *)

(* A frame that is being written says, row by row, what was read.          *)
LEMMA FrameSaid ==
    ASSUME IInv, status = "framed", NEW i \in DOMAIN plan, NEW vs, NEW n, n = Len(docs),
           \A r \in 1 .. n : vs[r] = docs[r][i]
    PROVE  /\ plan[i] \in Nodes /\ columns[i] \in Columns[plan[i]]
           /\ n \in Nat /\ 1 .. n \in SUBSET Nat /\ DOMAIN docs = 1 .. n
           /\ Sound[plan[i]][columns[i]][n]
           /\ AllRows(plan[i], columns[i]) = 1 .. n
           /\ AllSaid(plan[i], columns[i], n, 1 .. n, vs)
<1>1. plan[i] \in Nodes /\ n \in Nat /\ 1 .. n \in SUBSET Nat /\ DOMAIN docs = 1 .. n
  BY DEF IInv, Shape
<1>2. Pushed(i) = n
  BY DEF IInv, Shape, Pushed
<1>3. columns[i] \in Columns[plan[i]] /\ WellFormed[plan[i]][columns[i]][n]
  BY <1>2 DEF IInv, ColumnsHold
<1>4. Sound[plan[i]][columns[i]][n]
  <2>1. HeldAsSound(plan[i])
    BY <1>1, WellFormedIsSound
  <2> QED
    BY <1>1, <1>3, <2>1 DEF HeldAsSound
<1>5. AllRows(plan[i], columns[i]) = 1 .. n
  BY <1>1, <1>3, <1>4, SoundHeight
<1>6. ASSUME NEW r \in (1 .. n) \cap (1 .. n)
      PROVE  Says(plan[i], columns[i], r, vs[r])
  <2>1. /\ docs[r][i] \in Bson[plan[i]]
        /\ Fault[plan[i]][docs[r][i]] = None
        /\ At[plan[i]][columns[i]][r] = Row[plan[i]][docs[r][i]]
    BY <1>2 DEF IInv, RowsTaken
  <2> QED
    BY <2>1 DEF Says
<1>7. AllSaid(plan[i], columns[i], n, 1 .. n, vs)
  BY <1>6 DEF AllSaid
<1> QED
  BY <1>1, <1>3, <1>4, <1>5, <1>7

(* Write fails only for a moment that cannot be written.                   *)
LEMMA WriteFindsFault == IInv /\ Write => ReadIsWritable'
<1> SUFFICES ASSUME IInv, Write, status' = "encode_error"
             PROVE  \E r \in DOMAIN docs, i \in DOMAIN plan : HasUnwritable[plan[i]][docs[r][i]]
  BY DEF ReadIsWritable, Write
<1> DEFINE faults == [i \in DOMAIN plan |-> EncodeFault[plan[i]][columns[i]][AllRows(plan[i], columns[i])]]
           m == Len(plan)
           n == Len(docs)
<1>1. status = "framed" /\ FirstOf(faults) # None
  BY DEF Write, FrameFault
<1>2. m \in Nat /\ DOMAIN faults = 1 .. m /\ DOMAIN plan = 1 .. m
  BY DEF IInv, Shape
<1> HIDE DEF faults, m
<1>3. PICK i \in 1 .. m : faults[i] # None
  BY <1>1, <1>2, FirstError
<1>4. i \in DOMAIN plan /\ EncodeFault[plan[i]][columns[i]][AllRows(plan[i], columns[i])] # None
  BY <1>2, <1>3 DEF faults
<1> DEFINE vs == [r \in 1 .. n |-> docs[r][i]]
<1>5. \A r \in 1 .. n : vs[r] = docs[r][i]
  OBVIOUS
<1> HIDE DEF vs, n
<1>6. n = Len(docs)
  BY DEF n
<1>7. /\ plan[i] \in Nodes /\ columns[i] \in Columns[plan[i]]
      /\ n \in Nat /\ 1 .. n \in SUBSET Nat /\ DOMAIN docs = 1 .. n
      /\ Sound[plan[i]][columns[i]][n]
      /\ AllRows(plan[i], columns[i]) = 1 .. n
      /\ AllSaid(plan[i], columns[i], n, 1 .. n, vs)
  BY <1>1, <1>4, <1>5, <1>6, FrameSaid
<1>8. FindsFault(plan[i])
  BY <1>7, FaultFound
<1>9. PICK r \in (1 .. n) \cap (1 .. n) : HasUnwritable[plan[i]][vs[r]]
  BY <1>4, <1>7, <1>8 DEF FindsFault
<1>10. r \in DOMAIN docs /\ HasUnwritable[plan[i]][docs[r][i]]
  BY <1>5, <1>7, <1>9
<1> QED
  BY <1>4, <1>10

(* Write writes what reads back.                                           *)
LEMMA WriteReadsBack == IInv /\ Write => WrittenReadsBack'
<1> SUFFICES ASSUME IInv, Write, status' = "written", NEW r \in DOMAIN docs, NEW i \in DOMAIN plan
             PROVE  /\ Fault[plan[i]][written'[r][i]] = None
                    /\ SaysWhat[plan[i]][docs[r][i]][written'[r][i]]
  BY DEF WrittenReadsBack, Write
<1> DEFINE faults == [j \in DOMAIN plan |-> EncodeFault[plan[j]][columns[j]][AllRows(plan[j], columns[j])]]
           m == Len(plan)
           n == Len(docs)
<1>1. /\ status = "framed" /\ FirstOf(faults) = None
      /\ written'[r][i] = Encode[plan[i]][columns[i]][AllRows(plan[i], columns[i])][r]
  <2>1. status = "framed" /\ FrameFault = None
    BY DEF Write
  <2> DEFINE encoded == [j \in DOMAIN plan |-> Encode[plan[j]][columns[j]][AllRows(plan[j], columns[j])]]
  <2>2. written' = [row \in DOMAIN docs |-> [j \in DOMAIN plan |-> encoded[j][row]]]
    BY <2>1 DEF Write
  <2>3. encoded[i] = Encode[plan[i]][columns[i]][AllRows(plan[i], columns[i])]
    OBVIOUS
  <2> HIDE DEF encoded
  <2>4. written'[r][i] = encoded[i][r]
    BY <2>2
  <2> QED
    BY <2>1, <2>3, <2>4 DEF FrameFault
<1>2. m \in Nat /\ DOMAIN faults = 1 .. m /\ DOMAIN plan = 1 .. m
  BY DEF IInv, Shape
<1> HIDE DEF faults, m
<1>3. faults[i] = None
  BY <1>1, <1>2, FirstError
<1>4. EncodeFault[plan[i]][columns[i]][AllRows(plan[i], columns[i])] = None
  BY <1>3 DEF faults
<1> DEFINE vs == [x \in 1 .. n |-> docs[x][i]]
<1>5. \A x \in 1 .. n : vs[x] = docs[x][i]
  OBVIOUS
<1> HIDE DEF vs, n
<1>6. n = Len(docs)
  BY DEF n
<1>7. /\ plan[i] \in Nodes /\ columns[i] \in Columns[plan[i]]
      /\ n \in Nat /\ 1 .. n \in SUBSET Nat /\ DOMAIN docs = 1 .. n
      /\ Sound[plan[i]][columns[i]][n]
      /\ AllRows(plan[i], columns[i]) = 1 .. n
      /\ AllSaid(plan[i], columns[i], n, 1 .. n, vs)
  BY <1>1, <1>5, <1>6, FrameSaid
<1>8. WritesBack(plan[i])
  BY <1>7, WrittenBack
<1>9. r \in (1 .. n) \cap (1 .. n) /\ vs[r] = docs[r][i]
  BY <1>5, <1>7
<1>10. ReadsBack(plan[i], vs[r], Encode[plan[i]][columns[i]][1 .. n][r])
  BY <1>4, <1>7, <1>8, <1>9 DEF WritesBack
<1> QED
  BY <1>1, <1>7, <1>9, <1>10 DEF ReadsBack

(* What could be read can be written, whatever the filler, unless it is a  *)
(* moment outside the range of a BSON Timestamp.                           *)
THEOREM ReadIsWritableHolds == Spec => []ReadIsWritable
<1>1. Init => ReadIsWritable
  BY DEF Init, ReadIsWritable
<1>2. IInv /\ ReadIsWritable /\ [Next]_vars => ReadIsWritable'
  <2> SUFFICES ASSUME IInv, ReadIsWritable, [Next]_vars PROVE ReadIsWritable'
    OBVIOUS
  <2>1. CASE UNCHANGED vars
    BY <2>1 DEF vars, ReadIsWritable
  <2>2. CASE Write
    BY <2>2, WriteFindsFault
  <2>3. CASE Compile \/ NextDocument \/ DecodeField \/ Finish \/ ThroughHex
    <3>1. status' # "encode_error"
      BY <2>3 DEF Compile, NextDocument, DecodeField, Finish, ThroughHex
    <3> QED
      BY <3>1 DEF ReadIsWritable
  <2> QED
    BY <2>1, <2>2, <2>3 DEF Next
<1> QED
  BY <1>1, <1>2, IInvHolds, PTL DEF Spec

(* What has been written reads back, under the same schema, as the rows it *)
(* was written from, down to the second for a BSON Timestamp.              *)
THEOREM WrittenReadsBackHolds == Spec => []WrittenReadsBack
<1>1. Init => WrittenReadsBack
  BY DEF Init, WrittenReadsBack
<1>2. IInv /\ WrittenReadsBack /\ [Next]_vars => WrittenReadsBack'
  <2> SUFFICES ASSUME IInv, WrittenReadsBack, [Next]_vars PROVE WrittenReadsBack'
    OBVIOUS
  <2>1. CASE UNCHANGED vars
    BY <2>1 DEF vars, WrittenReadsBack
  <2>2. CASE Write
    BY <2>2, WriteReadsBack
  <2>3. CASE Compile \/ NextDocument \/ DecodeField \/ Finish \/ ThroughHex
    <3>1. status' # "written"
      BY <2>3 DEF Compile, NextDocument, DecodeField, Finish, ThroughHex
    <3> QED
      BY <3>1 DEF WrittenReadsBack
  <2> QED
    BY <2>1, <2>2, <2>3 DEF Next
<1> QED
  BY <1>1, <1>2, IInvHolds, PTL DEF Spec

----------------------------------------------------------------------------
(* What a schema declares.                                                 *)

(* What is assumed of types, at one of them.                               *)
LEMMA DtypeFacts ==
    ASSUME NEW d \in Dtypes
    PROVE  /\ DtypeDepth(d) \in Nat
           /\ d.kind = "Struct" =>
                 /\ Len(d.fields) \in Nat /\ DOMAIN d.fields = 1 .. Len(d.fields)
                 /\ \A i \in DOMAIN d.fields : /\ d.fields[i].dtype \in Dtypes
                                               /\ DtypeDepth(d.fields[i].dtype) < DtypeDepth(d)
                                               /\ d.fields[i].name \in Names
                                               /\ d.fields[i].nullable \in BOOLEAN
           /\ d.kind \in Lists =>
                 /\ d.item.dtype \in Dtypes
                 /\ DtypeDepth(d.item.dtype) < DtypeDepth(d)
                 /\ d.item.name \in Names
                 /\ d.item.nullable \in BOOLEAN
           /\ d.kind = "Dictionary" => d.inner \in Dtypes /\ DtypeDepth(d.inner) < DtypeDepth(d)
           /\ "Struct" \notin Lists /\ "Dictionary" \notin Lists
  BY DtypesAssumption DEF Lists

(* What holds of a dtype when it holds of all that are less deep holds of   *)
(* every dtype.                                                            *)
LEMMA ByDtypeDepth ==
    ASSUME NEW G, \A d \in Dtypes : (\A e \in Dtypes : DtypeDepth(e) < DtypeDepth(d) => e \in G) => d \in G
    PROVE  \A d \in Dtypes : d \in G
<1> DEFINE N == {DtypeDepth(d) : d \in {e \in Dtypes : e \notin G}}
<1>1. SUFFICES ASSUME N # {} PROVE FALSE
  OBVIOUS
<1>2. N \in SUBSET Nat
  BY DtypeFacts
<1>3. PICK n \in N : \A m \in N : n <= m
  <2> HIDE DEF N
  <2> QED
    BY <1>1, <1>2, LeastNumber
<1>4. PICK d \in Dtypes : d \notin G /\ DtypeDepth(d) = n
  BY <1>3
<1>5. ASSUME NEW e \in Dtypes, DtypeDepth(e) < DtypeDepth(d) PROVE e \in G
  <2>1. e \notin G => DtypeDepth(e) \in N
    OBVIOUS
  <2>2. DtypeDepth(d) \in Nat /\ DtypeDepth(e) \in Nat
    BY DtypeFacts
  <2> HIDE DEF N
  <2> QED
    BY <1>3, <1>4, <1>5, <2>1, <2>2
<1> QED
  BY <1>4, <1>5

InsideOne(f, d) ==
    IF d.kind = "Dictionary" THEN f[d.inner]
    ELSE CASE d.kind = "Struct" -> d.fields
           [] d.kind \in Lists  -> <<d.item>>
           [] OTHER             -> <<>>

InsideBody(f, d) ==
    InsideOne(f, d)

InsideRec == INSTANCE Recursion WITH S <- Dtypes, Rank <- DtypeDepth, Body <- InsideBody

(* The fields inside a dtype, from those inside the values of a dictionary. *)
LEMMA InsideUnfold ==
    ASSUME NEW d \in Dtypes
    PROVE  Inside[d] = InsideOne(Inside, d)
<1>1. InsideRec!Local
  <2> SUFFICES ASSUME NEW q \in Dtypes, NEW g, NEW h,
                      \A y \in Dtypes : DtypeDepth(y) < DtypeDepth(q) => g[y] = h[y]
               PROVE  InsideBody(g, q) = InsideBody(h, q)
    BY DEF InsideRec!Local

  <2>1. q.kind = "Dictionary" => g[q.inner] = h[q.inner]
    BY DtypeFacts
  <2> QED
    BY <2>1 DEF InsideBody, InsideOne

<1>2. InsideRec!Ranked
  BY DtypeFacts DEF InsideRec!Ranked
<1>3. \E f : f = [q \in Dtypes |-> InsideBody(f, q)]
  BY <1>1, <1>2, LeastNumber, InsideRec!RecursiveFunction
<1>4. Inside = [q \in Dtypes |-> InsideBody(Inside, q)]
  <2>1. Inside = CHOOSE f : f = [q \in Dtypes |-> InsideBody(f, q)]
    BY DEF Inside, InsideBody, InsideOne
  <2> QED
    BY <1>3, <2>1, Zenon
<1>5. Inside[d] = InsideBody(Inside, d)
  BY <1>4
<1> QED
  BY <1>5 DEF InsideBody

(* What is inside a dtype is a list of fields with dtypes less deep.       *)
FieldsOf(d) ==
    /\ Len(Inside[d]) \in Nat /\ DOMAIN Inside[d] = 1 .. Len(Inside[d])
    /\ \A i \in DOMAIN Inside[d] : /\ Inside[d][i].dtype \in Dtypes
                                   /\ DtypeDepth(Inside[d][i].dtype) < DtypeDepth(d)
                                   /\ Inside[d][i].name \in Names
                                   /\ Inside[d][i].nullable \in BOOLEAN

(* The fields inside a type are fields, of types less deep.                *)
LEMMA InsideFacts == \A d \in Dtypes : FieldsOf(d)
<1> DEFINE G == {d \in Dtypes : FieldsOf(d)}
<1>1. ASSUME NEW d \in Dtypes, \A y \in Dtypes : DtypeDepth(y) < DtypeDepth(d) => y \in G
      PROVE  FieldsOf(d)
  <2>1. Inside[d] = InsideOne(Inside, d)
    BY InsideUnfold
  <2>2. CASE d.kind = "Struct"
    <3>1. Inside[d] = d.fields
      BY <2>1, <2>2, DtypeFacts DEF InsideOne
    <3> QED
      BY <2>2, <3>1, DtypeFacts DEF FieldsOf
  <2>3. CASE d.kind \in Lists
    <3>1. Inside[d] = <<d.item>>
      BY <2>1, <2>3, DtypeFacts DEF InsideOne
    <3>2. Len(Inside[d]) = 1 /\ DOMAIN Inside[d] = 1 .. 1 /\ Inside[d][1] = d.item
      BY <3>1
    <3>3. \A i \in DOMAIN Inside[d] : Inside[d][i] = d.item
      BY <3>2
    <3> QED
      BY <2>3, <3>2, <3>3, DtypeFacts DEF FieldsOf
  <2>4. CASE d.kind = "Dictionary"
    <3>1. Inside[d] = Inside[d.inner]
      BY <2>1, <2>4, DtypeFacts DEF InsideOne
    <3>2. d.inner \in Dtypes /\ DtypeDepth(d.inner) < DtypeDepth(d) /\ DtypeDepth(d) \in Nat
          /\ DtypeDepth(d.inner) \in Nat
      BY <2>4, DtypeFacts
    <3>3. FieldsOf(d.inner)
      BY <1>1, <3>2
    <3>4. \A i \in DOMAIN Inside[d.inner] : DtypeDepth(Inside[d.inner][i].dtype) < DtypeDepth(d)
      BY <3>2, <3>3, DtypeFacts DEF FieldsOf
    <3> QED
      BY <3>1, <3>3, <3>4 DEF FieldsOf
  <2>5. CASE d.kind # "Struct" /\ d.kind \notin Lists /\ d.kind # "Dictionary"
    <3>1. Inside[d] = <<>>
      BY <2>1, <2>5 DEF InsideOne
    <3> QED
      BY <3>1 DEF FieldsOf
  <2> QED
    BY <2>2, <2>3, <2>4, <2>5
<1> HIDE DEF G
<1>2. \A d \in Dtypes : (\A y \in Dtypes : DtypeDepth(y) < DtypeDepth(d) => y \in G) => d \in G
  BY <1>1 DEF G
<1>3. \A d \in Dtypes : d \in G
  BY <1>2, ByDtypeDepth
<1> QED
  BY <1>3 DEF G

RejectionOne(f, d, path) ==
    CASE Unsupported(d)        -> Some(path)
      [] d.kind = "Struct"     ->
            FirstOf([i \in DOMAIN d.fields |-> f[d.fields[i].dtype][JoinPath(path, d.fields[i].name)]])
      [] d.kind \in Lists      -> f[d.item.dtype][JoinPath(path, d.item.name)]
      [] d.kind = "Dictionary" /\ d.key = "UInt32" -> f[d.inner][path]
      [] OTHER                 -> None

RejectionBody(f, d) ==
    [path \in Seq(Names) |-> RejectionOne(f, d, path)]

RejectionRec == INSTANCE Recursion WITH S <- Dtypes, Rank <- DtypeDepth, Body <- RejectionBody

(* The place rejected in a dtype, from those rejected inside it.           *)
LEMMA RejectionUnfold ==
    ASSUME NEW d \in Dtypes, NEW path \in Seq(Names)
    PROVE  Rejection[d][path] = RejectionOne(Rejection, d, path)
<1>1. RejectionRec!Local
  <2> SUFFICES ASSUME NEW q \in Dtypes, NEW g, NEW h,
                      \A y \in Dtypes : DtypeDepth(y) < DtypeDepth(q) => g[y] = h[y]
               PROVE  RejectionBody(g, q) = RejectionBody(h, q)
    BY DEF RejectionRec!Local

  <2>1. q.kind = "Struct" => \A i \in DOMAIN q.fields : g[q.fields[i].dtype] = h[q.fields[i].dtype]
    BY DtypeFacts
  <2>2. q.kind \in Lists => g[q.item.dtype] = h[q.item.dtype]
    BY DtypeFacts
  <2>3. q.kind = "Dictionary" => g[q.inner] = h[q.inner]
    BY DtypeFacts
  <2>4. ASSUME NEW pl \in Seq(Names)
        PROVE  RejectionOne(g, q, pl) = RejectionOne(h, q, pl)
    <3>1. CASE q.kind = "Struct"
      <4>1. [i \in DOMAIN q.fields |-> g[q.fields[i].dtype][JoinPath(pl, q.fields[i].name)]]
            = [i \in DOMAIN q.fields |-> h[q.fields[i].dtype][JoinPath(pl, q.fields[i].name)]]
        BY <2>1, <3>1, Zenon
      <4> QED
        BY <3>1, <4>1 DEF RejectionOne
    <3>2. CASE q.kind # "Struct"
      BY <2>2, <2>3, <3>2 DEF RejectionOne
    <3> QED
      BY <3>1, <3>2
  <2> QED
    BY <2>4, Zenon DEF RejectionBody

<1>2. RejectionRec!Ranked
  BY DtypeFacts DEF RejectionRec!Ranked
<1>3. \E f : f = [q \in Dtypes |-> RejectionBody(f, q)]
  BY <1>1, <1>2, LeastNumber, RejectionRec!RecursiveFunction
<1>4. Rejection = [q \in Dtypes |-> RejectionBody(Rejection, q)]
  <2>1. Rejection = CHOOSE f : f = [q \in Dtypes |-> RejectionBody(f, q)]
    BY DEF Rejection, RejectionBody, RejectionOne
  <2> QED
    BY <1>3, <2>1, Zenon
<1>5. Rejection[d] = RejectionBody(Rejection, d)
  BY <1>4
<1> QED
  BY <1>5 DEF RejectionBody

DeclarationsOne(f, d, path) ==
    <<[path |-> path, dtype |-> d]>>
    \o FlattenSeq([i \in DOMAIN Inside[d] |-> f[Inside[d][i].dtype][Append(path, Inside[d][i].name)]])

DeclarationsBody(f, d) ==
    [path \in Seq(Names) |-> DeclarationsOne(f, d, path)]

DeclarationsRec == INSTANCE Recursion WITH S <- Dtypes, Rank <- DtypeDepth, Body <- DeclarationsBody

(* What is declared at a place, from what is inside it.                    *)
LEMMA DeclarationsUnfold ==
    ASSUME NEW d \in Dtypes, NEW path \in Seq(Names)
    PROVE  Declarations[d][path] = DeclarationsOne(Declarations, d, path)
<1>1. DeclarationsRec!Local
  <2> SUFFICES ASSUME NEW q \in Dtypes, NEW g, NEW h,
                      \A y \in Dtypes : DtypeDepth(y) < DtypeDepth(q) => g[y] = h[y]
               PROVE  DeclarationsBody(g, q) = DeclarationsBody(h, q)
    BY DEF DeclarationsRec!Local

  <2>1. \A i \in DOMAIN Inside[q] : g[Inside[q][i].dtype] = h[Inside[q][i].dtype]
    BY InsideFacts DEF FieldsOf
  <2>2. ASSUME NEW pl \in Seq(Names)
        PROVE  DeclarationsOne(g, q, pl) = DeclarationsOne(h, q, pl)
    <3>1. [i \in DOMAIN Inside[q] |-> g[Inside[q][i].dtype][Append(pl, Inside[q][i].name)]]
          = [i \in DOMAIN Inside[q] |-> h[Inside[q][i].dtype][Append(pl, Inside[q][i].name)]]
      BY <2>1, Zenon
    <3> QED
      BY <3>1, Zenon DEF DeclarationsOne
  <2> QED
    BY <2>2, Zenon DEF DeclarationsBody

<1>2. DeclarationsRec!Ranked
  BY DtypeFacts DEF DeclarationsRec!Ranked
<1>3. \E f : f = [q \in Dtypes |-> DeclarationsBody(f, q)]
  BY <1>1, <1>2, LeastNumber, DeclarationsRec!RecursiveFunction
<1>4. Declarations = [q \in Dtypes |-> DeclarationsBody(Declarations, q)]
  <2>1. Declarations = CHOOSE f : f = [q \in Dtypes |-> DeclarationsBody(f, q)]
    BY DEF Declarations, DeclarationsBody, DeclarationsOne
  <2> QED
    BY <1>3, <2>1, Zenon
<1>5. Declarations[d] = DeclarationsBody(Declarations, d)
  BY <1>4
<1> QED
  BY <1>5 DEF DeclarationsBody

DeclaredInOne(f, d, path) ==
    UNION {IF Len(path) = 1 THEN {x} ELSE f[x.dtype][Tail(path)] : x \in Named(Inside[d], path)}

DeclaredInBody(f, d) ==
    [path \in Seq(Names) |-> DeclaredInOne(f, d, path)]

DeclaredInRec == INSTANCE Recursion WITH S <- Dtypes, Rank <- DtypeDepth, Body <- DeclaredInBody

(* What is declared at a place inside a dtype, from what is inside it.     *)
LEMMA DeclaredInUnfold ==
    ASSUME NEW d \in Dtypes, NEW path \in Seq(Names)
    PROVE  DeclaredIn[d][path] = DeclaredInOne(DeclaredIn, d, path)
<1>1. DeclaredInRec!Local
  <2> SUFFICES ASSUME NEW q \in Dtypes, NEW g, NEW h,
                      \A y \in Dtypes : DtypeDepth(y) < DtypeDepth(q) => g[y] = h[y]
               PROVE  DeclaredInBody(g, q) = DeclaredInBody(h, q)
    BY DEF DeclaredInRec!Local

  <2>1. \A x \in ToSet(Inside[q]) : g[x.dtype] = h[x.dtype]
    BY InsideFacts DEF FieldsOf, ToSet
  <2>2. ASSUME NEW pl \in Seq(Names)
        PROVE  DeclaredInOne(g, q, pl) = DeclaredInOne(h, q, pl)
    <3>1. \A x \in Named(Inside[q], pl) : g[x.dtype][Tail(pl)] = h[x.dtype][Tail(pl)]
      BY <2>1 DEF Named
    <3> QED
      BY <3>1 DEF DeclaredInOne
  <2> QED
    BY <2>2, Zenon DEF DeclaredInBody

<1>2. DeclaredInRec!Ranked
  BY DtypeFacts DEF DeclaredInRec!Ranked
<1>3. \E f : f = [q \in Dtypes |-> DeclaredInBody(f, q)]
  BY <1>1, <1>2, LeastNumber, DeclaredInRec!RecursiveFunction
<1>4. DeclaredIn = [q \in Dtypes |-> DeclaredInBody(DeclaredIn, q)]
  <2>1. DeclaredIn = CHOOSE f : f = [q \in Dtypes |-> DeclaredInBody(f, q)]
    BY DEF DeclaredIn, DeclaredInBody, DeclaredInOne
  <2> QED
    BY <1>3, <2>1, Zenon
<1>5. DeclaredIn[d] = DeclaredInBody(DeclaredIn, d)
  BY <1>4
<1> QED
  BY <1>5 DEF DeclaredInBody

CompileDtypeOne(f, d, path, b) ==
    CASE d.kind = "Extension"  -> Node(path, d.ext, b, <<>>)
      [] d.kind = "Timestamp"  -> Node(path, "DateTimeMs", b, <<>>)
      [] d.kind = "Struct"     ->
            Node(path, "Struct", b,
                 [i \in DOMAIN d.fields |->
                     f[d.fields[i].dtype][JoinPath(path, d.fields[i].name)][d.fields[i].nullable]])
      [] d.kind \in Lists      ->
            Node(path, "List", b, <<f[d.item.dtype][JoinPath(path, d.item.name)][d.item.nullable]>>)
      [] d.kind = "Dictionary" -> f[d.inner][path][b]
      [] d.kind \in Strings    -> Node(path, "String", b, <<>>)
      [] d.kind \in Binaries   -> Node(path, "Binary", b, <<>>)
      [] OTHER                 -> Node(path, Scalars[d.kind], b, <<>>)

CompileDtypeBody(f, d) ==
    [path \in Seq(Names) |-> [b \in BOOLEAN |-> CompileDtypeOne(f, d, path, b)]]

CompileRec == INSTANCE Recursion WITH S <- Dtypes, Rank <- DtypeDepth, Body <- CompileDtypeBody

(* The plan of a field, from those of the fields inside it.                *)
LEMMA CompileDtypeUnfold ==
    ASSUME NEW d \in Dtypes, NEW path \in Seq(Names), NEW b \in BOOLEAN
    PROVE  CompileDtype[d][path][b] = CompileDtypeOne(CompileDtype, d, path, b)
<1>1. CompileRec!Local
  <2> SUFFICES ASSUME NEW q \in Dtypes, NEW g, NEW h,
                      \A y \in Dtypes : DtypeDepth(y) < DtypeDepth(q) => g[y] = h[y]
               PROVE  CompileDtypeBody(g, q) = CompileDtypeBody(h, q)
    BY DEF CompileRec!Local

  <2>1. q.kind = "Struct" => \A i \in DOMAIN q.fields : g[q.fields[i].dtype] = h[q.fields[i].dtype]
    BY DtypeFacts
  <2>2. q.kind \in Lists => g[q.item.dtype] = h[q.item.dtype]
    BY DtypeFacts
  <2>3. q.kind = "Dictionary" => g[q.inner] = h[q.inner]
    BY DtypeFacts
  <2>4. ASSUME NEW pl \in Seq(Names), NEW c \in BOOLEAN
        PROVE  CompileDtypeOne(g, q, pl, c) = CompileDtypeOne(h, q, pl, c)
    <3>1. CASE q.kind = "Struct"
      <4>1. [i \in DOMAIN q.fields |->
                g[q.fields[i].dtype][JoinPath(pl, q.fields[i].name)][q.fields[i].nullable]]
            = [i \in DOMAIN q.fields |->
                  h[q.fields[i].dtype][JoinPath(pl, q.fields[i].name)][q.fields[i].nullable]]
        BY <2>1, <3>1, Zenon
      <4> QED
        BY <3>1, <4>1 DEF CompileDtypeOne
    <3>2. CASE q.kind # "Struct"
      BY <2>2, <2>3, <3>2 DEF CompileDtypeOne
    <3> QED
      BY <3>1, <3>2
  <2> QED
    BY <2>4, Zenon DEF CompileDtypeBody

<1>2. CompileRec!Ranked
  BY DtypeFacts DEF CompileRec!Ranked
<1>3. \E f : f = [q \in Dtypes |-> CompileDtypeBody(f, q)]
  BY <1>1, <1>2, LeastNumber, CompileRec!RecursiveFunction
<1>4. CompileDtype = [q \in Dtypes |-> CompileDtypeBody(CompileDtype, q)]
  <2>1. CompileDtype = CHOOSE f : f = [q \in Dtypes |-> CompileDtypeBody(f, q)]
    BY DEF CompileDtype, CompileDtypeBody, CompileDtypeOne
  <2> QED
    BY <1>3, <2>1, Zenon
<1>5. CompileDtype[d] = CompileDtypeBody(CompileDtype, d)
  BY <1>4
<1> QED
  BY <1>5 DEF CompileDtypeBody

ExpressibleOne(f, d) ==
    /\ d.kind = "Dictionary" => f[d.inner]
    /\ CASE d.kind = "Extension"  -> StorageOk(d.ext, d.inner) /\ (d.inner.kind = "Timestamp" => ~d.inner.zoned)
         [] d.kind = "Timestamp"  -> d.unit = "ms" /\ ~d.zoned
         [] d.kind = "Dictionary" -> d.key = "UInt32"
         [] OTHER -> d.kind \in DOMAIN Scalars \cup Strings \cup Binaries \cup Lists \cup {"Struct"}

ExpressibleBody(f, d) ==
    ExpressibleOne(f, d)

ExpressibleRec == INSTANCE Recursion WITH S <- Dtypes, Rank <- DtypeDepth, Body <- ExpressibleBody

(* Whether a dtype has a converter, from the values of a dictionary.       *)
LEMMA ExpressibleUnfold ==
    ASSUME NEW d \in Dtypes
    PROVE  Expressible[d] = ExpressibleOne(Expressible, d)
<1>1. ExpressibleRec!Local
  <2> SUFFICES ASSUME NEW q \in Dtypes, NEW g, NEW h,
                      \A y \in Dtypes : DtypeDepth(y) < DtypeDepth(q) => g[y] = h[y]
               PROVE  ExpressibleBody(g, q) = ExpressibleBody(h, q)
    BY DEF ExpressibleRec!Local

  <2>1. q.kind = "Dictionary" => g[q.inner] = h[q.inner]
    BY DtypeFacts
  <2> QED
    BY <2>1 DEF ExpressibleBody, ExpressibleOne

<1>2. ExpressibleRec!Ranked
  BY DtypeFacts DEF ExpressibleRec!Ranked
<1>3. \E f : f = [q \in Dtypes |-> ExpressibleBody(f, q)]
  BY <1>1, <1>2, LeastNumber, ExpressibleRec!RecursiveFunction
<1>4. Expressible = [q \in Dtypes |-> ExpressibleBody(Expressible, q)]
  <2>1. Expressible = CHOOSE f : f = [q \in Dtypes |-> ExpressibleBody(f, q)]
    BY DEF Expressible, ExpressibleBody, ExpressibleOne
  <2> QED
    BY <1>3, <2>1, Zenon
<1>5. Expressible[d] = ExpressibleBody(Expressible, d)
  BY <1>4
<1> QED
  BY <1>5 DEF ExpressibleBody

(* FlattenSeq goes through the sequences one by one.                       *)
Flattens(f, T, seqs, n) ==
    /\ FlattenSeq(seqs) = f[n]
    /\ f[1] = seqs[1]
    /\ \A i \in 1 .. n : f[i] \in Seq(T)
    /\ \A i \in 2 .. n : f[i] = f[i - 1] \o seqs[i]

(* Sequences are strung together one after the other.                      *)
LEMMA FlattenSteps ==
    ASSUME NEW T, NEW n \in Nat, n # 0, NEW seqs, Len(seqs) = n, \A i \in 1 .. n : seqs[i] \in Seq(T)
    PROVE  \E f : Flattens(f, T, seqs, n)
<1> DEFINE m == n - 1
           G == [k \in 1 .. m |-> [u \in Seq(T) |-> u \o seqs[k + 1]]]
           Is(f) == f = [i \in 1 .. n |-> IF i = 1 THEN seqs[1] ELSE f[i - 1] \o seqs[i]]
<1>1. m \in Nat /\ n = m + 1 /\ 1 \in 1 .. n
  OBVIOUS
<1>2. \A k \in 1 .. m : \A u \in Seq(T) : G[k][u] = u \o seqs[k + 1] /\ u \o seqs[k + 1] \in Seq(T)
  <2> SUFFICES ASSUME NEW k \in 1 .. m, NEW u \in Seq(T)
               PROVE  G[k][u] = u \o seqs[k + 1] /\ u \o seqs[k + 1] \in Seq(T)
    OBVIOUS
  <2>1. seqs[k + 1] \in Seq(T)
    OBVIOUS
  <2>2. u \o seqs[k + 1] \in Seq(T)
    BY <2>1, ConcatProperties
  <2> QED
    BY <2>2
<1> HIDE DEF m, G
<1>3. PICK h : Goes(h, m, seqs[1], G)
  BY <1>1, Successive
<1>4. h[0] = seqs[1] /\ h[0] \in Seq(T)
  BY <1>1, <1>3 DEF Goes
<1>5. \A k \in 1 .. m : h[k] = G[k][h[k - 1]]
  <2>1. \A k \in 1 .. m : k \in 0 .. m /\ k # 0
    BY <1>1
  <2> QED
    BY <1>3, <2>1 DEF Goes
<1> DEFINE Good == {k \in 0 .. m : h[k] \in Seq(T)}
<1>6. 0 \in Good
  BY <1>1, <1>4
<1>7. \A k \in 1 .. m : k - 1 \in Good => k \in Good
  <2> SUFFICES ASSUME NEW k \in 1 .. m, k - 1 \in Good PROVE k \in Good
    OBVIOUS
  <2>1. k \in 0 .. m /\ h[k - 1] \in Seq(T)
    BY <1>1
  <2>2. h[k] = G[k][h[k - 1]]
    BY <1>5
  <2>3. \A u \in Seq(T) : G[k][u] \in Seq(T)
    BY <1>2
  <2>4. h[k] \in Seq(T)
    BY <2>1, <2>2, <2>3
  <2> QED
    BY <2>1, <2>4
<1> HIDE DEF Good
<1>8. \A k \in 0 .. m : k \in Good
  BY <1>1, <1>6, <1>7, CountingUp
<1>9. \A k \in 0 .. m : h[k] \in Seq(T)
  BY <1>8 DEF Good
<1> DEFINE f == [i \in 1 .. n |-> h[i - 1]]
<1>10. \A i \in 1 .. n : f[i] = h[i - 1] /\ f[i] \in Seq(T)
  BY <1>1, <1>9
<1>11. \A i \in 2 .. n : f[i] = f[i - 1] \o seqs[i]
  <2> SUFFICES ASSUME NEW i \in 2 .. n PROVE f[i] = f[i - 1] \o seqs[i]
    OBVIOUS
  <2> DEFINE k == i - 1
  <2>1. k \in 1 .. m /\ k - 1 \in 0 .. m /\ i = k + 1 /\ i \in 1 .. n /\ k \in 1 .. n
    BY <1>1
  <2>2. f[i] = h[k] /\ f[k] = h[k - 1]
    BY <1>10, <2>1
  <2> HIDE DEF k, f
  <2>3. h[k] = h[k - 1] \o seqs[k + 1]
    BY <1>2, <1>5, <1>9, <2>1
  <2> QED
    BY <2>2, <2>3, <2>1 DEF k
<1>12. Is(f)
  <2>1. \A i \in 1 .. n : f[i] = IF i = 1 THEN seqs[1] ELSE f[i - 1] \o seqs[i]
    <3>1. f[1] = seqs[1]
      BY <1>1, <1>4, <1>10
    <3>2. \A i \in 1 .. n : i = 1 \/ i \in 2 .. n
      BY <1>1
    <3> HIDE DEF f
    <3> QED
      BY <1>11, <3>1, <3>2
  <2>2. f = [i \in 1 .. n |-> f[i]]
    OBVIOUS
  <2> HIDE DEF f
  <2>3. [i \in 1 .. n |-> f[i]] = [i \in 1 .. n |-> IF i = 1 THEN seqs[1] ELSE f[i - 1] \o seqs[i]]
    BY <2>1, Zenon
  <2> QED
    BY <2>2, <2>3
<1> HIDE DEF f
<1> DEFINE flatten == CHOOSE x : Is(x)
<1>13. Is(flatten)
  BY <1>12, Zenon
<1>14. FlattenSeq(seqs) = flatten[n]
  BY <1>1 DEF FlattenSeq
<1> HIDE DEF flatten
<1>15. flatten[1] = seqs[1]
  BY <1>1, <1>13
<1>16. \A i \in 2 .. n : flatten[i] = flatten[i - 1] \o seqs[i]
  <2>1. \A i \in 2 .. n : i \in 1 .. n /\ i # 1
    BY <1>1
  <2>2. \A i \in 1 .. n : flatten[i] = IF i = 1 THEN seqs[1] ELSE flatten[i - 1] \o seqs[i]
    BY <1>13
  <2> HIDE DEF Is
  <2> QED
    BY <2>1, <2>2
<1> HIDE DEF Is
<1> DEFINE Typed == {k \in 0 .. m : flatten[k + 1] \in Seq(T)}
<1>17. 0 \in Typed
  BY <1>1, <1>4, <1>15
<1>18. \A k \in 1 .. m : k - 1 \in Typed => k \in Typed
  <2> SUFFICES ASSUME NEW k \in 1 .. m, k - 1 \in Typed PROVE k \in Typed
    OBVIOUS
  <2>1. k + 1 \in 2 .. n /\ (k + 1) - 1 = k /\ (k - 1) + 1 = k /\ k + 1 \in 1 .. n /\ k \in 0 .. m
    BY <1>1
  <2>2. flatten[k] \in Seq(T)
    BY <2>1
  <2>3. flatten[k + 1] = flatten[k] \o seqs[k + 1]
    BY <1>16, <2>1
  <2>4. seqs[k + 1] \in Seq(T)
    BY <2>1
  <2>5. flatten[k + 1] \in Seq(T)
    BY <2>2, <2>3, <2>4, ConcatProperties
  <2> QED
    BY <2>1, <2>5
<1> HIDE DEF Typed
<1>19. \A k \in 0 .. m : k \in Typed
  BY <1>1, <1>17, <1>18, CountingUp
<1>20. \A i \in 1 .. n : flatten[i] \in Seq(T)
  <2> SUFFICES ASSUME NEW i \in 1 .. n PROVE flatten[i] \in Seq(T)
    OBVIOUS
  <2>1. i - 1 \in 0 .. m /\ (i - 1) + 1 = i
    BY <1>1
  <2>2. i - 1 \in Typed
    BY <1>19, <2>1
  <2> QED
    BY <2>1, <2>2 DEF Typed
<1>21. Flattens(flatten, T, seqs, n)
  BY <1>14, <1>15, <1>16, <1>20 DEF Flattens
<1> QED
  BY <1>21

Declared == [path : Seq(Names), dtype : Dtypes]

(* rejected is the place of the first of some declarations that has no     *)
(* converter, or None.                                                     *)
Decides(rejected, all) ==
    /\ all \in Seq(Declared)
    /\ rejected = None => \A k \in 1 .. Len(all) : Expressible[all[k].dtype]
    /\ rejected # None =>
          \E k \in 1 .. Len(all) : /\ ~Expressible[all[k].dtype]
                                   /\ rejected = Some(all[k].path)
                                   /\ \A j \in 1 .. k - 1 : Expressible[all[j].dtype]

(* Some declarations, and then others.                                     *)
LEMMA DecidesBoth ==
    ASSUME NEW a, NEW b, NEW s, NEW t, Decides(a, s), Decides(b, t)
    PROVE  Decides(IF a # None THEN a ELSE b, s \o t)
<1> DEFINE r == IF a # None THEN a ELSE b
           m == Len(s)
           n == Len(t)
           u == s \o t
<1>1. s \in Seq(Declared) /\ t \in Seq(Declared) /\ m \in Nat /\ n \in Nat
  BY DEF Decides
<1>2. u \in Seq(Declared) /\ Len(u) = m + n
  BY <1>1, ConcatProperties
<1>3. \A k \in 1 .. m : k \in 1 .. m + n /\ u[k] = s[k]
  BY <1>1
<1>4. \A k \in 1 .. n : m + k \in 1 .. m + n /\ u[m + k] = t[k]
  BY <1>1
<1>5. \A k \in 1 .. m + n : k \in 1 .. m \/ \E j \in 1 .. n : k = m + j
  <2> SUFFICES ASSUME NEW k \in 1 .. m + n, k \notin 1 .. m PROVE \E j \in 1 .. n : k = m + j
    OBVIOUS
  <2>1. k - m \in 1 .. n /\ k = m + (k - m)
    BY <1>1
  <2> QED
    BY <2>1
<1> HIDE DEF u, m, n
<1>6. CASE a # None
  <2>1. PICK k \in 1 .. m : /\ ~Expressible[s[k].dtype]
                            /\ a = Some(s[k].path)
                            /\ \A j \in 1 .. k - 1 : Expressible[s[j].dtype]
    BY <1>6 DEF Decides, m
  <2>2. k \in 1 .. m + n /\ u[k] = s[k]
    BY <1>3
  <2>3. ASSUME NEW j \in 1 .. k - 1 PROVE Expressible[u[j].dtype]
    <3>1. j \in 1 .. m
      BY <1>1
    <3> QED
      BY <1>3, <2>1, <3>1
  <2>4. r = a
    BY <1>6
  <2> QED
    BY <1>2, <1>6, <2>1, <2>2, <2>3, <2>4 DEF Decides, u
<1>7. CASE a = None
  <2>1. r = b
    BY <1>7
  <2>2. \A k \in 1 .. m : Expressible[u[k].dtype]
    BY <1>3, <1>7 DEF Decides, m
  <2>3. CASE b = None
    <3>1. \A k \in 1 .. n : Expressible[u[m + k].dtype]
      BY <1>4, <2>3 DEF Decides, n
    <3>2. \A k \in 1 .. m + n : Expressible[u[k].dtype]
      BY <1>5, <2>2, <3>1
    <3> QED
      BY <1>2, <2>1, <2>3, <3>2 DEF Decides, u
  <2>4. CASE b # None
    <3>1. PICK k \in 1 .. n : /\ ~Expressible[t[k].dtype]
                              /\ b = Some(t[k].path)
                              /\ \A j \in 1 .. k - 1 : Expressible[t[j].dtype]
      BY <2>4 DEF Decides, n
    <3>2. m + k \in 1 .. m + n /\ u[m + k] = t[k]
      BY <1>4
    <3>3. ASSUME NEW j \in 1 .. (m + k) - 1 PROVE Expressible[u[j].dtype]
      <4>1. CASE j \in 1 .. m
        BY <2>2, <4>1
      <4>2. CASE j \notin 1 .. m
        <5>1. j - m \in 1 .. n /\ j - m \in 1 .. k - 1 /\ m + (j - m) = j
          BY <1>1, <4>2
        <5>2. u[j] = t[j - m]
          BY <1>4, <5>1
        <5> QED
          BY <3>1, <5>1, <5>2
      <4> QED
        BY <4>1, <4>2
    <3> QED
      BY <1>2, <2>1, <2>4, <3>1, <3>2, <3>3 DEF Decides, u
  <2> QED
    BY <2>3, <2>4
<1> QED
  BY <1>6, <1>7 DEF u

(* The first of the results 1 .. n that is an error, or None.              *)
First(r, results, n) ==
    \/ r = None /\ \A i \in 1 .. n : results[i] = None
    \/ \E i \in 1 .. n : /\ r = results[i] /\ results[i] # None
                         /\ \A j \in 1 .. i - 1 : results[j] = None

(* FirstOf takes the first error.                                          *)
LEMMA FirstIsFirst ==
    ASSUME NEW results, NEW n \in Nat, DOMAIN results = 1 .. n, NEW r, First(r, results, n)
    PROVE  r = FirstOf(results)
<1>1. CASE r = None /\ \A i \in 1 .. n : results[i] = None
  BY <1>1, FirstError
<1>2. CASE \E i \in 1 .. n : /\ r = results[i] /\ results[i] # None
                             /\ \A j \in 1 .. i - 1 : results[j] = None
  <2>1. PICK i \in 1 .. n : /\ r = results[i] /\ results[i] # None
                            /\ \A j \in 1 .. i - 1 : results[j] = None
    BY <1>2
  <2>2. PICK k \in 1 .. n : /\ FirstOf(results) = results[k] /\ results[k] # None
                            /\ \A j \in 1 .. k - 1 : results[j] = None
    BY <2>1, FirstError
  <2>3. i = k
    <3>1. ~(k < i)
      BY <2>1, <2>2
    <3>2. ~(i < k)
      BY <2>1, <2>2
    <3> QED
      BY <3>1, <3>2
  <2> QED
    BY <2>1, <2>2, <2>3
<1> QED
  BY <1>1, <1>2 DEF First

(* Declarations one after the other, with the first error of all.          *)
LEMMA DecidesInTurn ==
    ASSUME NEW n \in Nat, NEW results, DOMAIN results = 1 .. n,
           NEW seqs \in [1 .. n -> Seq(Declared)], \A i \in 1 .. n : Decides(results[i], seqs[i])
    PROVE  Decides(FirstOf(results), FlattenSeq(seqs))
<1>1. seqs \in Seq(Seq(Declared)) /\ Len(seqs) = n
  BY FunctionIsSequence
<1>2. CASE n = 0
  <2>1. seqs = <<>>
    BY <1>1, <1>2
  <2>2. FlattenSeq(seqs) = <<>>
    BY <2>1 DEF FlattenSeq
  <2>3. FirstOf(results) = None
    BY <1>2, FirstError
  <2> QED
    BY <2>2, <2>3 DEF Decides
<1>3. CASE n # 0
  <2>1. \A i \in 1 .. n : seqs[i] \in Seq(Declared)
    OBVIOUS
  <2>2. PICK f : Flattens(f, Declared, seqs, n)
    BY <1>1, <1>3, <2>1, FlattenSteps
  <2> DEFINE Upto(k) == \E r : First(r, results, k) /\ Decides(r, f[k])
             Good == {k \in 0 .. n : k = 0 \/ Upto(k)}
  <2>3. 0 \in Good
    OBVIOUS
  <2>4. ASSUME NEW k \in 1 .. n, k - 1 \in Good PROVE k \in Good
    <3>1. CASE k = 1
      <4>1. First(results[1], results, 1)
        BY DEF First
      <4>2. Decides(results[1], f[1])
        BY <2>2, <3>1 DEF Flattens
      <4> QED
        BY <3>1, <4>1, <4>2
    <3>2. CASE k # 1
      <4>1. k \in 2 .. n /\ k - 1 \in 1 .. n /\ k - 1 # 0
        BY <3>2
      <4>2. PICK r : First(r, results, k - 1) /\ Decides(r, f[k - 1])
        BY <2>4, <4>1
      <4> DEFINE s == IF r # None THEN r ELSE results[k]
      <4>3. f[k] = f[k - 1] \o seqs[k]
        BY <2>2, <4>1 DEF Flattens
      <4>4. Decides(s, f[k - 1] \o seqs[k])
        BY <4>2, DecidesBoth
      <4>5. First(s, results, k)
        <5>1. CASE r # None
          <6>1. PICK i \in 1 .. k - 1 : /\ r = results[i] /\ results[i] # None
                                        /\ \A j \in 1 .. i - 1 : results[j] = None
            BY <4>2, <5>1 DEF First
          <6>2. i \in 1 .. k /\ s = results[i]
            BY <5>1, <6>1
          <6> QED
            BY <6>1, <6>2 DEF First
        <5>2. CASE r = None
          <6>1. \A i \in 1 .. k - 1 : results[i] = None
            BY <4>2, <5>2 DEF First
          <6>2. s = results[k] /\ k \in 1 .. k /\ \A i \in 1 .. k : i \in 1 .. k - 1 \/ i = k
            BY <5>2
          <6> HIDE DEF s
          <6>3. CASE results[k] = None
            BY <6>1, <6>2, <6>3 DEF First
          <6>4. CASE results[k] # None
            BY <6>1, <6>2, <6>4 DEF First
          <6> QED
            BY <6>3, <6>4
        <5> QED
          BY <5>1, <5>2
      <4> HIDE DEF s
      <4>6. Decides(s, f[k])
        BY <4>3, <4>4
      <4>7. Upto(k)
        BY <4>5, <4>6
      <4> QED
        BY <4>1, <4>7
    <3> QED
      BY <3>1, <3>2
  <2> HIDE DEF Good
  <2>5. \A k \in 0 .. n : k \in Good
    BY <2>3, <2>4, CountingUp
  <2>6. PICK r : First(r, results, n) /\ Decides(r, f[n])
    BY <1>3, <2>5 DEF Good
  <2>7. r = FirstOf(results)
    BY <2>6, FirstIsFirst
  <2> QED
    BY <2>2, <2>6, <2>7 DEF Flattens
<1> QED
  BY <1>2, <1>3

(* What is rejected, and what is declared, in each field inside a dtype.   *)
RejectedInside(d, path) ==
    [i \in DOMAIN Inside[d] |-> Rejection[Inside[d][i].dtype][Append(path, Inside[d][i].name)]]

DeclaredInside(d, path) ==
    [i \in DOMAIN Inside[d] |-> Declarations[Inside[d][i].dtype][Append(path, Inside[d][i].name)]]

(* A dtype is rejected at its place if it has no converter, and else where *)
(* the first field inside it is.                                           *)
RejectedFirst(d) ==
    \A path \in Seq(Names) :
        Rejection[d][path] = IF Expressible[d] THEN FirstOf(RejectedInside(d, path)) ELSE Some(path)

(* Kinds are what they are called.                                         *)
LEMMA KindsApart ==
    /\ DOMAIN Scalars = {"Int32", "Int64", "Float64", "Boolean"}
    /\ Strings = {"Utf8", "LargeUtf8", "Utf8View"}
    /\ Binaries = {"Binary", "LargeBinary", "BinaryView"}
    /\ Lists = {"List", "LargeList"}
  BY DEF Scalars, Strings, Binaries, Lists

(* Nothing is rejected inside a dtype that has no fields.                  *)
LEMMA NothingInside ==
    ASSUME NEW d \in Dtypes, NEW path \in Seq(Names), Inside[d] = <<>>
    PROVE  FirstOf(RejectedInside(d, path)) = None
<1>1. DOMAIN RejectedInside(d, path) = 1 .. 0
  BY DEF RejectedInside
<1>2. 0 \in Nat /\ \A i \in 1 .. 0 : FALSE
  OBVIOUS
<1> HIDE DEF RejectedInside
<1> QED
  BY <1>1, <1>2, FirstError

(* compile_dtype goes through the fields inside a dtype in their order.    *)
LEMMA RejectedFirstAll == \A d \in Dtypes : RejectedFirst(d)
<1> DEFINE G == {d \in Dtypes : RejectedFirst(d)}
<1>1. ASSUME NEW d \in Dtypes, \A y \in Dtypes : DtypeDepth(y) < DtypeDepth(d) => y \in G
      PROVE  RejectedFirst(d)
  <2> SUFFICES ASSUME NEW path \in Seq(Names)
               PROVE  Rejection[d][path]
                      = IF Expressible[d] THEN FirstOf(RejectedInside(d, path)) ELSE Some(path)
    BY DEF RejectedFirst
  <2>1. Rejection[d][path] = RejectionOne(Rejection, d, path)
    BY RejectionUnfold
  <2>2. Expressible[d] = ExpressibleOne(Expressible, d)
    BY ExpressibleUnfold
  <2>3. Inside[d] = InsideOne(Inside, d)
    BY InsideUnfold
  <2>4. CASE Unsupported(d)
    <3>1. Rejection[d][path] = Some(path)
      <4>1. d.kind # "Struct" /\ d.kind \notin Lists /\ ~(d.kind = "Dictionary" /\ d.key = "UInt32")
        BY <2>4, KindsApart DEF Unsupported
      <4> QED
        BY <2>1, <2>4, <4>1 DEF RejectionOne
    <3>2. ~Expressible[d]
      BY <2>2, <2>4, KindsApart DEF ExpressibleOne, Unsupported
    <3> QED
      BY <3>1, <3>2
  <2>5. CASE ~Unsupported(d) /\ d.kind = "Struct"
    <3>1. Expressible[d] /\ Inside[d] = d.fields
      BY <2>2, <2>3, <2>5, KindsApart DEF ExpressibleOne, InsideOne
    <3>2. RejectedInside(d, path)
          = [i \in DOMAIN d.fields |-> Rejection[d.fields[i].dtype][JoinPath(path, d.fields[i].name)]]
      BY <3>1 DEF RejectedInside, JoinPath
    <3>3. Rejection[d][path]
          = FirstOf([i \in DOMAIN d.fields |-> Rejection[d.fields[i].dtype][JoinPath(path, d.fields[i].name)]])
      BY <2>1, <2>5, KindsApart DEF RejectionOne
    <3> QED
      BY <3>1, <3>2, <3>3
  <2>6. CASE ~Unsupported(d) /\ d.kind \in Lists
    <3>1. Expressible[d] /\ Inside[d] = <<d.item>>
      BY <2>2, <2>3, <2>6, KindsApart DEF ExpressibleOne, InsideOne
    <3>2. Rejection[d][path] = Rejection[d.item.dtype][Append(path, d.item.name)]
      BY <2>1, <2>6, KindsApart DEF RejectionOne, JoinPath
    <3> DEFINE rs == RejectedInside(d, path)
    <3>3. DOMAIN rs = 1 .. 1 /\ rs[1] = Rejection[d][path]
      BY <3>1, <3>2 DEF RejectedInside
    <3> HIDE DEF rs
    <3>4. First(rs[1], rs, 1)
      BY DEF First
    <3>5. rs[1] = FirstOf(rs)
      BY <3>3, <3>4, FirstIsFirst
    <3> QED
      BY <3>1, <3>3, <3>5 DEF rs
  <2>7. CASE ~Unsupported(d) /\ d.kind = "Dictionary"
    <3>1. d.inner \in Dtypes /\ RejectedFirst(d.inner)
      BY <1>1, <2>7, DtypeFacts
    <3>2. d.key = "UInt32"
      BY <2>7 DEF Unsupported
    <3>3. Rejection[d][path] = Rejection[d.inner][path]
      BY <2>1, <2>7, <3>2, KindsApart DEF RejectionOne
    <3>4. Expressible[d] <=> Expressible[d.inner]
      BY <2>2, <2>7, <3>2 DEF ExpressibleOne
    <3>5. Inside[d] = Inside[d.inner]
      BY <2>3, <2>7 DEF InsideOne
    <3>6. RejectedInside(d, path) = RejectedInside(d.inner, path)
      BY <3>5 DEF RejectedInside
    <3> QED
      BY <3>1, <3>3, <3>4, <3>6 DEF RejectedFirst
  <2>8. CASE /\ ~Unsupported(d)
             /\ d.kind # "Struct" /\ d.kind \notin Lists /\ d.kind # "Dictionary"
    <3>1. Rejection[d][path] = None
      BY <2>1, <2>8 DEF RejectionOne
    <3>2. Expressible[d]
      BY <2>2, <2>8, KindsApart DEF ExpressibleOne, Unsupported
    <3>3. Inside[d] = <<>>
      BY <2>3, <2>8 DEF InsideOne
    <3> QED
      BY <3>1, <3>2, <3>3, NothingInside
  <2> QED
    BY <2>4, <2>5, <2>6, <2>7, <2>8
<1> HIDE DEF G
<1>2. \A d \in Dtypes : (\A y \in Dtypes : DtypeDepth(y) < DtypeDepth(d) => y \in G) => d \in G
  BY <1>1 DEF G
<1>3. \A d \in Dtypes : d \in G
  BY <1>2, ByDtypeDepth
<1> QED
  BY <1>3 DEF G

(* A dtype is rejected at the first declaration in it that has no          *)
(* converter.                                                              *)
DtypeDecides(d) == \A path \in Seq(Names) : Decides(Rejection[d][path], Declarations[d][path])

(* What is inside a dtype is rejected at the first declaration that has no *)
(* converter.                                                              *)
LEMMA InsideDecides ==
    ASSUME NEW d \in Dtypes, NEW path \in Seq(Names),
           \A i \in DOMAIN Inside[d] : DtypeDecides(Inside[d][i].dtype)
    PROVE  Decides(FirstOf(RejectedInside(d, path)), FlattenSeq(DeclaredInside(d, path)))
<1> DEFINE rs == RejectedInside(d, path)
           ss == DeclaredInside(d, path)
           n  == Len(Inside[d])
<1>1. n \in Nat /\ DOMAIN Inside[d] = 1 .. n /\ \A i \in 1 .. n : Inside[d][i].name \in Names
  BY InsideFacts DEF FieldsOf
<1>2. DOMAIN rs = 1 .. n /\ DOMAIN ss = 1 .. n
  BY <1>1 DEF RejectedInside, DeclaredInside
<1>3. ASSUME NEW i \in 1 .. n PROVE Decides(rs[i], ss[i])
  <2> DEFINE place == Append(path, Inside[d][i].name)
  <2>1. place \in Seq(Names) /\ DtypeDecides(Inside[d][i].dtype)
    BY <1>1
  <2>2. rs[i] = Rejection[Inside[d][i].dtype][place] /\ ss[i] = Declarations[Inside[d][i].dtype][place]
    BY <1>1 DEF RejectedInside, DeclaredInside
  <2> HIDE DEF place, rs, ss
  <2> QED
    BY <2>1, <2>2 DEF DtypeDecides
<1>4. ss \in [1 .. n -> Seq(Declared)]
  <2>1. \A i \in 1 .. n : ss[i] \in Seq(Declared)
    BY <1>3 DEF Decides
  <2>2. ss = [i \in DOMAIN ss |-> ss[i]]
    BY DEF DeclaredInside
  <2> HIDE DEF ss
  <2> QED
    BY <1>2, <2>1, <2>2
<1> HIDE DEF rs, ss, n
<1>5. Decides(FirstOf(rs), FlattenSeq(ss))
  BY <1>1, <1>2, <1>3, <1>4, DecidesInTurn
<1> QED
  BY <1>5 DEF rs, ss

(* And so is the dtype with what is inside it.                             *)
LEMMA DtypesDecide == \A d \in Dtypes : DtypeDecides(d)
<1> DEFINE G == {d \in Dtypes : DtypeDecides(d)}
<1>1. ASSUME NEW d \in Dtypes, \A y \in Dtypes : DtypeDepth(y) < DtypeDepth(d) => y \in G
      PROVE  DtypeDecides(d)
  <2> SUFFICES ASSUME NEW path \in Seq(Names)
               PROVE  Decides(Rejection[d][path], Declarations[d][path])
    BY DEF DtypeDecides
  <2> DEFINE x    == [path |-> path, dtype |-> d]
             own  == IF Expressible[d] THEN None ELSE Some(path)
             rest == FirstOf(RejectedInside(d, path))
  <2>1. \A i \in DOMAIN Inside[d] : DtypeDecides(Inside[d][i].dtype)
    BY <1>1, InsideFacts DEF FieldsOf
  <2>2. Decides(rest, FlattenSeq(DeclaredInside(d, path)))
    BY <2>1, InsideDecides
  <2>3. Decides(own, <<x>>)
    <3>1. <<x>> \in Seq(Declared) /\ Len(<<x>>) = 1 /\ <<x>>[1] = x
      BY DEF Declared
    <3>2. x.dtype = d /\ x.path = path
      OBVIOUS
    <3>3. Some(path) # None
      BY DEF Some, None
    <3> HIDE DEF x
    <3> QED
      BY <3>1, <3>2, <3>3 DEF Decides
  <2>4. Declarations[d][path] = <<x>> \o FlattenSeq(DeclaredInside(d, path))
    <3>1. Declarations[d][path] = DeclarationsOne(Declarations, d, path)
      BY DeclarationsUnfold
    <3> QED
      BY <3>1 DEF DeclarationsOne, DeclaredInside
  <2>5. Rejection[d][path] = IF own # None THEN own ELSE rest
    <3>1. Rejection[d][path] = IF Expressible[d] THEN rest ELSE Some(path)
      BY RejectedFirstAll DEF RejectedFirst
    <3>2. Some(path) # None
      BY DEF Some, None
    <3> QED
      BY <3>1, <3>2
  <2> HIDE DEF x, own, rest
  <2> QED
    BY <2>2, <2>3, <2>4, <2>5, DecidesBoth
<1> HIDE DEF G
<1>2. \A d \in Dtypes : (\A y \in Dtypes : DtypeDepth(y) < DtypeDepth(d) => y \in G) => d \in G
  BY <1>1 DEF G
<1>3. \A d \in Dtypes : d \in G
  BY <1>2, ByDtypeDepth
<1> QED
  BY <1>3 DEF G

(* And so is a schema.                                                     *)
LEMMA SchemasDecide ==
    ASSUME NEW s \in Schemas
    PROVE  Decides(SchemaRejection(s), AllDeclarations(s))
<1> DEFINE rs == [i \in DOMAIN s |-> Rejection[s[i].dtype][<<s[i].name>>]]
           ss == [i \in DOMAIN s |-> Declarations[s[i].dtype][<<s[i].name>>]]
           n  == Len(s)
<1>1. /\ n \in Nat /\ DOMAIN s = 1 .. n
      /\ \A i \in 1 .. n : s[i].dtype \in Dtypes /\ <<s[i].name>> \in Seq(Names)
  BY SchemasAssumption
<1>2. \A i \in 1 .. n : Decides(rs[i], ss[i])
  BY <1>1, DtypesDecide, Zenon DEF DtypeDecides
<1>3. DOMAIN rs = 1 .. n /\ ss \in [1 .. n -> Seq(Declared)]
  <2>1. \A i \in 1 .. n : ss[i] \in Seq(Declared)
    BY <1>2, Zenon DEF Decides
  <2> QED
    BY <1>1, <2>1
<1> HIDE DEF rs, ss, n
<1>4. Decides(FirstOf(rs), FlattenSeq(ss))
  BY <1>1, <1>2, <1>3, DecidesInTurn
<1> QED
  BY <1>4 DEF rs, ss, SchemaRejection, AllDeclarations

(* A schema is refused, before any document, exactly if it declares a type *)
(* that has no converter, and at the first place where it does.            *)
THEOREM SchemaDecidesHolds == Spec => []SchemaDecides
<1>1. Init => SchemaDecides
  BY DEF Init, SchemaDecides
<1>2. IInv /\ SchemaDecides /\ [Next]_vars => SchemaDecides'
  <2> SUFFICES ASSUME IInv, SchemaDecides, [Next]_vars PROVE SchemaDecides'
    OBVIOUS
  <2> DEFINE all == AllDeclarations(schema)
  <2>1. CASE UNCHANGED vars
    BY <2>1 DEF vars, SchemaDecides
  <2>2. CASE Compile
    <3>1. schema \in Schemas /\ schema' = schema
      BY <2>2 DEF IInv, Shape, Compile
    <3>2. Decides(SchemaRejection(schema), all)
      BY <3>1, SchemasDecide
    <3>3. DOMAIN all = 1 .. Len(all)
      BY <3>2 DEF Decides
    <3> HIDE DEF all
    <3>4. CASE SchemaRejection(schema) # None
      <4>1. status' = "schema_error" /\ error' = SchemaRejection(schema)
        BY <2>2, <3>4 DEF Compile
      <4> QED
        BY <3>1, <3>2, <3>3, <3>4, <4>1 DEF SchemaDecides, Decides, all
    <3>5. CASE SchemaRejection(schema) = None
      <4>1. status' = "decoding"
        BY <2>2, <3>5 DEF Compile
      <4> QED
        BY <3>1, <3>2, <3>3, <3>5, <4>1 DEF SchemaDecides, Decides, all
    <3> QED
      BY <3>4, <3>5
  <2>3. CASE NextDocument \/ DecodeField \/ Finish \/ ThroughHex \/ Write
    <3>1. /\ schema' = schema /\ status \notin {"given", "schema_error"}
          /\ status' \notin {"given", "schema_error"}
      BY <2>3 DEF NextDocument, DecodeField, Finish, ThroughHex, Write
    <3> QED
      BY <3>1 DEF SchemaDecides
  <2> QED
    BY <2>1, <2>2, <2>3 DEF Next
<1> QED
  BY <1>1, <1>2, IInvHolds, PTL DEF Spec

----------------------------------------------------------------------------
(* Where a value is.                                                       *)

HeldAtOne(f, p, v, path) ==
    CASE path = <<>> -> {v}
      [] path # <<>> /\ p.type = "Struct" /\ v.tag = "EmbeddedDocument" ->
            UNION {f[p.children[i]][FieldOf(v, p.children[i])][Tail(path)] :
                      i \in {j \in DOMAIN p.children : p.children[j].name = Head(path)}}
      [] path # <<>> /\ p.type = "List" /\ v.tag = "Array" ->
            UNION {f[p.children[1]][v.items[k]][Tail(path)] : k \in DOMAIN v.items}
      [] OTHER -> {}

HeldAtBody(f, p) ==
    [v \in Bson[p] |-> [path \in Seq(Names) |-> HeldAtOne(f, p, v, path)]]

HeldAtRec == INSTANCE Recursion WITH S <- Nodes, Rank <- Depth, Body <- HeldAtBody

(* What a value holds at a place, from what the values inside it do.       *)
LEMMA HeldAtUnfold ==
    ASSUME NEW p \in Nodes, NEW v \in Bson[p], NEW path \in Seq(Names)
    PROVE  HeldAt[p][v][path] = HeldAtOne(HeldAt, p, v, path)
<1>1. HeldAtRec!Local
  <2> SUFFICES ASSUME NEW q \in Nodes, NEW g, NEW h,
                      \A y \in Nodes : Depth(y) < Depth(q) => g[y] = h[y]
               PROVE  HeldAtBody(g, q) = HeldAtBody(h, q)
    BY DEF HeldAtRec!Local
  <2>1. \A i \in DOMAIN q.children : g[q.children[i]] = h[q.children[i]]
    BY NodeFacts
  <2>2. q.type = "List" => g[q.children[1]] = h[q.children[1]]
    BY <2>1, NodeFacts
  <2>3. ASSUME NEW w \in Bson[q], NEW pl \in Seq(Names)
        PROVE  HeldAtOne(g, q, w, pl) = HeldAtOne(h, q, w, pl)
    <3>1. UNION {g[q.children[i]][FieldOf(w, q.children[i])][Tail(pl)] :
                    i \in {j \in DOMAIN q.children : q.children[j].name = Head(pl)}}
          = UNION {h[q.children[i]][FieldOf(w, q.children[i])][Tail(pl)] :
                      i \in {j \in DOMAIN q.children : q.children[j].name = Head(pl)}}
      BY <2>1
    <3>2. CASE q.type = "Struct"
      BY <3>1, <3>2 DEF HeldAtOne
    <3>3. CASE q.type = "List"
      BY <2>2, <3>3 DEF HeldAtOne
    <3>4. CASE q.type # "Struct" /\ q.type # "List"
      BY <3>4 DEF HeldAtOne
    <3> QED
      BY <3>2, <3>3, <3>4
  <2> QED
    BY <2>3, Zenon DEF HeldAtBody
<1>2. HeldAtRec!Ranked
  BY NodeFacts DEF HeldAtRec!Ranked
<1>3. \E f : f = [q \in Nodes |-> HeldAtBody(f, q)]
  BY <1>1, <1>2, LeastNumber, HeldAtRec!RecursiveFunction
<1>4. HeldAt = [q \in Nodes |-> HeldAtBody(HeldAt, q)]
  <2>1. HeldAt = CHOOSE f : f = [q \in Nodes |-> HeldAtBody(f, q)]
    BY DEF HeldAt, HeldAtBody, HeldAtOne
  <2> QED
    BY <1>3, <2>1, Zenon
<1>5. HeldAt[p] = HeldAtBody(HeldAt, p)
  BY <1>4
<1> QED
  BY <1>5 DEF HeldAtBody

(* A value holds itself.                                                   *)
LEMMA HoldsItself ==
    ASSUME NEW p \in Nodes, NEW v \in Bson[p]
    PROVE  v \in HeldAt[p][v][<<>>]
<1>1. <<>> \in Seq(Names)
  OBVIOUS
<1>2. HeldAt[p][v][<<>>] = HeldAtOne(HeldAt, p, v, <<>>)
  BY <1>1, HeldAtUnfold
<1> QED
  BY <1>2 DEF HeldAtOne

(* A place is a name and a way.                                            *)
LEMMA Way ==
    ASSUME NEW name \in Names, NEW way \in Seq(Names)
    PROVE  /\ <<name>> \o way \in Seq(Names)
           /\ <<name>> \o way # <<>>
           /\ Head(<<name>> \o way) = name
           /\ Tail(<<name>> \o way) = way
           /\ Len(<<name>> \o way) = Len(way) + 1
           /\ Len(<<name>> \o way) = 1 <=> way = <<>>
<1> DEFINE s == <<name>> \o way
<1>1. s \in Seq(Names) /\ Len(s) = 1 + Len(way) /\ Len(way) \in Nat
  OBVIOUS
<1>2. s[1] = name /\ \A k \in 1 .. Len(way) : s[k + 1] = way[k]
  OBVIOUS
<1> HIDE DEF s
<1>3. s # <<>> /\ Head(s) = name
  BY <1>1, <1>2
<1>4. Tail(s) \in Seq(Names) /\ Len(Tail(s)) = Len(way) /\ \A k \in 1 .. Len(way) : Tail(s)[k] = way[k]
  BY <1>1, <1>2, <1>3, HeadTailProperties
<1>5. Tail(s) = way
  BY <1>4, SeqEqual
<1>6. Len(s) = 1 <=> way = <<>>
  BY <1>1
<1> QED
  BY <1>1, <1>3, <1>5, <1>6 DEF s

(* The fields of a document hold what it does, under their names.          *)
LEMMA HeldInField ==
    ASSUME NEW p \in Nodes, p.type = "Struct", NEW v \in Bson[p], v.tag = "EmbeddedDocument",
           NEW i \in DOMAIN p.children, NEW name \in Names, p.children[i].name = name,
           NEW way \in Seq(Names), NEW w \in HeldAt[p.children[i]][FieldOf(v, p.children[i])][way]
    PROVE  w \in HeldAt[p][v][<<name>> \o way]
<1> DEFINE s == <<name>> \o way
<1>1. s \in Seq(Names) /\ s # <<>> /\ Head(s) = name /\ Tail(s) = way
  BY Way
<1> HIDE DEF s
<1>2. HeldAt[p][v][s] = HeldAtOne(HeldAt, p, v, s)
  BY <1>1, HeldAtUnfold
<1>3. HeldAt[p][v][s] = UNION {HeldAt[p.children[j]][FieldOf(v, p.children[j])][Tail(s)] :
                                  j \in {j \in DOMAIN p.children : p.children[j].name = Head(s)}}
  BY <1>1, <1>2 DEF HeldAtOne
<1>4. w \in HeldAt[p][v][s]
  BY <1>1, <1>3
<1> QED
  BY <1>4 DEF s

(* And so do the items of an array.                                        *)
LEMMA HeldInItem ==
    ASSUME NEW p \in Nodes, p.type = "List", NEW v \in Bson[p], v.tag = "Array",
           NEW k \in DOMAIN v.items, NEW name \in Names,
           NEW way \in Seq(Names), NEW w \in HeldAt[p.children[1]][v.items[k]][way]
    PROVE  w \in HeldAt[p][v][<<name>> \o way]
<1> DEFINE s == <<name>> \o way
<1>1. s \in Seq(Names) /\ s # <<>> /\ Tail(s) = way
  BY Way
<1> HIDE DEF s
<1>2. HeldAt[p][v][s] = HeldAtOne(HeldAt, p, v, s)
  BY <1>1, HeldAtUnfold
<1>3. HeldAt[p][v][s] = UNION {HeldAt[p.children[1]][v.items[j]][Tail(s)] : j \in DOMAIN v.items}
  BY <1>1, <1>2 DEF HeldAtOne
<1>4. w \in HeldAt[p][v][s]
  BY <1>1, <1>3
<1> QED
  BY <1>4 DEF s

(* The plan of a field stands at its place, is nullable as it is, and has  *)
(* for its children the plans of the fields inside its dtype.              *)
Compiled(f, path) == CompileDtype[f.dtype][Append(path, f.name)][f.nullable]

PlansWhatIsInside(p, d, path, b) ==
    /\ p.path = path
    /\ p.name = path[Len(path)]
    /\ DOMAIN p.children = DOMAIN Inside[d]
    /\ \A i \in DOMAIN Inside[d] : p.children[i] = Compiled(Inside[d][i], path)

CompiledAsDeclared(d) ==
    \A path \in Seq(Names), b \in BOOLEAN : PlansWhatIsInside(CompileDtype[d][path][b], d, path, b)

(* compile_dtype plans every dtype so.                                     *)
LEMMA AllCompiledAsDeclared == \A d \in Dtypes : CompiledAsDeclared(d)
<1> DEFINE G == {d \in Dtypes : CompiledAsDeclared(d)}
<1>1. ASSUME NEW d \in Dtypes, \A y \in Dtypes : DtypeDepth(y) < DtypeDepth(d) => y \in G
      PROVE  CompiledAsDeclared(d)
  <2> SUFFICES ASSUME NEW path \in Seq(Names), NEW b \in BOOLEAN
               PROVE  PlansWhatIsInside(CompileDtype[d][path][b], d, path, b)
    BY DEF CompiledAsDeclared
  <2> DEFINE p == CompileDtype[d][path][b]
  <2>1. p = CompileDtypeOne(CompileDtype, d, path, b)
    BY CompileDtypeUnfold
  <2>2. Inside[d] = InsideOne(Inside, d)
    BY InsideUnfold
  <2> HIDE DEF p
  <2>3. CASE d.kind = "Struct"
    <3> DEFINE cs == [i \in DOMAIN d.fields |->
                         CompileDtype[d.fields[i].dtype][JoinPath(path, d.fields[i].name)][d.fields[i].nullable]]
    <3>1. p = Node(path, "Struct", b, cs)
      BY <2>1, <2>3, KindsApart DEF CompileDtypeOne
    <3>2. Inside[d] = d.fields
      BY <2>2, <2>3, KindsApart DEF InsideOne
    <3>3. DOMAIN cs = DOMAIN d.fields /\ \A i \in DOMAIN d.fields : cs[i] = Compiled(d.fields[i], path)
      BY DEF Compiled, JoinPath
    <3> HIDE DEF cs
    <3>4. p.path = path /\ p.name = path[Len(path)] /\ p.children = cs
      BY <3>1 DEF Node
    <3> QED
      BY <3>2, <3>3, <3>4 DEF PlansWhatIsInside, p
  <2>4. CASE d.kind \in Lists
    <3> DEFINE c == CompileDtype[d.item.dtype][JoinPath(path, d.item.name)][d.item.nullable]
    <3>1. p = Node(path, "List", b, <<c>>)
      BY <2>1, <2>4, KindsApart DEF CompileDtypeOne
    <3>2. Inside[d] = <<d.item>>
      BY <2>2, <2>4, KindsApart DEF InsideOne
    <3>3. c = Compiled(d.item, path)
      BY DEF Compiled, JoinPath
    <3> HIDE DEF c
    <3>4. p.path = path /\ p.name = path[Len(path)] /\ p.children = <<c>>
      BY <3>1 DEF Node
    <3> QED
      BY <3>2, <3>3, <3>4 DEF PlansWhatIsInside, p
  <2>5. CASE d.kind = "Dictionary"
    <3>1. d.inner \in Dtypes /\ CompiledAsDeclared(d.inner)
      BY <1>1, <2>5, DtypeFacts
    <3>2. p = CompileDtype[d.inner][path][b]
      BY <2>1, <2>5, KindsApart DEF CompileDtypeOne
    <3>3. Inside[d] = Inside[d.inner]
      BY <2>2, <2>5 DEF InsideOne
    <3> QED
      BY <3>1, <3>2, <3>3 DEF CompiledAsDeclared, PlansWhatIsInside, p
  <2>6. CASE d.kind # "Struct" /\ d.kind \notin Lists /\ d.kind # "Dictionary"
    <3>1. \E type : p = Node(path, type, b, <<>>)
      <4>1. CASE d.kind = "Extension"
        BY <2>1, <4>1, KindsApart DEF CompileDtypeOne
      <4>2. CASE d.kind = "Timestamp"
        BY <2>1, <4>2, KindsApart DEF CompileDtypeOne
      <4>3. CASE d.kind \in Strings
        BY <2>1, <4>3, KindsApart DEF CompileDtypeOne
      <4>4. CASE d.kind \in Binaries
        BY <2>1, <4>4, KindsApart DEF CompileDtypeOne
      <4>5. CASE /\ d.kind # "Extension" /\ d.kind # "Timestamp"
                 /\ d.kind \notin Strings /\ d.kind \notin Binaries
        BY <2>1, <2>6, <4>5, Zenon DEF CompileDtypeOne
      <4> QED
        BY <4>1, <4>2, <4>3, <4>4, <4>5
    <3>2. p.path = path /\ p.name = path[Len(path)] /\ p.children = <<>>
      BY <3>1 DEF Node
    <3>3. Inside[d] = <<>>
      BY <2>2, <2>6 DEF InsideOne
    <3> QED
      BY <3>2, <3>3 DEF PlansWhatIsInside, p
  <2> QED
    BY <2>3, <2>4, <2>5, <2>6
<1> HIDE DEF G
<1>2. \A d \in Dtypes : (\A y \in Dtypes : DtypeDepth(y) < DtypeDepth(d) => y \in G) => d \in G
  BY <1>1 DEF G
<1>3. \A d \in Dtypes : d \in G
  BY <1>2, ByDtypeDepth
<1> QED
  BY <1>3 DEF G

(* A node is what a dtype compiles to.                                     *)
CompiledFrom(p, d, path, b) == p = CompileDtype[d][path][b]

(* A child of a node that a dtype compiles to is what a field inside the   *)
(* dtype does.                                                             *)
LEMMA ChildCompiled ==
    ASSUME NEW p \in Nodes, NEW d \in Dtypes, NEW path \in Seq(Names), NEW b \in BOOLEAN,
           CompiledFrom(p, d, path, b), NEW i \in DOMAIN p.children
    PROVE  /\ i \in DOMAIN Inside[d]
           /\ Inside[d][i].name \in Names /\ Inside[d][i].dtype \in Dtypes /\ Inside[d][i].nullable \in BOOLEAN
           /\ Append(path, Inside[d][i].name) \in Seq(Names)
           /\ p.children[i].name = Inside[d][i].name
           /\ p.children[i] = CompileDtype[Inside[d][i].dtype][Append(path, Inside[d][i].name)][Inside[d][i].nullable]
<1> DEFINE f == Inside[d][i]
           place == Append(path, f.name)
<1>1. i \in DOMAIN Inside[d] /\ p.children[i] = CompileDtype[f.dtype][place][f.nullable]
  BY AllCompiledAsDeclared DEF CompiledFrom, CompiledAsDeclared, PlansWhatIsInside, Compiled
<1>2. f.name \in Names /\ f.dtype \in Dtypes /\ f.nullable \in BOOLEAN
  BY <1>1, InsideFacts DEF FieldsOf
<1>3. place \in Seq(Names) /\ place[Len(place)] = f.name
  BY <1>2
<1> HIDE DEF place, f
<1>4. p.children[i].name = f.name
  BY <1>1, <1>2, <1>3, AllCompiledAsDeclared DEF CompiledAsDeclared, PlansWhatIsInside
<1> QED
  BY <1>1, <1>2, <1>3, <1>4 DEF place, f

(* The plans of what is declared some way inside a dtype at a place.       *)
PlansWithin(d, path, b, way) ==
    IF way = <<>> THEN {CompileDtype[d][path][b]}
    ELSE {CompileDtype[f.dtype][path \o way][f.nullable] : f \in DeclaredIn[d][way]}

(* A plan of what a list of fields declares somewhere, standing at a place.*)
PlannedAt(fields, way, place, q) ==
    \E g \in DeclaredAt(fields, way) : q = CompileDtype[g.dtype][place][g.nullable]

(* A field of a list of fields, and what is inside its dtype, is declared  *)
(* under its name.                                                         *)
LEMMA DeclaredDown ==
    ASSUME NEW fields, NEW i \in DOMAIN fields, fields[i].name \in Names, fields[i].nullable \in BOOLEAN,
           NEW way \in Seq(Names), NEW place \in Seq(Names),
           NEW q \in PlansWithin(fields[i].dtype, place, fields[i].nullable, way)
    PROVE  PlannedAt(fields, <<fields[i].name>> \o way, place \o way, q)
<1> DEFINE f == fields[i]
           s == <<f.name>> \o way
<1>1. s \in Seq(Names) /\ Head(s) = f.name /\ Tail(s) = way /\ (Len(s) = 1 <=> way = <<>>)
  BY Way
<1>2. f \in Named(fields, s)
  BY <1>1 DEF Named, ToSet
<1> HIDE DEF f, s
<1>3. CASE way = <<>>
  <2>1. q = CompileDtype[f.dtype][place][f.nullable] /\ place \o way = place
    BY <1>3 DEF PlansWithin, f
  <2>2. f \in DeclaredAt(fields, s)
    BY <1>1, <1>2, <1>3 DEF DeclaredAt
  <2> QED
    BY <2>1, <2>2 DEF PlannedAt, s, f
<1>4. CASE way # <<>>
  <2>1. PICK g \in DeclaredIn[f.dtype][way] : q = CompileDtype[g.dtype][place \o way][g.nullable]
    BY <1>4 DEF PlansWithin, f
  <2>2. g \in DeclaredAt(fields, s)
    BY <1>1, <1>2, <1>4, <2>1 DEF DeclaredAt
  <2> QED
    BY <2>1, <2>2 DEF PlannedAt, s, f
<1> QED
  BY <1>3, <1>4

(* What is planned inside a field inside a dtype is planned inside the     *)
(* dtype, a step further.                                                  *)
LEMMA PlannedDown ==
    ASSUME NEW d \in Dtypes, NEW path \in Seq(Names), NEW b, NEW i \in DOMAIN Inside[d],
           NEW way \in Seq(Names),
           NEW q \in PlansWithin(Inside[d][i].dtype, Append(path, Inside[d][i].name), Inside[d][i].nullable, way)
    PROVE  /\ q \in PlansWithin(d, path, b, <<Inside[d][i].name>> \o way)
           /\ Append(path, Inside[d][i].name) \o way = path \o (<<Inside[d][i].name>> \o way)
<1> DEFINE f == Inside[d][i]
           s == <<f.name>> \o way
           place == Append(path, f.name)
<1>1. f.name \in Names /\ f.nullable \in BOOLEAN
  BY InsideFacts DEF FieldsOf
<1>2. s \in Seq(Names) /\ s # <<>>
  BY <1>1, Way
<1>3. place \in Seq(Names) /\ place = path \o <<f.name>>
  BY <1>1, AppendProperties, AppendIsConcat
<1>4. place \o way = path \o s
  <2>1. <<f.name>> \in Seq(Names)
    BY <1>1
  <2> QED
    BY <1>3, <2>1, ConcatAssociative
<1>5. PICK g \in DeclaredAt(Inside[d], s) : q = CompileDtype[g.dtype][place \o way][g.nullable]
  <2> DEFINE fields == Inside[d]
  <2>1. i \in DOMAIN fields /\ fields[i].name \in Names /\ fields[i].nullable \in BOOLEAN
    BY <1>1
  <2>2. q \in PlansWithin(fields[i].dtype, place, fields[i].nullable, way)
    OBVIOUS
  <2> HIDE DEF fields, place
  <2>3. PlannedAt(fields, <<fields[i].name>> \o way, place \o way, q)
    BY <1>3, <2>1, <2>2, DeclaredDown
  <2> QED
    BY <2>3 DEF PlannedAt, fields
<1> HIDE DEF s, place, f
<1>6. DeclaredIn[d][s] = DeclaredAt(Inside[d], s)
  <2>1. DeclaredIn[d][s] = DeclaredInOne(DeclaredIn, d, s)
    BY <1>2, DeclaredInUnfold
  <2> QED
    BY <2>1, Zenon DEF DeclaredInOne, DeclaredAt
<1>7. q \in PlansWithin(d, path, b, s)
  BY <1>2, <1>4, <1>5, <1>6, Zenon DEF PlansWithin
<1> QED
  BY <1>4, <1>7 DEF s, place, f

----------------------------------------------------------------------------
(* Where an error of decode.rs is.                                         *)

(* What an error of decode.rs says of a value that a plan takes.           *)
Wrong(q, w, e) ==
    /\ e.declared = q.type
    /\ e.found = IF w.tag = "Malformed" THEN "Missing" ELSE w.tag
    /\ IF IsNull(w) THEN ~q.nullable
       ELSE CASE q.type = "Struct" -> w.tag # "EmbeddedDocument"
              [] q.type = "List"   -> w.tag # "Array"
              [] OTHER             -> w.tag \notin Leaves[q.type]

(* A fault is at a place, under one of some plans, for one of some values. *)
FaultAt(fault, place, plans, values) ==
    \E e : \E q \in plans, w \in values : fault = Some(e) /\ e.path = place /\ Wrong(q, w, e)

(* A fault of a value is at a place inside it.                             *)
FaultInside(d, path, b, v) ==
    LET p == CompileDtype[d][path][b] IN
    Fault[p][v] # None =>
        \E way \in Seq(Names) :
            FaultAt(Fault[p][v], path \o way, PlansWithin(d, path, b, way), HeldAt[p][v][way])

(* What is wrong at a place inside a value inside another is wrong at a    *)
(* place inside the other.                                                 *)
LEMMA FaultDown ==
    ASSUME NEW d \in Dtypes, NEW path \in Seq(Names), NEW b \in BOOLEAN, NEW i \in DOMAIN Inside[d],
           NEW fault, NEW v, NEW way \in Seq(Names), NEW values,
           \A w \in values : w \in HeldAt[CompileDtype[d][path][b]][v][<<Inside[d][i].name>> \o way],
           FaultAt(fault, Append(path, Inside[d][i].name) \o way,
                   PlansWithin(Inside[d][i].dtype, Append(path, Inside[d][i].name), Inside[d][i].nullable, way),
                   values)
    PROVE  /\ <<Inside[d][i].name>> \o way \in Seq(Names)
           /\ FaultAt(fault, path \o (<<Inside[d][i].name>> \o way),
                      PlansWithin(d, path, b, <<Inside[d][i].name>> \o way),
                      HeldAt[CompileDtype[d][path][b]][v][<<Inside[d][i].name>> \o way])
<1> DEFINE name  == Inside[d][i].name
           place == Append(path, name)
           inner == PlansWithin(Inside[d][i].dtype, place, Inside[d][i].nullable, way)
<1>1. PICK e : \E q \in inner, w \in values : fault = Some(e) /\ e.path = place \o way /\ Wrong(q, w, e)
  BY DEF FaultAt
<1>2. PICK q \in inner, w \in values : fault = Some(e) /\ e.path = place \o way /\ Wrong(q, w, e)
  BY <1>1
<1>3. /\ q \in PlansWithin(d, path, b, <<name>> \o way)
      /\ place \o way = path \o (<<name>> \o way)
  BY PlannedDown
<1>4. name \in Names
  BY InsideFacts DEF FieldsOf
<1>5. <<name>> \o way \in Seq(Names)
  BY <1>4, Way
<1>6. w \in HeldAt[CompileDtype[d][path][b]][v][<<name>> \o way]
  OBVIOUS
<1> HIDE DEF name, place, inner
<1>7. FaultAt(fault, path \o (<<name>> \o way), PlansWithin(d, path, b, <<name>> \o way),
              HeldAt[CompileDtype[d][path][b]][v][<<name>> \o way])
  BY <1>2, <1>3, <1>6 DEF FaultAt
<1> QED
  BY <1>5, <1>7, Zenon DEF name

(* push_value reports the place where the value is that does not convert.  *)
FaultsInside(p) ==
    \A d \in Dtypes, path \in Seq(Names), b \in BOOLEAN :
        p = CompileDtype[d][path][b] => \A v \in Bson[p] : FaultInside(d, path, b, v)

(* It does so at every node.                                               *)
LEMMA AllFaultsInside == \A p \in Nodes : FaultsInside(p)
<1> DEFINE G == {p \in Nodes : FaultsInside(p)}
<1>1. ASSUME NEW p \in Nodes, \A y \in Nodes : Depth(y) < Depth(p) => y \in G
      PROVE  FaultsInside(p)
  <2> SUFFICES ASSUME NEW d \in Dtypes, NEW path \in Seq(Names), NEW b \in BOOLEAN,
                      p = CompileDtype[d][path][b], NEW v \in Bson[p], Fault[p][v] # None
               PROVE  \E way \in Seq(Names) :
                         FaultAt(Fault[p][v], path \o way, PlansWithin(d, path, b, way), HeldAt[p][v][way])
    BY DEF FaultsInside, FaultInside
  <2>1. PlansWhatIsInside(p, d, path, b)
    BY AllCompiledAsDeclared DEF CompiledAsDeclared
  <2>2. Fault[p][v] = FaultOne(Fault, p, v)
    BY FaultUnfold
  <2>3. ASSUME Fault[p][v] = Some(Located(p, v)), Wrong(p, v, Located(p, v))
        PROVE  FaultAt(Fault[p][v], path \o <<>>, PlansWithin(d, path, b, <<>>), HeldAt[p][v][<<>>])
    <3>1. path \o <<>> = path
      OBVIOUS
    <3>2. p \in PlansWithin(d, path, b, <<>>)
      BY DEF PlansWithin
    <3>3. v \in HeldAt[p][v][<<>>]
      BY HoldsItself
    <3>4. Located(p, v).path = path
      BY <2>1 DEF Located, PlansWhatIsInside
    <3> QED
      BY <2>3, <3>1, <3>2, <3>3, <3>4 DEF FaultAt
  <2>4. <<>> \in Seq(Names)
    OBVIOUS
  <2>5. ASSUME NEW i \in DOMAIN p.children
        PROVE  /\ i \in DOMAIN Inside[d]
               /\ Inside[d][i].name \in Names
               /\ p.children[i].name = Inside[d][i].name
               /\ p.children[i] = CompileDtype[Inside[d][i].dtype][Append(path, Inside[d][i].name)][Inside[d][i].nullable]
               /\ \A w \in Bson[p.children[i]] :
                     FaultInside(Inside[d][i].dtype, Append(path, Inside[d][i].name), Inside[d][i].nullable, w)
    <3>1. FaultsInside(p.children[i])
      BY <1>1, NodeFacts
    <3> DEFINE f == Inside[d][i]
               place == Append(path, f.name)
    <3>2. /\ i \in DOMAIN Inside[d] /\ f.name \in Names /\ f.dtype \in Dtypes /\ f.nullable \in BOOLEAN
          /\ place \in Seq(Names) /\ p.children[i].name = f.name
          /\ p.children[i] = CompileDtype[f.dtype][place][f.nullable]
      BY ChildCompiled DEF CompiledFrom
    <3> HIDE DEF place, f
    <3>3. \A w \in Bson[p.children[i]] : FaultInside(f.dtype, place, f.nullable, w)
      BY <3>1, <3>2 DEF FaultsInside
    <3> QED
      BY <3>2, <3>3, Zenon DEF place, f
  <2>6. CASE IsNull(v)
    <3>1. Fault[p][v] = Some(Located(p, v)) /\ ~p.nullable
      <4>1. Fault[p][v] = NullFault(p, v)
        BY <2>2, <2>6, Zenon DEF FaultOne, IsNull, NullTags
      <4> QED
        BY <4>1 DEF NullFault
    <3>2. Wrong(p, v, Located(p, v))
      BY <2>6, <3>1 DEF Wrong, Located, Found
    <3> QED
      BY <2>3, <2>4, <3>1, <3>2, Zenon
  <2>7. CASE ~IsNull(v) /\ p.type = "Struct" /\ v.tag = "EmbeddedDocument"
    <3> DEFINE rs == [i \in DOMAIN p.children |-> Fault[p.children[i]][FieldOf(v, p.children[i])]]
               n  == Len(p.children)
    <3>1. Fault[p][v] = FirstOf(rs)
      BY <2>2, <2>7, Zenon DEF FaultOne
    <3>2. n \in Nat /\ DOMAIN rs = 1 .. n /\ DOMAIN p.children = 1 .. n
      BY NodeFacts
    <3>3. \A i \in DOMAIN p.children : rs[i] = Fault[p.children[i]][FieldOf(v, p.children[i])]
      OBVIOUS
    <3> HIDE DEF rs, n
    <3>4. PICK i \in 1 .. n : FirstOf(rs) = rs[i]
      BY <3>1, <3>2, FirstError
    <3> DEFINE c == p.children[i]
               w == FieldOf(v, c)
               f == Inside[d][i]
    <3>5. i \in DOMAIN p.children /\ w \in Bson[c] /\ Fault[c][w] = Fault[p][v]
      BY <2>7, <3>1, <3>2, <3>3, <3>4, BsonParts
    <3>6. FaultInside(f.dtype, Append(path, f.name), f.nullable, w)
      BY <2>5, <3>5, Zenon
    <3>7. PICK way \in Seq(Names) :
             FaultAt(Fault[p][v], Append(path, f.name) \o way,
                     PlansWithin(f.dtype, Append(path, f.name), f.nullable, way), HeldAt[c][w][way])
      <4>1. c = CompileDtype[f.dtype][Append(path, f.name)][f.nullable]
        BY <2>5, <3>5, Zenon
      <4> HIDE DEF c, w, f
      <4> QED
        BY <3>5, <3>6, <4>1, Zenon DEF FaultInside
    <3>8. \A x \in HeldAt[c][w][way] : x \in HeldAt[p][v][<<f.name>> \o way]
      BY <2>5, <2>7, <3>5, HeldInField, Zenon
    <3>9. /\ <<f.name>> \o way \in Seq(Names)
          /\ FaultAt(Fault[p][v], path \o (<<f.name>> \o way),
                     PlansWithin(d, path, b, <<f.name>> \o way), HeldAt[p][v][<<f.name>> \o way])
      BY <2>5, <3>5, <3>7, <3>8, FaultDown, Zenon
    <3> QED
      BY <3>9, Zenon
  <2>8. CASE ~IsNull(v) /\ p.type = "List" /\ v.tag = "Array"
    <3> DEFINE rs == [k \in DOMAIN v.items |-> Fault[p.children[1]][v.items[k]]]
               n  == Len(v.items)
    <3>1. Fault[p][v] = FirstOf(rs)
      BY <2>2, <2>8, Zenon DEF FaultOne
    <3>2. n \in Nat /\ DOMAIN rs = 1 .. n /\ DOMAIN v.items = 1 .. n
      BY <2>8, BsonParts
    <3>3. \A k \in DOMAIN v.items : rs[k] = Fault[p.children[1]][v.items[k]]
      BY Zenon
    <3> HIDE DEF rs, n
    <3>4. PICK k \in 1 .. n : FirstOf(rs) = rs[k]
      BY <3>1, <3>2, FirstError
    <3> DEFINE c == p.children[1]
               w == v.items[k]
               f == Inside[d][1]
    <3>5. 1 \in DOMAIN p.children /\ k \in DOMAIN v.items /\ w \in Bson[c] /\ Fault[c][w] = Fault[p][v]
      <4>1. v.items \in Seq(Bson[c]) /\ 1 \in DOMAIN p.children
        BY <2>8, BsonParts, NodeFacts
      <4>2. k \in DOMAIN v.items /\ rs[k] = Fault[c][w]
        BY <3>2, <3>3
      <4>3. w \in Bson[c]
        BY <4>1, <4>2
      <4> QED
        BY <3>1, <3>4, <4>1, <4>2, <4>3
    <3>6. FaultInside(f.dtype, Append(path, f.name), f.nullable, w)
      BY <2>5, <3>5, Zenon
    <3>7. PICK way \in Seq(Names) :
             FaultAt(Fault[p][v], Append(path, f.name) \o way,
                     PlansWithin(f.dtype, Append(path, f.name), f.nullable, way), HeldAt[c][w][way])
      <4>1. c = CompileDtype[f.dtype][Append(path, f.name)][f.nullable]
        BY <2>5, <3>5, Zenon
      <4> HIDE DEF c, w, f
      <4> QED
        BY <3>5, <3>6, <4>1, Zenon DEF FaultInside
    <3>8. \A x \in HeldAt[c][w][way] : x \in HeldAt[p][v][<<f.name>> \o way]
      BY <2>5, <2>8, <3>5, HeldInItem, Zenon
    <3>9. /\ <<f.name>> \o way \in Seq(Names)
          /\ FaultAt(Fault[p][v], path \o (<<f.name>> \o way),
                     PlansWithin(d, path, b, <<f.name>> \o way), HeldAt[p][v][<<f.name>> \o way])
      BY <2>5, <3>5, <3>7, <3>8, FaultDown, Zenon
    <3> QED
      BY <3>9, Zenon
  <2>9. CASE /\ ~IsNull(v)
             /\ ~(p.type = "Struct" /\ v.tag = "EmbeddedDocument")
             /\ ~(p.type = "List" /\ v.tag = "Array")
    <3>1. /\ Fault[p][v] = Some(Located(p, v))
          /\ ~(p.type \in DOMAIN Leaves /\ v.tag \in Leaves[p.type])
      BY <2>2, <2>9, Zenon DEF FaultOne
    <3>2. Wrong(p, v, Located(p, v))
      BY <2>9, <3>1, NodeFacts DEF Wrong, Located, Found
    <3> QED
      BY <2>3, <2>4, <3>1, <3>2, Zenon
  <2> QED
    BY <2>6, <2>7, <2>8, <2>9
<1> HIDE DEF G
<1>2. \A p \in Nodes : (\A y \in Nodes : Depth(y) < Depth(p) => y \in G) => p \in G
  BY <1>1 DEF G
<1>3. \A p \in Nodes : p \in G
  BY <1>2, ByDepth
<1> QED
  BY <1>3 DEF G

(* The plan of a batch is that of its schema.                              *)
Planned == status \notin {"given", "schema_error"} => plan = FromFields(schema)

(* Compile plans the schema, and no action changes the plan or the schema. *)
LEMMA PlannedHolds == Spec => []Planned
<1>1. Init => Planned
  BY DEF Init, Planned
<1>2. Planned /\ [Next]_vars => Planned'
  <2> SUFFICES ASSUME Planned, [Next]_vars PROVE Planned'
    OBVIOUS
  <2>1. CASE UNCHANGED vars
    BY <2>1 DEF vars, Planned
  <2>2. CASE Compile
    BY <2>2 DEF Compile, Planned
  <2>3. CASE NextDocument \/ DecodeField \/ Finish \/ ThroughHex \/ Write
    BY <2>3 DEF NextDocument, DecodeField, Finish, ThroughHex, Write, Planned
  <2> QED
    BY <2>1, <2>2, <2>3 DEF Next
<1> QED
  BY <1>1, <1>2, PTL DEF Spec

(* The field of a schema that a column of the plan is for.                 *)
LEMMA SchemaFields ==
    ASSUME IInv, Planned, status \notin {"given", "schema_error"}, NEW i \in DOMAIN plan
    PROVE  /\ i \in DOMAIN schema
           /\ schema[i].name \in Names /\ schema[i].dtype \in Dtypes /\ schema[i].nullable \in BOOLEAN
           /\ <<schema[i].name>> \in Seq(Names)
           /\ plan[i] = CompileDtype[schema[i].dtype][<<schema[i].name>>][schema[i].nullable]
<1>1. plan = FromFields(schema) /\ schema \in Schemas
  BY DEF Planned, IInv, Shape
<1>2. i \in DOMAIN schema /\ plan[i] = CompileDtype[schema[i].dtype][<<schema[i].name>>][schema[i].nullable]
  BY <1>1 DEF FromFields
<1>3. schema[i].name \in Names /\ schema[i].dtype \in Dtypes /\ schema[i].nullable \in BOOLEAN
  BY <1>1, <1>2, SchemasAssumption
<1> QED
  BY <1>2, <1>3

(* A place a step inside a field of a schema.                              *)
LEMMA AtField ==
    ASSUME IInv, Planned, status \notin {"given", "schema_error"}, NEW i \in DOMAIN plan,
           NEW way \in Seq(Names), NEW r \in DOMAIN docs, i \in DOMAIN docs[r],
           NEW w \in HeldAt[plan[i]][docs[r][i]][way]
    PROVE  w \in InDocument(r, <<schema[i].name>> \o way)
<1> DEFINE s == <<schema[i].name>> \o way
<1>1. schema[i].name \in Names
  BY SchemaFields
<1>2. Head(s) = schema[i].name /\ Tail(s) = way
  BY <1>1, Way
<1> HIDE DEF s
<1>3. w \in InDocument(r, s)
  BY <1>2 DEF InDocument
<1> QED
  BY <1>3 DEF s

(* What is planned inside a field of the schema is what it declares there. *)
LEMMA PlanOfField ==
    ASSUME IInv, Planned, status \notin {"given", "schema_error"}, NEW i \in DOMAIN plan,
           NEW way \in Seq(Names),
           NEW q \in PlansWithin(schema[i].dtype, <<schema[i].name>>, schema[i].nullable, way)
    PROVE  q \in PlanAt(<<schema[i].name>> \o way)
<1>1. PlannedAt(schema, <<schema[i].name>> \o way, <<schema[i].name>> \o way, q)
  BY SchemaFields, DeclaredDown
<1> QED
  BY <1>1 DEF PlannedAt, PlanAt

(* A document that does not convert is refused for a value it holds at the *)
(* place the error names, one that is not of the type which the schema     *)
(* declares there and which the error repeats, or a null where there may   *)
(* be none.                                                                *)
THEOREM ErrorLocatedHolds == Spec => []ErrorLocated
<1>1. Init => ErrorLocated
  BY DEF Init, ErrorLocated
<1>2. IInv /\ IInv' /\ Planned /\ Planned' /\ ErrorLocated /\ [Next]_vars => ErrorLocated'
  <2> SUFFICES ASSUME IInv, IInv', Planned, Planned', ErrorLocated, [Next]_vars, status' = "conversion_error"
               PROVE  ErrorLocated'
    BY DEF ErrorLocated
  <2>1. CASE UNCHANGED vars
    BY <2>1 DEF vars, ErrorLocated, PlanAt, InDocument
  <2>2. CASE DecodeField
    <3> DEFINE L == Len(docs)
               i == field
               p == plan[i]
    <3>1. PICK v \in BsonValues(p) : /\ docs' = [docs EXCEPT ![L] = Append(@, v)]
                                     /\ Fault[p][v] # None
                                     /\ error' = Fault[p][v]
      BY <2>2 DEF DecodeField
    <3>2. schema' = schema /\ plan' = plan /\ status = "decoding" /\ field # 0
      BY <2>2 DEF DecodeField
    <3>3. /\ i \in DOMAIN plan /\ p \in Nodes /\ v \in Bson[p]
          /\ docs \in Seq(Seq(Held)) /\ L \in Nat /\ L >= 1 /\ docs[L] \in Seq(Held) /\ Len(docs[L]) = i - 1
      BY <3>2, ValuesAssumption DEF IInv, Shape
    <3>4. /\ Len(docs') = L /\ L \in DOMAIN docs' /\ docs'[L] = Append(docs[L], v)
      BY <3>1, <3>3
    <3>5. i \in DOMAIN docs'[L] /\ docs'[L][i] = v
      <4>1. i \in Nat /\ i >= 1
        BY <3>2 DEF IInv, Shape
      <4> QED
        BY <3>3, <3>4, <4>1
    <3> HIDE DEF L
    <3> DEFINE f == schema[i]
    <3>6. /\ f.dtype \in Dtypes /\ f.nullable \in BOOLEAN /\ <<f.name>> \in Seq(Names)
          /\ p = CompileDtype[f.dtype][<<f.name>>][f.nullable]
      BY <3>2, <3>3, SchemaFields
    <3>7. FaultInside(f.dtype, <<f.name>>, f.nullable, v)
      BY <3>3, <3>6, AllFaultsInside, Zenon DEF FaultsInside
    <3>8. PICK way \in Seq(Names) :
             FaultAt(Fault[p][v], <<f.name>> \o way,
                     PlansWithin(f.dtype, <<f.name>>, f.nullable, way), HeldAt[p][v][way])
      <4> HIDE DEF p, f
      <4> QED
        BY <3>1, <3>6, <3>7, Zenon DEF FaultInside
    <3> DEFINE s == <<f.name>> \o way
    <3>9. PICK e : \E q \in PlansWithin(f.dtype, <<f.name>>, f.nullable, way), w \in HeldAt[p][v][way] :
             error' = Some(e) /\ e.path = s /\ Wrong(q, w, e)
      BY <3>1, <3>8 DEF FaultAt
    <3>10. PICK q \in PlansWithin(f.dtype, <<f.name>>, f.nullable, way), w \in HeldAt[p][v][way] :
             error' = Some(e) /\ e.path = s /\ Wrong(q, w, e)
      BY <3>9
    <3>11. q \in PlanAt(s)
      BY <3>2, <3>3, PlanOfField
    <3>12. Head(s) = f.name /\ Tail(s) = way
      BY <3>2, <3>3, SchemaFields, Way
    <3>13. error'[1] = e /\ error'[1].path = s
      BY <3>10 DEF Some
    <3> HIDE DEF s
    <3>14. q \in PlanAt(error[1].path)'
      BY <3>2, <3>11, <3>13 DEF PlanAt
    <3>15. w \in InDocument(Len(docs), error[1].path)'
      <4>1. w \in UNION {HeldAt[plan[k]][docs'[L][k]][Tail(s)] :
                            k \in {j \in DOMAIN docs'[L] : schema[j].name = Head(s)}}
        BY <3>5, <3>12
      <4> QED
        BY <3>2, <3>4, <3>13, <4>1 DEF InDocument
    <3> QED
      BY <3>10, <3>13, <3>14, <3>15 DEF ErrorLocated, Wrong
  <2>3. CASE Compile \/ NextDocument \/ Finish \/ ThroughHex \/ Write
    BY <2>3 DEF Compile, NextDocument, Finish, ThroughHex, Write
  <2> QED
    BY <2>1, <2>2, <2>3 DEF Next
<1> QED
  BY <1>1, <1>2, IInvHolds, PlannedHolds, PTL DEF Spec

----------------------------------------------------------------------------
(* Where an error of encode.rs is.                                         *)

(* What an error of encode.rs says of a value that was read under a plan.  *)
Unsaid(q, w, e) == e.declared = q.type /\ ~IsNull(w) /\ Unwritable(q, LeafValue(w))

(* A fault is at a place, under one of some plans, for one of some values, *)
(* and in a row unless that is of a list.                                  *)
UnsaidAt(fault, place, plans, values, listed, row) ==
    \E e : \E q \in plans, w \in values :
        fault = Some(e) /\ e.path = place /\ (listed \/ row = e.row) /\ Unsaid(q, w, e)

(* A way inside a dtype goes through a list.                               *)
ListOnWay(d, path, b, way) ==
    \E k \in 0 .. Len(way) - 1 : \E q \in PlansWithin(d, path, b, SubSeq(way, 1, k)) : q.type = "List"

(* encode_column_where names the place of a value that cannot be written.  *)
FindsUnder(p, d, path, b) ==
    \A col \in Columns[p], n \in Nat, active \in SUBSET Nat : \A vs :
        Sound[p][col][n] /\ AllSaid(p, col, n, active, vs) /\ EncodeFault[p][col][active] # None
        => \E way \in Seq(Names), r \in active \cap (1 .. n) :
              UnsaidAt(EncodeFault[p][col][active], path \o way, PlansWithin(d, path, b, way),
                       HeldAt[p][vs[r]][way], ListOnWay(d, path, b, way), r)

FindsWhere(p) ==
    \A d \in Dtypes, path \in Seq(Names), b \in BOOLEAN : CompiledFrom(p, d, path, b) => FindsUnder(p, d, path, b)

(* The beginning of a way, a step further in.                              *)
LEMMA WayBegins ==
    ASSUME NEW name \in Names, NEW way \in Seq(Names), NEW k \in 0 .. Len(way)
    PROVE  SubSeq(<<name>> \o way, 1, k + 1) = <<name>> \o SubSeq(way, 1, k)
<1> DEFINE s == <<name>> \o way
           a == SubSeq(s, 1, k + 1)
           t == SubSeq(way, 1, k)
           c == <<name>> \o t
<1>1. s \in Seq(Names) /\ Len(s) = 1 + Len(way) /\ Len(way) \in Nat /\ k \in Nat
  OBVIOUS
<1>2. s[1] = name /\ \A j \in 1 .. Len(way) : s[j + 1] = way[j]
  OBVIOUS
<1> HIDE DEF s
<1>3. a \in Seq(Names) /\ Len(a) = k + 1 /\ \A j \in 1 .. k + 1 : a[j] = s[j]
  BY <1>1, SubSeqProperties
<1>4. t \in Seq(Names) /\ Len(t) = k /\ \A j \in 1 .. k : t[j] = way[j]
  BY <1>1, SubSeqProperties
<1> HIDE DEF a, t
<1>5. c \in Seq(Names) /\ Len(c) = k + 1 /\ c[1] = name /\ \A j \in 1 .. k : c[j + 1] = t[j]
  BY <1>1, <1>4
<1> HIDE DEF c
<1>6. ASSUME NEW j \in 1 .. k + 1 PROVE a[j] = c[j]
  <2>1. CASE j = 1
    BY <1>1, <1>2, <1>3, <1>5, <2>1
  <2>2. CASE j # 1
    <3>1. j - 1 \in 1 .. k /\ j - 1 \in 1 .. Len(way) /\ (j - 1) + 1 = j
      BY <1>1, <2>2
    <3>2. a[j] = s[j] /\ s[j] = way[j - 1]
      BY <1>2, <1>3, <3>1
    <3>3. c[j] = t[j - 1] /\ t[j - 1] = way[j - 1]
      BY <1>4, <1>5, <3>1
    <3> QED
      BY <3>2, <3>3
  <2> QED
    BY <2>1, <2>2
<1>7. a = c
  BY <1>3, <1>5, <1>6, SeqEqual
<1> QED
  BY <1>7 DEF a, c, s, t

(* A list on the way inside a field is on the way to the field and inside. *)
LEMMA ListDown ==
    ASSUME NEW d \in Dtypes, NEW path \in Seq(Names), NEW b \in BOOLEAN, NEW i \in DOMAIN Inside[d],
           NEW way \in Seq(Names),
           ListOnWay(Inside[d][i].dtype, Append(path, Inside[d][i].name), Inside[d][i].nullable, way)
    PROVE  ListOnWay(d, path, b, <<Inside[d][i].name>> \o way)
<1> DEFINE f == Inside[d][i]
           s == <<f.name>> \o way
           place == Append(path, f.name)
<1>1. PICK k \in 0 .. Len(way) - 1 : \E q \in PlansWithin(f.dtype, place, f.nullable, SubSeq(way, 1, k)) : q.type = "List"
  BY DEF ListOnWay
<1>2. PICK q \in PlansWithin(f.dtype, place, f.nullable, SubSeq(way, 1, k)) : q.type = "List"
  BY <1>1
<1>3. f.name \in Names
  BY InsideFacts DEF FieldsOf
<1>4. Len(s) = Len(way) + 1 /\ Len(way) \in Nat
  BY <1>3, Way
<1>5. k \in 0 .. Len(way) /\ k + 1 \in 0 .. Len(s) - 1
  BY <1>4
<1>6. SubSeq(way, 1, k) \in Seq(Names)
  BY <1>5, SubSeqProperties
<1>7. SubSeq(s, 1, k + 1) = <<f.name>> \o SubSeq(way, 1, k)
  BY <1>3, <1>5, WayBegins
<1>8. q \in PlansWithin(d, path, b, <<f.name>> \o SubSeq(way, 1, k))
  BY <1>6, PlannedDown
<1> HIDE DEF s, f
<1>9. ListOnWay(d, path, b, s)
  BY <1>2, <1>5, <1>7, <1>8 DEF ListOnWay
<1> QED
  BY <1>9 DEF s, f


(* What cannot be written inside a value inside another cannot be written  *)
(* inside the other.                                                       *)
LEMMA UnsaidDown ==
    ASSUME NEW d \in Dtypes, NEW path \in Seq(Names), NEW b \in BOOLEAN, NEW i \in DOMAIN Inside[d],
           NEW fault, NEW way \in Seq(Names), NEW values, NEW held, NEW r, NEW row,
           \A w \in values : w \in held,
           r # row => ListOnWay(d, path, b, <<Inside[d][i].name>> \o way),
           UnsaidAt(fault, Append(path, Inside[d][i].name) \o way,
                    PlansWithin(Inside[d][i].dtype, Append(path, Inside[d][i].name), Inside[d][i].nullable, way),
                    values,
                    ListOnWay(Inside[d][i].dtype, Append(path, Inside[d][i].name), Inside[d][i].nullable, way),
                    row)
    PROVE  /\ <<Inside[d][i].name>> \o way \in Seq(Names)
           /\ UnsaidAt(fault, path \o (<<Inside[d][i].name>> \o way),
                       PlansWithin(d, path, b, <<Inside[d][i].name>> \o way), held,
                       ListOnWay(d, path, b, <<Inside[d][i].name>> \o way), r)
<1> DEFINE name  == Inside[d][i].name
           place == Append(path, name)
           s     == <<name>> \o way
           inner == PlansWithin(Inside[d][i].dtype, place, Inside[d][i].nullable, way)
           within == ListOnWay(Inside[d][i].dtype, place, Inside[d][i].nullable, way)
<1>1. PICK e : \E q \in inner, w \in values :
                   fault = Some(e) /\ e.path = place \o way /\ (within \/ row = e.row) /\ Unsaid(q, w, e)
  BY DEF UnsaidAt
<1>2. PICK q \in inner, w \in values :
                   fault = Some(e) /\ e.path = place \o way /\ (within \/ row = e.row) /\ Unsaid(q, w, e)
  BY <1>1
<1>3. q \in PlansWithin(d, path, b, s) /\ place \o way = path \o s
  BY PlannedDown
<1>4. name \in Names
  BY InsideFacts DEF FieldsOf
<1>5. s \in Seq(Names)
  BY <1>4, Way
<1>6. within => ListOnWay(d, path, b, s)
  BY ListDown
<1>7. ListOnWay(d, path, b, s) \/ r = e.row
  BY <1>2, <1>6
<1>8. w \in held
  OBVIOUS
<1> HIDE DEF name, place, inner, s, within
<1>9. UnsaidAt(fault, path \o s, PlansWithin(d, path, b, s), held, ListOnWay(d, path, b, s), r)
  BY <1>2, <1>3, <1>7, <1>8 DEF UnsaidAt
<1> QED
  BY <1>5, <1>9 DEF name, s

(* A leaf.                                                                 *)
LEMMA LeafFindsWhere ==
    ASSUME NEW p \in Nodes, p.type # "Struct", p.type # "List"
    PROVE  FindsWhere(p)
<1> SUFFICES ASSUME NEW d \in Dtypes, NEW path \in Seq(Names), NEW b \in BOOLEAN, CompiledFrom(p, d, path, b)
             PROVE  FindsUnder(p, d, path, b)
  BY DEF FindsWhere
<1> SUFFICES ASSUME NEW col \in Columns[p], NEW n \in Nat, NEW active \in SUBSET Nat, NEW vs,
                    Sound[p][col][n], AllSaid(p, col, n, active, vs), EncodeFault[p][col][active] # None
             PROVE  \E way \in Seq(Names), r \in active \cap (1 .. n) :
                      UnsaidAt(EncodeFault[p][col][active], path \o way, PlansWithin(d, path, b, way),
                               HeldAt[p][vs[r]][way], ListOnWay(d, path, b, way), r)
  BY DEF FindsUnder
<1>1. PICK r \in active \cap (1 .. n) : /\ EncodeFault[p][col][active] = Some(AtRow(p, r))
                                        /\ Valid(p, col, r) /\ Unwritable(p, col.values[r][1])
  BY LeafFault
<1>2. Says(p, col, r, vs[r]) /\ r \in Nat
  BY DEF AllSaid
<1>3. ~IsNull(vs[r]) /\ col.values[r][1] = LeafValue(vs[r]) /\ vs[r] \in Bson[p]
  BY <1>1, <1>2, LeafSaid DEF Says
<1>4. path \o <<>> = path /\ <<>> \in Seq(Names)
  OBVIOUS
<1>5. p \in PlansWithin(d, path, b, <<>>)
  BY DEF PlansWithin, CompiledFrom
<1>6. vs[r] \in HeldAt[p][vs[r]][<<>>]
  BY <1>3, HoldsItself
<1>7. AtRow(p, r).path = path /\ AtRow(p, r).declared = p.type /\ AtRow(p, r).row = r
  BY AllCompiledAsDeclared DEF AtRow, CompiledAsDeclared, PlansWhatIsInside, CompiledFrom
<1>8. Unsaid(p, vs[r], AtRow(p, r))
  BY <1>1, <1>3, <1>7 DEF Unsaid
<1>9. UnsaidAt(EncodeFault[p][col][active], path \o <<>>, PlansWithin(d, path, b, <<>>),
                HeldAt[p][vs[r]][<<>>], ListOnWay(d, path, b, <<>>), r)
  BY <1>1, <1>4, <1>5, <1>6, <1>7, <1>8 DEF UnsaidAt
<1> QED
  BY <1>4, <1>9

(* A struct.                                                               *)
LEMMA StructFindsWhere ==
    ASSUME NEW p \in Nodes, p.type = "Struct", \A i \in DOMAIN p.children : FindsWhere(p.children[i])
    PROVE  FindsWhere(p)
<1> SUFFICES ASSUME NEW d \in Dtypes, NEW path \in Seq(Names), NEW b \in BOOLEAN, CompiledFrom(p, d, path, b)
             PROVE  FindsUnder(p, d, path, b)
  BY DEF FindsWhere
<1> SUFFICES ASSUME NEW col \in Columns[p], NEW n \in Nat, NEW active \in SUBSET Nat, NEW vs,
                    Sound[p][col][n], AllSaid(p, col, n, active, vs), EncodeFault[p][col][active] # None
             PROVE  \E way \in Seq(Names), r \in active \cap (1 .. n) :
                      UnsaidAt(EncodeFault[p][col][active], path \o way, PlansWithin(d, path, b, way),
                               HeldAt[p][vs[r]][way], ListOnWay(d, path, b, way), r)
  BY DEF FindsUnder
<1>1. PICK i \in DOMAIN p.children :
         EncodeFault[p][col][active] = EncodeFault[p.children[i]][col.children[i]][ChildActive(p, col, active)]
  BY StructFault
<1> DEFINE ws    == [r \in Nat |-> FieldOf(vs[r], p.children[i])]
           c     == p.children[i]
           fault == EncodeFault[p][col][active]
           f     == Inside[d][i]
           place == Append(path, f.name)
           s(way) == <<f.name>> \o way
<1>2. \A r \in Nat : ws[r] = FieldOf(vs[r], c)
  OBVIOUS
<1> HIDE DEF ws
<1>3. /\ c \in Nodes /\ col.children[i] \in Columns[c]
      /\ Sound[c][col.children[i]][n]
      /\ ChildActive(p, col, active) \in SUBSET Nat
      /\ AllSaid(c, col.children[i], n, ChildActive(p, col, active), ws)
  <2> HIDE DEF c, fault, f, place, s
  <2>1. \A r \in Nat : ws[r] = FieldOf(vs[r], p.children[i])
    BY <1>2 DEF c
  <2>2. /\ p.children[i] \in Nodes /\ col.children[i] \in Columns[p.children[i]]
        /\ Sound[p.children[i]][col.children[i]][n]
        /\ ChildActive(p, col, active) \in SUBSET Nat
        /\ AllSaid(p.children[i], col.children[i], n, ChildActive(p, col, active), ws)
    BY <2>1, ChildrenSaid, ZenonT(30)
  <2> QED
    BY <2>2 DEF c
<1>4. /\ i \in DOMAIN Inside[d] /\ f.name \in Names /\ f.dtype \in Dtypes /\ f.nullable \in BOOLEAN
      /\ place \in Seq(Names) /\ c.name = f.name /\ CompiledFrom(c, f.dtype, place, f.nullable)
  BY ChildCompiled DEF CompiledFrom
<1>5. FindsUnder(c, f.dtype, place, f.nullable)
  <2> HIDE DEF place, f
  <2> QED
    BY <1>4 DEF FindsWhere
<1>6. PICK way \in Seq(Names), r \in ChildActive(p, col, active) \cap (1 .. n) :
         UnsaidAt(fault, place \o way, PlansWithin(f.dtype, place, f.nullable, way),
                  HeldAt[c][ws[r]][way], ListOnWay(f.dtype, place, f.nullable, way), r)
  <2> DEFINE e == col.children[i]
             a == ChildActive(p, col, active)
  <2>1. fault = EncodeFault[c][e][a] /\ fault # None
    BY <1>1
  <2> HIDE DEF place, f, c, e, a, fault
  <2>2. PICK way \in Seq(Names), r \in a \cap (1 .. n) :
           UnsaidAt(fault, place \o way, PlansWithin(f.dtype, place, f.nullable, way),
                    HeldAt[c][ws[r]][way], ListOnWay(f.dtype, place, f.nullable, way), r)
    BY <1>3, <1>5, <2>1 DEF FindsUnder, e, a
  <2> QED
    BY <2>2 DEF a
<1>7. /\ r \in active \cap (1 .. n) /\ r \in Nat
      /\ Valid(p, col, r) /\ Says(p, col, r, vs[r])
  <2>1. r \in active /\ r \in 1 .. n /\ r \in Nat /\ col.validity[r]
    BY DEF ChildActive
  <2> QED
    BY <2>1 DEF Valid, AllSaid
<1>8. vs[r] \in Bson[p] /\ vs[r].tag = "EmbeddedDocument" /\ ws[r] = FieldOf(vs[r], c)
  BY <1>2, <1>7, StructSaid DEF Says
<1>9. \A w \in HeldAt[c][ws[r]][way] : w \in HeldAt[p][vs[r]][s(way)]
  <2> SUFFICES ASSUME NEW w \in HeldAt[c][ws[r]][way] PROVE w \in HeldAt[p][vs[r]][s(way)]
    OBVIOUS
  <2> QED
    BY <1>4, <1>8, HeldInField
<1>10. /\ s(way) \in Seq(Names)
       /\ UnsaidAt(fault, path \o s(way), PlansWithin(d, path, b, s(way)), HeldAt[p][vs[r]][s(way)],
                   ListOnWay(d, path, b, s(way)), r)
  <2> DEFINE values == HeldAt[c][ws[r]][way]
             held   == HeldAt[p][vs[r]][s(way)]
             row    == r
  <2>1. /\ \A w \in values : w \in held
        /\ r # row => ListOnWay(d, path, b, s(way))
        /\ UnsaidAt(fault, place \o way, PlansWithin(f.dtype, place, f.nullable, way), values,
                    ListOnWay(f.dtype, place, f.nullable, way), row)
    BY <1>6, <1>9
  <2>2. i \in DOMAIN Inside[d]
    BY <1>4
  <2> HIDE DEF values, held, fault, c, row
  <2>3. /\ s(way) \in Seq(Names)
        /\ UnsaidAt(fault, path \o s(way), PlansWithin(d, path, b, s(way)), held, ListOnWay(d, path, b, s(way)), r)
    BY <2>1, <2>2, UnsaidDown
  <2> QED
    BY <2>3 DEF held, fault, c
<1> QED
  BY <1>7, <1>10

(* A list.                                                                 *)
LEMMA ListFindsWhere ==
    ASSUME NEW p \in Nodes, p.type = "List", FindsWhere(p.children[1])
    PROVE  FindsWhere(p)
<1> SUFFICES ASSUME NEW d \in Dtypes, NEW path \in Seq(Names), NEW b \in BOOLEAN, CompiledFrom(p, d, path, b)
             PROVE  FindsUnder(p, d, path, b)
  BY DEF FindsWhere
<1> SUFFICES ASSUME NEW col \in Columns[p], NEW n \in Nat, NEW active \in SUBSET Nat, NEW vs,
                    Sound[p][col][n], AllSaid(p, col, n, active, vs), EncodeFault[p][col][active] # None
             PROVE  \E way \in Seq(Names), r \in active \cap (1 .. n) :
                      UnsaidAt(EncodeFault[p][col][active], path \o way, PlansWithin(d, path, b, way),
                               HeldAt[p][vs[r]][way], ListOnWay(d, path, b, way), r)
  BY DEF FindsUnder
<1> DEFINE c     == p.children[1]
           fault == EncodeFault[p][col][active]
           f     == Inside[d][1]
           place == Append(path, f.name)
           s(way) == <<f.name>> \o way
<1>1. PICK r \in active \cap (1 .. n) :
         Valid(p, col, r) /\ fault = EncodeFault[c][Inner(p, col, r)][AllRows(c, Inner(p, col, r))]
  BY ListFault
<1> DEFINE inner == Inner(p, col, r)
           items == vs[r].items
<1>2. r \in active /\ r \in Nat /\ r \in 1 .. n /\ Says(p, col, r, vs[r])
  BY DEF AllSaid
<1>3. PICK k : Items(p, col, r, inner, k)
  BY <1>2, InnerRows
<1> HIDE DEF inner
<1>4. /\ ~IsNull(vs[r]) /\ items \in Seq(Bson[c]) /\ Len(items) = k
      /\ vs[r].tag = "Array"
      /\ \A j \in 1 .. k : Says(c, inner, j, items[j])
  BY <1>1, <1>2, <1>3, ListSaid
<1>5. /\ k \in Nat /\ inner \in Columns[c] /\ Sound[c][inner][k]
      /\ AllRows(c, inner) = 1 .. k /\ 1 .. k \in SUBSET Nat
  BY <1>3 DEF Items
<1>6. /\ 1 \in DOMAIN p.children /\ c \in Nodes
      /\ 1 \in DOMAIN Inside[d] /\ f.name \in Names /\ f.dtype \in Dtypes /\ f.nullable \in BOOLEAN
      /\ place \in Seq(Names) /\ CompiledFrom(c, f.dtype, place, f.nullable)
  <2>1. 1 \in DOMAIN p.children /\ c \in Nodes
    BY NodeFacts
  <2>2. /\ 1 \in DOMAIN Inside[d] /\ f.name \in Names /\ f.dtype \in Dtypes /\ f.nullable \in BOOLEAN
        /\ place \in Seq(Names) /\ c = CompileDtype[f.dtype][place][f.nullable]
    BY <2>1, ChildCompiled
  <2> QED
    BY <2>1, <2>2, Zenon DEF CompiledFrom
<1>7. fault = EncodeFault[c][inner][1 .. k]
  BY <1>1, <1>5 DEF inner
<1> HIDE DEF items
<1>8. AllSaid(c, inner, k, 1 .. k, items)
  <2> HIDE DEF c
  <2> QED
    BY <1>4 DEF AllSaid
<1>9. PICK way \in Seq(Names), j \in (1 .. k) \cap (1 .. k) :
         UnsaidAt(fault, place \o way, PlansWithin(f.dtype, place, f.nullable, way),
                  HeldAt[c][items[j]][way], ListOnWay(f.dtype, place, f.nullable, way), j)
  <2> HIDE DEF place, f
  <2>1. FindsUnder(c, f.dtype, place, f.nullable)
    BY <1>6 DEF FindsWhere
  <2> HIDE DEF c
  <2> QED
    BY <1>5, <1>6, <1>7, <1>8, <2>1 DEF FindsUnder
<1>10. \A w \in HeldAt[c][items[j]][way] : w \in HeldAt[p][vs[r]][s(way)]
  <2> SUFFICES ASSUME NEW w \in HeldAt[c][items[j]][way] PROVE w \in HeldAt[p][vs[r]][s(way)]
    OBVIOUS
  <2>1. vs[r] \in Bson[p]
    BY <1>2 DEF Says
  <2>2. j \in DOMAIN vs[r].items /\ w \in HeldAt[c][vs[r].items[j]][way]
    BY <1>4 DEF items
  <2>3. f.name \in Names
    BY <1>6
  <2> HIDE DEF f
  <2> QED
    BY <1>4, <2>1, <2>2, <2>3, HeldInItem
<1>11. ListOnWay(d, path, b, s(way))
  <2>1. Len(s(way)) = Len(way) + 1 /\ Len(way) \in Nat
    BY <1>6, Way
  <2>2. SubSeq(s(way), 1, 0) = <<>>
    BY <1>6, Way, SubSeqProperties
  <2>3. p \in PlansWithin(d, path, b, <<>>)
    BY DEF PlansWithin, CompiledFrom
  <2>4. 0 \in 0 .. Len(s(way)) - 1
    BY <2>1
  <2> HIDE DEF s
  <2> QED
    BY <2>2, <2>3, <2>4 DEF ListOnWay
<1>12. /\ s(way) \in Seq(Names)
       /\ UnsaidAt(fault, path \o s(way), PlansWithin(d, path, b, s(way)), HeldAt[p][vs[r]][s(way)],
                   ListOnWay(d, path, b, s(way)), r)
  <2> DEFINE values == HeldAt[c][items[j]][way]
             held   == HeldAt[p][vs[r]][s(way)]
  <2>1. UnsaidAt(fault, place \o way, PlansWithin(f.dtype, place, f.nullable, way),
                 values, ListOnWay(f.dtype, place, f.nullable, way), j)
    BY <1>9
  <2>2. \A w \in values : w \in held
    BY <1>10
  <2>3. 1 \in DOMAIN Inside[d]
    BY <1>6
  <2> HIDE DEF values, held, fault, c
  <2>4. /\ s(way) \in Seq(Names)
        /\ UnsaidAt(fault, path \o s(way), PlansWithin(d, path, b, s(way)), held, ListOnWay(d, path, b, s(way)), r)
    BY <1>11, <2>1, <2>2, <2>3, UnsaidDown
  <2> QED
    BY <2>4 DEF held, fault, c
<1> QED
  BY <1>12

(* So it does of every column.                                             *)
LEMMA FoundWhere == \A p \in Nodes : FindsWhere(p)
<1> DEFINE G == {p \in Nodes : FindsWhere(p)}
<1>1. ASSUME NEW p \in Nodes, \A y \in Nodes : Depth(y) < Depth(p) => y \in G
      PROVE  p \in G
  <2>1. \A i \in DOMAIN p.children : FindsWhere(p.children[i])
    BY <1>1, NodeFacts
  <2>2. p.type = "List" => FindsWhere(p.children[1])
    BY <2>1, NodeFacts
  <2> QED
    BY <2>1, <2>2, StructFindsWhere, ListFindsWhere, LeafFindsWhere
<1> HIDE DEF G
<1>2. \A p \in Nodes : p \in G
  BY <1>1, ByDepth
<1> QED
  BY <1>2 DEF G

(* A document that has been taken has a value for each field of the plan.  *)
AllTaken ==
    status \in {"decoding", "framed"} =>
        \A r \in DOMAIN docs : (field # 0 /\ r = Len(docs)) \/ Len(docs[r]) = Len(plan)

(* A document is taken field by field, and then the next one.              *)
LEMMA AllTakenHolds == Spec => []AllTaken
<1>1. Init => AllTaken
  BY DEF Init, AllTaken
<1>2. IInv /\ AllTaken /\ [Next]_vars => AllTaken'
  <2> SUFFICES ASSUME IInv, AllTaken, [Next]_vars, status' \in {"decoding", "framed"} PROVE AllTaken'
    BY DEF AllTaken
  <2>1. CASE UNCHANGED vars
    BY <2>1 DEF vars, AllTaken
  <2>2. CASE Compile
    <3>1. docs = <<>> /\ docs' = docs
      BY <2>2 DEF IInv, Shape, Compile
    <3> QED
      BY <3>1 DEF AllTaken
  <2>3. CASE NextDocument
    <3>1. /\ docs' = Append(docs, <<>>) /\ field' = 1 % (Len(plan) + 1) /\ plan' = plan
          /\ status = "decoding" /\ field = 0 /\ Len(plan) \in Nat
          /\ docs \in Seq(Seq(Held)) /\ Len(docs) \in Nat
      BY <2>3 DEF NextDocument, IInv, Shape
    <3>2. field' = IF Len(plan) = 0 THEN 0 ELSE 1
      <4>1. 1 \in 0 .. Len(plan) + 1
        BY <3>1
      <4>2. 1 % (Len(plan) + 1) = IF 1 = Len(plan) + 1 THEN 0 ELSE 1
        BY <3>1, <4>1, Wraps
      <4> QED
        BY <3>1, <4>2
    <3>3. /\ DOMAIN docs' = 1 .. Len(docs) + 1 /\ Len(docs') = Len(docs) + 1
          /\ docs'[Len(docs) + 1] = <<>>
          /\ \A r \in 1 .. Len(docs) : docs'[r] = docs[r]
      BY <3>1
    <3>4. \A r \in 1 .. Len(docs) : Len(docs[r]) = Len(plan)
      BY <3>1 DEF AllTaken
    <3>5. ASSUME NEW r \in DOMAIN docs' PROVE (field' # 0 /\ r = Len(docs')) \/ Len(docs'[r]) = Len(plan)
      <4>1. CASE r = Len(docs) + 1
        BY <3>1, <3>2, <3>3, <4>1
      <4>2. CASE r # Len(docs) + 1
        <5>1. r \in 1 .. Len(docs)
          BY <3>1, <3>3, <4>2
        <5> QED
          BY <3>3, <3>4, <5>1
      <4> QED
        BY <4>1, <4>2
    <3> QED
      BY <3>1, <3>5 DEF AllTaken
  <2>4. CASE DecodeField
    <3> DEFINE L == Len(docs)
    <3>1. PICK v \in BsonValues(plan[field]) : docs' = [docs EXCEPT ![L] = Append(@, v)]
      BY <2>4 DEF DecodeField
    <3>2. /\ field' = (field + 1) % (Len(plan) + 1) /\ plan' = plan /\ status = "decoding" /\ field # 0
      BY <2>4 DEF DecodeField
    <3>3. /\ field \in 1 .. Len(plan) /\ Len(plan) \in Nat
          /\ docs \in Seq(Seq(Held)) /\ L \in Nat /\ L >= 1 /\ docs[L] \in Seq(Held) /\ Len(docs[L]) = field - 1
      BY <3>2 DEF IInv, Shape
    <3> DEFINE d == Append(docs[L], v)
    <3>4. d \in Seq(Held) /\ Len(d) = field
      <4>1. plan[field] \in Nodes
        BY <3>2 DEF IInv, Shape
      <4>2. v \in Held
        BY <4>1, ValuesAssumption DEF Held
      <4> QED
        BY <3>3, <4>2
    <3>5. /\ DOMAIN docs' = 1 .. L /\ Len(docs') = L
          /\ docs'[L] = d
          /\ \A r \in 1 .. L : r # L => docs'[r] = docs[r]
      <4>1. L \in 1 .. Len(docs) /\ docs' = [docs EXCEPT ![L] = d]
        BY <3>1, <3>3
      <4> HIDE DEF d
      <4>2. /\ [docs EXCEPT ![L] = d] \in Seq(Seq(Held)) /\ Len([docs EXCEPT ![L] = d]) = Len(docs)
            /\ [docs EXCEPT ![L] = d][L] = d
            /\ \A r \in 1 .. Len(docs) : r # L => [docs EXCEPT ![L] = d][r] = docs[r]
        BY <3>3, <3>4, <4>1, Replaced
      <4>3. docs' \in Seq(Seq(Held)) /\ Len(docs') = L /\ docs'[L] = d
        BY <4>1, <4>2, Zenon
      <4>4. DOMAIN docs' = 1 .. L
        BY <3>3, <4>3
      <4> QED
        BY <4>1, <4>2, <4>3, <4>4, Zenon
    <3>6. field' = IF field = Len(plan) THEN 0 ELSE field + 1
      <4>1. field + 1 \in 0 .. Len(plan) + 1
        BY <3>3
      <4>2. (field + 1) % (Len(plan) + 1) = IF field + 1 = Len(plan) + 1 THEN 0 ELSE field + 1
        BY <3>3, <4>1, Wraps
      <4> QED
        BY <3>2, <3>3, <4>2
    <3>7. \A r \in 1 .. L : r # L => Len(docs[r]) = Len(plan)
      BY <3>2, <3>3 DEF AllTaken
    <3> HIDE DEF L, d
    <3>8. ASSUME NEW r \in DOMAIN docs' PROVE (field' # 0 /\ r = Len(docs')) \/ Len(docs'[r]) = Len(plan)
      <4>1. CASE r = L
        BY <3>3, <3>4, <3>5, <3>6, <4>1
      <4>2. CASE r # L
        BY <3>5, <3>7, <4>2
      <4> QED
        BY <4>1, <4>2
    <3> QED
      BY <3>2, <3>8 DEF AllTaken
  <2>5. CASE Finish \/ ThroughHex \/ Write
    <3>1. /\ docs' = docs /\ field' = field /\ plan' = plan /\ status \in {"decoding", "framed"}
      BY <2>5 DEF Finish, ThroughHex, Write
    <3> QED
      BY <3>1 DEF AllTaken
  <2> QED
    BY <2>1, <2>2, <2>3, <2>4, <2>5 DEF Next
<1> QED
  BY <1>1, <1>2, IInvHolds, PTL DEF Spec

(* Write refuses a frame for a value that it names the place of.           *)
LEMMA WriteFindsWhere == IInv /\ Planned /\ AllTaken /\ Write => EncodeErrorLocated'
<1> SUFFICES ASSUME IInv, Planned, AllTaken, Write, status' = "encode_error"
             PROVE  EncodeErrorLocated'
  BY DEF EncodeErrorLocated
<1> DEFINE faults == [i \in DOMAIN plan |-> EncodeFault[plan[i]][columns[i]][AllRows(plan[i], columns[i])]]
           m == Len(plan)
           n == Len(docs)
<1>1. /\ status = "framed" /\ FirstOf(faults) # None /\ error' = FirstOf(faults)
      /\ schema' = schema /\ plan' = plan /\ docs' = docs
  BY DEF Write, FrameFault
<1>2. m \in Nat /\ DOMAIN faults = 1 .. m /\ DOMAIN plan = 1 .. m
  BY DEF IInv, Shape
<1> HIDE DEF faults, m
<1>3. PICK i \in 1 .. m : faults[i] # None /\ FirstOf(faults) = faults[i]
  BY <1>1, <1>2, FirstError
<1> DEFINE p == plan[i]
           f == schema[i]
           fault == EncodeFault[p][columns[i]][1 .. n]
<1> DEFINE vs == [r \in 1 .. n |-> docs[r][i]]
<1>4. \A r \in 1 .. n : vs[r] = docs[r][i]
  OBVIOUS
<1> HIDE DEF vs, n
<1>5. n = Len(docs) /\ i \in DOMAIN plan
  BY <1>2 DEF n
<1>6. /\ p \in Nodes /\ columns[i] \in Columns[p]
      /\ n \in Nat /\ 1 .. n \in SUBSET Nat /\ DOMAIN docs = 1 .. n
      /\ Sound[p][columns[i]][n]
      /\ AllRows(p, columns[i]) = 1 .. n
      /\ AllSaid(p, columns[i], n, 1 .. n, vs)
  BY <1>1, <1>4, <1>5, FrameSaid
<1>7. error' = fault /\ fault # None
  BY <1>1, <1>3, <1>5, <1>6 DEF faults
<1>8. /\ f.dtype \in Dtypes /\ f.nullable \in BOOLEAN /\ f.name \in Names /\ <<f.name>> \in Seq(Names)
      /\ CompiledFrom(p, f.dtype, <<f.name>>, f.nullable)
  BY <1>1, <1>5, SchemaFields DEF CompiledFrom
<1> HIDE DEF p, f, fault
<1>9. FindsUnder(p, f.dtype, <<f.name>>, f.nullable)
  BY <1>6, <1>8, FoundWhere DEF FindsWhere
<1>10. PICK way \in Seq(Names), r \in (1 .. n) \cap (1 .. n) :
         UnsaidAt(fault, <<f.name>> \o way, PlansWithin(f.dtype, <<f.name>>, f.nullable, way),
                  HeldAt[p][vs[r]][way], ListOnWay(f.dtype, <<f.name>>, f.nullable, way), r)
  BY <1>6, <1>7, <1>9 DEF FindsUnder, fault
<1> DEFINE s == <<f.name>> \o way
           listed == ListOnWay(f.dtype, <<f.name>>, f.nullable, way)
<1>11. PICK e : \E q \in PlansWithin(f.dtype, <<f.name>>, f.nullable, way), w \in HeldAt[p][vs[r]][way] :
                    fault = Some(e) /\ e.path = s /\ (listed \/ r = e.row) /\ Unsaid(q, w, e)
  BY <1>10 DEF UnsaidAt
<1>12. PICK q \in PlansWithin(f.dtype, <<f.name>>, f.nullable, way), w \in HeldAt[p][vs[r]][way] :
                    fault = Some(e) /\ e.path = s /\ (listed \/ r = e.row) /\ Unsaid(q, w, e)
  BY <1>11
<1>13. q \in PlanAt(s)
  BY <1>1, <1>5, PlanOfField DEF f
<1>14. w \in InDocument(r, s)
  <2>1. r \in DOMAIN docs /\ vs[r] = docs[r][i]
    BY <1>4, <1>6
  <2>2. field = 0
    BY <1>1 DEF IInv, Shape
  <2>3. Len(docs[r]) = Len(plan) /\ docs[r] \in Seq(Held)
    BY <1>1, <2>1, <2>2 DEF AllTaken, IInv, Shape
  <2>4. i \in DOMAIN docs[r]
    BY <1>2, <2>3 DEF m
  <2> QED
    BY <1>1, <1>5, <2>1, <2>4, AtField DEF f, p
<1>15. listed => InList(s)
  <2> SUFFICES ASSUME listed PROVE InList(s)
    OBVIOUS
  <2>1. PICK k \in 0 .. Len(way) - 1 :
           \E x \in PlansWithin(f.dtype, <<f.name>>, f.nullable, SubSeq(way, 1, k)) : x.type = "List"
    BY DEF ListOnWay
  <2>2. PICK x \in PlansWithin(f.dtype, <<f.name>>, f.nullable, SubSeq(way, 1, k)) : x.type = "List"
    BY <2>1
  <2>3. Len(s) = Len(way) + 1 /\ Len(way) \in Nat
    BY <1>8, Way
  <2>4. k \in 0 .. Len(way) /\ k + 1 \in 1 .. Len(s) - 1
    BY <2>3
  <2>5. SubSeq(way, 1, k) \in Seq(Names) /\ SubSeq(s, 1, k + 1) = <<f.name>> \o SubSeq(way, 1, k)
    BY <1>8, <2>4, WayBegins, SubSeqProperties
  <2>6. x \in PlanAt(<<f.name>> \o SubSeq(way, 1, k))
    BY <1>1, <1>5, <2>5, PlanOfField DEF f
  <2> HIDE DEF s
  <2> QED
    BY <2>2, <2>4, <2>5, <2>6 DEF InList
<1>16. error'[1] = e /\ error'[1].path = s /\ error'[1].row = e.row /\ error'[1].declared = e.declared
  BY <1>7, <1>12 DEF Some
<1> HIDE DEF s, listed
<1>17. q \in PlanAt(error[1].path)'
  BY <1>1, <1>13, <1>16 DEF PlanAt
<1>18. w \in InDocument(r, error[1].path)'
  BY <1>1, <1>14, <1>16 DEF InDocument
<1>19. InList(error[1].path)' \/ r = error'[1].row
  <2>1. InList(s) => InList(error[1].path)'
    <3>1. schema' = schema /\ error'[1].path = s
      BY <1>1, <1>16
    <3> QED
      BY <3>1 DEF InList, PlanAt
  <2> QED
    BY <1>12, <1>15, <1>16, <2>1
<1>20. r \in DOMAIN docs'
  BY <1>1, <1>6
<1>21. error'[1].declared = q.type /\ ~IsNull(w) /\ Unwritable(q, LeafValue(w))
  BY <1>12, <1>16 DEF Unsaid
<1> QED
  BY <1>17, <1>18, <1>19, <1>20, <1>21 DEF EncodeErrorLocated

(* A frame that cannot be written is refused for a value that is at the    *)
(* place the error names and that no BSON value of the declared type can   *)
(* say: in the row of the error or, when the place is inside a list, in    *)
(* some row.                                                               *)
THEOREM EncodeErrorLocatedHolds == Spec => []EncodeErrorLocated
<1>1. Init => EncodeErrorLocated
  BY DEF Init, EncodeErrorLocated
<1>2. IInv /\ Planned /\ AllTaken /\ EncodeErrorLocated /\ [Next]_vars => EncodeErrorLocated'
  <2> SUFFICES ASSUME IInv, Planned, AllTaken, EncodeErrorLocated, [Next]_vars, status' = "encode_error"
               PROVE  EncodeErrorLocated'
    BY DEF EncodeErrorLocated
  <2>1. CASE UNCHANGED vars
    BY <2>1 DEF vars, EncodeErrorLocated, PlanAt, InDocument, InList
  <2>2. CASE Write
    BY <2>2, WriteFindsWhere
  <2>3. CASE Compile \/ NextDocument \/ DecodeField \/ Finish \/ ThroughHex
    BY <2>3 DEF Compile, NextDocument, DecodeField, Finish, ThroughHex
  <2> QED
    BY <2>1, <2>2, <2>3 DEF Next
<1> QED
  BY <1>1, <1>2, IInvHolds, PlannedHolds, AllTakenHolds, PTL DEF Spec
=============================================================================
