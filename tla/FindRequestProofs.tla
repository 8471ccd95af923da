-------------------------- MODULE FindRequestProofs --------------------------
(***************************************************************************)
(* What a find is sent, and where a dictionary is found at fault, for      *)
(* every set of values and however deep they are nested.                   *)
(***************************************************************************)
EXTENDS FindRequest, WellFoundedInduction, TLAPS

(* A set of natural numbers that is not empty has a least member.          *)
LEMMA LeastNumber ==
    \A N \in SUBSET Nat : N # {} => \E n \in N : \A m \in N : n <= m
<1> SUFFICES ASSUME NEW N \in SUBSET Nat, N # {}
             PROVE  \E n \in N : \A m \in N : n <= m
  OBVIOUS
<1> DEFINE Less == OpToRel(<, Nat)
<1>1. IsWellFoundedOn(Less, Nat)
  BY NatLessThanWellFounded
<1>2. PICK k \in N : TRUE
  OBVIOUS
<1>3. PICK n \in N : \A m \in N : ~(<<m, n>> \in Less)
  BY <1>1, <1>2, WFMin
<1>4. \A m \in N : ~(m < n)
  BY <1>3 DEF OpToRel
<1> QED
  BY <1>4

----------------------------------------------------------------------------
(* Values.                                                                 *)
Containers == {"dict", "list", "tuple"}

(* The first cast that succeeds is that of the class itself: bool is a     *)
(* subclass of int, and its cast comes before.                             *)
LEMMA KindIsClass ==
    ASSUME NEW v
    PROVE  Kind(v) = IF v.class \in {"NoneType", "bool", "str", "int", "float", "bytes", "dict",
                                     "list", "tuple", "ObjectId"}
                     THEN v.class ELSE "other"
<1> DEFINE fits == {i \in DOMAIN Casts : IsInstance(v, Casts[i])}
<1>1. DOMAIN Casts = 1 .. 10
  BY DEF Casts
<1>2. /\ Casts[1] = "NoneType" /\ Casts[2] = "bool" /\ Casts[3] = "str" /\ Casts[4] = "int"
      /\ Casts[5] = "float" /\ Casts[6] = "bytes" /\ Casts[7] = "dict" /\ Casts[8] = "list"
      /\ Casts[9] = "tuple" /\ Casts[10] = "ObjectId"
  BY DEF Casts
<1>3. \A i \in DOMAIN Casts : i \in fits <=> Casts[i] = v.class \/ (v.class = "bool" /\ Casts[i] = "int")
  BY DEF IsInstance
<1>4. \A i \in fits : i \in 1 .. 10
  BY <1>1
<1> HIDE DEF fits
<1>5. ASSUME NEW n \in 1 .. 10, Casts[n] = v.class PROVE Kind(v) = v.class
  <2>1. n \in fits
    BY <1>1, <1>3, <1>5
  <2>2. \A i \in fits : n <= i
    BY <1>1, <1>2, <1>3, <1>4, <1>5
  <2>3. \A m \in fits : (\A i \in fits : m <= i) => m = n
    BY <1>4, <2>1, <2>2
  <2>4. Min(fits) = n
    BY <2>1, <2>2, <2>3 DEF Min
  <2> QED
    BY <1>5, <2>1, <2>4 DEF Kind, fits
<1>6. CASE v.class \in {"NoneType", "bool", "str", "int", "float", "bytes", "dict", "list", "tuple", "ObjectId"}
  <2>1. \E n \in 1 .. 10 : Casts[n] = v.class
    BY <1>2, <1>6
  <2> QED
    BY <1>5, <1>6, <2>1
<1>7. CASE v.class \notin {"NoneType", "bool", "str", "int", "float", "bytes", "dict", "list", "tuple", "ObjectId"}
  <2>1. fits = {}
    BY <1>1, <1>2, <1>3, <1>4, <1>7
  <2> QED
    BY <1>7, <2>1 DEF Kind, fits
<1> QED
  BY <1>6, <1>7

LEMMA PartsNested ==
    ASSUME NEW v \in Values
    PROVE  /\ Depth(v) \in Nat
           /\ Len(Parts(v)) \in Nat
           /\ DOMAIN Parts(v) = 1 .. Len(Parts(v))
           /\ \A i \in DOMAIN Parts(v) : Part(v, i) \in Values /\ Depth(Part(v, i)) < Depth(v)
BY NestingAssumption

(* What fails somewhere fails at a value that is least deep.               *)
LEMMA LeastDeep ==
    ASSUME NEW B \in SUBSET Values, B # {}
    PROVE  \E v \in B : \A w \in B : Depth(v) <= Depth(w)
<1> DEFINE N == {Depth(v) : v \in B}
<1>1. N \in SUBSET Nat /\ N # {}
  BY PartsNested
<1>2. \E n \in N : \A m \in N : n <= m
  <2> HIDE DEF N
  <2> QED
    BY <1>1, LeastNumber
<1> QED
  BY <1>2

LEMMA PartsOfDict ==
    ASSUME NEW v \in Values, v.class = "dict"
    PROVE  Kind(v) = "dict" /\ Parts(v) = v.items /\ \A i : Part(v, i) = v.items[i].value
BY KindIsClass DEF Parts, Part

LEMMA PartsOfSequence ==
    ASSUME NEW v \in Values, v.class \in {"list", "tuple"}
    PROVE  Kind(v) = v.class /\ Parts(v) = v.items /\ \A i : Part(v, i) = v.items[i]
BY KindIsClass DEF Parts, Part

----------------------------------------------------------------------------
(* The recursive definitions mean what they say. A body is the definition  *)
(* in terms of what it gives to the parts of a value.                      *)
FaultsBody(f, v) ==
    LET bad == {i \in DOMAIN Parts(v) : BadKey(v, i) \/ f[Part(v, i)] # {}}
    IN  IF Unconvertible(v) THEN {<<>>}
        ELSE IF bad = {} THEN {}
        ELSE LET i == Min(bad)
             IN  IF BadKey(v, i) THEN {<<>>}
                 ELSE {<<Step(v, i)>> \o path : path \in f[Part(v, i)]}

FaultsRec == INSTANCE Recursion WITH S <- Values, Rank <- Depth, Body <- FaultsBody

LEMMA LeastIndex ==
    ASSUME NEW v \in Values, NEW I \in SUBSET DOMAIN Parts(v), I # {}
    PROVE  Min(I) \in I
<1>1. I \in SUBSET Nat
  BY PartsNested
<1>2. \E i \in I : \A j \in I : i <= j
  BY <1>1, LeastNumber
<1> QED
  BY <1>2 DEF Min

LEMMA FaultsUnfold ==
    ASSUME NEW v \in Values
    PROVE  Faults[v] = FaultsBody(Faults, v)
<1>1. FaultsRec!Ranked
  BY PartsNested DEF FaultsRec!Ranked
<1>2. FaultsRec!Local
  <2> SUFFICES ASSUME NEW w \in Values, NEW g, NEW h,
                      \A y \in Values : Depth(y) < Depth(w) => g[y] = h[y]
               PROVE  FaultsBody(g, w) = FaultsBody(h, w)
    BY DEF FaultsRec!Local
  <2>1. \A i \in DOMAIN Parts(w) : g[Part(w, i)] = h[Part(w, i)]
    BY PartsNested
  <2> DEFINE gb == {i \in DOMAIN Parts(w) : BadKey(w, i) \/ g[Part(w, i)] # {}}
             hb == {i \in DOMAIN Parts(w) : BadKey(w, i) \/ h[Part(w, i)] # {}}
  <2>2. gb = hb
    BY <2>1
  <2>3. CASE gb = {}
    BY <2>2, <2>3 DEF FaultsBody
  <2>4. CASE gb # {}
    <3>1. Min(gb) \in gb
      BY <2>4, LeastIndex
    <3> QED
      BY <2>1, <2>2, <2>4, <3>1 DEF FaultsBody
  <2> QED
    BY <2>3, <2>4
<1>3. \E f : f = [x \in Values |-> FaultsBody(f, x)]
  BY <1>1, <1>2, LeastNumber, FaultsRec!RecursiveFunction
<1>4. Faults = [x \in Values |-> FaultsBody(Faults, x)]
  BY <1>3 DEF Faults, FaultsBody
<1> QED
  BY <1>4

PyToBsonBody(f, v) ==
    CASE Kind(v) = "int"  -> [tag |-> IF Fits(v.content) THEN "Int32" ELSE "Int64", content |-> v.content]
      [] Kind(v) = "str"  -> [tag |-> "String", content |-> ToStringLossy(v.content)]
      [] Kind(v) = "dict" ->
            [tag |-> "Document",
             fields |-> [i \in DOMAIN v.items |-> [key   |-> v.items[i].key.text,
                                                   value |-> f[v.items[i].value]]]]
      [] Kind(v) \in {"list", "tuple"} ->
            [tag |-> "Array", items |-> [i \in DOMAIN v.items |-> f[v.items[i]]]]
      [] OTHER -> [tag |-> Scalar[Kind(v)], content |-> v.content]

PyToBsonRec == INSTANCE Recursion WITH S <- Values, Rank <- Depth, Body <- PyToBsonBody

LEMMA PyToBsonUnfold ==
    ASSUME NEW v \in Values
    PROVE  PyToBson[v] = PyToBsonBody(PyToBson, v)
<1>1. PyToBsonRec!Ranked
  BY PartsNested DEF PyToBsonRec!Ranked
<1>2. PyToBsonRec!Local
  <2> SUFFICES ASSUME NEW w \in Values, NEW g, NEW h,
                      \A y \in Values : Depth(y) < Depth(w) => g[y] = h[y]
               PROVE  PyToBsonBody(g, w) = PyToBsonBody(h, w)
    BY DEF PyToBsonRec!Local
  <2>1. \A i \in DOMAIN Parts(w) : g[Part(w, i)] = h[Part(w, i)]
    BY PartsNested
  <2>2. CASE Kind(w) = "dict"
    <3>1. \A i \in DOMAIN w.items : g[w.items[i].value] = h[w.items[i].value]
      BY <2>1, <2>2 DEF Parts, Part
    <3>2. [i \in DOMAIN w.items |-> [key |-> w.items[i].key.text, value |-> g[w.items[i].value]]]
          = [i \in DOMAIN w.items |-> [key |-> w.items[i].key.text, value |-> h[w.items[i].value]]]
      BY <3>1
    <3> QED
      BY <2>2, <3>2 DEF PyToBsonBody
  <2>3. CASE Kind(w) \in {"list", "tuple"}
    <3>1. \A i \in DOMAIN w.items : g[w.items[i]] = h[w.items[i]]
      BY <2>1, <2>3 DEF Parts, Part
    <3>2. [i \in DOMAIN w.items |-> g[w.items[i]]] = [i \in DOMAIN w.items |-> h[w.items[i]]]
      BY <3>1
    <3> QED
      BY <2>3, <3>2 DEF PyToBsonBody
  <2>4. CASE Kind(w) \notin Containers
    BY <2>4 DEF PyToBsonBody, Containers
  <2> QED
    BY <2>2, <2>3, <2>4 DEF Containers
<1>3. \E f : f = [x \in Values |-> PyToBsonBody(f, x)]
  BY <1>1, <1>2, LeastNumber, PyToBsonRec!RecursiveFunction
<1>4. PyToBson = [x \in Values |-> PyToBsonBody(PyToBson, x)]
  BY <1>3 DEF PyToBson, PyToBsonBody
<1> QED
  BY <1>4

SaysBody(f, v) ==
    {b \in Bson :
        CASE v.class = "dict" ->
                /\ b.tag = "Document"
                /\ Len(b.fields) = Len(v.items)
                /\ \A i \in DOMAIN v.items :
                        /\ v.items[i].key.class = "str"
                        /\ v.items[i].key.text = b.fields[i].key
                        /\ b.fields[i].value \in f[v.items[i].value]
          [] v.class \in {"list", "tuple"} ->
                /\ b.tag = "Array"
                /\ Len(b.items) = Len(v.items)
                /\ \A i \in DOMAIN v.items : b.items[i] \in f[v.items[i]]
          [] v.class = "int"  -> b.tag \in {"Int32", "Int64"} /\ b.content = v.content
          [] v.class = "str"  -> b.tag = "String" /\ (v.content # Unpaired => b.content = v.content)
          [] v.class = "bool" -> b.tag = "Boolean" /\ b.content = v.content
          [] OTHER -> b.tag = Scalar[v.class] /\ b.content = v.content}

SaysRec == INSTANCE Recursion WITH S <- Values, Rank <- Depth, Body <- SaysBody

LEMMA SaysUnfold ==
    ASSUME NEW v \in Values
    PROVE  Says[v] = SaysBody(Says, v)
<1>1. SaysRec!Ranked
  BY PartsNested DEF SaysRec!Ranked
<1>2. SaysRec!Local
  <2> SUFFICES ASSUME NEW w \in Values, NEW g, NEW h,
                      \A y \in Values : Depth(y) < Depth(w) => g[y] = h[y]
               PROVE  SaysBody(g, w) = SaysBody(h, w)
    BY DEF SaysRec!Local
  <2>1. \A i \in DOMAIN Parts(w) : g[Part(w, i)] = h[Part(w, i)]
    BY PartsNested
  <2>2. CASE w.class = "dict"
    <3>1. \A i \in DOMAIN w.items : g[w.items[i].value] = h[w.items[i].value]
      BY <2>1, <2>2, PartsOfDict
    <3> QED
      BY <2>2, <3>1 DEF SaysBody
  <2>3. CASE w.class \in {"list", "tuple"}
    <3>1. \A i \in DOMAIN w.items : g[w.items[i]] = h[w.items[i]]
      BY <2>1, <2>3, PartsOfSequence
    <3> QED
      BY <2>3, <3>1 DEF SaysBody
  <2>4. CASE w.class \notin Containers
    BY <2>4 DEF SaysBody, Containers
  <2> QED
    BY <2>2, <2>3, <2>4 DEF Containers
<1>3. \E f : f = [x \in Values |-> SaysBody(f, x)]
  BY <1>1, <1>2, LeastNumber, SaysRec!RecursiveFunction
<1>4. Says = [x \in Values |-> SaysBody(Says, x)]
  BY <1>3 DEF Says, SaysBody
<1> QED
  BY <1>4

AtBody(f, v) ==
    [path \in Seq(Steps) |->
        IF path = <<>> THEN {v}
        ELSE CASE v.class = "dict" ->
                     UNION {f[v.items[i].value][Tail(path)] :
                               i \in {j \in DOMAIN v.items : Head(path) = [key |-> v.items[j].key.text]}}
               [] v.class \in {"list", "tuple"} ->
                     UNION {f[v.items[i]][Tail(path)] :
                               i \in {j \in DOMAIN v.items : Head(path) = [index |-> j - 1]}}
               [] OTHER -> {}]

AtRec == INSTANCE Recursion WITH S <- Values, Rank <- Depth, Body <- AtBody

LEMMA AtUnfold ==
    ASSUME NEW v \in Values
    PROVE  At[v] = AtBody(At, v)
<1>1. AtRec!Ranked
  BY PartsNested DEF AtRec!Ranked
<1>2. AtRec!Local
  <2> SUFFICES ASSUME NEW w \in Values, NEW g, NEW h,
                      \A y \in Values : Depth(y) < Depth(w) => g[y] = h[y]
               PROVE  AtBody(g, w) = AtBody(h, w)
    BY DEF AtRec!Local
  <2>1. \A i \in DOMAIN Parts(w) : g[Part(w, i)] = h[Part(w, i)]
    BY PartsNested
  <2>2. CASE w.class = "dict"
    <3>1. \A i \in DOMAIN w.items : g[w.items[i].value] = h[w.items[i].value]
      BY <2>1, <2>2, PartsOfDict
    <3> DEFINE J(path) == {j \in DOMAIN w.items : Head(path) = [key |-> w.items[j].key.text]}
    <3>2. \A path : {g[w.items[i].value][Tail(path)] : i \in J(path)}
                    = {h[w.items[i].value][Tail(path)] : i \in J(path)}
      BY <3>1
    <3> HIDE DEF J
    <3>3. \A f : AtBody(f, w) = [path \in Seq(Steps) |->
                IF path = <<>> THEN {w} ELSE UNION {f[w.items[i].value][Tail(path)] : i \in J(path)}]
      BY <2>2 DEF AtBody, J
    <3>4. [path \in Seq(Steps) |->
              IF path = <<>> THEN {w} ELSE UNION {g[w.items[i].value][Tail(path)] : i \in J(path)}]
          = [path \in Seq(Steps) |->
              IF path = <<>> THEN {w} ELSE UNION {h[w.items[i].value][Tail(path)] : i \in J(path)}]
      BY <3>2, Zenon
    <3> QED
      BY <3>3, <3>4, Zenon
  <2>3. CASE w.class \in {"list", "tuple"}
    <3>1. \A i \in DOMAIN w.items : g[w.items[i]] = h[w.items[i]]
      BY <2>1, <2>3, PartsOfSequence
    <3> DEFINE J(path) == {j \in DOMAIN w.items : Head(path) = [index |-> j - 1]}
    <3>2. \A path : {g[w.items[i]][Tail(path)] : i \in J(path)}
                    = {h[w.items[i]][Tail(path)] : i \in J(path)}
      BY <3>1
    <3> HIDE DEF J
    <3>3. \A f : AtBody(f, w) = [path \in Seq(Steps) |->
                IF path = <<>> THEN {w} ELSE UNION {f[w.items[i]][Tail(path)] : i \in J(path)}]
      BY <2>3 DEF AtBody, J
    <3>4. [path \in Seq(Steps) |->
              IF path = <<>> THEN {w} ELSE UNION {g[w.items[i]][Tail(path)] : i \in J(path)}]
          = [path \in Seq(Steps) |->
              IF path = <<>> THEN {w} ELSE UNION {h[w.items[i]][Tail(path)] : i \in J(path)}]
      BY <3>2, Zenon
    <3> QED
      BY <3>3, <3>4, Zenon
  <2>4. CASE w.class \notin Containers
    BY <2>4 DEF AtBody, Containers
  <2> QED
    BY <2>2, <2>3, <2>4 DEF Containers
<1>3. \E f : f = [x \in Values |-> AtBody(f, x)]
  BY <1>1, <1>2, LeastNumber, AtRec!RecursiveFunction
<1>4. At = [x \in Values |-> AtBody(At, x)]
  BY <1>3 DEF At, AtBody
<1> QED
  BY <1>4

----------------------------------------------------------------------------
(* Conversion.                                                             *)
Faultless(v) == Faults[v] = {}

LEMMA FaultlessParts ==
    ASSUME NEW v \in Values, Faultless(v)
    PROVE  /\ ~Unconvertible(v)
           /\ \A i \in DOMAIN Parts(v) : ~BadKey(v, i) /\ Faultless(Part(v, i))
<1> DEFINE bad == {i \in DOMAIN Parts(v) : BadKey(v, i) \/ Faults[Part(v, i)] # {}}
<1>1. FaultsBody(Faults, v) = {}
  BY FaultsUnfold DEF Faultless
<1>2. ~Unconvertible(v)
  BY <1>1 DEF FaultsBody
<1>3. bad = {}
  <2> SUFFICES ASSUME bad # {} PROVE FALSE
    OBVIOUS
  <2>1. Min(bad) \in bad
    BY LeastIndex
  <2>2. IF BadKey(v, Min(bad)) THEN {<<>>} = {}
        ELSE {<<Step(v, Min(bad))>> \o path : path \in Faults[Part(v, Min(bad))]} = {}
    BY <1>1, <1>2 DEF FaultsBody
  <2> QED
    BY <2>1, <2>2
<1> QED
  BY <1>2, <1>3 DEF Faultless

LEMMA FaultlessInBson ==
    ASSUME NEW v \in Values, Faultless(v)
    PROVE  PyToBson[v] \in Bson
BY DEF Faultless, Bson

(* The last cast to fail leaves a class that has no BSON.                  *)
LEMMA FaultlessClass ==
    ASSUME NEW v \in Values, Faultless(v)
    PROVE  /\ v.class \in {"NoneType", "bool", "str", "int", "float", "bytes", "dict", "list",
                           "tuple", "ObjectId"}
           /\ Kind(v) = v.class
BY FaultlessParts, KindIsClass DEF Unconvertible

(* A value without a fault converts to BSON that says what it says, at     *)
(* every depth. (py_to_bson.)                                              *)
LEMMA ConvertedSays ==
    \A v \in Values : Faultless(v) => PyToBson[v] \in Says[v]
<1> DEFINE Wrong == {v \in Values : Faultless(v) /\ PyToBson[v] \notin Says[v]}
<1> SUFFICES ASSUME Wrong # {} PROVE FALSE
  OBVIOUS
<1>1. PICK v \in Wrong : \A w \in Wrong : Depth(v) <= Depth(w)
  BY LeastDeep
<1>2. v \in Values /\ Faultless(v) /\ PyToBson[v] \notin Says[v]
  BY <1>1
<1>3. PyToBson[v] = PyToBsonBody(PyToBson, v)
  BY <1>2, PyToBsonUnfold
<1>4. PyToBson[v] \in Bson /\ PyToBson[v] \notin SaysBody(Says, v)
  BY <1>2, SaysUnfold, FaultlessInBson
<1>5. \A i \in DOMAIN Parts(v) : ~BadKey(v, i) /\ PyToBson[Part(v, i)] \in Says[Part(v, i)]
  <2> SUFFICES ASSUME NEW i \in DOMAIN Parts(v)
               PROVE  ~BadKey(v, i) /\ PyToBson[Part(v, i)] \in Says[Part(v, i)]
    OBVIOUS
  <2>1. ~BadKey(v, i) /\ Faultless(Part(v, i))
    BY <1>2, FaultlessParts
  <2>2. Part(v, i) \in Values /\ Depth(Part(v, i)) \in Nat /\ Depth(v) \in Nat /\ Depth(Part(v, i)) < Depth(v)
    BY <1>2, PartsNested
  <2>3. Part(v, i) \notin Wrong
    BY <1>1, <2>2
  <2> QED
    BY <2>1, <2>2, <2>3
<1>6. Kind(v) = v.class
  BY <1>2, FaultlessClass
<1>7. CASE v.class = "dict"
  <2>1. /\ Parts(v) = v.items
        /\ \A i : Part(v, i) = v.items[i].value
    BY <1>2, <1>7, PartsOfDict
  <2>2. Len(v.items) \in Nat /\ DOMAIN v.items = 1 .. Len(v.items)
    BY <1>2, <2>1, PartsNested
  <2> DEFINE fields == [i \in DOMAIN v.items |-> [key   |-> v.items[i].key.text,
                                                  value |-> PyToBson[v.items[i].value]]]
  <2>3. PyToBson[v] = [tag |-> "Document", fields |-> fields]
    BY <1>3, <1>6, <1>7 DEF PyToBsonBody
  <2>4. Len(fields) = Len(v.items)
    BY <2>2
  <2>5. \A i \in DOMAIN v.items : /\ v.items[i].key.class = "str"
                                  /\ v.items[i].key.text = fields[i].key
                                  /\ fields[i].value \in Says[v.items[i].value]
    BY <1>5, <1>6, <1>7, <2>1 DEF BadKey
  <2> HIDE DEF fields
  <2> QED
    BY <1>4, <1>7, <2>3, <2>4, <2>5 DEF SaysBody
<1>8. CASE v.class \in {"list", "tuple"}
  <2>1. /\ Parts(v) = v.items
        /\ \A i : Part(v, i) = v.items[i]
    BY <1>2, <1>8, PartsOfSequence
  <2>2. Len(v.items) \in Nat /\ DOMAIN v.items = 1 .. Len(v.items)
    BY <1>2, <2>1, PartsNested
  <2> DEFINE items == [i \in DOMAIN v.items |-> PyToBson[v.items[i]]]
  <2>3. PyToBson[v] = [tag |-> "Array", items |-> items]
    BY <1>3, <1>6, <1>8 DEF PyToBsonBody
  <2>4. Len(items) = Len(v.items)
    BY <2>2
  <2>5. \A i \in DOMAIN v.items : items[i] \in Says[v.items[i]]
    BY <1>5, <2>1
  <2> HIDE DEF items
  <2> QED
    BY <1>4, <1>8, <2>3, <2>4, <2>5 DEF SaysBody
<1>9. CASE v.class = "int"
  BY <1>3, <1>4, <1>6, <1>9 DEF PyToBsonBody, SaysBody
<1>10. CASE v.class = "str"
  BY <1>3, <1>4, <1>6, <1>10 DEF PyToBsonBody, SaysBody, ToStringLossy
<1>11. CASE v.class = "bool"
  BY <1>3, <1>4, <1>6, <1>11 DEF PyToBsonBody, SaysBody, Scalar
<1>12. CASE v.class \in {"NoneType", "float", "bytes", "ObjectId"}
  <2>1. PyToBson[v] = [tag |-> Scalar[v.class], content |-> v.content]
    BY <1>3, <1>6, <1>12 DEF PyToBsonBody
  <2>2. PyToBson[v].tag = Scalar[v.class] /\ PyToBson[v].content = v.content
    BY <2>1
  <2> QED
    BY <1>4, <1>12, <2>2 DEF SaysBody
<1> QED
  BY <1>2, <1>7, <1>8, <1>9, <1>10, <1>11, <1>12, FaultlessClass

----------------------------------------------------------------------------
(* BSON. A document or an array that comes from a value is nested less     *)
(* deep than the least deep of the values it may come from.                *)
Origins(b) == {v \in Values : Faultless(v) /\ PyToBson[v] = b}

Origin(b) == CHOOSE v \in Origins(b) : \A w \in Origins(b) : Depth(v) <= Depth(w)

BsonDepth(b) == IF b = EmptyDocument THEN 0 ELSE Depth(Origin(b))

LEMMA OriginIs ==
    ASSUME NEW b \in Bson, b # EmptyDocument
    PROVE  Origin(b) \in Origins(b) /\ \A w \in Origins(b) : Depth(Origin(b)) <= Depth(w)
<1>1. Origins(b) # {} /\ Origins(b) \in SUBSET Values
  BY DEF Bson, Origins, Faultless
<1>2. \E v \in Origins(b) : \A w \in Origins(b) : Depth(v) <= Depth(w)
  BY <1>1, LeastDeep
<1> QED
  BY <1>2 DEF Origin

LEMMA BsonDepthBound ==
    ASSUME NEW v \in Values, Faultless(v)
    PROVE  PyToBson[v] \in Bson /\ BsonDepth(PyToBson[v]) \in Nat /\ BsonDepth(PyToBson[v]) <= Depth(v)
<1>1. PyToBson[v] \in Bson /\ Depth(v) \in Nat
  BY FaultlessInBson, PartsNested
<1>2. CASE PyToBson[v] = EmptyDocument
  BY <1>1, <1>2 DEF BsonDepth
<1>3. CASE PyToBson[v] # EmptyDocument
  <2>1. v \in Origins(PyToBson[v])
    BY DEF Origins
  <2>2. Origin(PyToBson[v]) \in Values /\ Depth(Origin(PyToBson[v])) <= Depth(v)
    BY <1>1, <1>3, <2>1, OriginIs DEF Origins
  <2> QED
    BY <1>1, <1>3, <2>2, PartsNested DEF BsonDepth
<1> QED
  BY <1>2, <1>3

LEMMA BsonNested ==
    ASSUME NEW b \in Bson
    PROVE  /\ BsonDepth(b) \in Nat
           /\ b.tag = "Document" => \A i \in DOMAIN b.fields :
                  b.fields[i].value \in Bson /\ BsonDepth(b.fields[i].value) < BsonDepth(b)
           /\ b.tag = "Array" => \A i \in DOMAIN b.items :
                  b.items[i] \in Bson /\ BsonDepth(b.items[i]) < BsonDepth(b)
<1>1. CASE b = EmptyDocument
  <2>1. b.tag = "Document" /\ DOMAIN b.fields = {}
    BY <1>1 DEF EmptyDocument
  <2> QED
    BY <1>1, <2>1 DEF BsonDepth
<1>2. CASE b # EmptyDocument
  <2> DEFINE v == Origin(b)
  <2>1. v \in Values /\ Faultless(v) /\ PyToBson[v] = b
    BY <1>2, OriginIs DEF Origins
  <2>2. BsonDepth(b) = Depth(v) /\ Depth(v) \in Nat
    BY <1>2, <2>1, PartsNested DEF BsonDepth
  <2> HIDE DEF v
  <2>3. b = PyToBsonBody(PyToBson, v)
    BY <2>1, PyToBsonUnfold
  <2>4. \A i \in DOMAIN Parts(v) : /\ PyToBson[Part(v, i)] \in Bson
                                   /\ BsonDepth(PyToBson[Part(v, i)]) < BsonDepth(b)
    <3> SUFFICES ASSUME NEW i \in DOMAIN Parts(v)
                 PROVE  /\ PyToBson[Part(v, i)] \in Bson
                        /\ BsonDepth(PyToBson[Part(v, i)]) < BsonDepth(b)
      OBVIOUS
    <3>1. Part(v, i) \in Values /\ Depth(Part(v, i)) < Depth(v) /\ Depth(Part(v, i)) \in Nat
      BY <2>1, PartsNested
    <3>2. Faultless(Part(v, i))
      BY <2>1, FaultlessParts
    <3> QED
      BY <2>2, <3>1, <3>2, BsonDepthBound
  <2>5. Kind(v) = v.class
    BY <2>1, FaultlessClass
  <2>6. CASE v.class = "dict"
    <3>1. Parts(v) = v.items /\ \A i : Part(v, i) = v.items[i].value
      BY <2>1, <2>6, PartsOfDict
    <3>2. b = [tag |-> "Document",
               fields |-> [i \in DOMAIN v.items |-> [key   |-> v.items[i].key.text,
                                                     value |-> PyToBson[v.items[i].value]]]]
      BY <2>3, <2>5, <2>6 DEF PyToBsonBody
    <3>3. b.tag = "Document" /\ DOMAIN b.fields = DOMAIN v.items
      BY <3>2
    <3>4. \A i \in DOMAIN v.items : b.fields[i].value = PyToBson[v.items[i].value]
      BY <3>2
    <3> QED
      BY <2>2, <2>4, <3>1, <3>3, <3>4
  <2>7. CASE v.class \in {"list", "tuple"}
    <3>1. Parts(v) = v.items /\ \A i : Part(v, i) = v.items[i]
      BY <2>1, <2>7, PartsOfSequence
    <3>2. b = [tag |-> "Array", items |-> [i \in DOMAIN v.items |-> PyToBson[v.items[i]]]]
      BY <2>3, <2>5, <2>7 DEF PyToBsonBody
    <3>3. b.tag = "Array" /\ DOMAIN b.items = DOMAIN v.items
      BY <3>2
    <3>4. \A i \in DOMAIN v.items : b.items[i] = PyToBson[v.items[i]]
      BY <3>2
    <3> QED
      BY <2>2, <2>4, <3>1, <3>3, <3>4
  <2>8. CASE v.class = "int"
    <3>1. b.tag \in {"Int32", "Int64"}
      BY <2>3, <2>5, <2>8 DEF PyToBsonBody
    <3> QED
      BY <2>2, <3>1
  <2>9. CASE v.class = "str"
    <3>1. b.tag = "String"
      BY <2>3, <2>5, <2>9 DEF PyToBsonBody
    <3> QED
      BY <2>2, <3>1
  <2>10. CASE v.class \in {"NoneType", "bool", "float", "bytes", "ObjectId"}
    <3>1. b.tag = Scalar[v.class]
      BY <2>3, <2>5, <2>10 DEF PyToBsonBody
    <3>2. b.tag # "Document" /\ b.tag # "Array"
      BY <2>10, <3>1 DEF Scalar
    <3> QED
      BY <2>2, <3>2
  <2> QED
    BY <2>1, <2>6, <2>7, <2>8, <2>9, <2>10, FaultlessClass
<1> QED
  BY <1>1, <1>2

WellFormedBody(f, b) ==
    CASE b.tag = "Document" ->
            \A i \in DOMAIN b.fields : b.fields[i].key # Unpaired /\ f[b.fields[i].value]
      [] b.tag = "Array"  -> \A i \in DOMAIN b.items : f[b.items[i]]
      [] b.tag = "Int32"  -> b.content \in Narrow
      [] b.tag = "Int64"  -> b.content \in Wide \ Narrow
      [] b.tag = "String" -> b.content # Unpaired
      [] OTHER            -> b.tag \in {"Null", "Boolean", "Double", "Binary", "ObjectId"}

WellFormedRec == INSTANCE Recursion WITH S <- Bson, Rank <- BsonDepth, Body <- WellFormedBody

LEMMA WellFormedUnfold ==
    ASSUME NEW b \in Bson
    PROVE  WellFormed[b] = WellFormedBody(WellFormed, b)
<1>1. WellFormedRec!Ranked
  BY BsonNested DEF WellFormedRec!Ranked
<1>2. WellFormedRec!Local
  <2> SUFFICES ASSUME NEW c \in Bson, NEW g, NEW h,
                      \A y \in Bson : BsonDepth(y) < BsonDepth(c) => g[y] = h[y]
               PROVE  WellFormedBody(g, c) = WellFormedBody(h, c)
    BY DEF WellFormedRec!Local
  <2>1. c.tag = "Document" => \A i \in DOMAIN c.fields : g[c.fields[i].value] = h[c.fields[i].value]
    BY BsonNested
  <2>2. c.tag = "Array" => \A i \in DOMAIN c.items : g[c.items[i]] = h[c.items[i]]
    BY BsonNested
  <2> QED
    BY <2>1, <2>2 DEF WellFormedBody
<1>3. \E f : f = [x \in Bson |-> WellFormedBody(f, x)]
  BY <1>1, <1>2, LeastNumber, WellFormedRec!RecursiveFunction
<1>4. WellFormed = [x \in Bson |-> WellFormedBody(WellFormed, x)]
  BY <1>3 DEF WellFormed, WellFormedBody
<1> QED
  BY <1>4

(* A value without a fault converts to BSON that is well formed, at every  *)
(* depth. (py_to_bson, dict_to_document.)                                  *)
LEMMA ConvertedWellFormed ==
    \A v \in Values : Faultless(v) => WellFormed[PyToBson[v]]
<1> DEFINE Wrong == {v \in Values : Faultless(v) /\ ~WellFormed[PyToBson[v]]}
<1> SUFFICES ASSUME Wrong # {} PROVE FALSE
  OBVIOUS
<1>1. PICK v \in Wrong : \A w \in Wrong : Depth(v) <= Depth(w)
  BY LeastDeep
<1>2. v \in Values /\ Faultless(v) /\ ~WellFormed[PyToBson[v]]
  BY <1>1
<1> DEFINE b == PyToBson[v]
<1>3. b = PyToBsonBody(PyToBson, v)
  BY <1>2, PyToBsonUnfold
<1>4. ~WellFormedBody(WellFormed, b)
  BY <1>2, FaultlessInBson, WellFormedUnfold
<1> HIDE DEF b
<1>5. \A i \in DOMAIN Parts(v) : ~BadKey(v, i) /\ WellFormed[PyToBson[Part(v, i)]]
  <2> SUFFICES ASSUME NEW i \in DOMAIN Parts(v)
               PROVE  ~BadKey(v, i) /\ WellFormed[PyToBson[Part(v, i)]]
    OBVIOUS
  <2>1. ~BadKey(v, i) /\ Faultless(Part(v, i))
    BY <1>2, FaultlessParts
  <2>2. Part(v, i) \in Values /\ Depth(Part(v, i)) \in Nat /\ Depth(v) \in Nat /\ Depth(Part(v, i)) < Depth(v)
    BY <1>2, PartsNested
  <2>3. Part(v, i) \notin Wrong
    BY <1>1, <2>2
  <2> QED
    BY <2>1, <2>2, <2>3
<1>6. Kind(v) = v.class /\ ~Unconvertible(v)
  BY <1>2, FaultlessClass, FaultlessParts
<1>7. CASE v.class = "dict"
  <2>1. Parts(v) = v.items /\ \A i : Part(v, i) = v.items[i].value
    BY <1>2, <1>7, PartsOfDict
  <2>2. b = [tag |-> "Document",
             fields |-> [i \in DOMAIN v.items |-> [key   |-> v.items[i].key.text,
                                                   value |-> PyToBson[v.items[i].value]]]]
    BY <1>3, <1>6, <1>7 DEF PyToBsonBody
  <2>3. b.tag = "Document" /\ DOMAIN b.fields = DOMAIN v.items
    BY <2>2
  <2>4. \A i \in DOMAIN v.items : /\ b.fields[i].key = v.items[i].key.text
                                  /\ b.fields[i].value = PyToBson[v.items[i].value]
    BY <2>2
  <2>5. \A i \in DOMAIN v.items : v.items[i].key.text # Unpaired
    BY <1>5, <1>6, <1>7, <2>1 DEF BadKey
  <2> QED
    BY <1>4, <1>5, <2>1, <2>3, <2>4, <2>5 DEF WellFormedBody
<1>8. CASE v.class \in {"list", "tuple"}
  <2>1. Parts(v) = v.items /\ \A i : Part(v, i) = v.items[i]
    BY <1>2, <1>8, PartsOfSequence
  <2>2. b = [tag |-> "Array", items |-> [i \in DOMAIN v.items |-> PyToBson[v.items[i]]]]
    BY <1>3, <1>6, <1>8 DEF PyToBsonBody
  <2>3. b.tag = "Array" /\ DOMAIN b.items = DOMAIN v.items
    BY <2>2
  <2>4. \A i \in DOMAIN v.items : b.items[i] = PyToBson[v.items[i]]
    BY <2>2
  <2> QED
    BY <1>4, <1>5, <2>1, <2>3, <2>4 DEF WellFormedBody
<1>9. CASE v.class = "int"
  <2>1. v.content \in Wide
    BY <1>6, <1>9 DEF Unconvertible
  <2>2. b.tag = (IF v.content \in Narrow THEN "Int32" ELSE "Int64") /\ b.content = v.content
    BY <1>3, <1>6, <1>9 DEF PyToBsonBody, Fits
  <2> QED
    BY <1>4, <2>1, <2>2 DEF WellFormedBody
<1>10. CASE v.class = "str"
  <2>1. b.tag = "String" /\ b.content = ToStringLossy(v.content)
    BY <1>3, <1>6, <1>10 DEF PyToBsonBody
  <2> QED
    BY <1>4, <2>1, ReplacementAssumption DEF WellFormedBody, ToStringLossy
<1>11. CASE v.class \in {"NoneType", "bool", "float", "bytes", "ObjectId"}
  <2>1. b.tag = Scalar[v.class]
    BY <1>3, <1>6, <1>11 DEF PyToBsonBody
  <2>2. b.tag \in {"Null", "Boolean", "Double", "Binary", "ObjectId"}
    BY <1>11, <2>1 DEF Scalar
  <2> QED
    BY <1>4, <2>2 DEF WellFormedBody
<1> QED
  BY <1>2, <1>7, <1>8, <1>9, <1>10, <1>11, FaultlessClass

----------------------------------------------------------------------------
(* Faults.                                                                 *)
LEMMA StepPath ==
    ASSUME NEW v \in Values, NEW i \in DOMAIN Parts(v), NEW rest \in Seq(Steps)
    PROVE  /\ Step(v, i) \in Steps
           /\ <<Step(v, i)>> \o rest \in Seq(Steps)
           /\ <<Step(v, i)>> \o rest # <<>>
           /\ Head(<<Step(v, i)>> \o rest) = Step(v, i)
           /\ Tail(<<Step(v, i)>> \o rest) = rest
<1>1. Step(v, i) \in Steps
  BY DEF Steps
<1> QED
  BY <1>1

(* A path goes on from a container into one of its parts.                  *)
LEMMA AtPart ==
    ASSUME NEW v \in Values, NEW i \in DOMAIN Parts(v), NEW rest \in Seq(Steps)
    PROVE  At[Part(v, i)][rest] \subseteq At[v][<<Step(v, i)>> \o rest]
<1> DEFINE path == <<Step(v, i)>> \o rest
<1>1. /\ path \in Seq(Steps) /\ path # <<>>
      /\ Head(path) = Step(v, i) /\ Tail(path) = rest
  BY StepPath
<1> HIDE DEF path
<1>2. At[v] = AtBody(At, v)
  BY AtUnfold
<1>3. CASE v.class = "dict"
  <2>1. Kind(v) = "dict" /\ Parts(v) = v.items /\ Part(v, i) = v.items[i].value
    BY <1>3, PartsOfDict
  <2>2. At[v][path] = UNION {At[v.items[k].value][Tail(path)] :
                                k \in {j \in DOMAIN v.items : Head(path) = [key |-> v.items[j].key.text]}}
    BY <1>1, <1>2, <1>3 DEF AtBody
  <2>3. Head(path) = [key |-> v.items[i].key.text]
    BY <1>1, <2>1 DEF Step
  <2> QED
    BY <1>1, <2>1, <2>2, <2>3 DEF path
<1>4. CASE v.class \in {"list", "tuple"}
  <2>1. Kind(v) # "dict" /\ Parts(v) = v.items /\ Part(v, i) = v.items[i]
    BY <1>4, PartsOfSequence
  <2>2. At[v][path] = UNION {At[v.items[k]][Tail(path)] :
                                k \in {j \in DOMAIN v.items : Head(path) = [index |-> j - 1]}}
    BY <1>1, <1>2, <1>4 DEF AtBody
  <2>3. Head(path) = [index |-> i - 1]
    BY <1>1, <2>1 DEF Step
  <2> QED
    BY <1>1, <2>1, <2>2, <2>3 DEF path
<1>5. v.class \in Containers
  BY KindIsClass DEF Parts, Containers
<1> QED
  BY <1>3, <1>4, <1>5 DEF Containers

(* What py_to_bson finds wrong is wrong with what stands at the path it    *)
(* names.                                                                  *)
LEMMA FaultAt ==
    \A v \in Values : \A path \in Faults[v] :
        path \in Seq(Steps) /\ \E w \in At[v][path] : Offends(w)
<1> DEFINE Right(v) == \A path \in Faults[v] : path \in Seq(Steps) /\ \E w \in At[v][path] : Offends(w)
           Wrong == {v \in Values : ~Right(v)}
<1> SUFFICES ASSUME Wrong # {} PROVE FALSE
  OBVIOUS
<1>1. PICK v \in Wrong : \A w \in Wrong : Depth(v) <= Depth(w)
  BY LeastDeep
<1>2. v \in Values /\ ~Right(v)
  BY <1>1
<1>3. ASSUME NEW i \in DOMAIN Parts(v) PROVE Right(Part(v, i))
  <2>1. Part(v, i) \in Values /\ Depth(Part(v, i)) \in Nat /\ Depth(v) \in Nat /\ Depth(Part(v, i)) < Depth(v)
    BY <1>2, PartsNested
  <2>2. Part(v, i) \notin Wrong
    BY <1>1, <2>1
  <2> QED
    BY <2>1, <2>2
<1>4. PICK path \in Faults[v] : ~(path \in Seq(Steps) /\ \E w \in At[v][path] : Offends(w))
  BY <1>2
<1> HIDE DEF Wrong
<1>5. At[v][<<>>] = {v} /\ <<>> \in Seq(Steps)
  <2>1. At[v] = AtBody(At, v)
    BY <1>2, AtUnfold
  <2>2. <<>> \in Seq(Steps)
    OBVIOUS
  <2>3. AtBody(At, v)[<<>>] = {v}
    BY <2>2, Zenon DEF AtBody
  <2> QED
    BY <2>1, <2>2, <2>3
<1>6. path \in FaultsBody(Faults, v)
  BY <1>2, <1>4, FaultsUnfold
<1> DEFINE bad == {i \in DOMAIN Parts(v) : BadKey(v, i) \/ Faults[Part(v, i)] # {}}
<1>7. CASE Unconvertible(v)
  <2>1. path = <<>>
    BY <1>6, <1>7 DEF FaultsBody
  <2>2. Offends(v)
    BY <1>7, KindIsClass DEF Unconvertible, Offends
  <2> QED
    BY <1>4, <1>5, <2>1, <2>2
<1>8. CASE ~Unconvertible(v)
  <2>1. bad # {}
    BY <1>6, <1>8 DEF FaultsBody
  <2> DEFINE i == Min(bad)
  <2>2. i \in bad
    BY <1>2, <2>1, LeastIndex
  <2>3. i \in DOMAIN Parts(v)
    BY <2>2
  <2>4. path \in (IF BadKey(v, i) THEN {<<>>} ELSE {<<Step(v, i)>> \o rest : rest \in Faults[Part(v, i)]})
    BY <1>6, <1>8, <2>1 DEF FaultsBody
  <2> HIDE DEF i
  <2>5. CASE BadKey(v, i)
    <3>1. path = <<>>
      BY <2>4, <2>5
    <3>2. Kind(v) = "dict" /\ v.class = "dict" /\ Parts(v) = v.items
      BY <2>5, KindIsClass DEF BadKey, Parts
    <3>3. Offends(v)
      BY <2>3, <2>5, <3>2 DEF BadKey, Offends
    <3> QED
      BY <1>4, <1>5, <3>1, <3>3
  <2>6. CASE ~BadKey(v, i)
    <3>1. PICK rest \in Faults[Part(v, i)] : path = <<Step(v, i)>> \o rest
      BY <2>4, <2>6
    <3>2. rest \in Seq(Steps) /\ \E w \in At[Part(v, i)][rest] : Offends(w)
      BY <1>3, <2>3
    <3>3. path \in Seq(Steps)
      BY <1>2, <2>3, <3>1, <3>2, StepPath
    <3>4. At[Part(v, i)][rest] \subseteq At[v][path]
      BY <1>2, <2>3, <3>1, <3>2, AtPart
    <3> QED
      BY <1>4, <3>2, <3>3, <3>4
  <2> QED
    BY <2>5, <2>6
<1> QED
  BY <1>7, <1>8

----------------------------------------------------------------------------
(* The state machine. The dictionaries are values, and what was sent last  *)
(* is well formed.                                                         *)
LEMMA DictsAreValues ==
    ASSUME TypeOK
    PROVE  /\ filter # Absent => filter \in Values
           /\ projection # Absent => projection \in Values
BY DictionariesAssumption DEF TypeOK

LEMMA NoFaultInDict ==
    ASSUME NEW name, NEW dict, DictFaults(name, dict) = {}
    PROVE  dict = Absent \/ Faultless(dict)
<1> SUFFICES ASSUME dict # Absent, NEW path \in Faults[dict] PROVE FALSE
  BY DEF Faultless
<1>1. <<[argument |-> name]>> \o path \in DictFaults(name, dict)
  BY DEF DictFaults
<1> QED
  BY <1>1

LEMMA EmptyIsWellFormed == WellFormed[EmptyDocument]
<1>1. EmptyDocument \in Bson
  BY DEF Bson
<1>2. EmptyDocument.tag = "Document" /\ DOMAIN EmptyDocument.fields = {}
  BY DEF EmptyDocument
<1> QED
  BY <1>1, <1>2, WellFormedUnfold DEF WellFormedBody

(* A collect that sends a find has found no fault in either dictionary.    *)
LEMMA SentFaultless ==
    ASSUME TypeOK, Collect, request' # request
    PROVE  /\ connected
           /\ filter = Absent \/ (filter \in Values /\ Faultless(filter))
           /\ projection = Absent \/ (projection \in Values /\ Faultless(projection))
           /\ request' = [filter     |-> Converted(filter, EmptyDocument),
                          projection |-> Converted(projection, Absent)]
<1>1. ReaderFaults = {} /\ connected
      /\ request' = [filter     |-> Converted(filter, EmptyDocument),
                     projection |-> Converted(projection, Absent)]
  BY DEF Collect
<1>2. DictFaults("filter", filter) = {} /\ DictFaults("projection", projection) = {}
  BY <1>1 DEF ReaderFaults
<1> QED
  BY <1>1, <1>2, NoFaultInDict, DictsAreValues

LEMMA TypeInit == Init => TypeOK
BY DEF Init, TypeOK, Nothing

LEMMA TypeNext == TypeOK /\ [Next]_vars => TypeOK'
<1> SUFFICES ASSUME TypeOK, [Next]_vars PROVE TypeOK'
  OBVIOUS
<1>1. CASE Edit
  BY <1>1 DEF Edit, TypeOK, Nothing
<1>2. CASE Close
  BY <1>2 DEF Close, TypeOK, Nothing
<1>3. CASE ScanMongo
  <2>1. UNCHANGED <<filter, projection, connected, request>>
    BY <1>3 DEF ScanMongo
  <2>2. frame' = Absent \/ frame'.planned \in BOOLEAN
    <3>1. frame = Absent \/ frame.planned \in BOOLEAN
      BY DEF TypeOK
    <3>2. UNCHANGED frame \/ \E resolved : frame' = [planned |-> resolved = "planned"]
      BY <1>3 DEF ScanMongo
    <3>3. CASE UNCHANGED frame
      BY <3>1, <3>3
    <3>4. ASSUME NEW resolved, frame' = [planned |-> resolved = "planned"]
          PROVE  frame'.planned \in BOOLEAN
      <4>1. frame'.planned = (resolved = "planned")
        BY <3>4
      <4>2. (resolved = "planned") \in BOOLEAN
        BY Zenon
      <4> QED
        BY <4>1, <4>2, Zenon
    <3> QED
      BY <3>2, <3>3, <3>4
  <2>3. outcome'.kind \in {"nothing", "schema_error", "polars_error"}
    BY <1>3 DEF ScanMongo, Nothing, SchemaError
  <2> QED
    BY <2>1, <2>2, <2>3 DEF TypeOK
<1>4. CASE Collect
  <2>1. UNCHANGED <<filter, projection, frame, connected>>
    BY <1>4 DEF Collect
  <2>2. outcome'.kind \in {"schema_error", "closed", "reader", "find_failed"}
    BY <1>4 DEF Collect, SchemaError
  <2>3. request' # Absent =>
            /\ WellFormed[request'.filter]
            /\ request'.projection # Absent => WellFormed[request'.projection]
    <3>1. CASE request' = request
      BY <3>1 DEF TypeOK
    <3>2. CASE request' # request
      <4>1. WellFormed[Converted(filter, EmptyDocument)]
        BY <1>4, <3>2, SentFaultless, ConvertedWellFormed, EmptyIsWellFormed DEF Converted
      <4>2. projection = Absent \/ WellFormed[Converted(projection, Absent)]
        BY <1>4, <3>2, SentFaultless, ConvertedWellFormed DEF Converted
      <4>3. projection = Absent => Converted(projection, Absent) = Absent
        BY DEF Converted
      <4> QED
        BY <1>4, <3>2, <4>1, <4>2, <4>3, SentFaultless
    <3> QED
      BY <3>1, <3>2
  <2> QED
    BY <2>1, <2>2, <2>3 DEF TypeOK
<1>5. CASE UNCHANGED vars
  BY <1>5 DEF vars, TypeOK
<1> QED
  BY <1>1, <1>2, <1>3, <1>4, <1>5 DEF Next

(* Whatever the caller changes between calls, what has been sent is well   *)
(* formed BSON: UTF-8 throughout, each integer in the narrowest width that *)
(* holds it, at every depth. (py_to_bson, dict_to_document.)               *)
THEOREM TypeCorrect == Spec => []TypeOK
<1>1. QED
  BY TypeInit, TypeNext, PTL DEF Spec

(* A find is sent with a connection only, and its filter and projection    *)
(* say what those of the caller say at that moment, in every part.         *)
THEOREM SentAsWrittenHolds == Spec => SentAsWritten
<1>1. ASSUME TypeOK, Next, request' # request
      PROVE  /\ connected
             /\ SaysDict(request'.filter, filter)
             /\ SaysDict(request'.projection, projection)
  <2>1. Collect
    BY <1>1 DEF Next, Edit, Close, ScanMongo
  <2>2. filter # Absent => Converted(filter, EmptyDocument) \in Says[filter]
    BY <1>1, <2>1, SentFaultless, ConvertedSays DEF Converted
  <2>3. projection # Absent => Converted(projection, Absent) \in Says[projection]
    BY <1>1, <2>1, SentFaultless, ConvertedSays DEF Converted
  <2> QED
    BY <1>1, <2>1, <2>2, <2>3, SentFaultless DEF SaysDict
<1>2. TypeOK /\ [Next]_vars => [request' # request =>
          /\ connected
          /\ SaysDict(request'.filter, filter)
          /\ SaysDict(request'.projection, projection)]_vars
  BY <1>1
<1> QED
  BY <1>2, TypeCorrect, PTL DEF Spec, SentAsWritten

(* The path of a schema error leads to something that has no BSON: in the  *)
(* dictionary it names, as that is at the collect. (py_to_bson,            *)
(* dict_to_document, sequence_to_bson.)                                    *)
THEOREM FaultLocatedHolds == Spec => FaultLocated
<1>1. ASSUME TypeOK, Next, outcome'.kind = "schema_error", outcome'.call = "collect"
      PROVE  LET place == Tail(outcome'.path)
             IN  CASE outcome'.path[1].argument = "filter"     -> \E v \in At[filter][place] : Offends(v)
                   [] outcome'.path[1].argument = "projection" -> \E v \in At[projection][place] : Offends(v)
                   [] OTHER -> ~frame.planned
  <2>1. Collect
    BY <1>1 DEF Next, Edit, Close, ScanMongo, SchemaError, Nothing
  <2>2. PICK path \in ReaderFaults : outcome' = SchemaError("collect", path)
    BY <1>1, <2>1 DEF Collect
  <2>3. outcome'.path = path
    BY <2>2 DEF SchemaError
  <2>4. ASSUME NEW name, NEW dict, dict # Absent => dict \in Values, path \in DictFaults(name, dict)
        PROVE  path[1].argument = name /\ \E v \in At[dict][Tail(path)] : Offends(v)
    <3>1. PICK rest \in Faults[dict] : path = <<[argument |-> name]>> \o rest
      BY <2>4 DEF DictFaults
    <3>2. rest \in Seq(Steps) /\ \E v \in At[dict][rest] : Offends(v)
      BY <2>4, FaultAt DEF DictFaults
    <3>3. path[1] = [argument |-> name] /\ Tail(path) = rest
      BY <3>1, <3>2
    <3>4. path[1].argument = name
      BY <3>3
    <3> QED
      BY <3>2, <3>3, <3>4, Zenon
  <2>5. CASE path \in DictFaults("filter", filter)
    BY <1>1, <2>3, <2>4, <2>5, DictsAreValues
  <2>6. CASE path \in DictFaults("projection", projection)
    BY <1>1, <2>3, <2>4, <2>6, DictsAreValues
  <2>7. CASE ~frame.planned
    <3>1. path = <<[argument |-> "schema"]>>
      BY <2>2, <2>7 DEF ReaderFaults
    <3>2. path[1].argument = "schema"
      BY <3>1
    <3> QED
      BY <2>3, <2>7, <3>2
  <2> QED
    BY <2>2, <2>5, <2>6, <2>7 DEF ReaderFaults
<1>2. TypeOK /\ [Next]_vars => [outcome'.kind = "schema_error" /\ outcome'.call = "collect" =>
          LET place == Tail(outcome'.path)
          IN  CASE outcome'.path[1].argument = "filter"     -> \E v \in At[filter][place] : Offends(v)
                [] outcome'.path[1].argument = "projection" -> \E v \in At[projection][place] : Offends(v)
                [] OTHER -> ~frame.planned]_vars
  BY <1>1
<1> QED
  BY <1>2, TypeCorrect, PTL DEF Spec, FaultLocated
============================================================================
