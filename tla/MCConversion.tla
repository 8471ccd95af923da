---------------------------- MODULE MCConversion ----------------------------
(* Batches of three documents. The schemas nest structs and lists in one   *)
(* another two deep, with nulls allowed and forbidden at every level, name *)
(* each kind of leaf once and declare each kind of unsupported type; one   *)
(* has no fields.                                                          *)
EXTENDS Conversion

Field(name, nullable, dtype) == [name |-> name, nullable |-> nullable, dtype |-> dtype]
Kind(k)       == [kind |-> k]
Struct(fs)    == [kind |-> "Struct", fields |-> fs]
List(f)       == [kind |-> "LargeList", item |-> f]
Time(u, z)    == [kind |-> "Timestamp", unit |-> u, zoned |-> z]
Ext(e, inner) == [kind |-> "Extension", ext |-> e, inner |-> inner]
Dict(k, d)    == [kind |-> "Dictionary", key |-> k, inner |-> d]

Bytes(n) == [kind |-> "FixedSizeList", size |-> n, item |-> Field("item", FALSE, Kind("UInt8"))]
Moment   == Ext("Timestamp", Time("ms", FALSE))
Ids      == Ext("ObjectId", Bytes(12))

Nested ==
    { <<Field("i", FALSE, Kind("Int64")), Field("t", TRUE, Moment)>>,
      <<Field("s", TRUE, Struct(<<Field("a", FALSE, Kind("Int32")), Field("t", TRUE, Moment)>>))>>,
      <<Field("s", TRUE, Struct(<<Field("r", TRUE, Struct(<<Field("b", FALSE, Kind("Int32"))>>))>>))>>,
      <<Field("s", TRUE, Struct(<<Field("l", FALSE, List(Field("item", TRUE, Kind("Float64"))))>>))>>,
      <<Field("l", TRUE, List(Field("item", TRUE, Struct(<<Field("a", FALSE, Kind("Int32"))>>))))>>,
      <<Field("l", FALSE, List(Field("item", TRUE, List(Field("item", FALSE, Kind("Int32"))))))>>,
      <<Field("s", TRUE, Struct(<<Field("o", FALSE, Ids), Field("l", TRUE, List(Field("item", FALSE, Kind("Utf8"))))>>))>>,
      <<Field("l", TRUE, List(Field("item", TRUE, Moment)))>>,
      <<Field("d", TRUE, Dict("UInt32", List(Field("item", FALSE, Moment))))>> }

LeafTypes ==
    { Kind("Float64"), Kind("Boolean"), Kind("Utf8View"), Kind("LargeBinary"), Time("ms", FALSE), Ids,
      Ext("Decimal128", Kind("Float64")), Dict("UInt32", Kind("Utf8")) }

Undeclarable ==
    { Kind("Date32"), Bytes(12), Time("us", FALSE), Time("ms", TRUE), Ext("Regex", Kind("Utf8")),
      Ext("ObjectId", Bytes(11)), Ext("Timestamp", Time("ms", TRUE)), Dict("Int8", Kind("Utf8")),
      Dict("UInt32", Time("s", FALSE)) }

AllSchemas ==
    Nested \cup {<<>>}
    \cup {<<Field("x", TRUE, d)>> : d \in LeafTypes \cup Undeclarable}
    \cup {<<Field("l", TRUE, List(Field("item", TRUE, d)))>> : d \in Undeclarable}
    \cup {<<Field("i", TRUE, Kind("Int32")), Field("s", TRUE, Struct(<<Field("x", TRUE, d)>>))>> : d \in Undeclarable}

(* The types that the schemas are made of, and the nodes of their plans.   *)
Parts(d) ==
    CASE d.kind = "Struct"       -> {f.dtype : f \in ToSet(d.fields)}
      [] d.kind \in Lists        -> {d.item.dtype}
      [] d.kind = "Dictionary"   -> {d.inner}
      [] OTHER                   -> {}

RECURSIVE Within(_), Levels(_), NodesIn(_), LevelsBelow(_)
Within(d) == {d} \cup UNION {Within(e) : e \in Parts(d)}
Levels(d) == IF Parts(d) = {} THEN 0 ELSE 1 + Max({Levels(e) : e \in Parts(d)})

NodesIn(p)     == {p} \cup UNION {NodesIn(c) : c \in ToSet(p.children)}
LevelsBelow(p) == IF p.children = <<>> THEN 0 ELSE 1 + Max({LevelsBelow(c) : c \in ToSet(p.children)})

AllNames  == {"a", "b", "d", "i", "item", "l", "o", "r", "s", "t", "x"}
AllDtypes == UNION {Within(f.dtype) : f \in UNION {ToSet(s) : s \in AllSchemas}}
AllNodes  == UNION {NodesIn(p) : p \in UNION {ToSet(FromFields(s)) : s \in {s \in AllSchemas : SchemaRejection(s) = None}}}

----------------------------------------------------------------------------
Scalar(tag, value) == [tag |-> tag, value |-> value]
Stamp(t, i)        == [tag |-> "Timestamp", time |-> t, increment |-> i]

Wrong  == [tag |-> "Symbol"]
Broken == [tag |-> "Malformed"]
Nulls == {[tag |-> "Missing"], [tag |-> "Null"]}

Id(first, last) == [k \in 1 .. IdLength |-> CASE k = 1 -> first [] k = IdLength -> last [] OTHER -> 1]

Right(type) ==
    CASE type = "Int32"   -> {Scalar("Int32", <<7>>)}
      [] type = "Int64"   -> {Scalar("Int32", <<7>>), Scalar("Int64", <<8>>)}
      [] type = "Float64" -> {Scalar("Double", <<7>>), Scalar("Decimal128", <<8>>)}
      [] type \in {"DateTimeMs", "Timestamp"} ->
            {Scalar("DateTime", <<1500>>), Scalar("DateTime", <<-1>>), Scalar("DateTime", <<1000 * (MaxTime + 1)>>),
             Stamp(MaxTime, 1)}
      [] type = "ObjectId" -> {Scalar("ObjectId", Id(0, 3)), Scalar("ObjectId", Id(2, 1))}
      [] OTHER -> {Scalar(type, <<7>>)}

FillerOf(type) == IF type = "ObjectId" THEN [Id(0, 0) EXCEPT ![1] = NullByte] ELSE <<99999>>

(* What a document may hold for a node: arrays of at most two items.       *)
RECURSIVE Values(_)
Values(p) ==
    Nulls \cup {Broken} \cup
    CASE p.type = "Struct" ->
            LET names  == {p.children[i].name : i \in DOMAIN p.children}
                fields == {f \in [names -> UNION {Values(c) : c \in ToSet(p.children)}] :
                              \A c \in ToSet(p.children) : f[c.name] \in Values(c)} IN
            {[tag |-> "EmbeddedDocument", fields |-> f] : f \in fields}
      [] p.type = "List" ->
            LET items == Values(p.children[1]) \ {[tag |-> "Missing"]} IN
            {[tag |-> "Array", items |-> s] : s \in {<<>>} \cup {<<x>> : x \in items} \cup items \X items}
      [] OTHER -> Right(p.type) \cup {Wrong}
============================================================================
