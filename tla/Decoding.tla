------------------------------ MODULE Decoding ------------------------------
(***************************************************************************)
(* Documents into columns (bson_arrow/decode.rs). Pure.                    *)
(*                                                                         *)
(* BSON values are records with a tag, Missing for a field that is not     *)
(* there. The payload of a scalar is a sequence of numbers: the bytes of   *)
(* an ObjectId, one number for any other type; that a float64 holds less   *)
(* than an int64 or a Decimal128 is abstracted away. (That a Decimal128 is *)
(* no float at all cannot be: its texts are numbers to Rust.) Optional     *)
(* things are sequences of at most one, and rows count from 1.             *)
(***************************************************************************)
EXTENDS SchemaPlan

CONSTANTS Nodes,    \* plan nodes, with their children
          Depth(_)  \* Depth(p): how many levels there are below a node

MillisPerSecond == 1000

Leaves == [Int32      |-> {"Int32"},
           Int64      |-> {"Int32", "Int64"},
           Float64    |-> {"Double", "Int32", "Int64", "Decimal128"},
           Decimal128 |-> {"Double", "Int32", "Int64", "Decimal128"},
           Boolean    |-> {"Boolean"},
           String     |-> {"String"},
           Binary     |-> {"Binary"},
           DateTimeMs |-> {"DateTime", "Timestamp"},
           Timestamp  |-> {"DateTime", "Timestamp"},
           ObjectId   |-> {"ObjectId"}]

ASSUME NodesAssumption ==
    \A p \in Nodes :
        /\ Depth(p) \in Nat
        /\ p.nullable \in BOOLEAN
        /\ p.type \in DOMAIN Leaves \cup {"Struct", "List"}
        /\ Len(p.children) \in Nat /\ DOMAIN p.children = 1 .. Len(p.children)
        /\ p.type = "List" => Len(p.children) = 1
        /\ \A i \in DOMAIN p.children :
              p.children[i] \in Nodes /\ Depth(p.children[i]) < Depth(p)

----------------------------------------------------------------------------
(* What is in one of a sequence of sets: the union of them, in a form that *)
(* can be evaluated when they are infinite.                                *)
AnyOf(sets) ==
    LET upTo[k \in 0 .. Len(sets)] == IF k = 0 THEN {} ELSE upTo[k - 1] \cup sets[k]
    IN  upTo[Len(sets)]

(* What may be pushed at a node, and what it may be pushed into. Of a      *)
(* document or an array where the node takes none, only the tag counts.    *)
(* Malformed is where the bytes of a document, embedded document or array  *)
(* are no BSON, so that what stands there cannot be looked up.             *)
Payload == Seq(Int \cup {NullByte})
Slots   == {slot \in Seq(Payload) : Len(slot) <= 1}

NullTags   == {"Missing", "Null", "Undefined"}
ScalarTags == (UNION {Leaves[type] : type \in DOMAIN Leaves}) \ {"Timestamp", "ObjectId"}
OtherTags  == {"RegularExpression", "JavaScriptCode", "JavaScriptCodeWithScope", "Symbol",
               "MinKey", "MaxKey", "DbPointer", "Malformed"}

Bson[p \in Nodes] ==
    [tag : NullTags \cup OtherTags] \cup [tag : ScalarTags, value : Payload]
    \cup [tag : {"ObjectId"}, value : IdBytes] \cup [tag : {"Timestamp"}, time : Nat, increment : Nat]
    \cup CASE p.type = "Struct" ->
                 LET names == {p.children[i].name : i \in DOMAIN p.children}
                     some  == AnyOf([i \in DOMAIN p.children |-> Bson[p.children[i]]]) IN
                 [tag : {"Array"}]
                 \cup [tag    : {"EmbeddedDocument"},
                       fields : {f \in [names -> some] :
                                    \A i \in DOMAIN p.children :
                                        f[p.children[i].name] \in Bson[p.children[i]]}]
           [] p.type = "List" ->
                 [tag : {"EmbeddedDocument"}] \cup [tag : {"Array"}, items : Seq(Bson[p.children[1]])]
           [] OTHER -> [tag : {"EmbeddedDocument", "Array"}]

Columns[p \in Nodes] ==
    CASE p.type = "Struct" ->
            LET some == AnyOf([i \in DOMAIN p.children |-> Columns[p.children[i]]]) IN
            [children : {c \in [DOMAIN p.children -> some] :
                            \A i \in DOMAIN p.children : c[i] \in Columns[p.children[i]]},
             validity : Seq(BOOLEAN)]
      [] p.type = "List" ->
            [child : Columns[p.children[1]], offsets : Seq(Nat), validity : Seq(BOOLEAN)]
      [] OTHER -> [values : Seq(Slots)]

----------------------------------------------------------------------------
(* Decoding.                                                               *)
IsNull(v) == v.tag \in NullTags

LeafValue(v) == IF v.tag = "Timestamp" THEN <<v.time * MillisPerSecond>> ELSE v.value

FieldOf(v, p) == v.fields[p.name]

(* What an error says it has found.                                        *)
Found(v) == IF v.tag = "Malformed" THEN "Missing" ELSE v.tag

\* Mutant of Located: an error has the field's own name only.
LocatedByName(p, v) == [path |-> <<p.name>>, declared |-> p.type, found |-> Found(v)]

Located(p, v) == [path |-> p.path, declared |-> p.type, found |-> Found(v)]

\* Mutant of NullFault: a field that is missing is a null wherever it is.
NullFaultUnlessMissing(p, v) ==
    IF p.nullable \/ v.tag = "Missing" THEN None ELSE Some(Located(p, v))

NullFault(p, v) == IF p.nullable THEN None ELSE Some(Located(p, v))

(* The error of push_value, or of looking up what it is given, if it is    *)
(* one. (A BSON type that is excluded has a tag no plan accepts, and so    *)
(* has a Binary of another subtype.)                                       *)
Fault[p \in Nodes] ==
    [v \in Bson[p] |->
        CASE IsNull(v) -> NullFault(p, v)
          [] p.type = "Struct" /\ v.tag = "EmbeddedDocument" ->
                FirstOf([i \in DOMAIN p.children |-> Fault[p.children[i]][FieldOf(v, p.children[i])]])
          [] p.type = "List" /\ v.tag = "Array" ->
                FirstOf([k \in DOMAIN v.items |-> Fault[p.children[1]][v.items[k]]])
          [] OTHER ->
                IF p.type \in DOMAIN Leaves /\ v.tag \in Leaves[p.type] THEN None ELSE Some(Located(p, v))]

NewBuilder[p \in Nodes] ==
    CASE p.type = "Struct" -> [children |-> [i \in DOMAIN p.children |-> NewBuilder[p.children[i]]],
                               validity |-> <<>>]
      [] p.type = "List"   -> [child |-> NewBuilder[p.children[1]], offsets |-> <<0>>,
                               validity |-> <<>>]
      [] OTHER             -> [values |-> <<>>]

\* Mutant of WithNull: the children of a null struct get nothing.
WithNullAlone(p, b, children) ==
    CASE p.type = "Struct" -> [b EXCEPT !.validity = Append(@, FALSE)]
      [] p.type = "List"   -> [b EXCEPT !.offsets = Append(@, Last(@)), !.validity = Append(@, FALSE)]
      [] OTHER             -> [b EXCEPT !.values = Append(@, None)]

WithNull(p, b, children) ==
    CASE p.type = "Struct" -> [children |-> children, validity |-> Append(b.validity, FALSE)]
      [] p.type = "List"   -> [b EXCEPT !.offsets = Append(@, Last(@)), !.validity = Append(@, FALSE)]
      [] OTHER             -> [b EXCEPT !.values = Append(@, None)]

(* push_null: to a builder and, of a struct, to all builders below it.     *)
PushNull[p \in Nodes] ==
    [b \in Columns[p] |->
        WithNull(p, b, IF p.type = "Struct"
                       THEN [i \in DOMAIN p.children |-> PushNull[p.children[i]][b.children[i]]]
                       ELSE <<>>)]

\* Mutant of NextOffset: each list starts at zero.
OffsetFromZero(offsets, n) == n

NextOffset(offsets, n) == Last(offsets) + n

(* One value after the other.                                              *)
PushAll(push, b, values) ==
    LET after[k \in 0 .. Len(values)] == IF k = 0 THEN b ELSE push[after[k - 1]][values[k]]
    IN  after[Len(values)]

(* push_value of a value it does not reject.                               *)
Push[p \in Nodes] ==
    [b \in Columns[p] |-> [v \in Bson[p] |->
        IF IsNull(v) THEN PushNull[p][b]
        ELSE CASE p.type = "Struct" ->
                    [children |-> [i \in DOMAIN p.children |->
                                      Push[p.children[i]][b.children[i]][FieldOf(v, p.children[i])]],
                     validity |-> Append(b.validity, TRUE)]
               [] p.type = "List" ->
                    [child    |-> PushAll(Push[p.children[1]], b.child, v.items),
                     offsets  |-> Append(b.offsets, NextOffset(b.offsets, Len(v.items))),
                     validity |-> Append(b.validity, TRUE)]
               [] OTHER -> [b EXCEPT !.values = Append(@, Some(LeafValue(v)))]]]

----------------------------------------------------------------------------
(* What a column holds. A row is what a document says under the plan: it   *)
(* is read off the columns by At and off a document by Row.                *)
Height(p, col) == IF p.type \in {"Struct", "List"} THEN Len(col.validity) ELSE Len(col.values)

Valid(p, col, row) ==
    IF p.type \in {"Struct", "List"} THEN col.validity[row] ELSE col.values[row] # None

Row[p \in Nodes] ==
    [v \in Bson[p] |->
        IF IsNull(v) THEN None
        ELSE CASE p.type = "Struct" ->
                    Some([i \in DOMAIN p.children |-> Row[p.children[i]][FieldOf(v, p.children[i])]])
               [] p.type = "List" -> Some([k \in DOMAIN v.items |-> Row[p.children[1]][v.items[k]]])
               [] OTHER           -> Some(LeafValue(v))]

At[p \in Nodes] ==
    [col \in Columns[p] |-> [row \in Nat |->
        IF ~Valid(p, col, row) THEN None
        ELSE CASE p.type = "Struct" ->
                    Some([i \in DOMAIN p.children |-> At[p.children[i]][col.children[i]][row]])
               [] p.type = "List" ->
                    Some([k \in 1 .. (col.offsets[row + 1] - col.offsets[row]) |->
                             At[p.children[1]][col.child][col.offsets[row] + k]])
               [] OTHER -> col.values[row]]]

(* Nulls of a row are where the plan allows them.                          *)
NullsAllowed[p \in Nodes] ==
    [col \in Columns[p] |-> [row \in Nat |->
        IF ~Valid(p, col, row) THEN p.nullable
        ELSE CASE p.type = "Struct" ->
                    \A i \in DOMAIN p.children : NullsAllowed[p.children[i]][col.children[i]][row]
               [] p.type = "List" ->
                    \A k \in 1 .. (col.offsets[row + 1] - col.offsets[row]) :
                        NullsAllowed[p.children[1]][col.child][col.offsets[row] + k]
               [] OTHER -> TRUE]]

(* A column, or a builder, holds as many rows as it should at every level, *)
(* and the offsets of a list cover its items in order.                     *)
WellFormed[p \in Nodes] ==
    [col \in Columns[p] |-> [n \in Nat |->
        CASE p.type = "Struct" ->
                /\ Len(col.validity) = n
                /\ \A i \in DOMAIN p.children : WellFormed[p.children[i]][col.children[i]][n]
          [] p.type = "List" ->
                /\ Len(col.validity) = n
                /\ Len(col.offsets) = n + 1
                /\ \A r \in 1 .. n + 1 : \A s \in r .. n + 1 : col.offsets[r] <= col.offsets[s]
                /\ WellFormed[p.children[1]][col.child][Last(col.offsets)]
          [] OTHER -> Len(col.values) = n]]
============================================================================
