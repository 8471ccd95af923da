---------------------------- MODULE FindRequest ----------------------------
(***************************************************************************)
(* From scan_mongo to the find that opens a reader: what the caller's      *)
(* filter and projection become, and when. scan_mongo checks the rest of   *)
(* the arguments and keeps references to the two dictionaries; each        *)
(* collect converts them as they are by then (bson_arrow/filter.rs),       *)
(* before it asks the connection for its client.                           *)
(*                                                                         *)
(* A Python value is a record of its class and a number that stands for    *)
(* its contents, or its items. A key or a text that has an unpaired        *)
(* surrogate, and so no UTF-8, has the contents Unpaired.                  *)
(***************************************************************************)
EXTENDS Integers, Sequences, FiniteSetsExt

CONSTANTS Values,       \* Python values, with everything they contain
          Depth(_),     \* Depth(v): how deep a value is nested
          Filters,      \* dictionaries a caller may filter by
          Projections,  \* dictionaries a caller may project by
          Absent,       \* an argument that is None
          Unpaired,     \* contents of a text that has no UTF-8
          Replacement,  \* contents of a text that had none and was given some
          NarrowMax,    \* the largest Int32
          WideMax       \* the largest Int64

ASSUME WidthsAssumption == NarrowMax \in Nat /\ WideMax \in Nat /\ NarrowMax < WideMax
ASSUME ReplacementAssumption == Replacement # Unpaired
ASSUME DictionariesAssumption ==
    Filters \cup Projections \subseteq {v \in Values : v.class = "dict"}

VARIABLES filter,      \* the caller's filter, as it is now
          projection,  \* the caller's projection, as it is now
          frame,       \* the arguments the frame of scan_mongo keeps, or Absent
          connected,   \* the connection is open
          request,     \* the filter and projection of the last find, or Absent
          outcome      \* how the last call has ended

vars == <<filter, projection, frame, connected, request, outcome>>

Narrow == -NarrowMax - 1 .. NarrowMax
Wide   == -WideMax - 1 .. WideMax

----------------------------------------------------------------------------
(* The casts of py_to_bson, in their order.                                *)
\* Mutant of Casts: bool, a subclass of int, comes after it.
CastsIntFirst == <<"NoneType", "str", "int", "bool", "float", "bytes", "dict", "list", "tuple", "ObjectId">>

Casts == <<"NoneType", "bool", "str", "int", "float", "bytes", "dict", "list", "tuple", "ObjectId">>

IsInstance(v, class) == v.class = class \/ (v.class = "bool" /\ class = "int")

(* The class a value is taken for, or "other".                             *)
Kind(v) ==
    LET fits == {i \in DOMAIN Casts : IsInstance(v, Casts[i])}
    IN  IF fits = {} THEN "other" ELSE Casts[Min(fits)]

Parts(v) == IF Kind(v) \in {"dict", "list", "tuple"} THEN v.items ELSE <<>>

(* What stands at a place of a container, and how an error names it.       *)
Part(v, i) == IF Kind(v) = "dict" THEN v.items[i].value ELSE v.items[i]

\* Mutant of Step: items are counted from one.
StepFromOne(v, i) == IF Kind(v) = "dict" THEN [key |-> v.items[i].key.text] ELSE [index |-> i]

Step(v, i) == IF Kind(v) = "dict" THEN [key |-> v.items[i].key.text] ELSE [index |-> i - 1]

(* No value contains itself.                                               *)
ASSUME NestingAssumption ==
    \A v \in Values :
        /\ Depth(v) \in Nat
        /\ Len(Parts(v)) \in Nat /\ DOMAIN Parts(v) = 1 .. Len(Parts(v))
        /\ \A i \in DOMAIN Parts(v) : Part(v, i) \in Values /\ Depth(Part(v, i)) < Depth(v)

BadKey(v, i) ==
    Kind(v) = "dict" /\ (v.items[i].key.class # "str" \/ v.items[i].key.text = Unpaired)

(* Something that is no container and has no BSON: an integer beyond       *)
(* Int64, an ObjectId that does not print as one, any other class.         *)
Unconvertible(v) ==
    \/ Kind(v) = "other"
    \/ Kind(v) = "int" /\ v.content \notin Wide
    \/ Kind(v) = "ObjectId" /\ ~v.printable

(* The place of the first error of py_to_bson(v), if there is one: at the  *)
(* container for a key, at the value for a value.                          *)
Faults[v \in Values] ==
    LET bad == {i \in DOMAIN Parts(v) : BadKey(v, i) \/ Faults[Part(v, i)] # {}}
    IN  IF Unconvertible(v) THEN {<<>>}
        ELSE IF bad = {} THEN {}
        ELSE LET i == Min(bad)
             IN  IF BadKey(v, i) THEN {<<>>}
                 ELSE {<<Step(v, i)>> \o path : path \in Faults[Part(v, i)]}

(* PyString::to_string_lossy.                                              *)
ToStringLossy(content) == IF content = Unpaired THEN Replacement ELSE content

\* Mutant of Fits: the width is decided by the absolute value.
FitsAbsolute(n) == -NarrowMax - 1 <= n /\ n <= NarrowMax + 1

Fits(n) == n \in Narrow

Scalar == [NoneType |-> "Null", bool |-> "Boolean", float |-> "Double", bytes |-> "Binary",
           ObjectId |-> "ObjectId"]

(* The BSON of a value without a fault.                                    *)
PyToBson[v \in Values] ==
    CASE Kind(v) = "int"  -> [tag |-> IF Fits(v.content) THEN "Int32" ELSE "Int64", content |-> v.content]
      [] Kind(v) = "str"  -> [tag |-> "String", content |-> ToStringLossy(v.content)]
      [] Kind(v) = "dict" ->
            [tag |-> "Document",
             fields |-> [i \in DOMAIN v.items |-> [key   |-> v.items[i].key.text,
                                                   value |-> PyToBson[v.items[i].value]]]]
      [] Kind(v) \in {"list", "tuple"} ->
            [tag |-> "Array", items |-> [i \in DOMAIN v.items |-> PyToBson[v.items[i]]]]
      [] OTHER -> [tag |-> Scalar[Kind(v)], content |-> v.content]

----------------------------------------------------------------------------
Nothing == [kind |-> "nothing"]

SchemaError(call, path) == [kind |-> "schema_error", call |-> call, path |-> path]

Init ==
    /\ filter \in Filters \cup {Absent}
    /\ projection \in Projections \cup {Absent}
    /\ frame = Absent
    /\ connected = TRUE
    /\ request = Absent
    /\ outcome = Nothing

(* The caller changes a dictionary it holds.                               *)
Edit ==
    /\ \/ filter # Absent /\ filter' \in Filters /\ UNCHANGED projection
       \/ projection # Absent /\ projection' \in Projections /\ UNCHANGED filter
    /\ outcome' = Nothing
    /\ UNCHANGED <<frame, connected, request>>

Close ==
    /\ connected' = FALSE
    /\ outcome' = Nothing
    /\ UNCHANGED <<filter, projection, frame, request>>

(* The arguments scan_mongo refuses, and the name under which it does.     *)
ArgumentFaults(batchOk, schema, projectionSchema) ==
    IF ~batchOk THEN {"batch_size"}
    ELSE IF projection # Absent /\ projectionSchema = "none" THEN {"projection"}
    ELSE IF projectionSchema = "none" /\ schema = "none" THEN {"schema"}
    ELSE {}

(* A schema that has no plan may be one that Polars refuses now; if it is  *)
(* not, only a collect finds out.                                          *)
ScanMongo ==
    \E batchOk \in BOOLEAN, schema, projectionSchema \in {"none", "planned", "unplanned"} :
        LET faults   == ArgumentFaults(batchOk, schema, projectionSchema)
            resolved == IF projectionSchema # "none" THEN projectionSchema ELSE schema
        IN  /\ \/ faults = {} /\ frame' = [planned |-> resolved = "planned"] /\ outcome' = Nothing
               \/ /\ faults # {}
                  /\ outcome' \in {SchemaError("scan", <<[argument |-> name]>>) : name \in faults}
                  /\ UNCHANGED frame
               \/ /\ faults = {} /\ resolved = "unplanned"
                  /\ outcome' = [kind |-> "polars_error"]
                  /\ UNCHANGED frame
            /\ UNCHANGED <<filter, projection, connected, request>>

(* Where new() finds the arguments of a reader at fault, if it does.       *)
DictFaults(name, dict) ==
    IF dict = Absent THEN {} ELSE {<<[argument |-> name]>> \o path : path \in Faults[dict]}

ReaderFaults ==
    IF ~frame.planned THEN {<<[argument |-> "schema"]>>}
    ELSE IF DictFaults("filter", filter) # {} THEN DictFaults("filter", filter)
    ELSE DictFaults("projection", projection)

Converted(dict, default) == IF dict = Absent THEN default ELSE PyToBson[dict]

EmptyDocument == [tag |-> "Document", fields |-> <<>>]

(* A collect opens a reader. All of it up to the find runs under the GIL.  *)
Collect ==
    /\ frame # Absent
    /\ CASE ReaderFaults # {} ->
              /\ outcome' \in {SchemaError("collect", path) : path \in ReaderFaults}
              /\ UNCHANGED request
         [] ReaderFaults = {} /\ ~connected ->
              /\ outcome' = [kind |-> "closed"]
              /\ UNCHANGED request
         [] OTHER ->
              /\ outcome' \in {[kind |-> "reader"], [kind |-> "find_failed"]}
              /\ request' = [filter     |-> Converted(filter, EmptyDocument),
                             projection |-> Converted(projection, Absent)]
    /\ UNCHANGED <<filter, projection, frame, connected>>

Next == Edit \/ Close \/ ScanMongo \/ Collect

Spec == Init /\ [][Next]_vars

----------------------------------------------------------------------------
(* What may be sent: what a value without a fault converts to, or nothing. *)
Bson == {EmptyDocument} \cup {PyToBson[v] : v \in {w \in Values : Faults[w] = {}}}

(* BSON that is well formed: UTF-8 throughout, and each integer in the     *)
(* narrowest width that holds it.                                          *)
WellFormed[b \in Bson] ==
    CASE b.tag = "Document" ->
            \A i \in DOMAIN b.fields : b.fields[i].key # Unpaired /\ WellFormed[b.fields[i].value]
      [] b.tag = "Array"  -> \A i \in DOMAIN b.items : WellFormed[b.items[i]]
      [] b.tag = "Int32"  -> b.content \in Narrow
      [] b.tag = "Int64"  -> b.content \in Wide \ Narrow
      [] b.tag = "String" -> b.content # Unpaired
      [] OTHER            -> b.tag \in {"Null", "Boolean", "Double", "Binary", "ObjectId"}

TypeOK ==
    /\ filter \in Filters \cup {Absent}
    /\ projection \in Projections \cup {Absent}
    /\ frame = Absent \/ frame.planned \in BOOLEAN
    /\ connected \in BOOLEAN
    /\ request # Absent =>
          /\ WellFormed[request.filter]
          /\ request.projection # Absent => WellFormed[request.projection]
    /\ outcome.kind \in {"nothing", "schema_error", "polars_error", "closed", "reader", "find_failed"}

(* The BSON that says what the Python value v says, text without UTF-8     *)
(* aside.                                                                  *)
Says[v \in Values] ==
    {b \in Bson :
        CASE v.class = "dict" ->
                /\ b.tag = "Document"
                /\ Len(b.fields) = Len(v.items)
                /\ \A i \in DOMAIN v.items :
                        /\ v.items[i].key.class = "str"
                        /\ v.items[i].key.text = b.fields[i].key
                        /\ b.fields[i].value \in Says[v.items[i].value]
          [] v.class \in {"list", "tuple"} ->
                /\ b.tag = "Array"
                /\ Len(b.items) = Len(v.items)
                /\ \A i \in DOMAIN v.items : b.items[i] \in Says[v.items[i]]
          [] v.class = "int"  -> b.tag \in {"Int32", "Int64"} /\ b.content = v.content
          [] v.class = "str"  -> b.tag = "String" /\ (v.content # Unpaired => b.content = v.content)
          [] v.class = "bool" -> b.tag = "Boolean" /\ b.content = v.content
          [] OTHER -> b.tag = Scalar[v.class] /\ b.content = v.content}

SaysDict(b, dict) == dict # Absent => b \in Says[dict]

(* The find that a collect sends is the filter and the projection the      *)
(* caller holds at that moment, in every part, and none is sent without a  *)
(* connection. (new() converts before it detaches, _source keeps           *)
(* references.)                                                            *)
SentAsWritten ==
    [][request' # request =>
          /\ connected
          /\ SaysDict(request'.filter, filter)
          /\ SaysDict(request'.projection, projection)]_vars

Steps == UNION {{Step(v, i) : i \in DOMAIN Parts(v)} : v \in Values}

(* The value at the end of a path, if the path leads anywhere.             *)
At[v \in Values] ==
    [path \in Seq(Steps) |->
        IF path = <<>> THEN {v}
        ELSE CASE v.class = "dict" ->
                     UNION {At[v.items[i].value][Tail(path)] :
                               i \in {j \in DOMAIN v.items : Head(path) = [key |-> v.items[j].key.text]}}
               [] v.class \in {"list", "tuple"} ->
                     UNION {At[v.items[i]][Tail(path)] :
                               i \in {j \in DOMAIN v.items : Head(path) = [index |-> j - 1]}}
               [] OTHER -> {}]

(* What is wrong with a value by itself.                                   *)
Offends(v) ==
    \/ /\ v.class = "dict"
       /\ \E i \in DOMAIN v.items : v.items[i].key.class # "str" \/ v.items[i].key.text = Unpaired
    \/ v.class = "int" /\ v.content \notin Wide
    \/ v.class = "ObjectId" /\ ~v.printable
    \/ v.class \notin {"NoneType", "bool", "int", "float", "str", "bytes", "dict", "list", "tuple", "ObjectId"}

(* A conversion that is refused is refused for something that is at the    *)
(* place the error names. (The located key of filter.rs.)                  *)
FaultLocated ==
    [][outcome'.kind = "schema_error" /\ outcome'.call = "collect" =>
          LET place == Tail(outcome'.path)
          IN  CASE outcome'.path[1].argument = "filter"     -> \E v \in At[filter][place] : Offends(v)
                [] outcome'.path[1].argument = "projection" -> \E v \in At[projection][place] : Offends(v)
                [] OTHER -> ~frame.planned]_vars

----------------------------------------------------------------------------
(* filter.rs:3-4 says that what cannot be represented in BSON is rejected: *)
(* so no find should be sent while a text of the filter has no UTF-8.      *)
Utf8[v \in Values] ==
    CASE v.class = "dict" -> \A i \in DOMAIN v.items : Utf8[v.items[i].value]
      [] v.class \in {"list", "tuple"} -> \A i \in DOMAIN v.items : Utf8[v.items[i]]
      [] OTHER -> v.class = "str" => v.content # Unpaired

UnrepresentableRejected ==
    [][request' # request => filter = Absent \/ Utf8[filter]]_vars
============================================================================
