----------------------------- MODULE SchemaPlan -----------------------------
(***************************************************************************)
(* SchemaPlan (bson_arrow/schema.rs): the caller's Arrow schema compiled   *)
(* into the plan that decoding and encoding follow. Pure.                  *)
(*                                                                         *)
(* An Arrow field is a record [name, nullable, dtype]; a dtype is a record *)
(* with a kind and what that kind carries. A place is the sequence of the  *)
(* names that lead to it, which the code joins with dots. How an error     *)
(* words what it rejects is left out.                                      *)
(***************************************************************************)
EXTENDS ObjectIds, SequencesExt

CONSTANTS Names,         \* names a field may have
          Dtypes,        \* Arrow types, with those they are made of
          DtypeDepth(_)  \* DtypeDepth(d): how deep a type is nested

(* collect() of results ends with the first error, if there is one.        *)
FirstOf(results) ==
    LET errors == {i \in DOMAIN results : results[i] # None}
    IN  IF errors = {} THEN None ELSE results[Min(errors)]

\* The Arrow types that map by themselves.
Scalars ==
    [k \in {"Int32", "Int64", "Float64", "Boolean"} |-> k]

Strings  == {"Utf8", "LargeUtf8", "Utf8View"}
Binaries == {"Binary", "LargeBinary", "BinaryView"}
Lists    == {"List", "LargeList"}

(* No type contains itself.                                                *)
ASSUME DtypesAssumption ==
    \A d \in Dtypes :
        /\ DtypeDepth(d) \in Nat
        /\ d.kind = "Struct" =>
              /\ Len(d.fields) \in Nat /\ DOMAIN d.fields = 1 .. Len(d.fields)
              /\ \A i \in DOMAIN d.fields : /\ d.fields[i].dtype \in Dtypes
                                            /\ DtypeDepth(d.fields[i].dtype) < DtypeDepth(d)
                                            /\ d.fields[i].name \in Names
                                            /\ d.fields[i].nullable \in BOOLEAN
        /\ d.kind \in Lists =>
              /\ d.item.dtype \in Dtypes
              /\ DtypeDepth(d.item.dtype) < DtypeDepth(d)
              /\ d.item.name \in Names
              /\ d.item.nullable \in BOOLEAN
        /\ d.kind = "Dictionary" => d.inner \in Dtypes /\ DtypeDepth(d.inner) < DtypeDepth(d)

\* The extension types a caller may select, with the storage each requires.
StorageOk(ext, inner) ==
    \/ ext = "ObjectId"   /\ inner.kind = "FixedSizeList" /\ inner.size = IdLength
                          /\ inner.item.dtype.kind = "UInt8"
    \/ ext = "Decimal128" /\ inner.kind = "Float64"
    \/ ext = "Timestamp"  /\ inner.kind = "Timestamp" /\ inner.unit = "ms"

(* compile_dtype and compile_extension reject a declaration by itself.     *)
Unsupported(d) ==
    CASE d.kind = "Extension"  -> \/ ~StorageOk(d.ext, d.inner)
                                  \/ d.inner.kind = "Timestamp" /\ d.inner.zoned
      [] d.kind = "Timestamp"  -> d.unit # "ms" \/ d.zoned
      [] d.kind = "Dictionary" -> d.key # "UInt32"
      [] OTHER -> d.kind \notin DOMAIN Scalars \cup Strings \cup Binaries \cup Lists \cup {"Struct"}

\* Mutant of JoinPath: the parent is forgotten.
JoinPathOwn(parent, name) == <<name>>

JoinPath(parent, name) == Append(parent, name)

(* The place compile_dtype rejects in a dtype declared at path, or None.   *)
Rejection[d \in Dtypes] ==
    [path \in Seq(Names) |->
        LET RejectedIn(f) == Rejection[f.dtype][JoinPath(path, f.name)] IN
        CASE Unsupported(d)        -> Some(path)
          [] d.kind = "Struct"     -> FirstOf([i \in DOMAIN d.fields |-> RejectedIn(d.fields[i])])
          [] d.kind \in Lists      -> RejectedIn(d.item)
          [] d.kind = "Dictionary" /\ d.key = "UInt32" -> Rejection[d.inner][path]
          [] OTHER                 -> None]

Node(path, type, nullable, children) ==
    [name |-> path[Len(path)], path |-> path, type |-> type, nullable |-> nullable, children |-> children]

(* The plan of a field of a dtype that is not rejected.                    *)
CompileDtype[d \in Dtypes] ==
    [path \in Seq(Names) |-> [nullable \in BOOLEAN |->
        LET Compiled(f) == CompileDtype[f.dtype][JoinPath(path, f.name)][f.nullable]
            Leaf(type)  == Node(path, type, nullable, <<>>) IN
        CASE d.kind = "Extension"  -> Leaf(d.ext)
          [] d.kind = "Timestamp"  -> Leaf("DateTimeMs")
          [] d.kind = "Struct"     ->
                Node(path, "Struct", nullable, [i \in DOMAIN d.fields |-> Compiled(d.fields[i])])
          [] d.kind \in Lists      -> Node(path, "List", nullable, <<Compiled(d.item)>>)
          [] d.kind = "Dictionary" -> CompileDtype[d.inner][path][nullable]
          [] d.kind \in Strings    -> Leaf("String")
          [] d.kind \in Binaries   -> Leaf("Binary")
          [] OTHER                 -> Leaf(Scalars[d.kind])]]

SchemaRejection(fields) ==
    FirstOf([i \in DOMAIN fields |-> Rejection[fields[i].dtype][<<fields[i].name>>]])

FromFields(fields) ==
    [i \in DOMAIN fields |-> CompileDtype[fields[i].dtype][<<fields[i].name>>][fields[i].nullable]]

----------------------------------------------------------------------------
(* The fields inside a dtype. A dictionary is the type of its values.      *)
Inside[d \in Dtypes] ==
    IF d.kind = "Dictionary" THEN Inside[d.inner]
    ELSE CASE d.kind = "Struct" -> d.fields
           [] d.kind \in Lists  -> <<d.item>>
           [] OTHER             -> <<>>

Named(fields, path) == {f \in ToSet(fields) : f.name = Head(path)}

(* What is declared at a place inside a dtype, or of a list of fields:     *)
(* nothing, or a field for each step of the way that has its name.         *)
DeclaredIn[d \in Dtypes] ==
    [path \in Seq(Names) |->
        UNION {IF Len(path) = 1 THEN {f} ELSE DeclaredIn[f.dtype][Tail(path)] :
                  f \in Named(Inside[d], path)}]

DeclaredAt(fields, path) ==
    UNION {IF Len(path) = 1 THEN {f} ELSE DeclaredIn[f.dtype][Tail(path)] : f \in Named(fields, path)}

(* A dtype at a place, with all that is declared inside it, and all that a *)
(* list of fields declares: from the front, a container before its parts.  *)
Declarations[d \in Dtypes] ==
    [path \in Seq(Names) |->
        <<[path |-> path, dtype |-> d]>>
        \o FlattenSeq([i \in DOMAIN Inside[d] |->
                          Declarations[Inside[d][i].dtype][Append(path, Inside[d][i].name)]])]

AllDeclarations(fields) ==
    FlattenSeq([i \in DOMAIN fields |-> Declarations[fields[i].dtype][<<fields[i].name>>]])
============================================================================
