------------------------------ MODULE Encoding ------------------------------
(***************************************************************************)
(* Columns into documents (bson_arrow/encode.rs). Pure.                    *)
(*                                                                         *)
(* A column is walked with the set of its rows that count; a list is a     *)
(* slice of the column of its items.                                       *)
(***************************************************************************)
EXTENDS Decoding

CONSTANTS MaxTime,   \* the last second of a BSON Timestamp (2^32 - 1)
          Filler(_)  \* Filler(type): payload of the slots of a column that mean nothing

ASSUME FillerAssumption == \A type \in DOMAIN Leaves : Filler(type) \in Payload

(* A struct has no two fields of one name: a struct series finds a field   *)
(* by its name, and Polars refuses to make one with a name twice.          *)
ASSUME NamesAssumption ==
    \A p \in Nodes : p.type = "Struct" =>
        \A i, j \in DOMAIN p.children : p.children[i].name = p.children[j].name => i = j

(* Rows lo + 1 .. hi of a column: the series of one list.                  *)
Slice[p \in Nodes] ==
    [col \in Columns[p] |-> [lo \in Nat |-> [hi \in Nat |->
        CASE p.type = "Struct" ->
                [children |-> [i \in DOMAIN p.children |-> Slice[p.children[i]][col.children[i]][lo][hi]],
                 validity |-> SubSeq(col.validity, lo + 1, hi)]
          [] p.type = "List" ->
                [col EXCEPT !.offsets = SubSeq(@, lo + 1, hi + 1), !.validity = SubSeq(@, lo + 1, hi)]
          [] OTHER -> [values |-> SubSeq(col.values, lo + 1, hi)]]]]

Inner(p, col, row) == Slice[p.children[1]][col.child][col.offsets[row]][col.offsets[row + 1]]

AllRows(p, col) == 1 .. Height(p, col)

\* Mutant of ChildActive: the mask of the ancestors is dropped.
ChildActiveAlone(p, col, active) == {row \in AllRows(p, col) : col.validity[row]}

(* The mask for the children of a struct: the rest holds filler.           *)
ChildActive(p, col, active) == {row \in active : col.validity[row]}

(* A value no BSON value of the declared type can say.                     *)
Unwritable(p, x) ==
    \/ p.type = "Timestamp" /\ (x[1] \div MillisPerSecond) \notin 0 .. MaxTime
    \/ p.type = "ObjectId"  /\ ~Whole(x)

(* The error of encode_column_where, if it is one, with the row of the     *)
(* column it is at: in a list that is the number of the item.              *)
EncodeFault[p \in Nodes] ==
    [col \in Columns[p] |-> [active \in SUBSET Nat |->
        LET AtRow(row)    == [path |-> p.path, declared |-> p.type, row |-> row]
            BadNull(row)  == row \in active /\ ~Valid(p, col, row) /\ ~p.nullable
            BadValue(row) == row \in active /\ Valid(p, col, row) /\ Unwritable(p, col.values[row][1])
            InList(row)   == LET inner == Inner(p, col, row) IN
                             IF row \in active /\ Valid(p, col, row)
                             THEN EncodeFault[p.children[1]][inner][AllRows(p.children[1], inner)]
                             ELSE IF BadNull(row) THEN Some(AtRow(row)) ELSE None IN
        CASE p.type = "Struct" ->
                FirstOf([i \in DOMAIN p.children |->
                            EncodeFault[p.children[i]][col.children[i]][ChildActive(p, col, active)]]
                        \o <<FirstOf([row \in AllRows(p, col) |->
                                         IF BadNull(row) THEN Some(AtRow(row)) ELSE None])>>)
          [] p.type = "List" -> FirstOf([row \in AllRows(p, col) |-> InList(row)])
          [] OTHER ->
                FirstOf([row \in AllRows(p, col) |->
                            IF BadNull(row) \/ BadValue(row) THEN Some(AtRow(row)) ELSE None])]]

NullValue == [tag |-> "Null"]

\* Mutant of WrittenTag: an Int64 is written as a Double.
WrittenTagWide(type) ==
    CASE type \in {"Int64", "Float64"} -> "Double"
      [] type = "DateTimeMs"          -> "DateTime"
      [] OTHER                        -> type

WrittenTag(type) ==
    CASE type = "Float64"    -> "Double"
      [] type = "DateTimeMs" -> "DateTime"
      [] OTHER               -> type

WriteLeaf(type, x) ==
    IF WrittenTag(type) = "Timestamp"
    THEN [tag |-> "Timestamp", time |-> x[1] \div MillisPerSecond, increment |-> 0]
    ELSE [tag |-> WrittenTag(type), value |-> x]

EmbeddedDocument(p, values) ==
    [tag    |-> "EmbeddedDocument",
     fields |-> [n \in {p.children[i].name : i \in DOMAIN p.children} |->
                    values[CHOOSE i \in DOMAIN p.children : p.children[i].name = n]]]

(* encode_column_where of a column it does not reject: a BSON value a row. *)
Encode[p \in Nodes] ==
    [col \in Columns[p] |-> [active \in SUBSET Nat |->
        LET children ==
                IF p.type = "Struct"
                THEN [i \in DOMAIN p.children |->
                         Encode[p.children[i]][col.children[i]][ChildActive(p, col, active)]]
                ELSE <<>>
            Value(row) ==
                CASE p.type = "Struct" ->
                        EmbeddedDocument(p, [i \in DOMAIN p.children |-> children[i][row]])
                  [] p.type = "List" ->
                        LET inner == Inner(p, col, row) IN
                        [tag |-> "Array",
                         items |-> Encode[p.children[1]][inner][AllRows(p.children[1], inner)]]
                  [] OTHER -> WriteLeaf(p.type, col.values[row][1]) IN
        [row \in AllRows(p, col) |->
            IF row \in active /\ Valid(p, col, row) THEN Value(row) ELSE NullValue]]]

----------------------------------------------------------------------------
(* What lies under a null struct means nothing: a frame from elsewhere may *)
(* hold nulls there or values, and structs that claim to be valid.         *)
Fill[p \in Nodes] ==
    [col \in Columns[p] |-> [rows \in SUBSET Nat |-> [filled \in BOOLEAN |->
        CASE p.type = "Struct" ->
                [children |-> [i \in DOMAIN p.children |-> Fill[p.children[i]][col.children[i]][rows][filled]],
                 validity |-> [r \in DOMAIN col.validity |-> col.validity[r] \/ r \in rows]]
          [] p.type = "List" -> col
          [] OTHER -> [values |-> [r \in DOMAIN col.values |->
                                      IF r \notin rows THEN col.values[r]
                                      ELSE IF filled THEN Some(Filler(p.type)) ELSE None]]]]]

Refilled(p, col, filled) ==
    IF p.type = "Struct"
    THEN [col EXCEPT !.children = [i \in DOMAIN @ |->
              Fill[p.children[i]][@[i]][{r \in DOMAIN col.validity : ~col.validity[r]}][filled]]]
    ELSE col
============================================================================
