----------------------------- MODULE Conversion -----------------------------
(***************************************************************************)
(* A batch through the conversion engine: a schema is compiled, documents  *)
(* are decoded into columns (bson_arrow/decode.rs), and the columns are    *)
(* encoded into documents again (bson_arrow/encode.rs).                    *)
(*                                                                         *)
(* Both directions work a column at a time. The decoder pushes the value   *)
(* of each field of each document into a tree of builders, the encoder     *)
(* walks a column with a mask of the rows that count. What they should     *)
(* amount to is said a row at a time.                                      *)
(***************************************************************************)
EXTENDS Encoding

CONSTANTS Schemas,       \* schemas a caller may hand in
          BsonValues(_), \* BsonValues(node): values a document may hold for a plan node
          MaxDocuments   \* documents in a batch

VARIABLES schema,    \* the caller's Arrow fields
          plan,      \* SchemaPlan.fields
          status,    \* where the batch is, or how it failed
          docs,      \* documents taken so far
          field,     \* the field to be pushed next of the last one, or 0
          columns,   \* a builder, then a column, for each field of the plan
          written,   \* the documents that the columns encode to
          error      \* the error that ended the batch, if one did

vars == <<schema, plan, status, docs, field, columns, written, error>>

(* Nodes holds what the schemas compile to, and the values that a document *)
(* may hold are BSON values.                                               *)
ASSUME SchemasAssumption ==
    \A s \in Schemas :
        /\ Len(s) \in Nat /\ DOMAIN s = 1 .. Len(s)
        /\ \A i \in DOMAIN s : /\ s[i].name \in Names
                             /\ s[i].dtype \in Dtypes
                             /\ s[i].nullable \in BOOLEAN
        /\ SchemaRejection(s) = None => \A i \in DOMAIN s : FromFields(s)[i] \in Nodes

ASSUME ValuesAssumption == \A p \in Nodes : \A v \in BsonValues(p) : v \in Bson[p]

----------------------------------------------------------------------------
Init ==
    /\ schema \in Schemas
    /\ plan = <<>>
    /\ status = "given"
    /\ docs = <<>>
    /\ field = 0
    /\ columns = <<>>
    /\ written = <<>>
    /\ error = None

Compile ==
    /\ status = "given"
    /\ IF SchemaRejection(schema) # None
       THEN /\ status' = "schema_error"
            /\ error' = SchemaRejection(schema)
            /\ UNCHANGED <<plan, columns>>
       ELSE /\ status' = "decoding"
            /\ plan' = FromFields(schema)
            /\ columns' = [i \in DOMAIN plan' |-> NewBuilder[plan'[i]]]
            /\ UNCHANGED error
    /\ UNCHANGED <<schema, docs, field, written>>

(* decode_documents goes on to the next document of the batch, which is    *)
(* done with when the plan has no fields.                                  *)
NextDocument ==
    /\ status = "decoding"
    /\ field = 0
    /\ Len(docs) < MaxDocuments
    /\ docs' = Append(docs, <<>>)
    /\ field' = 1 % (Len(plan) + 1)
    /\ UNCHANGED <<schema, plan, status, columns, written, error>>

(* It gets the next field of the document and pushes it, or ends the batch *)
(* with the first error.                                                   *)
DecodeField ==
    /\ status = "decoding"
    /\ field # 0
    /\ \E v \in BsonValues(plan[field]) :
          /\ docs' = [docs EXCEPT ![Len(docs)] = Append(@, v)]
          /\ IF Fault[plan[field]][v] # None
             THEN /\ status' = "conversion_error"
                  /\ error' = Fault[plan[field]][v]
                  /\ UNCHANGED <<field, columns>>
             ELSE /\ columns' = [columns EXCEPT ![field] = Push[plan[field]][@][v]]
                  /\ field' = (field + 1) % (Len(plan) + 1)
                  /\ UNCHANGED <<status, error>>
    /\ UNCHANGED <<schema, plan, written>>

(* The builders become the columns of a frame. It may come back as it is,  *)
(* or as a frame with the same rows over other filler.                     *)
Finish ==
    /\ status = "decoding"
    /\ field = 0
    /\ docs # <<>>
    /\ status' = "framed"
    /\ \/ UNCHANGED columns
       \/ \E filled \in BOOLEAN :
              columns' = [i \in DOMAIN columns |-> Refilled(plan[i], columns[i], filled)]
    /\ UNCHANGED <<schema, plan, docs, field, written, error>>

(* A column of ids may have been rendered and parsed again.                *)
ThroughHex ==
    /\ status = "framed"
    /\ \E i \in DOMAIN plan :
          /\ plan[i].type = "ObjectId"
          /\ columns' = [columns EXCEPT ![i].values = ObjectIdFromHex(ObjectIdToHex(@))]
    /\ UNCHANGED <<schema, plan, status, docs, field, written, error>>

FrameFault == FirstOf([i \in DOMAIN plan |-> EncodeFault[plan[i]][columns[i]][AllRows(plan[i], columns[i])]])

(* encode_documents: every column, then a document for each row.           *)
Write ==
    /\ status = "framed"
    /\ IF FrameFault # None
       THEN /\ status' = "encode_error"
            /\ error' = FrameFault
            /\ UNCHANGED written
       ELSE /\ status' = "written"
            /\ LET encoded == [i \in DOMAIN plan |->
                                  Encode[plan[i]][columns[i]][AllRows(plan[i], columns[i])]] IN
               written' = [row \in DOMAIN docs |-> [i \in DOMAIN plan |-> encoded[i][row]]]
            /\ UNCHANGED error
    /\ UNCHANGED <<schema, plan, docs, field, columns>>

Next == Compile \/ NextDocument \/ DecodeField \/ Finish \/ ThroughHex \/ Write

Spec == Init /\ [][Next]_vars

----------------------------------------------------------------------------
(* A value, or one inside it, that no BSON value of the declared type can  *)
(* say once it has been read.                                              *)
HasUnwritable[p \in Nodes] ==
    [v \in Bson[p] |->
        ~IsNull(v) /\ CASE p.type = "Struct" ->
                              \E i \in DOMAIN p.children :
                                  HasUnwritable[p.children[i]][FieldOf(v, p.children[i])]
                        [] p.type = "List" -> \E k \in DOMAIN v.items : HasUnwritable[p.children[1]][v.items[k]]
                        [] OTHER           -> Unwritable(p, LeafValue(v))]

(* Under the plan, w says what v does, to the second for a BSON Timestamp. *)
SaysWhat[p \in Nodes] ==
    [v \in Bson[p] |-> [w \in Bson[p] |->
        IF IsNull(v) THEN IsNull(w)
        ELSE ~IsNull(w) /\
             CASE p.type = "Struct" ->
                     \A i \in DOMAIN p.children :
                         SaysWhat[p.children[i]][FieldOf(v, p.children[i])][FieldOf(w, p.children[i])]
               [] p.type = "List" ->
                     /\ Len(v.items) = Len(w.items)
                     /\ \A k \in DOMAIN v.items : SaysWhat[p.children[1]][v.items[k]][w.items[k]]
               [] p.type = "Timestamp" ->
                     LeafValue(w) = <<(LeafValue(v)[1] \div MillisPerSecond) * MillisPerSecond>>
               [] OTHER -> LeafValue(w) = LeafValue(v)]]

(* Rows pushed for field i: those of the last document come field by field.*)
Pushed(i) == IF field # 0 /\ field <= i THEN Len(docs) - 1 ELSE Len(docs)

(* Types: the builders of all fields and levels stay level with the        *)
(* documents, so that finish() can assemble arrays of them.                *)
TypeOK ==
    /\ status \in {"given", "schema_error", "decoding", "conversion_error", "framed",
                   "encode_error", "written"}
    /\ field \in 0 .. Len(plan)
    /\ \A i \in DOMAIN columns : /\ columns[i] \in Columns[plan[i]]
                               /\ WellFormed[plan[i]][columns[i]][Pushed(i)]

Expressible[d \in Dtypes] ==
    /\ d.kind = "Dictionary" => Expressible[d.inner]
    /\ CASE d.kind = "Extension"  -> StorageOk(d.ext, d.inner) /\ (d.inner.kind = "Timestamp" => ~d.inner.zoned)
         [] d.kind = "Timestamp"  -> d.unit = "ms" /\ ~d.zoned
         [] d.kind = "Dictionary" -> d.key = "UInt32"
         [] OTHER -> d.kind \in DOMAIN Scalars \cup Strings \cup Binaries \cup Lists \cup {"Struct"}

(* A schema is refused, before any document, exactly if it declares a type *)
(* that has no converter, at whatever depth, and the error names the first *)
(* place where it does. (compile_dtype, compile_extension.)                *)
SchemaDecides ==
    LET all == AllDeclarations(schema) IN
    /\ status \notin {"given", "schema_error"} => \A k \in DOMAIN all : Expressible[all[k].dtype]
    /\ status = "schema_error" =>
           \E k \in DOMAIN all : /\ ~Expressible[all[k].dtype]
                                 /\ error = Some(all[k].path)
                                 /\ \A j \in 1 .. k - 1 : Expressible[all[j].dtype]

(* What a value holds at a place inside it: of a list, what all items hold.*)
HeldAt[p \in Nodes] ==
    [v \in Bson[p] |-> [path \in Seq(Names) |->
        LET HeldIn(q, w) == HeldAt[q][w][Tail(path)] IN
        CASE path = <<>> -> {v}
          [] path # <<>> /\ p.type = "Struct" /\ v.tag = "EmbeddedDocument" ->
                UNION {HeldIn(p.children[i], FieldOf(v, p.children[i])) :
                          i \in {j \in DOMAIN p.children : p.children[j].name = Head(path)}}
          [] path # <<>> /\ p.type = "List" /\ v.tag = "Array" ->
                UNION {HeldIn(p.children[1], v.items[k]) : k \in DOMAIN v.items}
          [] OTHER -> {}]]

(* What one document holds at a place, and what the schema says of it.     *)
InDocument(r, path) ==
    UNION {HeldAt[plan[i]][docs[r][i]][Tail(path)] : i \in {j \in DOMAIN docs[r] : schema[j].name = Head(path)}}

PlanAt(path) == {CompileDtype[f.dtype][path][f.nullable] : f \in DeclaredAt(schema, path)}

(* A document that does not convert is refused for a value it holds at the *)
(* place the error names, one that is not of the type which the schema     *)
(* declares there and which the error repeats, a null where there may be   *)
(* none, or one that cannot be looked up, which counts as missing. (error  *)
(* of decode.rs.)                                                          *)
ErrorLocated ==
    status = "conversion_error" =>
        \E p \in PlanAt(error[1].path), v \in InDocument(Len(docs), error[1].path) :
            /\ error[1].declared = p.type
            /\ error[1].found = IF v.tag = "Malformed" THEN "Missing" ELSE v.tag
            /\ IF IsNull(v) THEN ~p.nullable
               ELSE CASE p.type = "Struct" -> v.tag # "EmbeddedDocument"
                      [] p.type = "List"   -> v.tag # "Array"
                      [] OTHER             -> v.tag \notin Leaves[p.type]

(* The place is inside a list.                                             *)
InList(path) == \E n \in 1 .. Len(path) - 1 : \E p \in PlanAt(SubSeq(path, 1, n)) : p.type = "List"

(* A frame that cannot be written is refused for a value that is at the    *)
(* place the error names and that no BSON value of the declared type can   *)
(* say: in the row of the error or, when the place is inside a list, in    *)
(* some row, since items are counted by themselves. (error of encode.rs.)  *)
EncodeErrorLocated ==
    status = "encode_error" =>
        \E p \in PlanAt(error[1].path), r \in DOMAIN docs :
            /\ InList(error[1].path) \/ r = error[1].row
            /\ error[1].declared = p.type
            /\ \E v \in InDocument(r, error[1].path) : ~IsNull(v) /\ Unwritable(p, LeafValue(v))

(* Pushing documents one after the other, a field at a time, is the same   *)
(* as converting each by itself, and filler does not show. (Builder,       *)
(* push_value, push_null, finish.)                                         *)
RowWise ==
    \A i \in DOMAIN columns : \A r \in 1 .. Pushed(i) :
        At[plan[i]][columns[i]][r] = Row[plan[i]][docs[r][i]]

(* A null, or a field that is missing, shows only where the schema allows  *)
(* a null: in a list item and in a field of a struct as at the top.        *)
NullsDeclared ==
    \A i \in DOMAIN columns : \A r \in 1 .. Pushed(i) :
        NullsAllowed[plan[i]][columns[i]][r]

(* What could be read can be written, whatever the filler, unless it is a  *)
(* moment outside the range of a BSON Timestamp. (The masks of             *)
(* encode_column_where.)                                                   *)
ReadIsWritable ==
    status = "encode_error" =>
        \E r \in DOMAIN docs, i \in DOMAIN plan : HasUnwritable[plan[i]][docs[r][i]]

(* What has been written reads back, under the same schema, as the rows it *)
(* was written from, down to the second for a BSON Timestamp.              *)
WrittenReadsBack ==
    status = "written" =>
        \A r \in DOMAIN docs, i \in DOMAIN plan :
            /\ Fault[plan[i]][written[r][i]] = None
            /\ SaysWhat[plan[i]][docs[r][i]][written[r][i]]

(* For an id of a frame the expressions agree with one another: what it is *)
(* rendered as passes for an id, in either case of the letters, and parses *)
(* into it, and the moment it was made is what the first digits of the     *)
(* rendering say. (is_object_id, object_id_to_hex, object_id_from_hex and  *)
(* object_id_timestamp.)                                                   *)
IdsAgree ==
    status = "framed" =>
        \A i \in DOMAIN plan : plan[i].type = "ObjectId" =>
            LET ids   == columns[i].values
                texts == ObjectIdToHex(ids)
                made  == ObjectIdTimestamp(ids, "ms") IN
            \A r \in DOMAIN ids :
                IF ids[r] = None THEN texts[r] = None /\ made[r] = None
                ELSE /\ IsObjectId(texts)[r] = Some(TRUE)
                     /\ ObjectIdFromHex(<<Some(InUpperCase(texts[r][1]))>>) = <<ids[r]>>
                     /\ made[r] = Some(MillisPerSecond * DigitsValue(texts[r][1], StampLength * 2))
============================================================================
