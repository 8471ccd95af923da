----------------------------- MODULE WritePath -----------------------------
(***************************************************************************)
(* write_mongo and sink_mongo (_write.py) over MongoBatchWriter (write.rs) *)
(* on a connection that another thread may close at any time.              *)
(*                                                                         *)
(* A call w walks the rows 0 .. Height[w]-1 of its stream in batches. Each *)
(* batch is encoded, sent with one unordered insert_many, and its outcome  *)
(* is added to the call's RowCounter and list of failures. The GIL is held *)
(* from the encoding to the moment the driver is called and again from its *)
(* answer on, so each of those stretches is one action; between them the   *)
(* server works through the batch row by row, other calls proceed and the  *)
(* connection may be closed.                                               *)
(*                                                                         *)
(* Documents are abstracted away: whether a frame encodes and whether the  *)
(* server refuses a row (a duplicate _id, a validator) depends on the data *)
(* and is a free choice here.                                              *)
(***************************************************************************)
EXTENDS Integers, FiniteSets

CONSTANTS Writers,     \* calls in progress, one thread each
          Sinks,       \* those of them that are calls of sink_mongo
          Height,      \* Height[w]: rows of the stream of w
          BatchSize    \* BatchSize[w]: the batch_size argument of w

ASSUME SinksAssumption == Sinks \subseteq Writers
ASSUME HeightAssumption == Height \in [Writers -> Nat]
\* _validate_batch_size rejects every other value before a writer exists.
ASSUME BatchSizeAssumption == BatchSize \in [Writers -> Nat \ {0}]

VARIABLES conn,       \* the shared MongoConnection: "open", "closing", "closed"
          pc,         \* pc[w]: "ready" between two batches, "inflight", "done"
          pos,        \* pos[w]: rows already taken from the stream
          size,       \* size[w]: height of the batch at hand
          attempted,  \* RowCounter.attempted_rows
          inserted,   \* RowCounter.inserted_rows
          failures,   \* row indices in the failures list
          sent,       \* sent[w]: rows handed to the driver
          stored,     \* stored[w]: rows the server has stored
          refused,    \* refused[w]: rows the server has refused
          result      \* result[w]: Running, or what the caller got

callVars   == <<pc, pos, size, attempted, inserted, failures>>
serverVars == <<stored, refused>>
vars       == <<conn, callVars, sent, serverVars, result>>

Contract == INSTANCE WriteContract

Running == Contract!Running
Rows(w) == 0 .. (Height[w] - 1)

Init ==
    /\ conn = "open"
    /\ pc = [w \in Writers |-> "ready"]
    /\ pos = [w \in Writers |-> 0]
    /\ size = [w \in Writers |-> 0]
    /\ attempted = [w \in Writers |-> 0]
    /\ inserted = [w \in Writers |-> 0]
    /\ failures = [w \in Writers |-> {}]
    /\ sent = [w \in Writers |-> {}]
    /\ stored = [w \in Writers |-> {}]
    /\ refused = [w \in Writers |-> {}]
    /\ result = [w \in Writers |-> Running]

----------------------------------------------------------------------------
\* Mutant of NextHeights: the last frame is not clipped to what is left.
UnclippedHeights(w) == IF pos[w] < Height[w] THEN {BatchSize[w]} ELSE {}

(* The heights the next frame may have. write_mongo slices the frame every *)
(* batch_size rows; the engine gives sink_mongo frames of any height. (A   *)
(* frame with no rows returns an empty outcome before the connection is    *)
(* looked at and changes nothing: a stuttering step.)                      *)
NextHeights(w) ==
    IF w \in Sinks
    THEN 1 .. (Height[w] - pos[w])
    ELSE {h \in 1 .. (Height[w] - pos[w]) :
             \/ h = BatchSize[w]
             \/ h = Height[w] - pos[w] /\ h < BatchSize[w]}

BatchRows(w) == pos[w] .. (pos[w] + size[w] - 1)

\* Mutant of Raise: the exception is kept for later and the loop goes on.
RaiseLater(w, error) ==
    /\ pc' = [pc EXCEPT ![w] = "ready"]
    /\ result' = [result EXCEPT ![w] = error]

Raise(w, error) ==
    /\ pc' = [pc EXCEPT ![w] = "done"]
    /\ result' = [result EXCEPT ![w] = error]

(* encode_documents refuses the frame: nothing of it has been sent.        *)
EncodeFails(w) ==
    /\ pc[w] = "ready"
    /\ NextHeights(w) # {}
    /\ Raise(w, [kind |-> "conversion_error"])
    /\ UNCHANGED <<conn, pos, size, attempted, inserted, failures, sent, serverVars>>

\* Mutant of ConnectionRefuses: the call waits for the connection instead.
ConnectionAwaited(w) == pc[w] = "ready" /\ conn = "open" /\ UNCHANGED vars

(* client() on a closed connection raises MongoConnectionClosedError; the  *)
(* borrow that precedes it panics while close() holds the connection.      *)
ConnectionRefuses(w) ==
    /\ pc[w] = "ready"
    /\ NextHeights(w) # {}
    /\ \/ conn = "closed"  /\ Raise(w, [kind |-> "closed_error"])
       \/ conn = "closing" /\ Raise(w, [kind |-> "borrow_panic"])
    /\ UNCHANGED <<conn, pos, size, attempted, inserted, failures, sent, serverVars>>

(* The frame encodes, the client is cloned and insert_many starts. The     *)
(* writer keeps its clone of the client, not the borrow of the connection. *)
SendBatch(w) ==
    /\ pc[w] = "ready"
    /\ conn = "open"
    /\ \E h \in NextHeights(w) :
          /\ size' = [size EXCEPT ![w] = h]
          /\ sent' = [sent EXCEPT ![w] = @ \cup pos[w] .. (pos[w] + h - 1)]
    /\ pc' = [pc EXCEPT ![w] = "inflight"]
    /\ UNCHANGED <<conn, pos, attempted, inserted, failures, serverVars, result>>

----------------------------------------------------------------------------
(* The server works through the rows it was sent, in any order, and goes   *)
(* on with them when the caller has already been told of a lost answer.    *)
Pending(w) == sent[w] \ (stored[w] \cup refused[w])

StoreRow(w, r) ==
    /\ r \in Pending(w)
    /\ stored' = [stored EXCEPT ![w] = @ \cup {r}]
    /\ UNCHANGED <<conn, callVars, sent, refused, result>>

RefuseRow(w, r) ==
    /\ r \in Pending(w)
    /\ refused' = [refused EXCEPT ![w] = @ \cup {r}]
    /\ UNCHANGED <<conn, callVars, sent, stored, result>>

(* The indices of InsertManyError.write_errors, within the batch.          *)
FailedIndices(w) == { r - pos[w] : r \in refused[w] \cap BatchRows(w) }

\* Mutant of OutcomeFailures: the row offset is not added.
BatchRelativeFailures(w) == FailedIndices(w)

(* BatchOutcome.failures: the same rows as ordinals of the stream.         *)
OutcomeFailures(w) == { attempted[w] + i : i \in FailedIndices(w) }

\* Mutant of RecordBatch: positions advance by the acknowledged rows only.
RecordAcknowledged(w, a, n) ==
    /\ attempted' = [attempted EXCEPT ![w] = @ + n]
    /\ inserted' = [inserted EXCEPT ![w] = @ + n]

(* RowCounter.record_batch.                                                *)
RecordBatch(w, a, n) ==
    /\ attempted' = [attempted EXCEPT ![w] = @ + a]
    /\ inserted' = [inserted EXCEPT ![w] = @ + n]

(* An answer without a non-row error: an unordered insert has attempted    *)
(* every row. _insert_batch records the outcome and the loop moves on.     *)
DriverAnswers(w) ==
    /\ pc[w] = "inflight"
    /\ BatchRows(w) \subseteq stored[w] \cup refused[w]
    /\ failures' = [failures EXCEPT ![w] = @ \cup OutcomeFailures(w)]
    /\ RecordBatch(w, size[w], size[w] - Cardinality(FailedIndices(w)))
    /\ pos' = [pos EXCEPT ![w] = @ + size[w]]
    /\ size' = [size EXCEPT ![w] = 0]
    /\ pc' = [pc EXCEPT ![w] = "ready"]
    /\ UNCHANGED <<conn, sent, serverVars, result>>

\* Mutant of WindowError: the stop row is not moved by the row offset.
WindowUnshifted(w) == Contract!BatchError(attempted[w], size[w])

WindowError(w) == Contract!BatchError(attempted[w], attempted[w] + size[w])

(* Any other error of insert_many, at any moment: a network failure, a     *)
(* write concern error with or without indexed errors, an InsertManyError  *)
(* that lists no index. The failures recorded so far are not raised.       *)
BatchFails(w) ==
    /\ pc[w] = "inflight"
    /\ Raise(w, WindowError(w))
    /\ UNCHANGED <<conn, pos, size, attempted, inserted, failures, sent, serverVars>>

(* The lazy plan behind a sink fails between two of its frames.            *)
PlanFails(w) ==
    /\ w \in Sinks
    /\ pc[w] = "ready"
    /\ Raise(w, [kind |-> "engine_error"])
    /\ UNCHANGED <<conn, pos, size, attempted, inserted, failures, sent, serverVars>>

(* The stream is at its end.                                               *)
Finish(w) ==
    /\ pc[w] = "ready"
    /\ pos[w] = Height[w]
    /\ Raise(w, IF failures[w] = {} THEN Contract!Returned(inserted[w])
                                    ELSE Contract!WriteError(failures[w]))
    /\ UNCHANGED <<conn, pos, size, attempted, inserted, failures, sent, serverVars>>

----------------------------------------------------------------------------
(* close() in another thread: the client is taken under a mutable borrow,  *)
(* the GIL is released for the shutdown, then the flag is set.             *)
CloseBegin ==
    /\ conn = "open"
    /\ conn' = "closing"
    /\ UNCHANGED <<callVars, sent, serverVars, result>>

CloseEnd ==
    /\ conn = "closing"
    /\ conn' = "closed"
    /\ UNCHANGED <<callVars, sent, serverVars, result>>

----------------------------------------------------------------------------
CallStep(w) ==
    \/ EncodeFails(w) \/ ConnectionRefuses(w) \/ SendBatch(w)
    \/ DriverAnswers(w) \/ BatchFails(w) \/ PlanFails(w) \/ Finish(w)

Next ==
    \/ \E w \in Writers :
          \/ CallStep(w)
          \/ \E r \in Rows(w) : StoreRow(w, r) \/ RefuseRow(w, r)
    \/ CloseBegin
    \/ CloseEnd

(* A running thread goes on, and insert_many returns: with an answer, or   *)
(* with an error once the driver gives up. Nothing obliges a frame or the  *)
(* plan to fail, the server to settle a row, or anybody to close the       *)
(* connection.                                                             *)
Progress(w) ==
    ConnectionRefuses(w) \/ SendBatch(w) \/ DriverAnswers(w) \/ BatchFails(w) \/ Finish(w)

Fairness == \A w \in Writers : WF_vars(Progress(w))

Spec == Init /\ [][Next]_vars /\ Fairness

----------------------------------------------------------------------------
Results ==
    {Running} \cup Contract!Interruptions
    \cup [kind : {"returned"}, count : Nat]
    \cup [kind : {"write_error"}, failures : SUBSET Nat]
    \cup [kind : {"batch_error"}, row_start : Nat, row_stop : Nat]

(* Types: every index is a row of the stream, no batch reaches past its    *)
(* end, and a call has a result exactly when it is over.                   *)
TypeOK ==
    /\ conn \in {"open", "closing", "closed"}
    /\ pc \in [Writers -> {"ready", "inflight", "done"}]
    /\ pos \in [Writers -> Nat]
    /\ size \in [Writers -> Nat]
    /\ attempted \in [Writers -> Nat]
    /\ inserted \in [Writers -> Nat]
    /\ failures \in [Writers -> SUBSET Nat]
    /\ sent \in [Writers -> SUBSET Nat]
    /\ stored \in [Writers -> SUBSET Nat]
    /\ refused \in [Writers -> SUBSET Nat]
    /\ result \in [Writers -> Results]
    /\ \A w \in Writers :
          /\ pos[w] + size[w] <= Height[w]
          /\ sent[w] \subseteq Rows(w)
          /\ stored[w] \cup refused[w] \subseteq sent[w]
          /\ stored[w] \cap refused[w] = {}
          /\ pc[w] = "done" <=> result[w] # Running

(* The accounting a call keeps agrees with the server between any two      *)
(* batches: what it has attempted is what it has taken and sent, all of it *)
(* settled, its failures are the refused rows and its count the stored     *)
(* ones. (RowCounter.record_batch, failures.extend, row_offset.)           *)
Accounting ==
    \A w \in Writers :
        /\ attempted[w] = pos[w]
        /\ sent[w] = 0 .. (pos[w] + size[w] - 1)
        /\ 0 .. (pos[w] - 1) \subseteq stored[w] \cup refused[w]
        /\ failures[w] = refused[w] \cap 0 .. (pos[w] - 1)
        /\ inserted[w] = Cardinality(stored[w] \cap 0 .. (pos[w] - 1))

(* What the caller is told is true when it is told and stays true: a       *)
(* returned count is the whole stream and all of it is stored; the         *)
(* failures of MongoWriteError are the refused rows and the rest is        *)
(* stored; outside the window of MongoBatchError the rows before are       *)
(* settled and the rows after were never sent.                             *)
ResultTruthful ==
    \A w \in Writers :
        /\ result[w].kind = "returned" =>
              /\ result[w].count = Height[w]
              /\ stored[w] = Rows(w)
        /\ result[w].kind = "write_error" =>
              /\ result[w].failures = refused[w]
              /\ stored[w] = Rows(w) \ result[w].failures
        /\ result[w].kind = "batch_error" =>
              /\ 0 .. (result[w].row_start - 1) \subseteq stored[w] \cup refused[w]
              /\ sent[w] = 0 .. (result[w].row_stop - 1)

(* No row leaves for the server once its caller has an error or a count:   *)
(* the first exception of insert_batch ends the loop of the call.          *)
NothingSentAfterEnd ==
    [][\A w \in Writers : result[w] # Running => sent'[w] = sent[w]]_vars

(* The detailed path implements the contract its callers rely on.          *)
ImplementsContract == Contract!Spec

(* A call that starts ends, whatever the server refuses and whenever the   *)
(* connection is closed.                                                   *)
CallEnds == \A w \in Writers : <>(result[w] # Running)
============================================================================
