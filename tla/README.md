# Verification of polars-mongo

TLA+ models of [polars-mongo](../src/README.md), a Rust extension module with a
Python surface that reads MongoDB collections into Polars frames and writes
frames into collections. The models are translated from the code under
`src/src` (Rust), `src/python/polars_mongo` (Python) and, for releases,
`src/.github/workflows/publish.yml` with `src/scripts/release.py`; TLC checks them
on small instances and TLAPS proves all the safety properties for every instance.

    tlc -config MCWritePath.cfg MCWritePath       # a run
    tlapm WritePathProofs.tla                     # the proofs of a module

`PROJECT.json` names the runs, the lines each definition models, a mutant for
each property, the hazards and the findings.

## 1. The system

| Part | Code | State | Operations |
|---|---|---|---|
| Connection | `conn.rs` | `client: Option<Arc<Client>>`, `closed`; PyO3's borrow flag; the driver behind it | `client()`, `close()`, `__exit__`, `_test_ping` |
| Write path | `write.rs`, `_write.py` | `RowCounter`, list of failures, position in the stream | `write_mongo`, `sink_mongo`, `insert_batch` |
| Batch reader | `read.rs` | cursor behind a mutex, two static counters | `MongoBatchReader(...)`, `__next__`, `_detach_counters` |
| Scan source | `_read.py` | generator: reader, rows produced | `scan_mongo`, `read_mongo` |
| Schema plan | `bson_arrow/schema.rs` | none | compile an Arrow schema into a plan |
| Decoder | `bson_arrow/decode.rs` | builders, per batch | BSON documents to columns |
| Encoder | `bson_arrow/encode.rs` | columns, per batch | columns to BSON documents |
| Filter conversion | `bson_arrow/filter.rs`, `read.rs`, `_read.py` | the frame's references to the caller's dictionaries | Python dict to BSON, when a frame is collected |
| ObjectId, expressions | `objectid.rs`, `expressions.rs`, `_objectid.py` | none | extension type, parse and format |
| Errors | `errors.rs`, `_errors.py` | none | typed exceptions |
| Release automation | `.github/workflows/publish.yml`, `scripts/release.py` | main, tags, releases with their wheels, the queue of runs, outputs and artifacts of a run | a push, a run, a run again |

How the parts interact. Every Python call starts under the GIL. A call that
needs the server clones the `Arc<Client>` out of the connection and drops the
GIL around the one driver call it makes; everything else it does runs under the
GIL and is, to other threads, one step. The connection object is guarded by
PyO3 like a RefCell: `find` and `_test_ping` hold a shared borrow across their
driver call, `insert_batch` for one statement, `close()` an exclusive one across
the driver's shutdown. A reader keeps a cursor and nothing of the connection.
`scan_mongo` gives Polars a generator that builds a reader when the frame is
collected; `write_mongo` slices a frame and `sink_mongo` takes the frames of the
engine, and both add the outcome of each batch to the call's own counter.

Releases are apart from that. A push to main starts a run of the Publish
workflow; runs stand in a queue of one at work and one waiting. A run prepares a
version (which may mean a commit of its own), builds wheels and creates tag and
release. Developers push meanwhile and people start failed runs again.

What is hard in it:

* interleavings at every point where the GIL is released: `close()` against a
  find, an insert, a reader and another `close()`; two threads on one reader;
  the GIL against the cursor mutex;
* partial failure: a batch of which some rows are refused, an answer that is
  lost while the server goes on, a frame that does not encode after others have
  been sent, a cursor that fails in the middle of a batch, a document that does
  not convert;
* positions: row indices are relative to a batch in the driver, to the stream in
  the error; the row limit of a scan is cumulative over batches;
* a column under construction: offsets and validity of nested lists and structs,
  and the filler that null parents leave in their children;
* places: an error found deep inside a value has to name the value at fault;
* a release that stops between any two of its steps and is taken up again, while
  main moves: each step reads a state of GitHub that the next may find changed.

What makes each part correct:

* Connection: the driver is shut down at most once and under nobody; no state
  between open and closed can be seen; closed is final; `close()` returns.
* Write path: what the caller is told (a count, row indices, a window) is true of
  the server, then and later; nothing is sent after the end; the call ends.
* Batch reader: the batches handed to all callers together are consecutive
  pieces of the result; nothing is lost without an error; no cursor is left
  open; calls return.
* Scan source: the rows are the first matches up to the limit, all of them, and
  the server is not asked for more than that takes.
* Decoder and encoder: column by column and row by row are the same conversion;
  a null is where the plan allows it; what was read can be written, and what
  was written reads back as the same row; an error names the value at fault.
* Filter conversion: the find that is sent says what the caller's dictionaries
  say; what cannot be said is refused, with the place where it stands.
* ObjectIds: bytes, text and creation time of an id agree in every expression.
* Release automation: a version is tagged once, at a commit that records it, and
  its wheels are of that commit; higher versions are of later commits; a push
  that nothing named is in the way of gets released.

## 2. The models

The modules were written in this order, the most important behaviour first.

| Module | Models | Shape |
|---|---|---|
| `WriteContract` | what one call promises about the rows of its stream | abstract: rows are stored, refused or undecided, and a result says which |
| `WritePath` | `write_mongo`, `sink_mongo`, `insert_batch`, `RowCounter` | several calls, a server that settles rows by itself, a connection that closes |
| `Connection` | `conn.rs`, and the three calls that borrow it | threads, PyO3 borrows, clones of the client, the driver's shutdown |
| `BatchStream` | what a reader promises its callers | abstract: a batch is taken in one step |
| `BatchReader` | `next_batch` and `_detach_counters` | GIL, mutex, cursor, one step for each turn of the loop |
| `ScanSource` | the generator of `scan_mongo` | composed with `BatchStream`, whose one caller it is |
| `ObjectIds` | `objectid.rs`, `expressions.rs` | operators on ids, texts and columns of either |
| `SchemaPlan` | `compile_dtype`, `compile_extension` | functions on Arrow types |
| `Decoding` | the builders of `decode.rs` | functions on plan nodes: builders, values, rows |
| `Encoding` | the walk of `encode.rs` | functions on plan nodes: masks, slices, documents |
| `Conversion` | a batch through all three | columns under construction; `SchemaPlan` gives the plan, `ObjectIds` takes a column of ids through its text |
| `FindRequest` | `filter.rs`, the checks of `scan_mongo`, the order of `MongoBatchReader.new` | calls of one thread, and functions on Python values |
| `ReleaseContract` | what whoever installs a version relies on | abstract: main grows, versions are published on top, wheels attached again |
| `Release` | `publish.yml`, `select_release_version` | developers, a queue of runs, the steps of the run at work, what an attempt leaves behind |

`WritePath` implements `WriteContract`, `BatchReader` implements `BatchStream` and
`Release` implements `ReleaseContract`; the refinements are run
(`ImplementsContract`, `ImplementsStream`) and proved. `ScanSource` uses
`BatchStream` in place of the reader that implements it.

A module's theorems are in the module named after it with `Proofs` at the end.
Types, nodes and values are nested, and the code follows them by recursion. The
models do it with recursive functions, on the sets `Dtypes`, `Nodes` and `Values`
that are constants like the depths `DtypeDepth` and `Depth`: whatever nests
finitely is an instance. `Recursion` gives the proofs what such a definition says.

### How state and actions correspond to the code

**WritePath.** `attempted`, `inserted` are the fields of `RowCounter`, `failures`
the list of `write_mongo` or of `_consume`, `pos` and `size` the slice or frame
at hand. `sent`, `stored`, `refused` are the server. A call is `ready` between
two batches, `inflight` in `insert_many`, `done` once it has returned or raised.
`SendBatch` is `insert_batch` up to the driver call, `DriverAnswers` and
`BatchFails` are what follows it with `RowCounter.record_batch` or the exception,
`EncodeFails` and `ConnectionRefuses` the exits before it, `Finish` the end of
`write_mongo` or `sink_mongo`. `StoreRow` and `RefuseRow` belong to the server:
they go on for rows that were sent after `BatchFails`, which is what a lost
answer is. A `BatchFails` may come at any moment of an insert, including after
all its rows are settled.

**Connection.** `client` and `closed` are the fields. `exclusive` and `shared`
are PyO3's borrow flag, with the thread that holds it, `clones` the count of the
`Arc`, `driver` the driver's own state. `Start`/`Return` are a find, an insert or
a ping around their driver call. `close()` is `CloseBegin` (client taken, GIL
dropped), `Unwrap` (`Arc::try_unwrap`), `Shutdown` (waits for cursors),
`CloseEnd` (flag set); `CloseAgain` is its path without a client. `__exit__` is
`close()`.

**BatchReader.** `gil` and `mutex` have their holders; `gil` names a thread only
where a step under the GIL has to wait for something. `cursor` is
`guard.cursor.is_some()`. `Lock`, `Advance`, `Full`, `Finished`, `Failed` are the
closure that runs without the GIL; `Answered`, `Delivered`, `Unframed`,
`Undecoded` what the call does with the GIL back; `Release` the second lock of
`map_err`, taken with the GIL held. `entered` and `exited` are the two statics
and `Probe` loads them one after the other. Documents are numbers in the order of
the cursor.

**ScanSource.** `pc` is where the generator stands: `created` until Polars first
asks, `asking` in `__next__`, `framing` with a frame at hand, `yielded` while its
consumer works. `produced` is the variable of that name, `rows` what was yielded.

**SchemaPlan, Decoding, Encoding, Conversion.** A node of the plan is a record of type, nullability,
place and children. A place is the sequence of names that leads to a field, where
the code joins them with dots: the two agree unless a name is empty or has a dot.
`error` is the one that ended the batch: a place for a schema, place, declared
type and tag for a document (which is the last of `docs`, as its identity in the
code is its `_id` and row), place, type and row for a frame. A builder is a value
with validity, offsets and children, and `Push`, `PushNull` are `push_value`, `push_null` on it. A run of `Conversion`
compiles a schema, decodes documents field by field into builders, finishes
them, lets Polars and Arrow put other filler below null parents (`Refilled`), may
render a column of ids and parse it again (`ThroughHex`) and encodes the frame.

**ObjectIds.** A byte is two digits of `Radix`, which is 16 in the code. A text is
a sequence of characters; those that are digits are records of value and case.
`ObjectIdToHex` and the others are the four functions of `expressions.rs` on a
column, with optional values as sequences of at most one; `ToHex` and `FromHex` are
the functions of `objectid.rs` they call, the second by the way the `bson` crate
parses.

**FindRequest.** `filter` and `projection` are the caller's dictionaries, which
`Edit` changes, `frame` what the closure of `scan_mongo` keeps. `Faults` is the
first error of `dict_to_document` with its path, `PyToBson` its value. `Collect`
is `MongoBatchReader.new`: plan, filter, projection, client, find, in that order.

**Release.** `commits` is main; a commit is its place there, with the version in
`Cargo.toml`, whether the lock files agree (`synced`) and whether the workflow made
it (`bot`). `tags` and `releases` are GitHub's; a release maps to the commit its
wheels are of, or to 0 while they are being replaced. `event`, `pc`, `version`
and `source` are the run at work: `github.sha`, its step, `RELEASE_TAG` and the
HEAD of its checkout. `waiting` is the place the concurrency group has for one
more run, and `past` what the last attempt at each push left: how it ended, the
job from which it can be started again and the outputs it would then use.

`Fresh`, `Select`, `Recheck`, `Record`, `Eligible` are the steps of job
prepare-version that read main or write to it, `Build` the jobs for the wheels,
`Check`, `Publish`, `Upload` those of job release. The two comparisons with main
that job release makes one after the other are one, since only the second can
matter; that `gh release create` runs after it while main may move is kept.
`Fail` ends a run between any two steps and `Publish` may have worked though the
run fails. `Rerun` starts an ended run again, from the front or from the job that
failed. "Latest" is GitHub's: the release of the latest commit.
Drafts are invisible to the calls that ask for a release by its tag, so lines
102-106 and 484-486 are never reached, and a `gh release create` that stops half
way leaves nothing that later steps could see.

### What the models leave out

* Documents. Whether a frame encodes, a row is refused or a document converts is
  a free choice in the models of the write path and the reader. `Conversion` is
  the model of what the choice depends on.
* What the server sends may be malformed BSON: a lookup in it is a value with the
  tag `Malformed`, wherever one is looked up. The bytes are left out.
* Payload. Numbers stand for the contents of strings, bytes, ids and floats. The
  precision of floats and of decimals is not modelled. Integers of a filter keep
  their two widths, as `NarrowMax` and `WideMax`.
* Wording. An error is its class and what it says of rows or places.
* Of `expressions.rs`, the types of columns it accepts, and of `objectid.rs` the
  registration of the extension type and the series that only tests ask for.
* Of the release, how CI passes, how `release.py` rewrites the version files, and
  what the wheel jobs verify beyond version and lock file. Versions are a patch
  apart: only their order and their successor matter.
* `Conversion` takes frames that have the columns of the plan: casts from other
  column types (`encode.rs` calls Polars for them) are outside.
* `FindRequest` converts in one step. `bson.ObjectId.__str__` is Python code in
  which threads may switch; a dictionary changed there is listed as a hazard.
  Integer arguments beyond `i64` or `usize` are refused by PyO3 and left out.
* `Connection` has one reader per thread and counts it as a cursor, not what it
  reads; `BatchReader` has the rest.

## 3. The runs

Every passing run checks one type invariant. `PROJECT.json` gives a mutant of a
mapped definition for each property, which that property catches in the same run.

| Run | Shows | Bounds, and why they are enough |
|---|---|---|
| `write_path` | counters agree with the server between any two batches; counts, indices and windows are true when told and from then on; nothing is sent after the end; calls end; the contract is kept | an eager write of 3 rows by 2 (a full and a short batch, so that an offset matters) beside a sink of 2 rows in frames of any height, and one `close()`. A second offset or a third call brings no new case: calls share the connection only |
| `connection` | no use after shutdown, no state between open and closed is visible, closing is final, a close returns once readers let go | three threads: one that closes, one with a borrow or a clone, one with a cursor or a second `close()` |
| `close_never_refused`, `closed_stops_reads`, `close_returns` | violations, see below | as `connection` |
| `batch_reader` | a batch is a piece of the result that no other call has anything of, nothing lost without an error, the cursor is released, the probe is sound, calls return, the stream is implemented | three threads (in the driver, waiting for the mutex, with the GIL), three documents in batches of two: full, short and empty pulls; threads that pulled in turns would leave a gap in a batch of two |
| `failure_ends_scan` | a violation, see below | as `batch_reader` |
| `scan_source` | the first matches up to the limit, all of them, and no request beyond (of a limit of zero, no second one); a scan ends | five documents in batches of two, each of the 32 predicates and every limit from 0 to beyond the result: the limit falls inside a batch, on its end and past it, and any batch may be emptied |
| `conversion` | a schema is refused exactly if it declares something unsupported; columns are the documents row by row; nulls only where declared; what was read can be written and reads back; an error of any of the three steps names the place of a fault; bytes, text and time of ids agree | three documents, arrays of up to two items, structs and lists nested two deep with nulls, values of a wrong type and malformed BSON at each level, every leaf once, every kind of unsupported type at the top, in a list and in a struct; a dictionary of lists, whose place a dictionary does not lengthen; a schema without fields. Offsets and masks go wrong at the second row of the second level. Ids are in base two, where both nibbles, both cases and the order of bytes still differ |
| `find_request` | a find says what the dictionaries say at that moment; an integer has the width it needs; an error names the place of a fault | 27 filters and two projections: each leaf, both edges of both widths, a bad value and a bad key behind a good one, in a dictionary, a list and a tuple. Int32 reaches to 7 and Int64 to 127: only the comparisons matter |
| `find_rejects` | a violation, see below | two filters |
| `release` | what is published is sound and keeps the contract; a push whose run is under way is released unless it fails, is cancelled, is superseded or finds its version taken | two pushes, each with a bump at most, that leave the version, set it to 1 or 2, with the lock files or without. Reruns, withdrawals and failures are unlimited. Two pushes give an older and a newer event, an old tag, a stranded bump and a run taken up when main has moved; a third waits where the second did |

`WritePath`, `ScanSource` and `Conversion` really stop, so their runs do not check
deadlock. The others do.

### What the code does not keep

Each of these runs checks one sentence of a comment and TLC shows a run of the
program against it.

* `close_never_refused`: `close()` raises `RuntimeError` while another thread is
  in a find, a ping or a `close()` (`conn.rs:70`), though it is called idempotent
  (`conn.rs:69`) and the connection may be shared between threads
  (`README.md:136`).
* `closed_stops_reads`: a reader reads on after the connection has been closed
  (`read.rs:83`), though every driver call is said to go through `client()`
  (`conn.rs:26`). It takes an insert in flight at the time of the `close()`, or
  else the driver's shutdown would wait for the reader.
* `close_returns`: a `close()` waits in the driver's shutdown for a reader
  that its caller neither drains nor drops (`conn.rs:74`), though a partially
  consumed reader is said not to hold a cursor open (`read.rs:102-103`).
* `failure_ends_scan`: an error from building the frame leaves the cursor open
  (`read.rs:130`), though it is said to be dropped the moment a scan fails
  (`read.rs:42-44`).
* `find_rejects`: a text with an unpaired surrogate is sent with a replacement
  character (`filter.rs:52`), though what BSON cannot represent is said to be
  rejected (`filter.rs:3-4`).

Other things the models show and nothing promises, worth knowing all the same:

* Once a reader has failed, every call says that the scan is at its end
  (`read.rs:75`): of threads that share it, those that did not get the error cannot
  tell a truncated scan from a whole one. `NoSilentLoss` says that some caller got it.
* A row limit of zero costs one batch: the generator looks at the limit when it has
  a frame (`_read.py:137`).
* An error in a list names, as its row, the number of the item in that list
  (`encode.rs:331`); `EncodeErrorLocated` says so. The row of an encode error in a
  write is a row of the batch, not of the stream.
* A tag without a release, at an older commit, keeps its version from ever being
  published: the code says it is "selecting a new version if needed"
  (`publish.yml:91`), but selection looks at the latest release only. `Blocked`
  in `NewestReleased` is this case.
* A run that stops after it has pushed a version commit and before it has handed
  on its outputs cannot be taken up: main has moved past its event
  (`publish.yml:46`). The next push is released instead. `Stranded` is this case.
* A run started again takes the place of a newer push that waits in the queue, which
  is then released by nobody; `NewestReleased` excepts what the queue has cancelled.
* A release of which the upload failed (`publish.yml:487`) is published without
  the wheels `--clobber` has removed, and once main has moved no run repairs it.

### Fairness

Fairness is asked only of steps the runtime takes, never of callers or data.

* `WritePath`: weak fairness of a call's progress. A running thread goes on and
  `insert_many` returns, if need be with an error of the driver's own timeout.
  No row need ever be settled, no plan fail, nobody close the connection.
* `Connection`: weak fairness of the steps inside a call. The driver answers or
  gives up, and a GIL that was dropped is had again.
  `CloseReturnsIfReleased` states what is asked of the program as its premise;
  `CloseReturns` is the same without it, and fails.
* `BatchReader`: weak fairness of the pull, of the second lock and of the second
  load of a probe; strong fairness of taking back the GIL, which others may take
  and drop meanwhile: CPython makes its holder hand it over.
* `ScanSource`: weak fairness of the generator with its consumer, which asks
  for the next frame or drops the generator.
* `Release`: weak fairness of starting the run that waits and of the steps of the
  run at work. Nobody has to push, start a run again or let it fail, and the
  property allows for each of these.
* `Conversion` and `FindRequest` have no liveness properties and no fairness.

## 4. The proofs

TLAPS proves every property of the passing runs except the five about liveness:
for every set of threads or calls, every height, number of documents and batch
size, and for every schema, plan and value that nests finitely. The assumptions
are the ones the modules state about their constants.

* A batch size is positive; heights, numbers of documents, versions and pushes are
  natural numbers; `NoThread` is no thread, `NullByte` and `NoLimit` no number.
* Types, plan nodes and Python values have a depth, and their parts have less
  (`DtypesAssumption`, `NodesAssumption`, `NestingAssumption`).
* A schema's fields are made of such types and what it compiles to are nodes
  (`SchemasAssumption`); a document holds a BSON value where the plan looks for
  one (`ValuesAssumption`); filler is any payload
  (`FillerAssumption`).
* The children of a struct have different names (`NamesAssumption`). Only what is
  written needs it: of two fields of one name the encoder leaves the later one.

Each file about a module with state has one inductive invariant `IInv`, with a
lemma for the initial states, one for the steps (one case per action) and one
theorem per property.

* **WritePathProofs** – `TypeOK`, `Accounting`, `ResultTruthful`,
  `NothingSentAfterEnd`, and the refinement of `WriteContract`. `IInv` is
  `TypeOK /\ Accounting /\ Control`. `Accounting` is not inductive by itself, as
  it does not say that a call between two batches has no batch at hand, nor what a
  result was made from; `Control` adds both, and `ResultTruthful` follows from the
  three. The counts rest on two lemmas about cardinalities of intervals:
  `ShiftCount` (indices in a batch are as many as the rows they stand for) and
  `BatchCount` (a batch that is settled adds its height less its refusals).
* **ConnectionProofs** – `TypeOK`, `NoUseAfterShutdown`, `HalfClosedHidden`,
  `ClosedWhenDone`, `ClosingIsFinal`. `IInv` adds `Custody`: a clone is held
  exactly in a driver call, the exclusive borrow exactly in a `close()`, an
  untaken client means an open connection and a live driver, and a driver that
  is being shut down has no clone left. The last is why no cursor can appear
  after `try_unwrap` has succeeded.
* **BatchReaderProofs** – `TypeOK`, `ConsecutiveBatches`, `NoSilentLoss`,
  `CursorReleased`, `WindowSound`, and the refinement of `BatchStream`. `IInv` has
  named parts: `Locking` (the holder of the mutex is the thread in the
  driver), `Counting` (the counters differ by one exactly then), `Hands` (what is
  held or was given lies below the cursor), `Levels` (an unfinished pull is an
  interval that ends at the cursor), `Complete` and `Released`. `Levels` carries the
  refinement: it is why a pull under the mutex is one step from outside, and why a
  batch stays without gaps (`Unbroken`).
* **ScanSourceProofs** – `TypeOK`, `FirstMatches`, `CompleteAtReturn`,
  `LimitStopsReading`, for every predicate, limit, batch size and number of
  documents. None of them is inductive, since they speak of rows and not of how far
  the scan has gone. `IInv` says there are `j <= k`: the matches among the
  first `j` documents are accounted for, documents up to `k` have been handed to
  the generator (`Level`), the stream stands behind them (`Reading`), the rows are
  the first `produced` matches, and all of them while the limit is not reached
  (`Counting`), and a return means the limit or the end, while a limit of zero lets the generator ask
  only before the first frame (`Ending`). That a frame
  that is cut at the limit extends a prefix of the matches to a longer prefix
  rests on lemmas about ranks in a set of numbers (`HeadOfPieces`).
* **ReleaseProofs** – `TypeOK`, `ReleasesSound` and the refinement of
  `ReleaseContract`, for any number of pushes, failures and runs started again.
  A plan is a version with a commit that records it, above all releases of earlier
  commits (`Plan`). `IInv` says that every tag is a plan (`Tagged`), wheels are
  of the tagged commit (`Attached`), what an attempt left for the next is a plan
  (`Planned`), and so is what the run at work has prepared; behind the last
  comparison with main it is for the last commit that is tagged or planned for
  (`Working`). Main may have moved since, but only by commits without a tag.
* **Recursion** – `RecursiveFunction`: a recursive definition over a set with
  ranks, whose body asks only about lower ranks, has its defining equation.
  `FindRequestProofs` and `ConversionProofs` instantiate it for every recursive
  function of the models (the lemmas `...Unfold`); what such a function does
  everywhere then follows by induction along the depth, from a minimal
  counterexample.
* **FindRequestProofs** – `TypeOK`, `SentAsWritten`, `FaultLocated`. The state is
  shallow and the content is in the functions: `ConvertedSays` (a value without
  a fault converts to BSON that says the same), `ConvertedWellFormed`, and that the
  path of the first fault leads to something that has no BSON. An integer is in
  the narrow width exactly if it fits, at any depth.
* **ConversionProofs** – everything `Conversion` is checked for.
  - *Ids.* `HexRoundTrip`, `ValidIffParses`, `CaseIgnored`, `ColumnRoundTrip` for
    every base, id, text and column, and `TimestampFits` for base 16, that the
    product of seconds and scale stays below 2^62 and so does not overflow an
    `i64`. They rest on division: `DigitsOfByte` and `ByteOfDigits`.
    `IdsAgree` says them of the id columns of a frame.
  - *Decoding.* `IInv` is `Shape /\ ColumnsHold /\ RowsTaken`: the builder of
    every field has the right height at every level (`WellFormed`), and each row
    pushed so far is what its document says (`Row`) and has nulls where the plan
    allows them. `TypeOK`, `RowWise` and `NullsDeclared` follow from it. It has to
    say besides that no value pushed had a fault, since a push that fails leaves
    a builder half way. The step rests on `Grown`: pushing a value without a
    fault adds one row and keeps the others, at every level below; and filler
    changes only what no valid parent reaches (`KeptBut`).
  - *Encoding.* A mask that lets a row through which does not count would make the
    encoder refuse, or write, filler. `Sound` is what it needs of a column and is
    weaker than `WellFormed`, because a slice of a list column keeps all items.
    `AllSaid` relates the rows under the mask to the values they say, and
    passes from a column to its children. From it, what is refused is in one of the
    values (`FindsFault`, for `ReadIsWritable`) and what is written says them
    (`WritesBack`, for `WrittenReadsBack`).
  - *Places.* `SchemaDecides`: what `compile_dtype` rejects in a type, at whatever
    place, is the first declaration in it that has no BSON, and without one it
    compiles (`Decides`). `ErrorLocated` and `EncodeErrorLocated`: an error's
    place is a way into the schema at which the plan has the node that raised it
    (`PlansWithin`, from `Planned`: the plan is the compiled schema), and along
    which the document holds the value at fault (`HeldAt`). Below a list the row is
    that of an item, so the second says which row only when no list is on the way
    (`ListOnWay`).

Stating these for every instance corrected two properties that TLC had not
refuted: `SchemaDecides` spoke of declarations by their place, which two fields of
one name share, and `EncodeErrorLocated` looked for lists on the way of names,
where a dictionary of lists has none.

Only model-checked is liveness (`CallEnds`, `CloseReturnsIfReleased`,
`CallReturns`, `ScanEnds`, `NewestReleased`), which the prover cannot derive from
fairness, and the five violations, which are runs.

The refinement theorems are about the initial states and the steps; the
contracts have no fairness of their own.

## 5. What is left

* **A reader on a connection**: `BatchReader` and `Connection` are separate
  models. `Connection` counts a reader as a live cursor from the find until it is
  dropped or at its end, and `close()` waits for just that; a model of both would
  let a pull's steps interleave with those of `close()`, which read nothing of one
  another.
* **The stream of a write**: the row an encode error names counts from its batch.

### Not modelled

* Errors (`errors.rs`, `_errors.py`): construction of exceptions, without state.
* Module surface (`lib.rs`, `api.rs`, `__init__.py`, `_internal.pyi`):
  registration and test probes.
* The wording of errors, Polars and the MongoDB server beyond what the code
  relies on, and how release.py edits TOML files line by line.
