---------------------------- MODULE BatchReader ----------------------------
(***************************************************************************)
(* MongoBatchReader.__next__ (read.rs), called by several Python threads   *)
(* that share one reader.                                                  *)
(*                                                                         *)
(* A call drops the GIL, locks the mutex around the cursor, pulls up to    *)
(* BatchSize documents, unlocks, takes the GIL again and converts what it  *)
(* has. A conversion that fails locks the mutex once more, this time with  *)
(* the GIL held, to close the cursor. Two counters bracket the pull, for a *)
(* probe that wants to know whether a reader is inside the driver.         *)
(***************************************************************************)
EXTENDS Integers, FiniteSets

CONSTANTS Threads,    \* Python threads that share the reader
          NoThread,   \* nobody holds the lock
          Documents,  \* number of documents the find returns
          BatchSize   \* batch_size of the reader

ASSUME NoThreadAssumption  == NoThread \notin Threads
ASSUME DocumentsAssumption == Documents \in Nat
ASSUME BatchSizeAssumption == BatchSize \in Nat \ {0}

VARIABLES gil,      \* the thread that holds the GIL across steps
          mutex,    \* the thread that holds the cursor mutex
          cursor,   \* guard.cursor is Some
          taken,    \* documents the cursor has advanced over
          distinct, \* the column names of the schema are distinct
          pc,       \* pc[t]: where t is in its call
          docs,     \* docs[t]: the documents the call of t has in hand
          pulled,   \* pulled[t]: what the detached part of the call returned
          got,      \* got[t]: documents of the frames t was given
          told,     \* every way a call has ended so far
          entered,  \* DETACH_ENTERED
          exited,   \* DETACH_EXITED
          seen,     \* what a probe in progress loaded first
          inside    \* what the last probe concluded

readerVars == <<mutex, cursor, taken, docs, pulled>>
callerVars == <<got, told>>
countVars  == <<entered, exited>>
probeVars  == <<seen, inside>>

vars == <<gil, distinct, pc, readerVars, callerVars, countVars, probeVars>>

Init ==
    /\ gil = NoThread
    /\ mutex = NoThread
    /\ cursor = TRUE
    /\ taken = 0
    /\ distinct \in BOOLEAN
    /\ pc = [t \in Threads |-> "idle"]
    /\ docs = [t \in Threads |-> {}]
    /\ pulled = [t \in Threads |-> "none"]
    /\ got = [t \in Threads |-> {}]
    /\ told = {}
    /\ entered = 0
    /\ exited = 0
    /\ seen = 0
    /\ inside = FALSE

Goto(t, label) == pc' = [pc EXCEPT ![t] = label]

----------------------------------------------------------------------------
(* The call starts under the GIL and drops it.                             *)
Call(t) ==
    /\ pc[t] = "idle"
    /\ gil = NoThread
    /\ Goto(t, "locking")
    /\ UNCHANGED <<gil, distinct, readerVars, callerVars, countVars, probeVars>>

\* Mutant of Lock: the cursor is used without the mutex.
LockUnguarded(t) ==
    /\ pc[t] = "locking"
    /\ cursor
    /\ mutex' = t
    /\ entered' = entered + 1
    /\ Goto(t, "pulling")
    /\ UNCHANGED <<gil, distinct, cursor, taken, docs, pulled, callerVars, exited, probeVars>>

Lock(t) ==
    /\ pc[t] = "locking"
    /\ mutex = NoThread
    /\ cursor
    /\ mutex' = t
    /\ entered' = entered + 1
    /\ Goto(t, "pulling")
    /\ UNCHANGED <<gil, distinct, cursor, taken, docs, pulled, callerVars, exited, probeVars>>

(* The cursor is gone: no documents, which the caller sees as the end.     *)
LockEnded(t) ==
    /\ pc[t] = "locking"
    /\ mutex = NoThread
    /\ ~cursor
    /\ pulled' = [pulled EXCEPT ![t] = "stop"]
    /\ Goto(t, "reattaching")
    /\ UNCHANGED <<gil, distinct, mutex, cursor, taken, docs, callerVars, countVars, probeVars>>

----------------------------------------------------------------------------
\* Mutant of Advance: the loop runs while len <= batch_size.
AdvanceBeyond(t) ==
    /\ pc[t] = "pulling"
    /\ Cardinality(docs[t]) <= BatchSize
    /\ taken < Documents
    /\ taken' = taken + 1
    /\ docs' = [docs EXCEPT ![t] = @ \cup {taken + 1}]
    /\ UNCHANGED <<gil, distinct, pc, mutex, cursor, pulled, callerVars, countVars, probeVars>>

(* One turn of the loop.                                                   *)
Advance(t) ==
    /\ pc[t] = "pulling"
    /\ Cardinality(docs[t]) < BatchSize
    /\ taken < Documents
    /\ taken' = taken + 1
    /\ docs' = [docs EXCEPT ![t] = @ \cup {taken + 1}]
    /\ UNCHANGED <<gil, distinct, pc, mutex, cursor, pulled, callerVars, countVars, probeVars>>

\* Mutant of Unlock: the guard outlives the closure.
GuardKept == UNCHANGED mutex

Unlock == mutex' = NoThread

(* The loop is left: the guard is dropped with the closure.                *)
EndPull(t, answer) ==
    /\ exited' = exited + 1
    /\ Unlock
    /\ pulled' = [pulled EXCEPT ![t] = answer]
    /\ Goto(t, "reattaching")
    /\ UNCHANGED <<gil, distinct, callerVars, entered, probeVars>>

\* Mutant of Full: a full batch counts as the end of the scan.
FullEnds(t) ==
    /\ pc[t] = "pulling"
    /\ Cardinality(docs[t]) = BatchSize
    /\ EndPull(t, "batch")
    /\ cursor' = FALSE
    /\ UNCHANGED <<taken, docs>>

(* The batch is full. Whether the cursor has more is not asked.            *)
Full(t) ==
    /\ pc[t] = "pulling"
    /\ Cardinality(docs[t]) = BatchSize
    /\ EndPull(t, "batch")
    /\ UNCHANGED <<cursor, taken, docs>>

(* advance() says that there is no more.                                   *)
Finished(t) ==
    /\ pc[t] = "pulling"
    /\ Cardinality(docs[t]) < BatchSize
    /\ taken = Documents
    /\ EndPull(t, IF docs[t] = {} THEN "stop" ELSE "batch")
    /\ cursor' = FALSE
    /\ UNCHANGED <<taken, docs>>

(* advance() fails, or deserialize_current() after it: the documents       *)
(* pulled so far go with the error.                                        *)
Failed(t) ==
    /\ pc[t] = "pulling"
    /\ Cardinality(docs[t]) < BatchSize
    /\ \E n \in {0, 1} : taken + n <= Documents /\ taken' = taken + n
    /\ EndPull(t, "cursor_error")
    /\ cursor' = FALSE
    /\ docs' = [docs EXCEPT ![t] = {}]

----------------------------------------------------------------------------
(* With the GIL back, the call ends: in a StopIteration or in the error of *)
(* the cursor, in a frame, in a frame that cannot be built, or in a        *)
(* document that does not convert.                                         *)
Conclude(t, outcome) ==
    /\ told' = told \cup {outcome}
    /\ pulled' = [pulled EXCEPT ![t] = "none"]
    /\ docs' = [docs EXCEPT ![t] = {}]
    /\ Goto(t, "idle")

Answered(t) ==
    /\ pc[t] = "reattaching"
    /\ gil = NoThread
    /\ pulled[t] \in {"stop", "cursor_error"}
    /\ Conclude(t, pulled[t])
    /\ UNCHANGED <<gil, distinct, mutex, cursor, taken, got, countVars, probeVars>>

Delivered(t) ==
    /\ pc[t] = "reattaching"
    /\ gil = NoThread
    /\ pulled[t] = "batch"
    /\ distinct
    /\ got' = [got EXCEPT ![t] = @ \cup docs[t]]
    /\ Conclude(t, "batch")
    /\ UNCHANGED <<gil, distinct, mutex, cursor, taken, countVars, probeVars>>

(* DataFrame::new refuses two columns of one name. The cursor stays.       *)
Unframed(t) ==
    /\ pc[t] = "reattaching"
    /\ gil = NoThread
    /\ pulled[t] = "batch"
    /\ ~distinct
    /\ Conclude(t, "schema_error")
    /\ UNCHANGED <<gil, distinct, mutex, cursor, taken, got, countVars, probeVars>>

(* decode_documents fails: the GIL is kept while the mutex is asked for.   *)
Undecoded(t) ==
    /\ pc[t] = "reattaching"
    /\ gil = NoThread
    /\ pulled[t] = "batch"
    /\ gil' = t
    /\ Goto(t, "releasing")
    /\ UNCHANGED <<distinct, readerVars, callerVars, countVars, probeVars>>

\* Mutant of Release: the cursor is left to whoever drops the reader.
ReleaseNothing(t) ==
    /\ pc[t] = "releasing"
    /\ mutex = NoThread
    /\ gil' = NoThread
    /\ Conclude(t, "conversion_error")
    /\ UNCHANGED <<distinct, mutex, cursor, taken, got, countVars, probeVars>>

Release(t) ==
    /\ pc[t] = "releasing"
    /\ mutex = NoThread
    /\ cursor' = FALSE
    /\ gil' = NoThread
    /\ Conclude(t, "conversion_error")
    /\ UNCHANGED <<distinct, mutex, taken, got, countVars, probeVars>>

Reattach(t) == Answered(t) \/ Delivered(t) \/ Unframed(t) \/ Undecoded(t)

----------------------------------------------------------------------------
(* detach_counters(): two loads, under the GIL, of counters that move      *)
(* without it.                                                             *)
ProbeStep(t, first, verdict) ==
    \/ /\ pc[t] = "idle"
       /\ gil = NoThread
       /\ gil' = t
       /\ seen' = first
       /\ inside' = FALSE
       /\ Goto(t, "probing")
    \/ /\ pc[t] = "probing"
       /\ gil' = NoThread
       /\ inside' = verdict
       /\ seen' = 0
       /\ Goto(t, "idle")

\* Mutant of Probe: the loads are swapped.
ProbeSwapped(t) ==
    /\ ProbeStep(t, exited, entered > seen)
    /\ UNCHANGED <<distinct, readerVars, callerVars, countVars>>

Probe(t) ==
    /\ ProbeStep(t, entered, seen > exited)
    /\ UNCHANGED <<distinct, readerVars, callerVars, countVars>>

----------------------------------------------------------------------------
Pulling(t) == Lock(t) \/ LockEnded(t) \/ Advance(t) \/ Full(t) \/ Finished(t) \/ Failed(t)

Next ==
    \E t \in Threads :
        Call(t) \/ Pulling(t) \/ Reattach(t) \/ Release(t) \/ Probe(t)

(* The driver answers each request, the mutex is given to a thread that    *)
(* waits while it is free, and a thread that waits for the GIL is served   *)
(* in spite of others that come and go: CPython makes the holder of the    *)
(* GIL hand it over.                                                       *)
Fairness ==
    \A t \in Threads :
        /\ WF_vars(Pulling(t))
        /\ SF_vars(Reattach(t))
        /\ WF_vars(Release(t))
        /\ WF_vars(Probe(t) /\ pc[t] = "probing")

Spec == Init /\ [][Next]_vars /\ Fairness

----------------------------------------------------------------------------
(* Types; no call holds more than one batch.                               *)
TypeOK ==
    /\ gil \in Threads \cup {NoThread}
    /\ mutex \in Threads \cup {NoThread}
    /\ cursor \in BOOLEAN
    /\ taken \in 0 .. Documents
    /\ distinct \in BOOLEAN
    /\ pc \in [Threads -> {"idle", "locking", "pulling", "reattaching", "releasing", "probing"}]
    /\ docs \in [Threads -> SUBSET (1 .. Documents)]
    /\ \A t \in Threads : Cardinality(docs[t]) <= BatchSize
    /\ pulled \in [Threads -> {"none", "batch", "stop", "cursor_error"}]
    /\ got \in [Threads -> SUBSET (1 .. Documents)]
    /\ told \subseteq {"batch", "stop", "cursor_error", "conversion_error", "schema_error"}
    /\ entered \in Nat
    /\ exited \in Nat
    /\ seen \in Nat
    /\ inside \in BOOLEAN

(* No document is with two callers, or with one caller twice, and each     *)
(* caller is given documents in the order of the cursor.                   *)
Apart ==
    \A t, u \in Threads :
        /\ t # u => got[t] \cap got[u] = {} /\ docs[t] \cap docs[u] = {}
        /\ docs[t] \cap got[u] = {}
        /\ \A d \in got[t], e \in docs[t] : d < e

(* A call has nobody else's documents between its own.                     *)
Unbroken == \A t \in Threads : \A d, e \in docs[t] : d .. e \subseteq docs[t]

(* However calls interleave, each takes a piece of the cursor's documents  *)
(* that no other call takes anything of. (The mutex of next_batch.)        *)
ConsecutiveBatches == Apart /\ Unbroken

(* An error that has been raised, or that a call under way will raise.     *)
ErrorOut ==
    \/ told \cap {"cursor_error", "conversion_error", "schema_error"} # {}
    \/ \E t \in Threads : pulled[t] = "cursor_error" \/ pc[t] = "releasing"

Accounted == UNION {docs[t] \cup got[t] : t \in Threads}

(* Unless some caller gets an error, no document the cursor has passed is  *)
(* ever missing, and a StopIteration means that the cursor is at its end.  *)
(* (A reader that has failed says nothing but StopIteration from then on,  *)
(* so the callers that do not see the error cannot tell.)                  *)
NoSilentLoss ==
    ~ErrorOut =>
        /\ Accounted = 1 .. taken
        /\ "stop" \in told => taken = Documents

(* A caller that has seen the end of the scan, or an error of the cursor   *)
(* or of a conversion, leaves no cursor open on the server.                *)
CursorReleased ==
    told \cap {"stop", "cursor_error", "conversion_error"} # {} => ~cursor

(* A probe that finds entered > exited was made while some thread was      *)
(* inside the driver. (The order of the two loads in detach_counters.)     *)
WindowSound ==
    [][\A t \in Threads :
           pc[t] = "probing" /\ pc'[t] = "idle" /\ inside' => \E u \in Threads : pc[u] = "pulling"]_vars

(* A call returns: the GIL and the mutex never wait for one another.       *)
InCall(t) == pc[t] \in {"locking", "pulling", "reattaching", "releasing"}

CallReturns == \A t \in Threads : InCall(t) ~> ~InCall(t)

(* The mutex makes the pull of a batch one step: with the documents of an  *)
(* unfinished pull still counted as not taken, the reader is the stream of *)
(* BatchStream.                                                            *)
Committed == IF mutex = NoThread THEN taken ELSE taken - Cardinality(docs[mutex])

InHand == [t \in Threads |-> IF pc[t] = "pulling" THEN {} ELSE docs[t]]

Contract == INSTANCE BatchStream
    WITH Callers <- Threads, open <- cursor, pos <- Committed, hand <- InHand, answer <- pulled

ImplementsStream == Contract!Spec

----------------------------------------------------------------------------
(* read.rs:42-44 says that the cursor is None once the scan is finished or *)
(* has failed: so no error should be raised and the cursor kept.           *)
FailureEndsScan ==
    told \cap {"cursor_error", "conversion_error", "schema_error"} # {} => ~cursor
============================================================================
