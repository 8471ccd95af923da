----------------------------- MODULE ScanSource -----------------------------
(***************************************************************************)
(* _source of scan_mongo (_read.py): the generator that Polars drives when *)
(* a frame over a scan is collected. It opens a MongoBatchReader, filters  *)
(* each frame, cuts the rows off at n_rows over all frames together, and   *)
(* stops early when it has them.                                           *)
(*                                                                         *)
(* The reader is the stream of BatchStream with one caller, which          *)
(* BatchReader is checked to implement.                                    *)
(***************************************************************************)
EXTENDS Naturals, FiniteSets

CONSTANTS Documents,  \* number of documents the find returns
          BatchSize,  \* batch_size of the scan
          NoLimit     \* n_rows is None

ASSUME DocumentsAssumption == Documents \in Nat
ASSUME BatchSizeAssumption == BatchSize \in Nat \ {0}
ASSUME NoLimitAssumption   == NoLimit \notin Nat

VARIABLES open, pos, hand, answer, got, told,  \* the reader
          matches,   \* documents that satisfy the predicate of the plan
          n_rows,    \* the row limit of the plan, or NoLimit
          pc,        \* where the generator is, or how it ended
          frame,     \* documents of the frame at hand
          produced,  \* rows counted so far
          rows       \* documents whose rows have been yielded

readerVars == <<open, pos, hand, answer, got, told>>
planVars   == <<matches, n_rows>>

vars == <<readerVars, planVars, pc, frame, produced, rows>>

Scan == "scan"

Reader == INSTANCE BatchStream WITH Callers <- {Scan}

(* A row limit beyond the result acts as none: Documents + 1 stands for    *)
(* all of these.                                                           *)
Init ==
    /\ Reader!Init
    /\ matches \in SUBSET (1 .. Documents)
    /\ n_rows \in (0 .. Documents + 1) \cup {NoLimit}
    /\ pc = "created"
    /\ frame = {}
    /\ produced = 0
    /\ rows = {}

(* The first n members of S: what head() leaves of a frame.                *)
Head(S, n) == {d \in S : Cardinality({e \in S : e <= d}) <= n}

----------------------------------------------------------------------------
(* The generator runs only from the first request on: nothing is read, nor *)
(* can the connection be found closed, before the frame is collected.      *)
OpenReader ==
    /\ pc = "created"
    /\ pc' \in {"looping", "raised"}
    /\ UNCHANGED <<readerVars, planVars, frame, produced, rows>>

Ask ==
    /\ pc = "looping"
    /\ Reader!Pull(Scan)
    /\ pc' = "asking"
    /\ UNCHANGED <<planVars, frame, produced, rows>>

\* Mutant of Hear: the end of the reader is taken for a batch without rows.
HearNoEnd ==
    /\ pc = "asking"
    /\ Reader!Respond(Scan)
    /\ frame' = got'[Scan] \ got[Scan]
    /\ pc' = CASE frame' # {} -> "framing"
               [] told' \subseteq {"batch", "stop"} /\ frame' = {} -> "looping"
               [] OTHER -> "raised"
    /\ UNCHANGED <<planVars, produced, rows>>

(* A frame, a StopIteration that ends the loop, or an error.               *)
Hear ==
    /\ pc = "asking"
    /\ Reader!Respond(Scan)
    /\ frame' = got'[Scan] \ got[Scan]
    /\ pc' = CASE frame' # {} -> "framing"
               [] told' \subseteq {"batch", "stop"} /\ frame' = {} -> "returned"
               [] OTHER -> "raised"
    /\ UNCHANGED <<planVars, produced, rows>>

----------------------------------------------------------------------------
Limited == n_rows # NoLimit

\* Mutant of Remaining: the limit holds for each batch by itself.
RemainingPerBatch == n_rows

Remaining == n_rows - produced

Filtered == frame \cap matches

LimitReached == Limited /\ n_rows <= produced

(* A frame when the limit is zero: nothing is yielded at all.              *)
Unwanted ==
    /\ pc = "framing"
    /\ LimitReached
    /\ pc' = "returned"
    /\ frame' = {}
    /\ UNCHANGED <<readerVars, planVars, produced, rows>>

Cut == IF Limited THEN Head(Filtered, Remaining) ELSE Filtered

\* Mutants of Yield: the rows are counted before they are cut; a frame that the
\* filter has emptied ends the scan.
YieldMiscounted ==
    /\ pc = "framing"
    /\ ~LimitReached
    /\ rows' = rows \cup Cut
    /\ produced' = produced + Cardinality(Filtered)
    /\ frame' = {}
    /\ pc' = "yielded"
    /\ UNCHANGED <<readerVars, planVars>>

YieldNoneEnds ==
    /\ pc = "framing"
    /\ ~LimitReached
    /\ rows' = rows \cup Cut
    /\ produced' = produced + Cardinality(Cut)
    /\ frame' = {}
    /\ pc' = IF Cut = {} THEN "returned" ELSE "yielded"
    /\ UNCHANGED <<readerVars, planVars>>

(* What is left of the frame is counted and yielded, were it no row.       *)
Yield ==
    /\ pc = "framing"
    /\ ~LimitReached
    /\ rows' = rows \cup Cut
    /\ produced' = produced + Cardinality(Cut)
    /\ frame' = {}
    /\ pc' = "yielded"
    /\ UNCHANGED <<readerVars, planVars>>

----------------------------------------------------------------------------
\* Mutant of Resume: the limit is looked at only when the next frame is there.
ResumeUnchecked ==
    /\ pc = "yielded"
    /\ pc' = "looping"
    /\ UNCHANGED <<readerVars, planVars, frame, produced, rows>>

(* Polars asks for the next frame.                                         *)
Resume ==
    /\ pc = "yielded"
    /\ pc' = IF LimitReached THEN "returned" ELSE "looping"
    /\ UNCHANGED <<readerVars, planVars, frame, produced, rows>>

(* Polars drops the generator, and with it the reader.                     *)
Drop ==
    /\ pc \in {"created", "yielded"}
    /\ pc' = "dropped"
    /\ UNCHANGED <<readerVars, planVars, frame, produced, rows>>

Next == OpenReader \/ Ask \/ Hear \/ Unwanted \/ Yield \/ Resume \/ Drop

(* Polars keeps asking for frames, or drops the generator.                 *)
Spec == Init /\ [][Next]_vars /\ WF_vars(Next)

----------------------------------------------------------------------------
Over == pc \in {"returned", "raised", "dropped"}

(* Types; produced counts the rows that have been yielded.                 *)
TypeOK ==
    /\ matches \subseteq 1 .. Documents
    /\ n_rows \in (0 .. Documents + 1) \cup {NoLimit}
    /\ pc \in {"created", "looping", "asking", "framing", "yielded",
               "returned", "raised", "dropped"}
    /\ frame \subseteq 1 .. Documents
    /\ rows \subseteq matches
    /\ produced = Cardinality(rows)

(* Whatever the batches, the rows yielded so far are the first ones that   *)
(* match, and no more of them than the limit.                              *)
FirstMatches ==
    /\ rows = Head(matches, produced)
    /\ Limited => produced <= n_rows

(* A scan that ends well has yielded every match, or as many as the limit  *)
(* allows: neither a frame without rows nor a limit that falls on the end  *)
(* of a batch ends it early.                                               *)
CompleteAtReturn ==
    pc = "returned" => rows = IF Limited THEN Head(matches, n_rows) ELSE matches

(* Once the limit is reached the server is not asked for another batch: of *)
(* a limit of zero, no more than the one that shows it.                    *)
LimitStopsReading ==
    [][LimitReached /\ got[Scan] # {} => UNCHANGED readerVars]_vars

(* A collect that goes on asking comes to an end.                          *)
ScanEnds == <>Over
============================================================================
