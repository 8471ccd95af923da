--------------------------- MODULE WriteContract ---------------------------
(***************************************************************************)
(* What one call of write_mongo or sink_mongo promises its caller about    *)
(* the rows of its stream, with no batches, no connection and no driver:   *)
(* every row is either stored or refused by the server at most once, and   *)
(* the way the call ends says which rows are which.                        *)
(***************************************************************************)
EXTENDS Naturals, FiniteSets

CONSTANTS Writers,   \* calls of write_mongo and sink_mongo in progress
          Height     \* Height[w] is the number of rows of the stream of w

VARIABLES stored,    \* stored[w]: ordinals of the rows the server has stored
          refused,   \* refused[w]: ordinals of the rows it has refused
          result     \* result[w]: Running, or how the call ended

vars == <<stored, refused, result>>

Rows(w) == 0 .. (Height[w] - 1)

Settled(w) == stored[w] \cup refused[w]

Running        == [kind |-> "running"]
Returned(n)    == [kind |-> "returned", count |-> n]
WriteError(F)  == [kind |-> "write_error", failures |-> F]
BatchError(lo, hi) == [kind |-> "batch_error", row_start |-> lo, row_stop |-> hi]

(***************************************************************************)
(* The ways a call ends between two batches: a frame that does not encode, *)
(* a closed connection, a connection borrowed by close(), a failure of the *)
(* lazy plan that feeds the sink.                                          *)
(***************************************************************************)
Interruptions == { [kind |-> k] : k \in {"conversion_error", "closed_error",
                                         "borrow_panic", "engine_error"} }

Init ==
    /\ stored  = [w \in Writers |-> {}]
    /\ refused = [w \in Writers |-> {}]
    /\ result  = [w \in Writers |-> Running]

(* The rows whose fate the server may still decide: all of them while the  *)
(* call runs, and those of the window of a batch error after it.           *)
Undecided(w) ==
    IF result[w] = Running THEN Rows(w) \ Settled(w)
    ELSE IF result[w].kind = "batch_error"
         THEN (result[w].row_start .. (result[w].row_stop - 1)) \ Settled(w)
         ELSE {}

Store(w) ==
    /\ \E r \in Undecided(w) : stored' = [stored EXCEPT ![w] = @ \cup {r}]
    /\ UNCHANGED <<refused, result>>

Refuse(w) ==
    /\ \E r \in Undecided(w) : refused' = [refused EXCEPT ![w] = @ \cup {r}]
    /\ UNCHANGED <<stored, result>>

End(w, r) ==
    /\ result[w] = Running
    /\ result' = [result EXCEPT ![w] = r]
    /\ UNCHANGED <<stored, refused>>

(* A returned count is the whole stream, and the whole stream is stored.   *)
Succeed(w) ==
    /\ stored[w] = Rows(w)
    /\ refused[w] = {}
    /\ End(w, Returned(Height[w]))

(* A write error names the refused rows; every other row is stored.        *)
ReportFailures(w) ==
    /\ refused[w] # {}
    /\ Settled(w) = Rows(w)
    /\ End(w, WriteError(refused[w]))

(* A batch error leaves no doubt outside its window: the rows before it    *)
(* are settled and the rows after it were never sent.                      *)
FailBatch(w) ==
    \E lo, hi \in 0 .. Height[w] :
        /\ lo < hi
        /\ 0 .. (lo - 1) \subseteq Settled(w)
        /\ Settled(w) \subseteq 0 .. (hi - 1)
        /\ End(w, BatchError(lo, hi))

(* Any other error falls between two batches: a prefix is settled.         *)
Interrupt(w) ==
    /\ \E n \in 0 .. Height[w] : Settled(w) = 0 .. (n - 1)
    /\ \E e \in Interruptions : End(w, e)

Next == \E w \in Writers :
    \/ Store(w) \/ Refuse(w)
    \/ Succeed(w) \/ ReportFailures(w) \/ FailBatch(w) \/ Interrupt(w)

Spec == Init /\ [][Next]_vars
============================================================================
