---------------------------- MODULE BatchStream ----------------------------
(***************************************************************************)
(* What a MongoBatchReader promises to the callers that share it: a call   *)
(* of __next__ takes its batch off the result of one find in one step, and *)
(* later tells its caller. No lock, no GIL and no cursor appear here.      *)
(***************************************************************************)
EXTENDS Naturals

CONSTANTS Callers,    \* threads that call __next__
          Documents,  \* number of documents the find returns
          BatchSize   \* batch_size of the reader

VARIABLES open,       \* the scan is neither finished nor failed
          pos,        \* documents taken off the result so far
          hand,       \* hand[c]: documents taken for c and not yet given to it
          answer,     \* answer[c]: what the call of c is going to say
          got,        \* got[c]: documents given to c
          told        \* every answer some caller has been given

vars == <<open, pos, hand, answer, got, told>>

Init ==
    /\ open = TRUE
    /\ pos = 0
    /\ hand = [c \in Callers |-> {}]
    /\ answer = [c \in Callers |-> "none"]
    /\ got = [c \in Callers |-> {}]
    /\ told = {}

(* One call takes the next n documents and will say a.                     *)
Take(c, n, D, a) ==
    /\ answer[c] = "none"
    /\ pos' = pos + n
    /\ hand' = [hand EXCEPT ![c] = D]
    /\ answer' = [answer EXCEPT ![c] = a]
    /\ UNCHANGED <<got, told>>

Following(n) == (pos + 1) .. (pos + n)

(* A whole batch is there: the end is not looked for.                      *)
Full(c) ==
    /\ open
    /\ pos + BatchSize <= Documents
    /\ Take(c, BatchSize, Following(BatchSize), "batch")
    /\ UNCHANGED open

(* The end is found: what is left is a short batch, or nothing and a stop. *)
Last(c) ==
    /\ open
    /\ Documents < pos + BatchSize
    /\ Take(c, Documents - pos, Following(Documents - pos),
            IF pos = Documents THEN "stop" ELSE "batch")
    /\ open' = FALSE

(* The cursor fails: what had been taken in this call is given up.         *)
Break(c) ==
    /\ open
    /\ \E n \in 0 .. BatchSize :
           pos + n <= Documents /\ Take(c, n, {}, "cursor_error")
    /\ open' = FALSE

Exhausted(c) ==
    /\ ~open
    /\ Take(c, 0, {}, "stop")
    /\ UNCHANGED open

Say(c, a, D) ==
    /\ answer[c] # "none"
    /\ answer' = [answer EXCEPT ![c] = "none"]
    /\ hand' = [hand EXCEPT ![c] = {}]
    /\ got' = [got EXCEPT ![c] = @ \cup D]
    /\ told' = told \cup {a}
    /\ UNCHANGED pos

Tell(c) == Say(c, answer[c], hand[c]) /\ UNCHANGED open

(* A batch that does not convert is given up: the scan is over.            *)
Unconverted(c) ==
    /\ answer[c] = "batch"
    /\ Say(c, "conversion_error", {})
    /\ open' = FALSE

(* A batch that converts but makes no frame is given up: the scan goes on. *)
Unframed(c) ==
    /\ answer[c] = "batch"
    /\ Say(c, "schema_error", {})
    /\ UNCHANGED open

Pull(c)    == Full(c) \/ Last(c) \/ Break(c) \/ Exhausted(c)
Respond(c) == Tell(c) \/ Unconverted(c) \/ Unframed(c)

Next == \E c \in Callers : Pull(c) \/ Respond(c)

Spec == Init /\ [][Next]_vars
============================================================================
