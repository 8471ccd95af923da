----------------------------- MODULE Connection -----------------------------
(***************************************************************************)
(* One MongoConnection (conn.rs) shared by several Python threads that     *)
(* open readers, insert batches, ping the server and close it.             *)
(*                                                                         *)
(* Three mechanisms meet here. PyO3 guards the object like a RefCell: a    *)
(* method with &self, or an argument of type PyRef, borrows it shared for  *)
(* as long as the call lasts, one with &mut self exclusively, and a borrow *)
(* that cannot be had raises RuntimeError (Bound::borrow panics instead).  *)
(* The driver's client is counted: client() hands out clones of the Arc,   *)
(* and close() shuts the driver down only when its own is the last one.    *)
(* The driver's shutdown waits for every cursor that is still alive. The   *)
(* GIL is released around each driver call, so other threads run there.    *)
(***************************************************************************)
CONSTANTS Threads,   \* Python threads that share the connection
          NoThread   \* no thread holds the exclusive borrow

ASSUME NoThreadAssumption == NoThread \notin Threads

VARIABLES client,     \* self.client is Some
          closed,     \* self.closed
          shared,     \* threads that hold a shared borrow across a driver call
          exclusive,  \* the thread that holds the exclusive borrow
          clones,     \* threads that hold a clone of the Arc<Client>
          driver,     \* "live", "stopping" (in shutdown), "stopped"
          pc,         \* pc[t]: "idle", or where in a detached call t is
          reader,     \* reader[t]: "none", "live" (open cursor) or "ended"
          outcome     \* outcome[t]: how the last call of t ended

vars == <<client, closed, shared, exclusive, clones, driver, pc, reader, outcome>>

connVars == <<client, closed>>

Init ==
    /\ client = TRUE
    /\ closed = FALSE
    /\ shared = {}
    /\ exclusive = NoThread
    /\ clones = {}
    /\ driver = "live"
    /\ pc = [t \in Threads |-> "idle"]
    /\ reader = [t \in Threads |-> "none"]
    /\ outcome = [t \in Threads |-> "none"]

\* Mutant of OpenCursors: a reader at its end keeps its cursor until dropped.
UndroppedReaders == {t \in Threads : reader[t] # "none"}

(* The cursors the driver knows: those of readers that are neither at      *)
(* their end nor dropped.                                                  *)
OpenCursors == {t \in Threads : reader[t] = "live"}

Goto(t, label) == pc' = [pc EXCEPT ![t] = label]
Report(t, o)   == outcome' = [outcome EXCEPT ![t] = o]

\* Mutant of Available: the caller has kept a client of its own.
Retained == TRUE

\* client(): both of its failing arms raise MongoConnectionClosedError.
Available == ~closed /\ client

----------------------------------------------------------------------------
(* Calls that use the client: MongoBatchReader::new ("find"), insert_batch *)
(* ("insert") and _test_ping ("ping"). All three run under the GIL up to   *)
(* the detached driver call. find and ping hold their shared borrow during *)
(* that call; insert_batch borrows for one statement only.                 *)
HoldsBorrow(kind) == kind \in {"find", "ping"}

\* What a borrow that cannot be had turns into.
BorrowFailure(kind) == IF HoldsBorrow(kind) THEN "runtime_error" ELSE "panic"

Refused(t, kind) ==
    /\ pc[t] = "idle"
    /\ \/ exclusive # NoThread /\ Report(t, BorrowFailure(kind))
       \/ exclusive = NoThread /\ ~Available /\ Report(t, "closed_error")
    /\ UNCHANGED <<connVars, shared, exclusive, clones, driver, pc, reader>>

Start(t, kind) ==
    /\ pc[t] = "idle"
    /\ kind = "find" => reader[t] = "none"
    /\ exclusive = NoThread
    /\ Available
    /\ Goto(t, kind)
    /\ clones' = clones \cup {t}
    /\ shared' = IF HoldsBorrow(kind) THEN shared \cup {t} ELSE shared
    /\ UNCHANGED <<connVars, exclusive, driver, reader, outcome>>

(* The driver call returns; its closure drops the clone, the call its      *)
(* borrow. A find that succeeded leaves a cursor and no clone.             *)
Return(t) ==
    /\ pc[t] \in {"find", "insert", "ping"}
    /\ clones' = clones \ {t}
    /\ shared' = shared \ {t}
    /\ Goto(t, "idle")
    /\ \/ Report(t, "driver_error") /\ UNCHANGED reader
       \/ /\ Report(t, "ok")
          /\ reader' = IF pc[t] = "find" THEN [reader EXCEPT ![t] = "live"] ELSE reader
    /\ UNCHANGED <<connVars, exclusive, driver>>

----------------------------------------------------------------------------
(* A reader works on its cursor alone: __next__ asks neither the           *)
(* connection nor client(). The batch that finds the end, or fails,        *)
(* releases the cursor; so does dropping the reader.                       *)
NextBatch(t) ==
    /\ pc[t] = "idle"
    /\ reader[t] = "live"
    /\ \E left \in {"live", "ended"} : reader' = [reader EXCEPT ![t] = left]
    /\ Report(t, "ok")
    /\ UNCHANGED <<connVars, shared, exclusive, clones, driver, pc>>

DropReader(t) ==
    /\ pc[t] = "idle"
    /\ reader[t] # "none"
    /\ reader' = [reader EXCEPT ![t] = "none"]
    /\ UNCHANGED <<connVars, shared, exclusive, clones, driver, pc, outcome>>

----------------------------------------------------------------------------
(* close(), and __exit__, which is close(): the exclusive borrow comes     *)
(* first and fails under any other borrow.                                 *)
CloseRefused(t) ==
    /\ pc[t] = "idle"
    /\ exclusive # NoThread \/ shared # {}
    /\ Report(t, "close_refused")
    /\ UNCHANGED <<connVars, shared, exclusive, clones, driver, pc, reader>>

\* Mutants of CloseBegin: the borrow is not exclusive; it is not kept for the
\* detached part.
CloseBeginShared(t) ==
    /\ pc[t] = "idle"
    /\ exclusive = NoThread
    /\ client
    /\ client' = FALSE
    /\ exclusive' = t
    /\ Goto(t, "unwrap")
    /\ UNCHANGED <<closed, shared, clones, driver, reader, outcome>>

CloseBeginUnguarded(t) ==
    /\ pc[t] = "idle"
    /\ exclusive = NoThread /\ shared = {}
    /\ client
    /\ client' = FALSE
    /\ Goto(t, "unwrap")
    /\ UNCHANGED <<closed, shared, exclusive, clones, driver, reader, outcome>>

(* The client is taken and the GIL released.                               *)
CloseBegin(t) ==
    /\ pc[t] = "idle"
    /\ exclusive = NoThread /\ shared = {}
    /\ client
    /\ client' = FALSE
    /\ exclusive' = t
    /\ Goto(t, "unwrap")
    /\ UNCHANGED <<closed, shared, clones, driver, reader, outcome>>

(* The client is gone already: only the flag is written.                   *)
CloseAgain(t) ==
    /\ pc[t] = "idle"
    /\ exclusive = NoThread /\ shared = {}
    /\ ~client
    /\ closed' = TRUE
    /\ Report(t, "close_ok")
    /\ UNCHANGED <<client, shared, exclusive, clones, driver, pc, reader>>

\* Mutant of Unwrap: the driver is shut down whoever else holds a clone.
UnwrapAlways(t) ==
    /\ pc[t] = "unwrap"
    /\ Goto(t, "shutdown") /\ driver' = "stopping"
    /\ UNCHANGED <<connVars, shared, exclusive, clones, reader, outcome>>

(* Arc::try_unwrap: the driver is shut down by the last holder of the      *)
(* client or by nobody.                                                    *)
Unwrap(t) ==
    /\ pc[t] = "unwrap"
    /\ IF clones = {}
       THEN Goto(t, "shutdown") /\ driver' = "stopping"
       ELSE Goto(t, "closing") /\ UNCHANGED driver
    /\ UNCHANGED <<connVars, shared, exclusive, clones, reader, outcome>>

(* The driver's shutdown ends once no cursor of the client is alive.       *)
Shutdown(t) ==
    /\ pc[t] = "shutdown"
    /\ OpenCursors = {}
    /\ driver' = "stopped"
    /\ Goto(t, "closing")
    /\ UNCHANGED <<connVars, shared, exclusive, clones, reader, outcome>>

\* Mutant of CloseEnd: the flag is forgotten.
CloseEndUnflagged(t) ==
    /\ pc[t] = "closing"
    /\ exclusive' = NoThread
    /\ Goto(t, "idle")
    /\ Report(t, "close_ok")
    /\ UNCHANGED <<connVars, shared, clones, driver, reader>>

CloseEnd(t) ==
    /\ pc[t] = "closing"
    /\ closed' = TRUE
    /\ exclusive' = NoThread
    /\ Goto(t, "idle")
    /\ Report(t, "close_ok")
    /\ UNCHANGED <<client, shared, clones, driver, reader>>

----------------------------------------------------------------------------
InCall(t) == Return(t) \/ Unwrap(t) \/ Shutdown(t) \/ CloseEnd(t)

Next ==
    \E t \in Threads :
        \/ \E kind \in {"find", "insert", "ping"} : Refused(t, kind) \/ Start(t, kind)
        \/ NextBatch(t) \/ DropReader(t)
        \/ CloseRefused(t) \/ CloseBegin(t) \/ CloseAgain(t)
        \/ InCall(t)

(* A call that has started goes on when it can: the driver answers or      *)
(* gives up, and a released GIL is had again. What a thread calls, and     *)
(* whether it drains or drops its reader, is up to the program.            *)
Fairness == \A t \in Threads : WF_vars(InCall(t))

Spec == Init /\ [][Next]_vars /\ Fairness

----------------------------------------------------------------------------
(* Types, and what the borrow checker of PyO3 guarantees by itself.        *)
TypeOK ==
    /\ client \in BOOLEAN
    /\ closed \in BOOLEAN
    /\ shared \subseteq Threads
    /\ exclusive \in Threads \cup {NoThread}
    /\ clones \subseteq Threads
    /\ driver \in {"live", "stopping", "stopped"}
    /\ pc \in [Threads -> {"idle", "find", "insert", "ping", "unwrap", "shutdown", "closing"}]
    /\ reader \in [Threads -> {"none", "live", "ended"}]
    /\ outcome \in [Threads -> {"none", "ok", "driver_error", "closed_error", "runtime_error",
                                "panic", "close_refused", "close_ok"}]
    /\ exclusive # NoThread => shared = {}

(* The driver is never shut down under an operation that still uses the    *)
(* client, and a driver that has stopped has no cursor left. (try_unwrap   *)
(* in close(), the clones of client(), the borrow held by find.)           *)
NoUseAfterShutdown ==
    /\ driver # "live" => \A t \in Threads : pc[t] \notin {"find", "insert", "ping"}
    /\ driver = "stopped" => \A t \in Threads : reader[t] # "live"

(* Nobody can look at a connection that is half closed, its client taken   *)
(* and its flag not yet set: the None arm of client() is never reached.    *)
HalfClosedHidden == ~client /\ ~closed => exclusive # NoThread

(* close() lets the work in flight finish and keeps new work out: once the *)
(* client is taken no thread gets hold of it again, and the flag, once     *)
(* set, stays.                                                             *)
ClosingIsFinal ==
    [][/\ ~client => ~client' /\ clones' \subseteq clones
       /\ closed => closed']_vars

(* A successful close() leaves the connection closed.                      *)
ClosedWhenDone == (\E t \in Threads : outcome[t] = "close_ok") => closed

(* A close() that has begun returns, provided no reader keeps its cursor   *)
(* for ever.                                                               *)
Closing(t) == pc[t] \in {"unwrap", "shutdown", "closing"}

ReadersLetGo == []<>(\A t \in Threads : reader[t] # "live")

CloseReturnsIfReleased == ReadersLetGo => \A t \in Threads : Closing(t) ~> ~Closing(t)

----------------------------------------------------------------------------
(* What the comments and the README say, and the code does not keep.       *)

(* conn.rs:69 calls close() idempotent and README.md:136 lets threads      *)
(* share the connection: so no call of close() should be refused.          *)
CloseNeverRefused == \A t \in Threads : outcome[t] # "close_refused"

(* conn.rs:26: every driver call goes through client(), so that "closed"   *)
(* is enforced in one place: so no cursor should advance once closed.      *)
ClosedStopsReads == [][\A t \in Threads : closed => ~NextBatch(t)]_vars

(* read.rs:102 says that a partially consumed reader cannot hold a cursor  *)
(* open: so nothing should keep close() from returning.                    *)
CloseReturns == \A t \in Threads : Closing(t) ~> ~Closing(t)
============================================================================
