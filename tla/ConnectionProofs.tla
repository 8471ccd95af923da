-------------------------- MODULE ConnectionProofs --------------------------
(***************************************************************************)
(* Proofs about Connection, for any set of threads.                        *)
(***************************************************************************)
EXTENDS Connection, TLAPS

(* Who holds what follows from where each thread is; the client is gone    *)
(* from the first step of a close() on; and once the driver is being shut  *)
(* down nobody holds a clone from which a new cursor could come.           *)
Custody ==
    /\ \A t \in Threads :
          /\ pc[t] \in {"find", "insert", "ping"} <=> t \in clones
          /\ t \in shared => pc[t] \in {"find", "ping"}
          /\ Closing(t) <=> exclusive = t
          /\ pc[t] = "shutdown" => driver = "stopping"
    /\ client => ~closed /\ driver = "live" /\ exclusive = NoThread
    /\ driver # "live" => clones = {}

IInv == TypeOK /\ Custody /\ NoUseAfterShutdown /\ HalfClosedHidden /\ ClosedWhenDone

LEMMA InitIInv == Init => IInv
  BY NoThreadAssumption
     DEF Init, IInv, TypeOK, Custody, Closing, NoUseAfterShutdown, HalfClosedHidden, ClosedWhenDone

LEMMA StepIInv == IInv /\ [Next]_vars => IInv'
<1> SUFFICES ASSUME IInv, [Next]_vars
             PROVE  IInv'
  OBVIOUS
<1> USE NoThreadAssumption
    DEF IInv, TypeOK, Custody, Closing, NoUseAfterShutdown, HalfClosedHidden, ClosedWhenDone,
        connVars, Goto, Report
<1>1. ASSUME NEW t \in Threads, NEW kind \in {"find", "insert", "ping"}, Refused(t, kind)
      PROVE  IInv'
  BY <1>1 DEF Refused, BorrowFailure
<1>2. ASSUME NEW t \in Threads, NEW kind \in {"find", "insert", "ping"}, Start(t, kind)
      PROVE  IInv'
  BY <1>2 DEF Start, HoldsBorrow, Available
<1>3. ASSUME NEW t \in Threads, Return(t)
      PROVE  IInv'
  BY <1>3 DEF Return
<1>4. ASSUME NEW t \in Threads, NextBatch(t)
      PROVE  IInv'
  BY <1>4 DEF NextBatch
<1>5. ASSUME NEW t \in Threads, DropReader(t)
      PROVE  IInv'
  BY <1>5 DEF DropReader
<1>6. ASSUME NEW t \in Threads, CloseRefused(t)
      PROVE  IInv'
  BY <1>6 DEF CloseRefused
<1>7. ASSUME NEW t \in Threads, CloseBegin(t)
      PROVE  IInv'
  BY <1>7 DEF CloseBegin
<1>8. ASSUME NEW t \in Threads, CloseAgain(t)
      PROVE  IInv'
  BY <1>8 DEF CloseAgain
<1>9. ASSUME NEW t \in Threads, Unwrap(t)
      PROVE  IInv'
  BY <1>9 DEF Unwrap
<1>10. ASSUME NEW t \in Threads, Shutdown(t)
       PROVE  IInv'
  BY <1>10 DEF Shutdown, OpenCursors
<1>11. ASSUME NEW t \in Threads, CloseEnd(t)
       PROVE  IInv'
  BY <1>11 DEF CloseEnd
<1>12. CASE UNCHANGED vars
  BY <1>12 DEF vars
<1> QED
  BY <1>1, <1>2, <1>3, <1>4, <1>5, <1>6, <1>7, <1>8, <1>9, <1>10, <1>11, <1>12
     DEF Next, InCall

LEMMA IInvInvariant == Spec => []IInv
  BY InitIInv, StepIInv, PTL DEF Spec

(* Every variable keeps its type and the borrows stay exclusive.           *)
THEOREM TypeCorrect == Spec => []TypeOK
<1>1. IInv => TypeOK
  BY DEF IInv
<1> QED
  BY <1>1, IInvInvariant, PTL

(* The driver is never shut down under an operation that uses the client,  *)
(* and has no cursor left when it has stopped.                             *)
THEOREM NoUseAfterShutdownHolds == Spec => []NoUseAfterShutdown
<1>1. IInv => NoUseAfterShutdown
  BY DEF IInv
<1> QED
  BY <1>1, IInvInvariant, PTL

(* The half-closed connection, client taken and flag not set, is always    *)
(* behind the exclusive borrow.                                            *)
THEOREM HalfClosedHiddenHolds == Spec => []HalfClosedHidden
<1>1. IInv => HalfClosedHidden
  BY DEF IInv
<1> QED
  BY <1>1, IInvInvariant, PTL

(* A close() that reports success leaves the connection closed.            *)
THEOREM ClosedWhenDoneHolds == Spec => []ClosedWhenDone
<1>1. IInv => ClosedWhenDone
  BY DEF IInv
<1> QED
  BY <1>1, IInvInvariant, PTL

----------------------------------------------------------------------------
(* Once the client is taken nobody gets hold of it again, and the flag,    *)
(* once set, stays.                                                        *)
THEOREM ClosingIsFinalHolds == Spec => ClosingIsFinal
<1> DEFINE Final == /\ ~client => ~client' /\ clones' \subseteq clones
                    /\ closed => closed'
<1>1. IInv /\ [Next]_vars => [Final]_vars
  <2> SUFFICES ASSUME IInv, Next
               PROVE  Final
    OBVIOUS
  <2>1. ASSUME NEW t \in Threads,
               \/ \E kind \in {"find", "insert", "ping"} : Refused(t, kind)
               \/ NextBatch(t) \/ DropReader(t) \/ CloseRefused(t)
        PROVE  Final
    BY <2>1 DEF Refused, NextBatch, DropReader, CloseRefused, connVars
  <2>2. ASSUME NEW t \in Threads, NEW kind \in {"find", "insert", "ping"}, Start(t, kind)
        PROVE  Final
    BY <2>2 DEF Start, Available, connVars
  <2>3. ASSUME NEW t \in Threads, Return(t) \/ Unwrap(t) \/ Shutdown(t) \/ CloseEnd(t)
        PROVE  Final
    BY <2>3 DEF Return, Unwrap, Shutdown, CloseEnd, connVars
  <2>4. ASSUME NEW t \in Threads, CloseBegin(t) \/ CloseAgain(t)
        PROVE  Final
    BY <2>4 DEF CloseBegin, CloseAgain
  <2> QED
    BY <2>1, <2>2, <2>3, <2>4 DEF Next, InCall
<1> QED
  BY <1>1, IInvInvariant, PTL DEF Spec, ClosingIsFinal
=============================================================================
