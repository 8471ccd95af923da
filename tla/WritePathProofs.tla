-------------------------- MODULE WritePathProofs --------------------------
(***************************************************************************)
(* Proofs about WritePath, for any calls, streams and batch sizes.         *)
(***************************************************************************)
EXTENDS WritePath, FiniteSetTheorems, TLAPS

(* What the program counter and the result say of the batch at hand and of *)
(* the place in the stream where the call stands.                          *)
Control ==
    \A w \in Writers :
        /\ pc[w] = "ready" => size[w] = 0
        /\ pc[w] = "inflight" => size[w] > 0
        /\ result[w].kind = "returned" =>
              /\ pos[w] = Height[w] /\ size[w] = 0
              /\ failures[w] = {} /\ result[w].count = inserted[w]
        /\ result[w].kind = "write_error" =>
              /\ pos[w] = Height[w] /\ size[w] = 0
              /\ failures[w] # {} /\ result[w].failures = failures[w]
        /\ result[w].kind = "batch_error" =>
              /\ result[w].row_start = pos[w]
              /\ result[w].row_stop = pos[w] + size[w]
        /\ result[w] \in Contract!Interruptions => size[w] = 0

IInv == TypeOK /\ Accounting /\ Control

----------------------------------------------------------------------------
(* Counting the rows of one batch.                                         *)

(* The indices of the failed rows within the batch are as many as the      *)
(* failed rows, and no more than the batch has rows.                       *)
LEMMA ShiftCount ==
    ASSUME NEW p \in Nat, NEW s \in Nat, NEW R \in SUBSET Nat
    PROVE  LET Hit == R \cap p .. (p + s - 1)
               Idx == {r - p : r \in Hit}
           IN  /\ IsFiniteSet(Idx)
               /\ Cardinality(Idx) = Cardinality(Hit)
               /\ Cardinality(Idx) \in 0 .. s
<1> DEFINE Batch == p .. (p + s - 1)
           Hit == R \cap Batch
           Idx == {r - p : r \in Hit}
           shift == [r \in Hit |-> r - p]
<1>1. IsFiniteSet(Batch) /\ Cardinality(Batch) = s
  BY FS_Interval, p \in Int, p + s - 1 \in Int
<1>2. IsFiniteSet(Hit) /\ Cardinality(Hit) <= s
  <2>1. Hit \in SUBSET Batch
    OBVIOUS
  <2> QED BY <1>1, <2>1, FS_Subset
<1>3. shift \in Bijection(Hit, Idx)
  <2>1. shift \in [Hit -> Idx]
    OBVIOUS
  <2>2. \A a, b \in Hit : shift[a] = shift[b] => a = b
    OBVIOUS
  <2>3. \A t \in Idx : \E a \in Hit : shift[a] = t
    OBVIOUS
  <2> QED
    BY <2>1, <2>2, <2>3 DEF Bijection, Injection, Surjection, IsInjective
<1>4. ExistsBijection(Hit, Idx)
  BY <1>3 DEF ExistsBijection
<1>5. IsFiniteSet(Idx) /\ Cardinality(Idx) = Cardinality(Hit)
  BY <1>2, <1>4, FS_Bijection
<1>6. Cardinality(Hit) \in Nat
  BY <1>2, FS_CardinalityType
<1> QED
  BY <1>2, <1>5, <1>6

(* A batch in which every row is stored (S) or refused (R) adds to the     *)
(* stored rows its height less the refused ones.                           *)
AddsBatch(p, s, S, R) ==
    Cardinality(S \cap 0 .. (p + s - 1))
      = Cardinality(S \cap 0 .. (p - 1)) + (s - Cardinality(R \cap p .. (p + s - 1)))

LEMMA BatchCount ==
    ASSUME NEW p \in Nat, NEW s \in Nat,
           NEW S \in SUBSET Nat, NEW R \in SUBSET Nat,
           S \cap R = {},
           p .. (p + s - 1) \subseteq S \cup R
    PROVE  AddsBatch(p, s, S, R)
<1> DEFINE Batch == p .. (p + s - 1)
           Before == S \cap 0 .. (p - 1)
           New == S \cap Batch
<1>1. IsFiniteSet(Batch) /\ Cardinality(Batch) = s
  BY FS_Interval, p \in Int, p + s - 1 \in Int
<1>2. IsFiniteSet(0 .. (p - 1))
  BY FS_Interval, p - 1 \in Int, 0 \in Int
<1>3. IsFiniteSet(Before) /\ IsFiniteSet(New)
  BY <1>1, <1>2, FS_Intersection
<1>4. New = Batch \ R
  OBVIOUS
<1>5. Cardinality(New) = s - Cardinality(R \cap Batch)
  <2>1. Cardinality(Batch \ R) = Cardinality(Batch) - Cardinality(Batch \cap R)
    BY <1>1, FS_Difference
  <2>2. Batch \cap R = R \cap Batch
    OBVIOUS
  <2> QED BY <1>1, <1>4, <2>1, <2>2
<1>6. S \cap 0 .. (p + s - 1) = Before \cup New
  OBVIOUS
<1>7. Before \cap New = {}
  OBVIOUS
<1>8. Cardinality(Before \cup New)
        = Cardinality(Before) + Cardinality(New) - Cardinality(Before \cap New)
  BY <1>3, FS_Union
<1>9. Cardinality(Before) \in Nat /\ Cardinality(New) \in Nat
  BY <1>3, FS_CardinalityType
<1>10. Cardinality(Before \cap New) = 0
  BY <1>7, FS_EmptySet
<1> HIDE DEF Before, New
<1>11. Cardinality(Before \cup New) = Cardinality(Before) + Cardinality(New)
  <2>1. \A a, b, c, d : (a \in Nat /\ b \in Nat /\ c = 0 /\ d = a + b - c) => d = a + b
    OBVIOUS
  <2> QED BY <1>8, <1>9, <1>10, <2>1
<1>12. Cardinality(Before \cup New)
         = Cardinality(Before) + (s - Cardinality(R \cap Batch))
  BY <1>5, <1>11
<1> QED
  BY <1>6, <1>12 DEF Before, AddsBatch

----------------------------------------------------------------------------
(* Type correctness. It needs no other invariant.                          *)

LEMMA FailedIndicesCount ==
    ASSUME TypeOK, NEW w \in Writers
    PROVE  /\ Cardinality(FailedIndices(w)) \in 0 .. size[w]
           /\ Cardinality(FailedIndices(w)) = Cardinality(refused[w] \cap BatchRows(w))
<1>1. pos[w] \in Nat /\ size[w] \in Nat /\ refused[w] \in SUBSET Nat
  BY DEF TypeOK
<1> QED
  BY <1>1, ShiftCount DEF FailedIndices, BatchRows

LEMMA InitTypeOK == Init => TypeOK
  BY HeightAssumption DEF Init, TypeOK, Rows, Running, Results, Contract!Running

(* An error or a count is one of the results and is not Running.           *)
LEMMA RaisedResults ==
    /\ \A k \in {"conversion_error", "closed_error", "borrow_panic", "engine_error"} :
          [kind |-> k] \in Results /\ [kind |-> k] # Running
    /\ \A n \in Nat : Contract!Returned(n) \in Results /\ Contract!Returned(n) # Running
    /\ \A F \in SUBSET Nat : Contract!WriteError(F) \in Results /\ Contract!WriteError(F) # Running
    /\ \A lo, hi \in Nat :
          Contract!BatchError(lo, hi) \in Results /\ Contract!BatchError(lo, hi) # Running
<1> USE DEF Results, Running, Contract!Running, Contract!Interruptions,
            Contract!Returned, Contract!WriteError, Contract!BatchError
<1>1. \A k \in {"conversion_error", "closed_error", "borrow_panic", "engine_error"} :
         [kind |-> k] \in Results /\ [kind |-> k] # Running
  OBVIOUS
<1>2. \A n \in Nat : Contract!Returned(n) \in Results /\ Contract!Returned(n) # Running
  OBVIOUS
<1>3. \A F \in SUBSET Nat :
         Contract!WriteError(F) \in Results /\ Contract!WriteError(F) # Running
  OBVIOUS
<1>4. \A lo, hi \in Nat :
         Contract!BatchError(lo, hi) \in Results /\ Contract!BatchError(lo, hi) # Running
  OBVIOUS
<1> QED
  BY <1>1, <1>2, <1>3, <1>4

(* A raise keeps the types when what it raises is a proper result.         *)
LEMMA RaiseTypeOK ==
    ASSUME TypeOK, NEW w \in Writers, NEW e \in Results, e # Running, Raise(w, e),
           UNCHANGED <<conn, pos, size, attempted, inserted, failures, sent, stored, refused>>
    PROVE  TypeOK'
  BY DEF TypeOK, Raise, Rows

LEMMA StepTypeOK == TypeOK /\ [Next]_vars => TypeOK'
<1> SUFFICES ASSUME TypeOK, [Next]_vars
             PROVE  TypeOK'
  OBVIOUS
<1> USE HeightAssumption
<1>1. ASSUME NEW w \in Writers, EncodeFails(w)
      PROVE  TypeOK'
  BY <1>1, RaisedResults, RaiseTypeOK DEF EncodeFails, serverVars
<1>2. ASSUME NEW w \in Writers, ConnectionRefuses(w)
      PROVE  TypeOK'
  BY <1>2, RaisedResults, RaiseTypeOK DEF ConnectionRefuses, serverVars
<1>3. ASSUME NEW w \in Writers, SendBatch(w)
      PROVE  TypeOK'
  <2>1. PICK h \in NextHeights(w) :
           /\ size' = [size EXCEPT ![w] = h]
           /\ sent' = [sent EXCEPT ![w] = @ \cup pos[w] .. (pos[w] + h - 1)]
    BY <1>3 DEF SendBatch
  <2>2. h \in Nat /\ pos[w] + h <= Height[w]
    BY DEF NextHeights, TypeOK
  <2>3. sent'[w] = sent[w] \cup pos[w] .. (pos[w] + h - 1)
    BY <2>1 DEF TypeOK
  <2>4. sent'[w] \subseteq Rows(w) /\ sent[w] \subseteq sent'[w]
    BY <2>2, <2>3 DEF TypeOK, Rows
  <2>5. sent' \in [Writers -> SUBSET Nat]
    BY <2>1, <2>4 DEF TypeOK, Rows
  <2> QED
    BY <1>3, <2>1, <2>2, <2>4, <2>5 DEF SendBatch, TypeOK, serverVars, Rows
<1>4. ASSUME NEW w \in Writers, NEW r \in Rows(w), StoreRow(w, r)
      PROVE  TypeOK'
  BY <1>4 DEF StoreRow, Pending, TypeOK, callVars, Rows
<1>5. ASSUME NEW w \in Writers, NEW r \in Rows(w), RefuseRow(w, r)
      PROVE  TypeOK'
  BY <1>5 DEF RefuseRow, Pending, TypeOK, callVars, Rows
<1>6. ASSUME NEW w \in Writers, DriverAnswers(w)
      PROVE  TypeOK'
  <2>1. size[w] - Cardinality(FailedIndices(w)) \in Nat
    <3>1. Cardinality(FailedIndices(w)) \in 0 .. size[w]
      BY FailedIndicesCount
    <3>2. size[w] \in Nat
      BY DEF TypeOK
    <3> QED BY <3>1, <3>2
  <2>2. OutcomeFailures(w) \in SUBSET Nat
    BY DEF OutcomeFailures, FailedIndices, BatchRows, TypeOK
  <2>3. inserted' \in [Writers -> Nat]
    BY <1>6, <2>1 DEF DriverAnswers, RecordBatch, TypeOK
  <2>4. failures' \in [Writers -> SUBSET Nat]
    BY <1>6, <2>2 DEF DriverAnswers, RecordBatch, TypeOK
  <2>5. /\ pc' \in [Writers -> {"ready", "inflight", "done"}]
        /\ pos' \in [Writers -> Nat]
        /\ size' \in [Writers -> Nat]
        /\ attempted' \in [Writers -> Nat]
        /\ \A v \in Writers : pos'[v] + size'[v] <= Height[v]
        /\ \A v \in Writers : pc'[v] = "done" <=> result[v] # Running
    BY <1>6 DEF DriverAnswers, RecordBatch, TypeOK
  <2> QED
    BY <1>6, <2>3, <2>4, <2>5 DEF DriverAnswers, RecordBatch, TypeOK, serverVars, Rows
<1>7. ASSUME NEW w \in Writers, BatchFails(w)
      PROVE  TypeOK'
  <2>1. attempted[w] \in Nat /\ attempted[w] + size[w] \in Nat
    BY DEF TypeOK
  <2> QED
    BY <1>7, <2>1, RaisedResults, RaiseTypeOK DEF BatchFails, WindowError, serverVars
<1>8. ASSUME NEW w \in Writers, PlanFails(w)
      PROVE  TypeOK'
  BY <1>8, RaisedResults, RaiseTypeOK DEF PlanFails, serverVars
<1>9. ASSUME NEW w \in Writers, Finish(w)
      PROVE  TypeOK'
  <2>1. inserted[w] \in Nat /\ failures[w] \in SUBSET Nat
    BY DEF TypeOK
  <2> QED
    BY <1>9, <2>1, RaisedResults, RaiseTypeOK DEF Finish, serverVars
<1>10. CASE CloseBegin
  BY <1>10 DEF CloseBegin, TypeOK, callVars, serverVars, Rows
<1>11. CASE CloseEnd
  BY <1>11 DEF CloseEnd, TypeOK, callVars, serverVars, Rows
<1>12. CASE UNCHANGED vars
  BY <1>12 DEF vars, TypeOK, callVars, serverVars, Rows
<1> QED
  BY <1>1, <1>2, <1>3, <1>4, <1>5, <1>6, <1>7, <1>8, <1>9, <1>10, <1>11, <1>12
     DEF Next, CallStep

(* Every variable keeps its type: no index leaves the stream, no batch     *)
(* reaches past its end, and a call has a result exactly when it is over.  *)
THEOREM TypeCorrect == Spec => []TypeOK
  BY InitTypeOK, StepTypeOK, PTL DEF Spec

----------------------------------------------------------------------------
(* The inductive invariant. Accounting alone does not survive a step: that *)
(* a batch leaves from where the last one ended needs Control, and what a  *)
(* result says of the rows follows from the accounting only at the place   *)
(* where Control says the call stopped.                                    *)

LEMMA InitIInv == Init => IInv
<1> SUFFICES ASSUME Init PROVE IInv
  OBVIOUS
<1>1. TypeOK
  BY InitTypeOK
<1>2. Accounting
  <2>1. \A w \in Writers : stored[w] \cap 0 .. (pos[w] - 1) = {}
    BY DEF Init
  <2> QED
    BY <2>1, FS_EmptySet DEF Init, Accounting
<1>3. Control
  BY DEF Init, Control, Running, Contract!Running, Contract!Interruptions
<1> QED
  BY <1>1, <1>2, <1>3 DEF IInv

(* A raise between two batches, or of the batch at hand, disturbs nothing  *)
(* the accounting speaks of.                                               *)
LEMMA StepAccounting ==
    IInv /\ [Next]_vars => Accounting'
<1> SUFFICES ASSUME IInv, [Next]_vars
             PROVE  Accounting'
  OBVIOUS
<1> USE DEF IInv
<1>1. ASSUME UNCHANGED <<pos, size, attempted, inserted, failures, sent, stored, refused>>
      PROVE  Accounting'
  BY <1>1 DEF Accounting
<1>2. ASSUME NEW w \in Writers, SendBatch(w)
      PROVE  Accounting'
  <2>1. PICK h \in NextHeights(w) :
           /\ size' = [size EXCEPT ![w] = h]
           /\ sent' = [sent EXCEPT ![w] = @ \cup pos[w] .. (pos[w] + h - 1)]
    BY <1>2 DEF SendBatch
  <2>2. h \in Nat /\ pos[w] \in Nat /\ size[w] = 0 /\ size'[w] = h
    BY <1>2, <2>1 DEF NextHeights, TypeOK, Control, SendBatch
  <2>3. sent'[w] = 0 .. (pos[w] + h - 1)
    <3>1. sent'[w] = sent[w] \cup pos[w] .. (pos[w] + h - 1)
      BY <2>1 DEF TypeOK
    <3>2. sent[w] = 0 .. (pos[w] + size[w] - 1)
      BY DEF Accounting
    <3>3. sent[w] = 0 .. (pos[w] - 1)
      BY <2>2, <3>2
    <3> QED BY <2>2, <3>1, <3>3
  <2>4. \A v \in Writers : sent'[v] = 0 .. (pos[v] + size'[v] - 1)
    BY <2>1, <2>2, <2>3 DEF Accounting, TypeOK
  <2> QED
    BY <1>2, <2>4 DEF Accounting, SendBatch, serverVars
<1>3. ASSUME NEW w \in Writers, NEW r \in Rows(w), StoreRow(w, r)
      PROVE  Accounting'
  <2>1. \A v \in Writers :
           stored'[v] \cap 0 .. (pos[v] - 1) = stored[v] \cap 0 .. (pos[v] - 1)
    <3>1. r \notin 0 .. (pos[w] - 1)
      BY <1>3 DEF StoreRow, Pending, Accounting
    <3>2. stored' = [stored EXCEPT ![w] = @ \cup {r}]
      BY <1>3 DEF StoreRow
    <3> QED BY <3>1, <3>2 DEF TypeOK
  <2>2. \A v \in Writers : stored[v] \subseteq stored'[v]
    BY <1>3 DEF StoreRow, TypeOK
  <2> QED
    BY <1>3, <2>1, <2>2 DEF StoreRow, Accounting, callVars
<1>4. ASSUME NEW w \in Writers, NEW r \in Rows(w), RefuseRow(w, r)
      PROVE  Accounting'
  <2>1. \A v \in Writers :
           refused'[v] \cap 0 .. (pos[v] - 1) = refused[v] \cap 0 .. (pos[v] - 1)
    <3>1. r \notin 0 .. (pos[w] - 1)
      BY <1>4 DEF RefuseRow, Pending, Accounting
    <3>2. refused' = [refused EXCEPT ![w] = @ \cup {r}]
      BY <1>4 DEF RefuseRow
    <3> QED BY <3>1, <3>2 DEF TypeOK
  <2>2. \A v \in Writers : refused[v] \subseteq refused'[v]
    BY <1>4 DEF RefuseRow, TypeOK
  <2> QED
    BY <1>4, <2>1, <2>2 DEF RefuseRow, Accounting, callVars
<1>5. ASSUME NEW w \in Writers, DriverAnswers(w)
      PROVE  Accounting'
  <2> DEFINE p == pos[w]
             s == size[w]
             upto == 0 .. (p + s - 1)
  <2>1. p \in Nat /\ s \in Nat /\ pos'[w] = p + s /\ size'[w] = 0
    BY <1>5 DEF DriverAnswers, RecordBatch, TypeOK
  <2>2. attempted'[w] = p + s
    BY <1>5 DEF DriverAnswers, RecordBatch, Accounting, TypeOK
  <2>3. upto = 0 .. (p - 1) \cup BatchRows(w)
    BY <2>1 DEF BatchRows
  <2>4. upto \subseteq stored[w] \cup refused[w]
    BY <1>5, <2>3 DEF DriverAnswers, RecordBatch, Accounting
  <2>5. failures'[w] = refused[w] \cap upto
    <3>1. OutcomeFailures(w) = refused[w] \cap BatchRows(w)
      <4> DEFINE Hit == refused[w] \cap BatchRows(w)
      <4>1. attempted[w] = p
        BY DEF Accounting
      <4>2. \A r \in Hit : r \in Int /\ p + (r - p) = r
        BY <2>1 DEF TypeOK
      <4>3. OutcomeFailures(w) = { p + (r - p) : r \in Hit }
        BY <4>1 DEF OutcomeFailures, FailedIndices
      <4> QED BY <4>2, <4>3
    <3>2. failures'[w] = failures[w] \cup OutcomeFailures(w)
      BY <1>5 DEF DriverAnswers, RecordBatch, TypeOK
    <3>3. failures[w] = refused[w] \cap 0 .. (p - 1)
      BY DEF Accounting
    <3> QED BY <2>3, <3>1, <3>2, <3>3
  <2>6. inserted'[w] = Cardinality(stored[w] \cap upto)
    <3>1. inserted'[w] = inserted[w] + (s - Cardinality(FailedIndices(w)))
      BY <1>5 DEF DriverAnswers, RecordBatch, TypeOK
    <3>2. inserted[w] = Cardinality(stored[w] \cap 0 .. (p - 1))
      BY DEF Accounting
    <3>3. Cardinality(FailedIndices(w)) = Cardinality(refused[w] \cap BatchRows(w))
      BY FailedIndicesCount
    <3>4. /\ stored[w] \in SUBSET Nat /\ refused[w] \in SUBSET Nat
          /\ stored[w] \cap refused[w] = {}
          /\ p .. (p + s - 1) \subseteq stored[w] \cup refused[w]
      BY <1>5 DEF TypeOK, DriverAnswers, RecordBatch, BatchRows
    <3>5. AddsBatch(p, s, stored[w], refused[w])
      BY <2>1, <3>4, BatchCount
    <3> QED BY <3>1, <3>2, <3>3, <3>5 DEF BatchRows, AddsBatch
  <2>7. sent'[w] = 0 .. (pos'[w] + size'[w] - 1)
    <3>1. sent'[w] = 0 .. (p + s - 1)
      BY <1>5 DEF DriverAnswers, RecordBatch, Accounting
    <3> QED BY <2>1, <3>1
  <2>8. \A v \in Writers \ {w} :
           /\ pos'[v] = pos[v] /\ size'[v] = size[v] /\ attempted'[v] = attempted[v]
           /\ failures'[v] = failures[v] /\ inserted'[v] = inserted[v]
    BY <1>5 DEF DriverAnswers, RecordBatch, TypeOK
  <2>9. stored' = stored /\ refused' = refused /\ sent' = sent
    BY <1>5 DEF DriverAnswers, RecordBatch, serverVars
  <2>10. 0 .. (pos'[w] - 1) = upto
    BY <2>1
  <2> HIDE DEF upto, p, s
  <2>11. /\ attempted'[w] = pos'[w]
         /\ 0 .. (pos'[w] - 1) \subseteq stored'[w] \cup refused'[w]
         /\ sent'[w] = 0 .. (pos'[w] + size'[w] - 1)
         /\ failures'[w] = refused'[w] \cap 0 .. (pos'[w] - 1)
         /\ inserted'[w] = Cardinality(stored'[w] \cap 0 .. (pos'[w] - 1))
    BY <2>1, <2>2, <2>4, <2>5, <2>6, <2>7, <2>9, <2>10
  <2>12. ASSUME NEW v \in Writers \ {w}
         PROVE  /\ attempted'[v] = pos'[v]
                /\ 0 .. (pos'[v] - 1) \subseteq stored'[v] \cup refused'[v]
                /\ sent'[v] = 0 .. (pos'[v] + size'[v] - 1)
                /\ failures'[v] = refused'[v] \cap 0 .. (pos'[v] - 1)
                /\ inserted'[v] = Cardinality(stored'[v] \cap 0 .. (pos'[v] - 1))
    BY <2>8, <2>9 DEF Accounting
  <2> QED
    BY <2>11, <2>12 DEF Accounting
<1>6. ASSUME NEW w \in Writers,
             EncodeFails(w) \/ ConnectionRefuses(w) \/ BatchFails(w) \/ PlanFails(w) \/ Finish(w)
      PROVE  Accounting'
  BY <1>1, <1>6 DEF EncodeFails, ConnectionRefuses, BatchFails, PlanFails, Finish, serverVars
<1>7. CASE CloseBegin \/ CloseEnd
  BY <1>1, <1>7 DEF CloseBegin, CloseEnd, callVars, serverVars
<1>8. CASE UNCHANGED vars
  BY <1>1, <1>8 DEF vars, callVars, serverVars
<1> QED
  BY <1>2, <1>3, <1>4, <1>5, <1>6, <1>7, <1>8 DEF Next, CallStep

(* The result of a call of another writer, and the place it stands at, are *)
(* out of reach of a step of w.                                            *)
LEMMA RaiseControl ==
    ASSUME IInv, NEW w \in Writers, NEW e \in Results, Raise(w, e),
           UNCHANGED <<pos, size, attempted, inserted, failures>>,
           e.kind = "returned" =>
              /\ pos[w] = Height[w] /\ size[w] = 0
              /\ failures[w] = {} /\ e.count = inserted[w],
           e.kind = "write_error" =>
              /\ pos[w] = Height[w] /\ size[w] = 0
              /\ failures[w] # {} /\ e.failures = failures[w],
           e.kind = "batch_error" => e.row_start = pos[w] /\ e.row_stop = pos[w] + size[w],
           e \in Contract!Interruptions => size[w] = 0
    PROVE  Control'
<1>1. /\ pc'[w] = "done" /\ result'[w] = e
      /\ \A v \in Writers \ {w} : pc'[v] = pc[v] /\ result'[v] = result[v]
  BY DEF IInv, TypeOK, Raise
<1> QED
  BY <1>1 DEF IInv, Control

LEMMA StepControl == IInv /\ [Next]_vars => Control'
<1> SUFFICES ASSUME IInv, [Next]_vars
             PROVE  Control'
  OBVIOUS
<1>1. ASSUME UNCHANGED <<pc, pos, size, inserted, failures, result>>
      PROVE  Control'
  BY <1>1 DEF IInv, Control
<1>2. ASSUME NEW w \in Writers, pc[w] = "ready",
             NEW k \in {"conversion_error", "closed_error", "borrow_panic", "engine_error"},
             Raise(w, [kind |-> k]),
             UNCHANGED <<pos, size, attempted, inserted, failures>>
      PROVE  Control'
  <2>1. size[w] = 0
    BY <1>2 DEF IInv, Control
  <2>2. [kind |-> k] \in Results /\ [kind |-> k].kind = k
    BY RaisedResults
  <2> QED
    BY <1>2, <2>1, <2>2, RaiseControl
<1>3. ASSUME NEW w \in Writers, EncodeFails(w)
      PROVE  Control'
  BY <1>2, <1>3 DEF EncodeFails
<1>4. ASSUME NEW w \in Writers, ConnectionRefuses(w)
      PROVE  Control'
  BY <1>2, <1>4 DEF ConnectionRefuses
<1>5. ASSUME NEW w \in Writers, PlanFails(w)
      PROVE  Control'
  BY <1>2, <1>5 DEF PlanFails
<1>6. ASSUME NEW w \in Writers, SendBatch(w)
      PROVE  Control'
  <2>1. PICK h \in NextHeights(w) : size' = [size EXCEPT ![w] = h]
    BY <1>6 DEF SendBatch
  <2>2. h \in Nat /\ h > 0
    BY <2>1, HeightAssumption DEF NextHeights, IInv, TypeOK
  <2>3. result[w] = Running /\ Running.kind = "running" /\ Running \notin Contract!Interruptions
    BY <1>6 DEF SendBatch, IInv, TypeOK, Running, Contract!Running, Contract!Interruptions
  <2>4. /\ pc'[w] = "inflight" /\ size'[w] = h /\ result' = result
        /\ pos' = pos /\ inserted' = inserted /\ failures' = failures
        /\ \A v \in Writers \ {w} : pc'[v] = pc[v] /\ size'[v] = size[v]
    BY <1>6, <2>1 DEF SendBatch, IInv, TypeOK
  <2> QED
    BY <2>2, <2>3, <2>4 DEF IInv, Control
<1>7. ASSUME NEW w \in Writers, DriverAnswers(w)
      PROVE  Control'
  <2>1. result[w] = Running /\ Running.kind = "running" /\ Running \notin Contract!Interruptions
    BY <1>7 DEF DriverAnswers, RecordBatch, IInv, TypeOK, Running, Contract!Running, Contract!Interruptions
  <2>2. /\ pc'[w] = "ready" /\ size'[w] = 0 /\ result' = result
        /\ \A v \in Writers \ {w} :
              /\ pc'[v] = pc[v] /\ size'[v] = size[v] /\ pos'[v] = pos[v]
              /\ inserted'[v] = inserted[v] /\ failures'[v] = failures[v]
    BY <1>7 DEF DriverAnswers, RecordBatch, IInv, TypeOK
  <2> QED
    BY <2>1, <2>2 DEF IInv, Control
<1>8. ASSUME NEW w \in Writers, BatchFails(w)
      PROVE  Control'
  <2> DEFINE e == Contract!BatchError(attempted[w], attempted[w] + size[w])
  <2>1. e \in Results
    BY RaisedResults DEF IInv, TypeOK
  <2>2. /\ e.kind = "batch_error" /\ e \notin Contract!Interruptions
        /\ e.row_start = pos[w] /\ e.row_stop = pos[w] + size[w]
    BY DEF Contract!BatchError, Contract!Interruptions, IInv, Accounting
  <2>3. Raise(w, e) /\ UNCHANGED <<pos, size, attempted, inserted, failures>>
    BY <1>8 DEF BatchFails, WindowError
  <2> HIDE DEF e
  <2> QED
    BY <2>1, <2>2, <2>3, RaiseControl
<1>9. ASSUME NEW w \in Writers, Finish(w)
      PROVE  Control'
  <2> DEFINE e == IF failures[w] = {} THEN Contract!Returned(inserted[w])
                                      ELSE Contract!WriteError(failures[w])
  <2>1. e \in Results
    BY RaisedResults DEF IInv, TypeOK
  <2>2. pos[w] = Height[w] /\ size[w] = 0
    BY <1>9 DEF Finish, IInv, Control
  <2>3. /\ e.kind = "returned" => failures[w] = {} /\ e.count = inserted[w]
        /\ e.kind = "write_error" => failures[w] # {} /\ e.failures = failures[w]
        /\ e.kind # "batch_error"
    BY DEF Contract!Returned, Contract!WriteError
  <2>4. Raise(w, e) /\ UNCHANGED <<pos, size, attempted, inserted, failures>>
    BY <1>9 DEF Finish
  <2> HIDE DEF e
  <2> QED
    BY <2>1, <2>2, <2>3, <2>4, RaiseControl
<1>10. ASSUME NEW w \in Writers, NEW r \in Rows(w), StoreRow(w, r) \/ RefuseRow(w, r)
       PROVE  Control'
  BY <1>1, <1>10 DEF StoreRow, RefuseRow, callVars
<1>11. CASE CloseBegin \/ CloseEnd
  BY <1>1, <1>11 DEF CloseBegin, CloseEnd, callVars
<1>12. CASE UNCHANGED vars
  BY <1>1, <1>12 DEF vars, callVars
<1> QED
  BY <1>3, <1>4, <1>5, <1>6, <1>7, <1>8, <1>9, <1>10, <1>11, <1>12 DEF Next, CallStep

LEMMA IInvInvariant == Spec => []IInv
<1>1. Init => IInv
  BY InitIInv
<1>2. IInv /\ [Next]_vars => IInv'
  BY StepTypeOK, StepAccounting, StepControl DEF IInv
<1> QED
  BY <1>1, <1>2, PTL DEF Spec

(* The RowCounter and the list of failures of a call agree with what the   *)
(* server did with its rows, between any two batches.                      *)
THEOREM AccountingHolds == Spec => []Accounting
<1>1. IInv => Accounting
  BY DEF IInv
<1> QED
  BY <1>1, IInvInvariant, PTL

----------------------------------------------------------------------------
LEMMA IInvTruthful == IInv => ResultTruthful
<1> SUFFICES ASSUME IInv, NEW w \in Writers
             PROVE  /\ result[w].kind = "returned" =>
                          /\ result[w].count = Height[w]
                          /\ stored[w] = Rows(w)
                    /\ result[w].kind = "write_error" =>
                          /\ result[w].failures = refused[w]
                          /\ stored[w] = Rows(w) \ result[w].failures
                    /\ result[w].kind = "batch_error" =>
                          /\ 0 .. (result[w].row_start - 1) \subseteq stored[w] \cup refused[w]
                          /\ sent[w] = 0 .. (result[w].row_stop - 1)
  BY DEF ResultTruthful
<1>1. /\ pos[w] \in Nat /\ size[w] \in Nat /\ Height[w] \in Nat
      /\ stored[w] \cup refused[w] \subseteq sent[w] /\ stored[w] \cap refused[w] = {}
  BY HeightAssumption DEF IInv, TypeOK
<1>2. /\ 0 .. (pos[w] - 1) \subseteq stored[w] \cup refused[w]
      /\ sent[w] = 0 .. (pos[w] + size[w] - 1)
      /\ failures[w] = refused[w] \cap 0 .. (pos[w] - 1)
      /\ inserted[w] = Cardinality(stored[w] \cap 0 .. (pos[w] - 1))
  BY DEF IInv, Accounting
<1>3. ASSUME pos[w] = Height[w], size[w] = 0
      PROVE  stored[w] \cup refused[w] = Rows(w) /\ failures[w] = refused[w]
  BY <1>1, <1>2, <1>3 DEF Rows
<1>4. ASSUME result[w].kind = "returned"
      PROVE  result[w].count = Height[w] /\ stored[w] = Rows(w)
  <2>1. /\ pos[w] = Height[w] /\ size[w] = 0
        /\ failures[w] = {} /\ result[w].count = inserted[w]
    BY <1>4 DEF IInv, Control
  <2>2. stored[w] = Rows(w)
    BY <1>3, <2>1
  <2>3. stored[w] \cap 0 .. (pos[w] - 1) = 0 .. (Height[w] - 1)
    BY <2>1, <2>2 DEF Rows
  <2>4. Cardinality(0 .. (Height[w] - 1)) = Height[w]
    BY <1>1, FS_Interval, 0 \in Int, Height[w] - 1 \in Int
  <2>5. inserted[w] = Height[w]
    BY <1>2, <2>3, <2>4
  <2>6. result[w].count = Height[w]
    BY <2>1, <2>5
  <2> QED
    BY <2>2, <2>6
<1>5. ASSUME result[w].kind = "write_error"
      PROVE  /\ result[w].failures = refused[w]
             /\ stored[w] = Rows(w) \ result[w].failures
  <2>1. /\ pos[w] = Height[w] /\ size[w] = 0 /\ result[w].failures = failures[w]
    BY <1>5 DEF IInv, Control
  <2> QED
    BY <1>1, <1>3, <2>1
<1>6. ASSUME result[w].kind = "batch_error"
      PROVE  /\ 0 .. (result[w].row_start - 1) \subseteq stored[w] \cup refused[w]
             /\ sent[w] = 0 .. (result[w].row_stop - 1)
  <2>1. result[w].row_start = pos[w] /\ result[w].row_stop = pos[w] + size[w]
    BY <1>6 DEF IInv, Control
  <2> QED
    BY <1>1, <1>2, <2>1
<1> QED
  BY <1>4, <1>5, <1>6

(* A count is the whole stream and all of it is stored, the failures of    *)
(* MongoWriteError are the refused rows and no others, and MongoBatchError *)
(* leaves no doubt outside its window; and all of it stays so.             *)
THEOREM ResultsAreTruthful == Spec => []ResultTruthful
  BY IInvInvariant, IInvTruthful, PTL

----------------------------------------------------------------------------
(* Refinement. A call's contract moves when the server settles a row and   *)
(* when the call ends; every other step is a stutter of the contract.      *)

LEMMA NothingSentStep ==
    IInv /\ [Next]_vars => [\A w \in Writers : result[w] # Running => sent'[w] = sent[w]]_vars
<1> SUFFICES ASSUME IInv, Next, NEW w \in Writers, result[w] # Running
             PROVE  sent'[w] = sent[w]
  OBVIOUS
<1>1. pc[w] # "ready"
  BY DEF IInv, TypeOK
<1>2. ASSUME NEW v \in Writers, SendBatch(v)
      PROVE  sent'[w] = sent[w]
  BY <1>1, <1>2 DEF SendBatch, IInv, TypeOK
<1> QED
  BY <1>2 DEF Next, CallStep, EncodeFails, ConnectionRefuses, DriverAnswers, RecordBatch,
              BatchFails, PlanFails, Finish, StoreRow, RefuseRow, CloseBegin, CloseEnd

(* No row leaves for the server once the caller has an exception or a      *)
(* count.                                                                  *)
THEOREM NothingSentAfterEndHolds == Spec => NothingSentAfterEnd
  BY IInvInvariant, NothingSentStep, PTL DEF Spec, NothingSentAfterEnd

LEMMA StepContract == IInv /\ IInv' /\ [Next]_vars => [Contract!Next]_(Contract!vars)
<1> SUFFICES ASSUME IInv, IInv', [Next]_vars
             PROVE  [Contract!Next]_(Contract!vars)
  OBVIOUS
<1> USE HeightAssumption
<1> DEFINE Same == UNCHANGED <<stored, refused, result>>
<1>1. ASSUME NEW w \in Writers, SendBatch(w) \/ DriverAnswers(w)
      PROVE  Same
  BY <1>1 DEF SendBatch, DriverAnswers, RecordBatch, serverVars
<1>2. ASSUME NEW w \in Writers, NEW k \in {"conversion_error", "closed_error",
                                          "borrow_panic", "engine_error"},
             pc[w] = "ready", Raise(w, [kind |-> k]), UNCHANGED serverVars
      PROVE  Contract!Interrupt(w)
  <2>1. result[w] = Running
    BY <1>2 DEF IInv, TypeOK
  <2>2. /\ pos[w] \in Nat /\ pos[w] <= Height[w] /\ Height[w] \in Nat
        /\ sent[w] = 0 .. (pos[w] - 1)
    <3>1. pos[w] \in Nat /\ size[w] = 0 /\ Height[w] \in Nat /\ pos[w] + size[w] <= Height[w]
      BY <1>2 DEF IInv, TypeOK, Control
    <3>2. sent[w] = 0 .. (pos[w] + size[w] - 1)
      BY DEF IInv, Accounting
    <3> QED BY <3>1, <3>2
  <2>3. stored[w] \cup refused[w] = 0 .. (pos[w] - 1)
    BY <2>2 DEF IInv, TypeOK, Accounting
  <2>4. pos[w] \in 0 .. Height[w]
    BY <2>2
  <2>5. [kind |-> k] \in Contract!Interruptions
    BY DEF Contract!Interruptions
  <2>6. Contract!End(w, [kind |-> k])
    BY <1>2, <2>1 DEF Contract!End, Raise, serverVars, Running
  <2> QED
    BY <2>3, <2>4, <2>5, <2>6 DEF Contract!Interrupt, Contract!Settled
<1>3. ASSUME NEW w \in Writers, EncodeFails(w) \/ ConnectionRefuses(w) \/ PlanFails(w)
      PROVE  Contract!Interrupt(w)
  BY <1>2, <1>3 DEF EncodeFails, ConnectionRefuses, PlanFails
<1>4. ASSUME NEW w \in Writers, NEW r \in Rows(w), StoreRow(w, r) \/ RefuseRow(w, r)
      PROVE  Contract!Store(w) \/ Contract!Refuse(w)
  <2>1. r \in sent[w] \ (stored[w] \cup refused[w])
    BY <1>4 DEF StoreRow, RefuseRow, Pending
  <2>2. r \in Contract!Undecided(w)
    <3>1. CASE result[w] = Running
      BY <2>1, <3>1 DEF Contract!Undecided, Contract!Settled, Contract!Rows, Rows, Running
    <3>2. CASE result[w] # Running
      <4>1. sent[w] = 0 .. (pos[w] + size[w] - 1) /\ r \notin 0 .. (pos[w] - 1)
        BY <2>1 DEF IInv, Accounting
      <4>2. pos[w] \in Nat /\ size[w] \in Nat
        BY DEF IInv, TypeOK
      <4>3. r \in pos[w] .. (pos[w] + size[w] - 1) /\ size[w] # 0
        BY <2>1, <4>1, <4>2
      <4>4. result[w].kind = "batch_error"
        <5>1. result[w] \in Results \ {Running}
          BY <3>2 DEF IInv, TypeOK
        <5>2. result[w] \notin Contract!Interruptions
          BY <4>3 DEF IInv, Control
        <5>3. result[w].kind # "returned" /\ result[w].kind # "write_error"
          BY <4>3 DEF IInv, Control
        <5> QED BY <5>1, <5>2, <5>3 DEF Results
      <4>5. result[w].row_start = pos[w] /\ result[w].row_stop = pos[w] + size[w]
        BY <4>4 DEF IInv, Control
      <4>6. r \in result[w].row_start .. (result[w].row_stop - 1)
        <5>1. r \in pos[w] .. (pos[w] + size[w] - 1)
          BY <4>3
        <5> QED BY <4>2, <4>5, <5>1
      <4> QED
        BY <2>1, <3>2, <4>4, <4>6 DEF Contract!Undecided, Contract!Settled, Running
    <3> QED BY <3>1, <3>2
  <2> QED
    BY <1>4, <2>2 DEF StoreRow, RefuseRow, Contract!Store, Contract!Refuse
<1>5. ASSUME NEW w \in Writers, BatchFails(w)
      PROVE  Contract!FailBatch(w)
  <2> DEFINE lo == pos[w]
             hi == pos[w] + size[w]
  <2>1. /\ lo \in Nat /\ size[w] \in Nat /\ Height[w] \in Nat /\ hi <= Height[w]
        /\ size[w] > 0 /\ attempted[w] = lo
    <3>1. /\ lo \in Nat /\ size[w] \in Nat /\ Height[w] \in Nat /\ hi <= Height[w]
      BY DEF IInv, TypeOK
    <3>2. size[w] > 0
      BY <1>5 DEF BatchFails, WindowError, IInv, Control
    <3>3. attempted[w] = lo
      BY DEF IInv, Accounting
    <3> QED BY <3>1, <3>2, <3>3
  <2>2. lo \in 0 .. Height[w] /\ hi \in 0 .. Height[w] /\ lo < hi
    BY <2>1
  <2>3. /\ 0 .. (lo - 1) \subseteq Contract!Settled(w)
        /\ Contract!Settled(w) \subseteq 0 .. (hi - 1)
    <3>1. /\ 0 .. (pos[w] - 1) \subseteq stored[w] \cup refused[w]
          /\ sent[w] = 0 .. (pos[w] + size[w] - 1)
      BY DEF IInv, Accounting
    <3>2. stored[w] \cup refused[w] \subseteq sent[w]
      BY DEF IInv, TypeOK
    <3> QED BY <2>1, <3>1, <3>2 DEF Contract!Settled
  <2>4. result[w] = Running
    BY <1>5 DEF BatchFails, WindowError, IInv, TypeOK
  <2>5. Contract!End(w, Contract!BatchError(lo, hi))
    BY <1>5, <2>1, <2>4 DEF BatchFails, WindowError, Raise, Contract!End, serverVars, Running
  <2> QED
    BY <2>2, <2>3, <2>5 DEF Contract!FailBatch
<1>6. ASSUME NEW w \in Writers, Finish(w)
      PROVE  Contract!Succeed(w) \/ Contract!ReportFailures(w)
  <2>1. result[w] = Running
    BY <1>6 DEF Finish, IInv, TypeOK
  <2>2. pos[w] = Height[w] /\ size[w] = 0 /\ Height[w] \in Nat
    BY <1>6 DEF Finish, IInv, Control
  <2>3. sent[w] = Rows(w) /\ Rows(w) \subseteq stored[w] \cup refused[w]
        /\ failures[w] = refused[w] \cap Rows(w)
    <3>1. /\ sent[w] = 0 .. (pos[w] + size[w] - 1)
          /\ 0 .. (pos[w] - 1) \subseteq stored[w] \cup refused[w]
          /\ failures[w] = refused[w] \cap 0 .. (pos[w] - 1)
      BY DEF IInv, Accounting
    <3> QED BY <2>2, <3>1 DEF Rows
  <2>4. stored[w] \cup refused[w] = Rows(w) /\ failures[w] = refused[w]
    BY <2>3 DEF IInv, TypeOK
  <2>5. CASE failures[w] = {}
    <3>1. stored[w] = Rows(w) /\ refused[w] = {}
      BY <2>4, <2>5
    <3>2. result'[w] = Contract!Returned(inserted[w])
      BY <1>6, <2>5 DEF Finish, Raise, IInv, TypeOK
    <3>3. inserted[w] = Height[w]
      <4>1. ResultTruthful'
        BY IInvTruthful, PTL
      <4>2. result'[w].kind = "returned" /\ result'[w].count = inserted[w]
        BY <3>2 DEF Contract!Returned
      <4> QED BY <4>1, <4>2 DEF ResultTruthful
    <3>4. Contract!End(w, Contract!Returned(Height[w]))
      BY <1>6, <2>1, <2>5, <3>3 DEF Finish, Raise, Contract!End, serverVars, Running
    <3> QED
      BY <3>1, <3>4 DEF Contract!Succeed, Contract!Rows, Rows
  <2>6. CASE failures[w] # {}
    <3>1. Contract!End(w, Contract!WriteError(refused[w]))
      BY <1>6, <2>1, <2>4, <2>6 DEF Finish, Raise, Contract!End, serverVars, Running
    <3> QED
      BY <2>4, <2>6, <3>1 DEF Contract!ReportFailures, Contract!Settled, Contract!Rows, Rows
  <2> QED BY <2>5, <2>6
<1>7. CASE CloseBegin \/ CloseEnd \/ UNCHANGED vars
  <2>1. Same
    BY <1>7 DEF CloseBegin, CloseEnd, vars, serverVars
  <2> QED BY <2>1 DEF Contract!vars
<1>8. ASSUME NEW w \in Writers, CallStep(w)
      PROVE  [Contract!Next]_(Contract!vars)
  BY <1>1, <1>3, <1>5, <1>6, <1>8 DEF CallStep, Contract!Next, Contract!vars
<1>9. ASSUME NEW w \in Writers, NEW r \in Rows(w), StoreRow(w, r) \/ RefuseRow(w, r)
      PROVE  [Contract!Next]_(Contract!vars)
  BY <1>4, <1>9 DEF Contract!Next
<1> QED
  BY <1>7, <1>8, <1>9 DEF Next

(* Whatever the batch sizes, the order in which the server settles rows    *)
(* and the moment at which the connection closes, a call keeps the         *)
(* contract of WriteContract.                                              *)
THEOREM Refinement == Spec => ImplementsContract
<1>1. Init => Contract!Init
  BY DEF Init, Contract!Init, Running
<1> QED
  BY <1>1, IInvInvariant, StepContract, PTL DEF Spec, ImplementsContract, Contract!Spec
============================================================================
