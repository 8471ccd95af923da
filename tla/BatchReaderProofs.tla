------------------------- MODULE BatchReaderProofs -------------------------
(***************************************************************************)
(* Proofs about BatchReader, for any set of threads, any number of         *)
(* documents and any batch size.                                           *)
(***************************************************************************)
EXTENDS BatchReader, FiniteSetTheorems, TLAPS

(* The types, in the groups the provers take best, without the bound on    *)
(* what a call holds, which is part of Levels.                             *)
Flags == cursor \in BOOLEAN /\ distinct \in BOOLEAN /\ inside \in BOOLEAN

Labels ==
    /\ gil \in Threads \cup {NoThread}
    /\ mutex \in Threads \cup {NoThread}
    /\ pc \in [Threads -> {"idle", "locking", "pulling", "reattaching", "releasing", "probing"}]
    /\ pulled \in [Threads -> {"none", "batch", "stop", "cursor_error"}]
    /\ told \subseteq {"batch", "stop", "cursor_error", "conversion_error", "schema_error"}

Holdings ==
    /\ docs \in [Threads -> SUBSET (1 .. Documents)]
    /\ got \in [Threads -> SUBSET (1 .. Documents)]

Numbers ==
    /\ taken \in 0 .. Documents
    /\ entered \in Nat
    /\ exited \in Nat
    /\ seen \in Nat

Types == Flags /\ Labels /\ Holdings /\ Numbers

(* The thread with the mutex is the one in the driver, its cursor is open, *)
(* and a thread has an answer exactly between its pull and its return.     *)
Locking ==
    /\ \A t \in Threads : pc[t] = "pulling" <=> mutex = t
    /\ mutex # NoThread => cursor
    /\ \A t \in Threads : pulled[t] # "none" <=> pc[t] \in {"reattaching", "releasing"}
    /\ \A t \in Threads : pc[t] = "releasing" => pulled[t] = "batch"

(* The counters tell whether the driver is in use.                         *)
Counting ==
    /\ entered = exited + (IF mutex = NoThread THEN 0 ELSE 1)
    /\ seen <= entered

(* Documents are in hand only between the lock and the answer, and those   *)
(* in hand or given were taken.                                            *)
Hands ==
    /\ \A t \in Threads :
          docs[t] # {} => pc[t] \in {"pulling", "reattaching", "releasing"}
                          /\ pulled[t] \in {"none", "batch"}
    /\ \A t \in Threads : docs[t] \subseteq 1 .. taken /\ got[t] \subseteq 1 .. taken
    /\ Apart

(* A call holds a batch at most, and an unfinished pull holds the          *)
(* documents taken last.                                                   *)
Levels ==
    \A t \in Threads :
        /\ Cardinality(docs[t]) <= BatchSize
        /\ pc[t] = "pulling" => docs[t] = (taken - Cardinality(docs[t]) + 1) .. taken

(* Without an error nothing taken is missing, and the cursor closes only   *)
(* at its end.                                                             *)
Complete == ~ErrorOut => Accounted = 1 .. taken /\ (~cursor => taken = Documents)

(* Every end that is told, or about to be, has closed the cursor.          *)
Released ==
    /\ CursorReleased
    /\ \A t \in Threads : pulled[t] \in {"stop", "cursor_error"} => ~cursor

IInv == Types /\ Locking /\ Counting /\ Hands /\ Levels /\ Unbroken /\ Complete /\ Released

LEMMA InitIInv == Init => IInv
<1> SUFFICES ASSUME Init
             PROVE  IInv
  OBVIOUS
<1> USE NoThreadAssumption, DocumentsAssumption, BatchSizeAssumption DEF Init
<1>1. Flags /\ Labels
  BY DEF Flags, Labels
<1>2. Holdings
  BY DEF Holdings
<1>3. Numbers
  BY DEF Numbers
<1>4. Locking
  BY DEF Locking
<1>5. Counting
  BY DEF Counting
<1>6. Hands
  BY DEF Hands, Apart
<1>7. Levels
  BY FS_EmptySet DEF Levels
<1>8. Complete
  BY DEF Complete, Accounted
<1>9. Released
  BY DEF Released, CursorReleased
<1>10. Unbroken
  BY DEF Unbroken
<1> QED
  BY <1>1, <1>2, <1>3, <1>4, <1>5, <1>6, <1>7, <1>8, <1>9, <1>10 DEF IInv, Types

LEMMA StepTypes == Types /\ [Next]_vars => Types'
<1> SUFFICES ASSUME Types, [Next]_vars
             PROVE  Types'
  OBVIOUS
<1> USE NoThreadAssumption, DocumentsAssumption
    DEF Types, readerVars, callerVars, countVars, probeVars, Goto
<1>1. ASSUME NEW t \in Threads, Call(t) \/ Lock(t) \/ LockEnded(t) \/ Advance(t)
      PROVE  Types'
  <2>1. Flags'
    BY <1>1 DEF Flags, Call, Lock, LockEnded, Advance
  <2>2. Labels'
    BY <1>1 DEF Labels, Call, Lock, LockEnded, Advance
  <2>3. Holdings'
    BY <1>1 DEF Holdings, Numbers, Call, Lock, LockEnded, Advance
  <2>4. Numbers'
    BY <1>1 DEF Numbers, Call, Lock, LockEnded, Advance
  <2> QED
    BY <2>1, <2>2, <2>3, <2>4
<1>2. ASSUME NEW t \in Threads, Full(t) \/ Finished(t) \/ Failed(t)
      PROVE  Types'
  <2>1. Flags'
    BY <1>2 DEF Flags, Full, Finished, Failed, EndPull, Unlock
  <2>2. Labels'
    BY <1>2 DEF Labels, Full, Finished, Failed, EndPull, Unlock
  <2>3. Holdings'
    BY <1>2 DEF Holdings, Numbers, Full, Finished, Failed, EndPull, Unlock
  <2>4. Numbers'
    BY <1>2 DEF Numbers, Full, Finished, Failed, EndPull, Unlock
  <2> QED
    BY <2>1, <2>2, <2>3, <2>4
<1>3. ASSUME NEW t \in Threads, Reattach(t) \/ Release(t)
      PROVE  Types'
  <2>1. Flags'
    BY <1>3 DEF Flags, Reattach, Answered, Delivered, Unframed, Undecoded, Release, Conclude
  <2>2. Labels'
    BY <1>3 DEF Labels, Reattach, Answered, Delivered, Unframed, Undecoded, Release, Conclude
  <2>3. Holdings'
    BY <1>3 DEF Holdings, Numbers, Reattach, Answered, Delivered, Unframed, Undecoded, Release, Conclude
  <2>4. Numbers'
    BY <1>3 DEF Numbers, Reattach, Answered, Delivered, Unframed, Undecoded, Release, Conclude
  <2> QED
    BY <2>1, <2>2, <2>3, <2>4
<1>4. ASSUME NEW t \in Threads, Probe(t)
      PROVE  Types'
  <2>1. Flags'
    <3>1. cursor' \in BOOLEAN /\ distinct' \in BOOLEAN
      BY <1>4 DEF Flags, Probe
    <3>2. (seen > exited) \in BOOLEAN
      BY DEF Numbers
    <3>3. inside' = FALSE \/ inside' = (seen > exited)
      BY <1>4, Zenon DEF Probe, ProbeStep
    <3>4. inside' \in BOOLEAN
      BY <3>2, <3>3, Zenon
    <3> QED
      BY <3>1, <3>4 DEF Flags
  <2>2. Labels'
    BY <1>4 DEF Labels, Probe, ProbeStep
  <2>3. Holdings'
    BY <1>4 DEF Holdings, Numbers, Probe, ProbeStep
  <2>4. Numbers'
    BY <1>4 DEF Numbers, Probe, ProbeStep
  <2> QED
    BY <2>1, <2>2, <2>3, <2>4
<1>5. CASE UNCHANGED vars
  BY <1>5 DEF vars, Flags, Labels, Holdings, Numbers
<1> QED
  BY <1>1, <1>2, <1>3, <1>4, <1>5 DEF Next, Pulling

LEMMA StepLocking == Types /\ Locking /\ [Next]_vars => Locking'
<1> SUFFICES ASSUME Types, Locking, [Next]_vars
             PROVE  Locking'
  OBVIOUS
<1> USE NoThreadAssumption
    DEF Types, Labels, Locking, readerVars, callerVars, countVars, probeVars, Goto
<1>1. ASSUME NEW t \in Threads, Call(t) \/ Lock(t) \/ LockEnded(t) \/ Advance(t)
      PROVE  Locking'
  BY <1>1 DEF Call, Lock, LockEnded, Advance
<1>2. ASSUME NEW t \in Threads, Full(t) \/ Finished(t) \/ Failed(t)
      PROVE  Locking'
  BY <1>2 DEF Full, Finished, Failed, EndPull, Unlock
<1>3. ASSUME NEW t \in Threads, Reattach(t) \/ Release(t)
      PROVE  Locking'
  BY <1>3 DEF Reattach, Answered, Delivered, Unframed, Undecoded, Release, Conclude
<1>4. ASSUME NEW t \in Threads, Probe(t)
      PROVE  Locking'
  BY <1>4 DEF Probe, ProbeStep
<1>5. CASE UNCHANGED vars
  BY <1>5 DEF vars
<1> QED
  BY <1>1, <1>2, <1>3, <1>4, <1>5 DEF Next, Pulling

LEMMA StepCounting == Types /\ Locking /\ Counting /\ [Next]_vars => Counting'
<1> SUFFICES ASSUME Types, Locking, Counting, [Next]_vars
             PROVE  Counting'
  OBVIOUS
<1> USE NoThreadAssumption
    DEF Types, Labels, Numbers, Locking, Counting, readerVars, callerVars, countVars, probeVars, Goto
<1>1. ASSUME NEW t \in Threads, Call(t) \/ Lock(t) \/ LockEnded(t) \/ Advance(t)
      PROVE  Counting'
  BY <1>1 DEF Call, Lock, LockEnded, Advance
<1>2. ASSUME NEW t \in Threads, Full(t) \/ Finished(t) \/ Failed(t)
      PROVE  Counting'
  BY <1>2 DEF Full, Finished, Failed, EndPull, Unlock
<1>3. ASSUME NEW t \in Threads, Reattach(t) \/ Release(t)
      PROVE  Counting'
  BY <1>3 DEF Reattach, Answered, Delivered, Unframed, Undecoded, Release, Conclude
<1>4. ASSUME NEW t \in Threads, Probe(t)
      PROVE  Counting'
  BY <1>4 DEF Probe, ProbeStep
<1>5. CASE UNCHANGED vars
  BY <1>5 DEF vars
<1> QED
  BY <1>1, <1>2, <1>3, <1>4, <1>5 DEF Next, Pulling

----------------------------------------------------------------------------
(* A step that takes no document, and only lets go of some, keeps them     *)
(* apart.                                                                  *)
Letting ==
    /\ taken' \in Nat /\ taken <= taken'
    /\ got' = got
    /\ \A u \in Threads : docs'[u] \subseteq docs[u]

LEMMA LettingApart ==
    ASSUME Types, Hands, Letting
    PROVE  /\ \A u \in Threads : docs'[u] \subseteq 1 .. taken' /\ got'[u] \subseteq 1 .. taken'
           /\ Apart'
<1>1. \A u \in Threads : docs'[u] \subseteq 1 .. taken' /\ got'[u] \subseteq 1 .. taken'
  BY DEF Types, Numbers, Hands, Letting
<1>2. Apart'
  BY DEF Hands, Apart, Letting
<1> QED
  BY <1>1, <1>2

LEMMA StepHands == Types /\ Types' /\ Locking /\ Hands /\ [Next]_vars => Hands'
<1> SUFFICES ASSUME Types, Types', Locking, Hands, [Next]_vars
             PROVE  Hands'
  OBVIOUS
<1> DEFINE Placed == \A t \in Threads :
                        docs[t] # {} => pc[t] \in {"pulling", "reattaching", "releasing"}
                                        /\ pulled[t] \in {"none", "batch"}
<1> USE NoThreadAssumption, DocumentsAssumption
    DEF Types, Labels, Holdings, Numbers, Locking, readerVars, callerVars, countVars, probeVars, Goto
<1>1. ASSUME NEW t \in Threads, Call(t) \/ Lock(t) \/ LockEnded(t) \/ Probe(t)
      PROVE  Hands'
  <2>1. Placed'
    BY <1>1 DEF Hands, Call, Lock, LockEnded, Probe, ProbeStep
  <2>2. Letting
    BY <1>1 DEF Letting, Call, Lock, LockEnded, Probe
  <2> QED
    BY <2>1, <2>2, LettingApart DEF Hands
<1>2. ASSUME NEW t \in Threads, Advance(t)
      PROVE  Hands'
  <2> DEFINE new == taken + 1
  <2>1. /\ taken' = new /\ new \in 1 .. Documents
        /\ \A u \in Threads : docs'[u] = IF u = t THEN docs[t] \cup {new} ELSE docs[u]
        /\ got' = got /\ pc' = pc /\ pulled' = pulled /\ pc[t] = "pulling"
    BY <1>2 DEF Advance
  <2>2. Placed'
    BY <2>1 DEF Hands
  <2>3. \A u \in Threads : docs'[u] \subseteq 1 .. taken' /\ got'[u] \subseteq 1 .. taken'
    BY <2>1 DEF Hands
  <2>4. \A u \in Threads : new \notin docs[u] /\ \A d \in got[u] : d < new
    BY DEF Hands
  <2>5. Apart'
    BY <2>1, <2>4 DEF Hands, Apart
  <2> QED
    BY <2>2, <2>3, <2>5 DEF Hands
<1>3. ASSUME NEW t \in Threads, Full(t) \/ Finished(t) \/ Failed(t)
      PROVE  Hands'
  <2>1. Placed'
    BY <1>3 DEF Hands, Full, Finished, Failed, EndPull
  <2>2. Letting
    BY <1>3 DEF Letting, Full, Finished, Failed, EndPull
  <2> QED
    BY <2>1, <2>2, LettingApart DEF Hands
<1>4. ASSUME NEW t \in Threads, Answered(t) \/ Unframed(t) \/ Undecoded(t) \/ Release(t)
      PROVE  Hands'
  <2>1. Placed'
    BY <1>4 DEF Hands, Answered, Unframed, Undecoded, Release, Conclude
  <2>2. Letting
    BY <1>4 DEF Letting, Answered, Unframed, Undecoded, Release, Conclude
  <2> QED
    BY <2>1, <2>2, LettingApart DEF Hands
<1>5. ASSUME NEW t \in Threads, Delivered(t)
      PROVE  Hands'
  <2>1. /\ taken' = taken
        /\ \A u \in Threads : docs'[u] = IF u = t THEN {} ELSE docs[u]
        /\ \A u \in Threads : got'[u] = IF u = t THEN got[t] \cup docs[t] ELSE got[u]
        /\ \A u \in Threads : u # t => pc'[u] = pc[u] /\ pulled'[u] = pulled[u]
    BY <1>5 DEF Delivered, Conclude
  <2>2. Placed'
    BY <2>1 DEF Hands
  <2>3. \A u \in Threads : docs'[u] \subseteq 1 .. taken' /\ got'[u] \subseteq 1 .. taken'
    BY <2>1 DEF Hands
  <2>4. ASSUME NEW u \in Threads, NEW v \in Threads
        PROVE  /\ u # v => got'[u] \cap got'[v] = {} /\ docs'[u] \cap docs'[v] = {}
               /\ docs'[u] \cap got'[v] = {}
    BY <2>1 DEF Hands, Apart
  <2>5. ASSUME NEW u \in Threads
        PROVE  \A d \in got'[u], e \in docs'[u] : d < e
    BY <2>1 DEF Hands, Apart
  <2> QED
    BY <2>2, <2>3, <2>4, <2>5 DEF Hands, Apart
<1>6. CASE UNCHANGED vars
  BY <1>6 DEF vars, Hands, Apart
<1> QED
  BY <1>1, <1>2, <1>3, <1>4, <1>5, <1>6 DEF Next, Pulling, Reattach

----------------------------------------------------------------------------
(* What a call has in hand is finite, and one more document makes it one   *)
(* larger.                                                                 *)
LEMMA HoldingsFinite ==
    ASSUME Types, NEW t \in Threads
    PROVE  IsFiniteSet(docs[t]) /\ Cardinality(docs[t]) \in Nat
<1>1. IsFiniteSet(1 .. Documents)
  BY DocumentsAssumption, FS_Interval
<1>2. docs[t] \subseteq 1 .. Documents
  BY DEF Types, Holdings
<1>3. IsFiniteSet(docs[t])
  BY <1>1, <1>2, FS_Subset
<1> QED
  BY <1>3, FS_CardinalityType

LEMMA IntervalGrows == \A a, b \in Int : a <= b + 1 => (a .. b) \cup {b + 1} = a .. (b + 1)
  OBVIOUS

LEMMA AdvanceLevel ==
    ASSUME Types, Hands, NEW t \in Threads, Advance(t)
    PROVE  Cardinality(docs'[t]) = Cardinality(docs[t]) + 1
<1>1. taken + 1 \notin docs[t]
  BY DEF Hands, Types, Numbers
<1>2. docs'[t] = docs[t] \cup {taken + 1}
  BY DEF Advance, Types, Holdings
<1> QED
  BY <1>1, <1>2, HoldingsFinite, FS_AddElement

LEMMA StepLevels == Types /\ Locking /\ Hands /\ Levels /\ [Next]_vars => Levels'
<1> SUFFICES ASSUME Types, Locking, Hands, Levels, [Next]_vars, NEW u \in Threads
             PROVE  /\ Cardinality(docs'[u]) <= BatchSize
                    /\ pc'[u] = "pulling" =>
                          docs'[u] = (taken' - Cardinality(docs'[u]) + 1) .. taken'
  BY DEF Levels
<1> DEFINE Level == /\ Cardinality(docs[u]) <= BatchSize
                    /\ pc[u] = "pulling" => docs[u] = (taken - Cardinality(docs[u]) + 1) .. taken
<1> USE NoThreadAssumption, DocumentsAssumption, BatchSizeAssumption
    DEF readerVars, callerVars, countVars, probeVars, Goto
<1>0. Level /\ Cardinality({}) = 0
  BY FS_EmptySet DEF Levels
<1>1. ASSUME docs'[u] = docs[u], pc'[u] = "pulling" => pc[u] = "pulling" /\ taken' = taken
      PROVE  Level'
  BY <1>0, <1>1
<1>2. ASSUME docs'[u] = {}, pc'[u] # "pulling"
      PROVE  Level'
  BY <1>0, <1>2
<1>3. ASSUME NEW t \in Threads, Call(t) \/ LockEnded(t) \/ Probe(t) \/ Undecoded(t)
      PROVE  Level'
  BY <1>1, <1>3 DEF Call, LockEnded, Probe, ProbeStep, Undecoded, Types, Labels
<1>4. ASSUME NEW t \in Threads, Lock(t)
      PROVE  Level'
  <2>1. docs' = docs /\ taken' = taken /\ pc[t] = "locking" /\ pc' = [pc EXCEPT ![t] = "pulling"]
    BY <1>4 DEF Lock
  <2>2. CASE u = t
    <3>1. docs[u] = {}
      BY <2>1, <2>2 DEF Hands
    <3>2. taken \in Nat /\ {} = (taken - 0 + 1) .. taken
      BY DEF Types, Numbers
    <3> QED
      BY <1>0, <2>1, <3>1, <3>2
  <2>3. CASE u # t
    BY <1>1, <2>1, <2>3 DEF Types, Labels
  <2> QED
    BY <2>2, <2>3
<1>5. ASSUME NEW t \in Threads, Advance(t)
      PROVE  Level'
  <2>1. /\ taken' = taken + 1 /\ taken \in Nat /\ pc' = pc /\ pc[t] = "pulling"
        /\ docs' = [docs EXCEPT ![t] = @ \cup {taken + 1}]
        /\ Cardinality(docs[t]) < BatchSize
    BY <1>5 DEF Advance, Types, Numbers
  <2>2. CASE u = t
    <3>1. Cardinality(docs[t]) \in Nat /\ Cardinality(docs'[t]) = Cardinality(docs[t]) + 1
      BY <1>5, AdvanceLevel, HoldingsFinite
    <3>2. docs[t] = (taken - Cardinality(docs[t]) + 1) .. taken
      BY <1>0, <2>1, <2>2
    <3>3. docs'[t] = docs[t] \cup {taken + 1}
      BY <2>1 DEF Types, Holdings
    <3>4. docs'[t] = (taken - Cardinality(docs[t]) + 1) .. (taken + 1)
      <4> DEFINE low == taken - Cardinality(docs[t]) + 1
      <4>1. low \in Int /\ taken \in Int /\ low <= taken + 1
        BY <2>1, <3>1
      <4> HIDE DEF low
      <4>2. (low .. taken) \cup {taken + 1} = low .. (taken + 1)
        BY <4>1, IntervalGrows
      <4> QED
        BY <3>2, <3>3, <4>2 DEF low
    <3>5. taken' - Cardinality(docs'[t]) + 1 = taken - Cardinality(docs[t]) + 1
      BY <2>1, <3>1
    <3>6. Cardinality(docs'[t]) <= BatchSize
      BY <2>1, <3>1
    <3> QED
      BY <2>1, <2>2, <3>4, <3>5, <3>6
  <2>3. CASE u # t
    <3>1. pc[u] # "pulling"
      BY <2>1, <2>3 DEF Locking
    <3> QED
      BY <1>1, <2>1, <2>3, <3>1 DEF Types, Holdings
  <2> QED
    BY <2>2, <2>3
<1>6. ASSUME NEW t \in Threads, Full(t) \/ Finished(t) \/ Failed(t)
      PROVE  Level'
  <2>1. /\ pc[t] = "pulling" /\ pc' = [pc EXCEPT ![t] = "reattaching"]
        /\ docs' = docs \/ docs' = [docs EXCEPT ![t] = {}]
    BY <1>6 DEF Full, Finished, Failed, EndPull
  <2>2. pc'[u] # "pulling"
    BY <2>1 DEF Types, Labels, Locking
  <2>3. docs'[u] = docs[u] \/ docs'[u] = {}
    BY <2>1 DEF Types, Holdings
  <2> QED
    BY <1>1, <1>2, <2>2, <2>3
<1>7. ASSUME NEW t \in Threads, Answered(t) \/ Delivered(t) \/ Unframed(t) \/ Release(t)
      PROVE  Level'
  <2>1. /\ pc' = [pc EXCEPT ![t] = "idle"] /\ docs' = [docs EXCEPT ![t] = {}]
        /\ taken' = taken
    BY <1>7 DEF Answered, Delivered, Unframed, Release, Conclude
  <2>2. CASE u = t
    <3>1. docs'[u] = {} /\ pc'[u] = "idle"
      BY <2>1, <2>2 DEF Types, Labels, Holdings
    <3> QED
      BY <1>2, <3>1
  <2>3. CASE u # t
    BY <1>1, <2>1, <2>3 DEF Types, Labels, Holdings
  <2> QED
    BY <2>2, <2>3
<1>8. CASE UNCHANGED vars
  BY <1>1, <1>8 DEF vars
<1> QED
  BY <1>3, <1>4, <1>5, <1>6, <1>7, <1>8 DEF Next, Pulling, Reattach

----------------------------------------------------------------------------
(* Only a step that raises an error, or is bound to, starts one, and none  *)
(* is forgotten.                                                           *)
LEMMA ErrorsStay == Types /\ Locking /\ [Next]_vars /\ ~ErrorOut' => ~ErrorOut
<1> SUFFICES ASSUME Types, Locking, [Next]_vars, ErrorOut
             PROVE  ErrorOut'
  OBVIOUS
<1> USE DEF Types, Labels, Locking, ErrorOut, readerVars, callerVars, countVars, probeVars, Goto
<1>1. ASSUME NEW t \in Threads, Call(t) \/ Lock(t) \/ LockEnded(t) \/ Advance(t) \/ Probe(t)
      PROVE  ErrorOut'
  BY <1>1 DEF Call, Lock, LockEnded, Advance, Probe, ProbeStep
<1>2. ASSUME NEW t \in Threads, Full(t) \/ Finished(t) \/ Failed(t)
      PROVE  ErrorOut'
  BY <1>2 DEF Full, Finished, Failed, EndPull
<1>3. ASSUME NEW t \in Threads, Reattach(t) \/ Release(t)
      PROVE  ErrorOut'
  BY <1>3 DEF Reattach, Answered, Delivered, Unframed, Undecoded, Release, Conclude
<1>4. CASE UNCHANGED vars
  BY <1>4 DEF vars
<1> QED
  BY <1>1, <1>2, <1>3, <1>4 DEF Next, Pulling

LEMMA StepComplete ==
    Types /\ Locking /\ Hands /\ Complete /\ [Next]_vars => Complete'
<1> SUFFICES ASSUME Types, Locking, Hands, Complete, [Next]_vars, ~ErrorOut'
             PROVE  Accounted' = 1 .. taken' /\ (~cursor' => taken' = Documents)
  BY DEF Complete
<1> USE DEF Types, Labels, Holdings, Numbers, Locking, readerVars, callerVars, countVars, probeVars, Goto
<1>1. Accounted = 1 .. taken /\ (~cursor => taken = Documents)
  BY ErrorsStay DEF Complete
<1>2. ASSUME \A u \in Threads : docs'[u] \cup got'[u] = docs[u] \cup got[u]
      PROVE  Accounted' = Accounted
  BY <1>2 DEF Accounted
<1>3. ASSUME NEW t \in Threads, Call(t) \/ Lock(t) \/ LockEnded(t) \/ Probe(t) \/ Undecoded(t) \/ Full(t)
      PROVE  Accounted' = 1 .. taken' /\ (~cursor' => taken' = Documents)
  BY <1>1, <1>2, <1>3 DEF Call, Lock, LockEnded, Probe, Undecoded, Full, EndPull
<1>4. ASSUME NEW t \in Threads, Advance(t)
      PROVE  Accounted' = 1 .. taken' /\ (~cursor' => taken' = Documents)
  <2>1. /\ taken' = taken + 1 /\ cursor' = cursor /\ cursor /\ got' = got
        /\ \A u \in Threads : docs'[u] = IF u = t THEN docs[t] \cup {taken + 1} ELSE docs[u]
    BY <1>4, NoThreadAssumption DEF Advance
  <2>2. Accounted' = Accounted \cup {taken + 1}
    BY <2>1 DEF Accounted
  <2> QED
    BY <1>1, <2>1, <2>2
<1>5. ASSUME NEW t \in Threads, Finished(t)
      PROVE  Accounted' = 1 .. taken' /\ (~cursor' => taken' = Documents)
  BY <1>1, <1>2, <1>5 DEF Finished, EndPull
<1>6. ASSUME NEW t \in Threads, Failed(t)
      PROVE  FALSE
  BY <1>6 DEF Failed, EndPull, ErrorOut
<1>7. ASSUME NEW t \in Threads, Answered(t)
      PROVE  Accounted' = 1 .. taken' /\ (~cursor' => taken' = Documents)
  <2>1. pulled[t] = "stop"
    BY <1>7 DEF Answered, Conclude, ErrorOut
  <2>2. docs[t] = {}
    BY <2>1 DEF Hands
  <2>3. \A u \in Threads : docs'[u] = docs[u]
    BY <1>7, <2>2 DEF Answered, Conclude
  <2> QED
    BY <1>1, <1>2, <1>7, <2>3 DEF Answered, Conclude
<1>8. ASSUME NEW t \in Threads, Delivered(t)
      PROVE  Accounted' = 1 .. taken' /\ (~cursor' => taken' = Documents)
  <2>1. \A u \in Threads : docs'[u] \cup got'[u] = docs[u] \cup got[u]
    BY <1>8 DEF Delivered, Conclude
  <2> QED
    BY <1>1, <1>2, <1>8, <2>1 DEF Delivered, Conclude
<1>9. ASSUME NEW t \in Threads, Unframed(t) \/ Release(t)
      PROVE  FALSE
  BY <1>9 DEF Unframed, Release, Conclude, ErrorOut
<1>10. CASE UNCHANGED vars
  BY <1>1, <1>2, <1>10 DEF vars
<1> QED
  BY <1>3, <1>4, <1>5, <1>6, <1>7, <1>8, <1>9, <1>10 DEF Next, Pulling, Reattach

(* A step leaves what a call has in hand, takes it away or, under the      *)
(* mutex, adds the document that follows it.                               *)
LEMMA StepUnbroken == Types /\ Levels /\ Unbroken /\ [Next]_vars => Unbroken'
<1> SUFFICES ASSUME Types, Levels, Unbroken, [Next]_vars, NEW u \in Threads
             PROVE  \A d, e \in docs'[u] : d .. e \subseteq docs'[u]
  BY DEF Unbroken
<1> USE DEF Types, Holdings, readerVars, callerVars, countVars, probeVars
<1>1. ASSUME docs'[u] = docs[u] \/ docs'[u] = {}
      PROVE  \A d, e \in docs'[u] : d .. e \subseteq docs'[u]
  BY <1>1 DEF Unbroken
<1>2. ASSUME NEW t \in Threads, Call(t) \/ Lock(t) \/ LockEnded(t) \/ Probe(t) \/ Undecoded(t)
      PROVE  docs' = docs
  BY <1>2 DEF Call, Lock, LockEnded, Probe, Undecoded
<1>3. ASSUME NEW t \in Threads, Full(t) \/ Finished(t) \/ Failed(t)
      PROVE  docs'[u] = docs[u] \/ docs'[u] = {}
  BY <1>3 DEF Full, Finished, Failed
<1>4. ASSUME NEW t \in Threads, Answered(t) \/ Delivered(t) \/ Unframed(t) \/ Release(t)
      PROVE  docs'[u] = docs[u] \/ docs'[u] = {}
  BY <1>4 DEF Answered, Delivered, Unframed, Release, Conclude
<1>5. ASSUME NEW t \in Threads, Advance(t), u = t
      PROVE  \A d, e \in docs'[u] : d .. e \subseteq docs'[u]
  <2> DEFINE first == taken - Cardinality(docs[u]) + 1
  <2>1. docs[u] = first .. taken /\ docs'[u] = docs[u] \cup {taken + 1}
    BY <1>5 DEF Advance, Levels
  <2>2. taken \in Int
    BY DEF Numbers
  <2>3. first \in Int
    <3>1. IsFiniteSet(docs[u])
      BY HoldingsFinite
    <3> QED
      BY <2>2, <3>1, FS_CardinalityType
  <2> HIDE DEF first
  <2>4. ASSUME NEW d \in docs'[u], NEW e \in docs'[u], NEW x \in d .. e
        PROVE  x \in docs'[u]
    BY <2>1, <2>2, <2>3
  <2> QED
    BY <2>4
<1>6. ASSUME NEW t \in Threads, Advance(t), u # t
      PROVE  docs'[u] = docs[u]
  BY <1>6 DEF Advance
<1>7. CASE UNCHANGED vars
  BY <1>1, <1>7 DEF vars
<1> QED
  BY <1>1, <1>2, <1>3, <1>4, <1>5, <1>6, <1>7 DEF Next, Pulling, Reattach

LEMMA StepReleased == Types /\ Released /\ [Next]_vars => Released'
<1> SUFFICES ASSUME Types, Released, [Next]_vars
             PROVE  Released'
  OBVIOUS
<1> USE DEF Types, Labels, Released, CursorReleased, readerVars, callerVars, countVars, probeVars, Goto
<1>1. ASSUME NEW t \in Threads, Call(t) \/ Lock(t) \/ LockEnded(t) \/ Advance(t) \/ Probe(t)
      PROVE  Released'
  BY <1>1 DEF Call, Lock, LockEnded, Advance, Probe
<1>2. ASSUME NEW t \in Threads, Full(t) \/ Finished(t) \/ Failed(t)
      PROVE  Released'
  BY <1>2 DEF Full, Finished, Failed, EndPull
<1>3. ASSUME NEW t \in Threads, Reattach(t) \/ Release(t)
      PROVE  Released'
  BY <1>3 DEF Reattach, Answered, Delivered, Unframed, Undecoded, Release, Conclude
<1>4. CASE UNCHANGED vars
  BY <1>4 DEF vars
<1> QED
  BY <1>1, <1>2, <1>3, <1>4 DEF Next, Pulling

LEMMA IInvInvariant == Spec => []IInv
<1>1. IInv /\ [Next]_vars => IInv'
  BY StepTypes, StepLocking, StepCounting, StepHands, StepLevels, StepUnbroken, StepComplete, StepReleased
     DEF IInv
<1> QED
  BY InitIInv, <1>1, PTL DEF Spec

----------------------------------------------------------------------------
(* Every variable keeps its type, and no call ever holds more than a batch *)
(* of documents: the buffer of __next__ stays within batch_size.           *)
THEOREM TypeCorrect == Spec => []TypeOK
<1>1. IInv => TypeOK
  BY DEF IInv, Types, Flags, Labels, Holdings, Numbers, Levels, TypeOK
<1> QED
  BY <1>1, IInvInvariant, PTL

(* However the threads that share a reader interleave, no document is      *)
(* given twice, each thread sees the order of the cursor, and a call has   *)
(* no gaps in its batch.                                                   *)
THEOREM ConsecutiveBatchesHold == Spec => []ConsecutiveBatches
<1>1. IInv => ConsecutiveBatches
  BY DEF IInv, Hands, ConsecutiveBatches
<1> QED
  BY <1>1, IInvInvariant, PTL

(* Unless an error is raised, every document the cursor has passed is with *)
(* a caller, and a StopIteration is said only at the end of the scan.      *)
THEOREM NoSilentLossHolds == Spec => []NoSilentLoss
<1>1. IInv => NoSilentLoss
  <2> SUFFICES ASSUME IInv, ~ErrorOut
               PROVE  Accounted = 1 .. taken /\ ("stop" \in told => taken = Documents)
    BY DEF NoSilentLoss
  <2>1. Accounted = 1 .. taken /\ (~cursor => taken = Documents)
    BY DEF IInv, Complete
  <2>2. "stop" \in told => ~cursor
    BY DEF IInv, Released, CursorReleased
  <2> QED
    BY <2>1, <2>2
<1> QED
  BY <1>1, IInvInvariant, PTL

(* Whoever has been told the end of the scan, or an error of the cursor or *)
(* of a conversion, leaves no cursor open.                                 *)
THEOREM CursorReleasedHolds == Spec => []CursorReleased
<1>1. IInv => CursorReleased
  BY DEF IInv, Released
<1> QED
  BY <1>1, IInvInvariant, PTL

(* A probe of the counters that concludes that a reader is inside the      *)
(* driver is right, although the counters move between its two loads.      *)
THEOREM WindowSoundHolds == Spec => WindowSound
<1> DEFINE Sound == \A t \in Threads :
              pc[t] = "probing" /\ pc'[t] = "idle" /\ inside' => \E u \in Threads : pc[u] = "pulling"
<1>1. IInv /\ [Next]_vars => [Sound]_vars
  <2> SUFFICES ASSUME IInv, Next, NEW u \in Threads,
                      pc[u] = "probing", pc'[u] = "idle", inside'
               PROVE  \E v \in Threads : pc[v] = "pulling"
    OBVIOUS
  <2> USE DEF Goto
  <2>1. PICK t \in Threads : Call(t) \/ Pulling(t) \/ Reattach(t) \/ Release(t) \/ Probe(t)
    BY DEF Next
  <2>2. pc \in [Threads -> {"idle", "locking", "pulling", "reattaching", "releasing", "probing"}]
    BY DEF IInv, Types, Labels
  <2>3. ~Call(t) /\ ~Pulling(t)
    BY <2>2 DEF Call, Pulling, Lock, LockEnded, Advance, Full, Finished, Failed, EndPull
  <2>4. ~Reattach(t) /\ ~Release(t)
    BY <2>2 DEF Reattach, Answered, Delivered, Unframed, Undecoded, Release, Conclude
  <2>5. inside' = (seen > exited)
    BY <2>1, <2>2, <2>3, <2>4 DEF Probe, ProbeStep
  <2>6. seen > exited
    BY <2>5
  <2>7. mutex # NoThread
    BY <2>6 DEF IInv, Counting, Types, Numbers
  <2> QED
    BY <2>7 DEF IInv, Types, Labels, Locking
<1> QED
  BY <1>1, IInvInvariant, PTL DEF Spec, WindowSound

----------------------------------------------------------------------------
(* The implementation: what the stream has handed out is what the cursor   *)
(* has passed, less the pull that is not finished.                         *)
LEMMA CommittedType == IInv => Committed \in Nat /\ Committed <= Documents
<1> SUFFICES ASSUME IInv
             PROVE  Committed \in Nat /\ Committed <= Documents
  OBVIOUS
<1>1. taken \in Nat /\ taken <= Documents
  BY DocumentsAssumption DEF IInv, Types, Numbers
<1>2. CASE mutex = NoThread
  BY <1>1, <1>2 DEF Committed
<1>3. CASE mutex # NoThread
  <2>1. mutex \in Threads /\ pc[mutex] = "pulling"
    BY <1>3 DEF IInv, Types, Labels, Locking
  <2>2. Cardinality(docs[mutex]) \in Nat
    BY <2>1, HoldingsFinite DEF IInv
  <2>3. docs[mutex] \subseteq 1 .. taken
    BY <2>1 DEF IInv, Hands
  <2>4. Cardinality(docs[mutex]) <= Cardinality(1 .. taken) /\ Cardinality(1 .. taken) = taken
    BY <1>1, <2>3, FS_Interval, FS_Subset
  <2> QED
    BY <1>1, <1>3, <2>2, <2>4, DocumentsAssumption DEF Committed
<1> QED
  BY <1>2, <1>3

(* The end of a pull takes the batch of the call off the stream.           *)
LEMMA PullTaken ==
    ASSUME IInv, NEW t \in Threads, pc[t] = "pulling"
    PROVE  /\ mutex = t /\ cursor /\ pulled[t] = "none"
           /\ Cardinality(docs[t]) \in Nat
           /\ Committed + Cardinality(docs[t]) = taken
           /\ docs[t] = Contract!Following(Cardinality(docs[t]))
<1>1. mutex = t /\ cursor /\ pulled[t] = "none" /\ mutex # NoThread
  BY NoThreadAssumption DEF IInv, Locking
<1>2. Cardinality(docs[t]) \in Nat /\ taken \in Nat
  BY HoldingsFinite, DocumentsAssumption DEF IInv, Types, Numbers
<1>3. Committed = taken - Cardinality(docs[t])
  BY <1>1 DEF Committed
<1>4. docs[t] = (taken - Cardinality(docs[t]) + 1) .. taken
  BY DEF IInv, Levels
<1>5. Committed + Cardinality(docs[t]) = taken
  BY <1>2, <1>3
<1> QED
  BY <1>1, <1>2, <1>3, <1>4, <1>5 DEF Contract!Following

(* What ends a pull, seen from the stream.                                 *)
LEMMA EndPullTakes ==
    ASSUME IInv, NEW t \in Threads, pc[t] = "pulling", NEW a, EndPull(t, a),
           taken' \in Nat, docs' = docs \/ docs' = [docs EXCEPT ![t] = {}]
    PROVE  Contract!Take(t, taken' - Committed, docs'[t], a)
<1>1. /\ pc' = [pc EXCEPT ![t] = "reattaching"]
      /\ mutex' = NoThread
      /\ pulled' = [pulled EXCEPT ![t] = a]
      /\ got' = got /\ told' = told
  BY DEF EndPull, Unlock, Goto, callerVars
<1>2. pulled[t] = "none" /\ Committed \in Nat
  BY PullTaken, CommittedType
<1>3. Committed' = Committed + (taken' - Committed)
  BY <1>1, <1>2 DEF Committed
<1>4. InHand' = [InHand EXCEPT ![t] = docs'[t]]
  BY <1>1 DEF InHand, IInv, Types, Labels, Holdings
<1> QED
  BY <1>1, <1>2, <1>3, <1>4 DEF Contract!Take

(* What ends a call, seen from the stream.                                 *)
LEMMA ConcludeSays ==
    ASSUME IInv, NEW t \in Threads, pc[t] \in {"reattaching", "releasing"}, NEW a, NEW D,
           Conclude(t, a), got' = [got EXCEPT ![t] = @ \cup D],
           UNCHANGED <<mutex, taken>>
    PROVE  Contract!Say(t, a, D)
<1>1. /\ pc' = [pc EXCEPT ![t] = "idle"]
      /\ docs' = [docs EXCEPT ![t] = {}]
      /\ pulled' = [pulled EXCEPT ![t] = "none"]
      /\ told' = told \cup {a}
  BY DEF Conclude, Goto
<1>2. pulled[t] # "none" /\ mutex # t
  BY DEF IInv, Locking
<1>3. Committed' = Committed
  BY <1>1, <1>2 DEF Committed, IInv, Types, Labels, Holdings
<1>4. InHand' = [InHand EXCEPT ![t] = {}]
  BY <1>1 DEF InHand, IInv, Types, Labels, Holdings
<1> QED
  BY <1>1, <1>2, <1>3, <1>4 DEF Contract!Say

LEMMA StepContract == IInv /\ IInv' /\ [Next]_vars => [Contract!Next]_(Contract!vars)
<1> SUFFICES ASSUME IInv, IInv', [Next]_vars
             PROVE  [Contract!Next]_(Contract!vars)
  OBVIOUS
<1> USE DEF readerVars, callerVars, countVars, probeVars
<1>1. ASSUME NEW t \in Threads, Call(t) \/ Probe(t) \/ Undecoded(t)
      PROVE  UNCHANGED Contract!vars
  <2>1. /\ UNCHANGED <<cursor, mutex, taken, docs, pulled, got, told>>
        /\ \A u \in Threads : pc'[u] = "pulling" <=> pc[u] = "pulling"
    BY <1>1 DEF Call, Probe, ProbeStep, Undecoded, Goto, IInv, Types, Labels
  <2>2. InHand' = InHand
    BY <2>1 DEF InHand
  <2>3. Committed' = Committed
    BY <2>1 DEF Committed
  <2> QED
    BY <2>1, <2>2, <2>3 DEF Contract!vars
<1>2. ASSUME NEW t \in Threads, Lock(t)
      PROVE  UNCHANGED Contract!vars
  <2>1. /\ UNCHANGED <<cursor, taken, docs, pulled, got, told>>
        /\ mutex = NoThread /\ mutex' = t /\ pc[t] = "locking"
        /\ pc' = [pc EXCEPT ![t] = "pulling"]
    BY <1>2 DEF Lock, Goto
  <2>2. docs[t] = {} /\ Cardinality({}) = 0 /\ taken \in Nat
    BY <2>1, FS_EmptySet, DocumentsAssumption DEF IInv, Hands, Types, Numbers
  <2>3. InHand' = InHand
    BY <2>1, <2>2 DEF InHand, IInv, Types, Labels
  <2>4. Committed' = Committed
    BY <2>1, <2>2, NoThreadAssumption DEF Committed
  <2> QED
    BY <2>1, <2>3, <2>4 DEF Contract!vars
<1>3. ASSUME NEW t \in Threads, LockEnded(t)
      PROVE  Contract!Exhausted(t)
  <2>1. /\ UNCHANGED <<cursor, mutex, taken, docs, got, told>>
        /\ ~cursor /\ pc[t] = "locking" /\ pc' = [pc EXCEPT ![t] = "reattaching"]
        /\ pulled' = [pulled EXCEPT ![t] = "stop"]
    BY <1>3 DEF LockEnded, Goto
  <2>2. docs[t] = {} /\ pulled[t] = "none"
    BY <2>1 DEF IInv, Hands, Locking
  <2>3. InHand' = [InHand EXCEPT ![t] = {}]
    BY <2>1, <2>2 DEF InHand, IInv, Types, Labels
  <2>4. Committed' = Committed + 0
    BY <2>1, CommittedType DEF Committed
  <2> QED
    BY <2>1, <2>2, <2>3, <2>4 DEF Contract!Exhausted, Contract!Take
<1>4. ASSUME NEW t \in Threads, Advance(t)
      PROVE  UNCHANGED Contract!vars
  <2>1. /\ UNCHANGED <<cursor, mutex, pc, pulled, got, told>>
        /\ pc[t] = "pulling" /\ taken' = taken + 1
        /\ docs' = [docs EXCEPT ![t] = @ \cup {taken + 1}]
    BY <1>4 DEF Advance
  <2>2. /\ mutex = t /\ mutex # NoThread
        /\ Cardinality(docs[t]) \in Nat /\ taken \in Nat
    BY <2>1, PullTaken, NoThreadAssumption, DocumentsAssumption DEF IInv, Types, Numbers
  <2>3. Cardinality(docs'[t]) = Cardinality(docs[t]) + 1
    BY <1>4, AdvanceLevel DEF IInv
  <2>4. InHand' = InHand
    BY <2>1 DEF InHand, IInv, Types, Holdings
  <2>5. Committed' = Committed
    BY <2>1, <2>2, <2>3 DEF Committed
  <2> QED
    BY <2>1, <2>4, <2>5 DEF Contract!vars
<1>5. ASSUME NEW t \in Threads, Full(t)
      PROVE  Contract!Full(t)
  <2>1. /\ UNCHANGED <<cursor, taken, docs>> /\ pc[t] = "pulling"
        /\ Cardinality(docs[t]) = BatchSize /\ EndPull(t, "batch")
    BY <1>5 DEF Full
  <2>2. taken \in Nat /\ taken <= Documents
    BY DocumentsAssumption DEF IInv, Types, Numbers
  <2>3. Contract!Take(t, taken' - Committed, docs'[t], "batch")
    BY <2>1, <2>2, EndPullTakes
  <2>4. /\ cursor /\ Committed + BatchSize = taken
        /\ docs'[t] = Contract!Following(BatchSize)
    BY <2>1, PullTaken
  <2>5. taken' - Committed = BatchSize
    BY <2>1, <2>2, <2>4, CommittedType, BatchSizeAssumption
  <2> QED
    BY <2>1, <2>2, <2>3, <2>4, <2>5 DEF Contract!Full
<1>6. ASSUME NEW t \in Threads, Finished(t)
      PROVE  Contract!Last(t)
  <2> DEFINE n == Cardinality(docs[t])
             a == IF docs[t] = {} THEN "stop" ELSE "batch"
  <2>1. /\ UNCHANGED <<taken, docs>> /\ cursor' = FALSE /\ pc[t] = "pulling"
        /\ n < BatchSize /\ taken = Documents /\ EndPull(t, a)
    BY <1>6 DEF Finished
  <2>2. Contract!Take(t, taken' - Committed, docs'[t], a)
    BY <2>1, EndPullTakes, DocumentsAssumption
  <2>3. /\ cursor /\ n \in Nat /\ Committed + n = taken
        /\ docs'[t] = Contract!Following(n)
    BY <2>1, PullTaken
  <2>4. n = Documents - Committed /\ Documents < Committed + BatchSize
    BY <2>1, <2>3, CommittedType, BatchSizeAssumption, DocumentsAssumption
  <2>5. Committed = Documents <=> docs[t] = {}
    <3>1. n = 0 <=> docs[t] = {}
      <4>1. IsFiniteSet(docs[t])
        BY HoldingsFinite DEF IInv
      <4> QED
        BY <4>1, FS_EmptySet
    <3>2. Committed \in Nat /\ Documents \in Nat
      BY CommittedType, DocumentsAssumption
    <3>3. Committed = Documents <=> n = 0
      BY <2>4, <3>2
    <3> QED
      BY <3>1, <3>3
  <2>6. a = IF Committed = Documents THEN "stop" ELSE "batch"
    BY <2>5
  <2> QED
    BY <2>1, <2>2, <2>3, <2>4, <2>6 DEF Contract!Last
<1>7. ASSUME NEW t \in Threads, Failed(t)
      PROVE  Contract!Break(t)
  <2>1. PICK n \in {0, 1} : taken + n <= Documents /\ taken' = taken + n
    BY <1>7 DEF Failed
  <2>2. /\ cursor' = FALSE /\ pc[t] = "pulling" /\ docs' = [docs EXCEPT ![t] = {}]
        /\ Cardinality(docs[t]) < BatchSize /\ EndPull(t, "cursor_error")
    BY <1>7 DEF Failed
  <2>3. taken \in Nat /\ taken' \in Nat /\ docs'[t] = {}
    BY <2>1, <2>2, DocumentsAssumption DEF IInv, Types, Numbers, Holdings
  <2>4. Contract!Take(t, taken' - Committed, docs'[t], "cursor_error")
    BY <2>2, <2>3, EndPullTakes
  <2>5. cursor /\ Cardinality(docs[t]) \in Nat /\ Committed + Cardinality(docs[t]) = taken
    BY <2>2, PullTaken
  <2>6. /\ taken' - Committed \in 0 .. BatchSize
        /\ Committed + (taken' - Committed) <= Documents
    BY <2>1, <2>2, <2>3, <2>5, CommittedType, BatchSizeAssumption
  <2> QED
    BY <2>2, <2>3, <2>4, <2>5, <2>6 DEF Contract!Break
<1>8. ASSUME NEW t \in Threads, Answered(t) \/ Delivered(t)
      PROVE  Contract!Tell(t)
  <2>1. /\ pc[t] = "reattaching" /\ Conclude(t, pulled[t])
        /\ UNCHANGED <<cursor, mutex, taken>>
    BY <1>8 DEF Answered, Delivered
  <2>2. InHand[t] = docs[t] /\ pulled[t] # "none"
    BY <2>1 DEF InHand, IInv, Locking
  <2>3. got' = [got EXCEPT ![t] = @ \cup docs[t]]
    BY <1>8 DEF Answered, Delivered, IInv, Hands, Types, Holdings
  <2>4. Contract!Say(t, pulled[t], docs[t])
    BY <2>1, <2>3, ConcludeSays
  <2> QED
    BY <2>1, <2>2, <2>4 DEF Contract!Tell
<1>9. ASSUME NEW t \in Threads, Unframed(t)
      PROVE  Contract!Unframed(t)
  <2>1. /\ pc[t] = "reattaching" /\ pulled[t] = "batch" /\ Conclude(t, "schema_error")
        /\ UNCHANGED <<cursor, mutex, taken, got>>
    BY <1>9 DEF Unframed
  <2>2. got' = [got EXCEPT ![t] = @ \cup {}]
    BY <2>1 DEF IInv, Types, Holdings
  <2> QED
    BY <2>1, <2>2, ConcludeSays DEF Contract!Unframed
<1>10. ASSUME NEW t \in Threads, Release(t)
       PROVE  Contract!Unconverted(t)
  <2>1. /\ pc[t] = "releasing" /\ Conclude(t, "conversion_error") /\ cursor' = FALSE
        /\ UNCHANGED <<mutex, taken, got>>
    BY <1>10 DEF Release
  <2>2. pulled[t] = "batch"
    BY <2>1 DEF IInv, Locking
  <2>3. got' = [got EXCEPT ![t] = @ \cup {}]
    BY <2>1 DEF IInv, Types, Holdings
  <2> QED
    BY <2>1, <2>2, <2>3, ConcludeSays DEF Contract!Unconverted
<1>11. CASE UNCHANGED vars
  BY <1>11 DEF vars, Contract!vars, Committed, InHand
<1> QED
  BY <1>1, <1>2, <1>3, <1>4, <1>5, <1>6, <1>7, <1>8, <1>9, <1>10, <1>11
     DEF Next, Pulling, Reattach, Contract!Next, Contract!Pull, Contract!Respond

(* The lock, the cursor and the hand-over of the GIL make __next__ a       *)
(* stream from which calls take their batches one at a time.               *)
THEOREM Refinement == Spec => ImplementsStream
<1>1. Init => Contract!Init
  <2> SUFFICES ASSUME Init
               PROVE  Contract!Init
    OBVIOUS
  <2>1. InHand = [c \in Threads |-> {}]
    BY DEF Init, InHand
  <2> QED
    BY <2>1 DEF Init, Committed, Contract!Init
<1> QED
  BY <1>1, IInvInvariant, StepContract, PTL DEF Spec, ImplementsStream, Contract!Spec
=============================================================================
