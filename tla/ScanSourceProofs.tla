-------------------------- MODULE ScanSourceProofs --------------------------
(***************************************************************************)
(* Proofs about ScanSource, for any number of documents, any batch size    *)
(* and any limit.                                                          *)
(***************************************************************************)
EXTENDS ScanSource, Integers, FiniteSetTheorems, TLAPS

----------------------------------------------------------------------------
(* The first n members of a set of numbers.                                *)
Below(S, d) == {e \in S : e <= d}

LEMMA HeadRanks ==
    ASSUME NEW S, NEW n
    PROVE  Head(S, n) = {d \in S : Cardinality(Below(S, d)) <= n}
  BY DEF Head, Below

LEMMA BelowFinite ==
    ASSUME NEW N \in Nat, NEW S \in SUBSET (1 .. N)
    PROVE  /\ IsFiniteSet(S) /\ Cardinality(S) \in Nat
           /\ \A d : /\ IsFiniteSet(Below(S, d)) /\ Cardinality(Below(S, d)) \in Nat
                     /\ Cardinality(Below(S, d)) <= Cardinality(S)
           /\ \A d \in S : Cardinality(Below(S, d)) # 0
<1>1. IsFiniteSet(S)
  <2>1. IsFiniteSet(1 .. N)
    BY FS_Interval
  <2> QED
    BY <2>1, FS_Subset
<1>2. \A d : Below(S, d) \in SUBSET S
  BY DEF Below
<1>3. \A d : IsFiniteSet(Below(S, d)) /\ Cardinality(Below(S, d)) <= Cardinality(S)
  BY <1>1, <1>2, FS_Subset
<1>4. \A d \in S : Below(S, d) # {}
  BY DEF Below
<1>5. Cardinality(S) \in Nat /\ \A d : Cardinality(Below(S, d)) \in Nat
  BY <1>1, <1>3, FS_CardinalityType
<1>6. \A d \in S : Cardinality(Below(S, d)) # 0
  BY <1>3, <1>4, FS_EmptySet
<1> QED
  BY <1>1, <1>3, <1>5, <1>6

LEMMA HeadOfAll ==
    ASSUME NEW N \in Nat, NEW S \in SUBSET (1 .. N), NEW n \in Nat, Cardinality(S) <= n
    PROVE  Head(S, n) = S
<1>1. \A d \in S : Cardinality(Below(S, d)) <= n
  BY BelowFinite
<1> QED
  BY <1>1, HeadRanks

LEMMA HeadOfNone ==
    ASSUME NEW N \in Nat, NEW S \in SUBSET (1 .. N)
    PROVE  Head(S, 0) = {}
<1>1. \A d \in S : Cardinality(Below(S, d)) \in Nat /\ Cardinality(Below(S, d)) # 0
  BY BelowFinite
<1>2. Head(S, 0) = {d \in S : Cardinality(Below(S, d)) <= 0}
  BY HeadRanks, Zenon
<1>3. \A k \in Nat : k # 0 => ~(k <= 0)
  OBVIOUS
<1>4. \A d \in S : ~(Cardinality(Below(S, d)) <= 0)
  BY <1>1, <1>3
<1> QED
  BY <1>2, <1>4, Zenon

(* Members are ranked 1, 2, ... without gaps.                              *)
LEMMA RanksAreBijective ==
    ASSUME NEW N \in Nat, NEW S \in SUBSET (1 .. N)
    PROVE  [d \in S |-> Cardinality(Below(S, d))] \in Bijection(S, 1 .. Cardinality(S))
<1> DEFINE rank == [d \in S |-> Cardinality(Below(S, d))]
           T    == 1 .. Cardinality(S)
<1>1. IsFiniteSet(S) /\ Cardinality(S) \in Nat
  BY BelowFinite
<1>2. \A d \in S : Cardinality(Below(S, d)) \in T
  <2> SUFFICES ASSUME NEW d \in S
               PROVE  Cardinality(Below(S, d)) \in T
    OBVIOUS
  <2>1. /\ Cardinality(Below(S, d)) \in Nat /\ Cardinality(Below(S, d)) # 0
        /\ Cardinality(Below(S, d)) <= Cardinality(S)
    BY BelowFinite
  <2> QED
    BY <1>1, <2>1
<1>3. \A d, e \in S : d < e => Cardinality(Below(S, d)) # Cardinality(Below(S, e))
  <2> SUFFICES ASSUME NEW d \in S, NEW e \in S, d < e
               PROVE  Cardinality(Below(S, d)) # Cardinality(Below(S, e))
    OBVIOUS
  <2>1. d \in Int /\ e \in Int /\ \A x \in S : x \in Int
    OBVIOUS
  <2>2. Below(S, d) \in SUBSET Below(S, e)
    <3>1. \A x \in S : x <= d => x <= e
      BY <2>1
    <3> QED
      BY <3>1 DEF Below
  <2>3. e \in Below(S, e) /\ e \notin Below(S, d)
    BY <2>1 DEF Below
  <2>4. IsFiniteSet(Below(S, e))
    BY BelowFinite
  <2> QED
    BY <2>2, <2>3, <2>4, FS_Subset
<1>4. \A d, e \in S : d # e => Cardinality(Below(S, d)) # Cardinality(Below(S, e))
  <2>1. \A d, e \in S : d # e => d < e \/ e < d
    OBVIOUS
  <2> QED
    BY <1>3, <2>1
<1>5. rank \in Injection(S, T)
  BY <1>2, <1>4 DEF Injection, IsInjective
<1>6. IsFiniteSet(T) /\ Cardinality(T) = Cardinality(S)
  BY <1>1, FS_Interval
<1> HIDE DEF rank, T
<1>7. rank \in Surjection(S, T)
  BY <1>5, <1>6, FS_Injection
<1> QED
  BY <1>5, <1>7 DEF Bijection, rank, T

LEMMA HeadSize ==
    ASSUME NEW N \in Nat, NEW S \in SUBSET (1 .. N), NEW n \in Nat, n <= Cardinality(S)
    PROVE  IsFiniteSet(Head(S, n)) /\ Cardinality(Head(S, n)) = n
<1> DEFINE rank == [d \in S |-> Cardinality(Below(S, d))]
           H    == Head(S, n)
           cut  == [d \in H |-> rank[d]]
<1>1. rank \in Bijection(S, 1 .. Cardinality(S)) /\ Cardinality(S) \in Nat /\ IsFiniteSet(S)
  BY RanksAreBijective, BelowFinite
<1>2. H = {d \in S : rank[d] <= n}
  BY HeadRanks
<1> HIDE DEF rank, H
<1>3. /\ \A d \in S : rank[d] \in 1 .. Cardinality(S)
      /\ \A d, e \in S : rank[d] = rank[e] => d = e
      /\ \A i \in 1 .. Cardinality(S) : \E d \in S : rank[d] = i
  BY <1>1 DEF Bijection, Injection, Surjection, IsInjective
<1>4. H \in SUBSET S
  BY <1>2
<1>5. cut \in [H -> 1 .. n]
  <2> SUFFICES ASSUME NEW d \in H
               PROVE  rank[d] \in 1 .. n
    OBVIOUS
  <2>1. rank[d] \in 1 .. Cardinality(S) /\ rank[d] <= n
    BY <1>2, <1>3
  <2> QED
    BY <1>1, <2>1
<1>6. \A i \in 1 .. n : \E d \in H : cut[d] = i
  <2> SUFFICES ASSUME NEW i \in 1 .. n
               PROVE  \E d \in H : rank[d] = i
    OBVIOUS
  <2>1. i \in 1 .. Cardinality(S) /\ i <= n
    BY <1>1
  <2>2. PICK d \in S : rank[d] = i
    BY <1>3, <2>1
  <2> QED
    BY <1>2, <2>1, <2>2
<1>7. cut \in Bijection(H, 1 .. n)
  <2>1. \A d, e \in H : cut[d] = cut[e] => d = e
    BY <1>3, <1>4
  <2>2. cut \in Injection(H, 1 .. n)
    BY <1>5, <2>1 DEF Injection, IsInjective
  <2>3. cut \in Surjection(H, 1 .. n)
    BY <1>5, <1>6 DEF Surjection
  <2> QED
    BY <2>2, <2>3 DEF Bijection
<1>8. IsFiniteSet(H)
  BY <1>1, <1>4, FS_Subset
<1>9. Cardinality(1 .. n) = Cardinality(H)
  BY <1>7, <1>8, FS_Bijection DEF ExistsBijection
<1> QED
  BY <1>8, <1>9, FS_Interval DEF H

Part(S, a, b) == S \cap (a .. b)

(* Taking the first members of a set piece by piece: those up to j, and m  *)
(* of those from j + 1 to k.                                               *)
Piecewise(S, j, k, m) ==
    LET taken == Part(S, 1, j) \cup Head(Part(S, j + 1, k), m)
    IN  /\ taken = Head(S, Cardinality(Part(S, 1, j)) + m)
        /\ Cardinality(taken) = Cardinality(Part(S, 1, j)) + m

LEMMA HeadOfPieces ==
    ASSUME NEW N \in Nat, NEW S \in SUBSET (1 .. N), NEW j \in Nat, NEW k \in Nat, NEW m \in Nat,
           j <= k, k <= N, m <= Cardinality(Part(S, j + 1, k))
    PROVE  Piecewise(S, j, k, m)
<1> DEFINE R == S \cap (1 .. j)
           F == S \cap ((j + 1) .. k)
<1>0. Part(S, 1, j) = R /\ Part(S, j + 1, k) = F /\ m <= Cardinality(F)
  BY Zenon DEF Part
<1>1. R \in SUBSET (1 .. N) /\ F \in SUBSET (1 .. N) /\ S \in SUBSET Int
  OBVIOUS
<1>2. /\ IsFiniteSet(R) /\ IsFiniteSet(F) /\ Cardinality(R) \in Nat /\ Cardinality(F) \in Nat
      /\ \A d : /\ IsFiniteSet(Below(R, d)) /\ Cardinality(Below(R, d)) \in Nat
                /\ Cardinality(Below(R, d)) <= Cardinality(R)
      /\ \A d : IsFiniteSet(Below(F, d)) /\ Cardinality(Below(F, d)) \in Nat
      /\ \A d : IsFiniteSet(Below(S, d)) /\ Cardinality(Below(S, d)) \in Nat
  BY <1>1, BelowFinite
<1>3. ASSUME NEW d \in R
      PROVE  Below(S, d) = Below(R, d)
  <2>1. \A x \in S : x <= d => x \in R
    OBVIOUS
  <2>2. R \subseteq S
    OBVIOUS
  <2> HIDE DEF R
  <2> QED
    BY <2>1, <2>2 DEF Below
<1>4. ASSUME NEW d \in F
      PROVE  Cardinality(Below(S, d)) = Cardinality(R) + Cardinality(Below(F, d))
  <2>a. /\ \A x \in S : x <= d => x \in R \/ x \in F
        /\ \A x \in R : x <= d
        /\ R \subseteq S /\ F \subseteq S /\ R \cap F = {}
    OBVIOUS
  <2> HIDE DEF R, F
  <2>1. Below(S, d) = R \cup Below(F, d) /\ R \cap Below(F, d) = {}
    BY <2>a DEF Below
  <2>2. Cardinality(R \cup Below(F, d)) = Cardinality(R) + Cardinality(Below(F, d)) - Cardinality({})
    BY <1>2, <2>1, FS_Union
  <2> QED
    BY <1>2, <2>1, <2>2, FS_EmptySet
<1>5. ASSUME NEW d \in S, d \notin R, d \notin F
      PROVE  Cardinality(Below(S, d)) > Cardinality(R) + m
  <2>1. d > k /\ R \cap F = {} /\ R \cup F \subseteq Below(S, d) /\ d \in Below(S, d) /\ d \notin R \cup F
    BY <1>1, <1>5 DEF Below
  <2> HIDE DEF R, F
  <2>2. IsFiniteSet(R \cup F) /\ Cardinality(R \cup F) = Cardinality(R) + Cardinality(F) - Cardinality({})
    BY <1>2, <2>1, FS_Union
  <2>3. Cardinality(R \cup F) = Cardinality(R) + Cardinality(F)
    BY <1>2, <2>2, FS_EmptySet
  <2>4. Cardinality(R \cup F) <= Cardinality(Below(S, d)) /\ Cardinality(R \cup F) # Cardinality(Below(S, d))
    BY <1>2, <2>1, FS_Subset
  <2>5. m <= Cardinality(F)
    BY <1>0
  <2>6. Cardinality(R) \in Nat /\ Cardinality(F) \in Nat /\ Cardinality(Below(S, d)) \in Nat
    BY <1>2
  <2> QED
    BY <2>3, <2>4, <2>5, <2>6
<1>6. Head(F, m) = {d \in F : Cardinality(Below(F, d)) <= m}
  BY HeadRanks, Zenon
<1>7. Head(S, Cardinality(R) + m) = {d \in S : Cardinality(Below(S, d)) <= Cardinality(R) + m}
  BY HeadRanks, Zenon
<1>8. IsFiniteSet(Head(F, m)) /\ Cardinality(Head(F, m)) = m
  BY <1>0, <1>1, HeadSize, Zenon
<1>9. R \cap F = {} /\ R \subseteq S /\ F \subseteq S
  BY <1>1
<1> HIDE DEF R, F
<1>10. R \cap Head(F, m) = {}
  BY <1>6, <1>9
<1>11. Cardinality(R \cup Head(F, m)) = Cardinality(R) + m
  <2>1. Cardinality(R \cup Head(F, m)) = Cardinality(R) + m - Cardinality({})
    BY <1>2, <1>8, <1>10, FS_Union
  <2> QED
    BY <1>2, <2>1, FS_EmptySet
<1>12. R \cup Head(F, m) = Head(S, Cardinality(R) + m)
  <2>1. \A d \in R : d \in Head(S, Cardinality(R) + m)
    <3> SUFFICES ASSUME NEW d \in R
                 PROVE  Cardinality(Below(S, d)) <= Cardinality(R) + m
      BY <1>7, <1>9
    <3>1. Cardinality(Below(S, d)) <= Cardinality(R)
      BY <1>2, <1>3
    <3> QED
      BY <1>2, <3>1
  <2>2. \A d \in F : d \in Head(S, Cardinality(R) + m) <=> d \in Head(F, m)
    <3> SUFFICES ASSUME NEW d \in F
                 PROVE  Cardinality(Below(S, d)) <= Cardinality(R) + m <=> Cardinality(Below(F, d)) <= m
      BY <1>6, <1>7, <1>9
    <3> QED
      BY <1>2, <1>4
  <2>3. \A d \in S : d \notin R /\ d \notin F => d \notin Head(S, Cardinality(R) + m)
    <3> SUFFICES ASSUME NEW d \in S, d \notin R, d \notin F
                 PROVE  ~(Cardinality(Below(S, d)) <= Cardinality(R) + m)
      BY <1>7
    <3> QED
      BY <1>2, <1>5
  <2>4. Head(F, m) \subseteq F /\ Head(S, Cardinality(R) + m) \subseteq S
    BY <1>6, <1>7
  <2> QED
    BY <1>9, <2>1, <2>2, <2>3, <2>4
<1> QED
  BY <1>0, <1>11, <1>12, Zenon DEF Piecewise

LEMMA HeadOfPrefix ==
    ASSUME NEW N \in Nat, NEW S \in SUBSET (1 .. N), NEW k \in 0 .. N
    PROVE  Head(S, Cardinality(Part(S, 1, k))) = Part(S, 1, k)
<1>1. Part(S, k + 1, k) = {}
  BY DEF Part
<1>2. Cardinality({}) = 0 /\ Head({}, 0) = {}
  BY FS_EmptySet DEF Head
<1>3. Cardinality(Part(S, 1, k)) \in Nat
  <2>1. Part(S, 1, k) \in SUBSET (1 .. N)
    BY DEF Part
  <2> QED
    BY <2>1, BelowFinite
<1>4. k \in Nat /\ k <= k /\ k <= N /\ 0 \in Nat /\ 0 <= Cardinality(Part(S, k + 1, k))
  BY <1>1, <1>2
<1>5. Part(S, 1, k) \cup Head(Part(S, k + 1, k), 0) = Head(S, Cardinality(Part(S, 1, k)) + 0)
  <2>1. Piecewise(S, k, k, 0)
    BY <1>4, HeadOfPieces
  <2> QED
    BY <2>1 DEF Piecewise
<1>6. Cardinality(Part(S, 1, k)) + 0 = Cardinality(Part(S, 1, k))
  BY <1>3
<1> QED
  BY <1>1, <1>2, <1>5, <1>6, Zenon

----------------------------------------------------------------------------
(* The invariant. Of the first k documents, given to the generator, the    *)
(* first j have been gone through; the others are the frame at hand.       *)
Types ==
    /\ open \in BOOLEAN
    /\ pos \in 0 .. Documents
    /\ hand \in [{Scan} -> SUBSET (1 .. Documents)]
    /\ answer \in [{Scan} -> {"none", "batch", "stop", "cursor_error"}]
    /\ got \in [{Scan} -> SUBSET (1 .. Documents)]
    /\ matches \in SUBSET (1 .. Documents)
    /\ n_rows \in (0 .. Documents + 1) \cup {NoLimit}
    /\ pc \in {"created", "looping", "asking", "framing", "yielded",
               "returned", "raised", "dropped"}

Level(j, k) ==
    /\ j <= k /\ k <= pos
    /\ got[Scan] = 1 .. k
    /\ frame = (j + 1) .. k
    /\ pc # "framing" => j = k

(* Nothing has been skipped, and the cursor is gone only at its end.       *)
Contiguous == open \/ pos = Documents

Reading(k) ==
    /\ ~Over => told \subseteq {"batch"}
    /\ pc \in {"created", "looping", "framing", "yielded"} =>
           k = pos /\ Contiguous /\ answer[Scan] = "none"
    /\ pc = "asking" =>
           \/ /\ answer[Scan] = "batch"
              /\ hand[Scan] = (k + 1) .. pos
              /\ k < pos /\ Contiguous
           \/ answer[Scan] = "stop" /\ hand[Scan] = {} /\ k = Documents
           \/ answer[Scan] = "cursor_error" /\ hand[Scan] = {}

(* Short of the limit the rows are all the matches gone through. The scan  *)
(* goes on after the limit only when the limit is 0.                       *)
Counting(j) ==
    /\ produced \in Nat
    /\ produced = Cardinality(rows)
    /\ rows = Head(matches, produced)
    /\ Limited => produced <= n_rows
    /\ ~LimitReached => rows = Part(matches, 1, j)
    /\ pc \in {"created", "looping", "asking", "framing"} /\ LimitReached => rows = {}

Ending(k) ==
    /\ pc = "returned" => LimitReached \/ k = Documents
    /\ pc \in {"created", "looping", "asking"} /\ LimitReached => k = 0

Progress(j, k) == Level(j, k) /\ Reading(k) /\ Counting(j) /\ Ending(k)

IInv == Types /\ \E j, k \in Nat : Progress(j, k)

----------------------------------------------------------------------------
LEMMA InitIInv == Init => IInv
<1> SUFFICES ASSUME Init PROVE IInv
  OBVIOUS
<1>1. Types
  BY DocumentsAssumption DEF Init, Reader!Init, Types
<1>2. got[Scan] = 1 .. 0 /\ frame = (0 + 1) .. 0 /\ answer[Scan] = "none"
  BY DEF Init, Reader!Init
<1>3. Head(matches, 0) = {} /\ Part(matches, 1, 0) = {} /\ Cardinality({}) = 0
  <2>1. Head(matches, 0) = {}
    BY <1>1, DocumentsAssumption, HeadOfNone DEF Types
  <2> QED
    BY <2>1, FS_EmptySet DEF Part
<1>4. Level(0, 0)
  BY <1>2 DEF Init, Reader!Init, Level
<1>5. Reading(0)
  BY <1>2 DEF Init, Reader!Init, Reading, Contiguous, Over
<1>6. Counting(0)
  BY <1>3 DEF Init, Counting, Limited
<1>7. Ending(0)
  BY DEF Init, Ending
<1> QED
  BY <1>1, <1>4, <1>5, <1>6, <1>7 DEF IInv, Progress

----------------------------------------------------------------------------
(* Steps that leave the rows alone keep what is known of them.             *)
LEMMA KeepCounting ==
    ASSUME NEW j \in Nat, Counting(j), UNCHANGED <<planVars, produced, rows>>,
           pc' \in {"created", "looping", "asking", "framing"} /\ LimitReached => rows = {}
    PROVE  Counting(j)'
  BY DEF Counting, LimitReached, Limited, planVars

(* What a request takes off the result: n documents, or none of use.       *)
Took(n) ==
    /\ n \in Nat /\ pos + n <= Documents /\ pos' = pos + n
    /\ \/ /\ n > 0
          /\ answer' = [answer EXCEPT ![Scan] = "batch"]
          /\ hand' = [hand EXCEPT ![Scan] = (pos + 1) .. (pos + n)]
          /\ open' \in BOOLEAN /\ (open' \/ pos' = Documents)
       \/ /\ pos = Documents
          /\ answer' = [answer EXCEPT ![Scan] = "stop"]
          /\ hand' = [hand EXCEPT ![Scan] = {}]
          /\ open' = FALSE
       \/ /\ answer' = [answer EXCEPT ![Scan] = "cursor_error"]
          /\ hand' = [hand EXCEPT ![Scan] = {}]
          /\ open' = FALSE

LEMMA PullTakes ==
    ASSUME Types, Contiguous, Reader!Pull(Scan)
    PROVE  \E n : Took(n)
<1> USE DocumentsAssumption, BatchSizeAssumption
<1>1. CASE Reader!Full(Scan)
  <2>1. BatchSize \in Nat /\ BatchSize > 0 /\ open \in BOOLEAN
    BY DEF Types
  <2>2. Took(BatchSize)
    BY <1>1, <2>1 DEF Reader!Full, Reader!Take, Reader!Following, Took
  <2> QED
    BY <2>2
<1>2. CASE Reader!Last(Scan)
  <2>1. PICK n \in Nat : n = Documents - pos /\ pos + n = Documents
    <3>1. Documents - pos \in Nat /\ pos + (Documents - pos) = Documents
      BY DEF Types
    <3> QED
      BY <3>1
  <2>2. /\ pos' = pos + n /\ open' = FALSE
        /\ answer' = [answer EXCEPT ![Scan] = IF pos = Documents THEN "stop" ELSE "batch"]
        /\ hand' = [hand EXCEPT ![Scan] = (pos + 1) .. (pos + n)]
    BY <1>2, <2>1 DEF Reader!Last, Reader!Take, Reader!Following
  <2>3. pos + n <= Documents /\ pos' = Documents
    BY <2>1, <2>2
  <2>4. CASE pos = Documents
    <3>1. (pos + 1) .. (pos + n) = {}
      BY <2>1, <2>4
    <3> QED
      BY <2>2, <2>3, <2>4, <3>1 DEF Took
  <2>5. CASE pos # Documents
    <3>1. n > 0
      BY <2>1, <2>5 DEF Types
    <3> QED
      BY <2>2, <2>3, <2>5, <3>1 DEF Took
  <2> QED
    BY <2>4, <2>5
<1>3. CASE Reader!Break(Scan)
  <2>1. PICK n \in 0 .. BatchSize : pos + n <= Documents /\ Reader!Take(Scan, n, {}, "cursor_error")
    BY <1>3 DEF Reader!Break
  <2>2. Took(n)
    BY <1>3, <2>1 DEF Reader!Break, Reader!Take, Took
  <2> QED
    BY <2>2
<1>4. CASE Reader!Exhausted(Scan)
  <2>1. pos = Documents
    BY <1>4 DEF Reader!Exhausted, Contiguous
  <2>2. Took(0)
    BY <1>4, <2>1 DEF Reader!Exhausted, Reader!Take, Took
  <2> QED
    BY <2>2
<1> QED
  BY <1>1, <1>2, <1>3, <1>4 DEF Reader!Pull

(* A request keeps the levels, and takes a batch off the result.           *)
LEMMA StepAsk ==
    ASSUME Types, NEW j \in Nat, NEW k \in Nat, Progress(j, k), Ask
    PROVE  Types' /\ Progress(j, k)'
<1> USE DocumentsAssumption
<1>1. /\ pc = "looping" /\ pc' = "asking"
      /\ j = k /\ k = pos /\ Contiguous /\ told \subseteq {"batch"}
      /\ UNCHANGED <<got, told, planVars, frame, produced, rows>>
  BY DEF Progress, Level, Reading, Ask, Reader!Pull, Reader!Full, Reader!Last, Reader!Break,
         Reader!Exhausted, Reader!Take, Over
<1>2. \E n : Took(n)
  BY <1>1, PullTakes DEF Ask
<1>3. PICK n : Took(n)
  BY <1>2
<1>a. /\ n \in Nat /\ pos + n <= Documents /\ pos' = pos + n /\ pos' \in 0 .. Documents
  BY <1>3 DEF Took, Types
<1>4. \/ answer'[Scan] = "batch" /\ hand'[Scan] = (pos + 1) .. pos' /\ n > 0 /\ (open' \/ pos' = Documents)
      \/ answer'[Scan] = "stop" /\ hand'[Scan] = {} /\ pos = Documents
      \/ answer'[Scan] = "cursor_error" /\ hand'[Scan] = {}
  BY <1>3 DEF Took, Types
<1>5. Types'
  <2>1. (pos + 1) .. (pos + n) \in SUBSET (1 .. Documents)
    BY <1>a DEF Types
  <2>2. hand' \in [{Scan} -> SUBSET (1 .. Documents)]
    BY <1>3, <2>1 DEF Took, Types
  <2>3. answer' \in [{Scan} -> {"none", "batch", "stop", "cursor_error"}] /\ open' \in BOOLEAN
    BY <1>3 DEF Took, Types
  <2> QED
    BY <1>1, <1>a, <2>2, <2>3 DEF Types, planVars
<1>6. Level(j, k)'
  BY <1>1, <1>a DEF Progress, Level, Types
<1>7. Reading(k)'
  BY <1>1, <1>a, <1>4 DEF Reading, Contiguous, Types, Over
<1>8. Counting(j)'
  BY <1>1, KeepCounting DEF Progress, Counting
<1>9. Ending(k)'
  BY <1>1 DEF Progress, Ending, LimitReached, Limited, planVars
<1> QED
  BY <1>5, <1>6, <1>7, <1>8, <1>9 DEF Progress

(* An answer: a frame of all that was in hand, the end, or an error.       *)
LEMMA HeardApart ==
    ASSUME Types, NEW k \in Nat, Reading(k), got[Scan] = 1 .. k, k <= pos, Hear
    PROVE  \/ /\ pc' = "framing" /\ frame' = (k + 1) .. pos /\ k < pos /\ Contiguous
              /\ got'[Scan] = 1 .. pos /\ told' \subseteq {"batch"} /\ open' = open
           \/ pc' = "returned" /\ frame' = {} /\ got'[Scan] = 1 .. k /\ k = Documents
           \/ pc' = "raised" /\ frame' = {} /\ got'[Scan] = 1 .. k
<1> USE DocumentsAssumption
<1>1. pc = "asking" /\ told \subseteq {"batch"} /\ frame' = got'[Scan] \ got[Scan]
  BY DEF Hear, Reading, Over
<1>2. \E a, D : /\ got' = [got EXCEPT ![Scan] = @ \cup D] /\ told' = told \cup {a}
               /\ \/ a = answer[Scan] /\ D = hand[Scan] /\ open' = open
                  \/ a \in {"conversion_error", "schema_error"} /\ D = {}
  BY DEF Hear, Reader!Respond, Reader!Tell, Reader!Unconverted, Reader!Unframed, Reader!Say
<1>3. PICK a, D : /\ got' = [got EXCEPT ![Scan] = @ \cup D] /\ told' = told \cup {a}
                  /\ \/ a = answer[Scan] /\ D = hand[Scan] /\ open' = open
                     \/ a \in {"conversion_error", "schema_error"} /\ D = {}
  BY <1>2
<1>4. got'[Scan] = (1 .. k) \cup D
  BY <1>3 DEF Types
<1>5. CASE a = "batch"
  <2>1. D = (k + 1) .. pos /\ k < pos /\ Contiguous /\ open' = open
    BY <1>1, <1>3, <1>5 DEF Reading
  <2>2. got'[Scan] = 1 .. pos /\ frame' = (k + 1) .. pos
    BY <1>1, <1>4, <2>1 DEF Types
  <2>3. frame' # {}
    <3>1. k + 1 \in (k + 1) .. pos
      BY <2>1 DEF Types
    <3> QED
      BY <2>2, <3>1
  <2>4. pc' = "framing"
    BY <2>3 DEF Hear
  <2> QED
    BY <1>1, <1>3, <1>5, <2>1, <2>2, <2>4
<1>6. CASE a = "stop"
  <2>1. D = {} /\ k = Documents
    BY <1>1, <1>3, <1>6 DEF Reading
  <2>2. got'[Scan] = 1 .. k /\ frame' = {} /\ told' \subseteq {"batch", "stop"}
    BY <1>1, <1>3, <1>4, <1>6, <2>1
  <2>3. pc' = "returned"
    BY <2>2 DEF Hear
  <2> QED
    BY <2>1, <2>2, <2>3
<1>7. CASE a \in {"cursor_error", "conversion_error", "schema_error"}
  <2>1. D = {}
    BY <1>1, <1>3, <1>7 DEF Reading
  <2>2. got'[Scan] = 1 .. k /\ frame' = {} /\ ~(told' \subseteq {"batch", "stop"})
    BY <1>1, <1>3, <1>4, <1>7, <2>1
  <2>3. pc' = "raised"
    BY <2>2 DEF Hear
  <2> QED
    BY <2>2, <2>3
<1> QED
  BY <1>1, <1>3, <1>5, <1>6, <1>7 DEF Reading

LEMMA StepHear ==
    ASSUME Types, NEW j \in Nat, NEW k \in Nat, Progress(j, k), Hear
    PROVE  Types' /\ \E l \in Nat : Progress(j, l)'
<1> USE DocumentsAssumption
<1>1. /\ pc = "asking" /\ j = k /\ k <= pos /\ pos \in Nat /\ got[Scan] = 1 .. k /\ Reading(k)
      /\ UNCHANGED <<pos, planVars, produced, rows>>
  BY DEF Progress, Level, Types, Hear, Reader!Respond, Reader!Tell, Reader!Unconverted,
         Reader!Unframed, Reader!Say
<1>2. \/ /\ pc' = "framing" /\ frame' = (k + 1) .. pos /\ k < pos /\ Contiguous
         /\ got'[Scan] = 1 .. pos /\ told' \subseteq {"batch"} /\ open' = open
      \/ pc' = "returned" /\ frame' = {} /\ got'[Scan] = 1 .. k /\ k = Documents
      \/ pc' = "raised" /\ frame' = {} /\ got'[Scan] = 1 .. k
  BY <1>1, HeardApart
<1>3. /\ open' \in BOOLEAN
      /\ hand' = [hand EXCEPT ![Scan] = {}]
      /\ answer' = [answer EXCEPT ![Scan] = "none"]
      /\ got' \in [{Scan} -> SUBSET (1 .. Documents)]
  BY DEF Types, Hear, Reader!Respond, Reader!Tell, Reader!Unconverted, Reader!Unframed, Reader!Say
<1>4. Types'
  BY <1>1, <1>2, <1>3 DEF Types, planVars
<1>5. Counting(j)'
  BY <1>1, KeepCounting DEF Progress, Counting
<1>6. CASE pc' = "framing"
  <2>1. Level(j, pos)'
    BY <1>1, <1>2, <1>6 DEF Level
  <2>2. Reading(pos)'
    BY <1>1, <1>2, <1>3, <1>6 DEF Reading, Contiguous, Over, Types
  <2>3. Ending(pos)'
    BY <1>6 DEF Ending
  <2> QED
    BY <1>1, <1>4, <1>5, <2>1, <2>2, <2>3 DEF Progress
<1>7. CASE pc' # "framing"
  <2>1. Level(j, k)'
    <3>1. (j + 1) .. k = {}
      BY <1>1
    <3>2. frame' = {} /\ got'[Scan] = 1 .. k /\ j <= k /\ k <= pos'
      BY <1>1, <1>2, <1>7
    <3> QED
      BY <1>1, <3>1, <3>2, Zenon DEF Level
  <2>2. Reading(k)'
    BY <1>2, <1>7 DEF Reading, Over
  <2>3. Ending(k)'
    BY <1>2, <1>7 DEF Ending
  <2> QED
    BY <1>4, <1>5, <2>1, <2>2, <2>3 DEF Progress
<1> QED
  BY <1>6, <1>7

(* The steps between two frames, and those that end the generator.         *)
LEMMA StepRest ==
    ASSUME Types, NEW j \in Nat, NEW k \in Nat, Progress(j, k), OpenReader \/ Resume \/ Drop
    PROVE  Types' /\ Progress(j, k)'
<1>1. /\ UNCHANGED <<readerVars, planVars, frame, produced, rows>>
      /\ pc \in {"created", "yielded"} /\ j = k
      /\ pc' \in {"looping", "raised", "returned", "dropped"}
      /\ pc' = "returned" => LimitReached
      /\ pc' = "looping" /\ LimitReached => pc = "created"
  BY DEF OpenReader, Resume, Drop, Progress, Level
<1>2. Types'
  BY <1>1 DEF Types, readerVars, planVars
<1>3. Level(j, k)'
  BY <1>1 DEF Progress, Level, readerVars
<1>4. Reading(k)'
  BY <1>1 DEF Progress, Reading, Contiguous, Over, readerVars
<1>5. Counting(j)'
  BY <1>1, KeepCounting DEF Progress, Counting
<1>6. Ending(k)'
  BY <1>1 DEF Progress, Ending, LimitReached, Limited, planVars
<1> QED
  BY <1>2, <1>3, <1>4, <1>5, <1>6 DEF Progress

LEMMA StepUnwanted ==
    ASSUME Types, NEW j \in Nat, NEW k \in Nat, Progress(j, k), Unwanted
    PROVE  Types' /\ Progress(k, k)'
<1>1. /\ pc = "framing" /\ LimitReached /\ pc' = "returned" /\ frame' = {}
      /\ UNCHANGED <<readerVars, planVars, produced, rows>>
  BY DEF Unwanted
<1>2. Types'
  BY <1>1 DEF Types, readerVars, planVars
<1>3. Level(k, k)'
  <2>1. (k + 1) .. k = {}
    OBVIOUS
  <2>2. got[Scan] = 1 .. k /\ k <= pos /\ k <= k
    BY DEF Progress, Level
  <2> QED
    BY <1>1, <2>1, <2>2, Zenon DEF Level, readerVars
<1>4. Reading(k)'
  BY <1>1 DEF Reading, Over
<1>5. Counting(k)'
  BY <1>1 DEF Progress, Counting, LimitReached, Limited, planVars
<1>6. Ending(k)'
  BY <1>1 DEF Ending, LimitReached, Limited, planVars
<1> QED
  BY <1>2, <1>3, <1>4, <1>5, <1>6 DEF Progress

(* What is yielded of a frame is a number of its first matches: all of     *)
(* them, unless the limit is reached with it.                              *)
CutsAt(j, k, m) ==
    /\ m \in Nat /\ m <= Cardinality(Part(matches, j + 1, k))
    /\ Cut = Head(Part(matches, j + 1, k), m)
    /\ Cardinality(Cut) = m
    /\ Limited => produced + m <= n_rows
    /\ (Limited /\ n_rows <= produced + m) \/ Cut = Part(matches, j + 1, k)

LEMMA CutOf ==
    ASSUME Types, NEW j \in Nat, NEW k \in Nat, k <= Documents, frame = (j + 1) .. k,
           produced \in Nat, ~LimitReached
    PROVE  \E m : CutsAt(j, k, m)
<1> DEFINE F == Part(matches, j + 1, k)
<1>1. F \in SUBSET (1 .. Documents) /\ Documents \in Nat /\ Filtered = F
  BY DocumentsAssumption DEF Types, Filtered, Part
<1>2. IsFiniteSet(F) /\ Cardinality(F) \in Nat
  BY <1>1, BelowFinite
<1> HIDE DEF F
<1>3. CASE Limited /\ Remaining < Cardinality(F)
  <2>1. Remaining \in Nat /\ produced + Remaining = n_rows
    BY <1>3 DEF Remaining, Limited, LimitReached, Types
  <2>2. PICK m \in Nat : m = Remaining
    BY <2>1
  <2>3. m <= Cardinality(F) /\ produced + m <= n_rows /\ n_rows <= produced + m
    BY <1>2, <1>3, <2>1, <2>2 DEF Types, Limited
  <2>4. Cardinality(Head(F, m)) = m
    BY <1>1, <2>3, HeadSize
  <2>5. Cut = Head(F, m)
    BY <1>1, <1>3, <2>2 DEF Cut
  <2>6. CutsAt(j, k, m)
    BY <1>3, <2>3, <2>4, <2>5 DEF F, CutsAt
  <2> QED
    BY <2>6
<1>4. CASE ~Limited \/ Cardinality(F) <= Remaining
  <2>1. Limited => Remaining \in Nat /\ produced + Remaining = n_rows
    BY DEF Remaining, Limited, LimitReached, Types
  <2>2. Head(F, Cardinality(F)) = F
    <3>1. Cardinality(F) <= Cardinality(F)
      BY <1>2
    <3> QED
      BY <1>1, <1>2, <3>1, HeadOfAll
  <2>3. Limited => Head(F, Remaining) = F
    BY <1>1, <1>4, <2>1, HeadOfAll
  <2>4. Cut = F
    BY <1>1, <2>3 DEF Cut
  <2>5. Limited => produced + Cardinality(F) <= n_rows
    BY <1>2, <1>4, <2>1
  <2>6. Cardinality(F) <= Cardinality(F)
    BY <1>2
  <2>7. CutsAt(j, k, Cardinality(F))
    BY <1>2, <2>2, <2>4, <2>5, <2>6 DEF F, CutsAt
  <2> QED
    BY <2>7
<1>5. Limited => Remaining \in Int
  BY DEF Types, Limited, Remaining
<1> QED
  BY <1>2, <1>3, <1>4, <1>5

LEMMA StepYield ==
    ASSUME Types, NEW j \in Nat, NEW k \in Nat, Progress(j, k), Yield
    PROVE  Types' /\ Progress(k, k)'
<1> USE DocumentsAssumption
<1>1. /\ pc = "framing" /\ ~LimitReached /\ pc' = "yielded" /\ frame' = {}
      /\ rows' = rows \cup Cut /\ produced' = produced + Cardinality(Cut)
      /\ UNCHANGED <<readerVars, planVars>>
  BY DEF Yield
<1>2. /\ j <= k /\ k = pos /\ k <= Documents /\ frame = (j + 1) .. k /\ Contiguous /\ answer[Scan] = "none"
      /\ produced \in Nat /\ rows = Part(matches, 1, j) /\ produced = Cardinality(rows)
      /\ told \subseteq {"batch"} /\ got[Scan] = 1 .. k
  BY <1>1 DEF Progress, Level, Reading, Counting, Types, Over
<1>3. PICK m : CutsAt(j, k, m)
  BY <1>1, <1>2, CutOf
<1>4. m \in Nat /\ produced' = produced + m
  BY <1>1, <1>3 DEF CutsAt
<1>5. rows' = Head(matches, produced') /\ Cardinality(rows') = produced'
  <2>1. Piecewise(matches, j, k, m)
    BY <1>2, <1>3, HeadOfPieces DEF CutsAt, Types
  <2> QED
    BY <1>1, <1>2, <1>3, <1>4, <2>1 DEF Piecewise, CutsAt
<1>6. Part(matches, 1, j) \cup Part(matches, j + 1, k) = Part(matches, 1, k)
  BY <1>2 DEF Part, Types
<1>7. ~LimitReached' => rows' = Part(matches', 1, k)
  <2>1. ~LimitReached' => Cut = Part(matches, j + 1, k)
    BY <1>1, <1>3, <1>4 DEF LimitReached, Limited, CutsAt, planVars
  <2> QED
    BY <1>1, <1>2, <1>6, <2>1 DEF planVars
<1>8. Counting(k)'
  <2>1. Limited' => produced' <= n_rows'
    BY <1>1, <1>3, <1>4 DEF CutsAt, Limited, planVars
  <2>2. matches' = matches
    BY <1>1 DEF planVars
  <2> QED
    BY <1>1, <1>2, <1>4, <1>5, <1>7, <2>1, <2>2 DEF Counting
<1>9. Types'
  BY <1>1 DEF Types, readerVars, planVars
<1>10. Level(k, k)'
  <2>1. (k + 1) .. k = {}
    OBVIOUS
  <2>2. k <= k /\ k <= pos
    BY <1>2
  <2> QED
    BY <1>1, <1>2, <2>1, <2>2, Zenon DEF Level, readerVars
<1>11. Reading(k)'
  BY <1>1, <1>2 DEF Reading, Contiguous, Over, readerVars
<1>12. Ending(k)'
  BY <1>1 DEF Ending
<1> QED
  BY <1>8, <1>9, <1>10, <1>11, <1>12 DEF Progress

----------------------------------------------------------------------------
LEMMA StutterIInv == IInv /\ UNCHANGED vars => IInv'
<1> SUFFICES ASSUME Types, NEW j \in Nat, NEW k \in Nat, Progress(j, k), UNCHANGED vars
             PROVE  Types' /\ Progress(j, k)'
  BY DEF IInv
<1> USE DEF vars, readerVars, planVars
<1>1. Types'
  BY DEF Types
<1>2. Level(j, k)'
  BY DEF Progress, Level
<1>3. Reading(k)'
  BY DEF Progress, Reading, Contiguous, Over
<1>4. Counting(j)'
  BY DEF Progress, Counting, LimitReached, Limited
<1>5. Ending(k)'
  BY DEF Progress, Ending, LimitReached, Limited
<1> QED
  BY <1>1, <1>2, <1>3, <1>4, <1>5 DEF Progress

LEMMA NextIInv == IInv /\ Next => IInv'
<1> SUFFICES ASSUME Types, NEW j \in Nat, NEW k \in Nat, Progress(j, k), Next
             PROVE  IInv'
  BY DEF IInv
<1>1. CASE Ask
  BY <1>1, StepAsk DEF IInv
<1>2. CASE Hear
  BY <1>2, StepHear DEF IInv
<1>3. CASE Unwanted
  BY <1>3, StepUnwanted DEF IInv
<1>4. CASE Yield
  BY <1>4, StepYield DEF IInv
<1>5. CASE OpenReader \/ Resume \/ Drop
  BY <1>5, StepRest DEF IInv
<1> QED
  BY <1>1, <1>2, <1>3, <1>4, <1>5 DEF Next

LEMMA IInvInvariant == Spec => []IInv
<1>1. IInv /\ [Next]_vars => IInv'
  BY NextIInv, StutterIInv
<1> QED
  BY InitIInv, <1>1, PTL DEF Spec

----------------------------------------------------------------------------
(* The types, and that the counter is the number of rows yielded.          *)
THEOREM TypeCorrect == Spec => []TypeOK
<1>1. IInv => TypeOK
  <2> SUFFICES ASSUME Types, NEW j \in Nat, NEW k \in Nat, Progress(j, k)
               PROVE  TypeOK
    BY DEF IInv
  <2>1. frame \subseteq 1 .. Documents
    BY DocumentsAssumption DEF Progress, Level, Types
  <2>2. rows \subseteq matches
    BY DEF Progress, Counting, Head
  <2>3. produced = Cardinality(rows)
    BY DEF Progress, Counting
  <2> QED
    BY <2>1, <2>2, <2>3 DEF Types, TypeOK
<1> QED
  BY <1>1, IInvInvariant, PTL

(* The rows yielded so far are the first that match, and no more of them   *)
(* than the limit, wherever the batches end.                               *)
THEOREM FirstMatchesHolds == Spec => []FirstMatches
<1>1. IInv => FirstMatches
  BY DEF IInv, Progress, Counting, FirstMatches
<1> QED
  BY <1>1, IInvInvariant, PTL

(* A scan that ends well has yielded all that was asked for.               *)
THEOREM CompleteAtReturnHolds == Spec => []CompleteAtReturn
<1> USE DocumentsAssumption
<1>1. IInv => CompleteAtReturn
  <2> SUFFICES ASSUME Types, NEW j \in Nat, NEW k \in Nat, Progress(j, k), pc = "returned"
               PROVE  rows = IF Limited THEN Head(matches, n_rows) ELSE matches
    BY DEF IInv, CompleteAtReturn
  <2>1. CASE LimitReached
    <3>1. Limited /\ produced = n_rows
      BY <2>1 DEF LimitReached, Limited, Progress, Counting, Types
    <3> QED
      BY <3>1 DEF Progress, Counting
  <2>2. CASE ~LimitReached
    <3>1. k = Documents /\ j = k
      BY <2>2 DEF Progress, Ending, Level
    <3>2. rows = matches /\ produced = Cardinality(matches)
      BY <2>2, <3>1 DEF Progress, Counting, Part, Types
    <3>3. CASE Limited
      <4>1. n_rows \in Nat /\ Cardinality(matches) <= n_rows
        BY <2>2, <3>2, <3>3 DEF LimitReached, Limited, Types, Progress, Counting
      <4>2. Head(matches, n_rows) = matches
        BY <4>1, HeadOfAll DEF Types
      <4> QED
        BY <3>2, <3>3, <4>2
    <3> QED
      BY <3>2, <3>3
  <2> QED
    BY <2>1, <2>2
<1> QED
  BY <1>1, IInvInvariant, PTL

(* Once the limit has been reached, and of a limit of zero once a batch    *)
(* has come, the reader is left alone.                                     *)
THEOREM LimitStopsReadingHolds == Spec => LimitStopsReading
<1>1. IInv /\ [Next]_vars => [LimitReached /\ got[Scan] # {} => UNCHANGED readerVars]_vars
  <2> SUFFICES ASSUME IInv, Next, LimitReached, got[Scan] # {}
               PROVE  UNCHANGED readerVars
    BY DEF vars
  <2>1. pc \notin {"looping", "asking"}
    BY DEF IInv, Progress, Level, Ending
  <2> QED
    BY <2>1 DEF Next, OpenReader, Ask, Hear, Unwanted, Yield, Resume, Drop
<1> QED
  BY <1>1, IInvInvariant, PTL DEF Spec, LimitStopsReading
=============================================================================
