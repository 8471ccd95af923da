----------------------------- MODULE Recursion -----------------------------
(***************************************************************************)
(* A definition by recursion over a set S whose members have a rank: what  *)
(* a member of S is given may depend on what those of lower rank are       *)
(* given. A module that instantiates this one by the body of such a        *)
(* definition gets that the definition means what it says.                 *)
(*                                                                         *)
(* All that this module names comes with every instance, and there are     *)
(* many: so it extends no module of theorems, and asks of those that use   *)
(* it the one fact it needs, that every set of natural numbers that is not *)
(* empty has a least member.                                               *)
(***************************************************************************)
EXTENDS Integers

CONSTANTS S,          \* what is defined upon
          Rank(_),    \* Rank(x): a natural number
          Body(_, _)  \* Body(f, x): the value at x, in terms of a function f

Ranked == \A x \in S : Rank(x) \in Nat

(* The body at x asks f only about members of lower rank.                  *)
Local ==
    \A x \in S : \A g, h :
        (\A y \in S : Rank(y) < Rank(x) => g[y] = h[y]) => Body(g, x) = Body(h, x)

(* There is a function as the recursion describes it: the defining         *)
(* equation of a recursive function holds.                                 *)
THEOREM RecursiveFunction ==
    ASSUME \A N \in SUBSET Nat : N # {} => \E n \in N : \A m \in N : n <= m,
           Ranked,
           Local
    PROVE  \E f : f = [x \in S |-> Body(f, x)]
<1> DEFINE Below(n) == {x \in S : Rank(x) < n}
           Solves(g, n) == g = [x \in Below(n) |-> Body(g, x)]
(* Two functions that solve the recursion below m and n agree on what is   *)
(* below both: where they differ, they differ at a member of least rank.   *)
<1>1. ASSUME NEW m \in Nat, NEW n \in Nat, NEW g, NEW h, Solves(g, m), Solves(h, n)
      PROVE  \A x \in Below(m) \cap Below(n) : g[x] = h[x]
  <2> DEFINE B == {x \in Below(m) \cap Below(n) : g[x] # h[x]}
             N == {Rank(x) : x \in B}
  <2>1. SUFFICES ASSUME B # {} PROVE FALSE
    OBVIOUS
  <2>2. N \in SUBSET Nat /\ N # {}
    BY <2>1 DEF Ranked
  <2>3. PICK x \in B : \A y \in B : Rank(x) <= Rank(y)
    <3>1. PICK k \in N : \A l \in N : k <= l
      BY <2>2
    <3> QED
      BY <3>1
  <2>4. x \in S /\ Rank(x) \in Nat /\ Rank(x) < m /\ Rank(x) < n /\ g[x] # h[x]
    BY <2>3 DEF Ranked
  <2>5. ASSUME NEW y \in S, Rank(y) < Rank(x) PROVE g[y] = h[y]
    <3>1. Rank(y) \in Nat
      BY DEF Ranked
    <3>2. y \in Below(m) /\ y \in Below(n)
      BY <2>4, <2>5, <3>1
    <3>3. y \notin B
      BY <2>3, <2>4, <2>5, <3>1
    <3> QED
      BY <3>2, <3>3
  <2>6. Body(g, x) = Body(h, x)
    BY <2>4, <2>5 DEF Local
  <2>7. g[x] = Body(g, x) /\ h[x] = Body(h, x)
    BY <1>1, <2>3
  <2> QED
    BY <2>4, <2>6, <2>7
(* Below every number there is a solution: if not, there is a least number *)
(* without one, and the body extends the solution below its predecessor.   *)
<1>2. \A n \in Nat : \E g : Solves(g, n)
  <2> DEFINE N == {n \in Nat : ~ \E g : Solves(g, n)}
  <2>1. SUFFICES ASSUME N # {} PROVE FALSE
    OBVIOUS
  <2>2. N \in SUBSET Nat
    OBVIOUS
  <2>3. PICK n \in N : \A m \in N : n <= m
    <3> HIDE DEF N
    <3> QED
      BY <2>1, <2>2
  <2>4. n \in Nat /\ ~ \E g : Solves(g, n)
    BY <2>3
  <2>5. CASE n = 0
    <3>1. Below(0) = {}
      <4> HIDE DEF Solves, N
      <4> QED
        BY DEF Ranked
    <3> DEFINE g == [x \in {} |-> x]
    <3>2. g = [x \in Below(0) |-> Body(g, x)]
      BY <3>1
    <3> QED
      BY <2>4, <2>5, <3>2
  <2>6. CASE n # 0
    <3>1. n \in Nat /\ n - 1 \in Nat /\ n - 1 < n
      <4> HIDE DEF Solves, N
      <4> QED
        BY <2>4, <2>6
    <3>2. n - 1 \notin N
      <4> HIDE DEF Solves, N
      <4> QED
        BY <2>3, <3>1
    <3>3. PICK g : Solves(g, n - 1)
      BY <3>1, <3>2
    <3> DEFINE h == [x \in Below(n) |-> Body(g, x)]
    <3>4. ASSUME NEW x \in Below(n) PROVE Body(h, x) = Body(g, x)
      <4>1. x \in S /\ Rank(x) \in Nat /\ Rank(x) < n
        BY DEF Ranked
      <4>2. ASSUME NEW y \in S, Rank(y) < Rank(x) PROVE h[y] = g[y]
        <5>1. Rank(y) \in Nat
          BY DEF Ranked
        <5>2. y \in Below(n) /\ y \in Below(n - 1)
          <6> HIDE DEF Solves, N, h
          <6> QED
            BY <3>1, <4>1, <4>2, <5>1
        <5>3. g[y] = Body(g, y)
          BY <3>3, <5>2
        <5> QED
          BY <5>2, <5>3
      <4> HIDE DEF h
      <4> QED
        BY <4>1, <4>2 DEF Local
    <3>5. [x \in Below(n) |-> Body(h, x)] = [x \in Below(n) |-> Body(g, x)]
      <4> HIDE DEF h, Below
      <4> QED
        BY <3>4
    <3>6. h = [x \in Below(n) |-> Body(h, x)]
      BY <3>5
    <3> QED
      BY <2>4, <3>6
  <2> QED
    BY <2>5, <2>6
<1> DEFINE G(n) == CHOOSE g : Solves(g, n)
           f    == [x \in S |-> Body(G(Rank(x)), x)]
<1>3. \A n \in Nat : Solves(G(n), n)
  BY <1>2
<1> HIDE DEF G
<1>4. ASSUME NEW x \in S PROVE Body(f, x) = Body(G(Rank(x)), x)
  <2>1. Rank(x) \in Nat /\ Solves(G(Rank(x)), Rank(x))
    BY <1>3 DEF Ranked
  <2>2. ASSUME NEW y \in S, Rank(y) < Rank(x) PROVE f[y] = G(Rank(x))[y]
    <3>1. Rank(y) \in Nat /\ Solves(G(Rank(y)), Rank(y))
      BY <1>3 DEF Ranked
    <3>2. y \in Below(Rank(x))
      BY <2>2
    <3>3. G(Rank(x))[y] = Body(G(Rank(x)), y)
      BY <2>1, <3>2
    <3>4. \A z \in Below(Rank(x)) \cap Below(Rank(y)) : G(Rank(x))[z] = G(Rank(y))[z]
      <4> HIDE DEF Below, Solves
      <4> QED
        BY <1>1, <2>1, <3>1
    <3>5. ASSUME NEW z \in S, Rank(z) < Rank(y) PROVE G(Rank(x))[z] = G(Rank(y))[z]
      <4>1. Rank(z) \in Nat
        BY DEF Ranked
      <4>2. z \in Below(Rank(x)) \cap Below(Rank(y))
        BY <2>1, <2>2, <3>1, <3>5, <4>1
      <4> QED
        BY <3>4, <4>2
    <3>6. Body(G(Rank(x)), y) = Body(G(Rank(y)), y)
      BY <3>5 DEF Local
    <3> QED
      BY <3>3, <3>6
  <2> HIDE DEF f
  <2> QED
    BY <2>2 DEF Local
<1>5. [x \in S |-> Body(f, x)] = [x \in S |-> Body(G(Rank(x)), x)]
  <2> HIDE DEF f
  <2> QED
    BY <1>4
<1>6. f = [x \in S |-> Body(f, x)]
  BY <1>5
<1> HIDE DEF f
<1> QED
  BY <1>6
============================================================================
