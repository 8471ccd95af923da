--------------------------- MODULE ReleaseProofs ---------------------------
(***************************************************************************)
(* Proofs about Release, for any number of pushes and any versions.        *)
(***************************************************************************)
EXTENDS Release, SequenceTheorems, WellFoundedInduction, TLAPS

(* What a tag or a plan (a version with its source) says of main, and how  *)
(* it stands to the releases of earlier commits.                           *)
Recorded(v, c) == c \in DOMAIN commits /\ commits[c].version = v /\ commits[c].synced
Above(v, c)    == \A u \in Published : tags[u] < c => u < v
Plan(v, c)     == Recorded(v, c) /\ Above(v, c)

Tagged == \A v \in DOMAIN tags : Plan(v, tags[v])

Attached == \A v \in Published : releases[v] \in {0, tags[v]}

(* A run that is taken up again takes up a sound plan.                     *)
Planned ==
    /\ \A e \in DOMAIN past : past[e].job # "fresh" => Plan(past[e].version, past[e].source)
    /\ waiting.event # 0 /\ waiting.job # "fresh" => past[waiting.event].job # "fresh"
    /\ \A e \in DOMAIN past : UnderWay(e) => past[e].outcome = "none"

(* Once main has been found at the source, it is the last place that can   *)
(* have been tagged or planned for.                                        *)
Working ==
    /\ pc \in {"recheck", "commit"} =>
          /\ version # 0
          /\ TaggedHere(version) \/ \A u \in Published : u < version
    /\ pc \in {"eligible"} \cup Prepared => Plan(version, source)
    /\ pc \in {"publish", "upload"} =>
          /\ \A v \in DOMAIN tags : tags[v] <= source
          /\ \A e \in DOMAIN past : past[e].job # "fresh" => past[e].source <= source
    /\ pc = "upload" => version \in DOMAIN tags /\ tags[version] = source

IInv == TypeOK /\ Tagged /\ Attached /\ Planned /\ Working

(* Main as a sequence.                                                     *)
LEMMA MainTyped ==
    ASSUME TypeOK
    PROVE  /\ Tip \in Nat /\ DOMAIN commits = 1 .. Tip
           /\ DOMAIN past = 1 .. Tip
           /\ \A c \in 1 .. Tip : commits[c] \in Commits /\ past[c] \in Attempts
<1>1. commits \in Seq(Commits) /\ past \in Seq(Attempts) /\ Len(past) = Tip
  BY DEF TypeOK
<1> QED
  BY <1>1, ElementOfSeq, LenProperties DEF Tip

LEMMA TaggedSound == TypeOK /\ Tagged /\ Attached => ReleasesSound
<1> SUFFICES ASSUME TypeOK, Tagged, Attached, NEW v \in Published
             PROVE  /\ commits[tags[v]].version = v /\ commits[tags[v]].synced
                    /\ releases[v] \in {0, tags[v]}
                    /\ \A u \in Published : u < v => tags[u] < tags[v]
  BY DEF ReleasesSound
<1>1. \A u \in Published : Plan(u, tags[u]) /\ u \in Nat /\ tags[u] \in Nat
  BY MainTyped DEF TypeOK, Tagged, Plan, Recorded, Commits
<1> QED
  BY <1>1 DEF Attached, Plan, Recorded, Above

LEMMA InitIInv == Init => IInv
<1> SUFFICES ASSUME Init
             PROVE  IInv
  OBVIOUS
<1> USE DEF Init, Contract!Init, Nobody
<1>1. DOMAIN tags = {} /\ DOMAIN releases = {}
  OBVIOUS
<1>2. TypeOK
  <2>1. commits \in Seq(Commits)
    OBVIOUS
  <2>2. past \in Seq(Attempts)
    OBVIOUS
  <2>3. Len(past) = Tip
    BY DEF Tip
  <2> QED
    BY <1>1, <2>1, <2>2, <2>3 DEF TypeOK, Published, Contract!Published, Resumed
<1>3. Tagged /\ Attached /\ Planned
  BY <1>1 DEF Tagged, Attached, Planned, Published, Contract!Published
<1>4. Working
  BY DEF Working, Prepared, Preparing
<1> QED
  BY <1>2, <1>3, <1>4 DEF IInv

LEMMA LeastNumber ==
    ASSUME NEW S \in SUBSET Nat, S # {}
    PROVE  \E n \in S : \A m \in S : n <= m
<1> DEFINE R == OpToRel(<, Nat)
<1>1. \A x, y \in Nat : y < x => <<y, x>> \in R
  BY Zenon DEF OpToRel
<1>2. IsWellFoundedOn(R, Nat)
  BY NatLessThanWellFounded, Zenon
<1> HIDE DEF R
<1>3. PICK n \in S : \A m \in S : ~ (<<m, n>> \in R)
  BY <1>2, WFMin
<1>4. \A m \in S : ~ (m < n)
  BY <1>1, <1>3, Zenon
<1> QED
  BY <1>4

(* Some release is of the latest commit.                                   *)
LEMMA LatestExists ==
    ASSUME TypeOK, Published # {}
    PROVE  \E v \in Published : IsLatest(v)
<1> DEFINE Behind == {n \in Nat : \E v \in Published : n = Tip - tags[v]}
<1>1. Tip \in Nat /\ \A v \in Published : tags[v] \in 1 .. Tip
  BY MainTyped DEF TypeOK
<1>2. \A v \in Published : Tip - tags[v] \in Behind
  BY <1>1
<1>3. PICK n \in Behind : \A m \in Behind : n <= m
  BY <1>2, LeastNumber
<1>4. PICK v \in Published : n = Tip - tags[v]
  OBVIOUS
<1>5. \A u \in Published : tags[u] <= tags[v]
  BY <1>1, <1>2, <1>3, <1>4
<1> QED
  BY <1>5 DEF IsLatest

----------------------------------------------------------------------------
(* Plans stay sound while main grows and nothing is published.             *)
Growing == \A c \in DOMAIN commits : c \in DOMAIN commits' /\ commits'[c] = commits[c]

(* Plan(v, c) in the next state, for v and c of either state.              *)
PlanNext(v, c) ==
    /\ c \in DOMAIN commits' /\ commits'[c].version = v /\ commits'[c].synced
    /\ \A u \in Published' : tags'[u] < c => u < v

LEMMA PlanKept ==
    ASSUME Growing, tags' = tags, Published' \subseteq Published
    PROVE  \A v, c : Plan(v, c) => PlanNext(v, c)
  BY DEF Growing, Plan, Recorded, Above, PlanNext

LEMMA MainAppended ==
    ASSUME TypeOK, NEW c \in Commits, commits' = Append(commits, c)
    PROVE  /\ commits' \in Seq(Commits) /\ Tip' = Tip + 1 /\ Growing
           /\ DOMAIN commits' = 1 .. Tip + 1 /\ commits'[Tip + 1] = c
           /\ Pushes \subseteq Pushes'
           /\ ~c.bot => Tip + 1 \in Pushes'
<1>1. /\ commits' \in Seq(Commits) /\ Len(commits') = Tip + 1
      /\ \A i \in 1 .. Tip : commits'[i] = commits[i]
      /\ commits'[Tip + 1] = c
  BY AppendProperties DEF TypeOK, Tip
<1>2. DOMAIN commits = 1 .. Tip /\ DOMAIN commits' = 1 .. Tip + 1 /\ Tip \in Nat
  BY <1>1, LenProperties, MainTyped
<1> QED
  BY <1>1, <1>2 DEF Growing, Pushes, Tip

LEMMA PastAppended ==
    ASSUME TypeOK, NEW p, p = Append(past, Untried)
    PROVE  /\ p \in Seq(Attempts) /\ Len(p) = Tip + 1 /\ p[Tip + 1] = Untried
           /\ \A e \in 1 .. Tip : p[e] = past[e]
<1>1. Untried \in Attempts
  BY DEF Untried, Attempts, Resumed
<1> QED
  BY <1>1, AppendProperties DEF TypeOK, Tip

LEMMA PastChanged ==
    ASSUME NEW p \in Seq(Attempts), NEW e \in 1 .. Len(p), NEW a \in Attempts,
           NEW q, q = [p EXCEPT ![e] = a]
    PROVE  /\ q \in Seq(Attempts) /\ Len(q) = Len(p) /\ q[e] = a
           /\ \A f \in 1 .. Len(p) : f # e => q[f] = p[f]
  BY ExceptSeq

(* What a run leaves behind is a plan only once its first job has ended.   *)
LEMMA LeftTyped ==
    ASSUME TypeOK, event # 0, NEW outcome \in Endings
    PROVE  /\ Left(outcome) \in Attempts
           /\ Left(outcome).job # "fresh" =>
                 pc \in Prepared /\ Left(outcome).version = version /\ Left(outcome).source = source
  BY DEF TypeOK, Left, Untried, Attempts, Resumed, Preparing, Prepared

LEMMA EndKeeps ==
    ASSUME TypeOK, Planned, event # 0, NEW outcome \in Endings, End(outcome), UNCHANGED commits,
           \A e \in DOMAIN past : past[e].job # "fresh" => PlanNext(past[e].version, past[e].source),
           pc \in Prepared => PlanNext(version, source)
    PROVE  /\ past' \in Seq(Attempts) /\ Len(past') = Tip
           /\ Planned' /\ Working'
           /\ waiting' = waiting /\ event' = 0 /\ pc' = "idle" /\ version' = 0 /\ source' = 0
<1>1. /\ Tip \in Nat /\ DOMAIN past = 1 .. Tip /\ past \in Seq(Attempts) /\ Len(past) = Tip
      /\ event \in 1 .. Tip
  BY MainTyped DEF TypeOK, Pushes
<1>2. Left(outcome) \in Attempts
  BY LeftTyped
<1>3. /\ past' \in Seq(Attempts) /\ Len(past') = Tip /\ past'[event] = Left(outcome)
      /\ \A f \in 1 .. Tip : f # event => past'[f] = past[f]
  BY <1>1, <1>2, PastChanged DEF End
<1>4. DOMAIN past' = 1 .. Tip
  BY <1>1, <1>3, LenProperties
<1>5. \A e \in DOMAIN past' : past'[e].job # "fresh" => PlanNext(past'[e].version, past'[e].source)
  <2> SUFFICES ASSUME NEW e \in 1 .. Tip, past'[e].job # "fresh"
               PROVE  PlanNext(past'[e].version, past'[e].source)
    BY <1>4
  <2>1. CASE e = event
    BY <2>1, <1>3, LeftTyped
  <2>2. CASE e # event
    BY <2>2, <1>1, <1>3
  <2> QED
    BY <2>1, <2>2
<1>6. waiting' = waiting /\ event' = 0 /\ pc' = "idle" /\ version' = 0 /\ source' = 0
  BY DEF End
<1>7. waiting.event # 0 => waiting.event \in 1 .. Tip /\ waiting.event # event
  BY <1>1, MainTyped DEF TypeOK, Pushes
<1>8. Planned'
  BY <1>1, <1>3, <1>4, <1>5, <1>6, <1>7 DEF Planned, PlanNext, Plan, Recorded, Above, UnderWay
<1>9. Working'
  BY <1>6 DEF Working, Prepared
<1> QED
  BY <1>3, <1>6, <1>8, <1>9

----------------------------------------------------------------------------
(* Steps of the run at work that leave GitHub alone.                       *)
Hub == <<commits, tags, releases>>

LEMMA HubKept ==
    ASSUME IInv, UNCHANGED Hub
    PROVE  /\ Tip' = Tip /\ Pushes' = Pushes /\ Published' = Published
           /\ Tagged' /\ Attached'
           /\ \A v, c : Plan(v, c) <=> PlanNext(v, c)
  BY DEF IInv, Hub, Tagged, Attached, Plan, Recorded, Above, PlanNext,
         Tip, Pushes, Published, Contract!Published

LEMMA QuietEnd ==
    ASSUME IInv, event # 0, NEW outcome \in Endings, End(outcome), UNCHANGED Hub
    PROVE  IInv'
<1>1. UNCHANGED commits
  BY DEF Hub
<1>2. /\ \A e \in DOMAIN past : past[e].job # "fresh" => PlanNext(past[e].version, past[e].source)
      /\ pc \in Prepared => PlanNext(version, source)
  BY HubKept DEF IInv, Planned, Working
<1>3. /\ past' \in Seq(Attempts) /\ Len(past') = Tip
      /\ Planned' /\ Working'
      /\ waiting' = waiting /\ event' = 0 /\ pc' = "idle" /\ version' = 0 /\ source' = 0
  BY <1>1, <1>2, EndKeeps DEF IInv
<1>4. TypeOK'
  BY <1>3, HubKept DEF IInv, TypeOK, Hub
<1> QED
  BY <1>3, <1>4, HubKept DEF IInv

LEMMA QuietGoto ==
    ASSUME IInv, event # 0, NEW step \in Preparing \cup Prepared, Goto(step), UNCHANGED Hub,
           version' \in Nat, Working'
    PROVE  IInv'
<1> USE DEF Goto
<1>1. pc' # "idle"
  BY DEF Preparing, Prepared
<1>2. TypeOK'
  BY <1>1, HubKept DEF IInv, TypeOK, Hub
<1>3. Planned'
  BY HubKept DEF IInv, Planned, Plan, Recorded, Above, Hub, Published, Contract!Published, UnderWay
<1> QED
  BY <1>2, <1>3, HubKept DEF IInv

LEMMA FailStep == IInv /\ Fail => IInv'
  BY QuietEnd DEF Fail, Hub, Endings

LEMMA FreshStep == IInv /\ Fresh => IInv'
<1> SUFFICES ASSUME IInv, Fresh
             PROVE  IInv'
  OBVIOUS
<1>1. event # 0 /\ UNCHANGED Hub
  BY DEF Fresh, At, Hub, IInv, TypeOK
<1>2. CASE Tip = source
  <2>1. Goto("select") /\ version' = version
    BY <1>2 DEF Fresh
  <2>2. Working'
    BY <2>1 DEF Working, Goto, Prepared
  <2> QED
    BY <1>1, <2>1, <2>2, QuietGoto DEF IInv, TypeOK, Preparing
<1>3. CASE Tip # source
  BY <1>1, <1>3, QuietEnd DEF Fresh, Endings
<1> QED
  BY <1>2, <1>3

(* What is selected is higher than every release, or tagged here.          *)
LEMMA SelectStep == IInv /\ Select => IInv'
<1> SUFFICES ASSUME IInv, Select
             PROVE  IInv'
  OBVIOUS
<1>1. event # 0 /\ UNCHANGED Hub /\ pc = "select"
  BY DEF Select, At, Hub, IInv, TypeOK
<1>2. CASE End("success") \/ End("refused")
  BY <1>1, <1>2, QuietEnd DEF Endings
<1>3. CASE version' \in Choices /\ Goto("recheck")
  <2> DEFINE current == commits[source].version
  <2>1. current \in Nat \ {0} /\ \A u \in Published : u \in Nat /\ tags[u] \in Nat
    <3>1. source \in 1 .. Tip /\ \A u \in Published : tags[u] \in 1 .. Tip /\ commits[tags[u]].version = u
      BY <1>1, MainTyped DEF IInv, TypeOK, Tagged, Plan, Recorded
    <3> QED
      BY <3>1, MainTyped DEF IInv, Commits
  <2>2. \A u, v \in Published : tags[u] <= tags[v] => u <= v
    BY <2>1, TaggedSound DEF IInv, ReleasesSound
  <2>3. \/ TaggedHere(version') /\ version' = current
        \/ version' \in {current, current + 1} /\ Selected(current, version')
    BY <1>3 DEF Choices
  <2>4. TaggedHere(version') \/ \A u \in Published : u < version'
    <3> SUFFICES ASSUME Selected(current, version'), NEW u \in Published
                 PROVE  u < version'
      BY <2>3
    <3>1. PICK w \in Published : IsLatest(w)
      BY LatestExists DEF IInv
    <3>2. u <= w
      BY <2>1, <2>2, <3>1 DEF IsLatest
    <3>3. CASE version' = current /\ \A x \in Published : IsLatest(x) => current > x
      BY <2>1, <3>1, <3>2, <3>3
    <3>4. CASE version' = current + 1 /\ IsLatest(current)
      BY <2>1, <2>2, <3>4 DEF IsLatest
    <3> QED
      BY <3>3, <3>4 DEF Selected
  <2>5. Working'
    BY <1>1, <1>3, <2>1, <2>3, <2>4, HubKept DEF Working, Goto, Prepared, TaggedHere, Hub
  <2>6. version' \in Nat
    BY <2>1, <2>3
  <2> QED
    BY <1>1, <1>3, <2>5, <2>6, QuietGoto DEF Preparing
<1> QED
  BY <1>2, <1>3 DEF Select

(* A tag at the source makes a plan of it.                                 *)
LEMMA RecheckStep == IInv /\ Recheck => IInv'
<1> SUFFICES ASSUME IInv, Recheck
             PROVE  IInv'
  OBVIOUS
<1>1. event # 0 /\ UNCHANGED Hub /\ pc = "recheck"
  BY DEF Recheck, At, Hub, IInv, TypeOK
<1>2. CASE Tip # source
  BY <1>1, <1>2, QuietEnd DEF Recheck, Endings
<1>3. CASE Tip = source /\ TaggedHere(version)
  <2>1. Goto("eligible") /\ version' = version
    BY <1>3 DEF Recheck
  <2>2. Plan(version, source)
    BY <1>3 DEF TaggedHere, IInv, Tagged
  <2>3. Working'
    BY <1>1, <2>1, <2>2, HubKept DEF Working, Goto, Prepared, Plan, Recorded, Above, PlanNext
  <2> QED
    BY <1>1, <2>1, <2>3, QuietGoto DEF IInv, TypeOK, Preparing
<1>4. CASE Tip = source /\ ~TaggedHere(version)
  <2>1. Goto("commit") /\ version' = version
    BY <1>4 DEF Recheck
  <2>2. Working'
    BY <1>1, <2>1, HubKept DEF IInv, Working, Goto, Prepared, Hub, TaggedHere
  <2> QED
    BY <1>1, <2>1, <2>2, QuietGoto DEF IInv, TypeOK, Preparing
<1> QED
  BY <1>2, <1>3, <1>4

LEMMA EligibleStep == IInv /\ Eligible => IInv'
<1> SUFFICES ASSUME IInv, Eligible
             PROVE  IInv'
  OBVIOUS
<1>1. event # 0 /\ UNCHANGED Hub /\ pc = "eligible"
  BY DEF Eligible, At, Hub, IInv, TypeOK
<1>2. CASE Tip # source
  BY <1>1, <1>2, QuietEnd DEF Eligible, Endings
<1>3. CASE Tip = source
  <2>1. Goto("build") /\ version' = version
    BY <1>3 DEF Eligible
  <2>2. Working'
    BY <1>1, <2>1, HubKept DEF IInv, Working, Goto, Prepared, Plan, Recorded, Above, PlanNext
  <2> QED
    BY <1>1, <2>1, <2>2, QuietGoto DEF IInv, TypeOK, Prepared
<1> QED
  BY <1>2, <1>3

LEMMA BuildStep == IInv /\ Build => IInv'
<1> SUFFICES ASSUME IInv, Build
             PROVE  IInv'
  OBVIOUS
<1>1. event # 0 /\ UNCHANGED Hub /\ pc = "build"
  BY DEF Build, At, Hub, IInv, TypeOK
<1>2. CASE End("failed")
  BY <1>1, <1>2, QuietEnd DEF Endings
<1>3. CASE Goto("check") /\ version' = version
  <2>1. Working'
    BY <1>1, <1>3, HubKept DEF IInv, Working, Goto, Prepared, Plan, Recorded, Above, PlanNext
  <2> QED
    BY <1>1, <1>3, <2>1, QuietGoto DEF IInv, TypeOK, Prepared
<1> QED
  BY <1>2, <1>3 DEF Build

(* Nothing lies behind the tip of main.                                    *)
LEMMA CheckStep == IInv /\ Check => IInv'
<1> SUFFICES ASSUME IInv, Check
             PROVE  IInv'
  OBVIOUS
<1>1. event # 0 /\ UNCHANGED Hub /\ pc = "check"
  BY DEF Check, At, Hub, IInv, TypeOK
<1>2. CASE Tip # source
  BY <1>1, <1>2, QuietEnd DEF Check, Endings
<1>3. CASE Tip = source
  <2>1. Goto("publish") /\ version' = version
    BY <1>3 DEF Check
  <2>2. /\ \A v \in DOMAIN tags : tags[v] <= source
        /\ \A e \in DOMAIN past : past[e].job # "fresh" => past[e].source <= source
    BY <1>3, MainTyped DEF IInv, TypeOK, Planned, Plan, Recorded
  <2>3. Working'
    BY <1>1, <2>1, <2>2, HubKept DEF IInv, Working, Goto, Prepared, Plan, Recorded, Above, PlanNext, Hub
  <2> QED
    BY <1>1, <2>1, <2>3, QuietGoto DEF IInv, TypeOK, Prepared
<1> QED
  BY <1>2, <1>3

(* The version commit is a plan: every release is of an earlier commit.    *)
LEMMA RecordStep == IInv /\ Record => IInv'
<1> SUFFICES ASSUME IInv, Record
             PROVE  IInv'
  OBVIOUS
<1>1. event # 0 /\ pc = "commit" /\ tags' = tags /\ releases' = releases
  BY DEF Record, At, IInv, TypeOK
<1>2. version # 0 /\ version \in Nat /\ (TaggedHere(version) \/ \A u \in Published : u < version)
  BY <1>1 DEF IInv, Working, TypeOK
<1>3. CASE commits[source].version = version /\ commits[source].synced
  <2>1. Goto("eligible") /\ version' = version /\ UNCHANGED Hub
    BY <1>1, <1>3 DEF Record, Hub
  <2>2. Plan(version, source)
    <3>1. CASE TaggedHere(version)
      BY <3>1 DEF IInv, Tagged, TaggedHere
    <3>2. CASE \A u \in Published : u < version
      BY <1>1, <1>3, <3>2 DEF IInv, TypeOK, Plan, Recorded, Above
    <3> QED
      BY <1>2, <3>1, <3>2
  <2>3. Working'
    BY <2>1, <2>2, HubKept DEF Working, Goto, Prepared, Plan, Recorded, Above, PlanNext
  <2> QED
    BY <1>1, <2>1, <2>3, QuietGoto DEF IInv, TypeOK, Preparing
<1>4. CASE ~(commits[source].version = version /\ commits[source].synced) /\ Tip # source
  <2>1. End("failed") /\ UNCHANGED Hub
    BY <1>1, <1>4 DEF Record, Hub
  <2> QED
    BY <1>1, <2>1, QuietEnd DEF Endings
<1>5. CASE ~(commits[source].version = version /\ commits[source].synced) /\ Tip = source
  <2>1. /\ commits' = Append(commits, Commit(version, TRUE, TRUE)) /\ past' = Append(past, Untried)
        /\ source' = Tip + 1 /\ pc' = "eligible" /\ UNCHANGED <<event, version, waiting>>
    BY <1>5 DEF Record
  <2>2. Commit(version, TRUE, TRUE) \in Commits
    BY <1>2 DEF Commit, Commits
  <2>3. /\ commits' \in Seq(Commits) /\ Tip' = Tip + 1 /\ Growing
        /\ DOMAIN commits' = 1 .. Tip + 1 /\ commits'[Tip + 1] = Commit(version, TRUE, TRUE)
        /\ Pushes \subseteq Pushes'
    BY <2>1, <2>2, MainAppended DEF IInv
  <2>4. /\ past' \in Seq(Attempts) /\ Len(past') = Tip + 1 /\ past'[Tip + 1] = Untried
        /\ \A e \in 1 .. Tip : past'[e] = past[e]
    BY <2>1, PastAppended DEF IInv
  <2>5. /\ Tip \in Nat /\ DOMAIN commits = 1 .. Tip /\ DOMAIN past = 1 .. Tip /\ DOMAIN past' = 1 .. Tip + 1
        /\ Published' = Published
    BY <1>1, <2>4, MainTyped, LenProperties DEF IInv, Published, Contract!Published
  <2>6. TypeOK'
    <3>1. waiting' \in [event : {0} \cup Pushes', job : Resumed] /\ event' \in {0} \cup Pushes'
      BY <2>1, <2>3 DEF IInv, TypeOK
    <3>2. pc' \in {"idle"} \cup Preparing \cup Prepared /\ (event' = 0 <=> pc' = "idle")
      BY <1>1, <2>1 DEF Preparing
    <3>3. version' \in Nat /\ source' \in Nat /\ source' \in DOMAIN commits' /\ event' # waiting'.event
      BY <1>1, <2>1, <2>3, <2>5 DEF IInv, TypeOK
    <3>4. (\A v \in DOMAIN tags' : tags'[v] \in DOMAIN commits') /\ Published' \subseteq DOMAIN tags'
      BY <1>1, <2>3, <2>5 DEF IInv, TypeOK
    <3> QED
      BY <2>3, <2>4, <3>1, <3>2, <3>3, <3>4 DEF TypeOK
  <2>7. \A v, c : Plan(v, c) => PlanNext(v, c)
    BY <1>1, <2>3, <2>5, PlanKept
  <2>8. Tagged' /\ Attached'
    BY <1>1, <2>5, <2>7 DEF IInv, Tagged, Attached, Plan, Recorded, Above, PlanNext
  <2>9. Planned'
    <3>1. \A e \in DOMAIN past' : past'[e].job # "fresh" => PlanNext(past'[e].version, past'[e].source)
      BY <2>4, <2>5, <2>7 DEF IInv, Planned, Untried
    <3>2. waiting.event # 0 => waiting.event \in 1 .. Tip
      BY <2>5 DEF IInv, TypeOK, Pushes
    <3>3. \A e \in DOMAIN past' : UnderWay(e)' => past'[e].outcome = "none"
      BY <2>1, <2>4, <2>5 DEF IInv, Planned, UnderWay, Untried
    <3>4. waiting.event # 0 => past'[waiting.event].job = past[waiting.event].job
      BY <2>4, <3>2
    <3> QED
      BY <2>1, <3>1, <3>3, <3>4 DEF IInv, Planned, Plan, Recorded, Above, PlanNext
  <2>10. ~TaggedHere(version)
    BY <1>5 DEF IInv, Tagged, TaggedHere, Plan, Recorded
  <2>11. Plan(version, source)'
    BY <1>2, <2>1, <2>3, <2>5, <2>10 DEF Plan, Recorded, Above, Commit
  <2>12. Working'
    BY <2>1, <2>11 DEF Working, Prepared
  <2> QED
    BY <2>6, <2>8, <2>9, <2>12 DEF IInv
<1> QED
  BY <1>3, <1>4, <1>5

----------------------------------------------------------------------------
(* Steps that publish. The run's source is behind no tag and no plan, so   *)
(* that what it adds is below none of them.                                *)
LEMMA PublishNew ==
    ASSUME IInv, event # 0, pc = "publish",
           version \in DOMAIN tags => tags[version] = source, version \notin Published
    PROVE  /\ Plan(version, source)
           /\ \A u \in Published : u < version /\ tags[u] < source
<1>1. Plan(version, source) /\ \A v \in DOMAIN tags : tags[v] <= source
  BY DEF IInv, Working, Prepared
<1>2. \A u \in Published : u \in DOMAIN tags /\ tags[u] \in Nat /\ commits[tags[u]].version = u
  BY MainTyped DEF IInv, TypeOK, Tagged, Plan, Recorded
<1>3. \A u \in Published : tags[u] # source
  BY <1>1, <1>2 DEF Plan, Recorded
<1> QED
  BY <1>1, <1>2, <1>3 DEF Plan, Above, IInv, TypeOK

LEMMA PublishStep == IInv /\ Publish => IInv'
<1> SUFFICES ASSUME IInv, Publish
             PROVE  IInv'
  OBVIOUS
<1>1. event # 0 /\ pc = "publish" /\ UNCHANGED commits
  BY DEF Publish, At, IInv, TypeOK
<1>2. CASE version \in DOMAIN tags /\ tags[version] # source
  <2>1. End("refused") /\ UNCHANGED Hub
    BY <1>1, <1>2 DEF Publish, Hub
  <2> QED
    BY <1>1, <2>1, QuietEnd DEF Endings
<1>3. CASE (version \in DOMAIN tags => tags[version] = source) /\ version \in Published
  <2>1. Goto("upload") /\ releases' = [releases EXCEPT ![version] = 0] /\ version' = version /\ tags' = tags
    BY <1>3 DEF Publish
  <2>2. Published' = Published /\ Growing
    BY <1>1, <2>1 DEF Published, Contract!Published, Growing
  <2>3. \A v, c : Plan(v, c) => PlanNext(v, c)
    BY <2>1, <2>2, PlanKept
  <2>4. Tagged' /\ Attached'
    BY <2>1, <2>2, <2>3 DEF IInv, Tagged, Attached, Plan, Recorded, Above, PlanNext, Published, Contract!Published
  <2>5. Planned'
    BY <1>1, <2>1, <2>3 DEF IInv, Planned, Goto, Plan, Recorded, Above, PlanNext, UnderWay
  <2>6. Working'
    <3>1. Plan(version, source) /\ (\A v \in DOMAIN tags : tags[v] <= source)
          /\ (\A e \in DOMAIN past : past[e].job # "fresh" => past[e].source <= source)
      BY <1>1 DEF IInv, Working, Prepared
    <3>2. version \in DOMAIN tags
      BY <1>3 DEF IInv, TypeOK
    <3> QED
      BY <1>3, <2>1, <2>3, <3>1, <3>2 DEF Working, Goto, Plan, Recorded, Above, PlanNext
  <2>7. TypeOK'
    BY <1>1, <2>1, <2>2 DEF IInv, TypeOK, Goto, Prepared, Tip, Pushes
  <2> QED
    BY <2>4, <2>5, <2>6, <2>7 DEF IInv
<1>4. CASE (version \in DOMAIN tags => tags[version] = source) /\ version \notin Published
  <2>1. PICK outcome \in Endings : End(outcome)
    BY <1>4 DEF Publish, Endings
  <2>2. /\ tags' = Contract!With(tags, version, source)
        /\ releases' = Contract!With(releases, version, source)
    BY <1>4 DEF Publish
  <2>3. /\ DOMAIN tags' = DOMAIN tags \cup {version} /\ tags'[version] = source
        /\ \A v \in DOMAIN tags : tags'[v] = tags[v]
        /\ Published' = Published \cup {version} /\ releases'[version] = source
        /\ \A v \in Published : releases'[v] = releases[v]
    BY <1>4, <2>2 DEF Contract!With, Published, Contract!Published
  <2>4. Published \subseteq DOMAIN tags
    BY DEF IInv, TypeOK
  <2>5. Plan(version, source) /\ source \in Nat
    BY <1>1, <1>4, PublishNew DEF IInv, TypeOK
  <2>6. \A v, c : Plan(v, c) /\ c <= source => PlanNext(v, c)
    <3> SUFFICES ASSUME NEW v, NEW c, Plan(v, c), c <= source
                 PROVE  PlanNext(v, c)
      OBVIOUS
    <3>1. c \in Nat
      BY MainTyped DEF IInv, Plan, Recorded
    <3>2. ASSUME NEW u \in Published', tags'[u] < c
          PROVE  u < v
      BY <2>3, <2>4, <2>5, <3>1, <3>2 DEF Plan, Above
    <3> QED
      BY <1>1, <3>2 DEF Plan, Recorded, PlanNext
  <2>7. PlanNext(version, source)
    BY <2>5, <2>6
  <2>8. \A e \in DOMAIN past : past[e].job # "fresh" => PlanNext(past[e].version, past[e].source)
    BY <1>1, <2>6 DEF IInv, Planned, Working
  <2>9. /\ past' \in Seq(Attempts) /\ Len(past') = Tip
        /\ Planned' /\ Working'
        /\ waiting' = waiting /\ event' = 0 /\ pc' = "idle" /\ version' = 0 /\ source' = 0
    BY <1>1, <2>1, <2>7, <2>8, EndKeeps DEF IInv
  <2>10. \A v \in DOMAIN tags : PlanNext(v, tags[v])
    BY <1>1, <2>6 DEF IInv, Tagged, Working
  <2>11. Tagged' /\ Attached'
    BY <2>3, <2>4, <2>7, <2>10 DEF IInv, Tagged, Attached, Plan, Recorded, Above, PlanNext
  <2>12. TypeOK'
    BY <1>1, <2>3, <2>4, <2>5, <2>9 DEF IInv, TypeOK, Tip, Pushes, Plan, Recorded
  <2> QED
    BY <2>9, <2>11, <2>12 DEF IInv
<1> QED
  BY <1>2, <1>3, <1>4

LEMMA UploadStep == IInv /\ Upload => IInv'
<1> SUFFICES ASSUME IInv, Upload
             PROVE  IInv'
  OBVIOUS
<1>1. event # 0 /\ pc = "upload" /\ UNCHANGED <<commits, tags>>
  BY DEF Upload, At, IInv, TypeOK
<1>2. CASE version \notin Published
  <2>1. End("failed") /\ UNCHANGED Hub
    BY <1>1, <1>2 DEF Upload, Hub
  <2> QED
    BY <1>1, <2>1, QuietEnd DEF Endings
<1>3. CASE version \in Published
  <2>1. releases' = [releases EXCEPT ![version] = source] /\ End("success") /\ "success" \in Endings
    BY <1>3 DEF Upload, Endings
  <2>2. Published' = Published /\ Growing
    BY <1>1, <2>1 DEF Published, Contract!Published, Growing
  <2>3. \A v, c : Plan(v, c) => PlanNext(v, c)
    BY <1>1, <2>2, PlanKept
  <2>4. Tagged'
    BY <1>1, <2>3 DEF IInv, Tagged, Plan, Recorded, Above, PlanNext
  <2>5. tags[version] = source
    BY <1>1 DEF IInv, Working
  <2>6. Attached'
    BY <1>1, <2>1, <2>2, <2>5 DEF IInv, Attached, Published, Contract!Published
  <2>7. /\ \A e \in DOMAIN past : past[e].job # "fresh" => PlanNext(past[e].version, past[e].source)
        /\ pc \in Prepared => PlanNext(version, source)
    BY <2>3 DEF IInv, Planned, Working
  <2>8. /\ past' \in Seq(Attempts) /\ Len(past') = Tip
        /\ Planned' /\ Working'
        /\ waiting' = waiting /\ event' = 0 /\ pc' = "idle" /\ version' = 0 /\ source' = 0
    BY <1>1, <2>1, <2>7, EndKeeps DEF IInv
  <2>9. TypeOK'
    BY <1>1, <2>2, <2>8 DEF IInv, TypeOK, Tip, Pushes
  <2> QED
    BY <2>4, <2>6, <2>8, <2>9 DEF IInv
<1> QED
  BY <1>2, <1>3

----------------------------------------------------------------------------
(* Steps of people, and of the queue.                                      *)
LEMMA WithdrawStep == ASSUME IInv, NEW v \in Published, Withdraw(v) PROVE IInv'
<1>1. /\ releases' = [u \in Published \ {v} |-> releases[u]]
      /\ UNCHANGED <<commits, tags, waiting, event, pc, version, source, past>>
  BY DEF Withdraw, Contract!Withdraw, run, Published, Contract!Published
<1>2. Published' = Published \ {v} /\ Growing
  BY <1>1 DEF Published, Contract!Published, Growing
<1>3. \A w, c : Plan(w, c) => PlanNext(w, c)
  BY <1>1, <1>2, PlanKept
<1>4. TypeOK'
  BY <1>1, <1>2 DEF IInv, TypeOK, Tip, Pushes
<1>5. Tagged' /\ Attached'
  BY <1>1, <1>2, <1>3 DEF IInv, Tagged, Attached, Plan, Recorded, Above, PlanNext
<1>6. Planned'
  BY <1>1, <1>3 DEF IInv, Planned, Plan, Recorded, Above, PlanNext, UnderWay
<1>7. Working'
  BY <1>1, <1>2, <1>3 DEF IInv, Working, TaggedHere, Plan, Recorded, Above, PlanNext
<1> QED
  BY <1>4, <1>5, <1>6, <1>7 DEF IInv

(* A queued run changes past only in outcomes.                             *)
LEMMA EnqueueKeeps ==
    ASSUME TypeOK, NEW e, NEW job \in Resumed, NEW p \in Seq(Attempts), Enqueue(e, job, p),
           Len(p) >= Tip
    PROVE  /\ past' \in Seq(Attempts) /\ Len(past') = Len(p)
           /\ \A f \in 1 .. Len(p) : /\ past'[f].job = p[f].job
                                     /\ past'[f].version = p[f].version
                                     /\ past'[f].source = p[f].source
                                     /\ f # waiting.event => past'[f].outcome = p[f].outcome
<1>1. CASE waiting.event = 0
  BY <1>1 DEF Enqueue
<1>2. CASE waiting.event # 0
  <2> DEFINE w == waiting.event
             a == [p[w] EXCEPT !.outcome = "cancelled"]
  <2>1. Tip \in Nat /\ Len(p) \in Nat /\ w \in 1 .. Tip
    BY <1>2, MainTyped, LenProperties DEF TypeOK, Pushes
  <2>2. w \in 1 .. Len(p)
    BY <2>1
  <2>3. p[w] \in Attempts
    BY <2>2, ElementOfSeq
  <2>4. a \in Attempts /\ a.job = p[w].job /\ a.version = p[w].version /\ a.source = p[w].source
    BY <2>3 DEF Attempts, Endings
  <2>5. past' = [p EXCEPT ![w] = a]
    BY <1>2 DEF Enqueue
  <2> HIDE DEF a
  <2> QED
    BY <2>2, <2>4, <2>5, PastChanged
<1> QED
  BY <1>1, <1>2

LEMMA PushStep == IInv /\ Push => IInv'
<1> SUFFICES ASSUME IInv, Push
             PROVE  IInv'
  OBVIOUS
<1>1. /\ UNCHANGED <<tags, releases, event, pc, version, source>>
      /\ Enqueue(Tip + 1, "fresh", Append(past, Untried))
  BY DEF Push, run
<1>2. PICK c \in Commits : ~c.bot /\ commits' = Append(commits, c)
  <2>1. CASE Tip > 0 /\ commits' = Append(commits, [commits[Tip] EXCEPT !.bot = FALSE])
    <3>1. commits[Tip] \in Commits
      BY <2>1, MainTyped DEF IInv
    <3>2. [commits[Tip] EXCEPT !.bot = FALSE] \in Commits /\ ~[commits[Tip] EXCEPT !.bot = FALSE].bot
      BY <3>1 DEF Commits
    <3> QED
      BY <2>1, <3>2
  <2>2. CASE \E v \in DevVersions, synced \in BOOLEAN : commits' = Append(commits, Commit(v, synced, FALSE))
    <3>1. PICK v \in DevVersions, synced \in BOOLEAN : commits' = Append(commits, Commit(v, synced, FALSE))
      BY <2>2
    <3>2. Commit(v, synced, FALSE) \in Commits /\ ~Commit(v, synced, FALSE).bot
      BY DevVersionsAssumption DEF Commit, Commits
    <3> QED
      BY <3>1, <3>2
  <2> QED
    BY <2>1, <2>2 DEF Push
<1>3. /\ commits' \in Seq(Commits) /\ Tip' = Tip + 1 /\ Growing
      /\ DOMAIN commits' = 1 .. Tip + 1
      /\ Pushes \subseteq Pushes' /\ Tip + 1 \in Pushes'
  BY <1>2, MainAppended DEF IInv
<1>4. /\ Tip \in Nat /\ DOMAIN commits = 1 .. Tip /\ DOMAIN past = 1 .. Tip /\ Published' = Published
  BY <1>1, MainTyped DEF IInv, Published, Contract!Published
<1>5. PICK p : p = Append(past, Untried)
  OBVIOUS
<1>6. /\ p \in Seq(Attempts) /\ Len(p) = Tip + 1 /\ p[Tip + 1] = Untried
      /\ \A e \in 1 .. Tip : p[e] = past[e]
  BY <1>5, PastAppended DEF IInv
<1>7. /\ past' \in Seq(Attempts) /\ Len(past') = Tip + 1
      /\ past'[Tip + 1].job = "fresh" /\ past'[Tip + 1].outcome = "none"
      /\ \A f \in 1 .. Tip : /\ past'[f].job = past[f].job
                             /\ past'[f].version = past[f].version
                             /\ past'[f].source = past[f].source
                             /\ f # waiting.event => past'[f].outcome = past[f].outcome
  <2>1. "fresh" \in Resumed /\ Enqueue(Tip + 1, "fresh", p) /\ Len(p) >= Tip
    BY <1>1, <1>4, <1>5, <1>6 DEF Resumed
  <2>2. /\ past' \in Seq(Attempts) /\ Len(past') = Len(p)
        /\ \A f \in 1 .. Len(p) : /\ past'[f].job = p[f].job
                                  /\ past'[f].version = p[f].version
                                  /\ past'[f].source = p[f].source
                                  /\ f # waiting.event => past'[f].outcome = p[f].outcome
    BY <1>6, <2>1, EnqueueKeeps DEF IInv
  <2>3. Tip + 1 # waiting.event
    BY <1>4 DEF IInv, TypeOK, Pushes
  <2> QED
    BY <1>4, <1>6, <2>2, <2>3 DEF Untried
<1>8. waiting' = [event |-> Tip + 1, job |-> "fresh"]
  BY <1>1 DEF Enqueue
<1>9. \A v, d : Plan(v, d) => PlanNext(v, d)
  BY <1>1, <1>3, <1>4, PlanKept
<1>10. TypeOK'
  <2>1. event \in {0} \cup 1 .. Tip
    BY <1>4 DEF IInv, TypeOK, Pushes
  <2>2. waiting' \in [event : {0} \cup Pushes', job : Resumed] /\ event' \in {0} \cup Pushes'
        /\ (event' # 0 => event' # waiting'.event)
    BY <1>1, <1>3, <1>4, <1>8, <2>1 DEF IInv, TypeOK, Resumed
  <2>3. /\ (event' # 0 => source' \in DOMAIN commits')
        /\ (\A v \in DOMAIN tags' : tags'[v] \in DOMAIN commits')
    BY <1>1, <1>3, <1>4 DEF IInv, TypeOK
  <2> QED
    BY <1>1, <1>3, <1>4, <1>7, <2>2, <2>3 DEF IInv, TypeOK
<1>11. Tagged' /\ Attached'
  BY <1>1, <1>4, <1>9 DEF IInv, Tagged, Attached, Plan, Recorded, Above, PlanNext
<1>12. DOMAIN past' = 1 .. Tip + 1
  BY <1>7, LenProperties
<1>13. Planned'
  <2>1. \A e \in DOMAIN past' : past'[e].job # "fresh" => PlanNext(past'[e].version, past'[e].source)
    BY <1>4, <1>7, <1>9, <1>12 DEF IInv, Planned
  <2>2. event # 0 => event \in 1 .. Tip /\ event # waiting.event
    BY <1>4 DEF IInv, TypeOK, Pushes
  <2>3. \A e \in DOMAIN past' : UnderWay(e)' => past'[e].outcome = "none"
    BY <1>1, <1>4, <1>7, <1>8, <1>12, <2>2 DEF IInv, Planned, UnderWay
  <2> QED
    BY <1>8, <2>1, <2>3 DEF Planned, Plan, Recorded, Above, PlanNext
<1>14. Working'
  <2>1. \A e \in DOMAIN past : past[e].job # "fresh" => past[e].source \in Nat
    BY <1>4, MainTyped DEF IInv, Attempts
  <2>2. pc \in {"publish", "upload"} =>
           \A e \in DOMAIN past' : past'[e].job # "fresh" => past'[e].source <= source
    BY <1>4, <1>7, <1>12, <2>1 DEF IInv, Working
  <2>3. pc \in {"eligible"} \cup Prepared => Plan(version, source)'
    BY <1>1, <1>9 DEF IInv, Working, Plan, Recorded, Above, PlanNext
  <2> QED
    BY <1>1, <1>4, <2>2, <2>3 DEF IInv, Working, TaggedHere
<1> QED
  BY <1>10, <1>11, <1>13, <1>14 DEF IInv

LEMMA RerunStep == ASSUME IInv, NEW e \in Pushes, Rerun(e) PROVE IInv'
<1>1. /\ UNCHANGED <<commits, tags, releases, event, pc, version, source>> /\ UNCHANGED Hub
      /\ past[e].outcome # "none"
  BY DEF Rerun, run, Hub
<1>2. /\ Tip \in Nat /\ DOMAIN commits = 1 .. Tip /\ DOMAIN past = 1 .. Tip /\ e \in 1 .. Tip
      /\ past \in Seq(Attempts) /\ Len(past) = Tip /\ past[e] \in Attempts
  BY MainTyped DEF IInv, TypeOK, Pushes
<1>3. PICK job \in {"fresh", past[e].job} : Enqueue(e, job, [past EXCEPT ![e].outcome = "none"])
  BY DEF Rerun
<1>4. job \in Resumed
  BY <1>2, <1>3 DEF Resumed, Attempts
<1>5. PICK a : a = [past[e] EXCEPT !.outcome = "none"]
  OBVIOUS
<1>6. /\ a \in Attempts /\ a.outcome = "none"
      /\ a.job = past[e].job /\ a.version = past[e].version /\ a.source = past[e].source
  BY <1>2, <1>5 DEF Attempts
<1>7. PICK p : p = [past EXCEPT ![e] = a]
  OBVIOUS
<1>8. /\ p \in Seq(Attempts) /\ Len(p) = Tip /\ p[e] = a
      /\ \A f \in 1 .. Tip : f # e => p[f] = past[f]
  BY <1>2, <1>6, <1>7, PastChanged
<1>9. Enqueue(e, job, p) /\ Len(p) >= Tip
  BY <1>2, <1>3, <1>5, <1>7, <1>8
<1>10. /\ past' \in Seq(Attempts) /\ Len(past') = Len(p)
       /\ \A f \in 1 .. Len(p) : /\ past'[f].job = p[f].job
                                 /\ past'[f].version = p[f].version
                                 /\ past'[f].source = p[f].source
                                 /\ f # waiting.event => past'[f].outcome = p[f].outcome
  BY <1>4, <1>8, <1>9, EnqueueKeeps DEF IInv
<1>11. \A f \in 1 .. Tip : /\ past'[f].job = past[f].job
                           /\ past'[f].version = past[f].version
                           /\ past'[f].source = past[f].source
                           /\ f \notin {e, waiting.event} => past'[f].outcome = past[f].outcome
  BY <1>6, <1>8, <1>10
<1>12. waiting' = [event |-> e, job |-> job] /\ DOMAIN past' = 1 .. Tip
  BY <1>8, <1>9, <1>10, LenProperties DEF Enqueue
<1>13. e # event /\ e # waiting.event /\ e # 0
  BY <1>1, <1>2 DEF IInv, Planned, UnderWay
<1>14. TypeOK'
  <2>1. waiting' \in [event : {0} \cup Pushes, job : Resumed] /\ waiting'.event # event
    BY <1>4, <1>12, <1>13
  <2> QED
    BY <1>1, <1>8, <1>10, <2>1, HubKept DEF IInv, TypeOK, Hub
<1>15. Planned'
  <2>1. \A f \in DOMAIN past' : past'[f].job # "fresh" => PlanNext(past'[f].version, past'[f].source)
    BY <1>1, <1>2, <1>11, <1>12, HubKept DEF IInv, Planned
  <2>2. event # 0 => event \in 1 .. Tip /\ event # waiting.event
    BY <1>2 DEF IInv, TypeOK, Pushes
  <2>3. past'[e].outcome = "none"
    BY <1>2, <1>6, <1>8, <1>10, <1>13
  <2>4. \A f \in DOMAIN past' : UnderWay(f)' => past'[f].outcome = "none"
    BY <1>1, <1>2, <1>11, <1>12, <1>13, <2>2, <2>3 DEF IInv, Planned, UnderWay
  <2>5. job # "fresh" => past'[e].job # "fresh"
    BY <1>2, <1>3, <1>11
  <2> QED
    BY <1>12, <2>1, <2>4, <2>5 DEF Planned, Plan, Recorded, Above, PlanNext
<1>16. Working'
  BY <1>1, <1>2, <1>11, <1>12, HubKept DEF IInv, Working, TaggedHere, Plan, Recorded, Above, PlanNext, Hub
<1> QED
  BY <1>1, <1>14, <1>15, <1>16, HubKept DEF IInv

LEMMA StartStep == IInv /\ Start => IInv'
<1> SUFFICES ASSUME IInv, Start
             PROVE  IInv'
  OBVIOUS
<1>1. /\ event = 0 /\ waiting.event # 0 /\ UNCHANGED Hub /\ past' = past
      /\ event' = waiting.event /\ pc' = waiting.job /\ waiting' = Nobody
  BY DEF Start, Hub
<1>2. /\ waiting.event \in 1 .. Tip /\ waiting.event \in Pushes /\ waiting.event \in Nat
      /\ waiting.job \in Resumed
      /\ DOMAIN past = 1 .. Tip /\ DOMAIN commits = 1 .. Tip /\ past[waiting.event] \in Attempts
  BY <1>1, MainTyped DEF IInv, TypeOK, Pushes
<1>3. /\ pc' # "fresh" => Plan(version, source)'
      /\ source' \in DOMAIN commits /\ version' \in Nat
  <2>1. CASE waiting.job = "fresh"
    BY <1>1, <1>2, <2>1 DEF Start
  <2>2. CASE waiting.job # "fresh"
    <3>1. version' = past[waiting.event].version /\ source' = past[waiting.event].source
      BY <2>2 DEF Start
    <3>2. Plan(past[waiting.event].version, past[waiting.event].source)
      BY <1>1, <1>2, <2>2 DEF IInv, Planned
    <3>3. past[waiting.event].version \in Nat
      BY <1>2 DEF Attempts
    <3> QED
      BY <1>1, <3>1, <3>2, <3>3 DEF Plan, Recorded, Above, Hub, Published, Contract!Published
  <2> QED
    BY <2>1, <2>2
<1>4. TypeOK'
  <2>1. pc' \in {"idle"} \cup Preparing \cup Prepared /\ pc' # "idle"
    BY <1>1, <1>2 DEF Resumed, Preparing, Prepared
  <2>2. waiting' \in [event : {0} \cup Pushes, job : Resumed] /\ waiting'.event = 0
    BY <1>1 DEF Nobody, Resumed
  <2>3. source' \in Nat
    BY <1>2, <1>3
  <2> QED
    BY <1>1, <1>2, <1>3, <2>1, <2>2, <2>3, HubKept DEF IInv, TypeOK, Hub
<1>5. Planned'
  BY <1>1, HubKept DEF IInv, Planned, Nobody, Plan, Recorded, Above, Hub, Published, Contract!Published, UnderWay
<1>6. Working'
  BY <1>1, <1>2, <1>3 DEF Working, Resumed, Prepared
<1> QED
  BY <1>1, <1>4, <1>5, <1>6, HubKept DEF IInv

LEMMA StepIInv == IInv /\ [Next]_vars => IInv'
<1> SUFFICES ASSUME IInv, [Next]_vars
             PROVE  IInv'
  OBVIOUS
<1>1. CASE RunStep
  BY <1>1, FreshStep, SelectStep, RecheckStep, RecordStep, EligibleStep, BuildStep, CheckStep,
     PublishStep, UploadStep DEF RunStep
<1>2. CASE UNCHANGED vars
  BY <1>2 DEF vars, run, IInv, TypeOK, Tagged, Attached, Planned, Working, Plan, Recorded, Above,
     Tip, Pushes, Published, Contract!Published, TaggedHere, UnderWay
<1> QED
  BY <1>1, <1>2, PushStep, StartStep, FailStep, RerunStep, WithdrawStep DEF Next

LEMMA Invariance == Spec => []IInv
  BY InitIInv, StepIInv, PTL DEF Spec

(* The types hold, and no push has two runs under way.                     *)
THEOREM TypesHold == Spec => []TypeOK
  BY Invariance, PTL DEF IInv

(* What is published was built from the commit that records it, and higher *)
(* versions are of later commits.                                          *)
THEOREM PublishedSoundly == Spec => []ReleasesSound
<1>1. IInv => ReleasesSound
  BY TaggedSound DEF IInv
<1> QED
  BY <1>1, Invariance, PTL

(* Every step of the workflow is one the contract allows.                  *)
LEMMA StepImplements == IInv /\ [Next]_vars => [Contract!Next]_(Contract!vars)
<1> SUFFICES ASSUME IInv, [Next]_vars
             PROVE  Contract!Next \/ UNCHANGED Contract!vars
  OBVIOUS
<1> USE DEF Contract!vars
<1>1. CASE Push
  <2>1. PICK c : commits' = Append(commits, c)
    BY <1>1 DEF Push
  <2>2. Contract!Advance
    BY <1>1, <2>1 DEF Push, Contract!Advance, IInv, TypeOK
  <2> QED
    BY <2>2 DEF Contract!Next
<1>2. CASE Record
  <2>1. CASE UNCHANGED commits
    BY <1>2, <2>1 DEF Record
  <2>2. CASE commits' = Append(commits, Commit(version, TRUE, TRUE))
    <3>1. tags' = tags /\ releases' = releases
      BY <1>2 DEF Record
    <3>2. Len(commits') = Len(commits) + 1 /\ \A c \in DOMAIN commits : commits'[c] = commits[c]
      <4>1. PICK c : commits' = Append(commits, c)
        BY <2>2
      <4> QED
        BY <4>1 DEF IInv, TypeOK
    <3>3. Contract!Advance
      BY <3>1, <3>2 DEF Contract!Advance
    <3> QED
      BY <3>3 DEF Contract!Next
  <2> QED
    BY <1>2, <2>1, <2>2 DEF Record, Goto, End
<1>3. CASE Publish
  <2>1. event # 0 /\ pc = "publish" /\ UNCHANGED commits
    BY <1>3 DEF Publish, At, IInv, TypeOK
  <2>2. CASE version \in DOMAIN tags /\ tags[version] # source
    BY <1>3, <2>2 DEF Publish
  <2>3. CASE (version \in DOMAIN tags => tags[version] = source) /\ version \in Published
    <3>1. Contract!Reattach(version)
      BY <1>3, <2>3 DEF Publish, Contract!Reattach
    <3> QED
      BY <2>3, <3>1 DEF Contract!Next, Published
  <2>4. CASE (version \in DOMAIN tags => tags[version] = source) /\ version \notin Published
    <3>1. Plan(version, source) /\ \A u \in Published : u < version /\ tags[u] < source
      BY <2>1, <2>4, PublishNew
    <3>2. Contract!Publish(version, source)
      BY <1>3, <2>4, <3>1 DEF Publish, Contract!Publish, Published, Plan, Recorded
    <3> QED
      BY <3>1, <3>2 DEF Contract!Next, Plan, Recorded
  <2> QED
    BY <2>2, <2>3, <2>4
<1>4. CASE Upload
  <2>1. CASE version \in Published
    <3>1. tags[version] = source
      BY <1>4 DEF Upload, At, IInv, Working
    <3>2. Contract!Reattach(version)
      BY <1>4, <2>1, <3>1 DEF Upload, Contract!Reattach
    <3> QED
      BY <2>1, <3>2 DEF Contract!Next, Published
  <2>2. CASE version \notin Published
    BY <1>4, <2>2 DEF Upload
  <2> QED
    BY <2>1, <2>2
<1>5. ASSUME NEW v \in Published, Withdraw(v)
      PROVE  Contract!Next
  BY <1>5 DEF Withdraw, Contract!Next, Published
<1>6. CASE Fresh \/ Select \/ Recheck \/ Eligible \/ Build \/ Check \/ Fail \/ Start
           \/ \E e \in Pushes : Rerun(e)
  BY <1>6 DEF Fresh, Select, Recheck, Eligible, Build, Check, Fail, Start, Rerun
<1>7. CASE UNCHANGED vars
  BY <1>7 DEF vars
<1> QED
  BY <1>1, <1>2, <1>3, <1>4, <1>5, <1>6, <1>7 DEF Next, RunStep

(* The workflow implements the contract: tags stay, and what is published  *)
(* on top of a release is a higher version of a later commit.              *)
THEOREM Implements == Spec => ImplementsContract
<1>1. Init => Contract!Init
  BY DEF Init
<1> QED
  BY <1>1, StepImplements, Invariance, PTL DEF Spec, ImplementsContract, Contract!Spec
============================================================================
