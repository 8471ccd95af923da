------------------------------ MODULE Release ------------------------------
(***************************************************************************)
(* The Publish workflow (publish.yml) with scripts/release.py: from a push *)
(* to main to a published release.                                         *)
(*                                                                         *)
(* Developers push while a run is at work, a run may stop at any step, and *)
(* people start runs again, whole or from the jobs that failed. The        *)
(* concurrency group lets one run work and one wait; who comes later takes *)
(* the place of the one that waits. Each reading of main and each writing  *)
(* to GitHub is a step of its own. Only the run at work creates tags and   *)
(* releases, so what it reads of them between two such steps it reads in   *)
(* one.                                                                    *)
(*                                                                         *)
(* A commit is its place on main. Versions are a patch apart.              *)
(***************************************************************************)
EXTENDS Integers, Sequences, FiniteSets

CONSTANTS MaxPushes,   \* bound on the pushes of developers
          DevVersions  \* versions developers write into Cargo.toml

ASSUME MaxPushesAssumption   == MaxPushes \in Nat
ASSUME DevVersionsAssumption == DevVersions \subseteq Nat \ {0}

VARIABLES commits, tags, releases,  \* see ReleaseContract
          waiting,  \* the run that waits: the push it is for, and the job it starts at
          event,    \* the push the run at work is for, 0 if no run is at work
          pc,       \* the step that run has reached
          version,  \* RELEASE_TAG of that run, 0 before one is selected
          source,   \* HEAD of its checkout, which becomes RELEASE_SHA
          past      \* past[e]: what the last attempt at push e has left behind

Contract  == INSTANCE ReleaseContract
Published == Contract!Published

run  == <<event, pc, version, source>>
vars == <<commits, tags, releases, waiting, run, past>>

Preparing == {"fresh", "select", "recheck", "commit", "eligible"}
Prepared  == {"build", "check", "publish", "upload"}
Endings   == {"success", "refused", "failed", "cancelled"}

Nobody  == [event |-> 0, job |-> "fresh"]
Untried == [outcome |-> "none", job |-> "fresh", version |-> 0, source |-> 0]

Tip    == Len(commits)
Pushes == {c \in DOMAIN commits : ~commits[c].bot}

Commit(v, synced, bot) == [version |-> v, synced |-> synced, bot |-> bot]

Init ==
    /\ Contract!Init
    /\ waiting = Nobody
    /\ event = 0 /\ pc = "idle" /\ version = 0 /\ source = 0
    /\ past = <<>>

----------------------------------------------------------------------------
(* A run that has to wait replaces the one that waits. p is past but for   *)
(* that.                                                                   *)
Enqueue(e, job, p) ==
    /\ waiting' = [event |-> e, job |-> job]
    /\ past' = IF waiting.event = 0 THEN p ELSE [p EXCEPT ![waiting.event].outcome = "cancelled"]

(* A push leaves the version as it is or writes one, perhaps without       *)
(* Cargo.lock.                                                             *)
Push ==
    /\ Cardinality(Pushes) < MaxPushes
    /\ \/ Tip > 0 /\ commits' = Append(commits, [commits[Tip] EXCEPT !.bot = FALSE])
       \/ \E v \in DevVersions, synced \in BOOLEAN : commits' = Append(commits, Commit(v, synced, FALSE))
    /\ Enqueue(Tip + 1, "fresh", Append(past, Untried))
    /\ UNCHANGED <<tags, releases, run>>

(* Someone starts an ended run again, all of it or from the job that did   *)
(* not succeed, which takes up the outputs and artifacts of the others.    *)
Rerun(e) ==
    /\ past[e].outcome # "none"
    /\ \E job \in {"fresh", past[e].job} : Enqueue(e, job, [past EXCEPT ![e].outcome = "none"])
    /\ UNCHANGED <<commits, tags, releases, run>>

Start ==
    /\ event = 0 /\ waiting.event # 0
    /\ event' = waiting.event /\ pc' = waiting.job
    /\ IF waiting.job = "fresh"
         THEN version' = 0 /\ source' = waiting.event
         ELSE version' = past[waiting.event].version /\ source' = past[waiting.event].source
    /\ waiting' = Nobody
    /\ UNCHANGED <<commits, tags, releases, past>>

\* Mutant of Left: the commit is not among the outputs.
LeftTagOnly(outcome) ==
    IF pc \in Preparing THEN [Untried EXCEPT !.outcome = outcome]
    ELSE [outcome |-> outcome, job |-> IF pc = "build" THEN "build" ELSE "check",
          version |-> version, source |-> 0]

(* Outputs outlive the run once its first job has succeeded, wheels once   *)
(* they have been validated.                                               *)
Left(outcome) ==
    IF pc \in Preparing THEN [Untried EXCEPT !.outcome = outcome]
    ELSE [outcome |-> outcome, job |-> IF pc = "build" THEN "build" ELSE "check",
          version |-> version, source |-> source]

End(outcome) ==
    /\ past' = [past EXCEPT ![event] = Left(outcome)]
    /\ event' = 0 /\ pc' = "idle" /\ version' = 0 /\ source' = 0
    /\ UNCHANGED waiting

At(step)   == pc = step
Goto(step) == pc' = step /\ UNCHANGED <<event, source, waiting, past>>

(* A job is cancelled, loses its runner, or gets no answer from GitHub.    *)
Fail ==
    /\ event # 0
    /\ End("failed")
    /\ UNCHANGED <<commits, tags, releases>>

----------------------------------------------------------------------------
(* Job prepare-version, once CI has passed.                                *)
Fresh ==
    /\ At("fresh")
    /\ IF Tip = source THEN Goto("select") /\ UNCHANGED version ELSE End("success")
    /\ UNCHANGED <<commits, tags, releases>>

(* The release of the latest commit, as GitHub orders them.                *)
IsLatest(v) == v \in Published /\ \A u \in Published : tags[u] <= tags[v]

\* Mutant of Selected: only a higher version is taken.
SelectedHigher(current, v) == v = current /\ \A u \in Published : current > u

(* select_release_version: whether v is chosen for current metadata.       *)
Selected(current, v) ==
    \/ v = current /\ \A u \in Published : IsLatest(u) => current > u
    \/ v = current + 1 /\ IsLatest(current)

TaggedHere(v) == v \in DOMAIN tags /\ tags[v] = source

Choices ==
    LET current == commits[source].version
    IN  IF TaggedHere(current) THEN {current}
        ELSE {v \in {current, current + 1} : Selected(current, v)}

(* A tag of the commit's own version at this commit is taken up, and is    *)
(* enough if its release is there.                                         *)
Select ==
    /\ At("select")
    /\ IF TaggedHere(commits[source].version) /\ commits[source].version \in Published THEN End("success")
       ELSE IF Choices = {} THEN End("refused")
       ELSE version' \in Choices /\ Goto("recheck")
    /\ UNCHANGED <<commits, tags, releases>>

Recheck ==
    /\ At("recheck")
    /\ IF Tip # source THEN End("success")
       ELSE /\ Goto(IF TaggedHere(version) THEN "eligible" ELSE "commit")
            /\ UNCHANGED version
    /\ UNCHANGED <<commits, tags, releases>>

(* The version files are committed if they change and pushed if main has   *)
(* not moved.                                                              *)
Record ==
    /\ At("commit")
    /\ IF commits[source].version = version /\ commits[source].synced
         THEN Goto("eligible") /\ UNCHANGED <<commits, version>>
       ELSE IF Tip # source THEN End("failed") /\ UNCHANGED commits
       ELSE /\ commits' = Append(commits, Commit(version, TRUE, TRUE))
            /\ past' = Append(past, Untried)
            /\ source' = Tip + 1 /\ pc' = "eligible"
            /\ UNCHANGED <<event, version, waiting>>
    /\ UNCHANGED <<tags, releases>>

Eligible ==
    /\ At("eligible")
    /\ IF Tip = source THEN Goto("build") /\ UNCHANGED version ELSE End("success")
    /\ UNCHANGED <<commits, tags, releases>>

----------------------------------------------------------------------------
(* Jobs build-wheels and validate-wheels. The tag has to be the version of *)
(* the source, and --locked wants Cargo.lock to agree.                     *)
Build ==
    /\ At("build")
    /\ IF commits[source].version = version /\ commits[source].synced
         THEN Goto("check") /\ UNCHANGED version
         ELSE End("failed")
    /\ UNCHANGED <<commits, tags, releases>>

\* Mutant of Check: main is not looked at again.
CheckTagOnly ==
    /\ At("check")
    /\ Goto("publish")
    /\ UNCHANGED <<commits, tags, releases, version>>

(* Job release.                                                            *)
Check ==
    /\ At("check")
    /\ IF Tip = source THEN Goto("publish") /\ UNCHANGED version ELSE End("refused")
    /\ UNCHANGED <<commits, tags, releases>>

\* Mutant of Publish: the target of an existing tag is not looked at.
PublishUnderTag ==
    /\ At("publish")
    /\ IF version \in Published
         THEN /\ Goto("upload")
              /\ releases' = [releases EXCEPT ![version] = 0]
              /\ UNCHANGED <<version, tags>>
       ELSE /\ End("success")
            /\ tags' = IF version \in DOMAIN tags THEN tags ELSE Contract!With(tags, version, source)
            /\ releases' = Contract!With(releases, version, source)
    /\ UNCHANGED commits

(* A release that is there loses its wheels before it gets the new ones.   *)
(* Otherwise tag, release and wheels appear at once, whether or not the    *)
(* run hears of it.                                                        *)
Publish ==
    /\ At("publish")
    /\ IF version \in DOMAIN tags /\ tags[version] # source
         THEN End("refused") /\ UNCHANGED <<tags, releases>>
       ELSE IF version \in Published
         THEN /\ Goto("upload")
              /\ releases' = [releases EXCEPT ![version] = 0]
              /\ UNCHANGED <<version, tags>>
       ELSE /\ End("success") \/ End("failed")
            /\ tags' = Contract!With(tags, version, source)
            /\ releases' = Contract!With(releases, version, source)
    /\ UNCHANGED commits

Upload ==
    /\ At("upload")
    /\ IF version \in Published
         THEN releases' = [releases EXCEPT ![version] = source] /\ End("success")
         ELSE UNCHANGED releases /\ End("failed")
    /\ UNCHANGED <<commits, tags>>

(* A maintainer deletes a release and leaves its tag.                      *)
Withdraw(v) ==
    /\ Contract!Withdraw(v)
    /\ UNCHANGED <<waiting, run, past>>

RunStep ==
    Fresh \/ Select \/ Recheck \/ Record \/ Eligible \/ Build \/ Check \/ Publish \/ Upload

Next ==
    \/ Push \/ Start \/ RunStep \/ Fail
    \/ \E e \in Pushes : Rerun(e)
    \/ \E v \in Published : Withdraw(v)

(* Runners work. Nobody has to push, to start a run again or to let it     *)
(* fail.                                                                   *)
Fairness == WF_vars(Start) /\ WF_vars(RunStep)

Spec == Init /\ [][Next]_vars /\ Fairness

----------------------------------------------------------------------------
Resumed  == {"fresh", "build", "check"}
Commits  == [version : Nat \ {0}, synced : BOOLEAN, bot : BOOLEAN]
Attempts == [outcome : Endings \cup {"none"}, job : Resumed, version : Nat, source : Nat]

(* Types, and that the run at work and the one that waits are for pushes   *)
(* on main, one each. A rerun of a push never doubles a run of it.         *)
TypeOK ==
    /\ commits \in Seq(Commits)
    /\ past \in Seq(Attempts)
    /\ Len(past) = Tip
    /\ waiting \in [event : {0} \cup Pushes, job : Resumed]
    /\ event \in {0} \cup Pushes
    /\ pc \in {"idle"} \cup Preparing \cup Prepared
    /\ event = 0 <=> pc = "idle"
    /\ event # 0 => source \in DOMAIN commits /\ event # waiting.event
    /\ version \in Nat /\ source \in Nat
    /\ \A v \in DOMAIN tags : tags[v] \in DOMAIN commits
    /\ Published \subseteq DOMAIN tags

(* A published version is recorded in all files of its tagged commit, its  *)
(* wheels, if it has them, are of that commit, and higher versions are of  *)
(* later commits (publish.yml:166-221, 271-287, 424-496).                  *)
ReleasesSound ==
    \A v \in Published :
        /\ commits[tags[v]].version = v /\ commits[tags[v]].synced
        /\ releases[v] \in {0, tags[v]}
        /\ \A u \in Published : u < v => tags[u] < tags[v]

(* Tags are never moved, and what is published on top of a release is a    *)
(* higher version of a later commit (publish.yml:466-469).                 *)
ImplementsContract == Contract!Spec

----------------------------------------------------------------------------
UnderWay(c) == c \in {waiting.event, event} /\ c # 0

(* The push is in a release, by itself or by its bump.                     *)
IsReleased(c) == \E v \in Published : tags[v] = c \/ (tags[v] = c + 1 /\ commits[c + 1].bot)

(* A version the push could be given belongs to another commit, or to a    *)
(* higher release.                                                         *)
Blocked(c) == \E v \in DOMAIN tags :
    /\ tags[v] \notin {c, c + 1}
    /\ \/ v > commits[c].version
       \/ v = commits[c].version /\ v \notin Published

(* A run that stopped between pushing the bump and handing it on has moved *)
(* main past its own push, which no retry can make up for.                 *)
Stranded(c) ==
    /\ c \in Pushes /\ c + 1 \in DOMAIN commits /\ commits[c + 1].bot
    /\ event # c /\ past[c].job = "fresh"

Superseded(c) == \E d \in Pushes : d > c

(* A push whose run is under way, for the first time or again, is released *)
(* unless the run fails or is cancelled, a later push supersedes it, or    *)
(* its version is taken (publish.yml:7-9, 91, README.md:46-55).            *)
NewestReleased ==
    \A c \in 1 .. 2 * MaxPushes :
        UnderWay(c) ~> /\ c \in Pushes
                       /\ \/ IsReleased(c) \/ Superseded(c) \/ Blocked(c) \/ Stranded(c)
                          \/ past[c].outcome \in {"failed", "cancelled"}
============================================================================
