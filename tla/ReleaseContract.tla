-------------------------- MODULE ReleaseContract --------------------------
(***************************************************************************)
(* What the release automation promises whoever installs a version: a      *)
(* version is tagged once, for a commit that records it; wheels attached   *)
(* to it were built from that commit; and what is published on top of a    *)
(* release is a higher version of a later commit.                          *)
(***************************************************************************)
EXTENDS Integers, Sequences

VARIABLES commits,  \* main, oldest commit first
          tags,     \* tags[v]: the commit tagged v, for the versions with a tag
          releases  \* releases[v]: the commit the wheels of v are of, 0 if v has
                    \* none, for the versions with a published release

vars == <<commits, tags, releases>>

Published == DOMAIN releases

Init ==
    /\ commits = <<>>
    /\ tags = [v \in {} |-> 0]
    /\ releases = [v \in {} |-> 0]

(* f with f[x] = y.                                                        *)
With(f, x, y) == [z \in DOMAIN f \cup {x} |-> IF z = x THEN y ELSE f[z]]

Advance ==
    /\ Len(commits') = Len(commits) + 1
    /\ \A c \in DOMAIN commits : commits'[c] = commits[c]
    /\ UNCHANGED <<tags, releases>>

Publish(v, c) ==
    /\ v \notin Published
    /\ v \in DOMAIN tags => tags[v] = c
    /\ commits[c].version = v /\ commits[c].synced
    /\ \A u \in Published : u < v /\ tags[u] < c
    /\ tags' = With(tags, v, c)
    /\ releases' = With(releases, v, c)
    /\ UNCHANGED commits

(* Wheels are attached again, which takes them away first.                 *)
Reattach(v) ==
    /\ \E c \in {0, tags[v]} : releases' = [releases EXCEPT ![v] = c]
    /\ UNCHANGED <<commits, tags>>

(* A maintainer deletes a release; its tag stays.                          *)
Withdraw(v) ==
    /\ releases' = [u \in Published \ {v} |-> releases[u]]
    /\ UNCHANGED <<commits, tags>>

Next ==
    \/ Advance
    \/ \E c \in DOMAIN commits : Publish(commits[c].version, c)
    \/ \E v \in Published : Reattach(v) \/ Withdraw(v)

Spec == Init /\ [][Next]_vars
============================================================================
