----------------------------- MODULE MCFetchPrs -----------------------------
(***************************************************************************)
(* Two repositories and four merged PRs.  p1 and p3 share their head       *)
(* commit (one branch merged into two bases), p3 is merged late, so the    *)
(* first repository has two listings; p2 fails the filter; the files of p4 *)
(* may go away, and so may the second repository.                          *)
(***************************************************************************)
EXTENDS FetchPrs

CONSTANTS r1, r2, p1, p2, p3, p4, k1, k2, k4, k3

MCRepos    == {r1, r2}
MCRepoList == <<r1, r2>>
MCPRs      == {p1, p2, p3, p4}
MCMatching == {p1, p3, p4}
MCViews    == [r \in MCRepos |-> IF r = r1 THEN {<<p1, p2>>, <<p3, p1, p2>>}
                                 ELSE {<<p4>>, <<>>}]
MCSharedHead == [p \in MCPRs |-> CASE p = p1 -> k1 [] p = p2 -> k2
                                   [] p = p3 -> k1 [] p = p4 -> k4]

\* Every PR has a head commit of its own; the listing of the first repository
\* is complete, the second may vanish.
MCOwnHead    == [p \in MCPRs |-> CASE p = p1 -> k1 [] p = p2 -> k2
                                   [] p = p3 -> k3 [] p = p4 -> k4]
MCSteadyViews == [r \in MCRepos |-> IF r = r1 THEN {<<p3, p1, p2>>} ELSE {<<p4>>, <<>>}]
MCGone       == {p4}

\* LegacyTarget is 2; a run has target 2 or none.
MCConfigs   == {[max |-> 3, target |-> 0], [max |-> 3, target |-> 2]}
MCUnbounded == {[max |-> 3, target |-> 0]}
MCTwoLimits == MCConfigs \union {[max |-> 1, target |-> 2]}

\* With LegacyTarget 3: a run without target goes on from the sidecar of target
\* 3, and nobody but a run with target 2 from that of target 2.
MCTargets == MCConfigs \union {[max |-> 3, target |-> 3]}
=============================================================================
