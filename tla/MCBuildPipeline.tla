--------------------------- MODULE MCBuildPipeline ---------------------------
(***************************************************************************)
(* Two PRs of two repositories.  In the colliding instance their numbers   *)
(* are equal, so they share a thread id, and so do their image tags and    *)
(* task ids, which lose the "/" of the repository name (a-b/c and a/b-c).  *)
(***************************************************************************)
EXTENDS BuildPipeline

CONSTANTS p1, p2, none

MCPRs   == {p1, p2}
MCQueue == <<p1, p2>>
MCOne   == <<p1>>
MCTags  == {"tag1", "tag2"}

MCSharedTag    == [p \in MCPRs |-> "tag1"]
MCSharedTask   == [p \in MCPRs |-> "task1"]
MCSharedThread == [p \in MCPRs |-> "pr1"]

MCOwnTag    == [p \in MCPRs |-> IF p = p1 THEN "tag1" ELSE "tag2"]
MCOwnTask   == [p \in MCPRs |-> IF p = p1 THEN "task1" ELSE "task2"]
MCOwnThread == [p \in MCPRs |-> IF p = p1 THEN "pr1" ELSE "pr2"]

MCArg(manifest, stage2_only, repair, mock) ==
    [single |-> FALSE, manifest |-> manifest, stage2_only |-> stage2_only,
     repair |-> repair, mock |-> mock]
\* Both stages; both with a manifest and the mock model; Stage 2 alone;
\* single-pr.
MCBoth == {MCArg(FALSE, FALSE, FALSE, FALSE)}
MCAll  == {MCArg(FALSE, FALSE, FALSE, FALSE), MCArg(TRUE, FALSE, FALSE, TRUE),
           MCArg(FALSE, TRUE, TRUE, FALSE),
           [MCArg(TRUE, FALSE, FALSE, TRUE) EXCEPT !.single = TRUE]}
MCOneArgs == {MCArg(FALSE, FALSE, TRUE, FALSE), MCArg(FALSE, TRUE, TRUE, FALSE)}

\* The manifest has an image for p2 only.
MCPreset == [p \in MCPRs |-> IF p = p2 THEN "tag2" ELSE "no tag"]

\* All tests pass; one fails; go test skips them all or stops half way.
MCReports == {[passed |-> 2, failed |-> 0, total |-> 2],
              [passed |-> 1, failed |-> 1, total |-> 2],
              [passed |-> 0, failed |-> 0, total |-> 2]}
MCTwoReports == {[passed |-> 2, failed |-> 0, total |-> 2],
                 [passed |-> 1, failed |-> 1, total |-> 2]}
=============================================================================
