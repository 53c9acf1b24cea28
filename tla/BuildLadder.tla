------------------------------ MODULE BuildLadder ------------------------------
(***************************************************************************)
(* What Stages 2 and 3 promise for a list of pull requests: one is taken   *)
(* after the other, each climbs the ladder of the coarse statuses rung by  *)
(* rung, and its summary names the rung it really reached.  The batch may  *)
(* stop anywhere.  The status compile_passed is no rung: compile_verify    *)
(* takes no baseline whose failed tests are unknown.                       *)
(***************************************************************************)
EXTENDS Integers, Sequences

CONSTANTS Length    \* number of pull requests in the list

VARIABLES at,       \* the place in the list
          rung,     \* how far the PR at hand has come, or "none"
          told      \* the statuses of the summaries so far

ladderVars == <<at, rung, told>>

Ladder == <<"failed", "env_inferred", "dockerfile_rendered", "image_built",
            "baseline_test_passed", "task_constructed", "generated", "tested",
            "scored">>

LadderInit == at = 1 /\ rung = "none" /\ told = <<>>

(* A PR begins at the bottom, or with an image that was built before.      *)
TakePr ==
    /\ rung = "none" /\ at <= Length
    /\ rung' \in {"failed", "image_built"}
    /\ UNCHANGED <<at, told>>

Climb ==
    /\ \E n \in 1..(Len(Ladder) - 1) : rung = Ladder[n] /\ rung' = Ladder[n + 1]
    /\ UNCHANGED <<at, told>>

(* No environment can be found for an image that was built before.         *)
Refuse ==
    /\ rung = "image_built" /\ rung' = "failed"
    /\ UNCHANGED <<at, told>>

Tell(status) ==
    /\ told' = Append(told, status)
    /\ at' = at + 1 /\ rung' = "none"

(* The end of a PR, or of one that was never begun for want of an image.   *)
Summarise ==
    \/ rung # "none" /\ Tell(rung)
    \/ rung = "none" /\ at <= Length /\ Tell("failed")

(* The process dies, and the list is gone through from its beginning.      *)
StartOver == at' = 1 /\ rung' = "none" /\ told' = <<>>

LadderSpec ==
    LadderInit /\ [][TakePr \/ Climb \/ Refuse \/ Summarise \/ StartOver]_ladderVars
=============================================================================
