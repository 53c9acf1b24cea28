---------------------------- MODULE CandidatePool ----------------------------
(***************************************************************************)
(* What Stage 1 promises to whoever reads prs_snapshot.json (plans/design  *)
(* section 1.7), without processes, files or crashes: a pool of candidate  *)
(* PRs and the set of judged scan keys ("repo@head_sha").  A key is judged *)
(* once; a PR that passes enters the pool in the same step; it leaves the  *)
(* pool only when the operator removes it.                                 *)
(***************************************************************************)
EXTENDS Naturals

CONSTANTS PRs,       \* merged pull requests
          ScanKey    \* ScanKey[p] is the repo@head_sha of p

VARIABLES pool,      \* bag of candidates: pool[p] entries for p
          judged     \* scan keys with a verdict

poolVars == <<pool, judged>>

PoolKeys == {ScanKey[p] : p \in {q \in PRs : pool[q] > 0}}

PoolInit ==
    /\ pool = [p \in PRs |-> 0]
    /\ judged = {}

(* A PR with a new key passes the filter.                                  *)
Admit(p) ==
    /\ ScanKey[p] \notin judged
    /\ pool' = [pool EXCEPT ![p] = @ + 1]
    /\ judged' = judged \union {ScanKey[p]}

(* A PR with a new key does not.                                           *)
Reject(p) ==
    /\ ScanKey[p] \notin judged
    /\ judged' = judged \union {ScanKey[p]}
    /\ UNCHANGED pool

(* The operator keeps only the PRs of S (exclusion list, review).  The     *)
(* verdict of a key may go with its last PR, no other verdict does.        *)
Retain(S) ==
    /\ pool' = [p \in PRs |-> IF p \in S THEN pool[p] ELSE 0]
    /\ judged' \subseteq judged
    /\ judged \ judged' \subseteq PoolKeys \ PoolKeys'

(* The operator deletes the progress file: the pool keeps its own verdicts.*)
Forget ==
    /\ judged' = PoolKeys
    /\ UNCHANGED pool

PoolNext ==
    \/ \E p \in PRs : Admit(p) \/ Reject(p)
    \/ \E S \in SUBSET PRs : Retain(S)
    \/ Forget

PoolSpec == PoolInit /\ [][PoolNext]_poolVars
=============================================================================
