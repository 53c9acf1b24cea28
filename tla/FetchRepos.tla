------------------------------ MODULE FetchRepos ------------------------------
(***************************************************************************)
(* Stage 1, step A: the fetch-repos mode (run_fetch_repos in main.py, node *)
(* fetch_repos) over GitHubClient.  Every interop type is searched with a  *)
(* small quota; while repositories are missing because types share them,   *)
(* the searches are repeated with twice the quota.  The process may die at *)
(* any time and is started again; the cache and the output file stay.      *)
(* Other modes use the same cache through the other methods in between.    *)
(*                                                                         *)
(* Simplifications.  A record is the repository's name and its label.      *)
(***************************************************************************)
EXTENDS GitHubClient, Sequences, FiniteSets

CONSTANTS Types,        \* interop_types of the run, in order
          Hits,         \* Hits[t]: repositories GitHub finds for type t, in order
          Stars,        \* Stars[r]
          Target,       \* target_repo_count
          SearchKey     \* SearchKey[t][q]: search of type t with max_results q

MaxPasses == 3          \* repo_search_passes
Growth    == <<1, 2, 4>> \* 2 ** pass_idx

Repos       == DOMAIN Stars
NoType      == "none"
Least(a, b) == IF a < b THEN a ELSE b

(* A search lists a repository once, and its key in the cache stands for   *)
(* the query and max_results.                                              *)
ASSUME RecallTypes ==
    /\ Types \in Seq(STRING) /\ NoType \notin DOMAIN Hits
    /\ Target \in Nat \ {0}
    /\ IsFiniteSet(Repos) /\ \A r \in Repos : Stars[r] \in Nat
    /\ \A t \in DOMAIN Hits :
          /\ Hits[t] \in Seq(Repos)
          /\ \A i, j \in DOMAIN Hits[t] : Hits[t][i] = Hits[t][j] => i = j
          /\ \A q \in 1..Target :
                /\ SearchKey[t][q] \in Keys /\ Method[SearchKey[t][q]] = "search"
                /\ Items[SearchKey[t][q]] = Least(Len(Hits[t]), q)

VARIABLES
    proc,       \* where the process is
    pass, ti,   \* pass_idx, and the interop type at hand
    label,      \* all_repos: the type a repository was found for
    before,     \* before_count
    clean,      \* no search has failed in this process
    repos       \* repos_snapshot.json

recall == <<proc, pass, ti, label, before, clean>>
vars   == <<clientVars, recall, repos>>

NoLabels == [r \in Repos |-> NoType]
Found    == {r \in Repos : label[r] # NoType}

(* max(1, ceil(target / n))                                                *)
BaseQuota == (Target + Len(Types) - 1) \div Len(Types)

\* Mutant of Quota: the quota does not grow.
QuotaFlat == Least(Target, BaseQuota)

Quota == Least(Target, BaseQuota * Growth[pass + 1])

Reset ==
    /\ pass' = 0 /\ ti' = 1 /\ label' = NoLabels /\ before' = 0 /\ clean' = TRUE

Init ==
    /\ ClientInit
    /\ proc = "idle" /\ pass = 0 /\ ti = 1 /\ label = NoLabels /\ before = 0
    /\ clean = TRUE
    /\ repos = {}
----------------------------------------------------------------------------
(* run_fetch_repos begins.  Without interop types nothing is searched.     *)
Start ==
    /\ proc = "idle" /\ key = NoKey
    /\ NewClient
    /\ Reset
    /\ proc' = IF Types = <<>> THEN "write" ELSE "search"
    /\ UNCHANGED repos

(* A type without a query is passed over.                                  *)
SkipType ==
    /\ proc = "search" /\ ti <= Len(Types)
    /\ Types[ti] \notin DOMAIN Hits
    /\ ti' = ti + 1
    /\ UNCHANGED <<clientVars, proc, pass, label, before, clean, repos>>

Search ==
    /\ proc = "search" /\ ti <= Len(Types)
    /\ Types[ti] \in DOMAIN Hits
    /\ Call(SearchKey[Types[ti]][Quota])
    /\ proc' = "await"
    /\ UNCHANGED <<pass, ti, label, before, clean, repos>>

(* New repositories get the label of the type.  A search that failed looks *)
(* like one that found nothing.                                            *)
Collect ==
    /\ proc = "await" /\ Take
    /\ LET t == Types[ti]
           new == {Hits[t][i] : i \in 1..answer.items}
       IN label' = [r \in Repos |-> IF label[r] = NoType /\ r \in new THEN t ELSE label[r]]
    /\ clean' = (clean /\ answer.why \in {"complete", "cached"})
    /\ ti' = ti + 1
    /\ proc' = "search"
    /\ UNCHANGED <<pass, before, repos>>

\* Mutant of Enough: one repository short of the target is taken for enough.
EnoughAlmost ==
    \/ Cardinality(Found) >= Target - 1
    \/ Cardinality(Found) = before
    \/ pass = MaxPasses - 1

(* The target is reached, a pass added nothing, or it was the last one.    *)
Enough ==
    \/ Cardinality(Found) >= Target
    \/ Cardinality(Found) = before
    \/ pass = MaxPasses - 1

EndPass ==
    /\ proc = "search" /\ ti > Len(Types)
    /\ IF Enough
       THEN proc' = "write" /\ UNCHANGED <<pass, ti, before>>
       ELSE /\ pass' = pass + 1 /\ ti' = 1 /\ before' = Cardinality(Found)
            /\ UNCHANGED proc
    /\ UNCHANGED <<clientVars, label, clean, repos>>

(* The first Target of the repositories by stars replace the output file.  *)
WriteRepos ==
    /\ proc = "write"
    /\ \E top \in SUBSET Found :
         /\ Cardinality(top) = Least(Target, Cardinality(Found))
         /\ \A r \in top, q \in Found \ top : Stars[r] >= Stars[q]
         /\ repos' = top
    /\ proc' = "idle" /\ Reset
    /\ UNCHANGED clientVars

(* The process is killed.                                                  *)
Crash ==
    /\ ~ calm /\ proc # "idle"
    /\ proc' = "idle" /\ Reset /\ NewClient
    /\ UNCHANGED repos

(* Another mode uses its client: any method but search.                    *)
OtherMode ==
    /\ proc = "idle"
    /\ \/ Take \/ NewClient
       \/ \E k \in Keys : Method[k] # "search" /\ Call(k)
    /\ UNCHANGED <<recall, repos>>

Client == Requests /\ UNCHANGED <<recall, repos>>

Environment == (Settle \/ \E k \in Keys : Expire(k)) /\ UNCHANGED <<recall, repos>>

Recall == SkipType \/ Search \/ Collect \/ EndPass \/ WriteRepos

Next == Start \/ Recall \/ Crash \/ OtherMode \/ Client \/ Environment

Spec == Init /\ [][Next]_vars

(* Requests are answered or refused, the process runs on, callers go on    *)
(* with what they get, and the operator repeats fetch-repos.               *)
LiveSpec ==
    /\ Spec
    /\ WF_vars(Client) /\ WF_vars(Recall)
    /\ WF_vars(OtherMode /\ Take)
    /\ SF_vars(Start)
----------------------------------------------------------------------------
(* The variables keep their types.                                         *)
TypeOK ==
    /\ ClientTypeOK
    /\ proc \in {"idle", "search", "await", "write"}
    /\ pass \in 0..(MaxPasses - 1) /\ ti \in 1..(Len(Types) + 1)
    /\ label \in [Repos -> {Types[i] : i \in DOMAIN Types} \union {NoType}]
    /\ before \in 0..Cardinality(Repos) /\ clean \in BOOLEAN
    /\ repos \subseteq Repos

Available == {r \in Repos : \E i \in DOMAIN Types :
                 Types[i] \in DOMAIN Hits /\ \E j \in DOMAIN Hits[Types[i]] :
                     Hits[Types[i]][j] = r}

(* With two passes at most to the full quota (two types, or a small        *)
(* target), a run in which no search failed writes as many repositories as *)
(* there are, up to the target, however much the types overlap.            *)
Complete(S) == Cardinality(S) = Least(Target, Cardinality(Available))
RecallIsComplete ==
    [][WriteRepos /\ clean /\ 2 * BaseQuota >= Target => Complete(repos')]_vars

(* Failed searches leave no trace in the cache: once requests work again,  *)
(* repeating the command leads to a complete file, for good.               *)
RecallRecovers == <>calm => <>[]Complete(repos)
=============================================================================
