-------------------------- MODULE FetchRepos_proofs --------------------------
(***************************************************************************)
(* Proofs about fetch-repos for every value of the constants.  A run of    *)
(* fetch-repos is a run of its client, so what GitHubClient_proofs shows   *)
(* of the client holds with this caller and beside the other modes.        *)
(***************************************************************************)
EXTENDS FetchRepos, GitHubClient_proofs, FiniteSetTheorems

Passes == 0..(MaxPasses - 1)

(* Division of at least the divisor gives at least one.                    *)
LEMMA QuotientIsPositive ==
  ASSUME NEW a \in Nat, NEW n \in Nat, a >= 1, n >= 1
  PROVE  (a + n - 1) \div n \in Nat /\ (a + n - 1) \div n >= 1
<1> DEFINE x == a + n - 1
           q == x \div n
           r == x % n
<1>1. x \in Nat /\ x >= n
  OBVIOUS
<1>2. q \in Int /\ r \in 0..(n - 1) /\ x = n * q + r
  <2> HIDE DEF x
  <2>. QED  BY <1>1, Z3
<1>3. q >= 1
  <2> HIDE DEF x, q, r
  <2>1. CASE q <= 0
    <3>1. n * q <= 0
      BY <1>2, <2>1, Z3
    <3>. QED  BY <1>1, <1>2, <3>1
  <2>. QED  BY <1>2, <2>1
<1>. QED  BY <1>2, <1>3

(* A pass asks for at least one repository and at most the target; after   *)
(* the first, for all of it if twice the base quota reaches it.            *)
LEMMA QuotaRange ==
  ASSUME Types # <<>>, pass \in Passes
  PROVE  /\ Quota \in 1..Target
         /\ pass # 0 /\ 2 * BaseQuota >= Target => Quota = Target
<1> DEFINE n == Len(Types)
<1>1. n \in Nat /\ n >= 1 /\ Target \in Nat /\ Target >= 1
  BY RecallTypes
<1>2. BaseQuota \in Nat /\ BaseQuota >= 1
  BY <1>1, QuotientIsPositive DEF BaseQuota
<1>3. \A p \in Passes : Growth[p + 1] \in Nat /\ Growth[p + 1] >= 1 /\ (p # 0 => Growth[p + 1] >= 2)
  BY DEF Growth, Passes, MaxPasses
<1>4. \A b, g \in Nat : b >= 1 /\ g >= 1 => b * g \in Nat /\ b * g >= 1 /\ (g >= 2 => b * g >= 2 * b)
  OBVIOUS
<1>5. \A g \in Nat : g >= 1 => BaseQuota * g >= 1 /\ BaseQuota * g \in Nat
                              /\ (g >= 2 => BaseQuota * g >= 2 * BaseQuota)
  BY <1>2, <1>4
<1> DEFINE b == BaseQuota * Growth[pass + 1]
<1>6. b \in Nat /\ b >= 1 /\ (pass # 0 => b >= 2 * BaseQuota)
  BY <1>3, <1>5
<1>7. Quota = Least(Target, b)
  BY DEF Quota
<1>8. 2 * BaseQuota \in Nat
  BY <1>2
<1> HIDE DEF b
<1>. QED  BY <1>1, <1>6, <1>7, <1>8 DEF Least
----------------------------------------------------------------------------
(* The loop over the types is entered only if there are any.               *)
InLoop == proc \in {"search", "await"} => Types # <<>>

(* Every step of the mode is one step of the client or none: the key a     *)
(* search looks up exists, because its quota is in range.                  *)
LEMMA StepOfClient == TypeOK /\ InLoop /\ [Next]_vars => [ClientNext]_clientVars
<1> SUFFICES ASSUME TypeOK, InLoop, [Next]_vars PROVE [ClientNext]_clientVars
  OBVIOUS
<1>1. CASE UNCHANGED vars
  BY <1>1 DEF vars
<1>2. CASE Start
  BY <1>2 DEF Start, ClientNext
<1>3. CASE Recall
  <2>1. CASE SkipType
    BY <2>1 DEF SkipType
  <2>2. CASE Search
    <3>1. Quota \in 1..Target
      BY <2>2, QuotaRange DEF Search, InLoop, TypeOK, Passes
    <3>2. SearchKey[Types[ti]][Quota] \in Keys
      BY <2>2, <3>1, RecallTypes DEF Search
    <3>. QED  BY <2>2, <3>2 DEF Search, ClientNext
  <2>3. CASE Collect
    BY <2>3 DEF Collect, ClientNext
  <2>4. CASE EndPass
    BY <2>4 DEF EndPass
  <2>5. CASE WriteRepos
    BY <2>5 DEF WriteRepos
  <2>. QED  BY <1>3, <2>1, <2>2, <2>3, <2>4, <2>5 DEF Recall
<1>4. CASE Crash
  BY <1>4 DEF Crash, ClientNext
<1>5. CASE OtherMode
  BY <1>5 DEF OtherMode, ClientNext
<1>6. CASE Client
  BY <1>6 DEF Client, ClientNext
<1>7. CASE Environment
  BY <1>7 DEF Environment, ClientNext
<1>. QED  BY <1>1, <1>2, <1>3, <1>4, <1>5, <1>6, <1>7 DEF Next
----------------------------------------------------------------------------
(* What the variables of fetch-repos alone hold.                           *)
RecallOK ==
    /\ proc \in {"idle", "search", "await", "write"}
    /\ pass \in Passes /\ ti \in 1..(Len(Types) + 1)
    /\ label \in [Repos -> {Types[i] : i \in DOMAIN Types} \union {NoType}]
    /\ before \in 0..Cardinality(Repos) /\ clean \in BOOLEAN
    /\ repos \subseteq Repos

(* Sets of repositories are finite and no larger than all of them.         *)
LEMMA RepoCount ==
  /\ Cardinality(Repos) \in Nat
  /\ \A S \in SUBSET Repos : IsFiniteSet(S) /\ Cardinality(S) \in Nat
                             /\ Cardinality(S) <= Cardinality(Repos)
<1>1. IsFiniteSet(Repos)
  BY RecallTypes
<1>. QED  BY <1>1, FS_Subset, FS_CardinalityType

(* The locals of a new process are well typed.                             *)
LEMMA ResetOK ==
  ASSUME Reset
  PROVE  /\ pass' \in Passes /\ ti' \in 1..(Len(Types) + 1)
         /\ label' \in [Repos -> {Types[i] : i \in DOMAIN Types} \union {NoType}]
         /\ before' \in 0..Cardinality(Repos) /\ clean' \in BOOLEAN
<1>1. Len(Types) \in Nat
  BY RecallTypes
<1>. QED  BY <1>1, RepoCount DEF Reset, NoLabels, Passes, MaxPasses

(* One step keeps the types of what fetch-repos alone holds.               *)
LEMMA RecallTypeStep ==
  ASSUME RecallOK, InLoop, proc = "await" => ti <= Len(Types), [Next]_vars
  PROVE  RecallOK' /\ InLoop' /\ (proc = "await" => ti <= Len(Types))'
<1>a. Len(Types) \in Nat /\ Types \in Seq(STRING)
  BY RecallTypes
<1>1. CASE UNCHANGED vars
  BY <1>1 DEF vars, recall, RecallOK, InLoop
<1>2. CASE Start
  BY <1>2, ResetOK DEF Start, RecallOK, InLoop
<1>3. CASE SkipType
  BY <1>3, <1>a DEF SkipType, RecallOK, InLoop
<1>4. CASE Search
  BY <1>4 DEF Search, RecallOK, InLoop
<1>5. CASE Collect
  <2>1. ti \in DOMAIN Types
    BY <1>5, <1>a DEF Collect, RecallOK
  <2>2. label' \in [Repos -> {Types[i] : i \in DOMAIN Types} \union {NoType}]
    BY <1>5, <2>1 DEF Collect, RecallOK
  <2>. QED  BY <1>5, <1>a, <2>1, <2>2 DEF Collect, RecallOK, InLoop
<1>6. CASE EndPass
  <2>1. Cardinality(Found) \in 0..Cardinality(Repos)
    BY RepoCount DEF Found
  <2>2. CASE Enough
    BY <1>6, <2>2 DEF EndPass, RecallOK, InLoop
  <2>3. CASE ~ Enough
    BY <1>6, <1>a, <2>1, <2>3 DEF EndPass, Enough, RecallOK, InLoop, Passes, MaxPasses
  <2>. QED  BY <2>2, <2>3
<1>7. CASE WriteRepos
  BY <1>7, ResetOK DEF WriteRepos, RecallOK, InLoop, Found
<1>8. CASE Crash
  BY <1>8, ResetOK DEF Crash, RecallOK, InLoop
<1>9. CASE OtherMode \/ Client \/ Environment
  BY <1>9 DEF OtherMode, Client, Environment, recall, RecallOK, InLoop
<1>. QED  BY <1>1, <1>2, <1>3, <1>4, <1>5, <1>6, <1>7, <1>8, <1>9 DEF Next, Recall

Typed == TypeOK /\ InLoop /\ (proc = "await" => ti <= Len(Types))

(* Together with the types of the client.                                  *)
LEMMA TypedStep == Typed /\ [Next]_vars => Typed'
<1> SUFFICES ASSUME Typed, [Next]_vars PROVE Typed'
  OBVIOUS
<1>1. ClientTypeOK'
  BY StepOfClient, ClientTypeStep DEF Typed, TypeOK
<1>2. RecallOK' /\ InLoop' /\ (proc = "await" => ti <= Len(Types))'
  BY RecallTypeStep DEF Typed, TypeOK, RecallOK, Passes
<1>. QED  BY <1>1, <1>2 DEF Typed, TypeOK, RecallOK, Passes

(* The initial state is well typed.                                        *)
LEMMA TypedInit == Init => Typed
<1> SUFFICES ASSUME Init PROVE Typed
  OBVIOUS
<1>1. ClientTypeOK
  BY ClientTypeInit DEF Init
<1>2. Len(Types) \in Nat
  BY RecallTypes
<1>. QED  BY <1>1, <1>2, RepoCount DEF Init, Typed, TypeOK, InLoop, NoLabels, MaxPasses

(* All variables keep their types; there are at most three passes, and the *)
(* index stays in the list of types.                                       *)
THEOREM RecallTypeCorrect == Spec => []TypeOK
<1>1. Typed => TypeOK
  BY DEF Typed
<1>. QED  BY <1>1, TypedInit, TypedStep, PTL DEF Spec

(* fetch-repos, with crashes and with the other modes beside it, uses the  *)
(* client as GitHubClient says: it implements it.                          *)
THEOREM UsesTheClient == Spec => ClientSpec
<1>1. Init => ClientInit
  BY DEF Init
<1>2. Typed => TypeOK /\ InLoop
  BY DEF Typed
<1>. QED  BY <1>1, <1>2, StepOfClient, TypedInit, TypedStep, PTL DEF Spec, ClientSpec

(* No search that failed, broke off or was killed leaves a partial entry   *)
(* in the cache that fetch-repos and the other modes share.                *)
THEOREM CacheStaysComplete == Spec => []CacheIsComplete
<1>1. AnswersAreTrue => CacheIsComplete
  BY DEF AnswersAreTrue
<1>. QED  BY <1>1, UsesTheClient, AnswersCorrect, PTL

(* No caller is told that a repository has no PRs, a PR no files or a path *)
(* no content unless GitHub said so.                                       *)
THEOREM EmptyIsTrue == Spec => []EmptyMeansNothingThere
<1>1. AnswersAreTrue => EmptyMeansNothingThere
  BY DEF AnswersAreTrue
<1>. QED  BY <1>1, UsesTheClient, AnswersCorrect, PTL
----------------------------------------------------------------------------
(* The loop invariant of the search: while no search has failed, the types *)
(* behind the index have given the repositories their quota allows.        *)
Awaited == SearchKey[Types[ti]][Quota]

AnswersTheSearch ==
    proc = "await" =>
        /\ Types[ti] \in DOMAIN Hits
        /\ answer = NoAnswer \/ answer.key = Awaited
        /\ key = NoKey \/ key = Awaited

FirstHits(t) == {Hits[t][j] : j \in 1..Least(Len(Hits[t]), Quota)}

Scanned ==
    clean /\ proc \in {"search", "await"} =>
        \A i \in 1..(ti - 1) : Types[i] \in DOMAIN Hits => FirstHits(Types[i]) \subseteq Found

Written ==
    clean /\ proc = "write" /\ 2 * BaseQuota >= Target =>
        Cardinality(Found) >= Target \/ Found = Available

FromSearches == Found \subseteq Available /\ (pass = 0 => before = 0)

RecallInv == AnswersTheSearch /\ Scanned /\ Written /\ FromSearches

(* A request keeps the method at work or ends it with an answer to it.     *)
LEMMA RequestsKeepKey ==
  ASSUME ClientTypeOK, Requests
  PROVE  /\ key \in Keys
         /\ \/ UNCHANGED <<key, answer>>
            \/ key' = NoKey /\ answer'.key = key
<1>a. step # "none" => key \in Keys
  BY DEF ClientTypeOK
<1>b. ASSUME NEW e, Fail(e) PROVE key' = NoKey /\ answer'.key = key
  BY <1>b DEF Fail, Answer, NoRequest
<1>c. ASSUME Succeed PROVE key' = NoKey /\ answer'.key = key
  BY <1>c DEF Succeed, Answer, NoRequest
<1>1. CASE GetObject \/ NextItem \/ RateLimited
  BY <1>1, <1>a DEF GetObject, NextItem, RateLimited, Wrapped
<1>2. CASE GetWhole \/ EndOfList
  BY <1>2, <1>a, <1>c DEF GetWhole, EndOfList
<1>3. CASE Unreadable \/ ServerError \/ RequestFails
  BY <1>3, <1>a, <1>b DEF Unreadable, ServerError, RequestFails, Wrapped
<1>4. CASE RateLimitedLast
  BY <1>4, <1>a DEF RateLimitedLast, NoRequest, Wrapped
<1>5. CASE ListBreaks
  <2>1. CASE \E e \in {"not_found", "diff_not_available", "server", "connection"} : Fail(e)
    BY <1>5, <2>1, <1>a, <1>b DEF ListBreaks
  <2>2. CASE ~ \E e \in {"not_found", "diff_not_available", "server", "connection"} : Fail(e)
    BY <1>5, <2>2, <1>a DEF ListBreaks, NoRequest
  <2>. QED  BY <2>1, <2>2
<1>. QED  BY <1>1, <1>2, <1>3, <1>4, <1>5 DEF Requests

(* The answer fetch-repos waits for is the answer to its own search.       *)
LEMMA AnswersTheSearchStep ==
  ASSUME Typed, AnswersTheSearch, [Next]_vars
  PROVE  AnswersTheSearch'
<1>1. CASE UNCHANGED vars
  BY <1>1 DEF vars, clientVars, request, recall, AnswersTheSearch, Awaited, Quota
<1>2. CASE Start \/ SkipType \/ Collect \/ EndPass \/ WriteRepos \/ Crash
  BY <1>2 DEF Start, SkipType, Collect, EndPass, WriteRepos, Crash, AnswersTheSearch
<1>3. CASE Search
  <2>1. CASE cache[Awaited] # Absent
    BY <1>3, <2>1 DEF Search, Call, NoAnswer, request, AnswersTheSearch, Awaited, Quota
  <2>2. CASE cache[Awaited] = Absent
    BY <1>3, <2>2 DEF Search, Call, AnswersTheSearch, Awaited, Quota
  <2>. QED  BY <2>1, <2>2
<1>4. CASE OtherMode
  BY <1>4 DEF OtherMode, recall, AnswersTheSearch
<1>5. CASE Client
  <2>1. key # NoKey /\ UNCHANGED recall
    BY <1>5, RequestsKeepKey, ClientTypes DEF Client, Typed, TypeOK
  <2>2. CASE UNCHANGED <<key, answer>>
    BY <2>1, <2>2 DEF recall, AnswersTheSearch, Awaited, Quota
  <2>3. CASE key' = NoKey /\ answer'.key = key
    BY <2>1, <2>3 DEF recall, AnswersTheSearch, Awaited, Quota
  <2>. QED  BY <1>5, <2>2, <2>3, RequestsKeepKey DEF Client, Typed, TypeOK
<1>6. CASE Environment
  BY <1>6 DEF Environment, Settle, Expire, request, recall, AnswersTheSearch, Awaited, Quota
<1>. QED  BY <1>1, <1>2, <1>3, <1>4, <1>5, <1>6 DEF Next, Recall

(* What a search adds: nothing but its hits, and all of them if it works.  *)
LEMMA CollectAdds ==
  ASSUME Typed, AnswersTheSearch, AnswerIsWhole, Collect
  PROVE  /\ Found \subseteq Found' /\ Found' \subseteq Found \union FirstHits(Types[ti])
         /\ clean' => FirstHits(Types[ti]) \subseteq Found'
<1> DEFINE t == Types[ti]
           n == answer.items
<1>1. /\ t \in DOMAIN Hits /\ answer # NoAnswer /\ answer.key = Awaited
      /\ label' = [r \in Repos |-> IF label[r] = NoType /\ r \in {Hits[t][i] : i \in 1..n}
                                    THEN t ELSE label[r]]
      /\ clean' => answer.why \in {"complete", "cached"}
  BY DEF Collect, Take, AnswersTheSearch
<1>2. Quota \in 1..Target
  BY QuotaRange DEF Collect, Typed, TypeOK, InLoop, Passes
<1>3. /\ Hits[t] \in Seq(Repos) /\ t # NoType
      /\ Items[Awaited] = Least(Len(Hits[t]), Quota)
  BY <1>1, <1>2, RecallTypes DEF Awaited
<1>4. n \in {0, Least(Len(Hits[t]), Quota)} /\ (clean' => n = Least(Len(Hits[t]), Quota))
  BY <1>1, <1>3 DEF AnswerIsWhole
<1>5. FirstHits(t) \subseteq Repos
  BY <1>2, <1>3 DEF FirstHits, Least
<1>6. {Hits[t][i] : i \in 1..n} \subseteq FirstHits(t)
      /\ (clean' => {Hits[t][i] : i \in 1..n} = FirstHits(t))
  BY <1>4 DEF FirstHits
<1> DEFINE new == {Hits[t][i] : i \in 1..n}
<1>7. Found' = Found \union new
  <2>1. new \subseteq Repos
    BY <1>5, <1>6
  <2>2. \A r \in Repos : label'[r] = IF label[r] = NoType /\ r \in new THEN t ELSE label[r]
    BY <1>1
  <2> HIDE DEF new
  <2>3. \A r \in Repos : label'[r] # NoType <=> label[r] # NoType \/ r \in new
    BY <1>3, <2>2
  <2>. QED  BY <2>1, <2>3 DEF Found
<1> HIDE DEF new
<1>. QED  BY <1>6, <1>7 DEF new

(* A new process knows no repository.                                      *)
LEMMA ResetFindsNothing ==
  ASSUME Reset
  PROVE  Found' = {} /\ pass' = 0 /\ before' = 0 /\ ti' = 1
  BY DEF Reset, NoLabels, Found

(* Only hits of the searches become labelled.                              *)
LEMMA FromSearchesStep ==
  ASSUME Typed, AnswersTheSearch, AnswerIsWhole, FromSearches, [Next]_vars
  PROVE  FromSearches'
<1>1. CASE UNCHANGED vars
  BY <1>1 DEF vars, recall, FromSearches, Found
<1>2. CASE Start \/ WriteRepos \/ Crash
  BY <1>2, ResetFindsNothing DEF Start, WriteRepos, Crash, FromSearches
<1>3. CASE SkipType \/ Search
  BY <1>3 DEF SkipType, Search, FromSearches, Found
<1>4. CASE Collect
  <2>1. ti \in DOMAIN Types /\ Types[ti] \in DOMAIN Hits
    BY <1>4, RecallTypes DEF Collect, Typed, TypeOK, AnswersTheSearch
  <2>2. Hits[Types[ti]] \in Seq(Repos) /\ Quota \in 1..Target
    BY <1>4, <2>1, RecallTypes, QuotaRange DEF Collect, Typed, TypeOK, InLoop, Passes
  <2>3. FirstHits(Types[ti]) \subseteq Available
    BY <2>1, <2>2 DEF FirstHits, Available, Least
  <2>. QED  BY <1>4, <2>3, CollectAdds DEF Collect, FromSearches
<1>5. CASE EndPass
  <2>1. Found' = Found
    BY <1>5 DEF EndPass, Found
  <2>2. pass' = 0 => pass = 0 /\ before' = before
    BY <1>5 DEF EndPass, Typed, TypeOK, MaxPasses
  <2>. QED  BY <2>1, <2>2 DEF FromSearches
<1>6. CASE OtherMode \/ Client \/ Environment
  BY <1>6 DEF OtherMode, Client, Environment, recall, FromSearches, Found
<1>. QED  BY <1>1, <1>2, <1>3, <1>4, <1>5, <1>6 DEF Next, Recall

(* The loop invariant is kept by every step.                               *)
LEMMA ScannedStep ==
  ASSUME Typed, AnswersTheSearch, AnswerIsWhole, Scanned, [Next]_vars
  PROVE  Scanned'
<1>a. ti \in Nat /\ Len(Types) \in Nat
  BY RecallTypes DEF Typed, TypeOK
<1>1. CASE UNCHANGED vars
  BY <1>1 DEF vars, recall, Scanned, Found, FirstHits, Quota
<1>2. CASE Start \/ WriteRepos \/ Crash
  BY <1>2, ResetFindsNothing DEF Start, WriteRepos, Crash, Scanned
<1>3. CASE SkipType
  <2>1. \A i \in 1..(ti' - 1) : i = ti \/ i \in 1..(ti - 1)
    BY <1>3, <1>a DEF SkipType
  <2>. QED  BY <1>3, <2>1 DEF SkipType, Scanned, Found, FirstHits, Quota
<1>4. CASE Search
  BY <1>4 DEF Search, Scanned, Found, FirstHits, Quota
<1>5. CASE Collect
  <2>1. \A i \in 1..(ti' - 1) : i = ti \/ i \in 1..(ti - 1)
    BY <1>5, <1>a DEF Collect
  <2>2. clean' => clean /\ proc = "await"
    BY <1>5 DEF Collect, Typed, TypeOK
  <2>3. \A t : FirstHits(t)' = FirstHits(t)
    BY <1>5 DEF Collect, FirstHits, Quota
  <2>. QED  BY <1>5, <2>1, <2>2, <2>3, CollectAdds DEF Scanned
<1>6. CASE EndPass
  <2>1. CASE Enough
    BY <1>6, <2>1 DEF EndPass, Scanned
  <2>2. CASE ~ Enough
    BY <1>6, <2>2 DEF EndPass, Scanned
  <2>. QED  BY <2>1, <2>2
<1>7. CASE OtherMode \/ Client \/ Environment
  BY <1>7 DEF OtherMode, Client, Environment, recall, Scanned, Found, FirstHits, Quota
<1>. QED  BY <1>1, <1>2, <1>3, <1>4, <1>5, <1>6, <1>7 DEF Next, Recall

(* Distinct hits that are all found are no more than what is found.        *)
LEMMA HitsAreCounted ==
  ASSUME NEW t \in DOMAIN Hits, NEW n \in Nat, n <= Len(Hits[t]),
         \A j \in 1..n : Hits[t][j] \in Found
  PROVE  n <= Cardinality(Found)
<1> DEFINE f == [j \in 1..n |-> Hits[t][j]]
<1>1. \A i, j \in 1..n : f[i] = f[j] => i = j
  BY RecallTypes
<1>2. f \in Injection(1..n, Found)
  BY <1>1 DEF Injection, IsInjective
<1>3. IsFiniteSet(Found)
  BY RepoCount DEF Found
<1>4. Cardinality(1..n) <= Cardinality(Found)
  BY <1>2, <1>3, FS_Injection
<1>5. Cardinality(1..n) = n
  BY FS_Interval
<1>. QED  BY <1>4, <1>5

(* A pass after which the loop ends has found the target or all there is,  *)
(* if two passes at most lead to the full quota and no search failed.      *)
LEMMA EnoughIsAll ==
  ASSUME Typed, Scanned, FromSearches, EndPass, Enough, clean, 2 * BaseQuota >= Target
  PROVE  Cardinality(Found) >= Target \/ Found = Available
<1>1. SUFFICES ASSUME ~ Cardinality(Found) >= Target
               PROVE  Found = Available
  OBVIOUS
<1>2. /\ Cardinality(Found) \in Nat /\ IsFiniteSet(Found)
      /\ Target \in Nat /\ Len(Types) \in Nat /\ DOMAIN Types = 1..Len(Types)
  BY RepoCount, RecallTypes DEF Found
<1>3. /\ Quota \in 1..Target /\ (pass # 0 => Quota = Target)
      /\ ti - 1 = Len(Types)
  BY <1>2, QuotaRange DEF EndPass, Typed, TypeOK, InLoop, Passes
<1>4. ASSUME NEW i \in DOMAIN Types, Types[i] \in DOMAIN Hits, NEW j \in DOMAIN Hits[Types[i]]
      PROVE  Hits[Types[i]][j] \in Found
  <2> DEFINE t == Types[i]
             n == Least(Len(Hits[t]), Quota)
  <2>1. \A k \in 1..n : Hits[t][k] \in Found
    BY <1>2, <1>3, <1>4 DEF EndPass, Scanned, FirstHits
  <2>2. Hits[t] \in Seq(Repos)
    BY <1>4, RecallTypes
  <2>3. n \in Nat /\ n <= Len(Hits[t]) /\ j \in 1..Len(Hits[t])
    BY <1>3, <1>4, <2>2 DEF Least
  <2>4. n <= Cardinality(Found)
    BY <1>4, <2>1, <2>3, HitsAreCounted
  <2>5. n < Target
    BY <1>1, <1>2, <2>3, <2>4
  <2>6. CASE pass # 0
    <3>1. n = Len(Hits[t])
      BY <1>2, <1>3, <2>2, <2>5, <2>6 DEF Least
    <3>. QED  BY <2>1, <2>3, <3>1
  <2>7. CASE pass = 0
    <3>1. Cardinality(Found) = 0
      BY <1>1, <1>2, <2>7 DEF Enough, FromSearches, MaxPasses
    <3>2. n >= 1
      BY <1>3, <2>2, <2>3 DEF Least
    <3>. QED  BY <2>3, <2>4, <3>1, <3>2
  <2>. QED  BY <2>6, <2>7
<1>5. Available \subseteq Found
  BY <1>4 DEF Available
<1>. QED  BY <1>5 DEF FromSearches

(* What is about to be written is enough.                                  *)
LEMMA WrittenStep ==
  ASSUME Typed, Scanned, Written, FromSearches, [Next]_vars
  PROVE  Written'
<1>1. CASE UNCHANGED vars
  BY <1>1 DEF vars, recall, Written, Found
<1>2. CASE Start
  <2>1. CASE Types = <<>>
    <3>1. Available = {}
      BY <2>1 DEF Available
    <3>. QED  BY <1>2, <3>1, ResetFindsNothing DEF Start, Written
  <2>2. CASE Types # <<>>
    BY <1>2, <2>2 DEF Start, Written
  <2>. QED  BY <2>1, <2>2
<1>3. CASE SkipType \/ Search \/ Collect \/ WriteRepos \/ Crash
  BY <1>3 DEF SkipType, Search, Collect, WriteRepos, Crash, Written
<1>4. CASE EndPass
  <2>1. Found' = Found /\ clean' = clean /\ (~ Enough => proc' = proc)
    BY <1>4 DEF EndPass, Found
  <2>. QED  BY <1>4, <2>1, EnoughIsAll DEF EndPass, Written
<1>5. CASE OtherMode \/ Client \/ Environment
  BY <1>5 DEF OtherMode, Client, Environment, recall, Written, Found
<1>. QED  BY <1>1, <1>2, <1>3, <1>4, <1>5 DEF Next, Recall

(* The invariant holds before the first run.                               *)
LEMMA RecallInvInit == Init => RecallInv
<1> SUFFICES ASSUME Init PROVE RecallInv
  OBVIOUS
<1>1. Found = {}
  BY DEF Init, NoLabels, Found
<1>. QED  BY <1>1 DEF Init, RecallInv, AnswersTheSearch, Scanned, Written, FromSearches

(* One step keeps the whole invariant.                                     *)
LEMMA RecallInvStep == Typed /\ AnswerIsWhole /\ RecallInv /\ [Next]_vars => RecallInv'
  BY AnswersTheSearchStep, ScannedStep, WrittenStep, FromSearchesStep DEF RecallInv

(* The write takes as many of what was found as the target allows.         *)
LEMMA WriteIsComplete ==
  ASSUME Typed, RecallInv, WriteRepos, clean, 2 * BaseQuota >= Target
  PROVE  Complete(repos')
<1>1. Cardinality(repos') = Least(Target, Cardinality(Found))
  BY DEF WriteRepos
<1>2. Found \subseteq Available /\ (Cardinality(Found) >= Target \/ Found = Available)
  BY DEF RecallInv, Written, FromSearches, WriteRepos
<1>3. /\ Cardinality(Found) \in Nat /\ Cardinality(Available) \in Nat
      /\ Cardinality(Found) <= Cardinality(Available)
  <2>1. Available \subseteq Repos
    BY DEF Available
  <2>. QED  BY <1>2, <2>1, RepoCount, FS_Subset
<1>. QED  BY <1>1, <1>2, <1>3, RecallTypes DEF Complete, Least

(* However the types overlap, a run in which no search failed writes as    *)
(* many repositories as there are, up to the target, if two passes at most *)
(* lead to the full quota.                                                 *)
THEOREM RecallCorrect == Spec => RecallIsComplete
<1>1. Typed /\ RecallInv /\ [Next]_vars =>
        [WriteRepos /\ clean /\ 2 * BaseQuota >= Target => Complete(repos')]_vars
  BY WriteIsComplete
<1>. QED  BY <1>1, TypedInit, TypedStep, RecallInvInit, RecallInvStep,
             UsesTheClient, AnswersWhole, PTL DEF Spec, RecallIsComplete
=============================================================================
