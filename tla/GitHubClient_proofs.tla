------------------------- MODULE GitHubClient_proofs -------------------------
(***************************************************************************)
(* Proofs about GitHubClient for every value of its constants.             *)
(***************************************************************************)
EXTENDS GitHubClient, TLAPS

Indices == 0..(Tokens - 1)

(* Rotation leads to a token.                                              *)
LEMMA Rotation ==
  ASSUME idx \in Indices
  PROVE  (idx + 1) % Tokens \in Indices
  BY ClientTypes DEF Indices

(* The end of a method leaves its memory well typed.                       *)
LEMMA RequestEnds ==
  ASSUME ClientTypeOK, NoRequest
  PROVE  /\ bound' \in Indices /\ attempt' \in 0..(MaxRetries - 1) /\ got' \in Nat
         /\ tried' \subseteq Indices
         /\ key' \in Keys \union {NoKey} /\ step' \in {"none", "repo", "one", "list"}
         /\ step' = "none" <=> key' = NoKey
  BY ClientTypes DEF NoRequest, Indices, MaxRetries

Answers == [key : Keys \union {NoKey}, ok : BOOLEAN, items : Nat,
            why : Errors \union {"none", "cached", "complete"}, tried : SUBSET Indices]

(* The answer a method composes is well typed.                             *)
LEMMA AnswerType ==
  ASSUME ClientTypeOK, NEW n \in Nat, NEW why \in Errors \union {"complete"}, NEW ok \in BOOLEAN, Answer(ok, n, why)
  PROVE  answer' \in Answers
  BY DEF Answer, Answers, ClientTypeOK, Indices

(* A method that ends with an exception or an empty answer keeps the       *)
(* types.                                                                  *)
LEMMA FailType ==
  ASSUME ClientTypeOK, NEW error \in Errors, Fail(error), UNCHANGED <<idx, calm>>
  PROVE  ClientTypeOK'
<1>1. Tolerated(Method[key], error) \in BOOLEAN
  BY DEF Tolerated
<1>2. answer' \in Answers
  BY <1>1, AnswerType DEF Fail
<1>. QED  BY <1>2, RequestEnds DEF Fail, Answer, ClientTypeOK, Answers, Indices

(* So does one that caches and returns a complete answer.                  *)
LEMMA SucceedType ==
  ASSUME ClientTypeOK, key \in Keys, Succeed, UNCHANGED <<idx, calm>>
  PROVE  ClientTypeOK'
<1>1. Items[key] \in Nat
  BY ClientTypes
<1>2. answer' \in Answers
  BY <1>1, AnswerType DEF Succeed
<1>3. cache' \in [Keys -> Nat \union {Absent}]
  BY <1>1 DEF Succeed, ClientTypeOK
<1>. QED  BY <1>2, <1>3, RequestEnds DEF Succeed, Answer, ClientTypeOK, Answers, Indices

(* One step keeps the types: at most three attempts, tokens that exist.    *)
LEMMA ClientTypeStep == ClientTypeOK /\ [ClientNext]_clientVars => ClientTypeOK'
<1> SUFFICES ASSUME ClientTypeOK, [ClientNext]_clientVars PROVE ClientTypeOK'
  OBVIOUS
<1>a. Tokens \in Nat \ {0} /\ NoKey \notin Keys
  BY ClientTypes
<1>1. CASE UNCHANGED clientVars
  BY <1>1 DEF clientVars, request, ClientTypeOK
<1>2. CASE GetObject
  BY <1>2, <1>a DEF GetObject, Token, ClientTypeOK, MaxRetries
<1>3. CASE GetWhole
  BY <1>3, SucceedType DEF GetWhole, ClientTypeOK
<1>4. CASE Unreadable
  BY <1>4, FailType DEF Unreadable, Errors
<1>5. CASE NextItem
  BY <1>5 DEF NextItem, ClientTypeOK
<1>6. CASE EndOfList
  BY <1>6, SucceedType DEF EndOfList, ClientTypeOK
<1>7. CASE RateLimited
  <2>1. idx' \in Indices /\ Token \in Indices
    BY <1>7, Rotation DEF RateLimited, Token, ClientTypeOK, Indices
  <2>2. attempt' \in 0..(MaxRetries - 1)
    BY <1>7 DEF RateLimited, ClientTypeOK, MaxRetries
  <2>. QED  BY <1>7, <2>1, <2>2 DEF RateLimited, ClientTypeOK, Indices
<1>8. CASE RateLimitedLast
  <2>1. idx' \in Indices /\ Token \in Indices
    BY <1>8, Rotation DEF RateLimitedLast, Token, ClientTypeOK, Indices
  <2>2. Tolerated(Method[key], "rate_limit") \in BOOLEAN
    BY DEF Tolerated
  <2>3. answer' \in Answers
    BY <1>8, <2>1, <2>2 DEF RateLimitedLast, Answers, Errors, ClientTypeOK, Indices
  <2>. QED  BY <1>8, <2>1, <2>3, RequestEnds DEF RateLimitedLast, ClientTypeOK, Answers, Indices
<1>9. CASE ServerError
  <2>1. CASE attempt < MaxRetries - 1 /\ attempt' = attempt + 1
             /\ UNCHANGED <<cache, key, step, bound, got, tried, answer>>
    BY <1>9, <2>1 DEF ServerError, ClientTypeOK, MaxRetries
  <2>2. CASE Fail("server")
    BY <1>9, <2>2, FailType DEF ServerError, Errors
  <2>. QED  BY <1>9, <2>1, <2>2 DEF ServerError
<1>10. CASE RequestFails
  BY <1>10, FailType DEF RequestFails, Errors
<1>11. CASE ListBreaks
  <2>1. CASE \E error \in {"not_found", "diff_not_available", "server", "connection"} :
                Fail(error)
    BY <1>11, <2>1, FailType DEF ListBreaks, Errors
  <2>2. CASE ~ \E error \in {"not_found", "diff_not_available", "server", "connection"} :
                Fail(error)
    <3>1. Token \in Indices
      BY DEF Token, ClientTypeOK, Indices
    <3>2. Tolerated(Method[key], "rate_limit") \in BOOLEAN
      BY DEF Tolerated
    <3>3. /\ NoRequest /\ UNCHANGED <<cache, idx, calm>>
          /\ answer' = [key |-> key, ok |-> Tolerated(Method[key], "rate_limit"), items |-> 0,
                        why |-> "rate_limit", tried |-> tried \union {Token}]
      BY <1>11, <2>2 DEF ListBreaks
    <3>4. answer' \in Answers
      BY <3>1, <3>2, <3>3 DEF Answers, Errors, ClientTypeOK, Indices
    <3>. QED  BY <3>3, <3>4, RequestEnds DEF ClientTypeOK, Answers, Indices
  <2>. QED  BY <2>1, <2>2
<1>12. CASE Take
  BY <1>12 DEF Take, NoAnswer, request, ClientTypeOK
<1>13. CASE NewClient
  <2>1. NoAnswer \in Answers
    BY DEF NoAnswer, Answers
  <2>. QED  BY <1>13, <1>a, <2>1, RequestEnds DEF NewClient, ClientTypeOK, Answers, Indices
<1>14. CASE Settle
  BY <1>14 DEF Settle, request, ClientTypeOK
<1>15. ASSUME NEW k \in Keys, Call(k) PROVE ClientTypeOK'
  <2>1. CASE cache[k] # Absent
    <3>1. cache[k] \in Nat
      BY <2>1 DEF ClientTypeOK
    <3>2. answer' \in Answers
      BY <1>15, <2>1, <3>1 DEF Call, NoAnswer, Answers, ClientTypeOK
    <3>. QED  BY <1>15, <2>1, <3>2 DEF Call, request, ClientTypeOK, Answers, Indices
  <2>2. CASE cache[k] = Absent
    BY <1>15, <1>a, <2>2 DEF Call, ClientTypeOK
  <2>. QED  BY <2>1, <2>2
<1>16. ASSUME NEW k \in Keys, Expire(k) PROVE ClientTypeOK'
  BY <1>16 DEF Expire, request, ClientTypeOK
<1>. QED  BY <1>1, <1>2, <1>3, <1>4, <1>5, <1>6, <1>7, <1>8, <1>9, <1>10, <1>11, <1>12,
             <1>13, <1>14, <1>15, <1>16 DEF ClientNext, Requests

(* A new cache and a new client are well typed.                            *)
LEMMA ClientTypeInit == ClientInit => ClientTypeOK
<1> SUFFICES ASSUME ClientInit PROVE ClientTypeOK
  OBVIOUS
<1>1. answer \in Answers
  BY DEF ClientInit, NoAnswer, Answers
<1>2. idx \in Indices /\ bound \in Indices /\ attempt \in 0..(MaxRetries - 1)
  BY ClientTypes DEF ClientInit, Indices, MaxRetries
<1>. QED  BY <1>1, <1>2 DEF ClientInit, ClientTypeOK, Answers, Indices

(* All variables keep their types; a call makes at most three attempts.    *)
THEOREM ClientTypeCorrect == ClientSpec => []ClientTypeOK
<1>1. ClientInit => ClientTypeOK
  BY ClientTypeInit
<1>2. ClientTypeOK /\ [ClientNext]_clientVars => ClientTypeOK'
  BY ClientTypeStep
<1>. QED  BY <1>1, <1>2, PTL DEF ClientSpec
----------------------------------------------------------------------------
(* What is cached and what is answered go together: an answer from the     *)
(* cache is complete if the cache is.                                      *)
AnswersAreTrue == CacheIsComplete /\ EmptyMeansNothingThere

(* A failure is never cached, and an empty answer after one is given for   *)
(* the tolerated errors only.                                              *)
LEMMA FailIsTrue ==
  ASSUME ClientTypeOK, key \in Keys, AnswersAreTrue, NEW error \in Errors, Fail(error)
  PROVE  AnswersAreTrue'
<1>1. CacheIsComplete'
  BY DEF Fail, AnswersAreTrue, CacheIsComplete
<1>2. /\ answer'.key = key /\ answer'.items = 0 /\ answer'.why = error
      /\ answer'.ok = Tolerated(Method[key], error)
  BY DEF Fail, Answer
<1>. QED  BY <1>1, <1>2 DEF AnswersAreTrue, EmptyMeansNothingThere, Tolerated

(* A rate limit is tolerated by no method whose empty answer says "nothing *)
(* there".                                                                 *)
LEMMA RateLimitIsTrue ==
  ASSUME AnswersAreTrue, UNCHANGED cache,
         answer' = [key |-> key, ok |-> Tolerated(Method[key], "rate_limit"), items |-> 0,
                    why |-> "rate_limit", tried |-> tried \union {Token}]
  PROVE  AnswersAreTrue'
  BY DEF AnswersAreTrue, CacheIsComplete, EmptyMeansNothingThere, Tolerated

(* What Succeed caches and returns is complete.                            *)
LEMMA SucceedIsTrue ==
  ASSUME ClientTypeOK, key \in Keys, AnswersAreTrue, Succeed
  PROVE  AnswersAreTrue'
<1>1. CacheIsComplete'
  BY DEF Succeed, AnswersAreTrue, CacheIsComplete, ClientTypeOK
<1>2. answer'.key = key /\ answer'.items = Items[key]
  BY DEF Succeed, Answer
<1>. QED  BY <1>1, <1>2 DEF AnswersAreTrue, EmptyMeansNothingThere

(* Steps that touch neither cache nor answer change nothing of this.       *)
LEMMA SameAnswer ==
  ASSUME AnswersAreTrue, UNCHANGED <<cache, answer>>
  PROVE  AnswersAreTrue'
  BY DEF AnswersAreTrue, CacheIsComplete, EmptyMeansNothingThere

(* Nor does the end of an answer.                                          *)
LEMMA NoAnswerIsTrue ==
  ASSUME AnswersAreTrue, UNCHANGED cache, answer' = NoAnswer
  PROVE  AnswersAreTrue'
  BY DEF AnswersAreTrue, CacheIsComplete, EmptyMeansNothingThere, NoAnswer

(* One step of the client keeps cache and answers true.                    *)
LEMMA AnswersStep ==
  ClientTypeOK /\ AnswersAreTrue /\ [ClientNext]_clientVars => AnswersAreTrue'
<1> SUFFICES ASSUME ClientTypeOK, AnswersAreTrue, [ClientNext]_clientVars
             PROVE  AnswersAreTrue'
  OBVIOUS
<1>a. step # "none" => key \in Keys
  BY DEF ClientTypeOK
<1>1. CASE UNCHANGED clientVars
  BY <1>1, SameAnswer DEF clientVars
<1>2. CASE GetObject
  BY <1>2, SameAnswer DEF GetObject
<1>3. CASE GetWhole
  BY <1>3, <1>a, SucceedIsTrue DEF GetWhole
<1>4. CASE Unreadable
  BY <1>4, <1>a, FailIsTrue DEF Unreadable, Errors
<1>5. CASE NextItem
  BY <1>5, SameAnswer DEF NextItem
<1>6. CASE EndOfList
  BY <1>6, <1>a, SucceedIsTrue DEF EndOfList
<1>7. CASE RateLimited
  BY <1>7, SameAnswer DEF RateLimited
<1>8. CASE RateLimitedLast
  BY <1>8, RateLimitIsTrue DEF RateLimitedLast
<1>9. CASE ServerError
  BY <1>9, <1>a, SameAnswer, FailIsTrue DEF ServerError, Wrapped, Errors
<1>10. CASE RequestFails
  BY <1>10, <1>a, FailIsTrue DEF RequestFails, Wrapped, Errors
<1>11. CASE ListBreaks
  BY <1>11, <1>a, FailIsTrue, RateLimitIsTrue DEF ListBreaks, Errors
<1>12. CASE Take
  BY <1>12, NoAnswerIsTrue DEF Take
<1>13. CASE NewClient
  BY <1>13, NoAnswerIsTrue DEF NewClient
<1>14. CASE Settle
  BY <1>14, SameAnswer DEF Settle
<1>15. ASSUME NEW k \in Keys, Call(k) PROVE AnswersAreTrue'
  <2>1. CASE cache[k] # Absent
    <3>1. answer'.key = k /\ answer'.items = Items[k]
      BY <1>15, <2>1 DEF Call, NoAnswer, AnswersAreTrue, CacheIsComplete
    <3>. QED  BY <1>15, <3>1 DEF Call, AnswersAreTrue, CacheIsComplete, EmptyMeansNothingThere
  <2>2. CASE cache[k] = Absent
    BY <1>15, <2>2, SameAnswer DEF Call
  <2>. QED  BY <2>1, <2>2
<1>16. ASSUME NEW k \in Keys, Expire(k) PROVE AnswersAreTrue'
  BY <1>16 DEF Expire, AnswersAreTrue, CacheIsComplete, EmptyMeansNothingThere, ClientTypeOK
<1>. QED  BY <1>1, <1>2, <1>3, <1>4, <1>5, <1>6, <1>7, <1>8, <1>9, <1>10, <1>11, <1>12,
             <1>13, <1>14, <1>15, <1>16 DEF ClientNext, Requests

(* They are true of an empty cache.                                        *)
LEMMA AnswersInit == ClientInit => AnswersAreTrue
  BY DEF ClientInit, AnswersAreTrue, CacheIsComplete, EmptyMeansNothingThere, NoAnswer

(* Whatever fails in the middle of a method, the cache holds whole answers *)
(* only, and no caller of prs, files or content is told a part of a list   *)
(* or an unfounded "nothing there".                                        *)
THEOREM AnswersCorrect == ClientSpec => []AnswersAreTrue
<1>1. ClientInit => AnswersAreTrue
  BY AnswersInit
<1>2. ClientTypeOK /\ AnswersAreTrue /\ [ClientNext]_clientVars => AnswersAreTrue'
  BY AnswersStep
<1>. QED  BY <1>1, <1>2, ClientTypeCorrect, PTL DEF ClientSpec
----------------------------------------------------------------------------
(* An answer is empty or whole, and whole if nothing failed.               *)
AnswerIsWhole ==
    answer # NoAnswer =>
        /\ answer.key \in Keys /\ answer.items \in {0, Items[answer.key]}
        /\ answer.why \in {"complete", "cached"} => answer.items = Items[answer.key]

(* An empty answer after an error is no part of a list.                    *)
LEMMA EmptyIsWhole ==
  ASSUME NEW error \in Errors, NEW ok, NEW S, key \in Keys,
         answer' = [key |-> key, ok |-> ok, items |-> 0, why |-> error, tried |-> S]
  PROVE  AnswerIsWhole'
  BY DEF AnswerIsWhole, Errors, NoAnswer

(* One step of the client keeps answers whole; a cached one is whole       *)
(* because the cache is.                                                   *)
LEMMA WholeStep ==
  ClientTypeOK /\ CacheIsComplete /\ AnswerIsWhole /\ [ClientNext]_clientVars => AnswerIsWhole'
<1> SUFFICES ASSUME ClientTypeOK, CacheIsComplete, AnswerIsWhole, [ClientNext]_clientVars
             PROVE  AnswerIsWhole'
  OBVIOUS
<1>a. step # "none" => key \in Keys
  BY DEF ClientTypeOK
<1>b. ASSUME NEW error \in Errors, Fail(error), step # "none" PROVE AnswerIsWhole'
  BY <1>a, <1>b, EmptyIsWhole DEF Fail, Answer
<1>c. ASSUME Succeed, step # "none" PROVE AnswerIsWhole'
  BY <1>a, <1>c DEF Succeed, Answer, AnswerIsWhole
<1>1. CASE UNCHANGED clientVars
  BY <1>1 DEF clientVars, AnswerIsWhole
<1>2. CASE GetObject \/ NextItem \/ RateLimited \/ Settle
  BY <1>2 DEF GetObject, NextItem, RateLimited, Settle, AnswerIsWhole
<1>3. CASE GetWhole \/ EndOfList
  BY <1>3, <1>c DEF GetWhole, EndOfList
<1>4. CASE Unreadable
  BY <1>4, <1>b DEF Unreadable, Errors
<1>5. CASE RateLimitedLast
  BY <1>5, <1>a, EmptyIsWhole DEF RateLimitedLast, Wrapped, Errors
<1>6. CASE ServerError
  BY <1>6, <1>b DEF ServerError, Wrapped, Errors, AnswerIsWhole
<1>7. CASE RequestFails
  BY <1>7, <1>b DEF RequestFails, Wrapped, Errors
<1>8. CASE ListBreaks
  BY <1>8, <1>a, <1>b, EmptyIsWhole DEF ListBreaks, Errors
<1>9. CASE Take \/ NewClient
  BY <1>9 DEF Take, NewClient, AnswerIsWhole
<1>10. ASSUME NEW k \in Keys, Call(k) PROVE AnswerIsWhole'
  <2>1. CASE cache[k] # Absent
    <3>1. cache[k] = Items[k]
      BY <2>1 DEF CacheIsComplete
    <3>. QED  BY <1>10, <2>1, <3>1 DEF Call, NoAnswer, AnswerIsWhole
  <2>2. CASE cache[k] = Absent
    BY <1>10, <2>2 DEF Call, AnswerIsWhole
  <2>. QED  BY <2>1, <2>2
<1>11. ASSUME NEW k \in Keys, Expire(k) PROVE AnswerIsWhole'
  BY <1>11 DEF Expire, AnswerIsWhole
<1>. QED  BY <1>1, <1>2, <1>3, <1>4, <1>5, <1>6, <1>7, <1>8, <1>9, <1>10, <1>11
          DEF ClientNext, Requests

(* A caller gets a whole answer whenever nothing failed, and never a part. *)
THEOREM AnswersWhole == ClientSpec => []AnswerIsWhole
<1>1. ClientInit => AnswerIsWhole
  BY DEF ClientInit, AnswerIsWhole
<1>2. AnswersAreTrue => CacheIsComplete
  BY DEF AnswersAreTrue
<1>. QED  BY <1>1, <1>2, WholeStep, ClientTypeCorrect, AnswersCorrect, PTL DEF ClientSpec
=============================================================================
