----------------------------- MODULE GitHubClient -----------------------------
(***************************************************************************)
(* github_client.py: the one door to GitHub.  A method looks into the      *)
(* SQLite cache, and if it must, makes one to three kinds of requests:     *)
(*                                                                         *)
(*   "repo"  get_repo through _api_call, on the token that is current;     *)
(*   "one"   get_pull, get_contents or get_git_tree through _api_call, on  *)
(*           the repository object, so on the token that fetched it;       *)
(*   "list"  the pages of a PyGithub PaginatedList (search_code,           *)
(*           get_pulls, get_files), requested while the method iterates,   *)
(*           so outside _api_call and on the token of the object.          *)
(*                                                                         *)
(* The cache outlives the process, the current token does not.             *)
(*                                                                         *)
(* Simplifications.  An answer is the number of its items: a prefix of     *)
(* what GitHub has.  What GitHub has does not change; matches that do not  *)
(* count (few stars, known repository, not merged) are left out.  Sleeping *)
(* takes no time.  get_pr_files and get_pr_file_details differ only in     *)
(* their keys.  list_workflow_files, which nothing calls, is left out.     *)
(***************************************************************************)
EXTENDS Integers

CONSTANTS Keys, NoKey,   \* cache keys: a method and its arguments
          Method,        \* Method[k]
          Items,         \* Items[k]: how many items a complete answer has
          Tokens         \* number of tokens

Methods == {"search", "prs", "files", "content", "tree"}

ASSUME ClientTypes ==
    /\ NoKey \notin Keys
    /\ Method \in [Keys -> Methods]
    /\ Items \in [Keys -> Nat]
    /\ Tokens \in Nat \ {0}

VARIABLES
    cache,      \* github_cache: cache[k] items, or Absent
    idx,        \* _current_idx
    key,        \* the method at work, or NoKey
    step,       \* its request
    attempt,    \* attempt of _api_call
    bound,      \* token of the object at hand
    got,        \* items read so far
    tried,      \* tokens that were refused for their rate limit in this call
    answer,     \* what the caller gets
    calm        \* requests have stopped failing

request    == <<key, step, attempt, bound, got, tried>>
clientVars == <<cache, idx, request, answer, calm>>
----------------------------------------------------------------------------
Absent     == -1
MaxRetries == 3
Lists      == {"search", "prs", "files"}
NoAnswer   == [key |-> NoKey, ok |-> FALSE, items |-> 0, why |-> "none", tried |-> {}]

Wrapped == step \in {"repo", "one"}
Token   == IF step = "repo" THEN idx ELSE bound

\* Mutant of Tolerated: an error of the server counts as "nothing there".
ToleratedAll(m, error) == m \in {"search", "tree"} \/ error \in {"not_found", "server"}

(* The exceptions a method turns into an empty answer.                     *)
Tolerated(m, error) ==
    \/ m \in {"search", "tree"}
    \/ error \in {"not_found", "unreadable"}
    \/ m = "files" /\ error = "diff_not_available"

NoRequest ==
    /\ key' = NoKey /\ step' = "none"
    /\ attempt' = 0 /\ bound' = 0 /\ got' = 0 /\ tried' = {}

Answer(ok, n, why) ==
    /\ answer' = [key |-> key, ok |-> ok, items |-> n, why |-> why, tried |-> tried]
    /\ NoRequest

\* Mutant of Fail: the empty answer is cached like any other.
FailCached(error) ==
    /\ Answer(Tolerated(Method[key], error), 0, error)
    /\ cache' = IF Tolerated(Method[key], error) THEN [cache EXCEPT ![key] = 0] ELSE cache

(* The method ends with an exception or an empty answer, never cached.     *)
Fail(error) ==
    /\ Answer(Tolerated(Method[key], error), 0, error)
    /\ UNCHANGED cache

(* A complete answer is cached.                                            *)
Succeed ==
    /\ cache' = [cache EXCEPT ![key] = Items[key]]
    /\ Answer(TRUE, Items[key], "complete")

(* A new process, with a client of its own.                                *)
NewClient ==
    /\ idx' = 0 /\ NoRequest /\ answer' = NoAnswer
    /\ UNCHANGED <<cache, calm>>

ClientInit ==
    /\ cache = [k \in Keys |-> Absent]
    /\ idx = 0 /\ key = NoKey /\ step = "none"
    /\ attempt = 0 /\ bound = 0 /\ got = 0 /\ tried = {}
    /\ answer = NoAnswer
    /\ calm = FALSE
----------------------------------------------------------------------------
(* A method is called: the cache answers, or the first request is next.    *)
Call(k) ==
    /\ key = NoKey /\ answer = NoAnswer
    /\ IF cache[k] # Absent
       THEN /\ answer' = [NoAnswer EXCEPT !.key = k, !.ok = TRUE,
                                          !.items = cache[k], !.why = "cached"]
            /\ UNCHANGED request
       ELSE /\ key' = k
            /\ step' = IF Method[k] = "search" THEN "list" ELSE "repo"
            /\ bound' = idx
            /\ UNCHANGED <<attempt, got, tried, answer>>
    /\ UNCHANGED <<cache, idx, calm>>

(* The caller goes on with the answer.                                     *)
Take ==
    /\ answer # NoAnswer
    /\ answer' = NoAnswer
    /\ UNCHANGED <<cache, idx, request, calm>>

(* get_repo, get_pull: the object for the next request.                    *)
GetObject ==
    /\ \/ step = "repo" /\ step' = IF Method[key] = "prs" THEN "list" ELSE "one"
       \/ step = "one" /\ Method[key] = "files" /\ step' = "list"
    /\ bound' = Token
    /\ attempt' = 0
    /\ UNCHANGED <<cache, idx, key, got, tried, answer, calm>>

(* get_contents, get_git_tree: the whole answer.                           *)
GetWhole ==
    /\ step = "one" /\ Method[key] \notin Lists
    /\ Succeed
    /\ UNCHANGED <<idx, calm>>

(* ... a directory or a file of more than 1 MB is passed over.             *)
Unreadable ==
    /\ step = "one" /\ Method[key] = "content"
    /\ Fail("unreadable")
    /\ UNCHANGED <<idx, calm>>

\* Mutant of RateLimited: one attempt more than max_retries.
RateLimitedOnceMore ==
    /\ ~ calm /\ Wrapped /\ attempt < MaxRetries
    /\ idx' = (idx + 1) % Tokens
    /\ tried' = tried \union {Token}
    /\ attempt' = attempt + 1
    /\ UNCHANGED <<cache, key, step, bound, got, answer, calm>>

\* Mutant of RateLimited: the attempt is not counted.
RateLimitedUncounted ==
    /\ ~ calm /\ Wrapped
    /\ idx' = (idx + 1) % Tokens
    /\ tried' = tried \union {Token}
    /\ UNCHANGED <<cache, key, step, attempt, bound, got, answer, calm>>

(* RateLimitExceededException: rotate, wait, try again.                    *)
RateLimited ==
    /\ ~ calm /\ Wrapped /\ attempt < MaxRetries - 1
    /\ idx' = (idx + 1) % Tokens
    /\ tried' = tried \union {Token}
    /\ attempt' = attempt + 1
    /\ UNCHANGED <<cache, key, step, bound, got, answer, calm>>

(* ... the last attempt rotates too, and gives up.                         *)
RateLimitedLast ==
    /\ ~ calm /\ Wrapped /\ attempt = MaxRetries - 1
    /\ idx' = (idx + 1) % Tokens
    /\ answer' = [key |-> key, ok |-> Tolerated(Method[key], "rate_limit"), items |-> 0,
                  why |-> "rate_limit", tried |-> tried \union {Token}]
    /\ NoRequest
    /\ UNCHANGED <<cache, calm>>

(* Another GithubException: try again, at last raise it.                   *)
ServerError ==
    /\ ~ calm /\ Wrapped
    /\ \/ /\ attempt < MaxRetries - 1
          /\ attempt' = attempt + 1
          /\ UNCHANGED <<cache, key, step, bound, got, tried, answer>>
       \/ attempt = MaxRetries - 1 /\ Fail("server")
    /\ UNCHANGED <<idx, calm>>

(* 404, 422 (a ValueError) and connection errors (a RuntimeError) are not  *)
(* tried again.                                                            *)
RequestFails ==
    /\ ~ calm /\ Wrapped
    /\ \E error \in {"not_found", "value_error", "runtime_error"} : Fail(error)
    /\ UNCHANGED <<idx, calm>>

(* The iteration: one item more ...                                        *)
NextItem ==
    /\ step = "list" /\ got < Items[key]
    /\ got' = got + 1
    /\ UNCHANGED <<cache, idx, key, step, attempt, bound, tried, answer, calm>>

(* ... or the end of the list, or enough of it ...                         *)
EndOfList ==
    /\ step = "list" /\ got = Items[key]
    /\ Succeed
    /\ UNCHANGED <<idx, calm>>

\* Mutant of ListBreaks: what was read is cached in any case.
ListBreaksCached ==
    /\ ~ calm /\ step = "list"
    /\ cache' = [cache EXCEPT ![key] = got]
    /\ \E error \in {"not_found", "diff_not_available", "server", "connection"} :
          Answer(Tolerated(Method[key], error), 0, error)
    /\ UNCHANGED <<idx, calm>>

(* ... or a page that fails: nothing retries or rotates here.              *)
ListBreaks ==
    /\ ~ calm /\ step = "list"
    /\ \/ \E error \in {"not_found", "diff_not_available", "server", "connection"} :
             Fail(error)
       \/ /\ answer' = [key |-> key, ok |-> Tolerated(Method[key], "rate_limit"),
                        items |-> 0, why |-> "rate_limit", tried |-> tried \union {Token}]
          /\ NoRequest
          /\ UNCHANGED cache
    /\ UNCHANGED <<idx, calm>>

(* Searches live 24 hours, PR lists 6 hours, the rest for ever.            *)
Expire(k) ==
    /\ Method[k] \in {"search", "prs"} /\ cache[k] # Absent
    /\ cache' = [cache EXCEPT ![k] = Absent]
    /\ UNCHANGED <<idx, request, answer, calm>>

(* GitHub and the network recover for good (for liveness).                 *)
Settle ==
    /\ ~ calm /\ calm' = TRUE
    /\ UNCHANGED <<cache, idx, request, answer>>

Requests ==
    \/ GetObject \/ GetWhole \/ Unreadable \/ NextItem \/ EndOfList
    \/ RateLimited \/ RateLimitedLast \/ ServerError \/ RequestFails \/ ListBreaks

ClientNext ==
    \/ Requests \/ Take \/ NewClient \/ Settle
    \/ \E k \in Keys : Call(k) \/ Expire(k)

ClientSpec == ClientInit /\ [][ClientNext]_clientVars
----------------------------------------------------------------------------
Errors == {"not_found", "unreadable", "diff_not_available", "server", "connection",
           "value_error", "runtime_error", "rate_limit"}

(* The variables keep their types, and there are at most three attempts.   *)
ClientTypeOK ==
    /\ cache \in [Keys -> Nat \union {Absent}]
    /\ idx \in 0..(Tokens - 1) /\ bound \in 0..(Tokens - 1)
    /\ key \in Keys \union {NoKey}
    /\ step \in {"none", "repo", "one", "list"}
    /\ step = "none" <=> key = NoKey
    /\ attempt \in 0..(MaxRetries - 1) /\ got \in Nat
    /\ tried \subseteq 0..(Tokens - 1)
    /\ answer \in [key : Keys \union {NoKey}, ok : BOOLEAN, items : Nat,
                   why : Errors \union {"none", "cached", "complete"},
                   tried : SUBSET (0..(Tokens - 1))]
    /\ calm \in BOOLEAN

(* What is in the cache is the whole answer, whatever failed in the middle *)
(* of the lists and requests it was put together from: most entries are    *)
(* never looked up again at GitHub.                                        *)
CacheIsComplete == \A k \in Keys : cache[k] \in {Absent, Items[k]}

(* No caller gets a part of a list, and of these methods none is told      *)
(* "nothing there" unless GitHub said so: fetch_prs closes repositories    *)
(* and judges PRs for good on such answers.                                *)
EmptyMeansNothingThere ==
    answer.ok /\ Method[answer.key] \in {"prs", "files", "content"} =>
        \/ answer.items = Items[answer.key]
        \/ /\ answer.items = 0
           /\ answer.why \in {"not_found", "diff_not_available", "unreadable"}

(* However requests fail, a call ends: with an answer or an exception.     *)
CallsEnd == []<>(key = NoKey)

(* A call does not fail for a rate limit while a token is left that was    *)
(* not refused (design 5: list_prs rotates and tries again).               *)
EveryTokenTried ==
    answer.why = "rate_limit" => answer.tried = 0..(Tokens - 1)
=============================================================================
