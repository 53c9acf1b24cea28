# Agent pipeline benchmark: TLA+ models and proofs

The program builds a benchmark of cross-language ("interop") coding tasks from
merged GitHub pull requests. It runs in stages, each a mode of `main.py`:

| mode | what it does | leaves behind |
|---|---|---|
| `fetch-repos` | searches repositories | `repos_snapshot.json` |
| `fetch-prs` | scans their merged PRs, filters, optional human review | `prs_snapshot.json` and its progress sidecar |
| `resume` | continues a Stage 1 thread from its LangGraph checkpoint | the same |
| `single-pr`, `build` | takes PRs through the PR subgraph (Stages 2 and 3) | `stage2_results.jsonl` / `stage3_results.jsonl`, `benchmark_dataset.json` |
| `full` | the three above in a row | all of these |

## 1. Inventory

**fetch_prs (nodes/fetch_prs.py).** State: `completed_repos`, `scanned_pr_keys`
(both mirrored in the sidecar), `persisted_prs` (mirrored in the output file),
`found_prs` (returned to the graph). Operations: load or refuse the sidecar;
per repository list, per PR skip, filter, append and write; record the key;
complete the repository; stop at `target_items`. Hard: two files written one
after the other by a process that may die between them; a third copy of the
pool in the checkpoint; deduplication by `repo@head_sha`; a sidecar bound to
the parameters of the run. Correct when: no candidate is written twice, none is
lost, nothing counts as judged before its verdict is safe, the target is not
exceeded, and repeating the command finishes the scan.

**run_fetch_prs, run_resume (main.py), human_review, the Stage 1 graph.** State:
checkpoints per thread id, the channel `prs` with the reducer `operator.add`,
the exclusion list, the answer of the reviewer. They feed the output file to
the graph, and apply exclusions and the review to the file afterwards. Hard: what the
reducer does when a thread id is used twice, when a node is executed again,
and when a node returns a filtered list. Correct when: the reviewer sees the
whole pool, and only the operator takes a candidate out.

**PR subgraph (graph.py) and its nodes.** State: the channels of `PRSubState`
for one PR: `env_spec`, Dockerfile, `image_tag`, `build_status`/`build_retries`,
`compile_status`/`compile_repair_rounds`, baseline, `task`, `generated_code`,
`test_result`, items, errors. Eight nodes and seven routing functions, with two
cycles (docker_build, compile_verify) that end by counters. Four kinds of container
session (baseline, mask, truth, generated code), each run / cp / build / test /
stop, with timeouts on the docker client. Hard: every failing path has to set
the right channels and its own error; Docker's messages go through the parsers
of test output; tags, thread ids and task ids are not unique. Correct when: a
scored item really tells a right answer from a missing one on its own PR's
image; every early end is explained; containers are removed; cycles end.

**run_build and aggregate.** State: summary lines, items, the image manifest, the
dataset. Hard: one PR's failure and the rest of the batch; equal ids. Correct
when: every PR is summarised, and the dataset keeps the best item of each id.

**GitHubClient (github_client.py).** State: the current token, a SQLite cache
that outlives every process. Six methods look into the cache and else make one
to three requests: through `_api_call`, which rotates tokens, waits and tries
again, or by iterating a lazy list, which does none of that. Hard: a request
that fails in the middle of a method; a cache most of whose entries never
expire; callers that close repositories and judge PRs for good on an empty
answer. Correct when: the cache holds complete answers only, an empty answer
means there is nothing, calls end.

**fetch_repos.** State: what was found in this process, the quota of the pass,
the output file. Searches every interop type with a small quota and again with
twice the quota while repositories are missing. Hard: overlapping types; a
failed search looks like an empty one; three stop conditions. Correct when: the
file has as many repositories as GitHub, up to the target, and failures leave
no trace for later runs.

**infer_env.** State: commands and packages found so far, the Dockerfile path or
workflow at hand. Four layers: the repository's Dockerfile, its workflows, the
defaults of its language, failure. Hard: YAML walked line by line, multi-stage
Dockerfiles that need stages of another file, commands looked up as they are
written in a list of normalized ones. Correct when: the walk finds the commands of
the steps, the first layer that exists wins, nothing of its workflows is lost, and
what they have in common is done once.

**construct_task, derivation of mask ranges.** State: the list of ranges, the one
tried. A patch gives seeds, a seed three attempts of growing width, an accepted
range the masked file and the ground truth; `run_tests` puts an answer back.
Hard: line numbers out of a patch, blocks by braces or indentation, indentation
lost by `strip()`. Correct when: the seeds are the added lines, attempts widen
and stay in the file, none is skipped, the ground truth gives the file back.

**Dockerfile templates, prompts, regular expressions of the parsers, pattern
tables.** Text. The models have its outcomes, not its wording.

Components and their status are in `PROJECT.json` under `components`; what can
go wrong, line by line, under `hazards`.

## 2. Modules

| module | models |
|---|---|
| `CandidatePool` | what Stage 1 promises: a bag of candidates and a set of judged keys, with Admit, Reject, Retain, Forget |
| `FetchPrs` | Stage 1 step B: fetch_prs, human_review, run_fetch_prs, run_resume, crashes, the operator |
| `FetchPrs_proofs` | theorems about `FetchPrs` |
| `MCFetchPrs` (4 cfgs) | two repositories, four PRs |
| `GitHubClient` | the cache, `_api_call`, lazy lists and the methods of the client |
| `GitHubClient_proofs` | theorems about `GitHubClient` |
| `FetchRepos` | Stage 1 step A: fetch-repos over `GitHubClient` (which it extends), beside the other modes that share the cache |
| `FetchRepos_proofs` | theorems about `FetchRepos`, and that it implements `GitHubClient` |
| `MCFetchRepos` (2 cfgs) | three interop types, three repositories, two tokens |
| `BuildLadder` | what Stages 2 and 3 promise: each PR climbs the ladder of statuses and its summary names the rung |
| `BuildPipeline` | run_build, run_single_pr, the PR subgraph, container sessions, aggregation |
| `BuildPipeline_proofs` | theorems about `BuildPipeline` |
| `BuildLadder_proofs` | that `BuildPipeline` implements `BuildLadder` |
| `MCBuildPipeline` (3 cfgs) | one or two PRs |
| `InferEnv` | infer_env from the tree of the repository to `env_spec` |
| `InferEnv_proofs` | theorems about `InferEnv` |
| `MCInferEnv` (2 cfgs) | workflows of up to three steps, three Dockerfiles |
| `MaskRanges` | construct_task from the patch to the range that is masked, and the way back |
| `MaskRanges_proofs` | theorems about `MaskRanges` |
| `MCMaskRanges` (1 cfg) | four files of nine lines |
| `FoldFacts` | induction over a fold, for the loops of `InferEnv` and `MaskRanges` |

`FetchRepos` is composed with the client. `BuildPipeline` meets infer_env, the
client and the ranges by their outcomes: that only a Dockerfile of the
repository comes without test commands is what `InferEnv!TypeOK` shows, that a
list of ranges is tried to its end is `MaskRanges!EveryRangeTried`.

### FetchPrs

`snapshot`, `progress`, `ckpt` and `excluded` survive a process; everything else
is its memory and is reset by `Exit`. `pc` says where the process is: `idle`
(none), `load`, `repos`, `prs`, `record`, `return` (inside fetch_prs), `review`
(human_review), `filter`, `approve` (back in run_fetch_prs). A write of a file
is one step because the code writes a temporary file, syncs and replaces. Two
writes are two steps, so `Crash` may come between them: `Match` writes the
output file and `RecordScanned` the sidecar, as in lines 421-425 and 431-440.

`StartFetch` is the merge of the graph's input into the checkpoint of the
thread: `prs` is appended to what the checkpoint has, which is nothing for a new
thread id. `AllowReuse` lets the operator use an old one. `Resume` is `--mode
resume`; since the interrupted node is executed again from its beginning,
`LoadProgress` takes `persisted_prs` from the checkpoint. `Review` is the whole
prompt: interrupt, answer, second execution of the node.

A list of records is the bag of its entries (`snapshot[p]` entries for `p`),
because no code looks at the order of a snapshot. The filter on diff files is
the constant set `Matching`; PRs of `Gone` may fail it at any time, since a 404
or 422 is an empty file list. `Views[r]` are the listings GitHub may give for
`r`, so a PR can be merged between two runs and a repository can vanish.

### GitHubClient and FetchRepos

A key of the cache is a method with its arguments; `Items[key]` is how many
items GitHub has for it, and an answer is the number of items in it, so a partial
answer is a smaller number. `step` is the request of the method at work: `repo`
and `one` go through `_api_call` (`attempt` counts, `RateLimited` rotates
`idx`), `list` iterates. `bound` is the token of the PyGithub object at hand:
objects fetched before a rotation go on with the old token. `Fail` and
`Succeed` are the two ends of a method; which errors become an empty answer is
`Tolerated`. `NewClient` is a new process: the token starts over, the cache
stays.

`FetchRepos` adds the process of fetch-repos: `proc` is idle, searching,
awaiting an answer or writing. `label` is `all_repos` (which repository was
found for which type), `before` the count at the start of the pass. `Search` is
a `Call` of the client, `Collect` takes the answer and cannot see whether it failed;
`clean` remembers it for the properties. `OtherMode` is any other mode
using its own client on the same cache, `Crash` kills the process.

### InferEnv

A workflow is given as GitHub reads it, a sequence of steps; `RawLines` lays it
out in the lines `extract_run_steps` walks over, `WalkLine` is the body of that
walk, and `Stepwise` is the reference: the commands of the steps one by one. A line
of a script is a model text with the classes the patterns sort it into.
`GetTree`, `ReadProject`, `NoDockerfile`, `UseDockerfile`, `ReadWorkflow`,
`UseWorkflows`, `UseDefaults` are the layers of the node in order.

### MaskRanges

An edit script (lines kept, added, removed, too far from a change) stands for
the change of a file; `Patch` makes GitHub's patch of it, which the code's two
parsers (`ParsePatchRanges`, `ParseAnchorRanges`) take apart by hand. `Expand`
is the widening of a seed by language, `BuildAttemptRanges` the list of ranges.
`Masked`, `Truth`, `Strip` and `Insert` are the mask, the ground truth, what happens
to an answer, and its way back into the file. `Insert` puts an answer at the first
line that says `<MASK>`, as `replace("<MASK>", answer, 1)` does: in a file that
says so itself this need not be the mask.

### BuildPipeline

`args` are the mode and the arguments of the run, chosen in `Init` from the
constant `Args`: single-pr or build, is there an image manifest, does the run
end after Stage 2, may compile_verify retry, is the model the mock one. `bi` is
the place in the snapshot. `Kill` ends the process anywhere and gives the
command again: images (and containers) are still there, everything else is new.
A container that runs at that moment is left behind (`leaked`).
`pc` is the node, or the phase of a container session (`run`, `inject`, `build`,
`test`, `stop`, `verdict`) with `use` saying what for. `channels` is one
`PRSubState` per thread id; a node's return is `Return(s, next)` with the route
of graph.py. Every test result carries which image it comes from and how far
its session got: information the program does not have, and the properties need.
Docker, GitHub, the model and the test suites choose among their outcomes.
`Parsed` and the three parser operators are the parsers reduced to what their result
depends on: whether counts were found, whether a failure word was, and the exit code.

## 3. Runs and what they show

Stage 1 (`MCFetchPrs`): two repositories, four PRs of which two share a head
commit, one fails the filter, one may become unavailable; two listings for
the first repository and a vanishing second one.

| run | question | bounds |
|---|---|---|
| `_fresh` | types, no duplicates, nothing taken out but by the operator, completed means judged, review complete, refinement of `CandidatePool` | 1 crash, 2 edits, targets none / 2, limits 1 and 3, review on and off |
| `_live` | the scan finishes, every match that is always listed is found, excluded candidates leave the file, write order and target, with resume | 2 crashes, 1 edit, targets none / 2 / 3, every PR with a head commit of its own |
| `_resume_loses`, `_reuse_duplicates` | two statements of the documents the code does not keep (section 6) | |

One process at a time runs, so a second crash meets a state of the same kind as
the first; one crash in every place, with restarts that may use other parameters and
another thread, already gives every combination of file, sidecar and
checkpoint of two adjacent writes. Two repositories are what is needed for
completed / current, and three PRs in a listing for stopping at the target in
its middle. In `_live` a run without target goes on from the sidecar of target 3 (the
legacy default), and is refused by that of target 2: there a run that counted
candidates excluded meanwhile stops short, and the pool fills only because its own
repetition goes on. The proofs of section 5 remove the bounds for most of these properties.

Stages 2 and 3 (`MCBuildPipeline`):

| run | question | bounds |
|---|---|---|
| `_one` | types and counters, discriminating items, explained ends, no container left by a failing session | 1 PR, both stages or Stage 2 alone, 3 mask ranges, 3 frameworks, 3 reports, flaky Docker, exceptions, repair on |
| `_batch` | no mixing of PRs, nothing lost by aggregation, no container left behind but by a kill, every PR summarised, refinement of `BuildLadder` | 2 PRs with one thread id, tag and task id; four argument sets: both stages, Stage 2 alone with repair, manifest (an image for one PR) with the mock model, single-pr with an image; killed and repeated once; Docker works, nothing raises |
| `_mask_untested` | a statement of the documents the code does not keep (section 6) | |

Two PRs are enough for what one may leave for the next (a channel, a tag, an
id). A kill in every place followed by a whole run meets every image an earlier
attempt can have left, which is all that survives. Three ranges are the most one
seed range gives (`_build_attempt_ranges`).
`run_build` ends, so these configurations do not check for deadlock.
`enable_compile_repair` is False in every mode of main.py; the graph has the
branch and its counter, so the runs switch it on.

Client and fetch-repos (`MCFetchRepos`):

| run | question | bounds |
|---|---|---|
| `_recall` | types and three attempts, complete cache, truthful empty answers, calls end, a clean run writes all there is, failed runs are made up for | three types (one without a query), two overlapping result lists, target 2, two tokens, one listing, files, content and tree of the other modes |
| `_rotation` | a statement of the documents the code does not keep (section 6) | |

Every request may fail in every way at every attempt, any number of times, and
crashes are unbounded, until `Settle`. Lists have up to two items, so they
break before, between and after items. Two overlapping types make the second
pass necessary, and with the types this instance has the full quota is reached in
it; for more types see section 6.

Ranges and environments:

| run | question | bounds |
|---|---|---|
| `MCMaskRanges_masks` | seeds are the added lines, attempts widen inside the file, every range tried, the truth gives the file back | four files of nine lines, one of which says `<MASK>`, at most three added lines and one removed, each file taken as braces, Python and other |
| `MCInferEnv_walk` | the walk finds the commands of the steps, layers in order and complete, shared commands listed once | workflows of up to three steps alone or after a short one; every choice of three out of five Dockerfiles |
| `MCInferEnv_blocks` | a statement of the documents the code does not keep (section 6) | |

Nine lines hold two hunks with a gap, nested blocks and both ends of the file;
three added lines give separate, adjacent and merged ranges. The walk keeps one
open block at a time, so three steps show what a block does to the next and what
an emptied one leaves behind.

Each property of a passing run has a mutant in `PROJECT.json`: a plausible slip
in a mapped definition (kept beside the original, marked "Mutant of") with which
TLC finds the property violated.

## 4. Fairness

`FetchPrs!LiveSpec`: a process that is not killed runs on and the reviewer
answers (weak fairness of the node and of what follows it); the operator repeats
the command with the same parameters until it is done, which is the
recovery rule of plans/design.md 1.7 (strong fairness of `StartFetch` for each
configuration: runs under other parameters, refused for the foreign sidecar or not,
may come in between). Crashes and edits are finite.
`BuildPipeline!LiveSpec`: the process runs on (weak fairness of every step but
`Kill` and `Raise`); all docker and model calls have timeouts, so each of them
returns. The number of kills is bounded.
`FetchRepos!LiveSpec`: requests are answered or refused (weak fairness of
`Client`), a process that is not killed runs on (`Recall`), other modes go on with
their answers, and the operator repeats fetch-repos (strong fairness of `Start`, since
other modes may come in between). `Settle` has no fairness: `RecallRecovers`
speaks of behaviours in which requests stop failing, and the program is not killed
any more, at some time. `CallsEnd` needs neither.

## 5. Proofs

`FetchPrs_proofs`, for every value of the constants under the named assumptions
`PRsFinite`, `ListingTypes`, `ConfigTypes` and `BoundTypes` (finitely many PRs,
listings are sequences of PRs, at least one thread id, natural bounds):

* `TypeCorrect`, by the invariance of `TypeOK` (`TypeStep`, one step per action).
* `WrittenFirst` and `TargetRespected`, for **every** use of thread ids, resume,
  review and crashes. The first needs `SidecarInv`: while the node runs, the
  sidecar holds exactly its lists, so a new key in it is the one of the
  current PR, and a passing PR is already in the file. The second needs `RoomInv`:
  a listing is only scanned while the pool has room, which holds since `RecordScanned`
  looks at the target after each PR and only a match adds to the pool.
* `FreshCorrect`: with `~AllowReuse` and `~AllowResume` (every fetch-prs has a
  thread id of its own, the default of main.py, and nobody uses resume) `FreshInv` is
  invariant. Its core is `CopiesAgree`: when fetch_prs loads and when the
  reviewer is asked, the checkpoint holds the output file; while it scans, its
  list is the file and the checkpoint plus `found_prs`. None of the properties
  is inductive without this: a file that is rewritten from a list is safe only
  if the list is the file.
* From it `NoDuplicates`, `ReviewIsComplete`, `NothingWrittenIsLost`,
  `ClosedIsJudged` (with `JudgedInv`: everything behind the cursor of a listing is
  excluded or known; the discipline makes what the process knows what the files
  hold) and `ImplementsPool`: `Spec => PoolContract`, the refinement of `CandidatePool`
  with `pool <- snapshot` and `judged <-` sidecar keys and file keys.

The two discipline assumptions are needed: the runs `_resume_loses` and
`_reuse_duplicates` show the properties fail without them.

No run has thread reuse in its passing part; for `WrittenBeforeRecorded` and
`TargetNeverOvershot` the proofs cover it.

`GitHubClient_proofs`, from `ClientTypes` (methods, natural sizes, at least one token):

* `ClientTypeCorrect`, one step per action; three attempts is part of the types.
* `AnswersCorrect`: `CacheIsComplete` and `EmptyMeansNothingThere` together. They
  are inductive only together, because a cached entry becomes an answer.
* `AnswersWhole`: an answer is empty or whole, and whole if nothing failed.

`FetchRepos_proofs`, from `RecallTypes` (result lists of distinct repositories,
finitely many, a positive target, cache keys that stand for query and quota):

* `RecallTypeCorrect`, with the fact that the loop is only entered with types.
* `UsesTheClient`: `Spec => ClientSpec`. Each step is one of the client's or none;
  for `Search` this needs `QuotaRange`, that every pass's quota is between one and the
  target. By it `CacheStaysComplete` and `EmptyIsTrue` follow from the client's theorems.
* `RecallCorrect`: `RecallIsComplete` for any types, overlaps and target. The
  invariant is that of the loop: while no search failed, all types behind the index
  have given what their quota allows (`Scanned`), only hits get labels
  (`FromSearches`), an answer belongs to the search that waits for it
  (`AnswersTheSearch`). `EnoughIsAll` is the argument: if the target was not met,
  no type has as many hits as the quota (`HitsAreCounted`, by an injection), so all
  hits have been found; and a first pass that finds nothing had nothing to find.

`BuildPipeline_proofs` and `BuildLadder_proofs`, from `PipelineTypes` (a queue of
PRs, tags, thread and task ids of any kind, shared or not; reports in which no more
tests passed than there are):

* `PipelineInvariant`: `PrInv` is the types (`Types`) and `StageOK`. `TypeOK` alone is
  not inductive: `docker_build` counts a retry up to three only because it is never
  entered with three, and a score is at most 100 only because a result came out of a
  session. `StageOK` says for every node, and for every phase of a session by the node
  it is for (`Place`), how far the PR has come: the channels that are set and those that
  are not (`Unbuilt`, `Verified`, `Coded`, ...), that the tag names an image, that the
  baseline passed, that the mask at hand made tests fail, and in `summary` which error
  belongs to where it stopped (`Ended`). `Outcome` says what a result can be after
  each phase. `PipelineTyped` follows.
* `StopsAreExplained`, with `AllLinesOK` over the lines written so far. The mock model
  may answer with nothing and no error, so `Explained` is stated for it only if every
  range has code (`args.mock => Truths \subseteq {"code"}`, as in the runs).
* `ContainersAreRemoved`: `KeptInside`, a container runs only between `run` and `stop`, and
  each killed process leaves one at most.
* `PartsAreOwn`, by `OwnershipInvariant`: from docker_build on, the tag of the PR at hand
  names its own image, since nothing else runs until the next PR. This needs
  `OneTagEach`, that a manifest does not give two PRs one tag: a tag is
  made of repository and PR number (stage2_utils.py:30) with `/` replaced by `-`, so
  `a-b/c` and `a/b-c` can share one, and with a manifest the second PR then
  runs on the first one's image. Without a manifest tags may be shared freely.
* `ItemsDiscriminate`: `ItemsInv` puts the verdicts of three sessions together, taken
  from `StageOK` and `OwnOK` when an item is appended.
* `ItemsAreKept`: the fold of aggregate is a choice per id; that a best item exists is a
  least-counterexample argument (`BestItem`, `LeastNumber`).
* `PipelineImplementsLadder`: `Spec => ClimbsLadder`. `OnRung` reads the rung off the place;
  each action of the graph goes one rung up, stays, or falls to `failed` when infer_env
  fails for a PR that came with an image (`Climbs`); the batch actions are the ladder's own.

`InferEnv_proofs`, from `InferTypes`, `NormalIsFinal` (normalizing a line twice is
normalizing it once) and `RepoTypes` (what a repository is):

* `InferInvariant`: `InferInv` has `SearchOK` (layers passed over had nothing to use, and
  the commands and packages found so far are what the workflows before `i` give), `FoundOK`
  (they are normalized, which the comparison of new commands with them needs), `EnvOK`
  and `CommandsOnce`. `InferTyped`, `LayersAreInOrder` and `CommandsListedOnce` follow; the
  loop invariant `AddInv` carries both halves of the comparison: it leaves no command
  out, and repeats only those written in another way than they are listed.
* `WalkFindsTheSteps`: for workflows of any length the walk line by line is the steps one
  by one, if no two blocks follow each other without a name (`Separated`). `TextInv` is the
  walk inside a block, `IdleInv` outside one, and `OnceInv` what a deduplicated list is.

`FoldFacts` carries the inductions. The induction theorems of the library take an
operator as a parameter, which the provers cannot instantiate; a module can be
instantiated. `FoldFacts` has the operation and the invariant of a loop as constants
and proves, by a least counterexample, that an invariant that each element keeps
holds of the fold. `InferEnv_proofs` and `MaskRanges_proofs` instantiate it once per loop.

`MaskRanges_proofs`, from `MaskTypes` (blank is a code, patterns match code only):

* Each loop of the code has its invariant: `MergeInv` (overlapping ranges), `ParseInv`
  and `AnchorInv` (patch parsers), `BraceInv` (block finder), `AttemptInv` (the list of attempts).
  `MaskInvariant` follows: every range tried lies in the file, none comes twice.
* `AddedLinesParsed`: `ParseInv` relates the ranges so far to the added lines so far, by
  the numbers the lines have in the new file (`NewLine`, by counting).
* `AttemptsGetWider`: braces, indentation and lines; `NoRangeLeftOut`: the code tells the last
  range by comparing its value, which is right because no range comes twice.
* `TaskCanBeSolved`: `strip()` drops trailing blank lines and the first indentation, the
  mask line carries that indentation, and blank lines do not count (`CodeOf`), so what
  goes in is what came out, if the range begins with code and no line before it
  says `<MASK>`. Both conditions are needed.

The proofs changed the models where they were wrong or too loose. In `BuildPipeline`,
`RouteAfterBuild` and `CoarseStatus` had CASE arms that overlapped, where the code tests one
after the other, and a kill in a session did not leave its container behind.
`ContainersRemoved` is now about Docker failures and kills as well. In `InferEnv`, the
pruning of a block is a fold over its lines, and `RepoTypes` and `NormalIsFinal` say
what was taken for granted. In `MaskRanges`, lines are numbered by counting, the sorted
list of ranges is an ascending arrangement of them, and `Insert`, which had known the
place of the mask, looks for its text as the code does.

Model-checked only: the liveness properties (`ScanFinishes`, `EveryMatchFound`,
`ExcludedLeave`, `EveryPrSummarised`, `CallsEnd`, `RecallRecovers`), because fairness
and ENABLED are beyond TLAPS here; and the statements of section 6, which are
counterexamples. Every other property of a passing run has a theorem.

## 6. Where the code and the documents part

| run | what happens | document |
|---|---|---|
| `MCFetchPrs_resume_loses` | resume after a crash rewrites the output file from the old checkpoint; earlier matches vanish and stay "scanned" | design.md 123, 1956 |
| `MCFetchPrs_reuse_duplicates` | a repeated `--thread-id` doubles the pool | design.md 157, 1780 |
| `MCFetchRepos_rotation` | a search or listing that meets the rate limit while it is iterated ends at once, with tokens left | design.md 475, 499 |
| `MCInferEnv_blocks` | of two unnamed `- run: \|` blocks in a row the first is lost | design.md 1000-1002 |
| `MCBuildPipeline_mask_untested` | a failed docker run validates a mask | design.md 1234, 1250 |

The models show more of the kind. They are listed as hazards, without a run of
their own:

* An exception of GitHubClient in one PR ends the whole batch (design.md 1270).
* A success after a failed build is reported as docker_build_failed (design.md 1848).
* An item without any executed test (total -1) enters the dataset (design.md 1517).
* If all searches fail, fetch-repos replaces the file by an empty list (design.md
  782 says RuntimeError).
* With many overlapping types a pass may add nothing although the next quota would:
  the search ends short of the target. `RecallIsComplete` is about two passes to
  the full quota.
* The check that a range is glue code never rejects one (design.md 1226 asks for
  half of the lines); the reason mask_not_interop_code cannot occur.
* A range that begins with a blank line loses the indentation of its first code
  line, which breaks Python.
* A line that only echoes a test makes its support lines (`export`, `cargo build`) the
  test command (infer_env.py:199, design.md 1002).
* A workflow that tests and does not build, in a language without a default build (lua_c),
  gives an environment without build commands (infer_env.py:543); design.md 1899 says
  they are not empty.
* A command that workflows spell with `python` is looked up in that spelling among
  commands spelt `python3`, so it is listed and run once per workflow (infer_env.py:519).
* The packages infer_env computes are installed by the template only. A repository's
  own Dockerfile is built as it is (build_dockerfile.py:25), and the default commands run
  in whatever it has installed.
* The package list of `apt-get install` takes `&&` and what follows for packages.
* An ENTRYPOINT before a CMD stays, and the `sleep` of a session becomes its argument.
* human_review returns a filtered list and the reducer appends it to the unfiltered
  one, so the checkpoint keeps the rejected PRs (design.md 901 says the node
  filters); the output file is filtered afterwards.
* Two PRs with one head commit are judged as one (design.md 138).
* Two PRs can get one task id (design.md 1522), and aggregation keeps one item.
* An empty answer of the mock model is not reported as an error (design.md 1324).
* A container outlives its session when `docker run` times out at the client or
  `docker stop` fails (design.md 1399), or when the program is killed. `ContainersRemoved`
  says that none runs between two PRs for a session, and, with a Docker that works,
  that those left behind are at most one for each kill.
* A manifest that gives two PRs one tag lets the second run on the image of the first;
  `make_image_tag` (stage2_utils.py:30) can give two repositories one tag.
* `_normalize_command` (infer_env.py:339) leaves the second of two `python` in a row
  as it is, because the pattern took the space between them.
* In a file that says `<MASK>` above the range the answer is put there
  (docker_runtime.py:33), and the ground truth does not give the file back.

## 7. Not modelled, and why

* Text: search queries, diff filters, pattern tables, base images and frameworks of
  infer_env, templates, what images have installed, prompts, regular expressions of the parsers, reports. The
  models have every outcome these can produce.
* construct_task: the score that picks the target file, validation stubs, context
  files and difficulty; patch lines that look like headers (`++`, `--`) and the
  "No newline" marker, which the code takes for added lines or skips.
* `list_workflow_files`, which nothing calls, and the start-up code of the client
  (environment files, proxies, token parsing).
* The Docker semaphore: run_build never has two PRs in flight.
* `per_repo_cap` (no mode sets it), sorting and the Markdown report of aggregate.
* `full` as a whole: its three modes meet only in files that are written in one
  piece, and each is modelled over every content of its input.
* Two fetch-prs processes at once on one output file: nothing in the program or
  its documents provides for it.
* Absolute time; timeouts are outcomes.

## 8. Plan

Done: `CandidatePool`, `FetchPrs` and its proofs; `GitHubClient`, `FetchRepos` and
their proofs; `BuildPipeline` with `BuildLadder`, single-pr and repeated builds, and their
proofs; `MaskRanges`, `InferEnv` and their proofs.

1. A Stage 2 build whose images become the manifest of a Stage 3 build, with the condition
   on tags (`OneTagEach`) derived instead of assumed.
2. `Aggregate`: sort order and the cap per repository as a function over items.
3. Hazards that no property covers yet (`PROJECT.json`).
