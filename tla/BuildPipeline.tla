----------------------------- MODULE BuildPipeline -----------------------------
(***************************************************************************)
(* Stages 2 and 3: run_build (main.py) takes the PRs of the snapshot one   *)
(* by one, and run_single_pr a single one, through the PR subgraph of      *)
(* graph.py                                                                *)
(*                                                                         *)
(*   infer_env -> build_dockerfile -> docker_build -> compile_verify       *)
(*             -> construct_task -> llm_generate -> run_tests -> score     *)
(*                                                                         *)
(* and summarises each.  run_build writes the summaries to a file and      *)
(* aggregates the scored items, run_single_pr only logs.  Four steps run   *)
(* something in a fresh container of the PR's image: the baseline tests,   *)
(* the masked file, the original file ("truth") and the generated code.    *)
(* Each such session is start, inject, build, test, stop.                  *)
(*                                                                         *)
(* Simplifications.  Docker, GitHub, the LLM and the test suites are the   *)
(* environment: every step chooses one of their outcomes.  What a test     *)
(* command prints is a report with its counts, or output without any.      *)
(* Exit codes are 0, 1 and -1 (the client timed out).  The list of mask    *)
(* ranges is its length (MaskRanges has the list).  run_build never has    *)
(* two PRs in flight, so the Docker semaphore is always free.              *)
(* per_repo_cap is unset (main.py).                                        *)
(***************************************************************************)
EXTENDS Integers, Sequences, FiniteSets

CONSTANTS PRs, NoPr,      \* pull requests; "none of them"
          Queue,          \* the PRs of the snapshot, in order
          Tags, NoTag,    \* image tags; image_tag = None
          Tag,            \* Tag[p]: make_image_tag
          TaskId,         \* TaskId[p]: the task_id construct_task composes
          Thread,         \* Thread[p]: the thread id, from pr_id alone
          Args,           \* modes and arguments (see args)
          Preset,         \* Preset[p]: the tag the manifest (single-pr: the
                          \* argument --image-tag) has for p, or NoTag
          Frameworks,     \* a subset of {"pytest", "go_test", "generic"}
          Reports,        \* counts a test command may print
          Truths,         \* what a masked range held: code, spaces, nothing
          Qualities,      \* judge scores, 0..100
          MaxRanges,      \* bound: mask ranges tried for one file
          MaxKills,       \* bound: how often the process is killed
          DockerFlaky,    \* may docker run, cp and stop fail?
          MayRaise        \* may GitHubClient raise?

ASSUME PipelineTypes ==
    /\ NoPr \notin PRs /\ Queue \in Seq(PRs)
    /\ (\E a \in Args : a.single) => Queue # <<>>
    /\ NoTag \notin Tags /\ Tag \in [PRs -> Tags]
    /\ Preset \in [PRs -> Tags \union {NoTag}]
    /\ DOMAIN TaskId = PRs /\ DOMAIN Thread = PRs
    /\ Args \subseteq [single : BOOLEAN, manifest : BOOLEAN, stage2_only : BOOLEAN,
                       repair : BOOLEAN, mock : BOOLEAN]
    /\ MaxKills \in Nat /\ DockerFlaky \in BOOLEAN /\ MayRaise \in BOOLEAN
    /\ Frameworks \subseteq {"pytest", "go_test", "generic"}
    /\ Reports \subseteq {r \in [passed : Nat, failed : Nat, total : Nat] :
                           r.passed <= r.total}
    /\ Truths \subseteq {"code", "spaces", "nothing"}
    /\ Qualities \subseteq 0..100 /\ MaxRanges \in Nat \ {0}

VARIABLES
    pc,         \* the node, the phase of a session, or the place in the loop
    args,       \* single-pr or build, is there an image manifest (or tag),
                \* stage2_only, enable_compile_repair, is target_llm the mock
    bi,         \* the PR at hand is Work[bi]
    channels,   \* channels[t]: PRSubState of thread t (MemorySaver)
    images,     \* images[g]: the PR whose image tag g names
    use,        \* what the container session is for
    container,  \* the PR whose image the running container has, or NoPr
    leaked,     \* PRs of containers left running that nobody will stop
    res,        \* result of the session
    ranges, attempt,   \* mask ranges of the target file, the one tried
    mask,       \* result the accepted mask was accepted on
    kills,      \* how often the process was killed
    lines,      \* summaries in the output file (single-pr: in the log)
    items,      \* benchmark_items collected
    dataset     \* benchmark_dataset.json

loop    == <<args, bi, kills>>
session == <<use, container, leaked, res>>
choice  == <<ranges, attempt, mask>>
outputs == <<lines, items, dataset>>
vars    == <<pc, loop, channels, images, session, choice, outputs>>
----------------------------------------------------------------------------
(* A TestResult, with what it is the result of: the image (PR) it was run  *)
(* on and how far the session got.                                         *)
NoResult == [of |-> NoPr, reached |-> "none", passed |-> 0, failed |-> 0,
             total |-> 0, compile |-> FALSE, exit |-> 0]
Result   == [of : PRs \union {NoPr},
             reached : {"none", "run", "inject", "build", "tests"},
             passed : Nat \union {-1}, failed : Nat \union {-1},
             total : Nat \union {-1}, compile : BOOLEAN, exit : {0, 1, -1}]

NoTask   == [of |-> NoPr, truth |-> "nothing", mask |-> NoResult, restored |-> NoResult]
NoError  == [stage |-> "none", reason |-> "none"]
Error(stage, reason) == [stage |-> stage, reason |-> reason]

(* make_initial_pr_state, with the tag of the manifest put in.             *)
PrState(p, preset) ==
    [pr |-> p, source |-> "none", framework |-> "generic", tests |-> FALSE,
     dockerfile |-> FALSE, image |-> preset,
     build |-> IF preset = NoTag THEN "none" ELSE "success", retries |-> 0,
     compile |-> "none", rounds |-> 0, baseline |-> NoResult, task |-> NoTask,
     code |-> "", result |-> NoResult, score |-> -1, error |-> NoError]

NoChannels == [t \in {Thread[p] : p \in PRs} |-> PrState(NoPr, NoTag)]

Manifest(p) == IF args.manifest THEN Preset[p] ELSE NoTag

(* What main.py takes through the graph: the snapshot, or one PR.          *)
Work == IF args.single THEN SubSeq(Queue, 1, 1) ELSE Queue
Cur  == Work[bi]
st   == channels[Thread[Cur]]

(* A node returns: its channels are written, and the graph goes on.        *)
Return(s, next) ==
    /\ channels' = [channels EXCEPT ![Thread[Cur]] = s]
    /\ pc' = next
    /\ UNCHANGED <<loop, outputs>>

----------------------------------------------------------------------------
(* The routes of graph.py; "summary" is END.                               *)
RouteAfterInferEnv(s) ==
    IF s.source = "failed" THEN "summary"
    ELSE IF s.image # NoTag THEN "compile_verify" ELSE "build_dockerfile"

RouteAfterDockerfile(s) == IF s.dockerfile THEN "docker_build" ELSE "summary"

RouteAfterBuild(s) ==
    IF s.source = "failed" THEN "summary"
    ELSE IF s.build = "success" THEN "compile_verify"
    ELSE IF s.dockerfile /\ s.retries < 3 THEN "docker_build" ELSE "summary"

\* Mutant of RouteAfterCompile: the number of repair rounds is not looked at.
RouteAfterCompileForever(s) ==
    CASE s.compile = "success" -> IF args.stage2_only THEN "summary" ELSE "construct_task"
      [] s.compile = "retryable" -> "compile_verify"
      [] OTHER -> "summary"

RouteAfterCompile(s) ==
    CASE s.compile \in {"success", "repaired"} ->
            IF args.stage2_only THEN "summary" ELSE "construct_task"
      [] s.compile = "retryable" /\ args.repair /\ s.rounds < 2 -> "compile_verify"
      [] OTHER -> "summary"

RouteAfterConstructTask(s) == IF s.task # NoTask THEN "llm_generate" ELSE "summary"
RouteAfterGenerate(s) == IF s.code # "" THEN "run_tests" ELSE "summary"
RouteAfterRunTests(s) == IF s.result # NoResult THEN "score" ELSE "summary"
----------------------------------------------------------------------------
(* The parsers: counts and compile_success out of an output and exit code. *)
(* clean: the output has none of the words a parser takes for a build      *)
(* failure.  Docker's own messages and "command timed out" are clean and   *)
(* have no counts.                                                         *)
Silent(clean) == [counts |-> FALSE, passed |-> 0, failed |-> 0, total |-> 0,
                  clean |-> clean]
Noise == Silent(TRUE)
Outputs == {Silent(c) : c \in BOOLEAN} \union
           {[counts |-> TRUE, passed |-> r.passed, failed |-> r.failed,
             total |-> r.total, clean |-> c] : r \in Reports, c \in BOOLEAN}

(* _result: none stands for counts the parser does not find.               *)
Parsed(out, none, compile, exit) ==
    LET count(n) == IF out.counts THEN n ELSE none
    IN [NoResult EXCEPT !.passed = count(out.passed), !.failed = count(out.failed),
                        !.total = count(out.total), !.compile = compile, !.exit = exit]

PytestParser(out, exit) == Parsed(out, 0, out.clean, exit)

GoParser(out, exit) ==
    IF out.clean THEN Parsed(out, 0, TRUE, exit)
    ELSE Parsed(Silent(FALSE), 0, FALSE, exit)

GenericParser(out, exit) == Parsed(out, -1, out.clean /\ exit = 0, exit)

(* get_parser; every other framework gets the generic parser.              *)
Parse(framework, out, exit) ==
    CASE framework = "pytest"  -> PytestParser(out, exit)
      [] framework = "go_test" -> GoParser(out, exit)
      [] OTHER                 -> GenericParser(out, exit)

(* Tests that fail or break off do not exit with 0; only go test counts    *)
(* tests that neither pass nor fail (skipped).  A command that times out   *)
(* has printed nothing, but the baseline runs its commands one by one and  *)
(* keeps the output of those before it.                                    *)
Plausible(framework, out, exit) ==
    /\ exit # 1 /\ out.counts =>
         out.failed = 0 /\ (framework = "go_test" \/ out.total = out.passed)
    /\ exit = -1 /\ use # "baseline" => out = Noise

Broken(exit) == [NoResult EXCEPT !.exit = exit]
Seen(r, how) == [r EXCEPT !.of = container, !.reached = how]
----------------------------------------------------------------------------
Init ==
    /\ args \in Args
    /\ pc = "queue" /\ bi = 1 /\ kills = 0
    /\ channels = NoChannels
    /\ images = [g \in Tags |->
                   IF args.manifest /\ \E p \in PRs : Preset[p] = g
                   THEN CHOOSE p \in PRs : Preset[p] = g ELSE NoPr]
    /\ use = "baseline" /\ container = NoPr /\ leaked = {} /\ res = NoResult
    /\ ranges = 0 /\ attempt = 0 /\ mask = NoResult
    /\ lines = <<>> /\ items = <<>> /\ dataset = {}

----------------------------------------------------------------------------
(* The loop of run_build: a PR the manifest has no image for is summarised *)
(* as failed ...                                                           *)
MissingImage ==
    /\ pc = "queue" /\ bi <= Len(Work) /\ ~ args.single
    /\ args.manifest /\ Manifest(Cur) = NoTag
    /\ lines' = Append(lines, [pr |-> Cur, status |-> "failed", retries |-> 0,
                               error |-> Error("build", "missing_image_tag")])
    /\ bi' = bi + 1
    /\ UNCHANGED <<pc, args, kills, channels, images, session, choice, items, dataset>>

\* Mutant of StartPr: the input of the graph leaves task and result out.
StartPrKeepsTask ==
    /\ pc = "queue" /\ bi <= Len(Work)
    /\ args.manifest /\ ~ args.single => Manifest(Cur) # NoTag
    /\ channels' = [channels EXCEPT ![Thread[Cur]] =
         [PrState(Cur, Manifest(Cur)) EXCEPT !.task = st.task, !.result = st.result]]
    /\ pc' = "infer_env"
    /\ UNCHANGED <<loop, images, session, choice, outputs>>

(* ... and every other PR starts the graph: the input has every channel,   *)
(* so a thread id used before starts afresh.                               *)
StartPr ==
    /\ pc = "queue" /\ bi <= Len(Work)
    /\ args.manifest /\ ~ args.single => Manifest(Cur) # NoTag
    /\ channels' = [channels EXCEPT ![Thread[Cur]] = PrState(Cur, Manifest(Cur))]
    /\ pc' = "infer_env"
    /\ UNCHANGED <<loop, images, session, choice, outputs>>

(* infer_env: the repository's Dockerfile (with or without test commands), *)
(* its workflows or the defaults of its language give an EnvSpec ...       *)
InferEnv ==
    /\ pc = "infer_env"
    /\ \E framework \in Frameworks, source \in {"repo_dockerfile", "other"},
          tests \in BOOLEAN :
         /\ tests \/ source = "repo_dockerfile"
         /\ LET s == [st EXCEPT !.source = source, !.framework = framework,
                                !.tests = tests]
            IN Return(s, RouteAfterInferEnv(s))
    /\ UNCHANGED <<images, session, choice>>

(* ... or nothing does.                                                    *)
InferEnvFails ==
    /\ pc = "infer_env"
    /\ LET s == [st EXCEPT !.source = "failed", !.build = "failed",
                           !.error = Error("infer_env", "infer_env_failed")]
       IN Return(s, RouteAfterInferEnv(s))
    /\ UNCHANGED <<images, session, choice>>

BuildDockerfile ==
    /\ pc = "build_dockerfile"
    /\ LET s == [st EXCEPT !.dockerfile = TRUE, !.image = Tag[st.pr]]
       IN Return(s, RouteAfterDockerfile(s))
    /\ UNCHANGED <<images, session, choice>>

RenderFails ==
    /\ pc = "build_dockerfile"
    /\ LET s == [st EXCEPT !.build = "failed",
                    !.error = Error("build_dockerfile", "dockerfile_render_failed")]
       IN Return(s, RouteAfterDockerfile(s))
    /\ UNCHANGED <<images, session, choice>>

\* Mutant of DockerBuild: an image that has the tag already is taken.
DockerBuildIfMissing ==
    /\ pc = "docker_build"
    /\ images' = [images EXCEPT ![st.image] = IF @ = NoPr THEN st.pr ELSE @]
    /\ LET s == [st EXCEPT !.build = "success"]
       IN Return(s, RouteAfterBuild(s))
    /\ UNCHANGED <<session, choice>>

(* docker build names the image with the tag.  An error of an earlier      *)
(* attempt stays in the channel.                                           *)
DockerBuild ==
    /\ pc = "docker_build"
    /\ images' = [images EXCEPT ![st.image] = st.pr]
    /\ LET s == [st EXCEPT !.build = "success"]
       IN Return(s, RouteAfterBuild(s))
    /\ UNCHANGED <<session, choice>>

\* Mutant of DockerBuildFails: the failure is not reported.
DockerBuildFailsSilently ==
    /\ pc = "docker_build"
    /\ LET s == [st EXCEPT !.build = "failed", !.retries = @ + 1]
       IN Return(s, RouteAfterBuild(s))
    /\ UNCHANGED <<images, session, choice>>

DockerBuildFails ==
    /\ pc = "docker_build"
    /\ LET s == [st EXCEPT !.build = "failed", !.retries = @ + 1,
                           !.error = Error("docker_build", "docker_build_failed")]
       IN Return(s, RouteAfterBuild(s))
    /\ UNCHANGED <<images, session, choice>>

(* compile_verify needs test commands ...                                  *)
NoTestCommands ==
    /\ pc = "compile_verify" /\ ~ st.tests
    /\ LET s == [st EXCEPT !.compile = "failed",
                    !.error = Error("compile_verify", "test_framework_unsupported")]
       IN Return(s, RouteAfterCompile(s))
    /\ UNCHANGED <<images, session, choice>>

(* ... and runs them on the image as it was built.                         *)
Enter(u) ==
    /\ use' = u
    /\ pc' = "run"
    /\ res' = NoResult
    /\ UNCHANGED <<loop, channels, images, container, leaked, outputs>>

StartBaseline ==
    /\ pc = "compile_verify" /\ st.tests
    /\ Enter("baseline")
    /\ UNCHANGED choice

----------------------------------------------------------------------------
(* A container session: compile_verify's own, and run_file_in_container of *)
(* docker_runtime (mask, truth) and of run_tests (code).                   *)
Phase(next) ==
    /\ pc' = next
    /\ UNCHANGED <<loop, channels, images, use, choice, outputs>>

RunContainer ==
    /\ pc = "run"
    /\ images[st.image] # NoPr
    /\ container' = images[st.image]
    /\ Phase(IF use = "baseline" THEN "build" ELSE "inject")
    /\ UNCHANGED <<leaked, res>>

(* docker run fails: Docker's message goes to the parser.  If the client   *)
(* timed out, the daemon may still start the container.                    *)
RunFails ==
    /\ pc = "run" /\ DockerFlaky
    /\ \E exit \in {1, -1} :
         /\ res' = Seen(Parse(st.framework, Noise, exit), "run")
         /\ leaked' \in {leaked} \union
                       (IF exit = -1 THEN {leaked \union {images[st.image]}} ELSE {})
    /\ Phase("verdict")
    /\ UNCHANGED container

Inject ==
    /\ pc = "inject"
    /\ Phase("build")
    /\ UNCHANGED <<container, leaked, res>>

\* Mutant of InjectFails: the session ends, its container runs on.
InjectFailsNoStop ==
    /\ pc = "inject" /\ DockerFlaky
    /\ \E exit \in {1, -1} :
         res' = Seen(IF use = "code"
                     THEN [Parse(st.framework, Noise, exit) EXCEPT !.compile = FALSE]
                     ELSE Broken(exit), "inject")
    /\ Phase("verdict")
    /\ UNCHANGED <<container, leaked>>

InjectFails ==
    /\ pc = "inject" /\ DockerFlaky
    /\ \E exit \in {1, -1} :
         res' = Seen(IF use = "code"
                     THEN [Parse(st.framework, Noise, exit) EXCEPT !.compile = FALSE]
                     ELSE Broken(exit), "inject")
    /\ Phase("stop")
    /\ UNCHANGED <<container, leaked>>

RunBuildCmds ==
    /\ pc = "build"
    /\ Phase("test")
    /\ UNCHANGED <<container, leaked, res>>

\* Mutant of BuildCmdsFail: the early return goes around the finally block.
BuildCmdsFailNoStop ==
    /\ pc = "build"
    /\ \E exit \in {1, -1} : res' = Seen(Broken(exit), "build")
    /\ Phase("verdict")
    /\ UNCHANGED <<container, leaked>>

BuildCmdsFail ==
    /\ pc = "build"
    /\ \E exit \in {1, -1} : res' = Seen(Broken(exit), "build")
    /\ Phase("stop")
    /\ UNCHANGED <<container, leaked>>

(* Getting as far as the tests counts as compiled, except in the baseline. *)
RunTestCmds ==
    /\ pc = "test"
    /\ \E out \in Outputs, exit \in {0, 1, -1} :
         /\ Plausible(st.framework, out, exit)
         /\ LET r == Parse(st.framework, out, exit) IN
            res' = Seen([r EXCEPT !.compile = @ \/ use # "baseline"], "tests")
    /\ Phase("stop")
    /\ UNCHANGED <<container, leaked>>

(* docker stop, whose own failure goes unnoticed.                          *)
StopContainer ==
    /\ pc = "stop"
    /\ leaked' \in {leaked} \union
                   (IF DockerFlaky THEN {leaked \union {container}} ELSE {})
    /\ container' = NoPr
    /\ Phase("verdict")
    /\ UNCHANGED res

Verdict(u) == pc = "verdict" /\ use = u

----------------------------------------------------------------------------
(* compile_verify after its session.                                       *)
Reject(s, reason) ==
    [s EXCEPT !.compile = "failed", !.error = Error("compile_verify", reason)]

\* Mutant of Retry: the round is not counted.
RetryUncounted(s) == [Reject(s, "compile_unrecoverable") EXCEPT !.compile = "retryable"]

Retry(s) == [Reject(s, "compile_unrecoverable") EXCEPT !.compile = "retryable",
                                                       !.rounds = @ + 1]

AfterBaseline(s, r) ==
    LET tested == [s EXCEPT !.baseline = r] IN
    CASE r.reached = "run"   -> Reject(s, "docker_build_failed")
      [] r.reached = "build" ->
            IF args.repair THEN Retry(s) ELSE Reject(s, "compile_unrecoverable")
      [] r.reached = "tests" /\ r.total <= 0 -> Reject(tested, "test_output_unparseable")
      [] r.reached = "tests" /\ r.total > 0 /\ r.exit = -1 ->
            Reject(tested, "baseline_timeout")
      [] r.reached = "tests" /\ r.total > 0 /\ r.exit = 1 ->
            Reject(tested, "baseline_tests_failing")
      [] OTHER ->
            IF r.compile /\ r.failed <= 0
            THEN [tested EXCEPT !.compile = "success"]
            ELSE Reject(tested, "baseline_tests_failing")

BaselineVerdict ==
    /\ Verdict("baseline")
    /\ LET s == AfterBaseline(st, res) IN Return(s, RouteAfterCompile(s))
    /\ UNCHANGED <<images, session, choice>>

(* construct_task gives up.                                                *)
NoTaskFor(reason) ==
    LET s == [st EXCEPT !.task = NoTask, !.error = Error("construct_task", reason)]
    IN Return(s, RouteAfterConstructTask(s))

(* It needs a passing baseline, a patch, a file with an interop signal and *)
(* the content of that file ...                                            *)
ConstructTask ==
    /\ pc = "construct_task"
    /\ \/ /\ st.baseline.compile /\ st.baseline.failed <= 0
          /\ ranges' \in 1..MaxRanges /\ attempt' = 1
          /\ pc' = "mask"
          /\ UNCHANGED <<loop, channels, mask, outputs>>
       \/ /\ LET reasons == IF st.baseline.compile /\ st.baseline.failed <= 0
                 THEN {"patch_unavailable", "no_interop_signal", "target_file_missing"}
                 ELSE {"baseline_unavailable"}
             IN \E reason \in reasons : NoTaskFor(reason)
          /\ UNCHANGED choice
    /\ UNCHANGED <<images, session>>

(* ... and tries the ranges one after the other.                           *)
NextRange(reason) ==
    \/ /\ attempt = ranges
       /\ NoTaskFor(reason)
       /\ UNCHANGED choice
    \/ /\ attempt < ranges
       /\ attempt' = attempt + 1 /\ pc' = "mask"
       /\ UNCHANGED <<loop, channels, ranges, mask, outputs>>

TryMask ==
    /\ pc = "mask"
    /\ Enter("mask")
    /\ UNCHANGED choice

MaskFails ==
    /\ Verdict("mask")
    /\ \/ ~ res.compile /\ NextRange("mask_breaks_compilation")
       \/ /\ res.compile /\ res.passed >= st.baseline.passed
          /\ NextRange("mask_ineffective")
    /\ UNCHANGED <<images, session>>

\* Mutant of MaskWorks: a mask that breaks no test is accepted.
MaskWorksAlways ==
    /\ Verdict("mask")
    /\ res.compile /\ res.passed <= st.baseline.passed
    /\ mask' = res
    /\ Enter("truth")
    /\ UNCHANGED <<ranges, attempt>>

(* A range is chosen when the masked file passes fewer tests ...           *)
MaskWorks ==
    /\ Verdict("mask")
    /\ res.compile /\ res.passed < st.baseline.passed
    /\ mask' = res
    /\ Enter("truth")
    /\ UNCHANGED <<ranges, attempt>>

TruthFails ==
    /\ Verdict("truth")
    /\ ~ res.compile \/ res.passed # st.baseline.passed
    /\ NoTaskFor("ground_truth_invalid")
    /\ UNCHANGED <<images, session, choice>>

(* ... and the original file passes as many as the baseline.               *)
TruthHolds ==
    /\ Verdict("truth")
    /\ res.compile /\ res.passed = st.baseline.passed
    /\ Phase("context")
    /\ UNCHANGED <<container, leaked, res>>

(* The context files are read and the task is put together.                *)
BuildTask ==
    /\ pc = "context"
    /\ \E truth \in Truths :
         LET s == [st EXCEPT !.task = [of |-> st.pr, truth |-> truth, mask |-> mask,
                                      restored |-> res]]
         IN Return(s, RouteAfterConstructTask(s))
    /\ UNCHANGED <<images, session, choice>>

(* llm_generate: the mock model answers with the masked text, stripped.    *)
MockGenerate ==
    /\ pc = "llm_generate" /\ args.mock
    /\ LET s == [st EXCEPT !.code = IF st.task.truth = "code" THEN "code" ELSE ""]
       IN Return(s, RouteAfterGenerate(s))
    /\ UNCHANGED <<images, session, choice>>

Generate ==
    /\ pc = "llm_generate" /\ ~ args.mock
    /\ LET s == [st EXCEPT !.code = "code"] IN Return(s, RouteAfterGenerate(s))
    /\ UNCHANGED <<images, session, choice>>

GenerateFails ==
    /\ pc = "llm_generate" /\ ~ args.mock
    /\ \E reason \in {"llm_timeout", "empty_generation"} :
         LET s == [st EXCEPT !.code = "", !.error = Error("llm_generate", reason)]
         IN Return(s, RouteAfterGenerate(s))
    /\ UNCHANGED <<images, session, choice>>

RunTests ==
    /\ pc = "run_tests"
    /\ Enter("code")
    /\ UNCHANGED choice

(* run_tests after its session: a result, with an error or without.        *)
TestError(r) ==
    CASE r.exit = -1               -> Error("run_tests", "test_timeout")
      [] r.exit # -1 /\ ~ r.compile -> Error("run_tests", "compile_failed")
      [] r.exit # -1 /\ r.compile /\ r.total = -1 ->
            Error("run_tests", "test_output_unparseable")
      [] OTHER                     -> st.error

TestsVerdict ==
    /\ Verdict("code")
    /\ LET s == [st EXCEPT !.result = res, !.error = TestError(res)]
       IN Return(s, RouteAfterRunTests(s))
    /\ UNCHANGED <<images, session, choice>>

(* score: 60% tests, 20% compilation, 20% the judge's opinion.             *)
Score ==
    /\ pc = "score"
    /\ LET r == st.result
           tests == IF r.total <= 0 THEN 0 ELSE (60 * r.passed) \div r.total
           built == IF r.compile THEN 20 ELSE 0
       IN \E quality \in Qualities :
            Return([st EXCEPT !.score = tests + built + quality \div 5], "summary")
    /\ UNCHANGED <<images, session, choice>>
----------------------------------------------------------------------------
(* summarize_stage2_state: how far the PR came.                            *)
CoarseStatus(s) ==
    IF s.score >= 0 THEN "scored"
    ELSE IF s.result # NoResult THEN "tested"
    ELSE IF s.code # "" THEN "generated"
    ELSE IF s.task # NoTask THEN "task_constructed"
    ELSE IF s.compile = "success"
         THEN IF s.baseline.failed = 0 /\ s.baseline.compile
              THEN "baseline_test_passed" ELSE "compile_passed"
    ELSE IF s.build = "success" THEN "image_built"
    ELSE IF s.dockerfile THEN "dockerfile_rendered"
    ELSE IF s.source \in {"none", "failed"} THEN "failed" ELSE "env_inferred"

Item(s) == [id |-> TaskId[s.task.of], pr |-> s.pr, image |-> s.image,
            task |-> s.task, result |-> s.result, score |-> s.score]

(* The graph has ended: the summary line is written, the item collected.   *)
WriteSummary ==
    /\ pc = "summary"
    /\ lines' = Append(lines, [pr |-> st.pr, status |-> CoarseStatus(st),
                               retries |-> st.retries, error |-> st.error])
    /\ items' = IF st.score >= 0 THEN Append(items, Item(st)) ELSE items
    /\ bi' = bi + 1
    /\ pc' = "queue"
    /\ use' = "baseline" /\ res' = NoResult
    /\ ranges' = 0 /\ attempt' = 0 /\ mask' = NoResult
    /\ UNCHANGED <<args, kills, channels, images, container, leaked, dataset>>

(* aggregate_results: items without tests or text are dropped; of those    *)
(* with one id the first of the best is kept.                              *)
Counted(i) == items[i].task.truth # "nothing" /\ items[i].result.total # 0

\* Mutant of Better: an equal score replaces the item too, both are lost.
BetterOrEqual(i, j) == items[j].score >= items[i].score

Better(i, j) ==
    \/ items[j].score > items[i].score
    \/ items[j].score = items[i].score /\ j < i

Aggregated ==
    {items[i] : i \in {k \in DOMAIN items : Counted(k) /\
        \A j \in DOMAIN items \ {k} :
            Counted(j) /\ items[j].id = items[k].id => ~ Better(k, j)}}

Finish ==
    /\ pc = "queue" /\ bi > Len(Work)
    /\ dataset' = IF args.stage2_only \/ args.single THEN dataset ELSE Aggregated
    /\ pc' = "done"
    /\ UNCHANGED <<loop, channels, images, session, choice, lines, items>>

(* infer_env and construct_task call GitHubClient, which raises when the   *)
(* network, the quota or the server fails it; nothing catches that.        *)
Raise ==
    /\ MayRaise /\ pc \in {"infer_env", "construct_task", "context"}
    /\ pc' = "aborted"
    /\ UNCHANGED <<loop, channels, images, session, choice, outputs>>

(* The process is killed, or ended by an exception, and the command given  *)
(* again: channels and collected items are gone, the output file is opened *)
(* for writing, which empties it.  The images stay, and so does a running  *)
(* container, which no later step looks for.                               *)
Kill ==
    /\ kills < MaxKills /\ pc # "done"
    /\ kills' = kills + 1
    /\ pc' = "queue" /\ bi' = 1 /\ channels' = NoChannels
    /\ leaked' = leaked \union ({container} \ {NoPr})
    /\ use' = "baseline" /\ container' = NoPr /\ res' = NoResult
    /\ ranges' = 0 /\ attempt' = 0 /\ mask' = NoResult
    /\ lines' = <<>> /\ items' = <<>>
    /\ UNCHANGED <<args, images, dataset>>

Stage2 ==
    \/ InferEnv \/ InferEnvFails \/ BuildDockerfile \/ RenderFails \/ DockerBuild
    \/ DockerBuildFails \/ NoTestCommands \/ StartBaseline \/ BaselineVerdict

Session ==
    \/ RunContainer \/ RunFails \/ Inject \/ InjectFails \/ RunBuildCmds
    \/ BuildCmdsFail \/ RunTestCmds \/ StopContainer

Stage3 ==
    \/ ConstructTask \/ TryMask \/ MaskFails \/ MaskWorks
    \/ TruthFails \/ TruthHolds \/ BuildTask \/ MockGenerate \/ Generate
    \/ GenerateFails \/ RunTests \/ TestsVerdict \/ Score

Batch == MissingImage \/ StartPr \/ WriteSummary \/ Finish

Next == Batch \/ Stage2 \/ Session \/ Stage3 \/ Raise \/ Kill

Spec == Init /\ [][Next]_vars

(* The process runs on: every command it starts has a timeout.  Nothing    *)
(* makes it die.                                                           *)
LiveSpec == Spec /\ WF_vars(Batch \/ Stage2 \/ Session \/ Stage3)
----------------------------------------------------------------------------
(* The variables keep their types, and the counters their limits: at most  *)
(* three docker builds and two repair rounds for a PR.                     *)
Task  == [of : PRs \union {NoPr}, truth : Truths \union {"nothing"},
          mask : Result, restored : Result]
ReasonCodes ==
    {"none", "missing_image_tag", "infer_env_failed", "dockerfile_render_failed",
     "docker_build_failed", "test_framework_unsupported", "compile_unrecoverable",
     "baseline_timeout", "baseline_tests_failing", "baseline_unavailable",
     "patch_unavailable", "no_interop_signal", "target_file_missing",
     "mask_breaks_compilation", "mask_ineffective", "ground_truth_invalid",
     "llm_timeout", "empty_generation", "test_timeout", "compile_failed",
     "test_output_unparseable"}
Reason == [stage : {"none", "build", "infer_env", "build_dockerfile", "docker_build",
                    "compile_verify", "construct_task", "llm_generate", "run_tests"},
           reason : ReasonCodes]
State == [pr : PRs \union {NoPr}, source : {"none", "repo_dockerfile", "other", "failed"},
          framework : Frameworks \union {"generic"}, tests : BOOLEAN,
          dockerfile : BOOLEAN, image : Tags \union {NoTag},
          build : {"none", "success", "failed"}, retries : 0..3,
          compile : {"none", "success", "failed", "retryable"}, rounds : 0..2,
          baseline : Result, task : Task, code : {"", "code"}, result : Result,
          score : -1..100, error : Reason]
Nodes == {"infer_env", "build_dockerfile", "docker_build", "compile_verify",
          "construct_task", "mask", "context", "llm_generate", "run_tests", "score"}
Phases == {"run", "inject", "build", "test", "stop", "verdict"}
TypeOK ==
    /\ pc \in Nodes \union Phases \union {"queue", "summary", "done", "aborted"}
    /\ bi \in 1..(Len(Work) + 1) /\ kills \in 0..MaxKills
    /\ \A t \in DOMAIN channels : channels[t] \in State
    /\ images \in [Tags -> PRs \union {NoPr}]
    /\ use \in {"baseline", "mask", "truth", "code"}
    /\ container \in PRs \union {NoPr} /\ leaked \subseteq PRs
    /\ res \in Result /\ mask \in Result
    /\ ranges \in 0..MaxRanges /\ attempt \in 0..ranges
    /\ Len(lines) <= Len(Work) /\ Len(items) <= Len(lines)

(* What the graph works with while Work[bi] is at hand comes from that PR  *)
(* alone: its container runs the image built for it, and baseline, task    *)
(* and test result were obtained on that image, even where pr_id (and so   *)
(* the thread id) or the image tag is shared with another PR, and where    *)
(* images are left over from a batch that was killed.                      *)
OwnParts ==
    pc \notin {"queue", "done", "aborted"} =>
        /\ st.pr = Cur
        /\ {container, res.of, mask.of, st.baseline.of, st.task.of, st.result.of}
              \subseteq {Cur, NoPr}
        /\ st.compile = "success" => st.baseline.of = Cur

(* Every scored item tells models apart: on its PR's own image the original *)
(* file made the tests pass as often as the baseline, at least one did, and *)
(* fewer pass with the mask in place (design 6.8, the three validations).   *)
Discriminating ==
    \A i \in DOMAIN items :
        LET task == items[i].task IN
            /\ task.of = items[i].pr
            /\ task.restored.of = task.of /\ task.restored.reached = "tests"
            /\ task.restored.passed > 0
            /\ task.mask.passed < task.restored.passed

(* A PR that does not come to its end has an error, and the error is of    *)
(* the node where it stopped.                                              *)
StoppedAt(status) ==
    CASE status = "failed"               -> {"build", "infer_env"}
      [] status = "env_inferred"         -> {"build_dockerfile"}
      [] status = "dockerfile_rendered"  -> {"docker_build"}
      [] status = "image_built"          -> {"compile_verify"}
      [] status = "baseline_test_passed" -> {"construct_task"}
      [] status = "task_constructed"     -> {"llm_generate"}
      [] OTHER                           -> {}
Complete == IF args.stage2_only THEN "baseline_test_passed" ELSE "scored"
Explained ==
    \A i \in DOMAIN lines :
        lines[i].status # Complete => lines[i].error.stage \in StoppedAt(lines[i].status)

(* No session outlives its node: when the loop is between two PRs nothing  *)
(* runs, and unless Docker fails a kill is all that leaves a container     *)
(* behind, and no more than one.                                           *)
ContainersRemoved ==
    pc \in {"queue", "summary", "done"} =>
        container = NoPr /\ (~ DockerFlaky => Cardinality(leaked) <= kills)

(* The dataset has every scored item that ran tests, one for each task id. *)
NoItemLost ==
    pc = "done" /\ ~ args.stage2_only /\ ~ args.single =>
        /\ \A i \in DOMAIN items :
             Counted(i) => \E d \in dataset : d.id = items[i].id /\ d.score >= items[i].score
        /\ \A d, e \in dataset : d.id = e.id => d = e

(* Every PR of the snapshot gets its summary line in the end, also when    *)
(* the batch has to be repeated (design 6.8 and 10.1: a PR that fails does *)
(* not stop the others).                                                   *)
EveryPrSummarised == <>[](Len(lines) = Len(Work))

(* Every PR climbs the ladder of statuses rung by rung, whatever fails on  *)
(* its way and whoever had its thread id before, and its summary names the *)
(* rung it reached.                                                        *)
Rungs == INSTANCE BuildLadder WITH
             Length <- Len(Queue),
             at     <- bi,
             rung   <- IF pc \in {"queue", "done"} THEN "none" ELSE CoarseStatus(st),
             told   <- [i \in DOMAIN lines |-> lines[i].status]
ClimbsLadder == Rungs!LadderSpec

(* A mask is accepted because the tests failed with it in place (design    *)
(* 6.8, step 2): they were run.                                            *)
MaskTested == \A i \in DOMAIN items : items[i].task.mask.reached = "tests"
=============================================================================
