------------------------- MODULE BuildPipeline_proofs -------------------------
(***************************************************************************)
(* Proofs about Stages 2 and 3 for every value of the constants: the types *)
(* and counters, the rung a PR has reached at every node, what its parts   *)
(* come from, which containers stay behind, and what the dataset keeps.    *)
(* BuildLadder_proofs has the refinement.                                  *)
(***************************************************************************)
EXTENDS BuildPipeline, SequenceTheorems, FiniteSetTheorems, WellFoundedInduction, TLAPS

Threads == {Thread[p] : p \in PRs}

(* Where the PR at hand is: at a node, or in a session for a node.         *)
Place  == IF pc \in Phases THEN use ELSE pc
Active == pc \notin {"queue", "done", "aborted"}

Checking == {"compile_verify", "baseline"}
Masking  == {"construct_task", "mask", "truth", "context"}
Testing  == {"run_tests", "code"}
Inside   == {"inject", "build", "test", "stop"}
----------------------------------------------------------------------------
(* The rungs of the ladder by the channels that tell them.                 *)
Untried(s)  == s.task = NoTask /\ s.code = "" /\ s.result = NoResult /\ s.score = -1
Early(s)    == Untried(s) /\ s.compile # "success"
Unbuilt(s)  == Early(s) /\ s.build # "success"
AtBottom(s) == Unbuilt(s) /\ ~ s.dockerfile /\ s.source \in {"none", "failed"}
Inferred(s) == Unbuilt(s) /\ ~ s.dockerfile /\ s.source \notin {"none", "failed"}
Rendered(s) == Unbuilt(s) /\ s.dockerfile
Built(s)    == Early(s) /\ s.build = "success"
Verified(s) == Untried(s) /\ s.compile = "success" /\ s.baseline.failed = 0 /\ s.baseline.compile
Tasked(s)   == s.task # NoTask /\ s.code = "" /\ s.result = NoResult /\ s.score = -1
Coded(s)    == s.code # "" /\ s.result = NoResult /\ s.score = -1
Tested(s)   == s.result # NoResult /\ s.score = -1
Scored(s)   == s.score >= 0

(* What a session can end with when the tests are of this framework.       *)
Outcome(r, framework) ==
    /\ r \in Result
    /\ r.reached = "run" => r.passed <= 0
    /\ r.reached \in {"inject", "build"} => ~ r.compile
    /\ framework # "generic" => r.passed >= 0
    /\ r.total > 0 => r.passed \in 0..r.total /\ r.failed >= 0
    /\ r.reached = "tests" /\ r.total > 0 /\ r.exit = 0 /\ framework # "go_test" =>
         r.passed = r.total

(* A baseline that compile_verify accepts.                                 *)
GoodBaseline(s) ==
    /\ Outcome(s.baseline, s.framework)
    /\ s.baseline.reached = "tests" /\ s.baseline.exit = 0 /\ s.baseline.total > 0

(* A mask that construct_task accepts, and a task it hands on.             *)
MaskEffective(s) == Outcome(mask, s.framework) /\ mask.passed < s.baseline.passed
SoundTask(s) ==
    /\ s.task.truth \in Truths
    /\ s.task.restored.reached = "tests" /\ s.task.restored.passed > 0
    /\ s.task.mask.passed < s.task.restored.passed

(* The tag of the PR names an image.                                       *)
Imaged(s) == s.image \in Tags /\ images[s.image] # NoPr

(* The mock model may answer with nothing, which no error tells.           *)
EmptyMock(s) == args.mock /\ s.task.truth \in Truths \ {"code"}

(* The ends of a PR, and what its error names.                             *)
Ended(s) ==
    \/ AtBottom(s) /\ s.error.stage = "infer_env"
    \/ Inferred(s) /\ s.error.stage = "build_dockerfile"
    \/ Rendered(s) /\ s.error.stage = "docker_build"
    \/ Built(s) /\ s.error.stage = "compile_verify"
    \/ Verified(s) /\ args.stage2_only
    \/ Verified(s) /\ ~ args.stage2_only /\ s.error.stage = "construct_task"
    \/ Tasked(s) /\ ~ args.stage2_only /\ (s.error.stage = "llm_generate" \/ EmptyMock(s))
    \/ Scored(s) /\ ~ args.stage2_only /\ SoundTask(s)
----------------------------------------------------------------------------
(* Types: TypeOK, with the variables that are functions or sequences.      *)
Statuses == {"failed", "env_inferred", "dockerfile_rendered", "image_built",
             "baseline_test_passed", "task_constructed", "generated", "tested", "scored"}
Line == [pr : PRs \union {NoPr}, status : Statuses,
         retries : 0..3, error : Reason]
ItemType == [id : {TaskId[p] : p \in PRs \union {NoPr}}, pr : PRs \union {NoPr},
             image : Tags \union {NoTag}, task : Task, result : Result, score : 0..100]

LoopOK ==
    /\ pc \in Nodes \union Phases \union {"queue", "summary", "done", "aborted"}
    /\ args \in Args /\ kills \in 0..MaxKills
    /\ bi \in 1..(Len(Work) + 1) /\ (pc \notin {"queue", "done"} => bi <= Len(Work))
StoreOK ==
    /\ channels \in [Threads -> State]
    /\ images \in [Tags -> PRs \union {NoPr}]
    /\ args.manifest => \A p \in PRs : Preset[p] # NoTag => images[Preset[p]] # NoPr
SessionOK ==
    /\ use \in {"baseline", "mask", "truth", "code"}
    /\ container \in PRs \union {NoPr} /\ (pc \in Inside => container \in PRs)
    /\ leaked \subseteq PRs /\ res \in Result
ChoiceOK == mask \in Result /\ ranges \in 0..MaxRanges /\ attempt \in 0..ranges
OutputsOK ==
    /\ lines \in Seq(Line) /\ items \in Seq(ItemType)
    /\ Len(lines) = bi - 1 /\ Len(items) <= Len(lines)

Types == LoopOK /\ StoreOK /\ SessionOK /\ ChoiceOK /\ OutputsOK

(* How far the PR at hand has come when it is at a place.                  *)
Stage(s, at) ==
    /\ s.pr = Cur
    /\ at = "infer_env" => s = PrState(Cur, Manifest(Cur))
    /\ at = "build_dockerfile" =>
         /\ Inferred(s) /\ s.image = NoTag /\ s.compile = "none"
         /\ s.retries = 0 /\ s.rounds = 0
    /\ at = "docker_build" =>
         /\ Rendered(s) /\ s.image \in Tags /\ s.compile = "none"
         /\ s.source # "failed" /\ s.retries < 3 /\ s.rounds = 0
    /\ at \in Checking => Built(s) /\ Imaged(s) /\ s.rounds < 2
    /\ at \in Masking =>
         Verified(s) /\ GoodBaseline(s) /\ Imaged(s) /\ ~ args.stage2_only
    /\ at \in {"truth", "context"} => MaskEffective(s)
    /\ at = "context" =>
         /\ Outcome(res, s.framework) /\ res.reached # "none"
         /\ res.compile /\ res.passed = s.baseline.passed
    /\ at = "llm_generate" => Tasked(s)
    /\ at \in Testing => Coded(s)
    /\ at = "score" =>
         Tested(s) /\ (s.result.total > 0 => s.result.passed \in 0..s.result.total)
    /\ at \in {"llm_generate", "score"} \union Testing =>
         Imaged(s) /\ SoundTask(s) /\ ~ args.stage2_only
    /\ at = "summary" => Ended(s)

StageOK ==
    /\ Active => Stage(st, Place)
    /\ pc \in {"stop", "verdict"} => Outcome(res, st.framework) /\ res.reached # "none"

PrInv == Types /\ StageOK

(* What the parts of the PR at hand come from, if the manifest does not    *)
(* give two PRs one image.                                                 *)
Later == Checking \union Masking \union Testing \union {"llm_generate", "score"}
OneTagEach ==
    args.manifest => \A p, q \in PRs : Preset[p] = Preset[q] /\ Preset[p] # NoTag => p = q
ManifestOK ==
    args.manifest => \A n \in DOMAIN Work :
        Preset[Work[n]] # NoTag => images[Preset[Work[n]]] = Work[n]
Parts(s) ==
    /\ mask.of \in {Cur, NoPr} /\ s.baseline.of \in {Cur, NoPr}
    /\ s.task.of \in {Cur, NoPr} /\ s.result.of \in {Cur, NoPr}
    /\ s.compile = "success" => s.baseline.of = Cur
    /\ s.task # NoTask => s.task.of = Cur /\ s.task.restored.of = Cur
Named(s, at) ==
    /\ at = "infer_env" /\ args.manifest /\ ~ args.single => Preset[Cur] # NoTag
    /\ at \in {"build_dockerfile", "docker_build"} /\ args.manifest =>
         args.single /\ Preset[Cur] = NoTag
    /\ at \in Later => images[s.image] = Cur
OwnOK ==
    /\ ManifestOK
    /\ container = (IF pc \in Inside THEN Cur ELSE NoPr)
    /\ Active => /\ Parts(st) /\ Named(st, Place)
                 /\ res.of \in {Cur, NoPr} /\ (res.reached = "tests" => res.of = Cur)
    /\ pc = "queue" => res = NoResult /\ mask = NoResult
OwnInv == OneTagEach => OwnOK

(* What an item collected for the dataset comes from.                      *)
ItemOK(item) ==
    /\ item.task.of = item.pr
    /\ item.task.restored.of = item.pr /\ item.task.restored.reached = "tests"
    /\ item.task.restored.passed > 0
    /\ item.task.mask.passed < item.task.restored.passed
ItemsInv == OneTagEach => \A i \in DOMAIN items : ItemOK(items[i])

NotLost == pc = "done" /\ ~ args.stage2_only /\ ~ args.single => dataset = Aggregated
(* A container runs within a session only, and unless Docker fails no more *)
(* of them are left behind than the process was killed.                    *)
KeptInside ==
    /\ pc \notin Inside => container = NoPr
    /\ ~ DockerFlaky => IsFiniteSet(leaked) /\ Cardinality(leaked) <= kills
----------------------------------------------------------------------------
(* The list of PRs is the queue, or its first element.                     *)
LEMMA WorkType ==
  ASSUME args \in Args
  PROVE  /\ Work \in Seq(PRs) /\ Len(Work) \in Nat /\ Len(Work) <= Len(Queue)
         /\ args.single => Len(Work) = 1
<1>1. CASE args.single
  <2>1. Queue \in Seq(PRs) /\ Queue # <<>>
    BY <1>1, PipelineTypes
  <2>2. 1 \in 1..Len(Queue) /\ Len(Queue) \in Nat
    BY <2>1
  <2>3. SubSeq(Queue, 1, 1) \in Seq(PRs) /\ Len(SubSeq(Queue, 1, 1)) = 1
    BY <2>1, <2>2
  <2>. QED  BY <1>1, <2>2, <2>3 DEF Work
<1>2. CASE ~ args.single
  <2>1. Work = Queue
    BY <1>2 DEF Work
  <2>2. Queue \in Seq(PRs)
    BY PipelineTypes
  <2>. QED  BY <1>2, <2>1, <2>2
<1>. QED  BY <1>1, <1>2

(* While a PR is at hand it is one of PRs, and its thread has a state.     *)
LEMMA AtHand ==
  ASSUME Types, bi <= Len(Work)
  PROVE  Cur \in PRs /\ Thread[Cur] \in Threads /\ st \in State
<1>1. Work \in Seq(PRs) /\ bi \in 1..Len(Work)
  BY WorkType DEF Types, LoopOK
<1>2. Cur \in PRs
  BY <1>1 DEF Cur
<1>3. Thread[Cur] \in Threads
  BY <1>2 DEF Threads
<1>. QED  BY <1>2, <1>3 DEF Types, StoreOK, st

(* A node that returns replaces the state of the PR at hand, and nothing   *)
(* else in the loop.                                                       *)
LEMMA ReturnSets ==
  ASSUME Types, bi <= Len(Work), NEW s \in State, NEW next,
         next \in Nodes \union Phases \union {"summary"}, Return(s, next)
  PROVE  /\ st' = s /\ pc' = next /\ Cur' = Cur /\ Work' = Work /\ args' = args
         /\ LoopOK' /\ OutputsOK' /\ channels' \in [Threads -> State]
<1>1. Work' = Work /\ Cur' = Cur /\ args' = args /\ bi' = bi
  BY DEF Return, loop, Work, Cur
<1>2. Thread[Cur] \in Threads
  BY AtHand
<1>3. channels \in [Threads -> State]
  BY DEF Types, StoreOK
<1>4. st' = s /\ channels' \in [Threads -> State]
  BY <1>1, <1>2, <1>3 DEF Return, st
<1>5. LoopOK'
  BY <1>1 DEF Return, Types, LoopOK, loop
<1>6. OutputsOK'
  BY <1>1 DEF Return, Types, OutputsOK, outputs
<1>. QED  BY <1>1, <1>4, <1>5, <1>6 DEF Return

(* Manifest(Cur) is a tag or none.                                         *)
LEMMA PrStateType ==
  ASSUME NEW p \in PRs \union {NoPr}, NEW preset \in Tags \union {NoTag}
  PROVE  PrState(p, preset) \in State
<1>1. NoResult \in Result
  BY DEF NoResult, Result
<1>2. NoTask \in Task
  BY <1>1 DEF NoTask, Task
<1>3. NoError \in Reason
  BY DEF NoError, Reason, ReasonCodes
<1>. QED  BY <1>1, <1>2, <1>3 DEF PrState, State

(* A node that changes the state of the PR, and at most an image beside it, *)
(* keeps the invariant if the new state suits the place where it goes on.  *)
LEMMA BuildStep ==
  ASSUME PrInv, bi <= Len(Work), NEW s \in State, NEW next \in Nodes \union {"summary"},
         Return(s, next), UNCHANGED <<session, choice>>, Stage(s, next)', StoreOK'
  PROVE  PrInv'
<1>1. st' = s /\ pc' = next /\ LoopOK' /\ OutputsOK'
  BY ReturnSets DEF PrInv
<1>2. SessionOK' /\ ChoiceOK'
  BY <1>1 DEF PrInv, Types, SessionOK, session, ChoiceOK, choice, Inside, Nodes
<1>3. Active' /\ Place' = next /\ pc' \notin {"stop", "verdict"}
  BY <1>1 DEF Active, Place, Nodes, Phases
<1>4. StageOK'
  BY <1>1, <1>3 DEF StageOK
<1>. QED  BY <1>1, <1>2, <1>4 DEF PrInv, Types

LEMMA NodeStep ==
  ASSUME PrInv, bi <= Len(Work), NEW s \in State, NEW next \in Nodes \union {"summary"},
         Return(s, next), UNCHANGED <<images, session, choice>>, Stage(s, next)
  PROVE  PrInv'
<1>1. Cur' = Cur /\ args' = args /\ channels' \in [Threads -> State]
  BY ReturnSets DEF PrInv
<1>2. StoreOK'
  BY <1>1 DEF PrInv, Types, StoreOK
<1>3. res' = res /\ mask' = mask /\ images' = images
  BY DEF session, choice
<1>4. Stage(s, next)'
  BY <1>1, <1>3 DEF Stage, Imaged, Manifest, MaskEffective, Ended, EmptyMock
<1>. QED  BY <1>2, <1>4, BuildStep

(* What holds at a node.                                                   *)
LEMMA Here ==
  ASSUME PrInv, Active
  PROVE  bi <= Len(Work) /\ Cur \in PRs /\ st \in State /\ Stage(st, Place)
<1>1. bi <= Len(Work)
  BY DEF PrInv, Types, LoopOK, Active
<1>. QED  BY <1>1, AtHand DEF PrInv, StageOK

LEMMA InferEnvStep == PrInv /\ InferEnv => PrInv'
<1> SUFFICES ASSUME PrInv, InferEnv PROVE PrInv'
  OBVIOUS
<1>1. Active /\ Place = "infer_env"
  BY DEF InferEnv, Active, Place, Phases
<1>2. bi <= Len(Work) /\ Cur \in PRs /\ st \in State /\ st = PrState(Cur, Manifest(Cur))
  BY <1>1, Here DEF Stage
<1>3. PICK framework \in Frameworks, source \in {"repo_dockerfile", "other"}, tests \in BOOLEAN :
        LET s == [st EXCEPT !.source = source, !.framework = framework, !.tests = tests]
        IN Return(s, RouteAfterInferEnv(s))
  BY DEF InferEnv
<1> DEFINE s == [st EXCEPT !.source = source, !.framework = framework, !.tests = tests]
           next == RouteAfterInferEnv(s)
<1>4. s \in State
  <2>1. st \in State
    BY <1>2
  <2>. QED  BY <2>1 DEF State
<1>5. /\ s.pr = Cur /\ s.image = st.image /\ s.dockerfile = FALSE /\ s.compile = "none"
      /\ s.build = (IF s.image = NoTag THEN "none" ELSE "success")
      /\ s.retries = 0 /\ s.rounds = 0 /\ Untried(s) /\ s.source \notin {"none", "failed"}
  BY <1>2 DEF PrState, Untried
<1>6. next = IF s.image # NoTag THEN "compile_verify" ELSE "build_dockerfile"
  BY <1>5 DEF RouteAfterInferEnv
<1>7. s.image # NoTag => Imaged(s)
  <2>1. s.image = Manifest(Cur)
    BY <1>2, <1>5 DEF PrState
  <2>2. s.image # NoTag => args.manifest /\ s.image = Preset[Cur] /\ Preset[Cur] \in Tags
    BY <1>2, <2>1, PipelineTypes DEF Manifest
  <2>. QED  BY <1>2, <2>2 DEF Imaged, PrInv, Types, StoreOK
<1>8. Stage(s, next)
  BY <1>5, <1>6, <1>7 DEF Stage, Inferred, Unbuilt, Early, Built, Checking, Masking, Testing
<1>9. next \in Nodes \union {"summary"} /\ UNCHANGED <<images, session, choice>>
  BY <1>6 DEF Nodes, InferEnv
<1>. QED
  <2> HIDE DEF s, next
  <2>. QED  BY <1>2, <1>3, <1>4, <1>8, <1>9, NodeStep DEF s, next

LEMMA InferEnvFailsStep == PrInv /\ InferEnvFails => PrInv'
<1> SUFFICES ASSUME PrInv, InferEnvFails PROVE PrInv'
  OBVIOUS
<1>1. Active /\ Place = "infer_env"
  BY DEF InferEnvFails, Active, Place, Phases
<1>2. bi <= Len(Work) /\ st \in State /\ st = PrState(Cur, Manifest(Cur))
  BY <1>1, Here DEF Stage
<1> DEFINE s == [st EXCEPT !.source = "failed", !.build = "failed",
                           !.error = Error("infer_env", "infer_env_failed")]
<1>3. s \in State
  <2>1. st \in State
    BY <1>2
  <2>2. Error("infer_env", "infer_env_failed") \in Reason
    BY DEF Error, Reason, ReasonCodes
  <2>. QED  BY <2>1, <2>2 DEF State
<1>4. /\ s.pr = Cur /\ AtBottom(s) /\ s.error.stage = "infer_env" /\ s.source = "failed"
  BY <1>2 DEF PrState, AtBottom, Unbuilt, Early, Untried, Error
<1>5. RouteAfterInferEnv(s) = "summary"
  BY <1>4 DEF RouteAfterInferEnv
<1>6. Stage(s, "summary")
  BY <1>4 DEF Stage, Ended, Checking, Masking, Testing
<1>7. Return(s, "summary") /\ UNCHANGED <<images, session, choice>>
  BY <1>5 DEF InferEnvFails
<1>. QED
  <2> HIDE DEF s
  <2>. QED  BY <1>2, <1>3, <1>6, <1>7, NodeStep

LEMMA BuildDockerfileStep == PrInv /\ BuildDockerfile => PrInv'
<1> SUFFICES ASSUME PrInv, BuildDockerfile PROVE PrInv'
  OBVIOUS
<1>1. Active /\ Place = "build_dockerfile"
  BY DEF BuildDockerfile, Active, Place, Phases
<1>2. /\ bi <= Len(Work) /\ Cur \in PRs /\ st \in State /\ st.pr = Cur /\ Inferred(st)
      /\ st.compile = "none" /\ st.retries = 0 /\ st.rounds = 0
  BY <1>1, Here DEF Stage
<1> DEFINE s == [st EXCEPT !.dockerfile = TRUE, !.image = Tag[st.pr]]
<1>3. Tag[st.pr] \in Tags
  BY <1>2, PipelineTypes
<1>4. s \in State
  <2>1. st \in State
    BY <1>2
  <2>. QED  BY <2>1, <1>3 DEF State
<1>5. /\ s.pr = Cur /\ Rendered(s) /\ s.dockerfile /\ s.image \in Tags
      /\ s.compile = "none" /\ s.source # "failed" /\ s.retries = 0 /\ s.rounds = 0
  BY <1>2, <1>3 DEF State, Rendered, Inferred, Unbuilt, Early, Untried
<1>6. RouteAfterDockerfile(s) = "docker_build"
  BY <1>5 DEF RouteAfterDockerfile
<1>7. Stage(s, "docker_build")
  BY <1>5 DEF Stage, Checking, Masking, Testing
<1>8. /\ Return(s, "docker_build") /\ UNCHANGED <<images, session, choice>>
      /\ "docker_build" \in Nodes \union {"summary"}
  BY <1>6 DEF BuildDockerfile, Nodes
<1>. QED
  <2> HIDE DEF s
  <2>. QED  BY <1>2, <1>4, <1>7, <1>8, NodeStep

LEMMA RenderFailsStep == PrInv /\ RenderFails => PrInv'
<1> SUFFICES ASSUME PrInv, RenderFails PROVE PrInv'
  OBVIOUS
<1>1. Active /\ Place = "build_dockerfile"
  BY DEF RenderFails, Active, Place, Phases
<1>2. bi <= Len(Work) /\ st \in State /\ st.pr = Cur /\ Inferred(st)
  BY <1>1, Here DEF Stage
<1> DEFINE s == [st EXCEPT !.build = "failed",
                    !.error = Error("build_dockerfile", "dockerfile_render_failed")]
<1>3. s \in State
  <2>1. st \in State
    BY <1>2
  <2>2. Error("build_dockerfile", "dockerfile_render_failed") \in Reason
    BY DEF Error, Reason, ReasonCodes
  <2>. QED  BY <2>1, <2>2 DEF State
<1>4. s.pr = Cur /\ Inferred(s) /\ s.error.stage = "build_dockerfile" /\ ~ s.dockerfile
  BY <1>2 DEF State, Inferred, Unbuilt, Early, Untried, Error
<1>5. RouteAfterDockerfile(s) = "summary"
  BY <1>4 DEF RouteAfterDockerfile
<1>6. Stage(s, "summary")
  BY <1>4 DEF Stage, Ended, Checking, Masking, Testing
<1>7. Return(s, "summary") /\ UNCHANGED <<images, session, choice>>
  BY <1>5 DEF RenderFails
<1>. QED
  <2> HIDE DEF s
  <2>. QED  BY <1>2, <1>3, <1>6, <1>7, NodeStep

LEMMA DockerBuildStep == PrInv /\ DockerBuild => PrInv'
<1> SUFFICES ASSUME PrInv, DockerBuild PROVE PrInv'
  OBVIOUS
<1>1. Active /\ Place = "docker_build"
  BY DEF DockerBuild, Active, Place, Phases
<1>2. /\ bi <= Len(Work) /\ Cur \in PRs /\ st \in State /\ st.pr = Cur /\ Rendered(st)
      /\ st.image \in Tags /\ st.source # "failed" /\ st.rounds = 0
  BY <1>1, Here DEF Stage
<1>3. PICK s \in State : s = [st EXCEPT !.build = "success"]
  <2>1. st \in State
    BY <1>2
  <2>. QED  BY <2>1 DEF State
<1>4. /\ s.pr = Cur /\ Built(s) /\ s.image = st.image /\ s.rounds = 0
      /\ s.build = "success" /\ s.source # "failed"
  BY <1>2, <1>3 DEF State, Rendered, Unbuilt, Built, Early, Untried
<1>5. RouteAfterBuild(s) = "compile_verify"
  BY <1>4 DEF RouteAfterBuild
<1>6. /\ Return(s, "compile_verify") /\ UNCHANGED <<session, choice>>
      /\ "compile_verify" \in Nodes \union {"summary"}
      /\ images' = [images EXCEPT ![st.image] = st.pr]
  BY <1>3, <1>5 DEF DockerBuild, Nodes
<1>7. Cur' = Cur /\ args' = args
  BY <1>2, <1>6, ReturnSets DEF PrInv
<1>8. images \in [Tags -> PRs \union {NoPr}] /\ NoPr \notin PRs
  BY PipelineTypes DEF PrInv, Types, StoreOK
<1>9. /\ images' \in [Tags -> PRs \union {NoPr}] /\ images'[s.image] # NoPr
      /\ \A g \in Tags : images[g] # NoPr => images'[g] # NoPr
  BY <1>2, <1>4, <1>6, <1>8
<1>10. StoreOK'
  <2>1. \A p \in PRs : Preset[p] # NoTag => Preset[p] \in Tags
    BY PipelineTypes
  <2>2. channels' \in [Threads -> State]
    BY <1>2, <1>6, ReturnSets DEF PrInv
  <2>. QED  BY <1>7, <1>9, <2>1, <2>2 DEF StoreOK, PrInv, Types
<1>11. Stage(s, "compile_verify")'
  BY <1>2, <1>4, <1>7, <1>9 DEF Stage, Imaged, Checking, Masking, Testing
<1>. QED  BY <1>2, <1>3, <1>6, <1>10, <1>11, BuildStep

LEMMA DockerBuildFailsStep == PrInv /\ DockerBuildFails => PrInv'
<1> SUFFICES ASSUME PrInv, DockerBuildFails PROVE PrInv'
  OBVIOUS
<1>1. Active /\ Place = "docker_build"
  BY DEF DockerBuildFails, Active, Place, Phases
<1>2. /\ bi <= Len(Work) /\ st \in State /\ st.pr = Cur /\ Rendered(st)
      /\ st.image \in Tags /\ st.compile = "none" /\ st.source # "failed"
      /\ st.retries < 3 /\ st.rounds = 0
  BY <1>1, Here DEF Stage
<1> DEFINE s == [st EXCEPT !.build = "failed", !.retries = @ + 1,
                           !.error = Error("docker_build", "docker_build_failed")]
           next == RouteAfterBuild(s)
<1>3. s \in State
  <2>a. st \in State
    BY <1>2
  <2>b. st.retries \in 0..3 /\ st.retries < 3
    BY <1>2, <2>a DEF State
  <2>1. st.retries + 1 \in 0..3
    BY <2>b
  <2>2. Error("docker_build", "docker_build_failed") \in Reason
    BY DEF Error, Reason, ReasonCodes
  <2>. QED  BY <2>a, <2>1, <2>2 DEF State
<1>4. /\ s.pr = Cur /\ Rendered(s) /\ s.dockerfile /\ s.image \in Tags
      /\ s.compile = "none" /\ s.source # "failed" /\ s.rounds = 0
      /\ s.build = "failed" /\ s.error.stage = "docker_build"
  BY <1>2 DEF State, Rendered, Unbuilt, Early, Untried, Error
<1>5. next = IF s.retries < 3 THEN "docker_build" ELSE "summary"
  BY <1>4 DEF RouteAfterBuild
<1>6. Stage(s, next)
  BY <1>4, <1>5 DEF Stage, Ended, Checking, Masking, Testing
<1>7. /\ Return(s, next) /\ UNCHANGED <<images, session, choice>>
      /\ next \in Nodes \union {"summary"}
  BY <1>5 DEF DockerBuildFails, Nodes
<1>. QED
  <2> HIDE DEF s, next
  <2>. QED  BY <1>2, <1>3, <1>6, <1>7, NodeStep

LEMMA NoTestCommandsStep == PrInv /\ NoTestCommands => PrInv'
<1> SUFFICES ASSUME PrInv, NoTestCommands PROVE PrInv'
  OBVIOUS
<1>1. Active /\ Place = "compile_verify"
  BY DEF NoTestCommands, Active, Place, Phases
<1>2. bi <= Len(Work) /\ st \in State /\ st.pr = Cur /\ Built(st)
  BY <1>1, Here DEF Stage, Checking
<1> DEFINE s == [st EXCEPT !.compile = "failed",
                    !.error = Error("compile_verify", "test_framework_unsupported")]
<1>3. s \in State
  <2>1. st \in State
    BY <1>2
  <2>2. Error("compile_verify", "test_framework_unsupported") \in Reason
    BY DEF Error, Reason, ReasonCodes
  <2>. QED  BY <2>1, <2>2 DEF State
<1>4. /\ s.pr = Cur /\ Built(s) /\ s.error.stage = "compile_verify" /\ s.compile = "failed"
  BY <1>2 DEF State, Built, Early, Untried, Error
<1>5. RouteAfterCompile(s) = "summary"
  BY <1>4 DEF RouteAfterCompile
<1>6. Stage(s, "summary")
  BY <1>4 DEF Stage, Ended, Checking, Masking, Testing
<1>7. Return(s, "summary") /\ UNCHANGED <<images, session, choice>>
  BY <1>5 DEF NoTestCommands
<1>. QED
  <2> HIDE DEF s
  <2>. QED  BY <1>2, <1>3, <1>6, <1>7, NodeStep
----------------------------------------------------------------------------
(* What a parser makes of an output: counts are those of a report, or      *)
(* nothing was passed.                                                     *)
LEMMA OutputType ==
  ASSUME NEW out \in Outputs
  PROVE  /\ out.counts \in BOOLEAN /\ out.clean \in BOOLEAN
         /\ out.passed \in Nat /\ out.failed \in Nat /\ out.total \in Nat
         /\ out.passed <= out.total
         /\ ~ out.counts => out.passed = 0 /\ out.failed = 0 /\ out.total = 0
<1>1. CASE \E c \in BOOLEAN : out = Silent(c)
  BY <1>1 DEF Silent
<1>2. CASE \E r \in Reports, c \in BOOLEAN :
             out = [counts |-> TRUE, passed |-> r.passed, failed |-> r.failed,
                    total |-> r.total, clean |-> c]
  <2>1. PICK r \in Reports, c \in BOOLEAN :
             out = [counts |-> TRUE, passed |-> r.passed, failed |-> r.failed,
                    total |-> r.total, clean |-> c]
    BY <1>2
  <2>2. r \in [passed : Nat, failed : Nat, total : Nat] /\ r.passed <= r.total
    BY PipelineTypes
  <2>. QED  BY <2>1, <2>2
<1>. QED  BY <1>1, <1>2 DEF Outputs

LEMMA SilentOutput == \A c \in BOOLEAN : Silent(c) \in Outputs /\ ~ Silent(c).counts
<1>1. \A c \in BOOLEAN : Silent(c) \in Outputs
  <2>1. \A c \in BOOLEAN : Silent(c) \in {Silent(d) : d \in BOOLEAN}
    BY Zenon
  <2>2. \A x : x \in {Silent(d) : d \in BOOLEAN} => x \in Outputs
    BY DEF Outputs
  <2>. QED  BY <2>1, <2>2, Zenon
<1>2. \A c \in BOOLEAN : ~ Silent(c).counts
  BY DEF Silent
<1>. QED  BY <1>1, <1>2

LEMMA NoiseOutput == Noise \in Outputs /\ ~ Noise.counts
<1>1. PICK c \in BOOLEAN : Noise = Silent(c)
  BY Zenon DEF Noise
<1>. QED  BY <1>1, SilentOutput

LEMMA ParsedType ==
  ASSUME NEW out \in Outputs, NEW none \in {0, -1}, NEW compile \in BOOLEAN,
         NEW exit \in {0, 1, -1}
  PROVE  LET r == Parsed(out, none, compile, exit) IN
         /\ r \in Result /\ r.exit = exit /\ r.compile = compile
         /\ out.counts => r.passed = out.passed /\ r.failed = out.failed /\ r.total = out.total
         /\ ~ out.counts => r.passed = none /\ r.failed = none /\ r.total = none
<1>1. out.passed \in Nat /\ out.failed \in Nat /\ out.total \in Nat
  BY OutputType
<1> DEFINE count(n) == IF out.counts THEN n ELSE none
           r == Parsed(out, none, compile, exit)
<1>2. \A n \in Nat : count(n) \in Nat \union {-1}
  OBVIOUS
<1>3. r = [NoResult EXCEPT !.passed = count(out.passed), !.failed = count(out.failed),
                           !.total = count(out.total), !.compile = compile, !.exit = exit]
  BY DEF Parsed
<1>4. r = [of |-> NoPr, reached |-> "none", passed |-> count(out.passed),
           failed |-> count(out.failed), total |-> count(out.total),
           compile |-> compile, exit |-> exit]
  BY <1>3 DEF NoResult
<1>5. /\ count(out.passed) \in Nat \union {-1} /\ count(out.failed) \in Nat \union {-1}
      /\ count(out.total) \in Nat \union {-1}
  BY <1>1, <1>2
<1>6. r \in Result
  <2> HIDE DEF r, count
  <2>. QED  BY <1>4, <1>5 DEF Result
<1>. QED  BY <1>4, <1>6

(* The three parsers agree in what matters here.                           *)
LEMMA ParseType ==
  ASSUME NEW framework \in Frameworks \union {"generic"}, NEW out \in Outputs,
         NEW exit \in {0, 1, -1}
  PROVE  LET r == Parse(framework, out, exit) IN
         /\ r \in Result /\ r.exit = exit
         /\ framework # "generic" => r.passed >= 0
         /\ r.total > 0 => /\ out.counts /\ r.passed = out.passed /\ r.total = out.total
                           /\ r.passed \in 0..r.total /\ r.failed >= 0
         /\ ~ out.counts => r.passed <= 0
<1> DEFINE r == Parse(framework, out, exit)
<1>1. /\ out.counts \in BOOLEAN /\ out.clean \in BOOLEAN
      /\ out.passed \in Nat /\ out.failed \in Nat /\ out.total \in Nat
      /\ out.passed <= out.total
  BY OutputType
<1>2. framework \in {"pytest", "go_test", "generic"}
  BY PipelineTypes
<1>3. CASE framework = "pytest"
  <2>1. r = Parsed(out, 0, out.clean, exit)
    BY <1>3 DEF Parse, PytestParser
  <2>2. /\ r \in Result /\ r.exit = exit
        /\ out.counts => r.passed = out.passed /\ r.failed = out.failed /\ r.total = out.total
        /\ ~ out.counts => r.passed = 0 /\ r.failed = 0 /\ r.total = 0
    BY <1>1, <2>1, ParsedType
  <2> HIDE DEF r
  <2>. QED  BY <1>1, <2>2 DEF r
<1>4. CASE framework = "go_test"
  <2>1. CASE out.clean
    <3>1. PICK c \in BOOLEAN : r = Parsed(out, 0, c, exit)
      BY <1>4, <2>1, Zenon DEF Parse, GoParser
    <3>2. /\ r \in Result /\ r.exit = exit
          /\ out.counts => r.passed = out.passed /\ r.failed = out.failed /\ r.total = out.total
          /\ ~ out.counts => r.passed = 0 /\ r.failed = 0 /\ r.total = 0
      BY <3>1, ParsedType
    <3> HIDE DEF r
    <3>. QED  BY <1>1, <3>2 DEF r
  <2>2. CASE ~ out.clean
    <3>1. PICK c \in BOOLEAN, d \in BOOLEAN : r = Parsed(Silent(c), 0, d, exit)
      BY <1>4, <2>2, Zenon DEF Parse, GoParser
    <3>2. Silent(c) \in Outputs /\ ~ Silent(c).counts
      BY SilentOutput
    <3>3. r \in Result /\ r.exit = exit /\ r.passed = 0 /\ r.total = 0
      BY <3>1, <3>2, ParsedType
    <3> HIDE DEF r
    <3>. QED  BY <3>3 DEF r
  <2>. QED  BY <2>1, <2>2
<1>5. CASE framework = "generic"
  <2>1. PICK c \in BOOLEAN : r = Parsed(out, -1, c, exit)
    BY <1>5, Zenon DEF Parse, GenericParser
  <2>2. /\ r \in Result /\ r.exit = exit
        /\ out.counts => r.passed = out.passed /\ r.failed = out.failed /\ r.total = out.total
        /\ ~ out.counts => r.passed = -1 /\ r.failed = -1 /\ r.total = -1
    BY <2>1, ParsedType
  <2> HIDE DEF r
  <2>. QED  BY <1>1, <1>5, <2>2 DEF r
<1>. QED  BY <1>2, <1>3, <1>4, <1>5
----------------------------------------------------------------------------
(* A step within a session keeps the invariant if its result suits.        *)
LEMMA PhaseStep ==
  ASSUME PrInv, pc \in Phases, NEW next \in Phases, Phase(next),
         container' \in PRs \union {NoPr}, next \in Inside => container' \in PRs,
         leaked' \subseteq PRs, res' \in Result,
         next \in {"stop", "verdict"} => Outcome(res', st.framework) /\ res'.reached # "none"
  PROVE  PrInv'
<1>1. /\ pc' = next /\ args' = args /\ bi' = bi /\ kills' = kills /\ channels' = channels
      /\ images' = images /\ use' = use /\ mask' = mask /\ ranges' = ranges
      /\ attempt' = attempt /\ lines' = lines /\ items' = items
  BY DEF Phase, loop, choice, outputs
<1>2. Work' = Work /\ Cur' = Cur /\ st' = st
  BY <1>1 DEF Work, Cur, st
<1>3. LoopOK'
  BY <1>1, <1>2 DEF PrInv, Types, LoopOK, Phases
<1>4. StoreOK' /\ SessionOK' /\ ChoiceOK' /\ OutputsOK'
  BY <1>1 DEF PrInv, Types, StoreOK, SessionOK, ChoiceOK, OutputsOK
<1>5. Active /\ Active' /\ Place = use /\ Place' = use
  BY <1>1 DEF Active, Place, Phases
<1>6. Stage(st, use)
  BY <1>5 DEF PrInv, StageOK
<1>7. use # "context" /\ use # "infer_env"
  BY DEF PrInv, Types, SessionOK
<1>8. Stage(st, use)'
  BY <1>1, <1>2, <1>6, <1>7 DEF Stage, Imaged, Manifest, MaskEffective, Ended, EmptyMock
<1>9. StageOK'
  BY <1>1, <1>2, <1>5, <1>8 DEF StageOK
<1>. QED  BY <1>3, <1>4, <1>9 DEF PrInv, Types

(* In a session the tag of the PR names an image.                          *)
LEMMA InSession ==
  ASSUME PrInv, pc \in Phases
  PROVE  /\ bi <= Len(Work) /\ Cur \in PRs /\ st \in State /\ Place = use /\ Stage(st, use)
         /\ st.framework \in Frameworks \union {"generic"}
         /\ st.image \in Tags /\ images[st.image] \in PRs
         /\ container \in PRs \union {NoPr} /\ leaked \subseteq PRs /\ res \in Result
         /\ pc \in Inside => container \in PRs
<1>1. Active /\ Place = use
  BY DEF Active, Place, Phases
<1>2. bi <= Len(Work) /\ Cur \in PRs /\ st \in State /\ Stage(st, use)
  BY <1>1, Here
<1>3. /\ use \in {"baseline", "mask", "truth", "code"}
      /\ container \in PRs \union {NoPr} /\ leaked \subseteq PRs /\ res \in Result
      /\ pc \in Inside => container \in PRs
  BY DEF PrInv, Types, SessionOK
<1>4. Imaged(st)
  BY <1>2, <1>3 DEF Stage, Checking, Masking, Testing
<1>5. images[st.image] \in PRs
  BY <1>4 DEF Imaged, PrInv, Types, StoreOK
<1>6. st.framework \in Frameworks \union {"generic"}
  BY <1>2 DEF State
<1>. QED  BY <1>1, <1>2, <1>3, <1>4, <1>5, <1>6 DEF Imaged

LEMMA RunContainerStep == PrInv /\ RunContainer => PrInv'
<1> SUFFICES ASSUME PrInv, RunContainer PROVE PrInv'
  OBVIOUS
<1>1. pc \in Phases
  BY DEF RunContainer, Phases
<1>2. PICK next \in {"build", "inject"} : Phase(next)
  BY DEF RunContainer
<1>3. /\ container' \in PRs /\ leaked' \subseteq PRs /\ res' \in Result
      /\ next \in Phases /\ next \notin {"stop", "verdict"}
  BY <1>1, InSession DEF RunContainer, Phases
<1>. QED  BY <1>1, <1>2, <1>3, PhaseStep

(* A session that ran nothing, and one that ended before the tests.        *)
LEMMA QuietParse ==
  ASSUME NEW framework \in Frameworks \union {"generic"}, NEW exit \in {1, -1},
         NEW p \in PRs \union {NoPr}
  PROVE  /\ Outcome([Parse(framework, Noise, exit) EXCEPT !.of = p, !.reached = "run"], framework)
         /\ Outcome([[Parse(framework, Noise, exit) EXCEPT !.compile = FALSE]
                        EXCEPT !.of = p, !.reached = "inject"], framework)
<1>1. PICK r : r = Parse(framework, Noise, exit)
  OBVIOUS
<1>2. /\ r \in Result
      /\ framework # "generic" => r.passed >= 0
      /\ ~ (r.total > 0) /\ r.passed <= 0
  <2>1. exit \in {0, 1, -1}
    OBVIOUS
  <2>. QED  BY <1>1, <2>1, NoiseOutput, ParseType
<1>3. Outcome([r EXCEPT !.of = p, !.reached = "run"], framework)
  <2>1. PICK u : u = [r EXCEPT !.of = p, !.reached = "run"]
    OBVIOUS
  <2>2. r \in Result
    BY <1>2
  <2>3. u \in Result
    BY <2>1, <2>2 DEF Result
  <2>4. u.reached = "run" /\ u.passed = r.passed /\ u.total = r.total
    BY <2>1, <2>2 DEF Result
  <2>. QED  BY <1>2, <2>1, <2>3, <2>4 DEF Outcome
<1>4. Outcome([[r EXCEPT !.compile = FALSE] EXCEPT !.of = p, !.reached = "inject"], framework)
  <2>1. PICK u : u = [[r EXCEPT !.compile = FALSE] EXCEPT !.of = p, !.reached = "inject"]
    OBVIOUS
  <2>2. r \in Result
    BY <1>2
  <2>3. u \in Result
    BY <2>1, <2>2 DEF Result
  <2>4. /\ u.reached = "inject" /\ u.passed = r.passed /\ u.total = r.total
        /\ ~ u.compile
    BY <2>1, <2>2 DEF Result
  <2>. QED  BY <1>2, <2>1, <2>3, <2>4 DEF Outcome
<1>. QED  BY <1>1, <1>3, <1>4

LEMMA BrokenOutcome ==
  ASSUME NEW framework, NEW exit \in {1, -1}, NEW p \in PRs \union {NoPr},
         NEW how \in {"inject", "build"}
  PROVE  Outcome([Broken(exit) EXCEPT !.of = p, !.reached = how], framework)
<1>1. PICK u : u = [Broken(exit) EXCEPT !.of = p, !.reached = how]
  OBVIOUS
<1>2. u = [of |-> p, reached |-> how, passed |-> 0, failed |-> 0,
           total |-> 0, compile |-> FALSE, exit |-> exit]
  BY <1>1 DEF Broken, NoResult
<1>3. u \in Result
  BY <1>2 DEF Result
<1>4. u.reached = how /\ u.passed = 0 /\ u.total = 0 /\ u.compile = FALSE
  BY <1>2
<1>5. Outcome(u, framework)
  BY <1>3, <1>4 DEF Outcome
<1>. QED  BY <1>1, <1>5

LEMMA RunFailsStep == PrInv /\ RunFails => PrInv'
<1> SUFFICES ASSUME PrInv, RunFails PROVE PrInv'
  OBVIOUS
<1>1. pc \in Phases /\ "verdict" \in Phases /\ Phase("verdict")
  BY DEF RunFails, Phases
<1>2. PICK exit \in {1, -1} :
         /\ res' = Seen(Parse(st.framework, Noise, exit), "run")
         /\ leaked' \in {leaked} \union
                       (IF exit = -1 THEN {leaked \union {images[st.image]}} ELSE {})
  BY DEF RunFails
<1>3. leaked' \subseteq PRs
  BY <1>1, <1>2, InSession
<1>4. res' = [Parse(st.framework, Noise, exit) EXCEPT !.of = container, !.reached = "run"]
  BY <1>2 DEF Seen
<1>5. Outcome(res', st.framework)
  BY <1>1, <1>4, InSession, QuietParse
<1>6. res' \in Result
  BY <1>5 DEF Outcome
<1>7. res'.reached # "none"
  <2>1. Parse(st.framework, Noise, exit) \in Result
    <3>1. exit \in {0, 1, -1}
      OBVIOUS
    <3>. QED  BY <1>1, <3>1, InSession, NoiseOutput, ParseType
  <2>. QED  BY <1>4, <2>1 DEF Result
<1>8. container' \in PRs \union {NoPr} /\ "verdict" \notin Inside
  BY <1>1, InSession DEF RunFails, Inside
<1>. QED  BY <1>1, <1>3, <1>5, <1>6, <1>7, <1>8, PhaseStep

LEMMA InjectStep == PrInv /\ (Inject \/ RunBuildCmds) => PrInv'
<1> SUFFICES ASSUME PrInv, Inject \/ RunBuildCmds PROVE PrInv'
  OBVIOUS
<1>1. pc \in Phases /\ pc \in Inside
  BY DEF Inject, RunBuildCmds, Phases, Inside
<1>2. PICK next \in {"build", "test"} : Phase(next)
  BY DEF Inject, RunBuildCmds
<1>3. /\ container' \in PRs /\ leaked' \subseteq PRs /\ res' \in Result
      /\ next \in Phases /\ next \notin {"stop", "verdict"}
  BY <1>1, InSession DEF Inject, RunBuildCmds, Phases
<1>. QED  BY <1>1, <1>2, <1>3, PhaseStep

(* The steps that end in docker stop.                                      *)
LEMMA StopStep ==
  ASSUME PrInv, pc \in Inside, Phase("stop"), UNCHANGED <<container, leaked>>,
         Outcome(res', st.framework), res'.reached # "none"
  PROVE  PrInv'
<1>1. pc \in Phases /\ "stop" \in Phases
  BY DEF Phases, Inside
<1>2. container' \in PRs /\ leaked' \subseteq PRs
  BY <1>1, InSession
<1>3. res' \in Result
  BY DEF Outcome
<1>. QED  BY <1>1, <1>2, <1>3, PhaseStep

LEMMA InjectFailsStep == PrInv /\ InjectFails => PrInv'
<1> SUFFICES ASSUME PrInv, InjectFails PROVE PrInv'
  OBVIOUS
<1>1. pc \in Phases /\ pc \in Inside
  BY DEF InjectFails, Phases, Inside
<1>2. PICK exit \in {1, -1} :
         res' = Seen(IF use = "code"
                     THEN [Parse(st.framework, Noise, exit) EXCEPT !.compile = FALSE]
                     ELSE Broken(exit), "inject")
  BY DEF InjectFails
<1>3. container \in PRs /\ st.framework \in Frameworks \union {"generic"}
  BY <1>1, InSession
<1>4. Outcome(res', st.framework) /\ res'.reached = "inject"
  <2>1. CASE use = "code"
    <3>1. res' = [[Parse(st.framework, Noise, exit) EXCEPT !.compile = FALSE]
                     EXCEPT !.of = container, !.reached = "inject"]
      BY <1>2, <2>1 DEF Seen
    <3>2. Outcome(res', st.framework)
      BY <1>3, <3>1, QuietParse
    <3>3. exit \in {0, 1, -1}
      OBVIOUS
    <3>4. Parse(st.framework, Noise, exit) \in Result
      BY <1>3, <3>3, NoiseOutput, ParseType
    <3>5. res'.reached = "inject"
      BY <3>1, <3>4 DEF Result
    <3>. QED  BY <3>2, <3>5
  <2>2. CASE use # "code"
    <3>1. res' = [Broken(exit) EXCEPT !.of = container, !.reached = "inject"]
      BY <1>2, <2>2 DEF Seen
    <3>2. Outcome(res', st.framework)
      BY <1>3, <3>1, BrokenOutcome
    <3>3. res'.reached = "inject"
      BY <3>1 DEF Broken, NoResult
    <3>. QED  BY <3>2, <3>3
  <2>. QED  BY <2>1, <2>2
<1>. QED  BY <1>1, <1>4, StopStep DEF InjectFails

LEMMA BuildCmdsFailStep == PrInv /\ BuildCmdsFail => PrInv'
<1> SUFFICES ASSUME PrInv, BuildCmdsFail PROVE PrInv'
  OBVIOUS
<1>1. pc \in Phases /\ pc \in Inside
  BY DEF BuildCmdsFail, Phases, Inside
<1>2. PICK exit \in {1, -1} : res' = Seen(Broken(exit), "build")
  BY DEF BuildCmdsFail
<1>3. container \in PRs
  BY <1>1, InSession
<1>4. res' = [Broken(exit) EXCEPT !.of = container, !.reached = "build"]
  BY <1>2 DEF Seen
<1>5. Outcome(res', st.framework)
  BY <1>3, <1>4, BrokenOutcome
<1>6. res'.reached = "build"
  BY <1>4 DEF Broken, NoResult
<1>. QED  BY <1>1, <1>5, <1>6, StopStep DEF BuildCmdsFail

LEMMA RunTestCmdsStep == PrInv /\ RunTestCmds => PrInv'
<1> SUFFICES ASSUME PrInv, RunTestCmds PROVE PrInv'
  OBVIOUS
<1>1. pc \in Phases /\ pc \in Inside
  BY DEF RunTestCmds, Phases, Inside
<1>2. PICK out \in Outputs, exit \in {0, 1, -1} :
         /\ Plausible(st.framework, out, exit)
         /\ res' = Seen([Parse(st.framework, out, exit)
                           EXCEPT !.compile = @ \/ use # "baseline"], "tests")
  BY DEF RunTestCmds
<1>3. container \in PRs /\ st.framework \in Frameworks \union {"generic"}
  BY <1>1, InSession
<1>4. PICK r : r = Parse(st.framework, out, exit)
  OBVIOUS
<1>5. /\ r \in Result /\ r.exit = exit
      /\ st.framework # "generic" => r.passed >= 0
      /\ r.total > 0 => /\ out.counts /\ r.passed = out.passed /\ r.total = out.total
                        /\ r.passed \in 0..r.total /\ r.failed >= 0
  BY <1>3, <1>4, ParseType
<1>6. PICK c \in BOOLEAN :
         res' = [[r EXCEPT !.compile = c] EXCEPT !.of = container, !.reached = "tests"]
  <2>1. (r.compile \/ use # "baseline") \in BOOLEAN
    OBVIOUS
  <2>2. res' = [[r EXCEPT !.compile = (r.compile \/ use # "baseline")]
                   EXCEPT !.of = container, !.reached = "tests"]
    BY <1>2, <1>4, Zenon DEF Seen
  <2>. QED  BY <2>1, <2>2, Zenon
<1>7. r \in Result
  BY <1>5
<1>8. res' \in Result
  BY <1>3, <1>6, <1>7 DEF Result
<1>9. /\ res'.reached = "tests" /\ res'.passed = r.passed /\ res'.failed = r.failed
      /\ res'.total = r.total /\ res'.exit = r.exit
  BY <1>6, <1>7 DEF Result
<1>10. r.total > 0 /\ r.exit = 0 /\ st.framework # "go_test" => r.passed = r.total
  BY <1>2, <1>5 DEF Plausible
<1>11. Outcome(res', st.framework)
  BY <1>5, <1>8, <1>9, <1>10 DEF Outcome
<1>. QED  BY <1>1, <1>9, <1>11, StopStep DEF RunTestCmds

LEMMA StopContainerStep == PrInv /\ StopContainer => PrInv'
<1> SUFFICES ASSUME PrInv, StopContainer PROVE PrInv'
  OBVIOUS
<1>1. pc \in Phases /\ pc \in Inside /\ "verdict" \in Phases /\ "verdict" \notin Inside
  BY DEF StopContainer, Phases, Inside
<1>2. /\ Phase("verdict") /\ container' = NoPr /\ res' = res
      /\ leaked' \subseteq leaked \union {container}
  BY DEF StopContainer
<1>3. leaked' \subseteq PRs /\ res' \in Result
  BY <1>1, <1>2, InSession
<1>4. Outcome(res', st.framework) /\ res'.reached # "none"
  BY <1>2 DEF PrInv, StageOK, StopContainer
<1>. QED  BY <1>1, <1>2, <1>3, <1>4, PhaseStep

LEMMA SessionStep == PrInv /\ Session => PrInv'
BY RunContainerStep, RunFailsStep, InjectStep, InjectFailsStep, BuildCmdsFailStep,
   RunTestCmdsStep, StopContainerStep DEF Session
----------------------------------------------------------------------------
(* What a place says of a state does not change with the program counter.  *)
LEMMA StageKept ==
  ASSUME UNCHANGED <<loop, channels, images>>, NEW at, at \notin {"truth", "context"},
         Stage(st, at)
  PROVE  Stage(st, at)'
<1>1. /\ args' = args /\ bi' = bi /\ images' = images /\ Work' = Work /\ Cur' = Cur
      /\ st' = st
  BY DEF loop, Work, Cur, st
<1>. QED  BY <1>1 DEF Stage, Imaged, Manifest, Ended, EmptyMock

(* A step that leaves the state of the PR as it is keeps the invariant if  *)
(* that state suits the place where it goes on.                            *)
LEMMA MoveStep ==
  ASSUME PrInv, Active, UNCHANGED <<loop, channels, images, container, leaked, outputs>>,
         NEW next \in Nodes \union {"run"}, pc' = next,
         use' \in {"baseline", "mask", "truth", "code"}, res' \in Result, ChoiceOK',
         NEW at, at = (IF next = "run" THEN use' ELSE next), Stage(st, at)'
  PROVE  PrInv'
<1>1. /\ args' = args /\ bi' = bi /\ kills' = kills /\ channels' = channels
      /\ images' = images /\ lines' = lines /\ items' = items /\ Work' = Work
  BY DEF loop, outputs, Work
<1>2. LoopOK'
  BY <1>1 DEF PrInv, Types, LoopOK, Phases, Active
<1>3. StoreOK' /\ OutputsOK'
  BY <1>1 DEF PrInv, Types, StoreOK, OutputsOK
<1>4. SessionOK'
  BY DEF PrInv, Types, SessionOK, Inside, Nodes
<1>5. Place' = at /\ pc' \notin {"stop", "verdict"}
  BY DEF Place, Phases, Nodes
<1>6. StageOK'
  <2>1. Stage(st, Place)'
    BY <1>5
  <2>. QED  BY <1>5, <2>1 DEF StageOK
<1>. QED  BY <1>2, <1>3, <1>4, <1>6 DEF PrInv, Types

LEMMA StartBaselineStep == PrInv /\ StartBaseline => PrInv'
<1> SUFFICES ASSUME PrInv, StartBaseline PROVE PrInv'
  OBVIOUS
<1>1. Active /\ Place = "compile_verify"
  BY DEF StartBaseline, Active, Place, Phases
<1>2. Stage(st, "baseline")
  BY <1>1, Here DEF Stage, Checking, Masking, Testing
<1>3. UNCHANGED <<loop, channels, images, container, leaked, outputs>>
  BY DEF StartBaseline, Enter
<1>4. Stage(st, "baseline")'
  BY <1>2, <1>3, StageKept
<1>5. pc' = "run" /\ use' = "baseline" /\ res' = NoResult
  BY DEF StartBaseline, Enter
<1>6. NoResult \in Result
  BY DEF NoResult, Result
<1>7. ChoiceOK'
  BY DEF StartBaseline, choice, PrInv, Types, ChoiceOK
<1>. QED  BY <1>1, <1>3, <1>4, <1>5, <1>6, <1>7, MoveStep

LEMMA TryMaskStep == PrInv /\ TryMask => PrInv'
<1> SUFFICES ASSUME PrInv, TryMask PROVE PrInv'
  OBVIOUS
<1>1. Active /\ Place = "mask"
  BY DEF TryMask, Active, Place, Phases
<1>2. Stage(st, "mask")
  BY <1>1, Here
<1>3. UNCHANGED <<loop, channels, images, container, leaked, outputs>>
  BY DEF TryMask, Enter
<1>4. Stage(st, "mask")'
  BY <1>2, <1>3, StageKept
<1>5. pc' = "run" /\ use' = "mask" /\ res' = NoResult
  BY DEF TryMask, Enter
<1>6. NoResult \in Result
  BY DEF NoResult, Result
<1>7. ChoiceOK'
  BY DEF TryMask, choice, PrInv, Types, ChoiceOK
<1>. QED  BY <1>1, <1>3, <1>4, <1>5, <1>6, <1>7, MoveStep

LEMMA RunTestsStep == PrInv /\ RunTests => PrInv'
<1> SUFFICES ASSUME PrInv, RunTests PROVE PrInv'
  OBVIOUS
<1>1. Active /\ Place = "run_tests"
  BY DEF RunTests, Active, Place, Phases
<1>2. Stage(st, "code")
  BY <1>1, Here DEF Stage, Checking, Masking, Testing
<1>3. UNCHANGED <<loop, channels, images, container, leaked, outputs>>
  BY DEF RunTests, Enter
<1>4. Stage(st, "code")'
  BY <1>2, <1>3, StageKept
<1>5. pc' = "run" /\ use' = "code" /\ res' = NoResult
  BY DEF RunTests, Enter
<1>6. NoResult \in Result
  BY DEF NoResult, Result
<1>7. ChoiceOK'
  BY DEF RunTests, choice, PrInv, Types, ChoiceOK
<1>. QED  BY <1>1, <1>3, <1>4, <1>5, <1>6, <1>7, MoveStep

(* A verdict finds the session's result, of the place it was for.          *)
LEMMA AtVerdict ==
  ASSUME PrInv, NEW u, Verdict(u)
  PROVE  /\ bi <= Len(Work) /\ Cur \in PRs /\ st \in State /\ Active /\ Stage(st, u)
         /\ Outcome(res, st.framework) /\ res \in Result /\ res.reached # "none"
<1>1. Active /\ Place = u /\ pc = "verdict"
  BY DEF Verdict, Active, Place, Phases
<1>. QED  BY <1>1, Here DEF PrInv, StageOK, Outcome

(* construct_task gives up: the baseline stays, the error is its own.      *)
LEMMA NoTaskForStep ==
  ASSUME PrInv, Active, Place \in Masking, NEW reason \in ReasonCodes, NoTaskFor(reason),
         UNCHANGED <<images, session, choice>>
  PROVE  PrInv'
<1>1. /\ bi <= Len(Work) /\ st \in State /\ st.pr = Cur /\ Verified(st)
      /\ ~ args.stage2_only
  BY Here DEF Stage
<1> DEFINE s == [st EXCEPT !.task = NoTask, !.error = Error("construct_task", reason)]
<1>2. s \in State
  <2>1. st \in State
    BY <1>1
  <2>2. Error("construct_task", reason) \in Reason
    BY DEF Error, Reason
  <2>3. NoTask \in Task
    BY DEF NoTask, Task, NoResult, Result
  <2>. QED  BY <2>1, <2>2, <2>3 DEF State
<1>3. s.pr = Cur /\ Verified(s) /\ s.error.stage = "construct_task" /\ s.task = NoTask
  BY <1>1 DEF State, Verified, Untried, Error
<1>4. RouteAfterConstructTask(s) = "summary"
  BY <1>3 DEF RouteAfterConstructTask
<1>5. Stage(s, "summary")
  BY <1>1, <1>3 DEF Stage, Ended, Checking, Masking, Testing
<1>6. Return(s, "summary")
  BY <1>4 DEF NoTaskFor
<1>. QED
  <2> HIDE DEF s
  <2>. QED  BY <1>1, <1>2, <1>5, <1>6, NodeStep

LEMMA ConstructTaskStep == PrInv /\ ConstructTask => PrInv'
<1> SUFFICES ASSUME PrInv, ConstructTask PROVE PrInv'
  OBVIOUS
<1>1. Active /\ Place = "construct_task" /\ Place \in Masking
  BY DEF ConstructTask, Active, Place, Phases, Masking
<1>2. CASE ranges' \in 1..MaxRanges /\ attempt' = 1 /\ pc' = "mask"
             /\ UNCHANGED <<loop, channels, mask, outputs>>
  <2>1. Stage(st, "mask")
    BY <1>1, Here DEF Stage, Checking, Masking, Testing
  <2>2. UNCHANGED <<loop, channels, images, session, outputs>>
    BY <1>2 DEF ConstructTask
  <2>3. Stage(st, "mask")'
    BY <2>1, <2>2, StageKept
  <2>4. ChoiceOK'
    BY <1>2, PipelineTypes DEF PrInv, Types, ChoiceOK
  <2>5. use' \in {"baseline", "mask", "truth", "code"} /\ res' \in Result
    BY <2>2 DEF session, PrInv, Types, SessionOK
  <2>. QED  BY <1>1, <1>2, <2>2, <2>3, <2>4, <2>5, MoveStep DEF session, Nodes
<1>3. CASE \E reason \in {"patch_unavailable", "no_interop_signal", "target_file_missing",
                           "baseline_unavailable"} : NoTaskFor(reason) /\ UNCHANGED choice
  BY <1>1, <1>3, NoTaskForStep DEF ConstructTask, ReasonCodes
<1>. QED  BY <1>2, <1>3 DEF ConstructTask

LEMMA MaskFailsStep == PrInv /\ MaskFails => PrInv'
<1> SUFFICES ASSUME PrInv, MaskFails PROVE PrInv'
  OBVIOUS
<1>1. Verdict("mask") /\ Stage(st, "mask") /\ Active /\ Place \in Masking
  BY AtVerdict DEF MaskFails, Verdict, Place, Phases, Masking
<1>2. PICK reason \in {"mask_breaks_compilation", "mask_ineffective"} : NextRange(reason)
  BY DEF MaskFails
<1>3. CASE NoTaskFor(reason) /\ UNCHANGED choice
  BY <1>1, <1>3, NoTaskForStep DEF MaskFails, ReasonCodes
<1>4. CASE /\ attempt < ranges /\ attempt' = attempt + 1 /\ pc' = "mask"
           /\ UNCHANGED <<loop, channels, ranges, mask, outputs>>
  <2>1. UNCHANGED <<loop, channels, images, session, outputs>>
    BY <1>4 DEF MaskFails
  <2>2. Stage(st, "mask")'
    BY <1>1, <2>1, StageKept
  <2>3. ChoiceOK'
    BY <1>4, PipelineTypes DEF PrInv, Types, ChoiceOK
  <2>4. use' \in {"baseline", "mask", "truth", "code"} /\ res' \in Result
    BY <2>1 DEF session, PrInv, Types, SessionOK
  <2>. QED  BY <1>1, <1>4, <2>1, <2>2, <2>3, <2>4, MoveStep DEF session, Nodes
<1>. QED  BY <1>2, <1>3, <1>4 DEF NextRange

LEMMA MaskWorksStep == PrInv /\ MaskWorks => PrInv'
<1> SUFFICES ASSUME PrInv, MaskWorks PROVE PrInv'
  OBVIOUS
<1>1. /\ Verdict("mask") /\ Stage(st, "mask") /\ Active /\ st \in State /\ res \in Result
      /\ Outcome(res, st.framework)
  BY AtVerdict DEF MaskWorks
<1>2. /\ UNCHANGED <<loop, channels, images, container, leaked, outputs>>
      /\ pc' = "run" /\ use' = "truth" /\ res' = NoResult
      /\ mask' = res /\ ranges' = ranges /\ attempt' = attempt
  BY DEF MaskWorks, Enter
<1>3. args' = args /\ images' = images /\ Cur' = Cur /\ st' = st
  BY <1>2 DEF loop, Work, Cur, st
<1>4. Outcome(mask', st.framework) /\ mask'.passed < st.baseline.passed
  BY <1>1, <1>2 DEF MaskWorks
<1>5. Stage(st, "truth")'
  BY <1>1, <1>3, <1>4 DEF Stage, Imaged, MaskEffective, Checking, Masking, Testing
<1>6. NoResult \in Result
  BY DEF NoResult, Result
<1>7. ChoiceOK'
  BY <1>1, <1>2 DEF PrInv, Types, ChoiceOK
<1>. QED  BY <1>1, <1>2, <1>5, <1>6, <1>7, MoveStep

LEMMA TruthFailsStep == PrInv /\ TruthFails => PrInv'
<1> SUFFICES ASSUME PrInv, TruthFails PROVE PrInv'
  OBVIOUS
<1>1. Active /\ Place \in Masking
  BY DEF TruthFails, Verdict, Active, Place, Phases, Masking
<1>. QED  BY <1>1, NoTaskForStep DEF TruthFails, ReasonCodes

LEMMA TruthHoldsStep == PrInv /\ TruthHolds => PrInv'
<1> SUFFICES ASSUME PrInv, TruthHolds PROVE PrInv'
  OBVIOUS
<1>1. /\ Stage(st, "truth") /\ Active /\ res \in Result
      /\ Outcome(res, st.framework) /\ res.reached # "none"
  BY AtVerdict DEF TruthHolds
<1>2. /\ UNCHANGED <<loop, channels, images, use, choice, outputs, container, leaked, res>>
      /\ pc' = "context"
  BY DEF TruthHolds, Phase
<1>3. args' = args /\ images' = images /\ Cur' = Cur /\ st' = st /\ mask' = mask /\ res' = res
  BY <1>2 DEF loop, choice, Work, Cur, st
<1>4. res.compile /\ res.passed = st.baseline.passed
  BY DEF TruthHolds
<1>5. Stage(st, "context")'
  BY <1>1, <1>3, <1>4 DEF Stage, Imaged, MaskEffective, Checking, Masking, Testing
<1>6. ChoiceOK' /\ use' \in {"baseline", "mask", "truth", "code"} /\ res' \in Result
  BY <1>1, <1>2 DEF choice, PrInv, Types, ChoiceOK, SessionOK
<1>. QED  BY <1>1, <1>2, <1>5, <1>6, MoveStep DEF Nodes
----------------------------------------------------------------------------
(* compile_verify's verdict: the baseline is accepted, or there is another *)
(* round, or the PR has its error.                                         *)
LEMMA RejectType ==
  ASSUME NEW s \in State, NEW reason \in ReasonCodes
  PROVE  LET r == Reject(s, reason) IN
         /\ r \in State /\ r.pr = s.pr /\ r.image = s.image /\ r.rounds = s.rounds
         /\ r.compile = "failed" /\ r.error.stage = "compile_verify"
         /\ Built(s) => Built(r)
         /\ Reject(s, reason) = [s EXCEPT !.compile = "failed",
                                         !.error = Error("compile_verify", reason)]
<1>1. Error("compile_verify", reason) \in Reason
  BY DEF Error, Reason
<1>2. s \in State
  OBVIOUS
<1>3. PICK r : r = Reject(s, reason)
  OBVIOUS
<1>4. r = [s EXCEPT !.compile = "failed", !.error = Error("compile_verify", reason)]
  BY <1>3 DEF Reject
<1>5. r \in State
  BY <1>1, <1>2, <1>4 DEF State
<1>6. /\ r.pr = s.pr /\ r.image = s.image /\ r.rounds = s.rounds /\ r.task = s.task
      /\ r.code = s.code /\ r.result = s.result /\ r.score = s.score /\ r.build = s.build
      /\ r.compile = "failed" /\ r.error = Error("compile_verify", reason)
  BY <1>2, <1>4 DEF State
<1>7. r.error.stage = "compile_verify"
  BY <1>6 DEF Error
<1>8. Built(s) => Built(r)
  BY <1>6 DEF Built, Early, Untried
<1>. QED  BY <1>3, <1>4, <1>5, <1>6, <1>7, <1>8

LEMMA RetryType ==
  ASSUME NEW s \in State, s.rounds < 2
  PROVE  LET r == Retry(s) IN
         /\ r \in State /\ r.pr = s.pr /\ r.image = s.image /\ r.rounds = s.rounds + 1
         /\ r.compile = "retryable" /\ r.error.stage = "compile_verify"
         /\ Built(s) => Built(r)
<1>1. Error("compile_verify", "compile_unrecoverable") \in Reason
  BY DEF Error, Reason, ReasonCodes
<1>2. s \in State /\ s.rounds \in 0..2
  BY DEF State
<1>3. s.rounds + 1 \in 0..2
  BY <1>2
<1>4. PICK r : r = Retry(s)
  OBVIOUS
<1>5. r = [s EXCEPT !.compile = "retryable", !.rounds = s.rounds + 1,
                    !.error = Error("compile_verify", "compile_unrecoverable")]
  BY <1>2, <1>4 DEF Retry, Reject, State
<1>6. s \in State
  OBVIOUS
<1>7. r \in State
  BY <1>1, <1>3, <1>5, <1>6 DEF State
<1>8. /\ r.pr = s.pr /\ r.image = s.image /\ r.rounds = s.rounds + 1 /\ r.task = s.task
      /\ r.code = s.code /\ r.result = s.result /\ r.score = s.score /\ r.build = s.build
      /\ r.compile = "retryable"
      /\ r.error = Error("compile_verify", "compile_unrecoverable")
  BY <1>5, <1>6 DEF State
<1>9. r.error.stage = "compile_verify"
  BY <1>8 DEF Error
<1>10. Built(s) => Built(r)
  BY <1>8 DEF Built, Early, Untried
<1>. QED  BY <1>4, <1>7, <1>8, <1>9, <1>10

(* The baseline is put into the state before the verdict on it.            *)
LEMMA TestedType ==
  ASSUME NEW s \in State, NEW r \in Result
  PROVE  LET t == [s EXCEPT !.baseline = r] IN
         /\ t \in State /\ t.pr = s.pr /\ t.image = s.image /\ t.rounds = s.rounds
         /\ t.baseline = r /\ t.framework = s.framework /\ (Built(s) => Built(t))
<1>1. s \in State /\ r \in Result
  OBVIOUS
<1>2. PICK t : t = [s EXCEPT !.baseline = r]
  OBVIOUS
<1>3. t \in State
  BY <1>1, <1>2 DEF State
<1>4. /\ t.pr = s.pr /\ t.image = s.image /\ t.rounds = s.rounds /\ t.baseline = r
      /\ t.framework = s.framework /\ t.task = s.task /\ t.code = s.code
      /\ t.result = s.result /\ t.score = s.score /\ t.build = s.build
      /\ t.compile = s.compile
  BY <1>1, <1>2 DEF State
<1>5. Built(s) => Built(t)
  BY <1>4 DEF Built, Early, Untried
<1>. QED  BY <1>2, <1>3, <1>4, <1>5

(* What AfterBaseline can come to.                                         *)
LEMMA AfterBaselineCases ==
  ASSUME NEW s \in State, NEW r \in Result, Outcome(r, s.framework), r.reached # "none"
  PROVE  \/ \E reason \in ReasonCodes : AfterBaseline(s, r) = Reject(s, reason)
         \/ \E reason \in ReasonCodes :
               AfterBaseline(s, r) = Reject([s EXCEPT !.baseline = r], reason)
         \/ AfterBaseline(s, r) = Retry(s) /\ args.repair
         \/ /\ AfterBaseline(s, r) = [[s EXCEPT !.baseline = r] EXCEPT !.compile = "success"]
            /\ r.reached = "tests" /\ r.total > 0 /\ r.exit = 0
            /\ r.compile /\ r.failed = 0
<1> DEFINE t == [s EXCEPT !.baseline = r]
<1>1. /\ r.reached \in {"run", "inject", "build", "tests"} /\ r.exit \in {0, 1, -1}
      /\ r.total \in Nat \union {-1} /\ r.failed \in Nat \union {-1}
  BY DEF Result
<1>2. CASE r.reached = "run"
  BY <1>2 DEF AfterBaseline, ReasonCodes
<1>3. CASE r.reached = "build"
  BY <1>3 DEF AfterBaseline, ReasonCodes
<1>4. CASE r.reached = "tests" /\ r.total <= 0
  <2>1. AfterBaseline(s, r) = Reject(t, "test_output_unparseable")
    BY <1>1, <1>4 DEF AfterBaseline
  <2>. QED  BY <2>1 DEF ReasonCodes
<1>5. CASE r.reached = "tests" /\ r.total > 0 /\ r.exit = -1
  <2>1. AfterBaseline(s, r) = Reject(t, "baseline_timeout")
    BY <1>1, <1>5 DEF AfterBaseline
  <2>. QED  BY <2>1 DEF ReasonCodes
<1>6. CASE r.reached = "tests" /\ r.total > 0 /\ r.exit = 1
  <2>1. AfterBaseline(s, r) = Reject(t, "baseline_tests_failing")
    BY <1>1, <1>6 DEF AfterBaseline
  <2>. QED  BY <2>1 DEF ReasonCodes
<1>7. CASE \/ r.reached = "inject"
           \/ r.reached = "tests" /\ r.total > 0 /\ r.exit = 0
  <2>1. AfterBaseline(s, r) = IF r.compile /\ r.failed <= 0
                              THEN [t EXCEPT !.compile = "success"]
                              ELSE Reject(t, "baseline_tests_failing")
    BY <1>1, <1>7 DEF AfterBaseline
  <2>2. CASE r.compile /\ r.failed <= 0
    <3>1. r.reached = "tests" /\ r.total > 0 /\ r.exit = 0
      BY <1>7, <2>2 DEF Outcome
    <3>2. r.failed = 0
      BY <1>1, <2>2, <3>1 DEF Outcome
    <3>. QED  BY <2>1, <2>2, <3>1, <3>2
  <2>3. CASE ~ (r.compile /\ r.failed <= 0)
    <3>1. "baseline_tests_failing" \in ReasonCodes
      BY DEF ReasonCodes
    <3>. QED  BY <2>1, <2>3, <3>1
  <2>. QED  BY <2>2, <2>3
<1>. QED  BY <1>1, <1>2, <1>3, <1>4, <1>5, <1>6, <1>7

LEMMA BaselineVerdictStep == PrInv /\ BaselineVerdict => PrInv'
<1> SUFFICES ASSUME PrInv, BaselineVerdict PROVE PrInv'
  OBVIOUS
<1>1. /\ bi <= Len(Work) /\ st \in State /\ st.pr = Cur /\ Built(st) /\ Imaged(st)
      /\ st.rounds < 2
      /\ Outcome(res, st.framework) /\ res \in Result /\ res.reached # "none"
  BY AtVerdict DEF BaselineVerdict, Stage, Checking
<1>2. PICK s : s = AfterBaseline(st, res)
  OBVIOUS
<1>3. UNCHANGED <<images, session, choice>> /\ Return(s, RouteAfterCompile(s))
  BY <1>2 DEF BaselineVerdict
<1>4. ASSUME NEW t \in State, t.pr = Cur, Built(t), NEW reason \in ReasonCodes,
             s = Reject(t, reason)
      PROVE  PrInv'
  <2>1. /\ s \in State /\ s.pr = Cur /\ Built(s) /\ s.compile = "failed"
        /\ s.error.stage = "compile_verify"
    BY <1>4, RejectType
  <2>2. RouteAfterCompile(s) = "summary"
    BY <2>1 DEF RouteAfterCompile
  <2>3. Stage(s, "summary")
    BY <2>1 DEF Stage, Ended, Checking, Masking, Testing
  <2>. QED  BY <1>1, <1>3, <2>1, <2>2, <2>3, NodeStep
<1>5. PICK t : t = [st EXCEPT !.baseline = res]
  OBVIOUS
<1>6. /\ t \in State /\ t.pr = Cur /\ t.image = st.image /\ t.rounds = st.rounds
      /\ t.baseline = res /\ t.framework = st.framework /\ Built(t)
  BY <1>1, <1>5, TestedType
<1>7. CASE \E reason \in ReasonCodes : s = Reject(st, reason)
  BY <1>1, <1>4, <1>7
<1>8. CASE \E reason \in ReasonCodes : s = Reject(t, reason)
  BY <1>4, <1>6, <1>8
<1>9. CASE s = Retry(st) /\ args.repair
  <2>1. /\ s \in State /\ s.pr = Cur /\ s.image = st.image /\ s.rounds = st.rounds + 1
        /\ s.compile = "retryable" /\ s.error.stage = "compile_verify" /\ Built(s)
    BY <1>1, <1>9, RetryType
  <2>2. RouteAfterCompile(s) = IF s.rounds < 2 THEN "compile_verify" ELSE "summary"
    BY <1>9, <2>1 DEF RouteAfterCompile
  <2>3. PICK next : next = RouteAfterCompile(s)
    OBVIOUS
  <2>4. Imaged(s)
    BY <1>1, <2>1 DEF Imaged
  <2>5. Stage(s, next) /\ next \in Nodes \union {"summary"}
    BY <2>1, <2>2, <2>3, <2>4 DEF Stage, Ended, Checking, Masking, Testing, Nodes
  <2>. QED  BY <1>1, <1>3, <2>1, <2>3, <2>5, NodeStep
<1>10. CASE /\ s = [t EXCEPT !.compile = "success"]
            /\ res.reached = "tests" /\ res.total > 0 /\ res.exit = 0
            /\ res.compile /\ res.failed = 0
  <2>1. s \in State
    BY <1>6, <1>10 DEF State
  <2>2. /\ s.pr = Cur /\ s.image = t.image /\ s.baseline = res /\ s.compile = "success"
        /\ s.framework = st.framework /\ Untried(s)
    BY <1>6, <1>10 DEF State, Built, Early, Untried
  <2>3. Verified(s) /\ GoodBaseline(s)
    BY <1>1, <1>10, <2>2 DEF Verified, GoodBaseline
  <2>4. Imaged(s)
    BY <1>1, <1>6, <2>2 DEF Imaged
  <2>5. RouteAfterCompile(s) = IF args.stage2_only THEN "summary" ELSE "construct_task"
    BY <2>2 DEF RouteAfterCompile
  <2>6. PICK next : next = RouteAfterCompile(s)
    OBVIOUS
  <2>7. Stage(s, next) /\ next \in Nodes \union {"summary"}
    BY <2>2, <2>3, <2>4, <2>5, <2>6 DEF Stage, Ended, Checking, Masking, Testing, Nodes
  <2>. QED  BY <1>1, <1>3, <2>1, <2>6, <2>7, NodeStep
<1>11. \/ \E reason \in ReasonCodes : s = Reject(st, reason)
       \/ \E reason \in ReasonCodes : s = Reject(t, reason)
       \/ s = Retry(st) /\ args.repair
       \/ /\ s = [t EXCEPT !.compile = "success"]
          /\ res.reached = "tests" /\ res.total > 0 /\ res.exit = 0
          /\ res.compile /\ res.failed = 0
  BY <1>1, <1>2, <1>5, AfterBaselineCases
<1>. QED  BY <1>7, <1>8, <1>9, <1>10, <1>11
----------------------------------------------------------------------------
(* When the original file passes as often as the baseline, and the masked  *)
(* one less often, the baseline passed some test and the original was run. *)
LEMMA RestoredTested ==
  ASSUME PrInv, Active, Place = "context"
  PROVE  st.baseline.passed > 0 /\ res.reached = "tests"
<1>1. /\ GoodBaseline(st) /\ st \in State
      /\ MaskEffective(st) /\ Outcome(res, st.framework) /\ res.reached # "none"
      /\ res.compile /\ res.passed = st.baseline.passed
  BY Here DEF Stage, Masking
<1>2. st.baseline.passed > 0
  <2>1. /\ st.baseline \in Result /\ mask \in Result
        /\ st.framework \in Frameworks \union {"generic"}
    BY <1>1 DEF State, MaskEffective, Outcome
  <2>2. /\ st.baseline.passed \in Nat \union {-1} /\ mask.passed \in Nat \union {-1}
        /\ st.baseline.total \in Nat \union {-1}
    BY <2>1 DEF Result
  <2>3. CASE st.framework = "generic"
    BY <1>1, <2>2, <2>3 DEF GoodBaseline, Outcome
  <2>4. CASE st.framework # "generic"
    BY <1>1, <2>2, <2>4 DEF MaskEffective, Outcome
  <2>. QED  BY <2>3, <2>4
<1>3. res.reached = "tests"
  <2>1. res \in Result
    BY <1>1 DEF Outcome
  <2>2. res.reached \in {"none", "run", "inject", "build", "tests"} /\ res.passed \in Nat \union {-1}
    BY <2>1 DEF Result
  <2>3. res.passed > 0
    BY <1>1, <1>2
  <2>. QED  BY <1>1, <2>2, <2>3 DEF Outcome
<1>. QED  BY <1>2, <1>3

(* A task that construct_task puts together tells models apart.            *)
LEMMA BuildTaskStep == PrInv /\ BuildTask => PrInv'
<1> SUFFICES ASSUME PrInv, BuildTask PROVE PrInv'
  OBVIOUS
<1>1. Active /\ Place = "context"
  BY DEF BuildTask, Active, Place, Phases
<1>2. /\ bi <= Len(Work) /\ Cur \in PRs /\ st \in State /\ st.pr = Cur
      /\ Verified(st) /\ GoodBaseline(st) /\ Imaged(st) /\ ~ args.stage2_only
      /\ MaskEffective(st) /\ Outcome(res, st.framework) /\ res.reached # "none"
      /\ res.compile /\ res.passed = st.baseline.passed
  BY <1>1, Here DEF Stage, Masking
<1>3. PICK truth \in Truths :
        LET s == [st EXCEPT !.task = [of |-> st.pr, truth |-> truth, mask |-> mask,
                                      restored |-> res]]
        IN Return(s, RouteAfterConstructTask(s))
  BY DEF BuildTask
<1>4. PICK task : task = [of |-> st.pr, truth |-> truth, mask |-> mask, restored |-> res]
  OBVIOUS
<1>5. PICK s : s = [st EXCEPT !.task = task]
  OBVIOUS
<1>6. task \in Task
  BY <1>2, <1>4 DEF Task, Outcome, PrInv, Types, ChoiceOK
<1>7. task # NoTask
  <2>1. task.of # NoTask.of
    BY <1>2, <1>4, PipelineTypes DEF NoTask
  <2>. QED  BY <2>1
<1>8. s \in State
  <2>1. st \in State
    BY <1>2
  <2>. QED  BY <1>5, <1>6, <2>1 DEF State
<1>9. /\ s.pr = Cur /\ s.image = st.image /\ s.task = task /\ s.code = "" /\ s.score = -1
      /\ s.result = NoResult
  BY <1>2, <1>5 DEF State, Verified, Untried
<1>10. st.baseline.passed > 0 /\ res.reached = "tests"
  BY <1>1, RestoredTested
<1>12. SoundTask(s)
  <2>1. task.restored = res /\ task.mask = mask /\ task.truth = truth
    BY <1>4
  <2>2. mask.passed < res.passed /\ res.passed > 0
    BY <1>2, <1>10 DEF MaskEffective
  <2>3. s.task = task
    BY <1>9
  <2>. QED  BY <1>10, <2>1, <2>2, <2>3 DEF SoundTask
<1>13. Tasked(s) /\ Imaged(s)
  BY <1>2, <1>7, <1>9 DEF Tasked, Imaged
<1>14. RouteAfterConstructTask(s) = "llm_generate"
  BY <1>7, <1>9 DEF RouteAfterConstructTask
<1>15. Stage(s, "llm_generate")
  BY <1>2, <1>9, <1>12, <1>13 DEF Stage, Checking, Masking, Testing
<1>16. Return(s, "llm_generate") /\ UNCHANGED <<images, session, choice>>
  BY <1>3, <1>4, <1>5, <1>14 DEF BuildTask
<1>. QED  BY <1>2, <1>8, <1>15, <1>16, NodeStep DEF Nodes

(* llm_generate returns the code, or nothing with an error (the mock model *)
(* also without one).                                                      *)
LEMMA GeneratedStep ==
  ASSUME PrInv, pc = "llm_generate", NEW s \in State, Return(s, RouteAfterGenerate(s)),
         UNCHANGED <<images, session, choice>>,
         s.pr = st.pr, s.image = st.image, s.task = st.task, s.result = st.result,
         s.score = st.score,
         s.code = "" => s.error.stage = "llm_generate" \/ EmptyMock(st)
  PROVE  PrInv'
<1>1. Active /\ Place = "llm_generate"
  BY DEF Active, Place, Phases
<1>2. /\ bi <= Len(Work) /\ st.pr = Cur /\ Tasked(st) /\ Imaged(st) /\ SoundTask(st)
      /\ ~ args.stage2_only
  BY <1>1, Here DEF Stage
<1>3. s.pr = Cur /\ Imaged(s) /\ SoundTask(s)
  BY <1>2 DEF Imaged, SoundTask
<1>4. PICK next : next = RouteAfterGenerate(s)
  OBVIOUS
<1>5. CASE s.code = ""
  <2>1. Tasked(s) /\ Ended(s)
    BY <1>2, <1>5 DEF Tasked, Ended, EmptyMock
  <2>2. next = "summary"
    BY <1>4, <1>5 DEF RouteAfterGenerate
  <2>3. Stage(s, next)
    BY <1>3, <2>1, <2>2 DEF Stage, Checking, Masking, Testing
  <2>. QED  BY <1>2, <1>4, <2>2, <2>3, NodeStep
<1>6. CASE s.code # ""
  <2>1. Coded(s)
    BY <1>2, <1>6 DEF Tasked, Coded
  <2>2. next = "run_tests"
    BY <1>4, <1>6 DEF RouteAfterGenerate
  <2>3. Stage(s, next)
    BY <1>2, <1>3, <2>1, <2>2 DEF Stage, Checking, Masking, Testing
  <2>. QED  BY <1>2, <1>4, <2>2, <2>3, NodeStep DEF Nodes
<1>. QED  BY <1>5, <1>6

LEMMA GenerateStep == PrInv /\ (MockGenerate \/ Generate) => PrInv'
<1> SUFFICES ASSUME PrInv, MockGenerate \/ Generate PROVE PrInv'
  OBVIOUS
<1>1. /\ pc = "llm_generate" /\ Active /\ Place = "llm_generate"
      /\ UNCHANGED <<images, session, choice>>
  BY DEF MockGenerate, Generate, Active, Place, Phases
<1>2. st \in State /\ st.task.truth \in Truths
  BY <1>1, Here DEF Stage, SoundTask
<1>3. PICK code \in {"", "code"} :
        /\ LET s == [st EXCEPT !.code = code] IN Return(s, RouteAfterGenerate(s))
        /\ code = "" => EmptyMock(st)
  <2>1. CASE MockGenerate
    BY <1>2, <2>1 DEF MockGenerate, EmptyMock
  <2>2. CASE Generate
    BY <2>2 DEF Generate
  <2>. QED  BY <2>1, <2>2
<1>4. PICK s : s = [st EXCEPT !.code = code]
  OBVIOUS
<1>5. s \in State
  BY <1>2, <1>4 DEF State
<1>6. /\ s.pr = st.pr /\ s.image = st.image /\ s.task = st.task /\ s.result = st.result
      /\ s.score = st.score /\ s.code = code
  BY <1>2, <1>4 DEF State
<1>. QED  BY <1>1, <1>3, <1>4, <1>5, <1>6, GeneratedStep

LEMMA GenerateFailsStep == PrInv /\ GenerateFails => PrInv'
<1> SUFFICES ASSUME PrInv, GenerateFails PROVE PrInv'
  OBVIOUS
<1>1. pc = "llm_generate" /\ Active /\ UNCHANGED <<images, session, choice>>
  BY DEF GenerateFails, Active
<1>2. st \in State
  BY <1>1, Here
<1>3. PICK reason \in {"llm_timeout", "empty_generation"} :
        LET s == [st EXCEPT !.code = "", !.error = Error("llm_generate", reason)]
        IN Return(s, RouteAfterGenerate(s))
  BY DEF GenerateFails
<1>4. PICK s : s = [st EXCEPT !.code = "", !.error = Error("llm_generate", reason)]
  OBVIOUS
<1>5. Error("llm_generate", reason) \in Reason /\ Error("llm_generate", reason).stage = "llm_generate"
  BY DEF Error, Reason, ReasonCodes
<1>6. s \in State
  BY <1>2, <1>4, <1>5 DEF State
<1>7. /\ s.pr = st.pr /\ s.image = st.image /\ s.task = st.task /\ s.result = st.result
      /\ s.score = st.score /\ s.error = Error("llm_generate", reason)
  BY <1>2, <1>4 DEF State
<1>. QED  BY <1>1, <1>3, <1>4, <1>5, <1>6, <1>7, GeneratedStep

LEMMA TestsVerdictStep == PrInv /\ TestsVerdict => PrInv'
<1> SUFFICES ASSUME PrInv, TestsVerdict PROVE PrInv'
  OBVIOUS
<1>1. /\ bi <= Len(Work) /\ st \in State /\ st.pr = Cur /\ Coded(st) /\ Imaged(st)
      /\ SoundTask(st) /\ ~ args.stage2_only
      /\ Outcome(res, st.framework) /\ res \in Result /\ res.reached # "none"
  BY AtVerdict DEF TestsVerdict, Stage, Testing
<1>2. PICK s : s = [st EXCEPT !.result = res, !.error = TestError(res)]
  OBVIOUS
<1>3. UNCHANGED <<images, session, choice>> /\ Return(s, RouteAfterRunTests(s))
  BY <1>2 DEF TestsVerdict
<1>4. TestError(res) \in Reason
  <2>1. res.exit \in {0, 1, -1} /\ st.error \in Reason
    BY <1>1 DEF Result, State
  <2>2. CASE res.exit = -1
    BY <2>2 DEF TestError, Error, Reason, ReasonCodes
  <2>3. CASE res.exit # -1 /\ ~ res.compile
    BY <2>3 DEF TestError, Error, Reason, ReasonCodes
  <2>4. CASE res.exit # -1 /\ res.compile /\ res.total = -1
    BY <2>4 DEF TestError, Error, Reason, ReasonCodes
  <2>5. CASE res.exit # -1 /\ res.compile /\ res.total # -1
    BY <2>1, <2>5 DEF TestError
  <2>. QED  BY <2>2, <2>3, <2>4, <2>5
<1>5. s \in State
  <2>1. st \in State /\ res \in Result
    BY <1>1
  <2>. QED  BY <1>2, <1>4, <2>1 DEF State
<1>6. /\ s.pr = Cur /\ s.image = st.image /\ s.task = st.task /\ s.result = res
      /\ s.score = -1
  BY <1>1, <1>2 DEF State, Coded
<1>7. res # NoResult
  BY <1>1 DEF NoResult
<1>8. RouteAfterRunTests(s) = "score"
  BY <1>6, <1>7 DEF RouteAfterRunTests
<1>9. Tested(s) /\ Imaged(s) /\ SoundTask(s)
  BY <1>1, <1>6, <1>7 DEF Tested, Imaged, SoundTask
<1>10. s.result.total > 0 => s.result.passed \in 0..s.result.total
  BY <1>1, <1>6 DEF Outcome
<1>11. Stage(s, "score")
  BY <1>1, <1>6, <1>9, <1>10 DEF Stage, Checking, Masking, Testing
<1>. QED  BY <1>1, <1>3, <1>5, <1>8, <1>11, NodeStep DEF Nodes

(* 60% of the tests that passed, 20% for compiling, 20% for the judge: the *)
(* sum stays within 0..100.                                                *)
LEMMA PartOfSixty ==
  ASSUME NEW total \in Nat, total > 0, NEW passed \in 0..total
  PROVE  (60 * passed) \div total \in 0..60
<1>1. 60 * passed \in Nat /\ 60 * passed <= 60 * total
  OBVIOUS
<1>2. PICK q \in Int : q = (60 * passed) \div total
  OBVIOUS
<1>3. total * q <= 60 * passed /\ 60 * passed < total * q + total
  BY <1>1, <1>2
<1>4. q >= 0
  <2>1. SUFFICES ASSUME q <= -1 PROVE FALSE
    BY <1>2
  <2>2. total * q <= total * (-1)
    BY <2>1
  <2>. QED  BY <1>1, <1>3, <2>2
<1>5. q <= 60
  <2>1. SUFFICES ASSUME q >= 61 PROVE FALSE
    BY <1>2
  <2>2. total * q >= total * 61
    BY <2>1
  <2>. QED  BY <1>1, <1>3, <2>2
<1>. QED  BY <1>2, <1>4, <1>5

LEMMA ScoreStep == PrInv /\ Score => PrInv'
<1> SUFFICES ASSUME PrInv, Score PROVE PrInv'
  OBVIOUS
<1>1. Active /\ Place = "score"
  BY DEF Score, Active, Place, Phases
<1>2. /\ bi <= Len(Work) /\ st \in State /\ st.pr = Cur /\ Tested(st) /\ SoundTask(st)
      /\ ~ args.stage2_only
      /\ st.result.total > 0 => st.result.passed \in 0..st.result.total
  BY <1>1, Here DEF Stage
<1> DEFINE tests == IF st.result.total <= 0 THEN 0
                    ELSE (60 * st.result.passed) \div st.result.total
           built == IF st.result.compile THEN 20 ELSE 0
<1>3. PICK quality \in Qualities :
        Return([st EXCEPT !.score = tests + built + quality \div 5], "summary")
  BY DEF Score
<1>4. tests \in 0..60
  <2>1. st.result \in Result
    BY <1>2 DEF State
  <2>2. st.result.total \in Nat \union {-1}
    BY <2>1 DEF Result
  <2>3. CASE st.result.total <= 0
    BY <2>3
  <2>4. CASE st.result.total > 0
    <3>1. st.result.total \in Nat /\ st.result.passed \in 0..st.result.total
      BY <1>2, <2>2, <2>4
    <3>2. (60 * st.result.passed) \div st.result.total \in 0..60
      BY <2>4, <3>1, PartOfSixty
    <3>. QED  BY <2>4, <3>2
  <2>. QED  BY <2>2, <2>3, <2>4
<1>5. built \in 0..20 /\ quality \div 5 \in 0..20
  <2>1. quality \in 0..100
    BY PipelineTypes
  <2>. QED  BY <2>1
<1>6. PICK score \in 0..100 : score = tests + built + quality \div 5
  <2> HIDE DEF tests, built
  <2>1. PICK opinion \in 0..20 : opinion = quality \div 5
    BY <1>5
  <2>. QED  BY <1>4, <1>5, <2>1
<1>7. PICK s : s = [st EXCEPT !.score = score]
  OBVIOUS
<1>8. s \in State
  <2>1. st \in State /\ score \in -1..100
    BY <1>2
  <2>. QED  BY <1>7, <2>1 DEF State
<1>9. s.pr = Cur /\ s.score = score /\ s.task = st.task
  BY <1>2, <1>7 DEF State
<1>10. Scored(s) /\ SoundTask(s)
  <2>1. SoundTask(s)
    BY <1>2, <1>9 DEF SoundTask
  <2>2. s.score \in 0..100
    BY <1>9
  <2>. QED  BY <2>1, <2>2 DEF Scored
<1>11. Stage(s, "summary")
  BY <1>2, <1>9, <1>10 DEF Stage, Ended, Checking, Masking, Testing
<1>12. Return(s, "summary")
  <2> HIDE DEF tests, built
  <2>. QED  BY <1>3, <1>6, <1>7
<1>. QED  BY <1>2, <1>8, <1>11, <1>12, NodeStep DEF Score
----------------------------------------------------------------------------
(* The status of a summary is the rung that the state has reached.         *)
LEMMA RungOf ==
  ASSUME NEW s \in State
  PROVE  /\ AtBottom(s) => CoarseStatus(s) = "failed"
         /\ Inferred(s)  => CoarseStatus(s) = "env_inferred"
         /\ Rendered(s)  => CoarseStatus(s) = "dockerfile_rendered"
         /\ Built(s)     => CoarseStatus(s) = "image_built"
         /\ Verified(s)  => CoarseStatus(s) = "baseline_test_passed"
         /\ Tasked(s)    => CoarseStatus(s) = "task_constructed"
         /\ Coded(s)     => CoarseStatus(s) = "generated"
         /\ Tested(s)    => CoarseStatus(s) = "tested"
         /\ Scored(s)    => CoarseStatus(s) = "scored"
<1>1. s.score = -1 => ~ (s.score >= 0)
  OBVIOUS
<1>2. ASSUME Untried(s)
      PROVE  CoarseStatus(s) =
               IF s.compile = "success"
               THEN IF s.baseline.failed = 0 /\ s.baseline.compile
                    THEN "baseline_test_passed" ELSE "compile_passed"
               ELSE IF s.build = "success" THEN "image_built"
               ELSE IF s.dockerfile THEN "dockerfile_rendered"
               ELSE IF s.source \in {"none", "failed"} THEN "failed" ELSE "env_inferred"
  BY <1>1, <1>2, Zenon DEF Untried, CoarseStatus
<1>3. AtBottom(s) => CoarseStatus(s) = "failed"
  BY <1>2 DEF AtBottom, Unbuilt, Early
<1>4. Inferred(s) => CoarseStatus(s) = "env_inferred"
  BY <1>2 DEF Inferred, Unbuilt, Early
<1>5. Rendered(s) => CoarseStatus(s) = "dockerfile_rendered"
  BY <1>2 DEF Rendered, Unbuilt, Early
<1>6. Built(s) => CoarseStatus(s) = "image_built"
  BY <1>2 DEF Built, Early
<1>7. Verified(s) => CoarseStatus(s) = "baseline_test_passed"
  BY <1>2 DEF Verified
<1>8. Tasked(s) => CoarseStatus(s) = "task_constructed"
  BY <1>1, Zenon DEF Tasked, CoarseStatus
<1>9. Coded(s) => CoarseStatus(s) = "generated"
  BY <1>1, Zenon DEF Coded, CoarseStatus
<1>10. Tested(s) => CoarseStatus(s) = "tested"
  BY DEF Tested, CoarseStatus
<1>11. Scored(s) => CoarseStatus(s) = "scored"
  BY DEF Scored, CoarseStatus
<1>. QED  BY <1>3, <1>4, <1>5, <1>6, <1>7, <1>8, <1>9, <1>10, <1>11

LEMMA MissingImageStep == PrInv /\ MissingImage => PrInv'
<1> SUFFICES ASSUME PrInv, MissingImage PROVE PrInv'
  OBVIOUS
<1>1. /\ pc = "queue" /\ bi <= Len(Work) /\ bi' = bi + 1 /\ pc' = pc /\ args' = args
      /\ kills' = kills /\ channels' = channels /\ images' = images /\ items' = items
      /\ UNCHANGED <<session, choice>>
  BY DEF MissingImage
<1>2. Work' = Work /\ Len(Work) \in Nat
  BY <1>1, WorkType DEF Work, PrInv, Types, LoopOK
<1>3. LoopOK'
  BY <1>1, <1>2 DEF PrInv, Types, LoopOK
<1>4. StoreOK' /\ SessionOK' /\ ChoiceOK'
  BY <1>1 DEF PrInv, Types, StoreOK, SessionOK, session, ChoiceOK, choice
<1>5. OutputsOK'
  <2>1. PICK line : line = [pr |-> Cur, status |-> "failed", retries |-> 0,
                            error |-> Error("build", "missing_image_tag")]
    OBVIOUS
  <2>2. Cur \in PRs
    BY <1>1, AtHand DEF PrInv
  <2>3. line \in Line
    BY <2>1, <2>2 DEF Line, Statuses, Error, Reason, ReasonCodes
  <2>4. lines' = Append(lines, line)
    BY <2>1 DEF MissingImage
  <2>5. lines \in Seq(Line) /\ Len(lines) = bi - 1 /\ bi \in Nat
    BY <1>2 DEF PrInv, Types, LoopOK, OutputsOK
  <2>6. lines' \in Seq(Line) /\ Len(lines') = Len(lines) + 1
    BY <2>3, <2>4, <2>5
  <2>7. items \in Seq(ItemType) /\ Len(items) <= Len(lines)
    BY DEF PrInv, Types, OutputsOK
  <2>8. Len(items) \in Nat
    BY <2>7
  <2>. QED  BY <1>1, <2>5, <2>6, <2>7, <2>8 DEF OutputsOK
<1>6. StageOK'
  BY <1>1 DEF StageOK, Active
<1>. QED  BY <1>3, <1>4, <1>5, <1>6 DEF PrInv, Types

LEMMA StartPrStep == PrInv /\ StartPr => PrInv'
<1> SUFFICES ASSUME PrInv, StartPr PROVE PrInv'
  OBVIOUS
<1>1. /\ pc = "queue" /\ bi <= Len(Work) /\ pc' = "infer_env" /\ bi' = bi /\ args' = args
      /\ kills' = kills /\ images' = images /\ lines' = lines /\ items' = items
      /\ UNCHANGED <<session, choice>>
  BY DEF StartPr, loop, outputs
<1>2. Work' = Work /\ Cur' = Cur
  BY <1>1 DEF Work, Cur
<1>3. Cur \in PRs /\ Thread[Cur] \in Threads
  BY <1>1, AtHand DEF PrInv
<1>4. PICK s : s = PrState(Cur, Manifest(Cur))
  OBVIOUS
<1>5. Manifest(Cur) \in Tags \union {NoTag}
  BY <1>3, PipelineTypes DEF Manifest
<1>6. s \in State
  BY <1>3, <1>4, <1>5, PrStateType
<1>7. channels' = [channels EXCEPT ![Thread[Cur]] = s]
  BY <1>4 DEF StartPr
<1>8. channels' \in [Threads -> State] /\ st' = s
  BY <1>2, <1>3, <1>6, <1>7 DEF st, PrInv, Types, StoreOK
<1>9. LoopOK'
  BY <1>1, <1>2 DEF PrInv, Types, LoopOK, Nodes
<1>10. StoreOK' /\ SessionOK' /\ ChoiceOK' /\ OutputsOK'
  BY <1>1, <1>8 DEF PrInv, Types, StoreOK, SessionOK, session, ChoiceOK, choice, OutputsOK, Inside
<1>11. Manifest(Cur)' = Manifest(Cur)
  BY <1>1, <1>2 DEF Manifest
<1>12. Place' = "infer_env" /\ pc' \notin {"stop", "verdict"}
  BY <1>1 DEF Place, Phases
<1>13. s.pr = Cur
  BY <1>4 DEF PrState
<1>14. Stage(st, Place)'
  <2>1. st'.pr = Cur' /\ st' = PrState(Cur', Manifest(Cur)')
    BY <1>2, <1>4, <1>8, <1>11, <1>13
  <2>. QED  BY <1>12, <2>1 DEF Stage, Checking, Masking, Testing
<1>15. StageOK'
  BY <1>12, <1>14 DEF StageOK
<1>. QED  BY <1>9, <1>10, <1>15 DEF PrInv, Types

(* Every end of a PR is a rung of the ladder.                              *)
LEMMA EndedStatus ==
  ASSUME NEW s \in State, Ended(s)
  PROVE  CoarseStatus(s) \in Statuses
BY RungOf DEF Ended, Statuses

LEMMA ItemTypes ==
  ASSUME NEW s \in State, s.score >= 0
  PROVE  Item(s) \in ItemType
<1>1. /\ s.task \in Task /\ s.pr \in PRs \union {NoPr} /\ s.image \in Tags \union {NoTag}
      /\ s.result \in Result /\ s.score \in 0..100
  <2>1. s \in State /\ s.score >= 0
    OBVIOUS
  <2>2. s.score \in -1..100
    BY <2>1 DEF State
  <2>3. s.score \in 0..100
    BY <2>1, <2>2
  <2>. QED  BY <2>1, <2>3 DEF State
<1>2. s.task.of \in PRs \union {NoPr}
  BY <1>1 DEF Task
<1>. QED  BY <1>1, <1>2 DEF Item, ItemType

LEMMA WriteSummaryStep == PrInv /\ WriteSummary => PrInv'
<1> SUFFICES ASSUME PrInv, WriteSummary PROVE PrInv'
  OBVIOUS
<1>1. /\ pc = "summary" /\ pc' = "queue" /\ bi' = bi + 1 /\ args' = args
      /\ kills' = kills /\ channels' = channels /\ images' = images
      /\ container' = container /\ leaked' = leaked
      /\ use' = "baseline" /\ res' = NoResult
      /\ ranges' = 0 /\ attempt' = 0 /\ mask' = NoResult
  BY DEF WriteSummary
<1>2. bi <= Len(Work) /\ st \in State /\ Ended(st) /\ Active /\ st.pr \in PRs
  <2>1. Active /\ Place = "summary"
    BY <1>1 DEF Active, Place, Phases
  <2>. QED  BY <2>1, Here DEF Stage
<1>3. Work' = Work /\ Len(Work) \in Nat
  BY <1>1, WorkType DEF Work, PrInv, Types, LoopOK
<1>4. LoopOK'
  BY <1>1, <1>2, <1>3 DEF PrInv, Types, LoopOK
<1>5. NoResult \in Result
  BY DEF NoResult, Result
<1>6. StoreOK' /\ SessionOK' /\ ChoiceOK'
  BY <1>1, <1>5, PipelineTypes DEF PrInv, Types, StoreOK, SessionOK, Inside, ChoiceOK
<1>7. OutputsOK'
  <2>1. PICK line : line = [pr |-> st.pr, status |-> CoarseStatus(st),
                            retries |-> st.retries, error |-> st.error]
    OBVIOUS
  <2>2. line \in Line
    BY <1>2, <2>1, EndedStatus DEF Line, State
  <2>3. lines' = Append(lines, line)
    BY <2>1 DEF WriteSummary
  <2>4. lines \in Seq(Line) /\ Len(lines) = bi - 1 /\ bi \in Nat
    BY <1>3 DEF PrInv, Types, LoopOK, OutputsOK
  <2>5. lines' \in Seq(Line) /\ Len(lines') = Len(lines) + 1
    BY <2>2, <2>3, <2>4
  <2>6. items \in Seq(ItemType) /\ Len(items) <= Len(lines)
    BY DEF PrInv, Types, OutputsOK
  <2>7. items' \in Seq(ItemType) /\ Len(items') <= Len(items) + 1 /\ Len(items') \in Nat
    <3>1. CASE st.score >= 0
      <4>1. Item(st) \in ItemType
        BY <1>2, <3>1, ItemTypes
      <4>. QED  BY <2>6, <3>1, <4>1 DEF WriteSummary
    <3>2. CASE ~ (st.score >= 0)
      BY <2>6, <3>2 DEF WriteSummary
    <3>. QED  BY <3>1, <3>2
  <2>8. Len(items) \in Nat
    BY <2>6
  <2>. QED  BY <1>1, <2>4, <2>5, <2>6, <2>7, <2>8 DEF OutputsOK
<1>8. StageOK'
  BY <1>1 DEF StageOK, Active
<1>. QED  BY <1>4, <1>6, <1>7, <1>8 DEF PrInv, Types

LEMMA FinishStep == PrInv /\ Finish => PrInv'
<1> SUFFICES ASSUME PrInv, Finish PROVE PrInv'
  OBVIOUS
<1>1. pc' = "done" /\ UNCHANGED <<loop, channels, images, session, choice, lines, items>>
  BY DEF Finish
<1>2. LoopOK'
  BY <1>1 DEF loop, Work, PrInv, Types, LoopOK
<1>3. StoreOK' /\ SessionOK' /\ ChoiceOK' /\ OutputsOK'
  BY <1>1 DEF loop, session, choice, Inside, PrInv, Types, StoreOK, SessionOK, ChoiceOK, OutputsOK
<1>4. StageOK'
  BY <1>1 DEF StageOK, Active
<1>. QED  BY <1>2, <1>3, <1>4 DEF PrInv, Types

LEMMA RaiseStep == PrInv /\ Raise => PrInv'
<1> SUFFICES ASSUME PrInv, Raise PROVE PrInv'
  OBVIOUS
<1>1. /\ pc' = "aborted" /\ pc \notin {"queue", "done"}
      /\ UNCHANGED <<loop, channels, images, session, choice, outputs>>
  BY DEF Raise
<1>2. LoopOK'
  BY <1>1 DEF loop, Work, PrInv, Types, LoopOK
<1>3. StoreOK' /\ SessionOK' /\ ChoiceOK' /\ OutputsOK'
  BY <1>1 DEF loop, session, choice, outputs, Inside, PrInv, Types, StoreOK, SessionOK, ChoiceOK,
              OutputsOK
<1>4. StageOK'
  BY <1>1 DEF StageOK, Active
<1>. QED  BY <1>2, <1>3, <1>4 DEF PrInv, Types

LEMMA NoChannelsType == NoChannels \in [Threads -> State]
<1>1. PICK s : s = PrState(NoPr, NoTag)
  OBVIOUS
<1>2. s \in State
  BY <1>1, PrStateType
<1>3. NoChannels = [t \in Threads |-> s]
  BY <1>1 DEF NoChannels, Threads
<1>. QED  BY <1>2, <1>3

LEMMA KillStep == PrInv /\ Kill => PrInv'
<1> SUFFICES ASSUME PrInv, Kill PROVE PrInv'
  OBVIOUS
<1>1. /\ kills < MaxKills /\ kills' = kills + 1 /\ pc' = "queue" /\ bi' = 1
      /\ channels' = NoChannels /\ args' = args /\ images' = images
      /\ leaked' = leaked \union ({container} \ {NoPr})
      /\ use' = "baseline" /\ container' = NoPr /\ res' = NoResult
      /\ ranges' = 0 /\ attempt' = 0 /\ mask' = NoResult /\ lines' = <<>> /\ items' = <<>>
  BY DEF Kill
<1>2. Work' = Work /\ Len(Work) \in Nat
  BY <1>1, WorkType DEF Work, PrInv, Types, LoopOK
<1>3. LoopOK'
  BY <1>1, <1>2, PipelineTypes DEF PrInv, Types, LoopOK
<1>4. NoResult \in Result
  BY DEF NoResult, Result
<1>5. StoreOK' /\ SessionOK' /\ ChoiceOK'
  BY <1>1, <1>4, PipelineTypes, NoChannelsType
     DEF PrInv, Types, StoreOK, SessionOK, Inside, ChoiceOK
<1>6. OutputsOK'
  BY <1>1 DEF OutputsOK
<1>7. StageOK'
  BY <1>1 DEF StageOK, Active
<1>. QED  BY <1>3, <1>5, <1>6, <1>7 DEF PrInv, Types

(* The images named at the start are those of the manifest.                *)
LEMMA InitImages ==
  ASSUME Init
  PROVE  StoreOK
<1>1. ASSUME NEW g \in Tags
      PROVE  /\ images[g] \in PRs \union {NoPr}
             /\ args.manifest /\ (\E p \in PRs : Preset[p] = g) => images[g] \in PRs
  <2>1. images[g] = IF args.manifest /\ \E p \in PRs : Preset[p] = g
                    THEN CHOOSE p \in PRs : Preset[p] = g ELSE NoPr
    BY DEF Init
  <2>2. (\E p \in PRs : Preset[p] = g) => (CHOOSE p \in PRs : Preset[p] = g) \in PRs
    OBVIOUS
  <2>. QED  BY <2>1, <2>2
<1>2. images \in [Tags -> PRs \union {NoPr}]
  BY <1>1 DEF Init
<1>3. ASSUME args.manifest, NEW p \in PRs, Preset[p] # NoTag
      PROVE  images[Preset[p]] # NoPr
  <2>1. Preset[p] \in Tags
    BY <1>3, PipelineTypes
  <2>. QED  BY <1>1, <1>3, <2>1, PipelineTypes
<1>4. channels \in [Threads -> State]
  BY NoChannelsType DEF Init
<1>. QED  BY <1>2, <1>3, <1>4 DEF StoreOK

LEMMA InitPrInv == Init => PrInv
<1> SUFFICES ASSUME Init PROVE PrInv
  OBVIOUS
<1>1. LoopOK
  <2>1. args \in Args
    BY DEF Init
  <2>2. Len(Work) \in Nat
    BY <2>1, WorkType
  <2>. QED  BY <2>1, <2>2, PipelineTypes DEF Init, LoopOK
<1>2. NoResult \in Result
  BY DEF NoResult, Result
<1>3. SessionOK /\ ChoiceOK /\ OutputsOK
  BY <1>2, PipelineTypes DEF Init, SessionOK, Inside, ChoiceOK, OutputsOK
<1>4. StageOK
  BY DEF Init, StageOK, Active
<1>. QED  BY <1>1, <1>3, <1>4, InitImages DEF PrInv, Types

LEMMA StutterStep == PrInv /\ UNCHANGED vars => PrInv'
<1> SUFFICES ASSUME PrInv, UNCHANGED vars PROVE PrInv'
  OBVIOUS
<1>1. UNCHANGED <<pc, loop, channels, images, session, choice, outputs>>
  BY DEF vars
<1>2. LoopOK' /\ StoreOK' /\ SessionOK' /\ ChoiceOK' /\ OutputsOK'
  BY <1>1 DEF loop, Work, session, choice, outputs, PrInv, Types, LoopOK, StoreOK, SessionOK,
              ChoiceOK, OutputsOK
<1>3. /\ pc' = pc /\ args' = args /\ bi' = bi /\ images' = images /\ Work' = Work
      /\ Cur' = Cur /\ st' = st /\ use' = use /\ res' = res /\ mask' = mask
  BY <1>1 DEF loop, session, choice, Work, Cur, st
<1>4. StageOK'
  BY <1>3 DEF PrInv, StageOK, Active, Place, Stage, Imaged, Manifest, MaskEffective, Ended,
              EmptyMock
<1>. QED  BY <1>2, <1>4 DEF PrInv, Types

LEMMA NextPrInv == PrInv /\ [Next]_vars => PrInv'
<1>1. PrInv /\ Stage2 => PrInv'
  BY InferEnvStep, InferEnvFailsStep, BuildDockerfileStep, RenderFailsStep, DockerBuildStep,
     DockerBuildFailsStep, NoTestCommandsStep, StartBaselineStep, BaselineVerdictStep
     DEF Stage2
<1>2. PrInv /\ Stage3 => PrInv'
  BY ConstructTaskStep, TryMaskStep, MaskFailsStep, MaskWorksStep, TruthFailsStep,
     TruthHoldsStep, BuildTaskStep, GenerateStep, GenerateFailsStep, RunTestsStep,
     TestsVerdictStep, ScoreStep DEF Stage3
<1>3. PrInv /\ Batch => PrInv'
  BY MissingImageStep, StartPrStep, WriteSummaryStep, FinishStep DEF Batch
<1>. QED  BY <1>1, <1>2, <1>3, SessionStep, RaiseStep, KillStep, StutterStep DEF Next

(* The inductive invariant: types, and at every node or session phase how  *)
(* far the PR has come, which image it has, which numbers its baseline,    *)
(* mask and restored run have, and at the end which error it has.          *)
THEOREM PipelineInvariant == Spec => []PrInv
<1>. QED  BY InitPrInv, NextPrInv, PTL DEF Spec

(* The variables keep their types and the counters their limits: three     *)
(* docker builds and two repair rounds for a PR at most, one line for each *)
(* PR gone through.                                                        *)
THEOREM PipelineTyped == Spec => []TypeOK
<1>1. PrInv => TypeOK
  <2> SUFFICES ASSUME PrInv PROVE TypeOK
    OBVIOUS
  <2>1. \A t \in DOMAIN channels : channels[t] \in State
    BY DEF PrInv, Types, StoreOK
  <2>2. Len(lines) <= Len(Work)
    <3>1. Len(Work) \in Nat
      BY WorkType DEF PrInv, Types, LoopOK
    <3>. QED  BY <3>1 DEF PrInv, Types, LoopOK, OutputsOK
  <2>. QED  BY <2>1, <2>2
            DEF TypeOK, PrInv, Types, LoopOK, StoreOK, SessionOK, ChoiceOK, OutputsOK
<1>. QED  BY <1>1, PipelineInvariant, PTL
----------------------------------------------------------------------------
(* Nodes, routes and the loop do not touch containers.                     *)
LEMMA OutsideSession ==
  ASSUME Batch \/ Stage2 \/ Stage3 \/ Raise
  PROVE  pc \notin Inside /\ UNCHANGED <<container, leaked, kills>>
<1>1. CASE Batch
  BY <1>1 DEF Batch, MissingImage, StartPr, WriteSummary, Finish, loop, session, Inside
<1>2. CASE \/ InferEnv \/ InferEnvFails \/ BuildDockerfile \/ RenderFails \/ DockerBuild
           \/ DockerBuildFails \/ NoTestCommands
  BY <1>2 DEF InferEnv, InferEnvFails, BuildDockerfile, RenderFails, DockerBuild,
              DockerBuildFails, NoTestCommands, Return, loop, session, Inside
<1>3. CASE StartBaseline \/ BaselineVerdict \/ TryMask \/ RunTests \/ TestsVerdict
  BY <1>3 DEF StartBaseline, BaselineVerdict, TryMask, RunTests, TestsVerdict, Enter, Verdict,
              Return, loop, session, Inside
<1>4. CASE ConstructTask \/ MaskFails \/ MaskWorks \/ TruthFails \/ TruthHolds
  BY <1>4 DEF ConstructTask, MaskFails, MaskWorks, TruthFails, TruthHolds, NextRange, NoTaskFor,
              Phase, Enter, Verdict, Return, loop, session, Inside
<1>5. CASE BuildTask \/ MockGenerate \/ Generate \/ GenerateFails \/ Score
  BY <1>5 DEF BuildTask, MockGenerate, Generate, GenerateFails, Score, Return, loop, session,
              Inside
<1>6. CASE Raise
  BY <1>6 DEF Raise, loop, session, Inside
<1>. QED  BY <1>1, <1>2, <1>3, <1>4, <1>5, <1>6 DEF Stage2, Stage3

LEMMA NextKeptInside == PrInv /\ KeptInside /\ [Next]_vars => KeptInside'
<1> SUFFICES ASSUME PrInv, KeptInside, [Next]_vars PROVE KeptInside'
  OBVIOUS
<1>1. CASE Batch \/ Stage2 \/ Stage3 \/ Raise
  BY <1>1, OutsideSession DEF KeptInside
<1>2. CASE Session
  <2>1. CASE RunContainer \/ Inject \/ InjectFails \/ RunBuildCmds \/ BuildCmdsFail \/ RunTestCmds
    BY <2>1 DEF RunContainer, Inject, InjectFails, RunBuildCmds, BuildCmdsFail, RunTestCmds,
                Phase, loop, Inside, KeptInside
  <2>2. CASE RunFails
    BY <2>2 DEF RunFails, Phase, loop, Inside, KeptInside
  <2>3. CASE StopContainer
    BY <2>3 DEF StopContainer, Phase, loop, Inside, KeptInside
  <2>. QED  BY <1>2, <2>1, <2>2, <2>3 DEF Session
<1>3. CASE Kill
  <2>1. /\ container' = NoPr /\ kills' = kills + 1
        /\ leaked' = leaked \/ leaked' = leaked \union {container}
    BY <1>3 DEF Kill
  <2>2. ASSUME ~ DockerFlaky
        PROVE  IsFiniteSet(leaked') /\ Cardinality(leaked') <= kills'
    <3>1. IsFiniteSet(leaked) /\ Cardinality(leaked) <= kills
      BY <2>2 DEF KeptInside
    <3>2. kills \in Nat
      BY PipelineTypes DEF PrInv, Types, LoopOK
    <3>3. Cardinality(leaked) \in Nat
      BY <3>1, FS_CardinalityType
    <3>4. /\ IsFiniteSet(leaked \union {container})
          /\ \/ Cardinality(leaked \union {container}) = Cardinality(leaked)
             \/ Cardinality(leaked \union {container}) = Cardinality(leaked) + 1
      BY <3>1, FS_AddElement
    <3>5. PICK more : more = leaked \union {container}
      OBVIOUS
    <3>6. CASE leaked' = leaked
      BY <2>1, <3>1, <3>2, <3>3, <3>6
    <3>7. CASE leaked' = more
      BY <2>1, <3>1, <3>2, <3>3, <3>4, <3>5, <3>7
    <3>. QED  BY <2>1, <3>5, <3>6, <3>7
  <2>. QED  BY <2>1, <2>2 DEF KeptInside
<1>4. CASE UNCHANGED vars
  BY <1>4 DEF vars, loop, session, KeptInside
<1>. QED  BY <1>1, <1>2, <1>3, <1>4 DEF Next

(* Every way through a session stops its container: what is left behind is *)
(* left by Docker, or by the end of the process, one container at a time.  *)
THEOREM ContainersAreRemoved == Spec => []ContainersRemoved
<1>1. Init => KeptInside
  <2>1. IsFiniteSet({}) /\ Cardinality({}) = 0
    BY FS_EmptySet
  <2>. QED  BY <2>1 DEF Init, KeptInside
<1>2. KeptInside => ContainersRemoved
  BY DEF KeptInside, ContainersRemoved, Inside
<1>. QED  BY <1>1, <1>2, PipelineInvariant, NextKeptInside, PTL DEF Spec
----------------------------------------------------------------------------
(* The summaries.                                                          *)
MayBeSilent == ~ (args.mock => Truths \subseteq {"code"})
LineOK(line) ==
    \/ line.status = Complete
    \/ line.error.stage \in StoppedAt(line.status)
    \/ MayBeSilent
AllLinesOK == \A i \in DOMAIN lines : LineOK(lines[i])

LEMMA StoppedAtStages ==
  /\ StoppedAt("failed") = {"build", "infer_env"}
  /\ StoppedAt("env_inferred") = {"build_dockerfile"}
  /\ StoppedAt("dockerfile_rendered") = {"docker_build"}
  /\ StoppedAt("image_built") = {"compile_verify"}
  /\ StoppedAt("baseline_test_passed") = {"construct_task"}
  /\ StoppedAt("task_constructed") = {"llm_generate"}
BY DEF StoppedAt

(* A PR that ends somewhere gets a line that tells why.                    *)
LEMMA EndedLine ==
  ASSUME NEW s \in State, Ended(s), NEW line, line.status = CoarseStatus(s),
         line.error = s.error
  PROVE  LineOK(line)
<1>1. CASE AtBottom(s) /\ s.error.stage = "infer_env"
  BY <1>1, RungOf, StoppedAtStages DEF LineOK
<1>2. CASE Inferred(s) /\ s.error.stage = "build_dockerfile"
  BY <1>2, RungOf, StoppedAtStages DEF LineOK
<1>3. CASE Rendered(s) /\ s.error.stage = "docker_build"
  BY <1>3, RungOf, StoppedAtStages DEF LineOK
<1>4. CASE Built(s) /\ s.error.stage = "compile_verify"
  BY <1>4, RungOf, StoppedAtStages DEF LineOK
<1>5. CASE Verified(s) /\ args.stage2_only
  BY <1>5, RungOf DEF LineOK, Complete
<1>6. CASE Verified(s) /\ s.error.stage = "construct_task"
  BY <1>6, RungOf, StoppedAtStages DEF LineOK
<1>7. CASE Tasked(s) /\ s.error.stage = "llm_generate"
  BY <1>7, RungOf, StoppedAtStages DEF LineOK
<1>8. CASE EmptyMock(s)
  BY <1>8 DEF LineOK, MayBeSilent, EmptyMock
<1>9. CASE Scored(s) /\ ~ args.stage2_only
  BY <1>9, RungOf DEF LineOK, Complete
<1>. QED  BY <1>1, <1>2, <1>3, <1>4, <1>5, <1>6, <1>7, <1>8, <1>9 DEF Ended

LEMMA LinesKept ==
  ASSUME Stage2 \/ Session \/ Stage3 \/ Raise \/ Finish \/ UNCHANGED vars
  PROVE  UNCHANGED <<args, lines, items>>
<1>1. CASE Raise \/ Finish \/ UNCHANGED vars
  BY <1>1 DEF Raise, Finish, vars, loop, outputs
<1>2. CASE Session
  BY <1>2 DEF Session, RunContainer, RunFails, Inject, InjectFails, RunBuildCmds, BuildCmdsFail,
              RunTestCmds, StopContainer, Phase, loop, outputs
<1>3. CASE Stage2
  BY <1>3 DEF Stage2, InferEnv, InferEnvFails, BuildDockerfile, RenderFails, DockerBuild,
              DockerBuildFails, NoTestCommands, StartBaseline, BaselineVerdict, Return, Enter,
              loop, outputs
<1>4. CASE ConstructTask \/ TryMask \/ MaskFails \/ MaskWorks \/ TruthFails \/ TruthHolds
  BY <1>4 DEF ConstructTask, TryMask, MaskFails, MaskWorks, TruthFails, TruthHolds, NextRange,
              NoTaskFor, Phase, Enter, Return, loop, outputs
<1>5. CASE BuildTask \/ MockGenerate \/ Generate \/ GenerateFails \/ RunTests \/ TestsVerdict \/ Score
  BY <1>5 DEF BuildTask, MockGenerate, Generate, GenerateFails, RunTests, TestsVerdict, Score,
              Enter, Return, loop, outputs
<1>. QED  BY <1>1, <1>2, <1>3, <1>4, <1>5 DEF Stage3

LEMMA AppendedLine ==
  ASSUME PrInv, AllLinesOK, args' = args, NEW line, LineOK(line), lines' = Append(lines, line)
  PROVE  AllLinesOK'
<1>1. lines \in Seq(Line) /\ Len(lines) \in Nat
  BY DEF PrInv, Types, OutputsOK
<1>2. ASSUME NEW i \in DOMAIN lines'
      PROVE  LineOK(lines'[i])
  <2>1. i \in 1..(Len(lines) + 1)
    BY <1>1, <1>2
  <2>2. CASE i = Len(lines) + 1
    BY <1>1, <2>2
  <2>3. CASE i \in 1..Len(lines)
    BY <1>1, <2>3 DEF AllLinesOK
  <2>. QED  BY <1>1, <2>1, <2>2, <2>3
<1>3. \A l : LineOK(l)' <=> LineOK(l)
  BY DEF LineOK, Complete, MayBeSilent
<1>. QED  BY <1>2, <1>3 DEF AllLinesOK, LineOK, Complete, MayBeSilent

LEMMA NextLinesOK == PrInv /\ AllLinesOK /\ [Next]_vars => AllLinesOK'
<1> SUFFICES ASSUME PrInv, AllLinesOK, [Next]_vars PROVE AllLinesOK'
  OBVIOUS
<1>1. CASE Stage2 \/ Session \/ Stage3 \/ Raise \/ Finish \/ UNCHANGED vars
  BY <1>1, LinesKept DEF AllLinesOK, LineOK, Complete, MayBeSilent
<1>2. CASE StartPr
  BY <1>2 DEF StartPr, loop, outputs, AllLinesOK, LineOK, Complete, MayBeSilent
<1>3. CASE MissingImage
  <2>1. PICK line : line = [pr |-> Cur, status |-> "failed", retries |-> 0,
                            error |-> Error("build", "missing_image_tag")]
    OBVIOUS
  <2>2. line.status = "failed" /\ line.error.stage = "build"
    BY <2>1 DEF Error
  <2>3. LineOK(line)
    BY <2>2, StoppedAtStages DEF LineOK
  <2>. QED  BY <1>3, <2>1, <2>3, AppendedLine DEF MissingImage
<1>4. CASE WriteSummary
  <2>1. Active /\ Place = "summary"
    BY <1>4 DEF WriteSummary, Active, Place, Phases
  <2>2. st \in State /\ Ended(st)
    BY <2>1, Here DEF Stage
  <2>3. PICK line : line = [pr |-> st.pr, status |-> CoarseStatus(st),
                            retries |-> st.retries, error |-> st.error]
    OBVIOUS
  <2>4. LineOK(line)
    BY <2>2, <2>3, EndedLine
  <2>. QED  BY <1>4, <2>3, <2>4, AppendedLine DEF WriteSummary
<1>5. CASE Kill
  BY <1>5 DEF Kill, AllLinesOK
<1>. QED  BY <1>1, <1>2, <1>3, <1>4, <1>5 DEF Next, Batch

(* A PR that does not come to its end has an error, and it is of the node  *)
(* where the PR stopped: whatever attempts failed before, and whichever    *)
(* range was tried last.  The one exception is the mock model, which may   *)
(* answer with nothing and report no error, unless every range has code.   *)
THEOREM StopsAreExplained ==
  Spec => []((args.mock => Truths \subseteq {"code"}) => Explained)
<1>1. Init => AllLinesOK
  BY DEF Init, AllLinesOK
<1>2. AllLinesOK => ((args.mock => Truths \subseteq {"code"}) => Explained)
  BY DEF AllLinesOK, LineOK, MayBeSilent, Explained
<1>. QED  BY <1>1, <1>2, PipelineInvariant, NextLinesOK, PTL DEF Spec
----------------------------------------------------------------------------
(* A node that returns: the state of the PR at hand is the new one.        *)
LEMMA Returned ==
  ASSUME PrInv, Active, NEW s, NEW next, Return(s, next)
  PROVE  /\ st' = s /\ pc' = next /\ args' = args /\ bi' = bi /\ Work' = Work /\ Cur' = Cur
         /\ items' = items
<1>1. args' = args /\ bi' = bi /\ Work' = Work /\ Cur' = Cur /\ items' = items
  BY DEF Return, loop, outputs, Work, Cur
<1>2. Thread[Cur] \in Threads /\ channels \in [Threads -> State]
  BY Here, AtHand DEF PrInv, Types, StoreOK
<1>. QED  BY <1>1, <1>2 DEF Return, st

(* The parts of a PR stay its own while a step leaves them alone ...       *)
LEMMA PartsKept ==
  ASSUME NEW s, NEW t, Parts(s), t.baseline = s.baseline, t.task = s.task,
         t.result = s.result, t.compile = "success" => s.compile = "success"
  PROVE  Parts(t)
BY DEF Parts

(* ... and so does everything else, if the place suits.                    *)
LEMMA OwnStep ==
  ASSUME OwnOK, Active, pc \notin Inside, NEW s, NEW at, st' = s, Place' = at, Active',
         pc' \notin Inside, Parts(s), Named(s, at),
         args' = args, bi' = bi, UNCHANGED <<images, container, mask>>,
         res' = res \/ res' = NoResult
  PROVE  OwnOK'
<1>1. Work' = Work /\ Cur' = Cur
  BY DEF Work, Cur
<1>2. ManifestOK'
  BY <1>1 DEF OwnOK, ManifestOK
<1>3. container' = NoPr
  BY DEF OwnOK
<1>4. res'.of \in {Cur, NoPr} /\ (res'.reached = "tests" => res'.of = Cur)
  BY DEF OwnOK, NoResult
<1>5. Parts(st)'
  BY <1>1 DEF Parts
<1>6. Named(st, Place)'
  BY <1>1 DEF Named
<1>. QED  BY <1>1, <1>2, <1>3, <1>4, <1>5, <1>6 DEF OwnOK, Active

(* The nodes before compile_verify, where the place of the image changes.  *)
LEMMA OwnInferEnv == PrInv /\ OwnOK /\ (InferEnv \/ InferEnvFails) => OwnOK'
<1> SUFFICES ASSUME PrInv, OwnOK, InferEnv \/ InferEnvFails PROVE OwnOK'
  OBVIOUS
<1>1. /\ Active /\ Place = "infer_env" /\ pc \notin Inside
      /\ UNCHANGED <<images, session, choice>>
  BY DEF InferEnv, InferEnvFails, Active, Place, Phases, Inside
<1>2. /\ st \in State /\ st = PrState(Cur, Manifest(Cur)) /\ Parts(st) /\ Named(st, "infer_env")
      /\ Cur \in PRs /\ bi <= Len(Work)
  BY <1>1, Here DEF Stage, OwnOK
<1>3. PICK s, next :
        /\ Return(s, next) /\ s.baseline = st.baseline /\ s.task = st.task
        /\ s.result = st.result /\ s.compile = st.compile /\ s.image = st.image
        /\ next = "summary" \/ next = RouteAfterInferEnv(s)
        /\ next \in {"summary", "compile_verify", "build_dockerfile"}
  <2>1. CASE InferEnv
    <3>1. PICK framework \in Frameworks, source \in {"repo_dockerfile", "other"}, tests \in BOOLEAN :
            LET s == [st EXCEPT !.source = source, !.framework = framework, !.tests = tests]
            IN Return(s, RouteAfterInferEnv(s))
      BY <2>1 DEF InferEnv
    <3>2. PICK s : s = [st EXCEPT !.source = source, !.framework = framework, !.tests = tests]
      OBVIOUS
    <3>3. /\ s.baseline = st.baseline /\ s.task = st.task /\ s.result = st.result
          /\ s.compile = st.compile /\ s.image = st.image
      BY <1>2, <3>2 DEF State
    <3>. QED  BY <3>1, <3>2, <3>3 DEF RouteAfterInferEnv
  <2>2. CASE InferEnvFails
    <3>1. PICK s : s = [st EXCEPT !.source = "failed", !.build = "failed",
                                  !.error = Error("infer_env", "infer_env_failed")]
      OBVIOUS
    <3>2. /\ s.baseline = st.baseline /\ s.task = st.task /\ s.result = st.result
          /\ s.compile = st.compile /\ s.image = st.image /\ s.source = "failed"
      BY <1>2, <3>1 DEF State
    <3>3. Return(s, RouteAfterInferEnv(s))
      BY <2>2, <3>1 DEF InferEnvFails
    <3>. QED  BY <3>2, <3>3 DEF RouteAfterInferEnv
  <2>. QED  BY <2>1, <2>2
<1>4. /\ st' = s /\ pc' = next /\ args' = args /\ bi' = bi
  BY <1>1, <1>3, Returned
<1>5. Parts(s)
  BY <1>2, <1>3, PartsKept
<1>6. Named(s, next)
  <2>1. s.image = IF args.manifest THEN Preset[Cur] ELSE NoTag
    BY <1>2, <1>3 DEF PrState, Manifest
  <2>2. CASE next = "compile_verify"
    <3>1. s.image # NoTag
      BY <1>3, <2>2 DEF RouteAfterInferEnv
    <3>2. bi \in DOMAIN Work /\ Work[bi] = Cur
      <4>1. Work \in Seq(PRs) /\ bi \in 1..(Len(Work) + 1) /\ Len(Work) \in Nat
        BY WorkType DEF PrInv, Types, LoopOK
      <4>. QED  BY <1>2, <4>1 DEF Cur
    <3>3. images[Preset[Cur]] = Cur
      BY <2>1, <3>1, <3>2 DEF OwnOK, ManifestOK
    <3>. QED  BY <2>1, <2>2, <3>1, <3>3 DEF Named
  <2>3. CASE next = "build_dockerfile"
    <3>1. s.image = NoTag
      BY <1>3, <2>3 DEF RouteAfterInferEnv
    <3>. QED  BY <1>2, <2>1, <2>3, <3>1 DEF Named, Later, Checking, Masking, Testing
  <2>4. CASE next = "summary"
    BY <2>4 DEF Named, Later, Checking, Masking, Testing
  <2>. QED  BY <1>3, <2>2, <2>3, <2>4
<1>7. Place' = next /\ Active' /\ pc' \notin Inside
  BY <1>3, <1>4 DEF Place, Active, Phases, Inside
<1>8. UNCHANGED <<container, mask, res>>
  BY <1>1 DEF session, choice
<1>. QED  BY <1>1, <1>4, <1>5, <1>6, <1>7, <1>8, OwnStep

LEMMA OwnDockerfile == PrInv /\ OwnOK /\ (BuildDockerfile \/ RenderFails) => OwnOK'
<1> SUFFICES ASSUME PrInv, OwnOK, BuildDockerfile \/ RenderFails PROVE OwnOK'
  OBVIOUS
<1>1. /\ Active /\ Place = "build_dockerfile" /\ pc \notin Inside
      /\ UNCHANGED <<images, session, choice>>
  BY DEF BuildDockerfile, RenderFails, Active, Place, Phases, Inside
<1>2. st \in State /\ Parts(st) /\ Named(st, "build_dockerfile")
  BY <1>1, Here DEF OwnOK
<1>3. PICK s, next :
        /\ Return(s, next) /\ s.baseline = st.baseline /\ s.task = st.task
        /\ s.result = st.result /\ s.compile = st.compile
        /\ next \in {"summary", "docker_build"}
  <2>1. CASE BuildDockerfile
    <3>1. PICK s : s = [st EXCEPT !.dockerfile = TRUE, !.image = Tag[st.pr]]
      OBVIOUS
    <3>2. /\ s.baseline = st.baseline /\ s.task = st.task /\ s.result = st.result
          /\ s.compile = st.compile
      BY <1>2, <3>1 DEF State
    <3>3. Return(s, RouteAfterDockerfile(s))
      BY <2>1, <3>1 DEF BuildDockerfile
    <3>. QED  BY <3>2, <3>3 DEF RouteAfterDockerfile
  <2>2. CASE RenderFails
    <3>1. PICK s : s = [st EXCEPT !.build = "failed",
                          !.error = Error("build_dockerfile", "dockerfile_render_failed")]
      OBVIOUS
    <3>2. /\ s.baseline = st.baseline /\ s.task = st.task /\ s.result = st.result
          /\ s.compile = st.compile
      BY <1>2, <3>1 DEF State
    <3>3. Return(s, RouteAfterDockerfile(s))
      BY <2>2, <3>1 DEF RenderFails
    <3>. QED  BY <3>2, <3>3 DEF RouteAfterDockerfile
  <2>. QED  BY <2>1, <2>2
<1>4. st' = s /\ pc' = next /\ args' = args /\ bi' = bi
  BY <1>1, <1>3, Returned
<1>5. Parts(s)
  BY <1>2, <1>3, PartsKept
<1>6. Named(s, next)
  BY <1>2, <1>3 DEF Named, Later, Checking, Masking, Testing
<1>7. Place' = next /\ Active' /\ pc' \notin Inside
  BY <1>3, <1>4 DEF Place, Active, Phases, Inside
<1>8. UNCHANGED <<container, mask, res>>
  BY <1>1 DEF session, choice
<1>. QED  BY <1>1, <1>4, <1>5, <1>6, <1>7, <1>8, OwnStep

LEMMA OwnDockerBuildFails == PrInv /\ OwnOK /\ DockerBuildFails => OwnOK'
<1> SUFFICES ASSUME PrInv, OwnOK, DockerBuildFails PROVE OwnOK'
  OBVIOUS
<1>1. /\ Active /\ Place = "docker_build" /\ pc \notin Inside
      /\ UNCHANGED <<images, session, choice>>
  BY DEF DockerBuildFails, Active, Place, Phases, Inside
<1>2. st \in State /\ st.source # "failed" /\ Parts(st) /\ Named(st, "docker_build")
  BY <1>1, Here DEF OwnOK, Stage
<1>3. PICK s : s = [st EXCEPT !.build = "failed", !.retries = @ + 1,
                              !.error = Error("docker_build", "docker_build_failed")]
  OBVIOUS
<1>4. /\ s.baseline = st.baseline /\ s.task = st.task /\ s.result = st.result
      /\ s.compile = st.compile /\ s.build = "failed"
  BY <1>2, <1>3 DEF State
<1>5. PICK next : next = RouteAfterBuild(s) /\ next \in {"summary", "docker_build"}
  BY <1>4 DEF RouteAfterBuild
<1>6. Return(s, next)
  BY <1>3, <1>5 DEF DockerBuildFails
<1>7. st' = s /\ pc' = next /\ args' = args /\ bi' = bi
  BY <1>1, <1>6, Returned
<1>8. Parts(s)
  BY <1>2, <1>4, PartsKept
<1>9. Named(s, next)
  BY <1>2, <1>5 DEF Named, Later, Checking, Masking, Testing
<1>10. Place' = next /\ Active' /\ pc' \notin Inside
  BY <1>5, <1>7 DEF Place, Active, Phases, Inside
<1>11. UNCHANGED <<container, mask, res>>
  BY <1>1 DEF session, choice
<1>. QED  BY <1>1, <1>7, <1>8, <1>9, <1>10, <1>11, OwnStep

(* docker build takes the tag for the PR at hand, also from another PR: an *)
(* image of the manifest is never taken, for with a manifest only a single *)
(* PR without an image is built.                                           *)
LEMMA OwnDockerBuild == PrInv /\ OwnOK /\ DockerBuild => OwnOK'
<1> SUFFICES ASSUME PrInv, OwnOK, DockerBuild PROVE OwnOK'
  OBVIOUS
<1>1. /\ Active /\ Place = "docker_build" /\ pc \notin Inside
      /\ UNCHANGED <<session, choice>>
  BY DEF DockerBuild, Active, Place, Phases, Inside
<1>2. /\ st \in State /\ st.pr = Cur /\ st.source # "failed" /\ st.image \in Tags
      /\ Parts(st) /\ Named(st, "docker_build") /\ bi <= Len(Work)
  BY <1>1, Here DEF OwnOK, Stage
<1>3. PICK s : s = [st EXCEPT !.build = "success"]
  OBVIOUS
<1>4. /\ s.baseline = st.baseline /\ s.task = st.task /\ s.result = st.result
      /\ s.compile = st.compile /\ s.build = "success" /\ s.image = st.image
      /\ s.source # "failed"
  BY <1>2, <1>3 DEF State
<1>5. RouteAfterBuild(s) = "compile_verify"
  BY <1>4 DEF RouteAfterBuild
<1>6. Return(s, "compile_verify")
  BY <1>3, <1>5 DEF DockerBuild
<1>7. st' = s /\ pc' = "compile_verify" /\ args' = args /\ bi' = bi /\ Work' = Work /\ Cur' = Cur
  BY <1>1, <1>6, Returned
<1>8. images' = [images EXCEPT ![st.image] = Cur] /\ images \in [Tags -> PRs \union {NoPr}]
  BY <1>2 DEF DockerBuild, PrInv, Types, StoreOK
<1>9. images'[s.image] = Cur
  BY <1>2, <1>4, <1>8
<1>10. ManifestOK'
  <2>1. SUFFICES ASSUME args.manifest, NEW n \in DOMAIN Work, Preset[Work[n]] # NoTag
                 PROVE  FALSE
    BY <1>7 DEF ManifestOK
  <2>2. args.single /\ Preset[Cur] = NoTag
    BY <1>2, <2>1 DEF Named
  <2>3. Work \in Seq(PRs) /\ Len(Work) = 1 /\ bi \in 1..(Len(Work) + 1)
    BY <2>2, WorkType DEF PrInv, Types, LoopOK
  <2>4. n = bi
    BY <1>2, <2>1, <2>3
  <2>. QED  BY <2>1, <2>2, <2>4 DEF Cur
<1>11. Parts(s)
  BY <1>2, <1>4, PartsKept
<1>12. Parts(st)'
  BY <1>1, <1>7, <1>11 DEF Parts, choice
<1>13. Place' = "compile_verify" /\ Active' /\ pc' \notin Inside /\ pc' # "queue"
  BY <1>7 DEF Place, Active, Phases, Inside
<1>14. Named(st, Place)'
  BY <1>7, <1>9, <1>13 DEF Named
<1>. QED  BY <1>1, <1>7, <1>10, <1>12, <1>13, <1>14 DEF OwnOK, session

(* From compile_verify on the image of the PR stays.                       *)
LEMMA OwnLater ==
  ASSUME OwnOK, Active, pc \notin Inside, Place \in Later,
         NEW s, NEW at \in Later \union {"summary"}, st' = s, Place' = at, Active',
         pc' \notin Inside, Parts(s), s.image = st.image,
         args' = args, bi' = bi, UNCHANGED <<images, container, mask>>,
         res' = res \/ res' = NoResult
  PROVE  OwnOK'
<1>1. images[s.image] = Cur
  BY DEF OwnOK, Named
<1>2. Named(s, at)
  BY <1>1 DEF Named, Later, Checking, Masking, Testing
<1>. QED  BY <1>2, OwnStep

LEMMA OwnReturn ==
  ASSUME PrInv, OwnOK, Active, pc \notin Inside, Place \in Later,
         NEW s, NEW next \in Nodes \union {"summary"}, next \in Later \union {"summary"},
         Return(s, next), UNCHANGED <<images, session, choice>>,
         Parts(s), s.image = st.image
  PROVE  OwnOK'
<1>1. st' = s /\ pc' = next /\ args' = args /\ bi' = bi
  BY Returned
<1>2. Place' = next /\ Active' /\ pc' \notin Inside
  BY <1>1 DEF Place, Active, Nodes, Phases, Inside
<1>. QED  BY <1>1, <1>2, OwnLater DEF session, choice

LEMMA OwnNoTestCommands == PrInv /\ OwnOK /\ NoTestCommands => OwnOK'
<1> SUFFICES ASSUME PrInv, OwnOK, NoTestCommands PROVE OwnOK'
  OBVIOUS
<1>1. Active /\ Place = "compile_verify" /\ Place \in Later /\ pc \notin Inside
  BY DEF NoTestCommands, Active, Place, Phases, Inside, Later, Checking
<1>2. st \in State /\ Parts(st)
  BY <1>1, Here DEF OwnOK
<1>3. PICK s : s = [st EXCEPT !.compile = "failed",
                      !.error = Error("compile_verify", "test_framework_unsupported")]
  OBVIOUS
<1>4. /\ s.baseline = st.baseline /\ s.task = st.task /\ s.result = st.result
      /\ s.compile = "failed" /\ s.image = st.image
  BY <1>2, <1>3 DEF State
<1>5. RouteAfterCompile(s) = "summary"
  BY <1>4 DEF RouteAfterCompile
<1>6. Parts(s)
  BY <1>2, <1>4, PartsKept
<1>. QED  BY <1>1, <1>3, <1>4, <1>5, <1>6, OwnReturn DEF NoTestCommands

LEMMA OwnBaselineVerdict == PrInv /\ OwnOK /\ BaselineVerdict => OwnOK'
<1> SUFFICES ASSUME PrInv, OwnOK, BaselineVerdict PROVE OwnOK'
  OBVIOUS
<1>1. /\ Active /\ Place = "baseline" /\ Place \in Later /\ pc \notin Inside
  BY DEF BaselineVerdict, Verdict, Active, Place, Phases, Inside, Later, Checking
<1>2. /\ st \in State /\ res \in Result /\ st.rounds < 2 /\ Parts(st)
      /\ Outcome(res, st.framework) /\ res.reached # "none"
      /\ res.of \in {Cur, NoPr} /\ (res.reached = "tests" => res.of = Cur)
  BY <1>1, AtVerdict DEF BaselineVerdict, Stage, Checking, OwnOK
<1>3. PICK s : s = AfterBaseline(st, res)
  OBVIOUS
<1>4. PICK next : next = RouteAfterCompile(s)
  OBVIOUS
<1>5. next \in {"summary", "construct_task", "compile_verify"}
  BY <1>4 DEF RouteAfterCompile
<1>6. Return(s, next) /\ UNCHANGED <<images, session, choice>>
  BY <1>3, <1>4 DEF BaselineVerdict
<1>7. PICK t : t = [st EXCEPT !.baseline = res]
  OBVIOUS
<1>8. t \in State
  BY <1>2, <1>7, TestedType
<1>9. /\ t.baseline = res /\ t.task = st.task /\ t.result = st.result /\ t.image = st.image
  BY <1>2, <1>7 DEF State
<1>10. Parts(s) /\ s.image = st.image
  <2>1. CASE \E reason \in ReasonCodes : s = Reject(st, reason)
    <3>1. /\ s.baseline = st.baseline /\ s.task = st.task /\ s.result = st.result
          /\ s.compile = "failed" /\ s.image = st.image
      BY <1>2, <2>1 DEF Reject, State
    <3>. QED  BY <1>2, <3>1, PartsKept
  <2>2. CASE \E reason \in ReasonCodes : s = Reject(t, reason)
    <3>1. /\ s.baseline = t.baseline /\ s.task = t.task /\ s.result = t.result
          /\ s.compile = "failed" /\ s.image = t.image
      BY <1>8, <2>2 DEF Reject, State
    <3>. QED  BY <1>2, <1>9, <3>1 DEF Parts
  <2>3. CASE s = Retry(st)
    <3>1. /\ s.baseline = st.baseline /\ s.task = st.task /\ s.result = st.result
          /\ s.compile = "retryable" /\ s.image = st.image
      BY <1>2, <2>3 DEF Retry, Reject, State
    <3>. QED  BY <1>2, <3>1, PartsKept
  <2>4. CASE s = [t EXCEPT !.compile = "success"] /\ res.reached = "tests"
    <3>1. /\ s.baseline = res /\ s.task = st.task /\ s.result = st.result /\ s.image = st.image
      BY <1>8, <1>9, <2>4 DEF State
    <3>. QED  BY <1>2, <2>4, <3>1 DEF Parts
  <2>5. \/ \E reason \in ReasonCodes : s = Reject(st, reason)
        \/ \E reason \in ReasonCodes : s = Reject(t, reason)
        \/ s = Retry(st)
        \/ s = [t EXCEPT !.compile = "success"] /\ res.reached = "tests"
    BY <1>2, <1>3, <1>7, AfterBaselineCases
  <2>. QED  BY <2>1, <2>2, <2>3, <2>4, <2>5
<1>11. next \in Nodes \union {"summary"} /\ next \in Later \union {"summary"}
  BY <1>5 DEF Nodes, Later, Checking, Masking
<1>. QED  BY <1>1, <1>6, <1>10, <1>11, OwnReturn

(* Steps that go on with the state of the PR as it is.                     *)
LEMMA OwnMove ==
  ASSUME OwnOK, Active, pc \notin Inside, Place \in Later,
         UNCHANGED <<loop, channels, images, container, mask>>,
         NEW next \in Nodes \union {"run"}, pc' = next,
         NEW at \in Later, at = (IF next = "run" THEN use' ELSE next),
         res' = res \/ res' = NoResult
  PROVE  OwnOK'
<1>1. args' = args /\ bi' = bi /\ st' = st
  BY DEF loop, Work, Cur, st
<1>2. Place' = at /\ Active' /\ pc' \notin Inside
  BY DEF Place, Active, Nodes, Phases, Inside
<1>3. Parts(st)
  BY DEF OwnOK
<1>. QED
  <2>1. PICK s : s = st
    OBVIOUS
  <2>2. st' = s /\ Parts(s) /\ s.image = st.image
    BY <1>1, <1>3, <2>1
  <2>. QED  BY <1>1, <1>2, <2>2, OwnLater

LEMMA OwnEnter == PrInv /\ OwnOK /\ (StartBaseline \/ TryMask \/ RunTests) => OwnOK'
<1> SUFFICES ASSUME PrInv, OwnOK, StartBaseline \/ TryMask \/ RunTests PROVE OwnOK'
  OBVIOUS
<1>1. Active /\ Place \in Later /\ pc \notin Inside
  BY DEF StartBaseline, TryMask, RunTests, Active, Place, Phases, Inside, Later, Checking, Masking,
         Testing
<1>2. PICK u \in {"baseline", "mask", "code"} : Enter(u) /\ UNCHANGED choice
  BY DEF StartBaseline, TryMask, RunTests
<1>3. u \in Later
  BY DEF Later, Checking, Masking, Testing
<1>. QED  BY <1>1, <1>2, <1>3, OwnMove DEF Enter, choice

LEMMA OwnNoTaskFor ==
  ASSUME PrInv, OwnOK, Active, pc \notin Inside, Place \in Masking, NEW reason, NoTaskFor(reason),
         UNCHANGED <<images, session, choice>>
  PROVE  OwnOK'
<1>1. st \in State /\ Parts(st)
  BY Here DEF OwnOK
<1>2. PICK s : s = [st EXCEPT !.task = NoTask, !.error = Error("construct_task", reason)]
  OBVIOUS
<1>3. /\ s.baseline = st.baseline /\ s.task = NoTask /\ s.result = st.result
      /\ s.compile = st.compile /\ s.image = st.image
  BY <1>1, <1>2 DEF State
<1>4. Parts(s)
  BY <1>1, <1>3 DEF Parts, NoTask
<1>5. Return(s, "summary")
  BY <1>2, <1>3 DEF NoTaskFor, RouteAfterConstructTask
<1>6. Place \in Later
  BY DEF Later
<1>. QED  BY <1>3, <1>4, <1>5, <1>6, OwnReturn

LEMMA OwnMasking == PrInv /\ OwnOK /\ (ConstructTask \/ MaskFails \/ TruthFails \/ TruthHolds) => OwnOK'
<1> SUFFICES ASSUME PrInv, OwnOK, ConstructTask \/ MaskFails \/ TruthFails \/ TruthHolds
             PROVE  OwnOK'
  OBVIOUS
<1>1. Active /\ Place \in Masking /\ pc \notin Inside
  BY DEF ConstructTask, MaskFails, TruthFails, TruthHolds, Verdict, Active, Place, Phases, Inside,
         Masking
<1>2. Place \in Later /\ "mask" \in Later /\ "context" \in Later
  BY <1>1 DEF Later, Masking
<1>3. CASE \E reason : NoTaskFor(reason) /\ UNCHANGED <<images, session, choice>>
  BY <1>1, <1>3, OwnNoTaskFor
<1>4. CASE /\ pc' = "mask" \/ pc' = "context"
           /\ UNCHANGED <<loop, channels, images, container, mask, res>>
  BY <1>1, <1>2, <1>4, OwnMove DEF Nodes
<1>5. CASE ConstructTask
  BY <1>3, <1>4, <1>5 DEF ConstructTask, session
<1>6. CASE MaskFails
  BY <1>3, <1>4, <1>6 DEF MaskFails, NextRange, session
<1>7. CASE TruthFails
  BY <1>3, <1>7 DEF TruthFails
<1>8. CASE TruthHolds
  BY <1>4, <1>8 DEF TruthHolds, Phase, choice
<1>. QED  BY <1>5, <1>6, <1>7, <1>8

LEMMA OwnMaskWorks == PrInv /\ OwnOK /\ MaskWorks => OwnOK'
<1> SUFFICES ASSUME PrInv, OwnOK, MaskWorks PROVE OwnOK'
  OBVIOUS
<1>1. Active /\ Place = "mask" /\ Place \in Later /\ pc \notin Inside
  BY DEF MaskWorks, Verdict, Active, Place, Phases, Inside, Later, Masking
<1>2. /\ UNCHANGED <<loop, channels, images, container>>
      /\ pc' = "run" /\ use' = "truth" /\ res' = NoResult /\ mask' = res
  BY DEF MaskWorks, Enter
<1>3. args' = args /\ bi' = bi /\ images' = images /\ Work' = Work /\ Cur' = Cur /\ st' = st
  BY <1>2 DEF loop, Work, Cur, st
<1>4. /\ ManifestOK /\ container = NoPr /\ Parts(st) /\ images[st.image] = Cur
      /\ res.of \in {Cur, NoPr}
  BY <1>1 DEF OwnOK, Named
<1>5. Parts(st)'
  BY <1>2, <1>3, <1>4 DEF Parts
<1>6. Place' = "truth" /\ pc' \notin Inside /\ pc' # "queue"
  BY <1>2 DEF Place, Phases, Inside
<1>7. Named(st, Place)'
  BY <1>3, <1>4, <1>6 DEF Named
<1>8. ManifestOK'
  BY <1>3, <1>4 DEF ManifestOK
<1>9. res'.of = NoPr /\ res'.reached = "none"
  BY <1>2 DEF NoResult
<1>. QED  BY <1>2, <1>4, <1>5, <1>6, <1>7, <1>8, <1>9 DEF OwnOK

LEMMA OwnBuildTask == PrInv /\ OwnOK /\ BuildTask => OwnOK'
<1> SUFFICES ASSUME PrInv, OwnOK, BuildTask PROVE OwnOK'
  OBVIOUS
<1>1. Active /\ Place = "context" /\ Place \in Later /\ pc \notin Inside
  BY DEF BuildTask, Active, Place, Phases, Inside, Later, Masking
<1>2. st \in State /\ st.pr = Cur /\ Parts(st) /\ Cur \in PRs
  BY <1>1, Here DEF OwnOK, Stage
<1>3. res.of = Cur
  BY <1>1, RestoredTested DEF OwnOK
<1>4. PICK truth \in Truths :
        LET s == [st EXCEPT !.task = [of |-> st.pr, truth |-> truth, mask |-> mask,
                                      restored |-> res]]
        IN Return(s, RouteAfterConstructTask(s))
  BY DEF BuildTask
<1>5. PICK task : task = [of |-> st.pr, truth |-> truth, mask |-> mask, restored |-> res]
  OBVIOUS
<1>6. PICK s : s = [st EXCEPT !.task = task]
  OBVIOUS
<1>7. task.of = Cur /\ task.restored = res
  BY <1>2, <1>5
<1>8. task # NoTask
  <2>1. task.of # NoTask.of
    BY <1>2, <1>7, PipelineTypes DEF NoTask
  <2>. QED  BY <2>1
<1>9. /\ s.baseline = st.baseline /\ s.task = task /\ s.result = st.result
      /\ s.compile = st.compile /\ s.image = st.image
  BY <1>2, <1>6 DEF State
<1>10. Parts(s)
  BY <1>2, <1>3, <1>7, <1>9 DEF Parts
<1>11. Return(s, "llm_generate")
  BY <1>4, <1>5, <1>6, <1>8, <1>9 DEF RouteAfterConstructTask
<1>12. "llm_generate" \in Nodes \union {"summary"} /\ "llm_generate" \in Later \union {"summary"}
  BY DEF Nodes, Later
<1>. QED  BY <1>1, <1>9, <1>10, <1>11, <1>12, OwnReturn DEF BuildTask

LEMMA OwnGenerate == PrInv /\ OwnOK /\ (MockGenerate \/ Generate \/ GenerateFails) => OwnOK'
<1> SUFFICES ASSUME PrInv, OwnOK, MockGenerate \/ Generate \/ GenerateFails PROVE OwnOK'
  OBVIOUS
<1>1. /\ Active /\ Place = "llm_generate" /\ Place \in Later /\ pc \notin Inside
      /\ UNCHANGED <<images, session, choice>>
  BY DEF MockGenerate, Generate, GenerateFails, Active, Place, Phases, Inside, Later
<1>2. st \in State /\ Parts(st)
  BY <1>1, Here DEF OwnOK
<1>3. PICK code, error :
        LET s == [st EXCEPT !.code = code, !.error = error]
        IN Return(s, RouteAfterGenerate(s))
  <2>1. CASE MockGenerate \/ Generate
    <3>1. PICK code : LET s == [st EXCEPT !.code = code] IN Return(s, RouteAfterGenerate(s))
      BY <2>1 DEF MockGenerate, Generate
    <3>2. [st EXCEPT !.code = code] = [st EXCEPT !.code = code, !.error = st.error]
      BY <1>2 DEF State
    <3>. QED  BY <3>1, <3>2
  <2>2. CASE GenerateFails
    BY <2>2 DEF GenerateFails
  <2>. QED  BY <1>1, <2>1, <2>2
<1>4. PICK s : s = [st EXCEPT !.code = code, !.error = error]
  OBVIOUS
<1>5. /\ s.baseline = st.baseline /\ s.task = st.task /\ s.result = st.result
      /\ s.compile = st.compile /\ s.image = st.image
  BY <1>2, <1>4 DEF State
<1>6. Parts(s)
  BY <1>2, <1>5, PartsKept
<1>7. PICK next \in {"run_tests", "summary"} : Return(s, next)
  BY <1>3, <1>4 DEF RouteAfterGenerate
<1>8. next \in Nodes \union {"summary"} /\ next \in Later \union {"summary"}
  BY DEF Nodes, Later, Testing
<1>. QED  BY <1>1, <1>5, <1>6, <1>7, <1>8, OwnReturn

LEMMA OwnTestsVerdict == PrInv /\ OwnOK /\ TestsVerdict => OwnOK'
<1> SUFFICES ASSUME PrInv, OwnOK, TestsVerdict PROVE OwnOK'
  OBVIOUS
<1>1. Active /\ Place = "code" /\ Place \in Later /\ pc \notin Inside
  BY DEF TestsVerdict, Verdict, Active, Place, Phases, Inside, Later, Testing
<1>2. st \in State /\ Parts(st) /\ res.of \in {Cur, NoPr}
  BY <1>1, Here DEF OwnOK
<1>3. PICK s : s = [st EXCEPT !.result = res, !.error = TestError(res)]
  OBVIOUS
<1>4. /\ s.baseline = st.baseline /\ s.task = st.task /\ s.result = res
      /\ s.compile = st.compile /\ s.image = st.image
  BY <1>2, <1>3 DEF State
<1>5. Parts(s)
  BY <1>2, <1>4 DEF Parts
<1>6. PICK next \in {"score", "summary"} : Return(s, next)
  BY <1>3 DEF TestsVerdict, RouteAfterRunTests
<1>7. next \in Nodes \union {"summary"} /\ next \in Later \union {"summary"}
  BY DEF Nodes, Later
<1>. QED  BY <1>1, <1>4, <1>5, <1>6, <1>7, OwnReturn DEF TestsVerdict

LEMMA OwnScore == PrInv /\ OwnOK /\ Score => OwnOK'
<1> SUFFICES ASSUME PrInv, OwnOK, Score PROVE OwnOK'
  OBVIOUS
<1>1. Active /\ Place = "score" /\ Place \in Later /\ pc \notin Inside
  BY DEF Score, Active, Place, Phases, Inside, Later
<1>2. st \in State /\ Parts(st)
  BY <1>1, Here DEF OwnOK
<1>3. PICK score : Return([st EXCEPT !.score = score], "summary")
  BY DEF Score
<1>4. PICK s : s = [st EXCEPT !.score = score]
  OBVIOUS
<1>5. /\ s.baseline = st.baseline /\ s.task = st.task /\ s.result = st.result
      /\ s.compile = st.compile /\ s.image = st.image
  BY <1>2, <1>4 DEF State
<1>6. Parts(s)
  BY <1>2, <1>5, PartsKept
<1>. QED  BY <1>1, <1>3, <1>4, <1>5, <1>6, OwnReturn DEF Score

(* A session works on one container, of the image of the PR at hand.       *)
LEMMA OwnPhase ==
  ASSUME PrInv, OwnOK, pc \in Phases, NEW next \in Phases, Phase(next),
         container' = (IF next \in Inside THEN Cur ELSE NoPr),
         res'.of \in {Cur, NoPr}, res'.reached = "tests" => res'.of = Cur
  PROVE  OwnOK'
<1>1. /\ pc' = next /\ args' = args /\ bi' = bi /\ images' = images /\ use' = use
      /\ mask' = mask /\ Work' = Work /\ Cur' = Cur /\ st' = st
  BY DEF Phase, loop, choice, Work, Cur, st
<1>2. Active /\ Active' /\ Place = use /\ Place' = use /\ pc' # "queue"
  BY <1>1 DEF Active, Place, Phases
<1>3. ManifestOK' /\ Parts(st)' /\ Named(st, Place)'
  BY <1>1, <1>2 DEF OwnOK, ManifestOK, Parts, Named
<1>. QED  BY <1>1, <1>2, <1>3 DEF OwnOK

(* A marked result is of the container's image.                            *)
LEMMA SeenOf ==
  ASSUME NEW r \in Result, NEW how
  PROVE  Seen(r, how).of = container /\ Seen(r, how).reached = how
<1>1. r \in Result
  OBVIOUS
<1>. QED  BY <1>1 DEF Seen, Result

LEMMA OwnSession == PrInv /\ OwnOK /\ Session => OwnOK'
<1> SUFFICES ASSUME PrInv, OwnOK, Session PROVE OwnOK'
  OBVIOUS
<1>1. pc \in Phases
  BY DEF Session, RunContainer, RunFails, Inject, InjectFails, RunBuildCmds, BuildCmdsFail,
         RunTestCmds, StopContainer, Phases
<1>2. /\ st.framework \in Frameworks \union {"generic"} /\ Active /\ Place = use
      /\ use \in Later
  BY <1>1, InSession DEF Active, Phases, PrInv, Types, SessionOK, Later, Checking, Masking, Testing
<1>3. /\ container = (IF pc \in Inside THEN Cur ELSE NoPr) /\ images[st.image] = Cur
      /\ res.of \in {Cur, NoPr} /\ (res.reached = "tests" => res.of = Cur)
  BY <1>2 DEF OwnOK, Named
<1>4. \A exit \in {1, -1} : Parse(st.framework, Noise, exit) \in Result
  BY <1>2, NoiseOutput, ParseType
<1>5. \A exit \in {1, -1} : Broken(exit) \in Result
  BY DEF Broken, NoResult, Result
<1>6. CASE RunContainer
  <2>1. PICK next \in {"build", "inject"} : Phase(next)
    BY <1>6 DEF RunContainer
  <2>2. next \in Phases /\ next \in Inside
    BY DEF Phases, Inside
  <2>. QED  BY <1>1, <1>3, <1>6, <2>1, <2>2, OwnPhase DEF RunContainer
<1>7. CASE RunFails
  <2>1. PICK exit \in {1, -1} : res' = Seen(Parse(st.framework, Noise, exit), "run")
    BY <1>7 DEF RunFails
  <2>2. res'.of = container /\ res'.reached = "run"
    BY <1>4, <2>1, SeenOf
  <2>3. pc \notin Inside /\ "verdict" \in Phases /\ "verdict" \notin Inside
    BY <1>7 DEF RunFails, Phases, Inside
  <2>. QED  BY <1>1, <1>3, <1>7, <2>2, <2>3, OwnPhase DEF RunFails
<1>8. CASE Inject \/ RunBuildCmds
  <2>1. PICK next \in {"build", "test"} : Phase(next)
    BY <1>8 DEF Inject, RunBuildCmds
  <2>2. next \in Phases /\ next \in Inside /\ pc \in Inside
    BY <1>8 DEF Inject, RunBuildCmds, Phases, Inside
  <2>. QED  BY <1>1, <1>3, <1>8, <2>1, <2>2, OwnPhase DEF Inject, RunBuildCmds
<1>9. CASE InjectFails \/ BuildCmdsFail \/ RunTestCmds
  <2>1. PICK r, how : r \in Result /\ res' = Seen(r, how)
    <3>1. CASE InjectFails
      <4>1. PICK exit \in {1, -1} :
              res' = Seen(IF use = "code"
                          THEN [Parse(st.framework, Noise, exit) EXCEPT !.compile = FALSE]
                          ELSE Broken(exit), "inject")
        BY <3>1 DEF InjectFails
      <4>2. Parse(st.framework, Noise, exit) \in Result /\ Broken(exit) \in Result
        BY <1>4, <1>5
      <4>3. [Parse(st.framework, Noise, exit) EXCEPT !.compile = FALSE] \in Result
        BY <4>2 DEF Result
      <4>. QED  BY <4>1, <4>2, <4>3
    <3>2. CASE BuildCmdsFail
      BY <1>5, <3>2 DEF BuildCmdsFail
    <3>3. CASE RunTestCmds
      <4>1. PICK out \in Outputs, exit \in {0, 1, -1} :
              res' = Seen([Parse(st.framework, out, exit)
                              EXCEPT !.compile = @ \/ use # "baseline"], "tests")
        BY <3>3 DEF RunTestCmds
      <4>2. PICK q \in Result : q = Parse(st.framework, out, exit)
        BY <1>2, ParseType
      <4>3. PICK c \in BOOLEAN : res' = Seen([q EXCEPT !.compile = c], "tests")
        <5>1. (q.compile \/ use # "baseline") \in BOOLEAN
          OBVIOUS
        <5>2. res' = Seen([q EXCEPT !.compile = (q.compile \/ use # "baseline")], "tests")
          BY <4>1, <4>2, Zenon
        <5>. QED  BY <5>1, <5>2, Zenon
      <4>4. q \in Result
        OBVIOUS
      <4>5. [q EXCEPT !.compile = c] \in Result
        BY <4>4 DEF Result
      <4>. QED  BY <4>3, <4>5
    <3>. QED  BY <1>9, <3>1, <3>2, <3>3
  <2>2. res'.of = container
    BY <2>1, SeenOf
  <2>3. /\ Phase("stop") /\ container' = container /\ pc \in Inside
        /\ "stop" \in Phases /\ "stop" \in Inside
    BY <1>9 DEF InjectFails, BuildCmdsFail, RunTestCmds, Phases, Inside
  <2>. QED  BY <1>1, <1>3, <2>2, <2>3, OwnPhase
<1>10. CASE StopContainer
  <2>1. "verdict" \in Phases /\ "verdict" \notin Inside
    BY DEF Phases, Inside
  <2>. QED  BY <1>1, <1>3, <1>10, <2>1, OwnPhase DEF StopContainer
<1>. QED  BY <1>6, <1>7, <1>8, <1>9, <1>10 DEF Session

LEMMA OwnStartPr == PrInv /\ OwnOK /\ StartPr => OwnOK'
<1> SUFFICES ASSUME PrInv, OwnOK, StartPr PROVE OwnOK'
  OBVIOUS
<1>1. /\ pc = "queue" /\ bi <= Len(Work) /\ pc' = "infer_env" /\ bi' = bi /\ args' = args
      /\ images' = images /\ container' = container /\ res' = res /\ mask' = mask
      /\ args.manifest /\ ~ args.single => Manifest(Cur) # NoTag
  BY DEF StartPr, loop, session, choice
<1>2. Work' = Work /\ Cur' = Cur
  BY <1>1 DEF Work, Cur
<1>3. Thread[Cur] \in Threads /\ channels \in [Threads -> State]
  BY <1>1, AtHand DEF PrInv, Types, StoreOK
<1>4. PICK s : s = PrState(Cur, Manifest(Cur))
  OBVIOUS
<1>5. st' = s
  BY <1>2, <1>3, <1>4 DEF StartPr, st
<1>6. /\ res = NoResult /\ mask = NoResult /\ container = NoPr /\ ManifestOK
  BY <1>1 DEF OwnOK, Inside
<1>7. /\ s.baseline = NoResult /\ s.task = NoTask /\ s.result = NoResult /\ s.compile = "none"
  BY <1>4 DEF PrState
<1>8. NoResult.of = NoPr /\ NoTask.of = NoPr /\ NoResult.reached = "none"
  BY DEF NoResult, NoTask
<1>9. Place' = "infer_env" /\ pc' \notin Inside /\ pc' # "queue"
  BY <1>1 DEF Place, Phases, Inside
<1>10. Parts(st)'
  BY <1>1, <1>5, <1>6, <1>7, <1>8 DEF Parts
<1>11. Named(st, Place)'
  BY <1>1, <1>2, <1>9 DEF Named, Manifest, Later, Checking, Masking, Testing
<1>12. ManifestOK'
  BY <1>1, <1>2, <1>6 DEF ManifestOK
<1>. QED  BY <1>1, <1>6, <1>8, <1>9, <1>10, <1>11, <1>12 DEF OwnOK

(* Between two PRs, and when the program ends, there is nothing to own.    *)
LEMMA OwnBetween ==
  PrInv /\ OwnOK /\ (MissingImage \/ WriteSummary \/ Finish \/ Raise \/ Kill) => OwnOK'
<1> SUFFICES ASSUME PrInv, OwnOK, MissingImage \/ WriteSummary \/ Finish \/ Raise \/ Kill
             PROVE  OwnOK'
  OBVIOUS
<1>1. /\ pc' \in {"queue", "done", "aborted"} /\ args' = args /\ images' = images
      /\ (container' = container /\ pc \notin Inside) \/ container' = NoPr
      /\ pc' = "queue" =>
           \/ pc = "queue" /\ res' = res /\ mask' = mask
           \/ res' = NoResult /\ mask' = NoResult
  <2>1. CASE MissingImage \/ Finish
    BY <2>1 DEF MissingImage, Finish, loop, session, choice, Inside
  <2>2. CASE WriteSummary
    BY <2>2 DEF WriteSummary, Inside
  <2>3. CASE Raise
    BY <2>3 DEF Raise, loop, session, Inside
  <2>4. CASE Kill
    BY <2>4 DEF Kill
  <2>. QED  BY <2>1, <2>2, <2>3, <2>4
<1>2. Work' = Work
  BY <1>1 DEF Work
<1>3. ManifestOK'
  BY <1>1, <1>2 DEF OwnOK, ManifestOK
<1>4. ~ Active' /\ pc' \notin Inside
  BY <1>1 DEF Active, Inside
<1>5. container' = NoPr
  BY <1>1 DEF OwnOK
<1>. QED  BY <1>1, <1>3, <1>4, <1>5 DEF OwnOK

LEMMA OwnStutter == PrInv /\ OwnOK /\ UNCHANGED vars => OwnOK'
<1> SUFFICES ASSUME PrInv, OwnOK, UNCHANGED vars PROVE OwnOK'
  OBVIOUS
<1>1. /\ pc' = pc /\ args' = args /\ bi' = bi /\ images' = images /\ use' = use /\ res' = res
      /\ mask' = mask /\ container' = container /\ Work' = Work /\ Cur' = Cur /\ st' = st
  BY DEF vars, loop, session, choice, Work, Cur, st
<1>. QED  BY <1>1 DEF OwnOK, ManifestOK, Active, Place, Parts, Named

LEMMA NextOwn == PrInv /\ OwnInv /\ [Next]_vars => OwnInv'
<1> SUFFICES ASSUME PrInv, OwnInv, [Next]_vars, OneTagEach' PROVE OwnOK'
  BY DEF OwnInv
<1>1. args' = args
  <2>1. CASE Batch \/ Kill
    BY <2>1 DEF Batch, MissingImage, StartPr, WriteSummary, Finish, Kill, loop
  <2>. QED  BY <2>1, LinesKept DEF Next
<1>2. OwnOK
  BY <1>1 DEF OwnInv, OneTagEach
<1>3. CASE Stage2
  BY <1>2, <1>3, OwnInferEnv, OwnDockerfile, OwnDockerBuild, OwnDockerBuildFails,
     OwnNoTestCommands, OwnEnter, OwnBaselineVerdict DEF Stage2
<1>4. CASE Stage3
  BY <1>2, <1>4, OwnMasking, OwnMaskWorks, OwnEnter, OwnBuildTask, OwnGenerate, OwnTestsVerdict,
     OwnScore DEF Stage3
<1>5. CASE Batch
  BY <1>2, <1>5, OwnStartPr, OwnBetween DEF Batch
<1>. QED  BY <1>2, <1>3, <1>4, <1>5, OwnSession, OwnBetween, OwnStutter DEF Next

LEMMA InitOwn == Init => OwnInv
<1> SUFFICES ASSUME Init, OneTagEach PROVE OwnOK
  BY DEF OwnInv
<1>1. pc = "queue" /\ container = NoPr /\ res = NoResult /\ mask = NoResult
  BY DEF Init
<1>2. ManifestOK
  <2>1. SUFFICES ASSUME args.manifest, NEW n \in DOMAIN Work, Preset[Work[n]] # NoTag
                 PROVE  images[Preset[Work[n]]] = Work[n]
    BY DEF ManifestOK
  <2>2. Work \in Seq(PRs)
    BY WorkType DEF Init
  <2>3. PICK p : p = Work[n]
    OBVIOUS
  <2>4. p \in PRs
    BY <2>2, <2>3
  <2>5. PICK g : g = Preset[p]
    OBVIOUS
  <2>6. g \in Tags /\ g # NoTag
    BY <2>1, <2>3, <2>4, <2>5, PipelineTypes
  <2>7. images[g] = CHOOSE q \in PRs : Preset[q] = g
    BY <2>1, <2>4, <2>5, <2>6 DEF Init
  <2>8. \A q \in PRs : Preset[q] = g => q = p
    BY <2>1, <2>4, <2>5, <2>6 DEF OneTagEach
  <2>9. images[g] \in PRs /\ Preset[images[g]] = g
    BY <2>4, <2>5, <2>7
  <2>. QED  BY <2>3, <2>5, <2>8, <2>9
<1>. QED  BY <1>1, <1>2 DEF OwnOK, Active, Inside

(* The inductive invariant behind OwnParts: unless the manifest gives two  *)
(* PRs one tag, the tag of the PR at hand names its own image from         *)
(* docker_build on, and what has run was run on that image.                *)
THEOREM OwnershipInvariant == Spec => []OwnInv
<1>. QED  BY InitOwn, PipelineInvariant, NextOwn, PTL DEF Spec

(* What the graph works with comes from the PR at hand alone, even where   *)
(* its thread id or its image tag is shared with another PR, and where     *)
(* images are left from a batch that was killed.  A manifest is trusted:   *)
(* if it gives two PRs one image, one of them runs the other's.            *)
THEOREM PartsAreOwn == Spec => [](OneTagEach => OwnParts)
<1>1. PrInv /\ OwnInv => (OneTagEach => OwnParts)
  <2> SUFFICES ASSUME PrInv, OwnOK, Active PROVE OwnParts
    BY DEF OwnInv, OwnParts, Active
  <2>1. st.pr = Cur
    BY Here DEF Stage
  <2>. QED  BY <2>1 DEF OwnOK, Parts, OwnParts
<1>. QED  BY <1>1, PipelineInvariant, OwnershipInvariant, PTL

(* The items collected so far.                                             *)
LEMMA NextItems == PrInv /\ OwnInv /\ ItemsInv /\ [Next]_vars => ItemsInv'
<1> SUFFICES ASSUME PrInv, OwnInv, ItemsInv, [Next]_vars PROVE ItemsInv'
  OBVIOUS
<1>1. CASE UNCHANGED <<args, items>>
  BY <1>1 DEF ItemsInv, OneTagEach
<1>2. CASE MissingImage \/ StartPr
  BY <1>1, <1>2 DEF MissingImage, StartPr, loop, outputs
<1>3. CASE Kill
  BY <1>3 DEF Kill, ItemsInv
<1>4. CASE WriteSummary
  <2>1. Active /\ Place = "summary" /\ args' = args
    BY <1>4 DEF WriteSummary, Active, Place, Phases
  <2>2. st \in State /\ Ended(st) /\ st.pr = Cur
    BY <2>1, Here DEF Stage
  <2>3. SUFFICES ASSUME OneTagEach PROVE \A i \in DOMAIN items' : ItemOK(items'[i])
    BY <2>1 DEF ItemsInv, OneTagEach, ItemOK
  <2>4. \A i \in DOMAIN items : ItemOK(items[i])
    BY <2>3 DEF ItemsInv
  <2>5. CASE st.score >= 0
    <3>1. SoundTask(st)
      <4>1. st.score # -1
        BY <2>5
      <4>. QED  BY <2>2, <4>1
                DEF Ended, AtBottom, Inferred, Rendered, Built, Verified, Tasked, Unbuilt, Early,
                    Untried
    <3>2. st.task # NoTask
      <4>1. NoTask.restored.reached = "none"
        BY DEF NoTask, NoResult
      <4>. QED  BY <3>1, <4>1 DEF SoundTask
    <3>3. st.task.of = Cur /\ st.task.restored.of = Cur
      BY <2>1, <2>3, <3>2 DEF OwnInv, OwnOK, Parts
    <3>4. PICK item : item = Item(st)
      OBVIOUS
    <3>5. item.task = st.task /\ item.pr = Cur
      BY <2>2, <3>4 DEF Item
    <3>6. ItemOK(item)
      BY <3>1, <3>3, <3>5 DEF ItemOK, SoundTask
    <3>7. items' = Append(items, item)
      BY <1>4, <2>5, <3>4 DEF WriteSummary
    <3>8. items \in Seq(ItemType) /\ Len(items) \in Nat
      BY DEF PrInv, Types, OutputsOK
    <3>9. ASSUME NEW i \in DOMAIN items' PROVE ItemOK(items'[i])
      <4>1. i \in 1..(Len(items) + 1)
        BY <3>7, <3>8, <3>9
      <4>2. CASE i = Len(items) + 1
        BY <3>6, <3>7, <3>8, <4>2
      <4>3. CASE i \in 1..Len(items)
        BY <2>4, <3>7, <3>8, <4>3
      <4>. QED  BY <3>8, <4>1, <4>2, <4>3
    <3>. QED  BY <3>9
  <2>6. CASE ~ (st.score >= 0)
    BY <1>4, <2>4, <2>6 DEF WriteSummary
  <2>. QED  BY <2>5, <2>6
<1>5. CASE Stage2 \/ Session \/ Stage3 \/ Raise \/ Finish \/ UNCHANGED vars
  BY <1>1, <1>5, LinesKept
<1>. QED  BY <1>2, <1>3, <1>4, <1>5 DEF Next, Batch

(* Every scored item tells models apart: on the PR's own image the original *)
(* file made the tests pass as often as the baseline, and fewer pass with   *)
(* the mask.  This is the conjunction of three sessions' verdicts, taken    *)
(* over rounds, ranges and retries.                                         *)
THEOREM ItemsDiscriminate == Spec => [](OneTagEach => Discriminating)
<1>1. Init => ItemsInv
  BY DEF Init, ItemsInv
<1>2. ItemsInv => (OneTagEach => Discriminating)
  BY DEF ItemsInv, ItemOK, Discriminating
<1>. QED  BY <1>1, <1>2, PipelineInvariant, OwnershipInvariant, NextItems, PTL DEF Spec
----------------------------------------------------------------------------
(* The least element of a set of numbers.                                  *)
LEMMA LeastNumber ==
  ASSUME NEW T, T \subseteq Nat, T # {}
  PROVE  \E x \in T : \A y \in T : x <= y
<1>1. PICK x \in T : \A y \in T : ~ (<<y, x>> \in OpToRel(<, Nat))
  BY NatLessThanWellFounded, WFMin
<1>2. ASSUME NEW y \in T PROVE x <= y
  <2>1. x \in Nat /\ y \in Nat
    OBVIOUS
  <2>2. ~ (y < x)
    BY <1>1, <2>1 DEF OpToRel
  <2>. QED  BY <2>1, <2>2
<1>. QED  BY <1>2

LEMMA ItemScore ==
  ASSUME NEW item \in ItemType
  PROVE  item.score \in Int /\ 0 <= item.score /\ item.score <= 100
<1>1. item.score \in 0..100
  BY DEF ItemType
<1>. QED  BY <1>1

(* Of the counted items with one id there is one that no other replaces,   *)
(* and it has the best score.                                              *)
LEMMA BestItem ==
  ASSUME items \in Seq(ItemType), NEW i \in DOMAIN items, Counted(i)
  PROVE  \E k \in DOMAIN items :
           /\ Counted(k) /\ items[k].id = items[i].id /\ items[k].score >= items[i].score
           /\ \A j \in DOMAIN items \ {k} :
                Counted(j) /\ items[j].id = items[k].id => ~ Better(k, j)
<1> DEFINE S == {j \in DOMAIN items : Counted(j) /\ items[j].id = items[i].id}
           G == {100 - items[j].score : j \in S}
<1>1. \A j \in DOMAIN items :
        items[j].score \in Int /\ 0 <= items[j].score /\ items[j].score <= 100 /\ j \in Nat
  <2>1. \A j \in DOMAIN items : items[j] \in ItemType /\ j \in Nat
    OBVIOUS
  <2>. QED  BY <2>1, ItemScore
<1>2. i \in S
  OBVIOUS
<1>3. G \subseteq Nat /\ G # {}
  <2>1. ASSUME NEW j \in S PROVE 100 - items[j].score \in Nat
    <3>1. j \in DOMAIN items
      OBVIOUS
    <3>2. PICK x \in Int : x = items[j].score /\ 0 <= x /\ x <= 100
      BY <1>1, <3>1
    <3>. QED  BY <3>2
  <2> HIDE DEF S
  <2>2. 100 - items[i].score \in G
    BY <1>2
  <2>. QED  BY <2>1, <2>2
<1>4. PICK g \in G : \A h \in G : g <= h
  <2> HIDE DEF G
  <2>. QED  BY <1>3, LeastNumber
<1> DEFINE B == {j \in S : 100 - items[j].score = g}
<1>5. B \subseteq Nat /\ B # {}
  BY <1>1, <1>4
<1>6. PICK k \in B : \A j \in B : k <= j
  <2> HIDE DEF B
  <2>. QED  BY <1>5, LeastNumber
<1>7. k \in S /\ k \in DOMAIN items /\ 100 - items[k].score = g
  BY <1>6
<1>8. ASSUME NEW j \in S PROVE items[k].score >= items[j].score
  <2>1. j \in DOMAIN items
    OBVIOUS
  <2>2. 100 - items[j].score \in G
    <3> HIDE DEF S
    <3>. QED  BY <1>8
  <2>3. g <= 100 - items[j].score
    <3> HIDE DEF G
    <3>. QED  BY <1>4, <2>2
  <2>4. PICK x \in Int : x = items[j].score
    BY <1>1, <2>1
  <2>5. PICK y \in Int : y = items[k].score
    BY <1>1, <1>7
  <2>6. 100 - y <= 100 - x
    BY <1>7, <2>3, <2>4, <2>5
  <2>7. y >= x
    BY <2>6
  <2>. QED  BY <2>4, <2>5, <2>7
<1>9. ASSUME NEW j \in DOMAIN items \ {k}, Counted(j), items[j].id = items[k].id, Better(k, j)
      PROVE  FALSE
  <2>1. j \in S
    BY <1>7, <1>9
  <2>2. items[k].score >= items[j].score
    BY <1>8, <2>1
  <2>3. PICK x \in Int : x = items[j].score
    BY <1>1, <1>9
  <2>4. PICK y \in Int : y = items[k].score
    BY <1>1, <1>7
  <2>5. j \in Nat /\ k \in Nat
    BY <1>1, <1>7
  <2>6. x > y \/ (x = y /\ j < k)
    BY <1>9, <2>3, <2>4 DEF Better
  <2>7. y >= x
    BY <2>2, <2>3, <2>4
  <2>8. x = y /\ j < k
    BY <2>6, <2>7
  <2>9. j \in B
    BY <1>7, <2>1, <2>3, <2>4, <2>8
  <2>10. k <= j
    BY <1>6, <2>9
  <2>. QED  BY <2>5, <2>8, <2>10
<1>10. Counted(k) /\ items[k].id = items[i].id /\ items[k].score >= items[i].score
  BY <1>2, <1>7, <1>8
<1>. QED
  <2> HIDE DEF S, G, B
  <2>. QED  BY <1>7, <1>9, <1>10

LEMMA AggregatedKeeps ==
  ASSUME items \in Seq(ItemType)
  PROVE  /\ \A i \in DOMAIN items : Counted(i) =>
               \E d \in Aggregated : d.id = items[i].id /\ d.score >= items[i].score
         /\ \A d, e \in Aggregated : d.id = e.id => d = e
<1> DEFINE Kept == {k \in DOMAIN items : Counted(k) /\
                      \A j \in DOMAIN items \ {k} :
                          Counted(j) /\ items[j].id = items[k].id => ~ Better(k, j)}
<1>1. Aggregated = {items[k] : k \in Kept}
  BY DEF Aggregated
<1>2. ASSUME NEW i \in DOMAIN items, Counted(i)
      PROVE  \E d \in Aggregated : d.id = items[i].id /\ d.score >= items[i].score
  <2>1. PICK k \in DOMAIN items :
           /\ Counted(k) /\ items[k].id = items[i].id /\ items[k].score >= items[i].score
           /\ \A j \in DOMAIN items \ {k} :
                Counted(j) /\ items[j].id = items[k].id => ~ Better(k, j)
    BY <1>2, BestItem
  <2>2. k \in Kept
    BY <2>1
  <2>3. items[k] \in Aggregated
    BY <1>1, <2>2
  <2>. QED  BY <2>1, <2>3
<1>3. ASSUME NEW d \in Aggregated, NEW e \in Aggregated, d.id = e.id
      PROVE  d = e
  <2>1. PICK k \in Kept, l \in Kept : d = items[k] /\ e = items[l]
    BY <1>1
  <2>2. SUFFICES ASSUME k # l PROVE FALSE
    BY <2>1
  <2>3. ~ Better(k, l) /\ ~ Better(l, k)
    BY <1>3, <2>1, <2>2
  <2>4. ASSUME NEW j \in DOMAIN items PROVE items[j].score \in Int /\ j \in Nat
    <3>1. PICK item \in ItemType : item = items[j]
      OBVIOUS
    <3>2. item.score \in Int
      BY ItemScore
    <3>. QED  BY <3>1, <3>2
  <2>5. k \in DOMAIN items /\ l \in DOMAIN items
    OBVIOUS
  <2>6. PICK x \in Int, y \in Int : x = items[k].score /\ y = items[l].score
    BY <2>4, <2>5
  <2>7. ~ (y > x) /\ ~ (x > y) /\ (x = y => ~ (l < k) /\ ~ (k < l))
    BY <2>3, <2>6 DEF Better
  <2>8. k \in Nat /\ l \in Nat
    BY <2>4, <2>5
  <2>. QED  BY <2>2, <2>7, <2>8
<1>. QED  BY <1>2, <1>3

LEMMA NextNotLost == PrInv /\ NotLost /\ [Next]_vars => NotLost'
<1> SUFFICES ASSUME PrInv, NotLost, [Next]_vars, pc' = "done", ~ args'.stage2_only, ~ args'.single
             PROVE  dataset' = Aggregated'
  BY DEF NotLost
<1>1. PrInv'
  BY NextPrInv
<1>2. CASE UNCHANGED vars
  BY <1>2 DEF vars, loop, outputs, NotLost, Aggregated, Counted, Better
<1>3. CASE Finish
  <2>1. args' = args /\ items' = items
    BY <1>3 DEF Finish, loop
  <2>2. dataset' = Aggregated
    BY <1>3, <2>1 DEF Finish
  <2>. QED  BY <2>1, <2>2 DEF Aggregated, Counted, Better
<1>4. CASE MissingImage \/ StartPr \/ WriteSummary \/ Raise \/ Kill
  BY <1>4 DEF MissingImage, StartPr, WriteSummary, Raise, Kill
<1>5. CASE Session
  <2>1. PICK next \in Phases : Phase(next)
    BY <1>5 DEF Session, RunContainer, RunFails, Inject, InjectFails, RunBuildCmds, BuildCmdsFail,
                RunTestCmds, StopContainer, Phases
  <2>. QED  BY <2>1 DEF Phase, Phases
<1>6. CASE Stage2 \/ Stage3
  <2>1. pc' # "done"
    <3>1. \A s : /\ RouteAfterInferEnv(s) # "done" /\ RouteAfterDockerfile(s) # "done"
                /\ RouteAfterBuild(s) # "done" /\ RouteAfterConstructTask(s) # "done"
                /\ RouteAfterGenerate(s) # "done" /\ RouteAfterRunTests(s) # "done"
      BY DEF RouteAfterInferEnv, RouteAfterDockerfile, RouteAfterBuild, RouteAfterConstructTask,
             RouteAfterGenerate, RouteAfterRunTests
    <3>2. \A s : RouteAfterCompile(s) # "done"
      BY DEF RouteAfterCompile
    <3>3. CASE Stage2
      BY <3>1, <3>2, <3>3 DEF Stage2, InferEnv, InferEnvFails, BuildDockerfile, RenderFails,
              DockerBuild, DockerBuildFails, NoTestCommands, StartBaseline, BaselineVerdict,
              Return, Enter
    <3>4. CASE Stage3
      BY <3>1, <3>4 DEF Stage3, ConstructTask, TryMask, MaskFails, MaskWorks, TruthFails,
              TruthHolds, BuildTask, MockGenerate, Generate, GenerateFails, RunTests,
              TestsVerdict, Score, NextRange, NoTaskFor, Phase, Enter, Return
    <3>. QED  BY <1>6, <3>3, <3>4
  <2>. QED  BY <2>1
<1>. QED  BY <1>2, <1>3, <1>4, <1>5, <1>6 DEF Next, Batch

(* The dataset has every scored item that ran tests and has text, or a     *)
(* better one of its task, and one item for each task id: also when scores *)
(* are equal, and whatever the number of items with one id.                *)
THEOREM ItemsAreKept == Spec => []NoItemLost
<1>1. Init => NotLost
  BY DEF Init, NotLost
<1>2. PrInv /\ NotLost => NoItemLost
  <2> SUFFICES ASSUME PrInv, NotLost, pc = "done", ~ args.stage2_only, ~ args.single
               PROVE  /\ \A i \in DOMAIN items : Counted(i) =>
                           \E d \in dataset : d.id = items[i].id /\ d.score >= items[i].score
                      /\ \A d, e \in dataset : d.id = e.id => d = e
    BY DEF NoItemLost
  <2>1. dataset = Aggregated
    BY DEF NotLost
  <2>2. items \in Seq(ItemType)
    BY DEF PrInv, Types, OutputsOK
  <2>. QED  BY <2>1, <2>2, AggregatedKeeps
<1>. QED  BY <1>1, <1>2, PipelineInvariant, NextNotLost, PTL DEF Spec
=============================================================================
