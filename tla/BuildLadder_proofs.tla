--------------------------- MODULE BuildLadder_proofs ---------------------------
(***************************************************************************)
(* The proof that Stages 2 and 3 implement BuildLadder: every step of the  *)
(* pipeline is one of the ladder's, or leaves the ladder as it is.         *)
(***************************************************************************)
EXTENDS BuildPipeline_proofs

(* What the ladder sees, by the instance of it in BuildPipeline.           *)
Rung == IF pc \in {"queue", "done"} THEN "none" ELSE CoarseStatus(st)
Told == [i \in DOMAIN lines |-> lines[i].status]

(* The pairs of rungs that a step within the graph may go between.         *)
OneUp == {<<"failed", "env_inferred">>, <<"env_inferred", "dockerfile_rendered">>,
          <<"dockerfile_rendered", "image_built">>, <<"image_built", "baseline_test_passed">>,
          <<"baseline_test_passed", "task_constructed">>, <<"task_constructed", "generated">>,
          <<"generated", "tested">>, <<"tested", "scored">>}
Climbs == /\ bi' = bi /\ lines' = lines
          /\ Rung' = Rung \/ <<Rung, Rung'>> \in OneUp \union {<<"image_built", "failed">>}

(* At every place of the graph but its end the rung is known.              *)
OnRung ==
    /\ Place = "infer_env" =>
         Rung = IF st.image = NoTag THEN "failed" ELSE "image_built"
    /\ Place = "build_dockerfile" => Rung = "env_inferred"
    /\ Place = "docker_build" => Rung = "dockerfile_rendered"
    /\ Place \in Checking => Rung = "image_built"
    /\ Place \in Masking => Rung = "baseline_test_passed"
    /\ Place = "llm_generate" => Rung = "task_constructed"
    /\ Place \in Testing => Rung = "generated"
    /\ Place = "score" => Rung = "tested"
----------------------------------------------------------------------------
LEMMA PlaceHasRung == PrInv => OnRung
<1> SUFFICES ASSUME PrInv PROVE OnRung
  OBVIOUS
<1>1. CASE Active
  <2>1. st \in State /\ Stage(st, Place) /\ Cur \in PRs
    BY <1>1, Here
  <2>2. Rung = CoarseStatus(st)
    BY <1>1 DEF Rung, Active
  <2>3. Place = "infer_env" => Rung = IF st.image = NoTag THEN "failed" ELSE "image_built"
    <3> SUFFICES ASSUME Place = "infer_env"
                 PROVE  Rung = IF st.image = NoTag THEN "failed" ELSE "image_built"
      OBVIOUS
    <3>1. st = PrState(Cur, Manifest(Cur))
      BY <2>1 DEF Stage
    <3>2. /\ Untried(st) /\ st.compile = "none" /\ ~ st.dockerfile /\ st.source = "none"
          /\ st.build = IF st.image = NoTag THEN "none" ELSE "success"
      BY <3>1 DEF PrState, Untried
    <3>3. st.image = NoTag => AtBottom(st)
      BY <3>2 DEF AtBottom, Unbuilt, Early
    <3>4. st.image # NoTag => Built(st)
      BY <3>2 DEF Built, Early
    <3>. QED  BY <2>1, <2>2, <3>3, <3>4, RungOf
  <2>. QED  BY <2>1, <2>2, <2>3, RungOf DEF Stage, OnRung, Checking, Masking, Testing
<1>2. CASE ~ Active
  BY <1>2 DEF Active, OnRung, Place, Phases, Checking, Masking, Testing
<1>. QED  BY <1>1, <1>2

LEMMA NextPlaceHasRung == PrInv' => OnRung'
BY PlaceHasRung, PTL

(* A node that returns s puts the PR on the rung of s.                     *)
LEMMA ReturnsRung ==
  ASSUME PrInv, Active, NEW s, NEW next, next \notin {"queue", "done"}, Return(s, next)
  PROVE  /\ Rung' = CoarseStatus(s) /\ Rung = CoarseStatus(st)
         /\ bi' = bi /\ lines' = lines /\ st' = s
<1>1. st' = s /\ pc' = next
  BY Returned
<1>. QED  BY <1>1 DEF Rung, Active, Return, loop, outputs

(* A step that leaves the state of the PR alone leaves the rung.           *)
LEMMA KeepsRung ==
  ASSUME Active, pc' \notin {"queue", "done"}, UNCHANGED <<loop, channels, outputs>>
  PROVE  Climbs
<1>1. st' = st
  BY DEF loop, st, Cur, Work
<1>. QED  BY <1>1 DEF loop, outputs, Active, Rung, Climbs
----------------------------------------------------------------------------
(* Stage 2: the environment, the Dockerfile, the image, the baseline.      *)
LEMMA InferEnvClimbs == PrInv /\ PrInv' /\ InferEnv => Climbs
<1> SUFFICES ASSUME PrInv, PrInv', InferEnv PROVE Climbs
  OBVIOUS
<1>1. Active /\ Place = "infer_env"
  BY DEF InferEnv, Active, Place, Phases
<1>2. PICK framework \in Frameworks, source \in {"repo_dockerfile", "other"}, tests \in BOOLEAN :
        LET s == [st EXCEPT !.source = source, !.framework = framework, !.tests = tests]
        IN Return(s, RouteAfterInferEnv(s))
  BY DEF InferEnv
<1>3. PICK s : s = [st EXCEPT !.source = source, !.framework = framework, !.tests = tests]
  OBVIOUS
<1>4. st \in State
  BY <1>1, Here
<1>5. s.source = source /\ s.image = st.image
  BY <1>3, <1>4 DEF State
<1>6. PICK next : next = IF s.image = NoTag THEN "build_dockerfile" ELSE "compile_verify"
  OBVIOUS
<1>7. Return(s, next)
  BY <1>2, <1>3, <1>5, <1>6 DEF RouteAfterInferEnv
<1>8. pc' = next /\ bi' = bi /\ lines' = lines
  <2>1. next \notin {"queue", "done"}
    BY <1>6
  <2>2. pc' = next
    BY <1>7 DEF Return
  <2>. QED  BY <1>1, <1>7, <2>1, <2>2, ReturnsRung
<1>9. Place' = next
  BY <1>6, <1>8 DEF Place, Phases
<1>10. Rung' = IF s.image = NoTag THEN "env_inferred" ELSE "image_built"
  BY <1>6, <1>9, NextPlaceHasRung DEF OnRung, Checking
<1>11. Rung = IF s.image = NoTag THEN "failed" ELSE "image_built"
  BY <1>1, <1>5, PlaceHasRung DEF OnRung
<1>. QED  BY <1>8, <1>10, <1>11 DEF Climbs, OneUp

LEMMA InferEnvFailsClimbs == PrInv /\ InferEnvFails => Climbs
<1> SUFFICES ASSUME PrInv, InferEnvFails PROVE Climbs
  OBVIOUS
<1>1. Active /\ Place = "infer_env"
  BY DEF InferEnvFails, Active, Place, Phases
<1>2. st \in State /\ st = PrState(Cur, Manifest(Cur))
  BY <1>1, Here DEF Stage
<1>3. PICK s : s = [st EXCEPT !.source = "failed", !.build = "failed",
                              !.error = Error("infer_env", "infer_env_failed")]
  OBVIOUS
<1>4. s \in State
  <2>1. Error("infer_env", "infer_env_failed") \in Reason
    BY DEF Error, Reason, ReasonCodes
  <2>2. st \in State
    BY <1>2
  <2>. QED  BY <1>3, <2>1, <2>2 DEF State
<1>5. AtBottom(s) /\ s.source = "failed"
  BY <1>2, <1>3 DEF PrState, AtBottom, Unbuilt, Early, Untried
<1>6. Return(s, "summary")
  BY <1>3, <1>5 DEF InferEnvFails, RouteAfterInferEnv
<1>7. Rung' = "failed" /\ bi' = bi /\ lines' = lines
  BY <1>1, <1>4, <1>5, <1>6, ReturnsRung, RungOf
<1>8. Rung \in {"failed", "image_built"}
  BY <1>1, PlaceHasRung DEF OnRung
<1>. QED  BY <1>7, <1>8 DEF Climbs

(* A node that gives up, or starts over, leaves the PR on its rung.        *)
LEMMA SameRung ==
  ASSUME PrInv, Active, NEW s \in State, NEW next, next \notin {"queue", "done"},
         Return(s, next),
         \/ Inferred(st) /\ Inferred(s)
         \/ Rendered(st) /\ Rendered(s)
         \/ Built(st) /\ Built(s)
         \/ Verified(st) /\ Verified(s)
         \/ Tasked(st) /\ Tasked(s)
  PROVE  Climbs
<1>1. st \in State
  BY Here
<1>. QED  BY <1>1, ReturnsRung, RungOf DEF Climbs

(* A node that succeeds takes the PR one rung up.                          *)
LEMMA NextRung ==
  ASSUME PrInv, Active, NEW s \in State, NEW next, next \notin {"queue", "done"},
         Return(s, next),
         \/ Inferred(st) /\ Rendered(s)
         \/ Rendered(st) /\ Built(s)
         \/ Built(st) /\ Verified(s)
         \/ Verified(st) /\ Tasked(s)
         \/ Tasked(st) /\ Coded(s)
         \/ Coded(st) /\ Tested(s)
         \/ Tested(st) /\ Scored(s)
  PROVE  Climbs
<1>1. st \in State
  BY Here
<1>. QED  BY <1>1, ReturnsRung, RungOf DEF Climbs, OneUp

LEMMA DockerfileClimbs == PrInv /\ (BuildDockerfile \/ RenderFails) => Climbs
<1> SUFFICES ASSUME PrInv, BuildDockerfile \/ RenderFails PROVE Climbs
  OBVIOUS
<1>1. Active /\ Place = "build_dockerfile"
  BY DEF BuildDockerfile, RenderFails, Active, Place, Phases
<1>2. st \in State /\ Inferred(st) /\ st.pr \in PRs
  BY <1>1, Here DEF Stage
<1>3. CASE BuildDockerfile
  <2>1. PICK s : s = [st EXCEPT !.dockerfile = TRUE, !.image = Tag[st.pr]]
    OBVIOUS
  <2>2. Tag[st.pr] \in Tags
    BY <1>2, PipelineTypes
  <2>3. s \in State /\ Rendered(s) /\ s.dockerfile
    BY <1>2, <2>1, <2>2 DEF State, Rendered, Inferred, Unbuilt, Early, Untried
  <2>4. Return(s, "docker_build")
    BY <1>3, <2>1, <2>3 DEF BuildDockerfile, RouteAfterDockerfile
  <2>. QED  BY <1>1, <1>2, <2>3, <2>4, NextRung
<1>4. CASE RenderFails
  <2>1. PICK s : s = [st EXCEPT !.build = "failed",
                         !.error = Error("build_dockerfile", "dockerfile_render_failed")]
    OBVIOUS
  <2>2. Error("build_dockerfile", "dockerfile_render_failed") \in Reason
    BY DEF Error, Reason, ReasonCodes
  <2>3. s \in State
    BY <1>2, <2>1, <2>2 DEF State
  <2>4. Inferred(s) /\ ~ s.dockerfile
    BY <1>2, <2>1 DEF State, Inferred, Unbuilt, Early, Untried
  <2>5. Return(s, "summary")
    BY <1>4, <2>1, <2>4 DEF RenderFails, RouteAfterDockerfile
  <2>. QED  BY <1>1, <1>2, <2>3, <2>4, <2>5, SameRung
<1>. QED  BY <1>3, <1>4

LEMMA DockerBuildClimbs == PrInv /\ (DockerBuild \/ DockerBuildFails) => Climbs
<1> SUFFICES ASSUME PrInv, DockerBuild \/ DockerBuildFails PROVE Climbs
  OBVIOUS
<1>1. Active /\ Place = "docker_build"
  BY DEF DockerBuild, DockerBuildFails, Active, Place, Phases
<1>2. st \in State /\ Rendered(st) /\ st.retries < 3 /\ st.retries \in 0..3
  BY <1>1, Here DEF Stage, State
<1>3. \A s : RouteAfterBuild(s) \notin {"queue", "done"}
  BY DEF RouteAfterBuild
<1>4. CASE DockerBuild
  <2>1. PICK s : s = [st EXCEPT !.build = "success"]
    OBVIOUS
  <2>2. s \in State
    BY <1>2, <2>1 DEF State
  <2>3. Built(s)
    BY <1>2, <2>1 DEF State, Rendered, Unbuilt, Built, Early, Untried
  <2>4. Return(s, RouteAfterBuild(s))
    BY <1>4, <2>1 DEF DockerBuild
  <2>. QED  BY <1>1, <1>2, <1>3, <2>2, <2>3, <2>4, NextRung
<1>5. CASE DockerBuildFails
  <2>1. PICK s : s = [st EXCEPT !.build = "failed", !.retries = @ + 1,
                         !.error = Error("docker_build", "docker_build_failed")]
    OBVIOUS
  <2>2. Error("docker_build", "docker_build_failed") \in Reason
    BY DEF Error, Reason, ReasonCodes
  <2>3. st.retries + 1 \in 0..3
    BY <1>2
  <2>4. s \in State
    BY <1>2, <2>1, <2>2, <2>3 DEF State
  <2>5. Rendered(s)
    BY <1>2, <2>1 DEF State, Rendered, Unbuilt, Early, Untried
  <2>6. Return(s, RouteAfterBuild(s))
    BY <1>5, <2>1 DEF DockerBuildFails
  <2>. QED  BY <1>1, <1>2, <1>3, <2>4, <2>5, <2>6, SameRung
<1>. QED  BY <1>4, <1>5

LEMMA NoTestCommandsClimbs == PrInv /\ NoTestCommands => Climbs
<1> SUFFICES ASSUME PrInv, NoTestCommands PROVE Climbs
  OBVIOUS
<1>1. Active /\ Place = "compile_verify"
  BY DEF NoTestCommands, Active, Place, Phases
<1>2. st \in State /\ Built(st)
  BY <1>1, Here DEF Stage, Checking
<1>3. PICK s : s = [st EXCEPT !.compile = "failed",
                       !.error = Error("compile_verify", "test_framework_unsupported")]
  OBVIOUS
<1>4. Error("compile_verify", "test_framework_unsupported") \in Reason
  BY DEF Error, Reason, ReasonCodes
<1>5. s \in State
  BY <1>2, <1>3, <1>4 DEF State
<1>6. Built(s) /\ s.compile = "failed"
  BY <1>2, <1>3 DEF State, Built, Early, Untried
<1>7. Return(s, "summary")
  BY <1>3, <1>6 DEF NoTestCommands, RouteAfterCompile
<1>. QED  BY <1>1, <1>2, <1>5, <1>6, <1>7, SameRung

LEMMA BaselineVerdictClimbs == PrInv /\ BaselineVerdict => Climbs
<1> SUFFICES ASSUME PrInv, BaselineVerdict PROVE Climbs
  OBVIOUS
<1>1. /\ Active /\ st \in State /\ Built(st) /\ res \in Result
      /\ Outcome(res, st.framework) /\ res.reached # "none"
  BY AtVerdict DEF BaselineVerdict, Stage, Checking
<1>2. PICK s : s = AfterBaseline(st, res)
  OBVIOUS
<1>3. PICK next : next = RouteAfterCompile(s)
  OBVIOUS
<1>4. next \notin {"queue", "done"} /\ Return(s, next)
  <2>1. CASE s.compile \in {"success", "repaired"}
    BY <1>2, <1>3, <2>1 DEF BaselineVerdict, RouteAfterCompile
  <2>2. CASE s.compile \notin {"success", "repaired"}
    BY <1>2, <1>3, <2>2 DEF BaselineVerdict, RouteAfterCompile
  <2>. QED  BY <2>1, <2>2
<1>5. PICK t : t = [st EXCEPT !.baseline = res]
  OBVIOUS
<1>6. t \in State /\ Built(t) /\ t.baseline = res
  BY <1>1, <1>5, TestedType
<1>7. CASE \E reason \in ReasonCodes : s = Reject(st, reason) \/ s = Reject(t, reason)
  <2>1. s \in State /\ Built(s)
    BY <1>1, <1>6, <1>7, RejectType
  <2>. QED  BY <1>1, <1>4, <2>1, SameRung
<1>8. CASE s = Retry(st) /\ args.repair
  <2>1. st.rounds < 2
    BY AtVerdict DEF BaselineVerdict, Stage, Checking
  <2>2. s \in State /\ Built(s)
    BY <1>1, <1>8, <2>1, RetryType
  <2>. QED  BY <1>1, <1>4, <2>2, SameRung
<1>9. CASE s = [t EXCEPT !.compile = "success"] /\ res.compile /\ res.failed = 0
  <2>1. s \in State
    <3>1. t \in State
      BY <1>6
    <3>. QED  BY <1>9, <3>1 DEF State
  <2>2. Verified(s)
    BY <1>6, <1>9 DEF State, Built, Early, Untried, Verified
  <2>. QED  BY <1>1, <1>4, <2>1, <2>2, NextRung
<1>. QED  BY <1>1, <1>2, <1>5, <1>7, <1>8, <1>9, AfterBaselineCases
----------------------------------------------------------------------------
(* Stage 3: the task, the code, the tests and the score.                   *)
LEMMA NoTaskClimbs ==
  ASSUME PrInv, Active, Place \in Masking, NEW reason \in ReasonCodes, NoTaskFor(reason)
  PROVE  Climbs
<1>1. st \in State /\ Verified(st)
  BY Here DEF Stage
<1>2. PICK s : s = [st EXCEPT !.task = NoTask, !.error = Error("construct_task", reason)]
  OBVIOUS
<1>3. s \in State
  <2>1. Error("construct_task", reason) \in Reason
    BY DEF Error, Reason
  <2>2. NoTask \in Task
    BY DEF NoTask, Task, NoResult, Result
  <2>3. st \in State
    BY <1>1
  <2>. QED  BY <1>2, <2>1, <2>2, <2>3 DEF State
<1>4. Verified(s) /\ s.task = NoTask
  BY <1>1, <1>2 DEF State, Verified, Untried
<1>5. Return(s, "summary")
  BY <1>2, <1>4 DEF NoTaskFor, RouteAfterConstructTask
<1>. QED  BY <1>1, <1>3, <1>4, <1>5, SameRung

LEMMA MaskingClimbs ==
  PrInv /\ (ConstructTask \/ MaskFails \/ TruthFails \/ TruthHolds) => Climbs
<1> SUFFICES ASSUME PrInv, ConstructTask \/ MaskFails \/ TruthFails \/ TruthHolds
             PROVE  Climbs
  OBVIOUS
<1>1. Active /\ Place \in Masking
  BY DEF ConstructTask, MaskFails, TruthFails, TruthHolds, Verdict, Active, Place, Phases,
         Masking
<1>2. \/ \E reason \in ReasonCodes : NoTaskFor(reason)
      \/ pc' \in {"mask", "context"} /\ UNCHANGED <<loop, channels, outputs>>
  <2>1. CASE ConstructTask
    BY <2>1 DEF ConstructTask, ReasonCodes
  <2>2. CASE MaskFails
    BY <2>2 DEF MaskFails, NextRange, ReasonCodes
  <2>3. CASE TruthFails
    BY <2>3 DEF TruthFails, ReasonCodes
  <2>4. CASE TruthHolds
    BY <2>4 DEF TruthHolds, Phase
  <2>. QED  BY <2>1, <2>2, <2>3, <2>4
<1>. QED  BY <1>1, <1>2, NoTaskClimbs, KeepsRung

LEMMA BuildTaskClimbs == PrInv /\ PrInv' /\ BuildTask => Climbs
<1> SUFFICES ASSUME PrInv, PrInv', BuildTask PROVE Climbs
  OBVIOUS
<1>1. Active /\ Place = "context"
  BY DEF BuildTask, Active, Place, Phases
<1>2. st \in State /\ st.pr \in PRs
  BY <1>1, Here DEF Stage
<1>3. PICK truth \in Truths :
        LET s == [st EXCEPT !.task = [of |-> st.pr, truth |-> truth, mask |-> mask,
                                      restored |-> res]]
        IN Return(s, RouteAfterConstructTask(s))
  BY DEF BuildTask
<1>4. PICK task : task = [of |-> st.pr, truth |-> truth, mask |-> mask, restored |-> res]
  OBVIOUS
<1>5. PICK s : s = [st EXCEPT !.task = task]
  OBVIOUS
<1>6. s.task = task
  BY <1>2, <1>5 DEF State
<1>7. task # NoTask
  <2>1. task.of # NoTask.of
    BY <1>2, <1>4, PipelineTypes DEF NoTask
  <2>. QED  BY <2>1
<1>8. Return(s, "llm_generate")
  BY <1>3, <1>4, <1>5, <1>6, <1>7 DEF RouteAfterConstructTask
<1>9. pc' = "llm_generate" /\ bi' = bi /\ lines' = lines
  BY <1>8 DEF Return, loop, outputs
<1>10. Place' = "llm_generate"
  BY <1>9 DEF Place, Phases
<1>11. Rung' = "task_constructed"
  BY <1>10, NextPlaceHasRung DEF OnRung
<1>12. Rung = "baseline_test_passed"
  BY <1>1, PlaceHasRung DEF OnRung, Masking
<1>. QED  BY <1>9, <1>11, <1>12 DEF Climbs, OneUp

LEMMA GenerateClimbs == PrInv /\ (MockGenerate \/ Generate \/ GenerateFails) => Climbs
<1> SUFFICES ASSUME PrInv, MockGenerate \/ Generate \/ GenerateFails PROVE Climbs
  OBVIOUS
<1>1. Active /\ Place = "llm_generate"
  BY DEF MockGenerate, Generate, GenerateFails, Active, Place, Phases
<1>2. st \in State /\ Tasked(st)
  BY <1>1, Here DEF Stage
<1>3. PICK s \in State :
        Return(s, RouteAfterGenerate(s)) /\ s.task = st.task /\ s.result = st.result
        /\ s.score = st.score
  <2>1. CASE MockGenerate \/ Generate
    <3>1. PICK code \in {"", "code"} :
            LET s == [st EXCEPT !.code = code] IN Return(s, RouteAfterGenerate(s))
      <4>1. CASE MockGenerate
        BY <4>1 DEF MockGenerate
      <4>2. CASE Generate
        BY <4>2 DEF Generate
      <4>. QED  BY <2>1, <4>1, <4>2
    <3>2. PICK s : s = [st EXCEPT !.code = code]
      OBVIOUS
    <3>3. s \in State
      BY <1>2, <3>2 DEF State
    <3>4. s.task = st.task /\ s.result = st.result /\ s.score = st.score
      BY <1>2, <3>2 DEF State
    <3>. QED  BY <3>1, <3>2, <3>3, <3>4
  <2>2. CASE GenerateFails
    <3>1. PICK reason \in {"llm_timeout", "empty_generation"} :
            LET s == [st EXCEPT !.code = "", !.error = Error("llm_generate", reason)]
            IN Return(s, RouteAfterGenerate(s))
      BY <2>2 DEF GenerateFails
    <3>2. PICK s : s = [st EXCEPT !.code = "", !.error = Error("llm_generate", reason)]
      OBVIOUS
    <3>3. Error("llm_generate", reason) \in Reason
      BY DEF Error, Reason, ReasonCodes
    <3>4. s \in State
      BY <1>2, <3>2, <3>3 DEF State
    <3>5. s.task = st.task /\ s.result = st.result /\ s.score = st.score
      BY <1>2, <3>2 DEF State
    <3>. QED  BY <3>1, <3>2, <3>4, <3>5
  <2>. QED  BY <2>1, <2>2
<1>4. RouteAfterGenerate(s) \notin {"queue", "done"}
  BY DEF RouteAfterGenerate
<1>5. CASE s.code = ""
  <2>1. Tasked(s)
    BY <1>2, <1>3, <1>5 DEF Tasked
  <2>. QED  BY <1>1, <1>2, <1>3, <1>4, <2>1, SameRung
<1>6. CASE s.code # ""
  <2>1. Coded(s)
    BY <1>2, <1>3, <1>6 DEF Tasked, Coded
  <2>. QED  BY <1>1, <1>2, <1>3, <1>4, <2>1, NextRung
<1>. QED  BY <1>5, <1>6

LEMMA TestsVerdictClimbs == PrInv /\ PrInv' /\ TestsVerdict => Climbs
<1> SUFFICES ASSUME PrInv, PrInv', TestsVerdict PROVE Climbs
  OBVIOUS
<1>1. Active /\ Place = "code" /\ st \in State /\ res.reached # "none"
  BY AtVerdict DEF TestsVerdict, Verdict, Place, Phases
<1>2. PICK s : s = [st EXCEPT !.result = res, !.error = TestError(res)]
  OBVIOUS
<1>3. s.result = res
  BY <1>1, <1>2 DEF State
<1>4. res # NoResult
  BY <1>1 DEF NoResult
<1>5. Return(s, "score")
  BY <1>2, <1>3, <1>4 DEF TestsVerdict, RouteAfterRunTests
<1>6. pc' = "score" /\ bi' = bi /\ lines' = lines
  BY <1>5 DEF Return, loop, outputs
<1>7. Place' = "score"
  BY <1>6 DEF Place, Phases
<1>8. Rung' = "tested"
  BY <1>7, NextPlaceHasRung DEF OnRung
<1>9. Rung = "generated"
  BY <1>1, PlaceHasRung DEF OnRung, Testing
<1>. QED  BY <1>6, <1>8, <1>9 DEF Climbs, OneUp

LEMMA EndHasEnded == PrInv /\ pc = "summary" => st \in State /\ Ended(st)
<1> SUFFICES ASSUME PrInv, pc = "summary" PROVE st \in State /\ Ended(st)
  OBVIOUS
<1>1. Active /\ Place = "summary"
  BY DEF Active, Place, Phases
<1>. QED  BY <1>1, Here DEF Stage

LEMMA NextEndHasEnded == PrInv' /\ (pc = "summary")' => (st \in State /\ Ended(st))'
BY EndHasEnded, PTL

(* A state that has a test result can only end with a score.               *)
LEMMA ScoreClimbs == PrInv /\ PrInv' /\ Score => Climbs
<1> SUFFICES ASSUME PrInv, PrInv', Score PROVE Climbs
  OBVIOUS
<1>1. Active /\ Place = "score"
  BY DEF Score, Active, Place, Phases
<1>2. st \in State /\ Tested(st)
  BY <1>1, Here DEF Stage
<1>3. PICK score : Return([st EXCEPT !.score = score], "summary")
  BY DEF Score
<1>4. PICK s : s = [st EXCEPT !.score = score]
  OBVIOUS
<1>5. s.result = st.result
  BY <1>2, <1>4 DEF State
<1>6. Return(s, "summary")
  BY <1>3, <1>4
<1>7. pc' = "summary" /\ st' = s
  BY <1>1, <1>6, Returned
<1>8. s \in State /\ Ended(s)'
  BY <1>7, NextEndHasEnded DEF Ended
<1>9. Scored(s)
  BY <1>2, <1>5, <1>8
     DEF Tested, Ended, AtBottom, Inferred, Rendered, Built, Verified, Tasked, Unbuilt, Early,
         Untried
<1>. QED  BY <1>1, <1>2, <1>6, <1>8, <1>9, NextRung

(* A step into a session, within one or out of the graph's control leaves  *)
(* the PR where it is.                                                     *)
LEMMA SessionClimbs ==
  ASSUME PrInv,
         Session \/ StartBaseline \/ TryMask \/ MaskWorks \/ RunTests \/ Raise
  PROVE  Climbs
<1>1. CASE Session
  BY <1>1, KeepsRung
     DEF Session, RunContainer, RunFails, Inject, InjectFails, RunBuildCmds, BuildCmdsFail,
         RunTestCmds, StopContainer, Phase, Active
<1>2. CASE StartBaseline \/ TryMask \/ MaskWorks \/ RunTests
  BY <1>2, KeepsRung DEF StartBaseline, TryMask, MaskWorks, RunTests, Verdict, Enter, Active
<1>3. CASE Raise
  BY <1>3, KeepsRung DEF Raise, Active
<1>. QED  BY <1>1, <1>2, <1>3

LEMMA GraphClimbs ==
  PrInv /\ PrInv' /\ (Stage2 \/ Session \/ Stage3 \/ Raise) => Climbs
BY InferEnvClimbs, InferEnvFailsClimbs, DockerfileClimbs, DockerBuildClimbs, NoTestCommandsClimbs,
   BaselineVerdictClimbs, MaskingClimbs, BuildTaskClimbs, GenerateClimbs, TestsVerdictClimbs,
   ScoreClimbs, SessionClimbs DEF Stage2, Stage3
----------------------------------------------------------------------------
(* The instance of BuildLadder speaks of bi, Rung and Told.                *)
LEMMA ToldAppend ==
  ASSUME PrInv, NEW line, lines' = Append(lines, line)
  PROVE  Told' = Append(Told, line.status)
<1>1. lines \in Seq(Line) /\ Len(lines) \in Nat
  BY DEF PrInv, Types, OutputsOK
<1>2. DOMAIN lines' = 1..(Len(lines) + 1) /\ DOMAIN lines = 1..Len(lines)
  BY <1>1
<1>3. \A i \in 1..(Len(lines) + 1) :
        lines'[i] = IF i = Len(lines) + 1 THEN line ELSE lines[i]
  BY <1>1
<1>4. Told = [i \in 1..Len(lines) |-> lines[i].status]
  BY <1>2 DEF Told
<1>5. Told' = [i \in 1..(Len(lines) + 1) |->
                IF i = Len(lines) + 1 THEN line.status ELSE lines[i].status]
  BY <1>2, <1>3 DEF Told
<1>6. Told \in Seq(Statuses) /\ Len(Told) = Len(lines)
  <2>1. ASSUME NEW i \in 1..Len(lines) PROVE lines[i].status \in Statuses
    <3>1. lines[i] \in Line
      BY <1>1
    <3>. QED  BY <3>1 DEF Line
  <2>. QED  BY <1>1, <1>4, <2>1
<1>. QED  BY <1>1, <1>4, <1>5, <1>6

LEMMA InitRungs == Init => Rungs!LadderInit
<1> SUFFICES ASSUME Init PROVE Rungs!LadderInit
  OBVIOUS
<1>1. bi = 1 /\ Rung = "none" /\ lines = <<>>
  BY DEF Init, Rung
<1>2. Told = <<>>
  BY <1>1 DEF Told
<1>. QED  BY <1>1, <1>2 DEF Rungs!LadderInit, Rung, Told

LEMMA ClimbStep ==
  ASSUME Climbs
  PROVE  [Rungs!Climb \/ Rungs!Refuse]_(Rungs!ladderVars)
<1>1. bi' = bi /\ Told' = Told
  BY DEF Climbs, Told
<1>2. CASE Rung' = Rung
  BY <1>1, <1>2 DEF Rungs!ladderVars, Rung, Told
<1>3. CASE Rung = "image_built" /\ Rung' = "failed"
  BY <1>1, <1>3 DEF Rungs!Refuse, Rung, Told
<1>4. CASE <<Rung, Rung'>> \in OneUp
  <2>1. \E n \in 1..8 : Rung = Rungs!Ladder[n] /\ Rung' = Rungs!Ladder[n + 1]
    BY <1>4 DEF OneUp, Rungs!Ladder
  <2>2. Len(Rungs!Ladder) - 1 = 8
    BY DEF Rungs!Ladder
  <2>. QED  BY <1>1, <2>1, <2>2 DEF Rungs!Climb, Rung, Told
<1>. QED  BY <1>2, <1>3, <1>4 DEF Climbs

LEMMA BatchStep ==
  ASSUME PrInv, PrInv', Batch \/ Kill
  PROVE  [Rungs!TakePr \/ Rungs!Summarise \/ Rungs!StartOver]_(Rungs!ladderVars)
<1>1. Len(Work) <= Len(Queue) /\ Len(Work) \in Nat /\ Len(Queue) \in Nat /\ bi \in Nat
  BY WorkType, PipelineTypes DEF PrInv, Types, LoopOK
<1>2. CASE MissingImage
  <2>1. /\ pc = "queue" /\ pc' = "queue" /\ bi <= Len(Queue) /\ bi' = bi + 1
    BY <1>1, <1>2 DEF MissingImage
  <2>2. PICK line : /\ lines' = Append(lines, line)
                    /\ line.status = "failed"
    BY <1>2 DEF MissingImage
  <2>3. Told' = Append(Told, "failed")
    BY <2>2, ToldAppend
  <2>4. Rung = "none" /\ Rung' = "none"
    BY <2>1 DEF Rung
  <2>. QED  BY <2>1, <2>3, <2>4 DEF Rungs!Summarise, Rungs!Tell, Rung, Told
<1>3. CASE StartPr
  <2>1. /\ pc = "queue" /\ pc' = "infer_env" /\ bi <= Len(Queue) /\ bi' = bi /\ lines' = lines
    BY <1>1, <1>3 DEF StartPr, loop, outputs
  <2>2. Rung = "none" /\ Told' = Told
    BY <2>1 DEF Rung, Told
  <2>3. Place' = "infer_env"
    BY <2>1 DEF Place, Phases
  <2>4. Rung' \in {"failed", "image_built"}
    BY <2>3, NextPlaceHasRung DEF OnRung
  <2>. QED  BY <2>1, <2>2, <2>4 DEF Rungs!TakePr, Rung, Told
<1>4. CASE WriteSummary
  <2>1. pc = "summary" /\ pc' = "queue" /\ bi' = bi + 1
    BY <1>4 DEF WriteSummary
  <2>2. PICK line : /\ lines' = Append(lines, line)
                    /\ line.status = CoarseStatus(st)
    BY <1>4 DEF WriteSummary
  <2>3. Told' = Append(Told, CoarseStatus(st))
    BY <2>2, ToldAppend
  <2>4. Rung = CoarseStatus(st) /\ Rung' = "none"
    BY <2>1 DEF Rung
  <2>5. CoarseStatus(st) # "none"
    <3>1. st \in State /\ Ended(st)
      BY <2>1, EndHasEnded
    <3>. QED  BY <3>1, EndedStatus DEF Statuses
  <2>. QED  BY <2>1, <2>3, <2>4, <2>5 DEF Rungs!Summarise, Rungs!Tell, Rung, Told
<1>5. CASE Finish
  <2>1. pc = "queue" /\ pc' = "done" /\ bi' = bi /\ lines' = lines
    BY <1>5 DEF Finish, loop
  <2>2. Rung = "none" /\ Rung' = "none" /\ Told' = Told
    BY <2>1 DEF Rung, Told
  <2>. QED  BY <2>1, <2>2 DEF Rungs!ladderVars, Rung, Told
<1>6. CASE Kill
  <2>1. pc' = "queue" /\ bi' = 1 /\ lines' = <<>>
    BY <1>6 DEF Kill
  <2>2. Rung' = "none" /\ Told' = <<>>
    BY <2>1 DEF Rung, Told
  <2>. QED  BY <2>1, <2>2 DEF Rungs!StartOver, Rung, Told
<1>. QED  BY <1>2, <1>3, <1>4, <1>5, <1>6 DEF Batch

LEMMA StutterRungs == ASSUME UNCHANGED vars PROVE UNCHANGED Rungs!ladderVars
<1>1. pc' = pc /\ bi' = bi /\ lines' = lines /\ st' = st
  BY DEF vars, loop, outputs, st, Cur, Work
<1>2. Rung' = Rung /\ Told' = Told
  BY <1>1 DEF Rung, Told
<1>. QED  BY <1>1, <1>2 DEF Rungs!ladderVars, Rung, Told

(* Stages 2 and 3 implement the ladder: whatever fails, however often the  *)
(* process is killed and whichever PRs share a thread or a tag, a PR       *)
(* begins at the bottom or with an image that was built before, climbs one *)
(* rung at a time, and its line in the output names the rung it reached.   *)
THEOREM PipelineImplementsLadder == Spec => ClimbsLadder
<1>1. ASSUME PrInv, PrInv', [Next]_vars
      PROVE  [Rungs!TakePr \/ Rungs!Climb \/ Rungs!Refuse \/ Rungs!Summarise
                \/ Rungs!StartOver]_(Rungs!ladderVars)
  <2>1. CASE Stage2 \/ Session \/ Stage3 \/ Raise
    <3>1. Climbs
      BY <1>1, <2>1, GraphClimbs
    <3>. QED  BY <3>1, ClimbStep
  <2>2. CASE Batch \/ Kill
    BY <1>1, <2>2, BatchStep
  <2>3. CASE UNCHANGED vars
    BY <2>3, StutterRungs
  <2>. QED  BY <1>1, <2>1, <2>2, <2>3 DEF Next
<1>. QED  BY <1>1, InitRungs, PipelineInvariant, PTL
          DEF Spec, ClimbsLadder, Rungs!LadderSpec
=============================================================================
