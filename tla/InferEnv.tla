------------------------------- MODULE InferEnv -------------------------------
(***************************************************************************)
(* infer_env: how a repository at head_sha is to be built and tested.  The *)
(* first of these gives the answer: a Dockerfile that can be used, the run *)
(* steps of the workflows, the defaults of the language; or the PR ends.   *)
(* Workflows are not parsed as YAML but walked line by line.               *)
(*                                                                         *)
(* Simplifications.  A line of a script is a text with the properties the  *)
(* patterns look for.  A workflow is given by its steps, as GitHub reads   *)
(* it, and laid out in lines for the code.  Base image and framework are   *)
(* left out.  A file that is empty or too large is not in the repository.  *)
(* Another Dockerfile line than FROM, COPY, CMD and ENTRYPOINT is left out.*)
(***************************************************************************)
EXTENDS Integers, SequencesExt

CONSTANTS
    Lines,       \* lines of scripts, stripped
    Relevant,    \* Relevant[kind]: lines with a pattern of the kind
    Support,     \* lines with a support pattern
    Excluded,    \* lines with an exclude pattern
    Bullets,     \* lines that look like the next YAML key or item
    Normal,      \* Normal[l]: l with "python" spelt "python3"
    Packages,    \* Packages[l]: what follows "apt-get install" in l
    Python,      \* lines that call python3
    External,    \* references to images that look like stages of another file
    Repos        \* repositories, see below

Kinds == {"build", "test"}
NoText == "no text"

ASSUME InferTypes ==
    /\ Relevant \in [Kinds -> SUBSET Lines]
    /\ NoText \notin Lines
    /\ Support \subseteq Lines /\ Excluded \subseteq Lines
    /\ Bullets \subseteq Lines /\ Python \subseteq Lines
    /\ Normal \in [Lines -> Lines]
    /\ DOMAIN Packages = Lines

(* A command spelt anew is not spelt differently once more.  Lines in      *)
(* which the word python comes twice in a row are the exception, and left  *)
(* out: the pattern takes the space between them for the first word.       *)
ASSUME NormalIsFinal == \A l \in Lines : Normal[Normal[l]] = Normal[l]

Command == Seq(Lines) \ {<<>>}
RunStep ==
    {s \in [form : {"block", "inline", "other", "uses"}, named : BOOLEAN, script : Seq(Lines)] :
        s.form = "inline" => Len(s.script) = 1}
DockerLine == [op : STRING, ref : STRING, alias : STRING]

(* What a repository is: a file or none for each of DOCKERFILE_PATHS, the  *)
(* workflows, and the defaults of the language with what decides on them.  *)
ASSUME RepoTypes ==
    \A r \in Repos :
        /\ r.dockerfiles \in Seq(Seq(DockerLine)) \ {<<>>}
        /\ r.workflows \in Seq(Seq(RunStep))
        /\ r.commands.build \in Command /\ r.commands.test \in Command

VARIABLES
    repo,     \* [dockerfiles, workflows, default]
    tree,     \* the tree of the repository was listed
    i,        \* the Dockerfile path or the workflow at hand
    found,    \* what the workflows gave so far: [build, test, deps]
    env,      \* env_spec
    pc        \* "tree", "project", "dockerfile", "workflow", "done", "raised"

vars == <<repo, tree, i, found, env, pc>>
----------------------------------------------------------------------------
(* A step runs a script ("block" is run: |, "inline" run: x, "other" one   *)
(* of run: |- and run: >) or nothing ("uses").  It begins with its name or *)
(* with its run key.                                                       *)
Raw(is, text) == [is |-> is, text |-> text]
RawStep(s) ==
    LET name == IF s.named THEN <<Raw("key", NoText)>> ELSE <<>>
        run  == CASE s.form = "block"  -> Raw("run |", NoText)
                  [] s.form = "inline" -> Raw("run x", s.script[1])
                  [] s.form = "other"  -> Raw("run x", NoText)
                  [] s.form = "uses"   -> Raw("key", NoText)
        text == IF s.form \in {"block", "other"}
                THEN [k \in DOMAIN s.script |-> Raw("text", s.script[k])] ELSE <<>>
    IN name \o <<run>> \o text
RawLines(workflow) == FlattenSeq([k \in DOMAIN workflow |-> RawStep(workflow[k])])

(* prune_block: the relevant lines, and before the first of them those of  *)
(* support; no command if no line is relevant or none is kept.             *)
Kept(kind, script, k) ==
    /\ script[k] \notin Excluded
    /\ \/ script[k] \in Relevant[kind]
       \/ /\ script[k] \in Support
          /\ \A j \in 1..(k - 1) : script[j] \notin Relevant[kind] \ Excluded
Pruned(kind, script) ==
    LET keep(lines, k) == IF Kept(kind, script, k) THEN Append(lines, script[k]) ELSE lines
        kept == FoldLeftDomain(keep, <<>>, script)
    IN IF ToSet(script) \cap Relevant[kind] = {} \/ kept = <<>> THEN <<>> ELSE <<kept>>

(* extract_run_steps: the walk over the lines.                             *)
Ends(raw) == raw.is # "text" \/ raw.text \in Bullets
CloseRun(kind, p) ==
    IF p.open THEN [open |-> FALSE, run |-> <<>>, out |-> p.out \o Pruned(kind, p.run)] ELSE p

\* Mutant of WalkLine: the line that ends a block is not looked at again.
WalkLineOnce(kind, p, raw) ==
    CASE raw.is = "run |"        -> [p EXCEPT !.open = TRUE, !.run = <<>>]
      [] p.open /\ ~ Ends(raw)   -> [p EXCEPT !.run = Append(@, raw.text)]
      [] p.open /\ Ends(raw)     -> CloseRun(kind, p)
      [] raw.is = "run x" /\ ~ p.open -> [p EXCEPT !.out = @ \o Pruned(kind, <<raw.text>>)]
      [] OTHER                   -> p

WalkLine(kind, p, raw) ==
    CASE raw.is = "run |"        -> [p EXCEPT !.open = TRUE, !.run = <<>>]
      [] p.open /\ ~ Ends(raw)   -> [p EXCEPT !.run = Append(@, raw.text)]
      [] raw.is = "run x"        -> LET q == CloseRun(kind, p)
                                    IN [q EXCEPT !.out = @ \o Pruned(kind, <<raw.text>>)]
      [] OTHER                   -> CloseRun(kind, p)

AppendNew(s, x) == IF Contains(s, x) THEN s ELSE Append(s, x)
RunSteps(workflow, kind) ==
    LET walk(p, raw) == WalkLine(kind, p, raw)
        end == FoldLeft(walk, [open |-> FALSE, run |-> <<>>, out |-> <<>>], RawLines(workflow))
    IN FoldLeft(AppendNew, <<>>, CloseRun(kind, end).out)
----------------------------------------------------------------------------
(* extract_apt_installs looks at every line of the file.                   *)
AptInstalls(workflow) ==
    LET raws == RawLines(workflow)
    IN UNION {Packages[raws[k].text] : k \in {n \in DOMAIN raws : raws[n].text # NoText}}

NormalizeCommand(command) == [k \in DOMAIN command |-> Normal[command[k]]]

\* Mutant of AddCommands: a command that is there already is added again.
AddCommandsAlways(commands, new) ==
    commands \o [k \in DOMAIN new |-> NormalizeCommand(new[k])]

(* The walk's commands are compared with the normalized ones.              *)
AddCommands(commands, new) ==
    LET add(cs, c) == IF Contains(cs, c) THEN cs ELSE Append(cs, NormalizeCommand(c))
    IN FoldLeft(add, commands, new)

(* _augment_system_deps_for_commands.                                      *)
Augmented(deps, build, test) ==
    LET commands == build \o test
    IN deps \union IF \E k \in DOMAIN commands : ToSet(commands[k]) \cap Python # {}
                   THEN {"python3"} ELSE {}

(* _default_build_cmds, _default_test_cmds: by the interop type, by what   *)
(* is in the tree, or nothing; the test commands of a PR are never set.    *)
HasDefault  == repo.default = "type" \/ (repo.default = "tree" /\ tree)
DefaultTest  == IF HasDefault THEN <<NormalizeCommand(repo.commands.test)>> ELSE <<>>
DefaultBuild == IF HasDefault THEN <<NormalizeCommand(repo.commands.build)>> ELSE <<>>

(* _dockerfile_has_unresolved_stage_aliases.                               *)
Declared(dockerfile, k) ==
    {dockerfile[j].alias : j \in {n \in 1..(k - 1) : dockerfile[n].op = "FROM"}}
Unresolved(dockerfile) ==
    \E k \in DOMAIN dockerfile :
        /\ dockerfile[k].op \in {"FROM", "COPY"}
        /\ dockerfile[k].ref \in External \ Declared(dockerfile, k)

(* patch_cmd_to_test: the last CMD or ENTRYPOINT becomes the first test.   *)
Patched(dockerfile, tests) ==
    LET starts == {k \in DOMAIN dockerfile : dockerfile[k].op \in {"CMD", "ENTRYPOINT"}}
        test   == [op |-> "CMD", ref |-> "tests", alias |-> ""]
    IN IF tests = <<>> THEN dockerfile
       ELSE IF starts = {} THEN Append(dockerfile, test)
       ELSE [dockerfile EXCEPT ![Max(starts)] = test]
----------------------------------------------------------------------------
NoFile == <<>>
NoEnv  == [source |-> "none", deps |-> {}, build |-> <<>>, test |-> <<>>,
           dockerfile |-> NoFile]
NoCommands == [build |-> <<>>, test |-> <<>>, deps |-> {}]

Init ==
    /\ repo \in Repos /\ tree = FALSE /\ i = 1
    /\ found = NoCommands /\ env = NoEnv /\ pc = "tree"

(* get_repo_tree: a failure is an empty tree.                              *)
GetTree ==
    /\ pc = "tree" /\ pc' = "project"
    /\ tree' \in BOOLEAN
    /\ UNCHANGED <<repo, i, found, env>>

(* _collect_project_content: framework and base image, or an exception.    *)
ReadProject ==
    /\ pc = "project" /\ pc' = "dockerfile"
    /\ UNCHANGED <<repo, tree, i, found, env>>

Infer(source, deps, build, test, dockerfile) ==
    /\ env' = [source |-> source, deps |-> Augmented(deps, build, test),
               build |-> build, test |-> test, dockerfile |-> dockerfile]
    /\ pc' = "done"

(* The next of DOCKERFILE_PATHS: a file that is not there, or that needs   *)
(* stages of another one, is passed over.                                  *)
NextPath ==
    /\ IF i < Len(repo.dockerfiles) THEN i' = i + 1 /\ UNCHANGED pc
       ELSE i' = 1 /\ pc' = "workflow"
    /\ UNCHANGED <<repo, tree, found, env>>

NoDockerfile ==
    /\ pc = "dockerfile"
    /\ repo.dockerfiles[i] = NoFile \/ Unresolved(repo.dockerfiles[i])
    /\ NextPath

UseDockerfile ==
    /\ pc = "dockerfile"
    /\ repo.dockerfiles[i] # NoFile /\ ~ Unresolved(repo.dockerfiles[i])
    /\ Infer("repo_dockerfile", {}, DefaultBuild, DefaultTest,
             Patched(repo.dockerfiles[i], DefaultTest))
    /\ UNCHANGED <<repo, tree, i, found>>

(* The workflows are known from the tree.                                  *)
WorkflowPaths == IF tree THEN repo.workflows ELSE <<>>

\* Mutant of ReadWorkflow: only the last workflow counts.
ReadWorkflowLast ==
    /\ pc = "workflow" /\ i <= Len(WorkflowPaths)
    /\ LET w == WorkflowPaths[i] IN
         found' = [deps  |-> AptInstalls(w),
                   build |-> AddCommands(<<>>, RunSteps(w, "build")),
                   test  |-> AddCommands(<<>>, RunSteps(w, "test"))]
    /\ i' = i + 1
    /\ UNCHANGED <<repo, tree, env, pc>>

ReadWorkflow ==
    /\ pc = "workflow" /\ i <= Len(WorkflowPaths)
    /\ LET w == WorkflowPaths[i] IN
         found' = [deps  |-> found.deps \union AptInstalls(w),
                   build |-> AddCommands(found.build, RunSteps(w, "build")),
                   test  |-> AddCommands(found.test, RunSteps(w, "test"))]
    /\ i' = i + 1
    /\ UNCHANGED <<repo, tree, env, pc>>

\* Mutant of UseWorkflows: build commands are enough.
UseWorkflowsToBuild ==
    /\ pc = "workflow" /\ i > Len(WorkflowPaths)
    /\ found.test # <<>> \/ found.build # <<>>
    /\ LET build == IF found.build = <<>> THEN DefaultBuild ELSE found.build
       IN Infer("github_actions", found.deps, build, found.test, NoFile)
    /\ UNCHANGED <<repo, tree, i, found>>

(* The workflows are enough when they test.                                *)
UseWorkflows ==
    /\ pc = "workflow" /\ i > Len(WorkflowPaths) /\ found.test # <<>>
    /\ LET build == IF found.build = <<>> THEN DefaultBuild ELSE found.build
       IN Infer("github_actions", found.deps, build, found.test, NoFile)
    /\ UNCHANGED <<repo, tree, i, found>>

UseDefaults ==
    /\ pc = "workflow" /\ i > Len(WorkflowPaths) /\ found.test = <<>>
    /\ IF DefaultTest = <<>>
       THEN env' = [NoEnv EXCEPT !.source = "failed"] /\ pc' = "done"
       ELSE Infer("llm", {}, DefaultBuild, DefaultTest, NoFile)
    /\ UNCHANGED <<repo, tree, i, found>>

(* get_file_content raises: the node does too.                             *)
Raise ==
    /\ pc \in {"project", "dockerfile"} \/ (pc = "workflow" /\ i <= Len(WorkflowPaths))
    /\ pc' = "raised"
    /\ UNCHANGED <<repo, tree, i, found, env>>

Next ==
    \/ GetTree \/ ReadProject \/ NoDockerfile \/ UseDockerfile \/ ReadWorkflow
    \/ UseWorkflows \/ UseDefaults \/ Raise

Spec == Init /\ [][Next]_vars
----------------------------------------------------------------------------
IsCommands(cs) == \A k \in DOMAIN cs : ToSet(cs[k]) \subseteq Lines /\ cs[k] # <<>>

(* The variables keep their types; and as BuildPipeline assumes, only a    *)
(* Dockerfile of the repository can come without test commands.            *)
TypeOK ==
    /\ i \in 1..(Max({Len(repo.dockerfiles), Len(repo.workflows)}) + 1)
    /\ IsCommands(found.build) /\ IsCommands(found.test)
    /\ IsCommands(env.build) /\ IsCommands(env.test)
    /\ env.source \in {"github_actions", "llm"} => env.test # <<>>
    /\ env.source = "none" <=> pc # "done"

(* A workflow as GitHub reads it: the commands of its steps one by one.  A *)
(* script is taken up to the first line that looks like the next key.      *)
UpToBullet(script) ==
    LET bullets == {k \in DOMAIN script : script[k] \in Bullets}
    IN IF bullets = {} THEN script ELSE SubSeq(script, 1, Min(bullets) - 1)
StepCommands(step, kind) ==
    CASE step.form = "block"  -> Pruned(kind, UpToBullet(step.script))
      [] step.form = "inline" -> Pruned(kind, step.script)
      [] OTHER                -> <<>>
Stepwise(workflow, kind) ==
    FlattenSeq([k \in DOMAIN workflow |-> StepCommands(workflow[k], kind)])

Separated(workflow) ==
    \A k \in 1..(Len(workflow) - 1) :
        workflow[k].form = "block" /\ workflow[k + 1].form = "block" => workflow[k + 1].named

(* The walk over the lines finds the commands of the steps, in order and   *)
(* each once: no script runs into the next step, none is dropped at a key  *)
(* or at the end of the file.  Two blocks without a name between them are  *)
(* the exception (see RunBlocksAreFound).                                  *)
WalkIsStepwise ==
    pc = "tree" =>
        \A k \in DOMAIN repo.workflows, kind \in Kinds :
            Separated(repo.workflows[k]) =>
                LET walked == RunSteps(repo.workflows[k], kind)
                    steps  == Stepwise(repo.workflows[k], kind)
                IN /\ ToSet(walked) = ToSet(steps)
                   /\ IsInjective(walked)
                   /\ \A a, b \in DOMAIN walked :
                        a < b => \E n \in DOMAIN steps :
                                    /\ steps[n] = walked[a]
                                    /\ \A m \in 1..n : steps[m] # walked[b]

(* The first source that exists gives the environment: the first usable    *)
(* Dockerfile, which then starts the tests; or the tests of all workflows  *)
(* that are known, with their builds and packages; or the defaults (design *)
(* 6.4, four layers).                                                      *)
Usable == {k \in DOMAIN repo.dockerfiles :
              repo.dockerfiles[k] # NoFile /\ ~ Unresolved(repo.dockerfiles[k])}
Starts(dockerfile) ==
    dockerfile[Max({k \in DOMAIN dockerfile : dockerfile[k].op \in {"CMD", "ENTRYPOINT"}})]
KnownWorkflows == {repo.workflows[k] : k \in IF tree THEN DOMAIN repo.workflows ELSE {}}
Steps(kind)    == UNION {ToSet(RunSteps(w, kind)) : w \in KnownWorkflows}
Known(kind)    == {NormalizeCommand(c) : c \in Steps(kind)}
LayersInOrder ==
    pc = "done" =>
        /\ env.source = "repo_dockerfile" <=> Usable # {}
        /\ env.source = "github_actions" <=> Usable = {} /\ Known("test") # {}
        /\ env.source = "repo_dockerfile" =>
              /\ ~ Unresolved(env.dockerfile)
              /\ env.test # <<>> => Starts(env.dockerfile).ref = "tests"
        /\ env.source = "github_actions" =>
              /\ ToSet(env.test) = Known("test")
              /\ Known("build") # {} => ToSet(env.build) = Known("build")
              /\ UNION {AptInstalls(w) : w \in KnownWorkflows} \subseteq env.deps

(* What the workflows have in common is done once: a command is listed     *)
(* twice only if a workflow spells it in another way than the list does,   *)
(* since it is looked up as it is written and listed normalized.           *)
Repeated(cs)  == {cs[a] : a \in {n \in DOMAIN cs : \E b \in DOMAIN cs : b # n /\ cs[b] = cs[n]}}
Respelt(kind) == {NormalizeCommand(c) : c \in {d \in Steps(kind) : NormalizeCommand(d) # d}}
CommandsOnce  == \A kind \in Kinds : Repeated(found[kind]) \subseteq Respelt(kind)

(* Every run block with a line of the kind is among the commands (design   *)
(* 6.4: the list of the run steps that contain the keyword).               *)
RunBlocksAreFound ==
    pc = "tree" =>
        \A k \in DOMAIN repo.workflows, kind \in Kinds :
            \A step \in ToSet(repo.workflows[k]) :
                (step.form = "block" /\ ToSet(step.script) \cap Bullets = {}) =>
                    ToSet(Pruned(kind, step.script)) \subseteq ToSet(RunSteps(repo.workflows[k], kind))
=============================================================================
