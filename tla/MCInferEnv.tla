------------------------------ MODULE MCInferEnv ------------------------------
(***************************************************************************)
(* Workflows of up to three steps, alone or after a short one, in          *)
(* repositories without a Dockerfile; and every choice of three            *)
(* Dockerfiles with a short workflow.                                      *)
(***************************************************************************)
EXTENDS InferEnv

MCLines    == {"test", "echo test", "py build", "py3 build", "export", "apt", "- item", "ls"}
MCRelevant == [kind \in Kinds |-> IF kind = "test" THEN {"test", "echo test"}
                                  ELSE {"py build", "py3 build"}]
MCSupport  == {"py build", "py3 build", "export", "apt"}
MCExcluded == {"echo test", "ls"}
MCNormal   == [l \in MCLines |-> IF l = "py build" THEN "py3 build" ELSE l]
MCPackages == [l \in MCLines |-> IF l = "apt" THEN {"lib"} ELSE {}]

MCScripts == {<<"test">>, <<"export", "test", "export">>, <<"py build", "test">>,
              <<"apt", "py build", "py3 build">>, <<"export", "echo test">>,
              <<"test", "- item", "test">>, <<"ls", "apt">>}
Runs(form, scripts) ==
    {[form |-> form, named |-> n, script |-> s] : n \in BOOLEAN, s \in scripts}
MCSteps == Runs("block", MCScripts)
             \union Runs("inline", {<<"test">>, <<"py build">>, <<"echo test">>})
             \union Runs("other", {<<"test">>}) \union Runs("uses", {<<>>})

MCWorkflows == UNION {[1..n -> MCSteps] : n \in 0..2}
MCShort     == {<<>>} \union {<<[form |-> "inline", named |-> FALSE, script |-> <<l>>]>> :
                                l \in {"test", "py build", "apt"}}
MCLong      == {w \o <<s>> : w \in {<<a, b>> : a \in Runs("block", {<<"test">>, <<"ls", "apt">>}),
                                               b \in MCSteps},
                             s \in Runs("block", {<<"export", "test", "export">>})
                                     \union Runs("inline", {<<"py build">>})}

Line(op, ref, alias) == [op |-> op, ref |-> ref, alias |-> alias]
MCDockerfiles ==
    {NoFile,
     <<Line("FROM", "ubuntu", "")>>,
     <<Line("FROM", "golang", "go-base"), Line("FROM", "go-base", ""),
       Line("ENTRYPOINT", "app", ""), Line("CMD", "args", "")>>,
     <<Line("FROM", "go-base", "go-base"), Line("CMD", "app", "")>>,
     <<Line("FROM", "ubuntu", ""), Line("COPY", "php-base", ""), Line("CMD", "app", "")>>}

Repo(dockerfiles, workflows, default) ==
    [dockerfiles |-> dockerfiles, workflows |-> workflows, default |-> default,
     commands |-> [build |-> <<"py build">>, test |-> <<"test">>]]
MCRepos ==
    {Repo(<<NoFile>>, v \o <<w>>, "none") : v \in {<<>>} \union {<<s>> : s \in MCShort},
                                            w \in MCWorkflows \union MCLong}
      \union {Repo(<<a, b, c>>, <<w>>, d) : a, b, c \in MCDockerfiles, w \in MCShort,
                                            d \in {"type", "tree", "none"}}
=============================================================================
