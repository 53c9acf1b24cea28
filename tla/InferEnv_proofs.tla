--------------------------- MODULE InferEnv_proofs ---------------------------
(***************************************************************************)
(* Theorems about InferEnv, for every value of the constants.  What a walk *)
(* over lines or a list of commands gives is shown by induction over the   *)
(* sequence (FoldFacts, with the operation and the invariant of the loop). *)
(***************************************************************************)
EXTENDS InferEnv, TLAPS

Texts   == Lines \union {NoText}
RawLine == [is : {"key", "run |", "run x", "text"}, text : Texts]
Walk    == [open : BOOLEAN, run : Seq(Texts), out : Seq(Command)]

(* The loops of the module and what holds after each round of them.        *)
KeepOp(c, lines, k)     == IF Kept(c[1], c[2], k) THEN Append(lines, c[2][k]) ELSE lines
KeepInv(p, k, lines)    == lines \in Seq(Lines)
Keep == INSTANCE FoldFacts WITH Op <- KeepOp, Inv <- KeepInv

Start == [open |-> FALSE, run |-> <<>>, out |-> <<>>]
WalkOp(kind, p, raw)    == WalkLine(kind, p, raw)
WalkInv(p, k, walk)     == walk \in Walk
Walking == INSTANCE FoldFacts WITH Op <- WalkOp, Inv <- WalkInv

DedupOp(c, s, x)        == AppendNew(s, x)
DedupInv(p, k, s)       == s \in Seq(Command)
Dedup == INSTANCE FoldFacts WITH Op <- DedupOp, Inv <- DedupInv

RawInv(p, k, raws)      == raws \in Seq(RawLine)
Raws == INSTANCE FoldFacts WITH Op <- DedupOp, Inv <- RawInv

\* What is written, among the first k new commands, in another way than it is listed.
Anew(new, k) ==
    {NormalizeCommand(new[j]) : j \in {n \in 1..k : NormalizeCommand(new[n]) # new[n]}}
Normalized(cs) == \A k \in DOMAIN cs : NormalizeCommand(cs[k]) = cs[k]
AddOp(c, cs, x)         == IF Contains(cs, x) THEN cs ELSE Append(cs, NormalizeCommand(x))
AddInv(p, k, cs)        ==
    /\ cs \in Seq(Command) /\ Normalized(cs)
    /\ ToSet(cs) = ToSet(p.commands) \union {NormalizeCommand(p.new[j]) : j \in 1..k}
    /\ Repeated(cs) \subseteq Repeated(p.commands) \union Anew(p.new, k)
Add == INSTANCE FoldFacts WITH Op <- AddOp, Inv <- AddInv
----------------------------------------------------------------------------
(* Normalizing gives a command, and normalizing twice gives the same.      *)
LEMMA NormalizeFacts ==
  ASSUME NEW c \in Command
  PROVE  /\ NormalizeCommand(c) \in Command
         /\ NormalizeCommand(NormalizeCommand(c)) = NormalizeCommand(c)
<1>1. c \in Seq(Lines) /\ c # <<>> /\ Normal \in [Lines -> Lines]
  BY InferTypes DEF Command
<1>2. \A k \in DOMAIN c : c[k] \in Lines /\ Normal[c[k]] \in Lines
  BY <1>1
<1>3. NormalizeCommand(c) \in Seq(Lines) /\ Len(NormalizeCommand(c)) = Len(c)
  BY <1>1, <1>2 DEF NormalizeCommand
<1>4. NormalizeCommand(c) # <<>>
  BY <1>1, <1>3
<1>5. \A k \in DOMAIN c : Normal[Normal[c[k]]] = Normal[c[k]]
  BY <1>2, NormalIsFinal
<1>6. NormalizeCommand(NormalizeCommand(c)) = NormalizeCommand(c)
  BY <1>5 DEF NormalizeCommand
<1>. QED  BY <1>3, <1>4, <1>6 DEF Command

(* prune_block keeps lines of the patterns, in a command or in none.       *)
LEMMA PrunedIsCommands ==
  ASSUME NEW kind \in Kinds, NEW script \in Seq(Texts)
  PROVE  Pruned(kind, script) \in Seq(Command)
<1> DEFINE places == [k \in DOMAIN script |-> k]
           kept   == Keep!Fold(<<kind, script>>, <<>>, places)
<1>1. Pruned(kind, script) =
         IF ToSet(script) \cap Relevant[kind] = {} \/ kept = <<>> THEN <<>> ELSE <<kept>>
  BY DEF Pruned, FoldLeftDomain, FoldLeft, MapThenFoldSet, Max,
         Keep!Fold, Keep!IsFold, Keep!Largest, KeepOp
<1>2. DOMAIN places = 1..Len(script) /\ Len(script) \in Nat
  OBVIOUS
<1>3. KeepInv(0, 0, <<>>)
  BY DEF KeepInv
<1>4. ASSUME NEW k \in 1..Len(script), NEW v, KeepInv(0, k - 1, v)
      PROVE  KeepInv(0, k, KeepOp(<<kind, script>>, v, places[k]))
  <2>1. places[k] = k
    BY <1>2
  <2>2. Kept(kind, script, k) => script[k] \in Lines
    BY InferTypes DEF Kept
  <2>. QED  BY <1>4, <2>1, <2>2 DEF KeepInv, KeepOp
<1>5. KeepInv(0, Len(script), kept)
  BY ONLY <1>2, <1>3, <1>4, Keep!FoldInduction
<1> HIDE DEF kept
<1>6. kept \in Seq(Lines)
  BY <1>5 DEF KeepInv
<1>7. kept # <<>> => kept \in Command
  BY <1>6 DEF Command
<1>8. kept # <<>> => <<kept>> \in Seq(Command)
  BY <1>7
<1>9. <<>> \in Seq(Command)
  OBVIOUS
<1>. QED  BY ONLY <1>1, <1>8, <1>9

LEMMA RawStepIsLines ==
  ASSUME NEW s \in RunStep
  PROVE  RawStep(s) \in Seq(RawLine)
<1>1. /\ s.form \in {"block", "inline", "other", "uses"}
      /\ s.script \in Seq(Lines)
      /\ s.form = "inline" => Len(s.script) = 1
  BY DEF RunStep
<1>2. \A t \in Texts : /\ Raw("key", t) \in RawLine /\ Raw("run |", t) \in RawLine
                        /\ Raw("run x", t) \in RawLine /\ Raw("text", t) \in RawLine
  BY DEF Raw, RawLine
<1>3. NoText \in Texts /\ \A k \in DOMAIN s.script : s.script[k] \in Texts
  BY <1>1 DEF Texts
<1> DEFINE name == IF s.named THEN <<Raw("key", NoText)>> ELSE <<>>
           run  == CASE s.form = "block"  -> Raw("run |", NoText)
                     [] s.form = "inline" -> Raw("run x", s.script[1])
                     [] s.form = "other"  -> Raw("run x", NoText)
                     [] s.form = "uses"   -> Raw("key", NoText)
           text == IF s.form \in {"block", "other"}
                   THEN [k \in DOMAIN s.script |-> Raw("text", s.script[k])] ELSE <<>>
<1>4. name \in Seq(RawLine)
  <2>1. Raw("key", NoText) \in RawLine
    BY <1>2, <1>3
  <2>2. <<Raw("key", NoText)>> \in Seq(RawLine) /\ <<>> \in Seq(RawLine)
    BY <2>1
  <2>. QED  BY ONLY <2>2
<1>5. run \in RawLine
  <2>1. CASE s.form = "inline"
    <3>1. s.script[1] \in Texts
      BY <1>1, <1>3, <2>1
    <3>2. run = Raw("run x", s.script[1])
      BY <2>1
    <3>. QED  BY <1>2, <3>1, <3>2
  <2>2. CASE s.form # "inline"
    <3>1. run \in {Raw("run |", NoText), Raw("run x", NoText), Raw("key", NoText)}
      BY <1>1, <2>2
    <3>. QED  BY <1>2, <1>3, <3>1
  <2>. QED  BY <2>1, <2>2
<1>6. text \in Seq(RawLine)
  <2>1. \A k \in DOMAIN s.script : Raw("text", s.script[k]) \in RawLine
    BY <1>2, <1>3
  <2>2. [k \in DOMAIN s.script |-> Raw("text", s.script[k])] \in Seq(RawLine)
    <3>1. DOMAIN s.script = 1..Len(s.script) /\ Len(s.script) \in Nat
      BY <1>1
    <3>. QED  BY <2>1, <3>1
  <2>. QED  BY <2>2
<1>7. RawStep(s) = name \o <<run>> \o text
  BY DEF RawStep
<1> HIDE DEF name, run, text
<1>. QED  BY <1>4, <1>5, <1>6, <1>7

(* A workflow laid out is a sequence of lines.                             *)
LEMMA RawLinesAreLines ==
  ASSUME NEW workflow \in Seq(RunStep)
  PROVE  RawLines(workflow) \in Seq(RawLine)
<1> DEFINE steps == [k \in DOMAIN workflow |-> RawStep(workflow[k])]
<1>1. steps \in Seq(Seq(RawLine)) /\ Len(steps) = Len(workflow)
  <2>1. \A k \in DOMAIN workflow : RawStep(workflow[k]) \in Seq(RawLine)
    BY RawStepIsLines
  <2>. QED  BY <2>1
<1>2. RawLines(workflow) = IF Len(steps) = 0 THEN steps ELSE Raws!Flatten(steps)
  BY DEF RawLines, FlattenSeq, Raws!Flatten, Raws!IsFlatten
<1> HIDE DEF steps
<1>3. CASE Len(steps) = 0
  <2>1. steps = <<>>
    BY <1>1, <1>3
  <2>. QED  BY <1>2, <1>3, <2>1
<1>4. CASE Len(steps) # 0
  <2>1. Len(steps) \in Nat \ {0} /\ \A k \in 1..Len(steps) : steps[k] \in Seq(RawLine)
    BY <1>1, <1>4
  <2>2. RawInv(0, 1, steps[1])
    BY <2>1 DEF RawInv
  <2>3. ASSUME NEW k \in 2..Len(steps), NEW v, RawInv(0, k - 1, v)
        PROVE  RawInv(0, k, v \o steps[k])
    <3>1. steps[k] \in Seq(RawLine)
      BY <2>1
    <3>. QED  BY <2>3, <3>1 DEF RawInv
  <2>4. RawInv(0, Len(steps), Raws!Flatten(steps))
    BY ONLY <2>1, <2>2, <2>3, Raws!FlattenInduction
  <2>. QED  BY <1>2, <1>4, <2>4 DEF RawInv
<1>. QED  BY <1>3, <1>4

(* A round of the walk over the lines keeps what it has in shape.          *)
LEMMA WalkKeepsShape ==
  ASSUME NEW kind \in Kinds, NEW p \in Walk, NEW raw \in RawLine
  PROVE  CloseRun(kind, p) \in Walk /\ WalkLine(kind, p, raw) \in Walk
<1>1. p.run \in Seq(Texts) /\ p.out \in Seq(Command) /\ raw.text \in Texts
  BY DEF Walk, RawLine
<1>2. Pruned(kind, p.run) \in Seq(Command)
  BY <1>1, PrunedIsCommands
<1>3. CloseRun(kind, p) \in Walk
  BY <1>1, <1>2 DEF CloseRun, Walk
<1>4. Pruned(kind, <<raw.text>>) \in Seq(Command)
  <2>1. <<raw.text>> \in Seq(Texts)
    BY <1>1
  <2>. QED  BY <2>1, PrunedIsCommands
<1>5. ASSUME NEW q \in Walk
      PROVE  [q EXCEPT !.out = @ \o Pruned(kind, <<raw.text>>)] \in Walk
  <2>1. q \in [open : BOOLEAN, run : Seq(Texts), out : Seq(Command)]
    BY DEF Walk
  <2>2. q.out \o Pruned(kind, <<raw.text>>) \in Seq(Command)
    BY <1>4, <2>1
  <2>. QED  BY <2>1, <2>2 DEF Walk
<1>6. [p EXCEPT !.open = TRUE, !.run = <<>>] \in Walk
  <2>1. p \in [open : BOOLEAN, run : Seq(Texts), out : Seq(Command)] /\ <<>> \in Seq(Texts)
    BY DEF Walk
  <2>. QED  BY <2>1 DEF Walk
<1>7. [p EXCEPT !.run = Append(@, raw.text)] \in Walk
  BY <1>1 DEF Walk
<1>8. WalkLine(kind, p, raw) \in
        {[p EXCEPT !.open = TRUE, !.run = <<>>], [p EXCEPT !.run = Append(@, raw.text)],
         [CloseRun(kind, p) EXCEPT !.out = @ \o Pruned(kind, <<raw.text>>)],
         CloseRun(kind, p)}
  BY Zenon DEF WalkLine
<1>. QED  BY <1>3, <1>5, <1>6, <1>7, <1>8

(* At the end of the walk there are commands.                              *)
LEMMA WalkEndsInCommands ==
  ASSUME NEW kind \in Kinds, NEW workflow \in Seq(RunStep)
  PROVE  CloseRun(kind, Walking!Fold(kind, Start, RawLines(workflow))).out \in Seq(Command)
<1> DEFINE raws == RawLines(workflow)
           end  == Walking!Fold(kind, Start, raws)
<1>1. raws \in Seq(RawLine)
  BY RawLinesAreLines
<1>2. DOMAIN raws = 1..Len(raws) /\ Len(raws) \in Nat
  BY <1>1
<1>3. WalkInv(0, 0, Start)
  BY DEF WalkInv, Walk, Start
<1>4. ASSUME NEW k \in 1..Len(raws), NEW v, WalkInv(0, k - 1, v)
      PROVE  WalkInv(0, k, WalkOp(kind, v, raws[k]))
  <2>1. raws[k] \in RawLine
    BY <1>1, <1>2
  <2>. QED  BY <1>4, <2>1, WalkKeepsShape DEF WalkInv, WalkOp
<1> HIDE DEF raws
<1>5. WalkInv(0, Len(raws), end)
  BY ONLY <1>2, <1>3, <1>4, Walking!FoldInduction
<1> HIDE DEF end
<1>6. end \in Walk
  BY <1>5 DEF WalkInv
<1>7. CloseRun(kind, end) \in Walk
  <2>1. \E raw : raw \in RawLine
    <3>1. [is |-> "key", text |-> NoText] \in RawLine
      BY DEF RawLine, Texts
    <3>. QED  BY <3>1
  <2>. QED  BY <1>6, <2>1, WalkKeepsShape
<1>8. CloseRun(kind, end).out \in Seq(Command)
  BY <1>7 DEF Walk
<1>. QED  BY <1>8 DEF end, raws

(* extract_run_steps gives commands: no text but lines of the patterns.    *)
LEMMA RunStepsAreCommands ==
  ASSUME NEW kind \in Kinds, NEW workflow \in Seq(RunStep)
  PROVE  RunSteps(workflow, kind) \in Seq(Command)
<1> DEFINE end == Walking!Fold(kind, Start, RawLines(workflow))
           all == CloseRun(kind, end).out
<1>1. RunSteps(workflow, kind) = Dedup!Fold(0, <<>>, all)
  BY DEF RunSteps, FoldLeft, MapThenFoldSet, Max, Start,
         Walking!Fold, Walking!IsFold, Walking!Largest, WalkOp,
         Dedup!Fold, Dedup!IsFold, Dedup!Largest, DedupOp
<1>2. all \in Seq(Command)
  BY WalkEndsInCommands
<1> HIDE DEF all
<1>3. DOMAIN all = 1..Len(all) /\ Len(all) \in Nat
  BY <1>2
<1>4. DedupInv(0, 0, <<>>)
  BY DEF DedupInv
<1>5. ASSUME NEW k \in 1..Len(all), NEW v, DedupInv(0, k - 1, v)
      PROVE  DedupInv(0, k, DedupOp(0, v, all[k]))
  <2>1. all[k] \in Command
    BY <1>2, <1>3
  <2>. QED  BY <1>5, <2>1 DEF DedupInv, DedupOp, AppendNew
<1>6. DedupInv(0, Len(all), Dedup!Fold(0, <<>>, all))
  BY ONLY <1>3, <1>4, <1>5, Dedup!FoldInduction
<1>. QED  BY <1>1, <1>6 DEF DedupInv

(* Adding to normalized commands gives the commands that were there and    *)
(* the new ones, normalized: though the loop compares a new command as it  *)
(* was written with the ones it has, it leaves none out; and it repeats    *)
(* only those that were written in another way.                            *)
LEMMA AddCommandsAddsAll ==
  ASSUME NEW commands \in Seq(Command), Normalized(commands), NEW new \in Seq(Command)
  PROVE  /\ AddCommands(commands, new) \in Seq(Command)
         /\ Normalized(AddCommands(commands, new))
         /\ ToSet(AddCommands(commands, new)) =
              ToSet(commands) \union {NormalizeCommand(c) : c \in ToSet(new)}
         /\ Repeated(AddCommands(commands, new)) \subseteq
              Repeated(commands) \union
                {NormalizeCommand(c) : c \in {d \in ToSet(new) : NormalizeCommand(d) # d}}
<1> DEFINE p   == [commands |-> commands, new |-> new]
           res == Add!Fold(0, commands, new)
<1>1. AddCommands(commands, new) = res
  BY DEF AddCommands, FoldLeft, MapThenFoldSet, Max,
         Add!Fold, Add!IsFold, Add!Largest, AddOp
<1>2. DOMAIN new = 1..Len(new) /\ Len(new) \in Nat
  OBVIOUS
<1>3. AddInv(p, 0, commands)
  BY DEF AddInv
<1>4. ASSUME NEW k \in 1..Len(new), NEW v, AddInv(p, k - 1, v)
      PROVE  AddInv(p, k, AddOp(0, v, new[k]))
  <2> DEFINE n == NormalizeCommand(new[k])
             w == AddOp(0, v, new[k])
  <2>1. /\ v \in Seq(Command) /\ Normalized(v)
        /\ ToSet(v) = ToSet(commands) \union {NormalizeCommand(new[j]) : j \in 1..(k - 1)}
        /\ Repeated(v) \subseteq Repeated(commands) \union Anew(new, k - 1)
    BY <1>4 DEF AddInv
  <2>2. new[k] \in Command /\ n \in Command /\ NormalizeCommand(n) = n
    <3>1. new[k] \in Command
      BY <1>2
    <3>. QED  BY <3>1, NormalizeFacts
  <2>3. {NormalizeCommand(new[j]) : j \in 1..k} =
          {NormalizeCommand(new[j]) : j \in 1..(k - 1)} \union {n}
    <3>1. 1..k = (1..(k - 1)) \union {k}
      BY <1>2
    <3>. QED  BY <3>1
  <2>4. Anew(new, k - 1) \subseteq Anew(new, k) /\ (n # new[k] => n \in Anew(new, k))
    <3>1. 1..(k - 1) \subseteq 1..k /\ k \in 1..k
      BY <1>2
    <3>. QED  BY <3>1 DEF Anew
  <2>5. CASE Contains(v, new[k])
    <3>1. w = v
      BY <2>5 DEF AddOp
    <3>2. PICK j \in 1..Len(v) : v[j] = new[k]
      BY <2>5 DEF Contains
    <3>3. j \in DOMAIN v /\ v[j] = n
      BY <2>1, <3>2 DEF Normalized
    <3>4. n \in ToSet(v)
      BY <3>3 DEF ToSet
    <3>5. Repeated(w) \subseteq Repeated(commands) \union Anew(new, k)
      BY <2>1, <2>4, <3>1
    <3>. QED  BY <2>1, <2>3, <3>1, <3>4, <3>5 DEF AddInv
  <2>6. CASE ~ Contains(v, new[k])
    <3>1. w = Append(v, n)
      BY <2>6 DEF AddOp
    <3> HIDE DEF w, n
    <3>2. w \in Seq(Command) /\ Len(w) = Len(v) + 1 /\ w[Len(v) + 1] = n
          /\ \A j \in 1..Len(v) : w[j] = v[j]
      BY <2>1, <2>2, <3>1
    <3>3. DOMAIN w = (1..Len(v)) \union {Len(v) + 1} /\ DOMAIN v = 1..Len(v)
      BY <2>1, <3>2
    <3>4. Normalized(w)
      BY <2>1, <2>2, <3>2, <3>3 DEF Normalized
    <3>5. ToSet(w) = ToSet(v) \union {n}
      BY <3>2, <3>3 DEF ToSet
    <3>6. p.commands = commands /\ p.new = new
      OBVIOUS
    <3> HIDE DEF p
    <3>7. ToSet(w) = ToSet(p.commands) \union {NormalizeCommand(p.new[j]) : j \in 1..k}
      BY <2>1, <2>3, <3>5, <3>6
    <3>8. ASSUME NEW a \in DOMAIN w, NEW b \in DOMAIN w, b # a, w[b] = w[a]
          PROVE  w[a] \in Repeated(v) \union Anew(new, k)
      <4>1. CASE a \in DOMAIN v /\ b \in DOMAIN v
        <5>1. v[a] = w[a] /\ v[b] = v[a]
          BY <3>2, <3>3, <3>8, <4>1
        <5>. QED  BY <3>8, <4>1, <5>1 DEF Repeated
      <4>2. CASE ~ (a \in DOMAIN v /\ b \in DOMAIN v)
        <5>1. PICK j \in DOMAIN v : v[j] = n /\ w[a] = n
          BY <3>2, <3>3, <3>8, <4>2
        <5>2. v[j] # new[k]
          BY <2>6, <3>3, <5>1 DEF Contains
        <5>. QED  BY <2>4, <5>1, <5>2
      <4>. QED  BY <4>1, <4>2
    <3>9. Repeated(w) \subseteq Repeated(p.commands) \union Anew(p.new, k)
      <4>1. Repeated(w) \subseteq Repeated(v) \union Anew(new, k)
        BY <3>8 DEF Repeated
      <4>. QED  BY <2>1, <2>4, <3>6, <4>1
    <3>10. AddInv(p, k, w)
      BY <3>2, <3>4, <3>7, <3>9 DEF AddInv
    <3>. QED  BY <3>10 DEF w
  <2>. QED  BY <2>5, <2>6
<1> HIDE DEF p
<1>5. AddInv(p, Len(new), res)
  BY ONLY <1>2, <1>3, <1>4, Add!FoldInduction
<1> HIDE DEF res
<1>6. {NormalizeCommand(new[j]) : j \in 1..Len(new)} = {NormalizeCommand(c) : c \in ToSet(new)}
  BY <1>2 DEF ToSet
<1>7. Anew(new, Len(new)) =
        {NormalizeCommand(c) : c \in {d \in ToSet(new) : NormalizeCommand(d) # d}}
  BY <1>2 DEF Anew, ToSet
<1>. QED  BY <1>1, <1>5, <1>6, <1>7 DEF AddInv, p
----------------------------------------------------------------------------
LEMMA MaxOfSome ==
  ASSUME NEW n \in Nat, NEW S, S \subseteq 1..n, S # {}
  PROVE  Max(S) \in S /\ \A x \in S : x <= Max(S)
<1> DEFINE T == {n - x : x \in S}
<1>1. T \subseteq Nat /\ T # {}
  <2>1. \A x \in S : n - x \in Nat
    OBVIOUS
  <2>. QED  BY <2>1
<1>2. PICK t \in T : \A u \in T : t <= u
  BY <1>1, Keep!Least
<1>3. PICK m \in S : t = n - m
  BY <1>2
<1>4. ASSUME NEW x \in S PROVE m >= x
  <2>1. n - m <= n - x
    BY <1>2, <1>3
  <2>2. m \in Int /\ x \in Int
    OBVIOUS
  <2>. QED  BY <2>1, <2>2
<1>5. Max(S) \in S /\ \A x \in S : Max(S) >= x
  BY <1>4 DEF Max
<1>6. \A x \in S : x \in Int
  OBVIOUS
<1>. QED  BY <1>5, <1>6

(* patch_cmd_to_test makes a Dockerfile start the tests, and needs no      *)
(* stage that the Dockerfile did not need.                                 *)
LEMMA PatchedStartsTests ==
  ASSUME NEW d \in Seq(DockerLine), ~ Unresolved(d), NEW tests
  PROVE  /\ ~ Unresolved(Patched(d, tests))
         /\ tests # <<>> => Starts(Patched(d, tests)).ref = "tests"
<1> DEFINE starts == {k \in DOMAIN d : d[k].op \in {"CMD", "ENTRYPOINT"}}
           test   == [op |-> "CMD", ref |-> "tests", alias |-> ""]
           new    == Patched(d, tests)
           n      == Len(d)
<1>1. n \in Nat /\ DOMAIN d = 1..n
  OBVIOUS
<1>2. test.op = "CMD" /\ test.ref = "tests"
  OBVIOUS
<1>3. CASE tests = <<>>
  <2>1. new = d
    BY <1>3 DEF Patched
  <2>. QED  BY <1>3, <2>1
<1>4. ASSUME tests # <<>>, NEW m \in 1..(n + 1),
             DOMAIN new \subseteq 1..(n + 1), m \in DOMAIN new, new[m] = test,
             m \notin DOMAIN d \/ d[m].op \in {"CMD", "ENTRYPOINT"},
             \A k \in DOMAIN new : k # m => k \in DOMAIN d /\ new[k] = d[k],
             \A k \in DOMAIN d : k \in DOMAIN new,
             \A k \in starts : k <= m
      PROVE  ~ Unresolved(new) /\ Starts(new).ref = "tests"
  <2> HIDE DEF new, test
  <2>1. ASSUME NEW k \in DOMAIN new, new[k].op \in {"FROM", "COPY"}
        PROVE  new[k].ref \notin External \ Declared(new, k)
    <3>1. k # m
      BY <1>2, <1>4, <2>1
    <3>2. k \in DOMAIN d /\ new[k] = d[k]
      BY <1>4, <3>1
    <3>3. Declared(d, k) \subseteq Declared(new, k)
      <4>1. ASSUME NEW j \in 1..(k - 1), d[j].op = "FROM"
            PROVE  j \in 1..(k - 1) /\ new[j].op = "FROM" /\ new[j].alias = d[j].alias
        <5>1. j \in DOMAIN d
          BY <1>1, <3>2
        <5>2. j # m
          BY <1>4, <4>1, <5>1
        <5>. QED  BY <1>4, <4>1, <5>1, <5>2
      <4>. QED  BY <4>1 DEF Declared
    <3>4. d[k].ref \notin External \ Declared(d, k)
      BY <2>1, <3>2 DEF Unresolved
    <3>. QED  BY <3>2, <3>3, <3>4
  <2>2. ~ Unresolved(new)
    BY <2>1 DEF Unresolved
  <2> DEFINE news == {k \in DOMAIN new : new[k].op \in {"CMD", "ENTRYPOINT"}}
  <2>3. m \in news /\ news \subseteq 1..(n + 1)
    BY <1>2, <1>4
  <2>4. \A k \in news : k <= m
    <3> SUFFICES ASSUME NEW k \in news, k # m PROVE k <= m
      BY <1>1
    <3>1. k \in starts
      BY <1>4
    <3>. QED  BY <1>4, <3>1
  <2>5. n + 1 \in Nat
    BY <1>1
  <2>6. Max(news) \in news /\ \A k \in news : k <= Max(news)
    BY <2>3, <2>5, MaxOfSome
  <2>7. Max(news) = m
    <3>1. Max(news) <= m /\ m <= Max(news) /\ Max(news) \in 1..(n + 1)
      BY <2>3, <2>4, <2>6
    <3>. QED  BY <1>1, <3>1
  <2>8. Starts(new) = new[m]
    BY <2>7 DEF Starts
  <2>. QED  BY <1>2, <1>4, <2>2, <2>8
<1>5. CASE tests # <<>> /\ starts = {}
  <2>1. new = Append(d, test)
    BY <1>5 DEF Patched
  <2> HIDE DEF new, test
  <2>2. /\ DOMAIN new = 1..(n + 1) /\ new[n + 1] = test
        /\ \A k \in 1..n : new[k] = d[k]
    BY <1>1, <2>1
  <2>3. ~ Unresolved(new) /\ Starts(new).ref = "tests"
    BY <1>1, <1>4, <1>5, <2>2
  <2>. QED  BY <1>5, <2>3 DEF new
<1>6. CASE tests # <<>> /\ starts # {}
  <2> DEFINE m == Max(starts)
  <2>1. new = [d EXCEPT ![m] = test]
    BY <1>6 DEF Patched
  <2>2. m \in starts /\ \A k \in starts : k <= m
    BY <1>1, <1>6, MaxOfSome
  <2> HIDE DEF new, test, m
  <2>3. DOMAIN new = 1..n /\ new[m] = test /\ \A k \in 1..n : k # m => new[k] = d[k]
    BY <1>1, <2>1, <2>2
  <2>4. m \in 1..(n + 1) /\ m \in 1..n /\ d[m].op \in {"CMD", "ENTRYPOINT"}
    BY <1>1, <2>2
  <2>5. ~ Unresolved(new) /\ Starts(new).ref = "tests"
    BY <1>1, <1>4, <1>6, <2>2, <2>3, <2>4
  <2>. QED  BY <1>6, <2>5 DEF new
<1>. QED  BY <1>3, <1>5, <1>6
----------------------------------------------------------------------------
(* What workflows give, and the ones before the n-th.                      *)
CommandsOf(ws, kind) == {NormalizeCommand(c) : c \in UNION {ToSet(RunSteps(w, kind)) : w \in ws}}
ReadBefore(n) == {repo.workflows[k] : k \in {m \in DOMAIN WorkflowPaths : m < n}}
FoundIn(ws) ==
    /\ ToSet(found.build) = CommandsOf(ws, "build")
    /\ ToSet(found.test) = CommandsOf(ws, "test")
    /\ found.deps = UNION {AptInstalls(w) : w \in ws}

(* Where the search is: what has been passed over had nothing to use.      *)
SearchOK ==
    /\ pc \in {"tree", "project"} => i = 1 /\ found = NoCommands
    /\ pc = "dockerfile" =>
          /\ i <= Len(repo.dockerfiles) /\ found = NoCommands
          /\ \A k \in Usable : i <= k
    /\ pc = "workflow" =>
          /\ Usable = {} /\ i <= Len(WorkflowPaths) + 1
          /\ FoundIn(ReadBefore(i))

FoundOK ==
    /\ found.build \in Seq(Command) /\ found.test \in Seq(Command)
    /\ Normalized(found.test) /\ Normalized(found.build)

EnvOK ==
    /\ env.build \in Seq(Command) /\ env.test \in Seq(Command)
    /\ env.source \in {"github_actions", "llm"} => env.test # <<>>
    /\ env.source = "none" <=> pc # "done"

InferInv ==
    /\ repo \in Repos /\ tree \in BOOLEAN
    /\ i \in Nat /\ i >= 1
    /\ i <= Len(repo.dockerfiles) \/ i <= Len(repo.workflows) + 1
    /\ pc \in {"tree", "project", "dockerfile", "workflow", "done", "raised"}
    /\ SearchOK /\ FoundOK /\ EnvOK /\ LayersInOrder /\ CommandsOnce

LEMMA NoCommandsOK ==
  /\ NoCommands.build = <<>> /\ NoCommands.test = <<>> /\ NoCommands.deps = {}
  /\ <<>> \in Seq(Command) /\ Normalized(<<>>) /\ ToSet(<<>>) = {} /\ Repeated(<<>>) = {}
  /\ \A kind \in Kinds : NoCommands[kind] = <<>>
BY DEF NoCommands, Normalized, ToSet, Repeated, Kinds

LEMMA RepoFacts ==
  ASSUME repo \in Repos, tree \in BOOLEAN
  PROVE  /\ repo.dockerfiles \in Seq(Seq(DockerLine)) /\ repo.dockerfiles # <<>>
         /\ repo.workflows \in Seq(Seq(RunStep))
         /\ WorkflowPaths \in Seq(Seq(RunStep))
         /\ Len(WorkflowPaths) <= Len(repo.workflows)
         /\ \A k \in DOMAIN WorkflowPaths : WorkflowPaths[k] = repo.workflows[k]
         /\ DOMAIN WorkflowPaths = IF tree THEN DOMAIN repo.workflows ELSE {}
<1>1. /\ repo.dockerfiles \in Seq(Seq(DockerLine)) /\ repo.dockerfiles # <<>>
      /\ repo.workflows \in Seq(Seq(RunStep))
  BY RepoTypes
<1>2. CASE tree
  BY <1>1, <1>2 DEF WorkflowPaths
<1>3. CASE ~ tree
  <2>1. WorkflowPaths = <<>>
    BY <1>3 DEF WorkflowPaths
  <2>. QED  BY <1>1, <1>3, <2>1
<1>. QED  BY <1>2, <1>3

LEMMA DefaultsAreCommands ==
  ASSUME repo \in Repos
  PROVE  DefaultTest \in Seq(Command) /\ DefaultBuild \in Seq(Command)
<1>1. repo.commands.build \in Command /\ repo.commands.test \in Command
  BY RepoTypes
<1>2. NormalizeCommand(repo.commands.build) \in Command
      /\ NormalizeCommand(repo.commands.test) \in Command
  BY <1>1, NormalizeFacts
<1>. QED  BY <1>2 DEF DefaultTest, DefaultBuild

LEMMA InferStarts == Init => InferInv
<1> SUFFICES ASSUME Init PROVE InferInv
  OBVIOUS
<1>1. repo \in Repos /\ tree = FALSE /\ i = 1 /\ found = NoCommands /\ env = NoEnv /\ pc = "tree"
  BY DEF Init
<1>2. SearchOK
  BY <1>1 DEF SearchOK
<1>3. FoundOK
  BY <1>1, NoCommandsOK DEF FoundOK
<1>4. EnvOK
  BY <1>1, NoCommandsOK DEF EnvOK, NoEnv
<1>5. LayersInOrder /\ CommandsOnce
  BY <1>1, NoCommandsOK DEF LayersInOrder, CommandsOnce
<1>6. repo.dockerfiles \in Seq(Seq(DockerLine)) /\ repo.dockerfiles # <<>>
  BY <1>1, RepoFacts
<1>7. 1 <= Len(repo.dockerfiles)
  BY <1>6
<1>8. tree \in BOOLEAN /\ i \in Nat /\ i >= 1 /\ i <= Len(repo.dockerfiles)
  <2>1. tree \in BOOLEAN
    BY <1>1, Zenon
  <2>2. i \in Nat /\ i >= 1
    BY <1>1
  <2>3. i <= Len(repo.dockerfiles)
    BY <1>1, <1>7
  <2>. QED  BY <2>1, <2>2, <2>3
<1>. QED  BY <1>1, <1>2, <1>3, <1>4, <1>5, <1>8, Zenon DEF InferInv

(* What every step but those of a source leaves as it was.                 *)
LEMMA NothingFound ==
  ASSUME InferInv, pc # "done", pc' # "done", UNCHANGED <<repo, env>>
  PROVE  EnvOK' /\ LayersInOrder'
BY DEF InferInv, EnvOK, LayersInOrder

LEMMA NothingAdded ==
  ASSUME CommandsOnce, UNCHANGED <<repo, tree, found>>
  PROVE  CommandsOnce'
BY DEF CommandsOnce, Respelt, Steps, KnownWorkflows

LEMMA GetTreeKeeps == InferInv /\ GetTree => InferInv'
<1> SUFFICES ASSUME InferInv, GetTree PROVE InferInv'
  OBVIOUS
<1>1. /\ pc = "tree" /\ pc' = "project" /\ tree' \in BOOLEAN
      /\ UNCHANGED <<repo, i, found, env>>
  BY DEF GetTree
<1>2. SearchOK'
  BY <1>1 DEF InferInv, SearchOK
<1>3. FoundOK'
  BY <1>1 DEF InferInv, FoundOK
<1>4. EnvOK' /\ LayersInOrder'
  BY <1>1, NothingFound
<1>5. CommandsOnce'
  <2>1. found' = NoCommands
    BY <1>1 DEF InferInv, SearchOK
  <2>. QED  BY <2>1, NoCommandsOK DEF CommandsOnce
<1>. QED  BY <1>1, <1>2, <1>3, <1>4, <1>5 DEF InferInv

LEMMA ReadProjectKeeps == InferInv /\ ReadProject => InferInv'
<1> SUFFICES ASSUME InferInv, ReadProject PROVE InferInv'
  OBVIOUS
<1>1. /\ pc = "project" /\ pc' = "dockerfile" /\ UNCHANGED <<repo, tree, i, found, env>>
  BY DEF ReadProject
<1>2. SearchOK'
  <2>1. i = 1 /\ found = NoCommands /\ repo \in Repos /\ tree \in BOOLEAN
    BY <1>1 DEF InferInv, SearchOK
  <2>2. 1 <= Len(repo.dockerfiles)
    BY <2>1, RepoFacts
  <2>3. \A k \in Usable : 1 <= k
    BY <2>1, RepoFacts DEF Usable
  <2>4. Usable' = Usable
    BY <1>1 DEF Usable, Unresolved, Declared
  <2>. QED  BY <1>1, <2>1, <2>2, <2>3, <2>4 DEF SearchOK
<1>3. FoundOK'
  BY <1>1 DEF InferInv, FoundOK
<1>4. EnvOK' /\ LayersInOrder'
  BY <1>1, NothingFound
<1>5. CommandsOnce'
  BY <1>1, NothingAdded DEF InferInv
<1>. QED  BY <1>1, <1>2, <1>3, <1>4, <1>5 DEF InferInv

LEMMA NoDockerfileKeeps == InferInv /\ NoDockerfile => InferInv'
<1> SUFFICES ASSUME InferInv, NoDockerfile PROVE InferInv'
  OBVIOUS
<1>1. /\ pc = "dockerfile" /\ NextPath /\ UNCHANGED <<repo, tree, found, env>>
      /\ repo.dockerfiles[i] = NoFile \/ Unresolved(repo.dockerfiles[i])
  BY DEF NoDockerfile, NextPath
<1>2. /\ repo \in Repos /\ tree \in BOOLEAN /\ i \in Nat /\ i >= 1
      /\ i <= Len(repo.dockerfiles) /\ found = NoCommands
      /\ \A k \in Usable : i <= k
  BY <1>1 DEF InferInv, SearchOK
<1>3. i \notin Usable /\ Usable' = Usable
  BY <1>1 DEF Usable, Unresolved, Declared
<1>4. repo.dockerfiles \in Seq(Seq(DockerLine))
  BY <1>2, RepoFacts
<1>5. Len(repo.dockerfiles) \in Nat
  BY <1>4
<1>6. \A k \in Usable : k \in 1..Len(repo.dockerfiles) /\ k > i
  <2>1. \A k \in Usable : k \in 1..Len(repo.dockerfiles)
    BY <1>4 DEF Usable
  <2>2. \A k \in Usable : i <= k /\ k # i
    BY <1>2, <1>3
  <2>. QED  BY <1>2, <1>5, <2>1, <2>2
<1>7. FoundOK' /\ CommandsOnce'
  BY <1>1, NothingAdded DEF InferInv, FoundOK
<1>8. CASE i < Len(repo.dockerfiles)
  <2>1. i' = i + 1 /\ pc' = pc
    BY <1>1, <1>8 DEF NextPath
  <2>2. \A k \in Usable : i + 1 <= k
    BY <1>2, <1>6
  <2>3. SearchOK'
    BY <1>1, <1>2, <1>3, <1>5, <1>8, <2>1, <2>2 DEF SearchOK
  <2>4. EnvOK' /\ LayersInOrder'
    BY <1>1, <2>1, NothingFound
  <2>5. i' \in Nat /\ i' >= 1 /\ i' <= Len(repo'.dockerfiles)
    BY <1>1, <1>2, <1>5, <1>8, <2>1
  <2>. QED  BY <1>1, <1>2, <1>7, <2>1, <2>3, <2>4, <2>5 DEF InferInv
<1>9. CASE ~ (i < Len(repo.dockerfiles))
  <2>1. i' = 1 /\ pc' = "workflow"
    BY <1>1, <1>9 DEF NextPath
  <2>2. Usable = {}
    BY <1>2, <1>5, <1>6, <1>9
  <2>3. WorkflowPaths \in Seq(Seq(RunStep)) /\ WorkflowPaths' = WorkflowPaths
    BY <1>1, <1>2, RepoFacts DEF WorkflowPaths
  <2>4. FoundIn(ReadBefore(1))'
    <3>1. {m \in DOMAIN WorkflowPaths' : m < 1} = {}
      BY <2>3
    <3>2. ReadBefore(1)' = {}
      BY <3>1 DEF ReadBefore
    <3>. QED  BY <1>1, <1>2, <3>2, NoCommandsOK DEF FoundIn, CommandsOf
  <2>5. SearchOK'
    <3>1. 1 <= Len(WorkflowPaths') + 1
      BY <2>3
    <3>2. FoundIn(ReadBefore(i))'
      BY <2>1, <2>4 DEF FoundIn, ReadBefore
    <3>. QED  BY <1>3, <2>1, <2>2, <3>1, <3>2 DEF SearchOK
  <2>6. EnvOK' /\ LayersInOrder'
    BY <1>1, <2>1, NothingFound
  <2>7. i' \in Nat /\ i' >= 1 /\ i' <= Len(repo'.dockerfiles)
    BY <1>1, <1>2, <1>5, <2>1
  <2>. QED  BY <1>1, <1>2, <1>7, <2>1, <2>5, <2>6, <2>7 DEF InferInv
<1>. QED  BY <1>8, <1>9

LEMMA UseDockerfileKeeps == InferInv /\ UseDockerfile => InferInv'
<1> SUFFICES ASSUME InferInv, UseDockerfile PROVE InferInv'
  OBVIOUS
<1> DEFINE d == repo.dockerfiles[i]
<1>1. /\ pc = "dockerfile" /\ d # NoFile /\ ~ Unresolved(d)
      /\ Infer("repo_dockerfile", {}, DefaultBuild, DefaultTest, Patched(d, DefaultTest))
      /\ UNCHANGED <<repo, tree, i, found>>
  BY DEF UseDockerfile
<1>2. /\ repo \in Repos /\ tree \in BOOLEAN /\ i \in Nat /\ i >= 1
      /\ i <= Len(repo.dockerfiles)
  BY <1>1 DEF InferInv, SearchOK
<1>3. env' = [source |-> "repo_dockerfile", deps |-> Augmented({}, DefaultBuild, DefaultTest),
              build |-> DefaultBuild, test |-> DefaultTest,
              dockerfile |-> Patched(d, DefaultTest)]
      /\ pc' = "done"
  BY <1>1 DEF Infer
<1>4. env'.source = "repo_dockerfile" /\ env'.build = DefaultBuild /\ env'.test = DefaultTest
      /\ env'.dockerfile = Patched(d, DefaultTest)
  BY <1>3
<1>5. repo.dockerfiles \in Seq(Seq(DockerLine))
  BY <1>2, RepoFacts
<1>6. i \in DOMAIN repo.dockerfiles /\ d \in Seq(DockerLine)
  BY <1>2, <1>5
<1>7. Usable' # {}
  <2>1. i \in Usable /\ Usable' = Usable
    BY <1>1, <1>6 DEF Usable, Unresolved, Declared
  <2>. QED  BY <2>1
<1>8. /\ ~ Unresolved(Patched(d, DefaultTest))
      /\ DefaultTest # <<>> => Starts(Patched(d, DefaultTest)).ref = "tests"
  BY <1>1, <1>6, PatchedStartsTests
<1>9. LayersInOrder'
  BY <1>4, <1>7, <1>8 DEF LayersInOrder, Unresolved, Declared, Starts
<1>10. EnvOK'
  BY <1>2, <1>3, <1>4, DefaultsAreCommands DEF EnvOK
<1>11. CommandsOnce'
  BY <1>1, NothingAdded DEF InferInv
<1>12. SearchOK' /\ FoundOK'
  BY <1>1, <1>3 DEF InferInv, SearchOK, FoundOK
<1>. QED  BY <1>1, <1>2, <1>3, <1>9, <1>10, <1>11, <1>12 DEF InferInv

LEMMA ReadWorkflowKeeps == InferInv /\ ReadWorkflow => InferInv'
<1> SUFFICES ASSUME InferInv, ReadWorkflow PROVE InferInv'
  OBVIOUS
<1> DEFINE w == WorkflowPaths[i]
<1>1. /\ pc = "workflow" /\ i <= Len(WorkflowPaths) /\ i' = i + 1
      /\ found' = [deps  |-> found.deps \union AptInstalls(w),
                   build |-> AddCommands(found.build, RunSteps(w, "build")),
                   test  |-> AddCommands(found.test, RunSteps(w, "test"))]
      /\ UNCHANGED <<repo, tree, env, pc>>
  BY DEF ReadWorkflow
<1>2. /\ repo \in Repos /\ tree \in BOOLEAN /\ i \in Nat /\ i >= 1
      /\ Usable = {} /\ FoundIn(ReadBefore(i)) /\ FoundOK /\ CommandsOnce
  BY <1>1 DEF InferInv, SearchOK
<1>3. /\ WorkflowPaths \in Seq(Seq(RunStep)) /\ Len(WorkflowPaths) <= Len(repo.workflows)
      /\ \A k \in DOMAIN WorkflowPaths : WorkflowPaths[k] = repo.workflows[k]
      /\ repo.workflows \in Seq(Seq(RunStep))
  BY <1>2, RepoFacts
<1>4. i \in DOMAIN WorkflowPaths /\ w \in Seq(RunStep) /\ w = repo.workflows[i]
  BY <1>1, <1>2, <1>3
<1>5. "build" \in Kinds /\ "test" \in Kinds
  BY DEF Kinds
<1>6. RunSteps(w, "build") \in Seq(Command) /\ RunSteps(w, "test") \in Seq(Command)
  BY <1>4, <1>5, RunStepsAreCommands
<1>7. found'.deps = found.deps \union AptInstalls(w)
      /\ found'.build = AddCommands(found.build, RunSteps(w, "build"))
      /\ found'.test = AddCommands(found.test, RunSteps(w, "test"))
  BY <1>1
<1>8. FoundOK'
  BY <1>2, <1>6, <1>7, AddCommandsAddsAll DEF FoundOK
<1>9. /\ ToSet(found'.build) =
           ToSet(found.build) \union {NormalizeCommand(c) : c \in ToSet(RunSteps(w, "build"))}
      /\ ToSet(found'.test) =
           ToSet(found.test) \union {NormalizeCommand(c) : c \in ToSet(RunSteps(w, "test"))}
  BY <1>2, <1>6, <1>7, AddCommandsAddsAll DEF FoundOK
<1>10. /\ ToSet(found'.build) = CommandsOf(ReadBefore(i + 1), "build")
       /\ ToSet(found'.test) = CommandsOf(ReadBefore(i + 1), "test")
       /\ found'.deps = UNION {AptInstalls(x) : x \in ReadBefore(i + 1)}
  <2>1. {m \in DOMAIN WorkflowPaths : m < i + 1} = {m \in DOMAIN WorkflowPaths : m < i} \union {i}
    BY <1>2, <1>3, <1>4
  <2>2. ReadBefore(i + 1) = ReadBefore(i) \union {w}
    BY <1>4, <2>1 DEF ReadBefore
  <2>3. ASSUME NEW kind
        PROVE  CommandsOf(ReadBefore(i + 1), kind) =
                 CommandsOf(ReadBefore(i), kind)
                   \union {NormalizeCommand(c) : c \in ToSet(RunSteps(w, kind))}
    BY <2>2 DEF CommandsOf
  <2> DEFINE apt(ws) == UNION {AptInstalls(x) : x \in ws}
  <2>4. apt(ReadBefore(i + 1)) = apt(ReadBefore(i)) \union AptInstalls(w)
    <3>1. ASSUME NEW S, NEW y
          PROVE  apt(S \union {y}) = apt(S) \union AptInstalls(y)
      <4>1. \A z : z \in apt(S \union {y}) <=> \E x \in S \union {y} : z \in AptInstalls(x)
        OBVIOUS
      <4>2. \A z : z \in apt(S) <=> \E x \in S : z \in AptInstalls(x)
        OBVIOUS
      <4> HIDE DEF apt
      <4>. QED  BY <4>1, <4>2
    <3> HIDE DEF w, apt
    <3>. QED  BY <2>2, <3>1
  <2>5. /\ ToSet(found.build) = CommandsOf(ReadBefore(i), "build")
        /\ ToSet(found.test) = CommandsOf(ReadBefore(i), "test")
        /\ found.deps = apt(ReadBefore(i))
    BY <1>2 DEF FoundIn
  <2> HIDE DEF w, apt
  <2>6. /\ ToSet(found'.build) = CommandsOf(ReadBefore(i + 1), "build")
        /\ ToSet(found'.test) = CommandsOf(ReadBefore(i + 1), "test")
    BY <1>9, <2>3, <2>5
  <2>7. found'.deps = apt(ReadBefore(i + 1))
    BY <1>7, <2>4, <2>5
  <2>. QED  BY <2>6, <2>7 DEF apt
<1>11. WorkflowPaths' = WorkflowPaths /\ Usable' = Usable
  BY <1>1 DEF WorkflowPaths, Usable, Unresolved, Declared
<1>12. i + 1 <= Len(WorkflowPaths) + 1 /\ i + 1 \in Nat /\ i + 1 >= 1
       /\ i + 1 <= Len(repo.workflows) + 1
  BY <1>1, <1>2, <1>3
<1>13. SearchOK'
  <2>1. FoundIn(ReadBefore(i))'
    BY <1>1, <1>10, <1>11 DEF FoundIn, ReadBefore
  <2>. QED  BY <1>1, <1>2, <1>10, <1>11, <1>12, <2>1 DEF SearchOK
<1>14. EnvOK' /\ LayersInOrder'
  BY <1>1, NothingFound
<1>15. CommandsOnce'
  <2>1. w \in KnownWorkflows
    BY <1>2, <1>4, RepoFacts DEF KnownWorkflows
  <2>2. \A kind \in Kinds : ToSet(RunSteps(w, kind)) \subseteq Steps(kind)
    BY <2>1 DEF Steps
  <2>3. /\ Repeated(found'.build) \subseteq Repeated(found.build) \union Respelt("build")
        /\ Repeated(found'.test) \subseteq Repeated(found.test) \union Respelt("test")
    <3>1. ASSUME NEW cs \in Seq(Command), Normalized(cs), NEW kind \in Kinds,
                 RunSteps(w, kind) \in Seq(Command)
          PROVE  Repeated(AddCommands(cs, RunSteps(w, kind))) \subseteq
                   Repeated(cs) \union Respelt(kind)
      BY <2>2, <3>1, AddCommandsAddsAll DEF Respelt
    <3>. QED  BY <1>2, <1>5, <1>6, <1>7, <3>1 DEF FoundOK
  <2>4. Respelt("build")' = Respelt("build") /\ Respelt("test")' = Respelt("test")
    BY <1>1 DEF Respelt, Steps, KnownWorkflows
  <2>5. Repeated(found.build) \subseteq Respelt("build") /\ Repeated(found.test) \subseteq Respelt("test")
    BY <1>2, <1>5 DEF CommandsOnce
  <2>6. Repeated(found'.build) \subseteq Respelt("build")' /\ Repeated(found'.test) \subseteq Respelt("test")'
    BY <2>3, <2>4, <2>5
  <2>. QED  BY <2>6 DEF CommandsOnce, Kinds
<1>. QED  BY <1>1, <1>2, <1>8, <1>12, <1>13, <1>14, <1>15 DEF InferInv

(* When all workflows have been read, what they gave is what is known.     *)
LEMMA AllWorkflowsRead ==
  ASSUME InferInv, pc = "workflow", i > Len(WorkflowPaths)
  PROVE  /\ Usable = {}
         /\ ToSet(found.build) = Known("build") /\ ToSet(found.test) = Known("test")
         /\ found.deps = UNION {AptInstalls(w) : w \in KnownWorkflows}
<1>1. /\ repo \in Repos /\ tree \in BOOLEAN /\ i \in Nat
      /\ Usable = {} /\ FoundIn(ReadBefore(i))
  BY DEF InferInv, SearchOK
<1>2. WorkflowPaths \in Seq(Seq(RunStep))
      /\ DOMAIN WorkflowPaths = IF tree THEN DOMAIN repo.workflows ELSE {}
  BY <1>1, RepoFacts
<1>3. {m \in DOMAIN WorkflowPaths : m < i} = DOMAIN WorkflowPaths
  BY <1>1, <1>2
<1>4. ReadBefore(i) = KnownWorkflows
  BY <1>2, <1>3 DEF ReadBefore, KnownWorkflows
<1>5. \A kind : CommandsOf(KnownWorkflows, kind) = Known(kind)
  BY DEF CommandsOf, Known, Steps
<1>. QED  BY <1>1, <1>4, <1>5 DEF FoundIn

LEMMA UseWorkflowsKeeps == InferInv /\ UseWorkflows => InferInv'
<1> SUFFICES ASSUME InferInv, UseWorkflows PROVE InferInv'
  OBVIOUS
<1> DEFINE build == IF found.build = <<>> THEN DefaultBuild ELSE found.build
<1>1. /\ pc = "workflow" /\ i > Len(WorkflowPaths) /\ found.test # <<>>
      /\ Infer("github_actions", found.deps, build, found.test, NoFile)
      /\ UNCHANGED <<repo, tree, i, found>>
  BY DEF UseWorkflows
<1>2. /\ repo \in Repos /\ tree \in BOOLEAN
      /\ found.build \in Seq(Command) /\ found.test \in Seq(Command)
  BY DEF InferInv, FoundOK
<1>3. env' = [source |-> "github_actions", deps |-> Augmented(found.deps, build, found.test),
              build |-> build, test |-> found.test, dockerfile |-> NoFile]
      /\ pc' = "done"
  BY <1>1 DEF Infer
<1>4. env'.source = "github_actions" /\ env'.build = build /\ env'.test = found.test
  BY <1>3
<1>5. build \in Seq(Command)
  BY <1>2, DefaultsAreCommands
<1> HIDE DEF build
<1>6. /\ Usable = {}
      /\ ToSet(found.build) = Known("build") /\ ToSet(found.test) = Known("test")
      /\ found.deps = UNION {AptInstalls(w) : w \in KnownWorkflows}
  BY <1>1, AllWorkflowsRead
<1>7. ToSet(found.test) # {}
  <2>1. 1 \in DOMAIN found.test
    BY <1>1, <1>2
  <2>. QED  BY <2>1 DEF ToSet
<1>8. /\ Known("build")' = Known("build") /\ Known("test")' = Known("test")
      /\ KnownWorkflows' = KnownWorkflows /\ Usable' = Usable
  BY <1>1 DEF Known, Steps, KnownWorkflows, Usable, Unresolved, Declared
<1>9. LayersInOrder'
  <2>1. Known("build") # {} => ToSet(build) = Known("build")
    BY <1>6, NoCommandsOK DEF build
  <2>2. found.deps \subseteq env'.deps
    BY <1>3 DEF Augmented
  <2>. QED  BY <1>4, <1>6, <1>7, <1>8, <2>1, <2>2 DEF LayersInOrder
<1>10. EnvOK'
  BY <1>1, <1>2, <1>3, <1>4, <1>5 DEF EnvOK
<1>11. CommandsOnce'
  BY <1>1, NothingAdded DEF InferInv
<1>12. SearchOK' /\ FoundOK'
  BY <1>1, <1>3 DEF InferInv, SearchOK, FoundOK
<1>. QED  BY <1>1, <1>3, <1>9, <1>10, <1>11, <1>12 DEF InferInv

LEMMA UseDefaultsKeeps == InferInv /\ UseDefaults => InferInv'
<1> SUFFICES ASSUME InferInv, UseDefaults PROVE InferInv'
  OBVIOUS
<1>1. /\ pc = "workflow" /\ i > Len(WorkflowPaths) /\ found.test = <<>>
      /\ UNCHANGED <<repo, tree, i, found>>
  BY DEF UseDefaults
<1>2. repo \in Repos /\ tree \in BOOLEAN
  BY DEF InferInv
<1>3. ToSet(found.test) = Known("test") /\ Usable = {}
  BY <1>1, AllWorkflowsRead
<1>4. Known("test")' = {} /\ Usable' = {}
  <2>1. Known("test") = {}
    BY <1>1, <1>3, NoCommandsOK
  <2>2. Known("test")' = Known("test") /\ Usable' = Usable
    BY <1>1 DEF Known, Steps, KnownWorkflows, Usable, Unresolved, Declared
  <2>. QED  BY <1>3, <2>1, <2>2
<1>5. CASE DefaultTest = <<>>
  <2>1. env' = [NoEnv EXCEPT !.source = "failed"] /\ pc' = "done"
    BY <1>5 DEF UseDefaults
  <2>2. env'.source = "failed" /\ env'.build = <<>> /\ env'.test = <<>>
    BY <2>1 DEF NoEnv
  <2>3. LayersInOrder'
    BY <1>4, <2>2 DEF LayersInOrder
  <2>4. EnvOK'
    BY <2>1, <2>2, NoCommandsOK DEF EnvOK
  <2>5. CommandsOnce'
    BY <1>1, NothingAdded DEF InferInv
  <2>6. SearchOK' /\ FoundOK'
    BY <1>1, <2>1 DEF InferInv, SearchOK, FoundOK
  <2>. QED  BY <1>1, <2>1, <2>3, <2>4, <2>5, <2>6 DEF InferInv
<1>6. CASE DefaultTest # <<>>
  <2>1. Infer("llm", {}, DefaultBuild, DefaultTest, NoFile)
    BY <1>6 DEF UseDefaults
  <2>2. env' = [source |-> "llm", deps |-> Augmented({}, DefaultBuild, DefaultTest),
                build |-> DefaultBuild, test |-> DefaultTest, dockerfile |-> NoFile]
        /\ pc' = "done"
    BY <2>1 DEF Infer
  <2>3. env'.source = "llm" /\ env'.build = DefaultBuild /\ env'.test = DefaultTest
    BY <2>2
  <2>4. LayersInOrder'
    BY <1>4, <2>3 DEF LayersInOrder
  <2>5. EnvOK'
    BY <1>2, <1>6, <2>2, <2>3, DefaultsAreCommands DEF EnvOK
  <2>6. CommandsOnce'
    BY <1>1, NothingAdded DEF InferInv
  <2>7. SearchOK' /\ FoundOK'
    BY <1>1, <2>2 DEF InferInv, SearchOK, FoundOK
  <2>. QED  BY <1>1, <2>2, <2>4, <2>5, <2>6, <2>7 DEF InferInv
<1>. QED  BY <1>5, <1>6

LEMMA RaiseKeeps == InferInv /\ Raise => InferInv'
<1> SUFFICES ASSUME InferInv, Raise PROVE InferInv'
  OBVIOUS
<1>1. /\ pc # "done" /\ pc' = "raised" /\ UNCHANGED <<repo, tree, i, found, env>>
  BY DEF Raise
<1>2. SearchOK' /\ FoundOK'
  BY <1>1 DEF InferInv, SearchOK, FoundOK
<1>3. EnvOK' /\ LayersInOrder'
  BY <1>1, NothingFound
<1>4. CommandsOnce'
  BY <1>1, NothingAdded DEF InferInv
<1>. QED  BY <1>1, <1>2, <1>3, <1>4 DEF InferInv

LEMMA InferStutters == InferInv /\ UNCHANGED vars => InferInv'
<1> SUFFICES ASSUME InferInv, UNCHANGED vars PROVE InferInv'
  OBVIOUS
<1>1. UNCHANGED <<repo, tree, i, found, env, pc>>
  BY DEF vars
<1>2. /\ KnownWorkflows' = KnownWorkflows /\ Usable' = Usable /\ WorkflowPaths' = WorkflowPaths
      /\ Known("build")' = Known("build") /\ Known("test")' = Known("test")
  BY <1>1 DEF Known, Steps, KnownWorkflows, Usable, Unresolved, Declared, WorkflowPaths
<1>3. FoundIn(ReadBefore(i))' = FoundIn(ReadBefore(i))
  BY <1>1, <1>2 DEF FoundIn, ReadBefore
<1>4. SearchOK'
  BY <1>1, <1>2, <1>3 DEF InferInv, SearchOK
<1>5. FoundOK' /\ EnvOK'
  BY <1>1 DEF InferInv, FoundOK, EnvOK
<1>6. LayersInOrder'
  BY <1>1, <1>2 DEF InferInv, LayersInOrder, Unresolved, Declared, Starts
<1>7. CommandsOnce'
  BY <1>1, NothingAdded DEF InferInv
<1>. QED  BY <1>1, <1>4, <1>5, <1>6, <1>7 DEF InferInv

(* The search goes through the layers in order: InferInv is invariant.     *)
(* What has been passed over had nothing to use, and what the workflows    *)
(* gave so far is what is known of the ones that have been read            *)
(* (infer_env, lines 457-584).                                             *)
THEOREM InferInvariant == Spec => []InferInv
<1>1. InferInv /\ [Next]_vars => InferInv'
  <2> SUFFICES ASSUME InferInv, [Next]_vars PROVE InferInv'
    OBVIOUS
  <2>1. CASE GetTree        BY <2>1, GetTreeKeeps
  <2>2. CASE ReadProject    BY <2>2, ReadProjectKeeps
  <2>3. CASE NoDockerfile   BY <2>3, NoDockerfileKeeps
  <2>4. CASE UseDockerfile  BY <2>4, UseDockerfileKeeps
  <2>5. CASE ReadWorkflow   BY <2>5, ReadWorkflowKeeps
  <2>6. CASE UseWorkflows   BY <2>6, UseWorkflowsKeeps
  <2>7. CASE UseDefaults    BY <2>7, UseDefaultsKeeps
  <2>8. CASE Raise          BY <2>8, RaiseKeeps
  <2>9. CASE UNCHANGED vars BY <2>9, InferStutters
  <2>. QED  BY <2>1, <2>2, <2>3, <2>4, <2>5, <2>6, <2>7, <2>8, <2>9 DEF Next
<1>. QED  BY InferStarts, <1>1, PTL DEF Spec

(* The layers are tried in the order of the design, whatever Dockerfiles   *)
(* and workflows a repository has: the first usable Dockerfile, which then *)
(* starts the tests; else all the tests of the workflows; else the         *)
(* defaults; and nothing of an earlier layer is left out (infer_env).      *)
THEOREM LayersAreInOrder == Spec => []LayersInOrder
<1>1. InferInv => LayersInOrder
  BY DEF InferInv
<1>. QED  BY <1>1, InferInvariant, PTL

(* The list of commands is looked up by a command as it is written and     *)
(* holds normalized ones.  For workflows of any number and length the only *)
(* commands listed twice are those that one of them spells in another way  *)
(* than the list does (infer_env, lines 515-523).                          *)
THEOREM CommandsListedOnce == Spec => []CommandsOnce
<1>1. InferInv => CommandsOnce
  BY DEF InferInv
<1>. QED  BY <1>1, InferInvariant, PTL

(* The types, with what BuildPipeline relies on: only a Dockerfile of the  *)
(* repository comes without test commands (infer_env, lines 525 and 547).  *)
THEOREM InferTyped == Spec => []TypeOK
<1>1. ASSUME NEW cs \in Seq(Command) PROVE IsCommands(cs)
  <2>1. \A k \in DOMAIN cs : cs[k] \in Seq(Lines) /\ cs[k] # <<>>
    BY DEF Command
  <2>2. \A k \in DOMAIN cs : \A n \in DOMAIN cs[k] : cs[k][n] \in Lines
    BY <2>1
  <2>. QED  BY <2>1, <2>2 DEF IsCommands, ToSet
<1>2. InferInv => TypeOK
  <2> SUFFICES ASSUME InferInv PROVE TypeOK
    OBVIOUS
  <2> DEFINE a == Len(repo.dockerfiles)
             b == Len(repo.workflows)
  <2>1. /\ i \in Nat /\ i >= 1 /\ (i <= a \/ i <= b + 1)
        /\ repo \in Repos /\ tree \in BOOLEAN
    BY DEF InferInv
  <2>2. repo.dockerfiles \in Seq(Seq(DockerLine)) /\ repo.workflows \in Seq(Seq(RunStep))
    BY <2>1, RepoFacts
  <2>3. a \in Nat /\ b \in Nat
    BY <2>2
  <2> HIDE DEF a, b
  <2>4. Max({a, b}) \in {a, b} /\ Max({a, b}) >= a /\ Max({a, b}) >= b
    <3>1. \E x \in {a, b} : \A y \in {a, b} : x >= y
      BY <2>3
    <3>2. Max({a, b}) \in {a, b} /\ \A y \in {a, b} : Max({a, b}) >= y
      BY <3>1 DEF Max
    <3>. QED  BY <3>2
  <2>5. i \in 1..(Max({a, b}) + 1)
    BY <2>1, <2>3, <2>4
  <2>6. IsCommands(found.build) /\ IsCommands(found.test)
    BY <1>1 DEF InferInv, FoundOK
  <2>7. IsCommands(env.build) /\ IsCommands(env.test)
    BY <1>1 DEF InferInv, EnvOK
  <2>. QED  BY <2>5, <2>6, <2>7 DEF InferInv, EnvOK, TypeOK, a, b
<1>. QED  BY <1>2, InferInvariant, PTL
----------------------------------------------------------------------------
(* The walk over the lines against the steps one by one.                   *)
TextLines(script) == [k \in DOMAIN script |-> Raw("text", script[k])]

\* In a block: its lines so far, or after a line like the next key its command.
TextInv(p, k, walk) ==
    /\ walk \in Walk
    /\ IF \E l \in 1..k : p.script[l] \in Bullets
       THEN /\ walk.open = FALSE
            /\ walk.out = p.out \o Pruned(p.kind, UpToBullet(p.script))
       ELSE walk.open = TRUE /\ walk.out = p.out /\ walk.run = SubSeq(p.script, 1, k)
InBlock == INSTANCE FoldFacts WITH Op <- WalkOp, Inv <- TextInv

\* Outside: text is passed over.
IdleInv(p, k, walk) == walk = p
Outside == INSTANCE FoldFacts WITH Op <- WalkOp, Inv <- IdleInv

LEMMA SameWalk ==
  ASSUME NEW kind, NEW p, NEW raws
  PROVE  /\ InBlock!Fold(kind, p, raws) = Walking!Fold(kind, p, raws)
         /\ Outside!Fold(kind, p, raws) = Walking!Fold(kind, p, raws)
BY DEF Walking!Fold, Walking!IsFold, Walking!Largest,
       InBlock!Fold, InBlock!IsFold, InBlock!Largest,
       Outside!Fold, Outside!IsFold, Outside!Largest

LEMMA CloseRunFacts ==
  ASSUME NEW kind, NEW p \in Walk
  PROVE  /\ CloseRun(kind, p).open = FALSE
         /\ CloseRun(kind, CloseRun(kind, p)) = CloseRun(kind, p)
         /\ ~ p.open => CloseRun(kind, p) = p
         /\ p.open => CloseRun(kind, p).out = p.out \o Pruned(kind, p.run)
<1>1. p.open \in BOOLEAN
  BY DEF Walk
<1>. QED  BY <1>1 DEF CloseRun

(* What one line does to the walk.                                         *)
Opened(p)        == [p EXCEPT !.open = TRUE, !.run = <<>>]
WithLine(p, t)   == [p EXCEPT !.run = Append(@, t)]
WithRun(kind, p, t) == [CloseRun(kind, p) EXCEPT !.out = @ \o Pruned(kind, <<t>>)]

LEMMA WalkLineCases ==
  ASSUME NEW kind, NEW p, NEW raw
  PROVE  /\ raw.is = "run |" => WalkLine(kind, p, raw) = Opened(p)
         /\ p.open /\ ~ Ends(raw) => WalkLine(kind, p, raw) = WithLine(p, raw.text)
         /\ raw.is = "run x" =>
              WalkLine(kind, p, raw) = WithRun(kind, p, raw.text)
         /\ raw.is \in {"key", "text"} /\ ~ (p.open /\ ~ Ends(raw)) =>
              WalkLine(kind, p, raw) = CloseRun(kind, p)
<1>1. raw.is \in {"run |", "run x"} => Ends(raw) /\ raw.is # "text"
  BY DEF Ends
<1>2. ~ Ends(raw) => raw.is # "run |" /\ raw.is # "run x"
  BY DEF Ends
<1>3. raw.is \in {"key", "text"} => raw.is # "run |" /\ raw.is # "run x"
  OBVIOUS
<1>4. raw.is = "run x" => raw.is # "run |"
  OBVIOUS
<1>5. raw.is = "run |" => WalkLine(kind, p, raw) = Opened(p)
  BY <1>1, <1>4, Zenon DEF WalkLine, Opened, WithLine, WithRun
<1>6. p.open /\ ~ Ends(raw) => WalkLine(kind, p, raw) = WithLine(p, raw.text)
  BY <1>2, Zenon DEF WalkLine, Opened, WithLine, WithRun
<1>7. raw.is = "run x" =>
        WalkLine(kind, p, raw) = WithRun(kind, p, raw.text)
  BY <1>1, <1>4, Zenon DEF WalkLine, Opened, WithLine, WithRun
<1>8. raw.is \in {"key", "text"} /\ ~ (p.open /\ ~ Ends(raw)) =>
        WalkLine(kind, p, raw) = CloseRun(kind, p)
  BY <1>3, Zenon DEF WalkLine, Opened, WithLine, WithRun
<1>. QED  BY <1>5, <1>6, <1>7, <1>8

LEMMA LineFacts ==
  ASSUME NEW kind, NEW p, NEW t
  PROVE  /\ WalkLine(kind, p, Raw("key", t)) = CloseRun(kind, p)
         /\ WalkLine(kind, p, Raw("run |", t)) = Opened(p)
         /\ WalkLine(kind, p, Raw("run x", t)) = WithRun(kind, p, t)
         /\ p.open /\ t \notin Bullets =>
              WalkLine(kind, p, Raw("text", t)) = WithLine(p, t)
         /\ ~ p.open \/ t \in Bullets => WalkLine(kind, p, Raw("text", t)) = CloseRun(kind, p)
<1>1. \A is : Raw(is, t).is = is /\ Raw(is, t).text = t
  BY DEF Raw
<1>2. Ends(Raw("key", t)) /\ (Ends(Raw("text", t)) <=> t \in Bullets)
  BY <1>1 DEF Ends
<1> HIDE DEF Raw
<1>3. WalkLine(kind, p, Raw("key", t)) = CloseRun(kind, p)
  BY <1>1, <1>2, WalkLineCases
<1>4. WalkLine(kind, p, Raw("run |", t)) = Opened(p)
  BY <1>1, WalkLineCases
<1>5. WalkLine(kind, p, Raw("run x", t)) = WithRun(kind, p, t)
  <2> DEFINE raw == Raw("run x", t)
  <2>1. raw.is = "run x" /\ raw.text = t
    BY <1>1
  <2> HIDE DEF raw
  <2>2. WalkLine(kind, p, raw) = WithRun(kind, p, raw.text)
    BY <2>1, WalkLineCases
  <2>3. WalkLine(kind, p, raw) = WithRun(kind, p, t)
    BY <2>1, <2>2
  <2>. QED  BY <2>3 DEF raw
<1>6. p.open /\ t \notin Bullets =>
        WalkLine(kind, p, Raw("text", t)) = WithLine(p, t)
  <2> DEFINE raw == Raw("text", t)
  <2>1. raw.text = t /\ (Ends(raw) <=> t \in Bullets)
    BY <1>1, <1>2
  <2> HIDE DEF raw
  <2>2. p.open /\ ~ Ends(raw) => WalkLine(kind, p, raw) = WithLine(p, raw.text)
    BY WalkLineCases
  <2>3. p.open /\ t \notin Bullets => WalkLine(kind, p, raw) = WithLine(p, t)
    BY <2>1, <2>2
  <2>. QED  BY <2>3 DEF raw
<1>7. ~ p.open \/ t \in Bullets => WalkLine(kind, p, Raw("text", t)) = CloseRun(kind, p)
  BY <1>1, <1>2, WalkLineCases
<1>. QED  BY <1>1, <1>3, <1>4, <1>5, <1>6, <1>7

LEMMA TextLinesAreLines ==
  ASSUME NEW script \in Seq(Lines)
  PROVE  /\ TextLines(script) \in Seq(RawLine)
         /\ Len(TextLines(script)) = Len(script) /\ Len(script) \in Nat
         /\ DOMAIN TextLines(script) = 1..Len(script)
         /\ \A k \in 1..Len(script) : TextLines(script)[k] = Raw("text", script[k])
                                      /\ TextLines(script)[k] \in RawLine
<1>1. DOMAIN script = 1..Len(script) /\ Len(script) \in Nat
  OBVIOUS
<1>2. \A k \in 1..Len(script) : Raw("text", script[k]) \in RawLine
  <2>1. \A k \in 1..Len(script) : script[k] \in Texts
    BY DEF Texts
  <2>. QED  BY <2>1 DEF Raw, RawLine
<1>. QED  BY <1>1, <1>2 DEF TextLines

(* The lines of a block: a script up to the next key makes its command.    *)
LEMMA WalkBlock ==
  ASSUME NEW kind \in Kinds, NEW p \in Walk, NEW script \in Seq(Lines)
  PROVE  LET q == Walking!Fold(kind, Opened(p), TextLines(script)) IN
           /\ q \in Walk
           /\ CloseRun(kind, q).out = p.out \o Pruned(kind, UpToBullet(script))
<1> DEFINE n   == Len(script)
           par == [kind |-> kind, script |-> script, out |-> p.out]
           bullets == {k \in DOMAIN script : script[k] \in Bullets}
           q   == InBlock!Fold(kind, Opened(p), TextLines(script))
<1>1. /\ n \in Nat /\ DOMAIN script = 1..n /\ \A k \in 1..n : script[k] \in Lines
      /\ par.kind = kind /\ par.script = script /\ par.out = p.out
  OBVIOUS
<1> HIDE DEF par
<1>2. TextInv(par, 0, Opened(p))
  <2>1. Opened(p) \in Walk /\ Opened(p).open = TRUE /\ Opened(p).run = <<>>
        /\ Opened(p).out = p.out
    <3>1. p \in [open : BOOLEAN, run : Seq(Texts), out : Seq(Command)] /\ <<>> \in Seq(Texts)
      BY DEF Walk
    <3>. QED  BY <3>1 DEF Walk, Opened
  <2>2. SubSeq(script, 1, 0) = <<>>
    OBVIOUS
  <2>3. ~ \E l \in 1..0 : par.script[l] \in Bullets
    OBVIOUS
  <2>. QED  BY <1>1, <2>1, <2>2, <2>3 DEF TextInv
<1>3. ASSUME NEW k \in 1..n, NEW v, TextInv(par, k - 1, v)
      PROVE  TextInv(par, k, WalkOp(kind, v, TextLines(script)[k]))
  <2> DEFINE w == WalkLine(kind, v, Raw("text", script[k]))
  <2>1. WalkOp(kind, v, TextLines(script)[k]) = w
    BY TextLinesAreLines DEF WalkOp
  <2>2. v \in Walk /\ w \in Walk
    <3>1. v \in Walk
      BY <1>3 DEF TextInv
    <3>2. Raw("text", script[k]) \in RawLine
      BY TextLinesAreLines
    <3>. QED  BY <3>1, <3>2, WalkKeepsShape
  <2>3. 1..k = (1..(k - 1)) \union {k}
    BY <1>1
  <2>4. CASE \E l \in 1..(k - 1) : script[l] \in Bullets
    <3>1. v.open = FALSE /\ v.out = p.out \o Pruned(kind, UpToBullet(script))
      BY <1>1, <1>3, <2>4 DEF TextInv
    <3>2. w = v
      <4>1. w = CloseRun(kind, v)
        BY <3>1, LineFacts
      <4>2. CloseRun(kind, v) = v
        BY <2>2, <3>1, CloseRunFacts
      <4>. QED  BY <4>1, <4>2
    <3>3. \E l \in 1..k : script[l] \in Bullets
      BY <2>3, <2>4
    <3>4. TextInv(par, k, w)
      BY <1>1, <2>2, <3>1, <3>2, <3>3 DEF TextInv
    <3>. QED  BY <2>1, <3>4
  <2>5. CASE ~ \E l \in 1..(k - 1) : script[l] \in Bullets
    <3>1. v.open = TRUE /\ v.out = p.out /\ v.run = SubSeq(script, 1, k - 1)
      BY <1>1, <1>3, <2>5 DEF TextInv
    <3>2. CASE script[k] \in Bullets
      <4>1. w = CloseRun(kind, v)
        BY <3>2, LineFacts
      <4>2. w.open = FALSE /\ w.out = p.out \o Pruned(kind, SubSeq(script, 1, k - 1))
        <5>1. CloseRun(kind, v).open = FALSE
              /\ CloseRun(kind, v).out = v.out \o Pruned(kind, v.run)
          BY <2>2, <3>1, CloseRunFacts
        <5>. QED  BY <3>1, <4>1, <5>1
      <4>3. UpToBullet(script) = SubSeq(script, 1, k - 1)
        <5>1. k \in bullets /\ \A l \in bullets : k <= l
          <6>1. \A l \in 1..n : l < k => l \in 1..(k - 1)
            OBVIOUS
          <6>. QED  BY <1>1, <2>5, <3>2, <6>1
        <5>2. Min(bullets) = k
          <6>1. Min(bullets) \in bullets /\ \A l \in bullets : Min(bullets) <= l
            BY <5>1 DEF Min
          <6>2. Min(bullets) <= k /\ k <= Min(bullets) /\ Min(bullets) \in 1..n
            BY <1>1, <5>1, <6>1
          <6>. QED  BY <6>2
        <5>3. UpToBullet(script) = SubSeq(script, 1, Min(bullets) - 1)
          BY <5>1 DEF UpToBullet
        <5>. QED  BY <5>2, <5>3
      <4>4. \E l \in 1..k : script[l] \in Bullets
        BY <3>2
      <4>5. TextInv(par, k, w)
        BY <1>1, <2>2, <4>2, <4>3, <4>4 DEF TextInv
      <4>. QED  BY <2>1, <4>5
    <3>3. CASE script[k] \notin Bullets
      <4>1. w = WithLine(v, script[k])
        BY <3>1, <3>3, LineFacts
      <4>2. w.open = TRUE /\ w.out = p.out /\ w.run = Append(SubSeq(script, 1, k - 1), script[k])
        <5>1. v \in [open : BOOLEAN, run : Seq(Texts), out : Seq(Command)]
          BY <2>2 DEF Walk
        <5>. QED  BY <3>1, <4>1, <5>1 DEF WithLine
      <4>3. Append(SubSeq(script, 1, k - 1), script[k]) = SubSeq(script, 1, k)
        BY <1>1
      <4>4. ~ \E l \in 1..k : script[l] \in Bullets
        BY <2>3, <2>5, <3>3
      <4>5. TextInv(par, k, w)
        BY <1>1, <2>2, <4>2, <4>3, <4>4 DEF TextInv
      <4>. QED  BY <2>1, <4>5
    <3>. QED  BY <3>2, <3>3
  <2>. QED  BY <2>4, <2>5
<1>4. DOMAIN TextLines(script) = 1..n
  BY TextLinesAreLines
<1>5. TextInv(par, n, q)
  BY ONLY <1>1, <1>2, <1>3, <1>4, InBlock!FoldInduction
<1> HIDE DEF q
<1>6. q \in Walk
  BY <1>5 DEF TextInv
<1>7. CloseRun(kind, q).out = p.out \o Pruned(kind, UpToBullet(script))
  <2>1. CASE \E l \in 1..n : script[l] \in Bullets
    <3>1. q.open = FALSE /\ q.out = p.out \o Pruned(kind, UpToBullet(script))
      BY <1>1, <1>5, <2>1 DEF TextInv
    <3>. QED  BY <1>6, <3>1, CloseRunFacts
  <2>2. CASE ~ \E l \in 1..n : script[l] \in Bullets
    <3>1. q.open = TRUE /\ q.out = p.out /\ q.run = SubSeq(script, 1, n)
      BY <1>1, <1>5, <2>2 DEF TextInv
    <3>2. bullets = {}
      BY <1>1, <2>2
    <3>3. UpToBullet(script) = script
      BY <3>2 DEF UpToBullet
    <3>4. SubSeq(script, 1, n) = script
      BY <1>1
    <3>5. CloseRun(kind, q).out = q.out \o Pruned(kind, q.run)
      BY <1>6, <3>1, CloseRunFacts
    <3>. QED  BY <3>1, <3>3, <3>4, <3>5
  <2>. QED  BY <2>1, <2>2
<1>. QED  BY <1>6, <1>7, SameWalk DEF q

(* Text outside a block is passed over.                                    *)
LEMMA WalkOutside ==
  ASSUME NEW kind \in Kinds, NEW p \in Walk, ~ p.open, NEW script \in Seq(Lines)
  PROVE  Walking!Fold(kind, p, TextLines(script)) = p
<1> DEFINE n == Len(script)
<1>1. n \in Nat /\ DOMAIN TextLines(script) = 1..n
  BY TextLinesAreLines
<1>2. IdleInv(p, 0, p)
  BY DEF IdleInv
<1>3. ASSUME NEW k \in 1..n, NEW v, IdleInv(p, k - 1, v)
      PROVE  IdleInv(p, k, WalkOp(kind, v, TextLines(script)[k]))
  <2>1. v = p
    BY <1>3 DEF IdleInv
  <2>2. TextLines(script)[k] = Raw("text", script[k])
    BY TextLinesAreLines
  <2>3. WalkLine(kind, p, Raw("text", script[k])) = CloseRun(kind, p)
    BY LineFacts
  <2>4. CloseRun(kind, p) = p
    BY CloseRunFacts
  <2>. QED  BY <2>1, <2>2, <2>3, <2>4 DEF IdleInv, WalkOp
<1>4. IdleInv(p, n, Outside!Fold(kind, p, TextLines(script)))
  BY ONLY <1>1, <1>2, <1>3, Outside!FoldInduction
<1>. QED  BY <1>4, SameWalk DEF IdleInv

LEMMA WalkOneLine ==
  ASSUME NEW kind, NEW p, NEW raw \in RawLine
  PROVE  /\ Walking!Fold(kind, p, <<raw>>) = WalkLine(kind, p, raw)
         /\ Walking!Fold(kind, p, <<>>) = p
<1>1. Walking!Fold(kind, p, <<>>) = p
  <2>1. DOMAIN << >> = {}
    OBVIOUS
  <2>. QED  BY <2>1, Walking!FoldOfEmpty
<1>2. <<>> \in Seq(RawLine) /\ Append(<<>>, raw) = <<raw>>
  OBVIOUS
<1>3. Walking!Fold(kind, p, Append(<<>>, raw)) = WalkOp(kind, Walking!Fold(kind, p, <<>>), raw)
  <2>1. \A seq \in Seq(RawLine), e \in RawLine :
           Walking!Fold(kind, p, Append(seq, e)) = WalkOp(kind, Walking!Fold(kind, p, seq), e)
    BY Walking!FoldOfAppend
  <2>. QED  BY <1>2, <2>1
<1>. QED  BY <1>1, <1>2, <1>3 DEF WalkOp

(* A line outside the patterns is no command.                              *)
LEMMA NoTextIsNoCommand ==
  ASSUME NEW kind \in Kinds
  PROVE  Pruned(kind, <<NoText>>) = <<>>
<1>1. NoText \notin Relevant[kind]
  BY InferTypes
<1>2. ToSet(<<NoText>>) = {NoText}
  BY DEF ToSet
<1>3. ToSet(<<NoText>>) \cap Relevant[kind] = {}
  BY <1>1, <1>2
<1>. QED  BY <1>3, Zenon DEF Pruned

(* One step of a workflow, however it is written: the walk over its lines  *)
(* adds its commands, if the walk does not come out of an open block into  *)
(* a run key that opens one.                                               *)
LEMMA WalkStep ==
  ASSUME NEW kind \in Kinds, NEW p \in Walk, NEW s \in RunStep,
         p.open /\ s.form = "block" => s.named
  PROVE  LET q == Walking!Fold(kind, p, RawStep(s)) IN
           /\ q \in Walk
           /\ CloseRun(kind, q).out = CloseRun(kind, p).out \o StepCommands(s, kind)
           /\ q.open => s.form = "block"
<1>1. /\ s.form \in {"block", "inline", "other", "uses"} /\ s.named \in BOOLEAN
      /\ s.script \in Seq(Lines)
      /\ s.form = "inline" => Len(s.script) = 1
  BY DEF RunStep
<1> DEFINE name == IF s.named THEN <<Raw("key", NoText)>> ELSE <<>>
           run  == CASE s.form = "block"  -> Raw("run |", NoText)
                     [] s.form = "inline" -> Raw("run x", s.script[1])
                     [] s.form = "other"  -> Raw("run x", NoText)
                     [] s.form = "uses"   -> Raw("key", NoText)
           text == IF s.form \in {"block", "other"} THEN TextLines(s.script) ELSE <<>>
           p1   == IF s.named THEN CloseRun(kind, p) ELSE p
           p2   == WalkLine(kind, p1, run)
           q    == Walking!Fold(kind, p2, text)
<1>2. NoText \in Texts
  BY DEF Texts
<1>3. \A t \in Texts : /\ Raw("key", t) \in RawLine /\ Raw("run |", t) \in RawLine
                        /\ Raw("run x", t) \in RawLine /\ Raw("text", t) \in RawLine
  BY DEF Raw, RawLine
<1>4. name \in Seq(RawLine)
  <2>1. Raw("key", NoText) \in RawLine
    BY <1>2, <1>3
  <2>2. <<Raw("key", NoText)>> \in Seq(RawLine) /\ <<>> \in Seq(RawLine)
    BY <2>1
  <2>. QED  BY ONLY <2>2
<1>5. /\ s.form = "block"  => run = Raw("run |", NoText)
      /\ s.form = "inline" => run = Raw("run x", s.script[1]) /\ s.script[1] \in Texts
      /\ s.form = "other"  => run = Raw("run x", NoText)
      /\ s.form = "uses"   => run = Raw("key", NoText)
  <2>1. s.form = "inline" => s.script[1] \in Texts
    BY <1>1 DEF Texts
  <2>2. s.form = "inline" => run = Raw("run x", s.script[1])
    OBVIOUS
  <2>. QED  BY <1>1, <2>1, <2>2
<1>6. run \in RawLine
  BY <1>1, <1>2, <1>3, <1>5
<1>7. text \in Seq(RawLine)
  BY <1>1, TextLinesAreLines
<1>8. RawStep(s) = name \o <<run>> \o text
  BY DEF RawStep, TextLines
<1>9. Walking!Fold(kind, p, RawStep(s)) = q
  <2> HIDE DEF name, run, text
  <2>1. <<run>> \in Seq(RawLine) /\ name \o <<run>> \in Seq(RawLine)
    BY <1>4, <1>6
  <2>2. Walking!Fold(kind, p, name) = p1
    <3>1. Walking!Fold(kind, p, <<>>) = p /\ Raw("key", NoText) \in RawLine
      BY <1>2, <1>3, WalkOneLine
    <3>2. Walking!Fold(kind, p, <<Raw("key", NoText)>>) = CloseRun(kind, p)
      <4>1. Walking!Fold(kind, p, <<Raw("key", NoText)>>) = WalkLine(kind, p, Raw("key", NoText))
        BY <3>1, WalkOneLine
      <4>2. WalkLine(kind, p, Raw("key", NoText)) = CloseRun(kind, p)
        BY LineFacts
      <4>. QED  BY <4>1, <4>2
    <3>. QED  BY <3>1, <3>2 DEF name
  <2>0. \A v, w \in Seq(RawLine) :
           Walking!Fold(kind, p, v \o w) = Walking!Fold(kind, Walking!Fold(kind, p, v), w)
    BY Walking!FoldOfConcatenation
  <2>3. Walking!Fold(kind, p, name \o <<run>>) =
          Walking!Fold(kind, Walking!Fold(kind, p, name), <<run>>)
    BY <1>4, <2>0, <2>1
  <2>4. Walking!Fold(kind, p1, <<run>>) = p2
    BY <1>6, WalkOneLine
  <2>5. Walking!Fold(kind, p, (name \o <<run>>) \o text) =
          Walking!Fold(kind, Walking!Fold(kind, p, name \o <<run>>), text)
    BY <1>7, <2>0, <2>1
  <2>. QED  BY <1>8, <2>2, <2>3, <2>4, <2>5
<1> HIDE DEF name, text, run
<1>10. /\ p1 \in Walk /\ CloseRun(kind, p1).out = CloseRun(kind, p).out
       /\ p1.open /\ s.form = "block" => FALSE
  <2>1. CASE s.named
    <3>1. p1 = CloseRun(kind, p)
      BY <2>1
    <3>2. CloseRun(kind, p) \in Walk
      <4>1. Raw("key", NoText) \in RawLine
        BY <1>2, <1>3
      <4>. QED  BY <4>1, WalkKeepsShape
    <3>. QED  BY <3>1, <3>2, CloseRunFacts
  <2>2. CASE ~ s.named
    BY <2>2
  <2>. QED  BY <2>1, <2>2
<1> HIDE DEF p1
<1>11. CASE s.form = "block"
  <2>1. p2 = Opened(p1)
    <3>1. WalkLine(kind, p1, Raw("run |", NoText)) = Opened(p1)
      BY LineFacts
    <3>2. run = Raw("run |", NoText)
      BY <1>5, <1>11
    <3>. QED  BY <3>1, <3>2
  <2>2. CloseRun(kind, p1) = p1
    BY <1>10, <1>11, CloseRunFacts
  <2>3. text = TextLines(s.script)
    BY <1>11 DEF text
  <2>4. q \in Walk /\ CloseRun(kind, q).out = p1.out \o Pruned(kind, UpToBullet(s.script))
    BY <1>1, <1>10, <2>1, <2>3, WalkBlock
  <2>5. StepCommands(s, kind) = Pruned(kind, UpToBullet(s.script))
    BY <1>11 DEF StepCommands
  <2>6. p1.out = CloseRun(kind, p).out
    BY <1>10, <2>2
  <2> HIDE DEF q
  <2>. QED  BY <1>9, <1>11, <2>4, <2>5, <2>6
<1>12. CASE s.form # "block"
  <2> DEFINE new == StepCommands(s, kind)
  <2>1. p2 \in Walk
    BY <1>6, <1>10, WalkKeepsShape
  <2>2. ~ p2.open /\ p2.out = CloseRun(kind, p1).out \o new
    <3>0. CloseRun(kind, p1) \in Walk /\ CloseRun(kind, p1).open = FALSE
          /\ CloseRun(kind, p1).out \in Seq(Command)
      <4>1. CloseRun(kind, p1) \in Walk
        BY <1>6, <1>10, WalkKeepsShape
      <4>. QED  BY <1>10, <4>1, CloseRunFacts DEF Walk
    <3>1. CASE s.form = "uses"
      <4>1. p2 = CloseRun(kind, p1)
        BY <1>5, <3>1, LineFacts
      <4>2. new = <<>>
        BY <3>1 DEF StepCommands
      <4>. QED  BY <3>0, <4>1, <4>2
    <3>2. ASSUME NEW t \in Texts, run = Raw("run x", t), new = Pruned(kind, <<t>>)
          PROVE  ~ p2.open /\ p2.out = CloseRun(kind, p1).out \o new
      <4>1. p2 = WithRun(kind, p1, t)
        BY <3>2, LineFacts
      <4>2. CloseRun(kind, p1) \in [open : BOOLEAN, run : Seq(Texts), out : Seq(Command)]
        BY <3>0 DEF Walk
      <4>3. p2.open = FALSE /\ p2.out = CloseRun(kind, p1).out \o Pruned(kind, <<t>>)
        BY <3>0, <4>1, <4>2 DEF WithRun
      <4>. QED  BY <3>2, <4>3
    <3>3. CASE s.form = "inline"
      <4>1. s.script = <<s.script[1]>>
        BY <1>1, <3>3
      <4>2. new = Pruned(kind, s.script)
        BY <3>3 DEF StepCommands
      <4>. QED  BY <1>5, <3>2, <3>3, <4>1, <4>2
    <3>4. CASE s.form = "other"
      <4>1. new = <<>>
        BY <3>4 DEF StepCommands
      <4>. QED  BY <1>2, <1>5, <3>2, <3>4, <4>1, NoTextIsNoCommand
    <3>. QED  BY <1>1, <1>12, <3>1, <3>3, <3>4
  <2> HIDE DEF p2
  <2>3. q = p2
    <3>1. CASE text = <<>>
      <4>1. Walking!Fold(kind, p2, <<>>) = p2
        BY <1>6, WalkOneLine
      <4>. QED  BY <3>1, <4>1
    <3>2. CASE text = TextLines(s.script)
      BY <1>1, <2>1, <2>2, <3>2, WalkOutside
    <3>. QED  BY <3>1, <3>2 DEF text
  <2>4. CloseRun(kind, p2) = p2
    BY <2>1, <2>2, CloseRunFacts
  <2> HIDE DEF q
  <2>. QED  BY <1>9, <1>10, <2>1, <2>2, <2>3, <2>4
<1>. QED  BY <1>11, <1>12

LEMMA FlattenSeqFacts ==
  ASSUME NEW E, NEW seqs \in Seq(Seq(E)), NEW s \in Seq(E)
  PROVE  /\ FlattenSeq(<<>>) = <<>>
         /\ FlattenSeq(Append(seqs, s)) = FlattenSeq(seqs) \o s
<1>1. \A ss : FlattenSeq(ss) = IF Len(ss) = 0 THEN ss ELSE Raws!Flatten(ss)
  BY DEF FlattenSeq, Raws!Flatten, Raws!IsFlatten
<1>2. FlattenSeq(<<>>) = <<>>
  BY <1>1
<1>3. Len(Append(seqs, s)) = Len(seqs) + 1 /\ Len(seqs) \in Nat
  OBVIOUS
<1>4. FlattenSeq(Append(seqs, s)) = Raws!Flatten(Append(seqs, s))
  <2> DEFINE app == Append(seqs, s)
  <2>1. Len(app) # 0
    BY <1>3
  <2> HIDE DEF app
  <2>2. FlattenSeq(app) = Raws!Flatten(app)
    BY <1>1, <2>1
  <2>. QED  BY <2>2 DEF app
<1>5. CASE seqs = <<>>
  <2>1. Append(seqs, s) = <<s>>
    BY <1>5
  <2>2. Raws!Flatten(<<s>>) = s
    BY Raws!FlattenOfAppend
  <2>3. FlattenSeq(seqs) \o s = s
    BY <1>2, <1>5
  <2>. QED  BY <1>2, <1>4, <2>1, <2>2, <2>3
<1>6. CASE seqs # <<>>
  <2>1. Raws!Flatten(Append(seqs, s)) = Raws!Flatten(seqs) \o s
    BY <1>6, Raws!FlattenOfAppend
  <2>2. Len(seqs) # 0
    BY <1>6
  <2>. QED  BY <1>1, <1>2, <1>4, <2>1, <2>2
<1>. QED  BY <1>5, <1>6

LEMMA StepCommandsAreCommands ==
  ASSUME NEW kind \in Kinds, NEW s \in RunStep
  PROVE  StepCommands(s, kind) \in Seq(Command)
<1>1. s.script \in Seq(Lines) /\ s.script \in Seq(Texts)
  <2>1. s.script \in Seq(Lines)
    BY DEF RunStep
  <2>2. \A k \in 1..Len(s.script) : s.script[k] \in Texts
    BY <2>1 DEF Texts
  <2>. QED  BY <2>1, <2>2
<1>2. UpToBullet(s.script) \in Seq(Texts)
  <2> DEFINE bullets == {k \in DOMAIN s.script : s.script[k] \in Bullets}
  <2>1. CASE bullets = {}
    BY <1>1, <2>1 DEF UpToBullet
  <2>2. CASE bullets # {}
    <3>1. bullets \subseteq Nat /\ bullets \subseteq 1..Len(s.script)
      BY <1>1
    <3>2. \E x \in bullets : \A y \in bullets : x <= y
      BY <2>2, <3>1, Keep!Least
    <3>3. Min(bullets) \in bullets
      BY <3>2 DEF Min
    <3>4. Min(bullets) \in 1..Len(s.script)
      BY <3>1, <3>3
    <3>5. UpToBullet(s.script) = SubSeq(s.script, 1, Min(bullets) - 1)
      BY <2>2 DEF UpToBullet
    <3> HIDE DEF bullets
    <3>6. SubSeq(s.script, 1, Min(bullets) - 1) \in Seq(Texts)
      BY <1>1, <3>4
    <3>. QED  BY <3>5, <3>6
  <2>. QED  BY <2>1, <2>2
<1>3. s.form = "block" => StepCommands(s, kind) = Pruned(kind, UpToBullet(s.script))
  BY DEF StepCommands
<1>4. s.form = "inline" => StepCommands(s, kind) = Pruned(kind, s.script)
  BY DEF StepCommands
<1>5. s.form # "block" /\ s.form # "inline" => StepCommands(s, kind) = <<>>
  BY DEF StepCommands
<1>6. <<>> \in Seq(Command)
  OBVIOUS
<1>. QED  BY <1>1, <1>2, <1>3, <1>4, <1>5, <1>6, PrunedIsCommands

LEMMA WalkFindsSteps ==
  ASSUME NEW kind \in Kinds, NEW workflow \in Seq(RunStep), Separated(workflow)
  PROVE  CloseRun(kind, Walking!Fold(kind, Start, RawLines(workflow))).out
           = Stepwise(workflow, kind)
<1> DEFINE n      == Len(workflow)
           pre(k) == [j \in 1..k |-> workflow[j]]
           walk(k) == Walking!Fold(kind, Start, RawLines(pre(k)))
           Good(k) == /\ walk(k) \in Walk
                      /\ CloseRun(kind, walk(k)).out = Stepwise(pre(k), kind)
                      /\ walk(k).open => k >= 1 /\ workflow[k].form = "block"
           Bad == {k \in Nat : k <= n /\ ~ Good(k)}
<1>1. n \in Nat /\ DOMAIN workflow = 1..n /\ \A k \in 1..n : workflow[k] \in RunStep
  OBVIOUS
<1>2. pre(n) = workflow /\ pre(0) = <<>>
  OBVIOUS
<1>3. Good(0)
  <2>1. RawLines(pre(0)) = <<>> /\ Stepwise(pre(0), kind) = <<>>
    <3>1. [j \in DOMAIN pre(0) |-> RawStep(pre(0)[j])] = <<>>
          /\ [j \in DOMAIN pre(0) |-> StepCommands(pre(0)[j], kind)] = <<>>
      BY <1>2
    <3>2. <<>> \in Seq(Seq(RawLine)) /\ <<>> \in Seq(RawLine)
      OBVIOUS
    <3>3. FlattenSeq(<<>>) = <<>>
      BY <3>2, FlattenSeqFacts
    <3>. QED  BY <3>1, <3>3 DEF RawLines, Stepwise
  <2>2. walk(0) = Start
    <3>1. [is |-> "key", text |-> NoText] \in RawLine
      BY DEF RawLine, Texts
    <3>. QED  BY <2>1, <3>1, WalkOneLine
  <2>3. Start \in Walk /\ Start.open = FALSE /\ Start.out = <<>>
    BY DEF Start, Walk
  <2>4. CloseRun(kind, Start) = Start
    BY <2>3, CloseRunFacts
  <2>. QED  BY <2>1, <2>2, <2>3, <2>4
<1>4. ASSUME NEW k \in Nat, k + 1 <= n, Good(k) PROVE Good(k + 1)
  <2> DEFINE s == workflow[k + 1]
  <2>1. s \in RunStep /\ k + 1 \in 1..n
    BY <1>1, <1>4
  <2>2. \A j \in 1..k : workflow[j] \in RunStep
    BY <1>1, <1>4
  <2>3. RawLines(pre(k + 1)) = RawLines(pre(k)) \o RawStep(s)
        /\ RawLines(pre(k)) \in Seq(RawLine) /\ RawStep(s) \in Seq(RawLine)
    <3> DEFINE rs == [j \in DOMAIN pre(k) |-> RawStep(pre(k)[j])]
    <3>1. rs \in Seq(Seq(RawLine)) /\ RawStep(s) \in Seq(RawLine)
      <4>1. \A j \in 1..k : RawStep(workflow[j]) \in Seq(RawLine)
        BY <2>2, RawStepIsLines
      <4>. QED  BY <2>1, <4>1, RawStepIsLines
    <3>2. [j \in DOMAIN pre(k + 1) |-> RawStep(pre(k + 1)[j])] = Append(rs, RawStep(s))
      OBVIOUS
    <3>3. pre(k) \in Seq(RunStep)
      BY <2>2
    <3> HIDE DEF rs
    <3>4. FlattenSeq(Append(rs, RawStep(s))) = FlattenSeq(rs) \o RawStep(s)
      BY <3>1, FlattenSeqFacts
    <3>5. RawLines(pre(k + 1)) = FlattenSeq(Append(rs, RawStep(s)))
      BY <3>2 DEF RawLines
    <3>6. RawLines(pre(k)) = FlattenSeq(rs)
      BY DEF RawLines, rs
    <3>. QED  BY <3>1, <3>3, <3>4, <3>5, <3>6, RawLinesAreLines
  <2>4. Stepwise(pre(k + 1), kind) = Stepwise(pre(k), kind) \o StepCommands(s, kind)
    <3> DEFINE cs == [j \in DOMAIN pre(k) |-> StepCommands(pre(k)[j], kind)]
    <3>1. cs \in Seq(Seq(Command)) /\ StepCommands(s, kind) \in Seq(Command)
      <4>1. \A j \in 1..k : StepCommands(workflow[j], kind) \in Seq(Command)
        BY <2>2, StepCommandsAreCommands
      <4>. QED  BY <2>1, <4>1, StepCommandsAreCommands
    <3>2. [j \in DOMAIN pre(k + 1) |-> StepCommands(pre(k + 1)[j], kind)]
            = Append(cs, StepCommands(s, kind))
      OBVIOUS
    <3> HIDE DEF cs
    <3>3. FlattenSeq(Append(cs, StepCommands(s, kind))) = FlattenSeq(cs) \o StepCommands(s, kind)
      BY <3>1, FlattenSeqFacts
    <3>4. Stepwise(pre(k + 1), kind) = FlattenSeq(Append(cs, StepCommands(s, kind)))
      BY <3>2 DEF Stepwise
    <3>5. Stepwise(pre(k), kind) = FlattenSeq(cs)
      BY DEF Stepwise, cs
    <3>. QED  BY <3>3, <3>4, <3>5
  <2>5. walk(k) \in Walk /\ CloseRun(kind, walk(k)).out = Stepwise(pre(k), kind)
        /\ (walk(k).open => k >= 1 /\ workflow[k].form = "block")
    BY <1>4
  <2>6. walk(k).open /\ s.form = "block" => s.named
    <3> SUFFICES ASSUME walk(k).open, s.form = "block" PROVE s.named
      OBVIOUS
    <3>1. k \in 1..(n - 1) /\ workflow[k].form = "block"
      BY <1>1, <1>4, <2>5
    <3>. QED  BY <3>1 DEF Separated
  <2>7. walk(k + 1) = Walking!Fold(kind, walk(k), RawStep(s))
    <3>1. \A v, w \in Seq(RawLine) :
             Walking!Fold(kind, Start, v \o w) =
               Walking!Fold(kind, Walking!Fold(kind, Start, v), w)
      BY Walking!FoldOfConcatenation
    <3>. QED  BY <2>3, <3>1
  <2> HIDE DEF walk, s, pre
  <2>8. /\ walk(k + 1) \in Walk
        /\ CloseRun(kind, walk(k + 1)).out = CloseRun(kind, walk(k)).out \o StepCommands(s, kind)
        /\ walk(k + 1).open => s.form = "block"
    BY <2>1, <2>5, <2>6, <2>7, WalkStep
  <2>9. CloseRun(kind, walk(k + 1)).out = Stepwise(pre(k + 1), kind)
    BY <2>4, <2>5, <2>8
  <2>10. walk(k + 1).open => k + 1 >= 1 /\ workflow[k + 1].form = "block"
    BY <2>8 DEF s
  <2>. QED  BY <2>8, <2>9, <2>10
<1> HIDE DEF Good
<1>5. Bad = {}
  <2> SUFFICES ASSUME Bad # {} PROVE FALSE
    OBVIOUS
  <2>1. PICK k \in Bad : \A j \in Bad : k <= j
    BY Keep!Least
  <2>2. k # 0 /\ k \in Nat /\ k <= n
    BY <1>3, <2>1
  <2>3. k - 1 \in Nat /\ k - 1 \notin Bad /\ (k - 1) + 1 = k /\ k - 1 <= n
    BY <1>1, <2>1, <2>2
  <2>4. Good(k - 1)
    BY <2>3
  <2>5. Good((k - 1) + 1)
    BY <1>4, <2>2, <2>3, <2>4
  <2>. QED  BY <2>1, <2>3, <2>5
<1>6. Good(n)
  BY <1>1, <1>5
<1>. QED  BY <1>2, <1>6 DEF Good

(* What is left when a command that was there before is passed over: the   *)
(* commands so far, each once, in the order in which they came first.      *)
OnceInv(all, k, s) ==
    /\ s \in Seq(Command)
    /\ ToSet(s) = {all[j] : j \in 1..k}
    /\ IsInjective(s)
    /\ \A a, b \in DOMAIN s :
          a < b => \E n \in 1..k : all[n] = s[a] /\ \A m \in 1..n : all[m] # s[b]
Once == INSTANCE FoldFacts WITH Op <- DedupOp, Inv <- OnceInv

LEMMA AppendNewKeepsOnce ==
  ASSUME NEW all \in Seq(Command), NEW k \in 1..Len(all), NEW v, OnceInv(all, k - 1, v)
  PROVE  OnceInv(all, k, AppendNew(v, all[k]))
<1> DEFINE x == all[k]
           l == Len(v)
<1>1. /\ x \in Command /\ k \in Nat /\ k - 1 \in Nat /\ v \in Seq(Command)
      /\ l \in Nat /\ DOMAIN v = 1..l
  BY DEF OnceInv
<1>2. {all[j] : j \in 1..k} = {all[j] : j \in 1..(k - 1)} \union {x}
  OBVIOUS
<1>3. ToSet(v) = {all[j] : j \in 1..(k - 1)} /\ IsInjective(v)
  BY DEF OnceInv
<1>4. \A a, b \in 1..l :
         a < b => \E n \in 1..(k - 1) : all[n] = v[a] /\ \A m \in 1..n : all[m] # v[b]
  BY <1>1 DEF OnceInv
<1>5. 1..(k - 1) \subseteq 1..k
  OBVIOUS
<1>6. CASE \E j \in 1..l : v[j] = x
  <2>1. AppendNew(v, x) = v
    BY <1>1, <1>6 DEF AppendNew, Contains
  <2>2. x \in ToSet(v)
    BY <1>1, <1>6 DEF ToSet
  <2>3. ToSet(v) = {all[j] : j \in 1..k}
    BY <1>2, <1>3, <2>2
  <2>4. \A a, b \in 1..l :
           a < b => \E n \in 1..k : all[n] = v[a] /\ \A m \in 1..n : all[m] # v[b]
    BY ONLY <1>4, <1>5
  <2> HIDE DEF x, l
  <2>5. OnceInv(all, k, v)
    BY ONLY <1>1, <1>3, <2>3, <2>4 DEF OnceInv
  <2>. QED  BY <2>1, <2>5 DEF x
<1>7. CASE ~ \E j \in 1..l : v[j] = x
  <2> DEFINE w == Append(v, x)
  <2>1. AppendNew(v, x) = w
    BY <1>1, <1>7 DEF AppendNew, Contains
  <2>2. /\ w \in Seq(Command) /\ DOMAIN w = 1..(l + 1) /\ w[l + 1] = x
        /\ \A j \in 1..l : w[j] = v[j]
    BY <1>1
  <2> HIDE DEF w, l
  <2>3. ToSet(w) = ToSet(v) \union {x}
    <3>1. 1..(l + 1) = 1..l \union {l + 1}
      BY <1>1
    <3>. QED  BY <1>1, <2>2, <3>1 DEF ToSet
  <2>4. IsInjective(w)
    <3> SUFFICES ASSUME NEW a \in 1..(l + 1), NEW b \in 1..(l + 1), w[a] = w[b] PROVE a = b
      BY <2>2 DEF IsInjective
    <3>1. CASE a \in 1..l /\ b \in 1..l
      BY <1>1, <1>3, <2>2, <3>1 DEF IsInjective
    <3>2. CASE a \notin 1..l \/ b \notin 1..l
      BY <1>1, <1>7, <2>2, <3>2
    <3>. QED  BY <3>1, <3>2
  <2>5. ASSUME NEW a \in 1..(l + 1), NEW b \in 1..(l + 1), a < b
        PROVE  \E n \in 1..k : all[n] = w[a] /\ \A m \in 1..n : all[m] # w[b]
    <3>1. a \in 1..l /\ w[a] = v[a]
      BY <1>1, <2>2, <2>5
    <3>2. CASE b \in 1..l
      BY <1>4, <1>5, <2>2, <2>5, <3>1, <3>2
    <3>3. CASE b \notin 1..l
      <4>1. w[b] = x
        BY <1>1, <2>2, <3>3
      <4>2. v[a] \in ToSet(v)
        BY <1>1, <3>1 DEF ToSet
      <4>3. PICK n \in 1..(k - 1) : all[n] = v[a]
        BY <1>3, <4>2
      <4>4. ASSUME NEW m \in 1..n PROVE all[m] # x
        <5>1. m \in 1..(k - 1)
          BY <1>1, <4>3
        <5>2. all[m] \in ToSet(v)
          BY <1>3, <5>1
        <5>. QED  BY <1>1, <1>7, <5>2 DEF ToSet
      <4>. QED  BY <1>5, <3>1, <4>1, <4>3, <4>4
    <3>. QED  BY <3>2, <3>3
  <2>6. ToSet(w) = {all[j] : j \in 1..k}
    BY <1>2, <1>3, <2>3
  <2>. QED  BY <2>1, <2>2, <2>4, <2>5, <2>6 DEF OnceInv
<1>. QED  BY <1>6, <1>7

(* extract_run_steps gives the commands of the steps, each once.           *)
LEMMA RunStepsAreOnce ==
  ASSUME NEW kind \in Kinds, NEW workflow \in Seq(RunStep), Separated(workflow)
  PROVE  LET steps == Stepwise(workflow, kind)
         IN steps \in Seq(Command) /\ OnceInv(steps, Len(steps), RunSteps(workflow, kind))
<1> DEFINE end == Walking!Fold(kind, Start, RawLines(workflow))
           all == CloseRun(kind, end).out
<1>1. RunSteps(workflow, kind) = Once!Fold(0, <<>>, all)
  BY DEF RunSteps, FoldLeft, MapThenFoldSet, Max, Start,
         Walking!Fold, Walking!IsFold, Walking!Largest, WalkOp,
         Once!Fold, Once!IsFold, Once!Largest, DedupOp
<1>2. all = Stepwise(workflow, kind)
  BY WalkFindsSteps
<1>3. all \in Seq(Command)
  BY WalkEndsInCommands
<1> HIDE DEF all
<1>4. DOMAIN all = 1..Len(all) /\ Len(all) \in Nat
  BY <1>3
<1>5. OnceInv(all, 0, <<>>)
  BY DEF OnceInv, ToSet, IsInjective
<1>6. ASSUME NEW k \in 1..Len(all), NEW v, OnceInv(all, k - 1, v)
      PROVE  OnceInv(all, k, DedupOp(0, v, all[k]))
  BY <1>3, <1>6, AppendNewKeepsOnce DEF DedupOp
<1>7. OnceInv(all, Len(all), Once!Fold(0, <<>>, all))
  BY ONLY <1>4, <1>5, <1>6, Once!FoldInduction
<1>. QED  BY <1>1, <1>2, <1>3, <1>7

(* The walk over the lines of a workflow finds the commands of its steps,  *)
(* in order and each once, for every workflow in which no two blocks       *)
(* follow each other without a name between them (extract_run_steps).      *)
THEOREM WalkFindsTheSteps == Spec => []WalkIsStepwise
<1>1. InferInv => WalkIsStepwise
  <2> SUFFICES ASSUME InferInv, NEW k \in DOMAIN repo.workflows, NEW kind \in Kinds,
                      Separated(repo.workflows[k])
               PROVE  LET walked == RunSteps(repo.workflows[k], kind)
                          steps  == Stepwise(repo.workflows[k], kind)
                      IN /\ ToSet(walked) = ToSet(steps)
                         /\ IsInjective(walked)
                         /\ \A a, b \in DOMAIN walked :
                              a < b => \E n \in DOMAIN steps :
                                          /\ steps[n] = walked[a]
                                          /\ \A m \in 1..n : steps[m] # walked[b]
    BY DEF WalkIsStepwise
  <2> DEFINE walked == RunSteps(repo.workflows[k], kind)
             steps  == Stepwise(repo.workflows[k], kind)
  <2>1. repo.workflows[k] \in Seq(RunStep)
    <3>1. repo.workflows \in Seq(Seq(RunStep))
      BY RepoFacts DEF InferInv
    <3>. QED  BY <3>1
  <2>2. steps \in Seq(Command) /\ OnceInv(steps, Len(steps), walked)
    BY <2>1, RunStepsAreOnce
  <2> HIDE DEF walked, steps
  <2>3. DOMAIN steps = 1..Len(steps)
    BY <2>2
  <2>4. ToSet(steps) = {steps[j] : j \in 1..Len(steps)}
    BY <2>3 DEF ToSet
  <2>5. ToSet(walked) = ToSet(steps) /\ IsInjective(walked)
    BY <2>2, <2>4 DEF OnceInv
  <2>6. \A a, b \in DOMAIN walked :
           a < b => \E n \in DOMAIN steps :
                       steps[n] = walked[a] /\ \A m \in 1..n : steps[m] # walked[b]
    BY <2>2, <2>3 DEF OnceInv
  <2>. QED  BY <2>5, <2>6 DEF walked, steps
<1>. QED  BY <1>1, InferInvariant, PTL
=============================================================================
