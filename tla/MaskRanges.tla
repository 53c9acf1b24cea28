------------------------------ MODULE MaskRanges ------------------------------
(***************************************************************************)
(* construct_task from the patch of the target file to the task: which     *)
(* lines are masked.  The patch gives seeds (lines with an anchor keyword, *)
(* or else the added lines); every seed is tried as it is, as its block,   *)
(* and wider; the first range that makes the tests fail is masked, and its *)
(* lines are the ground truth.  At the other end run_tests puts an answer  *)
(* in the place of the mask.                                               *)
(*                                                                         *)
(* Simplifications.  A line is its indentation and a code that stands for  *)
(* its text; a line of code "blank" has no text.  The patch is made from   *)
(* an edit script, as GitHub makes it.  Lines that GitHub adds or that     *)
(* look like file headers ("\ No newline at end of file", "++ ...",        *)
(* "-- ...") are left out.  What the tests say is chosen; BuildPipeline    *)
(* has the sessions and the check of the original file.                    *)
(***************************************************************************)
EXTENDS Integers, SequencesExt

CONSTANTS Scripts,            \* edit scripts: sequences of [mark, line]
          Codes,              \* texts of lines
          Opens, Closes,      \* Opens[c], Closes[c]: braces in c
          Heads,              \* codes like "int f() {" or "{"
          Colons,             \* codes that end with ":"
          Interop, Anchors,   \* codes with a keyword / an anchor keyword
          Langs               \* "block" (braces), "Python", "other"

Blank == "blank"
Line  == [code : Codes, indent : Nat]
Entry == [mark : {"+", "-", " ", "~"}, line : Line]

ASSUME MaskTypes ==
    /\ Blank \in Codes
    /\ Heads \union Colons \union Interop \union Anchors \subseteq Codes \ {Blank}
    /\ Opens \in [Codes -> Nat] /\ Closes \in [Codes -> Nat]
    /\ Scripts \subseteq Seq(Entry)
    /\ Langs \subseteq {"block", "Python", "other"}

VARIABLES
    script, lang,   \* the change of the target file and its language
    ranges,         \* attempt_ranges
    i,              \* the one at hand
    pc,             \* "derive", "try", "done"
    reason          \* why there is no task, or "task"

vars == <<script, lang, ranges, i, pc, reason>>
----------------------------------------------------------------------------
(* The file at head_sha: line n is the n-th that was not removed.  The     *)
(* patch: lines marked "~" are too far from a change to be in it, and each *)
(* hunk starts with a header.                                              *)
IsNew(entry) == entry.mark # "-"
Text(entry)  == entry.line
NewLine(s, k) == Cardinality({j \in 1..k : IsNew(s[j])})
File(s) ==
    [n \in 1..NewLine(s, Len(s)) |->
        Text(s[CHOOSE k \in DOMAIN s : IsNew(s[k]) /\ NewLine(s, k) = n])]

NoLine == [code |-> Blank, indent |-> 0]
Header(s, k) ==
    [mark |-> "@@", line |-> NoLine,
     at |-> IF IsNew(s[k]) THEN NewLine(s, k) ELSE NewLine(s, k) + 1]
Hunk(s, k) ==
    LET raw == [mark |-> s[k].mark, line |-> Text(s[k]), at |-> 0]
    IN IF s[k].mark = "~" THEN <<>>
       ELSE IF k = 1 \/ s[k - 1].mark = "~" THEN <<Header(s, k), raw>> ELSE <<raw>>
Patch(s) == FlattenSeq([k \in DOMAIN s |-> Hunk(s, k)])
----------------------------------------------------------------------------
(* _merge_ranges: neighbours become one.                                   *)
\* Mutant of MergeOne: only ranges that overlap are joined.
MergeOverlap(merged, r) ==
    LET last == Last(merged)
    IN IF r[1] <= last[2]
       THEN Append(Front(merged), <<last[1], Max({last[2], r[2]})>>)
       ELSE Append(merged, r)

MergeOne(merged, r) ==
    LET last == Last(merged)
    IN IF r[1] <= last[2] + 1
       THEN Append(Front(merged), <<last[1], Max({last[2], r[2]})>>)
       ELSE Append(merged, r)
Before(a, b) == a[1] < b[1] \/ (a[1] = b[1] /\ a[2] < b[2])
Sorted(rs) ==
    LET order == CHOOSE p \in Bijection(DOMAIN rs, DOMAIN rs) :
                    \A j, k \in DOMAIN rs : j < k => ~ Before(rs[p[k]], rs[p[j]])
    IN [k \in DOMAIN rs |-> rs[order[k]]]
MergeRanges(rs) ==
    IF rs = <<>> THEN <<>> ELSE FoldLeft(MergeOne, <<rs[1]>>, Sorted(rs))

(* _parse_patch_ranges: runs of added lines, numbered in the new file.     *)
Flush(p) == [p EXCEPT !.out = @ \o p.run, !.run = <<>>]
\* Mutant of ParseLine: a removed line is counted.
ParseLineCounting(p, raw) ==
    CASE raw.mark = "@@" -> [Flush(p) EXCEPT !.line = raw.at]
      [] raw.mark = "+"  -> [p EXCEPT
            !.run = <<IF @ = <<>> THEN <<p.line, p.line>> ELSE <<@[1][1], p.line>>>>,
            !.line = @ + 1]
      [] OTHER -> [Flush(p) EXCEPT !.line = @ + 1]

ParseLine(p, raw) ==
    CASE raw.mark = "@@" -> [Flush(p) EXCEPT !.line = raw.at]
      [] raw.mark = "+"  -> [p EXCEPT
            !.run = <<IF @ = <<>> THEN <<p.line, p.line>> ELSE <<@[1][1], p.line>>>>,
            !.line = @ + 1]
      [] raw.mark = "-"  -> Flush(p)
      [] OTHER           -> [Flush(p) EXCEPT !.line = @ + 1]
ParsePatchRanges(patch) ==
    MergeRanges(Flush(FoldLeft(ParseLine, [line |-> 0, run |-> <<>>, out |-> <<>>],
                               patch)).out)

(* _parse_keyword_anchor_ranges: lines of the new file with an anchor,     *)
(* context lines too, but no head of a block.                              *)
AnchorLine(p, raw) ==
    CASE raw.mark = "@@" -> [p EXCEPT !.line = raw.at]
      [] raw.mark = "-"  -> p
      [] raw.mark \in {"+", " "} ->
            [line |-> p.line + 1,
             out  |-> IF raw.line.code \in Anchors \ Heads
                      THEN Append(p.out, <<p.line, p.line>>) ELSE p.out]
ParseAnchorRanges(patch) ==
    MergeRanges(FoldLeft(AnchorLine, [line |-> 0, out |-> <<>>], patch).out)
----------------------------------------------------------------------------
(* _brace_blocks: every closing brace takes the last one left open.        *)
BraceLine(file, b, k) ==
    LET open  == b.open \o [n \in 1..Opens[file[k].code] |-> k]
        taken == Min({Closes[file[k].code], Len(open)})
    IN [open   |-> SubSeq(open, 1, Len(open) - taken),
        blocks |-> b.blocks \union {<<open[Len(open) - n], k>> : n \in 0..(taken - 1)}]
BraceBlocks(file) ==
    FoldLeft(LAMBDA b, k : BraceLine(file, b, k), [open |-> <<>>, blocks |-> {}],
             [k \in DOMAIN file |-> k]).blocks

\* Mutant of Within: the end of the file is not looked at.
WithinOpen(file, from, to) == <<Max({1, from}), to>>
Within(file, from, to) == <<Max({1, from}), Min({Len(file), to})>>
Around(file, r, n) == Within(file, r[1] - n, r[2] + n)

(* The block of a range by braces: the smallest, of these the first.       *)
Enclosing(file, r) == {b \in BraceBlocks(file) : b[1] <= r[1] /\ r[2] <= b[2]}
Smaller(a, b) == a[2] - a[1] < b[2] - b[1] \/ (a[2] - a[1] = b[2] - b[1] /\ a[1] < b[1])
BraceBlock(file, r) ==
    CHOOSE b \in Enclosing(file, r) : \A c \in Enclosing(file, r) \ {b} : Smaller(b, c)

\* Mutant of PythonBlock: the end is looked for from the first line.
PythonBlockShort(file, r) ==
    LET indent == file[r[1]].indent
        starts == {k \in 1..r[1] : k = 1 \/ file[k - 1].code = Blank
                     \/ (file[k - 1].code \in Colons /\ file[k - 1].indent < indent)}
        ends   == {k \in r[1]..Len(file) : k = Len(file)
                     \/ (file[k + 1].code # Blank /\ file[k + 1].indent <= indent)}
    IN <<Max(starts), Min(ends)>>

(* The block of a range by indentation: back to a blank line or the head   *)
(* of the block, on to the next line that is not deeper.                   *)
PythonBlock(file, r) ==
    LET indent == file[r[1]].indent
        starts == {k \in 1..r[1] : k = 1 \/ file[k - 1].code = Blank
                     \/ (file[k - 1].code \in Colons /\ file[k - 1].indent < indent)}
        ends   == {k \in r[2]..Len(file) : k = Len(file)
                     \/ (file[k + 1].code # Blank /\ file[k + 1].indent <= indent)}
    IN <<Max(starts), Min(ends)>>

(* _expand_range.                                                          *)
Expand(file, seed, attempt) ==
    LET r == Within(file, seed[1], seed[2])
        wider(b) == IF attempt = 1 THEN b ELSE Around(file, b, 2)
    IN CASE attempt = 0 -> r
         [] attempt > 0 /\ lang = "block" /\ Enclosing(file, r) # {} ->
              wider(BraceBlock(file, r))
         [] attempt > 0 /\ lang = "Python" -> wider(PythonBlock(file, r))
         [] OTHER -> Around(file, r, IF attempt = 1 THEN 3 ELSE 8)

(* _build_attempt_ranges.                                                  *)
Seeds(s) ==
    LET anchors == ParseAnchorRanges(Patch(s))
    IN IF anchors = <<>> THEN ParsePatchRanges(Patch(s)) ELSE anchors
\* Mutant of AppendNew: a range may come twice.
AppendAny(rs, r) == Append(rs, r)
AppendNew(rs, r) == IF Contains(rs, r) THEN rs ELSE Append(rs, r)
BuildAttemptRanges(s) ==
    LET file  == File(s)
        seeds == IF ParsePatchRanges(Patch(s)) = <<>> THEN <<>> ELSE Seeds(s)
    IN FoldLeft(AppendNew, <<>>,
                [n \in 1..(3 * Len(seeds)) |->
                    Expand(file, seeds[((n - 1) \div 3) + 1], (n - 1) % 3)])
----------------------------------------------------------------------------
(* _replace_lines, _build_masked_code: one line with the indentation of    *)
(* the first masked line, and the ground truth beside it.                  *)
ReplaceLines(file, r, new) ==
    SubSeq(file, 1, r[1] - 1) \o new \o SubSeq(file, r[2] + 1, Len(file))
MaskWord == "<MASK>"
\* Mutant of MaskLine: the mask always starts in the first column.
MaskLineFlat(file, r) == [code |-> MaskWord, indent |-> 0]
MaskLine(file, r) == [code |-> MaskWord, indent |-> file[r[1]].indent]
Masked(file, r) == ReplaceLines(file, r, <<MaskLine(file, r)>>)
Truth(file, r)  == SubSeq(file, r[1], r[2])

(* strip(), in llm_generate: blank lines go at both ends, and so does the  *)
(* indentation of the first line that stays.                               *)
Strip(answer) ==
    LET text == {k \in DOMAIN answer : answer[k].code # Blank}
    IN IF text = {} THEN <<>>
       ELSE LET kept == SubSeq(answer, Min(text), Max(text))
            IN [kept EXCEPT ![1].indent = 0]

(* build_full_source: the answer takes the place of the first <MASK>.      *)
Insert(masked, answer) ==
    LET m == Min({k \in DOMAIN masked : masked[k].code = MaskWord})
        new == IF answer = <<>> THEN <<[masked[m] EXCEPT !.code = Blank]>>
               ELSE [answer EXCEPT ![1].indent = @ + masked[m].indent]
    IN ReplaceLines(masked, <<m, m>>, new)
----------------------------------------------------------------------------
PatchHits == \E k \in DOMAIN script : script[k].mark # "~" /\ Text(script[k]).code \in Interop

(* The range may be tried: 15% of its lines with text have a keyword, or   *)
(* one has, or the patch has one.                                          *)
Hits(r)  == {k \in r[1]..r[2] : File(script)[k].code \in Interop}
Texts(r) == {k \in r[1]..r[2] : File(script)[k].code # Blank}
Dense(r) == Texts(r) # {} /\ 100 * Cardinality(Hits(r)) >= 15 * Cardinality(Texts(r))
LooksLikeGlue(r) == Dense(r) \/ Hits(r) # {} \/ PatchHits

Init ==
    /\ script \in Scripts /\ lang \in Langs
    /\ ranges = <<>> /\ i = 1
    /\ pc = "derive" /\ reason = "none"

End(why) == pc' = "done" /\ reason' = why

(* The file is a candidate only if its patch has a keyword.                *)
NoInteropSignal ==
    /\ pc = "derive" /\ ~ PatchHits
    /\ End("no_interop_signal")
    /\ UNCHANGED <<script, lang, ranges, i>>

Derive ==
    /\ pc = "derive" /\ PatchHits
    /\ ranges' = BuildAttemptRanges(script)
    /\ IF ranges' = <<>> THEN End("patch_unavailable")
       ELSE pc' = "try" /\ UNCHANGED reason
    /\ UNCHANGED <<script, lang, i>>

(* Every way a range fails leads to the next one; the last range, which    *)
(* the code knows by its value, ends the node with its reason.             *)
NextRange(why) ==
    IF ranges[i] = Last(ranges) THEN End(why) /\ UNCHANGED i
    ELSE i' = i + 1 /\ UNCHANGED <<pc, reason>>

RangeFails ==
    /\ pc = "try"
    /\ IF LooksLikeGlue(ranges[i])
       THEN \E why \in {"mask_breaks_compilation", "mask_ineffective"} : NextRange(why)
       ELSE NextRange("mask_not_interop_code")
    /\ UNCHANGED <<script, lang, ranges>>

(* The tests fail with the range masked: it makes the task, if they still  *)
(* pass with the original file.                                            *)
RangeWorks ==
    /\ pc = "try" /\ LooksLikeGlue(ranges[i])
    /\ \E why \in {"task", "ground_truth_invalid"} : End(why)
    /\ UNCHANGED <<script, lang, ranges, i>>

Next == NoInteropSignal \/ Derive \/ RangeFails \/ RangeWorks

Spec == Init /\ [][Next]_vars
----------------------------------------------------------------------------
(* The ranges tried lie inside the file and hold at least a line.          *)
TypeOK ==
    /\ \A n \in DOMAIN ranges :
          ranges[n][1] \in 1..ranges[n][2] /\ ranges[n][2] <= Len(File(script))
    /\ pc \in {"derive", "try", "done"}
    /\ pc = "try" => i \in DOMAIN ranges

(* The ranges parsed from a patch are the lines the change added, none     *)
(* more and none less, in order and with a gap between any two.            *)
AddedLines(s) == {NewLine(s, k) : k \in {n \in DOMAIN s : s[n].mark = "+"}}
RangesAreTheAddedLines ==
    pc = "derive" =>
        LET rs == ParsePatchRanges(Patch(script)) IN
            /\ UNION {rs[n][1]..rs[n][2] : n \in DOMAIN rs} = AddedLines(script)
            /\ \A n \in 1..(Len(rs) - 1) : rs[n][2] + 1 < rs[n + 1][1]

(* The three attempts at one seed never get narrower, whatever the         *)
(* language, and all hold the seed (design 6.7: try a larger granularity). *)
Inside(a, b) == b[1] <= a[1] /\ a[2] <= b[2]
AttemptsWiden ==
    pc = "derive" =>
        \A n \in DOMAIN Seeds(script) :
            LET try(k) == Expand(File(script), Seeds(script)[n], k) IN
                Inside(Seeds(script)[n], try(0)) /\ Inside(try(0), try(1)) /\ Inside(try(1), try(2))

(* A change is given up only when its last range has failed, although the  *)
(* last range is known by its value and not by its place.                  *)
EveryRangeTried ==
    reason \in {"mask_breaks_compilation", "mask_ineffective", "mask_not_interop_code"}
        => i = Len(ranges)

(* The ground truth, handed in the way a model's answer is, gives back the *)
(* original file, blank lines aside: the task can be solved.  This needs a *)
(* range that begins with code: the indentation of the mask is taken from  *)
(* its first line, and strip() drops that of the answer's first code line. *)
(* And it needs a file that does not say <MASK> itself before the range.   *)
CodeOf(file) ==
    LET add(code, line) == IF line.code = Blank THEN code ELSE Append(code, line)
    IN FoldLeft(add, <<>>, file)
Restores(r) ==
    LET file == File(script)
    IN CodeOf(Insert(Masked(file, r), Strip(Truth(file, r)))) = CodeOf(file)
FirstMask(r) == \A k \in 1..(r[1] - 1) : File(script)[k].code # MaskWord
TruthRestoresFromCode ==
    (reason = "task" /\ File(script)[ranges[i][1]].code # Blank /\ FirstMask(ranges[i]))
        => Restores(ranges[i])
=============================================================================
