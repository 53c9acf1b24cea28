----------------------------- MODULE MCMaskRanges -----------------------------
(***************************************************************************)
(* Files of nine lines.  A change adds at most three of them and may cut   *)
(* a line; three lines of context belong to the patch on every side, so    *)
(* two changes far enough apart make two hunks.                            *)
(***************************************************************************)
EXTENDS MaskRanges

MCCodes   == {"blank", "head {", "call", "word", "stmt", "} else {", "}", "{{", "def:", "<MASK>"}
MCOpens   == [c \in MCCodes |-> CASE c = "{{" -> 2 [] c \in {"head {", "} else {"} -> 1
                                  [] OTHER -> 0]
MCCloses  == [c \in MCCodes |-> IF c \in {"}", "} else {"} THEN 1 ELSE 0]
MCHeads   == {"head {"}
MCColons  == {"def:"}
MCInterop == {"call", "word"}
MCAnchors == {"call"}
L(c, n)   == [code |-> c, indent |-> n]

\* Two functions; an if with an else; braces that come in twos; two Python
\* functions, the second with a nested block; a file without a keyword that
\* says <MASK> itself.
MCFunctions == <<L("head {", 0), L("call", 1), L("stmt", 1), L("}", 0), L("blank", 0),
                 L("head {", 0), L("word", 1), L("stmt", 1), L("}", 0)>>
MCElse      == <<L("head {", 0), L("{{", 1), L("word", 2), L("} else {", 1), L("stmt", 2),
                 L("}", 1), L("}", 0), L("blank", 0), L("word", 0)>>
MCPython    == <<L("def:", 0), L("word", 1), L("blank", 0), L("stmt", 1), L("blank", 0),
                 L("def:", 0), L("def:", 1), L("call", 2), L("stmt", 1)>>
MCPlain     == <<L("stmt", 0), L("blank", 0), L("head {", 0), L("<MASK>", 1), L("} else {", 0),
                 L("stmt", 1), L("}", 0), L("blank", 0), L("stmt", 0)>>
MCFiles     == {MCFunctions, MCElse, MCPython, MCPlain}

Near(a, b) == a - b \in -3..3
\* plus: the added lines; cut: a line was removed after this one (or none, -1).
Mark(plus, cut, k) ==
    IF k \in plus THEN "+"
    ELSE IF (\E p \in plus : Near(k, p)) \/ (cut >= 0 /\ k \in (cut - 2)..(cut + 3))
    THEN " " ELSE "~"
Script(file, plus, cut) ==
    LET part(from, to) == [k \in 1..(to - from + 1) |->
                             [mark |-> Mark(plus, cut, from + k - 1), line |-> file[from + k - 1]]]
    IN IF cut < 0 THEN part(1, Len(file))
       ELSE part(1, cut) \o <<[mark |-> "-", line |-> L("word", 0)]>> \o part(cut + 1, Len(file))
MCPlus    == {P \in SUBSET (1..9) : Cardinality(P) \in 0..3}
MCScripts == {Script(f, P, c) : f \in MCFiles, P \in MCPlus, c \in {-1, 0, 2, 4, 9}}
=============================================================================
