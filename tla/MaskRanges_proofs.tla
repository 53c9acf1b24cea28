-------------------------- MODULE MaskRanges_proofs --------------------------
(***************************************************************************)
(* Theorems about MaskRanges, for every value of the constants.  The loops *)
(* over lines and ranges are taken by induction over the sequence          *)
(* (FoldFacts, with the operation and the invariant of the loop).          *)
(***************************************************************************)
EXTENDS MaskRanges, FiniteSetTheorems, TLAPS

Span == Nat \X Nat
RawEntry == [mark : {"+", "-", " ", "~", "@@"}, line : Line, at : Nat]

(* The lines that a list of ranges covers.                                 *)
Cover(rs) == UNION {rs[n][1]..rs[n][2] : n \in DOMAIN rs}
Proper(rs) == \A n \in DOMAIN rs : rs[n][1] <= rs[n][2]
Ordered(rs) == \A j, k \in DOMAIN rs : j < k => rs[j][2] < rs[k][1]
Gapped(rs) == \A j, k \in DOMAIN rs : j < k => rs[j][2] + 1 < rs[k][1]

(* Merging: what is left to merge begins behind the last range's start.    *)
MergeOp(c, merged, r) == MergeOne(merged, r)
MergeInv(p, k, merged) ==
    /\ merged \in Seq(Span) /\ merged # <<>>
    /\ Proper(merged) /\ Gapped(merged)
    /\ Cover(merged) = Cover(<<p.first>>) \union UNION {p.rs[j][1]..p.rs[j][2] : j \in 1..k}
    /\ \A j \in (k + 1)..Len(p.rs) : Last(merged)[1] <= p.rs[j][1]
Merging == INSTANCE FoldFacts WITH Op <- MergeOp, Inv <- MergeInv

(* Parsing: the ranges so far are the lines added so far; in a hunk the    *)
(* next line of the file is known, and an open range ends at the last one. *)
ParseState == [line : Nat, run : Seq(Span), out : Seq(Span)]
Runs(v) == v.out \o v.run
AddedUpTo(s, k) == {NewLine(s, j) : j \in {n \in 1..k : s[n].mark = "+"}}
At(v, number) == v.line = number + 1 /\ (v.run # <<>> => v.run[1][2] = number)
ParseOp(c, v, raw) == ParseLine(v, raw)
ParseInv(s, k, v) ==
    /\ v \in ParseState /\ Len(v.run) <= 1
    /\ Proper(Runs(v)) /\ Ordered(Runs(v))
    /\ Cover(Runs(v)) = AddedUpTo(s, k)
    /\ k > 0 /\ s[k].mark # "~" => At(v, NewLine(s, k))
Parsing == INSTANCE FoldFacts WITH Op <- ParseOp, Inv <- ParseInv

\* The same for the anchors, each of which is a line.
AnchorState == [line : Nat, out : Seq(Span)]
AnchorOp(c, v, raw) == AnchorLine(v, raw)
AnchorInv(s, k, v) ==
    /\ v \in AnchorState /\ Proper(v.out) /\ Ordered(v.out)
    /\ Cover(v.out) \subseteq 1..NewLine(s, k)
    /\ k > 0 /\ s[k].mark # "~" => v.line = NewLine(s, k) + 1
Anchoring == INSTANCE FoldFacts WITH Op <- AnchorOp, Inv <- AnchorInv

(* Braces: those left open, and the blocks, are lines so far.              *)
BraceOp(file, b, k) == BraceLine(file, b, k)
BraceInv(file, k, b) ==
    /\ b.open \in Seq(1..k)
    /\ b.blocks \subseteq {x \in (1..k) \X (1..k) : x[1] <= x[2]}
Bracing == INSTANCE FoldFacts WITH Op <- BraceOp, Inv <- BraceInv

(* Attempts: ranges of the file, none of them twice.                       *)
InFile(file, r) == r \in Span /\ 1 <= r[1] /\ r[1] <= r[2] /\ r[2] <= Len(file)
AllInFile(file, rs) == rs \in Seq(Span) /\ \A n \in DOMAIN rs : InFile(file, rs[n])
NoneTwice(rs) == \A j, k \in DOMAIN rs : rs[j] = rs[k] => j = k
AttemptOp(c, rs, r) == AppendNew(rs, r)
AttemptInv(file, k, rs) == AllInFile(file, rs) /\ NoneTwice(rs)
Attempting == INSTANCE FoldFacts WITH Op <- AttemptOp, Inv <- AttemptInv

(* The code of a file: blank lines leave it as it is.                      *)
CodeOp(c, code, line) == IF line.code = Blank THEN code ELSE Append(code, line)
CodeInv(code, k, v) == v = code
Coding == INSTANCE FoldFacts WITH Op <- CodeOp, Inv <- CodeInv

\* What strip() does to the first line of an answer.
Unindented(text) == [text EXCEPT ![1].indent = 0]
Glued(u, v, w) == u \o v \o w

(* The inductive invariant: the list tried is one of attempts, and a       *)
(* reason of the last range is given at the last place of the list.        *)
GivenUp == {"mask_breaks_compilation", "mask_ineffective", "mask_not_interop_code"}
MaskInv ==
    /\ script \in Scripts /\ lang \in Langs
    /\ AllInFile(File(script), ranges) /\ NoneTwice(ranges)
    /\ pc \in {"derive", "try", "done"}
    /\ i \in Nat
    /\ pc = "derive" => i = 1
    /\ pc = "try" => i \in DOMAIN ranges
    /\ pc # "done" => reason = "none"
    /\ reason \in GivenUp => i = Len(ranges)
    /\ reason = "task" => i \in DOMAIN ranges
----------------------------------------------------------------------------
(* Lines of the new file are numbered one by one.                          *)
LEMMA NewLineFacts ==
  ASSUME NEW s \in Seq(Entry)
  PROVE  /\ NewLine(s, 0) = 0
         /\ \A k \in 0..Len(s) : NewLine(s, k) \in Nat
         /\ \A k \in 0..(Len(s) - 1) :
               NewLine(s, k + 1) = IF IsNew(s[k + 1]) THEN NewLine(s, k) + 1 ELSE NewLine(s, k)
<1> DEFINE new(k) == {j \in 1..k : IsNew(s[j])}
<1>1. NewLine(s, 0) = 0
  <2>1. new(0) = {}
    OBVIOUS
  <2>. QED  BY <2>1, FS_EmptySet DEF NewLine
<1>2. ASSUME NEW k \in 0..Len(s) PROVE IsFiniteSet(new(k)) /\ NewLine(s, k) \in Nat
  <2>1. k \in Int
    OBVIOUS
  <2>2. IsFiniteSet(1..k)
    BY <2>1, FS_Interval
  <2>3. IsFiniteSet(new(k))
    BY <2>2, FS_Subset
  <2>. QED  BY <2>3, FS_CardinalityType DEF NewLine
<1>3. ASSUME NEW k \in 0..(Len(s) - 1)
      PROVE  NewLine(s, k + 1) = IF IsNew(s[k + 1]) THEN NewLine(s, k) + 1 ELSE NewLine(s, k)
  <2>1. CASE IsNew(s[k + 1])
    <3>1. new(k + 1) = new(k) \union {k + 1} /\ k + 1 \notin new(k)
      BY <2>1
    <3>2. k \in 0..Len(s)
      OBVIOUS
    <3>3. IsFiniteSet(new(k))
      BY <1>2, <3>2
    <3> HIDE DEF new
    <3>4. Cardinality(new(k) \union {k + 1}) = Cardinality(new(k)) + 1
      BY <3>1, <3>3, FS_AddElement
    <3>. QED  BY <2>1, <3>1, <3>4 DEF NewLine, new
  <2>2. CASE ~ IsNew(s[k + 1])
    <3>1. new(k + 1) = new(k)
      BY <2>2
    <3>. QED  BY <2>2, <3>1 DEF NewLine
  <2>. QED  BY <2>1, <2>2
<1>. QED  BY <1>1, <1>2, <1>3

(* They do not go back.                                                    *)
LEMMA NewLineGrows ==
  ASSUME NEW s \in Seq(Entry), NEW k \in 0..Len(s)
  PROVE  \A j \in 0..k : NewLine(s, j) <= NewLine(s, k)
<1> DEFINE Bad == {n \in Nat : n <= Len(s) /\ \E j \in 0..n : NewLine(s, j) > NewLine(s, n)}
<1>0. Len(s) \in Nat
  OBVIOUS
<1>1. Bad = {}
  <2> SUFFICES ASSUME Bad # {} PROVE FALSE
    OBVIOUS
  <2>1. PICK n \in Bad : \A m \in Bad : n <= m
    BY Merging!Least
  <2>2. n \in Nat /\ n <= Len(s)
    BY <2>1
  <2>3. PICK j \in 0..n : NewLine(s, j) > NewLine(s, n)
    BY <2>1
  <2>4. NewLine(s, n) \in Nat /\ NewLine(s, j) \in Nat
    <3>1. n \in 0..Len(s) /\ j \in 0..Len(s)
      BY <1>0, <2>2
    <3>. QED  BY <3>1, NewLineFacts
  <2>5. n # 0 /\ j # n
    BY <2>2, <2>3, <2>4
  <2>6. n - 1 \in Nat /\ n - 1 \notin Bad /\ j \in 0..(n - 1) /\ n - 1 \in 0..(Len(s) - 1)
        /\ n - 1 \in 0..Len(s) /\ n - 1 <= Len(s) /\ (n - 1) + 1 = n
    BY <1>0, <2>1, <2>2, <2>5
  <2>7. NewLine(s, n - 1) \in Nat
    BY <2>6, NewLineFacts
  <2>8. NewLine(s, n) = NewLine(s, n - 1) + 1 \/ NewLine(s, n) = NewLine(s, n - 1)
    BY <2>6, NewLineFacts
  <2>9. ~ NewLine(s, j) > NewLine(s, n - 1)
    BY <2>6
  <2>. QED  BY <2>3, <2>4, <2>7, <2>8, <2>9
<1>2. k \in Nat /\ k <= Len(s) /\ k \notin Bad
  BY <1>0, <1>1
<1>3. ASSUME NEW j \in 0..k PROVE NewLine(s, j) <= NewLine(s, k)
  <2>1. ~ NewLine(s, j) > NewLine(s, k)
    BY <1>2
  <2>2. NewLine(s, j) \in Nat /\ NewLine(s, k) \in Nat
    <3>1. j \in 0..Len(s)
      BY <1>0
    <3>. QED  BY <3>1, NewLineFacts
  <2>. QED  BY <2>1, <2>2
<1>. QED  BY <1>3

(* Every number up to the last is that of a line, so the file is a         *)
(* sequence of lines.                                                      *)
LEMMA FileIsLines ==
  ASSUME NEW s \in Seq(Entry)
  PROVE  File(s) \in Seq(Line) /\ Len(File(s)) = NewLine(s, Len(s))
<1> DEFINE total == NewLine(s, Len(s))
           is(n, k) == IsNew(s[k]) /\ NewLine(s, k) = n
<1>1. Len(s) \in Nat /\ Len(s) \in 0..Len(s) /\ DOMAIN s = 1..Len(s)
  OBVIOUS
<1>2. total \in Nat
  BY <1>1, NewLineFacts
<1>3. ASSUME NEW n \in 1..total PROVE \E k \in DOMAIN s : is(n, k)
  <2> DEFINE reached == {k \in Nat : k <= Len(s) /\ NewLine(s, k) >= n}
  <2>1. Len(s) \in reached
    BY <1>1, <1>2
  <2>2. PICK k \in reached : \A j \in reached : k <= j
    BY <2>1, Merging!Least
  <2>3. k \in Nat /\ k <= Len(s) /\ NewLine(s, k) >= n
    BY <2>2
  <2>4. k # 0
    BY <1>2, <2>3, NewLineFacts
  <2>5. k - 1 \in Nat /\ k - 1 \notin reached /\ k - 1 <= Len(s) /\ (k - 1) + 1 = k
        /\ k - 1 \in 0..Len(s) /\ k - 1 \in 0..(Len(s) - 1) /\ k \in 1..Len(s)
    BY <1>1, <2>2, <2>3, <2>4
  <2>6. NewLine(s, k - 1) \in Nat /\ ~ NewLine(s, k - 1) >= n
    BY <2>5, NewLineFacts
  <2>7. NewLine(s, k) = IF IsNew(s[k]) THEN NewLine(s, k - 1) + 1 ELSE NewLine(s, k - 1)
    BY <2>5, NewLineFacts
  <2>8. IsNew(s[k]) /\ NewLine(s, k) = n
    BY <1>2, <2>3, <2>6, <2>7
  <2>. QED  BY <1>1, <2>5, <2>8
<1>4. ASSUME NEW n \in 1..total PROVE Text(s[CHOOSE k \in DOMAIN s : is(n, k)]) \in Line
  <2> DEFINE c == CHOOSE k \in DOMAIN s : is(n, k)
  <2>1. c \in DOMAIN s
    BY <1>3
  <2> HIDE DEF c
  <2>2. s[c] \in Entry
    BY <2>1
  <2>. QED  BY <2>2 DEF Text, Entry, c
<1>5. File(s) \in [1..total -> Line]
  BY <1>4 DEF File
<1>. QED  BY <1>2, <1>5
----------------------------------------------------------------------------
LEMMA TwoNumbers ==
  ASSUME NEW a \in Int, NEW b \in Int
  PROVE  /\ Max({a, b}) = IF a >= b THEN a ELSE b
         /\ Min({a, b}) = IF a <= b THEN a ELSE b
<1>1. Max({a, b}) \in {a, b} /\ \A y \in {a, b} : Max({a, b}) >= y
  <2>1. \E x \in {a, b} : \A y \in {a, b} : x >= y
    OBVIOUS
  <2>. QED  BY <2>1 DEF Max
<1>2. Min({a, b}) \in {a, b} /\ \A y \in {a, b} : Min({a, b}) <= y
  <2>1. \E x \in {a, b} : \A y \in {a, b} : x <= y
    OBVIOUS
  <2>. QED  BY <2>1 DEF Min
<1> DEFINE mx == Max({a, b})
           mn == Min({a, b})
<1>3. mx \in {a, b} /\ mx >= a /\ mx >= b /\ mn \in {a, b} /\ mn <= a /\ mn <= b
  BY <1>1, <1>2
<1> HIDE DEF mx, mn
<1>4. mx = (IF a >= b THEN a ELSE b) /\ mn = IF a <= b THEN a ELSE b
  BY <1>3
<1>. QED  BY <1>4 DEF mx, mn

(* One more range: the last one grows over it, or it comes behind a gap.   *)
LEMMA MergeOneKeeps ==
  ASSUME NEW p, NEW k \in 1..Len(p.rs), NEW m, MergeInv(p, k - 1, m),
         p.rs \in Seq(Span), Proper(p.rs),
         \A i1, j1 \in DOMAIN p.rs : i1 < j1 => p.rs[i1][1] <= p.rs[j1][1]
  PROVE  MergeInv(p, k, MergeOne(m, p.rs[k]))
<1> DEFINE r == p.rs[k]
           n == Len(m)
           l == m[n]
           w == MergeOne(m, r)
           covered(x) == \E j \in 1..n : m[j][1] <= x /\ x <= m[j][2]
<1>1. /\ k \in Nat /\ Len(p.rs) \in Nat /\ k <= Len(p.rs) /\ DOMAIN p.rs = 1..Len(p.rs)
      /\ (k - 1) + 1 = k /\ k - 1 \in Nat
  OBVIOUS
<1>2. /\ m \in Seq(Span) /\ n \in Nat /\ n >= 1 /\ DOMAIN m = 1..n
      /\ \A j \in 1..n : m[j] \in Span
  BY DEF MergeInv
<1>3. r \in Span /\ r[1] \in Nat /\ r[2] \in Nat /\ r[1] <= r[2]
  BY <1>1 DEF Span, Proper
<1>4. \A j \in 1..n : m[j][1] \in Nat /\ m[j][2] \in Nat /\ m[j][1] <= m[j][2]
  BY <1>2 DEF MergeInv, Proper, Span
<1>5. \A i1, j1 \in 1..n : i1 < j1 => m[i1][2] + 1 < m[j1][1]
  BY <1>2 DEF MergeInv, Gapped
<1>6. l[1] \in Nat /\ l[2] \in Nat /\ l[1] <= l[2] /\ l \in Span /\ Last(m) = l
  BY <1>2, <1>4 DEF Last
<1>7. \A j \in k..Len(p.rs) : l[1] <= p.rs[j][1]
  BY <1>1, <1>6 DEF MergeInv
<1>8. l[1] <= r[1]
  <2>1. k \in k..Len(p.rs)
    BY <1>1
  <2>. QED  BY <1>7, <2>1
<1>9. \A j \in (k + 1)..Len(p.rs) : r[1] <= p.rs[j][1] /\ l[1] <= p.rs[j][1]
  <2> SUFFICES ASSUME NEW j \in (k + 1)..Len(p.rs)
               PROVE  r[1] <= p.rs[j][1] /\ l[1] <= p.rs[j][1]
    OBVIOUS
  <2>1. j \in DOMAIN p.rs /\ k \in DOMAIN p.rs /\ k < j /\ j \in k..Len(p.rs)
    BY <1>1
  <2>. QED  BY <1>7, <2>1
<1> DEFINE span(j) == p.rs[j][1]..p.rs[j][2]
           before == UNION {span(j) : j \in 1..(k - 1)}
           upto   == UNION {span(j) : j \in 1..k}
<1>11. upto = before \union r[1]..r[2]
  <2>1. 1..k = 1..(k - 1) \union {k} /\ span(k) = r[1]..r[2]
    BY <1>1
  <2> HIDE DEF span
  <2>2. \A x : x \in upto <=> \E j \in 1..k : x \in span(j)
    OBVIOUS
  <2>3. \A x : x \in before <=> \E j \in 1..(k - 1) : x \in span(j)
    OBVIOUS
  <2> HIDE DEF upto, before
  <2>4. \A x : x \in upto <=> x \in before \/ x \in span(k)
    BY <2>1, <2>2, <2>3
  <2>. QED  BY <2>1, <2>4
<1>10. Cover(m) = Cover(<<p.first>>) \union before
  BY DEF MergeInv
<1> HIDE DEF r, l, n, span, before, upto
<1>12. SUFFICES /\ w \in Seq(Span) /\ w # <<>> /\ Proper(w) /\ Gapped(w)
                /\ Cover(w) = Cover(m) \union r[1]..r[2]
                /\ Last(w)[1] \in {r[1], l[1]}
  <2> HIDE DEF w
  <2>1. Cover(w) = Cover(<<p.first>>) \union upto
    BY <1>10, <1>11, <1>12
  <2>2. \A j \in (k + 1)..Len(p.rs) : Last(w)[1] <= p.rs[j][1]
    BY <1>9, <1>12
  <2>3. MergeInv(p, k, w)
    BY <1>12, <2>1, <2>2 DEF MergeInv, upto, span
  <2>. QED  BY <2>3 DEF w, r
<1>13. CASE r[1] <= l[2] + 1
  <2> DEFINE mx == Max({l[2], r[2]})
  <2>1. mx = IF l[2] >= r[2] THEN l[2] ELSE r[2]
    BY <1>3, <1>6, TwoNumbers
  <2>2. mx \in Nat /\ mx >= l[2] /\ mx >= r[2] /\ mx \in {l[2], r[2]}
    BY <1>3, <1>6, <2>1
  <2>3. w = Append(Front(m), <<l[1], mx>>)
    BY <1>6, <1>13 DEF MergeOne
  <2> HIDE DEF mx, w
  <2>4. /\ Front(m) \in Seq(Span) /\ Len(Front(m)) = n - 1
        /\ \A j \in 1..(n - 1) : Front(m)[j] = m[j]
    <3>1. Front(m) = SubSeq(m, 1, n - 1)
      BY DEF Front, n
    <3>2. SubSeq(m, 1, n - 1) \in Seq(Span) /\ Len(SubSeq(m, 1, n - 1)) = n - 1
          /\ \A j \in 1..(n - 1) : SubSeq(m, 1, n - 1)[j] = m[j]
      BY <1>2 DEF n
    <3>. QED  BY <3>1, <3>2
  <2>5. <<l[1], mx>> \in Span
    BY <1>6, <2>2 DEF Span
  <2>6. /\ w \in Seq(Span) /\ Len(w) = n /\ DOMAIN w = 1..n /\ w[n] = <<l[1], mx>>
        /\ \A j \in 1..(n - 1) : w[j] = m[j]
    <3> DEFINE f == Front(m)
               e == <<l[1], mx>>
    <3>1. f \in Seq(Span) /\ Len(f) = n - 1 /\ e \in Span /\ w = Append(f, e)
      BY <2>3, <2>4, <2>5
    <3> HIDE DEF f, e
    <3>2. /\ w \in Seq(Span) /\ Len(w) = n /\ DOMAIN w = 1..n /\ w[n] = e
          /\ \A j \in 1..(n - 1) : w[j] = f[j]
      BY <1>2, <3>1
    <3>. QED  BY <2>4, <3>2 DEF f, e
  <2>7. w[n][1] = l[1] /\ w[n][2] = mx
    BY <2>6
  <2>8. \A j \in 1..n : j # n => w[j] = m[j]
    BY <1>2, <2>6
  <2>9. Proper(w)
    BY <1>3, <1>4, <1>6, <2>2, <2>6, <2>7, <2>8 DEF Proper
  <2>10. Gapped(w)
    <3> SUFFICES ASSUME NEW i1 \in 1..n, NEW j1 \in 1..n, i1 < j1
                 PROVE  w[i1][2] + 1 < w[j1][1]
      BY <2>6 DEF Gapped
    <3>1. i1 # n /\ w[i1] = m[i1] /\ m[i1][2] + 1 < m[j1][1]
      BY <1>2, <1>5, <2>8
    <3>2. w[j1][1] = m[j1][1]
      BY <2>7, <2>8 DEF l
    <3>. QED  BY <3>1, <3>2
  <2>11. Cover(w) = Cover(m) \union r[1]..r[2]
    <3>1. l[1]..mx = l[1]..l[2] \union r[1]..r[2]
      BY <1>3, <1>6, <1>8, <1>13, <2>2
    <3>2. w[n][1]..w[n][2] = m[n][1]..m[n][2] \union r[1]..r[2]
      BY <2>7, <3>1 DEF l
    <3>3. \A x : x \in Cover(w) <=> \E j \in 1..n : x \in w[j][1]..w[j][2]
      BY <2>6 DEF Cover
    <3>4. \A x : x \in Cover(m) <=> \E j \in 1..n : x \in m[j][1]..m[j][2]
      BY <1>2 DEF Cover
    <3>5. n \in 1..n
      BY <1>2
    <3>6. ASSUME NEW x PROVE x \in Cover(w) <=> x \in Cover(m) \union r[1]..r[2]
      BY <2>8, <3>2, <3>3, <3>4, <3>5, Zenon
    <3>. QED  BY <3>6
  <2>12. Last(w)[1] = l[1] /\ w # <<>>
    BY <1>2, <2>6, <2>7 DEF Last
  <2>. QED  BY <2>6, <2>9, <2>10, <2>11, <2>12
<1>14. CASE ~ r[1] <= l[2] + 1
  <2>1. w = Append(m, r)
    BY <1>6, <1>14 DEF MergeOne
  <2> HIDE DEF w
  <2>2. /\ w \in Seq(Span) /\ DOMAIN w = 1..(n + 1) /\ Len(w) = n + 1 /\ w[n + 1] = r
        /\ \A j \in 1..n : w[j] = m[j]
    BY <1>2, <1>3, <2>1 DEF n
  <2>3. l[2] + 1 < r[1]
    BY <1>3, <1>6, <1>14
  <2>4. \A j \in 1..(n + 1) : j \in 1..n \/ j = n + 1
    BY <1>2
  <2>5. Proper(w)
    BY <1>3, <1>4, <2>2, <2>4 DEF Proper
  <2>6. \A j \in 1..n : m[j][2] + 1 < r[1]
    <3> SUFFICES ASSUME NEW j \in 1..n PROVE m[j][2] + 1 < r[1]
      OBVIOUS
    <3>1. CASE j = n
      BY <2>3, <3>1 DEF l
    <3>2. CASE j # n
      <4>1. m[j][2] + 1 < l[1]
        BY <1>2, <1>5, <3>2 DEF l
      <4>. QED  BY <1>3, <1>4, <1>6, <1>8, <4>1
    <3>. QED  BY <3>1, <3>2
  <2>7. Gapped(w)
    <3> SUFFICES ASSUME NEW i1 \in 1..(n + 1), NEW j1 \in 1..(n + 1), i1 < j1
                 PROVE  w[i1][2] + 1 < w[j1][1]
      BY <2>2 DEF Gapped
    <3>1. i1 \in 1..n /\ w[i1] = m[i1]
      BY <1>2, <2>2
    <3>. QED  BY <1>5, <2>2, <2>4, <2>6, <3>1
  <2>8. Cover(w) = Cover(m) \union r[1]..r[2]
    <3>1. \A x : x \in Cover(w) <=> \E j \in 1..(n + 1) : x \in w[j][1]..w[j][2]
      BY <2>2 DEF Cover
    <3>2. \A x : x \in Cover(m) <=> \E j \in 1..n : x \in m[j][1]..m[j][2]
      BY <1>2 DEF Cover
    <3>3. 1..(n + 1) = 1..n \union {n + 1}
      BY <1>2
    <3>4. ASSUME NEW x PROVE x \in Cover(w) <=> x \in Cover(m) \union r[1]..r[2]
      BY <2>2, <3>1, <3>2, <3>3, Zenon
    <3>. QED  BY <3>4
  <2>9. Last(w)[1] = r[1] /\ w # <<>>
    BY <1>2, <2>2 DEF Last
  <2>. QED  BY <2>2, <2>5, <2>7, <2>8, <2>9
<1>. QED  BY <1>13, <1>14

LEMMA SortedFacts ==
  ASSUME NEW rs \in Seq(Span), Proper(rs), Ordered(rs)
  PROVE  /\ Sorted(rs) \in Seq(Span) /\ Len(Sorted(rs)) = Len(rs)
         /\ Proper(Sorted(rs)) /\ Cover(Sorted(rs)) = Cover(rs)
         /\ \A j, k \in DOMAIN rs : j < k => Sorted(rs)[j][1] <= Sorted(rs)[k][1]
<1> DEFINE D == DOMAIN rs
           sorts(p) == \A j, k \in D : j < k => ~ Before(rs[p[k]], rs[p[j]])
           q == CHOOSE p \in Bijection(D, D) : sorts(p)
<1>1. D = 1..Len(rs) /\ Len(rs) \in Nat /\ \A k \in D : rs[k][1] \in Nat /\ rs[k][2] \in Nat
  BY DEF Span
<1>2. \E p \in Bijection(D, D) : sorts(p)
  <2> DEFINE id == [k \in D |-> k]
  <2>1. id \in Bijection(D, D)
    BY DEF Bijection, Injection, Surjection, IsInjective
  <2>2. sorts(id)
    <3> SUFFICES ASSUME NEW j \in D, NEW k \in D, j < k PROVE ~ Before(rs[k], rs[j])
      OBVIOUS
    <3>1. rs[j][1] <= rs[j][2] /\ rs[j][2] < rs[k][1]
      BY DEF Proper, Ordered
    <3>. QED  BY <1>1, <3>1 DEF Before
  <2>. QED  BY <2>1, <2>2
<1>3. q \in Bijection(D, D) /\ sorts(q)
  BY <1>2
<1>4. Sorted(rs) = [k \in D |-> rs[q[k]]]
  BY DEF Sorted
<1> HIDE DEF q, sorts
<1>5. q \in [D -> D] /\ \A k \in D : \E j \in D : q[j] = k
  BY <1>3 DEF Bijection, Injection, Surjection
<1>6. Sorted(rs) \in Seq(Span) /\ Len(Sorted(rs)) = Len(rs) /\ DOMAIN Sorted(rs) = D
  BY <1>1, <1>4, <1>5
<1>7. \A k \in D : Sorted(rs)[k] = rs[q[k]] /\ q[k] \in D
  BY <1>4, <1>5
<1> DEFINE t == Sorted(rs)
<1> HIDE DEF t, D
<1>8. Proper(t)
  BY <1>6, <1>7 DEF Proper, t, D
<1>9. Cover(t) = Cover(rs)
  <2>1. \A x : x \in Cover(t) <=> \E k \in D : x \in t[k][1]..t[k][2]
    BY <1>6 DEF Cover, t
  <2>2. \A x : x \in Cover(rs) <=> \E k \in D : x \in rs[k][1]..rs[k][2]
    BY DEF Cover, D
  <2>3. \A k \in D : t[k] = rs[q[k]] /\ q[k] \in D
    BY <1>7 DEF t
  <2>4. ASSUME NEW x PROVE x \in Cover(t) <=> x \in Cover(rs)
    <3> DEFINE in(r) == x \in r[1]..r[2]
    <3>1. x \in Cover(t) <=> \E k \in D : in(t[k])
      BY <2>1
    <3>2. x \in Cover(rs) <=> \E k \in D : in(rs[k])
      BY <2>2
    <3> HIDE DEF in
    <3>. QED  BY <1>5, <2>3, <3>1, <3>2
  <2>. QED  BY <2>4
<1>10. ASSUME NEW j \in D, NEW k \in D, j < k PROVE t[j][1] <= t[k][1]
  <2>1. ~ Before(rs[q[k]], rs[q[j]])
    BY <1>3, <1>10 DEF sorts
  <2>2. t[j] = rs[q[j]] /\ t[k] = rs[q[k]] /\ q[j] \in D /\ q[k] \in D
    BY <1>7 DEF t
  <2>. QED  BY <1>1, <2>1, <2>2 DEF Before
<1>. QED  BY <1>6, <1>8, <1>9, <1>10 DEF t, D

(* _merge_ranges, given ranges one behind the other: the same lines, in    *)
(* ranges with a gap between any two.                                      *)
LEMMA MergeFacts ==
  ASSUME NEW rs \in Seq(Span), Proper(rs), Ordered(rs)
  PROVE  /\ MergeRanges(rs) \in Seq(Span)
         /\ Proper(MergeRanges(rs)) /\ Gapped(MergeRanges(rs))
         /\ Cover(MergeRanges(rs)) = Cover(rs)
         /\ MergeRanges(rs) = <<>> <=> rs = <<>>
<1>1. CASE rs = <<>>
  <2>1. MergeRanges(rs) = <<>>
    BY <1>1 DEF MergeRanges
  <2>2. <<>> \in Seq(Span) /\ Proper(<<>>) /\ Gapped(<<>>)
    BY DEF Proper, Gapped
  <2>. QED  BY <1>1, <2>1, <2>2
<1>2. CASE rs # <<>>
  <2> DEFINE t == Sorted(rs)
             p == [first |-> rs[1], rs |-> t]
             merged == Merging!Fold(0, <<rs[1]>>, t)
  <2>1. MergeRanges(rs) = merged
    BY <1>2 DEF MergeRanges, FoldLeft, MapThenFoldSet, Max, Merging!Fold,
                Merging!IsFold, Merging!Largest, MergeOp
  <2>2. /\ t \in Seq(Span) /\ Len(t) = Len(rs) /\ Proper(t) /\ Cover(t) = Cover(rs)
        /\ \A j, k \in DOMAIN rs : j < k => t[j][1] <= t[k][1]
    BY SortedFacts
  <2>3. DOMAIN rs = 1..Len(rs) /\ Len(rs) \in Nat /\ 1 \in DOMAIN rs /\ DOMAIN t = 1..Len(rs)
    BY <1>2, <2>2
  <2>4. rs[1] \in Span /\ rs[1][1] <= rs[1][2] /\ rs[1][1] \in Nat /\ rs[1][2] \in Nat
    BY <2>3 DEF Proper, Span
  <2> HIDE DEF t, merged
  <2>5. \A j \in 1..Len(t) : rs[1][1] <= t[j][1]
    <3> SUFFICES ASSUME NEW j \in 1..Len(t) PROVE rs[1][1] <= t[j][1]
      OBVIOUS
    <3>1. t[j][1] \in Nat /\ t[j][1] \in Cover(rs)
      <4>1. t[j] \in Span /\ t[j][1] <= t[j][2] /\ j \in DOMAIN t
        BY <2>2 DEF Proper
      <4>2. t[j][1] \in t[j][1]..t[j][2]
        BY <4>1 DEF Span
      <4>3. t[j][1] \in Cover(t)
        BY <4>1, <4>2 DEF Cover
      <4>. QED  BY <2>2, <4>1, <4>3 DEF Span
    <3>2. PICK k \in DOMAIN rs : t[j][1] \in rs[k][1]..rs[k][2]
      BY <3>1 DEF Cover
    <3>3. rs[k] \in Span /\ rs[k][1] \in Nat /\ rs[k][2] \in Nat
      BY DEF Span
    <3>4. CASE k = 1
      BY <2>4, <3>2, <3>4
    <3>5. CASE k # 1
      <4>1. rs[1][2] < rs[k][1]
        BY <2>3, <3>5 DEF Ordered
      <4>. QED  BY <2>4, <3>1, <3>2, <3>3, <4>1
    <3>. QED  BY <3>4, <3>5
  <2>6. MergeInv(p, 0, <<rs[1]>>)
    <3> DEFINE one == <<rs[1]>>
    <3>1. one \in Seq(Span) /\ one # <<>> /\ DOMAIN one = {1} /\ one[1] = rs[1] /\ Len(one) = 1
      BY <2>4
    <3> HIDE DEF one
    <3>2. Proper(one) /\ Gapped(one)
      BY <2>4, <3>1 DEF Proper, Gapped
    <3>3. Last(one) = rs[1]
      BY <3>1 DEF Last
    <3>4. UNION {t[j][1]..t[j][2] : j \in 1..0} = {}
      OBVIOUS
    <3>5. Cover(one) = Cover(<<rs[1]>>) \union {}
      BY DEF one
    <3>6. MergeInv(p, 0, one)
      BY <2>5, <3>1, <3>2, <3>3, <3>4, <3>5 DEF MergeInv
    <3>. QED  BY <3>6 DEF one
  <2>7. \A k \in 1..Len(t) : \A v : MergeInv(p, k - 1, v) => MergeInv(p, k, MergeOp(0, v, t[k]))
    <3> SUFFICES ASSUME NEW k \in 1..Len(t), NEW v, MergeInv(p, k - 1, v)
                 PROVE  MergeInv(p, k, MergeOp(0, v, t[k]))
      OBVIOUS
    <3>1. p.rs = t
      OBVIOUS
    <3> HIDE DEF p
    <3>2. MergeInv(p, k, MergeOne(v, p.rs[k]))
      BY <2>2, <2>3, <3>1, MergeOneKeeps
    <3>. QED  BY <3>1, <3>2 DEF MergeOp
  <2>8. Len(t) \in Nat /\ DOMAIN t = 1..Len(t)
    BY <2>2, <2>3
  <2> HIDE DEF p
  <2>9. MergeInv(p, Len(t), merged)
    BY ONLY <2>6, <2>7, <2>8, Merging!FoldInduction DEF merged
  <2>10. Cover(merged) = Cover(<<rs[1]>>) \union UNION {t[j][1]..t[j][2] : j \in 1..Len(t)}
    BY <2>9 DEF MergeInv, p
  <2>11. Cover(<<rs[1]>>) = rs[1][1]..rs[1][2]
    <3> DEFINE one == <<rs[1]>>
    <3>1. DOMAIN one = {1} /\ one[1] = rs[1]
      OBVIOUS
    <3> HIDE DEF one
    <3>2. Cover(one) = one[1][1]..one[1][2]
      BY <3>1 DEF Cover
    <3>. QED  BY <3>1, <3>2 DEF one
  <2>12. UNION {t[j][1]..t[j][2] : j \in 1..Len(t)} = Cover(rs)
    BY <2>2, <2>8 DEF Cover
  <2>13. rs[1][1]..rs[1][2] \subseteq Cover(rs)
    BY <2>3 DEF Cover
  <2>. QED  BY <1>2, <2>1, <2>9, <2>10, <2>11, <2>12, <2>13 DEF MergeInv
<1>. QED  BY <1>1, <1>2
----------------------------------------------------------------------------
LEMMA AppendSpan ==
  ASSUME NEW rs \in Seq(Span), NEW x \in Span
  PROVE  /\ Append(rs, x) \in Seq(Span)
         /\ Cover(Append(rs, x)) = Cover(rs) \union x[1]..x[2]
         /\ Proper(Append(rs, x)) <=> Proper(rs) /\ x[1] <= x[2]
         /\ Ordered(Append(rs, x)) <=>
               Ordered(rs) /\ \A n \in DOMAIN rs : rs[n][2] < x[1]
<1> DEFINE w == Append(rs, x)
           n == Len(rs)
<1>1. /\ w \in Seq(Span) /\ DOMAIN w = 1..(n + 1) /\ w[n + 1] = x /\ n \in Nat
      /\ DOMAIN rs = 1..n /\ \A j \in 1..n : w[j] = rs[j]
  OBVIOUS
<1> HIDE DEF w, n
<1>2. 1..(n + 1) = 1..n \union {n + 1}
  BY <1>1
<1>3. Cover(w) = Cover(rs) \union x[1]..x[2]
  <2>1. \A y : y \in Cover(w) <=> \E j \in 1..n \union {n + 1} : y \in w[j][1]..w[j][2]
    BY <1>1, <1>2 DEF Cover
  <2>2. \A y : y \in Cover(rs) <=> \E j \in 1..n : y \in rs[j][1]..rs[j][2]
    BY <1>1 DEF Cover
  <2>3. ASSUME NEW y PROVE y \in Cover(w) <=> y \in Cover(rs) \union x[1]..x[2]
    BY <1>1, <2>1, <2>2, Zenon
  <2>. QED  BY <2>3
<1>4. Proper(w) <=> Proper(rs) /\ x[1] <= x[2]
  BY <1>1, <1>2 DEF Proper
<1>5. Ordered(w) => Ordered(rs) /\ \A j \in 1..n : rs[j][2] < x[1]
  <2> SUFFICES ASSUME Ordered(w) PROVE Ordered(rs) /\ \A j \in 1..n : rs[j][2] < x[1]
    OBVIOUS
  <2>1. \A j, k \in 1..n \union {n + 1} : j < k => w[j][2] < w[k][1]
    BY <1>1, <1>2 DEF Ordered
  <2>2. Ordered(rs)
    BY <1>1, <2>1 DEF Ordered
  <2>3. \A j \in 1..n : j < n + 1 /\ rs[j][2] < x[1]
    BY <1>1, <2>1
  <2>. QED  BY <2>2, <2>3
<1>6. Ordered(rs) /\ (\A j \in 1..n : rs[j][2] < x[1]) => Ordered(w)
  <2> SUFFICES ASSUME Ordered(rs), \A j \in 1..n : rs[j][2] < x[1],
                      NEW j \in 1..n \union {n + 1}, NEW k \in 1..n \union {n + 1}, j < k
               PROVE  w[j][2] < w[k][1]
    BY <1>1, <1>2 DEF Ordered
  <2>1. j \in 1..n /\ w[j] = rs[j]
    BY <1>1
  <2>. QED  BY <1>1, <2>1 DEF Ordered
<1>. QED  BY <1>1, <1>3, <1>4, <1>5, <1>6 DEF w

LEMMA ParseLineCases ==
  ASSUME NEW v \in ParseState, NEW raw
  PROVE  /\ Flush(v) = [line |-> v.line, run |-> <<>>, out |-> Runs(v)]
         /\ raw.mark = "@@" => ParseLine(v, raw) = [line |-> raw.at, run |-> <<>>, out |-> Runs(v)]
         /\ raw.mark = "-"  => ParseLine(v, raw) = Flush(v)
         /\ raw.mark = " "  => ParseLine(v, raw) = [line |-> v.line + 1, run |-> <<>>, out |-> Runs(v)]
         /\ raw.mark = "+" /\ v.run = <<>> =>
               ParseLine(v, raw) = [line |-> v.line + 1, run |-> <<<<v.line, v.line>>>>, out |-> v.out]
         /\ raw.mark = "+" /\ v.run # <<>> =>
               ParseLine(v, raw) = [line |-> v.line + 1, run |-> <<<<v.run[1][1], v.line>>>>, out |-> v.out]
<1>0. v \in [line : Nat, run : Seq(Span), out : Seq(Span)]
  BY DEF ParseState
<1>1. Flush(v) = [line |-> v.line, run |-> <<>>, out |-> Runs(v)]
  <2>1. Flush(v) = [v EXCEPT !.out = v.out \o v.run, !.run = <<>>]
    BY <1>0 DEF Flush
  <2> DEFINE rs == v.out \o v.run
  <2>2. Flush(v) = [v EXCEPT !.out = rs, !.run = <<>>]
    BY <2>1
  <2> HIDE DEF rs
  <2>3. Flush(v) = [line |-> v.line, run |-> <<>>, out |-> rs]
    BY <1>0, <2>2
  <2>. QED  BY <2>3 DEF Runs, rs
<1>2. raw.mark = "@@" => ParseLine(v, raw) = [Flush(v) EXCEPT !.line = raw.at]
  BY DEF ParseLine
<1>3. raw.mark = "-" => ParseLine(v, raw) = Flush(v)
  BY DEF ParseLine
<1>4. raw.mark = " " => ParseLine(v, raw) = [Flush(v) EXCEPT !.line = @ + 1]
  BY DEF ParseLine
<1>5. raw.mark = "+" => ParseLine(v, raw) = [v EXCEPT
            !.run = <<IF @ = <<>> THEN <<v.line, v.line>> ELSE <<@[1][1], v.line>>>>,
            !.line = @ + 1]
  BY DEF ParseLine
<1>6. raw.mark = "+" /\ v.run = <<>> =>
        ParseLine(v, raw) = [line |-> v.line + 1, run |-> <<<<v.line, v.line>>>>, out |-> v.out]
  BY <1>0, <1>5
<1>7. raw.mark = "+" /\ v.run # <<>> =>
        ParseLine(v, raw) = [line |-> v.line + 1, run |-> <<<<v.run[1][1], v.line>>>>, out |-> v.out]
  BY <1>0, <1>5
<1> DEFINE rs == Runs(v)
<1> HIDE DEF rs
<1>8. Flush(v) = [line |-> v.line, run |-> <<>>, out |-> rs]
  BY <1>1 DEF rs
<1>9. /\ [Flush(v) EXCEPT !.line = raw.at] = [line |-> raw.at, run |-> <<>>, out |-> rs]
      /\ [Flush(v) EXCEPT !.line = @ + 1] = [line |-> v.line + 1, run |-> <<>>, out |-> rs]
  BY <1>8
<1>. QED  BY <1>1, <1>2, <1>3, <1>4, <1>6, <1>7, <1>9 DEF rs

(* The added lines are lines of the file.                                  *)
LEMMA AddedFacts ==
  ASSUME NEW s \in Seq(Entry), NEW k \in 1..Len(s)
  PROVE  /\ AddedUpTo(s, k - 1) \subseteq 1..NewLine(s, k - 1)
         /\ s[k].mark = "+" => AddedUpTo(s, k) = AddedUpTo(s, k - 1) \union {NewLine(s, k)}
         /\ s[k].mark # "+" => AddedUpTo(s, k) = AddedUpTo(s, k - 1)
<1>1. k - 1 \in Nat /\ k \in Nat /\ Len(s) \in Nat /\ k - 1 \in 0..Len(s)
  OBVIOUS
<1>2. ASSUME NEW j \in 1..(k - 1), s[j].mark = "+" PROVE NewLine(s, j) \in 1..NewLine(s, k - 1)
  <2>1. j - 1 \in 0..(Len(s) - 1) /\ (j - 1) + 1 = j /\ j - 1 \in 0..Len(s) /\ j \in 0..(k - 1)
    BY <1>1
  <2>2. NewLine(s, j) = NewLine(s, j - 1) + 1 /\ NewLine(s, j - 1) \in Nat
    BY <1>2, <2>1, NewLineFacts DEF IsNew
  <2>3. NewLine(s, j) <= NewLine(s, k - 1)
    BY <1>1, <2>1, NewLineGrows
  <2>4. NewLine(s, k - 1) \in Nat
    BY <1>1, NewLineFacts
  <2>. QED  BY <2>2, <2>3, <2>4
<1>3. AddedUpTo(s, k - 1) \subseteq 1..NewLine(s, k - 1)
  BY <1>2 DEF AddedUpTo
<1>4. 1..k = 1..(k - 1) \union {k}
  BY <1>1
<1>5. ASSUME s[k].mark = "+" PROVE AddedUpTo(s, k) = AddedUpTo(s, k - 1) \union {NewLine(s, k)}
  <2>1. {n \in 1..k : s[n].mark = "+"} = {n \in 1..(k - 1) : s[n].mark = "+"} \union {k}
    BY <1>4, <1>5
  <2>. QED  BY <2>1 DEF AddedUpTo
<1>6. ASSUME s[k].mark # "+" PROVE AddedUpTo(s, k) = AddedUpTo(s, k - 1)
  <2>1. {n \in 1..k : s[n].mark = "+"} = {n \in 1..(k - 1) : s[n].mark = "+"}
    BY <1>4, <1>6
  <2>. QED  BY <2>1 DEF AddedUpTo
<1>. QED  BY <1>3, <1>5, <1>6

(* A line of a hunk, when the parser is at the line before it.             *)
LEMMA ParseMarked ==
  ASSUME NEW s \in Seq(Entry), NEW k \in 1..Len(s), s[k].mark # "~",
         NEW v \in ParseState, Len(v.run) <= 1, Proper(Runs(v)), Ordered(Runs(v)),
         Cover(Runs(v)) = AddedUpTo(s, k - 1), At(v, NewLine(s, k - 1)),
         NEW raw, raw.mark = s[k].mark
  PROVE  ParseInv(s, k, ParseLine(v, raw))
<1> DEFINE u == ParseLine(v, raw)
           here == NewLine(s, k - 1)
           rs == Runs(v)
<1>1. v \in [line : Nat, run : Seq(Span), out : Seq(Span)] /\ rs \in Seq(Span)
  BY DEF ParseState, Runs
<1>2. k - 1 \in 0..(Len(s) - 1) /\ (k - 1) + 1 = k /\ k - 1 \in 0..Len(s) /\ k > 0
  OBVIOUS
<1>3. /\ here \in Nat /\ v.line = here + 1 /\ (v.run # <<>> => v.run[1][2] = here)
      /\ NewLine(s, k) = IF IsNew(s[k]) THEN here + 1 ELSE here
  BY <1>2, NewLineFacts DEF At
<1>4. s[k].mark \in {"+", "-", " "}
  <2>1. s[k] \in Entry
    OBVIOUS
  <2>. QED  BY <2>1 DEF Entry
<1>5. Cover(rs) \subseteq 1..here
  BY AddedFacts
<1> HIDE DEF here, rs
<1>6. CASE s[k].mark = "+"
  <2>1. NewLine(s, k) = v.line /\ AddedUpTo(s, k) = AddedUpTo(s, k - 1) \union {v.line}
    BY <1>3, <1>6, AddedFacts DEF IsNew
  <2>2. \A n \in DOMAIN rs : rs[n][2] < v.line
    <3> SUFFICES ASSUME NEW n \in DOMAIN rs PROVE rs[n][2] < v.line
      OBVIOUS
    <3>1. rs[n] \in Span /\ rs[n][1] <= rs[n][2]
      BY <1>1 DEF Proper, rs
    <3>2. rs[n][2] \in rs[n][1]..rs[n][2]
      BY <3>1 DEF Span
    <3>3. rs[n][2] \in Cover(rs)
      BY <3>2 DEF Cover
    <3>. QED  BY <1>3, <1>5, <3>3
  <2>3. ASSUME NEW x \in Span, x[2] = v.line,
               u = [line |-> v.line + 1, run |-> <<x>>, out |-> v.out],
               Proper(Runs(u)), Ordered(Runs(u)), Cover(Runs(u)) = Cover(rs) \union {v.line}
        PROVE  ParseInv(s, k, u)
    <3>1. u \in ParseState /\ Len(u.run) <= 1
      <4>1. <<x>> \in Seq(Span) /\ Len(<<x>>) = 1 /\ v.line + 1 \in Nat
        BY <1>1
      <4>. QED  BY <1>1, <2>3, <4>1 DEF ParseState
    <3>2. At(u, NewLine(s, k))
      BY <2>1, <2>3 DEF At
    <3>3. Cover(Runs(u)) = AddedUpTo(s, k)
      BY <2>1, <2>3 DEF rs
    <3> HIDE DEF u
    <3>. QED  BY <2>3, <3>1, <3>2, <3>3 DEF ParseInv
  <2>4. CASE v.run = <<>>
    <3> DEFINE x == <<v.line, v.line>>
    <3>1. rs = v.out
      BY <1>1, <2>4 DEF rs, Runs
    <3>2. x \in Span /\ x[1] = v.line /\ x[2] = v.line /\ x[1]..x[2] = {v.line}
      BY <1>1 DEF Span
    <3>3. u = [line |-> v.line + 1, run |-> <<x>>, out |-> v.out]
      BY <1>6, <2>4, ParseLineCases
    <3> HIDE DEF x, u
    <3>4. Proper(Append(v.out, x)) /\ Ordered(Append(v.out, x))
      BY <1>1, <2>2, <3>1, <3>2, AppendSpan DEF rs
    <3>5. Cover(Append(v.out, x)) = Cover(rs) \union {v.line}
      BY <1>1, <3>1, <3>2, AppendSpan
    <3>6. Runs(u) = Append(v.out, x)
      BY <1>1, <3>2, <3>3 DEF Runs
    <3>7. Proper(Runs(u)) /\ Ordered(Runs(u)) /\ Cover(Runs(u)) = Cover(rs) \union {v.line}
      BY <3>4, <3>5, <3>6
    <3>8. ParseInv(s, k, u)
      BY <2>3, <3>2, <3>3, <3>7
    <3>. QED  BY <3>8 DEF u
  <2>5. CASE v.run # <<>>
    <3> DEFINE y == v.run[1]
               x == <<y[1], v.line>>
    <3>1. v.run = <<y>> /\ y \in Span
      BY <1>1, <2>5
    <3>2. y[1] \in Nat /\ y[2] = here
      BY <1>3, <2>5, <3>1 DEF Span
    <3> HIDE DEF y
    <3>3. rs = Append(v.out, y)
      BY <1>1, <3>1 DEF rs, Runs
    <3>4. /\ Proper(v.out) /\ y[1] <= y[2] /\ Ordered(v.out)
          /\ \A n \in DOMAIN v.out : v.out[n][2] < y[1]
          /\ Cover(rs) = Cover(v.out) \union y[1]..y[2]
      <4>1. Proper(Append(v.out, y)) /\ Ordered(Append(v.out, y))
        BY <3>3 DEF rs
      <4>. QED  BY <1>1, <3>1, <3>3, <4>1, AppendSpan
    <3>5. x \in Span /\ x[1] = y[1] /\ x[2] = v.line
      BY <1>1, <3>2 DEF Span
    <3>6. x[1] <= v.line /\ y[1]..v.line = y[1]..y[2] \union {v.line}
      BY <1>3, <3>2, <3>4, <3>5
    <3>7. u = [line |-> v.line + 1, run |-> <<x>>, out |-> v.out]
      BY <1>6, <2>5, ParseLineCases DEF y
    <3> HIDE DEF x, u
    <3>8. Proper(Append(v.out, x)) /\ Ordered(Append(v.out, x))
      BY <1>1, <3>4, <3>5, <3>6, AppendSpan
    <3>9. Cover(Append(v.out, x)) = Cover(v.out) \union x[1]..x[2]
      BY <1>1, <3>5, AppendSpan
    <3>10. Runs(u) = Append(v.out, x)
      BY <1>1, <3>5, <3>7 DEF Runs
    <3>11. Cover(Runs(u)) = Cover(rs) \union {v.line}
      BY <3>4, <3>5, <3>6, <3>9, <3>10
    <3>12. Proper(Runs(u)) /\ Ordered(Runs(u))
      BY <3>8, <3>10
    <3>13. ParseInv(s, k, u)
      BY <2>3, <3>5, <3>7, <3>11, <3>12
    <3>. QED  BY <3>13 DEF u
  <2>. QED  BY <2>4, <2>5
<1>7. CASE s[k].mark # "+"
  <2>1. AddedUpTo(s, k) = AddedUpTo(s, k - 1)
    BY <1>7, AddedFacts
  <2>2. u = [line |-> NewLine(s, k) + 1, run |-> <<>>, out |-> rs]
    <3>1. CASE s[k].mark = "-"
      <4>1. NewLine(s, k) + 1 = v.line
        BY <1>3, <3>1 DEF IsNew
      <4>. QED  BY <3>1, <4>1, ParseLineCases DEF rs
    <3>2. CASE s[k].mark = " "
      <4>1. NewLine(s, k) + 1 = v.line + 1
        BY <1>3, <3>2 DEF IsNew
      <4>. QED  BY <3>2, <4>1, ParseLineCases DEF rs
    <3>. QED  BY <1>4, <1>7, <3>1, <3>2
  <2>3. NewLine(s, k) + 1 \in Nat
    BY <1>3
  <2>4. u \in ParseState /\ Len(u.run) <= 1 /\ Runs(u) = rs /\ At(u, NewLine(s, k))
    <3>1. <<>> \in Seq(Span) /\ Len(<<>>) = 0 /\ rs \o <<>> = rs
      BY <1>1
    <3>. QED  BY <1>1, <2>2, <2>3, <3>1 DEF ParseState, Runs, At
  <2> HIDE DEF u
  <2>5. Proper(rs) /\ Ordered(rs) /\ Cover(rs) = AddedUpTo(s, k)
    BY <2>1 DEF rs
  <2>. QED  BY <2>4, <2>5 DEF ParseInv, u
<1>. QED  BY <1>6, <1>7

(* The hunks of a change are lines of a patch; the header of a hunk says   *)
(* that the next line of the file is the first it has.                     *)
LEMMA HunkFacts ==
  ASSUME NEW s \in Seq(Entry), NEW k \in 1..Len(s)
  PROVE  LET raw == [mark |-> s[k].mark, line |-> Text(s[k]), at |-> 0]
         IN /\ Hunk(s, k) \in Seq(RawEntry)
            /\ s[k].mark = "~" => Hunk(s, k) = <<>>
            /\ s[k].mark # "~" /\ (k = 1 \/ s[k - 1].mark = "~") =>
                  Hunk(s, k) = <<Header(s, k), raw>>
            /\ s[k].mark # "~" /\ ~ (k = 1 \/ s[k - 1].mark = "~") => Hunk(s, k) = <<raw>>
            /\ Header(s, k).mark = "@@" /\ Header(s, k).at = NewLine(s, k - 1) + 1
<1> DEFINE raw == [mark |-> s[k].mark, line |-> Text(s[k]), at |-> 0]
           h == Header(s, k)
<1>1. s[k] \in Entry /\ k \in 0..Len(s) /\ k - 1 \in 0..(Len(s) - 1) /\ (k - 1) + 1 = k
      /\ k - 1 \in 0..Len(s)
  OBVIOUS
<1>2. raw \in RawEntry
  BY <1>1 DEF RawEntry, Entry, Text
<1>3. /\ NewLine(s, k - 1) \in Nat /\ NewLine(s, k) \in Nat
      /\ NewLine(s, k) = IF IsNew(s[k]) THEN NewLine(s, k - 1) + 1 ELSE NewLine(s, k - 1)
  BY <1>1, NewLineFacts
<1>4. h.mark = "@@" /\ h.at = NewLine(s, k - 1) + 1
  BY <1>3 DEF Header
<1>5. h \in RawEntry
  <2>1. NoLine \in Line
    BY MaskTypes DEF NoLine, Line
  <2>2. h = [mark |-> "@@", line |-> NoLine, at |-> NewLine(s, k - 1) + 1]
    BY <1>3 DEF Header
  <2>. QED  BY <1>3, <2>1, <2>2 DEF RawEntry
<1>6. Hunk(s, k) = IF s[k].mark = "~" THEN <<>>
                   ELSE IF k = 1 \/ s[k - 1].mark = "~" THEN <<h, raw>> ELSE <<raw>>
  BY DEF Hunk
<1> HIDE DEF h, raw
<1>7. <<>> \in Seq(RawEntry) /\ <<h, raw>> \in Seq(RawEntry) /\ <<raw>> \in Seq(RawEntry)
  BY <1>2, <1>5
<1>8. Hunk(s, k) \in Seq(RawEntry)
  BY <1>6, <1>7
<1>. QED  BY <1>4, <1>6, <1>8 DEF h, raw

LEMMA ParseStep ==
  ASSUME NEW s \in Seq(Entry), NEW k \in 1..Len(s), NEW v, ParseInv(s, k - 1, v)
  PROVE  ParseInv(s, k, Parsing!Fold(0, v, Hunk(s, k)))
<1> DEFINE raw == [mark |-> s[k].mark, line |-> Text(s[k]), at |-> 0]
           h == Header(s, k)
           u == Parsing!Fold(0, v, Hunk(s, k))
<1>1. /\ v \in ParseState /\ Len(v.run) <= 1 /\ Proper(Runs(v)) /\ Ordered(Runs(v))
      /\ Cover(Runs(v)) = AddedUpTo(s, k - 1)
  BY DEF ParseInv
<1>2. k - 1 \in 0..Len(s) /\ NewLine(s, k - 1) \in Nat
  <2>1. k - 1 \in 0..Len(s)
    OBVIOUS
  <2>. QED  BY <2>1, NewLineFacts
<1>3. raw.mark = s[k].mark
  OBVIOUS
<1>4. CASE s[k].mark = "~"
  <2>1. u = v
    BY <1>4, HunkFacts, Parsing!FoldOfOne
  <2>2. AddedUpTo(s, k) = AddedUpTo(s, k - 1)
    BY <1>4, AddedFacts
  <2> HIDE DEF u
  <2>3. ParseInv(s, k, u)
    BY <1>1, <1>4, <2>1, <2>2 DEF ParseInv
  <2>. QED  BY <2>3 DEF u
<1>5. CASE s[k].mark # "~" /\ (k = 1 \/ s[k - 1].mark = "~")
  <2> DEFINE w == ParseLine(v, h)
  <2>1. Hunk(s, k) = <<h, raw>> /\ h.mark = "@@" /\ h.at = NewLine(s, k - 1) + 1
    BY <1>5, HunkFacts
  <2>2. u = ParseLine(w, raw)
    <3>1. Parsing!Fold(0, v, <<h, raw>>) = ParseOp(0, ParseOp(0, v, h), raw)
      BY Parsing!FoldOfTwo
    <3>. QED  BY <2>1, <3>1 DEF ParseOp
  <2>3. w = [line |-> NewLine(s, k - 1) + 1, run |-> <<>>, out |-> Runs(v)]
    BY <1>1, <2>1, ParseLineCases
  <2>4. w \in ParseState /\ Len(w.run) <= 1 /\ Runs(w) = Runs(v) /\ At(w, NewLine(s, k - 1))
    <3> DEFINE rs == Runs(v)
    <3>1. rs \in Seq(Span) /\ rs \o <<>> = rs /\ <<>> \in Seq(Span) /\ Len(<<>>) = 0
      <4>1. v.out \in Seq(Span) /\ v.run \in Seq(Span)
        BY <1>1 DEF ParseState
      <4>. QED  BY <4>1 DEF Runs
    <3> HIDE DEF rs, w
    <3>2. w = [line |-> NewLine(s, k - 1) + 1, run |-> <<>>, out |-> rs]
      BY <2>3 DEF rs
    <3>3. w \in ParseState /\ Len(w.run) <= 1 /\ Runs(w) = rs /\ At(w, NewLine(s, k - 1))
      BY <1>2, <3>1, <3>2 DEF ParseState, Runs, At
    <3>. QED  BY <3>3 DEF rs
  <2> HIDE DEF w, raw
  <2>5. ParseInv(s, k, ParseLine(w, raw))
    BY <1>1, <1>3, <1>5, <2>4, ParseMarked
  <2>. QED  BY <2>2, <2>5
<1>6. CASE s[k].mark # "~" /\ ~ (k = 1 \/ s[k - 1].mark = "~")
  <2>1. Hunk(s, k) = <<raw>>
    BY <1>6, HunkFacts
  <2>2. u = ParseLine(v, raw)
    <3>1. Parsing!Fold(0, v, <<raw>>) = ParseOp(0, v, raw)
      BY Parsing!FoldOfOne
    <3>. QED  BY <2>1, <3>1 DEF ParseOp
  <2>3. At(v, NewLine(s, k - 1))
    BY <1>6 DEF ParseInv
  <2> HIDE DEF raw
  <2>4. ParseInv(s, k, ParseLine(v, raw))
    BY <1>1, <1>3, <1>6, <2>3, ParseMarked
  <2>. QED  BY <2>2, <2>4
<1>. QED  BY <1>4, <1>5, <1>6

LEMMA PatchIsFlat ==
  ASSUME NEW s \in Seq(Entry)
  PROVE  LET hunks == [k \in DOMAIN s |-> Hunk(s, k)]
         IN /\ hunks \in Seq(Seq(RawEntry)) /\ Len(hunks) = Len(s)
            /\ s = <<>> => Patch(s) = <<>>
            /\ s # <<>> => /\ Patch(s) = Parsing!Flatten(hunks)
                           /\ Patch(s) = Anchoring!Flatten(hunks)
<1> DEFINE hunks == [k \in DOMAIN s |-> Hunk(s, k)]
<1>1. DOMAIN s = 1..Len(s) /\ Len(s) \in Nat
  OBVIOUS
<1>2. \A k \in 1..Len(s) : Hunk(s, k) \in Seq(RawEntry)
  BY HunkFacts
<1>3. hunks \in Seq(Seq(RawEntry)) /\ Len(hunks) = Len(s)
  BY <1>1, <1>2
<1>4. Patch(s) = IF Len(hunks) = 0 THEN hunks ELSE Parsing!Flatten(hunks)
  BY DEF Patch, FlattenSeq, Parsing!Flatten, Parsing!IsFlatten
<1>5. Parsing!Flatten(hunks) = Anchoring!Flatten(hunks)
  BY DEF Anchoring!Flatten, Anchoring!IsFlatten, Parsing!Flatten, Parsing!IsFlatten
<1> HIDE DEF hunks
<1>6. s = <<>> <=> Len(hunks) = 0
  BY <1>1, <1>3
<1>7. Len(hunks) = 0 => hunks = <<>>
  BY <1>3
<1>. QED  BY <1>3, <1>4, <1>5, <1>6, <1>7 DEF hunks

(* _parse_patch_ranges: the added lines, in ranges with gaps.              *)
LEMMA ParseFacts ==
  ASSUME NEW s \in Seq(Entry)
  PROVE  LET rs == ParsePatchRanges(Patch(s))
         IN /\ rs \in Seq(Span) /\ Proper(rs) /\ Gapped(rs)
            /\ Cover(rs) = AddedUpTo(s, Len(s))
<1> DEFINE start == [line |-> 0, run |-> <<>>, out |-> <<>>]
           hunks == [k \in DOMAIN s |-> Hunk(s, k)]
           end   == Parsing!Fold(0, start, Patch(s))
<1>1. FoldLeft(ParseLine, start, Patch(s)) = end
  BY DEF FoldLeft, MapThenFoldSet, Max, Parsing!Fold, Parsing!IsFold, Parsing!Largest, ParseOp
<1>2. ParsePatchRanges(Patch(s)) = MergeRanges(Flush(end).out)
  BY <1>1 DEF ParsePatchRanges
<1>3. ParseInv(s, 0, start)
  <2>1. start \in ParseState /\ Len(start.run) <= 1 /\ Runs(start) = <<>>
    BY DEF ParseState, Runs
  <2>2. Proper(<<>>) /\ Ordered(<<>>) /\ Cover(<<>>) = {}
    BY DEF Proper, Ordered, Cover
  <2>3. AddedUpTo(s, 0) = {}
    BY DEF AddedUpTo
  <2>. QED  BY <2>1, <2>2, <2>3 DEF ParseInv
<1>4. /\ hunks \in Seq(Seq(RawEntry)) /\ Len(hunks) = Len(s)
      /\ s = <<>> => Patch(s) = <<>>
      /\ s # <<>> => Patch(s) = Parsing!Flatten(hunks)
  BY PatchIsFlat
<1>5. ParseInv(s, Len(s), end)
  <2>1. CASE s = <<>>
    <3>1. Parsing!Fold(0, start, <<>>) = start
      BY Parsing!FoldOfOne
    <3>. QED  BY <1>3, <1>4, <2>1, <3>1
  <2>2. CASE s # <<>>
    <3>1. \A k \in 1..Len(hunks) : \A v :
             ParseInv(s, k - 1, v) => ParseInv(s, k, Parsing!Fold(0, v, hunks[k]))
      <4>1. \A k \in 1..Len(s) : hunks[k] = Hunk(s, k)
        OBVIOUS
      <4> HIDE DEF hunks
      <4>. QED  BY <1>4, <4>1, ParseStep
    <3>2. Len(hunks) # 0
      BY <1>4, <2>2
    <3> HIDE DEF hunks, start
    <3>3. ParseInv(s, Len(hunks), Parsing!Fold(0, start, Parsing!Flatten(hunks)))
      BY ONLY <1>3, <1>4, <3>1, <3>2, Parsing!FoldOfFlatten
    <3>. QED  BY <1>4, <2>2, <3>3
  <2>. QED  BY <2>1, <2>2
<1> HIDE DEF start, end
<1>6. /\ end \in ParseState /\ Proper(Runs(end)) /\ Ordered(Runs(end))
      /\ Cover(Runs(end)) = AddedUpTo(s, Len(s))
  BY <1>5 DEF ParseInv
<1>7. Flush(end).out = Runs(end)
  <2>1. Flush(end) = [line |-> end.line, run |-> <<>>, out |-> Runs(end)]
    BY <1>6, ParseLineCases
  <2>. QED  BY <2>1
<1>8. Runs(end) \in Seq(Span)
  BY <1>6 DEF Runs, ParseState
<1>. QED  BY <1>2, <1>6, <1>7, <1>8, MergeFacts
----------------------------------------------------------------------------
(* A line of a hunk, when the search for anchors is at the line before it. *)
LEMMA AnchorMarked ==
  ASSUME NEW s \in Seq(Entry), NEW k \in 1..Len(s), s[k].mark # "~",
         NEW v \in AnchorState, Proper(v.out), Ordered(v.out),
         Cover(v.out) \subseteq 1..NewLine(s, k - 1), v.line = NewLine(s, k - 1) + 1,
         NEW raw, raw.mark = s[k].mark
  PROVE  AnchorInv(s, k, AnchorLine(v, raw))
<1> DEFINE here == NewLine(s, k - 1)
           hit == raw.line.code \in Anchors \ Heads
           x == <<v.line, v.line>>
           u == AnchorLine(v, raw)
<1>1. k - 1 \in 0..(Len(s) - 1) /\ (k - 1) + 1 = k /\ k - 1 \in 0..Len(s) /\ k > 0
  OBVIOUS
<1>2. /\ here \in Nat /\ v.line = here + 1
      /\ NewLine(s, k) = IF IsNew(s[k]) THEN here + 1 ELSE here
  BY <1>1, NewLineFacts
<1>3. v \in [line : Nat, out : Seq(Span)]
  BY DEF AnchorState
<1>4. s[k].mark \in {"+", "-", " "}
  <2>1. s[k] \in Entry
    OBVIOUS
  <2>. QED  BY <2>1 DEF Entry
<1>5. Cover(v.out) \subseteq 1..here
  OBVIOUS
<1>6. /\ raw.mark = "-" => u = v
      /\ raw.mark \in {"+", " "} /\ hit => u = [line |-> v.line + 1, out |-> Append(v.out, x)]
      /\ raw.mark \in {"+", " "} /\ ~ hit => u = [line |-> v.line + 1, out |-> v.out]
  BY DEF AnchorLine
<1> HIDE DEF here, hit, u
<1>7. CASE s[k].mark = "-"
  <2>1. NewLine(s, k) = here /\ u = v
    BY <1>2, <1>6, <1>7 DEF IsNew
  <2>. QED  BY <1>2, <1>5, <2>1 DEF AnchorInv, u
<1>8. CASE s[k].mark \in {"+", " "}
  <2>1. NewLine(s, k) = here + 1
    BY <1>2, <1>8 DEF IsNew
  <2>2. CASE ~ hit
    <3>1. u = [line |-> v.line + 1, out |-> v.out]
      BY <1>6, <1>8, <2>2
    <3>2. v.line + 1 \in Nat
      BY <1>2
    <3>3. u \in AnchorState /\ u.out = v.out /\ u.line = v.line + 1
      BY <1>3, <3>1, <3>2 DEF AnchorState
    <3>4. Cover(v.out) \subseteq 1..NewLine(s, k) /\ u.line = NewLine(s, k) + 1
      BY <1>2, <1>5, <2>1, <3>3
    <3>. QED  BY <3>3, <3>4 DEF AnchorInv, u
  <2>3. CASE hit
    <3>1. u = [line |-> v.line + 1, out |-> Append(v.out, x)]
      BY <1>6, <1>8, <2>3
    <3>2. x \in Span /\ x[1] = v.line /\ x[2] = v.line /\ x[1]..x[2] = {v.line}
          /\ x[1] <= x[2] /\ v.line + 1 \in Nat
      BY <1>2 DEF Span
    <3>3. v.out \in Seq(Span)
      BY <1>3
    <3>4. \A n \in DOMAIN v.out : v.out[n][2] < x[1]
      <4> SUFFICES ASSUME NEW n \in DOMAIN v.out PROVE v.out[n][2] < x[1]
        OBVIOUS
      <4>1. v.out[n] \in Span /\ v.out[n][1] <= v.out[n][2]
        BY <3>3 DEF Proper
      <4>2. v.out[n][2] \in v.out[n][1]..v.out[n][2]
        BY <4>1 DEF Span
      <4>3. v.out[n][2] \in Cover(v.out)
        BY <4>2 DEF Cover
      <4>. QED  BY <1>2, <1>5, <3>2, <4>3
    <3> DEFINE w == Append(v.out, x)
    <3> HIDE DEF x
    <3>5. /\ w \in Seq(Span) /\ Cover(w) = Cover(v.out) \union x[1]..x[2]
          /\ Proper(w) /\ Ordered(w)
      BY <3>2, <3>3, <3>4, AppendSpan
    <3> HIDE DEF w
    <3>6. u \in AnchorState /\ u.out = w /\ u.line = v.line + 1
      BY <3>1, <3>2, <3>5 DEF AnchorState, w
    <3>7. Cover(w) \subseteq 1..NewLine(s, k) /\ u.line = NewLine(s, k) + 1
      BY <1>2, <1>5, <2>1, <3>2, <3>5, <3>6
    <3>. QED  BY <3>5, <3>6, <3>7 DEF AnchorInv, u
  <2>. QED  BY <2>2, <2>3
<1>. QED  BY <1>4, <1>7, <1>8

LEMMA AnchorStep ==
  ASSUME NEW s \in Seq(Entry), NEW k \in 1..Len(s), NEW v, AnchorInv(s, k - 1, v)
  PROVE  AnchorInv(s, k, Anchoring!Fold(0, v, Hunk(s, k)))
<1> DEFINE raw == [mark |-> s[k].mark, line |-> Text(s[k]), at |-> 0]
           h == Header(s, k)
           u == Anchoring!Fold(0, v, Hunk(s, k))
<1>1. /\ v \in AnchorState /\ Proper(v.out) /\ Ordered(v.out)
      /\ Cover(v.out) \subseteq 1..NewLine(s, k - 1)
  BY DEF AnchorInv
<1>2. k - 1 \in 0..Len(s) /\ k \in 0..Len(s) /\ NewLine(s, k - 1) \in Nat /\ NewLine(s, k) \in Nat
  <2>1. k - 1 \in 0..Len(s) /\ k \in 0..Len(s)
    OBVIOUS
  <2>. QED  BY <2>1, NewLineFacts
<1>3. raw.mark = s[k].mark
  OBVIOUS
<1>4. CASE s[k].mark = "~"
  <2>1. u = v
    BY <1>4, HunkFacts, Anchoring!FoldOfOne
  <2>2. NewLine(s, k - 1) <= NewLine(s, k)
    <3>1. k - 1 \in 0..k
      OBVIOUS
    <3>. QED  BY <1>2, <3>1, NewLineGrows
  <2>3. Cover(v.out) \subseteq 1..NewLine(s, k)
    BY <1>1, <1>2, <2>2
  <2>4. AnchorInv(s, k, v)
    BY <1>1, <1>4, <2>3 DEF AnchorInv
  <2>. QED  BY <2>1, <2>4
<1>5. CASE s[k].mark # "~" /\ (k = 1 \/ s[k - 1].mark = "~")
  <2> DEFINE w == AnchorLine(v, h)
  <2>1. Hunk(s, k) = <<h, raw>> /\ h.mark = "@@" /\ h.at = NewLine(s, k - 1) + 1
    BY <1>5, HunkFacts
  <2>2. u = AnchorLine(w, raw)
    <3>1. Anchoring!Fold(0, v, <<h, raw>>) = AnchorOp(0, AnchorOp(0, v, h), raw)
      BY Anchoring!FoldOfTwo
    <3>. QED  BY <2>1, <3>1 DEF AnchorOp
  <2>3. w = [line |-> NewLine(s, k - 1) + 1, out |-> v.out]
    <3>1. w = [v EXCEPT !.line = h.at]
      BY <2>1 DEF AnchorLine
    <3>2. v \in [line : Nat, out : Seq(Span)]
      BY <1>1 DEF AnchorState
    <3>. QED  BY <2>1, <3>1, <3>2
  <2>4. w \in AnchorState /\ w.out = v.out /\ w.line = NewLine(s, k - 1) + 1
    <3>1. v.out \in Seq(Span)
      BY <1>1 DEF AnchorState
    <3> HIDE DEF w
    <3>. QED  BY <1>2, <2>3, <3>1 DEF AnchorState
  <2> HIDE DEF w, raw
  <2>5. AnchorInv(s, k, AnchorLine(w, raw))
    BY <1>1, <1>3, <1>5, <2>4, AnchorMarked
  <2>. QED  BY <2>2, <2>5
<1>6. CASE s[k].mark # "~" /\ ~ (k = 1 \/ s[k - 1].mark = "~")
  <2>1. Hunk(s, k) = <<raw>>
    BY <1>6, HunkFacts
  <2>2. u = AnchorLine(v, raw)
    <3>1. Anchoring!Fold(0, v, <<raw>>) = AnchorOp(0, v, raw)
      BY Anchoring!FoldOfOne
    <3>. QED  BY <2>1, <3>1 DEF AnchorOp
  <2>3. v.line = NewLine(s, k - 1) + 1
    BY <1>6 DEF AnchorInv
  <2> HIDE DEF raw
  <2>4. AnchorInv(s, k, AnchorLine(v, raw))
    BY <1>1, <1>3, <1>6, <2>3, AnchorMarked
  <2>. QED  BY <2>2, <2>4
<1>. QED  BY <1>4, <1>5, <1>6

(* _parse_keyword_anchor_ranges: lines of the file.                        *)
LEMMA AnchorFacts ==
  ASSUME NEW s \in Seq(Entry)
  PROVE  LET rs == ParseAnchorRanges(Patch(s))
         IN /\ rs \in Seq(Span) /\ Proper(rs)
            /\ Cover(rs) \subseteq 1..NewLine(s, Len(s))
<1> DEFINE start == [line |-> 0, out |-> <<>>]
           hunks == [k \in DOMAIN s |-> Hunk(s, k)]
           end   == Anchoring!Fold(0, start, Patch(s))
<1>1. FoldLeft(AnchorLine, start, Patch(s)) = end
  BY DEF FoldLeft, MapThenFoldSet, Max, Anchoring!Fold, Anchoring!IsFold, Anchoring!Largest, AnchorOp
<1>2. ParseAnchorRanges(Patch(s)) = MergeRanges(end.out)
  BY <1>1 DEF ParseAnchorRanges
<1>3. AnchorInv(s, 0, start)
  <2>1. start \in AnchorState /\ start.out = <<>>
    BY DEF AnchorState
  <2>2. Proper(<<>>) /\ Ordered(<<>>) /\ Cover(<<>>) = {}
    BY DEF Proper, Ordered, Cover
  <2>. QED  BY <2>1, <2>2 DEF AnchorInv
<1>4. /\ hunks \in Seq(Seq(RawEntry)) /\ Len(hunks) = Len(s)
      /\ s = <<>> => Patch(s) = <<>>
      /\ s # <<>> => Patch(s) = Anchoring!Flatten(hunks)
  BY PatchIsFlat
<1>5. AnchorInv(s, Len(s), end)
  <2>1. CASE s = <<>>
    <3>1. Anchoring!Fold(0, start, <<>>) = start
      BY Anchoring!FoldOfOne
    <3>. QED  BY <1>3, <1>4, <2>1, <3>1
  <2>2. CASE s # <<>>
    <3>1. \A k \in 1..Len(hunks) : \A v :
             AnchorInv(s, k - 1, v) => AnchorInv(s, k, Anchoring!Fold(0, v, hunks[k]))
      <4>1. \A k \in 1..Len(s) : hunks[k] = Hunk(s, k)
        OBVIOUS
      <4> HIDE DEF hunks
      <4>. QED  BY <1>4, <4>1, AnchorStep
    <3>2. Len(hunks) # 0
      BY <1>4, <2>2
    <3> HIDE DEF hunks, start
    <3>3. AnchorInv(s, Len(hunks), Anchoring!Fold(0, start, Anchoring!Flatten(hunks)))
      BY ONLY <1>3, <1>4, <3>1, <3>2, Anchoring!FoldOfFlatten
    <3>. QED  BY <1>4, <2>2, <3>3
  <2>. QED  BY <2>1, <2>2
<1> HIDE DEF start, end
<1>6. /\ end \in AnchorState /\ Proper(end.out) /\ Ordered(end.out)
      /\ Cover(end.out) \subseteq 1..NewLine(s, Len(s))
  BY <1>5 DEF AnchorInv
<1>7. end.out \in Seq(Span)
  BY <1>6 DEF AnchorState
<1>. QED  BY <1>2, <1>6, <1>7, MergeFacts

(* A range whose lines are lines of the file lies in the file.             *)
LEMMA CoverInFile ==
  ASSUME NEW s \in Seq(Entry), NEW rs \in Seq(Span), Proper(rs),
         Cover(rs) \subseteq 1..NewLine(s, Len(s))
  PROVE  AllInFile(File(s), rs)
<1>1. SUFFICES ASSUME NEW n \in DOMAIN rs PROVE InFile(File(s), rs[n])
  BY DEF AllInFile
<1>2. rs[n] \in Span /\ rs[n][1] <= rs[n][2]
  BY DEF Proper
<1>3. rs[n][1] \in rs[n][1]..rs[n][2] /\ rs[n][2] \in rs[n][1]..rs[n][2]
  BY <1>2 DEF Span
<1>4. rs[n][1] \in Cover(rs) /\ rs[n][2] \in Cover(rs)
  BY <1>3 DEF Cover
<1>5. Len(File(s)) = NewLine(s, Len(s))
  BY FileIsLines
<1>. QED  BY <1>2, <1>4, <1>5 DEF InFile

(* Both parsers give ranges of the file.                                   *)
LEMMA SeedsInFile ==
  ASSUME NEW s \in Seq(Entry)
  PROVE  AllInFile(File(s), ParsePatchRanges(Patch(s))) /\ AllInFile(File(s), Seeds(s))
<1> DEFINE total == NewLine(s, Len(s))
<1>1. AddedUpTo(s, Len(s)) \subseteq 1..total
  <2>1. CASE Len(s) = 0
    <3>1. 1..0 = {}
      OBVIOUS
    <3>. QED  BY <2>1, <3>1 DEF AddedUpTo
  <2>2. CASE Len(s) # 0
    <3> DEFINE k == Len(s)
    <3>1. /\ k \in 1..Len(s) /\ k \in 0..Len(s) /\ k - 1 \in 0..Len(s) /\ k - 1 \in 0..(Len(s) - 1)
          /\ (k - 1) + 1 = k /\ k - 1 \in 0..k
      BY <2>2
    <3>2. NewLine(s, k) \in Nat /\ NewLine(s, k - 1) \in Nat
      BY <3>1, NewLineFacts
    <3>3. NewLine(s, k - 1) <= NewLine(s, k)
      BY <3>1, NewLineGrows
    <3>4. s[k].mark = "+" => NewLine(s, k) = NewLine(s, k - 1) + 1
      BY <3>1, NewLineFacts DEF IsNew
    <3>5. /\ AddedUpTo(s, k - 1) \subseteq 1..NewLine(s, k - 1)
          /\ s[k].mark = "+" => AddedUpTo(s, k) = AddedUpTo(s, k - 1) \union {NewLine(s, k)}
          /\ s[k].mark # "+" => AddedUpTo(s, k) = AddedUpTo(s, k - 1)
      BY <3>1, AddedFacts
    <3> HIDE DEF k
    <3>6. AddedUpTo(s, k) \subseteq 1..NewLine(s, k)
      BY <3>2, <3>3, <3>4, <3>5
    <3>. QED  BY <3>6 DEF k
  <2>. QED  BY <2>1, <2>2
<1>2. AllInFile(File(s), ParsePatchRanges(Patch(s)))
  BY <1>1, ParseFacts, CoverInFile
<1>3. AllInFile(File(s), ParseAnchorRanges(Patch(s)))
  BY AnchorFacts, CoverInFile
<1>. QED  BY <1>2, <1>3 DEF Seeds
----------------------------------------------------------------------------
LEMMA BraceLineKeeps ==
  ASSUME NEW file \in Seq(Line), NEW k \in 1..Len(file), NEW b, BraceInv(file, k - 1, b)
  PROVE  BraceInv(file, k, BraceLine(file, b, k))
<1> DEFINE opened == Opens[file[k].code]
           new    == [n \in 1..opened |-> k]
           open   == b.open \o new
           taken  == Min({Closes[file[k].code], Len(open)})
           left   == SubSeq(open, 1, Len(open) - taken)
           closed == {<<open[Len(open) - n], k>> : n \in 0..(taken - 1)}
           Pairs(n) == {x \in (1..n) \X (1..n) : x[1] <= x[2]}
<1>1. file[k].code \in Codes
  <2>1. file[k] \in Line
    OBVIOUS
  <2>. QED  BY <2>1 DEF Line
<1>2. opened \in Nat /\ Closes[file[k].code] \in Nat
  BY <1>1, MaskTypes
<1>3. k \in Nat /\ k \in 1..k /\ 1..(k - 1) \subseteq 1..k
  OBVIOUS
<1>4. new \in Seq(1..k)
  BY <1>2, <1>3
<1>5. b.open \in Seq(1..k)
  <2>1. b.open \in Seq(1..(k - 1))
    BY DEF BraceInv
  <2>. QED  BY <1>3, <2>1
<1> HIDE DEF opened, new
<1>6. open \in Seq(1..k)
  BY <1>4, <1>5
<1> HIDE DEF open
<1>7. Len(open) \in Nat /\ \A n \in 1..Len(open) : open[n] \in 1..k
  BY <1>6
<1>8. taken = IF Closes[file[k].code] <= Len(open) THEN Closes[file[k].code] ELSE Len(open)
  <2> DEFINE c == Closes[file[k].code]
             m == Len(open)
  <2>1. c \in Int /\ m \in Int
    BY <1>2, <1>7
  <2> HIDE DEF c, m
  <2>2. Min({c, m}) = IF c <= m THEN c ELSE m
    BY <2>1, TwoNumbers
  <2>. QED  BY <2>2 DEF c, m
<1>9. taken \in Nat /\ taken <= Len(open)
  BY <1>2, <1>7, <1>8
<1> HIDE DEF taken
<1>10. left \in Seq(1..k)
  <2>1. Len(open) - taken \in 0..Len(open)
    BY <1>7, <1>9
  <2>. QED  BY <1>6, <2>1
<1>11. closed \subseteq Pairs(k)
  <2> SUFFICES ASSUME NEW n \in 0..(taken - 1) PROVE <<open[Len(open) - n], k>> \in Pairs(k)
    OBVIOUS
  <2>1. Len(open) - n \in 1..Len(open)
    BY <1>7, <1>9
  <2>2. open[Len(open) - n] \in 1..k
    BY <1>7, <2>1
  <2>. QED  BY <1>3, <2>2
<1>12. b.blocks \subseteq Pairs(k)
  <2>1. b.blocks \subseteq Pairs(k - 1)
    BY DEF BraceInv
  <2>. QED  BY <1>3, <2>1
<1>13. BraceLine(file, b, k) = [open |-> left, blocks |-> b.blocks \union closed]
  BY DEF BraceLine, left, closed, taken, open, new, opened
<1> HIDE DEF left, closed
<1>. QED  BY <1>10, <1>11, <1>12, <1>13 DEF BraceInv

(* _brace_blocks: blocks of the file.                                      *)
LEMMA BraceBlocksFacts ==
  ASSUME NEW file \in Seq(Line)
  PROVE  \A b \in BraceBlocks(file) : InFile(file, b)
<1> DEFINE start == [open |-> <<>>, blocks |-> {}]
           lines == [k \in DOMAIN file |-> k]
           end   == Bracing!Fold(file, start, lines)
<1>1. BraceBlocks(file) = end.blocks
  BY DEF BraceBlocks, FoldLeft, MapThenFoldSet, Max, Bracing!Fold, Bracing!IsFold,
         Bracing!Largest, BraceOp
<1>2. DOMAIN lines = 1..Len(file) /\ Len(file) \in Nat /\ \A k \in 1..Len(file) : lines[k] = k
  OBVIOUS
<1>3. BraceInv(file, 0, start)
  BY DEF BraceInv
<1> HIDE DEF start, lines
<1>4. \A k \in 1..Len(file) : \A v :
         BraceInv(file, k - 1, v) => BraceInv(file, k, BraceOp(file, v, lines[k]))
  BY <1>2, BraceLineKeeps DEF BraceOp
<1>5. BraceInv(file, Len(file), end)
  BY ONLY <1>2, <1>3, <1>4, Bracing!FoldInduction
<1>. QED  BY <1>1, <1>2, <1>5 DEF BraceInv, InFile, Span
----------------------------------------------------------------------------
(* There is a smallest block, so one is chosen.                            *)
LEMMA BraceBlockFacts ==
  ASSUME NEW file \in Seq(Line), NEW r, InFile(file, r), Enclosing(file, r) # {}
  PROVE  InFile(file, BraceBlock(file, r)) /\ Inside(r, BraceBlock(file, r))
<1> DEFINE E == Enclosing(file, r)
           sizes == {b[2] - b[1] : b \in E}
           smallest(b) == \A c \in E \ {b} : Smaller(b, c)
<1>1. \A b \in E : InFile(file, b) /\ b[1] <= r[1] /\ r[2] <= b[2]
  BY BraceBlocksFacts DEF Enclosing
<1> HIDE DEF E
<1>2. \A b \in E : b \in Span /\ b[1] \in Nat /\ b[2] \in Nat /\ b[2] - b[1] \in Nat
                   /\ b = <<b[1], b[2]>>
  BY <1>1 DEF InFile, Span
<1>3. E # {}
  BY DEF E
<1>4. PICK size \in sizes : \A y \in sizes : size <= y
  <2>1. sizes \subseteq Nat /\ sizes # {}
    BY <1>2, <1>3
  <2> HIDE DEF sizes
  <2>. QED  BY <2>1, Merging!Least
<1> DEFINE starts == {b[1] : b \in {c \in E : c[2] - c[1] = size}}
<1>5. PICK first \in starts : \A y \in starts : first <= y
  <2>1. starts \subseteq Nat /\ starts # {}
    BY <1>2, <1>4
  <2> HIDE DEF starts
  <2>. QED  BY <2>1, Merging!Least
<1>6. PICK b \in E : b[2] - b[1] = size /\ b[1] = first
  BY <1>5
<1>7. ASSUME NEW c \in E \ {b} PROVE Smaller(b, c)
  <2>1. size <= c[2] - c[1]
    BY <1>4
  <2>2. c[2] - c[1] = size => first <= c[1]
    BY <1>5
  <2>3. c[2] - c[1] = size /\ c[1] = first => c = b
    <3> SUFFICES ASSUME c[2] - c[1] = size, c[1] = first PROVE c = b
      OBVIOUS
    <3>1. c[1] = b[1] /\ c[2] = b[2]
      BY <1>2, <1>6
    <3>. QED  BY <1>2, <3>1
  <2>4. /\ c[1] \in Nat /\ c[2] \in Nat /\ b[1] \in Nat /\ b[2] \in Nat /\ c # b
    BY <1>2
  <2>. QED  BY <1>6, <2>1, <2>2, <2>3, <2>4 DEF Smaller
<1>8. \E x \in E : smallest(x)
  BY <1>7
<1>9. BraceBlock(file, r) = CHOOSE x \in E : smallest(x)
  BY DEF BraceBlock, E
<1> HIDE DEF smallest
<1>10. BraceBlock(file, r) \in E
  BY <1>8, <1>9
<1>. QED  BY <1>1, <1>10 DEF Inside

LEMMA GreatestAndLeast ==
  ASSUME NEW n \in Nat, NEW T, T \subseteq 1..n, T # {}
  PROVE  Max(T) \in T /\ Min(T) \in T /\ \A y \in T : Min(T) <= y /\ Max(T) >= y
<1>1. \E x \in T : \A y \in T : x <= y
  <2>1. T \subseteq Nat
    OBVIOUS
  <2>. QED  BY <2>1, Merging!Least
<1>2. \E x \in T : \A y \in T : x >= y
  <2> DEFINE back == {n - y : y \in T}
  <2>1. back \subseteq Nat /\ back # {}
    <3>1. \A y \in T : n - y \in Nat
      OBVIOUS
    <3>. QED  BY <3>1
  <2>2. PICK z \in back : \A w \in back : z <= w
    <3> HIDE DEF back
    <3>. QED  BY <2>1, Merging!Least
  <2>3. PICK x \in T : z = n - x
    BY <2>2
  <2>4. \A y \in T : n - y \in back /\ y \in Int
    OBVIOUS
  <2>. QED  BY <2>2, <2>3, <2>4
<1>3. Max(T) \in T /\ \A y \in T : Max(T) >= y
  BY <1>2 DEF Max
<1>4. Min(T) \in T /\ \A y \in T : Min(T) <= y
  BY <1>1 DEF Min
<1>. QED  BY <1>3, <1>4

(* The block by indentation holds the range and lies in the file.          *)
LEMMA PythonBlockFacts ==
  ASSUME NEW file \in Seq(Line), NEW r, InFile(file, r)
  PROVE  InFile(file, PythonBlock(file, r)) /\ Inside(r, PythonBlock(file, r))
<1> DEFINE n == Len(file)
           indent == file[r[1]].indent
           starts == {k \in 1..r[1] : k = 1 \/ file[k - 1].code = Blank
                        \/ (file[k - 1].code \in Colons /\ file[k - 1].indent < indent)}
           ends   == {k \in r[2]..n : k = n
                        \/ (file[k + 1].code # Blank /\ file[k + 1].indent <= indent)}
           from == Max(starts)
           to   == Min(ends)
<1>1. n \in Nat /\ r[1] \in Nat /\ r[2] \in Nat /\ 1 <= r[1] /\ r[1] <= r[2] /\ r[2] <= n
  BY DEF InFile, Span
<1>2. starts \subseteq 1..r[1] /\ 1 \in starts
  BY <1>1
<1>3. ends \subseteq 1..n /\ n \in ends /\ ends \subseteq r[2]..n
  BY <1>1
<1>4. PythonBlock(file, r) = <<from, to>>
  BY DEF PythonBlock
<1> HIDE DEF starts, ends, n
<1>5. from \in 1..r[1]
  <2>1. from \in starts
    BY <1>1, <1>2, GreatestAndLeast
  <2>. QED  BY <1>2, <2>1
<1>6. to \in r[2]..n
  <2>1. to \in ends
    BY <1>1, <1>3, GreatestAndLeast
  <2>. QED  BY <1>3, <2>1
<1> HIDE DEF from, to
<1>7. InFile(file, <<from, to>>) /\ Inside(r, <<from, to>>)
  BY <1>1, <1>5, <1>6 DEF InFile, Inside, Span, n
<1>. QED  BY <1>4, <1>7

(* More lines around a range: they stop at the ends of the file.           *)
LEMMA AroundFacts ==
  ASSUME NEW file \in Seq(Line), NEW r, InFile(file, r)
  PROVE  /\ Within(file, r[1], r[2]) = r
         /\ \A n \in Nat : InFile(file, Around(file, r, n)) /\ Inside(r, Around(file, r, n))
         /\ \A n, m \in Nat : n <= m => Inside(Around(file, r, n), Around(file, r, m))
<1>1. /\ Len(file) \in Nat /\ r[1] \in Nat /\ r[2] \in Nat /\ 1 <= r[1] /\ r[1] <= r[2]
      /\ r[2] <= Len(file) /\ r = <<r[1], r[2]>>
  BY DEF InFile, Span
<1> DEFINE L == Len(file)
           lo(a) == IF 1 >= a THEN 1 ELSE a
           hi(a) == IF L <= a THEN L ELSE a
<1>2. ASSUME NEW a \in Int, NEW b \in Int PROVE Within(file, a, b) = <<lo(a), hi(b)>>
  <2>1. Within(file, a, b) = <<Max({1, a}), Min({L, b})>>
    BY DEF Within
  <2>2. L \in Int /\ 1 \in Int
    BY <1>1
  <2> HIDE DEF L
  <2>3. Max({1, a}) = lo(a)
    BY <2>2, TwoNumbers
  <2>4. Min({L, b}) = hi(b)
    BY <2>2, TwoNumbers
  <2>. QED  BY <2>1, <2>3, <2>4
<1> HIDE DEF L
<1>3. Within(file, r[1], r[2]) = r
  <2>1. Within(file, r[1], r[2]) = <<lo(r[1]), hi(r[2])>>
    BY <1>1, <1>2
  <2>2. lo(r[1]) = r[1] /\ hi(r[2]) = r[2]
    BY <1>1 DEF L
  <2>. QED  BY <1>1, <2>1, <2>2
<1>4. ASSUME NEW n \in Nat
      PROVE  /\ Around(file, r, n)[1] = lo(r[1] - n) /\ Around(file, r, n)[2] = hi(r[2] + n)
             /\ InFile(file, Around(file, r, n)) /\ Inside(r, Around(file, r, n))
  <2> DEFINE from == lo(r[1] - n)
             to   == hi(r[2] + n)
  <2>1. Around(file, r, n) = <<from, to>>
    <3>1. r[1] - n \in Int /\ r[2] + n \in Int
      BY <1>1
    <3>. QED  BY <1>2, <3>1 DEF Around
  <2>2. from \in Nat /\ to \in Nat /\ 1 <= from /\ from <= r[1] /\ r[2] <= to /\ to <= Len(file)
    BY <1>1 DEF L
  <2> HIDE DEF from, to
  <2>3. InFile(file, <<from, to>>) /\ Inside(r, <<from, to>>)
    BY <1>1, <2>2 DEF InFile, Inside, Span
  <2>4. <<from, to>>[1] = from /\ <<from, to>>[2] = to
    OBVIOUS
  <2>. QED  BY <2>1, <2>3, <2>4 DEF from, to
<1>5. ASSUME NEW n \in Nat, NEW m \in Nat, n <= m
      PROVE  Inside(Around(file, r, n), Around(file, r, m))
  <2>1. lo(r[1] - m) <= lo(r[1] - n) /\ hi(r[2] + n) <= hi(r[2] + m)
    BY <1>1, <1>5 DEF L
  <2>. QED  BY <1>4, <2>1 DEF Inside
<1>. QED  BY <1>3, <1>4, <1>5

(* _expand_range: the range itself, its block or some lines around it, and *)
(* more of these; each holds the one before.                               *)
LEMMA ExpandFacts ==
  ASSUME NEW file \in Seq(Line), NEW seed, InFile(file, seed)
  PROVE  /\ \A a \in 0..2 : InFile(file, Expand(file, seed, a))
         /\ Inside(seed, Expand(file, seed, 0))
         /\ Inside(Expand(file, seed, 0), Expand(file, seed, 1))
         /\ Inside(Expand(file, seed, 1), Expand(file, seed, 2))
<1> DEFINE block == lang = "block" /\ Enclosing(file, seed) # {}
           b == IF block THEN BraceBlock(file, seed) ELSE PythonBlock(file, seed)
<1>1. Within(file, seed[1], seed[2]) = seed
  BY AroundFacts
<1>2. /\ Expand(file, seed, 0) = seed
      /\ block \/ lang = "Python" => Expand(file, seed, 1) = b /\ Expand(file, seed, 2) = Around(file, b, 2)
      /\ ~ block /\ lang # "Python" =>
            Expand(file, seed, 1) = Around(file, seed, 3) /\ Expand(file, seed, 2) = Around(file, seed, 8)
  <2>1. Expand(file, seed, 0) = seed
    BY <1>1 DEF Expand
  <2>2. CASE block
    BY <1>1, <2>1, <2>2 DEF Expand
  <2>3. CASE lang = "Python"
    BY <1>1, <2>1, <2>3 DEF Expand
  <2>4. CASE ~ block /\ lang # "Python"
    BY <1>1, <2>1, <2>4 DEF Expand
  <2>. QED  BY <2>1, <2>2, <2>3, <2>4
<1>3. Inside(seed, seed)
  BY DEF Inside, InFile, Span
<1>4. \A a : a \in 0..2 <=> a = 0 \/ a = 1 \/ a = 2
  OBVIOUS
<1>5. CASE block \/ lang = "Python"
  <2>1. InFile(file, b) /\ Inside(seed, b)
    BY BraceBlockFacts, PythonBlockFacts
  <2> HIDE DEF b
  <2>2. InFile(file, Around(file, b, 2)) /\ Inside(b, Around(file, b, 2))
    BY <2>1, AroundFacts
  <2>. QED  BY <1>2, <1>3, <1>4, <1>5, <2>1, <2>2
<1>6. CASE ~ block /\ lang # "Python"
  <2>1. /\ InFile(file, Around(file, seed, 3)) /\ Inside(seed, Around(file, seed, 3))
        /\ InFile(file, Around(file, seed, 8)) /\ Inside(Around(file, seed, 3), Around(file, seed, 8))
    BY AroundFacts
  <2>. QED  BY <1>2, <1>3, <1>4, <1>6, <2>1
<1>. QED  BY <1>5, <1>6
----------------------------------------------------------------------------
LEMMA AppendNewKeeps ==
  ASSUME NEW file, NEW rs, AllInFile(file, rs), NoneTwice(rs), NEW r, InFile(file, r)
  PROVE  AllInFile(file, AppendNew(rs, r)) /\ NoneTwice(AppendNew(rs, r))
<1>1. CASE Contains(rs, r)
  BY <1>1 DEF AppendNew
<1>2. CASE ~ Contains(rs, r)
  <2> DEFINE w == Append(rs, r)
             n == Len(rs)
  <2>1. rs \in Seq(Span) /\ r \in Span
    BY DEF AllInFile, InFile
  <2>2. /\ w \in Seq(Span) /\ DOMAIN w = 1..(n + 1) /\ w[n + 1] = r /\ n \in Nat
        /\ DOMAIN rs = 1..n /\ \A j \in 1..n : w[j] = rs[j]
    BY <2>1
  <2>3. \A j \in 1..n : rs[j] # r
    BY <1>2 DEF Contains
  <2>4. AppendNew(rs, r) = w
    BY <1>2 DEF AppendNew
  <2> HIDE DEF w, n
  <2>5. \A j \in 1..(n + 1) : j \in 1..n \/ j = n + 1
    BY <2>2
  <2>6. AllInFile(file, w)
    BY <2>2, <2>5 DEF AllInFile
  <2>7. NoneTwice(w)
    <3> SUFFICES ASSUME NEW j \in 1..(n + 1), NEW k \in 1..(n + 1), w[j] = w[k] PROVE j = k
      BY <2>2 DEF NoneTwice
    <3>1. CASE j \in 1..n /\ k \in 1..n
      BY <2>2, <3>1 DEF NoneTwice
    <3>2. CASE j = n + 1 \/ k = n + 1
      BY <2>2, <2>3, <2>5, <3>2
    <3>. QED  BY <2>5, <3>1, <3>2
  <2>. QED  BY <2>4, <2>6, <2>7
<1>. QED  BY <1>1, <1>2

(* _build_attempt_ranges: ranges of the file, none of them twice.          *)
LEMMA AttemptFacts ==
  ASSUME NEW s \in Seq(Entry)
  PROVE  AllInFile(File(s), BuildAttemptRanges(s)) /\ NoneTwice(BuildAttemptRanges(s))
<1> DEFINE file  == File(s)
           seeds == IF ParsePatchRanges(Patch(s)) = <<>> THEN <<>> ELSE Seeds(s)
           seed(n) == seeds[((n - 1) \div 3) + 1]
           tries == [n \in 1..(3 * Len(seeds)) |-> Expand(file, seed(n), (n - 1) % 3)]
           end   == Attempting!Fold(0, <<>>, tries)
<1>1. BuildAttemptRanges(s) = end
  BY DEF BuildAttemptRanges, FoldLeft, MapThenFoldSet, Max, Attempting!Fold, Attempting!IsFold,
         Attempting!Largest, AttemptOp
<1>2. file \in Seq(Line)
  BY FileIsLines
<1>3. AllInFile(file, seeds)
  <2>1. <<>> \in Seq(Span) /\ DOMAIN <<>> = {}
    OBVIOUS
  <2>2. AllInFile(file, <<>>)
    BY <2>1 DEF AllInFile
  <2>. QED  BY <2>2, SeedsInFile
<1> HIDE DEF file, seeds
<1>4. Len(seeds) \in Nat /\ DOMAIN seeds = 1..Len(seeds)
  BY <1>3 DEF AllInFile
<1>5. ASSUME NEW n \in 1..(3 * Len(seeds)) PROVE InFile(file, tries[n])
  <2>1. ((n - 1) \div 3) + 1 \in 1..Len(seeds) /\ (n - 1) % 3 \in 0..2
    BY <1>4
  <2>2. InFile(file, seed(n))
    BY <1>3, <1>4, <2>1 DEF AllInFile
  <2> HIDE DEF seed
  <2>3. InFile(file, Expand(file, seed(n), (n - 1) % 3))
    BY <1>2, <2>1, <2>2, ExpandFacts
  <2>. QED  BY <2>3
<1>6. DOMAIN tries = 1..(3 * Len(seeds)) /\ 3 * Len(seeds) \in Nat
  BY <1>4
<1> HIDE DEF tries
<1>7. AttemptInv(file, 0, <<>>)
  <2>1. <<>> \in Seq(Span) /\ DOMAIN <<>> = {}
    OBVIOUS
  <2>. QED  BY <2>1 DEF AttemptInv, AllInFile, NoneTwice
<1>8. \A k \in 1..(3 * Len(seeds)) : \A v :
         AttemptInv(file, k - 1, v) => AttemptInv(file, k, AttemptOp(0, v, tries[k]))
  BY <1>5, AppendNewKeeps DEF AttemptInv, AttemptOp
<1>9. AttemptInv(file, 3 * Len(seeds), end)
  BY ONLY <1>6, <1>7, <1>8, Attempting!FoldInduction
<1>. QED  BY <1>1, <1>9 DEF AttemptInv, file
----------------------------------------------------------------------------
LEMMA MaskInit == Init => MaskInv
<1>1. <<>> \in Seq(Span) /\ DOMAIN <<>> = {}
  OBVIOUS
<1>. QED  BY <1>1 DEF Init, MaskInv, AllInFile, NoneTwice, GivenUp

(* The next range, or the end of the node at the last one.                 *)
LEMMA NextRangeKeeps ==
  ASSUME MaskInv, pc = "try", UNCHANGED <<script, lang, ranges>>,
         NEW why \in GivenUp, NextRange(why)
  PROVE  MaskInv'
<1>1. /\ script' = script /\ lang' = lang /\ ranges' = ranges /\ ranges \in Seq(Span)
      /\ i \in DOMAIN ranges /\ reason = "none"
  BY DEF MaskInv, AllInFile
<1>2. Len(ranges) \in Nat /\ DOMAIN ranges = 1..Len(ranges) /\ Last(ranges) = ranges[Len(ranges)]
  BY <1>1 DEF Last
<1>3. AllInFile(File(script'), ranges') /\ NoneTwice(ranges')
  BY <1>1 DEF MaskInv
<1>4. "none" \notin GivenUp /\ "task" \notin GivenUp
  BY DEF GivenUp
<1>5. CASE ranges[i] = Last(ranges)
  <2>1. pc' = "done" /\ reason' = why /\ i' = i
    BY <1>5 DEF NextRange, End
  <2>2. i = Len(ranges)
    <3>1. Len(ranges) \in DOMAIN ranges
      BY <1>1, <1>2
    <3>. QED  BY <1>1, <1>2, <1>5, <3>1 DEF MaskInv, NoneTwice
  <2>. QED  BY <1>1, <1>2, <1>3, <1>4, <2>1, <2>2 DEF MaskInv
<1>6. CASE ranges[i] # Last(ranges)
  <2>1. i' = i + 1 /\ pc' = pc /\ reason' = reason
    BY <1>6 DEF NextRange
  <2>2. i' \in DOMAIN ranges /\ i' \in Nat
    BY <1>1, <1>2, <1>6, <2>1
  <2>. QED  BY <1>1, <1>3, <1>4, <2>1, <2>2 DEF MaskInv
<1>. QED  BY <1>5, <1>6

LEMMA MaskNext == MaskInv /\ [Next]_vars => MaskInv'
<1>0. SUFFICES ASSUME MaskInv, [Next]_vars PROVE MaskInv'
  OBVIOUS
<1>1. script \in Seq(Entry)
  BY <1>0, MaskTypes DEF MaskInv
<1>2. CASE NoInteropSignal
  BY <1>0, <1>2 DEF NoInteropSignal, End, MaskInv, GivenUp
<1>3. CASE Derive
  <2>1. script' = script /\ lang' = lang /\ ranges' = BuildAttemptRanges(script) /\ i' = i
    BY <1>3 DEF Derive
  <2>2. AllInFile(File(script'), ranges') /\ NoneTwice(ranges')
    BY <1>1, <2>1, AttemptFacts
  <2>3. /\ script \in Scripts /\ lang \in Langs /\ i \in Nat /\ reason = "none"
        /\ i = 1
    BY <1>0, <1>3 DEF MaskInv, Derive
  <2>4. CASE ranges' = <<>>
    <3>1. pc' = "done" /\ reason' = "patch_unavailable"
      BY <1>3, <2>4 DEF Derive, End
    <3>. QED  BY <2>1, <2>2, <2>3, <3>1 DEF MaskInv, GivenUp
  <2>5. CASE ranges' # <<>>
    <3>1. pc' = "try" /\ reason' = reason
      BY <1>3, <2>5 DEF Derive
    <3>2. i \in DOMAIN ranges'
      <4>1. ranges' \in Seq(Span)
        BY <2>2 DEF AllInFile
      <4>. QED  BY <2>3, <2>5, <4>1
    <3>. QED  BY <2>1, <2>2, <2>3, <3>1, <3>2 DEF MaskInv, GivenUp
  <2>. QED  BY <2>4, <2>5
<1>4. CASE RangeFails
  <2>1. pc = "try" /\ UNCHANGED <<script, lang, ranges>>
    BY <1>4 DEF RangeFails
  <2>2. \E why \in GivenUp : NextRange(why)
    <3>1. /\ "mask_breaks_compilation" \in GivenUp /\ "mask_ineffective" \in GivenUp
          /\ "mask_not_interop_code" \in GivenUp
      BY DEF GivenUp
    <3>. QED  BY <1>4, <3>1 DEF RangeFails
  <2>. QED  BY <1>0, <2>1, <2>2, NextRangeKeeps
<1>5. CASE RangeWorks
  <2>1. /\ pc = "try" /\ pc' = "done" /\ reason' \in {"task", "ground_truth_invalid"}
        /\ script' = script /\ lang' = lang /\ ranges' = ranges /\ i' = i
    BY <1>5 DEF RangeWorks, End
  <2>. QED  BY <1>0, <2>1 DEF MaskInv, GivenUp
<1>6. CASE UNCHANGED vars
  BY <1>0, <1>6 DEF vars, MaskInv
<1>. QED  BY <1>0, <1>2, <1>3, <1>4, <1>5, <1>6 DEF Next

(* The list of attempts stays in the file and has no range twice, and a    *)
(* reason of the last range is given at the last place.                    *)
THEOREM MaskInvariant == Spec => []MaskInv
<1>. QED  BY MaskInit, MaskNext, PTL DEF Spec

(* Every range that construct_task tries is a range of the file, for every *)
(* patch and every language.                                               *)
THEOREM MaskTyped == Spec => []TypeOK
<1>1. MaskInv => TypeOK
  <2> SUFFICES ASSUME MaskInv PROVE TypeOK
    OBVIOUS
  <2>1. \A n \in DOMAIN ranges : InFile(File(script), ranges[n])
    BY DEF MaskInv, AllInFile
  <2>2. \A n \in DOMAIN ranges :
           ranges[n][1] \in 1..ranges[n][2] /\ ranges[n][2] <= Len(File(script))
    BY <2>1 DEF InFile, Span
  <2>. QED  BY <2>2 DEF MaskInv, TypeOK
<1>. QED  BY <1>1, MaskInvariant, PTL

(* _parse_patch_ranges gives the lines that the change added, none more    *)
(* and none less, in ranges with a gap between any two.                    *)
THEOREM AddedLinesParsed == Spec => []RangesAreTheAddedLines
<1>1. MaskInv => RangesAreTheAddedLines
  <2> SUFFICES ASSUME MaskInv PROVE RangesAreTheAddedLines
    OBVIOUS
  <2> DEFINE rs == ParsePatchRanges(Patch(script))
  <2>1. script \in Seq(Entry)
    BY MaskTypes DEF MaskInv
  <2>2. rs \in Seq(Span) /\ Gapped(rs) /\ Cover(rs) = AddedUpTo(script, Len(script))
    BY <2>1, ParseFacts
  <2>3. AddedUpTo(script, Len(script)) = AddedLines(script)
    BY <2>1 DEF AddedUpTo, AddedLines
  <2> HIDE DEF rs
  <2>4. UNION {rs[n][1]..rs[n][2] : n \in DOMAIN rs} = AddedLines(script)
    BY <2>2, <2>3 DEF Cover
  <2>5. \A n \in 1..(Len(rs) - 1) : rs[n][2] + 1 < rs[n + 1][1]
    <3> SUFFICES ASSUME NEW n \in 1..(Len(rs) - 1) PROVE rs[n][2] + 1 < rs[n + 1][1]
      OBVIOUS
    <3>1. n \in DOMAIN rs /\ n + 1 \in DOMAIN rs /\ n < n + 1
      BY <2>2
    <3>. QED  BY <2>2, <3>1 DEF Gapped
  <2>. QED  BY <2>4, <2>5 DEF RangesAreTheAddedLines, rs
<1>. QED  BY <1>1, MaskInvariant, PTL

(* The three attempts at a seed hold it and never get narrower, by braces, *)
(* by indentation and by lines.                                            *)
THEOREM AttemptsGetWider == Spec => []AttemptsWiden
<1>1. MaskInv => AttemptsWiden
  <2> SUFFICES ASSUME MaskInv, NEW n \in DOMAIN Seeds(script)
               PROVE  LET try(k) == Expand(File(script), Seeds(script)[n], k) IN
                         /\ Inside(Seeds(script)[n], try(0)) /\ Inside(try(0), try(1))
                         /\ Inside(try(1), try(2))
    BY DEF AttemptsWiden
  <2>1. script \in Seq(Entry)
    BY MaskTypes DEF MaskInv
  <2>2. File(script) \in Seq(Line) /\ InFile(File(script), Seeds(script)[n])
    BY <2>1, FileIsLines, SeedsInFile DEF AllInFile
  <2>. QED  BY <2>2, ExpandFacts
<1>. QED  BY <1>1, MaskInvariant, PTL

(* No change is given up while a range is left to try: the list has no     *)
(* range twice, so the value of the last one tells its place.              *)
THEOREM NoRangeLeftOut == Spec => []EveryRangeTried
<1>1. MaskInv => EveryRangeTried
  BY DEF MaskInv, EveryRangeTried, GivenUp
<1>. QED  BY <1>1, MaskInvariant, PTL
----------------------------------------------------------------------------
LEMMA SubSeqFacts ==
  ASSUME NEW E, NEW v \in Seq(E), NEW to \in 0..Len(v), NEW from \in 1..(to + 1)
  PROVE  /\ SubSeq(v, from, to) \in Seq(E)
         /\ Len(SubSeq(v, from, to)) = (to - from) + 1
         /\ \A k \in 1..((to - from) + 1) : SubSeq(v, from, to)[k] = v[(from + k) - 1]
<1> DEFINE sub == SubSeq(v, from, to)
<1>1. to \in Nat /\ from \in Nat /\ from >= 1 /\ from <= to + 1 /\ to <= Len(v)
  OBVIOUS
<1>2. sub \in Seq(E)
  BY <1>1
<1>3. Len(sub) = IF from <= to THEN (to - from) + 1 ELSE 0
  BY <1>1
<1>4. \A k \in 1..((to - from) + 1) : sub[k] = v[(from + k) - 1]
  BY <1>1
<1> HIDE DEF sub
<1>5. Len(sub) = (to - from) + 1
  BY <1>1, <1>3
<1>. QED  BY <1>2, <1>4, <1>5 DEF sub

(* A sequence is what comes up to a place and what comes after it.         *)
LEMMA SplitAt ==
  ASSUME NEW E, NEW v \in Seq(E), NEW n \in 0..Len(v)
  PROVE  /\ SubSeq(v, 1, n) \in Seq(E) /\ SubSeq(v, n + 1, Len(v)) \in Seq(E)
         /\ Len(SubSeq(v, 1, n)) = n /\ Len(SubSeq(v, n + 1, Len(v))) = Len(v) - n
         /\ \A k \in 1..n : SubSeq(v, 1, n)[k] = v[k]
         /\ \A k \in 1..(Len(v) - n) : SubSeq(v, n + 1, Len(v))[k] = v[n + k]
         /\ v = SubSeq(v, 1, n) \o SubSeq(v, n + 1, Len(v))
<1> DEFINE a == SubSeq(v, 1, n)
           b == SubSeq(v, n + 1, Len(v))
           w == a \o b
<1>1. Len(v) \in Nat /\ n \in Nat /\ n <= Len(v) /\ DOMAIN v = 1..Len(v)
  OBVIOUS
<1>2. a \in Seq(E) /\ Len(a) = n /\ \A k \in 1..n : a[k] = v[k]
  <2>1. 1 \in 1..(n + 1) /\ (n - 1) + 1 = n /\ \A k \in 1..n : (1 + k) - 1 = k
    BY <1>1
  <2>2. a \in Seq(E) /\ Len(a) = (n - 1) + 1 /\ \A k \in 1..((n - 1) + 1) : a[k] = v[(1 + k) - 1]
    BY <2>1, SubSeqFacts
  <2> HIDE DEF a
  <2>. QED  BY <2>1, <2>2
<1>3. b \in Seq(E) /\ Len(b) = Len(v) - n /\ \A k \in 1..(Len(v) - n) : b[k] = v[n + k]
  <2> DEFINE L == Len(v)
             from == n + 1
  <2>1. /\ from \in 1..(L + 1) /\ L \in 0..L /\ (L - from) + 1 = L - n
        /\ \A k \in 1..(L - n) : (from + k) - 1 = n + k
    BY <1>1
  <2>2. b = SubSeq(v, from, L)
    OBVIOUS
  <2> HIDE DEF b, from
  <2>3. b \in Seq(E) /\ Len(b) = (L - from) + 1 /\ \A k \in 1..((L - from) + 1) : b[k] = v[(from + k) - 1]
    BY <2>1, <2>2, SubSeqFacts
  <2>. QED  BY <2>1, <2>3
<1> HIDE DEF a, b
<1>4. /\ w \in Seq(E) /\ Len(w) = n + (Len(v) - n)
      /\ \A k \in 1..Len(w) : w[k] = IF k <= n THEN a[k] ELSE b[k - n]
  <2>1. \A p, q \in Seq(E) :
           /\ p \o q \in Seq(E) /\ Len(p \o q) = Len(p) + Len(q)
           /\ \A k \in 1..Len(p \o q) : (p \o q)[k] = IF k <= Len(p) THEN p[k] ELSE q[k - Len(p)]
    OBVIOUS
  <2>. QED  BY <1>2, <1>3, <2>1
<1> HIDE DEF w
<1>5. Len(w) = Len(v)
  BY <1>1, <1>4
<1>6. ASSUME NEW k \in 1..Len(v) PROVE w[k] = v[k]
  <2>1. CASE k <= n
    BY <1>2, <1>4, <1>5, <2>1
  <2>2. CASE ~ k <= n
    <3>1. k - n \in 1..(Len(v) - n) /\ n + (k - n) = k
      BY <1>1, <2>2
    <3>. QED  BY <1>3, <1>4, <1>5, <2>2, <3>1
  <2>. QED  BY <2>1, <2>2
<1>7. w = v
  BY <1>4, <1>5, <1>6
<1>. QED  BY <1>2, <1>3, <1>7 DEF a, b, w

(* What is around an element of a sequence.                                *)
LEMMA AroundElement ==
  ASSUME NEW E, NEW a \in Seq(E), NEW x \in E, NEW b \in Seq(E),
         NEW one, one = <<x>>, NEW c, c = a \o one, NEW w, w = c \o b,
         NEW m, m = Len(a) + 1
  PROVE  /\ w \in Seq(E) /\ m \in DOMAIN w /\ w[m] = x
         /\ SubSeq(w, 1, m - 1) = a /\ SubSeq(w, m + 1, Len(w)) = b
         /\ Len(w) \in Nat /\ DOMAIN w = 1..Len(w) /\ m - 1 = Len(a)
         /\ \A k \in 1..(m - 1) : w[k] = a[k]
<1>1. one \in Seq(E) /\ Len(one) = 1 /\ one[1] = x
  OBVIOUS
<1>2. Len(a) \in Nat /\ Len(b) \in Nat /\ DOMAIN a = 1..Len(a) /\ DOMAIN b = 1..Len(b)
  OBVIOUS
<1>3. c \in Seq(E) /\ Len(c) = Len(a) + 1 /\ c[m] = x /\ \A k \in 1..Len(a) : c[k] = a[k]
  <2>1. \A p, q \in Seq(E) :
           /\ p \o q \in Seq(E) /\ Len(p \o q) = Len(p) + Len(q)
           /\ \A k \in 1..Len(p) : (p \o q)[k] = p[k]
           /\ \A k \in 1..Len(q) : (p \o q)[Len(p) + k] = q[k]
    OBVIOUS
  <2>2. c \in Seq(E) /\ Len(c) = Len(a) + Len(one) /\ \A k \in 1..Len(a) : c[k] = a[k]
    BY <1>1, <2>1
  <2>3. c[Len(a) + 1] = one[1]
    BY <1>1, <2>1
  <2>. QED  BY <1>1, <2>2, <2>3
<1>4. /\ w \in Seq(E) /\ Len(w) = m + Len(b) /\ DOMAIN w = 1..(m + Len(b))
      /\ \A k \in 1..m : w[k] = c[k]
      /\ \A k \in 1..Len(b) : w[m + k] = b[k]
  BY <1>2, <1>3
<1>5. m \in 1..m /\ m \in DOMAIN w /\ w[m] = x
  BY <1>2, <1>3, <1>4
<1>6. m - 1 \in 0..Len(w) /\ m \in 0..Len(w) /\ m - 1 = Len(a) /\ Len(w) - m = Len(b)
  BY <1>2, <1>4
<1> DEFINE front == SubSeq(w, 1, m - 1)
           back  == SubSeq(w, m + 1, Len(w))
<1>7. /\ front \in Seq(E) /\ Len(front) = Len(a) /\ \A k \in 1..Len(a) : front[k] = w[k]
      /\ back \in Seq(E) /\ Len(back) = Len(b) /\ \A k \in 1..Len(b) : back[k] = w[m + k]
  BY <1>4, <1>6, SplitAt
<1> HIDE DEF front, back
<1>8. front = a
  <2>1. \A k \in 1..Len(a) : k \in 1..m /\ front[k] = a[k]
    BY <1>2, <1>3, <1>4, <1>7
  <2>2. a \in Seq(E)
    OBVIOUS
  <2>. QED  BY ONLY <1>7, <2>1, <2>2
<1>9. back = b
  <2>1. \A k \in 1..Len(b) : back[k] = b[k]
    BY <1>4, <1>7
  <2>2. b \in Seq(E)
    OBVIOUS
  <2>. QED  BY ONLY <1>7, <2>1, <2>2
<1>10. \A k \in 1..(m - 1) : w[k] = a[k]
  <2>1. \A k \in 1..Len(a) : k \in 1..m
    BY <1>2
  <2>. QED  BY <1>2, <1>3, <1>4, <2>1
<1>. QED  BY <1>2, <1>4, <1>5, <1>6, <1>8, <1>9, <1>10 DEF front, back

LEMMA CodeOfIsFold ==
  ASSUME NEW file
  PROVE  CodeOf(file) = Coding!Fold(0, <<>>, file)
BY DEF CodeOf, FoldLeft, MapThenFoldSet, Max, Coding!Fold, Coding!IsFold, Coding!Largest, CodeOp

(* Blank lines in the middle of a file do not change its code.             *)
LEMMA BlankLinesFall ==
  ASSUME NEW a \in Seq(Line), NEW rest \in Seq(Line), NEW b \in Seq(Line),
         \A k \in DOMAIN rest : rest[k].code = Blank
  PROVE  CodeOf((a \o rest) \o b) = CodeOf(a \o b)
<1> DEFINE code == Coding!Fold(0, <<>>, a)
           ar == a \o rest
<1>1. Coding!Fold(0, code, rest) = code
  <2>1. DOMAIN rest = 1..Len(rest) /\ Len(rest) \in Nat
    OBVIOUS
  <2> HIDE DEF code
  <2>2. CodeInv(code, 0, code)
    BY DEF CodeInv
  <2>3. \A k \in 1..Len(rest) : \A v :
           CodeInv(code, k - 1, v) => CodeInv(code, k, CodeOp(0, v, rest[k]))
    BY <2>1 DEF CodeInv, CodeOp
  <2>4. CodeInv(code, Len(rest), Coding!Fold(0, code, rest))
    BY ONLY <2>1, <2>2, <2>3, Coding!FoldInduction
  <2>. QED  BY <2>4 DEF CodeInv
<1>2. ar \in Seq(Line)
  OBVIOUS
<1>3. Coding!Fold(0, <<>>, a \o rest) = Coding!Fold(0, code, rest)
  BY Coding!FoldOfConcatenation
<1> HIDE DEF ar
<1>4. Coding!Fold(0, <<>>, ar \o b) = Coding!Fold(0, Coding!Fold(0, <<>>, ar), b)
  BY <1>2, Coding!FoldOfConcatenation
<1>5. Coding!Fold(0, <<>>, a \o b) = Coding!Fold(0, code, b)
  BY Coding!FoldOfConcatenation
<1> HIDE DEF code
<1>6. Coding!Fold(0, <<>>, ar \o b) = Coding!Fold(0, <<>>, a \o b)
  BY <1>1, <1>3, <1>4, <1>5 DEF ar
<1>. QED  BY <1>6, CodeOfIsFold DEF ar

(* strip() of lines that begin with code: the blank lines at the end go,   *)
(* and the indentation of the first line.                                  *)
LEMMA StripFacts ==
  ASSUME NEW text \in Seq(Line), text # <<>>, text[1].code # Blank
  PROVE  \E n \in 1..Len(text) :
            /\ Strip(text) = [SubSeq(text, 1, n) EXCEPT ![1].indent = 0]
            /\ \A k \in (n + 1)..Len(text) : text[k].code = Blank
<1> DEFINE full == {k \in DOMAIN text : text[k].code # Blank}
           n == Max(full)
<1>1. Len(text) \in Nat /\ DOMAIN text = 1..Len(text) /\ 1 \in DOMAIN text
  OBVIOUS
<1>2. full \subseteq 1..Len(text) /\ 1 \in full
  BY <1>1
<1>3. Strip(text) = [SubSeq(text, Min(full), Max(full)) EXCEPT ![1].indent = 0]
  BY <1>2 DEF Strip
<1>4. \A k \in 1..Len(text) : k \notin full => text[k].code = Blank
  BY <1>1
<1> HIDE DEF full
<1>5. n \in full /\ Min(full) \in full /\ \A y \in full : Min(full) <= y /\ n >= y
  BY <1>1, <1>2, GreatestAndLeast
<1> HIDE DEF n
<1>6. n \in 1..Len(text) /\ Min(full) = 1
  <2> DEFINE low == Min(full)
  <2>1. low \in 1..Len(text) /\ low <= 1
    BY <1>2, <1>5
  <2> HIDE DEF low
  <2>2. low = 1
    BY <2>1
  <2>. QED  BY <1>2, <1>5, <2>2 DEF low
<1>7. ASSUME NEW k \in (n + 1)..Len(text) PROVE text[k].code = Blank
  <2>1. k \in 1..Len(text) /\ ~ n >= k
    BY <1>1, <1>6
  <2>. QED  BY <1>4, <1>5, <2>1
<1>. QED  BY <1>3, <1>6, <1>7 DEF n

(* build_full_source: an answer without the indentation of its first line  *)
(* gets it back from the mask, and takes the place of the mask.            *)
LEMMA InsertFacts ==
  ASSUME NEW a \in Seq(Line), NEW b \in Seq(Line), NEW kept \in Seq(Line), kept # <<>>,
         NEW x \in [code : {MaskWord}, indent : Nat], x.indent = kept[1].indent,
         NEW one, one = <<x>>, \A k \in DOMAIN a : a[k].code # MaskWord
  PROVE  Insert(Glued(a, one, b), Unindented(kept)) = Glued(a, kept, b)
<1> DEFINE c == a \o one
           masked == c \o b
           bare == Unindented(kept)
           E == [code : Codes \union {MaskWord}, indent : Nat]
           m == Len(a) + 1
           back == [bare EXCEPT ![1].indent = @ + x.indent]
<1>1. Line \subseteq E
  BY DEF Line
<1>2. kept[1] \in Line /\ kept[1].indent \in Nat /\ Len(kept) \in Nat /\ 1 \in DOMAIN kept
      /\ DOMAIN kept = 1..Len(kept)
  <2>1. kept[1] \in Line /\ Len(kept) \in Nat /\ 1 \in DOMAIN kept /\ DOMAIN kept = 1..Len(kept)
    OBVIOUS
  <2>. QED  BY <2>1 DEF Line
<1>3. x \in E /\ x.code = MaskWord /\ x.indent = kept[1].indent
  BY <1>2
<1>4. a \in Seq(E) /\ b \in Seq(E)
  <2> HIDE DEF E
  <2>. QED  BY <1>1
<1>5. back = kept /\ bare # <<>>
  <2> DEFINE d == kept[1].indent
             f == [kept[1] EXCEPT !.indent = 0]
             g == [f EXCEPT !.indent = 0 + d]
  <2>1. kept[1] \in [code : Codes, indent : Nat] /\ d \in Nat
    BY <1>2 DEF Line
  <2>2. f = [code |-> kept[1].code, indent |-> 0] /\ g = kept[1]
    <3> DEFINE z == kept[1]
    <3>1. z \in [code : Codes, indent : Nat] /\ 0 + z.indent = z.indent /\ z.indent = d
      BY <2>1
    <3> HIDE DEF z, d
    <3>2. [z EXCEPT !.indent = 0] = [code |-> z.code, indent |-> 0]
      BY ONLY <3>1
    <3>3. [[code |-> z.code, indent |-> 0] EXCEPT !.indent = 0 + d] = z
      BY <3>1
    <3>. QED  BY <3>2, <3>3 DEF z
  <2>3. bare = [kept EXCEPT ![1] = f]
    BY DEF Unindented, bare
  <2> HIDE DEF f, g
  <2>4. kept \in [1..Len(kept) -> Line]
    BY <1>2
  <2>5. bare[1] = f /\ bare[1].indent = 0 /\ DOMAIN bare = 1..Len(kept)
        /\ \A k \in 1..Len(kept) : k # 1 => bare[k] = kept[k]
    BY <1>2, <2>2, <2>3, <2>4
  <2>6. back = [bare EXCEPT ![1] = [bare[1] EXCEPT !.indent = bare[1].indent + d]]
    BY <1>3
  <2>7. [bare[1] EXCEPT !.indent = bare[1].indent + d] = g
    BY <2>5 DEF g
  <2>8. back = [bare EXCEPT ![1] = kept[1]]
    BY <2>2, <2>6, <2>7
  <2>9. bare = [k \in 1..Len(kept) |-> bare[k]]
    BY <2>3, <2>4
  <2> HIDE DEF back
  <2>10. DOMAIN back = 1..Len(kept) /\ \A k \in 1..Len(kept) : back[k] = kept[k]
    BY <1>2, <2>5, <2>8
  <2>11. back = [k \in 1..Len(kept) |-> back[k]]
    BY <2>5, <2>8
  <2>12. back = kept
    BY <2>4, <2>10, <2>11
  <2>13. bare # <<>>
    BY <1>2, <2>5
  <2>. QED  BY <2>12, <2>13 DEF back
<1> HIDE DEF E, bare
<1>6. /\ masked \in Seq(E) /\ m \in DOMAIN masked /\ masked[m] = x
      /\ SubSeq(masked, 1, m - 1) = a /\ SubSeq(masked, m + 1, Len(masked)) = b
      /\ Len(masked) \in Nat /\ DOMAIN masked = 1..Len(masked) /\ m - 1 = Len(a)
      /\ \A k \in 1..(m - 1) : masked[k] = a[k]
  <2>1. x \in E
    BY <1>3
  <2>2. one = <<x>> /\ c = a \o one /\ masked = c \o b /\ m = Len(a) + 1
    OBVIOUS
  <2> HIDE DEF m, c, masked
  <2>3. masked \in Seq(E) /\ m \in DOMAIN masked /\ masked[m] = x
    BY ONLY <1>4, <2>1, <2>2, AroundElement
  <2>4. SubSeq(masked, 1, m - 1) = a
    BY ONLY <1>4, <2>1, <2>2, AroundElement
  <2>5. SubSeq(masked, m + 1, Len(masked)) = b
    BY ONLY <1>4, <2>1, <2>2, AroundElement
  <2>6. Len(masked) \in Nat /\ DOMAIN masked = 1..Len(masked) /\ m - 1 = Len(a)
    BY ONLY <1>4, <2>1, <2>2, AroundElement
  <2>7. \A k \in 1..(m - 1) : masked[k] = a[k]
    BY ONLY <1>4, <2>1, <2>2, AroundElement
  <2>. QED  BY <2>3, <2>4, <2>5, <2>6, <2>7
<1>7. DOMAIN a = 1..Len(a) /\ Len(a) \in Nat /\ m \in Nat
  OBVIOUS
<1> HIDE DEF m, masked
<1>8. Min({k \in DOMAIN masked : masked[k].code = MaskWord}) = m
  <2> DEFINE places == {k \in DOMAIN masked : masked[k].code = MaskWord}
             first  == Min(places)
  <2>1. places \subseteq 1..Len(masked) /\ m \in places
    BY <1>3, <1>6
  <2>2. \A k \in 1..(m - 1) : k \notin places
    BY <1>6, <1>7
  <2> HIDE DEF places
  <2>3. first \in places /\ first <= m
    BY <1>6, <2>1, GreatestAndLeast
  <2> HIDE DEF first
  <2>4. first = m
    BY <1>7, <2>1, <2>2, <2>3
  <2>. QED  BY <2>4 DEF first, places
<1>9. Insert(masked, bare) = ReplaceLines(masked, <<m, m>>, back)
  BY <1>5, <1>6, <1>8 DEF Insert
<1> HIDE DEF back
<1>10. ReplaceLines(masked, <<m, m>>, kept) = Glued(a, kept, b)
  BY <1>6 DEF ReplaceLines, Glued
<1>. QED  BY <1>5, <1>9, <1>10 DEF masked, c, bare, Glued

(* The true lines put where the mask is give back the code of the file.    *)
LEMMA TruthRestores ==
  ASSUME NEW file \in Seq(Line), NEW r, InFile(file, r), file[r[1]].code # Blank,
         \A k \in 1..(r[1] - 1) : file[k].code # MaskWord
  PROVE  CodeOf(Insert(Masked(file, r), Strip(Truth(file, r)))) = CodeOf(file)
<1> DEFINE p    == r[1]
           q    == r[2]
           a    == SubSeq(file, 1, p - 1)
           text == SubSeq(file, p, q)
           b    == SubSeq(file, q + 1, Len(file))
           x    == MaskLine(file, r)
<1>1. Len(file) \in Nat /\ p \in Nat /\ q \in Nat /\ 1 <= p /\ p <= q /\ q <= Len(file)
  BY DEF InFile, Span
<1>0. \A k \in 1..(p - 1) : file[k].code # MaskWord
  OBVIOUS
<1>2. Masked(file, r) = a \o <<x>> \o b /\ Truth(file, r) = text /\ file[p].code # Blank
      /\ x = [code |-> MaskWord, indent |-> file[p].indent]
  BY DEF Masked, ReplaceLines, Truth, MaskLine
<1> HIDE DEF p, q, x
<1>3. a \in Seq(Line) /\ Len(a) = p - 1 /\ \A k \in 1..(p - 1) : a[k] = file[k]
  <2> DEFINE n == p - 1
  <2>1. n \in 0..Len(file)
    BY <1>1
  <2> HIDE DEF n
  <2>2. LET s == SubSeq(file, 1, n) IN s \in Seq(Line) /\ Len(s) = n /\ \A k \in 1..n : s[k] = file[k]
    BY <2>1, SplitAt
  <2>. QED  BY <2>2 DEF n
<1>4. text \in Seq(Line) /\ Len(text) = (q - p) + 1
      /\ \A k \in 1..((q - p) + 1) : text[k] = file[(p + k) - 1]
  <2>1. q \in 0..Len(file) /\ p \in 1..(q + 1)
    BY <1>1
  <2>. QED  BY <2>1, SubSeqFacts
<1> DEFINE upto == SubSeq(file, 1, q)
<1>5. /\ b \in Seq(Line) /\ file = upto \o b /\ upto \in Seq(Line) /\ Len(upto) = q
      /\ \A k \in 1..q : upto[k] = file[k]
  <2>1. q \in 0..Len(file)
    BY <1>1
  <2>. QED  BY <2>1, SplitAt
<1> HIDE DEF a, b, text, upto
<1>6. upto = a \o text
  <2> DEFINE w == a \o text
  <2>1. \A u, v \in Seq(Line) :
           /\ u \o v \in Seq(Line) /\ Len(u \o v) = Len(u) + Len(v)
           /\ \A k \in 1..Len(u) : (u \o v)[k] = u[k]
           /\ \A k \in 1..Len(v) : (u \o v)[Len(u) + k] = v[k]
    OBVIOUS
  <2>2. /\ w \in Seq(Line) /\ Len(w) = (p - 1) + ((q - p) + 1)
        /\ \A k \in 1..(p - 1) : w[k] = file[k]
        /\ \A k \in 1..((q - p) + 1) : w[(p - 1) + k] = file[(p + k) - 1]
    <3>1. a \in Seq(Line) /\ text \in Seq(Line)
      BY <1>3, <1>4
    <3>2. /\ w \in Seq(Line) /\ Len(w) = Len(a) + Len(text)
          /\ \A k \in 1..Len(a) : w[k] = a[k]
          /\ \A k \in 1..Len(text) : w[Len(a) + k] = text[k]
      BY ONLY <2>1, <3>1
    <3> HIDE DEF w
    <3>. QED  BY <1>3, <1>4, <3>2
  <2> HIDE DEF w
  <2>3. Len(w) = q
    BY <1>1, <2>2
  <2>4. ASSUME NEW k \in 1..q PROVE w[k] = upto[k]
    <3>1. CASE k < p
      <4>1. k \in 1..(p - 1)
        BY <1>1, <3>1
      <4>. QED  BY <1>5, <2>2, <4>1
    <3>2. CASE ~ k < p
      <4> DEFINE j == (k - p) + 1
      <4>1. j \in 1..((q - p) + 1) /\ (p - 1) + j = k /\ (p + j) - 1 = k
        BY <1>1, <3>2
      <4> HIDE DEF j
      <4>. QED  BY <1>5, <2>2, <4>1
    <3>. QED  BY <3>1, <3>2
  <2>5. w = upto
    BY <1>5, <2>2, <2>3, <2>4
  <2>. QED  BY <2>5 DEF w
<1>7. text # <<>> /\ text[1] = file[p] /\ text[1].code # Blank
  <2>1. Len(text) >= 1 /\ 1 \in 1..((q - p) + 1) /\ (p + 1) - 1 = p
    BY <1>1, <1>4
  <2>. QED  BY <1>2, <1>4, <2>1
<1>8. PICK n \in 1..Len(text) :
         /\ Strip(text) = [SubSeq(text, 1, n) EXCEPT ![1].indent = 0]
         /\ \A k \in (n + 1)..Len(text) : text[k].code = Blank
  BY <1>4, <1>7, StripFacts
<1> DEFINE kept == SubSeq(text, 1, n)
           rest == SubSeq(text, n + 1, Len(text))
<1>9. /\ kept \in Seq(Line) /\ rest \in Seq(Line) /\ text = kept \o rest
      /\ Len(kept) = n /\ kept[1] = text[1]
      /\ \A k \in DOMAIN rest : rest[k].code = Blank
  <2>1. n \in 0..Len(text) /\ Len(text) \in Nat /\ 1 \in 1..n
    BY <1>4
  <2>2. /\ kept \in Seq(Line) /\ rest \in Seq(Line) /\ text = kept \o rest
        /\ Len(kept) = n /\ Len(rest) = Len(text) - n
        /\ \A k \in 1..n : kept[k] = text[k]
        /\ \A k \in 1..(Len(text) - n) : rest[k] = text[n + k]
    BY <1>4, <2>1, SplitAt
  <2> HIDE DEF kept, rest
  <2>3. ASSUME NEW k \in DOMAIN rest PROVE rest[k].code = Blank
    <3>1. k \in 1..(Len(text) - n)
      BY <2>2
    <3>2. n + k \in (n + 1)..Len(text)
      BY <2>1, <3>1
    <3>. QED  BY <1>8, <2>2, <3>1, <3>2
  <2>. QED  BY <2>1, <2>2, <2>3
<1>10. Strip(text) = Unindented(kept)
  BY <1>8 DEF Unindented
<1> HIDE DEF kept, rest
<1>11. kept # <<>>
  BY <1>9
<1>12. x = [code |-> MaskWord, indent |-> kept[1].indent]
  BY <1>2, <1>7, <1>9
<1>13. Insert(a \o <<x>> \o b, Unindented(kept)) = a \o kept \o b
  <2>1. a \in Seq(Line) /\ b \in Seq(Line) /\ kept \in Seq(Line)
    BY <1>3, <1>5, <1>9
  <2>2. x \in [code : {MaskWord}, indent : Nat] /\ x.indent = kept[1].indent
    <3>1. kept[1] \in Line
      BY <2>1, <1>11
    <3>. QED  BY <1>12, <3>1 DEF Line
  <2> DEFINE one == <<x>>
  <2>3. one = <<x>>
    OBVIOUS
  <2> HIDE DEF one
  <2>4. \A k \in DOMAIN a : a[k].code # MaskWord
    <3>1. DOMAIN a = 1..(p - 1)
      BY <1>3
    <3>. QED  BY <1>0, <1>3, <3>1
  <2>5. Insert(Glued(a, one, b), Unindented(kept)) = Glued(a, kept, b)
    BY ONLY <1>11, <2>1, <2>2, <2>3, <2>4, InsertFacts
  <2>. QED  BY <2>5 DEF Glued, one
<1> DEFINE front == a \o kept
<1>14. front \in Seq(Line) /\ a \o text = front \o rest
  <2>1. \A u, v, w \in Seq(Line) : u \o v \in Seq(Line) /\ u \o (v \o w) = (u \o v) \o w
    OBVIOUS
  <2>. QED  BY <1>3, <1>9, <2>1
<1> HIDE DEF front
<1>15. CodeOf((front \o rest) \o b) = CodeOf(front \o b)
  BY <1>5, <1>9, <1>14, BlankLinesFall
<1>16. file = (front \o rest) \o b
  BY <1>5, <1>6, <1>14
<1>17. a \o kept \o b = front \o b
  BY DEF front
<1>. QED  BY <1>2, <1>10, <1>13, <1>15, <1>16, <1>17

(* The ground truth of a task, handed in the way an answer is, gives back  *)
(* the original file, blank lines aside, if its range begins with code and *)
(* the file does not say <MASK> before it.                                 *)
THEOREM TaskCanBeSolved == Spec => []TruthRestoresFromCode
<1>1. MaskInv => TruthRestoresFromCode
  <2> SUFFICES ASSUME MaskInv, reason = "task", File(script)[ranges[i][1]].code # Blank,
                      FirstMask(ranges[i])
               PROVE  Restores(ranges[i])
    BY DEF TruthRestoresFromCode
  <2>1. File(script) \in Seq(Line)
    BY MaskTypes, FileIsLines DEF MaskInv
  <2>2. InFile(File(script), ranges[i])
    BY DEF MaskInv, AllInFile
  <2>. QED  BY <2>1, <2>2, TruthRestores DEF Restores, FirstMask
<1>. QED  BY <1>1, MaskInvariant, PTL
=============================================================================
