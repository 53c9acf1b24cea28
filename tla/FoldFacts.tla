------------------------------ MODULE FoldFacts ------------------------------
(***************************************************************************)
(* Induction over the elements of a sequence, for a fold with a given      *)
(* operation.  Fold is FoldLeft of SequencesExt with its definitions       *)
(* expanded.  A theorem about a fold instantiates this module with the     *)
(* operation and the invariant: no prover has to find an operator.         *)
(***************************************************************************)
EXTENDS Integers, Sequences, WellFoundedInduction, TLAPS

CONSTANTS
    Op(_, _, _),     \* Op(c, v, e): from the value v by the element e, where
                     \* c is what does not change
    Inv(_, _, _)     \* Inv(p, k, v): v may be the value after k elements

Largest(S) == CHOOSE x \in S : \A y \in S : x >= y
IsFold(c, b, seq, domain, fold) ==
    fold = [s \in SUBSET domain |->
               IF s = {} THEN b
               ELSE Op(c, fold[s \ {Largest(s)}], seq[Largest(s)])]
Fold(c, b, seq) ==
    (CHOOSE fold : IsFold(c, b, seq, DOMAIN seq, fold))[DOMAIN seq]

\* FlattenSeq for a sequence that is not empty.
IsFlatten(seqs, n, flatten) ==
    flatten = [i \in 1..n |-> IF i = 1 THEN seqs[i] ELSE flatten[i - 1] \o seqs[i]]
Flatten(seqs) == (CHOOSE flatten : IsFlatten(seqs, Len(seqs), flatten))[Len(seqs)]
----------------------------------------------------------------------------
LEMMA Least ==
  ASSUME NEW T, T \subseteq Nat, T # {}
  PROVE  \E x \in T : \A y \in T : x <= y
<1>1. PICK x \in T : \A y \in T : ~ (<<y, x>> \in OpToRel(<, Nat))
  BY NatLessThanWellFounded, WFMin
<1>2. ASSUME NEW y \in T PROVE x <= y
  <2>1. x \in Nat /\ y \in Nat
    OBVIOUS
  <2>2. ~ (y < x)
    BY <1>1, <2>1 DEF OpToRel
  <2>. QED  BY <2>1, <2>2
<1>. QED  BY <1>2

LEMMA LargestOfInitial ==
  ASSUME NEW k \in Nat \ {0}
  PROVE  /\ Largest(1..k) = k
         /\ (1..k) \ {k} = 1..(k - 1)
         /\ 1..k # {}
<1>1. k \in 1..k /\ \A y \in 1..k : k >= y
  OBVIOUS
<1>2. \A x \in 1..k : (\A y \in 1..k : x >= y) => x = k
  BY <1>1
<1>3. Largest(1..k) = k
  BY <1>1, <1>2 DEF Largest
<1>. QED  BY <1>1, <1>3

LEMMA LargestElement ==
  ASSUME NEW k \in Nat, NEW s, s \subseteq 1..(k + 1), k + 1 \in s
  PROVE  Largest(s) = k + 1 /\ s \ {Largest(s)} \subseteq 1..k
<1>1. \A y \in s : k + 1 >= y
  OBVIOUS
<1>2. \A x \in s : (\A y \in s : x >= y) => x = k + 1
  OBVIOUS
<1>3. Largest(s) = k + 1
  BY <1>1, <1>2 DEF Largest
<1>. QED  BY <1>3

(* The recursion is one: there is a function that satisfies it.            *)
LEMMA FoldExists ==
  ASSUME NEW c, NEW b, NEW seq, NEW n \in Nat
  PROVE  \E fold : IsFold(c, b, seq, 1..n, fold)
<1> DEFINE Without == {k \in Nat : ~ \E fold : IsFold(c, b, seq, 1..k, fold)}
<1>1. IsFold(c, b, seq, 1..0, [s \in SUBSET (1..0) |-> b])
  <2>1. \A s \in SUBSET (1..0) : s = {}
    OBVIOUS
  <2>. QED  BY <2>1 DEF IsFold
<1>2. ASSUME NEW k \in Nat, NEW f, IsFold(c, b, seq, 1..k, f)
      PROVE  \E fold : IsFold(c, b, seq, 1..(k + 1), fold)
  <2> DEFINE g == [s \in SUBSET (1..(k + 1)) |->
                     IF k + 1 \in s
                     THEN Op(c, f[s \ {Largest(s)}], seq[Largest(s)])
                     ELSE f[s]]
  <2>1. ASSUME NEW s \in SUBSET (1..(k + 1))
        PROVE  g[s] = IF s = {} THEN b
                      ELSE Op(c, g[s \ {Largest(s)}], seq[Largest(s)])
    <3>1. CASE k + 1 \in s
      <4>1. Largest(s) = k + 1 /\ s \ {Largest(s)} \in SUBSET (1..k)
        BY <3>1, LargestElement
      <4>2. s \ {Largest(s)} \in SUBSET (1..(k + 1)) /\ k + 1 \notin s \ {Largest(s)}
        BY <4>1
      <4>3. g[s \ {Largest(s)}] = f[s \ {Largest(s)}]
        BY <4>2
      <4>4. g[s] = Op(c, f[s \ {Largest(s)}], seq[Largest(s)])
        BY <3>1
      <4>. QED  BY <3>1, <4>3, <4>4
    <3>2. CASE k + 1 \notin s
      <4>1. s \in SUBSET (1..k)
        BY <3>2
      <4>2. s \ {Largest(s)} \in SUBSET (1..(k + 1)) /\ k + 1 \notin s \ {Largest(s)}
        BY <3>2, <4>1
      <4>3. g[s \ {Largest(s)}] = f[s \ {Largest(s)}] /\ g[s] = f[s]
        BY <3>2, <4>2
      <4>4. f[s] = IF s = {} THEN b ELSE Op(c, f[s \ {Largest(s)}], seq[Largest(s)])
        BY <1>2, <4>1 DEF IsFold
      <4>. QED  BY <4>3, <4>4
    <3>. QED  BY <3>1, <3>2
  <2>2. IsFold(c, b, seq, 1..(k + 1), g)
    BY <2>1 DEF IsFold
  <2>. QED  BY <2>2
<1>3. Without = {}
  <2> SUFFICES ASSUME Without # {} PROVE FALSE
    OBVIOUS
  <2>1. PICK k \in Without : \A j \in Without : k <= j
    BY Least
  <2>2. k # 0 /\ k \in Nat
    BY <1>1, <2>1
  <2>3. k - 1 \in Nat /\ k - 1 \notin Without
    BY <2>1, <2>2
  <2>4. \E fold : IsFold(c, b, seq, 1..((k - 1) + 1), fold)
    BY <1>2, <2>3
  <2>5. (k - 1) + 1 = k
    BY <2>2
  <2>. QED  BY <2>1, <2>4, <2>5
<1>. QED  BY <1>3

(* A property of the value before the first element that every element     *)
(* takes over holds of the value after the last.                           *)
THEOREM FoldInduction ==
  ASSUME NEW c, NEW p, NEW b, NEW n \in Nat, NEW seq, DOMAIN seq = 1..n,
         Inv(p, 0, b),
         \A k \in 1..n : \A v : Inv(p, k - 1, v) => Inv(p, k, Op(c, v, seq[k]))
  PROVE  Inv(p, n, Fold(c, b, seq))
<1> DEFINE it  == CHOOSE fold : IsFold(c, b, seq, 1..n, fold)
           Bad == {k \in Nat : k <= n /\ ~ Inv(p, k, it[1..k])}
<1>1. IsFold(c, b, seq, 1..n, it)
  BY FoldExists
<1>2. \A s \in SUBSET (1..n) :
         it[s] = IF s = {} THEN b ELSE Op(c, it[s \ {Largest(s)}], seq[Largest(s)])
  BY <1>1 DEF IsFold
<1>3. Fold(c, b, seq) = it[1..n]
  BY DEF Fold
<1> HIDE DEF it
<1>4. it[1..0] = b
  <2>1. 1..0 = {} /\ 1..0 \in SUBSET (1..n)
    OBVIOUS
  <2>. QED  BY <1>2, <2>1
<1>5. ASSUME NEW k \in Nat, k + 1 <= n PROVE it[1..(k + 1)] = Op(c, it[1..k], seq[k + 1])
  <2>1. Largest(1..(k + 1)) = k + 1 /\ (1..(k + 1)) \ {k + 1} = 1..k /\ 1..(k + 1) # {}
    <3>1. k + 1 \in Nat \ {0} /\ (k + 1) - 1 = k
      OBVIOUS
    <3>. QED  BY <3>1, LargestOfInitial
  <2>2. 1..(k + 1) \in SUBSET (1..n)
    BY <1>5
  <2>. QED  BY <1>2, <2>1, <2>2
<1>6. Bad = {}
  <2> SUFFICES ASSUME Bad # {} PROVE FALSE
    OBVIOUS
  <2>1. PICK k \in Bad : \A j \in Bad : k <= j
    BY Least
  <2>2. k # 0 /\ k \in Nat /\ k <= n
    BY <1>4, <2>1
  <2>3. k - 1 \in Nat /\ k - 1 \notin Bad /\ k \in 1..n /\ (k - 1) + 1 = k
    BY <2>1, <2>2
  <2>4. Inv(p, k - 1, it[1..(k - 1)])
    BY <2>2, <2>3
  <2>5. Inv(p, k, Op(c, it[1..(k - 1)], seq[k]))
    BY <2>3, <2>4
  <2>6. it[1..k] = Op(c, it[1..(k - 1)], seq[k])
    BY <1>5, <2>2, <2>3
  <2>. QED  BY <2>1, <2>5, <2>6
<1>7. Inv(p, n, it[1..n])
  BY <1>6
<1>. QED  BY <1>3, <1>7

LEMMA FlattenExists ==
  ASSUME NEW seqs, NEW n \in Nat
  PROVE  \E flatten : IsFlatten(seqs, n, flatten)
<1> DEFINE Without == {k \in Nat : ~ \E flatten : IsFlatten(seqs, k, flatten)}
<1>1. IsFlatten(seqs, 0, [i \in 1..0 |-> seqs[i]])
  BY DEF IsFlatten
<1>2. ASSUME NEW k \in Nat, NEW f, IsFlatten(seqs, k, f)
      PROVE  \E flatten : IsFlatten(seqs, k + 1, flatten)
  <2> DEFINE g == [i \in 1..(k + 1) |->
                     IF i = k + 1
                     THEN IF k = 0 THEN seqs[1] ELSE f[k] \o seqs[k + 1]
                     ELSE f[i]]
  <2>1. ASSUME NEW i \in 1..(k + 1)
        PROVE  g[i] = IF i = 1 THEN seqs[i] ELSE g[i - 1] \o seqs[i]
    <3>1. CASE i = k + 1 /\ k = 0
      BY <3>1
    <3>2. CASE i = k + 1 /\ k # 0
      <4>1. i # 1 /\ i - 1 = k /\ k \in 1..(k + 1) /\ k # k + 1
        BY <3>2
      <4>2. g[i - 1] = f[k] /\ g[i] = f[k] \o seqs[i]
        BY <3>2, <4>1
      <4>. QED  BY <4>1, <4>2
    <3>3. CASE i # k + 1
      <4>1. i \in 1..k /\ g[i] = f[i]
        BY <3>3
      <4>2. f[i] = IF i = 1 THEN seqs[i] ELSE f[i - 1] \o seqs[i]
        BY <1>2, <4>1 DEF IsFlatten
      <4>3. i # 1 => g[i - 1] = f[i - 1]
        BY <4>1
      <4>. QED  BY <4>1, <4>2, <4>3
    <3>. QED  BY <3>1, <3>2, <3>3
  <2>2. IsFlatten(seqs, k + 1, g)
    BY <2>1 DEF IsFlatten
  <2>. QED  BY <2>2
<1>3. Without = {}
  <2> SUFFICES ASSUME Without # {} PROVE FALSE
    OBVIOUS
  <2>1. PICK k \in Without : \A j \in Without : k <= j
    BY Least
  <2>2. k # 0 /\ k \in Nat
    BY <1>1, <2>1
  <2>3. k - 1 \in Nat /\ k - 1 \notin Without
    BY <2>1, <2>2
  <2>4. \E flatten : IsFlatten(seqs, (k - 1) + 1, flatten)
    BY <1>2, <2>3
  <2>5. (k - 1) + 1 = k
    BY <2>2
  <2>. QED  BY <2>1, <2>4, <2>5
<1>. QED  BY <1>3

(* The same for the concatenation of sequences, from the first of them on. *)
THEOREM FlattenInduction ==
  ASSUME NEW p, NEW seqs, Len(seqs) \in Nat \ {0},
         Inv(p, 1, seqs[1]),
         \A k \in 2..Len(seqs) : \A v : Inv(p, k - 1, v) => Inv(p, k, v \o seqs[k])
  PROVE  Inv(p, Len(seqs), Flatten(seqs))
<1> DEFINE n   == Len(seqs)
           it  == CHOOSE flatten : IsFlatten(seqs, n, flatten)
           Bad == {k \in Nat : k >= 1 /\ k <= n /\ ~ Inv(p, k, it[k])}
<1>1. IsFlatten(seqs, n, it)
  BY FlattenExists
<1>2. \A k \in 1..n : it[k] = IF k = 1 THEN seqs[k] ELSE it[k - 1] \o seqs[k]
  BY <1>1 DEF IsFlatten
<1>3. Flatten(seqs) = it[n]
  BY DEF Flatten
<1>4. n \in Nat \ {0}
  OBVIOUS
<1> HIDE DEF it
<1>5. Bad = {}
  <2> SUFFICES ASSUME Bad # {} PROVE FALSE
    OBVIOUS
  <2>1. PICK k \in Bad : \A j \in Bad : k <= j
    BY Least
  <2>2. k # 1 /\ k \in 1..n
    BY <1>2, <2>1
  <2>3. k - 1 \in Nat /\ k - 1 \notin Bad /\ k - 1 >= 1 /\ k - 1 <= n /\ k \in 2..n
    BY <2>1, <2>2
  <2>4. Inv(p, k - 1, it[k - 1])
    BY <2>3
  <2>5. Inv(p, k, it[k - 1] \o seqs[k])
    BY <2>3, <2>4
  <2>6. it[k] = it[k - 1] \o seqs[k]
    BY <1>2, <2>2
  <2>. QED  BY <2>1, <2>5, <2>6
<1>6. Inv(p, n, it[n])
  BY <1>4, <1>5
<1>. QED  BY <1>3, <1>6
----------------------------------------------------------------------------
(* The value of a fold, element by element.                                *)
LEMMA FoldOfEmpty ==
  ASSUME NEW c, NEW b, NEW seq, DOMAIN seq = {}
  PROVE  Fold(c, b, seq) = b
<1> DEFINE it == CHOOSE fold : IsFold(c, b, seq, 1..0, fold)
<1>1. IsFold(c, b, seq, 1..0, it)
  BY FoldExists
<1>2. 1..0 = {}
  OBVIOUS
<1>3. Fold(c, b, seq) = it[1..0]
  BY <1>2 DEF Fold
<1> HIDE DEF it
<1>4. it[1..0] = b
  BY <1>1, <1>2 DEF IsFold
<1>. QED  BY <1>3, <1>4

LEMMA FoldsAgree ==
  ASSUME NEW c, NEW b, NEW n \in Nat, NEW seq, NEW k \in Nat, k <= n,
         NEW seq2, \A j \in 1..k : seq2[j] = seq[j],
         NEW f, IsFold(c, b, seq, 1..n, f),
         NEW g, IsFold(c, b, seq2, 1..k, g)
  PROVE  f[1..k] = g[1..k]
<1> DEFINE Bad == {j \in Nat : j <= k /\ f[1..j] # g[1..j]}
<1> SUFFICES ASSUME Bad # {} PROVE FALSE
  OBVIOUS
<1>1. PICK j \in Bad : \A m \in Bad : j <= m
  BY Least
<1>2. j \in Nat /\ j <= k /\ 1..j \in SUBSET (1..n) /\ 1..j \in SUBSET (1..k)
  BY <1>1
<1>3. /\ f[1..j] = IF 1..j = {} THEN b
                   ELSE Op(c, f[(1..j) \ {Largest(1..j)}], seq[Largest(1..j)])
      /\ g[1..j] = IF 1..j = {} THEN b
                   ELSE Op(c, g[(1..j) \ {Largest(1..j)}], seq2[Largest(1..j)])
  BY <1>2 DEF IsFold
<1>4. j # 0
  <2>1. 1..0 = {}
    OBVIOUS
  <2>. QED  BY <1>1, <1>3, <2>1
<1>5. Largest(1..j) = j /\ (1..j) \ {j} = 1..(j - 1) /\ 1..j # {}
  BY <1>2, <1>4, LargestOfInitial
<1>6. j - 1 \in Nat /\ j - 1 \notin Bad /\ j - 1 <= k /\ j \in 1..k
  BY <1>1, <1>2, <1>4
<1>7. f[1..(j - 1)] = g[1..(j - 1)] /\ seq2[j] = seq[j]
  BY <1>6
<1>8. f[1..j] = g[1..j]
  BY <1>3, <1>5, <1>7
<1>. QED  BY <1>1, <1>8

LEMMA FoldOfAppend ==
  ASSUME NEW c, NEW b, NEW E, NEW seq \in Seq(E), NEW e \in E
  PROVE  Fold(c, b, Append(seq, e)) = Op(c, Fold(c, b, seq), e)
<1> DEFINE n   == Len(seq)
           app == Append(seq, e)
           f   == CHOOSE fold : IsFold(c, b, app, 1..(n + 1), fold)
           g   == CHOOSE fold : IsFold(c, b, seq, 1..n, fold)
<1>1. /\ n \in Nat /\ n + 1 \in Nat \ {0} /\ (n + 1) - 1 = n /\ DOMAIN seq = 1..n
      /\ DOMAIN app = 1..(n + 1) /\ app[n + 1] = e
      /\ \A j \in 1..n : seq[j] = app[j]
  OBVIOUS
<1>2. Fold(c, b, app) = f[1..(n + 1)] /\ Fold(c, b, seq) = g[1..n]
  BY <1>1 DEF Fold
<1> HIDE DEF n, app
<1>3. IsFold(c, b, app, 1..(n + 1), f) /\ IsFold(c, b, seq, 1..n, g)
  BY <1>1, FoldExists
<1> HIDE DEF f, g
<1>4. Largest(1..(n + 1)) = n + 1 /\ (1..(n + 1)) \ {n + 1} = 1..n /\ 1..(n + 1) # {}
  BY <1>1, LargestOfInitial
<1>5. f[1..(n + 1)] = Op(c, f[1..n], app[n + 1])
  <2>1. \A s \in SUBSET (1..(n + 1)) :
           f[s] = IF s = {} THEN b ELSE Op(c, f[s \ {Largest(s)}], app[Largest(s)])
    BY <1>3 DEF IsFold
  <2>2. 1..(n + 1) \in SUBSET (1..(n + 1))
    OBVIOUS
  <2>. QED  BY <1>4, <2>1, <2>2
<1>6. f[1..n] = g[1..n]
  BY <1>1, <1>3, FoldsAgree
<1>. QED  BY <1>1, <1>2, <1>5, <1>6 DEF app

LEMMA FoldOfOne ==
  ASSUME NEW c, NEW b, NEW e
  PROVE  Fold(c, b, <<e>>) = Op(c, b, e) /\ Fold(c, b, <<>>) = b
<1> DEFINE none == <<>>
           E == {e}
<1>1. none \in Seq(E) /\ e \in E
  OBVIOUS
<1>2. Append(none, e) = <<e>> /\ DOMAIN none = {}
  OBVIOUS
<1> HIDE DEF none, E
<1>3. Fold(c, b, none) = b
  BY <1>2, FoldOfEmpty
<1>4. Fold(c, b, Append(none, e)) = Op(c, Fold(c, b, none), e)
  BY <1>1, FoldOfAppend
<1>. QED  BY <1>2, <1>3, <1>4 DEF none

LEMMA FoldOfTwo ==
  ASSUME NEW c, NEW b, NEW d, NEW e
  PROVE  Fold(c, b, <<d, e>>) = Op(c, Op(c, b, d), e)
<1> DEFINE one == <<d>>
           E == {d, e}
<1>1. one \in Seq(E) /\ e \in E
  <2>1. d \in E /\ e \in E
    OBVIOUS
  <2> HIDE DEF E
  <2>. QED  BY <2>1
<1>2. Append(<<d>>, e) = <<d, e>>
  <2> DEFINE two == <<d, e>>
             app == Append(one, e)
  <2>1. two \in Seq(E) /\ Len(two) = 2 /\ two[1] = d /\ two[2] = e
    OBVIOUS
  <2>2. one \in Seq(E) /\ Len(one) = 1 /\ one[1] = d
    OBVIOUS
  <2> HIDE DEF one, two, E
  <2>3. app \in Seq(E) /\ Len(app) = 2 /\ app[1] = d /\ app[2] = e
    <3>1. \A v \in Seq(E), x \in E :
             /\ Append(v, x) \in Seq(E) /\ Len(Append(v, x)) = Len(v) + 1
             /\ Append(v, x)[Len(v) + 1] = x /\ \A j \in 1..Len(v) : Append(v, x)[j] = v[j]
      OBVIOUS
    <3>2. one \in Seq(E) /\ e \in E /\ Len(one) = 1
      BY <1>1, <2>2
    <3>3. app \in Seq(E) /\ Len(app) = 1 + 1 /\ app[1 + 1] = e /\ \A j \in 1..1 : app[j] = one[j]
      BY <3>1, <3>2
    <3>. QED  BY <2>2, <3>3
  <2> HIDE DEF app
  <2>4. app = two
    BY <2>1, <2>3
  <2>. QED  BY <2>4 DEF app, two, one
<1>3. Fold(c, b, one) = Op(c, b, d)
  BY FoldOfOne
<1> HIDE DEF one, E
<1>4. Fold(c, b, Append(one, e)) = Op(c, Fold(c, b, one), e)
  BY <1>1, FoldOfAppend
<1>. QED  BY <1>2, <1>3, <1>4 DEF one

THEOREM FoldOfConcatenation ==
  ASSUME NEW c, NEW b, NEW E, NEW v \in Seq(E), NEW w \in Seq(E)
  PROVE  Fold(c, b, v \o w) = Fold(c, Fold(c, b, v), w)
<1> DEFINE pre(k) == [j \in 1..k |-> w[j]]
           Bad == {k \in Nat : k <= Len(w) /\
                      Fold(c, b, v \o pre(k)) # Fold(c, Fold(c, b, v), pre(k))}
<1>1. ASSUME NEW k \in Nat, k <= Len(w) PROVE pre(k) \in Seq(E)
  BY <1>1
<1>2. pre(Len(w)) = w /\ pre(0) = <<>>
  OBVIOUS
<1>3. ASSUME NEW k \in Nat, k + 1 <= Len(w)
      PROVE  pre(k + 1) = Append(pre(k), w[k + 1]) /\ w[k + 1] \in E
  BY <1>3
<1> HIDE DEF pre
<1>4. Bad = {}
  <2> SUFFICES ASSUME Bad # {} PROVE FALSE
    OBVIOUS
  <2>1. PICK k \in Bad : \A j \in Bad : k <= j
    BY Least
  <2>2. k # 0
    <3>1. v \o pre(0) = v
      BY <1>2
    <3>2. Fold(c, Fold(c, b, v), pre(0)) = Fold(c, b, v)
      <4>1. DOMAIN pre(0) = {}
        BY <1>2
      <4>. QED  BY <4>1, FoldOfEmpty
    <3>. QED  BY <2>1, <3>1, <3>2
  <2>3. k - 1 \in Nat /\ k - 1 \notin Bad /\ (k - 1) + 1 = k /\ k <= Len(w) /\ k - 1 <= Len(w)
    BY <2>1, <2>2
  <2>4. pre(k) = Append(pre(k - 1), w[k]) /\ w[k] \in E /\ pre(k - 1) \in Seq(E)
    BY <1>1, <1>3, <2>3
  <2>5. v \o pre(k) = Append(v \o pre(k - 1), w[k]) /\ v \o pre(k - 1) \in Seq(E)
    BY <2>4
  <2>6. Fold(c, b, v \o pre(k)) = Op(c, Fold(c, b, v \o pre(k - 1)), w[k])
    <3> DEFINE q == v \o pre(k - 1)
    <3>1. q \in Seq(E) /\ v \o pre(k) = Append(q, w[k])
      BY <2>5
    <3> HIDE DEF q
    <3>2. Fold(c, b, Append(q, w[k])) = Op(c, Fold(c, b, q), w[k])
      BY <2>4, <3>1, FoldOfAppend
    <3>. QED  BY <3>1, <3>2 DEF q
  <2>7. Fold(c, Fold(c, b, v), pre(k)) = Op(c, Fold(c, Fold(c, b, v), pre(k - 1)), w[k])
    BY <2>4, FoldOfAppend
  <2>8. Fold(c, b, v \o pre(k - 1)) = Fold(c, Fold(c, b, v), pre(k - 1))
    BY <2>3
  <2>. QED  BY <2>1, <2>6, <2>7, <2>8
<1>5. Len(w) \in Nat
  OBVIOUS
<1>. QED  BY <1>2, <1>4, <1>5

LEMMA FlattensAgree ==
  ASSUME NEW k \in Nat, NEW seqs, NEW seqs2, \A j \in 1..k : seqs2[j] = seqs[j],
         NEW f, IsFlatten(seqs, k + 1, f), NEW g, IsFlatten(seqs2, k, g)
  PROVE  \A j \in 1..k : f[j] = g[j]
<1> DEFINE Bad == {j \in Nat : j \in 1..k /\ f[j] # g[j]}
<1> SUFFICES ASSUME Bad # {} PROVE FALSE
  OBVIOUS
<1>1. PICK j \in Bad : \A m \in Bad : j <= m
  BY Least
<1>2. j \in 1..k /\ j \in 1..(k + 1) /\ f[j] # g[j]
  BY <1>1
<1>3. /\ f[j] = IF j = 1 THEN seqs[j] ELSE f[j - 1] \o seqs[j]
      /\ g[j] = IF j = 1 THEN seqs2[j] ELSE g[j - 1] \o seqs2[j]
  BY <1>2 DEF IsFlatten
<1>4. j # 1
  BY <1>2, <1>3
<1>5. j - 1 \in 1..k /\ j - 1 \in Nat /\ j - 1 \notin Bad
  BY <1>1, <1>2, <1>4
<1>6. f[j - 1] = g[j - 1]
  BY <1>5
<1>. QED  BY <1>2, <1>3, <1>4, <1>6

THEOREM FlattenOfAppend ==
  ASSUME NEW E, NEW seqs \in Seq(Seq(E)), NEW s \in Seq(E)
  PROVE  /\ Flatten(<<s>>) = s
         /\ seqs # <<>> => Flatten(Append(seqs, s)) = Flatten(seqs) \o s
<1>1. Flatten(<<s>>) = s
  <2> DEFINE f == CHOOSE flatten : IsFlatten(<<s>>, 1, flatten)
  <2>1. IsFlatten(<<s>>, 1, f)
    BY FlattenExists
  <2>2. Flatten(<<s>>) = f[1]
    BY DEF Flatten
  <2> HIDE DEF f
  <2>3. f[1] = <<s>>[1]
    BY <2>1 DEF IsFlatten
  <2>. QED  BY <2>2, <2>3
<1>2. ASSUME seqs # <<>> PROVE Flatten(Append(seqs, s)) = Flatten(seqs) \o s
  <2> DEFINE n   == Len(seqs)
             app == Append(seqs, s)
             f   == CHOOSE flatten : IsFlatten(app, n + 1, flatten)
             g   == CHOOSE flatten : IsFlatten(seqs, n, flatten)
  <2>1. /\ n \in Nat /\ n + 1 \in Nat /\ n >= 1 /\ n <= n + 1 /\ (n + 1) - 1 = n
        /\ Len(app) = n + 1 /\ app[n + 1] = s /\ \A j \in 1..n : seqs[j] = app[j]
    BY <1>2
  <2>2. Flatten(app) = f[n + 1] /\ Flatten(seqs) = g[n]
    BY <2>1 DEF Flatten
  <2> HIDE DEF n, app
  <2>3. IsFlatten(app, n + 1, f) /\ IsFlatten(seqs, n, g)
    BY <2>1, FlattenExists
  <2> HIDE DEF f, g
  <2>4. f[n + 1] = f[n] \o app[n + 1]
    <3>1. n + 1 \in 1..(n + 1) /\ n + 1 # 1
      BY <2>1
    <3>2. \A i \in 1..(n + 1) : f[i] = IF i = 1 THEN app[i] ELSE f[i - 1] \o app[i]
      BY <2>3 DEF IsFlatten
    <3>. QED  BY <2>1, <3>1, <3>2
  <2>5. f[n] = g[n]
    <3>1. n \in 1..n
      BY <2>1
    <3>2. n \in Nat /\ \A j \in 1..n : seqs[j] = app[j]
      BY <2>1
    <3>3. \A j \in 1..n : f[j] = g[j]
      BY ONLY <2>3, <3>2, FlattensAgree
    <3>. QED  BY <3>1, <3>3
  <2>. QED  BY <2>1, <2>2, <2>4, <2>5 DEF app
<1>. QED  BY <1>1, <1>2

(* A property of the value before the first sequence that every sequence   *)
(* takes over holds of the value after the last.                           *)
THEOREM FoldOfFlatten ==
  ASSUME NEW c, NEW p, NEW b, NEW E, NEW seqs \in Seq(Seq(E)), Len(seqs) # 0,
         Inv(p, 0, b),
         \A k \in 1..Len(seqs) : \A v : Inv(p, k - 1, v) => Inv(p, k, Fold(c, v, seqs[k]))
  PROVE  Inv(p, Len(seqs), Fold(c, b, Flatten(seqs)))
<1> DEFINE n      == Len(seqs)
           pre(k) == [j \in 1..k |-> seqs[j]]
           Good(k) == /\ Flatten(pre(k)) \in Seq(E)
                      /\ Inv(p, k, Fold(c, b, Flatten(pre(k))))
           Bad == {k \in Nat : k >= 1 /\ k <= n /\ ~ Good(k)}
<1>1. n \in Nat /\ n >= 1 /\ DOMAIN seqs = 1..n /\ \A k \in 1..n : seqs[k] \in Seq(E)
  OBVIOUS
<1>2. pre(n) = seqs /\ pre(1) = <<seqs[1]>> /\ seqs[1] \in Seq(E)
  BY <1>1
<1>3. ASSUME NEW k \in Nat, k + 1 <= n
      PROVE  pre(k) \in Seq(Seq(E)) /\ pre(k + 1) = Append(pre(k), seqs[k + 1])
             /\ Len(pre(k)) = k /\ seqs[k + 1] \in Seq(E)
  BY <1>1, <1>3
<1>4. ASSUME NEW k \in 1..n, NEW v, Inv(p, k - 1, v) PROVE Inv(p, k, Fold(c, v, seqs[k]))
  BY <1>4
<1> HIDE DEF pre, n
<1>5. Good(1)
  <2>1. Flatten(<<seqs[1]>>) = seqs[1]
    BY <1>2, FlattenOfAppend
  <2>2. 1 \in 1..n /\ 1 - 1 = 0
    BY <1>1
  <2>3. Inv(p, 1, Fold(c, b, seqs[1]))
    BY <1>4, <2>2
  <2>. QED  BY <1>2, <2>1, <2>3
<1>6. ASSUME NEW k \in Nat, k >= 1, k + 1 <= n, Good(k) PROVE Good(k + 1)
  <2> DEFINE v == Flatten(pre(k))
             w == seqs[k + 1]
  <2>1. v \in Seq(E) /\ w \in Seq(E)
    BY <1>3, <1>6
  <2>2. Flatten(pre(k + 1)) = v \o w
    <3>1. pre(k) \in Seq(Seq(E)) /\ pre(k) # <<>> /\ pre(k + 1) = Append(pre(k), w)
      BY <1>3, <1>6
    <3>. QED  BY <2>1, <3>1, FlattenOfAppend
  <2> HIDE DEF v, w
  <2>3. Fold(c, b, v \o w) = Fold(c, Fold(c, b, v), w)
    BY <2>1, FoldOfConcatenation
  <2>4. Inv(p, k, Fold(c, b, v))
    BY <1>6 DEF v
  <2>5. k + 1 \in 1..n /\ (k + 1) - 1 = k
    BY <1>1, <1>6
  <2>6. Inv(p, k + 1, Fold(c, Fold(c, b, v), w))
    BY <1>4, <2>4, <2>5 DEF w
  <2>7. v \o w \in Seq(E)
    BY <2>1
  <2>. QED  BY <2>2, <2>3, <2>6, <2>7
<1> HIDE DEF Good
<1>7. Bad = {}
  <2> SUFFICES ASSUME Bad # {} PROVE FALSE
    OBVIOUS
  <2>1. PICK k \in Bad : \A j \in Bad : k <= j
    BY Least
  <2>2. k # 1 /\ k \in Nat /\ k >= 1 /\ k <= n
    BY <1>5, <2>1
  <2>3. k - 1 \in Nat /\ k - 1 \notin Bad /\ (k - 1) + 1 = k /\ k - 1 <= n /\ k - 1 >= 1
    BY <1>1, <2>1, <2>2
  <2>4. Good(k - 1)
    BY <2>3
  <2>5. Good((k - 1) + 1)
    BY <1>6, <2>2, <2>3, <2>4
  <2>. QED  BY <2>1, <2>3, <2>5
<1>8. Good(n)
  BY <1>1, <1>7
<1>. QED  BY <1>2, <1>8 DEF Good, n
=============================================================================
