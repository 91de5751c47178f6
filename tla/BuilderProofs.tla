----------------------------- MODULE BuilderProofs -----------------------------
(***************************************************************************)
(* Proofs about the pool builder (module Builder), for a shelf of any size *)
(* and any disks of it, after the facts about numbers, finite sets and     *)
(* lists that these and the proofs of module DeskProofs rest on.           *)
(***************************************************************************)
EXTENDS Builder, FiniteSetTheorems, FunctionTheorems, SequenceTheorems,
        WellFoundedInduction, TLAPS

\* A set of natural numbers that is not empty has a least one: what stands in for
\* an induction here.
LEMMA LeastOf == ASSUME NEW S \in SUBSET Nat, S # {} PROVE \E x \in S : \A y \in S : x <= y
<1> DEFINE R == OpToRel(<, Nat)
<1>1. PICK x \in S : \A y \in S : ~ (<<y, x>> \in R)
  <2>1. IsWellFoundedOn(R, Nat)
    BY NatLessThanWellFounded
  <2> HIDE DEF R
  <2> QED
    BY <2>1, WFMin
<1>2. ASSUME NEW y \in S PROVE x <= y
  <2>1. ~ (y < x)
    BY <1>1 DEF OpToRel
  <2> QED
    BY <2>1
<1> QED
  BY <1>2

\* In a finite set with a total order no two members have as many others before
\* them, and none has all.
LEMMA RanksDiffer ==
    ASSUME NEW S, IsFiniteSet(S), NEW below \in [S -> SUBSET S],
           \A a \in S : a \notin below[a],
           \A a, b \in S : a # b => a \in below[b] \/ b \in below[a],
           \A a, b, c \in S : a \in below[b] /\ b \in below[c] => a \in below[c]
    PROVE  /\ \A x \in S : Cardinality(below[x]) \in 0 .. (Cardinality(S) - 1)
           /\ \A a, b \in S : Cardinality(below[a]) = Cardinality(below[b]) => a = b
<1> DEFINE n == Cardinality(S)
           ranks == 0 .. (n - 1)
<1>1. n \in Nat
  BY FS_CardinalityType
<1>2. ASSUME NEW x \in S
      PROVE  IsFiniteSet(below[x]) /\ Cardinality(below[x]) \in Nat /\ Cardinality(below[x]) \in ranks
  <2>1. below[x] \subseteq S \ {x}
    OBVIOUS
  <2>2. IsFiniteSet(S \ {x}) /\ Cardinality(S \ {x}) = n - 1
    BY FS_RemoveElement
  <2>3. IsFiniteSet(below[x]) /\ Cardinality(below[x]) <= n - 1
    BY <2>1, <2>2, FS_Subset
  <2> QED
    BY <1>1, <2>3, FS_CardinalityType
<1>3. ASSUME NEW a \in S, NEW b \in S, a \in below[b]
      PROVE  Cardinality(below[a]) < Cardinality(below[b])
  <2>1. below[a] \subseteq below[b] \ {a}
    BY <1>3
  <2>2. /\ IsFiniteSet(below[b]) /\ Cardinality(below[b]) \in Nat
        /\ Cardinality(below[a]) \in Nat
    BY <1>2
  <2>3. IsFiniteSet(below[b] \ {a}) /\ Cardinality(below[b] \ {a}) = Cardinality(below[b]) - 1
    BY <1>3, <2>2, FS_RemoveElement
  <2>4. Cardinality(below[a]) <= Cardinality(below[b] \ {a})
    BY <2>1, <2>3, FS_Subset
  <2> QED
    BY <2>2, <2>3, <2>4
<1>4. \A a, b \in S : Cardinality(below[a]) = Cardinality(below[b]) => a = b
  <2> SUFFICES ASSUME NEW a \in S, NEW b \in S, a # b PROVE Cardinality(below[a]) # Cardinality(below[b])
    OBVIOUS
  <2>1. Cardinality(below[a]) < Cardinality(below[b]) \/ Cardinality(below[b]) < Cardinality(below[a])
    BY <1>3
  <2>2. Cardinality(below[a]) \in Nat /\ Cardinality(below[b]) \in Nat
    BY <1>2
  <2> QED
    BY <2>1, <2>2
<1> QED
  BY <1>2, <1>4

\* In a finite set with a total order there is a member with each number of others
\* before it.
LEMMA Places ==
    ASSUME NEW S, IsFiniteSet(S), NEW below \in [S -> SUBSET S],
           \A a \in S : a \notin below[a],
           \A a, b \in S : a # b => a \in below[b] \/ b \in below[a],
           \A a, b, c \in S : a \in below[b] /\ b \in below[c] => a \in below[c],
           NEW i \in 1 .. Cardinality(S)
    PROVE  \E x \in S : Cardinality(below[x]) = i - 1
<1> DEFINE n == Cardinality(S)
           ranks == 0 .. (n - 1)
           f == [x \in S |-> Cardinality(below[x])]
<1>1. n \in Nat
  BY FS_CardinalityType
<1>2. /\ \A x \in S : Cardinality(below[x]) \in 0 .. (Cardinality(S) - 1)
      /\ \A a, b \in S : Cardinality(below[a]) = Cardinality(below[b]) => a = b
  BY RanksDiffer
<1>3. \A x \in S : Cardinality(below[x]) \in ranks
  BY <1>2
<1> HIDE DEF ranks
<1>4. f \in [S -> ranks] /\ \A x \in S : f[x] = Cardinality(below[x])
  BY <1>3
<1>5. \A a, b \in S : f[a] = f[b] => a = b
  BY <1>2, <1>4
<1> HIDE DEF f
<1>6. f \in Injection(S, ranks)
  BY <1>4, <1>5, Fun_IsInj
<1>7. IsFiniteSet(ranks) /\ Cardinality(ranks) = n
  <2> DEFINE m == n - 1
  <2>1. m \in Int
    BY <1>1
  <2>2. /\ IsFiniteSet(0 .. m)
        /\ Cardinality(0 .. m) = IF 0 > m THEN 0 ELSE m - 0 + 1
    <3> HIDE DEF m
    <3> QED
      BY <2>1, FS_Interval
  <2> QED
    BY <1>1, <2>2 DEF ranks
<1>8. f \in Surjection(S, ranks)
  BY <1>6, <1>7, FS_Injection
<1>9. i - 1 \in ranks
  BY <1>1 DEF ranks
<1>10. PICK x \in S : f[x] = i - 1
  BY <1>8, <1>9 DEF Surjection
<1> QED
  BY <1>4, <1>10

\* A function on the places up to n is a sequence.
LEMMA IsSeq ==
    ASSUME NEW S, NEW n \in Nat, NEW f \in [1 .. n -> S]
    PROVE  f \in Seq(S) /\ Len(f) = n
OBVIOUS

\* A finite set of naturals that is not empty has a greatest one.
LEMMA MaxOf ==
    ASSUME NEW n \in Nat, NEW S \in SUBSET (0 .. n), S # {}
    PROVE  Max(S) \in S
<1> DEFINE T == {n - x : x \in S}
<1>1. T \in SUBSET Nat /\ T # {}
  <2>1. \A x \in S : x \in Int /\ 0 <= x /\ x <= n
    OBVIOUS
  <2>2. \A t \in T : t \in Nat
    BY <2>1
  <2>3. PICK x \in S : TRUE
    OBVIOUS
  <2>4. n - x \in T
    OBVIOUS
  <2> QED
    BY <2>2, <2>4
<1>2. PICK t \in T : \A u \in T : t <= u
  BY <1>1, LeastOf
<1>3. PICK x \in S : t = n - x
  BY <1>2
<1>4. \A y \in S : x >= y
  BY <1>2, <1>3
<1> QED
  BY <1>4 DEF Max

\* What holds at 0 and from each number to the next holds of all up to n. The
\* predicate is a set: the provers cannot instantiate an operator.
LEMMA UpTo ==
    ASSUME NEW n \in Nat, NEW P, 0 \in P, \A k \in 1 .. n : k - 1 \in P => k \in P
    PROVE  \A k \in 0 .. n : k \in P
<1> DEFINE S == {k \in 0 .. n : k \notin P}
<1> SUFFICES ASSUME S # {} PROVE FALSE
  OBVIOUS
<1>1. S \in SUBSET Nat
  OBVIOUS
<1>2. PICK k \in S : \A j \in S : k <= j
  <2> HIDE DEF S
  <2> QED
    BY <1>1, LeastOf
<1>3. k \in 1 .. n /\ k - 1 \in 0 .. n /\ k - 1 \notin S
  BY <1>2
<1> QED
  BY <1>2, <1>3

\* What the n rounds of a loop do to its value, which is in X, and the values it has
\* after each.
Rounds(n, X) == [1 .. n -> [X -> X]]
Runs(f, n, X, base, step) ==
    f \in [0 .. n -> X] /\ f[0] = base /\ \A i \in 1 .. n : f[i] = step[i][f[i - 1]]

\* A loop can be run.
LEMMA Loops ==
    ASSUME NEW n \in Nat, NEW X, NEW base \in X, NEW step \in Rounds(n, X)
    PROVE  \E f : Runs(f, n, X, base, step)
<1> USE DEF Rounds
<1> DEFINE Run(k, f) == f \in [0 .. k -> X] /\ f[0] = base /\ \A i \in 1 .. k : f[i] = step[i][f[i - 1]]
           P == {k \in 0 .. n : \E f : Run(k, f)}
<1>1. 0 \in P
  <2>1. Run(0, [i \in 0 .. 0 |-> base])
    OBVIOUS
  <2> HIDE DEF Run
  <2> QED
    BY <2>1
<1>2. ASSUME NEW k \in 1 .. n, k - 1 \in P PROVE k \in P
  <2>1. PICK g : Run(k - 1, g)
    BY <1>2
  <2>2. g \in [0 .. (k - 1) -> X] /\ g[0] = base /\ \A i \in 1 .. (k - 1) : g[i] = step[i][g[i - 1]]
    BY <2>1
  <2> DEFINE next == step[k][g[k - 1]]
             f == [i \in 0 .. k |-> IF i = k THEN next ELSE g[i]]
  <2>3. k - 1 \in 0 .. (k - 1) /\ g[k - 1] \in X
    BY <2>2
  <2>4. next \in X
    BY <2>3
  <2>5. \A i \in 0 .. k : f[i] \in X
    BY <2>2, <2>4
  <2>6. f \in [0 .. k -> X] /\ f[0] = base
    BY <2>2, <2>5
  <2>7. ASSUME NEW i \in 1 .. k PROVE f[i] = step[i][f[i - 1]]
    <3>0. i - 1 \in 0 .. k /\ i - 1 # k /\ f[i - 1] = g[i - 1]
      OBVIOUS
    <3>1. CASE i = k
      <4>1. f[i] = next
        BY <3>1
      <4> HIDE DEF f
      <4> QED
        BY <3>0, <3>1, <4>1
    <3>2. CASE i # k
      <4>1. i \in 1 .. (k - 1) /\ f[i] = g[i]
        BY <3>2
      <4> HIDE DEF f
      <4> QED
        BY <2>2, <3>0, <4>1
    <3> QED
      BY <3>1, <3>2
  <2> HIDE DEF f
  <2>8. Run(k, f)
    BY <2>6, <2>7
  <2> HIDE DEF Run
  <2> QED
    BY <2>8
<1> HIDE DEF P
<1>3. \A k \in 0 .. n : k \in P
  BY <1>1, <1>2, UpTo
<1>4. \E f : Run(n, f)
  BY <1>3 DEF P
<1> QED
  BY <1>4 DEF Runs

\* The lists of S, m of them; and what putting one after the other gives, list by list.
Lists(S, m) == [1 .. m -> Seq(S)]
Joins(f, S, m, seqs) ==
    /\ f \in [0 .. m -> Seq(S)] /\ f[0] = <<>> /\ f[m] = FlattenSeq(seqs)
    /\ \A i \in 1 .. m : f[i] = f[i - 1] \o seqs[i]

\* FlattenSeq is that.
LEMMA FlattenIs ==
    ASSUME NEW S, NEW m \in Nat, NEW seqs \in Lists(S, m)
    PROVE  \E f : Joins(f, S, m, seqs)
<1> USE DEF Lists
<1> DEFINE X == Seq(S)
           step == [i \in 1 .. m |-> [q \in X |-> q \o seqs[i]]]
<1>1. /\ \A i \in 1 .. m : seqs[i] \in X /\ Len(seqs[i]) \in Nat
      /\ <<>> \in X /\ Len(seqs) = m /\ seqs \in Seq(Seq(S))
  OBVIOUS
<1>2. step \in Rounds(m, X)
  <2>1. ASSUME NEW i \in 1 .. m, NEW q \in X PROVE q \o seqs[i] \in X
    BY <1>1
  <2> HIDE DEF X
  <2> QED
    BY <2>1 DEF Rounds
<1>3. PICK f \in [0 .. m -> X] : f[0] = <<>> /\ \A i \in 1 .. m : f[i] = step[i][f[i - 1]]
  <2> DEFINE base == <<>>
  <2>1. base \in X
    BY <1>1
  <2> HIDE DEF X, step, base
  <2>2. \E f : Runs(f, m, X, base, step)
    BY <1>2, <2>1, Loops
  <2> QED
    BY <2>2 DEF base, Runs
<1>4. ASSUME NEW i \in 1 .. m
      PROVE  f[i] = f[i - 1] \o seqs[i] /\ f[i - 1] \in Seq(S)
  <2>1. f[i] = step[i][f[i - 1]]
    BY <1>3
  <2>2. i - 1 \in 0 .. m /\ f[i - 1] \in X
    BY <1>3
  <2> QED
    BY <2>1, <2>2
<1>5. FlattenSeq(seqs) = f[m]
  <2>1. CASE m = 0
    BY <1>1, <1>3, <2>1 DEF FlattenSeq
  <2>2. CASE m # 0
    <3> DEFINE Goes(g) == g = [i \in 1 .. m |-> IF i = 1 THEN seqs[i] ELSE g[i - 1] \o seqs[i]]
               g == CHOOSE g : Goes(g)
               h == [i \in 1 .. m |-> f[i]]
    <3>1. Goes(h)
      <4>1. ASSUME NEW i \in 1 .. m
            PROVE  h[i] = IF i = 1 THEN seqs[i] ELSE h[i - 1] \o seqs[i]
        <5>1. CASE i = 1
          <6>1. i - 1 = 0 /\ f[0] = <<>>
            BY <1>3, <5>1
          <6>2. f[i] = <<>> \o seqs[i] /\ seqs[i] \in Seq(S)
            BY <1>1, <1>4, <6>1
          <6>3. f[i] = seqs[i]
            BY <6>2, ConcatEmptySeq
          <6>4. h[i] = f[i]
            OBVIOUS
          <6> HIDE DEF h
          <6> QED
            BY <5>1, <6>3, <6>4
        <5>2. CASE i # 1
          <6>1. i - 1 \in 1 .. m /\ h[i - 1] = f[i - 1] /\ h[i] = f[i]
            BY <5>2
          <6> HIDE DEF h
          <6> QED
            BY <1>4, <5>2, <6>1
        <5> QED
          BY <5>1, <5>2
      <4>2. h = [i \in 1 .. m |-> h[i]]
        OBVIOUS
      <4> HIDE DEF h
      <4> QED
        BY <4>1, <4>2
    <3>2. FlattenSeq(seqs) = g[m]
      BY <1>1, <2>2 DEF FlattenSeq
    <3>3. Goes(g)
      <4> HIDE DEF Goes, h
      <4> QED
        BY <3>1
    <3> HIDE DEF g
    <3>4. ASSUME NEW i \in 1 .. m
          PROVE  g[i] = IF i = 1 THEN seqs[i] ELSE g[i - 1] \o seqs[i]
      BY <3>3
    <3> DEFINE Q == {n \in 0 .. m : n = 0 \/ g[n] = f[n]}
    <3>5. 0 \in Q
      OBVIOUS
    <3>6. ASSUME NEW n \in 1 .. m, n - 1 \in Q PROVE n \in Q
      <4>1. CASE n = 1
        <5>0. n - 1 = 0 /\ f[0] = <<>>
          BY <1>3, <4>1
        <5>1. f[n] = <<>> \o seqs[n] /\ seqs[n] \in Seq(S)
          BY <1>1, <1>4, <5>0
        <5>2. f[n] = seqs[n]
          BY <5>1, ConcatEmptySeq
        <5> QED
          BY <3>4, <4>1, <5>2
      <4>2. CASE n # 1
        <5>1. g[n - 1] = f[n - 1]
          BY <3>6, <4>2
        <5>2. f[n] = f[n - 1] \o seqs[n]
          BY <1>4
        <5>3. g[n] = g[n - 1] \o seqs[n]
          BY <3>4, <4>2
        <5>4. g[n] = f[n]
          BY <5>1, <5>2, <5>3, Zenon
        <5> QED
          BY <5>4
      <4> QED
        BY <4>1, <4>2
    <3>7. \A k \in 0 .. m : k \in Q
      <4> HIDE DEF Q
      <4> QED
        BY <3>5, <3>6, UpTo
    <3> QED
      BY <2>2, <3>2, <3>7
  <2> QED
    BY <2>1, <2>2
<1> HIDE DEF step
<1>6. \A i \in 1 .. m : f[i] = f[i - 1] \o seqs[i]
  BY <1>4
<1>7. f \in [0 .. m -> Seq(S)] /\ f[0] = <<>>
  BY <1>3
<1> QED
  BY <1>5, <1>6, <1>7 DEF Joins

\* Lists one after the other: their members are those of each, and what holds of
\* each two in a list, and of each two of a list and a later one, holds of each two.
LEMMA Flattened ==
    ASSUME NEW S, NEW m \in Nat, NEW seqs \in [1 .. m -> Seq(S)], NEW R,
           \A i \in 1 .. m : \A j, k \in 1 .. Len(seqs[i]) : j < k => <<seqs[i][j], seqs[i][k]>> \in R,
           \A i, l \in 1 .. m : i < l =>
               \A j \in 1 .. Len(seqs[i]), k \in 1 .. Len(seqs[l]) : <<seqs[i][j], seqs[l][k]>> \in R
    PROVE  /\ FlattenSeq(seqs) \in Seq(S)
           /\ \A x : (\E j \in 1 .. Len(FlattenSeq(seqs)) : FlattenSeq(seqs)[j] = x) <=>
                     (\E i \in 1 .. m : \E j \in 1 .. Len(seqs[i]) : seqs[i][j] = x)
           /\ \A j, k \in 1 .. Len(FlattenSeq(seqs)) :
                  j < k => <<FlattenSeq(seqs)[j], FlattenSeq(seqs)[k]>> \in R
<1> DEFINE Good(n, q) ==
               /\ q \in Seq(S)
               /\ \A x : (\E j \in 1 .. Len(q) : q[j] = x) <=>
                         (\E i \in 1 .. n : \E j \in 1 .. Len(seqs[i]) : seqs[i][j] = x)
               /\ \A j, k \in 1 .. Len(q) : j < k => <<q[j], q[k]>> \in R
<1>1. /\ \A i \in 1 .. m : seqs[i] \in Seq(S) /\ Len(seqs[i]) \in Nat
      /\ seqs \in Lists(S, m)
  BY DEF Lists
<1>2. PICK f : Joins(f, S, m, seqs)
  BY <1>1, FlattenIs
<1>3. f \in [0 .. m -> Seq(S)] /\ f[0] = <<>>
  BY <1>2 DEF Joins
<1>4. ASSUME NEW i \in 1 .. m
      PROVE  f[i] = f[i - 1] \o seqs[i] /\ f[i - 1] \in Seq(S)
  <2>1. i - 1 \in 0 .. m
    OBVIOUS
  <2> QED
    BY <1>2, <2>1 DEF Joins
<1> DEFINE P == {n \in 0 .. m : Good(n, f[n])}
<1>5. 0 \in P
  <2>1. f[0] = <<>> /\ Len(<<>>) = 0 /\ <<>> \in Seq(S) /\ 1 .. 0 = {}
    BY <1>3
  <2>2. Good(0, <<>>)
    BY <2>1
  <2> HIDE DEF Good
  <2> QED
    BY <2>1, <2>2
<1>6. ASSUME NEW n \in 1 .. m, n - 1 \in P PROVE n \in P
  <2> DEFINE q == f[n - 1]
             t == seqs[n]
             r == q \o t
  <2>1. Good(n - 1, q) /\ t \in Seq(S) /\ n - 1 \in 0 .. m
    BY <1>1, <1>6
  <2>2. /\ r \in Seq(S) /\ Len(r) = Len(q) + Len(t) /\ Len(q) \in Nat /\ Len(t) \in Nat
        /\ \A i \in 1 .. Len(q) : r[i] = q[i]
        /\ \A i \in 1 .. Len(t) : r[Len(q) + i] = t[i]
    <3> HIDE DEF q, t
    <3> QED
      BY <2>1, ConcatProperties
  <2>3. f[n] = r
    BY <1>4
  <2>0. t = seqs[n]
    OBVIOUS
  <2> HIDE DEF q, t, r
  <2>4. ASSUME NEW x
        PROVE  (\E j \in 1 .. Len(r) : r[j] = x) <=>
               (\E i \in 1 .. n : \E j \in 1 .. Len(seqs[i]) : seqs[i][j] = x)
    <3>1. ASSUME NEW j \in 1 .. Len(r), r[j] = x
          PROVE  \E i \in 1 .. n : \E l \in 1 .. Len(seqs[i]) : seqs[i][l] = x
      <4>1. CASE j <= Len(q)
        <5>1. j \in 1 .. Len(q) /\ q[j] = x
          BY <2>2, <3>1, <4>1
        <5>2. \E i \in 1 .. (n - 1) : \E l \in 1 .. Len(seqs[i]) : seqs[i][l] = x
          BY <2>1, <5>1
        <5> QED
          BY <5>2
      <4>2. CASE j > Len(q)
        <5>1. j - Len(q) \in 1 .. Len(t) /\ j = Len(q) + (j - Len(q))
          BY <2>2, <4>2
        <5>2. t[j - Len(q)] = x
          BY <2>2, <3>1, <5>1
        <5> QED
          BY <2>0, <5>1, <5>2
      <4> QED
        BY <2>2, <4>1, <4>2
    <3>2. ASSUME NEW i \in 1 .. n, NEW l \in 1 .. Len(seqs[i]), seqs[i][l] = x
          PROVE  \E j \in 1 .. Len(r) : r[j] = x
      <4>1. CASE i = n
        <5>1. l \in 1 .. Len(t) /\ t[l] = x
          BY <2>0, <3>2, <4>1
        <5>2. Len(q) + l \in 1 .. Len(r) /\ r[Len(q) + l] = x
          BY <2>2, <5>1
        <5> QED
          BY <5>2
      <4>2. CASE i # n
        <5>1. i \in 1 .. (n - 1)
          BY <4>2
        <5>2. PICK j \in 1 .. Len(q) : q[j] = x
          BY <2>1, <3>2, <5>1
        <5>3. j \in 1 .. Len(r) /\ r[j] = x
          BY <2>2, <5>2
        <5> QED
          BY <5>3
      <4> QED
        BY <4>1, <4>2
    <3> QED
      BY <3>1, <3>2
  <2>5. ASSUME NEW j \in 1 .. Len(r), NEW k \in 1 .. Len(r), j < k
        PROVE  <<r[j], r[k]>> \in R
    <3>1. CASE k <= Len(q)
      <4>1. j \in 1 .. Len(q) /\ k \in 1 .. Len(q) /\ r[j] = q[j] /\ r[k] = q[k]
        BY <2>2, <2>5, <3>1
      <4> QED
        BY <2>1, <2>5, <4>1
    <3>2. CASE j > Len(q)
      <4>1. /\ j - Len(q) \in 1 .. Len(t) /\ k - Len(q) \in 1 .. Len(t)
            /\ j = Len(q) + (j - Len(q)) /\ k = Len(q) + (k - Len(q))
            /\ j - Len(q) < k - Len(q)
        BY <2>2, <2>5, <3>2
      <4>2. r[j] = t[j - Len(q)] /\ r[k] = t[k - Len(q)]
        BY <2>2, <4>1
      <4> QED
        BY <2>0, <4>1, <4>2
    <3>3. CASE j <= Len(q) /\ k > Len(q)
      <4>1. j \in 1 .. Len(q) /\ k - Len(q) \in 1 .. Len(t) /\ k = Len(q) + (k - Len(q))
        BY <2>2, <3>3
      <4>2. r[j] = q[j] /\ r[k] = t[k - Len(q)]
        BY <2>2, <4>1
      <4>3. PICK i \in 1 .. (n - 1) : \E l \in 1 .. Len(seqs[i]) : seqs[i][l] = q[j]
        BY <2>1, <4>1
      <4>4. i \in 1 .. m /\ n \in 1 .. m /\ i < n
        OBVIOUS
      <4> QED
        BY <2>0, <4>1, <4>2, <4>3, <4>4
    <3> QED
      BY <2>2, <3>1, <3>2, <3>3
  <2>6. Good(n, r)
    BY <2>2, <2>4, <2>5
  <2> HIDE DEF Good
  <2> QED
    BY <2>3, <2>6
<1>7. Good(m, f[m])
  <2>1. \A k \in 0 .. m : k \in P
    <3> HIDE DEF P
    <3> QED
      BY <1>5, <1>6, UpTo
  <2> HIDE DEF Good
  <2> QED
    BY <2>1
<1>8. FlattenSeq(seqs) = f[m]
  BY <1>2 DEF Joins
<1> QED
  BY <1>7, <1>8

-----------------------------------------------------------------------------
(* The pool builder: what a layout can lose.                               *)

Drive == [bytes : Nat, fast : BOOLEAN, inUse : BOOLEAN]
VdevOf(D) == [kind : VdevKinds, role : ToSet(Roles) \cup {"data"}, disks : Seq(D), data : Nat, spares : Nat]

\* A layout of disks of the shelf.
LayoutTyped ==
    /\ disks \in Seq(Drive)
    /\ chosen \subseteq DOMAIN disks
    /\ vdevs \in Seq(VdevOf(DOMAIN disks))

\* The first k of some different disks are k disks.
LEMMA FirstOf ==
    ASSUME NEW D, NEW s \in Seq(D), NEW k \in 0 .. Len(s),
           \A i, j \in 1 .. Len(s) : s[i] = s[j] => i = j,
           NEW S, \A x : x \in S <=> \E i \in 1 .. k : x = s[i]
    PROVE  S \subseteq ToSet(s) /\ IsFiniteSet(S) /\ Cardinality(S) = k
<1> DEFINE f == [i \in 1 .. k |-> s[i]]
<1>1. Len(s) \in Nat /\ DOMAIN s = 1 .. Len(s) /\ 1 .. k \subseteq 1 .. Len(s)
  OBVIOUS
<1>2. f \in [1 .. k -> S] /\ \A i \in 1 .. k : f[i] = s[i]
  OBVIOUS
<1>3. \A i, j \in 1 .. k : f[i] = f[j] => i = j
  BY <1>1, <1>2
<1>4. \A x \in S : \E i \in 1 .. k : f[i] = x
  BY <1>2
<1> HIDE DEF f
<1>5. ExistsBijection(1 .. k, S)
  <2>1. f \in Bijection(1 .. k, S)
    BY <1>2, <1>3, <1>4, Fun_IsBij
  <2> QED
    BY <2>1, Fun_ExistsBij
<1>6. IsFiniteSet(1 .. k) /\ Cardinality(1 .. k) = k
  BY FS_Interval
<1>7. S \subseteq ToSet(s)
  BY <1>1 DEF ToSet
<1> QED
  BY <1>5, <1>6, <1>7, FS_Bijection

\* What a vdev that is wide enough can lose.
LEMMA ParityOf ==
    ASSUME NEW D, NEW v \in VdevOf(D), Len(v.disks) >= MinDisks(v)
    PROVE  /\ Parity(v) \in Nat /\ Parity(v) < Len(v.disks)
           /\ v.kind = "stripe" => Parity(v) = 0
           /\ v.kind = "mirror" => Parity(v) = Len(v.disks) - 1
<1> DEFINE n == Len(v.disks)
<1>1. n \in Nat /\ v.kind \in VdevKinds
  BY DEF VdevOf
<1>2. DOMAIN Raidz = {"raidz1", "raidz2", "raidz3"} /\ DOMAIN Draid = {"draid1", "draid2", "draid3"}
  BY DEF Raidz, Draid
<1>3. CASE v.kind = "stripe"
  <2>1. Parity(v) = 0
    BY <1>2, <1>3 DEF Parity, IsDraid
  <2>2. MinDisks(v) = 1
    BY <1>3 DEF MinDisks
  <2> QED
    BY <1>1, <1>3, <2>1, <2>2
<1>4. CASE v.kind = "mirror"
  <2>1. Parity(v) = n - 1
    BY <1>2, <1>4 DEF Parity, IsDraid
  <2>2. MinDisks(v) = 2
    BY <1>4 DEF MinDisks
  <2> QED
    BY <1>1, <1>4, <2>1, <2>2
<1>5. CASE v.kind \in DOMAIN Raidz
  <2>1. v.kind # "stripe" /\ v.kind # "mirror" /\ v.kind \notin DOMAIN Draid
    BY <1>2, <1>5
  <2>4. Raidz[v.kind] \in Nat
    <3>1. Raidz["raidz1"] = 1 /\ Raidz["raidz2"] = 2 /\ Raidz["raidz3"] = 3
      BY DEF Raidz
    <3> QED
      BY <1>2, <1>5, <3>1
  <2>2. Parity(v) = Raidz[v.kind]
    BY <1>5, <2>1 DEF Parity, IsDraid
  <2>3. MinDisks(v) = Parity(v) + 1
    BY <2>1 DEF MinDisks
  <2> QED
    BY <1>1, <2>1, <2>2, <2>3, <2>4
<1>6. CASE v.kind \in DOMAIN Draid
  <2>1. v.kind # "stripe" /\ v.kind # "mirror" /\ v.kind \notin DOMAIN Raidz
    BY <1>2, <1>6
  <2>4. Draid[v.kind] \in Nat
    <3>1. Draid["draid1"] = 1 /\ Draid["draid2"] = 2 /\ Draid["draid3"] = 3
      BY DEF Draid
    <3> QED
      BY <1>2, <1>6, <3>1
  <2>2. Parity(v) = Draid[v.kind]
    BY <1>6, <2>1 DEF Parity, IsDraid
  <2>3. MinDisks(v) = Parity(v) + 1
    BY <2>1 DEF MinDisks
  <2> QED
    BY <1>1, <2>1, <2>2, <2>3, <2>4
<1> QED
  BY <1>1, <1>3, <1>4, <1>5, <1>6 DEF VdevKinds

\* A vdev lives on while it loses no more than its parity, and not with the first of
\* its disks lost, one more than that.
LEMMA LivesByParity ==
    ASSUME NEW D, NEW v \in VdevOf(D), Len(v.disks) >= MinDisks(v),
           \A i, j \in 1 .. Len(v.disks) : v.disks[i] = v.disks[j] => i = j,
           NEW lost, IsFiniteSet(lost)
    PROVE  /\ Cardinality(lost) <= Parity(v) /\ (v.kind = "stripe" => Cardinality(lost) < 1) => Lives(v, lost)
           /\ lost = {v.disks[i] : i \in 1 .. (Parity(v) + 1)} => ~Lives(v, lost)
<1> DEFINE s == v.disks
           n == Len(s)
           all == ToSet(s)
           hit == all \cap lost
<1>1. s \in Seq(D) /\ n \in Nat /\ DOMAIN s = 1 .. n
  BY DEF VdevOf
<1>2. /\ Parity(v) \in Nat /\ Parity(v) < n
      /\ v.kind = "stripe" => Parity(v) = 0
      /\ v.kind = "mirror" => Parity(v) = n - 1
  BY ParityOf
<1>3. IsFiniteSet(all) /\ Cardinality(all) = n
  <2>1. \A x : x \in all <=> \E i \in 1 .. n : x = s[i]
    BY <1>1 DEF ToSet
  <2>2. n \in 0 .. Len(s)
    BY <1>1
  <2> HIDE DEF all
  <2> QED
    BY <1>1, <2>1, <2>2, FirstOf
<1>4. /\ IsFiniteSet(hit) /\ Cardinality(hit) \in Nat /\ Cardinality(lost) \in Nat
      /\ Cardinality(hit) <= Cardinality(lost)
      /\ all \subseteq lost => n <= Cardinality(lost)
  <2> HIDE DEF all
  <2>1. /\ IsFiniteSet(hit) /\ Cardinality(hit) <= Cardinality(lost)
    BY FS_Intersection
  <2>2. Cardinality(hit) \in Nat /\ Cardinality(lost) \in Nat
    BY <2>1, FS_CardinalityType
  <2>3. all \subseteq lost => n <= Cardinality(lost)
    BY <1>3, FS_Subset
  <2> QED
    BY <2>1, <2>2, <2>3
<1>5. /\ v.kind = "stripe" => (Lives(v, lost) <=> all \ lost = all)
      /\ v.kind = "mirror" => (Lives(v, lost) <=> all \ lost # {})
      /\ v.kind # "stripe" /\ v.kind # "mirror" => (Lives(v, lost) <=> Cardinality(hit) <= Parity(v))
  BY DEF Lives
<1> HIDE DEF hit
<1>6. ASSUME Cardinality(lost) <= Parity(v), v.kind = "stripe" => Cardinality(lost) < 1
      PROVE  Lives(v, lost)
  <2> HIDE DEF all
  <2>1. CASE v.kind = "stripe"
    <3>1. Cardinality(lost) = 0
      BY <1>4, <1>6, <2>1
    <3>2. lost = {}
      BY <3>1, FS_EmptySet
    <3> QED
      BY <1>5, <2>1, <3>2
  <2>2. CASE v.kind = "mirror"
    <3>1. ~(all \subseteq lost)
      BY <1>1, <1>2, <1>4, <1>6, <2>2
    <3> QED
      BY <1>5, <2>2, <3>1
  <2>3. CASE v.kind # "stripe" /\ v.kind # "mirror"
    BY <1>2, <1>4, <1>5, <1>6, <2>3
  <2> QED
    BY <2>1, <2>2, <2>3
<1>7. ASSUME lost = {s[i] : i \in 1 .. (Parity(v) + 1)}
      PROVE  ~Lives(v, lost)
  <2>1. lost \subseteq all /\ Cardinality(lost) = Parity(v) + 1
    <3> DEFINE k == Parity(v) + 1
    <3>1. k \in 0 .. Len(s)
      BY <1>1, <1>2
    <3>2. \A x : x \in lost <=> \E i \in 1 .. k : x = s[i]
      BY <1>7
    <3> QED
      BY <1>1, <3>1, <3>2, FirstOf
  <2>2. hit = lost
    BY <2>1 DEF hit
  <2>3. lost # {}
    BY <1>2, <2>1, FS_EmptySet
  <2> HIDE DEF all
  <2>4. CASE v.kind = "stripe"
    BY <1>5, <2>1, <2>3, <2>4
  <2>5. CASE v.kind = "mirror"
    <3>1. Cardinality(lost) = Cardinality(all)
      BY <1>1, <1>2, <1>3, <2>1, <2>5
    <3>2. lost = all
      BY <1>3, <2>1, <3>1, FS_Subset
    <3> QED
      BY <1>5, <2>5, <3>2
  <2>6. CASE v.kind # "stripe" /\ v.kind # "mirror"
    BY <1>2, <1>5, <2>1, <2>2, <2>6
  <2> QED
    BY <2>4, <2>5, <2>6
<1> QED
  BY <1>6, <1>7

\* Whatever layout is on the table: if it is valid, the number in the summary is exact.
LEMMA ToleranceOfLayouts == LayoutTyped => ToleranceIsExact
<1> SUFFICES ASSUME LayoutTyped, Validate(vdevs) PROVE ToleranceIsExact!2
  BY DEF ToleranceIsExact
<1> DEFINE D == DOMAIN disks
           hold == OfRole(vdevs, "data")
           all == UNION {ToSet(v.disks) : v \in hold}
           ft == FaultTolerance(vdevs)
           ps == {Parity(v) : v \in hold}
<1>1. vdevs \in Seq(VdevOf(D)) /\ IsFiniteSet(D)
  BY FS_Interval DEF LayoutTyped
<1>2. ASSUME NEW v \in hold
      PROVE  /\ v \in VdevOf(D) /\ Len(v.disks) >= MinDisks(v)
             /\ \A i, j \in 1 .. Len(v.disks) : v.disks[i] = v.disks[j] => i = j
             /\ ToSet(v.disks) \subseteq all
  <2>1. PICK k \in DOMAIN vdevs : v = vdevs[k]
    BY DEF OfRole, ToSet
  <2>2. v \in ToSet(vdevs)
    BY DEF OfRole
  <2>3. v \in VdevOf(D)
    BY <1>1, <2>1
  <2>4. DOMAIN v.disks = 1 .. Len(v.disks)
    BY <2>3 DEF VdevOf
  <2> QED
    BY <2>1, <2>2, <2>3, <2>4 DEF Validate
<1>3. all \subseteq D
  <2>1. ASSUME NEW v \in hold, NEW d \in ToSet(v.disks) PROVE d \in D
    BY <1>2 DEF ToSet, VdevOf
  <2> QED
    BY <2>1
<1>4. hold # {}
  BY DEF Validate
<1>5. \A v \in hold : Parity(v) \in Nat /\ Parity(v) < Len(v.disks)
  BY <1>2, ParityOf
<1>6. PICK weak \in hold : ft = Parity(weak) /\ \A v \in hold : ft <= Parity(v)
  <2>1. ps \in SUBSET Nat /\ ps # {}
    BY <1>4, <1>5
  <2>2. \E p \in ps : \A q \in ps : p <= q
    BY <2>1, LeastOf
  <2>3. ft = CHOOSE p \in ps : \A q \in ps : p <= q
    BY <2>1 DEF FaultTolerance
  <2> QED
    BY <2>2, <2>3
<1> HIDE DEF ft, hold, all
<1>7. ASSUME ft > 0, NEW lost \in kSubset(ft, all), NEW v \in hold
      PROVE  Lives(v, lost)
  <2>1. lost \subseteq all /\ Cardinality(lost) = ft
    BY DEF kSubset
  <2>2. IsFiniteSet(lost)
    BY <1>1, <1>3, <2>1, FS_Subset
  <2>3. Cardinality(lost) <= Parity(v) /\ v.kind # "stripe"
    BY <1>2, <1>6, <1>7, <2>1, ParityOf
  <2> QED
    BY <1>2, <2>2, <2>3, LivesByParity
<1>8. \E lost \in kSubset(ft + 1, all) : \E v \in hold : ~Lives(v, lost)
  <2> DEFINE lost == {weak.disks[i] : i \in 1 .. (ft + 1)}
  <2>1. lost \subseteq ToSet(weak.disks) /\ IsFiniteSet(lost) /\ Cardinality(lost) = ft + 1
    <3> DEFINE s == weak.disks
               k == ft + 1
    <3>1. s \in Seq(D) /\ k \in 0 .. Len(s) /\ \A i, j \in 1 .. Len(s) : s[i] = s[j] => i = j
      BY <1>2, <1>5, <1>6 DEF VdevOf
    <3>2. \A x : x \in lost <=> \E i \in 1 .. k : x = s[i]
      OBVIOUS
    <3> HIDE DEF s, k, lost
    <3>3. lost \subseteq ToSet(s) /\ IsFiniteSet(lost) /\ Cardinality(lost) = k
      BY <3>1, <3>2, FirstOf
    <3> QED
      BY <3>3 DEF s, k
  <2>2. ~Lives(weak, lost)
    BY <1>2, <1>6, <2>1, LivesByParity
  <2>3. lost \in kSubset(ft + 1, all)
    BY <1>2, <2>1 DEF kSubset
  <2> QED
    BY <2>2, <2>3
<1> QED
  BY <1>7, <1>8 DEF ft, hold, all

\* A list of the members of a set, each once.
Lines(s, S) ==
    /\ s \in Seq(S) /\ Len(s) = Cardinality(S)
    /\ \A i, j \in 1 .. Len(s) : s[i] = s[j] => i = j
    /\ \A x \in S : \E i \in 1 .. Len(s) : s[i] = x

\* Disks by their size, disks of one size in the order of the shelf: each is there,
\* and once.
LEMMA BySizeLines ==
    ASSUME NEW ds \in Seq(Drive), NEW S \in SUBSET DOMAIN ds, NEW larger \in BOOLEAN
    PROVE  Lines(BySize(ds, S, larger), S)
<1> DEFINE before(a, b) == IF ds[a].bytes = ds[b].bytes THEN a < b
                           ELSE (ds[a].bytes > ds[b].bytes) = larger
           below == [x \in S |-> {y \in S : before(y, x)}]
           pick(i) == CHOOSE x \in S : Cardinality({y \in S : before(y, x)}) = i - 1
           f == [i \in 1 .. Cardinality(S) |-> pick(i)]
<1>1. ASSUME NEW a \in S PROVE a \in Nat /\ ds[a].bytes \in Nat
  <2>1. a \in 1 .. Len(ds) /\ ds[a] \in Drive
    OBVIOUS
  <2> QED
    BY <2>1 DEF Drive
<1>2. IsFiniteSet(S) /\ Cardinality(S) \in Nat
  <2>1. DOMAIN ds = 1 .. Len(ds) /\ Len(ds) \in Nat
    OBVIOUS
  <2>2. IsFiniteSet(DOMAIN ds)
    BY <2>1, FS_Interval
  <2> QED
    BY <2>2, FS_Subset, FS_CardinalityType
<1>3. /\ \A a \in S : ~before(a, a)
      /\ \A a, b \in S : a # b => before(a, b) \/ before(b, a)
      /\ \A a, b, c \in S : before(a, b) /\ before(b, c) => before(a, c)
  <2>1. \A a, b \in S : before(a, b) <=>
            \/ ds[a].bytes = ds[b].bytes /\ a < b
            \/ ds[a].bytes > ds[b].bytes /\ larger
            \/ ds[a].bytes < ds[b].bytes /\ ~larger
    BY <1>1
  <2> HIDE DEF before
  <2> QED
    BY <1>1, <2>1
<1>4. BySize(ds, S, larger) = f
  BY DEF BySize, InOrder
<1> HIDE DEF before
<1>5. /\ below \in [S -> SUBSET S]
      /\ \A a, b \in S : a \in below[b] <=> before(a, b)
      /\ \A x \in S : {y \in S : before(y, x)} = below[x]
  OBVIOUS
<1> HIDE DEF below
<1>6. ASSUME NEW i \in 1 .. Cardinality(S)
      PROVE  pick(i) \in S /\ Cardinality(below[pick(i)]) = i - 1
  <2>1. \E x \in S : Cardinality(below[x]) = i - 1
    BY <1>2, <1>3, <1>5, Places
  <2>2. \E z \in S : Cardinality({y \in S : before(y, z)}) = i - 1
    BY <1>5, <2>1
  <2>3. pick(i) \in S /\ Cardinality({y \in S : before(y, pick(i))}) = i - 1
    BY <2>2
  <2> HIDE DEF pick
  <2> QED
    BY <1>5, <2>3
<1> HIDE DEF pick
<1>7. f \in [1 .. Cardinality(S) -> S] /\ \A i \in 1 .. Cardinality(S) : f[i] = pick(i)
  BY <1>6
<1> HIDE DEF f
<1>8. f \in Seq(S) /\ Len(f) = Cardinality(S)
  BY <1>2, <1>7, IsSeq
<1>9. \A i \in 1 .. Len(f) : f[i] \in S /\ Cardinality(below[f[i]]) = i - 1
  BY <1>6, <1>7, <1>8
<1>10. /\ \A x \in S : Cardinality(below[x]) \in 0 .. (Cardinality(S) - 1)
       /\ \A a, b \in S : Cardinality(below[a]) = Cardinality(below[b]) => a = b
  BY <1>2, <1>3, <1>5, RanksDiffer
<1>11. \A i, j \in 1 .. Len(f) : f[i] = f[j] => i = j
  <2> SUFFICES ASSUME NEW i \in 1 .. Len(f), NEW j \in 1 .. Len(f), f[i] = f[j] PROVE i = j
    OBVIOUS
  <2>1. Cardinality(below[f[i]]) = i - 1 /\ Cardinality(below[f[i]]) = j - 1
    BY <1>9
  <2> QED
    BY <2>1
<1>12. \A x \in S : \E i \in 1 .. Len(f) : f[i] = x
  <2> SUFFICES ASSUME NEW x \in S PROVE \E i \in 1 .. Len(f) : f[i] = x
    OBVIOUS
  <2>1. PICK p \in 0 .. (Cardinality(S) - 1) : p = Cardinality(below[x])
    BY <1>10
  <2>2. p + 1 \in 1 .. Len(f) /\ (p + 1) - 1 = p
    BY <1>2, <1>8
  <2>3. f[p + 1] \in S /\ Cardinality(below[f[p + 1]]) = p
    BY <1>9, <2>2
  <2>4. f[p + 1] = x
    BY <1>10, <2>1, <2>3
  <2> QED
    BY <2>2, <2>4
<1> QED
  BY <1>4, <1>8, <1>11, <1>12 DEF Lines

\* Such a list is of disks of the shelf.
LEMMA BySizeTyped ==
    ASSUME NEW ds \in Seq(Drive), NEW S \in SUBSET DOMAIN ds, NEW larger \in BOOLEAN
    PROVE  BySize(ds, S, larger) \in Seq(S) /\ Len(BySize(ds, S, larger)) = Cardinality(S)
BY BySizeLines DEF Lines

\* The offers, by the rank of their badges.
LEMMA RankedTyped ==
    ASSUME NEW offers, IsFiniteSet(offers),
           \A o \in offers : o.no \in Nat /\ o.rank \in Nat,
           \A o, p \in offers : o.no = p.no => o = p
    PROVE  Ranked(offers) \in Seq(offers)
<1> DEFINE before(a, b) == a.rank < b.rank \/ (a.rank = b.rank /\ a.no < b.no)
           below == [x \in offers |-> {y \in offers : before(y, x)}]
           pick(i) == CHOOSE x \in offers : Cardinality({y \in offers : before(y, x)}) = i - 1
           f == [i \in 1 .. Cardinality(offers) |-> pick(i)]
<1>1. /\ \A a \in offers : ~before(a, a)
      /\ \A a, b \in offers : a # b => before(a, b) \/ before(b, a)
      /\ \A a, b, c \in offers : before(a, b) /\ before(b, c) => before(a, c)
  OBVIOUS
<1>2. Ranked(offers) = f
  BY DEF Ranked, InOrder
<1> HIDE DEF before
<1>3. /\ below \in [offers -> SUBSET offers]
      /\ \A a, b \in offers : a \in below[b] <=> before(a, b)
      /\ \A x \in offers : {y \in offers : before(y, x)} = below[x]
  OBVIOUS
<1> HIDE DEF below
<1>4. ASSUME NEW i \in 1 .. Cardinality(offers)
      PROVE  pick(i) \in offers
  <2>1. \E x \in offers : Cardinality(below[x]) = i - 1
    BY <1>1, <1>3, Places
  <2>2. \E z \in offers : Cardinality({y \in offers : before(y, z)}) = i - 1
    BY <1>3, <2>1
  <2> QED
    BY <2>2
<1> HIDE DEF pick
<1>5. f \in [1 .. Cardinality(offers) -> offers]
  BY <1>4
<1> HIDE DEF f
<1>6. Cardinality(offers) \in Nat
  BY FS_CardinalityType
<1>7. f \in Seq(offers)
  BY <1>5, <1>6, IsSeq
<1> QED
  BY <1>2, <1>7

\* A vdev of disks that are there.
LEMMA VdevTyped ==
    ASSUME NEW D, NEW kd \in VdevKinds, NEW role \in ToSet(Roles) \cup {"data"}, NEW s \in Seq(D)
    PROVE  Vdev(kd, role, s) \in VdevOf(D)
BY DEF Vdev, VdevOf

\* The kinds and roles that are proposed.
LEMMA KindsAndRoles ==
    /\ {"stripe", "mirror", "raidz1", "raidz2", "raidz3", "draid2"} \subseteq VdevKinds
    /\ {"data", "log", "cache", "spare"} \subseteq ToSet(Roles) \cup {"data"}
<1>1. DOMAIN Raidz = {"raidz1", "raidz2", "raidz3"} /\ DOMAIN Draid = {"draid1", "draid2", "draid3"}
  BY DEF Raidz, Draid
<1>2. Roles[3] = "log" /\ Roles[4] = "cache" /\ Roles[5] = "spare" /\ DOMAIN Roles = 1 .. 5
  BY DEF Roles
<1>3. {"log", "cache", "spare"} \subseteq ToSet(Roles)
  <2> HIDE DEF Roles
  <2>1. 3 \in DOMAIN Roles /\ 4 \in DOMAIN Roles /\ 5 \in DOMAIN Roles
    BY <1>2
  <2> QED
    BY <1>2, <2>1 DEF ToSet
<1> QED
  BY <1>1, <1>3 DEF VdevKinds

\* The place where a cut falls is in the sequence.
LEMMA CutInside ==
    ASSUME NEW L \in Nat, NEW k \in Nat \ {0}, NEW i \in 0 .. k
    PROVE  (i * L) \div k \in 0 .. L
<1> DEFINE q == (i * L) \div k
<1>1. i * L \in Nat /\ i * L <= k * L
  OBVIOUS
<1>2. q \in Nat /\ k * q <= i * L
  BY <1>1
<1>3. ~(q > L)
  <2> HIDE DEF q
  <2> SUFFICES ASSUME q >= L + 1 PROVE FALSE
    BY <1>2
  <2>1. k * q >= k * (L + 1)
    BY <1>2
  <2>2. k * (L + 1) = k * L + k
    OBVIOUS
  <2> QED
    BY <1>1, <1>2, <2>1, <2>2
<1> QED
  BY <1>2, <1>3

\* Pieces cut from a list of the shelf's disks hold disks of the shelf.
LEMMA SplitTyped ==
    ASSUME NEW D, NEW s \in Seq(D), NEW k \in Nat \ {0}
    PROVE  Split(s, k) \in [1 .. k -> Seq(D)]
<1> DEFINE lo(i) == ((i - 1) * Len(s)) \div k + 1
           hi(i) == (i * Len(s)) \div k
<1>1. ASSUME NEW i \in 1 .. k
      PROVE  SubSeq(s, lo(i), hi(i)) \in Seq(D)
  <2>1. lo(i) \in 1 .. (Len(s) + 1) /\ Len(s) \in Nat /\ hi(i) \in 0 .. Len(s)
    <3>1. Len(s) \in Nat /\ i \in 0 .. k /\ i - 1 \in 0 .. k
      OBVIOUS
    <3>2. ((i - 1) * Len(s)) \div k \in 0 .. Len(s)
      BY <3>1, CutInside
    <3>3. (i * Len(s)) \div k \in 0 .. Len(s)
      BY <3>1, CutInside
    <3> QED
      BY <3>1, <3>2, <3>3
  <2> HIDE DEF lo, hi
  <2>2. lo(i) \in Int /\ hi(i) \in Int /\ \A j \in lo(i) .. hi(i) : s[j] \in D
    BY <2>1
  <2> QED
    BY <2>2, SubSeqProperties
<1>2. Split(s, k) = [i \in 1 .. k |-> SubSeq(s, lo(i), hi(i))]
  BY DEF Split
<1> HIDE DEF lo, hi
<1> QED
  BY <1>1, <1>2

\* The RAIDZ vdevs a suggestion cuts its data disks into are vdevs of the shelf.
LEMMA RaidzTyped ==
    ASSUME NEW D, NEW s \in Seq(D), NEW kd \in VdevKinds, NEW wide \in Nat \ {0}, Len(s) >= 1
    PROVE  RaidzOf(s, kd, wide) \in Seq(VdevOf(D))
<1> DEFINE k == (Len(s) + wide - 1) \div wide
           gs == Split(s, k)
           f == [i \in 1 .. k |-> Vdev(kd, "data", gs[i])]
<1>1. k \in Nat \ {0}
  <2>1. Len(s) + wide - 1 >= wide /\ Len(s) + wide - 1 \in Nat
    OBVIOUS
  <2> QED
    BY <2>1
<1> HIDE DEF k
<1>2. gs \in [1 .. k -> Seq(D)]
  BY <1>1, SplitTyped
<1> HIDE DEF gs
<1>3. f \in [1 .. k -> VdevOf(D)]
  BY <1>2, VdevTyped
<1>4. RaidzOf(s, kd, wide) = f
  <2>1. RaidzOf(s, kd, wide) = [i \in DOMAIN gs |-> Vdev(kd, "data", gs[i])]
    BY DEF RaidzOf, gs, k
  <2> QED
    BY <1>2, <2>1
<1> HIDE DEF f
<1> QED
  BY <1>1, <1>3, <1>4, IsSeq

\* So are the mirrors it pairs them into.
LEMMA MirrorsTyped ==
    ASSUME NEW D, NEW s \in Seq(D), Len(s) >= 1
    PROVE  Mirrors(s) \in Seq(VdevOf(D))
<1> DEFINE k == Len(s) \div 2
           pair(i) == SubSeq(s, 2 * i - 1, 2 * i)
           f == [i \in 1 .. k |-> Vdev("mirror", "data", pair(i))]
           odd == IF Len(s) % 2 = 1 THEN <<Vdev("stripe", "spare", <<s[Len(s)]>>)>> ELSE <<>>
<1>1. k \in Nat /\ 2 * k <= Len(s)
  OBVIOUS
<1>2. ASSUME NEW i \in 1 .. k
      PROVE  pair(i) \in Seq(D)
  <2>1. 2 * i - 1 \in Int /\ 2 * i \in Int /\ \A j \in (2 * i - 1) .. (2 * i) : s[j] \in D
    BY <1>1
  <2> QED
    BY <2>1, SubSeqProperties
<1>3. Mirrors(s) = f \o odd
  BY DEF Mirrors
<1> HIDE DEF k, pair
<1>4. f \in Seq(VdevOf(D))
  <2>1. f \in [1 .. k -> VdevOf(D)]
    BY <1>2, VdevTyped, KindsAndRoles
  <2> HIDE DEF f
  <2> QED
    BY <1>1, <2>1, IsSeq
<1>5. odd \in Seq(VdevOf(D))
  <2>1. <<s[Len(s)]>> \in Seq(D)
    OBVIOUS
  <2>2. Vdev("stripe", "spare", <<s[Len(s)]>>) \in VdevOf(D)
    BY <2>1, VdevTyped, KindsAndRoles
  <2> QED
    BY <2>2
<1> HIDE DEF f, odd
<1> QED
  BY <1>3, <1>4, <1>5, ConcatProperties

\* A dRAID layout that is found gives a number of data disks per group and a
\* number of spares.
LEMMA DraidTyped ==
    ASSUME NEW n, NEW parity, DraidLayout(n, parity) # <<>>
    PROVE  DraidLayout(n, parity)[1] \in Nat /\ DraidLayout(n, parity)[2] \in Nat
<1> DEFINE fits(s) == {d \in 2 .. 8 : n - s >= d + parity /\ (n - s) % (d + parity) = 0}
           spares == IF fits(1) # {} THEN 1 ELSE IF fits(2) # {} THEN 2 ELSE 0
           d == Max(fits(spares))
<1>1. fits(spares) \in SUBSET (0 .. 8) /\ spares \in Nat
  OBVIOUS
<1>2. DraidLayout(n, parity) = IF fits(spares) = {} THEN <<>> ELSE <<d, spares>>
  BY DEF DraidLayout
<1> HIDE DEF fits, spares
<1>3. fits(spares) # {} /\ DraidLayout(n, parity) = <<d, spares>>
  BY <1>2
<1>4. d \in 0 .. 8
  BY <1>1, <1>3, MaxOf
<1> HIDE DEF d
<1> QED
  BY <1>1, <1>3, <1>4

\* So the dRAID of a suggestion, when a layout is found, is a vdev of the shelf.
LEMMA DraidOfTyped ==
    ASSUME NEW D, NEW s \in Seq(D), DraidLayout(Len(s), 2) # <<>>
    PROVE  DraidOf(s) \in Seq(VdevOf(D))
<1> DEFINE dl == DraidLayout(Len(s), 2)
           v == Vdev("draid2", "data", s)
           w == [v EXCEPT !.data = dl[1], !.spares = dl[2]]
<1>1. dl[1] \in Nat /\ dl[2] \in Nat
  BY DraidTyped
<1>2. v \in VdevOf(D)
  BY VdevTyped, KindsAndRoles
<1>3. DraidOf(s) = <<w>>
  BY DEF DraidOf
<1> HIDE DEF dl, v
<1>4. w \in VdevOf(D)
  BY <1>1, <1>2 DEF VdevOf
<1> HIDE DEF w
<1> QED
  BY <1>3, <1>4

\* What is offered: layouts of these disks, each under a number of its own.
LEMMA OffersTyped ==
    ASSUME NEW D, NEW s \in Seq(D), Len(s) >= 1, NEW big
    PROVE  /\ IsFiniteSet(Offers(s, big))
           /\ \A o \in Offers(s, big) : o.no \in 1 .. 6 /\ o.rank \in Nat /\ o.vdevs \in Seq(VdevOf(D))
           /\ \A o, p \in Offers(s, big) : o.no = p.no => o = p
<1> DEFINE n == Len(s)
           offers == Offers(s, big)
           is(no, rank, vs) == [no |-> no, rank |-> rank, vdevs |-> vs]
           r1 == IF n <= 4 THEN 0 ELSE 1
           r2 == IF n >= 6 \/ big THEN 4 ELSE 0
           r3 == IF n < 6 THEN 3 ELSE 0
           r5 == IF n >= 12 THEN 0 ELSE 2
           d1 == Mirrors(s)
           d2 == RaidzOf(s, "raidz1", 8)
           d3 == RaidzOf(s, "raidz2", 12)
           d4 == RaidzOf(s, "raidz3", 15)
           d5 == DraidOf(s)
           d6 == <<Vdev("stripe", "data", s)>>
           o1 == is(1, r1, d1)
           o2 == is(2, r2, d2)
           o3 == is(3, r3, d3)
           o4 == is(4, 3, d4)
           o5 == is(5, r5, d5)
           o6 == is(6, 5, d6)
<1>1. offers = (IF n >= 2 THEN {o1} ELSE {}) \cup (IF n >= 3 THEN {o2} ELSE {})
               \cup (IF n >= 4 THEN {o3} ELSE {}) \cup (IF n >= 6 THEN {o4} ELSE {})
               \cup (IF n >= 8 /\ DraidLayout(n, 2) # <<>> THEN {o5} ELSE {})
               \cup (IF TRUE THEN {o6} ELSE {})
  BY Zenon DEF Offers
<1>2. /\ r1 \in Nat /\ r2 \in Nat /\ r3 \in Nat /\ r5 \in Nat
  OBVIOUS
<1>3. /\ d1 \in Seq(VdevOf(D)) /\ d2 \in Seq(VdevOf(D)) /\ d3 \in Seq(VdevOf(D)) /\ d4 \in Seq(VdevOf(D))
      /\ d6 \in Seq(VdevOf(D))
  <2>1. d1 \in Seq(VdevOf(D))
    BY MirrorsTyped
  <2>2. d2 \in Seq(VdevOf(D)) /\ d3 \in Seq(VdevOf(D)) /\ d4 \in Seq(VdevOf(D))
    BY RaidzTyped, KindsAndRoles
  <2>3. Vdev("stripe", "data", s) \in VdevOf(D)
    BY VdevTyped, KindsAndRoles
  <2> QED
    BY <2>1, <2>2, <2>3
<1>4. DraidLayout(n, 2) # <<>> => d5 \in Seq(VdevOf(D))
  BY DraidOfTyped
<1> HIDE DEF r1, r2, r3, r5, d1, d2, d3, d4, d5, d6
<1>5. /\ o1.no = 1 /\ o1.rank = r1 /\ o1.vdevs = d1
      /\ o2.no = 2 /\ o2.rank = r2 /\ o2.vdevs = d2
      /\ o3.no = 3 /\ o3.rank = r3 /\ o3.vdevs = d3
      /\ o4.no = 4 /\ o4.rank = 3 /\ o4.vdevs = d4
      /\ o5.no = 5 /\ o5.rank = r5 /\ o5.vdevs = d5
      /\ o6.no = 6 /\ o6.rank = 5 /\ o6.vdevs = d6
  OBVIOUS
<1> HIDE DEF o1, o2, o3, o4, o5, o6, offers
<1>6. \A o \in offers : o \in {o1, o2, o3, o4, o6} \/ (o = o5 /\ DraidLayout(n, 2) # <<>>)
  BY <1>1
<1>7. \A o \in offers : o.no \in 1 .. 6 /\ o.rank \in Nat /\ o.vdevs \in Seq(VdevOf(D))
  <2> SUFFICES ASSUME NEW o \in offers
               PROVE  o.no \in 1 .. 6 /\ o.rank \in Nat /\ o.vdevs \in Seq(VdevOf(D))
    OBVIOUS
  <2>1. CASE o = o1 \/ o = o2 \/ o = o3
    <3>1. d1 \in Seq(VdevOf(D)) /\ d2 \in Seq(VdevOf(D)) /\ d3 \in Seq(VdevOf(D))
      BY <1>3
    <3>2. o.no \in 1 .. 6 /\ o.rank \in Nat
      BY <1>2, <1>5, <2>1
    <3>3. o.vdevs = d1 \/ o.vdevs = d2 \/ o.vdevs = d3
      BY <1>5, <2>1
    <3> QED
      BY <3>1, <3>2, <3>3
  <2>2. CASE o \in {o4, o6}
    BY <1>3, <1>5, <2>2
  <2>3. CASE o = o5 /\ DraidLayout(n, 2) # <<>>
    BY <1>2, <1>4, <1>5, <2>3
  <2> QED
    BY <1>6, <2>1, <2>2, <2>3
<1>8. \A o, p \in offers : o.no = p.no => o = p
  BY <1>5, <1>6
<1>9. IsFiniteSet(offers)
  <2> DEFINE f == [o \in offers |-> o.no]
             top == 6
  <2>1. f \in [offers -> 1 .. top] /\ top \in Int /\ \A o, p \in offers : f[o] = f[p] => o = p
    BY <1>7, <1>8
  <2> HIDE DEF f, top
  <2>2. f \in Injection(offers, 1 .. top)
    BY <2>1, Fun_IsInj
  <2>3. IsFiniteSet(1 .. top)
    BY <2>1, FS_Interval
  <2> QED
    BY <2>2, <2>3, FS_Injection
<1> QED
  BY <1>7, <1>8, <1>9 DEF offers

\* The log and the cache are of disks of the shelf.
LEMMA ExtrasTyped ==
    ASSUME NEW ds \in Seq(Drive), NEW ticks \in SUBSET DOMAIN ds
    PROVE  Extras(ds, ticks) \in Seq(VdevOf(DOMAIN ds))
<1> DEFINE D == DOMAIN ds
           left == {d \in DOMAIN ds \ ticks : ds[d].fast /\ ~ds[d].inUse}
           fast == BySize(ds, left, FALSE)
           none == fast = <<>> \/ \A d \in ticks : ds[d].fast
           one == <<Vdev("stripe", "log", fast)>>
           log == Vdev("mirror", "log", SubSeq(fast, 1, 2))
           rest == IF Len(fast) = 2 THEN <<>> ELSE <<Vdev("stripe", "cache", SubSeq(fast, 3, Len(fast)))>>
<1>1. fast \in Seq(D)
  <2>1. left \in SUBSET DOMAIN ds
    OBVIOUS
  <2> HIDE DEF left
  <2>2. fast \in Seq(left)
    BY <2>1, BySizeTyped
  <2> HIDE DEF fast
  <2> QED
    BY <2>1, <2>2
<1>2. Extras(ds, ticks) = IF none THEN <<>>
                         ELSE IF Len(fast) = 1 THEN one ELSE <<log>> \o rest
  BY DEF Extras
<1> HIDE DEF fast
<1>3. one \in Seq(VdevOf(D))
  <2>1. Vdev("stripe", "log", fast) \in VdevOf(D)
    BY <1>1, VdevTyped, KindsAndRoles
  <2> QED
    BY <2>1
<1>4. ASSUME fast # <<>>, Len(fast) # 1
      PROVE  <<log>> \o rest \in Seq(VdevOf(D))
  <2>1. Len(fast) \in Nat /\ Len(fast) >= 2 /\ \A i \in 1 .. Len(fast) : fast[i] \in D
    <3>1. Len(fast) \in Nat /\ Len(fast) # 0
      BY <1>1, <1>4
    <3>2. \A i \in 1 .. Len(fast) : fast[i] \in D
      BY <1>1
    <3>3. \A l \in Nat : l # 0 /\ l # 1 => l >= 2
      OBVIOUS
    <3>4. Len(fast) >= 2
      BY <1>4, <3>1, <3>3, Zenon
    <3> QED
      BY <3>1, <3>2, <3>4
  <2>2. SubSeq(fast, 1, 2) \in Seq(D)
    BY <2>1, SubSeqProperties
  <2>3. SubSeq(fast, 3, Len(fast)) \in Seq(D)
    BY <2>1, SubSeqProperties
  <2>4. log \in VdevOf(D)
    BY <2>2, VdevTyped, KindsAndRoles
  <2>5. Vdev("stripe", "cache", SubSeq(fast, 3, Len(fast))) \in VdevOf(D)
    BY <2>3, VdevTyped, KindsAndRoles
  <2>6. rest \in Seq(VdevOf(D))
    <3> DEFINE cache == Vdev("stripe", "cache", SubSeq(fast, 3, Len(fast)))
    <3> HIDE DEF cache
    <3>1. <<cache>> \in Seq(VdevOf(D))
      BY <2>5 DEF cache
    <3>2. <<>> \in Seq(VdevOf(D))
      OBVIOUS
    <3> QED
      BY <1>1, <3>1, <3>2, Zenon DEF cache
  <2> HIDE DEF log, rest
  <2>7. <<log>> \in Seq(VdevOf(D))
    BY <2>4
  <2> QED
    BY <2>6, <2>7, ConcatProperties
<1>5. ~none => fast # <<>>
  OBVIOUS
<1> HIDE DEF none, one, log, rest
<1>6. CASE none
  BY <1>2, <1>6
<1>7. CASE ~none
  BY <1>2, <1>3, <1>4, <1>5, <1>7
<1> QED
  BY <1>6, <1>7

\* Every candidate is a layout.
LEMMA SuggestTyped ==
    ASSUME NEW ds \in Seq(Drive), NEW ticks \in SUBSET DOMAIN ds
    PROVE  Suggest(ds, ticks) \in Seq(Seq(VdevOf(DOMAIN ds)))
<1> DEFINE D == DOMAIN ds
           os == BySize(ds, ticks, TRUE)
           offers == Offers(os, ds[os[1]].bytes >= 8)
           order == Ranked(offers)
           extras == Extras(ds, ticks)
           f == [i \in DOMAIN order |-> order[i].vdevs \o extras]
<1>1. Suggest(ds, ticks) = IF ticks = {} THEN <<>> ELSE f
  BY DEF Suggest
<1>2. CASE ticks = {}
  BY <1>1, <1>2
<1>3. CASE ticks # {}
  <2>1. os \in Seq(D) /\ Len(os) >= 1
    <3>1. os \in Seq(ticks) /\ Len(os) = Cardinality(ticks)
      BY BySizeTyped
    <3>2. IsFiniteSet(ticks)
      BY FS_Interval, FS_Subset
    <3>3. Cardinality(ticks) \in Nat /\ Cardinality(ticks) # 0
      BY <1>3, <3>2, FS_CardinalityType, FS_EmptySet
    <3> HIDE DEF os
    <3> QED
      BY <3>1, <3>3
  <2> HIDE DEF os
  <2>2. /\ IsFiniteSet(offers)
        /\ \A o \in offers : o.no \in 1 .. 6 /\ o.rank \in Nat /\ o.vdevs \in Seq(VdevOf(D))
        /\ \A o, p \in offers : o.no = p.no => o = p
    BY <2>1, OffersTyped
  <2> HIDE DEF offers
  <2>3. order \in Seq(offers)
    <3>1. \A o \in offers : o.no \in Nat /\ o.rank \in Nat
      BY <2>2
    <3> QED
      BY <2>2, <3>1, RankedTyped
  <2>4. extras \in Seq(VdevOf(D))
    BY ExtrasTyped
  <2> HIDE DEF order, extras
  <2>5. ASSUME NEW i \in DOMAIN order
        PROVE  order[i].vdevs \o extras \in Seq(VdevOf(D))
    <3>1. order[i] \in offers
      BY <2>3
    <3> QED
      BY <2>2, <2>4, <3>1, ConcatProperties
  <2>6. f \in [1 .. Len(order) -> Seq(VdevOf(D))] /\ Len(order) \in Nat
    BY <2>3, <2>5
  <2> HIDE DEF f
  <2>7. f \in Seq(Seq(VdevOf(D)))
    BY <2>6, IsSeq
  <2> QED
    BY <1>1, <1>3, <2>7
<1> QED
  BY <1>2, <1>3

\* The shelf or the ticks change, and the layout is the first candidate.
LEMMA ReflowTyped ==
    ASSUME NEW ds \in Seq(Drive), NEW ticks \in SUBSET DOMAIN ds, Reflow(ds, ticks)
    PROVE  LayoutTyped'
<1> DEFINE cs == Suggest(ds, FreeOf(ds) \cap ticks)
<1>1. FreeOf(ds) \cap ticks \in SUBSET DOMAIN ds
  BY DEF FreeOf
<1>2. cs \in Seq(Seq(VdevOf(DOMAIN ds)))
  BY <1>1, SuggestTyped
<1>3. disks' = ds /\ chosen' = ticks /\ vdevs' = IF cs = <<>> THEN <<>> ELSE cs[1]
  BY DEF Reflow
<1> HIDE DEF cs
<1>4. (IF cs = <<>> THEN <<>> ELSE cs[1]) \in Seq(VdevOf(DOMAIN ds))
  <2>1. CASE cs = <<>>
    BY <2>1
  <2>2. CASE cs # <<>>
    BY <1>2, <2>2
  <2> QED
    BY <2>1, <2>2
<1>5. vdevs' \in Seq(VdevOf(DOMAIN ds))
  BY <1>3, <1>4
<1> QED
  BY <1>3, <1>5 DEF LayoutTyped, VdevOf

\* Taking a disk out of a layout leaves a layout.
LEMMA RemoveTyped ==
    ASSUME NEW S, NEW s \in Seq(S), NEW k \in DOMAIN s
    PROVE  RemoveAt(s, k) \in Seq(S)
<1> DEFINE l == SubSeq(s, 1, k - 1)
           r == SubSeq(s, k + 1, Len(s))
<1>1. k \in 1 .. Len(s) /\ Len(s) \in Nat
  OBVIOUS
<1>2. l \in Seq(S) /\ r \in Seq(S)
  BY <1>1, SubSeqProperties
<1>3. RemoveAt(s, k) = l \o r
  BY DEF RemoveAt
<1> HIDE DEF l, r
<1> QED
  BY <1>2, <1>3, ConcatProperties

\* The disks that are left, in the order of the shelf.
LEMMA InOrderTyped ==
    ASSUME NEW S, IsFiniteSet(S), \A x \in S : x \in Nat
    PROVE  InOrder(S, <) \in Seq(S)
<1> DEFINE below == [x \in S |-> {y \in S : y < x}]
           pick(i) == CHOOSE x \in S : Cardinality({y \in S : y < x}) = i - 1
           f == [i \in 1 .. Cardinality(S) |-> pick(i)]
<1>1. InOrder(S, <) = f
  BY DEF InOrder
<1>2. /\ below \in [S -> SUBSET S]
      /\ \A a, b \in S : a \in below[b] <=> a < b
      /\ \A x \in S : {y \in S : y < x} = below[x]
  OBVIOUS
<1> HIDE DEF below
<1>3. /\ \A a \in S : a \notin below[a]
      /\ \A a, b \in S : a # b => a \in below[b] \/ b \in below[a]
      /\ \A a, b, c \in S : a \in below[b] /\ b \in below[c] => a \in below[c]
  BY <1>2
<1>4. ASSUME NEW i \in 1 .. Cardinality(S)
      PROVE  pick(i) \in S
  <2>1. \E x \in S : Cardinality(below[x]) = i - 1
    <3>1. below \in [S -> SUBSET S]
      BY <1>2
    <3> QED
      BY <1>3, <3>1, Places
  <2>2. \E z \in S : Cardinality({y \in S : y < z}) = i - 1
    BY <1>2, <2>1
  <2> QED
    BY <2>2
<1> HIDE DEF pick
<1>5. f \in [1 .. Cardinality(S) -> S]
  BY <1>4
<1> HIDE DEF f
<1>6. Cardinality(S) \in Nat
  BY FS_CardinalityType
<1> QED
  BY <1>1, <1>5, <1>6, IsSeq

\* A vdev of the disks that are left, with the layout of a dRAID where there is one.
LEMMA AddedTyped ==
    ASSUME NEW D, NEW kd \in VdevKinds, NEW role \in ToSet(Roles) \cup {"data"}, NEW s \in Seq(D),
           NEW typed \in Typed
    PROVE  LaidOut(Vdev(kd, role, s), typed) \in VdevOf(D)
<1> DEFINE v == Vdev(kd, role, s)
           dl == IF IsDraid(v) /\ typed[1] = 0 THEN DraidLayout(Len(v.disks), Parity(v)) ELSE <<>>
           as == IF dl = <<>> THEN typed ELSE dl
<1>1. v \in VdevOf(D)
  BY VdevTyped
<1> HIDE DEF v
<1>2. dl # <<>> => dl[1] \in Nat /\ dl[2] \in Nat
  BY DraidTyped
<1> HIDE DEF dl
<1>3. typed[1] \in Nat /\ typed[2] \in Nat
  BY BuilderAssumption
<1>4. as[1] \in Nat /\ as[2] \in Nat
  BY <1>2, <1>3
<1> HIDE DEF as
<1>5. [v EXCEPT !.data = as[1], !.spares = as[2]] \in VdevOf(D)
  BY <1>1, <1>4 DEF VdevOf
<1>6. LaidOut(v, typed) = IF IsDraid(v) THEN [v EXCEPT !.data = as[1], !.spares = as[2]] ELSE v
  BY DEF LaidOut, as, dl
<1> QED
  BY <1>1, <1>5, <1>6 DEF v

\* The layout keeps to the shelf, whatever is ticked, rescanned, taken away or created.
THEOREM LayoutInvariance == BuilderSpec => []LayoutTyped
<1>1. BuilderInit => LayoutTyped
  <2> SUFFICES ASSUME BuilderInit PROVE LayoutTyped
    OBVIOUS
  <2>1. PICK n \in Shelves, f \in 0 .. Loose, big \in {0, 9} :
            disks = [d \in 1 .. n |-> [bytes |-> big + (d % 3) + 1, fast |-> d > n - f, inUse |-> FALSE]]
    BY DEF BuilderInit
  <2>2. n \in Nat
    BY BuilderAssumption
  <2>3. \A d \in 1 .. n : [bytes |-> big + (d % 3) + 1, fast |-> d > n - f, inUse |-> FALSE] \in Drive
    BY <2>2 DEF Drive
  <2>4. disks \in [1 .. n -> Drive]
    BY <2>1, <2>3
  <2>5. disks \in Seq(Drive)
    BY <2>2, <2>4, IsSeq
  <2> QED
    BY <2>5 DEF LayoutTyped, BuilderInit
<1>2. LayoutTyped /\ [BuilderNext]_builderVars => LayoutTyped'
  <2> SUFFICES ASSUME LayoutTyped, [BuilderNext]_builderVars PROVE LayoutTyped'
    OBVIOUS
  <2> DEFINE D == DOMAIN disks
  <2>0. /\ disks \in Seq(Drive) /\ chosen \in SUBSET D /\ vdevs \in Seq(VdevOf(D))
        /\ Free \in SUBSET D /\ D = 1 .. Len(disks) /\ Len(disks) \in Nat
    BY DEF LayoutTyped, Free, FreeOf
  <2>1. CASE UNCHANGED builderVars
    BY <2>0, <2>1 DEF builderVars, LayoutTyped, VdevOf
  <2>2. CASE Toggle
    <3>1. PICK d \in Free : Reflow(disks, IF d \in chosen THEN chosen \ {d} ELSE chosen \cup {d})
      BY <2>2 DEF Toggle
    <3>2. (IF d \in chosen THEN chosen \ {d} ELSE chosen \cup {d}) \in SUBSET D
      BY <2>0
    <3> QED
      BY <2>0, <3>1, <3>2, ReflowTyped
  <2>3. CASE TickAll
    <3>1. chosen \cup Free \in SUBSET D
      BY <2>0
    <3> QED
      BY <2>0, <2>3, <3>1, ReflowTyped DEF TickAll
  <2>4. CASE Rescan
    <3>1. PICK d \in D : LET ds == [disks EXCEPT ![d].inUse = ~@] IN Reflow(ds, chosen \cap FreeOf(ds))
      BY <2>4 DEF Rescan
    <3> DEFINE one == [disks[d] EXCEPT !.inUse = ~@]
               ds == [disks EXCEPT ![d] = one]
    <3>2. one \in Drive
      <4>1. disks[d] \in Drive
        BY <2>0
      <4> QED
        BY <4>1 DEF Drive
    <3>3. Reflow(ds, chosen \cap FreeOf(ds))
      BY <3>1
    <3> HIDE DEF one
    <3>4. ds \in Seq(Drive) /\ DOMAIN ds = D
      BY <2>0, <3>2
    <3> HIDE DEF ds
    <3>5. chosen \cap FreeOf(ds) \in SUBSET DOMAIN ds
      BY <2>0, <3>4
    <3> QED
      BY <3>3, <3>4, <3>5, ReflowTyped
  <2>5. CASE Use
    <3>1. PICK c \in ToSet(Cands) : vdevs' = c
      BY <2>5 DEF Use
    <3>2. Cands \in Seq(Seq(VdevOf(D)))
      <4>1. Free \cap chosen \in SUBSET D
        BY <2>0
      <4> QED
        BY <2>0, <4>1, SuggestTyped DEF Cands
    <3>3. c \in Seq(VdevOf(D))
      <4>1. PICK i \in DOMAIN Cands : c = Cands[i]
        BY <3>1 DEF ToSet
      <4> HIDE DEF D
      <4> QED
        BY <3>2, <4>1
    <3> QED
      BY <2>0, <2>5, <3>1, <3>3 DEF Use, LayoutTyped, VdevOf
  <2>6. CASE ClearShelf
    BY <2>0, <2>6 DEF ClearShelf, LayoutTyped
  <2>7. CASE ClearLayout
    BY <2>0, <2>7 DEF ClearLayout, LayoutTyped
  <2>8. CASE RemoveVdev
    <3>1. PICK i \in DOMAIN vdevs : vdevs' = RemoveAt(vdevs, i)
      BY <2>8 DEF RemoveVdev
    <3>2. RemoveAt(vdevs, i) \in Seq(VdevOf(D))
      BY <2>0, RemoveTyped
    <3> QED
      BY <2>0, <2>8, <3>1, <3>2 DEF RemoveVdev, LayoutTyped, VdevOf
  <2>9. CASE AddVdev
    <3> DEFINE s == InOrder(Unassigned, <)
    <3>1. s \in Seq(D)
      <4>1. Unassigned \in SUBSET D
        BY <2>0 DEF Unassigned
      <4>2. IsFiniteSet(D)
        BY <2>0, FS_Interval
      <4>3. (\A x \in Unassigned : x \in Nat) /\ Unassigned \in SUBSET Nat /\ IsFiniteSet(Unassigned)
        BY <2>0, <4>1, <4>2, FS_Subset
      <4>4. s \in Seq(Unassigned)
        BY <4>3, InOrderTyped
      <4> HIDE DEF s, D
      <4> QED
        BY <4>1, <4>4
    <3>2. PICK kd \in VdevKinds, role \in ToSet(Roles) \cup {"data"}, typed \in Typed :
              vdevs' = Append(vdevs, LaidOut(Vdev(kd, role, s), typed))
      BY <2>9, Zenon DEF AddVdev
    <3> HIDE DEF s
    <3>3. PICK v \in VdevOf(D) : vdevs' = Append(vdevs, v)
      BY <3>1, <3>2, AddedTyped
    <3>4. Append(vdevs, v) \in Seq(VdevOf(D))
      BY <2>0, AppendProperties
    <3> QED
      BY <2>0, <2>9, <3>3, <3>4 DEF AddVdev, LayoutTyped, VdevOf
  <2>10. CASE CreatePool
    <3> DEFINE used == UNION {ToSet(vdevs[i].disks) : i \in DOMAIN vdevs}
               one(d) == [disks[d] EXCEPT !.inUse = @ \/ d \in used]
               ds == [d \in DOMAIN disks |-> one(d)]
    <3>1. Reflow(ds, {})
      BY <2>10 DEF CreatePool
    <3> HIDE DEF used
    <3>2. ASSUME NEW d \in D PROVE one(d) \in Drive
      <4> DEFINE taken == disks[d].inUse \/ d \in used
      <4>1. disks[d] \in Drive
        BY <2>0
      <4>3. taken \in BOOLEAN
        BY Zenon
      <4>2. one(d) = [disks[d] EXCEPT !.inUse = taken]
        BY Zenon
      <4> HIDE DEF taken
      <4> QED
        BY <4>1, <4>2, <4>3 DEF Drive
    <3> HIDE DEF one
    <3>3. ds \in [1 .. Len(disks) -> Drive]
      BY <2>0, <3>2
    <3> HIDE DEF ds
    <3>4. ds \in Seq(Drive)
      BY <2>0, <3>3, IsSeq
    <3> QED
      BY <3>1, <3>4, ReflowTyped
  <2> QED
    BY <2>1, <2>2, <2>3, <2>4, <2>5, <2>6, <2>7, <2>8, <2>9, <2>10 DEF BuilderNext
<1> QED
  BY <1>1, <1>2, PTL DEF BuilderSpec

\* The number of failures a pool is said to survive is exact, for every shelf and every
\* valid layout that can be put together from it.
THEOREM TolerancesAreExact == BuilderSpec => []ToleranceIsExact
  BY LayoutInvariance, ToleranceOfLayouts, PTL

-----------------------------------------------------------------------------
(* What the parser makes of the words of a layout.                         *)

\* Reading the words s from the state a of the parser ends in the state b.
Reads(a, s, b) ==
    \E f : /\ f[0] = a /\ f[Len(s)] = b
           /\ \A i \in 1 .. Len(s) : f[i] = Word(f[i - 1], s[i])

\* No words are read in no time.
LEMMA ReadsNone == ASSUME NEW a PROVE Reads(a, <<>>, a)
<1> DEFINE f == [i \in {0} |-> a]
<1>1. f[0] = a /\ Len(<<>>) = 0 /\ \A i \in 1 .. Len(<<>>) : FALSE
  OBVIOUS
<1> HIDE DEF f
<1> QED
  BY <1>1 DEF Reads

\* One word.
LEMMA ReadsOne == ASSUME NEW a, NEW w PROVE Reads(a, <<w>>, Word(a, w))
<1> DEFINE b == Word(a, w)
           f == [i \in 0 .. 1 |-> IF i = 0 THEN a ELSE b]
<1>1. f[0] = a /\ f[1] = b
  OBVIOUS
<1>2. Len(<<w>>) = 1 /\ <<w>>[1] = w /\ \A i \in 1 .. 1 : i = 1 /\ i - 1 = 0
  OBVIOUS
<1> HIDE DEF f
<1>3. \A i \in 1 .. 1 : f[i] = Word(f[i - 1], <<w>>[i])
  BY <1>1, <1>2
<1> QED
  BY <1>1, <1>2, <1>3 DEF Reads

\* The words of two lists, one after the other.
LEMMA ReadsBoth ==
    ASSUME NEW W, NEW s \in Seq(W), NEW t \in Seq(W), NEW a, NEW b, NEW c, Reads(a, s, b), Reads(b, t, c)
    PROVE  Reads(a, s \o t, c)
<1> DEFINE m == Len(s)
           n == Len(t)
           r == s \o t
<1>1. /\ m \in Nat /\ n \in Nat /\ Len(r) = m + n
      /\ \A i \in 1 .. m : r[i] = s[i]
      /\ \A i \in 1 .. n : r[m + i] = t[i]
  BY ConcatProperties
<1>2. PICK f : f[0] = a /\ f[m] = b /\ \A i \in 1 .. m : f[i] = Word(f[i - 1], s[i])
  BY DEF Reads
<1>3. PICK g : g[0] = b /\ g[n] = c /\ \A i \in 1 .. n : g[i] = Word(g[i - 1], t[i])
  BY DEF Reads
<1> DEFINE h == [i \in 0 .. (m + n) |-> IF i <= m THEN f[i] ELSE g[i - m]]
<1> HIDE DEF m, n, r
<1>4. \A i \in 0 .. m : h[i] = f[i]
  BY <1>1
<1>5. \A i \in 1 .. n : h[m + i] = g[i]
  BY <1>1
<1> HIDE DEF h
<1>6. h[m] = b /\ h[0] = a
  BY <1>1, <1>2, <1>4
<1>7. h[m + n] = c
  <2>1. CASE n = 0
    BY <1>1, <1>3, <1>6, <2>1
  <2>2. CASE n # 0
    BY <1>1, <1>3, <1>5, <2>2
  <2> QED
    BY <2>1, <2>2
<1>8. ASSUME NEW i \in 1 .. (m + n)
      PROVE  h[i] = Word(h[i - 1], r[i])
  <2>1. CASE i <= m
    <3>1. i \in 1 .. m /\ i \in 0 .. m /\ i - 1 \in 0 .. m
      BY <1>1, <2>1
    <3> QED
      BY <1>1, <1>2, <1>4, <3>1
  <2>2. CASE i > m
    <3> DEFINE l == i - m
    <3>1. l \in 1 .. n /\ i = m + l /\ i - 1 = m + (l - 1)
      BY <1>1, <2>2
    <3> HIDE DEF l
    <3>2. h[i] = g[l] /\ r[i] = t[l]
      BY <1>1, <1>5, <3>1
    <3>3. h[i - 1] = g[l - 1]
      <4>1. CASE l = 1
        <5>1. i - 1 = m /\ l - 1 = 0
          BY <1>1, <3>1, <4>1
        <5> QED
          BY <1>3, <1>6, <5>1
      <4>2. CASE l # 1
        <5>1. l - 1 \in 1 .. n
          BY <1>1, <3>1, <4>2
        <5> QED
          BY <1>5, <3>1, <5>1
      <4> QED
        BY <4>1, <4>2
    <3>4. g[l] = Word(g[l - 1], t[l])
      BY <1>3, <3>1
    <3> QED
      BY <3>2, <3>3, <3>4
  <2> QED
    BY <1>1, <2>1, <2>2
<1> QED
  BY <1>1, <1>6, <1>7, <1>8 DEF Reads, r, m, n

\* The parser reads all the words from its first state.
LEMMA ReadsAll ==
    ASSUME NEW W, NEW s \in Seq(W), NEW b, Reads(Parsed(<<>>, "data", FALSE), s, b)
    PROVE  ParseSpec(s) = b.design
<1> DEFINE n == Len(s)
           first == Parsed(<<>>, "data", FALSE)
           Goes(g) == g = [i \in 0 .. n |-> IF i = 0 THEN first ELSE Word(g[i - 1], s[i])]
           g == CHOOSE g : Goes(g)
<1>1. n \in Nat
  OBVIOUS
<1>2. PICK f : f[0] = first /\ f[n] = b /\ \A i \in 1 .. n : f[i] = Word(f[i - 1], s[i])
  BY DEF Reads
<1>3. ParseSpec(s) = g[n].design
  BY DEF ParseSpec
<1> HIDE DEF n, first
<1>4. \E k : Goes(k)
  <2> DEFINE h == [i \in 0 .. n |-> f[i]]
  <2>1. \A i \in 0 .. n : h[i] = f[i]
    OBVIOUS
  <2>2. h = [i \in 0 .. n |-> h[i]]
    OBVIOUS
  <2> HIDE DEF h
  <2>3. ASSUME NEW i \in 0 .. n
        PROVE  h[i] = IF i = 0 THEN first ELSE Word(h[i - 1], s[i])
    <3>1. CASE i = 0
      BY <1>2, <2>1, <3>1
    <3>2. CASE i # 0
      <4>1. i \in 1 .. n /\ i - 1 \in 0 .. n
        BY <1>1, <3>2
      <4> QED
        BY <1>2, <2>1, <3>2, <4>1
    <3> QED
      BY <3>1, <3>2
  <2>4. Goes(h)
    BY <2>2, <2>3
  <2> HIDE DEF Goes
  <2> QED
    BY <2>4
<1>5. Goes(g)
  <2> HIDE DEF Goes
  <2> QED
    BY <1>4
<1> HIDE DEF g
<1>6. \A i \in 0 .. n : g[i] = IF i = 0 THEN first ELSE Word(g[i - 1], s[i])
  BY <1>5
<1> DEFINE P == {i \in 0 .. n : g[i] = f[i]}
<1>7. 0 \in P
  <2>1. 0 \in 0 .. n
    BY <1>1
  <2> QED
    BY <1>2, <1>6, <2>1
<1>8. ASSUME NEW i \in 1 .. n, i - 1 \in P PROVE i \in P
  <2>1. i \in 0 .. n /\ i # 0 /\ g[i - 1] = f[i - 1]
    BY <1>8
  <2>2. g[i] = Word(g[i - 1], s[i])
    BY <1>6, <2>1
  <2>3. g[i] = f[i]
    BY <1>2, <2>1, <2>2
  <2> QED
    BY <2>1, <2>3
<1>9. \A k \in 0 .. n : k \in P
  <2> HIDE DEF P
  <2> QED
    BY <1>1, <1>7, <1>8, UpTo
<1>10. g[n] = f[n]
  BY <1>1, <1>9
<1> QED
  BY <1>2, <1>3, <1>10

\* The beginnings of a list: of none, and of one more.
LEMMA Longer ==
    ASSUME NEW S, NEW s \in Seq(S)
    PROVE  /\ SubSeq(s, 1, 0) = <<>> /\ SubSeq(s, 1, Len(s)) = s
           /\ \A j \in 0 .. Len(s) : SubSeq(s, 1, j) \in Seq(S) /\ Len(SubSeq(s, 1, j)) = j
           /\ \A j \in 1 .. Len(s) : SubSeq(s, 1, j) = Append(SubSeq(s, 1, j - 1), s[j])
<1>1. Len(s) \in Nat /\ \A i \in 1 .. Len(s) : s[i] \in S
  OBVIOUS
<1>2. ASSUME NEW j \in 0 .. Len(s)
      PROVE  /\ SubSeq(s, 1, j) \in Seq(S) /\ Len(SubSeq(s, 1, j)) = j
             /\ \A i \in 1 .. j : SubSeq(s, 1, j)[i] = s[i]
  <2>1. j \in Nat /\ 1 .. j \subseteq 1 .. Len(s)
    BY <1>1
  <2>2. j \in Int /\ 1 \in Int /\ \A i \in 1 .. j : s[i] \in S
    BY <1>1, <2>1
  <2> DEFINE t == SubSeq(s, 1, j)
  <2>3. /\ t \in Seq(S) /\ Len(t) = IF 1 <= j THEN j - 1 + 1 ELSE 0
        /\ \A i \in 1 .. j - 1 + 1 : t[i] = s[1 + i - 1]
    BY <2>2, SubSeqProperties
  <2> HIDE DEF t
  <2>4. Len(t) = j /\ \A i \in 1 .. j : t[i] = s[i]
    BY <2>1, <2>3
  <2> QED
    BY <2>3, <2>4 DEF t
<1>3. SubSeq(s, 1, 0) = <<>>
  BY SubSeqEmpty
<1>4. SubSeq(s, 1, Len(s)) = s
  BY SubSeqFull
<1>5. ASSUME NEW j \in 1 .. Len(s)
      PROVE  SubSeq(s, 1, j) = Append(SubSeq(s, 1, j - 1), s[j])
  <2> DEFINE t == SubSeq(s, 1, j)
             u == SubSeq(s, 1, j - 1)
             w == Append(u, s[j])
  <2>1. j \in 0 .. Len(s) /\ j - 1 \in 0 .. Len(s) /\ j = (j - 1) + 1 /\ s[j] \in S
    BY <1>1
  <2>2. t \in Seq(S) /\ Len(t) = j /\ \A i \in 1 .. j : t[i] = s[i]
    BY <1>2, <2>1
  <2>3. u \in Seq(S) /\ Len(u) = j - 1 /\ \A i \in 1 .. (j - 1) : u[i] = s[i]
    BY <1>2, <2>1
  <2> HIDE DEF t, u
  <2>4. /\ w \in Seq(S) /\ Len(w) = j /\ \A i \in 1 .. (j - 1) : w[i] = u[i]
        /\ w[j] = s[j]
    BY <2>1, <2>3, AppendProperties
  <2> HIDE DEF w
  <2>5. \A i \in 1 .. j : t[i] = w[i]
    BY <2>1, <2>2, <2>3, <2>4
  <2>6. t = w
    BY <2>2, <2>4, <2>5, SeqEqual
  <2> QED
    BY <2>6 DEF t, u, w
<1> QED
  BY <1>2, <1>3, <1>4, <1>5

\* A vdev of which j disks have been read, and the word for the last of them.
With(v, j) == [v EXCEPT !.disks = SubSeq(v.disks, 1, j)]
DiskWord(v, j) == [is |-> "disk", d |-> v.disks[j]]

\* One more is read.
LEMMA JoinsDisk ==
    ASSUME NEW D, NEW q \in Seq(VdevOf(D)), NEW v \in VdevOf(D), NEW j \in 1 .. Len(v.disks),
           NEW r
    PROVE  Word(Parsed(Append(q, With(v, j - 1)), r, TRUE), DiskWord(v, j)) =
               Parsed(Append(q, With(v, j)), r, TRUE)
<1> DEFINE V == VdevOf(D)
           w == DiskWord(v, j)
           a == With(v, j - 1)
           b == With(v, j)
           p == Append(q, a)
           m == Len(q) + 1
           e == [p EXCEPT ![Len(p)].disks = Append(@, v.disks[j])]
<1>1. v.disks \in Seq(D) /\ Len(v.disks) \in Nat /\ v.disks[j] \in D /\ Len(q) \in Nat
  BY DEF VdevOf
<1>2. /\ SubSeq(v.disks, 1, j) \in Seq(D) /\ SubSeq(v.disks, 1, j - 1) \in Seq(D)
      /\ SubSeq(v.disks, 1, j) = Append(SubSeq(v.disks, 1, j - 1), v.disks[j])
  <2>1. j \in 0 .. Len(v.disks) /\ j - 1 \in 0 .. Len(v.disks)
    BY <1>1
  <2> QED
    BY <1>1, <2>1, Longer
<1>3. a \in V /\ b \in V
  BY <1>2 DEF VdevOf, With
<1>4. b = [a EXCEPT !.disks = Append(@, v.disks[j])]
  BY <1>2 DEF VdevOf, With
<1> HIDE DEF a, b, V
<1>5. p \in Seq(V) /\ Len(p) = m /\ p[m] = a /\ \A i \in 1 .. Len(q) : p[i] = q[i]
  BY <1>1, <1>3, AppendProperties DEF V
<1>6. Append(q, b) \in Seq(V) /\ Len(Append(q, b)) = m /\ Append(q, b)[m] = b
      /\ \A i \in 1 .. Len(q) : Append(q, b)[i] = q[i]
  BY <1>1, <1>3, AppendProperties DEF V
<1>7. e = Append(q, b)
  <2> HIDE DEF p
  <2>1. e = [p EXCEPT ![m] = b]
    <3>1. e = [p EXCEPT ![m] = [p[m] EXCEPT !.disks = Append(@, v.disks[j])]]
      BY <1>5
    <3> QED
      BY <1>4, <1>5, <3>1
  <2> HIDE DEF e
  <2>2. m \in 1 .. Len(p)
    BY <1>1, <1>5
  <2>3. e \in Seq(V) /\ Len(e) = m /\ \A i \in 1 .. m : e[i] = IF i = m THEN b ELSE p[i]
    BY <1>3, <1>5, <2>1, <2>2, ExceptSeq
  <2>4. \A i \in 1 .. m : i = m \/ i \in 1 .. Len(q)
    BY <1>1
  <2>5. \A i \in 1 .. Len(e) : e[i] = Append(q, b)[i]
    BY <1>5, <1>6, <2>3, <2>4
  <2> QED
    BY <1>6, <2>3, <2>5, SeqEqual
<1>8. Word(Parsed(p, r, TRUE), w) = Parsed(e, r, TRUE)
  BY DEF Word, Parsed, DiskWord
<1> QED
  BY <1>7, <1>8 DEF a, b

\* A stripe as it is read back: of some disks, and nothing of a dRAID.
Plain(v) == v.disks # <<>> /\ v.data = 0 /\ v.spares = 0

\* The words of one vdev: a word of its kind and its disks, or the bare disks of a
\* stripe where no vdev is open to take them.
LEMMA ReadsVdev ==
    ASSUME NEW D, NEW q \in Seq(VdevOf(D)), NEW v \in VdevOf(D), NEW open \in BOOLEAN,
           v.kind = "stripe" => ~open /\ Plain(v)
    PROVE  Reads(Parsed(q, v.role, open), Emit(v), Parsed(Append(q, v), v.role, TRUE))
<1> DEFINE n == Len(v.disks)
           r == v.role
           ds == [i \in DOMAIN v.disks |-> [is |-> "disk", d |-> v.disks[i]]]
           w(i) == DiskWord(v, i)
           at(j) == Parsed(Append(q, With(v, j)), r, TRUE)
           from == Parsed(q, r, open)
           to == Parsed(Append(q, v), r, TRUE)
<1>1. v.disks \in Seq(D) /\ n \in Nat /\ DOMAIN v.disks = 1 .. n /\ v = With(v, n)
  <2>1. v.disks \in Seq(D)
    BY DEF VdevOf
  <2>2. SubSeq(v.disks, 1, n) = v.disks
    BY <2>1, Longer
  <2> QED
    BY <2>1, <2>2 DEF VdevOf, With
<1>2. Len(ds) = n /\ \A i \in 1 .. n : ds[i] = w(i)
  BY <1>1 DEF DiskWord
<1>3. ASSUME NEW i \in 1 .. n PROVE Word(at(i - 1), w(i)) = at(i)
  <2> HIDE DEF r
  <2> QED
    BY JoinsDisk
<1>4. SubSeq(v.disks, 1, 0) = <<>>
  BY <1>1, Longer
<1>5. to = at(n)
  BY <1>1
<1> HIDE DEF n
<1>6. CASE v.kind # "stripe"
  <2> DEFINE k == [is |-> "kind", v |-> Bare(v)]
             s == Emit(v)
             f == [i \in 0 .. (n + 1) |-> IF i = 0 THEN from ELSE at(i - 1)]
  <2>1. s = <<k>> \o ds
    BY <1>6 DEF Emit
  <2>2. Len(s) = n + 1 /\ s[1] = k /\ \A i \in 2 .. (n + 1) : s[i] = w(i - 1)
    <3> HIDE DEF k, w
    <3>1. DOMAIN ds = 1 .. n /\ Len(<<k>>) = 1 /\ <<k>>[1] = k
      BY <1>1
    <3>2. s = [i \in 1 .. (n + 1) |-> IF i <= 1 THEN <<k>>[i] ELSE ds[i - 1]]
      BY <1>1, <1>2, <2>1, <3>1
    <3> QED
      BY <1>1, <1>2, <3>1, <3>2
  <2>3. Word(from, k) = at(0)
    <3>1. [Bare(v) EXCEPT !.role = r] = With(v, 0)
      BY <1>4 DEF Bare, With, VdevOf
    <3> QED
      BY <3>1 DEF Word, Parsed
  <2> HIDE DEF s, w, at, from, to, k
  <2>4. /\ f[0] = from /\ f[1] = at(0) /\ f[n + 1] = at(n)
        /\ \A i \in 2 .. (n + 1) : f[i] = at(i - 1) /\ f[i - 1] = at(i - 2)
    BY <1>1
  <2> HIDE DEF f
  <2>5. ASSUME NEW i \in 1 .. (n + 1)
        PROVE  f[i] = Word(f[i - 1], s[i])
    <3>1. CASE i = 1
      <4>1. i - 1 = 0
        BY <3>1
      <4> QED
        BY <2>2, <2>3, <2>4, <3>1, <4>1
    <3>2. CASE i # 1
      <4>1. i \in 2 .. (n + 1) /\ i - 1 \in 1 .. n /\ (i - 1) - 1 = i - 2
        BY <1>1, <3>2
      <4>2. Word(at((i - 1) - 1), w(i - 1)) = at(i - 1)
        BY <1>3, <4>1
      <4> QED
        BY <2>2, <2>4, <4>1, <4>2
    <3> QED
      BY <3>1, <3>2
  <2>6. Reads(from, s, at(n))
    BY <2>2, <2>4, <2>5 DEF Reads
  <2> QED
    BY <1>5, <2>6 DEF from, s, to
<1>7. CASE v.kind = "stripe"
  <2> DEFINE s == Emit(v)
             f == [i \in 0 .. n |-> IF i = 0 THEN from ELSE at(i)]
  <2>1. s = ds
    BY <1>2, <1>7 DEF Emit
  <2>2. Len(s) = n /\ \A i \in 1 .. n : s[i] = w(i)
    BY <1>2, <2>1
  <2>0. n # 0
    BY <1>1, <1>7, EmptySeq DEF Plain, n
  <2>3. Word(from, w(1)) = at(1)
    <3>1. SubSeq(v.disks, 1, 1) = <<v.disks[1]>>
      <4>1. 1 \in 1 .. Len(v.disks) /\ v.disks[1] \in D
        BY <1>1, <2>0 DEF n
      <4>2. \A j \in 1 .. Len(v.disks) : SubSeq(v.disks, 1, j) = Append(SubSeq(v.disks, 1, j - 1), v.disks[j])
        BY <1>1, Longer
      <4>3. 1 - 1 = 0 /\ Append(<<>>, v.disks[1]) = <<v.disks[1]>>
        OBVIOUS
      <4>4. SubSeq(v.disks, 1, 1) = Append(SubSeq(v.disks, 1, 1 - 1), v.disks[1])
        BY <4>1, <4>2
      <4> QED
        BY <1>4, <4>3, <4>4
    <3>2. Vdev("stripe", r, <<v.disks[1]>>) = With(v, 1)
      <4>1. v.kind = "stripe" /\ v.data = 0 /\ v.spares = 0
        BY <1>7 DEF Plain
      <4>2. v = [kind |-> v.kind, role |-> v.role, disks |-> v.disks, data |-> v.data, spares |-> v.spares]
        BY DEF VdevOf
      <4>3. With(v, 1) = [kind |-> v.kind, role |-> v.role, disks |-> SubSeq(v.disks, 1, 1),
                          data |-> v.data, spares |-> v.spares]
        BY <4>2 DEF With
      <4> QED
        BY <3>1, <4>1, <4>3 DEF Vdev
    <3> QED
      BY <1>7, <3>2 DEF Word, Parsed, DiskWord
  <2> HIDE DEF s, w, at, from, to
  <2>4. f[0] = from /\ \A i \in 1 .. n : f[i] = at(i)
    BY <1>1
  <2> HIDE DEF f
  <2>5. ASSUME NEW i \in 1 .. n
        PROVE  f[i] = Word(f[i - 1], s[i])
    <3>1. CASE i = 1
      <4>1. i - 1 = 0
        BY <3>1
      <4> QED
        BY <2>2, <2>3, <2>4, <3>1, <4>1
    <3>2. CASE i # 1
      <4>1. i - 1 \in 1 .. n
        BY <1>1, <3>2
      <4>2. Word(at(i - 1), w(i)) = at(i)
        BY <1>3
      <4> QED
        BY <2>2, <2>4, <4>1, <4>2
    <3> QED
      BY <3>1, <3>2
  <2>6. f[n] = at(n)
    BY <1>1, <2>0, <2>4
  <2>7. Reads(from, s, at(n))
    BY <2>2, <2>4, <2>5, <2>6 DEF Reads
  <2> QED
    BY <1>5, <2>7 DEF from, s, to
<1> QED
  BY <1>6, <1>7

\* The words there are, for a layout of the disks of D.
Words(D) == [is : {"kind"}, v : VdevOf(D)] \cup [is : {"disk"}, d : D] \cup [is : {"role"}, r : ToSet(Roles)]

\* A vdev is said in words.
LEMMA EmitTyped == ASSUME NEW D, NEW v \in VdevOf(D) PROVE Emit(v) \in Seq(Words(D))
<1> DEFINE W == Words(D)
           n == Len(v.disks)
           k == [is |-> "kind", v |-> Bare(v)]
           ds == [i \in DOMAIN v.disks |-> [is |-> "disk", d |-> v.disks[i]]]
           head == IF v.kind = "stripe" THEN <<>> ELSE <<k>>
<1>1. v.disks \in Seq(D) /\ n \in Nat /\ DOMAIN v.disks = 1 .. n
  BY DEF VdevOf
<1>2. k \in W
  <2>0. <<>> \in Seq(D)
    OBVIOUS
  <2>1. Bare(v) \in VdevOf(D)
    BY <2>0 DEF Bare, VdevOf
  <2> HIDE DEF W
  <2> QED
    BY <2>1 DEF W, Words
<1>3. ds \in Seq(W)
  <2>1. \A i \in 1 .. n : [is |-> "disk", d |-> v.disks[i]] \in W
    BY <1>1 DEF Words
  <2> HIDE DEF W
  <2>2. ds \in [1 .. n -> W]
    BY <1>1, <2>1
  <2> HIDE DEF ds
  <2> QED
    BY <1>1, <2>2, IsSeq
<1> HIDE DEF ds, k, W
<1>4. head \in Seq(W)
  BY <1>2
<1>5. Emit(v) = head \o ds
  BY DEF Emit, k, ds
<1> HIDE DEF head
<1> QED
  BY <1>3, <1>4, <1>5, ConcatProperties DEF W

\* Lists are put together from either side: the equations have names, for the
\* provers to find them.
Together(s, t, u) == (s \o t) \o u = s \o (t \o u)
Lasts(s, t, x) == Append(s \o t, x) = s \o Append(t, x)

\* Three lists, from the left or from the right.
LEMMA Associates ==
    ASSUME NEW S, NEW s \in Seq(S), NEW t \in Seq(S), NEW u \in Seq(S)
    PROVE  Together(s, t, u)
BY ConcatAssociative DEF Together

\* One more at the end of the second of two lists.
LEMMA AppendsLast ==
    ASSUME NEW S, NEW s \in Seq(S), NEW t \in Seq(S), NEW x \in S
    PROVE  Lasts(s, t, x)
<1>1. s \o t \in Seq(S) /\ <<x>> \in Seq(S)
  BY ConcatProperties
<1>2. Append(s \o t, x) = (s \o t) \o <<x>> /\ Append(t, x) = t \o <<x>>
  BY <1>1, AppendIsConcat
<1>3. (s \o t) \o <<x>> = s \o (t \o <<x>>)
  BY <1>1, ConcatAssociative
<1> QED
  BY <1>2, <1>3 DEF Lasts

\* The vdevs of one section, which a parser can tell from each other: the bare disks
\* of a stripe join the vdev before them.
Readable(vs, D, r) ==
    /\ vs \in Seq(VdevOf(D))
    /\ \A i \in 1 .. Len(vs) : vs[i].role = r /\ (vs[i].kind = "stripe" => i = 1 /\ Plain(vs[i]))

Emits(vs) == FlattenSeq([i \in DOMAIN vs |-> Emit(vs[i])])

\* Their words are read, and they are added to the layout.
LEMMA ReadsList ==
    ASSUME NEW D, NEW q \in Seq(VdevOf(D)), NEW vs, NEW r, Readable(vs, D, r)
    PROVE  /\ Emits(vs) \in Seq(Words(D))
           /\ \E o \in BOOLEAN : Reads(Parsed(q, r, FALSE), Emits(vs), Parsed(q \o vs, r, o))
<1> DEFINE V == VdevOf(D)
           W == Words(D)
           m == Len(vs)
           seqs == [i \in DOMAIN vs |-> Emit(vs[i])]
           from == Parsed(q, r, FALSE)
           to(n, o) == Parsed(q \o SubSeq(vs, 1, n), r, o)
<1>1. /\ vs \in Seq(V) /\ m \in Nat /\ DOMAIN vs = 1 .. m /\ \A i \in 1 .. m : vs[i] \in V
      /\ \A i \in 1 .. m : vs[i].role = r /\ (vs[i].kind = "stripe" => i = 1 /\ Plain(vs[i]))
  BY DEF Readable
<1>2. seqs \in Lists(W, m)
  <2> HIDE DEF W
  <2>1. \A i \in 1 .. m : Emit(vs[i]) \in Seq(W)
    BY <1>1, EmitTyped DEF W
  <2> QED
    BY <1>1, <2>1 DEF Lists
<1>3. PICK f : Joins(f, W, m, seqs)
  <2> HIDE DEF seqs, W, m
  <2> QED
    BY <1>1, <1>2, FlattenIs
<1> HIDE DEF W, m
<1>4. /\ \A i \in 0 .. m : f[i] \in Seq(W)
      /\ f[0] = <<>> /\ f[m] = Emits(vs)
      /\ \A i \in 1 .. m : f[i] = f[i - 1] \o Emit(vs[i]) /\ Emit(vs[i]) \in Seq(W)
  <2>1. \A i \in 1 .. m : seqs[i] = Emit(vs[i]) /\ seqs[i] \in Seq(W)
    BY <1>1, <1>2 DEF Lists
  <2> HIDE DEF seqs
  <2>2. /\ f \in [0 .. m -> Seq(W)] /\ f[0] = <<>> /\ f[m] = FlattenSeq(seqs)
        /\ \A i \in 1 .. m : f[i] = f[i - 1] \o seqs[i]
    BY <1>3 DEF Joins
  <2> QED
    BY <2>1, <2>2 DEF Emits, seqs
<1>5. /\ SubSeq(vs, 1, 0) = <<>> /\ SubSeq(vs, 1, m) = vs
      /\ \A j \in 0 .. m : SubSeq(vs, 1, j) \in Seq(V)
      /\ \A j \in 1 .. m : SubSeq(vs, 1, j) = Append(SubSeq(vs, 1, j - 1), vs[j])
  BY <1>1, Longer DEF m
<1> DEFINE P == {n \in 0 .. m : \E o \in BOOLEAN : (n = 0 => o = FALSE) /\ Reads(from, f[n], to(n, o))}
<1>6. 0 \in P
  <2>1. q \o SubSeq(vs, 1, 0) = q
    BY <1>5, ConcatEmptySeq
  <2>2. Reads(from, f[0], to(0, FALSE))
    BY <1>4, <2>1, ReadsNone
  <2> HIDE DEF from, to
  <2>3. 0 \in 0 .. m
    BY <1>1
  <2>4. \E o \in BOOLEAN : (0 = 0 => o = FALSE) /\ Reads(from, f[0], to(0, o))
    BY <2>2, Zenon
  <2> QED
    BY <2>3, <2>4
<1>7. ASSUME NEW n \in 1 .. m, n - 1 \in P PROVE n \in P
  <2> DEFINE a == q \o SubSeq(vs, 1, n - 1)
  <2>1. n \in 0 .. m /\ n - 1 \in 0 .. m /\ n # 0 /\ (n = 1 <=> n - 1 = 0)
    BY <1>1
  <2>2. PICK o \in BOOLEAN : (n - 1 = 0 => o = FALSE) /\ Reads(from, f[n - 1], to(n - 1, o))
    BY <1>7
  <2>3. a \in Seq(V) /\ Append(a, vs[n]) = q \o SubSeq(vs, 1, n)
    <3>1. a \in Seq(V)
      BY <1>5, <2>1, ConcatProperties
    <3>2. Append(a, vs[n]) = q \o Append(SubSeq(vs, 1, n - 1), vs[n])
      <4>1. SubSeq(vs, 1, n - 1) \in Seq(V) /\ vs[n] \in V /\ q \in Seq(V)
        BY <1>1, <1>5, <2>1
      <4>2. Lasts(q, SubSeq(vs, 1, n - 1), vs[n])
        BY <4>1, AppendsLast
      <4> QED
        BY <4>2 DEF Lasts
    <3> QED
      BY <1>5, <3>1, <3>2
  <2> HIDE DEF a
  <2>4. vs[n].kind = "stripe" => ~o /\ Plain(vs[n])
    BY <1>1, <2>1, <2>2
  <2>5. Reads(Parsed(a, vs[n].role, o), Emit(vs[n]), Parsed(Append(a, vs[n]), vs[n].role, TRUE))
    BY <1>1, <2>3, <2>4, ReadsVdev
  <2>6. Reads(to(n - 1, o), Emit(vs[n]), to(n, TRUE))
    BY <1>1, <2>3, <2>5 DEF a
  <2> HIDE DEF from, to
  <2>7. Reads(from, f[n - 1] \o Emit(vs[n]), to(n, TRUE))
    BY <1>4, <2>1, <2>2, <2>6, ReadsBoth
  <2>8. Reads(from, f[n], to(n, TRUE))
    BY <1>4, <2>7
  <2> QED
    BY <2>1, <2>8
<1>8. \A n \in 0 .. m : n \in P
  <2> HIDE DEF P
  <2> QED
    BY <1>1, <1>6, <1>7, UpTo
<1>9. PICK o \in BOOLEAN : Reads(from, f[m], to(m, o))
  <2>0. m \in 0 .. m
    BY <1>1
  <2>1. m \in P
    BY <1>8, <2>0, Zenon
  <2> QED
    BY <2>1
<1>10. Reads(from, Emits(vs), Parsed(q \o vs, r, o))
  BY <1>4, <1>5, <1>9
<1>11. Emits(vs) \in Seq(W)
  BY <1>1, <1>4
<1> QED
  BY <1>10, <1>11 DEF W

\* So are those of a section, whatever has been read before.
LEMMA ReadsSection ==
    ASSUME NEW D, NEW design, NEW r \in ToSet(Roles), Readable(WithRole(design, r), D, r),
           NEW q \in Seq(VdevOf(D)), NEW r0, NEW o0 \in BOOLEAN
    PROVE  /\ Section(design, r) \in Seq(Words(D))
           /\ \E r1, o1 : o1 \in BOOLEAN /\
                  Reads(Parsed(q, r0, o0), Section(design, r), Parsed(q \o WithRole(design, r), r1, o1))
<1> DEFINE vs == WithRole(design, r)
           W == Words(D)
           w == [is |-> "role", r |-> r]
           head == IF vs = <<>> THEN <<>> ELSE <<w>>
           from == Parsed(q, r0, o0)
<1>1. Section(design, r) = head \o Emits(vs)
  BY DEF Section, Emits
<1> HIDE DEF vs
<1>2. Readable(vs, D, r) /\ vs \in Seq(VdevOf(D))
  BY DEF vs, Readable
<1>3. Emits(vs) \in Seq(W)
  BY <1>2, ReadsList
<1>4. w \in W
  BY DEF Words
<1>5. Word(from, w) = Parsed(q, r, FALSE)
  BY DEF Word, Parsed
<1> HIDE DEF w, W, from
<1>6. head \in Seq(W)
  BY <1>4
<1>7. Section(design, r) \in Seq(W)
  <2> HIDE DEF head
  <2> QED
    BY <1>1, <1>3, <1>6, ConcatProperties
<1>8. CASE vs = <<>>
  <2>1. Section(design, r) = <<>>
    <3>1. Emits(vs) = <<>>
      BY <1>8 DEF Emits, FlattenSeq
    <3> QED
      BY <1>1, <1>8, <3>1
  <2>2. q \o vs = q
    BY <1>8, ConcatEmptySeq
  <2>3. Reads(from, Section(design, r), Parsed(q \o vs, r0, o0))
    BY <2>1, <2>2, ReadsNone DEF from
  <2> QED
    BY <1>7, <2>3 DEF vs, from, W
<1>9. CASE vs # <<>>
  <2>1. Section(design, r) = <<w>> \o Emits(vs)
    BY <1>1, <1>9
  <2>2. Reads(from, <<w>>, Parsed(q, r, FALSE))
    BY <1>5, ReadsOne
  <2>3. PICK o \in BOOLEAN : Reads(Parsed(q, r, FALSE), Emits(vs), Parsed(q \o vs, r, o))
    BY <1>2, ReadsList
  <2>4. <<w>> \in Seq(W)
    BY <1>4
  <2>5. Reads(from, <<w>> \o Emits(vs), Parsed(q \o vs, r, o))
    BY <1>3, <2>2, <2>3, <2>4, ReadsBoth
  <2> QED
    BY <1>7, <2>1, <2>5 DEF vs, from, W
<1> QED
  BY <1>8, <1>9

\* The vdevs of a layout in the order of its sections.
BySection(design) ==
    WithRole(design, "data") \o FlattenSeq([i \in DOMAIN Roles |-> WithRole(design, Roles[i])])

\* What is read from the words of a layout is its vdevs, section by section.
LEMMA ReadsLayout ==
    ASSUME NEW D, NEW design, \A r \in ToSet(Roles) \cup {"data"} : Readable(WithRole(design, r), D, r)
    PROVE  ParseSpec(Argv(design)) = BySection(design)
<1> DEFINE V == VdevOf(D)
           W == Words(D)
           m == Len(Roles)
           vs == WithRole(design, "data")
           secs == [i \in DOMAIN Roles |-> Section(design, Roles[i])]
           kin == [i \in DOMAIN Roles |-> WithRole(design, Roles[i])]
           from == Parsed(<<>>, "data", FALSE)
<1>1. m \in Nat /\ DOMAIN Roles = 1 .. m /\ \A i \in 1 .. m : Roles[i] \in ToSet(Roles)
  <2>1. m = 5 /\ DOMAIN Roles = 1 .. 5
    BY DEF Roles
  <2> HIDE DEF m
  <2>2. \A i \in 1 .. 5 : Roles[i] \in ToSet(Roles)
    BY <2>1 DEF ToSet
  <2> QED
    BY <2>1, <2>2
<1> HIDE DEF V, W, m, from
<1>2. ASSUME NEW i \in 1 .. m
      PROVE  /\ Readable(WithRole(design, Roles[i]), D, Roles[i]) /\ WithRole(design, Roles[i]) \in Seq(V)
             /\ Section(design, Roles[i]) \in Seq(W)
  <2>1. Readable(WithRole(design, Roles[i]), D, Roles[i]) /\ Roles[i] \in ToSet(Roles)
    BY <1>1
  <2>2. WithRole(design, Roles[i]) \in Seq(V)
    BY <2>1 DEF Readable, V
  <2>3. <<>> \in Seq(VdevOf(D))
    OBVIOUS
  <2>4. Section(design, Roles[i]) \in Seq(W)
    BY <2>1, <2>3, ReadsSection DEF W
  <2> QED
    BY <2>1, <2>2, <2>4
<1>3. secs \in Lists(W, m) /\ kin \in Lists(V, m)
  BY <1>1, <1>2 DEF Lists
<1>4. /\ \A i \in 1 .. m : secs[i] = Section(design, Roles[i]) /\ kin[i] = WithRole(design, Roles[i])
      /\ Argv(design) = Emits(vs) \o FlattenSeq(secs) /\ BySection(design) = vs \o FlattenSeq(kin)
  BY <1>1 DEF Argv, Emits, BySection
<1> HIDE DEF secs, kin
<1>5. PICK f : Joins(f, W, m, secs)
  BY <1>1, <1>3, FlattenIs
<1>6. PICK g : Joins(g, V, m, kin)
  BY <1>1, <1>3, FlattenIs
<1>7. /\ \A i \in 0 .. m : f[i] \in Seq(W) /\ g[i] \in Seq(V)
      /\ f[0] = <<>> /\ g[0] = <<>> /\ f[m] = FlattenSeq(secs) /\ g[m] = FlattenSeq(kin)
      /\ \A i \in 1 .. m : f[i] = f[i - 1] \o Section(design, Roles[i])
                           /\ g[i] = g[i - 1] \o WithRole(design, Roles[i])
  BY <1>4, <1>5, <1>6 DEF Joins
<1>8. Readable(vs, D, "data") /\ vs \in Seq(V)
  BY DEF Readable, V
<1>9. /\ Emits(vs) \in Seq(W)
      /\ \E o \in BOOLEAN : Reads(from, Emits(vs), Parsed(vs, "data", o))
  <2>1. <<>> \in Seq(VdevOf(D)) /\ <<>> \o vs = vs
    BY <1>8, ConcatEmptySeq
  <2> QED
    BY <1>8, <2>1, ReadsList DEF from, W
<1> DEFINE e == Emits(vs)
           to(n, r, o) == Parsed(vs \o g[n], r, o)
           P == {n \in 0 .. m : \E r, o : o \in BOOLEAN /\ Reads(from, e \o f[n], to(n, r, o))}
<1> HIDE DEF e, vs
<1>10. 0 \in P
  <2>1. e \o f[0] = e /\ vs \o g[0] = vs
    BY <1>7, <1>8, <1>9, ConcatEmptySeq DEF e
  <2>2. PICK o \in BOOLEAN : Reads(from, e, Parsed(vs, "data", o))
    BY <1>9 DEF e
  <2>3. Reads(from, e \o f[0], to(0, "data", o))
    BY <2>1, <2>2
  <2> HIDE DEF to
  <2> QED
    BY <1>1, <2>3
<1>11. ASSUME NEW n \in 1 .. m, n - 1 \in P PROVE n \in P
  <2> DEFINE s == Section(design, Roles[n])
             a == vs \o g[n - 1]
  <2>1. n \in 0 .. m /\ n - 1 \in 0 .. m
    BY <1>1
  <2>2. PICK r, o : o \in BOOLEAN /\ Reads(from, e \o f[n - 1], to(n - 1, r, o))
    BY <1>11
  <2>3. a \in Seq(VdevOf(D)) /\ e \o f[n - 1] \in Seq(W) /\ s \in Seq(W)
    <3>1. a \in Seq(V)
      BY <1>7, <1>8, <2>1, ConcatProperties
    <3>2. e \o f[n - 1] \in Seq(W)
      BY <1>7, <1>9, <2>1, ConcatProperties DEF e
    <3> QED
      BY <1>2, <3>1, <3>2 DEF V
  <2>4. Roles[n] \in ToSet(Roles) /\ Readable(WithRole(design, Roles[n]), D, Roles[n])
    BY <1>1, <1>2
  <2> HIDE DEF a
  <2>5. PICK r1, o1 : o1 \in BOOLEAN /\ Reads(Parsed(a, r, o), s, Parsed(a \o WithRole(design, Roles[n]), r1, o1))
    BY <2>2, <2>3, <2>4, ReadsSection
  <2>6. a \o WithRole(design, Roles[n]) = vs \o g[n]
    <3>0. vs \in Seq(V) /\ g[n - 1] \in Seq(V) /\ WithRole(design, Roles[n]) \in Seq(V)
      BY <1>2, <1>7, <1>8, <2>1
    <3>1. Together(vs, g[n - 1], WithRole(design, Roles[n]))
      BY <3>0, Associates
    <3> QED
      BY <1>7, <3>1 DEF a, Together
  <2>7. (e \o f[n - 1]) \o s = e \o f[n]
    <3>0. e \in Seq(W) /\ f[n - 1] \in Seq(W) /\ s \in Seq(W)
      BY <1>7, <1>9, <2>1, <2>3 DEF e
    <3>1. Together(e, f[n - 1], s)
      BY <3>0, Associates
    <3> QED
      BY <1>7, <3>1 DEF Together
  <2>8. Reads(to(n - 1, r, o), s, to(n, r1, o1))
    BY <2>5, <2>6 DEF a
  <2> HIDE DEF s, to
  <2>9. Reads(from, (e \o f[n - 1]) \o s, to(n, r1, o1))
    BY <2>2, <2>3, <2>8, ReadsBoth
  <2> QED
    BY <2>1, <2>5, <2>7, <2>9
<1>12. \A n \in 0 .. m : n \in P
  <2> HIDE DEF P
  <2> QED
    BY <1>1, <1>10, <1>11, UpTo
<1>13. PICK r, o : Reads(from, e \o f[m], to(m, r, o))
  <2>1. m \in P
    BY <1>1, <1>12
  <2> QED
    BY <2>1
<1>14. Reads(from, Argv(design), Parsed(BySection(design), r, o))
  <2>1. Argv(design) = e \o f[m] /\ BySection(design) = vs \o g[m]
    BY <1>4, <1>7 DEF e
  <2> QED
    BY <1>13, <2>1
<1>15. Argv(design) \in Seq(W)
  <2>0. m \in 0 .. m
    BY <1>1
  <2>1. FlattenSeq(secs) \in Seq(W)
    BY <1>7, <2>0
  <2> QED
    BY <1>4, <1>9, <2>1, ConcatProperties
<1>16. Parsed(BySection(design), r, o).design = BySection(design)
  BY DEF Parsed
<1> QED
  BY <1>14, <1>15, <1>16, ReadsAll DEF from

-----------------------------------------------------------------------------
(* The vdevs of a role.                                                    *)

\* What the loop over a layout has gathered after each vdev.
Gathers(f, V, s, r) ==
    /\ f \in [0 .. Len(s) -> Seq(V)] /\ f[0] = <<>> /\ f[Len(s)] = WithRole(s, r)
    /\ \A i \in 1 .. Len(s) : f[i] = IF s[i].role = r THEN Append(f[i - 1], s[i]) ELSE f[i - 1]

\* WithRole is that loop.
LEMMA WithRoleIs ==
    ASSUME NEW V, NEW s \in Seq(V), NEW r
    PROVE  \E f : Gathers(f, V, s, r)
<1> DEFINE n == Len(s)
           X == Seq(V)
           step == [i \in 1 .. n |-> [q \in X |-> IF s[i].role = r THEN Append(q, s[i]) ELSE q]]
           Goes(g) == g = [i \in 0 .. n |-> IF i = 0 THEN <<>>
                                            ELSE IF s[i].role = r THEN Append(g[i - 1], s[i]) ELSE g[i - 1]]
           g == CHOOSE g : Goes(g)
<1>1. n \in Nat /\ <<>> \in X /\ \A i \in 1 .. n : s[i] \in V
  OBVIOUS
<1>2. step \in Rounds(n, X)
  <2>1. ASSUME NEW i \in 1 .. n, NEW q \in X
        PROVE  (IF s[i].role = r THEN Append(q, s[i]) ELSE q) \in X
    BY <1>1, AppendProperties
  <2> HIDE DEF X
  <2> QED
    BY <2>1 DEF Rounds
<1>3. PICK f : Runs(f, n, X, <<>>, step)
  <2> DEFINE base == <<>>
  <2> HIDE DEF X, step, base, n
  <2>1. \E f : Runs(f, n, X, base, step)
    BY <1>1, <1>2, Loops DEF base
  <2> QED
    BY <2>1 DEF base
<1>4. f \in [0 .. n -> X] /\ f[0] = <<>>
  BY <1>3 DEF Runs
<1>5. ASSUME NEW i \in 1 .. n
      PROVE  f[i] = IF s[i].role = r THEN Append(f[i - 1], s[i]) ELSE f[i - 1]
  <2>1. f[i] = step[i][f[i - 1]]
    BY <1>3 DEF Runs
  <2>2. i - 1 \in 0 .. n
    BY <1>1
  <2>3. f[i - 1] \in X
    BY <1>4, <2>2
  <2> QED
    BY <2>1, <2>3
<1> HIDE DEF step, X
<1>6. WithRole(s, r) = g[n]
  BY DEF WithRole
<1>7. Goes(f)
  <2>1. f = [i \in 0 .. n |-> f[i]]
    BY <1>4
  <2>2. ASSUME NEW i \in 0 .. n
        PROVE  f[i] = IF i = 0 THEN <<>> ELSE IF s[i].role = r THEN Append(f[i - 1], s[i]) ELSE f[i - 1]
    <3>1. CASE i = 0
      BY <1>4, <3>1
    <3>2. CASE i # 0
      <4>1. i \in 1 .. n
        BY <1>1, <3>2
      <4> QED
        BY <1>5, <3>2, <4>1
    <3> QED
      BY <3>1, <3>2
  <2> QED
    BY <2>1, <2>2
<1>8. Goes(g)
  <2> HIDE DEF Goes
  <2> QED
    BY <1>7
<1> HIDE DEF g
<1>9. \A i \in 0 .. n : g[i] = IF i = 0 THEN <<>>
                               ELSE IF s[i].role = r THEN Append(g[i - 1], s[i]) ELSE g[i - 1]
  BY <1>8
<1> DEFINE P == {i \in 0 .. n : g[i] = f[i]}
<1> HIDE DEF n, Goes
<1>10. 0 \in P
  <2>1. 0 \in 0 .. n
    BY <1>1
  <2> QED
    BY <1>4, <1>9, <2>1
<1>11. ASSUME NEW i \in 1 .. n, i - 1 \in P PROVE i \in P
  <2>1. i \in 0 .. n /\ i # 0 /\ g[i - 1] = f[i - 1]
    BY <1>11
  <2>2. g[i] = IF s[i].role = r THEN Append(g[i - 1], s[i]) ELSE g[i - 1]
    BY <1>9, <2>1
  <2>3. g[i] = f[i]
    BY <1>5, <2>1, <2>2
  <2> QED
    BY <2>1, <2>3
<1>12. \A k \in 0 .. n : k \in P
  <2> HIDE DEF P
  <2> QED
    BY <1>1, <1>10, <1>11, UpTo
<1>13. f[n] = WithRole(s, r)
  <2>1. n \in 0 .. n
    BY <1>1
  <2>2. n \in P
    BY <1>12, <2>1, Zenon
  <2> QED
    BY <1>6, <2>2
<1> QED
  BY <1>4, <1>5, <1>13 DEF Gathers, X, n

\* The loop over two layouts, one after the other.
LEMMA RoleOfBoth ==
    ASSUME NEW V, NEW s \in Seq(V), NEW t \in Seq(V), NEW r
    PROVE  WithRole(s \o t, r) = WithRole(s, r) \o WithRole(t, r)
<1> DEFINE m == Len(s)
           n == Len(t)
           u == s \o t
<1>1. /\ m \in Nat /\ n \in Nat /\ u \in Seq(V) /\ Len(u) = m + n
      /\ \A i \in 1 .. m : u[i] = s[i]
      /\ \A i \in 1 .. n : u[m + i] = t[i]
  BY ConcatProperties
<1>2. PICK f : Gathers(f, V, s, r)
  BY WithRoleIs
<1>3. PICK g : Gathers(g, V, t, r)
  BY WithRoleIs
<1>4. PICK h : Gathers(h, V, u, r)
  BY <1>1, WithRoleIs
<1>5. /\ \A i \in 0 .. m : f[i] \in Seq(V)
      /\ f[0] = <<>> /\ f[m] = WithRole(s, r)
      /\ \A i \in 1 .. m : f[i] = IF s[i].role = r THEN Append(f[i - 1], s[i]) ELSE f[i - 1]
  BY <1>2 DEF Gathers
<1>6. /\ \A i \in 0 .. n : g[i] \in Seq(V)
      /\ g[0] = <<>> /\ g[n] = WithRole(t, r)
      /\ \A i \in 1 .. n : g[i] = IF t[i].role = r THEN Append(g[i - 1], t[i]) ELSE g[i - 1]
  BY <1>3 DEF Gathers
<1>7. /\ h[0] = <<>> /\ h[m + n] = WithRole(u, r)
      /\ \A i \in 1 .. (m + n) : h[i] = IF u[i].role = r THEN Append(h[i - 1], u[i]) ELSE h[i - 1]
  BY <1>1, <1>4 DEF Gathers
<1>8. /\ \A i \in 1 .. m : s[i] \in V
      /\ \A i \in 1 .. n : t[i] \in V
  OBVIOUS
<1> HIDE DEF m, n, u
<1> DEFINE P == {i \in 0 .. m : h[i] = f[i]}
           Q == {i \in 0 .. n : h[m + i] = f[m] \o g[i]}
<1>9. 0 \in P
  BY <1>1, <1>5, <1>7
<1>10. ASSUME NEW i \in 1 .. m, i - 1 \in P PROVE i \in P
  <2>1. i \in 0 .. m /\ h[i - 1] = f[i - 1] /\ i \in 1 .. (m + n) /\ u[i] = s[i]
    BY <1>1, <1>10
  <2>2. h[i] = f[i]
    BY <1>5, <1>7, <2>1
  <2> QED
    BY <2>1, <2>2
<1>11. \A k \in 0 .. m : k \in P
  <2> HIDE DEF P
  <2> QED
    BY <1>1, <1>9, <1>10, UpTo
<1>12. m \in 0 .. m /\ n \in 0 .. n /\ 0 \in 0 .. n /\ m + 0 = m
  BY <1>1
<1>13. h[m] = f[m] /\ f[m] \in Seq(V)
  BY <1>5, <1>11, <1>12
<1>14. 0 \in Q
  <2>1. f[m] \o g[0] = f[m]
    BY <1>6, <1>13, ConcatEmptySeq
  <2> QED
    BY <1>12, <1>13, <2>1
<1>15. ASSUME NEW i \in 1 .. n, i - 1 \in Q PROVE i \in Q
  <2>0. h[m + (i - 1)] = f[m] \o g[i - 1]
    BY <1>15
  <2>1. /\ i \in 0 .. n /\ i - 1 \in 0 .. n
        /\ m + i \in 1 .. (m + n) /\ u[m + i] = t[i] /\ (m + i) - 1 = m + (i - 1)
    BY <1>1
  <2>2. h[m + i] = IF t[i].role = r THEN Append(f[m] \o g[i - 1], t[i]) ELSE f[m] \o g[i - 1]
    BY <1>7, <2>0, <2>1
  <2>3. Lasts(f[m], g[i - 1], t[i])
    BY <1>6, <1>8, <1>13, <2>1, AppendsLast
  <2>4. h[m + i] = f[m] \o g[i]
    <3>1. CASE t[i].role = r
      <4>1. g[i] = Append(g[i - 1], t[i])
        BY <1>6, <3>1
      <4> QED
        BY <2>2, <2>3, <3>1, <4>1 DEF Lasts
    <3>2. CASE t[i].role # r
      <4>1. g[i] = g[i - 1]
        BY <1>6, <3>2
      <4> QED
        BY <2>2, <3>2, <4>1
    <3> QED
      BY <3>1, <3>2
  <2> QED
    BY <2>1, <2>4
<1>16. \A k \in 0 .. n : k \in Q
  <2> HIDE DEF Q
  <2> QED
    BY <1>1, <1>14, <1>15, UpTo
<1>17. h[m + n] = f[m] \o g[n]
  BY <1>12, <1>16
<1> QED
  BY <1>5, <1>6, <1>7, <1>17 DEF u

\* A layout of one role, and one of others.
LEMMA RoleOfAll ==
    ASSUME NEW V, NEW s \in Seq(V), NEW r
    PROVE  /\ (\A i \in 1 .. Len(s) : s[i].role = r) => WithRole(s, r) = s
           /\ (\A i \in 1 .. Len(s) : s[i].role # r) => WithRole(s, r) = <<>>
<1> DEFINE n == Len(s)
<1>1. n \in Nat
  OBVIOUS
<1>2. PICK f : Gathers(f, V, s, r)
  BY WithRoleIs
<1>3. /\ f[0] = <<>> /\ f[n] = WithRole(s, r)
      /\ \A i \in 1 .. n : f[i] = IF s[i].role = r THEN Append(f[i - 1], s[i]) ELSE f[i - 1]
  BY <1>2 DEF Gathers
<1>4. /\ SubSeq(s, 1, 0) = <<>> /\ SubSeq(s, 1, n) = s
      /\ \A j \in 1 .. n : SubSeq(s, 1, j) = Append(SubSeq(s, 1, j - 1), s[j])
  BY Longer
<1> HIDE DEF n
<1>5. n \in 0 .. n /\ 0 \in 0 .. n
  BY <1>1
<1>6. ASSUME \A i \in 1 .. n : s[i].role = r
      PROVE  f[n] = s
  <2> DEFINE P == {i \in 0 .. n : f[i] = SubSeq(s, 1, i)}
  <2>1. 0 \in P
    BY <1>3, <1>4, <1>5
  <2>2. ASSUME NEW i \in 1 .. n, i - 1 \in P PROVE i \in P
    <3>1. i \in 0 .. n /\ f[i - 1] = SubSeq(s, 1, i - 1)
      BY <2>2
    <3>2. f[i] = Append(f[i - 1], s[i])
      BY <1>3, <1>6
    <3>3. f[i] = SubSeq(s, 1, i)
      BY <1>4, <3>1, <3>2
    <3> QED
      BY <3>1, <3>3
  <2>3. \A k \in 0 .. n : k \in P
    <3> HIDE DEF P
    <3> QED
      BY <1>1, <2>1, <2>2, UpTo
  <2> QED
    BY <1>4, <1>5, <2>3
<1>7. ASSUME \A i \in 1 .. n : s[i].role # r
      PROVE  f[n] = <<>>
  <2> DEFINE P == {i \in 0 .. n : f[i] = <<>>}
  <2>1. 0 \in P
    BY <1>3, <1>5
  <2>2. ASSUME NEW i \in 1 .. n, i - 1 \in P PROVE i \in P
    <3>1. i \in 0 .. n /\ f[i - 1] = <<>>
      BY <2>2
    <3>2. f[i] = <<>>
      BY <1>3, <1>7, <3>1
    <3> QED
      BY <3>1, <3>2
  <2>3. \A k \in 0 .. n : k \in P
    <3> HIDE DEF P
    <3> QED
      BY <1>1, <2>1, <2>2, UpTo
  <2> QED
    BY <1>5, <2>3
<1> QED
  BY <1>3, <1>6, <1>7 DEF n

\* A stripe is the only vdev of its role, and plain.
Alone(s) ==
    \A i \in 1 .. Len(s) : s[i].kind = "stripe" =>
        Plain(s[i]) /\ \A j \in 1 .. Len(s) : s[j].role = s[i].role => j = i

\* The sections of such a layout can be read.
LEMMA RoleReads ==
    ASSUME NEW D, NEW s \in Seq(VdevOf(D)), Alone(s), NEW r
    PROVE  Readable(WithRole(s, r), D, r)
<1> DEFINE n == Len(s)
           V == VdevOf(D)
           Good(k, q) ==
               \A a \in 1 .. Len(q) : \E j \in 1 .. k :
                   /\ s[j] = q[a] /\ s[j].role = r
                   /\ a # 1 => \E l \in 1 .. k : l # j /\ s[l].role = r
<1>1. n \in Nat /\ \A i \in 1 .. n : s[i] \in V
  OBVIOUS
<1>2. PICK f : Gathers(f, V, s, r)
  BY WithRoleIs
<1>3. /\ \A i \in 0 .. n : f[i] \in Seq(V)
      /\ f[0] = <<>> /\ f[n] = WithRole(s, r)
      /\ \A i \in 1 .. n : f[i] = IF s[i].role = r THEN Append(f[i - 1], s[i]) ELSE f[i - 1]
  BY <1>2 DEF Gathers
<1> HIDE DEF n, V
<1> DEFINE P == {k \in 0 .. n : Good(k, f[k])}
<1>4. 0 \in P
  <2>1. 0 \in 0 .. n /\ Len(<<>>) = 0
    BY <1>1
  <2>2. \A a \in 1 .. Len(f[0]) : FALSE
    BY <1>3, <2>1
  <2> QED
    BY <2>1, <2>2
<1>5. ASSUME NEW k \in 1 .. n, k - 1 \in P PROVE k \in P
  <2> DEFINE q == f[k - 1]
             t == f[k]
  <2>1. k \in 0 .. n /\ k - 1 \in 0 .. n /\ 1 .. (k - 1) \subseteq 1 .. k /\ k \in 1 .. k /\ k \notin 1 .. (k - 1)
    BY <1>1
  <2>2. Good(k - 1, q) /\ q \in Seq(V) /\ s[k] \in V
    BY <1>1, <1>3, <1>5, <2>1
  <2>3. t = IF s[k].role = r THEN Append(q, s[k]) ELSE q
    BY <1>3
  <2> HIDE DEF q, t
  <2>4. ASSUME NEW a \in 1 .. Len(q)
        PROVE  \E j \in 1 .. k : /\ s[j] = q[a] /\ s[j].role = r
                                 /\ a # 1 => \E l \in 1 .. k : l # j /\ s[l].role = r
    <3>1. PICK j \in 1 .. (k - 1) : /\ s[j] = q[a] /\ s[j].role = r
                                    /\ a # 1 => \E l \in 1 .. (k - 1) : l # j /\ s[l].role = r
      BY <2>2
    <3> QED
      BY <2>1, <3>1
  <2>5. CASE s[k].role # r
    <3>1. Good(k, t)
      BY <2>3, <2>4, <2>5
    <3> HIDE DEF Good
    <3> QED
      BY <2>1, <3>1 DEF t
  <2>6. CASE s[k].role = r
    <3>1. /\ Len(t) = Len(q) + 1 /\ Len(q) \in Nat /\ t[Len(q) + 1] = s[k]
          /\ \A a \in 1 .. Len(q) : t[a] = q[a]
      BY <2>2, <2>3, <2>6, AppendProperties
    <3>2. ASSUME NEW a \in 1 .. Len(t)
          PROVE  \E j \in 1 .. k : /\ s[j] = t[a] /\ s[j].role = r
                                   /\ a # 1 => \E l \in 1 .. k : l # j /\ s[l].role = r
      <4>1. CASE a \in 1 .. Len(q)
        BY <2>4, <3>1, <4>1
      <4>2. CASE a \notin 1 .. Len(q)
        <5>1. a = Len(q) + 1 /\ t[a] = s[k]
          BY <3>1, <4>2
        <5>2. ASSUME a # 1 PROVE \E l \in 1 .. k : l # k /\ s[l].role = r
          <6>1. 1 \in 1 .. Len(q)
            BY <3>1, <5>1, <5>2
          <6>2. PICK l \in 1 .. (k - 1) : s[l].role = r
            BY <2>2, <6>1
          <6> QED
            BY <2>1, <6>2
        <5> QED
          BY <2>1, <2>6, <5>1, <5>2
      <4> QED
        BY <4>1, <4>2
    <3>3. Good(k, t)
      BY <3>2
    <3> HIDE DEF Good
    <3> QED
      BY <2>1, <3>3 DEF t
  <2> QED
    BY <2>5, <2>6
<1>6. \A k \in 0 .. n : k \in P
  <2> HIDE DEF P
  <2> QED
    BY <1>1, <1>4, <1>5, UpTo
<1>7. n \in 0 .. n
  BY <1>1
<1>8. Good(n, WithRole(s, r)) /\ WithRole(s, r) \in Seq(V)
  <2> HIDE DEF Good
  <2> QED
    BY <1>3, <1>6, <1>7
<1> DEFINE q == WithRole(s, r)
<1> HIDE DEF q
<1>9. ASSUME NEW a \in 1 .. Len(q)
      PROVE  q[a].role = r /\ (q[a].kind = "stripe" => a = 1 /\ Plain(q[a]))
  <2>1. PICK j \in 1 .. n : /\ s[j] = q[a] /\ s[j].role = r
                            /\ a # 1 => \E l \in 1 .. n : l # j /\ s[l].role = r
    BY <1>8 DEF q
  <2>2. s[j].kind = "stripe" => Plain(s[j]) /\ \A l \in 1 .. n : s[l].role = s[j].role => l = j
    BY DEF Alone, n
  <2> QED
    BY <2>1, <2>2
<1> QED
  BY <1>8, <1>9 DEF Readable, q, V

\* There are five roles beside that of the data, each once.
LEMMA RolesAre ==
    /\ Len(Roles) \in Nat /\ DOMAIN Roles = 1 .. Len(Roles)
    /\ \A i \in 1 .. Len(Roles) : Roles[i] \in ToSet(Roles) /\ Roles[i] # "data"
    /\ \A i, j \in 1 .. Len(Roles) : Roles[i] = Roles[j] => i = j
    /\ \A r \in ToSet(Roles) : \E i \in 1 .. Len(Roles) : Roles[i] = r
<1>1. Len(Roles) = 5 /\ DOMAIN Roles = 1 .. 5
  BY DEF Roles
<1>2. /\ \A i \in 1 .. 5 : Roles[i] # "data"
      /\ \A i, j \in 1 .. 5 : Roles[i] = Roles[j] => i = j
  BY DEF Roles
<1> HIDE DEF Roles
<1>3. \A r : r \in ToSet(Roles) <=> \E i \in 1 .. 5 : Roles[i] = r
  BY <1>1 DEF ToSet
<1> QED
  BY <1>1, <1>2, <1>3

\* Putting a layout in the order of its sections moves no vdev within its role.
LEMMA SectionsKeep ==
    ASSUME NEW D, NEW design, NEW r \in ToSet(Roles) \cup {"data"},
           \A x \in ToSet(Roles) \cup {"data"} : Readable(WithRole(design, x), D, x)
    PROVE  WithRole(BySection(design), r) = WithRole(design, r)
<1> DEFINE V == VdevOf(D)
           m == Len(Roles)
           d == WithRole(design, "data")
           kin == [i \in DOMAIN Roles |-> WithRole(design, Roles[i])]
<1>1. /\ m \in Nat /\ DOMAIN Roles = 1 .. m
      /\ \A i \in 1 .. m : Roles[i] \in ToSet(Roles) /\ Roles[i] # "data"
      /\ \A i, j \in 1 .. m : Roles[i] = Roles[j] => i = j
      /\ \A x \in ToSet(Roles) : \E i \in 1 .. m : Roles[i] = x
  BY RolesAre
<1> HIDE DEF V, m
<1>2. /\ d \in Seq(V) /\ \A j \in 1 .. Len(d) : d[j].role = "data"
  BY DEF Readable, V
<1>3. ASSUME NEW i \in 1 .. m
      PROVE  /\ WithRole(design, Roles[i]) \in Seq(V)
             /\ \A j \in 1 .. Len(WithRole(design, Roles[i])) : WithRole(design, Roles[i])[j].role = Roles[i]
  <2>1. Readable(WithRole(design, Roles[i]), D, Roles[i])
    BY <1>1
  <2> QED
    BY <2>1 DEF Readable, V
<1>4. kin \in Lists(V, m) /\ \A i \in 1 .. m : kin[i] = WithRole(design, Roles[i])
  BY <1>1, <1>3 DEF Lists
<1>5. BySection(design) = d \o FlattenSeq(kin)
  BY DEF BySection
<1> HIDE DEF kin, d
<1>6. PICK g : Joins(g, V, m, kin)
  BY <1>1, <1>4, FlattenIs
<1>7. /\ \A i \in 0 .. m : g[i] \in Seq(V)
      /\ g[0] = <<>> /\ g[m] = FlattenSeq(kin)
      /\ \A i \in 1 .. m : g[i] = g[i - 1] \o kin[i]
  BY <1>6 DEF Joins
<1>8. /\ \A i \in 1 .. m : kin[i] \in Seq(V)
      /\ \A i \in 1 .. m : WithRole(kin[i], r) = IF Roles[i] = r THEN kin[i] ELSE <<>>
  <2> SUFFICES ASSUME NEW i \in 1 .. m
               PROVE  kin[i] \in Seq(V) /\ WithRole(kin[i], r) = IF Roles[i] = r THEN kin[i] ELSE <<>>
    OBVIOUS
  <2>1. kin[i] \in Seq(V) /\ \A j \in 1 .. Len(kin[i]) : kin[i][j].role = Roles[i]
    BY <1>3, <1>4
  <2>2. Roles[i] = r => WithRole(kin[i], r) = kin[i]
    BY <2>1, RoleOfAll
  <2>3. Roles[i] # r => WithRole(kin[i], r) = <<>>
    BY <2>1, RoleOfAll
  <2> QED
    BY <2>1, <2>2, <2>3
<1>9. ASSUME NEW i \in 1 .. m
      PROVE  /\ WithRole(g[i], r) = WithRole(g[i - 1], r) \o WithRole(kin[i], r)
             /\ i - 1 \in 0 .. m /\ i \in 0 .. m
  <2>1. i - 1 \in 0 .. m /\ i \in 0 .. m
    BY <1>1
  <2>2. WithRole(g[i - 1] \o kin[i], r) = WithRole(g[i - 1], r) \o WithRole(kin[i], r)
    BY <1>7, <1>8, <2>1, RoleOfBoth
  <2> QED
    BY <1>7, <2>1, <2>2
<1>10. WithRole(<<>>, r) = <<>>
  <2>1. <<>> \in Seq(V) /\ Len(<<>>) = 0
    OBVIOUS
  <2>2. \A i \in 1 .. Len(<<>>) : <<>>[i].role = r
    BY <2>1
  <2> QED
    BY <2>1, <2>2, RoleOfAll
<1>11. 0 \in 0 .. m /\ m \in 0 .. m
  BY <1>1
<1>12. WithRole(BySection(design), r) = WithRole(d, r) \o WithRole(g[m], r)
  <2>1. g[m] \in Seq(V)
    BY <1>7, <1>11
  <2>2. WithRole(d \o g[m], r) = WithRole(d, r) \o WithRole(g[m], r)
    BY <1>2, <2>1, RoleOfBoth
  <2> QED
    BY <1>5, <1>7, <2>2
<1>13. CASE r = "data"
  <2> DEFINE P == {i \in 0 .. m : WithRole(g[i], r) = <<>>}
  <2>1. 0 \in P
    BY <1>7, <1>10, <1>11
  <2>2. ASSUME NEW i \in 1 .. m, i - 1 \in P PROVE i \in P
    <3>1. WithRole(g[i - 1], r) = <<>> /\ WithRole(kin[i], r) = <<>>
      BY <1>1, <1>8, <1>13, <2>2
    <3>2. WithRole(g[i], r) = <<>> \o <<>>
      BY <1>9, <3>1
    <3>3. <<>> \o <<>> = <<>>
      OBVIOUS
    <3> QED
      BY <1>9, <3>2, <3>3
  <2>3. \A i \in 0 .. m : i \in P
    <3> HIDE DEF P
    <3> QED
      BY <1>1, <2>1, <2>2, UpTo
  <2>4. WithRole(g[m], r) = <<>>
    BY <1>11, <2>3
  <2>5. WithRole(d, r) = d
    BY <1>2, <1>13, RoleOfAll
  <2>6. d \o <<>> = d
    BY <1>2, ConcatEmptySeq
  <2> QED
    BY <1>12, <1>13, <2>4, <2>5, <2>6 DEF d
<1>14. CASE r # "data"
  <2>1. PICK k \in 1 .. m : Roles[k] = r
    BY <1>1, <1>14
  <2> DEFINE P == {i \in 0 .. m : WithRole(g[i], r) = IF i < k THEN <<>> ELSE kin[k]}
  <2>2. 0 \in P
    BY <1>1, <1>7, <1>10, <1>11
  <2>3. ASSUME NEW i \in 1 .. m, i - 1 \in P PROVE i \in P
    <3>1. /\ WithRole(g[i - 1], r) = IF i - 1 < k THEN <<>> ELSE kin[k]
          /\ WithRole(g[i], r) = WithRole(g[i - 1], r) \o WithRole(kin[i], r)
      BY <1>9, <2>3
    <3>2. kin[k] \in Seq(V) /\ <<>> \in Seq(V)
      BY <1>8
    <3>3. <<>> \o <<>> = <<>> /\ <<>> \o kin[k] = kin[k] /\ kin[k] \o <<>> = kin[k]
      BY <3>2, ConcatEmptySeq
    <3>4. CASE i = k
      <4>1. i - 1 < k /\ ~(i < k)
        BY <1>1, <3>4
      <4>2. WithRole(kin[i], r) = kin[k]
        BY <1>8, <2>1, <3>4
      <4> QED
        BY <1>9, <3>1, <3>3, <4>1, <4>2
    <3>5. CASE i # k
      <4>1. Roles[i] # r
        BY <1>1, <2>1, <3>5
      <4>2. WithRole(kin[i], r) = <<>>
        BY <1>8, <4>1
      <4>3. i - 1 < k <=> i < k
        BY <1>1, <3>5
      <4> QED
        BY <1>9, <3>1, <3>3, <4>2, <4>3
    <3> QED
      BY <3>4, <3>5
  <2>4. \A i \in 0 .. m : i \in P
    <3> HIDE DEF P
    <3> QED
      BY <1>1, <2>2, <2>3, UpTo
  <2>5. WithRole(g[m], r) = kin[k]
    BY <1>1, <1>11, <2>4
  <2>6. WithRole(d, r) = <<>>
    BY <1>2, <1>14, RoleOfAll
  <2>7. <<>> \o kin[k] = kin[k]
    BY <1>8, ConcatEmptySeq
  <2> QED
    BY <1>4, <1>12, <2>1, <2>5, <2>6, <2>7
<1> QED
  BY <1>13, <1>14

\* The command line of a layout whose stripes are alone says that layout.
LEMMA LayoutIsExact ==
    ASSUME NEW D, NEW design \in Seq(VdevOf(D)), Alone(design)
    PROVE  Exact(design)
<1> DEFINE back == ParseSpec(Argv(design))
           sorted(x) == WithRole(x, "data") \o FlattenSeq([i \in DOMAIN Roles |-> WithRole(x, Roles[i])])
<1>1. \A r \in ToSet(Roles) \cup {"data"} : Readable(WithRole(design, r), D, r)
  BY RoleReads
<1>2. back = BySection(design)
  BY <1>1, ReadsLayout
<1> HIDE DEF back
<1>3. \A r \in ToSet(Roles) \cup {"data"} : WithRole(back, r) = WithRole(design, r)
  BY <1>1, <1>2, SectionsKeep
<1>4. \A i \in DOMAIN Roles : WithRole(back, Roles[i]) = WithRole(design, Roles[i])
  BY <1>3, RolesAre
<1>5. WithRole(back, "data") = WithRole(design, "data")
  BY <1>3
<1>6. [i \in DOMAIN Roles |-> WithRole(back, Roles[i])] = [i \in DOMAIN Roles |-> WithRole(design, Roles[i])]
  BY <1>4
<1>7. sorted(back) = sorted(design)
  BY <1>5, <1>6
<1> HIDE DEF sorted
<1>8. Normal(back) = Normal(design)
  BY <1>7 DEF Normal, sorted
<1> QED
  BY <1>8 DEF Exact, back
-----------------------------------------------------------------------------
(* The pool builder: a layout that is proposed can be created, and uses all *)
(* that was ticked.                                                        *)

\* A vdev by itself is one that `zpool create' takes.
Fits(v) ==
    /\ Len(v.disks) >= MinDisks(v)
    /\ v.role = "log" => v.kind \in {"stripe", "mirror"}
    /\ v.role \in {"cache", "spare"} => v.kind = "stripe"
    /\ IsDraid(v) => /\ v.data >= 1 /\ Len(v.disks) - v.spares >= v.data + Parity(v)
                     /\ (Len(v.disks) - v.spares) % (v.data + Parity(v)) = 0
    /\ v.kind = "stripe" => Plain(v)

\* No disk is twice in a list.
Differ(s) == \A i, j \in 1 .. Len(s) : s[i] = s[j] => i = j

\* The vdevs deal the disks of T among them: each has one place.
Deals(vs, T) ==
    /\ \A i \in 1 .. Len(vs) : \A k \in 1 .. Len(vs[i].disks) : vs[i].disks[k] \in T
    /\ \A d \in T : \E i \in 1 .. Len(vs) : \E k \in 1 .. Len(vs[i].disks) : vs[i].disks[k] = d
    /\ \A i, j \in 1 .. Len(vs) : \A k \in 1 .. Len(vs[i].disks), l \in 1 .. Len(vs[j].disks) :
          vs[i].disks[k] = vs[j].disks[l] => i = j /\ k = l

\* Vdevs of these roles that can be created together from the disks of T.
Sound(vs, D, T, R) ==
    /\ vs \in Seq(VdevOf(D)) /\ Deals(vs, T)
    /\ \A i \in 1 .. Len(vs) : Fits(vs[i]) /\ vs[i].role \in R
    /\ \A i, j \in 1 .. Len(vs) : vs[i].kind = "stripe" /\ vs[j].role = vs[i].role => j = i

\* What a new vdev is made of.
LEMMA VdevIs ==
    ASSUME NEW kd, NEW role, NEW ds
    PROVE  /\ Vdev(kd, role, ds).kind = kd /\ Vdev(kd, role, ds).role = role
           /\ Vdev(kd, role, ds).disks = ds
           /\ Vdev(kd, role, ds).data = 0 /\ Vdev(kd, role, ds).spares = 0
BY DEF Vdev

\* Nothing can be created from no disks.
LEMMA SoundNone == ASSUME NEW D PROVE Sound(<<>>, D, {}, {})
<1>1. <<>> \in Seq(VdevOf(D)) /\ Len(<<>>) = 0
  OBVIOUS
<1>2. \A i \in 1 .. Len(<<>>) : FALSE
  BY <1>1
<1> QED
  BY <1>1, <1>2 DEF Sound, Deals

\* One vdev, from its disks.
LEMMA SoundOne ==
    ASSUME NEW D, NEW v \in VdevOf(D), Fits(v), Differ(v.disks)
    PROVE  Sound(<<v>>, D, ToSet(v.disks), {v.role})
<1> DEFINE vs == <<v>>
           T == ToSet(v.disks)
<1>1. vs \in Seq(VdevOf(D)) /\ Len(vs) = 1 /\ \A i \in 1 .. Len(vs) : i = 1 /\ vs[i] = v
  OBVIOUS
<1>2. v.disks \in Seq(D)
  BY DEF VdevOf
<1>3. \A x : x \in T <=> \E k \in 1 .. Len(v.disks) : v.disks[k] = x
  BY <1>2 DEF ToSet
<1>4. 1 \in 1 .. Len(vs)
  BY <1>1
<1> HIDE DEF vs, T
<1>5. Deals(vs, T)
  BY <1>1, <1>3, <1>4 DEF Deals, Differ
<1>6. Sound(vs, D, T, {v.role})
  BY <1>1, <1>5 DEF Sound
<1> QED
  BY <1>6 DEF vs, T

\* The vdevs of two layouts of different disks and roles.
LEMMA SoundBoth ==
    ASSUME NEW D, NEW s, NEW t, NEW S, NEW T, NEW Q, NEW R,
           Sound(s, D, S, Q), Sound(t, D, T, R), S \cap T = {}, Q \cap R = {}
    PROVE  Sound(s \o t, D, S \cup T, Q \cup R)
<1> DEFINE u == s \o t
           m == Len(s)
           n == Len(t)
<1>1. s \in Seq(VdevOf(D)) /\ t \in Seq(VdevOf(D))
  BY DEF Sound
<1>2. m \in Nat /\ n \in Nat
  BY <1>1
<1>3. /\ u \in Seq(VdevOf(D)) /\ Len(u) = m + n
      /\ \A i \in 1 .. m + n : u[i] = IF i <= m THEN s[i] ELSE t[i - m]
  BY <1>1, ConcatProperties
<1> HIDE DEF u, m, n
<1>4. ASSUME NEW i \in 1 .. Len(u)
      PROVE  \/ i \in 1 .. m /\ u[i] = s[i]
             \/ i > m /\ i - m \in 1 .. n /\ u[i] = t[i - m]
  <2>1. CASE i <= m
    BY <1>2, <1>3, <2>1
  <2>2. CASE ~(i <= m)
    BY <1>2, <1>3, <2>2
  <2> QED
    BY <2>1, <2>2
<1>5. /\ \A i \in 1 .. m : i \in 1 .. Len(u) /\ u[i] = s[i]
      /\ \A i \in 1 .. n : m + i \in 1 .. Len(u) /\ u[m + i] = t[i]
  <2>1. ASSUME NEW i \in 1 .. m PROVE i \in 1 .. Len(u) /\ u[i] = s[i]
    BY <1>2, <1>3
  <2>2. ASSUME NEW i \in 1 .. n PROVE m + i \in 1 .. Len(u) /\ u[m + i] = t[i]
    <3>1. m + i \in 1 .. m + n /\ ~(m + i <= m) /\ (m + i) - m = i
      BY <1>2
    <3> QED
      BY <1>3, <3>1
  <2> QED
    BY <2>1, <2>2
<1>6. /\ Deals(s, S) /\ Deals(t, T)
      /\ \A i \in 1 .. m : Fits(s[i]) /\ s[i].role \in Q
      /\ \A i \in 1 .. n : Fits(t[i]) /\ t[i].role \in R
      /\ \A i, j \in 1 .. m : s[i].kind = "stripe" /\ s[j].role = s[i].role => j = i
      /\ \A i, j \in 1 .. n : t[i].kind = "stripe" /\ t[j].role = t[i].role => j = i
  BY DEF Sound, m, n
<1>7. ASSUME NEW i \in 1 .. Len(u) PROVE Fits(u[i]) /\ u[i].role \in Q \cup R
  BY <1>4, <1>6
<1>8. ASSUME NEW i \in 1 .. Len(u), NEW j \in 1 .. Len(u), u[i].kind = "stripe", u[j].role = u[i].role
      PROVE  j = i
  <2>1. CASE i \in 1 .. m /\ u[i] = s[i] /\ j \in 1 .. m /\ u[j] = s[j]
    BY <1>6, <1>8, <2>1
  <2>2. CASE i > m /\ i - m \in 1 .. n /\ u[i] = t[i - m] /\ j > m /\ j - m \in 1 .. n /\ u[j] = t[j - m]
    <3>1. j - m = i - m
      BY <1>6, <1>8, <2>2
    <3> QED
      BY <1>2, <2>2, <3>1
  <2>3. ASSUME NEW k \in 1 .. m, NEW l \in 1 .. n PROVE s[k].role # t[l].role
    BY <1>6
  <2> QED
    BY <1>4, <1>8, <2>1, <2>2, <2>3
<1>9. Deals(u, S \cup T)
  <2>1. /\ \A i \in 1 .. m : \A k \in 1 .. Len(s[i].disks) : s[i].disks[k] \in S
        /\ \A d \in S : \E i \in 1 .. m : \E k \in 1 .. Len(s[i].disks) : s[i].disks[k] = d
        /\ \A i, j \in 1 .. m : \A k \in 1 .. Len(s[i].disks), l \in 1 .. Len(s[j].disks) :
              s[i].disks[k] = s[j].disks[l] => i = j /\ k = l
    BY <1>6 DEF Deals, m
  <2>2. /\ \A i \in 1 .. n : \A k \in 1 .. Len(t[i].disks) : t[i].disks[k] \in T
        /\ \A d \in T : \E i \in 1 .. n : \E k \in 1 .. Len(t[i].disks) : t[i].disks[k] = d
        /\ \A i, j \in 1 .. n : \A k \in 1 .. Len(t[i].disks), l \in 1 .. Len(t[j].disks) :
              t[i].disks[k] = t[j].disks[l] => i = j /\ k = l
    BY <1>6 DEF Deals, n
  <2>3. ASSUME NEW i \in 1 .. Len(u), NEW k \in 1 .. Len(u[i].disks) PROVE u[i].disks[k] \in S \cup T
    BY <1>4, <2>1, <2>2
  <2>4. ASSUME NEW d \in S \cup T
        PROVE  \E i \in 1 .. Len(u) : \E k \in 1 .. Len(u[i].disks) : u[i].disks[k] = d
    <3>1. CASE d \in S
      BY <1>5, <2>1, <3>1
    <3>2. CASE d \in T
      BY <1>5, <2>2, <3>2
    <3> QED
      BY <3>1, <3>2
  <2>5. ASSUME NEW i \in 1 .. Len(u), NEW j \in 1 .. Len(u),
               NEW k \in 1 .. Len(u[i].disks), NEW l \in 1 .. Len(u[j].disks),
               u[i].disks[k] = u[j].disks[l]
        PROVE  i = j /\ k = l
    <3>1. CASE i \in 1 .. m /\ u[i] = s[i] /\ j \in 1 .. m /\ u[j] = s[j]
      <4>1. k \in 1 .. Len(s[i].disks) /\ l \in 1 .. Len(s[j].disks) /\ s[i].disks[k] = s[j].disks[l]
        BY <2>5, <3>1, Zenon
      <4>2. \A p \in 1 .. Len(s[i].disks), q \in 1 .. Len(s[j].disks) :
                s[i].disks[p] = s[j].disks[q] => i = j /\ p = q
        BY <2>1, <3>1
      <4> QED
        BY <4>1, <4>2, Zenon
    <3>2. CASE i > m /\ i - m \in 1 .. n /\ u[i] = t[i - m] /\ j > m /\ j - m \in 1 .. n /\ u[j] = t[j - m]
      <4>1. PICK a \in 1 .. n, b \in 1 .. n : a = i - m /\ b = j - m /\ u[i] = t[a] /\ u[j] = t[b]
        BY <3>2
      <4>2. k \in 1 .. Len(t[a].disks) /\ l \in 1 .. Len(t[b].disks) /\ t[a].disks[k] = t[b].disks[l]
        BY <2>5, <4>1, Zenon
      <4>3. \A p \in 1 .. Len(t[a].disks), q \in 1 .. Len(t[b].disks) :
                t[a].disks[p] = t[b].disks[q] => a = b /\ p = q
        BY <2>2
      <4>4. a = b /\ k = l
        BY <4>2, <4>3, Zenon
      <4> QED
        BY <1>2, <3>2, <4>1, <4>4
    <3>3. ASSUME NEW a \in 1 .. m, NEW b \in 1 .. n,
                 NEW p \in 1 .. Len(s[a].disks), NEW q \in 1 .. Len(t[b].disks)
          PROVE  s[a].disks[p] # t[b].disks[q]
      <4>1. s[a].disks[p] \in S
        BY <2>1
      <4>2. t[b].disks[q] \in T
        BY <2>2
      <4> QED
        BY <4>1, <4>2
    <3>4. CASE i \in 1 .. m /\ u[i] = s[i] /\ j - m \in 1 .. n /\ u[j] = t[j - m]
      <4>1. s[i].disks[k] # t[j - m].disks[l]
        BY <3>3, <3>4
      <4> QED
        BY <2>5, <3>4, <4>1, Zenon
    <3>5. CASE j \in 1 .. m /\ u[j] = s[j] /\ i - m \in 1 .. n /\ u[i] = t[i - m]
      <4>1. s[j].disks[l] # t[i - m].disks[k]
        BY <3>3, <3>5
      <4> QED
        BY <2>5, <3>5, <4>1, Zenon
    <3> QED
      BY <1>4, <3>1, <3>2, <3>4, <3>5
  <2> QED
    BY <2>3, <2>4, <2>5 DEF Deals
<1>10. Sound(u, D, S \cup T, Q \cup R)
  BY <1>3, <1>7, <1>8, <1>9 DEF Sound
<1> QED
  BY <1>10 DEF u

\* More roles may be there than are used.
LEMMA SoundWider ==
    ASSUME NEW D, NEW s, NEW S, NEW Q, NEW R, Sound(s, D, S, Q), Q \subseteq R
    PROVE  Sound(s, D, S, R)
BY DEF Sound
\* The list s is cut at the places c, in order, and each piece is a vdev.
Cuts(s, k, c, vs) ==
    /\ k \in Nat /\ Len(s) \in Nat /\ Len(vs) = k /\ c[0] = 0
    /\ \A i \in 0 .. k : c[i] \in Nat /\ c[i] <= Len(s)
    /\ \A i, j \in 0 .. k : i <= j => c[i] <= c[j]
    /\ \A i \in 1 .. k : Len(vs[i].disks) = c[i] - c[i - 1]
    /\ \A i \in 1 .. k : \A j \in 1 .. (c[i] - c[i - 1]) : vs[i].disks[j] = s[c[i - 1] + j]

\* What is cut from a list of different disks deals them.
LEMMA DealsCut ==
    ASSUME NEW s, Differ(s), NEW k, NEW c, NEW vs, Cuts(s, k, c, vs),
           NEW T, \A x : x \in T <=> \E p \in 1 .. c[k] : s[p] = x
    PROVE  Deals(vs, T)
<1>0. /\ k \in Nat /\ Len(s) \in Nat /\ Len(vs) = k /\ c[0] = 0 /\ k \in 0 .. k
      /\ \A i \in 0 .. k : c[i] \in Nat /\ c[i] <= Len(s)
  BY DEF Cuts
<1>a. \A i, j \in 0 .. k : i <= j => c[i] <= c[j]
  BY DEF Cuts
<1>b. \A i \in 1 .. k : Len(vs[i].disks) = c[i] - c[i - 1]
  BY DEF Cuts
<1>c. \A i \in 1 .. k : \A j \in 1 .. (c[i] - c[i - 1]) : vs[i].disks[j] = s[c[i - 1] + j]
  BY DEF Cuts
<1>1. ASSUME NEW i \in 1 .. k
      PROVE  /\ i \in 0 .. k /\ i - 1 \in 0 .. k /\ c[i] \in Nat /\ c[i - 1] \in Nat
             /\ c[i] <= c[k] /\ c[i - 1] <= c[i] /\ c[i] <= Len(s)
             /\ Len(vs[i].disks) = c[i] - c[i - 1]
  <2>1. i \in 0 .. k /\ i - 1 \in 0 .. k /\ k \in 0 .. k /\ i <= k /\ i - 1 <= i
    BY <1>0
  <2>2. c[i] \in Nat /\ c[i] <= Len(s) /\ c[i - 1] \in Nat
    BY <1>0, <2>1
  <2>3. c[i] <= c[k] /\ c[i - 1] <= c[i]
    BY <1>a, <2>1
  <2> QED
    BY <1>b, <2>1, <2>2, <2>3
<1>2. ASSUME NEW i \in 1 .. k, NEW j \in 1 .. Len(vs[i].disks)
      PROVE  /\ vs[i].disks[j] = s[c[i - 1] + j] /\ c[i - 1] + j \in 1 .. c[k]
             /\ c[i - 1] + j \in 1 .. Len(s) /\ c[i - 1] + j <= c[i] /\ j \in Nat /\ c[i - 1] < c[i - 1] + j
  <2>1. /\ c[i] \in Nat /\ c[i - 1] \in Nat /\ c[i] <= c[k] /\ c[i - 1] <= c[i] /\ c[i] <= Len(s)
        /\ Len(vs[i].disks) = c[i] - c[i - 1]
    BY <1>1
  <2>2. j \in 1 .. (c[i] - c[i - 1])
    BY <2>1
  <2>3. vs[i].disks[j] = s[c[i - 1] + j]
    BY <1>c, <2>2
  <2>4. c[k] \in Nat
    BY <1>0
  <2>5. PICK lo \in Nat, hi \in Nat, top \in Nat : lo = c[i - 1] /\ hi = c[i] /\ top = c[k]
    BY <2>1, <2>4
  <2>6. j \in 1 .. (hi - lo) /\ hi <= top /\ lo <= hi /\ hi <= Len(s) /\ Len(s) \in Nat
    BY <1>0, <2>1, <2>2, <2>5
  <2>7. lo + j \in 1 .. top /\ lo + j \in 1 .. Len(s) /\ lo + j <= hi /\ j \in Nat /\ lo < lo + j
    BY <2>6
  <2> QED
    BY <2>3, <2>5, <2>7
<1>3. ASSUME NEW i \in 1 .. k, NEW j \in 1 .. Len(vs[i].disks) PROVE vs[i].disks[j] \in T
  BY <1>2
<1>4. ASSUME NEW d \in T PROVE \E i \in 1 .. k : \E j \in 1 .. Len(vs[i].disks) : vs[i].disks[j] = d
  <2>1. PICK p \in 1 .. c[k] : s[p] = d
    OBVIOUS
  <2> DEFINE P == {i \in 0 .. k : p <= c[i]}
  <2>2. k \in P
    BY <1>0, <2>1
  <2>3. \A x \in P : x \in Nat
    BY <1>0
  <2>4. PICK i \in P : \A y \in P : i <= y
    <3> HIDE DEF P
    <3> QED
      BY <2>2, <2>3, LeastOf
  <2>5. i \in 0 .. k /\ p <= c[i] /\ p \in Nat /\ p >= 1
    BY <1>0, <2>1, <2>4
  <2>6. i # 0
    BY <1>0, <2>5
  <2>7. i \in 1 .. k /\ i - 1 \in 0 .. k /\ ~(i <= i - 1)
    BY <1>0, <2>5, <2>6
  <2>8. ~(p <= c[i - 1])
    BY <2>4, <2>7
  <2>9. /\ c[i] \in Nat /\ c[i - 1] \in Nat /\ Len(vs[i].disks) = c[i] - c[i - 1]
    BY <1>1, <2>7
  <2>10. PICK j \in 1 .. Len(vs[i].disks) : j = p - c[i - 1]
    <3>1. p - c[i - 1] \in 1 .. (c[i] - c[i - 1])
      BY <2>5, <2>8, <2>9
    <3> QED
      BY <2>9, <3>1
  <2>11. vs[i].disks[j] = s[c[i - 1] + j]
    BY <1>2, <2>7
  <2>12. c[i - 1] + j = p
    BY <2>5, <2>9, <2>10
  <2> QED
    BY <2>1, <2>7, <2>11, <2>12
<1>5. ASSUME NEW i \in 1 .. k, NEW j \in 1 .. k,
             NEW a \in 1 .. Len(vs[i].disks), NEW b \in 1 .. Len(vs[j].disks),
             vs[i].disks[a] = vs[j].disks[b]
      PROVE  i = j /\ a = b
  <2>1. /\ vs[i].disks[a] = s[c[i - 1] + a] /\ c[i - 1] + a \in 1 .. Len(s) /\ c[i - 1] + a <= c[i]
        /\ a \in Nat /\ c[i - 1] < c[i - 1] + a
    BY <1>2
  <2>2. /\ vs[j].disks[b] = s[c[j - 1] + b] /\ c[j - 1] + b \in 1 .. Len(s) /\ c[j - 1] + b <= c[j]
        /\ b \in Nat /\ c[j - 1] < c[j - 1] + b
    BY <1>2
  <2>3. c[i - 1] + a = c[j - 1] + b
    <3>1. s[c[i - 1] + a] = s[c[j - 1] + b]
      BY <1>5, <2>1, <2>2
    <3> QED
      BY <2>1, <2>2, <3>1 DEF Differ
  <2>4. /\ c[i] \in Nat /\ c[i - 1] \in Nat /\ c[j] \in Nat /\ c[j - 1] \in Nat
        /\ i \in 0 .. k /\ j \in 0 .. k /\ i - 1 \in 0 .. k /\ j - 1 \in 0 .. k
    BY <1>1
  <2>0. \A x, y, z, w \in Nat : x <= y /\ y <= z /\ z < w => x # w
    OBVIOUS
  <2>5. ~(i < j)
    <3> SUFFICES ASSUME i < j PROVE FALSE
      OBVIOUS
    <3>1. i <= j - 1
      BY <1>0
    <3>2. c[i] <= c[j - 1]
      BY <1>a, <2>4, <3>1
    <3> QED
      BY <2>1, <2>2, <2>3, <2>4, <2>0, <3>2
  <2>6. ~(j < i)
    <3> SUFFICES ASSUME j < i PROVE FALSE
      OBVIOUS
    <3>1. j <= i - 1
      BY <1>0
    <3>2. c[j] <= c[i - 1]
      BY <1>a, <2>4, <3>1
    <3> QED
      BY <2>1, <2>2, <2>3, <2>4, <2>0, <3>2
  <2>7. i = j
    BY <1>0, <2>5, <2>6
  <2> QED
    BY <2>1, <2>2, <2>3, <2>4, <2>7
<1> QED
  BY <1>0, <1>3, <1>4, <1>5 DEF Deals

\* What a quotient is.
LEMMA Divides ==
    ASSUME NEW a \in Nat, NEW k \in Nat \ {0}
    PROVE  a \div k \in Nat /\ k * (a \div k) <= a /\ a < k * (a \div k + 1)
OBVIOUS

\* The cuts of a division come in order.
LEMMA CutsInOrder ==
    ASSUME NEW L \in Nat, NEW k \in Nat \ {0}, NEW i \in 0 .. k, NEW j \in 0 .. k, i <= j
    PROVE  (i * L) \div k <= (j * L) \div k
<1> DEFINE p == (i * L) \div k
           q == (j * L) \div k
<1>1. i * L \in Nat /\ j * L \in Nat /\ i * L <= j * L
  OBVIOUS
<1>2. p \in Nat /\ k * p <= i * L /\ q \in Nat /\ j * L < k * (q + 1)
  BY <1>1, Divides
<1> HIDE DEF p, q
<1>3. ~(p >= q + 1)
  <2> SUFFICES ASSUME p >= q + 1 PROVE FALSE
    OBVIOUS
  <2>1. k * p >= k * (q + 1)
    BY <1>2
  <2> QED
    BY <1>1, <1>2, <2>1
<1>4. p <= q
  BY <1>2, <1>3
<1> QED
  BY <1>4 DEF p, q

\* Where there are at least m for each piece, each piece is m long.
LEMMA CutsApart ==
    ASSUME NEW L \in Nat, NEW k \in Nat \ {0}, NEW i \in 1 .. k, NEW m \in Nat, L >= k * m
    PROVE  (i * L) \div k - ((i - 1) * L) \div k >= m
<1> DEFINE p == ((i - 1) * L) \div k
           q == (i * L) \div k
<1>1. i * L \in Nat /\ (i - 1) * L \in Nat /\ i * L = (i - 1) * L + L
  OBVIOUS
<1>2. p \in Nat /\ k * p <= (i - 1) * L /\ q \in Nat /\ i * L < k * (q + 1)
  BY <1>1, Divides
<1> HIDE DEF p, q
<1>3. ~(p + m >= q + 1)
  <2> SUFFICES ASSUME p + m >= q + 1 PROVE FALSE
    OBVIOUS
  <2>1. k * (p + m) >= k * (q + 1)
    BY <1>2
  <2>2. k * (p + m) = k * p + k * m
    BY <1>2
  <2>3. k * m \in Nat /\ k * p \in Nat /\ k * (q + 1) \in Nat
    BY <1>2
  <2> QED
    BY <1>1, <1>2, <2>1, <2>2, <2>3
<1>4. q - p >= m
  BY <1>2, <1>3
<1> QED
  BY <1>4 DEF p, q
\* RAIDZ vdevs cut from enough disks are wide enough, and deal them.
LEMMA RaidzSound ==
    ASSUME NEW D, NEW s \in Seq(D), Differ(s), NEW kd \in DOMAIN Raidz, NEW wide \in Nat \ {0},
           Len(s) >= Raidz[kd] + 1,
           \A k \in Nat \ {0} : k * wide <= Len(s) + wide - 1 => k * (Raidz[kd] + 1) <= Len(s)
    PROVE  /\ Sound(RaidzOf(s, kd, wide), D, ToSet(s), {"data"})
           /\ 1 \in 1 .. Len(RaidzOf(s, kd, wide))
<1> DEFINE L == Len(s)
           k == (L + wide - 1) \div wide
           gs == Split(s, k)
           vs == RaidzOf(s, kd, wide)
           c == [i \in 0 .. k |-> (i * L) \div k]
           m == Raidz[kd] + 1
<1>1. L \in Nat /\ kd \in {"raidz1", "raidz2", "raidz3"} /\ m \in Nat /\ m >= 2 /\ L >= m
  BY DEF Raidz
<1>2. k \in Nat \ {0} /\ k * wide <= L + wide - 1
  <2>1. L + wide - 1 \in Nat /\ L + wide - 1 >= wide
    BY <1>1
  <2>3. k \in Nat /\ wide * k <= L + wide - 1 /\ L + wide - 1 < wide * (k + 1)
    BY <2>1, Divides
  <2> HIDE DEF k
  <2>4. k # 0
    BY <2>1, <2>3
  <2> QED
    BY <2>3, <2>4
<1>3. L >= k * m
  <2>1. k * m <= L
    BY <1>2
  <2> QED
    BY <1>1, <1>2, <2>1
<1>4. kd \in VdevKinds /\ vs \in Seq(VdevOf(D))
  <2>1. kd \in VdevKinds
    BY DEF VdevKinds
  <2>2. Len(s) >= 1
    BY <1>1
  <2> QED
    BY <2>1, <2>2, RaidzTyped
<1>5. gs = [i \in 1 .. k |-> SubSeq(s, ((i - 1) * L) \div k + 1, (i * L) \div k)]
  BY DEF Split
<1>6. vs = [i \in DOMAIN gs |-> Vdev(kd, "data", gs[i])]
  BY DEF RaidzOf
<1> HIDE DEF k, m, L, gs, vs
<1>7. c = [i \in 0 .. k |-> (i * L) \div k]
  OBVIOUS
<1>8. \A i \in 0 .. k : c[i] \in 0 .. L
  <2> SUFFICES ASSUME NEW i \in 0 .. k PROVE (i * L) \div k \in 0 .. L
    OBVIOUS
  <2> QED
    BY <1>1, <1>2, CutInside
<1>9. \A i, j \in 0 .. k : i <= j => c[i] <= c[j]
  <2> SUFFICES ASSUME NEW i \in 0 .. k, NEW j \in 0 .. k, i <= j PROVE (i * L) \div k <= (j * L) \div k
    OBVIOUS
  <2> QED
    BY <1>1, <1>2, CutsInOrder
<1>10. c[0] = 0 /\ c[k] = L
  <2>1. 0 \in 0 .. k /\ k \in 0 .. k
    BY <1>2
  <2>2. (0 * L) \div k = 0 /\ (k * L) \div k = L
    BY <1>1, <1>2
  <2> QED
    BY <2>1, <2>2
<1>11. \A i \in 1 .. k : c[i] - c[i - 1] >= m
  <2> SUFFICES ASSUME NEW i \in 1 .. k PROVE c[i] - c[i - 1] >= m
    OBVIOUS
  <2>1. i \in 0 .. k /\ i - 1 \in 0 .. k
    BY <1>2
  <2>2. (i * L) \div k - ((i - 1) * L) \div k >= m
    BY <1>1, <1>2, <1>3, CutsApart
  <2> QED
    BY <2>1, <2>2
<1>12. Len(vs) = k /\ \A i \in 1 .. k : vs[i] = Vdev(kd, "data", SubSeq(s, c[i - 1] + 1, c[i]))
  <2>1. DOMAIN gs = 1 .. k
    BY <1>5
  <2>2. DOMAIN vs = 1 .. k /\ Len(vs) = k
    BY <1>2, <1>4, <1>6, <2>1
  <2>3. ASSUME NEW i \in 1 .. k PROVE vs[i] = Vdev(kd, "data", SubSeq(s, c[i - 1] + 1, c[i]))
    <3>1. i \in 0 .. k /\ i - 1 \in 0 .. k
      BY <1>2
    <3>2. gs[i] = SubSeq(s, c[i - 1] + 1, c[i])
      BY <1>5, <3>1
    <3> QED
      BY <1>6, <2>1, <3>2
  <2> QED
    BY <2>2, <2>3
<1> HIDE DEF c
<1>13. ASSUME NEW i \in 1 .. k
       PROVE  /\ vs[i].kind = kd /\ vs[i].role = "data" /\ vs[i].disks \in Seq(D)
              /\ Len(vs[i].disks) = c[i] - c[i - 1]
              /\ \A j \in 1 .. (c[i] - c[i - 1]) : vs[i].disks[j] = s[c[i - 1] + j]
  <2>1. i \in 0 .. k /\ i - 1 \in 0 .. k /\ i - 1 <= i
    BY <1>2
  <2>2. c[i] \in 0 .. L /\ c[i - 1] \in 0 .. L /\ c[i - 1] <= c[i]
    BY <1>8, <1>9, <2>1
  <2>3. vs[i] = Vdev(kd, "data", SubSeq(s, c[i - 1] + 1, c[i]))
    BY <1>12
  <2>4. PICK lo \in 0 .. L, hi \in 0 .. L : lo = c[i - 1] /\ hi = c[i] /\ lo <= hi
    BY <2>2
  <2>5. /\ SubSeq(s, lo + 1, hi) \in Seq(D)
        /\ Len(SubSeq(s, lo + 1, hi)) = hi - lo
        /\ \A j \in 1 .. (hi - lo) : SubSeq(s, lo + 1, hi)[j] = s[lo + j]
    <3> DEFINE a == lo + 1
    <3>1. a \in Int /\ hi \in Int /\ \A j \in a .. hi : s[j] \in D
      BY <1>1, <2>4 DEF L
    <3>0. lo \in Nat /\ hi \in Nat /\ lo <= hi
      BY <1>1, <2>4
    <3>2. hi - a + 1 = hi - lo /\ (a <= hi \/ hi - lo = 0) /\ \A j \in 1 .. (hi - lo) : a + j - 1 = lo + j
      BY <3>0
    <3> HIDE DEF a
    <3>3. /\ SubSeq(s, a, hi) \in Seq(D)
          /\ Len(SubSeq(s, a, hi)) = IF a <= hi THEN hi - a + 1 ELSE 0
          /\ \A j \in 1 .. (hi - a + 1) : SubSeq(s, a, hi)[j] = s[a + j - 1]
      BY <3>1, SubSeqProperties
    <3>4. ~(a <= hi) => Len(SubSeq(s, a, hi)) = hi - lo
      BY <3>2, <3>3
    <3>5. Len(SubSeq(s, a, hi)) = hi - lo
      BY <3>2, <3>3, <3>4
    <3>6. \A j \in 1 .. (hi - lo) : SubSeq(s, a, hi)[j] = s[lo + j]
      BY <3>2, <3>3
    <3> QED
      BY <3>3, <3>5, <3>6 DEF a
  <2>6. vs[i] = Vdev(kd, "data", SubSeq(s, lo + 1, hi))
    BY <2>3, <2>4, Zenon
  <2>7. vs[i].kind = kd /\ vs[i].role = "data" /\ vs[i].disks = SubSeq(s, lo + 1, hi)
    <3> DEFINE cut == SubSeq(s, lo + 1, hi)
    <3> HIDE DEF cut
    <3>1. vs[i] = Vdev(kd, "data", cut)
      BY <2>6 DEF cut
    <3>2. vs[i].kind = kd /\ vs[i].role = "data" /\ vs[i].disks = cut
      BY <3>1, VdevIs
    <3> QED
      BY <3>2 DEF cut
  <2> QED
    BY <2>4, <2>5, <2>7
<1>14. Deals(vs, ToSet(s))
  <2>1. Cuts(s, k, c, vs)
    <3>1. k \in Nat /\ L \in Nat /\ \A i \in 0 .. k : c[i] \in Nat /\ c[i] <= L
      BY <1>1, <1>2, <1>8
    <3> QED
      BY <1>9, <1>10, <1>12, <1>13, <3>1 DEF Cuts, L
  <2>2. \A x : x \in ToSet(s) <=> \E p \in 1 .. c[k] : s[p] = x
    BY <1>10 DEF ToSet, L
  <2> QED
    BY <2>1, <2>2, DealsCut
<1>15. ASSUME NEW i \in 1 .. k PROVE Fits(vs[i]) /\ vs[i].kind # "stripe"
  <2>1. /\ vs[i].kind = kd /\ vs[i].role = "data" /\ Len(vs[i].disks) = c[i] - c[i - 1]
        /\ c[i] - c[i - 1] >= m
    BY <1>11, <1>13
  <2>2. MinDisks(vs[i]) = m /\ ~IsDraid(vs[i]) /\ vs[i].kind # "stripe"
    BY <1>1, <2>1 DEF MinDisks, Parity, IsDraid, Draid, Raidz, m
  <2> QED
    BY <2>1, <2>2 DEF Fits
<1>16. Sound(vs, D, ToSet(s), {"data"})
  BY <1>4, <1>12, <1>13, <1>14, <1>15 DEF Sound
<1>17. 1 \in 1 .. Len(vs)
  BY <1>2, <1>12
<1> QED
  BY <1>16, <1>17 DEF vs
\* A stripe of different disks, in any role.
LEMMA StripeSound ==
    ASSUME NEW D, NEW s \in Seq(D), Len(s) >= 1, Differ(s), NEW role \in ToSet(Roles) \cup {"data"}
    PROVE  Sound(<<Vdev("stripe", role, s)>>, D, ToSet(s), {role})
<1> DEFINE v == Vdev("stripe", role, s)
<1>1. v \in VdevOf(D)
  BY VdevTyped, KindsAndRoles
<1>2. v.kind = "stripe" /\ v.role = role /\ v.disks = s /\ v.data = 0 /\ v.spares = 0
  BY VdevIs
<1> HIDE DEF v
<1>3. s # <<>>
  OBVIOUS
<1>4. MinDisks(v) = 1 /\ ~IsDraid(v)
  BY <1>2 DEF MinDisks, IsDraid, Draid
<1>5. Fits(v)
  BY <1>2, <1>3, <1>4 DEF Fits, Plain
<1>6. Sound(<<v>>, D, ToSet(v.disks), {v.role})
  BY <1>1, <1>2, <1>5, SoundOne
<1> QED
  BY <1>2, <1>6 DEF v

\* A mirror of different disks, as data or log.
LEMMA MirrorSound ==
    ASSUME NEW D, NEW s \in Seq(D), Len(s) >= 2, Differ(s), NEW role \in {"data", "log"}
    PROVE  Sound(<<Vdev("mirror", role, s)>>, D, ToSet(s), {role})
<1> DEFINE v == Vdev("mirror", role, s)
<1>1. v \in VdevOf(D)
  BY VdevTyped, KindsAndRoles
<1>2. v.kind = "mirror" /\ v.role = role /\ v.disks = s
  BY VdevIs
<1> HIDE DEF v
<1>3. MinDisks(v) = 2 /\ ~IsDraid(v)
  BY <1>2 DEF MinDisks, IsDraid, Draid
<1>4. Fits(v)
  BY <1>2, <1>3 DEF Fits
<1>5. Sound(<<v>>, D, ToSet(v.disks), {v.role})
  BY <1>1, <1>2, <1>4, SoundOne
<1> QED
  BY <1>2, <1>5 DEF v

\* A dRAID whose layout was found has whole groups.
LEMMA DraidFits ==
    ASSUME NEW n \in Nat, NEW parity \in Nat, DraidLayout(n, parity) # <<>>
    PROVE  LET dl == DraidLayout(n, parity)
           IN  dl[1] >= 1 /\ n - dl[2] >= dl[1] + parity /\ (n - dl[2]) % (dl[1] + parity) = 0
<1> DEFINE dl == DraidLayout(n, parity)
           fits(s) == {d \in 2 .. 8 : n - s >= d + parity /\ (n - s) % (d + parity) = 0}
           spares == IF fits(1) # {} THEN 1 ELSE IF fits(2) # {} THEN 2 ELSE 0
           S == fits(spares)
           m == Max(S)
<1>1. S \in SUBSET (0 .. 8) /\ spares \in Nat
  OBVIOUS
<1>2. dl = IF S = {} THEN <<>> ELSE <<m, spares>>
  BY DEF DraidLayout
<1>3. \A d \in S : d >= 1 /\ n - spares >= d + parity /\ (n - spares) % (d + parity) = 0
  OBVIOUS
<1> HIDE DEF S, spares, dl
<1>4. S # {} /\ dl = <<m, spares>>
  BY <1>2 DEF dl
<1>5. m \in S
  BY <1>1, <1>4, MaxOf
<1> HIDE DEF m
<1>6. m >= 1 /\ n - spares >= m + parity /\ (n - spares) % (m + parity) = 0
  BY <1>3, <1>5
<1>7. dl[1] = m /\ dl[2] = spares
  BY <1>4
<1>8. dl[1] >= 1 /\ n - dl[2] >= dl[1] + parity /\ (n - dl[2]) % (dl[1] + parity) = 0
  BY <1>6, <1>7
<1> QED
  BY <1>8 DEF dl

\* So can the dRAID that is proposed be created.
LEMMA DraidSound ==
    ASSUME NEW D, NEW s \in Seq(D), Differ(s), Len(s) >= 8, DraidLayout(Len(s), 2) # <<>>
    PROVE  Sound(DraidOf(s), D, ToSet(s), {"data"})
<1> DEFINE dl == DraidLayout(Len(s), 2)
           v == Vdev("draid2", "data", s)
           w == [v EXCEPT !.data = dl[1], !.spares = dl[2]]
           n == Len(s)
<1>1. dl[1] \in Nat /\ dl[2] \in Nat
  BY DraidTyped
<1>2. dl[1] >= 1 /\ n - dl[2] >= dl[1] + 2 /\ (n - dl[2]) % (dl[1] + 2) = 0
  <2>1. n \in Nat /\ 2 \in Nat
    OBVIOUS
  <2> HIDE DEF n
  <2>2. DraidLayout(n, 2) # <<>>
    BY DEF n
  <2> QED
    BY <2>1, <2>2, DraidFits DEF n
<1>3. v \in VdevOf(D)
  BY VdevTyped, KindsAndRoles
<1>4. DraidOf(s) = <<w>>
  BY DEF DraidOf
<1> HIDE DEF dl
<1>5. w.kind = "draid2" /\ w.role = "data" /\ w.disks = s /\ w.data = dl[1] /\ w.spares = dl[2]
  BY DEF Vdev
<1> HIDE DEF v
<1>6. w \in VdevOf(D)
  BY <1>1, <1>3 DEF VdevOf
<1> HIDE DEF w, n
<1>7. MinDisks(w) = 3 /\ Parity(w) = 2
  BY <1>5 DEF MinDisks, Parity, IsDraid, Draid, Raidz
<1>8. Len(w.disks) = n /\ n >= 3
  BY <1>5 DEF n
<1>9. Fits(w)
  BY <1>2, <1>5, <1>7, <1>8 DEF Fits
<1>10. Sound(<<w>>, D, ToSet(w.disks), {w.role})
  BY <1>5, <1>6, <1>9, SoundOne
<1> QED
  BY <1>4, <1>5, <1>10

\* Pairs, with the odd disk out as a spare, deal all the disks.
LEMMA MirrorsSound ==
    ASSUME NEW D, NEW s \in Seq(D), Differ(s), Len(s) >= 2
    PROVE  /\ Sound(Mirrors(s), D, ToSet(s), {"data", "spare"})
           /\ 1 \in 1 .. Len(Mirrors(s)) /\ Mirrors(s)[1].role = "data"
<1> DEFINE L == Len(s)
           k == L \div 2
           pair(i) == SubSeq(s, 2 * i - 1, 2 * i)
           f == [i \in 1 .. k |-> Vdev("mirror", "data", pair(i))]
           odd == IF L % 2 = 1 THEN <<Vdev("stripe", "spare", <<s[L]>>)>> ELSE <<>>
           c == [i \in 0 .. k |-> 2 * i]
           T == {s[p] : p \in 1 .. 2 * k}
           U == IF L % 2 = 1 THEN {s[L]} ELSE {}
<1>1. /\ L \in Nat /\ k \in Nat /\ 1 <= k
      /\ 2 * k <= L /\ (L % 2 = 1 => L = 2 * k + 1) /\ (L % 2 # 1 => L = 2 * k)
  OBVIOUS
<1>2. Mirrors(s) = f \o odd
  BY DEF Mirrors
<1>3. f = [i \in 1 .. k |-> Vdev("mirror", "data", pair(i))]
  OBVIOUS
<1> HIDE DEF k, f
<1>4. ASSUME NEW i \in 1 .. k
      PROVE  /\ pair(i) \in Seq(D) /\ Len(pair(i)) = 2
             /\ \A j \in 1 .. 2 : pair(i)[j] = s[2 * (i - 1) + j]
  <2> DEFINE a == 2 * i - 1
             b == 2 * i
  <2>1. a \in Int /\ b \in Int /\ \A j \in a .. b : s[j] \in D
    BY <1>1
  <2>5. pair(i) = SubSeq(s, a, b)
    OBVIOUS
  <2> HIDE DEF a, b, pair
  <2>6. /\ SubSeq(s, a, b) \in Seq(D)
        /\ Len(SubSeq(s, a, b)) = IF a <= b THEN b - a + 1 ELSE 0
        /\ \A j \in 1 .. b - a + 1 : SubSeq(s, a, b)[j] = s[a + j - 1]
    BY <2>1, SubSeqProperties
  <2>2. /\ pair(i) \in Seq(D)
        /\ Len(pair(i)) = IF 2 * i - 1 <= 2 * i THEN 2 * i - (2 * i - 1) + 1 ELSE 0
        /\ \A j \in 1 .. (2 * i - (2 * i - 1) + 1) : pair(i)[j] = s[(2 * i - 1) + j - 1]
    BY <2>5, <2>6 DEF a, b
  <2>3. 2 * i - 1 <= 2 * i /\ 2 * i - (2 * i - 1) + 1 = 2
    BY <1>1
  <2>4. \A j \in 1 .. 2 : (2 * i - 1) + j - 1 = 2 * (i - 1) + j
    BY <1>1
  <2> HIDE DEF pair
  <2> QED
    BY <2>2, <2>3, <2>4
<1> HIDE DEF pair
<1>5. f \in Seq(VdevOf(D)) /\ Len(f) = k
  <2>1. f \in [1 .. k -> VdevOf(D)]
    BY <1>3, <1>4, VdevTyped, KindsAndRoles
  <2> QED
    BY <1>1, <2>1, IsSeq
<1>6. ASSUME NEW i \in 1 .. k
      PROVE  f[i].kind = "mirror" /\ f[i].role = "data" /\ f[i].disks = pair(i)
  BY <1>3, VdevIs
<1>7. ASSUME NEW i \in 1 .. k PROVE Fits(f[i])
  <2>1. MinDisks(f[i]) = 2 /\ ~IsDraid(f[i])
    BY <1>6 DEF MinDisks, IsDraid, Draid
  <2> QED
    BY <1>4, <1>6, <2>1 DEF Fits
<1>8. /\ \A i \in 0 .. k : c[i] = 2 * i
      /\ 0 \in 0 .. k /\ k \in 0 .. k /\ \A i \in 1 .. k : i \in 0 .. k /\ i - 1 \in 0 .. k
  BY <1>1
<1> HIDE DEF c, L
<1>9. Cuts(s, k, c, f)
  <2>1. \A i \in 0 .. k : c[i] \in Nat /\ c[i] <= L
    BY <1>1, <1>8
  <2>2. \A i, j \in 0 .. k : i <= j => c[i] <= c[j]
    BY <1>1, <1>8
  <2>3. c[0] = 0
    BY <1>8
  <2>4. \A i \in 1 .. k : c[i] - c[i - 1] = 2 /\ c[i - 1] = 2 * (i - 1)
    BY <1>1, <1>8
  <2>5. \A i \in 1 .. k : Len(f[i].disks) = c[i] - c[i - 1]
    BY <1>4, <1>6, <2>4
  <2>6. \A i \in 1 .. k : \A j \in 1 .. (c[i] - c[i - 1]) : f[i].disks[j] = s[c[i - 1] + j]
    BY <1>4, <1>6, <2>4
  <2> QED
    BY <1>1, <1>5, <2>1, <2>2, <2>3, <2>5, <2>6 DEF Cuts, L
<1>10. Deals(f, T)
  <2>1. \A x : x \in T <=> \E p \in 1 .. c[k] : s[p] = x
    BY <1>8
  <2> HIDE DEF T
  <2> QED
    BY <1>9, <2>1, DealsCut
<1>11. Sound(f, D, T, {"data"})
  BY <1>5, <1>6, <1>7, <1>10 DEF Sound
<1>12. Sound(odd, D, U, {"spare"})
  <2>1. CASE L % 2 = 1
    <3> DEFINE u == <<s[L]>>
    <3>1. u \in Seq(D) /\ Len(u) = 1 /\ u[1] = s[L]
      BY <1>1 DEF L
    <3>2. odd = <<Vdev("stripe", "spare", u)>> /\ U = {s[L]}
      BY <2>1
    <3> HIDE DEF u
    <3>3. Differ(u) /\ ToSet(u) = {s[L]}
      BY <3>1 DEF Differ, ToSet
    <3>4. Sound(<<Vdev("stripe", "spare", u)>>, D, ToSet(u), {"spare"})
      <4>1. "spare" \in ToSet(Roles) \cup {"data"} /\ Len(u) >= 1
        BY <3>1, KindsAndRoles
      <4> QED
        BY <3>1, <3>3, <4>1, StripeSound
    <3> HIDE DEF U, odd
    <3> QED
      BY <3>2, <3>3, <3>4
  <2>2. CASE L % 2 # 1
    <3>1. odd = <<>> /\ U = {}
      BY <2>2
    <3>2. Sound(<<>>, D, {}, {})
      BY SoundNone
    <3> HIDE DEF U, odd
    <3> QED
      BY <3>1, <3>2, SoundWider
  <2> QED
    BY <2>1, <2>2
<1>13. T \cap U = {} /\ T \cup U = ToSet(s)
  <2>1. \A x : x \in ToSet(s) <=> \E p \in 1 .. L : s[p] = x
    BY DEF ToSet, L
  <2>2. \A x : x \in T <=> \E p \in 1 .. 2 * k : s[p] = x
    OBVIOUS
  <2>3. \A x : x \in U <=> L % 2 = 1 /\ x = s[L]
    OBVIOUS
  <2>4. \A i, j \in 1 .. L : s[i] = s[j] => i = j
    BY DEF Differ, L
  <2> HIDE DEF T, U
  <2>5. CASE L % 2 = 1
    <3>1. L = 2 * k + 1 /\ L \in 1 .. L
      BY <1>1, <2>5
    <3>2. \A p \in 1 .. 2 * k : p \in 1 .. L /\ p # L
      BY <1>1, <3>1
    <3>3. \A p \in 1 .. L : p \in 1 .. 2 * k \/ p = L
      BY <1>1, <3>1
    <3>4. T \cap U = {}
      BY <2>2, <2>3, <2>4, <3>1, <3>2
    <3>5. \A x : x \in T \cup U <=> x \in ToSet(s)
      BY <2>1, <2>2, <2>3, <2>5, <3>1, <3>2, <3>3
    <3> QED
      BY <3>4, <3>5, Zenon
  <2>6. CASE L % 2 # 1
    <3>1. L = 2 * k
      BY <1>1, <2>6
    <3>2. \A x : x \in T \cup U <=> x \in ToSet(s)
      BY <2>1, <2>2, <2>3, <2>6, <3>1
    <3>3. T \cap U = {}
      BY <2>3, <2>6
    <3> QED
      BY <3>2, <3>3, Zenon
  <2> QED
    BY <2>5, <2>6
<1> HIDE DEF T, U, odd
<1>14. Sound(f \o odd, D, T \cup U, {"data"} \cup {"spare"})
  <2>1. {"data"} \cap {"spare"} = {}
    OBVIOUS
  <2> QED
    BY <1>11, <1>12, <1>13, <2>1, SoundBoth
<1>15. odd \in Seq(VdevOf(D))
  BY <1>12 DEF Sound
<1>16. 1 \in 1 .. Len(f \o odd) /\ (f \o odd)[1] = f[1] /\ 1 \in 1 .. k
  <2>1. Len(odd) \in Nat
    BY <1>15
  <2>2. /\ Len(f \o odd) = k + Len(odd)
        /\ \A i \in 1 .. k + Len(odd) : (f \o odd)[i] = IF i <= k THEN f[i] ELSE odd[i - k]
    BY <1>5, <1>15, ConcatProperties
  <2>3. 1 \in 1 .. k + Len(odd) /\ 1 \in 1 .. k
    BY <1>1, <2>1
  <2> QED
    BY <1>1, <2>2, <2>3
<1>17. {"data"} \cup {"spare"} = {"data", "spare"}
  OBVIOUS
<1>18. Sound(f \o odd, D, ToSet(s), {"data", "spare"})
  BY <1>13, <1>14, <1>17
<1> QED
  BY <1>2, <1>6, <1>16, <1>18
\* A layout that is proposed for the disks of a list, and their data.
Proposed(vs, D, s) ==
    /\ Sound(vs, D, ToSet(s), {"data", "spare"})
    /\ \E i \in 1 .. Len(vs) : vs[i].role = "data"

\* The RAIDZ layouts that are offered.
LEMMA RaidzOffered ==
    ASSUME NEW D, NEW s \in Seq(D), Differ(s)
    PROVE  /\ Len(s) >= 3 => Proposed(RaidzOf(s, "raidz1", 8), D, s)
           /\ Len(s) >= 4 => Proposed(RaidzOf(s, "raidz2", 12), D, s)
           /\ Len(s) >= 6 => Proposed(RaidzOf(s, "raidz3", 15), D, s)
<1> DEFINE L == Len(s)
<1>1. L \in Nat
  OBVIOUS
<1>2. ASSUME NEW kd \in DOMAIN Raidz, NEW wide \in Nat \ {0}, L >= Raidz[kd] + 1,
             \A k \in Nat \ {0} : k * wide <= L + wide - 1 => k * (Raidz[kd] + 1) <= L
      PROVE  Proposed(RaidzOf(s, kd, wide), D, s)
  <2> DEFINE vs == RaidzOf(s, kd, wide)
  <2>1. Sound(vs, D, ToSet(s), {"data"}) /\ 1 \in 1 .. Len(vs)
    BY <1>2, RaidzSound
  <2> HIDE DEF vs
  <2>2. Sound(vs, D, ToSet(s), {"data", "spare"})
    BY <2>1, SoundWider
  <2>3. vs[1].role = "data"
    BY <2>1 DEF Sound
  <2>4. Proposed(vs, D, s)
    BY <2>1, <2>2, <2>3 DEF Proposed
  <2> QED
    BY <2>4 DEF vs
<1> HIDE DEF L
<1>3. /\ Raidz["raidz1"] = 1 /\ Raidz["raidz2"] = 2 /\ Raidz["raidz3"] = 3
      /\ "raidz1" \in DOMAIN Raidz /\ "raidz2" \in DOMAIN Raidz /\ "raidz3" \in DOMAIN Raidz
  BY DEF Raidz
<1>4. ASSUME L >= 3 PROVE Proposed(RaidzOf(s, "raidz1", 8), D, s)
  <2>1. \A k \in Nat \ {0} : k * 8 <= L + 8 - 1 => k * (1 + 1) <= L
    BY <1>1, <1>4
  <2>2. 8 \in Nat \ {0} /\ L >= 1 + 1
    BY <1>1, <1>4
  <2> QED
    BY <1>2, <1>3, <2>1, <2>2
<1>5. ASSUME L >= 4 PROVE Proposed(RaidzOf(s, "raidz2", 12), D, s)
  <2>1. \A k \in Nat \ {0} : k * 12 <= L + 12 - 1 => k * (2 + 1) <= L
    BY <1>1, <1>5
  <2>2. 12 \in Nat \ {0} /\ L >= 2 + 1
    BY <1>1, <1>5
  <2> QED
    BY <1>2, <1>3, <2>1, <2>2
<1>6. ASSUME L >= 6 PROVE Proposed(RaidzOf(s, "raidz3", 15), D, s)
  <2>1. \A k \in Nat \ {0} : k * 15 <= L + 15 - 1 => k * (3 + 1) <= L
    BY <1>1, <1>6
  <2>2. 15 \in Nat \ {0} /\ L >= 3 + 1
    BY <1>1, <1>6
  <2> QED
    BY <1>2, <1>3, <2>1, <2>2
<1> QED
  BY <1>4, <1>5, <1>6 DEF L

\* Every layout that is offered can be created from all of the disks.
LEMMA OffersSound ==
    ASSUME NEW D, NEW s \in Seq(D), Differ(s), Len(s) >= 1, NEW big, NEW o \in Offers(s, big)
    PROVE  Proposed(o.vdevs, D, s)
<1> DEFINE n == Len(s)
           is(no, rank, vs) == [no |-> no, rank |-> rank, vdevs |-> vs]
           r1 == IF n <= 4 THEN 0 ELSE 1
           r2 == IF n >= 6 \/ big THEN 4 ELSE 0
           r3 == IF n < 6 THEN 3 ELSE 0
           r5 == IF n >= 12 THEN 0 ELSE 2
           d1 == Mirrors(s)
           d2 == RaidzOf(s, "raidz1", 8)
           d3 == RaidzOf(s, "raidz2", 12)
           d4 == RaidzOf(s, "raidz3", 15)
           d5 == DraidOf(s)
           d6 == <<Vdev("stripe", "data", s)>>
           whole == n >= 8 /\ DraidLayout(n, 2) # <<>>
<1>1. o \in (IF n >= 2 THEN {is(1, r1, d1)} ELSE {}) \cup (IF n >= 3 THEN {is(2, r2, d2)} ELSE {})
            \cup (IF n >= 4 THEN {is(3, r3, d3)} ELSE {}) \cup (IF n >= 6 THEN {is(4, 3, d4)} ELSE {})
            \cup (IF whole THEN {is(5, r5, d5)} ELSE {}) \cup (IF TRUE THEN {is(6, 5, d6)} ELSE {})
  BY Zenon DEF Offers
<1>2. n >= 2 => Proposed(d1, D, s)
  <2>1. ASSUME n >= 2
        PROVE  Sound(d1, D, ToSet(s), {"data", "spare"}) /\ 1 \in 1 .. Len(d1) /\ d1[1].role = "data"
    BY <2>1, MirrorsSound
  <2> HIDE DEF d1
  <2> QED
    BY <2>1 DEF Proposed
<1>3. /\ n >= 3 => Proposed(d2, D, s)
      /\ n >= 4 => Proposed(d3, D, s)
      /\ n >= 6 => Proposed(d4, D, s)
  BY RaidzOffered
<1>4. whole => Proposed(d5, D, s)
  <2> SUFFICES ASSUME whole PROVE Proposed(d5, D, s)
    OBVIOUS
  <2>1. Sound(d5, D, ToSet(s), {"data"})
    BY DraidSound
  <2>2. Len(d5) = 1
    BY DEF DraidOf
  <2> HIDE DEF d5
  <2>3. Sound(d5, D, ToSet(s), {"data", "spare"})
    BY <2>1, SoundWider
  <2>4. 1 \in 1 .. Len(d5)
    BY <2>2
  <2>5. d5[1].role = "data"
    BY <2>1, <2>4 DEF Sound
  <2> QED
    BY <2>3, <2>4, <2>5 DEF Proposed
<1>5. Proposed(d6, D, s)
  <2>1. Sound(d6, D, ToSet(s), {"data"})
    BY StripeSound, KindsAndRoles
  <2>2. Len(d6) = 1
    OBVIOUS
  <2> HIDE DEF d6
  <2>3. Sound(d6, D, ToSet(s), {"data", "spare"})
    BY <2>1, SoundWider
  <2>4. 1 \in 1 .. Len(d6)
    BY <2>2
  <2>5. d6[1].role = "data"
    BY <2>1, <2>4 DEF Sound
  <2> QED
    BY <2>3, <2>4, <2>5 DEF Proposed
<1>6. \A no, rank, vs : is(no, rank, vs).vdevs = vs
  OBVIOUS
<1> HIDE DEF n, whole, r1, r2, r3, r5, d1, d2, d3, d4, d5, d6, is
<1>7. \/ n >= 2 /\ o = is(1, r1, d1)
      \/ n >= 3 /\ o = is(2, r2, d2)
      \/ n >= 4 /\ o = is(3, r3, d3)
      \/ n >= 6 /\ o = is(4, 3, d4)
      \/ whole /\ o = is(5, r5, d5)
      \/ o = is(6, 5, d6)
  BY <1>1
<1>8. CASE n >= 2 /\ o = is(1, r1, d1)
  BY <1>2, <1>6, <1>8
<1>9. CASE (n >= 3 /\ o = is(2, r2, d2)) \/ (n >= 4 /\ o = is(3, r3, d3)) \/ (n >= 6 /\ o = is(4, 3, d4))
  BY <1>3, <1>6, <1>9
<1>10. CASE whole /\ o = is(5, r5, d5)
  BY <1>4, <1>6, <1>10
<1>11. CASE o = is(6, 5, d6)
  BY <1>5, <1>6, <1>11
<1> QED
  BY <1>7, <1>8, <1>9, <1>10, <1>11

\* The log and the cache can be created from disks that are left over.
LEMMA ExtrasSound ==
    ASSUME NEW ds \in Seq(Drive), NEW ticks \in SUBSET DOMAIN ds
    PROVE  \E U \in SUBSET (FreeOf(ds) \ ticks) : Sound(Extras(ds, ticks), DOMAIN ds, U, {"log", "cache"})
<1> DEFINE D == DOMAIN ds
           left == {d \in DOMAIN ds \ ticks : ds[d].fast /\ ~ds[d].inUse}
           fast == BySize(ds, left, FALSE)
           n == Len(fast)
           none == fast = <<>> \/ \A d \in ticks : ds[d].fast
           one == <<Vdev("stripe", "log", fast)>>
           p == SubSeq(fast, 1, 2)
           q == SubSeq(fast, 3, n)
           logs == <<Vdev("mirror", "log", p)>>
           caches == <<Vdev("stripe", "cache", q)>>
<1>1. fast \in Seq(D) /\ Differ(fast) /\ ToSet(fast) \subseteq FreeOf(ds) \ ticks
  <2>1. left \in SUBSET DOMAIN ds /\ left \subseteq FreeOf(ds) \ ticks
    BY DEF FreeOf
  <2> HIDE DEF left
  <2>2. Lines(fast, left)
    BY <2>1, BySizeLines
  <2> HIDE DEF fast
  <2>3. fast \in Seq(left) /\ Differ(fast)
    BY <2>2 DEF Lines, Differ
  <2>4. \A x : x \in ToSet(fast) => x \in left
    BY <2>3 DEF ToSet
  <2>5. fast \in Seq(D)
    BY <2>1, <2>3
  <2> QED
    BY <2>1, <2>3, <2>4, <2>5
<1>2. Extras(ds, ticks) = IF none THEN <<>>
                         ELSE IF n = 1 THEN one ELSE logs \o (IF n = 2 THEN <<>> ELSE caches)
  BY DEF Extras
<1> HIDE DEF fast
<1>3. CASE none
  <2>1. Sound(<<>>, D, {}, {"log", "cache"})
    BY SoundNone, SoundWider
  <2> QED
    BY <1>2, <1>3, <2>1
<1>4. ~none => n \in Nat /\ n >= 1
  BY <1>1
<1> HIDE DEF none, n
<1>5. CASE ~none /\ n = 1
  <2>1. Sound(one, D, ToSet(fast), {"log"})
    <3>1. "log" \in ToSet(Roles) \cup {"data"}
      BY KindsAndRoles
    <3>2. Len(fast) >= 1
      BY <1>5 DEF n
    <3> QED
      BY <1>1, <3>1, <3>2, StripeSound
  <2> HIDE DEF one
  <2>2. Sound(one, D, ToSet(fast), {"log", "cache"})
    BY <2>1, SoundWider
  <2> QED
    BY <1>1, <1>2, <1>5, <2>2
<1>6. CASE ~none /\ n # 1
  <2>1. n \in Nat /\ n >= 2 /\ \A i \in 1 .. n : fast[i] \in D
    <3>1. n \in Nat /\ n >= 2
      BY <1>4, <1>6
    <3>2. \A i \in 1 .. n : fast[i] \in D
      BY <1>1 DEF n
    <3> QED
      BY <3>1, <3>2
  <2>2. p \in Seq(D) /\ Len(p) = 2 /\ \A i \in 1 .. 2 : p[i] = fast[i]
    <3>1. 1 \in Int /\ 2 \in Int /\ \A i \in 1 .. 2 : fast[i] \in D
      BY <2>1
    <3>2. /\ p \in Seq(D) /\ Len(p) = IF 1 <= 2 THEN 2 - 1 + 1 ELSE 0
          /\ \A i \in 1 .. (2 - 1 + 1) : p[i] = fast[1 + i - 1]
      BY <3>1, SubSeqProperties
    <3>3. 2 - 1 + 1 = 2 /\ \A i \in 1 .. 2 : 1 + i - 1 = i
      OBVIOUS
    <3> HIDE DEF p
    <3> QED
      BY <3>2, <3>3
  <2>3. /\ q \in Seq(D) /\ Len(q) = IF n = 2 THEN 0 ELSE n - 2
        /\ \A i \in 1 .. (n - 2) : q[i] = fast[2 + i]
    <3>1. 3 \in Int /\ n \in Int /\ \A i \in 3 .. n : fast[i] \in D
      BY <2>1
    <3>2. /\ q \in Seq(D) /\ Len(q) = IF 3 <= n THEN n - 3 + 1 ELSE 0
          /\ \A i \in 1 .. (n - 3 + 1) : q[i] = fast[3 + i - 1]
      BY <3>1, SubSeqProperties
    <3>3. n - 3 + 1 = n - 2 /\ (3 <= n <=> n # 2) /\ \A i \in 1 .. (n - 2) : 3 + i - 1 = 2 + i
      BY <2>1
    <3> HIDE DEF q
    <3> QED
      BY <3>2, <3>3
  <2>4. \A i, j \in 1 .. n : fast[i] = fast[j] => i = j
    BY <1>1 DEF Differ, n
  <2>5. \A x : x \in ToSet(fast) <=> \E i \in 1 .. n : x = fast[i]
    BY <1>1 DEF ToSet, n
  <2> HIDE DEF p, q
  <2>6. Differ(p) /\ \A x : x \in ToSet(p) <=> x = fast[1] \/ x = fast[2]
    <3>1. Differ(p)
      BY <2>1, <2>2, <2>4 DEF Differ
    <3>2. \A x : x \in ToSet(p) <=> \E i \in 1 .. 2 : p[i] = x
      BY <2>2 DEF ToSet
    <3>3. \A i : i \in 1 .. 2 <=> i = 1 \/ i = 2
      OBVIOUS
    <3> QED
      BY <2>2, <3>1, <3>2, <3>3
  <2>7. Sound(logs, D, ToSet(p), {"log"})
    <3>1. Len(p) >= 2 /\ "log" \in {"data", "log"}
      BY <2>2
    <3> QED
      BY <2>2, <2>6, <3>1, MirrorSound
  <2>8. ToSet(p) \subseteq ToSet(fast)
    <3>1. 1 \in 1 .. n /\ 2 \in 1 .. n
      BY <2>1
    <3> QED
      BY <2>5, <2>6, <3>1
  <2> HIDE DEF logs
  <2>9. CASE n = 2
    <3>1. Sound(logs, D, ToSet(p), {"log", "cache"})
      BY <2>7, SoundWider
    <3>2. logs \in Seq(VdevOf(D))
      BY <2>7 DEF Sound
    <3>3. logs \o <<>> = logs
      BY <3>2, ConcatEmptySeq
    <3>4. Extras(ds, ticks) = logs
      BY <1>2, <1>6, <2>9, <3>3
    <3> QED
      BY <1>1, <2>8, <3>1, <3>4
  <2>10. CASE n # 2
    <3>1. Differ(q) /\ Len(q) = n - 2 /\ Len(q) >= 1
      <4>1. Len(q) = n - 2 /\ n - 2 \in Nat /\ n - 2 >= 1
        BY <2>1, <2>3, <2>10
      <4>2. \A i \in 1 .. Len(q) : q[i] = fast[2 + i] /\ 2 + i \in 1 .. n
        BY <2>1, <2>3, <4>1
      <4>3. \A i, j \in 1 .. Len(q) : q[i] = q[j] => 2 + i = 2 + j
        BY <2>4, <4>2
      <4>4. \A i, j \in 1 .. Len(q) : 2 + i = 2 + j => i = j
        BY <4>1
      <4> QED
        BY <4>1, <4>3, <4>4 DEF Differ
    <3>2. Sound(caches, D, ToSet(q), {"cache"})
      BY <2>3, <3>1, StripeSound, KindsAndRoles
    <3> HIDE DEF caches
    <3>3. \A x \in ToSet(q) : \E i \in 3 .. n : x = fast[i]
      <4>1. \A x \in ToSet(q) : \E i \in 1 .. (n - 2) : x = q[i]
        BY <2>3, <3>1 DEF ToSet
      <4>2. \A i \in 1 .. (n - 2) : 2 + i \in 3 .. n
        BY <2>1
      <4> QED
        BY <2>3, <4>1, <4>2
    <3>4. ToSet(q) \subseteq ToSet(fast) /\ ToSet(p) \cap ToSet(q) = {}
      <4>1. \A i \in 3 .. n : i \in 1 .. n /\ i # 1 /\ i # 2
        BY <2>1
      <4>2. 1 \in 1 .. n /\ 2 \in 1 .. n
        BY <2>1
      <4>3. \A x \in ToSet(q) : x \in ToSet(fast) /\ x \notin ToSet(p)
        BY <2>4, <2>5, <2>6, <3>3, <4>1, <4>2
      <4> QED
        BY <4>3
    <3>5. Sound(logs \o caches, D, ToSet(p) \cup ToSet(q), {"log"} \cup {"cache"})
      <4>1. {"log"} \cap {"cache"} = {}
        OBVIOUS
      <4> QED
        BY <2>7, <3>2, <3>4, <4>1, SoundBoth
    <3>6. {"log"} \cup {"cache"} = {"log", "cache"}
      OBVIOUS
    <3>7. Sound(logs \o caches, D, ToSet(p) \cup ToSet(q), {"log", "cache"})
      BY <3>5, <3>6
    <3>8. Extras(ds, ticks) = logs \o caches
      BY <1>2, <1>6, <2>10
    <3> QED
      BY <1>1, <2>8, <3>4, <3>7, <3>8
  <2> QED
    BY <2>9, <2>10
<1> QED
  BY <1>3, <1>5, <1>6

\* Every candidate can be created from free disks, and uses all that was ticked.
LEMMA SuggestedSound ==
    ASSUME NEW ds \in Seq(Drive), NEW ticks \in SUBSET FreeOf(ds), NEW c \in ToSet(Suggest(ds, ticks))
    PROVE  /\ \E T \in SUBSET FreeOf(ds) :
                ticks \subseteq T /\ Sound(c, DOMAIN ds, T, {"data", "spare"} \cup {"log", "cache"})
           /\ \E i \in 1 .. Len(c) : c[i].role = "data"
<1> DEFINE D == DOMAIN ds
           os == BySize(ds, ticks, TRUE)
           big == ds[os[1]].bytes >= 8
           offers == Offers(os, big)
           order == Ranked(offers)
           extras == Extras(ds, ticks)
           f == [i \in DOMAIN order |-> order[i].vdevs \o extras]
<1>1. ticks \in SUBSET D
  BY DEF FreeOf
<1>2. Suggest(ds, ticks) = IF ticks = {} THEN <<>> ELSE f
  BY DEF Suggest
<1>3. ticks # {}
  <2> SUFFICES ASSUME ticks = {} PROVE FALSE
    OBVIOUS
  <2>1. c \in ToSet(<<>>)
    BY <1>2
  <2> QED
    BY <2>1 DEF ToSet
<1>4. os \in Seq(D) /\ Differ(os) /\ Len(os) >= 1 /\ ToSet(os) = ticks
  <2>1. Lines(os, ticks)
    BY <1>1, BySizeLines
  <2> HIDE DEF os
  <2>2. os \in Seq(ticks) /\ Differ(os) /\ \A x \in ticks : \E i \in 1 .. Len(os) : os[i] = x
    BY <2>1 DEF Lines, Differ
  <2>3. os \in Seq(D)
    BY <1>1, <2>2
  <2>4. PICK x \in ticks : TRUE
    BY <1>3
  <2>5. PICK i \in 1 .. Len(os) : os[i] = x
    BY <2>2
  <2>6. Len(os) >= 1
    <3>1. Len(os) \in Nat
      BY <2>2
    <3> QED
      BY <2>5, <3>1
  <2>7. \A y : y \in ToSet(os) <=> y \in ticks
    <3>1. DOMAIN os = 1 .. Len(os) /\ \A j \in 1 .. Len(os) : os[j] \in ticks
      BY <2>2
    <3>2. \A y : y \in ToSet(os) <=> \E j \in 1 .. Len(os) : os[j] = y
      BY <3>1 DEF ToSet
    <3> QED
      BY <2>2, <3>1, <3>2
  <2> QED
    BY <2>2, <2>3, <2>6, <2>7
<1> HIDE DEF os, big
<1>5. /\ IsFiniteSet(offers)
      /\ \A o \in offers : o.no \in Nat /\ o.rank \in Nat
      /\ \A o, p \in offers : o.no = p.no => o = p
  <2>1. /\ IsFiniteSet(offers)
        /\ \A o \in offers : o.no \in 1 .. 6 /\ o.rank \in Nat /\ o.vdevs \in Seq(VdevOf(D))
        /\ \A o, p \in offers : o.no = p.no => o = p
    BY <1>4, OffersTyped
  <2> HIDE DEF offers
  <2> QED
    BY <2>1
<1>6. \A o \in offers : Proposed(o.vdevs, D, os)
  BY <1>4, OffersSound
<1> HIDE DEF offers
<1>7. order \in Seq(offers)
  BY <1>5, RankedTyped
<1> HIDE DEF order
<1>8. PICK o \in offers : c = o.vdevs \o extras
  <2>1. c \in ToSet(f)
    BY <1>2, <1>3
  <2>2. PICK i \in DOMAIN order : c = order[i].vdevs \o extras
    BY <2>1 DEF ToSet
  <2>3. order[i] \in offers
    BY <1>7
  <2> QED
    BY <2>2, <2>3
<1> DEFINE vs == o.vdevs
<1>9. Sound(vs, D, ticks, {"data", "spare"}) /\ \E i \in 1 .. Len(vs) : vs[i].role = "data"
  BY <1>4, <1>6 DEF Proposed
<1>10. PICK U \in SUBSET (FreeOf(ds) \ ticks) : Sound(extras, D, U, {"log", "cache"})
  BY <1>1, ExtrasSound
<1> HIDE DEF vs, extras
<1>11. Sound(vs \o extras, D, ticks \cup U, {"data", "spare"} \cup {"log", "cache"})
  <2>1. ticks \cap U = {} /\ {"data", "spare"} \cap {"log", "cache"} = {}
    OBVIOUS
  <2> QED
    BY <1>9, <1>10, <2>1, SoundBoth
<1>12. \E i \in 1 .. Len(vs \o extras) : (vs \o extras)[i].role = "data"
  <2>1. vs \in Seq(VdevOf(D)) /\ extras \in Seq(VdevOf(D))
    BY <1>9, <1>10 DEF Sound
  <2>2. /\ Len(vs \o extras) = Len(vs) + Len(extras) /\ Len(vs) \in Nat /\ Len(extras) \in Nat
        /\ \A i \in 1 .. Len(vs) + Len(extras) :
              (vs \o extras)[i] = IF i <= Len(vs) THEN vs[i] ELSE extras[i - Len(vs)]
    BY <2>1, ConcatProperties
  <2>3. PICK i \in 1 .. Len(vs) : vs[i].role = "data"
    BY <1>9
  <2>4. i \in 1 .. Len(vs) + Len(extras) /\ i <= Len(vs)
    BY <2>2
  <2> QED
    BY <2>2, <2>3, <2>4
<1>13. c = vs \o extras /\ ticks \cup U \in SUBSET FreeOf(ds)
  BY <1>8 DEF vs
<1> QED
  BY <1>11, <1>12, <1>13

\* What can be created so is valid, and its command line says it.
LEMMA SoundIsValid ==
    ASSUME NEW c, NEW T \in SUBSET Free, NEW R, Sound(c, DOMAIN disks, T, R),
           \E i \in 1 .. Len(c) : c[i].role = "data"
    PROVE  Validate(c) /\ Exact(c) /\ T \subseteq UNION {ToSet(c[i].disks) : i \in DOMAIN c}
<1> DEFINE D == DOMAIN disks
<1>1. /\ c \in Seq(VdevOf(D)) /\ DOMAIN c = 1 .. Len(c)
      /\ \A i \in 1 .. Len(c) : Fits(c[i])
      /\ \A i, j \in 1 .. Len(c) : c[i].kind = "stripe" /\ c[j].role = c[i].role => j = i
  BY DEF Sound
<1>2. /\ \A i \in 1 .. Len(c) : \A k \in 1 .. Len(c[i].disks) : c[i].disks[k] \in T
      /\ \A d \in T : \E i \in 1 .. Len(c) : \E k \in 1 .. Len(c[i].disks) : c[i].disks[k] = d
      /\ \A i, j \in 1 .. Len(c) : \A k \in 1 .. Len(c[i].disks), l \in 1 .. Len(c[j].disks) :
            c[i].disks[k] = c[j].disks[l] => i = j /\ k = l
  BY DEF Sound, Deals
<1>3. \A i \in 1 .. Len(c) : c[i].disks \in Seq(D) /\ DOMAIN c[i].disks = 1 .. Len(c[i].disks)
  <2> SUFFICES ASSUME NEW i \in 1 .. Len(c) PROVE c[i].disks \in Seq(D)
    OBVIOUS
  <2>1. c[i] \in VdevOf(D)
    BY <1>1
  <2> QED
    BY <2>1 DEF VdevOf
<1>4. Exact(c)
  <2>1. Alone(c)
    BY <1>1 DEF Alone, Fits
  <2> QED
    BY <1>1, <2>1, LayoutIsExact
<1>5. \A v : v \in ToSet(c) <=> \E i \in 1 .. Len(c) : v = c[i]
  BY <1>1 DEF ToSet
<1>6. OfRole(c, "data") # {}
  BY <1>5 DEF OfRole
<1>7. ASSUME NEW v \in ToSet(c)
      PROVE  /\ Fits(v)
             /\ \A d \in ToSet(v.disks) : ~disks[d].inUse
  <2>1. PICK i \in 1 .. Len(c) : v = c[i]
    BY <1>5
  <2>2. \A d \in ToSet(v.disks) : \E k \in 1 .. Len(c[i].disks) : d = c[i].disks[k]
    BY <1>3, <2>1 DEF ToSet
  <2>3. \A d \in T : ~disks[d].inUse
    BY DEF Free, FreeOf
  <2> QED
    BY <1>1, <1>2, <2>1, <2>2, <2>3
<1>8. \A i, j \in DOMAIN c : \A k \in DOMAIN c[i].disks, l \in DOMAIN c[j].disks :
         c[i].disks[k] = c[j].disks[l] => i = j /\ k = l
  <2>1. \A i \in DOMAIN c : i \in 1 .. Len(c) /\ DOMAIN c[i].disks = 1 .. Len(c[i].disks)
    BY <1>1, <1>3
  <2>2. \A i, j \in 1 .. Len(c) : \A k \in 1 .. Len(c[i].disks), l \in 1 .. Len(c[j].disks) :
           c[i].disks[k] = c[j].disks[l] => i = j /\ k = l
    BY <1>2
  <2> SUFFICES ASSUME NEW i \in DOMAIN c, NEW j \in DOMAIN c,
                      NEW k \in DOMAIN c[i].disks, NEW l \in DOMAIN c[j].disks,
                      c[i].disks[k] = c[j].disks[l]
               PROVE  i = j /\ k = l
    BY Zenon
  <2>3. i \in 1 .. Len(c) /\ j \in 1 .. Len(c) /\ k \in 1 .. Len(c[i].disks) /\ l \in 1 .. Len(c[j].disks)
    BY <2>1, Zenon
  <2>4. \A p \in 1 .. Len(c[i].disks), q \in 1 .. Len(c[j].disks) :
            c[i].disks[p] = c[j].disks[q] => i = j /\ p = q
    BY <2>2, <2>3
  <2> QED
    BY <2>3, <2>4, Zenon
<1>9. Validate(c)
  BY <1>6, <1>7, <1>8 DEF Validate, Fits
<1>10. T \subseteq UNION {ToSet(c[i].disks) : i \in DOMAIN c}
  <2> SUFFICES ASSUME NEW d \in T PROVE \E i \in DOMAIN c : d \in ToSet(c[i].disks)
    OBVIOUS
  <2>1. PICK i \in 1 .. Len(c) : \E k \in 1 .. Len(c[i].disks) : c[i].disks[k] = d
    BY <1>2
  <2>2. d \in ToSet(c[i].disks)
    BY <1>3, <2>1 DEF ToSet
  <2> QED
    BY <1>1, <2>2
<1> QED
  BY <1>4, <1>9, <1>10

\* Whatever is ticked on whatever shelf, every layout that is proposed for it can be
\* created from the free disks only, is what its command line says to zpool, and
\* uses every disk that was ticked (Suggest, Validate, Argv, ParseSpec).
THEOREM SuggestionsAreSound == BuilderSpec => []SuggestSound
<1>1. ASSUME LayoutTyped PROVE SuggestSound
  <2> SUFFICES ASSUME NEW c \in ToSet(Cands)
               PROVE  /\ Validate(c) /\ Exact(c)
                      /\ Free \cap chosen \subseteq UNION {ToSet(c[i].disks) : i \in DOMAIN c}
    BY DEF SuggestSound
  <2>1. disks \in Seq(Drive) /\ Free \cap chosen \in SUBSET FreeOf(disks) /\ Free = FreeOf(disks)
    BY <1>1 DEF LayoutTyped, Free
  <2>2. c \in ToSet(Suggest(disks, Free \cap chosen))
    BY DEF Cands
  <2> DEFINE R == {"data", "spare"} \cup {"log", "cache"}
             ticks == Free \cap chosen
  <2> HIDE DEF ticks
  <2>3. /\ \E T \in SUBSET FreeOf(disks) : ticks \subseteq T /\ Sound(c, DOMAIN disks, T, R)
        /\ \E i \in 1 .. Len(c) : c[i].role = "data"
    <3>1. ticks \in SUBSET FreeOf(disks) /\ c \in ToSet(Suggest(disks, ticks))
      BY <2>1, <2>2 DEF ticks
    <3> QED
      BY <2>1, <3>1, SuggestedSound
  <2> HIDE DEF R
  <2>4. PICK T \in SUBSET Free : Free \cap chosen \subseteq T /\ Sound(c, DOMAIN disks, T, R)
    BY <2>1, <2>3 DEF ticks
  <2>5. Validate(c) /\ Exact(c) /\ T \subseteq UNION {ToSet(c[i].disks) : i \in DOMAIN c}
    BY <2>3, <2>4, SoundIsValid
  <2> QED
    BY <2>4, <2>5
<1> QED
  BY <1>1, LayoutInvariance, PTL
=============================================================================
