---------------------------- MODULE SequenceLemmas ----------------------------
(***************************************************************************)
(* Facts about bounded numbers, step by step definitions and sequences     *)
(* that the proofs about several components rest on.                       *)
(***************************************************************************)
EXTENDS Integers, SequencesExt, FiniteSetTheorems, SequenceTheorems, WellFoundedInduction, TLAPS

(***************************************************************************)
(* Bounded numbers.                                                        *)
(***************************************************************************)

\* A set of numbers has a least member.
LEMMA LeastExists ==
  ASSUME NEW I \in SUBSET Nat, I # {}
  PROVE  \E i \in I : \A j \in I : i <= j
  <1>1. PICK i \in I : \A j \in I : ~(<<j, i>> \in OpToRel(<, Nat))
    BY WFMin, NatLessThanWellFounded
  <1>2. \A j \in I : ~(j < i)
    BY <1>1 DEF OpToRel
  <1> QED
    BY <1>2

\* A bounded set of numbers has a greatest member.
LEMMA GreatestExists ==
  ASSUME NEW n \in Nat, NEW I \in SUBSET (0 .. n), I # {}
  PROVE  \E i \in I : \A j \in I : j <= i
  <1> DEFINE T == {n - i : i \in I}
  <1>0. \A i \in I : i \in Nat /\ n - i \in Nat
    OBVIOUS
  <1>1. T \in SUBSET Nat /\ T # {}
    BY <1>0
  <1>2. PICK x \in T : \A y \in T : x <= y
    <2> HIDE DEF T
    <2> QED
      BY <1>1, LeastExists
  <1>3. PICK i \in I : x = n - i
    OBVIOUS
  <1>4. ASSUME NEW j \in I PROVE j <= i
    <2>1. n - i <= n - j
      BY <1>2, <1>3
    <2> QED
      BY <1>0, <2>1
  <1> QED
    BY <1>4

\* Induction up to a bound, with a set for the formula.
LEMMA UpTo ==
  ASSUME NEW n \in Nat, NEW S, 0 \in S, \A i \in 1 .. n : i - 1 \in S => i \in S
  PROVE  \A i \in 0 .. n : i \in S
  <1> DEFINE Bad == {i \in 0 .. n : i \notin S}
  <1>1. SUFFICES ASSUME Bad # {}
                 PROVE  FALSE
    OBVIOUS
  <1>2. PICK i \in Bad : \A j \in Bad : i <= j
    <2>1. Bad \in SUBSET Nat
      OBVIOUS
    <2> HIDE DEF Bad
    <2> QED
      BY <1>1, <2>1, LeastExists
  <1>3. i \in 1 .. n
    OBVIOUS
  <1>4. i - 1 \in S
    BY <1>2, <1>3
  <1> QED
    BY <1>3, <1>4

\* A function can be defined step by step.
Iterates(f, n, V, c, F) ==
  f \in [0 .. n -> V] /\ f[0] = c /\ \A k \in 1 .. n : f[k] = F[k][f[k - 1]]

LEMMA Iterated ==
  ASSUME NEW n \in Nat, NEW V, NEW c \in V, NEW F \in [1 .. n -> [V -> V]]
  PROVE  \E f : Iterates(f, n, V, c, F)
  <1> DEFINE Runs(f, m) == Iterates(f, m, V, c, F)
             S == {m \in 0 .. n : \E f : Runs(f, m)}
  <1>1. 0 \in S
    <2> DEFINE f == [k \in 0 .. 0 |-> c]
    <2>1. f \in [0 .. 0 -> V] /\ f[0] = c /\ 1 .. 0 = {}
      OBVIOUS
    <2> HIDE DEF f
    <2>2. Runs(f, 0)
      BY <2>1 DEF Iterates
    <2> QED
      BY <2>2
  <1>2. ASSUME NEW m \in 1 .. n, m - 1 \in S
        PROVE  m \in S
    <2>0. PICK f : Runs(f, m - 1)
      BY <1>2
    <2>1. /\ f \in [0 .. m - 1 -> V]
          /\ f[0] = c
          /\ \A k \in 1 .. m - 1 : f[k] = F[k][f[k - 1]]
      BY <2>0 DEF Iterates
    <2> DEFINE g == [k \in 0 .. m |-> IF k = m THEN F[m][f[m - 1]] ELSE f[k]]
    <2>2. F[m][f[m - 1]] \in V
      BY <2>1
    <2>3. g \in [0 .. m -> V]
      BY <2>1, <2>2
    <2>4. g[0] = c
      BY <2>1
    <2>5. \A k \in 1 .. m : g[k] = F[k][g[k - 1]]
      <3> TAKE k \in 1 .. m
      <3>1. k - 1 \in 0 .. m /\ k - 1 # m /\ g[k - 1] = f[k - 1]
        BY <2>1
      <3>2. CASE k = m
        BY <3>1, <3>2
      <3>3. CASE k # m
        <4>1. k \in 1 .. m - 1 /\ g[k] = f[k]
          BY <3>3
        <4> QED
          BY <2>1, <3>1, <4>1
      <3> QED
        BY <3>2, <3>3
    <2> HIDE DEF g
    <2>6. Runs(g, m)
      BY <2>3, <2>4, <2>5 DEF Iterates
    <2> QED
      BY <2>6
  <1> HIDE DEF S
  <1>3. \A m \in 0 .. n : m \in S
    BY <1>1, <1>2, UpTo
  <1> QED
    BY <1>3 DEF S

-------------------------------------------------------------------------------
(***************************************************************************)
(* Sequences.                                                              *)
(***************************************************************************)

LEMMA Appended ==
  ASSUME NEW T, NEW s \in Seq(T), NEW e \in T
  PROVE  /\ Append(s, e) \in Seq(T)
         /\ Len(Append(s, e)) = Len(s) + 1
         /\ Append(s, e)[Len(s) + 1] = e
         /\ \A i \in 1 .. Len(s) : Append(s, e)[i] = s[i]
         /\ ToSet(Append(s, e)) = ToSet(s) \cup {e}
  BY DEF ToSet

LEMMA Grown ==
  ASSUME NEW T, NEW s \in Seq(T), NEW e \in T, NEW t, t = Append(s, e)
  PROVE  /\ t \in Seq(T)
         /\ Len(s) \in Nat
         /\ Len(t) = Len(s) + 1
         /\ t[Len(s) + 1] = e
         /\ \A i \in 1 .. Len(s) : t[i] = s[i]
  OBVIOUS

LEMMA Joined ==
  ASSUME NEW T, NEW s \in Seq(T), NEW t \in Seq(T)
  PROVE  s \o t \in Seq(T) /\ ToSet(s \o t) = ToSet(s) \cup ToSet(t)
  <1>1. /\ s \o t \in Seq(T)
        /\ Len(s \o t) = Len(s) + Len(t)
        /\ \A i \in 1 .. Len(s) + Len(t) :
             (s \o t)[i] = IF i <= Len(s) THEN s[i] ELSE t[i - Len(s)]
    BY ConcatProperties
  <1>2. /\ Len(s) \in Nat /\ Len(t) \in Nat
        /\ DOMAIN (s \o t) = 1 .. Len(s) + Len(t)
        /\ DOMAIN s = 1 .. Len(s) /\ DOMAIN t = 1 .. Len(t)
    BY <1>1
  <1>3. \A i \in 1 .. Len(s) : i \in 1 .. Len(s) + Len(t) /\ (s \o t)[i] = s[i]
    BY <1>1, <1>2
  <1>4. \A i \in 1 .. Len(t) : /\ Len(s) + i \in 1 .. Len(s) + Len(t)
                               /\ (s \o t)[Len(s) + i] = t[i]
    BY <1>1, <1>2
  <1>5. \A i \in 1 .. Len(s) + Len(t) : i > Len(s) => i - Len(s) \in 1 .. Len(t)
    BY <1>2
  <1>6. ToSet(s \o t) \subseteq ToSet(s) \cup ToSet(t)
    BY <1>1, <1>2, <1>5 DEF ToSet
  <1>7. ToSet(s) \subseteq ToSet(s \o t)
    BY <1>2, <1>3 DEF ToSet
  <1>8. ToSet(t) \subseteq ToSet(s \o t)
    BY <1>2, <1>4 DEF ToSet
  <1> QED
    BY <1>1, <1>6, <1>7, <1>8

\* The run of FlattenSeq over a sequence of sequences, and what comes of it.
Joins(f, seqs) ==
  f = [i \in 1 .. Len(seqs) |-> IF i = 1 THEN seqs[i] ELSE f[i - 1] \o seqs[i]]

Builds(h, T, seqs) ==
  /\ h \in [0 .. Len(seqs) -> Seq(T)]
  /\ h[0] = <<>>
  /\ \A k \in 1 .. Len(seqs) : h[k] = h[k - 1] \o seqs[k]
  /\ FlattenSeq(seqs) = h[Len(seqs)]

LEMMA FlattenRuns ==
  ASSUME NEW T, NEW seqs \in Seq(Seq(T))
  PROVE  \E h : Builds(h, T, seqs)
  <1> DEFINE n == Len(seqs)
             V == Seq(T)
             Step(k, w) == w \o seqs[k]
             F == [k \in 1 .. n |-> [w \in V |-> Step(k, w)]]
             g == CHOOSE f : Joins(f, seqs)
  <1>1. /\ n \in Nat /\ DOMAIN seqs = 1 .. n /\ <<>> \in V
        /\ \A k \in 1 .. n : seqs[k] \in V
    OBVIOUS
  <1>2. \A k \in 1 .. n, w \in V : Step(k, w) \in V
    BY <1>1, Joined
  <1>3. F \in [1 .. n -> [V -> V]]
    <2> HIDE DEF Step, V, n
    <2> QED
      BY <1>2
  <1>4. PICK h : Iterates(h, n, V, <<>>, F)
    <2> HIDE DEF F, V, n
    <2> QED
      BY <1>1, <1>3, Iterated
  <1>5. h \in [0 .. n -> V] /\ h[0] = <<>> /\ \A k \in 1 .. n : h[k] = Step(k, h[k - 1])
    <2>1. h \in [0 .. n -> V] /\ h[0] = <<>> /\ \A k \in 1 .. n : h[k] = F[k][h[k - 1]]
      BY <1>4 DEF Iterates
    <2> HIDE DEF Step, V, n
    <2>2. \A k \in 1 .. n : h[k - 1] \in V
      BY <1>1, <2>1
    <2> QED
      BY <2>1, <2>2
  <1> DEFINE j == [i \in 1 .. n |-> h[i]]
  <1>6. Joins(j, seqs)
    <2>1. ASSUME 1 \in 1 .. n
          PROVE  j[1] = seqs[1]
      <3>1. h[1] = Step(1, h[1 - 1]) /\ j[1] = h[1]
        BY <1>5, <2>1
      <3>2. <<>> \o seqs[1] = seqs[1]
        BY <1>1, <2>1, ConcatEmptySeq
      <3>3. 1 - 1 = 0
        OBVIOUS
      <3>4. h[1] = <<>> \o seqs[1]
        BY <1>5, <3>1, <3>3
      <3> QED
        BY <3>1, <3>2, <3>4
    <2>2. \A i \in 1 .. n : i # 1 => j[i] = j[i - 1] \o seqs[i]
      BY <1>1, <1>5
    <2>3. \A i \in 1 .. n : j[i] = IF i = 1 THEN seqs[i] ELSE j[i - 1] \o seqs[i]
      BY <2>1, <2>2
    <2>4. j = [i \in 1 .. n |-> j[i]]
      OBVIOUS
    <2> HIDE DEF j
    <2> QED
      BY <2>3, <2>4 DEF Joins
  <1>7. Joins(g, seqs)
    <2> HIDE DEF j
    <2> QED
      BY <1>6
  <1>8. n # 0 => FlattenSeq(seqs) = g[n]
    BY DEF FlattenSeq, Joins
  <1> HIDE DEF g
  <1>9. \A i \in 1 .. n : g[i] = IF i = 1 THEN seqs[i] ELSE g[i - 1] \o seqs[i]
    BY <1>7 DEF Joins
  <1>10. \A i \in 1 .. n : g[i] = h[i]
    <2> DEFINE S == {i \in 0 .. n : i = 0 \/ g[i] = h[i]}
    <2>1. 0 \in S
      BY <1>1
    <2>2. ASSUME NEW i \in 1 .. n, i - 1 \in S
          PROVE  i \in S
      <3>1. CASE i = 1
        <4>1. g[1] = seqs[1]
          BY <1>9, <2>2, <3>1
        <4>2. h[1] = <<>> \o seqs[1]
          <5>1. h[1] = Step(1, h[1 - 1])
            BY <1>5, <3>1
          <5>2. 1 - 1 = 0
            OBVIOUS
          <5> QED
            BY <1>5, <5>1, <5>2
        <4>3. <<>> \o seqs[1] = seqs[1]
          BY <1>1, <3>1, ConcatEmptySeq
        <4> QED
          BY <1>1, <3>1, <4>1, <4>2, <4>3
      <3>2. CASE i # 1
        <4>1. g[i - 1] = h[i - 1]
          BY <1>1, <2>2, <3>2
        <4>2. g[i] = g[i - 1] \o seqs[i] /\ h[i] = h[i - 1] \o seqs[i]
          BY <1>5, <1>9, <3>2
        <4>3. g[i] = h[i] /\ i \in 0 .. n
          BY <1>1, <4>1, <4>2
        <4> QED
          BY <4>3
      <3> QED
        BY <3>1, <3>2
    <2> HIDE DEF S
    <2>3. \A i \in 0 .. n : i \in S
      BY <1>1, <2>1, <2>2, UpTo
    <2> QED
      BY <1>1, <2>3 DEF S
  <1>11. FlattenSeq(seqs) = h[n]
    <2>1. CASE n = 0
      <3>1. seqs = <<>> /\ FlattenSeq(seqs) = seqs
        BY <2>1 DEF FlattenSeq
      <3> QED
        BY <1>5, <2>1, <3>1
    <2>2. CASE n # 0
      <3>1. n \in 1 .. n
        BY <1>1, <2>2
      <3> QED
        BY <1>8, <1>10, <2>2, <3>1
    <2> QED
      BY <2>1, <2>2
  <1>12. Builds(h, T, seqs)
    BY <1>5, <1>11 DEF Builds
  <1> QED
    BY <1>12

LEMMA FlattenFacts ==
  ASSUME NEW T, NEW seqs \in Seq(Seq(T))
  PROVE  /\ FlattenSeq(seqs) \in Seq(T)
         /\ ToSet(FlattenSeq(seqs)) = UNION {ToSet(seqs[i]) : i \in DOMAIN seqs}
  <1> DEFINE n == Len(seqs)
             V == Seq(T)
             Whole(k) == UNION {ToSet(seqs[i]) : i \in 1 .. k}
  <1>1. n \in Nat /\ DOMAIN seqs = 1 .. n /\ \A k \in 1 .. n : seqs[k] \in V
    OBVIOUS
  <1>2. PICK h : Builds(h, T, seqs)
    BY FlattenRuns
  <1>3. /\ h \in [0 .. n -> V] /\ h[0] = <<>> /\ FlattenSeq(seqs) = h[n]
        /\ \A k \in 1 .. n : h[k] = h[k - 1] \o seqs[k]
    BY <1>2 DEF Builds
  <1> DEFINE S == {k \in 0 .. n : ToSet(h[k]) = Whole(k)}
  <1>4. 0 \in S
    <2>1. ToSet(<<>>) = {} /\ Whole(0) = {}
      BY DEF ToSet
    <2> QED
      BY <1>1, <1>3, <2>1
  <1>5. ASSUME NEW k \in 1 .. n, k - 1 \in S
        PROVE  k \in S
    <2> HIDE DEF n
    <2>1. k \in 0 .. n /\ k - 1 \in 0 .. n
      BY <1>1
    <2>2. h[k - 1] \in Seq(T) /\ seqs[k] \in Seq(T)
      BY <1>1, <1>3, <2>1
    <2>3. ToSet(h[k]) = ToSet(h[k - 1]) \cup ToSet(seqs[k])
      <3>1. h[k] = h[k - 1] \o seqs[k]
        BY <1>3
      <3> QED
        BY <2>2, <3>1, Joined
    <2>4. 1 .. k = (1 .. k - 1) \cup {k}
      BY <1>1
    <2>5. Whole(k) = Whole(k - 1) \cup ToSet(seqs[k])
      BY <2>4
    <2>6. ToSet(h[k - 1]) = Whole(k - 1)
      BY <1>5
    <2> QED
      BY <2>1, <2>3, <2>5, <2>6
  <1> HIDE DEF S, n
  <1>6. \A k \in 0 .. n : k \in S
    BY <1>1, <1>4, <1>5, UpTo
  <1>7. n \in 0 .. n
    BY <1>1
  <1>8. h[n] \in V /\ ToSet(h[n]) = Whole(n)
    BY <1>3, <1>6, <1>7 DEF S
  <1> QED
    BY <1>1, <1>3, <1>8

\* A sequence of sequences with one more: its concatenation is one part longer.
LEMMA FlattenAppended ==
  ASSUME NEW T, NEW n \in Nat, NEW F, \A i \in 1 .. n + 1 : F[i] \in Seq(T)
  PROVE  /\ FlattenSeq([i \in 1 .. n |-> F[i]]) \in Seq(T)
         /\ FlattenSeq([i \in 1 .. n + 1 |-> F[i]]) = FlattenSeq([i \in 1 .. n |-> F[i]]) \o F[n + 1]
  <1> DEFINE V == Seq(T)
             a == [i \in 1 .. n |-> F[i]]
             b == [i \in 1 .. n + 1 |-> F[i]]
  <1>1. \A i \in 1 .. n : i \in 1 .. n + 1
    OBVIOUS
  <1>2. a \in Seq(V) /\ Len(a) = n /\ b \in Seq(V) /\ Len(b) = n + 1
    <2>1. a \in [1 .. n -> V] /\ b \in [1 .. n + 1 -> V]
      BY <1>1
    <2> HIDE DEF V, a, b
    <2> QED
      BY <2>1
  <1>3. \A i \in 1 .. n : a[i] = b[i]
    BY <1>1
  <1>4. n + 1 \in 1 .. n + 1 /\ (n + 1) - 1 = n /\ b[n + 1] = F[n + 1]
    OBVIOUS
  <1> HIDE DEF a, b
  <1>5. PICK g, h : Builds(g, T, a) /\ Builds(h, T, b)
    BY <1>2, FlattenRuns
  <1>6. /\ g \in [0 .. n -> V] /\ g[0] = <<>> /\ FlattenSeq(a) = g[n]
        /\ \A k \in 1 .. n : g[k] = g[k - 1] \o a[k]
        /\ h[0] = <<>> /\ FlattenSeq(b) = h[n + 1]
        /\ \A k \in 1 .. n + 1 : h[k] = h[k - 1] \o b[k]
    BY <1>2, <1>5 DEF Builds
  <1> DEFINE S == {k \in 0 .. n : g[k] = h[k]}
  <1>7. 0 \in S
    BY <1>6
  <1>8. ASSUME NEW k \in 1 .. n, k - 1 \in S
        PROVE  k \in S
    <2>1. g[k - 1] = h[k - 1] /\ k \in 0 .. n
      BY <1>8
    <2>2. g[k] = g[k - 1] \o a[k] /\ h[k] = h[k - 1] \o b[k] /\ a[k] = b[k]
      BY <1>1, <1>3, <1>6
    <2> QED
      BY <2>1, <2>2
  <1> HIDE DEF S
  <1>9. \A k \in 0 .. n : k \in S
    BY <1>7, <1>8, UpTo
  <1>10. n \in 0 .. n
    OBVIOUS
  <1>11. g[n] = h[n] /\ g[n] \in V
    BY <1>6, <1>9, <1>10 DEF S
  <1> QED
    BY <1>4, <1>6, <1>11 DEF a, b

LEMMA FlattenNone ==
  ASSUME NEW F
  PROVE  FlattenSeq([i \in 1 .. 0 |-> F[i]]) = <<>>
  <1>1. [i \in 1 .. 0 |-> F[i]] = <<>>
    OBVIOUS
  <1> QED
    BY <1>1 DEF FlattenSeq

\* The same concatenation from its end: what is left of it after each part.
Remains(g, T, seqs) ==
  /\ g \in [0 .. Len(seqs) -> Seq(T)]
  /\ g[Len(seqs)] = <<>>
  /\ \A k \in 1 .. Len(seqs) : g[k - 1] = seqs[k] \o g[k]
  /\ FlattenSeq(seqs) = g[0]

LEMMA RemainsExist ==
  ASSUME NEW T, NEW seqs \in Seq(Seq(T))
  PROVE  \E g : Remains(g, T, seqs)
  <1> DEFINE n == Len(seqs)
             V == Seq(T)
             Step(k, w) == seqs[n - k + 1] \o w
             F == [k \in 1 .. n |-> [w \in V |-> Step(k, w)]]
  <1>1. /\ n \in Nat /\ DOMAIN seqs = 1 .. n /\ <<>> \in V
        /\ \A k \in 1 .. n : seqs[k] \in V
    OBVIOUS
  <1>2. \A k \in 1 .. n, w \in V : Step(k, w) \in V
    <2> TAKE k \in 1 .. n, w \in V
    <2>1. n - k + 1 \in 1 .. n
      BY <1>1
    <2> QED
      BY <1>1, <2>1, Joined
  <1>3. F \in [1 .. n -> [V -> V]]
    <2> HIDE DEF Step, V, n
    <2> QED
      BY <1>2
  <1>4. PICK f : Iterates(f, n, V, <<>>, F)
    <2> HIDE DEF F, V, n
    <2> QED
      BY <1>1, <1>3, Iterated
  <1>5. f \in [0 .. n -> V] /\ f[0] = <<>> /\ \A k \in 1 .. n : f[k] = Step(k, f[k - 1])
    <2>1. f \in [0 .. n -> V] /\ f[0] = <<>> /\ \A k \in 1 .. n : f[k] = F[k][f[k - 1]]
      BY <1>4 DEF Iterates
    <2> HIDE DEF Step, V, n
    <2>2. \A k \in 1 .. n : f[k - 1] \in V
      BY <1>1, <2>1
    <2> QED
      BY <2>1, <2>2
  <1> DEFINE g == [k \in 0 .. n |-> f[n - k]]
  <1>6. g \in [0 .. n -> V]
    <2> HIDE DEF V, n, Step
    <2>1. \A k \in 0 .. n : n - k \in 0 .. n
      BY <1>1
    <2> QED
      BY <1>5, <2>1
  <1>7. g[n] = <<>>
    <2> HIDE DEF n, Step, V
    <2>1. n \in 0 .. n /\ n - n = 0
      BY <1>1
    <2> QED
      BY <1>5, <2>1
  <1>8. \A k \in 1 .. n : g[k - 1] = seqs[k] \o g[k]
    <2> HIDE DEF n, V
    <2> TAKE k \in 1 .. n
    <2>1. /\ n - k + 1 \in 1 .. n /\ n - (n - k + 1) + 1 = k /\ (n - k + 1) - 1 = n - k
          /\ n - (k - 1) = n - k + 1 /\ k \in 0 .. n /\ k - 1 \in 0 .. n
      BY <1>1
    <2>2. f[n - k + 1] = Step(n - k + 1, f[n - k])
      BY <1>5, <2>1
    <2>3. f[n - k + 1] = seqs[k] \o f[n - k]
      BY <2>1, <2>2
    <2> QED
      BY <2>1, <2>3
  <1> HIDE DEF g
  <1>9. PICK h : Builds(h, T, seqs)
    BY FlattenRuns
  <1>10. /\ h \in [0 .. n -> V] /\ h[0] = <<>> /\ FlattenSeq(seqs) = h[n]
         /\ \A k \in 1 .. n : h[k] = h[k - 1] \o seqs[k]
    BY <1>9 DEF Builds
  <1> HIDE DEF n
  <1> DEFINE S == {k \in 0 .. n : h[k] \o g[k] = g[0]}
  <1>11. 0 \in S
    <2>1. 0 \in 0 .. n /\ g[0] \in Seq(T)
      BY <1>1, <1>6
    <2>2. <<>> \o g[0] = g[0]
      BY <2>1, ConcatEmptySeq
    <2> QED
      BY <1>10, <2>1, <2>2
  <1>12. ASSUME NEW k \in 1 .. n, k - 1 \in S
         PROVE  k \in S
    <2>1. k \in 0 .. n /\ k - 1 \in 0 .. n
      BY <1>1
    <2>2. h[k - 1] \in Seq(T) /\ seqs[k] \in Seq(T) /\ g[k] \in Seq(T)
      BY <1>1, <1>6, <1>10, <2>1
    <2>3. (h[k - 1] \o seqs[k]) \o g[k] = h[k - 1] \o (seqs[k] \o g[k])
      <3>1. PICK x, y, z : x = h[k - 1] /\ y = seqs[k] /\ z = g[k]
        OBVIOUS
      <3>2. x \in Seq(T) /\ y \in Seq(T) /\ z \in Seq(T)
        BY <2>2, <3>1
      <3>3. (x \o y) \o z = x \o (y \o z)
        BY <3>2
      <3> QED
        BY <3>1, <3>3
    <2> QED
      BY <1>8, <1>10, <1>12, <2>1, <2>3
  <1> HIDE DEF S
  <1>13. n \in S
    <2>1. \A k \in 0 .. n : k \in S
      BY <1>1, <1>11, <1>12, UpTo
    <2> QED
      BY <1>1, <2>1
  <1>14. h[n] = g[0]
    <2>1. h[n] \o <<>> = g[0]
      BY <1>7, <1>13 DEF S
    <2>2. h[n] \in Seq(T)
      BY <1>1, <1>10
    <2> QED
      BY <2>1, <2>2, ConcatEmptySeq
  <1>15. Remains(g, T, seqs)
    BY <1>6, <1>7, <1>8, <1>10, <1>14 DEF Remains, n
  <1> QED
    BY <1>15

\* Five sequences, grouped in two ways.
Groups(s, x, y) == (s \o x) \o y = s \o (x \o y)

LEMMA Associative ==
  ASSUME NEW T, NEW s \in Seq(T), NEW x \in Seq(T), NEW y \in Seq(T)
  PROVE  Groups(s, x, y)
  BY DEF Groups

Regroups(s, x, y, z, w) == (s \o x) \o (y \o (z \o w)) = s \o (((x \o y) \o z) \o w)

LEMMA Regrouped ==
  ASSUME NEW T, NEW s \in Seq(T), NEW x \in Seq(T), NEW y \in Seq(T), NEW z \in Seq(T),
         NEW w \in Seq(T)
  PROVE  Regroups(s, x, y, z, w)
  <1>1. PICK zw, yzw, xy : zw = z \o w /\ yzw = y \o zw /\ xy = x \o y
    OBVIOUS
  <1>2. zw \in Seq(T) /\ xy \in Seq(T)
    BY <1>1
  <1>3. yzw \in Seq(T)
    BY <1>1, <1>2
  <1> DEFINE V == Seq(T)
  <1>4. /\ s \in V /\ x \in V /\ y \in V /\ z \in V /\ w \in V
        /\ zw \in V /\ xy \in V /\ yzw \in V
    BY <1>2, <1>3
  <1>5. \A p, q, r \in V : Groups(p, q, r)
    BY Associative
  <1> HIDE DEF V
  <1>6. Groups(s, x, yzw) /\ Groups(x, y, zw) /\ Groups(xy, z, w)
    BY <1>4, <1>5
  <1>7. /\ (s \o x) \o yzw = s \o (x \o yzw)
        /\ xy \o zw = x \o yzw
        /\ (xy \o z) \o w = xy \o zw
    BY <1>1, <1>6 DEF Groups
  <1> QED
    BY <1>1, <1>7 DEF Regroups

\* A sequence is a prefix of what comes of appending to it.
LEMMA PrefixOfJoined ==
  ASSUME NEW T, NEW s \in Seq(T), NEW w \in Seq(T)
  PROVE  IsPrefix(s, s \o w)
  <1>1. /\ s \o w \in Seq(T)
        /\ Len(s \o w) = Len(s) + Len(w)
        /\ \A i \in 1 .. Len(s) + Len(w) :
             (s \o w)[i] = IF i <= Len(s) THEN s[i] ELSE w[i - Len(s)]
    BY ConcatProperties
  <1>2. Len(s) \in Nat /\ Len(w) \in Nat /\ DOMAIN s = 1 .. Len(s)
    OBVIOUS
  <1>3. \A i \in 1 .. Len(s) : (s \o w)[i] = s[i]
    BY <1>1, <1>2
  <1>4. PICK all : all = s \o w
    OBVIOUS
  <1>5. all \in Seq(T) /\ Len(s) <= Len(all) /\ \A i \in 1 .. Len(s) : all[i] = s[i]
    BY <1>1, <1>2, <1>3, <1>4
  <1>6. SubSeq(s, 1, Len(s)) = [i \in 1 .. Len(s) |-> s[i]]
    BY <1>2
  <1>7. SubSeq(all, 1, Len(s)) = [i \in 1 .. Len(s) |-> all[i]]
    BY <1>2, <1>5
  <1>8. SubSeq(all, 1, Len(s)) = SubSeq(s, 1, Len(s))
    BY <1>5, <1>6, <1>7
  <1> QED
    BY <1>4, <1>5, <1>8 DEF IsPrefix
=============================================================================
