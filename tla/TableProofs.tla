------------------------------ MODULE TableProofs ------------------------------
(***************************************************************************)
(* Proofs about the table generator: its type invariant, that every move   *)
(* of every state is entered, what the resolution of conflicts takes away  *)
(* and what it leaves, and where the split table answers like the rows.    *)
(***************************************************************************)
EXTENDS TableGen, SequenceLemmas

-------------------------------------------------------------------------------
(***************************************************************************)
(* Sequences without some of their elements.                               *)
(***************************************************************************)

\* The run of Without over a sequence.
Keeps(f, s, places) ==
  f = [k \in 0 .. Len(s) |-> IF k = 0 THEN <<>>
                             ELSE IF k \in places THEN f[k - 1]
                             ELSE Append(f[k - 1], s[k])]

Cuts(f, T, s, places) ==
  /\ Without(s, places) = f[Len(s)]
  /\ f[0] = <<>>
  /\ \A k \in 0 .. Len(s) : f[k] \in Seq(T)
  /\ \A k \in 1 .. Len(s) : f[k] = IF k \in places THEN f[k - 1] ELSE Append(f[k - 1], s[k])

LEMMA WithoutRuns ==
  ASSUME NEW T, NEW s \in Seq(T), NEW places
  PROVE  \E f : Cuts(f, T, s, places)
  <1> DEFINE n == Len(s)
             V == Seq(T)
             Step(k, w) == IF k \in places THEN w ELSE Append(w, s[k])
             F == [k \in 1 .. n |-> [w \in V |-> Step(k, w)]]
             g == CHOOSE f : Keeps(f, s, places)
  <1>1. n \in Nat /\ <<>> \in V
    OBVIOUS
  <1>2. \A k \in 1 .. n, w \in V : Step(k, w) \in V
    <2>1. \A k \in 1 .. n : s[k] \in T
      OBVIOUS
    <2> QED
      BY <2>1
  <1>3. \A f : Keeps(f, s, places) <=>
                 f = [k \in 0 .. n |-> IF k = 0 THEN <<>> ELSE Step(k, f[k - 1])]
    BY DEF Keeps
  <1> HIDE DEF n, Step, V
  <1>4. F \in [1 .. n -> [V -> V]]
    BY <1>2
  <1>50. PICK h : Iterates(h, n, V, <<>>, F)
    <2> HIDE DEF F
    <2> QED
      BY <1>1, <1>4, Iterated
  <1>5. h \in [0 .. n -> V] /\ h[0] = <<>> /\ \A k \in 1 .. n : h[k] = F[k][h[k - 1]]
    BY <1>50 DEF Iterates
  <1>6. h = [k \in 0 .. n |-> IF k = 0 THEN <<>> ELSE Step(k, h[k - 1])]
    <2>1. \A k \in 1 .. n : k - 1 \in 0 .. n /\ h[k - 1] \in V
      BY <1>1, <1>5
    <2>2. \A k \in 1 .. n : h[k] = Step(k, h[k - 1])
      BY <1>5, <2>1
    <2>3. \A k \in 0 .. n : h[k] = IF k = 0 THEN <<>> ELSE Step(k, h[k - 1])
      BY <1>1, <1>5, <2>2
    <2>4. h = [k \in 0 .. n |-> h[k]]
      BY <1>5
    <2> QED
      BY <2>3, <2>4
  <1>7. Keeps(g, s, places)
    BY <1>3, <1>6
  <1>8. Without(s, places) = g[Len(s)]
    BY DEF Without, Keeps
  <1> HIDE DEF g
  <1>9. /\ g[0] = <<>>
        /\ \A k \in 1 .. n : g[k] = Step(k, g[k - 1])
    <2>1. \A k \in 0 .. n : g[k] = IF k = 0 THEN <<>> ELSE Step(k, g[k - 1])
      BY <1>3, <1>7
    <2> QED
      BY <1>1, <2>1
  <1>10. \A k \in 0 .. n : g[k] \in V
    <2> DEFINE S == {k \in 0 .. n : g[k] \in V}
    <2>1. 0 \in S
      BY <1>1, <1>9
    <2>2. \A i \in 1 .. n : i - 1 \in S => i \in S
      BY <1>2, <1>9
    <2> HIDE DEF S
    <2>3. \A k \in 0 .. n : k \in S
      BY <1>1, <2>1, <2>2, UpTo
    <2> QED
      BY <2>3 DEF S
  <1> QED
    <2>1. Cuts(g, T, s, places)
      BY <1>8, <1>9, <1>10 DEF n, Step, V, Cuts
    <2> QED
      BY <2>1

\* What is left are the elements at the other places.
LEMMA WithoutFacts ==
  ASSUME NEW T, NEW s \in Seq(T), NEW places
  PROVE  /\ Without(s, places) \in Seq(T)
         /\ ToSet(Without(s, places)) = {s[i] : i \in DOMAIN s \ places}
  <1>0. PICK f : Cuts(f, T, s, places)
    BY WithoutRuns
  <1>1. /\ Without(s, places) = f[Len(s)]
        /\ f[0] = <<>>
        /\ \A k \in 0 .. Len(s) : f[k] \in Seq(T)
        /\ \A k \in 1 .. Len(s) :
             f[k] = IF k \in places THEN f[k - 1] ELSE Append(f[k - 1], s[k])
    BY <1>0 DEF Cuts
  <1>2. Len(s) \in Nat /\ DOMAIN s = 1 .. Len(s) /\ \A i \in 1 .. Len(s) : s[i] \in T
    OBVIOUS
  <1> DEFINE Left(k) == {s[i] : i \in (1 .. k) \ places}
             S == {k \in 0 .. Len(s) : ToSet(f[k]) = Left(k)}
  <1>3. 0 \in S
    BY <1>1, <1>2 DEF ToSet
  <1>4. ASSUME NEW k \in 1 .. Len(s), k - 1 \in S
        PROVE  k \in S
    <2>1. ToSet(f[k - 1]) = Left(k - 1) /\ f[k - 1] \in Seq(T) /\ s[k] \in T
      BY <1>1, <1>2, <1>4
    <2>2. CASE k \in places
      <3>1. f[k] = f[k - 1]
        BY <1>1, <2>2
      <3>2. (1 .. k) \ places = (1 .. k - 1) \ places
        BY <1>2, <2>2
      <3> QED
        BY <2>1, <3>1, <3>2
    <2>3. CASE k \notin places
      <3>1. f[k] = Append(f[k - 1], s[k])
        BY <1>1, <2>3
      <3>2. ToSet(f[k]) = ToSet(f[k - 1]) \cup {s[k]}
        BY <2>1, <3>1, Appended
      <3>3. (1 .. k) \ places = ((1 .. k - 1) \ places) \cup {k}
        BY <1>2, <2>3
      <3> QED
        BY <2>1, <3>2, <3>3
    <2> QED
      BY <2>2, <2>3
  <1> HIDE DEF S
  <1>5. \A k \in 0 .. Len(s) : k \in S
    BY <1>2, <1>3, <1>4, UpTo
  <1>6. ToSet(f[Len(s)]) = Left(Len(s)) /\ f[Len(s)] \in Seq(T)
    <2>1. Len(s) \in 0 .. Len(s)
      BY <1>2
    <2> HIDE DEF Left
    <2>2. ToSet(f[Len(s)]) = Left(Len(s))
      BY <1>5, <2>1 DEF S
    <2> QED
      BY <1>1, <2>1, <2>2
  <1> QED
    BY <1>1, <1>2, <1>6

\* Without its end or its beginning, a sequence is cut.
LEMMA WithoutEnd ==
  ASSUME NEW T, NEW s \in Seq(T), NEW n \in 0 .. Len(s), NEW places,
         \A i \in DOMAIN s : i \in places <=> i > n
  PROVE  /\ Len(Without(s, places)) = n
         /\ \A i \in 1 .. n : Without(s, places)[i] = s[i]
  <1>0. PICK f : Cuts(f, T, s, places)
    BY WithoutRuns
  <1>1. /\ Without(s, places) = f[Len(s)]
        /\ f[0] = <<>>
        /\ \A k \in 0 .. Len(s) : f[k] \in Seq(T)
        /\ \A k \in 1 .. Len(s) :
             f[k] = IF k \in places THEN f[k - 1] ELSE Append(f[k - 1], s[k])
    BY <1>0 DEF Cuts
  <1>2. Len(s) \in Nat /\ DOMAIN s = 1 .. Len(s) /\ \A i \in 1 .. Len(s) : s[i] \in T
    OBVIOUS
  <1> DEFINE Cut(k) == /\ Len(f[k]) = IF k <= n THEN k ELSE n
                       /\ \A i \in 1 .. Len(f[k]) : f[k][i] = s[i]
             S == {k \in 0 .. Len(s) : Cut(k)}
  <1>3. 0 \in S
    BY <1>1, <1>2
  <1>4. ASSUME NEW k \in 1 .. Len(s), k - 1 \in S
        PROVE  k \in S
    <2>1. Cut(k - 1) /\ f[k - 1] \in Seq(T) /\ s[k] \in T
      BY <1>1, <1>2, <1>4
    <2>2. CASE k > n
      <3>0. k \in places
        BY <1>2, <2>2
      <3>1. f[k] = f[k - 1]
        BY <1>1, <3>0
      <3> QED
        BY <1>2, <2>1, <2>2, <3>1
    <2>3. CASE k <= n
      <3>0. k \notin places
        BY <1>2, <2>3
      <3>1. f[k] = Append(f[k - 1], s[k])
        BY <1>1, <3>0
      <3>2. /\ Len(f[k]) = Len(f[k - 1]) + 1
            /\ f[k][Len(f[k - 1]) + 1] = s[k]
            /\ \A i \in 1 .. Len(f[k - 1]) : f[k][i] = f[k - 1][i]
        <4>1. f[k - 1] \in Seq(T) /\ s[k] \in T
          BY <2>1
        <4> QED
          BY <3>1, <4>1, Grown
      <3>3. Len(f[k - 1]) = k - 1 /\ Len(f[k]) = k
        BY <1>2, <2>1, <2>3, <3>2
      <3> QED
        BY <1>2, <2>1, <2>3, <3>2, <3>3
    <2> QED
      BY <1>2, <2>2, <2>3
  <1> HIDE DEF S
  <1>5. \A k \in 0 .. Len(s) : k \in S
    BY <1>2, <1>3, <1>4, UpTo
  <1>6. Cut(Len(s))
    BY <1>2, <1>5 DEF S
  <1>7. Len(f[Len(s)]) = n
    <2>1. PICK m \in Nat : m = Len(s)
      BY <1>2
    <2>2. Len(f[m]) = IF m <= n THEN m ELSE n
      BY <1>6, <2>1
    <2>3. n \in 0 .. m
      BY <2>1
    <2>4. Len(f[m]) = n
      BY <2>2, <2>3
    <2> QED
      BY <2>1, <2>4
  <1> QED
    BY <1>1, <1>6, <1>7

LEMMA WithoutBeginning ==
  ASSUME NEW T, NEW s \in Seq(T), NEW n \in 0 .. Len(s), NEW places,
         \A i \in DOMAIN s : i \in places <=> i <= n
  PROVE  /\ Len(Without(s, places)) = Len(s) - n
         /\ \A i \in 1 .. Len(s) - n : Without(s, places)[i] = s[n + i]
  <1>0. PICK f : Cuts(f, T, s, places)
    BY WithoutRuns
  <1>1. /\ Without(s, places) = f[Len(s)]
        /\ f[0] = <<>>
        /\ \A k \in 0 .. Len(s) : f[k] \in Seq(T)
        /\ \A k \in 1 .. Len(s) :
             f[k] = IF k \in places THEN f[k - 1] ELSE Append(f[k - 1], s[k])
    BY <1>0 DEF Cuts
  <1>2. Len(s) \in Nat /\ DOMAIN s = 1 .. Len(s) /\ \A i \in 1 .. Len(s) : s[i] \in T
    OBVIOUS
  <1> DEFINE Cut(k) == /\ Len(f[k]) = IF k <= n THEN 0 ELSE k - n
                       /\ \A i \in 1 .. Len(f[k]) : f[k][i] = s[n + i]
             S == {k \in 0 .. Len(s) : Cut(k)}
  <1>3. 0 \in S
    BY <1>1, <1>2
  <1>4. ASSUME NEW k \in 1 .. Len(s), k - 1 \in S
        PROVE  k \in S
    <2>1. Cut(k - 1) /\ f[k - 1] \in Seq(T) /\ s[k] \in T
      BY <1>1, <1>2, <1>4
    <2>2. CASE k <= n
      <3>0. k \in places
        BY <1>2, <2>2
      <3>1. f[k] = f[k - 1]
        BY <1>1, <3>0
      <3> QED
        BY <1>2, <2>1, <2>2, <3>1
    <2>3. CASE k > n
      <3>0. k \notin places
        BY <1>2, <2>3
      <3>1. f[k] = Append(f[k - 1], s[k])
        BY <1>1, <3>0
      <3>2. /\ Len(f[k]) = Len(f[k - 1]) + 1
            /\ f[k][Len(f[k - 1]) + 1] = s[k]
            /\ \A i \in 1 .. Len(f[k - 1]) : f[k][i] = f[k - 1][i]
        <4>1. f[k - 1] \in Seq(T) /\ s[k] \in T
          BY <2>1
        <4> QED
          BY <3>1, <4>1, Grown
      <3>3. Len(f[k - 1]) = k - 1 - n /\ Len(f[k]) = k - n
        BY <1>2, <2>1, <2>3, <3>2
      <3>4. \A i \in 1 .. k - n : f[k][i] = s[n + i]
        <4> TAKE i \in 1 .. k - n
        <4>1. CASE i = k - n
          <5>1. i = k - 1 - n + 1 /\ n + i = k
            BY <1>2, <4>1
          <5> QED
            BY <3>2, <3>3, <5>1
        <4>2. CASE i # k - n
          <5>1. i \in 1 .. k - 1 - n
            BY <1>2, <4>2
          <5> QED
            BY <2>1, <3>2, <3>3, <5>1
        <4> QED
          BY <4>1, <4>2
      <3>5. Cut(k)
        BY <2>3, <3>3, <3>4
      <3> QED
        BY <1>2, <3>5
    <2> QED
      BY <1>2, <2>2, <2>3
  <1> HIDE DEF S
  <1>5. \A k \in 0 .. Len(s) : k \in S
    BY <1>2, <1>3, <1>4, UpTo
  <1>6. Cut(Len(s))
    BY <1>2, <1>5 DEF S
  <1>7. Len(f[Len(s)]) = Len(s) - n
    <2>1. PICK m \in Nat : m = Len(s)
      BY <1>2
    <2>2. Len(f[m]) = IF m <= n THEN 0 ELSE m - n
      BY <1>6, <2>1
    <2>3. n \in 0 .. m
      BY <2>1
    <2>4. Len(f[m]) = m - n
      BY <2>2, <2>3
    <2> QED
      BY <2>1, <2>4
  <1> QED
    BY <1>1, <1>6, <1>7

-------------------------------------------------------------------------------
(***************************************************************************)
(* The productions and the symbols.                                        *)
(***************************************************************************)

RuleSet(g) == [lhs : SymbolIds(g), rhs : Seq(SymbolIds(g))]

LEMMA SymbolFacts ==
  ASSUME NEW g, InputOK(g)
  PROVE  /\ Cardinality(SymbolIds(g)) \in Nat \ {0}
         /\ SymbolIds(g) = 0 .. Cardinality(SymbolIds(g)) - 1
         /\ IsFiniteSet(SymbolIds(g))
         /\ 0 \in SymbolIds(g)
         /\ g.extras \subseteq SymbolIds(g)
  <1>1. PICK n \in Nat \ {0} : n = Cardinality(SymbolIds(g))
    BY DEF InputOK
  <1>2. SymbolIds(g) = 0 .. n - 1
    <2>1. g.kind \in [0 .. n - 1 -> {"term", "nonterm", "extern"}]
      BY <1>1 DEF InputOK
    <2> QED
      BY <2>1 DEF SymbolIds
  <1>3. IsFiniteSet(0 .. n - 1)
    BY FS_Interval
  <1>4. g.extras \subseteq SymbolIds(g)
    BY DEF InputOK
  <1>5. 0 \in 0 .. n - 1
    OBVIOUS
  <1> QED
    BY <1>1, <1>2, <1>3, <1>4, <1>5

LEMMA FunctionIsSeq ==
  ASSUME NEW S, NEW n \in Nat, NEW f \in [1 .. n -> S]
  PROVE  f \in Seq(S) /\ Len(f) = n
  OBVIOUS

LEMMA ProdFacts ==
  ASSUME NEW g, InputOK(g)
  PROVE  /\ Len(g.prods) \in Nat
         /\ DOMAIN g.prods = 1 .. Len(g.prods)
         /\ AllProds(g) \in Seq(RuleSet(g))
         /\ Len(AllProds(g)) = Len(g.prods) + 1
         /\ DOMAIN AllProds(g) = 1 .. Len(g.prods) + 1
         /\ AllProds(g)[1] = [lhs |-> g.start, rhs |-> <<g.start>>]
         /\ \A p \in DOMAIN g.prods :
              AllProds(g)[p + 1] = [lhs |-> g.prods[p].lhs, rhs |-> g.prods[p].rhs]
  <1> DEFINE n == Len(g.prods)
             R == RuleSet(g)
             one == <<[lhs |-> g.start, rhs |-> <<g.start>>]>>
             rest == [p \in DOMAIN g.prods |-> [lhs |-> g.prods[p].lhs, rhs |-> g.prods[p].rhs]]
  <1>1. n \in Nat /\ DOMAIN g.prods = 1 .. n
    BY DEF InputOK
  <1>2. one \in Seq(R) /\ Len(one) = 1 /\ one[1] = [lhs |-> g.start, rhs |-> <<g.start>>]
    <2>1. g.start \in SymbolIds(g) /\ <<g.start>> \in Seq(SymbolIds(g))
      BY DEF InputOK
    <2>2. [lhs |-> g.start, rhs |-> <<g.start>>] \in R
      BY <2>1 DEF RuleSet
    <2> QED
      BY <2>2
  <1>3. rest \in Seq(R) /\ Len(rest) = n
    <2>1. \A p \in 1 .. n : [lhs |-> g.prods[p].lhs, rhs |-> g.prods[p].rhs] \in R
      BY <1>1 DEF InputOK, RawProductionOK, OfKind, RuleSet
    <2>2. rest \in [1 .. n -> R]
      BY <1>1, <2>1
    <2> HIDE DEF rest, n
    <2> QED
      BY <1>1, <2>2, FunctionIsSeq
  <1>4. AllProds(g) = one \o rest
    BY DEF AllProds
  <1>5. /\ one \o rest \in Seq(R)
        /\ Len(one \o rest) = 1 + n
        /\ \A i \in 1 .. 1 + n : (one \o rest)[i] = IF i <= 1 THEN one[i] ELSE rest[i - 1]
    <2> HIDE DEF one, rest, R, n
    <2>1. one \in Seq(R) /\ rest \in Seq(R)
      BY <1>2, <1>3
    <2>2. /\ one \o rest \in Seq(R)
          /\ Len(one \o rest) = Len(one) + Len(rest)
          /\ \A i \in 1 .. Len(one) + Len(rest) :
               (one \o rest)[i] = IF i <= Len(one) THEN one[i] ELSE rest[i - Len(one)]
      BY <2>1, ConcatProperties
    <2> QED
      BY <1>2, <1>3, <2>2
  <1>6. \A p \in 1 .. n : /\ p + 1 \in 1 .. 1 + n /\ p + 1 > 1
                          /\ (one \o rest)[p + 1] = rest[p]
    <2> HIDE DEF one, rest, R
    <2> QED
      BY <1>1, <1>5
  <1>7. (one \o rest)[1] = one[1]
    <2> HIDE DEF one, rest, R
    <2> QED
      BY <1>1, <1>5
  <1>8. \A p \in DOMAIN g.prods : rest[p] = [lhs |-> g.prods[p].lhs, rhs |-> g.prods[p].rhs]
    OBVIOUS
  <1> HIDE DEF one, rest, R
  <1>9. DOMAIN AllProds(g) = 1 .. n + 1 /\ Len(AllProds(g)) = n + 1
    BY <1>1, <1>4, <1>5
  <1> QED
    BY <1>1, <1>2, <1>4, <1>5, <1>6, <1>7, <1>8, <1>9 DEF R

\* A production has symbols; its left side is a nonterminal, the augmented one apart.
LEMMA RuleFacts ==
  ASSUME NEW g, InputOK(g), NEW p \in DOMAIN AllProds(g)
  PROVE  /\ AllProds(g)[p].lhs \in SymbolIds(g)
         /\ AllProds(g)[p].rhs \in Seq(SymbolIds(g))
         /\ AllProds(g)[p].lhs \in OfKind(g, "nonterm")
              \/ AllProds(g)[p].rhs = <<AllProds(g)[p].lhs>>
         /\ p # 1 => p - 1 \in DOMAIN g.prods
  <1>0. /\ Len(g.prods) \in Nat
        /\ DOMAIN g.prods = 1 .. Len(g.prods)
        /\ AllProds(g) \in Seq(RuleSet(g))
        /\ DOMAIN AllProds(g) = 1 .. Len(g.prods) + 1
    BY ProdFacts
  <1>1. AllProds(g)[p] \in RuleSet(g)
    BY <1>0
  <1>2. p # 1 => p - 1 \in DOMAIN g.prods
    BY <1>0
  <1>3. CASE p = 1
    <2>1. AllProds(g)[p] = [lhs |-> g.start, rhs |-> <<g.start>>]
      BY <1>3, ProdFacts
    <2> QED
      BY <1>1, <1>3, <2>1 DEF RuleSet
  <1>4. CASE p # 1
    <2>1. PICK q \in DOMAIN g.prods : q = p - 1
      BY <1>2, <1>4
    <2>2. p = q + 1
      BY <1>0, <2>1
    <2>3. AllProds(g)[p] = [lhs |-> g.prods[q].lhs, rhs |-> g.prods[q].rhs]
      BY <2>2, ProdFacts
    <2>4. g.prods[q].lhs \in OfKind(g, "nonterm")
      BY DEF InputOK, RawProductionOK
    <2> QED
      BY <1>1, <1>2, <2>3, <2>4 DEF RuleSet
  <1> QED
    BY <1>3, <1>4

-------------------------------------------------------------------------------
(***************************************************************************)
(* Nullable and FIRST.                                                     *)
(***************************************************************************)

Tokens(g) == SymbolIds(g) \ OfKind(g, "nonterm")
Firsts(g) == [SymbolIds(g) -> SUBSET Tokens(g)]

NullableStep(g, k, N) ==
  LET p == AllProds(g)[k] IN IF ToSet(p.rhs) \subseteq N THEN N \cup {p.lhs} ELSE N

FirstStep(g, nonempty, k, F) ==
  LET p == AllProds(g)[k] IN [F EXCEPT ![p.lhs] = @ \cup FirstAlong(p.rhs, 1, nonempty, F)]

\* The right-hand sides that N makes empty are those of symbols of N.
EmptyClosed(g, N) ==
  \A p \in DOMAIN g.prods : ToSet(g.prods[p].rhs) \subseteq N => g.prods[p].lhs \in N

\* What begins a symbol of a right-hand side that only empty symbols precede begins its left-hand side.
BeginClosed(g, nonempty, F) ==
  \A p \in DOMAIN g.prods : \A j \in DOMAIN g.prods[p].rhs :
    (\A i \in 1 .. j - 1 : g.prods[p].rhs[i] \in nonempty) =>
      F[g.prods[p].rhs[j]] \subseteq F[g.prods[p].lhs]

\* The augmented production closes nothing more.
LEMMA ClosedForAll ==
  ASSUME NEW g, InputOK(g), NEW N
  PROVE  EmptyClosed(g, N) <=>
           \A k \in DOMAIN AllProds(g) :
             ToSet(AllProds(g)[k].rhs) \subseteq N => AllProds(g)[k].lhs \in N
  <1>1. /\ Len(g.prods) \in Nat /\ DOMAIN g.prods = 1 .. Len(g.prods)
        /\ DOMAIN AllProds(g) = 1 .. Len(g.prods) + 1
        /\ AllProds(g)[1] = [lhs |-> g.start, rhs |-> <<g.start>>]
        /\ \A p \in DOMAIN g.prods :
             AllProds(g)[p + 1] = [lhs |-> g.prods[p].lhs, rhs |-> g.prods[p].rhs]
    BY ProdFacts
  <1>2. ToSet(AllProds(g)[1].rhs) \subseteq N => AllProds(g)[1].lhs \in N
    BY <1>1 DEF ToSet
  <1>3. \A k \in DOMAIN AllProds(g) : k = 1 \/ (k - 1 \in DOMAIN g.prods /\ (k - 1) + 1 = k)
    BY <1>1
  <1>4. \A p \in DOMAIN g.prods : p + 1 \in DOMAIN AllProds(g)
    BY <1>1
  <1>5. \A p \in DOMAIN g.prods :
          AllProds(g)[p + 1].lhs = g.prods[p].lhs /\ AllProds(g)[p + 1].rhs = g.prods[p].rhs
    <2> TAKE p \in DOMAIN g.prods
    <2>1. AllProds(g)[p + 1] = [lhs |-> g.prods[p].lhs, rhs |-> g.prods[p].rhs]
      BY <1>1
    <2> QED
      BY <2>1
  <1>6. ASSUME EmptyClosed(g, N), NEW k \in DOMAIN AllProds(g),
               ToSet(AllProds(g)[k].rhs) \subseteq N
        PROVE  AllProds(g)[k].lhs \in N
    <2>1. CASE k = 1
      BY <1>2, <1>6, <2>1
    <2>2. CASE k # 1
      <3>1. k - 1 \in DOMAIN g.prods /\ (k - 1) + 1 = k
        BY <1>3, <2>2
      <3>2. AllProds(g)[k].lhs = g.prods[k - 1].lhs /\ AllProds(g)[k].rhs = g.prods[k - 1].rhs
        BY <1>5, <3>1
      <3> QED
        BY <1>6, <3>1, <3>2 DEF EmptyClosed
    <2> QED
      BY <2>1, <2>2
  <1> QED
    BY <1>4, <1>5, <1>6 DEF EmptyClosed

NullableRun(f, g, c) ==
  /\ NullablePass(g, c) = f[Len(AllProds(g))]
  /\ f[0] = c
  /\ \A k \in 0 .. Len(AllProds(g)) : f[k] \in SUBSET OfKind(g, "nonterm")
  /\ \A k \in 1 .. Len(AllProds(g)) : f[k] = NullableStep(g, k, f[k - 1])

LEMMA NullableRuns ==
  ASSUME NEW g, InputOK(g), NEW c \in SUBSET OfKind(g, "nonterm")
  PROVE  \E f : NullableRun(f, g, c)
  <1> DEFINE n == Len(AllProds(g))
             V == SUBSET OfKind(g, "nonterm")
             Step(k, N) == NullableStep(g, k, N)
             F == [k \in 1 .. n |-> [w \in V |-> Step(k, w)]]
             Passes(f) == f = [k \in 0 .. n |-> IF k = 0 THEN c ELSE Step(k, f[k - 1])]
             f == CHOOSE h : Passes(h)
  <1>1. n \in Nat /\ DOMAIN AllProds(g) = 1 .. n
    BY ProdFacts
  <1>2. \A k \in 1 .. n, w \in V : Step(k, w) \in V
    <2> TAKE k \in 1 .. n, w \in V
    <2> DEFINE p == AllProds(g)[k]
    <2>1. p.lhs \in OfKind(g, "nonterm") \/ p.rhs = <<p.lhs>>
      BY <1>1, RuleFacts
    <2>2. CASE ToSet(p.rhs) \subseteq w
      <3>1. p.rhs = <<p.lhs>> => p.lhs \in ToSet(p.rhs)
        BY DEF ToSet
      <3>2. p.lhs \in OfKind(g, "nonterm")
        BY <2>1, <2>2, <3>1
      <3> QED
        BY <2>2, <3>2 DEF NullableStep
    <2>3. CASE ~(ToSet(p.rhs) \subseteq w)
      BY <2>3 DEF NullableStep
    <2> QED
      BY <2>2, <2>3
  <1>3. NullablePass(g, c) = f[n]
    BY DEF NullablePass, NullableStep
  <1> HIDE DEF n, Step, V
  <1>4. F \in [1 .. n -> [V -> V]] /\ c \in V
    BY <1>2 DEF V
  <1>5. PICK h : Iterates(h, n, V, c, F)
    <2> HIDE DEF F
    <2> QED
      BY <1>1, <1>4, Iterated
  <1>6. h \in [0 .. n -> V] /\ h[0] = c /\ \A k \in 1 .. n : h[k] = Step(k, h[k - 1])
    <2>1. h \in [0 .. n -> V] /\ h[0] = c /\ \A k \in 1 .. n : h[k] = F[k][h[k - 1]]
      BY <1>5 DEF Iterates
    <2>2. \A k \in 1 .. n : h[k - 1] \in V
      BY <1>1, <2>1
    <2> QED
      BY <2>1, <2>2
  <1>7. Passes(h)
    <2>1. \A k \in 0 .. n : h[k] = IF k = 0 THEN c ELSE Step(k, h[k - 1])
      BY <1>1, <1>6
    <2>2. h = [k \in 0 .. n |-> h[k]]
      BY <1>6
    <2> QED
      BY <2>1, <2>2
  <1>8. Passes(f)
    BY <1>7
  <1> HIDE DEF f
  <1>9. \A k \in 0 .. n : f[k] = IF k = 0 THEN c ELSE Step(k, f[k - 1])
    BY <1>8
  <1> DEFINE S == {k \in 0 .. n : f[k] \in V}
  <1>10. 0 \in S
    BY <1>1, <1>4, <1>9
  <1>11. \A i \in 1 .. n : i - 1 \in S => i \in S
    BY <1>1, <1>2, <1>9
  <1> HIDE DEF S
  <1>12. \A k \in 0 .. n : k \in S
    BY <1>1, <1>10, <1>11, UpTo
  <1>13. f[0] = c /\ \A k \in 1 .. n : f[k] = Step(k, f[k - 1])
    BY <1>1, <1>9
  <1>14. NullableRun(f, g, c)
    BY <1>3, <1>12, <1>13 DEF NullableRun, S, V, Step, n
  <1> QED
    BY <1>14

\* What a pass finds, a closed set has; a pass that finds nothing shows that the set is closed.
LEMMA NullableFacts ==
  ASSUME NEW g, InputOK(g), NEW c \in SUBSET OfKind(g, "nonterm")
  PROVE  /\ NullablePass(g, c) \in SUBSET OfKind(g, "nonterm")
         /\ \A N : EmptyClosed(g, N) /\ c \subseteq N => NullablePass(g, c) \subseteq N
         /\ NullablePass(g, c) = c => EmptyClosed(g, c)
  <1> DEFINE n == Len(AllProds(g))
  <1>1. n \in Nat /\ DOMAIN AllProds(g) = 1 .. n
    BY ProdFacts
  <1>2. PICK f : NullableRun(f, g, c)
    BY NullableRuns
  <1>3. /\ NullablePass(g, c) = f[n]
        /\ f[0] = c
        /\ \A k \in 0 .. n : f[k] \in SUBSET OfKind(g, "nonterm")
        /\ \A k \in 1 .. n : f[k] = NullableStep(g, k, f[k - 1])
    BY <1>2 DEF NullableRun
  <1> HIDE DEF n
  <1>4. NullablePass(g, c) \in SUBSET OfKind(g, "nonterm")
    BY <1>1, <1>3
  <1>5. ASSUME NEW N, EmptyClosed(g, N), c \subseteq N
        PROVE  NullablePass(g, c) \subseteq N
    <2> DEFINE S == {k \in 0 .. n : f[k] \subseteq N}
    <2>1. 0 \in S
      BY <1>1, <1>3, <1>5
    <2>2. ASSUME NEW k \in 1 .. n, k - 1 \in S
          PROVE  k \in S
      <3>1. f[k - 1] \subseteq N
        BY <2>2
      <3>2. ToSet(AllProds(g)[k].rhs) \subseteq N => AllProds(g)[k].lhs \in N
        BY <1>1, <1>5, ClosedForAll
      <3>3. f[k] \subseteq N
        BY <1>3, <3>1, <3>2 DEF NullableStep
      <3> QED
        BY <1>1, <3>3
    <2> HIDE DEF S
    <2>3. \A k \in 0 .. n : k \in S
      BY <1>1, <2>1, <2>2, UpTo
    <2> QED
      BY <1>1, <1>3, <2>3 DEF S
  <1>6. ASSUME NullablePass(g, c) = c
        PROVE  EmptyClosed(g, c)
    <2>1. \A k \in 1 .. n : f[k - 1] \subseteq f[k]
      BY <1>3 DEF NullableStep
    <2>2. \A k \in 0 .. n : c \subseteq f[k]
      <3> DEFINE S == {k \in 0 .. n : c \subseteq f[k]}
      <3>1. 0 \in S
        BY <1>1, <1>3
      <3>2. \A k \in 1 .. n : k - 1 \in S => k \in S
        BY <1>1, <2>1
      <3> HIDE DEF S
      <3>3. \A k \in 0 .. n : k \in S
        BY <1>1, <3>1, <3>2, UpTo
      <3> QED
        BY <3>3 DEF S
    <2>3. \A k \in 0 .. n : f[n - k] \subseteq c
      <3> DEFINE S == {k \in 0 .. n : f[n - k] \subseteq c}
      <3>1. 0 \in S
        <4>1. n - 0 = n /\ 0 \in 0 .. n
          BY <1>1
        <4>2. f[n - 0] \subseteq c
          BY <1>3, <1>6, <4>1
        <4> QED
          BY <4>1, <4>2
      <3>2. ASSUME NEW k \in 1 .. n, k - 1 \in S
            PROVE  k \in S
        <4>1. n - (k - 1) \in 1 .. n /\ (n - (k - 1)) - 1 = n - k
          BY <1>1
        <4>2. f[(n - (k - 1)) - 1] \subseteq f[n - (k - 1)]
          BY <2>1, <4>1
        <4>3. f[n - (k - 1)] \subseteq c
          BY <3>2
        <4>4. f[n - k] \subseteq c
          BY <4>1, <4>2, <4>3
        <4> QED
          BY <1>1, <4>4
      <3> HIDE DEF S
      <3>3. \A k \in 0 .. n : k \in S
        BY <1>1, <3>1, <3>2, UpTo
      <3> QED
        BY <3>3 DEF S
    <2>4. \A k \in 0 .. n : f[k] = c
      <3> TAKE k \in 0 .. n
      <3>1. n - k \in 0 .. n /\ n - (n - k) = k
        BY <1>1
      <3>2. f[n - (n - k)] \subseteq c
        BY <2>3, <3>1
      <3> QED
        BY <2>2, <3>1, <3>2
    <2>5. ASSUME NEW k \in 1 .. n, ToSet(AllProds(g)[k].rhs) \subseteq c
          PROVE  AllProds(g)[k].lhs \in c
      <3>1. k - 1 \in 0 .. n /\ k \in 0 .. n
        BY <1>1
      <3>2. f[k - 1] = c /\ f[k] = c
        BY <2>4, <3>1
      <3>3. c = NullableStep(g, k, c)
        BY <1>3, <3>2
      <3>4. NullableStep(g, k, c) = c \cup {AllProds(g)[k].lhs}
        BY <2>5 DEF NullableStep
      <3> QED
        BY <3>3, <3>4
    <2> QED
      BY <1>1, <2>5, ClosedForAll
  <1> QED
    BY <1>4, <1>5, <1>6

LEMMA FirstAlongTyped ==
  ASSUME NEW g, InputOK(g), NEW rhs \in Seq(SymbolIds(g)), NEW i \in Nat \ {0}, NEW nonempty,
         NEW F \in Firsts(g)
  PROVE  FirstAlong(rhs, i, nonempty, F) \subseteq Tokens(g)
  <1>1. Len(rhs) \in Nat /\ \A j \in 1 .. Len(rhs) : rhs[j] \in SymbolIds(g)
    OBVIOUS
  <1>2. \A j \in Reached(rhs, i, nonempty) \ {Len(rhs) + 1} : j \in 1 .. Len(rhs)
    BY <1>1 DEF Reached
  <1>3. \A a \in SymbolIds(g) : F[a] \subseteq Tokens(g)
    BY DEF Firsts
  <1> QED
    BY <1>1, <1>2, <1>3 DEF FirstAlong

FirstRun(f, g, nonempty, c) ==
  /\ FirstPass(g, nonempty, c) = f[Len(AllProds(g))]
  /\ f[0] = c
  /\ \A k \in 0 .. Len(AllProds(g)) : f[k] \in Firsts(g)
  /\ \A k \in 1 .. Len(AllProds(g)) : f[k] = FirstStep(g, nonempty, k, f[k - 1])

LEMMA FirstRuns ==
  ASSUME NEW g, InputOK(g), NEW nonempty, NEW c \in Firsts(g)
  PROVE  \E f : FirstRun(f, g, nonempty, c)
  <1> DEFINE n == Len(AllProds(g))
             V == Firsts(g)
             Step(k, N) == FirstStep(g, nonempty, k, N)
             F == [k \in 1 .. n |-> [w \in V |-> Step(k, w)]]
             Passes(f) == f = [k \in 0 .. n |-> IF k = 0 THEN c ELSE Step(k, f[k - 1])]
             f == CHOOSE h : Passes(h)
  <1>1. n \in Nat /\ DOMAIN AllProds(g) = 1 .. n
    BY ProdFacts
  <1>2. \A k \in 1 .. n, w \in V : Step(k, w) \in V
    <2> TAKE k \in 1 .. n, w \in V
    <2> DEFINE p == AllProds(g)[k]
    <2>1. p.lhs \in SymbolIds(g) /\ p.rhs \in Seq(SymbolIds(g))
      BY <1>1, RuleFacts
    <2>2. FirstAlong(p.rhs, 1, nonempty, w) \subseteq Tokens(g)
      BY <2>1, FirstAlongTyped
    <2> HIDE DEF p
    <2>3. [w EXCEPT ![p.lhs] = @ \cup FirstAlong(p.rhs, 1, nonempty, w)] \in Firsts(g)
      BY <2>1, <2>2 DEF Firsts
    <2> QED
      BY <2>3 DEF FirstStep, p
  <1>3. FirstPass(g, nonempty, c) = f[n]
    BY DEF FirstPass, FirstStep
  <1> HIDE DEF n, Step, V
  <1>4. F \in [1 .. n -> [V -> V]] /\ c \in V
    BY <1>2 DEF V
  <1>5. PICK h : Iterates(h, n, V, c, F)
    <2> HIDE DEF F
    <2> QED
      BY <1>1, <1>4, Iterated
  <1>6. h \in [0 .. n -> V] /\ h[0] = c /\ \A k \in 1 .. n : h[k] = Step(k, h[k - 1])
    <2>1. h \in [0 .. n -> V] /\ h[0] = c /\ \A k \in 1 .. n : h[k] = F[k][h[k - 1]]
      BY <1>5 DEF Iterates
    <2>2. \A k \in 1 .. n : h[k - 1] \in V
      BY <1>1, <2>1
    <2> QED
      BY <2>1, <2>2
  <1>7. Passes(h)
    <2>1. \A k \in 0 .. n : h[k] = IF k = 0 THEN c ELSE Step(k, h[k - 1])
      BY <1>1, <1>6
    <2>2. h = [k \in 0 .. n |-> h[k]]
      BY <1>6
    <2> QED
      BY <2>1, <2>2
  <1>8. Passes(f)
    BY <1>7
  <1> HIDE DEF f
  <1>9. \A k \in 0 .. n : f[k] = IF k = 0 THEN c ELSE Step(k, f[k - 1])
    BY <1>8
  <1> DEFINE S == {k \in 0 .. n : f[k] \in V}
  <1>10. 0 \in S
    BY <1>1, <1>4, <1>9
  <1>11. \A i \in 1 .. n : i - 1 \in S => i \in S
    BY <1>1, <1>2, <1>9
  <1> HIDE DEF S
  <1>12. \A k \in 0 .. n : k \in S
    BY <1>1, <1>10, <1>11, UpTo
  <1>13. f[0] = c /\ \A k \in 1 .. n : f[k] = Step(k, f[k - 1])
    BY <1>1, <1>9
  <1>14. FirstRun(f, g, nonempty, c)
    BY <1>3, <1>12, <1>13 DEF FirstRun, S, V, Step, n
  <1> QED
    BY <1>14

\* What begins a production, as a pass collects it, and as the closed sets have it.
LEMMA BeginForAll ==
  ASSUME NEW g, InputOK(g), NEW nonempty, NEW F
  PROVE  BeginClosed(g, nonempty, F) <=>
           \A k \in DOMAIN AllProds(g) :
             FirstAlong(AllProds(g)[k].rhs, 1, nonempty, F) \subseteq F[AllProds(g)[k].lhs]
  <1> DEFINE Begins(rhs, lhs) ==
               \A j \in DOMAIN rhs :
                 (\A i \in 1 .. j - 1 : rhs[i] \in nonempty) => F[rhs[j]] \subseteq F[lhs]
  <1>1. /\ Len(g.prods) \in Nat /\ DOMAIN g.prods = 1 .. Len(g.prods)
        /\ DOMAIN AllProds(g) = 1 .. Len(g.prods) + 1
        /\ AllProds(g)[1] = [lhs |-> g.start, rhs |-> <<g.start>>]
    BY ProdFacts
  <1>2. ASSUME NEW p \in DOMAIN g.prods
        PROVE  /\ p + 1 \in DOMAIN AllProds(g)
               /\ AllProds(g)[p + 1].lhs = g.prods[p].lhs
               /\ AllProds(g)[p + 1].rhs = g.prods[p].rhs
    <2>1. AllProds(g)[p + 1] = [lhs |-> g.prods[p].lhs, rhs |-> g.prods[p].rhs]
      BY ProdFacts
    <2>2. p + 1 \in 1 .. Len(g.prods) + 1
      BY <1>1
    <2> QED
      BY <1>1, <2>1, <2>2
  <1>3. ASSUME NEW k \in DOMAIN AllProds(g)
        PROVE  FirstAlong(AllProds(g)[k].rhs, 1, nonempty, F) \subseteq F[AllProds(g)[k].lhs]
                 <=> Begins(AllProds(g)[k].rhs, AllProds(g)[k].lhs)
    <2>1. PICK rhs \in Seq(SymbolIds(g)) : rhs = AllProds(g)[k].rhs
      BY RuleFacts
    <2>2. Len(rhs) \in Nat /\ DOMAIN rhs = 1 .. Len(rhs)
      OBVIOUS
    <2>3. \A j : j \in Reached(rhs, 1, nonempty) \ {Len(rhs) + 1}
                 <=> j \in DOMAIN rhs /\ \A i \in 1 .. j - 1 : rhs[i] \in nonempty
      BY <2>2 DEF Reached
    <2>4. FirstAlong(rhs, 1, nonempty, F)
            = UNION {F[rhs[j]] : j \in Reached(rhs, 1, nonempty) \ {Len(rhs) + 1}}
      BY DEF FirstAlong
    <2>5. \A T : FirstAlong(rhs, 1, nonempty, F) \subseteq T
                 <=> \A j \in DOMAIN rhs : (\A i \in 1 .. j - 1 : rhs[i] \in nonempty) => F[rhs[j]] \subseteq T
      BY <2>3, <2>4
    <2> QED
      BY <2>1, <2>5
  <1>4. Begins(AllProds(g)[1].rhs, AllProds(g)[1].lhs)
    <2>1. \A j \in DOMAIN <<g.start>> : <<g.start>>[j] = g.start
      OBVIOUS
    <2>2. AllProds(g)[1].rhs = <<g.start>> /\ AllProds(g)[1].lhs = g.start
      BY <1>1
    <2> QED
      BY <2>1, <2>2
  <1>5. \A k \in DOMAIN AllProds(g) : k = 1 \/ (k - 1 \in DOMAIN g.prods /\ (k - 1) + 1 = k)
    BY <1>1
  <1>6. BeginClosed(g, nonempty, F) <=> \A p \in DOMAIN g.prods : Begins(g.prods[p].rhs, g.prods[p].lhs)
    BY DEF BeginClosed
  <1> HIDE DEF Begins
  <1>7. BeginClosed(g, nonempty, F) <=>
          \A k \in DOMAIN AllProds(g) : Begins(AllProds(g)[k].rhs, AllProds(g)[k].lhs)
    <2>1. ASSUME BeginClosed(g, nonempty, F), NEW k \in DOMAIN AllProds(g)
          PROVE  Begins(AllProds(g)[k].rhs, AllProds(g)[k].lhs)
      <3>1. CASE k = 1
        BY <1>4, <3>1
      <3>2. CASE k # 1
        <4>1. k - 1 \in DOMAIN g.prods /\ (k - 1) + 1 = k
          BY <1>5, <3>2
        <4>2. AllProds(g)[k].lhs = g.prods[k - 1].lhs /\ AllProds(g)[k].rhs = g.prods[k - 1].rhs
          BY <1>2, <4>1
        <4> QED
          BY <1>6, <2>1, <4>1, <4>2
      <3> QED
        BY <3>1, <3>2
    <2>2. ASSUME \A k \in DOMAIN AllProds(g) : Begins(AllProds(g)[k].rhs, AllProds(g)[k].lhs),
                 NEW p \in DOMAIN g.prods
          PROVE  Begins(g.prods[p].rhs, g.prods[p].lhs)
      <3>1. Begins(AllProds(g)[p + 1].rhs, AllProds(g)[p + 1].lhs)
        BY <1>2, <2>2
      <3> QED
        BY <1>2, <3>1
    <2> QED
      BY <1>6, <2>1, <2>2
  <1> QED
    BY <1>3, <1>7

\* Nothing of F is outside H.
Within(g, F, H) == \A a \in SymbolIds(g) : F[a] \subseteq H[a]

LEMMA AlongGrows ==
  ASSUME NEW g, NEW rhs \in Seq(SymbolIds(g)), NEW nonempty, NEW F, NEW H, Within(g, F, H)
  PROVE  FirstAlong(rhs, 1, nonempty, F) \subseteq FirstAlong(rhs, 1, nonempty, H)
  <1>1. Len(rhs) \in Nat /\ \A j \in 1 .. Len(rhs) : rhs[j] \in SymbolIds(g)
    OBVIOUS
  <1>2. \A j \in Reached(rhs, 1, nonempty) \ {Len(rhs) + 1} : j \in 1 .. Len(rhs)
    BY <1>1 DEF Reached
  <1> QED
    BY <1>1, <1>2 DEF FirstAlong, Within

\* What a pass finds, closed sets have; a pass that finds nothing shows that the sets are closed.
LEMMA FirstFacts ==
  ASSUME NEW g, InputOK(g), NEW nonempty, NEW c \in Firsts(g)
  PROVE  /\ FirstPass(g, nonempty, c) \in Firsts(g)
         /\ Within(g, c, FirstPass(g, nonempty, c))
         /\ \A H : BeginClosed(g, nonempty, H) /\ Within(g, c, H) =>
                    Within(g, FirstPass(g, nonempty, c), H)
         /\ FirstPass(g, nonempty, c) = c => BeginClosed(g, nonempty, c)
  <1> DEFINE n == Len(AllProds(g))
             Lhs(k) == AllProds(g)[k].lhs
             Rhs(k) == AllProds(g)[k].rhs
             Found(k, F) == FirstAlong(Rhs(k), 1, nonempty, F)
  <1>1. n \in Nat /\ DOMAIN AllProds(g) = 1 .. n
    BY ProdFacts
  <1>2. PICK f : FirstRun(f, g, nonempty, c)
    BY FirstRuns
  <1>3. /\ FirstPass(g, nonempty, c) = f[n]
        /\ f[0] = c
        /\ \A k \in 0 .. n : f[k] \in Firsts(g)
        /\ \A k \in 1 .. n : f[k] = [f[k - 1] EXCEPT ![Lhs(k)] = @ \cup Found(k, f[k - 1])]
    BY <1>2 DEF FirstRun, FirstStep
  <1>4. \A k \in 1 .. n : Lhs(k) \in SymbolIds(g) /\ Rhs(k) \in Seq(SymbolIds(g))
    BY <1>1, RuleFacts
  <1>5. \A H : BeginClosed(g, nonempty, H) <=> \A k \in 1 .. n : Found(k, H) \subseteq H[Lhs(k)]
    BY <1>1, BeginForAll
  <1>6. ASSUME NEW k \in 1 .. n, NEW F, NEW H, Within(g, F, H)
        PROVE  Found(k, F) \subseteq Found(k, H)
    BY <1>4, <1>6, AlongGrows
  <1> HIDE DEF n, Lhs, Rhs, Found
  <1>7. FirstPass(g, nonempty, c) \in Firsts(g)
    BY <1>1, <1>3
  <1>8. \A k \in 1 .. n : k \in 0 .. n /\ k - 1 \in 0 .. n
    BY <1>1
  <1>9. ASSUME NEW k \in 1 .. n
        PROVE  /\ f[k][Lhs(k)] = f[k - 1][Lhs(k)] \cup Found(k, f[k - 1])
               /\ \A a \in SymbolIds(g) : a # Lhs(k) => f[k][a] = f[k - 1][a]
    <2>1. f[k - 1] \in Firsts(g) /\ Lhs(k) \in SymbolIds(g)
      BY <1>3, <1>4, <1>8
    <2>2. f[k] = [f[k - 1] EXCEPT ![Lhs(k)] = f[k - 1][Lhs(k)] \cup Found(k, f[k - 1])]
      BY <1>3
    <2>3. DOMAIN f[k - 1] = SymbolIds(g)
      BY <2>1 DEF Firsts
    <2> QED
      BY <2>1, <2>2, <2>3
  <1>10. \A k \in 1 .. n, a \in SymbolIds(g) : f[k - 1][a] \subseteq f[k][a]
    BY <1>9
  <1>11. \A k \in 0 .. n : Within(g, c, f[k])
    <2> DEFINE S == {k \in 0 .. n : Within(g, c, f[k])}
    <2>1. 0 \in S
      BY <1>1, <1>3 DEF Within
    <2>2. \A k \in 1 .. n : k - 1 \in S => k \in S
      BY <1>8, <1>10 DEF Within
    <2> HIDE DEF S
    <2>3. \A k \in 0 .. n : k \in S
      BY <1>1, <2>1, <2>2, UpTo
    <2> QED
      BY <2>3 DEF S
  <1>12. ASSUME NEW H, BeginClosed(g, nonempty, H), Within(g, c, H)
         PROVE  Within(g, FirstPass(g, nonempty, c), H)
    <2> DEFINE S == {k \in 0 .. n : Within(g, f[k], H)}
    <2>1. 0 \in S
      BY <1>1, <1>3, <1>12
    <2>2. ASSUME NEW k \in 1 .. n, k - 1 \in S
          PROVE  k \in S
      <3>1. Within(g, f[k - 1], H)
        BY <2>2
      <3>2. Found(k, f[k - 1]) \subseteq H[Lhs(k)]
        BY <1>5, <1>6, <1>12, <3>1
      <3>3. ASSUME NEW a \in SymbolIds(g)
            PROVE  f[k][a] \subseteq H[a]
        <4>1. f[k - 1][a] \subseteq H[a]
          BY <3>1 DEF Within
        <4>2. CASE a = Lhs(k)
          BY <1>9, <3>2, <4>1, <4>2
        <4>3. CASE a # Lhs(k)
          BY <1>9, <4>1, <4>3
        <4> QED
          BY <4>2, <4>3
      <3> QED
        BY <1>8, <3>3 DEF Within
    <2> HIDE DEF S
    <2>3. \A k \in 0 .. n : k \in S
      BY <1>1, <2>1, <2>2, UpTo
    <2>4. n \in 0 .. n
      BY <1>1
    <2> QED
      BY <1>3, <2>3, <2>4 DEF S
  <1>13. ASSUME FirstPass(g, nonempty, c) = c
         PROVE  BeginClosed(g, nonempty, c)
    <2>1. \A k \in 0 .. n : Within(g, f[n - k], c)
      <3> DEFINE S == {k \in 0 .. n : Within(g, f[n - k], c)}
      <3>1. 0 \in S
        <4>1. n - 0 = n /\ 0 \in 0 .. n
          BY <1>1
        <4>2. Within(g, f[n - 0], c)
          BY <1>3, <1>13, <4>1 DEF Within
        <4> QED
          BY <4>1, <4>2
      <3>2. ASSUME NEW k \in 1 .. n, k - 1 \in S
            PROVE  k \in S
        <4>1. n - (k - 1) \in 1 .. n /\ (n - (k - 1)) - 1 = n - k
          BY <1>1
        <4>2. \A a \in SymbolIds(g) : f[(n - (k - 1)) - 1][a] \subseteq f[n - (k - 1)][a]
          BY <1>10, <4>1
        <4>3. Within(g, f[n - (k - 1)], c)
          BY <3>2
        <4>4. Within(g, f[n - k], c)
          BY <4>1, <4>2, <4>3 DEF Within
        <4> QED
          BY <1>8, <4>4
      <3> HIDE DEF S
      <3>3. \A k \in 0 .. n : k \in S
        BY <1>1, <3>1, <3>2, UpTo
      <3> QED
        BY <3>3 DEF S
    <2>2. \A k \in 0 .. n : Within(g, f[k], c)
      <3> TAKE k \in 0 .. n
      <3>1. n - k \in 0 .. n /\ n - (n - k) = k
        BY <1>1
      <3>2. Within(g, f[n - (n - k)], c)
        BY <2>1, <3>1
      <3> QED
        BY <3>1, <3>2
    <2>3. ASSUME NEW k \in 1 .. n
          PROVE  Found(k, c) \subseteq c[Lhs(k)]
      <3>1. Found(k, c) \subseteq Found(k, f[k - 1])
        BY <1>6, <1>8, <1>11
      <3>2. Found(k, f[k - 1]) \subseteq f[k][Lhs(k)]
        BY <1>9
      <3>3. f[k][Lhs(k)] \subseteq c[Lhs(k)]
        BY <1>4, <1>8, <2>2 DEF Within
      <3> QED
        BY <3>1, <3>2, <3>3
    <2> QED
      BY <1>5, <2>3
  <1>14. n \in 0 .. n
    BY <1>1
  <1> QED
    BY <1>3, <1>7, <1>11, <1>12, <1>13, <1>14

-------------------------------------------------------------------------------
(***************************************************************************)
(* Items and closures.                                                     *)
(***************************************************************************)

\* The items whose dot is in the production, and those a closure may add.
Dotted(g) == {it \in Items(g) : it[2] <= Len(RhsOf(g, it))}
Zeros(g) == {it \in Items(g) : it[2] = 0}

LEMMA ItemFacts ==
  ASSUME NEW g, InputOK(g), NEW it \in Items(g)
  PROVE  /\ it[1] \in DOMAIN AllProds(g)
         /\ it[2] \in Nat
         /\ it[3] \in SymbolIds(g)
         /\ it = <<it[1], it[2], it[3]>>
         /\ RhsOf(g, it) \in Seq(SymbolIds(g))
         /\ Len(RhsOf(g, it)) \in Nat
  <1>1. it[1] \in DOMAIN AllProds(g) /\ it[2] \in Nat /\ it[3] \in SymbolIds(g)
        /\ it = <<it[1], it[2], it[3]>>
    BY DEF Items
  <1>2. RhsOf(g, it) \in Seq(SymbolIds(g))
    BY <1>1, RuleFacts DEF RhsOf
  <1> QED
    BY <1>1, <1>2

LEMMA ItemsFinite ==
  ASSUME NEW g, InputOK(g)
  PROVE  /\ IsFiniteSet(Zeros(g))
         /\ IsFiniteSet(Dotted(g))
         /\ Zeros(g) \subseteq Dotted(g)
  <1> DEFINE P == DOMAIN AllProds(g)
             Size(p) == Len(AllProds(g)[p].rhs)
             Of(p) == {p} \X (0 .. Size(p)) \X SymbolIds(g)
  <1>1. IsFiniteSet(P) /\ IsFiniteSet(SymbolIds(g))
    <2>1. Len(g.prods) \in Nat /\ P = 1 .. Len(g.prods) + 1
      BY ProdFacts
    <2>2. IsFiniteSet(1 .. Len(g.prods) + 1)
      <3>1. Len(g.prods) + 1 \in Int
        BY <2>1
      <3> QED
        BY <3>1, FS_Interval
    <2> QED
      BY <2>1, <2>2, SymbolFacts
  <1>2. ASSUME NEW p \in P
        PROVE  Size(p) \in Nat /\ IsFiniteSet(Of(p))
    <2>1. Size(p) \in Nat
      <3>1. AllProds(g)[p].rhs \in Seq(SymbolIds(g))
        BY RuleFacts
      <3> QED
        BY <3>1
    <2> DEFINE w == 0 .. Size(p)
    <2>2. IsFiniteSet(w) /\ IsFiniteSet({p})
      <3>1. PICK m \in Nat : m = Size(p)
        BY <2>1
      <3>2. IsFiniteSet(0 .. m)
        BY FS_Interval
      <3>3. IsFiniteSet({p})
        BY FS_Singleton
      <3> QED
        BY <3>1, <3>2, <3>3
    <2> HIDE DEF w
    <2>3. IsFiniteSet({p} \X w)
      BY <2>2, FS_Product
    <2>4. IsFiniteSet(({p} \X w) \X SymbolIds(g))
      BY <1>1, <2>3, FS_Product
    <2> DEFINE f == [x \in ({p} \X w) \X SymbolIds(g) |-> <<x[1][1], x[1][2], x[2]>>]
    <2>5. f \in Surjection(({p} \X w) \X SymbolIds(g), {p} \X w \X SymbolIds(g))
      <3>1. \A x \in ({p} \X w) \X SymbolIds(g) : f[x] \in {p} \X w \X SymbolIds(g)
        OBVIOUS
      <3>2. \A y \in {p} \X w \X SymbolIds(g) :
              /\ <<<<y[1], y[2]>>, y[3]>> \in ({p} \X w) \X SymbolIds(g)
              /\ f[<<<<y[1], y[2]>>, y[3]>>] = y
        OBVIOUS
      <3>3. f \in [({p} \X w) \X SymbolIds(g) -> {p} \X w \X SymbolIds(g)]
        BY <3>1
      <3> HIDE DEF f
      <3> QED
        BY <3>2, <3>3 DEF Surjection
    <2>6. IsFiniteSet({p} \X w \X SymbolIds(g))
      <3> HIDE DEF f
      <3> QED
        BY <2>4, <2>5, FS_Surjection
    <2> QED
      BY <2>1, <2>6 DEF w
  <1>3. IsFiniteSet(UNION {Of(p) : p \in P})
    <2> HIDE DEF Of, P
    <2>1. IsFiniteSet({Of(p) : p \in P})
      <3> DEFINE f == [p \in P |-> Of(p)]
      <3>1. f \in Surjection(P, {Of(p) : p \in P})
        BY DEF Surjection
      <3> HIDE DEF f
      <3> QED
        BY <1>1, <3>1, FS_Surjection
    <2>2. \A T \in {Of(p) : p \in P} : IsFiniteSet(T)
      BY <1>2
    <2> QED
      BY <2>1, <2>2, FS_UNION
  <1>4. Dotted(g) \subseteq UNION {Of(p) : p \in P}
    <2> SUFFICES ASSUME NEW it \in Dotted(g)
                 PROVE  it \in Of(it[1]) /\ it[1] \in P
      OBVIOUS
    <2>1. it \in Items(g) /\ it[2] <= Len(RhsOf(g, it))
      BY DEF Dotted
    <2>2. it[1] \in P /\ it[2] \in Nat /\ it[3] \in SymbolIds(g) /\ it = <<it[1], it[2], it[3]>>
      BY <2>1, ItemFacts
    <2>3. it[2] \in 0 .. Size(it[1])
      BY <1>2, <2>1, <2>2 DEF RhsOf
    <2> QED
      BY <2>2, <2>3
  <1>5. Zeros(g) \subseteq Dotted(g)
    BY ItemFacts DEF Zeros, Dotted
  <1>6. IsFiniteSet(Dotted(g))
    <2> HIDE DEF Of, P
    <2> QED
      BY <1>3, <1>4, FS_Subset
  <1> QED
    BY <1>5, <1>6, FS_Subset

LEMMA PassFacts ==
  ASSUME NEW g, InputOK(g), NEW a, a.first \in Firsts(g), NEW S \in SUBSET Items(g)
  PROVE  /\ S \subseteq ClosurePass(g, a, S)
         /\ ClosurePass(g, a, S) \subseteq S \cup Zeros(g)
         /\ ClosurePass(g, a, S) \in SUBSET Items(g)
         /\ \A U \in SUBSET S : ClosurePass(g, a, U) \subseteq ClosurePass(g, a, S)
  <1>1. S \subseteq ClosurePass(g, a, S)
    BY DEF ClosurePass
  <1>2. ASSUME NEW it \in S,
               NEW q \in DOMAIN AllProds(g),
               NEW la \in FirstOfSeq(RhsOf(g, it), it[2] + 2, a, it[3])
        PROVE  <<q, 0, la>> \in Zeros(g)
    <2>1. /\ it[2] + 2 \in Nat \ {0} /\ it[3] \in SymbolIds(g)
          /\ RhsOf(g, it) \in Seq(SymbolIds(g))
      BY ItemFacts
    <2>2. FirstAlong(RhsOf(g, it), it[2] + 2, a.nullable, a.first) \subseteq Tokens(g)
      BY <2>1, FirstAlongTyped
    <2>3. la \in SymbolIds(g)
      BY <2>1, <2>2 DEF FirstOfSeq, Tokens
    <2>4. <<q, 0, la>> \in Items(g)
      BY <2>3 DEF Items
    <2> QED
      BY <2>4 DEF Zeros
  <1>3. ClosurePass(g, a, S) \subseteq S \cup Zeros(g)
    BY <1>2 DEF ClosurePass
  <1>4. Zeros(g) \subseteq Items(g)
    BY DEF Zeros
  <1>5. \A U \in SUBSET S : ClosurePass(g, a, U) \subseteq ClosurePass(g, a, S)
    BY DEF ClosurePass
  <1> QED
    BY <1>1, <1>3, <1>4, <1>5

\* The function that LRClosure applies.
Closes(c, g, a) ==
  c = [S \in SUBSET Items(g) |->
         IF ClosurePass(g, a, S) = S THEN S ELSE c[ClosurePass(g, a, S)]]

\* There is one: the least closed set around the items.
LEMMA ClosureExists ==
  ASSUME NEW g, InputOK(g), NEW a, a.first \in Firsts(g)
  PROVE  \E c : Closes(c, g, a)
  <1> DEFINE Around(S) == {C \in SUBSET Items(g) : S \subseteq C /\ ClosurePass(g, a, C) = C}
             Least(S) == {x \in Items(g) : \A C \in Around(S) : x \in C}
             c == [S \in SUBSET Items(g) |-> Least(S)]
  <1>1. ASSUME NEW S \in SUBSET Items(g)
        PROVE  c[S] = IF ClosurePass(g, a, S) = S THEN S ELSE c[ClosurePass(g, a, S)]
    <2> DEFINE T == ClosurePass(g, a, S)
    <2>1. S \subseteq T /\ T \in SUBSET Items(g)
      BY PassFacts
    <2>2. CASE T = S
      <3>1. S \in Around(S)
        BY <2>2
      <3>2. Least(S) = S
        BY <3>1
      <3> QED
        BY <2>2, <3>2
    <2>3. CASE T # S
      <3>1. \A C \in Around(S) : T \subseteq C
        BY PassFacts
      <3>2. Around(S) = Around(T)
        BY <2>1, <3>1
      <3>3. Least(S) = Least(T)
        BY <3>2
      <3> QED
        BY <2>1, <2>3, <3>3
    <2> QED
      BY <2>2, <2>3
  <1>2. c = [S \in SUBSET Items(g) |-> c[S]]
    OBVIOUS
  <1> HIDE DEF c
  <1>3. Closes(c, g, a)
    BY <1>1, <1>2 DEF Closes
  <1> QED
    BY <1>3

(***************************************************************************)
(* A closure adds items with the dot in front, and is closed: by induction *)
(* on the number of such items that are still missing.                     *)
(***************************************************************************)
LEMMA ClosureFacts ==
  ASSUME NEW g, InputOK(g), NEW a, a.first \in Firsts(g), NEW items \in SUBSET Items(g)
  PROVE  /\ items \subseteq LRClosure(g, a, items)
         /\ LRClosure(g, a, items) \subseteq items \cup Zeros(g)
         /\ ClosurePass(g, a, LRClosure(g, a, items)) = LRClosure(g, a, items)
         /\ items = {} => LRClosure(g, a, items) = {}
  <1> DEFINE c == CHOOSE h : Closes(h, g, a)
             Pass(S) == ClosurePass(g, a, S)
             Good(S) == S \subseteq c[S] /\ c[S] \subseteq S \cup Zeros(g) /\ Pass(c[S]) = c[S]
             Missing(S) == Cardinality(Zeros(g) \ S)
             Bad == {S \in SUBSET Items(g) : ~Good(S)}
             Ranks == {Missing(S) : S \in Bad}
  <1>1. Closes(c, g, a)
    BY ClosureExists
  <1>2. LRClosure(g, a, items) = c[items]
    BY DEF LRClosure, Closes
  <1> HIDE DEF c
  <1>3. \A S \in SUBSET Items(g) : c[S] = IF Pass(S) = S THEN S ELSE c[Pass(S)]
    BY <1>1 DEF Closes
  <1>4. \A S : IsFiniteSet(Zeros(g) \ S) /\ Missing(S) \in Nat
    BY ItemsFinite, FS_Difference, FS_CardinalityType
  <1>5. Bad = {}
    <2> SUFFICES ASSUME Bad # {}
                 PROVE  FALSE
      OBVIOUS
    <2>1. Ranks \in SUBSET Nat /\ Ranks # {}
      BY <1>4
    <2>2. PICK S \in Bad : \A U \in Bad : Missing(S) <= Missing(U)
      <3>1. PICK r \in Ranks : \A k \in Ranks : r <= k
        <4> HIDE DEF Ranks
        <4> QED
          BY <2>1, LeastExists
      <3> QED
        BY <3>1
    <2>3. S \in SUBSET Items(g) /\ ~Good(S)
      BY <2>2
    <2> DEFINE T == Pass(S)
    <2>4. S \subseteq T /\ T \subseteq S \cup Zeros(g) /\ T \in SUBSET Items(g)
      BY <2>3, PassFacts
    <2>5. T # S
      BY <1>3, <2>3
    <2>6. c[S] = c[T]
      BY <1>3, <2>3, <2>5
    <2> HIDE DEF T
    <2>7. Missing(T) < Missing(S)
      <3> DEFINE X == Zeros(g) \ S
                 Y == Zeros(g) \ T
      <3>1. Y \subseteq X /\ X # Y
        BY <2>4, <2>5
      <3>2. IsFiniteSet(X) /\ Cardinality(X) \in Nat /\ Cardinality(Y) \in Nat
        BY <1>4
      <3> HIDE DEF X, Y
      <3>3. Cardinality(Y) <= Cardinality(X) /\ Cardinality(X) # Cardinality(Y)
        BY <3>1, <3>2, FS_Subset
      <3>4. Cardinality(Y) < Cardinality(X)
        BY <3>2, <3>3
      <3> QED
        BY <3>4 DEF X, Y
    <2>8. Good(T)
      <3>1. T \notin Bad
        <4>1. T \in Bad => Missing(S) <= Missing(T)
          BY <2>2
        <4>2. Missing(S) \in Nat /\ Missing(T) \in Nat
          BY <1>4
        <4>3. ~(Missing(S) <= Missing(T))
          <5> HIDE DEF Missing
          <5> QED
            BY <2>7, <4>2
        <4> QED
          BY <4>1, <4>3
      <3> QED
        BY <2>4, <3>1
    <2>9. Good(S)
      BY <2>4, <2>6, <2>8
    <2> QED
      BY <2>3, <2>9
  <1>6. Good(items)
    BY <1>5
  <1>7. items = {} => c[items] = {}
    <2>1. Pass({}) = {}
      BY DEF ClosurePass
    <2> QED
      BY <1>3, <2>1
  <1> QED
    BY <1>2, <1>6, <1>7

-------------------------------------------------------------------------------
(***************************************************************************)
(* The items of a state in their order, and the cells they fill.           *)
(***************************************************************************)

Triples == Nat \X Nat \X Nat

LEMMA ItemsAreTriples ==
  ASSUME NEW g, InputOK(g)
  PROVE  Items(g) \subseteq Triples
  <1>1. DOMAIN AllProds(g) \subseteq Nat
    <2>1. Len(g.prods) \in Nat /\ DOMAIN AllProds(g) = 1 .. Len(g.prods) + 1
      BY ProdFacts
    <2> QED
      BY <2>1
  <1>2. SymbolIds(g) \subseteq Nat
    <2>1. Cardinality(SymbolIds(g)) \in Nat /\ SymbolIds(g) = 0 .. Cardinality(SymbolIds(g)) - 1
      BY SymbolFacts
    <2> QED
      BY <2>1
  <1> QED
    BY <1>1, <1>2 DEF Items, Triples

LEMMA BeforeOrders ==
  /\ \A i \in Triples : ~Before(i, i)
  /\ \A i, j \in Triples : i # j => Before(i, j) \/ Before(j, i)
  /\ \A i, j, k \in Triples : Before(i, j) /\ Before(j, k) => Before(i, k)
  <1>1. \A i \in Triples : i[1] \in Nat /\ i[2] \in Nat /\ i[3] \in Nat /\ i = <<i[1], i[2], i[3]>>
    BY DEF Triples
  <1>2. \A i \in Triples : ~Before(i, i)
    BY <1>1 DEF Before
  <1>3. ASSUME NEW i \in Triples, NEW j \in Triples, i # j
        PROVE  Before(i, j) \/ Before(j, i)
    <2>1. ~(i[1] = j[1] /\ i[2] = j[2] /\ i[3] = j[3])
      BY <1>1, <1>3
    <2> QED
      BY <1>1, <2>1 DEF Before
  <1>4. \A i, j, k \in Triples : Before(i, j) /\ Before(j, k) => Before(i, k)
    BY <1>1 DEF Before
  <1> QED
    BY <1>2, <1>3, <1>4

\* InOrder lists the items, each once, the first one before all others.
LEMMA OrderFacts ==
  ASSUME NEW items \in SUBSET Triples, IsFiniteSet(items)
  PROVE  /\ Cardinality(items) \in Nat
         /\ InOrder(items) \in [1 .. Cardinality(items) -> items]
         /\ \A it \in items : \E m \in 1 .. Cardinality(items) : InOrder(items)[m] = it
         /\ items # {} => \E it \in items : \A i \in items : ~Before(i, it)
  <1> DEFINE n == Cardinality(items)
             Below(it) == {i \in items : Before(i, it)}
             Rank(it) == Cardinality(Below(it))
             f == [it \in items |-> Rank(it)]
  <1>1. n \in Nat /\ \A it : IsFiniteSet(Below(it)) /\ Rank(it) \in Nat
    BY FS_Subset, FS_CardinalityType
  <1>2. ASSUME NEW i \in items, NEW j \in items, Before(i, j)
        PROVE  Rank(i) < Rank(j)
    <2>1. Below(i) \subseteq Below(j)
      BY <1>2, BeforeOrders
    <2>2. i \in Below(j) /\ i \notin Below(i)
      BY <1>2, BeforeOrders
    <2>3. IsFiniteSet(Below(j)) /\ Rank(i) \in Nat /\ Rank(j) \in Nat
      BY <1>1
    <2> HIDE DEF Below
    <2>4. Rank(i) <= Rank(j) /\ Rank(i) # Rank(j)
      BY <2>1, <2>2, <2>3, FS_Subset
    <2> QED
      BY <2>3, <2>4
  <1>3. ASSUME NEW it \in items
        PROVE  Rank(it) \in 0 .. n - 1
    <2>1. Below(it) \subseteq items /\ it \notin Below(it)
      BY BeforeOrders
    <2>2. Rank(it) \in Nat
      BY <1>1
    <2> HIDE DEF Below
    <2>3. Rank(it) <= n /\ Rank(it) # n
      BY <2>1, FS_Subset
    <2> QED
      BY <1>1, <2>2, <2>3
  <1>4. \A i, j \in items : i # j => Rank(i) # Rank(j)
    <2> SUFFICES ASSUME NEW i \in items, NEW j \in items, i # j
                 PROVE  Rank(i) # Rank(j)
      OBVIOUS
    <2>1. Before(i, j) \/ Before(j, i)
      BY BeforeOrders
    <2>2. Rank(i) < Rank(j) \/ Rank(j) < Rank(i)
      <3> HIDE DEF Rank
      <3> QED
        BY <1>2, <2>1
    <2>3. Rank(i) \in Nat /\ Rank(j) \in Nat
      BY <1>1
    <2> HIDE DEF Rank
    <2> QED
      BY <2>2, <2>3
  <1>5. \A m \in 1 .. n : \E it \in items : Rank(it) = m - 1
    <2>1. f \in Injection(items, 0 .. n - 1)
      <3>1. f \in [items -> 0 .. n - 1]
        <4> HIDE DEF Rank, n
        <4> QED
          BY <1>3
      <3>2. \A i, j \in items : f[i] = f[j] => i = j
        <4> HIDE DEF Rank
        <4> QED
          BY <1>4
      <3> HIDE DEF f
      <3> QED
        BY <3>1, <3>2 DEF Injection, IsInjective
    <2>2. IsFiniteSet(0 .. n - 1) /\ Cardinality(0 .. n - 1) = n
      <3>1. PICK k \in Nat : k = n
        BY <1>1
      <3>2. IsFiniteSet(0 .. k - 1) /\ Cardinality(0 .. k - 1) = k
        BY FS_Interval
      <3> QED
        BY <3>1, <3>2
    <2>3. f \in Surjection(items, 0 .. n - 1)
      <3> DEFINE T == 0 .. n - 1
      <3>1. Cardinality(items) = Cardinality(T) /\ IsFiniteSet(T) /\ f \in Injection(items, T)
        BY <2>1, <2>2
      <3> HIDE DEF f, T
      <3>2. f \in Surjection(items, T)
        BY <3>1, FS_Injection
      <3> QED
        BY <3>2 DEF T
    <2>4. \A k \in 0 .. n - 1 : \E it \in items : f[it] = k
      <3> HIDE DEF f
      <3> QED
        BY <2>3 DEF Surjection
    <2>5. \A m \in 1 .. n : m - 1 \in 0 .. n - 1
      BY <1>1
    <2> QED
      BY <2>4, <2>5
  <1> DEFINE o == InOrder(items)
  <1>6. o = [m \in 1 .. n |-> CHOOSE it \in items : Rank(it) = m - 1]
    BY DEF InOrder
  <1>7. \A m \in 1 .. n : o[m] \in items /\ Rank(o[m]) = m - 1
    <2> HIDE DEF Rank, n
    <2> QED
      BY <1>5, <1>6
  <1>8. o \in [1 .. n -> items]
    <2> HIDE DEF Rank, n
    <2> QED
      BY <1>6, <1>7
  <1>9. \A it \in items : \E m \in 1 .. n : o[m] = it
    <2> SUFFICES ASSUME NEW it \in items
                 PROVE  \E m \in 1 .. n : o[m] = it
      OBVIOUS
    <2>1. PICK m : m = Rank(it) + 1
      OBVIOUS
    <2>2. Rank(it) \in 0 .. n - 1
      BY <1>3
    <2> HIDE DEF Rank, n
    <2>3. m \in 1 .. n /\ m - 1 = Rank(it)
      BY <1>1, <2>1, <2>2 DEF n
    <2>4. o[m] \in items /\ Rank(o[m]) = Rank(it)
      BY <1>7, <2>3
    <2>5. o[m] = it
      BY <1>4, <2>4
    <2> QED
      BY <2>3, <2>5
  <1>10. items # {} => \E it \in items : \A i \in items : ~Before(i, it)
    <2> SUFFICES ASSUME items # {}
                 PROVE  \E it \in items : \A i \in items : ~Before(i, it)
      OBVIOUS
    <2>1. 1 \in 1 .. n
      <3>1. n # 0
        BY FS_EmptySet
      <3> QED
        BY <1>1, <3>1
    <2>2. PICK it \in items : Rank(it) = 0
      BY <1>5, <2>1
    <2>3. Below(it) = {}
      BY <1>1, <2>2, FS_EmptySet
    <2> QED
      BY <2>3
  <1> QED
    BY <1>1, <1>8, <1>9, <1>10

EntryRange(g, n) ==
  {Shift(t) : t \in 0 .. n - 1} \cup {Goto(t) : t \in 0 .. n - 1}
    \cup {Reduce(p) : p \in DOMAIN g.prods} \cup {Accept}

LEMMA EntryTyped ==
  ASSUME NEW g, InputOK(g), NEW an1, NEW sets1, NEW T, sets1 \in Seq(T), NEW s, NEW a,
         NEW it \in Items(g)
  PROVE  EntryOf(g, an1, sets1, s, it, a) \in Seq(EntryRange(g, Len(sets1)))
  <1> DEFINE E == EntryRange(g, Len(sets1))
             found == {i \in DOMAIN sets1 : sets1[i] = LRGoto(g, an1, sets1[s], a)}
             t == (CHOOSE i \in found : TRUE) - 1
  <1>1. CASE NextIs(g, it) = {}
    <2>1. it[1] = 1 => Accept \in E
      BY DEF EntryRange
    <2>2. it[1] # 1 => Reduce(ProductionOf(it)) \in E
      <3>1. it[1] # 1 => it[1] - 1 \in DOMAIN g.prods
        BY ItemFacts, RuleFacts
      <3> QED
        BY <3>1 DEF EntryRange, ProductionOf
    <2>3. (IF it[1] = 1 THEN Accept ELSE Reduce(ProductionOf(it))) \in E
      BY <2>1, <2>2
    <2> HIDE DEF E
    <2> QED
      BY <1>1, <2>3 DEF EntryOf, E
  <1>2. CASE NextIs(g, it) # {} /\ found = {}
    <2>1. EntryOf(g, an1, sets1, s, it, a) = <<>>
      BY <1>2 DEF EntryOf
    <2>2. <<>> \in Seq(E)
      OBVIOUS
    <2> QED
      BY <2>1, <2>2
  <1>3. CASE NextIs(g, it) # {} /\ found # {}
    <2>1. EntryOf(g, an1, sets1, s, it, a) = <<IF g.kind[a] = "term" THEN Shift(t) ELSE Goto(t)>>
      BY <1>3 DEF EntryOf
    <2>2. t \in 0 .. Len(sets1) - 1
      <3>1. (CHOOSE i \in found : TRUE) \in found
        BY <1>3
      <3>2. (CHOOSE i \in found : TRUE) \in 1 .. Len(sets1)
        BY <3>1
      <3>3. Len(sets1) \in Nat
        OBVIOUS
      <3> QED
        BY <3>2, <3>3
    <2> HIDE DEF t
    <2>3. Shift(t) \in E /\ Goto(t) \in E
      BY <2>2 DEF EntryRange
    <2> HIDE DEF E
    <2> QED
      BY <2>1, <2>3 DEF E
  <1> QED
    BY <1>1, <1>2, <1>3

(***************************************************************************)
(* A cell holds what the items concerned with it enter, and nothing else:  *)
(* of the items that enter the same the first one does.                    *)
(***************************************************************************)
LEMMA CellFacts ==
  ASSUME NEW g, InputOK(g), NEW an1, NEW sets1 \in Seq(SUBSET Dotted(g)), NEW s \in DOMAIN sets1,
         NEW a
  PROVE  /\ CellOf(g, an1, sets1, s, a) \in Seq(EntryRange(g, Len(sets1)))
         /\ ToSet(CellOf(g, an1, sets1, s, a))
              = UNION {ToSet(EntryOf(g, an1, sets1, s, it, a)) : it \in Concerned(g, sets1[s], a)}
  <1> DEFINE items == Concerned(g, sets1[s], a)
             L == {i \in items : \A j \in items : SameEntry(g, i, j) => ~Before(j, i)}
             Entry(it) == EntryOf(g, an1, sets1, s, it, a)
             E == EntryRange(g, Len(sets1))
             o == InOrder(L)
             seqs == [n \in DOMAIN o |-> Entry(o[n])]
  <1>1. /\ items \subseteq Items(g) /\ IsFiniteSet(items) /\ items \in SUBSET Triples
        /\ L \subseteq items /\ IsFiniteSet(L) /\ L \in SUBSET Triples
    <2>1. sets1[s] \subseteq Dotted(g)
      OBVIOUS
    <2>2. items \subseteq sets1[s]
      BY DEF Concerned
    <2>3. IsFiniteSet(items)
      BY <2>1, <2>2, ItemsFinite, FS_Subset
    <2>4. L \subseteq items
      OBVIOUS
    <2>5. Dotted(g) \subseteq Items(g)
      BY DEF Dotted
    <2> HIDE DEF L, items
    <2>6. IsFiniteSet(L)
      BY <2>3, <2>4, FS_Subset
    <2> QED
      BY <2>1, <2>2, <2>3, <2>4, <2>5, <2>6, ItemsAreTriples
  <1>2. \A i, j \in items : SameEntry(g, i, j) => Entry(i) = Entry(j)
    BY DEF SameEntry, EntryOf, ProductionOf
  <1>3. ASSUME NEW it \in items
        PROVE  \E i \in L : Entry(i) = Entry(it)
    <2> DEFINE C == {j \in items : SameEntry(g, it, j)}
    <2>1. it \in C
      BY DEF SameEntry
    <2>2. IsFiniteSet(C) /\ C \in SUBSET Triples
      BY <1>1, FS_Subset
    <2>3. PICK i \in C : \A j \in C : ~Before(j, i)
      <3> HIDE DEF C
      <3> QED
        BY <2>1, <2>2, OrderFacts
    <2>4. \A j \in items : SameEntry(g, i, j) => j \in C
      BY <2>3 DEF SameEntry
    <2>5. i \in L
      BY <2>3, <2>4
    <2> QED
      BY <1>2, <2>3, <2>5
  <1>4. /\ Cardinality(L) \in Nat
        /\ o \in [1 .. Cardinality(L) -> L]
        /\ \A it \in L : \E m \in 1 .. Cardinality(L) : o[m] = it
    <2> HIDE DEF L
    <2> QED
      BY <1>1, OrderFacts
  <1>5. \A it \in items : Entry(it) \in Seq(E)
    <2> HIDE DEF items
    <2> QED
      BY <1>1, EntryTyped
  <1>6. CellOf(g, an1, sets1, s, a) = FlattenSeq(seqs)
    BY DEF CellOf
  <1> HIDE DEF items, L, Entry, E, o
  <1>7. seqs \in [1 .. Cardinality(L) -> Seq(E)]
    BY <1>1, <1>4, <1>5
  <1>8. seqs \in Seq(Seq(E)) /\ DOMAIN seqs = 1 .. Cardinality(L)
    BY <1>4, <1>7, FunctionIsSeq
  <1>9. /\ FlattenSeq(seqs) \in Seq(E)
        /\ ToSet(FlattenSeq(seqs)) = UNION {ToSet(seqs[i]) : i \in DOMAIN seqs}
    <2> HIDE DEF seqs
    <2> QED
      BY <1>8, FlattenFacts
  <1>10. \A i \in 1 .. Cardinality(L) : seqs[i] = Entry(o[i]) /\ o[i] \in items
    BY <1>1, <1>4
  <1>11. \A it \in items : \E i \in 1 .. Cardinality(L) : seqs[i] = Entry(it)
    <2> SUFFICES ASSUME NEW it \in items
                 PROVE  \E i \in 1 .. Cardinality(L) : seqs[i] = Entry(it)
      OBVIOUS
    <2>1. PICK j \in L : Entry(j) = Entry(it)
      BY <1>3
    <2>2. PICK m \in 1 .. Cardinality(L) : o[m] = j
      BY <1>4
    <2> HIDE DEF seqs
    <2> QED
      BY <1>10, <2>1, <2>2
  <1>12. UNION {ToSet(seqs[i]) : i \in DOMAIN seqs} = UNION {ToSet(Entry(it)) : it \in items}
    <2> HIDE DEF seqs
    <2>1. \A i \in 1 .. Cardinality(L) : \E it \in items : seqs[i] = Entry(it)
      BY <1>10
    <2>3. {ToSet(seqs[i]) : i \in 1 .. Cardinality(L)} = {ToSet(Entry(it)) : it \in items}
      BY <1>11, <2>1
    <2>4. DOMAIN seqs = 1 .. Cardinality(L)
      BY <1>8
    <2> QED
      BY <2>3, <2>4
  <1> QED
    BY <1>6, <1>9, <1>12 DEF items, Entry, E

-------------------------------------------------------------------------------
(***************************************************************************)
(* The inductive invariant.                                                *)
(***************************************************************************)

TypedRow == [SymbolIds(input) -> Seq(EntryRange(input, Len(sets)))]

Typed ==
  /\ InputOK(input)
  /\ nullable \in SUBSET OfKind(input, "nonterm")
  /\ first \in Firsts(input)
  /\ sets \in Seq(SUBSET Dotted(input))
  /\ scan \in (Nat \ {0}) \X Nat
  /\ rows \in Seq(TypedRow)

Early == {"nullable", "first", "start"}
Late == {"extras", "resolve", "split", "done"}

\* How far each phase has come when it runs.
Phases ==
  /\ stage \in Early \cup {"states", "fill"} \cup Late
  /\ stage \in Early => sets = <<>> /\ scan = <<1, 0>>
  /\ stage \in Early \cup {"states"} => rows = <<>>
  /\ stage \notin Early => sets # <<>>
  /\ stage = "states" => scan[2] < Width
  /\ stage = "fill" => Len(rows) < Len(sets)
  /\ stage \in Late => Len(rows) = Len(sets)
  /\ stage = "resolve" => scan[1] <= Len(rows)
  /\ split = IF stage = "done" THEN SplitRows(rows) ELSE NoSplit

\* A transition that was followed leads to a state of the list, or nowhere.
Followed(s, a) ==
  LRGoto(input, an, sets[s], a) = {} \/ LRGoto(input, an, sets[s], a) \in ToSet(sets)

Explored ==
  /\ IsInjective(sets)
  /\ stage = "states" =>
       \A s \in DOMAIN sets, a \in SymbolIds(input) :
         s < scan[1] \/ (s = scan[1] /\ a < scan[2]) => Followed(s, a)
  /\ stage \in {"fill", "extras"} =>
       /\ \A s \in DOMAIN sets, a \in SymbolIds(input) : Followed(s, a)
       /\ \A s \in DOMAIN rows : rows[s] = FillRow(input, an, sets, s)

\* In a row that was resolved the levels decide nothing any more.
Decided(s) ==
  \A a \in SymbolIds(input) :
    Contested(input, rows[s][a]) =>
      \A e \in ToSet(rows[s][a]) :
        e.op = "reduce" => ~Outranks(e.arg, a) /\ ~Outranked(e.arg, a)

Resolved ==
  /\ stage = "resolve" => \A s \in DOMAIN rows : s < scan[1] => Decided(s)
  /\ stage \in {"split", "done"} => \A s \in DOMAIN rows : Decided(s)

GeneratorInv == Typed /\ Phases /\ Explored /\ Resolved

-------------------------------------------------------------------------------
(***************************************************************************)
(* What one step does to the lists of states and rows.                     *)
(***************************************************************************)

\* A transition leads to a set of items, to an empty one only if no item moves over the symbol.
LEMMA GotoFacts ==
  ASSUME NEW g, InputOK(g), NEW a, a.first \in Firsts(g), NEW items \in SUBSET Dotted(g), NEW x
  PROVE  /\ LRGoto(g, a, items, x) \in SUBSET Dotted(g)
         /\ \A it \in items : x \in NextIs(g, it) => LRGoto(g, a, items, x) # {}
  <1> DEFINE kernel == {<<it[1], it[2] + 1, it[3]>> : it \in {i \in items : x \in NextIs(g, i)}}
  <1>1. ASSUME NEW it \in items, x \in NextIs(g, it)
        PROVE  <<it[1], it[2] + 1, it[3]>> \in Dotted(g)
    <2>1. it \in Items(g)
      BY DEF Dotted
    <2>2. /\ it[1] \in DOMAIN AllProds(g) /\ it[2] \in Nat /\ it[3] \in SymbolIds(g)
          /\ Len(RhsOf(g, it)) \in Nat
      BY <2>1, ItemFacts
    <2>3. it[2] < Len(RhsOf(g, it))
      BY <1>1 DEF NextIs
    <2>4. it[2] + 1 \in Nat /\ it[2] + 1 <= Len(RhsOf(g, it))
      BY <2>2, <2>3
    <2>5. <<it[1], it[2] + 1, it[3]>> \in Items(g)
      BY <2>2, <2>4 DEF Items
    <2>6. RhsOf(g, <<it[1], it[2] + 1, it[3]>>) = RhsOf(g, it)
      BY DEF RhsOf
    <2> QED
      BY <2>4, <2>5, <2>6 DEF Dotted
  <1>2. kernel \in SUBSET Dotted(g)
    BY <1>1
  <1>3. Dotted(g) \subseteq Items(g) /\ Zeros(g) \subseteq Dotted(g)
    BY ItemsFinite DEF Dotted
  <1>4. LRGoto(g, a, items, x) = LRClosure(g, a, kernel)
    BY DEF LRGoto
  <1>5. \A it \in items : x \in NextIs(g, it) => kernel # {}
    OBVIOUS
  <1> HIDE DEF kernel
  <1>6. kernel \subseteq LRClosure(g, a, kernel) /\ LRClosure(g, a, kernel) \subseteq kernel \cup Zeros(g)
    BY <1>2, <1>3, ClosureFacts
  <1> QED
    BY <1>2, <1>3, <1>4, <1>5, <1>6

LEMMA InitialTyped ==
  ASSUME NEW g, InputOK(g), NEW a, a.first \in Firsts(g)
  PROVE  Initial(g, a) \in SUBSET Dotted(g)
  <1>1. <<1, 0, 0>> \in Items(g)
    <2>1. Len(g.prods) \in Nat /\ DOMAIN AllProds(g) = 1 .. Len(g.prods) + 1
      BY ProdFacts
    <2>2. 1 \in DOMAIN AllProds(g) /\ 0 \in SymbolIds(g)
      BY <2>1, SymbolFacts
    <2> QED
      BY <2>2 DEF Items
  <1>2. {<<1, 0, 0>>} \subseteq Zeros(g) /\ {<<1, 0, 0>>} \in SUBSET Items(g)
    BY <1>1 DEF Zeros
  <1>3. LRClosure(g, a, {<<1, 0, 0>>}) \subseteq {<<1, 0, 0>>} \cup Zeros(g)
    BY <1>2, ClosureFacts
  <1> QED
    BY <1>2, <1>3, ItemsFinite DEF Initial

\* A list of states takes in a new one at its end.
LEMMA TargetFacts ==
  ASSUME NEW T, NEW ss \in Seq(T), NEW t \in T, IsInjective(ss)
  PROVE  /\ WithTarget(ss, t) \in Seq(T)
         /\ Len(WithTarget(ss, t)) \in {Len(ss), Len(ss) + 1}
         /\ DOMAIN ss \subseteq DOMAIN WithTarget(ss, t)
         /\ \A s \in DOMAIN ss : WithTarget(ss, t)[s] = ss[s]
         /\ ToSet(ss) \subseteq ToSet(WithTarget(ss, t))
         /\ t = {} \/ t \in ToSet(WithTarget(ss, t))
         /\ IsInjective(WithTarget(ss, t))
  <1>1. CASE t = {} \/ t \in ToSet(ss)
    BY <1>1 DEF WithTarget
  <1>2. CASE ~(t = {} \/ t \in ToSet(ss))
    <2> DEFINE w == WithTarget(ss, t)
    <2>1. w = Append(ss, t)
      BY <1>2 DEF WithTarget
    <2>2. /\ w \in Seq(T)
          /\ Len(ss) \in Nat
          /\ Len(w) = Len(ss) + 1
          /\ w[Len(ss) + 1] = t
          /\ \A i \in 1 .. Len(ss) : w[i] = ss[i]
      BY <2>1, Grown
    <2>3. DOMAIN ss = 1 .. Len(ss) /\ DOMAIN w = 1 .. Len(ss) + 1
      BY <2>2
    <2> HIDE DEF w
    <2>4. ToSet(ss) \subseteq ToSet(w) /\ t \in ToSet(w)
      BY <2>2, <2>3 DEF ToSet
    <2>5. \A i \in DOMAIN ss : ss[i] # t
      BY <1>2 DEF ToSet
    <2>6. \A i, j \in DOMAIN w : w[i] = w[j] => i = j
      <3> SUFFICES ASSUME NEW i \in DOMAIN w, NEW j \in DOMAIN w, w[i] = w[j]
                   PROVE  i = j
        OBVIOUS
      <3>1. \A k \in DOMAIN w : k \in DOMAIN ss \/ k = Len(ss) + 1
        BY <2>2, <2>3
      <3>2. CASE i \in DOMAIN ss /\ j \in DOMAIN ss
        BY <2>2, <2>3, <3>2 DEF IsInjective
      <3>3. CASE i = Len(ss) + 1 /\ j \in DOMAIN ss
        BY <2>2, <2>3, <2>5, <3>3
      <3>4. CASE i \in DOMAIN ss /\ j = Len(ss) + 1
        BY <2>2, <2>3, <2>5, <3>4
      <3> QED
        BY <3>1, <3>2, <3>3, <3>4
    <2> QED
      BY <2>2, <2>3, <2>4, <2>6 DEF w, IsInjective
  <1> QED
    BY <1>1, <1>2

LEMMA FillTyped ==
  ASSUME NEW g, InputOK(g), NEW a, NEW ss \in Seq(SUBSET Dotted(g)), NEW s \in DOMAIN ss
  PROVE  FillRow(g, a, ss, s) \in [SymbolIds(g) -> Seq(EntryRange(g, Len(ss)))]
  <1>1. \A x : CellOf(g, a, ss, s, x) \in Seq(EntryRange(g, Len(ss)))
    BY CellFacts
  <1> QED
    BY <1>1 DEF FillRow

LEMMA ExtrasTyped ==
  ASSUME NEW g, NEW n \in Nat, NEW s \in 1 .. n,
         NEW row \in [SymbolIds(g) -> Seq(EntryRange(g, n))]
  PROVE  WithExtras(g, s, row) \in [SymbolIds(g) -> Seq(EntryRange(g, n))]
  <1>1. Shift(s - 1) \in EntryRange(g, n)
    BY DEF EntryRange
  <1> DEFINE E == EntryRange(g, n)
  <1> HIDE DEF E
  <1>2. \A cell \in Seq(E) : AddAction(cell, Shift(s - 1)) \in Seq(E)
    BY <1>1 DEF AddAction, E
  <1> QED
    BY <1>2 DEF WithExtras, E

LEMMA ResolveTyped ==
  ASSUME NEW g, NEW E, NEW row \in [SymbolIds(g) -> Seq(E)]
  PROVE  ResolveRow(g, row) \in [SymbolIds(g) -> Seq(E)]
  <1>1. \A a \in SymbolIds(g) : row[a] \in Seq(E)
    OBVIOUS
  <1>2. \A a \in SymbolIds(g) : Resolve(g, row[a], a) \in Seq(E)
    BY <1>1, WithoutFacts DEF Resolve
  <1> QED
    BY <1>2 DEF ResolveRow

\* A row typed for a shorter list of states is not needed: rows come after the states.
LEMMA InitGenerator ==
  Init => GeneratorInv
  <1> SUFFICES ASSUME Init
               PROVE  GeneratorInv
    OBVIOUS
  <1>1. InputOK(input)
    BY InputsAssumption DEF Init
  <1>2. OwnFirst(input) \in Firsts(input)
    BY DEF OwnFirst, Firsts, Tokens, OfKind
  <1>3. Typed
    BY <1>1, <1>2 DEF Init, Typed
  <1>4. Phases
    BY DEF Init, Phases, Early, Late
  <1>5. Explored
    BY DEF Init, Explored, IsInjective
  <1>6. Resolved
    BY DEF Init, Resolved
  <1> QED
    BY <1>3, <1>4, <1>5, <1>6 DEF GeneratorInv

LEMMA NextTyped ==
  ASSUME GeneratorInv, Next
  PROVE  Typed'
  <1>1. /\ InputOK(input) /\ nullable \in SUBSET OfKind(input, "nonterm")
        /\ first \in Firsts(input) /\ an.first \in Firsts(input)
        /\ sets \in Seq(SUBSET Dotted(input)) /\ scan \in (Nat \ {0}) \X Nat
        /\ rows \in Seq(TypedRow) /\ IsInjective(sets)
    BY DEF GeneratorInv, Typed, Explored, an
  <1>2. input' = input
    BY DEF Next, FindNullable, FindFirst, StartStates, FollowSymbol, StatesDone, FillParseEntries,
           ShiftExtras, ResolveConflicts, SplitLargeSmall
  <1>3. CASE FindNullable
    BY <1>1, <1>2, <1>3, NullableFacts DEF FindNullable, Typed, TypedRow
  <1>4. CASE FindFirst
    BY <1>1, <1>2, <1>4, FirstFacts DEF FindFirst, Typed, TypedRow
  <1>5. CASE StartStates
    <2>1. Initial(input, an) \in SUBSET Dotted(input)
      BY <1>1, InitialTyped
    <2>2. sets' \in Seq(SUBSET Dotted(input))
      BY <1>5, <2>1 DEF StartStates
    <2>3. rows' = <<>>
      BY <1>5 DEF StartStates, GeneratorInv, Phases, Early
    <2> QED
      BY <1>1, <1>2, <1>5, <2>2, <2>3 DEF StartStates, Typed
  <1>6. CASE FollowSymbol
    <2>1. scan[1] \in DOMAIN sets
      BY <1>1, <1>6 DEF FollowSymbol
    <2>2. LRGoto(input, an, sets[scan[1]], scan[2]) \in SUBSET Dotted(input)
      <3>1. sets[scan[1]] \in SUBSET Dotted(input)
        BY <1>1, <2>1
      <3> QED
        BY <1>1, <3>1, GotoFacts
    <2>3. sets' \in Seq(SUBSET Dotted(input))
      <3>1. sets' = WithTarget(sets, LRGoto(input, an, sets[scan[1]], scan[2]))
        BY <1>6 DEF FollowSymbol
      <3> QED
        BY <1>1, <2>2, <3>1, TargetFacts
    <2>4. rows' = <<>>
      BY <1>6 DEF FollowSymbol, GeneratorInv, Phases
    <2>5. scan' \in (Nat \ {0}) \X Nat
      BY <1>1, <1>6 DEF FollowSymbol
    <2> QED
      BY <1>1, <1>2, <1>6, <2>3, <2>4, <2>5 DEF FollowSymbol, Typed
  <1>7. CASE StatesDone
    BY <1>1, <1>2, <1>7 DEF StatesDone, Typed, TypedRow
  <1>8. CASE FillParseEntries
    <2>1. Len(rows) < Len(sets) /\ Len(rows) \in Nat /\ Len(sets) \in Nat
      BY <1>1, <1>8 DEF FillParseEntries, GeneratorInv, Phases
    <2>2. Len(rows) + 1 \in DOMAIN sets
      BY <1>1, <2>1
    <2>3. FillRow(input, an, sets, Len(rows) + 1) \in TypedRow
      BY <1>1, <2>2, FillTyped DEF TypedRow
    <2>4. rows' \in Seq(TypedRow)
      BY <1>1, <1>8, <2>3 DEF FillParseEntries
    <2>5. TypedRow' = TypedRow
      BY <1>2, <1>8 DEF FillParseEntries, TypedRow
    <2> QED
      BY <1>1, <1>2, <1>8, <2>4, <2>5 DEF FillParseEntries, Typed
  <1>9. CASE ShiftExtras
    <2>1. Len(rows) = Len(sets) /\ Len(rows) \in Nat /\ DOMAIN rows = 1 .. Len(rows)
      BY <1>1, <1>9 DEF ShiftExtras, GeneratorInv, Phases, Late
    <2>2. \A s \in 1 .. Len(rows) : WithExtras(input, s, rows[s]) \in TypedRow
      <3> SUFFICES ASSUME NEW s \in 1 .. Len(rows)
                   PROVE  WithExtras(input, s, rows[s]) \in TypedRow
        OBVIOUS
      <3>1. rows[s] \in TypedRow
        BY <1>1
      <3> QED
        BY <2>1, <3>1, ExtrasTyped DEF TypedRow
    <2>3. rows' \in [1 .. Len(rows) -> TypedRow]
      BY <1>9, <2>1, <2>2 DEF ShiftExtras
    <2>4. rows' \in Seq(TypedRow)
      BY <2>1, <2>3, FunctionIsSeq
    <2>5. TypedRow' = TypedRow
      BY <1>2, <1>9 DEF ShiftExtras, TypedRow
    <2>6. scan' \in (Nat \ {0}) \X Nat
      BY <1>9 DEF ShiftExtras
    <2> QED
      BY <1>1, <1>2, <1>9, <2>4, <2>5, <2>6 DEF ShiftExtras, Typed
  <1>10. CASE ResolveConflicts
    <2>1. /\ Len(rows) \in Nat /\ DOMAIN rows = 1 .. Len(rows)
          /\ scan[1] \in 1 .. Len(rows)
      BY <1>1, <1>10 DEF ResolveConflicts, GeneratorInv, Phases
    <2>2. ResolveRow(input, rows[scan[1]]) \in TypedRow
      <3>1. rows[scan[1]] \in TypedRow
        BY <1>1, <2>1
      <3> QED
        BY <3>1, ResolveTyped DEF TypedRow
    <2>3. rows' = [rows EXCEPT ![scan[1]] = ResolveRow(input, rows[scan[1]])]
      BY <1>10 DEF ResolveConflicts
    <2>4. rows' \in Seq(TypedRow)
      BY <1>1, <2>1, <2>2, <2>3, ExceptSeq
    <2>5. TypedRow' = TypedRow
      BY <1>2, <1>10 DEF ResolveConflicts, TypedRow
    <2>6. scan' \in (Nat \ {0}) \X Nat
      BY <1>1, <1>10 DEF ResolveConflicts
    <2> QED
      BY <1>1, <1>2, <1>10, <2>4, <2>5, <2>6 DEF ResolveConflicts, Typed
  <1>11. CASE SplitLargeSmall
    BY <1>1, <1>2, <1>11 DEF SplitLargeSmall, Typed, TypedRow
  <1> QED
    BY <1>3, <1>4, <1>5, <1>6, <1>7, <1>8, <1>9, <1>10, <1>11 DEF Next

LEMMA NextPhases ==
  ASSUME GeneratorInv, Next
  PROVE  Phases'
  <1>1. /\ InputOK(input) /\ sets \in Seq(SUBSET Dotted(input)) /\ scan \in (Nat \ {0}) \X Nat
        /\ rows \in Seq(TypedRow) /\ Width \in Nat \ {0} /\ Len(rows) \in Nat /\ Len(sets) \in Nat
    BY SymbolFacts DEF GeneratorInv, Typed, Width
  <1>2. Phases
    BY DEF GeneratorInv
  <1>3. CASE FindNullable
    BY <1>2, <1>3 DEF FindNullable, Phases, Early, Late
  <1>4. CASE FindFirst
    BY <1>2, <1>4 DEF FindFirst, Phases, Early, Late
  <1>5. CASE StartStates
    <2>1. sets' # <<>> /\ scan' = <<1, 0>> /\ Width' = Width
      BY <1>2, <1>5 DEF StartStates, Phases, Early, Width
    <2> QED
      BY <1>1, <1>2, <1>5, <2>1 DEF StartStates, Phases, Early, Late
  <1>6. CASE FollowSymbol
    <2>1. Width' = Width
      BY <1>6 DEF FollowSymbol, Width
    <2>2. scan'[2] < Width
      BY <1>1, <1>6 DEF FollowSymbol
    <2>3. sets' # <<>>
      <3>1. sets # <<>>
        BY <1>2, <1>6 DEF FollowSymbol, Phases, Early
      <3> QED
        BY <1>1, <1>6, <3>1 DEF FollowSymbol, WithTarget
    <2> QED
      BY <1>2, <1>6, <2>1, <2>2, <2>3 DEF FollowSymbol, Phases, Early, Late
  <1>7. CASE StatesDone
    <2>1. rows = <<>> /\ sets # <<>>
      BY <1>2, <1>7 DEF StatesDone, Phases, Early
    <2>2. Len(rows) < Len(sets)
      BY <1>1, <2>1
    <2> QED
      BY <1>2, <1>7, <2>2 DEF StatesDone, Phases, Early, Late
  <1>8. CASE FillParseEntries
    <2>1. Len(rows) < Len(sets) /\ Len(rows') = Len(rows) + 1
      BY <1>1, <1>2, <1>8 DEF FillParseEntries, Phases
    <2>2. Len(rows') <= Len(sets) /\ sets' = sets
      BY <1>1, <1>8, <2>1 DEF FillParseEntries
    <2>3. stage' = IF Len(rows') = Len(sets) THEN "extras" ELSE "fill"
      BY <1>8 DEF FillParseEntries
    <2> QED
      BY <1>1, <1>2, <1>8, <2>1, <2>2, <2>3 DEF FillParseEntries, Phases, Early, Late
  <1>9. CASE ShiftExtras
    <2>1. Len(rows) = Len(sets) /\ sets # <<>>
      BY <1>2, <1>9 DEF ShiftExtras, Phases, Late, Early
    <2>2. Len(rows') = Len(rows)
      <3>1. rows' = [s \in 1 .. Len(rows) |-> WithExtras(input, s, rows[s])]
        BY <1>1, <1>9 DEF ShiftExtras
      <3> QED
        BY <1>1, <3>1
    <2>3. scan'[1] = 1 /\ 1 <= Len(rows)
      BY <1>1, <1>9, <2>1 DEF ShiftExtras
    <2> QED
      BY <1>2, <1>9, <2>1, <2>2, <2>3 DEF ShiftExtras, Phases, Early, Late
  <1>10. CASE ResolveConflicts
    <2>1. Len(rows) = Len(sets) /\ sets # <<>> /\ scan[1] <= Len(rows)
      BY <1>2, <1>10 DEF ResolveConflicts, Phases, Late, Early
    <2>2. Len(rows') = Len(rows)
      BY <1>1, <1>10 DEF ResolveConflicts
    <2>3. scan'[1] = scan[1] + 1
      BY <1>10 DEF ResolveConflicts
    <2>4. scan[1] # Len(rows) => scan[1] + 1 <= Len(rows)
      BY <1>1, <2>1
    <2> QED
      BY <1>1, <1>2, <1>10, <2>1, <2>2, <2>3, <2>4 DEF ResolveConflicts, Phases, Early, Late
  <1>11. CASE SplitLargeSmall
    BY <1>2, <1>11 DEF SplitLargeSmall, Phases, Early, Late
  <1> QED
    BY <1>3, <1>4, <1>5, <1>6, <1>7, <1>8, <1>9, <1>10, <1>11 DEF Next

LEMMA NextExplored ==
  ASSUME GeneratorInv, Next
  PROVE  Explored'
  <1>1. /\ InputOK(input) /\ an.first \in Firsts(input)
        /\ sets \in Seq(SUBSET Dotted(input)) /\ scan \in (Nat \ {0}) \X Nat
        /\ rows \in Seq(TypedRow) /\ Width \in Nat \ {0} /\ SymbolIds(input) = 0 .. Width - 1
        /\ Len(rows) \in Nat /\ Len(sets) \in Nat /\ DOMAIN sets = 1 .. Len(sets)
    BY SymbolFacts DEF GeneratorInv, Typed, Width, an
  <1>2. Explored /\ IsInjective(sets)
    BY DEF GeneratorInv, Explored
  <1>3. CASE FindNullable
    BY <1>2, <1>3 DEF FindNullable, Explored
  <1>4. CASE FindFirst
    BY <1>2, <1>4 DEF FindFirst, Explored
  <1>5. CASE StartStates
    <2>1. sets' = <<Initial(input, an)>> /\ stage' = "states" /\ scan' = <<1, 0>>
      BY <1>5 DEF StartStates, GeneratorInv, Phases, Early
    <2>2. DOMAIN sets' = {1} /\ IsInjective(sets')
      BY <2>1 DEF IsInjective
    <2>3. SymbolIds(input)' = SymbolIds(input)
      BY <1>5 DEF StartStates
    <2>4. \A s \in DOMAIN sets', a \in SymbolIds(input) : ~(s < scan'[1] \/ (s = scan'[1] /\ a < scan'[2]))
      BY <1>1, <2>1, <2>2
    <2> QED
      BY <2>1, <2>2, <2>3, <2>4 DEF Explored
  <1>6. CASE FollowSymbol
    <2> DEFINE t == LRGoto(input, an, sets[scan[1]], scan[2])
    <2>1. scan[1] \in DOMAIN sets
      BY <1>1, <1>6 DEF FollowSymbol
    <2>2. t \in SUBSET Dotted(input)
      <3>1. sets[scan[1]] \in SUBSET Dotted(input)
        BY <1>1, <2>1
      <3> QED
        BY <1>1, <3>1, GotoFacts
    <2>3. sets' = WithTarget(sets, t)
      BY <1>6 DEF FollowSymbol
    <2>4. /\ sets' \in Seq(SUBSET Dotted(input))
          /\ Len(sets') \in {Len(sets), Len(sets) + 1}
          /\ \A s \in DOMAIN sets : sets'[s] = sets[s]
          /\ ToSet(sets) \subseteq ToSet(sets')
          /\ t = {} \/ t \in ToSet(sets')
          /\ IsInjective(sets')
      <3> DEFINE T == SUBSET Dotted(input)
      <3>1. IsInjective(sets) /\ sets \in Seq(T) /\ t \in T
        BY <1>1, <1>2, <2>2 DEF Explored
      <3> HIDE DEF t, T
      <3>2. /\ sets' \in Seq(T)
            /\ Len(sets') \in {Len(sets), Len(sets) + 1}
            /\ \A s \in DOMAIN sets : sets'[s] = sets[s]
            /\ ToSet(sets) \subseteq ToSet(sets')
            /\ t = {} \/ t \in ToSet(sets')
            /\ IsInjective(sets')
        BY <2>3, <3>1, TargetFacts
      <3> QED
        BY <3>2 DEF T
    <2>5. /\ input' = input /\ an' = an /\ stage = "states" /\ stage' = "states"
          /\ Width' = Width /\ SymbolIds(input)' = SymbolIds(input)
      BY <1>6 DEF FollowSymbol, an, Width
    <2>6. ASSUME NEW s \in DOMAIN sets, NEW a \in SymbolIds(input),
                 s < scan[1] \/ (s = scan[1] /\ a <= scan[2])
          PROVE  Followed(s, a)'
      <3>1. CASE s = scan[1] /\ a = scan[2]
        <4>1. LRGoto(input, an, sets[s], a) = t
          BY <3>1
        <4>2. LRGoto(input', an', sets'[s], a) = t
          BY <2>4, <2>5, <4>1
        <4> HIDE DEF t
        <4> QED
          BY <2>4, <4>2 DEF Followed
      <3>2. CASE ~(s = scan[1] /\ a = scan[2])
        <4>1. a \in Nat /\ scan[2] \in Nat
          BY <1>1
        <4>2. s < scan[1] \/ (s = scan[1] /\ a < scan[2])
          BY <2>6, <3>2, <4>1
        <4>3. Followed(s, a)
          BY <1>2, <2>5, <4>2 DEF Explored
        <4> QED
          BY <2>4, <2>5, <4>3 DEF Followed
      <3> QED
        BY <3>1, <3>2
    <2>7. ASSUME NEW s \in DOMAIN sets', NEW a \in SymbolIds(input),
                 s < scan'[1] \/ (s = scan'[1] /\ a < scan'[2])
          PROVE  Followed(s, a)'
      <3>1. s \in Nat /\ s >= 1 /\ s <= Len(sets) + 1 /\ a \in 0 .. Width - 1
        BY <1>1, <2>4
      <3>2. CASE scan[2] + 1 < Width
        <4>1. scan' = <<scan[1], scan[2] + 1>>
          BY <1>6, <3>2 DEF FollowSymbol
        <4>2. s < scan[1] \/ (s = scan[1] /\ a <= scan[2])
          BY <1>1, <2>7, <3>1, <4>1
        <4>3. s \in DOMAIN sets
          BY <1>1, <2>1, <3>1, <4>2
        <4> QED
          BY <2>6, <4>2, <4>3
      <3>3. CASE ~(scan[2] + 1 < Width)
        <4>1. scan' = <<scan[1] + 1, 0>>
          BY <1>6, <3>3 DEF FollowSymbol
        <4>2. s <= scan[1] /\ a <= scan[2]
          BY <1>1, <2>7, <3>1, <3>3, <4>1
        <4>3. s \in DOMAIN sets
          BY <1>1, <2>1, <3>1, <4>2
        <4> QED
          BY <1>1, <2>6, <3>1, <4>2, <4>3
      <3> QED
        BY <3>2, <3>3
    <2> QED
      BY <2>4, <2>5, <2>7 DEF Explored
  <1>7. CASE StatesDone
    <2>1. \A s \in DOMAIN sets : s < scan[1]
      BY <1>1, <1>7 DEF StatesDone
    <2>2. \A s \in DOMAIN sets, a \in SymbolIds(input) : Followed(s, a)
      BY <1>2, <1>7, <2>1 DEF StatesDone, Explored
    <2>3. rows = <<>>
      BY <1>7 DEF StatesDone, GeneratorInv, Phases
    <2> QED
      BY <1>2, <1>7, <2>2, <2>3 DEF StatesDone, Explored, Followed, an
  <1>8. CASE FillParseEntries
    <2>1. \A s \in DOMAIN sets, a \in SymbolIds(input) : Followed(s, a)
      BY <1>2, <1>8 DEF FillParseEntries, Explored
    <2>2. \A s \in DOMAIN rows : rows[s] = FillRow(input, an, sets, s)
      BY <1>2, <1>8 DEF FillParseEntries, Explored
    <2>3. /\ sets' = sets /\ input' = input /\ an' = an
          /\ \A s \in DOMAIN sets, a \in SymbolIds(input) : Followed(s, a)' = Followed(s, a)
      BY <1>8 DEF FillParseEntries, an, Followed
    <2>4. \A s \in DOMAIN rows' : rows'[s] = FillRow(input, an, sets, s)
      <3> DEFINE r == FillRow(input, an, sets, Len(rows) + 1)
      <3>1. Len(rows) + 1 \in DOMAIN sets
        <4>1. stage = "fill" /\ Len(rows) < Len(sets)
          BY <1>8 DEF FillParseEntries, GeneratorInv, Phases
        <4>2. Len(rows) \in Nat /\ Len(sets) \in Nat /\ DOMAIN sets = 1 .. Len(sets)
          BY <1>1
        <4> QED
          BY <4>1, <4>2
      <3>2. r \in TypedRow
        BY <1>1, <3>1, FillTyped DEF TypedRow
      <3>3. rows' = Append(rows, r)
        BY <1>8 DEF FillParseEntries
      <3>4. /\ Len(rows') = Len(rows) + 1 /\ rows' \in Seq(TypedRow)
            /\ rows'[Len(rows) + 1] = r
            /\ \A i \in 1 .. Len(rows) : rows'[i] = rows[i]
        <4> HIDE DEF r
        <4> QED
          BY <1>1, <3>2, <3>3, Grown
      <3>5. \A s \in DOMAIN rows' : s \in DOMAIN rows \/ s = Len(rows) + 1
        BY <1>1, <3>4
      <3> SUFFICES ASSUME NEW s \in DOMAIN rows'
                   PROVE  rows'[s] = FillRow(input, an, sets, s)
        OBVIOUS
      <3>6. CASE s \in DOMAIN rows
        <4>1. s \in 1 .. Len(rows) /\ rows[s] = FillRow(input, an, sets, s)
          BY <1>1, <2>2, <3>6
        <4> HIDE DEF r
        <4> QED
          BY <3>4, <4>1
      <3>7. CASE s = Len(rows) + 1
        BY <3>4, <3>7
      <3> QED
        BY <3>5, <3>6, <3>7
    <2> QED
      BY <1>2, <2>1, <2>3, <2>4 DEF Explored
  <1>9. CASE ShiftExtras
    BY <1>2, <1>9 DEF ShiftExtras, Explored
  <1>10. CASE ResolveConflicts
    BY <1>2, <1>10 DEF ResolveConflicts, Explored
  <1>11. CASE SplitLargeSmall
    BY <1>2, <1>11 DEF SplitLargeSmall, Explored
  <1> QED
    BY <1>3, <1>4, <1>5, <1>6, <1>7, <1>8, <1>9, <1>10, <1>11 DEF Next

-------------------------------------------------------------------------------
(***************************************************************************)
(* Conflicts.                                                              *)
(***************************************************************************)

\* A verdict says for each of the two whether the levels let it live.
LEMMA VerdictFacts ==
  ASSUME InputOK(input), NEW p \in DOMAIN input.prods, NEW a \in SymbolIds(input)
  PROVE  /\ Verdict(input, p, a) \in {"reduce", "neither"} <=> Outranks(p, a)
         /\ Verdict(input, p, a) \in {"shift", "neither"} <=> Outranked(p, a)
         /\ Verdict(input, p, a) \in {"reduce", "shift", "neither", "open"}
  <1> DEFINE level == input.prods[p].level
             tokens == TokenLevel(input, a)
             assoc == input.prods[p].assoc
  <1>1. level \subseteq Int /\ \A l, k \in level : l = k
    BY DEF InputOK, RawProductionOK
  <1>2. tokens = {} \/ \E t \in Int : tokens = {t}
    <2> DEFINE named == {i \in DOMAIN input.groups : a \in input.groups[i]}
    <2>1. CASE named = {} \/ input.kind[a] # "term"
      BY <2>1 DEF TokenLevel
    <2>2. CASE ~(named = {} \/ input.kind[a] # "term")
      <3>1. PICK n \in Nat : DOMAIN input.groups = 1 .. n
        BY DEF InputOK
      <3>2. named \in SUBSET (0 .. n) /\ named # {}
        BY <2>2, <3>1
      <3>3. tokens = {Max(named) - 1}
        BY <2>2 DEF TokenLevel
      <3> HIDE DEF named
      <3>4. \E i \in named : \A j \in named : j <= i
        BY <3>2, GreatestExists
      <3>5. \E i \in named : \A j \in named : i >= j
        BY <3>2, <3>4
      <3>6. Max(named) \in named
        BY <3>5 DEF Max
      <3>7. Max(named) \in 0 .. n
        BY <3>2, <3>6
      <3>8. Max(named) - 1 \in Int
        <4> PICK m \in 0 .. n : m = Max(named)
          BY <3>7
        <4> QED
          OBVIOUS
      <3> QED
        BY <3>3, <3>8
    <2> QED
      BY <2>1, <2>2
  <1>3. \A l \in Int : Max({l}) = l
    BY DEF Max
  <1>4. CASE level = {} \/ tokens = {}
    <2>1. Verdict(input, p, a) = "open"
      BY <1>4 DEF Verdict
    <2> QED
      BY <1>4, <2>1 DEF Outranks, Outranked
  <1>5. CASE level # {} /\ tokens # {}
    <2>1. PICK l \in Int : level = {l}
      BY <1>1, <1>5
    <2>2. PICK t \in Int : tokens = {t}
      BY <1>2, <1>5
    <2>3. /\ Outranks(p, a) <=> l > t \/ (l = t /\ assoc \in {"left", "nonassoc"})
          /\ Outranked(p, a) <=> l < t \/ (l = t /\ assoc \in {"right", "nonassoc"})
      BY <2>1, <2>2 DEF Outranks, Outranked
    <2>4. Verdict(input, p, a) =
            IF l > t THEN "reduce" ELSE IF l < t THEN "shift"
            ELSE CASE assoc = "left" -> "reduce"
                   [] assoc = "right" -> "shift"
                   [] assoc = "nonassoc" -> "neither"
                   [] OTHER -> "open"
      <3>1. Max(level) = l /\ Max(tokens) = t
        BY <1>3, <2>1, <2>2
      <3> QED
        BY <1>5, <3>1 DEF Verdict
    <2>5. CASE l > t
      BY <2>3, <2>4, <2>5
    <2>6. CASE l < t
      BY <2>3, <2>4, <2>6
    <2>7. CASE l = t
      <3>1. Verdict(input, p, a) = CASE assoc = "left" -> "reduce"
                                     [] assoc = "right" -> "shift"
                                     [] assoc = "nonassoc" -> "neither"
                                     [] OTHER -> "open"
        BY <2>4, <2>7
      <3>2. assoc = "left" => Verdict(input, p, a) = "reduce"
        BY <3>1
      <3>3. assoc = "right" => Verdict(input, p, a) = "shift"
        BY <3>1
      <3>4. assoc = "nonassoc" => Verdict(input, p, a) = "neither"
        BY <3>1
      <3>5. assoc \notin {"left", "right", "nonassoc"} => Verdict(input, p, a) = "open"
        BY <3>1
      <3> QED
        BY <2>3, <2>7, <3>2, <3>3, <3>4, <3>5
    <2> QED
      BY <2>1, <2>2, <2>5, <2>6, <2>7
  <1> QED
    BY <1>4, <1>5

\* What Resolve takes away has lost to another entry of the cell, and what the levels decide
\* does not stay contested.
LEMMA ResolveFacts ==
  ASSUME InputOK(input), NEW n, NEW cell \in Seq(EntryRange(input, n)), NEW a \in SymbolIds(input)
  PROVE  /\ ToSet(Resolve(input, cell, a)) \subseteq ToSet(cell)
         /\ \A e \in ToSet(cell) \ ToSet(Resolve(input, cell, a)) :
              \/ /\ e.op = "shift"
                 /\ \E r \in ToSet(cell) : r.op = "reduce" /\ Outranks(r.arg, a)
              \/ /\ e.op = "reduce" /\ Outranked(e.arg, a)
                 /\ \E f \in ToSet(cell) : f.op = "shift"
         /\ Contested(input, Resolve(input, cell, a)) =>
              \A e \in ToSet(Resolve(input, cell, a)) :
                e.op = "reduce" => ~Outranks(e.arg, a) /\ ~Outranked(e.arg, a)
  <1> DEFINE r == Resolve(input, cell, a)
             losers == Losers(input, cell, a)
             With(verdicts) ==
               {q \in Places(cell, "reduce") : Verdict(input, cell[q].arg, a) \in verdicts}
             beating == With({"reduce", "neither"})
  <1>1. \A i \in DOMAIN cell : cell[i].op = "reduce" => cell[i].arg \in DOMAIN input.prods
    <2> TAKE i \in DOMAIN cell
    <2>1. cell[i] \in EntryRange(input, n)
      OBVIOUS
    <2> QED
      BY <2>1 DEF EntryRange, Shift, Reduce, Goto, Accept
  <1>2. \A op : Places(cell, op) = {i \in DOMAIN cell : cell[i].op = op}
    BY DEF Places
  <1>3. losers = {q \in With({"shift", "neither"}) : \A b \in beating : q <= b}
                   \cup (IF beating = {} THEN {} ELSE Places(cell, "shift"))
    BY DEF Losers
  <1>4. CASE ~Contested(input, cell)
    <2>1. r = cell
      BY <1>4 DEF Resolve
    <2> QED
      BY <1>4, <2>1
  <1>5. CASE Contested(input, cell)
    <2>1. r = Without(cell, losers)
      BY <1>5 DEF Resolve
    <2>2. r \in Seq(EntryRange(input, n)) /\ ToSet(r) = {cell[i] : i \in DOMAIN cell \ losers}
      BY <2>1, WithoutFacts
    <2>3. /\ \E i \in DOMAIN cell : Places(cell, "shift") = {i}
          /\ Places(cell, "reduce") # {}
      BY <1>5 DEF Contested
    <2>4. \E f \in ToSet(cell) : f.op = "shift"
      BY <1>2, <2>3 DEF ToSet
    <2>5. ASSUME NEW i \in losers
          PROVE  /\ i \in DOMAIN cell
                 /\ \/ /\ cell[i].op = "shift"
                       /\ \E q \in ToSet(cell) : q.op = "reduce" /\ Outranks(q.arg, a)
                    \/ cell[i].op = "reduce" /\ Outranked(cell[i].arg, a)
      <3>1. CASE i \in With({"shift", "neither"})
        <4>1. i \in DOMAIN cell /\ cell[i].op = "reduce"
          BY <1>2, <3>1
        <4>2. Outranked(cell[i].arg, a)
          BY <1>1, <3>1, <4>1, VerdictFacts
        <4> QED
          BY <4>1, <4>2
      <3>2. CASE beating # {} /\ i \in Places(cell, "shift")
        <4>1. PICK q \in beating : TRUE
          BY <3>2
        <4>2. q \in DOMAIN cell /\ cell[q].op = "reduce"
          BY <1>2, <4>1
        <4>3. Outranks(cell[q].arg, a)
          BY <1>1, <4>1, <4>2, VerdictFacts
        <4>4. cell[q] \in ToSet(cell)
          BY <4>2 DEF ToSet
        <4> QED
          BY <1>2, <3>2, <4>2, <4>3, <4>4
      <3> HIDE DEF With, losers
      <3> QED
        BY <1>3, <2>5, <3>1, <3>2
    <2>6. ToSet(r) \subseteq ToSet(cell)
      BY <2>2 DEF ToSet
    <2>7. ASSUME NEW e \in ToSet(cell) \ ToSet(r)
          PROVE  \/ /\ e.op = "shift"
                    /\ \E q \in ToSet(cell) : q.op = "reduce" /\ Outranks(q.arg, a)
                 \/ /\ e.op = "reduce" /\ Outranked(e.arg, a)
                    /\ \E f \in ToSet(cell) : f.op = "shift"
      <3> HIDE DEF r, losers
      <3>1. PICK i \in DOMAIN cell : e = cell[i]
        BY <2>7 DEF ToSet
      <3>2. i \in losers
        BY <2>2, <2>7, <3>1
      <3> QED
        BY <2>4, <2>5, <3>1, <3>2
    <2>8. ASSUME Contested(input, r), NEW e \in ToSet(r), e.op = "reduce"
          PROVE  ~Outranks(e.arg, a) /\ ~Outranked(e.arg, a)
      <3> HIDE DEF r, losers
      <3>1. beating = {}
        <4> SUFFICES ASSUME beating # {}
                     PROVE  FALSE
          OBVIOUS
        <4> HIDE DEF beating
        <4>1. Places(cell, "shift") \subseteq losers
          BY <1>3
        <4>2. PICK k \in DOMAIN r : r[k].op = "shift"
          BY <2>8 DEF Contested, Places
        <4>3. r[k] \in ToSet(r)
          BY DEF ToSet
        <4>4. PICK i \in DOMAIN cell \ losers : r[k] = cell[i]
          BY <2>2, <4>3
        <4>5. i \in Places(cell, "shift")
          BY <1>2, <4>2, <4>4
        <4> QED
          BY <4>1, <4>4, <4>5
      <3>2. PICK i \in DOMAIN cell \ losers : e = cell[i]
        BY <2>2, <2>8
      <3>3. i \notin With({"shift", "neither"})
        BY <1>3, <3>1, <3>2
      <3>4. i \in Places(cell, "reduce")
        BY <1>2, <2>8, <3>2
      <3>5. Verdict(input, cell[i].arg, a) \notin {"shift", "neither", "reduce"}
        BY <3>1, <3>3, <3>4
      <3>6. cell[i].arg \in DOMAIN input.prods
        BY <1>1, <2>8, <3>2
      <3> QED
        BY <3>2, <3>5, <3>6, VerdictFacts
    <2> QED
      BY <2>6, <2>7, <2>8
  <1> QED
    BY <1>4, <1>5

LEMMA NextResolved ==
  ASSUME GeneratorInv, Next
  PROVE  Resolved'
  <1>1. /\ InputOK(input) /\ scan \in (Nat \ {0}) \X Nat /\ rows \in Seq(TypedRow)
        /\ Len(rows) \in Nat /\ DOMAIN rows = 1 .. Len(rows) /\ Resolved
    BY DEF GeneratorInv, Typed
  <1>2. CASE ShiftExtras
    <2>1. scan'[1] = 1 /\ stage' = "resolve" /\ DOMAIN rows' = DOMAIN rows
      BY <1>2 DEF ShiftExtras
    <2> QED
      BY <1>1, <2>1 DEF Resolved
  <1>3. CASE ResolveConflicts
    <2>1. /\ scan[1] \in DOMAIN rows /\ stage = "resolve" /\ scan'[1] = scan[1] + 1
          /\ input' = input /\ DOMAIN rows' = DOMAIN rows
          /\ rows'[scan[1]] = ResolveRow(input, rows[scan[1]])
          /\ \A s \in DOMAIN rows : s # scan[1] => rows'[s] = rows[s]
          /\ stage' = IF scan[1] = Len(rows) THEN "split" ELSE "resolve"
      BY <1>1, <1>3 DEF ResolveConflicts, GeneratorInv, Phases
    <2>2. PICK k : k = scan[1]
      OBVIOUS
    <2>3. k \in DOMAIN rows /\ k \in Nat /\ DOMAIN rows' = DOMAIN rows
      BY <1>1, <2>1, <2>2
    <2>4. \A p, a : (Outranks(p, a)' <=> Outranks(p, a)) /\ (Outranked(p, a)' <=> Outranked(p, a))
      BY <2>1 DEF Outranks, Outranked
    <2>5. ASSUME NEW s \in DOMAIN rows,
                 \A a \in SymbolIds(input) :
                   Contested(input, rows'[s][a]) =>
                     \A e \in ToSet(rows'[s][a]) :
                       e.op = "reduce" => ~Outranks(e.arg, a) /\ ~Outranked(e.arg, a)
          PROVE  Decided(s)'
      BY <2>1, <2>4, <2>5 DEF Decided
    <2>6. Decided(k)'
      <3> SUFFICES ASSUME NEW a \in SymbolIds(input)
                   PROVE  Contested(input, rows'[k][a]) =>
                            \A e \in ToSet(rows'[k][a]) :
                              e.op = "reduce" => ~Outranks(e.arg, a) /\ ~Outranked(e.arg, a)
        BY <2>3, <2>5
      <3>1. rows[k] \in TypedRow
        BY <1>1, <2>3
      <3>2. rows[k][a] \in Seq(EntryRange(input, Len(sets)))
        BY <3>1 DEF TypedRow
      <3>3. rows'[k][a] = Resolve(input, rows[k][a], a)
        BY <2>1, <2>2, <3>1 DEF ResolveRow, TypedRow
      <3> QED
        BY <1>1, <3>2, <3>3, ResolveFacts
    <2>7. \A s \in DOMAIN rows : s < k => Decided(s)'
      <3> SUFFICES ASSUME NEW s \in DOMAIN rows, s < k
                   PROVE  Decided(s)'
        OBVIOUS
      <3>1. rows'[s] = rows[s] /\ Decided(s)
        BY <1>1, <2>1, <2>2, <2>3 DEF Resolved
      <3> QED
        BY <2>5, <3>1 DEF Decided
    <2>8. \A s \in DOMAIN rows : s < k + 1 => Decided(s)'
      BY <1>1, <2>3, <2>6, <2>7
    <2>9. /\ stage' = "resolve" => scan'[1] = k + 1
          /\ stage' = "split" => k = Len(rows)
          /\ stage' \in {"resolve", "split"}
      BY <1>1, <2>1, <2>2
    <2>10. \A s \in DOMAIN rows' :
             (stage' = "resolve" => s < scan'[1]) /\ stage' \in {"resolve", "split", "done"} => Decided(s)'
      BY <1>1, <2>3, <2>8, <2>9
    <2> QED
      BY <2>10 DEF Resolved
  <1>4. CASE SplitLargeSmall
    BY <1>1, <1>4 DEF SplitLargeSmall, Resolved, Decided, Outranks, Outranked
  <1>5. CASE ~(ShiftExtras \/ ResolveConflicts \/ SplitLargeSmall)
    <2>1. stage' \notin {"resolve", "split", "done"}
      BY <1>5 DEF Next, FindNullable, FindFirst, StartStates, FollowSymbol, StatesDone,
                  FillParseEntries
    <2> QED
      BY <2>1 DEF Resolved
  <1> QED
    BY <1>2, <1>3, <1>4, <1>5

LEMMA StutterGenerator ==
  ASSUME GeneratorInv, UNCHANGED vars
  PROVE  GeneratorInv'
  BY DEF GeneratorInv, Typed, TypedRow, Phases, Explored, Followed, Resolved, Decided, Outranks,
         Outranked, an, Width, vars

(***************************************************************************)
(* Each phase of the generator keeps what the next one takes for granted.  *)
(***************************************************************************)
THEOREM GeneratorInductive == Spec => []GeneratorInv
  <1>1. GeneratorInv /\ [Next]_vars => GeneratorInv'
    <2>1. GeneratorInv /\ Next => GeneratorInv'
      BY NextTyped, NextPhases, NextExplored, NextResolved DEF GeneratorInv
    <2> QED
      BY <2>1, StutterGenerator
  <1> QED
    BY <1>1, InitGenerator, PTL DEF Spec


-------------------------------------------------------------------------------
(***************************************************************************)
(* What the promises of the generator follow from.                         *)
(***************************************************************************)

LEMMA EntriesTyped ==
  ASSUME NEW g, InputOK(g), NEW n \in Nat, NEW e \in EntryRange(g, n)
  PROVE  /\ e \in [op : {"shift", "goto", "reduce", "accept"}, arg : Nat]
         /\ e.op \in {"shift", "goto"} => e.arg < n
         /\ e.op = "reduce" => e.arg \in DOMAIN g.prods
  <1>1. CASE \E t \in 0 .. n - 1 : e = Shift(t) \/ e = Goto(t)
    <2> PICK t \in 0 .. n - 1 : e = Shift(t) \/ e = Goto(t)
      BY <1>1
    <2>1. t \in Nat /\ t < n
      OBVIOUS
    <2> QED
      BY <2>1 DEF Shift, Goto
  <1>2. CASE \E p \in DOMAIN g.prods : e = Reduce(p)
    <2> PICK p \in DOMAIN g.prods : e = Reduce(p)
      BY <1>2
    <2>1. p \in Nat
      <3>1. Len(g.prods) \in Nat /\ DOMAIN g.prods = 1 .. Len(g.prods)
        BY ProdFacts
      <3> QED
        BY <3>1
    <2> QED
      BY <2>1 DEF Reduce
  <1>3. CASE e = Accept
    BY <1>3 DEF Accept
  <1> QED
    BY <1>1, <1>2, <1>3 DEF EntryRange

\* Some rows, without some of them, and the count of the large ones.
LEMMA SplitTyped ==
  ASSUME NEW T, NEW r \in Seq(T)
  PROVE  /\ SplitRows(r).large \in Seq(T)
         /\ SplitRows(r).small \in Seq(T)
         /\ SplitRows(r).count \in 0 .. Len(r)
  <1> DEFINE large == {s \in DOMAIN r : IsLarge(r[s])}
             small == {s \in DOMAIN r : IsSmall(r[s])}
  <1>1. Len(r) \in Nat /\ DOMAIN r = 1 .. Len(r)
    OBVIOUS
  <1>2. SplitRows(r) = [count |-> LargeCount(r), large |-> Without(r, small),
                        small |-> Without(r, DOMAIN r \ small)]
    BY DEF SplitRows
  <1>3. LargeCount(r) \in 0 .. Len(r)
    <2>1. CASE large = {}
      BY <1>1, <2>1 DEF LargeCount
    <2>2. CASE large # {}
      <3>1. LargeCount(r) = Max(large)
        BY <2>2 DEF LargeCount
      <3>2. large \in SUBSET (0 .. Len(r))
        BY <1>1
      <3> HIDE DEF large
      <3>3. \E i \in large : \A j \in large : j <= i
        BY <1>1, <2>2, <3>2, GreatestExists
      <3>4. \E i \in large : \A j \in large : i >= j
        BY <1>1, <3>2, <3>3
      <3>5. Max(large) \in large
        BY <3>4 DEF Max
      <3> QED
        BY <3>1, <3>2, <3>5
    <2> QED
      BY <2>1, <2>2
  <1>4. Without(r, small) \in Seq(T) /\ Without(r, DOMAIN r \ small) \in Seq(T)
    <2> HIDE DEF small
    <2> QED
      BY WithoutFacts
  <1> QED
    BY <1>2, <1>3, <1>4

(***************************************************************************)
(* Whatever the productions, every entry names a row or a production that  *)
(* there is.                                                               *)
(***************************************************************************)
THEOREM TableTyped == Spec => []TableTypeOK
  <1>1. GeneratorInv => TableTypeOK
    <2> SUFFICES ASSUME GeneratorInv
                 PROVE  TableTypeOK
      OBVIOUS
    <2>1. Typed /\ Phases
      BY DEF GeneratorInv
    <2>2. /\ stage \in {"uncalled", "nullable", "first", "start", "states", "fill", "extras", "resolve", "split", "done"}
          /\ nullable \subseteq OfKind(input, "nonterm")
          /\ first \in [SymbolIds(input) -> SUBSET (SymbolIds(input) \ OfKind(input, "nonterm"))]
          /\ scan \in (Nat \ {0}) \X Nat
      BY <2>1 DEF Typed, Phases, Early, Late, Firsts, Tokens
    <2>3. sets \in Seq(SUBSET Items(input)) /\ Len(sets) \in Nat
      <3>1. Dotted(input) \subseteq Items(input)
        BY DEF Dotted
      <3>2. sets \in Seq(SUBSET Dotted(input))
        BY <2>1 DEF Typed
      <3> QED
        BY <3>1, <3>2
    <2>4. TypedRow \subseteq Row
      <3> DEFINE E == EntryRange(input, Len(sets))
                 R == [op : {"shift", "goto", "reduce", "accept"}, arg : Nat]
      <3>1. E \subseteq R
        BY <2>1, <2>3, EntriesTyped DEF Typed
      <3> HIDE DEF E, R
      <3>2. Seq(E) \subseteq Seq(R)
        BY <3>1
      <3>3. [SymbolIds(input) -> Seq(E)] \subseteq [SymbolIds(input) -> Seq(R)]
        BY <3>2
      <3> QED
        BY <3>3 DEF TypedRow, Row, E, R
    <2>5. rows \in Seq(Row)
      <3>1. rows \in Seq(TypedRow)
        BY <2>1 DEF Typed
      <3> QED
        BY <2>4, <3>1
    <2>6. ASSUME NEW s \in DOMAIN rows, NEW a \in SymbolIds(input), NEW e \in ToSet(rows[s][a])
          PROVE  /\ e.op \in {"shift", "goto"} => e.arg < Len(sets)
                 /\ e.op = "reduce" => e.arg \in DOMAIN input.prods
      <3>1. rows[s] \in TypedRow
        BY <2>1 DEF Typed
      <3>2. rows[s][a] \in Seq(EntryRange(input, Len(sets)))
        BY <3>1 DEF TypedRow
      <3>3. e \in EntryRange(input, Len(sets))
        BY <3>2 DEF ToSet
      <3> QED
        BY <2>1, <2>3, <3>3, EntriesTyped DEF Typed
    <2>7. split.large \in Seq(Row) /\ split.small \in Seq(Row) /\ split.count \in 0 .. Len(rows)
      <3>1. CASE split = NoSplit
        <4>1. Len(rows) \in Nat
          BY <2>5
        <4>2. split.large = <<>> /\ split.small = <<>> /\ split.count = 0
          BY <3>1 DEF NoSplit
        <4> HIDE DEF Row
        <4> QED
          BY <4>1, <4>2
      <3>2. CASE split = SplitRows(rows)
        <4> HIDE DEF Row
        <4> QED
          BY <2>5, <3>2, SplitTyped
      <3> QED
        BY <2>1, <3>1, <3>2 DEF Phases
    <2> QED
      BY <2>2, <2>3, <2>5, <2>6, <2>7 DEF TableTypeOK
  <1> QED
    BY <1>1, GeneratorInductive, PTL

(***************************************************************************)
(* Precedence decides every conflict it can, for every grammar.            *)
(***************************************************************************)
THEOREM Decides == Spec => []ConflictsDecided
  <1>1. GeneratorInv => ConflictsDecided
    BY DEF GeneratorInv, Resolved, Decided, ConflictsDecided
  <1> QED
    BY <1>1, GeneratorInductive, PTL

(***************************************************************************)
(* Only an action that loses to another one of its cell is taken away, for *)
(* every grammar.                                                          *)
(***************************************************************************)
THEOREM LosersGo == Spec => OnlyLosersGo
  <1> DEFINE Kept(s, a) ==
               LET gone == ToSet(rows[s][a]) \ ToSet(rows'[s][a])
                   reductions == {e \in ToSet(rows[s][a]) : e.op = "reduce"}
               IN /\ \A e \in gone :
                       \/ e.op = "shift" /\ \E r \in reductions : Outranks(r.arg, a)
                       \/ /\ e.op = "reduce" /\ Outranked(e.arg, a)
                          /\ \E f \in ToSet(rows[s][a]) : f.op = "shift"
                  /\ ToSet(rows'[s][a]) \subseteq ToSet(rows[s][a])
             Loses == stage = "resolve" =>
                        \A s \in DOMAIN rows, a \in SymbolIds(input) : Kept(s, a)
  <1>1. GeneratorInv /\ [Next]_vars => [Loses]_vars
    <2> SUFFICES ASSUME GeneratorInv, Next, stage = "resolve",
                        NEW s \in DOMAIN rows, NEW a \in SymbolIds(input)
                 PROVE  Kept(s, a)
      OBVIOUS
    <2>1. ResolveConflicts
      BY DEF Next, FindNullable, FindFirst, StartStates, FollowSymbol, StatesDone,
             FillParseEntries, ShiftExtras, SplitLargeSmall
    <2>2. InputOK(input) /\ rows \in Seq(TypedRow)
      BY DEF GeneratorInv, Typed
    <2>3. rows[s] \in TypedRow
      BY <2>2
    <2>4. rows[s][a] \in Seq(EntryRange(input, Len(sets)))
      BY <2>3 DEF TypedRow
    <2>5. rows' = [rows EXCEPT ![scan[1]] = ResolveRow(input, rows[scan[1]])]
      BY <2>1 DEF ResolveConflicts
    <2>6. CASE s = scan[1]
      <3>1. rows'[s][a] = Resolve(input, rows[s][a], a)
        BY <2>3, <2>5, <2>6 DEF ResolveRow, TypedRow
      <3> QED
        BY <2>2, <2>4, <3>1, ResolveFacts
    <2>7. CASE s # scan[1]
      <3>1. rows'[s] = rows[s]
        BY <2>5, <2>7
      <3> QED
        BY <3>1
    <2> QED
      BY <2>6, <2>7
  <1> QED
    BY <1>1, GeneratorInductive, PTL DEF Spec, OnlyLosersGo

(***************************************************************************)
(* No transition is dropped or entered twice, for every grammar.           *)
(***************************************************************************)
THEOREM Entered == Spec => []MovesEntered
  <1>1. GeneratorInv => MovesEntered
    <2> SUFFICES ASSUME GeneratorInv, stage = "extras"
                 PROVE  MovesEntered
      BY DEF MovesEntered
    <2>1. /\ InputOK(input) /\ an.first \in Firsts(input)
          /\ sets \in Seq(SUBSET Dotted(input)) /\ IsInjective(sets)
          /\ DOMAIN rows = DOMAIN sets
          /\ \A s \in DOMAIN sets, a \in SymbolIds(input) : Followed(s, a)
          /\ \A s \in DOMAIN rows : rows[s] = FillRow(input, an, sets, s)
      <3>1. rows \in Seq(TypedRow) /\ sets \in Seq(SUBSET Dotted(input)) /\ Len(rows) = Len(sets)
        BY DEF GeneratorInv, Typed, Phases, Late
      <3>2. DOMAIN rows = DOMAIN sets
        BY <3>1
      <3> QED
        BY <3>1, <3>2 DEF GeneratorInv, Typed, Explored, an
    <2>2. SUFFICES ASSUME NEW s \in DOMAIN sets, NEW it \in sets[s], NEW a \in NextIs(input, it)
                   PROVE  \E t \in DOMAIN sets :
                            /\ {e \in ToSet(rows[s][a]) : e.op \in {"shift", "goto"}}
                                 = {IF input.kind[a] = "term" THEN Shift(t - 1) ELSE Goto(t - 1)}
                            /\ LRGoto(input, an, sets[s], a) = sets[t]
      BY <2>1 DEF MovesEntered
    <2> DEFINE target == LRGoto(input, an, sets[s], a)
               cell == rows[s][a]
               Entry(i) == EntryOf(input, an, sets, s, i, a)
               items == Concerned(input, sets[s], a)
    <2>3. sets[s] \in SUBSET Dotted(input) /\ it \in Items(input)
      BY <2>1 DEF Dotted
    <2>4. a \in SymbolIds(input) /\ NextIs(input, it) = {a}
      <3>1. RhsOf(input, it) \in Seq(SymbolIds(input)) /\ it[2] \in Nat
        BY <2>1, <2>3, ItemFacts
      <3>2. it[2] < Len(RhsOf(input, it)) /\ NextIs(input, it) = {RhsOf(input, it)[it[2] + 1]}
        BY DEF NextIs
      <3>3. it[2] + 1 \in 1 .. Len(RhsOf(input, it))
        BY <3>1, <3>2
      <3>4. RhsOf(input, it)[it[2] + 1] \in SymbolIds(input)
        BY <3>1, <3>3
      <3> QED
        BY <3>2, <3>4
    <2>5. target # {}
      <3> HIDE DEF target
      <3> QED
        BY <2>1, <2>3, GotoFacts DEF target
    <2>6. PICK t \in DOMAIN sets : sets[t] = target
      <3>1. target \in ToSet(sets)
        BY <2>1, <2>4, <2>5 DEF Followed
      <3> HIDE DEF target
      <3> QED
        BY <3>1 DEF ToSet
    <2> DEFINE move == IF input.kind[a] = "term" THEN Shift(t - 1) ELSE Goto(t - 1)
               found == {i \in DOMAIN sets : sets[i] = LRGoto(input, an, sets[s], a)}
    <2>7. found = {t}
      <3>1. \A i \in DOMAIN sets : sets[i] = sets[t] => i = t
        BY <2>1 DEF IsInjective
      <3> QED
        BY <2>6, <3>1
    <2>8. (CHOOSE i \in found : TRUE) = t
      <3> HIDE DEF found
      <3> QED
        BY <2>7
    <2>9. \A i : NextIs(input, i) # {} => Entry(i) = <<move>>
      BY <2>7, <2>8 DEF EntryOf
    <2>10. \A i : NextIs(input, i) = {} =>
                    Entry(i) = <<IF i[1] = 1 THEN Accept ELSE Reduce(ProductionOf(i))>>
      BY DEF EntryOf
    <2>11. ToSet(cell) = UNION {ToSet(Entry(i)) : i \in items}
      <3>1. cell = CellOf(input, an, sets, s, a)
        BY <2>1, <2>4 DEF FillRow
      <3> QED
        BY <2>1, <3>1, CellFacts
    <2>12. it \in items
      BY <2>4 DEF Concerned
    <2>13. \A x : ToSet(<<x>>) = {x}
      BY DEF ToSet
    <2> HIDE DEF target, cell, Entry, items, move, found
    <2>14. move \in ToSet(cell)
      <3>1. ToSet(Entry(it)) = {move}
        BY <2>4, <2>9, <2>13
      <3> QED
        BY <2>11, <2>12, <3>1
    <2>15. move.op \in {"shift", "goto"}
      BY DEF move, Shift, Goto
    <2>16. ASSUME NEW e \in ToSet(cell), e.op \in {"shift", "goto"}
           PROVE  e = move
      <3>1. PICK i \in items : e \in ToSet(Entry(i))
        BY <2>11
      <3>2. CASE NextIs(input, i) # {}
        <4>1. ToSet(Entry(i)) = {move}
          BY <2>9, <2>13, <3>2
        <4> QED
          BY <3>1, <4>1
      <3>3. CASE NextIs(input, i) = {}
        <4>1. e = IF i[1] = 1 THEN Accept ELSE Reduce(ProductionOf(i))
          BY <2>10, <2>13, <3>1, <3>3
        <4>2. e.op \in {"accept", "reduce"}
          BY <4>1 DEF Accept, Reduce
        <4> QED
          BY <2>16, <4>2
      <3> QED
        BY <3>2, <3>3
    <2>17. {e \in ToSet(cell) : e.op \in {"shift", "goto"}} = {move}
      BY <2>14, <2>15, <2>16
    <2> QED
      BY <2>6, <2>17 DEF target, cell, move
  <1> QED
    BY <1>1, GeneratorInductive, PTL

\* A row has a number of cells that are no errors; if it is none, all are errors.
LEMMA NonErrorFacts ==
  ASSUME InputOK(input), NEW row \in TypedRow
  PROVE  /\ NonError(row) \in Nat
         /\ ~IsLarge(row) /\ ~IsSmall(row) => \A a \in SymbolIds(input) : row[a] = <<>>
         /\ ~(IsLarge(row) /\ IsSmall(row))
  <1> DEFINE full == {a \in DOMAIN row : row[a] # <<>>}
  <1>1. DOMAIN row = SymbolIds(input)
    BY DEF TypedRow
  <1>2. full \subseteq SymbolIds(input)
    BY <1>1
  <1>3. IsFiniteSet(full) /\ NonError(row) = Cardinality(full)
    <2>1. IsFiniteSet(SymbolIds(input))
      BY SymbolFacts
    <2> QED
      BY <1>2, <2>1, FS_Subset DEF NonError
  <1>4. NonError(row) \in Nat
    <2> HIDE DEF full
    <2> QED
      BY <1>3, FS_CardinalityType
  <1>5. NonError(row) = 0 => full = {}
    <2> HIDE DEF full
    <2> QED
      BY <1>3, FS_EmptySet
  <1>6. ~IsLarge(row) /\ ~IsSmall(row) => NonError(row) = 0
    BY <1>4, ThresholdAssumption DEF IsLarge, IsSmall
  <1>7. ~(IsLarge(row) /\ IsSmall(row))
    BY <1>4, ThresholdAssumption DEF IsLarge, IsSmall
  <1> QED
    BY <1>1, <1>4, <1>5, <1>6, <1>7

(***************************************************************************)
(* Lookup serves every table whose large rows come first, and every table  *)
(* without small rows, for every grammar and every threshold.              *)
(***************************************************************************)
THEOREM Serves == Spec => []SplitServes
  <1>1. GeneratorInv => SplitServes
    <2> SUFFICES ASSUME GeneratorInv, stage = "done",
                        Arranged \/ \A s \in DOMAIN rows : ~IsSmall(rows[s])
                 PROVE  LookupAgrees
      BY DEF SplitServes
    <2> DEFINE large == {s \in DOMAIN rows : IsLarge(rows[s])}
               small == {s \in DOMAIN rows : IsSmall(rows[s])}
    <2>1. /\ InputOK(input) /\ rows \in Seq(TypedRow)
          /\ Len(rows) \in Nat /\ DOMAIN rows = 1 .. Len(rows)
      BY DEF GeneratorInv, Typed
    <2>2. /\ split.count = IF large = {} THEN Len(rows) ELSE Max(large)
          /\ split.large = Without(rows, small)
          /\ split.small = Without(rows, DOMAIN rows \ small)
      BY DEF GeneratorInv, Phases, SplitRows, LargeCount
    <2>3. \A s \in DOMAIN rows : rows[s] \in TypedRow
      BY <2>1
    <2>4. CASE Arranged
      <3>1. PICK n \in 1 .. Len(rows) :
                   \A s \in DOMAIN rows : IF s <= n THEN IsLarge(rows[s]) ELSE IsSmall(rows[s])
        BY <2>4 DEF Arranged
      <3>2. \A s \in DOMAIN rows : (s \in large <=> s <= n) /\ (s \in small <=> s > n)
        BY <2>1, <2>3, <3>1, NonErrorFacts
      <3>3. split.count = n
        <4>1. large = 1 .. n
          BY <2>1, <3>2
        <4> HIDE DEF large
        <4>2. Max(large) = n
          BY <4>1 DEF Max
        <4> QED
          BY <2>2, <4>1, <4>2
      <3> HIDE DEF small
      <3>4. Len(split.large) = n /\ \A i \in 1 .. n : split.large[i] = rows[i]
        BY <2>1, <2>2, <3>2, WithoutEnd
      <3>5. /\ Len(split.small) = Len(rows) - n
            /\ \A i \in 1 .. Len(rows) - n : split.small[i] = rows[n + i]
        <4> DEFINE places == DOMAIN rows \ small
        <4>1. \A i \in DOMAIN rows : i \in places <=> i <= n
          BY <2>1, <3>2
        <4>2. n \in 0 .. Len(rows) /\ split.small = Without(rows, places)
          BY <2>1, <2>2
        <4> HIDE DEF places
        <4>3. /\ Len(Without(rows, places)) = Len(rows) - n
              /\ \A i \in 1 .. Len(rows) - n : Without(rows, places)[i] = rows[n + i]
          <5> DEFINE T == TypedRow
          <5>1. rows \in Seq(T)
            BY <2>1
          <5> HIDE DEF T
          <5> QED
            BY <4>1, <4>2, <5>1, WithoutBeginning
        <4> QED
          BY <4>2, <4>3
      <3>6. split.large \in Seq(TypedRow) /\ split.small \in Seq(TypedRow)
        BY <2>1, <2>2, WithoutFacts
      <3> SUFFICES ASSUME NEW s \in DOMAIN rows, NEW a \in SymbolIds(input)
                   PROVE  SplitLookup(split, s - 1, a) = rows[s][a]
        BY DEF LookupAgrees
      <3>7. CASE s <= n
        <4>1. s - 1 < split.count /\ (s - 1) + 1 = s
          BY <2>1, <3>3, <3>7
        <4>2. s \in DOMAIN split.large /\ split.large[s] = rows[s]
          BY <2>1, <3>4, <3>6, <3>7
        <4> QED
          BY <4>1, <4>2 DEF SplitLookup
      <3>8. CASE ~(s <= n)
        <4>1. ~(s - 1 < split.count) /\ (s - 1) - split.count + 1 = s - n
          BY <2>1, <3>3, <3>8
        <4>2. s - n \in 1 .. Len(rows) - n /\ n + (s - n) = s
          BY <2>1, <3>8
        <4>3. s - n \in DOMAIN split.small /\ split.small[s - n] = rows[s]
          <5>1. DOMAIN split.small = 1 .. Len(rows) - n
            BY <3>5, <3>6
          <5>2. split.small[s - n] = rows[n + (s - n)]
            BY <3>5, <4>2
          <5> QED
            BY <4>2, <5>1, <5>2
        <4> QED
          BY <4>1, <4>3 DEF SplitLookup
      <3> QED
        BY <3>7, <3>8
    <2>5. CASE \A s \in DOMAIN rows : ~IsSmall(rows[s])
      <3>1. small = {}
        BY <2>5
      <3> DEFINE n == Len(rows)
      <3>2. Len(split.large) = n /\ \A i \in 1 .. n : split.large[i] = rows[i]
        <4>1. \A i \in DOMAIN rows : i \in {} <=> i > n
          BY <2>1
        <4>2. n \in 0 .. Len(rows) /\ split.large = Without(rows, {})
          <5> HIDE DEF small
          <5> QED
            BY <2>1, <2>2, <3>1
        <4> QED
          BY <2>1, <4>1, <4>2, WithoutEnd
      <3>3. Len(split.small) = 0
        <4>1. \A i \in DOMAIN rows : i \in DOMAIN rows <=> i <= n
          BY <2>1
        <4>2. n \in 0 .. Len(rows) /\ split.small = Without(rows, DOMAIN rows)
          <5>1. DOMAIN rows \ small = DOMAIN rows
            BY <3>1
          <5>2. n \in 0 .. Len(rows)
            BY <2>1
          <5> HIDE DEF small, n
          <5>3. split.small = Without(rows, DOMAIN rows)
            BY <2>2, <5>1
          <5> QED
            BY <5>2, <5>3
        <4>3. Len(split.small) = Len(rows) - n
          BY <2>1, <4>1, <4>2, WithoutBeginning
        <4> QED
          BY <2>1, <4>3
      <3> HIDE DEF small, n
      <3>4. split.large \in Seq(TypedRow) /\ split.small \in Seq(TypedRow)
        BY <2>1, <2>2, WithoutFacts
      <3>5. split.count \in Nat /\ \A s \in DOMAIN rows : s > split.count => ~IsLarge(rows[s])
        <4>1. CASE large = {}
          BY <2>1, <2>2, <4>1
        <4>2. CASE large # {}
          <5>1. large \in SUBSET (0 .. Len(rows))
            BY <2>1
          <5>2. \A s \in DOMAIN rows : IsLarge(rows[s]) => s \in large
            OBVIOUS
          <5> HIDE DEF large
          <5>3. \E i \in large : \A j \in large : j <= i
            BY <2>1, <4>2, <5>1, GreatestExists
          <5>4. \E i \in large : \A j \in large : i >= j
            BY <2>1, <5>1, <5>3
          <5>5. Max(large) \in large /\ \A j \in large : Max(large) >= j
            BY <5>4 DEF Max
          <5>6. split.count = Max(large)
            BY <2>2, <4>2
          <5>7. Max(large) \in Nat
            <6>1. Max(large) \in 0 .. Len(rows)
              BY <5>1, <5>5
            <6> PICK m \in 0 .. Len(rows) : m = Max(large)
              BY <6>1
            <6> QED
              BY <2>1
          <5>8. ASSUME NEW s \in DOMAIN rows, s > Max(large)
                PROVE  ~IsLarge(rows[s])
            <6>1. s \in Nat /\ (s \in large => Max(large) >= s)
              BY <2>1, <5>5
            <6>2. s \notin large
              BY <5>7, <5>8, <6>1
            <6> QED
              BY <5>2, <6>2
          <5> QED
            BY <5>6, <5>7, <5>8
        <4> QED
          BY <4>1, <4>2
      <3> SUFFICES ASSUME NEW s \in DOMAIN rows, NEW a \in SymbolIds(input)
                   PROVE  SplitLookup(split, s - 1, a) = rows[s][a]
        BY DEF LookupAgrees
      <3>6. CASE s <= split.count
        <4>1. s - 1 < split.count /\ (s - 1) + 1 = s
          BY <2>1, <3>5, <3>6
        <4>2. s \in DOMAIN split.large /\ split.large[s] = rows[s]
          BY <2>1, <3>2, <3>4 DEF n
        <4> QED
          BY <4>1, <4>2 DEF SplitLookup
      <3>7. CASE ~(s <= split.count)
        <4>1. ~(s - 1 < split.count) /\ s > split.count
          BY <2>1, <3>5, <3>7
        <4>2. DOMAIN split.small = {}
          BY <3>3, <3>4
        <4>3. SplitLookup(split, s - 1, a) = <<>>
          BY <4>1, <4>2 DEF SplitLookup
        <4>4. ~IsLarge(rows[s]) /\ ~IsSmall(rows[s])
          BY <2>5, <3>5, <4>1
        <4>5. rows[s][a] = <<>>
          BY <2>1, <2>3, <4>4, NonErrorFacts
        <4> QED
          BY <4>3, <4>5
      <3> QED
        BY <3>6, <3>7
    <2> QED
      BY <2>4, <2>5
  <1> QED
    BY <1>1, GeneratorInductive, PTL

-------------------------------------------------------------------------------
(***************************************************************************)
(* Nullable and FIRST are the least sets closed under the productions: no  *)
(* pass finds too much, and the passes do not end too early.               *)
(***************************************************************************)
NullableLeast ==
  /\ EmptyClosed(input, nullable)
  /\ \A N \in SUBSET SymbolIds(input) : EmptyClosed(input, N) => nullable \subseteq N

FirstLeast ==
  /\ Within(input, OwnFirst(input), first)
  /\ BeginClosed(input, nullable, first)
  /\ \A F \in [SymbolIds(input) -> SUBSET SymbolIds(input)] :
       BeginClosed(input, nullable, F) /\ Within(input, OwnFirst(input), F) =>
         Within(input, first, F)

\* What the passes keep until they end.
Growing ==
  /\ \A N \in SUBSET SymbolIds(input) : EmptyClosed(input, N) => nullable \subseteq N
  /\ stage # "nullable" => EmptyClosed(input, nullable)
  /\ stage = "nullable" => first = OwnFirst(input)
  /\ Within(input, OwnFirst(input), first)
  /\ \A F \in [SymbolIds(input) -> SUBSET SymbolIds(input)] :
       BeginClosed(input, nullable, F) /\ Within(input, OwnFirst(input), F) =>
         Within(input, first, F)
  /\ stage \notin {"nullable", "first"} => BeginClosed(input, nullable, first)

LEMMA GrowingKept ==
  ASSUME GeneratorInv, Growing, [Next]_vars
  PROVE  Growing'
  <1>1. /\ InputOK(input) /\ nullable \in SUBSET OfKind(input, "nonterm")
        /\ first \in Firsts(input)
    BY DEF GeneratorInv, Typed
  <1>2. CASE FindNullable
    <2>1. /\ nullable' = NullablePass(input, nullable) /\ stage = "nullable"
          /\ input' = input /\ first' = first /\ first = OwnFirst(input)
          /\ stage' \in {"nullable", "first"}
          /\ stage' # "nullable" => nullable' = nullable
      BY <1>2 DEF FindNullable, Growing
    <2>2. \A N \in SUBSET SymbolIds(input) : EmptyClosed(input, N) => nullable' \subseteq N
      BY <1>1, <2>1, NullableFacts DEF Growing
    <2>3. stage' # "nullable" => EmptyClosed(input, nullable')
      BY <1>1, <2>1, NullableFacts
    <2>4. Within(input, OwnFirst(input), first)
      BY DEF Growing
    <2> QED
      BY <2>1, <2>2, <2>3, <2>4 DEF Growing
  <1>3. CASE FindFirst
    <2>1. /\ first' = FirstPass(input, nullable, first) /\ stage = "first"
          /\ input' = input /\ nullable' = nullable
          /\ stage' \in {"first", "start"}
          /\ stage' = "start" => first' = first
      BY <1>3 DEF FindFirst
    <2>2. /\ Within(input, first, first')
          /\ \A F : BeginClosed(input, nullable, F) /\ Within(input, first, F) => Within(input, first', F)
          /\ first' = first => BeginClosed(input, nullable, first)
      BY <1>1, <2>1, FirstFacts
    <2>3. Within(input, OwnFirst(input), first')
      BY <2>2 DEF Growing, Within
    <2>4. ASSUME NEW F \in [SymbolIds(input) -> SUBSET SymbolIds(input)],
                 BeginClosed(input, nullable, F), Within(input, OwnFirst(input), F)
          PROVE  Within(input, first', F)
      BY <2>2, <2>4 DEF Growing
    <2>5. stage' = "start" => BeginClosed(input, nullable, first')
      BY <2>1, <2>2
    <2>6. EmptyClosed(input, nullable)
      BY <2>1 DEF Growing
    <2>7. \A N \in SUBSET SymbolIds(input) : EmptyClosed(input, N) => nullable \subseteq N
      BY DEF Growing
    <2> QED
      BY <2>1, <2>3, <2>4, <2>5, <2>6, <2>7 DEF Growing
  <1>4. CASE ~(FindNullable \/ FindFirst)
    <2>1. /\ input' = input /\ nullable' = nullable /\ first' = first
          /\ \/ stage' = stage
             \/ stage \notin {"nullable", "first"} /\ stage' \notin {"nullable", "first"}
      BY <1>4 DEF Next, StartStates, FollowSymbol, StatesDone, FillParseEntries, ShiftExtras,
                  ResolveConflicts, SplitLargeSmall, vars
    <2> QED
      BY <2>1 DEF Growing
  <1> QED
    BY <1>2, <1>3, <1>4

(***************************************************************************)
(* compute_nullable and compute_first find, for every grammar, exactly the *)
(* least sets that the productions allow.                                  *)
(***************************************************************************)
THEOREM LeastSets == Spec => [](stage \notin {"nullable", "first"} => NullableLeast /\ FirstLeast)
  <1>1. Init => Growing
    <2> SUFFICES ASSUME Init
                 PROVE  Growing
      OBVIOUS
    <2>1. nullable = {} /\ first = OwnFirst(input) /\ stage = "nullable"
      BY DEF Init
    <2> QED
      BY <2>1 DEF Growing, Within
  <1>2. GeneratorInv /\ Growing /\ [Next]_vars => Growing'
    BY GrowingKept
  <1>3. Growing => (stage \notin {"nullable", "first"} => NullableLeast /\ FirstLeast)
    BY DEF Growing, NullableLeast, FirstLeast
  <1> QED
    BY <1>1, <1>2, <1>3, GeneratorInductive, PTL DEF Spec

-------------------------------------------------------------------------------
(***************************************************************************)
(* The list of states is the canonical collection: the initial state, with *)
(* every transition of every state and with nothing else.                  *)
(***************************************************************************)
Canonical ==
  /\ sets[1] = Initial(input, an)
  /\ IsInjective(sets)
  /\ \A s \in DOMAIN sets, a \in SymbolIds(input) : Followed(s, a)
  /\ \A t \in DOMAIN sets \ {1} : \E s \in 1 .. t - 1, a \in SymbolIds(input) :
       sets[t] = LRGoto(input, an, sets[s], a)

\* A state after the first one was met on the way from an earlier one.
Met(t) == \E s \in 1 .. t - 1, a \in SymbolIds(input) : sets[t] = LRGoto(input, an, sets[s], a)

Listed ==
  /\ stage \notin Early => sets[1] = Initial(input, an)
  /\ \A t \in DOMAIN sets \ {1} : Met(t)
  /\ stage \in Late \cup {"fill"} => \A s \in DOMAIN sets, a \in SymbolIds(input) : Followed(s, a)

LEMMA ListedKept ==
  ASSUME GeneratorInv, Listed, [Next]_vars
  PROVE  Listed'
  <1>1. /\ InputOK(input) /\ sets \in Seq(SUBSET Dotted(input)) /\ IsInjective(sets)
        /\ Len(sets) \in Nat /\ DOMAIN sets = 1 .. Len(sets) /\ scan \in (Nat \ {0}) \X Nat
        /\ an.first \in Firsts(input) /\ (stage \in Early => sets = <<>>)
        /\ (stage = "states" => scan[2] \in SymbolIds(input) /\ sets # <<>>)
    <2>1. stage = "states" => scan[2] \in SymbolIds(input)
      <3>1. Width \in Nat \ {0} /\ SymbolIds(input) = 0 .. Width - 1 /\ scan[2] \in Nat
        BY SymbolFacts DEF GeneratorInv, Typed, Width
      <3>2. stage = "states" => scan[2] < Width
        BY DEF GeneratorInv, Phases
      <3> QED
        BY <3>1, <3>2
    <2> QED
      BY <2>1 DEF GeneratorInv, Typed, Phases, Explored, an, Early
  <1>2. CASE FindNullable \/ FindFirst
    <2>1. stage' \in Early /\ sets' = <<>>
      BY <1>1, <1>2 DEF FindNullable, FindFirst, Early
    <2>2. stage' \notin Late \cup {"fill"}
      BY <2>1 DEF Early, Late
    <2> QED
      BY <2>1, <2>2 DEF Listed
  <1>3. CASE StartStates
    <2>1. /\ sets' = <<Initial(input, an)>> /\ stage' = "states"
          /\ input' = input /\ an' = an
      BY <1>3 DEF StartStates, an
    <2>2. DOMAIN sets' = {1} /\ sets'[1] = Initial(input', an')
      BY <2>1
    <2>3. stage' \notin Late \cup {"fill"}
      BY <2>1 DEF Late
    <2> QED
      BY <2>2, <2>3 DEF Listed
  <1>4. CASE FollowSymbol
    <2> DEFINE t == LRGoto(input, an, sets[scan[1]], scan[2])
    <2>1. /\ scan[1] \in DOMAIN sets /\ scan[2] \in SymbolIds(input) /\ 1 \in DOMAIN sets
          /\ stage = "states" /\ stage' = "states"
      BY <1>1, <1>4 DEF FollowSymbol
    <2>2. /\ sets' = WithTarget(sets, t) /\ input' = input /\ an' = an
      BY <1>4 DEF FollowSymbol, an
    <2>3. stage' \notin Late \cup {"fill"} /\ stage \notin Early
      BY <2>1 DEF Late, Early
    <2>4. \/ sets' = sets
          \/ /\ DOMAIN sets' = 1 .. Len(sets) + 1
             /\ sets'[Len(sets) + 1] = t
             /\ \A i \in DOMAIN sets : sets'[i] = sets[i]
      <3>1. CASE sets' = Append(sets, t)
        <4> DEFINE T == SUBSET Dotted(input)
        <4>1. t \in T
          <5>1. sets[scan[1]] \in SUBSET Dotted(input)
            BY <1>1, <2>1
          <5> QED
            BY <1>1, <5>1, GotoFacts
        <4>2. sets \in Seq(T)
          BY <1>1
        <4> HIDE DEF t, T
        <4>3. /\ sets' \in Seq(T) /\ Len(sets') = Len(sets) + 1
              /\ sets'[Len(sets) + 1] = t
              /\ \A i \in 1 .. Len(sets) : sets'[i] = sets[i]
          BY <3>1, <4>1, <4>2, Grown
        <4> QED
          BY <1>1, <4>3
      <3>2. CASE sets' # Append(sets, t)
        BY <2>2, <3>2 DEF WithTarget
      <3> QED
        BY <3>1, <3>2
    <2>5. \A i \in DOMAIN sets : sets'[i] = sets[i]
      BY <2>4
    <2>6. ASSUME NEW u \in DOMAIN sets' \ {1}
          PROVE  Met(u)'
      <3>1. CASE u \in DOMAIN sets
        <4>1. PICK s \in 1 .. u - 1, a \in SymbolIds(input) : sets[u] = LRGoto(input, an, sets[s], a)
          BY <2>6, <3>1 DEF Listed, Met
        <4>2. s \in DOMAIN sets
          BY <1>1, <3>1
        <4>3. sets'[u] = LRGoto(input', an', sets'[s], a)
          BY <2>2, <2>5, <3>1, <4>1, <4>2
        <4> QED
          BY <2>2, <4>3 DEF Met
      <3>2. CASE u \notin DOMAIN sets
        <4>1. u = Len(sets) + 1 /\ sets'[u] = t
          BY <1>1, <2>4, <2>6, <3>2
        <4> PICK s, a : s = scan[1] /\ a = scan[2]
          OBVIOUS
        <4>2. s \in 1 .. u - 1 /\ a \in SymbolIds(input') /\ sets'[s] = sets[s]
          BY <1>1, <2>1, <2>2, <2>5, <4>1
        <4>3. sets'[u] = LRGoto(input', an', sets'[s], a)
          BY <2>2, <4>1, <4>2
        <4> QED
          BY <4>2, <4>3 DEF Met
      <3> QED
        BY <3>1, <3>2
    <2>7. sets'[1] = Initial(input', an')
      BY <2>1, <2>2, <2>3, <2>5 DEF Listed
    <2> QED
      BY <2>3, <2>6, <2>7 DEF Listed
  <1>5. CASE StatesDone
    <2>1. sets' = sets /\ input' = input /\ an' = an /\ stage = "states" /\ scan[1] > Len(sets)
      BY <1>5 DEF StatesDone, an
    <2>2. stage \notin Early
      BY <2>1 DEF Early
    <2>3. \A s \in DOMAIN sets, a \in SymbolIds(input) : Followed(s, a)
      BY <1>1, <2>1 DEF GeneratorInv, Explored
    <2> QED
      BY <2>1, <2>2, <2>3 DEF Listed, Followed, Met
  <1>6. CASE ~(FindNullable \/ FindFirst \/ StartStates \/ FollowSymbol \/ StatesDone)
    <2>1. /\ sets' = sets /\ input' = input /\ an' = an
          /\ \/ stage' = stage
             \/ stage \in Late \cup {"fill"} /\ stage' \in Late \cup {"fill"}
      BY <1>6 DEF Next, FillParseEntries, ShiftExtras, ResolveConflicts, SplitLargeSmall, vars, an,
                  Late
    <2>2. \A x : x \in Late \cup {"fill"} => x \notin Early
      BY DEF Late, Early
    <2> QED
      BY <2>1, <2>2 DEF Listed, Followed, Met
  <1> QED
    BY <1>2, <1>3, <1>4, <1>5, <1>6

(***************************************************************************)
(* build_lr1_states finds, for every grammar, the canonical collection.    *)
(***************************************************************************)
THEOREM Collection == Spec => [](stage \in {"fill", "extras", "resolve", "split", "done"} => Canonical)
  <1>1. Init => Listed
    <2> SUFFICES ASSUME Init
                 PROVE  Listed
      OBVIOUS
    <2>1. sets = <<>> /\ stage = "nullable"
      BY DEF Init
    <2> QED
      BY <2>1 DEF Listed, Early, Late
  <1>2. GeneratorInv /\ Listed /\ [Next]_vars => Listed'
    BY ListedKept
  <1>3. GeneratorInv /\ Listed =>
          (stage \in {"fill", "extras", "resolve", "split", "done"} => Canonical)
    BY DEF GeneratorInv, Explored, Listed, Met, Canonical, Early, Late
  <1> QED
    BY <1>1, <1>2, <1>3, GeneratorInductive, PTL DEF Spec

-------------------------------------------------------------------------------
(***************************************************************************)
(* The table is one the parser can work with.                              *)
(***************************************************************************)

\* Every entry of a row is one that an item of its state enters, or the shift of an extra.
Drawn ==
  \A s \in DOMAIN rows, a \in SymbolIds(input) : \A e \in ToSet(rows[s][a]) :
    e \in ToSet(CellOf(input, an, sets, s, a)) \/ (a \in input.extras /\ e = Shift(s - 1))

LEMMA DrawnKept ==
  ASSUME GeneratorInv, Drawn, [Next]_vars
  PROVE  Drawn'
  <1>1. /\ InputOK(input) /\ rows \in Seq(TypedRow)
        /\ Len(rows) \in Nat /\ DOMAIN rows = 1 .. Len(rows)
        /\ \A s \in DOMAIN rows : rows[s] \in TypedRow
    <2>1. InputOK(input) /\ rows \in Seq(TypedRow)
      BY DEF GeneratorInv, Typed
    <2> QED
      BY <2>1
  <1>2. CASE FindNullable \/ FindFirst \/ StartStates \/ FollowSymbol \/ StatesDone
    <2>1. rows' = <<>>
      BY <1>2 DEF FindNullable, FindFirst, StartStates, FollowSymbol, StatesDone, GeneratorInv,
                  Phases, Early
    <2> QED
      BY <2>1 DEF Drawn
  <1>3. CASE FillParseEntries
    <2> DEFINE r == FillRow(input, an, sets, Len(rows) + 1)
    <2>1. rows' = Append(rows, r) /\ input' = input /\ an' = an /\ sets' = sets
      BY <1>3 DEF FillParseEntries, an
    <2>2. \A s \in DOMAIN rows' :
            \/ s \in DOMAIN rows /\ rows'[s] = rows[s]
            \/ s = Len(rows) + 1 /\ rows'[s] = r
      <3> HIDE DEF r
      <3> QED
        BY <1>1, <2>1
    <2>3. ASSUME NEW s \in DOMAIN rows', NEW a \in SymbolIds(input), NEW e \in ToSet(rows'[s][a])
          PROVE  e \in ToSet(CellOf(input, an, sets, s, a)) \/ (a \in input.extras /\ e = Shift(s - 1))
      <3>1. CASE s \in DOMAIN rows /\ rows'[s] = rows[s]
        BY <2>3, <3>1 DEF Drawn
      <3>2. CASE s = Len(rows) + 1 /\ rows'[s] = r
        BY <2>3, <3>2 DEF FillRow
      <3> QED
        BY <2>2, <3>1, <3>2
    <2> QED
      BY <2>1, <2>3 DEF Drawn
  <1>4. CASE ShiftExtras
    <2>1. /\ rows' = [s \in DOMAIN rows |-> WithExtras(input, s, rows[s])]
          /\ input' = input /\ an' = an /\ sets' = sets
      BY <1>4 DEF ShiftExtras, an
    <2>2. ASSUME NEW s \in DOMAIN rows', NEW a \in SymbolIds(input), NEW e \in ToSet(rows'[s][a])
          PROVE  e \in ToSet(CellOf(input, an, sets, s, a)) \/ (a \in input.extras /\ e = Shift(s - 1))
      <3>1. s \in DOMAIN rows /\ rows'[s] = WithExtras(input, s, rows[s])
        BY <2>1
      <3>2. rows[s] \in TypedRow /\ rows[s][a] \in Seq(EntryRange(input, Len(sets)))
        BY <1>1, <3>1 DEF TypedRow
      <3>3. rows'[s][a] = IF a \in input.extras THEN AddAction(rows[s][a], Shift(s - 1)) ELSE rows[s][a]
        BY <3>1, <3>2 DEF WithExtras, TypedRow
      <3>4. e \in ToSet(rows[s][a]) \/ (a \in input.extras /\ e = Shift(s - 1))
        <4>1. CASE rows'[s][a] = rows[s][a]
          BY <2>2, <4>1
        <4>2. CASE rows'[s][a] = Append(rows[s][a], Shift(s - 1)) /\ a \in input.extras
          <5> DEFINE cell == rows[s][a]
          <5>1. PICK i \in DOMAIN Append(cell, Shift(s - 1)) : e = Append(cell, Shift(s - 1))[i]
            BY <2>2, <4>2 DEF ToSet
          <5>2. \A x : \A c \in Seq(EntryRange(input, Len(sets))) :
                  \A k \in DOMAIN Append(c, x) :
                    Append(c, x)[k] = x \/ (k \in DOMAIN c /\ Append(c, x)[k] = c[k])
            OBVIOUS
          <5>3. e = Shift(s - 1) \/ e \in ToSet(cell)
            BY <3>2, <5>1, <5>2 DEF ToSet
          <5> QED
            BY <4>2, <5>3
        <4> QED
          BY <3>3, <4>1, <4>2 DEF AddAction
      <3> QED
        BY <3>1, <3>4 DEF Drawn
    <2> QED
      BY <2>1, <2>2 DEF Drawn
  <1>5. CASE ResolveConflicts
    <2>1. /\ rows' = [rows EXCEPT ![scan[1]] = ResolveRow(input, rows[scan[1]])]
          /\ input' = input /\ an' = an /\ sets' = sets
      BY <1>5 DEF ResolveConflicts, an
    <2>2. ASSUME NEW s \in DOMAIN rows', NEW a \in SymbolIds(input), NEW e \in ToSet(rows'[s][a])
          PROVE  e \in ToSet(CellOf(input, an, sets, s, a)) \/ (a \in input.extras /\ e = Shift(s - 1))
      <3>1. s \in DOMAIN rows
        BY <2>1
      <3>2. rows[s] \in TypedRow /\ rows[s][a] \in Seq(EntryRange(input, Len(sets)))
        BY <1>1, <3>1 DEF TypedRow
      <3>3. e \in ToSet(rows[s][a])
        <4>1. CASE s = scan[1]
          <5>1. rows'[s][a] = Resolve(input, rows[s][a], a)
            BY <2>1, <3>1, <3>2, <4>1 DEF ResolveRow, TypedRow
          <5> QED
            BY <1>1, <2>2, <3>2, <5>1, ResolveFacts
        <4>2. CASE s # scan[1]
          <5>1. rows'[s] = rows[s]
            BY <2>1, <4>2
          <5> QED
            BY <2>2, <5>1
        <4> QED
          BY <4>1, <4>2
      <3> QED
        BY <3>1, <3>3 DEF Drawn
    <2> QED
      BY <2>1, <2>2 DEF Drawn
  <1>6. CASE SplitLargeSmall \/ UNCHANGED vars
    <2>1. rows' = rows /\ input' = input /\ an' = an /\ sets' = sets
      BY <1>6 DEF SplitLargeSmall, vars, an
    <2> QED
      BY <2>1 DEF Drawn
  <1> QED
    BY <1>2, <1>3, <1>4, <1>5, <1>6 DEF Next

LEMMA DrawnAlways == Spec => []Drawn
  <1>1. Init => Drawn
    <2> SUFFICES ASSUME Init
                 PROVE  Drawn
      OBVIOUS
    <2>1. rows = <<>>
      BY DEF Init
    <2> QED
      BY <2>1 DEF Drawn
  <1>2. GeneratorInv /\ Drawn /\ [Next]_vars => Drawn'
    BY DrawnKept
  <1> QED
    BY <1>1, <1>2, GeneratorInductive, PTL DEF Spec

\* What an entry of a cell says about the state.
Says(g, an1, sets1, s, a, e) ==
  \/ e = Accept
  \/ \E it \in sets1[s] : NextIs(g, it) = {} /\ e = Reduce(it[1] - 1)
  \/ \E t \in DOMAIN sets1 : /\ sets1[t] = LRGoto(g, an1, sets1[s], a)
                             /\ e \in {Shift(t - 1), Goto(t - 1)}

LEMMA EntrySays ==
  ASSUME NEW g, InputOK(g), NEW an1, NEW sets1 \in Seq(SUBSET Dotted(g)), NEW s \in DOMAIN sets1,
         NEW a, NEW e \in ToSet(CellOf(g, an1, sets1, s, a))
  PROVE  Says(g, an1, sets1, s, a, e)
  <1>1. PICK it \in Concerned(g, sets1[s], a) : e \in ToSet(EntryOf(g, an1, sets1, s, it, a))
    BY CellFacts
  <1>2. it \in sets1[s]
    BY DEF Concerned
  <1>3. \A x, y : y \in ToSet(<<x>>) => y = x
    BY DEF ToSet
  <1> DEFINE found == {i \in DOMAIN sets1 : sets1[i] = LRGoto(g, an1, sets1[s], a)}
             t == CHOOSE i \in found : TRUE
  <1>4. CASE NextIs(g, it) = {}
    <2>1. EntryOf(g, an1, sets1, s, it, a) = <<IF it[1] = 1 THEN Accept ELSE Reduce(ProductionOf(it))>>
      BY <1>4 DEF EntryOf
    <2>2. e = IF it[1] = 1 THEN Accept ELSE Reduce(ProductionOf(it))
      BY <1>1, <1>3, <2>1
    <2> QED
      BY <1>2, <1>4, <2>2 DEF ProductionOf, Says
  <1>5. CASE NextIs(g, it) # {} /\ found = {}
    <2>1. EntryOf(g, an1, sets1, s, it, a) = <<>>
      BY <1>5 DEF EntryOf
    <2> QED
      BY <1>1, <2>1 DEF ToSet
  <1>6. CASE NextIs(g, it) # {} /\ found # {}
    <2>1. EntryOf(g, an1, sets1, s, it, a) = <<IF g.kind[a] = "term" THEN Shift(t - 1) ELSE Goto(t - 1)>>
      BY <1>6 DEF EntryOf
    <2>2. t \in found
      BY <1>6
    <2> HIDE DEF t
    <2>3. e = IF g.kind[a] = "term" THEN Shift(t - 1) ELSE Goto(t - 1)
      BY <1>1, <1>3, <2>1
    <2> QED
      BY <2>2, <2>3 DEF Says
  <1> QED
    BY <1>4, <1>5, <1>6

(***************************************************************************)
(* Every generated grammar is one the theorems about the parser speak of:  *)
(* each index in range, one goto in a cell, and no production of a token.  *)
(***************************************************************************)
THEOREM GeneratedGrammar ==
  Spec => [](stage \in {"split", "done"} => GrammarOK(Generated) /\ RulesApart(Generated))
  <1>1. GeneratorInv /\ Drawn =>
          (stage \in {"split", "done"} => GrammarOK(Generated) /\ RulesApart(Generated))
    <2> SUFFICES ASSUME GeneratorInv, Drawn, stage \in {"split", "done"}
                 PROVE  GrammarOK(Generated) /\ RulesApart(Generated)
      OBVIOUS
    <2> DEFINE g == Generated
               n == Len(sets)
               m == Len(input.prods)
               Rule(p) == [lhs |-> input.prods[p].lhs, rhs |-> input.prods[p].rhs,
                           field |-> <<>>, alias |-> <<>>]
    <2>1. /\ InputOK(input) /\ rows \in Seq(TypedRow) /\ sets \in Seq(SUBSET Dotted(input))
          /\ IsInjective(sets) /\ sets # <<>> /\ Len(rows) = n
      BY DEF GeneratorInv, Typed, Phases, Explored, Early, Late
    <2>2. /\ n \in Nat \ {0} /\ DOMAIN sets = 1 .. n /\ DOMAIN rows = 1 .. n
          /\ \A s \in 1 .. n : rows[s] \in TypedRow
      BY <2>1
    <2>3. Width \in Nat \ {0} /\ SymbolIds(input) = 0 .. Width - 1
      BY <2>1, SymbolFacts DEF Width
    <2>4. /\ g.states = n /\ g.symbols = Width /\ g.terminals = OfKind(input, "term")
          /\ g.prods = [p \in DOMAIN input.prods |-> Rule(p)]
          /\ g.table = [s \in 0 .. n - 1 |-> rows[s + 1]]
      BY DEF Generated
    <2>5. m \in Nat /\ DOMAIN input.prods = 1 .. m
      BY <2>1, ProdFacts
    <2> HIDE DEF g, n, m
    <2>6. Symbols(g) = SymbolIds(input) /\ States(g) = 0 .. n - 1
      BY <2>3, <2>4 DEF Symbols, States
    <2>7. DOMAIN g.prods = 1 .. m /\ \A p \in 1 .. m : g.prods[p] = Rule(p)
      BY <2>4, <2>5
    <2>8. g.prods \in Seq({g.prods[p] : p \in DOMAIN g.prods})
      <3> DEFINE V == {g.prods[p] : p \in DOMAIN g.prods}
      <3>1. \A p \in 1 .. m : g.prods[p] \in V
        BY <2>7
      <3> HIDE DEF V
      <3>2. g.prods \in [1 .. m -> V]
        <4>1. g.prods = [p \in 1 .. m |-> g.prods[p]]
          BY <2>4, <2>5, <2>7
        <4> QED
          BY <3>1, <4>1
      <3>3. g.prods \in Seq(V)
        BY <2>5, <3>2, FunctionIsSeq
      <3> QED
        BY <3>3 DEF V
    <2>9. ASSUME NEW p \in DOMAIN g.prods
          PROVE  ProductionOK(g, g.prods[p]) /\ g.prods[p].lhs \notin g.terminals
      <3>1. /\ g.prods[p].lhs = input.prods[p].lhs /\ g.prods[p].rhs = input.prods[p].rhs
            /\ g.prods[p].field = <<>> /\ g.prods[p].alias = <<>>
        <4>1. g.prods[p] = Rule(p)
          BY <2>7
        <4> QED
          BY <4>1
      <3>2. RawProductionOK(input, input.prods[p])
        BY <2>1, <2>5, <2>7 DEF InputOK
      <3>3. DOMAIN <<>> = {}
        OBVIOUS
      <3>4. input.prods[p].lhs \in SymbolIds(input) /\ input.prods[p].lhs \notin OfKind(input, "term")
        BY <3>2 DEF RawProductionOK, OfKind
      <3>5. input.prods[p].rhs \in Seq(Symbols(g))
        BY <2>6, <3>2 DEF RawProductionOK
      <3> QED
        BY <2>4, <2>6, <3>1, <3>3, <3>4, <3>5 DEF ProductionOK
    <2>10. ASSUME NEW s \in States(g)
           PROVE  /\ s + 1 \in 1 .. n /\ g.table[s] = rows[s + 1]
                  /\ rows[s + 1] \in TypedRow
      <3>1. s \in 0 .. n - 1 /\ s + 1 \in 1 .. n
        BY <2>2, <2>6
      <3> QED
        BY <2>2, <2>4, <3>1
    <2>11. EntryRange(input, n) \subseteq Entries(g)
      <3> SUFFICES ASSUME NEW e \in EntryRange(input, n)
                   PROVE  e \in Entries(g)
        OBVIOUS
      <3>1. CASE \E t \in 0 .. n - 1 : e = Shift(t) \/ e = Goto(t)
        BY <2>6, <3>1 DEF Shift, Goto, Entries
      <3>2. CASE \E p \in DOMAIN input.prods : e = Reduce(p)
        BY <2>5, <2>7, <3>2 DEF Reduce, Entries
      <3>3. CASE e = Accept
        BY <3>3 DEF Entries
      <3> QED
        BY <3>1, <3>2, <3>3 DEF EntryRange
    <2>12. ASSUME NEW s \in States(g)
           PROVE  /\ DOMAIN g.table[s] = Symbols(g)
                  /\ \A a \in Symbols(g) : g.table[s][a] \in Seq(Entries(g))
      <3> DEFINE E == EntryRange(input, n)
                 F == Entries(g)
      <3>1. rows[s + 1] \in [SymbolIds(input) -> Seq(E)]
        BY <2>10 DEF TypedRow, n
      <3>2. E \subseteq F
        BY <2>11
      <3> HIDE DEF E, F
      <3>3. Seq(E) \subseteq Seq(F)
        BY <3>2
      <3>4. DOMAIN g.table[s] = Symbols(g) /\ \A a \in Symbols(g) : g.table[s][a] \in Seq(F)
        BY <2>6, <2>10, <3>1, <3>3
      <3> QED
        BY <3>4 DEF F
    <2>13. ASSUME NEW s \in States(g), NEW a \in Symbols(g), NEW t \in States(g), NEW u \in States(g),
                  Goto(t) \in ToSet(g.table[s][a]), Goto(u) \in ToSet(g.table[s][a])
           PROVE  t = u
      <3> DEFINE target == LRGoto(input, an, sets[s + 1], a)
      <3>1. s + 1 \in DOMAIN sets /\ s + 1 \in DOMAIN rows
        BY <2>2, <2>10
      <3>2. ASSUME NEW v \in States(g), Goto(v) \in ToSet(g.table[s][a])
            PROVE  v + 1 \in DOMAIN sets /\ sets[v + 1] = target
        <4>1. Goto(v) \in ToSet(rows[s + 1][a]) /\ a \in SymbolIds(input)
          BY <2>6, <2>10, <3>2
        <4>2. \A x : Goto(v) # Shift(x)
          BY DEF Goto, Shift
        <4>3. Goto(v) \in ToSet(CellOf(input, an, sets, s + 1, a))
          BY <3>1, <4>1, <4>2 DEF Drawn
        <4>4. PICK x \in DOMAIN sets : sets[x] = target /\ Goto(v) = Goto(x - 1)
          <5>1. \A x : Goto(v) # Reduce(x) /\ Goto(v) # Accept
            BY DEF Goto, Reduce, Accept
          <5>2. Says(input, an, sets, s + 1, a, Goto(v))
            BY <2>1, <3>1, <4>3, EntrySays
          <5> QED
            BY <4>2, <5>1, <5>2 DEF Says
        <4>5. v = x - 1
          BY <4>4 DEF Goto
        <4>6. v + 1 = x
          BY <2>2, <4>5
        <4> QED
          BY <4>4, <4>6
      <3> HIDE DEF target
      <3>3. t + 1 = u + 1
        BY <2>1, <2>13, <3>2 DEF IsInjective
      <3>4. t \in Int /\ u \in Int
        BY <2>2, <2>6
      <3> QED
        BY <3>3, <3>4
    <2>14. GotoUnique(g)
      BY <2>13 DEF GotoUnique
    <2>15. g.terminals \subseteq Symbols(g) /\ DOMAIN g.table = States(g)
      BY <2>4, <2>6 DEF OfKind
    <2>16. GrammarOK(g)
      BY <2>2, <2>3, <2>4, <2>8, <2>9, <2>12, <2>14, <2>15 DEF GrammarOK
    <2>17. RulesApart(g)
      BY <2>9 DEF RulesApart
    <2> QED
      BY <2>16, <2>17 DEF g
  <1> QED
    BY <1>1, GeneratorInductive, DrawnAlways, PTL

-------------------------------------------------------------------------------
(***************************************************************************)
(* Without extras, the moves to a state that reduces a production spell    *)
(* its right side.                                                         *)
(***************************************************************************)

\* An item of a transition whose dot is not in front came over the symbol.
LEMMA GotoBack ==
  ASSUME NEW g, InputOK(g), NEW a, a.first \in Firsts(g), NEW items \in SUBSET Dotted(g), NEW x,
         NEW it \in LRGoto(g, a, items, x), it[2] # 0
  PROVE  \E i \in items : x \in NextIs(g, i) /\ it = <<i[1], i[2] + 1, i[3]>>
  <1> DEFINE kernel == {<<i[1], i[2] + 1, i[3]>> : i \in {j \in items : x \in NextIs(g, j)}}
  <1>1. ASSUME NEW i \in items, x \in NextIs(g, i)
        PROVE  <<i[1], i[2] + 1, i[3]>> \in Items(g)
    <2>1. i \in Items(g)
      BY DEF Dotted
    <2>2. i[1] \in DOMAIN AllProds(g) /\ i[2] \in Nat /\ i[3] \in SymbolIds(g)
      BY <2>1, ItemFacts
    <2> QED
      BY <2>2 DEF Items
  <1>2. kernel \in SUBSET Items(g)
    BY <1>1
  <1>3. LRGoto(g, a, items, x) = LRClosure(g, a, kernel)
    BY DEF LRGoto
  <1>4. it \in kernel
    <2> HIDE DEF kernel
    <2>1. LRClosure(g, a, kernel) \subseteq kernel \cup Zeros(g)
      BY <1>2, ClosureFacts
    <2> QED
      BY <1>3, <2>1 DEF Zeros
  <1> QED
    BY <1>4

\* An entry of the generated table is one that an item of its state enters.
LEMMA CellSays ==
  ASSUME GeneratorInv, Drawn, stage \in {"split", "done"}, input.extras = {},
         NEW s \in States(Generated), NEW a, NEW e \in ToSet(Actions(Generated, s, a))
  PROVE  /\ s + 1 \in DOMAIN sets
         /\ Says(input, an, sets, s + 1, a, e)
  <1>1. /\ InputOK(input) /\ sets \in Seq(SUBSET Dotted(input)) /\ sets # <<>>
        /\ rows \in Seq(TypedRow) /\ Len(rows) = Len(sets)
    BY DEF GeneratorInv, Typed, Phases, Early, Late
  <1>2. /\ Generated.states = Len(sets) /\ Generated.symbols = Width
        /\ Generated.table = [r \in 0 .. Len(sets) - 1 |-> rows[r + 1]]
    BY DEF Generated
  <1>3. s \in 0 .. Len(sets) - 1
    BY <1>2 DEF States
  <1>4. Len(sets) \in Nat /\ DOMAIN sets = 1 .. Len(sets) /\ DOMAIN rows = 1 .. Len(sets)
    BY <1>1
  <1>5. s + 1 \in DOMAIN sets /\ s + 1 \in DOMAIN rows
    BY <1>3, <1>4
  <1>6. a \in SymbolIds(input)
    <2>1. Actions(Generated, s, a) # <<>>
      BY DEF ToSet
    <2>2. a \in 0 .. Width - 1
      BY <1>2, <2>1 DEF Actions, Symbols
    <2> QED
      BY <1>1, <2>2, SymbolFacts DEF Width
  <1>7. Actions(Generated, s, a) = rows[s + 1][a]
    <2>1. Symbols(Generated) = SymbolIds(input)
      BY <1>1, <1>2, SymbolFacts DEF Width, Symbols
    <2> QED
      BY <1>2, <1>3, <1>6, <2>1 DEF Actions
  <1>8. e \in ToSet(CellOf(input, an, sets, s + 1, a))
    BY <1>5, <1>6, <1>7 DEF Drawn
  <1> QED
    BY <1>1, <1>5, <1>8, EntrySays

\* Behind a move stands the item before it.
Behind(s, a, it) == \E i \in sets[s + 1] : a \in NextIs(input, i) /\ it = <<i[1], i[2] + 1, i[3]>>

LEMMA MoveBack ==
  ASSUME GeneratorInv, Drawn, stage \in {"split", "done"}, input.extras = {},
         NEW s \in States(Generated), NEW r \in States(Generated), NEW a, Moves(Generated, s, a, r),
         NEW it \in sets[r + 1], it[2] # 0
  PROVE  Behind(s, a, it)
  <1>1. PICK e \in ToSet(Actions(Generated, s, a)) : e \in {Shift(r), Goto(r)}
    BY DEF Moves
  <1>2. s + 1 \in DOMAIN sets /\ Says(input, an, sets, s + 1, a, e)
    BY CellSays
  <1>3. e # Accept /\ \A x : e # Reduce(x)
    BY <1>1 DEF Shift, Goto, Accept, Reduce
  <1>4. PICK t \in DOMAIN sets : /\ sets[t] = LRGoto(input, an, sets[s + 1], a)
                                 /\ e \in {Shift(t - 1), Goto(t - 1)}
    BY <1>2, <1>3 DEF Says
  <1>5. r = t - 1
    BY <1>1, <1>4 DEF Shift, Goto
  <1>6. InputOK(input) /\ first \in Firsts(input) /\ sets \in Seq(SUBSET Dotted(input))
    BY DEF GeneratorInv, Typed
  <1>7. t = r + 1
    <2>1. t \in Nat
      BY <1>6
    <2> QED
      BY <1>5, <2>1
  <1>8. an.first \in Firsts(input)
    BY <1>6 DEF an
  <1>9. sets[s + 1] \in SUBSET Dotted(input)
    BY <1>2, <1>6
  <1>10. it \in LRGoto(input, an, sets[s + 1], a)
    BY <1>4, <1>7
  <1> QED
    BY <1>6, <1>8, <1>9, <1>10, GotoBack DEF Behind

(***************************************************************************)
(* Every table generated from a grammar without extras is one whose paths  *)
(* spell the right sides: what the theorem Productions of NodeProofs asks. *)
(***************************************************************************)
THEOREM GeneratedSpells ==
  Spec => [](stage \in {"split", "done"} /\ input.extras = {} => PathsSpell(Generated))
  <1>1. GeneratorInv /\ Drawn =>
          (stage \in {"split", "done"} /\ input.extras = {} => PathsSpell(Generated))
    <2> SUFFICES ASSUME GeneratorInv, Drawn, stage \in {"split", "done"}, input.extras = {},
                        NEW p \in DOMAIN Generated.prods,
                        NEW q \in [0 .. Len(Generated.prods[p].rhs) -> States(Generated)],
                        NEW z \in Symbols(Generated),
                        Reduce(p) \in ToSet(Actions(Generated, q[Len(Generated.prods[p].rhs)], z)),
                        \A i \in DOMAIN Generated.prods[p].rhs :
                          \E a \in Symbols(Generated) : Moves(Generated, q[i - 1], a, q[i]),
                        NEW j \in DOMAIN Generated.prods[p].rhs, NEW b \in Symbols(Generated),
                        Moves(Generated, q[j - 1], b, q[j])
                 PROVE  b = Generated.prods[p].rhs[j]
      BY DEF PathsSpell, Spelled
    <2> DEFINE rhs == Generated.prods[p].rhs
               n == Len(rhs)
    <2>1. InputOK(input) /\ sets \in Seq(SUBSET Dotted(input))
      BY DEF GeneratorInv, Typed
    <2>2. /\ Generated.prods = [i \in DOMAIN input.prods |->
                                  [lhs |-> input.prods[i].lhs, rhs |-> input.prods[i].rhs,
                                   field |-> <<>>, alias |-> <<>>]]
          /\ Generated.states = Len(sets)
      BY DEF Generated
    <2>3. p \in DOMAIN input.prods /\ rhs = input.prods[p].rhs
      <3>1. DOMAIN Generated.prods = DOMAIN input.prods
        BY <2>2
      <3>2. p \in DOMAIN input.prods
        BY <3>1
      <3>3. Generated.prods[p] = [lhs |-> input.prods[p].lhs, rhs |-> input.prods[p].rhs,
                                  field |-> <<>>, alias |-> <<>>]
        BY <2>2, <3>2
      <3> QED
        BY <3>2, <3>3
    <2> HIDE DEF rhs
    <2>4. rhs \in Seq(SymbolIds(input)) /\ n \in Nat /\ DOMAIN rhs = 1 .. n
      <3>1. RawProductionOK(input, input.prods[p])
        BY <2>1, <2>3 DEF InputOK
      <3>2. rhs \in Seq(SymbolIds(input))
        BY <2>3, <3>1 DEF RawProductionOK
      <3> QED
        BY <3>2
    <2>5. AllProds(input)[p + 1].rhs = rhs /\ p + 1 \in Nat /\ p \in Nat
      <3>1. AllProds(input)[p + 1] = [lhs |-> input.prods[p].lhs, rhs |-> input.prods[p].rhs]
        BY <2>1, <2>3, ProdFacts
      <3>2. p \in Nat
        <4>1. Len(input.prods) \in Nat /\ DOMAIN input.prods = 1 .. Len(input.prods)
          BY <2>1, ProdFacts
        <4> QED
          BY <2>3, <4>1
      <3> QED
        BY <2>3, <3>1, <3>2
    <2>6. /\ \A i \in 0 .. n : q[i] \in States(Generated) /\ q[i] + 1 \in DOMAIN sets
          /\ \A i \in 1 .. n : i - 1 \in 0 .. n /\ i \in 0 .. n
          /\ n \in 0 .. n
      <3>1. \A i \in 0 .. n : q[i] \in States(Generated)
        BY DEF rhs
      <3>2. \A s \in States(Generated) : s + 1 \in DOMAIN sets
        <4>1. Len(sets) \in Nat /\ DOMAIN sets = 1 .. Len(sets)
          BY <2>1
        <4>2. States(Generated) = 0 .. Len(sets) - 1
          BY <2>2 DEF States
        <4> QED
          BY <4>1, <4>2
      <3> QED
        BY <2>4, <3>1, <3>2
    <2>7. PICK la : <<p + 1, n, la>> \in sets[q[n] + 1]
      <3>1. Says(input, an, sets, q[n] + 1, z, Reduce(p))
        BY <2>6, CellSays DEF rhs
      <3>2. /\ Reduce(p) # Accept
            /\ \A x : Reduce(p) # Shift(x) /\ Reduce(p) # Goto(x)
        BY DEF Reduce, Accept, Shift, Goto
      <3>3. PICK it \in sets[q[n] + 1] : NextIs(input, it) = {} /\ Reduce(p) = Reduce(it[1] - 1)
        BY <3>1, <3>2 DEF Says
      <3>4. it \in Dotted(input) /\ it \in Items(input)
        BY <2>1, <2>6 DEF Dotted
      <3>5. /\ it[1] \in DOMAIN AllProds(input) /\ it[2] \in Nat /\ it = <<it[1], it[2], it[3]>>
            /\ Len(RhsOf(input, it)) \in Nat
        BY <2>1, <3>4, ItemFacts
      <3>6. p = it[1] - 1
        BY <3>3 DEF Reduce
      <3>7. it[1] = p + 1
        <4>1. it[1] \in Int
          <5>1. Len(input.prods) \in Nat /\ DOMAIN AllProds(input) = 1 .. Len(input.prods) + 1
            BY <2>1, ProdFacts
          <5> QED
            BY <3>5, <5>1
        <4> QED
          BY <3>6, <4>1
      <3>8. RhsOf(input, it) = rhs
        BY <2>5, <3>7 DEF RhsOf
      <3>9. it[2] = n
        <4>1. it[2] <= n
          BY <3>4, <3>8 DEF Dotted
        <4>2. ~(it[2] < n)
          BY <3>3, <3>8 DEF NextIs
        <4> QED
          BY <2>4, <3>5, <4>1, <4>2
      <3> QED
        BY <3>5, <3>7, <3>9
    <2> DEFINE At(k) == <<p + 1, k, la>> \in sets[q[k] + 1]
    \* One move back.
    <2>8. ASSUME NEW k \in 1 .. n, At(k), NEW a, Moves(Generated, q[k - 1], a, q[k])
          PROVE  At(k - 1) /\ a = rhs[k]
      <3>1. k # 0 /\ k \in Nat /\ <<p + 1, k, la>>[2] = k
        BY <2>4
      <3>2. PICK i \in sets[q[k - 1] + 1] :
              a \in NextIs(input, i) /\ <<p + 1, k, la>> = <<i[1], i[2] + 1, i[3]>>
        <4>1. q[k - 1] \in States(Generated) /\ q[k] \in States(Generated)
          BY <2>6
        <4>2. <<p + 1, k, la>> \in sets[q[k] + 1]
          BY <2>8
        <4>3. Behind(q[k - 1], a, <<p + 1, k, la>>)
          BY <2>8, <3>1, <4>1, <4>2, MoveBack
        <4> QED
          BY <4>3 DEF Behind
      <3>3. i \in Items(input)
        <4>1. q[k - 1] + 1 \in DOMAIN sets
          BY <2>6
        <4>2. sets[q[k - 1] + 1] \in SUBSET Dotted(input)
          BY <2>1, <4>1
        <4> QED
          BY <4>2 DEF Dotted
      <3>4. i[2] \in Nat /\ i = <<i[1], i[2], i[3]>>
        BY <2>1, <3>3, ItemFacts
      <3>5. i[1] = p + 1 /\ i[2] + 1 = k /\ i[3] = la
        BY <3>2
      <3>6. i[2] = k - 1
        BY <3>1, <3>4, <3>5
      <3>7. At(k - 1)
        BY <3>2, <3>4, <3>5, <3>6
      <3>8. RhsOf(input, i) = rhs
        BY <2>5, <3>5 DEF RhsOf
      <3>9. a = rhs[i[2] + 1]
        BY <3>2, <3>8 DEF NextIs
      <3> QED
        BY <3>5, <3>7, <3>9
    \* And so back to the first state.
    <2>9. \A k \in 0 .. n : At(n - k)
      <3> DEFINE S == {k \in 0 .. n : At(n - k)}
      <3>1. 0 \in S
        BY <2>4, <2>7
      <3>2. ASSUME NEW k \in 1 .. n, k - 1 \in S
            PROVE  k \in S
        <4> DEFINE m == n - (k - 1)
        <4>1. m \in 1 .. n /\ m - 1 = n - k /\ At(m)
          BY <2>4, <3>2
        <4>2. \E a : Moves(Generated, q[m - 1], a, q[m])
          <5> HIDE DEF m
          <5> QED
            BY <2>4, <4>1 DEF rhs
        <4>3. At(m - 1)
          <5> HIDE DEF m, At
          <5> QED
            BY <2>8, <4>1, <4>2
        <4>4. k \in 0 .. n
          BY <2>4
        <4> QED
          BY <4>1, <4>3, <4>4
      <3> HIDE DEF S, At
      <3>3. \A k \in 0 .. n : k \in S
        BY <2>4, <3>1, <3>2, UpTo
      <3> QED
        BY <3>3 DEF S
    <2>10. j \in 1 .. n
      BY <2>4 DEF rhs
    <2>11. At(j)
      <3>1. n - j \in 0 .. n /\ n - (n - j) = j
        BY <2>4, <2>10
      <3> HIDE DEF At
      <3> QED
        BY <2>9, <3>1
    <2> HIDE DEF At
    <2>12. b = rhs[j]
      BY <2>8, <2>10, <2>11
    <2> QED
      BY <2>12 DEF rhs
  <1> QED
    BY <1>1, GeneratorInductive, DrawnAlways, PTL
=============================================================================
