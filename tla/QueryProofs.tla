------------------------------ MODULE QueryProofs ------------------------------
(***************************************************************************)
(* Proofs about the readers of a frozen tree that compile and run queries: *)
(* the type invariant, what a query yields, and how highlight lays the     *)
(* captures over each other.                                               *)
(***************************************************************************)
EXTENDS TreeProofs

-------------------------------------------------------------------------------
(***************************************************************************)
(* The choice of children.                                                 *)
(***************************************************************************)

LEMMA LeastFacts ==
  ASSUME NEW K \in Nat, NEW I \in SUBSET (1 .. K)
  PROVE  /\ LeastOr0(I) \in 0 .. K
         /\ LeastOr0(I) = 0 <=> I = {}
         /\ I # {} => LeastOr0(I) \in I /\ \A i \in I : LeastOr0(I) <= i
  <1>1. CASE I = {}
    BY <1>1 DEF LeastOr0
  <1>2. CASE I # {}
    <2>1. I \in SUBSET Nat
      OBVIOUS
    <2>2. \E x \in I : \A y \in I : x <= y
      BY <1>2, <2>1, LeastExists
    <2>3. Min(I) \in I /\ \A y \in I : Min(I) <= y
      BY <2>2 DEF Min
    <2>4. LeastOr0(I) = Min(I)
      BY <1>2 DEF LeastOr0
    <2>5. \A i \in I : i \in 1 .. K
      OBVIOUS
    <2>6. LeastOr0(I) \in I /\ \A y \in I : LeastOr0(I) <= y
      BY <2>3, <2>4
    <2>7. LeastOr0(I) \in 0 .. K /\ LeastOr0(I) # 0
      <3>1. PICK x : x = LeastOr0(I)
        OBVIOUS
      <3>2. x \in 1 .. K
        BY <2>5, <2>6, <3>1
      <3> QED
        BY <3>1, <3>2
    <2> QED
      BY <1>2, <2>6, <2>7
  <1> QED
    BY <1>1, <1>2

\* Taking the first place each pattern finds behind the one before.
TakesFirst(L, W, at) ==
  /\ at[0] = 0
  /\ \A j \in 1 .. L : at[j] = IF j > 1 /\ at[j - 1] = 0 THEN 0
                               ELSE LeastOr0({i \in W[j] : i > at[j - 1]})

LaidOut(L, K, W, g) ==
  /\ g \in [1 .. L -> 1 .. K]
  /\ \A i, j \in 1 .. L : i < j => g[i] < g[j]
  /\ \A j \in 1 .. L : g[j] \in W[j]

FirstBehind(V, x, y) == y = LeastOr0({i \in V : i > x})

LEMMA GreedyStep ==
  ASSUME NEW K \in Nat, NEW V \in SUBSET (1 .. K), NEW x \in 0 .. K, NEW y, FirstBehind(V, x, y)
  PROVE  /\ y \in 0 .. K
         /\ y # 0 => y \in V /\ x < y
         /\ \A i \in V : i > x => y # 0 /\ y <= i
  <1> DEFINE I == {i \in V : i > x}
  <1>1. I \in SUBSET (1 .. K) /\ y = LeastOr0(I)
    BY DEF FirstBehind
  <1>2. \A i \in I : i \in V /\ x < i
    OBVIOUS
  <1>3. \A i \in V : i > x => i \in I
    OBVIOUS
  <1> HIDE DEF I
  <1>4. /\ LeastOr0(I) \in 0 .. K
        /\ LeastOr0(I) = 0 <=> I = {}
        /\ I # {} => LeastOr0(I) \in I /\ \A i \in I : LeastOr0(I) <= i
    BY <1>1, LeastFacts
  <1> QED
    BY <1>1, <1>2, <1>3, <1>4

\* It finds places for all patterns exactly if there are such places.
LEMMA Greedy ==
  ASSUME NEW L \in Nat, NEW K \in Nat, NEW W, \A j \in 1 .. L : W[j] \in SUBSET (1 .. K),
         NEW at, TakesFirst(L, W, at)
  PROVE  (\A j \in 1 .. L : at[j] # 0) <=> (\E g : LaidOut(L, K, W, g))
  <1>1. /\ at[0] = 0
        /\ \A j \in 1 .. L : at[j] = IF j > 1 /\ at[j - 1] = 0 THEN 0
                                     ELSE LeastOr0({i \in W[j] : i > at[j - 1]})
    BY DEF TakesFirst
  <1>2. \A j \in 0 .. L : at[j] \in 0 .. K
    <2> DEFINE S == {j \in 0 .. L : at[j] \in 0 .. K}
    <2>1. 0 \in S
      BY <1>1
    <2>2. ASSUME NEW j \in 1 .. L, j - 1 \in S
          PROVE  j \in S
      <3>1. at[j - 1] \in 0 .. K /\ j \in 0 .. L
        BY <2>2
      <3>2. PICK x, V, y : x = at[j - 1] /\ V = W[j] /\ y = LeastOr0({i \in V : i > x})
        OBVIOUS
      <3>3. y \in 0 .. K
        <4>1. x \in 0 .. K /\ V \in SUBSET (1 .. K) /\ FirstBehind(V, x, y)
          BY <3>1, <3>2 DEF FirstBehind
        <4> QED
          BY <4>1, GreedyStep
      <3>4. at[j] = 0 \/ at[j] = y
        BY <1>1, <3>2
      <3>5. 0 \in 0 .. K
        OBVIOUS
      <3> QED
        BY <3>1, <3>3, <3>4, <3>5
    <2> HIDE DEF S
    <2>3. \A j \in 0 .. L : j \in S
      BY <2>1, <2>2, UpTo
    <2> QED
      BY <2>3 DEF S
  <1>3. ASSUME NEW j \in 1 .. L, j = 1 \/ at[j - 1] # 0
        PROVE  /\ at[j - 1] \in 0 .. K /\ at[j] \in 0 .. K
               /\ at[j] # 0 => at[j] \in W[j] /\ at[j - 1] < at[j]
               /\ \A i \in W[j] : i > at[j - 1] => at[j] # 0 /\ at[j] <= i
    <2>1. at[j] = LeastOr0({i \in W[j] : i > at[j - 1]})
      BY <1>1, <1>3
    <2>2. j - 1 \in 0 .. L /\ j \in 0 .. L
      OBVIOUS
    <2>3. PICK x, V, y : x = at[j - 1] /\ V = W[j] /\ y = at[j]
      OBVIOUS
    <2>4. x \in 0 .. K /\ V \in SUBSET (1 .. K) /\ FirstBehind(V, x, y)
      BY <1>2, <2>1, <2>2, <2>3 DEF FirstBehind
    <2>5. /\ y \in 0 .. K
          /\ y # 0 => y \in V /\ x < y
          /\ \A i \in V : i > x => y # 0 /\ y <= i
      BY <2>4, GreedyStep
    <2> QED
      BY <2>3, <2>4, <2>5
  <1>4. ASSUME \A j \in 1 .. L : at[j] # 0
        PROVE  \E g : LaidOut(L, K, W, g)
    <2> DEFINE g == [j \in 1 .. L |-> at[j]]
               S == {j \in 0 .. L : \A i \in 1 .. L : i < j => at[i] < at[j]}
    <2>1. \A j \in 1 .. L : at[j] \in 1 .. K /\ at[j] \in W[j] /\ at[j - 1] < at[j]
      <3> TAKE j \in 1 .. L
      <3>1. j = 1 \/ at[j - 1] # 0
        BY <1>4
      <3>2. at[j] \in 0 .. K /\ at[j] \in W[j] /\ at[j - 1] < at[j] /\ at[j] # 0
        BY <1>3, <1>4, <3>1
      <3> QED
        BY <3>2
    <2>2. 0 \in S
      OBVIOUS
    <2>3. ASSUME NEW j \in 1 .. L, j - 1 \in S
          PROVE  j \in S
      <3>1. j - 1 \in 0 .. L /\ j \in 0 .. L /\ at[j - 1] \in 0 .. K /\ at[j] \in 1 .. K
        BY <1>2, <2>1
      <3>2. \A i \in 1 .. L : i < j => i = j - 1 \/ i < j - 1
        OBVIOUS
      <3>3. \A i \in 1 .. L : at[i] \in 1 .. K
        BY <2>1
      <3>4. ASSUME NEW i \in 1 .. L, i < j
            PROVE  at[i] < at[j]
        <4>1. at[i] <= at[j - 1]
          BY <2>3, <3>1, <3>2, <3>3, <3>4
        <4> QED
          BY <2>1, <3>1, <3>3, <4>1
      <3> QED
        BY <3>1, <3>4
    <2> HIDE DEF S
    <2>4. \A j \in 0 .. L : j \in S
      BY <2>2, <2>3, UpTo
    <2>5. \A i, j \in 1 .. L : i < j => at[i] < at[j]
      <3>1. \A j \in 1 .. L : j \in 0 .. L
        OBVIOUS
      <3> QED
        BY <2>4, <3>1 DEF S
    <2>6. g \in [1 .. L -> 1 .. K] /\ \A j \in 1 .. L : g[j] = at[j]
      BY <2>1
    <2> HIDE DEF g
    <2>7. LaidOut(L, K, W, g)
      BY <2>1, <2>5, <2>6 DEF LaidOut
    <2> QED
      BY <2>7
  <1>5. ASSUME NEW g, LaidOut(L, K, W, g)
        PROVE  \A j \in 1 .. L : at[j] # 0
    <2> DEFINE S == {j \in 0 .. L : j = 0 \/ (at[j] # 0 /\ at[j] <= g[j])}
    <2>1. /\ \A j \in 1 .. L : g[j] \in 1 .. K /\ g[j] \in W[j]
          /\ \A i, j \in 1 .. L : i < j => g[i] < g[j]
      BY <1>5 DEF LaidOut
    <2>2. 0 \in S
      OBVIOUS
    <2>3. ASSUME NEW j \in 1 .. L, j - 1 \in S
          PROVE  j \in S
      <3>1. j \in 0 .. L /\ g[j] \in 1 .. K /\ g[j] \in W[j]
        BY <2>1
      <3>2. (j = 1 \/ at[j - 1] # 0) /\ g[j] > at[j - 1]
        <4>1. CASE j = 1
          <5>1. at[j - 1] = 0
            BY <1>1, <4>1
          <5> QED
            BY <3>1, <4>1, <5>1
        <4>2. CASE j # 1
          <5>1. j - 1 \in 1 .. L /\ j - 1 < j /\ j - 1 # 0
            BY <4>2
          <5>2. at[j - 1] # 0 /\ at[j - 1] <= g[j - 1]
            BY <2>3, <5>1
          <5>3. g[j - 1] < g[j] /\ g[j - 1] \in 1 .. K
            BY <2>1, <5>1
          <5>4. at[j - 1] \in 0 .. K
            <6>1. j - 1 \in 0 .. L
              OBVIOUS
            <6> QED
              BY <1>2, <6>1
          <5> QED
            BY <3>1, <5>2, <5>3, <5>4
        <4> QED
          BY <4>1, <4>2
      <3>3. at[j] # 0 /\ at[j] <= g[j]
        BY <1>3, <3>1, <3>2
      <3> QED
        BY <3>1, <3>3
    <2> HIDE DEF S
    <2>4. \A j \in 0 .. L : j \in S
      BY <2>2, <2>3, UpTo
    <2>5. \A j \in 1 .. L : j \in 0 .. L /\ j # 0
      OBVIOUS
    <2> QED
      BY <2>4, <2>5 DEF S
  <1> QED
    BY <1>4, <1>5

-------------------------------------------------------------------------------
(***************************************************************************)
(* try_match.                                                              *)
(***************************************************************************)

\* A pattern that names patterns before it only, and captures by a name there is.
Bounded(p, k, c) ==
  /\ p.kids \in Seq(1 .. k)
  /\ Len(p.kids) \in Nat /\ DOMAIN p.kids = 1 .. Len(p.kids)
  /\ \A j \in DOMAIN p.kids : p.kids[j] \in 1 .. k
  /\ Len(p.fields) \in Nat /\ DOMAIN p.fields = 1 .. Len(p.fields)
  /\ \A f \in DOMAIN p.fields : p.fields[f].pattern \in 1 .. k
  /\ p.capture \in 0 .. c

PartsOK(parts, c) ==
  /\ Len(parts) \in Nat /\ DOMAIN parts = 1 .. Len(parts)
  /\ \A p \in DOMAIN parts : Bounded(parts[p], p - 1, c)

LEMMA FirstAfterFacts ==
  ASSUME NEW r, TreeOK(r.tree), NEW n \in DOMAIN r.tree.nodes, NEW m, NEW p, NEW w
  PROVE  FirstAfter(r, m, p, n, w) \in 0 .. Len(KidsOf(r.tree, n))
  <1> DEFINE I == {i \in DOMAIN KidsOf(r.tree, n) : i > w /\ m[p][KidsOf(r.tree, n)[i]] # <<>>}
             K == Len(KidsOf(r.tree, n))
  <1>1. K \in Nat /\ DOMAIN KidsOf(r.tree, n) = 1 .. K
    BY TreeFacts
  <1>2. I \in SUBSET (1 .. K) /\ FirstAfter(r, m, p, n, w) = LeastOr0(I)
    BY <1>1 DEF FirstAfter
  <1> HIDE DEF I, K
  <1>3. LeastOr0(I) \in 0 .. K
    BY <1>1, <1>2, LeastFacts
  <1> QED
    BY <1>2, <1>3 DEF K

\* What Taken is.
TakeStep(r, m, patterns, n, j, w) ==
  IF j > 1 /\ w = 0 THEN 0 ELSE FirstAfter(r, m, patterns[j], n, w)
TakeRuns(f, r, m, patterns, n) ==
  f = [j \in 0 .. Len(patterns) |-> IF j = 0 THEN 0 ELSE TakeStep(r, m, patterns, n, j, f[j - 1])]

Takes(r, m, patterns, n, at) ==
  /\ at[0] = 0
  /\ \A j \in 1 .. Len(patterns) : at[j] = TakeStep(r, m, patterns, n, j, at[j - 1])
  /\ Taken(r, m, patterns, n) = [j \in 1 .. Len(patterns) |-> at[j]]

LEMMA TakenFacts ==
  ASSUME NEW r, TreeOK(r.tree), NEW n \in DOMAIN r.tree.nodes, NEW m, NEW patterns,
         Len(patterns) \in Nat, DOMAIN patterns = 1 .. Len(patterns)
  PROVE  \E at : Takes(r, m, patterns, n, at)
  <1> DEFINE L == Len(patterns)
             V == 0 .. Len(KidsOf(r.tree, n))
             Step(j, w) == TakeStep(r, m, patterns, n, j, w)
             F == [j \in 1 .. L |-> [w \in V |-> Step(j, w)]]
  <1>1. 0 \in V
    <2>1. Len(KidsOf(r.tree, n)) \in Nat
      BY TreeFacts
    <2> QED
      BY <2>1
  <1>2. \A j \in 1 .. L, w \in V : Step(j, w) \in V
    <2> TAKE j \in 1 .. L, w \in V
    <2>1. FirstAfter(r, m, patterns[j], n, w) \in V
      BY FirstAfterFacts
    <2> HIDE DEF V
    <2> QED
      BY <1>1, <2>1 DEF TakeStep
  <1> HIDE DEF V
  <1>3. F \in [1 .. L -> [V -> V]]
    <2> HIDE DEF Step, L
    <2> QED
      BY <1>2
  <1>4. PICK f : Iterates(f, L, V, 0, F)
    <2>1. L \in Nat
      OBVIOUS
    <2> HIDE DEF F, L
    <2> QED
      BY <1>1, <1>3, <2>1, Iterated
  <1>5. f \in [0 .. L -> V] /\ f[0] = 0 /\ \A j \in 1 .. L : f[j] = Step(j, f[j - 1])
    <2>1. f \in [0 .. L -> V] /\ f[0] = 0 /\ \A k \in 1 .. L : f[k] = F[k][f[k - 1]]
      BY <1>4 DEF Iterates
    <2> HIDE DEF Step
    <2>2. \A k \in 1 .. L : f[k - 1] \in V
      BY <2>1
    <2> HIDE DEF L
    <2> QED
      BY <2>1, <2>2
  <1> HIDE DEF F
  <1>6. TakeRuns(f, r, m, patterns, n)
    <2>1. f = [j \in 0 .. L |-> f[j]]
      BY <1>5
    <2> HIDE DEF Step
    <2>2. \A j \in 0 .. L : f[j] = IF j = 0 THEN 0 ELSE Step(j, f[j - 1])
      BY <1>5
    <2> HIDE DEF L
    <2>3. [j \in 0 .. L |-> f[j]] = [j \in 0 .. L |-> IF j = 0 THEN 0 ELSE Step(j, f[j - 1])]
      BY <2>2
    <2> QED
      BY <2>1, <2>3 DEF TakeRuns, L, Step
  <1> DEFINE g == CHOOSE h : TakeRuns(h, r, m, patterns, n)
  <1>7. Taken(r, m, patterns, n) = [j \in 1 .. L |-> g[j]]
    BY DEF Taken, TakeRuns, TakeStep
  <1>8. TakeRuns(g, r, m, patterns, n)
    BY <1>6
  <1> HIDE DEF g, Step
  <1>9. \A j \in 0 .. L : g[j] = IF j = 0 THEN 0 ELSE TakeStep(r, m, patterns, n, j, g[j - 1])
    BY <1>8 DEF TakeRuns
  <1>10. 0 \in 0 .. L /\ \A j \in 1 .. L : j \in 0 .. L /\ j # 0
    OBVIOUS
  <1>11. Takes(r, m, patterns, n, g)
    BY <1>7, <1>9, <1>10 DEF Takes
  <1> QED
    BY <1>11

\* The parts of try_match.
Held(r, m, p, n) == [f \in DOMAIN p.fields |-> LeastOr0(OfField(r, m, p.fields[f], n))]
FieldParts(r, m, p, n) ==
  [f \in DOMAIN p.fields |-> m[p.fields[f].pattern][KidsOf(r.tree, n)[Held(r, m, p, n)[f]]][1]]
KidParts(r, m, p, n) ==
  [j \in DOMAIN p.kids |-> m[p.kids[j]][KidsOf(r.tree, n)[Taken(r, m, p.kids, n)[j]]][1]]
Own(p, n) == IF p.capture = 0 THEN <<>> ELSE <<[place |-> p.capture, node |-> n]>>
Fits(r, m, p, n) ==
  /\ Suits(r, p, n)
  /\ 0 \notin Range(Held(r, m, p, n))
  /\ 0 \notin Range(Taken(r, m, p.kids, n))

LEMMA TryParts ==
  ASSUME NEW r, NEW m, NEW p, NEW n
  PROVE  TryMatch(r, m, p, n) =
           IF Fits(r, m, p, n)
           THEN <<FlattenSeq(FieldParts(r, m, p, n)) \o FlattenSeq(KidParts(r, m, p, n)) \o Own(p, n)>>
           ELSE <<>>
  <1> DEFINE held == [f \in DOMAIN p.fields |-> LeastOr0(OfField(r, m, p.fields[f], n))]
             taken == Taken(r, m, p.kids, n)
             kids == [j \in DOMAIN taken |-> m[p.kids[j]][KidsOf(r.tree, n)[taken[j]]][1]]
             fields == [f \in DOMAIN held |-> m[p.fields[f].pattern][KidsOf(r.tree, n)[held[f]]][1]]
             own == IF p.capture = 0 THEN <<>> ELSE <<[place |-> p.capture, node |-> n]>>
  <1>1. TryMatch(r, m, p, n) =
          IF ~Suits(r, p, n) \/ 0 \in Range(held) \/ 0 \in Range(taken) THEN <<>>
          ELSE <<FlattenSeq(fields) \o FlattenSeq(kids) \o own>>
    BY DEF TryMatch
  <1>2. DOMAIN taken = DOMAIN p.kids
    BY DEF Taken
  <1>3. kids = KidParts(r, m, p, n) /\ held = Held(r, m, p, n) /\ own = Own(p, n)
    BY <1>2 DEF KidParts, Held, Own
  <1>4. fields = FieldParts(r, m, p, n)
    <2>1. DOMAIN held = DOMAIN p.fields /\ held = Held(r, m, p, n)
      BY <1>3
    <2> HIDE DEF held
    <2> QED
      BY <2>1 DEF FieldParts
  <1> HIDE DEF held, taken, kids, fields, own
  <1> QED
    BY <1>1, <1>3, <1>4 DEF Fits, taken

\* The children the fields and the patterns of children found, where they found one.
LEMMA HeldFacts ==
  ASSUME NEW r, TreeOK(r.tree), NEW n \in DOMAIN r.tree.nodes, NEW m, NEW p
  PROVE  /\ 0 \notin Range(Held(r, m, p, n))
              <=> \A f \in DOMAIN p.fields : OfField(r, m, p.fields[f], n) # {}
         /\ \A f \in DOMAIN p.fields : OfField(r, m, p.fields[f], n) # {} =>
              Held(r, m, p, n)[f] \in OfField(r, m, p.fields[f], n)
  <1> DEFINE K == Len(KidsOf(r.tree, n))
  <1>1. K \in Nat /\ DOMAIN KidsOf(r.tree, n) = 1 .. K
    BY TreeFacts
  <1>2. ASSUME NEW f \in DOMAIN p.fields
        PROVE  /\ Held(r, m, p, n)[f] = 0 <=> OfField(r, m, p.fields[f], n) = {}
               /\ OfField(r, m, p.fields[f], n) # {} =>
                    Held(r, m, p, n)[f] \in OfField(r, m, p.fields[f], n)
    <2>1. PICK I : I = OfField(r, m, p.fields[f], n)
      OBVIOUS
    <2>2. I \in SUBSET (1 .. K)
      BY <1>1, <2>1 DEF OfField
    <2>3. Held(r, m, p, n)[f] = LeastOr0(I)
      BY <2>1 DEF Held
    <2> HIDE DEF K
    <2>4. (LeastOr0(I) = 0 <=> I = {}) /\ (I # {} => LeastOr0(I) \in I)
      BY <1>1, <2>2, LeastFacts
    <2> QED
      BY <2>1, <2>3, <2>4
  <1>3. DOMAIN Held(r, m, p, n) = DOMAIN p.fields
    BY DEF Held
  <1>4. 0 \notin Range(Held(r, m, p, n)) <=> \A f \in DOMAIN p.fields : Held(r, m, p, n)[f] # 0
    BY <1>3 DEF Range
  <1> QED
    BY <1>2, <1>4

Matching(r, m, p, n, j) ==
  {i \in DOMAIN KidsOf(r.tree, n) : m[p.kids[j]][KidsOf(r.tree, n)[i]] # <<>>}

LEMMA TakenPlaces ==
  ASSUME NEW r, TreeOK(r.tree), NEW n \in DOMAIN r.tree.nodes, NEW m, NEW p, NEW k, NEW c,
         Bounded(p, k, c), NEW W, W = [j \in DOMAIN p.kids |-> Matching(r, m, p, n, j)]
  PROVE  /\ 0 \notin Range(Taken(r, m, p.kids, n))
              <=> \E g : LaidOut(Len(p.kids), Len(KidsOf(r.tree, n)), W, g)
         /\ \A j \in DOMAIN p.kids : Taken(r, m, p.kids, n)[j] # 0 =>
              Taken(r, m, p.kids, n)[j] \in Matching(r, m, p, n, j)
  <1> DEFINE K == Len(KidsOf(r.tree, n))
             L == Len(p.kids)
             T == Taken(r, m, p.kids, n)
  <1>1. K \in Nat /\ DOMAIN KidsOf(r.tree, n) = 1 .. K
    BY TreeFacts
  <1>2. L \in Nat /\ DOMAIN p.kids = 1 .. L
    BY DEF Bounded
  <1>3. PICK at : Takes(r, m, p.kids, n, at)
    BY <1>2, TakenFacts
  <1>4. /\ at[0] = 0 /\ T = [j \in 1 .. L |-> at[j]]
        /\ \A j \in 1 .. L : at[j] = TakeStep(r, m, p.kids, n, j, at[j - 1])
    BY <1>3 DEF Takes
  <1>5. \A j \in 1 .. L : T[j] = at[j]
    BY <1>4
  <1>6. DOMAIN T = 1 .. L
    BY <1>4
  <1>7. \A j \in 1 .. L : W[j] = Matching(r, m, p, n, j)
    BY <1>2
  <1>8. \A j \in 1 .. L : W[j] \in SUBSET (1 .. K)
    BY <1>1, <1>7 DEF Matching
  <1> HIDE DEF K, T
  <1>9. \A j \in 1 .. L : \A w : FirstAfter(r, m, p.kids[j], n, w) = LeastOr0({i \in W[j] : i > w})
    <2> TAKE j \in 1 .. L
    <2> TAKE w
    <2>1. {i \in DOMAIN KidsOf(r.tree, n) : i > w /\ m[p.kids[j]][KidsOf(r.tree, n)[i]] # <<>>}
            = {i \in W[j] : i > w}
      BY <1>7 DEF Matching
    <2> QED
      BY <2>1 DEF FirstAfter
  <1>10. TakesFirst(L, W, at)
    <2>1. \A j \in 1 .. L : at[j] = IF j > 1 /\ at[j - 1] = 0 THEN 0
                                    ELSE LeastOr0({i \in W[j] : i > at[j - 1]})
      BY <1>4, <1>9 DEF TakeStep
    <2> QED
      BY <1>4, <2>1 DEF TakesFirst
  <1>11. (\A j \in 1 .. L : at[j] # 0) <=> (\E g : LaidOut(L, K, W, g))
    <2> HIDE DEF L
    <2> QED
      BY <1>1, <1>2, <1>8, <1>10, Greedy
  <1>12. 0 \notin Range(T) <=> \A j \in 1 .. L : at[j] # 0
    BY <1>5, <1>6 DEF Range
  <1>13. ASSUME NEW j \in 1 .. L, at[j] # 0
         PROVE  at[j] \in W[j]
    <2>1. PICK I : I = {i \in W[j] : i > at[j - 1]}
      OBVIOUS
    <2>2. at[j] = LeastOr0(I)
      BY <1>10, <1>13, <2>1 DEF TakesFirst
    <2>3. I \in SUBSET (1 .. K) /\ I \subseteq W[j]
      BY <1>8, <2>1
    <2> QED
      BY <1>1, <1>13, <2>2, <2>3, LeastFacts
  <1> QED
    BY <1>2, <1>5, <1>7, <1>11, <1>12, <1>13 DEF K, T

\* A pattern fits exactly where it lies, if that holds of the patterns in it.
LEMMA FitsLies ==
  ASSUME NEW r, TreeOK(r.tree), NEW n \in DOMAIN r.tree.nodes, NEW m, NEW e, NEW p, NEW k, NEW c,
         Bounded(p, k, c),
         \A q \in 1 .. k, x \in DOMAIN r.tree.nodes : m[q][x] # <<>> <=> e[q][x]
  PROVE  Fits(r, m, p, n) <=> Lies(r, e, p, n)
  <1> DEFINE K == Len(KidsOf(r.tree, n))
             L == Len(p.kids)
             W == [j \in DOMAIN p.kids |-> Matching(r, m, p, n, j)]
             Kid(i) == KidsOf(r.tree, n)[i]
  <1>1. K \in Nat /\ DOMAIN KidsOf(r.tree, n) = 1 .. K /\ \A i \in 1 .. K : Kid(i) \in DOMAIN r.tree.nodes
    BY TreeFacts, UnderFacts
  <1>2. /\ L \in Nat /\ DOMAIN p.kids = 1 .. L
        /\ \A j \in DOMAIN p.kids : p.kids[j] \in 1 .. k
        /\ \A f \in DOMAIN p.fields : p.fields[f].pattern \in 1 .. k
    BY DEF Bounded
  <1>3. \A f \in DOMAIN p.fields :
          OfField(r, m, p.fields[f], n) # {}
            <=> \E i \in DOMAIN KidsOf(r.tree, n) :
                  /\ r.fieldsNamed
                  /\ r.tree.nodes[Kid(i)].field = p.fields[f].field
                  /\ e[p.fields[f].pattern][Kid(i)]
    <2> HIDE DEF K
    <2> QED
      BY <1>1, <1>2 DEF OfField
  <1>4. \A j \in 1 .. L : \A i \in 1 .. K : i \in W[j] <=> e[p.kids[j]][Kid(i)]
    <2> HIDE DEF K
    <2> QED
      BY <1>1, <1>2 DEF Matching
  <1>5. 0 \notin Range(Taken(r, m, p.kids, n)) <=> \E g : LaidOut(L, K, W, g)
    <2>1. PICK w : w = W
      OBVIOUS
    <2> QED
      BY <2>1, TakenPlaces
  <1> HIDE DEF W, Kid
  <1>6. ASSUME NEW g, LaidOut(L, K, W, g)
        PROVE  \E h \in [DOMAIN p.kids -> DOMAIN KidsOf(r.tree, n)] :
                 /\ \A i, j \in DOMAIN h : i < j => h[i] < h[j]
                 /\ \A j \in DOMAIN h : e[p.kids[j]][Kid(h[j])]
    <2>1. /\ g \in [1 .. L -> 1 .. K]
          /\ \A i, j \in 1 .. L : i < j => g[i] < g[j]
          /\ \A j \in 1 .. L : g[j] \in W[j]
      BY <1>6 DEF LaidOut
    <2> HIDE DEF K, L
    <2>2. \A j \in 1 .. L : e[p.kids[j]][Kid(g[j])]
      BY <1>4, <2>1
    <2> QED
      BY <1>1, <1>2, <2>1, <2>2
  <1>7. ASSUME NEW h \in [DOMAIN p.kids -> DOMAIN KidsOf(r.tree, n)],
               \A i, j \in DOMAIN h : i < j => h[i] < h[j],
               \A j \in DOMAIN h : e[p.kids[j]][Kid(h[j])]
        PROVE  LaidOut(L, K, W, h)
    <2> HIDE DEF K, L
    <2>1. h \in [1 .. L -> 1 .. K] /\ DOMAIN h = 1 .. L
      BY <1>1, <1>2
    <2>2. \A j \in 1 .. L : h[j] \in W[j]
      BY <1>4, <1>7, <2>1
    <2> QED
      BY <1>7, <2>1, <2>2 DEF LaidOut
  <1>8. (\E g : LaidOut(L, K, W, g)) <=>
          \E g \in [DOMAIN p.kids -> DOMAIN KidsOf(r.tree, n)] :
            /\ \A i, j \in DOMAIN g : i < j => g[i] < g[j]
            /\ \A j \in DOMAIN g : e[p.kids[j]][Kid(g[j])]
    BY <1>6, <1>7
  <1> QED
    BY <1>3, <1>5, <1>8, HeldFacts DEF Fits, Lies, Kid

\* What a pattern captures at a node, or none.
CapturesOf(r, c) == [place : 1 .. c, node : DOMAIN r.tree.nodes]
Outcomes(r, c) == {<<>>} \cup {<<s>> : s \in Seq(CapturesOf(r, c))}

LEMMA TryTyped ==
  ASSUME NEW r, TreeOK(r.tree), NEW n \in DOMAIN r.tree.nodes, NEW m, NEW p, NEW k, NEW c,
         Bounded(p, k, c),
         \A q \in 1 .. k, x \in DOMAIN r.tree.nodes : m[q][x] \in Outcomes(r, c)
  PROVE  /\ TryMatch(r, m, p, n) \in Outcomes(r, c)
         /\ TryMatch(r, m, p, n) # <<>> <=> Fits(r, m, p, n)
  <1> DEFINE C == CapturesOf(r, c)
             V == Seq(C)
             fields == FieldParts(r, m, p, n)
             kids == KidParts(r, m, p, n)
             own == Own(p, n)
             Kid(i) == KidsOf(r.tree, n)[i]
  <1>1. ASSUME Fits(r, m, p, n)
        PROVE  FlattenSeq(fields) \o FlattenSeq(kids) \o own \in V
    <2>1. /\ Len(p.kids) \in Nat /\ DOMAIN p.kids = 1 .. Len(p.kids)
          /\ \A j \in DOMAIN p.kids : p.kids[j] \in 1 .. k
          /\ Len(p.fields) \in Nat /\ DOMAIN p.fields = 1 .. Len(p.fields)
          /\ \A f \in DOMAIN p.fields : p.fields[f].pattern \in 1 .. k
          /\ p.capture \in 0 .. c
      BY DEF Bounded
    <2>2. \A i \in DOMAIN KidsOf(r.tree, n) : Kid(i) \in DOMAIN r.tree.nodes
      BY TreeFacts, UnderFacts
    <2>3. \A q \in 1 .. k, x \in DOMAIN r.tree.nodes : m[q][x] # <<>> => m[q][x][1] \in V
      <3> TAKE q \in 1 .. k, x \in DOMAIN r.tree.nodes
      <3>1. ASSUME m[q][x] # <<>>
            PROVE  m[q][x][1] \in V
        <4>1. PICK s \in V : m[q][x] = <<s>>
          BY <3>1 DEF Outcomes
        <4> QED
          BY <4>1
      <3> QED
        BY <3>1
    <2>4. fields \in Seq(V)
      <3>1. \A f \in DOMAIN p.fields : Held(r, m, p, n)[f] \in OfField(r, m, p.fields[f], n)
        BY <1>1, HeldFacts DEF Fits
      <3> HIDE DEF V
      <3>2. \A f \in DOMAIN p.fields : fields[f] \in V
        BY <2>1, <2>2, <2>3, <3>1 DEF FieldParts, OfField
      <3>3. fields \in [1 .. Len(p.fields) -> V]
        BY <2>1, <3>2 DEF FieldParts
      <3> HIDE DEF fields
      <3> QED
        BY <2>1, <3>3
    <2>5. kids \in Seq(V)
      <3>1. PICK W : W = [j \in DOMAIN p.kids |-> Matching(r, m, p, n, j)]
        OBVIOUS
      <3>2. \A j \in DOMAIN p.kids : Taken(r, m, p.kids, n)[j] # 0
        <4>1. DOMAIN Taken(r, m, p.kids, n) = DOMAIN p.kids
          BY DEF Taken
        <4> QED
          BY <1>1, <4>1 DEF Fits, Range
      <3>3. \A j \in DOMAIN p.kids : Taken(r, m, p.kids, n)[j] \in Matching(r, m, p, n, j)
        BY <3>1, <3>2, TakenPlaces
      <3> HIDE DEF V
      <3>4. \A j \in DOMAIN p.kids : kids[j] \in V
        BY <2>1, <2>2, <2>3, <3>3 DEF KidParts, Matching
      <3>5. kids \in [1 .. Len(p.kids) -> V]
        BY <2>1, <3>4 DEF KidParts
      <3> HIDE DEF kids
      <3> QED
        BY <2>1, <3>5
    <2>6. own \in V
      <3>1. CASE p.capture = 0
        BY <3>1 DEF Own
      <3>2. CASE p.capture # 0
        <4>1. p.capture \in 1 .. c
          BY <2>1, <3>2
        <4>2. [place |-> p.capture, node |-> n] \in C
          BY <4>1 DEF CapturesOf
        <4> HIDE DEF C
        <4>3. <<[place |-> p.capture, node |-> n]>> \in Seq(C)
          BY <4>2
        <4> QED
          BY <3>2, <4>3 DEF Own
      <3> QED
        BY <3>1, <3>2
    <2> HIDE DEF fields, kids, own, C
    <2>7. PICK x, y, z : x = FlattenSeq(fields) /\ y = FlattenSeq(kids) /\ z = own
      OBVIOUS
    <2>8. x \in Seq(C) /\ y \in Seq(C) /\ z \in Seq(C)
      BY <2>4, <2>5, <2>6, <2>7, FlattenFacts
    <2>9. x \o y \o z \in Seq(C)
      BY <2>8
    <2> QED
      BY <2>7, <2>9
  <1> HIDE DEF fields, kids, own, V
  <1>2. TryMatch(r, m, p, n) = IF Fits(r, m, p, n)
                               THEN <<FlattenSeq(fields) \o FlattenSeq(kids) \o own>> ELSE <<>>
    BY TryParts DEF fields, kids, own
  <1>3. PICK w : w = FlattenSeq(fields) \o FlattenSeq(kids) \o own
    OBVIOUS
  <1>4. TryMatch(r, m, p, n) = IF Fits(r, m, p, n) THEN <<w>> ELSE <<>>
    BY <1>2, <1>3
  <1>5. Fits(r, m, p, n) => w \in V
    BY <1>1, <1>3
  <1>6. <<w>> # <<>>
    OBVIOUS
  <1> QED
    BY <1>4, <1>5, <1>6 DEF Outcomes, V, C

\* What a pattern captures depends on the patterns in it only.
LEMMA TryAgrees ==
  ASSUME NEW r, TreeOK(r.tree), NEW n \in DOMAIN r.tree.nodes, NEW f, NEW g, NEW p, NEW k, NEW c,
         Bounded(p, k, c), \A q \in 1 .. k : f[q] = g[q]
  PROVE  TryMatch(r, f, p, n) = TryMatch(r, g, p, n)
  <1> DEFINE L == Len(p.kids)
  <1>1. /\ L \in Nat /\ DOMAIN p.kids = 1 .. L
        /\ \A j \in DOMAIN p.kids : p.kids[j] \in 1 .. k
        /\ \A h \in DOMAIN p.fields : p.fields[h].pattern \in 1 .. k
    BY DEF Bounded
  <1>2. Held(r, f, p, n) = Held(r, g, p, n)
    <2>1. \A h \in DOMAIN p.fields : OfField(r, f, p.fields[h], n) = OfField(r, g, p.fields[h], n)
      BY <1>1 DEF OfField
    <2> QED
      BY <2>1 DEF Held
  <1>3. Taken(r, f, p.kids, n) = Taken(r, g, p.kids, n)
    <2>1. PICK a, b : Takes(r, f, p.kids, n, a) /\ Takes(r, g, p.kids, n, b)
      BY <1>1, TakenFacts
    <2>2. \A j \in 1 .. L : \A w : TakeStep(r, f, p.kids, n, j, w) = TakeStep(r, g, p.kids, n, j, w)
      <3>1. \A j \in 1 .. L : \A w : FirstAfter(r, f, p.kids[j], n, w) = FirstAfter(r, g, p.kids[j], n, w)
        BY <1>1 DEF FirstAfter
      <3> QED
        BY <3>1 DEF TakeStep
    <2> DEFINE S == {j \in 0 .. L : a[j] = b[j]}
    <2>3. 0 \in S
      BY <1>1, <2>1 DEF Takes
    <2>4. ASSUME NEW j \in 1 .. L, j - 1 \in S
          PROVE  j \in S
      <3>1. a[j] = TakeStep(r, f, p.kids, n, j, a[j - 1]) /\ b[j] = TakeStep(r, g, p.kids, n, j, b[j - 1])
        BY <2>1 DEF Takes
      <3>2. j \in 0 .. L /\ a[j - 1] = b[j - 1]
        BY <1>1, <2>4
      <3> QED
        BY <2>2, <3>1, <3>2
    <2> HIDE DEF S
    <2>5. \A j \in 0 .. L : j \in S
      BY <1>1, <2>3, <2>4, UpTo
    <2>6. \A j \in 1 .. L : a[j] = b[j]
      <3>1. \A j \in 1 .. L : j \in 0 .. L
        BY <1>1
      <3> QED
        BY <2>5, <3>1 DEF S
    <2> QED
      BY <2>1, <2>6 DEF Takes
  <1>4. FieldParts(r, f, p, n) = FieldParts(r, g, p, n)
    BY <1>1, <1>2 DEF FieldParts
  <1>5. KidParts(r, f, p, n) = KidParts(r, g, p, n)
    BY <1>1, <1>3 DEF KidParts
  <1>6. Fits(r, f, p, n) <=> Fits(r, g, p, n)
    BY <1>2, <1>3 DEF Fits
  <1> QED
    BY <1>4, <1>5, <1>6, TryParts

LEMMA LiesAgrees ==
  ASSUME NEW r, TreeOK(r.tree), NEW n \in DOMAIN r.tree.nodes, NEW f, NEW g, NEW p, NEW k, NEW c,
         Bounded(p, k, c), \A q \in 1 .. k : f[q] = g[q]
  PROVE  Lies(r, f, p, n) = Lies(r, g, p, n)
  <1>1. /\ \A j \in DOMAIN p.kids : f[p.kids[j]] = g[p.kids[j]]
        /\ \A h \in DOMAIN p.fields : f[p.fields[h].pattern] = g[p.fields[h].pattern]
    BY DEF Bounded
  <1>2. Lies(r, f, p, n) <=> Lies(r, g, p, n)
    <2>1. \A h \in [DOMAIN p.kids -> DOMAIN KidsOf(r.tree, n)] : DOMAIN h = DOMAIN p.kids
      OBVIOUS
    <2> QED
      BY <1>1, <2>1 DEF Lies
  <1> QED
    BY <1>2 DEF Lies

\* Both are defined by the patterns in a pattern, and so for all patterns.
Tries(f, r, parts, k) ==
  f = [p \in 1 .. k |-> [n \in DOMAIN r.tree.nodes |-> TryMatch(r, f, parts[p], n)]]
Laying(f, r, parts, k) ==
  f = [p \in 1 .. k |-> [n \in DOMAIN r.tree.nodes |-> Lies(r, f, parts[p], n)]]

LEMMA TriesExist ==
  ASSUME NEW r, TreeOK(r.tree), NEW parts, NEW c, PartsOK(parts, c)
  PROVE  \E f : Tries(f, r, parts, Len(parts))
  <1> DEFINE N == Len(parts)
             D == DOMAIN r.tree.nodes
             S == {k \in 0 .. N : \E f : Tries(f, r, parts, k)}
  <1>1. N \in Nat /\ DOMAIN parts = 1 .. N /\ \A p \in 1 .. N : Bounded(parts[p], p - 1, c)
    BY DEF PartsOK
  <1>2. 0 \in S
    <2>1. <<>> = [p \in 1 .. 0 |-> [n \in D |-> TryMatch(r, <<>>, parts[p], n)]]
      OBVIOUS
    <2>2. Tries(<<>>, r, parts, 0)
      BY <2>1 DEF Tries
    <2> QED
      BY <1>1, <2>2
  <1>3. ASSUME NEW k \in 1 .. N, k - 1 \in S
        PROVE  k \in S
    <2>1. PICK f : Tries(f, r, parts, k - 1)
      BY <1>3
    <2> DEFINE Row(h, p) == [n \in D |-> TryMatch(r, h, parts[p], n)]
               g == [p \in 1 .. k |-> IF p = k THEN Row(f, k) ELSE f[p]]
    <2>2. \A p \in 1 .. k - 1 : f[p] = Row(f, p)
      BY <2>1 DEF Tries
    <2>3. \A p \in 1 .. k - 1 : g[p] = f[p]
      OBVIOUS
    <2>4. \A p \in 1 .. k : Row(g, p) = Row(f, p)
      <3> HIDE DEF g
      <3> SUFFICES ASSUME NEW p \in 1 .. k, NEW n \in D
                   PROVE  TryMatch(r, g, parts[p], n) = TryMatch(r, f, parts[p], n)
        OBVIOUS
      <3>1. PICK q, j : q = parts[p] /\ j = p - 1
        OBVIOUS
      <3>2. Bounded(q, j, c)
        BY <1>1, <3>1
      <3>3. \A i \in 1 .. j : g[i] = f[i]
        BY <1>1, <2>3, <3>1
      <3>4. TryMatch(r, g, q, n) = TryMatch(r, f, q, n)
        BY <3>2, <3>3, TryAgrees
      <3> QED
        BY <3>1, <3>4
    <2>5. \A p \in 1 .. k : g[p] = Row(f, p)
      <3>1. \A p \in 1 .. k : p = k \/ p \in 1 .. k - 1
        BY <1>1
      <3> HIDE DEF Row
      <3> QED
        BY <2>2, <3>1
    <2>6. g = [p \in 1 .. k |-> g[p]]
      OBVIOUS
    <2> HIDE DEF g, Row
    <2>7. g = [p \in 1 .. k |-> Row(g, p)]
      BY <2>4, <2>5, <2>6
    <2>8. Tries(g, r, parts, k)
      BY <2>7 DEF Tries, Row
    <2> QED
      BY <2>8
  <1> HIDE DEF S
  <1>4. \A k \in 0 .. N : k \in S
    <2> HIDE DEF N
    <2> QED
      BY <1>1, <1>2, <1>3, UpTo
  <1>5. N \in S
    BY <1>1, <1>4
  <1> QED
    BY <1>5 DEF S

LEMMA LayingExists ==
  ASSUME NEW r, TreeOK(r.tree), NEW parts, NEW c, PartsOK(parts, c)
  PROVE  \E f : Laying(f, r, parts, Len(parts))
  <1> DEFINE N == Len(parts)
             D == DOMAIN r.tree.nodes
             S == {k \in 0 .. N : \E f : Laying(f, r, parts, k)}
  <1>1. N \in Nat /\ DOMAIN parts = 1 .. N /\ \A p \in 1 .. N : Bounded(parts[p], p - 1, c)
    BY DEF PartsOK
  <1>2. 0 \in S
    <2>1. <<>> = [p \in 1 .. 0 |-> [n \in D |-> Lies(r, <<>>, parts[p], n)]]
      OBVIOUS
    <2>2. Laying(<<>>, r, parts, 0)
      BY <2>1 DEF Laying
    <2> QED
      BY <1>1, <2>2
  <1>3. ASSUME NEW k \in 1 .. N, k - 1 \in S
        PROVE  k \in S
    <2>1. PICK f : Laying(f, r, parts, k - 1)
      BY <1>3
    <2> DEFINE Row(h, p) == [n \in D |-> Lies(r, h, parts[p], n)]
               g == [p \in 1 .. k |-> IF p = k THEN Row(f, k) ELSE f[p]]
    <2>2. \A p \in 1 .. k - 1 : f[p] = Row(f, p)
      BY <2>1 DEF Laying
    <2>3. \A p \in 1 .. k - 1 : g[p] = f[p]
      OBVIOUS
    <2>4. \A p \in 1 .. k : Row(g, p) = Row(f, p)
      <3> HIDE DEF g
      <3> SUFFICES ASSUME NEW p \in 1 .. k, NEW n \in D
                   PROVE  Lies(r, g, parts[p], n) = Lies(r, f, parts[p], n)
        OBVIOUS
      <3>1. PICK q, j : q = parts[p] /\ j = p - 1
        OBVIOUS
      <3>2. Bounded(q, j, c)
        BY <1>1, <3>1
      <3>3. \A i \in 1 .. j : g[i] = f[i]
        BY <1>1, <2>3, <3>1
      <3>4. Lies(r, g, q, n) = Lies(r, f, q, n)
        BY <3>2, <3>3, LiesAgrees
      <3> QED
        BY <3>1, <3>4
    <2>5. \A p \in 1 .. k : g[p] = Row(f, p)
      <3>1. \A p \in 1 .. k : p = k \/ p \in 1 .. k - 1
        BY <1>1
      <3> HIDE DEF Row
      <3> QED
        BY <2>2, <3>1
    <2>6. g = [p \in 1 .. k |-> g[p]]
      OBVIOUS
    <2> HIDE DEF g, Row
    <2>7. g = [p \in 1 .. k |-> Row(g, p)]
      BY <2>4, <2>5, <2>6
    <2>8. Laying(g, r, parts, k)
      BY <2>7 DEF Laying, Row
    <2> QED
      BY <2>8
  <1> HIDE DEF S
  <1>4. \A k \in 0 .. N : k \in S
    <2> HIDE DEF N
    <2> QED
      BY <1>1, <1>2, <1>3, UpTo
  <1>5. N \in S
    BY <1>1, <1>4
  <1> QED
    BY <1>5 DEF S

(***************************************************************************)
(* try_match finds a pattern at a node exactly if it can be laid on it:    *)
(* the greedy choice of children misses none.                              *)
(***************************************************************************)
LEMMA GreedyMissesNone ==
  ASSUME NEW r, TreeOK(r.tree), NEW parts, NEW c, PartsOK(parts, c),
         NEW p \in DOMAIN parts, NEW n \in DOMAIN r.tree.nodes
  PROVE  /\ Matched(r, parts)[p][n] \in Outcomes(r, c)
         /\ Matched(r, parts)[p][n] # <<>> <=> Embeds(r, parts)[p][n]
  <1> DEFINE N == Len(parts)
             D == DOMAIN r.tree.nodes
             m == CHOOSE f : Tries(f, r, parts, N)
             e == CHOOSE f : Laying(f, r, parts, N)
  <1>1. N \in Nat /\ DOMAIN parts = 1 .. N /\ \A i \in 1 .. N : Bounded(parts[i], i - 1, c)
    BY DEF PartsOK
  <1>2. Matched(r, parts) = m /\ Embeds(r, parts) = e
    BY <1>1 DEF Matched, Tries, Embeds, Laying
  <1>3. Tries(m, r, parts, N) /\ Laying(e, r, parts, N)
    BY TriesExist, LayingExists
  <1> HIDE DEF m, e
  <1>4. \A i \in 1 .. N, x \in D : m[i][x] = TryMatch(r, m, parts[i], x)
    <2>1. \A i \in 1 .. N : m[i] = [x \in D |-> TryMatch(r, m, parts[i], x)]
      BY <1>3 DEF Tries
    <2> HIDE DEF N, D
    <2> QED
      BY <2>1
  <1>40. \A i \in 1 .. N, x \in D : e[i][x] <=> Lies(r, e, parts[i], x)
    <2>1. \A i \in 1 .. N : e[i] = [x \in D |-> Lies(r, e, parts[i], x)]
      BY <1>3 DEF Laying
    <2> HIDE DEF N, D
    <2> TAKE i \in 1 .. N, x \in D
    <2>2. e[i] = [y \in D |-> Lies(r, e, parts[i], y)]
      BY <2>1
    <2>3. e[i][x] = Lies(r, e, parts[i], x)
      BY <2>2, Zenon
    <2> QED
      BY <2>3
  <1> DEFINE Same(i) == \A x \in D : m[i][x] \in Outcomes(r, c) /\ (m[i][x] # <<>> <=> e[i][x])
             S == {k \in 0 .. N : \A i \in 1 .. k : Same(i)}
  <1>5. 0 \in S
    BY <1>1
  <1>6. ASSUME NEW k \in 1 .. N, k - 1 \in S
        PROVE  k \in S
    <2>1. \A i \in 1 .. k - 1 : Same(i)
      BY <1>6
    <2>2. Same(k)
      <3> SUFFICES ASSUME NEW x \in D
                   PROVE  m[k][x] \in Outcomes(r, c) /\ (m[k][x] # <<>> <=> e[k][x])
        OBVIOUS
      <3>1. PICK q, j : q = parts[k] /\ j = k - 1
        OBVIOUS
      <3>2. Bounded(q, j, c)
        BY <1>1, <3>1
      <3>3. \A i \in 1 .. j, y \in D : m[i][y] \in Outcomes(r, c) /\ (m[i][y] # <<>> <=> e[i][y])
        BY <2>1, <3>1
      <3>4. TryMatch(r, m, q, x) \in Outcomes(r, c) /\ (TryMatch(r, m, q, x) # <<>> <=> Fits(r, m, q, x))
        BY <3>2, <3>3, TryTyped
      <3>5. Fits(r, m, q, x) <=> Lies(r, e, q, x)
        BY <3>2, <3>3, FitsLies
      <3> QED
        BY <1>4, <1>40, <3>1, <3>4, <3>5
    <2> HIDE DEF Same
    <2>3. \A i \in 1 .. k : i = k \/ i \in 1 .. k - 1
      BY <1>1
    <2> QED
      BY <2>1, <2>2, <2>3
  <1> HIDE DEF S
  <1>7. \A k \in 0 .. N : k \in S
    <2> HIDE DEF N
    <2> QED
      BY <1>1, <1>5, <1>6, UpTo
  <1>8. Same(p)
    <2>1. p \in 1 .. N /\ N \in 0 .. N
      BY <1>1
    <2> QED
      BY <1>7, <2>1 DEF S
  <1> QED
    BY <1>2, <1>8

-------------------------------------------------------------------------------
(***************************************************************************)
(* compile_query: patterns name patterns that were closed before them, and *)
(* capture by names the query has.                                         *)
(***************************************************************************)

NamesIn(tokens) == {tokens[i][2] : i \in DOMAIN tokens}
Names(r) == UNION {NamesIn(Tokens(r.texts[q])) : q \in DOMAIN r.texts}

RawFields(r) == [field : Names(r), pattern : Nat]
Kinds(r) == Names(r) \cup {AnyKind}
RawPattern(r) ==
  [kind : Kinds(r), named : BOOLEAN, fields : Seq(RawFields(r)),
   kids : Seq(Nat), capture : Nat]
RawQuery(r) == [parts : Seq(RawPattern(r)), patterns : Seq(Nat), captures : Seq(Names(r))]

QueryTyped(q) ==
  /\ PartsOK(q.parts, Len(q.captures))
  /\ \A i \in DOMAIN q.patterns : q.patterns[i] \in DOMAIN q.parts

QueriesTyped(r, qs) ==
  /\ qs \in Seq(RawQuery(r)) /\ Len(qs) \in 1 .. Len(r.texts)
  /\ \A i \in DOMAIN qs : QueryTyped(qs[i])

RawCall(r) == [pattern : RawPattern(r), field : SUBSET Names(r)]

CallsBound(r, op, k, c) ==
  /\ op \in Seq(RawCall(r))
  /\ \A i \in DOMAIN op : Bounded(op[i].pattern, k, c)

CallsTyped(r, q, op) == CallsBound(r, op, Len(q.parts), Len(q.captures))

TextShape(r, qs, op, pos) ==
  /\ QueriesTyped(r, qs)
  /\ CallsTyped(r, qs[Len(qs)], op)
  /\ pos \in Nat \ {0}

Querying == job.task \in {"query", "highlight"}
TextInv == Querying => TextShape(job, queries, open, textPos)

LEMMA RawPatternMade ==
  ASSUME NEW r, NEW kind \in Kinds(r), NEW named \in BOOLEAN, NEW fields \in Seq(RawFields(r)),
         NEW kids \in Seq(Nat), NEW capture \in Nat
  PROVE  [kind |-> kind, named |-> named, fields |-> fields, kids |-> kids, capture |-> capture]
           \in RawPattern(r)
  BY DEF RawPattern

LEMMA RawPatternFacts ==
  ASSUME NEW r, NEW p \in RawPattern(r)
  PROVE  /\ p.kind \in Kinds(r) /\ p.named \in BOOLEAN /\ p.fields \in Seq(RawFields(r))
         /\ p.kids \in Seq(Nat) /\ p.capture \in Nat
         /\ p = [kind |-> p.kind, named |-> p.named, fields |-> p.fields, kids |-> p.kids,
                 capture |-> p.capture]
  BY DEF RawPattern

LEMMA BoundedGrows ==
  ASSUME NEW p, NEW k \in Nat, NEW c \in Nat, Bounded(p, k, c),
         NEW l \in Nat, NEW d \in Nat, k <= l, c <= d
  PROVE  Bounded(p, l, d)
  <1>1. /\ p.kids \in Seq(1 .. k)
        /\ Len(p.kids) \in Nat /\ DOMAIN p.kids = 1 .. Len(p.kids)
        /\ \A j \in DOMAIN p.kids : p.kids[j] \in 1 .. k
        /\ Len(p.fields) \in Nat /\ DOMAIN p.fields = 1 .. Len(p.fields)
        /\ \A f \in DOMAIN p.fields : p.fields[f].pattern \in 1 .. k
        /\ p.capture \in 0 .. c
    BY DEF Bounded
  <1>2. 1 .. k \subseteq 1 .. l /\ 0 .. c \subseteq 0 .. d
    OBVIOUS
  <1>3. p.kids \in Seq(1 .. l)
    <2>1. PICK B, C, s : B = 1 .. k /\ C = 1 .. l /\ s = p.kids
      OBVIOUS
    <2>2. s \in Seq(B) /\ B \subseteq C
      BY <1>1, <1>2, <2>1
    <2>3. s \in Seq(C)
      BY <2>2
    <2> QED
      BY <2>1, <2>3
  <1> QED
    BY <1>1, <1>2, <1>3 DEF Bounded

LEMMA BareBounded ==
  ASSUME NEW r, NEW kind \in Kinds(r), NEW named \in BOOLEAN, NEW k \in Nat,
         NEW c \in Nat
  PROVE  Bare(kind, named) \in RawPattern(r) /\ Bounded(Bare(kind, named), k, c)
  <1>1. PICK b : b = Bare(kind, named)
    OBVIOUS
  <1>2. b = [kind |-> kind, named |-> named, fields |-> <<>>, kids |-> <<>>, capture |-> 0]
    BY <1>1 DEF Bare
  <1>3. b.kids = <<>> /\ b.fields = <<>> /\ b.capture = 0
    BY <1>2
  <1>4. <<>> \in Seq(RawFields(r)) /\ <<>> \in Seq(Nat) /\ <<>> \in Seq(1 .. k)
        /\ Len(<<>>) = 0 /\ DOMAIN <<>> = 1 .. 0 /\ 1 .. 0 = {}
    OBVIOUS
  <1>5. b \in RawPattern(r)
    BY <1>2, <1>4 DEF RawPattern
  <1>6. Bounded(b, k, c)
    BY <1>3, <1>4 DEF Bounded
  <1> QED
    BY <1>1, <1>5, <1>6

\* A pattern gets a child, a field or a name.
LEMMA KidAdded ==
  ASSUME NEW r, NEW p \in RawPattern(r), NEW k \in Nat, NEW c \in Nat, Bounded(p, k, c),
         NEW x, x = [p EXCEPT !.kids = Append(@, k + 1)]
  PROVE  x \in RawPattern(r) /\ Bounded(x, k + 1, c)
  <1>1. PICK s, t, B : s = p.kids /\ t = Append(s, k + 1) /\ B = 1 .. k + 1
    OBVIOUS
  <1>2. Bounded(p, k + 1, c)
    BY BoundedGrows
  <1>3. s \in Seq(B) /\ k + 1 \in B /\ s \in Seq(Nat)
    BY <1>1, <1>2 DEF Bounded, RawPattern
  <1>4. t \in Seq(B) /\ t \in Seq(Nat)
    BY <1>1, <1>3
  <1>5. Len(t) \in Nat /\ DOMAIN t = 1 .. Len(t) /\ \A j \in DOMAIN t : t[j] \in B
    BY <1>4
  <1>6. x = [kind |-> p.kind, named |-> p.named, fields |-> p.fields, kids |-> t,
             capture |-> p.capture]
    BY <1>1 DEF RawPattern
  <1>7. x \in RawPattern(r)
    <2>1. PICK a, b, d, e : a = p.kind /\ b = p.named /\ d = p.fields /\ e = p.capture
      OBVIOUS
    <2>2. a \in Kinds(r) /\ b \in BOOLEAN /\ d \in Seq(RawFields(r)) /\ e \in Nat
      BY <2>1, RawPatternFacts
    <2>3. [kind |-> a, named |-> b, fields |-> d, kids |-> t, capture |-> e] \in RawPattern(r)
      BY <1>4, <2>2, RawPatternMade
    <2> QED
      BY <1>6, <2>1, <2>3
  <1>8. x.kids = t /\ x.fields = p.fields /\ x.capture = p.capture
    BY <1>6
  <1> QED
    BY <1>1, <1>2, <1>4, <1>5, <1>7, <1>8 DEF Bounded

LEMMA FieldAdded ==
  ASSUME NEW r, NEW p \in RawPattern(r), NEW k \in Nat, NEW c \in Nat, Bounded(p, k, c),
         NEW f \in Names(r), NEW x,
         x = [p EXCEPT !.fields = Append(@, [field |-> f, pattern |-> k + 1])]
  PROVE  x \in RawPattern(r) /\ Bounded(x, k + 1, c)
  <1>1. PICK s, e, t : s = p.fields /\ e = [field |-> f, pattern |-> k + 1] /\ t = Append(s, e)
    OBVIOUS
  <1>2. Bounded(p, k + 1, c)
    BY BoundedGrows
  <1>3. s \in Seq(RawFields(r)) /\ e \in RawFields(r) /\ e.pattern = k + 1
    BY <1>1 DEF RawPattern, RawFields
  <1>4. t \in Seq(RawFields(r)) /\ Len(t) = Len(s) + 1 /\ t[Len(s) + 1] = e
        /\ Len(s) \in Nat /\ \A i \in 1 .. Len(s) : t[i] = s[i]
    BY <1>1, <1>3, Grown
  <1>5. Len(t) \in Nat /\ DOMAIN t = 1 .. Len(t)
    BY <1>4
  <1>6. \A i \in DOMAIN t : t[i].pattern \in 1 .. k + 1
    <2> TAKE i \in DOMAIN t
    <2>1. CASE i = Len(s) + 1
      <3>1. t[i].pattern = k + 1
        BY <1>3, <1>4, <2>1
      <3> QED
        BY <3>1
    <2>2. CASE i # Len(s) + 1
      <3>1. i \in 1 .. Len(s) /\ t[i] = s[i] /\ DOMAIN s = 1 .. Len(s)
        BY <1>3, <1>4, <1>5, <2>2
      <3>2. s[i].pattern \in 1 .. k + 1
        BY <1>1, <1>2, <3>1 DEF Bounded
      <3> QED
        BY <3>1, <3>2
    <2> QED
      BY <2>1, <2>2
  <1>7. x = [kind |-> p.kind, named |-> p.named, fields |-> t, kids |-> p.kids,
             capture |-> p.capture]
    BY <1>1 DEF RawPattern
  <1>8. x \in RawPattern(r)
    <2>1. PICK a, b, d, g : a = p.kind /\ b = p.named /\ d = p.kids /\ g = p.capture
      OBVIOUS
    <2>2. a \in Kinds(r) /\ b \in BOOLEAN /\ d \in Seq(Nat) /\ g \in Nat
      BY <2>1, RawPatternFacts
    <2>3. [kind |-> a, named |-> b, fields |-> t, kids |-> d, capture |-> g] \in RawPattern(r)
      BY <1>4, <2>2, RawPatternMade
    <2> QED
      BY <1>7, <2>1, <2>3
  <1>9. x.kids = p.kids /\ x.fields = t /\ x.capture = p.capture
    BY <1>7
  <1> QED
    BY <1>2, <1>5, <1>6, <1>8, <1>9 DEF Bounded

LEMMA NameAdded ==
  ASSUME NEW r, NEW p \in RawPattern(r), NEW k \in Nat, NEW c \in Nat, Bounded(p, k, c),
         NEW a \in 0 .. c, NEW x, x = [p EXCEPT !.capture = a]
  PROVE  x \in RawPattern(r) /\ Bounded(x, k, c)
  <1>1. x = [kind |-> p.kind, named |-> p.named, fields |-> p.fields, kids |-> p.kids, capture |-> a]
    BY DEF RawPattern
  <1>2. x \in RawPattern(r)
    <2>1. a \in Nat
      OBVIOUS
    <2> QED
      BY <1>1, <2>1, RawPatternFacts, RawPatternMade
  <1>3. x.kids = p.kids /\ x.fields = p.fields /\ x.capture = a
    BY <1>1
  <1> QED
    BY <1>2, <1>3 DEF Bounded

\* A name has a place among the captures.
LEMMA PlaceFacts ==
  ASSUME NEW r, NEW captures \in Seq(Names(r)), NEW name \in Names(r),
         NEW all, all = WithCapture(captures, name)
  PROVE  /\ all \in Seq(Names(r)) /\ Len(all) \in Nat /\ Len(captures) \in Nat
         /\ Len(captures) <= Len(all)
         /\ PlaceOf(all, name) \in 1 .. Len(all)
  <1>1. /\ all \in Seq(Names(r)) /\ Len(captures) \in Nat /\ Len(captures) <= Len(all)
        /\ name \in ToSet(all)
    <2>1. CASE name \in ToSet(captures)
      BY <2>1 DEF WithCapture
    <2>2. CASE name \notin ToSet(captures)
      <3>1. all = Append(captures, name)
        BY <2>2 DEF WithCapture
      <3>2. all \in Seq(Names(r)) /\ Len(captures) \in Nat /\ Len(all) = Len(captures) + 1
            /\ name \in ToSet(all)
        BY <3>1, Appended
      <3> QED
        BY <3>2
    <2> QED
      BY <2>1, <2>2
  <1>2. DOMAIN all = 1 .. Len(all) /\ Len(all) \in Nat
    BY <1>1
  <1>3. \E i \in DOMAIN all : all[i] = name
    BY <1>1 DEF ToSet
  <1>4. PlaceOf(all, name) \in DOMAIN all
    BY <1>3 DEF PlaceOf
  <1> QED
    BY <1>1, <1>2, <1>4

LEMMA RawQueryFacts ==
  ASSUME NEW r, NEW q \in RawQuery(r)
  PROVE  /\ q.parts \in Seq(RawPattern(r)) /\ q.patterns \in Seq(Nat) /\ q.captures \in Seq(Names(r))
         /\ Len(q.parts) \in Nat /\ DOMAIN q.parts = 1 .. Len(q.parts)
         /\ Len(q.patterns) \in Nat /\ DOMAIN q.patterns = 1 .. Len(q.patterns)
         /\ Len(q.captures) \in Nat
         /\ q = [parts |-> q.parts, patterns |-> q.patterns, captures |-> q.captures]
  <1>1. /\ q.parts \in Seq(RawPattern(r)) /\ q.patterns \in Seq(Nat) /\ q.captures \in Seq(Names(r))
        /\ q = [parts |-> q.parts, patterns |-> q.patterns, captures |-> q.captures]
    BY DEF RawQuery
  <1>2. PICK a, b, c : a = q.parts /\ b = q.patterns /\ c = q.captures
    OBVIOUS
  <1>3. a \in Seq(RawPattern(r)) /\ b \in Seq(Nat) /\ c \in Seq(Names(r))
    BY <1>1, <1>2
  <1>4. /\ Len(a) \in Nat /\ DOMAIN a = 1 .. Len(a) /\ Len(b) \in Nat /\ DOMAIN b = 1 .. Len(b)
        /\ Len(c) \in Nat
    BY <1>3
  <1> QED
    BY <1>1, <1>2, <1>4

LEMMA RawQueryMade ==
  ASSUME NEW r, NEW parts \in Seq(RawPattern(r)), NEW patterns \in Seq(Nat),
         NEW captures \in Seq(Names(r))
  PROVE  [parts |-> parts, patterns |-> patterns, captures |-> captures] \in RawQuery(r)
  BY DEF RawQuery

\* A query with further names, and with one more pattern.
Renamed(q, all, x) == x = [parts |-> q.parts, patterns |-> q.patterns, captures |-> all]

LEMMA CapturesGrow ==
  ASSUME NEW r, NEW q \in RawQuery(r), QueryTyped(q), NEW all \in Seq(Names(r)),
         Len(q.captures) <= Len(all), NEW x, Renamed(q, all, x)
  PROVE  /\ x \in RawQuery(r) /\ QueryTyped(x)
         /\ x.parts = q.parts /\ x.patterns = q.patterns /\ x.captures = all
  <1>1. PICK parts, patterns : parts = q.parts /\ patterns = q.patterns
    OBVIOUS
  <1>2. parts \in Seq(RawPattern(r)) /\ patterns \in Seq(Nat)
    BY <1>1, RawQueryFacts
  <1>3. x = [parts |-> parts, patterns |-> patterns, captures |-> all]
    BY <1>1 DEF Renamed
  <1>4. x \in RawQuery(r) /\ x.parts = parts /\ x.patterns = patterns /\ x.captures = all
    <2>1. [parts |-> parts, patterns |-> patterns, captures |-> all] \in RawQuery(r)
      BY <1>2, RawQueryMade
    <2> QED
      BY <1>3, <2>1
  <1>5. Len(q.captures) \in Nat /\ Len(all) \in Nat
    BY RawQueryFacts
  <1>6. PartsOK(parts, Len(all))
    <2>1. PICK c, d : c = Len(q.captures) /\ d = Len(all)
      OBVIOUS
    <2>2. PartsOK(parts, c) /\ c \in Nat /\ d \in Nat /\ c <= d
      BY <1>1, <1>5, <2>1 DEF QueryTyped
    <2>3. ASSUME NEW p \in DOMAIN parts
          PROVE  Bounded(parts[p], p - 1, d)
      <3>1. PICK y, k : y = parts[p] /\ k = p - 1
        OBVIOUS
      <3>2. Bounded(y, k, c) /\ k \in Nat
        BY <2>2, <3>1 DEF PartsOK
      <3>3. Bounded(y, k, d)
        BY <2>2, <3>2, BoundedGrows
      <3> QED
        BY <3>1, <3>3
    <2> QED
      BY <2>1, <2>2, <2>3 DEF PartsOK
  <1> QED
    BY <1>1, <1>4, <1>6 DEF QueryTyped

LEMMA PartClosed ==
  ASSUME NEW r, NEW parts \in Seq(RawPattern(r)), NEW c \in Nat, PartsOK(parts, c),
         NEW p \in RawPattern(r), Bounded(p, Len(parts), c), NEW s, s = Append(parts, p)
  PROVE  s \in Seq(RawPattern(r)) /\ PartsOK(s, c) /\ Len(s) = Len(parts) + 1 /\ Len(parts) \in Nat
  <1>1. /\ s \in Seq(RawPattern(r)) /\ Len(parts) \in Nat /\ Len(s) = Len(parts) + 1
        /\ s[Len(parts) + 1] = p /\ \A i \in 1 .. Len(parts) : s[i] = parts[i]
    BY Grown
  <1>2. Len(s) \in Nat /\ DOMAIN s = 1 .. Len(s) /\ DOMAIN parts = 1 .. Len(parts)
    BY <1>1
  <1>3. \A i \in DOMAIN s : Bounded(s[i], i - 1, c)
    <2> TAKE i \in DOMAIN s
    <2>1. CASE i = Len(parts) + 1
      <3>1. i - 1 = Len(parts) /\ s[i] = p
        BY <1>1, <2>1
      <3> QED
        BY <3>1
    <2>2. CASE i # Len(parts) + 1
      <3>1. i \in 1 .. Len(parts)
        BY <1>1, <1>2, <2>2
      <3> QED
        BY <1>1, <1>2, <3>1 DEF PartsOK
    <2> QED
      BY <2>1, <2>2
  <1> QED
    BY <1>1, <1>2, <1>3 DEF PartsOK

Extended(q, p, x) ==
  x = [parts |-> Append(q.parts, p), patterns |-> q.patterns, captures |-> q.captures]

LEMMA PartAdded ==
  ASSUME NEW r, NEW q \in RawQuery(r), QueryTyped(q),
         NEW p \in RawPattern(r), Bounded(p, Len(q.parts), Len(q.captures)),
         NEW x, Extended(q, p, x)
  PROVE  /\ x \in RawQuery(r) /\ QueryTyped(x)
         /\ x.parts = Append(q.parts, p) /\ Len(x.parts) = Len(q.parts) + 1
         /\ x.patterns = q.patterns /\ x.captures = q.captures
  <1>1. PICK parts, patterns, captures, s :
          parts = q.parts /\ patterns = q.patterns /\ captures = q.captures /\ s = Append(parts, p)
    OBVIOUS
  <1>2. /\ parts \in Seq(RawPattern(r)) /\ patterns \in Seq(Nat) /\ captures \in Seq(Names(r))
        /\ Len(captures) \in Nat /\ DOMAIN parts = 1 .. Len(parts)
    BY <1>1, RawQueryFacts
  <1>3. PartsOK(parts, Len(captures)) /\ \A i \in DOMAIN patterns : patterns[i] \in DOMAIN parts
    BY <1>1 DEF QueryTyped
  <1>4. /\ s \in Seq(RawPattern(r)) /\ PartsOK(s, Len(captures))
        /\ Len(s) = Len(parts) + 1 /\ Len(parts) \in Nat
    <2>1. PICK c : c = Len(captures)
      OBVIOUS
    <2>2. c \in Nat /\ PartsOK(parts, c) /\ Bounded(p, Len(parts), c)
      BY <1>1, <1>2, <1>3, <2>1
    <2>3. s = Append(parts, p)
      BY <1>1
    <2>4. /\ s \in Seq(RawPattern(r)) /\ PartsOK(s, c)
          /\ Len(s) = Len(parts) + 1 /\ Len(parts) \in Nat
      BY <1>2, <2>2, <2>3, PartClosed
    <2> QED
      BY <2>1, <2>4
  <1>5. x = [parts |-> s, patterns |-> patterns, captures |-> captures]
    BY <1>1, RawQueryFacts DEF Extended
  <1>6. x \in RawQuery(r) /\ x.parts = s /\ x.patterns = patterns /\ x.captures = captures
    <2>1. [parts |-> s, patterns |-> patterns, captures |-> captures] \in RawQuery(r)
      BY <1>2, <1>4, RawQueryMade
    <2> QED
      BY <1>5, <2>1
  <1>7. DOMAIN parts \subseteq DOMAIN s
    <2>1. DOMAIN s = 1 .. Len(s)
      BY <1>4
    <2> QED
      BY <1>2, <1>4, <2>1
  <1> QED
    BY <1>1, <1>3, <1>4, <1>6, <1>7 DEF QueryTyped

LEMMA ToppedTyped ==
  ASSUME NEW r, NEW q \in RawQuery(r), QueryTyped(q), NEW all \in Seq(Names(r)),
         Len(q.captures) <= Len(all),
         NEW p \in RawPattern(r), Bounded(p, Len(q.parts), Len(all))
  PROVE  Topped(q, p, all) \in RawQuery(r) /\ QueryTyped(Topped(q, p, all))
  <1>1. PICK x : x = [parts |-> q.parts, patterns |-> q.patterns, captures |-> all]
    OBVIOUS
  <1>2. /\ x \in RawQuery(r) /\ QueryTyped(x)
        /\ x.parts = q.parts /\ x.patterns = q.patterns /\ x.captures = all
    BY <1>1, CapturesGrow DEF Renamed
  <1>20. PICK y : y = [parts |-> Append(x.parts, p), patterns |-> x.patterns, captures |-> x.captures]
    OBVIOUS
  <1>3. /\ y \in RawQuery(r) /\ QueryTyped(y) /\ y.parts = Append(q.parts, p)
        /\ Len(y.parts) = Len(q.parts) + 1 /\ y.patterns = q.patterns /\ y.captures = all
    <2>1. Bounded(p, Len(x.parts), Len(x.captures)) /\ Extended(x, p, y)
      BY <1>2, <1>20 DEF Extended
    <2>2. /\ y \in RawQuery(r) /\ QueryTyped(y) /\ y.parts = Append(x.parts, p)
          /\ Len(y.parts) = Len(x.parts) + 1 /\ y.patterns = x.patterns /\ y.captures = x.captures
      BY <1>2, <2>1, PartAdded
    <2> QED
      BY <1>2, <2>2
  <1>4. PICK parts, patterns, z : /\ parts = y.parts /\ patterns = Append(q.patterns, Len(q.parts) + 1)
                                  /\ z = Topped(q, p, all)
    OBVIOUS
  <1>5. parts = Append(q.parts, p) /\ y.patterns = q.patterns
    BY <1>3, <1>4
  <1>6. z = [parts |-> parts, patterns |-> patterns, captures |-> all]
    BY <1>4, <1>5 DEF Topped
  <1>7. Len(q.parts) \in Nat /\ q.patterns \in Seq(Nat)
    BY RawQueryFacts
  <1>8. /\ patterns \in Seq(Nat) /\ Len(q.patterns) \in Nat /\ Len(patterns) = Len(q.patterns) + 1
        /\ patterns[Len(q.patterns) + 1] = Len(q.parts) + 1
        /\ \A i \in 1 .. Len(q.patterns) : patterns[i] = q.patterns[i]
    <2>1. PICK s, e : s = q.patterns /\ e = Len(q.parts) + 1
      OBVIOUS
    <2>2. s \in Seq(Nat) /\ e \in Nat /\ patterns = Append(s, e)
      BY <1>4, <1>7, <2>1
    <2>3. /\ patterns \in Seq(Nat) /\ Len(s) \in Nat /\ Len(patterns) = Len(s) + 1
          /\ patterns[Len(s) + 1] = e /\ \A i \in 1 .. Len(s) : patterns[i] = s[i]
      BY <2>2, Grown
    <2> QED
      BY <2>1, <2>3
  <1>9. z \in RawQuery(r) /\ z.parts = parts /\ z.patterns = patterns /\ z.captures = all
    <2>1. parts \in Seq(RawPattern(r))
      BY <1>3, <1>4, RawQueryFacts
    <2>2. [parts |-> parts, patterns |-> patterns, captures |-> all] \in RawQuery(r)
      BY <1>8, <2>1, RawQueryMade
    <2> QED
      BY <1>6, <2>2
  <1>10. DOMAIN parts = 1 .. Len(q.parts) + 1
    BY <1>3, <1>4, RawQueryFacts
  <1>11. DOMAIN patterns = 1 .. Len(patterns) /\ DOMAIN q.patterns = 1 .. Len(q.patterns)
         /\ DOMAIN q.parts = 1 .. Len(q.parts)
    BY <1>8, RawQueryFacts
  <1>12. \A i \in DOMAIN patterns : patterns[i] \in DOMAIN parts
    <2> TAKE i \in DOMAIN patterns
    <2>1. CASE i = Len(q.patterns) + 1
      BY <1>7, <1>8, <1>10, <2>1
    <2>2. CASE i # Len(q.patterns) + 1
      <3>1. i \in 1 .. Len(q.patterns)
        BY <1>8, <1>11, <2>2
      <3>2. q.patterns[i] \in 1 .. Len(q.parts)
        BY <1>11, <3>1 DEF QueryTyped
      <3>3. patterns[i] \in 1 .. Len(q.parts)
        BY <1>8, <3>1, <3>2
      <3> QED
        BY <1>7, <1>10, <3>3
    <2> QED
      BY <2>1, <2>2
  <1>13. PartsOK(parts, Len(all))
    BY <1>3, <1>4 DEF QueryTyped
  <1>14. QueryTyped(z)
    BY <1>9, <1>12, <1>13 DEF QueryTyped
  <1> QED
    BY <1>4, <1>9, <1>14

Replaces(qs, x, ys) == ys = [qs EXCEPT ![Len(qs)] = x]

LEMMA QueryReplaced ==
  ASSUME NEW r, NEW qs, QueriesTyped(r, qs), NEW x \in RawQuery(r), QueryTyped(x),
         NEW ys, Replaces(qs, x, ys)
  PROVE  QueriesTyped(r, ys) /\ Len(ys) = Len(qs) /\ ys[Len(ys)] = x
  <1>1. PICK Q, n : Q = RawQuery(r) /\ n = Len(qs)
    OBVIOUS
  <1>2. qs \in Seq(Q) /\ n \in 1 .. Len(r.texts) /\ x \in Q
    BY <1>1 DEF QueriesTyped
  <1>3. DOMAIN qs = 1 .. n /\ n \in Nat /\ n >= 1
    BY <1>1, <1>2
  <1>4. ys = [qs EXCEPT ![n] = x]
    BY <1>1 DEF Replaces
  <1>5. ys = [i \in 1 .. n |-> IF i = n THEN x ELSE qs[i]]
    BY <1>3, <1>4
  <1>6. \A i \in 1 .. n : qs[i] \in Q
    BY <1>2, <1>3
  <1>7. ys \in Seq(Q) /\ Len(ys) = n /\ DOMAIN ys = 1 .. n
    BY <1>2, <1>3, <1>5, <1>6
  <1>8. \A i \in DOMAIN ys : QueryTyped(ys[i])
    BY <1>3, <1>5, <1>7 DEF QueriesTyped
  <1> QED
    BY <1>1, <1>2, <1>3, <1>5, <1>7, <1>8 DEF QueriesTyped

LEMMA QueryAppended ==
  ASSUME NEW r, NEW qs, QueriesTyped(r, qs), Len(qs) < Len(r.texts), Len(r.texts) \in Nat,
         NEW ys, ys = Append(qs, NoQuery)
  PROVE  QueriesTyped(r, ys) /\ ys[Len(ys)] = NoQuery
  <1>1. PICK Q, n : Q = RawQuery(r) /\ n = Len(qs)
    OBVIOUS
  <1>2. qs \in Seq(Q) /\ n \in 1 .. Len(r.texts)
    BY <1>1 DEF QueriesTyped
  <1>3. NoQuery \in RawQuery(r) /\ QueryTyped(NoQuery)
    BY DEF RawQuery, NoQuery, QueryTyped, PartsOK
  <1>4. ys \in Seq(Q) /\ Len(ys) = n + 1 /\ ys[n + 1] = NoQuery /\ DOMAIN ys = 1 .. n + 1
        /\ \A i \in 1 .. n : ys[i] = qs[i]
    <2>1. NoQuery \in Q
      BY <1>1, <1>3
    <2>2. ys \in Seq(Q) /\ Len(ys) = n + 1 /\ ys[n + 1] = NoQuery /\ \A i \in 1 .. n : ys[i] = qs[i]
      BY <1>1, <1>2, <2>1, Grown
    <2>3. DOMAIN ys = 1 .. Len(ys)
      BY <2>2
    <2> QED
      BY <2>2, <2>3
  <1>5. DOMAIN qs = 1 .. n
    BY <1>1, <1>2
  <1>6. \A i \in DOMAIN ys : QueryTyped(ys[i])
    <2> TAKE i \in DOMAIN ys
    <2>1. i = n + 1 \/ i \in 1 .. n
      BY <1>2, <1>4
    <2> QED
      BY <1>3, <1>4, <1>5, <2>1 DEF QueriesTyped
  <1>7. n + 1 \in 1 .. Len(r.texts)
    BY <1>1, <1>2
  <1> QED
    BY <1>1, <1>4, <1>6, <1>7 DEF QueriesTyped

LEMMA CallsGrow ==
  ASSUME NEW r, NEW k \in Nat, NEW c \in Nat, NEW op, CallsBound(r, op, k, c),
         NEW l \in Nat, NEW d \in Nat, k <= l, c <= d
  PROVE  CallsBound(r, op, l, d)
  <1>1. ASSUME NEW i \in DOMAIN op
        PROVE  Bounded(op[i].pattern, l, d)
    <2>1. PICK p : p = op[i].pattern
      OBVIOUS
    <2>2. Bounded(p, k, c)
      BY <2>1 DEF CallsBound
    <2> QED
      BY <2>1, <2>2, BoundedGrows
  <1> QED
    BY <1>1 DEF CallsBound

LEMMA CallAdded ==
  ASSUME NEW r, NEW k \in Nat, NEW c \in Nat, NEW op, CallsBound(r, op, k, c),
         NEW p \in RawPattern(r), Bounded(p, k, c), NEW f \in SUBSET Names(r),
         NEW z, z = Append(op, [pattern |-> p, field |-> f])
  PROVE  CallsBound(r, z, k, c)
  <1>1. PICK e, T : e = [pattern |-> p, field |-> f] /\ T = RawCall(r)
    OBVIOUS
  <1>2. e \in T /\ e.pattern = p
    BY <1>1 DEF RawCall
  <1>3. op \in Seq(T)
    BY <1>1 DEF CallsBound
  <1>4. z = Append(op, e)
    BY <1>1
  <1>5. z \in Seq(T) /\ Len(op) \in Nat /\ Len(z) = Len(op) + 1 /\ z[Len(op) + 1] = e
        /\ \A i \in 1 .. Len(op) : z[i] = op[i]
    BY <1>2, <1>3, <1>4, Grown
  <1>6. DOMAIN z = 1 .. Len(op) + 1 /\ DOMAIN op = 1 .. Len(op)
    BY <1>3, <1>5
  <1>7. \A i \in DOMAIN z : Bounded(z[i].pattern, k, c)
    <2> TAKE i \in DOMAIN z
    <2>1. i = Len(op) + 1 \/ i \in DOMAIN op
      BY <1>5, <1>6
    <2> QED
      BY <1>2, <1>5, <1>6, <2>1 DEF CallsBound
  <1> QED
    BY <1>1, <1>5, <1>7 DEF CallsBound

\* The pattern of the innermost call changes.
Inward(b, x, z) == z = [b EXCEPT ![Len(b)].pattern = x]

LEMMA CallChanged ==
  ASSUME NEW r, NEW k \in Nat, NEW c \in Nat, NEW b, CallsBound(r, b, k, c), b # <<>>,
         NEW x \in RawPattern(r), Bounded(x, k, c), NEW z, Inward(b, x, z)
  PROVE  CallsBound(r, z, k, c)
  <1>1. PICK T, n : T = RawCall(r) /\ n = Len(b)
    OBVIOUS
  <1>2. b \in Seq(T) /\ n \in Nat /\ n >= 1 /\ DOMAIN b = 1 .. n /\ \A i \in 1 .. n : b[i] \in T
    BY <1>1 DEF CallsBound
  <1>3. PICK e : e = [b[n] EXCEPT !.pattern = x]
    OBVIOUS
  <1>4. e \in T /\ e.pattern = x
    BY <1>1, <1>2, <1>3 DEF RawCall
  <1>5. z = [i \in 1 .. n |-> IF i = n THEN e ELSE b[i]]
    BY <1>1, <1>2, <1>3 DEF Inward
  <1>6. z \in Seq(T) /\ DOMAIN z = 1 .. n
    BY <1>2, <1>4, <1>5
  <1>7. \A i \in DOMAIN z : Bounded(z[i].pattern, k, c)
    BY <1>2, <1>4, <1>5, <1>6 DEF CallsBound
  <1> QED
    BY <1>1, <1>6, <1>7 DEF CallsBound

LEMMA CallReturns ==
  ASSUME NEW r, NEW k \in Nat, NEW c \in Nat, NEW op, CallsBound(r, op, k, c), op # <<>>
  PROVE  /\ CallsBound(r, Front(op), k, c) /\ Len(Front(op)) = Len(op) - 1
         /\ Last(op).pattern \in RawPattern(r) /\ Last(op).field \in SUBSET Names(r)
         /\ Bounded(Last(op).pattern, k, c)
         /\ Len(op) \in Nat /\ Last(op) = op[Len(op)]
         /\ Len(op) >= 1 /\ DOMAIN op = 1 .. Len(op)
  <1>1. PICK T, n, b : T = RawCall(r) /\ n = Len(op) /\ b = Front(op)
    OBVIOUS
  <1>2. op \in Seq(T) /\ n \in Nat /\ n >= 1 /\ DOMAIN op = 1 .. n /\ \A i \in 1 .. n : op[i] \in T
    BY <1>1 DEF CallsBound
  <1>3. b \in Seq(T) /\ Len(b) = n - 1 /\ DOMAIN b = 1 .. n - 1 /\ \A i \in 1 .. n - 1 : b[i] = op[i]
    <2>1. b = [i \in 1 .. n - 1 |-> op[i]]
      BY <1>1, <1>2 DEF Front
    <2> QED
      BY <1>2, <2>1
  <1>4. \A i \in DOMAIN b : Bounded(b[i].pattern, k, c)
    BY <1>2, <1>3 DEF CallsBound
  <1>5. Last(op) = op[n] /\ op[n] \in T
    BY <1>1, <1>2 DEF Last
  <1>6. op[n].pattern \in RawPattern(r) /\ op[n].field \in SUBSET Names(r)
    BY <1>1, <1>5 DEF RawCall
  <1> QED
    BY <1>1, <1>2, <1>3, <1>4, <1>5, <1>6 DEF CallsBound

-------------------------------------------------------------------------------
(* The steps of compile_query.                                             *)

LEMMA TokenNames ==
  ASSUME TextsOK(job), Len(queries) \in 1 .. Len(job.texts), NEW pos,
         Peek(pos) \in {"ident", "string"}
  PROVE  Text[pos][2] \in Names(job)
  <1>1. pos \in DOMAIN Text
    BY DEF Peek
  <1>2. Len(queries) \in DOMAIN job.texts
    BY DEF TextsOK
  <1>3. Text = Tokens(job.texts[Len(queries)])
    BY DEF Text, Compiling
  <1>4. Text[pos][2] \in NamesIn(Text)
    BY <1>1 DEF NamesIn
  <1> QED
    BY <1>2, <1>3, <1>4 DEF Names

LEMMA BegunTyped ==
  ASSUME TextsOK(job), Len(queries) \in 1 .. Len(job.texts), NEW pos, NEW p \in Begun(pos),
         NEW k \in Nat, NEW c \in Nat
  PROVE  p \in RawPattern(job) /\ Bounded(p, k, c)
  <1>1. \/ Peek(pos) \in {"ident", "string"} /\ p \in {Bare(Text[pos][2], TRUE), Bare(Text[pos][2], FALSE)}
        \/ p \in {Bare(AnyKind, TRUE), Bare(AnyKind, FALSE)}
    BY DEF Begun
  <1>2. \E kind \in Kinds(job), named \in BOOLEAN : p = Bare(kind, named)
    <2>1. AnyKind \in Kinds(job)
      BY DEF Kinds
    <2>2. Peek(pos) \in {"ident", "string"} => Text[pos][2] \in Kinds(job)
      BY TokenNames DEF Kinds
    <2> QED
      BY <1>1, <2>1, <2>2
  <1>3. PICK kind \in Kinds(job), named \in BOOLEAN : p = Bare(kind, named)
    BY <1>2
  <1>4. Bare(kind, named) \in RawPattern(job) /\ Bounded(Bare(kind, named), k, c)
    BY BareBounded
  <1> QED
    BY <1>3, <1>4

TextReady == TextsOK(job) /\ TextShape(job, queries, open, textPos)
TextHolds == TextShape(job, queries', open', textPos')

\* Bounds of what stands in hand.
LEMMA InHand ==
  ASSUME TextReady
  PROVE  /\ QueriesTyped(job, queries) /\ Len(queries) \in 1 .. Len(job.texts)
         /\ Len(job.texts) \in Nat
         /\ queries[Compiling] \in RawQuery(job) /\ QueryTyped(queries[Compiling])
         /\ Compiling = Len(queries)
         /\ Len(Parts) \in Nat /\ Len(Captures) \in Nat /\ Captures \in Seq(Names(job))
         /\ CallsBound(job, open, Len(Parts), Len(Captures))
         /\ textPos \in Nat \ {0}
  <1>1. /\ QueriesTyped(job, queries) /\ CallsTyped(job, queries[Len(queries)], open)
        /\ textPos \in Nat \ {0} /\ TextsOK(job)
    BY DEF TextReady, TextShape
  <1>2. queries \in Seq(RawQuery(job)) /\ Len(queries) \in 1 .. Len(job.texts)
        /\ \A i \in DOMAIN queries : QueryTyped(queries[i])
    BY <1>1 DEF QueriesTyped
  <1>3. Len(job.texts) \in Nat
    BY <1>1 DEF TextsOK
  <1>4. Len(queries) \in DOMAIN queries
    BY <1>2
  <1>5. queries[Compiling] \in RawQuery(job) /\ QueryTyped(queries[Compiling])
    BY <1>2, <1>4 DEF Compiling
  <1>6. Len(Parts) \in Nat /\ Len(Captures) \in Nat /\ Captures \in Seq(Names(job))
    BY <1>5, RawQueryFacts DEF Parts, Captures
  <1>7. CallsBound(job, open, Len(Parts), Len(Captures))
    BY <1>1 DEF CallsTyped, Parts, Captures, Compiling
  <1> QED
    BY <1>1, <1>2, <1>3, <1>5, <1>6, <1>7 DEF Compiling

LEMMA CallStep ==
  ASSUME TextReady, NEW pos \in Nat \ {0}, NEW f \in SUBSET Names(job), Call(pos, f)
  PROVE  TextHolds
  <1>1. CASE UNCHANGED textVars
    BY <1>1 DEF TextReady, TextHolds, textVars
  <1>2. CASE ~UNCHANGED textVars
    <2>1. PICK p \in Begun(pos + 1) : open' = Append(open, [pattern |-> p, field |-> f])
      BY <1>2 DEF Call, Refuse
    <2>2. textPos' = pos + 2 /\ queries' = queries
      BY <1>2 DEF Call, Refuse
    <2>3. PICK k, c, z : k = Len(Parts) /\ c = Len(Captures) /\ z = open'
      OBVIOUS
    <2>4. k \in Nat /\ c \in Nat /\ CallsBound(job, open, k, c)
          /\ TextsOK(job) /\ Len(queries) \in 1 .. Len(job.texts)
      BY <2>3, InHand DEF TextReady
    <2>5. p \in RawPattern(job) /\ Bounded(p, k, c)
      BY <2>4, BegunTyped
    <2>6. z = Append(open, [pattern |-> p, field |-> f])
      BY <2>1, <2>3
    <2>7. CallsBound(job, z, k, c)
      BY <2>4, <2>5, <2>6, CallAdded
    <2>8. CallsTyped(job, queries[Len(queries)], open')
      BY <2>3, <2>7 DEF CallsTyped, Parts, Captures, Compiling
    <2>9. QueriesTyped(job, queries)
      BY InHand
    <2> QED
      BY <2>2, <2>8, <2>9 DEF TextHolds, TextShape
  <1> QED
    BY <1>1, <1>2

\* A query gets a part or a name, and the calls keep to it.
LEMMA TextMoves ==
  ASSUME TextReady, NEW x \in RawQuery(job), QueryTyped(x), Replaces(queries, x, queries'),
         CallsBound(job, open', Len(x.parts), Len(x.captures)), textPos' \in Nat \ {0}
  PROVE  TextHolds
  <1>1. PICK ys : ys = queries'
    OBVIOUS
  <1>2. QueriesTyped(job, ys) /\ ys[Len(ys)] = x
    BY <1>1, InHand, QueryReplaced
  <1>3. CallsTyped(job, ys[Len(ys)], open')
    BY <1>2 DEF CallsTyped
  <1> QED
    BY <1>1, <1>2, <1>3 DEF TextHolds, TextShape

LEMMA NameStep ==
  ASSUME TextReady, NamePattern
  PROVE  TextHolds
  <1>1. CASE UNCHANGED textVars
    BY <1>1 DEF TextReady, TextHolds, textVars
  <1>2. CASE ~UNCHANGED textVars
    <2>1. IsName(textPos + 1)
      BY <1>2 DEF NamePattern, Refuse
    <2>2. PICK name, all, a : /\ name = Text[textPos + 1][2]
                              /\ all = WithCapture(Captures, name) /\ a = PlaceOf(all, name)
      OBVIOUS
    <2>3. /\ open # <<>>
          /\ queries' = [queries EXCEPT ![Compiling].captures = all]
          /\ open' = [open EXCEPT ![Len(open)].pattern.capture = a]
          /\ textPos' = textPos + 2
      BY <2>1, <2>2 DEF NamePattern
    <2>4. name \in Names(job)
      BY <2>1, <2>2, TokenNames, InHand DEF IsName, TextReady
    <2>5. PICK q, k, c : q = queries[Compiling] /\ k = Len(Parts) /\ c = Len(Captures)
      OBVIOUS
    <2>6. /\ q \in RawQuery(job) /\ QueryTyped(q) /\ Captures \in Seq(Names(job))
          /\ q.captures = Captures /\ q.parts = Parts
          /\ k \in Nat /\ c \in Nat /\ CallsBound(job, open, k, c) /\ textPos \in Nat \ {0}
      BY <2>5, InHand DEF Parts, Captures
    <2>7. all \in Seq(Names(job)) /\ Len(all) \in Nat /\ c <= Len(all) /\ a \in 1 .. Len(all)
      <3>1. PICK captures : captures = Captures
        OBVIOUS
      <3>2. /\ all \in Seq(Names(job)) /\ Len(all) \in Nat /\ Len(captures) <= Len(all)
            /\ PlaceOf(all, name) \in 1 .. Len(all)
        BY <2>2, <2>4, <2>6, <3>1, PlaceFacts
      <3> QED
        BY <2>2, <2>5, <3>1, <3>2
    <2>8. PICK x : x = [parts |-> q.parts, patterns |-> q.patterns, captures |-> all]
      OBVIOUS
    <2>9. x \in RawQuery(job) /\ QueryTyped(x) /\ x.parts = q.parts /\ x.captures = all
      BY <2>5, <2>6, <2>7, <2>8, CapturesGrow DEF Renamed
    <2>10. Replaces(queries, x, queries')
      <3>1. x = [q EXCEPT !.captures = all]
        BY <2>6, <2>8, RawQueryFacts
      <3> QED
        BY <2>3, <2>5, <3>1, InHand DEF Replaces
    <2>11. CallsBound(job, open', k, Len(all))
      <3>1. CallsBound(job, open, k, Len(all))
        BY <2>6, <2>7, CallsGrow
      <3>2. PICK p, y, z : p = Last(open).pattern /\ y = [p EXCEPT !.capture = a] /\ z = open'
        OBVIOUS
      <3>3. p \in RawPattern(job) /\ Bounded(p, k, Len(all)) /\ Last(open) = open[Len(open)]
        <4>1. PICK d : d = Len(all)
          OBVIOUS
        <4>2. d \in Nat /\ CallsBound(job, open, k, d)
          BY <2>7, <3>1, <4>1
        <4>3. Last(open).pattern \in RawPattern(job) /\ Bounded(Last(open).pattern, k, d)
              /\ Last(open) = open[Len(open)]
          BY <2>3, <2>6, <4>2, CallReturns
        <4> QED
          BY <3>2, <4>1, <4>3
      <3>4. a \in 0 .. Len(all)
        BY <2>7
      <3>5. y \in RawPattern(job) /\ Bounded(y, k, Len(all))
        BY <2>6, <2>7, <3>2, <3>3, <3>4, NameAdded
      <3>6. Inward(open, y, z)
        BY <2>3, <3>2, <3>3 DEF Inward
      <3> QED
        BY <2>3, <2>6, <2>7, <3>1, <3>2, <3>5, <3>6, CallChanged
    <2>12. CallsBound(job, open', Len(x.parts), Len(x.captures))
      BY <2>5, <2>6, <2>9, <2>11
    <2>13. textPos' \in Nat \ {0}
      BY <2>3, <2>6
    <2> QED
      BY <2>9, <2>10, <2>12, <2>13, TextMoves
  <1> QED
    BY <1>1, <1>2

LEMMA CloseChildStep ==
  ASSUME TextReady, CloseChild
  PROVE  TextHolds
  <1>1. PICK q, k, c, p, b, fs :
          /\ q = queries[Compiling] /\ k = Len(Parts) /\ c = Len(Captures)
          /\ p = Innermost /\ b = Front(open) /\ fs = Last(open).field
    OBVIOUS
  <1>2. /\ q \in RawQuery(job) /\ QueryTyped(q) /\ q.captures = Captures /\ q.parts = Parts
        /\ k \in Nat /\ c \in Nat /\ CallsBound(job, open, k, c) /\ textPos \in Nat \ {0}
    BY <1>1, InHand DEF Parts, Captures
  <1>3. open # <<>> /\ Len(open) > 1
    BY DEF CloseChild
  <1>4. /\ CallsBound(job, b, k, c) /\ Len(b) = Len(open) - 1 /\ Len(open) \in Nat
        /\ p \in RawPattern(job) /\ fs \in SUBSET Names(job) /\ Bounded(p, k, c)
    <2>1. /\ CallsBound(job, Front(open), k, c) /\ Len(Front(open)) = Len(open) - 1
          /\ Last(open).pattern \in RawPattern(job) /\ Last(open).field \in SUBSET Names(job)
          /\ Bounded(Last(open).pattern, k, c) /\ Len(open) \in Nat
      BY <1>2, <1>3, CallReturns
    <2> QED
      BY <1>1, <2>1 DEF Innermost
  <1>5. /\ queries' = [queries EXCEPT ![Compiling].parts = Append(@, p)]
        /\ open' = [b EXCEPT ![Len(open) - 1].pattern = Joining(@, fs, k + 1)]
        /\ textPos' = textPos + 1
    BY <1>1 DEF CloseChild
  <1>6. PICK x : x = [parts |-> Append(q.parts, p), patterns |-> q.patterns, captures |-> q.captures]
    OBVIOUS
  <1>7. /\ x \in RawQuery(job) /\ QueryTyped(x) /\ Len(x.parts) = Len(q.parts) + 1
        /\ x.captures = q.captures
    <2>1. Bounded(p, Len(q.parts), Len(q.captures)) /\ Extended(q, p, x)
      BY <1>1, <1>2, <1>4, <1>6 DEF Extended
    <2> QED
      BY <1>2, <1>4, <2>1, PartAdded
  <1>8. Replaces(queries, x, queries')
    <2>1. x = [q EXCEPT !.parts = Append(@, p)]
      <3>1. PICK s : s = Append(q.parts, p)
        OBVIOUS
      <3>2. q = [parts |-> q.parts, patterns |-> q.patterns, captures |-> q.captures]
        BY <1>2, RawQueryFacts
      <3>3. [q EXCEPT !.parts = s] = [parts |-> s, patterns |-> q.patterns, captures |-> q.captures]
        BY <3>2
      <3> QED
        BY <1>6, <3>1, <3>3
    <2> QED
      BY <1>1, <1>5, <2>1, InHand DEF Replaces
  <1>9. CallsBound(job, open', k + 1, c)
    <2>1. CallsBound(job, b, k + 1, c) /\ k + 1 \in Nat
      BY <1>2, <1>4, CallsGrow
    <2>2. b # <<>>
      BY <1>3, <1>4
    <2>3. PICK o : o = Last(b).pattern
      OBVIOUS
    <2>4. o \in RawPattern(job) /\ Bounded(o, k, c) /\ Last(b) = b[Len(b)]
      BY <1>2, <1>4, <2>2, <2>3, CallReturns
    <2>5. PICK y, z : z = open' /\ y = Joining(o, fs, k + 1)
      OBVIOUS
    <2>6. y \in RawPattern(job) /\ Bounded(y, k + 1, c)
      <3>1. CASE fs = {}
        <4>1. y = [o EXCEPT !.kids = Append(@, k + 1)]
          BY <2>5, <3>1 DEF Joining
        <4> QED
          BY <1>2, <2>4, <4>1, KidAdded
      <3>2. CASE fs # {}
        <4>1. PICK f : f = CHOOSE g \in fs : TRUE
          OBVIOUS
        <4>2. f \in Names(job)
          BY <1>4, <3>2, <4>1
        <4>3. y = [o EXCEPT !.fields = Append(@, [field |-> f, pattern |-> k + 1])]
          BY <2>5, <3>2, <4>1 DEF Joining
        <4> QED
          BY <1>2, <2>4, <4>2, <4>3, FieldAdded
      <3> QED
        BY <3>1, <3>2
    <2>7. Inward(b, y, z)
      <3>1. PICK n : n = Len(open) - 1
        OBVIOUS
      <3>2. z = [b EXCEPT ![n].pattern = Joining(@, fs, k + 1)]
        BY <1>5, <2>5, <3>1
      <3>3. Joining(b[n].pattern, fs, k + 1) = y
        BY <1>4, <2>3, <2>4, <2>5, <3>1
      <3>4. n = Len(b)
        BY <1>4, <3>1
      <3>5. z = [b EXCEPT ![n].pattern = y]
        BY <3>2, <3>3
      <3> QED
        BY <3>4, <3>5 DEF Inward
    <2> QED
      BY <1>2, <2>1, <2>2, <2>5, <2>6, <2>7, CallChanged
  <1>10. CallsBound(job, open', Len(x.parts), Len(x.captures))
    BY <1>1, <1>2, <1>7, <1>9
  <1>11. textPos' \in Nat \ {0}
    BY <1>2, <1>5
  <1> QED
    BY <1>7, <1>8, <1>10, <1>11, TextMoves

LEMMA CloseTopStep ==
  ASSUME TextReady, CloseTop
  PROVE  TextHolds
  <1>1. PICK q, k, c, p : /\ q = queries[Compiling] /\ k = Len(Parts) /\ c = Len(Captures)
                          /\ p = Innermost
    OBVIOUS
  <1>2. /\ q \in RawQuery(job) /\ QueryTyped(q) /\ q.captures = Captures /\ q.parts = Parts
        /\ k \in Nat /\ c \in Nat /\ CallsBound(job, open, k, c) /\ textPos \in Nat \ {0}
        /\ Captures \in Seq(Names(job)) /\ Compiling = Len(queries)
    BY <1>1, InHand DEF Parts, Captures
  <1>3. open # <<>>
    BY DEF CloseTop
  <1>4. p \in RawPattern(job) /\ Bounded(p, k, c)
    <2>1. Last(open).pattern \in RawPattern(job) /\ Bounded(Last(open).pattern, k, c)
      BY <1>2, <1>3, CallReturns
    <2> QED
      BY <1>1, <2>1 DEF Innermost
  <1>5. ASSUME NEW all \in Seq(Names(job)), c <= Len(all), Len(all) \in Nat,
               NEW o \in RawPattern(job), Bounded(o, k, Len(all)),
               queries' = [queries EXCEPT ![Compiling] = Topped(@, o, all)], open' = <<>>,
               textPos' \in Nat \ {0}
        PROVE  TextHolds
    <2>1. PICK x : x = Topped(q, o, all)
      OBVIOUS
    <2>2. Len(q.captures) <= Len(all) /\ Bounded(o, Len(q.parts), Len(all))
      BY <1>1, <1>2, <1>5
    <2>3. Topped(q, o, all) \in RawQuery(job) /\ QueryTyped(Topped(q, o, all))
      BY <1>2, <1>5, <2>2, ToppedTyped
    <2>4. Replaces(queries, x, queries')
      BY <1>1, <1>2, <1>5, <2>1 DEF Replaces
    <2>5. CallsBound(job, open', Len(x.parts), Len(x.captures))
      BY <1>5 DEF CallsBound
    <2> QED
      BY <1>5, <2>1, <2>3, <2>4, <2>5, TextMoves
  <1>6. CASE UNCHANGED textVars
    BY <1>6 DEF TextReady, TextHolds, textVars
  <1>7. CASE ~UNCHANGED textVars /\ Peek(textPos + 1) = "@"
    <2>1. IsName(textPos + 2)
      BY <1>7 DEF CloseTop, Refuse
    <2>2. PICK name, all, a, o :
            /\ name = Text[textPos + 2][2]
            /\ all = WithCapture(Captures, name) /\ a = PlaceOf(all, name)
            /\ o = [p EXCEPT !.capture = a]
      OBVIOUS
    <2>3. /\ queries' = [queries EXCEPT ![Compiling] = Topped(@, o, all)]
          /\ textPos' = textPos + 3 /\ open' = <<>>
      BY <1>1, <1>7, <2>1, <2>2 DEF CloseTop
    <2>4. name \in Names(job)
      BY <2>1, <2>2, TokenNames, InHand DEF IsName, TextReady
    <2>5. all \in Seq(Names(job)) /\ Len(all) \in Nat /\ c <= Len(all) /\ a \in 1 .. Len(all)
      <3>1. PICK captures : captures = Captures
        OBVIOUS
      <3>2. /\ all \in Seq(Names(job)) /\ Len(all) \in Nat /\ Len(captures) <= Len(all)
            /\ PlaceOf(all, name) \in 1 .. Len(all)
        BY <1>2, <2>2, <2>4, <3>1, PlaceFacts
      <3> QED
        BY <1>1, <2>2, <3>1, <3>2
    <2>6. o \in RawPattern(job) /\ Bounded(o, k, Len(all))
      <3>1. PICK d : d = Len(all)
        OBVIOUS
      <3>2. d \in Nat /\ c <= d /\ a \in 0 .. d
        BY <2>5, <3>1
      <3>3. Bounded(p, k, d)
        BY <1>2, <1>4, <3>2, BoundedGrows
      <3>4. o \in RawPattern(job) /\ Bounded(o, k, d)
        BY <1>2, <1>4, <2>2, <3>2, <3>3, NameAdded
      <3> QED
        BY <3>1, <3>4
    <2>7. textPos' \in Nat \ {0}
      BY <1>2, <2>3
    <2> QED
      BY <1>5, <2>3, <2>5, <2>6, <2>7
  <1>8. CASE ~UNCHANGED textVars /\ Peek(textPos + 1) # "@"
    <2>1. /\ queries' = [queries EXCEPT ![Compiling] = Topped(@, p, Captures)]
          /\ textPos' = textPos + 1 /\ open' = <<>>
      BY <1>1, <1>8 DEF CloseTop
    <2>2. textPos' \in Nat \ {0} /\ c <= Len(Captures)
      BY <1>1, <1>2, <2>1
    <2> QED
      BY <1>1, <1>2, <1>4, <1>5, <2>1, <2>2
  <1> QED
    BY <1>6, <1>7, <1>8

LEMMA TextEndsStep ==
  ASSUME TextReady, TextEnds
  PROVE  TextHolds
  <1>1. CASE UNCHANGED textVars
    BY <1>1 DEF TextReady, TextHolds, textVars
  <1>2. CASE ~UNCHANGED textVars
    <2>1. /\ Len(queries) < Len(job.texts) /\ queries' = Append(queries, NoQuery)
          /\ textPos' = 1 /\ open' = open /\ open = <<>>
      BY <1>2 DEF TextEnds, textVars, Compiling
    <2>2. PICK ys : ys = queries'
      OBVIOUS
    <2>3. QueriesTyped(job, queries) /\ Len(job.texts) \in Nat
      BY InHand
    <2>4. QueriesTyped(job, ys) /\ ys[Len(ys)] = NoQuery
      BY <2>1, <2>2, <2>3, QueryAppended
    <2>5. CallsTyped(job, ys[Len(ys)], open')
      BY <2>1 DEF CallsTyped, CallsBound
    <2> QED
      BY <2>1, <2>2, <2>4, <2>5 DEF TextHolds, TextShape
  <1> QED
    BY <1>1, <1>2

LEMMA TextStep ==
  ASSUME TextReady, TextNext
  PROVE  TextHolds
  <1>0. TextsOK(job) /\ Len(queries) \in 1 .. Len(job.texts) /\ textPos \in Nat \ {0}
    BY InHand DEF TextReady
  <1>1. CASE OpenTop
    BY <1>0, <1>1, CallStep DEF OpenTop
  <1>2. CASE OpenChild
    BY <1>0, <1>2, CallStep DEF OpenChild
  <1>3. CASE OpenField
    <2>1. CASE IsName(textPos)
      <3>1. PICK pos, name : pos = textPos + 2 /\ name = Text[textPos][2]
        OBVIOUS
      <3>2. name \in Names(job) /\ pos \in Nat \ {0}
        BY <1>0, <2>1, <3>1, TokenNames DEF IsName
      <3>3. Call(pos, {name})
        BY <1>3, <2>1, <3>1 DEF OpenField
      <3> QED
        BY <3>2, <3>3, CallStep
    <2>2. CASE ~IsName(textPos)
      BY <1>3, <2>2 DEF OpenField, Refuse, textVars, TextReady, TextHolds
    <2> QED
      BY <2>1, <2>2
  <1>4. CASE SkipColon
    <2>1. textPos' \in Nat \ {0} /\ UNCHANGED <<queries, open>>
      BY <1>0, <1>4 DEF SkipColon
    <2> QED
      BY <2>1 DEF TextReady, TextHolds, TextShape
  <1>5. CASE NamePattern
    BY <1>5, NameStep
  <1>6. CASE CloseChild
    BY <1>6, CloseChildStep
  <1>7. CASE CloseTop
    BY <1>7, CloseTopStep
  <1>8. CASE RunOut
    BY <1>8 DEF RunOut, Refuse, textVars, TextReady, TextHolds
  <1>9. CASE TextEnds
    BY <1>9, TextEndsStep
  <1> QED
    BY <1>1, <1>2, <1>3, <1>4, <1>5, <1>6, <1>7, <1>8, <1>9 DEF TextNext

LEMMA TextFirst ==
  ASSUME TextsOK(job), TextInit
  PROVE  TextShape(job, queries, open, textPos)
  <1>1. queries = <<NoQuery>> /\ textPos = 1 /\ open = <<>>
    BY DEF TextInit
  <1>2. NoQuery \in RawQuery(job) /\ QueryTyped(NoQuery)
    BY DEF RawQuery, NoQuery, QueryTyped, PartsOK
  <1>3. Len(job.texts) \in Nat /\ Len(job.texts) >= 1
    BY DEF TextsOK
  <1>4. queries \in Seq(RawQuery(job)) /\ Len(queries) = 1 /\ DOMAIN queries = 1 .. 1
        /\ queries[1] = NoQuery
    BY <1>1, <1>2
  <1>5. 1 \in 1 .. Len(job.texts) /\ \A i \in 1 .. 1 : queries[i] = NoQuery
    BY <1>3, <1>4
  <1>6. QueriesTyped(job, queries)
    BY <1>2, <1>4, <1>5 DEF QueriesTyped
  <1> QED
    BY <1>1, <1>6 DEF TextShape, CallsTyped, CallsBound

\* Where the texts are compiled, nothing but that happens.
LEMMA TextKept ==
  ASSUME QueryNext
  PROVE  \/ TextNext /\ phase = "compile" /\ UNCHANGED walkVars
         \/ UNCHANGED textVars /\ phase # "compile"
  BY DEF QueryNext, TextNext, OpenTop, OpenChild, OpenField, SkipColon, NamePattern, CloseChild,
         CloseTop, RunOut, TextEnds, TryPattern, DescendQuery, Backtrack, NextInQuery,
         Climb, NextQuery, QueryEnds, AllAsked, SortEntries, Lay, HighlightEnds, Spent, queryVars

LEMMA TextInvStep ==
  ASSUME Chosen, TextInv, [Next]_vars
  PROVE  TextInv'
  <1>1. job' = job
    BY ReaderStep
  <1>2. SUFFICES ASSUME Querying
                 PROVE  TextHolds
    BY <1>1 DEF TextInv, TextHolds, Querying
  <1>3. TextReady
    <2>1. TextsOK(job)
      BY <1>2, ReadingsAssumption DEF Chosen, ReadingOK, Querying
    <2> QED
      BY <1>2, <2>1 DEF TextReady, TextInv
  <1>4. CASE UNCHANGED textVars
    BY <1>3, <1>4 DEF TextReady, TextHolds, textVars
  <1>5. CASE ~UNCHANGED textVars
    <2>1. QueryNext
      BY <1>5 DEF Next, vars, queryVars
    <2>2. TextNext
      BY <1>5, <2>1, TextKept
    <2> QED
      BY <1>3, <2>2, TextStep
  <1> QED
    BY <1>4, <1>5

-------------------------------------------------------------------------------
(***************************************************************************)
(* The walk of a query: its stack is the path of a cursor, by nodes.       *)
(***************************************************************************)

OnTrail(t, st, u, s, p, a, e) ==
  /\ p \in Turns /\ s \in Seq(DOMAIN t.nodes) /\ u \in BOOLEAN
  /\ Goes(t, p, u, s, a, e)
  /\ st \in Seq(DOMAIN t.nodes) /\ Len(st) = Len(p) + 1
  /\ \A i \in 0 .. Len(p) : st[i + 1] = a[i]

StackAt(t, st, u, s) == \E p, a, e : OnTrail(t, st, u, s, p, a, e)

\* A stack that has the nodes along a path.
Follows(t, p, st) ==
  /\ st \in Seq(DOMAIN t.nodes) /\ Len(st) = Len(p) + 1
  /\ \A i \in 0 .. Len(p) : st[i + 1] = Along(t, p)[i]

LEMMA StackWalks ==
  ASSUME NEW t, TreeOK(t), NEW p, NEW u, NEW s, WalkShape(t, p, u, s, "walk"),
         NEW st, Follows(t, p, st)
  PROVE  StackAt(t, st, u, s)
  <1>1. p \in Turns /\ u \in BOOLEAN /\ s \in Seq(DOMAIN t.nodes)
    BY DEF WalkShape
  <1>2. PICK a, e : Goes(t, p, u, s, a, e)
    BY DEF WalkShape
  <1>3. Trail(t, p, Len(p), a, e) /\ Len(p) \in 0 .. Len(p)
    BY <1>1, <1>2 DEF Goes, Turns
  <1>4. \A i \in 0 .. Len(p) : Along(t, p)[i] = a[i]
    BY <1>1, <1>3, AlongTrail
  <1>5. OnTrail(t, st, u, s, p, a, e)
    BY <1>1, <1>2, <1>4 DEF OnTrail, Follows
  <1> QED
    BY <1>5 DEF StackAt

LEMMA StackBegins ==
  ASSUME NEW t, TreeOK(t)
  PROVE  StackAt(t, <<t.root>>, FALSE, <<t.root>>)
  <1>1. PICK p, st : p = <<>> /\ st = <<t.root>>
    OBVIOUS
  <1>2. WalkShape(t, p, FALSE, st, "walk")
    BY <1>1, WalkBegins
  <1>3. p \in Turns /\ Len(p) = 0
    BY <1>1 DEF Turns
  <1>4. Along(t, p)[0] = t.root
    BY <1>3, AlongFacts
  <1>5. st \in Seq(DOMAIN t.nodes) /\ Len(st) = 1 /\ st[1] = t.root
    <2>1. PICK D : D = DOMAIN t.nodes
      OBVIOUS
    <2>2. t.root \in D
      BY <2>1, TreeFacts
    <2>3. <<t.root>> \in Seq(D)
      BY <2>2
    <2> QED
      BY <1>1, <2>1, <2>3
  <1>6. Follows(t, p, st)
    <2>1. \A i \in 0 .. 0 : i = 0 /\ i + 1 = 1
      OBVIOUS
    <2> QED
      BY <1>3, <1>4, <1>5, <2>1 DEF Follows
  <1>7. StackAt(t, st, FALSE, st)
    BY <1>2, <1>6, StackWalks
  <1> QED
    BY <1>1, <1>7

LEMMA StackFacts ==
  ASSUME NEW t, TreeOK(t), NEW st, NEW u, NEW s, StackAt(t, st, u, s)
  PROVE  /\ st \in Seq(DOMAIN t.nodes) /\ s \in Seq(DOMAIN t.nodes)
         /\ Len(st) \in Nat /\ Len(st) >= 1 /\ st # <<>> /\ DOMAIN st = 1 .. Len(st)
         /\ Last(st) = st[Len(st)] /\ Last(st) \in DOMAIN t.nodes
         /\ st[1] = t.root
         /\ \A i \in 1 .. Len(st) - 1 : st[i + 1] \in ToSet(KidsOf(t, st[i]))
         /\ Len(st) = 1 /\ (u \/ KidsOf(t, Last(st)) = <<>>) => s = Preorder(t)[t.root]
  <1>1. PICK p, a, e : OnTrail(t, st, u, s, p, a, e)
    BY DEF StackAt
  <1>2. /\ p \in Turns /\ s \in Seq(DOMAIN t.nodes) /\ Goes(t, p, u, s, a, e)
        /\ st \in Seq(DOMAIN t.nodes) /\ Len(st) = Len(p) + 1
        /\ \A i \in 0 .. Len(p) : st[i + 1] = a[i]
    BY <1>1 DEF OnTrail
  <1>3. Len(p) \in Nat
    BY <1>2 DEF Turns
  <1>4. PICK n, L : n = Len(st) /\ L = Len(p)
    OBVIOUS
  <1>5. /\ n \in Nat /\ n >= 1 /\ n = L + 1 /\ L \in Nat /\ DOMAIN st = 1 .. n
        /\ st # <<>> /\ \A i \in 1 .. n : st[i] \in DOMAIN t.nodes
    BY <1>2, <1>3, <1>4
  <1>6. Last(st) = st[n] /\ st[n] = a[L] /\ st[1] = a[0]
    <2>1. 0 \in 0 .. L /\ L \in 0 .. L /\ 0 + 1 = 1
      BY <1>5
    <2> QED
      BY <1>2, <1>4, <1>5, <2>1 DEF Last
  <1>7. Trail(t, p, L, a, e)
    BY <1>2, <1>4 DEF Goes
  <1>8. \A i \in 1 .. n - 1 : st[i + 1] \in ToSet(KidsOf(t, st[i]))
    <2> TAKE i \in 1 .. n - 1
    <2>1. i \in 0 .. L /\ i \in 1 .. L /\ i - 1 \in 0 .. L /\ (i - 1) + 1 = i /\ i \in 1 .. n
      BY <1>5
    <2>2. st[i + 1] = a[i] /\ st[i] = a[i - 1]
      BY <1>2, <1>4, <2>1
    <2>3. p[i] \in 1 .. Len(KidsOf(t, a[i - 1])) /\ a[i] = KidsOf(t, a[i - 1])[p[i]]
      BY <1>7, <2>1 DEF Trail
    <2>4. st[i] \in DOMAIN t.nodes
      BY <1>5, <2>1
    <2>5. DOMAIN KidsOf(t, st[i]) = 1 .. Len(KidsOf(t, st[i]))
      BY <2>4, TreeFacts
    <2> QED
      BY <2>2, <2>3, <2>5 DEF ToSet
  <1>9. ASSUME n = 1, u \/ KidsOf(t, Last(st)) = <<>>
        PROVE  s = Preorder(t)[t.root]
    <2>1. L = 0
      BY <1>5, <1>9
    <2>2. s \o (Remaining(t, u, a[0]) \o e[0]) = Preorder(t)[t.root] /\ a[0] = t.root /\ e[0] = <<>>
      BY <1>2, <1>4, <1>7, <2>1 DEF Goes, Trail
    <2>3. Remaining(t, u, a[0]) = <<>>
      BY <1>6, <1>9, <2>1, <2>2, TreeFacts, NothingBelow
    <2>4. <<>> \o <<>> = <<>> /\ s \o <<>> = s
      BY <1>2, ConcatEmptySeq
    <2> QED
      BY <2>2, <2>3, <2>4
  <1>10. a[0] = t.root
    BY <1>7 DEF Trail
  <1> QED
    BY <1>2, <1>4, <1>5, <1>6, <1>8, <1>9, <1>10

\* A path that agrees with another one goes along the same nodes.
LEMMA Agrees ==
  ASSUME NEW t, TreeOK(t), NEW p \in Turns, NEW q \in Turns, NEW m \in Nat, NEW a, NEW e,
         Trail(t, p, Len(p), a, e), m <= Len(p), m <= Len(q), \A i \in 1 .. m : q[i] = p[i]
  PROVE  \A i \in 0 .. m : Along(t, q)[i] = a[i]
  <1>1. Len(p) \in Nat /\ Len(q) \in Nat /\ m \in 0 .. Len(q)
    BY DEF Turns
  <1>2. 0 .. m \subseteq 0 .. Len(p) /\ 1 .. m \subseteq 1 .. Len(p)
    BY <1>1
  <1>3. Trail(t, q, m, a, e)
    BY <1>2 DEF Trail
  <1> QED
    BY <1>1, <1>3, AlongTrail

LEMMA KidFacts ==
  ASSUME NEW t, TreeOK(t), NEW n \in DOMAIN t.nodes
  PROVE  /\ KidsOf(t, n) \in Seq(DOMAIN t.nodes)
         /\ Len(KidsOf(t, n)) \in Nat /\ DOMAIN KidsOf(t, n) = 1 .. Len(KidsOf(t, n))
         /\ KidsOf(t, n) # <<>> => Len(KidsOf(t, n)) >= 1
         /\ \A i \in 1 .. Len(KidsOf(t, n)) : KidsOf(t, n)[i] \in DOMAIN t.nodes
         /\ n # 0
  <1>1. PICK K, D : K = KidsOf(t, n) /\ D = DOMAIN t.nodes
    OBVIOUS
  <1>2. K \in Seq(D)
    BY <1>1, TreeFacts
  <1>3. /\ Len(K) \in Nat /\ DOMAIN K = 1 .. Len(K) /\ (K # <<>> => Len(K) >= 1)
        /\ \A i \in 1 .. Len(K) : K[i] \in D
    BY <1>2
  <1>4. n # 0
    BY TreeFacts
  <1> QED
    BY <1>1, <1>2, <1>3, <1>4

LEMMA StackDescends ==
  ASSUME NEW t, TreeOK(t), NEW st, NEW s, StackAt(t, st, FALSE, s),
         NEW n, n = Last(st), KidsOf(t, n) # <<>>, NEW c, c = KidsOf(t, n)[1]
  PROVE  StackAt(t, Append(st, c), FALSE, Append(s, c))
  <1>1. PICK p, a, e : OnTrail(t, st, FALSE, s, p, a, e)
    BY DEF StackAt
  <1>2. /\ p \in Turns /\ s \in Seq(DOMAIN t.nodes) /\ Goes(t, p, FALSE, s, a, e)
        /\ st \in Seq(DOMAIN t.nodes) /\ Len(st) = Len(p) + 1
        /\ \A i \in 0 .. Len(p) : st[i + 1] = a[i]
    BY <1>1 DEF OnTrail
  <1>3. PICK L, q, d : L = Len(p) /\ q = Append(p, 1) /\ d = Along(t, q)[Len(q)]
    OBVIOUS
  <1>4. /\ L \in Nat /\ q \in Turns /\ Len(q) = L + 1 /\ q[L + 1] = 1
        /\ \A i \in 1 .. L : q[i] = p[i]
    <2>1. 1 \in Nat \ {0} /\ p \in Seq(Nat \ {0})
      BY <1>2 DEF Turns
    <2>2. /\ L \in Nat /\ q \in Seq(Nat \ {0}) /\ Len(q) = L + 1 /\ q[L + 1] = 1
          /\ \A i \in 1 .. L : q[i] = p[i]
      BY <1>3, <2>1, Grown
    <2> QED
      BY <2>2 DEF Turns
  <1>5. n = a[L] /\ n \in DOMAIN t.nodes
    <2>1. n = st[Len(st)] /\ n \in DOMAIN t.nodes
      BY StackFacts
    <2>2. L \in 0 .. L
      BY <1>4
    <2> QED
      BY <1>2, <1>3, <2>1, <2>2
  <1>6. Trail(t, p, Len(p), a, e) /\ KidsOf(t, a[Len(p)]) # <<>>
    BY <1>2, <1>3, <1>5 DEF Goes
  <1>7. WalkShape(t, q, FALSE, Append(s, d), "walk")
    BY <1>2, <1>3, <1>6, Descends
  <1>8. \A i \in 0 .. L : Along(t, q)[i] = a[i]
    <2>1. L <= Len(p) /\ L <= Len(q)
      BY <1>3, <1>4
    <2> QED
      BY <1>2, <1>4, <1>6, <2>1, Agrees
  <1>9. Len(KidsOf(t, n)) \in Nat /\ Len(KidsOf(t, n)) # 0 /\ KidsOf(t, n) \in Seq(DOMAIN t.nodes)
        /\ n # 0
    <2>1. /\ Len(KidsOf(t, n)) \in Nat /\ Len(KidsOf(t, n)) >= 1 /\ n # 0
          /\ KidsOf(t, n) \in Seq(DOMAIN t.nodes)
      BY <1>5, KidFacts
    <2> QED
      BY <2>1
  <1>10. c \in DOMAIN t.nodes
    BY <1>9
  <1>11. Along(t, q)[L + 1] = c
    <2>1. L + 1 \in 1 .. Len(q) /\ (L + 1) - 1 = L /\ L \in 0 .. L
      BY <1>4
    <2>2. Along(t, q)[L + 1] = Turn(t, q, L + 1, Along(t, q)[(L + 1) - 1])
      BY <1>4, <2>1, AlongFacts
    <2>3. Turn(t, q, L + 1, n) = c
      BY <1>4, <1>9 DEF Turn, KidsOf
    <2> QED
      BY <1>5, <1>8, <2>1, <2>2, <2>3
  <1>12. PICK z : z = Append(st, c)
    OBVIOUS
  <1>13. Follows(t, q, z)
    <2>1. /\ z \in Seq(DOMAIN t.nodes) /\ Len(z) = L + 2 /\ z[L + 2] = c
          /\ \A i \in 1 .. L + 1 : z[i] = st[i]
      <3>1. PICK D : D = DOMAIN t.nodes
        OBVIOUS
      <3>2. /\ z \in Seq(D) /\ Len(z) = Len(st) + 1 /\ z[Len(st) + 1] = c
            /\ \A i \in 1 .. Len(st) : z[i] = st[i]
        <4>1. st \in Seq(D) /\ c \in D
          BY <1>2, <1>10, <3>1
        <4> QED
          BY <1>12, <4>1, Grown
      <3>3. Len(st) = L + 1 /\ Len(st) + 1 = L + 2
        BY <1>2, <1>3, <1>4
      <3> QED
        BY <3>1, <3>2, <3>3
    <2>2. \A i \in 0 .. Len(q) : z[i + 1] = Along(t, q)[i]
      <3> TAKE i \in 0 .. Len(q)
      <3>1. CASE i = L + 1
        BY <1>4, <1>11, <2>1, <3>1
      <3>2. CASE i # L + 1
        <4>1. i \in 0 .. L /\ i + 1 \in 1 .. L + 1
          BY <1>4, <3>2
        <4> QED
          BY <1>2, <1>3, <1>8, <2>1, <4>1
      <3> QED
        BY <3>1, <3>2
    <2> QED
      BY <1>4, <2>1, <2>2 DEF Follows
  <1>14. d = c
    BY <1>3, <1>4, <1>11
  <1>15. StackAt(t, z, FALSE, Append(s, d))
    BY <1>7, <1>13, StackWalks
  <1> QED
    BY <1>12, <1>14, <1>15

\* With nothing left below its top the stack turns to the next child, or back.
TurnsAt(t, st, s, b, k) ==
  /\ k \in 1 .. Len(KidsOf(t, b))
  /\ KidsOf(t, b)[k] = Last(st)
  /\ IF k < Len(KidsOf(t, b))
     THEN StackAt(t, Append(Front(st), KidsOf(t, b)[k + 1]), FALSE, Append(s, KidsOf(t, b)[k + 1]))
     ELSE StackAt(t, Front(st), TRUE, s)

LEMMA FrontFacts ==
  ASSUME NEW T, NEW s \in Seq(T), s # <<>>
  PROVE  /\ Front(s) \in Seq(T) /\ Len(Front(s)) = Len(s) - 1 /\ Len(s) \in Nat /\ Len(s) >= 1
         /\ \A i \in 1 .. Len(s) - 1 : Front(s)[i] = s[i]
  <1>1. PICK n, b : n = Len(s) /\ b = Front(s)
    OBVIOUS
  <1>2. n \in Nat /\ n >= 1 /\ DOMAIN s = 1 .. n /\ \A i \in 1 .. n : s[i] \in T
    BY <1>1
  <1>3. b = [i \in 1 .. n - 1 |-> s[i]]
    BY <1>1, <1>2 DEF Front
  <1> QED
    BY <1>1, <1>2, <1>3

LEMMA StackTurns ==
  ASSUME NEW t, TreeOK(t), NEW st, NEW u, NEW s, StackAt(t, st, u, s), Len(st) >= 2,
         u \/ KidsOf(t, Last(st)) = <<>>, NEW b, b = st[Len(st) - 1]
  PROVE  \E k : TurnsAt(t, st, s, b, k)
  <1>1. PICK p, a, e : OnTrail(t, st, u, s, p, a, e)
    BY DEF StackAt
  <1>2. /\ p \in Turns /\ s \in Seq(DOMAIN t.nodes) /\ Goes(t, p, u, s, a, e) /\ u \in BOOLEAN
        /\ st \in Seq(DOMAIN t.nodes) /\ Len(st) = Len(p) + 1
        /\ \A i \in 0 .. Len(p) : st[i + 1] = a[i]
    BY <1>1 DEF OnTrail
  <1>3. PICK L, q : L = Len(p) /\ q = [p EXCEPT ![Len(p)] = @ + 1]
    OBVIOUS
  <1>4. L \in Nat /\ L >= 1 /\ p # <<>>
    BY <1>2, <1>3 DEF Turns
  <1>5. Beside(p, q)
    BY <1>2, <1>3, <1>4, BesideFacts
  <1>6. PICK k, d, c, m : k = p[L] /\ d = Along(t, q)[Len(q)] /\ c = KidsOf(t, b)[k + 1] /\ m = L - 1
    OBVIOUS
  <1>7. /\ q \in Turns /\ Len(q) = L /\ q[L] = k + 1 /\ k \in Nat \ {0}
        /\ \A i \in 1 .. L - 1 : q[i] = p[i]
    BY <1>3, <1>5, <1>6 DEF Beside
  <1>8. /\ m \in Nat /\ m \in 0 .. L /\ L \in 0 .. L /\ L \in 1 .. L /\ m + 1 = L
        /\ Len(st) = L + 1 /\ Len(st) - 1 = L
    BY <1>2, <1>3, <1>4, <1>6
  <1>9. Last(st) = a[L] /\ b = a[m] /\ Last(st) \in DOMAIN t.nodes
    <2>1. Last(st) = st[Len(st)] /\ Last(st) \in DOMAIN t.nodes
      BY StackFacts
    <2>2. st[L + 1] = a[L] /\ st[m + 1] = a[m]
      BY <1>2, <1>3, <1>8
    <2> QED
      BY <1>8, <2>1, <2>2
  <1>10. Trail(t, p, Len(p), a, e)
    BY <1>2 DEF Goes
  <1>11. b \in DOMAIN t.nodes /\ k \in 1 .. Len(KidsOf(t, b)) /\ KidsOf(t, b)[k] = Last(st)
    <2>1. a[m] \in DOMAIN t.nodes /\ p[L] \in 1 .. Len(KidsOf(t, a[L - 1]))
          /\ a[L] = KidsOf(t, a[L - 1])[p[L]]
      BY <1>3, <1>8, <1>10 DEF Trail
    <2> QED
      BY <1>6, <1>9, <2>1
  <1>12. Len(KidsOf(t, b)) \in Nat /\ b # 0 /\ KidsOf(t, b) \in Seq(DOMAIN t.nodes)
    BY <1>11, KidFacts
  <1>13. u \/ KidsOf(t, a[Len(p)]) = <<>>
    BY <1>3, <1>9
  <1>14. IF d # 0 THEN WalkShape(t, q, FALSE, Append(s, d), "walk")
         ELSE WalkShape(t, Front(p), TRUE, s, "walk")
    BY <1>2, <1>5, <1>6, <1>13, Proceeds
  <1>15. \A i \in 0 .. m : Along(t, q)[i] = a[i]
    <2>1. m <= Len(p) /\ m <= Len(q) /\ \A i \in 1 .. m : q[i] = p[i]
      BY <1>3, <1>4, <1>6, <1>7
    <2>2. p \in Turns /\ q \in Turns /\ m \in Nat
      BY <1>2, <1>7, <1>8
    <2> QED
      BY <1>10, <2>1, <2>2, Agrees
  <1>16. d = Turn(t, q, L, b)
    <2>1. L \in 1 .. Len(q) /\ L - 1 = m /\ m \in 0 .. m
      BY <1>6, <1>7, <1>8
    <2>2. Along(t, q)[L] = Turn(t, q, L, Along(t, q)[L - 1])
      BY <1>7, <2>1, AlongFacts
    <2> QED
      BY <1>6, <1>7, <1>9, <1>15, <2>1, <2>2
  <1>17. PICK f : f = Front(st)
    OBVIOUS
  <1>18. /\ f \in Seq(DOMAIN t.nodes) /\ Len(f) = L /\ \A i \in 1 .. L : f[i] = st[i]
    <2>1. PICK D : D = DOMAIN t.nodes
      OBVIOUS
    <2>2. st \in Seq(D) /\ st # <<>>
      BY <1>2, <1>8, <2>1
    <2>3. f \in Seq(D) /\ Len(f) = Len(st) - 1 /\ \A i \in 1 .. Len(st) - 1 : f[i] = st[i]
      BY <1>17, <2>2, FrontFacts
    <2> QED
      BY <1>8, <2>1, <2>3
  <1>19. \A i \in 0 .. m : f[i + 1] = a[i]
    <2> TAKE i \in 0 .. m
    <2>1. i \in 0 .. L /\ i + 1 \in 1 .. L
      BY <1>8
    <2> QED
      BY <1>2, <1>3, <1>18, <2>1
  <1>20. CASE k < Len(KidsOf(t, b))
    <2>1. d = c /\ c \in DOMAIN t.nodes /\ c # 0
      <3>1. ~(k + 1 > Len(KidsOf(t, b)))
        BY <1>7, <1>12, <1>20
      <3>2. d = c
        BY <1>6, <1>7, <1>12, <1>16, <3>1 DEF Turn, KidsOf
      <3>3. k + 1 \in DOMAIN KidsOf(t, b)
        BY <1>7, <1>12, <3>1
      <3>4. c \in DOMAIN t.nodes
        BY <1>6, <1>12, <3>3
      <3> QED
        BY <3>2, <3>4, TreeFacts
    <2>2. WalkShape(t, q, FALSE, Append(s, c), "walk")
      BY <1>14, <2>1
    <2>3. PICK z : z = Append(f, c)
      OBVIOUS
    <2>4. /\ z \in Seq(DOMAIN t.nodes) /\ Len(z) = L + 1 /\ z[L + 1] = c
          /\ \A i \in 1 .. L : z[i] = f[i]
      <3>1. PICK D : D = DOMAIN t.nodes
        OBVIOUS
      <3>2. /\ z \in Seq(D) /\ Len(z) = Len(f) + 1 /\ z[Len(f) + 1] = c
            /\ \A i \in 1 .. Len(f) : z[i] = f[i]
        BY <1>18, <2>1, <2>3, <3>1, Grown
      <3> QED
        BY <1>18, <3>1, <3>2
    <2>5. \A i \in 0 .. L : z[i + 1] = Along(t, q)[i]
      <3> TAKE i \in 0 .. L
      <3>1. CASE i = L
        BY <1>6, <1>7, <2>1, <2>4, <3>1
      <3>2. CASE i # L
        <4>1. i \in 0 .. m /\ i + 1 \in 1 .. L
          BY <1>8, <3>2
        <4> QED
          BY <1>15, <1>19, <2>4, <4>1
      <3> QED
        BY <3>1, <3>2
    <2>6. Follows(t, q, z)
      BY <1>7, <2>4, <2>5 DEF Follows
    <2>7. StackAt(t, z, FALSE, Append(s, c))
      BY <2>2, <2>6, StackWalks
    <2> QED
      BY <1>6, <1>11, <1>17, <1>20, <2>3, <2>7 DEF TurnsAt
  <1>21. CASE ~(k < Len(KidsOf(t, b)))
    <2>1. d = 0
      <3>1. k + 1 > Len(KidsOf(t, b))
        BY <1>7, <1>12, <1>21
      <3> QED
        BY <1>7, <1>16, <3>1 DEF Turn, KidsOf
    <2>2. PICK g : g = Front(p)
      OBVIOUS
    <2>3. WalkShape(t, g, TRUE, s, "walk")
      BY <1>14, <2>1, <2>2
    <2>4. g \in Turns /\ Len(g) = m /\ \A i \in 1 .. m : g[i] = p[i]
      <3>1. PICK T : T = Nat \ {0}
        OBVIOUS
      <3>2. p \in Seq(T)
        BY <1>2, <3>1 DEF Turns
      <3>3. g \in Seq(T) /\ Len(g) = Len(p) - 1 /\ \A i \in 1 .. Len(p) - 1 : g[i] = p[i]
        BY <1>4, <2>2, <3>2, FrontFacts
      <3> QED
        BY <1>3, <1>6, <3>1, <3>3 DEF Turns
    <2>5. \A i \in 0 .. m : Along(t, g)[i] = a[i]
      <3>1. m <= Len(p) /\ m <= Len(g)
        BY <1>3, <1>4, <1>6, <2>4
      <3> QED
        BY <1>2, <1>8, <1>10, <2>4, <3>1, Agrees
    <2>6. Follows(t, g, f)
      BY <1>8, <1>18, <1>19, <2>4, <2>5 DEF Follows
    <2>7. StackAt(t, f, TRUE, s)
      BY <2>3, <2>6, StackWalks
    <2> QED
      BY <1>11, <1>17, <1>21, <2>7 DEF TurnsAt
  <1> QED
    BY <1>20, <1>21

-------------------------------------------------------------------------------
(***************************************************************************)
(* What the queries yield: query by query, node by node, pattern by        *)
(* pattern.                                                                *)
(***************************************************************************)

Hit(r, qs, q, n, i) ==
  IF Embeds(r, qs[q].parts)[qs[q].patterns[i]][n] THEN <<<<q, i, n>>>> ELSE <<>>
AtNode(r, qs, q, n, k) == FlattenSeq([i \in 1 .. k |-> Hit(r, qs, q, n, i)])
AllAt(r, qs, q, n) == AtNode(r, qs, q, n, Len(qs[q].patterns))
OverNodes(r, qs, q, s) == FlattenSeq([i \in 1 .. Len(s) |-> AllAt(r, qs, q, s[i])])
WholeWalk(r) == Preorder(r.tree)[r.tree.root]
OfQueries(r, qs, k) == FlattenSeq([q \in 1 .. k |-> OverNodes(r, qs, q, WholeWalk(r))])

Triples == Nat \X Nat \X Nat

LEMMA HitTyped ==
  ASSUME NEW r, NEW qs, NEW q \in Nat, NEW n \in Nat, NEW i \in Nat
  PROVE  Hit(r, qs, q, n, i) \in Seq(Triples)
  <1>1. PICK x : x = <<q, i, n>>
    OBVIOUS
  <1>2. x \in Triples
    BY <1>1 DEF Triples
  <1>3. <<x>> \in Seq(Triples) /\ <<>> \in Seq(Triples)
    BY <1>2
  <1> QED
    BY <1>1, <1>3 DEF Hit

LEMMA AtNodeGrows ==
  ASSUME NEW r, NEW qs, NEW q \in Nat, NEW n \in Nat, NEW k \in Nat
  PROVE  /\ AtNode(r, qs, q, n, k) \in Seq(Triples)
         /\ AtNode(r, qs, q, n, 0) = <<>>
         /\ AtNode(r, qs, q, n, k + 1) = AtNode(r, qs, q, n, k) \o Hit(r, qs, q, n, k + 1)
  <1> DEFINE F == [i \in Nat |-> Hit(r, qs, q, n, i)]
  <1>1. \A i \in 1 .. k + 1 : F[i] \in Seq(Triples)
    BY HitTyped
  <1>2. [i \in 1 .. k |-> F[i]] = [i \in 1 .. k |-> Hit(r, qs, q, n, i)]
        /\ [i \in 1 .. k + 1 |-> F[i]] = [i \in 1 .. k + 1 |-> Hit(r, qs, q, n, i)]
        /\ [i \in 1 .. 0 |-> F[i]] = [i \in 1 .. 0 |-> Hit(r, qs, q, n, i)]
        /\ F[k + 1] = Hit(r, qs, q, n, k + 1)
    OBVIOUS
  <1> HIDE DEF F
  <1>3. /\ FlattenSeq([i \in 1 .. k |-> F[i]]) \in Seq(Triples)
        /\ FlattenSeq([i \in 1 .. k + 1 |-> F[i]]) = FlattenSeq([i \in 1 .. k |-> F[i]]) \o F[k + 1]
    BY <1>1, FlattenAppended
  <1>4. FlattenSeq([i \in 1 .. 0 |-> F[i]]) = <<>>
    BY FlattenNone
  <1> QED
    BY <1>2, <1>3, <1>4 DEF AtNode

LEMMA OverNodesGrow ==
  ASSUME NEW r, NEW qs, NEW q \in Nat, Len(qs[q].patterns) \in Nat, NEW D \in SUBSET Nat,
         NEW s \in Seq(D), NEW c \in D
  PROVE  /\ OverNodes(r, qs, q, s) \in Seq(Triples)
         /\ OverNodes(r, qs, q, <<>>) = <<>>
         /\ OverNodes(r, qs, q, Append(s, c)) = OverNodes(r, qs, q, s) \o AllAt(r, qs, q, c)
  <1>1. PICK k, z, l : k = Len(s) /\ z = Append(s, c) /\ l = Len(qs[q].patterns)
    OBVIOUS
  <1>2. k \in Nat /\ Len(z) = k + 1 /\ z[k + 1] = c /\ (\A i \in 1 .. k : z[i] = s[i])
        /\ \A i \in 1 .. k + 1 : z[i] \in D
    <2>1. z \in Seq(D) /\ k \in Nat /\ Len(z) = k + 1 /\ z[k + 1] = c /\ \A i \in 1 .. k : z[i] = s[i]
      BY <1>1, Grown
    <2>2. \A i \in 1 .. k + 1 : z[i] \in D
      BY <2>1
    <2> QED
      BY <2>1, <2>2
  <1> DEFINE F == [i \in 1 .. k + 1 |-> AllAt(r, qs, q, z[i])]
  <1>3. \A i \in 1 .. k + 1 : F[i] \in Seq(Triples)
    <2> SUFFICES ASSUME NEW i \in 1 .. k + 1 PROVE AllAt(r, qs, q, z[i]) \in Seq(Triples)
      OBVIOUS
    <2>1. PICK n : n = z[i]
      OBVIOUS
    <2>2. n \in Nat /\ l \in Nat
      BY <1>1, <1>2, <2>1
    <2>3. AtNode(r, qs, q, n, l) \in Seq(Triples)
      BY <2>2, AtNodeGrows
    <2> QED
      BY <1>1, <2>1, <2>3 DEF AllAt
  <1>4. [i \in 1 .. k |-> F[i]] = [i \in 1 .. k |-> AllAt(r, qs, q, s[i])]
        /\ [i \in 1 .. k + 1 |-> F[i]] = [i \in 1 .. k + 1 |-> AllAt(r, qs, q, z[i])]
        /\ F[k + 1] = AllAt(r, qs, q, c)
    <2>1. \A i \in 1 .. k : i \in 1 .. k + 1
      BY <1>2
    <2> QED
      BY <1>2, <2>1
  <1> HIDE DEF F
  <1>5. /\ FlattenSeq([i \in 1 .. k |-> F[i]]) \in Seq(Triples)
        /\ FlattenSeq([i \in 1 .. k + 1 |-> F[i]]) = FlattenSeq([i \in 1 .. k |-> F[i]]) \o F[k + 1]
    BY <1>2, <1>3, FlattenAppended
  <1>6. OverNodes(r, qs, q, <<>>) = <<>>
    <2> DEFINE G == [i \in 1 .. 0 |-> AllAt(r, qs, q, <<>>[i])]
    <2>1. FlattenSeq([i \in 1 .. 0 |-> G[i]]) = <<>>
      BY FlattenNone
    <2>2. [i \in 1 .. 0 |-> G[i]] = [i \in 1 .. 0 |-> AllAt(r, qs, q, <<>>[i])] /\ Len(<<>>) = 0
      OBVIOUS
    <2> QED
      BY <2>1, <2>2 DEF OverNodes
  <1>7. OverNodes(r, qs, q, s) = FlattenSeq([i \in 1 .. k |-> F[i]])
    BY <1>1, <1>4 DEF OverNodes
  <1>8. OverNodes(r, qs, q, z) = FlattenSeq([i \in 1 .. k + 1 |-> F[i]])
    BY <1>2, <1>4 DEF OverNodes
  <1> QED
    BY <1>1, <1>4, <1>5, <1>6, <1>7, <1>8

LEMMA OfQueriesGrow ==
  ASSUME NEW r, TreeOK(r.tree), NEW qs, NEW l \in Nat,
         \A q \in 1 .. l : Len(qs[q].patterns) \in Nat, NEW k \in Nat, k < l
  PROVE  /\ OfQueries(r, qs, k) \in Seq(Triples) /\ OfQueries(r, qs, 0) = <<>>
         /\ OfQueries(r, qs, k + 1) = OfQueries(r, qs, k) \o OverNodes(r, qs, k + 1, WholeWalk(r))
  <1>1. PICK D, w, root : D = DOMAIN r.tree.nodes /\ w = WholeWalk(r) /\ root = r.tree.root
    OBVIOUS
  <1>2. D \in SUBSET Nat /\ w \in Seq(D) /\ root \in D
    <2>1. Len(r.tree.nodes) \in Nat /\ DOMAIN r.tree.nodes = 1 .. Len(r.tree.nodes)
          /\ r.tree.root \in DOMAIN r.tree.nodes
      BY TreeFacts
    <2>2. Preorder(r.tree)[r.tree.root] \in Seq(DOMAIN r.tree.nodes)
      BY <2>1, PreorderFacts
    <2>3. D \in SUBSET Nat
      BY <1>1, <2>1
    <2> QED
      BY <1>1, <2>1, <2>2, <2>3 DEF WholeWalk
  <1> DEFINE F == [q \in 1 .. k + 1 |-> OverNodes(r, qs, q, w)]
  <1>3. \A q \in 1 .. k + 1 : F[q] \in Seq(Triples)
    <2> SUFFICES ASSUME NEW q \in 1 .. k + 1 PROVE OverNodes(r, qs, q, w) \in Seq(Triples)
      OBVIOUS
    <2>1. q \in Nat /\ q \in 1 .. l
      OBVIOUS
    <2> QED
      BY <1>2, <2>1, OverNodesGrow
  <1>4. [q \in 1 .. k |-> F[q]] = [q \in 1 .. k |-> OverNodes(r, qs, q, w)]
        /\ [q \in 1 .. k + 1 |-> F[q]] = [q \in 1 .. k + 1 |-> OverNodes(r, qs, q, w)]
        /\ F[k + 1] = OverNodes(r, qs, k + 1, w)
        /\ [q \in 1 .. 0 |-> F[q]] = [q \in 1 .. 0 |-> OverNodes(r, qs, q, w)]
    <2>1. \A i \in 1 .. k : i \in 1 .. k + 1
      OBVIOUS
    <2> QED
      BY <2>1
  <1> HIDE DEF F
  <1>5. /\ FlattenSeq([i \in 1 .. k |-> F[i]]) \in Seq(Triples)
        /\ FlattenSeq([i \in 1 .. k + 1 |-> F[i]]) = FlattenSeq([i \in 1 .. k |-> F[i]]) \o F[k + 1]
    BY <1>3, FlattenAppended
  <1>6. FlattenSeq([i \in 1 .. 0 |-> F[i]]) = <<>>
    BY FlattenNone
  <1> QED
    BY <1>1, <1>4, <1>5, <1>6 DEF OfQueries

MatchesOf(r, qs, q) ==
  [query : {q}, pattern : 1 .. Len(qs[q].patterns), node : DOMAIN r.tree.nodes,
   captures : Seq(CapturesOf(r, Len(qs[q].captures)))]
MatchSet(r, qs) == UNION {MatchesOf(r, qs, q) : q \in 1 .. Len(qs)}

MatchIn(r, qs, q, p, n) ==
  LET found == Matched(r, qs[q].parts)[qs[q].patterns[p]][n]
  IN [i \in DOMAIN found |-> [query |-> q, pattern |-> p, node |-> n, captures |-> found[i]]]

\* What of the matches the property is about.
Triple(m) == <<m.query, m.pattern, m.node>>
Proj(ms) == [i \in DOMAIN ms |-> Triple(ms[i])]

LEMMA ProjJoined ==
  ASSUME NEW M, NEW a \in Seq(M), NEW b \in Seq(M)
  PROVE  Proj(a \o b) = Proj(a) \o Proj(b)
  <1>1. PICK x, y : x = Proj(a) /\ y = Proj(b)
    OBVIOUS
  <1>2. /\ Len(a) \in Nat /\ Len(b) \in Nat /\ DOMAIN a = 1 .. Len(a) /\ DOMAIN b = 1 .. Len(b)
        /\ DOMAIN (a \o b) = 1 .. Len(a) + Len(b)
        /\ \A i \in 1 .. Len(a) + Len(b) :
             (a \o b)[i] = IF i <= Len(a) THEN a[i] ELSE b[i - Len(a)]
    OBVIOUS
  <1> DEFINE V == {Triple(a[i]) : i \in DOMAIN a} \cup {Triple(b[i]) : i \in DOMAIN b}
  <1>3. \A i \in DOMAIN a : Triple(a[i]) \in V
    OBVIOUS
  <1>4. \A i \in DOMAIN b : Triple(b[i]) \in V
    OBVIOUS
  <1> HIDE DEF V
  <1>5. x = [i \in 1 .. Len(a) |-> Triple(a[i])] /\ y = [i \in 1 .. Len(b) |-> Triple(b[i])]
    BY <1>1, <1>2 DEF Proj
  <1>6. x \in Seq(V) /\ y \in Seq(V) /\ Len(x) = Len(a) /\ Len(y) = Len(b)
    <2>1. PICK k, l : k = Len(a) /\ l = Len(b)
      OBVIOUS
    <2>2. x \in [1 .. k -> V] /\ y \in [1 .. l -> V] /\ k \in Nat /\ l \in Nat
      BY <1>2, <1>3, <1>4, <1>5, <2>1
    <2>3. x \in Seq(V) /\ y \in Seq(V) /\ Len(x) = k /\ Len(y) = l
      BY <2>2
    <2> QED
      BY <2>1, <2>3
  <1>7. x \o y = [i \in 1 .. Len(a) + Len(b) |-> IF i <= Len(a) THEN x[i] ELSE y[i - Len(a)]]
    <2>1. PICK z, k, l : z = x \o y /\ k = Len(a) /\ l = Len(b)
      OBVIOUS
    <2>2. /\ z \in Seq(V) /\ Len(z) = k + l
          /\ \A i \in 1 .. k + l : z[i] = IF i <= k THEN x[i] ELSE y[i - k]
      <3>1. /\ x \o y \in Seq(V) /\ Len(x \o y) = Len(x) + Len(y)
            /\ \A i \in 1 .. Len(x) + Len(y) :
                 (x \o y)[i] = IF i <= Len(x) THEN x[i] ELSE y[i - Len(x)]
        BY <1>6, ConcatProperties
      <3> QED
        BY <1>6, <2>1, <3>1
    <2>3. z = [i \in 1 .. Len(z) |-> z[i]]
      BY <2>2
    <2>4. z = [i \in 1 .. k + l |-> IF i <= k THEN x[i] ELSE y[i - k]]
      BY <2>2, <2>3
    <2> QED
      BY <2>1, <2>4
  <1>8. \A i \in 1 .. Len(a) + Len(b) :
          Triple((a \o b)[i]) = IF i <= Len(a) THEN x[i] ELSE y[i - Len(a)]
    <2> TAKE i \in 1 .. Len(a) + Len(b)
    <2>1. CASE i <= Len(a)
      <3>1. i \in 1 .. Len(a)
        BY <1>2, <2>1
      <3> QED
        BY <1>2, <1>5, <2>1, <3>1
    <2>2. CASE ~(i <= Len(a))
      <3>1. i - Len(a) \in 1 .. Len(b)
        BY <1>2, <2>2
      <3> QED
        BY <1>2, <1>5, <2>2, <3>1
    <2> QED
      BY <2>1, <2>2
  <1>9. Proj(a \o b) = [i \in 1 .. Len(a) + Len(b) |-> IF i <= Len(a) THEN x[i] ELSE y[i - Len(a)]]
    BY <1>2, <1>8 DEF Proj
  <1> QED
    BY <1>1, <1>7, <1>9

LEMMA MatchFacts ==
  ASSUME NEW r, TreeOK(r.tree), NEW qs, QueriesTyped(r, qs), NEW q \in 1 .. Len(qs),
         NEW p \in 1 .. Len(qs[q].patterns), NEW n \in DOMAIN r.tree.nodes
  PROVE  /\ MatchIn(r, qs, q, p, n) \in Seq(MatchSet(r, qs))
         /\ Proj(MatchIn(r, qs, q, p, n)) = Hit(r, qs, q, n, p)
  <1>1. PICK x, c, k, found, C :
          /\ x = qs[q] /\ c = Len(x.captures) /\ k = x.patterns[p]
          /\ found = Matched(r, x.parts)[k][n] /\ C = Seq(CapturesOf(r, c))
    OBVIOUS
  <1>2. x \in RawQuery(r) /\ QueryTyped(x)
    <2>1. qs \in Seq(RawQuery(r)) /\ Len(qs) \in Nat
      BY DEF QueriesTyped
    <2>2. q \in DOMAIN qs
      BY <2>1
    <2> QED
      BY <1>1, <2>1, <2>2 DEF QueriesTyped
  <1>3. DOMAIN x.patterns = 1 .. Len(x.patterns) /\ c \in Nat
    BY <1>1, <1>2, RawQueryFacts
  <1>4. k \in DOMAIN x.parts /\ PartsOK(x.parts, c)
    BY <1>1, <1>2, <1>3 DEF QueryTyped
  <1>5. found \in Outcomes(r, c) /\ (found # <<>> <=> Embeds(r, x.parts)[k][n])
    <2>1. PICK parts : parts = x.parts
      OBVIOUS
    <2>2. k \in DOMAIN parts /\ PartsOK(parts, c)
      BY <1>4, <2>1
    <2>3. Matched(r, parts)[k][n] \in Outcomes(r, c)
          /\ (Matched(r, parts)[k][n] # <<>> <=> Embeds(r, parts)[k][n])
      BY <2>2, GreedyMissesNone
    <2> QED
      BY <1>1, <2>1, <2>3
  <1>6. Hit(r, qs, q, n, p) = IF found # <<>> THEN <<<<q, p, n>>>> ELSE <<>>
    BY <1>1, <1>5 DEF Hit
  <1>7. MatchIn(r, qs, q, p, n) =
          [i \in DOMAIN found |-> [query |-> q, pattern |-> p, node |-> n, captures |-> found[i]]]
    BY <1>1 DEF MatchIn
  <1>8. CASE found = <<>>
    <2>1. MatchIn(r, qs, q, p, n) = <<>>
      BY <1>7, <1>8
    <2>2. Proj(<<>>) = <<>> /\ <<>> \in Seq(MatchSet(r, qs))
      BY DEF Proj
    <2> QED
      BY <1>6, <1>8, <2>1, <2>2
  <1>9. CASE found # <<>>
    <2>1. PICK s \in C : found = <<s>>
      BY <1>1, <1>5, <1>9 DEF Outcomes
    <2>2. PICK m : m = [query |-> q, pattern |-> p, node |-> n, captures |-> s]
      OBVIOUS
    <2>3. m \in MatchSet(r, qs)
      <3>1. m \in MatchesOf(r, qs, q)
        BY <1>1, <2>2 DEF MatchesOf
      <3> QED
        BY <3>1 DEF MatchSet
    <2>4. MatchIn(r, qs, q, p, n) = <<m>>
      <3>1. DOMAIN found = 1 .. 1 /\ found[1] = s /\ \A i \in 1 .. 1 : i = 1
        BY <2>1
      <3>2. MatchIn(r, qs, q, p, n) = [i \in 1 .. 1 |-> m]
        BY <1>7, <2>2, <3>1
      <3> QED
        BY <3>2
    <2>5. <<m>> \in Seq(MatchSet(r, qs))
      BY <2>3
    <2>6. Proj(<<m>>) = <<<<q, p, n>>>>
      <3>1. Triple(m) = <<q, p, n>>
        BY <2>2 DEF Triple
      <3>2. DOMAIN <<m>> = 1 .. 1 /\ \A i \in 1 .. 1 : <<m>>[i] = m
        OBVIOUS
      <3>3. Proj(<<m>>) = [i \in 1 .. 1 |-> <<q, p, n>>]
        BY <3>1, <3>2 DEF Proj
      <3> QED
        BY <3>3
    <2> QED
      BY <1>6, <1>9, <2>4, <2>5, <2>6
  <1> QED
    BY <1>8, <1>9

-------------------------------------------------------------------------------
(***************************************************************************)
(* The search for the next sibling finds the first place a node has among  *)
(* the children.  Where children are repeated the walk comes back to that  *)
(* place and never gets behind it: it is trapped.                          *)
(***************************************************************************)

PathOK(t, st) ==
  /\ st \in Seq(DOMAIN t.nodes)
  /\ \A i \in 1 .. Len(st) - 1 : st[i + 1] \in ToSet(KidsOf(t, st[i]))

\* The path goes below its k-th node to a child not behind the second of two equal ones.
TrapAt(t, st, k, i, j, l) ==
  LET K == KidsOf(t, st[k])
  IN /\ k \in 1 .. Len(st) - 1 /\ j \in 1 .. Len(K) /\ i \in 1 .. j - 1 /\ K[i] = K[j]
     /\ l \in 1 .. j /\ st[k + 1] = K[l]
Trapped(t, st) == PathOK(t, st) /\ \E k, i, j, l : TrapAt(t, st, k, i, j, l)

FirstPlace(K, x) == Min({i \in DOMAIN K : K[i] = x})

LEMMA FirstPlaceFacts ==
  ASSUME NEW D, NEW K \in Seq(D), NEW x, NEW k \in 1 .. Len(K), K[k] = x
  PROVE  /\ FirstPlace(K, x) \in 1 .. Len(K) /\ K[FirstPlace(K, x)] = x
         /\ \A i \in 1 .. Len(K) : K[i] = x => FirstPlace(K, x) <= i
  <1> DEFINE I == {i \in DOMAIN K : K[i] = x}
  <1>1. DOMAIN K = 1 .. Len(K) /\ Len(K) \in Nat
    OBVIOUS
  <1>2. I \in SUBSET Nat /\ k \in I
    BY <1>1
  <1>3. \A i \in I : i \in 1 .. Len(K) /\ K[i] = x
    BY <1>1
  <1>4. \A i \in 1 .. Len(K) : K[i] = x => i \in I
    BY <1>1
  <1>5. FirstPlace(K, x) = Min(I)
    BY DEF FirstPlace
  <1> HIDE DEF I
  <1>6. \E i \in I : \A j \in I : i <= j
    <2>1. I # {}
      BY <1>2
    <2> QED
      BY <1>2, <2>1, LeastExists
  <1>7. Min(I) \in I /\ \A j \in I : Min(I) <= j
    BY <1>6 DEF Min
  <1> QED
    BY <1>3, <1>4, <1>5, <1>7

LEMMA PathGrows ==
  ASSUME NEW t, TreeOK(t), NEW st, PathOK(t, st), st # <<>>, NEW c, NEW m \in DOMAIN KidsOf(t, Last(st)),
         c = KidsOf(t, Last(st))[m]
  PROVE  /\ PathOK(t, Append(st, c)) /\ Len(st) \in Nat /\ Len(st) >= 1
         /\ Len(Append(st, c)) = Len(st) + 1 /\ Append(st, c)[Len(st) + 1] = c
         /\ \A i \in 1 .. Len(st) : Append(st, c)[i] = st[i]
         /\ Last(st) \in DOMAIN t.nodes
  <1>1. PICK D, n, z, b : D = DOMAIN t.nodes /\ n = Len(st) /\ z = Append(st, c) /\ b = st[n]
    OBVIOUS
  <1>2. st \in Seq(D) /\ n \in Nat /\ n >= 1 /\ DOMAIN st = 1 .. n
    BY <1>1 DEF PathOK
  <1>3. Last(st) = b /\ b \in D
    BY <1>1, <1>2 DEF Last
  <1>4. c \in D /\ c \in ToSet(KidsOf(t, b))
    <2>1. m \in 1 .. Len(KidsOf(t, b)) /\ c = KidsOf(t, b)[m]
      BY <1>1, <1>3, KidFacts
    <2>2. c \in D
      BY <1>1, <1>3, <2>1, KidFacts
    <2> QED
      BY <1>3, <2>2 DEF ToSet
  <1>5. z \in Seq(D) /\ Len(z) = n + 1 /\ z[n + 1] = c /\ \A i \in 1 .. n : z[i] = st[i]
    BY <1>1, <1>2, <1>4, Grown
  <1>6. \A i \in 1 .. Len(z) - 1 : z[i + 1] \in ToSet(KidsOf(t, z[i]))
    <2> TAKE i \in 1 .. Len(z) - 1
    <2>1. i \in 1 .. n
      BY <1>2, <1>5
    <2>2. CASE i = n
      BY <1>1, <1>4, <1>5, <2>1, <2>2
    <2>3. CASE i # n
      <3>1. i \in 1 .. n - 1 /\ i + 1 \in 1 .. n
        BY <1>2, <2>1, <2>3
      <3> QED
        BY <1>1, <1>5, <2>1, <3>1 DEF PathOK
    <2> QED
      BY <2>2, <2>3
  <1> QED
    BY <1>1, <1>2, <1>3, <1>5, <1>6 DEF PathOK

LEMMA PathShrinks ==
  ASSUME NEW t, TreeOK(t), NEW st, PathOK(t, st), st # <<>>
  PROVE  /\ PathOK(t, Front(st)) /\ Len(Front(st)) = Len(st) - 1 /\ Len(st) \in Nat /\ Len(st) >= 1
         /\ \A i \in 1 .. Len(st) - 1 : Front(st)[i] = st[i]
         /\ Last(st) = st[Len(st)]
         /\ Len(st) >= 2 => /\ Last(Front(st)) = st[Len(st) - 1] /\ Front(st) # <<>>
                            /\ st[Len(st) - 1] \in DOMAIN t.nodes
                            /\ \E m \in 1 .. Len(KidsOf(t, st[Len(st) - 1])) :
                                 KidsOf(t, st[Len(st) - 1])[m] = Last(st)
  <1>1. PICK D, n, z : D = DOMAIN t.nodes /\ n = Len(st) /\ z = Front(st)
    OBVIOUS
  <1>2. st \in Seq(D)
    BY <1>1 DEF PathOK
  <1>3. z \in Seq(D) /\ Len(z) = n - 1 /\ n \in Nat /\ n >= 1 /\ \A i \in 1 .. n - 1 : z[i] = st[i]
    BY <1>1, <1>2, FrontFacts
  <1>4. \A i \in 1 .. Len(z) - 1 : z[i + 1] \in ToSet(KidsOf(t, z[i]))
    <2> TAKE i \in 1 .. Len(z) - 1
    <2>1. i \in 1 .. n - 1 /\ i + 1 \in 1 .. n - 1
      BY <1>3
    <2> QED
      BY <1>1, <1>3, <2>1 DEF PathOK
  <1>5. Last(st) = st[n]
    BY <1>1 DEF Last
  <1>6. ASSUME n >= 2
        PROVE  /\ Last(z) = st[n - 1] /\ z # <<>> /\ st[n - 1] \in D
               /\ \E m \in 1 .. Len(KidsOf(t, st[n - 1])) : KidsOf(t, st[n - 1])[m] = st[n]
    <2>1. n - 1 \in 1 .. n - 1 /\ (n - 1) + 1 = n /\ n - 1 \in 1 .. n
      BY <1>3, <1>6
    <2>2. Last(z) = st[n - 1] /\ z # <<>>
      BY <1>3, <1>6, <2>1 DEF Last
    <2>3. st[n - 1] \in D
      BY <1>1, <1>2, <2>1
    <2>4. st[n] \in ToSet(KidsOf(t, st[n - 1]))
      BY <1>1, <2>1 DEF PathOK
    <2>5. DOMAIN KidsOf(t, st[n - 1]) = 1 .. Len(KidsOf(t, st[n - 1]))
      BY <1>1, <2>3, KidFacts
    <2> QED
      BY <2>2, <2>3, <2>4, <2>5 DEF ToSet
  <1> QED
    BY <1>1, <1>3, <1>4, <1>5, <1>6 DEF PathOK

LEMMA TrapKept ==
  ASSUME NEW t, NEW st, NEW k, NEW i, NEW j, NEW l, TrapAt(t, st, k, i, j, l),
         NEW z, PathOK(t, z), k + 1 <= Len(z), Len(z) \in Nat, Len(st) \in Nat,
         z[k] = st[k], z[k + 1] = st[k + 1]
  PROVE  Trapped(t, z)
  <1>1. k \in 1 .. Len(z) - 1
    BY DEF TrapAt
  <1>2. TrapAt(t, z, k, i, j, l)
    BY <1>1 DEF TrapAt
  <1> QED
    BY <1>2 DEF Trapped

\* The place the walk finds for its top, and the node it turns to from there.
Found(t, st) == FirstPlace(KidsOf(t, st[Len(st) - 1]), Last(st))
HasNext(t, st) == Len(st) >= 2 /\ Found(t, st) < Len(KidsOf(t, st[Len(st) - 1]))
NextTop(t, st) == KidsOf(t, st[Len(st) - 1])[Found(t, st) + 1]
Turned(t, st) == Append(Front(st), NextTop(t, st))

FoundAt(t, st, n, K, P) ==
  /\ n \in Nat /\ Last(st) = st[n] /\ st[n - 1] \in DOMAIN t.nodes /\ Len(K) \in Nat
  /\ P \in 1 .. Len(K) /\ K[P] = st[n]
  /\ \A i \in 1 .. Len(K) : K[i] = st[n] => P <= i
  /\ P < Len(K) =>
       /\ NextTop(t, st) = K[P + 1] /\ PathOK(t, Turned(t, st))
       /\ Len(Turned(t, st)) = n /\ Turned(t, st)[n] = NextTop(t, st)
       /\ \A i \in 1 .. n - 1 : Turned(t, st)[i] = st[i]

LEMMA FoundFacts ==
  ASSUME NEW t, TreeOK(t), NEW st, PathOK(t, st), Len(st) >= 2
  PROVE  FoundAt(t, st, Len(st), KidsOf(t, st[Len(st) - 1]), Found(t, st))
  <1>0. PICK n, K, P : n = Len(st) /\ K = KidsOf(t, st[n - 1]) /\ P = Found(t, st)
    OBVIOUS
  <1>1. st # <<>>
    OBVIOUS
  <1>2. /\ PathOK(t, Front(st)) /\ Len(Front(st)) = n - 1 /\ n \in Nat
        /\ \A i \in 1 .. n - 1 : Front(st)[i] = st[i]
        /\ Last(st) = st[n] /\ Last(Front(st)) = st[n - 1] /\ Front(st) # <<>>
        /\ st[n - 1] \in DOMAIN t.nodes /\ K = KidsOf(t, st[n - 1])
        /\ \E m \in 1 .. Len(KidsOf(t, st[n - 1])) : KidsOf(t, st[n - 1])[m] = Last(st)
    <2>1. n = Len(st)
      BY <1>0
    <2>2. /\ PathOK(t, Front(st)) /\ Len(Front(st)) = n - 1 /\ n \in Nat /\ n >= 1
          /\ \A i \in 1 .. n - 1 : Front(st)[i] = st[i]
          /\ Last(st) = st[n]
          /\ n >= 2 => /\ Last(Front(st)) = st[n - 1] /\ Front(st) # <<>>
                       /\ st[n - 1] \in DOMAIN t.nodes
                       /\ \E m \in 1 .. Len(KidsOf(t, st[n - 1])) : KidsOf(t, st[n - 1])[m] = Last(st)
      <3>1. /\ PathOK(t, Front(st)) /\ Len(Front(st)) = Len(st) - 1 /\ Len(st) \in Nat /\ Len(st) >= 1
            /\ \A i \in 1 .. Len(st) - 1 : Front(st)[i] = st[i]
            /\ Last(st) = st[Len(st)]
            /\ Len(st) >= 2 => /\ Last(Front(st)) = st[Len(st) - 1] /\ Front(st) # <<>>
                               /\ st[Len(st) - 1] \in DOMAIN t.nodes
                               /\ \E m \in 1 .. Len(KidsOf(t, st[Len(st) - 1])) :
                                    KidsOf(t, st[Len(st) - 1])[m] = Last(st)
        BY <1>1, PathShrinks
      <3> QED
        BY <2>1, <3>1
    <2>3. n >= 2 /\ K = KidsOf(t, st[n - 1])
      BY <1>0
    <2> QED
      BY <2>2, <2>3
  <1>3. PICK m \in 1 .. Len(K) : K[m] = st[n]
    BY <1>2
  <1>4. PICK D : D = DOMAIN t.nodes
    OBVIOUS
  <1>5. K \in Seq(D) /\ Len(K) \in Nat
    BY <1>2, <1>4, KidFacts
  <1>6. P = FirstPlace(K, st[n])
    BY <1>0, <1>2 DEF Found
  <1>7. P \in 1 .. Len(K) /\ K[P] = st[n] /\ \A i \in 1 .. Len(K) : K[i] = st[n] => P <= i
    BY <1>3, <1>5, <1>6, FirstPlaceFacts
  <1>8. ASSUME P < Len(K)
        PROVE  /\ NextTop(t, st) = K[P + 1] /\ PathOK(t, Turned(t, st))
               /\ Len(Turned(t, st)) = n /\ Turned(t, st)[n] = NextTop(t, st)
               /\ \A i \in 1 .. n - 1 : Turned(t, st)[i] = st[i]
    <2>1. PICK f, c, j : f = Front(st) /\ c = NextTop(t, st) /\ j = P + 1
      OBVIOUS
    <2>2. c = K[j] /\ j \in 1 .. Len(K)
      BY <1>0, <1>5, <1>7, <1>8, <2>1 DEF NextTop
    <2>3. KidsOf(t, Last(f)) = K /\ PathOK(t, f) /\ f # <<>>
      BY <1>2, <2>1
    <2>4. j \in DOMAIN KidsOf(t, Last(f)) /\ c = KidsOf(t, Last(f))[j]
      BY <1>5, <2>2, <2>3
    <2>5. /\ PathOK(t, Append(f, c)) /\ Len(Append(f, c)) = Len(f) + 1 /\ Append(f, c)[Len(f) + 1] = c
          /\ \A i \in 1 .. Len(f) : Append(f, c)[i] = f[i]
      BY <2>3, <2>4, PathGrows
    <2>6. Turned(t, st) = Append(f, c) /\ Len(f) = n - 1 /\ (n - 1) + 1 = n
      BY <1>2, <2>1 DEF Turned
    <2> QED
      BY <1>2, <2>1, <2>2, <2>5, <2>6
  <1> QED
    BY <1>0, <1>2, <1>5, <1>7, <1>8 DEF FoundAt

LEMMA TrappedDescends ==
  ASSUME NEW t, TreeOK(t), NEW st, Trapped(t, st), NEW c, KidsOf(t, Last(st)) # <<>>,
         c = KidsOf(t, Last(st))[1]
  PROVE  Trapped(t, Append(st, c))
  <1>1. PICK k, i, j, l : TrapAt(t, st, k, i, j, l)
    BY DEF Trapped
  <1>2. PathOK(t, st) /\ k \in 1 .. Len(st) - 1
    BY <1>1 DEF Trapped, TrapAt
  <1>3. st # <<>> /\ Len(st) \in Nat
    BY <1>2 DEF PathOK
  <1>4. Last(st) = st[Len(st)] /\ Last(st) \in DOMAIN t.nodes
    BY <1>2, <1>3 DEF PathOK, Last
  <1>5. 1 \in DOMAIN KidsOf(t, Last(st))
    <2>1. Len(KidsOf(t, Last(st))) >= 1 /\ DOMAIN KidsOf(t, Last(st)) = 1 .. Len(KidsOf(t, Last(st)))
          /\ Len(KidsOf(t, Last(st))) \in Nat
      BY <1>4, KidFacts
    <2> QED
      BY <2>1
  <1>6. PICK z : z = Append(st, c)
    OBVIOUS
  <1>7. PathOK(t, z) /\ Len(z) = Len(st) + 1 /\ \A m \in 1 .. Len(st) : z[m] = st[m]
    BY <1>2, <1>3, <1>5, <1>6, PathGrows
  <1>8. k \in 1 .. Len(st) /\ k + 1 \in 1 .. Len(st) /\ k + 1 <= Len(z) /\ Len(z) \in Nat
    BY <1>2, <1>3, <1>7
  <1>9. Trapped(t, z)
    BY <1>1, <1>3, <1>7, <1>8, TrapKept
  <1> QED
    BY <1>6, <1>9

LEMMA TrappedTurns ==
  ASSUME NEW t, TreeOK(t), NEW st, Trapped(t, st)
  PROVE  IF HasNext(t, st) THEN Trapped(t, Turned(t, st))
         ELSE Len(st) > 2 /\ Trapped(t, Front(st))
  <1>1. PICK k, i, j, l : TrapAt(t, st, k, i, j, l)
    BY DEF Trapped
  <1>2. PICK n, K, P : n = Len(st) /\ K = KidsOf(t, st[n - 1]) /\ P = Found(t, st)
    OBVIOUS
  <1>3. PathOK(t, st) /\ k \in 1 .. n - 1 /\ n \in Nat
    <2>1. PathOK(t, st) /\ k \in 1 .. Len(st) - 1
      BY <1>1 DEF Trapped, TrapAt
    <2> QED
      BY <1>2, <2>1 DEF PathOK
  <1>4. n >= 2 /\ st # <<>> /\ Len(st) >= 2
    BY <1>2, <1>3
  <1>5. /\ Last(st) = st[n] /\ Len(K) \in Nat
        /\ P \in 1 .. Len(K) /\ K[P] = st[n]
        /\ \A a \in 1 .. Len(K) : K[a] = st[n] => P <= a
        /\ P < Len(K) =>
             /\ NextTop(t, st) = K[P + 1] /\ PathOK(t, Turned(t, st))
             /\ Len(Turned(t, st)) = n /\ Turned(t, st)[n] = NextTop(t, st)
             /\ \A a \in 1 .. n - 1 : Turned(t, st)[a] = st[a]
    <2>1. FoundAt(t, st, n, K, P)
      BY <1>2, <1>3, <1>4, FoundFacts
    <2> QED
      BY <2>1 DEF FoundAt
  <1>6. HasNext(t, st) <=> P < Len(K)
    BY <1>2, <1>4 DEF HasNext
  <1>7. PICK z, f : z = Turned(t, st) /\ f = Front(st)
    OBVIOUS
  <1>8. /\ PathOK(t, f) /\ Len(f) = n - 1 /\ \A a \in 1 .. n - 1 : f[a] = st[a]
    BY <1>2, <1>3, <1>4, <1>7, PathShrinks
  <1>9. CASE k = n - 1
    <2>1. /\ j \in 1 .. Len(K) /\ i \in 1 .. j - 1 /\ K[i] = K[j] /\ l \in 1 .. j /\ st[n] = K[l]
      <3>1. KidsOf(t, st[k]) = K /\ k + 1 = n
        BY <1>2, <1>3, <1>9
      <3> QED
        BY <1>1, <3>1 DEF TrapAt
    <2>2. P < j
      <3>1. l \in 1 .. Len(K) /\ i \in 1 .. Len(K)
        BY <1>5, <2>1
      <3>2. P <= l
        BY <1>5, <2>1, <3>1
      <3>3. CASE P = j
        <4>1. K[i] = st[n]
          BY <1>5, <2>1, <3>3
        <4>2. P <= i
          BY <1>5, <3>1, <4>1
        <4> QED
          BY <2>1, <3>3, <4>2
      <3> QED
        BY <1>5, <2>1, <3>2, <3>3
    <2>3. P < Len(K) /\ P + 1 \in 1 .. j
      BY <1>5, <2>1, <2>2
    <2>4. TrapAt(t, z, k, i, j, P + 1)
      <3>1. k \in 1 .. Len(z) - 1 /\ z[k] = st[n - 1] /\ z[k + 1] = K[P + 1]
        BY <1>3, <1>5, <1>7, <1>9, <2>3
      <3> QED
        BY <1>2, <2>1, <2>3, <3>1 DEF TrapAt
    <2> QED
      BY <1>5, <1>6, <1>7, <2>3, <2>4 DEF Trapped
  <1>10. CASE k # n - 1
    <2>1. k \in 1 .. n - 1 /\ k + 1 \in 1 .. n - 1 /\ n > 2 /\ k + 1 <= n /\ k + 1 <= n - 1
          /\ n - 1 \in Nat
      BY <1>3, <1>10
    <2>2. Trapped(t, f)
      BY <1>1, <1>2, <1>3, <1>8, <2>1, TrapKept
    <2>3. ASSUME P < Len(K) PROVE Trapped(t, z)
      <3>1. PathOK(t, z) /\ Len(z) = n /\ z[k] = st[k] /\ z[k + 1] = st[k + 1]
        BY <1>5, <1>7, <2>1, <2>3
      <3> QED
        BY <1>1, <1>2, <1>3, <2>1, <3>1, TrapKept
    <2> QED
      BY <1>2, <1>6, <1>7, <2>1, <2>2, <2>3
  <1> QED
    BY <1>9, <1>10

\* Nothing is left below the top.
Idle(t, st, u) == u \/ KidsOf(t, Last(st)) = <<>>

LEMMA FreeTurns ==
  ASSUME NEW t, TreeOK(t), NEW st, PathOK(t, st), NEW u, NEW s, StackAt(t, st, u, s), Idle(t, st, u)
  PROVE  IF HasNext(t, st)
         THEN Trapped(t, Turned(t, st)) \/ StackAt(t, Turned(t, st), FALSE, Append(s, NextTop(t, st)))
         ELSE IF Len(st) <= 2 THEN s = Preorder(t)[t.root] ELSE StackAt(t, Front(st), TRUE, s)
  <1>0. Len(st) \in Nat /\ Len(st) >= 1 /\ st # <<>>
    BY StackFacts
  <1>00. u \/ KidsOf(t, Last(st)) = <<>>
    BY DEF Idle
  <1>1. CASE Len(st) = 1
    <2>1. ~HasNext(t, st)
      BY <1>1 DEF HasNext
    <2> QED
      BY <1>00, <1>1, <2>1, StackFacts
  <1>2. CASE Len(st) # 1
    <2>1. PICK n, K, P, b : /\ n = Len(st) /\ K = KidsOf(t, st[n - 1]) /\ P = Found(t, st)
                            /\ b = st[n - 1]
      OBVIOUS
    <2>2. n \in Nat /\ n >= 2 /\ Len(st) >= 2
      BY <1>0, <1>2, <2>1
    <2>3. /\ Last(st) = st[n] /\ Len(K) \in Nat
          /\ P \in 1 .. Len(K) /\ K[P] = st[n]
          /\ \A a \in 1 .. Len(K) : K[a] = st[n] => P <= a
          /\ P < Len(K) =>
               /\ NextTop(t, st) = K[P + 1] /\ PathOK(t, Turned(t, st))
               /\ Len(Turned(t, st)) = n /\ Turned(t, st)[n] = NextTop(t, st)
               /\ \A a \in 1 .. n - 1 : Turned(t, st)[a] = st[a]
      <3>1. FoundAt(t, st, n, K, P)
        BY <2>1, <2>2, FoundFacts
      <3> QED
        BY <3>1 DEF FoundAt
    <2>4. HasNext(t, st) <=> P < Len(K)
      BY <2>1, <2>2 DEF HasNext
    <2>5. PICK k : TurnsAt(t, st, s, b, k)
      BY <1>00, <2>1, <2>2, StackTurns
    <2>6. /\ k \in 1 .. Len(K) /\ K[k] = st[n] /\ P <= k
          /\ IF k < Len(K) THEN StackAt(t, Append(Front(st), K[k + 1]), FALSE, Append(s, K[k + 1]))
             ELSE StackAt(t, Front(st), TRUE, s)
      <3>1. /\ k \in 1 .. Len(K) /\ K[k] = st[n]
            /\ IF k < Len(K) THEN StackAt(t, Append(Front(st), K[k + 1]), FALSE, Append(s, K[k + 1]))
               ELSE StackAt(t, Front(st), TRUE, s)
        BY <2>1, <2>3, <2>5 DEF TurnsAt
      <3> QED
        BY <2>3, <3>1
    <2>7. ASSUME P < k
          PROVE  HasNext(t, st) /\ Trapped(t, Turned(t, st))
      <3>1. P < Len(K) /\ P + 1 \in 1 .. k /\ P \in 1 .. k - 1
        BY <2>3, <2>6, <2>7
      <3>2. PICK z, m : z = Turned(t, st) /\ m = n - 1
        OBVIOUS
      <3>3. PathOK(t, z) /\ Len(z) = n /\ z[m] = b /\ z[m + 1] = K[P + 1] /\ m \in 1 .. Len(z) - 1
        BY <2>1, <2>2, <2>3, <3>1, <3>2
      <3>4. TrapAt(t, z, m, P, k, P + 1)
        BY <2>1, <2>3, <2>6, <3>1, <3>3 DEF TrapAt
      <3> QED
        BY <2>4, <3>1, <3>2, <3>3, <3>4 DEF Trapped
    <2>8. ASSUME P = k, P < Len(K)
          PROVE  StackAt(t, Turned(t, st), FALSE, Append(s, NextTop(t, st)))
      BY <2>3, <2>6, <2>8 DEF Turned
    <2>9. ASSUME P = k, ~(P < Len(K))
          PROVE  IF Len(st) <= 2 THEN s = Preorder(t)[t.root] ELSE StackAt(t, Front(st), TRUE, s)
      <3>1. StackAt(t, Front(st), TRUE, s)
        BY <2>6, <2>9
      <3>2. ASSUME Len(st) <= 2 PROVE s = Preorder(t)[t.root]
        <4>1. Len(Front(st)) = 1
          <5>1. Len(st) = 2 /\ Len(Front(st)) = Len(st) - 1
            <6>1. Len(st) = 2
              <7>1. PICK m : m = Len(st)
                OBVIOUS
              <7>2. m \in Nat /\ m >= 2 /\ m <= 2
                BY <1>0, <2>2, <3>2, <7>1
              <7> QED
                BY <7>1, <7>2
            <6>2. Len(Front(st)) = Len(st) - 1
              BY <1>0, PathShrinks
            <6> QED
              BY <6>1, <6>2
          <5> QED
            BY <5>1
        <4> QED
          BY <3>1, <4>1, StackFacts
      <3> QED
        BY <3>1, <3>2
    <2>10. P < k \/ P = k
      BY <2>3, <2>6
    <2>11. CASE HasNext(t, st)
      BY <2>4, <2>7, <2>8, <2>10, <2>11
    <2>12. CASE ~HasNext(t, st)
      BY <2>4, <2>7, <2>9, <2>10, <2>12
    <2> QED
      BY <2>11, <2>12
  <1> QED
    BY <1>1, <1>2

-------------------------------------------------------------------------------
(***************************************************************************)
(* QueryMatches::next: what was yielded is what the patterns give that     *)
(* were tried on the nodes that were met.                                  *)
(***************************************************************************)

Before(r, qs, ask, s) == OfQueries(r, qs, ask - 1) \o OverNodes(r, qs, ask, s)

\* The patterns are tried on the top of the stack; s are the nodes met before it.
Trying(r, qs, ask, st, np, ms, s) ==
  /\ s \in Seq(DOMAIN r.tree.nodes)
  /\ StackAt(r.tree, st, FALSE, Append(s, Last(st)))
  /\ np <= Len(qs[ask].patterns) + 1
  /\ Proj(ms) = Before(r, qs, ask, s) \o AtNode(r, qs, ask, Last(st), np - 1)

\* The walk is on its way back.
Turning(r, qs, ask, st, np, ms, u, s) ==
  /\ StackAt(r.tree, st, u, s)
  /\ Idle(r.tree, st, u)
  /\ np = 1
  /\ Proj(ms) = Before(r, qs, ask, s)

Running(r, qs, ask, st, np, bk, ms) ==
  IF st = <<>> THEN np = 1 /\ bk = FALSE /\ Proj(ms) = OfQueries(r, qs, ask)
  ELSE \/ Trapped(r.tree, st)
       \/ IF bk THEN \E u, s : Turning(r, qs, ask, st, np, ms, u, s)
          ELSE \E s : Trying(r, qs, ask, st, np, ms, s)

WalkTyped(r, qs, ask, st, np, bk, ms) ==
  /\ ask \in 1 .. Len(qs) /\ np \in Nat \ {0} /\ bk \in BOOLEAN
  /\ PathOK(r.tree, st)
  /\ ms \in Seq(MatchSet(r, qs))

Ready(r, qs) == TreeOK(r.tree) /\ QueriesTyped(r, qs)

LEMMA PatternCounts ==
  ASSUME NEW r, NEW qs, Ready(r, qs)
  PROVE  /\ Len(qs) \in Nat /\ DOMAIN qs = 1 .. Len(qs)
         /\ \A q \in 1 .. Len(qs) :
              /\ Len(qs[q].patterns) \in Nat /\ DOMAIN qs[q].patterns = 1 .. Len(qs[q].patterns)
              /\ qs[q] \in RawQuery(r) /\ QueryTyped(qs[q])
  <1>1. PICK Q : Q = RawQuery(r)
    OBVIOUS
  <1>2. qs \in Seq(Q) /\ \A q \in DOMAIN qs : QueryTyped(qs[q])
    BY <1>1 DEF Ready, QueriesTyped
  <1>3. Len(qs) \in Nat /\ DOMAIN qs = 1 .. Len(qs) /\ \A q \in 1 .. Len(qs) : qs[q] \in Q
    BY <1>2
  <1>4. ASSUME NEW q \in 1 .. Len(qs)
        PROVE  /\ Len(qs[q].patterns) \in Nat /\ DOMAIN qs[q].patterns = 1 .. Len(qs[q].patterns)
               /\ qs[q] \in RawQuery(r) /\ QueryTyped(qs[q])
    <2>1. PICK x : x = qs[q]
      OBVIOUS
    <2>2. x \in RawQuery(r) /\ QueryTyped(x)
      BY <1>1, <1>2, <1>3, <2>1
    <2> QED
      BY <2>1, <2>2, RawQueryFacts
  <1> QED
    BY <1>3, <1>4

LEMMA BeforeGrows ==
  ASSUME NEW r, NEW qs, Ready(r, qs), NEW ask \in 1 .. Len(qs), NEW s \in Seq(DOMAIN r.tree.nodes),
         NEW c \in DOMAIN r.tree.nodes
  PROVE  /\ Before(r, qs, ask, s) \in Seq(Triples)
         /\ Before(r, qs, ask, Append(s, c)) = Before(r, qs, ask, s) \o AllAt(r, qs, ask, c)
         /\ Before(r, qs, ask, <<>>) = OfQueries(r, qs, ask - 1)
         /\ Before(r, qs, ask, WholeWalk(r)) = OfQueries(r, qs, ask)
         /\ OfQueries(r, qs, 0) = <<>>
  <1>1. PICK l, k, D : l = Len(qs) /\ k = ask - 1 /\ D = DOMAIN r.tree.nodes
    OBVIOUS
  <1>2. l \in Nat /\ k \in Nat /\ k < l /\ k + 1 = ask /\ ask \in Nat
        /\ \A q \in 1 .. l : Len(qs[q].patterns) \in Nat
    BY <1>1, PatternCounts
  <1>3. D \in SUBSET Nat /\ TreeOK(r.tree) /\ c \in Nat
    <2>1. TreeOK(r.tree)
      BY DEF Ready
    <2>2. DOMAIN r.tree.nodes = 1 .. Len(r.tree.nodes)
      BY <2>1, TreeFacts
    <2> QED
      BY <1>1, <2>1, <2>2
  <1>4. /\ OfQueries(r, qs, k) \in Seq(Triples) /\ OfQueries(r, qs, 0) = <<>>
        /\ OfQueries(r, qs, k + 1) = OfQueries(r, qs, k) \o OverNodes(r, qs, k + 1, WholeWalk(r))
    BY <1>2, <1>3, OfQueriesGrow
  <1>5. /\ OverNodes(r, qs, ask, s) \in Seq(Triples) /\ OverNodes(r, qs, ask, <<>>) = <<>>
        /\ OverNodes(r, qs, ask, Append(s, c)) = OverNodes(r, qs, ask, s) \o AllAt(r, qs, ask, c)
    <2>1. ask \in Nat /\ Len(qs[ask].patterns) \in Nat
      BY <1>1, <1>2
    <2>2. D \in SUBSET Nat /\ s \in Seq(D) /\ c \in D
      BY <1>1, <1>3
    <2> QED
      BY <2>1, <2>2, OverNodesGrow
  <1>6. AllAt(r, qs, ask, c) \in Seq(Triples)
    <2>1. PICK n : n = Len(qs[ask].patterns)
      OBVIOUS
    <2>2. n \in Nat
      BY <1>1, <1>2, <2>1
    <2>3. AtNode(r, qs, ask, c, n) \in Seq(Triples)
      BY <1>2, <1>3, <2>2, AtNodeGrows
    <2> QED
      BY <2>1, <2>3 DEF AllAt
  <1>7. PICK x, y, z : x = OfQueries(r, qs, k) /\ y = OverNodes(r, qs, ask, s) /\ z = AllAt(r, qs, ask, c)
    OBVIOUS
  <1>8. x \in Seq(Triples) /\ y \in Seq(Triples) /\ z \in Seq(Triples)
    BY <1>4, <1>5, <1>6, <1>7
  <1>9. x \o (y \o z) = (x \o y) \o z /\ x \o y \in Seq(Triples) /\ x \o <<>> = x
    <2>1. PICK T : T = Triples
      OBVIOUS
    <2>2. x \in Seq(T) /\ y \in Seq(T) /\ z \in Seq(T)
      BY <1>8, <2>1
    <2>3. x \o (y \o z) = (x \o y) \o z /\ x \o y \in Seq(T) /\ x \o <<>> = x
      BY <2>2
    <2> QED
      BY <2>1, <2>3
  <1> QED
    BY <1>1, <1>2, <1>4, <1>5, <1>7, <1>9 DEF Before

Sound(r, qs, ask, st, np, bk, ms) ==
  WalkTyped(r, qs, ask, st, np, bk, ms) /\ Running(r, qs, ask, st, np, bk, ms)

LEMMA TryKeeps ==
  ASSUME NEW r, NEW qs, Ready(r, qs), NEW ask, NEW st, NEW np, NEW bk, NEW ms,
         Sound(r, qs, ask, st, np, bk, ms), st # <<>>, bk = FALSE, np <= Len(qs[ask].patterns)
  PROVE  Sound(r, qs, ask, st, np + 1, bk, ms \o MatchIn(r, qs, ask, np, Last(st)))
  <1>1. /\ ask \in 1 .. Len(qs) /\ np \in Nat \ {0} /\ PathOK(r.tree, st) /\ ms \in Seq(MatchSet(r, qs))
        /\ Running(r, qs, ask, st, np, bk, ms) /\ TreeOK(r.tree) /\ QueriesTyped(r, qs)
    BY DEF Sound, WalkTyped, Ready
  <1>2. PICK n, x, l : n = Last(st) /\ x = MatchIn(r, qs, ask, np, n) /\ l = Len(qs[ask].patterns)
    OBVIOUS
  <1>3. n \in DOMAIN r.tree.nodes
    <2>1. PICK D : D = DOMAIN r.tree.nodes
      OBVIOUS
    <2>2. st \in Seq(D)
      BY <1>1, <2>1 DEF PathOK
    <2>3. st[Len(st)] \in D
      BY <2>2
    <2> QED
      BY <1>2, <2>1, <2>3 DEF Last
  <1>4. l \in Nat /\ np \in 1 .. l
    BY <1>1, <1>2, PatternCounts
  <1>5. x \in Seq(MatchSet(r, qs)) /\ Proj(x) = Hit(r, qs, ask, n, np)
    BY <1>1, <1>2, <1>3, <1>4, MatchFacts
  <1>6. PICK M : M = MatchSet(r, qs)
    OBVIOUS
  <1>7. ms \in Seq(M) /\ x \in Seq(M)
    BY <1>1, <1>5, <1>6
  <1>8. ms \o x \in Seq(M) /\ Proj(ms \o x) = Proj(ms) \o Hit(r, qs, ask, n, np)
    <2>1. ms \o x \in Seq(M)
      BY <1>7
    <2>2. Proj(ms \o x) = Proj(ms) \o Proj(x)
      BY <1>7, ProjJoined
    <2> QED
      BY <1>5, <2>1, <2>2
  <1>9. ASSUME NEW s, Trying(r, qs, ask, st, np, ms, s)
        PROVE  Trying(r, qs, ask, st, np + 1, ms \o x, s)
    <2>1. PICK k, a, b, h : /\ k = np - 1 /\ a = Before(r, qs, ask, s) /\ b = AtNode(r, qs, ask, n, k)
                            /\ h = Hit(r, qs, ask, n, np)
      OBVIOUS
    <2>2. /\ s \in Seq(DOMAIN r.tree.nodes) /\ StackAt(r.tree, st, FALSE, Append(s, n))
          /\ Proj(ms) = a \o b
      BY <1>2, <1>9, <2>1 DEF Trying
    <2>3. k \in Nat /\ k + 1 = np /\ ask \in Nat /\ n \in Nat
      <3>1. DOMAIN r.tree.nodes = 1 .. Len(r.tree.nodes)
        BY <1>1, TreeFacts
      <3>2. n \in Nat
        BY <1>3, <3>1
      <3> QED
        BY <1>1, <1>4, <2>1, <3>2
    <2>4. b \in Seq(Triples) /\ AtNode(r, qs, ask, n, np) = b \o h
      <3>1. /\ AtNode(r, qs, ask, n, k) \in Seq(Triples)
            /\ AtNode(r, qs, ask, n, k + 1) = AtNode(r, qs, ask, n, k) \o Hit(r, qs, ask, n, k + 1)
        BY <2>3, AtNodeGrows
      <3> QED
        BY <2>1, <2>3, <3>1
    <2>5. a \in Seq(Triples) /\ h \in Seq(Triples)
      BY <1>1, <1>3, <2>1, <2>2, <2>3, BeforeGrows, HitTyped
    <2>6. (a \o b) \o h = a \o (b \o h)
      <3>1. PICK T : T = Triples
        OBVIOUS
      <3>2. a \in Seq(T) /\ b \in Seq(T) /\ h \in Seq(T)
        BY <2>4, <2>5, <3>1
      <3> QED
        BY <3>2
    <2>7. Proj(ms \o x) = a \o AtNode(r, qs, ask, n, np)
      BY <1>8, <2>1, <2>2, <2>4, <2>6
    <2>8. np + 1 <= l + 1 /\ (np + 1) - 1 = np
      BY <1>4
    <2> QED
      BY <1>2, <2>1, <2>2, <2>7, <2>8 DEF Trying
  <1>10. Running(r, qs, ask, st, np + 1, bk, ms \o x)
    BY <1>1, <1>9 DEF Running
  <1>11. WalkTyped(r, qs, ask, st, np + 1, bk, ms \o x)
    <2>1. PICK z, k : z = ms \o x /\ k = np + 1
      OBVIOUS
    <2>2. k \in Nat \ {0} /\ z \in Seq(MatchSet(r, qs))
      BY <1>1, <1>6, <1>8, <2>1
    <2>3. bk \in BOOLEAN
      OBVIOUS
    <2>4. WalkTyped(r, qs, ask, st, k, bk, z)
      BY <1>1, <2>2, <2>3 DEF WalkTyped
    <2> QED
      BY <2>1, <2>4
  <1> QED
    BY <1>2, <1>10, <1>11 DEF Sound

\* All patterns were tried on the top, the last of the nodes a.
Met(r, qs, ask, st, ms, a) ==
  /\ StackAt(r.tree, st, FALSE, a) /\ a \in Seq(DOMAIN r.tree.nodes)
  /\ Proj(ms) = Before(r, qs, ask, a)

LEMMA AllTried ==
  ASSUME NEW r, NEW qs, Ready(r, qs), NEW ask \in 1 .. Len(qs), NEW st, NEW np \in Nat, NEW ms, NEW s,
         Trying(r, qs, ask, st, np, ms, s), np > Len(qs[ask].patterns)
  PROVE  Met(r, qs, ask, st, ms, Append(s, Last(st)))
  <1>1. PICK n, l : n = Last(st) /\ l = Len(qs[ask].patterns)
    OBVIOUS
  <1>2. /\ s \in Seq(DOMAIN r.tree.nodes) /\ StackAt(r.tree, st, FALSE, Append(s, n))
        /\ np <= l + 1 /\ Proj(ms) = Before(r, qs, ask, s) \o AtNode(r, qs, ask, n, np - 1)
    BY <1>1 DEF Trying
  <1>3. l \in Nat
    BY <1>1, PatternCounts
  <1>4. np - 1 = l
    BY <1>1, <1>2, <1>3
  <1>5. n \in DOMAIN r.tree.nodes /\ Append(s, n) \in Seq(DOMAIN r.tree.nodes)
    BY <1>1, <1>2, StackFacts DEF Ready
  <1>6. Before(r, qs, ask, Append(s, n)) = Before(r, qs, ask, s) \o AllAt(r, qs, ask, n)
    BY <1>2, <1>5, BeforeGrows
  <1> QED
    BY <1>1, <1>2, <1>4, <1>5, <1>6 DEF AllAt, Met

\* Nothing was tried yet on a new top.
LEMMA TryingFirst ==
  ASSUME NEW r, NEW qs, Ready(r, qs), NEW ask \in 1 .. Len(qs), NEW st, NEW ms, NEW s,
         s \in Seq(DOMAIN r.tree.nodes), StackAt(r.tree, st, FALSE, Append(s, Last(st))),
         Proj(ms) = Before(r, qs, ask, s)
  PROVE  Trying(r, qs, ask, st, 1, ms, s)
  <1>1. PICK n, l, a : n = Last(st) /\ l = Len(qs[ask].patterns) /\ a = Before(r, qs, ask, s)
    OBVIOUS
  <1>2. l \in Nat
    BY <1>1, PatternCounts
  <1>3. n \in DOMAIN r.tree.nodes
    BY <1>1, StackFacts DEF Ready
  <1>4. n \in Nat /\ ask \in Nat
    BY <1>3, TreeFacts DEF Ready
  <1>5. AtNode(r, qs, ask, n, 0) = <<>>
    BY <1>4, AtNodeGrows
  <1>6. a \in Seq(Triples)
    BY <1>1, <1>3, BeforeGrows
  <1>7. a \o <<>> = a
    BY <1>6, ConcatEmptySeq
  <1>8. 1 <= l + 1 /\ 1 - 1 = 0
    BY <1>2
  <1> QED
    BY <1>1, <1>5, <1>7, <1>8 DEF Trying

LEMMA SoundFacts ==
  ASSUME NEW r, NEW qs, Ready(r, qs), NEW ask, NEW st, NEW np, NEW bk, NEW ms,
         Sound(r, qs, ask, st, np, bk, ms)
  PROVE  /\ ask \in 1 .. Len(qs) /\ np \in Nat \ {0} /\ bk \in BOOLEAN
         /\ PathOK(r.tree, st) /\ ms \in Seq(MatchSet(r, qs))
         /\ Running(r, qs, ask, st, np, bk, ms)
         /\ TreeOK(r.tree)
         /\ st # <<>> => Last(st) \in DOMAIN r.tree.nodes
  <1>1. /\ ask \in 1 .. Len(qs) /\ np \in Nat \ {0} /\ bk \in BOOLEAN
        /\ PathOK(r.tree, st) /\ ms \in Seq(MatchSet(r, qs))
        /\ Running(r, qs, ask, st, np, bk, ms) /\ TreeOK(r.tree)
    BY DEF Sound, WalkTyped, Ready
  <1>2. ASSUME st # <<>> PROVE Last(st) \in DOMAIN r.tree.nodes
    <2>1. PICK D : D = DOMAIN r.tree.nodes
      OBVIOUS
    <2>2. st \in Seq(D)
      BY <1>1, <2>1 DEF PathOK
    <2>3. st[Len(st)] \in D
      BY <1>2, <2>2
    <2> QED
      BY <2>1, <2>3 DEF Last
  <1> QED
    BY <1>1, <1>2

LEMMA StackPath ==
  ASSUME NEW t, TreeOK(t), NEW st, NEW u, NEW s, StackAt(t, st, u, s)
  PROVE  PathOK(t, st) /\ s \in Seq(DOMAIN t.nodes) /\ Last(st) \in DOMAIN t.nodes
  <1>1. /\ st \in Seq(DOMAIN t.nodes) /\ s \in Seq(DOMAIN t.nodes) /\ Last(st) \in DOMAIN t.nodes
        /\ \A i \in 1 .. Len(st) - 1 : st[i + 1] \in ToSet(KidsOf(t, st[i]))
    BY StackFacts
  <1> QED
    BY <1>1 DEF PathOK

\* A turned path has the node it turned to on top.
LEMMA PathTop ==
  ASSUME NEW t, NEW st, PathOK(t, st), NEW c
  PROVE  /\ Append(st, c) # <<>> /\ Last(Append(st, c)) = c
         /\ st # <<>> => Front(Append(st, c)) = st
  <1>1. PICK D : D = DOMAIN t.nodes
    OBVIOUS
  <1>2. st \in Seq(D)
    BY <1>1 DEF PathOK
  <1>3. Append(st, c) # <<>> /\ Append(st, c)[Len(Append(st, c))] = c
    BY <1>2
  <1>4. Front(Append(st, c)) = st
    BY <1>2 DEF Front
  <1> QED
    BY <1>3, <1>4 DEF Last

LEMMA DescendKeeps ==
  ASSUME NEW r, NEW qs, Ready(r, qs), NEW ask, NEW st, NEW np, NEW bk, NEW ms,
         Sound(r, qs, ask, st, np, bk, ms), st # <<>>, bk = FALSE, np > Len(qs[ask].patterns),
         KidsOf(r.tree, Last(st)) # <<>>
  PROVE  Sound(r, qs, ask, Append(st, KidsOf(r.tree, Last(st))[1]), 1, bk, ms)
  <1>1. PICK n, c, z : n = Last(st) /\ c = KidsOf(r.tree, n)[1] /\ z = Append(st, c)
    OBVIOUS
  <1>2. /\ ask \in 1 .. Len(qs) /\ np \in Nat /\ PathOK(r.tree, st) /\ ms \in Seq(MatchSet(r, qs))
        /\ Running(r, qs, ask, st, np, bk, ms) /\ TreeOK(r.tree) /\ n \in DOMAIN r.tree.nodes
    BY <1>1, SoundFacts
  <1>3. 1 \in DOMAIN KidsOf(r.tree, n)
    BY <1>1, <1>2, KidFacts
  <1>4. PathOK(r.tree, z)
    BY <1>1, <1>2, <1>3, PathGrows
  <1>5. z # <<>> /\ Last(z) = c
    BY <1>1, <1>2, PathTop
  <1>6. ASSUME Trapped(r.tree, st) PROVE Trapped(r.tree, z)
    BY <1>1, <1>2, <1>6, TrappedDescends
  <1>7. ASSUME NEW s, Trying(r, qs, ask, st, np, ms, s)
        PROVE  Trying(r, qs, ask, z, 1, ms, Append(s, n))
    <2>1. PICK a : a = Append(s, n)
      OBVIOUS
    <2>2. StackAt(r.tree, st, FALSE, a) /\ a \in Seq(DOMAIN r.tree.nodes) /\ Proj(ms) = Before(r, qs, ask, a)
      <3>1. Met(r, qs, ask, st, ms, Append(s, Last(st)))
        BY <1>2, <1>7, AllTried
      <3>2. Met(r, qs, ask, st, ms, a)
        BY <1>1, <2>1, <3>1
      <3> QED
        BY <3>2 DEF Met
    <2>3. StackAt(r.tree, z, FALSE, Append(a, c))
      BY <1>1, <1>2, <2>2, StackDescends
    <2> QED
      BY <1>2, <1>5, <2>1, <2>2, <2>3, TryingFirst
  <1>8. Running(r, qs, ask, z, 1, bk, ms)
    BY <1>2, <1>5, <1>6, <1>7 DEF Running
  <1>9. WalkTyped(r, qs, ask, z, 1, bk, ms)
    <2>1. bk \in BOOLEAN
      BY SoundFacts
    <2>2. 1 \in Nat \ {0}
      OBVIOUS
    <2> QED
      BY <1>2, <1>4, <2>1, <2>2 DEF WalkTyped
  <1> QED
    BY <1>1, <1>8, <1>9 DEF Sound

LEMMA BacktrackKeeps ==
  ASSUME NEW r, NEW qs, Ready(r, qs), NEW ask, NEW st, NEW np, NEW bk, NEW ms,
         Sound(r, qs, ask, st, np, bk, ms), st # <<>>, bk = FALSE, np > Len(qs[ask].patterns),
         KidsOf(r.tree, Last(st)) = <<>>
  PROVE  Sound(r, qs, ask, st, 1, TRUE, ms)
  <1>1. /\ ask \in 1 .. Len(qs) /\ np \in Nat /\ PathOK(r.tree, st) /\ ms \in Seq(MatchSet(r, qs))
        /\ Running(r, qs, ask, st, np, bk, ms) /\ TreeOK(r.tree)
    BY SoundFacts
  <1>2. ASSUME NEW s, Trying(r, qs, ask, st, np, ms, s)
        PROVE  Turning(r, qs, ask, st, 1, ms, FALSE, Append(s, Last(st)))
    <2>1. PICK a : a = Append(s, Last(st))
      OBVIOUS
    <2>2. StackAt(r.tree, st, FALSE, a) /\ Proj(ms) = Before(r, qs, ask, a)
      <3>1. Met(r, qs, ask, st, ms, Append(s, Last(st)))
        BY <1>1, <1>2, AllTried
      <3>2. Met(r, qs, ask, st, ms, a)
        BY <2>1, <3>1
      <3> QED
        BY <3>2 DEF Met
    <2>3. Idle(r.tree, st, FALSE)
      BY DEF Idle
    <2> QED
      BY <2>1, <2>2, <2>3 DEF Turning
  <1>3. Running(r, qs, ask, st, 1, TRUE, ms)
    BY <1>1, <1>2 DEF Running
  <1>4. WalkTyped(r, qs, ask, st, 1, TRUE, ms)
    BY <1>1 DEF WalkTyped
  <1> QED
    BY <1>3, <1>4 DEF Sound

LEMMA NextKeeps ==
  ASSUME NEW r, NEW qs, Ready(r, qs), NEW ask, NEW st, NEW np, NEW bk, NEW ms,
         Sound(r, qs, ask, st, np, bk, ms), bk, HasNext(r.tree, st)
  PROVE  Sound(r, qs, ask, Turned(r.tree, st), np, FALSE, ms)
  <1>1. PICK c, z : c = NextTop(r.tree, st) /\ z = Turned(r.tree, st)
    OBVIOUS
  <1>2. /\ ask \in 1 .. Len(qs) /\ np \in Nat \ {0} /\ PathOK(r.tree, st) /\ ms \in Seq(MatchSet(r, qs))
        /\ Running(r, qs, ask, st, np, bk, ms) /\ TreeOK(r.tree) /\ Len(st) >= 2 /\ st # <<>>
    <2>1. Len(st) >= 2
      BY DEF HasNext
    <2>2. st # <<>>
      BY <2>1
    <2> QED
      BY <2>1, <2>2, SoundFacts
  <1>3. PathOK(r.tree, z)
    <2>1. FoundAt(r.tree, st, Len(st), KidsOf(r.tree, st[Len(st) - 1]), Found(r.tree, st))
      BY <1>2, FoundFacts
    <2> QED
      BY <1>1, <2>1 DEF FoundAt, HasNext
  <1>4. z # <<>> /\ Last(z) = c
    <2>1. PathOK(r.tree, Front(st))
      BY <1>2, PathShrinks
    <2> QED
      BY <1>1, <2>1, PathTop DEF Turned
  <1>5. ASSUME Trapped(r.tree, st) PROVE Trapped(r.tree, z)
    BY <1>1, <1>2, <1>5, TrappedTurns
  <1>6. ASSUME NEW u, NEW s, Turning(r, qs, ask, st, np, ms, u, s)
        PROVE  np = 1 /\ (Trapped(r.tree, z) \/ Trying(r, qs, ask, z, 1, ms, s))
    <2>1. /\ StackAt(r.tree, st, u, s) /\ Idle(r.tree, st, u)
          /\ np = 1 /\ Proj(ms) = Before(r, qs, ask, s)
      BY <1>6 DEF Turning
    <2>2. Trapped(r.tree, z) \/ StackAt(r.tree, z, FALSE, Append(s, c))
      <3>1. IF HasNext(r.tree, st)
            THEN \/ Trapped(r.tree, Turned(r.tree, st))
                 \/ StackAt(r.tree, Turned(r.tree, st), FALSE, Append(s, NextTop(r.tree, st)))
            ELSE IF Len(st) <= 2 THEN s = Preorder(r.tree)[r.tree.root] ELSE StackAt(r.tree, Front(st), TRUE, s)
        BY <1>2, <2>1, FreeTurns
      <3> QED
        BY <1>1, <3>1
    <2>3. s \in Seq(DOMAIN r.tree.nodes)
      BY <1>2, <2>1, StackPath
    <2>4. ASSUME StackAt(r.tree, z, FALSE, Append(s, c)) PROVE Trying(r, qs, ask, z, 1, ms, s)
      BY <1>2, <1>4, <2>1, <2>3, <2>4, TryingFirst
    <2> QED
      BY <2>1, <2>2, <2>4
  <1>7. Running(r, qs, ask, z, np, FALSE, ms)
    BY <1>2, <1>4, <1>5, <1>6 DEF Running
  <1>8. WalkTyped(r, qs, ask, z, np, FALSE, ms)
    BY <1>2, <1>3 DEF WalkTyped
  <1> QED
    BY <1>1, <1>7, <1>8 DEF Sound

Climbed(st) == IF Len(st) <= 2 THEN <<>> ELSE Front(st)

LEMMA ClimbKeeps ==
  ASSUME NEW r, NEW qs, Ready(r, qs), NEW ask, NEW st, NEW np, NEW bk, NEW ms,
         Sound(r, qs, ask, st, np, bk, ms), bk, ~HasNext(r.tree, st)
  PROVE  Sound(r, qs, ask, Climbed(st), np, Climbed(st) # <<>>, ms)
  <1>1. PICK z : z = Climbed(st)
    OBVIOUS
  <1>2. /\ ask \in 1 .. Len(qs) /\ np \in Nat \ {0} /\ PathOK(r.tree, st) /\ ms \in Seq(MatchSet(r, qs))
        /\ Running(r, qs, ask, st, np, bk, ms) /\ TreeOK(r.tree)
    BY SoundFacts
  <1>3. st # <<>>
    BY <1>2 DEF Running
  <1>4. /\ PathOK(r.tree, Front(st)) /\ Len(Front(st)) = Len(st) - 1 /\ Len(st) \in Nat /\ Len(st) >= 1
    BY <1>2, <1>3, PathShrinks
  <1>5. z = <<>> <=> Len(st) <= 2
    <2>1. ASSUME ~(Len(st) <= 2) PROVE Front(st) # <<>>
      <3>1. Len(Front(st)) # 0
        BY <1>4, <2>1
      <3> QED
        BY <3>1
    <2> QED
      BY <1>1, <2>1 DEF Climbed
  <1>6. PathOK(r.tree, z)
    <2>1. PICK D : D = DOMAIN r.tree.nodes
      OBVIOUS
    <2>2. z = <<>> => z \in Seq(D) /\ \A i \in 1 .. Len(z) - 1 : z[i + 1] \in ToSet(KidsOf(r.tree, z[i]))
      OBVIOUS
    <2>3. z = <<>> => PathOK(r.tree, z)
      BY <2>1, <2>2 DEF PathOK
    <2>4. z = <<>> \/ z = Front(st)
      BY <1>1 DEF Climbed
    <2> QED
      BY <1>4, <2>3, <2>4
  <1>7. ASSUME Trapped(r.tree, st) PROVE z # <<>> /\ Trapped(r.tree, z)
    <2>1. Len(st) > 2 /\ Trapped(r.tree, Front(st))
      BY <1>2, <1>7, TrappedTurns
    <2> QED
      BY <1>1, <1>4, <1>5, <2>1 DEF Climbed
  <1>8. ASSUME NEW u, NEW s, Turning(r, qs, ask, st, np, ms, u, s)
        PROVE  IF z = <<>> THEN np = 1 /\ Proj(ms) = OfQueries(r, qs, ask)
               ELSE Turning(r, qs, ask, z, np, ms, TRUE, s)
    <2>1. /\ StackAt(r.tree, st, u, s) /\ Idle(r.tree, st, u)
          /\ np = 1 /\ Proj(ms) = Before(r, qs, ask, s)
      BY <1>8 DEF Turning
    <2>2. IF Len(st) <= 2 THEN s = WholeWalk(r) ELSE StackAt(r.tree, Front(st), TRUE, s)
      <3>1. WholeWalk(r) = Preorder(r.tree)[r.tree.root]
        BY DEF WholeWalk
      <3>2. IF HasNext(r.tree, st)
            THEN \/ Trapped(r.tree, Turned(r.tree, st))
                 \/ StackAt(r.tree, Turned(r.tree, st), FALSE, Append(s, NextTop(r.tree, st)))
            ELSE IF Len(st) <= 2 THEN s = Preorder(r.tree)[r.tree.root] ELSE StackAt(r.tree, Front(st), TRUE, s)
        BY <1>2, <2>1, FreeTurns
      <3> QED
        BY <3>1, <3>2
    <2>3. CASE z = <<>>
      <3>1. s = WholeWalk(r) /\ s \in Seq(DOMAIN r.tree.nodes) /\ Last(st) \in DOMAIN r.tree.nodes
        BY <1>2, <1>5, <2>1, <2>2, <2>3, StackPath
      <3>2. Before(r, qs, ask, WholeWalk(r)) = OfQueries(r, qs, ask)
        BY <1>2, <3>1, BeforeGrows
      <3> QED
        BY <2>1, <2>3, <3>1, <3>2
    <2>4. CASE z # <<>>
      <3>1. StackAt(r.tree, z, TRUE, s)
        BY <1>1, <1>5, <2>2, <2>4 DEF Climbed
      <3>2. Idle(r.tree, z, TRUE)
        BY DEF Idle
      <3> QED
        BY <2>1, <2>4, <3>1, <3>2 DEF Turning
    <2> QED
      BY <2>3, <2>4
  <1>9. Running(r, qs, ask, z, np, z # <<>>, ms)
    BY <1>2, <1>3, <1>7, <1>8 DEF Running
  <1>10. WalkTyped(r, qs, ask, z, np, z # <<>>, ms)
    BY <1>2, <1>6 DEF WalkTyped
  <1> QED
    BY <1>1, <1>9, <1>10 DEF Sound

LEMMA NextQueryKeeps ==
  ASSUME NEW r, NEW qs, Ready(r, qs), NEW ask, NEW np, NEW bk, NEW ms,
         Sound(r, qs, ask, <<>>, np, bk, ms), ask < Len(qs)
  PROVE  Sound(r, qs, ask + 1, <<r.tree.root>>, np, bk, ms)
  <1>1. PICK k, st, n : k = ask + 1 /\ st = <<r.tree.root>> /\ n = r.tree.root
    OBVIOUS
  <1>2. /\ ask \in 1 .. Len(qs) /\ ms \in Seq(MatchSet(r, qs)) /\ TreeOK(r.tree)
        /\ np = 1 /\ bk = FALSE /\ Proj(ms) = OfQueries(r, qs, ask)
    <2>1. Running(r, qs, ask, <<>>, np, bk, ms)
      BY SoundFacts
    <2> QED
      BY <2>1, SoundFacts DEF Running
  <1>3. k \in 1 .. Len(qs) /\ k - 1 = ask
    BY <1>1, <1>2, PatternCounts
  <1>4. StackAt(r.tree, st, FALSE, <<n>>)
    BY <1>1, <1>2, StackBegins
  <1>5. st # <<>> /\ Last(st) = n /\ Append(<<>>, n) = <<n>>
    BY <1>1 DEF Last
  <1>6. n \in DOMAIN r.tree.nodes /\ PathOK(r.tree, st) /\ <<>> \in Seq(DOMAIN r.tree.nodes)
    <2>1. Last(st) \in DOMAIN r.tree.nodes /\ PathOK(r.tree, st)
      BY <1>2, <1>4, StackPath
    <2>2. \A D : <<>> \in Seq(D)
      OBVIOUS
    <2> QED
      BY <1>5, <2>1, <2>2
  <1>7. Proj(ms) = Before(r, qs, k, <<>>)
    BY <1>2, <1>3, <1>6, BeforeGrows
  <1>8. Trying(r, qs, k, st, 1, ms, <<>>)
    BY <1>3, <1>4, <1>5, <1>6, <1>7, TryingFirst
  <1>9. Running(r, qs, k, st, 1, FALSE, ms)
    BY <1>5, <1>8 DEF Running
  <1>10. WalkTyped(r, qs, k, st, 1, FALSE, ms)
    BY <1>2, <1>3, <1>6 DEF WalkTyped
  <1> QED
    BY <1>1, <1>2, <1>9, <1>10 DEF Sound

\* The walk of the first query begins, with nothing yielded.
LEMMA WalkStarts ==
  ASSUME NEW r, NEW qs, Ready(r, qs), Len(qs) >= 1
  PROVE  Sound(r, qs, 1, <<r.tree.root>>, 1, FALSE, <<>>)
  <1>1. PICK st, n, ms : st = <<r.tree.root>> /\ n = r.tree.root /\ ms = <<>>
    OBVIOUS
  <1>2. TreeOK(r.tree) /\ 1 \in 1 .. Len(qs)
    BY PatternCounts DEF Ready
  <1>4. StackAt(r.tree, st, FALSE, <<n>>)
    BY <1>1, <1>2, StackBegins
  <1>5. st # <<>> /\ Last(st) = n /\ Append(<<>>, n) = <<n>>
    BY <1>1 DEF Last
  <1>6. n \in DOMAIN r.tree.nodes /\ PathOK(r.tree, st) /\ <<>> \in Seq(DOMAIN r.tree.nodes)
    <2>1. Last(st) \in DOMAIN r.tree.nodes /\ PathOK(r.tree, st)
      BY <1>2, <1>4, StackPath
    <2>2. \A D : <<>> \in Seq(D)
      OBVIOUS
    <2> QED
      BY <1>5, <2>1, <2>2
  <1>7. Proj(ms) = Before(r, qs, 1, <<>>)
    <2>1. Before(r, qs, 1, <<>>) = OfQueries(r, qs, 1 - 1) /\ OfQueries(r, qs, 0) = <<>>
      BY <1>2, <1>6, BeforeGrows
    <2>2. Proj(ms) = <<>>
      BY <1>1 DEF Proj
    <2> QED
      BY <2>1, <2>2
  <1>8. Trying(r, qs, 1, st, 1, ms, <<>>)
    BY <1>2, <1>4, <1>5, <1>6, <1>7, TryingFirst
  <1>9. Running(r, qs, 1, st, 1, FALSE, ms)
    BY <1>5, <1>8 DEF Running
  <1>10. WalkTyped(r, qs, 1, st, 1, FALSE, ms)
    <2>1. ms \in Seq(MatchSet(r, qs))
      BY <1>1
    <2> QED
      BY <1>2, <1>6, <2>1 DEF WalkTyped
  <1> QED
    BY <1>1, <1>9, <1>10 DEF Sound

-------------------------------------------------------------------------------
(***************************************************************************)
(* A reading that asks queries.                                            *)
(***************************************************************************)

AtStart(r, ask, st, np, bk, ms) ==
  ask = 1 /\ st = <<r.tree.root>> /\ np = 1 /\ bk = FALSE /\ ms = <<>>

QueryShape(r, qs, ask, st, np, bk, ms, ph) ==
  /\ ph \in {"compile", "refused", "query", "resolve", "done"}
  /\ ph \in {"compile", "refused"} => AtStart(r, ask, st, np, bk, ms)
  /\ ph \in {"query", "resolve", "done"} => Sound(r, qs, ask, st, np, bk, ms)
  /\ ph \in {"resolve", "done"} => st = <<>> /\ ask = Len(qs)

QueryInv == Querying => QueryShape(job, queries, asked, stack, nextPat, back, matches, phase)

QueryReady ==
  /\ Ready(job, queries) /\ Ready(job, queries')
  /\ QueryShape(job, queries, asked, stack, nextPat, back, matches, phase)
QueryHolds == QueryShape(job, queries', asked', stack', nextPat', back', matches', phase')

LEMMA NamedWalk ==
  /\ HasSibling <=> HasNext(job.tree, stack)
  /\ Append(Front(stack), Kids(stack[Len(stack) - 1])[Place + 1]) = Turned(job.tree, stack)
  /\ Current = Last(stack) /\ Patterns = queries[asked].patterns
  /\ \A n : Kids(n) = KidsOf(job.tree, n)
  /\ Root = job.tree.root
  /\ \A p, n : MatchOf(asked, p, n) = MatchIn(job, queries, asked, p, n)
  <1>1. \A n : Kids(n) = KidsOf(job.tree, n)
    BY Named
  <1>2. Root = job.tree.root
    BY Named
  <1>3. Current = Last(stack) /\ Patterns = queries[asked].patterns
    BY DEF Current, Patterns
  <1>4. Place = Found(job.tree, stack)
    BY <1>1, <1>3 DEF Place, Found, FirstPlace
  <1>5. HasSibling <=> HasNext(job.tree, stack)
    BY <1>1, <1>4 DEF HasSibling, HasNext
  <1>6. Append(Front(stack), Kids(stack[Len(stack) - 1])[Place + 1]) = Turned(job.tree, stack)
    BY <1>1, <1>4 DEF Turned, NextTop
  <1>7. \A p, n : MatchOf(asked, p, n) = MatchIn(job, queries, asked, p, n)
    BY DEF MatchOf, MatchIn
  <1> QED
    BY <1>1, <1>2, <1>3, <1>5, <1>6, <1>7

LEMMA CompilePhases ==
  ASSUME TextNext
  PROVE  phase' \in {"compile", "refused", "query"}
  BY DEF TextNext, OpenTop, OpenChild, OpenField, SkipColon, NamePattern, CloseChild,
         CloseTop, RunOut, TextEnds, Call, Refuse, readVars

LEMMA TextPhased ==
  ASSUME TextNext
  PROVE  phase = "compile"
  BY DEF TextNext, OpenTop, OpenChild, OpenField, SkipColon, NamePattern, CloseChild,
         CloseTop, RunOut, TextEnds

LEMMA CompilingKeeps ==
  ASSUME QueryReady, phase = "compile", TextNext, UNCHANGED walkVars
  PROVE  QueryHolds
  <1>1. /\ asked' = asked /\ stack' = stack /\ nextPat' = nextPat /\ back' = back /\ matches' = matches
    BY DEF walkVars
  <1>2. AtStart(job, asked, stack, nextPat, back, matches)
    BY DEF QueryReady, QueryShape
  <1>3. AtStart(job, asked', stack', nextPat', back', matches')
    BY <1>1, <1>2 DEF AtStart
  <1>4. Ready(job, queries') /\ Len(queries') >= 1
    <2>1. PICK qs : qs = queries'
      OBVIOUS
    <2>2. Len(qs) \in 1 .. Len(job.texts)
      BY <2>1 DEF QueryReady, Ready, QueriesTyped
    <2> QED
      BY <2>1, <2>2 DEF QueryReady
  <1>5. Sound(job, queries', 1, <<job.tree.root>>, 1, FALSE, <<>>)
    BY <1>4, WalkStarts
  <1>6. Sound(job, queries', asked', stack', nextPat', back', matches')
    BY <1>3, <1>5 DEF AtStart
  <1>7. phase' \in {"compile", "refused", "query"}
    BY CompilePhases
  <1> QED
    BY <1>3, <1>6, <1>7 DEF QueryHolds, QueryShape

LEMMA WalkingKeeps ==
  ASSUME QueryReady, phase # "compile", UNCHANGED textVars,
         \/ TryPattern \/ DescendQuery \/ Backtrack \/ NextInQuery \/ Climb \/ NextQuery
         \/ QueryEnds \/ SortEntries \/ Lay \/ HighlightEnds
  PROVE  QueryHolds
  <1>1. queries' = queries /\ Ready(job, queries)
    BY DEF textVars, QueryReady
  <1>2. QueryShape(job, queries, asked, stack, nextPat, back, matches, phase)
    BY DEF QueryReady
  <1>3. phase = "query" => Sound(job, queries, asked, stack, nextPat, back, matches)
    BY <1>2 DEF QueryShape
  <1>4. SUFFICES ASSUME phase = "query", phase' = "query",
                        TryPattern \/ DescendQuery \/ Backtrack \/ NextInQuery \/ Climb \/ NextQuery
                 PROVE  Sound(job, queries, asked', stack', nextPat', back', matches')
    <2>1. CASE TryPattern \/ DescendQuery \/ Backtrack \/ NextInQuery \/ Climb \/ NextQuery
      <3>1. phase = "query" /\ phase' = "query"
        BY <2>1 DEF TryPattern, DescendQuery, Backtrack, NextInQuery, Climb, NextQuery, Spent, readVars
      <3>2. Sound(job, queries, asked', stack', nextPat', back', matches')
        BY <1>4, <2>1, <3>1
      <3> QED
        BY <1>1, <3>1, <3>2 DEF QueryHolds, QueryShape
    <2>2. CASE QueryEnds \/ SortEntries \/ Lay \/ HighlightEnds
      <3>1. /\ asked' = asked /\ stack' = stack /\ nextPat' = nextPat /\ back' = back /\ matches' = matches
            /\ phase' \in {"resolve", "done"}
            /\ \/ phase = "query" /\ stack = <<>> /\ asked = Len(queries)
               \/ phase = "resolve"
        BY <2>2 DEF QueryEnds, SortEntries, Lay, HighlightEnds, AllAsked, queryVars, walkVars, readVars
      <3>2. Sound(job, queries, asked, stack, nextPat, back, matches) /\ stack = <<>> /\ asked = Len(queries)
        BY <1>2, <3>1 DEF QueryShape
      <3> QED
        BY <1>1, <3>1, <3>2 DEF QueryHolds, QueryShape
    <2> QED
      BY <2>1, <2>2
  <1>5. Sound(job, queries, asked, stack, nextPat, back, matches)
    BY <1>3, <1>4
  <1>6. back \in BOOLEAN
    BY <1>1, <1>5, SoundFacts
  <1>7. CASE TryPattern
    <2>1. /\ stack # <<>> /\ back = FALSE /\ nextPat <= Len(queries[asked].patterns)
          /\ matches' = matches \o MatchIn(job, queries, asked, nextPat, Last(stack))
          /\ nextPat' = nextPat + 1 /\ asked' = asked /\ stack' = stack /\ back' = back
      BY <1>6, <1>7, NamedWalk DEF TryPattern
    <2>2. Sound(job, queries, asked, stack, nextPat + 1, back,
                matches \o MatchIn(job, queries, asked, nextPat, Last(stack)))
      BY <1>1, <1>5, <2>1, TryKeeps
    <2> QED
      BY <2>1, <2>2
  <1>8. CASE DescendQuery
    <2>1. /\ stack # <<>> /\ back = FALSE /\ nextPat > Len(queries[asked].patterns)
          /\ KidsOf(job.tree, Last(stack)) # <<>>
          /\ stack' = Append(stack, KidsOf(job.tree, Last(stack))[1])
          /\ nextPat' = 1 /\ asked' = asked /\ matches' = matches /\ back' = back
      BY <1>6, <1>8, NamedWalk DEF DescendQuery, Spent
    <2>2. Sound(job, queries, asked, Append(stack, KidsOf(job.tree, Last(stack))[1]), 1, back, matches)
      BY <1>1, <1>5, <2>1, DescendKeeps
    <2> QED
      BY <2>1, <2>2
  <1>9. CASE Backtrack
    <2>1. /\ stack # <<>> /\ back = FALSE /\ nextPat > Len(queries[asked].patterns)
          /\ KidsOf(job.tree, Last(stack)) = <<>>
          /\ stack' = stack /\ nextPat' = 1 /\ asked' = asked /\ matches' = matches /\ back' = TRUE
      BY <1>6, <1>9, NamedWalk DEF Backtrack, Spent
    <2>2. Sound(job, queries, asked, stack, 1, TRUE, matches)
      BY <1>1, <1>5, <2>1, BacktrackKeeps
    <2> QED
      BY <2>1, <2>2
  <1>10. CASE NextInQuery
    <2>1. /\ back /\ HasNext(job.tree, stack) /\ stack' = Turned(job.tree, stack)
          /\ nextPat' = nextPat /\ asked' = asked /\ matches' = matches /\ back' = FALSE
      BY <1>10, NamedWalk DEF NextInQuery
    <2>2. Sound(job, queries, asked, Turned(job.tree, stack), nextPat, FALSE, matches)
      BY <1>1, <1>5, <2>1, NextKeeps
    <2> QED
      BY <2>1, <2>2
  <1>11. CASE Climb
    <2>1. /\ back /\ ~HasNext(job.tree, stack) /\ stack' = Climbed(stack)
          /\ nextPat' = nextPat /\ asked' = asked /\ matches' = matches /\ back' = (stack' # <<>>)
      BY <1>11, NamedWalk DEF Climb, Climbed
    <2>2. Sound(job, queries, asked, Climbed(stack), nextPat, Climbed(stack) # <<>>, matches)
      BY <1>1, <1>5, <2>1, ClimbKeeps
    <2>3. back' = (Climbed(stack) # <<>>)
      BY <2>1
    <2> QED
      BY <2>1, <2>2, <2>3
  <1>12. CASE NextQuery
    <2>1. /\ stack = <<>> /\ asked < Len(queries) /\ stack' = <<job.tree.root>>
          /\ asked' = asked + 1 /\ nextPat' = nextPat /\ matches' = matches /\ back' = back
      BY <1>12, NamedWalk DEF NextQuery
    <2>2. Sound(job, queries, asked, <<>>, nextPat, back, matches)
      BY <1>5, <2>1
    <2>3. Sound(job, queries, asked + 1, <<job.tree.root>>, nextPat, back, matches)
      BY <1>1, <2>1, <2>2, NextQueryKeeps
    <2> QED
      BY <2>1, <2>3
  <1> QED
    BY <1>4, <1>7, <1>8, <1>9, <1>10, <1>11, <1>12

LEMMA QueryReadied ==
  ASSUME Chosen, Querying, TextInv, TextInv', job' = job
  PROVE  Ready(job, queries) /\ Ready(job, queries')
  <1>1. TreeOK(job.tree)
    BY ReadingsAssumption DEF Chosen, ReadingOK
  <1>2. TextShape(job, queries, open, textPos)
    BY DEF TextInv
  <1>3. TextShape(job, queries', open', textPos')
    BY DEF TextInv, Querying
  <1> QED
    BY <1>1, <1>2, <1>3 DEF TextShape, Ready

LEMMA OpsPhased ==
  ASSUME OpsNext
  PROVE  phase \in {"walk", "find", "mark"}
  BY DEF OpsNext, GotoFirstChild, GotoNextSibling, GotoParent, WalkEnds, FindBelow, FindEnds,
         MarkSkip, MarkBelow, MarkNode, MarkEnds, Marking

LEMMA QueryInvStep ==
  ASSUME Chosen, TextInv, TextInv', QueryInv, [Next]_vars
  PROVE  QueryInv'
  <1>1. job' = job
    BY ReaderStep
  <1>2. SUFFICES ASSUME Querying PROVE QueryHolds
    BY <1>1 DEF QueryInv, QueryHolds, Querying
  <1>3. QueryReady
    BY <1>1, <1>2, QueryReadied DEF QueryReady, QueryInv
  <1>4. CASE UNCHANGED vars
    <2>1. /\ queries' = queries /\ asked' = asked /\ stack' = stack /\ nextPat' = nextPat
          /\ back' = back /\ matches' = matches /\ phase' = phase
      BY <1>4 DEF vars, queryVars, textVars, walkVars, readVars
    <2> QED
      BY <1>3, <2>1 DEF QueryReady, QueryHolds
  <1>5. CASE OpsNext
    <2>1. phase \in {"compile", "refused", "query", "resolve", "done"}
      BY <1>3 DEF QueryReady, QueryShape
    <2> QED
      BY <1>5, <2>1, OpsPhased
  <1>6. CASE QueryNext
    <2>1. CASE TextNext /\ phase = "compile" /\ UNCHANGED walkVars
      BY <1>3, <2>1, CompilingKeeps
    <2>2. CASE UNCHANGED textVars /\ phase # "compile"
      <3>1. ~TextNext
        BY <2>2, TextPhased
      <3>2. \/ TryPattern \/ DescendQuery \/ Backtrack \/ NextInQuery \/ Climb \/ NextQuery
            \/ QueryEnds \/ SortEntries \/ Lay \/ HighlightEnds
        BY <1>6, <3>1 DEF QueryNext
      <3> QED
        BY <1>3, <2>2, <3>2, WalkingKeeps
    <2> QED
      BY <1>6, <2>1, <2>2, TextKept
  <1> QED
    BY <1>4, <1>5, <1>6 DEF Next

LEMMA QueryFirst ==
  ASSUME Init
  PROVE  Chosen /\ TextInv /\ QueryInv
  <1>1. job \in Readings /\ phase = Phase(job.task) /\ QueryInit
    BY DEF Init
  <1>2. Chosen
    BY <1>1 DEF Chosen
  <1>3. TextInv
    <2>1. ASSUME Querying PROVE TextShape(job, queries, open, textPos)
      <3>1. TextsOK(job)
        BY <1>2, <2>1, ReadingsAssumption DEF Chosen, ReadingOK, Querying
      <3> QED
        BY <1>1, <3>1, TextFirst DEF QueryInit
    <2> QED
      BY <2>1 DEF TextInv
  <1>4. QueryInv
    <2>1. ASSUME Querying
          PROVE  phase = "compile" /\ AtStart(job, asked, stack, nextPat, back, matches)
      <3>1. phase = "compile"
        BY <1>1, <2>1 DEF Querying, Phase
      <3> QED
        BY <1>1, <3>1, NamedWalk DEF QueryInit, AtStart
    <2> QED
      BY <2>1 DEF QueryInv, QueryShape
  <1> QED
    BY <1>2, <1>3, <1>4

LEMMA QueryStep ==
  ASSUME Chosen, TextInv, QueryInv, [Next]_vars
  PROVE  Chosen' /\ TextInv' /\ QueryInv'
  <1>1. Chosen'
    BY ReaderStep DEF Chosen
  <1>2. TextInv'
    BY TextInvStep
  <1> QED
    BY <1>1, <1>2, QueryInvStep

LEMMA WholeTyped ==
  ASSUME NEW r, TreeOK(r.tree)
  PROVE  WholeWalk(r) \in Seq(DOMAIN r.tree.nodes)
  <1>1. r.tree.root \in DOMAIN r.tree.nodes
    BY TreeFacts
  <1> QED
    BY <1>1, PreorderFacts DEF WholeWalk

\* What the queries should yield is what the patterns give on the whole walk.
LEMMA ExpectedNamed ==
  ASSUME Len(queries) \in Nat, DOMAIN queries = 1 .. Len(queries),
         \A q \in 1 .. Len(queries) : DOMAIN queries[q].patterns = 1 .. Len(queries[q].patterns),
         DOMAIN WholeWalk(job) = 1 .. Len(WholeWalk(job))
  PROVE  Expected = OfQueries(job, queries, Len(queries))
  <1>1. Walked = WholeWalk(job)
    BY Named DEF Walked, WholeWalk
  <1>2. \A q \in DOMAIN queries : \A n : Yields(q, n) = AllAt(job, queries, q, n)
    BY DEF Yields, AllAt, AtNode, Hit
  <1>3. \A q \in DOMAIN queries :
          FlattenSeq([i \in DOMAIN Walked |-> Yields(q, Walked[i])]) = OverNodes(job, queries, q, WholeWalk(job))
    BY <1>1, <1>2 DEF OverNodes
  <1>4. [q \in DOMAIN queries |-> FlattenSeq([i \in DOMAIN Walked |-> Yields(q, Walked[i])])]
          = [q \in 1 .. Len(queries) |-> OverNodes(job, queries, q, WholeWalk(job))]
    BY <1>3
  <1> QED
    BY <1>4 DEF Expected, OfQueries

(***************************************************************************)
(* QueryMatches::next yields each pattern at each node it can be laid on,  *)
(* once for each place the node hangs in, in the order of the walk, for    *)
(* every tree and all queries.                                             *)
(***************************************************************************)
THEOREM QueriesComplete == Spec => []QueryComplete
  <1>1. Init => Chosen /\ TextInv /\ QueryInv
    BY QueryFirst
  <1>2. Chosen /\ TextInv /\ QueryInv /\ [Next]_vars => Chosen' /\ TextInv' /\ QueryInv'
    BY QueryStep
  <1>3. Chosen /\ TextInv /\ QueryInv => QueryComplete
    <2> SUFFICES ASSUME Chosen, TextInv, QueryInv, phase \in {"resolve", "done"}, Querying
                 PROVE  Proj(matches) = Expected
      BY DEF QueryComplete, Querying, Proj, Triple
    <2>1. TreeOK(job.tree) /\ Ready(job, queries)
      BY ReadingsAssumption DEF Chosen, ReadingOK, TextInv, TextShape, Ready
    <2>2. /\ Sound(job, queries, asked, stack, nextPat, back, matches)
          /\ stack = <<>> /\ asked = Len(queries)
      BY DEF QueryInv, QueryShape
    <2>3. Proj(matches) = OfQueries(job, queries, Len(queries))
      BY <2>2 DEF Sound, Running
    <2>4. /\ Len(queries) \in Nat /\ DOMAIN queries = 1 .. Len(queries)
          /\ \A q \in 1 .. Len(queries) : DOMAIN queries[q].patterns = 1 .. Len(queries[q].patterns)
      BY <2>1, PatternCounts
    <2>5. DOMAIN WholeWalk(job) = 1 .. Len(WholeWalk(job))
      <3>1. PICK D, w : D = DOMAIN job.tree.nodes /\ w = WholeWalk(job)
        OBVIOUS
      <3>2. w \in Seq(D)
        BY <2>1, <3>1, WholeTyped
      <3> QED
        BY <3>1, <3>2
    <2> QED
      BY <2>3, <2>4, <2>5, ExpectedNamed
  <1> QED
    BY <1>1, <1>2, <1>3, PTL DEF Spec

-------------------------------------------------------------------------------
(***************************************************************************)
(* The sort.  Ranked counts what comes before an index in the order that   *)
(* keeps equal entries in their places; no two indices have the same rank. *)
(***************************************************************************)

WeakOrder(n, before) ==
  /\ before \subseteq (1 .. n) \X (1 .. n)
  /\ \A i \in 1 .. n : <<i, i>> \notin before
  /\ \A i, j, k \in 1 .. n : <<i, j>> \in before /\ <<j, k>> \in before => <<i, k>> \in before
  /\ \A i, j, k \in 1 .. n : <<i, j>> \notin before /\ <<j, k>> \notin before => <<i, k>> \notin before

Precedes(before, j, i) == <<j, i>> \in before \/ (<<i, j>> \notin before /\ j <= i)
Leaders(n, before, i) == {j \in 1 .. n : Precedes(before, j, i)}

LEMMA LeadsOrders ==
  ASSUME NEW n \in Nat, NEW before, WeakOrder(n, before)
  PROVE  /\ \A i \in 1 .. n : Precedes(before, i, i)
         /\ \A i, j \in 1 .. n : Precedes(before, i, j) \/ Precedes(before, j, i)
         /\ \A i, j \in 1 .. n : i # j => ~(Precedes(before, i, j) /\ Precedes(before, j, i))
         /\ \A i, j, k \in 1 .. n : Precedes(before, i, j) /\ Precedes(before, j, k) => Precedes(before, i, k)
         /\ \A i, j \in 1 .. n : Precedes(before, i, j) => <<j, i>> \notin before
  <1>1. \A i \in 1 .. n : <<i, i>> \notin before
    BY DEF WeakOrder
  <1>2. \A i, j, k \in 1 .. n : <<i, j>> \in before /\ <<j, k>> \in before => <<i, k>> \in before
    BY DEF WeakOrder
  <1>3. \A i, j, k \in 1 .. n : <<i, j>> \notin before /\ <<j, k>> \notin before => <<i, k>> \notin before
    BY DEF WeakOrder
  <1>4. \A i, j \in 1 .. n : <<i, j>> \in before => <<j, i>> \notin before
    BY <1>1, <1>2
  <1>5. \A i \in 1 .. n : Precedes(before, i, i)
    <2> SUFFICES ASSUME NEW i \in 1 .. n PROVE Precedes(before, i, i)
      OBVIOUS
    <2>1. i <= i /\ <<i, i>> \notin before
      BY <1>1
    <2> QED
      BY <2>1 DEF Precedes
  <1>6. \A i, j \in 1 .. n : Precedes(before, i, j) \/ Precedes(before, j, i)
    <2> SUFFICES ASSUME NEW i \in 1 .. n, NEW j \in 1 .. n
                 PROVE  Precedes(before, i, j) \/ Precedes(before, j, i)
      OBVIOUS
    <2>1. i <= j \/ j <= i
      OBVIOUS
    <2> QED
      BY <2>1 DEF Precedes
  <1>7. \A i, j \in 1 .. n : Precedes(before, i, j) => <<j, i>> \notin before
    BY <1>4 DEF Precedes
  <1>8. ASSUME NEW i \in 1 .. n, NEW j \in 1 .. n, Precedes(before, i, j), Precedes(before, j, i)
        PROVE  i = j
    <2>1. <<i, j>> \notin before /\ <<j, i>> \notin before
      BY <1>7, <1>8
    <2>2. i <= j /\ j <= i
      BY <1>8, <2>1 DEF Precedes
    <2> QED
      BY <2>2
  <1>9. ASSUME NEW i \in 1 .. n, NEW j \in 1 .. n, NEW k \in 1 .. n,
               Precedes(before, i, j), Precedes(before, j, k)
        PROVE  Precedes(before, i, k)
    <2>1. <<j, i>> \notin before /\ <<k, j>> \notin before
      BY <1>7, <1>9
    <2>2. <<k, i>> \notin before
      BY <1>3, <2>1
    <2>3. CASE i <= k
      BY <2>2, <2>3 DEF Precedes
    <2>4. CASE ~(i <= k)
      <3>1. <<i, j>> \in before \/ <<j, k>> \in before
        <4>1. ASSUME <<i, j>> \notin before, <<j, k>> \notin before PROVE FALSE
          <5>1. i <= j /\ j <= k
            BY <1>9, <4>1 DEF Precedes
          <5> QED
            BY <2>4, <5>1
        <4> QED
          BY <4>1
      <3>2. <<i, k>> \in before
        <4>1. ASSUME <<i, k>> \notin before PROVE FALSE
          <5>1. <<i, j>> \notin before \/ <<k, j>> \in before
            BY <1>2, <1>3, <2>1, <4>1
          <5>2. CASE <<i, j>> \in before
            BY <1>3, <2>1, <4>1, <5>2
          <5>3. CASE <<j, k>> \in before
            BY <1>3, <2>1, <4>1, <5>3
          <5> QED
            BY <3>1, <5>2, <5>3
        <4> QED
          BY <4>1
      <3> QED
        BY <3>2 DEF Precedes
    <2> QED
      BY <2>3, <2>4
  <1> QED
    BY <1>5, <1>6, <1>7, <1>8, <1>9

Permutes(P, n) ==
  /\ P \in [1 .. n -> 1 .. n]
  /\ \A k, l \in 1 .. n : P[k] = P[l] => k = l
  /\ \A i \in 1 .. n : \E k \in 1 .. n : P[k] = i

SortedBy(z, s, before, P) ==
  /\ Permutes(P, Len(s))
  /\ z = [k \in 1 .. Len(s) |-> s[P[k]]]
  /\ \A k, l \in 1 .. Len(s) : k < l => <<P[l], P[k]>> \notin before

LEMMA RankFacts ==
  ASSUME NEW n \in Nat, NEW before, WeakOrder(n, before), NEW f,
         f = [i \in 1 .. n |-> Cardinality(Leaders(n, before, i))]
  PROVE  /\ f \in Injection(1 .. n, 1 .. n)
         /\ \A i, j \in 1 .. n : Precedes(before, i, j) /\ i # j => f[i] < f[j]
  <1> DEFINE L(i) == Leaders(n, before, i)
  <1>1. IsFiniteSet(1 .. n) /\ Cardinality(1 .. n) = n
    BY FS_Interval
  <1>2. \A i : L(i) \subseteq 1 .. n
    BY DEF Leaders
  <1>3. \A i : IsFiniteSet(L(i)) /\ Cardinality(L(i)) \in Nat /\ Cardinality(L(i)) <= n
    <2> SUFFICES ASSUME NEW i PROVE IsFiniteSet(L(i)) /\ Cardinality(L(i)) \in Nat /\ Cardinality(L(i)) <= n
      OBVIOUS
    <2>1. L(i) \subseteq 1 .. n
      BY <1>2
    <2> HIDE DEF L
    <2>2. IsFiniteSet(L(i)) /\ Cardinality(L(i)) <= n
      BY <1>1, <2>1, FS_Subset
    <2> QED
      BY <2>2, FS_CardinalityType
  <1>4. \A i \in 1 .. n : i \in L(i)
    BY LeadsOrders DEF Leaders
  <1>5. \A i \in 1 .. n : f[i] \in 1 .. n
    <2> SUFFICES ASSUME NEW i \in 1 .. n PROVE f[i] \in 1 .. n
      OBVIOUS
    <2>1. i \in L(i) /\ IsFiniteSet(L(i)) /\ Cardinality(L(i)) \in Nat /\ Cardinality(L(i)) <= n
          /\ f[i] = Cardinality(L(i))
      BY <1>3, <1>4
    <2> HIDE DEF L
    <2>2. Cardinality(L(i)) # 0
      BY <2>1, FS_EmptySet
    <2> QED
      BY <2>1, <2>2
  <1>6. ASSUME NEW i \in 1 .. n, NEW j \in 1 .. n, Precedes(before, i, j), i # j
        PROVE  f[i] < f[j]
    <2>1. L(i) \subseteq L(j)
      <3> SUFFICES ASSUME NEW k \in L(i) PROVE k \in L(j)
        OBVIOUS
      <3>1. k \in 1 .. n /\ Precedes(before, k, i)
        BY DEF Leaders
      <3>2. Precedes(before, k, j)
        BY <1>6, <3>1, LeadsOrders
      <3> QED
        BY <3>1, <3>2 DEF Leaders
    <2>2. j \in L(j) /\ j \notin L(i)
      <3>1. ~Precedes(before, j, i)
        BY <1>6, LeadsOrders
      <3> QED
        BY <1>4, <3>1 DEF Leaders
    <2>3. /\ IsFiniteSet(L(j)) /\ Cardinality(L(i)) \in Nat /\ Cardinality(L(j)) \in Nat
          /\ f[i] = Cardinality(L(i)) /\ f[j] = Cardinality(L(j))
      BY <1>3
    <2> HIDE DEF L
    <2>4. Cardinality(L(i)) <= Cardinality(L(j)) /\ Cardinality(L(i)) # Cardinality(L(j))
      BY <2>1, <2>2, <2>3, FS_Subset
    <2> QED
      BY <2>3, <2>4
  <1>7. \A i, j \in 1 .. n : f[i] = f[j] => i = j
    <2> SUFFICES ASSUME NEW i \in 1 .. n, NEW j \in 1 .. n, i # j PROVE f[i] # f[j]
      OBVIOUS
    <2>1. Precedes(before, i, j) \/ Precedes(before, j, i)
      BY LeadsOrders
    <2>2. f[i] < f[j] \/ f[j] < f[i]
      BY <1>6, <2>1
    <2>3. f[i] \in Nat /\ f[j] \in Nat
      BY <1>5
    <2> QED
      BY <2>2, <2>3
  <1>8. f \in [1 .. n -> 1 .. n]
    BY <1>5
  <1> HIDE DEF L
  <1> QED
    BY <1>6, <1>7, <1>8 DEF Injection, IsInjective

LEMMA SortFacts ==
  ASSUME NEW T, NEW s \in Seq(T), NEW before, WeakOrder(Len(s), before)
  PROVE  \E P : SortedBy(Sorted(s, before), s, before, P)
  <1>1. PICK n : n = Len(s)
    OBVIOUS
  <1>2. n \in Nat /\ DOMAIN s = 1 .. n /\ WeakOrder(n, before)
    BY <1>1
  <1> DEFINE f == [i \in 1 .. n |-> Cardinality(Leaders(n, before, i))]
             P == [k \in 1 .. n |-> CHOOSE i \in 1 .. n : f[i] = k]
             N == 1 .. n
  <1>3. /\ f \in Injection(N, N)
        /\ \A i, j \in 1 .. n : Precedes(before, i, j) /\ i # j => f[i] < f[j]
    BY <1>2, RankFacts
  <1>4. f \in Surjection(N, N)
    <2>1. IsFiniteSet(N)
      BY <1>2, FS_Interval
    <2> HIDE DEF f, N
    <2> QED
      BY <1>3, <2>1, FS_Injection
  <1>5. \A k \in 1 .. n : \E i \in 1 .. n : f[i] = k
    <2> HIDE DEF f
    <2> QED
      BY <1>4 DEF Surjection
  <1>6. Sorted(s, before) = [k \in 1 .. n |-> s[P[k]]]
    <2> DEFINE Rank(i) == Cardinality({j \in DOMAIN s :
                            <<j, i>> \in before \/ (<<i, j>> \notin before /\ j <= i)})
    <2>1. Sorted(s, before) = [k \in DOMAIN s |-> s[CHOOSE i \in DOMAIN s : Rank(i) = k]]
      BY DEF Sorted
    <2>2. \A i \in 1 .. n : Rank(i) = f[i]
      BY <1>2 DEF Leaders, Precedes
    <2> HIDE DEF Rank, f
    <2>3. \A k : (CHOOSE i \in 1 .. n : Rank(i) = k) = (CHOOSE i \in 1 .. n : f[i] = k)
      BY <2>2
    <2>4. \A k \in 1 .. n : P[k] = CHOOSE i \in 1 .. n : Rank(i) = k
      BY <2>3
    <2>5. Sorted(s, before) = [k \in 1 .. n |-> s[CHOOSE i \in 1 .. n : Rank(i) = k]]
      BY <1>2, <2>1
    <2> HIDE DEF P
    <2> QED
      BY <2>4, <2>5
  <1>7. \A k \in 1 .. n : P[k] \in 1 .. n /\ f[P[k]] = k
    <2> HIDE DEF f
    <2> QED
      BY <1>5
  <1>8. \A i \in 1 .. n : f[i] \in 1 .. n
    <2> HIDE DEF f
    <2> QED
      BY <1>3 DEF Injection
  <1>9. P \in [1 .. n -> 1 .. n]
    <2> HIDE DEF f
    <2>1. P = [k \in 1 .. n |-> P[k]]
      OBVIOUS
    <2> QED
      BY <1>7, <2>1
  <1> HIDE DEF f, P
  <1>10. \A i, j \in 1 .. n : f[i] = f[j] => i = j
    BY <1>3 DEF Injection, IsInjective
  <1>11. \A k, l \in 1 .. n : P[k] = P[l] => k = l
    <2> SUFFICES ASSUME NEW k \in 1 .. n, NEW l \in 1 .. n, P[k] = P[l] PROVE k = l
      OBVIOUS
    <2>1. f[P[k]] = k /\ f[P[l]] = l
      BY <1>7
    <2> QED
      BY <2>1
  <1>12. \A i \in 1 .. n : \E k \in 1 .. n : P[k] = i
    <2> SUFFICES ASSUME NEW i \in 1 .. n PROVE \E k \in 1 .. n : P[k] = i
      OBVIOUS
    <2>1. PICK k : k = f[i]
      OBVIOUS
    <2>2. k \in 1 .. n /\ P[k] \in 1 .. n /\ f[P[k]] = k
      BY <1>7, <1>8, <2>1
    <2>3. P[k] = i
      BY <1>10, <2>1, <2>2
    <2> QED
      BY <2>2, <2>3
  <1>13. ASSUME NEW k \in 1 .. n, NEW l \in 1 .. n, k < l
         PROVE  <<P[l], P[k]>> \notin before
    <2>1. PICK i, j : i = P[k] /\ j = P[l]
      OBVIOUS
    <2>2. i \in 1 .. n /\ j \in 1 .. n /\ f[i] = k /\ f[j] = l
      BY <1>7, <2>1
    <2>3. ~(f[j] < f[i]) /\ i # j
      BY <1>13, <2>2
    <2>4. Precedes(before, i, j)
      BY <1>2, <1>3, <2>2, <2>3, LeadsOrders
    <2> QED
      BY <1>2, <2>1, <2>2, <2>4, LeadsOrders
  <1> QED
    BY <1>1, <1>6, <1>9, <1>11, <1>12, <1>13 DEF SortedBy, Permutes

-------------------------------------------------------------------------------
(***************************************************************************)
(* Laying.  What a sequence of ranges shows at a byte is the set of the    *)
(* names there: none, or one of a single range.                            *)
(***************************************************************************)

Spanning(U) ==
  {x \in [prio : Int, start : Nat, end : Nat, name : U] : x.start <= x.end}

LiesOn(x, b) == x.start <= b /\ b < x.end
Shade(x, b) == IF LiesOn(x, b) THEN {x.name} ELSE {}

Uncovered(u, b) == \A i \in DOMAIN u : ~LiesOn(u[i], b)
Alone(u, b, i) == i \in DOMAIN u /\ LiesOn(u[i], b) /\ \A j \in DOMAIN u : LiesOn(u[j], b) => j = i
Shows(u, b, w) == (w = {} /\ Uncovered(u, b)) \/ \E i : Alone(u, b, i) /\ w = {u[i].name}

LEMMA ShowsJoined ==
  ASSUME NEW T, NEW u \in Seq(T), NEW v \in Seq(T), NEW b, NEW w, NEW x,
         Shows(u, b, w), Shows(v, b, x), w = {} \/ x = {}
  PROVE  Shows(u \o v, b, w \cup x)
  <1>1. PICK z, m, n : z = u \o v /\ m = Len(u) /\ n = Len(v)
    OBVIOUS
  <1>2. /\ m \in Nat /\ n \in Nat /\ DOMAIN u = 1 .. m /\ DOMAIN v = 1 .. n /\ DOMAIN z = 1 .. m + n
        /\ \A i \in 1 .. m : i \in 1 .. m + n /\ z[i] = u[i]
        /\ \A i \in 1 .. n : m + i \in 1 .. m + n /\ z[m + i] = v[i]
    BY <1>1
  <1>3. \A i \in 1 .. m + n : i \in 1 .. m \/ (i - m \in 1 .. n /\ i = m + (i - m))
    BY <1>2
  <1>4. CASE Uncovered(u, b) /\ Uncovered(v, b)
    <2>1. Uncovered(z, b)
      <3> SUFFICES ASSUME NEW i \in 1 .. m + n PROVE ~LiesOn(z[i], b)
        BY <1>2 DEF Uncovered
      <3>1. CASE i \in 1 .. m
        BY <1>2, <1>4, <3>1 DEF Uncovered
      <3>2. CASE i - m \in 1 .. n /\ i = m + (i - m)
        BY <1>2, <1>4, <3>2 DEF Uncovered
      <3> QED
        BY <1>3, <3>1, <3>2
    <2>2. w = {} /\ x = {}
      BY <1>4 DEF Shows, Uncovered, Alone
    <2> QED
      BY <1>1, <2>1, <2>2 DEF Shows
  <1>5. ASSUME NEW i, Alone(u, b, i), w = {u[i].name}, Uncovered(v, b)
        PROVE  Shows(z, b, w \cup x)
    <2>1. i \in 1 .. m /\ LiesOn(u[i], b) /\ \A j \in 1 .. m : LiesOn(u[j], b) => j = i
      BY <1>2, <1>5 DEF Alone
    <2>2. \A j \in 1 .. n : ~LiesOn(v[j], b)
      BY <1>2, <1>5 DEF Uncovered
    <2>3. ASSUME NEW j \in 1 .. m + n, LiesOn(z[j], b) PROVE j = i
      <3>1. CASE j \in 1 .. m
        BY <1>2, <2>1, <2>3, <3>1
      <3>2. CASE j - m \in 1 .. n /\ j = m + (j - m)
        BY <1>2, <2>2, <2>3, <3>2
      <3> QED
        BY <1>3, <3>1, <3>2
    <2>4. i \in 1 .. m + n /\ z[i] = u[i]
      BY <1>2, <2>1
    <2>5. Alone(z, b, i)
      BY <1>2, <2>1, <2>3, <2>4 DEF Alone
    <2>6. x = {}
      BY <1>5
    <2> QED
      BY <1>5, <2>4, <2>5, <2>6 DEF Shows
  <1>6. ASSUME NEW i, Alone(v, b, i), x = {v[i].name}, Uncovered(u, b)
        PROVE  Shows(z, b, w \cup x)
    <2>1. i \in 1 .. n /\ LiesOn(v[i], b) /\ \A j \in 1 .. n : LiesOn(v[j], b) => j = i
      BY <1>2, <1>6 DEF Alone
    <2>2. \A j \in 1 .. m : ~LiesOn(u[j], b)
      BY <1>2, <1>6 DEF Uncovered
    <2>3. ASSUME NEW j \in 1 .. m + n, LiesOn(z[j], b) PROVE j = m + i
      <3>1. CASE j \in 1 .. m
        BY <1>2, <2>2, <2>3, <3>1
      <3>2. CASE j - m \in 1 .. n /\ j = m + (j - m)
        <4>1. z[j] = v[j - m]
          BY <1>2, <3>2
        <4> QED
          BY <2>1, <2>3, <3>2, <4>1
      <3> QED
        BY <1>3, <3>1, <3>2
    <2>4. m + i \in 1 .. m + n /\ z[m + i] = v[i]
      BY <1>2, <2>1
    <2>5. Alone(z, b, m + i)
      BY <1>2, <2>1, <2>3, <2>4 DEF Alone
    <2>6. w = {}
      BY <1>6
    <2>7. w \cup x = {z[m + i].name}
      BY <1>6, <2>4, <2>6
    <2> QED
      BY <2>5, <2>7 DEF Shows
  <1>7. (w = {} /\ Uncovered(u, b)) \/ \E i : Alone(u, b, i) /\ w = {u[i].name}
    BY DEF Shows
  <1>8. (x = {} /\ Uncovered(v, b)) \/ \E i : Alone(v, b, i) /\ x = {v[i].name}
    BY DEF Shows
  <1> QED
    BY <1>1, <1>4, <1>5, <1>6, <1>7, <1>8

LEMMA ShowsNone ==
  ASSUME NEW u, NEW b
  PROVE  Shows(u, b, {}) <=> Uncovered(u, b)
  BY DEF Shows

LEMMA ShowsOne ==
  ASSUME NEW x, NEW b
  PROVE  Shows(<<x>>, b, Shade(x, b)) /\ Shows(<<>>, b, {})
  <1>1. Shows(<<>>, b, {})
    BY DEF Shows, Uncovered
  <1>2. PICK u : u = <<x>>
    OBVIOUS
  <1>3. DOMAIN u = {1} /\ u[1] = x
    BY <1>2
  <1>4. CASE LiesOn(x, b)
    <2>1. Alone(u, b, 1) /\ Shade(x, b) = {u[1].name}
      BY <1>3, <1>4 DEF Alone, Shade
    <2> QED
      BY <1>1, <1>2, <2>1 DEF Shows
  <1>5. CASE ~LiesOn(x, b)
    <2>1. Uncovered(u, b) /\ Shade(x, b) = {}
      BY <1>3, <1>5 DEF Uncovered, Shade
    <2> QED
      BY <1>1, <1>2, <2>1 DEF Shows
  <1> QED
    BY <1>4, <1>5

\* The range with another end.
LEMMA CutFacts ==
  ASSUME NEW U, NEW x \in Spanning(U), NEW r \in Spanning(U)
  PROVE  /\ Cut(x, r) \in Seq(Spanning(U))
         /\ \A b \in Nat : Shows(Cut(x, r), b, IF LiesOn(r, b) THEN {} ELSE Shade(x, b))
  <1>1. PICK s, e, c, d : s = x.start /\ e = x.end /\ c = r.start /\ d = r.end
    OBVIOUS
  <1>2. /\ s \in Nat /\ e \in Nat /\ c \in Nat /\ d \in Nat /\ s <= e /\ c <= d
        /\ x \in [prio : Int, start : Nat, end : Nat, name : U]
    BY <1>1 DEF Spanning
  <1>3. PICK left, right : left = [x EXCEPT !.end = c] /\ right = [x EXCEPT !.start = d]
    OBVIOUS
  <1>4. /\ left.start = s /\ left.end = c /\ left.name = x.name
        /\ right.start = d /\ right.end = e /\ right.name = x.name
        /\ left \in [prio : Int, start : Nat, end : Nat, name : U]
        /\ right \in [prio : Int, start : Nat, end : Nat, name : U]
    BY <1>1, <1>2, <1>3
  <1>5. PICK a, z : /\ a = (IF s < c THEN <<left>> ELSE <<>>)
                    /\ z = (IF e > d THEN <<right>> ELSE <<>>)
    OBVIOUS
  <1>6. Cut(x, r) = IF e <= c \/ s >= d THEN <<x>> ELSE a \o z
    BY <1>1, <1>3, <1>5 DEF Cut
  <1>7. a \in Seq(Spanning(U)) /\ z \in Seq(Spanning(U))
    <2>1. ASSUME s < c PROVE <<left>> \in Seq(Spanning(U))
      <3>1. left \in Spanning(U)
        BY <1>2, <1>4, <2>1 DEF Spanning
      <3> QED
        BY <3>1
    <2>2. ASSUME e > d PROVE <<right>> \in Seq(Spanning(U))
      <3>1. right \in Spanning(U)
        BY <1>2, <1>4, <2>2 DEF Spanning
      <3> QED
        BY <3>1
    <2>3. <<>> \in Seq(Spanning(U))
      OBVIOUS
    <2> QED
      BY <1>5, <2>1, <2>2, <2>3
  <1>8. CASE e <= c \/ s >= d
    <2>1. Cut(x, r) = <<x>>
      BY <1>6, <1>8
    <2>2. <<x>> \in Seq(Spanning(U))
      OBVIOUS
    <2>3. ASSUME NEW b \in Nat PROVE Shows(<<x>>, b, IF LiesOn(r, b) THEN {} ELSE Shade(x, b))
      <3>1. LiesOn(r, b) => Shade(x, b) = {}
        BY <1>1, <1>2, <1>8 DEF LiesOn, Shade
      <3>2. Shows(<<x>>, b, Shade(x, b))
        BY ShowsOne
      <3> QED
        BY <3>1, <3>2
    <2> QED
      BY <2>1, <2>2, <2>3
  <1>9. CASE ~(e <= c \/ s >= d)
    <2>1. Cut(x, r) = a \o z
      BY <1>6, <1>9
    <2>2. a \o z \in Seq(Spanning(U))
      BY <1>7, Joined
    <2>3. ASSUME NEW b \in Nat
          PROVE  Shows(a \o z, b, IF LiesOn(r, b) THEN {} ELSE Shade(x, b))
      <3>1. PICK va, vz : /\ va = (IF s < c THEN Shade(left, b) ELSE {})
                          /\ vz = (IF e > d THEN Shade(right, b) ELSE {})
        OBVIOUS
      <3>2. Shows(a, b, va) /\ Shows(z, b, vz)
        BY <1>5, <3>1, ShowsOne
      <3>3. va = IF s <= b /\ b < c THEN {x.name} ELSE {}
        BY <1>2, <1>4, <3>1 DEF Shade, LiesOn
      <3>4. vz = IF d <= b /\ b < e THEN {x.name} ELSE {}
        BY <1>2, <1>4, <3>1 DEF Shade, LiesOn
      <3>5. va = {} \/ vz = {}
        <4>1. ~(s <= b /\ b < c) \/ ~(d <= b /\ b < e)
          BY <1>2
        <4> QED
          BY <3>3, <3>4, <4>1
      <3>6. va \cup vz = IF LiesOn(r, b) THEN {} ELSE Shade(x, b)
        <4>1. LiesOn(r, b) <=> c <= b /\ b < d
          BY <1>1 DEF LiesOn
        <4>2. Shade(x, b) = IF s <= b /\ b < e THEN {x.name} ELSE {}
          BY <1>1 DEF Shade, LiesOn
        <4>3. (s <= b /\ b < c) \/ (d <= b /\ b < e) <=> (s <= b /\ b < e) /\ ~(c <= b /\ b < d)
          BY <1>2, <1>9
        <4> QED
          BY <3>3, <3>4, <4>1, <4>2, <4>3
      <3>7. Shows(a \o z, b, va \cup vz)
        BY <1>7, <3>2, <3>5, ShowsJoined
      <3> QED
        BY <3>6, <3>7
    <2> QED
      BY <2>1, <2>2, <2>3
  <1> QED
    BY <1>8, <1>9

\* What x showed of w is left where r does not lie.
OffIt(r, b, w) == IF LiesOn(r, b) THEN {} ELSE w

LEMMA CutAllFacts ==
  ASSUME NEW U, NEW xs \in Seq(Spanning(U)), NEW r \in Spanning(U)
  PROVE  /\ CutAll(xs, r) \in Seq(Spanning(U))
         /\ \A b \in Nat : \A w : Shows(xs, b, w) => Shows(CutAll(xs, r), b, OffIt(r, b, w))
  <1>1. PICK n, V : n = Len(xs) /\ V = Spanning(U)
    OBVIOUS
  <1>2. n \in Nat /\ DOMAIN xs = 1 .. n /\ (\A i \in 1 .. n : xs[i] \in V) /\ r \in V
    BY <1>1
  <1> DEFINE F == [i \in 1 .. n |-> Cut(xs[i], r)]
             G(k) == FlattenSeq([i \in 1 .. k |-> F[i]])
  <1>3. \A i \in 1 .. n : /\ F[i] = Cut(xs[i], r) /\ F[i] \in Seq(V)
                          /\ \A b \in Nat : Shows(F[i], b, OffIt(r, b, Shade(xs[i], b)))
    <2> SUFFICES ASSUME NEW i \in 1 .. n
                 PROVE  /\ Cut(xs[i], r) \in Seq(V)
                        /\ \A b \in Nat : Shows(Cut(xs[i], r), b, OffIt(r, b, Shade(xs[i], b)))
      OBVIOUS
    <2>1. PICK x : x = xs[i]
      OBVIOUS
    <2>2. x \in Spanning(U)
      BY <1>1, <1>2, <2>1
    <2>3. /\ Cut(x, r) \in Seq(Spanning(U))
          /\ \A b \in Nat : Shows(Cut(x, r), b, IF LiesOn(r, b) THEN {} ELSE Shade(x, b))
      BY <2>2, CutFacts
    <2> QED
      BY <1>1, <2>1, <2>3 DEF OffIt
  <1>4. CutAll(xs, r) = G(n)
    <2>1. [i \in DOMAIN xs |-> Cut(xs[i], r)] = [i \in 1 .. n |-> F[i]]
      BY <1>2
    <2> HIDE DEF F
    <2> QED
      BY <2>1 DEF CutAll
  <1> HIDE DEF F
  <1>5. \A k \in 1 .. n : G(k - 1) \in Seq(V) /\ G(k) = G(k - 1) \o F[k]
    <2> SUFFICES ASSUME NEW k \in 1 .. n PROVE G(k - 1) \in Seq(V) /\ G(k) = G(k - 1) \o F[k]
      OBVIOUS
    <2>1. PICK m : m = k - 1
      OBVIOUS
    <2>2. m \in Nat /\ m + 1 = k /\ \A i \in 1 .. m + 1 : F[i] \in Seq(V)
      BY <1>2, <1>3, <2>1
    <2>3. /\ FlattenSeq([i \in 1 .. m |-> F[i]]) \in Seq(V)
          /\ FlattenSeq([i \in 1 .. m + 1 |-> F[i]]) = FlattenSeq([i \in 1 .. m |-> F[i]]) \o F[m + 1]
      BY <2>2, FlattenAppended
    <2> QED
      BY <2>1, <2>2, <2>3
  <1>6. G(0) = <<>>
    BY FlattenNone
  <1>7. \A k \in 0 .. n : G(k) \in Seq(V)
    <2> SUFFICES ASSUME NEW k \in 0 .. n PROVE G(k) \in Seq(V)
      OBVIOUS
    <2>1. CASE k = 0
      <3> HIDE DEF G
      <3>1. G(k) = <<>>
        BY <1>6, <2>1
      <3> QED
        BY <3>1
    <2>2. CASE k # 0
      <3>1. k \in 1 .. n
        BY <1>2, <2>2
      <3>2. G(k - 1) \in Seq(V) /\ G(k) = G(k - 1) \o F[k] /\ F[k] \in Seq(V)
        BY <1>3, <1>5, <3>1
      <3> HIDE DEF G
      <3>3. G(k - 1) \o F[k] \in Seq(V)
        BY <3>2, Joined
      <3> QED
        BY <3>2, <3>3
    <2> QED
      BY <2>1, <2>2
  <1> HIDE DEF G
  <1>8. ASSUME NEW b \in Nat, NEW w, Shows(xs, b, w)
        PROVE  Shows(G(n), b, OffIt(r, b, w))
    <2> DEFINE W(k) == UNION {Shade(xs[i], b) : i \in 1 .. k}
               S == {k \in 0 .. n : Shows(G(k), b, OffIt(r, b, W(k)))}
    <2>1. \A i, j \in 1 .. n : LiesOn(xs[i], b) /\ LiesOn(xs[j], b) => i = j
      BY <1>2, <1>8 DEF Shows, Uncovered, Alone
    <2>2. 0 \in S
      <3>1. W(0) = {}
        OBVIOUS
      <3>2. Shows(G(0), b, {})
        BY <1>6, ShowsOne
      <3>3. OffIt(r, b, {}) = {}
        BY DEF OffIt
      <3>4. 0 \in 0 .. n
        BY <1>2
      <3> HIDE DEF W
      <3> QED
        BY <3>1, <3>2, <3>3, <3>4
    <2>3. ASSUME NEW k \in 1 .. n, k - 1 \in S PROVE k \in S
      <3>1. W(k) = W(k - 1) \cup Shade(xs[k], b)
        <4>1. 1 .. k = 1 .. k - 1 \cup {k}
          BY <1>2
        <4> QED
          BY <4>1
      <3>2. W(k - 1) = {} \/ Shade(xs[k], b) = {}
        <4>1. ASSUME LiesOn(xs[k], b) PROVE W(k - 1) = {}
          <5>1. \A i \in 1 .. k - 1 : i \in 1 .. n /\ i # k
            BY <1>2
          <5>2. \A i \in 1 .. k - 1 : Shade(xs[i], b) = {}
            BY <2>1, <4>1, <5>1 DEF Shade
          <5> QED
            BY <5>2
        <4> HIDE DEF W
        <4> QED
          BY <4>1 DEF Shade
      <3> HIDE DEF W
      <3>3. Shows(G(k - 1), b, OffIt(r, b, W(k - 1)))
        BY <2>3
      <3>4. Shows(F[k], b, OffIt(r, b, Shade(xs[k], b)))
        BY <1>3
      <3>5. OffIt(r, b, W(k - 1)) = {} \/ OffIt(r, b, Shade(xs[k], b)) = {}
        BY <3>2 DEF OffIt
      <3>6. OffIt(r, b, W(k - 1)) \cup OffIt(r, b, Shade(xs[k], b)) = OffIt(r, b, W(k))
        BY <3>1 DEF OffIt
      <3>7. Shows(G(k - 1) \o F[k], b, OffIt(r, b, W(k - 1)) \cup OffIt(r, b, Shade(xs[k], b)))
        BY <1>3, <1>5, <3>3, <3>4, <3>5, ShowsJoined
      <3>8. G(k) = G(k - 1) \o F[k] /\ k \in 0 .. n
        <4>1. k \in 0 .. n
          BY <1>2
        <4> QED
          BY <1>5, <4>1
      <3> QED
        BY <3>6, <3>7, <3>8
    <2>4. n \in S
      <3>1. \A k \in 0 .. n : k \in S
        <4> HIDE DEF S
        <4> QED
          BY <1>2, <2>2, <2>3, UpTo
      <3> HIDE DEF S
      <3> QED
        BY <1>2, <3>1
    <2>5. W(n) = w
      <3>1. CASE w = {} /\ Uncovered(xs, b)
        <4>1. \A i \in 1 .. n : Shade(xs[i], b) = {}
          BY <1>2, <3>1 DEF Uncovered, Shade
        <4> QED
          BY <3>1, <4>1
      <3>2. ASSUME NEW i, Alone(xs, b, i), w = {xs[i].name} PROVE W(n) = w
        <4>1. i \in 1 .. n /\ Shade(xs[i], b) = w
          BY <1>2, <3>2 DEF Alone, Shade
        <4>2. \A j \in 1 .. n : j # i => Shade(xs[j], b) = {}
          BY <1>2, <3>2 DEF Alone, Shade
        <4> QED
          BY <4>1, <4>2
      <3> QED
        BY <1>8, <3>1, <3>2 DEF Shows
    <2> HIDE DEF W
    <2> QED
      BY <2>4, <2>5
  <1>9. n \in 0 .. n
    BY <1>2
  <1> QED
    BY <1>1, <1>4, <1>7, <1>8, <1>9

\* What Trimmed is.
TrimRuns(f, x, rs) ==
  f = [k \in 0 .. Len(rs) |-> IF k = 0 THEN <<x>> ELSE CutAll(f[k - 1], rs[k])]

Trims(f, V, x, rs) ==
  /\ f \in [0 .. Len(rs) -> Seq(V)] /\ f[0] = <<x>>
  /\ \A k \in 1 .. Len(rs) : f[k] = CutAll(f[k - 1], rs[k])
  /\ Trimmed(x, rs) = f[Len(rs)]

LEMMA TrimsExist ==
  ASSUME NEW U, NEW x \in Spanning(U), NEW rs \in Seq(Spanning(U))
  PROVE  \E f : Trims(f, Spanning(U), x, rs)
  <1> DEFINE L == Len(rs)
             V == Seq(Spanning(U))
             Step(k, w) == CutAll(w, rs[k])
             F == [k \in 1 .. L |-> [w \in V |-> Step(k, w)]]
  <1>1. <<x>> \in V /\ L \in Nat /\ \A k \in 1 .. L : rs[k] \in Spanning(U)
    OBVIOUS
  <1>2. \A k \in 1 .. L, w \in V : Step(k, w) \in V
    BY <1>1, CutAllFacts
  <1> HIDE DEF V
  <1>3. F \in [1 .. L -> [V -> V]]
    <2> HIDE DEF Step, L
    <2> QED
      BY <1>2
  <1>4. PICK f : Iterates(f, L, V, <<x>>, F)
    <2> HIDE DEF F, L
    <2> QED
      BY <1>1, <1>3, Iterated
  <1>5. f \in [0 .. L -> V] /\ f[0] = <<x>> /\ \A k \in 1 .. L : f[k] = Step(k, f[k - 1])
    <2>1. f \in [0 .. L -> V] /\ f[0] = <<x>> /\ \A k \in 1 .. L : f[k] = F[k][f[k - 1]]
      BY <1>4 DEF Iterates
    <2> HIDE DEF Step
    <2>2. \A k \in 1 .. L : f[k - 1] \in V
      BY <1>1, <2>1
    <2> HIDE DEF L
    <2> QED
      BY <2>1, <2>2
  <1> HIDE DEF F
  <1>6. TrimRuns(f, x, rs)
    <2>1. f = [k \in 0 .. L |-> f[k]]
      BY <1>5
    <2> HIDE DEF Step
    <2>2. \A k \in 0 .. L : f[k] = IF k = 0 THEN <<x>> ELSE Step(k, f[k - 1])
      <3>1. \A k \in 0 .. L : k = 0 \/ k \in 1 .. L
        BY <1>1
      <3> HIDE DEF L
      <3> QED
        BY <1>5, <3>1
    <2> HIDE DEF L
    <2>3. [k \in 0 .. L |-> f[k]] = [k \in 0 .. L |-> IF k = 0 THEN <<x>> ELSE Step(k, f[k - 1])]
      BY <2>2
    <2> QED
      BY <2>1, <2>3 DEF TrimRuns, L, Step
  <1> DEFINE g == CHOOSE h : TrimRuns(h, x, rs)
  <1>7. Trimmed(x, rs) = g[L]
    BY DEF Trimmed, TrimRuns
  <1>8. TrimRuns(g, x, rs)
    BY <1>6
  <1> HIDE DEF g, Step
  <1>9. \A k \in 0 .. L : g[k] = IF k = 0 THEN <<x>> ELSE CutAll(g[k - 1], rs[k])
    BY <1>8 DEF TrimRuns
  <1>10. g[0] = <<x>> /\ \A k \in 1 .. L : g[k] = CutAll(g[k - 1], rs[k])
    <2>1. 0 \in 0 .. L /\ \A k \in 1 .. L : k \in 0 .. L /\ k # 0
      BY <1>1
    <2> HIDE DEF L
    <2> QED
      BY <1>9, <2>1
  <1>11. \A k \in 0 .. L : g[k] \in V
    <2> DEFINE S == {k \in 0 .. L : g[k] \in V}
    <2>1. 0 \in S
      <3>1. 0 \in 0 .. L
        BY <1>1
      <3> HIDE DEF L
      <3> QED
        BY <1>1, <1>10, <3>1
    <2>2. \A k \in 1 .. L : k - 1 \in S => k \in S
      <3> SUFFICES ASSUME NEW k \in 1 .. L, k - 1 \in S PROVE k \in S
        OBVIOUS
      <3>1. PICK w : w = g[k - 1]
        OBVIOUS
      <3>2. w \in Seq(Spanning(U)) /\ rs[k] \in Spanning(U) /\ g[k] = CutAll(w, rs[k]) /\ k \in 0 .. L
        BY <1>1, <1>10, <3>1 DEF V
      <3>3. CutAll(w, rs[k]) \in Seq(Spanning(U))
        BY <3>2, CutAllFacts
      <3> QED
        BY <3>2, <3>3 DEF V
    <2>3. \A k \in 0 .. L : k \in S
      <3> HIDE DEF S, L
      <3> QED
        BY <1>1, <2>1, <2>2, UpTo
    <2> HIDE DEF L
    <2> QED
      BY <2>3
  <1>12. g \in [0 .. L -> V]
    <2>1. g = [k \in 0 .. L |-> g[k]]
      BY <1>8 DEF TrimRuns
    <2> HIDE DEF L
    <2> QED
      BY <1>11, <2>1
  <1> QED
    BY <1>7, <1>10, <1>12 DEF Trims, V

LEMMA TrimFacts ==
  ASSUME NEW U, NEW x \in Spanning(U), NEW rs \in Seq(Spanning(U))
  PROVE  /\ Trimmed(x, rs) \in Seq(Spanning(U))
         /\ \A b \in Nat : Shows(Trimmed(x, rs), b, IF Uncovered(rs, b) THEN Shade(x, b) ELSE {})
  <1>1. PICK f : Trims(f, Spanning(U), x, rs)
    BY TrimsExist
  <1>2. PICK L, V : L = Len(rs) /\ V = Spanning(U)
    OBVIOUS
  <1>3. /\ L \in Nat /\ DOMAIN rs = 1 .. L /\ \A k \in 1 .. L : rs[k] \in V
    BY <1>2
  <1>4. /\ f \in [0 .. L -> Seq(V)] /\ f[0] = <<x>> /\ Trimmed(x, rs) = f[L]
        /\ \A k \in 1 .. L : f[k] = CutAll(f[k - 1], rs[k])
    BY <1>1, <1>2 DEF Trims
  <1>5. ASSUME NEW b \in Nat
        PROVE  Shows(f[L], b, IF Uncovered(rs, b) THEN Shade(x, b) ELSE {})
    <2> DEFINE W(k) == IF \A i \in 1 .. k : ~LiesOn(rs[i], b) THEN Shade(x, b) ELSE {}
               S == {k \in 0 .. L : Shows(f[k], b, W(k))}
    <2>1. 0 \in S
      <3>1. W(0) = Shade(x, b) /\ 0 \in 0 .. L
        BY <1>3
      <3> HIDE DEF W
      <3> QED
        BY <1>4, <3>1, ShowsOne
    <2>2. ASSUME NEW k \in 1 .. L, k - 1 \in S PROVE k \in S
      <3>1. W(k) = OffIt(rs[k], b, W(k - 1))
        <4>1. \A i : i \in 1 .. k <=> i \in 1 .. k - 1 \/ i = k
          BY <1>3
        <4> QED
          BY <4>1 DEF OffIt
      <3>2. PICK xs, r, w : xs = f[k - 1] /\ r = rs[k] /\ w = W(k - 1)
        OBVIOUS
      <3> HIDE DEF W
      <3>3. xs \in Seq(V) /\ r \in V /\ Shows(xs, b, w) /\ f[k] = CutAll(xs, r) /\ k \in 0 .. L
        BY <1>3, <1>4, <2>2, <3>2
      <3>4. Shows(CutAll(xs, r), b, OffIt(r, b, w))
        BY <1>2, <3>3, CutAllFacts
      <3> QED
        BY <3>1, <3>2, <3>3, <3>4
    <2>3. \A k \in 0 .. L : k \in S
      <3> HIDE DEF S
      <3> QED
        BY <1>3, <2>1, <2>2, UpTo
    <2>4. Shows(f[L], b, W(L))
      BY <1>3, <2>3
    <2>5. W(L) = IF Uncovered(rs, b) THEN Shade(x, b) ELSE {}
      BY <1>3 DEF Uncovered
    <2> HIDE DEF W
    <2> QED
      BY <2>4, <2>5
  <1>6. f[L] \in Seq(V)
    BY <1>3, <1>4
  <1> QED
    BY <1>2, <1>4, <1>5, <1>6

-------------------------------------------------------------------------------
(***************************************************************************)
(* highlight: the entries in order of their priority, laid one after the   *)
(* other.  The ranges laid so far show at a byte what the first of the     *)
(* entries laid so far over it shows.                                      *)
(***************************************************************************)

\* What the first of d over b shows.
FirstOn(d, b, w) ==
  \/ w = {} /\ Uncovered(d, b)
  \/ \E j \in DOMAIN d : /\ LiesOn(d[j], b) /\ w = {d[j].name}
                         /\ \A l \in DOMAIN d : l < j => ~LiesOn(d[l], b)

Laid(d, rs) == \A b \in Nat : \E w : FirstOn(d, b, w) /\ Shows(rs, b, w)

LEMMA LayKeeps ==
  ASSUME NEW U, NEW d \in Seq(Spanning(U)), NEW x \in Spanning(U), NEW rs \in Seq(Spanning(U)),
         Laid(d, rs)
  PROVE  /\ rs \o Trimmed(x, rs) \in Seq(Spanning(U))
         /\ Laid(Append(d, x), rs \o Trimmed(x, rs))
  <1>1. PICK V, t, e, n : V = Spanning(U) /\ t = Trimmed(x, rs) /\ e = Append(d, x) /\ n = Len(d)
    OBVIOUS
  <1>2. t \in Seq(V) /\ \A b \in Nat : Shows(t, b, IF Uncovered(rs, b) THEN Shade(x, b) ELSE {})
    BY <1>1, TrimFacts
  <1>3. rs \o t \in Seq(V)
    BY <1>1, <1>2, Joined
  <1>4. /\ n \in Nat /\ DOMAIN d = 1 .. n /\ DOMAIN e = 1 .. n + 1 /\ e[n + 1] = x
        /\ \A i \in 1 .. n : i \in 1 .. n + 1 /\ e[i] = d[i] /\ i < n + 1
        /\ \A i \in 1 .. n + 1 : i \in 1 .. n \/ i = n + 1
    BY <1>1
  <1>5. ASSUME NEW b \in Nat PROVE \E w : FirstOn(e, b, w) /\ Shows(rs \o t, b, w)
    <2>1. PICK w : FirstOn(d, b, w) /\ Shows(rs, b, w)
      BY DEF Laid
    <2>2. CASE Uncovered(rs, b)
      <3>1. w = {}
        BY <2>1, <2>2 DEF Shows, Alone, Uncovered
      <3>2. Shows(t, b, Shade(x, b))
        BY <1>2, <2>2
      <3>3. Shows(rs \o t, b, w \cup Shade(x, b))
        BY <1>1, <1>2, <2>1, <3>1, <3>2, ShowsJoined
      <3>4. Uncovered(d, b)
        <4>1. ASSUME NEW j, w = {d[j].name} PROVE FALSE
          BY <3>1, <4>1
        <4> QED
          BY <2>1, <4>1 DEF FirstOn
      <3>5. FirstOn(e, b, Shade(x, b))
        <4>1. \A i \in 1 .. n : ~LiesOn(e[i], b)
          BY <1>4, <3>4 DEF Uncovered
        <4>2. CASE LiesOn(x, b)
          <5>1. Shade(x, b) = {e[n + 1].name} /\ LiesOn(e[n + 1], b)
            BY <1>4, <4>2 DEF Shade
          <5>2. n + 1 \in DOMAIN e /\ \A l \in DOMAIN e : l < n + 1 => ~LiesOn(e[l], b)
            BY <1>4, <4>1
          <5> QED
            BY <5>1, <5>2 DEF FirstOn
        <4>3. CASE ~LiesOn(x, b)
          <5>1. Shade(x, b) = {} /\ Uncovered(e, b)
            BY <1>4, <4>1, <4>3 DEF Shade, Uncovered
          <5> QED
            BY <5>1 DEF FirstOn
        <4> QED
          BY <4>2, <4>3
      <3>6. w \cup Shade(x, b) = Shade(x, b)
        BY <3>1
      <3> QED
        BY <3>3, <3>5, <3>6
    <2>3. CASE ~Uncovered(rs, b)
      <3>1. Shows(t, b, {})
        BY <1>2, <2>3
      <3>2. Shows(rs \o t, b, w \cup {})
        BY <1>1, <1>2, <2>1, <3>1, ShowsJoined
      <3>3. w # {}
        <4>1. ASSUME NEW j, w = {rs[j].name} PROVE w # {}
          BY <4>1
        <4> QED
          BY <2>1, <2>3, <4>1 DEF Shows
      <3>4. PICK j \in DOMAIN d : /\ LiesOn(d[j], b) /\ w = {d[j].name}
                                  /\ \A l \in DOMAIN d : l < j => ~LiesOn(d[l], b)
        BY <2>1, <3>3 DEF FirstOn
      <3>5. j \in DOMAIN e /\ LiesOn(e[j], b) /\ w = {e[j].name}
        BY <1>4, <3>4
      <3>6. \A l \in DOMAIN e : l < j => ~LiesOn(e[l], b)
        <4> SUFFICES ASSUME NEW l \in 1 .. n + 1, l < j PROVE ~LiesOn(e[l], b)
          BY <1>4
        <4>1. l \in 1 .. n
          BY <1>4, <3>4
        <4> QED
          BY <1>4, <3>4, <4>1
      <3>7. w \cup {} = w
        OBVIOUS
      <3> QED
        BY <3>2, <3>5, <3>6, <3>7 DEF FirstOn
    <2> QED
      BY <2>2, <2>3
  <1> QED
    BY <1>1, <1>3, <1>5 DEF Laid

LEMMA NothingLaid ==
  Laid(<<>>, <<>>)
  <1>1. \A b : Uncovered(<<>>, b)
    BY DEF Uncovered
  <1>2. \A b : FirstOn(<<>>, b, {}) /\ Shows(<<>>, b, {})
    BY <1>1 DEF FirstOn, Shows
  <1> QED
    BY <1>2 DEF Laid

LEMMA SpanFacts ==
  ASSUME NEW U, NEW x \in Spanning(U)
  PROVE  /\ x.prio \in Int /\ x.start \in Nat /\ x.start \in Int /\ x.end \in Nat /\ x.name \in U
         /\ x.start <= x.end
  BY DEF Spanning

LEMMA PriorityWeak ==
  ASSUME NEW U, NEW s \in Seq(Spanning(U))
  PROVE  /\ WeakOrder(Len(s), PriorityOrder(s)) /\ WeakOrder(Len(s), StartOrder(s))
         /\ \A i, j \in 1 .. Len(s) : /\ <<i, j>> \in PriorityOrder(s) <=> ByPriority(s[i], s[j])
                                      /\ <<i, j>> \in StartOrder(s) <=> s[i].start < s[j].start
  <1>1. PICK n : n = Len(s)
    OBVIOUS
  <1>2. n \in Nat /\ DOMAIN s = 1 .. n /\ \A i \in 1 .. n : s[i] \in Spanning(U)
    BY <1>1
  <1>3. \A i \in 1 .. n : s[i].prio \in Int /\ s[i].start \in Int
    BY <1>2, SpanFacts
  <1>4. \A i, j \in 1 .. n : /\ <<i, j>> \in PriorityOrder(s) <=> ByPriority(s[i], s[j])
                             /\ <<i, j>> \in StartOrder(s) <=> s[i].start < s[j].start
    BY <1>2 DEF PriorityOrder, StartOrder
  <1>5. PriorityOrder(s) \subseteq (1 .. n) \X (1 .. n) /\ StartOrder(s) \subseteq (1 .. n) \X (1 .. n)
    BY <1>2 DEF PriorityOrder, StartOrder
  <1>6. \A i \in 1 .. n : ~ByPriority(s[i], s[i]) /\ ~(s[i].start < s[i].start)
    BY <1>3 DEF ByPriority
  <1>7. ASSUME NEW i \in 1 .. n, NEW j \in 1 .. n, NEW k \in 1 .. n
        PROVE  /\ ByPriority(s[i], s[j]) /\ ByPriority(s[j], s[k]) => ByPriority(s[i], s[k])
               /\ ~ByPriority(s[i], s[j]) /\ ~ByPriority(s[j], s[k]) => ~ByPriority(s[i], s[k])
               /\ s[i].start < s[j].start /\ s[j].start < s[k].start => s[i].start < s[k].start
               /\ ~(s[i].start < s[j].start) /\ ~(s[j].start < s[k].start) => ~(s[i].start < s[k].start)
    <2>1. PICK a, b, c, x, y, z : /\ a = s[i].prio /\ b = s[j].prio /\ c = s[k].prio
                                  /\ x = s[i].start /\ y = s[j].start /\ z = s[k].start
      OBVIOUS
    <2>2. a \in Int /\ b \in Int /\ c \in Int /\ x \in Int /\ y \in Int /\ z \in Int
      BY <1>3, <2>1
    <2>3. /\ ByPriority(s[i], s[j]) <=> a > b \/ (a = b /\ x < y)
          /\ ByPriority(s[j], s[k]) <=> b > c \/ (b = c /\ y < z)
          /\ ByPriority(s[i], s[k]) <=> a > c \/ (a = c /\ x < z)
      BY <2>1 DEF ByPriority
    <2>4. /\ (a > b \/ (a = b /\ x < y)) /\ (b > c \/ (b = c /\ y < z)) => a > c \/ (a = c /\ x < z)
          /\ ~(a > b \/ (a = b /\ x < y)) /\ ~(b > c \/ (b = c /\ y < z)) => ~(a > c \/ (a = c /\ x < z))
          /\ x < y /\ y < z => x < z
          /\ ~(x < y) /\ ~(y < z) => ~(x < z)
      BY <2>2
    <2> QED
      BY <2>1, <2>3, <2>4
  <1>8. WeakOrder(n, PriorityOrder(s))
    BY <1>4, <1>5, <1>6, <1>7 DEF WeakOrder
  <1>9. WeakOrder(n, StartOrder(s))
    BY <1>4, <1>5, <1>6, <1>7 DEF WeakOrder
  <1> QED
    BY <1>1, <1>4, <1>8, <1>9

\* The statement of the property about the entries and the ranges laid.
PaintedAt(z, painted, over) ==
  IF over = {} THEN painted = {}
  ELSE \E i \in painted : painted = {i} /\ z[i].name \in {x.name : x \in Strongest(over)}

PaintedWell(A, z, limit) ==
  /\ \A i, j \in DOMAIN z : i < j => z[i].start <= z[j].start
  /\ \A k \in 0 .. limit :
       PaintedAt(z, {i \in DOMAIN z : z[i].start <= k /\ k < z[i].end},
                    {x \in ToSet(A) : x.start <= k /\ k < x.end})

LEMMA PaintFacts ==
  ASSUME NEW U, NEW A \in Seq(Spanning(U)), NEW rs \in Seq(Spanning(U)), NEW limit \in Nat,
         Laid(Sorted(A, PriorityOrder(A)), rs)
  PROVE  /\ PaintedWell(A, Sorted(rs, StartOrder(rs)), limit)
         /\ Sorted(rs, StartOrder(rs)) \in Seq(Spanning(U))
         /\ Sorted(A, PriorityOrder(A)) \in Seq(Spanning(U))
  <1>1. PICK V, s, z, m, n : /\ V = Spanning(U) /\ s = Sorted(A, PriorityOrder(A))
                             /\ z = Sorted(rs, StartOrder(rs)) /\ m = Len(A) /\ n = Len(rs)
    OBVIOUS
  <1>2. /\ m \in Nat /\ n \in Nat /\ DOMAIN A = 1 .. m /\ DOMAIN rs = 1 .. n
        /\ \A i \in 1 .. m : A[i] \in V
        /\ \A i \in 1 .. n : rs[i] \in V
    BY <1>1
  <1>3. PICK P : SortedBy(s, A, PriorityOrder(A), P)
    BY <1>1, PriorityWeak, SortFacts
  <1>4. PICK Q : SortedBy(z, rs, StartOrder(rs), Q)
    BY <1>1, PriorityWeak, SortFacts
  <1>5. /\ P \in [1 .. m -> 1 .. m] /\ \A i \in 1 .. m : \E k \in 1 .. m : P[k] = i
        /\ s = [k \in 1 .. m |-> A[P[k]]]
        /\ \A k, l \in 1 .. m : k < l => <<P[l], P[k]>> \notin PriorityOrder(A)
    BY <1>1, <1>3 DEF SortedBy, Permutes
  <1>6. /\ Q \in [1 .. n -> 1 .. n] /\ \A i \in 1 .. n : \E k \in 1 .. n : Q[k] = i
        /\ \A k, l \in 1 .. n : Q[k] = Q[l] => k = l
        /\ z = [k \in 1 .. n |-> rs[Q[k]]]
        /\ \A k, l \in 1 .. n : k < l => <<Q[l], Q[k]>> \notin StartOrder(rs)
    BY <1>1, <1>4 DEF SortedBy, Permutes
  <1>7. /\ DOMAIN s = 1 .. m /\ DOMAIN z = 1 .. n
        /\ \A k \in 1 .. m : P[k] \in 1 .. m /\ s[k] = A[P[k]] /\ s[k] \in V
        /\ \A k \in 1 .. n : Q[k] \in 1 .. n /\ z[k] = rs[Q[k]] /\ z[k] \in V
    BY <1>2, <1>5, <1>6
  <1>8. s \in Seq(V) /\ z \in Seq(V)
    <2>1. s \in [1 .. m -> V] /\ z \in [1 .. n -> V]
      BY <1>5, <1>6, <1>7
    <2> QED
      BY <1>2, <2>1
  <1>9. \A i, j \in 1 .. n : i < j => z[i].start <= z[j].start
    <2> SUFFICES ASSUME NEW i \in 1 .. n, NEW j \in 1 .. n, i < j PROVE z[i].start <= z[j].start
      OBVIOUS
    <2>1. ~(rs[Q[j]].start < rs[Q[i]].start)
      BY <1>1, <1>6, <1>7, PriorityWeak
    <2>2. z[i].start \in Int /\ z[j].start \in Int
      BY <1>1, <1>7, SpanFacts
    <2> QED
      BY <1>7, <2>1, <2>2
  <1>10. \A k, l \in 1 .. m : k < l => ~ByPriority(s[l], s[k])
    <2>1. \A i, j \in 1 .. m : <<i, j>> \in PriorityOrder(A) <=> ByPriority(A[i], A[j])
      BY <1>1, PriorityWeak
    <2> SUFFICES ASSUME NEW k \in 1 .. m, NEW l \in 1 .. m, k < l PROVE ~ByPriority(s[l], s[k])
      OBVIOUS
    <2>2. P[k] \in 1 .. m /\ P[l] \in 1 .. m /\ s[k] = A[P[k]] /\ s[l] = A[P[l]]
      BY <1>7
    <2>3. <<P[l], P[k]>> \notin PriorityOrder(A)
      BY <1>5
    <2> QED
      BY <2>1, <2>2, <2>3
  <1>11. \A k \in 1 .. m : ~ByPriority(s[k], s[k])
    <2> SUFFICES ASSUME NEW k \in 1 .. m PROVE ~ByPriority(s[k], s[k])
      OBVIOUS
    <2>1. s[k].prio \in Int /\ s[k].start \in Int
      BY <1>1, <1>7, SpanFacts
    <2> QED
      BY <2>1 DEF ByPriority
  <1>12. ToSet(A) = {s[k] : k \in 1 .. m}
    <2>1. ToSet(A) = {A[i] : i \in 1 .. m}
      BY <1>2 DEF ToSet
    <2>2. \A i \in 1 .. m : \E k \in 1 .. m : s[k] = A[i]
      BY <1>5, <1>7
    <2>3. \A k \in 1 .. m : \E i \in 1 .. m : s[k] = A[i]
      BY <1>7
    <2>4. ASSUME NEW x \in {A[i] : i \in 1 .. m} PROVE x \in {s[k] : k \in 1 .. m}
      <3>1. PICK i \in 1 .. m : x = A[i]
        OBVIOUS
      <3>2. PICK k \in 1 .. m : s[k] = A[i]
        BY <2>2
      <3> QED
        BY <3>1, <3>2
    <2>5. ASSUME NEW x \in {s[k] : k \in 1 .. m} PROVE x \in {A[i] : i \in 1 .. m}
      <3>1. PICK k \in 1 .. m : x = s[k]
        OBVIOUS
      <3>2. PICK i \in 1 .. m : s[k] = A[i]
        BY <2>3
      <3> QED
        BY <3>1, <3>2
    <2> QED
      BY <2>1, <2>4, <2>5
  <1>13. ASSUME NEW k \in 0 .. limit
         PROVE  PaintedAt(z, {i \in DOMAIN z : z[i].start <= k /\ k < z[i].end},
                             {x \in ToSet(A) : x.start <= k /\ k < x.end})
    <2>0. PICK painted, over : /\ painted = {i \in DOMAIN z : z[i].start <= k /\ k < z[i].end}
                               /\ over = {x \in ToSet(A) : x.start <= k /\ k < x.end}
      OBVIOUS
    <2>1. painted = {i \in 1 .. n : LiesOn(rs[Q[i]], k)}
      BY <1>7, <2>0 DEF LiesOn
    <2>2. over = {x \in {s[j] : j \in 1 .. m} : LiesOn(x, k)}
      BY <1>12, <2>0 DEF LiesOn
    <2>3. PICK w : FirstOn(s, k, w) /\ Shows(rs, k, w)
      BY <1>1 DEF Laid
    <2>4. ASSUME Uncovered(s, k), w = {} PROVE over = {} /\ painted = {}
      <3>1. over = {}
        BY <1>7, <2>2, <2>4 DEF Uncovered
      <3>2. Uncovered(rs, k)
        <4>1. Shows(rs, k, {})
          BY <2>3, <2>4
        <4> QED
          BY <4>1, ShowsNone
      <3>3. painted = {}
        BY <1>2, <1>7, <2>1, <3>2 DEF Uncovered
      <3> QED
        BY <3>1, <3>3
    <2>5. ASSUME NEW j \in 1 .. m, LiesOn(s[j], k), w = {s[j].name},
                 \A l \in 1 .. m : l < j => ~LiesOn(s[l], k)
          PROVE  /\ over # {}
                 /\ \E i \in painted : painted = {i} /\ z[i].name \in {x.name : x \in Strongest(over)}
      <3>1. s[j] \in over
        BY <2>2, <2>5
      <3>2. s[j] \in Strongest(over)
        <4>1. ASSUME NEW y \in over PROVE ~ByPriority(y, s[j])
          <5>1. PICK l \in 1 .. m : y = s[l] /\ LiesOn(s[l], k)
            BY <2>2
          <5>2. ~(l < j)
            BY <2>5, <5>1
          <5>3. l = j \/ j < l
            BY <1>2, <5>2
          <5> QED
            BY <1>10, <1>11, <5>1, <5>3
        <4> QED
          BY <3>1, <4>1 DEF Strongest
      <3>3. PICK a : Alone(rs, k, a) /\ w = {rs[a].name}
        <4>1. w # {}
          BY <2>5
        <4> QED
          BY <2>3, <4>1 DEF Shows
      <3>4. a \in 1 .. n /\ LiesOn(rs[a], k) /\ \A c \in 1 .. n : LiesOn(rs[c], k) => c = a
        BY <1>2, <3>3 DEF Alone
      <3>5. PICK i \in 1 .. n : Q[i] = a
        BY <1>6, <3>4
      <3>6. painted = {i}
        <4>1. \A c \in 1 .. n : LiesOn(rs[Q[c]], k) => c = i
          <5> SUFFICES ASSUME NEW c \in 1 .. n, LiesOn(rs[Q[c]], k) PROVE c = i
            OBVIOUS
          <5>1. Q[c] \in 1 .. n
            BY <1>7
          <5>2. Q[c] = a
            BY <3>4, <5>1
          <5> QED
            BY <1>6, <3>5, <5>2
        <4>2. LiesOn(rs[Q[i]], k)
          BY <3>4, <3>5
        <4> QED
          BY <2>1, <4>1, <4>2
      <3>7. z[i].name = s[j].name
        <4>1. z[i] = rs[a]
          BY <1>7, <3>5
        <4> QED
          BY <2>5, <3>3, <4>1
      <3> QED
        BY <3>1, <3>2, <3>6, <3>7
    <2>6. /\ over = {} => painted = {}
          /\ over # {} =>
               \E i \in painted : painted = {i} /\ z[i].name \in {x.name : x \in Strongest(over)}
      <3>1. CASE w = {} /\ Uncovered(s, k)
        BY <2>4, <3>1
      <3>2. ASSUME NEW j \in DOMAIN s, LiesOn(s[j], k), w = {s[j].name},
                   \A l \in DOMAIN s : l < j => ~LiesOn(s[l], k)
            PROVE  /\ over # {}
                   /\ \E i \in painted : painted = {i} /\ z[i].name \in {x.name : x \in Strongest(over)}
        <4>1. j \in 1 .. m /\ \A l \in 1 .. m : l < j => ~LiesOn(s[l], k)
          BY <1>7, <3>2
        <4> QED
          BY <2>5, <3>2, <4>1
      <3> QED
        BY <2>3, <3>1, <3>2 DEF FirstOn
    <2>7. PaintedAt(z, painted, over)
      BY <2>6 DEF PaintedAt
    <2> QED
      BY <2>0, <2>7
  <1>14. PaintedWell(A, z, limit)
    BY <1>7, <1>9, <1>13 DEF PaintedWell
  <1> QED
    BY <1>1, <1>8, <1>14

-------------------------------------------------------------------------------
(***************************************************************************)
(* highlight as the steps of a reading.                                    *)
(***************************************************************************)

CapturedIn(r, qs, m) ==
  [i \in DOMAIN m.captures |->
     [prio  |-> (Len(qs) - m.query) * PatternLimit + m.pattern,
      start |-> r.tree.nodes[m.captures[i].node].start,
      end   |-> r.tree.nodes[m.captures[i].node].end,
      name  |-> qs[m.query].captures[m.captures[i].place]]]

EntrySeq(r, qs, ms) == FlattenSeq([i \in DOMAIN ms |-> CapturedIn(r, qs, ms[i])])

LEMMA EntriesTyped ==
  ASSUME NEW r, NEW qs, Ready(r, qs), NEW ms \in Seq(MatchSet(r, qs))
  PROVE  EntrySeq(r, qs, ms) \in Seq(Spanning(Names(r)))
  <1>1. PICK V, U, M, l : V = Spanning(U) /\ U = Names(r) /\ M = MatchSet(r, qs) /\ l = Len(qs)
    OBVIOUS
  <1>2. l \in Nat /\ TreeOK(r.tree)
    BY <1>1, PatternCounts DEF Ready
  <1>3. ASSUME NEW m \in M PROVE CapturedIn(r, qs, m) \in Seq(V)
    <2>1. PICK q \in 1 .. l : m \in MatchesOf(r, qs, q)
      BY <1>1, <1>3 DEF MatchSet
    <2>2. PICK caps, c : caps = qs[q].captures /\ c = Len(qs[q].captures)
      OBVIOUS
    <2>3. /\ m.query = q /\ m.pattern \in 1 .. Len(qs[q].patterns)
          /\ m.captures \in Seq(CapturesOf(r, c))
      BY <2>1, <2>2 DEF MatchesOf
    <2>4. caps \in Seq(U) /\ Len(qs[q].patterns) \in Nat
      <3>1. PICK x : x = qs[q]
        OBVIOUS
      <3>2. x \in RawQuery(r)
        BY <1>1, <3>1, PatternCounts
      <3>3. x.captures \in Seq(Names(r)) /\ Len(x.patterns) \in Nat
        BY <3>2, RawQueryFacts
      <3> QED
        BY <1>1, <2>2, <3>1, <3>3
    <2>5. PICK mc, p : mc = m.captures /\ p = (l - q) * PatternLimit + m.pattern
      OBVIOUS
    <2>6. p \in Int
      <3>1. m.pattern \in Int
        BY <2>3, <2>4
      <3>2. (l - q) * 16 \in Int
        BY <1>2
      <3> QED
        BY <2>5, <3>1, <3>2 DEF PatternLimit
    <2>7. mc \in Seq(CapturesOf(r, c))
      BY <2>3, <2>5
    <2>8. DOMAIN mc = 1 .. Len(mc) /\ Len(mc) \in Nat /\ \A i \in 1 .. Len(mc) : mc[i] \in CapturesOf(r, c)
      BY <2>7
    <2> DEFINE E(i) == [prio |-> p, start |-> r.tree.nodes[mc[i].node].start,
                        end |-> r.tree.nodes[mc[i].node].end, name |-> caps[mc[i].place]]
    <2>9. ASSUME NEW i \in 1 .. Len(mc) PROVE E(i) \in V
      <3>1. PICK n, k : n = mc[i].node /\ k = mc[i].place
        OBVIOUS
      <3>2. n \in DOMAIN r.tree.nodes /\ k \in 1 .. c
        BY <2>8, <3>1 DEF CapturesOf
      <3>3. NodeOK(r.tree, n)
        BY <1>2, <3>2 DEF TreeOK
      <3>4. caps[k] \in U
        BY <2>2, <2>4, <3>2
      <3>5. PICK a, b, nm : a = r.tree.nodes[n].start /\ b = r.tree.nodes[n].end /\ nm = caps[k]
        OBVIOUS
      <3>6. a \in Nat /\ b \in Nat /\ a <= b /\ nm \in U
        BY <3>3, <3>4, <3>5 DEF NodeOK
      <3>7. [prio |-> p, start |-> a, end |-> b, name |-> nm] \in Spanning(U)
        BY <2>6, <3>6 DEF Spanning
      <3> QED
        BY <1>1, <3>1, <3>5, <3>7
    <2>10. CapturedIn(r, qs, m) = [i \in 1 .. Len(mc) |-> E(i)]
      BY <1>1, <2>2, <2>3, <2>5, <2>8 DEF CapturedIn
    <2> HIDE DEF E
    <2>11. [i \in 1 .. Len(mc) |-> E(i)] \in [1 .. Len(mc) -> V]
      BY <2>9
    <2>12. [i \in 1 .. Len(mc) |-> E(i)] \in Seq(V)
      <3>1. PICK g, k : g = [i \in 1 .. Len(mc) |-> E(i)] /\ k = Len(mc)
        OBVIOUS
      <3>2. g \in [1 .. k -> V] /\ k \in Nat
        BY <2>8, <2>11, <3>1
      <3>3. g \in Seq(V)
        BY <3>2
      <3> QED
        BY <3>1, <3>3
    <2> QED
      BY <2>10, <2>12
  <1> DEFINE F == [i \in DOMAIN ms |-> CapturedIn(r, qs, ms[i])]
  <1>4. F \in Seq(Seq(V))
    <2>1. PICK k : k = Len(ms)
      OBVIOUS
    <2>2. k \in Nat /\ DOMAIN ms = 1 .. k /\ \A i \in 1 .. k : ms[i] \in M
      BY <1>1, <2>1
    <2>3. F = [i \in 1 .. k |-> CapturedIn(r, qs, ms[i])]
      BY <2>2
    <2> HIDE DEF F
    <2>4. \A i \in 1 .. k : CapturedIn(r, qs, ms[i]) \in Seq(V)
      BY <1>3, <2>2
    <2>5. PICK W : W = Seq(V)
      OBVIOUS
    <2>6. F \in [1 .. k -> W]
      BY <2>3, <2>4, <2>5
    <2>7. F \in Seq(W)
      BY <2>2, <2>6
    <2> QED
      BY <2>5, <2>7
  <1>5. EntrySeq(r, qs, ms) = FlattenSeq(F)
    BY DEF EntrySeq
  <1> HIDE DEF F
  <1>6. FlattenSeq(F) \in Seq(V)
    BY <1>4, FlattenFacts
  <1> QED
    BY <1>1, <1>5, <1>6

\* Of the sorted entries, d are laid and en are not.
LayingAt(A, V, en, rs) ==
  \E d : /\ d \in Seq(V) /\ en \in Seq(V) /\ rs \in Seq(V)
         /\ d \o en = Sorted(A, PriorityOrder(A)) /\ Laid(d, rs)

LayShape(r, qs, ms, en, rs, ph) ==
  /\ ph \in {"compile", "refused", "query"} => en = <<>> /\ rs = <<>>
  /\ r.task = "query" => ph # "resolve" /\ rs = <<>>
  /\ ph = "resolve" => LayingAt(EntrySeq(r, qs, ms), Spanning(Names(r)), en, rs)
  /\ ph = "done" /\ r.task = "highlight" =>
       /\ rs \in Seq(Spanning(Names(r)))
       /\ PaintedWell(EntrySeq(r, qs, ms), rs, r.tree.nodes[r.tree.root].end)

LayInv == Querying => LayShape(job, queries, matches, entries, ranges, phase)
LayHolds == LayShape(job, queries', matches', entries', ranges', phase')

LEMMA NamedEntries ==
  AllEntries = EntrySeq(job, queries, matches)
  <1>1. \A m : Captured(m) = CapturedIn(job, queries, m)
    BY DEF Captured, CapturedIn, Priority, Nodes
  <1> QED
    BY <1>1 DEF AllEntries, EntrySeq

LEMMA SortBegins ==
  ASSUME NEW U, NEW A \in Seq(Spanning(U))
  PROVE  LayingAt(A, Spanning(U), Sorted(A, PriorityOrder(A)), <<>>)
  <1>1. PICK V, s, k : V = Spanning(U) /\ s = Sorted(A, PriorityOrder(A)) /\ k = 0
    OBVIOUS
  <1>2. PICK P : SortedBy(s, A, PriorityOrder(A), P)
    BY <1>1, PriorityWeak, SortFacts
  <1>3. PICK m : m = Len(A)
    OBVIOUS
  <1>4. /\ m \in Nat /\ P \in [1 .. m -> 1 .. m] /\ s = [i \in 1 .. m |-> A[P[i]]]
        /\ \A i \in 1 .. m : A[i] \in V
    BY <1>1, <1>2, <1>3 DEF SortedBy, Permutes
  <1>5. s \in [1 .. m -> V]
    BY <1>4
  <1>6. s \in Seq(V) /\ <<>> \in Seq(V)
    BY <1>4, <1>5
  <1>7. <<>> \o s = s
    BY <1>6, ConcatEmptySeq
  <1> QED
    BY <1>1, <1>6, <1>7, NothingLaid DEF LayingAt

LEMMA LayGoesOn ==
  ASSUME NEW U, NEW A, NEW en, NEW rs, LayingAt(A, Spanning(U), en, rs), en # <<>>
  PROVE  LayingAt(A, Spanning(U), Tail(en), rs \o Trimmed(Head(en), rs))
  <1>1. PICK V : V = Spanning(U)
    OBVIOUS
  <1>2. PICK d : /\ d \in Seq(V) /\ en \in Seq(V) /\ rs \in Seq(V)
                 /\ d \o en = Sorted(A, PriorityOrder(A)) /\ Laid(d, rs)
    BY <1>1 DEF LayingAt
  <1>3. PICK x, t : x = Head(en) /\ t = Tail(en)
    OBVIOUS
  <1>4. x \in V /\ t \in Seq(V) /\ Append(d, x) \in Seq(V) /\ Append(d, x) \o t = d \o en
    BY <1>2, <1>3
  <1>5. rs \o Trimmed(x, rs) \in Seq(V) /\ Laid(Append(d, x), rs \o Trimmed(x, rs))
    BY <1>1, <1>2, <1>4, LayKeeps
  <1> QED
    BY <1>1, <1>2, <1>3, <1>4, <1>5 DEF LayingAt

LEMMA LayFinishes ==
  ASSUME NEW U, NEW A \in Seq(Spanning(U)), NEW rs, LayingAt(A, Spanning(U), <<>>, rs), NEW limit \in Nat
  PROVE  /\ Sorted(rs, StartOrder(rs)) \in Seq(Spanning(U))
         /\ PaintedWell(A, Sorted(rs, StartOrder(rs)), limit)
  <1>1. PICK V : V = Spanning(U)
    OBVIOUS
  <1>2. PICK d : /\ d \in Seq(V) /\ rs \in Seq(V)
                 /\ d \o <<>> = Sorted(A, PriorityOrder(A)) /\ Laid(d, rs)
    BY <1>1 DEF LayingAt
  <1>3. d \o <<>> = d
    BY <1>2, ConcatEmptySeq
  <1>4. Laid(Sorted(A, PriorityOrder(A)), rs)
    BY <1>2, <1>3
  <1> QED
    BY <1>1, <1>2, <1>4, PaintFacts

LEMMA LayInvStep ==
  ASSUME Chosen, TextInv, TextInv', QueryInv, LayInv, [Next]_vars
  PROVE  LayInv'
  <1>1. job' = job
    BY ReaderStep
  <1>2. SUFFICES ASSUME Querying PROVE LayHolds
    BY <1>1 DEF LayInv, LayHolds, Querying
  <1>3. LayShape(job, queries, matches, entries, ranges, phase)
    BY <1>2 DEF LayInv
  <1>4. QueryShape(job, queries, asked, stack, nextPat, back, matches, phase) /\ Ready(job, queries)
    BY <1>1, <1>2, QueryReadied DEF QueryInv
  <1>5. PICK r, U, A : r = job /\ U = Names(job) /\ A = EntrySeq(job, queries, matches)
    OBVIOUS
  <1>6. phase \in {"query", "resolve", "done"} => A \in Seq(Spanning(U))
    <2> SUFFICES ASSUME phase \in {"query", "resolve", "done"} PROVE A \in Seq(Spanning(U))
      OBVIOUS
    <2>1. Sound(job, queries, asked, stack, nextPat, back, matches)
      BY <1>4 DEF QueryShape
    <2>2. matches \in Seq(MatchSet(job, queries))
      BY <1>4, <2>1, SoundFacts
    <2> QED
      BY <1>4, <1>5, <2>2, EntriesTyped
  <1>7. CASE UNCHANGED vars
    <2>1. queries' = queries /\ matches' = matches /\ entries' = entries /\ ranges' = ranges /\ phase' = phase
      BY <1>7 DEF vars, queryVars, textVars, walkVars, readVars
    <2> QED
      BY <1>3, <2>1 DEF LayHolds
  <1>8. CASE OpsNext
    <2>1. phase \in {"compile", "refused", "query", "resolve", "done"}
      BY <1>4 DEF QueryShape
    <2> QED
      BY <1>8, <2>1, OpsPhased
  <1>9. CASE QueryNext
    <2>1. CASE TextNext /\ phase = "compile" /\ UNCHANGED walkVars
      <3>1. phase' \in {"compile", "refused", "query"} /\ entries' = entries /\ ranges' = ranges
        BY <2>1, CompilePhases DEF walkVars
      <3>2. entries = <<>> /\ ranges = <<>>
        BY <1>3, <2>1 DEF LayShape
      <3> QED
        BY <3>1, <3>2 DEF LayHolds, LayShape
    <2>2. CASE UNCHANGED textVars /\ phase # "compile"
      <3>1. queries' = queries /\ ~TextNext
        BY <2>2, TextPhased DEF textVars
      <3>2. CASE TryPattern \/ DescendQuery \/ Backtrack \/ NextInQuery \/ Climb \/ NextQuery
        <4>1. phase = "query" /\ phase' = "query" /\ entries' = entries /\ ranges' = ranges
          BY <3>2 DEF TryPattern, DescendQuery, Backtrack, NextInQuery, Climb, NextQuery, Spent, readVars
        <4>2. entries = <<>> /\ ranges = <<>>
          BY <1>3, <4>1 DEF LayShape
        <4> QED
          BY <4>1, <4>2 DEF LayHolds, LayShape
      <3>3. CASE QueryEnds
        <4>1. phase = "query" /\ phase' = "done" /\ job.task = "query" /\ ranges' = ranges
          BY <3>3 DEF QueryEnds, AllAsked, queryVars, walkVars
        <4>2. ranges = <<>>
          BY <1>3, <4>1 DEF LayShape
        <4> QED
          BY <4>1, <4>2 DEF LayHolds, LayShape
      <3>4. CASE SortEntries
        <4>1. /\ phase = "query" /\ phase' = "resolve" /\ job.task = "highlight" /\ ranges' = ranges
              /\ matches' = matches /\ entries' = Sorted(A, PriorityOrder(A))
          BY <1>5, <3>4, NamedEntries DEF SortEntries, AllAsked
        <4>2. ranges = <<>>
          BY <1>3, <4>1 DEF LayShape
        <4>3. LayingAt(A, Spanning(U), entries', ranges')
          BY <1>6, <4>1, <4>2, SortBegins
        <4> QED
          BY <1>5, <3>1, <4>1, <4>3 DEF LayHolds, LayShape
      <3>5. CASE Lay
        <4>1. /\ phase = "resolve" /\ phase' = "resolve" /\ matches' = matches /\ entries # <<>>
              /\ entries' = Tail(entries) /\ ranges' = ranges \o Trimmed(Head(entries), ranges)
          BY <3>5 DEF Lay, readVars
        <4>2. LayingAt(A, Spanning(U), entries, ranges) /\ job.task # "query"
          BY <1>3, <1>5, <4>1 DEF LayShape
        <4>3. LayingAt(A, Spanning(U), Tail(entries), ranges \o Trimmed(Head(entries), ranges))
          BY <4>1, <4>2, LayGoesOn
        <4>4. LayingAt(A, Spanning(U), entries', ranges')
          BY <4>1, <4>3
        <4> QED
          BY <1>5, <3>1, <4>1, <4>2, <4>4 DEF LayHolds, LayShape
      <3>6. CASE HighlightEnds
        <4>1. /\ phase = "resolve" /\ phase' = "done" /\ matches' = matches /\ entries = <<>>
              /\ ranges' = Sorted(ranges, StartOrder(ranges))
          BY <3>6 DEF HighlightEnds
        <4>2. LayingAt(A, Spanning(U), <<>>, ranges) /\ job.task # "query"
          BY <1>3, <1>5, <4>1 DEF LayShape
        <4>3. PICK limit : limit = job.tree.nodes[job.tree.root].end
          OBVIOUS
        <4>4. limit \in Nat
          BY <1>4, <4>3, TreeFacts DEF Ready
        <4>5. /\ Sorted(ranges, StartOrder(ranges)) \in Seq(Spanning(U))
              /\ PaintedWell(A, Sorted(ranges, StartOrder(ranges)), limit)
          BY <1>6, <4>1, <4>2, <4>4, LayFinishes
        <4>6. ranges' \in Seq(Spanning(U)) /\ PaintedWell(A, ranges', limit)
          BY <4>1, <4>5
        <4> QED
          BY <1>5, <3>1, <4>1, <4>2, <4>3, <4>6 DEF LayHolds, LayShape
      <3> QED
        BY <1>9, <3>1, <3>2, <3>3, <3>4, <3>5, <3>6 DEF QueryNext
    <2> QED
      BY <1>9, <2>1, <2>2, TextKept
  <1> QED
    BY <1>7, <1>8, <1>9 DEF Next

ReaderInv == Chosen /\ TextInv /\ QueryInv /\ LayInv

LEMMA ReaderFirst ==
  ASSUME Init
  PROVE  ReaderInv
  <1>1. Chosen /\ TextInv /\ QueryInv
    BY QueryFirst
  <1>2. phase = Phase(job.task) /\ entries = <<>> /\ ranges = <<>>
    BY DEF Init, QueryInit
  <1>3. Querying => phase = "compile"
    BY <1>2 DEF Querying, Phase
  <1>4. LayInv
    BY <1>2, <1>3 DEF LayInv, LayShape
  <1> QED
    BY <1>1, <1>4 DEF ReaderInv

LEMMA ReaderKeeps ==
  ASSUME ReaderInv, [Next]_vars
  PROVE  ReaderInv'
  <1>1. Chosen /\ TextInv /\ QueryInv /\ LayInv
    BY DEF ReaderInv
  <1>2. Chosen' /\ TextInv' /\ QueryInv'
    BY <1>1, QueryStep
  <1>3. LayInv'
    BY <1>1, <1>2, LayInvStep
  <1> QED
    BY <1>2, <1>3 DEF ReaderInv

(***************************************************************************)
(* highlight: the ranges it answers are in order and disjoint, a byte has  *)
(* a range exactly if a capture lies over it, and the range's name is of a *)
(* capture there that no other capture there goes before, for every tree   *)
(* and all queries.                                                        *)
(***************************************************************************)
THEOREM Paints == Spec => []PaintedByPriority
  <1>1. Init => ReaderInv
    BY ReaderFirst
  <1>2. ReaderInv /\ [Next]_vars => ReaderInv'
    BY ReaderKeeps
  <1>3. ReaderInv => PaintedByPriority
    <2> SUFFICES ASSUME ReaderInv, phase = "done", job.task = "highlight"
                 PROVE  /\ \A i, j \in DOMAIN ranges : i < j => ranges[i].start <= ranges[j].start
                        /\ \A k \in 0 .. Nodes[Root].end :
                             LET painted == {i \in DOMAIN ranges : ranges[i].start <= k /\ k < ranges[i].end}
                             IN IF Over(k) = {} THEN painted = {}
                                ELSE \E i \in painted :
                                       painted = {i} /\ ranges[i].name \in {x.name : x \in Strongest(Over(k))}
      BY DEF PaintedByPriority
    <2>1. PaintedWell(EntrySeq(job, queries, matches), ranges, job.tree.nodes[job.tree.root].end)
      BY DEF ReaderInv, LayInv, LayShape, Querying
    <2>2. PaintedWell(AllEntries, ranges, Nodes[Root].end)
      BY <2>1, NamedEntries DEF Nodes, Root
    <2> QED
      BY <2>2 DEF PaintedWell, PaintedAt, Over
  <1> QED
    BY <1>1, <1>2, <1>3, PTL DEF Spec

-------------------------------------------------------------------------------
(***************************************************************************)
(* What every reader holds in hand.  A walk of the cursor stays in the     *)
(* tree because it follows the preorder; a search goes to a child that is  *)
(* there; the stack of a query is a path; each task leaves the others'     *)
(* state as it was.                                                        *)
(***************************************************************************)

OpsShape(r, p, u, s, h, fr, ch, ph) ==
  /\ r.task \in {"walk", "find", "mark"} => ph \in {r.task, "done"}
  /\ ph \in {"walk", "find", "mark"} => ph = r.task
  /\ r.task # "walk" => p = <<>> /\ u = "child" /\ s = <<>>
  /\ h \in DOMAIN r.tree.nodes \cup {0}
  /\ ph = "find" => h \in DOMAIN r.tree.nodes
  /\ fr \in Seq([node : DOMAIN r.tree.nodes, done : BOOLEAN])
  /\ ch \subseteq DOMAIN r.tree.nodes

OpsTyped == OpsShape(job, path, move, seen, here, frames, changed, phase)

LEMMA OpsFirst ==
  ASSUME Chosen, phase = Phase(job.task), OpsInit
  PROVE  OpsTyped
  <1>1. PICK D : D = DOMAIN job.tree.nodes
    OBVIOUS
  <1>2. job.tree.root \in D
    BY <1>1, ReadingsAssumption, TreeFacts DEF Chosen, ReadingOK
  <1>3. PICK first : first = [node |-> job.tree.root, done |-> FALSE]
    OBVIOUS
  <1>4. first \in [node : D, done : BOOLEAN]
    BY <1>2, <1>3
  <1>5. frames = <<first>> \/ frames = <<>>
    BY <1>3, Named DEF OpsInit
  <1>6. frames \in Seq([node : D, done : BOOLEAN])
    <2>1. PICK V : V = [node : D, done : BOOLEAN]
      OBVIOUS
    <2>2. <<>> \in Seq(V) /\ <<first>> \in Seq(V)
      BY <1>4, <2>1
    <2> QED
      BY <1>5, <2>1, <2>2
  <1>7. /\ here \in D \cup {0}
        /\ job.task = "find" => here \in D
    BY <1>2, Named DEF OpsInit
  <1>8. phase \in {"walk", "find", "mark"} => phase = job.task
    BY DEF Phase
  <1>9. job.task \in {"walk", "find", "mark"} => phase = job.task
    BY DEF Phase
  <1>10. /\ job.task # "walk" => path = <<>> /\ move = "child" /\ seen = <<>>
         /\ changed \subseteq D
    BY DEF OpsInit
  <1> QED
    BY <1>1, <1>6, <1>7, <1>8, <1>9, <1>10 DEF OpsTyped, OpsShape

LEMMA HolderFacts ==
  ASSUME NEW r, TreeOK(r.tree), NEW h \in DOMAIN r.tree.nodes, HoldersOf(r, h) # {}
  PROVE  KidsOf(r.tree, h)[Min(HoldersOf(r, h))] \in DOMAIN r.tree.nodes
  <1>1. PICK H : H = HoldersOf(r, h)
    OBVIOUS
  <1>2. /\ DOMAIN KidsOf(r.tree, h) = 1 .. Len(KidsOf(r.tree, h)) /\ Len(KidsOf(r.tree, h)) \in Nat
        /\ \A i \in DOMAIN KidsOf(r.tree, h) : KidsOf(r.tree, h)[i] \in DOMAIN r.tree.nodes
    BY TreeFacts
  <1>3. H \subseteq DOMAIN KidsOf(r.tree, h)
    BY <1>1 DEF HoldersOf
  <1>4. H \in SUBSET Nat /\ H # {}
    BY <1>1, <1>2, <1>3
  <1>5. \E x \in H : \A y \in H : x <= y
    BY <1>4, LeastExists
  <1>6. Min(H) \in H
    BY <1>5 DEF Min
  <1> QED
    BY <1>1, <1>2, <1>3, <1>6

\* A frame's node has been looked at, or its children are to be.
LEMMA FramesKept ==
  ASSUME NEW t, TreeOK(t), NEW fr \in Seq([node : DOMAIN t.nodes, done : BOOLEAN]), fr # <<>>
  PROVE  /\ Last(fr).node \in DOMAIN t.nodes
         /\ Front(fr) \in Seq([node : DOMAIN t.nodes, done : BOOLEAN])
         /\ Front(fr) \o <<[node |-> Last(fr).node, done |-> TRUE]>> \o FreshOf(t, Last(fr).node)
              \in Seq([node : DOMAIN t.nodes, done : BOOLEAN])
  <1>1. PICK D, V : D = DOMAIN t.nodes /\ V = [node : D, done : BOOLEAN]
    OBVIOUS
  <1>2. fr \in Seq(V)
    BY <1>1
  <1>3. Last(fr) \in V /\ Front(fr) \in Seq(V)
    BY <1>2, TopFacts
  <1>4. PICK n : n = Last(fr).node
    OBVIOUS
  <1>5. n \in D
    BY <1>1, <1>3, <1>4
  <1>6. \A i \in DOMAIN KidsOf(t, n) : KidsOf(t, n)[i] \in D
    BY <1>1, <1>5, TreeFacts
  <1>7. FreshOf(t, n) \in Seq([node : D, done : BOOLEAN])
    BY <1>1, <1>5, <1>6, FreshFacts
  <1>8. PICK one, f : one = [node |-> n, done |-> TRUE] /\ f = FreshOf(t, n)
    OBVIOUS
  <1>9. one \in V /\ f \in Seq(V)
    BY <1>1, <1>5, <1>7, <1>8
  <1>10. Front(fr) \o <<one>> \o f \in Seq(V)
    BY <1>3, <1>9
  <1> QED
    BY <1>1, <1>3, <1>4, <1>5, <1>8, <1>10

LEMMA OpsTypedStep ==
  ASSUME Chosen, OpsTyped, [OpsNext]_<<readVars, opsVars>>
  PROVE  OpsTyped'
  <1>1. PICK r, D, V : r = job /\ D = DOMAIN r.tree.nodes /\ V = [node : D, done : BOOLEAN]
    OBVIOUS
  <1>2. job' = r /\ TreeOK(r.tree)
    BY <1>1, JobStays, ReadingsAssumption DEF Chosen, ReadingOK
  <1>3. OpsShape(r, path, move, seen, here, frames, changed, phase)
    BY <1>1 DEF OpsTyped
  <1>4. SUFFICES OpsShape(r, path', move', seen', here', frames', changed', phase')
    BY <1>2 DEF OpsTyped
  <1>5. CASE UNCHANGED <<readVars, opsVars>>
    BY <1>3, <1>5 DEF readVars, opsVars
  <1>6. CASE GotoFirstChild \/ GotoNextSibling \/ GotoParent \/ WalkEnds
    <2>1. /\ phase = "walk" /\ phase' \in {"walk", "done"}
          /\ here' = here /\ frames' = frames /\ changed' = changed
      BY <1>6 DEF GotoFirstChild, GotoNextSibling, GotoParent, WalkEnds, readVars, opsVars
    <2> QED
      BY <1>3, <2>1 DEF OpsShape
  <1>7. CASE FindBelow
    <2>1. /\ phase = "find" /\ phase' = "find" /\ Holders # {}
          /\ here' = Kids(here)[Min(Holders)]
          /\ path' = path /\ move' = move /\ seen' = seen /\ frames' = frames /\ changed' = changed
      BY <1>7 DEF FindBelow, readVars
    <2>2. here \in DOMAIN r.tree.nodes
      BY <1>3, <2>1 DEF OpsShape
    <2>3. HoldersOf(r, here) # {} /\ here' = KidsOf(r.tree, here)[Min(HoldersOf(r, here))]
      BY <1>1, <2>1, Named, NamedFind
    <2>4. here' \in DOMAIN r.tree.nodes
      BY <1>2, <2>2, <2>3, HolderFacts
    <2> QED
      BY <1>3, <2>1, <2>4 DEF OpsShape
  <1>8. CASE FindEnds
    <2>1. /\ phase = "find" /\ phase' = "done" /\ (here' = here \/ here' = 0)
          /\ path' = path /\ move' = move /\ seen' = seen /\ frames' = frames /\ changed' = changed
      BY <1>8 DEF FindEnds
    <2> QED
      BY <1>3, <2>1 DEF OpsShape
  <1>9. CASE MarkSkip \/ MarkBelow \/ MarkNode
    <2>1. /\ phase = "mark" /\ phase' = "mark" /\ frames # <<>>
          /\ path' = path /\ move' = move /\ seen' = seen /\ here' = here
      BY <1>9 DEF MarkSkip, MarkBelow, MarkNode, Marking, readVars
    <2>2. frames \in Seq(V)
      BY <1>1, <1>3 DEF OpsShape
    <2>3. /\ Last(frames).node \in D
          /\ Front(frames) \in Seq(V)
          /\ Front(frames) \o <<[node |-> Last(frames).node, done |-> TRUE]>>
               \o FreshOf(r.tree, Last(frames).node) \in Seq(V)
      BY <1>1, <1>2, <2>1, <2>2, FramesKept
    <2>4. \/ frames' = Front(frames)
          \/ frames' = Front(frames) \o <<[node |-> Last(frames).node, done |-> TRUE]>>
                         \o FreshOf(r.tree, Last(frames).node)
      BY <1>1, <1>9, Named DEF MarkSkip, MarkBelow, MarkNode, Top
    <2>5. frames' \in Seq(V)
      BY <2>3, <2>4
    <2>6. changed' = changed \/ changed' = changed \cup {Last(frames).node}
      BY <1>9 DEF MarkSkip, MarkBelow, MarkNode, Top
    <2>7. changed' \subseteq D
      BY <1>1, <1>3, <2>3, <2>6 DEF OpsShape
    <2> QED
      BY <1>1, <1>3, <2>1, <2>5, <2>7 DEF OpsShape
  <1>10. CASE MarkEnds
    <2>1. /\ phase = "mark" /\ phase' = "done"
          /\ path' = path /\ move' = move /\ seen' = seen /\ here' = here /\ frames' = frames /\ changed' = changed
      BY <1>10 DEF MarkEnds, opsVars
    <2> QED
      BY <1>3, <2>1 DEF OpsShape
  <1> QED
    BY <1>5, <1>6, <1>7, <1>8, <1>9, <1>10 DEF OpsNext

\* Who asks no query keeps the state of a query as it was.
Untouched ==
  ~Querying => /\ phase \notin QueryPhases
               /\ stack = <<>> /\ nextPat = 1 /\ back = FALSE /\ ranges = <<>>

TypeInv == ReaderInv /\ WalkInv /\ OpsTyped /\ Untouched

LEMMA TypeFirst ==
  ASSUME Init
  PROVE  TypeInv
  <1>1. ReaderInv
    BY ReaderFirst
  <1>2. Chosen /\ phase = Phase(job.task) /\ OpsInit /\ QueryInit
    BY <1>1 DEF Init, ReaderInv
  <1>3. WalkInv /\ OpsTyped
    BY <1>2, WalkInit, OpsFirst
  <1>4. ~Querying => phase \notin QueryPhases
    <2>1. job.task \in {"walk", "find", "mark", "query", "highlight"}
      BY <1>2, ReadingsAssumption DEF Chosen, ReadingOK
    <2> QED
      BY <1>2, <2>1 DEF Querying, Phase, QueryPhases
  <1>5. phase # "compile" => stack = <<>>
    BY <1>2 DEF QueryInit
  <1>6. nextPat = 1 /\ back = FALSE /\ ranges = <<>>
    BY <1>2 DEF QueryInit
  <1>7. Untouched
    BY <1>4, <1>5, <1>6 DEF Untouched, QueryPhases
  <1> QED
    BY <1>1, <1>3, <1>7 DEF TypeInv

LEMMA TypeStep ==
  ASSUME TypeInv, [Next]_vars
  PROVE  TypeInv'
  <1>1. ReaderInv /\ Chosen /\ WalkInv /\ OpsTyped /\ Untouched
    BY DEF TypeInv, ReaderInv
  <1>2. ReaderInv'
    BY <1>1, ReaderKeeps
  <1>3. job' = job
    BY ReaderStep
  <1>4. CASE OpsNext /\ UNCHANGED queryVars
    <2>1. [OpsNext]_<<readVars, opsVars>>
      BY <1>4
    <2>2. WalkInv' /\ OpsTyped'
      BY <1>1, <2>1, WalkStep, OpsTypedStep
    <2>3. /\ stack' = stack /\ nextPat' = nextPat /\ back' = back /\ ranges' = ranges
      BY <1>4 DEF queryVars, walkVars
    <2>4. phase' = phase \/ phase' = "done"
      BY <1>4 DEF OpsNext, GotoFirstChild, GotoNextSibling, GotoParent, WalkEnds, FindBelow, FindEnds,
                  MarkSkip, MarkBelow, MarkNode, MarkEnds, Marking, readVars
    <2>5. Untouched'
      BY <1>1, <1>3, <2>3, <2>4 DEF Untouched, Querying, QueryPhases
    <2> QED
      BY <1>2, <2>2, <2>5 DEF TypeInv
  <1>5. CASE QueryNext /\ UNCHANGED opsVars
    <2>1. phase \in QueryPhases
      BY <1>5, QueryPhased
    <2>2. Querying
      BY <1>1, <2>1 DEF Untouched
    <2>3. Untouched' /\ WalkInv'
      BY <1>3, <2>2 DEF Untouched, WalkInv, Querying
    <2>4. QueryInv'
      BY <1>2 DEF ReaderInv
    <2>5. phase' \in {"compile", "refused", "query", "resolve", "done"}
      BY <1>3, <2>2, <2>4 DEF QueryInv, QueryShape, Querying
    <2>6. /\ path' = path /\ move' = move /\ seen' = seen
          /\ here' = here /\ frames' = frames /\ changed' = changed
      BY <1>5 DEF opsVars
    <2>7. OpsShape(job, path, move, seen, here, frames, changed, phase)
      BY <1>1 DEF OpsTyped
    <2>8. OpsShape(job, path', move', seen', here', frames', changed', phase')
      BY <2>2, <2>5, <2>6, <2>7 DEF OpsShape, Querying
    <2>9. OpsTyped'
      BY <1>3, <2>8 DEF OpsTyped
    <2> QED
      BY <1>2, <2>3, <2>9 DEF TypeInv
  <1>6. CASE UNCHANGED vars
    <2>1. UNCHANGED <<readVars, opsVars>> /\ UNCHANGED queryVars
      BY <1>6 DEF vars
    <2>2. [OpsNext]_<<readVars, opsVars>>
      BY <2>1
    <2>3. WalkInv' /\ OpsTyped'
      BY <1>1, <2>2, WalkStep, OpsTypedStep
    <2>4. Untouched'
      BY <1>1, <2>1 DEF Untouched, Querying, readVars, queryVars, walkVars
    <2> QED
      BY <1>2, <2>3, <2>4 DEF TypeInv
  <1> QED
    BY <1>4, <1>5, <1>6 DEF Next

LEMMA OpsWell ==
  ASSUME TypeInv
  PROVE  OpsTypeOK
  <1>1. PICK r, D : r = job /\ D = DOMAIN r.tree.nodes
    OBVIOUS
  <1>2. Chosen /\ WalkInv /\ OpsShape(r, path, move, seen, here, frames, changed, phase)
    BY <1>1 DEF TypeInv, ReaderInv, OpsTyped
  <1>3. D = DOMAIN Nodes
    BY <1>1, Named
  <1>4. path \in Seq(Nat \ {0}) /\ move \in {"child", "sibling", "parent"} /\ seen \in Seq(D)
    <2>1. CASE r.task = "walk"
      BY <1>1, <1>2, <2>1 DEF WalkInv, WalkShape, Turns
    <2>2. CASE r.task # "walk"
      <3>1. path = <<>> /\ move = "child" /\ seen = <<>>
        BY <1>2, <2>2 DEF OpsShape
      <3>2. <<>> \in Seq(Nat \ {0}) /\ <<>> \in Seq(D)
        OBVIOUS
      <3> QED
        BY <3>1, <3>2
    <2> QED
      BY <2>1, <2>2
  <1>5. /\ job.task \in {"walk", "find", "mark"} => phase \in {job.task, "done"}
        /\ here \in D \cup {0}
        /\ frames \in Seq([node : D, done : BOOLEAN])
        /\ changed \subseteq D
    BY <1>1, <1>2 DEF OpsShape
  <1> QED
    BY <1>3, <1>4, <1>5 DEF OpsTypeOK

\* What is laid never ends before it starts.
LEMMA RangesWell ==
  ASSUME Querying, LayInv, phase \in {"compile", "refused", "query", "resolve", "done"}
  PROVE  \A i \in DOMAIN ranges : ranges[i].start <= ranges[i].end
  <1>1. PICK U : U = Names(job)
    OBVIOUS
  <1>2. LayShape(job, queries, matches, entries, ranges, phase)
    BY DEF LayInv
  <1>3. ranges = <<>> \/ ranges \in Seq(Spanning(U))
    <2>1. CASE phase \in {"compile", "refused", "query"}
      BY <1>2, <2>1 DEF LayShape
    <2>2. CASE phase = "resolve"
      BY <1>1, <1>2, <2>2 DEF LayShape, LayingAt
    <2>3. CASE phase = "done" /\ job.task = "query"
      BY <1>2, <2>3 DEF LayShape
    <2>4. CASE phase = "done" /\ job.task = "highlight"
      BY <1>1, <1>2, <2>4 DEF LayShape
    <2> QED
      BY <2>1, <2>2, <2>3, <2>4 DEF Querying
  <1>4. CASE ranges \in Seq(Spanning(U))
    <2> TAKE i \in DOMAIN ranges
    <2>1. PICK V : V = Spanning(U)
      OBVIOUS
    <2>2. ranges[i] \in V
      BY <1>4, <2>1
    <2> QED
      BY <2>1, <2>2, SpanFacts
  <1> QED
    BY <1>3, <1>4

(***************************************************************************)
(* The readers of a tree keep what they hold in hand in the tree: cursor,  *)
(* search and marking of every frozen tree meet nodes of it only, the      *)
(* stack of a query is a path of it, and no range ends before it starts.   *)
(***************************************************************************)
THEOREM ReadersTyped == Spec => []ReadersTypeOK
  <1>1. Init => TypeInv
    BY TypeFirst
  <1>2. TypeInv /\ [Next]_vars => TypeInv'
    BY TypeStep
  <1>3. TypeInv => ReadersTypeOK
    <2> SUFFICES ASSUME TypeInv PROVE ReadersTypeOK
      OBVIOUS
    <2>1. PICK r, D : r = job /\ D = DOMAIN r.tree.nodes
      OBVIOUS
    <2>2. OpsTypeOK /\ D = DOMAIN Nodes /\ \A n : Kids(n) = KidsOf(r.tree, n)
      BY <2>1, OpsWell, Named
    <2>3. CASE Querying
      <3>1. QueryShape(r, queries, asked, stack, nextPat, back, matches, phase) /\ LayInv /\ Chosen
        BY <2>1, <2>3 DEF TypeInv, ReaderInv, QueryInv
      <3>2. phase \in {"compile", "refused", "query", "resolve", "done"}
        BY <3>1 DEF QueryShape
      <3>3. nextPat \in Nat \ {0} /\ back \in BOOLEAN /\ PathOK(r.tree, stack)
        <4>1. CASE phase \in {"compile", "refused"}
          <5>1. AtStart(r, asked, stack, nextPat, back, matches)
            BY <3>1, <4>1 DEF QueryShape
          <5>2. r.tree.root \in D
            BY <2>1, <3>1, ReadingsAssumption, TreeFacts DEF Chosen, ReadingOK
          <5>3. PathOK(r.tree, <<r.tree.root>>)
            <6>1. PICK root, s : root = r.tree.root /\ s = <<root>>
              OBVIOUS
            <6>2. s \in Seq(D) /\ Len(s) = 1
              BY <5>2, <6>1
            <6>3. 1 .. Len(s) - 1 = {}
              BY <6>2
            <6> QED
              BY <2>1, <6>1, <6>2, <6>3 DEF PathOK
          <5>4. /\ stack = <<r.tree.root>> /\ nextPat = 1 /\ back = FALSE
            BY <5>1 DEF AtStart
          <5>5. nextPat \in Nat \ {0}
            BY <5>4, SMT
          <5>6. back \in BOOLEAN
            BY <5>4, Zenon
          <5> QED
            BY <5>3, <5>4, <5>5, <5>6
        <4>2. CASE phase \in {"query", "resolve", "done"}
          BY <3>1, <4>2 DEF QueryShape, Sound, WalkTyped
        <4> QED
          BY <3>2, <4>1, <4>2
      <3>4. stack \in Seq(D) /\ \A i \in 1 .. Len(stack) - 1 : stack[i + 1] \in ToSet(Kids(stack[i]))
        BY <2>1, <2>2, <3>3 DEF PathOK
      <3>5. \A i \in DOMAIN ranges : ranges[i].start <= ranges[i].end
        BY <2>3, <3>1, <3>2, RangesWell
      <3> QED
        BY <2>2, <3>2, <3>3, <3>4, <3>5 DEF ReadersTypeOK
    <2>4. CASE ~Querying
      <3>1. stack = <<>> /\ nextPat = 1 /\ back = FALSE /\ ranges = <<>>
        BY <2>4 DEF TypeInv, Untouched
      <3>2. job.task \in {"walk", "find", "mark"}
        BY <2>4, ReadingsAssumption DEF TypeInv, ReaderInv, Chosen, ReadingOK, Querying
      <3>3. phase \in {"walk", "find", "mark", "done"}
        BY <2>2, <3>2 DEF OpsTypeOK
      <3>4. stack \in Seq(D) /\ \A i \in 1 .. Len(stack) - 1 : stack[i + 1] \in ToSet(Kids(stack[i]))
        BY <3>1
      <3>5. \A i \in DOMAIN ranges : ranges[i].start <= ranges[i].end
        BY <3>1
      <3>6. nextPat \in Nat \ {0}
        BY <3>1, SMT
      <3>7. back \in BOOLEAN
        BY <3>1, Zenon
      <3> QED
        BY <2>2, <3>3, <3>4, <3>5, <3>6, <3>7 DEF ReadersTypeOK
    <2> QED
      BY <2>3, <2>4
  <1> QED
    BY <1>1, <1>2, <1>3, PTL DEF Spec
=============================================================================
