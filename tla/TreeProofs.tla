------------------------------ MODULE TreeProofs ------------------------------
(***************************************************************************)
(* Proofs about the operations of a frozen tree: what a cursor meets, what *)
(* node_at_byte answers and what mark_edit_range marks, for every tree,    *)
(* with and without shared subtrees.                                       *)
(***************************************************************************)
EXTENDS TreeReaders, SequenceLemmas

-------------------------------------------------------------------------------
(***************************************************************************)
(* The walk from the left.                                                 *)
(***************************************************************************)

Under(t, n) == ToSet(Preorder(t)[n])

LEMMA TreeFacts ==
  ASSUME NEW t, TreeOK(t)
  PROVE  /\ Len(t.nodes) \in Nat /\ DOMAIN t.nodes = 1 .. Len(t.nodes)
         /\ t.root \in DOMAIN t.nodes
         /\ \A n \in DOMAIN t.nodes :
              /\ KidsOf(t, n) \in Seq(1 .. n - 1)
              /\ KidsOf(t, n) \in Seq(DOMAIN t.nodes)
              /\ Len(KidsOf(t, n)) \in Nat
              /\ DOMAIN KidsOf(t, n) = 1 .. Len(KidsOf(t, n))
              /\ \A i \in DOMAIN KidsOf(t, n) : KidsOf(t, n)[i] \in 1 .. n - 1
              /\ t.nodes[n].start \in Nat /\ t.nodes[n].end \in Nat
  <1>1. /\ Len(t.nodes) \in Nat /\ DOMAIN t.nodes = 1 .. Len(t.nodes)
        /\ t.root \in DOMAIN t.nodes
    BY DEF TreeOK
  <1>2. ASSUME NEW n \in DOMAIN t.nodes
        PROVE  /\ KidsOf(t, n) \in Seq(1 .. n - 1)
               /\ KidsOf(t, n) \in Seq(DOMAIN t.nodes)
               /\ Len(KidsOf(t, n)) \in Nat
               /\ DOMAIN KidsOf(t, n) = 1 .. Len(KidsOf(t, n))
               /\ \A i \in DOMAIN KidsOf(t, n) : KidsOf(t, n)[i] \in 1 .. n - 1
               /\ t.nodes[n].start \in Nat /\ t.nodes[n].end \in Nat
    <2>1. NodeOK(t, n)
      BY DEF TreeOK
    <2>2. KidsOf(t, n) \in Seq(1 .. n - 1) /\ t.nodes[n].start \in Nat /\ t.nodes[n].end \in Nat
      BY <2>1 DEF NodeOK, KidsOf
    <2>3. 1 .. n - 1 \subseteq DOMAIN t.nodes
      BY <1>1
    <2> DEFINE k == KidsOf(t, n)
               B == 1 .. n - 1
    <2> HIDE DEF k, B
    <2>4. k \in Seq(B) /\ B \subseteq DOMAIN t.nodes
      BY <2>2, <2>3 DEF k, B
    <2>5. k \in Seq(DOMAIN t.nodes) /\ Len(k) \in Nat /\ DOMAIN k = 1 .. Len(k)
      BY <2>4
    <2>6. \A i \in DOMAIN k : k[i] \in B
      BY <2>4
    <2> QED
      BY <2>2, <2>5, <2>6 DEF k, B
  <1> QED
    BY <1>1, <1>2

\* The nodes of a subtree whose root is n, from those of its children.
Joint(t, n, f) == <<n>> \o FlattenSeq([i \in DOMAIN KidsOf(t, n) |-> f[KidsOf(t, n)[i]]])
Walks(f, t, m) ==
  f \in [1 .. m -> Seq(1 .. m)] /\ \A n \in 1 .. m : f[n] = Joint(t, n, f)

Gathers(t, n, f) ==
  ToSet(Joint(t, n, f)) = {n} \cup UNION {ToSet(f[KidsOf(t, n)[i]]) : i \in DOMAIN KidsOf(t, n)}

LEMMA JointTyped ==
  ASSUME NEW t, TreeOK(t), NEW S, NEW n \in S, n \in DOMAIN t.nodes, NEW f,
         \A i \in DOMAIN KidsOf(t, n) : f[KidsOf(t, n)[i]] \in Seq(S)
  PROVE  /\ [i \in DOMAIN KidsOf(t, n) |-> f[KidsOf(t, n)[i]]] \in Seq(Seq(S))
         /\ Joint(t, n, f) \in Seq(S)
         /\ Gathers(t, n, f)
  <1> DEFINE kids == KidsOf(t, n)
             below == [i \in DOMAIN kids |-> f[kids[i]]]
             V == Seq(S)
  <1>1. Len(kids) \in Nat /\ DOMAIN kids = 1 .. Len(kids)
    BY TreeFacts
  <1>2. below \in Seq(V)
    <2>1. below \in [1 .. Len(kids) -> V]
      BY <1>1
    <2> HIDE DEF V, below
    <2> QED
      BY <1>1, <2>1
  <1>3. DOMAIN below = DOMAIN kids /\ \A i \in DOMAIN kids : below[i] = f[kids[i]]
    OBVIOUS
  <1>4. Joint(t, n, f) = <<n>> \o FlattenSeq(below)
    BY DEF Joint
  <1> HIDE DEF below, kids
  <1>5. /\ FlattenSeq(below) \in Seq(S)
        /\ ToSet(FlattenSeq(below)) = UNION {ToSet(below[i]) : i \in DOMAIN below}
    BY <1>2, FlattenFacts
  <1>6. <<n>> \in Seq(S) /\ ToSet(<<n>>) = {n}
    BY DEF ToSet
  <1>7. /\ <<n>> \o FlattenSeq(below) \in Seq(S)
        /\ ToSet(<<n>> \o FlattenSeq(below)) = ToSet(<<n>>) \cup ToSet(FlattenSeq(below))
    BY <1>5, <1>6, Joined
  <1>8. ToSet(FlattenSeq(below)) = UNION {ToSet(f[kids[i]]) : i \in DOMAIN kids}
    BY <1>3, <1>5
  <1> QED
    BY <1>2, <1>4, <1>6, <1>7, <1>8 DEF Gathers, below, kids

\* There is such a function, since children stand before their parents.
LEMMA WalksExist ==
  ASSUME NEW t, TreeOK(t)
  PROVE  \E f : Walks(f, t, Len(t.nodes))
  <1> DEFINE N == Len(t.nodes)
             S == {m \in 0 .. N : \E f : Walks(f, t, m)}
  <1>0. N \in Nat /\ DOMAIN t.nodes = 1 .. N
    BY TreeFacts
  <1>1. 0 \in S
    <2>1. Walks(<<>>, t, 0)
      <3>1. <<>> \in [1 .. 0 -> Seq(1 .. 0)] /\ 1 .. 0 = {}
        OBVIOUS
      <3> QED
        BY <3>1 DEF Walks
    <2> QED
      BY <1>0, <2>1
  <1>2. ASSUME NEW m \in 1 .. N, m - 1 \in S
        PROVE  m \in S
    <2>1. PICK f : Walks(f, t, m - 1)
      BY <1>2
    <2>2. /\ f \in [1 .. m - 1 -> Seq(1 .. m - 1)]
          /\ \A n \in 1 .. m - 1 : f[n] = Joint(t, n, f)
      BY <2>1 DEF Walks
    <2> DEFINE g == [n \in 1 .. m |-> IF n = m THEN Joint(t, m, f) ELSE f[n]]
    <2>3. \A n \in 1 .. m : /\ n \in DOMAIN t.nodes
                            /\ \A i \in DOMAIN KidsOf(t, n) : KidsOf(t, n)[i] \in 1 .. n - 1
      BY <1>0, TreeFacts
    <2>4. \A n \in 1 .. m - 1 : f[n] \in Seq(1 .. m)
      <3>1. Seq(1 .. m - 1) \subseteq Seq(1 .. m)
        OBVIOUS
      <3> QED
        BY <2>2, <3>1
    <2>5. \A n \in 1 .. m : \A i \in DOMAIN KidsOf(t, n) :
            KidsOf(t, n)[i] \in 1 .. m - 1 /\ g[KidsOf(t, n)[i]] = f[KidsOf(t, n)[i]]
      BY <2>3
    <2>6. \A n \in 1 .. m : Joint(t, n, g) = Joint(t, n, f)
      <3> TAKE n \in 1 .. m
      <3>1. [i \in DOMAIN KidsOf(t, n) |-> g[KidsOf(t, n)[i]]]
              = [i \in DOMAIN KidsOf(t, n) |-> f[KidsOf(t, n)[i]]]
        <4> HIDE DEF g
        <4> QED
          BY <2>5
      <3> QED
        BY <3>1 DEF Joint
    <2>7. Joint(t, m, f) \in Seq(1 .. m)
      <3>1. m \in 1 .. m /\ m \in DOMAIN t.nodes
        BY <1>0
      <3>2. \A i \in DOMAIN KidsOf(t, m) : f[KidsOf(t, m)[i]] \in Seq(1 .. m)
        BY <2>4, <2>5, <3>1
      <3> QED
        BY <3>1, <3>2, JointTyped
    <2>8. g \in [1 .. m -> Seq(1 .. m)]
      <3> HIDE DEF Joint
      <3> QED
        BY <2>4, <2>7
    <2>9. \A n \in 1 .. m : g[n] = Joint(t, n, g)
      <3> TAKE n \in 1 .. m
      <3>1. g[n] = Joint(t, n, f)
        BY <2>2
      <3> QED
        BY <2>6, <3>1
    <2> HIDE DEF g
    <2>10. Walks(g, t, m)
      BY <2>8, <2>9 DEF Walks
    <2> QED
      BY <2>10
  <1> HIDE DEF S, N
  <1>3. \A m \in 0 .. N : m \in S
    BY <1>0, <1>1, <1>2, UpTo
  <1>4. N \in S
    BY <1>0, <1>3
  <1> QED
    BY <1>4 DEF S, N

\* What Preorder is, and the nodes below a node.
LEMMA PreorderFacts ==
  ASSUME NEW t, TreeOK(t), NEW n \in DOMAIN t.nodes
  PROVE  /\ Preorder(t)[n] \in Seq(DOMAIN t.nodes)
         /\ Preorder(t)[n] = Joint(t, n, Preorder(t))
         /\ Under(t, n) \subseteq 1 .. n
         /\ Under(t, n) = {n} \cup UNION {Under(t, KidsOf(t, n)[i]) : i \in DOMAIN KidsOf(t, n)}
  <1> DEFINE N == Len(t.nodes)
             D == DOMAIN t.nodes
             Fixed(f) == f = [m \in D |-> Joint(t, m, f)]
             pre == CHOOSE f : Fixed(f)
  <1>1. N \in Nat /\ D = 1 .. N
    BY TreeFacts
  <1>2. \E f : Fixed(f)
    <2>1. PICK f : Walks(f, t, N)
      BY WalksExist
    <2>2. f \in [1 .. N -> Seq(1 .. N)] /\ \A m \in 1 .. N : f[m] = Joint(t, m, f)
      BY <2>1 DEF Walks
    <2>3. f = [m \in 1 .. N |-> f[m]]
      BY <2>2
    <2>4. Fixed(f)
      BY <1>1, <2>2, <2>3
    <2> QED
      BY <2>4
  <1>3. Preorder(t) = pre
    BY DEF Preorder, Joint, KidsOf
  <1>4. Fixed(pre)
    BY <1>2
  <1> HIDE DEF pre
  <1>5. \A m \in D : Preorder(t)[m] = Joint(t, m, Preorder(t))
    <2>1. \A m \in D : pre[m] = Joint(t, m, pre)
      BY <1>4
    <2> QED
      BY <1>3, <2>1
  <1> DEFINE S == {k \in 0 .. N : \A m \in 1 .. k : Preorder(t)[m] \in Seq(1 .. m)}
  <1>6. 0 \in S
    BY <1>1
  <1>7. ASSUME NEW k \in 1 .. N, k - 1 \in S
        PROVE  k \in S
    <2>1. \A m \in 1 .. k - 1 : Preorder(t)[m] \in Seq(1 .. k)
      <3> TAKE m \in 1 .. k - 1
      <3>1. Seq(1 .. m) \subseteq Seq(1 .. k)
        OBVIOUS
      <3> QED
        BY <1>7, <3>1
    <2>2. k \in 1 .. k /\ k \in DOMAIN t.nodes
      BY <1>1
    <2>3. \A i \in DOMAIN KidsOf(t, k) : Preorder(t)[KidsOf(t, k)[i]] \in Seq(1 .. k)
      BY <2>1, <2>2, TreeFacts
    <2>4. Joint(t, k, Preorder(t)) \in Seq(1 .. k)
      BY <2>2, <2>3, JointTyped
    <2>5. Preorder(t)[k] \in Seq(1 .. k)
      BY <1>5, <2>2, <2>4
    <2>6. \A m \in 1 .. k : m \in 1 .. k - 1 \/ m = k
      OBVIOUS
    <2>7. \A m \in 1 .. k : Preorder(t)[m] \in Seq(1 .. m)
      BY <1>7, <2>5, <2>6
    <2> QED
      BY <1>1, <2>7
  <1> HIDE DEF S
  <1>8. \A k \in 0 .. N : k \in S
    <2> HIDE DEF N
    <2> QED
      BY <1>1, <1>6, <1>7, UpTo
  <1>9. \A m \in D : Preorder(t)[m] \in Seq(1 .. m)
    BY <1>1, <1>8 DEF S
  <1>10. Preorder(t)[n] \in Seq(D)
    <2>1. Seq(1 .. n) \subseteq Seq(D)
      BY <1>1
    <2> QED
      BY <1>9, <2>1
  <1>11. Under(t, n) \subseteq 1 .. n
    <2>1. Preorder(t)[n] \in Seq(1 .. n)
      BY <1>9
    <2> DEFINE s == Preorder(t)[n]
               B == 1 .. n
    <2> HIDE DEF s, B
    <2>2. ToSet(s) \subseteq B
      <3>1. s \in Seq(B)
        BY <2>1 DEF s, B
      <3> QED
        BY <3>1 DEF ToSet
    <2> QED
      BY <2>2 DEF Under, s, B
  <1>12. Under(t, n) = {n} \cup UNION {Under(t, KidsOf(t, n)[i]) : i \in DOMAIN KidsOf(t, n)}
    <2>1. \A i \in DOMAIN KidsOf(t, n) : Preorder(t)[KidsOf(t, n)[i]] \in Seq(D)
      <3> TAKE i \in DOMAIN KidsOf(t, n)
      <3>1. KidsOf(t, n)[i] \in D
        <4>1. KidsOf(t, n)[i] \in 1 .. n - 1 /\ n \in 1 .. N
          BY <1>1, TreeFacts
        <4> QED
          BY <1>1, <4>1
      <3>2. Preorder(t)[KidsOf(t, n)[i]] \in Seq(1 .. KidsOf(t, n)[i])
        BY <1>9, <3>1
      <3>3. Seq(1 .. KidsOf(t, n)[i]) \subseteq Seq(D)
        BY <1>1, <3>1
      <3> QED
        BY <3>2, <3>3
    <2>2. Gathers(t, n, Preorder(t))
      <3> HIDE DEF D
      <3>1. n \in D /\ n \in DOMAIN t.nodes
        BY DEF D
      <3> QED
        BY <2>1, <3>1, JointTyped
    <2> QED
      BY <1>5, <2>2 DEF Under, Gathers
  <1> QED
    BY <1>5, <1>10, <1>11, <1>12

\* What is below a node below n is below n.
LEMMA UnderFacts ==
  ASSUME NEW t, TreeOK(t), NEW n \in DOMAIN t.nodes
  PROVE  /\ n \in Under(t, n) /\ Under(t, n) \subseteq DOMAIN t.nodes
         /\ \A i \in DOMAIN KidsOf(t, n) :
              /\ KidsOf(t, n)[i] \in DOMAIN t.nodes /\ KidsOf(t, n)[i] \in Under(t, n)
              /\ Under(t, KidsOf(t, n)[i]) \subseteq Under(t, n)
         /\ \A m \in Under(t, n) : Under(t, m) \subseteq Under(t, n)
  <1> DEFINE N == Len(t.nodes)
             D == DOMAIN t.nodes
             Sub(a) == \A m \in Under(t, a) : Under(t, m) \subseteq Under(t, a)
             S == {k \in 0 .. N : \A a \in 1 .. k : Sub(a)}
  <1>1. N \in Nat /\ D = 1 .. N
    BY TreeFacts
  <1>2. ASSUME NEW a \in D
        PROVE  /\ a \in Under(t, a) /\ Under(t, a) \subseteq D
               /\ \A i \in DOMAIN KidsOf(t, a) :
                    /\ KidsOf(t, a)[i] \in 1 .. a - 1
                    /\ KidsOf(t, a)[i] \in D
                    /\ KidsOf(t, a)[i] \in Under(t, a)
                    /\ Under(t, KidsOf(t, a)[i]) \subseteq Under(t, a)
               /\ \A m \in Under(t, a) :
                    m = a \/ \E i \in DOMAIN KidsOf(t, a) : m \in Under(t, KidsOf(t, a)[i])
    <2>1. /\ Under(t, a) \subseteq 1 .. a
          /\ Under(t, a) = {a} \cup UNION {Under(t, KidsOf(t, a)[i]) : i \in DOMAIN KidsOf(t, a)}
      BY PreorderFacts
    <2>2. \A i \in DOMAIN KidsOf(t, a) : KidsOf(t, a)[i] \in 1 .. a - 1
      BY TreeFacts
    <2>3. 1 .. a \subseteq D /\ 1 .. a - 1 \subseteq D
      BY <1>1
    <2>4. \A i \in DOMAIN KidsOf(t, a) : KidsOf(t, a)[i] \in D
      BY <2>2, <2>3
    <2>5. \A i \in DOMAIN KidsOf(t, a) : KidsOf(t, a)[i] \in Under(t, KidsOf(t, a)[i])
      BY <2>4, PreorderFacts
    <2> QED
      BY <2>1, <2>2, <2>3, <2>4, <2>5
  <1>3. 0 \in S
    BY <1>1
  <1>4. ASSUME NEW k \in 1 .. N, k - 1 \in S
        PROVE  k \in S
    <2>1. \A a \in 1 .. k - 1 : Sub(a)
      BY <1>4
    <2>2. k \in D
      BY <1>1
    <2>3. Sub(k)
      <3> HIDE DEF D
      <3> SUFFICES ASSUME NEW m \in Under(t, k) PROVE Under(t, m) \subseteq Under(t, k)
        OBVIOUS
      <3>1. CASE m = k
        BY <3>1
      <3>2. CASE \E i \in DOMAIN KidsOf(t, k) : m \in Under(t, KidsOf(t, k)[i])
        <4>1. PICK i \in DOMAIN KidsOf(t, k) : m \in Under(t, KidsOf(t, k)[i])
          BY <3>2
        <4>2. /\ KidsOf(t, k)[i] \in 1 .. k - 1
              /\ Under(t, KidsOf(t, k)[i]) \subseteq Under(t, k)
          BY <1>2, <2>2
        <4>3. Under(t, m) \subseteq Under(t, KidsOf(t, k)[i])
          BY <2>1, <4>1, <4>2
        <4> QED
          BY <4>2, <4>3
      <3> QED
        BY <1>2, <2>2, <3>1, <3>2
    <2> HIDE DEF Sub
    <2>4. \A a \in 1 .. k : a \in 1 .. k - 1 \/ a = k
      OBVIOUS
    <2> QED
      BY <1>1, <2>1, <2>3, <2>4
  <1> HIDE DEF S
  <1>5. \A k \in 0 .. N : k \in S
    <2> HIDE DEF N
    <2> QED
      BY <1>1, <1>3, <1>4, UpTo
  <1>6. Sub(n)
    <2>1. N \in S /\ n \in 1 .. N
      BY <1>1, <1>5
    <2> QED
      BY <2>1 DEF S
  <1> QED
    BY <1>2, <1>6

-------------------------------------------------------------------------------
(***************************************************************************)
(* Spans that hold those of the children.                                  *)
(***************************************************************************)

NestedIn(t) ==
  \A n \in Under(t, t.root) : \A i \in DOMAIN KidsOf(t, n) :
    LET c == KidsOf(t, n)[i] IN
      t.nodes[n].start <= t.nodes[c].start /\ t.nodes[c].end <= t.nodes[n].end

Spans(t, n, m) == t.nodes[n].start <= t.nodes[m].start /\ t.nodes[m].end <= t.nodes[n].end

LEMMA NestedFacts ==
  ASSUME NEW t, TreeOK(t), NestedIn(t), NEW n \in Under(t, t.root), NEW m \in Under(t, n)
  PROVE  n \in DOMAIN t.nodes /\ m \in DOMAIN t.nodes /\ Spans(t, n, m)
  <1> DEFINE N == Len(t.nodes)
             D == DOMAIN t.nodes
             R == Under(t, t.root)
             Wide(a) == a \in R => \A b \in Under(t, a) : Spans(t, a, b)
             S == {k \in 0 .. N : \A a \in 1 .. k : Wide(a)}
  <1>1. N \in Nat /\ D = 1 .. N /\ t.root \in D
    BY TreeFacts
  <1>2. R \subseteq D /\ \A a \in R : Under(t, a) \subseteq R
    BY <1>1, UnderFacts
  <1>3. \A a \in D : t.nodes[a].start \in Nat /\ t.nodes[a].end \in Nat
    BY TreeFacts
  <1>4. 0 \in S
    BY <1>1
  <1>5. ASSUME NEW k \in 1 .. N, k - 1 \in S
        PROVE  k \in S
    <2>1. \A a \in 1 .. k - 1 : Wide(a)
      BY <1>5
    <2>2. k \in D
      BY <1>1
    <2>3. Wide(k)
      <3> SUFFICES ASSUME k \in R, NEW b \in Under(t, k) PROVE Spans(t, k, b)
        OBVIOUS
      <3> HIDE DEF D
      <3>1. CASE b = k
        BY <1>3, <2>2, <3>1 DEF Spans
      <3>2. CASE \E i \in DOMAIN KidsOf(t, k) : b \in Under(t, KidsOf(t, k)[i])
        <4>1. PICK i \in DOMAIN KidsOf(t, k) : b \in Under(t, KidsOf(t, k)[i])
          BY <3>2
        <4>2. PICK c : c = KidsOf(t, k)[i]
          OBVIOUS
        <4>3. c \in 1 .. k - 1
          BY <2>2, <4>2, TreeFacts DEF D
        <4>4. c \in R /\ b \in R
          <5>1. c \in Under(t, k)
            BY <2>2, <4>2, UnderFacts DEF D
          <5> QED
            BY <1>2, <5>1
        <4>5. Spans(t, c, b)
          BY <2>1, <4>1, <4>2, <4>3, <4>4
        <4>6. Spans(t, k, c)
          BY <4>2 DEF NestedIn, Spans
        <4>7. /\ t.nodes[k].start \in Nat /\ t.nodes[k].end \in Nat
              /\ t.nodes[c].start \in Nat /\ t.nodes[c].end \in Nat
              /\ t.nodes[b].start \in Nat /\ t.nodes[b].end \in Nat
          BY <1>2, <1>3, <2>2, <4>4
        <4>8. \A x, y, z \in Nat : x <= y /\ y <= z => x <= z
          OBVIOUS
        <4>9. t.nodes[k].start <= t.nodes[b].start
          BY <4>5, <4>6, <4>7, <4>8, Zenon DEF Spans
        <4>10. t.nodes[b].end <= t.nodes[k].end
          BY <4>5, <4>6, <4>7, <4>8, Zenon DEF Spans
        <4> QED
          BY <4>9, <4>10 DEF Spans
      <3>3. b = k \/ \E i \in DOMAIN KidsOf(t, k) : b \in Under(t, KidsOf(t, k)[i])
        <4>1. Under(t, k) = {k} \cup UNION {Under(t, KidsOf(t, k)[i]) : i \in DOMAIN KidsOf(t, k)}
          BY <2>2, PreorderFacts DEF D
        <4> QED
          BY <4>1
      <3> QED
        BY <3>1, <3>2, <3>3
    <2> HIDE DEF Wide
    <2>4. \A a \in 1 .. k : a \in 1 .. k - 1 \/ a = k
      OBVIOUS
    <2> QED
      BY <1>1, <2>1, <2>3, <2>4
  <1> HIDE DEF S
  <1>6. \A k \in 0 .. N : k \in S
    <2> HIDE DEF N
    <2> QED
      BY <1>1, <1>4, <1>5, UpTo
  <1>7. Wide(n)
    <2>1. N \in S /\ n \in 1 .. N
      BY <1>1, <1>2, <1>6
    <2> QED
      BY <2>1 DEF S
  <1> QED
    BY <1>2, <1>7

-------------------------------------------------------------------------------
(***************************************************************************)
(* mark_range_inner.  Every node that overlaps the edit is marked, or some *)
(* frame still leads to it.                                                *)
(***************************************************************************)

Inside(r) == Under(r.tree, r.tree.root)
Overlaps(r, n) == r.tree.nodes[n].start < r.to /\ r.tree.nodes[n].end > r.from
Hits(r) == {n \in Inside(r) : Overlaps(r, n)}

FrameSet(r) == [node : Inside(r), done : BOOLEAN]
LeadsTo(t, f, m) == m = f.node \/ (~f.done /\ m \in Under(t, f.node))

MarkShape(r, fr, ch, ph) ==
  /\ ph \in {"mark", "done"}
  /\ fr \in Seq(FrameSet(r))
  /\ ch \subseteq Hits(r)
  /\ \A m \in Hits(r) : m \in ch \/ \E f \in ToSet(fr) : LeadsTo(r.tree, f, m)
  /\ ph = "done" => fr = <<>>

MarkInv == job.task = "mark" /\ Nested => MarkShape(job, frames, changed, phase)

\* A stack is its top and what is below it.
LEMMA TopFacts ==
  ASSUME NEW T, NEW s \in Seq(T), s # <<>>
  PROVE  /\ Last(s) \in T /\ Front(s) \in Seq(T)
         /\ ToSet(s) = ToSet(Front(s)) \cup {Last(s)}
  <1>1. /\ Len(s) \in Nat /\ Len(s) # 0 /\ DOMAIN s = 1 .. Len(s)
        /\ \A i \in DOMAIN s : s[i] \in T
    OBVIOUS
  <1>2. Last(s) = s[Len(s)] /\ Len(s) \in DOMAIN s
    BY <1>1 DEF Last
  <1>3. Front(s) = [i \in 1 .. Len(s) - 1 |-> s[i]]
    <2>1. Front(s) = SubSeq(s, 1, Len(s) - 1)
      BY DEF Front
    <2> QED
      BY <1>1, <2>1
  <1>4. Front(s) \in Seq(T) /\ DOMAIN Front(s) = 1 .. Len(s) - 1
    BY <1>1, <1>3
  <1>5. \A i \in 1 .. Len(s) - 1 : Front(s)[i] = s[i]
    BY <1>3
  <1>6. 1 .. Len(s) = 1 .. Len(s) - 1 \cup {Len(s)}
    BY <1>1
  <1>7. /\ ToSet(s) = {s[i] : i \in 1 .. Len(s)}
        /\ ToSet(Front(s)) = {s[i] : i \in 1 .. Len(s) - 1}
    BY <1>1, <1>4, <1>5 DEF ToSet
  <1> QED
    BY <1>1, <1>2, <1>4, <1>6, <1>7

\* The frames of the children, the first on top.
FreshOf(t, n) ==
  [i \in DOMAIN KidsOf(t, n) |-> [node |-> Reverse(KidsOf(t, n))[i], done |-> FALSE]]

LEMMA FreshFacts ==
  ASSUME NEW t, TreeOK(t), NEW n \in DOMAIN t.nodes, NEW I,
         \A i \in DOMAIN KidsOf(t, n) : KidsOf(t, n)[i] \in I
  PROVE  /\ FreshOf(t, n) \in Seq([node : I, done : BOOLEAN])
         /\ \A i \in DOMAIN KidsOf(t, n) :
              [node |-> KidsOf(t, n)[i], done |-> FALSE] \in ToSet(FreshOf(t, n))
  <1> DEFINE kids == KidsOf(t, n)
             L == Len(kids)
             V == [node : I, done : BOOLEAN]
  <1>1. L \in Nat /\ DOMAIN kids = 1 .. L
    BY TreeFacts
  <1>2. Reverse(kids) = [i \in 1 .. L |-> kids[L - i + 1]]
    BY DEF Reverse
  <1> HIDE DEF kids, L, V
  <1>3. \A i \in 1 .. L : L - i + 1 \in 1 .. L /\ L - (L - i + 1) + 1 = i
    BY <1>1
  <1>4. \A i \in 1 .. L : Reverse(kids)[i] = kids[L - i + 1]
    BY <1>2
  <1>5. FreshOf(t, n) = [i \in 1 .. L |-> [node |-> kids[L - i + 1], done |-> FALSE]]
    <2>1. FreshOf(t, n) = [i \in 1 .. L |-> [node |-> Reverse(kids)[i], done |-> FALSE]]
      BY <1>1 DEF FreshOf, kids
    <2> QED
      BY <1>4, <2>1
  <1>6. \A i \in 1 .. L : [node |-> kids[L - i + 1], done |-> FALSE] \in V
    BY <1>1, <1>3 DEF V, kids
  <1>7. FreshOf(t, n) \in Seq(V)
    <2> DEFINE fresh == [i \in 1 .. L |-> [node |-> kids[L - i + 1], done |-> FALSE]]
    <2>1. fresh \in [1 .. L -> V]
      BY <1>6
    <2> HIDE DEF fresh
    <2>2. fresh \in Seq(V)
      BY <1>1, <2>1
    <2> QED
      BY <1>5, <2>2 DEF fresh
  <1>8. ASSUME NEW i \in DOMAIN kids
        PROVE  [node |-> kids[i], done |-> FALSE] \in ToSet(FreshOf(t, n))
    <2>1. i \in 1 .. L /\ L - i + 1 \in 1 .. L
      BY <1>1, <1>3
    <2>2. FreshOf(t, n)[L - i + 1] = [node |-> kids[i], done |-> FALSE]
      BY <1>3, <1>5, <2>1
    <2>3. DOMAIN FreshOf(t, n) = 1 .. L
      BY <1>5
    <2> QED
      BY <2>1, <2>2, <2>3 DEF ToSet
  <1> QED
    BY <1>7, <1>8 DEF kids, V

\* What each of the three steps on a frame leaves.
LEMMA MarkSteps ==
  ASSUME NEW r, ReadingOK(r), r.task = "mark", NestedIn(r.tree), NEW fr, NEW ch, MarkShape(r, fr, ch, "mark"),
         fr # <<>>, NEW top, top = Last(fr)
  PROVE  /\ top.node \in Inside(r)
         /\ ~Overlaps(r, top.node) => MarkShape(r, Front(fr), ch, "mark")
         /\ ~top.done =>
              MarkShape(r, Front(fr) \o <<[node |-> top.node, done |-> TRUE]>>
                             \o FreshOf(r.tree, top.node), ch, "mark")
         /\ top.done /\ Overlaps(r, top.node) =>
              MarkShape(r, Front(fr), ch \cup {top.node}, "mark")
  <1> DEFINE t == r.tree
             n == top.node
             V == FrameSet(r)
             I == Inside(r)
             D == DOMAIN t.nodes
  <1>1. /\ fr \in Seq(V)
        /\ ch \subseteq Hits(r)
        /\ \A m \in Hits(r) : m \in ch \/ \E f \in ToSet(fr) : LeadsTo(t, f, m)
    BY DEF MarkShape
  <1>2. top \in V /\ Front(fr) \in Seq(V) /\ ToSet(fr) = ToSet(Front(fr)) \cup {top}
    <2> HIDE DEF V
    <2> QED
      BY <1>1, TopFacts
  <1>3. n \in I /\ top.done \in BOOLEAN
    BY <1>2 DEF FrameSet
  <1>4. TreeOK(t)
    BY DEF ReadingOK
  <1>5. t.root \in D
    BY <1>4, TreeFacts
  <1>6. n \in D /\ I \subseteq D /\ Under(t, n) \subseteq I
    <2>1. I = Under(t, t.root)
      BY DEF Inside
    <2> QED
      BY <1>3, <1>4, <1>5, <2>1, UnderFacts
  <1>7. \A m \in Hits(r) : m \in I
    BY DEF Hits
  <1> HIDE DEF t, n, V, I, D
  <1>8. ASSUME ~Overlaps(r, n)
        PROVE  MarkShape(r, Front(fr), ch, "mark")
    <2>1. ASSUME NEW m \in Hits(r), LeadsTo(t, top, m)
          PROVE  FALSE
      <3>1. m \in Under(t, n)
        <4>1. n \in Under(t, n)
          BY <1>4, <1>6, UnderFacts DEF D
        <4> QED
          BY <2>1, <4>1 DEF LeadsTo, n
      <3>2. n \in Under(t, t.root)
        BY <1>3 DEF I, Inside, t
      <3>3. n \in DOMAIN t.nodes /\ m \in DOMAIN t.nodes /\ Spans(t, n, m)
        BY <1>4, <3>1, <3>2, NestedFacts DEF t
      <3>4. /\ t.nodes[n].start \in Nat /\ t.nodes[n].end \in Nat
            /\ t.nodes[m].start \in Nat /\ t.nodes[m].end \in Nat
        BY <1>4, <3>3, TreeFacts
      <3>5. t.nodes[m].start < r.to /\ t.nodes[m].end > r.from
        BY <2>1 DEF Hits, Overlaps, t
      <3>6. CASE r.from \in Nat /\ r.to \in Nat
        <4>1. t.nodes[n].start < r.to
          BY <3>3, <3>4, <3>5, <3>6 DEF Spans
        <4>2. t.nodes[n].end > r.from
          BY <3>3, <3>4, <3>5, <3>6 DEF Spans
        <4> QED
          BY <1>8, <4>1, <4>2 DEF Overlaps, t
      <3>7. r.from \in Nat /\ r.to \in Nat
        BY DEF ReadingOK
      <3> QED
        BY <3>6, <3>7
    <2>2. \A m \in Hits(r) : m \in ch \/ \E f \in ToSet(Front(fr)) : LeadsTo(t, f, m)
      BY <1>1, <1>2, <2>1
    <2> QED
      BY <1>1, <1>2, <2>2 DEF MarkShape, V, t
  <1>9. ASSUME ~top.done
        PROVE  MarkShape(r, Front(fr) \o <<[node |-> n, done |-> TRUE]>> \o FreshOf(t, n), ch, "mark")
    <2> DEFINE again == [node |-> n, done |-> TRUE]
               one == <<again>>
               kids == FreshOf(t, n)
    <2>1. again \in V
      BY <1>3 DEF V, FrameSet, I
    <2>2. \A i \in DOMAIN KidsOf(t, n) : KidsOf(t, n)[i] \in I /\ KidsOf(t, n)[i] \in D
      BY <1>4, <1>6, UnderFacts DEF D
    <2>3. /\ kids \in Seq(V)
          /\ \A i \in DOMAIN KidsOf(t, n) :
               [node |-> KidsOf(t, n)[i], done |-> FALSE] \in ToSet(kids)
      <3>1. V = [node : I, done : BOOLEAN]
        BY DEF V, I, FrameSet
      <3> QED
        BY <1>4, <1>6, <2>2, <3>1, FreshFacts DEF D
    <2> HIDE DEF again, kids
    <2>4. one \in Seq(V) /\ ToSet(one) = {again}
      BY <2>1 DEF ToSet
    <2> HIDE DEF one
    <2>5. Front(fr) \o one \in Seq(V) /\ ToSet(Front(fr) \o one) = ToSet(Front(fr)) \cup {again}
      BY <1>2, <2>4, Joined
    <2> DEFINE new == Front(fr) \o one \o kids
    <2>6. new \in Seq(V) /\ ToSet(new) = ToSet(Front(fr)) \cup {again} \cup ToSet(kids)
      <3>1. PICK base : base = Front(fr) \o one
        OBVIOUS
      <3>2. base \in Seq(V) /\ kids \in Seq(V)
        BY <2>3, <2>5, <3>1
      <3>3. base \o kids \in Seq(V) /\ ToSet(base \o kids) = ToSet(base) \cup ToSet(kids)
        BY <3>2, Joined
      <3> QED
        BY <2>5, <3>1, <3>3
    <2> HIDE DEF new
    <2>7. ASSUME NEW m \in Hits(r), LeadsTo(t, top, m)
          PROVE  \E f \in ToSet(new) : LeadsTo(t, f, m)
      <3>1. CASE m = n
        <4>1. LeadsTo(t, again, m)
          BY <3>1 DEF LeadsTo, again
        <4> QED
          BY <2>6, <4>1
      <3>2. CASE \E i \in DOMAIN KidsOf(t, n) : m \in Under(t, KidsOf(t, n)[i])
        <4>1. PICK i \in DOMAIN KidsOf(t, n) : m \in Under(t, KidsOf(t, n)[i])
          BY <3>2
        <4>2. PICK f : f = [node |-> KidsOf(t, n)[i], done |-> FALSE]
          OBVIOUS
        <4>3. f \in ToSet(new)
          BY <2>3, <2>6, <4>2
        <4>4. f.node = KidsOf(t, n)[i] /\ f.done = FALSE
          BY <4>2
        <4>5. LeadsTo(t, f, m)
          BY <4>1, <4>4 DEF LeadsTo
        <4> QED
          BY <4>3, <4>5
      <3>3. m = n \/ m \in Under(t, n)
        BY <2>7 DEF LeadsTo, n
      <3>4. Under(t, n) = {n} \cup UNION {Under(t, KidsOf(t, n)[i]) : i \in DOMAIN KidsOf(t, n)}
        BY <1>4, <1>6, PreorderFacts DEF D
      <3> QED
        BY <3>1, <3>2, <3>3, <3>4
    <2>8. \A m \in Hits(r) : m \in ch \/ \E f \in ToSet(new) : LeadsTo(t, f, m)
      BY <1>1, <1>2, <2>6, <2>7
    <2>9. MarkShape(r, new, ch, "mark")
      BY <1>1, <2>6, <2>8 DEF MarkShape, V, t
    <2> QED
      BY <2>9 DEF new, one, again, kids
  <1>10. ASSUME top.done, Overlaps(r, n)
         PROVE  MarkShape(r, Front(fr), ch \cup {n}, "mark")
    <2>1. n \in Hits(r)
      BY <1>3, <1>10 DEF Hits, I
    <2>2. \A m \in Hits(r) : LeadsTo(t, top, m) => m = n
      BY <1>10 DEF LeadsTo, n
    <2>3. \A m \in Hits(r) : m \in ch \cup {n} \/ \E f \in ToSet(Front(fr)) : LeadsTo(t, f, m)
      BY <1>1, <1>2, <2>2
    <2> QED
      BY <1>1, <1>2, <2>1, <2>3 DEF MarkShape, V, t
  <1> QED
    BY <1>3, <1>8, <1>9, <1>10 DEF n, t, I

\* The operations of the module, over a tree that is named.
LEMMA Named ==
  /\ Root = job.tree.root /\ Nodes = job.tree.nodes
  /\ \A n : Kids(n) = KidsOf(job.tree, n) /\ Below(n) = Under(job.tree, n)
  /\ \A n : Fresh(n) = FreshOf(job.tree, n)
  /\ Reachable = Inside(job)
  /\ Nested => NestedIn(job.tree)
  <1>1. Root = job.tree.root /\ Nodes = job.tree.nodes
    BY DEF Root, Nodes
  <1>2. \A n : Kids(n) = KidsOf(job.tree, n) /\ Below(n) = Under(job.tree, n)
    BY DEF Kids, Nodes, KidsOf, Below, Under
  <1>3. \A n : Fresh(n) = FreshOf(job.tree, n)
    BY <1>2 DEF Fresh, FreshOf
  <1>4. Reachable = Inside(job)
    BY <1>1, <1>2 DEF Reachable, Inside
  <1>5. ASSUME Nested PROVE NestedIn(job.tree)
    <2>1. \A n \in Under(job.tree, job.tree.root) : \A c \in ToSet(KidsOf(job.tree, n)) :
            /\ job.tree.nodes[n].start <= job.tree.nodes[c].start
            /\ job.tree.nodes[c].end <= job.tree.nodes[n].end
      BY <1>1, <1>2, <1>4, <1>5 DEF Nested, Inside
    <2>2. \A n : \A i \in DOMAIN KidsOf(job.tree, n) :
            KidsOf(job.tree, n)[i] \in ToSet(KidsOf(job.tree, n))
      BY DEF ToSet
    <2> QED
      BY <2>1, <2>2 DEF NestedIn
  <1> QED
    BY <1>1, <1>2, <1>3, <1>4, <1>5

\* The reading is one of those there are, and stays what it is.
Chosen == job \in Readings

LEMMA JobStays ==
  ASSUME [OpsNext]_<<readVars, opsVars>>
  PROVE  job' = job
  BY DEF OpsNext, GotoFirstChild, GotoNextSibling, GotoParent, WalkEnds, FindBelow, FindEnds,
         MarkSkip, MarkBelow, MarkNode, MarkEnds, Marking, readVars

\* The other steps of a reader are those of a query, which other tasks do not take.
QueryPhases == {"compile", "query", "resolve"}

LEMMA QueryPhased ==
  ASSUME QueryNext
  PROVE  job' = job /\ phase \in QueryPhases
  BY DEF QueryNext, TextNext, OpenTop, OpenChild, OpenField, SkipColon, NamePattern, CloseChild,
         CloseTop, RunOut, TextEnds, Call, Refuse, TryPattern, DescendQuery, Backtrack, NextInQuery,
         Climb, NextQuery, QueryEnds, AllAsked, SortEntries, Lay, HighlightEnds, Spent, readVars,
         QueryPhases

LEMMA ReaderStep ==
  ASSUME [Next]_vars
  PROVE  /\ job' = job
         /\ \/ [OpsNext]_<<readVars, opsVars>>
            \/ phase \in QueryPhases /\ UNCHANGED opsVars
  BY QueryPhased, JobStays DEF Next, vars, readVars, opsVars

\* The root's frame leads to every node.
LEMMA MarkInit ==
  ASSUME Chosen, phase = Phase(job.task), OpsInit
  PROVE  MarkInv
  <1> SUFFICES ASSUME job.task = "mark", Nested
               PROVE  MarkShape(job, frames, changed, phase)
    BY DEF MarkInv
  <1>1. PICK first : first = [node |-> job.tree.root, done |-> FALSE]
    OBVIOUS
  <1>2. frames = <<first>> /\ changed = {} /\ phase = "mark"
    BY <1>1, Named DEF OpsInit, Phase
  <1>3. TreeOK(job.tree)
    BY ReadingsAssumption DEF Chosen, ReadingOK
  <1>4. job.tree.root \in DOMAIN job.tree.nodes
    BY <1>3, TreeFacts
  <1>5. job.tree.root \in Inside(job)
    BY <1>3, <1>4, UnderFacts DEF Inside
  <1>6. first \in FrameSet(job)
    BY <1>1, <1>5 DEF FrameSet
  <1>7. \A m \in Hits(job) : LeadsTo(job.tree, first, m)
    <2>1. first.node = job.tree.root /\ ~first.done
      BY <1>1
    <2> QED
      BY <2>1 DEF Hits, Inside, LeadsTo
  <1>8. frames \in Seq(FrameSet(job)) /\ first \in ToSet(frames)
    <2>1. frames \in Seq(FrameSet(job)) /\ DOMAIN frames = {1} /\ frames[1] = first
      BY <1>2, <1>6
    <2> QED
      BY <2>1 DEF ToSet
  <1> QED
    BY <1>2, <1>7, <1>8 DEF MarkShape

LEMMA MarkStep ==
  ASSUME Chosen, MarkInv, [OpsNext]_<<readVars, opsVars>>
  PROVE  MarkInv'
  <1>1. PICK r : r = job
    OBVIOUS
  <1>2. job' = r
    BY <1>1, JobStays
  <1>3. Nested' <=> Nested
    BY <1>1, <1>2 DEF Nested, Reachable, Below, Root, Kids, Nodes
  <1> SUFFICES ASSUME r.task = "mark", Nested
               PROVE  MarkShape(r, frames, changed, phase)'
    BY <1>1, <1>2, <1>3 DEF MarkInv
  <1>4. /\ MarkShape(r, frames, changed, phase)
        /\ ReadingOK(r) /\ NestedIn(r.tree)
    BY <1>1, Named, ReadingsAssumption DEF MarkInv, Chosen
  <1>5. phase \in {"mark", "done"}
    BY <1>4 DEF MarkShape
  <1>6. PICK fr, ch : fr = frames /\ ch = changed
    OBVIOUS
  <1>7. ASSUME phase = "mark", fr # <<>>, NEW n, n = Last(fr).node
        PROVE  /\ n \in Inside(r)
               /\ ~Overlaps(r, n) => MarkShape(r, Front(fr), ch, "mark")
               /\ ~Last(fr).done =>
                    MarkShape(r, Front(fr) \o <<[node |-> n, done |-> TRUE]>>
                                   \o FreshOf(r.tree, n), ch, "mark")
               /\ Last(fr).done /\ Overlaps(r, n) => MarkShape(r, Front(fr), ch \cup {n}, "mark")
    <2>1. MarkShape(r, fr, ch, "mark")
      BY <1>4, <1>6, <1>7
    <2> QED
      BY <1>4, <1>7, <2>1, MarkSteps
  <1>8. \A n \in Inside(r) : Outside(n) <=> ~Overlaps(r, n)
    <2> TAKE n \in Inside(r)
    <2>1. TreeOK(r.tree) /\ r.from \in Nat /\ r.to \in Nat
      BY <1>4 DEF ReadingOK
    <2>2. n \in DOMAIN r.tree.nodes
      BY <2>1, TreeFacts, UnderFacts DEF Inside
    <2>3. r.tree.nodes[n].start \in Nat /\ r.tree.nodes[n].end \in Nat
      BY <2>1, <2>2, TreeFacts
    <2>4. Outside(n) <=> (r.tree.nodes[n].end <= r.from \/ r.tree.nodes[n].start >= r.to)
      BY <1>1 DEF Outside, Nodes
    <2> QED
      BY <2>1, <2>3, <2>4 DEF Overlaps
  <1>9. CASE UNCHANGED <<readVars, opsVars>>
    BY <1>4, <1>9 DEF readVars, opsVars
  <1>10. CASE MarkSkip
    <2>1. /\ phase = "mark" /\ phase' = "mark" /\ fr # <<>> /\ Outside(Last(fr).node)
          /\ frames' = Front(fr) /\ changed' = ch
      BY <1>6, <1>10 DEF MarkSkip, Marking, Top, readVars
    <2>2. MarkShape(r, Front(fr), ch, "mark")
      BY <1>7, <1>8, <2>1
    <2> QED
      BY <2>1, <2>2
  <1>11. CASE MarkBelow
    <2>1. /\ phase = "mark" /\ phase' = "mark" /\ fr # <<>> /\ Last(fr).done = FALSE
          /\ frames' = Front(fr) \o <<[node |-> Last(fr).node, done |-> TRUE]>>
                         \o Fresh(Last(fr).node)
          /\ changed' = ch
      BY <1>6, <1>11 DEF MarkBelow, Marking, Top, readVars
    <2>2. Fresh(Last(fr).node) = FreshOf(r.tree, Last(fr).node)
      BY <1>1, Named
    <2>3. MarkShape(r, Front(fr) \o <<[node |-> Last(fr).node, done |-> TRUE]>>
                            \o FreshOf(r.tree, Last(fr).node), ch, "mark")
      BY <1>7, <2>1
    <2> QED
      BY <2>1, <2>2, <2>3
  <1>12. CASE MarkNode
    <2>1. /\ phase = "mark" /\ phase' = "mark" /\ fr # <<>> /\ Last(fr).done = TRUE
          /\ ~Outside(Last(fr).node)
          /\ frames' = Front(fr)
      BY <1>6, <1>12 DEF MarkNode, Marking, Top, readVars
    <2>2. Overlaps(r, Last(fr).node)
      BY <1>7, <1>8, <2>1
    <2>3. Nodes[Last(fr).node].start < job.to /\ Nodes[Last(fr).node].end > job.from
      BY <1>1, <2>2 DEF Overlaps, Nodes
    <2>4. changed' = ch \cup {Last(fr).node}
      BY <1>6, <1>12, <2>3 DEF MarkNode, Top
    <2>5. MarkShape(r, Front(fr), ch \cup {Last(fr).node}, "mark")
      BY <1>7, <2>1, <2>2
    <2> QED
      BY <2>1, <2>4, <2>5
  <1>13. CASE MarkEnds
    <2>1. phase' = "done" /\ frames' = frames /\ frames = <<>> /\ changed' = changed
      BY <1>13 DEF MarkEnds, opsVars
    <2> QED
      BY <1>4, <2>1 DEF MarkShape
  <1>14. ~(GotoFirstChild \/ GotoNextSibling \/ GotoParent \/ WalkEnds \/ FindBelow \/ FindEnds)
    BY <1>5 DEF GotoFirstChild, GotoNextSibling, GotoParent, WalkEnds, FindBelow, FindEnds
  <1> QED
    BY <1>9, <1>10, <1>11, <1>12, <1>13, <1>14 DEF OpsNext

(***************************************************************************)
(* mark_edit_range marks the nodes that overlap the edit and no others, in *)
(* every tree whose spans nest, shared subtrees and empty nodes included.  *)
(***************************************************************************)
THEOREM Marks == Spec => []MarkedExactly
  <1>1. Init => Chosen /\ MarkInv
    BY MarkInit DEF Init, Chosen
  <1>2. Chosen /\ MarkInv /\ [Next]_vars => Chosen' /\ MarkInv'
    <2> SUFFICES ASSUME Chosen, MarkInv, [Next]_vars
                 PROVE  Chosen' /\ MarkInv'
      OBVIOUS
    <2>1. CASE [OpsNext]_<<readVars, opsVars>>
      BY <2>1, MarkStep, ReaderStep DEF Chosen
    <2>2. CASE phase \in QueryPhases /\ UNCHANGED opsVars
      <3>1. job' = job
        BY ReaderStep
      <3>2. ~(job.task = "mark" /\ Nested)
        BY <2>2 DEF MarkInv, MarkShape, QueryPhases
      <3>3. (~(job.task = "mark" /\ Nested))'
        BY <3>1, <3>2 DEF Nested, Reachable, Below, Root, Kids, Nodes
      <3> QED
        BY <3>1, <3>3 DEF Chosen, MarkInv
    <2> QED
      BY <2>1, <2>2, ReaderStep
  <1>3. MarkInv => MarkedExactly
    <2> SUFFICES ASSUME MarkInv, job.task = "mark", phase = "done", Nested
                 PROVE  changed = {n \in Reachable :
                                     Nodes[n].start < job.to /\ Nodes[n].end > job.from}
      BY DEF MarkedExactly
    <2>1. MarkShape(job, frames, changed, phase)
      BY DEF MarkInv
    <2>2. /\ frames = <<>> /\ changed \subseteq Hits(job)
          /\ \A m \in Hits(job) : m \in changed \/ \E f \in ToSet(frames) : LeadsTo(job.tree, f, m)
      BY <2>1 DEF MarkShape
    <2>3. ToSet(frames) = {}
      BY <2>2 DEF ToSet
    <2>4. changed = Hits(job)
      BY <2>2, <2>3
    <2> QED
      BY <2>4, Named DEF Hits, Overlaps
  <1> QED
    BY <1>1, <1>2, <1>3, PTL DEF Spec

-------------------------------------------------------------------------------
(***************************************************************************)
(* node_at_byte.  What contains the byte and is not yet behind is below    *)
(* the node looked at, or has that node below it.                          *)
(***************************************************************************)

HasByte(r, n) == r.tree.nodes[n].start <= r.byte /\ r.byte < r.tree.nodes[n].end
HoldersOf(r, n) == {i \in DOMAIN KidsOf(r.tree, n) : HasByte(r, KidsOf(r.tree, n)[i])}

OrderedIn(t) ==
  \A n \in Under(t, t.root) : \A i, j \in DOMAIN KidsOf(t, n) :
    i < j => t.nodes[KidsOf(t, n)[i]].end <= t.nodes[KidsOf(t, n)[j]].start

InLine(r, h) ==
  /\ h \in Inside(r) /\ HasByte(r, h)
  /\ \A n \in Inside(r) : HasByte(r, n) => h \in Under(r.tree, n) \/ n \in Under(r.tree, h)

FindShape(r, h, ph) ==
  /\ ph \in {"find", "done"}
  /\ HasByte(r, r.tree.root) => InLine(r, h) /\ (ph = "done" => HoldersOf(r, h) = {})
  /\ ~HasByte(r, r.tree.root) => h = IF ph = "done" THEN 0 ELSE r.tree.root

FindInv == job.task = "find" /\ Nested /\ Ordered => FindShape(job, here, phase)

LEMMA InsideFacts ==
  ASSUME NEW r, TreeOK(r.tree)
  PROVE  /\ r.tree.root \in Inside(r) /\ Inside(r) \subseteq DOMAIN r.tree.nodes
         /\ \A n \in Inside(r) :
              /\ Under(r.tree, n) \subseteq Inside(r)
              /\ r.tree.nodes[n].start \in Nat /\ r.tree.nodes[n].end \in Nat
  <1>1. r.tree.root \in DOMAIN r.tree.nodes
    BY TreeFacts
  <1>2. /\ r.tree.root \in Inside(r) /\ Inside(r) \subseteq DOMAIN r.tree.nodes
        /\ \A n \in Inside(r) : Under(r.tree, n) \subseteq Inside(r)
    BY <1>1, UnderFacts DEF Inside
  <1> QED
    BY <1>2, TreeFacts

\* A node that contains the byte is below nodes that contain it.
LEMMA ContainsUp ==
  ASSUME NEW r, ReadingOK(r), r.task = "find", NestedIn(r.tree),
         NEW n \in Inside(r), NEW m \in Under(r.tree, n), HasByte(r, m)
  PROVE  HasByte(r, n)
  <1>1. TreeOK(r.tree) /\ r.byte \in Nat
    BY DEF ReadingOK
  <1>2. n \in Under(r.tree, r.tree.root)
    BY DEF Inside
  <1>3. Spans(r.tree, n, m)
    BY <1>1, <1>2, NestedFacts
  <1>4. m \in Inside(r)
    BY <1>1, InsideFacts
  <1>5. /\ r.tree.nodes[n].start \in Nat /\ r.tree.nodes[n].end \in Nat
        /\ r.tree.nodes[m].start \in Nat /\ r.tree.nodes[m].end \in Nat
    BY <1>1, <1>4, InsideFacts
  <1>6. r.tree.nodes[m].start <= r.byte /\ r.byte < r.tree.nodes[m].end
    BY DEF HasByte
  <1>7. r.tree.nodes[n].start <= r.byte
    BY <1>1, <1>3, <1>5, <1>6 DEF Spans
  <1>8. r.byte < r.tree.nodes[n].end
    BY <1>1, <1>3, <1>5, <1>6 DEF Spans
  <1> QED
    BY <1>7, <1>8 DEF HasByte

\* One child at most contains the byte, and going to it leaves nothing behind.
LEMMA FindStepFacts ==
  ASSUME NEW r, ReadingOK(r), r.task = "find", NestedIn(r.tree), OrderedIn(r.tree),
         NEW h, InLine(r, h), HoldersOf(r, h) # {}
  PROVE  /\ Min(HoldersOf(r, h)) \in DOMAIN KidsOf(r.tree, h)
         /\ InLine(r, KidsOf(r.tree, h)[Min(HoldersOf(r, h))])
  <1> DEFINE t == r.tree
             kids == KidsOf(t, h)
             H == HoldersOf(r, h)
             k == Min(H)
  <1>1. TreeOK(t) /\ r.byte \in Nat
    BY DEF ReadingOK
  <1>2. h \in Inside(r) /\ h \in DOMAIN t.nodes
    BY <1>1, InsideFacts DEF InLine
  <1>3. /\ Len(kids) \in Nat /\ DOMAIN kids = 1 .. Len(kids)
        /\ \A i \in DOMAIN kids : kids[i] \in Under(t, h) /\ kids[i] \in Inside(r)
    BY <1>1, <1>2, TreeFacts, UnderFacts, InsideFacts
  <1>4. H \in SUBSET Nat /\ H # {} /\ \A i \in H : i \in DOMAIN kids /\ HasByte(r, kids[i])
    <2>1. H \subseteq 1 .. Len(kids)
      BY <1>3 DEF HoldersOf
    <2> QED
      BY <2>1 DEF HoldersOf
  <1>5. k \in H
    <2> HIDE DEF H
    <2>1. \E x \in H : \A y \in H : x <= y
      BY <1>4, LeastExists
    <2> QED
      BY <2>1 DEF Min
  <1>6. k \in DOMAIN kids /\ HasByte(r, kids[k]) /\ kids[k] \in Inside(r)
    BY <1>3, <1>4, <1>5
  <1> HIDE DEF k, kids, t, H
  <1>7. ASSUME NEW j \in DOMAIN kids, HasByte(r, kids[j])
        PROVE  j = k
    <2> DEFINE sk == t.nodes[kids[k]].start
               ek == t.nodes[kids[k]].end
               sj == t.nodes[kids[j]].start
               ej == t.nodes[kids[j]].end
    <2>1. sk \in Nat /\ ek \in Nat /\ sj \in Nat /\ ej \in Nat
      BY <1>1, <1>3, <1>6, InsideFacts DEF t
    <2>2. sk <= r.byte /\ r.byte < ek /\ sj <= r.byte /\ r.byte < ej
      BY <1>6, <1>7 DEF HasByte, t
    <2>3. h \in Under(t, t.root)
      BY <1>2 DEF Inside, t
    <2>4. (j < k => ej <= sk) /\ (k < j => ek <= sj)
      BY <1>6, <2>3 DEF OrderedIn, t, kids
    <2>5. j \in Nat /\ k \in Nat
      BY <1>3, <1>6
    <2> HIDE DEF sk, ek, sj, ej
    <2>6. ~(j < k) /\ ~(k < j)
      BY <1>1, <2>1, <2>2, <2>4
    <2> QED
      BY <2>5, <2>6
  <1>8. ASSUME NEW n \in Inside(r), HasByte(r, n)
        PROVE  kids[k] \in Under(t, n) \/ n \in Under(t, kids[k])
    <2>1. n \in DOMAIN t.nodes
      BY <1>1, InsideFacts DEF t
    <2>2. CASE h \in Under(t, n)
      <3>1. Under(t, h) \subseteq Under(t, n)
        BY <1>1, <2>1, <2>2, UnderFacts
      <3> QED
        BY <1>3, <1>6, <3>1
    <2>3. CASE n = h
      BY <1>3, <1>6, <2>3
    <2>4. CASE \E j \in DOMAIN kids : n \in Under(t, kids[j])
      <3>1. PICK j \in DOMAIN kids : n \in Under(t, kids[j])
        BY <2>4
      <3>2. HasByte(r, kids[j])
        BY <1>3, <1>8, <3>1, ContainsUp DEF t
      <3> QED
        BY <1>7, <3>1, <3>2
    <2>5. h \in Under(t, n) \/ n \in Under(t, h)
      BY <1>8 DEF InLine, t
    <2>6. Under(t, h) = {h} \cup UNION {Under(t, kids[i]) : i \in DOMAIN kids}
      BY <1>1, <1>2, PreorderFacts DEF kids
    <2> QED
      BY <2>2, <2>3, <2>4, <2>5, <2>6
  <1>9. InLine(r, kids[k])
    BY <1>6, <1>8 DEF InLine, t
  <1> QED
    BY <1>6, <1>9 DEF kids, k, H, t

\* The relations of the module, over a reading that is named.
LEMMA NamedFind ==
  /\ Covers(Root, job.byte) <=> HasByte(job, job.tree.root)
  /\ Holders = HoldersOf(job, here)
  /\ Ordered => OrderedIn(job.tree)
  <1>1. \A n : Covers(n, job.byte) <=> HasByte(job, n)
    BY Named DEF Covers, HasByte
  <1>2. Holders = HoldersOf(job, here)
    BY <1>1, Named DEF Holders, HoldersOf
  <1>3. Ordered => OrderedIn(job.tree)
    BY Named DEF Ordered, OrderedIn, Inside
  <1> QED
    BY <1>1, <1>2, <1>3, Named

LEMMA FindInit ==
  ASSUME Chosen, phase = Phase(job.task), OpsInit
  PROVE  FindInv
  <1> SUFFICES ASSUME job.task = "find", Nested, Ordered
               PROVE  FindShape(job, here, phase)
    BY DEF FindInv
  <1>1. here = job.tree.root /\ phase = "find"
    BY Named DEF OpsInit, Phase
  <1>2. TreeOK(job.tree)
    BY ReadingsAssumption DEF Chosen, ReadingOK
  <1>3. job.tree.root \in Inside(job)
    BY <1>2, InsideFacts
  <1>4. \A n \in Inside(job) : n \in Under(job.tree, job.tree.root)
    BY DEF Inside
  <1> QED
    BY <1>1, <1>3, <1>4 DEF FindShape, InLine

LEMMA FindStep ==
  ASSUME Chosen, FindInv, [OpsNext]_<<readVars, opsVars>>
  PROVE  FindInv'
  <1>1. PICK r : r = job
    OBVIOUS
  <1>2. job' = r
    BY <1>1, JobStays
  <1>3. (Nested' <=> Nested) /\ (Ordered' <=> Ordered)
    BY <1>1, <1>2 DEF Nested, Ordered, Reachable, Below, Root, Kids, Nodes
  <1> SUFFICES ASSUME r.task = "find", Nested, Ordered
               PROVE  FindShape(r, here, phase)'
    BY <1>1, <1>2, <1>3 DEF FindInv
  <1>4. /\ FindShape(r, here, phase)
        /\ ReadingOK(r) /\ NestedIn(r.tree) /\ OrderedIn(r.tree)
    BY <1>1, Named, NamedFind, ReadingsAssumption DEF FindInv, Chosen
  <1>5. phase \in {"find", "done"}
    BY <1>4 DEF FindShape
  <1>6. PICK h : h = here
    OBVIOUS
  <1>7. CASE UNCHANGED <<readVars, opsVars>>
    BY <1>4, <1>7 DEF readVars, opsVars
  <1>8. CASE FindBelow
    <2>1. /\ phase = "find" /\ phase' = "find" /\ HasByte(r, r.tree.root)
          /\ HoldersOf(r, h) # {}
          /\ here' = KidsOf(r.tree, h)[Min(HoldersOf(r, h))]
      BY <1>1, <1>6, <1>8, Named, NamedFind DEF FindBelow, readVars
    <2>2. InLine(r, h)
      BY <1>4, <1>6, <2>1 DEF FindShape
    <2>3. InLine(r, KidsOf(r.tree, h)[Min(HoldersOf(r, h))])
      BY <1>4, <2>1, <2>2, FindStepFacts
    <2> QED
      BY <2>1, <2>3 DEF FindShape
  <1>9. CASE FindEnds
    <2>1. /\ phase = "find" /\ phase' = "done"
          /\ HasByte(r, r.tree.root) => HoldersOf(r, h) = {}
          /\ here' = IF HasByte(r, r.tree.root) THEN h ELSE 0
      BY <1>1, <1>6, <1>9, NamedFind DEF FindEnds
    <2> QED
      BY <1>4, <1>6, <2>1 DEF FindShape
  <1>10. CASE MarkSkip \/ MarkBelow \/ MarkNode \/ MarkEnds
    BY <1>5, <1>10 DEF MarkSkip, MarkBelow, MarkNode, MarkEnds, Marking
  <1>11. CASE GotoFirstChild \/ GotoNextSibling \/ GotoParent \/ WalkEnds
    BY <1>5, <1>11 DEF GotoFirstChild, GotoNextSibling, GotoParent, WalkEnds
  <1> QED
    BY <1>7, <1>8, <1>9, <1>10, <1>11 DEF OpsNext

(***************************************************************************)
(* node_at_byte answers the innermost node at the byte, in every tree      *)
(* whose spans nest and whose siblings follow each other; where siblings   *)
(* overlap the first one that contains the byte is followed and the rest   *)
(* is not looked at.                                                       *)
(***************************************************************************)
THEOREM Finds == Spec => []DeepestFound
  <1>1. Init => Chosen /\ FindInv
    BY FindInit DEF Init, Chosen
  <1>2. Chosen /\ FindInv /\ [Next]_vars => Chosen' /\ FindInv'
    <2> SUFFICES ASSUME Chosen, FindInv, [Next]_vars
                 PROVE  Chosen' /\ FindInv'
      OBVIOUS
    <2>1. CASE [OpsNext]_<<readVars, opsVars>>
      BY <2>1, FindStep, ReaderStep DEF Chosen
    <2>2. CASE phase \in QueryPhases /\ UNCHANGED opsVars
      <3>1. job' = job
        BY ReaderStep
      <3>2. ~(job.task = "find" /\ Nested /\ Ordered)
        BY <2>2 DEF FindInv, FindShape, QueryPhases
      <3>3. (~(job.task = "find" /\ Nested /\ Ordered))'
        BY <3>1, <3>2 DEF Nested, Ordered, Reachable, Below, Root, Kids, Nodes
      <3> QED
        BY <3>1, <3>3 DEF Chosen, FindInv
    <2> QED
      BY <2>1, <2>2, ReaderStep
  <1>3. Chosen /\ FindInv => DeepestFound
    <2> SUFFICES ASSUME Chosen, FindInv, job.task = "find", phase = "done", Nested, Ordered
                 PROVE  IF here = 0 THEN \A n \in Reachable : ~Covers(n, job.byte)
                        ELSE /\ Covers(here, job.byte)
                             /\ \A n \in Reachable : Covers(n, job.byte) => here \in Below(n)
      BY DEF DeepestFound
    <2>1. FindShape(job, here, "done")
      BY DEF FindInv
    <2>2. ReadingOK(job) /\ TreeOK(job.tree) /\ NestedIn(job.tree)
      BY Named, ReadingsAssumption DEF Chosen, ReadingOK
    <2>3. \A n : Covers(n, job.byte) <=> HasByte(job, n)
      BY Named DEF Covers, HasByte
    <2>4. CASE HasByte(job, job.tree.root)
      <3>1. InLine(job, here) /\ HoldersOf(job, here) = {}
        BY <2>1, <2>4 DEF FindShape
      <3>2. here \in Inside(job) /\ here # 0 /\ here \in DOMAIN job.tree.nodes
        BY <2>2, <3>1, InsideFacts, TreeFacts DEF InLine
      <3>3. ASSUME NEW n \in Inside(job), HasByte(job, n)
            PROVE  here \in Under(job.tree, n)
        <4>1. here \in Under(job.tree, n) \/ n \in Under(job.tree, here)
          BY <3>1, <3>3 DEF InLine
        <4>2. n \in Under(job.tree, n)
          BY <2>2, InsideFacts, UnderFacts
        <4>3. ASSUME NEW i \in DOMAIN KidsOf(job.tree, here),
                     n \in Under(job.tree, KidsOf(job.tree, here)[i])
              PROVE  FALSE
          <5>1. KidsOf(job.tree, here)[i] \in Inside(job)
            BY <2>2, <3>2, UnderFacts, InsideFacts
          <5>2. HasByte(job, KidsOf(job.tree, here)[i])
            BY <2>2, <3>3, <4>3, <5>1, ContainsUp
          <5> QED
            BY <3>1, <5>2 DEF HoldersOf
        <4>4. Under(job.tree, here) =
                {here} \cup UNION {Under(job.tree, KidsOf(job.tree, here)[i]) :
                                     i \in DOMAIN KidsOf(job.tree, here)}
          BY <2>2, <3>2, PreorderFacts
        <4> QED
          BY <4>1, <4>2, <4>3, <4>4
      <3> QED
        BY <2>3, <3>1, <3>2, <3>3, Named DEF InLine
    <2>5. CASE ~HasByte(job, job.tree.root)
      <3>1. here = 0
        BY <2>1, <2>5 DEF FindShape
      <3>2. ASSUME NEW n \in Inside(job) PROVE ~HasByte(job, n)
        BY <2>2, <2>5, ContainsUp, InsideFacts DEF Inside
      <3> QED
        BY <2>3, <3>1, <3>2, Named
    <2> QED
      BY <2>4, <2>5
  <1> QED
    BY <1>1, <1>2, <1>3, PTL DEF Spec

-------------------------------------------------------------------------------
(***************************************************************************)
(* The cursor.  What the client met, what is left below the node it is at, *)
(* and what is left behind each node on the path to the root: joined they  *)
(* are the walk from the left.                                             *)
(***************************************************************************)

\* What is left of the subtree of n after each child, and before the first.
PartsOf(t, n) == [i \in DOMAIN KidsOf(t, n) |-> Preorder(t)[KidsOf(t, n)[i]]]
After(t, n) == CHOOSE g : Remains(g, DOMAIN t.nodes, PartsOf(t, n))

Behind(t, n, g) ==
  /\ \A k \in 0 .. Len(KidsOf(t, n)) : g[k] \in Seq(DOMAIN t.nodes)
  /\ g[Len(KidsOf(t, n))] = <<>>
  /\ \A k \in 1 .. Len(KidsOf(t, n)) : g[k - 1] = Preorder(t)[KidsOf(t, n)[k]] \o g[k]

LEMMA AfterFacts ==
  ASSUME NEW t, TreeOK(t), NEW n \in DOMAIN t.nodes
  PROVE  /\ Behind(t, n, After(t, n))
         /\ Preorder(t)[n] = <<n>> \o After(t, n)[0]
         /\ <<n>> \in Seq(DOMAIN t.nodes)
  <1> DEFINE D == DOMAIN t.nodes
             kids == KidsOf(t, n)
             parts == PartsOf(t, n)
             g == After(t, n)
  <1>1. Len(kids) \in Nat /\ DOMAIN kids = 1 .. Len(kids) /\ \A i \in DOMAIN kids : kids[i] \in D
    BY TreeFacts, UnderFacts
  <1>2. \A i \in DOMAIN kids : Preorder(t)[kids[i]] \in Seq(D)
    BY <1>1, PreorderFacts
  <1>3. parts \in Seq(Seq(D))
    <2>1. PICK f, S : f = Preorder(t) /\ S = D
      OBVIOUS
    <2>2. n \in S /\ \A i \in DOMAIN kids : f[kids[i]] \in Seq(S)
      BY <1>2, <2>1
    <2> HIDE DEF D
    <2>3. [i \in DOMAIN KidsOf(t, n) |-> f[KidsOf(t, n)[i]]] \in Seq(Seq(S))
      BY <2>2, JointTyped
    <2> QED
      BY <2>1, <2>3 DEF PartsOf
  <1>4. Len(parts) = Len(kids) /\ \A i \in DOMAIN kids : parts[i] = Preorder(t)[kids[i]]
    <2> HIDE DEF kids
    <2>1. parts = [i \in 1 .. Len(kids) |-> Preorder(t)[kids[i]]]
      BY <1>1 DEF PartsOf, kids
    <2> HIDE DEF parts
    <2> QED
      BY <1>1, <2>1
  <1>5. Remains(g, D, parts)
    <2>1. \E f : Remains(f, D, parts)
      BY <1>3, RemainsExist
    <2> QED
      BY <2>1 DEF After
  <1> HIDE DEF g, parts
  <1>6. /\ g \in [0 .. Len(kids) -> Seq(D)] /\ g[Len(kids)] = <<>>
        /\ \A k \in 1 .. Len(kids) : g[k - 1] = parts[k] \o g[k]
        /\ FlattenSeq(parts) = g[0]
    BY <1>4, <1>5 DEF Remains
  <1>7. Preorder(t)[n] = <<n>> \o g[0]
    <2>1. Preorder(t)[n] = <<n>> \o FlattenSeq(parts)
      BY PreorderFacts DEF Joint, parts, PartsOf
    <2> QED
      BY <1>6, <2>1
  <1>80. n \in D
    OBVIOUS
  <1> HIDE DEF D, kids
  <1>8. <<n>> \in Seq(D)
    BY <1>80
  <1>9. \A k \in 1 .. Len(kids) : g[k - 1] = Preorder(t)[kids[k]] \o g[k]
    BY <1>1, <1>4, <1>6
  <1>10. \A k \in 0 .. Len(kids) : g[k] \in Seq(D)
    BY <1>6
  <1> QED
    BY <1>6, <1>7, <1>8, <1>9, <1>10 DEF g, D, kids, Behind

Turns == Seq(Nat \ {0})

\* The nodes along the first m steps of a path, and what is left behind each of them.
Trail(t, p, m, a, e) ==
  /\ \A i \in 0 .. m : a[i] \in DOMAIN t.nodes /\ e[i] \in Seq(DOMAIN t.nodes)
  /\ a[0] = t.root /\ e[0] = <<>>
  /\ \A i \in 1 .. m : /\ p[i] \in 1 .. Len(KidsOf(t, a[i - 1]))
                       /\ a[i] = KidsOf(t, a[i - 1])[p[i]]
                       /\ e[i] = After(t, a[i - 1])[p[i]] \o e[i - 1]

Remaining(t, u, n) == IF u THEN <<>> ELSE After(t, n)[0]

Goes(t, p, u, s, a, e) ==
  /\ Trail(t, p, Len(p), a, e)
  /\ s \o (Remaining(t, u, a[Len(p)]) \o e[Len(p)]) = Preorder(t)[t.root]

WalkShape(t, p, u, s, ph) ==
  /\ ph \in {"walk", "done"}
  /\ p \in Turns /\ u \in BOOLEAN /\ s \in Seq(DOMAIN t.nodes)
  /\ \E a, e : Goes(t, p, u, s, a, e)
  /\ ph = "done" => p = <<>> /\ (u \/ KidsOf(t, t.root) = <<>>)

\* The client came back from below the node, or found nothing there.
Back == move # "child"

\* A call that found no sibling has left the cursor where it was, and the parent is next.
WalkInv ==
  job.task = "walk" =>
    /\ move \in {"child", "sibling", "parent"}
    /\ WalkShape(job.tree, path, Back, seen, phase)
    /\ phase = "walk" /\ move = "parent" /\ path # <<>> =>
         WalkShape(job.tree, Front(path), TRUE, seen, "walk")

\* What Along is.
Turn(t, q, i, w) ==
  IF w = 0 \/ q[i] > Len(t.nodes[w].kids) THEN 0 ELSE t.nodes[w].kids[q[i]]
Leads(f, t, q) ==
  f = [i \in 0 .. Len(q) |-> IF i = 0 THEN t.root ELSE Turn(t, q, i, f[i - 1])]

LEMMA AlongFacts ==
  ASSUME NEW t, TreeOK(t), NEW q \in Turns
  PROVE  /\ Along(t, q)[0] = t.root
         /\ \A i \in 1 .. Len(q) : Along(t, q)[i] = Turn(t, q, i, Along(t, q)[i - 1])
  <1> DEFINE L == Len(q)
             V == DOMAIN t.nodes \cup {0}
             F == [i \in 1 .. L |-> [w \in V |-> Turn(t, q, i, w)]]
  <1>1. L \in Nat /\ DOMAIN q = 1 .. L /\ \A i \in 1 .. L : q[i] \in Nat \ {0}
    BY DEF Turns
  <1>2. \A i \in 1 .. L, w \in V : Turn(t, q, i, w) \in V
    <2> SUFFICES ASSUME NEW i \in 1 .. L, NEW w \in DOMAIN t.nodes,
                        ~(q[i] > Len(KidsOf(t, w)))
                 PROVE  KidsOf(t, w)[q[i]] \in DOMAIN t.nodes
      BY DEF Turn, KidsOf
    <2>1. Len(KidsOf(t, w)) \in Nat /\ DOMAIN KidsOf(t, w) = 1 .. Len(KidsOf(t, w))
      BY TreeFacts
    <2>2. q[i] \in 1 .. Len(KidsOf(t, w))
      <3>1. q[i] \in Nat \ {0}
        BY <1>1
      <3> QED
        BY <2>1, <3>1
    <2> QED
      BY <2>1, <2>2, UnderFacts
  <1>3. F \in [1 .. L -> [V -> V]] /\ t.root \in V
    <2>1. t.root \in V
      BY TreeFacts
    <2> HIDE DEF V, L
    <2> QED
      BY <1>2, <2>1
  <1>4. PICK f : Iterates(f, L, V, t.root, F)
    <2> HIDE DEF F, V, L
    <2> QED
      BY <1>1, <1>3, Iterated
  <1>5. /\ f \in [0 .. L -> V] /\ f[0] = t.root
        /\ \A i \in 1 .. L : f[i] = Turn(t, q, i, f[i - 1])
    <2>1. f \in [0 .. L -> V] /\ f[0] = t.root /\ \A k \in 1 .. L : f[k] = F[k][f[k - 1]]
      BY <1>4 DEF Iterates
    <2> HIDE DEF V, L
    <2>2. \A k \in 1 .. L : f[k - 1] \in V
      BY <1>1, <2>1
    <2> QED
      BY <2>1, <2>2
  <1> HIDE DEF F, V
  <1>6. Leads(f, t, q)
    <2>1. f = [i \in 0 .. L |-> f[i]]
      BY <1>5
    <2>2. \A i \in 0 .. L : f[i] = IF i = 0 THEN t.root ELSE Turn(t, q, i, f[i - 1])
      BY <1>1, <1>5
    <2> HIDE DEF L
    <2>3. [i \in 0 .. L |-> f[i]]
            = [i \in 0 .. L |-> IF i = 0 THEN t.root ELSE Turn(t, q, i, f[i - 1])]
      BY <2>2
    <2> QED
      BY <2>1, <2>3 DEF Leads, L
  <1> DEFINE g == CHOOSE h : Leads(h, t, q)
  <1>7. Along(t, q) = g
    BY DEF Along, Leads, Turn
  <1>8. Leads(g, t, q)
    BY <1>6
  <1> HIDE DEF g
  <1>9. \A i \in 0 .. L : g[i] = IF i = 0 THEN t.root ELSE Turn(t, q, i, g[i - 1])
    BY <1>8 DEF Leads
  <1>10. 0 \in 0 .. L /\ \A i \in 1 .. L : i \in 0 .. L /\ i # 0
    BY <1>1
  <1> QED
    BY <1>7, <1>9, <1>10

LEMMA AlongTrail ==
  ASSUME NEW t, TreeOK(t), NEW q \in Turns, NEW m \in 0 .. Len(q), NEW a, NEW e,
         Trail(t, q, m, a, e)
  PROVE  \A i \in 0 .. m : Along(t, q)[i] = a[i]
  <1> DEFINE S == {i \in 0 .. m : Along(t, q)[i] = a[i]}
  <1>1. m \in Nat /\ \A i \in 1 .. m : i \in 1 .. Len(q)
    BY DEF Turns
  <1>2. 0 \in S
    BY <1>1, AlongFacts DEF Trail
  <1>3. ASSUME NEW i \in 1 .. m, i - 1 \in S
        PROVE  i \in S
    <2>1. Along(t, q)[i] = Turn(t, q, i, a[i - 1])
      BY <1>1, <1>3, AlongFacts
    <2>2. /\ a[i - 1] \in DOMAIN t.nodes
          /\ q[i] \in 1 .. Len(KidsOf(t, a[i - 1]))
          /\ a[i] = KidsOf(t, a[i - 1])[q[i]]
      <3>1. i - 1 \in 0 .. m
        BY <1>1
      <3> QED
        BY <3>1 DEF Trail
    <2>3. Len(KidsOf(t, a[i - 1])) \in Nat /\ a[i - 1] # 0
      <3>1. PICK w : w = a[i - 1]
        OBVIOUS
      <3>2. w \in DOMAIN t.nodes
        BY <2>2, <3>1
      <3>3. Len(KidsOf(t, w)) \in Nat /\ w # 0
        BY <3>2, TreeFacts
      <3> QED
        BY <3>1, <3>3
    <2>4. ~(q[i] > Len(KidsOf(t, a[i - 1])))
      BY <2>2, <2>3
    <2>5. Turn(t, q, i, a[i - 1]) = a[i]
      BY <2>2, <2>3, <2>4 DEF Turn, KidsOf
    <2> QED
      BY <1>1, <2>1, <2>5
  <1> HIDE DEF S
  <1>4. \A i \in 0 .. m : i \in S
    BY <1>1, <1>2, <1>3, UpTo
  <1> QED
    BY <1>4 DEF S

\* Going to the k-th child of the last node of a trail, with the k - 1 before it met.
Entering(t, q, m, a, e, b, k, c, s) ==
  /\ m \in Nat /\ q \in Turns /\ Len(q) = m + 1 /\ Trail(t, q, m, a, e)
  /\ b = a[m] /\ k = q[m + 1] /\ k \in 1 .. Len(KidsOf(t, b)) /\ c = KidsOf(t, b)[k]
  /\ s \in Seq(DOMAIN t.nodes)
  /\ s \o (After(t, b)[k - 1] \o e[m]) = Preorder(t)[t.root]

LEMMA Enters ==
  ASSUME NEW t, TreeOK(t), NEW q, NEW m, NEW a, NEW e, NEW b, NEW k, NEW c, NEW s,
         Entering(t, q, m, a, e, b, k, c, s)
  PROVE  /\ Along(t, q)[Len(q)] = c
         /\ WalkShape(t, q, FALSE, Append(s, c), "walk")
  <1> DEFINE D == DOMAIN t.nodes
             V == Seq(D)
             a2 == [i \in 0 .. m + 1 |-> IF i = m + 1 THEN c ELSE a[i]]
             e2 == [i \in 0 .. m + 1 |-> IF i = m + 1 THEN After(t, b)[k] \o e[m] ELSE e[i]]
  <1>0. /\ m \in Nat /\ q \in Turns /\ Len(q) = m + 1 /\ Trail(t, q, m, a, e)
        /\ b = a[m] /\ k = q[m + 1] /\ k \in 1 .. Len(KidsOf(t, b)) /\ c = KidsOf(t, b)[k]
        /\ s \in Seq(DOMAIN t.nodes)
        /\ s \o (After(t, b)[k - 1] \o e[m]) = Preorder(t)[t.root]
    BY DEF Entering
  <1> USE <1>0
  <1>1. m \in 0 .. m /\ b \in D /\ e[m] \in V
    <2>1. m \in 0 .. m
      OBVIOUS
    <2> QED
      BY <2>1 DEF Trail
  <1>2. /\ Len(KidsOf(t, b)) \in Nat /\ DOMAIN KidsOf(t, b) = 1 .. Len(KidsOf(t, b))
        /\ k \in 0 .. Len(KidsOf(t, b))
    <2>1. /\ Len(KidsOf(t, b)) \in Nat
          /\ DOMAIN KidsOf(t, b) = 1 .. Len(KidsOf(t, b))
      BY <1>1, TreeFacts
    <2>2. k \in 0 .. Len(KidsOf(t, b))
      BY <2>1
    <2> QED
      BY <2>1, <2>2
  <1>3. c \in D
    BY <1>1, <1>2, UnderFacts
  <1>4. After(t, b)[k] \in V /\ After(t, b)[k - 1] = Preorder(t)[c] \o After(t, b)[k]
    <2>1. PICK g : g = After(t, b)
      OBVIOUS
    <2>2. b \in DOMAIN t.nodes
      BY <1>1
    <2>3. Behind(t, b, g)
      BY <2>1, <2>2, AfterFacts
    <2> HIDE DEF V, D
    <2>5. g[k - 1] = Preorder(t)[c] \o g[k]
      BY <2>3 DEF Behind
    <2>6. g[k] \in V
      BY <1>2, <2>3 DEF V, D, Behind
    <2> QED
      BY <2>1, <2>5, <2>6
  <1>5. After(t, c)[0] \in V /\ Preorder(t)[c] = <<c>> \o After(t, c)[0] /\ <<c>> \in V
    <2>1. Len(KidsOf(t, c)) \in Nat
      BY <1>3, TreeFacts
    <2>2. 0 \in 0 .. Len(KidsOf(t, c))
      BY <2>1
    <2> QED
      BY <1>3, <2>2, AfterFacts DEF Behind
  <1>6. After(t, b)[k] \o e[m] \in V
    BY <1>1, <1>4, Joined
  <1> HIDE DEF V, D
  <1>7. /\ a2[m + 1] = c /\ e2[m + 1] = After(t, b)[k] \o e[m]
        /\ \A i \in 0 .. m : a2[i] = a[i] /\ e2[i] = e[i]
    <2>1. m + 1 \in 0 .. m + 1 /\ \A i \in 0 .. m : i \in 0 .. m + 1 /\ i # m + 1
      OBVIOUS
    <2> QED
      BY <2>1
  <1> HIDE DEF a2, e2
  <1>8. Trail(t, q, m + 1, a2, e2)
    <2>1. \A i \in 0 .. m + 1 : i \in 0 .. m \/ i = m + 1
      OBVIOUS
    <2>2. \A i \in 1 .. m + 1 : i \in 1 .. m \/ i = m + 1
      OBVIOUS
    <2>3. 0 \in 0 .. m /\ \A i \in 1 .. m : i \in 0 .. m /\ i - 1 \in 0 .. m
      OBVIOUS
    <2>4. \A i \in 0 .. m + 1 : a2[i] \in D /\ e2[i] \in V
      BY <1>3, <1>6, <1>7, <2>1 DEF Trail, D, V
    <2>5. a2[0] = t.root /\ e2[0] = <<>>
      BY <1>7, <2>3 DEF Trail
    <2>6. \A i \in 1 .. m : /\ q[i] \in 1 .. Len(KidsOf(t, a2[i - 1]))
                            /\ a2[i] = KidsOf(t, a2[i - 1])[q[i]]
                            /\ e2[i] = After(t, a2[i - 1])[q[i]] \o e2[i - 1]
      BY <1>7, <2>3 DEF Trail
    <2>7. /\ q[m + 1] \in 1 .. Len(KidsOf(t, a2[m]))
          /\ a2[m + 1] = KidsOf(t, a2[m])[q[m + 1]]
          /\ e2[m + 1] = After(t, a2[m])[q[m + 1]] \o e2[m]
      BY <1>1, <1>7
    <2>8. (m + 1) - 1 = m
      OBVIOUS
    <2>9. \A i \in 1 .. m + 1 : /\ q[i] \in 1 .. Len(KidsOf(t, a2[i - 1]))
                                /\ a2[i] = KidsOf(t, a2[i - 1])[q[i]]
                                /\ e2[i] = After(t, a2[i - 1])[q[i]] \o e2[i - 1]
      BY <2>2, <2>6, <2>7, <2>8
    <2> QED
      BY <2>4, <2>5, <2>9 DEF Trail, D, V
  <1>9. Along(t, q)[Len(q)] = c
    <2>1. m + 1 \in 0 .. Len(q) /\ m + 1 \in 0 .. m + 1
      OBVIOUS
    <2>2. Along(t, q)[m + 1] = a2[m + 1]
      BY <1>8, <2>1, AlongTrail
    <2> QED
      BY <1>7, <2>2
  <1>10. Append(s, c) \in V /\ Append(s, c) = s \o <<c>>
    <2>1. s \in Seq(D) /\ c \in D
      BY <1>3 DEF D
    <2>2. Append(s, c) \in Seq(D) /\ Append(s, c) = s \o <<c>>
      BY <2>1
    <2> QED
      BY <2>2 DEF V
  <1>11. Append(s, c) \o (After(t, c)[0] \o (After(t, b)[k] \o e[m])) = Preorder(t)[t.root]
    <2>1. PICK x, y, z, w : /\ x = <<c>> /\ y = After(t, c)[0]
                            /\ z = After(t, b)[k] /\ w = e[m]
      OBVIOUS
    <2>2. s \in Seq(D) /\ x \in Seq(D) /\ y \in Seq(D) /\ z \in Seq(D) /\ w \in Seq(D)
      <3>1. s \in Seq(D)
        BY DEF D
      <3>2. x \in V /\ y \in V /\ z \in V /\ w \in V
        BY <1>1, <1>4, <1>5, <2>1
      <3> QED
        BY <3>1, <3>2 DEF V
    <2>3. Regroups(s, x, y, z, w)
      BY <2>2, Regrouped
    <2>4. After(t, b)[k - 1] = (x \o y) \o z
      BY <1>4, <1>5, <2>1
    <2> QED
      BY <1>10, <2>1, <2>3, <2>4 DEF Regroups
  <1>12. Goes(t, q, FALSE, Append(s, c), a2, e2)
    BY <1>7, <1>8, <1>11 DEF Goes, Remaining
  <1> QED
    BY <1>9, <1>10, <1>12 DEF WalkShape, V, D

\* What a path that stays in the tree has.
LEMMA TrailFacts ==
  ASSUME NEW t, TreeOK(t), NEW p \in Turns, NEW a, NEW e, Trail(t, p, Len(p), a, e)
  PROVE  /\ Along(t, p)[Len(p)] = a[Len(p)]
         /\ a[Len(p)] \in DOMAIN t.nodes /\ e[Len(p)] \in Seq(DOMAIN t.nodes)
         /\ p = <<>> => a[Len(p)] = t.root /\ e[Len(p)] = <<>>
  <1>1. Len(p) \in Nat /\ Len(p) \in 0 .. Len(p)
    BY DEF Turns
  <1>2. Along(t, p)[Len(p)] = a[Len(p)]
    BY <1>1, AlongTrail
  <1>3. p = <<>> => Len(p) = 0
    OBVIOUS
  <1> QED
    BY <1>1, <1>2, <1>3 DEF Trail

\* Nothing remains below a node that was left or has no children.
LEMMA NothingBelow ==
  ASSUME NEW t, TreeOK(t), NEW n \in DOMAIN t.nodes, NEW u, u \/ KidsOf(t, n) = <<>>
  PROVE  Remaining(t, u, n) = <<>>
  <1>1. KidsOf(t, n) = <<>> => Len(KidsOf(t, n)) = 0
    OBVIOUS
  <1> QED
    BY <1>1, AfterFacts DEF Remaining, Behind

\* goto_first_child.
LEMMA Descends ==
  ASSUME NEW t, TreeOK(t), NEW p \in Turns, NEW s \in Seq(DOMAIN t.nodes),
         NEW a, NEW e, Goes(t, p, FALSE, s, a, e), KidsOf(t, a[Len(p)]) # <<>>,
         NEW q, q = Append(p, 1), NEW c, c = Along(t, q)[Len(q)]
  PROVE  WalkShape(t, q, FALSE, Append(s, c), "walk")
  <1> DEFINE m == Len(p)
             b == a[m]
  <1>1. /\ m \in Nat /\ q \in Turns /\ Len(q) = m + 1 /\ q[m + 1] = 1
        /\ \A i \in 1 .. m : q[i] = p[i]
    <2>1. 1 \in Nat \ {0} /\ p \in Seq(Nat \ {0})
      BY DEF Turns
    <2>2. /\ m \in Nat /\ q \in Seq(Nat \ {0}) /\ Len(q) = m + 1 /\ q[m + 1] = 1
          /\ \A i \in 1 .. m : q[i] = p[i]
      BY <2>1, Grown
    <2> QED
      BY <2>2 DEF Turns
  <1>2. Trail(t, p, m, a, e) /\ s \o (After(t, b)[0] \o e[m]) = Preorder(t)[t.root]
    BY DEF Goes, Remaining
  <1>3. b \in DOMAIN t.nodes
    BY <1>2, TrailFacts
  <1>4. Trail(t, q, m, a, e)
    BY <1>1, <1>2 DEF Trail
  <1>5. 1 \in 1 .. Len(KidsOf(t, b)) /\ 1 - 1 = 0
    <2>1. PICK k : k = KidsOf(t, b)
      OBVIOUS
    <2>2. k \in Seq(DOMAIN t.nodes) /\ k # <<>>
      BY <1>3, <2>1, TreeFacts
    <2>3. Len(k) \in Nat /\ Len(k) # 0
      BY <2>2
    <2> QED
      BY <2>1, <2>3
  <1> HIDE DEF m, b
  <1>6. PICK k, d : k = q[m + 1] /\ d = KidsOf(t, b)[k]
    OBVIOUS
  <1>7. k \in 1 .. Len(KidsOf(t, b)) /\ s \o (After(t, b)[k - 1] \o e[m]) = Preorder(t)[t.root]
    BY <1>1, <1>2, <1>5, <1>6
  <1>8. b = a[m]
    BY DEF b
  <1>9. Along(t, q)[Len(q)] = d /\ WalkShape(t, q, FALSE, Append(s, d), "walk")
    <2>1. Entering(t, q, m, a, e, b, k, d, s)
      BY <1>1, <1>4, <1>6, <1>7, <1>8 DEF Entering
    <2> QED
      BY <2>1, Enters
  <1> QED
    BY <1>9

\* The path to the next sibling.
Beside(p, q) ==
  /\ p \in Turns /\ Len(p) \in Nat /\ Len(p) # 0 /\ DOMAIN p = 1 .. Len(p)
  /\ p[Len(p)] \in Nat \ {0}
  /\ q \in Turns /\ Len(q) = Len(p) /\ q[Len(p)] = p[Len(p)] + 1
  /\ \A i \in 1 .. Len(p) - 1 : q[i] = p[i]

LEMMA BesideFacts ==
  ASSUME NEW p \in Turns, p # <<>>
  PROVE  Beside(p, [p EXCEPT ![Len(p)] = @ + 1])
  <1>1. PICK L : L = Len(p)
    OBVIOUS
  <1>2. L \in Nat /\ L # 0 /\ DOMAIN p = 1 .. L
    BY <1>1 DEF Turns
  <1>3. L \in 1 .. L /\ \A i \in 1 .. L - 1 : i \in 1 .. L /\ i # L
    BY <1>2
  <1>4. \A i \in 1 .. L : p[i] \in Nat \ {0}
    BY <1>2 DEF Turns
  <1>5. PICK k : k = p[L] + 1
    OBVIOUS
  <1>6. k \in Nat \ {0}
    BY <1>3, <1>4, <1>5
  <1>7. PICK q : q = [i \in 1 .. L |-> IF i = L THEN k ELSE p[i]]
    OBVIOUS
  <1>8. [p EXCEPT ![Len(p)] = @ + 1] = q
    BY <1>1, <1>2, <1>3, <1>5, <1>7
  <1>9. q[L] = k /\ \A i \in 1 .. L - 1 : q[i] = p[i]
    BY <1>3, <1>7
  <1> DEFINE T == Nat \ {0}
  <1>10. q \in [1 .. L -> T]
    BY <1>4, <1>6, <1>7
  <1> HIDE DEF T
  <1>11. q \in Seq(T) /\ Len(q) = L
    BY <1>2, <1>10
  <1> QED
    BY <1>1, <1>2, <1>3, <1>4, <1>5, <1>8, <1>9, <1>11 DEF Beside, T, Turns

\* goto_next_sibling, and the step back to the parent when there is none.
LEMMA Proceeds ==
  ASSUME NEW t, TreeOK(t), NEW p \in Turns, NEW q, Beside(p, q),
         NEW s \in Seq(DOMAIN t.nodes),
         NEW u \in BOOLEAN, NEW a, NEW e, Goes(t, p, u, s, a, e),
         u \/ KidsOf(t, a[Len(p)]) = <<>>,
         NEW c, c = Along(t, q)[Len(q)]
  PROVE  IF c # 0 THEN WalkShape(t, q, FALSE, Append(s, c), "walk")
         ELSE WalkShape(t, Front(p), TRUE, s, "walk")
  <1> DEFINE L == Len(p)
             m == L - 1
             b == a[m]
             k == p[L]
  <1>1. /\ L \in Nat /\ L # 0 /\ m \in Nat /\ L = m + 1 /\ DOMAIN p = 1 .. L
        /\ k \in Nat \ {0}
    BY DEF Beside
  <1>2. /\ q \in Turns /\ Len(q) = L /\ q[L] = k + 1
        /\ \A i \in 1 .. m : q[i] = p[i]
    BY DEF Beside
  <1>3. /\ Trail(t, p, L, a, e)
        /\ s \o (Remaining(t, u, a[L]) \o e[L]) = Preorder(t)[t.root]
    BY DEF Goes
  <1>4. a[L] \in DOMAIN t.nodes /\ e[L] \in Seq(DOMAIN t.nodes)
    BY <1>3, TrailFacts
  <1>5. s \o e[L] = Preorder(t)[t.root]
    <2>1. Remaining(t, u, a[L]) = <<>>
      BY <1>4, NothingBelow
    <2>2. <<>> \o e[L] = e[L]
      BY <1>4, ConcatEmptySeq
    <2> QED
      BY <1>3, <2>1, <2>2
  <1>6. k \in 1 .. Len(KidsOf(t, b)) /\ e[L] = After(t, b)[k] \o e[m]
    <2>1. L \in 1 .. L
      BY <1>1
    <2> QED
      BY <1>3, <2>1 DEF Trail
  <1> HIDE DEF L, k
  <1>7. Trail(t, p, m, a, e) /\ Trail(t, q, m, a, e)
    <2>1. \A i \in 0 .. m : i \in 0 .. L
      BY <1>1
    <2>2. \A i \in 1 .. m : i \in 1 .. L
      BY <1>1
    <2> HIDE DEF m
    <2>3. Trail(t, p, m, a, e)
      BY <1>3, <2>1, <2>2 DEF Trail
    <2> QED
      BY <1>2, <2>3 DEF Trail
  <1> HIDE DEF m
  <1>8. b \in DOMAIN t.nodes /\ e[m] \in Seq(DOMAIN t.nodes)
    <2>1. m \in 0 .. m
      BY <1>1
    <2> QED
      BY <1>7, <2>1 DEF Trail
  <1> HIDE DEF b
  <1>9. Len(KidsOf(t, b)) \in Nat
    BY <1>8, TreeFacts
  <1>10. CASE k + 1 <= Len(KidsOf(t, b))
    <2>1. PICK l, d : l = q[m + 1] /\ d = KidsOf(t, b)[l]
      OBVIOUS
    <2>2. l = k + 1 /\ l \in 1 .. Len(KidsOf(t, b)) /\ l - 1 = k
      <3>1. l = k + 1
        BY <1>1, <1>2, <2>1
      <3> QED
        BY <1>1, <1>9, <1>10, <3>1
    <2>3. s \o (After(t, b)[l - 1] \o e[m]) = Preorder(t)[t.root]
      BY <1>5, <1>6, <2>2
    <2>4. b = a[m]
      BY DEF b
    <2>5. Along(t, q)[Len(q)] = d /\ WalkShape(t, q, FALSE, Append(s, d), "walk")
      <3>1. Entering(t, q, m, a, e, b, l, d, s)
        BY <1>1, <1>2, <1>7, <2>1, <2>2, <2>3, <2>4 DEF Entering
      <3> QED
        BY <3>1, Enters
    <2>6. d \in DOMAIN t.nodes /\ d # 0
      <3>1. d \in DOMAIN t.nodes
        <4>1. l \in DOMAIN KidsOf(t, b)
          BY <1>8, <2>2, TreeFacts
        <4> QED
          BY <1>8, <2>1, <4>1, UnderFacts
      <3> QED
        BY <3>1, TreeFacts
    <2> QED
      BY <2>5, <2>6
  <1>11. CASE ~(k + 1 <= Len(KidsOf(t, b)))
    <2>1. Along(t, q)[m] = b
      <3>1. m \in 0 .. Len(q) /\ m \in 0 .. m
        BY <1>1, <1>2
      <3>2. \A i \in 0 .. m : Along(t, q)[i] = a[i]
        BY <1>2, <1>7, <3>1, AlongTrail
      <3> QED
        BY <3>1, <3>2 DEF b
    <2>2. Along(t, q)[L] = Turn(t, q, L, b)
      <3>1. L \in 1 .. Len(q) /\ L - 1 = m
        BY <1>1, <1>2
      <3> QED
        <4>1. Along(t, q)[L] = Turn(t, q, L, Along(t, q)[L - 1])
          BY <1>2, <3>1, AlongFacts
        <4> QED
          BY <2>1, <3>1, <4>1
    <2>3. q[L] > Len(KidsOf(t, b))
      BY <1>1, <1>2, <1>9, <1>11
    <2>4. c = 0
      BY <1>2, <2>2, <2>3 DEF Turn, KidsOf
    <2>5. k = Len(KidsOf(t, b))
      BY <1>1, <1>6, <1>9, <1>11
    <2>6. e[L] = e[m]
      <3>1. After(t, b)[k] = <<>>
        BY <1>8, <2>5, AfterFacts DEF Behind
      <3>2. <<>> \o e[m] = e[m]
        BY <1>8, ConcatEmptySeq
      <3> QED
        BY <1>6, <3>1, <3>2
    <2>7. PICK f : f = Front(p)
      OBVIOUS
    <2>8. f \in Turns /\ Len(f) = m /\ \A i \in 1 .. m : f[i] = p[i]
      <3>1. f = SubSeq(p, 1, Len(p) - 1)
        BY <2>7 DEF Front
      <3>2. f = [i \in 1 .. m |-> p[i]]
        BY <1>1, <3>1 DEF m, L
      <3>3. \A i \in 1 .. m : p[i] \in Nat \ {0}
        <4>1. \A i \in DOMAIN p : p[i] \in Nat \ {0}
          BY DEF Turns
        <4> QED
          BY <1>1, <4>1
      <3> DEFINE T == Nat \ {0}
      <3>4. f \in [1 .. m -> T]
        BY <3>2, <3>3
      <3> HIDE DEF T
      <3>5. f \in Seq(T) /\ Len(f) = m
        BY <1>1, <3>4
      <3> QED
        BY <3>2, <3>5 DEF T, Turns
    <2>9. Trail(t, f, m, a, e)
      BY <1>7, <2>8 DEF Trail
    <2>10. s \o (Remaining(t, TRUE, b) \o e[m]) = Preorder(t)[t.root]
      <3>1. <<>> \o e[m] = e[m]
        BY <1>8, ConcatEmptySeq
      <3> QED
        BY <1>5, <2>6, <3>1 DEF Remaining
    <2>11. Goes(t, f, TRUE, s, a, e)
      BY <2>8, <2>9, <2>10 DEF Goes, b
    <2>12. WalkShape(t, f, TRUE, s, "walk")
      BY <2>8, <2>11 DEF WalkShape
    <2> QED
      BY <2>4, <2>7, <2>12
  <1> QED
    BY <1>10, <1>11

\* The client stands at the root and met it.
LEMMA WalkBegins ==
  ASSUME NEW t, TreeOK(t)
  PROVE  WalkShape(t, <<>>, FALSE, <<t.root>>, "walk")
  <1>1. PICK p, s : p = <<>> /\ s = <<t.root>>
    OBVIOUS
  <1>3. t.root \in DOMAIN t.nodes
    BY TreeFacts
  <1> DEFINE a == [i \in {0} |-> t.root]
             e == [i \in {0} |-> <<>>]
  <1>4. a[0] = t.root /\ e[0] = <<>> /\ Len(p) = 0 /\ 0 .. 0 = {0} /\ 1 .. 0 = {}
    BY <1>1
  <1> HIDE DEF a, e
  <1>5. Trail(t, p, 0, a, e)
    <2>1. <<>> \in Seq(DOMAIN t.nodes)
      OBVIOUS
    <2>2. \A i \in 0 .. 0 : i = 0
      BY <1>4
    <2>3. \A i \in 0 .. 0 : a[i] \in DOMAIN t.nodes /\ e[i] \in Seq(DOMAIN t.nodes)
      BY <1>3, <1>4, <2>1, <2>2
    <2> QED
      BY <1>4, <2>3 DEF Trail
  <1>6. After(t, t.root)[0] \in Seq(DOMAIN t.nodes)
    <2>1. 0 \in 0 .. Len(KidsOf(t, t.root))
      BY <1>3, TreeFacts
    <2> QED
      BY <1>3, <2>1, AfterFacts DEF Behind
  <1>7. After(t, t.root)[0] \o <<>> = After(t, t.root)[0]
    BY <1>6, ConcatEmptySeq
  <1>8. s \o (Remaining(t, FALSE, t.root) \o <<>>) = Preorder(t)[t.root]
    BY <1>1, <1>3, <1>7, AfterFacts DEF Remaining
  <1>9. Goes(t, p, FALSE, s, a, e)
    BY <1>4, <1>5, <1>8 DEF Goes
  <1>10. s \in Seq(DOMAIN t.nodes) /\ p \in Turns
    <2> DEFINE D == DOMAIN t.nodes
    <2>1. t.root \in D
      BY <1>3
    <2> HIDE DEF D
    <2>2. <<t.root>> \in Seq(D)
      BY <2>1
    <2> QED
      BY <1>1, <2>2 DEF D, Turns
  <1>11. WalkShape(t, p, FALSE, s, "walk")
    BY <1>9, <1>10 DEF WalkShape
  <1> QED
    BY <1>1, <1>11

LEMMA WalkInit ==
  ASSUME Chosen, phase = Phase(job.task), OpsInit
  PROVE  WalkInv
  <1>1. job.task = "walk" =>
          path = <<>> /\ move = "child" /\ seen = <<job.tree.root>> /\ phase = "walk"
    BY Named DEF OpsInit, Phase
  <1>2. TreeOK(job.tree)
    BY ReadingsAssumption DEF Chosen, ReadingOK
  <1>3. job.task = "walk" => WalkShape(job.tree, path, FALSE, seen, phase) /\ Back = FALSE
    BY <1>1, <1>2, WalkBegins DEF Back
  <1> QED
    BY <1>1, <1>3 DEF WalkInv

\* Where there are no children it is the same whether the client has been below.
LEMMA Childless ==
  ASSUME NEW t, TreeOK(t), NEW p, NEW s, WalkShape(t, p, FALSE, s, "walk"),
         KidsOf(t, Along(t, p)[Len(p)]) = <<>>
  PROVE  WalkShape(t, p, TRUE, s, "walk")
  <1>1. p \in Turns /\ s \in Seq(DOMAIN t.nodes)
    BY DEF WalkShape
  <1>2. PICK a, e : Goes(t, p, FALSE, s, a, e)
    BY DEF WalkShape
  <1>3. Trail(t, p, Len(p), a, e)
    BY <1>2 DEF Goes
  <1>4. Along(t, p)[Len(p)] = a[Len(p)] /\ a[Len(p)] \in DOMAIN t.nodes
    BY <1>1, <1>3, TrailFacts
  <1>5. Remaining(t, FALSE, a[Len(p)]) = Remaining(t, TRUE, a[Len(p)])
    BY <1>4, NothingBelow
  <1>6. Goes(t, p, TRUE, s, a, e)
    BY <1>2, <1>5 DEF Goes
  <1> QED
    BY <1>1, <1>6 DEF WalkShape

\* A step aside and back is none.
LEMMA AsideAndBack ==
  ASSUME NEW p \in Turns, p # <<>>
  PROVE  [[p EXCEPT ![Len(p)] = @ + 1] EXCEPT ![Len(p)] = @ - 1] = p
  <1>1. PICK L : L = Len(p)
    OBVIOUS
  <1>2. L \in DOMAIN p /\ p[L] \in Nat
    BY <1>1 DEF Turns
  <1>3. PICK q : q = [p EXCEPT ![L] = @ + 1]
    OBVIOUS
  <1>4. q \in [DOMAIN p -> Int] /\ q[L] = p[L] + 1 /\ \A i \in DOMAIN p : i # L => q[i] = p[i]
    BY <1>2, <1>3 DEF Turns
  <1>5. PICK b : b = [q EXCEPT ![L] = @ - 1]
    OBVIOUS
  <1>6. b = [i \in DOMAIN p |-> b[i]] /\ \A i \in DOMAIN p : b[i] = p[i]
    <2>1. PICK D : D = DOMAIN p
      OBVIOUS
    <2>2. DOMAIN q = D /\ b = [q EXCEPT ![L] = q[L] - 1]
      BY <1>4, <1>5, <2>1
    <2>3. b = [i \in D |-> b[i]]
      BY <2>2
    <2>4. \A i \in D : i # L => b[i] = q[i]
      BY <2>2
    <2>5. b[L] = p[L] + 1 - 1
      BY <1>2, <1>4, <2>1, <2>2
    <2>6. b[L] = p[L]
      BY <1>2, <2>5
    <2> QED
      BY <1>4, <2>1, <2>3, <2>4, <2>6
  <1>7. p = [i \in DOMAIN p |-> p[i]]
    BY DEF Turns
  <1> QED
    BY <1>1, <1>3, <1>5, <1>6, <1>7

LEMMA WalkStep ==
  ASSUME Chosen, WalkInv, [OpsNext]_<<readVars, opsVars>>
  PROVE  WalkInv'
  <1>1. PICK t, p, s : t = job.tree /\ p = path /\ s = seen
    OBVIOUS
  <1>2. job' = job
    BY JobStays
  <1> SUFFICES ASSUME job.task = "walk"
               PROVE  /\ move' \in {"child", "sibling", "parent"}
                      /\ WalkShape(t, path', Back', seen', phase')
                      /\ phase' = "walk" /\ move' = "parent" /\ path' # <<>> =>
                           WalkShape(t, Front(path'), TRUE, seen', "walk")
    BY <1>1, <1>2 DEF WalkInv
  <1>3. /\ WalkShape(t, p, Back, s, phase) /\ TreeOK(t) /\ move \in {"child", "sibling", "parent"}
        /\ phase = "walk" /\ move = "parent" /\ p # <<>> => WalkShape(t, Front(p), TRUE, s, "walk")
    BY <1>1, ReadingsAssumption DEF WalkInv, Chosen, ReadingOK
  <1>4. phase \in {"walk", "done"} /\ p \in Turns /\ s \in Seq(DOMAIN t.nodes)
    BY <1>3 DEF WalkShape
  <1>5. Resolve(path) = Along(t, p)[Len(p)] /\ Kids(Resolve(path)) = KidsOf(t, Along(t, p)[Len(p)])
    BY <1>1, Named DEF Resolve
  <1>6. CASE UNCHANGED <<readVars, opsVars>>
    BY <1>1, <1>3, <1>6 DEF readVars, opsVars, Back
  <1>7. CASE GotoFirstChild
    <2>1. phase = "walk" /\ phase' = "walk" /\ move = "child" /\ Back = FALSE
      BY <1>7 DEF GotoFirstChild, readVars, Back
    <2>2. CASE Kids(Resolve(path)) # <<>>
      <3>1. PICK q, c : q = Append(p, 1) /\ c = Along(t, q)[Len(q)]
        OBVIOUS
      <3>2. move' = "child" /\ path' = q
        BY <1>1, <1>7, <2>1, <2>2, <3>1 DEF GotoFirstChild
      <3>3. seen' = Append(s, c)
        BY <1>1, <1>2, <1>7, <2>2, <3>1, <3>2 DEF GotoFirstChild, Resolve
      <3>4. PICK a, e : Goes(t, p, FALSE, s, a, e)
        BY <1>3, <2>1 DEF WalkShape
      <3>5. KidsOf(t, a[Len(p)]) # <<>>
        BY <1>3, <1>4, <1>5, <2>2, <3>4, TrailFacts DEF Goes
      <3>6. WalkShape(t, q, FALSE, Append(s, c), "walk")
        BY <1>3, <1>4, <3>1, <3>4, <3>5, Descends
      <3>7. Back' = FALSE
        BY <3>2 DEF Back
      <3> QED
        BY <2>1, <3>2, <3>3, <3>6, <3>7
    <2>3. CASE Kids(Resolve(path)) = <<>>
      <3>1. move' = "sibling" /\ path' = p /\ seen' = s
        BY <1>1, <1>7, <2>3 DEF GotoFirstChild
      <3>2. Back' = TRUE
        BY <3>1 DEF Back
      <3>3. WalkShape(t, p, TRUE, s, "walk")
        BY <1>3, <1>5, <2>1, <2>3, Childless
      <3> QED
        BY <2>1, <3>1, <3>2, <3>3
    <2> QED
      BY <2>2, <2>3
  <1>8. CASE GotoNextSibling
    <2>1. /\ phase = "walk" /\ phase' = "walk" /\ move = "sibling" /\ Back = TRUE
          /\ WalkShape(t, p, TRUE, s, "walk")
      BY <1>3, <1>8 DEF GotoNextSibling, readVars, Back
    <2>2. PICK q, c : q = [p EXCEPT ![Len(p)] = @ + 1] /\ c = Along(t, q)[Len(q)]
      OBVIOUS
    <2>3. Sideways = q /\ Resolve(Sideways) = c
      BY <1>1, <2>2 DEF Sideways, Resolve
    <2>4. ASSUME p # <<>>
          PROVE  IF c # 0 THEN WalkShape(t, q, FALSE, Append(s, c), "walk")
                 ELSE WalkShape(t, Front(p), TRUE, s, "walk")
      <3>1. Beside(p, q)
        BY <1>4, <2>2, <2>4, BesideFacts
      <3>2. PICK a, e : Goes(t, p, TRUE, s, a, e)
        BY <2>1 DEF WalkShape
      <3> QED
        BY <1>3, <1>4, <2>2, <3>1, <3>2, Proceeds
    <2>5. CASE p # <<>> /\ c # 0
      <3>1. move' = "child" /\ path' = q
        BY <1>1, <1>8, <2>3, <2>5 DEF GotoNextSibling
      <3>2. seen' = Append(s, c)
        BY <1>1, <1>2, <1>8, <2>2, <2>3, <2>5, <3>1 DEF GotoNextSibling, Resolve
      <3>3. Back' = FALSE
        BY <3>1 DEF Back
      <3> QED
        BY <2>1, <2>4, <2>5, <3>1, <3>2, <3>3
    <2>6. CASE p # <<>> /\ c = 0
      <3>1. move' = "parent" /\ path' = StepBack /\ seen' = s
        BY <1>1, <1>8, <2>3, <2>6 DEF GotoNextSibling
      <3>2. StepBack = p
        BY <1>1, <1>4, <2>6, AsideAndBack DEF StepBack, Sideways
      <3>3. Back' = TRUE
        BY <3>1 DEF Back
      <3> QED
        BY <2>1, <2>4, <2>6, <3>1, <3>2, <3>3
    <2>7. CASE p = <<>>
      <3>1. move' = "parent" /\ path' = p /\ seen' = s
        BY <1>1, <1>8, <2>7 DEF GotoNextSibling
      <3>2. Back' = TRUE
        BY <3>1 DEF Back
      <3> QED
        BY <2>1, <2>7, <3>1, <3>2
    <2> QED
      BY <2>5, <2>6, <2>7
  <1>9. CASE GotoParent
    <2>1. /\ phase = "walk" /\ phase' = "walk" /\ move = "parent" /\ p # <<>>
          /\ path' = Front(p) /\ move' = "sibling" /\ seen' = s
      BY <1>1, <1>9 DEF GotoParent, readVars
    <2>2. Back' = TRUE
      BY <2>1 DEF Back
    <2> QED
      BY <1>3, <2>1, <2>2
  <1>10. CASE WalkEnds
    <2>1. /\ move = "parent" /\ p = <<>> /\ phase' = "done" /\ phase = "walk"
          /\ path' = p /\ move' = move /\ seen' = s
      BY <1>1, <1>10 DEF WalkEnds, opsVars
    <2>2. Back = TRUE /\ Back' = TRUE
      BY <2>1 DEF Back
    <2>3. WalkShape(t, p, TRUE, s, "done")
      BY <1>3, <2>1, <2>2 DEF WalkShape
    <2> QED
      BY <2>1, <2>2, <2>3
  <1>11. ~(FindBelow \/ FindEnds \/ MarkSkip \/ MarkBelow \/ MarkNode \/ MarkEnds)
    BY <1>4 DEF FindBelow, FindEnds, MarkSkip, MarkBelow, MarkNode, MarkEnds, Marking
  <1> QED
    BY <1>6, <1>7, <1>8, <1>9, <1>10, <1>11 DEF OpsNext

(***************************************************************************)
(* A client of the cursor that asks for the first child, else the next     *)
(* sibling, else the parent, meets the nodes of the tree in the order of a *)
(* walk from the left, each as often as it hangs in the tree, and the      *)
(* cursor is at a node all the time, after calls that fail too.            *)
(***************************************************************************)
THEOREM CursorWalks == Spec => []WalkIsPreorder
  <1>1. Init => Chosen /\ WalkInv
    BY WalkInit DEF Init, Chosen
  <1>2. Chosen /\ WalkInv /\ [Next]_vars => Chosen' /\ WalkInv'
    <2> SUFFICES ASSUME Chosen, WalkInv, [Next]_vars
                 PROVE  Chosen' /\ WalkInv'
      OBVIOUS
    <2>1. CASE [OpsNext]_<<readVars, opsVars>>
      BY <2>1, WalkStep, ReaderStep DEF Chosen
    <2>2. CASE phase \in QueryPhases /\ UNCHANGED opsVars
      <3>1. job' = job
        BY ReaderStep
      <3>2. job.task # "walk"
        BY <2>2 DEF WalkInv, WalkShape, QueryPhases
      <3>3. (job.task # "walk")'
        BY <3>1, <3>2
      <3> QED
        BY <3>1, <3>3 DEF Chosen, WalkInv
    <2> QED
      BY <2>1, <2>2, ReaderStep
  <1>3. Chosen /\ WalkInv => WalkIsPreorder
    <2> SUFFICES ASSUME Chosen, WalkInv, job.task = "walk"
                 PROVE  /\ Resolve(path) # 0
                        /\ IsPrefix(seen, Walked)
                        /\ phase = "done" => seen = Walked
      BY DEF WalkIsPreorder
    <2>1. PICK t : t = job.tree
      OBVIOUS
    <2>2. WalkShape(t, path, Back, seen, phase) /\ TreeOK(t)
      BY <2>1, ReadingsAssumption DEF WalkInv, Chosen, ReadingOK
    <2>3. PICK a, e : Goes(t, path, Back, seen, a, e)
      BY <2>2 DEF WalkShape
    <2>4. path \in Turns /\ Back \in BOOLEAN /\ seen \in Seq(DOMAIN t.nodes)
      BY <2>2 DEF WalkShape
    <2>5. PICK n, w : n = a[Len(path)] /\ w = e[Len(path)]
      OBVIOUS
    <2>6. /\ Resolve(path) = n /\ n \in DOMAIN t.nodes /\ w \in Seq(DOMAIN t.nodes)
          /\ path = <<>> => n = t.root /\ w = <<>>
      <3>1. Trail(t, path, Len(path), a, e)
        BY <2>3 DEF Goes
      <3> QED
        BY <2>1, <2>2, <2>4, <2>5, <3>1, TrailFacts DEF Resolve
    <2>7. Walked = seen \o (Remaining(t, Back, n) \o w)
      BY <2>1, <2>3, <2>5 DEF Goes, Walked, Root
    <2>8. Remaining(t, Back, n) \in Seq(DOMAIN t.nodes)
      <3>1. 0 \in 0 .. Len(KidsOf(t, n))
        BY <2>2, <2>6, TreeFacts
      <3>2. After(t, n)[0] \in Seq(DOMAIN t.nodes)
        BY <2>2, <2>6, <3>1, AfterFacts DEF Behind
      <3>3. <<>> \in Seq(DOMAIN t.nodes)
        OBVIOUS
      <3> QED
        BY <3>2, <3>3 DEF Remaining
    <2>9. Remaining(t, Back, n) \o w \in Seq(DOMAIN t.nodes)
      BY <2>6, <2>8, Joined
    <2>10. IsPrefix(seen, Walked)
      BY <2>4, <2>7, <2>9, PrefixOfJoined
    <2>11. Resolve(path) # 0
      BY <2>2, <2>6, TreeFacts
    <2>12. ASSUME phase = "done" PROVE seen = Walked
      <3>1. path = <<>> /\ (Back \/ KidsOf(t, t.root) = <<>>)
        BY <2>2, <2>12 DEF WalkShape
      <3>2. n = t.root /\ w = <<>>
        BY <2>6, <3>1
      <3>3. Remaining(t, Back, n) = <<>>
        BY <2>2, <2>6, <3>1, <3>2, NothingBelow
      <3>4. <<>> \o <<>> = <<>> /\ seen \o <<>> = seen
        BY <2>4, ConcatEmptySeq
      <3> QED
        BY <2>7, <3>2, <3>3, <3>4
    <2> QED
      BY <2>10, <2>11, <2>12
  <1> QED
    BY <1>1, <1>2, <1>3, PTL DEF Spec
=============================================================================
