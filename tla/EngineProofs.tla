----------------------------- MODULE EngineProofs -----------------------------
(***************************************************************************)
(* Proofs about the engine, for every set of calls that satisfies          *)
(* JobsAssumption: the type invariant, what holds of the heads and the     *)
(* worklist, and the sibling links of the arena.                           *)
(***************************************************************************)
EXTENDS EngineProperties, TLAPS, SequenceTheorems, WellFoundedInduction

-------------------------------------------------------------------------------
(* Sequences.                                                              *)

\* A prefix keeps its elements.
LEMMA PrefixProperties ==
  ASSUME NEW S, NEW s \in Seq(S), NEW m \in Nat, m <= Len(s)
  PROVE  /\ SubSeq(s, 1, m) \in Seq(S)
         /\ Len(SubSeq(s, 1, m)) = m
         /\ \A i \in 1 .. m : SubSeq(s, 1, m)[i] = s[i]
  <1>1. SubSeq(s, 1, m) \in Seq(S)
    OBVIOUS
  <1>2. Len(SubSeq(s, 1, m)) = m
    OBVIOUS
  <1>3. ASSUME NEW i \in 1 .. m PROVE SubSeq(s, 1, m)[i] = s[i]
    OBVIOUS
  <1> QED
    BY <1>1, <1>2, <1>3

LEMMA SeqElement ==
  ASSUME NEW S, NEW s \in Seq(S), NEW i \in DOMAIN s
  PROVE  s[i] \in S
  OBVIOUS

\* Front drops the last element and keeps the rest.
LEMMA FrontProperties ==
  ASSUME NEW S, NEW s \in Seq(S), s # <<>>
  PROVE  /\ Front(s) \in Seq(S)
         /\ Len(Front(s)) = Len(s) - 1
         /\ \A i \in 1 .. Len(s) - 1 : Front(s)[i] = s[i]
         /\ Len(s) \in Nat \ {0}
         /\ Last(s) \in S
         /\ Last(s) = s[Len(s)]
  <1>1. Len(s) \in Nat /\ Len(s) > 0
    BY EmptySeq, LenProperties
  <1> DEFINE m == Len(s) - 1
  <1>2. m \in Nat /\ m <= Len(s) /\ m = Len(s) - 1
    BY <1>1
  <1>3. s[Len(s)] \in S
    BY <1>1, ElementOfSeq
  <1>4. Front(s) = SubSeq(s, 1, m)
    BY DEF Front
  <1> HIDE DEF m
  <1>5. /\ SubSeq(s, 1, m) \in Seq(S)
        /\ Len(SubSeq(s, 1, m)) = m
        /\ \A i \in 1 .. m : SubSeq(s, 1, m)[i] = s[i]
    BY <1>2, PrefixProperties
  <1> QED
    BY <1>1, <1>2, <1>3, <1>4, <1>5 DEF Last

-------------------------------------------------------------------------------
(* What the assumption on the calls says of a grammar and its table.       *)

LEMMA GrammarFacts ==
  ASSUME job \in Jobs
  PROVE  /\ GrammarOK(G)
         /\ Source \in Seq(G.terminals \cup {UNKNOWN} \cup NoToken)
         /\ Len(Source) \in Nat
         /\ 0 \in States(G)
         /\ Symbols(G) \subseteq Nat
         /\ 0 \in Symbols(G)
         /\ G.terminals \subseteq Symbols(G)
         /\ DOMAIN G.prods \subseteq Nat
  <1>1. JobOK(job)
    BY JobsAssumption
  <1>2. GrammarOK(G) /\ Source \in Seq(G.terminals \cup {UNKNOWN} \cup NoToken)
    BY <1>1 DEF JobOK, G, Source, NoToken
  <1>3. Len(Source) \in Nat
    BY <1>2
  <1>4. 0 \in States(G) /\ Symbols(G) \subseteq Nat /\ 0 \in Symbols(G)
    BY <1>2 DEF GrammarOK, States, Symbols
  <1>5. G.terminals \subseteq Symbols(G) /\ DOMAIN G.prods \subseteq Nat
    BY <1>2 DEF GrammarOK
  <1> QED
    BY <1>2, <1>3, <1>4, <1>5

\* A cell is a sequence of entries, and only a column of the table has any.
LEMMA CellTyped ==
  ASSUME job \in Jobs, NEW s \in States(G), NEW a
  PROVE  /\ Actions(G, s, a) \in Seq(Entries(G))
         /\ Actions(G, s, a) # <<>> => a \in Symbols(G)
  <1>1. GrammarOK(G)
    BY GrammarFacts
  <1>2. a \in Symbols(G) => G.table[s][a] \in Seq(Entries(G))
    BY <1>1 DEF GrammarOK
  <1> QED
    BY <1>2 DEF Actions

\* A reduction names a production, and a shift a state.
LEMMA EntryTyped ==
  ASSUME job \in Jobs, NEW e \in Entries(G)
  PROVE  /\ e.op = "reduce" => e.arg \in DOMAIN G.prods
         /\ e.op = "shift" => e.arg \in States(G)
  BY DEF Entries, Accept

LEMMA ProductionTyped ==
  ASSUME job \in Jobs, NEW p \in DOMAIN G.prods
  PROVE  /\ G.prods[p].lhs \in Symbols(G)
         /\ G.prods[p].rhs \in Seq(Symbols(G))
         /\ Len(G.prods[p].rhs) \in Nat
         /\ DOMAIN G.prods[p].field \subseteq DOMAIN G.prods[p].rhs
         /\ \A i \in DOMAIN G.prods[p].field : G.prods[p].field[i] \in Nat
         /\ DOMAIN G.prods[p].alias \subseteq DOMAIN G.prods[p].rhs
         /\ \A i \in DOMAIN G.prods[p].alias : G.prods[p].alias[i] \in Nat
  <1>1. ProductionOK(G, G.prods[p])
    BY GrammarFacts DEF GrammarOK
  <1> QED
    BY <1>1 DEF ProductionOK

\* A goto that is found is a state of the table.
LEMMA GotoTyped ==
  ASSUME NEW s, NEW a, GotoState(G, s, a) # NoState
  PROVE  GotoState(G, s, a) \in States(G)
  BY DEF GotoState

-------------------------------------------------------------------------------
(* What the lexer answers.                                                 *)

LEMMA LexedTyped ==
  ASSUME job \in Jobs, NEW c \in Bytes, NEW valid \in SUBSET Symbols(G),
         NEW t \in Lexed(c, valid)
  PROVE  /\ t \in [kind : Kinds, start : Bytes, end : Bytes]
         /\ t.kind # END
         /\ c <= t.start
         /\ t.start < Len(Source)
         /\ t.start <= t.end
         /\ t.end <= t.start + 1
  <1>1. PICK k \in c .. Len(Source) - 1 : t = TokenAt(k, valid)
    BY DEF Lexed
  <1>2. Len(Source) \in Nat /\ c \in Nat /\ k \in Nat
    BY <1>1, GrammarFacts DEF Bytes
  <1>3. Source[k + 1] \in G.terminals \cup {UNKNOWN} \cup NoToken
    BY <1>1, <1>2, GrammarFacts
  <1>4. Source[k + 1] \in valid => Source[k + 1] \in G.terminals
    BY <1>3, GrammarFacts DEF NoToken, UNKNOWN, BLANK, EMPTY
  <1>5. END \notin G.terminals
    BY GrammarFacts DEF END
  <1> QED
    BY <1>1, <1>2, <1>4, <1>5 DEF TokenAt, Bytes, Kinds, END, UNKNOWN

LEMMA MaskTyped ==
  ASSUME job \in Jobs
  PROVE  Mask \subseteq Symbols(G)
  BY GrammarFacts DEF Mask, ValidIn

-------------------------------------------------------------------------------
(* Sequences and slots.                                                    *)

LEMMA FunctionIsSeq ==
  ASSUME NEW S, NEW n \in Nat, NEW f \in [1 .. n -> S]
  PROVE  f \in Seq(S) /\ Len(f) = n
  OBVIOUS

\* A bounded set of positions has a last member.
LEMMA LastExists ==
  ASSUME NEW n \in Nat, NEW I \in SUBSET (1 .. n), I # {}
  PROVE  \E i \in I : \A j \in I : j <= i
  <1> DEFINE T == {n - i : i \in I}
  <1>0. \A i \in I : i \in Nat /\ n - i \in Nat
    OBVIOUS
  <1>1. T \subseteq Nat /\ T # {}
    BY <1>0
  <1>2. PICK x \in T : \A y \in T : ~(<<y, x>> \in OpToRel(<, Nat))
    BY <1>1, WFMin, NatLessThanWellFounded
  <1>3. \A y \in T : ~(y < x)
    BY <1>1, <1>2 DEF OpToRel
  <1>4. PICK i \in I : x = n - i
    OBVIOUS
  <1>5. ASSUME NEW j \in I PROVE j <= i
    <2>1. ~(n - j < n - i)
      BY <1>3, <1>4
    <2> QED
      BY <1>0, <2>1
  <1> QED
    BY <1>5

\* LastSlot finds the last of the slots in I at which the kid stands.
LEMMA LastSlotProperties ==
  ASSUME NEW kids, NEW n \in Nat, NEW I \in SUBSET (1 .. n), NEW c,
         \E i \in I : kids[i] = c
  PROVE  /\ LastSlot(kids, c, I) \in I
         /\ kids[LastSlot(kids, c, I)] = c
         /\ \A j \in I : kids[j] = c => j <= LastSlot(kids, c, I)
  <1> DEFINE J == {i \in I : kids[i] = c}
  <1>1. J \subseteq 1 .. n /\ J # {}
    OBVIOUS
  <1>2. PICK i \in J : \A j \in J : j <= i
    BY <1>1, LastExists
  <1>3. \E k \in I : kids[k] = c /\ \A j \in I : kids[j] = c => j <= k
    BY <1>2
  <1> QED
    BY <1>3 DEF LastSlot

-------------------------------------------------------------------------------
(***************************************************************************)
(* The strengthening.  TypeOK is not inductive: whether a step indexes     *)
(* inside a vector depends on where the engine stands.                     *)
(***************************************************************************)

\* The symbol whose cell is visited is the look-ahead's, or at the end a column's.
SymbolOK ==
  pc \in {"act", "walk", "fix"} =>
    IF AtEnd THEN cur.sym \in Symbols(G) ELSE cur.sym = tok.kind

FixOK == pc = "fix" => ~AtEnd

\* A walk belongs to a reduction, and all its frames but the top one took an edge.
WalkOK ==
  pc = "walk" =>
    /\ AtEntry("reduce")
    /\ Depth > 0
    /\ frames # <<>>
    /\ \A i \in 1 .. Len(frames) - 1 : frames[i].edge # 0

\* Recovery skipped a token, and who is being attached can be.
RecoveryOK ==
  /\ pc \in {"resync", "attach"} => errKids # <<>>
  /\ pc = "attach" =>
       nextHeads # <<>> \/ \E i \in at .. Len(heads) : Continues(heads[i], tok.kind)
  /\ best # NoBest => best.heads # <<>>

ControlOK == SymbolOK /\ FixOK /\ WalkOK /\ RecoveryOK

IInv == job \in Jobs /\ TypeOK /\ ControlOK

-------------------------------------------------------------------------------
(* What the operators on the stack and on the arena keep.                  *)

LEMMA SeqWider ==
  ASSUME NEW S, NEW S2, S \subseteq S2, NEW s \in Seq(S)
  PROVE  s \in Seq(S2)
  OBVIOUS

\* A typed state stays typed when there is more to index.
LEMMA Widen ==
  ASSUME NEW N, NEW E \in Nat, NEW T, NEW N2, NEW E2 \in Nat, NEW T2,
         N \subseteq N2, E <= E2, T \subseteq T2, TypedIn(N, E, T)
  PROVE  TypedIn(N2, E2, T2)
  <1>1. edges \in Seq([child : N2, parent : N2, label : T2])
    <2>1. [child : N, parent : N, label : T] \subseteq [child : N2, parent : N2, label : T2]
      OBVIOUS
    <2>2. edges \in Seq([child : N, parent : N, label : T])
      BY DEF TypedIn
    <2> QED
      BY <2>1, <2>2, SeqWider
  <1>2. tree \in Seq([sym : Labels, start : Bytes, end : Bytes, kids : Seq(T2)])
    <2>1. Seq(T) \subseteq Seq(T2)
      OBVIOUS
    <2>2. [sym : Labels, start : Bytes, end : Bytes, kids : Seq(T)]
            \subseteq [sym : Labels, start : Bytes, end : Bytes, kids : Seq(T2)]
      BY <2>1
    <2>3. tree \in Seq([sym : Labels, start : Bytes, end : Bytes, kids : Seq(T)])
      BY DEF TypedIn
    <2> QED
      BY <2>2, <2>3, SeqWider
  <1>3. link \in Seq([kind : Int, field : Nat, next : T2 \cup {0}, parent : T2 \cup {0}])
    <2>1. [kind : Int, field : Nat, next : T \cup {0}, parent : T \cup {0}]
            \subseteq [kind : Int, field : Nat, next : T2 \cup {0}, parent : T2 \cup {0}]
      OBVIOUS
    <2>2. link \in Seq([kind : Int, field : Nat, next : T \cup {0}, parent : T \cup {0}])
      BY DEF TypedIn
    <2> QED
      BY <2>1, <2>2, SeqWider
  <1>4. frames \in Seq([node : N2, edge : 0 .. E2])
    <2>1. [node : N, edge : 0 .. E] \subseteq [node : N2, edge : 0 .. E2]
      OBVIOUS
    <2>2. frames \in Seq([node : N, edge : 0 .. E])
      BY DEF TypedIn
    <2> QED
      BY <2>1, <2>2, SeqWider
  <1>5. /\ heads \in Seq(N2) /\ work \in Seq(N2) /\ nextHeads \in Seq(N2)
        /\ errKids \in Seq(T2) /\ queued \subseteq N2 /\ limit \in 0 .. E2
        /\ root \in T2 \cup {0}
    BY DEF TypedIn
  <1>6. /\ cur \in [head : N2, sym : Symbols(G) \cup {UNKNOWN}, entry : Nat \ {0}]
        /\ best \in [heads : Seq(N2), pos : Bytes, cost : Nat]
    BY DEF TypedIn
  <1> QED
    BY <1>1, <1>2, <1>3, <1>4, <1>5, <1>6 DEF TypedIn

\* Growing a sequence keeps its elements and adds one.
LEMMA Grown ==
  ASSUME NEW S, NEW s \in Seq(S), NEW e \in S, NEW s2, s2 = Append(s, e)
  PROVE  /\ s2 \in Seq(S)
         /\ Len(s) \in Nat
         /\ Len(s2) = Len(s) + 1
         /\ DOMAIN s2 = DOMAIN s \cup {Len(s) + 1}
         /\ DOMAIN s = 1 .. Len(s)
         /\ \A i \in DOMAIN s : s2[i] = s[i]
         /\ s2[Len(s) + 1] = e
  OBVIOUS

\* The node of a key exists after AddEdge, and no node was moved.
LEMMA AddEdgeTyped ==
  ASSUME TypeOK, NEW s \in States(G), NEW p \in Bytes, NEW parent \in NodeIds,
         NEW label \in TreeIds', TreeIds \subseteq TreeIds', AddEdge(s, p, parent, label)
  PROVE  /\ gss' \in Seq([state : States(G), pos : Bytes])
         /\ NodeIds \subseteq NodeIds'
         /\ \A n \in NodeIds : gss'[n] = gss[n]
         /\ NodeAt(s, p) \in NodeIds'
         /\ gss'[NodeAt(s, p)] = [state |-> s, pos |-> p]
         /\ edges' \in Seq([child : NodeIds', parent : NodeIds', label : TreeIds'])
         /\ Len(edges) \in Nat
         /\ Len(edges') = Len(edges) + 1
         /\ \A i \in DOMAIN edges : edges'[i] = edges[i]
         /\ edges'[Len(edges) + 1] = [child |-> NodeAt(s, p), parent |-> parent, label |-> label]
  <1> DEFINE rec == [state |-> s, pos |-> p]
  <1>1. gss \in Seq([state : States(G), pos : Bytes]) /\ rec \in [state : States(G), pos : Bytes]
    BY DEF TypeOK, TypedIn
  <1>2. /\ gss' \in Seq([state : States(G), pos : Bytes])
        /\ NodeIds \subseteq NodeIds'
        /\ \A n \in NodeIds : gss'[n] = gss[n]
        /\ NodeAt(s, p) \in NodeIds'
        /\ gss'[NodeAt(s, p)] = rec
    <2>1. CASE \E n \in DOMAIN gss : gss[n] = rec
      BY <1>1, <2>1 DEF AddEdge, NodeAt, NodeIds
    <2>2. CASE ~\E n \in DOMAIN gss : gss[n] = rec
      <3>1. NodeAt(s, p) = Len(gss) + 1
        BY <2>2 DEF NodeAt
      <3>2. Len(gss) + 1 \notin DOMAIN gss
        BY <1>1
      <3>3. gss' = Append(gss, rec)
        BY <3>1, <3>2 DEF AddEdge
      <3> QED
        BY <1>1, <3>1, <3>3, Grown DEF NodeIds
    <2> QED
      BY <2>1, <2>2
  <1>3. edges \in Seq([child : NodeIds', parent : NodeIds', label : TreeIds'])
    <2>1. edges \in Seq([child : NodeIds, parent : NodeIds, label : TreeIds])
      BY DEF TypeOK, TypedIn
    <2>2. Len(edges) \in Nat
      BY <2>1
    <2>3. TypedIn(NodeIds', Len(edges), TreeIds')
      BY <1>2, <2>2, Widen DEF TypeOK
    <2> QED
      BY <2>3 DEF TypedIn
  <1>4. [child |-> NodeAt(s, p), parent |-> parent, label |-> label]
          \in [child : NodeIds', parent : NodeIds', label : TreeIds']
    BY <1>2
  <1>5. edges' = Append(edges, [child |-> NodeAt(s, p), parent |-> parent, label |-> label])
    BY DEF AddEdge
  <1> HIDE DEF rec
  <1>6. /\ edges' \in Seq([child : NodeIds', parent : NodeIds', label : TreeIds'])
        /\ Len(edges) \in Nat
        /\ Len(edges') = Len(edges) + 1
        /\ \A i \in DOMAIN edges : edges'[i] = edges[i]
        /\ edges'[Len(edges) + 1] = [child |-> NodeAt(s, p), parent |-> parent, label |-> label]
    BY <1>3, <1>4, <1>5, Grown
  <1> QED
    BY <1>2, <1>6 DEF rec

\* What an allocation leaves: the arena grew by one node, and no node was moved.
ArenaGrown ==
  /\ tree' \in Seq([sym : Labels, start : Bytes, end : Bytes, kids : Seq(TreeIds')])
  /\ link' \in Seq([kind : Int, field : Nat, next : TreeIds' \cup {0}, parent : TreeIds' \cup {0}])
  /\ Len(tree) \in Nat
  /\ Len(tree') = Len(tree) + 1
  /\ Len(link') = Len(tree')
  /\ TreeIds' = TreeIds \cup {NewId}
  /\ \A t \in TreeIds : tree'[t] = tree[t]
  /\ TreeIds = 1 .. Len(tree)

LEMMA AllocTokenTyped ==
  ASSUME job \in Jobs, TypeOK, NEW sym \in Labels, NEW start \in Bytes, NEW end \in Bytes,
         AllocToken(sym, start, end)
  PROVE  ArenaGrown
  <1> DEFINE rec == [sym |-> sym, start |-> start, end |-> end, kids |-> <<>>]
  <1>1. tree \in Seq([sym : Labels, start : Bytes, end : Bytes, kids : Seq(TreeIds)])
    BY DEF TypeOK, TypedIn
  <1>2. rec \in [sym : Labels, start : Bytes, end : Bytes, kids : Seq(TreeIds)]
    OBVIOUS
  <1>3. /\ Len(tree) \in Nat
        /\ Len(tree') = Len(tree) + 1
        /\ TreeIds' = TreeIds \cup {NewId}
        /\ \A t \in TreeIds : tree'[t] = tree[t]
        /\ TreeIds = 1 .. Len(tree)
    <2> HIDE DEF rec
    <2>1. tree' = Append(tree, rec)
      BY DEF AllocToken, rec
    <2> QED
      BY <1>1, <1>2, <2>1, Grown DEF TreeIds, NewId
  <1>4. TypedIn(NodeIds, Len(edges), TreeIds')
    <2>1. edges \in Seq([child : NodeIds, parent : NodeIds, label : TreeIds])
      BY DEF TypeOK, TypedIn
    <2>2. Len(edges) \in Nat
      BY <2>1
    <2> QED
      BY <1>3, <2>2, Widen DEF TypeOK
  <1>5. link \in Seq([kind : Int, field : Nat, next : TreeIds' \cup {0}, parent : TreeIds' \cup {0}])
    BY <1>4 DEF TypedIn
  <1>6. Unlinked(sym) \in [kind : Int, field : Nat, next : TreeIds' \cup {0}, parent : TreeIds' \cup {0}]
    BY GrammarFacts DEF Unlinked, Labels, ERROR
  <1>7. Len(link) = Len(tree)
    BY DEF TypeOK, TypedIn
  <1>8. link' = Append(link, Unlinked(sym))
    BY DEF AllocToken
  <1>9. tree' \in Seq([sym : Labels, start : Bytes, end : Bytes, kids : Seq(TreeIds')])
    <2>1. tree \in Seq([sym : Labels, start : Bytes, end : Bytes, kids : Seq(TreeIds')])
      BY <1>4 DEF TypedIn
    <2>2. rec \in [sym : Labels, start : Bytes, end : Bytes, kids : Seq(TreeIds')]
      OBVIOUS
    <2> HIDE DEF rec
    <2>3. tree' = Append(tree, rec)
      BY DEF AllocToken, rec
    <2> QED
      BY <2>1, <2>2, <2>3, Grown
  <1>10. /\ link' \in Seq([kind : Int, field : Nat, next : TreeIds' \cup {0}, parent : TreeIds' \cup {0}])
         /\ Len(link') = Len(link) + 1
    BY <1>5, <1>6, <1>8, Grown
  <1> QED
    BY <1>3, <1>7, <1>9, <1>10 DEF ArenaGrown

\* The links of a child stay typed, and its parent is the node just built.
LEMMA LinkedTyped ==
  ASSUME TypeOK, NEW kids \in Seq(TreeIds), NEW field, NEW alias,
         DOMAIN field \subseteq DOMAIN kids, \A i \in DOMAIN field : field[i] \in Nat,
         DOMAIN alias \subseteq DOMAIN kids, \A i \in DOMAIN alias : alias[i] \in Nat,
         NEW c \in ToSet(kids), NEW id
  PROVE  Linked(c, kids, id, field, alias)
           \in [kind : Int, field : Nat, next : TreeIds \cup {0}, parent : {id}]
  <1> DEFINE n == Len(kids)
             i == LastSlot(kids, c, DOMAIN kids)
  <1>1. n \in Nat /\ DOMAIN kids = 1 .. n
    OBVIOUS
  <1>2. c \in TreeIds /\ \E k \in DOMAIN kids : kids[k] = c
    BY DEF ToSet
  <1>3. link[c] \in [kind : Int, field : Nat, next : TreeIds \cup {0}, parent : TreeIds \cup {0}]
    <2>1. /\ link \in Seq([kind : Int, field : Nat, next : TreeIds \cup {0}, parent : TreeIds \cup {0}])
          /\ tree \in Seq([sym : Labels, start : Bytes, end : Bytes, kids : Seq(TreeIds)])
          /\ Len(link) = Len(tree)
      BY DEF TypeOK, TypedIn
    <2>2. DOMAIN link = TreeIds
      BY <2>1 DEF TreeIds
    <2>3. c \in DOMAIN link
      BY <1>2, <2>2
    <2> QED
      BY <2>1, <2>3, SeqElement
  <1>4. i \in DOMAIN kids
    BY <1>1, <1>2, LastSlotProperties
  <1>5. (\E j \in DOMAIN alias : kids[j] = c) => alias[LastSlot(kids, c, DOMAIN alias)] \in Nat
    BY <1>1, LastSlotProperties
  <1>6. (\E j \in DOMAIN field : kids[j] = c) => field[LastSlot(kids, c, DOMAIN field)] \in Nat
    BY <1>1, LastSlotProperties
  <1>7. i < Len(kids) => kids[i + 1] \in TreeIds
    BY <1>1, <1>4
  <1> HIDE DEF i
  <1>8. Linked(c, kids, id, field, alias)
          = [kind   |-> IF \E j \in DOMAIN alias : kids[j] = c
                        THEN alias[LastSlot(kids, c, DOMAIN alias)] ELSE link[c].kind,
             field  |-> IF \E j \in DOMAIN field : kids[j] = c
                        THEN field[LastSlot(kids, c, DOMAIN field)] ELSE link[c].field,
             next   |-> IF i < Len(kids) THEN kids[i + 1] ELSE 0,
             parent |-> id]
    BY DEF Linked, i
  <1> QED
    BY <1>3, <1>5, <1>6, <1>7, <1>8

\* Also an internal node grows the arena by one, whatever its children are.
LEMMA AllocInternalTyped ==
  ASSUME job \in Jobs, TypeOK, NEW sym \in Labels, NEW start \in Bytes, NEW end \in Bytes,
         NEW kids \in Seq(TreeIds), NEW field, NEW alias,
         DOMAIN field \subseteq DOMAIN kids, \A i \in DOMAIN field : field[i] \in Nat,
         DOMAIN alias \subseteq DOMAIN kids, \A i \in DOMAIN alias : alias[i] \in Nat,
         AllocInternal(sym, start, end, kids, field, alias)
  PROVE  ArenaGrown
  <1> DEFINE rec == [sym |-> sym, start |-> start, end |-> end, kids |-> kids]
             LinkRec == [kind : Int, field : Nat, next : TreeIds' \cup {0}, parent : TreeIds' \cup {0}]
             relink == [c \in DOMAIN link |->
                          IF c \in ToSet(kids) THEN Linked(c, kids, NewId, field, alias)
                                               ELSE link[c]]
  <1>1. tree \in Seq([sym : Labels, start : Bytes, end : Bytes, kids : Seq(TreeIds)])
    BY DEF TypeOK, TypedIn
  <1>2. rec \in [sym : Labels, start : Bytes, end : Bytes, kids : Seq(TreeIds)]
    OBVIOUS
  <1>3. tree' = Append(tree, rec)
    BY DEF AllocInternal
  <1>4. /\ Len(tree) \in Nat
        /\ Len(tree') = Len(tree) + 1
        /\ TreeIds' = TreeIds \cup {NewId}
        /\ \A t \in TreeIds : tree'[t] = tree[t]
        /\ TreeIds = 1 .. Len(tree)
    <2> HIDE DEF rec
    <2> QED
      BY <1>1, <1>2, <1>3, Grown DEF TreeIds, NewId
  <1>5. TypedIn(NodeIds, Len(edges), TreeIds')
    <2>1. edges \in Seq([child : NodeIds, parent : NodeIds, label : TreeIds])
      BY DEF TypeOK, TypedIn
    <2>2. Len(edges) \in Nat
      BY <2>1
    <2> QED
      BY <1>4, <2>2, Widen DEF TypeOK
  <1>6. tree' \in Seq([sym : Labels, start : Bytes, end : Bytes, kids : Seq(TreeIds')])
    <2>1. tree \in Seq([sym : Labels, start : Bytes, end : Bytes, kids : Seq(TreeIds')])
      BY <1>5 DEF TypedIn
    <2>2. kids \in Seq(TreeIds')
      BY <1>4, SeqWider
    <2>3. rec \in [sym : Labels, start : Bytes, end : Bytes, kids : Seq(TreeIds')]
      BY <2>2
    <2> HIDE DEF rec
    <2> QED
      BY <1>3, <2>1, <2>3, Grown
  <1>7. link \in Seq(LinkRec) /\ Len(link) = Len(tree)
    BY <1>5 DEF TypedIn
  <1>8. relink \in Seq(LinkRec) /\ Len(relink) = Len(link)
    <2>1. ASSUME NEW c \in DOMAIN link PROVE relink[c] \in LinkRec
      <3>1. CASE c \in ToSet(kids)
        <4>1. Linked(c, kids, NewId, field, alias)
                \in [kind : Int, field : Nat, next : TreeIds \cup {0}, parent : {NewId}]
          BY <3>1, LinkedTyped
        <4> QED
          BY <1>4, <3>1, <4>1
      <3>2. CASE c \notin ToSet(kids)
        <4>1. link[c] \in LinkRec
          <5> HIDE DEF LinkRec
          <5> QED
            BY <1>7, <2>1, SeqElement
        <4> QED
          BY <3>2, <4>1
      <3> QED
        BY <3>1, <3>2
    <2>2. Len(link) \in Nat /\ DOMAIN link = 1 .. Len(link)
      BY <1>7
    <2>3. DOMAIN relink = DOMAIN link
      OBVIOUS
    <2>4. relink \in [DOMAIN link -> LinkRec]
      BY <2>1
    <2> HIDE DEF relink, LinkRec
    <2> QED
      BY <2>2, <2>4, FunctionIsSeq
  <1>9. Unlinked(sym) \in LinkRec
    BY GrammarFacts DEF Unlinked, Labels, ERROR
  <1>10. link' = Append(relink, Unlinked(sym))
    BY DEF AllocInternal
  <1>11. link' \in Seq(LinkRec) /\ Len(link') = Len(link) + 1
    <2> HIDE DEF relink, LinkRec
    <2> QED
      BY <1>8, <1>9, <1>10, Grown
  <1> QED
    BY <1>4, <1>6, <1>7, <1>11 DEF ArenaGrown

-------------------------------------------------------------------------------
(* What the engine stands at.                                              *)

LEMMA NodeTyped ==
  ASSUME TypeOK, NEW n \in NodeIds
  PROVE  gss[n].state \in States(G) /\ gss[n].pos \in Bytes
  <1>1. gss[n] \in [state : States(G), pos : Bytes]
    BY SeqElement DEF TypeOK, TypedIn, NodeIds
  <1> QED
    BY <1>1

LEMMA StandsAt ==
  ASSUME IInv
  PROVE  /\ cur.head \in NodeIds
         /\ gss[cur.head].state \in States(G)
         /\ Position \in Bytes
         /\ Cell \in Seq(Entries(G))
         /\ Cell # <<>> => cur.sym \in Symbols(G)
         /\ cur.entry \in Nat \ {0}
         /\ cur.sym \in Symbols(G) \cup {UNKNOWN}
  <1>1. cur \in [head : NodeIds, sym : Symbols(G) \cup {UNKNOWN}, entry : Nat \ {0}]
    BY DEF IInv, TypeOK, TypedIn
  <1>2. cur.head \in NodeIds
    BY <1>1
  <1>3. gss[cur.head].state \in States(G) /\ Position \in Bytes
    BY <1>2, NodeTyped DEF IInv, Position
  <1>4. Cell \in Seq(Entries(G)) /\ (Cell # <<>> => cur.sym \in Symbols(G))
    BY <1>3, CellTyped DEF IInv, Cell
  <1> QED
    BY <1>1, <1>2, <1>3, <1>4

\* The entry at hand, where there is one.
LEMMA EntryAt ==
  ASSUME IInv, NEW op, AtEntry(op)
  PROVE  /\ Entry \in Entries(G)
         /\ cur.sym \in Symbols(G)
         /\ op = "reduce" => Entry.arg \in DOMAIN G.prods
         /\ op = "shift" => Entry.arg \in States(G)
  <1>1. /\ Cell \in Seq(Entries(G)) /\ cur.entry \in Nat \ {0}
        /\ Cell # <<>> => cur.sym \in Symbols(G)
    BY StandsAt
  <1>2. cur.entry \in DOMAIN Cell /\ Cell # <<>>
    BY <1>1 DEF AtEntry
  <1>3. Entry \in Entries(G)
    BY <1>1, <1>2, SeqElement DEF Entry
  <1> QED
    BY <1>1, <1>2, <1>3, EntryTyped DEF IInv, AtEntry

\* The production of a reduction.
LEMMA ReduceTyped ==
  ASSUME IInv, AtEntry("reduce")
  PROVE  /\ Production.lhs \in Symbols(G)
         /\ Production.lhs \in Labels
         /\ Depth \in Nat
         /\ DOMAIN Production.rhs = 1 .. Depth
         /\ DOMAIN Production.field \subseteq 1 .. Depth
         /\ \A i \in DOMAIN Production.field : Production.field[i] \in Nat
         /\ DOMAIN Production.alias \subseteq 1 .. Depth
         /\ \A i \in DOMAIN Production.alias : Production.alias[i] \in Nat
         /\ EpsKey \in States(G) \X DOMAIN G.prods
  <1>1. Entry.arg \in DOMAIN G.prods
    BY EntryAt
  <1>2. job \in Jobs
    BY DEF IInv
  <1>3. gss[cur.head].state \in States(G)
    BY StandsAt
  <1>4. DOMAIN Production.rhs = 1 .. Depth
    <2>1. Production.rhs \in Seq(Symbols(G))
      BY <1>1, <1>2, ProductionTyped DEF Production
    <2> QED
      BY <2>1 DEF Depth
  <1> QED
    BY <1>1, <1>2, <1>3, <1>4, ProductionTyped DEF Production, Depth, EpsKey, Labels

-------------------------------------------------------------------------------
(***************************************************************************)
(* Every step is proved in the same way: what was typed is typed in the    *)
(* grown arenas (WideOK), and so are the variables the step assigns.       *)
(***************************************************************************)
WideOK == TypedIn(NodeIds', Len(edges'), TreeIds')

LEMMA SameInput ==
  ASSUME UNCHANGED job
  PROVE  /\ G' = G /\ Source' = Source /\ Bytes' = Bytes /\ Labels' = Labels /\ Kinds' = Kinds
  BY DEF G, Source, Bytes, Labels, Kinds

LEMMA WideSame ==
  ASSUME TypeOK, UNCHANGED <<gssVars, treeVars>>
  PROVE  /\ WideOK /\ NodeIds' = NodeIds /\ TreeIds' = TreeIds
         /\ gss' = gss /\ edges' = edges /\ tree' = tree /\ link' = link
  BY DEF TypeOK, WideOK, NodeIds, TreeIds, gssVars, treeVars

-------------------------------------------------------------------------------
(* The steps that move no stack node and build no tree node.               *)

LEMMA StartWorkKeeps ==
  ASSUME IInv, NEW t \in [kind : Kinds, start : Bytes, end : Bytes], cursor' \in Bytes,
         StartWork(t),
         UNCHANGED <<job, gssVars, heads, treeVars, cur, at, walkVars, errVars, root>>
  PROVE  IInv'
  <1>1. heads \in Seq(NodeIds) /\ ToSet(heads) \subseteq NodeIds
    BY DEF IInv, TypeOK, TypedIn, ToSet
  <1>2. TypeOK'
    BY <1>1, SameInput, WideSame
       DEF IInv, TypeOK, WideOK, TypedIn, StartWork, walkVars, errVars
  <1>3. ControlOK'
    BY DEF IInv, ControlOK, SymbolOK, FixOK, WalkOK, RecoveryOK, StartWork, errVars
  <1> QED
    BY <1>2, <1>3 DEF IInv

LEMMA LapKeeps ==
  ASSUME IInv, Lap
  PROVE  IInv'
  <1> USE DEF IInv
  <1>0. cursor \in Bytes /\ Len(Source) \in Nat /\ Mask \subseteq Symbols(G)
    BY GrammarFacts, MaskTyped DEF TypeOK, TypedIn
  <1>1. CASE ReadToken
    <2>1. PICK t \in Lexed(cursor, Mask) : t.start < t.end /\ cursor' = t.end /\ StartWork(t)
      BY <1>1 DEF ReadToken
    <2>2. t \in [kind : Kinds, start : Bytes, end : Bytes]
      BY <1>0, LexedTyped
    <2>3. cursor' \in Bytes
      BY <2>1, <2>2
    <2> QED
      BY <1>1, <2>1, <2>2, <2>3, StartWorkKeeps DEF ReadToken
  <1>2. CASE SkipEmptyToken
    <2>1. PICK t \in Lexed(cursor, Mask) : cursor' = t.start + 1
      BY <1>2 DEF SkipEmptyToken
    <2>2. t \in [kind : Kinds, start : Bytes, end : Bytes] /\ t.start < Len(Source)
      BY <1>0, LexedTyped
    <2>3. cursor' \in Bytes
      BY <1>0, <2>1, <2>2 DEF Bytes
    <2>4. UNCHANGED <<job, gssVars, heads, treeVars, pc, tok, workVars, epsLog, nextHeads,
                      cur, at, walkVars, errVars, root>>
      BY <1>2 DEF SkipEmptyToken
    <2>5. TypeOK'
      BY <2>3, <2>4, SameInput, WideSame DEF TypeOK, WideOK, TypedIn, workVars, walkVars, errVars
    <2>6. ControlOK'
      BY <1>2 DEF ControlOK, SymbolOK, FixOK, WalkOK, RecoveryOK, SkipEmptyToken, errVars
    <2> QED
      BY <2>4, <2>5, <2>6
  <1>3. EndToken \in [kind : Kinds, start : Bytes, end : Bytes]
    BY <1>0 DEF EndToken, Kinds, Bytes
  <1>4. CASE EndOfInput
    <2>1. cursor' \in Bytes
      BY <1>0, <1>4 DEF EndOfInput, Bytes
    <2> QED
      BY <1>3, <1>4, <2>1, StartWorkKeeps DEF EndOfInput
  <1>5. CASE AbortParse
    BY <1>0, <1>3, <1>5, StartWorkKeeps, SameInput DEF AbortParse
  <1> QED
    BY <1>1, <1>2, <1>4, <1>5 DEF Lap

\* The links and the nodes are one vector.
LEMMA LinkDomain ==
  ASSUME TypeOK
  PROVE  DOMAIN link = TreeIds /\ Len(tree) \in Nat /\ TreeIds = 1 .. Len(tree)
  <1>1. /\ link \in Seq([kind : Int, field : Nat, next : TreeIds \cup {0}, parent : TreeIds \cup {0}])
        /\ tree \in Seq([sym : Labels, start : Bytes, end : Bytes, kids : Seq(TreeIds)])
        /\ Len(link) = Len(tree)
    BY DEF TypeOK, TypedIn
  <1> QED
    BY <1>1 DEF TreeIds

LEMMA PopHeadKeeps ==
  ASSUME IInv, PopHead
  PROVE  IInv'
  <1> USE DEF IInv
  <1>1. /\ work \in Seq(NodeIds) /\ work # <<>>
        /\ tok \in [kind : Kinds, start : Bytes, end : Bytes]
    BY DEF TypeOK, TypedIn, PopHead
  <1>2. Front(work) \in Seq(NodeIds) /\ Last(work) \in NodeIds
    BY <1>1, FrontProperties
  <1>3. IF AtEnd THEN cur'.sym = 0 ELSE cur'.sym = tok.kind
    BY DEF PopHead
  <1>4. 0 \in Symbols(G) /\ G.terminals \subseteq Symbols(G)
    BY GrammarFacts
  <1>5. cur' \in [head : NodeIds, sym : Symbols(G) \cup {UNKNOWN}, entry : Nat \ {0}]
    BY <1>1, <1>2, <1>4 DEF PopHead, Kinds, AtEnd
  <1>6. TypeOK'
    BY <1>2, <1>5, SameInput, WideSame
       DEF TypeOK, WideOK, TypedIn, PopHead, walkVars, errVars
  <1>7. SymbolOK'
    BY <1>3, <1>4, SameInput DEF SymbolOK, AtEnd, PopHead
  <1> QED
    BY <1>6, <1>7
       DEF ControlOK, FixOK, WalkOK, RecoveryOK, PopHead, errVars

\* The steps that go on to another entry or another head, and those that end.
LEMMA EntryPassedKeeps ==
  ASSUME IInv, PassEntry \/ NextSymbol \/ HeadDone \/ FixPassEntry \/ StartReduce
  PROVE  IInv'
  <1> USE DEF IInv
  <1>1. /\ cur \in [head : NodeIds, sym : Symbols(G) \cup {UNKNOWN}, entry : Nat \ {0}]
        /\ G.symbols \in Nat /\ Len(edges) \in Nat
    <2>1. edges \in Seq([child : NodeIds, parent : NodeIds, label : TreeIds])
      BY DEF TypeOK, TypedIn
    <2>2. Len(edges) \in Nat
      BY <2>1
    <2>3. G.symbols \in Nat
      BY GrammarFacts DEF GrammarOK
    <2> QED
      BY <2>2, <2>3 DEF TypeOK, TypedIn
  <1>2. CASE PassEntry \/ FixPassEntry
    <2>1. cur' \in [head : NodeIds, sym : Symbols(G) \cup {UNKNOWN}, entry : Nat \ {0}]
      BY <1>1, <1>2 DEF PassEntry, FixPassEntry, NextEntry
    <2>2. TypeOK'
      BY <1>2, <2>1, SameInput, WideSame
         DEF TypeOK, WideOK, TypedIn, PassEntry, FixPassEntry, workVars, walkVars, errVars
    <2>3. cur'.sym = cur.sym /\ tok' = tok /\ pc' = pc /\ pc \in {"act", "fix"}
      BY <1>1, <1>2 DEF PassEntry, FixPassEntry, NextEntry
    <2>4. ControlOK'
      BY <1>2, <2>3, SameInput
         DEF ControlOK, SymbolOK, FixOK, WalkOK, RecoveryOK, AtEnd, PassEntry, FixPassEntry, errVars
    <2> QED
      BY <1>2, <2>2, <2>4 DEF PassEntry, FixPassEntry
  <1>3. CASE NextSymbol
    <2>1. cur.sym \in Symbols(G)
      BY <1>3 DEF ControlOK, SymbolOK, NextSymbol
    <2>2. cur' \in [head : NodeIds, sym : Symbols(G), entry : Nat \ {0}]
      <3>1. cur.sym + 1 \in Symbols(G)
        BY <1>1, <1>3, <2>1 DEF NextSymbol, Symbols
      <3>2. cur' = [head |-> cur.head, sym |-> cur.sym + 1, entry |-> 1]
        BY <1>1, <1>3 DEF NextSymbol
      <3>3. cur.head \in NodeIds
        BY <1>1
      <3> QED
        BY <3>1, <3>2, <3>3
    <2>3. TypeOK'
      BY <1>3, <2>2, SameInput, WideSame
         DEF TypeOK, WideOK, TypedIn, NextSymbol, workVars, walkVars, errVars
    <2>4. ControlOK'
      BY <1>3, <2>2, SameInput
         DEF ControlOK, SymbolOK, FixOK, WalkOK, RecoveryOK, AtEnd, NextSymbol, errVars
    <2> QED
      BY <1>3, <2>3, <2>4 DEF NextSymbol
  <1>4. CASE HeadDone
    <2>1. TypeOK'
      BY <1>4, SameInput, WideSame
         DEF TypeOK, WideOK, TypedIn, HeadDone, workVars, walkVars, errVars
    <2>2. ControlOK'
      BY <1>4 DEF ControlOK, SymbolOK, FixOK, WalkOK, RecoveryOK, HeadDone, errVars
    <2> QED
      BY <1>4, <2>1, <2>2 DEF HeadDone
  <1>5. CASE StartReduce
    <2>1. frames' \in Seq([node : NodeIds, edge : 0 .. Len(edges)]) /\ limit' \in 0 .. Len(edges)
      BY <1>1, <1>5 DEF StartReduce
    <2>2. TypeOK'
      BY <1>5, <2>1, SameInput, WideSame
         DEF TypeOK, WideOK, TypedIn, StartReduce, workVars, errVars
    <2>3. SymbolOK'
      BY <1>5, SameInput DEF ControlOK, SymbolOK, AtEnd, StartReduce
    <2>4. WalkOK'
      <3>1. AtEntry("reduce")' /\ (Depth > 0)'
        BY <1>5, SameInput
           DEF StartReduce, AtEntry, Entry, Cell, Depth, Production, gssVars
      <3>2. Len(frames') = 1
        BY <1>5 DEF StartReduce
      <3> QED
        BY <3>1, <3>2, <1>5 DEF WalkOK, StartReduce
    <2> QED
      BY <1>5, <2>2, <2>3, <2>4 DEF ControlOK, FixOK, RecoveryOK, StartReduce, errVars
  <1> QED
    BY <1>2, <1>3, <1>4, <1>5

LEMMA EndKeeps ==
  ASSUME IInv, AcceptInput \/ EndUnaccepted
  PROVE  IInv'
  <1>1. LastParentless \in TreeIds \cup {0}
    <2>1. CASE \E t \in DOMAIN link : link[t].parent = 0
      <3>1. DOMAIN link = 1 .. Len(tree) /\ Len(tree) \in Nat /\ DOMAIN link = TreeIds
        BY LinkDomain DEF IInv
      <3> DEFINE I == {t \in DOMAIN link : link[t].parent = 0}
      <3>2. \E i \in I : \A j \in I : j <= i
        BY <2>1, <3>1, LastExists
      <3>3. \E t \in DOMAIN link :
              link[t].parent = 0 /\ \A u \in DOMAIN link : link[u].parent = 0 => u <= t
        BY <3>2
      <3> QED
        BY <2>1, <3>1, <3>3 DEF LastParentless
    <2>2. CASE ~\E t \in DOMAIN link : link[t].parent = 0
      BY <2>2 DEF LastParentless
    <2> QED
      BY <2>1, <2>2
  <1>2. TypeOK'
    BY <1>1, SameInput, WideSame
       DEF IInv, TypeOK, WideOK, TypedIn, AcceptInput, EndUnaccepted, workVars, walkVars, errVars
  <1>3. ControlOK'
    BY DEF IInv, ControlOK, SymbolOK, FixOK, WalkOK, RecoveryOK, AcceptInput, EndUnaccepted, errVars
  <1> QED
    BY <1>2, <1>3 DEF IInv, AcceptInput, EndUnaccepted

-------------------------------------------------------------------------------
(* The steps that build a tree node.                                       *)

\* The stack after it grew: typed, with every node where it was.
GraphGrown ==
  /\ gss' \in Seq([state : States(G), pos : Bytes])
  /\ edges' \in Seq([child : NodeIds', parent : NodeIds', label : TreeIds'])
  /\ NodeIds \subseteq NodeIds'
  /\ \A n \in NodeIds : gss'[n] = gss[n]

LEMMA WideGrown ==
  ASSUME TypeOK, ArenaGrown, NodeIds \subseteq NodeIds', Len(edges) \in Nat, Len(edges') \in Nat,
         Len(edges) <= Len(edges')
  PROVE  WideOK
  <1>1. TreeIds \subseteq TreeIds'
    BY DEF ArenaGrown
  <1> QED
    BY <1>1, Widen DEF TypeOK, WideOK

\* An edge with the new tree node.
LEMMA PushGrows ==
  ASSUME TypeOK, ArenaGrown, NEW s \in States(G), NEW p \in Bytes, NEW parent \in NodeIds,
         AddEdge(s, p, parent, NewId)
  PROVE  WideOK /\ GraphGrown /\ NodeAt(s, p) \in NodeIds'
  <1>1. NewId \in TreeIds' /\ TreeIds \subseteq TreeIds'
    BY DEF ArenaGrown
  <1>2. /\ gss' \in Seq([state : States(G), pos : Bytes])
        /\ NodeIds \subseteq NodeIds'
        /\ \A n \in NodeIds : gss'[n] = gss[n]
        /\ NodeAt(s, p) \in NodeIds'
        /\ edges' \in Seq([child : NodeIds', parent : NodeIds', label : TreeIds'])
        /\ Len(edges) \in Nat
        /\ Len(edges') = Len(edges) + 1
    BY <1>1, AddEdgeTyped
  <1> QED
    BY <1>2, WideGrown DEF GraphGrown

\* No edge with it, for a reduction without a goto.
LEMMA BuildGrows ==
  ASSUME TypeOK, ArenaGrown, UNCHANGED gssVars
  PROVE  WideOK /\ GraphGrown /\ NodeIds' = NodeIds
  <1>1. edges \in Seq([child : NodeIds, parent : NodeIds, label : TreeIds])
    BY DEF TypeOK, TypedIn
  <1>2. /\ Len(edges) \in Nat /\ Len(edges') \in Nat /\ Len(edges) <= Len(edges')
        /\ gss' = gss /\ edges' = edges /\ NodeIds' = NodeIds
    BY <1>1 DEF gssVars, NodeIds
  <1>3. WideOK
    BY <1>2, WideGrown
  <1> QED
    BY <1>2, <1>3 DEF GraphGrown, WideOK, TypedIn, TypeOK

LEMMA EnqueueTyped ==
  ASSUME NEW N, work \in Seq(N), queued \subseteq N, NEW n \in N, Enqueue(n)
  PROVE  work' \in Seq(N) /\ queued' \subseteq N
  BY Grown DEF Enqueue

LEMMA AddHeadTyped ==
  ASSUME NEW N, nextHeads \in Seq(N), NEW n \in N, AddHead(n)
  PROVE  nextHeads' \in Seq(N) /\ nextHeads' # <<>>
  <1>1. CASE n \in ToSet(nextHeads)
    BY <1>1 DEF AddHead, ToSet
  <1>2. CASE n \notin ToSet(nextHeads)
    BY <1>2, Grown DEF AddHead
  <1> QED
    BY <1>1, <1>2

LEMMA ShiftTokenKeeps ==
  ASSUME IInv, ShiftToken
  PROVE  IInv'
  <1> USE DEF IInv
  <1>1. /\ tok \in [kind : Kinds, start : Bytes, end : Bytes]
        /\ cur \in [head : NodeIds, sym : Symbols(G) \cup {UNKNOWN}, entry : Nat \ {0}]
    BY DEF TypeOK, TypedIn
  <1>2. cur.sym \in Symbols(G) /\ Entry.arg \in States(G) /\ cur.head \in NodeIds
    BY EntryAt, StandsAt DEF ShiftToken
  <1>3. tok.kind \in Labels
    BY <1>2 DEF ControlOK, SymbolOK, ShiftToken, Labels
  <1>4. ArenaGrown
    BY <1>1, <1>3, AllocTokenTyped DEF ShiftToken
  <1>5. WideOK /\ GraphGrown /\ NodeAt(Entry.arg, tok.end) \in NodeIds'
    BY <1>1, <1>2, <1>4, PushGrows DEF ShiftToken
  <1>6. nextHeads' \in Seq(NodeIds')
    BY <1>5, AddHeadTyped DEF WideOK, TypedIn, ShiftToken
  <1>7. cur' \in [head : NodeIds', sym : Symbols(G) \cup {UNKNOWN}, entry : Nat \ {0}]
    BY <1>1, <1>5 DEF GraphGrown, ShiftToken, NextEntry
  <1>8. TypeOK'
    BY <1>4, <1>5, <1>6, <1>7, SameInput
       DEF TypeOK, WideOK, TypedIn, ArenaGrown, GraphGrown, ShiftToken, workVars, walkVars, errVars
  <1>9. ControlOK'
    BY <1>1, SameInput
       DEF ControlOK, SymbolOK, FixOK, WalkOK, RecoveryOK, AtEnd, ShiftToken, NextEntry, errVars
  <1> QED
    BY <1>8, <1>9 DEF ShiftToken

\* The node of an empty production, with or without a goto.
LEMMA ReduceEmptyGrows ==
  ASSUME IInv, ReduceEmpty, UNCHANGED job
  PROVE  /\ ArenaGrown
         /\ EmptyGoto = NoState /\ UNCHANGED gssVars => WideOK /\ GraphGrown
         /\ EmptyGoto # NoState /\ AddEdge(EmptyGoto, Position, cur.head, NewId) =>
              WideOK /\ GraphGrown /\ NodeAt(EmptyGoto, Position) \in NodeIds'
         /\ NodeIds \subseteq NodeIds' =>
              cur' \in [head : NodeIds', sym : Symbols(G) \cup {UNKNOWN}, entry : Nat \ {0}]
         /\ cur'.sym = cur.sym
         /\ epsLog' \subseteq States(G) \X DOMAIN G.prods
  <1>1. /\ cur \in [head : NodeIds, sym : Symbols(G) \cup {UNKNOWN}, entry : Nat \ {0}]
        /\ epsLog \subseteq States(G) \X DOMAIN G.prods
    BY DEF IInv, TypeOK, TypedIn
  <1>2. cur.head \in NodeIds /\ Position \in Bytes
    BY StandsAt
  <1>3. Production.lhs \in Labels /\ EpsKey \in States(G) \X DOMAIN G.prods
    BY ReduceTyped DEF ReduceEmpty
  <1>4. ArenaGrown
    <2>1. <<>> \in Seq(TreeIds) /\ DOMAIN NoNames = {} /\ {} \subseteq DOMAIN <<>>
      BY DEF NoNames
    <2> QED
      BY <1>2, <1>3, <2>1, AllocInternalTyped DEF IInv, ReduceEmpty
  <1>5. EmptyGoto # NoState => EmptyGoto \in States(G)
    BY GotoTyped DEF EmptyGoto
  <1>6. cur' = [head |-> cur.head, sym |-> cur.sym, entry |-> cur.entry + 1]
    BY <1>1 DEF ReduceEmpty, NextEntry
  <1>7. cur.sym \in Symbols(G) \cup {UNKNOWN} /\ cur.entry + 1 \in Nat \ {0}
    BY <1>1
  <1> QED
    BY <1>1, <1>2, <1>3, <1>4, <1>5, <1>6, <1>7, PushGrows, BuildGrows DEF IInv, ReduceEmpty

LEMMA ReduceEmptyHeadKeeps ==
  ASSUME IInv, ReduceEmptyHead
  PROVE  IInv'
  <1> USE DEF IInv
  <1>1. UNCHANGED job /\ ReduceEmpty
    BY DEF ReduceEmptyHead
  <1>2. ArenaGrown /\ WideOK /\ GraphGrown
    BY <1>1, ReduceEmptyGrows DEF ReduceEmptyHead
  <1>3. work' \in Seq(NodeIds') /\ queued' \subseteq NodeIds'
    <2>1. work \in Seq(NodeIds') /\ queued \subseteq NodeIds'
      BY <1>2 DEF WideOK, TypedIn
    <2>2. CASE EmptyGoto = NoState
      BY <2>1, <2>2 DEF ReduceEmptyHead, workVars
    <2>3. CASE EmptyGoto # NoState
      <3>1. NodeAt(EmptyGoto, Position) \in NodeIds'
        BY <1>1, <2>3, ReduceEmptyGrows DEF ReduceEmptyHead
      <3> QED
        BY <2>1, <2>3, <3>1, EnqueueTyped DEF ReduceEmptyHead
    <2> QED
      BY <2>2, <2>3
  <1>4. /\ cur' \in [head : NodeIds', sym : Symbols(G) \cup {UNKNOWN}, entry : Nat \ {0}]
        /\ cur'.sym = cur.sym
        /\ epsLog' \subseteq States(G) \X DOMAIN G.prods
    BY <1>1, <1>2, ReduceEmptyGrows DEF GraphGrown
  <1>5. TypeOK'
    BY <1>2, <1>3, <1>4, SameInput
       DEF TypeOK, WideOK, TypedIn, ArenaGrown, GraphGrown, ReduceEmptyHead, walkVars, errVars
  <1>6. ControlOK'
    BY <1>4, SameInput
       DEF ControlOK, SymbolOK, FixOK, WalkOK, RecoveryOK, AtEnd, ReduceEmptyHead, errVars
  <1> QED
    BY <1>1, <1>5, <1>6

LEMMA FixReduceEmptyKeeps ==
  ASSUME IInv, FixReduceEmpty
  PROVE  IInv'
  <1> USE DEF IInv
  <1>1. UNCHANGED job /\ ReduceEmpty
    BY DEF FixReduceEmpty
  <1>2. ArenaGrown /\ WideOK /\ GraphGrown
    BY <1>1, ReduceEmptyGrows DEF FixReduceEmpty
  <1>3. nextHeads' \in Seq(NodeIds')
    <2>1. nextHeads \in Seq(NodeIds')
      BY <1>2 DEF WideOK, TypedIn
    <2>2. CASE EmptyGoto = NoState
      BY <2>1, <2>2 DEF FixReduceEmpty
    <2>3. CASE EmptyGoto # NoState
      <3>1. NodeAt(EmptyGoto, Position) \in NodeIds'
        BY <1>1, <2>3, ReduceEmptyGrows DEF FixReduceEmpty
      <3> QED
        BY <2>1, <2>3, <3>1, AddHeadTyped DEF FixReduceEmpty
    <2> QED
      BY <2>2, <2>3
  <1>4. /\ cur' \in [head : NodeIds', sym : Symbols(G) \cup {UNKNOWN}, entry : Nat \ {0}]
        /\ cur'.sym = cur.sym
        /\ epsLog' \subseteq States(G) \X DOMAIN G.prods
    BY <1>1, <1>2, ReduceEmptyGrows DEF GraphGrown
  <1>5. TypeOK'
    BY <1>2, <1>3, <1>4, SameInput
       DEF TypeOK, WideOK, TypedIn, ArenaGrown, GraphGrown, FixReduceEmpty, workVars, walkVars, errVars
  <1>6. ControlOK'
    BY <1>4, SameInput
       DEF ControlOK, SymbolOK, FixOK, WalkOK, RecoveryOK, AtEnd, FixReduceEmpty, errVars
  <1> QED
    BY <1>1, <1>5, <1>6

-------------------------------------------------------------------------------
(* The walk over the ancestors.                                            *)

LEMMA EdgeTyped ==
  ASSUME TypeOK, NEW e \in 1 .. Len(edges)
  PROVE  edges[e].child \in NodeIds /\ edges[e].parent \in NodeIds /\ edges[e].label \in TreeIds
  <1>1. edges \in Seq([child : NodeIds, parent : NodeIds, label : TreeIds])
    BY DEF TypeOK, TypedIn
  <1>2. e \in DOMAIN edges
    BY <1>1
  <1>3. edges[e] \in [child : NodeIds, parent : NodeIds, label : TreeIds]
    BY <1>1, <1>2, SeqElement
  <1> QED
    BY <1>3

\* The entry a walk reduces by is still there when the stack grew.
LEMMA EntryKept ==
  ASSUME UNCHANGED job, cur'.head = cur.head, cur'.sym = cur.sym, cur'.entry = cur.entry,
         gss'[cur.head] = gss[cur.head]
  PROVE  /\ Cell' = Cell /\ Entry' = Entry /\ Depth' = Depth
         /\ \A op : AtEntry(op)' <=> AtEntry(op)
  BY SameInput DEF Cell, Entry, Depth, Production, AtEntry

LEMMA WalkDownKeeps ==
  ASSUME IInv, WalkDown
  PROVE  IInv'
  <1> USE DEF IInv
  <1> DEFINE k == Len(frames)
             FrameRec == [node : NodeIds, edge : 0 .. Len(edges)]
  <1>1. /\ frames \in Seq(FrameRec) /\ limit \in 0 .. Len(edges) /\ Len(edges) \in Nat
    <2>1. edges \in Seq([child : NodeIds, parent : NodeIds, label : TreeIds])
      BY DEF TypeOK, TypedIn
    <2>2. Len(edges) \in Nat
      BY <2>1
    <2> QED
      BY <2>2 DEF TypeOK, TypedIn
  <1>2. /\ frames # <<>> /\ AtEntry("reduce") /\ Depth > 0
        /\ \A i \in 1 .. k - 1 : frames[i].edge # 0
    BY DEF ControlOK, WalkOK, WalkDown
  <1>3. k \in Nat \ {0} /\ DOMAIN frames = 1 .. k
    BY <1>1, <1>2, FrontProperties
  <1>4. frames[k] \in FrameRec
    <2> HIDE DEF FrameRec, k
    <2> QED
      BY <1>1, <1>3, SeqElement
  <1>5. PICK e \in NextEdges :
          frames' = Append([frames EXCEPT ![k].edge = e], [node |-> edges[e].parent, edge |-> 0])
    BY DEF WalkDown
  <1>6. e \in 1 .. Len(edges)
    BY <1>1, <1>4, <1>5 DEF NextEdges
  <1> DEFINE marked == [frames EXCEPT ![k].edge = e]
             top == [node |-> edges[e].parent, edge |-> 0]
  <1>7. marked \in Seq(FrameRec) /\ Len(marked) = k
    <2>1. [frames[k] EXCEPT !.edge = e] \in FrameRec
      BY <1>1, <1>4, <1>6
    <2>2. marked = [frames EXCEPT ![k] = [frames[k] EXCEPT !.edge = e]]
      OBVIOUS
    <2> HIDE DEF FrameRec, marked
    <2>3. marked \in [1 .. k -> FrameRec]
      BY <1>1, <1>3, <2>1, <2>2
    <2> QED
      BY <1>3, <2>3, FunctionIsSeq
  <1>8. top \in FrameRec
    BY <1>1, <1>6, EdgeTyped
  <1>9. frames' \in Seq(FrameRec) /\ Len(frames') = k + 1 /\ frames' # <<>>
        /\ \A i \in 1 .. k : frames'[i] = marked[i]
    <2> HIDE DEF FrameRec, marked, top, k
    <2>1. frames' = Append(marked, top)
      BY <1>5 DEF marked, top, k
    <2> QED
      BY <1>3, <1>7, <1>8, <2>1, Grown
  <1>10. \A i \in 1 .. Len(frames') - 1 : frames'[i].edge # 0
    <2>1. ASSUME NEW i \in 1 .. k PROVE marked[i].edge # 0
      <3>1. CASE i = k
        BY <1>3, <1>4, <1>6, <3>1
      <3>2. CASE i # k
        BY <1>2, <1>3, <3>2
      <3> QED
        BY <3>1, <3>2
    <2> HIDE DEF marked
    <2> QED
      BY <1>3, <1>9, <2>1
  <1>11. TypeOK'
    BY <1>9, SameInput, WideSame
       DEF TypeOK, WideOK, TypedIn, WalkDown, workVars, errVars
  <1>12. WalkOK'
    <2>1. AtEntry("reduce")' /\ (Depth > 0)'
      BY <1>2, EntryKept DEF WalkDown, gssVars
    <2> QED
      BY <1>9, <1>10, <2>1 DEF WalkOK
  <1> QED
    BY <1>11, <1>12, SameInput
       DEF ControlOK, SymbolOK, FixOK, RecoveryOK, AtEnd, WalkDown, errVars

\* The frames of a walk, and what is left of them when the top one is dropped.
LEMMA WalkFrames ==
  ASSUME IInv, pc = "walk"
  PROVE  /\ AtEntry("reduce") /\ Depth > 0
         /\ frames # <<>> /\ Len(frames) \in Nat \ {0}
         /\ \A i \in 1 .. Len(frames) : frames[i].node \in NodeIds /\ frames[i].edge \in 0 .. Len(edges)
         /\ \A i \in 1 .. Len(frames) - 1 : frames[i].edge \in 1 .. Len(edges)
         /\ Front(frames) \in Seq([node : NodeIds, edge : 0 .. Len(edges)])
         /\ Len(Front(frames)) = Len(frames) - 1
         /\ \A i \in 1 .. Len(frames) - 2 : Front(frames)[i].edge # 0
         /\ Len(edges) \in Nat
  <1> DEFINE FrameRec == [node : NodeIds, edge : 0 .. Len(edges)]
  <1>1. frames \in Seq(FrameRec)
    BY DEF IInv, TypeOK, TypedIn
  <1>2. /\ AtEntry("reduce") /\ Depth > 0 /\ frames # <<>>
        /\ \A i \in 1 .. Len(frames) - 1 : frames[i].edge # 0
    BY DEF IInv, ControlOK, WalkOK
  <1>3. /\ Front(frames) \in Seq(FrameRec)
        /\ Len(Front(frames)) = Len(frames) - 1
        /\ \A i \in 1 .. Len(frames) - 1 : Front(frames)[i] = frames[i]
        /\ Len(frames) \in Nat \ {0}
    <2> HIDE DEF FrameRec
    <2> QED
      BY <1>1, <1>2, FrontProperties
  <1>4. \A i \in 1 .. Len(frames) : frames[i] \in FrameRec
    <2> HIDE DEF FrameRec
    <2> QED
      BY <1>1, <1>3, SeqElement
  <1>5. Len(edges) \in Nat
    <2>1. edges \in Seq([child : NodeIds, parent : NodeIds, label : TreeIds])
      BY DEF IInv, TypeOK, TypedIn
    <2> QED
      BY <2>1
  <1>6. \A i \in 1 .. Len(frames) : frames[i].node \in NodeIds /\ frames[i].edge \in 0 .. Len(edges)
    BY <1>4
  <1> QED
    BY <1>2, <1>3, <1>5, <1>6

LEMMA WalkUpKeeps ==
  ASSUME IInv, WalkUp
  PROVE  IInv'
  <1> USE DEF IInv
  <1>1. /\ AtEntry("reduce") /\ Depth > 0 /\ Len(frames) \in Nat \ {0}
        /\ frames' \in Seq([node : NodeIds, edge : 0 .. Len(edges)])
        /\ Len(frames') = Len(frames) - 1
        /\ \A i \in 1 .. Len(frames) - 2 : frames'[i].edge # 0
    BY WalkFrames DEF WalkUp
  <1>2. cur \in [head : NodeIds, sym : Symbols(G) \cup {UNKNOWN}, entry : Nat \ {0}]
    BY DEF TypeOK, TypedIn
  <1>3. /\ cur' \in [head : NodeIds, sym : Symbols(G) \cup {UNKNOWN}, entry : Nat \ {0}]
        /\ cur'.sym = cur.sym
        /\ pc' \in {"act", "walk"}
        /\ pc' = "walk" => cur' = cur /\ Len(frames) > 1
    BY <1>2 DEF WalkUp, NextEntry
  <1>4. TypeOK'
    BY <1>1, <1>3, SameInput, WideSame
       DEF TypeOK, WideOK, TypedIn, WalkUp, workVars, errVars
  <1>5. WalkOK'
    <2> SUFFICES ASSUME pc' = "walk" PROVE WalkOK'
      BY DEF WalkOK
    <2>1. AtEntry("reduce")' /\ (Depth > 0)'
      BY <1>1, <1>3, EntryKept DEF WalkUp, gssVars
    <2>2. frames' # <<>>
      BY <1>1, <1>3
    <2> QED
      BY <1>1, <2>1, <2>2 DEF WalkOK
  <1> QED
    BY <1>3, <1>4, <1>5, SameInput
       DEF ControlOK, SymbolOK, FixOK, RecoveryOK, AtEnd, WalkUp, errVars

\* The children of a complete path are tree nodes.
LEMMA PathKidsTyped ==
  ASSUME IInv, ReducePath
  PROVE  PathKids \in Seq(TreeIds) /\ Len(PathKids) = Depth /\ DOMAIN PathKids = 1 .. Depth
  <1>1. TypeOK /\ Depth \in Nat /\ \A i \in 1 .. Depth : frames[i].edge \in 1 .. Len(edges)
    BY WalkFrames, ReduceTyped DEF ReducePath, IInv
  <1>2. ASSUME NEW i \in 1 .. Depth PROVE edges[frames[Depth + 1 - i].edge].label \in TreeIds
    <2>1. frames[Depth + 1 - i].edge \in 1 .. Len(edges)
      BY <1>1
    <2> QED
      BY <1>1, <2>1, EdgeTyped
  <1>3. PathKids \in [1 .. Depth -> TreeIds]
    BY <1>2 DEF PathKids
  <1> HIDE DEF PathKids
  <1> QED
    BY <1>1, <1>3, FunctionIsSeq

LEMMA ReducePathKeeps ==
  ASSUME IInv, ReducePath
  PROVE  IInv'
  <1> USE DEF IInv
  <1>1. /\ AtEntry("reduce") /\ Depth > 0 /\ Len(frames) = Depth + 1 /\ Depth \in Nat
        /\ \A i \in 1 .. Len(frames) : frames[i].node \in NodeIds
        /\ \A i \in 1 .. Depth : frames[i].edge \in 1 .. Len(edges)
    BY WalkFrames, ReduceTyped DEF ReducePath
  <1>2. PathKids \in Seq(TreeIds) /\ Len(PathKids) = Depth /\ DOMAIN PathKids = 1 .. Depth
    BY <1>1, PathKidsTyped
  <1>3. \A t \in TreeIds : tree[t].start \in Bytes /\ tree[t].end \in Bytes
    <2> DEFINE TreeRec == [sym : Labels, start : Bytes, end : Bytes, kids : Seq(TreeIds)]
    <2>1. tree \in Seq(TreeRec)
      BY DEF TypeOK, TypedIn
    <2>2. \A t \in TreeIds : tree[t] \in TreeRec
      <3> HIDE DEF TreeRec
      <3> QED
        BY <2>1, SeqElement DEF TreeIds
    <2> QED
      BY <2>2
  <1>4. PathKids[1] \in TreeIds /\ PathKids[Depth] \in TreeIds
    BY <1>1, <1>2, SeqElement
  <1>5. ArenaGrown
    <2>1. tree[PathKids[1]].start \in Bytes /\ tree[PathKids[Depth]].end \in Bytes
      BY <1>3, <1>4
    <2>2. /\ Production.lhs \in Labels
          /\ DOMAIN Production.field \subseteq DOMAIN PathKids
          /\ \A i \in DOMAIN Production.field : Production.field[i] \in Nat
          /\ DOMAIN Production.alias \subseteq DOMAIN PathKids
          /\ \A i \in DOMAIN Production.alias : Production.alias[i] \in Nat
      BY <1>1, <1>2, ReduceTyped
    <2> QED
      BY <1>2, <2>1, <2>2, AllocInternalTyped DEF ReducePath
  <1>6. Ancestor \in NodeIds /\ Position \in Bytes /\ cur.head \in NodeIds
    BY <1>1, StandsAt DEF Ancestor
  <1>7. /\ WideOK /\ GraphGrown
        /\ PathGoto # NoState => NodeAt(PathGoto, Position) \in NodeIds'
    <2>1. CASE PathGoto = NoState
      BY <1>5, <2>1, BuildGrows DEF ReducePath
    <2>2. CASE PathGoto # NoState
      <3>1. PathGoto \in States(G)
        BY <2>2, GotoTyped DEF PathGoto
      <3> QED
        BY <1>5, <1>6, <2>2, <3>1, PushGrows DEF ReducePath
    <2> QED
      BY <2>1, <2>2
  <1>8. work' \in Seq(NodeIds') /\ queued' \subseteq NodeIds'
    <2>1. work \in Seq(NodeIds') /\ queued \subseteq NodeIds'
      BY <1>7 DEF WideOK, TypedIn
    <2>2. CASE PathGoto = NoState
      BY <2>1, <2>2 DEF ReducePath, workVars
    <2>3. CASE PathGoto # NoState
      BY <1>7, <2>1, <2>3, EnqueueTyped DEF ReducePath
    <2> QED
      BY <2>2, <2>3
  <1>9. frames' \in Seq([node : NodeIds', edge : 0 .. Len(edges')]) /\ frames' # <<>>
        /\ \A i \in 1 .. Len(frames') - 1 : frames'[i].edge # 0
    <2> DEFINE FrameRec == [node : NodeIds', edge : 0 .. Len(edges')]
    <2>1. frames \in Seq(FrameRec) /\ frames # <<>> /\ frames' = Front(frames)
      BY <1>7, WalkFrames DEF WideOK, TypedIn, ReducePath
    <2>2. frames' \in Seq(FrameRec)
      <3> HIDE DEF FrameRec
      <3> QED
        BY <2>1, FrontProperties
    <2> QED
      BY <1>1, <2>1, <2>2, WalkFrames DEF ReducePath
  <1>10. TypeOK'
    BY <1>5, <1>7, <1>8, <1>9, SameInput
       DEF TypeOK, WideOK, TypedIn, ArenaGrown, GraphGrown, ReducePath, errVars
  <1>11. WalkOK'
    <2>1. gss'[cur.head] = gss[cur.head]
      BY <1>6, <1>7 DEF GraphGrown
    <2>2. AtEntry("reduce")' /\ (Depth > 0)'
      BY <1>1, <2>1, EntryKept DEF ReducePath
    <2> QED
      BY <1>9, <2>2 DEF WalkOK
  <1> QED
    BY <1>10, <1>11, SameInput
       DEF ControlOK, SymbolOK, FixOK, RecoveryOK, AtEnd, ReducePath, errVars

-------------------------------------------------------------------------------
(* The sweep of the empty reductions after a shift.                        *)

LEMMA FirstSweepTyped ==
  ASSUME IInv, NEW i \in DOMAIN nextHeads, ~AtEnd, FirstSweep(i)
  PROVE  /\ cur' \in [head : NodeIds, sym : Symbols(G) \cup {UNKNOWN}, entry : Nat \ {0}]
         /\ cur'.sym = tok.kind
  <1>1. nextHeads \in Seq(NodeIds) /\ tok \in [kind : Kinds, start : Bytes, end : Bytes]
    BY DEF IInv, TypeOK, TypedIn
  <1>2. nextHeads[i] \in NodeIds
    BY <1>1, SeqElement
  <1>3. tok.kind \in Symbols(G) \cup {UNKNOWN}
    BY <1>1, GrammarFacts DEF IInv, Kinds, AtEnd
  <1> QED
    BY <1>2, <1>3 DEF FirstSweep

LEMMA SweepKeeps ==
  ASSUME IInv, StartFixedPoint \/ FixNextHead \/ TokenDone
  PROVE  IInv'
  <1> USE DEF IInv
  <1>1. nextHeads \in Seq(NodeIds) /\ at \in Nat \ {0} /\ Len(nextHeads) \in Nat
    <2>1. nextHeads \in Seq(NodeIds)
      BY DEF TypeOK, TypedIn
    <2> QED
      BY <2>1 DEF TypeOK, TypedIn
  <1>2. CASE StartFixedPoint
    <2>1. 1 \in DOMAIN nextHeads
      BY <1>1, <1>2 DEF StartFixedPoint
    <2>2. /\ cur' \in [head : NodeIds, sym : Symbols(G) \cup {UNKNOWN}, entry : Nat \ {0}]
          /\ cur'.sym = tok.kind /\ ~AtEnd
      BY <1>2, <2>1, FirstSweepTyped DEF StartFixedPoint
    <2>3. TypeOK'
      BY <1>1, <1>2, <2>2, SameInput, WideSame
         DEF TypeOK, WideOK, TypedIn, StartFixedPoint, workVars, walkVars, errVars
    <2>4. ControlOK'
      BY <1>2, <2>2
         DEF ControlOK, SymbolOK, FixOK, WalkOK, RecoveryOK, AtEnd, StartFixedPoint, errVars
    <2> QED
      BY <1>2, <2>3, <2>4 DEF StartFixedPoint
  <1>3. CASE FixNextHead
    <2>1. at + 1 \in DOMAIN nextHeads /\ at + 1 \in Nat \ {0}
      BY <1>1, <1>3 DEF FixNextHead
    <2>2. ~AtEnd
      BY <1>3 DEF ControlOK, FixOK, FixNextHead
    <2>3. /\ cur' \in [head : NodeIds, sym : Symbols(G) \cup {UNKNOWN}, entry : Nat \ {0}]
          /\ cur'.sym = tok.kind
      BY <1>3, <2>1, <2>2, FirstSweepTyped DEF FixNextHead
    <2>4. TypeOK'
      BY <1>3, <2>1, <2>3, SameInput, WideSame
         DEF TypeOK, WideOK, TypedIn, FixNextHead, workVars, walkVars, errVars
    <2>5. ControlOK'
      BY <1>3, <2>2, <2>3
         DEF ControlOK, SymbolOK, FixOK, WalkOK, RecoveryOK, AtEnd, FixNextHead, errVars
    <2> QED
      BY <1>3, <2>4, <2>5 DEF FixNextHead
  <1>4. CASE TokenDone
    <2>1. nextHeads # <<>>
      BY <1>1, <1>4 DEF TokenDone
    <2>2. TypeOK'
      BY <1>1, <1>4, <2>1, SameInput, WideSame
         DEF TypeOK, WideOK, TypedIn, TokenDone, workVars, walkVars, errVars
    <2>3. ControlOK'
      BY <1>4 DEF ControlOK, SymbolOK, FixOK, WalkOK, RecoveryOK, TokenDone, errVars
    <2> QED
      BY <1>4, <2>2, <2>3 DEF TokenDone
  <1> QED
    BY <1>2, <1>3, <1>4

-------------------------------------------------------------------------------
(* Recovery.                                                               *)

LEMMA StartRecoveryKeeps ==
  ASSUME IInv, StartRecovery
  PROVE  IInv'
  <1> USE DEF IInv
  <1>1. tok \in [kind : Kinds, start : Bytes, end : Bytes] /\ errStart \in Bytes
    BY DEF TypeOK, TypedIn
  <1>2. ArenaGrown
    BY <1>1, AllocTokenTyped DEF StartRecovery, Labels
  <1>3. WideOK /\ GraphGrown /\ NodeIds' = NodeIds
    BY <1>2, BuildGrows DEF StartRecovery
  <1>4. NewId \in TreeIds' /\ errKids' \in Seq(TreeIds') /\ errKids' # <<>>
    BY <1>2 DEF ArenaGrown, StartRecovery
  <1>5. best' = NoBest /\ NoBest \in [heads : Seq(NodeIds'), pos : Bytes, cost : Nat]
    <2>1. 0 \in Bytes
      BY GrammarFacts DEF Bytes
    <2> QED
      BY <2>1 DEF StartRecovery, NoBest
  <1>6. TypeOK'
    BY <1>1, <1>2, <1>3, <1>4, <1>5, SameInput
       DEF TypeOK, WideOK, TypedIn, ArenaGrown, GraphGrown, StartRecovery, workVars, walkVars
  <1>7. ControlOK'
    BY <1>4, <1>5
       DEF ControlOK, SymbolOK, FixOK, WalkOK, RecoveryOK, StartRecovery
  <1> QED
    BY <1>6, <1>7 DEF StartRecovery

\* A token that is skipped is one more error child.
LEMMA SkipTokenTyped ==
  ASSUME IInv, UNCHANGED gssVars, NEW t \in [kind : Kinds, start : Bytes, end : Bytes], SkipToken(t)
  PROVE  /\ ArenaGrown /\ WideOK /\ GraphGrown /\ NodeIds' = NodeIds
         /\ errKids' \in Seq(TreeIds') /\ errKids' # <<>>
         /\ errStart' \in Bytes
  <1>1. ArenaGrown
    BY AllocTokenTyped DEF IInv, SkipToken, Labels
  <1>2. WideOK /\ GraphGrown /\ NodeIds' = NodeIds
    BY <1>1, BuildGrows DEF IInv
  <1>3. errKids' \in Seq(TreeIds') /\ errKids' # <<>>
    <2>1. errKids \in Seq(TreeIds') /\ NewId \in TreeIds'
      BY <1>1, <1>2 DEF WideOK, TypedIn, ArenaGrown
    <2> QED
      BY <2>1, Grown DEF SkipToken
  <1> QED
    BY <1>1, <1>2, <1>3 DEF SkipToken

LEMMA ResyncSkipKeeps ==
  ASSUME IInv, ResyncSkip
  PROVE  IInv'
  <1> USE DEF IInv
  <1>1. PICK t \in Lexed(cursor, Symbols(G)) : cursor' = t.end /\ tok' = t /\ SkipToken(t)
    BY DEF ResyncSkip
  <1>2. t \in [kind : Kinds, start : Bytes, end : Bytes] /\ t.end \in Bytes
    <2>1. t \in [kind : Kinds, start : Bytes, end : Bytes]
      BY LexedTyped DEF TypeOK, TypedIn
    <2> QED
      BY <2>1
  <1>3. /\ ArenaGrown /\ WideOK /\ GraphGrown /\ NodeIds' = NodeIds
        /\ errKids' \in Seq(TreeIds') /\ errKids' # <<>>
        /\ errStart' \in Bytes
    BY <1>1, <1>2, SkipTokenTyped DEF ResyncSkip
  <1>4. TypeOK'
    BY <1>1, <1>2, <1>3, SameInput
       DEF TypeOK, WideOK, TypedIn, ArenaGrown, GraphGrown, ResyncSkip, workVars, walkVars
  <1>5. ControlOK'
    BY <1>3 DEF ControlOK, SymbolOK, FixOK, WalkOK, RecoveryOK, ResyncSkip
  <1> QED
    BY <1>4, <1>5 DEF ResyncSkip

LEMMA ResyncFoundKeeps ==
  ASSUME IInv, ResyncFound
  PROVE  IInv'
  <1> USE DEF IInv
  <1>1. PICK t \in Lexed(cursor, Symbols(G)) :
          cursor' = t.end /\ tok' = t /\ \E i \in DOMAIN heads : Continues(heads[i], t.kind)
    BY DEF ResyncFound
  <1>2. t \in [kind : Kinds, start : Bytes, end : Bytes] /\ t.end \in Bytes
    <2>1. t \in [kind : Kinds, start : Bytes, end : Bytes]
      BY LexedTyped DEF TypeOK, TypedIn
    <2> QED
      BY <2>1
  <1>3. errKids \in Seq(TreeIds) /\ errKids # <<>>
    BY DEF TypeOK, TypedIn, ControlOK, RecoveryOK, ResyncFound
  <1>4. tree[errKids[1]].start \in Bytes /\ tree[Last(errKids)].end \in Bytes
    <2> DEFINE TreeRec == [sym : Labels, start : Bytes, end : Bytes, kids : Seq(TreeIds)]
    <2>1. tree \in Seq(TreeRec)
      BY DEF TypeOK, TypedIn
    <2>2. errKids[1] \in TreeIds /\ Last(errKids) \in TreeIds
      BY <1>3, FrontProperties, SeqElement
    <2>3. \A u \in TreeIds : tree[u] \in TreeRec
      <3> HIDE DEF TreeRec
      <3> QED
        BY <2>1, SeqElement DEF TreeIds
    <2> QED
      BY <2>2, <2>3
  <1>5. ArenaGrown
    <2>1. DOMAIN NoNames = {} /\ {} \subseteq DOMAIN errKids
      BY DEF NoNames
    <2> QED
      BY <1>3, <1>4, <2>1, AllocInternalTyped DEF ResyncFound, Labels
  <1>6. WideOK /\ GraphGrown /\ NodeIds' = NodeIds
    BY <1>5, BuildGrows DEF ResyncFound
  <1>7. /\ nextHeads' = <<>> /\ at' = 1 /\ pc' = "attach"
         /\ UNCHANGED <<job, gss, edges, heads, work, queued, epsLog, cur, frames, limit,
                        errStart, errKids, best, root>>
    BY DEF ResyncFound, gssVars, workVars, walkVars, errVars
  <1>8. TypeOK'
    <2>1. cursor' \in Bytes /\ tok' \in [kind : Kinds, start : Bytes, end : Bytes]
      BY <1>1, <1>2
    <2>2. <<>> \in Seq(NodeIds') /\ 1 \in Nat \ {0}
      OBVIOUS
    <2> QED
      BY <1>5, <1>6, <1>7, <2>1, <2>2, SameInput
         DEF TypeOK, WideOK, TypedIn, ArenaGrown, GraphGrown
  <1>9. (\E i \in at .. Len(heads) : Continues(heads[i], tok.kind))'
    <2>1. heads \in Seq(NodeIds)
      BY DEF TypeOK, TypedIn
    <2>2. PICK i \in DOMAIN heads : Continues(heads[i], t.kind)
      BY <1>1
    <2>3. i \in at' .. Len(heads')
      BY <1>7, <2>1, <2>2
    <2>4. Continues(heads[i], tok.kind)'
      BY <1>1, <1>7, <2>2, SameInput DEF Continues
    <2> QED
      BY <2>3, <2>4
  <1>10. ControlOK'
    BY <1>3, <1>9, <1>7 DEF ControlOK, SymbolOK, FixOK, WalkOK, RecoveryOK
  <1> QED
    BY <1>8, <1>10, <1>7

LEMMA AttachKeeps ==
  ASSUME IInv, Attach
  PROVE  IInv'
  <1> USE DEF IInv
  <1>1. /\ heads \in Seq(NodeIds) /\ at \in Nat \ {0} /\ at <= Len(heads)
        /\ tok.start \in Bytes
        /\ errKids \in Seq(TreeIds) /\ errKids # <<>>
    <2>1. tok \in [kind : Kinds, start : Bytes, end : Bytes]
      BY DEF TypeOK, TypedIn
    <2> QED
      BY <2>1 DEF TypeOK, TypedIn, ControlOK, RecoveryOK, Attach
  <1>2. /\ UNCHANGED <<job, cursor, heads, tree, link, pc, tok, work, queued, epsLog, cur, frames,
                       limit, errStart, errKids, best, root>>
        /\ TreeIds' = TreeIds /\ at' = at + 1
    BY DEF Attach, treeVars, workVars, walkVars, errVars, TreeIds
  <1>3. CASE Continues(heads[at], tok.kind)
    <2> DEFINE s == gss[heads[at]].state
    <2>1. heads[at] \in NodeIds /\ s \in States(G)
      BY <1>1, SeqElement, NodeTyped
    <2>2. Len(tree) \in TreeIds
      <3>1. errKids[1] \in TreeIds
        BY <1>1, SeqElement
      <3> QED
        BY <3>1, LinkDomain
    <2> HIDE DEF s
    <2>3. AddEdge(s, tok.start, heads[at], Len(tree)) /\ AddHead(NodeAt(s, tok.start))
      BY <1>3 DEF Attach, s
    <2>4. /\ gss' \in Seq([state : States(G), pos : Bytes])
          /\ NodeIds \subseteq NodeIds'
          /\ NodeAt(s, tok.start) \in NodeIds'
          /\ edges' \in Seq([child : NodeIds', parent : NodeIds', label : TreeIds'])
          /\ Len(edges) \in Nat /\ Len(edges') = Len(edges) + 1
      BY <1>1, <1>2, <2>1, <2>2, <2>3, AddEdgeTyped
    <2>5. WideOK
      BY <1>2, <2>4, Widen DEF TypeOK, WideOK
    <2>6. nextHeads' \in Seq(NodeIds') /\ nextHeads' # <<>>
      BY <2>3, <2>4, <2>5, AddHeadTyped DEF WideOK, TypedIn
    <2>7. TypeOK'
      BY <1>1, <1>2, <2>4, <2>5, <2>6, SameInput DEF TypeOK, WideOK, TypedIn
    <2>8. ControlOK'
      BY <1>2, <2>6 DEF ControlOK, SymbolOK, FixOK, WalkOK, RecoveryOK, Attach
    <2> QED
      BY <1>2, <2>7, <2>8
  <1>4. CASE ~Continues(heads[at], tok.kind)
    <2>1. UNCHANGED <<gssVars, nextHeads>>
      BY <1>4 DEF Attach
    <2>2. TypeOK'
      BY <1>1, <1>2, <2>1, SameInput, WideSame DEF TypeOK, WideOK, TypedIn, treeVars
    <2>3. ASSUME nextHeads = <<>>
          PROVE  (\E i \in at .. Len(heads) : Continues(heads[i], tok.kind))'
      <3>1. PICK i \in at .. Len(heads) : Continues(heads[i], tok.kind)
        BY <2>3 DEF ControlOK, RecoveryOK, Attach
      <3>2. i \in (at + 1) .. Len(heads)
        BY <1>1, <1>4, <3>1
      <3>3. Continues(heads[i], tok.kind)'
        BY <1>2, <2>1, <3>1, SameInput DEF Continues, gssVars
      <3> QED
        BY <1>2, <3>2, <3>3
    <2>4. ControlOK'
      BY <1>2, <2>1, <2>3 DEF ControlOK, SymbolOK, FixOK, WalkOK, RecoveryOK, Attach
    <2> QED
      BY <1>2, <2>2, <2>4
  <1> QED
    BY <1>3, <1>4

LEMMA AttachDoneKeeps ==
  ASSUME IInv, AttachDone
  PROVE  IInv'
  <1> USE DEF IInv
  <1>1. /\ tok \in [kind : Kinds, start : Bytes, end : Bytes]
        /\ heads \in Seq(NodeIds) /\ nextHeads \in Seq(NodeIds) /\ at \in Nat \ {0}
        /\ errKids \in Seq(TreeIds)
    BY DEF TypeOK, TypedIn
  <1>2. /\ UNCHANGED <<job, cursor, gssVars, heads, tok, work, queued, epsLog, nextHeads, cur, at,
                       frames, limit, root>>
        /\ SkipToken(tok) /\ pc' = "resync"
    BY DEF AttachDone, workVars, walkVars
  <1>3. /\ ArenaGrown /\ WideOK /\ GraphGrown /\ NodeIds' = NodeIds
        /\ errKids' \in Seq(TreeIds') /\ errKids' # <<>>
        /\ errStart' \in Bytes
    BY <1>1, <1>2, SkipTokenTyped
  <1>4. nextHeads # <<>>
    <2>1. at .. Len(heads) = {}
      BY <1>1 DEF AttachDone
    <2> QED
      BY <2>1 DEF ControlOK, RecoveryOK, AttachDone
  <1>5. best' \in [heads : Seq(NodeIds'), pos : Bytes, cost : Nat]
    <2>1. 10 * Len(errKids) \in Nat /\ tok.start \in Bytes
      BY <1>1
    <2>2. best \in [heads : Seq(NodeIds'), pos : Bytes, cost : Nat]
      BY <1>3 DEF WideOK, TypedIn
    <2>3. [heads |-> nextHeads, pos |-> tok.start, cost |-> 10 * Len(errKids)]
            \in [heads : Seq(NodeIds'), pos : Bytes, cost : Nat]
      BY <1>1, <1>3, <2>1
    <2> QED
      BY <2>2, <2>3 DEF AttachDone
  <1>6. best' # NoBest => best'.heads # <<>>
    BY <1>4 DEF AttachDone, ControlOK, RecoveryOK
  <1>7. TypeOK'
    BY <1>1, <1>2, <1>3, <1>5, SameInput
       DEF TypeOK, WideOK, TypedIn, ArenaGrown, GraphGrown
  <1>8. ControlOK'
    BY <1>2, <1>3, <1>6 DEF ControlOK, SymbolOK, FixOK, WalkOK, RecoveryOK
  <1> QED
    BY <1>2, <1>7, <1>8

LEMMA ResumeKeeps ==
  ASSUME IInv, Resume
  PROVE  IInv'
  <1>1. best \in [heads : Seq(NodeIds), pos : Bytes, cost : Nat]
    BY DEF IInv, TypeOK, TypedIn
  <1>2. best.heads \in Seq(NodeIds) /\ best.heads # <<>> /\ best.pos \in Bytes
    BY <1>1 DEF IInv, ControlOK, RecoveryOK, Resume
  <1>3. TypeOK'
    BY <1>2, SameInput, WideSame
       DEF IInv, TypeOK, WideOK, TypedIn, Resume, workVars, walkVars, errVars
  <1>4. ControlOK'
    BY DEF IInv, ControlOK, SymbolOK, FixOK, WalkOK, RecoveryOK, Resume, errVars
  <1> QED
    BY <1>3, <1>4 DEF IInv, Resume

LEMMA GiveUpKeeps ==
  ASSUME IInv, GiveUp
  PROVE  IInv'
  <1>1. Len(Source) \in Nat
    BY GrammarFacts DEF IInv
  <1>2. EndToken \in [kind : Kinds, start : Bytes, end : Bytes] /\ cursor' \in Bytes
    BY <1>1 DEF EndToken, Kinds, Bytes, GiveUp
  <1> QED
    BY <1>2, StartWorkKeeps DEF GiveUp

-------------------------------------------------------------------------------
(***************************************************************************)
(* The engine starts typed, every step keeps it so, and stuttering too.    *)
(***************************************************************************)
LEMMA StartTyped ==
  ASSUME job \in Jobs
  PROVE  StartByte \in Bytes
  <1>1. JobOK(job)
    BY JobsAssumption
  <1>2. job.from \in {-1} \cup 0 .. Len(job.source) /\ Len(job.source) \in Nat
    <2>1. Len(job.source) \in Nat
      BY GrammarFacts DEF Source
    <2> QED
      BY <1>1, <2>1 DEF JobOK, Whole
  <1> QED
    BY <1>2 DEF StartByte, Whole, Bytes, Source

LEMMA InitTyped ==
  ASSUME Init
  PROVE  IInv
  <1>0. StartByte \in Bytes
    BY StartTyped DEF Init
  <1>1. Len(Source) \in Nat /\ 0 \in States(G) /\ 0 \in Symbols(G) /\ Bytes = 0 .. Len(Source)
    BY GrammarFacts DEF Init, Bytes
  <1>2. gss \in Seq([state : States(G), pos : Bytes]) /\ NodeIds = {1}
    BY <1>1 DEF Init, NodeIds
  <1>3. /\ heads \in Seq(NodeIds) /\ heads # <<>>
        /\ edges = <<>> /\ tree = <<>> /\ link = <<>> /\ TreeIds = {}
    BY <1>2 DEF Init, TreeIds
  <1>4. tok \in [kind : Kinds, start : Bytes, end : Bytes]
    BY <1>1 DEF Init, EndToken, Kinds
  <1>5. cur \in [head : NodeIds, sym : Symbols(G) \cup {UNKNOWN}, entry : Nat \ {0}]
    BY <1>1, <1>2 DEF Init
  <1>6. best \in [heads : Seq(NodeIds), pos : Bytes, cost : Nat]
    BY <1>1 DEF Init, NoBest
  <1>7. TypeOK
    BY <1>0, <1>1, <1>2, <1>3, <1>4, <1>5, <1>6 DEF Init, TypeOK, TypedIn
  <1>8. ControlOK
    BY DEF Init, ControlOK, SymbolOK, FixOK, WalkOK, RecoveryOK
  <1> QED
    BY <1>7, <1>8 DEF Init, IInv

LEMMA NextTyped ==
  ASSUME IInv, Next
  PROVE  IInv'
  <1>1. CASE Lap
    BY <1>1, LapKeeps
  <1>2. CASE Worklist
    BY <1>2, PopHeadKeeps, ShiftTokenKeeps, ReduceEmptyHeadKeeps, EntryPassedKeeps, EndKeeps
       DEF Worklist
  <1>3. CASE Walk
    BY <1>3, WalkDownKeeps, WalkUpKeeps, ReducePathKeeps DEF Walk
  <1>4. CASE FixedPoint
    BY <1>4, SweepKeeps, FixReduceEmptyKeeps, EntryPassedKeeps DEF FixedPoint
  <1>5. CASE Recovery
    BY <1>5, StartRecoveryKeeps, ResyncSkipKeeps, ResyncFoundKeeps, AttachKeeps, AttachDoneKeeps,
       ResumeKeeps, GiveUpKeeps DEF Recovery
  <1> QED
    BY <1>1, <1>2, <1>3, <1>4, <1>5 DEF Next

LEMMA StutterTyped ==
  ASSUME IInv, UNCHANGED vars
  PROVE  IInv'
  <1>1. TypeOK'
    BY SameInput, WideSame
       DEF IInv, TypeOK, WideOK, TypedIn, vars, gssVars, treeVars
  <1>2. ControlOK'
    <2>1. SymbolOK' /\ FixOK' /\ RecoveryOK'
      BY SameInput
         DEF IInv, ControlOK, SymbolOK, FixOK, RecoveryOK, AtEnd, Continues, vars
    <2>2. WalkOK'
      BY EntryKept DEF IInv, ControlOK, WalkOK, vars
    <2> QED
      BY <2>1, <2>2 DEF ControlOK
  <1> QED
    BY <1>1, <1>2 DEF IInv, vars

(***************************************************************************)
(* The inductive invariant holds of every reachable state of every call.   *)
(***************************************************************************)
THEOREM Inductive == Spec => []IInv
  <1>1. Init => IInv
    BY InitTyped
  <1>2. IInv /\ [Next]_vars => IInv'
    BY NextTyped, StutterTyped
  <1> QED
    BY <1>1, <1>2, PTL DEF Spec

(***************************************************************************)
(* No index the engine holds ever leaves the vector it points into: the    *)
(* indexing of gss.nodes, tree.nodes, productions and the table cannot     *)
(* panic, for any grammar, source and abort.                               *)
(***************************************************************************)
THEOREM TypeCorrect == Spec => []TypeOK
  <1>1. IInv => TypeOK
    BY DEF IInv
  <1> QED
    BY <1>1, Inductive, PTL

-------------------------------------------------------------------------------
(***************************************************************************)
(* The heads and the worklist: all heads stand at one position, no node is *)
(* taken up twice for one token, every lap moves on; and the sibling links *)
(* of the arena.                                                           *)
(***************************************************************************)

(* The invariant, on top of the type invariant.                            *)

StandAt(s, p) == \A n \in ToSet(s) : gss[n].pos = p

\* All nodes of a lap stand where the lap found them, or where it leaves them.
Aligned ==
  /\ StandAt(heads, HeadPos)
  /\ StandAt(best.heads, best.pos)
  /\ InWork => \A n \in queued : gss[n].pos = HeadPos
  /\ InWork \/ pc = "fix" => StandAt(nextHeads, tok.end)
  /\ pc = "fix" => cur.head \in ToSet(nextHeads)
  /\ pc = "attach" => StandAt(nextHeads, tok.start)

\* Every vector of nodes is duplicate-free, and what was popped is not on the worklist.
Distinct ==
  /\ IsInjective(heads)
  /\ IsInjective(nextHeads)
  /\ IsInjective(best.heads)
  /\ IsInjective(work)
  /\ InWork => ToSet(work) \subseteq queued
  /\ pc \in {"act", "walk"} => cur.head \in queued \ ToSet(work)

\* The lexer is ahead of the heads wherever they are about to move.
Ahead ==
  /\ pc = "lex" => HeadPos <= cursor
  /\ (InWork \/ pc = "fix") /\ ~AtEnd => HeadPos < tok.end /\ tok.end = cursor
  /\ pc \in {"resync", "attach"} => HeadPos < cursor
  /\ pc = "attach" => HeadPos < tok.start
  /\ pc \in {"resync", "attach"} /\ best # NoBest => HeadPos < best.pos

StackInv == Aligned /\ Distinct /\ Ahead

-------------------------------------------------------------------------------
(* Sequences as vectors of distinct nodes.                                 *)

LEMMA AppendDistinct ==
  ASSUME NEW S, NEW s \in Seq(S), IsInjective(s), NEW e \in S
  PROVE  /\ ToSet(Append(s, e)) = ToSet(s) \cup {e}
         /\ e \notin ToSet(s) => IsInjective(Append(s, e))
  <1> DEFINE t == Append(s, e)
  <1>1. /\ Len(s) \in Nat
        /\ DOMAIN s = 1 .. Len(s)
        /\ DOMAIN t = DOMAIN s \cup {Len(s) + 1}
        /\ \A i \in DOMAIN s : t[i] = s[i]
        /\ t[Len(s) + 1] = e
    BY Grown
  <1> HIDE DEF t
  <1>2. ToSet(t) = ToSet(s) \cup {e}
    BY <1>1 DEF ToSet
  <1>3. ASSUME e \notin ToSet(s) PROVE IsInjective(t)
    BY <1>1, <1>3 DEF ToSet, IsInjective
  <1> QED
    BY <1>2, <1>3 DEF t

LEMMA FrontDistinct ==
  ASSUME NEW S, NEW s \in Seq(S), IsInjective(s), s # <<>>
  PROVE  /\ IsInjective(Front(s))
         /\ ToSet(Front(s)) \subseteq ToSet(s)
         /\ Last(s) \in ToSet(s)
         /\ Last(s) \notin ToSet(Front(s))
  <1> DEFINE f == Front(s)
  <1>1. /\ f \in Seq(S)
        /\ Len(f) = Len(s) - 1
        /\ \A i \in 1 .. Len(s) - 1 : f[i] = s[i]
        /\ Len(s) \in Nat \ {0}
        /\ Last(s) = s[Len(s)]
    BY FrontProperties
  <1> HIDE DEF f
  <1>2. DOMAIN f = 1 .. Len(s) - 1 /\ DOMAIN s = 1 .. Len(s)
    BY <1>1
  <1>3. \A i \in DOMAIN f : i \in DOMAIN s /\ i # Len(s) /\ f[i] = s[i]
    BY <1>1, <1>2
  <1>4. Len(s) \in DOMAIN s
    BY <1>1, <1>2
  <1>5. IsInjective(f)
    BY <1>3 DEF IsInjective
  <1>6. ToSet(f) \subseteq ToSet(s) /\ Last(s) \in ToSet(s)
    BY <1>1, <1>3, <1>4 DEF ToSet
  <1>7. Last(s) \notin ToSet(f)
    BY <1>1, <1>3, <1>4 DEF ToSet, IsInjective
  <1> QED
    BY <1>5, <1>6, <1>7 DEF f

\* add_head and enqueue keep their vectors duplicate-free.
LEMMA AddHeadDistinct ==
  ASSUME NEW N, nextHeads \in Seq(N), IsInjective(nextHeads), NEW n \in N, AddHead(n)
  PROVE  IsInjective(nextHeads') /\ ToSet(nextHeads') = ToSet(nextHeads) \cup {n}
  BY AppendDistinct DEF AddHead

LEMMA EnqueueDistinct ==
  ASSUME NEW N, work \in Seq(N), IsInjective(work), ToSet(work) \subseteq queued,
         NEW n \in N, Enqueue(n)
  PROVE  /\ IsInjective(work')
         /\ queued' = queued \cup {n}
         /\ ToSet(work') \subseteq queued'
         /\ ToSet(work') \cap queued \subseteq ToSet(work)
  BY AppendDistinct DEF Enqueue

-------------------------------------------------------------------------------
(* What the types say of the vectors.                                      *)

LEMMA Vectors ==
  ASSUME IInv
  PROVE  /\ heads \in Seq(NodeIds) /\ ToSet(heads) \subseteq NodeIds /\ heads[1] \in ToSet(heads)
         /\ nextHeads \in Seq(NodeIds) /\ ToSet(nextHeads) \subseteq NodeIds
         /\ best.heads \in Seq(NodeIds) /\ ToSet(best.heads) \subseteq NodeIds
         /\ work \in Seq(NodeIds) /\ queued \subseteq NodeIds
         /\ HeadPos \in Int /\ cursor \in Int /\ best.pos \in Int
         /\ tok.start \in Int /\ tok.end \in Int
  <1>1. /\ heads \in Seq(NodeIds) /\ heads # <<>>
        /\ nextHeads \in Seq(NodeIds)
        /\ best \in [heads : Seq(NodeIds), pos : Bytes, cost : Nat]
        /\ work \in Seq(NodeIds) /\ queued \subseteq NodeIds
        /\ cursor \in Bytes
        /\ tok \in [kind : Kinds, start : Bytes, end : Bytes]
    BY DEF IInv, TypeOK, TypedIn
  <1>2. best.heads \in Seq(NodeIds) /\ best.pos \in Bytes /\ tok.start \in Bytes /\ tok.end \in Bytes
    BY <1>1
  <1>3. ASSUME NEW s \in Seq(NodeIds) PROVE ToSet(s) \subseteq NodeIds
    BY SeqElement DEF ToSet
  <1>4. Bytes \subseteq Int
    BY GrammarFacts DEF IInv, Bytes
  <1>5. 1 \in DOMAIN heads
    BY <1>1
  <1>6. heads[1] \in ToSet(heads) /\ heads[1] \in NodeIds
    BY <1>1, <1>3, <1>5 DEF ToSet
  <1>7. HeadPos \in Bytes
    BY <1>6, NodeTyped DEF IInv, HeadPos
  <1> QED
    BY <1>1, <1>2, <1>3, <1>4, <1>6, <1>7

\* Nodes stay where they are when the stack grows.
LEMMA StandKept ==
  ASSUME NEW s, NEW p, ToSet(s) \subseteq NodeIds, StandAt(s, p), \A n \in NodeIds : gss'[n] = gss[n]
  PROVE  \A n \in ToSet(s) : gss'[n].pos = p
  BY DEF StandAt

-------------------------------------------------------------------------------
(* The steps that leave the stack as it is.                                *)

LEMMA EntryPassedStacks ==
  ASSUME IInv, StackInv,
         PassEntry \/ NextSymbol \/ HeadDone \/ FixPassEntry \/ StartReduce \/ AcceptInput
           \/ EndUnaccepted \/ WalkDown \/ WalkUp
  PROVE  StackInv'
  <1>1. /\ UNCHANGED <<cursor, gss, heads, best, work, queued, nextHeads, tok>>
        /\ cur'.head = cur.head
        /\ pc' = pc \/ (pc = "act" /\ pc' = "pop") \/ (pc = "act" /\ pc' = "walk")
             \/ (pc = "walk" /\ pc' = "act") \/ pc' = "done"
        /\ pc \in {"pop", "act", "walk", "fix"}
    <2>1. cur \in [head : NodeIds, sym : Symbols(G) \cup {UNKNOWN}, entry : Nat \ {0}]
      BY DEF IInv, TypeOK, TypedIn
    <2> QED
      BY <2>1 DEF PassEntry, NextSymbol, HeadDone, FixPassEntry, StartReduce, AcceptInput, EndUnaccepted,
         WalkDown, WalkUp, NextEntry, gssVars, errVars, workVars
  <1> QED
    BY <1>1 DEF StackInv, Aligned, Distinct, Ahead, StandAt, HeadPos, InWork, AtEnd

LEMMA StartWorkStacks ==
  ASSUME IInv, StackInv, NEW t, StartWork(t), UNCHANGED <<gss, heads, best>>,
         t.kind # END => HeadPos < t.end /\ t.end = cursor'
  PROVE  StackInv'
  <1>1. HeadPos' = HeadPos
    BY DEF HeadPos
  <1>2. Aligned'
    BY <1>1 DEF StackInv, Aligned, StandAt, InWork, StartWork, ToSet
  <1>3. Distinct'
    BY DEF StackInv, Distinct, InWork, StartWork, IsInjective, ToSet
  <1>4. Ahead'
    BY <1>1 DEF Ahead, StartWork, AtEnd, InWork
  <1> QED
    BY <1>2, <1>3, <1>4 DEF StackInv

LEMMA LapStacks ==
  ASSUME IInv, StackInv, Lap
  PROVE  StackInv'
  <1>1. Mask \subseteq Symbols(G)
    BY MaskTyped DEF IInv
  <1>2. ASSUME NEW t \in Lexed(cursor, Mask)
        PROVE  t.start \in Int /\ t.end \in Int /\ cursor <= t.start /\ t.kind # END
    <2>1. /\ t \in [kind : Kinds, start : Bytes, end : Bytes]
          /\ cursor <= t.start /\ t.kind # END
      BY <1>1, LexedTyped DEF IInv, TypeOK, TypedIn
    <2>2. Bytes \subseteq Int
      BY GrammarFacts DEF IInv, Bytes
    <2> QED
      BY <2>1, <2>2
  <1>3. HeadPos \in Int /\ cursor \in Int /\ (pc = "lex" => HeadPos <= cursor)
    BY Vectors DEF StackInv, Ahead
  <1>4. CASE ReadToken
    <2>1. PICK t \in Lexed(cursor, Mask) : t.start < t.end /\ cursor' = t.end /\ StartWork(t)
      BY <1>4 DEF ReadToken
    <2>2. HeadPos < t.end
      BY <1>2, <1>3, <1>4, <2>1 DEF ReadToken
    <2> QED
      BY <1>4, <2>1, <2>2, StartWorkStacks DEF ReadToken, gssVars, errVars
  <1>5. CASE SkipEmptyToken
    <2>1. PICK t \in Lexed(cursor, Mask) : cursor' = t.start + 1
      BY <1>5 DEF SkipEmptyToken
    <2>2. HeadPos <= cursor' /\ pc = "lex"
      BY <1>2, <1>3, <1>5, <2>1 DEF SkipEmptyToken
    <2> QED
      BY <1>5, <2>2
         DEF SkipEmptyToken, StackInv, Aligned, Distinct, Ahead, StandAt, HeadPos, InWork, AtEnd,
             gssVars, errVars, workVars
  <1>6. CASE EndOfInput \/ AbortParse
    <2>1. StartWork(EndToken) /\ EndToken.kind = END /\ UNCHANGED <<gss, heads, best>>
      BY <1>6 DEF EndOfInput, AbortParse, EndToken, gssVars, errVars
    <2> QED
      BY <2>1, StartWorkStacks
  <1> QED
    BY <1>4, <1>5, <1>6 DEF Lap

LEMMA PopHeadStacks ==
  ASSUME IInv, StackInv, PopHead
  PROVE  StackInv'
  <1>1. /\ IsInjective(work') /\ ToSet(work') \subseteq ToSet(work)
        /\ cur'.head \in ToSet(work) /\ cur'.head \notin ToSet(work')
    BY Vectors, FrontDistinct DEF PopHead, StackInv, Distinct
  <1>2. /\ UNCHANGED <<cursor, gss, heads, best, queued, nextHeads, tok>>
        /\ pc = "pop" /\ pc' = "act"
    BY DEF PopHead, gssVars, errVars
  <1>3. Aligned' /\ Ahead'
    BY <1>2 DEF StackInv, Aligned, Ahead, StandAt, HeadPos, InWork, AtEnd
  <1>4. Distinct'
    BY <1>1, <1>2 DEF StackInv, Distinct, InWork
  <1> QED
    BY <1>3, <1>4 DEF StackInv

LEMMA SweepStacks ==
  ASSUME IInv, StackInv, StartFixedPoint \/ FixNextHead
  PROVE  StackInv'
  <1>1. /\ UNCHANGED <<cursor, gss, heads, best, work, queued, nextHeads, tok>>
        /\ pc \in {"pop", "fix"} /\ pc' = "fix"
    BY DEF StartFixedPoint, FixNextHead, gssVars, errVars, workVars
  <1>2. cur'.head \in ToSet(nextHeads)
    <2>1. nextHeads \in Seq(NodeIds) /\ at \in Nat \ {0}
      BY DEF IInv, TypeOK, TypedIn
    <2>2. PICK i \in DOMAIN nextHeads : FirstSweep(i)
      BY <2>1 DEF StartFixedPoint, FixNextHead
    <2> QED
      BY <2>2 DEF FirstSweep, ToSet
  <1> QED
    BY <1>1, <1>2 DEF StackInv, Aligned, Distinct, Ahead, StandAt, HeadPos, InWork, AtEnd

-------------------------------------------------------------------------------
(* The steps that push on the stack.                                       *)

\* The node pushed on stands at its key, and all others where they stood.
LEMMA EdgeStands ==
  ASSUME TypeOK, NEW s, NEW p, NEW parent, NEW label, AddEdge(s, p, parent, label)
  PROVE  /\ NodeIds \subseteq NodeIds'
         /\ \A n \in NodeIds : gss'[n] = gss[n]
         /\ NodeAt(s, p) \in NodeIds'
         /\ gss'[NodeAt(s, p)].pos = p
  <1> DEFINE rec == [state |-> s, pos |-> p]
             R == [state : States(G), pos : Bytes] \cup {rec}
  <1>1. gss \in Seq(R)
    <2>1. gss \in Seq([state : States(G), pos : Bytes])
      BY DEF TypeOK, TypedIn
    <2> QED
      BY <2>1, SeqWider
  <1>2. rec \in R /\ rec.pos = p
    OBVIOUS
  <1>3. gss' = IF NodeAt(s, p) \in DOMAIN gss THEN gss ELSE Append(gss, rec)
    BY DEF AddEdge
  <1>4. NodeAt(s, p) = IF \E n \in DOMAIN gss : gss[n] = rec
                       THEN CHOOSE n \in DOMAIN gss : gss[n] = rec ELSE Len(gss) + 1
    BY DEF NodeAt
  <1> HIDE DEF rec, R
  <1>5. CASE \E n \in DOMAIN gss : gss[n] = rec
    BY <1>2, <1>3, <1>4, <1>5 DEF NodeIds
  <1>6. CASE ~\E n \in DOMAIN gss : gss[n] = rec
    <2>1. DOMAIN gss = 1 .. Len(gss) /\ Len(gss) \in Nat
      BY <1>1
    <2>2. NodeAt(s, p) = Len(gss) + 1
      BY <1>4, <1>6
    <2>3. gss' = Append(gss, rec)
      <3>1. Len(gss) + 1 \notin DOMAIN gss
        BY <2>1
      <3> QED
        BY <1>3, <2>2, <3>1
    <2> QED
      BY <1>1, <1>2, <2>2, <2>3, Grown DEF NodeIds
  <1> QED
    BY <1>5, <1>6

\* What a push, or a failed one, leaves of the alignment.
LEMMA PushedAlignment ==
  ASSUME IInv, StackInv, UNCHANGED <<heads, best>>, \A n \in NodeIds : gss'[n] = gss[n]
  PROVE  /\ HeadPos' = HeadPos
         /\ StandAt(heads, HeadPos)' /\ StandAt(best.heads, best.pos)'
         /\ InWork => \A n \in queued : gss'[n].pos = HeadPos
         /\ InWork \/ pc = "fix" => \A n \in ToSet(nextHeads) : gss'[n].pos = tok.end
         /\ pc = "attach" => \A n \in ToSet(nextHeads) : gss'[n].pos = tok.start
  <1>1. /\ ToSet(heads) \subseteq NodeIds /\ heads[1] \in ToSet(heads)
        /\ ToSet(nextHeads) \subseteq NodeIds /\ ToSet(best.heads) \subseteq NodeIds
        /\ queued \subseteq NodeIds
    BY Vectors
  <1>2. HeadPos' = HeadPos
    BY <1>1 DEF HeadPos
  <1> QED
    BY <1>1, <1>2 DEF StackInv, Aligned, StandAt

LEMMA ShiftTokenStacks ==
  ASSUME IInv, StackInv, ShiftToken
  PROVE  StackInv'
  <1> DEFINE n == NodeAt(Entry.arg, tok.end)
  <1>1. /\ NodeIds \subseteq NodeIds' /\ \A m \in NodeIds : gss'[m] = gss[m]
        /\ n \in NodeIds' /\ gss'[n].pos = tok.end
    BY EdgeStands DEF ShiftToken, IInv
  <1>2. /\ UNCHANGED <<cursor, heads, best, work, queued, tok, pc>>
        /\ pc = "act" /\ ~AtEnd /\ cur'.head = cur.head
    <2>1. cur \in [head : NodeIds, sym : Symbols(G) \cup {UNKNOWN}, entry : Nat \ {0}]
      BY DEF IInv, TypeOK, TypedIn
    <2> QED
      BY <2>1 DEF ShiftToken, NextEntry, workVars, errVars
  <1>3. nextHeads \in Seq(NodeIds') /\ AddHead(n)
    BY <1>1, Vectors, SeqWider DEF ShiftToken
  <1> HIDE DEF n
  <1>4. IsInjective(nextHeads') /\ ToSet(nextHeads') = ToSet(nextHeads) \cup {n}
    BY <1>1, <1>3, AddHeadDistinct DEF StackInv, Distinct
  <1>5. Aligned'
    BY <1>1, <1>2, <1>4, PushedAlignment DEF Aligned, StandAt, InWork
  <1>6. Distinct'
    BY <1>2, <1>4 DEF StackInv, Distinct, InWork
  <1>7. Ahead'
    BY <1>1, <1>2, PushedAlignment DEF StackInv, Ahead, InWork, AtEnd
  <1> QED
    BY <1>5, <1>6, <1>7 DEF StackInv

\* A reduction of a head of the worklist ends in a node at the position of the heads.
LEMMA ReducedStacks ==
  ASSUME IInv, StackInv, pc \in {"act", "walk"}, NEW n \in NodeIds', gss'[n].pos = HeadPos,
         NodeIds \subseteq NodeIds', \A m \in NodeIds : gss'[m] = gss[m],
         Enqueue(n) \/ UNCHANGED <<work, queued>>, cur'.head = cur.head,
         UNCHANGED <<cursor, heads, best, tok, nextHeads, pc>>
  PROVE  StackInv'
  <1>1. work \in Seq(NodeIds')
    BY Vectors, SeqWider
  <1>2. /\ IsInjective(work) /\ ToSet(work) \subseteq queued /\ cur.head \in queued \ ToSet(work)
        /\ InWork
    BY DEF StackInv, Distinct, InWork
  <1>3. /\ IsInjective(work') /\ ToSet(work') \subseteq queued'
        /\ queued' \subseteq queued \cup {n} /\ queued \subseteq queued'
        /\ ToSet(work') \cap queued \subseteq ToSet(work)
    <2>1. CASE Enqueue(n)
      BY <1>1, <1>2, <2>1, EnqueueDistinct
    <2>2. CASE UNCHANGED <<work, queued>>
      BY <1>2, <2>2
    <2> QED
      BY <2>1, <2>2
  <1>4. Aligned'
    BY <1>2, <1>3, PushedAlignment DEF Aligned, StandAt, InWork
  <1>5. Distinct'
    BY <1>2, <1>3 DEF StackInv, Distinct, InWork
  <1>6. Ahead'
    BY PushedAlignment DEF StackInv, Ahead, InWork, AtEnd
  <1> QED
    BY <1>4, <1>5, <1>6 DEF StackInv

LEMMA CurrentStands ==
  ASSUME IInv, StackInv
  PROVE  /\ pc \in {"act", "walk"} => Position = HeadPos /\ cur.head \in NodeIds
         /\ pc = "fix" => Position = tok.end
         /\ NextEntry => cur'.head = cur.head
  <1>1. cur \in [head : NodeIds, sym : Symbols(G) \cup {UNKNOWN}, entry : Nat \ {0}]
    BY DEF IInv, TypeOK, TypedIn
  <1> QED
    BY <1>1 DEF StackInv, Aligned, Distinct, StandAt, InWork, Position, NextEntry

LEMMA ReduceEmptyHeadStacks ==
  ASSUME IInv, StackInv, ReduceEmptyHead
  PROVE  StackInv'
  <1>1. /\ UNCHANGED <<cursor, heads, best, tok, nextHeads, pc>> /\ pc = "act"
        /\ cur'.head = cur.head /\ Position = HeadPos /\ cur.head \in NodeIds
    BY CurrentStands DEF ReduceEmptyHead, ReduceEmpty, errVars
  <1>2. CASE EmptyGoto = NoState
    <2>1. UNCHANGED <<gss, work, queued>> /\ NodeIds' = NodeIds
      BY <1>2 DEF ReduceEmptyHead, gssVars, workVars, NodeIds
    <2> QED
      BY <1>1, <2>1, ReducedStacks DEF Position
  <1>3. CASE EmptyGoto # NoState
    <2>1. /\ AddEdge(EmptyGoto, Position, cur.head, NewId)
          /\ Enqueue(NodeAt(EmptyGoto, Position))
      BY <1>3 DEF ReduceEmptyHead
    <2>2. /\ NodeIds \subseteq NodeIds' /\ \A m \in NodeIds : gss'[m] = gss[m]
          /\ NodeAt(EmptyGoto, Position) \in NodeIds'
          /\ gss'[NodeAt(EmptyGoto, Position)].pos = Position
      BY <2>1, EdgeStands DEF IInv
    <2> QED
      BY <1>1, <2>1, <2>2, ReducedStacks
  <1> QED
    BY <1>2, <1>3

LEMMA ReducePathStacks ==
  ASSUME IInv, StackInv, ReducePath
  PROVE  StackInv'
  <1>1. /\ UNCHANGED <<cursor, heads, best, tok, nextHeads, pc>> /\ pc = "walk"
        /\ cur'.head = cur.head /\ Position = HeadPos /\ cur.head \in NodeIds
    BY CurrentStands DEF ReducePath, errVars
  <1>2. CASE PathGoto = NoState
    <2>1. UNCHANGED <<gss, work, queued>> /\ NodeIds' = NodeIds
      BY <1>2 DEF ReducePath, gssVars, workVars, NodeIds
    <2> QED
      BY <1>1, <2>1, ReducedStacks DEF Position
  <1>3. CASE PathGoto # NoState
    <2>1. /\ AddEdge(PathGoto, Position, Ancestor, NewId)
          /\ Enqueue(NodeAt(PathGoto, Position))
      BY <1>3 DEF ReducePath
    <2>2. /\ NodeIds \subseteq NodeIds' /\ \A m \in NodeIds : gss'[m] = gss[m]
          /\ NodeAt(PathGoto, Position) \in NodeIds'
          /\ gss'[NodeAt(PathGoto, Position)].pos = Position
      BY <2>1, EdgeStands DEF IInv
    <2> QED
      BY <1>1, <2>1, <2>2, ReducedStacks
  <1> QED
    BY <1>2, <1>3

LEMMA FixReduceEmptyStacks ==
  ASSUME IInv, StackInv, FixReduceEmpty
  PROVE  StackInv'
  <1>1. /\ UNCHANGED <<cursor, heads, best, tok, work, queued, pc>> /\ pc = "fix"
        /\ cur'.head = cur.head /\ Position = tok.end /\ cur.head \in ToSet(nextHeads)
    BY CurrentStands DEF FixReduceEmpty, ReduceEmpty, errVars, workVars, StackInv, Aligned
  <1>2. CASE EmptyGoto = NoState
    <2>1. UNCHANGED <<gss, nextHeads>>
      BY <1>2 DEF FixReduceEmpty, gssVars
    <2> QED
      BY <1>1, <2>1 DEF StackInv, Aligned, Distinct, Ahead, StandAt, HeadPos, InWork, AtEnd
  <1>3. CASE EmptyGoto # NoState
    <2> DEFINE n == NodeAt(EmptyGoto, Position)
    <2>1. AddEdge(EmptyGoto, Position, cur.head, NewId) /\ AddHead(n)
      BY <1>3 DEF FixReduceEmpty
    <2>2. /\ NodeIds \subseteq NodeIds' /\ \A m \in NodeIds : gss'[m] = gss[m]
          /\ n \in NodeIds' /\ gss'[n].pos = Position
      BY <2>1, EdgeStands DEF IInv
    <2>3. nextHeads \in Seq(NodeIds')
      BY <2>2, Vectors, SeqWider
    <2> HIDE DEF n
    <2>4. IsInjective(nextHeads') /\ ToSet(nextHeads') = ToSet(nextHeads) \cup {n}
      BY <2>1, <2>2, <2>3, AddHeadDistinct DEF StackInv, Distinct
    <2>5. Aligned'
      BY <1>1, <2>2, <2>4, PushedAlignment DEF Aligned, StandAt, InWork
    <2>6. Distinct'
      BY <1>1, <2>4 DEF StackInv, Distinct, InWork
    <2>7. Ahead'
      BY <1>1, <2>2, PushedAlignment DEF StackInv, Ahead, InWork, AtEnd
    <2> QED
      BY <2>5, <2>6, <2>7 DEF StackInv
  <1> QED
    BY <1>2, <1>3

-------------------------------------------------------------------------------
(* The steps that end a lap, and recovery.                                 *)

LEMMA TokenDoneStacks ==
  ASSUME IInv, StackInv, TokenDone
  PROVE  StackInv' /\ HeadPos' > HeadPos
  <1>1. /\ UNCHANGED <<cursor, gss, best, work, nextHeads>> /\ heads' = nextHeads
        /\ pc = "fix" /\ pc' = "lex" /\ ~AtEnd
    BY DEF TokenDone, gssVars, errVars, workVars, IInv, ControlOK, FixOK
  <1>2. heads'[1] \in ToSet(nextHeads)
    <2>1. nextHeads \in Seq(NodeIds) /\ at \in Nat \ {0} /\ at = Len(nextHeads)
      BY DEF IInv, TypeOK, TypedIn, TokenDone
    <2>2. 1 \in DOMAIN nextHeads
      BY <2>1
    <2> QED
      BY <1>1, <2>2 DEF ToSet
  <1>3. HeadPos' = tok.end /\ \A n \in ToSet(nextHeads) : gss[n].pos = tok.end
    BY <1>1, <1>2 DEF StackInv, Aligned, StandAt, HeadPos
  <1>4. HeadPos < tok.end /\ tok.end = cursor /\ tok.end \in Int /\ HeadPos \in Int
    BY <1>1, Vectors DEF StackInv, Ahead
  <1>5. Aligned'
    BY <1>1, <1>3 DEF StackInv, Aligned, StandAt, InWork
  <1>6. Distinct'
    BY <1>1 DEF StackInv, Distinct, InWork
  <1>7. Ahead'
    BY <1>1, <1>3, <1>4 DEF Ahead, InWork
  <1> QED
    BY <1>3, <1>4, <1>5, <1>6, <1>7 DEF StackInv

LEMMA ResumeStacks ==
  ASSUME IInv, StackInv, Resume
  PROVE  StackInv' /\ HeadPos' > HeadPos
  <1>1. /\ UNCHANGED <<gss, best, work, nextHeads>> /\ heads' = best.heads /\ cursor' = best.pos
        /\ pc = "resync" /\ pc' = "lex" /\ best # NoBest
    BY DEF Resume, gssVars, errVars, workVars
  <1>2. heads'[1] \in ToSet(best.heads)
    <2>1. best.heads \in Seq(NodeIds) /\ best.heads # <<>>
      BY <1>1, Vectors DEF IInv, ControlOK, RecoveryOK
    <2>2. 1 \in DOMAIN best.heads
      BY <2>1
    <2> QED
      BY <1>1, <2>2 DEF ToSet
  <1>3. HeadPos' = best.pos
    BY <1>1, <1>2 DEF StackInv, Aligned, StandAt, HeadPos
  <1>4. HeadPos < best.pos /\ best.pos \in Int /\ HeadPos \in Int
    BY <1>1, Vectors DEF StackInv, Ahead
  <1>5. Aligned'
    BY <1>1, <1>3 DEF StackInv, Aligned, StandAt, InWork
  <1>6. Distinct'
    BY <1>1 DEF StackInv, Distinct, InWork
  <1>7. Ahead'
    BY <1>1, <1>3, <1>4 DEF Ahead, InWork
  <1> QED
    BY <1>3, <1>4, <1>5, <1>6, <1>7 DEF StackInv

LEMMA GiveUpStacks ==
  ASSUME IInv, StackInv, GiveUp
  PROVE  StackInv'
  <1>1. StartWork(EndToken) /\ EndToken.kind = END /\ UNCHANGED <<gss, heads, best>>
    BY DEF GiveUp, EndToken, gssVars, errVars
  <1> QED
    BY <1>1, StartWorkStacks

LEMMA StartRecoveryStacks ==
  ASSUME IInv, StackInv, StartRecovery
  PROVE  StackInv'
  <1>1. /\ UNCHANGED <<cursor, gss, heads, work, nextHeads>> /\ best' = NoBest
        /\ pc = "pop" /\ pc' = "resync" /\ ~AtEnd
    BY DEF StartRecovery, gssVars, workVars
  <1>2. best'.heads = <<>> /\ ToSet(best'.heads) = {} /\ IsInjective(best'.heads)
    BY <1>1 DEF NoBest, ToSet, IsInjective
  <1>3. HeadPos' = HeadPos
    BY <1>1 DEF HeadPos
  <1>4. Aligned'
    BY <1>1, <1>2, <1>3 DEF StackInv, Aligned, StandAt, InWork
  <1>5. Distinct'
    BY <1>1, <1>2 DEF StackInv, Distinct, InWork
  <1>6. Ahead'
    BY <1>1, <1>3 DEF StackInv, Ahead, InWork
  <1> QED
    BY <1>4, <1>5, <1>6 DEF StackInv

\* The next token of a recovery starts behind the heads.
LEMMA ReadOn ==
  ASSUME IInv, StackInv, pc = "resync", NEW t \in Lexed(cursor, Symbols(G))
  PROVE  HeadPos < t.start /\ HeadPos < t.end
  <1>1. /\ t \in [kind : Kinds, start : Bytes, end : Bytes]
        /\ cursor <= t.start /\ t.start <= t.end
    BY LexedTyped DEF IInv, TypeOK, TypedIn
  <1>2. t.start \in Int /\ t.end \in Int
    BY <1>1, GrammarFacts DEF IInv, Bytes
  <1>3. HeadPos \in Int /\ cursor \in Int /\ HeadPos < cursor
    BY Vectors DEF StackInv, Ahead
  <1> QED
    BY <1>1, <1>2, <1>3

LEMMA ResyncSkipStacks ==
  ASSUME IInv, StackInv, ResyncSkip
  PROVE  StackInv'
  <1>1. /\ UNCHANGED <<gss, heads, best, work, nextHeads, pc>> /\ pc = "resync"
    BY DEF ResyncSkip, gssVars, workVars
  <1>2. HeadPos < cursor'
    BY <1>1, ReadOn DEF ResyncSkip
  <1>3. HeadPos' = HeadPos
    BY <1>1 DEF HeadPos
  <1> QED
    BY <1>1, <1>2, <1>3 DEF StackInv, Aligned, Distinct, Ahead, StandAt, InWork

LEMMA ResyncFoundStacks ==
  ASSUME IInv, StackInv, ResyncFound
  PROVE  StackInv'
  <1>1. /\ UNCHANGED <<gss, heads, best, work>> /\ pc = "resync" /\ pc' = "attach"
        /\ nextHeads' = <<>>
    BY DEF ResyncFound, gssVars, workVars, errVars
  <1>2. HeadPos < cursor' /\ HeadPos < tok'.start
    BY <1>1, ReadOn DEF ResyncFound
  <1>3. HeadPos' = HeadPos
    BY <1>1 DEF HeadPos
  <1>4. ToSet(nextHeads') = {} /\ IsInjective(nextHeads')
    BY <1>1 DEF ToSet, IsInjective
  <1> QED
    BY <1>1, <1>2, <1>3, <1>4 DEF StackInv, Aligned, Distinct, Ahead, StandAt, InWork

LEMMA AttachStacks ==
  ASSUME IInv, StackInv, Attach
  PROVE  StackInv'
  <1> DEFINE n == NodeAt(gss[heads[at]].state, tok.start)
  <1>1. UNCHANGED <<cursor, heads, best, work, tok, pc>> /\ pc = "attach"
    BY DEF Attach, workVars, errVars
  <1>2. CASE Continues(heads[at], tok.kind)
    <2>1. AddEdge(gss[heads[at]].state, tok.start, heads[at], Len(tree)) /\ AddHead(n)
      BY <1>2 DEF Attach
    <2>2. /\ NodeIds \subseteq NodeIds' /\ \A m \in NodeIds : gss'[m] = gss[m]
          /\ n \in NodeIds' /\ gss'[n].pos = tok.start
      BY <2>1, EdgeStands DEF IInv
    <2>3. nextHeads \in Seq(NodeIds')
      BY <2>2, Vectors, SeqWider
    <2> HIDE DEF n
    <2>4. IsInjective(nextHeads') /\ ToSet(nextHeads') = ToSet(nextHeads) \cup {n}
      BY <2>1, <2>2, <2>3, AddHeadDistinct DEF StackInv, Distinct
    <2>5. Aligned'
      BY <1>1, <2>2, <2>4, PushedAlignment DEF Aligned, StandAt, InWork
    <2>6. Distinct'
      BY <1>1, <2>4 DEF StackInv, Distinct, InWork
    <2>7. Ahead'
      BY <1>1, <2>2, PushedAlignment DEF StackInv, Ahead, InWork
    <2> QED
      BY <2>5, <2>6, <2>7 DEF StackInv
  <1>3. CASE ~Continues(heads[at], tok.kind)
    <2>1. UNCHANGED <<gss, nextHeads>>
      BY <1>3 DEF Attach, gssVars
    <2> QED
      BY <1>1, <2>1 DEF StackInv, Aligned, Distinct, Ahead, StandAt, HeadPos, InWork
  <1> QED
    BY <1>2, <1>3

LEMMA AttachDoneStacks ==
  ASSUME IInv, StackInv, AttachDone
  PROVE  StackInv'
  <1>1. UNCHANGED <<cursor, gss, heads, work, nextHeads>> /\ pc = "attach" /\ pc' = "resync"
    BY DEF AttachDone, gssVars, workVars
  <1>2. HeadPos' = HeadPos
    BY <1>1 DEF HeadPos
  <1>3. \/ best' = best /\ best # NoBest
        \/ best'.heads = nextHeads /\ best'.pos = tok.start
    BY DEF AttachDone
  <1>4. Aligned'
    BY <1>1, <1>2, <1>3 DEF StackInv, Aligned, StandAt, InWork
  <1>5. Distinct'
    BY <1>1, <1>3 DEF StackInv, Distinct, InWork
  <1>6. Ahead'
    BY <1>1, <1>2, <1>3 DEF StackInv, Ahead, InWork
  <1> QED
    BY <1>4, <1>5, <1>6 DEF StackInv

-------------------------------------------------------------------------------
LEMMA InitStacks ==
  ASSUME Init
  PROVE  StackInv
  <1>1. /\ heads = <<1>> /\ gss = <<[state |-> 0, pos |-> 0]>> /\ nextHeads = <<>> /\ work = <<>>
        /\ best.heads = <<>> /\ best = NoBest /\ pc = "lex" /\ 0 <= cursor
    <2>1. StartByte \in 0 .. Len(Source) /\ Len(Source) \in Nat
      BY StartTyped, GrammarFacts DEF Init, Bytes
    <2> QED
      BY <2>1 DEF Init, NoBest
  <1>2. HeadPos = 0 /\ ToSet(heads) = {1} /\ ToSet(best.heads) = {}
    BY <1>1 DEF HeadPos, ToSet
  <1>3. /\ IsInjective(heads) /\ IsInjective(nextHeads) /\ IsInjective(best.heads)
        /\ IsInjective(work)
    BY <1>1 DEF IsInjective
  <1> QED
    BY <1>1, <1>2, <1>3 DEF StackInv, Aligned, Distinct, Ahead, StandAt, InWork

LEMMA NextStacks ==
  ASSUME IInv, StackInv, Next
  PROVE  StackInv'
  <1>1. CASE Lap
    BY <1>1, LapStacks
  <1>2. CASE Worklist
    BY <1>2, PopHeadStacks, ShiftTokenStacks, ReduceEmptyHeadStacks, EntryPassedStacks DEF Worklist
  <1>3. CASE Walk
    BY <1>3, EntryPassedStacks, ReducePathStacks DEF Walk
  <1>4. CASE FixedPoint
    BY <1>4, SweepStacks, FixReduceEmptyStacks, EntryPassedStacks, TokenDoneStacks DEF FixedPoint
  <1>5. CASE Recovery
    BY <1>5, StartRecoveryStacks, ResyncSkipStacks, ResyncFoundStacks, AttachStacks,
       AttachDoneStacks, ResumeStacks, GiveUpStacks DEF Recovery
  <1> QED
    BY <1>1, <1>2, <1>3, <1>4, <1>5 DEF Next

LEMMA StutterStacks ==
  ASSUME StackInv, UNCHANGED vars
  PROVE  StackInv'
  BY DEF vars, StackInv, Aligned, Distinct, Ahead, StandAt, HeadPos, InWork, AtEnd

(***************************************************************************)
(* Heads, worklist and lexer keep step in every reachable state.           *)
(***************************************************************************)
THEOREM StacksInductive == Spec => []StackInv
  <1>1. Init => StackInv
    BY InitStacks
  <1>2. IInv /\ StackInv /\ [Next]_vars => StackInv'
    BY NextStacks, StutterStacks
  <1> QED
    BY <1>1, <1>2, Inductive, PTL DEF Spec

(***************************************************************************)
(* All heads of process_token and of a recovery stand at one position, for *)
(* every grammar, source and abort.                                        *)
(***************************************************************************)
THEOREM Alignment == Spec => []HeadsAligned
  <1>1. ASSUME IInv, StackInv PROVE HeadsAligned
    <2>1. \A i \in DOMAIN heads : heads[i] \in ToSet(heads)
      BY DEF ToSet
    <2>2. \A i \in DOMAIN nextHeads : nextHeads[i] \in ToSet(nextHeads)
      BY DEF ToSet
    <2> QED
      BY <1>1, <2>1, <2>2 DEF HeadsAligned, StackInv, Aligned, StandAt
  <1> QED
    BY <1>1, Inductive, StacksInductive, PTL

(***************************************************************************)
(* No stack node is taken up twice for one token, for every grammar,       *)
(* however its productions run in circles.                                 *)
(***************************************************************************)
THEOREM WorkOnce == Spec => []NoRework
  <1>1. StackInv => NoRework
    BY DEF StackInv, Distinct, NoRework
  <1> QED
    BY <1>1, StacksInductive, PTL

(***************************************************************************)
(* A lap that changes the heads moves them to a later byte, with or        *)
(* without an error: the main loop cannot come back to where it was.       *)
(***************************************************************************)
THEOREM Progress == Spec => HeadsAdvance
  <1>1. IInv /\ StackInv /\ [Next]_vars => [heads' # heads => gss'[heads'[1]].pos > HeadPos]_vars
    <2> SUFFICES ASSUME IInv, StackInv, Next, heads' # heads
                 PROVE  gss'[heads'[1]].pos > HeadPos
      OBVIOUS
    <2>1. TokenDone \/ Resume
      BY DEF Next, Lap, Worklist, Walk, FixedPoint, Recovery,
             ReadToken, SkipEmptyToken, EndOfInput, AbortParse, PopHead, ShiftToken,
             ReduceEmptyHead, StartReduce, AcceptInput, PassEntry, NextSymbol, HeadDone,
             EndUnaccepted, WalkDown, WalkUp, ReducePath, StartFixedPoint, FixReduceEmpty,
             FixPassEntry, FixNextHead, StartRecovery, ResyncSkip, ResyncFound, Attach,
             AttachDone, GiveUp
    <2> QED
      BY <2>1, TokenDoneStacks, ResumeStacks DEF HeadPos
  <1> QED
    BY <1>1, Inductive, StacksInductive, PTL DEF Spec, HeadsAdvance

-------------------------------------------------------------------------------
(* The sibling links.                                                      *)

LEMMA Links ==
  ASSUME TypeOK
  PROVE  /\ TreeIds = 1 .. Len(tree) /\ DOMAIN link = 1 .. Len(tree) /\ Len(tree) \in Nat
         /\ NewId = Len(tree) + 1 /\ NewId \notin TreeIds
         /\ \A c \in TreeIds : link[c].next \in TreeIds \cup {0} /\ link[c].parent \in TreeIds \cup {0}
  <1> DEFINE LinkRec == [kind : Int, field : Nat, next : TreeIds \cup {0}, parent : TreeIds \cup {0}]
  <1>1. link \in Seq(LinkRec)
    BY DEF TypeOK, TypedIn
  <1>2. DOMAIN link = TreeIds /\ Len(tree) \in Nat /\ TreeIds = 1 .. Len(tree)
    BY LinkDomain
  <1>3. ASSUME NEW c \in TreeIds PROVE link[c] \in LinkRec
    <2> HIDE DEF LinkRec
    <2> QED
      BY <1>1, <1>2, SeqElement
  <1> QED
    BY <1>2, <1>3 DEF NewId

\* Append without a type.
LEMMA Appended ==
  ASSUME NEW S, NEW s \in Seq(S), NEW e
  PROVE  /\ DOMAIN Append(s, e) = DOMAIN s \cup {Len(s) + 1}
         /\ \A i \in DOMAIN s : Append(s, e)[i] = s[i]
         /\ Append(s, e)[Len(s) + 1] = e
  <1>1. s \in Seq(S \cup {e}) /\ e \in S \cup {e}
    BY SeqWider
  <1> QED
    BY <1>1, Grown

\* A leaf is linked to nothing, and nothing is linked to it.
LEMMA TokenChains ==
  ASSUME TypeOK, SiblingChainsEnd, NEW sym, NEW start, NEW end, AllocToken(sym, start, end)
  PROVE  SiblingChainsEnd'
  <1> DEFINE rec == [sym |-> sym, start |-> start, end |-> end, kids |-> <<>>]
  <1>1. /\ tree \in Seq([sym : Labels, start : Bytes, end : Bytes, kids : Seq(TreeIds)])
        /\ link \in Seq([kind : Int, field : Nat, next : TreeIds \cup {0}, parent : TreeIds \cup {0}])
        /\ Len(link) = Len(tree)
    BY DEF TypeOK, TypedIn
  <1>2. tree' = Append(tree, rec) /\ link' = Append(link, Unlinked(sym))
    BY DEF AllocToken
  <1>3. Unlinked(sym).parent = 0 /\ Unlinked(sym).next = 0
    BY DEF Unlinked
  <1> HIDE DEF rec
  <1>4. /\ TreeIds' = TreeIds \cup {NewId}
        /\ \A t \in TreeIds : tree'[t] = tree[t] /\ link'[t] = link[t]
        /\ link'[NewId].parent = 0 /\ link'[NewId].next = 0
    BY <1>1, <1>2, <1>3, Appended, LinkDomain DEF TreeIds, NewId
  <1>5. ASSUME NEW c \in TreeIds PROVE LinksForward(c)'
    <2>1. /\ link[c].next \in TreeIds \cup {0} /\ link[c].parent \in TreeIds \cup {0}
          /\ link'[c] = link[c]
      BY <1>4, Links
    <2>2. LinksForward(c)
      BY DEF SiblingChainsEnd, LinksForward
    <2>3. CASE link[c].next = 0
      BY <2>1, <2>2, <2>3 DEF LinksForward
    <2>4. CASE link[c].next \in TreeIds
      <3>1. /\ link[c].parent \in TreeIds /\ link'[link[c].next] = link[link[c].next]
            /\ tree'[link[c].parent] = tree[link[c].parent]
        BY <1>4, <2>1, <2>2, <2>4, Links DEF LinksForward
      <3>2. Slot(c)' = Slot(c)
        BY <2>1, <3>1 DEF Slot
      <3>3. link[c].parent = link[link[c].next].parent => Slot(link[c].next)' = Slot(link[c].next)
        BY <2>1, <3>1 DEF Slot
      <3> QED
        BY <2>1, <2>2, <3>1, <3>2, <3>3 DEF LinksForward
    <2> QED
      BY <2>1, <2>3, <2>4
  <1>6. ASSUME NEW c, c = NewId PROVE LinksForward(c)'
    BY <1>4, <1>6 DEF LinksForward
  <1> QED
    BY <1>4, <1>5, <1>6 DEF SiblingChainsEnd, LinksForward

\* The children are linked to their new parent from left to right, all others keep their links.
LEMMA InternalChains ==
  ASSUME TypeOK, SiblingChainsEnd, NEW sym, NEW start, NEW end, NEW kids \in Seq(TreeIds),
         NEW field, NEW alias, AllocInternal(sym, start, end, kids, field, alias)
  PROVE  SiblingChainsEnd'
  <1> DEFINE rec == [sym |-> sym, start |-> start, end |-> end, kids |-> kids]
             relink == [c \in DOMAIN link |->
                          IF c \in ToSet(kids) THEN Linked(c, kids, NewId, field, alias)
                                               ELSE link[c]]
             slot(c) == LastSlot(kids, c, DOMAIN kids)
  <1>1. /\ tree \in Seq([sym : Labels, start : Bytes, end : Bytes, kids : Seq(TreeIds)])
        /\ DOMAIN relink = 1 .. Len(tree) /\ Len(tree) \in Nat /\ TreeIds = 1 .. Len(tree)
    BY LinkDomain DEF TypeOK, TypedIn
  <1>2. tree' = Append(tree, rec) /\ link' = Append(relink, Unlinked(sym))
    BY DEF AllocInternal
  <1>3. Unlinked(sym).parent = 0 /\ Unlinked(sym).next = 0 /\ rec.kids = kids
    BY DEF Unlinked
  <1>4. \A c \in TreeIds : c \notin ToSet(kids) => relink[c] = link[c]
    BY <1>1
  <1>5. \A c \in TreeIds \cap ToSet(kids) :
          /\ relink[c].parent = NewId
          /\ relink[c].next = IF slot(c) < Len(kids) THEN kids[slot(c) + 1] ELSE 0
    BY <1>1 DEF Linked
  <1>6. relink \in Seq({relink[c] : c \in 1 .. Len(tree)}) /\ Len(relink) = Len(tree)
    <2>1. relink \in [1 .. Len(tree) -> {relink[c] : c \in 1 .. Len(tree)}]
      BY <1>1
    <2> HIDE DEF relink
    <2> QED
      BY <1>1, <2>1, FunctionIsSeq
  <1>7. /\ DOMAIN kids = 1 .. Len(kids) /\ Len(kids) \in Nat
        /\ ToSet(kids) \subseteq TreeIds
        /\ \A i \in 1 .. Len(kids) : kids[i] \in ToSet(kids)
    BY SeqElement DEF ToSet
  <1> HIDE DEF rec, relink
  <1>8. /\ TreeIds' = TreeIds \cup {NewId}
        /\ \A t \in TreeIds : tree'[t] = tree[t] /\ link'[t] = relink[t]
        /\ tree'[NewId].kids = kids
        /\ link'[NewId].parent = 0 /\ link'[NewId].next = 0
    BY <1>1, <1>2, <1>3, <1>6, Appended DEF TreeIds, NewId
  <1>9. ASSUME NEW c \in ToSet(kids)
        PROVE  /\ slot(c) \in 1 .. Len(kids) /\ kids[slot(c)] = c
               /\ \A j \in 1 .. Len(kids) : kids[j] = c => j <= slot(c)
    <2>1. \E i \in 1 .. Len(kids) : kids[i] = c
      BY <1>7 DEF ToSet
    <2>2. slot(c) = LastSlot(kids, c, 1 .. Len(kids))
      BY <1>7
    <2> HIDE DEF slot
    <2>3. /\ LastSlot(kids, c, 1 .. Len(kids)) \in 1 .. Len(kids)
          /\ kids[LastSlot(kids, c, 1 .. Len(kids))] = c
          /\ \A j \in 1 .. Len(kids) : kids[j] = c => j <= LastSlot(kids, c, 1 .. Len(kids))
      BY <1>7, <2>1, LastSlotProperties
    <2> QED
      BY <2>2, <2>3
  <1>10. NewId \notin TreeIds /\ NewId \in Nat /\ \A c \in TreeIds : c < NewId
    BY <1>1 DEF NewId
  <1>11. ASSUME NEW c \in TreeIds, link'[c].parent = NewId
         PROVE  Slot(c)' = slot(c)
    BY <1>8, <1>11 DEF Slot
  <1> HIDE DEF slot
  <1>12. ASSUME NEW c \in ToSet(kids) PROVE LinksForward(c)'
    <2>1. c \in TreeIds /\ link'[c].parent = NewId /\ c < NewId /\ NewId # 0
      <3>1. c \in TreeIds
        BY <1>7, <1>12
      <3>2. link'[c].parent = NewId
        BY <1>5, <1>8, <1>12, <3>1
      <3> QED
        BY <1>1, <1>10, <3>1, <3>2
    <2>2. CASE slot(c) = Len(kids)
      <3>1. link'[c].next = 0
        BY <1>5, <1>7, <1>8, <2>1, <2>2
      <3> QED
        BY <2>1, <3>1 DEF LinksForward
    <2>3. CASE slot(c) < Len(kids)
      <3> DEFINE d == kids[slot(c) + 1]
      <3>1. slot(c) + 1 \in 1 .. Len(kids) /\ slot(c) \in Nat
        BY <1>7, <1>9, <2>3
      <3>2. d \in ToSet(kids) /\ d \in TreeIds /\ link'[c].next = d
        BY <1>5, <1>7, <1>8, <2>1, <2>3, <3>1
      <3>3. slot(d) \in Nat /\ slot(c) + 1 <= slot(d)
        BY <1>9, <3>1, <3>2
      <3>4. link'[d].parent = NewId
        BY <1>5, <1>8, <3>2
      <3> HIDE DEF d
      <3>5. Slot(c)' = slot(c) /\ LastSlot(tree'[link'[d].parent].kids, d,
                                           DOMAIN tree'[link'[d].parent].kids) = slot(d)
        BY <1>8, <1>11, <2>1, <3>4 DEF slot
      <3> QED
        BY <2>1, <3>1, <3>2, <3>3, <3>4, <3>5 DEF LinksForward, Slot
    <2> QED
      BY <1>7, <1>9, <2>2, <2>3
  <1>13. ASSUME NEW c \in TreeIds, c \notin ToSet(kids) PROVE LinksForward(c)'
    <2>1. /\ link[c].next \in TreeIds \cup {0} /\ link[c].parent \in TreeIds \cup {0}
          /\ link'[c] = link[c]
      BY <1>4, <1>8, <1>13, Links
    <2>2. LinksForward(c)
      BY DEF SiblingChainsEnd, LinksForward
    <2>3. CASE link[c].next = 0
      BY <2>1, <2>2, <2>3 DEF LinksForward
    <2>4. CASE link[c].next \in TreeIds
      <3> DEFINE d == link[c].next
      <3>1. link[c].parent \in TreeIds /\ tree'[link[c].parent] = tree[link[c].parent] /\ d \in TreeIds
        BY <1>8, <1>10, <2>1, <2>2, <2>4, Links DEF LinksForward
      <3>2. CASE d \in ToSet(kids)
        <4>1. link'[d].parent = NewId /\ link[c].parent < NewId
          BY <1>5, <1>8, <1>10, <3>1, <3>2
        <4> QED
          BY <2>1, <2>2, <3>1, <4>1 DEF LinksForward
      <3>3. CASE d \notin ToSet(kids)
        <4>1. link'[d] = link[d]
          BY <1>4, <1>8, <3>1, <3>3
        <4>2. Slot(c)' = Slot(c)
          BY <2>1, <3>1 DEF Slot
        <4>3. link[c].parent = link[d].parent =>
                LastSlot(tree'[link'[d].parent].kids, d, DOMAIN tree'[link'[d].parent].kids) = Slot(d)
          BY <3>1, <4>1 DEF Slot
        <4> QED
          BY <2>1, <2>2, <3>1, <4>1, <4>2, <4>3 DEF LinksForward, Slot
      <3> QED
        BY <3>2, <3>3
    <2> QED
      BY <2>1, <2>3, <2>4
  <1>14. ASSUME NEW c, c = NewId PROVE LinksForward(c)'
    BY <1>8, <1>14 DEF LinksForward
  <1> QED
    BY <1>8, <1>12, <1>13, <1>14 DEF SiblingChainsEnd, LinksForward

LEMMA NextChains ==
  ASSUME IInv, SiblingChainsEnd, Next
  PROVE  SiblingChainsEnd'
  <1> USE DEF IInv
  <1>1. CASE UNCHANGED treeVars
    BY <1>1 DEF SiblingChainsEnd, LinksForward, Slot, TreeIds, treeVars
  <1>2. CASE ShiftToken \/ StartRecovery \/ ResyncSkip \/ AttachDone
    BY <1>2, TokenChains DEF ShiftToken, StartRecovery, ResyncSkip, AttachDone, SkipToken
  <1>3. CASE ReduceEmptyHead \/ FixReduceEmpty
    <2>1. <<>> \in Seq(TreeIds)
      OBVIOUS
    <2> QED
      BY <1>3, <2>1, InternalChains DEF ReduceEmptyHead, FixReduceEmpty, ReduceEmpty
  <1>4. CASE ReducePath
    BY <1>4, InternalChains, PathKidsTyped DEF ReducePath
  <1>5. CASE ResyncFound
    <2>1. errKids \in Seq(TreeIds)
      BY DEF TypeOK, TypedIn
    <2> QED
      BY <1>5, <2>1, InternalChains DEF ResyncFound
  <1>6. \/ UNCHANGED treeVars
        \/ ShiftToken \/ StartRecovery \/ ResyncSkip \/ AttachDone
        \/ ReduceEmptyHead \/ FixReduceEmpty \/ ReducePath \/ ResyncFound
    BY DEF Next, Lap, Worklist, Walk, FixedPoint, Recovery,
           ReadToken, SkipEmptyToken, EndOfInput, AbortParse, PopHead, StartReduce,
           AcceptInput, PassEntry, NextSymbol, HeadDone, EndUnaccepted, WalkDown, WalkUp,
           StartFixedPoint, FixPassEntry, FixNextHead, TokenDone, Attach, Resume, GiveUp
  <1> QED
    BY <1>1, <1>2, <1>3, <1>4, <1>5, <1>6

(***************************************************************************)
(* The walks of freeze over the sibling links end, for every grammar and   *)
(* source and in every state of the arena: parent and slot grow along a    *)
(* chain, although shared subtrees are linked again and again.             *)
(***************************************************************************)
THEOREM ChainsEnd == Spec => []SiblingChainsEnd
  <1>1. Init => SiblingChainsEnd
    BY DEF Init, SiblingChainsEnd, TreeIds
  <1>2. IInv /\ SiblingChainsEnd /\ [Next]_vars => SiblingChainsEnd'
    <2>1. CASE Next
      BY <2>1, NextChains
    <2>2. CASE UNCHANGED vars
      BY <2>2 DEF SiblingChainsEnd, LinksForward, Slot, TreeIds, vars
    <2> QED
      BY <2>1, <2>2
  <1> QED
    BY <1>1, <1>2, Inductive, PTL DEF Spec
=============================================================================
