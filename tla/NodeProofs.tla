------------------------------ MODULE NodeProofs ------------------------------
(***************************************************************************)
(* Proofs about the nodes the engine builds while no error was met: what   *)
(* they span, what their children spell and which tokens they derive.      *)
(***************************************************************************)
EXTENDS CalculusProofs, FiniteSetTheorems

-------------------------------------------------------------------------------
(* A stack edge with what its indices stand for.                           *)

View(e) == [child |-> gss[e.child], parent |-> gss[e.parent], node |-> tree[e.label]]
Views == {View(edges[i]) : i \in DOMAIN edges}

LEMMA ViewKept ==
  ASSUME TypeOK, NEW i \in DOMAIN edges,
         \A n \in NodeIds : gss'[n] = gss[n],
         \A t \in TreeIds : tree'[t] = tree[t],
         edges'[i] = edges[i]
  PROVE  View(edges[i])' = View(edges[i])
  <1>1. edges[i].child \in NodeIds /\ edges[i].parent \in NodeIds /\ edges[i].label \in TreeIds
    BY EdgesTyped, EdgeTyped
  <1> QED
    BY <1>1 DEF View

LEMMA ViewsKept ==
  ASSUME TypeOK, UNCHANGED gssVars, \A t \in TreeIds : tree'[t] = tree[t]
  PROVE  Views' = Views
  <1>1. UNCHANGED <<gss, edges>>
    BY DEF gssVars
  <1>2. \A i \in DOMAIN edges : View(edges[i])' = View(edges[i])
    BY <1>1, ViewKept
  <1> QED
    BY <1>1, <1>2 DEF Views

\* A push adds one view.
LEMMA ViewsPushed ==
  ASSUME TypeOK, NEW s \in States(G), NEW p \in Bytes, NEW parent \in NodeIds,
         NEW label \in TreeIds', TreeIds \subseteq TreeIds',
         \A t \in TreeIds : tree'[t] = tree[t],
         AddEdge(s, p, parent, label)
  PROVE  Views' = Views \cup {[child |-> [state |-> s, pos |-> p], parent |-> gss[parent],
                               node |-> tree'[label]]}
  <1> DEFINE new == [child |-> [state |-> s, pos |-> p], parent |-> gss[parent],
                     node |-> tree'[label]]
  <1>0. PICK k \in Nat : k = Len(edges) + 1
    BY EdgesTyped
  <1>1. /\ \A n \in NodeIds : gss'[n] = gss[n]
        /\ gss'[NodeAt(s, p)] = [state |-> s, pos |-> p]
        /\ \A i \in DOMAIN edges : edges'[i] = edges[i]
        /\ edges'[k] = [child |-> NodeAt(s, p), parent |-> parent, label |-> label]
        /\ edges' \in Seq([child : NodeIds', parent : NodeIds', label : TreeIds'])
        /\ Len(edges') = k
    BY <1>0, AddEdgeTyped
  <1>2. DOMAIN edges' = DOMAIN edges \cup {k}
    <2>1. DOMAIN edges' = 1 .. k
      BY <1>1
    <2> QED
      BY <1>0, <2>1, EdgesTyped
  <1>3. \A i \in DOMAIN edges : View(edges[i])' = View(edges[i])
    BY <1>1, ViewKept
  <1>4. View(edges[k])' = new
    BY <1>1 DEF View
  <1> HIDE DEF new
  <1>5. Views' = {View(edges[i])' : i \in DOMAIN edges'}
    BY DEF Views
  <1>6. Views' = Views \cup {new}
    BY <1>2, <1>3, <1>4, <1>5 DEF Views
  <1> QED
    BY <1>6 DEF new

-------------------------------------------------------------------------------
(* What each push adds.                                                    *)

LEMMA ShiftViews ==
  ASSUME IInv, ShiftToken
  PROVE  /\ Views' = Views \cup {[child |-> [state |-> Entry.arg, pos |-> tok.end],
                                  parent |-> gss[cur.head], node |-> tree'[NewId]]}
         /\ tree'[NewId] = [sym |-> tok.kind, start |-> tok.start, end |-> tok.end, kids |-> <<>>]
         /\ tree' = Append(tree, tree'[NewId])
  <1>1. tok.end \in Bytes /\ tok.start \in Bytes
    <2>1. tok \in [kind : Kinds, start : Bytes, end : Bytes]
      BY DEF IInv, TypeOK, TypedIn
    <2> QED
      BY <2>1
  <1>2. cur.sym \in Symbols(G) /\ Entry.arg \in States(G) /\ cur.head \in NodeIds
    BY EntryAt, StandsAt DEF ShiftToken
  <1>3. ArenaGrown
    <2>1. tok.kind \in Labels
      BY <1>2 DEF IInv, ControlOK, SymbolOK, ShiftToken, Labels
    <2> QED
      BY <1>1, <2>1, AllocTokenTyped DEF ShiftToken, IInv
  <1> DEFINE rec == [sym |-> tok.kind, start |-> tok.start, end |-> tok.end, kids |-> <<>>]
  <1>4. tree' = Append(tree, rec)
    BY DEF ShiftToken, AllocToken
  <1>5. TypeOK /\ AddEdge(Entry.arg, tok.end, cur.head, NewId)
    BY DEF IInv, ShiftToken
  <1> HIDE DEF rec
  <1>6. tree'[NewId] = rec
    BY <1>4, <1>5, NewSymbol
  <1>7. Views' = Views \cup {[child |-> [state |-> Entry.arg, pos |-> tok.end],
                              parent |-> gss[cur.head], node |-> tree'[NewId]]}
    BY <1>1, <1>2, <1>3, <1>5, ArenaKept, ViewsPushed
  <1> QED
    BY <1>4, <1>6, <1>7 DEF rec

LEMMA EmptyViews ==
  ASSUME IInv, ReduceEmpty, UNCHANGED job, EmptyGoto # NoState,
         AddEdge(EmptyGoto, Position, cur.head, NewId)
  PROVE  /\ Views' = Views \cup {[child |-> [state |-> EmptyGoto, pos |-> Position],
                                  parent |-> gss[cur.head], node |-> tree'[NewId]]}
         /\ tree'[NewId].sym = Production.lhs
         /\ tree'[NewId].start = Position /\ tree'[NewId].end = Position
  <1>1. ArenaGrown
    BY ReduceEmptyGrows
  <1>2. Position \in Bytes /\ cur.head \in NodeIds /\ EmptyGoto \in States(G)
    BY StandsAt, GotoTyped DEF EmptyGoto
  <1> DEFINE rec == [sym |-> Production.lhs, start |-> Position, end |-> Position, kids |-> <<>>]
  <1>3. tree' = Append(tree, rec)
    BY DEF ReduceEmpty, AllocInternal
  <1>4. rec.sym = Production.lhs /\ rec.start = Position /\ rec.end = Position
    OBVIOUS
  <1>5. TypeOK
    BY DEF IInv
  <1> HIDE DEF rec
  <1>6. tree'[NewId] = rec
    BY <1>3, <1>5, NewSymbol
  <1> QED
    BY <1>1, <1>2, <1>4, <1>5, <1>6, ArenaKept, ViewsPushed

LEMMA PathViews ==
  ASSUME IInv, ReducePath, PathGoto # NoState
  PROVE  Views' = Views \cup {[child |-> [state |-> PathGoto, pos |-> Position],
                               parent |-> gss[Ancestor], node |-> tree'[NewId]]}
  <1>1. ArenaGrown /\ Ancestor \in NodeIds /\ Position \in Bytes
    BY PathGrows
  <1>2. PathGoto \in States(G)
    BY GotoTyped DEF PathGoto
  <1>3. TypeOK /\ AddEdge(PathGoto, Position, Ancestor, NewId)
    BY DEF IInv, ReducePath
  <1> QED
    BY <1>1, <1>2, <1>3, ArenaKept, ViewsPushed

\* An error stays on record.
LEMMA CleanBefore ==
  ASSUME IInv, Next, Clean'
  PROVE  Clean /\ ~Attach
  <1>1. errKids \in Seq(TreeIds)
    BY DEF IInv, TypeOK, TypedIn
  <1>2. \A id : Append(errKids, id) # <<>>
    BY <1>1
  <1>3. \/ UNCHANGED errKids
        \/ errKids' = <<NewId>>
        \/ errKids' = Append(errKids, NewId)
    BY DEF Next, Lap, Worklist, Walk, FixedPoint, Recovery, errVars,
           ReadToken, SkipEmptyToken, EndOfInput, AbortParse, PopHead, ShiftToken, ReduceEmptyHead,
           StartReduce, AcceptInput, PassEntry, NextSymbol, HeadDone, EndUnaccepted, WalkDown, WalkUp,
           ReducePath, StartFixedPoint, FixReduceEmpty, FixPassEntry, FixNextHead, TokenDone,
           StartRecovery, ResyncSkip, ResyncFound, Attach, AttachDone, Resume, GiveUp, SkipToken
  <1>4. Clean
    BY <1>2, <1>3 DEF Clean
  <1>5. ~Attach
    BY <1>4 DEF Attach, Clean, IInv, ControlOK, RecoveryOK
  <1> QED
    BY <1>4, <1>5

-------------------------------------------------------------------------------
(***************************************************************************)
(* Spans.                                                                  *)
(***************************************************************************)

Brackets(v) == v.parent.pos <= v.node.start /\ v.node.start <= v.node.end /\ v.node.end = v.child.pos

LEMMA SpansAreViews ==
  /\ SpansBracket <=> (Clean => \A v \in Views : Brackets(v))
  /\ SpansBracket' <=> (Clean' => \A v \in Views' : Brackets(v))
  <1>1. (\A v \in Views : Brackets(v)) <=> \A i \in DOMAIN edges : Brackets(View(edges[i]))
    BY DEF Views
  <1>2. (\A v \in Views' : Brackets(v)) <=> \A i \in DOMAIN edges' : Brackets(View(edges[i])')
    <2>1. Views' = {View(edges[i])' : i \in DOMAIN edges'}
      BY DEF Views
    <2> QED
      BY <2>1
  <1>3. SpansBracket <=> (Clean => \A i \in DOMAIN edges : Brackets(View(edges[i])))
    BY DEF SpansBracket, View, Brackets
  <1>4. SpansBracket' <=> (Clean' => \A i \in DOMAIN edges' : Brackets(View(edges[i])'))
    BY DEF SpansBracket, View, Brackets, Clean
  <1> QED
    BY <1>1, <1>2, <1>3, <1>4

\* A walk never climbs: no node on its path stands past its head.
LEMMA WalkBehind ==
  ASSUME IInv, Framed, pc = "walk", \A v \in Views : Brackets(v), NEW i \in 1 .. Len(frames)
  PROVE  gss[frames[i].node].pos <= Position
  <1> DEFINE good(j) == gss[frames[j].node].pos <= Position
             upTo(j) == \A l \in 1 .. j : good(l)
             I == {j \in 1 .. Len(frames) : upTo(j)}
             n == Len(frames)
  <1>1. /\ n \in Nat \ {0} /\ \A j \in 1 .. n : frames[j].node \in NodeIds
        /\ \A j \in 1 .. n - 1 : frames[j].edge \in DOMAIN edges
        /\ frames[1].node = cur.head
        /\ \A j \in 1 .. n - 1 : /\ edges[frames[j].edge].child = frames[j].node
                                 /\ edges[frames[j].edge].parent = frames[j + 1].node
    BY WalkFrames, EdgesTyped DEF Framed, IInv
  <1>2. \A j \in 1 .. n : gss[frames[j].node].pos \in Int
    <2>1. \A j \in 1 .. n : gss[frames[j].node].pos \in Bytes
      BY <1>1, NodeTyped DEF IInv
    <2> QED
      BY <2>1 DEF Bytes
  <1>3. Position \in Int /\ good(1)
    BY <1>1, <1>2 DEF Position
  <1>4. ASSUME NEW j \in 1 .. n - 1, good(j)
        PROVE  good(j + 1)
    <2> DEFINE e == edges[frames[j].edge]
    <2>1. Brackets(View(e))
      BY <1>1 DEF Views
    <2>2. /\ gss[frames[j + 1].node].pos <= tree[e.label].start
          /\ tree[e.label].start <= tree[e.label].end
          /\ tree[e.label].end = gss[frames[j].node].pos
      BY <1>1, <2>1 DEF Brackets, View
    <2>3. tree[e.label].start \in Int
      <3>1. frames[j].edge \in 1 .. Len(edges) /\ TypeOK
        BY <1>1, EdgesTyped DEF IInv
      <3>2. e.label \in TreeIds
        BY <3>1, EdgeTyped
      <3>3. tree[e.label].start \in Bytes
        BY <3>1, <3>2, TreeTyped
      <3> QED
        BY <3>3 DEF Bytes
    <2>4. j \in 1 .. n /\ j + 1 \in 1 .. n
      BY <1>1
    <2> QED
      BY <1>2, <1>3, <1>4, <2>2, <2>3, <2>4
  <1>5. I \subseteq 1 .. n /\ 1 \in I
    BY <1>1, <1>3
  <1> HIDE DEF good
  <1>6. PICK m \in I : \A j \in I : j <= m
    <2> HIDE DEF I
    <2> QED
      BY <1>1, <1>5, LastExists
  <1>7. m = n
    <2> SUFFICES ASSUME m # n
                 PROVE  FALSE
      OBVIOUS
    <2>1. m \in 1 .. n - 1 /\ good(m)
      BY <1>1, <1>5, <1>6
    <2>2. m + 1 \in I
      <3>1. good(m + 1)
        BY <1>4, <2>1
      <3>2. \A l \in 1 .. m + 1 : l \in 1 .. m \/ l = m + 1
        BY <2>1
      <3>3. upTo(m + 1)
        BY <1>6, <3>1, <3>2
      <3> QED
        BY <1>1, <2>1, <3>3
    <2> QED
      BY <1>1, <1>6, <2>1, <2>2
  <1> QED
    BY <1>5, <1>6, <1>7 DEF good

\* The kids of a complete walk reach from its ancestor to its head.
LEMMA PathBrackets ==
  ASSUME IInv, Framed, ReducePath, \A v \in Views : Brackets(v)
  PROVE  /\ gss[Ancestor].pos <= tree[PathKids[1]].start
         /\ tree[PathKids[1]].start <= tree[PathKids[Depth]].end
         /\ tree[PathKids[Depth]].end = Position
  <1>1. /\ Depth \in Nat /\ Depth > 0 /\ Len(frames) = Depth + 1 /\ pc = "walk"
        /\ \A i \in 1 .. Depth : frames[i].edge \in DOMAIN edges
    BY WalkFrames, ReduceTyped, EdgesTyped DEF ReducePath, IInv
  <1>2. /\ frames[1].node = cur.head
        /\ \A i \in 1 .. Depth :
             /\ edges[frames[i].edge].child = frames[i].node
             /\ edges[frames[i].edge].parent = frames[i + 1].node
    BY <1>1 DEF Framed
  <1>3. \A i \in 1 .. Depth : Brackets(View(edges[frames[i].edge]))
    BY <1>1 DEF Views
  <1>4. /\ PathKids[1] = edges[frames[Depth].edge].label
        /\ PathKids[Depth] = edges[frames[1].edge].label
    BY <1>1 DEF PathKids
  <1>5. 1 \in 1 .. Depth /\ Depth \in 1 .. Depth
    BY <1>1
  <1>6. tree[PathKids[Depth]].end = Position
    BY <1>2, <1>3, <1>4, <1>5 DEF Brackets, View, Position
  <1>7. /\ gss[Ancestor].pos <= tree[PathKids[1]].start
        /\ tree[PathKids[1]].start <= tree[PathKids[1]].end
        /\ tree[PathKids[1]].end = gss[frames[Depth].node].pos
    BY <1>1, <1>2, <1>3, <1>4, <1>5 DEF Brackets, View, Ancestor
  <1>8. gss[frames[Depth].node].pos <= Position
    BY <1>1, WalkBehind
  <1>9. tree[PathKids[1]].start \in Int /\ tree[PathKids[1]].end \in Int /\ Position \in Int
    <2>1. PathKids[1] \in TreeIds /\ Position \in Bytes
      BY <1>5, PathKidsTyped, PathGrows, SeqElement
    <2>2. tree[PathKids[1]].start \in Bytes /\ tree[PathKids[1]].end \in Bytes
      BY <2>1, TreeTyped DEF IInv
    <2> QED
      BY <2>1, <2>2 DEF Bytes
  <1> QED
    BY <1>6, <1>7, <1>8, <1>9

LEMMA NextSpans ==
  ASSUME IInv, StackInv, PathInv, SpansBracket, Next
  PROVE  SpansBracket'
  <1> SUFFICES ASSUME Clean'
               PROVE  \A v \in Views' : Brackets(v)
    BY SpansAreViews
  <1>0. Clean /\ ~Attach
    BY CleanBefore
  <1>1. \A v \in Views : Brackets(v)
    BY <1>0, SpansAreViews
  <1>2. CASE UNCHANGED gssVars
    <2>1. Views' = Views
      BY <1>2, ArenaOnly, ViewsKept DEF IInv
    <2> QED
      BY <1>1, <2>1
  <1>3. CASE ShiftToken
    <2>1. pc = "act" /\ ~AtEnd
      BY <1>3 DEF ShiftToken
    <2>2. HeadPos <= tok.start /\ tok.end = tok.start + 1 /\ Position = HeadPos
      BY <2>1, CurrentStands DEF PathInv, Scanned, InWork
    <2>3. tok.start \in Int
      <3>1. tok \in [kind : Kinds, start : Bytes, end : Bytes]
        BY DEF IInv, TypeOK, TypedIn
      <3> QED
        BY <3>1 DEF Bytes
    <2> QED
      BY <1>1, <1>3, <2>2, <2>3, ShiftViews DEF Brackets, Position
  <1>4. CASE (ReduceEmptyHead \/ FixReduceEmpty) /\ EmptyGoto # NoState
    <2>1. ReduceEmpty /\ AddEdge(EmptyGoto, Position, cur.head, NewId) /\ UNCHANGED job
      BY <1>4 DEF ReduceEmptyHead, FixReduceEmpty
    <2>2. Position \in Int
      BY StandsAt DEF Bytes
    <2> QED
      BY <1>1, <1>4, <2>1, <2>2, EmptyViews DEF Brackets, Position
  <1>5. CASE ReducePath /\ PathGoto # NoState
    <2>1. tree'[NewId].start = tree[PathKids[1]].start /\ tree'[NewId].end = tree[PathKids[Depth]].end
      BY <1>5, PathGrows
    <2> QED
      BY <1>1, <1>5, <2>1, PathViews, PathBrackets DEF Brackets, PathInv
  <1> QED
    BY <1>0, <1>2, <1>3, <1>4, <1>5, PushesOnly

(***************************************************************************)
(* Until an error is met, the node on each stack edge spans source between *)
(* the positions of the edge's ends and ends at the upper one, for every   *)
(* grammar and source: spans, taken from first and last child, and         *)
(* positions, taken from the walk, never come apart.                       *)
(***************************************************************************)
THEOREM Spans == Spec => []SpansBracket
  <1>1. Init => SpansBracket
    BY DEF Init, SpansBracket
  <1>2. IInv /\ StackInv /\ PathInv /\ SpansBracket /\ [Next]_vars => SpansBracket'
    <2>1. CASE UNCHANGED vars
      BY <2>1 DEF vars, gssVars, treeVars, errVars, SpansBracket, Clean
    <2> QED
      BY <2>1, NextSpans
  <1> QED
    BY <1>1, <1>2, Inductive, StacksInductive, PathsInductive, PTL DEF Spec

-------------------------------------------------------------------------------
(***************************************************************************)
(* Children.  The invariant: every edge of the stack is a move of the      *)
(* table, so the path of a reduction spells what PathsSpell says of it.    *)
(***************************************************************************)

Spelling == Clean => \A v \in Views : Moves(G, v.parent.state, v.node.sym, v.child.state)

TablesSpell == \A j \in Jobs : PathsSpell(j.grammar)

\* A found goto, and a shift, are moves.
LEMMA GotoMoves ==
  ASSUME NEW q, NEW a, GotoState(G, q, a) # NoState
  PROVE  Moves(G, q, a, GotoState(G, q, a))
  <1>1. Goto(GotoState(G, q, a)) \in ToSet(Actions(G, q, a))
    BY DEF GotoState
  <1> QED
    BY <1>1 DEF Moves

LEMMA ShiftMoves ==
  ASSUME IInv, ShiftToken
  PROVE  Moves(G, gss[cur.head].state, tok.kind, Entry.arg)
  <1>1. AtEntry("shift") /\ ~AtEnd /\ pc = "act"
    BY DEF ShiftToken
  <1>2. Shift(Entry.arg) \in ToSet(Actions(G, gss[cur.head].state, cur.sym))
    BY <1>1, EntryInTable, SameTables DEF Shift
  <1>3. cur.sym = tok.kind
    BY <1>1 DEF IInv, ControlOK, SymbolOK
  <1> QED
    BY <1>2, <1>3 DEF Moves

LEMMA NextSpelling ==
  ASSUME IInv, StackInv, PathInv, Spelling, Next
  PROVE  Spelling'
  <1>1. G' = G
    BY JobFixed DEF G
  <1> SUFFICES ASSUME Clean'
               PROVE  \A v \in Views' : Moves(G, v.parent.state, v.node.sym, v.child.state)
    BY <1>1 DEF Spelling
  <1>2. Clean /\ ~Attach
    BY CleanBefore
  <1>3. \A v \in Views : Moves(G, v.parent.state, v.node.sym, v.child.state)
    BY <1>2 DEF Spelling
  <1>4. CASE UNCHANGED gssVars
    <2>1. Views' = Views
      BY <1>4, ArenaOnly, ViewsKept DEF IInv
    <2> QED
      BY <1>3, <2>1
  <1>5. CASE ShiftToken
    BY <1>3, <1>5, ShiftViews, ShiftMoves
  <1>6. CASE (ReduceEmptyHead \/ FixReduceEmpty) /\ EmptyGoto # NoState
    <2>1. ReduceEmpty /\ AddEdge(EmptyGoto, Position, cur.head, NewId) /\ UNCHANGED job
      BY <1>6 DEF ReduceEmptyHead, FixReduceEmpty
    <2>2. Moves(G, gss[cur.head].state, Production.lhs, EmptyGoto)
      BY <1>6, GotoMoves DEF EmptyGoto
    <2> QED
      BY <1>3, <1>6, <2>1, <2>2, EmptyViews
  <1>7. CASE ReducePath /\ PathGoto # NoState
    <2>1. tree'[NewId].sym = Production.lhs
      BY <1>7, PathGrows
    <2>2. Moves(G, gss[Ancestor].state, Production.lhs, PathGoto)
      BY <1>7, GotoMoves DEF PathGoto
    <2> QED
      BY <1>3, <1>7, <2>1, <2>2, PathViews
  <1> QED
    BY <1>2, <1>4, <1>5, <1>6, <1>7, PushesOnly

LEMMA MovesColumn ==
  ASSUME NEW q, NEW a, NEW r, Moves(G, q, a, r)
  PROVE  a \in Symbols(G)
  <1>1. Actions(G, q, a) # <<>>
    BY DEF Moves, ToSet
  <1> QED
    BY <1>1 DEF Actions

LEMMA KidsSpell ==
  ASSUME IInv, Framed, TablesSpell, ReducePath,
         \A v \in Views : Moves(G, v.parent.state, v.node.sym, v.child.state)
  PROVE  Production.rhs = [i \in DOMAIN PathKids |-> tree[PathKids[i]].sym]
  <1> DEFINE n == Depth
             rhs == Production.rhs
             q == [i \in 0 .. n |-> gss[frames[n + 1 - i].node].state]
             x == [i \in 1 .. n |-> tree[PathKids[i]].sym]
  <1>1. /\ n \in Nat /\ n > 0 /\ Len(frames) = n + 1 /\ pc = "walk" /\ AtEntry("reduce")
        /\ \A i \in 1 .. n : frames[i].edge \in DOMAIN edges
        /\ \A i \in 1 .. n + 1 : frames[i].node \in NodeIds
    BY WalkFrames, ReduceTyped, EdgesTyped DEF ReducePath, IInv
  <1>2. /\ frames[1].node = cur.head
        /\ \A i \in 1 .. n :
             /\ edges[frames[i].edge].child = frames[i].node
             /\ edges[frames[i].edge].parent = frames[i + 1].node
    BY <1>1 DEF Framed
  <1>3. /\ Entry.arg \in DOMAIN G.prods /\ rhs = G.prods[Entry.arg].rhs
        /\ rhs \in Seq(Symbols(G)) /\ DOMAIN rhs = 1 .. n /\ Len(rhs) = n
        /\ job \in Jobs /\ cur.sym \in Symbols(G)
    <2>1. Entry.arg \in DOMAIN G.prods /\ cur.sym \in Symbols(G) /\ job \in Jobs
      BY <1>1, EntryAt DEF IInv
    <2>2. rhs \in Seq(Symbols(G)) /\ rhs = G.prods[Entry.arg].rhs
      BY <2>1, ProductionTyped DEF Production
    <2> QED
      BY <2>1, <2>2 DEF Depth
  <1>4. ASSUME NEW i \in 1 .. n
        PROVE  /\ Moves(G, q[i - 1], x[i], q[i]) /\ x[i] \in Symbols(G)
    <2> DEFINE j == n + 1 - i
    <2>1. j \in 1 .. n /\ i \in 0 .. n /\ i - 1 \in 0 .. n /\ n + 1 - (i - 1) = j + 1
      BY <1>1
    <2>2. q[i - 1] = gss[frames[j + 1].node].state /\ q[i] = gss[frames[j].node].state
      BY <2>1
    <2>3. x[i] = tree[edges[frames[j].edge].label].sym
      BY <1>1 DEF PathKids
    <2>4. View(edges[frames[j].edge]) \in Views
      BY <1>1, <2>1 DEF Views
    <2>5. /\ View(edges[frames[j].edge]).parent = gss[frames[j + 1].node]
          /\ View(edges[frames[j].edge]).child = gss[frames[j].node]
          /\ View(edges[frames[j].edge]).node.sym = x[i]
      BY <1>2, <2>1, <2>3 DEF View
    <2> HIDE DEF q, x, j, n
    <2>6. Moves(G, q[i - 1], x[i], q[i])
      BY <2>2, <2>4, <2>5
    <2>7. x[i] \in Symbols(G)
      BY <2>6, MovesColumn
    <2> QED
      BY <2>6, <2>7
  <1>5. q \in [0 .. n -> States(G)] /\ q[n] = gss[cur.head].state
    <2>1. \A i \in 0 .. n : gss[frames[n + 1 - i].node].state \in States(G)
      <3> TAKE i \in 0 .. n
      <3>1. n + 1 - i \in 1 .. n + 1
        BY <1>1
      <3> QED
        BY <1>1, <3>1, NodeTyped DEF IInv
    <2>2. q[n] = gss[frames[n + 1 - n].node].state
      BY <1>1
    <2> QED
      BY <1>1, <1>2, <2>1, <2>2
  <1>6. x \in [1 .. n -> Symbols(G)]
    BY <1>4
  <1>7. Reduce(Entry.arg) \in ToSet(Actions(G, q[n], cur.sym))
    BY <1>1, <1>5, EntryInTable, SameTables DEF Reduce
  <1> HIDE DEF q, x, n, rhs
  <1>8. \A i \in 1 .. n : x[i] = rhs[i]
    <2>1. PathsSpell(G)
      BY <1>3 DEF TablesSpell, G
    <2>2. \A s \in [0 .. n -> States(G)] :
            (\E a \in Symbols(G) : Reduce(Entry.arg) \in ToSet(Actions(G, s[n], a))) =>
              \/ \E i \in 1 .. n : \A a \in Symbols(G) : ~Moves(G, s[i - 1], a, s[i])
              \/ \A i \in 1 .. n, a \in Symbols(G) : Moves(G, s[i - 1], a, s[i]) => a = rhs[i]
      <3>1. Spelled(G, Entry.arg, rhs)
        BY <1>3, <2>1 DEF PathsSpell, rhs
      <3> QED
        BY <1>3, <3>1 DEF Spelled
    <2>3. \/ \E i \in 1 .. n : \A a \in Symbols(G) : ~Moves(G, q[i - 1], a, q[i])
          \/ \A i \in 1 .. n, a \in Symbols(G) : Moves(G, q[i - 1], a, q[i]) => a = rhs[i]
      BY <1>3, <1>5, <1>7, <2>2
    <2> QED
      BY <1>4, <2>3
  <1>9. rhs = x
    BY <1>3, <1>6, <1>8
  <1>10. DOMAIN PathKids = 1 .. n
    BY PathKidsTyped DEF n
  <1> QED
    BY <1>9, <1>10 DEF rhs, x

\* The steps that allocate a node with children.
LEMMA KidsOnly ==
  ASSUME IInv, Next, Clean'
  PROVE  \/ UNCHANGED tree
         \/ \E rec : tree' = Append(tree, rec) /\ rec.kids = <<>>
         \/ ReducePath
  <1>1. CASE ResyncFound
    BY <1>1, CleanBefore DEF ResyncFound, Clean, IInv, ControlOK, RecoveryOK
  <1>2. \A s, b, e : AllocToken(s, b, e) => \E rec : tree' = Append(tree, rec) /\ rec.kids = <<>>
    <2> SUFFICES ASSUME NEW s, NEW b, NEW e, AllocToken(s, b, e)
                 PROVE  \E rec : tree' = Append(tree, rec) /\ rec.kids = <<>>
      OBVIOUS
    <2> DEFINE rec == [sym |-> s, start |-> b, end |-> e, kids |-> <<>>]
    <2>1. tree' = Append(tree, rec) /\ rec.kids = <<>>
      BY DEF AllocToken
    <2> QED
      BY <2>1
  <1>3. ReduceEmpty => \E rec : tree' = Append(tree, rec) /\ rec.kids = <<>>
    <2> SUFFICES ASSUME ReduceEmpty
                 PROVE  \E rec : tree' = Append(tree, rec) /\ rec.kids = <<>>
      OBVIOUS
    <2> DEFINE rec == [sym |-> Production.lhs, start |-> Position, end |-> Position, kids |-> <<>>]
    <2>1. tree' = Append(tree, rec) /\ rec.kids = <<>>
      BY DEF ReduceEmpty, AllocInternal
    <2> QED
      BY <2>1
  <1>4. \/ UNCHANGED treeVars
        \/ \E s, b, e : AllocToken(s, b, e)
        \/ ReduceEmpty \/ ReducePath \/ ResyncFound
    BY DEF Next, Lap, Worklist, Walk, FixedPoint, Recovery,
           ReadToken, SkipEmptyToken, EndOfInput, AbortParse, PopHead, ShiftToken, ReduceEmptyHead,
           StartReduce, AcceptInput, PassEntry, NextSymbol, HeadDone, EndUnaccepted, WalkDown, WalkUp,
           StartFixedPoint, FixReduceEmpty, FixPassEntry, FixNextHead, TokenDone,
           StartRecovery, ResyncSkip, Attach, AttachDone, Resume, GiveUp, SkipToken
  <1> QED
    BY <1>1, <1>2, <1>3, <1>4 DEF treeVars

LEMMA NextProductions ==
  ASSUME IInv, StackInv, PathInv, TablesSpell, Spelling, NodesAreProductions, Next
  PROVE  NodesAreProductions'
  <1> DEFINE Spelt(r) ==
        r.kids # <<>> =>
          \E p \in DOMAIN G.prods :
            /\ G.prods[p].lhs = r.sym
            /\ G.prods[p].rhs = [i \in DOMAIN r.kids |-> tree[r.kids[i]].sym]
  <1>1. G' = G
    BY JobFixed DEF G
  <1>2. \A t \in TreeIds : tree'[t] = tree[t]
    BY ArenaOnly
  <1> SUFFICES ASSUME Clean'
               PROVE  \A t \in TreeIds' :
                        tree'[t].kids # <<>> =>
                          \E p \in DOMAIN G.prods :
                            /\ G.prods[p].lhs = tree'[t].sym
                            /\ G.prods[p].rhs = [i \in DOMAIN tree'[t].kids |-> tree'[tree'[t].kids[i]].sym]
    BY <1>1 DEF NodesAreProductions
  <1>3. Clean
    BY CleanBefore
  <1>4. \A t \in TreeIds : Spelt(tree[t]) /\ tree[t].kids \in Seq(TreeIds)
    BY <1>3, TreeTyped DEF NodesAreProductions, IInv
  <1>5. ASSUME NEW r, r.kids \in Seq(TreeIds), Spelt(r)
        PROVE  r.kids # <<>> =>
                 \E p \in DOMAIN G.prods :
                   /\ G.prods[p].lhs = r.sym
                   /\ G.prods[p].rhs = [i \in DOMAIN r.kids |-> tree'[r.kids[i]].sym]
    <2>1. \A i \in DOMAIN r.kids : r.kids[i] \in TreeIds
      BY <1>5, SeqElement
    <2>2. [i \in DOMAIN r.kids |-> tree'[r.kids[i]].sym] = [i \in DOMAIN r.kids |-> tree[r.kids[i]].sym]
      BY <1>2, <2>1
    <2> QED
      BY <1>5, <2>2
  <1>6. \A t \in TreeIds' : tree'[t].kids \in Seq(TreeIds) /\ Spelt(tree'[t])
    <2>0. tree \in Seq([sym : Labels, start : Bytes, end : Bytes, kids : Seq(TreeIds)])
      BY DEF IInv, TypeOK, TypedIn
    <2>1. CASE UNCHANGED tree
      BY <1>4, <2>1 DEF TreeIds
    <2>2. ASSUME NEW rec, tree' = Append(tree, rec), rec.kids \in Seq(TreeIds), Spelt(rec)
          PROVE  \A t \in TreeIds' : tree'[t].kids \in Seq(TreeIds) /\ Spelt(tree'[t])
      <3>1. TreeIds' = TreeIds \cup {Len(tree) + 1} /\ tree'[Len(tree) + 1] = rec
        BY <2>0, <2>2, Appended DEF TreeIds
      <3> HIDE DEF Spelt
      <3> QED
        BY <1>2, <1>4, <2>2, <3>1
    <2>3. CASE ReducePath
      <3> DEFINE rec == [sym |-> Production.lhs, start |-> tree[PathKids[1]].start,
                         end |-> tree[PathKids[Depth]].end, kids |-> PathKids]
      <3>1. tree' = Append(tree, rec)
        BY <2>3 DEF ReducePath, AllocInternal
      <3>2. rec.kids = PathKids /\ rec.sym = Production.lhs
        OBVIOUS
      <3>3. PathKids \in Seq(TreeIds)
        BY <2>3, PathKidsTyped
      <3>4. AtEntry("reduce")
        BY <2>3, WalkFrames DEF ReducePath
      <3>5. Entry.arg \in DOMAIN G.prods /\ Production = G.prods[Entry.arg]
        BY <3>4, EntryAt DEF Production
      <3>6. Production.rhs = [i \in DOMAIN PathKids |-> tree[PathKids[i]].sym]
        BY <1>3, <2>3, KidsSpell DEF Spelling, PathInv
      <3> HIDE DEF rec
      <3>7. Spelt(rec)
        BY <3>2, <3>5, <3>6
      <3> QED
        BY <2>2, <3>1, <3>2, <3>3, <3>7
    <2>4. ASSUME NEW rec, tree' = Append(tree, rec), rec.kids = <<>>
          PROVE  \A t \in TreeIds' : tree'[t].kids \in Seq(TreeIds) /\ Spelt(tree'[t])
      <3>1. rec.kids \in Seq(TreeIds)
        BY <2>4
      <3>2. Spelt(rec)
        BY <2>4
      <3> HIDE DEF Spelt
      <3> QED
        BY <2>2, <2>4, <3>1, <3>2
    <2> QED
      BY <2>1, <2>3, <2>4, KidsOnly
  <1> QED
    BY <1>5, <1>6

LEMMA StutterNodes ==
  ASSUME UNCHANGED vars
  PROVE  /\ Spelling => Spelling'
         /\ NodesAreProductions => NodesAreProductions'
  <1>1. UNCHANGED <<job, gss, edges, tree, errKids>>
    BY DEF vars, gssVars, treeVars, errVars
  <1>2. Views' = Views /\ G' = G /\ Clean' = Clean
    BY <1>1 DEF Views, View, G, Clean
  <1>3. Spelling => Spelling'
    BY <1>2 DEF Spelling
  <1>4. NodesAreProductions => NodesAreProductions'
    BY <1>1, <1>2 DEF NodesAreProductions, TreeIds
  <1> QED
    BY <1>3, <1>4

(***************************************************************************)
(* The children of every node built before an error spell the right side   *)
(* of a production of its symbol, for every source and every grammar whose *)
(* table is made of item sets: the depth of the ancestor walk, its order   *)
(* and the reversal of its labels agree with what the states recognised.   *)
(***************************************************************************)
THEOREM Productions == TablesSpell => (Spec => []NodesAreProductions)
  <1>1. Init => Spelling /\ NodesAreProductions
    BY DEF Init, Spelling, Views, NodesAreProductions, TreeIds
  <1>2. TablesSpell /\ IInv /\ StackInv /\ PathInv /\ Spelling /\ NodesAreProductions /\ [Next]_vars
          => TablesSpell' /\ Spelling' /\ NodesAreProductions'
    BY NextSpelling, NextProductions, StutterNodes DEF TablesSpell
  <1> QED
    BY <1>1, <1>2, Inductive, StacksInductive, PathsInductive, PTL DEF Spec

-------------------------------------------------------------------------------
(***************************************************************************)
(* Yields.  First what TokensIn and FlattenSeq compute.                    *)
(***************************************************************************)

\* Induction up to a bound, with a set for the formula.
LEMMA Climb ==
  ASSUME NEW n \in Nat, NEW S, 0 \in S, \A i \in 0 .. n - 1 : i \in S => i + 1 \in S
  PROVE  \A i \in 0 .. n : i \in S
  <1>0. PICK N \in Nat : N = n + 1
    OBVIOUS
  <1> DEFINE I == {m \in 1 .. N : \A i \in 0 .. m - 1 : i \in S}
  <1>1. I \subseteq 1 .. N /\ I # {}
    <2>1. 1 \in I
      BY <1>0
    <2> QED
      BY <2>1
  <1>2. PICK m \in I : \A j \in I : j <= m
    <2> HIDE DEF I
    <2> QED
      BY <1>1, LastExists
  <1>3. m \in 1 .. N /\ \A i \in 0 .. m - 1 : i \in S
    BY <1>2
  <1>4. m = N
    <2> SUFFICES ASSUME m # N
                 PROVE  FALSE
      OBVIOUS
    <2>1. m - 1 \in 0 .. n - 1 /\ m - 1 \in S
      BY <1>0, <1>3
    <2>2. m \in S
      BY <1>3, <2>1
    <2>3. m + 1 \in I
      BY <1>0, <1>3, <2>2
    <2> QED
      BY <1>2, <1>3, <2>3
  <1> QED
    BY <1>0, <1>3, <1>4

\* The equation of the function that TokensIn is a value of, up to n.
TokenStep(f, p, k) ==
  IF k <= p THEN <<>>
  ELSE IF IsToken(k - 1) THEN Append(f[k - 1], k - 1)
  ELSE f[k - 1]

Collects(f, p, n) == f = [k \in 0 .. n |-> TokenStep(f, p, k)]

LEMMA CollectExists ==
  ASSUME NEW p \in Nat, NEW n \in Nat
  PROVE  \E f : Collects(f, p, n)
  <1> DEFINE S == {m \in 0 .. n : \E f : Collects(f, p, m)}
  <1>1. 0 \in S
    <2> DEFINE f == [k \in 0 .. 0 |-> <<>>]
    <2>1. f = [k \in 0 .. 0 |-> TokenStep(f, p, k)]
      BY DEF TokenStep
    <2>2. Collects(f, p, 0)
      BY <2>1 DEF Collects
    <2> QED
      BY <2>2
  <1>2. ASSUME NEW m \in 0 .. n - 1, m \in S
        PROVE  m + 1 \in S
    <2>1. PICK f : Collects(f, p, m)
      BY <1>2
    <2>2. \A k \in 0 .. m : f[k] = TokenStep(f, p, k)
      BY <2>1 DEF Collects
    <2> DEFINE g == [k \in 0 .. m + 1 |-> IF k \in 0 .. m THEN f[k] ELSE TokenStep(f, p, k)]
    <2>3. \A k \in 0 .. m : g[k] = f[k]
      OBVIOUS
    <2>4. \A k \in 0 .. m + 1 : TokenStep(g, p, k) = TokenStep(f, p, k)
      <3> TAKE k \in 0 .. m + 1
      <3>1. k > p => k - 1 \in 0 .. m
        OBVIOUS
      <3> HIDE DEF g
      <3> QED
        BY <2>3, <3>1 DEF TokenStep
    <2>5. \A k \in 0 .. m + 1 : g[k] = TokenStep(g, p, k)
      <3>1. \A k \in 0 .. m + 1 : g[k] = TokenStep(f, p, k)
        BY <2>2
      <3> QED
        BY <2>4, <3>1
    <2>6. DOMAIN g = 0 .. m + 1 /\ g = [k \in DOMAIN g |-> g[k]]
      OBVIOUS
    <2> HIDE DEF g
    <2>7. Collects(g, p, m + 1)
      BY <2>5, <2>6 DEF Collects
    <2> QED
      BY <2>7
  <1> HIDE DEF S
  <1>3. \A m \in 0 .. n : m \in S
    BY <1>1, <1>2, Climb
  <1> QED
    BY <1>3 DEF S

\* TokensIn, byte by byte.
LEMMA TokensStep ==
  ASSUME job \in Jobs, NEW p \in Nat
  PROVE  /\ \A q \in Bytes : q <= p => TokensIn(p, q) = <<>>
         /\ \A q \in Bytes : q > p =>
              TokensIn(p, q) = IF IsToken(q - 1) THEN Append(TokensIn(p, q - 1), q - 1)
                               ELSE TokensIn(p, q - 1)
  <1> DEFINE n == Len(Source)
             f == CHOOSE f : Collects(f, p, n)
  <1>1. n \in Nat
    BY GrammarFacts
  <1>2. Collects(f, p, n)
    BY <1>1, CollectExists
  <1>3. \A q : TokensIn(p, q) = f[q]
    BY DEF TokensIn, Collects, TokenStep, Bytes
  <1> HIDE DEF f
  <1>4. \A q \in 0 .. n : f[q] = TokenStep(f, p, q)
    BY <1>2 DEF Collects
  <1>5. ASSUME NEW q \in Bytes
        PROVE  /\ q <= p => TokensIn(p, q) = <<>>
               /\ q > p =>
                    TokensIn(p, q) = IF IsToken(q - 1) THEN Append(TokensIn(p, q - 1), q - 1)
                                     ELSE TokensIn(p, q - 1)
    <2>1. q \in 0 .. n /\ q \in Int /\ (q > p => ~(q <= p))
      BY <1>1 DEF Bytes
    <2>2. TokensIn(p, q) = f[q] /\ TokensIn(p, q - 1) = f[q - 1]
      BY <1>3
    <2>3. f[q] = IF q <= p THEN <<>>
                 ELSE IF IsToken(q - 1) THEN Append(f[q - 1], q - 1)
                 ELSE f[q - 1]
      BY <1>4, <2>1 DEF TokenStep
    <2> QED
      BY <2>1, <2>2, <2>3
  <1> QED
    BY <1>5

LEMMA TokensNext ==
  ASSUME job \in Jobs, NEW p \in Nat, NEW m \in Nat, m + 1 \in Bytes, p <= m
  PROVE  TokensIn(p, m + 1) = IF IsToken(m) THEN Append(TokensIn(p, m), m) ELSE TokensIn(p, m)
  <1>1. PICK q \in Bytes : q = m + 1
    OBVIOUS
  <1>2. q - 1 = m /\ q > p
    BY <1>1
  <1>3. TokensIn(p, q) = IF IsToken(q - 1) THEN Append(TokensIn(p, q - 1), q - 1)
                         ELSE TokensIn(p, q - 1)
    BY <1>2, TokensStep
  <1>4. TokensIn(p, q) = IF IsToken(m) THEN Append(TokensIn(p, m), m) ELSE TokensIn(p, m)
    BY <1>2, <1>3
  <1> QED
    BY <1>1, <1>4

LEMMA TokensTyped ==
  ASSUME job \in Jobs, NEW p \in Nat, NEW q \in Bytes
  PROVE  TokensIn(p, q) \in Seq(Nat)
  <1> DEFINE n == Len(Source)
             S == {m \in 0 .. n : TokensIn(p, m) \in Seq(Nat)}
  <1>1. n \in Nat /\ Bytes = 0 .. n
    BY GrammarFacts DEF Bytes
  <1>0. <<>> \in Seq(Nat)
    OBVIOUS
  <1>2. 0 \in S
    <2>1. 0 \in Bytes /\ 0 \in 0 .. n /\ 0 <= p
      BY <1>1
    <2>2. TokensIn(p, 0) = <<>>
      BY <2>1, TokensStep
    <2> QED
      BY <1>0, <2>1, <2>2
  <1>3. ASSUME NEW m \in 0 .. n - 1, m \in S
        PROVE  m + 1 \in S
    <2>1. m + 1 \in Bytes /\ m + 1 \in 0 .. n /\ m \in Nat
      BY <1>1
    <2>2. \/ TokensIn(p, m + 1) = <<>>
          \/ TokensIn(p, m + 1) = Append(TokensIn(p, m), m)
          \/ TokensIn(p, m + 1) = TokensIn(p, m)
      <3>1. CASE p <= m
        BY <2>1, <3>1, TokensNext
      <3>2. CASE m + 1 <= p
        BY <2>1, <3>2, TokensStep
      <3> QED
        BY <2>1, <3>1, <3>2
    <2>3. TokensIn(p, m) \in Seq(Nat)
      BY <1>3
    <2>4. Append(TokensIn(p, m), m) \in Seq(Nat)
      BY <2>1, <2>3, AppendProperties
    <2>5. TokensIn(p, m + 1) \in Seq(Nat)
      BY <1>0, <2>2, <2>3, <2>4
    <2> QED
      BY <2>1, <2>5
  <1> HIDE DEF S
  <1>4. \A m \in 0 .. n : m \in S
    BY <1>1, <1>2, <1>3, Climb
  <1> QED
    BY <1>1, <1>4 DEF S

\* Neighbouring stretches of the source.
LEMMA TokensJoin ==
  ASSUME job \in Jobs, NEW p \in Nat, NEW q \in Bytes, NEW r \in Bytes, p <= q, q <= r
  PROVE  TokensIn(p, r) = TokensIn(p, q) \o TokensIn(q, r)
  <1> DEFINE n == Len(Source)
             S == {m \in 0 .. n : q <= m => TokensIn(p, m) = TokensIn(p, q) \o TokensIn(q, m)}
  <1>1. n \in Nat /\ Bytes = 0 .. n /\ q \in Nat /\ r \in 0 .. n
    BY GrammarFacts DEF Bytes
  <1>2. TokensIn(q, q) = <<>> /\ TokensIn(p, q) \in Seq(Nat)
    BY <1>1, TokensStep, TokensTyped
  <1>3. TokensIn(p, q) = TokensIn(p, q) \o TokensIn(q, q)
    BY <1>2
  <1>4. 0 \in S
    BY <1>1, <1>3
  <1>5. ASSUME NEW m \in 0 .. n - 1, m \in S
        PROVE  m + 1 \in S
    <2> SUFFICES ASSUME q <= m + 1
                 PROVE  TokensIn(p, m + 1) = TokensIn(p, q) \o TokensIn(q, m + 1)
      BY <1>1
    <2>1. CASE q = m + 1
      BY <1>3, <2>1
    <2>2. CASE q <= m
      <3>1. m + 1 \in Bytes /\ m \in Bytes /\ m \in Nat /\ p <= m
        BY <1>1, <2>2
      <3>2. TokensIn(p, m) = TokensIn(p, q) \o TokensIn(q, m)
        BY <1>5, <2>2
      <3>3. TokensIn(p, m + 1) = IF IsToken(m) THEN Append(TokensIn(p, m), m) ELSE TokensIn(p, m)
        BY <3>1, TokensNext
      <3>4. TokensIn(q, m + 1) = IF IsToken(m) THEN Append(TokensIn(q, m), m) ELSE TokensIn(q, m)
        BY <1>1, <2>2, <3>1, TokensNext
      <3>5. TokensIn(q, m) \in Seq(Nat)
        BY <1>1, <3>1, TokensTyped
      <3>6. Append(TokensIn(p, q) \o TokensIn(q, m), m) = TokensIn(p, q) \o Append(TokensIn(q, m), m)
        <4>1. \A a, b \in Seq(Nat) : Append(a \o b, m) = a \o Append(b, m)
          <5> TAKE a, b \in Seq(Nat)
          <5>1. <<m>> \in Seq(Nat) /\ a \o b \in Seq(Nat)
            BY <3>1
          <5>2. Append(a \o b, m) = (a \o b) \o <<m>> /\ Append(b, m) = b \o <<m>>
            BY <3>1, <5>1, AppendIsConcat
          <5>3. (a \o b) \o <<m>> = a \o (b \o <<m>>)
            BY <3>1
          <5> QED
            BY <5>2, <5>3
        <4> QED
          BY <1>2, <3>5, <4>1
      <3> QED
        BY <3>2, <3>3, <3>4, <3>6
    <2> QED
      BY <1>1, <2>1, <2>2
  <1> HIDE DEF S
  <1>6. \A m \in 0 .. n : m \in S
    BY <1>1, <1>4, <1>5, Climb
  <1> QED
    BY <1>1, <1>6 DEF S

\* A stretch that carries no token, and one that carries one.
LEMMA TokensPassed ==
  ASSUME job \in Jobs, NEW p \in Nat, NEW q \in Bytes, p <= q, PassedOver(p, q)
  PROVE  TokensIn(p, q) = <<>>
  <1> DEFINE n == Len(Source)
             S == {m \in 0 .. n : m <= q => TokensIn(p, m) = <<>>}
  <1>1. n \in Nat /\ Bytes = 0 .. n /\ q \in 0 .. n
    BY GrammarFacts DEF Bytes
  <1>2. 0 \in S
    <2>1. 0 \in Bytes /\ 0 \in 0 .. n /\ 0 <= p
      BY <1>1
    <2> QED
      BY <2>1, TokensStep
  <1>3. ASSUME NEW m \in 0 .. n - 1, m \in S
        PROVE  m + 1 \in S
    <2> SUFFICES ASSUME m + 1 <= q
                 PROVE  TokensIn(p, m + 1) = <<>>
      BY <1>1
    <2>1. m + 1 \in Bytes /\ m \in Nat
      BY <1>1
    <2>2. CASE m + 1 <= p
      BY <2>1, <2>2, TokensStep
    <2>3. CASE p <= m
      <3>1. m \in p .. q - 1
        BY <1>1, <2>1, <2>3
      <3>2. Source[m + 1] \in NoToken \/ m < job.from
        BY <3>1 DEF PassedOver
      <3>3. m < job.from => m < StartByte
        <4>1. JobOK(job)
          BY JobsAssumption
        <4> QED
          BY <2>1, <4>1 DEF StartByte, JobOK, Whole
      <3>4. ~IsToken(m)
        <4>1. StartByte \in Int
          <5>1. JobOK(job) /\ Len(job.source) \in Nat
            BY <1>1, JobsAssumption DEF Source
          <5> QED
            BY <5>1 DEF StartByte, JobOK, Whole
        <4> QED
          BY <2>1, <3>2, <3>3, <4>1 DEF IsToken
      <3>5. TokensIn(p, m + 1) = TokensIn(p, m)
        BY <2>1, <2>3, <3>4, TokensNext
      <3> QED
        BY <1>1, <1>3, <2>1, <3>5
    <2> QED
      BY <2>1, <2>2, <2>3
  <1> HIDE DEF S
  <1>4. \A m \in 0 .. n : m \in S
    BY <1>1, <1>2, <1>3, Climb
  <1> QED
    BY <1>1, <1>4 DEF S

LEMMA TokenRead ==
  ASSUME job \in Jobs, NEW p \in Nat, NEW k \in Nat, k + 1 \in Bytes, p <= k, PassedOver(p, k),
         IsToken(k)
  PROVE  TokensIn(p, k + 1) = <<k>>
  <1>1. k \in Bytes
    BY GrammarFacts DEF Bytes
  <1>2. TokensIn(p, k) = <<>>
    BY <1>1, TokensPassed
  <1>3. TokensIn(p, k + 1) = Append(TokensIn(p, k), k)
    BY TokensNext
  <1> QED
    BY <1>2, <1>3

\* A row of stretches, each of which ends where the next begins.
LEMMA FlattenTokens ==
  ASSUME job \in Jobs, NEW n \in Nat \ {0}, NEW P \in [0 .. n -> Bytes],
         \A i \in 1 .. n : P[i - 1] <= P[i],
         NEW s, DOMAIN s = 1 .. n, Len(s) = n,
         \A i \in 1 .. n : s[i] = TokensIn(P[i - 1], P[i])
  PROVE  FlattenSeq(s) = TokensIn(P[0], P[n])
  <1> DEFINE Joins(h) == h = [i \in 1 .. n |-> IF i = 1 THEN s[i] ELSE h[i - 1] \o s[i]]
             f == [i \in 1 .. n |-> TokensIn(P[0], P[i])]
             g == CHOOSE h : Joins(h)
  <1>1. FlattenSeq(s) = g[n]
    BY DEF FlattenSeq
  <1>2. \A i \in 0 .. n : P[i] \in Bytes /\ P[i] \in Nat
    BY GrammarFacts DEF Bytes
  <1>3. \A i \in 0 .. n : P[0] <= P[i]
    <2> DEFINE S == {i \in 0 .. n : P[0] <= P[i]}
    <2>1. 0 \in S
      BY <1>2
    <2>2. ASSUME NEW i \in 0 .. n - 1, i \in S PROVE i + 1 \in S
      <3>1. i + 1 \in 1 .. n /\ i + 1 - 1 = i /\ i \in 0 .. n
        OBVIOUS
      <3>2. P[i] <= P[i + 1]
        <4>1. PICK j \in 1 .. n : j = i + 1
          BY <3>1
        <4>2. P[j - 1] <= P[j] /\ j - 1 = i
          BY <4>1
        <4> QED
          BY <4>1, <4>2
      <3> QED
        BY <1>2, <2>2, <3>1, <3>2
    <2> HIDE DEF S
    <2>3. \A i \in 0 .. n : i \in S
      BY <2>1, <2>2, Climb
    <2> QED
      BY <2>3 DEF S
  <1>4. \A i \in 1 .. n : i # 1 => TokensIn(P[0], P[i]) = TokensIn(P[0], P[i - 1]) \o s[i]
    <2> SUFFICES ASSUME NEW i \in 1 .. n, i # 1
                 PROVE  TokensIn(P[0], P[i]) = TokensIn(P[0], P[i - 1]) \o s[i]
      OBVIOUS
    <2>1. i - 1 \in 0 .. n /\ i \in 0 .. n /\ 0 \in 0 .. n
      OBVIOUS
    <2>2. s[i] = TokensIn(P[i - 1], P[i]) /\ P[i - 1] <= P[i] /\ P[0] <= P[i - 1]
      BY <1>3, <2>1
    <2>3. P[0] \in Nat /\ P[i - 1] \in Bytes /\ P[i] \in Bytes
      BY <1>2, <2>1
    <2>4. PICK q \in Bytes, r \in Bytes : q = P[i - 1] /\ r = P[i]
      BY <2>3
    <2>5. TokensIn(P[0], r) = TokensIn(P[0], q) \o TokensIn(q, r)
      BY <2>2, <2>3, <2>4, TokensJoin
    <2> QED
      BY <2>2, <2>4, <2>5
  <1>5. Joins(f)
    <2>1. f[1] = s[1]
      <3>1. 1 \in 1 .. n /\ 1 - 1 = 0
        OBVIOUS
      <3> QED
        BY <3>1
    <2>2. \A i \in 1 .. n : f[i] = IF i = 1 THEN s[i] ELSE f[i - 1] \o s[i]
      <3> TAKE i \in 1 .. n
      <3>1. i # 1 => i - 1 \in 1 .. n
        OBVIOUS
      <3> QED
        BY <1>4, <2>1, <3>1
    <2>3. f = [i \in 1 .. n |-> f[i]]
      OBVIOUS
    <2> HIDE DEF f
    <2> QED
      BY <2>2, <2>3
  <1> HIDE DEF f
  <1>6. Joins(g)
    BY <1>5
  <1> HIDE DEF g
  <1>7. \A i \in 1 .. n : g[i] = IF i = 1 THEN s[i] ELSE g[i - 1] \o s[i]
    BY <1>6
  <1>8. \A i \in 1 .. n : f[i] = IF i = 1 THEN s[i] ELSE f[i - 1] \o s[i]
    BY <1>5
  <1> HIDE DEF Joins
  <1>9. \A i \in 0 .. n : i = 0 \/ g[i] = f[i]
    <2> DEFINE S == {i \in 0 .. n : i = 0 \/ g[i] = f[i]}
    <2>1. 0 \in S
      OBVIOUS
    <2>2. ASSUME NEW i \in 0 .. n - 1, i \in S PROVE i + 1 \in S
      <3>1. PICK j \in 1 .. n : j = i + 1 /\ j - 1 = i
        OBVIOUS
      <3>2. g[j] = f[j]
        BY <1>7, <1>8, <2>2, <3>1
      <3> QED
        BY <3>1, <3>2
    <2> HIDE DEF S
    <2>3. \A i \in 0 .. n : i \in S
      BY <2>1, <2>2, Climb
    <2> QED
      BY <2>3 DEF S
  <1>10. g[n] = f[n]
    BY <1>9
  <1> QED
    BY <1>1, <1>10 DEF f

-------------------------------------------------------------------------------
(***************************************************************************)
(* The invariant: the arena has yields, each edge has the tokens between   *)
(* its ends, and nothing in front of an edit is read.                      *)
(***************************************************************************)

YieldStep(y, t) ==
  IF tree[t].sym \in G.terminals THEN <<tree[t].start>>
  ELSE FlattenSeq([i \in DOMAIN tree[t].kids |-> y[tree[t].kids[i]]])

Yields(y) == y = [t \in TreeIds |-> YieldStep(y, t)]

Covers(y, e) == y[e.label] = TokensIn(gss[e.parent].pos, gss[e.child].pos)

FromStart ==
  /\ cursor >= StartByte
  /\ (InWork \/ pc = "fix") /\ ~AtEnd => tok.start >= StartByte

YieldInv ==
  Clean =>
    /\ FromStart
    /\ \E y : Yields(y)
    /\ \A y : Yields(y) => \A i \in DOMAIN edges : Covers(y, edges[i])

GrammarsApart == \A j \in Jobs : RulesApart(j.grammar)

LEMMA YieldFound == Yield = CHOOSE y : Yields(y)
  BY DEF Yield, Yields, YieldStep

LEMMA InvIsEdgesYield == YieldInv => EdgesYield
  <1> SUFFICES ASSUME YieldInv, Clean
               PROVE  \A i \in DOMAIN edges : Covers(Yield, edges[i])
    BY DEF EdgesYield, Covers
  <1>1. Yields(Yield)
    BY YieldFound DEF YieldInv
  <1> QED
    BY <1>1 DEF YieldInv

LEMMA TokensFixed ==
  ASSUME job' = job
  PROVE  \A p, q : TokensIn(p, q)' = TokensIn(p, q)
  BY DEF TokensIn, IsToken, StartByte, Source, Bytes

\* A node's children are older, so the yields of an arena are those of the nodes it had
\* before, and of the new one.
LEMMA KidsOlder ==
  ASSUME IInv, Next, Clean'
  PROVE  /\ TreeIds \subseteq TreeIds'
         /\ \A t \in TreeIds : tree'[t] = tree[t]
         /\ \A t \in TreeIds' : tree'[t].kids \in Seq(TreeIds)
  <1>1. \A t \in TreeIds : tree'[t] = tree[t]
    BY ArenaOnly
  <1>2. \A t \in TreeIds : tree[t].kids \in Seq(TreeIds)
    BY TreeTyped DEF IInv
  <1>3. tree \in Seq([sym : Labels, start : Bytes, end : Bytes, kids : Seq(TreeIds)])
    BY DEF IInv, TypeOK, TypedIn
  <1>4. CASE UNCHANGED tree
    BY <1>1, <1>2, <1>4 DEF TreeIds
  <1>5. ASSUME NEW rec, tree' = Append(tree, rec), rec.kids \in Seq(TreeIds)
        PROVE  /\ TreeIds \subseteq TreeIds'
               /\ \A t \in TreeIds' : tree'[t].kids \in Seq(TreeIds)
    <2>1. TreeIds' = TreeIds \cup {Len(tree) + 1} /\ tree'[Len(tree) + 1] = rec
      BY <1>3, <1>5, Appended DEF TreeIds
    <2> QED
      BY <1>1, <1>2, <1>5, <2>1
  <1>6. CASE ReducePath
    <2> DEFINE rec == [sym |-> Production.lhs, start |-> tree[PathKids[1]].start,
                       end |-> tree[PathKids[Depth]].end, kids |-> PathKids]
    <2>1. tree' = Append(tree, rec) /\ rec.kids = PathKids
      BY <1>6 DEF ReducePath, AllocInternal
    <2>2. PathKids \in Seq(TreeIds)
      BY <1>6, PathKidsTyped
    <2> HIDE DEF rec
    <2> QED
      BY <1>1, <1>5, <2>1, <2>2
  <1>7. ASSUME NEW rec, tree' = Append(tree, rec), rec.kids = <<>>
        PROVE  /\ TreeIds \subseteq TreeIds'
               /\ \A t \in TreeIds' : tree'[t].kids \in Seq(TreeIds)
    <2>1. rec.kids \in Seq(TreeIds)
      BY <1>7
    <2> QED
      BY <1>5, <1>7, <2>1
  <1> QED
    BY <1>1, <1>4, <1>6, <1>7, KidsOnly

LEMMA StepSame ==
  ASSUME G' = G, NEW y, NEW z, NEW t, tree'[t] = tree[t], tree[t].kids \in Seq(TreeIds),
         \A u \in TreeIds : y[u] = z[u]
  PROVE  YieldStep(y, t)' = YieldStep(z, t)
  <1>1. \A i \in DOMAIN tree[t].kids : tree[t].kids[i] \in TreeIds
    BY SeqElement
  <1>2. [i \in DOMAIN tree[t].kids |-> y[tree[t].kids[i]]] =
          [i \in DOMAIN tree[t].kids |-> z[tree[t].kids[i]]]
    BY <1>1
  <1> QED
    BY <1>2 DEF YieldStep

LEMMA YieldsBefore ==
  ASSUME IInv, Next, Clean', NEW y, Yields(y)'
  PROVE  \E z : Yields(z) /\ \A t \in TreeIds : z[t] = y[t]
  <1> DEFINE z == [t \in TreeIds |-> y[t]]
  <1>1. G' = G
    BY JobFixed DEF G
  <1>2. \A t \in TreeIds : tree'[t] = tree[t] /\ tree[t].kids \in Seq(TreeIds) /\ t \in TreeIds'
    BY KidsOlder, TreeTyped DEF IInv
  <1>3. \A t \in TreeIds' : y[t] = YieldStep(y, t)'
    <2>1. y = [t \in TreeIds' |-> YieldStep(y, t)']
      BY DEF Yields
    <2> QED
      BY <2>1
  <1>4. \A t \in TreeIds : z[t] = y[t]
    OBVIOUS
  <1>5. z = [t \in TreeIds |-> z[t]]
    OBVIOUS
  <1> HIDE DEF z
  <1>6. \A t \in TreeIds : YieldStep(y, t)' = YieldStep(z, t)
    BY <1>1, <1>2, <1>4, StepSame
  <1>7. \A t \in TreeIds : z[t] = YieldStep(z, t)
    BY <1>2, <1>3, <1>4, <1>6
  <1>8. Yields(z)
    BY <1>5, <1>7 DEF Yields
  <1> QED
    BY <1>4, <1>8

LEMMA YieldsAfter ==
  ASSUME IInv, Next, Clean', NEW y, Yields(y)
  PROVE  \E z : Yields(z)'
  <1>0. PICK z : z = [t \in TreeIds' |-> YieldStep(y, t)']
    OBVIOUS
  <1>1. G' = G
    BY JobFixed DEF G
  <1>2. \A t \in TreeIds : tree'[t] = tree[t] /\ tree[t].kids \in Seq(TreeIds) /\ t \in TreeIds'
    BY KidsOlder, TreeTyped DEF IInv
  <1>3. \A t \in TreeIds : y[t] = YieldStep(y, t)
    BY DEF Yields
  <1>4. \A t \in TreeIds : YieldStep(y, t)' = YieldStep(y, t)
    BY <1>1, <1>2, StepSame
  <1>5. \A t \in TreeIds' : z[t] = YieldStep(y, t)'
    BY <1>0
  <1>6. \A t \in TreeIds : z[t] = y[t]
    BY <1>2, <1>3, <1>4, <1>5
  <1>7. \A t \in TreeIds' : YieldStep(z, t)' = YieldStep(y, t)'
    <2> TAKE t \in TreeIds'
    <2>1. tree'[t].kids \in Seq(TreeIds)
      BY KidsOlder
    <2>2. \A i \in DOMAIN tree'[t].kids : tree'[t].kids[i] \in TreeIds
      BY <2>1, SeqElement
    <2>3. [i \in DOMAIN tree'[t].kids |-> z[tree'[t].kids[i]]] =
            [i \in DOMAIN tree'[t].kids |-> y[tree'[t].kids[i]]]
      BY <1>6, <2>2
    <2> QED
      BY <2>3 DEF YieldStep
  <1>8. \A t \in TreeIds' : YieldStep(y, t)' = YieldStep(z, t)'
    BY <1>7
  <1>9. z = [t \in TreeIds' |-> YieldStep(z, t)']
    BY <1>0, <1>8
  <1> QED
    BY <1>9 DEF Yields

\* No lap reads in front of an edit.
LEMMA NextFromStart ==
  ASSUME IInv, Next, Clean', FromStart
  PROVE  FromStart'
  <1>1. job' = job /\ StartByte' = StartByte
    BY JobFixed DEF StartByte
  <1>2. cursor \in Bytes /\ cursor \in Int /\ StartByte \in Int /\ Len(Source) \in Nat
    <2>1. cursor \in Bytes /\ job \in Jobs
      BY DEF IInv, TypeOK, TypedIn
    <2>2. JobOK(job) /\ Len(Source) \in Nat
      BY <2>1, JobsAssumption, GrammarFacts
    <2> QED
      BY <2>1, <2>2 DEF StartByte, JobOK, Whole, Source, Bytes
  <1>3. CASE ReadToken
    <2>1. PICK t \in Lexed(cursor, Mask) : t.start < t.end /\ cursor' = t.end /\ StartWork(t)
      BY <1>3 DEF ReadToken
    <2>2. t.start \in cursor .. Len(Source) - 1 /\ t.end = t.start + 1 /\ t.start \in Int
      BY <1>2, <2>1, LexedAt DEF IInv
    <2>3. tok' = t
      BY <2>1 DEF StartWork
    <2> QED
      BY <1>1, <1>2, <2>1, <2>2, <2>3 DEF FromStart
  <1>4. CASE SkipEmptyToken
    <2>1. PICK t \in Lexed(cursor, Mask) : t.start >= t.end /\ cursor' = t.start + 1
      BY <1>4 DEF SkipEmptyToken
    <2>2. t.start \in cursor .. Len(Source) - 1 /\ t.start \in Int
      BY <1>2, <2>1, LexedAt DEF IInv
    <2>3. pc' = "lex"
      BY <1>4 DEF SkipEmptyToken
    <2> QED
      BY <1>1, <1>2, <2>1, <2>2, <2>3 DEF FromStart, InWork
  <1>5. CASE EndOfInput \/ AbortParse
    <2>1. tok' = EndToken /\ (cursor' = Len(Source) \/ cursor' = cursor)
      BY <1>5 DEF EndOfInput, AbortParse, StartWork
    <2>2. AtEnd'
      BY <2>1 DEF AtEnd, EndToken
    <2> QED
      BY <1>1, <1>2, <2>1, <2>2 DEF FromStart, Bytes
  <1>6. pc \notin {"resync", "attach"}
    BY CleanBefore DEF Clean, IInv, ControlOK, RecoveryOK
  <1>7. CASE Worklist \/ Walk \/ FixedPoint \/ StartRecovery
    <2>1. UNCHANGED <<cursor, tok>> /\ (InWork \/ pc = "fix")
      BY <1>7 DEF Worklist, Walk, FixedPoint, PopHead, ShiftToken, ReduceEmptyHead, StartReduce,
             AcceptInput, PassEntry, NextSymbol, HeadDone, EndUnaccepted, WalkDown, WalkUp, ReducePath,
             StartFixedPoint, FixReduceEmpty, FixPassEntry, FixNextHead, TokenDone, StartRecovery,
             InWork
    <2> QED
      BY <1>1, <2>1 DEF FromStart, AtEnd
  <1>8. ~(ResyncSkip \/ ResyncFound \/ Attach \/ AttachDone \/ Resume \/ GiveUp)
    BY <1>6 DEF ResyncSkip, ResyncFound, Attach, AttachDone, Resume, GiveUp
  <1> QED
    BY <1>3, <1>4, <1>5, <1>7, <1>8 DEF Next, Lap, Recovery

\* A push whose new node has the tokens between the ends of its edge.
LEMMA CoversPushed ==
  ASSUME TypeOK, job' = job, NEW s \in States(G), NEW p \in Bytes, NEW parent \in NodeIds,
         NEW label \in TreeIds', TreeIds \subseteq TreeIds', AddEdge(s, p, parent, label),
         NEW y, \A i \in DOMAIN edges : Covers(y, edges[i]),
         y[label] = TokensIn(gss[parent].pos, p)
  PROVE  \A i \in DOMAIN edges' : Covers(y, edges[i])'
  <1>0. PICK k \in Nat : k = Len(edges) + 1
    BY EdgesTyped
  <1>1. /\ \A n \in NodeIds : gss'[n] = gss[n]
        /\ gss'[NodeAt(s, p)] = [state |-> s, pos |-> p]
        /\ \A i \in DOMAIN edges : edges'[i] = edges[i]
        /\ edges'[k] = [child |-> NodeAt(s, p), parent |-> parent, label |-> label]
        /\ edges' \in Seq([child : NodeIds', parent : NodeIds', label : TreeIds'])
        /\ Len(edges') = k
    BY <1>0, AddEdgeTyped
  <1>2. DOMAIN edges' = DOMAIN edges \cup {k}
    <2>1. DOMAIN edges' = 1 .. k
      BY <1>1
    <2> QED
      BY <1>0, <2>1, EdgesTyped
  <1>3. \A a, b : TokensIn(a, b)' = TokensIn(a, b)
    BY TokensFixed
  <1>4. ASSUME NEW i \in DOMAIN edges
        PROVE  Covers(y, edges[i])'
    <2>1. edges[i].child \in NodeIds /\ edges[i].parent \in NodeIds /\ edges'[i] = edges[i]
      BY <1>1, EdgesTyped, EdgeTyped
    <2>2. /\ gss'[edges'[i].parent].pos = gss[edges[i].parent].pos
          /\ gss'[edges'[i].child].pos = gss[edges[i].child].pos
      BY <1>1, <2>1
    <2>3. y[edges[i].label] = TokensIn(gss[edges[i].parent].pos, gss[edges[i].child].pos)
      BY DEF Covers
    <2> QED
      BY <1>3, <2>1, <2>2, <2>3 DEF Covers
  <1>5. Covers(y, edges[k])'
    <2>1. /\ gss'[edges'[k].parent].pos = gss[parent].pos
          /\ gss'[edges'[k].child].pos = p
          /\ edges'[k].label = label
      BY <1>1
    <2> QED
      BY <1>3, <2>1 DEF Covers
  <1> QED
    BY <1>2, <1>4, <1>5

\* What a shift, an empty and a long reduction have under the node they build.
LEMMA ShiftYields ==
  ASSUME IInv, StackInv, PathInv, FromStart, ShiftToken
  PROVE  /\ tok.kind \in G.terminals
         /\ <<tok.start>> = TokensIn(gss[cur.head].pos, tok.end)
         /\ gss[cur.head].pos <= tok.end
         /\ Source[tok.start + 1] = tok.kind
  <1>1. pc = "act" /\ ~AtEnd /\ job \in Jobs /\ tok \in [kind : Kinds, start : Bytes, end : Bytes]
    BY DEF ShiftToken, IInv, TypeOK, TypedIn
  <1>2. /\ PassedOver(HeadPos, tok.start) /\ HeadPos <= tok.start /\ tok.end = tok.start + 1
        /\ tok.kind \in {Source[tok.start + 1], UNKNOWN} /\ Position = HeadPos
        /\ tok.start >= StartByte
    BY <1>1, CurrentStands DEF PathInv, Scanned, Answered, FromStart, InWork
  <1>3. cur.sym \in Symbols(G) /\ cur.sym = tok.kind
    BY <1>1, EntryAt DEF ShiftToken, IInv, ControlOK, SymbolOK
  <1>4. Symbols(G) \subseteq Nat
    BY <1>1, GrammarFacts
  <1>5. tok.kind \in G.terminals
    BY <1>1, <1>3, <1>4 DEF Kinds, UNKNOWN, END
  <1>6. IsToken(tok.start) /\ Source[tok.start + 1] = tok.kind
    <2>1. Source[tok.start + 1] = tok.kind /\ tok.kind \in Nat
      BY <1>2, <1>3, <1>4 DEF UNKNOWN
    <2> QED
      BY <1>2, <2>1 DEF IsToken, NoToken, BLANK, EMPTY
  <1>7. HeadPos \in Nat /\ tok.start \in Nat /\ tok.start + 1 \in Bytes
    <2>1. Position \in Bytes
      BY StandsAt
    <2> QED
      BY <1>1, <1>2, <2>1 DEF Bytes
  <1>8. TokensIn(HeadPos, tok.start + 1) = <<tok.start>>
    BY <1>1, <1>2, <1>6, <1>7, TokenRead
  <1>9. HeadPos <= tok.end
    BY <1>2, <1>7
  <1> QED
    BY <1>2, <1>5, <1>6, <1>8, <1>9 DEF Position

LEMMA EmptyYields ==
  ASSUME IInv, GrammarsApart, ReduceEmpty
  PROVE  /\ Production.lhs \notin G.terminals
         /\ FlattenSeq(<<>>) = TokensIn(gss[cur.head].pos, Position)
  <1>1. Entry.arg \in DOMAIN G.prods /\ job \in Jobs
    BY EntryAt DEF ReduceEmpty, IInv
  <1>2. Production.lhs \notin G.terminals
    BY <1>1 DEF GrammarsApart, RulesApart, Production, G
  <1>3. Position \in Bytes /\ Position \in Nat /\ Position <= Position
    BY StandsAt DEF Bytes
  <1>4. TokensIn(Position, Position) = <<>>
    BY <1>1, <1>3, TokensStep
  <1>5. FlattenSeq(<<>>) = <<>>
    BY DEF FlattenSeq
  <1> QED
    BY <1>2, <1>4, <1>5 DEF Position

LEMMA PathYields ==
  ASSUME IInv, Framed, GrammarsApart, ReducePath, \A v \in Views : Brackets(v),
         NEW y, \A i \in DOMAIN edges : Covers(y, edges[i])
  PROVE  /\ Production.lhs \notin G.terminals
         /\ FlattenSeq([i \in DOMAIN PathKids |-> y[PathKids[i]]]) =
              TokensIn(gss[Ancestor].pos, Position)
  <1> DEFINE n == Depth
             P == [i \in 0 .. n |-> gss[frames[n + 1 - i].node].pos]
             s == [i \in DOMAIN PathKids |-> y[PathKids[i]]]
  <1>1. /\ n \in Nat \ {0} /\ Len(frames) = n + 1 /\ pc = "walk" /\ AtEntry("reduce")
        /\ \A i \in 1 .. n : frames[i].edge \in DOMAIN edges
        /\ \A i \in 1 .. n + 1 : frames[i].node \in NodeIds
    BY WalkFrames, ReduceTyped, EdgesTyped DEF ReducePath, IInv
  <1>2. /\ frames[1].node = cur.head
        /\ \A i \in 1 .. n :
             /\ edges[frames[i].edge].child = frames[i].node
             /\ edges[frames[i].edge].parent = frames[i + 1].node
    BY <1>1 DEF Framed
  <1>3. Entry.arg \in DOMAIN G.prods /\ job \in Jobs
    BY <1>1, EntryAt DEF IInv
  <1>4. Production.lhs \notin G.terminals
    BY <1>3 DEF GrammarsApart, RulesApart, Production, G
  <1>5. DOMAIN PathKids = 1 .. n /\ \A i \in 1 .. n : PathKids[i] = edges[frames[n + 1 - i].edge].label
    BY DEF PathKids
  <1>6. P \in [0 .. n -> Bytes]
    <2>1. \A i \in 0 .. n : gss[frames[n + 1 - i].node].pos \in Bytes
      <3> TAKE i \in 0 .. n
      <3>1. n + 1 - i \in 1 .. n + 1
        BY <1>1
      <3> QED
        BY <1>1, <3>1, NodeTyped DEF IInv
    <2> QED
      BY <2>1
  <1>7. ASSUME NEW i \in 1 .. n
        PROVE  P[i - 1] <= P[i] /\ s[i] = TokensIn(P[i - 1], P[i])
    <2>1. PICK j \in 1 .. n : j = n + 1 - i
      BY <1>1
    <2>2. i \in 0 .. n /\ i - 1 \in 0 .. n /\ n + 1 - (i - 1) = j + 1
      BY <1>1, <2>1
    <2>3. P[i] = gss[frames[j].node].pos /\ P[i - 1] = gss[frames[j + 1].node].pos
      BY <2>1, <2>2
    <2>4. s[i] = y[edges[frames[j].edge].label]
      BY <1>5, <2>1
    <2>5. Covers(y, edges[frames[j].edge])
      BY <1>1
    <2>6. Brackets(View(edges[frames[j].edge]))
      BY <1>1 DEF Views
    <2>7. edges[frames[j].edge].child = frames[j].node /\ edges[frames[j].edge].parent = frames[j + 1].node
      BY <1>2
    <2>8. s[i] = TokensIn(P[i - 1], P[i])
      <3> HIDE DEF s, P
      <3> QED
        BY <2>3, <2>4, <2>5, <2>7 DEF Covers
    <2>9. P[i - 1] <= P[i]
      <3> DEFINE t == tree[edges[frames[j].edge].label]
      <3>1. P[i - 1] <= t.start /\ t.start <= t.end /\ t.end = P[i]
        <4> HIDE DEF P
        <4> QED
          BY <2>3, <2>6, <2>7 DEF Brackets, View
      <3>2. t.start \in Int
        <4>1. frames[j].edge \in 1 .. Len(edges) /\ TypeOK
          BY <1>1, EdgesTyped DEF IInv
        <4>2. edges[frames[j].edge].label \in TreeIds
          BY <4>1, EdgeTyped
        <4>3. t.start \in Bytes
          BY <4>1, <4>2, TreeTyped
        <4> QED
          BY <4>3 DEF Bytes
      <3>3. P[i - 1] \in Int /\ P[i] \in Int
        <4>1. P[i - 1] \in Bytes /\ P[i] \in Bytes
          BY <1>6, <2>2
        <4> QED
          BY <4>1 DEF Bytes
      <3> HIDE DEF P, t
      <3> QED
        BY <3>1, <3>2, <3>3
    <2> QED
      BY <2>8, <2>9
  <1>8. DOMAIN s = 1 .. n /\ Len(s) = n
    BY <1>1, <1>5
  <1>9. P[0] = gss[Ancestor].pos /\ P[n] = Position
    <2>1. P[0] = gss[frames[n + 1].node].pos /\ P[n] = gss[frames[1].node].pos
      BY <1>1
    <2> QED
      BY <1>1, <1>2, <2>1 DEF Ancestor, Position
  <1> HIDE DEF P, s, n
  <1>10. FlattenSeq(s) = TokensIn(P[0], P[n])
    BY <1>1, <1>3, <1>6, <1>7, <1>8, FlattenTokens
  <1> QED
    BY <1>4, <1>9, <1>10 DEF s

LEMMA NextCovers ==
  ASSUME IInv, StackInv, PathInv, GrammarsApart, SpansBracket, FromStart, Next, Clean', NEW y, Yields(y)',
         \A i \in DOMAIN edges : Covers(y, edges[i])
  PROVE  \A i \in DOMAIN edges' : Covers(y, edges[i])'
  <1>0. Clean /\ ~Attach
    BY CleanBefore
  <1>1. job' = job /\ G' = G /\ TypeOK
    BY JobFixed DEF G, IInv
  <1>2. \A t \in TreeIds' : y[t] = YieldStep(y, t)'
    <2>1. y = [t \in TreeIds' |-> YieldStep(y, t)']
      BY DEF Yields
    <2> QED
      BY <2>1
  <1>3. CASE UNCHANGED gssVars
    <2>1. UNCHANGED <<gss, edges>>
      BY <1>3 DEF gssVars
    <2>2. \A a, b : TokensIn(a, b)' = TokensIn(a, b)
      BY <1>1, TokensFixed
    <2> QED
      BY <2>1, <2>2 DEF Covers
  <1>4. CASE ShiftToken
    <2>1. /\ cur.head \in NodeIds /\ Entry.arg \in States(G) /\ tok.end \in Bytes
          /\ tok.start \in Bytes
      <3>1. tok \in [kind : Kinds, start : Bytes, end : Bytes]
        BY <1>1 DEF TypeOK, TypedIn
      <3>2. cur.head \in NodeIds /\ Entry.arg \in States(G)
        BY <1>4, StandsAt, EntryAt DEF ShiftToken
      <3> QED
        BY <3>1, <3>2
    <2>2. /\ tok.kind \in G.terminals
          /\ <<tok.start>> = TokensIn(gss[cur.head].pos, tok.end)
      BY <1>4, ShiftYields
    <2>3. tree'[NewId] = [sym |-> tok.kind, start |-> tok.start, end |-> tok.end, kids |-> <<>>]
      BY <1>4, ShiftViews
    <2>4. TreeIds \subseteq TreeIds' /\ NewId \in TreeIds'
      <3>1. tok.kind \in Labels
        BY <1>1, <2>2, GrammarFacts DEF IInv, Labels
      <3> QED
        BY <1>1, <1>4, <2>1, <3>1, AllocTokenTyped, ArenaKept DEF ShiftToken, IInv
    <2>5. y[NewId] = TokensIn(gss[cur.head].pos, tok.end)
      <3>1. \A t \in TreeIds' : tree'[t].sym \in G.terminals => y[t] = <<tree'[t].start>>
        BY <1>1, <1>2 DEF YieldStep
      <3>2. tree'[NewId].sym = tok.kind /\ tree'[NewId].start = tok.start
        BY <2>3
      <3>3. y[NewId] = <<tree'[NewId].start>>
        BY <2>2, <2>4, <3>1, <3>2
      <3> QED
        BY <2>2, <3>2, <3>3
    <2>6. AddEdge(Entry.arg, tok.end, cur.head, NewId)
      BY <1>4 DEF ShiftToken
    <2> QED
      BY <1>1, <2>1, <2>4, <2>5, <2>6, CoversPushed
  <1>5. CASE (ReduceEmptyHead \/ FixReduceEmpty) /\ EmptyGoto # NoState
    <2>1. ReduceEmpty /\ AddEdge(EmptyGoto, Position, cur.head, NewId)
      BY <1>5 DEF ReduceEmptyHead, FixReduceEmpty
    <2>2. /\ Production.lhs \notin G.terminals
          /\ FlattenSeq(<<>>) = TokensIn(gss[cur.head].pos, Position)
      BY <2>1, EmptyYields
    <2>3. cur.head \in NodeIds /\ EmptyGoto \in States(G) /\ Position \in Bytes
      BY <1>5, StandsAt, GotoTyped DEF EmptyGoto
    <2>4. TreeIds \subseteq TreeIds' /\ NewId \in TreeIds'
      BY <1>1, <2>1, ReduceEmptyGrows, ArenaKept
    <2>5. tree'[NewId].sym = Production.lhs /\ tree'[NewId].kids = <<>>
      <3> DEFINE rec == [sym |-> Production.lhs, start |-> Position, end |-> Position, kids |-> <<>>]
      <3>1. tree' = Append(tree, rec) /\ rec.sym = Production.lhs /\ rec.kids = <<>>
        BY <2>1 DEF ReduceEmpty, AllocInternal
      <3> HIDE DEF rec
      <3>2. tree'[NewId] = rec
        BY <1>1, <3>1, NewSymbol
      <3> QED
        BY <3>1, <3>2
    <2>6. [i \in DOMAIN tree'[NewId].kids |-> y[tree'[NewId].kids[i]]] = <<>>
      BY <2>5
    <2>7. y[NewId] = FlattenSeq(<<>>)
      BY <1>1, <1>2, <2>2, <2>4, <2>5, <2>6 DEF YieldStep
    <2> QED
      BY <1>1, <2>1, <2>2, <2>3, <2>4, <2>7, CoversPushed
  <1>6. CASE ReducePath /\ PathGoto # NoState
    <2>1. \A v \in Views : Brackets(v)
      BY <1>0, SpansAreViews
    <2>2. /\ Production.lhs \notin G.terminals
          /\ FlattenSeq([i \in DOMAIN PathKids |-> y[PathKids[i]]]) = TokensIn(gss[Ancestor].pos, Position)
      BY <1>6, <2>1, PathYields DEF PathInv
    <2>3. Ancestor \in NodeIds /\ PathGoto \in States(G) /\ Position \in Bytes
      BY <1>6, PathGrows, GotoTyped DEF PathGoto
    <2>4. TreeIds \subseteq TreeIds' /\ NewId \in TreeIds'
      BY <1>6, PathGrows, ArenaKept
    <2>5. tree'[NewId].sym = Production.lhs /\ tree'[NewId].kids = PathKids
      BY <1>6, PathGrows
    <2>6. y[NewId] = FlattenSeq([i \in DOMAIN PathKids |-> y[PathKids[i]]])
      BY <1>1, <1>2, <2>2, <2>4, <2>5 DEF YieldStep
    <2>7. AddEdge(PathGoto, Position, Ancestor, NewId)
      BY <1>6 DEF ReducePath
    <2> QED
      BY <1>1, <2>2, <2>3, <2>4, <2>6, <2>7, CoversPushed
  <1> QED
    BY <1>0, <1>3, <1>4, <1>5, <1>6, PushesOnly

LEMMA NextYields ==
  ASSUME IInv, StackInv, PathInv, GrammarsApart, SpansBracket, YieldInv, Next
  PROVE  YieldInv'
  <1> SUFFICES ASSUME Clean'
               PROVE  /\ FromStart'
                      /\ \E y : Yields(y)'
                      /\ \A y : Yields(y)' => \A i \in DOMAIN edges' : Covers(y, edges[i])'
    BY DEF YieldInv
  <1>1. /\ Clean /\ FromStart /\ \E y : Yields(y)
        /\ \A y : Yields(y) => \A i \in DOMAIN edges : Covers(y, edges[i])
    BY CleanBefore DEF YieldInv
  <1>2. FromStart'
    BY <1>1, NextFromStart
  <1>3. \E y : Yields(y)'
    BY <1>1, YieldsAfter
  <1>4. ASSUME NEW y, Yields(y)'
        PROVE  \A i \in DOMAIN edges' : Covers(y, edges[i])'
    <2>1. PICK z : Yields(z) /\ \A t \in TreeIds : z[t] = y[t]
      BY <1>4, YieldsBefore
    <2>2. \A i \in DOMAIN edges : Covers(z, edges[i])
      BY <1>1, <2>1
    <2>3. \A i \in DOMAIN edges : edges[i].label \in TreeIds
      BY EdgesTyped, EdgeTyped DEF IInv
    <2>4. \A i \in DOMAIN edges : Covers(y, edges[i])
      BY <2>1, <2>2, <2>3 DEF Covers
    <2> QED
      BY <1>1, <1>4, <2>4, NextCovers
  <1> QED
    BY <1>2, <1>3, <1>4

LEMMA InitYields ==
  ASSUME Init
  PROVE  YieldInv
  <1>1. tree = <<>> /\ edges = <<>> /\ cursor = StartByte /\ pc = "lex"
    BY DEF Init
  <1>2. FromStart
    <2>1. StartByte \in Int
      <3>1. job \in Jobs
        BY DEF Init
      <3>2. JobOK(job) /\ Len(job.source) \in Nat
        BY <3>1, JobsAssumption, GrammarFacts DEF Source
      <3> QED
        BY <3>2 DEF StartByte, JobOK, Whole
    <2> QED
      BY <1>1, <2>1 DEF FromStart, InWork
  <1>3. \E y : Yields(y)
    BY <1>1 DEF Yields, TreeIds
  <1>4. \A y : \A i \in DOMAIN edges : Covers(y, edges[i])
    BY <1>1
  <1> QED
    BY <1>2, <1>3, <1>4 DEF YieldInv

LEMMA StutterYields ==
  ASSUME YieldInv, UNCHANGED vars
  PROVE  YieldInv'
  <1>1. UNCHANGED <<job, cursor, gss, edges, tree, pc, tok, errKids>>
    BY DEF vars, gssVars, treeVars, errVars
  <1>2. G' = G /\ Clean' = Clean /\ FromStart' = FromStart /\ TreeIds' = TreeIds
    BY <1>1 DEF G, Clean, FromStart, StartByte, InWork, AtEnd, TreeIds
  <1>3. \A y, t : YieldStep(y, t)' = YieldStep(y, t)
    BY <1>1, <1>2 DEF YieldStep
  <1>4. \A y : Yields(y)' <=> Yields(y)
    BY <1>2, <1>3 DEF Yields
  <1>5. \A y : \A i \in DOMAIN edges : Covers(y, edges[i])' <=> Covers(y, edges[i])
    BY <1>1, TokensFixed DEF Covers
  <1> QED
    BY <1>1, <1>2, <1>4, <1>5 DEF YieldInv

(***************************************************************************)
(* The node on every stack edge derives exactly the tokens between the     *)
(* positions of the edge's ends, in order, until an error is met: no       *)
(* interpretation loses, repeats or reorders a token of another, although  *)
(* they share the nodes of gss and of the arena.                           *)
(***************************************************************************)
THEOREM EdgeYields == GrammarsApart => (Spec => []EdgesYield)
  <1>1. Init => YieldInv
    BY InitYields
  <1>2. GrammarsApart /\ IInv /\ StackInv /\ PathInv /\ SpansBracket /\ YieldInv /\ [Next]_vars
          => GrammarsApart' /\ YieldInv'
    BY NextYields, StutterYields DEF GrammarsApart
  <1>3. YieldInv => EdgesYield
    BY InvIsEdgesYield
  <1> QED
    BY <1>1, <1>2, <1>3, Inductive, StacksInductive, PathsInductive, Spans, PTL DEF Spec

-------------------------------------------------------------------------------
(* The closure that IsSentence takes is closed.                            *)

Facts(tokens) == Names(tokens) \X Stretches(tokens)

LEMMA ValuesFinite ==
  ASSUME NEW f, IsFiniteSet(DOMAIN f)
  PROVE  IsFiniteSet({f[x] : x \in DOMAIN f})
  <1>1. PICK S, T, g : S = DOMAIN f /\ T = {f[x] : x \in DOMAIN f} /\ g = [x \in S |-> f[x]]
    OBVIOUS
  <1>2. g \in Surjection(S, T)
    BY <1>1 DEF Surjection
  <1> QED
    BY <1>1, <1>2, FS_Surjection

LEMMA FactsFinite ==
  ASSUME job \in Jobs, NEW n \in Nat, NEW tokens, DOMAIN tokens = 1 .. n, Len(tokens) = n
  PROVE  IsFiniteSet(Facts(tokens))
  <1>1. IsFiniteSet(ToSet(tokens))
    <2>1. IsFiniteSet(DOMAIN tokens)
      BY FS_Interval
    <2> QED
      BY <2>1, ValuesFinite DEF ToSet
  <1>2. IsFiniteSet(Names(tokens))
    <2>1. GrammarOK(G)
      BY GrammarFacts
    <2>2. G.symbols - 1 \in Int /\ Symbols(G) = 0 .. G.symbols - 1
      BY <2>1 DEF GrammarOK, Symbols
    <2>3. IsFiniteSet(Symbols(G))
      BY <2>2, FS_Interval
    <2>4. IsFiniteSet(ToSet(tokens) \cup Symbols(G))
      BY <1>1, <2>3, FS_Union
    <2>5. Names(tokens) \subseteq ToSet(tokens) \cup Symbols(G)
      BY <2>1 DEF GrammarOK, ProductionOK, Names
    <2> QED
      BY <2>4, <2>5, FS_Subset
  <1>3. IsFiniteSet(Stretches(tokens))
    <2>1. IsFiniteSet(0 .. n)
      BY FS_Interval
    <2>2. IsFiniteSet((0 .. n) \X (0 .. n))
      BY <2>1, FS_Product
    <2>3. Stretches(tokens) \subseteq (0 .. n) \X (0 .. n)
      BY DEF Stretches
    <2> QED
      BY <2>2, <2>3, FS_Subset
  <1> QED
    BY <1>2, <1>3, FS_Product DEF Facts

LEMMA DeducedFacts ==
  ASSUME job \in Jobs, NEW n \in Nat, NEW tokens, DOMAIN tokens = 1 .. n, Len(tokens) = n,
         NEW D \in SUBSET Facts(tokens)
  PROVE  Deduced(tokens, D) \in SUBSET Facts(tokens) /\ D \subseteq Deduced(tokens, D)
  <1>1. ASSUME NEW i \in DOMAIN tokens
        PROVE  <<tokens[i], <<i - 1, i>>>> \in Facts(tokens)
    <2>1. tokens[i] \in Names(tokens)
      BY DEF Names, ToSet
    <2>2. <<i - 1, i>> \in Stretches(tokens)
      BY DEF Stretches
    <2> QED
      BY <2>1, <2>2 DEF Facts
  <1>2. ASSUME NEW p \in DOMAIN G.prods, NEW s \in Stretches(tokens)
        PROVE  <<G.prods[p].lhs, s>> \in Facts(tokens)
    BY DEF Facts, Names
  <1> QED
    BY <1>1, <1>2 DEF Deduced

\* The sets of facts after each number of steps.
FactsStep(d, tokens, m) == IF m = 0 THEN {} ELSE Deduced(tokens, d[m - 1])
Deduces(d, tokens, n) == d = [m \in 0 .. n |-> FactsStep(d, tokens, m)]

LEMMA DeducesExist ==
  ASSUME NEW tokens, NEW n \in Nat
  PROVE  \E d : Deduces(d, tokens, n)
  <1> DEFINE S == {m \in 0 .. n : \E d : Deduces(d, tokens, m)}
  <1>1. 0 \in S
    <2> DEFINE f == [k \in 0 .. 0 |-> {}]
    <2>1. f = [k \in 0 .. 0 |-> FactsStep(f, tokens, k)]
      BY DEF FactsStep
    <2>2. Deduces(f, tokens, 0)
      BY <2>1 DEF Deduces
    <2> QED
      BY <2>2
  <1>2. ASSUME NEW m \in 0 .. n - 1, m \in S
        PROVE  m + 1 \in S
    <2>1. PICK f : Deduces(f, tokens, m)
      BY <1>2
    <2>2. \A k \in 0 .. m : f[k] = FactsStep(f, tokens, k)
      BY <2>1 DEF Deduces
    <2> DEFINE g == [k \in 0 .. m + 1 |-> IF k \in 0 .. m THEN f[k] ELSE FactsStep(f, tokens, k)]
    <2>3. \A k \in 0 .. m : g[k] = f[k]
      OBVIOUS
    <2>4. \A k \in 0 .. m + 1 : FactsStep(g, tokens, k) = FactsStep(f, tokens, k)
      <3> TAKE k \in 0 .. m + 1
      <3>1. k # 0 => k - 1 \in 0 .. m
        OBVIOUS
      <3> HIDE DEF g
      <3> QED
        BY <2>3, <3>1 DEF FactsStep
    <2>5. \A k \in 0 .. m + 1 : g[k] = FactsStep(g, tokens, k)
      <3>1. \A k \in 0 .. m + 1 : g[k] = FactsStep(f, tokens, k)
        BY <2>2
      <3> QED
        BY <2>4, <3>1
    <2>6. DOMAIN g = 0 .. m + 1 /\ g = [k \in DOMAIN g |-> g[k]]
      OBVIOUS
    <2> HIDE DEF g
    <2>7. Deduces(g, tokens, m + 1)
      BY <2>5, <2>6 DEF Deduces
    <2> QED
      BY <2>7
  <1> HIDE DEF S
  <1>3. \A m \in 0 .. n : m \in S
    BY <1>1, <1>2, Climb
  <1> QED
    BY <1>3 DEF S

\* As long as every step adds a fact, there are as many as there were steps.
LEMMA DeductionEnds ==
  ASSUME job \in Jobs, NEW l \in Nat, NEW tokens, DOMAIN tokens = 1 .. l, Len(tokens) = l,
         NEW n, n = Cardinality(Facts(tokens)), NEW d, Deduces(d, tokens, n)
  PROVE  n \in Nat /\ \E m \in 0 .. n : Deduced(tokens, d[m]) = d[m]
  <1>0. PICK F : F = Facts(tokens)
    OBVIOUS
  <1>1. IsFiniteSet(F) /\ n \in Nat
    BY <1>0, FactsFinite, FS_CardinalityType
  <1>2. d[0] = {} /\ \A m \in 0 .. n - 1 : d[m + 1] = Deduced(tokens, d[m])
    <2>1. \A m \in 0 .. n : d[m] = FactsStep(d, tokens, m)
      BY DEF Deduces
    <2>2. d[0] = {}
      BY <1>1, <2>1 DEF FactsStep
    <2>3. ASSUME NEW m \in 0 .. n - 1
          PROVE  d[m + 1] = Deduced(tokens, d[m])
      <3>1. m + 1 \in 0 .. n /\ m + 1 # 0 /\ (m + 1) - 1 = m
        BY <1>1
      <3> QED
        BY <2>1, <3>1 DEF FactsStep
    <2> QED
      BY <2>2, <2>3
  <1>3. ASSUME \A m \in 0 .. n : Deduced(tokens, d[m]) # d[m]
        PROVE  FALSE
    <2> DEFINE S == {m \in 0 .. n : d[m] \in SUBSET F /\ Cardinality(d[m]) >= m}
    <2>1. 0 \in S
      <3>1. Cardinality({}) = 0
        BY FS_EmptySet
      <3>2. d[0] \in SUBSET F /\ Cardinality(d[0]) = 0
        BY <1>2, <3>1
      <3>3. 0 \in 0 .. n
        BY <1>1
      <3> QED
        BY <3>2, <3>3
    <2>2. ASSUME NEW m \in 0 .. n - 1, m \in S
          PROVE  m + 1 \in S
      <3>1. PICK D, E : D = d[m] /\ E = d[m + 1]
        OBVIOUS
      <3>2. D \in SUBSET F /\ Cardinality(D) >= m /\ m \in 0 .. n /\ m + 1 \in 0 .. n
        BY <1>1, <2>2, <3>1
      <3>3. E = Deduced(tokens, D) /\ E # D
        BY <1>2, <1>3, <3>1, <3>2
      <3>4. E \in SUBSET F /\ D \in SUBSET E
        BY <1>0, <3>2, <3>3, DeducedFacts
      <3>5. IsFiniteSet(E)
        BY <1>1, <3>4, FS_Subset
      <3>6. Cardinality(D) <= Cardinality(E) /\ Cardinality(D) # Cardinality(E) /\ IsFiniteSet(D)
        BY <3>3, <3>4, <3>5, FS_Subset
      <3>7. Cardinality(D) \in Nat /\ Cardinality(E) \in Nat
        BY <3>5, <3>6, FS_CardinalityType
      <3>8. Cardinality(E) >= m + 1
        BY <3>2, <3>6, <3>7
      <3> QED
        BY <3>1, <3>2, <3>4, <3>8
    <2> HIDE DEF S
    <2>3. n \in S
      <3>1. \A m \in 0 .. n : m \in S
        BY <1>1, <2>1, <2>2, Climb
      <3> QED
        BY <1>1, <3>1
    <2>4. d[n] \in SUBSET F /\ Cardinality(d[n]) >= n
      BY <2>3 DEF S
    <2>5. d[n] = F
      <3>1. Cardinality(d[n]) <= Cardinality(F) /\ IsFiniteSet(d[n])
        BY <1>1, <2>4, FS_Subset
      <3>2. Cardinality(d[n]) \in Nat
        BY <3>1, FS_CardinalityType
      <3>3. Cardinality(d[n]) = Cardinality(F)
        BY <1>0, <1>1, <2>4, <3>1, <3>2
      <3> QED
        BY <1>1, <2>4, <3>3, FS_Subset
    <2>6. Deduced(tokens, d[n]) = d[n]
      BY <1>0, <2>4, <2>5, DeducedFacts
    <2> QED
      BY <1>1, <1>3, <2>6
  <1> QED
    BY <1>1, <1>3

LEMMA DerivedClosed ==
  ASSUME job \in Jobs, NEW l \in Nat, NEW tokens, DOMAIN tokens = 1 .. l, Len(tokens) = l
  PROVE  Deduced(tokens, Derived(tokens)) = Derived(tokens)
  <1> DEFINE n == Cardinality(Facts(tokens))
             d == CHOOSE d : Deduces(d, tokens, n)
  <1>1. n \in Nat
    BY FactsFinite, FS_CardinalityType
  <1>2. Deduces(d, tokens, n)
    BY <1>1, DeducesExist
  <1>3. Derived(tokens) = d[CHOOSE m \in 0 .. n : Deduced(tokens, d[m]) = d[m]]
    BY DEF Derived, Deduces, FactsStep, Facts
  <1> HIDE DEF d, n
  <1>4. \E m \in 0 .. n : Deduced(tokens, d[m]) = d[m]
    BY <1>2, DeductionEnds DEF n
  <1> QED
    BY <1>3, <1>4

-------------------------------------------------------------------------------
(* The edges of the stack, among the facts.                                *)

\* The tokens in front of byte p.
Count(p) == Len(TokensIn(0, p))

LEMMA Counted ==
  ASSUME job \in Jobs, NEW p \in Bytes, NEW q \in Bytes, p <= q
  PROVE  /\ Count(p) \in Nat /\ Count(q) \in Nat /\ Count(p) <= Count(q)
         /\ Count(q) = Count(p) + Len(TokensIn(p, q))
         /\ TokensIn(0, q) = TokensIn(0, p) \o TokensIn(p, q)
         /\ TokensIn(0, p) \in Seq(Nat) /\ TokensIn(p, q) \in Seq(Nat)
  <1>1. 0 \in Nat /\ 0 \in Bytes /\ p \in Nat /\ q \in Nat /\ 0 <= p
    BY GrammarFacts DEF Bytes
  <1>2. TokensIn(0, p) \in Seq(Nat) /\ TokensIn(p, q) \in Seq(Nat)
    BY <1>1, TokensTyped
  <1>3. TokensIn(0, q) = TokensIn(0, p) \o TokensIn(p, q)
    BY <1>1, TokensJoin
  <1>4. \A a, b \in Seq(Nat) : Len(a \o b) = Len(a) + Len(b) /\ Len(a) \in Nat /\ Len(b) \in Nat
    OBVIOUS
  <1>5. /\ Count(q) = Count(p) + Len(TokensIn(p, q))
        /\ Count(p) \in Nat /\ Len(TokensIn(p, q)) \in Nat
    BY <1>2, <1>3, <1>4 DEF Count
  <1>6. \A a, b \in Nat : a <= a + b /\ a + b \in Nat
    OBVIOUS
  <1> QED
    BY <1>2, <1>3, <1>5, <1>6

LEMMA ReadCounted ==
  ASSUME job \in Jobs
  PROVE  /\ Len(Source) \in Bytes /\ Count(Len(Source)) \in Nat
         /\ DOMAIN TokensRead = 1 .. Count(Len(Source))
         /\ Len(TokensRead) = Count(Len(Source))
  <1>1. Len(Source) \in Bytes
    BY GrammarFacts DEF Bytes
  <1>2. PICK w, n : w = TokensIn(0, Len(Source)) /\ n = Len(w)
    OBVIOUS
  <1>3. w \in Seq(Nat)
    BY <1>1, <1>2, TokensTyped
  <1>4. n \in Nat /\ DOMAIN w = 1 .. n
    BY <1>2, <1>3
  <1>5. TokensRead = [i \in 1 .. n |-> Source[w[i] + 1]]
    BY <1>2, <1>4 DEF TokensRead
  <1>6. DOMAIN TokensRead = 1 .. n /\ Len(TokensRead) = n
    BY <1>4, <1>5
  <1> QED
    BY <1>1, <1>2, <1>4, <1>6 DEF Count

\* A stretch of the source with one token.
LEMMA OneCounted ==
  ASSUME job \in Jobs, NEW p \in Bytes, NEW q \in Bytes, p <= q, NEW k, TokensIn(p, q) = <<k>>
  PROVE  /\ Count(q) = Count(p) + 1
         /\ Count(q) \in DOMAIN TokensRead
         /\ TokensRead[Count(q)] = Source[k + 1]
  <1>1. PICK e, a, b, c : e = Len(Source) /\ a = TokensIn(0, p) /\ b = TokensIn(0, q) /\ c = TokensIn(q, e)
    OBVIOUS
  <1>2. e \in Bytes /\ q <= e /\ e \in Int /\ q \in Int
    BY <1>1, GrammarFacts DEF Bytes
  <1>3. /\ Count(p) \in Nat /\ a \in Seq(Nat) /\ <<k>> \in Seq(Nat)
        /\ Count(q) = Count(p) + Len(<<k>>)
        /\ b = a \o <<k>>
    BY <1>1, Counted
  <1>4. /\ Count(q) <= Count(e) /\ b \in Seq(Nat) /\ c \in Seq(Nat)
        /\ TokensIn(0, e) = b \o c
    BY <1>1, <1>2, Counted
  <1>5. Count(q) = Count(p) + 1
    BY <1>3
  <1>6. Len(a) = Count(p) /\ Len(b) = Count(q)
    BY <1>1 DEF Count
  <1>7. b[Count(q)] = k
    BY <1>3, <1>5, <1>6
  <1>8. (b \o c)[Count(q)] = k
    BY <1>3, <1>4, <1>5, <1>6, <1>7
  <1>9. Count(q) \in DOMAIN TokensRead
    BY <1>1, <1>3, <1>4, <1>5, ReadCounted
  <1>10. TokensRead[Count(q)] = Source[TokensIn(0, e)[Count(q)] + 1]
    BY <1>1, <1>9 DEF TokensRead
  <1> QED
    BY <1>4, <1>5, <1>8, <1>9, <1>10

Closed(D) == Deduced(TokensRead, D) \subseteq D

\* What D says of a token, and of a production whose symbols it has.
LEMMA TokenHeld ==
  ASSUME NEW D, Closed(D), NEW i \in DOMAIN TokensRead
  PROVE  <<TokensRead[i], <<i - 1, i>>>> \in D
  BY DEF Closed, Deduced

LEMMA ProductionHeld ==
  ASSUME NEW D, Closed(D), NEW p \in DOMAIN G.prods, NEW s \in Stretches(TokensRead),
         Splits(G.prods[p].rhs, s, D)
  PROVE  <<G.prods[p].lhs, s>> \in D
  BY DEF Closed, Deduced

Holds(D, v) == <<v.node.sym, <<Count(v.parent.pos), Count(v.child.pos)>>>> \in D

BottomFirst == gss # <<>> /\ gss[1] = [state |-> 0, pos |-> 0]

DerivesInv ==
  /\ BottomFirst
  /\ Clean => FromStart /\ \A D : Closed(D) => \A v \in Views : Holds(D, v)

LEMMA LanguageFixed ==
  ASSUME job' = job
  PROVE  /\ \A D : Closed(D)' <=> Closed(D)
         /\ \A D, v : Holds(D, v)' <=> Holds(D, v)
  <1>1. G' = G /\ Source' = Source
    BY DEF G, Source
  <1>2. \A a, b : TokensIn(a, b)' = TokensIn(a, b)
    BY TokensFixed
  <1>3. TokensRead' = TokensRead
    BY <1>1, <1>2 DEF TokensRead
  <1>4. \A D : Deduced(TokensRead, D)' = Deduced(TokensRead, D)
    BY <1>1, <1>3 DEF Deduced
  <1>5. \A D : Closed(D)' <=> Closed(D)
    BY <1>4 DEF Closed
  <1>6. \A p : Count(p)' = Count(p)
    BY <1>2 DEF Count
  <1>7. \A D, v : Holds(D, v)' <=> Holds(D, v)
    BY <1>6 DEF Holds
  <1> QED
    BY <1>5, <1>7

LEMMA NextBottom ==
  ASSUME IInv, Next, BottomFirst
  PROVE  BottomFirst'
  <1>1. gss \in Seq([state : States(G), pos : Bytes])
    BY DEF IInv, TypeOK, TypedIn
  <1>2. \/ gss' = gss
        \/ \E s, p : gss' = Append(gss, [state |-> s, pos |-> p])
    <2>1. CASE UNCHANGED gssVars
      BY <2>1 DEF gssVars
    <2>2. ASSUME NEW s, NEW p, NEW parent, NEW label, AddEdge(s, p, parent, label)
          PROVE  gss' = gss \/ gss' = Append(gss, [state |-> s, pos |-> p])
      BY <2>2 DEF AddEdge
    <2> QED
      BY <2>1, <2>2, PushesOnly DEF ShiftToken, ReduceEmptyHead, FixReduceEmpty, ReducePath, Attach
  <1>3. ASSUME NEW s, NEW p, gss' = Append(gss, [state |-> s, pos |-> p])
        PROVE  BottomFirst'
    <2>1. PICK z, r, n : z = gss' /\ r = [state |-> s, pos |-> p] /\ n = Len(gss)
      OBVIOUS
    <2>2. n \in Nat /\ n >= 1 /\ DOMAIN gss = 1 .. n
      BY <1>1, <2>1 DEF BottomFirst
    <2>3. z = Append(gss, r)
      BY <1>3, <2>1
    <2>4. z[1] = gss[1] /\ z # <<>>
      BY <1>1, <2>1, <2>2, <2>3
    <2> QED
      BY <2>1, <2>4 DEF BottomFirst
  <1> QED
    BY <1>2, <1>3 DEF BottomFirst

LEMMA ShiftHolds ==
  ASSUME IInv, StackInv, PathInv, FromStart, ShiftToken, NEW D, Closed(D)
  PROVE  <<tok.kind, <<Count(gss[cur.head].pos), Count(tok.end)>>>> \in D
  <1>1. /\ <<tok.start>> = TokensIn(gss[cur.head].pos, tok.end)
        /\ gss[cur.head].pos <= tok.end
        /\ Source[tok.start + 1] = tok.kind
    BY ShiftYields
  <1>2. job \in Jobs /\ tok.end \in Bytes
    BY DEF IInv, TypeOK, TypedIn
  <1>3. gss[cur.head].pos \in Bytes
    BY StandsAt DEF Position
  <1>4. PICK i, j : i = Count(gss[cur.head].pos) /\ j = Count(tok.end)
    OBVIOUS
  <1>5. j = i + 1 /\ j \in DOMAIN TokensRead /\ TokensRead[j] = tok.kind
    BY <1>1, <1>2, <1>3, <1>4, OneCounted
  <1>6. i \in Nat
    BY <1>1, <1>2, <1>3, <1>4, Counted
  <1>7. <<TokensRead[j], <<j - 1, j>>>> \in D
    BY <1>5, TokenHeld
  <1>8. j - 1 = i
    BY <1>5, <1>6
  <1> QED
    BY <1>4, <1>5, <1>7, <1>8

LEMMA CutsIn ==
  ASSUME job \in Jobs, NEW p \in Bytes, NEW q \in Bytes, p <= q
  PROVE  <<Count(p), Count(q)>> \in Stretches(TokensRead)
  <1>1. PICK e : e = Len(Source)
    OBVIOUS
  <1>2. e \in Bytes /\ q <= e
    BY <1>1, GrammarFacts DEF Bytes
  <1>3. Count(p) \in Nat /\ Count(q) \in Nat /\ Count(p) <= Count(q)
    BY Counted
  <1>4. Count(q) <= Count(e) /\ Count(e) \in Nat /\ Len(TokensRead) = Count(e)
    BY <1>1, <1>2, Counted, ReadCounted
  <1> QED
    BY <1>3, <1>4 DEF Stretches

LEMMA EmptyHolds ==
  ASSUME IInv, ReduceEmpty, NEW D, Closed(D)
  PROVE  <<Production.lhs, <<Count(Position), Count(Position)>>>> \in D
  <1>1. Entry.arg \in DOMAIN G.prods /\ job \in Jobs /\ Production = G.prods[Entry.arg]
    BY EntryAt DEF ReduceEmpty, IInv, Production
  <1>2. Position \in Bytes /\ Position <= Position
    BY StandsAt DEF Bytes
  <1>3. PICK s, i, rhs : i = Count(Position) /\ s = <<i, i>> /\ rhs = Production.rhs
    OBVIOUS
  <1>4. s \in Stretches(TokensRead) /\ i \in Nat
    BY <1>1, <1>2, <1>3, CutsIn, Counted
  <1>5. Len(rhs) = 0
    BY <1>3 DEF ReduceEmpty, Depth
  <1>6. Splits(rhs, s, D)
    <2> DEFINE c == [k \in 0 .. 0 |-> i]
    <2>1. /\ c \in [0 .. Len(rhs) -> s[1] .. s[2]]
          /\ c[0] = s[1] /\ c[Len(rhs)] = s[2]
          /\ \A k \in 1 .. Len(rhs) : <<rhs[k], <<c[k - 1], c[k]>>>> \in D
      BY <1>3, <1>4, <1>5
    <2> QED
      BY <2>1 DEF Splits
  <1> QED
    BY <1>1, <1>3, <1>4, <1>6, ProductionHeld

\* Stretches of the source in a row, each read as a symbol of the right side.
LEMMA RowSplits ==
  ASSUME job \in Jobs, NEW n \in Nat \ {0}, NEW P \in [0 .. n -> Bytes],
         \A i \in 1 .. n : P[i - 1] <= P[i],
         NEW rhs, Len(rhs) = n, NEW D,
         \A i \in 1 .. n : <<rhs[i], <<Count(P[i - 1]), Count(P[i])>>>> \in D
  PROVE  P[0] <= P[n] /\ Splits(rhs, <<Count(P[0]), Count(P[n])>>, D)
  <1>1. \A i \in 0 .. n : P[i] \in Bytes /\ P[i] \in Int
    BY DEF Bytes
  <1>2. \A i \in 0 .. n : P[0] <= P[i]
    <2> DEFINE S == {i \in 0 .. n : P[0] <= P[i]}
    <2>1. 0 \in S
      BY <1>1
    <2>2. ASSUME NEW i \in 0 .. n - 1, i \in S
          PROVE  i + 1 \in S
      <3>1. i + 1 \in 1 .. n /\ (i + 1) - 1 = i /\ i \in 0 .. n /\ i + 1 \in 0 .. n /\ 0 \in 0 .. n
        OBVIOUS
      <3>2. P[i] <= P[i + 1]
        BY <3>1
      <3> QED
        BY <1>1, <2>2, <3>1, <3>2
    <2> HIDE DEF S
    <2>3. \A i \in 0 .. n : i \in S
      BY <2>1, <2>2, Climb
    <2> QED
      BY <2>3 DEF S
  <1>3. \A i \in 0 .. n : P[i] <= P[n]
    <2> DEFINE S == {j \in 0 .. n : P[n - j] <= P[n]}
    <2>1. 0 \in S
      BY <1>1
    <2>2. ASSUME NEW j \in 0 .. n - 1, j \in S
          PROVE  j + 1 \in S
      <3>1. PICK i \in 1 .. n : i = n - j
        OBVIOUS
      <3>2. n - (j + 1) = i - 1 /\ i - 1 \in 0 .. n /\ i \in 0 .. n /\ j + 1 \in 0 .. n /\ n \in 0 .. n
        BY <3>1
      <3>3. P[i - 1] <= P[i] /\ P[i] <= P[n]
        BY <2>2, <3>1
      <3>4. P[i - 1] <= P[n]
        BY <1>1, <3>2, <3>3
      <3> QED
        BY <3>2, <3>4
    <2> HIDE DEF S
    <2>3. \A j \in 0 .. n : j \in S
      BY <2>1, <2>2, Climb
    <2>4. ASSUME NEW i \in 0 .. n
          PROVE  P[i] <= P[n]
      <3>1. n - i \in 0 .. n /\ n - (n - i) = i
        OBVIOUS
      <3>2. P[n - (n - i)] <= P[n]
        BY <2>3, <3>1 DEF S
      <3> QED
        BY <3>1, <3>2
    <2> QED
      BY <2>4
  <1>4. PICK c : c = [k \in 0 .. n |-> Count(P[k])]
    OBVIOUS
  <1>5. \A k \in 0 .. n : c[k] \in Count(P[0]) .. Count(P[n])
    <2> TAKE k \in 0 .. n
    <2>1. P[0] \in Bytes /\ P[n] \in Bytes /\ P[k] \in Bytes /\ P[0] <= P[k] /\ P[k] <= P[n]
      BY <1>1, <1>2, <1>3
    <2>2. /\ Count(P[0]) \in Nat /\ Count(P[k]) \in Nat /\ Count(P[n]) \in Nat
          /\ Count(P[0]) <= Count(P[k]) /\ Count(P[k]) <= Count(P[n])
      BY <2>1, Counted
    <2>3. c[k] = Count(P[k])
      BY <1>4
    <2> QED
      BY <2>2, <2>3
  <1>6. c \in [0 .. n -> Count(P[0]) .. Count(P[n])]
    BY <1>4, <1>5
  <1>7. c[0] = Count(P[0]) /\ c[n] = Count(P[n])
    BY <1>4
  <1>8. \A k \in 1 .. n : <<rhs[k], <<c[k - 1], c[k]>>>> \in D
    <2> TAKE k \in 1 .. n
    <2>1. k \in 0 .. n /\ k - 1 \in 0 .. n
      OBVIOUS
    <2>2. c[k] = Count(P[k]) /\ c[k - 1] = Count(P[k - 1])
      BY <1>4, <2>1
    <2> QED
      BY <2>2
  <1>9. Splits(rhs, <<Count(P[0]), Count(P[n])>>, D)
    BY <1>6, <1>7, <1>8 DEF Splits
  <1> QED
    BY <1>2, <1>9

LEMMA PathHolds ==
  ASSUME IInv, Framed, TablesSpell, ReducePath, \A v \in Views : Brackets(v),
         \A v \in Views : Moves(G, v.parent.state, v.node.sym, v.child.state),
         NEW D, Closed(D), \A v \in Views : Holds(D, v)
  PROVE  <<Production.lhs, <<Count(gss[Ancestor].pos), Count(Position)>>>> \in D
  <1> DEFINE n == Depth
             P == [i \in 0 .. n |-> gss[frames[n + 1 - i].node].pos]
  <1>1. /\ n \in Nat \ {0} /\ Len(frames) = n + 1 /\ pc = "walk" /\ AtEntry("reduce")
        /\ \A i \in 1 .. n : frames[i].edge \in DOMAIN edges
        /\ \A i \in 1 .. n + 1 : frames[i].node \in NodeIds
    BY WalkFrames, ReduceTyped, EdgesTyped DEF ReducePath, IInv
  <1>2. /\ frames[1].node = cur.head
        /\ \A i \in 1 .. n :
             /\ edges[frames[i].edge].child = frames[i].node
             /\ edges[frames[i].edge].parent = frames[i + 1].node
    BY <1>1 DEF Framed
  <1>3. Entry.arg \in DOMAIN G.prods /\ job \in Jobs /\ Production = G.prods[Entry.arg]
    BY <1>1, EntryAt DEF IInv, Production
  <1>4. /\ DOMAIN PathKids = 1 .. n
        /\ \A i \in 1 .. n : PathKids[i] = edges[frames[n + 1 - i].edge].label
    BY DEF PathKids
  <1>5. P \in [0 .. n -> Bytes]
    <2>1. \A i \in 0 .. n : gss[frames[n + 1 - i].node].pos \in Bytes
      <3> TAKE i \in 0 .. n
      <3>1. n + 1 - i \in 1 .. n + 1
        BY <1>1
      <3> QED
        BY <1>1, <3>1, NodeTyped DEF IInv
    <2> QED
      BY <2>1
  <1>6. PICK rhs : rhs = Production.rhs
    OBVIOUS
  <1>7. rhs = [i \in DOMAIN PathKids |-> tree[PathKids[i]].sym] /\ Len(rhs) = n
    BY <1>6, KidsSpell DEF Depth
  <1>8. ASSUME NEW i \in 1 .. n
        PROVE  P[i - 1] <= P[i] /\ <<rhs[i], <<Count(P[i - 1]), Count(P[i])>>>> \in D
    <2>1. PICK j \in 1 .. n : j = n + 1 - i
      BY <1>1
    <2>2. i \in 0 .. n /\ i - 1 \in 0 .. n /\ n + 1 - (i - 1) = j + 1
      BY <1>1, <2>1
    <2>3. P[i] = gss[frames[j].node].pos /\ P[i - 1] = gss[frames[j + 1].node].pos
      BY <2>1, <2>2
    <2>4. PICK v : v = View(edges[frames[j].edge])
      OBVIOUS
    <2>5. v \in Views
      BY <1>1, <2>4 DEF Views
    <2>6. /\ v.parent.pos = P[i - 1] /\ v.child.pos = P[i]
          /\ v.node = tree[edges[frames[j].edge].label]
      <3> HIDE DEF P
      <3> QED
        BY <1>2, <2>3, <2>4 DEF View
    <2>7. rhs[i] = v.node.sym
      BY <1>4, <1>7, <2>1, <2>6
    <2>8. <<rhs[i], <<Count(P[i - 1]), Count(P[i])>>>> \in D
      <3>1. Holds(D, v)
        BY <2>5
      <3> HIDE DEF P
      <3> QED
        BY <2>6, <2>7, <3>1 DEF Holds
    <2>9. P[i - 1] <= P[i]
      <3>1. v.parent.pos <= v.node.start /\ v.node.start <= v.node.end /\ v.node.end = v.child.pos
        BY <2>5 DEF Brackets
      <3>2. v.node.start \in Int
        <4>1. frames[j].edge \in 1 .. Len(edges) /\ TypeOK
          BY <1>1, EdgesTyped DEF IInv
        <4>2. edges[frames[j].edge].label \in TreeIds
          BY <4>1, EdgeTyped
        <4>3. v.node.start \in Bytes
          BY <2>6, <4>1, <4>2, TreeTyped
        <4> QED
          BY <4>3 DEF Bytes
      <3>3. P[i - 1] \in Int /\ P[i] \in Int
        <4>1. P[i - 1] \in Bytes /\ P[i] \in Bytes
          BY <1>5, <2>2
        <4> QED
          BY <4>1 DEF Bytes
      <3> HIDE DEF P
      <3> QED
        BY <2>6, <3>1, <3>2, <3>3
    <2> QED
      BY <2>8, <2>9
  <1>9. P[0] = gss[Ancestor].pos /\ P[n] = Position
    <2>1. P[0] = gss[frames[n + 1].node].pos /\ P[n] = gss[frames[1].node].pos
      BY <1>1
    <2> QED
      BY <1>1, <1>2, <2>1 DEF Ancestor, Position
  <1> HIDE DEF P, n
  <1>10. P[0] <= P[n] /\ Splits(rhs, <<Count(P[0]), Count(P[n])>>, D)
    BY <1>1, <1>3, <1>5, <1>7, <1>8, RowSplits
  <1>11. <<Count(P[0]), Count(P[n])>> \in Stretches(TokensRead)
    <2>1. P[0] \in Bytes /\ P[n] \in Bytes
      BY <1>1, <1>5
    <2> QED
      BY <1>3, <1>10, <2>1, CutsIn
  <1> QED
    BY <1>3, <1>6, <1>9, <1>10, <1>11, ProductionHeld

LEMMA NextHolds ==
  ASSUME IInv, StackInv, PathInv, TablesSpell, SpansBracket, Spelling, FromStart, Next, Clean',
         NEW D, Closed(D), \A v \in Views : Holds(D, v)
  PROVE  \A v \in Views' : Holds(D, v)
  <1>0. Clean /\ ~Attach
    BY CleanBefore
  <1>1. \A v \in Views : Brackets(v)
    BY <1>0, SpansAreViews
  <1>2. \A v \in Views : Moves(G, v.parent.state, v.node.sym, v.child.state)
    BY <1>0 DEF Spelling
  <1>3. CASE UNCHANGED gssVars
    <2>1. Views' = Views
      BY <1>3, ArenaOnly, ViewsKept DEF IInv
    <2> QED
      BY <2>1
  <1>4. ASSUME NEW s, NEW p, NEW parent,
               Views' = Views \cup {[child |-> [state |-> s, pos |-> p], parent |-> parent,
                                     node |-> tree'[NewId]]},
               <<tree'[NewId].sym, <<Count(parent.pos), Count(p)>>>> \in D
        PROVE  \A v \in Views' : Holds(D, v)
    <2>1. PICK w : w = [child |-> [state |-> s, pos |-> p], parent |-> parent, node |-> tree'[NewId]]
      OBVIOUS
    <2>2. w.child.pos = p /\ w.parent = parent /\ w.node = tree'[NewId]
      BY <2>1
    <2>3. Holds(D, w)
      BY <1>4, <2>2 DEF Holds
    <2> QED
      BY <1>4, <2>1, <2>3
  <1>5. CASE ShiftToken
    <2>1. <<tok.kind, <<Count(gss[cur.head].pos), Count(tok.end)>>>> \in D
      BY <1>5, ShiftHolds
    <2>2. tree'[NewId].sym = tok.kind
      BY <1>5, ShiftViews
    <2>3. Views' = Views \cup {[child |-> [state |-> Entry.arg, pos |-> tok.end],
                                parent |-> gss[cur.head], node |-> tree'[NewId]]}
      BY <1>5, ShiftViews
    <2> QED
      BY <1>4, <2>1, <2>2, <2>3
  <1>6. CASE (ReduceEmptyHead \/ FixReduceEmpty) /\ EmptyGoto # NoState
    <2>1. ReduceEmpty /\ AddEdge(EmptyGoto, Position, cur.head, NewId) /\ UNCHANGED job
      BY <1>6 DEF ReduceEmptyHead, FixReduceEmpty
    <2>2. <<Production.lhs, <<Count(Position), Count(Position)>>>> \in D
      BY <2>1, EmptyHolds
    <2>3. /\ Views' = Views \cup {[child |-> [state |-> EmptyGoto, pos |-> Position],
                                   parent |-> gss[cur.head], node |-> tree'[NewId]]}
          /\ tree'[NewId].sym = Production.lhs
      BY <1>6, <2>1, EmptyViews
    <2>4. gss[cur.head].pos = Position
      BY DEF Position
    <2> QED
      BY <1>4, <2>2, <2>3, <2>4
  <1>7. CASE ReducePath /\ PathGoto # NoState
    <2>1. <<Production.lhs, <<Count(gss[Ancestor].pos), Count(Position)>>>> \in D
      BY <1>1, <1>2, <1>7, PathHolds DEF PathInv
    <2>2. tree'[NewId].sym = Production.lhs
      BY <1>7, PathGrows
    <2>3. Views' = Views \cup {[child |-> [state |-> PathGoto, pos |-> Position],
                                parent |-> gss[Ancestor], node |-> tree'[NewId]]}
      BY <1>7, PathViews
    <2> QED
      BY <1>4, <2>1, <2>2, <2>3
  <1> QED
    BY <1>0, <1>3, <1>5, <1>6, <1>7, PushesOnly

LEMMA NextDerives ==
  ASSUME IInv, StackInv, PathInv, TablesSpell, SpansBracket, Spelling, DerivesInv, Next
  PROVE  DerivesInv'
  <1>1. BottomFirst'
    BY NextBottom DEF DerivesInv
  <1>2. ASSUME Clean'
        PROVE  FromStart' /\ \A D : Closed(D)' => \A v \in Views' : Holds(D, v)'
    <2>1. Clean /\ FromStart /\ \A D : Closed(D) => \A v \in Views : Holds(D, v)
      BY <1>2, CleanBefore DEF DerivesInv
    <2>2. FromStart'
      BY <1>2, <2>1, NextFromStart
    <2>3. /\ \A D : Closed(D)' <=> Closed(D)
          /\ \A D, v : Holds(D, v)' <=> Holds(D, v)
      BY JobFixed, LanguageFixed
    <2>4. ASSUME NEW D, Closed(D)
          PROVE  \A v \in Views' : Holds(D, v)
      <3>1. \A v \in Views : Holds(D, v)
        BY <2>1, <2>4
      <3> QED
        BY <1>2, <2>1, <2>4, <3>1, NextHolds
    <2> QED
      BY <2>2, <2>3, <2>4
  <1> QED
    BY <1>1, <1>2 DEF DerivesInv

LEMMA InitDerives ==
  ASSUME Init
  PROVE  DerivesInv
  <1>1. BottomFirst
    BY DEF Init, BottomFirst
  <1>2. Clean => FromStart
    BY InitYields DEF YieldInv
  <1>3. Views = {}
    BY DEF Init, Views
  <1> QED
    BY <1>1, <1>2, <1>3 DEF DerivesInv

LEMMA StutterDerives ==
  ASSUME DerivesInv, UNCHANGED vars
  PROVE  DerivesInv'
  <1>1. UNCHANGED <<job, cursor, gss, edges, tree, pc, tok, errKids>>
    BY DEF vars, gssVars, treeVars, errVars
  <1>2. Clean' = Clean /\ FromStart' = FromStart /\ Views' = Views /\ BottomFirst' = BottomFirst
    BY <1>1 DEF Clean, FromStart, StartByte, InWork, AtEnd, Views, View, BottomFirst
  <1>3. /\ \A D : Closed(D)' <=> Closed(D)
        /\ \A D, v : Holds(D, v)' <=> Holds(D, v)
    BY <1>1, LanguageFixed
  <1> QED
    BY <1>2, <1>3 DEF DerivesInv

\* An edge from the bottom over all tokens is a derivation of all of them.
LEMMA DerivesAccept ==
  ASSUME IInv, DerivesInv
  PROVE  NoFalseAccept
  <1> SUFFICES ASSUME Clean, NEW i \in Spanning
               PROVE  InLanguage
    BY DEF NoFalseAccept
  <1>1. /\ i \in DOMAIN edges /\ edges[i].parent = 1
        /\ TokensIn(gss[edges[i].child].pos, Len(Source)) = <<>>
        /\ tree[edges[i].label].sym = StartSymbol
    BY DEF Spanning
  <1>2. job \in Jobs /\ TypeOK
    BY DEF IInv
  <1>3. PICK e, q : e = Len(Source) /\ q = gss[edges[i].child].pos
    OBVIOUS
  <1>4. e \in Bytes /\ q \in Bytes /\ q <= e /\ 0 \in Bytes
    <2>1. edges[i].child \in NodeIds
      BY <1>1, <1>2, EdgesTyped, EdgeTyped
    <2>2. q \in Bytes
      BY <1>2, <1>3, <2>1, NodeTyped
    <2>3. e \in Nat /\ Bytes = 0 .. e
      BY <1>2, <1>3, GrammarFacts DEF Bytes
    <2> QED
      BY <2>2, <2>3
  <1>5. Count(e) = Count(q) /\ Count(0) = 0
    <2>1. Count(e) = Count(q) + Len(TokensIn(q, e)) /\ Count(q) \in Nat
      BY <1>2, <1>4, Counted
    <2>2. TokensIn(0, 0) = <<>>
      BY <1>2, <1>4, TokensStep
    <2>3. TokensIn(q, e) = <<>>
      BY <1>1, <1>3
    <2> QED
      BY <2>1, <2>2, <2>3 DEF Count
  <1>6. PICK D : D = Derived(TokensRead)
    OBVIOUS
  <1>7. Closed(D)
    <2>1. /\ Count(e) \in Nat /\ DOMAIN TokensRead = 1 .. Count(e)
          /\ Len(TokensRead) = Count(e)
      BY <1>2, <1>3, ReadCounted
    <2>2. Deduced(TokensRead, Derived(TokensRead)) = Derived(TokensRead)
      BY <1>2, <2>1, DerivedClosed
    <2> QED
      BY <1>6, <2>2 DEF Closed
  <1>8. Holds(D, View(edges[i]))
    <2>1. View(edges[i]) \in Views
      BY <1>1 DEF Views
    <2> QED
      BY <1>7, <2>1 DEF DerivesInv
  <1>9. <<StartSymbol, <<Count(0), Count(q)>>>> \in D
    <2>1. gss[1].pos = 0
      BY DEF DerivesInv, BottomFirst
    <2>2. /\ View(edges[i]).parent.pos = 0 /\ View(edges[i]).child.pos = q
          /\ View(edges[i]).node.sym = StartSymbol
      BY <1>1, <1>3, <2>1 DEF View
    <2> QED
      BY <1>8, <2>2 DEF Holds
  <1>10. Len(TokensRead) = Count(q)
    BY <1>2, <1>3, <1>5, ReadCounted
  <1> QED
    BY <1>5, <1>6, <1>9, <1>10 DEF InLanguage, IsSentence

(***************************************************************************)
(* What the engine reduces to the start symbol without an error is a       *)
(* sentence of its grammar: whatever stacks are merged and nodes shared,   *)
(* every edge stands for a derivation of the tokens it spans, so that the  *)
(* parse invents nothing.  The tables have to spell the right sides.       *)
(***************************************************************************)
THEOREM Soundness == TablesSpell => (Spec => []NoFalseAccept)
  <1>1. Init => Spelling /\ DerivesInv
    BY InitDerives DEF Init, Spelling, Views
  <1>2. TablesSpell /\ IInv /\ StackInv /\ PathInv /\ SpansBracket /\ Spelling /\ DerivesInv
          /\ [Next]_vars => TablesSpell' /\ Spelling' /\ DerivesInv'
    BY NextSpelling, NextDerives, StutterNodes, StutterDerives DEF TablesSpell
  <1>3. IInv /\ DerivesInv => NoFalseAccept
    BY DerivesAccept
  <1> QED
    BY <1>1, <1>2, <1>3, Inductive, StacksInductive, PathsInductive, Spans, PTL DEF Spec
=============================================================================
