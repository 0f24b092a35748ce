---------------------------- MODULE CalculusProofs ----------------------------
(***************************************************************************)
(* Proof that the engine implements the calculus of generalised LR         *)
(* parsing, for every grammar, source, edit and abort, and proofs about    *)
(* try_error_recovery_impl: where the parse resumes, and with which heads. *)
(***************************************************************************)
EXTENDS EngineProofs

-------------------------------------------------------------------------------
(***************************************************************************)
(* The invariant, on top of those of EngineProofs.  The calculus asks of   *)
(* an edge where its path and its token come from, which the engine knows  *)
(* only from what it did before.                                           *)
(***************************************************************************)

\* Every node was pushed, but the bottom.
Rooted ==
  \A n \in NodeIds :
    gss[n] = [state |-> 0, pos |-> 0] \/ \E i \in DOMAIN edges : edges[i].child = n

\* The frames of an ancestor walk are a path of edges from the head upwards.
Framed ==
  pc = "walk" =>
    /\ frames[1].node = cur.head
    /\ \A i \in 1 .. Len(frames) - 1 :
         /\ edges[frames[i].edge].child = frames[i].node
         /\ edges[frames[i].edge].parent = frames[i + 1].node

\* Only bytes that carry no token, and those before an edit, lie in [p, q).
PassedOver(p, q) == \A b \in p .. q - 1 : Source[b + 1] \in NoToken \/ b < job.from

\* The token in hand is the one at its byte, or the lexer did not know it.
Answered == tok.start < Len(Source) /\ tok.kind \in {Source[tok.start + 1], UNKNOWN}

\* No token lies between the heads and the one in hand.
Scanned ==
  /\ pc = "lex" => PassedOver(HeadPos, cursor)
  /\ (InWork \/ pc = "fix") /\ ~AtEnd =>
       /\ PassedOver(HeadPos, tok.start)
       /\ HeadPos <= tok.start
       /\ tok.end = tok.start + 1
       /\ Answered
  /\ pc = "attach" => Answered /\ tree[Len(tree)].sym = ERROR

PathInv == Rooted /\ Framed /\ Scanned

-------------------------------------------------------------------------------
(* What the types say of edges and trees.                                  *)

LEMMA TreeTyped ==
  ASSUME TypeOK, NEW t \in TreeIds
  PROVE  /\ tree[t].sym \in Labels /\ tree[t].start \in Bytes /\ tree[t].end \in Bytes
         /\ tree[t].kids \in Seq(TreeIds)
  <1> DEFINE TreeRec == [sym : Labels, start : Bytes, end : Bytes, kids : Seq(TreeIds)]
  <1>1. tree \in Seq(TreeRec)
    BY DEF TypeOK, TypedIn
  <1>2. tree[t] \in TreeRec
    <2> HIDE DEF TreeRec
    <2> QED
      BY <1>1, SeqElement DEF TreeIds
  <1> QED
    BY <1>2

LEMMA EdgesTyped ==
  ASSUME TypeOK
  PROVE  Len(edges) \in Nat /\ DOMAIN edges = 1 .. Len(edges)
  <1>1. edges \in Seq([child : NodeIds, parent : NodeIds, label : TreeIds])
    BY DEF TypeOK, TypedIn
  <1> QED
    BY <1>1

-------------------------------------------------------------------------------
(* The stack as the calculus sees it.                                      *)

\* Nodes, edges and trees stay what they are when there are more of them.
LEMMA KeysKept ==
  ASSUME TypeOK, NEW i \in DOMAIN edges,
         \A n \in NodeIds : gss'[n] = gss[n],
         \A t \in TreeIds : tree'[t] = tree[t],
         edges'[i] = edges[i]
  PROVE  KeyOf(edges[i])' = KeyOf(edges[i])
  <1>1. edges[i].child \in NodeIds /\ edges[i].parent \in NodeIds /\ edges[i].label \in TreeIds
    BY EdgesTyped, EdgeTyped
  <1> QED
    BY <1>1 DEF KeyOf

LEMMA StackKept ==
  ASSUME TypeOK, UNCHANGED gssVars, \A t \in TreeIds : tree'[t] = tree[t]
  PROVE  StackOf' = StackOf
  <1>1. UNCHANGED <<gss, edges>>
    BY DEF gssVars
  <1>2. \A i \in DOMAIN edges : KeyOf(edges[i])' = KeyOf(edges[i])
    BY <1>1, KeysKept
  <1> QED
    BY <1>1, <1>2 DEF StackOf

LEMMA StackPushed ==
  ASSUME TypeOK, NEW s \in States(G), NEW p \in Bytes, NEW parent \in NodeIds,
         NEW label \in TreeIds', TreeIds \subseteq TreeIds',
         \A t \in TreeIds : tree'[t] = tree[t],
         AddEdge(s, p, parent, label)
  PROVE  StackOf' = StackOf \cup {[child  |-> [state |-> s, pos |-> p],
                                   parent |-> gss[parent],
                                   sym    |-> tree'[label].sym]}
  <1> DEFINE new == [child |-> [state |-> s, pos |-> p], parent |-> gss[parent],
                     sym |-> tree'[label].sym]
  <1>0. PICK k \in Nat : k = Len(edges) + 1
    BY EdgesTyped
  <1>1. /\ \A n \in NodeIds : gss'[n] = gss[n]
        /\ gss'[NodeAt(s, p)] = [state |-> s, pos |-> p]
        /\ Len(edges) \in Nat
        /\ Len(edges') = k
        /\ \A i \in DOMAIN edges : edges'[i] = edges[i]
        /\ edges'[k] = [child |-> NodeAt(s, p), parent |-> parent, label |-> label]
        /\ DOMAIN edges' = 1 .. k
    <2>1. /\ \A n \in NodeIds : gss'[n] = gss[n]
          /\ gss'[NodeAt(s, p)] = [state |-> s, pos |-> p]
          /\ edges' \in Seq([child : NodeIds', parent : NodeIds', label : TreeIds'])
          /\ Len(edges) \in Nat
          /\ Len(edges') = k
          /\ \A i \in DOMAIN edges : edges'[i] = edges[i]
          /\ edges'[k] = [child |-> NodeAt(s, p), parent |-> parent, label |-> label]
      BY <1>0, AddEdgeTyped
    <2>2. DOMAIN edges' = 1 .. Len(edges')
      BY <2>1
    <2> QED
      BY <2>1, <2>2
  <1>2. DOMAIN edges' = DOMAIN edges \cup {k}
    BY <1>0, <1>1, EdgesTyped
  <1>3. \A i \in DOMAIN edges : KeyOf(edges[i])' = KeyOf(edges[i])
    BY <1>1, KeysKept
  <1>4. KeyOf(edges[k])' = new
    BY <1>1 DEF KeyOf
  <1> HIDE DEF new
  <1>5. StackOf' = {KeyOf(edges[i])' : i \in DOMAIN edges'}
    BY DEF StackOf
  <1>6. StackOf' = StackOf \cup {new}
    BY <1>2, <1>3, <1>4, <1>5 DEF StackOf
  <1> QED
    BY <1>6 DEF new

LEMMA RootedKept ==
  ASSUME Rooted, UNCHANGED gssVars
  PROVE  Rooted'
  BY DEF Rooted, NodeIds, gssVars

\* A node that is new is the child of the edge that was added with it.
LEMMA RootedPushed ==
  ASSUME TypeOK, NEW s \in States(G), NEW p \in Bytes, NEW parent, NEW label,
         AddEdge(s, p, parent, label)
  PROVE  Rooted => Rooted'
  <1> DEFINE new == [child |-> NodeAt(s, p), parent |-> parent, label |-> label]
  <1>0. PICK k \in Nat : k = Len(edges) + 1
    BY EdgesTyped
  <1>1. /\ \A n \in NodeIds : gss'[n] = gss[n]
        /\ \A i \in DOMAIN edges : i \in DOMAIN edges' /\ edges'[i] = edges[i]
        /\ k \in DOMAIN edges'
        /\ edges'[k].child = NodeAt(s, p)
    <2>1. edges \in Seq([child : NodeIds, parent : NodeIds, label : TreeIds])
      BY DEF TypeOK, TypedIn
    <2>2. edges' = Append(edges, new) /\ new.child = NodeAt(s, p)
      BY DEF AddEdge
    <2> HIDE DEF new
    <2>3. /\ DOMAIN edges' = DOMAIN edges \cup {k}
          /\ \A i \in DOMAIN edges : edges'[i] = edges[i]
          /\ edges'[k] = new
      BY <1>0, <2>1, <2>2, Appended
    <2> QED
      BY <2>2, <2>3, EdgeStands
  <1>2. NodeIds' \subseteq NodeIds \cup {NodeAt(s, p)}
    <2>1. gss \in Seq([state : States(G), pos : Bytes])
      BY DEF TypeOK, TypedIn
    <2>2. CASE NodeAt(s, p) \in DOMAIN gss
      BY <2>2 DEF AddEdge, NodeIds
    <2>3. CASE NodeAt(s, p) \notin DOMAIN gss
      <3>1. gss' = Append(gss, [state |-> s, pos |-> p])
        BY <2>3 DEF AddEdge
      <3>2. NodeAt(s, p) = Len(gss) + 1
        BY <2>3 DEF NodeAt
      <3> QED
        BY <2>1, <3>1, <3>2, Appended DEF NodeIds
    <2> QED
      BY <2>2, <2>3
  <1> QED
    BY <1>1, <1>2 DEF Rooted

-------------------------------------------------------------------------------
(* The steps that push: which edge each adds.                              *)

\* What every allocation keeps.
LEMMA ArenaKept ==
  ASSUME ArenaGrown
  PROVE  /\ TreeIds \subseteq TreeIds' /\ NewId \in TreeIds'
         /\ \A t \in TreeIds : tree'[t] = tree[t]
  BY DEF ArenaGrown

\* The symbol of the node just allocated.
LEMMA NewSymbol ==
  ASSUME TypeOK, NEW rec, tree' = Append(tree, rec)
  PROVE  tree'[NewId] = rec
  <1>1. tree \in Seq([sym : Labels, start : Bytes, end : Bytes, kids : Seq(TreeIds)])
    BY DEF TypeOK, TypedIn
  <1> QED
    BY <1>1, Appended DEF NewId

LEMMA ShiftPushes ==
  ASSUME IInv, ShiftToken
  PROVE  /\ StackOf' = StackOf \cup {[child  |-> [state |-> Entry.arg, pos |-> tok.end],
                                      parent |-> gss[cur.head], sym |-> tok.kind]}
         /\ \A t \in TreeIds : tree'[t] = tree[t]
         /\ Rooted => Rooted'
         /\ Entry.arg \in States(G) /\ cur.head \in NodeIds /\ cur.sym \in Symbols(G)
  <1>1. tok.end \in Bytes /\ tok.start \in Bytes
    <2>1. tok \in [kind : Kinds, start : Bytes, end : Bytes]
      BY DEF IInv, TypeOK, TypedIn
    <2> QED
      BY <2>1
  <1>2. cur.sym \in Symbols(G) /\ Entry.arg \in States(G) /\ cur.head \in NodeIds
    BY EntryAt, StandsAt DEF ShiftToken
  <1>3. ArenaGrown
    <2>1. tok.kind \in Labels
      BY <1>2 DEF IInv, ControlOK, SymbolOK, ShiftToken, Labels
    <2> QED
      BY <1>1, <2>1, AllocTokenTyped DEF ShiftToken, IInv
  <1>4. tree'[NewId].sym = tok.kind
    <2> DEFINE rec == [sym |-> tok.kind, start |-> tok.start, end |-> tok.end, kids |-> <<>>]
    <2>1. tree' = Append(tree, rec) /\ rec.sym = tok.kind
      BY DEF ShiftToken, AllocToken
    <2> HIDE DEF rec
    <2> QED
      BY <2>1, NewSymbol DEF IInv
  <1>5. AddEdge(Entry.arg, tok.end, cur.head, NewId)
    BY DEF ShiftToken
  <1>6. TypeOK
    BY DEF IInv
  <1> QED
    BY <1>1, <1>2, <1>3, <1>4, <1>5, <1>6, ArenaKept, StackPushed, RootedPushed

\* A reduction of an empty production, with a goto.
LEMMA EmptyPushes ==
  ASSUME IInv, ReduceEmpty, UNCHANGED job, EmptyGoto # NoState,
         AddEdge(EmptyGoto, Position, cur.head, NewId)
  PROVE  /\ StackOf' = StackOf \cup {[child  |-> [state |-> EmptyGoto, pos |-> Position],
                                      parent |-> gss[cur.head], sym |-> Production.lhs]}
         /\ Rooted => Rooted'
  <1>1. ArenaGrown
    BY ReduceEmptyGrows
  <1>2. Position \in Bytes /\ cur.head \in NodeIds /\ EmptyGoto \in States(G)
    BY StandsAt, GotoTyped DEF EmptyGoto
  <1>3. tree'[NewId].sym = Production.lhs
    <2> DEFINE rec == [sym |-> Production.lhs, start |-> Position, end |-> Position, kids |-> <<>>]
    <2>1. tree' = Append(tree, rec) /\ rec.sym = Production.lhs
      BY DEF ReduceEmpty, AllocInternal
    <2> HIDE DEF rec
    <2> QED
      BY <2>1, NewSymbol DEF IInv
  <1>4. TypeOK
    BY DEF IInv
  <1> QED
    BY <1>1, <1>2, <1>3, <1>4, ArenaKept, StackPushed, RootedPushed

\* What the nodes of the arena are, before and after a path is reduced.
LEMMA PathGrows ==
  ASSUME IInv, ReducePath
  PROVE  /\ ArenaGrown
         /\ Ancestor \in NodeIds /\ Position \in Bytes /\ cur.head \in NodeIds
         /\ tree'[NewId] = [sym |-> Production.lhs, start |-> tree[PathKids[1]].start,
                            end |-> tree[PathKids[Depth]].end, kids |-> PathKids]
  <1>1. /\ AtEntry("reduce") /\ Depth > 0 /\ Len(frames) = Depth + 1 /\ Depth \in Nat
        /\ \A i \in 1 .. Len(frames) : frames[i].node \in NodeIds
    BY WalkFrames, ReduceTyped DEF ReducePath
  <1>2. PathKids \in Seq(TreeIds) /\ Len(PathKids) = Depth /\ DOMAIN PathKids = 1 .. Depth
    BY <1>1, PathKidsTyped
  <1>3. \A t \in TreeIds : tree[t].start \in Bytes /\ tree[t].end \in Bytes
    BY TreeTyped DEF IInv
  <1>4. PathKids[1] \in TreeIds /\ PathKids[Depth] \in TreeIds
    BY <1>1, <1>2, SeqElement
  <1>5. ArenaGrown
    <2>1. tree[PathKids[1]].start \in Bytes /\ tree[PathKids[Depth]].end \in Bytes
      BY <1>3, <1>4
    <2>2. /\ Production.lhs \in Labels
          /\ DOMAIN Production.field \subseteq DOMAIN PathKids
          /\ \A i \in DOMAIN Production.field : Production.field[i] \in Nat
          /\ DOMAIN Production.alias \subseteq DOMAIN PathKids
          /\ \A i \in DOMAIN Production.alias : Production.alias[i] \in Nat
      BY <1>1, <1>2, ReduceTyped
    <2> QED
      BY <1>2, <2>1, <2>2, AllocInternalTyped DEF ReducePath, IInv
  <1>6. Ancestor \in NodeIds /\ Position \in Bytes /\ cur.head \in NodeIds
    BY <1>1, StandsAt DEF Ancestor
  <1>7. tree' = Append(tree, [sym |-> Production.lhs, start |-> tree[PathKids[1]].start,
                              end |-> tree[PathKids[Depth]].end, kids |-> PathKids])
    BY DEF ReducePath, AllocInternal
  <1> QED
    BY <1>5, <1>6, <1>7, NewSymbol DEF IInv

LEMMA PathPushes ==
  ASSUME IInv, ReducePath, PathGoto # NoState
  PROVE  /\ StackOf' = StackOf \cup {[child  |-> [state |-> PathGoto, pos |-> Position],
                                      parent |-> gss[Ancestor], sym |-> Production.lhs]}
         /\ Rooted => Rooted'
  <1>1. /\ ArenaGrown /\ Ancestor \in NodeIds /\ Position \in Bytes
        /\ tree'[NewId].sym = Production.lhs
    BY PathGrows
  <1>2. PathGoto \in States(G)
    BY GotoTyped DEF PathGoto
  <1>3. AddEdge(PathGoto, Position, Ancestor, NewId)
    BY DEF ReducePath
  <1>4. TypeOK
    BY DEF IInv
  <1> QED
    BY <1>1, <1>2, <1>3, <1>4, ArenaKept, StackPushed, RootedPushed

\* An error edge.
LEMMA AttachPushes ==
  ASSUME IInv, Attach, Continues(heads[at], tok.kind), tree[Len(tree)].sym = ERROR
  PROVE  /\ StackOf' = StackOf \cup {[child  |-> [state |-> gss[heads[at]].state, pos |-> tok.start],
                                      parent |-> gss[heads[at]], sym |-> ERROR]}
         /\ Rooted => Rooted'
         /\ heads[at] \in NodeIds /\ gss[heads[at]].state \in States(G)
  <1>1. /\ heads \in Seq(NodeIds) /\ at \in Nat \ {0} /\ at <= Len(heads)
        /\ tok.start \in Bytes
        /\ errKids \in Seq(TreeIds) /\ errKids # <<>>
    <2>1. tok \in [kind : Kinds, start : Bytes, end : Bytes]
      BY DEF IInv, TypeOK, TypedIn
    <2> QED
      BY <2>1 DEF IInv, TypeOK, TypedIn, ControlOK, RecoveryOK, Attach
  <1>2. tree' = tree /\ TreeIds' = TreeIds
    BY DEF Attach, treeVars, TreeIds
  <1>3. heads[at] \in NodeIds
    BY <1>1, SeqElement
  <1>4. gss[heads[at]].state \in States(G)
    BY <1>3, NodeTyped DEF IInv
  <1>5. Len(tree) \in TreeIds
    <2>1. errKids[1] \in TreeIds
      BY <1>1, SeqElement
    <2> QED
      BY <2>1, LinkDomain DEF IInv
  <1>6. AddEdge(gss[heads[at]].state, tok.start, heads[at], Len(tree))
    BY DEF Attach
  <1>7. TypeOK
    BY DEF IInv
  <1> DEFINE s == gss[heads[at]].state
  <1>8. s = gss[heads[at]].state
    OBVIOUS
  <1> HIDE DEF s
  <1>9. StackOf' = StackOf \cup {[child  |-> [state |-> s, pos |-> tok.start],
                                  parent |-> gss[heads[at]], sym |-> tree'[Len(tree)].sym]}
    BY <1>1, <1>2, <1>3, <1>4, <1>5, <1>6, <1>7, <1>8, StackPushed
  <1>10. Rooted => Rooted'
    BY <1>1, <1>2, <1>3, <1>4, <1>5, <1>6, <1>7, RootedPushed
  <1> QED
    BY <1>2, <1>3, <1>4, <1>8, <1>9, <1>10

-------------------------------------------------------------------------------
(* A walk is a path.                                                       *)

\* The edges of a walk are still there when the stack grew.
LEMMA WalkEdges ==
  ASSUME IInv, Framed, pc = "walk", \A i \in DOMAIN edges : edges'[i] = edges[i]
  PROVE  /\ Len(frames) \in Nat \ {0} /\ DOMAIN frames = 1 .. Len(frames)
         /\ \A i \in 1 .. Len(frames) - 1 :
              /\ edges'[frames[i].edge] = edges[frames[i].edge]
              /\ edges[frames[i].edge].child = frames[i].node
              /\ edges[frames[i].edge].parent = frames[i + 1].node
         /\ frames[1].node = cur.head
         /\ Len(Front(frames)) = Len(frames) - 1
         /\ \A i \in 1 .. Len(frames) - 1 : Front(frames)[i] = frames[i]
  <1>1. /\ frames # <<>> /\ Len(frames) \in Nat \ {0}
        /\ \A i \in 1 .. Len(frames) - 1 : frames[i].edge \in 1 .. Len(edges)
    BY WalkFrames
  <1>2. DOMAIN edges = 1 .. Len(edges)
    BY EdgesTyped DEF IInv
  <1>3. /\ Len(Front(frames)) = Len(frames) - 1
        /\ \A i \in 1 .. Len(frames) - 1 : Front(frames)[i] = frames[i]
        /\ DOMAIN frames = 1 .. Len(frames)
    <2> DEFINE FrameRec == [node : NodeIds, edge : 0 .. Len(edges)]
    <2>1. frames \in Seq(FrameRec)
      BY DEF IInv, TypeOK, TypedIn
    <2>2. DOMAIN frames = 1 .. Len(frames)
      BY <2>1
    <2> HIDE DEF FrameRec
    <2> QED
      BY <1>1, <2>1, <2>2, FrontProperties
  <1> QED
    BY <1>1, <1>2, <1>3 DEF Framed

LEMMA StartReduceFrames ==
  ASSUME StartReduce
  PROVE  Framed'
  <1>1. frames' = <<[node |-> cur.head, edge |-> 0]>> /\ cur' = cur
    BY DEF StartReduce
  <1>2. frames'[1].node = cur'.head /\ Len(frames') = 1
    BY <1>1
  <1> QED
    BY <1>2 DEF Framed

LEMMA WalkDownFrames ==
  ASSUME IInv, Framed, WalkDown
  PROVE  Framed'
  <1> DEFINE k == Len(frames)
  <1>1. /\ k \in Nat \ {0} /\ DOMAIN frames = 1 .. k
        /\ \A i \in 1 .. k - 1 :
             /\ edges[frames[i].edge].child = frames[i].node
             /\ edges[frames[i].edge].parent = frames[i + 1].node
        /\ frames[1].node = cur.head
    BY WalkEdges DEF WalkDown, gssVars
  <1>2. PICK e \in NextEdges :
          frames' = Append([frames EXCEPT ![k].edge = e], [node |-> edges[e].parent, edge |-> 0])
    BY DEF WalkDown
  <1> DEFINE marked == [frames EXCEPT ![k].edge = e]
             top == [node |-> edges[e].parent, edge |-> 0]
  <1>3. /\ \A i \in 1 .. k : marked[i].node = frames[i].node
        /\ \A i \in 1 .. k - 1 : marked[i].edge = frames[i].edge
        /\ marked[k].edge = e
        /\ edges[e].child = frames[k].node
        /\ marked \in Seq({marked[i] : i \in 1 .. k}) /\ Len(marked) = k
    <2>1. frames \in Seq([node : NodeIds, edge : 0 .. Len(edges)])
      BY DEF IInv, TypeOK, TypedIn
    <2>2. \A i \in 1 .. k : frames[i] \in [node : NodeIds, edge : 0 .. Len(edges)]
      <3> DEFINE FrameRec == [node : NodeIds, edge : 0 .. Len(edges)]
      <3>1. frames \in Seq(FrameRec)
        BY <2>1
      <3> HIDE DEF FrameRec
      <3>2. \A i \in 1 .. k : frames[i] \in FrameRec
        BY <1>1, <3>1, SeqElement
      <3> QED
        BY <3>2 DEF FrameRec
    <2>3. /\ \A i \in 1 .. k : marked[i].node = frames[i].node
          /\ \A i \in 1 .. k - 1 : marked[i].edge = frames[i].edge
          /\ marked[k].edge = e
      BY <1>1, <2>2
    <2>4. marked \in [1 .. k -> {marked[i] : i \in 1 .. k}]
      BY <1>1
    <2> HIDE DEF marked
    <2>5. marked \in Seq({marked[i] : i \in 1 .. k}) /\ Len(marked) = k
      BY <1>1, <2>4, FunctionIsSeq
    <2> QED
      BY <1>2, <2>3, <2>5 DEF NextEdges
  <1>4. /\ \A i \in 1 .. k : frames'[i] = marked[i]
        /\ frames'[k + 1].node = edges[e].parent
        /\ Len(frames') = k + 1
    <2>1. frames' = Append(marked, top) /\ top.node = edges[e].parent
      BY <1>2
    <2> HIDE DEF marked, top, k
    <2>2. DOMAIN marked = 1 .. k
      BY <1>1, <1>3
    <2>3. /\ \A i \in 1 .. k : frames'[i] = marked[i]
          /\ frames'[k + 1] = top
      BY <1>3, <2>1, <2>2, Appended
    <2>4. Len(frames') = k + 1
      BY <1>1, <1>3, <2>1
    <2> QED
      BY <2>1, <2>3, <2>4
  <1> HIDE DEF marked, k
  <1>5. edges' = edges /\ cur' = cur
    BY DEF WalkDown, gssVars
  <1>6. \A i \in 1 .. k :
          /\ edges[frames'[i].edge].child = frames'[i].node
          /\ edges[frames'[i].edge].parent = frames'[i + 1].node
    <2> TAKE i \in 1 .. k
    <2>1. CASE i = k
      BY <1>1, <1>3, <1>4, <2>1
    <2>2. CASE i # k
      <3>1. i \in 1 .. k - 1 /\ i + 1 \in 1 .. k
        BY <1>1, <2>2
      <3>2. frames'[i].edge = frames[i].edge
        BY <1>3, <1>4, <3>1
      <3>3. frames'[i].node = frames[i].node
        BY <1>3, <1>4
      <3>4. frames'[i + 1].node = frames[i + 1].node
        BY <1>3, <1>4, <3>1
      <3> QED
        BY <1>1, <3>1, <3>2, <3>3, <3>4
    <2> QED
      BY <2>1, <2>2
  <1>7. frames'[1].node = cur.head
    BY <1>1, <1>3, <1>4
  <1> QED
    BY <1>1, <1>4, <1>5, <1>6, <1>7 DEF Framed

\* The top frame is dropped, after a path or without one.
LEMMA FrontFrames ==
  ASSUME IInv, Framed, pc = "walk", frames' = Front(frames),
         pc' = "walk" => Len(frames) > 1 /\ cur'.head = cur.head,
         \A i \in DOMAIN edges : edges'[i] = edges[i]
  PROVE  Framed'
  <1> SUFFICES ASSUME pc' = "walk"
               PROVE  Framed'
    BY DEF Framed
  <1>1. /\ Len(frames) \in Nat \ {0}
        /\ \A i \in 1 .. Len(frames) - 1 :
             /\ edges'[frames[i].edge] = edges[frames[i].edge]
             /\ edges[frames[i].edge].child = frames[i].node
             /\ edges[frames[i].edge].parent = frames[i + 1].node
        /\ frames[1].node = cur.head
        /\ Len(frames') = Len(frames) - 1
        /\ \A i \in 1 .. Len(frames) - 1 : frames'[i] = frames[i]
    BY WalkEdges
  <1>2. Len(frames) > 1 /\ frames'[1].node = cur'.head
    BY <1>1
  <1>3. \A i \in 1 .. Len(frames') - 1 :
          /\ edges'[frames'[i].edge].child = frames'[i].node
          /\ edges'[frames'[i].edge].parent = frames'[i + 1].node
    <2> TAKE i \in 1 .. Len(frames') - 1
    <2>1. i \in 1 .. Len(frames) - 1 /\ i + 1 \in 1 .. Len(frames) - 1
      BY <1>1
    <2> QED
      BY <1>1, <2>1
  <1> QED
    BY <1>2, <1>3 DEF Framed

\* A step that pushes nothing keeps all edges, one that pushes appends to them.
LEMMA EdgesKept ==
  ASSUME TypeOK, UNCHANGED gssVars \/ \E s, p, parent, label : AddEdge(s, p, parent, label)
  PROVE  \A i \in DOMAIN edges : edges'[i] = edges[i]
  <1>1. CASE UNCHANGED gssVars
    BY <1>1 DEF gssVars
  <1>2. ASSUME NEW s, NEW p, NEW parent, NEW label, AddEdge(s, p, parent, label)
        PROVE  \A i \in DOMAIN edges : edges'[i] = edges[i]
    <2> DEFINE new == [child |-> NodeAt(s, p), parent |-> parent, label |-> label]
    <2>1. edges \in Seq([child : NodeIds, parent : NodeIds, label : TreeIds])
      BY DEF TypeOK, TypedIn
    <2>2. edges' = Append(edges, new)
      BY <1>2 DEF AddEdge
    <2> HIDE DEF new
    <2> QED
      BY <2>1, <2>2, Appended
  <1> QED
    BY <1>1, <1>2

LEMMA NextFrames ==
  ASSUME IInv, Framed, Next
  PROVE  Framed'
  <1>1. CASE StartReduce
    BY <1>1, StartReduceFrames
  <1>2. CASE WalkDown
    BY <1>2, WalkDownFrames
  <1>3. CASE WalkUp
    <2>1. \A i \in DOMAIN edges : edges'[i] = edges[i]
      BY <1>3 DEF WalkUp, gssVars
    <2> QED
      BY <1>3, <2>1, FrontFrames DEF WalkUp
  <1>4. CASE ReducePath
    <2>1. \A i \in DOMAIN edges : edges'[i] = edges[i]
      <3>1. UNCHANGED gssVars \/ AddEdge(PathGoto, Position, Ancestor, NewId)
        BY <1>4 DEF ReducePath
      <3> QED
        BY <3>1, EdgesKept DEF IInv
    <2>2. Len(frames) = Depth + 1 /\ Depth \in Nat /\ Depth > 0
      BY <1>4, WalkFrames, ReduceTyped DEF ReducePath
    <2> QED
      BY <1>4, <2>1, <2>2, FrontFrames DEF ReducePath
  <1>5. CASE pc' # "walk"
    BY <1>5 DEF Framed
  <1>6. \/ StartReduce \/ WalkDown \/ WalkUp \/ ReducePath
        \/ pc' # "walk"
    BY DEF Next, Lap, Worklist, Walk, FixedPoint, Recovery,
           ReadToken, SkipEmptyToken, EndOfInput, AbortParse, StartWork, PopHead, ShiftToken,
           ReduceEmptyHead, AcceptInput, PassEntry, NextSymbol, HeadDone, EndUnaccepted,
           StartFixedPoint, FixReduceEmpty, FixPassEntry, FixNextHead, TokenDone,
           StartRecovery, ResyncSkip, ResyncFound, Attach, AttachDone, Resume, GiveUp
  <1> QED
    BY <1>1, <1>2, <1>3, <1>4, <1>5, <1>6

-------------------------------------------------------------------------------
(* The token in hand is the next one.                                      *)

LEMMA LexedAt ==
  ASSUME job \in Jobs, NEW c \in Bytes, NEW valid, NEW t \in Lexed(c, valid)
  PROVE  /\ t.start \in c .. Len(Source) - 1 /\ t.start \in Int
         /\ PassedOver(c, t.start)
         /\ t.kind \in {Source[t.start + 1], UNKNOWN}
         /\ t.start < t.end => t.end = t.start + 1
         /\ t.start >= t.end => Source[t.start + 1] \in NoToken
  <1>1. PICK k \in c .. Len(Source) - 1 :
          /\ t = TokenAt(k, valid)
          /\ \A b \in c .. k - 1 : Source[b + 1] = BLANK
    BY DEF Lexed
  <1>2. k \in Int
    BY <1>1, GrammarFacts DEF Bytes
  <1>3. /\ t.start = k
        /\ t.kind \in {Source[k + 1], UNKNOWN}
        /\ t.end = IF Source[k + 1] = EMPTY THEN k ELSE k + 1
    BY <1>1 DEF TokenAt
  <1>4. PassedOver(c, k)
    BY <1>1 DEF PassedOver, NoToken
  <1> QED
    BY <1>1, <1>2, <1>3, <1>4 DEF NoToken

LEMMA PassedOn ==
  ASSUME NEW p \in Int, NEW q \in Int, NEW r \in Int, PassedOver(p, q), PassedOver(q, r)
  PROVE  PassedOver(p, r)
  <1> SUFFICES ASSUME NEW b \in p .. r - 1
               PROVE  Source[b + 1] \in NoToken \/ b < job.from
    BY DEF PassedOver
  <1>1. b \in p .. q - 1 \/ b \in q .. r - 1
    OBVIOUS
  <1> QED
    BY <1>1 DEF PassedOver

\* The token at hand before and after a lap begins.
LEMMA LapScanned ==
  ASSUME IInv, StackInv, Scanned, Lap
  PROVE  Scanned'
  <1>1. /\ cursor \in Bytes /\ HeadPos \in Int /\ cursor \in Int /\ pc = "lex"
        /\ HeadPos <= cursor /\ PassedOver(HeadPos, cursor)
    <2>1. cursor \in Bytes /\ pc = "lex"
      BY DEF IInv, TypeOK, TypedIn, Lap, ReadToken, SkipEmptyToken, EndOfInput, AbortParse
    <2> QED
      BY <2>1, Vectors DEF StackInv, Ahead, Scanned
  <1>2. HeadPos' = HeadPos /\ Source' = Source /\ job' = job
    BY DEF Lap, ReadToken, SkipEmptyToken, EndOfInput, AbortParse, HeadPos, gssVars, Source
  <1>3. \A p, q : PassedOver(p, q)' <=> PassedOver(p, q)
    BY <1>2 DEF PassedOver
  <1>4. CASE ReadToken
    <2>1. PICK t \in Lexed(cursor, Mask) : t.start < t.end /\ StartWork(t)
      BY <1>4 DEF ReadToken
    <2>2. /\ t.start \in cursor .. Len(Source) - 1 /\ t.start \in Int
          /\ PassedOver(cursor, t.start) /\ t.kind \in {Source[t.start + 1], UNKNOWN}
          /\ t.end = t.start + 1
      BY <1>1, <2>1, LexedAt DEF IInv
    <2>3. PassedOver(HeadPos, t.start) /\ HeadPos <= t.start /\ t.start < Len(Source)
      <3>1. Len(Source) \in Nat
        BY GrammarFacts DEF IInv
      <3> QED
        BY <1>1, <2>2, <3>1, PassedOn
    <2>4. tok' = t /\ pc' = "pop"
      BY <2>1 DEF StartWork
    <2> QED
      BY <1>2, <1>3, <2>2, <2>3, <2>4 DEF Scanned, Answered
  <1>5. CASE SkipEmptyToken
    <2>1. PICK t \in Lexed(cursor, Mask) : t.start >= t.end /\ cursor' = t.start + 1
      BY <1>5 DEF SkipEmptyToken
    <2>2. /\ t.start \in Int /\ PassedOver(cursor, t.start) /\ Source[t.start + 1] \in NoToken
      BY <1>1, <2>1, LexedAt DEF IInv
    <2>3. PassedOver(t.start, t.start + 1)
      BY <2>2 DEF PassedOver
    <2>4. PassedOver(HeadPos, t.start + 1)
      BY <1>1, <2>2, <2>3, PassedOn
    <2>5. pc' = "lex"
      BY <1>5 DEF SkipEmptyToken
    <2> QED
      BY <1>2, <1>3, <2>1, <2>4, <2>5 DEF Scanned, InWork
  <1>6. CASE EndOfInput \/ AbortParse
    <2>1. StartWork(EndToken) /\ EndToken.kind = END
      BY <1>6 DEF EndOfInput, AbortParse, EndToken
    <2> QED
      BY <2>1 DEF Scanned, StartWork, AtEnd, InWork
  <1> QED
    BY <1>4, <1>5, <1>6 DEF Lap

\* The steps within a lap keep the token, and the place of the heads.
LEMMA WorkScanned ==
  ASSUME Scanned, UNCHANGED <<job, tok>>, HeadPos' = HeadPos,
         pc \in {"pop", "act", "walk", "fix"}, pc' \in {"pop", "act", "walk", "fix", "resync", "done"}
  PROVE  Scanned'
  <1>1. Source' = Source /\ AtEnd' = AtEnd
    BY DEF Source, AtEnd
  <1> QED
    BY <1>1 DEF Scanned, InWork, PassedOver, Answered

\* The next lap begins where the heads are.
LEMMA LapEndScanned ==
  ASSUME IInv, StackInv, TokenDone \/ Resume
  PROVE  Scanned'
  <1>1. HeadPos' = cursor' /\ cursor' \in Int
    <2>1. CASE TokenDone
      <3>1. /\ heads' = nextHeads /\ UNCHANGED <<gss, cursor, nextHeads>> /\ pc = "fix" /\ ~AtEnd
            /\ nextHeads # <<>>
        <4>1. nextHeads \in Seq(NodeIds) /\ at \in Nat \ {0}
          BY DEF IInv, TypeOK, TypedIn
        <4> QED
          BY <2>1, <4>1 DEF TokenDone, gssVars, IInv, ControlOK, FixOK
      <3>2. nextHeads \in Seq(NodeIds) /\ cursor \in Int
        BY Vectors
      <3>3. nextHeads[1] \in ToSet(nextHeads)
        BY <3>1, <3>2 DEF ToSet
      <3> QED
        BY <3>1, <3>2, <3>3 DEF StackInv, Aligned, Ahead, StandAt, HeadPos
    <2>2. CASE Resume
      <3>1. heads' = best.heads /\ UNCHANGED gss /\ best # NoBest /\ cursor' = best.pos
        BY <2>2 DEF Resume, gssVars
      <3>2. best.heads \in Seq(NodeIds) /\ best.heads # <<>> /\ best.pos \in Int
        BY <3>1, Vectors DEF IInv, ControlOK, RecoveryOK
      <3>3. best.heads[1] \in ToSet(best.heads)
        BY <3>2 DEF ToSet
      <3> QED
        BY <3>1, <3>2, <3>3 DEF StackInv, Aligned, StandAt, HeadPos
    <2> QED
      BY <2>1, <2>2
  <1>2. PassedOver(HeadPos, cursor)'
    <2>1. \A b : b \notin HeadPos' .. cursor' - 1
      BY <1>1
    <2> QED
      BY <2>1 DEF PassedOver
  <1>3. pc' = "lex"
    BY DEF TokenDone, Resume
  <1> QED
    BY <1>2, <1>3 DEF Scanned, InWork

LEMMA ResyncFoundScanned ==
  ASSUME IInv, ResyncFound
  PROVE  Scanned'
  <1>1. PICK t \in Lexed(cursor, Symbols(G)) : tok' = t
    BY DEF ResyncFound
  <1>2. cursor \in Bytes /\ job' = job /\ pc' = "attach" /\ Source' = Source
    BY DEF IInv, TypeOK, TypedIn, ResyncFound, Source
  <1>3. t.start < Len(Source) /\ t.kind \in {Source[t.start + 1], UNKNOWN}
    <2>1. /\ t.start \in cursor .. Len(Source) - 1 /\ t.start \in Int
          /\ t.kind \in {Source[t.start + 1], UNKNOWN}
      BY <1>1, <1>2, LexedAt DEF IInv
    <2>2. Len(Source) \in Nat /\ cursor \in Int
      BY Vectors, GrammarFacts DEF IInv
    <2> QED
      BY <2>1, <2>2
  <1>4. tree'[Len(tree')].sym = ERROR
    <2> DEFINE rec == [sym |-> ERROR, start |-> tree[errKids[1]].start,
                       end |-> tree[Last(errKids)].end, kids |-> errKids]
    <2>1. tree' = Append(tree, rec) /\ rec.sym = ERROR
      BY DEF ResyncFound, AllocInternal
    <2>2. tree \in Seq([sym : Labels, start : Bytes, end : Bytes, kids : Seq(TreeIds)])
      BY DEF IInv, TypeOK, TypedIn
    <2> HIDE DEF rec
    <2>3. tree \in Seq([sym : Labels, start : Bytes, end : Bytes, kids : Seq(TreeIds)] \cup {rec})
      BY <2>2, SeqWider
    <2>4. Len(tree') = Len(tree) + 1
      BY <2>1, <2>3, Grown
    <2>5. tree'[NewId] = rec
      BY <2>1, NewSymbol DEF IInv
    <2> QED
      BY <2>1, <2>4, <2>5 DEF NewId
  <1> QED
    BY <1>1, <1>2, <1>3, <1>4 DEF Scanned, Answered, InWork

LEMMA NextScanned ==
  ASSUME IInv, StackInv, Scanned, Next
  PROVE  Scanned'
  <1>1. CASE Lap
    BY <1>1, LapScanned
  <1>2. CASE TokenDone \/ Resume
    BY <1>2, LapEndScanned
  <1>3. CASE ResyncFound
    BY <1>3, ResyncFoundScanned
  <1>4. CASE Attach
    <2>1. UNCHANGED <<job, tok, tree, pc>> /\ pc = "attach"
      BY <1>4 DEF Attach, treeVars
    <2> QED
      BY <2>1 DEF Scanned, Answered, InWork, Source
  <1>5. CASE ResyncSkip \/ AttachDone
    BY <1>5 DEF ResyncSkip, AttachDone, Scanned, InWork
  <1>6. CASE GiveUp
    BY <1>6 DEF GiveUp, StartWork, EndToken, Scanned, AtEnd, InWork
  <1>7. CASE Worklist \/ Walk \/ StartFixedPoint \/ FixReduceEmpty \/ FixPassEntry \/ FixNextHead
             \/ StartRecovery
    <2>1. /\ UNCHANGED <<job, tok, heads>>
          /\ pc \in {"pop", "act", "walk", "fix"}
          /\ pc' \in {"pop", "act", "walk", "fix", "resync", "done"}
      BY <1>7 DEF Worklist, Walk, PopHead, ShiftToken, ReduceEmptyHead, StartReduce, AcceptInput,
             PassEntry, NextSymbol, HeadDone, EndUnaccepted, WalkDown, WalkUp, ReducePath,
             StartFixedPoint, FixReduceEmpty, FixPassEntry, FixNextHead, StartRecovery
    <2>2. \A n \in NodeIds : gss'[n] = gss[n]
      <3>1. UNCHANGED gssVars \/ \E s, p, parent, label : AddEdge(s, p, parent, label)
        BY <1>7 DEF Worklist, Walk, PopHead, ShiftToken, ReduceEmptyHead, StartReduce, AcceptInput,
               PassEntry, NextSymbol, HeadDone, EndUnaccepted, WalkDown, WalkUp, ReducePath,
               StartFixedPoint, FixReduceEmpty, FixPassEntry, FixNextHead, StartRecovery
      <3>2. CASE UNCHANGED gssVars
        BY <3>2 DEF gssVars
      <3> QED
        BY <3>1, <3>2, EdgeStands DEF IInv
    <2>3. HeadPos' = HeadPos
      BY <2>1, <2>2, Vectors DEF HeadPos
    <2> QED
      BY <2>1, <2>3, WorkScanned
  <1> QED
    BY <1>1, <1>2, <1>3, <1>4, <1>5, <1>6, <1>7 DEF Next, FixedPoint, Recovery

-------------------------------------------------------------------------------
(* The invariant.                                                          *)

\* No step changes the inputs of the call.
LEMMA JobFixed ==
  ASSUME Next
  PROVE  job' = job
  BY DEF Next, Lap, Worklist, Walk, FixedPoint, Recovery,
         ReadToken, SkipEmptyToken, EndOfInput, AbortParse, PopHead, ShiftToken, ReduceEmptyHead,
         StartReduce, AcceptInput, PassEntry, NextSymbol, HeadDone, EndUnaccepted, WalkDown, WalkUp,
         ReducePath, StartFixedPoint, FixReduceEmpty, FixPassEntry, FixNextHead, TokenDone,
         StartRecovery, ResyncSkip, ResyncFound, Attach, AttachDone, Resume, GiveUp

\* The steps that push are these.
LEMMA PushesOnly ==
  ASSUME Next
  PROVE  \/ UNCHANGED gssVars
         \/ ShiftToken
         \/ (ReduceEmptyHead \/ FixReduceEmpty) /\ EmptyGoto # NoState
         \/ ReducePath /\ PathGoto # NoState
         \/ Attach /\ Continues(heads[at], tok.kind)
  BY DEF Next, Lap, Worklist, Walk, FixedPoint, Recovery,
         ReadToken, SkipEmptyToken, EndOfInput, AbortParse, PopHead, ReduceEmptyHead, StartReduce,
         AcceptInput, PassEntry, NextSymbol, HeadDone, EndUnaccepted, WalkDown, WalkUp, ReducePath,
         StartFixedPoint, FixReduceEmpty, FixPassEntry, FixNextHead, TokenDone,
         StartRecovery, ResyncSkip, ResyncFound, Attach, AttachDone, Resume, GiveUp

LEMMA NextRooted ==
  ASSUME IInv, PathInv, Next
  PROVE  Rooted'
  <1>0. Rooted /\ TypeOK
    BY DEF IInv, PathInv
  <1>1. CASE UNCHANGED gssVars
    BY <1>0, <1>1, RootedKept
  <1>2. CASE ShiftToken
    BY <1>0, <1>2, ShiftPushes
  <1>3. CASE (ReduceEmptyHead \/ FixReduceEmpty) /\ EmptyGoto # NoState
    BY <1>0, <1>3, EmptyPushes DEF ReduceEmptyHead, FixReduceEmpty
  <1>4. CASE ReducePath /\ PathGoto # NoState
    BY <1>0, <1>4, PathPushes
  <1>5. CASE Attach /\ Continues(heads[at], tok.kind)
    <2>1. tree[Len(tree)].sym = ERROR
      BY <1>5 DEF PathInv, Scanned, Attach
    <2> QED
      BY <1>0, <1>5, <2>1, AttachPushes
  <1>6. \/ UNCHANGED gssVars
        \/ ShiftToken
        \/ (ReduceEmptyHead \/ FixReduceEmpty) /\ EmptyGoto # NoState
        \/ ReducePath /\ PathGoto # NoState
        \/ Attach /\ Continues(heads[at], tok.kind)
    BY PushesOnly
  <1> QED
    BY <1>1, <1>2, <1>3, <1>4, <1>5, <1>6

LEMMA NextPaths ==
  ASSUME IInv, StackInv, PathInv, Next
  PROVE  PathInv'
  BY NextRooted, NextFrames, NextScanned DEF PathInv

LEMMA StutterPaths ==
  ASSUME PathInv, UNCHANGED vars
  PROVE  PathInv'
  BY DEF vars, gssVars, treeVars, PathInv, Rooted, Framed, Scanned, PassedOver, Answered,
         NodeIds, HeadPos, InWork, AtEnd, Source

LEMMA InitPaths ==
  ASSUME Init
  PROVE  PathInv
  <1>1. /\ gss = <<[state |-> 0, pos |-> 0]>> /\ heads = <<1>> /\ pc = "lex"
        /\ cursor = StartByte /\ job \in Jobs
    BY DEF Init
  <1>2. Rooted
    BY <1>1 DEF Rooted, NodeIds
  <1>3. PassedOver(0, StartByte)
    <2>1. JobOK(job) /\ Len(job.source) \in Nat
      BY <1>1, JobsAssumption, GrammarFacts DEF Source
    <2> QED
      BY <2>1 DEF PassedOver, StartByte, JobOK, Whole
  <1>4. HeadPos = 0
    BY <1>1 DEF HeadPos
  <1>5. Framed /\ Scanned
    BY <1>1, <1>3, <1>4 DEF Framed, Scanned, InWork
  <1> QED
    BY <1>2, <1>5 DEF PathInv

(***************************************************************************)
(* In every reachable state of every call, each stack node is the bottom   *)
(* or was pushed, an ancestor walk is a path of edges, and no token lies   *)
(* between the heads and the token in hand.                                *)
(***************************************************************************)
THEOREM PathsInductive == Spec => []PathInv
  <1>1. Init => PathInv
    BY InitPaths
  <1>2. IInv /\ StackInv /\ PathInv /\ [Next]_vars => PathInv'
    BY NextPaths, StutterPaths
  <1> QED
    BY <1>1, <1>2, Inductive, StacksInductive, PTL DEF Spec

-------------------------------------------------------------------------------
(* The refinement.                                                         *)

\* Both modules look up the same tables.
LEMMA SameTables ==
  /\ Calculus!ERROR = ERROR /\ Calculus!NoState = NoState /\ Calculus!NoToken = NoToken
  /\ Calculus!States(G) = States(G) /\ Calculus!Symbols(G) = Symbols(G)
  /\ \A s, a : Calculus!GotoState(G, s, a) = GotoState(G, s, a)
  /\ \A s, a : Calculus!Table(s, a) = ToSet(Actions(G, s, a))
  /\ \A s : Calculus!Shift(s) = Shift(s)
  /\ \A p : Calculus!Reduce(p) = Reduce(p)
  BY DEF Calculus!ERROR, ERROR, Calculus!NoState, NoState, Calculus!NoToken, NoToken,
         Calculus!BLANK, BLANK, Calculus!EMPTY, EMPTY,
         Calculus!States, States, Calculus!Symbols, Symbols,
         Calculus!GotoState, GotoState, Calculus!Goto, Goto, Calculus!Actions, Actions,
         Calculus!Table, Calculus!ToSet, ToSet, Calculus!Shift, Shift, Calculus!Reduce, Reduce, G

\* Every node of the stack is one of the calculus.
LEMMA NodesOfStack ==
  ASSUME Rooted, NEW n \in NodeIds
  PROVE  gss[n] \in Calculus!Nodes
  <1>1. CASE gss[n] = [state |-> 0, pos |-> 0]
    BY <1>1 DEF Calculus!Nodes, Calculus!Bottom
  <1>2. ASSUME NEW i \in DOMAIN edges, edges[i].child = n
        PROVE  gss[n] \in Calculus!Nodes
    <2>1. KeyOf(edges[i]) \in StackOf /\ KeyOf(edges[i]).child = gss[n]
      BY <1>2 DEF StackOf, KeyOf
    <2> QED
      BY <2>1 DEF Calculus!Nodes
  <1> QED
    BY <1>1, <1>2 DEF Rooted

\* The entry at hand stands in the table of the calculus.
LEMMA EntryInTable ==
  ASSUME IInv, NEW op \in {"shift", "reduce"}, AtEntry(op)
  PROVE  /\ Entry = [op |-> op, arg |-> Entry.arg]
         /\ Entry \in Calculus!Table(gss[cur.head].state, cur.sym)
  <1>1. Entry \in Entries(G) /\ Entry.op = op
    BY EntryAt DEF AtEntry
  <1>2. Entry = [op |-> op, arg |-> Entry.arg]
    BY <1>1 DEF Entries, Accept
  <1>3. Cell \in Seq(Entries(G)) /\ cur.entry \in Nat \ {0}
    BY StandsAt
  <1>4. cur.entry \in DOMAIN Cell
    BY <1>3 DEF AtEntry
  <1>5. Entry \in ToSet(Cell)
    BY <1>4 DEF Entry, ToSet
  <1> QED
    BY <1>2, <1>5, SameTables DEF Cell

LEMMA ShiftRefines ==
  ASSUME IInv, StackInv, PathInv, ShiftToken
  PROVE  Calculus!Shifts
  <1> DEFINE n == gss[cur.head]
             k == tok.start
             s == Entry.arg
  <1>1. /\ StackOf' = StackOf \cup {[child  |-> [state |-> s, pos |-> tok.end],
                                     parent |-> n, sym |-> tok.kind]}
        /\ s \in States(G) /\ cur.head \in NodeIds /\ cur.sym \in Symbols(G)
    BY ShiftPushes
  <1>2. pc = "act" /\ ~AtEnd /\ AtEntry("shift")
    BY DEF ShiftToken
  <1>3. /\ PassedOver(HeadPos, k) /\ HeadPos <= k /\ tok.end = k + 1
        /\ k < Len(Source) /\ tok.kind \in {Source[k + 1], UNKNOWN}
    BY <1>2 DEF PathInv, Scanned, Answered, InWork
  <1>4. n.pos = HeadPos
    BY <1>2, CurrentStands DEF Position
  <1>5. cur.sym = tok.kind /\ tok.kind = Source[k + 1]
    <2>1. cur.sym = tok.kind
      BY <1>2 DEF IInv, ControlOK, SymbolOK
    <2>2. UNKNOWN \notin Symbols(G)
      BY GrammarFacts DEF IInv, UNKNOWN
    <2> QED
      BY <1>1, <1>3, <2>1, <2>2
  <1>6. k \in 0 .. Len(Source) - 1
    <2>1. k \in Bytes
      <3>1. tok \in [kind : Kinds, start : Bytes, end : Bytes]
        BY DEF IInv, TypeOK, TypedIn
      <3> QED
        BY <3>1
    <2> QED
      BY <1>3, <2>1, GrammarFacts DEF IInv, Bytes
  <1>7. n \in Calculus!Nodes
    BY <1>1, NodesOfStack DEF PathInv
  <1>8. Shift(s) \in Calculus!Table(n.state, Source[k + 1])
    BY <1>2, <1>5, EntryInTable DEF Shift
  <1> HIDE DEF n, k, s
  <1>9. Calculus!Push(s, k + 1, n, Source[k + 1])
    BY <1>1, <1>3, <1>5 DEF Calculus!Push
  <1> QED
    BY <1>1, <1>3, <1>4, <1>6, <1>7, <1>8, <1>9, SameTables
       DEF Calculus!Shifts, PassedOver, Source, G

\* Both kinds of reductions of an empty production.
LEMMA EmptyRefines ==
  ASSUME IInv, PathInv, ReduceEmpty, UNCHANGED job, EmptyGoto # NoState,
         AddEdge(EmptyGoto, Position, cur.head, NewId)
  PROVE  Calculus!Reduces
  <1> DEFINE n == gss[cur.head]
             p == Entry.arg
  <1>1. StackOf' = StackOf \cup {[child  |-> [state |-> EmptyGoto, pos |-> Position],
                                  parent |-> n, sym |-> Production.lhs]}
    BY EmptyPushes
  <1>2. AtEntry("reduce") /\ Depth = 0
    BY DEF ReduceEmpty
  <1>3. /\ p \in DOMAIN G.prods /\ cur.sym \in Symbols(G) /\ cur.head \in NodeIds
        /\ Production = G.prods[p]
    BY <1>2, EntryAt, StandsAt DEF Production
  <1>4. n \in Calculus!Nodes
    BY <1>3, NodesOfStack DEF PathInv
  <1>5. Reduce(p) \in Calculus!Table(n.state, cur.sym)
    BY <1>2, EntryInTable DEF Reduce
  <1>6. Calculus!GotoState(G, n.state, Production.lhs) = EmptyGoto
    BY SameTables DEF EmptyGoto
  <1>7. Calculus!Push(EmptyGoto, n.pos, n, Production.lhs)
    BY <1>1 DEF Calculus!Push, Position
  <1>8. Len(Production.rhs) = 0
    BY <1>2 DEF Depth
  <1> HIDE DEF n, p
  <1>9. Calculus!Path(n, n, Len(Production.rhs))
    BY <1>8 DEF Calculus!Path
  <1> QED
    BY <1>3, <1>4, <1>5, <1>6, <1>7, <1>9, SameTables DEF Calculus!Reduces, G

\* The frames of a complete walk are a path of the calculus.
LEMMA WalkIsPath ==
  ASSUME IInv, PathInv, ReducePath
  PROVE  Calculus!Path(gss[cur.head], gss[Ancestor], Depth)
  <1>1. /\ Depth \in Nat /\ Depth > 0 /\ Len(frames) = Depth + 1 /\ pc = "walk"
        /\ \A i \in 1 .. Depth : frames[i].edge \in DOMAIN edges
    BY WalkFrames, ReduceTyped, EdgesTyped DEF ReducePath, IInv
  <1>2. /\ frames[1].node = cur.head
        /\ \A i \in 1 .. Depth :
             /\ edges[frames[i].edge].child = frames[i].node
             /\ edges[frames[i].edge].parent = frames[i + 1].node
    BY <1>1 DEF PathInv, Framed
  <1> DEFINE f == [i \in 1 .. Depth |-> KeyOf(edges[frames[i].edge])]
  <1>3. f \in [1 .. Depth -> StackOf]
    BY <1>1 DEF StackOf
  <1>4. \A i \in 1 .. Depth :
          f[i].child = gss[frames[i].node] /\ f[i].parent = gss[frames[i + 1].node]
    BY <1>2 DEF KeyOf
  <1> HIDE DEF f
  <1>5. f[1].child = gss[cur.head] /\ f[Depth].parent = gss[Ancestor]
    BY <1>1, <1>2, <1>4 DEF Ancestor
  <1>6. \A i \in 1 .. Depth - 1 : f[i].parent = f[i + 1].child
    <2> TAKE i \in 1 .. Depth - 1
    <2>1. i \in 1 .. Depth /\ i + 1 \in 1 .. Depth
      BY <1>1
    <2> QED
      BY <1>4, <2>1
  <1> QED
    BY <1>1, <1>3, <1>5, <1>6 DEF Calculus!Path

LEMMA PathRefines ==
  ASSUME IInv, PathInv, ReducePath, PathGoto # NoState
  PROVE  Calculus!Reduces
  <1> DEFINE n == gss[cur.head]
             m == gss[Ancestor]
             p == Entry.arg
  <1>1. StackOf' = StackOf \cup {[child  |-> [state |-> PathGoto, pos |-> Position],
                                  parent |-> m, sym |-> Production.lhs]}
    BY PathPushes
  <1>2. AtEntry("reduce")
    BY WalkFrames DEF ReducePath
  <1>3. /\ p \in DOMAIN G.prods /\ cur.sym \in Symbols(G)
        /\ cur.head \in NodeIds /\ Ancestor \in NodeIds
        /\ Production = G.prods[p]
    BY <1>2, EntryAt, PathGrows DEF Production
  <1>4. n \in Calculus!Nodes /\ m \in Calculus!Nodes
    BY <1>3, NodesOfStack DEF PathInv
  <1>5. Reduce(p) \in Calculus!Table(n.state, cur.sym)
    BY <1>2, EntryInTable DEF Reduce
  <1>6. Calculus!GotoState(G, m.state, Production.lhs) = PathGoto
    BY SameTables DEF PathGoto
  <1>7. Calculus!Push(PathGoto, n.pos, m, Production.lhs)
    BY <1>1 DEF Calculus!Push, Position
  <1>8. Calculus!Path(n, m, Len(Production.rhs))
    BY WalkIsPath DEF Depth
  <1> HIDE DEF n, m, p
  <1> QED
    BY <1>3, <1>4, <1>5, <1>6, <1>7, <1>8, SameTables DEF Calculus!Reduces, G

LEMMA AttachRefines ==
  ASSUME IInv, StackInv, PathInv, Attach, Continues(heads[at], tok.kind)
  PROVE  Calculus!Resyncs
  <1> DEFINE n == gss[heads[at]]
             k == tok.start
  <1>1. /\ pc = "attach" /\ at <= Len(heads) /\ at \in Nat \ {0} /\ heads \in Seq(NodeIds)
        /\ tok \in [kind : Kinds, start : Bytes, end : Bytes]
    BY DEF Attach, IInv, TypeOK, TypedIn
  <1>2. /\ k < Len(Source) /\ tok.kind \in {Source[k + 1], UNKNOWN}
        /\ tree[Len(tree)].sym = ERROR
    BY <1>1 DEF PathInv, Scanned, Answered
  <1>3. /\ StackOf' = StackOf \cup {[child  |-> [state |-> n.state, pos |-> k],
                                     parent |-> n, sym |-> ERROR]}
        /\ heads[at] \in NodeIds /\ n.state \in States(G)
    BY <1>2, AttachPushes
  <1>4. n.pos = HeadPos /\ HeadPos < k
    <2>1. heads[at] \in ToSet(heads)
      BY <1>1 DEF ToSet
    <2> QED
      BY <1>1, <2>1 DEF StackInv, Aligned, Ahead, StandAt
  <1>5. k \in 0 .. Len(Source) - 1
    BY <1>1, <1>2, GrammarFacts DEF IInv, Bytes
  <1>6. Calculus!Table(n.state, Source[k + 1]) # {}
    <2>1. ToSet(Actions(G, n.state, tok.kind)) # {}
      BY DEF Continues
    <2>2. Actions(G, n.state, tok.kind) # <<>>
      BY <2>1 DEF ToSet
    <2>3. tok.kind \in Symbols(G)
      BY <1>3, <2>2, CellTyped DEF IInv
    <2>4. tok.kind = Source[k + 1]
      BY <1>2, <2>3, GrammarFacts DEF IInv, UNKNOWN
    <2> QED
      BY <2>1, <2>4, SameTables
  <1>7. n \in Calculus!Nodes
    BY <1>3, NodesOfStack DEF PathInv
  <1> HIDE DEF n, k
  <1>8. Calculus!Push(n.state, k, n, ERROR)
    BY <1>3 DEF Calculus!Push
  <1> QED
    BY <1>4, <1>5, <1>6, <1>7, <1>8, SameTables DEF Calculus!Resyncs, Source

\* A step that pushes nothing leaves the stack of the calculus as it is.
LEMMA ArenaOnly ==
  ASSUME IInv, Next
  PROVE  \A t \in TreeIds : tree'[t] = tree[t]
  <1>1. \/ UNCHANGED treeVars
        \/ \E rec : tree' = Append(tree, rec)
    BY DEF Next, Lap, Worklist, Walk, FixedPoint, Recovery,
           ReadToken, SkipEmptyToken, EndOfInput, AbortParse, PopHead, ShiftToken, ReduceEmptyHead,
           ReduceEmpty, StartReduce, AcceptInput, PassEntry, NextSymbol, HeadDone, EndUnaccepted,
           WalkDown, WalkUp, ReducePath, StartFixedPoint, FixReduceEmpty, FixPassEntry, FixNextHead,
           TokenDone, StartRecovery, ResyncSkip, ResyncFound, Attach, AttachDone, Resume, GiveUp,
           SkipToken, AllocToken, AllocInternal
  <1>2. tree \in Seq([sym : Labels, start : Bytes, end : Bytes, kids : Seq(TreeIds)])
    BY DEF IInv, TypeOK, TypedIn
  <1>3. \A rec : tree' = Append(tree, rec) => \A t \in TreeIds : tree'[t] = tree[t]
    BY <1>2, Appended DEF TreeIds
  <1> QED
    BY <1>1, <1>3 DEF treeVars

LEMMA NextRefines ==
  ASSUME IInv, StackInv, PathInv, Next
  PROVE  Calculus!Next \/ UNCHANGED <<job, StackOf>>
  <1>0. job' = job
    BY JobFixed
  <1>1. CASE UNCHANGED gssVars
    <2>1. StackOf' = StackOf
      BY <1>1, ArenaOnly, StackKept DEF IInv
    <2> QED
      BY <1>0, <2>1
  <1>2. CASE ShiftToken
    BY <1>0, <1>2, ShiftRefines DEF Calculus!Next
  <1>3. CASE (ReduceEmptyHead \/ FixReduceEmpty) /\ EmptyGoto # NoState
    <2>1. ReduceEmpty /\ AddEdge(EmptyGoto, Position, cur.head, NewId)
      BY <1>3 DEF ReduceEmptyHead, FixReduceEmpty
    <2> QED
      BY <1>0, <1>3, <2>1, EmptyRefines DEF Calculus!Next
  <1>4. CASE ReducePath /\ PathGoto # NoState
    BY <1>0, <1>4, PathRefines DEF Calculus!Next
  <1>5. CASE Attach /\ Continues(heads[at], tok.kind)
    BY <1>0, <1>5, AttachRefines DEF Calculus!Next
  <1> QED
    BY <1>1, <1>2, <1>3, <1>4, <1>5, PushesOnly

(***************************************************************************)
(* The engine implements the calculus, for every grammar, source, edit and *)
(* abort: whatever the order of its worklist, its heads and its ancestor   *)
(* walks, each edge it pushes is the shift of the next token, a reduction  *)
(* over a path that is there, or an error edge to a token that can be      *)
(* used.                                                                   *)
(***************************************************************************)
THEOREM Refinement == Spec => ImplementsCalculus
  <1>1. Init => Calculus!Init
    <2> SUFFICES ASSUME Init
                 PROVE  Calculus!Init
      OBVIOUS
    <2>1. edges = <<>> /\ job \in Jobs
      BY DEF Init
    <2>2. StackOf = {}
      BY <2>1 DEF StackOf
    <2> QED
      BY <2>1, <2>2 DEF Calculus!Init
  <1>2. IInv /\ StackInv /\ PathInv /\ [Next]_vars => [Calculus!Next]_<<job, StackOf>>
    <2>1. CASE Next
      BY <2>1, NextRefines
    <2>2. CASE UNCHANGED vars
      <3>1. UNCHANGED <<job, StackOf>>
        BY <2>2 DEF vars, gssVars, treeVars, StackOf, KeyOf
      <3> QED
        BY <3>1
    <2> QED
      BY <2>1, <2>2
  <1> QED
    BY <1>1, <1>2, Inductive, StacksInductive, PathsInductive, PTL
       DEF Spec, ImplementsCalculus, Calculus!Spec

-------------------------------------------------------------------------------
(***************************************************************************)
(* The invariant.  What the scan passed over was of no use to any head,    *)
(* and the first candidate stays the best: a later one has more error      *)
(* children, and only they are counted.                                    *)
(***************************************************************************)

\* No head can take a token that starts in [p, q).
Stalled(p, q) == \A k \in p .. q - 1 : \A i \in DOMAIN heads : ~CanTake(heads[i], k)

\* Where the failed token ends, and how far the scan has looked for another.
SkippedFrom == tree[errKids[1]].end
SkippedTo == IF pc = "attach" THEN tok.start ELSE cursor

Usable(k) == \E i \in DOMAIN heads : CanTake(heads[i], k)

FirstIsBest ==
  InRecovery =>
    /\ best = NoBest => Stalled(SkippedFrom, SkippedTo)
    /\ best # NoBest =>
         /\ Stalled(SkippedFrom, best.pos)
         /\ Usable(best.pos)
         /\ best.cost < 10 * Len(errKids)
    /\ pc = "attach" => Usable(tok.start)

\* The nodes of the heads below index a that can take the token at k, moved there.
Moved(a, k) ==
  {[state |-> gss[heads[i]].state, pos |-> k] :
     i \in {i \in DOMAIN heads : i < a /\ CanTake(heads[i], k)}}

Attached ==
  pc = "attach" =>
    /\ tok.kind = IF Source[tok.start + 1] \in Symbols(G) THEN Source[tok.start + 1] ELSE UNKNOWN
    /\ {gss[n] : n \in ToSet(nextHeads)} = Moved(at, tok.start)

Kept ==
  InRecovery /\ best # NoBest =>
    {gss[n] : n \in ToSet(best.heads)} = Moved(Len(heads) + 1, best.pos)

RecoveryInv == FirstIsBest /\ Attached /\ Kept

-------------------------------------------------------------------------------
(* What a head can take.                                                   *)

\* A token that is no column of the table is taken by none.
LEMMA NoColumn ==
  ASSUME IInv, NEW h, NEW k, Source[k + 1] \notin Symbols(G)
  PROVE  ~CanTake(h, k)
  BY DEF CanTake, Actions, ToSet

LEMMA BlankTaken ==
  ASSUME IInv, NEW h, NEW k, Source[k + 1] \in NoToken
  PROVE  ~CanTake(h, k)
  <1>1. Source[k + 1] \notin Symbols(G)
    BY GrammarFacts DEF IInv, NoToken, BLANK, EMPTY
  <1> QED
    BY <1>1, NoColumn

\* The recovery's test of the token it read is the test of the byte it was read at.
LEMMA ContinuesIsCanTake ==
  ASSUME IInv, NEW h \in NodeIds, NEW k, NEW kind,
         kind = IF Source[k + 1] \in Symbols(G) THEN Source[k + 1] ELSE UNKNOWN
  PROVE  Continues(h, kind) <=> CanTake(h, k)
  <1>1. Actions(G, gss[h].state, kind) = Actions(G, gss[h].state, Source[k + 1])
    <2>1. UNKNOWN \notin Symbols(G)
      BY GrammarFacts DEF IInv, UNKNOWN
    <2> QED
      BY <2>1 DEF Actions
  <1>2. Actions(G, gss[h].state, kind) \in Seq(Entries(G))
    BY NodeTyped, CellTyped DEF IInv
  <1>3. ToSet(Actions(G, gss[h].state, kind)) \subseteq Entries(G)
    BY <1>2, SeqElement DEF ToSet
  <1>4. \A e \in Entries(G) : e.op \in {"shift", "reduce", "accept"} <=> e.op # "goto"
    BY DEF Entries, Accept
  <1> QED
    BY <1>1, <1>3, <1>4 DEF Continues, CanTake

\* What the heads can take stays so when no node moves.
LEMMA HeadsKept ==
  ASSUME IInv, UNCHANGED <<job, heads>>, \A n \in NodeIds : gss'[n] = gss[n]
  PROVE  /\ \A p, q : Stalled(p, q)' <=> Stalled(p, q)
         /\ \A k : Usable(k)' <=> Usable(k)
         /\ \A a, k : Moved(a, k)' = Moved(a, k)
  <1>1. \A i \in DOMAIN heads : heads[i] \in NodeIds
    BY Vectors, SeqElement
  <1>2. ASSUME NEW i \in DOMAIN heads, NEW k
        PROVE  CanTake(heads[i], k)' <=> CanTake(heads[i], k)
    BY <1>1, SameInput DEF CanTake, Actions, Symbols
  <1>3. \A i \in DOMAIN heads : gss'[heads[i]] = gss[heads[i]]
    BY <1>1
  <1> QED
    BY <1>2, <1>3 DEF Stalled, Usable, Moved

LEMMA StalledOn ==
  ASSUME NEW p \in Int, NEW q \in Int, NEW r \in Int, Stalled(p, q), Stalled(q, r)
  PROVE  Stalled(p, r)
  <1> SUFFICES ASSUME NEW k \in p .. r - 1
               PROVE  \A i \in DOMAIN heads : ~CanTake(heads[i], k)
    BY DEF Stalled
  <1>1. k \in p .. q - 1 \/ k \in q .. r - 1
    OBVIOUS
  <1> QED
    BY <1>1 DEF Stalled

\* The token the scan reads next, and what it passes over on the way.
LEMMA ScanRead ==
  ASSUME IInv, NEW t \in Lexed(cursor, Symbols(G))
  PROVE  /\ t.start \in Int /\ t.end \in Int /\ t.end <= t.start + 1
         /\ Stalled(cursor, t.start)
         /\ t.kind = IF Source[t.start + 1] \in Symbols(G) THEN Source[t.start + 1] ELSE UNKNOWN
  <1>1. PICK k \in cursor .. Len(Source) - 1 :
          /\ t = TokenAt(k, Symbols(G))
          /\ \A b \in cursor .. k - 1 : Source[b + 1] = BLANK
    BY DEF Lexed
  <1>2. k \in Int /\ cursor \in Int
    BY <1>1, Vectors, GrammarFacts DEF IInv
  <1>3. /\ t.start = k
        /\ t.kind = IF Source[k + 1] \in Symbols(G) THEN Source[k + 1] ELSE UNKNOWN
        /\ t.end = IF Source[k + 1] = EMPTY THEN k ELSE k + 1
    BY <1>1 DEF TokenAt
  <1>4. Stalled(cursor, k)
    BY <1>1, BlankTaken DEF Stalled, NoToken
  <1> QED
    BY <1>2, <1>3, <1>4

\* The failed token stays the first error child.
LEMMA FirstChildKept ==
  ASSUME IInv, errKids # <<>>, \A t \in TreeIds : tree'[t] = tree[t],
         errKids' = errKids \/ \E id : errKids' = Append(errKids, id)
  PROVE  SkippedFrom' = SkippedFrom /\ SkippedFrom \in Int
  <1>1. errKids \in Seq(TreeIds) /\ 1 \in DOMAIN errKids
    BY DEF IInv, TypeOK, TypedIn
  <1>2. errKids[1] \in TreeIds
    BY <1>1, SeqElement
  <1>3. errKids'[1] = errKids[1]
    BY <1>1, Appended
  <1>4. SkippedFrom \in Int
    <2>1. SkippedFrom \in Bytes
      BY <1>2, TreeTyped DEF IInv, SkippedFrom
    <2> QED
      BY <2>1, GrammarFacts DEF IInv, Bytes
  <1> QED
    BY <1>2, <1>3, <1>4 DEF SkippedFrom

LEMMA StartRecoveryScans ==
  ASSUME IInv, StackInv, StartRecovery
  PROVE  RecoveryInv'
  <1>1. /\ best' = NoBest /\ pc' = "resync" /\ pc = "pop" /\ ~AtEnd
        /\ errKids' = <<NewId>> /\ cursor' = cursor
    BY DEF StartRecovery
  <1>2. tree'[NewId].end = tok.end
    <2> DEFINE rec == [sym |-> ERROR, start |-> errStart, end |-> tok.end, kids |-> <<>>]
    <2>1. tree' = Append(tree, rec) /\ rec.end = tok.end
      BY DEF StartRecovery, AllocToken
    <2> HIDE DEF rec
    <2> QED
      BY <2>1, NewSymbol DEF IInv
  <1>3. tok.end = cursor /\ cursor \in Int
    BY <1>1, Vectors DEF StackInv, Ahead, InWork
  <1>4. SkippedFrom' = cursor' /\ SkippedTo' = cursor' /\ cursor' \in Int
    <2>1. errKids'[1] = NewId
      BY <1>1
    <2> QED
      BY <1>1, <1>2, <1>3, <2>1 DEF SkippedFrom, SkippedTo
  <1>5. (Stalled(SkippedFrom, SkippedTo))'
    <2>1. \A k : k \notin SkippedFrom' .. SkippedTo' - 1
      BY <1>4
    <2> QED
      BY <2>1 DEF Stalled
  <1> QED
    BY <1>1, <1>5 DEF RecoveryInv, FirstIsBest, Attached, Kept

LEMMA ResyncSkipScans ==
  ASSUME IInv, RecoveryInv, ResyncSkip
  PROVE  RecoveryInv'
  <1>1. PICK t \in Lexed(cursor, Symbols(G)) :
          /\ ~\E i \in DOMAIN heads : Continues(heads[i], t.kind)
          /\ cursor' = t.end /\ SkipToken(t)
    BY DEF ResyncSkip
  <1>2. /\ pc = "resync" /\ pc' = "resync" /\ UNCHANGED <<job, heads, gss, best>>
        /\ errKids' = Append(errKids, NewId)
    BY <1>1 DEF ResyncSkip, SkipToken, gssVars
  <1>3. /\ errKids \in Seq(TreeIds) /\ errKids # <<>> /\ cursor \in Int
        /\ Len(errKids') = Len(errKids) + 1 /\ Len(errKids) \in Nat
    <2>1. errKids \in Seq(TreeIds) /\ errKids # <<>>
      BY <1>2 DEF IInv, TypeOK, TypedIn, ControlOK, RecoveryOK
    <2>2. errKids \in Seq(TreeIds \cup {NewId}) /\ NewId \in TreeIds \cup {NewId}
      BY <2>1, SeqWider
    <2> QED
      BY <1>2, <2>1, <2>2, Grown, Vectors
  <1>4. SkippedFrom' = SkippedFrom /\ SkippedFrom \in Int
    BY <1>2, <1>3, ArenaOnly, FirstChildKept DEF Next, Recovery
  <1>5. /\ t.start \in Int /\ t.end \in Int /\ t.end <= t.start + 1
        /\ Stalled(cursor, t.start)
        /\ t.kind = IF Source[t.start + 1] \in Symbols(G) THEN Source[t.start + 1] ELSE UNKNOWN
    BY ScanRead
  <1>6. Stalled(t.start, t.end)
    <2>1. \A i \in DOMAIN heads : ~CanTake(heads[i], t.start)
      <3>1. \A i \in DOMAIN heads : heads[i] \in NodeIds
        BY Vectors, SeqElement
      <3> QED
        BY <1>1, <1>5, <3>1, ContinuesIsCanTake
    <2>2. \A k \in t.start .. t.end - 1 : k = t.start
      BY <1>5
    <2> QED
      BY <2>1, <2>2 DEF Stalled
  <1>7. ASSUME best = NoBest
        PROVE  (Stalled(SkippedFrom, SkippedTo))'
    <2>1. Stalled(SkippedFrom, cursor)
      BY <1>2, <1>7 DEF RecoveryInv, FirstIsBest, InRecovery, SkippedTo
    <2>2. Stalled(SkippedFrom, t.start)
      BY <1>3, <1>4, <1>5, <2>1, StalledOn
    <2>3. Stalled(SkippedFrom, t.end)
      BY <1>4, <1>5, <1>6, <2>2, StalledOn
    <2>4. SkippedTo' = t.end
      BY <1>1, <1>2 DEF SkippedTo
    <2> QED
      BY <1>2, <1>4, <2>3, <2>4, HeadsKept
  <1>8. ASSUME best # NoBest
        PROVE  /\ (Stalled(SkippedFrom, best.pos))'
               /\ Usable(best.pos)'
               /\ best.cost < 10 * Len(errKids')
               /\ Kept'
    <2>1. Stalled(SkippedFrom, best.pos) /\ Usable(best.pos) /\ best.cost < 10 * Len(errKids) /\ Kept
      BY <1>2, <1>8 DEF RecoveryInv, FirstIsBest, InRecovery
    <2>2. best.cost \in Nat
      <3>1. best \in [heads : Seq(NodeIds), pos : Bytes, cost : Nat]
        BY DEF IInv, TypeOK, TypedIn
      <3> QED
        BY <3>1
    <2>3. best.cost < 10 * Len(errKids')
      BY <1>3, <2>1, <2>2
    <2>4. Kept'
      BY <1>2, <2>1, HeadsKept DEF Kept, InRecovery
    <2> QED
      BY <1>2, <1>4, <2>1, <2>3, <2>4, HeadsKept
  <1>9. FirstIsBest'
    BY <1>2, <1>7, <1>8 DEF FirstIsBest
  <1> QED
    BY <1>2, <1>8, <1>9 DEF RecoveryInv, Attached, Kept

LEMMA ResyncFoundScans ==
  ASSUME IInv, RecoveryInv, ResyncFound
  PROVE  RecoveryInv'
  <1>1. PICK t \in Lexed(cursor, Symbols(G)) :
          /\ \E i \in DOMAIN heads : Continues(heads[i], t.kind)
          /\ tok' = t
    BY DEF ResyncFound
  <1>2. /\ pc = "resync" /\ pc' = "attach" /\ UNCHANGED <<job, heads, gss, best, errKids>>
        /\ nextHeads' = <<>> /\ at' = 1
    BY DEF ResyncFound, gssVars, errVars
  <1>3. errKids # <<>> /\ cursor \in Int
    BY <1>2, Vectors DEF IInv, ControlOK, RecoveryOK
  <1>4. SkippedFrom' = SkippedFrom /\ SkippedFrom \in Int
    BY <1>2, <1>3, ArenaOnly, FirstChildKept DEF Next, Recovery
  <1>5. /\ t.start \in Int
        /\ Stalled(cursor, t.start)
        /\ t.kind = IF Source[t.start + 1] \in Symbols(G) THEN Source[t.start + 1] ELSE UNKNOWN
    BY ScanRead
  <1>6. Usable(t.start)
    <2>1. \A i \in DOMAIN heads : heads[i] \in NodeIds
      BY Vectors, SeqElement
    <2> QED
      BY <1>1, <1>5, <2>1, ContinuesIsCanTake DEF Usable
  <1>7. ASSUME best = NoBest
        PROVE  (Stalled(SkippedFrom, SkippedTo))'
    <2>1. Stalled(SkippedFrom, cursor)
      BY <1>2, <1>7 DEF RecoveryInv, FirstIsBest, InRecovery, SkippedTo
    <2>2. Stalled(SkippedFrom, t.start)
      BY <1>3, <1>4, <1>5, <2>1, StalledOn
    <2>3. SkippedTo' = t.start
      BY <1>1, <1>2 DEF SkippedTo
    <2> QED
      BY <1>2, <1>4, <2>2, <2>3, HeadsKept
  <1>8. FirstIsBest'
    BY <1>1, <1>2, <1>4, <1>6, <1>7, HeadsKept DEF RecoveryInv, FirstIsBest, InRecovery
  <1>9. Kept'
    BY <1>2, HeadsKept DEF RecoveryInv, Kept, InRecovery
  <1>10. Attached'
    <2>1. ToSet(nextHeads') = {} /\ \A i \in DOMAIN heads : ~(i < 1)
      <3>1. heads \in Seq(NodeIds)
        BY Vectors
      <3> QED
        BY <1>2, <3>1 DEF ToSet
    <2>2. (Moved(at, tok.start))' = {}
      BY <1>2, <2>1 DEF Moved
    <2>3. {gss'[n] : n \in ToSet(nextHeads')} = {}
      BY <2>1
    <2>4. Source' = Source /\ Symbols(G)' = Symbols(G)
      BY <1>2, SameInput DEF Symbols
    <2> QED
      BY <1>1, <1>5, <2>2, <2>3, <2>4 DEF Attached
  <1> QED
    BY <1>8, <1>9, <1>10 DEF RecoveryInv

\* add_head adds the node to those that are there, whatever they are.
LEMMA AddHeadSet ==
  ASSUME NEW N, nextHeads \in Seq(N), NEW n \in N, AddHead(n)
  PROVE  ToSet(nextHeads') = ToSet(nextHeads) \cup {n}
  <1>1. CASE n \in ToSet(nextHeads)
    BY <1>1 DEF AddHead
  <1>2. CASE n \notin ToSet(nextHeads)
    BY <1>2, Appended DEF AddHead, ToSet
  <1> QED
    BY <1>1, <1>2

\* One head more is considered.
LEMMA MovedOn ==
  ASSUME heads \in Seq(NodeIds), at \in DOMAIN heads, NEW k
  PROVE  Moved(at + 1, k) =
           Moved(at, k) \cup (IF CanTake(heads[at], k)
                              THEN {[state |-> gss[heads[at]].state, pos |-> k]} ELSE {})
  <1>1. \A i \in DOMAIN heads : i < at + 1 <=> i < at \/ i = at
    OBVIOUS
  <1> QED
    BY <1>1 DEF Moved

LEMMA AttachScans ==
  ASSUME IInv, RecoveryInv, Attach
  PROVE  RecoveryInv'
  <1>1. /\ UNCHANGED <<job, heads, best, errKids, tree, tok, cursor, pc>>
        /\ pc = "attach" /\ at' = at + 1
        /\ heads \in Seq(NodeIds) /\ at \in DOMAIN heads /\ heads[at] \in NodeIds
        /\ nextHeads \in Seq(NodeIds) /\ ToSet(nextHeads) \subseteq NodeIds
        /\ ToSet(best.heads) \subseteq NodeIds
    <2>1. heads \in Seq(NodeIds) /\ at \in Nat \ {0} /\ at <= Len(heads)
      BY DEF Attach, IInv, TypeOK, TypedIn
    <2>2. at \in DOMAIN heads
      BY <2>1
    <2> QED
      BY <2>1, <2>2, SeqElement, Vectors DEF Attach, treeVars, errVars
  <1> DEFINE s == gss[heads[at]].state
             k == tok.start
  <1>2. Continues(heads[at], tok.kind) <=> CanTake(heads[at], k)
    BY <1>1, ContinuesIsCanTake DEF RecoveryInv, Attached
  <1>3. s \in States(G) /\ k \in Bytes
    <2>1. tok \in [kind : Kinds, start : Bytes, end : Bytes]
      BY DEF IInv, TypeOK, TypedIn
    <2> QED
      BY <1>1, <2>1, NodeTyped DEF IInv
  <1>4. /\ \A n \in NodeIds : gss'[n] = gss[n]
        /\ CanTake(heads[at], k) =>
             /\ AddHead(NodeAt(s, k))
             /\ gss'[NodeAt(s, k)] = [state |-> s, pos |-> k]
             /\ NodeIds \subseteq NodeIds' /\ NodeAt(s, k) \in NodeIds'
        /\ ~CanTake(heads[at], k) => UNCHANGED nextHeads
    <2>1. CASE CanTake(heads[at], k)
      <3>1. AddEdge(s, k, heads[at], Len(tree)) /\ AddHead(NodeAt(s, k))
        BY <1>2, <2>1 DEF Attach
      <3>2. Len(tree) \in TreeIds' /\ TreeIds \subseteq TreeIds'
        <4>1. errKids \in Seq(TreeIds) /\ errKids # <<>>
          BY <1>1 DEF IInv, TypeOK, TypedIn, ControlOK, RecoveryOK
        <4>2. errKids[1] \in TreeIds
          BY <4>1, SeqElement
        <4> QED
          BY <1>1, <4>2, LinkDomain DEF IInv, TreeIds
      <3> HIDE DEF s, k
      <3>3. /\ \A n \in NodeIds : gss'[n] = gss[n]
            /\ gss'[NodeAt(s, k)] = [state |-> s, pos |-> k]
            /\ NodeIds \subseteq NodeIds' /\ NodeAt(s, k) \in NodeIds'
        BY <1>1, <1>3, <3>1, <3>2, AddEdgeTyped DEF IInv
      <3> QED
        BY <2>1, <3>1, <3>3
    <2>2. CASE ~CanTake(heads[at], k)
      BY <1>2, <2>2 DEF Attach, gssVars
    <2> QED
      BY <2>1, <2>2
  <1>5. /\ \A p, q : Stalled(p, q)' <=> Stalled(p, q)
        /\ \A j : Usable(j)' <=> Usable(j)
        /\ \A a, j : Moved(a, j)' = Moved(a, j)
    BY <1>1, <1>4, HeadsKept
  <1>6. FirstIsBest'
    BY <1>1, <1>5 DEF RecoveryInv, FirstIsBest, InRecovery, SkippedFrom, SkippedTo
  <1>7. Kept'
    <2>1. {gss'[n] : n \in ToSet(best.heads)} = {gss[n] : n \in ToSet(best.heads)}
      BY <1>1, <1>4
    <2> QED
      BY <1>1, <1>5, <2>1 DEF RecoveryInv, Kept, InRecovery
  <1>8. Attached'
    <2>1. {gss[n] : n \in ToSet(nextHeads)} = Moved(at, k)
      BY <1>1 DEF RecoveryInv, Attached
    <2>2. {gss'[n] : n \in ToSet(nextHeads)} = Moved(at, k)
      BY <1>1, <1>4, <2>1
    <2>3. (Moved(at, tok.start))' = Moved(at + 1, k)
      BY <1>1, <1>5
    <2>4. {gss'[n] : n \in ToSet(nextHeads')} = Moved(at + 1, k)
      <3>1. CASE CanTake(heads[at], k)
        <4>1. ToSet(nextHeads') = ToSet(nextHeads) \cup {NodeAt(s, k)}
          <5>1. nextHeads \in Seq(NodeIds')
            BY <1>1, <1>4, <3>1, SeqWider
          <5> HIDE DEF s, k
          <5> QED
            BY <1>4, <3>1, <5>1, AddHeadSet
        <4>2. Moved(at + 1, k) = Moved(at, k) \cup {[state |-> s, pos |-> k]}
          BY <1>1, <3>1, MovedOn
        <4> HIDE DEF s, k
        <4> QED
          BY <1>4, <2>2, <3>1, <4>1, <4>2
      <3>2. CASE ~CanTake(heads[at], k)
        <4>1. Moved(at + 1, k) = Moved(at, k)
          BY <1>1, <3>2, MovedOn
        <4> QED
          BY <1>4, <2>2, <3>2, <4>1
      <3> QED
        BY <3>1, <3>2
    <2>5. tok' = tok /\ Source' = Source /\ Symbols(G)' = Symbols(G)
      BY <1>1, SameInput DEF Symbols
    <2> HIDE DEF k
    <2> QED
      BY <1>1, <2>3, <2>4, <2>5 DEF RecoveryInv, Attached, k
  <1> QED
    BY <1>6, <1>7, <1>8 DEF RecoveryInv

LEMMA AttachDoneScans ==
  ASSUME IInv, RecoveryInv, AttachDone
  PROVE  RecoveryInv'
  <1>1. /\ UNCHANGED <<job, heads, gss, tok>> /\ pc = "attach" /\ pc' = "resync"
        /\ errKids' = Append(errKids, NewId)
    BY DEF AttachDone, SkipToken, gssVars
  <1>2. /\ errKids \in Seq(TreeIds) /\ errKids # <<>>
        /\ Len(errKids') = Len(errKids) + 1 /\ Len(errKids) \in Nat
        /\ tok.start \in Int
    <2>1. errKids \in Seq(TreeIds) /\ errKids # <<>>
      BY <1>1 DEF IInv, TypeOK, TypedIn, ControlOK, RecoveryOK
    <2>2. errKids \in Seq(TreeIds \cup {NewId}) /\ NewId \in TreeIds \cup {NewId}
      BY <2>1, SeqWider
    <2> QED
      BY <1>1, <2>1, <2>2, Grown, Vectors
  <1>3. SkippedFrom' = SkippedFrom
    BY <1>1, <1>2, ArenaOnly, FirstChildKept DEF Next, Recovery
  <1>4. Usable(tok.start) /\ {gss[n] : n \in ToSet(nextHeads)} = Moved(Len(heads) + 1, tok.start)
    <2>1. heads \in Seq(NodeIds) /\ at \in Nat \ {0} /\ at > Len(heads)
      BY DEF AttachDone, IInv, TypeOK, TypedIn
    <2>2. \A i \in DOMAIN heads : i < at /\ i < Len(heads) + 1
      BY <2>1
    <2>3. Moved(at, tok.start) = Moved(Len(heads) + 1, tok.start)
      BY <2>2 DEF Moved
    <2> QED
      BY <1>1, <2>3 DEF RecoveryInv, FirstIsBest, Attached, InRecovery
  <1>5. CASE best = NoBest
    <2> DEFINE new == [heads |-> nextHeads, pos |-> tok.start, cost |-> 10 * Len(errKids)]
    <2>1. best' = new
      BY <1>5 DEF AttachDone
    <2>2. new.heads = nextHeads /\ new.pos = tok.start /\ new.cost = 10 * Len(errKids)
      OBVIOUS
    <2> HIDE DEF new
    <2>3. best'.heads = nextHeads /\ best'.pos = tok.start /\ best'.cost = 10 * Len(errKids)
      BY <2>1, <2>2
    <2>4. best'.cost < 10 * Len(errKids')
      BY <1>2, <2>3
    <2>5. Stalled(SkippedFrom, tok.start)
      BY <1>1, <1>5 DEF RecoveryInv, FirstIsBest, InRecovery, SkippedTo
    <2>6. best' # NoBest
      <3>1. nextHeads # <<>>
        <4>1. at \in Nat \ {0} /\ heads \in Seq(NodeIds) /\ at > Len(heads)
          BY DEF AttachDone, IInv, TypeOK, TypedIn
        <4>2. \A i : i \notin at .. Len(heads)
          BY <4>1
        <4> QED
          BY <1>1, <4>2 DEF IInv, ControlOK, RecoveryOK
      <3> QED
        BY <2>3, <3>1 DEF NoBest
    <2>7. FirstIsBest'
      BY <1>1, <1>3, <1>4, <2>3, <2>4, <2>5, <2>6, HeadsKept DEF FirstIsBest
    <2>8. Kept'
      BY <1>1, <1>4, <2>3, HeadsKept DEF Kept
    <2> QED
      BY <1>1, <2>7, <2>8 DEF RecoveryInv, Attached
  <1>6. CASE best # NoBest
    <2>1. /\ Stalled(SkippedFrom, best.pos) /\ Usable(best.pos)
          /\ best.cost < 10 * Len(errKids) /\ best.cost \in Nat
      <3>1. best \in [heads : Seq(NodeIds), pos : Bytes, cost : Nat]
        BY DEF IInv, TypeOK, TypedIn
      <3> QED
        BY <1>1, <1>6, <3>1 DEF RecoveryInv, FirstIsBest, InRecovery
    <2>2. best' = best
      BY <1>2, <1>6, <2>1 DEF AttachDone
    <2>3. best.cost < 10 * Len(errKids')
      BY <1>2, <2>1
    <2>4. FirstIsBest'
      BY <1>1, <1>3, <1>6, <2>1, <2>2, <2>3, HeadsKept DEF FirstIsBest
    <2>5. Kept'
      BY <1>1, <2>2, HeadsKept DEF RecoveryInv, Kept, InRecovery
    <2> QED
      BY <1>1, <2>4, <2>5 DEF RecoveryInv, Attached
  <1> QED
    BY <1>5, <1>6

LEMMA NextRecovery ==
  ASSUME IInv, StackInv, RecoveryInv, Next
  PROVE  RecoveryInv'
  <1>1. CASE StartRecovery
    BY <1>1, StartRecoveryScans
  <1>2. CASE ResyncSkip
    BY <1>2, ResyncSkipScans
  <1>3. CASE ResyncFound
    BY <1>3, ResyncFoundScans
  <1>4. CASE Attach
    BY <1>4, AttachScans
  <1>5. CASE AttachDone
    BY <1>5, AttachDoneScans
  <1>6. CASE pc' \notin {"resync", "attach"}
    BY <1>6 DEF RecoveryInv, FirstIsBest, Attached, Kept, InRecovery
  <1>7. \/ StartRecovery \/ ResyncSkip \/ ResyncFound \/ Attach \/ AttachDone
        \/ pc' \notin {"resync", "attach"}
    BY DEF Next, Lap, Worklist, Walk, FixedPoint, Recovery,
           ReadToken, SkipEmptyToken, EndOfInput, AbortParse, StartWork, PopHead, ShiftToken,
           ReduceEmptyHead, StartReduce, AcceptInput, PassEntry, NextSymbol, HeadDone, EndUnaccepted,
           WalkDown, WalkUp, ReducePath, StartFixedPoint, FixReduceEmpty, FixPassEntry, FixNextHead,
           TokenDone, Resume, GiveUp
  <1> QED
    BY <1>1, <1>2, <1>3, <1>4, <1>5, <1>6, <1>7

LEMMA StutterRecovery ==
  ASSUME IInv, RecoveryInv, UNCHANGED vars
  PROVE  RecoveryInv'
  <1>1. UNCHANGED <<job, heads, pc, tok, at, best, errKids, nextHeads, cursor, tree, gss>>
    BY DEF vars, gssVars, treeVars
  <1>2. /\ \A p, q : Stalled(p, q)' <=> Stalled(p, q)
        /\ \A k : Usable(k)' <=> Usable(k)
        /\ \A a, k : Moved(a, k)' = Moved(a, k)
    BY <1>1, HeadsKept
  <1>3. SkippedFrom' = SkippedFrom /\ SkippedTo' = SkippedTo /\ InRecovery' = InRecovery
    BY <1>1 DEF SkippedFrom, SkippedTo, InRecovery
  <1>4. FirstIsBest'
    BY <1>1, <1>2, <1>3 DEF RecoveryInv, FirstIsBest
  <1>5. Attached'
    BY <1>1, <1>2 DEF RecoveryInv, Attached, Symbols, G, Source
  <1>6. Kept'
    BY <1>1, <1>2, <1>3 DEF RecoveryInv, Kept
  <1> QED
    BY <1>4, <1>5, <1>6 DEF RecoveryInv

(***************************************************************************)
(* In every state of a recovery, of every call, what was passed over is of *)
(* no use to any head, and the candidate found first is kept.              *)
(***************************************************************************)
THEOREM RecoveryInductive == Spec => []RecoveryInv
  <1>1. Init => RecoveryInv
    BY DEF Init, RecoveryInv, FirstIsBest, Attached, Kept, InRecovery
  <1>2. IInv /\ StackInv /\ RecoveryInv /\ [Next]_vars => RecoveryInv'
    BY NextRecovery, StutterRecovery
  <1> QED
    BY <1>1, <1>2, Inductive, StacksInductive, PTL DEF Spec

(***************************************************************************)
(* A recovery resumes at the earliest token that some stalled head has an  *)
(* action for, for every grammar and source: the scoring of the candidates *)
(* by the error nodes before them never prefers a later one.               *)
(***************************************************************************)
THEOREM Earliest == Spec => []EarliestResync
  <1>1. RecoveryInv => EarliestResync
    BY DEF RecoveryInv, FirstIsBest, EarliestResync, Stalled, Usable, SkippedFrom
  <1> QED
    BY <1>1, RecoveryInductive, PTL

(***************************************************************************)
(* The heads a recovery resumes with are those stalled heads that can take *)
(* the token, each in its own state, and no other.                         *)
(***************************************************************************)
THEOREM Survivors == Spec => []SurvivorsKept
  <1>1. ASSUME IInv, RecoveryInv, InRecovery, best # NoBest
        PROVE  {gss[best.heads[i]] : i \in DOMAIN best.heads} =
                 {[state |-> gss[h].state, pos |-> best.pos] :
                    h \in {h \in ToSet(heads) : CanTake(h, best.pos)}}
    <2>1. {gss[best.heads[i]] : i \in DOMAIN best.heads} = {gss[n] : n \in ToSet(best.heads)}
      BY DEF ToSet
    <2>2. {gss[n] : n \in ToSet(best.heads)} = Moved(Len(heads) + 1, best.pos)
      BY <1>1 DEF RecoveryInv, Kept
    <2>3. heads \in Seq(NodeIds)
      BY <1>1, Vectors
    <2>4. \A i \in DOMAIN heads : i < Len(heads) + 1
      BY <2>3
    <2>5. Moved(Len(heads) + 1, best.pos) =
            {[state |-> gss[h].state, pos |-> best.pos] :
               h \in {h \in ToSet(heads) : CanTake(h, best.pos)}}
      BY <2>4 DEF Moved, ToSet
    <2> QED
      BY <2>1, <2>2, <2>5
  <1>2. IInv /\ RecoveryInv => SurvivorsKept
    BY <1>1 DEF SurvivorsKept
  <1> QED
    BY <1>2, Inductive, RecoveryInductive, PTL
=============================================================================
