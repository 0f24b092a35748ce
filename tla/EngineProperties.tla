--------------------------- MODULE EngineProperties ---------------------------
(***************************************************************************)
(* What the GLR engine promises.                                           *)
(***************************************************************************)
EXTENDS Engine

Bytes == 0 .. Len(Source)
NodeIds == DOMAIN gss
TreeIds == DOMAIN tree
Labels == Symbols(G) \cup {ERROR}
Kinds == G.terminals \cup {UNKNOWN, END}

\* The state is well typed where nodes, edges and trees may be indexed by N, 1 .. E and T.
TypedIn(N, E, T) ==
  /\ cursor \in Bytes
  /\ gss \in Seq([state : States(G), pos : Bytes])
  /\ edges \in Seq([child : N, parent : N, label : T])
  /\ heads \in Seq(N)
  /\ heads # <<>>
  /\ tree \in Seq([sym : Labels, start : Bytes, end : Bytes, kids : Seq(T)])
  /\ link \in Seq([kind : Int, field : Nat, next : T \cup {0}, parent : T \cup {0}])
  /\ Len(link) = Len(tree)
  /\ pc \in {"lex", "pop", "act", "walk", "fix", "resync", "attach", "done"}
  /\ tok \in [kind : Kinds, start : Bytes, end : Bytes]
  /\ work \in Seq(N)
  /\ queued \subseteq N
  /\ epsLog \subseteq States(G) \X DOMAIN G.prods
  /\ nextHeads \in Seq(N)
  /\ cur \in [head : N, sym : Symbols(G) \cup {UNKNOWN}, entry : Nat \ {0}]
  /\ at \in Nat \ {0}
  /\ frames \in Seq([node : N, edge : 0 .. E])
  /\ limit \in 0 .. E
  /\ errStart \in Bytes
  /\ errKids \in Seq(T)
  /\ best \in [heads : Seq(N), pos : Bytes, cost : Nat]
  /\ root \in T \cup {0}

(***************************************************************************)
(* The type invariant: every index the engine holds lies inside the vector *)
(* it points into, which the indexing of gss.nodes, tree.nodes, productions *)
(* and the table relies on.                                                *)
(***************************************************************************)
TypeOK == TypedIn(NodeIds, Len(edges), TreeIds)

-------------------------------------------------------------------------------
(* The stack.                                                              *)

HeadPos == gss[heads[1]].pos
InWork == pc \in {"pop", "act", "walk"}

(***************************************************************************)
(* All heads stand at one position, where the last consumed token ended,   *)
(* also after a recovery moved them and while a token is being processed:  *)
(* GLR merges stacks by (state, position), so two heads at different       *)
(* positions could never meet again.                                       *)
(***************************************************************************)
HeadsAligned ==
  /\ \A i \in DOMAIN heads : gss[heads[i]].pos = HeadPos
  /\ InWork => \A n \in queued : gss[n].pos = HeadPos
  /\ InWork \/ pc = "fix" =>
       \A i \in DOMAIN nextHeads : gss[nextHeads[i]].pos = tok.end
  /\ pc = "attach" => \A i \in DOMAIN nextHeads : gss[nextHeads[i]].pos = tok.start

(***************************************************************************)
(* No node is processed twice for one token: what is popped never comes    *)
(* back on the worklist, the reason why the loops end on grammars with     *)
(* cycles of unit and empty productions.                                   *)
(***************************************************************************)
NoRework ==
  /\ IsInjective(work)
  /\ InWork => ToSet(work) \subseteq queued
  /\ pc \in {"act", "walk"} => cur.head \in queued \ ToSet(work)

(***************************************************************************)
(* A step that changes the heads moves them on: no lap leaves the parse at *)
(* the position where it found it, with or without an error.               *)
(***************************************************************************)
HeadsAdvance == [][heads' # heads => gss'[heads'[1]].pos > HeadPos]_vars

(***************************************************************************)
(* parse_with_lexer returns, for every grammar (also with empty, cyclic    *)
(* and ambiguous productions) and every source without zero-width tokens   *)
(* in an erroneous stretch.                                                *)
(***************************************************************************)
Terminates == <>(pc = "done")

\* A stack edge as the calculus sees it: nodes by their keys, the tree node by its symbol.
KeyOf(e) == [child |-> gss[e.child], parent |-> gss[e.parent], sym |-> tree[e.label].sym]
StackOf == {KeyOf(edges[i]) : i \in DOMAIN edges}

Calculus == INSTANCE GlrCalculus WITH stack <- StackOf

(***************************************************************************)
(* The engine implements the calculus of GLR parsing: every edge it adds   *)
(* is the shift of the next token, a reduction over a path that is really  *)
(* there, or an error edge, from the right node to the right node.         *)
(***************************************************************************)
ImplementsCalculus == Calculus!Spec

-------------------------------------------------------------------------------
(* The tree, while no error was met.                                       *)

Clean == errKids = <<>>

(***************************************************************************)
(* The tree node on a stack edge spans source that lies between the        *)
(* positions of the two stack nodes, and ends at the upper one.  Spans     *)
(* come from first and last child, positions from the table walk: a path   *)
(* that is too short, too long or out of order makes the two disagree.     *)
(***************************************************************************)
SpansBracket ==
  Clean => \A i \in DOMAIN edges :
     LET e == edges[i]
         t == tree[e.label]
     IN /\ gss[e.parent].pos <= t.start
        /\ t.start <= t.end
        /\ t.end = gss[e.child].pos

(***************************************************************************)
(* The children of every node spell the right side of a production of its  *)
(* symbol: each reduction pops exactly what its item had recognised.       *)
(***************************************************************************)
NodesAreProductions ==
  Clean => \A t \in TreeIds :
     tree[t].kids # <<>> =>
       \E p \in DOMAIN G.prods :
         /\ G.prods[p].lhs = tree[t].sym
         /\ G.prods[p].rhs = [i \in DOMAIN tree[t].kids |-> tree[tree[t].kids[i]].sym]

\* The positions of the tokens under each tree node, from left to right.
Yield ==
  LET y[t \in TreeIds] ==
        IF tree[t].sym \in G.terminals THEN <<tree[t].start>>
        ELSE FlattenSeq([i \in DOMAIN tree[t].kids |-> y[tree[t].kids[i]]])
  IN y

\* A token that the call reads starts at byte k: those in front of its first byte are
\* passed over.
IsToken(k) == k >= StartByte /\ Source[k + 1] \notin NoToken

\* The positions of the tokens in [p, q).
TokensIn(p, q) ==
  LET t[k \in Bytes] ==
        IF k <= p THEN <<>>
        ELSE IF IsToken(k - 1) THEN Append(t[k - 1], k - 1)
        ELSE t[k - 1]
  IN t[q]

(***************************************************************************)
(* The node on an edge derives exactly the tokens between the positions of *)
(* the edge's ends: nothing is lost, repeated or reordered, although the   *)
(* stacks of several interpretations share nodes.                          *)
(***************************************************************************)
EdgesYield ==
  Clean => LET y == Yield
           IN \A i \in DOMAIN edges :
                y[edges[i].label] = TokensIn(gss[edges[i].parent].pos, gss[edges[i].child].pos)

-------------------------------------------------------------------------------
(* Against a reference: the symbols that derive each stretch of the tokens, *)
(* by bottom-up closure.  A fact <<x, <<i, j>>>> says that x derives the    *)
(* tokens after the i-th up to the j-th.                                    *)

Stretches(tokens) ==
  {s \in (0 .. Len(tokens)) \X (0 .. Len(tokens)) : s[1] <= s[2]}

\* The stretch s falls into as many as rhs has symbols, each derived by its own.
Splits(rhs, s, D) ==
  \E c \in [0 .. Len(rhs) -> s[1] .. s[2]] :
     /\ c[0] = s[1]
     /\ c[Len(rhs)] = s[2]
     /\ \A k \in 1 .. Len(rhs) : <<rhs[k], <<c[k - 1], c[k]>>>> \in D

\* D and what follows from it in one step.
Deduced(tokens, D) ==
  D \cup {<<tokens[i], <<i - 1, i>>>> : i \in DOMAIN tokens}
    \cup UNION {{<<G.prods[p].lhs, s>> :
                   s \in {s \in Stretches(tokens) : Splits(G.prods[p].rhs, s, D)}} :
                p \in DOMAIN G.prods}

Names(tokens) == ToSet(tokens) \cup {G.prods[p].lhs : p \in DOMAIN G.prods}

\* The facts after the first steps that add none; there are no more steps than facts.
Derived(tokens) ==
  LET n == Cardinality(Names(tokens) \X Stretches(tokens))
      d[m \in 0 .. n] == IF m = 0 THEN {} ELSE Deduced(tokens, d[m - 1])
  IN d[CHOOSE m \in 0 .. n : Deduced(tokens, d[m]) = d[m]]

StartSymbol == G.prods[1].lhs
IsSentence(tokens) == <<StartSymbol, <<0, Len(tokens)>>>> \in Derived(tokens)

\* The tokens of the whole source, and those that the call reads.
AllTokens == SelectSeq(Source, LAMBDA b : b \notin NoToken)
TokensRead == [i \in DOMAIN TokensIn(0, Len(Source)) |-> Source[TokensIn(0, Len(Source))[i] + 1]]

\* What the call reads is a sentence.
InLanguage == IsSentence(TokensRead)

\* The call ended with all of the source consumed.
Finished == pc = "done" /\ cursor = Len(Source)

\* The edges from the bottom of the stack that carry the start symbol over all tokens.
Spanning ==
  {i \in DOMAIN edges :
     /\ edges[i].parent = 1
     /\ TokensIn(gss[edges[i].child].pos, Len(Source)) = <<>>
     /\ tree[edges[i].label].sym = StartSymbol}

\* What the engine reduces to the start symbol without an error is a sentence.
NoFalseAccept == Finished /\ Clean /\ Spanning # {} => InLanguage

\* A sentence meets no error, and is reduced to the start symbol, if no token is masked.
NoFalseReject ==
  pc \in {"resync", "done"} /\ ~job.masked /\ InLanguage => Clean /\ (Finished => Spanning # {})

(***************************************************************************)
(* freeze: the last node without a parent is the accepted root (its doc    *)
(* says reliably), a node of the start symbol over all tokens.             *)
(***************************************************************************)
RootIsAccepted ==
  Finished /\ Clean /\ InLanguage =>
    /\ root # 0
    /\ tree[root].sym = StartSymbol
    /\ Yield[root] = TokensIn(0, Len(Source))

(***************************************************************************)
(* parse_incremental returns the tree of a full parse of the new source:   *)
(* of a sentence, one without an error and with all of its tokens.         *)
(***************************************************************************)
IncrementalIsFull ==
  Finished /\ job.from # Whole /\ IsSentence(AllTokens) =>
    /\ Clean
    /\ root # 0
    /\ tree[root].sym = StartSymbol
    /\ Len(Yield[root]) = Len(AllTokens)

-------------------------------------------------------------------------------
(* The tree that is returned, made of the links and not of the kids.       *)

Slot(c) == LastSlot(tree[link[c].parent].kids, c, DOMAIN tree[link[c].parent].kids)

\* A child is older than its parent; its sibling has a newer parent or the same and a later slot.
LinksForward(c) ==
  /\ link[c].parent # 0 => c < link[c].parent
  /\ link[c].next # 0 =>
       LET d == link[c].next
       IN /\ link[c].parent # 0
          /\ \/ link[c].parent < link[d].parent
             \/ link[c].parent = link[d].parent /\ Slot(c) < Slot(d)

(***************************************************************************)
(* The walks of freeze over first_child and next_sibling end: a parent is  *)
(* newer than its child, and along a sibling chain the parents get newer   *)
(* or the slots rise.  A subtree shared by several parents has its link    *)
(* overwritten by each, so a chain may cross parents; it never closes.     *)
(***************************************************************************)
SiblingChainsEnd == \A c \in TreeIds : LinksForward(c)

FirstChild(t) == IF tree[t].kids = <<>> THEN 0 ELSE tree[t].kids[1]

\* The children of node t in the frozen tree; if its chain comes to t, t is not yet mapped there.
FrozenKids(t) ==
  LET chain[n \in 0 .. Len(tree)] ==
        IF n = 0 THEN {FirstChild(t)}
        ELSE LET C == chain[n - 1] IN C \cup {link[c].next : c \in C \ {0}}
  IN chain[Len(tree)] \ {0, t}

Frozen ==
  LET below[n \in 0 .. Len(tree)] ==
        IF n = 0 THEN {root} \ {0}
        ELSE LET B == below[n - 1] IN B \cup UNION {FrozenKids(t) : t \in B}
  IN below[Len(tree)]

(***************************************************************************)
(* check_tree_invariants of glr-conformance, on the returned tree.         *)
(***************************************************************************)
FrozenSpansNest ==
  Finished => \A t \in Frozen :
    /\ tree[t].start <= tree[t].end
    /\ \A c \in FrozenKids(t) : tree[t].start <= tree[c].start /\ tree[c].end <= tree[t].end

-------------------------------------------------------------------------------
(* Recovery.                                                               *)

InRecovery == pc \in {"resync", "attach"}

\* Head h has an action for the token at byte k.
CanTake(h, k) ==
  \E e \in ToSet(Actions(G, gss[h].state, Source[k + 1])) : e.op # "goto"

(***************************************************************************)
(* The parse resumes at the earliest token some stalled head has an action *)
(* for, although recovery reads on to the end of the source and scores     *)
(* every later candidate: no token that could be used is thrown away.      *)
(***************************************************************************)
EarliestResync ==
  InRecovery /\ best # NoBest =>
    /\ \E i \in DOMAIN heads : CanTake(heads[i], best.pos)
    /\ \A k \in tree[errKids[1]].end .. best.pos - 1 :
         \A i \in DOMAIN heads : ~CanTake(heads[i], k)

(***************************************************************************)
(* Every stalled head that can continue there survives, in its own state   *)
(* and behind an ERROR edge, and no other does.                            *)
(***************************************************************************)
SurvivorsKept ==
  InRecovery /\ best # NoBest =>
    {gss[best.heads[i]] : i \in DOMAIN best.heads} =
      {[state |-> gss[h].state, pos |-> best.pos] :
         h \in {h \in ToSet(heads) : CanTake(h, best.pos)}}

(***************************************************************************)
(* Lexer::next_token: a terminal some head has an action for is marked     *)
(* valid, so the lexer may not answer UNKNOWN for it.                      *)
(***************************************************************************)
ValidTokenKept ==
  InWork /\ ~AtEnd => \A i \in DOMAIN heads :
    Source[tok.start + 1] \in ValidIn(G, gss[heads[i]].state)
      => tok.kind = Source[tok.start + 1]
=============================================================================
