-------------------------------- MODULE Engine --------------------------------
(***************************************************************************)
(* Parser::parse_with_lexer and parse_incremental_with_lexer of            *)
(* glr-engine: the GLR loop over a graph structured stack, its             *)
(* token-skipping error recovery and its end-of-input reduction phase,     *)
(* with the parse tree built on the way.                                   *)
(*                                                                         *)
(* The engine is one thread.  The source text, the grammar, whether the    *)
(* lexer honours the valid-symbol mask, and the byte where an edit begins  *)
(* are the inputs of the call (job).  An incremental parse takes nothing   *)
(* from the old tree: reuse_prefix_nodes and try_reuse_suffix have no      *)
(* effect, and the marks go to a copy that is dropped.  In a full parse    *)
(* the progress callback may answer "abort" at any lap.  All else is       *)
(* determined, and the modelled grain is one parse-table entry, one edge   *)
(* of an ancestor walk, or one head of the recovery loop per step.         *)
(*                                                                         *)
(* Indices of the code's vectors start at 0, those of sequences here at 1; *)
(* 0 stands for None.  Rows, columns and the named flag are left out.      *)
(***************************************************************************)
EXTENDS GlrTables

CONSTANT Jobs   \* the calls: records [grammar, source, masked, from]

\* The start of the edit, in a full parse.
Whole == -1

JobOK(j) ==
  /\ GrammarOK(j.grammar)
  /\ j.source \in Seq(j.grammar.terminals \cup {UNKNOWN, BLANK, EMPTY})
  /\ j.masked \in BOOLEAN
  /\ j.from \in {Whole} \cup 0 .. Len(j.source)

ASSUME JobsAssumption == \A j \in Jobs : JobOK(j)

VARIABLES
  job,       \* the inputs of this call
  cursor,    \* byte offset of the lexer
  gss,       \* Gss::nodes, [state, pos]
  edges,     \* the edges of all nodes in the order they were added
  heads,     \* Gss::heads
  tree,      \* MutableTree::nodes, the attributes fixed at allocation
  link,      \* MutableTree::nodes, the attributes later steps overwrite
  pc,        \* where the engine stands
  tok,       \* the token in hand
  work,      \* TokenState::work, a stack
  queued,    \* TokenState::enqueued
  epsLog,    \* TokenState::epsilon_log
  nextHeads, \* TokenState::next_heads (its elements are TokenState::seen)
  cur,       \* the head, symbol and entry the inner loops stand at
  at,        \* index of the loops over next_heads and over gss.heads
  frames,    \* the stack of Gss::ancestor_paths, [node, edge]
  limit,     \* the edges that existed when ancestor_paths was called
  errStart,  \* error_start
  errKids,   \* error_children
  best,      \* best_heads, best_skip_byte and best_cost
  root       \* root of the frozen tree

gssVars == <<gss, edges>>
treeVars == <<tree, link>>
workVars == <<work, queued>>
walkVars == <<frames, limit>>
errVars == <<errStart, errKids, best>>
vars == <<job, cursor, gss, edges, heads, tree, link, pc, tok, work, queued,
          epsLog, nextHeads, cur, at, frames, limit, errStart, errKids, best, root>>

G == job.grammar
Source == job.source

\* Where the lexer starts.
StartByte == IF job.from = Whole THEN 0 ELSE job.from

-------------------------------------------------------------------------------
(* The lexer (TestLexer, and BuiltinLexer when the job is masked).         *)

TokenAt(k, valid) ==
  LET b == Source[k + 1]
  IN [kind  |-> IF b \in valid THEN b ELSE UNKNOWN,
      start |-> k,
      end   |-> IF b = EMPTY THEN k ELSE k + 1]

\* Fault: bytes that begin no token are passed over like blanks.
LexedPastUnknown(c, valid) ==
  {TokenAt(k, valid) :
     k \in {i \in c .. Len(Source) - 1 :
              /\ Source[i + 1] \notin {BLANK, UNKNOWN}
              /\ \A b \in c .. i - 1 : Source[b + 1] \in {BLANK, UNKNOWN}}}

\* next_token: the token at the first byte from c on that is not blank, if any.
Lexed(c, valid) ==
  {TokenAt(k, valid) :
     k \in {i \in c .. Len(Source) - 1 :
              /\ Source[i + 1] # BLANK
              /\ \A b \in c .. i - 1 : Source[b + 1] = BLANK}}

(***************************************************************************)
(* The mask of a lap.  Every head overwrites the whole buffer, so it holds *)
(* the valid symbols of the last head.  A recovery passes no mask.         *)
(***************************************************************************)
Mask == IF job.masked THEN ValidIn(G, gss[heads[Len(heads)]].state)
                      ELSE Symbols(G)

\* The token of the end-of-input phase, which has no token.
END == -5
EndToken == [kind |-> END, start |-> 0, end |-> 0]
AtEnd == tok.kind = END

-------------------------------------------------------------------------------
(* The graph-structured stack.                                             *)

\* Fault: nodes are found by their state alone.
NodeOfState(s, p) ==
  IF \E n \in DOMAIN gss : gss[n].state = s
  THEN CHOOSE n \in DOMAIN gss : gss[n].state = s
  ELSE Len(gss) + 1

\* find_or_create_node: the node of a key, or the index of the new one.
NodeAt(s, p) ==
  IF \E n \in DOMAIN gss : gss[n] = [state |-> s, pos |-> p]
  THEN CHOOSE n \in DOMAIN gss : gss[n] = [state |-> s, pos |-> p]
  ELSE Len(gss) + 1

\* find_or_create_node, then add_edge.
AddEdge(s, p, parent, label) ==
  /\ gss' = IF NodeAt(s, p) \in DOMAIN gss THEN gss
            ELSE Append(gss, [state |-> s, pos |-> p])
  /\ edges' = Append(edges, [child |-> NodeAt(s, p), parent |-> parent, label |-> label])

\* Fault: the walk takes edges that do not leave its node.
AnyEdges == frames[Len(frames)].edge + 1 .. limit

\* The edges an ancestor walk may still take from its top frame.
NextEdges ==
  {e \in frames[Len(frames)].edge + 1 .. limit :
     edges[e].child = frames[Len(frames)].node}

-------------------------------------------------------------------------------
(* The tree arena.                                                         *)

\* Fault: the id of the node allocated before.
LastId == Len(tree)

NewId == Len(tree) + 1

Unlinked(sym) == [kind |-> sym, field |-> 0, next |-> 0, parent |-> 0]

\* alloc_token.
AllocToken(sym, start, end) ==
  /\ tree' = Append(tree, [sym |-> sym, start |-> start, end |-> end, kids |-> <<>>])
  /\ link' = Append(link, Unlinked(sym))

\* The last index in I at which kid c stands, the one whose write remains.
LastSlot(kids, c, I) ==
  CHOOSE i \in I : kids[i] = c /\ \A j \in I : kids[j] = c => j <= i

\* Fault: the sibling of the last child is the first one.
LinkedRound(c, kids, id, field, alias) ==
  LET i == LastSlot(kids, c, DOMAIN kids)
  IN [kind   |-> link[c].kind,
      field  |-> link[c].field,
      next   |-> IF i < Len(kids) THEN kids[i + 1] ELSE kids[1],
      parent |-> id]

(***************************************************************************)
(* A child after alloc_internal linked it under parent id, and             *)
(* apply_production_metadata wrote the fields and aliases.                 *)
(***************************************************************************)
Linked(c, kids, id, field, alias) ==
  LET i == LastSlot(kids, c, DOMAIN kids)
  IN [kind   |-> IF \E j \in DOMAIN alias : kids[j] = c
                 THEN alias[LastSlot(kids, c, DOMAIN alias)] ELSE link[c].kind,
      field  |-> IF \E j \in DOMAIN field : kids[j] = c
                 THEN field[LastSlot(kids, c, DOMAIN field)] ELSE link[c].field,
      next   |-> IF i < Len(kids) THEN kids[i + 1] ELSE 0,
      parent |-> id]

AllocInternal(sym, start, end, kids, field, alias) ==
  /\ tree' = Append(tree, [sym |-> sym, start |-> start, end |-> end, kids |-> kids])
  /\ link' = Append([c \in DOMAIN link |->
                       IF c \in ToSet(kids) THEN Linked(c, kids, NewId, field, alias)
                                            ELSE link[c]],
                    Unlinked(sym))

NoNames == <<>>   \* no field and no alias

\* Fault: the first node that has no parent.
FirstParentless ==
  IF \E t \in DOMAIN link : link[t].parent = 0
  THEN CHOOSE t \in DOMAIN link :
         link[t].parent = 0 /\ \A u \in DOMAIN link : link[u].parent = 0 => t <= u
  ELSE 0

\* freeze: the root is the last node that has no parent.
LastParentless ==
  IF \E t \in DOMAIN link : link[t].parent = 0
  THEN CHOOSE t \in DOMAIN link :
         link[t].parent = 0 /\ \A u \in DOMAIN link : link[u].parent = 0 => u <= t
  ELSE 0

-------------------------------------------------------------------------------
(* TokenState.                                                             *)

\* Fault: a node is pushed each time it is reached.
EnqueueAgain(n) ==
  /\ work' = Append(work, n)
  /\ queued' = queued \cup {n}

Enqueue(n) ==
  /\ work' = IF n \in queued THEN work ELSE Append(work, n)
  /\ queued' = queued \cup {n}

AddHead(n) ==
  nextHeads' = IF n \in ToSet(nextHeads) THEN nextHeads ELSE Append(nextHeads, n)

\* Fault: next_heads of the token before are kept.
StartStale(t) ==
  /\ tok' = t
  /\ work' = heads
  /\ queued' = ToSet(heads)
  /\ epsLog' = {}
  /\ nextHeads' = nextHeads
  /\ pc' = "pop"

\* A fresh TokenState for token t: the worklist starts with all heads.
StartWork(t) ==
  /\ tok' = t
  /\ work' = heads
  /\ queued' = ToSet(heads)
  /\ epsLog' = {}
  /\ nextHeads' = <<>>
  /\ pc' = "pop"

NoBest == [heads |-> <<>>, pos |-> 0, cost |-> 0]

Init ==
  /\ job \in Jobs
  /\ cursor = StartByte
  /\ gss = <<[state |-> 0, pos |-> 0]>>
  /\ edges = <<>>
  /\ heads = <<1>>
  /\ tree = <<>>
  /\ link = <<>>
  /\ pc = "lex"
  /\ tok = EndToken
  /\ work = <<>>
  /\ queued = {}
  /\ epsLog = {}
  /\ nextHeads = <<>>
  /\ cur = [head |-> 1, sym |-> 0, entry |-> 1]
  /\ at = 1
  /\ frames = <<>>
  /\ limit = 0
  /\ errStart = StartByte
  /\ errKids = <<>>
  /\ best = NoBest
  /\ root = 0

-------------------------------------------------------------------------------
(* A lap of the main loop.                                                 *)

\* A token of some width: process_token starts.
ReadToken ==
  /\ pc = "lex"
  /\ \E t \in Lexed(cursor, Mask) :
       /\ t.start < t.end
       /\ cursor' = t.end
       /\ StartWork(t)
  /\ UNCHANGED <<job, gssVars, heads, treeVars, cur, at, walkVars, errVars, root>>

\* A zero-width token is passed over by moving the lexer one byte on.
SkipEmptyToken ==
  /\ pc = "lex"
  /\ \E t \in Lexed(cursor, Mask) :
       /\ t.start >= t.end
       /\ cursor' = t.start + 1
  /\ UNCHANGED <<job, gssVars, heads, treeVars, pc, tok, workVars, epsLog, nextHeads,
                 cur, at, walkVars, errVars, root>>

\* The lexer is exhausted: eof_reduction starts.
EndOfInput ==
  /\ pc = "lex"
  /\ Lexed(cursor, Mask) = {}
  /\ cursor' = Len(Source)
  /\ StartWork(EndToken)
  /\ UNCHANGED <<job, gssVars, heads, treeVars, cur, at, walkVars, errVars, root>>

\* The progress callback answers false: eof_reduction starts where we are.  The
\* operation counter it depends on outlives the call, so any lap may be the one.
AbortParse ==
  /\ pc = "lex"
  /\ job.from = Whole
  /\ StartWork(EndToken)
  /\ UNCHANGED <<job, cursor, gssVars, heads, treeVars, cur, at, walkVars, errVars, root>>

-------------------------------------------------------------------------------
(* The worklist of process_token and of eof_reduction.                     *)

PopHead ==
  /\ pc = "pop"
  /\ work # <<>>
  /\ work' = Front(work)
  /\ cur' = [head |-> Last(work), sym |-> IF AtEnd THEN 0 ELSE tok.kind, entry |-> 1]
  /\ pc' = "act"
  /\ UNCHANGED <<job, cursor, gssVars, heads, treeVars, tok, queued, epsLog, nextHeads,
                 at, walkVars, errVars, root>>

Cell == Actions(G, gss[cur.head].state, cur.sym)
Entry == Cell[cur.entry]
Production == G.prods[Entry.arg]
\* Fault: one symbol too few is popped.
ShortDepth == IF Production.rhs = <<>> THEN 0 ELSE Len(Production.rhs) - 1

Depth == Len(Production.rhs)
Position == gss[cur.head].pos

NextEntry == cur' = [cur EXCEPT !.entry = @ + 1]

AtEntry(op) ==
  /\ cur.entry <= Len(Cell)
  /\ Entry.op = op

\* Each head that shifts gets a leaf of its own; the shifted node is shared.
ShiftToken ==
  /\ pc = "act"
  /\ AtEntry("shift")
  /\ ~AtEnd
  /\ AllocToken(tok.kind, tok.start, tok.end)
  /\ AddEdge(Entry.arg, tok.end, cur.head, NewId)
  /\ AddHead(NodeAt(Entry.arg, tok.end))
  /\ NextEntry
  /\ UNCHANGED <<job, cursor, heads, pc, tok, workVars, epsLog, at, walkVars, errVars, root>>

EpsKey == <<gss[cur.head].state, Entry.arg>>
EmptyGoto == GotoState(G, gss[cur.head].state, Production.lhs)

\* reduce_epsilon_goto up to the look-up: the node is built even if no goto follows.
ReduceEmpty ==
  /\ AtEntry("reduce")
  /\ Depth = 0
  /\ EpsKey \notin epsLog
  /\ epsLog' = epsLog \cup {EpsKey}
  /\ AllocInternal(Production.lhs, Position, Position, <<>>, NoNames, NoNames)
  /\ NextEntry

ReduceEmptyHead ==
  /\ pc = "act"
  /\ ReduceEmpty
  /\ IF EmptyGoto = NoState
     THEN UNCHANGED <<gssVars, workVars>>
     ELSE /\ AddEdge(EmptyGoto, Position, cur.head, NewId)
          /\ Enqueue(NodeAt(EmptyGoto, Position))
  /\ UNCHANGED <<job, cursor, heads, pc, tok, nextHeads, at, walkVars, errVars, root>>

\* reduce_non_epsilon_goto: ancestor_paths starts at the head.
StartReduce ==
  /\ pc = "act"
  /\ AtEntry("reduce")
  /\ Depth > 0
  /\ frames' = <<[node |-> cur.head, edge |-> 0]>>
  /\ limit' = Len(edges)
  /\ pc' = "walk"
  /\ UNCHANGED <<job, cursor, gssVars, heads, treeVars, tok, workVars, epsLog, nextHeads,
                 cur, at, errVars, root>>

\* Accept ends the end-of-input phase at once.
AcceptInput ==
  /\ pc = "act"
  /\ AtEntry("accept")
  /\ AtEnd
  /\ root' = LastParentless
  /\ pc' = "done"
  /\ UNCHANGED <<job, cursor, gssVars, heads, treeVars, tok, workVars, epsLog, nextHeads,
                 cur, at, walkVars, errVars>>

PassEntry ==
  /\ pc = "act"
  /\ \/ AtEntry("goto")
     \/ AtEntry("accept") /\ ~AtEnd
     \/ AtEntry("shift") /\ AtEnd
     \/ AtEntry("reduce") /\ Depth = 0 /\ EpsKey \in epsLog
  /\ NextEntry
  /\ UNCHANGED <<job, cursor, gssVars, heads, treeVars, pc, tok, workVars, epsLog, nextHeads,
                 at, walkVars, errVars, root>>

\* Fault: the loop over the symbols stays where it is.
SameSymbol ==
  /\ pc = "act"
  /\ cur.entry > Len(Cell)
  /\ AtEnd
  /\ cur.sym + 1 < G.symbols
  /\ cur' = [cur EXCEPT !.entry = 1]
  /\ UNCHANGED <<job, cursor, gssVars, heads, treeVars, pc, tok, workVars, epsLog, nextHeads,
                 at, walkVars, errVars, root>>

\* At the end of input every symbol's cell is visited, not only one look-ahead's.
NextSymbol ==
  /\ pc = "act"
  /\ cur.entry > Len(Cell)
  /\ AtEnd
  /\ cur.sym + 1 < G.symbols
  /\ cur' = [cur EXCEPT !.sym = @ + 1, !.entry = 1]
  /\ UNCHANGED <<job, cursor, gssVars, heads, treeVars, pc, tok, workVars, epsLog, nextHeads,
                 at, walkVars, errVars, root>>

HeadDone ==
  /\ pc = "act"
  /\ cur.entry > Len(Cell)
  /\ AtEnd => cur.sym + 1 >= G.symbols
  /\ pc' = "pop"
  /\ UNCHANGED <<job, cursor, gssVars, heads, treeVars, tok, workVars, epsLog, nextHeads,
                 cur, at, walkVars, errVars, root>>

-------------------------------------------------------------------------------
(***************************************************************************)
(* ancestor_paths, a depth-first walk over the edges in insertion order.   *)
(* The code collects all paths before it uses the first: no edge added     *)
(* meanwhile is taken (limit).                                             *)
(***************************************************************************)

WalkDown ==
  /\ pc = "walk"
  /\ Len(frames) <= Depth
  /\ \E e \in NextEdges :
       /\ \A f \in NextEdges : e <= f
       /\ frames' = Append([frames EXCEPT ![Len(frames)].edge = e],
                           [node |-> edges[e].parent, edge |-> 0])
  /\ UNCHANGED <<job, cursor, gssVars, heads, treeVars, pc, tok, workVars, epsLog, nextHeads,
                 cur, at, limit, errVars, root>>

WalkUp ==
  /\ pc = "walk"
  /\ Len(frames) <= Depth
  /\ NextEdges = {}
  /\ frames' = Front(frames)
  /\ IF Len(frames) > 1
     THEN UNCHANGED <<pc, cur>>
     ELSE pc' = "act" /\ NextEntry
  /\ UNCHANGED <<job, cursor, gssVars, heads, treeVars, tok, workVars, epsLog, nextHeads,
                 at, limit, errVars, root>>

\* Fault: the path is not reversed.
PathUp == [i \in 1 .. Depth |-> edges[frames[i].edge].label]

\* The children of the path in frames, leftmost first, and where it ends.
PathKids == [i \in 1 .. Depth |-> edges[frames[Depth + 1 - i].edge].label]
Ancestor == frames[Len(frames)].node
\* Fault: the goto of the head and not of the ancestor.
HeadGoto == GotoState(G, gss[cur.head].state, Production.lhs)
PathGoto == GotoState(G, gss[Ancestor].state, Production.lhs)

\* A path is complete: build the node, follow the goto of the ancestor.
ReducePath ==
  /\ pc = "walk"
  /\ Len(frames) = Depth + 1
  /\ AllocInternal(Production.lhs, tree[PathKids[1]].start, tree[PathKids[Depth]].end,
                   PathKids, Production.field, Production.alias)
  /\ IF PathGoto = NoState
     THEN UNCHANGED <<gssVars, workVars>>
     ELSE /\ AddEdge(PathGoto, Position, Ancestor, NewId)
          /\ Enqueue(NodeAt(PathGoto, Position))
  /\ frames' = Front(frames)
  /\ UNCHANGED <<job, cursor, heads, pc, tok, epsLog, nextHeads, cur, at, limit, errVars, root>>

-------------------------------------------------------------------------------
(***************************************************************************)
(* The worklist is empty.  epsilon_fixed_point follows, with the token     *)
(* just shifted as look-ahead.  A later pass of its loop finds every key   *)
(* of an earlier head in the log, so one sweep over the growing next_heads *)
(* stands for the repeated passes.                                         *)
(***************************************************************************)
FirstSweep(i) == cur' = [head |-> nextHeads[i], sym |-> tok.kind, entry |-> 1]

StartFixedPoint ==
  /\ pc = "pop"
  /\ work = <<>>
  /\ ~AtEnd
  /\ nextHeads # <<>>
  /\ at' = 1
  /\ FirstSweep(1)
  /\ pc' = "fix"
  /\ UNCHANGED <<job, cursor, gssVars, heads, treeVars, tok, workVars, epsLog, nextHeads,
                 walkVars, errVars, root>>

FixReduceEmpty ==
  /\ pc = "fix"
  /\ ReduceEmpty
  /\ IF EmptyGoto = NoState
     THEN UNCHANGED <<gssVars, nextHeads>>
     ELSE /\ AddEdge(EmptyGoto, Position, cur.head, NewId)
          /\ AddHead(NodeAt(EmptyGoto, Position))
  /\ UNCHANGED <<job, cursor, heads, pc, tok, workVars, at, walkVars, errVars, root>>

FixPassEntry ==
  /\ pc = "fix"
  /\ cur.entry <= Len(Cell)
  /\ ~(Entry.op = "reduce" /\ Depth = 0 /\ EpsKey \notin epsLog)
  /\ NextEntry
  /\ UNCHANGED <<job, cursor, gssVars, heads, treeVars, pc, tok, workVars, epsLog, nextHeads,
                 at, walkVars, errVars, root>>

\* Fault: the sweep stays at its head.
FixSameHead ==
  /\ pc = "fix"
  /\ cur.entry > Len(Cell)
  /\ at < Len(nextHeads)
  /\ FirstSweep(at)
  /\ UNCHANGED <<job, cursor, gssVars, heads, treeVars, pc, tok, workVars, epsLog, nextHeads,
                 at, walkVars, errVars, root>>

FixNextHead ==
  /\ pc = "fix"
  /\ cur.entry > Len(Cell)
  /\ at < Len(nextHeads)
  /\ at' = at + 1
  /\ FirstSweep(at + 1)
  /\ UNCHANGED <<job, cursor, gssVars, heads, treeVars, pc, tok, workVars, epsLog, nextHeads,
                 walkVars, errVars, root>>

TokenDone ==
  /\ pc = "fix"
  /\ cur.entry > Len(Cell)
  /\ at = Len(nextHeads)
  /\ heads' = nextHeads
  /\ pc' = "lex"
  /\ UNCHANGED <<job, cursor, gssVars, treeVars, tok, workVars, epsLog, nextHeads,
                 cur, at, walkVars, errVars, root>>

\* eof_reduction runs out of work without meeting Accept.
EndUnaccepted ==
  /\ pc = "pop"
  /\ work = <<>>
  /\ AtEnd
  /\ root' = LastParentless
  /\ pc' = "done"
  /\ UNCHANGED <<job, cursor, gssVars, heads, treeVars, tok, workVars, epsLog, nextHeads,
                 cur, at, walkVars, errVars>>

-------------------------------------------------------------------------------
(* try_error_recovery_impl, entered when no head could shift the token.    *)

\* The failed token becomes the first child of the error node.
StartRecovery ==
  /\ pc = "pop"
  /\ work = <<>>
  /\ ~AtEnd
  /\ nextHeads = <<>>
  /\ AllocToken(ERROR, errStart, tok.end)
  /\ errKids' = <<NewId>>
  /\ errStart' = tok.end
  /\ best' = NoBest
  /\ pc' = "resync"
  /\ UNCHANGED <<job, cursor, gssVars, heads, tok, workVars, epsLog, nextHeads,
                 cur, at, walkVars, root>>

\* The heads were left where they stood before the failed token.
Continues(h, a) ==
  \E e \in ToSet(Actions(G, gss[h].state, a)) : e.op \in {"shift", "reduce", "accept"}

\* The skipped token joins the children of the error node.
SkipToken(t) ==
  /\ AllocToken(ERROR, t.start, t.end)
  /\ errKids' = Append(errKids, NewId)
  /\ errStart' = t.end

\* No head can continue on the next token: skip it.
ResyncSkip ==
  /\ pc = "resync"
  /\ \E t \in Lexed(cursor, Symbols(G)) :
       /\ ~\E i \in DOMAIN heads : Continues(heads[i], t.kind)
       /\ cursor' = t.end
       /\ tok' = t
       /\ SkipToken(t)
  /\ UNCHANGED <<job, gssVars, heads, pc, workVars, epsLog, nextHeads,
                 cur, at, walkVars, best, root>>

\* Some head can: an error node over all that was skipped so far.
ResyncFound ==
  /\ pc = "resync"
  /\ \E t \in Lexed(cursor, Symbols(G)) :
       /\ \E i \in DOMAIN heads : Continues(heads[i], t.kind)
       /\ cursor' = t.end
       /\ tok' = t
  /\ AllocInternal(ERROR, tree[errKids[1]].start, tree[Last(errKids)].end,
                   errKids, NoNames, NoNames)
  /\ nextHeads' = <<>>
  /\ at' = 1
  /\ pc' = "attach"
  /\ UNCHANGED <<job, gssVars, heads, workVars, epsLog, cur, walkVars, errVars, root>>

\* Fault: the error node is pushed on heads that cannot continue, too.
AttachAll ==
  /\ pc = "attach"
  /\ at <= Len(heads)
  /\ at' = at + 1
  /\ AddEdge(gss[heads[at]].state, tok.start, heads[at], Len(tree))
  /\ AddHead(NodeAt(gss[heads[at]].state, tok.start))
  /\ UNCHANGED <<job, cursor, heads, treeVars, pc, tok, workVars, epsLog, cur,
                 walkVars, errVars, root>>

\* Fault: the error node is pushed at the position of the head.
AttachInPlace ==
  /\ pc = "attach"
  /\ at <= Len(heads)
  /\ at' = at + 1
  /\ IF Continues(heads[at], tok.kind)
     THEN /\ AddEdge(gss[heads[at]].state, gss[heads[at]].pos, heads[at], Len(tree))
          /\ AddHead(NodeAt(gss[heads[at]].state, gss[heads[at]].pos))
     ELSE UNCHANGED <<gssVars, nextHeads>>
  /\ UNCHANGED <<job, cursor, heads, treeVars, pc, tok, workVars, epsLog, cur,
                 walkVars, errVars, root>>

\* The error node is pushed on each head that can continue.
Attach ==
  /\ pc = "attach"
  /\ at <= Len(heads)
  /\ at' = at + 1
  /\ IF Continues(heads[at], tok.kind)
     THEN /\ AddEdge(gss[heads[at]].state, tok.start, heads[at], Len(tree))
          /\ AddHead(NodeAt(gss[heads[at]].state, tok.start))
     ELSE UNCHANGED <<gssVars, nextHeads>>
  /\ UNCHANGED <<job, cursor, heads, treeVars, pc, tok, workVars, epsLog, cur,
                 walkVars, errVars, root>>

\* Fault: a later, dearer candidate replaces the one at hand.
AttachDoneLatest ==
  /\ pc = "attach"
  /\ at > Len(heads)
  /\ best' = [heads |-> nextHeads, pos |-> tok.start, cost |-> 10 * Len(errKids)]
  /\ SkipToken(tok)
  /\ pc' = "resync"
  /\ UNCHANGED <<job, cursor, gssVars, heads, tok, workVars, epsLog, nextHeads,
                 cur, at, walkVars, root>>

\* The candidate is kept if it is cheaper; the scan goes on to the end of input.
AttachDone ==
  /\ pc = "attach"
  /\ at > Len(heads)
  /\ best' = IF best = NoBest \/ 10 * Len(errKids) < best.cost
             THEN [heads |-> nextHeads, pos |-> tok.start, cost |-> 10 * Len(errKids)]
             ELSE best
  /\ SkipToken(tok)
  /\ pc' = "resync"
  /\ UNCHANGED <<job, cursor, gssVars, heads, tok, workVars, epsLog, nextHeads,
                 cur, at, walkVars, root>>

\* The lexer goes back to the best candidate.
Resume ==
  /\ pc = "resync"
  /\ Lexed(cursor, Symbols(G)) = {}
  /\ best # NoBest
  /\ cursor' = best.pos
  /\ heads' = best.heads
  /\ pc' = "lex"
  /\ UNCHANGED <<job, gssVars, treeVars, tok, workVars, epsLog, nextHeads,
                 cur, at, walkVars, errVars, root>>

\* No candidate: the main loop is left.
GiveUp ==
  /\ pc = "resync"
  /\ Lexed(cursor, Symbols(G)) = {}
  /\ best = NoBest
  /\ cursor' = Len(Source)
  /\ StartWork(EndToken)
  /\ UNCHANGED <<job, gssVars, heads, treeVars, cur, at, walkVars, errVars, root>>

-------------------------------------------------------------------------------
Lap == ReadToken \/ SkipEmptyToken \/ EndOfInput \/ AbortParse

Worklist == \/ PopHead \/ ShiftToken \/ ReduceEmptyHead \/ StartReduce \/ AcceptInput
            \/ PassEntry \/ NextSymbol \/ HeadDone \/ EndUnaccepted

Walk == WalkDown \/ WalkUp \/ ReducePath

FixedPoint == StartFixedPoint \/ FixReduceEmpty \/ FixPassEntry \/ FixNextHead \/ TokenDone

Recovery == \/ StartRecovery \/ ResyncSkip \/ ResyncFound \/ Attach \/ AttachDone
            \/ Resume \/ GiveUp

Next == Lap \/ Worklist \/ Walk \/ FixedPoint \/ Recovery

\* The call runs in one thread that takes its next step as long as it has one.
Spec == Init /\ [][Next]_vars /\ WF_vars(Next)
=============================================================================
