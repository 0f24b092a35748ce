# glrust in TLA+

TLA+ models of the GLR parser in this repository, the TLC runs that check them on
small instances, and theorems that TLAPS checks: about the parser for every grammar
and every source, about the table generator for every grammar, about the lexer for all
literals, patterns and sources, about the operations of every frozen tree, and about
queries and highlighting for every tree and all queries.

The centre is `glr-engine`: the loop that parses a token stream with all
interpretations at once over a graph-structured stack. Around it are the grammar
compiler and the generator that make the parse tables, the built-in lexer, and the
clients of a finished tree with the compiler of their queries.

```
 grammar file --> GrammarCompiler --> TableGen --> table --+
                  (GrammarRules)      (LR1)                v
                        glr-grammar                     Engine  <-- next_token, -- Lexer
 test grammar ----> LR0Builder ----------------------> glr-engine   reset_to      glr-lexer
 (tests/common)                                            |
                                                           v freeze
                              TreeOps, Query <------- Trees (frozen tree, shared subtrees)
       query text --> QueryText --^         glr-core, glr-query, glr-syntax
```

To check one run: `tlc -config MCEngine.cfg MCEngine`. To check the proofs:
`tlapm M.tla` for `EngineProofs`, `CalculusProofs`, `NodeProofs`, `LexerProofs`,
`SequenceLemmas`, `TableProofs`, `TreeProofs`, `QueryProofs`.

## 1. The system

| part | state it keeps | operations | hard behaviour |
|---|---|---|---|
| parser (`glr-engine/src/parser.rs`) | current heads, `TokenState` (worklist, nodes enqueued, log of empty reductions, next heads), error children | `parse_with_lexer`, `parse_incremental_with_lexer`, one lap per token, end-of-input phase, `try_error_recovery_impl` | several interpretations share nodes; an edge may arrive at a node already processed; cycles of unit and empty productions; a token retried after each recovery; an abort in the middle |
| graph-structured stack (`gss.rs`) | nodes keyed by (state, position), edges with tree labels, heads | `find_or_create_node`, `add_edge`, `ancestor_paths` | a path must have exactly the length of the production and see no edge added after the walk began |
| tree arena (`glr-core` `MutableTree`) | nodes with first child, next sibling, parent | `alloc_token`, `alloc_internal`, `freeze` | a child of several parents has its links overwritten; the root is found by allocation order |
| table generator (`table_gen.rs`) | nullable, FIRST, LR(1) states, rows, split rows | `generate_with_extras` | fixed points, a list that grows while scanned, precedence that removes entries while the cell is walked, two row representations |
| test grammar builder, test lexer (`glr-engine/tests`) | — | `TestGrammarBuilder::build`, `TestLexer::next_token` | none; they supply the engine's tests, and here its grammars |
| built-in lexer (`dfa.rs`) | trie, byte offset, row, column | `DfaBuilder`, `next_token`, `reset_to`, `position_at` | longest match needs to go back; zero-width tokens; rows and columns counted in two ways |
| external scanner, `CompositeLexer` (`scanner.rs`) | serialised scanner state | `next_token`, `reset_to` | saved in each stack node and never read back |
| frozen tree (`glr-core` `Tree`) | immutable arena, a flag per node | `TreeCursor`, `node_at_byte`, `mark_edit_range` | shared subtrees, spans that only touch, empty nodes |
| query compiler (`glr-query/src/compile.rs`) | place in the text, calls of `parse_pattern` that are open, captures | `compile_query` | a name read in the wrong loop belongs to another pattern; a text that ends too soon |
| queries (`glr-query`) | walk stack, next pattern | `QueryMatches::next`, `try_match` | greedy choice of children, next sibling found by identity |
| highlighting (`glr-syntax`) | captures, ranges laid so far | `highlight` | a range cut by several earlier ones |
| grammar compiler (`compile.rs`) | expanded rules, symbols and their ids, fields, productions | `compile_grammar` | ids in the order of a hash map; indices of children moved through nested parts; repetitions that add symbols in the middle of a rule; inline rules that never end |

Nothing runs concurrently inside a parse: a parse, a generation and a reading are
each one call in one thread, and what is nondeterministic is the input, the progress
callback's answer and the mask. The interleavings that are hard to test are those of
*interpretations*: the order in which heads, table entries, edges and look-aheads are
taken, over structures the interpretations share. A frozen tree is immutable, and
marking works on a copy, so its readers do not interfere.

What makes each part correct:

- parser: it returns; every stack edge is a shift or a reduction the table allows;
  the sentences of the grammar and nothing else are reduced to the start symbol; no
  lap and no recovery stands still; recovery resumes at the first usable token.
- arena: a node's children spell a production and yield the tokens of its span;
  sibling chains end; the root is the accepted node.
- grammar compiler: the productions derive what the rules say, in every order of the
  map; a field or alias marks the children it was written around; a file is refused
  exactly when its inline rules do not end.
- generator: nullable and FIRST are exact, every transition is in the table once,
  precedence removes losers only and leaves no decidable conflict, the stored table
  answers what was generated.
- lexer: of the literals the longest, of the patterns the longest run, no byte lost or read twice, positions right after any
  sequence of tokens and resets, and the end is reached.
- query compiler: the patterns are those the text was written from, captures included,
  and half a text is refused.
- readers: a cursor meets every node, a search finds the innermost one, marks are
  exact, queries miss nothing, each byte has the highlight of highest priority.

## 2. The modules

| module | models | state and actions |
|---|---|---|
| `GlrTables` | `glr-core` grammar and parse table | no state. A table is a function from state and symbol to a sequence of entries; `Actions` is `lookup`, `GotoState` is `find_goto`, `ValidIn` is `fill_valid_symbols` of one state. `GrammarOK` is what a built grammar satisfies |
| `LR0Builder` | `TestGrammarBuilder::build` | no state; recursive functions that build the LR(0) sets and cells in the builder's order |
| `LR1` | the functions of `table_gen.rs` | no state; passes, closure, goto, rows, extras, precedence, split, `SplitLookup`, and `Compiled`, the whole generation as one operator |
| `TableGen` | `generate_with_extras` | the loops around the operators of `LR1`: one pass, one transition, one row per step; `stage` is the place in the function |
| `GrammarRules` | the functions of `compile.rs` on one rule, the types of `json_schema.rs` | no state; rules are trees of records, `ctx` is `CompileCtx`. `Readable`, `Expand`, `Discover`, `CompileOne` are `Rule::deserialize`, `expand_inline`, `discover_symbols`, `compile_single` |
| `GrammarCompiler` | `compile_grammar` and its call of the generator | `ReadFile`, one rule per `ExpandRule` and `CompileRule`, `CollectSymbols`, `CallGenerator`; `order` is the order of the map, `step` the place in the function. Extends `TableGen`, which takes over with what was compiled |
| `Engine` | `parser.rs`, `gss.rs`, `MutableTree` | one step per table entry, per edge of an ancestor walk, or per head of recovery; `pc` is the loop the code is in. See below |
| `GlrCalculus` | the abstract specification of the engine | one set of edges; `Shifts`, `Reduces`, `Resyncs` add a justified edge, in any order |
| `EngineProperties` | — | type invariant and properties of `Engine`; `Calculus` is `GlrCalculus` with the refinement mapping |
| `EngineProofs`, `CalculusProofs`, `NodeProofs` | — | theorems about `Engine`; each extends the one before |
| `LexerProofs`, `TableProofs` | — | theorems about `Lexer`, `TableGen` |
| `TreeProofs`, `QueryProofs` | — | theorems about `TreeReaders`: the tasks of `TreeOps`; queries and highlighting |
| `SequenceLemmas` | — | what the last three share: least elements, bounded induction, functions that go through a sequence, joined sequences |
| `Lexer` | `DfaBuilder`, `BuiltinLexer` | trie construction and `next_token` byte by byte, `reset_to` by two kinds of client |
| `Trees` | the arena of a frozen tree | the tree of a reading, its pre-order |
| `TreeOps` | `TreeCursor`, `node_at_byte`, `mark_edit_range` | one cursor call, failing ones included, one level of the search, one frame of the marking stack per step |
| `QueryText` | `glr-query` `compile.rs` | one token per step; `open` is the recursion: the calls of `parse_pattern` that have not returned, each with its pattern and the field it is for |
| `Query` | `glr-query` `execute.rs`, `glr-syntax` `highlight.rs` | one pattern tried, one move of the walk, one range laid per step |
| `TreeReaders` | — | composes `TreeOps` and `Query`, which begins with the texts of its queries: a reading is one of the tasks on one tree |
| `MCGrammars`, `MCEngine`, `MCTableGen`, `MCCompiler`, `MCLexer`, `MCTrees` | — | instances for TLC |

`GrammarCompiler` and `TableGen` compose: the generator runs on what was compiled as
well as on inputs of its own. `LR1` and `Engine` compose: three of the grammars of the run `engine` are compiled by
`LR1!Compiled`, so the engine there parses with tables of the generator. It gets the
rows before the split, because the stored form loses cells (run `small_states`).

### Engine

The variables are named in the module next to the fields they stand for. Three
departures from the shape of the code:

- `MutableTree` nodes are split in two: `tree` holds what is fixed at allocation,
  `link` what later steps overwrite (sibling, parent, field, alias).
- The edges of all nodes are one sequence in the order of addition. `limit` is its
  length when an ancestor walk begins: the code collects all paths before it adds an
  edge, the model walks and reduces path by path, and takes edges up to `limit` only.
- `epsilon_fixed_point` repeats whole passes until one finds nothing. A pass finds
  nothing at a head an earlier pass visited, since the keys of its reductions are in
  the log. The model sweeps once over the growing `nextHeads`.

`pc` = "lex" is the head of a lap, "pop" and "act" the worklist, "walk" the ancestor
walk, "fix" the empty reductions, "resync" and "attach" recovery. The end-of-input
phase is the worklist with the pseudo-token `END`, for which the symbols are gone
through one after the other as in `eof_reduction`.

An incremental parse is a call with `from` >= 0: the lexer starts at the edit, on an
empty stack. That is all the code does: `reuse_prefix_nodes` ignores the stack and
tree it is given, and `try_reuse_suffix` returns None.

### Definitions named Fault

A module also holds a few definitions whose comment begins with "Fault:". Each is a
plausible mistake in the definition after it, is used nowhere in the specification,
and serves to see that a property notices it: every property of every passing run is
violated when the mistake is put in place of the definition. `PROJECT.json`, "mutants",
pairs them.

## 3. The runs

| run | module, cfg | expected | properties | states |
|---|---|---|---|---|
| `engine` | `MCEngine`, `MCEngine.cfg` | pass | `TypeOK`, `NoRework`, `SpansBracket`, `NodesAreProductions`, `EdgesYield`, `NoFalseReject`, `NoFalseAccept`, `RootIsAccepted`, `SiblingChainsEnd`, `HeadsAligned`, `EarliestResync`, `SurvivorsKept`, `HeadsAdvance`, `Terminates`, `ImplementsCalculus` | 84,106 |
| `right_list` | `MCEngine`, `MCRightList.cfg` | violation | `NoFalseReject` | 202 |
| `unit_root` | `MCEngine`, `MCUnit.cfg` | violation | `RootIsAccepted` | 59 |
| `mask_heads` | `MCEngine`, `MCMask.cfg` | violation | `ValidTokenKept` | 126 |
| `shared_links` | `MCEngine`, `MCFreeze.cfg` | violation | `FrozenSpansNest` | 244 |
| `tables` | `MCCompiler`, `MCCompiler.cfg` | pass | `TableTypeOK`, `SetsExact`, `MovesEntered`, `ConflictsDecided`, `SplitServes`, `CompilerTypeOK`, `SameStrings`, `MarksFollow`, `RefusedRightly`, `OnlyLosersGo`, `Generates` | 15,609 |
| `small_states` | `MCTableGen`, `MCSplit.cfg` | violation | `SplitFaithful` | 20 |
| `nested_accept` | `MCTableGen`, `MCAccept.cfg` | violation | `AcceptIsComplete` | 33 |
| `incremental` | `MCEngine`, `MCEdit.cfg` | violation | `IncrementalIsFull` | 42 |
| `lexer` | `MCLexer`, `MCLexer.cfg` | pass | `LexTypeOK`, `LongestMatch`, `Contiguous`, `PositionsAgree`, `Drains` | 121,670 |
| `trees` | `MCTrees`, `MCTrees.cfg` | pass | `ReadersTypeOK`, `WalkIsPreorder`, `DeepestFound`, `MarkedExactly`, `QueryComplete`, `PaintedByPriority`, `TextsMean`, `CutRefused`, `Returns` | 29,948 |
| `nested_capture` | `MCTrees`, `MCNested.cfg` | violation | `TextsMean` | 7 |

The last column counts the distinct states found. The passing runs take 20 to 90
seconds each.

Deadlock is not checked: each model ends when its call returns, and the lexer when
its client has the end of the source. That a model does not stop earlier is what
`Terminates`, `Generates`, `Drains` and `Returns` say.

Passing runs:

- `engine`, without errors. Nine grammars and all sources up to the bound: a left-ambiguous sum, an
  optional prefix, hidden left recursion, a left-recursive list, two reductions of
  one token decided by the next (with a field and an alias on the contested child),
  a nested palindrome, and three compiled ones (a sum with precedence, nested
  nullable symbols, a declared conflict). `ImplementsCalculus` is a refinement: every
  edge the engine adds is one the calculus may add. `NoFalseReject` and
  `NoFalseAccept` compare with a bottom-up recogniser that shares nothing with the
  tables.
- `engine`, with errors. Sources with errors at the start, in the middle and at the end, one and
  two stalled heads of which both or one can continue, bytes that begin no token,
  a masking lexer, and incremental parses from every byte. `EarliestResync` and
  `SurvivorsKept` state the choice of the candidate, `HeadsAdvance` that no lap and no
  recovery leaves the parse where it was. Of an incremental parse the language
  properties speak of the bytes it reads, those from the edit on.
- `tables`, the compiler. Two rules of which one names the other: ten bodies with
  nested repetitions, fields in aliases and aliases in fields, wrappers and blanks,
  against three atoms; inline rules that are nested, spliced into sequences, missing,
  cyclic, or the start; named and numbered precedences; extras and external tokens; a
  choice below the top; types nobody knows. Each file is gone through in every order of
  its rules. `SameStrings` compares what the productions derive with the strings of the
  rules as written, `MarksFollow` the marks of each child with the fields and aliases
  around it. The tables of all these grammars are generated and checked, too.
- `tables`, the generator alone. 99 grammars: each way to rank an infix operator, a shift against two
  reductions with every ranking and declared conflict, symbols found nullable late,
  a token of an external scanner with an extra, and a table with a large state.
- `lexer`. Literals that share prefixes or repeat, an empty literal, overlapping
  patterns (one matching nothing), blanks, lines, a byte order mark, multi-byte
  characters and broken ones; each source read by the main loop and from any byte.
- `trees`. Every tree shape up to the bound with leaves of zero or one byte and gaps,
  every byte and every edit range; hand-made trees with and without shared subtrees,
  in which no node is twice a child of one parent (what `SiblingChainsEnd` says of the links
  `freeze` follows; the query walk would not end there), under 64 queries of two patterns and 64 pairs of highlight queries. All queries come as
  texts; texts of two patterns are also cut behind each lexeme, and seven odd texts say
  something other than they look like.

Violation runs, each a disagreement between the code and a sentence of the repository
(quoted in `PROJECT.json`, "findings"):

- `right_list`: an edge that reaches a stack node already in `enqueued` is not
  reduced over. `S -> L, L -> a L | a` loses the sentence `a a a`.
- `unit_root`: with two reductions of one token the node of the dead one can be the
  last without a parent, and becomes the root.
- `mask_heads`: `fill_valid_symbols` overwrites the buffer for each head, so the
  lexer refuses a token another head could shift.
- `shared_links`: a subtree shared by several reductions keeps the links of the last;
  the frozen tree of a clean parse has a child outside its parent.
- `small_states`: with no large state `large_state_count` is the number of states and
  the stored table answers nothing.
- `nested_accept`: the augmented production has the start symbol on its left, is
  predicted inside the start symbol, and Accept is entered behind an open operand.
- `incremental`: an incremental parse returns a tree of the source after the edit.
- `nested_capture`: a name behind the parentheses of a child pattern becomes the capture
  of its parent, where the parent's own name replaces it. The passing run writes the
  names of nested patterns inside their parentheses, where the parser wants them.

The grammars of `engine` stay outside these disagreements, so that its properties
say where the engine is right; they do not say that it is right for every grammar.
What holds for every grammar is in section 4.

### Bounds, and why they are enough

- Sources of up to 5 bytes, each byte a one-byte token, a blank, an unknown byte or a
  zero-width token. Ambiguity of the sum needs three operands (5 tokens); two
  interpretations that meet again need 3; a recovery with a resumed head, a skipped
  and a failed token needs 3 after the prefix.
- The reference recogniser (`Derived`) has no bound of its own: it runs until a round adds
  no fact, and there are no more rounds than facts.
- `LargeThreshold` = 5 is the code's: a grammar with a state of six actions has a
  large state.
- `YieldBound` = 5 bounds the strings against which nullable, FIRST and the meaning of
  rules are compared, a least fixed point: a repetition in a repetition goes round
  twice in each.
- `MaxDepth` = 2 stands for the 100 levels of inline rules: chains of two are expanded,
  chains of three and cycles are met. `RefusedRightly` claims the refusal of files with no
  more inline rules than levels; the code refuses longer chains as cyclic.
- Lexer sources of up to 4 bytes, literals of up to 3: a longer match can fail after
  an accepting state and leave a byte for the next token.
- Trees of up to 4 nodes: a node with two and with three children, an empty node
  between two others, depth 4.
- `PatternLimit` = 16 stands for the 2^32 by which a query's rank is shifted in a
  priority. Queries here have two patterns.

Counters are not capped: all are bounded by the source, the grammar or the tree.

### Fairness

Every specification is `Init /\ [][Next]_vars /\ WF_vars(Next)`; that of the grammar compiler
claims fairness of the generator's steps alone, once it was called, which is what
`Generates` is about (the steps before go through finite lists). The code is one thread
in a call, which takes its next step as long as it has one. No action is favoured over
another: where two are enabled (abort or go on, the mask, a reset) the choice is the
environment's and liveness holds for each.

## 4. What is proved

### The parser

Assumption: `JobsAssumption` (grammar well formed, source over its bytes, edit inside
the source). It bounds neither the grammar nor the source. What follows holds for
every grammar, ambiguous, cyclic or with empty productions, for every source, with
errors, and with a full or incremental parse, aborted or not.

`EngineProofs`:

- `TypeCorrect`: `Spec => []TypeOK`. Every index lies inside the vector it points into.
  `TypeOK` alone is not inductive: that a walk step stays inside the stack needs the
  entry in hand to be a reduction of a production at least as long as the walk; that a
  recovery can take its first error child needs the children to be there. The
  invariant proved (`Inductive`) is `IInv`, `TypeOK` and `ControlOK`: what each value of
  `pc` says of the head, symbol and entry in hand, of the frames, of the error children
  and of the candidate heads.

The stack, by a second invariant `StackInv` relative to `IInv`:

- `Aligned`: all vectors of heads stand at one position, those recovery keeps in
  reserve too. It is stronger than `HeadsAligned` by the heads in `best` and by the
  head of the empty-reduction sweep, from which the next step would otherwise install
  or push a node of unknown position.
- `Distinct`: no vector of nodes has a node twice, and what was popped is not on the
  worklist.
- `Ahead`: the lexer is beyond the heads wherever they are about to move.

From these: `Alignment` (`[]HeadsAligned`), `WorkOnce` (`[]NoRework`), and `Progress`
(the action property `HeadsAdvance`: each change of the heads moves them on).

- `ChainsEnd`: `[]SiblingChainsEnd`. Although a shared child's links are overwritten, the
  pair (parent, slot) rises along a sibling chain and a parent is newer than its child,
  so the walks of `freeze` end. The measure is needed since a chain may cross into
  another parent's children (run `shared_links`). `AllocInternal` relinks with a new
  parent, newer than any in a chain that leads to its children.

`CalculusProofs`:

- `Refinement`: `Spec => ImplementsCalculus`. The calculus asks of an edge where its path
  and its token come from; in the engine nothing at the moment of the reduction says so.
  `PathInv` does: each stack node is the bottom or the child of an edge (else a
  reduction could start at a node the calculus has never seen), the frames of an ancestor
  walk are a path of edges that were there when the walk began, and between the heads and
  the token in hand lie only bytes that carry no token. Every step is then a step of the
  calculus or leaves its edges as they are, and `Init` maps to its initial state.
- `Earliest` and `Survivors`: `[]EarliestResync`, `[]SurvivorsKept`. `RecoveryInv` says what is
  true in the middle of a recovery: the bytes passed over are of no use to any stalled
  head; the first candidate stays the best, since whatever is skipped adds an error child
  and the cost counts nothing else; `nextHeads` are the heads up to `at` that can take the token, moved
  there; and the heads in reserve are all that can take the token of the candidate.

`NodeProofs` (of the time before the first error, as the properties say):

- `Spans`: `[]SpansBracket`. The path of a reduction is one of adjoining edges, so the first
  and the last child have the ends of the new edge.
- `Productions`: `TablesSpell => (Spec => []NodesAreProductions)`. The invariant `Spelling`: an
  edge is a move of the table by its label. `TablesSpell` is the hypothesis that the moves
  which lead to a state that reduces a production spell the right side; `GeneratedSpells`
  below proves it of generated tables, and TLC evaluates it (`MCTables`) on the grammars of
  the run `engine`, those of the test builder included.
- `EdgeYields`: `GrammarsApart => (Spec => []EdgesYield)`. What a tree derives is a recursive
  function over children, and the proof may not induct over it. The invariant `YieldInv`
  speaks of any function `y` that satisfies the recursion and carries along that there is
  one: where a node is allocated, `y` gets one value more. `GrammarsApart` (a symbol with a production is no token) keeps
  leaves and inner nodes apart; `GeneratedGrammar` proves it of what the generator answers.

- `Soundness`: `TablesSpell => (Spec => []NoFalseAccept)`, without errors the parser accepts only
  sentences. The invariant `DerivesInv`: `gss[1]` is the bottom, and the symbol of every edge,
  with the numbers of tokens before its ends, is in every set of facts closed under a round of
  the reference recogniser (`Deduced`). A path of a reduction then splits its stretch by the right side
  it spells (`RowSplits`, `PathHolds`). That the recogniser stops at a closed set (`DerivedClosed`) is
  a count of facts: a round that stays open adds one, and there are finitely many.

Lemmas: one per action and invariant (`ShiftTokenKeeps`, `ReducePathStacks`, ...), one
per operation of the stack and the arena (`AddEdgeTyped`, `AllocInternalTyped`,
`LinkedTyped`), and a few on sequences.

### The table generator

Assumptions: `InputsAssumption` (kinds, productions, extras and conflict groups over the symbols,
one level at most per production) and `ThresholdAssumption`. `CompilerTypeOK` checks on the
run `tables` that what the compiler hands over is such an input. Grammars of any size,
with any conflicts, levels, extras and external tokens are covered, and so is a generation
that stands anywhere. All safety properties of the generator alone are proved but
`SetsExact`.

`TableProofs`, with the inductive invariant `GeneratorInv`: the types, what each phase
takes over (`Phases`), that the transitions before the scan lead to states of the list
and that no two states are equal (`Explored`), and that the rows before the scan hold no
conflict the levels decide (`Resolved`).

- `TableTyped` (`[]TableTypeOK`), `Entered` (`[]MovesEntered`), `LosersGo` (`OnlyLosersGo`),
  `Decides` (`[]ConflictsDecided`), `Serves` (`[]SplitServes`). `Decides` and `LosersGo` need
  what the code's removal of entries by index leaves: `Without` keeps all entries but
  those at the places, in their order. `Serves` needs that the split neither loses nor
  reorders an entry.
- `LeastSets`: when the passes end, nullable and FIRST are the least sets closed under
  the productions. Each pass adds only what every closed set has; a pass that adds
  nothing leaves a closed set. That the least sets are also those of the strings the
  grammar derives is `SetsExact`, checked with strings up to `YieldBound`.
- `Collection`: once the scan of the transitions is over, the states are the canonical
  collection: every transition of a state leads to a state or nowhere, no state is there
  twice, and each but the first is reached from an earlier one.
- `GeneratedGrammar`: a finished table satisfies `GrammarOK`, the assumption of the theorems
  about the parser, and `RulesApart`. `GeneratedSpells`: if the grammar has no extras, it
  satisfies `PathsSpell`. An item behind its k-th symbol comes from the closure of the
  state before, through k moves back to the item with the dot in front. With extras it is
  false: an extra is shifted to the state it is met in, and the reduction counts it.

### The lexer

Assumption: `InputsAssumption` (a source of bytes, literals and patterns of bytes, each
with a kind). It bounds none of them: literals may be empty, repeat or be prefixes of
each other. All four safety properties of the run `lexer` are proved.

`LexerProofs`:

- `NothingLost`: `[]Contiguous`. The invariant `PlaceInv` adds to it where the cursor may
  be at each `pc`, and that all bytes between the call of `next_token` and the cursor are
  blanks or the byte order mark: without that a step from "blank" to a token could have
  jumped over anything.
- `LongestAnswered`: `[]LongestMatch`. Two invariants carry it. `TrieInv` says that there
  is a word for each state of the trie such that a transition appends its byte, no two
  states have the same word, every prefix of a literal added is a word, and a state
  accepts the last literal that is its word; the word of the state in hand is what was
  read of the source. It holds of the builder byte by byte, where a new state must have a
  word no other state has. `LongestInv` says that what is accepted is the best of the
  literals shorter than what was read (`BestBelow`), and of all when the walk is over. That the walk may stop
  where the trie has no transition needs `TrieInv`: a longer literal would have a state
  for its next prefix.

- `PositionsCounted`: `[]PositionsAgree`. The invariant `PositionsInv` says that row and
  column of the cursor, and of both ends of the answer, agree with `position_at_impl`. One
  lemma counts the line feeds of two adjoining ranges, one the columns of an ASCII line.
  `Column` is a recursive function; where the proof would need induction over it, it takes
  the least byte at which the claim fails (`LeastNumber`, from the well-foundedness of
  the natural numbers), and shows that it does not fail there.
- `LexTypesKept`: `[]LexTypeOK`, from the other invariants.

### The readers of a tree

Assumption: `ReadingsAssumption` (`TreeOK`: children are older than their parents, which
is how the arena allocates; positions are natural numbers; a query task has a text). A node
may hang in the tree several times. The texts are any sequences of lexemes: what
`compile_query` makes of them, step by step, is part of the proofs, and no pattern is
assumed to be well formed. All theorems are of `TreeReaders!Spec`.

`TreeProofs`:

- `Marks`: `[]MarkedExactly`. `MarkInv`: a node that overlaps the edit and is not marked has
  a frame on the stack that leads to it through nodes that overlap; so skipping a subtree
  loses nothing, provided spans nest.
- `Finds`: `[]DeepestFound`. `FindInv`: whatever contains the byte is the node looked at,
  above it or below it. It needs, besides nested spans, that siblings follow each other
  (`Ordered`): `node_at_byte` goes into the first child that contains the byte, and where
  the spans of two children overlap the innermost node can be in the second. The children
  of a reduction follow each other in the source (`Spans`), but a frozen tree is not
  always nested: run `shared_links`.
- `CursorWalks`: `[]WalkIsPreorder`. `WalkInv`: what the client has met, then what remains below the
  node on the path, then what is left behind each node of the path, is the pre-order of
  the tree; and where `goto_next_sibling` failed the same holds of the path of the parent,
  because the call took its step back (`AsideAndBack`). As with `EdgesYield` the recursion of the pre-order is taken by any function
  that satisfies it (`WalksExist`, `PreorderFacts`).

`QueryProofs`:

- `QueriesComplete`: `[]QueryComplete`. Three parts.
  *The patterns*: `TextInv` says of the compiler that a part names only parts closed before
  it, at the top of the text and in every call that is open. That makes the matching of
  patterns a recursion that ends, on parts as well as on nodes.
  *The choice of children*: the patterns of the children take the first that fits, one after
  the other. If they can be laid in any increasing way at all, the greedy places exist and
  none is behind the place of the other way (`GreedyMissesNone`); so `try_match` matches exactly where
  the pattern can be laid, for patterns nested in patterns.
  *The walk*: `QueryInv` says that what was yielded, then what remains at the node, below it
  and behind each node of the stack, is what the query should yield. Where the next sibling is
  found by identity, a node that is twice a child of one parent sends the walk back to the
  first place, again and again. `Trapped` says so: once the walk is below the second place of such a child it never
  ends, so the claim about its end still holds. `freeze` makes no such tree; a tree from
  `Tree::from_arena` may be one.
- `Paints`: `[]PaintedByPriority`. The rank by which the stable sort is defined is a
  permutation, for every order in which being equal is transitive (`RankFacts`, `SortFacts`).
  `LayInv`: at each byte the ranges laid so far show what the first of the entries laid so far shows
  there, one range or none (`Laid`). Trimming a new range by each range that is there, one after the
  other, leaves it exactly where nothing shows (`CutFacts`, `CutAllFacts`, `TrimFacts`). In the end
  the first entry over a byte is one that no other there goes before.
- `ReadersTyped`: `[]ReadersTypeOK`, from these invariants, that of the cursor, and
  `OpsTyped` for search and marking.

### What is only model-checked

- Liveness (`Terminates`, `Generates`, `Drains`, `Returns`): fairness and ENABLED are out of the
  prover's reach.
- `NoFalseReject`, `RootIsAccepted` and `SetsExact`. The first two are not true of every
  grammar (runs `right_list`, `unit_root`), so there is no theorem without the conditions on
  grammars that the run chooses by hand. `SetsExact` compares with strings up to a length.
- `CompilerTypeOK`, `SameStrings`, `MarksFollow`, `RefusedRightly` (`GrammarCompiler`): rules
  are trees and the functions on them are RECURSIVE operators.
- `TextsMean` and `CutRefused` (`QueryText`): they compare with the patterns a text was
  written from, which the instance makes (`Written` in `MCTrees`); a theorem would speak of the writer.

## 5. Observed, modelled, and without a run

- Literals come before patterns, also before longer ones: with the literal `for`, `for_each` is
  lexed as `for` and the rest. ROADMAP_pure_rust_glr.md:1308-1309 asks for the longest match
  and has `for_each` as an identifier. `EmitPattern` does what the code does;
  `LongestMatch` compares literals with literals and patterns with patterns, and leaves open
  which of the two comes first. The mask does not concern patterns.
- `BuiltinLexer` answers UNKNOWN where nothing matches, so `CompositeLexer` never asks
  an external scanner before the end of the source.
- `advance` counts bytes and `column_offset` characters by width: columns disagree behind
  a character of several bytes, up to the next line feed. `PositionsAgree` claims rows
  everywhere and columns where the line is ASCII up to the place.
- Recovery's scan has no check for zero-width tokens; the main loop has one.
- The first ERROR leaf of a second recovery starts where the last scan ended.
- `highlight` queries the tree it parsed itself, to which no names are attached: a
  pattern with a node kind matches nothing there (`NameOf` with `names` FALSE).
- An extra is shifted onto the stack and counted by the next reduction; a token of an
  external scanner gets a Goto. Both are in the tables of `LR1`; the engine is not run
  on such a table.
- A choice below the top of a rule, in a sequence, a field or a precedence, is compiled
  to nothing, and one under a repetition to the sequence of its members (`CompileOne`,
  `CompileRepeat`). `SameStrings` excludes such files (`ChoicesOnTop`).
- The ids of symbols follow the order of a `HashMap`, which Rust seeds anew for each map:
  two compilations of a file number symbols and states differently, although
  ROADMAP_pure_rust_glr.md:859 asks for "same grammar `.json` -> same table". `SameStrings`
  and `MarksFollow` hold in every order.
- The start symbol is the rule whose name is first in the alphabet; if that rule is
  inline, it is symbol 0 (`StartId`).
- `PREC` is taken for a declaration of no associativity (`AssocOf`). The value of an alias
  becomes a token, which the lexer then looks for as a literal.
- Extras wrapped in TOKEN or anything else are dropped (`ExtraKey`).
- An inline chain of more than 100 rules is refused as cyclic.
- A query text ends, without an error, at the first thing at its top that is no
  parenthesis: `"return" @r` is the empty query, and after one name behind a top pattern a
  second ends the text. A name that begins with an underscore is two tokens, and a
  child must have parentheses even if it is a string (`Oddities` in `MCTrees`).
- `glr-macro` writes the alternatives of a rule as `[a,,b]`, which is no JSON, and
  precedences as objects, which `PrecedenceValue` does not read.

## 6. Not modelled

- The characters of grammar JSON and of query texts, the `glr-grammar` command line,
  `glr-macro`: conversions of text, no state beyond a call.
- `build_dfa_table`, the word, reserved words, supertypes and dynamic precedence of a
  compiled grammar: data that is written and that nothing modelled reads.
- The `regex` crate: a pattern in `Lexer` is a greedy run of a byte class.
- The scanner's serialised state: written to each stack node, never read.
- Rows, columns and named flags of tree nodes: data that no decision depends on.
- Fuzz targets, benches and the umbrella crate.

## 7. Plan

Order of work: tables and engine first, since all else depends on them (done), their
inputs and outputs next (grammar compiler, lexer, query texts and readers: done), then
more proofs.

1. Recovery: spans of ERROR nodes, the zero-width scan under a bound on errors; fields
   and aliases on shared children.
2. Tables with extras and external tokens under the engine.
3. `Lexer`: the word token and longest match across literals and patterns, against
   the roadmap.
4. Proofs: `CompilerTypeOK`, once the functions on rules are recursive functions; `TextsMean`, with
   the writer of texts as a second machine.
