-------------------------------- MODULE Query --------------------------------
(***************************************************************************)
(* glr-query and glr-syntax: QueryMatches, which walks a frozen tree and   *)
(* tries every pattern of a query on every node, and highlight, which runs *)
(* several queries and lays their captures over each other by priority.    *)
(*                                                                         *)
(* The client compiles the texts of its queries first.                     *)
(***************************************************************************)
EXTENDS QueryText

VARIABLES
  asked,     \* the query that runs
  stack,     \* QueryMatches::stack
  nextPat,   \* QueryMatches::next_pattern
  back,      \* the walk is looking for the next sibling
  matches,   \* what the queries yielded, with the node matched
  entries,   \* the captures still to be laid, sorted
  ranges     \* resolved

walkVars == <<asked, stack, nextPat, back, matches, entries, ranges>>
queryVars == <<textVars, walkVars>>

QueryInit ==
  /\ TextInit
  /\ asked = 1
  /\ stack = IF phase = "compile" THEN <<Root>> ELSE <<>>
  /\ nextPat = 1
  /\ back = FALSE
  /\ matches = <<>>
  /\ entries = <<>>
  /\ ranges = <<>>

-------------------------------------------------------------------------------
(* try_match.                                                              *)

\* symbol_name: of a tree without names every symbol is called "<unknown>".
Unknown == -2
NameOf(r, n) == IF r.names THEN r.tree.nodes[n].kind ELSE Unknown

Suits(r, p, n) ==
  /\ p.kind # AnyKind => NameOf(r, n) = p.kind
  /\ p.named => r.tree.nodes[n].named

\* Children of n that have the field of constraint c; m says what matches.
OfField(r, m, c, n) ==
  {i \in DOMAIN KidsOf(r.tree, n) :
     /\ r.fieldsNamed
     /\ r.tree.nodes[KidsOf(r.tree, n)[i]].field = c.field
     /\ m[c.pattern][KidsOf(r.tree, n)[i]] # <<>>}

LeastOr0(I) == IF I = {} THEN 0 ELSE Min(I)

\* Fault: the scan for the next pattern begins at the child the last one matched.
FirstAt(r, m, p, n, from) ==
  LeastOr0({i \in DOMAIN KidsOf(r.tree, n) : i >= from /\ m[p][KidsOf(r.tree, n)[i]] # <<>>})

\* The first child after the given one that pattern p matches, 0 if there is none.
FirstAfter(r, m, p, n, from) ==
  LeastOr0({i \in DOMAIN KidsOf(r.tree, n) : i > from /\ m[p][KidsOf(r.tree, n)[i]] # <<>>})

\* The children the patterns take one after the other, 0 where one finds none.
Taken(r, m, patterns, n) ==
  LET at[j \in 0 .. Len(patterns)] ==
        IF j = 0 THEN 0
        ELSE IF j > 1 /\ at[j - 1] = 0 THEN 0
        ELSE FirstAfter(r, m, patterns[j], n, at[j - 1])
  IN [j \in DOMAIN patterns |-> at[j]]

\* What p captures at n in a sequence of one, or <<>> for None.
TryMatch(r, m, p, n) ==
  LET held == [f \in DOMAIN p.fields |-> LeastOr0(OfField(r, m, p.fields[f], n))]
      taken == Taken(r, m, p.kids, n)
      Kid(i) == KidsOf(r.tree, n)[i]
  IN IF ~Suits(r, p, n) \/ 0 \in Range(held) \/ 0 \in Range(taken) THEN <<>>
     ELSE <<FlattenSeq([f \in DOMAIN held |-> m[p.fields[f].pattern][Kid(held[f])][1]])
            \o FlattenSeq([j \in DOMAIN taken |-> m[p.kids[j]][Kid(taken[j])][1]])
            \o IF p.capture = 0 THEN <<>> ELSE <<[place |-> p.capture, node |-> n]>> >>

\* For each pattern and node what the pattern captures there.
Matched(r, parts) ==
  LET m[p \in DOMAIN parts] == [n \in DOMAIN r.tree.nodes |-> TryMatch(r, m, parts[p], n)]
  IN m

-------------------------------------------------------------------------------
(* QueryMatches::next.                                                     *)

Patterns == queries[asked].patterns
Current == Last(stack)

\* Pattern p of query q at node n, as QueryMatch.
MatchOf(q, p, n) ==
  LET found == Matched(job, queries[q].parts)[queries[q].patterns[p]][n]
  IN [i \in DOMAIN found |-> [query |-> q, pattern |-> p, node |-> n, captures |-> found[i]]]

\* A pattern is tried, and yielded if it matches.
TryPattern ==
  /\ phase = "query"
  /\ stack # <<>> /\ ~back
  /\ nextPat <= Len(Patterns)
  /\ matches' = matches \o MatchOf(asked, nextPat, Current)
  /\ nextPat' = nextPat + 1
  /\ UNCHANGED <<readVars, textVars, asked, stack, back, entries, ranges>>

Spent == phase = "query" /\ stack # <<>> /\ ~back /\ nextPat > Len(Patterns)

DescendQuery ==
  /\ Spent
  /\ Kids(Current) # <<>>
  /\ stack' = Append(stack, Kids(Current)[1])
  /\ nextPat' = 1
  /\ UNCHANGED <<readVars, textVars, asked, back, matches, entries, ranges>>

Backtrack ==
  /\ Spent
  /\ Kids(Current) = <<>>
  /\ nextPat' = 1
  /\ back' = TRUE
  /\ UNCHANGED <<readVars, textVars, asked, stack, matches, entries, ranges>>

\* The place of the top of the stack among the children of the node below it.
Place == Min({i \in DOMAIN Kids(stack[Len(stack) - 1]) : Kids(stack[Len(stack) - 1])[i] = Current})
HasSibling == Len(stack) >= 2 /\ Place < Len(Kids(stack[Len(stack) - 1]))

\* Fault: the sibling is pushed on top of the node.
NextOnTop ==
  /\ phase = "query" /\ back
  /\ HasSibling
  /\ stack' = Append(stack, Kids(stack[Len(stack) - 1])[Place + 1])
  /\ back' = FALSE
  /\ UNCHANGED <<readVars, textVars, asked, nextPat, matches, entries, ranges>>

NextInQuery ==
  /\ phase = "query" /\ back
  /\ HasSibling
  /\ stack' = Append(Front(stack), Kids(stack[Len(stack) - 1])[Place + 1])
  /\ back' = FALSE
  /\ UNCHANGED <<readVars, textVars, asked, nextPat, matches, entries, ranges>>

\* No sibling: up; back at the root the iterator is done (an empty stack).
Climb ==
  /\ phase = "query" /\ back
  /\ ~HasSibling
  /\ stack' = IF Len(stack) <= 2 THEN <<>> ELSE Front(stack)
  /\ back' = (stack' # <<>>)
  /\ UNCHANGED <<readVars, textVars, asked, nextPat, matches, entries, ranges>>

NextQuery ==
  /\ phase = "query"
  /\ stack = <<>>
  /\ asked < Len(queries)
  /\ asked' = asked + 1
  /\ stack' = <<Root>>
  /\ UNCHANGED <<readVars, textVars, nextPat, back, matches, entries, ranges>>

-------------------------------------------------------------------------------
(* highlight.                                                              *)

PatternLimit == 16   \* for the code's 2^32: a query has fewer patterns

\* An earlier query comes first; in one query, a later pattern.
Priority(m) == (Len(queries) - m.query) * PatternLimit + m.pattern

\* The captures of a match as ranges.
Captured(m) ==
  [i \in DOMAIN m.captures |->
     [prio  |-> Priority(m),
      start |-> Nodes[m.captures[i].node].start,
      end   |-> Nodes[m.captures[i].node].end,
      name  |-> queries[m.query].captures[m.captures[i].place]]]

AllEntries == FlattenSeq([i \in DOMAIN matches |-> Captured(matches[i])])

ByPriority(x, y) == x.prio > y.prio \/ (x.prio = y.prio /\ x.start < y.start)
PriorityOrder(s) == {p \in (DOMAIN s) \X (DOMAIN s) : ByPriority(s[p[1]], s[p[2]])}
StartOrder(s) == {p \in (DOMAIN s) \X (DOMAIN s) : s[p[1]].start < s[p[2]].start}

\* A stable sort: before holds the pairs of indices that are strictly in order.
Sorted(s, before) ==
  LET Rank(i) == Cardinality({j \in DOMAIN s :
                    <<j, i>> \in before \/ (<<i, j>> \notin before /\ j <= i)})
  IN [k \in DOMAIN s |-> s[CHOOSE i \in DOMAIN s : Rank(i) = k]]

AllAsked == phase = "query" /\ stack = <<>> /\ asked = Len(queries)

QueryEnds ==
  /\ AllAsked
  /\ job.task = "query"
  /\ phase' = "done"
  /\ UNCHANGED <<job, queryVars>>

SortEntries ==
  /\ AllAsked
  /\ job.task = "highlight"
  /\ entries' = Sorted(AllEntries, PriorityOrder(AllEntries))
  /\ phase' = "resolve"
  /\ UNCHANGED <<job, textVars, asked, stack, nextPat, back, matches, ranges>>

\* Fault: what lies behind the range that is laid already is lost.
CutLeft(x, r) ==
  IF x.end <= r.start \/ x.start >= r.end THEN <<x>>
  ELSE IF x.start < r.start THEN <<[x EXCEPT !.end = r.start]>> ELSE <<>>

\* What remains of range x beside a range that is laid already.
Cut(x, r) ==
  IF x.end <= r.start \/ x.start >= r.end THEN <<x>>
  ELSE (IF x.start < r.start THEN <<[x EXCEPT !.end = r.start]>> ELSE <<>>)
       \o (IF x.end > r.end THEN <<[x EXCEPT !.start = r.end]>> ELSE <<>>)

CutAll(xs, r) == FlattenSeq([i \in DOMAIN xs |-> Cut(xs[i], r)])

\* The parts of x that no range of rs covers.
Trimmed(x, rs) ==
  LET rest[k \in 0 .. Len(rs)] == IF k = 0 THEN <<x>> ELSE CutAll(rest[k - 1], rs[k])
  IN rest[Len(rs)]

Lay ==
  /\ phase = "resolve"
  /\ entries # <<>>
  /\ ranges' = ranges \o Trimmed(Head(entries), ranges)
  /\ entries' = Tail(entries)
  /\ UNCHANGED <<readVars, textVars, asked, stack, nextPat, back, matches>>

HighlightEnds ==
  /\ phase = "resolve"
  /\ entries = <<>>
  /\ ranges' = Sorted(ranges, StartOrder(ranges))
  /\ phase' = "done"
  /\ UNCHANGED <<job, textVars, asked, stack, nextPat, back, matches, entries>>

-------------------------------------------------------------------------------
QueryNext == \/ TextNext /\ UNCHANGED walkVars
             \/ TryPattern \/ DescendQuery \/ Backtrack \/ NextInQuery \/ Climb \/ NextQuery
             \/ QueryEnds \/ SortEntries \/ Lay \/ HighlightEnds

-------------------------------------------------------------------------------
\* A pattern means: its children patterns can be laid on children of the node in their order.
Lies(r, e, p, n) ==
  /\ Suits(r, p, n)
  /\ \A f \in DOMAIN p.fields : \E i \in DOMAIN KidsOf(r.tree, n) :
       /\ r.fieldsNamed
       /\ r.tree.nodes[KidsOf(r.tree, n)[i]].field = p.fields[f].field
       /\ e[p.fields[f].pattern][KidsOf(r.tree, n)[i]]
  /\ \E g \in [DOMAIN p.kids -> DOMAIN KidsOf(r.tree, n)] :
       /\ \A i, j \in DOMAIN g : i < j => g[i] < g[j]
       /\ \A j \in DOMAIN g : e[p.kids[j]][KidsOf(r.tree, n)[g[j]]]

Embeds(r, parts) ==
  LET e[p \in DOMAIN parts] == [n \in DOMAIN r.tree.nodes |-> Lies(r, e, parts[p], n)]
  IN e

\* What query q should yield at node n.
Yields(q, n) ==
  FlattenSeq([i \in DOMAIN queries[q].patterns |->
                IF Embeds(job, queries[q].parts)[queries[q].patterns[i]][n]
                THEN <<<<q, i, n>>>> ELSE <<>>])

Expected ==
  FlattenSeq([q \in DOMAIN queries |->
                FlattenSeq([i \in DOMAIN Walked |-> Yields(q, Walked[i])])])

(***************************************************************************)
(* A query yields every pattern at every node it can be laid on, once for  *)
(* each place the node hangs in, in the order of the walk, and nothing     *)
(* else: the greedy choice of children misses no match, and the walk by a  *)
(* stack with its search for the next sibling loses and repeats no node.   *)
(***************************************************************************)
QueryComplete ==
  phase \in {"resolve", "done"} /\ job.task \in {"query", "highlight"} =>
    [i \in DOMAIN matches |-> <<matches[i].query, matches[i].pattern, matches[i].node>>] = Expected

Over(k) == {x \in ToSet(AllEntries) : x.start <= k /\ k < x.end}
Strongest(S) == {x \in S : \A y \in S : ~ByPriority(y, x)}

(***************************************************************************)
(* highlight: the ranges are disjoint and in order, and each byte has the  *)
(* name of a capture over it that comes before all others over it; a byte  *)
(* has a range exactly if it has a capture.                                *)
(***************************************************************************)
PaintedByPriority ==
  phase = "done" /\ job.task = "highlight" =>
    /\ \A i, j \in DOMAIN ranges : i < j => ranges[i].start <= ranges[j].start
    /\ \A k \in 0 .. Nodes[Root].end :
         LET painted == {i \in DOMAIN ranges : ranges[i].start <= k /\ k < ranges[i].end}
         IN IF Over(k) = {} THEN painted = {}
            ELSE \E i \in painted :
                   painted = {i} /\ ranges[i].name \in {x.name : x \in Strongest(Over(k))}
=============================================================================
