--------------------------------- MODULE LR1 ---------------------------------
(***************************************************************************)
(* The algorithms of ParseTableGenerator (glr-grammar table_gen): nullable *)
(* and FIRST sets, canonical LR(1) item sets, the entries of the table,    *)
(* the resolution of conflicts and the split into large and small rows.    *)
(*                                                                         *)
(* The input is a record                                                   *)
(*   kind      the kind of each symbol: "term", "nonterm" or "extern"      *)
(*   prods     the productions, with precedence level and associativity    *)
(*   start     the start symbol                                            *)
(*   groups    the precedence groups, a sequence of sets of terminals      *)
(*   conflicts the declared conflicts, a set of sequences of nonterminals  *)
(*   extras    the set of extra symbols                                    *)
(* A level is a set of at most one number.  An item is <<production, dot,  *)
(* look-ahead>>; production 1 is the augmented one, and symbol 0 is the    *)
(* look-ahead for the end of input, as in the code.                        *)
(***************************************************************************)
EXTENDS GlrTables

CONSTANT LargeThreshold   \* a state with more non-error cells is large: 5 in the code
ASSUME ThresholdAssumption == LargeThreshold \in Nat

AllProds(g) ==
  <<[lhs |-> g.start, rhs |-> <<g.start>>]>>
    \o [p \in DOMAIN g.prods |-> [lhs |-> g.prods[p].lhs, rhs |-> g.prods[p].rhs]]

SymbolIds(g) == DOMAIN g.kind
OfKind(g, k) == {a \in SymbolIds(g) : g.kind[a] = k}
SymbolOrder(g) == [i \in 1 .. Cardinality(SymbolIds(g)) |-> i - 1]

-------------------------------------------------------------------------------
(* Nullable and FIRST: one pass over the productions.                      *)

NullablePass(g, nullable) ==
  LET after[n \in 0 .. Len(AllProds(g))] ==
        IF n = 0 THEN nullable
        ELSE LET p == AllProds(g)[n]
                 N == after[n - 1]
             IN IF ToSet(p.rhs) \subseteq N THEN N \cup {p.lhs} ELSE N
  IN after[Len(AllProds(g))]

\* The places of rhs, from i on, that only nullable symbols precede; Len + 1 is its end.
Reached(rhs, i, nullable) ==
  {j \in i .. Len(rhs) + 1 : \A k \in i .. j - 1 : rhs[k] \in nullable}

FirstAlong(rhs, i, nullable, first) ==
  UNION {first[rhs[j]] : j \in Reached(rhs, i, nullable) \ {Len(rhs) + 1}}

FirstPass(g, nullable, first) ==
  LET after[n \in 0 .. Len(AllProds(g))] ==
        IF n = 0 THEN first
        ELSE LET p == AllProds(g)[n]
                 F == after[n - 1]
             IN [F EXCEPT ![p.lhs] = @ \cup FirstAlong(p.rhs, 1, nullable, F)]
  IN after[Len(AllProds(g))]

OwnFirst(g) == [a \in SymbolIds(g) |-> IF g.kind[a] = "nonterm" THEN {} ELSE {a}]

FirstOfSeq(rhs, i, an, fallback) ==
  FirstAlong(rhs, i, an.nullable, an.first)
    \cup (IF Len(rhs) + 1 \in Reached(rhs, i, an.nullable) THEN {fallback} ELSE {})

\* The sets after as many passes as it takes.
Analysis(g) ==
  LET n[N \in SUBSET SymbolIds(g)] ==
        LET M == NullablePass(g, N) IN IF M = N THEN N ELSE n[M]
      nullable == n[{}]
      f[F \in [SymbolIds(g) -> SUBSET SymbolIds(g)]] ==
        LET H == FirstPass(g, nullable, F) IN IF H = F THEN F ELSE f[H]
  IN [nullable |-> nullable, first |-> f[OwnFirst(g)]]

-------------------------------------------------------------------------------
(* Item sets.                                                              *)

RhsOf(g, it) == AllProds(g)[it[1]].rhs

\* The symbol after the dot, as a set of at most one.
NextIs(g, it) == IF it[2] < Len(RhsOf(g, it)) THEN {RhsOf(g, it)[it[2] + 1]} ELSE {}

Items(g) == (DOMAIN AllProds(g)) \X Nat \X SymbolIds(g)

ClosurePass(g, an, items) ==
  items \cup UNION {
    {<<q, 0, la>> :
       q \in {r \in DOMAIN AllProds(g) : AllProds(g)[r].lhs \in NextIs(g, it) \cap OfKind(g, "nonterm")},
       la \in FirstOfSeq(RhsOf(g, it), it[2] + 2, an, it[3])} : it \in items}

LRClosure(g, an, items) ==
  LET c[S \in SUBSET Items(g)] ==
        LET T == ClosurePass(g, an, S) IN IF T = S THEN S ELSE c[T]
  IN c[items]

LRGoto(g, an, items, a) ==
  LRClosure(g, an, {<<it[1], it[2] + 1, it[3]>> : it \in {i \in items : a \in NextIs(g, i)}})

Initial(g, an) == LRClosure(g, an, {<<1, 0, 0>>})

\* The list of states after one more transition was followed.
WithTarget(sets, target) ==
  IF target = {} \/ target \in ToSet(sets) THEN sets ELSE Append(sets, target)

-------------------------------------------------------------------------------
(* The entries of the table: a row is a function from symbols to sequences *)
(* of entries, a pure error cell the empty sequence.                       *)

AddAction(cell, entry) == IF entry \in ToSet(cell) THEN cell ELSE Append(cell, entry)

\* The iteration order of BTreeSet<(usize, usize, u32)>.
Before(i, j) ==
  \/ i[1] < j[1]
  \/ i[1] = j[1] /\ i[2] < j[2]
  \/ i[1] = j[1] /\ i[2] = j[2] /\ i[3] < j[3]

InOrder(items) ==
  [n \in 1 .. Cardinality(items) |->
     CHOOSE it \in items : Cardinality({i \in items : Before(i, it)}) = n - 1]

\* The items of a state that enter something in the cell of symbol a.
Concerned(g, items, a) ==
  {it \in items : IF NextIs(g, it) = {} THEN it[3] = a ELSE a \in NextIs(g, it)}

\* Items that enter the same: all that move over a, all that end one production.
SameEntry(g, i, j) == NextIs(g, i) = NextIs(g, j) /\ (NextIs(g, i) = {} => i[1] = j[1])

\* Fault: the augmented production is counted.
ProductionShifted(it) == it[1]

\* The production of a complete item, numbered without the augmented one.
ProductionOf(it) == it[1] - 1

\* What an item of state s enters for symbol a: nothing if it moves to no state of the list.
EntryOf(g, an, sets, s, it, a) ==
  LET target == LRGoto(g, an, sets[s], a)
      found == {i \in DOMAIN sets : sets[i] = target}
      t == (CHOOSE i \in found : TRUE) - 1
  IN IF NextIs(g, it) = {} THEN <<IF it[1] = 1 THEN Accept ELSE Reduce(ProductionOf(it))>>
     ELSE IF found = {} THEN <<>>
     ELSE <<IF g.kind[a] = "term" THEN Shift(t) ELSE Goto(t)>>

\* The entries in the order of the items that enter them first.
CellOf(g, an, sets, s, a) ==
  LET items == Concerned(g, sets[s], a)
      leaders == InOrder({i \in items : \A j \in items : SameEntry(g, i, j) => ~Before(j, i)})
  IN FlattenSeq([n \in DOMAIN leaders |-> EntryOf(g, an, sets, s, leaders[n], a)])

FillRow(g, an, sets, s) == [a \in SymbolIds(g) |-> CellOf(g, an, sets, s, a)]

\* Every extra is shifted in every state, back to the state itself.
WithExtras(g, s, row) ==
  [a \in DOMAIN row |-> IF a \in g.extras THEN AddAction(row[a], Shift(s - 1)) ELSE row[a]]

-------------------------------------------------------------------------------
(* Conflicts.                                                              *)

Places(cell, op) == {i \in DOMAIN cell : cell[i].op = op}

\* The last group that names the terminal decides.
TokenLevel(g, a) ==
  LET named == {i \in DOMAIN g.groups : a \in g.groups[i]}
  IN IF named = {} \/ g.kind[a] # "term" THEN {} ELSE {Max(named) - 1}

\* Fault: the comparison of the two levels is the wrong way round.
VerdictSwapped(g, p, a) ==
  LET level == g.prods[p].level
  IN IF level = {} \/ TokenLevel(g, a) = {} THEN "open"
     ELSE IF Max(level) < Max(TokenLevel(g, a)) THEN "reduce"
     ELSE IF Max(level) > Max(TokenLevel(g, a)) THEN "shift"
     ELSE CASE g.prods[p].assoc = "left" -> "reduce"
            [] g.prods[p].assoc = "right" -> "shift"
            [] g.prods[p].assoc = "nonassoc" -> "neither"
            [] OTHER -> "open"

\* Who wins when production p may be reduced and terminal a be shifted.
Verdict(g, p, a) ==
  LET level == g.prods[p].level
  IN IF level = {} \/ TokenLevel(g, a) = {} THEN "open"
     ELSE IF Max(level) > Max(TokenLevel(g, a)) THEN "reduce"
     ELSE IF Max(level) < Max(TokenLevel(g, a)) THEN "shift"
     ELSE CASE g.prods[p].assoc = "left" -> "reduce"
            [] g.prods[p].assoc = "right" -> "shift"
            [] g.prods[p].assoc = "nonassoc" -> "neither"
            [] OTHER -> "open"

ConflictPairs(g) ==
  UNION {{<<c[ij[1]], c[ij[2]]>> :
            ij \in {k \in (DOMAIN c) \X (DOMAIN c) : k[1] # k[2]}} : c \in g.conflicts}

\* Two reductions of the cell are declared; a shift is never looked at.
IsDeclared(g, cell) ==
  \E i, j \in DOMAIN cell :
    /\ i < j
    /\ cell[i].op = "reduce" /\ cell[j].op = "reduce"
    /\ <<g.prods[cell[i].arg].lhs, g.prods[cell[j].arg].lhs>> \in ConflictPairs(g)

\* Fault: the loop over the reductions ends with the first one.
LosersFirst(g, cell, a) ==
  LET r == Min(Places(cell, "reduce"))
      v == Verdict(g, cell[r].arg, a)
  IN (IF v \in {"reduce", "neither"} THEN Places(cell, "shift") ELSE {})
       \cup (IF v \in {"shift", "neither"} THEN {r} ELSE {})

\* The entries turned to Error: the loop ends with the reduction that beats the shift.
Losers(g, cell, a) ==
  LET With(verdicts) == {r \in Places(cell, "reduce") : Verdict(g, cell[r].arg, a) \in verdicts}
      beating == With({"reduce", "neither"})
  IN {r \in With({"shift", "neither"}) : \A q \in beating : r <= q}
       \cup (IF beating = {} THEN {} ELSE Places(cell, "shift"))

Contested(g, cell) ==
  /\ \E i \in DOMAIN cell : Places(cell, "shift") = {i}
  /\ Places(cell, "reduce") # {}
  /\ ~IsDeclared(g, cell)

\* What is left of a sequence without the elements at some places.
Without(s, places) ==
  LET kept[n \in 0 .. Len(s)] ==
        IF n = 0 THEN <<>>
        ELSE IF n \in places THEN kept[n - 1]
        ELSE Append(kept[n - 1], s[n])
  IN kept[Len(s)]

\* The cell without its losers; a conflict of reductions alone is left as it is.
Resolve(g, cell, a) == IF Contested(g, cell) THEN Without(cell, Losers(g, cell, a)) ELSE cell

ResolveRow(g, row) == [a \in DOMAIN row |-> Resolve(g, row[a], a)]

-------------------------------------------------------------------------------
(* Large and small rows.                                                   *)

NonError(row) == Cardinality({a \in DOMAIN row : row[a] # <<>>})
IsSmall(row) == NonError(row) \in 1 .. LargeThreshold
IsLarge(row) == NonError(row) > LargeThreshold

\* Fault: the number of the last large state instead of their count.
LargeCountShort(rows) ==
  LET large == {s \in DOMAIN rows : IsLarge(rows[s])}
  IN IF large = {} THEN Len(rows) ELSE Max(large) - 1

\* One past the last large state; all of them if there is none.
LargeCount(rows) ==
  LET large == {s \in DOMAIN rows : IsLarge(rows[s])}
  IN IF large = {} THEN Len(rows) ELSE Max(large)

\* A row that is all errors is stored with the large ones.
SplitRows(rows) ==
  LET small == {s \in DOMAIN rows : IsSmall(rows[s])}
  IN [count |-> LargeCount(rows),
      large |-> Without(rows, small),
      small |-> Without(rows, DOMAIN rows \ small)]

\* ParseTable::lookup on the split table.
SplitLookup(t, s, a) ==
  LET row == IF s < t.count THEN s + 1 ELSE s - t.count + 1
      rows == IF s < t.count THEN t.large ELSE t.small
  IN IF row \in DOMAIN rows THEN rows[row][a] ELSE <<>>

-------------------------------------------------------------------------------
(* All phases up to the split in one expression: the grammar the engine gets. *)

ListSets(g, an) ==
  LET grow[scan \in Seq(SUBSET Items(g)) \X Nat] ==
        LET sets == scan[1]
            i == scan[2]
        IN IF i > Len(sets) THEN sets
           ELSE grow[<<FoldLeft(LAMBDA ss, a : WithTarget(ss, LRGoto(g, an, sets[i], a)),
                                sets, SymbolOrder(g)), i + 1>>]
  IN grow[<<<<Initial(g, an)>>, 1>>]

Compiled(g) ==
  LET an == Analysis(g)
      sets == ListSets(g, an)
  IN [states    |-> Len(sets),
      symbols   |-> Cardinality(SymbolIds(g)),
      terminals |-> OfKind(g, "term"),
      prods     |-> [p \in DOMAIN g.prods |->
                       [lhs |-> g.prods[p].lhs, rhs |-> g.prods[p].rhs,
                        field |-> <<>>, alias |-> <<>>]],
      table     |-> [s \in 0 .. Len(sets) - 1 |->
                       ResolveRow(g, WithExtras(g, s + 1, FillRow(g, an, sets, s + 1)))]]
=============================================================================
