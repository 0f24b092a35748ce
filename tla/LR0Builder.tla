------------------------------ MODULE LR0Builder ------------------------------
(***************************************************************************)
(* TestGrammarBuilder of glr-engine/tests/common: the LR(0) table builder  *)
(* whose grammars drive the engine's tests.  Reductions are entered on all *)
(* terminals, so every LR(0) conflict is a cell with several entries.      *)
(*                                                                         *)
(* An item is <<production, dot>>; production 1 is the augmented one, whose *)
(* left side is the start symbol itself, as in the code.                   *)
(***************************************************************************)
EXTENDS GlrTables

CONSTANTS Symbol,     \* number of symbols, terminals first
          Terminals,  \* number of terminals
          Rules       \* sequence of [lhs, rhs, field, alias]

Start == Rules[1].lhs
AllRules == <<[lhs |-> Start, rhs |-> <<Start>>]>> \o Rules
IsTerminal(a) == a < Terminals

Rhs(it) == AllRules[it[1]].rhs
AtDot(it) == IF it[2] < Len(Rhs(it)) THEN {Rhs(it)[it[2] + 1]} ELSE {}

Expand(items) ==
  items \cup {<<q, 0>> : q \in {r \in DOMAIN AllRules :
                                  \E it \in items : AllRules[r].lhs \in AtDot(it)}}

Closure(items) ==
  LET c[n \in 0 .. Len(AllRules)] == IF n = 0 THEN items ELSE Expand(c[n - 1])
  IN c[Len(AllRules)]

GotoSet(items, a) ==
  Closure({<<it[1], it[2] + 1>> : it \in {i \in items : a \in AtDot(i)}})

SymbolSeq == [i \in 1 .. Symbol |-> i - 1]

\* The states in the order of discovery, after the first n of them were expanded.
Discover(states, items) ==
  FoldLeft(LAMBDA ss, a :
             LET t == GotoSet(items, a)
             IN IF t = {} \/ t \in ToSet(ss) THEN ss ELSE Append(ss, t),
           states, SymbolSeq)

StateBound == 40   \* more states than any modelled grammar has

ItemSets ==
  LET s[n \in 0 .. StateBound] ==
        IF n = 0 THEN <<Closure({<<1, 0>>})>>
        ELSE LET found == s[n - 1]
             IN IF n <= Len(found) THEN Discover(found, found[n]) ELSE found
  IN s[StateBound]

\* The entries an item of a state adds to the cell of symbol a.
EntriesOf(sets, items, it, a) ==
  IF a \in AtDot(it)
  THEN LET target == GotoSet(items, a)
           s == CHOOSE i \in DOMAIN sets : sets[i] = target
       IN IF IsTerminal(a) THEN <<Shift(s - 1)>> ELSE <<Goto(s - 1)>>
  ELSE IF it[2] = Len(Rhs(it)) /\ IsTerminal(a)
  THEN IF it[1] = 1 THEN <<Accept>> ELSE <<Reduce(it[1] - 1)>>
  ELSE <<>>

\* The iteration order of BTreeSet<(usize, usize)>.
ItemOrder(i, j) == i[1] < j[1] \/ (i[1] = j[1] /\ i[2] < j[2])

CellOf(sets, items, a) ==
  LET nth(n) == CHOOSE it \in items : Cardinality({i \in items : ItemOrder(i, it)}) = n
  IN FlattenSeq([i \in 1 .. Cardinality(items) |-> EntriesOf(sets, items, nth(i - 1), a)])

Built ==
  LET sets == ItemSets
  IN [states    |-> Len(sets),
      symbols   |-> Symbol,
      terminals |-> {a \in 0 .. Symbol - 1 : IsTerminal(a)},
      prods     |-> Rules,
      table     |-> [s \in 0 .. Len(sets) - 1 |->
                       [a \in 0 .. Symbol - 1 |-> CellOf(sets, sets[s + 1], a)]]]
=============================================================================
