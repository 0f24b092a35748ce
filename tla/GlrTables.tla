------------------------------ MODULE GlrTables ------------------------------
(***************************************************************************)
(* The read-only input of a parse: a compiled grammar (glr-core Grammar    *)
(* and ParseTable) and the look-ups the engine performs on it.             *)
(*                                                                         *)
(* A grammar is a record                                                   *)
(*   states    number of parser states, 0 .. states - 1                    *)
(*   symbols   number of grammar symbols, 0 .. symbols - 1                 *)
(*   terminals the symbols of kind Terminal                                *)
(*   prods     the productions, with the field and alias maps of each      *)
(*   table     the cells of the parse table, sequences of entries          *)
(* An Error entry never takes part in a step of the engine, so a pure      *)
(* error cell is the empty sequence.                                       *)
(***************************************************************************)
EXTENDS Integers, Sequences, SequencesExt

\* SymbolId::ERROR and SymbolId::UNKNOWN, the two ids outside every table.
ERROR == -1
UNKNOWN == -2

(***************************************************************************)
(* A source is a sequence of bytes, one literal per byte: the number of    *)
(* the symbol a byte spells, UNKNOWN for a byte no literal starts with,    *)
(* BLANK for white space, EMPTY where only an empty pattern matches.       *)
(***************************************************************************)
BLANK == -3
EMPTY == -4
NoToken == {BLANK, EMPTY}   \* the bytes at which no token of any width starts

\* Answer of a goto look-up that finds nothing.
NoState == -1

Shift(s) == [op |-> "shift", arg |-> s]
Reduce(p) == [op |-> "reduce", arg |-> p]
Goto(s) == [op |-> "goto", arg |-> s]
Accept == [op |-> "accept", arg |-> 0]

States(g) == 0 .. g.states - 1
Symbols(g) == 0 .. g.symbols - 1

Entries(g) == [op : {"shift", "goto"}, arg : States(g)]
                \cup [op : {"reduce"}, arg : DOMAIN g.prods]
                \cup {Accept}

(***************************************************************************)
(* ParseTable::lookup: a cell, and the empty slice for a symbol that is    *)
(* no column of the table.                                                 *)
(***************************************************************************)
Actions(g, s, a) == IF a \in Symbols(g) THEN g.table[s][a] ELSE <<>>

(***************************************************************************)
(* find_goto: the state of the Goto entry of a cell.  A table generator    *)
(* writes one goto target per cell (GotoUnique), possibly several times.   *)
(***************************************************************************)
GotoState(g, s, a) ==
  IF \E t \in States(g) : Goto(t) \in ToSet(Actions(g, s, a))
  THEN CHOOSE t \in States(g) : Goto(t) \in ToSet(Actions(g, s, a))
  ELSE NoState

(***************************************************************************)
(* Grammar::fill_valid_symbols: the terminals with a non-error cell.       *)
(***************************************************************************)
ValidIn(g, s) == {a \in g.terminals : Actions(g, s, a) # <<>>}

(***************************************************************************)
(* What every generated grammar satisfies.                                 *)
(***************************************************************************)
ProductionOK(g, p) ==
  /\ p.lhs \in Symbols(g)
  /\ p.rhs \in Seq(Symbols(g))
  /\ DOMAIN p.field \subseteq DOMAIN p.rhs
  /\ \A i \in DOMAIN p.field : p.field[i] \in Nat
  /\ DOMAIN p.alias \subseteq DOMAIN p.rhs
  /\ \A i \in DOMAIN p.alias : p.alias[i] \in Nat

GotoUnique(g) ==
  \A s \in States(g), a \in Symbols(g), t, u \in States(g) :
    Goto(t) \in ToSet(g.table[s][a]) /\ Goto(u) \in ToSet(g.table[s][a]) => t = u

GrammarOK(g) ==
  /\ g.states \in Nat \ {0}
  /\ g.symbols \in Nat \ {0}
  /\ g.terminals \subseteq Symbols(g)
  /\ g.prods \in Seq({g.prods[p] : p \in DOMAIN g.prods})
  /\ \A p \in DOMAIN g.prods : ProductionOK(g, g.prods[p])
  /\ DOMAIN g.table = States(g)
  /\ \A s \in States(g) :
       /\ DOMAIN g.table[s] = Symbols(g)
       /\ \A a \in Symbols(g) : g.table[s][a] \in Seq(Entries(g))
  /\ GotoUnique(g)

\* The table takes state q to state r over symbol a.
Moves(g, q, a, r) == {Shift(r), Goto(r)} \cap ToSet(Actions(g, q, a)) # {}

\* The moves that lead, in as many steps as rhs is long, to a state that reduces p spell rhs.
Spelled(g, p, rhs) ==
  \A q \in [0 .. Len(rhs) -> States(g)] :
    (\E a \in Symbols(g) : Reduce(p) \in ToSet(Actions(g, q[Len(rhs)], a))) =>
      \/ \E i \in DOMAIN rhs : \A a \in Symbols(g) : ~Moves(g, q[i - 1], a, q[i])
      \/ \A i \in DOMAIN rhs, a \in Symbols(g) : Moves(g, q[i - 1], a, q[i]) => a = rhs[i]

(***************************************************************************)
(* What NodesAreProductions asks of the table.  A table made of item sets  *)
(* is such, unless it shifts an extra to the state it is met in.           *)
(***************************************************************************)
PathsSpell(g) == \A p \in DOMAIN g.prods : Spelled(g, p, g.prods[p].rhs)

\* What EdgesYield asks of the grammar: no production is of a token.
RulesApart(g) == \A p \in DOMAIN g.prods : g.prods[p].lhs \notin g.terminals
=============================================================================
