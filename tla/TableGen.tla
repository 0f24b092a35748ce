------------------------------- MODULE TableGen -------------------------------
(***************************************************************************)
(* ParseTableGenerator::generate_with_extras: the loops that turn the      *)
(* productions of a grammar into a parse table, one pass, transition or    *)
(* row at a time, and what each phase owes the next.                       *)
(***************************************************************************)
EXTENDS LR1

CONSTANT Inputs   \* the compiled productions a call may get

\* What the generator indexes with: every symbol has a number, and only nonterminals have
\* productions.
RawProductionOK(g, p) ==
  /\ p.lhs \in OfKind(g, "nonterm")
  /\ p.rhs \in Seq(SymbolIds(g))
  /\ p.level \subseteq Int
  /\ \A l, t \in p.level : l = t

InputOK(g) ==
  /\ Cardinality(SymbolIds(g)) \in Nat \ {0}
  /\ g.kind \in [0 .. Cardinality(SymbolIds(g)) - 1 -> {"term", "nonterm", "extern"}]
  /\ g.prods \in Seq({g.prods[p] : p \in DOMAIN g.prods})
  /\ \A p \in DOMAIN g.prods : RawProductionOK(g, g.prods[p])
  /\ g.start \in SymbolIds(g)
  /\ g.groups \in Seq(SUBSET SymbolIds(g))
  /\ g.extras \subseteq SymbolIds(g)

ASSUME InputsAssumption == \A g \in Inputs : InputOK(g)

VARIABLES input,     \* the arguments of the call
          stage,     \* the phase that runs
          nullable,  \* the nullable symbols found so far
          first,     \* the FIRST sets found so far
          sets,      \* the LR(1) states found so far
          scan,      \* the state and the symbol whose transition is next
          rows,      \* the rows of the table, state 0 first
          split      \* the rows as they are stored

vars == <<input, stage, nullable, first, sets, scan, rows, split>>

an == [nullable |-> nullable, first |-> first]
NoSplit == [count |-> 0, large |-> <<>>, small |-> <<>>]
Width == Cardinality(SymbolIds(input))

Init ==
  /\ input \in Inputs
  /\ stage = "nullable"
  /\ nullable = {}
  /\ first = OwnFirst(input)
  /\ sets = <<>>
  /\ scan = <<1, 0>>
  /\ rows = <<>>
  /\ split = NoSplit

\* Fault: one pass is enough.
FindNullableOnce ==
  /\ stage = "nullable"
  /\ nullable' = NullablePass(input, nullable)
  /\ stage' = "first"
  /\ UNCHANGED <<input, first, sets, scan, rows, split>>

\* A pass over the productions; the loop ends with a pass that changes nothing.
FindNullable ==
  /\ stage = "nullable"
  /\ nullable' = NullablePass(input, nullable)
  /\ stage' = IF nullable' = nullable THEN "first" ELSE stage
  /\ UNCHANGED <<input, first, sets, scan, rows, split>>

\* Fault: a pass that changes nothing does not end the loop.
FindFirstOn ==
  /\ stage = "first"
  /\ first' = FirstPass(input, nullable, first)
  /\ UNCHANGED <<input, stage, nullable, sets, scan, rows, split>>

FindFirst ==
  /\ stage = "first"
  /\ first' = FirstPass(input, nullable, first)
  /\ stage' = IF first' = first THEN "start" ELSE stage
  /\ UNCHANGED <<input, nullable, sets, scan, rows, split>>

StartStates ==
  /\ stage = "start"
  /\ sets' = <<Initial(input, an)>>
  /\ stage' = "states"
  /\ UNCHANGED <<input, nullable, first, scan, rows, split>>

\* Fault: the transitions on the last symbol are not followed.
FollowSymbolShort ==
  /\ stage = "states"
  /\ scan[1] <= Len(sets)
  /\ sets' = WithTarget(sets, LRGoto(input, an, sets[scan[1]], scan[2]))
  /\ scan' = IF scan[2] + 2 < Width THEN <<scan[1], scan[2] + 1>> ELSE <<scan[1] + 1, 0>>
  /\ UNCHANGED <<input, stage, nullable, first, rows, split>>

\* The transition of one state on one symbol.
FollowSymbol ==
  /\ stage = "states"
  /\ scan[1] <= Len(sets)
  /\ sets' = WithTarget(sets, LRGoto(input, an, sets[scan[1]], scan[2]))
  /\ scan' = IF scan[2] + 1 < Width THEN <<scan[1], scan[2] + 1>> ELSE <<scan[1] + 1, 0>>
  /\ UNCHANGED <<input, stage, nullable, first, rows, split>>

StatesDone ==
  /\ stage = "states"
  /\ scan[1] > Len(sets)
  /\ stage' = "fill"
  /\ UNCHANGED <<input, nullable, first, sets, scan, rows, split>>

\* The row of the next state.
FillParseEntries ==
  /\ stage = "fill"
  /\ rows' = Append(rows, FillRow(input, an, sets, Len(rows) + 1))
  /\ stage' = IF Len(rows') = Len(sets) THEN "extras" ELSE stage
  /\ UNCHANGED <<input, nullable, first, sets, scan, split>>

ShiftExtras ==
  /\ stage = "extras"
  /\ rows' = [s \in DOMAIN rows |-> WithExtras(input, s, rows[s])]
  /\ scan' = <<1, 0>>
  /\ stage' = "resolve"
  /\ UNCHANGED <<input, nullable, first, sets, split>>

\* One row after the other.
ResolveConflicts ==
  /\ stage = "resolve"
  /\ rows' = [rows EXCEPT ![scan[1]] = ResolveRow(input, @)]
  /\ scan' = <<scan[1] + 1, 0>>
  /\ stage' = IF scan[1] = Len(rows) THEN "split" ELSE stage
  /\ UNCHANGED <<input, nullable, first, sets, split>>

SplitLargeSmall ==
  /\ stage = "split"
  /\ split' = SplitRows(rows)
  /\ stage' = "done"
  /\ UNCHANGED <<input, nullable, first, sets, scan, rows>>

Next == \/ FindNullable \/ FindFirst \/ StartStates \/ FollowSymbol \/ StatesDone
        \/ FillParseEntries \/ ShiftExtras \/ ResolveConflicts \/ SplitLargeSmall

\* One call in one thread.
Spec == Init /\ [][Next]_vars /\ WF_vars(Next)

-------------------------------------------------------------------------------
(* What the generator promises.                                            *)

Row == [SymbolIds(input) -> Seq([op : {"shift", "goto", "reduce", "accept"}, arg : Nat])]

(***************************************************************************)
(* The type invariant.  Every state named by an entry is a row, and every  *)
(* reduction names a production: what the engine indexes with.             *)
(***************************************************************************)
TableTypeOK ==
  /\ stage \in {"uncalled", "nullable", "first", "start", "states", "fill", "extras", "resolve", "split", "done"}
  /\ nullable \subseteq OfKind(input, "nonterm")
  /\ first \in [SymbolIds(input) -> SUBSET (SymbolIds(input) \ OfKind(input, "nonterm"))]
  /\ sets \in Seq(SUBSET Items(input))
  /\ scan \in (Nat \ {0}) \X Nat
  /\ rows \in Seq(Row)
  /\ \A s \in DOMAIN rows, a \in SymbolIds(input) : \A e \in ToSet(rows[s][a]) :
       /\ e.op \in {"shift", "goto"} => e.arg < Len(sets)
       /\ e.op = "reduce" => e.arg \in DOMAIN input.prods
  /\ split.large \in Seq(Row) /\ split.small \in Seq(Row) /\ split.count \in 0 .. Len(rows)

\* The grammar as the engine gets it, its rows not yet split, without fields and aliases.
Generated ==
  [states    |-> Len(sets),
   symbols   |-> Width,
   terminals |-> OfKind(input, "term"),
   prods     |-> [p \in DOMAIN input.prods |->
                    [lhs |-> input.prods[p].lhs, rhs |-> input.prods[p].rhs,
                     field |-> <<>>, alias |-> <<>>]],
   table     |-> [s \in 0 .. Len(sets) - 1 |-> rows[s + 1]]]

YieldBound == 5    \* longer than a shortest sentence that begins with a given terminal

\* The symbols of g, each with the strings of at most YieldBound terminals it derives.
Strings(g) ==
  LET joined(D, rhs) ==
        FoldLeft(LAMBDA W, a : {w \in {u \o x[2] : u \in W, x \in {e \in D : e[1] = a}} :
                                  Len(w) <= YieldBound},
                 {<<>>}, rhs)
      d[D \in SUBSET (SymbolIds(g) \X Seq(SymbolIds(g)))] ==
        LET E == D \cup UNION {{<<g.prods[p].lhs, w>> : w \in joined(D, g.prods[p].rhs)} :
                              p \in DOMAIN g.prods}
        IN IF E = D THEN D ELSE d[E]
  IN d[{<<a, <<a>>>> : a \in SymbolIds(g) \ OfKind(g, "nonterm")}]

(***************************************************************************)
(* The loops of compute_nullable and compute_first end with exactly the    *)
(* symbols that derive the empty string, and exactly the terminals that    *)
(* begin a derived string, whatever the order of the productions.          *)
(***************************************************************************)
SetsExact ==
  stage = "start" =>
    /\ nullable = {a \in SymbolIds(input) : <<a, <<>>>> \in Strings(input)}
    /\ \A a, t \in SymbolIds(input) :
         t \in first[a] <=> \E d \in Strings(input) : d[1] = a /\ d[2] # <<>> /\ d[2][1] = t

(***************************************************************************)
(* Every transition of every state is in the table, exactly once, as a     *)
(* shift or a goto to the row of its target: fill_parse_entries looks the  *)
(* target up by its items and drops a transition it does not find, and     *)
(* find_goto takes the first Goto of a cell.                               *)
(***************************************************************************)
MovesEntered ==
  stage = "extras" =>
    /\ IsInjective(sets)
    /\ \A s \in DOMAIN sets : \A a \in UNION {NextIs(input, it) : it \in sets[s]} :
         LET moves == {e \in ToSet(rows[s][a]) : e.op \in {"shift", "goto"}}
         IN \E t \in DOMAIN sets :
              /\ moves = {IF input.kind[a] = "term" THEN Shift(t - 1) ELSE Goto(t - 1)}
              /\ LRGoto(input, an, sets[s], a) = sets[t]

\* Whether the precedence of production p against terminal a lets the shift, the reduction live.
Outranks(p, a) ==
  \E l \in input.prods[p].level, t \in TokenLevel(input, a) :
    l > t \/ (l = t /\ input.prods[p].assoc \in {"left", "nonassoc"})
Outranked(p, a) ==
  \E l \in input.prods[p].level, t \in TokenLevel(input, a) :
    l < t \/ (l = t /\ input.prods[p].assoc \in {"right", "nonassoc"})

(***************************************************************************)
(* Precedence only ever takes away an action that loses to another action  *)
(* of its cell, in the order of the cell: no goto, no accept, no reduction *)
(* of a conflict among reductions, and nothing without declared levels.    *)
(***************************************************************************)
OnlyLosersGo ==
  [][stage = "resolve" =>
       \A s \in DOMAIN rows, a \in SymbolIds(input) :
         LET gone == ToSet(rows[s][a]) \ ToSet(rows'[s][a])
             reductions == {e \in ToSet(rows[s][a]) : e.op = "reduce"}
         IN /\ \A e \in gone :
                 \/ e.op = "shift" /\ \E r \in reductions : Outranks(r.arg, a)
                 \/ /\ e.op = "reduce" /\ Outranked(e.arg, a)
                    /\ \E f \in ToSet(rows[s][a]) : f.op = "shift"
            /\ ToSet(rows'[s][a]) \subseteq ToSet(rows[s][a])]_vars

(***************************************************************************)
(* No conflict that the declared levels decide is left to the engine, if   *)
(* it is not a declared one: a cell never keeps the shift together with a  *)
(* reduction one of the two outranks, however many reductions it holds.    *)
(***************************************************************************)
ConflictsDecided ==
  stage \in {"split", "done"} =>
    \A s \in DOMAIN rows, a \in SymbolIds(input) :
      Contested(input, rows[s][a]) =>
        \A e \in ToSet(rows[s][a]) :
          e.op = "reduce" => ~Outranks(e.arg, a) /\ ~Outranked(e.arg, a)

\* Large rows first and no row that is all errors after them.
Arranged ==
  \E n \in 1 .. Len(rows) : \A s \in DOMAIN rows : IF s <= n THEN IsLarge(rows[s]) ELSE IsSmall(rows[s])

LookupAgrees ==
  \A s \in DOMAIN rows, a \in SymbolIds(input) : SplitLookup(split, s - 1, a) = rows[s][a]

(***************************************************************************)
(* Where the large states come first, or no state is small, the lookup in  *)
(* the stored table finds the cell that was generated.                     *)
(***************************************************************************)
SplitServes ==
  stage = "done" /\ (Arranged \/ \A s \in DOMAIN rows : ~IsSmall(rows[s])) => LookupAgrees

(***************************************************************************)
(* The loops end: over passes that only add to finite sets, and over a     *)
(* list of states that grows while it is scanned.                          *)
(***************************************************************************)
Generates == stage = "nullable" ~> stage = "done"

-------------------------------------------------------------------------------
(* What the documentation says and the generator does not do.              *)

(***************************************************************************)
(* "Both representations must be supported": lookup finds each generated   *)
(* cell, whichever rows are large or small.                                *)
(***************************************************************************)
SplitFaithful == stage = "done" => LookupAgrees

(***************************************************************************)
(* Accept means "parsing complete": it is entered only in the state that   *)
(* the start symbol leads to from the initial state.                       *)
(***************************************************************************)
AcceptIsComplete ==
  stage = "done" =>
    \A s \in DOMAIN rows, a \in SymbolIds(input) :
      Accept \in ToSet(rows[s][a]) => sets[s] = LRGoto(input, an, sets[1], input.start)
=============================================================================
