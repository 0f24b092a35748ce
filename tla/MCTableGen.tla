------------------------------ MODULE MCTableGen ------------------------------
(***************************************************************************)
(* The grammars on which the table generator is model-checked.  As         *)
(* compile_grammar numbers them, the nonterminals come before the tokens.  *)
(***************************************************************************)
EXTENDS TableGen

Prod(lhs, rhs) == [lhs |-> lhs, rhs |-> rhs, level |-> {}, assoc |-> "none"]
Ranked(p, level, assoc) == [p EXCEPT !.level = level, !.assoc = assoc]

Grammar(kind, prods) ==
  [kind |-> [a \in 0 .. Len(kind) - 1 |-> kind[a + 1]], prods |-> prods, start |-> 0,
   groups |-> <<>>, conflicts |-> {}, extras |-> {}]

\* S -> E ; E -> E + E | E * E | n    S = 0, E = 1, + = 2, * = 3, n = 4
\* with every way to rank the sum against the tokens.
Infix(level, assoc, groups) ==
  [Grammar(<<"nonterm", "nonterm", "term", "term", "term">>,
           <<Prod(0, <<1>>), Ranked(Prod(1, <<1, 2, 1>>), level, assoc),
             Ranked(Prod(1, <<1, 3, 1>>), {1}, "left"), Prod(1, <<4>>)>>)
     EXCEPT !.groups = groups]
InfixInputs ==
  {Infix(level, assoc, groups) :
     level \in {{}, {0}, {1}}, assoc \in {"none", "left", "right", "nonassoc"},
     groups \in {<<{2}, {3}>>, <<{3}, {2}, {3}>>}}

\* S -> A B c ; A -> B a | (empty) ; B -> b | A   with nullable symbols found late
\* S = 0, A = 1, B = 2, a = 3, b = 4, c = 5
LateNullable ==
  Grammar(<<"nonterm", "nonterm", "nonterm", "term", "term", "term">>,
          <<Prod(0, <<1, 2, 5>>), Prod(2, <<4>>), Prod(2, <<1>>), Prod(1, <<2, 3>>), Prod(1, <<>>)>>)

\* S -> X b | Y b | a b ; X -> a ; Y -> a    S = 0, X = 1, Y = 2, a = 3, b = 4
\* a shift against two reductions, declared and not, ranked on either side of b.
TwoReductions(x, y, assoc, conflicts) ==
  [Grammar(<<"nonterm", "nonterm", "nonterm", "term", "term">>,
           <<Prod(0, <<1, 4>>), Prod(0, <<2, 4>>), Prod(0, <<3, 4>>),
             Ranked(Prod(1, <<3>>), x, assoc), Ranked(Prod(2, <<3>>), y, "none")>>)
     EXCEPT !.groups = <<{}, {4}>>, !.conflicts = conflicts]
TwoReductionInputs ==
  {TwoReductions(x, y, assoc, conflicts) :
     x \in {{}, {0}, {1}, {2}}, y \in {{}, {0}, {2}}, assoc \in {"left", "nonassoc"},
     conflicts \in {{}, {<<2, 1>>}, {<<0, 1>>}}}

\* S -> a | b | c | d | e | f    one large state, then small ones
Wide == Grammar(<<"nonterm", "term", "term", "term", "term", "term", "term">>,
                [i \in 1 .. 6 |-> Prod(0, <<i>>)])

\* S -> x a | a S    an external token, and an extra that is a token of the grammar, too
\* S = 0, a = 1, x = 2
ExternalAndExtra ==
  [Grammar(<<"nonterm", "term", "extern">>, <<Prod(0, <<2, 1>>), Prod(0, <<1, 0>>)>>)
     EXCEPT !.extras = {1}]

MCInputs == InfixInputs \cup TwoReductionInputs \cup {LateNullable, Wide, ExternalAndExtra}

\* S -> h, the grammar of the crate's own tests: every state is small.
HelloInput == {Grammar(<<"nonterm", "term">>, <<Prod(0, <<1>>)>>)}

\* E -> E + E | n with E as its start.
SumInput ==
  {Grammar(<<"nonterm", "term", "term">>, <<Prod(0, <<0, 1, 0>>), Prod(0, <<2>>)>>)}
=============================================================================
