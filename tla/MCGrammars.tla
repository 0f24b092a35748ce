------------------------------ MODULE MCGrammars ------------------------------
(***************************************************************************)
(* The grammars the engine is model-checked on, built by LR0Builder.       *)
(* Symbols are numbered terminals first.                                   *)
(***************************************************************************)
EXTENDS Integers, Sequences

Rule(lhs, rhs) == [lhs |-> lhs, rhs |-> rhs, field |-> <<>>, alias |-> <<>>]

\* S -> E ; E -> E + E | n       n = 0, + = 1, S = 2, E = 3
SumRules == <<Rule(2, <<3>>), Rule(3, <<3, 1, 3>>), Rule(3, <<0>>)>>
SumG == INSTANCE LR0Builder WITH Symbol <- 4, Terminals <- 2, Rules <- SumRules

\* S -> A b ; A -> a | (empty)   a = 0, b = 1, S = 2, A = 3
OptRules == <<Rule(2, <<3, 1>>), Rule(3, <<0>>), Rule(3, <<>>)>>
OptG == INSTANCE LR0Builder WITH Symbol <- 4, Terminals <- 2, Rules <- OptRules

\* S -> T ; T -> A T b | a ; A -> (empty)   a = 0, b = 1, S = 2, T = 3, A = 4
HiddenRules == <<Rule(2, <<3>>), Rule(3, <<4, 3, 1>>), Rule(3, <<0>>), Rule(4, <<>>)>>
HiddenG == INSTANCE LR0Builder WITH Symbol <- 5, Terminals <- 2, Rules <- HiddenRules

\* S -> L ; L -> L a | (empty)   a = 0, S = 1, L = 2
ListRules == <<Rule(1, <<2>>), Rule(2, <<2, 0>>), Rule(2, <<>>)>>
ListG == INSTANCE LR0Builder WITH Symbol <- 3, Terminals <- 1, Rules <- ListRules

\* S -> X b | Y c ; X -> a ; Y -> a    a = 0, b = 1, c = 2, S = 3, X = 4, Y = 5
\* with a field on the X and an alias on the Y of their parents.
ForkRules == <<[Rule(3, <<4, 1>>) EXCEPT !.field = <<7>>],
               [Rule(3, <<5, 2>>) EXCEPT !.alias = <<9>>],
               Rule(4, <<0>>), Rule(5, <<0>>)>>
ForkG == INSTANCE LR0Builder WITH Symbol <- 6, Terminals <- 3, Rules <- ForkRules

\* S -> a S a | (empty), nested under a fresh start   a = 0, P = 1, S = 2
NestRules == <<Rule(1, <<2>>), Rule(2, <<0, 2, 0>>), Rule(2, <<>>)>>
NestG == INSTANCE LR0Builder WITH Symbol <- 3, Terminals <- 1, Rules <- NestRules

\* S -> L ; L -> a L | a         a = 0, S = 1, L = 2
RightRules == <<Rule(1, <<2>>), Rule(2, <<0, 2>>), Rule(2, <<0>>)>>
RightG == INSTANCE LR0Builder WITH Symbol <- 3, Terminals <- 1, Rules <- RightRules

\* S -> a | X b ; X -> a         a = 0, b = 1, S = 2, X = 3
UnitRules == <<Rule(2, <<0>>), Rule(2, <<3, 1>>), Rule(3, <<0>>)>>
UnitG == INSTANCE LR0Builder WITH Symbol <- 4, Terminals <- 2, Rules <- UnitRules

\* S -> X b c | Y b d ; X -> a ; Y -> a    a = 0, b = 1, c = 2, d = 3, S = 4, X = 5, Y = 6
MaskRules == <<Rule(4, <<5, 1, 2>>), Rule(4, <<6, 1, 3>>), Rule(5, <<0>>), Rule(6, <<0>>)>>
MaskG == INSTANCE LR0Builder WITH Symbol <- 7, Terminals <- 4, Rules <- MaskRules
-------------------------------------------------------------------------------
(* Tables of ParseTableGenerator, before the split into rows.  It numbers  *)
(* the nonterminals first.                                                 *)

Gen == INSTANCE LR1 WITH LargeThreshold <- 5

Compiled(kind, rules, groups, conflicts) ==
  Gen!Compiled([kind |-> [a \in 0 .. Len(kind) - 1 |-> kind[a + 1]], prods |-> rules, start |-> 0,
                groups |-> groups, conflicts |-> conflicts, extras |-> {}])

Plain(lhs, rhs) == [lhs |-> lhs, rhs |-> rhs, level |-> {}, assoc |-> "none"]

\* S -> E ; E -> E + E | n, left-associative    S = 0, E = 1, + = 2, n = 3
LeftSum ==
  Compiled(<<"nonterm", "nonterm", "term", "term">>,
           <<Plain(0, <<1>>), [Plain(1, <<1, 2, 1>>) EXCEPT !.level = {0}, !.assoc = "left"],
             Plain(1, <<3>>)>>,
           <<{2}>>, {})

\* S -> A B b | c ; A -> a | B ; B -> (empty)    S = 0, A = 1, B = 2, a = 3, b = 4, c = 5
OptNest ==
  Compiled(<<"nonterm", "nonterm", "nonterm", "term", "term", "term">>,
           <<Plain(0, <<1, 2, 4>>), Plain(1, <<3>>), Plain(1, <<2>>), Plain(2, <<>>),
             Plain(0, <<5>>)>>,
           <<>>, {})

\* S -> X b | Y c | Y b ; X -> a ; Y -> a, a declared conflict    S = 0, X = 1, Y = 2, a = 3, b = 4, c = 5
Declared ==
  Compiled(<<"nonterm", "nonterm", "nonterm", "term", "term", "term">>,
           <<Plain(0, <<1, 4>>), Plain(0, <<2, 5>>), Plain(0, <<2, 4>>), Plain(1, <<3>>),
             Plain(2, <<3>>)>>,
           <<>>, {<<1, 2>>})
=============================================================================
