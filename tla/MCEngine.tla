------------------------------- MODULE MCEngine -------------------------------
(***************************************************************************)
(* The instances on which the engine is model-checked.                     *)
(***************************************************************************)
EXTENDS EngineProperties, MCGrammars

\* All sources over some bytes, up to a length.
Sources(bytes, n) == UNION {[1 .. k -> bytes] : k \in 0 .. n}

Calls(g, bytes, n) ==
  {[grammar |-> g, source |-> s, masked |-> FALSE, from |-> Whole] : s \in Sources(bytes, n)}

CleanJobs ==
  Calls(SumG!Built, {0, 1}, 5)
    \cup Calls(OptG!Built, {0, 1, BLANK}, 3)
    \cup Calls(HiddenG!Built, {0, 1}, 4)
    \cup Calls(ListG!Built, {0, UNKNOWN}, 3)
    \cup Calls(ForkG!Built, {0, 1, 2}, 3)
    \cup Calls(NestG!Built, {0}, 4)
    \cup Calls(LeftSum, {2, 3}, 5)
    \cup Calls(OptNest, {3, 4, 5}, 3)
    \cup Calls(Declared, {3, 4, 5}, 3)
    \cup {[grammar |-> OptG!Built, source |-> s, masked |-> FALSE, from |-> Whole] :
             s \in {<<EMPTY, 0, 1>>, <<0, EMPTY, 1>>, <<1, EMPTY>>}}

\* Sources with errors, with one and with two stalled heads, and a lexer that
\* honours the mask.
Prefixed(prefix, g, bytes, n) ==
  {[j EXCEPT !.source = prefix \o @] : j \in Calls(g, bytes, n)}

Masked(calls) == {[j EXCEPT !.masked = TRUE] : j \in calls}

\* The same calls after an edit that begins at some byte.
Edited(calls) ==
  UNION {{[j EXCEPT !.from = k] : k \in 0 .. Len(j.source)} : j \in calls}

RecoveryJobs ==
  Calls(SumG!Built, {0, 1, UNKNOWN}, 3)
    \cup Calls(ListG!Built, {0, UNKNOWN, BLANK}, 4)
    \cup Calls(ForkG!Built, {0, 1, UNKNOWN}, 3)
    \cup Prefixed(<<0, 1>>, MaskG!Built, {0, 1, 2, 3}, 3)
    \cup Masked(Prefixed(<<0, 1>>, MaskG!Built, {0, 2, 3}, 2))
    \cup Edited(Calls(SumG!Built, {0, 1}, 3) \cup Calls(OptG!Built, {0, 1, UNKNOWN}, 3))

MCJobs == CleanJobs \cup RecoveryJobs

\* The tables are such that the children of a node spell a production, and that a node
\* either is a token or has children.
ASSUME MCTables == \A g \in {j.grammar : j \in Jobs} : PathsSpell(g) /\ RulesApart(g)

\* A right-recursive list of three elements.
RightJobs == {[grammar |-> RightG!Built, source |-> <<0, 0, 0>>, masked |-> FALSE, from |-> Whole]}

\* Two reductions of one token, the wrong one last.
UnitJobs == {[grammar |-> UnitG!Built, source |-> <<0>>, masked |-> FALSE, from |-> Whole]}

\* Two heads that wait for different tokens.
MaskJobs == {[grammar |-> MaskG!Built, source |-> <<0, 1, 3>>, masked |-> TRUE, from |-> Whole]}

\* A sentence whose last token was edited.
EditJobs == {[grammar |-> SumG!Built, source |-> <<0, 1, 0>>, masked |-> FALSE, from |-> 2]}

\* A sentence of an unambiguous grammar with hidden left recursion.
FreezeJobs == {[grammar |-> HiddenG!Built, source |-> <<0, 1, 1>>, masked |-> FALSE, from |-> Whole]}
=============================================================================
