------------------------------- MODULE MCLexer -------------------------------
(***************************************************************************)
(* The instances on which the lexer is model-checked.                      *)
(***************************************************************************)
EXTENDS Lexer

Sources(bytes, n) == UNION {[1 .. k -> bytes] : k \in 0 .. n}

Literal(bytes, kind) == [bytes |-> bytes, kind |-> kind]
Run(class, least, kind) == [class |-> class, least |-> least, kind |-> kind]

Lexing(sources, literals, patterns) ==
  {[source |-> s, literals |-> literals, patterns |-> patterns, client |-> c] :
     s \in sources, c \in {"main", "seek"}}

a == 97
b == 98
SP == 32

\* Literals that share prefixes, one given twice, and one byte after a failed longer match.
Shared == <<Literal(<<a>>, 1), Literal(<<a, b, a>>, 2), Literal(<<a, b>>, 3),
            Literal(<<a>>, 4), Literal(<<b, b>>, 5)>>

\* A literal and patterns that overlap, one of which matches the empty string.
Mixed == <<Run({a, b}, 2, 2), Run({b}, 0, 3), Run({b}, 1, 4)>>

Arrow == <<226, 134, 146>>
Wide == {Bom \o <<a>>, <<a, LF>> \o Bom, Bom \o <<LF, a, 226>>, Arrow \o <<a>>,
         <<LF>> \o Arrow \o <<195>>, <<226, LF, a, a>>}

MCInputs ==
  Lexing(Sources({a, b, SP}, 4), Shared, <<>>)
    \cup Lexing(Sources({a, b, LF}, 3), <<Literal(<<a>>, 1)>>, Mixed)
    \cup Lexing(Sources({a, LF}, 3), <<Literal(<<>>, 1), Literal(<<a, LF, a>>, 2)>>, <<>>)
    \cup Lexing(Wide, <<Literal(Arrow, 1), Literal(<<a>>, 2)>>, <<>>)
=============================================================================
