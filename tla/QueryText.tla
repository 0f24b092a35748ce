------------------------------- MODULE QueryText -------------------------------
(***************************************************************************)
(* compile_query of glr-query: the texts of the queries of a reading to    *)
(* patterns, token by token.  The calls of the recursive descent that have *)
(* not returned are the patterns that are open.                            *)
(*                                                                         *)
(* A text is a sequence of lexemes: the signs <<"(">>, <<")">>, <<":">>,   *)
(* <<"@">>, <<"_">> and <<"*">>, names <<"ident", n>>, quoted strings      *)
(* <<"string", n>>, and names that begin with an underscore,               *)
(* <<"hidden", n>>.  Blanks and signs the scanner skips are left out.      *)
(*                                                                         *)
(* A pattern is a record                                                   *)
(*   kind     the symbol it names, or AnyKind                              *)
(*   named    whether it asks for a named node                             *)
(*   fields   field constraints, records [field, pattern]                  *)
(*   kids     patterns of children, in their order                         *)
(*   capture  the place of the name it captures by, 0 if it captures none  *)
(* The patterns of a query, inner ones too, are a sequence in the order    *)
(* they were closed in, and one names another by its place in it.          *)
(***************************************************************************)
EXTENDS Trees

VARIABLES
  queries,   \* the compiled queries: all patterns, those at the top, the names of captures
  textPos,   \* Parser::pos in the text that is compiled
  open       \* the calls of parse_pattern, each with its pattern and the field it is for

textVars == <<queries, textPos, open>>

NoQuery == [parts |-> <<>>, patterns |-> <<>>, captures |-> <<>>]

TextInit == queries = <<NoQuery>> /\ textPos = 1 /\ open = <<>>

AnyKind == -1

\* tokenize: an underscore is a token before the name behind it is looked at.
Tokens(text) ==
  FlattenSeq([i \in DOMAIN text |->
    IF text[i][1] = "hidden" THEN <<<<"_">>, <<"ident", text[i][2]>>>> ELSE <<text[i]>>])

Compiling == Len(queries)
Text == Tokens(job.texts[Compiling])

\* peek, as the kind of the token; "end" behind the last one.
Peek(pos) == IF pos \in DOMAIN Text THEN Text[pos][1] ELSE "end"
IsName(pos) == Peek(pos) \in {"ident", "string"}

Bare(kind, named) == [kind |-> kind, named |-> named, fields |-> <<>>, kids |-> <<>>, capture |-> 0]

\* The pattern of the token behind an opening parenthesis, in a set of at most one.
Begun(pos) ==
  CASE Peek(pos) = "ident" -> {Bare(Text[pos][2], TRUE)}
    [] Peek(pos) = "string" -> {Bare(Text[pos][2], FALSE)}
    [] Peek(pos) = "_" -> {Bare(AnyKind, TRUE)}
    [] Peek(pos) = "*" -> {Bare(AnyKind, FALSE)}
    [] OTHER -> {}

WithCapture(captures, name) ==
  IF name \in ToSet(captures) THEN captures ELSE Append(captures, name)

\* Fault: a name is taken for the one that was met last.
PlaceOfLast(captures, name) == Len(captures)

PlaceOf(captures, name) == CHOOSE i \in DOMAIN captures : captures[i] = name

\* compile_query returns an error.
Refuse == phase' = "refused" /\ UNCHANGED <<job, textVars>>

\* A call of parse_pattern for the token at pos.
Call(pos, field) ==
  IF Peek(pos) # "(" \/ Begun(pos + 1) = {} THEN Refuse
  ELSE /\ \E p \in Begun(pos + 1) : open' = Append(open, [pattern |-> p, field |-> field])
       /\ textPos' = pos + 2
       /\ UNCHANGED <<readVars, queries>>

\* A token before a colon is the name of a field.
IsField == Peek(textPos) \notin {")", "end", ":", "@"} /\ Peek(textPos + 1) = ":"

OpenTop ==
  /\ phase = "compile"
  /\ open = <<>>
  /\ Peek(textPos) = "("
  /\ Call(textPos, {})

OpenChild ==
  /\ phase = "compile"
  /\ open # <<>>
  /\ Peek(textPos) \notin {")", "end", ":", "@"}
  /\ ~IsField
  /\ Call(textPos, {})

OpenField ==
  /\ phase = "compile"
  /\ open # <<>>
  /\ IsField
  /\ IF IsName(textPos) THEN Call(textPos + 2, {Text[textPos][2]}) ELSE Refuse

SkipColon ==
  /\ phase = "compile"
  /\ open # <<>>
  /\ Peek(textPos) = ":"
  /\ textPos' = textPos + 1
  /\ UNCHANGED <<readVars, queries, open>>

Parts == queries[Compiling].parts
Captures == queries[Compiling].captures
Innermost == Last(open).pattern

\* The name belongs to the pattern that is open; it takes the place of an earlier one.
NamePattern ==
  /\ phase = "compile"
  /\ open # <<>>
  /\ Peek(textPos) = "@"
  /\ IF ~IsName(textPos + 1) THEN Refuse
     ELSE LET all == WithCapture(Captures, Text[textPos + 1][2])
          IN /\ queries' = [queries EXCEPT ![Compiling].captures = all]
             /\ open' = [open EXCEPT ![Len(open)].pattern.capture =
                           PlaceOf(all, Text[textPos + 1][2])]
             /\ textPos' = textPos + 2
             /\ UNCHANGED readVars

\* Part n becomes a child of p, or the pattern of a constraint on p.
Joining(p, field, n) ==
  IF field = {} THEN [p EXCEPT !.kids = Append(@, n)]
  ELSE [p EXCEPT !.fields = Append(@, [field |-> CHOOSE f \in field : TRUE, pattern |-> n])]

CloseChild ==
  /\ phase = "compile"
  /\ Len(open) > 1
  /\ Peek(textPos) = ")"
  /\ queries' = [queries EXCEPT ![Compiling].parts = Append(@, Innermost)]
  /\ open' = [Front(open) EXCEPT ![Len(open) - 1].pattern =
                 Joining(@, Last(open).field, Len(Parts) + 1)]
  /\ textPos' = textPos + 1
  /\ UNCHANGED readVars

\* A pattern p at the top of the text is done.
Topped(q, p, captures) ==
  [parts |-> Append(q.parts, p), patterns |-> Append(q.patterns, Len(q.parts) + 1),
   captures |-> captures]

\* The name behind the parenthesis of a pattern at the top is the pattern's.
CloseTop ==
  /\ phase = "compile"
  /\ Len(open) = 1
  /\ Peek(textPos) = ")"
  /\ IF Peek(textPos + 1) = "@"
     THEN IF ~IsName(textPos + 2) THEN Refuse
          ELSE LET all == WithCapture(Captures, Text[textPos + 2][2])
                   p == [Innermost EXCEPT !.capture = PlaceOf(all, Text[textPos + 2][2])]
               IN /\ queries' = [queries EXCEPT ![Compiling] = Topped(@, p, all)]
                  /\ textPos' = textPos + 3 /\ open' = <<>> /\ UNCHANGED readVars
     ELSE /\ queries' = [queries EXCEPT ![Compiling] = Topped(@, Innermost, Captures)]
          /\ textPos' = textPos + 1 /\ open' = <<>> /\ UNCHANGED readVars

\* Fault: the end of the text closes the pattern.
RunOutClosing ==
  /\ phase = "compile"
  /\ open # <<>>
  /\ Peek(textPos) = "end"
  /\ queries' = [queries EXCEPT ![Compiling] = Topped(@, open[1].pattern, Captures)]
  /\ open' = <<>>
  /\ UNCHANGED <<readVars, textPos>>

RunOut ==
  /\ phase = "compile"
  /\ open # <<>>
  /\ Peek(textPos) = "end"
  /\ Refuse

\* What is no pattern ends the text, whatever is behind it.
TextEnds ==
  /\ phase = "compile"
  /\ open = <<>>
  /\ Peek(textPos) # "("
  /\ IF Compiling < Len(job.texts)
     THEN queries' = Append(queries, NoQuery) /\ textPos' = 1 /\ UNCHANGED phase
     ELSE phase' = "query" /\ UNCHANGED <<queries, textPos>>
  /\ UNCHANGED <<job, open>>

TextNext == \/ OpenTop \/ OpenChild \/ OpenField \/ SkipColon \/ NamePattern
            \/ CloseChild \/ CloseTop \/ RunOut \/ TextEnds

-------------------------------------------------------------------------------
(* What a text is meant to say.                                            *)

\* The patterns of a query written out, with the names of their captures.
Spelled(q) ==
  LET out[p \in DOMAIN q.parts] ==
        [q.parts[p] EXCEPT !.capture = IF @ = 0 THEN 0 ELSE q.captures[@],
                           !.kids = [i \in DOMAIN @ |-> out[@[i]]],
                           !.fields = [i \in DOMAIN @ |-> [@[i] EXCEPT !.pattern = out[@]]]]
  IN out

\* How many parentheses are open behind the first n tokens, and how often none was.
OpenAfter(tokens, n) ==
  Len(SelectSeq(SubSeq(tokens, 1, n), LAMBDA t : t = <<"(">>))
    - Len(SelectSeq(SubSeq(tokens, 1, n), LAMBDA t : t = <<")">>))
Closings(tokens) == {n \in DOMAIN tokens : tokens[n] = <<")">> /\ OpenAfter(tokens, n) = 0}

Read(q) == [i \in DOMAIN queries[q].patterns |-> Spelled(queries[q])[queries[q].patterns[i]]]

Compiled == phase \in {"query", "resolve", "done"} /\ job.task \in {"query", "highlight"}

(***************************************************************************)
(* compile_query gives the patterns the text was written from, with their  *)
(* nesting, their fields and the names of their captures, a name used      *)
(* twice as one capture.                                                   *)
(***************************************************************************)
TextsMean ==
  Compiled /\ ~job.cut =>
    \A q \in DOMAIN job.meant :
      Read(q) = job.meant[q] /\ IsInjective(queries[q].captures)

(***************************************************************************)
(* A text that was cut short is refused where a parenthesis is open or a   *)
(* name is missing; elsewhere it gives the patterns that were complete, of *)
(* which the last may lack its name, and never a pattern half read.        *)
(***************************************************************************)
CutRefused ==
  job.task = "query" /\ job.cut =>
    LET tokens == Tokens(job.texts[1])
        torn == OpenAfter(tokens, Len(tokens)) > 0 \/ (tokens # <<>> /\ Last(tokens) = <<"@">>)
        nameless(p) == [p EXCEPT !.capture = 0]
    IN /\ phase = "refused" => torn
       /\ Compiled =>
            /\ ~torn
            /\ Len(Read(1)) = Cardinality(Closings(tokens))
            /\ \A i \in DOMAIN Read(1) : nameless(Read(1)[i]) = nameless(job.meant[1][i])
=============================================================================
