-------------------------------- MODULE Lexer --------------------------------
(***************************************************************************)
(* The built-in lexer of glr-lexer: DfaBuilder makes a trie of the literal *)
(* tokens, byte by byte, and BuiltinLexer::next_token runs it over the     *)
(* source, with the patterns tried where no literal matches.               *)
(*                                                                         *)
(* The client is the parser.  "main" is the loop of parse_with_lexer: one  *)
(* token after the other, a zero-width one passed over by a reset.         *)
(* "seek" stands for recovery and incremental parsing, which put the lexer *)
(* at any byte.  CompositeLexer adds nothing here: next_token of the       *)
(* built-in lexer answers None only at the end of the source, so an        *)
(* external scanner is never asked.                                        *)
(*                                                                         *)
(* Regular expressions are the regex crate's; a pattern here is a greedy   *)
(* run of bytes of a class, of at least so many.                           *)
(***************************************************************************)
EXTENDS Integers, Sequences, SequencesExt

CONSTANT Inputs   \* records [source, literals, patterns, client]

\* SymbolId::UNKNOWN, and what stands for None.
UNKNOWN == -2
NoKind == -6

LF == 10
Blanks == {9, 10, 12, 13, 32}   \* ASCII white space
Bom == <<239, 187, 191>>
Byte == 0 .. 255

InputOK(in) ==
  /\ in.source \in Seq(Byte)
  /\ in.literals \in Seq([bytes : Seq(Byte), kind : Nat])
  /\ in.patterns \in Seq([class : SUBSET Byte, least : Nat, kind : Nat])
  /\ in.client \in {"main", "seek"}

ASSUME InputsAssumption == \A in \in Inputs : InputOK(in)

VARIABLES
  input,
  trie,      \* DfaBuilder::states, [next : a set of transitions, accept]
  lit,       \* the literal being added
  node,      \* the state in hand, of the builder and of the lexer
  cursor, row, col,
  pc,
  begin,     \* the cursor when next_token was called
  off,       \* the symbols whose entry of valid_symbols is false
  start,     \* where the token begins, and its row and column
  pos,       \* the byte in hand, of the literal and of the source
  accepted,  \* last_accept
  token      \* the answer

lexVars == <<cursor, row, col>>
callVars == <<begin, off>>
vars == <<input, trie, lit, node, cursor, row, col, pc, begin, off, start, pos,
          accepted, token>>

Source == input.source
Size == Len(Source)
Literals == input.literals
Kinds == {Literals[i].kind : i \in DOMAIN Literals}

-------------------------------------------------------------------------------
(* Rows and columns (glr-core).                                            *)

CharLength(b) ==
  IF b \in 192 .. 223 THEN 2
  ELSE IF b \in 224 .. 239 THEN 3
  ELSE IF b \in 240 .. 247 THEN 4 ELSE 1

\* unicode_width of the character at byte k: none for the byte order mark, one for the
\* others used here, and one for what is no character.
CharWidth(k) == IF IsPrefix(Bom, SubSeq(Source, k + 1, Size)) THEN 0 ELSE 1

\* column_offset: the columns from byte k to the limit.
Column(first, limit) ==
  LET c[k \in first .. Size + 4] ==
        IF k >= limit \/ Source[k + 1] = LF THEN 0
        ELSE IF k + CharLength(Source[k + 1]) > Size THEN 1
        ELSE CharWidth(k) + c[k + CharLength(Source[k + 1])]
  IN c[first]

Least(i, j) == IF i < j THEN i ELSE j

\* The line feeds among the bytes i to j, counted from 1.
Feeds(i, j) == {k \in i .. j : Source[k] = LF}

\* Where the line of byte k begins.
LineStart(k) == IF Feeds(1, k) = {} THEN 0 ELSE Max(Feeds(1, k))

\* position_at_impl.
PositionIn(k) ==
  LET limit == Least(k, Size)
  IN [row |-> Cardinality(Feeds(1, limit)), col |-> Column(LineStart(limit), limit)]

\* BuiltinLexer::position_at.
PositionAt(k) == IF k = cursor THEN [row |-> row, col |-> col] ELSE PositionIn(k)

GoTo(k, p) ==
  /\ cursor' = k
  /\ row' = p.row
  /\ col' = p.col

\* Fault: a new line does not begin at column 0.
AdvanceOn(n) ==
  LET feeds == Feeds(cursor + 1, cursor + n)
  IN GoTo(cursor + n, [row |-> row + Cardinality(feeds), col |-> col + n - Cardinality(feeds)])

\* advance by n bytes that are there: columns are counted in bytes.
Advance(n) ==
  LET feeds == Feeds(cursor + 1, cursor + n)
  IN GoTo(cursor + n, [row |-> row + Cardinality(feeds),
                       col |-> IF feeds = {} THEN col + n ELSE cursor + n - Max(feeds)])

-------------------------------------------------------------------------------
(* DfaBuilder.                                                             *)

NewState == [next |-> {}, accept |-> NoKind]
On(s, b) == {t \in trie[s].next : t.byte = b}

NoMatch == [end |-> 0, kind |-> NoKind]

\* No token yet, and the answer None.
NoAnswer == [kind |-> NoKind, start |-> 0, end |-> 0, from |-> [row |-> 0, col |-> 0],
             to |-> [row |-> 0, col |-> 0]]
Ended == -7

Init ==
  /\ input \in Inputs
  /\ trie = <<NewState>>
  /\ lit = 1
  /\ node = 1
  /\ cursor = 0 /\ row = 0 /\ col = 0
  /\ pc = "build"
  /\ begin = 0
  /\ off = {}
  /\ start = [byte |-> 0, row |-> 0, col |-> 0]
  /\ pos = 0
  /\ accepted = NoMatch
  /\ token = NoAnswer

Building ==
  /\ pc = "build"
  /\ lit \in DOMAIN Literals
  /\ UNCHANGED <<input, lexVars, pc, callVars, start, accepted, token>>

\* The byte has a transition already.
FollowByte ==
  /\ Building
  /\ pos < Len(Literals[lit].bytes)
  /\ \E t \in On(node, Literals[lit].bytes[pos + 1]) : node' = t.to
  /\ pos' = pos + 1
  /\ UNCHANGED <<trie, lit>>

\* Fault: the state is given the number the next one will have.
AddByteAhead ==
  /\ Building
  /\ pos < Len(Literals[lit].bytes)
  /\ On(node, Literals[lit].bytes[pos + 1]) = {}
  /\ trie' = Append([trie EXCEPT ![node].next =
                        @ \cup {[byte |-> Literals[lit].bytes[pos + 1], to |-> Len(trie) + 2]}],
                    NewState)
  /\ node' = Len(trie) + 1
  /\ pos' = pos + 1
  /\ UNCHANGED lit

\* It has none: alloc_state, and a transition to the new state.
AddByte ==
  /\ Building
  /\ pos < Len(Literals[lit].bytes)
  /\ On(node, Literals[lit].bytes[pos + 1]) = {}
  /\ trie' = Append([trie EXCEPT ![node].next =
                        @ \cup {[byte |-> Literals[lit].bytes[pos + 1], to |-> Len(trie) + 1]}],
                    NewState)
  /\ node' = Len(trie) + 1
  /\ pos' = pos + 1
  /\ UNCHANGED lit

\* The literal ends here; a later one with the same bytes takes the state over.
AcceptLiteral ==
  /\ Building
  /\ pos = Len(Literals[lit].bytes)
  /\ trie' = [trie EXCEPT ![node].accept = Literals[lit].kind]
  /\ lit' = lit + 1
  /\ node' = 1
  /\ pos' = 0

Built ==
  /\ pc = "build"
  /\ lit > Len(Literals)
  /\ pc' = "idle"
  /\ UNCHANGED <<input, trie, lit, node, lexVars, callVars, start, pos, accepted, token>>

-------------------------------------------------------------------------------
(* next_token.                                                             *)

Answered == token # NoAnswer
IsEmpty == Answered /\ token.kind # Ended /\ token.start >= token.end

\* The main loop asks again after a token of some width or a reset.
NextToken ==
  /\ pc = "idle"
  /\ input.client = "main" => token.kind # Ended /\ ~IsEmpty
  /\ off' \in {{}} \cup {{k} : k \in Kinds}
  /\ begin' = cursor
  /\ IF cursor = 0 /\ IsPrefix(Bom, Source) THEN Advance(3) ELSE UNCHANGED lexVars
  /\ pc' = "blank"
  /\ UNCHANGED <<input, trie, lit, node, start, pos, accepted, token>>

SkipBlank ==
  /\ pc = "blank"
  /\ cursor < Size
  /\ Source[cursor + 1] \in Blanks
  /\ Advance(1)
  /\ UNCHANGED <<input, trie, lit, node, pc, callVars, start, pos, accepted, token>>

AnswerNone ==
  /\ pc = "blank"
  /\ cursor >= Size
  /\ token' = [NoAnswer EXCEPT !.kind = Ended]
  /\ pc' = "idle"
  /\ UNCHANGED <<input, trie, lit, node, lexVars, callVars, start, pos, accepted>>

StartMatch ==
  /\ pc = "blank"
  /\ cursor < Size
  /\ Source[cursor + 1] \notin Blanks
  /\ start' = [byte |-> cursor, row |-> row, col |-> col]
  /\ pos' = cursor
  /\ node' = 1
  /\ accepted' = NoMatch
  /\ pc' = "match"
  /\ UNCHANGED <<input, trie, lit, lexVars, callVars, token>>

\* Fault: the first accepting state is kept.
NoteFirst ==
  accepted' = IF trie[node].accept = NoKind \/ accepted # NoMatch THEN accepted
              ELSE [end |-> pos, kind |-> trie[node].accept]

\* An accepting state on the way is remembered, the latest one in the end.
NoteAccept ==
  accepted' = IF trie[node].accept = NoKind THEN accepted
              ELSE [end |-> pos, kind |-> trie[node].accept]

MatchByte ==
  /\ pc = "match"
  /\ pos < Size
  /\ NoteAccept
  /\ \E t \in On(node, Source[pos + 1]) : node' = t.to
  /\ pos' = pos + 1
  /\ UNCHANGED <<input, trie, lit, lexVars, pc, callVars, start, token>>

\* No transition, or no byte.
MatchEnds ==
  /\ pc = "match"
  /\ pos < Size => On(node, Source[pos + 1]) = {}
  /\ NoteAccept
  /\ pc' = "emit"
  /\ UNCHANGED <<input, trie, lit, node, lexVars, callVars, start, pos, token>>

Token(kind, end, p) ==
  token' = [kind |-> kind, start |-> start.byte, end |-> end,
            from |-> [row |-> start.row, col |-> start.col], to |-> p]

\* Fault: the lexer stays where the automaton stopped.
EmitLiteralAhead ==
  /\ pc = "emit"
  /\ accepted # NoMatch
  /\ Token(IF accepted.kind \in off THEN UNKNOWN ELSE accepted.kind,
           accepted.end, PositionAt(accepted.end))
  /\ GoTo(pos, PositionAt(pos))
  /\ pc' = "idle"
  /\ UNCHANGED <<input, trie, lit, node, callVars, start, pos, accepted>>

\* A literal; UNKNOWN if valid_symbols turns it off.
EmitLiteral ==
  /\ pc = "emit"
  /\ accepted # NoMatch
  /\ Token(IF accepted.kind \in off THEN UNKNOWN ELSE accepted.kind,
           accepted.end, PositionAt(accepted.end))
  /\ GoTo(accepted.end, PositionAt(accepted.end))
  /\ pc' = "idle"
  /\ UNCHANGED <<input, trie, lit, node, callVars, start, pos, accepted>>

\* Where a match of pattern i at byte k ends, if it matches there.
PatternEnds(i, k) ==
  LET P == input.patterns[i]
  IN {e \in k + P.least .. Size :
        /\ \A b \in k + 1 .. e : Source[b] \in P.class
        /\ e < Size => Source[e + 1] \notin P.class}

\* match_patterns_cached: the longest match, the first pattern on a tie.
BestPatterns ==
  {m \in UNION {{[end |-> e, rank |-> i] : e \in PatternEnds(i, start.byte)} :
                  i \in DOMAIN input.patterns} :
     \A i \in DOMAIN input.patterns : \A e \in PatternEnds(i, start.byte) :
       e < m.end \/ (e = m.end /\ m.rank <= i)}

\* A pattern is tried only where no literal matches, and valid_symbols does not concern it.
EmitPattern ==
  /\ pc = "emit"
  /\ accepted = NoMatch
  /\ \E m \in BestPatterns :
       /\ Token(input.patterns[m.rank].kind, m.end, PositionAt(m.end))
       /\ GoTo(m.end, PositionAt(m.end))
  /\ pc' = "idle"
  /\ UNCHANGED <<input, trie, lit, node, callVars, start, pos, accepted>>

EmitUnknown ==
  /\ pc = "emit"
  /\ accepted = NoMatch
  /\ BestPatterns = {}
  /\ Advance(1)
  /\ Token(UNKNOWN, cursor + 1, [row |-> row', col |-> col'])
  /\ pc' = "idle"
  /\ UNCHANGED <<input, trie, lit, node, callVars, start, pos, accepted>>

-------------------------------------------------------------------------------
(* reset_to.                                                               *)

ResetTo(k) ==
  /\ GoTo(k, PositionAt(k))
  /\ token' = NoAnswer
  /\ UNCHANGED <<input, trie, lit, node, pc, callVars, start, pos, accepted>>

\* Fault: the reset leaves the lexer at the zero-width token.
PassEmptyShort ==
  /\ pc = "idle"
  /\ input.client = "main"
  /\ IsEmpty
  /\ ResetTo(token.start)

PassEmpty ==
  /\ pc = "idle"
  /\ input.client = "main"
  /\ IsEmpty
  /\ ResetTo(token.start + 1)

\* Recovery goes back to a token, an incremental parse starts at an edit.
Seek ==
  /\ pc = "idle"
  /\ input.client = "seek"
  /\ \E k \in 0 .. Size + 1 : ResetTo(k)

-------------------------------------------------------------------------------
Build == FollowByte \/ AddByte \/ AcceptLiteral \/ Built

Lex == \/ NextToken \/ SkipBlank \/ AnswerNone \/ StartMatch \/ MatchByte \/ MatchEnds
       \/ EmitLiteral \/ EmitPattern \/ EmitUnknown

Next == Build \/ Lex \/ PassEmpty \/ Seek

\* The lexer has no thread of its own: the parser, which never stops before the end,
\* takes its next step.
Spec == Init /\ [][Next]_vars /\ WF_vars(Next)

-------------------------------------------------------------------------------
Place == [row : Nat, col : Nat]

\* States, bytes and literals in hand exist; the lexer may be put one byte past the source.
LexTypeOK ==
  /\ \A s \in DOMAIN trie : \A t \in trie[s].next :
       t.byte \in Byte /\ t.to \in 2 .. Len(trie)
  /\ \A s \in DOMAIN trie : trie[s].accept \in Kinds \cup {NoKind}
  /\ lit \in 1 .. Len(Literals) + 1
  /\ node \in DOMAIN trie
  /\ cursor \in 0 .. Size + 1 /\ row \in Nat /\ col \in Nat
  /\ pc \in {"build", "idle", "blank", "match", "emit"}
  /\ begin \in 0 .. Size + 1
  /\ off \subseteq Kinds
  /\ start \in [byte : 0 .. Size, row : Nat, col : Nat]
  /\ pos \in Nat
  /\ accepted \in [end : 0 .. Size, kind : Kinds \cup {NoKind}]
  /\ token \in [kind : Int, start : 0 .. Size, end : 0 .. Size, from : Place, to : Place]

\* The literals that stand in the source at byte k.
Standing(k) ==
  {i \in DOMAIN Literals : IsPrefix(Literals[i].bytes, SubSeq(Source, k + 1, Size))}

Longest(k) == {i \in Standing(k) : \A j \in Standing(k) :
                  \/ Len(Literals[j].bytes) < Len(Literals[i].bytes)
                  \/ Len(Literals[j].bytes) = Len(Literals[i].bytes) /\ j <= i}

(***************************************************************************)
(* Among the literals that stand where the token begins next_token answers *)
(* the longest, of equal ones the last declared, although its automaton    *)
(* reads bytes of longer ones that fail in the end (and UNKNOWN in its     *)
(* place if the parser turned its kind off); among the patterns the        *)
(* longest run, of equal ones the first pattern; and one UNKNOWN byte only *)
(* where nothing matches.  Which of the two comes first is left open.      *)
(***************************************************************************)
LongestMatch ==
  pc = "idle" /\ Answered /\ token.kind # Ended =>
    LET k == token.start
        runs == UNION {PatternEnds(i, k) : i \in DOMAIN input.patterns}
    IN \/ \E i \in Longest(k) :
            /\ token.end = k + Len(Literals[i].bytes)
            /\ token.kind = IF Literals[i].kind \in off THEN UNKNOWN ELSE Literals[i].kind
       \/ \E i \in DOMAIN input.patterns :
            /\ token.kind = input.patterns[i].kind
            /\ token.end \in PatternEnds(i, k) /\ \A e \in runs : e <= token.end
            /\ \A j \in 1 .. i - 1 : token.end \notin PatternEnds(j, k)
       \/ /\ Standing(k) = {} /\ runs = {}
          /\ token.kind = UNKNOWN /\ token.end = k + 1

(***************************************************************************)
(* Between the place where next_token was asked and the token it answers   *)
(* lie only blanks and a byte order mark, and the lexer stands at the end  *)
(* of the token: no byte is lost or read twice.                            *)
(***************************************************************************)
Contiguous ==
  pc = "idle" /\ Answered /\ token.kind # Ended =>
    /\ begin <= token.start /\ token.start <= token.end
    /\ cursor = token.end
    /\ \A k \in begin .. token.start - 1 :
         \/ Source[k + 1] \in Blanks
         \/ begin = 0 /\ k < 3 /\ IsPrefix(Bom, Source)

\* No character of several bytes is between byte k and the last line feed before it.
AsciiLine(k) ==
  \A i \in 1 .. Least(k, Size) :
    Source[i] >= 128 => \E j \in i + 1 .. Least(k, Size) : Source[j] = LF

(***************************************************************************)
(* The row the lexer keeps by counting, over every skip, token and reset,  *)
(* is the row of its byte in the source, and on a line that is ASCII up to *)
(* there the column too, whatever the lines before it hold (on others      *)
(* advance counts bytes and position_at characters).                       *)
(***************************************************************************)
PositionsAgree ==
  /\ row = PositionIn(cursor).row
  /\ AsciiLine(cursor) => col = PositionIn(cursor).col
  /\ Answered /\ token.kind # Ended =>
       /\ token.from.row = PositionIn(token.start).row
       /\ token.to.row = PositionIn(token.end).row
       /\ AsciiLine(token.start) => token.from = PositionIn(token.start)
       /\ AsciiLine(token.end) => token.to = PositionIn(token.end)

(***************************************************************************)
(* The main loop reaches the end of the source, also with literals and     *)
(* patterns that match nothing at all.                                     *)
(***************************************************************************)
Drains == input.client = "main" ~> token.kind = Ended
=============================================================================
