----------------------------- MODULE LexerProofs -----------------------------
(***************************************************************************)
(* Proofs about the built-in lexer: it loses no byte and reads none twice, *)
(* it answers the longest match, and the rows and columns it keeps on the  *)
(* way are those of the source, for all literals, patterns, sources and    *)
(* resets.                                                                 *)
(***************************************************************************)
EXTENDS Lexer, SequenceTheorems, FiniteSetTheorems, WellFoundedInduction, TLAPS

-------------------------------------------------------------------------------
(* The invariant: places.                                                  *)

Asking == pc \in {"blank", "match", "emit"}
Matching == pc \in {"match", "emit"}

\* Byte k was passed over since next_token was asked.
Passed(k) == \/ Source[k + 1] \in Blanks
             \/ begin = 0 /\ k < 3 /\ IsPrefix(Bom, Source)

\* The cursor is behind what was passed over; a match begins at it and ends in the source.
Places ==
  /\ input \in Inputs
  /\ pc \in {"build", "idle", "blank", "match", "emit"}
  /\ cursor \in 0 .. Size + 1
  /\ begin \in 0 .. Size + 1
  /\ pc = "build" => token = NoAnswer
  /\ pc = "idle" /\ Answered /\ token.kind # Ended => token.start \in 0 .. Size /\ token.end \in 0 .. Size
  /\ Asking => begin <= cursor /\ \A k \in begin .. cursor - 1 : Passed(k)
  /\ Matching => /\ start.byte = cursor /\ cursor < Size /\ pos \in cursor .. Size
                 /\ accepted = NoMatch \/ accepted.end \in cursor .. pos

PlaceInv == Places /\ Contiguous

-------------------------------------------------------------------------------
(* What the assumption says of an input.                                   *)

\* The least number principle.
LEMMA LeastNumber ==
  ASSUME NEW T, T \subseteq Nat, T # {}
  PROVE  \E x \in T : \A y \in T : x <= y
  <1> DEFINE R == OpToRel(<, Nat)
  <1>1. IsWellFoundedOn(R, Nat)
    BY NatLessThanWellFounded
  <1>2. PICK x \in T : \A y \in T : ~ (<<y, x>> \in R)
    <2> HIDE DEF R
    <2> QED BY <1>1, WFMin
  <1>3. \A y \in T : <<y, x>> \in R <=> y < x
    BY DEF OpToRel
  <1> HIDE DEF R
  <1>4. ASSUME NEW y \in T PROVE ~ (y < x)
    BY <1>2, <1>3, Zenon
  <1>5. ASSUME NEW y \in T PROVE x <= y
    <2>1. x \in Nat /\ y \in Nat
      OBVIOUS
    <2> QED BY <1>4, <2>1
  <1> QED BY <1>2, <1>5

LEMMA SeqFacts ==
  ASSUME NEW S, NEW s \in Seq(S)
  PROVE  Len(s) \in Nat /\ DOMAIN s = 1 .. Len(s) /\ \A i \in DOMAIN s : s[i] \in S
  BY LenProperties, ElementOfSeq

LEMMA InputFacts ==
  ASSUME input \in Inputs
  PROVE  /\ Source \in Seq(Byte) /\ Size \in Nat
         /\ \A k \in 1 .. Size : Source[k] \in Byte
         /\ Len(Literals) \in Nat /\ DOMAIN Literals = 1 .. Len(Literals)
         /\ \A i \in DOMAIN Literals : Literals[i].bytes \in Seq(Byte) /\ Literals[i].kind \in Nat
         /\ \A i \in DOMAIN input.patterns :
              input.patterns[i].least \in Nat /\ input.patterns[i].kind \in Nat
         /\ Len(input.patterns) \in Nat /\ DOMAIN input.patterns = 1 .. Len(input.patterns)
  <1> DEFINE L == [bytes : Seq(Byte), kind : Nat]
             P == [class : SUBSET Byte, least : Nat, kind : Nat]
  <1>1. InputOK(input)
    BY InputsAssumption
  <1>2. Source \in Seq(Byte)
    BY <1>1 DEF InputOK, Source
  <1>3. Size \in Nat /\ \A k \in 1 .. Size : Source[k] \in Byte
    BY <1>2 DEF Size
  <1>4. Literals \in Seq(L) /\ input.patterns \in Seq(P)
    BY <1>1 DEF InputOK, Literals
  <1>5. /\ Len(Literals) \in Nat /\ DOMAIN Literals = 1 .. Len(Literals)
        /\ \A i \in DOMAIN Literals : Literals[i] \in L
        /\ Len(input.patterns) \in Nat /\ DOMAIN input.patterns = 1 .. Len(input.patterns)
        /\ \A i \in DOMAIN input.patterns : input.patterns[i] \in P
    <2> HIDE DEF L, P
    <2> QED
      BY <1>4, SeqFacts
  <1> QED
    BY <1>2, <1>3, <1>5

LEMMA BomFits ==
  ASSUME Size \in Nat, IsPrefix(Bom, Source)
  PROVE  3 <= Size
  BY DEF IsPrefix, Bom, Size

-------------------------------------------------------------------------------
(* Places are kept.                                                        *)

LEMMA InitPlaces == Init => PlaceInv
  <1> SUFFICES ASSUME Init PROVE PlaceInv
    OBVIOUS
  <1>1. Size \in Nat
    BY InputFacts DEF Init
  <1> QED
    BY <1>1 DEF Init, PlaceInv, Places, Contiguous, Answered, Asking, Matching

LEMMA BuildPlaces ==
  ASSUME PlaceInv, Build
  PROVE  PlaceInv'
  <1>1. /\ UNCHANGED <<input, cursor, begin, token>> /\ pc = "build"
        /\ pc' \in {"build", "idle"}
    BY DEF Build, FollowByte, AddByte, AcceptLiteral, Built, Building, lexVars, callVars
  <1>2. Size' = Size
    BY <1>1 DEF Size, Source
  <1> QED
    BY <1>1, <1>2 DEF PlaceInv, Places, Contiguous, Answered, Asking, Matching

LEMMA NextTokenPlaces ==
  ASSUME PlaceInv, NextToken
  PROVE  PlaceInv'
  <1>1. /\ input' = input /\ begin' = cursor /\ pc' = "blank"
        /\ \/ cursor' = cursor
           \/ cursor = 0 /\ cursor' = 3 /\ IsPrefix(Bom, Source)
    BY DEF NextToken, Advance, GoTo, lexVars, PlaceInv, Places
  <1>2. Size' = Size /\ Source' = Source /\ Size \in Nat
    BY <1>1, InputFacts DEF Size, Source, PlaceInv, Places
  <1>3. cursor' \in 0 .. Size + 1 /\ cursor <= cursor'
    BY <1>1, <1>2, BomFits DEF PlaceInv, Places
  <1>4. ASSUME NEW k \in begin' .. cursor' - 1 PROVE Passed(k)'
    BY <1>1, <1>2, <1>4 DEF Passed, PlaceInv, Places
  <1> QED
    BY <1>1, <1>2, <1>3, <1>4 DEF PlaceInv, Places, Contiguous, Answered, Matching

LEMMA BlankPlaces ==
  ASSUME PlaceInv, SkipBlank \/ AnswerNone \/ StartMatch
  PROVE  PlaceInv'
  <1>1. input' = input /\ begin' = begin /\ pc = "blank"
    BY DEF SkipBlank, AnswerNone, StartMatch, callVars
  <1>2. Size' = Size /\ Source' = Source /\ Size \in Nat
    BY <1>1, InputFacts DEF Size, Source, PlaceInv, Places
  <1>3. \A k : Passed(k)' = Passed(k)
    BY <1>1, <1>2 DEF Passed
  <1>4. CASE SkipBlank
    <2>1. cursor' = cursor + 1 /\ cursor < Size /\ pc' = "blank"
      BY <1>4 DEF SkipBlank, Advance, GoTo
    <2>2. Passed(cursor)
      BY <1>4 DEF SkipBlank, Passed
    <2>3. \A k \in begin .. cursor' - 1 : Passed(k)
      BY <1>1, <2>1, <2>2 DEF PlaceInv, Places, Asking
    <2> QED
      BY <1>1, <1>2, <1>3, <2>1, <2>3 DEF PlaceInv, Places, Contiguous, Answered, Asking, Matching
  <1>5. CASE AnswerNone
    <2>1. pc' = "idle" /\ token'.kind = Ended /\ cursor' = cursor
      BY <1>5 DEF AnswerNone, lexVars, NoAnswer
    <2> QED
      BY <1>1, <1>2, <2>1 DEF PlaceInv, Places, Contiguous, Answered, Asking, Matching
  <1>6. CASE StartMatch
    <2>1. /\ pc' = "match" /\ cursor' = cursor /\ cursor < Size /\ pos' = cursor
          /\ start'.byte = cursor /\ accepted' = NoMatch
      BY <1>6 DEF StartMatch, lexVars
    <2> QED
      BY <1>1, <1>2, <1>3, <2>1 DEF PlaceInv, Places, Contiguous, Answered, Asking, Matching
  <1> QED
    BY <1>4, <1>5, <1>6

LEMMA MatchPlaces ==
  ASSUME PlaceInv, MatchByte \/ MatchEnds
  PROVE  PlaceInv'
  <1>1. /\ UNCHANGED <<input, cursor, begin, start>> /\ pc = "match" /\ pc' \in {"match", "emit"}
        /\ pos' = pos \/ (pos < Size /\ pos' = pos + 1)
        /\ accepted' = accepted \/ accepted'.end = pos
    BY DEF MatchByte, MatchEnds, NoteAccept, lexVars, callVars
  <1>2. Size' = Size /\ Source' = Source /\ Size \in Nat
    BY <1>1, InputFacts DEF Size, Source, PlaceInv, Places
  <1>3. \A k : Passed(k)' = Passed(k)
    BY <1>1, <1>2 DEF Passed
  <1> QED
    BY <1>1, <1>2, <1>3 DEF PlaceInv, Places, Contiguous, Answered, Asking, Matching

\* The end of a match of a pattern lies in the source.
LEMMA PatternEndsIn ==
  ASSUME input \in Inputs, NEW i \in DOMAIN input.patterns, NEW k \in Nat, NEW e \in PatternEnds(i, k)
  PROVE  e \in k .. Size
  <1>1. Size \in Nat /\ input.patterns[i].least \in Nat
    BY InputFacts
  <1> QED
    BY <1>1 DEF PatternEnds

LEMMA BestPatternEnds ==
  ASSUME input \in Inputs, NEW m \in BestPatterns
  PROVE  m.rank \in DOMAIN input.patterns /\ m.end \in PatternEnds(m.rank, start.byte)
  BY DEF BestPatterns

LEMMA EmitForward ==
  ASSUME PlaceInv, EmitLiteral \/ EmitPattern \/ EmitUnknown
  PROVE  token'.start = cursor /\ cursor' = token'.end /\ token'.end \in cursor .. Size
  <1>1. /\ start.byte = cursor /\ cursor < Size /\ pos \in cursor .. Size /\ cursor \in Nat
        /\ accepted = NoMatch \/ accepted.end \in cursor .. pos
        /\ Size \in Nat /\ input \in Inputs
    BY InputFacts
    DEF EmitLiteral, EmitPattern, EmitUnknown, PlaceInv, Places, Matching
  <1>2. CASE EmitLiteral
    BY <1>1, <1>2 DEF EmitLiteral, Token, GoTo
  <1>3. CASE EmitPattern
    <2>1. PICK m \in BestPatterns :
            /\ Token(input.patterns[m.rank].kind, m.end, PositionAt(m.end))
            /\ GoTo(m.end, PositionAt(m.end))
      BY <1>3 DEF EmitPattern
    <2>2. m.end \in start.byte .. Size
      BY <1>1, BestPatternEnds, PatternEndsIn
    <2> QED
      BY <1>1, <2>1, <2>2 DEF Token, GoTo
  <1>4. CASE EmitUnknown
    BY <1>1, <1>4 DEF EmitUnknown, Advance, Token, GoTo
  <1> QED
    BY <1>2, <1>3, <1>4

LEMMA EmitPlaces ==
  ASSUME PlaceInv, EmitLiteral \/ EmitPattern \/ EmitUnknown
  PROVE  PlaceInv'
  <1>1. UNCHANGED <<input, begin, start, pos, accepted>> /\ pc = "emit" /\ pc' = "idle"
    BY DEF EmitLiteral, EmitPattern, EmitUnknown, callVars
  <1>2. Size' = Size /\ Source' = Source /\ Size \in Nat
    BY <1>1, InputFacts DEF Size, Source, PlaceInv, Places
  <1>3. \A k : Passed(k)' = Passed(k)
    BY <1>1, <1>2 DEF Passed
  <1>4. token'.start = cursor /\ cursor' = token'.end /\ token'.end \in cursor .. Size
    BY EmitForward
  <1> QED
    BY <1>1, <1>2, <1>3, <1>4
    DEF PlaceInv, Places, Contiguous, Answered, Asking, Matching, Passed

LEMMA ResetsInSource ==
  ASSUME PlaceInv, PassEmpty \/ Seek
  PROVE  \E k \in 0 .. Size + 1 : ResetTo(k)
  <1>1. CASE PassEmpty
    <2>1. token.start \in 0 .. Size
      BY <1>1 DEF PassEmpty, PlaceInv, Places, IsEmpty
    <2> QED
      BY <1>1, <2>1, InputFacts DEF PassEmpty, PlaceInv, Places
  <1>2. CASE Seek
    BY <1>2 DEF Seek
  <1> QED
    BY <1>1, <1>2

LEMMA ResetPlaces ==
  ASSUME PlaceInv, PassEmpty \/ Seek
  PROVE  PlaceInv'
  <1>1. PICK k \in 0 .. Size + 1 : ResetTo(k)
    BY ResetsInSource
  <1>2. /\ UNCHANGED <<input, pc, begin>> /\ cursor' = k /\ token' = NoAnswer /\ pc = "idle"
    BY <1>1 DEF ResetTo, GoTo, callVars, PassEmpty, Seek
  <1>3. Size' = Size
    BY <1>2 DEF Size, Source
  <1> QED
    BY <1>2, <1>3 DEF PlaceInv, Places, Contiguous, Answered, Asking, Matching

LEMMA NextPlaces ==
  ASSUME PlaceInv, Next
  PROVE  PlaceInv'
  BY BuildPlaces, NextTokenPlaces, BlankPlaces, MatchPlaces, EmitPlaces, ResetPlaces
  DEF Next, Lex

LEMMA StutterPlaces ==
  ASSUME PlaceInv, UNCHANGED vars
  PROVE  PlaceInv'
  BY DEF vars, lexVars, callVars, PlaceInv, Places, Contiguous, Answered, Asking, Matching,
         Passed, Size, Source

(***************************************************************************)
(* The lexer is inside the source or one byte behind it, and its token is  *)
(* where it was asked or further, in every reachable state.                *)
(***************************************************************************)
THEOREM PlacesInductive == Spec => []PlaceInv
  <1>1. PlaceInv /\ [Next]_vars => PlaceInv'
    BY NextPlaces, StutterPlaces
  <1> QED
    BY <1>1, InitPlaces, PTL DEF Spec

(***************************************************************************)
(* No byte of the source is lost between two tokens or read twice, for     *)
(* all literals, patterns and sources, wherever the parser puts the lexer. *)
(***************************************************************************)
THEOREM NothingLost == Spec => []Contiguous
  <1>1. PlaceInv => Contiguous
    BY DEF PlaceInv
  <1> QED
    BY <1>1, PlacesInductive, PTL

-------------------------------------------------------------------------------
(* The invariant: the trie spells the literals.                            *)

Words == [DOMAIN trie -> Seq(Byte)]

\* w gives each state the bytes that lead to it; no two states have the same.
Spells(w) ==
  /\ 1 \in DOMAIN trie /\ w[1] = <<>>
  /\ \A s \in DOMAIN trie : \A t \in trie[s].next :
       t.to \in DOMAIN trie /\ t.byte \in Byte /\ w[t.to] = Append(w[s], t.byte)
  /\ \A s, r \in DOMAIN trie : w[s] = w[r] => s = r
  /\ \A r \in DOMAIN trie \ {1} : \E s \in DOMAIN trie : \E t \in trie[s].next : t.to = r

Added == {i \in DOMAIN Literals : i < lit}

\* A state accepts the kind of the last literal added that it spells.
Accepts(w) ==
  \A s \in DOMAIN trie :
    \/ trie[s].accept = NoKind /\ \A i \in Added : Literals[i].bytes # w[s]
    \/ \E i \in Added : /\ Literals[i].bytes = w[s] /\ trie[s].accept = Literals[i].kind
                        /\ \A j \in Added : Literals[j].bytes = w[s] => j <= i

\* The first n bytes of literal i have a state.
Spelled(w, i, n) == \E s \in DOMAIN trie : w[s] = SubSeq(Literals[i].bytes, 1, n)

Covers(w) == \A i \in Added : \A n \in 0 .. Len(Literals[i].bytes) : Spelled(w, i, n)

\* The literal in hand is in the trie up to the byte in hand.
InHand(w) ==
  pc = "build" /\ lit \in DOMAIN Literals =>
    /\ pos \in 0 .. Len(Literals[lit].bytes)
    /\ w[node] = SubSeq(Literals[lit].bytes, 1, pos)
    /\ \A n \in 0 .. pos : Spelled(w, lit, n)

\* The state in hand spells the bytes read.
Reading(w) == pc = "match" => w[node] = SubSeq(Source, cursor + 1, pos)

TrieState == [next : SUBSET [byte : Byte, to : Nat], accept : Int]

TrieTyped ==
  /\ trie \in Seq(TrieState)
  /\ node \in DOMAIN trie
  /\ lit \in 1 .. Len(Literals) + 1
  /\ pc # "build" => Added = DOMAIN Literals

TrieOf(w) == Spells(w) /\ Accepts(w) /\ Covers(w) /\ InHand(w) /\ Reading(w)

TrieInv == TrieTyped /\ \E w \in Words : TrieOf(w)

-------------------------------------------------------------------------------
(* The trie is built.                                                      *)

LEMMA InitTrie == Init => TrieInv
  <1> SUFFICES ASSUME Init PROVE TrieInv
    OBVIOUS
  <1> DEFINE w == [s \in {1} |-> <<>>]
  <1>1. /\ trie = <<NewState>> /\ lit = 1 /\ node = 1 /\ pc = "build" /\ pos = 0
        /\ input \in Inputs
    BY DEF Init
  <1>2. DOMAIN trie = {1} /\ trie[1] = NewState /\ Len(trie) = 1
    BY <1>1
  <1>3. w \in Words /\ w[1] = <<>>
    BY <1>2 DEF Words
  <1>4. Added = {} /\ lit \in 1 .. Len(Literals) + 1
    BY <1>1, InputFacts DEF Added
  <1>5. TrieTyped
    <2>1. NewState \in TrieState
      BY DEF NewState, TrieState, NoKind
    <2> QED
      BY <1>1, <1>2, <1>4, <2>1 DEF TrieTyped
  <1>6. Spells(w) /\ Accepts(w) /\ Covers(w) /\ Reading(w)
    BY <1>1, <1>2, <1>3, <1>4 DEF Spells, Accepts, Covers, Reading, NewState
  <1>7. InHand(w)
    <2> SUFFICES ASSUME lit \in DOMAIN Literals PROVE InHand(w)
      BY DEF InHand
    <2>1. /\ SubSeq(Literals[lit].bytes, 1, 0) = <<>> /\ Len(Literals[lit].bytes) \in Nat
      BY <1>1, InputFacts, SubSeqEmpty, LenProperties
    <2> QED
      BY <1>1, <1>2, <1>3, <2>1 DEF InHand, Spelled
  <1> QED
    BY <1>3, <1>5, <1>6, <1>7 DEF TrieInv, TrieOf

\* SubSeq of a prefix, one byte more.
LEMMA OneMore ==
  ASSUME NEW s \in Seq(Byte), NEW m \in Nat, NEW n \in Nat, m <= n + 1, n < Len(s), m >= 1
  PROVE  /\ SubSeq(s, m, n) \in Seq(Byte) /\ SubSeq(s, m, n + 1) \in Seq(Byte)
         /\ SubSeq(s, m, n + 1) = Append(SubSeq(s, m, n), s[n + 1])
  <1>1. Len(s) \in Nat /\ \A i \in 1 .. Len(s) : s[i] \in Byte
    BY LenProperties, ElementOfSeq
  <1>2. /\ SubSeq(s, m, n) \in Seq(Byte)
        /\ Len(SubSeq(s, m, n)) = n - m + 1
        /\ \A i \in 1 .. n - m + 1 : SubSeq(s, m, n)[i] = s[m + i - 1]
    <2>1. \A i \in m .. n : s[i] \in Byte
      BY <1>1
    <2> QED
      BY <2>1, SubSeqProperties
  <1>3. /\ SubSeq(s, m, n + 1) \in Seq(Byte)
        /\ Len(SubSeq(s, m, n + 1)) = n - m + 2
        /\ \A i \in 1 .. n - m + 2 : SubSeq(s, m, n + 1)[i] = s[m + i - 1]
    <2>1. \A i \in m .. n + 1 : s[i] \in Byte
      BY <1>1
    <2>2. n + 1 \in Int /\ n + 1 - m + 1 = n - m + 2
      OBVIOUS
    <2> QED
      BY <2>1, <2>2, SubSeqProperties
  <1>4. s[n + 1] \in Byte
    BY <1>1
  <1> DEFINE u == SubSeq(s, m, n)
             v == SubSeq(s, m, n + 1)
             a == Append(u, s[n + 1])
  <1>5. /\ a \in Seq(Byte) /\ Len(a) = n - m + 2
        /\ \A i \in 1 .. n - m + 1 : a[i] = u[i]
        /\ a[n - m + 2] = s[n + 1]
    BY <1>2, <1>4, AppendProperties
  <1>6. \A i \in 1 .. n - m + 2 : v[i] = a[i]
    BY <1>2, <1>3, <1>5
  <1> HIDE DEF u, v, a
  <1>7. v = a
    BY <1>3, <1>5, <1>6, SeqEqual DEF v
  <1> QED
    BY <1>2, <1>3, <1>7 DEF u, v, a

LEMMA FollowByteTrie ==
  ASSUME PlaceInv, TrieInv, FollowByte
  PROVE  TrieInv'
  <1> DEFINE bytes == Literals[lit].bytes
  <1>1. PICK w \in Words : TrieOf(w)
    BY DEF TrieInv
  <1>2. PICK t \in On(node, bytes[pos + 1]) : node' = t.to
    BY DEF FollowByte
  <1>3. /\ UNCHANGED <<input, trie, lit, pc, cursor>> /\ pc = "build" /\ pos' = pos + 1
        /\ lit \in DOMAIN Literals /\ pos < Len(bytes)
    BY DEF FollowByte, Building, lexVars
  <1>4. /\ node \in DOMAIN trie /\ pos \in 0 .. Len(bytes) /\ bytes \in Seq(Byte)
        /\ w[node] = SubSeq(bytes, 1, pos)
    BY <1>1, <1>3, InputFacts DEF TrieOf, InHand, TrieInv, TrieTyped, PlaceInv, Places
  <1>5. t.to \in DOMAIN trie /\ w[t.to] = Append(w[node], bytes[pos + 1])
    <2>1. t \in trie[node].next /\ t.byte = bytes[pos + 1]
      BY <1>2 DEF On
    <2>2. \A x \in trie[node].next : x.to \in DOMAIN trie /\ w[x.to] = Append(w[node], x.byte)
      BY <1>1, <1>4 DEF TrieOf, Spells
    <2> HIDE DEF bytes
    <2> QED
      BY <2>1, <2>2
  <1>6. w[node'] = SubSeq(bytes, 1, pos + 1)
    BY <1>2, <1>3, <1>4, <1>5, OneMore
  <1>7. Literals' = Literals /\ Added' = Added /\ Words' = Words
    BY <1>3 DEF Literals, Added, Words
  <1>8. TrieTyped'
    BY <1>2, <1>3, <1>5, <1>7 DEF TrieInv, TrieTyped
  <1>9. Spells(w)' /\ Accepts(w)' /\ Covers(w)' /\ Reading(w)'
    BY <1>1, <1>3, <1>7 DEF TrieOf, Spells, Accepts, Covers, Spelled, Reading
  <1>10. InHand(w)'
    <2>1. \A n \in 0 .. pos : Spelled(w, lit, n)
      BY <1>1, <1>3 DEF TrieOf, InHand
    <2>2. Spelled(w, lit, pos + 1)
      BY <1>2, <1>5, <1>6 DEF Spelled
    <2>3. \A n \in 0 .. pos + 1 : Spelled(w, lit, n)
      BY <1>4, <2>1, <2>2
    <2> QED
      BY <1>3, <1>4, <1>6, <1>7, <2>3 DEF InHand, Spelled
  <1> QED
    BY <1>7, <1>8, <1>9, <1>10 DEF TrieInv, TrieOf

LEMMA AcceptLiteralTrie ==
  ASSUME PlaceInv, TrieInv, AcceptLiteral
  PROVE  TrieInv'
  <1> DEFINE bytes == Literals[lit].bytes
  <1>1. PICK w \in Words : TrieOf(w)
    BY DEF TrieInv
  <1>2. /\ UNCHANGED <<input, pc, cursor>> /\ pc = "build" /\ pos' = 0 /\ lit' = lit + 1
        /\ node' = 1 /\ lit \in DOMAIN Literals /\ pos = Len(bytes)
        /\ trie' = [trie EXCEPT ![node].accept = Literals[lit].kind]
    BY DEF AcceptLiteral, Building, lexVars
  <1>3. /\ node \in DOMAIN trie /\ trie \in Seq(TrieState) /\ bytes \in Seq(Byte)
        /\ Literals[lit].kind \in Nat /\ Len(bytes) \in Nat
        /\ Len(Literals) \in Nat /\ DOMAIN Literals = 1 .. Len(Literals)
    BY <1>2, InputFacts, LenProperties DEF TrieInv, TrieTyped, PlaceInv, Places
  <1>4. w[node] = bytes
    BY <1>1, <1>2, <1>3, SubSeqFull DEF TrieOf, InHand
  <1>5. \A s \in DOMAIN trie : trie[s] \in TrieState
    BY <1>3
  <1>6. /\ DOMAIN trie' = DOMAIN trie
        /\ \A s \in DOMAIN trie : trie'[s].next = trie[s].next
        /\ \A s \in DOMAIN trie \ {node} : trie'[s] = trie[s]
        /\ trie'[node].accept = Literals[lit].kind
    BY <1>2, <1>3, <1>5 DEF TrieState
  <1>7. Literals' = Literals /\ Added' = Added \cup {lit} /\ Words' = Words
    BY <1>2, <1>3, <1>6 DEF Literals, Added, Words
  <1>8. TrieTyped'
    <2> DEFINE e == [trie[node] EXCEPT !.accept = Literals[lit].kind]
    <2>1. e \in TrieState
      <3>1. trie[node] \in TrieState /\ Literals[lit].kind \in Int
        BY <1>3, <1>5
      <3> QED
        BY <3>1 DEF TrieState
    <2>2. trie' \in Seq(TrieState)
      <3>1. trie' = [trie EXCEPT ![node] = e]
        BY <1>2
      <3>2. node \in 1 .. Len(trie)
        BY <1>3, LenProperties
      <3> HIDE DEF e
      <3> QED
        BY <1>3, <2>1, <3>1, <3>2, ExceptSeq
    <2>3. 1 \in DOMAIN trie
      BY <1>1 DEF TrieOf, Spells
    <2> QED
      BY <1>2, <1>3, <1>6, <1>7, <2>2, <2>3 DEF TrieTyped
  <1>9. Spells(w)' /\ Reading(w)'
    BY <1>1, <1>2, <1>6 DEF TrieOf, Spells, Reading
  <1>10. Accepts(w)'
    <2>1. Accepts(w) /\ \A s, r \in DOMAIN trie : w[s] = w[r] => s = r
      BY <1>1 DEF TrieOf, Spells
    <2>2. lit \notin Added /\ \A j \in Added \cup {lit} : j <= lit
      BY <1>2, <1>3 DEF Added
    <2> SUFFICES ASSUME NEW s \in DOMAIN trie
                 PROVE  \/ trie'[s].accept = NoKind /\ \A i \in Added' : Literals[i].bytes # w[s]
                        \/ \E i \in Added' :
                             /\ Literals[i].bytes = w[s] /\ trie'[s].accept = Literals[i].kind
                             /\ \A j \in Added' : Literals[j].bytes = w[s] => j <= i
      BY <1>6, <1>7 DEF Accepts
    <2>3. CASE s = node
      BY <1>3, <1>4, <1>6, <1>7, <2>2, <2>3
    <2>4. CASE s # node
      BY <1>3, <1>4, <1>6, <1>7, <2>1, <2>4 DEF Accepts
    <2> QED
      BY <2>3, <2>4
  <1>11. Covers(w)'
    <2>1. \A n \in 0 .. Len(bytes) : Spelled(w, lit, n)
      BY <1>1, <1>2 DEF TrieOf, InHand
    <2> QED
      BY <1>1, <1>6, <1>7, <2>1 DEF TrieOf, Covers, Spelled
  <1>12. InHand(w)'
    <2> SUFFICES ASSUME lit' \in DOMAIN Literals PROVE InHand(w)'
      BY <1>7 DEF InHand
    <2>1. /\ SubSeq(Literals[lit'].bytes, 1, 0) = <<>> /\ Len(Literals[lit'].bytes) \in Nat
      <3>1. Literals[lit'].bytes \in Seq(Byte)
        BY InputFacts DEF PlaceInv, Places
      <3> QED
        BY <3>1, SubSeqEmpty, LenProperties
    <2>2. 1 \in DOMAIN trie /\ w[1] = <<>>
      BY <1>1 DEF TrieOf, Spells
    <2>3. ASSUME NEW n \in 0 .. 0 PROVE Spelled(w, lit, n)'
      <3>1. n = 0 /\ SubSeq(Literals'[lit'].bytes, 1, n) = <<>>
        BY <1>7, <2>1
      <3> QED
        BY <1>6, <2>2, <3>1 DEF Spelled
    <2> QED
      BY <1>2, <1>7, <2>1, <2>2, <2>3 DEF InHand
  <1> QED
    BY <1>7, <1>8, <1>9, <1>10, <1>11, <1>12 DEF TrieInv, TrieOf

LEMMA BuiltTrie ==
  ASSUME PlaceInv, TrieInv, Built
  PROVE  TrieInv'
  <1>1. PICK w \in Words : TrieOf(w)
    BY DEF TrieInv
  <1>2. /\ UNCHANGED <<input, trie, lit, node, pos, cursor>> /\ pc' = "idle" /\ lit > Len(Literals)
    BY DEF Built, lexVars
  <1>3. Literals' = Literals /\ Added' = Added /\ Words' = Words
    BY <1>2 DEF Literals, Added, Words
  <1>4. Added = DOMAIN Literals
    BY <1>2, InputFacts DEF Added, TrieInv, TrieTyped, PlaceInv, Places
  <1>5. TrieTyped'
    BY <1>2, <1>3, <1>4 DEF TrieInv, TrieTyped
  <1>6. TrieOf(w)'
    BY <1>1, <1>2, <1>3
    DEF TrieOf, Spells, Accepts, Covers, Spelled, InHand, Reading
  <1> QED
    BY <1>3, <1>5, <1>6 DEF TrieInv

LEMMA SameAppend ==
  ASSUME NEW s \in Seq(Byte), NEW t \in Seq(Byte), NEW e \in Byte, NEW f \in Byte,
         Append(s, e) = Append(t, f)
  PROVE  s = t /\ e = f
  <1>1. /\ Len(s) \in Nat /\ Len(Append(s, e)) = Len(s) + 1 /\ Append(s, e)[Len(s) + 1] = e
        /\ \A i \in 1 .. Len(s) : Append(s, e)[i] = s[i]
    BY AppendProperties, LenProperties
  <1>2. /\ Len(t) \in Nat /\ Len(Append(t, f)) = Len(t) + 1 /\ Append(t, f)[Len(t) + 1] = f
        /\ \A i \in 1 .. Len(t) : Append(t, f)[i] = t[i]
    BY AppendProperties, LenProperties
  <1>3. Len(s) = Len(t) /\ \A i \in 1 .. Len(s) : s[i] = t[i]
    BY <1>1, <1>2
  <1>4. s = t
    BY <1>3, SeqEqual
  <1> QED
    BY <1>1, <1>2, <1>3

\* The word of the new state is new: a state that had it would be reached from the one in
\* hand by the byte that has no transition there.
LEMMA NewWord ==
  ASSUME PlaceInv, TrieInv, NEW w \in Words, Spells(w), NEW n \in DOMAIN trie, NEW b \in Byte,
         On(n, b) = {}
  PROVE  \A s \in DOMAIN trie : w[s] # Append(w[n], b)
  <1> SUFFICES ASSUME NEW s \in DOMAIN trie, w[s] = Append(w[n], b)
               PROVE  FALSE
    OBVIOUS
  <1>1. \A r \in DOMAIN trie : w[r] \in Seq(Byte)
    BY DEF Words
  <1>2. s # 1
    BY <1>1, AppendProperties DEF Spells
  <1>3. PICK r \in DOMAIN trie : \E t \in trie[r].next : t.to = s
    BY <1>2 DEF Spells
  <1>4. PICK t \in trie[r].next : t.to = s
    BY <1>3
  <1>5. t.byte \in Byte /\ w[s] = Append(w[r], t.byte)
    BY <1>4 DEF Spells
  <1>6. w[r] = w[n] /\ t.byte = b
    <2>1. Append(w[r], t.byte) = Append(w[n], b)
      BY <1>5
    <2>2. w[r] \in Seq(Byte) /\ w[n] \in Seq(Byte) /\ t.byte \in Byte
      BY <1>1, <1>5
    <2>3. PICK x, y, e : x = w[r] /\ y = w[n] /\ e = t.byte
      OBVIOUS
    <2>4. x \in Seq(Byte) /\ y \in Seq(Byte) /\ e \in Byte /\ Append(x, e) = Append(y, b)
      BY <2>1, <2>2, <2>3
    <2>5. x = y /\ e = b
      BY <2>4, SameAppend
    <2> QED
      BY <2>3, <2>5
  <1>7. r = n
    BY <1>6 DEF Spells
  <1> QED
    BY <1>4, <1>6, <1>7 DEF On

LEMMA AddByteTrie ==
  ASSUME PlaceInv, TrieInv, AddByte
  PROVE  TrieInv'
  <1> DEFINE bytes == Literals[lit].bytes
             b == bytes[pos + 1]
             new == Len(trie) + 1
             edge == [byte |-> b, to |-> new]
             grown == [trie EXCEPT ![node].next = @ \cup {edge}]
  <1>1. PICK w \in Words : TrieOf(w)
    BY DEF TrieInv
  <1>2. /\ UNCHANGED <<input, lit, pc, cursor>> /\ pc = "build" /\ pos' = pos + 1
        /\ lit \in DOMAIN Literals /\ pos < Len(bytes) /\ On(node, b) = {}
        /\ trie' = Append(grown, NewState) /\ node' = new
    BY DEF AddByte, Building, lexVars
  <1>3. /\ node \in DOMAIN trie /\ pos \in 0 .. Len(bytes) /\ bytes \in Seq(Byte)
        /\ w[node] = SubSeq(bytes, 1, pos) /\ trie \in Seq(TrieState)
    BY <1>1, <1>2, InputFacts DEF TrieOf, InHand, TrieInv, TrieTyped, PlaceInv, Places
  <1>4. /\ Len(trie) \in Nat /\ DOMAIN trie = 1 .. Len(trie) /\ new \notin DOMAIN trie
        /\ \A s \in DOMAIN trie : trie[s] \in TrieState
    <2> HIDE DEF TrieState
    <2>1. Len(trie) \in Nat /\ DOMAIN trie = 1 .. Len(trie) /\ \A s \in DOMAIN trie : trie[s] \in TrieState
      BY <1>3, SeqFacts
    <2> QED
      BY <2>1
  <1>5. b \in Byte /\ Len(bytes) \in Nat
    BY <1>2, <1>3, LenProperties, ElementOfSeq
  <1>6. /\ grown \in Seq(TrieState) /\ DOMAIN grown = DOMAIN trie /\ Len(grown) = Len(trie)
        /\ \A s \in DOMAIN trie \ {node} : grown[s] = trie[s]
        /\ grown[node].next = trie[node].next \cup {edge}
        /\ grown[node].accept = trie[node].accept
    <2> DEFINE e == [trie[node] EXCEPT !.next = @ \cup {edge}]
    <2>1. e \in TrieState /\ e.next = trie[node].next \cup {edge} /\ e.accept = trie[node].accept
      <3>1. trie[node] \in TrieState /\ edge \in [byte : Byte, to : Nat]
        BY <1>3, <1>4, <1>5
      <3> HIDE DEF edge
      <3> QED
        BY <3>1 DEF TrieState
    <2>2. grown = [trie EXCEPT ![node] = e] /\ node \in 1 .. Len(trie)
      BY <1>3, <1>4
    <2> HIDE DEF e, grown
    <2>3. /\ grown \in Seq(TrieState) /\ Len(grown) = Len(trie)
          /\ \A s \in 1 .. Len(trie) : grown[s] = IF s = node THEN e ELSE trie[s]
      BY <1>3, <2>1, <2>2, ExceptSeq
    <2>4. DOMAIN grown = DOMAIN trie
      BY <1>4, <2>3, LenProperties
    <2> QED
      BY <1>3, <1>4, <2>1, <2>3, <2>4
  <1> HIDE DEF grown
  <1>7. NewState \in TrieState
    BY DEF NewState, TrieState, NoKind
  <1>8. /\ trie' \in Seq(TrieState) /\ DOMAIN trie' = DOMAIN trie \cup {new}
        /\ \A s \in DOMAIN trie : trie'[s] = grown[s]
        /\ trie'[new] = NewState
    <2>1. /\ trie' \in Seq(TrieState) /\ Len(trie') = Len(trie) + 1
          /\ \A s \in 1 .. Len(trie) : trie'[s] = grown[s]
          /\ trie'[Len(trie) + 1] = NewState
      BY <1>2, <1>6, <1>7, AppendProperties
    <2>2. DOMAIN trie' = 1 .. Len(trie) + 1
      BY <2>1, LenProperties
    <2> QED
      BY <1>4, <2>1, <2>2
  <1> HIDE DEF new, b, bytes
  <1>9. \A s \in DOMAIN trie : w[s] \in Seq(Byte)
    BY DEF Words
  <1>10. Append(w[node], b) \in Seq(Byte)
    BY <1>3, <1>5, <1>9, AppendProperties
  <1>11. PICK u \in Words' : u[new] = Append(w[node], b) /\ \A s \in DOMAIN trie : u[s] = w[s]
    <2> DEFINE v == [s \in DOMAIN trie \cup {new} |->
                       IF s = new THEN Append(w[node], b) ELSE w[s]]
    <2>1. v \in Words' /\ v[new] = Append(w[node], b) /\ \A s \in DOMAIN trie : v[s] = w[s]
      BY <1>4, <1>8, <1>9, <1>10 DEF Words
    <2> QED
      BY <2>1
  <1>12. Spells(w) /\ 1 \in DOMAIN trie
    BY <1>1 DEF TrieOf, Spells
  <1>13. \A s \in DOMAIN trie : w[s] # u[new]
    BY <1>2, <1>3, <1>5, <1>11, <1>12, NewWord
  <1>14. \A s \in DOMAIN trie : trie'[s].accept = trie[s].accept
    BY <1>6, <1>8
  <1>15. /\ \A s \in DOMAIN trie \ {node} : trie'[s].next = trie[s].next
         /\ trie'[node].next = trie[node].next \cup {edge}
         /\ trie'[new].next = {} /\ trie'[new].accept = NoKind
    BY <1>3, <1>6, <1>8 DEF NewState
  <1>16. u[new] = SubSeq(bytes, 1, pos + 1)
    BY <1>2, <1>3, <1>11, OneMore DEF b
  <1>17. Literals' = Literals /\ Added' = Added
    BY <1>2 DEF Literals, Added
  <1>18. TrieTyped'
    BY <1>2, <1>8, <1>17 DEF TrieInv, TrieTyped
  <1>19. Spells(u)'
    <2>1. 1 \in DOMAIN trie' /\ u[1] = <<>>
      BY <1>8, <1>11, <1>12 DEF Spells
    <2>2. ASSUME NEW s \in DOMAIN trie', NEW t \in trie'[s].next
          PROVE  t.to \in DOMAIN trie' /\ t.byte \in Byte /\ u[t.to] = Append(u[s], t.byte)
      <3>1. CASE s = node /\ t = edge
        BY <1>3, <1>5, <1>8, <1>11, <3>1
      <3>2. CASE s \in DOMAIN trie /\ t \in trie[s].next
        BY <1>8, <1>11, <1>12, <3>2 DEF Spells
      <3> QED
        BY <1>3, <1>8, <1>15, <2>2, <3>1, <3>2
    <2>3. \A s, r \in DOMAIN trie' : u[s] = u[r] => s = r
      BY <1>8, <1>11, <1>12, <1>13 DEF Spells
    <2>4. ASSUME NEW r \in DOMAIN trie' \ {1}
          PROVE  \E s \in DOMAIN trie' : \E t \in trie'[s].next : t.to = r
      <3>1. CASE r = new
        <4>1. edge \in trie'[node].next /\ edge.to = r
          BY <1>15, <3>1
        <4> QED
          BY <1>3, <1>8, <4>1
      <3>2. CASE r \in DOMAIN trie
        <4>1. PICK s \in DOMAIN trie : \E t \in trie[s].next : t.to = r
          BY <1>12, <2>4, <3>2 DEF Spells
        <4>2. trie[s].next \subseteq trie'[s].next
          BY <1>15
        <4> QED
          BY <1>8, <4>1, <4>2
      <3> QED
        BY <1>8, <2>4, <3>1, <3>2
    <2> QED
      BY <2>1, <2>2, <2>3, <2>4 DEF Spells
  <1>20. \A i \in Added : u[new] # Literals[i].bytes
    <2> SUFFICES ASSUME NEW i \in Added PROVE u[new] # Literals[i].bytes
      OBVIOUS
    <2>1. Literals[i].bytes \in Seq(Byte)
      BY InputFacts DEF Added, PlaceInv, Places
    <2>2. Len(Literals[i].bytes) \in 0 .. Len(Literals[i].bytes)
      BY <2>1, LenProperties
    <2>3. Spelled(w, i, Len(Literals[i].bytes))
      BY <1>1, <2>2 DEF TrieOf, Covers
    <2>4. SubSeq(Literals[i].bytes, 1, Len(Literals[i].bytes)) = Literals[i].bytes
      BY <2>1, SubSeqFull
    <2> QED
      BY <1>13, <2>3, <2>4 DEF Spelled
  <1>21. Accepts(u)'
    <2>1. Accepts(w)
      BY <1>1 DEF TrieOf
    <2> SUFFICES ASSUME NEW s \in DOMAIN trie'
                 PROVE  \/ trie'[s].accept = NoKind /\ \A i \in Added : Literals[i].bytes # u[s]
                        \/ \E i \in Added :
                             /\ Literals[i].bytes = u[s] /\ trie'[s].accept = Literals[i].kind
                             /\ \A j \in Added : Literals[j].bytes = u[s] => j <= i
      BY <1>17 DEF Accepts
    <2>2. CASE s = new
      BY <1>15, <1>20, <2>2
    <2>3. CASE s \in DOMAIN trie
      <3>1. trie'[s].accept = trie[s].accept /\ u[s] = w[s]
        BY <1>11, <1>14, <2>3
      <3> QED
        BY <2>1, <2>3, <3>1 DEF Accepts
    <2> QED
      BY <1>8, <2>2, <2>3
  <1>22. ASSUME NEW i, NEW n, Spelled(w, i, n) PROVE Spelled(u, i, n)'
    BY <1>8, <1>11, <1>17, <1>22 DEF Spelled
  <1>23. Covers(u)'
    BY <1>1, <1>17, <1>22 DEF TrieOf, Covers
  <1>24. InHand(u)'
    <2>1. \A n \in 0 .. pos : Spelled(w, lit, n)
      BY <1>1, <1>2 DEF TrieOf, InHand
    <2>2. Spelled(u, lit, pos)'
      BY <1>2, <1>8, <1>16, <1>17 DEF Spelled, bytes
    <2>3. ASSUME NEW n \in 0 .. pos + 1 PROVE Spelled(u, lit, n)'
      <3>1. n \in 0 .. pos \/ n = pos + 1
        BY <1>3, <2>3
      <3>2. CASE n \in 0 .. pos
        BY <1>2, <1>22, <2>1, <3>2 DEF Spelled
      <3> QED
        BY <1>2, <2>2, <3>1, <3>2 DEF Spelled
    <2> QED
      BY <1>2, <1>3, <1>5, <1>16, <1>17, <2>3 DEF InHand, bytes, new
  <1>25. Reading(u)'
    BY <1>2 DEF Reading
  <1> QED
    BY <1>11, <1>18, <1>19, <1>21, <1>23, <1>24, <1>25 DEF TrieInv, TrieOf

LEMMA BuildTrie ==
  ASSUME PlaceInv, TrieInv, Build
  PROVE  TrieInv'
  BY FollowByteTrie, AddByteTrie, AcceptLiteralTrie, BuiltTrie DEF Build

\* Once built, the trie stays as it is.
LEMMA TrieStays ==
  ASSUME TrieInv, pc # "build", pc' # "build", UNCHANGED <<input, trie, lit>>,
         node' \in DOMAIN trie, \A w \in Words : TrieOf(w) => Reading(w)'
  PROVE  TrieInv'
  <1>1. PICK w \in Words : TrieOf(w)
    BY DEF TrieInv
  <1>2. Literals' = Literals /\ Added' = Added /\ Words' = Words
    BY DEF Literals, Added, Words
  <1>3. TrieTyped'
    BY <1>2 DEF TrieInv, TrieTyped
  <1>4. TrieOf(w)'
    BY <1>1, <1>2 DEF TrieOf, Spells, Accepts, Covers, Spelled, InHand
  <1> QED
    BY <1>2, <1>3, <1>4 DEF TrieInv

LEMMA LexTrie ==
  ASSUME PlaceInv, TrieInv, Lex \/ PassEmpty \/ Seek
  PROVE  TrieInv'
  <1>1. CASE StartMatch
    <2>1. /\ pc # "build" /\ pc' # "build" /\ UNCHANGED <<input, trie, lit>> /\ node' = 1
          /\ cursor' = cursor /\ pos' = cursor /\ cursor \in Nat
      BY <1>1 DEF StartMatch, lexVars, PlaceInv, Places
    <2>2. ASSUME NEW w \in Words, TrieOf(w) PROVE Reading(w)' /\ 1 \in DOMAIN trie
      <3>1. w[1] = <<>> /\ 1 \in DOMAIN trie
        BY <2>2 DEF TrieOf, Spells
      <3>2. SubSeq(Source, cursor + 1, cursor)' = <<>>
        BY <2>1, SubSeqEmpty DEF Source
      <3> QED
        BY <2>1, <3>1, <3>2 DEF Reading, Source
    <2>3. 1 \in DOMAIN trie
      BY <2>2 DEF TrieInv
    <2> QED
      BY <2>1, <2>2, <2>3, TrieStays
  <1>2. CASE MatchByte
    <2>1. /\ pc = "match" /\ pc' = "match" /\ UNCHANGED <<input, trie, lit, cursor>>
          /\ pos < Size /\ pos' = pos + 1
          /\ \E t \in On(node, Source[pos + 1]) : node' = t.to
      BY <1>2 DEF MatchByte, lexVars
    <2>2. PICK t \in trie[node].next : t.byte = Source[pos + 1] /\ node' = t.to
      BY <2>1 DEF On
    <2>3. /\ node \in DOMAIN trie /\ pos \in cursor .. Size /\ cursor \in Nat
          /\ Source \in Seq(Byte) /\ Size \in Nat
      BY <2>1, InputFacts DEF TrieInv, TrieTyped, PlaceInv, Places, Matching
    <2>4. ASSUME NEW w \in Words, TrieOf(w) PROVE Reading(w)' /\ node' \in DOMAIN trie
      <3>1. w[node] = SubSeq(Source, cursor + 1, pos)
        BY <2>1, <2>4 DEF TrieOf, Reading
      <3>2. \A x \in trie[node].next : x.to \in DOMAIN trie /\ w[x.to] = Append(w[node], x.byte)
        BY <2>3, <2>4 DEF TrieOf, Spells
      <3>3. SubSeq(Source, cursor + 1, pos + 1) = Append(SubSeq(Source, cursor + 1, pos), Source[pos + 1])
        BY <2>1, <2>3, OneMore DEF Size
      <3> QED
        BY <2>1, <2>2, <3>1, <3>2, <3>3 DEF Reading, Source
    <2>5. node' \in DOMAIN trie
      BY <2>4 DEF TrieInv
    <2> QED
      BY <2>1, <2>4, <2>5, TrieStays
  <1>3. CASE NextToken \/ SkipBlank \/ AnswerNone \/ MatchEnds \/ EmitLiteral \/ EmitPattern
               \/ EmitUnknown \/ PassEmpty \/ Seek
    <2>1. pc # "build" /\ UNCHANGED <<input, trie, lit, node>> /\ pc' \in {"idle", "blank", "emit"}
      BY <1>3 DEF NextToken, SkipBlank, AnswerNone, MatchEnds, EmitLiteral, EmitPattern,
                  EmitUnknown, PassEmpty, Seek, ResetTo
    <2>2. \A w : Reading(w)'
      BY <2>1 DEF Reading
    <2> QED
      BY <2>1, <2>2, TrieStays DEF TrieInv, TrieTyped
  <1> QED
    BY <1>1, <1>2, <1>3 DEF Lex

LEMMA StutterTrie ==
  ASSUME TrieInv, UNCHANGED vars
  PROVE  TrieInv'
  <1>1. PICK w \in Words : TrieOf(w)
    BY DEF TrieInv
  <1>2. UNCHANGED <<input, trie, lit, node, pc, pos, cursor>>
    BY DEF vars, lexVars
  <1>3. Literals' = Literals /\ Added' = Added /\ Words' = Words /\ Source' = Source
    BY <1>2 DEF Literals, Added, Words, Source
  <1>4. TrieTyped'
    BY <1>2, <1>3 DEF TrieInv, TrieTyped
  <1>5. TrieOf(w)'
    BY <1>1, <1>2, <1>3 DEF TrieOf, Spells, Accepts, Covers, Spelled, InHand, Reading
  <1> QED
    BY <1>3, <1>4, <1>5 DEF TrieInv

-------------------------------------------------------------------------------
(* The longest match.                                                      *)

Width(i) == Len(Literals[i].bytes)

\* What is accepted is the best of the literals at the cursor shorter than n bytes.
BestBelow(n) ==
  \/ accepted = NoMatch /\ \A i \in Standing(cursor) : Width(i) >= n
  \/ \E i \in Standing(cursor) :
       /\ accepted = [end |-> cursor + Width(i), kind |-> Literals[i].kind]
       /\ \A j \in Standing(cursor) :
            Width(j) < n => Width(j) < Width(i) \/ (Width(j) = Width(i) /\ j <= i)

Tracked ==
  /\ pc = "match" => BestBelow(pos - cursor)
  /\ pc = "emit" => BestBelow(Size + 1)

LEMMA PrefixBytes ==
  ASSUME NEW s \in Seq(Byte), NEW t \in Seq(Byte)
  PROVE  IsPrefix(s, t) <=> Len(s) <= Len(t) /\ \A m \in 1 .. Len(s) : s[m] = t[m]
  <1>1. /\ Len(s) \in Nat /\ Len(t) \in Nat
        /\ \A m \in 1 .. Len(t) : t[m] \in Byte
    BY LenProperties, ElementOfSeq
  <1>2. SubSeq(s, 1, Len(s)) = s
    BY SubSeqFull
  <1>3. CASE Len(s) <= Len(t)
    <2>1. /\ SubSeq(t, 1, Len(s)) \in Seq(Byte)
          /\ Len(SubSeq(t, 1, Len(s))) = Len(s)
          /\ \A m \in 1 .. Len(s) : SubSeq(t, 1, Len(s))[m] = t[m]
      <3>1. \A m \in 1 .. Len(s) : t[m] \in Byte
        BY <1>1, <1>3
      <3>2. /\ SubSeq(t, 1, Len(s)) \in Seq(Byte)
            /\ Len(SubSeq(t, 1, Len(s))) = IF 1 <= Len(s) THEN Len(s) - 1 + 1 ELSE 0
            /\ \A m \in 1 .. Len(s) - 1 + 1 : SubSeq(t, 1, Len(s))[m] = t[1 + m - 1]
        BY <1>1, <3>1, SubSeqProperties
      <3> QED
        BY <1>1, <3>2
    <2> DEFINE p == SubSeq(t, 1, Len(s))
    <2>2. (\A m \in 1 .. Len(s) : s[m] = p[m]) => s = p
      <3> HIDE DEF p
      <3>1. p \in Seq(Byte) /\ Len(p) = Len(s)
        BY <2>1 DEF p
      <3> QED
        BY <3>1, SeqEqual
    <2> QED
      BY <1>2, <1>3, <2>1, <2>2 DEF IsPrefix
  <1>4. CASE ~(Len(s) <= Len(t))
    BY <1>4 DEF IsPrefix
  <1> QED
    BY <1>3, <1>4

\* A literal that stands at byte k is the bytes of the source there.
LEMMA StandingBytes ==
  ASSUME input \in Inputs, NEW k \in 0 .. Size, NEW i \in DOMAIN Literals
  PROVE  /\ Width(i) \in Nat
         /\ i \in Standing(k) =>
              /\ k + Width(i) <= Size
              /\ \A n \in 0 .. Width(i) : SubSeq(Literals[i].bytes, 1, n) = SubSeq(Source, k + 1, k + n)
         /\ \A n \in k .. Size : Literals[i].bytes = SubSeq(Source, k + 1, n) =>
              i \in Standing(k) /\ Width(i) = n - k
  <1> DEFINE s == Literals[i].bytes
             t == SubSeq(Source, k + 1, Size)
  <1>1. /\ Source \in Seq(Byte) /\ Size \in Nat /\ s \in Seq(Byte) /\ k \in Nat
        /\ \A m \in 1 .. Size : Source[m] \in Byte
    BY InputFacts
  <1>2. Len(s) \in Nat /\ \A m \in 1 .. Len(s) : s[m] \in Byte
    BY <1>1, LenProperties, ElementOfSeq
  <1> HIDE DEF s, t
  <1>3. ASSUME NEW n \in k .. Size
        PROVE  /\ SubSeq(Source, k + 1, n) \in Seq(Byte)
               /\ Len(SubSeq(Source, k + 1, n)) = n - k
               /\ \A m \in 1 .. n - k : SubSeq(Source, k + 1, n)[m] = Source[k + m]
    <2>1. \A m \in k + 1 .. n : Source[m] \in Byte
      BY <1>1
    <2>2. /\ SubSeq(Source, k + 1, n) \in Seq(Byte)
          /\ Len(SubSeq(Source, k + 1, n)) = IF k + 1 <= n THEN n - (k + 1) + 1 ELSE 0
          /\ \A m \in 1 .. n - (k + 1) + 1 : SubSeq(Source, k + 1, n)[m] = Source[k + 1 + m - 1]
      BY <1>1, <2>1, SubSeqProperties
    <2> QED
      BY <1>1, <2>2
  <1>4. t \in Seq(Byte) /\ Len(t) = Size - k /\ \A m \in 1 .. Size - k : t[m] = Source[k + m]
    BY <1>1, <1>3 DEF t
  <1>5. i \in Standing(k) <=> Len(s) <= Size - k /\ \A m \in 1 .. Len(s) : s[m] = Source[k + m]
    <2>1. i \in Standing(k) <=> IsPrefix(s, t)
      BY DEF Standing, s, t
    <2> QED
      BY <1>1, <1>2, <1>4, <2>1, PrefixBytes
  <1>6. ASSUME i \in Standing(k), NEW n \in 0 .. Len(s)
        PROVE  SubSeq(s, 1, n) = SubSeq(Source, k + 1, k + n)
    <2> DEFINE p == SubSeq(s, 1, n)
               q == SubSeq(Source, k + 1, k + n)
    <2>1. /\ p \in Seq(Byte) /\ Len(p) = n /\ \A m \in 1 .. n : p[m] = s[m]
      <3>1. \A m \in 1 .. n : s[m] \in Byte
        BY <1>2
      <3>2. /\ p \in Seq(Byte)
            /\ Len(p) = IF 1 <= n THEN n - 1 + 1 ELSE 0
            /\ \A m \in 1 .. n - 1 + 1 : p[m] = s[1 + m - 1]
        BY <1>2, <3>1, SubSeqProperties
      <3> QED
        BY <3>2
    <2>2. q \in Seq(Byte) /\ Len(q) = n /\ \A m \in 1 .. n : q[m] = Source[k + m]
      <3> DEFINE e == k + n
      <3>1. e \in k .. Size /\ e - k = n
        BY <1>1, <1>2, <1>5, <1>6
      <3>2. q = SubSeq(Source, k + 1, e)
        OBVIOUS
      <3> HIDE DEF e, q
      <3> QED
        BY <1>3, <3>1, <3>2
    <2>3. \A m \in 1 .. n : p[m] = q[m]
      BY <1>2, <1>5, <1>6, <2>1, <2>2
    <2> HIDE DEF p, q
    <2>4. p = q
      BY <2>1, <2>2, <2>3, SeqEqual
    <2> QED
      BY <2>4 DEF p, q
  <1>7. ASSUME NEW n \in k .. Size, s = SubSeq(Source, k + 1, n)
        PROVE  i \in Standing(k) /\ Len(s) = n - k
    BY <1>1, <1>3, <1>5, <1>7
  <1>8. i \in Standing(k) => k + Len(s) <= Size
    BY <1>1, <1>2, <1>5
  <1> QED
    BY <1>2, <1>6, <1>7, <1>8, Zenon DEF s, Width

LEMMA NoteAcceptBest ==
  ASSUME PlaceInv, TrieInv, pc = "match", BestBelow(pos - cursor), NoteAccept,
         UNCHANGED <<input, cursor>>, NEW n, n = pos - cursor + 1
  PROVE  BestBelow(n)'
  <1>1. PICK w \in Words : TrieOf(w)
    BY DEF TrieInv
  <1>2. /\ input \in Inputs /\ cursor \in Nat /\ cursor < Size /\ pos \in cursor .. Size
        /\ Size \in Nat /\ node \in DOMAIN trie
    BY InputFacts DEF PlaceInv, Places, Matching, TrieInv, TrieTyped
  <1>3. Added = DOMAIN Literals /\ Accepts(w) /\ w[node] = SubSeq(Source, cursor + 1, pos)
    BY <1>1 DEF TrieInv, TrieTyped, TrieOf, Reading
  <1>4. Literals' = Literals /\ (\A i : Width(i)' = Width(i)) /\ Standing(cursor)' = Standing(cursor)
    BY DEF Literals, Width, Standing, Source, Size
  <1>5. Standing(cursor) \subseteq DOMAIN Literals /\ \A i \in DOMAIN Literals : Width(i) \in Nat
    BY <1>2, InputFacts, LenProperties DEF Standing, Width
  <1>6. ASSUME NEW i \in Standing(cursor)
        PROVE  Width(i) = pos - cursor <=> Literals[i].bytes = w[node]
    <2>1. i \in DOMAIN Literals /\ cursor \in 0 .. Size
      BY <1>2, <1>5
    <2>2. Literals[i].bytes = SubSeq(Source, cursor + 1, pos) => Width(i) = pos - cursor
      BY <1>2, <2>1, StandingBytes
    <2>3. ASSUME Width(i) = pos - cursor
          PROVE  Literals[i].bytes = SubSeq(Source, cursor + 1, pos)
      <3>1. SubSeq(Literals[i].bytes, 1, Width(i)) = SubSeq(Source, cursor + 1, cursor + Width(i))
        BY <1>2, <1>5, <2>1, StandingBytes
      <3>2. SubSeq(Literals[i].bytes, 1, Width(i)) = Literals[i].bytes
        BY <1>2, <2>1, InputFacts, SubSeqFull DEF Width
      <3>3. cursor + Width(i) = pos
        BY <1>2, <2>3
      <3> QED
        BY <3>1, <3>2, <3>3
    <2> QED
      BY <1>3, <2>2, <2>3
  <1>7. \A i \in DOMAIN Literals : Literals[i].bytes = w[node] => i \in Standing(cursor)
    <2>1. cursor \in 0 .. Size
      BY <1>2
    <2> QED
      BY <1>2, <1>3, <2>1, StandingBytes
  <1>8. CASE trie[node].accept = NoKind
    <2>1. accepted' = accepted
      BY <1>8 DEF NoteAccept
    <2>2. \A i \in DOMAIN Literals : Literals[i].bytes # w[node]
      <3>1. \A i \in DOMAIN Literals : Literals[i].kind # NoKind
        BY <1>2, InputFacts DEF NoKind
      <3> QED
        BY <1>2, <1>3, <1>8, <3>1 DEF Accepts
    <2>3. \A i \in Standing(cursor) : Width(i) # pos - cursor
      BY <1>5, <1>6, <2>2
    <2> QED
      BY <1>2, <1>4, <1>5, <2>1, <2>3 DEF BestBelow
  <1>9. CASE trie[node].accept # NoKind
    <2>1. accepted' = [end |-> pos, kind |-> trie[node].accept]
      BY <1>9 DEF NoteAccept
    <2>2. PICK i \in DOMAIN Literals :
            /\ Literals[i].bytes = w[node] /\ trie[node].accept = Literals[i].kind
            /\ \A j \in DOMAIN Literals : Literals[j].bytes = w[node] => j <= i
      BY <1>2, <1>3, <1>9 DEF Accepts
    <2>3. i \in Standing(cursor) /\ Width(i) = pos - cursor
      BY <1>6, <1>7, <2>2
    <2>4. ASSUME NEW j \in Standing(cursor), Width(j) < n
          PROVE  Width(j) < Width(i) \/ (Width(j) = Width(i) /\ j <= i)
      <3>1. Width(j) = pos - cursor => j <= i
        BY <1>5, <1>6, <2>2
      <3> QED
        BY <1>2, <1>5, <2>3, <2>4, <3>1
    <2>5. pos = cursor + Width(i)
      BY <1>2, <2>3
    <2> QED
      BY <1>4, <2>1, <2>2, <2>3, <2>4, <2>5 DEF BestBelow
  <1> QED
    BY <1>8, <1>9

\* Where the trie goes no further, no longer literal stands.
LEMMA Overrun ==
  ASSUME PlaceInv, TrieInv, pc = "match", pos < Size => On(node, Source[pos + 1]) = {},
         NEW j \in Standing(cursor)
  PROVE  Width(j) <= pos - cursor
  <1>1. PICK w \in Words : TrieOf(w)
    BY DEF TrieInv
  <1>2. /\ input \in Inputs /\ cursor \in 0 .. Size /\ pos \in cursor .. Size
        /\ Size \in Nat /\ node \in DOMAIN trie /\ Source \in Seq(Byte)
    BY InputFacts DEF PlaceInv, Places, Matching, TrieInv, TrieTyped
  <1>3. j \in DOMAIN Literals /\ Added = DOMAIN Literals
    BY DEF Standing, TrieInv, TrieTyped
  <1>4. Width(j) \in Nat /\ cursor + Width(j) <= Size
    BY <1>2, <1>3, StandingBytes
  <1> SUFFICES ASSUME ~(Width(j) <= pos - cursor) PROVE FALSE
    OBVIOUS
  <1> DEFINE n == pos - cursor + 1
  <1>5. pos < Size /\ n \in 0 .. Width(j) /\ cursor + n = pos + 1
    BY <1>2, <1>4
  <1>6. SubSeq(Literals[j].bytes, 1, n) = SubSeq(Source, cursor + 1, cursor + n)
    <2> HIDE DEF n
    <2> QED
      BY <1>2, <1>3, <1>5, StandingBytes
  <1>7. PICK s \in DOMAIN trie : w[s] = SubSeq(Source, cursor + 1, pos + 1)
    <2>1. Spelled(w, j, n)
      <3> HIDE DEF n
      <3> QED
        BY <1>1, <1>3, <1>5 DEF TrieOf, Covers, Width
    <2> QED
      BY <1>5, <1>6, <2>1 DEF Spelled
  <1>8. w[s] = Append(w[node], Source[pos + 1])
    <2>1. SubSeq(Source, cursor + 1, pos + 1) = Append(SubSeq(Source, cursor + 1, pos), Source[pos + 1])
      BY <1>2, <1>5, OneMore DEF Size
    <2> QED
      BY <1>1, <1>7, <2>1 DEF TrieOf, Reading
  <1>9. Source[pos + 1] \in Byte
    BY <1>2, <1>5, InputFacts
  <1> QED
    BY <1>1, <1>2, <1>5, <1>8, <1>9, NewWord DEF TrieOf

\* Where a pattern matches, one of the matches is the best.
LEMMA BestExists ==
  ASSUME input \in Inputs, start.byte \in Nat, BestPatterns = {}
  PROVE  \A i \in DOMAIN input.patterns : PatternEnds(i, start.byte) = {}
  <1> DEFINE E(i) == PatternEnds(i, start.byte)
             T == {x \in 0 .. Size : \E i \in DOMAIN input.patterns : Size - x \in E(i)}
  <1> SUFFICES ASSUME NEW i \in DOMAIN input.patterns, NEW e \in E(i) PROVE FALSE
    OBVIOUS
  <1>1. Size \in Nat /\ DOMAIN input.patterns \subseteq Nat
    BY InputFacts
  <1>2. \A j \in DOMAIN input.patterns : E(j) \subseteq 0 .. Size
    <2> SUFFICES ASSUME NEW j \in DOMAIN input.patterns, NEW f \in E(j) PROVE f \in 0 .. Size
      OBVIOUS
    <2>1. f \in start.byte .. Size
      BY PatternEndsIn
    <2> QED
      BY <1>1, <2>1
  <1> HIDE DEF E
  <1>3. Size - e \in T
    <2>1. e \in 0 .. Size
      BY <1>2
    <2>2. Size - (Size - e) = e /\ Size - e \in 0 .. Size
      BY <1>1, <2>1
    <2> QED
      BY <2>2
  <1>4. PICK x \in T : \A y \in T : x <= y
    <2>1. T \subseteq Nat
      BY <1>1
    <2> HIDE DEF T
    <2> QED
      BY <1>3, <2>1, LeastNumber
  <1> DEFINE best == Size - x
             R == {j \in DOMAIN input.patterns : best \in E(j)}
  <1>5. PICK r \in R : \A j \in R : r <= j
    <2>1. R \subseteq Nat /\ R # {}
      BY <1>1, <1>4
    <2> HIDE DEF R
    <2> QED
      BY <2>1, LeastNumber
  <1>6. ASSUME NEW j \in DOMAIN input.patterns, NEW f \in E(j)
        PROVE  f < best \/ (f = best /\ r <= j)
    <2>1. f \in 0 .. Size
      BY <1>2
    <2>2. Size - f \in T
      <3>1. Size - (Size - f) = f /\ Size - f \in 0 .. Size
        BY <1>1, <2>1
      <3> QED
        BY <3>1
    <2>3. x <= Size - f
      BY <1>4, <2>2
    <2>4. f <= best
      BY <1>1, <2>1, <2>3
    <2>5. f = best => r <= j
      BY <1>5
    <2> QED
      BY <1>1, <2>1, <2>4, <2>5
  <1>7. [end |-> best, rank |-> r] \in BestPatterns
    <2>1. r \in DOMAIN input.patterns /\ best \in PatternEnds(r, start.byte)
      BY <1>5 DEF E
    <2> QED
      BY <1>6, <2>1 DEF BestPatterns, E
  <1> QED
    BY <1>7

-------------------------------------------------------------------------------
(* The invariant of the longest match.                                     *)

LongestInv == Tracked /\ LongestMatch

LEMMA InitLongest == Init => LongestInv
  BY DEF Init, LongestInv, Tracked, LongestMatch

\* A step that leads neither to a match nor to a token.
LEMMA LongestIdle ==
  ASSUME pc' \notin {"match", "emit"}, pc' = "idle" => token' = NoAnswer \/ token'.kind = Ended
  PROVE  LongestInv'
  BY DEF LongestInv, Tracked, LongestMatch, Answered

LEMMA StartMatchLongest ==
  ASSUME PlaceInv, StartMatch
  PROVE  LongestInv'
  <1>1. /\ input' = input /\ cursor' = cursor /\ pos' = cursor /\ pc' = "match" /\ accepted' = NoMatch
        /\ cursor \in Nat /\ cursor < Size /\ input \in Inputs
    BY DEF StartMatch, lexVars, PlaceInv, Places
  <1>2. \A i \in Standing(cursor) : Width(i) \in Nat
    BY <1>1, InputFacts, LenProperties DEF Standing, Width
  <1>3. Standing(cursor)' = Standing(cursor) /\ (\A i : Width(i)' = Width(i))
    BY <1>1 DEF Literals, Width, Standing, Source, Size
  <1>4. BestBelow(0)'
    BY <1>1, <1>2, <1>3 DEF BestBelow
  <1>5. pos' - cursor' = 0
    BY <1>1
  <1> QED
    BY <1>1, <1>4, <1>5 DEF LongestInv, Tracked, LongestMatch, BestBelow

LEMMA MatchByteLongest ==
  ASSUME PlaceInv, TrieInv, LongestInv, MatchByte
  PROVE  LongestInv'
  <1>1. /\ UNCHANGED <<input, cursor>> /\ pos' = pos + 1 /\ pc = "match" /\ pc' = "match" /\ NoteAccept
        /\ cursor \in Nat /\ pos \in Nat
    BY InputFacts DEF MatchByte, lexVars, PlaceInv, Places, Matching
  <1>2. ASSUME NEW n, n = pos - cursor + 1 PROVE BestBelow(n)'
    BY <1>1, <1>2, NoteAcceptBest DEF LongestInv, Tracked
  <1>3. pos' - cursor' = pos - cursor + 1
    BY <1>1
  <1> QED
    BY <1>1, <1>2, <1>3 DEF LongestInv, Tracked, LongestMatch, BestBelow

LEMMA MatchEndsLongest ==
  ASSUME PlaceInv, TrieInv, LongestInv, MatchEnds
  PROVE  LongestInv'
  <1>1. /\ UNCHANGED <<input, cursor>> /\ pc = "match" /\ pc' = "emit" /\ NoteAccept
        /\ cursor \in Nat /\ pos \in Nat /\ Size \in Nat /\ input \in Inputs
        /\ cursor <= pos
        /\ pos < Size => On(node, Source[pos + 1]) = {}
    BY InputFacts DEF MatchEnds, lexVars, PlaceInv, Places, Matching
  <1>2. ASSUME NEW n, n = pos - cursor + 1 PROVE BestBelow(n)'
    BY <1>1, <1>2, NoteAcceptBest DEF LongestInv, Tracked
  <1>3. Size' = Size /\ Standing(cursor)' = Standing(cursor) /\ (\A i : Width(i)' = Width(i))
        /\ Literals' = Literals
    BY <1>1 DEF Literals, Width, Standing, Source, Size
  <1>4. \A j \in Standing(cursor) : Width(j) \in Nat /\ Width(j) <= pos - cursor
    BY <1>1, Overrun, InputFacts, LenProperties DEF Standing, Width
  <1>5. BestBelow(Size + 1)'
    BY <1>1, <1>2, <1>3, <1>4 DEF BestBelow
  <1> QED
    BY <1>1, <1>5 DEF LongestInv, Tracked, LongestMatch

LEMMA EmitLongest ==
  ASSUME PlaceInv, TrieInv, LongestInv, EmitLiteral \/ EmitPattern \/ EmitUnknown
  PROVE  LongestInv'
  <1>1. /\ UNCHANGED <<input, off>> /\ pc = "emit" /\ pc' = "idle" /\ start.byte = cursor
        /\ token'.start = cursor /\ cursor \in 0 .. Size /\ Size \in Nat /\ input \in Inputs
    BY InputFacts
    DEF EmitLiteral, EmitPattern, EmitUnknown, callVars, Token, PlaceInv, Places, Matching
  <1>2. /\ Literals' = Literals /\ (\A k : Standing(k)' = Standing(k))
        /\ (\A k : Longest(k)' = Longest(k))
        /\ (\A i, k : PatternEnds(i, k)' = PatternEnds(i, k))
    BY <1>1 DEF Literals, Standing, Longest, PatternEnds, Source, Size
  <1>3. \A i \in Standing(cursor) : /\ i \in DOMAIN Literals /\ i \in Nat
                                    /\ Width(i) \in Nat /\ Width(i) <= Size
    <2> SUFFICES ASSUME NEW i \in Standing(cursor)
                 PROVE  i \in DOMAIN Literals /\ i \in Nat /\ Width(i) \in Nat /\ Width(i) <= Size
      OBVIOUS
    <2>1. i \in DOMAIN Literals /\ i \in Nat
      BY <1>1, InputFacts DEF Standing
    <2> QED
      BY <1>1, <2>1, StandingBytes
  <1>4. BestBelow(Size + 1)
    BY <1>1 DEF LongestInv, Tracked
  <1> DEFINE Runs == UNION {PatternEnds(i, cursor) : i \in DOMAIN input.patterns}
  <1>5. SUFFICES
          \/ \E i \in Longest(cursor) :
               /\ token'.end = cursor + Width(i)
               /\ token'.kind = IF Literals[i].kind \in off THEN UNKNOWN ELSE Literals[i].kind
          \/ \E i \in DOMAIN input.patterns :
               /\ token'.kind = input.patterns[i].kind
               /\ token'.end \in PatternEnds(i, cursor) /\ \A e \in Runs : e <= token'.end
               /\ \A j \in 1 .. i - 1 : token'.end \notin PatternEnds(j, cursor)
          \/ /\ Standing(cursor) = {} /\ Runs = {}
             /\ token'.kind = UNKNOWN /\ token'.end = cursor + 1
    BY <1>1, <1>2 DEF LongestInv, Tracked, LongestMatch, Width
  <1>6. CASE EmitLiteral
    <2>1. PICK i \in Standing(cursor) :
            /\ accepted = [end |-> cursor + Width(i), kind |-> Literals[i].kind]
            /\ \A j \in Standing(cursor) :
                 Width(j) < Width(i) \/ (Width(j) = Width(i) /\ j <= i)
      BY <1>1, <1>3, <1>4, <1>6 DEF EmitLiteral, BestBelow
    <2>2. i \in Longest(cursor)
      BY <2>1 DEF Longest, Width
    <2>3. /\ token'.end = accepted.end
          /\ token'.kind = IF accepted.kind \in off THEN UNKNOWN ELSE accepted.kind
      BY <1>6 DEF EmitLiteral, Token
    <2> QED
      BY <2>1, <2>2, <2>3
  <1>7. ASSUME accepted = NoMatch PROVE Standing(cursor) = {}
    <2>1. \A i \in DOMAIN Literals : Literals[i].kind # NoKind
      BY <1>1, InputFacts DEF NoKind
    <2>2. \A i \in Standing(cursor) :
            accepted # [end |-> cursor + Width(i), kind |-> Literals[i].kind]
      BY <1>3, <1>7, <2>1 DEF NoMatch
    <2> QED
      BY <1>1, <1>3, <1>4, <2>2 DEF BestBelow
  <1>8. CASE EmitPattern
    <2>1. PICK m \in BestPatterns : token'.kind = input.patterns[m.rank].kind /\ token'.end = m.end
      BY <1>8 DEF EmitPattern, Token
    <2>2. m.rank \in DOMAIN input.patterns /\ m.end \in PatternEnds(m.rank, cursor)
      BY <1>1, <2>1, BestPatternEnds
    <2>3. \A i \in DOMAIN input.patterns : \A e \in PatternEnds(i, cursor) :
            e < m.end \/ (e = m.end /\ m.rank <= i)
      BY <1>1, <2>1 DEF BestPatterns
    <2>4. DOMAIN input.patterns = 1 .. Len(input.patterns) /\ Len(input.patterns) \in Nat
      BY <1>1, InputFacts
    <2>5. \A i \in DOMAIN input.patterns : PatternEnds(i, cursor) \subseteq Nat
      BY <1>1, PatternEndsIn
    <2>6. m.end \in Nat
      BY <2>2, <2>5
    <2>7. \A j \in 1 .. m.rank - 1 : m.end \notin PatternEnds(j, cursor)
      BY <2>2, <2>3, <2>4, <2>6
    <2>8. \A e \in Runs : e <= m.end
      BY <2>3, <2>5, <2>6
    <2> HIDE DEF Runs
    <2> QED
      BY <2>1, <2>2, <2>7, <2>8
  <1>9. CASE EmitUnknown
    <2>1. Standing(cursor) = {}
      BY <1>7, <1>9 DEF EmitUnknown
    <2>2. \A i \in DOMAIN input.patterns : PatternEnds(i, cursor) = {}
      BY <1>1, <1>9, BestExists DEF EmitUnknown
    <2>3. Runs = {}
      BY <2>2
    <2>4. token'.kind = UNKNOWN /\ token'.end = cursor + 1
      BY <1>9 DEF EmitUnknown, Token
    <2> QED
      BY <2>1, <2>3, <2>4
  <1> QED
    BY <1>6, <1>8, <1>9

LEMMA NextLongest ==
  ASSUME PlaceInv, TrieInv, LongestInv, Next
  PROVE  LongestInv'
  <1>1. CASE Build
    <2>1. pc' \in {"build", "idle"} /\ token' = NoAnswer
      BY <1>1 DEF Build, FollowByte, AddByte, AcceptLiteral, Built, Building, PlaceInv, Places
    <2> QED
      BY <2>1, LongestIdle
  <1>2. CASE NextToken \/ SkipBlank
    <2>1. pc' = "blank"
      BY <1>2 DEF NextToken, SkipBlank
    <2> QED
      BY <2>1, LongestIdle
  <1>3. CASE AnswerNone
    <2>1. pc' = "idle" /\ token'.kind = Ended
      BY <1>3 DEF AnswerNone, NoAnswer
    <2> QED
      BY <2>1, LongestIdle
  <1>4. CASE PassEmpty \/ Seek
    <2>1. pc' = "idle" /\ token' = NoAnswer
      BY <1>4 DEF PassEmpty, Seek, ResetTo
    <2> QED
      BY <2>1, LongestIdle
  <1> QED
    BY <1>1, <1>2, <1>3, <1>4, StartMatchLongest, MatchByteLongest, MatchEndsLongest, EmitLongest
    DEF Next, Lex

LEMMA StutterLongest ==
  ASSUME LongestInv, UNCHANGED vars
  PROVE  LongestInv'
  <1>1. UNCHANGED <<input, pc, pos, cursor, accepted, token, off>>
    BY DEF vars, lexVars, callVars
  <1>2. /\ Literals' = Literals /\ Source' = Source /\ Size' = Size
        /\ (\A k : Standing(k)' = Standing(k)) /\ (\A i : Width(i)' = Width(i))
        /\ (\A k : Longest(k)' = Longest(k))
        /\ (\A i, k : PatternEnds(i, k)' = PatternEnds(i, k))
    BY <1>1 DEF Literals, Standing, Width, Longest, PatternEnds, Source, Size
  <1>3. Tracked'
    BY <1>1, <1>2 DEF LongestInv, Tracked, BestBelow
  <1>4. LongestMatch'
    BY <1>1, <1>2 DEF LongestInv, LongestMatch, Answered
  <1> QED
    BY <1>3, <1>4 DEF LongestInv

(***************************************************************************)
(* The trie spells the literals added so far and accepts the last of equal *)
(* ones, in every reachable state.                                         *)
(***************************************************************************)
THEOREM TrieInductive == Spec => []TrieInv
  <1>1. PlaceInv /\ TrieInv /\ [Next]_vars => TrieInv'
    BY BuildTrie, LexTrie, StutterTrie DEF Next
  <1> QED
    BY <1>1, InitTrie, PlacesInductive, PTL DEF Spec

(***************************************************************************)
(* The answer is the longest literal at its place, the last declared of    *)
(* equal ones, or the longest match of a pattern, the first of equal ones, *)
(* or one unknown byte where nothing matches: for all literals, whatever   *)
(* prefixes they share, all patterns, sources and resets.                  *)
(***************************************************************************)
THEOREM LongestAnswered == Spec => []LongestMatch
  <1>1. PlaceInv /\ TrieInv /\ LongestInv /\ [Next]_vars => LongestInv'
    BY NextLongest, StutterLongest
  <1>2. LongestInv => LongestMatch
    BY DEF LongestInv
  <1> QED
    BY <1>1, <1>2, InitLongest, PlacesInductive, TrieInductive, PTL DEF Spec

-------------------------------------------------------------------------------
(* The column of column_offset.                                            *)

\* What column_offset adds at byte k, f being the columns behind it.
ColumnStep(f, k, limit) ==
  IF k >= limit \/ Source[k + 1] = LF THEN 0
  ELSE IF k + CharLength(Source[k + 1]) > Size THEN 1
  ELSE CharWidth(k) + f[k + CharLength(Source[k + 1])]

Counts(f, first, limit) == f = [k \in first .. Size + 4 |-> ColumnStep(f, k, limit)]

LEMMA ColumnIsCounted ==
  ASSUME NEW first, NEW limit
  PROVE  Column(first, limit) = (CHOOSE f : Counts(f, first, limit))[first]
  BY DEF Column, Counts, ColumnStep

\* The function looks only ahead.
LEMMA StepAhead ==
  ASSUME Size \in Nat, NEW k \in Nat, NEW limit \in 0 .. Size, NEW f, NEW g,
         \A i \in k + 1 .. Size + 4 : f[i] = g[i]
  PROVE  ColumnStep(f, k, limit) = ColumnStep(g, k, limit)
  <1>1. CharLength(Source[k + 1]) \in 1 .. 4
    BY DEF CharLength
  <1>2. k + CharLength(Source[k + 1]) <= Size => k + CharLength(Source[k + 1]) \in k + 1 .. Size + 4
    BY <1>1
  <1> QED
    BY <1>1, <1>2 DEF ColumnStep

\* There is one, built from the end of the source.
LEMMA CountExists ==
  ASSUME Size \in Nat, NEW limit \in 0 .. Size, NEW first \in 0 .. Size + 5
  PROVE  \E f : Counts(f, first, limit)
  <1> DEFINE At(n) == Size + 5 - n
             T == {n \in 0 .. Size + 5 : \A f : ~ Counts(f, At(n), limit)}
  <1>1. CASE T = {}
    <2>1. Size + 5 - first \in 0 .. Size + 5 /\ At(Size + 5 - first) = first
      OBVIOUS
    <2> QED
      BY <1>1, <2>1
  <1>2. CASE T # {}
    <2>1. PICK n \in T : \A m \in T : n <= m
      <3>1. T \subseteq Nat
        OBVIOUS
      <3> HIDE DEF T
      <3> QED
        BY <1>2, <3>1, LeastNumber
    <2>2. n \in Nat /\ n <= Size + 5 /\ \A f : ~ Counts(f, At(n), limit)
      BY <2>1
    <2>3. n # 0
      <3> DEFINE f == [k \in {} |-> 0]
      <3>1. Size + 5 .. Size + 4 = {}
        OBVIOUS
      <3>2. Counts(f, Size + 5, limit)
        BY <3>1 DEF Counts
      <3> QED
        BY <2>2, <3>2
    <2> DEFINE k0 == At(n)
    <2>4. PICK f : Counts(f, k0 + 1, limit)
      <3>1. n - 1 \in 0 .. Size + 5 /\ ~ (n <= n - 1)
        BY <2>2, <2>3
      <3>2. n - 1 \notin T
        BY <2>1, <3>1
      <3>3. At(n - 1) = k0 + 1
        BY <2>2
      <3> QED
        BY <3>1, <3>2, <3>3
    <2>5. k0 \in 0 .. Size + 4
      BY <2>2, <2>3
    <2> HIDE DEF At, T
    <2> DEFINE g == [k \in k0 .. Size + 4 |-> IF k = k0 THEN ColumnStep(f, k0, limit) ELSE f[k]]
    <2>6. ASSUME NEW k \in k0 + 1 .. Size + 4 PROVE g[k] = f[k] /\ f[k] = ColumnStep(f, k, limit)
      <3>1. g[k] = f[k]
        BY <2>5
      <3> HIDE DEF g, k0
      <3> QED
        BY <2>4, <3>1 DEF Counts
    <2>7. ASSUME NEW k \in k0 .. Size + 4 PROVE g[k] = ColumnStep(g, k, limit)
      <3>1. k \in Nat /\ \A i \in k + 1 .. Size + 4 : f[i] = g[i]
        BY <2>5, <2>6
      <3>2. ColumnStep(f, k, limit) = ColumnStep(g, k, limit)
        <4> HIDE DEF g
        <4> QED
          BY <3>1, StepAhead
      <3>3. ASSUME k = k0 PROVE g[k] = ColumnStep(g, k, limit)
        <4>1. g[k] = ColumnStep(f, k0, limit)
          BY <2>5, <3>3
        <4> HIDE DEF g
        <4> QED
          BY <3>2, <3>3, <4>1
      <3>4. CASE k # k0
        <4>1. k \in k0 + 1 .. Size + 4
          BY <2>5, <3>4
        <4> HIDE DEF g, k0
        <4> QED
          BY <2>6, <3>2, <4>1
      <3> HIDE DEF g
      <3> QED
        BY <3>2, <3>3, <3>4
    <2>8. Counts(g, k0, limit)
      <3>1. g = [k \in k0 .. Size + 4 |-> g[k]]
        OBVIOUS
      <3> HIDE DEF g
      <3> QED
        BY <2>7, <3>1 DEF Counts
    <2> QED
      BY <2>2, <2>8
  <1> QED
    BY <1>1, <1>2

LEMMA BomByte ==
  ASSUME NEW u \in Seq(Byte), IsPrefix(Bom, u)
  PROVE  u[1] = 239
  <1>1. Bom \in Seq(Byte) /\ Len(Bom) = 3 /\ Bom[1] = 239
    BY DEF Byte, Bom
  <1>2. PICK s \in Seq(Byte) : s = Bom
    BY <1>1
  <1>3. \A m \in 1 .. Len(s) : s[m] = u[m]
    BY <1>2, PrefixBytes
  <1>4. Len(s) = 3 /\ s[1] = 239
    BY <1>1, <1>2
  <1>5. s[1] = u[1]
    BY <1>3, <1>4
  <1> QED
    BY <1>4, <1>5

LEMMA AsciiWidth ==
  ASSUME Size \in Nat, Source \in Seq(Byte), NEW k \in Nat, k + 1 <= Size, Source[k + 1] < 128
  PROVE  CharWidth(k) = 1
  <1> DEFINE t == SubSeq(Source, k + 1, Size)
  <1>1. \A m \in k + 1 .. Size : Source[m] \in Byte
    BY SeqFacts DEF Size
  <1>2. t \in Seq(Byte) /\ t[1] = Source[k + 1]
    <2>1. /\ t \in Seq(Byte)
          /\ \A m \in 1 .. Size - (k + 1) + 1 : t[m] = Source[k + 1 + m - 1]
      BY <1>1, SubSeqProperties
    <2> QED
      BY <2>1
  <1> HIDE DEF t
  <1>3. ~ (239 < 128)
    OBVIOUS
  <1>4. ~ IsPrefix(Bom, t)
    BY <1>2, <1>3, BomByte
  <1> QED
    BY <1>4 DEF CharWidth, t

\* The columns up to the limit, where there is no byte of a longer character, are the bytes.
LEMMA ColumnValue ==
  ASSUME input \in Inputs, NEW limit \in 0 .. Size, NEW first \in 0 .. limit
  PROVE  /\ Column(first, limit) \in Nat
         /\ (\A i \in first + 1 .. limit : Source[i] < 128 /\ Source[i] # LF /\ Source[i] \in Nat) =>
              Column(first, limit) = limit - first
  <1> DEFINE c == CHOOSE f : Counts(f, first, limit)
  <1>0. Size \in Nat /\ Source \in Seq(Byte)
    BY InputFacts
  <1> USE <1>0
  <1>1. Counts(c, first, limit)
    BY CountExists
  <1>2. \A k \in first .. Size + 4 : c[k] = ColumnStep(c, k, limit)
    <2> HIDE DEF c
    <2> QED
      BY <1>1 DEF Counts
  <1>3. Column(first, limit) = c[first]
    BY ColumnIsCounted
  <1> HIDE DEF c
  <1>4. \A k \in first .. Size + 4 : c[k] \in Nat
    <2> DEFINE T == {n \in 0 .. Size + 4 : Size + 4 - n >= first /\ c[Size + 4 - n] \notin Nat}
    <2>1. T = {}
      <3> SUFFICES ASSUME T # {} PROVE FALSE
        OBVIOUS
      <3>1. PICK n \in T : \A m \in T : n <= m
        <4>1. T \subseteq Nat
          OBVIOUS
        <4> HIDE DEF T
        <4> QED
          BY <4>1, LeastNumber
      <3> DEFINE k == Size + 4 - n
                 l == CharLength(Source[k + 1])
      <3>2. k \in first .. Size + 4 /\ c[k] \notin Nat
        BY <3>1
      <3>3. l \in 1 .. 4
        BY DEF CharLength
      <3> HIDE DEF l
      <3>4. k + l <= Size => c[k + l] \in Nat
        <4> SUFFICES ASSUME k + l <= Size PROVE c[k + l] \in Nat
          OBVIOUS
        <4>1. n - l \in 0 .. Size + 4 /\ Size + 4 - (n - l) = k + l /\ k + l >= first /\ ~ (n <= n - l)
          BY <3>1, <3>2, <3>3
        <4>2. n - l \notin T
          BY <3>1, <4>1
        <4> QED
          BY <4>1, <4>2
      <3>5. CharWidth(k) \in Nat
        BY DEF CharWidth
      <3>6. c[k] = ColumnStep(c, k, limit)
        BY <1>2, <3>2
      <3> QED
        BY <3>2, <3>3, <3>4, <3>5, <3>6 DEF ColumnStep, l
    <2> SUFFICES ASSUME NEW k \in first .. Size + 4, c[k] \notin Nat PROVE FALSE
      OBVIOUS
    <2> DEFINE n == Size + 4 - k
    <2>2. n \in 0 .. Size + 4 /\ Size + 4 - n = k
      OBVIOUS
    <2> HIDE DEF n
    <2>3. n \in T
      BY <2>2
    <2> QED
      BY <2>1, <2>3
  <1>5. ASSUME \A i \in first + 1 .. limit : Source[i] < 128 /\ Source[i] # LF /\ Source[i] \in Nat
        PROVE  c[first] = limit - first
    <2> DEFINE T == {n \in 0 .. limit - first : c[limit - n] # n}
    <2>1. T = {}
      <3> SUFFICES ASSUME T # {} PROVE FALSE
        OBVIOUS
      <3>1. PICK n \in T : \A m \in T : n <= m
        <4>1. T \subseteq Nat
          OBVIOUS
        <4> HIDE DEF T
        <4> QED
          BY <4>1, LeastNumber
      <3> DEFINE k == limit - n
      <3>2. k \in first .. limit /\ k \in first .. Size + 4 /\ c[k] # n /\ n \in Nat
        BY <3>1
      <3>3. c[k] = ColumnStep(c, k, limit)
        BY <1>2, <3>2
      <3>4. n # 0
        BY <3>2, <3>3 DEF ColumnStep
      <3>5. k + 1 \in first + 1 .. limit /\ n - 1 \in 0 .. limit - first /\ limit - (n - 1) = k + 1
        BY <3>1, <3>2, <3>4
      <3>6. c[k + 1] = n - 1
        <4>1. n - 1 \notin T
          BY <3>1, <3>2, <3>5
        <4> QED
          BY <3>5, <4>1
      <3>7. Source[k + 1] < 128 /\ Source[k + 1] # LF /\ Source[k + 1] \in Nat
        BY <1>5, <3>5
      <3>8. CharLength(Source[k + 1]) = 1
        <4>1. \A b \in Nat : b < 128 => CharLength(b) = 1
          BY DEF CharLength
        <4> QED
          BY <3>7, <4>1
      <3>9. CharWidth(k) = 1
        BY <3>5, <3>7, AsciiWidth
      <3> QED
        BY <3>2, <3>3, <3>4, <3>5, <3>6, <3>7, <3>8, <3>9 DEF ColumnStep
    <2>2. limit - first \in 0 .. limit - first /\ limit - (limit - first) = first
      OBVIOUS
    <2> QED
      BY <2>1, <2>2
  <1>6. first \in first .. Size + 4
    OBVIOUS
  <1> QED
    BY <1>3, <1>4, <1>5, <1>6

-------------------------------------------------------------------------------
(* Rows.                                                                   *)

LEMMA FeedsFinite ==
  ASSUME NEW i \in Nat, NEW j \in Nat
  PROVE  IsFiniteSet(Feeds(i, j)) /\ Cardinality(Feeds(i, j)) \in Nat
  <1>1. IsFiniteSet(i .. j)
    BY FS_Interval
  <1>2. IsFiniteSet(Feeds(i, j))
    BY <1>1, FS_Subset DEF Feeds
  <1> QED
    BY <1>2, FS_CardinalityType

LEMMA FeedsSplit ==
  ASSUME NEW j \in Nat, NEW n \in Nat
  PROVE  /\ Feeds(1, j + n) = Feeds(1, j) \cup Feeds(j + 1, j + n)
         /\ Cardinality(Feeds(1, j + n)) = Cardinality(Feeds(1, j)) + Cardinality(Feeds(j + 1, j + n))
  <1>1. /\ Feeds(1, j + n) = Feeds(1, j) \cup Feeds(j + 1, j + n)
        /\ Feeds(1, j) \cap Feeds(j + 1, j + n) = {}
    BY DEF Feeds
  <1>2. /\ IsFiniteSet(Feeds(1, j)) /\ Cardinality(Feeds(1, j)) \in Nat
        /\ IsFiniteSet(Feeds(j + 1, j + n)) /\ Cardinality(Feeds(j + 1, j + n)) \in Nat
    <2>1. j + 1 \in Nat /\ j + n \in Nat
      OBVIOUS
    <2> QED
      BY <2>1, FeedsFinite
  <1>3. Cardinality({}) = 0
    BY FS_EmptySet
  <1>4. Cardinality(Feeds(1, j) \cup Feeds(j + 1, j + n)) =
          Cardinality(Feeds(1, j)) + Cardinality(Feeds(j + 1, j + n))
            - Cardinality(Feeds(1, j) \cap Feeds(j + 1, j + n))
    BY <1>2, FS_Union
  <1>5. Cardinality(Feeds(1, j) \cap Feeds(j + 1, j + n)) = 0
    BY <1>1, <1>3
  <1> QED
    BY <1>1, <1>2, <1>4, <1>5

LEMMA MaxOf ==
  ASSUME NEW n \in Nat, NEW T \in SUBSET (0 .. n), T # {}
  PROVE  Max(T) \in T /\ \A y \in T : y <= Max(T)
  <1> DEFINE R == {x \in 0 .. n : n - x \in T}
  <1>1. R \subseteq Nat /\ R # {}
    <2>1. PICK y \in T : TRUE
      OBVIOUS
    <2>2. n - y \in 0 .. n /\ n - (n - y) = y
      OBVIOUS
    <2>3. n - y \in R /\ R \subseteq Nat
      BY <2>2
    <2> HIDE DEF R
    <2> QED
      BY <2>3
  <1>2. PICK x \in R : \A y \in R : x <= y
    <2> HIDE DEF R
    <2> QED
      BY <1>1, LeastNumber
  <1>3. n - x \in T /\ x \in 0 .. n
    BY <1>2
  <1>4. ASSUME NEW y \in T PROVE n - x >= y
    <2>1. n - y \in 0 .. n /\ n - (n - y) = y
      OBVIOUS
    <2>2. x <= n - y
      BY <1>2, <2>1
    <2> QED
      BY <1>3, <2>2
  <1>5. \E m \in T : \A y \in T : m >= y
    BY <1>3, <1>4
  <1>6. Max(T) \in T /\ \A y \in T : Max(T) >= y
    BY <1>5 DEF Max
  <1> QED
    BY <1>6

LEMMA LineStartIn ==
  ASSUME NEW k \in Nat
  PROVE  LineStart(k) \in 0 .. k /\ \A i \in LineStart(k) + 1 .. k : Source[i] # LF
  <1>1. Feeds(1, k) \in SUBSET (0 .. k)
    BY DEF Feeds
  <1>2. CASE Feeds(1, k) = {}
    BY <1>2 DEF LineStart, Feeds
  <1>3. CASE Feeds(1, k) # {}
    <2>1. LineStart(k) \in Feeds(1, k) /\ \A y \in Feeds(1, k) : y <= LineStart(k)
      BY <1>1, <1>3, MaxOf DEF LineStart
    <2> HIDE DEF LineStart
    <2> QED
      BY <2>1 DEF Feeds
  <1> QED
    BY <1>2, <1>3

\* position_at_impl, in the source and one byte behind it.
LEMMA PositionInSource ==
  ASSUME input \in Inputs, NEW k \in 0 .. Size + 1, NEW l, l = Least(k, Size)
  PROVE  /\ l \in 0 .. Size
         /\ PositionIn(k).row = Cardinality(Feeds(1, l)) /\ PositionIn(k).row \in Nat
         /\ PositionIn(k).col \in Nat
         /\ AsciiLine(k) => PositionIn(k).col = l - LineStart(l)
  <1>1. Size \in Nat /\ l \in 0 .. Size /\ \A i \in 1 .. Size : Source[i] \in Byte
    BY InputFacts DEF Least
  <1>2. PositionIn(k) = [row |-> Cardinality(Feeds(1, l)), col |-> Column(LineStart(l), l)]
    BY DEF PositionIn
  <1>3. Cardinality(Feeds(1, l)) \in Nat
    <2>1. 1 \in Nat /\ l \in Nat
      BY <1>1
    <2> QED
      BY <2>1, FeedsFinite
  <1>4. LineStart(l) \in 0 .. l /\ \A i \in LineStart(l) + 1 .. l : Source[i] # LF
    BY <1>1, LineStartIn
  <1>5. Column(LineStart(l), l) \in Nat
    BY <1>1, <1>4, ColumnValue
  <1>6. ASSUME AsciiLine(k) PROVE Column(LineStart(l), l) = l - LineStart(l)
    <2>1. ASSUME NEW i \in LineStart(l) + 1 .. l
          PROVE  Source[i] < 128 /\ Source[i] # LF /\ Source[i] \in Nat
      <3>1. i \in 1 .. l /\ Source[i] \in Byte /\ Source[i] # LF
        BY <1>1, <1>4
      <3>2. \A j \in i + 1 .. l : Source[j] # LF
        BY <1>1, <1>4
      <3>3. ~ (Source[i] >= 128)
        BY <1>6, <3>1, <3>2 DEF AsciiLine
      <3> QED
        BY <3>1, <3>3 DEF Byte
    <2> QED
      BY <1>1, <1>4, <2>1, ColumnValue
  <1> QED
    BY <1>1, <1>2, <1>3, <1>5, <1>6

-------------------------------------------------------------------------------
(* The invariant: rows and columns.                                        *)

\* Row r and column c are those of byte k, the column on a line that is ASCII up to there.
Agrees(k, r, c) ==
  /\ r \in Nat /\ c \in Nat
  /\ r = PositionIn(k).row
  /\ AsciiLine(k) => c = PositionIn(k).col

PositionsInv ==
  /\ Agrees(cursor, row, col)
  /\ Matching => start.row = row /\ start.col = col
  /\ Answered /\ token.kind # Ended =>
       /\ token.from = [row |-> token.from.row, col |-> token.from.col]
       /\ token.to = [row |-> token.to.row, col |-> token.to.col]
       /\ Agrees(token.start, token.from.row, token.from.col)
       /\ Agrees(token.end, token.to.row, token.to.col)

LEMMA PositionAgrees ==
  ASSUME input \in Inputs, NEW k \in 0 .. Size + 1
  PROVE  Agrees(k, PositionIn(k).row, PositionIn(k).col)
  BY PositionInSource DEF Agrees

LEMMA PositionAtAgrees ==
  ASSUME PlaceInv, PositionsInv, NEW k \in 0 .. Size + 1
  PROVE  Agrees(k, PositionAt(k).row, PositionAt(k).col)
  <1>1. input \in Inputs
    BY DEF PlaceInv, Places
  <1> QED
    BY <1>1, PositionAgrees DEF PositionAt, PositionsInv

\* advance: the positions of the bytes passed over are added up.
LEMMA AdvanceAgrees ==
  ASSUME PlaceInv, PositionsInv, NEW n \in Nat, cursor + n <= Size, Advance(n)
  PROVE  Agrees(cursor + n, row', col')
  <1> DEFINE e == cursor + n
             feeds == Feeds(cursor + 1, e)
  <1>1. /\ Size \in Nat /\ cursor \in Nat /\ cursor \in 0 .. Size + 1 /\ e \in 0 .. Size + 1
        /\ e \in Nat /\ e <= Size /\ cursor <= Size
        /\ input \in Inputs
    BY InputFacts DEF PlaceInv, Places
  <1>2. /\ row' = row + Cardinality(feeds)
        /\ feeds = {} => col' = col + n
        /\ feeds # {} /\ Max(feeds) \in Nat => col' = e - Max(feeds)
    <2>1. row' = row + Cardinality(Feeds(cursor + 1, cursor + n))
      BY DEF Advance, GoTo
    <2>2. col' = IF Feeds(cursor + 1, cursor + n) = {} THEN col + n
                 ELSE cursor + n - Max(Feeds(cursor + 1, cursor + n))
      BY DEF Advance, GoTo
    <2>3. feeds = {} => col' = col + n
      BY <2>2
    <2>4. ASSUME feeds # {}, Max(feeds) \in Nat PROVE col' = e - Max(feeds)
      BY <1>1, <2>2, <2>4
    <2> QED
      BY <2>1, <2>3, <2>4
  <1>3. Least(cursor, Size) = cursor /\ Least(e, Size) = e
    BY <1>1 DEF Least
  <1>4. /\ row = Cardinality(Feeds(1, cursor)) /\ row \in Nat /\ col \in Nat
        /\ AsciiLine(cursor) => col = cursor - LineStart(cursor)
    BY <1>1, <1>3, PositionInSource DEF PositionsInv, Agrees
  <1>5. /\ PositionIn(e).row = Cardinality(Feeds(1, e)) /\ PositionIn(e).row \in Nat
        /\ AsciiLine(e) => PositionIn(e).col = e - LineStart(e)
    BY <1>1, <1>3, PositionInSource
  <1>6. /\ Feeds(1, e) = Feeds(1, cursor) \cup feeds
        /\ Cardinality(Feeds(1, e)) = Cardinality(Feeds(1, cursor)) + Cardinality(feeds)
    BY <1>1, FeedsSplit
  <1>7. LineStart(cursor) \in 0 .. cursor
    BY <1>1, LineStartIn
  <1>8. CASE feeds = {}
    <2>1. LineStart(e) = LineStart(cursor)
      BY <1>6, <1>8 DEF LineStart
    <2>2. AsciiLine(e) => AsciiLine(cursor)
      <3> SUFFICES ASSUME AsciiLine(e), NEW i \in 1 .. cursor, Source[i] >= 128
                   PROVE  \E j \in i + 1 .. cursor : Source[j] = LF
        BY <1>3 DEF AsciiLine
      <3>1. PICK j \in i + 1 .. e : Source[j] = LF
        BY <1>1, <1>3 DEF AsciiLine
      <3>2. j \notin cursor + 1 .. e
        BY <1>8, <3>1 DEF Feeds
      <3> QED
        BY <1>1, <3>1, <3>2
    <2> QED
      BY <1>1, <1>2, <1>4, <1>5, <1>6, <1>7, <1>8, <2>1, <2>2 DEF Agrees
  <1>9. CASE feeds # {}
    <2>1. /\ Max(feeds) \in feeds /\ Max(feeds) \in cursor + 1 .. e
          /\ \A y \in feeds : y <= Max(feeds)
      <3>1. feeds \in SUBSET (0 .. e)
        BY <1>1 DEF Feeds
      <3>2. Max(feeds) \in feeds /\ \A y \in feeds : y <= Max(feeds)
        <4> HIDE DEF feeds, e
        <4> QED
          BY <1>1, <1>9, <3>1, MaxOf
      <3> QED
        BY <3>2 DEF Feeds
    <2>2. LineStart(e) = Max(feeds)
      <3>1. /\ Feeds(1, e) \in SUBSET (0 .. e) /\ Feeds(1, e) # {}
        BY <1>1, <1>6, <1>9 DEF Feeds
      <3>2. LineStart(e) \in Feeds(1, e) /\ \A y \in Feeds(1, e) : y <= LineStart(e)
        BY <1>1, <3>1, MaxOf DEF LineStart
      <3>3. Max(feeds) \in Feeds(1, e) /\ \A y \in Feeds(1, e) : y <= Max(feeds)
        BY <1>1, <1>6, <2>1 DEF Feeds
      <3>4. LineStart(e) \in Nat
        BY <1>1, LineStartIn
      <3> QED
        BY <1>1, <2>1, <3>2, <3>3, <3>4
    <2> QED
      BY <1>1, <1>2, <1>4, <1>5, <1>6, <2>1, <2>2 DEF Agrees
  <1> QED
    BY <1>8, <1>9

-------------------------------------------------------------------------------
(* The positions are kept.                                                 *)

LEMMA InitPositions == Init => PositionsInv
  <1> SUFFICES ASSUME Init PROVE PositionsInv
    OBVIOUS
  <1>1. /\ input \in Inputs /\ cursor = 0 /\ row = 0 /\ col = 0 /\ pc = "build" /\ token = NoAnswer
        /\ Size \in Nat
    BY InputFacts DEF Init
  <1>2. Least(0, Size) = 0 /\ 0 \in 0 .. Size + 1
    BY <1>1 DEF Least
  <1>3. Feeds(1, 0) = {}
    BY DEF Feeds
  <1>4. Cardinality({}) = 0
    BY FS_EmptySet
  <1>5. PositionIn(0).row = 0 /\ (AsciiLine(0) => PositionIn(0).col = 0)
    <2>1. /\ PositionIn(0).row = Cardinality(Feeds(1, 0))
          /\ AsciiLine(0) => PositionIn(0).col = 0 - LineStart(0)
      BY <1>1, <1>2, PositionInSource
    <2>2. LineStart(0) = 0
      BY <1>3 DEF LineStart
    <2> QED
      BY <1>3, <1>4, <2>1, <2>2
  <1> QED
    BY <1>1, <1>5 DEF PositionsInv, Agrees, Matching, Answered

\* Agrees is about the source alone.
LEMMA AgreesStays ==
  ASSUME input' = input
  PROVE  \A k, r, c : Agrees(k, r, c)' <=> Agrees(k, r, c)
  BY DEF Agrees, PositionIn, AsciiLine, Feeds, LineStart, Column, CharWidth, Source, Size

\* A step that moves no cursor and answers nothing.
LEMMA PositionsStay ==
  ASSUME PositionsInv, UNCHANGED <<input, cursor, row, col, start>>,
         pc' \in {"match", "emit"} => pc \in {"match", "emit"},
         token' = NoAnswer \/ token'.kind = Ended \/ token' = token
  PROVE  PositionsInv'
  <1>1. Agrees(cursor, row, col)'
    BY AgreesStays DEF PositionsInv
  <1>2. Matching' => start'.row = row' /\ start'.col = col'
    BY DEF PositionsInv, Matching
  <1>3. CASE token' = NoAnswer \/ token'.kind = Ended
    BY <1>1, <1>2, <1>3 DEF PositionsInv, Answered
  <1>4. CASE token' = token
    BY <1>1, <1>2, <1>4, AgreesStays DEF PositionsInv, Answered
  <1> QED
    BY <1>3, <1>4

\* The end of a token is where the lexer stands.
LEMMA EmitEnd ==
  ASSUME PlaceInv, PositionsInv, EmitLiteral \/ EmitPattern \/ EmitUnknown
  PROVE  /\ input' = input /\ input \in Inputs /\ pc' = "idle"
         /\ token'.start = cursor /\ token'.from = [row |-> row, col |-> col]
         /\ token'.end = cursor' /\ token'.to = [row |-> row', col |-> col']
         /\ Agrees(cursor', row', col')
  <1>1. /\ input' = input /\ input \in Inputs /\ pc' = "idle" /\ Size \in Nat
        /\ token'.start = cursor /\ token'.from = [row |-> row, col |-> col]
        /\ cursor \in 0 .. Size /\ cursor < Size
        /\ accepted = NoMatch \/ accepted.end \in 0 .. Size
        /\ start.byte = cursor
    BY InputFacts
    DEF EmitLiteral, EmitPattern, EmitUnknown, Token, PositionsInv, PlaceInv, Places, Matching
  <1>2. token'.end = cursor' /\ token'.to = [row |-> row', col |-> col'] /\ Agrees(cursor', row', col')
    <2>1. ASSUME NEW k \in 0 .. Size + 1, GoTo(k, PositionAt(k)), token'.end = k,
                 token'.to = PositionAt(k)
          PROVE  token'.end = cursor' /\ token'.to = [row |-> row', col |-> col'] /\ Agrees(cursor', row', col')
      <3>1. cursor' = k /\ row' = PositionAt(k).row /\ col' = PositionAt(k).col
        BY <2>1 DEF GoTo
      <3>2. PositionAt(k) = [row |-> PositionAt(k).row, col |-> PositionAt(k).col]
        BY DEF PositionAt, PositionIn
      <3> QED
        BY <2>1, <3>1, <3>2, PositionAtAgrees
    <2>2. CASE EmitLiteral
      <3>1. /\ accepted.end \in 0 .. Size + 1 /\ GoTo(accepted.end, PositionAt(accepted.end))
            /\ token'.end = accepted.end /\ token'.to = PositionAt(accepted.end)
        BY <1>1, <2>2 DEF EmitLiteral, Token
      <3> QED
        BY <2>1, <3>1
    <2>3. CASE EmitPattern
      <3>1. PICK m \in BestPatterns : /\ GoTo(m.end, PositionAt(m.end))
                                      /\ token'.end = m.end /\ token'.to = PositionAt(m.end)
        BY <2>3 DEF EmitPattern, Token
      <3>2. m.end \in cursor .. Size
        BY <1>1, BestPatternEnds, PatternEndsIn
      <3>3. m.end \in 0 .. Size + 1
        BY <1>1, <3>2
      <3> QED
        BY <2>1, <3>1, <3>3
    <2>4. CASE EmitUnknown
      <3>1. Advance(1) /\ token'.end = cursor + 1 /\ token'.to = [row |-> row', col |-> col']
        BY <2>4 DEF EmitUnknown, Token
      <3>2. cursor' = cursor + 1
        BY <3>1 DEF Advance, GoTo
      <3>3. Agrees(cursor + 1, row', col')
        BY <1>1, <3>1, AdvanceAgrees
      <3> QED
        BY <3>1, <3>2, <3>3
    <2> QED
      BY <2>2, <2>3, <2>4
  <1> QED
    BY <1>1, <1>2

LEMMA EmitPositions ==
  ASSUME PlaceInv, PositionsInv, EmitLiteral \/ EmitPattern \/ EmitUnknown
  PROVE  PositionsInv'
  <1>1. /\ input' = input /\ pc' = "idle"
        /\ token'.start = cursor /\ token'.from = [row |-> row, col |-> col]
        /\ token'.end = cursor' /\ token'.to = [row |-> row', col |-> col']
        /\ Agrees(cursor', row', col')
    BY EmitEnd
  <1>2. /\ Agrees(cursor, row, col)' /\ Agrees(token.end, token.to.row, token.to.col)'
        /\ Agrees(token.start, token.from.row, token.from.col)'
    <2>1. Agrees(cursor, row, col)
      BY DEF PositionsInv
    <2> QED
      BY <1>1, <2>1, AgreesStays DEF Agrees
  <1>3. /\ token'.from = [row |-> token'.from.row, col |-> token'.from.col]
        /\ token'.to = [row |-> token'.to.row, col |-> token'.to.col]
    BY <1>1
  <1> QED
    BY <1>1, <1>2, <1>3 DEF PositionsInv, Matching

LEMMA AskPositions ==
  ASSUME PlaceInv, PositionsInv, NextToken \/ SkipBlank \/ StartMatch
  PROVE  PositionsInv'
  <1>1. /\ input' = input /\ token' = token /\ Size \in Nat /\ cursor \in Nat
        /\ StartMatch \/ (pc' = "blank" /\ start' = start)
    BY InputFacts
    DEF NextToken, SkipBlank, StartMatch, lexVars, callVars, PlaceInv, Places
  <1>2. Agrees(cursor, row, col)'
    <2>1. CASE UNCHANGED lexVars
      BY <1>1, <2>1, AgreesStays DEF lexVars, PositionsInv
    <2>2. ASSUME NEW n \in Nat, Advance(n), cursor + n <= Size PROVE Agrees(cursor, row, col)'
      <3>1. cursor' = cursor + n
        BY <2>2 DEF Advance, GoTo
      <3>2. Agrees(cursor + n, row', col')
        BY <2>2, AdvanceAgrees
      <3> QED
        BY <1>1, <3>1, <3>2, AgreesStays
    <2>3. CASE NextToken
      <3>1. CASE cursor = 0 /\ IsPrefix(Bom, Source)
        <4>1. Advance(3) /\ cursor + 3 <= Size
          BY <1>1, <2>3, <3>1, BomFits DEF NextToken
        <4> QED
          BY <2>2, <4>1
      <3> QED
        BY <2>1, <2>3, <3>1 DEF NextToken
    <2>4. CASE SkipBlank
      <3>1. Advance(1) /\ cursor + 1 <= Size
        BY <1>1, <2>4 DEF SkipBlank
      <3> QED
        BY <2>2, <3>1
    <2> QED
      BY <2>1, <2>3, <2>4 DEF StartMatch
  <1>3. Matching' => start'.row = row' /\ start'.col = col'
    <2>1. CASE StartMatch
      BY <2>1 DEF StartMatch, lexVars
    <2> QED
      BY <1>1, <2>1 DEF Matching
  <1> QED
    BY <1>1, <1>2, <1>3, AgreesStays DEF PositionsInv, Answered

LEMMA ResetPositions ==
  ASSUME PlaceInv, PositionsInv, PassEmpty \/ Seek
  PROVE  PositionsInv'
  <1>1. PICK k \in 0 .. Size + 1 : ResetTo(k)
    BY ResetsInSource
  <1>2. /\ input' = input /\ token' = NoAnswer /\ pc' = "idle"
        /\ cursor' = k /\ row' = PositionAt(k).row /\ col' = PositionAt(k).col
    BY <1>1 DEF ResetTo, GoTo, PassEmpty, Seek
  <1>3. Agrees(k, row', col')
    BY <1>2, PositionAtAgrees
  <1>4. Agrees(cursor, row, col)'
    BY <1>2, <1>3, AgreesStays
  <1> QED
    BY <1>2, <1>4 DEF PositionsInv, Matching, Answered

LEMMA NextPositions ==
  ASSUME PlaceInv, PositionsInv, Next
  PROVE  PositionsInv'
  <1>1. CASE Build
    <2>1. /\ UNCHANGED <<input, cursor, row, col, start, token>> /\ pc' \in {"build", "idle"}
      BY <1>1 DEF Build, FollowByte, AddByte, AcceptLiteral, Built, Building, lexVars
    <2> QED
      BY <2>1, PositionsStay
  <1>2. CASE AnswerNone
    <2>1. /\ UNCHANGED <<input, cursor, row, col, start>> /\ pc' = "idle" /\ token'.kind = Ended
      BY <1>2 DEF AnswerNone, lexVars, NoAnswer
    <2> QED
      BY <2>1, PositionsStay
  <1>3. CASE MatchByte \/ MatchEnds
    <2>1. /\ UNCHANGED <<input, cursor, row, col, start, token>> /\ pc = "match"
      BY <1>3 DEF MatchByte, MatchEnds, lexVars
    <2> QED
      BY <2>1, PositionsStay
  <1> QED
    BY <1>1, <1>2, <1>3, AskPositions, EmitPositions, ResetPositions DEF Next, Lex

LEMMA StutterPositions ==
  ASSUME PositionsInv, UNCHANGED vars
  PROVE  PositionsInv'
  BY PositionsStay DEF vars, lexVars

(***************************************************************************)
(* The rows and columns of the cursor and of the answer agree with those of*)
(* the source, in every reachable state.                                   *)
(***************************************************************************)
THEOREM PositionsInductive == Spec => []PositionsInv
  <1>1. PlaceInv /\ PositionsInv /\ [Next]_vars => PositionsInv'
    BY NextPositions, StutterPositions
  <1> QED
    BY <1>1, InitPositions, PlacesInductive, PTL DEF Spec

(***************************************************************************)
(* The rows kept by counting are those of the source, and so are the       *)
(* columns on a line that is ASCII up to there, for every source, over     *)
(* every skip, token and reset.                                            *)
(***************************************************************************)
THEOREM PositionsCounted == Spec => []PositionsAgree
  <1>1. \A k : PositionIn(k) = [row |-> PositionIn(k).row, col |-> PositionIn(k).col]
    BY DEF PositionIn
  <1>2. PositionsInv => PositionsAgree
    BY <1>1 DEF PositionsInv, PositionsAgree, Agrees
  <1> QED
    BY <1>2, PositionsInductive, PTL

-------------------------------------------------------------------------------
(* The types.                                                              *)

Answer == [kind : Int, start : 0 .. Size, end : 0 .. Size, from : Place, to : Place]

\* What the other invariants leave of the types.
TypeRest ==
  /\ off \subseteq Kinds
  /\ start \in [byte : 0 .. Size, row : Nat, col : Nat]
  /\ pos \in Nat
  /\ accepted \in [end : 0 .. Size, kind : Kinds \cup {NoKind}]
  /\ token \in Answer

LEMMA AcceptKinds ==
  ASSUME TrieInv, NEW s \in DOMAIN trie
  PROVE  trie[s].accept \in Kinds \cup {NoKind}
  <1>1. PICK w \in Words : TrieOf(w)
    BY DEF TrieInv
  <1> QED
    BY <1>1 DEF TrieOf, Accepts, Added, Kinds

LEMMA InitTypes == Init => TypeRest
  <1> SUFFICES ASSUME Init PROVE TypeRest
    OBVIOUS
  <1>1. Size \in Nat
    BY InputFacts DEF Init
  <1> QED
    BY <1>1 DEF Init, TypeRest, NoMatch, NoKind, NoAnswer, Answer, Place

\* The kind of a token is a number, whatever was matched.
LEMMA EmitKind ==
  ASSUME PlaceInv, TypeRest, EmitLiteral \/ EmitPattern \/ EmitUnknown
  PROVE  \E k \in Int : \E e, p : Token(k, e, p)
  <1>1. input \in Inputs
    BY DEF PlaceInv, Places
  <1>2. Kinds \subseteq Int /\ UNKNOWN \in Int /\ NoKind \in Int
    BY <1>1, InputFacts DEF Kinds, UNKNOWN, NoKind
  <1>3. CASE EmitLiteral
    <2>1. accepted.kind \in Int
      BY <1>2 DEF TypeRest
    <2> QED
      BY <1>2, <1>3, <2>1 DEF EmitLiteral
  <1>4. CASE EmitPattern
    <2>1. PICK m \in BestPatterns : Token(input.patterns[m.rank].kind, m.end, PositionAt(m.end))
      BY <1>4 DEF EmitPattern
    <2>2. input.patterns[m.rank].kind \in Int
      BY <1>1, <2>1, BestPatternEnds, InputFacts
    <2> QED
      BY <2>1, <2>2
  <1>5. CASE EmitUnknown
    BY <1>2, <1>5 DEF EmitUnknown
  <1> QED
    BY <1>3, <1>4, <1>5

LEMMA EmitTypes ==
  ASSUME PlaceInv, PositionsInv, TypeRest, EmitLiteral \/ EmitPattern \/ EmitUnknown
  PROVE  TypeRest'
  <1>1. /\ input' = input /\ input \in Inputs
        /\ token'.start = cursor /\ token'.from = [row |-> row, col |-> col]
        /\ token'.end = cursor' /\ token'.to = [row |-> row', col |-> col']
        /\ Agrees(cursor', row', col')
    BY EmitEnd
  <1>2. /\ UNCHANGED <<off, start, pos, accepted>> /\ pc = "emit" /\ pc' = "idle"
    BY DEF EmitLiteral, EmitPattern, EmitUnknown, callVars
  <1>3a. PICK k \in Int : \E e, p : Token(k, e, p)
    BY EmitKind
  <1>3. PICK e, p : Token(k, e, p)
    BY <1>3a
  <1>4. token' = [kind |-> k, start |-> start.byte, end |-> e,
                  from |-> [row |-> start.row, col |-> start.col], to |-> p]
    BY <1>3 DEF Token
  <1>5. start.byte \in 0 .. Size /\ start.row \in Nat /\ start.col \in Nat
    BY DEF TypeRest
  <1>6. e \in 0 .. Size /\ Size' = Size
    BY <1>1, <1>4, <1>5, EmitForward DEF PlaceInv, Places, Size, Source
  <1>7. row \in Nat /\ col \in Nat /\ row' \in Nat /\ col' \in Nat
    BY <1>1 DEF PositionsInv, Agrees
  <1>8. token' \in Answer
    <2>1. token'.to = p
      BY <1>4
    <2>2. p = [row |-> row', col |-> col']
      BY <1>1, <2>1
    <2> QED
      BY <1>4, <1>5, <1>6, <1>7, <2>2 DEF Answer, Place
  <1>9. Answer' = Answer /\ Kinds' = Kinds
    BY <1>1, <1>6 DEF Answer, Kinds, Literals
  <1> QED
    BY <1>2, <1>6, <1>8, <1>9 DEF TypeRest

LEMMA NoAnswerTyped ==
  ASSUME Size \in Nat
  PROVE  NoAnswer \in Answer /\ [NoAnswer EXCEPT !.kind = Ended] \in Answer
  BY DEF NoAnswer, Ended, NoKind, Answer, Place

LEMMA NextTypes ==
  ASSUME PlaceInv, TrieInv, PositionsInv, TypeRest, Next
  PROVE  TypeRest'
  <1>1. Size \in Nat /\ Size' = Size /\ Kinds' = Kinds /\ Answer' = Answer
    <2>1. input' = input
      BY DEF Next, Build, FollowByte, AddByte, AcceptLiteral, Built, Building, Lex, NextToken,
             SkipBlank, AnswerNone, StartMatch, MatchByte, MatchEnds, EmitLiteral, EmitPattern,
             EmitUnknown, PassEmpty, Seek, ResetTo
    <2> QED
      BY <2>1, InputFacts DEF PlaceInv, Places, Size, Source, Kinds, Literals, Answer
  <1>2. CASE Build
    <2>1. /\ UNCHANGED <<off, start, accepted, token>> /\ pos' \in Nat
      BY <1>2 DEF Build, FollowByte, AddByte, AcceptLiteral, Built, Building, callVars, TypeRest
    <2> QED
      BY <1>1, <2>1 DEF TypeRest
  <1>3. CASE NextToken
    <2>1. /\ UNCHANGED <<start, pos, accepted, token>> /\ off' \in {{}} \cup {{k} : k \in Kinds}
      BY <1>3 DEF NextToken
    <2>2. off' \subseteq Kinds
      BY <2>1
    <2> QED
      BY <1>1, <2>1, <2>2 DEF TypeRest
  <1>4. CASE SkipBlank
    BY <1>1, <1>4 DEF SkipBlank, callVars, TypeRest
  <1>5. CASE AnswerNone
    BY <1>1, <1>5, NoAnswerTyped DEF AnswerNone, callVars, TypeRest
  <1>6. CASE StartMatch
    <2>1. /\ UNCHANGED <<off, token>> /\ pos' = cursor /\ accepted' = NoMatch
          /\ start' = [byte |-> cursor, row |-> row, col |-> col] /\ cursor < Size
      BY <1>6 DEF StartMatch, callVars
    <2>2. cursor \in 0 .. Size /\ row \in Nat /\ col \in Nat
      BY <1>1, <2>1 DEF PlaceInv, Places, PositionsInv, Agrees
    <2> QED
      BY <1>1, <2>1, <2>2 DEF TypeRest, NoMatch
  <1>7. CASE MatchByte \/ MatchEnds
    <2>1. /\ UNCHANGED <<off, start, token>> /\ NoteAccept /\ pos' \in {pos, pos + 1} /\ pc = "match"
      BY <1>7 DEF MatchByte, MatchEnds, callVars
    <2>2. pos \in 0 .. Size /\ trie[node].accept \in Kinds \cup {NoKind}
      BY <1>1, <2>1, AcceptKinds DEF PlaceInv, Places, Matching, TrieInv, TrieTyped
    <2>3. accepted' \in [end : 0 .. Size, kind : Kinds \cup {NoKind}]
      BY <2>1, <2>2 DEF NoteAccept, TypeRest
    <2> QED
      BY <1>1, <2>1, <2>2, <2>3 DEF TypeRest
  <1>8. CASE PassEmpty \/ Seek
    <2>1. UNCHANGED <<off, start, pos, accepted>> /\ token' = NoAnswer
      BY <1>8 DEF PassEmpty, Seek, ResetTo, callVars
    <2> QED
      BY <1>1, <2>1, NoAnswerTyped DEF TypeRest
  <1> QED
    BY <1>2, <1>3, <1>4, <1>5, <1>6, <1>7, <1>8, EmitTypes DEF Next, Lex

LEMMA StutterTypes ==
  ASSUME TypeRest, UNCHANGED vars
  PROVE  TypeRest'
  <1>1. UNCHANGED <<input, off, start, pos, accepted, token>>
    BY DEF vars, callVars
  <1>2. Size' = Size /\ Kinds' = Kinds /\ Answer' = Answer
    BY <1>1 DEF Size, Source, Kinds, Literals, Answer
  <1> QED
    BY <1>1, <1>2 DEF TypeRest

\* No edge of the trie leads back to its root.
LEMMA EdgesDown ==
  ASSUME TrieInv, NEW s \in DOMAIN trie, NEW t \in trie[s].next
  PROVE  t.byte \in Byte /\ t.to \in 2 .. Len(trie)
  <1>1. PICK w \in Words : TrieOf(w)
    BY DEF TrieInv
  <1>2. /\ t.to \in DOMAIN trie /\ t.byte \in Byte /\ w[t.to] = Append(w[s], t.byte)
        /\ w[1] = <<>> /\ w[s] \in Seq(Byte)
    BY <1>1 DEF TrieOf, Spells, Words
  <1>3. w[t.to] # <<>>
    BY <1>2, AppendProperties
  <1>4. DOMAIN trie = 1 .. Len(trie) /\ Len(trie) \in Nat
    <2>1. trie \in Seq(TrieState)
      BY DEF TrieInv, TrieTyped
    <2> QED
      BY <2>1, LenProperties
  <1> QED
    BY <1>2, <1>3, <1>4

(***************************************************************************)
(* The type invariant: the trie leads to states there are, the lexer is    *)
(* nowhere but in the source or one byte behind it, and its tokens are     *)
(* places in the source.                                                   *)
(***************************************************************************)
THEOREM LexTypesKept == Spec => []LexTypeOK
  <1>1. PlaceInv /\ TrieInv /\ PositionsInv /\ TypeRest /\ [Next]_vars => TypeRest'
    BY NextTypes, StutterTypes
  <1>2. Spec => []TypeRest
    BY <1>1, InitTypes, PlacesInductive, TrieInductive, PositionsInductive, PTL DEF Spec
  <1>3. ASSUME PlaceInv, TrieInv, PositionsInv, TypeRest PROVE LexTypeOK
    <2>1. \A s \in DOMAIN trie : \A t \in trie[s].next : t.byte \in Byte /\ t.to \in 2 .. Len(trie)
      BY <1>3, EdgesDown
    <2>2. \A s \in DOMAIN trie : trie[s].accept \in Kinds \cup {NoKind}
      BY <1>3, AcceptKinds
    <2>3. lit \in 1 .. Len(Literals) + 1 /\ node \in DOMAIN trie
      BY <1>3 DEF TrieInv, TrieTyped
    <2>4. /\ cursor \in 0 .. Size + 1 /\ begin \in 0 .. Size + 1 /\ row \in Nat /\ col \in Nat
          /\ pc \in {"build", "idle", "blank", "match", "emit"}
      BY <1>3 DEF PlaceInv, Places, PositionsInv, Agrees
    <2> QED
      BY <1>3, <2>1, <2>2, <2>3, <2>4 DEF LexTypeOK, TypeRest, Answer
  <1> QED
    BY <1>2, <1>3, PlacesInductive, TrieInductive, PositionsInductive, PTL
=============================================================================
