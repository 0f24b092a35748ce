------------------------------- MODULE MCTrees -------------------------------
(***************************************************************************)
(* The trees and readings the clients are model-checked on.                *)
(***************************************************************************)
EXTENDS TreeReaders

(***************************************************************************)
(* All ordered trees of n nodes in post-order: f[i] is the first node of   *)
(* the subtree of node i, and subtrees do not cross.                       *)
(***************************************************************************)
Shapes(n) ==
  {f \in [1 .. n -> 1 .. n] :
     /\ f[n] = 1
     /\ \A i \in 1 .. n : f[i] <= i
     /\ \A i, j \in 1 .. n : j < i => f[i] <= f[j] \/ j < f[i]}

Leaves(f) == {i \in DOMAIN f : f[i] = i}

Children(f, i) ==
  SetToSortSeq({j \in f[i] .. i - 1 : \A k \in j + 1 .. i - 1 : f[k] > j}, <)

\* Leaves of no or of one byte, after no or after one blank; inner nodes span their children.
Laid(f, leaf) ==
  LET Length(i) == leaf[i].gap + leaf[i].width
      EndOf(i) == MapThenSumSet(Length, {j \in Leaves(f) : j <= i})
  IN [nodes |-> [i \in DOMAIN f |-> [start |-> EndOf(f[i]) - leaf[f[i]].width, end |-> EndOf(i),
                                     kids |-> Children(f, i)]],
      root |-> Len(f)]

LeafShapes == {[gap |-> 0, width |-> 0], [gap |-> 0, width |-> 1], [gap |-> 1, width |-> 1]}

AllTrees(n) ==
  UNION {{Laid(f, leaf) : leaf \in [Leaves(f) -> LeafShapes]} : f \in Shapes(n)}

TreesUpTo(n) == UNION {AllTrees(k) : k \in 1 .. n}

Spanned(t) == 0 .. t.nodes[t.root].end + 1

Walks(T) == {[task |-> "walk", tree |-> t] : t \in T}
Finds(T) == UNION {{[task |-> "find", tree |-> t, byte |-> k] : k \in Spanned(t)} : t \in T}
Marks(T) ==
  UNION {{[task |-> "mark", tree |-> t, from |-> e[1], to |-> e[2]] :
            e \in {e \in Spanned(t) \X Spanned(t) : e[1] <= e[2]}} : t \in T}

-------------------------------------------------------------------------------
(* Trees to be queried: kinds x, y, z are 0, 1, 2, a field of a node 0 or 7. *)

N(kind, start, end, kids) ==
  [kind |-> kind, named |-> kind # 2, field |-> 0, start |-> start, end |-> end, kids |-> kids]
Field(n) == [n EXCEPT !.field = 7]

\* x(y(z) z x(y y)), x(y), y alone, and a subtree with two parents.
Wood ==
  {<<N(2, 0, 1, <<>>), N(1, 0, 1, <<1>>), N(2, 1, 2, <<>>), N(1, 3, 4, <<>>),
     Field(N(1, 4, 6, <<>>)), N(0, 3, 6, <<4, 5>>), N(0, 0, 6, <<2, 3, 6>>)>>,
   <<Field(N(1, 0, 2, <<>>)), N(0, 0, 2, <<1>>)>>,
   <<N(1, 0, 1, <<>>)>>,
   <<N(1, 0, 1, <<>>), N(1, 1, 2, <<>>), N(0, 0, 1, <<1>>), Field(N(1, 0, 2, <<1, 2>>)),
     N(0, 0, 2, <<3, 4>>)>>}

P(kind, named, fields, kids, capture) ==
  [kind |-> kind, named |-> named, fields |-> fields, kids |-> kids, capture |-> capture]

Wildcard(c) == P(AnyKind, TRUE, <<>>, <<>>, c)
Star(c) == P(AnyKind, FALSE, <<>>, <<>>, c)
Kind(k, c) == P(k, k # 2, <<>>, <<>>, c)

\* One pattern each; children in order, fields, and both.
Asked ==
  {Kind(0, 1), Star(2), Wildcard(3),
   P(0, TRUE, <<>>, <<Kind(1, 1), Kind(1, 2)>>, 3),
   P(0, TRUE, <<>>, <<Star(1), Kind(1, 2)>>, 0),
   P(AnyKind, TRUE, <<>>, <<Wildcard(1)>>, 2),
   P(0, TRUE, <<[field |-> 7, pattern |-> Kind(1, 1)]>>, <<>>, 2),
   P(0, TRUE, <<[field |-> 7, pattern |-> Wildcard(1)]>>, <<Star(3)>>, 0)}

\* Captures of every node, of a first child, of a node behind another, and of a kind.
Lain ==
  {Star(1), P(AnyKind, FALSE, <<>>, <<Wildcard(2)>>, 0),
   P(AnyKind, TRUE, <<>>, <<Star(0), Star(3)>>, 0), Kind(1, 4)}

\* Patterns of one pair of parentheses: a name behind it is theirs either way.
Flat == {p \in Asked : p.kids = <<>> /\ p.fields = <<>>}

\* The text of a pattern whose captures are names, with the name of a pattern inside of
\* its parentheses or, as tree-sitter has it, behind them.
RECURSIVE Written(_, _)
Written(p, inside) ==
  LET kind == IF p.kind = AnyKind THEN IF p.named THEN <<"_">> ELSE <<"*">>
              ELSE <<IF p.named THEN "ident" ELSE "string", p.kind>>
      name == IF p.capture = 0 THEN <<>> ELSE <<<<"@">>, <<"ident", p.capture>>>>
      fields == FlattenSeq([i \in DOMAIN p.fields |->
                  <<<<"ident", p.fields[i].field>>, <<":">>>> \o Written(p.fields[i].pattern, inside)])
      kids == FlattenSeq([i \in DOMAIN p.kids |-> Written(p.kids[i], inside)])
  IN <<<<"(">>, kind>> \o fields \o kids
       \o IF inside THEN Append(name, <<")">>) ELSE <<<<")">>>> \o name

TextOf(patterns, inside) == FlattenSeq([i \in DOMAIN patterns |-> Written(patterns[i], inside)])

Reading(task, nodes, texts, meant, names) ==
  [task |-> task, tree |-> [nodes |-> nodes, root |-> Len(nodes)], texts |-> texts,
   meant |-> meant, cut |-> FALSE, names |-> names, fieldsNamed |-> names]

Querying(w, patterns, inside) ==
  Reading("query", w, <<TextOf(patterns, inside)>>, <<patterns>>, TRUE)

Twig == <<N(1, 0, 1, <<>>)>>

\* A text cut behind each of its lexemes.
CutShort(j) ==
  {[j EXCEPT !.texts = <<SubSeq(@[1], 1, n)>>, !.cut = TRUE] : n \in 0 .. Len(j.texts[1])}

\* Texts that say something else than they look like: a pattern without parentheses, a
\* name with an underscore, two names, a colon or an "@" without a name, a wrong field.
Oddities ==
  {<<<<"string", 2>>, <<"@">>, <<"ident", 1>>>>,
   <<<<"(">>, <<"hidden", 1>>, <<")">>>>,
   <<<<"(">>, <<"ident", 1>>, <<"@">>, <<"ident", 1>>, <<"@">>, <<"string", 2>>, <<":">>, <<")">>>>,
   <<<<"(">>, <<"ident", 0>>, <<"_">>, <<")">>>>,
   <<<<"(">>, <<"ident", 0>>, <<"*">>, <<":">>, <<"(">>, <<"ident", 1>>, <<")">>, <<")">>>>,
   <<<<"(">>, <<"ident", 1>>, <<")">>, <<"@">>, <<"(">>>>,
   <<<<"(">>, <<")">>>>}
OddReadings ==
  {[Reading("query", Twig, <<t>>, <<>>, TRUE) EXCEPT !.tree.root = 1] : t \in Oddities}

\* highlight parses the source itself and attaches no names to the tree.
MCReadings ==
  Walks(TreesUpTo(4)) \cup Finds(TreesUpTo(4)) \cup Marks(TreesUpTo(4))
    \cup Walks({[nodes |-> w, root |-> Len(w)] : w \in Wood})
    \cup {Querying(w, <<p, q>>, TRUE) : w \in Wood, p, q \in Asked}
    \cup {Querying(Twig, <<p, Star(1)>>, FALSE) : p \in Flat}
    \cup UNION {CutShort(Querying(Twig, <<p, q>>, TRUE)) : p \in Asked, q \in {Kind(0, 1), Star(2)}}
    \cup UNION {CutShort(Querying(Twig, <<p, q>>, FALSE)) : p \in Flat, q \in {Kind(0, 1), Star(2)}}
    \cup OddReadings
    \cup {Reading("highlight", w, <<TextOf(<<p>>, TRUE), TextOf(<<q, r>>, TRUE)>>, <<<<p>>, <<q, r>>>>, FALSE) :
             w \in Wood, p, q, r \in Lain}

\* The names behind the parentheses, of a pattern and of a pattern in it.
NestedReadings ==
  {Querying(Twig, <<P(0, TRUE, <<>>, <<Kind(1, 1)>>, 2)>>, FALSE)}
=============================================================================
