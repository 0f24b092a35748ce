---------------------------- MODULE GrammarCompiler ----------------------------
(***************************************************************************)
(* compile_grammar: from the rules of a grammar file to the productions    *)
(* and the symbols that the table generator is called with, one rule at a  *)
(* time.  The rules are in a HashMap, which is gone through in an order    *)
(* of its own.  The calls of TableGen follow, after a compilation or of    *)
(* a program that has productions already.                                 *)
(*                                                                         *)
(* A grammar file is a record                                              *)
(*   rules        a function from names to rules (GrammarRules)            *)
(*   inline       the set of the names to expand                           *)
(*   extras       a sequence of rules                                      *)
(*   externals    the names of external tokens, a sequence                 *)
(*   precedences  the groups, a sequence of sets of texts                  *)
(*   conflicts    a set of sequences of names                              *)
(***************************************************************************)
EXTENDS TableGen, GrammarRules, Relation

CONSTANT Files   \* the grammar files a call may get

VARIABLES file,    \* grammar_json
          order,   \* the order of grammar_json.rules
          step,    \* the place in compile_grammar
          next,    \* the rule that is next
          rules,   \* inlined_rules
          ctx      \* the context of the compilation

compileVars == <<file, order, step, next, rules, ctx>>
compilerVars == <<compileVars, vars>>

NoFile == [rules |-> <<>>, inline |-> {}, extras |-> <<>>, externals |-> <<>>,
           precedences |-> <<>>, conflicts |-> {}]
NoInput == [kind |-> <<>>, prods |-> <<>>, start |-> 0, groups |-> <<>>, conflicts |-> {},
            extras |-> {}]

\* A call of compile_grammar.
CompileInit ==
  /\ file \in Files
  /\ order \in SetToSeqs(DOMAIN file.rules)
  /\ step = "read"
  /\ next = 1
  /\ rules = <<>>
  /\ ctx = EmptyCtx
  /\ input = NoInput /\ stage = "uncalled"
  /\ nullable = {} /\ first = <<>> /\ sets = <<>> /\ scan = <<1, 0>> /\ rows = <<>>
  /\ split = NoSplit

\* A call of the generator alone.
GenerateInit ==
  /\ Init
  /\ file = NoFile /\ order = <<>> /\ step = "calling" /\ next = 1 /\ rules = <<>> /\ ctx = EmptyCtx

-------------------------------------------------------------------------------

\* A file without rules is answered at once.
ReadFile ==
  /\ step = "read"
  /\ IF \E r \in Range(file.rules) \cup ToSet(file.extras) : ~Readable(r)
     THEN step' = "failed" /\ UNCHANGED rules
     ELSE /\ step' = IF order = <<>> THEN "returned" ELSE IF file.inline = {} THEN "symbols" ELSE "inline"
          /\ rules' = IF file.inline = {} THEN file.rules ELSE rules
  /\ UNCHANGED <<file, order, next, ctx, vars>>

\* Every rule is expanded, the inline ones, too.
ExpandRule ==
  /\ step = "inline"
  /\ LET name == order[next]
         e == Expand(file.rules[name], file.rules, file.inline, 0)
     IN IF e.error # "none"
        THEN step' = "failed" /\ UNCHANGED <<next, rules>>
        ELSE /\ rules' = (name :> e.rule) @@ rules
             /\ next' = IF next = Len(order) THEN 1 ELSE next + 1
             /\ step' = IF next = Len(order) THEN "symbols" ELSE step
  /\ UNCHANGED <<file, order, ctx, vars>>

\* The rules that are compiled, in the order of the map.
Compiling == SelectSeq(order, LAMBDA name : name \notin file.inline)

WithRules(c) == FoldLeft(LAMBDA d, name : WithSymbol(d, Plain(name), "nonterm"), c, Compiling)
WithExternals(c) ==
  FoldLeft(LAMBDA d, name : WithSymbol(d, Plain(name), "extern"), c, file.externals)
Discovered(c, found) ==
  FoldLeft(LAMBDA d, r : Discover(d, r, ToSet(file.externals)), c, found)

\* Nonterminals, external tokens, and the tokens met in the rules and the extras.  The
\* expanded rules are a map of their own, in an order of its own.
CollectSymbols ==
  /\ step = "symbols"
  /\ \E values \in IF file.inline = {} THEN {order} ELSE SetToSeqs(DOMAIN rules) :
       ctx' = Discovered(WithExternals(WithRules(ctx)),
                         [i \in DOMAIN values |-> rules[values[i]]] \o file.extras)
  /\ step' = IF Compiling = <<>> THEN "generate" ELSE "rules"
  /\ UNCHANGED <<file, order, next, rules, vars>>

\* The number of a named precedence is that of the last group that names it.
PrecLevel(alt) ==
  IF alt.type \notin {"PREC", "PREC_LEFT", "PREC_RIGHT"} THEN {}
  ELSE IF alt.named
  THEN LET groups == {i \in DOMAIN file.precedences : alt.value \in file.precedences[i]}
       IN IF groups = {} THEN {} ELSE {Max(groups) - 1}
  ELSE {alt.value}

AssocOf(alt) ==
  CASE alt.type = "PREC_LEFT" -> "left"
    [] alt.type = "PREC_RIGHT" -> "right"
    [] alt.type = "PREC" -> "nonassoc"
    [] OTHER -> "none"

\* The production of an alternative comes after those of the repetitions in it.
WithAlternative(c, lhs, alt) ==
  LET part == CompileAll(c, IF alt.type = "SEQ" THEN alt.members ELSE <<alt>>)
  IN [part.ctx EXCEPT !.prods =
        Append(@, [lhs |-> lhs, rhs |-> part.symbols, fields |-> part.fields,
                   aliases |-> part.aliases, level |-> PrecLevel(alt), assoc |-> AssocOf(alt)])]

CompileRule ==
  /\ step = "rules"
  /\ LET name == Compiling[next]
     IN ctx' = FoldLeft(LAMBDA c, alt : WithAlternative(c, Id(c, Plain(name)), alt),
                        ctx, Alternatives(rules[name]))
  /\ next' = next + 1
  /\ step' = IF next = Len(Compiling) THEN "generate" ELSE step
  /\ UNCHANGED <<file, order, rules, vars>>

-------------------------------------------------------------------------------
(* The arguments of the generator.                                         *)

IdsOf(keys) == {Id(ctx, k) : k \in {key \in keys : Known(ctx, key)}}

\* The first name in the alphabet; symbol 0 if it is an inline rule.
StartId ==
  LET start == Plain(Min(DOMAIN file.rules)) IN IF Known(ctx, start) THEN Id(ctx, start) ELSE 0

\* An extra that is wrapped in anything is none.
ExtraKey(r) ==
  CASE r.type = "STRING" -> {Quoted(r.value)}
    [] r.type = "PATTERN" -> {Slashed(r.value)}
    [] r.type = "SYMBOL" -> {Plain(r.name)}
    [] OTHER -> {}

\* A precedence group names tokens by their text.
Arguments ==
  [kind |-> [a \in 0 .. Len(ctx.symbols) - 1 |-> ctx.symbols[a + 1].kind],
   prods |-> ctx.prods,
   start |-> StartId,
   groups |-> [i \in DOMAIN file.precedences |->
                 IdsOf(UNION {{Quoted(t), Slashed(t)} : t \in file.precedences[i]})],
   conflicts |-> {FlattenSeq([i \in DOMAIN c |-> SetToSeq(IdsOf({Plain(c[i])}))]) :
                    c \in file.conflicts},
   extras |-> IdsOf(UNION {ExtraKey(r) : r \in ToSet(file.extras)})]

\* compile_rules calls the generator.
CallGenerator ==
  /\ step = "generate"
  /\ input' = Arguments
  /\ first' = OwnFirst(input')
  /\ stage' = "nullable"
  /\ step' = "calling"
  /\ UNCHANGED <<file, order, next, rules, ctx, nullable, sets, scan, rows, split>>

CompileNext == ReadFile \/ ExpandRule \/ CollectSymbols \/ CompileRule \/ CallGenerator

CompilerInit == CompileInit \/ GenerateInit
CompilerNext == CompileNext \/ (Next /\ UNCHANGED compileVars)

\* The generator, once called, runs on; nothing is asked of the steps before.
CompilerSpec ==
  CompilerInit /\ [][CompilerNext]_compilerVars /\ WF_vars(Next /\ UNCHANGED compileVars)

-------------------------------------------------------------------------------
(***************************************************************************)
(* The type invariant: no symbol has two ids, every id and every child a   *)
(* production names is there (the code indexes with them), and the         *)
(* generator is called with what it takes for granted.                     *)
(***************************************************************************)
CompilerTypeOK ==
  /\ step \in {"read", "inline", "symbols", "rules", "generate", "calling", "failed", "returned"}
  /\ next \in Nat \ {0}
  /\ DOMAIN rules \subseteq DOMAIN file.rules
  /\ IsInjective([i \in DOMAIN ctx.symbols |-> ctx.symbols[i].key]) /\ IsInjective(ctx.fields)
  /\ \A p \in ToSet(ctx.prods) :
       /\ ctx.symbols[p.lhs + 1].kind = "nonterm"
       /\ \A i \in DOMAIN p.rhs : p.rhs[i] + 1 \in DOMAIN ctx.symbols
       /\ \A m \in ToSet(p.fields) : m.child < Len(p.rhs) /\ m.field < Len(ctx.fields)
       /\ \A m \in ToSet(p.aliases) : m.child < Len(p.rhs) /\ m.alias < Len(ctx.symbols)
  /\ stage # "uncalled" => InputOK(input)

\* Whether a choice is somewhere in rule r.
RECURSIVE HasChoice(_)
HasChoice(r) ==
  CASE r.type = "CHOICE" -> TRUE
    [] r.type = "SEQ" -> \E m \in ToSet(r.members) : HasChoice(m)
    [] r.type \in Holders -> HasChoice(r.content)
    [] OTHER -> FALSE

\* Choices are at the top of rules only, after the inline rules were expanded.
ChoicesOnTop == \A name \in DOMAIN rules : \A alt \in ToSet(Alternatives(rules[name])) : ~HasChoice(alt)

Within(W) == {w \in W : Len(w) <= YieldBound}
Concat(V, W) == Within({v \o w : v \in V, w \in W})

\* Any number of strings of W, one behind the other, from those of V on.
RECURSIVE Repeated(_, _)
Repeated(V, W) == LET U == V \cup Concat(V, W) IN IF U = V THEN V ELSE Repeated(U, W)

\* The strings of rule r, given those of the rules it names.
RECURSIVE Means(_, _)
Means(r, of) ==
  CASE r.type = "STRING" -> {<<Quoted(r.value)>>}
    [] r.type = "PATTERN" -> {<<Slashed(r.value)>>}
    [] r.type = "SYMBOL" ->
         IF r.name \in DOMAIN of THEN of[r.name]
         ELSE {<<IF r.name \in ToSet(file.externals) THEN Plain(r.name) ELSE Quoted(r.name)>>}
    [] r.type = "CHOICE" -> UNION {Means(m, of) : m \in ToSet(r.members)}
    [] r.type = "SEQ" -> FoldLeft(LAMBDA W, m : Concat(W, Means(m, of)), {<<>>}, r.members)
    [] r.type = "REPEAT" -> Repeated({<<>>}, Means(r.content, of))
    [] r.type = "REPEAT1" -> Repeated(Means(r.content, of), Means(r.content, of))
    [] r.type \in Holders -> Means(r.content, of)
    [] OTHER -> {<<>>}

RECURSIVE LeastMeaning(_)
LeastMeaning(of) ==
  LET more == [name \in DOMAIN file.rules |-> Means(file.rules[name], of)]
  IN IF more = of THEN of ELSE LeastMeaning(more)

(***************************************************************************)
(* The productions of a rule derive the strings the rule stands for, with  *)
(* its repetitions, its inline rules and the order of the map whichever:   *)
(* where no choice is below the top of a rule.                             *)
(***************************************************************************)
SameStrings ==
  step = "generate" /\ ChoicesOnTop =>
    LET meant == LeastMeaning([name \in DOMAIN file.rules |-> {}])
        derived == Strings(Arguments)
        text(w) == [i \in DOMAIN w |-> ctx.symbols[w[i] + 1].key]
    IN \A name \in ToSet(Compiling) :
         {text(d[2]) : d \in {e \in derived : e[1] = Id(ctx, Plain(name))}} = meant[name]

\* The children of rule r with the field that is outermost and below no alias, and the
\* aliases, from the outermost on.
RECURSIVE MarkedLeaves(_, _, _)
MarkedLeaves(r, field, aliases) ==
  CASE r.type \in {"STRING", "PATTERN", "SYMBOL", "REPEAT", "REPEAT1"} ->
         <<[field |-> field, aliases |-> aliases]>>
    [] r.type = "SEQ" ->
         FlattenSeq([i \in DOMAIN r.members |-> MarkedLeaves(r.members[i], field, aliases)])
    [] r.type = "FIELD" ->
         MarkedLeaves(r.content, IF field = {} /\ aliases = <<>> THEN {r.name} ELSE field, aliases)
    [] r.type = "ALIAS" -> MarkedLeaves(r.content, field, Append(aliases, r.value))
    [] r.type \in Wrappers -> MarkedLeaves(r.content, field, aliases)
    [] OTHER -> <<>>

MarkedChildren(p) ==
  [i \in DOMAIN p.rhs |->
     [field |-> {ctx.fields[m.field + 1] : m \in {f \in ToSet(p.fields) : f.child = i - 1}},
      aliases |-> LET own == SelectSeq(p.aliases, LAMBDA m : m.child = i - 1)
                  IN [n \in DOMAIN own |-> ctx.symbols[own[n].alias + 1].key[2]]]]

(***************************************************************************)
(* Every alternative has one production, in their order, and a field or    *)
(* alias written around a part of it marks the children of that part and   *)
(* no other, whatever stands before it or is nested in it.                 *)
(***************************************************************************)
MarksFollow ==
  step = "generate" =>
    \A name \in ToSet(Compiling) :
      LET own == SelectSeq(ctx.prods, LAMBDA p : p.lhs = Id(ctx, Plain(name)))
          alts == Alternatives(rules[name])
      IN [n \in DOMAIN own |-> MarkedChildren(own[n])]
           = [n \in DOMAIN alts |-> MarkedLeaves(alts[n], {}, <<>>)]

\* The inline rules that rule r mentions.
RECURSIVE InlineIn(_)
InlineIn(r) ==
  CASE r.type = "SYMBOL" -> {r.name} \cap file.inline
    [] r.type \in Lists -> UNION {InlineIn(m) : m \in ToSet(r.members)}
    [] r.type \in Holders -> InlineIn(r.content)
    [] OTHER -> {}

\* No inline rule is missing or leads back to itself.
Expandable ==
  LET names == DOMAIN file.rules
      mentions == [e \in names \X names |-> e[2] \in InlineIn(file.rules[e[1]])]
  IN /\ \A a \in names : InlineIn(file.rules[a]) \subseteq names
     /\ \A a \in names : ~TransitiveClosure(mentions, names)[a, a]

(***************************************************************************)
(* A file is refused for a part of an unknown type below the top of a      *)
(* rule, and by the counter of levels exactly if its inline rules are      *)
(* missing or lead back to themselves, not because it is only deep, if     *)
(* there are no more inline rules than levels.                             *)
(***************************************************************************)
RefusedRightly ==
  LET written == Range(file.rules) \cup ToSet(file.extras)
      strange == \E r \in written : \E part \in Below(r) : ~Tagged(part)
  IN /\ step = "failed" /\ Cardinality(file.inline) <= MaxDepth => ~Expandable \/ strange
     /\ step = "generate" => Expandable /\ ~strange
=============================================================================
