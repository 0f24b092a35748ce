----------------------------- MODULE GrammarRules -----------------------------
(***************************************************************************)
(* The rules of a grammar file (json_schema::Rule) and what compile.rs     *)
(* does with one of them: expanding inline rules, collecting symbols and   *)
(* flattening the rule into the right-hand side of a production.           *)
(*                                                                         *)
(* A rule is a record: its type, and with it a value (STRING, PATTERN), a  *)
(* name (SYMBOL), members (CHOICE, SEQ), or a content.  Names and texts    *)
(* are numbers; the name of a rule is its rank in alphabetical order.      *)
(***************************************************************************)
EXTENDS Integers, Sequences, SequencesExt, FiniteSetsExt

CONSTANT MaxDepth   \* levels of inline rules in inline rules: 100 in the code

Wrappers == {"PREC", "PREC_LEFT", "PREC_RIGHT", "PREC_DYNAMIC", "TOKEN", "IMMEDIATE_TOKEN", "RESERVED"}
Holders == Wrappers \cup {"FIELD", "ALIAS", "REPEAT", "REPEAT1"}   \* the types that have a content
Lists == {"SEQ", "CHOICE"}
KnownTypes == Holders \cup Lists \cup {"STRING", "PATTERN", "SYMBOL", "BLANK"}

\* The parts of a rule that the deserializer meets below it.
Below(r) ==
  IF r.type \in Lists THEN ToSet(r.members) ELSE IF r.type \in Holders THEN {r.content} ELSE {}

\* RuleTagged: every part has a type that is known.
RECURSIVE Tagged(_)
Tagged(r) == r.type \in KnownTypes /\ \A part \in Below(r) : Tagged(part)

\* A rule of a type that is not known is Rule::Unknown; only below the top it is an error.
Readable(r) == r.type \in KnownTypes => Tagged(r)

-------------------------------------------------------------------------------
(* CompileCtx: the symbols in the order of their ids, from 0 on, each with *)
(* the key it is found by; the field names; the productions.               *)

Plain(name) == <<"name", name>>        \* rules and external tokens
Quoted(text) == <<"string", text>>     \* "text"
Slashed(text) == <<"pattern", text>>   \* /text/

EmptyCtx == [symbols |-> <<>>, fields |-> <<>>, prods |-> <<>>, repeats |-> 0]

Known(ctx, key) == \E i \in DOMAIN ctx.symbols : ctx.symbols[i].key = key
Id(ctx, key) == (CHOOSE i \in DOMAIN ctx.symbols : ctx.symbols[i].key = key) - 1

\* Fault: a symbol that is met again gets another id.
WithSymbolAgain(ctx, key, kind) ==
  [ctx EXCEPT !.symbols = Append(@, [key |-> key, kind |-> kind])]

\* register_nonterminal, get_or_create_string, _pattern and _external.
WithSymbol(ctx, key, kind) ==
  IF Known(ctx, key) THEN ctx
  ELSE [ctx EXCEPT !.symbols = Append(@, [key |-> key, kind |-> kind])]

WithField(ctx, name) ==
  IF name \in ToSet(ctx.fields) THEN ctx ELSE [ctx EXCEPT !.fields = Append(@, name)]
FieldId(ctx, name) == (CHOOSE i \in DOMAIN ctx.fields : ctx.fields[i] = name) - 1

WithProd(ctx, lhs, rhs) ==
  [ctx EXCEPT !.prods = Append(@, [lhs |-> lhs, rhs |-> rhs, fields |-> <<>>, aliases |-> <<>>,
                                   level |-> {}, assoc |-> "none"])]

-------------------------------------------------------------------------------
(* expand_inline: the rule and the error, if one was met.                  *)

Failed(error) == [error |-> error, rule |-> [type |-> "BLANK"]]
Expanded(rule) == [error |-> "none", rule |-> rule]

\* The members of a sequence, the members of its sequences in their place.
Spliced(members) ==
  FlattenSeq([i \in DOMAIN members |->
                IF members[i].type = "SEQ" THEN members[i].members ELSE <<members[i]>>])

\* Fault: the last level is one too many.
TooDeepEarly(depth) == depth >= MaxDepth

TooDeep(depth) == depth > MaxDepth

RECURSIVE Expand(_, _, _, _)

\* Member by member, up to the first error.
ExpandAll(members, rules, inline, depth) ==
  FoldLeft(LAMBDA acc, m :
             IF acc.error # "none" THEN acc
             ELSE LET e == Expand(m, rules, inline, depth)
                  IN [error |-> e.error, members |-> Append(acc.members, e.rule)],
           [error |-> "none", members |-> <<>>], members)

Expand(r, rules, inline, depth) ==
  IF TooDeep(depth) THEN Failed("cyclic")
  ELSE IF r.type = "SYMBOL" /\ r.name \in inline
  THEN IF r.name \in DOMAIN rules THEN Expand(rules[r.name], rules, inline, depth + 1)
       ELSE Failed("missing")
  ELSE IF r.type \in Lists
  THEN LET all == ExpandAll(r.members, rules, inline, depth)
           members == IF r.type = "SEQ" THEN Spliced(all.members) ELSE all.members
       IN IF all.error # "none" THEN Failed(all.error)
          ELSE Expanded(IF r.type = "SEQ" /\ Len(members) = 1 THEN members[1]
                        ELSE [r EXCEPT !.members = members])
  ELSE IF r.type \in Holders
  THEN LET e == Expand(r.content, rules, inline, depth)
       IN IF e.error # "none" THEN e ELSE Expanded([r EXCEPT !.content = e.rule])
  ELSE Expanded(r)

-------------------------------------------------------------------------------
(* discover_symbols.  A name that is no rule and no external token becomes *)
(* a token of that text.                                                   *)

RECURSIVE Discover(_, _, _)

Discover(ctx, r, externals) ==
  CASE r.type = "STRING" -> WithSymbol(ctx, Quoted(r.value), "term")
    [] r.type = "PATTERN" -> WithSymbol(ctx, Slashed(r.value), "term")
    [] r.type = "SYMBOL" ->
         IF Known(ctx, Plain(r.name)) \/ r.name \in externals THEN ctx
         ELSE WithSymbol(ctx, Quoted(r.name), "term")
    [] r.type \in Lists -> FoldLeft(LAMBDA c, m : Discover(c, m, externals), ctx, r.members)
    [] r.type \in Holders -> Discover(ctx, r.content, externals)
    [] OTHER -> ctx

-------------------------------------------------------------------------------
(* compile_single: the context after it, the symbols of the right-hand     *)
(* side, and which child has which field and alias, children from 0 on.    *)

Part(ctx, symbols) == [ctx |-> ctx, symbols |-> symbols, fields |-> <<>>, aliases |-> <<>>]
PartOf(ctx, key) == Part(ctx, <<Id(ctx, key)>>)

\* Fault: the indices of a part are not moved behind what is before it.
JoinedUnmoved(a, b) ==
  [ctx |-> b.ctx, symbols |-> a.symbols \o b.symbols,
   fields |-> a.fields \o b.fields, aliases |-> a.aliases \o b.aliases]

\* Part b behind part a.
Joined(a, b) ==
  LET moved(marks) == [i \in DOMAIN marks |-> [marks[i] EXCEPT !.child = @ + Len(a.symbols)]]
  IN [ctx |-> b.ctx, symbols |-> a.symbols \o b.symbols,
      fields |-> a.fields \o moved(b.fields), aliases |-> a.aliases \o moved(b.aliases)]

\* flatten_choice: the alternatives at the top of a rule.
Alternatives(r) == IF r.type = "CHOICE" THEN r.members ELSE <<r>>

\* Fault: a repetition ends with its content once, never with nothing.
RepeatedOnce(ctx, id, symbols) ==
  WithProd(WithProd(ctx, id, Append(symbols, id)), id, symbols)

\* The productions of a repetition, with a nonterminal of its own.
RepeatedAny(ctx, id, symbols) ==
  WithProd(WithProd(ctx, id, Append(symbols, id)), id, <<>>)
RepeatedSome(ctx, id, symbols) ==
  WithProd(WithProd(ctx, id, symbols), id, Append(symbols, id))

RECURSIVE CompileOne(_, _)

CompileAll(ctx, rules) ==
  FoldLeft(LAMBDA acc, r : Joined(acc, CompileOne(acc.ctx, r)), Part(ctx, <<>>), rules)

\* The alternatives of the content are taken for a sequence; its marks are dropped.
CompileRepeat(ctx, r) ==
  LET key == <<r.type, ctx.repeats>>
      own == WithSymbol([ctx EXCEPT !.repeats = @ + 1], key, "nonterm")
      id == Id(own, key)
      sub == CompileAll(own, Alternatives(r.content))
  IN Part(IF r.type = "REPEAT" THEN RepeatedAny(sub.ctx, id, sub.symbols)
          ELSE RepeatedSome(sub.ctx, id, sub.symbols),
          <<id>>)

\* Every symbol of the content gets the mark of the field; the fields inside are dropped.
CompileField(ctx, r) ==
  LET own == WithField(ctx, r.name)
      sub == CompileOne(own, r.content)
  IN [sub EXCEPT !.fields = [i \in DOMAIN sub.symbols |->
                               [child |-> i - 1, field |-> FieldId(own, r.name)]]]

\* As for a field; the alias is a token, and the fields inside are dropped.
CompileAlias(ctx, r) ==
  LET own == WithSymbol(ctx, Quoted(r.value), "term")
      sub == CompileOne(own, r.content)
  IN [sub EXCEPT !.fields = <<>>,
                 !.aliases = [i \in DOMAIN sub.symbols |->
                                [child |-> i - 1, alias |-> Id(own, Quoted(r.value))]] \o @]

\* A choice below the top of a rule leaves nothing behind, nor does an unknown type.
CompileOne(ctx, r) ==
  CASE r.type = "SEQ" -> CompileAll(ctx, r.members)
    [] r.type = "STRING" ->
         PartOf(WithSymbol(ctx, Quoted(r.value), "term"), Quoted(r.value))
    [] r.type = "PATTERN" ->
         PartOf(WithSymbol(ctx, Slashed(r.value), "term"), Slashed(r.value))
    [] r.type = "SYMBOL" ->
         IF Known(ctx, Plain(r.name)) THEN PartOf(ctx, Plain(r.name))
         ELSE PartOf(WithSymbol(ctx, Quoted(r.name), "term"), Quoted(r.name))
    [] r.type \in {"REPEAT", "REPEAT1"} -> CompileRepeat(ctx, r)
    [] r.type = "FIELD" -> CompileField(ctx, r)
    [] r.type = "ALIAS" -> CompileAlias(ctx, r)
    [] r.type \in Wrappers -> CompileOne(ctx, r.content)
    [] OTHER -> Part(ctx, <<>>)
=============================================================================
