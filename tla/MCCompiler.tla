------------------------------ MODULE MCCompiler ------------------------------
(***************************************************************************)
(* The grammar files on which the compiler is model-checked, with the      *)
(* table generator behind it.                                              *)
(***************************************************************************)
EXTENDS GrammarCompiler, MCTableGen

Str(text) == [type |-> "STRING", value |-> text]
Pat(text) == [type |-> "PATTERN", value |-> text]
Sym(name) == [type |-> "SYMBOL", name |-> name]
Blank == [type |-> "BLANK"]
Series(members) == [type |-> "SEQ", members |-> members]
Either(members) == [type |-> "CHOICE", members |-> members]
Holder(type, content) == [type |-> type, content |-> content]
Repeat(content) == Holder("REPEAT", content)
Repeat1(content) == Holder("REPEAT1", content)
FieldOf(name, content) == [type |-> "FIELD", name |-> name, content |-> content]
AliasOf(value, content) == [type |-> "ALIAS", value |-> value, content |-> content]
PrecOf(type, named, value, content) ==
  [type |-> type, named |-> named, value |-> value, content |-> content]

File(rs) == [NoFile EXCEPT !.rules = rs]
Inlining(f, names) == [f EXCEPT !.inline = names]

\* Bodies of a rule 1 that names a rule 2, with repetitions, marks, wrappers and blanks.
Bodies ==
  {Series(<<Str(11), Sym(2)>>),
   Either(<<Series(<<Sym(2), Str(11)>>), Blank, Sym(2)>>),
   Repeat(Sym(2)),
   Series(<<Repeat1(Sym(2)), Str(11)>>),
   Repeat(Series(<<Repeat1(Sym(2)), Str(11)>>)),
   Series(<<Str(11), FieldOf(5, Sym(2)), FieldOf(6, Repeat(Sym(2)))>>),
   Series(<<Str(11), FieldOf(5, Series(<<AliasOf(13, Sym(2)), FieldOf(6, Sym(2))>>))>>),
   Series(<<AliasOf(13, Series(<<FieldOf(5, Sym(2)), AliasOf(14, Str(12))>>)), Sym(2)>>),
   Either(<<Series(<<Holder("TOKEN", Series(<<Str(11), Pat(11)>>)), FieldOf(5, Sym(2))>>),
              Holder("IMMEDIATE_TOKEN", Sym(2))>>),
   Series(<<Sym(2), Sym(9), Series(<<FieldOf(5, Sym(2)), Blank>>)>>)}

Atoms == {Str(12), Either(<<Str(12), Pat(11)>>), Either(<<Blank, Series(<<Str(12), Sym(2)>>)>>)}

Pairs == {File((1 :> b) @@ (2 :> a)) : b \in Bodies, a \in Atoms}

\* Inline rules: one, one in another, the start, one that is missing, cycles.
InlineBodies == {b \in Bodies : b.type = "SEQ"}
InlineFiles ==
  {Inlining(File((1 :> b) @@ (2 :> a)), {2}) :
     b \in InlineBodies, a \in {Str(12), Series(<<Str(12), Pat(11)>>)}}
    \cup {Inlining(File((1 :> Series(<<Sym(2), Str(11)>>)) @@ (2 :> r) @@ (3 :> q)), {2, 3}) :
            r \in {Sym(3), Series(<<Sym(3), Sym(3)>>)},
            q \in {Str(12), Series(<<Str(12), Str(13)>>), Sym(2), Either(<<Str(12), Sym(1)>>)}}
    \cup {Inlining(File((1 :> Str(11)) @@ (2 :> Series(<<Str(12), Sym(1)>>))), {1}),
          Inlining(File((1 :> Series(<<Sym(1), Str(11)>>)) @@ (2 :> Str(12))), {1}),
          Inlining(File((1 :> Sym(2)) @@ (2 :> Either(<<Str(11), Str(12)>>))), {2}),
          Inlining(File(1 :> Either(<<Str(11), FieldOf(5, Sym(7))>>)), {7})}

\* Ranked alternatives, by name and number, with a declared conflict.
Ranked2(type, named, value) ==
  [File((1 :> Either(<<PrecOf(type, named, value, Series(<<Sym(1), Str(11), Sym(1)>>)),
                         Holder("PREC_DYNAMIC", Sym(2))>>)) @@ (2 :> Str(12)))
     EXCEPT !.precedences = <<{8}, {11}, {8, 7}>>, !.conflicts = {<<1, 2>>}]
RankedFiles ==
  {Ranked2(type, named, value) :
     type \in {"PREC", "PREC_LEFT", "PREC_RIGHT"}, named \in {TRUE}, value \in {7, 9, 11}}
    \cup {Ranked2(type, FALSE, value) : type \in {"PREC_LEFT", "PREC_RIGHT"}, value \in {0, 1}}

\* Extras and external tokens; a choice below the top; types that are not known.
Strange == [type |-> "GUESS"]
OtherFiles ==
  {NoFile,
   File((1 :> Either(<<Sym(2), Str(11)>>)) @@ (2 :> Strange)),
   File(1 :> Series(<<Str(11), FieldOf(5, Strange)>>)),
   [File(1 :> Repeat(Str(11))) EXCEPT !.extras = <<Strange, Repeat1(Strange)>>],
   [File((1 :> Series(<<Sym(21), Sym(2)>>)) @@ (2 :> Repeat1(Str(12))))
      EXCEPT !.externals = <<21>>,
             !.extras = <<Pat(15), Holder("TOKEN", Str(16)), Sym(2), Sym(30)>>],
   File((1 :> Series(<<Str(11), Either(<<Sym(2), Blank>>)>>)) @@ (2 :> Str(12)))}

MCFiles == Pairs \cup InlineFiles \cup RankedFiles \cup OtherFiles
=============================================================================
