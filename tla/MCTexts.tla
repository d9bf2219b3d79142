-------------------------------- MODULE MCTexts --------------------------------
(***************************************************************************)
(* TextToBinary on texts a person could write, which no plan prints.       *)
(***************************************************************************)
EXTENDS TextToBinary, TLC

MCNumbered(base, n) == base \o ToString(n)

Section(name, kind, body) ==
  [name |-> name, kind |-> kind, body |-> body, exprs |-> << >>, uses |-> << >>]

\* A section with a subquery on a relation in the argument of a function.
SectionUsing(name, kind, body, relation) ==
  [ Section(name, kind, body) EXCEPT
    !.exprs = <<1>>,
    !.uses  = <<[kind |-> "scalar", argument |-> TRUE, body |-> body + 100,
                 exprs |-> << >>, relation |-> relation]>> ]

Text(pipelines, relations, roots) ==
  [pipelines |-> pipelines, relations |-> relations, roots |-> roots]

Read   == Section("a", "read", 1)
Filter == Section("f", "filter", 2)
Sort   == Section("g", "sort", 3)
Join   == Section("j", "join", 4)

\* Every line of two or three names, and every text of two such lines.
LinesOver(names) == [1..2 -> names] \union [1..3 -> names]

TwoLines ==
  {Text(lines, <<Read, Filter>>, <<<<"n">>>>) :
     lines \in [1..2 -> LinesOver({"a", "f", "g", "root"})]}

\* Every text of three lines with the same three names.
ThreeLines ==
  {Text(lines, <<Filter, Sort>>, << >>) :
     lines \in [1..3 -> {line \in [1..3 -> {"f", "g", "x"}] : IsInjective(line)}]}

\* Every text of three arrows, a join in it.
ThreeArrows ==
  {Text(lines, <<Read, Join>>, << >>) :
     lines \in [1..3 -> [1..2 -> {"a", "j", "root"}]]}

\* Sections that are missing, defined twice, or named by a subquery.
Sections ==
  {Text(<<line>>, <<first, second>>, roots) :
     line   \in {<<"a", "root">>, <<"a", "f", "root">>, <<"x", "f", "root">>},
     first  \in {Read, Section("root", "read", 1)},
     second \in {Read, Filter, SectionUsing("f", "filter", 2, "a"),
                 SectionUsing("f", "filter", 2, "x"),
                 SectionUsing("f", "filter", 2, "f")},
     roots  \in {<< >>, <<<<"n">>>>, <<<<"n">>, <<"n">>>>}}

HandWritten == TwoLines \union ThreeLines \union ThreeArrows \union Sections

\* Texts of two filters and arrows that can run in a circle.
Circles ==
  {Text(lines, <<Filter, Sort>>, << >>) :
     lines \in [1..3 -> [1..2 -> {"f", "g", "root"}]]}
=============================================================================
