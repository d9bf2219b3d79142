------------------------------ MODULE MCRoundTrip ------------------------------
(* RoundTrip on every small plan that comes back, and on those that need   *)
(* not, which the converter prints as well.                                *)
EXTENDS RoundTrip, MCPlans, TLC

MCNumbered(base, n) == base \o ToString(n)

\* Every kind of relation, with or without root names; several subqueries in
\* one relation, and joins; every kind of subquery.
ReturningPlans ==
  PlansOver(PlainShapes, 4, 1, {"root"}, {<< >>, <<"n">>})
    \union PlansOver(SubqueryShapes, 6, 1, {"root"}, {<<"n">>})
    \union PlansOver(AllSubqueries, 5, 1, {"root"}, {<<"n">>})

\* Every kind of subquery, with others on the left of a comparison, in plans
\* of one or two roots or plain relations.
ConverterShapes ==
  {Rel("read", 0, 0), Rel("read", 1, 0), Rel("filter", 1, 1),
   Rel("project", 2, 1), Rel("join", 1, 2), Rel("set", 0, 2),
   Argument("scalar", 0), Argument("inPredicate", 0), Alone("setPredicate", 0),
   Alone("setComparison", 0), Alone("setComparison", 1)}

ConverterPlans ==
  PlansOver(ConverterShapes, 6, 2, {"root", "rel"}, {<< >>, <<"n">>})

AllPlans == ReturningPlans \union ConverterPlans

NestedPlans == PlansOver(ComparisonShapes, 6, 1, {"root"}, {<<"n">>})
=============================================================================
