-------------------------------- MODULE MCPlans --------------------------------
(***************************************************************************)
(* All plans of at most so many messages, put together like an expression  *)
(* in reverse Polish notation: a shape [kind, argument, exprs, inputs],    *)
(* with the numbers of its subqueries and inputs, takes what is below it   *)
(* from a stack and leaves its own node there.                             *)
(***************************************************************************)
EXTENDS ProtoPlan, FiniteSets

LOCAL IsSubquery(partial, n) == partial.node[n].kind \in SubqueryKinds

\* What is visited last lies on top.
LOCAL Take(partial, shape) ==
  LET size   == Len(partial.stack)
      rest   == size - shape.exprs - shape.inputs
      above  == SubSeq(partial.stack, rest + 1, size)
      first  == shape.kind \in SubqueryKinds \union ExpressionsFirst
      exprs  == IF first THEN SubSeq(above, 1, shape.exprs)
                ELSE SubSeq(above, shape.inputs + 1, Len(above))
      inputs == IF first THEN SubSeq(above, shape.exprs + 1, Len(above))
                ELSE SubSeq(above, 1, shape.inputs)
      fits   == /\ rest >= 0
                /\ \A i \in DOMAIN exprs : IsSubquery(partial, exprs[i])
                /\ \A i \in DOMAIN inputs : ~IsSubquery(partial, inputs[i])
  IN IF ~fits
     THEN {}
     ELSE {[ node  |-> Append(partial.node,
                         [shape EXCEPT !.exprs = exprs, !.inputs = inputs]),
             stack |-> Append(SubSeq(partial.stack, 1, rest), Len(partial.node) + 1) ]}

\* A shape takes at most three nodes and leaves one: a stack that is too
\* high for the nodes left never comes down.
RECURSIVE Grow(_, _, _)
Grow(shapes, n, height) ==
  IF n = 0
  THEN {[node |-> << >>, stack |-> << >>]}
  ELSE LET smaller == Grow(shapes, n - 1, height + 2)
           larger  == UNION {UNION {Take(partial, shape) : shape \in shapes} :
                               partial \in smaller}
       IN {p \in larger : Len(p.stack) <= height}

LOCAL Complete(partial) ==
  \A i \in DOMAIN partial.stack : ~IsSubquery(partial, partial.stack[i])

LOCAL RootsOf(partial, kinds, lists) ==
  {[r \in DOMAIN partial.stack |->
      [kind |-> k[r], input |-> partial.stack[r],
       names |-> IF k[r] = "root" THEN names[r] ELSE << >>]] :
     k \in [DOMAIN partial.stack -> kinds],
     names \in [DOMAIN partial.stack -> lists]}

\* The plans of these shapes, with at most so many nodes and roots, roots of
\* these kinds with these lists of names.
PlansOver(shapes, maxNodes, maxRoots, kinds, lists) ==
  UNION { {[node |-> p.node, roots |-> roots] : roots \in RootsOf(p, kinds, lists)} :
            p \in {q \in UNION {Grow(shapes, n, maxRoots) : n \in 1..maxNodes} :
                     Complete(q)} }

-----------------------------------------------------------------------------
(* The shapes the plans to check are made of.                              *)

Rel(kind, exprs, inputs) ==
  [kind |-> kind, argument |-> FALSE, exprs |-> exprs, inputs |-> inputs]

\* A subquery in the argument of a function, and one that stands alone.
Argument(kind, exprs) ==
  [kind |-> kind, argument |-> TRUE, exprs |-> exprs, inputs |-> 1]

Alone(kind, exprs) ==
  [kind |-> kind, argument |-> FALSE, exprs |-> exprs, inputs |-> 1]

\* Every kind of relation, without subqueries.
PlainShapes ==
  {Rel("read", 0, 0)}
    \union {Rel(kind, 0, 1) : kind \in UnaryKinds}
    \union {Rel(kind, 0, 2) : kind \in BinaryKinds}

\* Relations with subqueries in the places that come back.
SubqueryShapes ==
  {Rel("read", 0, 0), Rel("join", 0, 2), Rel("join", 1, 2),
   Rel("filter", 0, 1), Rel("filter", 1, 1), Rel("filter", 2, 1),
   Rel("project", 1, 1),
   Argument("scalar", 0), Alone("setComparison", 0)}

AllSubqueries ==
  {Rel("read", 0, 0), Rel("filter", 1, 1), Rel("aggregate", 1, 1),
   Rel("sort", 1, 1), Alone("setComparison", 0)}
    \union {Argument(kind, 0) : kind \in SubqueryKinds}

\* A subquery inside the left side of an ANY / ALL comparison.
ComparisonShapes ==
  {Rel("read", 0, 0), Rel("filter", 1, 1), Argument("scalar", 0),
   Alone("setComparison", 1)}
=============================================================================
