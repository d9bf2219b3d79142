------------------------------- MODULE ProtoPlan -------------------------------
(***************************************************************************)
(* A Substrait plan as the visitors of the converter see it, and the order *)
(* in which they see it.                                                   *)
(*                                                                         *)
(* A message of the plan is known by its address, and so are the symbols   *)
(* defined for it: a plan is a sequence "node" of messages addressed by    *)
(* their position, and a sequence "roots" of its PlanRel messages.  Nodes  *)
(* are relations and subquery expressions.  Of an expression only the      *)
(* subqueries in it are kept, in document order: "exprs" are those in the  *)
(* expressions of a relation, in the needles of an IN, or on the left of   *)
(* an ANY / ALL comparison; "inputs" are the relations below.  "argument"  *)
(* says whether a subquery is, or is inside, the argument of a function.   *)
(***************************************************************************)
EXTENDS Naturals, Sequences, SequencesExt

UnaryKinds    == {"filter", "fetch", "aggregate", "sort", "project"}
BinaryKinds   == {"join", "cross"}
RelationKinds == {"read", "set"} \union UnaryKinds \union BinaryKinds
SubqueryKinds == {"scalar", "inPredicate", "setPredicate", "setComparison"}

\* The kinds whose messages have expressions.
ExpressionKinds == {"read", "filter", "aggregate", "sort", "project", "join"}

\* PlanPrinterVisitor overrides the visit of these and of no other kind.
PrintableKinds == RelationKinds \ {"set"}

IsSequence(s) == s \in Seq(ToSet(s))

Indexes(s) == [i \in DOMAIN s |-> i]

(***************************************************************************)
(* The value of a plan: what EqualsProto compares.  All a message says     *)
(* besides what is below it is known by the node it came from, its body.   *)
(***************************************************************************)
NoTree == [body |-> 0, kind |-> "none", exprs |-> << >>, inputs |-> << >>]

Tree(plan) ==
  LET tree[n \in DOMAIN plan.node] ==
        [ body   |-> n,
          kind   |-> plan.node[n].kind,
          exprs  |-> [i \in DOMAIN plan.node[n].exprs |-> tree[plan.node[n].exprs[i]]],
          inputs |-> [i \in DOMAIN plan.node[n].inputs |-> tree[plan.node[n].inputs[i]]] ]
  IN [r \in DOMAIN plan.roots |->
        [ kind  |-> plan.roots[r].kind,
          top   |-> tree[plan.roots[r].input],
          names |-> plan.roots[r].names ]]

(***************************************************************************)
(* BasePlanProtoVisitor: what a visit of a message goes on to, in order.   *)
(***************************************************************************)

\* These visit their input after their expressions, the others before.
ExpressionsFirst == {"read", "filter", "fetch", "aggregate", "sort"}

\* visitSubqueryInPredicate visits the haystack and no needle.
VisitedExpressions(n) == IF n.kind = "inPredicate" THEN << >> ELSE n.exprs

Inside(plan, n) ==
  LET node == plan.node[n]
  IN IF node.kind \in SubqueryKinds \union ExpressionsFirst
     THEN VisitedExpressions(node) \o node.inputs
     ELSE node.inputs \o VisitedExpressions(node)

\* A visit method of the plan, a PlanRel, a relation or a subquery, how many of
\* what is inside it have been visited, and the scope it was called in.
Call(what, node, outer) == [what |-> what, node |-> node, visited |-> 0, outer |-> outer]

VisitedBy(plan, call) ==
  CASE call.what = "plan"         -> Indexes(plan.roots)
    [] call.what = "planRelation" -> <<plan.roots[call.node].input>>
    [] OTHER                      -> Inside(plan, call.node)

WhatBelow(plan, call, node) ==
  IF call.what = "plan" THEN "planRelation"
  ELSE IF plan.node[node].kind \in SubqueryKinds THEN "subquery"
  ELSE "relation"

(***************************************************************************)
(* What every plan is: trees of relations and subqueries below its roots.  *)
(***************************************************************************)
IsMessage(plan, n) ==
  LET node == plan.node[n]
  IN /\ node.kind \in RelationKinds \union SubqueryKinds
     /\ IsSequence(node.exprs) /\ IsSequence(node.inputs)
     /\ \A e \in ToSet(node.exprs) :
          e \in DOMAIN plan.node /\ plan.node[e].kind \in SubqueryKinds
     /\ \A i \in ToSet(node.inputs) :
          i \in DOMAIN plan.node /\ plan.node[i].kind \in RelationKinds
     /\ node.kind \in SubqueryKinds \union UnaryKinds => Len(node.inputs) = 1

\* The nodes a visit of the plan comes to are the first ones, up to this.
LastVisited(plan) == IF plan.roots = << >> THEN 0 ELSE plan.roots[Len(plan.roots)].input

RootInputs(plan) == {plan.roots[r].input : r \in DOMAIN plan.roots}

\* A node is a root or inside one other node, ...
HaveOnePlace(plan) ==
  \A n \in 1..LastVisited(plan) :
    /\ n \in RootInputs(plan)
         <=> \A m \in 1..LastVisited(plan) : n \notin ToSet(Inside(plan, m))
    /\ \A m \in ToSet(Inside(plan, n)) :
         \A k \in 1..LastVisited(plan) : m \in ToSet(Inside(plan, k)) => k = n

\* ... and numbered in the order in which a visit leaves them: after what is
\* inside it, which comes in the order of the visit, with nothing in between
\* that is outside.
NumberedAsLeft(plan) ==
  /\ \A r, q \in DOMAIN plan.roots : r < q => plan.roots[r].input < plan.roots[q].input
  /\ \A n \in 1..LastVisited(plan) : \A i \in DOMAIN Inside(plan, n) :
       /\ Inside(plan, n)[i] \in 1..(n - 1)
       /\ \A j \in DOMAIN Inside(plan, n) : i < j => Inside(plan, n)[i] < Inside(plan, n)[j]
       /\ \A m \in (Inside(plan, n)[i] + 1)..(n - 1) :
            \E k \in 1..n : m \in ToSet(Inside(plan, k))

IsPlan(plan) ==
  /\ IsSequence(plan.node) /\ IsSequence(plan.roots)
  /\ \A n \in DOMAIN plan.node : IsMessage(plan, n)
  /\ \A i \in RootInputs(plan) :
       i \in DOMAIN plan.node /\ plan.node[i].kind \in RelationKinds
  /\ HaveOnePlace(plan)
  /\ NumberedAsLeft(plan)

(***************************************************************************)
(* The order in which the printer and the plan builder meet the subqueries *)
(* of a relation: those inside a subquery's own expressions before it.     *)
(***************************************************************************)
SubqueriesInside(plan, exprs) ==
  LET uses[n \in DOMAIN plan.node] ==
        FlattenSeq([i \in DOMAIN plan.node[n].exprs |-> uses[plan.node[n].exprs[i]]]) \o <<n>>
  IN FlattenSeq([i \in DOMAIN exprs |-> uses[exprs[i]]])

Subqueries(plan, n) == SubqueriesInside(plan, plan.node[n].exprs)
=============================================================================
