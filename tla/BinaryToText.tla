----------------------------- MODULE BinaryToText -----------------------------
(***************************************************************************)
(* From a plan message to the relations of a text plan: the two passes     *)
(* that fill the symbol table (InitialPlanProtoVisitor, PipelineVisitor)   *)
(* and the printing of the pipelines, relation and root sections           *)
(* (SymbolTablePrinter, PlanPrinterVisitor).                               *)
(*                                                                         *)
(* One action for each end of a visit method that has an effect, and for   *)
(* its both ends if it has others inside.  data[s] is the blob of symbol s. *)
(***************************************************************************)
EXTENDS ProtoPlan, SymbolTable

CONSTANT Plans   \* the plans to convert

ASSUME PlansAssumption == \A p \in Plans : IsPlan(p)

VARIABLES
  plan,     \* the message being converted
  pass,     \* "initial", "pipelines", "print", "relations", "roots", "printed"
  visits,   \* the visit methods being run, the innermost last
  scope,    \* currentRelationScope_
  table,
  data,
  agenda,   \* the symbols still to print
  text,
  errors

converterVars == <<plan, pass, visits, scope, table, data, agenda, text, errors>>

\* PROTO_LOCATION of a message of the plan, of the reduced copy of a relation
\* the symbol table keeps, of a PlanRel and of its RelRoot.
Original(n)         == <<"original", n>>
Copy(n)             == <<"copy", n>>
PlanRelLocation(r)  == <<"planRel", r>>
RelRootLocation(r)  == <<"relRoot", r>>

ASSUME LocationsAssumption ==
  \A p \in Plans : \A n \in DOMAIN p.node : UnknownLocation # Original(n)

RelationData(n) ==
  [ pipelineStart      |-> NoSymbol,
    continuingPipeline |-> NoSymbol,
    newPipelines       |-> << >>,
    subQueryPipelines  |-> << >>,
    relation           |-> n,        \* the node copied, 0 for a PlanRel
    names              |-> << >> ]   \* the blob of a root is a list of names

NamesData(names) == [RelationData(0) EXCEPT !.names = names]

NoRelation == 0

EmptyText == [pipelines |-> << >>, relations |-> << >>, roots |-> << >>]

\* A pass calls visitPlan.
VisitPlan == <<Call("plan", 0, NoRelation)>>

ConverterInit ==
  /\ plan \in Plans
  /\ pass = "initial"
  /\ visits = VisitPlan
  /\ scope = NoRelation
  /\ table = EmptyTable
  /\ data = << >>
  /\ agenda = << >>
  /\ text = EmptyText
  /\ errors = {}

Caller   == Last(visits)
HasMore  == Caller.visited < Len(VisitedBy(plan, Caller))
NextNode == VisitedBy(plan, Caller)[Caller.visited + 1]

NextWhat == WhatBelow(plan, Caller, NextNode)

\* The next visit method is called, or the innermost one returns.
Enter(p, what) ==
  /\ pass = p /\ HasMore /\ NextWhat = what
  /\ visits' = Append([visits EXCEPT ![Len(visits)].visited = @ + 1],
                      Call(what, NextNode, scope))
  /\ UNCHANGED <<plan, pass, agenda, text, errors>>

Leave(p, what) ==
  /\ pass = p /\ ~HasMore /\ Caller.what = what
  /\ visits' = Front(visits)
  /\ UNCHANGED <<plan, pass, agenda, text, errors>>

This == Caller.node

\* Neither pass does anything before it visits what is inside a subquery.
EnterSubquery ==
  /\ \E p \in {"initial", "pipelines"} : Enter(p, "subquery")
  /\ UNCHANGED <<scope, table, data>>

RelationSymbol(location) == LookupSymbolByLocationAndType(table, location, "relation")

-----------------------------------------------------------------------------
(* InitialPlanProtoVisitor: a symbol for every relation and root.          *)

InitialVisitRelationRoot ==
  /\ Enter("initial", "planRelation")
  /\ plan.roots[NextNode].kind = "root"
  /\ table' = DefineUniqueSymbol(table, "root.names", RelRootLocation(NextNode), "root")
  /\ data' = Append(data, NamesData(plan.roots[NextNode].names))
  /\ UNCHANGED scope

InitialEnterPlanRelation ==
  /\ Enter("initial", "planRelation")
  /\ plan.roots[NextNode].kind # "root"
  /\ UNCHANGED <<scope, table, data>>

InitialEnterRelation ==
  /\ Enter("initial", "relation")
  /\ scope' = NextNode
  /\ UNCHANGED <<table, data>>

\* Variant: the scope is not reset.
InitialVisitRelationStays ==
  /\ Leave("initial", "relation")
  /\ LET defined == DefineUniqueSymbol(table, plan.node[This].kind,
                                       Original(This), "relation")
     IN table' = AddPermanentLocation(defined, Last(defined.symbols), Copy(This))
  /\ data' = Append(data, RelationData(This))
  /\ UNCHANGED scope

\* The symbol is defined once everything below the relation has been visited.
InitialVisitRelation ==
  /\ Leave("initial", "relation")
  /\ LET defined == DefineUniqueSymbol(table, plan.node[This].kind,
                                       Original(This), "relation")
     IN table' = AddPermanentLocation(defined, Last(defined.symbols), Copy(This))
  /\ data' = Append(data, RelationData(This))
  /\ scope' = Caller.outer

InitialVisitSubquery ==
  /\ Leave("initial", "subquery")
  /\ LET symbol == RelationSymbol(Original(plan.node[This].inputs[1]))
     IN table' = SetParentQueryLocation(table, table.symbols[symbol], Original(scope))
  /\ UNCHANGED <<scope, data>>

InitialVisitPlanRelation ==
  /\ Leave("initial", "planRelation")
  /\ table' = DefineUniqueSymbol(table, plan.roots[This].kind,
                                 PlanRelLocation(This), "planRelation")
  /\ data' = Append(data, RelationData(0))
  /\ UNCHANGED scope

PlanVisited(p) == pass = p /\ ~HasMore /\ Caller.what = "plan"

BeginPipelines ==
  /\ PlanVisited("initial")
  /\ pass' = "pipelines"
  /\ visits' = VisitPlan
  /\ UNCHANGED <<plan, scope, table, data, agenda, text, errors>>

-----------------------------------------------------------------------------
(* PipelineVisitor: the links between the symbols.                         *)

\* The symbols from s on along continuingPipeline (pipelineToPath).
Path(s) ==
  LET path[i \in DOMAIN data] ==
        IF data[i].continuingPipeline = NoSymbol
        THEN <<i>>
        ELSE <<i>> \o path[data[i].continuingPipeline]
  IN path[s]

LinkPlanRelation ==
  /\ Enter("pipelines", "planRelation")
  /\ LET symbol == Head(LookupSymbolsByLocation(table, PlanRelLocation(NextNode)))
         input  == RelationSymbol(Original(plan.roots[NextNode].input))
     IN data' = [data EXCEPT ![symbol].newPipelines = Append(@, input)]
  /\ UNCHANGED <<scope, table>>

LeavePlanRelation ==
  /\ Leave("pipelines", "planRelation")
  /\ UNCHANGED <<scope, table, data>>

LinkRelation ==
  /\ Enter("pipelines", "relation")
  /\ LET symbol == RelationSymbol(Original(NextNode))
         node   == plan.node[NextNode]
         inputs == [i \in DOMAIN node.inputs |-> RelationSymbol(Original(node.inputs[i]))]
     IN data' = [data EXCEPT
          ![symbol].continuingPipeline = IF node.kind \in UnaryKinds THEN inputs[1] ELSE @,
          ![symbol].newPipelines = IF node.kind \in UnaryKinds THEN @ ELSE @ \o inputs]
  /\ scope' = NextNode
  /\ UNCHANGED table

LeaveRelation ==
  /\ Leave("pipelines", "relation")
  /\ scope' = Caller.outer
  /\ UNCHANGED <<table, data>>

\* The subquery becomes one of the relation around it, and the start of
\* everything that continues its own pipeline.
LinkSubquery ==
  /\ Leave("pipelines", "subquery")
  /\ LET symbol  == RelationSymbol(Original(plan.node[This].inputs[1]))
         outer   == RelationSymbol(Original(scope))
         started == ToSet(Path(symbol))
     IN data' = [s \in DOMAIN data |->
          [data[s] EXCEPT
             !.subQueryPipelines = IF s = outer THEN Append(@, symbol) ELSE @,
             !.pipelineStart     = IF s \in started THEN symbol ELSE @]]
  /\ UNCHANGED <<scope, table>>

BeginPrint ==
  /\ PlanVisited("pipelines")
  /\ pass' = "print"
  /\ visits' = << >>
  /\ UNCHANGED <<plan, scope, table, data, agenda, text, errors>>

-----------------------------------------------------------------------------
(* SymbolTablePrinter and PlanPrinterVisitor: the text.                    *)

NameOf(s) == table.symbols[s].name

\* In the order of the table.
SymbolsOfType(types) ==
  FlattenSeq([s \in DOMAIN table.symbols |->
                IF table.symbols[s].type \in types THEN <<s>> ELSE << >>])

\* Variant: pipelines are printed as they are stored.
LineFromEnd(path) == [i \in DOMAIN path |-> NameOf(path[i])]

\* Pipelines are stored from their end and printed from their start.
Line(path) == Reverse([i \in DOMAIN path |-> NameOf(path[i])])

\* Variant: a subquery has no line of its own.
LinesOfInputs(s) ==
  [i \in DOMAIN data[s].newPipelines |-> Line(<<s>> \o Path(data[s].newPipelines[i]))]

LinesOf(s) ==
  [i \in DOMAIN data[s].newPipelines |-> Line(<<s>> \o Path(data[s].newPipelines[i]))]
    \o
  [i \in DOMAIN data[s].subQueryPipelines |-> Line(Path(data[s].subQueryPipelines[i]))]

OutputPipelinesSection ==
  /\ pass = "print"
  /\ text' = [text EXCEPT !.pipelines =
       LET starts == SymbolsOfType({"planRelation", "relation"})
       IN FlattenSeq([i \in DOMAIN starts |-> LinesOf(starts[i])])]
  /\ pass' = "relations"
  /\ agenda' = SymbolsOfType({"relation"})
  /\ UNCHANGED <<plan, visits, scope, table, data, errors>>

\* Variant: the subqueries of a relation are counted from 1.
SubquerySymbolFromOne(relation, k) ==
  LET current == RelationSymbol(Copy(relation))
  IN LookupSymbolByParentQueryAndType(
       table, table.symbols[current].sourceLocation, k, "relation")

\* The symbol the printer finds for the k-th subquery it meets in a relation.
SubquerySymbol(relation, k) ==
  LET current == RelationSymbol(Copy(relation))
  IN LookupSymbolByParentQueryAndType(
       table, table.symbols[current].sourceLocation, k - 1, "relation")

NotFound     == "Internal error -- could not find subquery symbol."
NotSupported == "Relation subtype not supported"

\* A relation as it is printed: its subqueries in the order they are met,
\* each with the positions of those inside it and the relation it names.
PrintedRelation(s) ==
  LET n    == data[s].relation
      uses == Subqueries(plan, n)
      At(e) == CHOOSE k \in DOMAIN uses : uses[k] = e
      Positions(exprs) == [i \in DOMAIN exprs |-> At(exprs[i])]
  IN [ name  |-> NameOf(s),
       body  |-> n,
       kind  |-> plan.node[n].kind,
       exprs |-> Positions(plan.node[n].exprs),
       uses  |-> [k \in DOMAIN uses |->
         [ body     |-> uses[k],
           kind     |-> plan.node[uses[k]].kind,
           argument |-> plan.node[uses[k]].argument,
           exprs    |-> Positions(plan.node[uses[k]].exprs),
           relation |-> LET found == SubquerySymbol(n, k)
                        IN IF found = NoSymbol THEN "" ELSE NameOf(found) ]] ]

PrintRelation ==
  /\ pass = "relations" /\ agenda # << >>
  /\ LET printed   == PrintedRelation(Head(agenda))
         supported == printed.kind \in PrintableKinds
     IN /\ text' = [text EXCEPT !.relations =
                      IF supported THEN Append(@, printed) ELSE @]
        /\ errors' = errors
             \union (IF supported THEN {} ELSE {NotSupported})
             \union (IF supported /\ \E k \in DOMAIN printed.uses :
                          printed.uses[k].relation = ""
                     THEN {NotFound} ELSE {})
  /\ agenda' = Tail(agenda)
  /\ UNCHANGED <<plan, pass, visits, scope, table, data>>

\* A root without names is not printed.
OutputRootSection ==
  /\ pass = "relations" /\ agenda = << >>
  /\ text' = [text EXCEPT !.roots =
       SelectSeq([i \in DOMAIN SymbolsOfType({"root"}) |->
                    data[SymbolsOfType({"root"})[i]].names],
                 LAMBDA names : names # << >>)]
  /\ pass' = "printed"
  /\ UNCHANGED <<plan, visits, scope, table, data, agenda, errors>>

ConverterNext ==
  \/ EnterSubquery
  \/ InitialVisitRelationRoot
  \/ InitialEnterPlanRelation
  \/ InitialEnterRelation
  \/ InitialVisitRelation
  \/ InitialVisitSubquery
  \/ InitialVisitPlanRelation
  \/ BeginPipelines
  \/ LinkPlanRelation
  \/ LeavePlanRelation
  \/ LinkRelation
  \/ LeaveRelation
  \/ LinkSubquery
  \/ BeginPrint
  \/ OutputPipelinesSection
  \/ PrintRelation
  \/ OutputRootSection

ConverterSpec == ConverterInit /\ [][ConverterNext]_converterVars

-----------------------------------------------------------------------------
(* Safety.                                                                 *)

RelationSymbols == {s \in DOMAIN table.symbols : table.symbols[s].type = "relation"}

Linked == pass \in {"print", "relations", "printed"}

\* Two passes number the subqueries of a relation independently: the k-th
\* that PipelineVisitor appends to subQueryPipelines is the one
\* InitialPlanProtoVisitor gave index k - 1 under that relation, and there
\* is none beyond.  The pipelines section follows the first numbering, the
\* expressions printed the second.
SubqueriesAgree ==
  Linked => \A s \in RelationSymbols :
    LET pipelines == data[s].subQueryPipelines
        AtIndex(i) == LookupSymbolByParentQueryAndType(
                        table, table.symbols[s].sourceLocation, i, "relation")
    IN /\ \A k \in DOMAIN pipelines : AtIndex(k - 1) = pipelines[k]
       /\ AtIndex(Len(pipelines)) = NoSymbol

\* A subquery is printed with the name of the relation that is below it in
\* the plan, although the printer finds that name by counting
\* (visitScalarSubquery and the others of PlanPrinterVisitor).
SubqueryNamesItsRelation ==
  \A i \in DOMAIN text.relations : \A k \in DOMAIN text.relations[i].uses :
    LET use == text.relations[i].uses[k]
    IN use.relation = NameOf(RelationSymbol(Original(plan.node[use.body].inputs[1])))

\* On every line a relation is printed after the one to its left: the parser
\* takes the fields of an input from what it has read so far
\* (addInputFieldsToSchema), and the symbols are in the order of the visit.
InputsPrintedFirst ==
  \A l \in DOMAIN text.pipelines : \A i, j \in DOMAIN text.relations :
    (\E k \in 1..(Len(text.pipelines[l]) - 1) :
       /\ text.pipelines[l][k] = text.relations[i].name
       /\ text.pipelines[l][k + 1] = text.relations[j].name)
    => i < j

\* The links of the plan by name: from each input to the relation or the
\* PlanRel above it.
PlanLinks ==
  (UNION { {<<NameOf(RelationSymbol(Original(i))), NameOf(RelationSymbol(Original(n)))>> :
              i \in ToSet(plan.node[n].inputs)} :
             n \in {m \in DOMAIN plan.node : plan.node[m].kind \in RelationKinds} })
    \union
  {<<NameOf(RelationSymbol(Original(plan.roots[r].input))),
     NameOf(Head(LookupSymbolsByLocation(table, PlanRelLocation(r))))>> :
     r \in DOMAIN plan.roots}

\* The lines cut the plan into paths: each link of the plan is on one line,
\* once, and the lines have no other (outputPipelinesSection).
EachInputOnOneLine ==
  LET Pairs(line) == [k \in 1..(Len(line) - 1) |-> <<line[k], line[k + 1]>>]
      pairs == FlattenSeq([l \in DOMAIN text.pipelines |-> Pairs(text.pipelines[l])])
  IN pass \in {"relations", "printed"} =>
       /\ ToSet(pairs) = PlanLinks
       /\ Len(pairs) = Cardinality(PlanLinks)
=============================================================================
