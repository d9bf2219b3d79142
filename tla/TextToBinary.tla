----------------------------- MODULE TextToBinary -----------------------------
(***************************************************************************)
(* From the pipelines, relation and root sections of a text plan to a plan *)
(* message: the symbols of the text (SubstraitPlanVisitor), the links      *)
(* between them (SubstraitPlanPipelineVisitor) and the message built from  *)
(* the links (SymbolTablePrinter::outputToBinaryPlan).                     *)
(*                                                                         *)
(* A text is a record of                                                   *)
(*   pipelines  a sequence of lines, each the names from left to right;    *)
(*   relations  in the form BinaryToText prints: a name, a kind, a body    *)
(*              for all its details say, and the subqueries in its         *)
(*              expressions, those inside a subquery before it;            *)
(*   roots      the list of names of each root section.                    *)
(***************************************************************************)
EXTENDS ProtoPlan, SymbolTable

CONSTANT Texts   \* the texts to parse

\* A line has at least one name, what is in the expressions of a relation is
\* one of its subqueries, and no name has a dot in it (SubstraitPlanParser.g4,
\* SubstraitPlanLexer.g4).
IsText(t) ==
  /\ IsSequence(t.pipelines) /\ IsSequence(t.relations) /\ IsSequence(t.roots)
  /\ \A line \in ToSet(t.pipelines) :
       IsSequence(line) /\ line # << >> /\ "root.names" \notin ToSet(line)
  /\ \A relation \in ToSet(t.relations) :
       /\ relation.name # "root.names"
       /\ IsSequence(relation.uses)
       /\ IsSequence(relation.exprs)
       /\ ToSet(relation.exprs) \subseteq DOMAIN relation.uses
       /\ \A use \in ToSet(relation.uses) :
            /\ use.relation # "root.names"
            /\ IsSequence(use.exprs)
            /\ ToSet(use.exprs) \subseteq DOMAIN relation.uses

ASSUME TextsAssumption == \A t \in Texts : IsText(t)

VARIABLES
  text,
  stage,    \* "open", "symbols", "pipelines", "relations", "details",
            \* "subqueries", "build", "done"
  todo,     \* the parse tree nodes the visitor has still to visit
  table,
  data,     \* data[s]: the RelationData of symbol s
  errors,
  output    \* the plan built, or why there is none

parserVars == <<text, stage, todo, table, data, errors, output>>

\* PARSER_LOCATION of a relation, of a root section, and of the prefix of a
\* line that ends with its k-th name.
RelationLocation(i)    == <<"relation", i>>
RootLocation(i)        == <<"root", i>>
PipelineLocation(l, k) == <<"pipeline", l, k>>

Linkage(relation) ==
  [ pipelineStart      |-> NoSymbol,
    continuingPipeline |-> NoSymbol,
    newPipelines       |-> << >>,
    subQueryPipelines  |-> << >>,
    relation           |-> relation,   \* position in text.relations, or 0
    names              |-> << >> ]

Result(status, plan) == [status |-> status, plan |-> plan]

NotBuilt == Result("unbuilt", << >>)
Refused  == Result("refused", << >>)    \* the parser reported errors
Failed   == Result("failed", << >>)     \* the builder threw
Diverges == Result("diverges", << >>)   \* the builder recurses without end

ParserInit ==
  /\ stage = "open"
  /\ todo = << >>
  /\ table = EmptyTable
  /\ data = << >>
  /\ errors = {}
  /\ output = NotBuilt

Init == text \in Texts /\ ParserInit

Visit(what, i, k) == [what |-> what, i |-> i, k |-> k]

I == Head(todo).i
K == Head(todo).k

On(s, what) ==
  /\ stage = s
  /\ todo # << >>
  /\ Head(todo).what = what
  /\ UNCHANGED <<text, stage, output>>

\* The visitor goes on, after these visits if it goes deeper.
GoOn         == todo' = Tail(todo)
Descend(into) == todo' = into \o Tail(todo)

VisitEach(what) == [i \in DOMAIN text.relations |-> Visit(what, i, 0)]

-----------------------------------------------------------------------------
(* SubstraitPlanVisitor: the relations in the order of the text, then the  *)
(* roots.                                                                  *)

BeginSymbols ==
  /\ stage = "open"
  /\ stage' = "symbols"
  /\ todo' = VisitEach("relation") \o [i \in DOMAIN text.roots |-> Visit("root", i, 0)]
  /\ UNCHANGED <<text, table, data, errors, output>>

AlreadyDefined == "Relation already defined."
SecondRoot     == "A root relation was already defined."
RootTaken      == "A relation named root was already defined."

DefineRelation ==
  /\ On("symbols", "relation")
  /\ GoOn
  /\ LET name == text.relations[I].name
     IN IF LookupSymbolByName(table, name) # NoSymbol
        THEN /\ errors' = errors \union {AlreadyDefined}
             /\ UNCHANGED <<table, data>>
        ELSE /\ table' = DefineSymbol(table, name, RelationLocation(I), "relation")
             /\ data' = Append(data, Linkage(I))
             /\ UNCHANGED errors

DefineRoot ==
  /\ On("symbols", "root")
  /\ GoOn
  /\ LET error == IF LookupSymbolByName(table, "root.names") # NoSymbol
                  THEN {SecondRoot}
                  ELSE IF LookupSymbolByName(table, "root") # NoSymbol
                  THEN {RootTaken} ELSE {}
     IN IF error # {}
        THEN /\ errors' = errors \union error
             /\ UNCHANGED <<table, data>>
        ELSE /\ table' = DefineSymbol(
                           DefineSymbol(table, "root", RootLocation(I), "relation"),
                           "root.names", RootLocation(I), "root")
             /\ data' = data \o
                  <<Linkage(0), [Linkage(0) EXCEPT !.names = text.roots[I]]>>
             /\ UNCHANGED errors

-----------------------------------------------------------------------------
(* SubstraitPlanPipelineVisitor.                                           *)

\* visitPipeline looks a name up, visits the rest of the line to its left, and
\* links the name on its way back: "todo" is its stack.
VisitLine(l) == Visit("name", l, Len(text.pipelines[l]))

BeginPipelines ==
  /\ stage = "symbols" /\ todo = << >>
  /\ stage' = "pipelines"
  /\ todo' = [l \in DOMAIN text.pipelines |-> VisitLine(l)]
  /\ UNCHANGED <<text, table, data, errors, output>>

VisitLeft(l, k) ==
  (IF k > 1 THEN <<Visit("name", l, k - 1)>> ELSE << >>) \o <<Visit("link", l, k)>>

\* Variant: the stub has no RelationData.
UpdateRelationSymbolWithoutData ==
  /\ On("pipelines", "name")
  /\ Descend(VisitLeft(I, K))
  /\ LET name   == text.pipelines[I][K]
         symbol == LookupSymbolByName(table, name)
     IN table' = IF symbol = NoSymbol
                 THEN DefineSymbol(table, name, PipelineLocation(I, K), "relation")
                 ELSE AddPermanentLocation(table, table.symbols[symbol],
                                           PipelineLocation(I, K))
  /\ UNCHANGED <<data, errors>>

\* A name without a relation gets a stub.
UpdateRelationSymbol ==
  /\ On("pipelines", "name")
  /\ Descend(VisitLeft(I, K))
  /\ LET name   == text.pipelines[I][K]
         symbol == LookupSymbolByName(table, name)
     IN IF symbol = NoSymbol
        THEN /\ table' = DefineSymbol(table, name, PipelineLocation(I, K), "relation")
             /\ data' = Append(data, Linkage(0))
        ELSE /\ table' = AddPermanentLocation(table, table.symbols[symbol],
                                              PipelineLocation(I, K))
             /\ UNCHANGED data
  /\ UNCHANGED errors

NonTerminating == "Relation is already a non-terminating participant in a pipeline."
InPipeline     == "Relation is already in this pipeline."

\* Is this name among those to the right of the k-th?
ContinuingPipelineContains(line, k, name) ==
  \E j \in (k + 1)..Len(line) : line[j] = name

\* Variant: a relation can be in the middle of several lines.
LinkErrorsInLine(l, k) ==
  LET line == text.pipelines[l]
  IN IF ContinuingPipelineContains(line, k, line[k]) THEN {InPipeline} ELSE {}

\* The error the k-th name of a line meets, if any.
LinkErrors(l, k) ==
  LET line   == text.pipelines[l]
      symbol == LookupSymbolByName(table, line[k])
  IN IF data[symbol].continuingPipeline # NoSymbol THEN {NonTerminating}
     ELSE IF ContinuingPipelineContains(line, k, line[k]) THEN {InPipeline}
     ELSE {}

At(l, k) == LookupSymbolByLocationAndType(table, PipelineLocation(l, k), "relation")

\* Variant: the pipeline a line ends with replaces those of other lines.
LinkedLast(l, k) ==
  LET line     == text.pipelines[l]
      old      == data[LookupSymbolByName(table, line[k])]
      hasLeft  == k > 1
      hasRight == k < Len(line)
  IN [old EXCEPT
        !.newPipelines       = IF hasLeft /\ ~hasRight THEN <<At(l, k - 1)>> ELSE @,
        !.continuingPipeline = IF hasLeft /\ hasRight THEN At(l, k - 1) ELSE @]

\* The symbol with its start and its link to the left.
Linked(l, k) ==
  LET line     == text.pipelines[l]
      old      == data[LookupSymbolByName(table, line[k])]
      hasLeft  == k > 1
      hasRight == k < Len(line)
      left     == At(l, k - 1)
      right    == At(l, k + 1)
      start    == IF data[right].pipelineStart # NoSymbol
                  THEN data[right].pipelineStart
                  ELSE right
  IN [old EXCEPT
        !.pipelineStart      = IF hasRight THEN start ELSE @,
        !.newPipelines       = IF hasLeft /\ ~hasRight THEN Append(@, left) ELSE @,
        !.continuingPipeline = IF hasLeft /\ hasRight THEN left ELSE @]

VisitPipeline ==
  /\ On("pipelines", "link")
  /\ GoOn
  /\ errors' = errors \union LinkErrors(I, K)
  /\ data' = IF LinkErrors(I, K) # {}
             THEN data
             ELSE [data EXCEPT ![LookupSymbolByName(table, text.pipelines[I][K])] =
                     Linked(I, K)]
  /\ UNCHANGED table

BeginRelations ==
  /\ stage = "pipelines" /\ todo = << >>
  /\ stage' = "relations"
  /\ todo' = VisitEach("relation")
  /\ UNCHANGED <<text, table, data, errors, output>>

WentMissing == "Internal error:  Previously encountered symbol went missing."

\* Only the first relation of a name is found at its location.
RelationAt(i) == LookupSymbolByLocationAndType(table, RelationLocation(i), "relation")

\* Variant: the last expression first.
VisitExpressionsLastFirst(i, exprs) ==
  Reverse([n \in DOMAIN exprs |-> Visit("subquery", i, exprs[n])])

VisitExpressions(i, exprs) == [n \in DOMAIN exprs |-> Visit("subquery", i, exprs[n])]

EnterRelation ==
  /\ On("relations", "relation")
  /\ IF RelationAt(I) = NoSymbol
     THEN /\ errors' = errors \union {WentMissing}
          /\ GoOn
     ELSE /\ Descend(VisitExpressions(I, text.relations[I].exprs))
          /\ UNCHANGED errors
  /\ UNCHANGED <<table, data>>

\* visitExpression...Subquery notes its own relation before it visits the
\* expressions inside it.
VisitSubquery ==
  /\ On("relations", "subquery")
  /\ LET use    == text.relations[I].uses[K]
         outer  == RelationAt(I)
         symbol == LookupSymbolByName(table, use.relation)
     IN IF symbol = NoSymbol
        THEN /\ errors' = errors \union {WentMissing}
             /\ GoOn
             /\ UNCHANGED <<table, data>>
        ELSE /\ data' = [data EXCEPT ![outer].subQueryPipelines = Append(@, symbol)]
             /\ table' = SetParentQueryLocation(table, table.symbols[symbol],
                                                RelationLocation(I))
             /\ Descend(VisitExpressions(I, use.exprs))
             /\ UNCHANGED errors

-----------------------------------------------------------------------------
(* SubstraitPlanRelationVisitor and SubstraitPlanSubqueryRelationVisitor:  *)
(* two visits to the details of every relation.                            *)

BeginDetails ==
  /\ stage = "relations" /\ todo = << >>
  /\ stage' = "details"
  /\ todo' = VisitEach("details")
  /\ UNCHANGED <<text, table, data, errors, output>>

NotAnExpression == "Could not parse as an expression."

\* PROTO_LOCATION of the message of symbol s, and of the haystack of an IN in
\* the expression the visitor is making.
MessageLocation(s)     == <<"message", s>>
HaystackLocation(i, k) == <<"haystack", i, k>>

\* A relation that could not be defined is passed over.
MessageNoted ==
  IF RelationAt(I) = NoSymbol THEN table
  ELSE AddPermanentLocation(table, table.symbols[RelationAt(I)],
                            MessageLocation(RelationAt(I)))

\* The first visit leaves a subquery in the argument of a function for the
\* second.  Of the others it makes something only of a comparison: what is
\* on its left.
Readable(relation) ==
  LET readable[k \in DOMAIN relation.uses] ==
        \/ relation.uses[k].argument
        \/ /\ relation.uses[k].kind = "setComparison"
           /\ \A e \in ToSet(relation.uses[k].exprs) : readable[e]
  IN \A e \in ToSet(relation.exprs) : readable[e]

\* Some kinds of relation report what is not readable, others throw, which
\* ends the visit: an error in either case.
VisitDetails ==
  /\ On("details", "details")
  /\ GoOn
  /\ errors' = errors \union
       (IF RelationAt(I) # NoSymbol /\ ~Readable(text.relations[I])
        THEN {NotAnExpression} ELSE {})
  /\ table' = MessageNoted
  /\ UNCHANGED data

\* "We have enough errors that proceeding to the final step isn't useful."
BeginSubqueryDetails ==
  /\ stage = "details" /\ todo = << >> /\ errors = {}
  /\ stage' = "subqueries"
  /\ todo' = VisitEach("details")
  /\ UNCHANGED <<text, table, data, errors, output>>

\* The second visit makes the subqueries in the expressions too.
VisitSubqueryDetails ==
  /\ On("subqueries", "details")
  /\ Descend([k \in DOMAIN text.relations[I].uses |-> Visit("use", I, k)])
  /\ table' = MessageNoted
  /\ UNCHANGED <<data, errors>>

NotFound == "Internal error -- Failed to find a known symbol."

\* The relation below an IN is recorded at a message that is still being made.
VisitUse ==
  /\ On("subqueries", "use")
  /\ GoOn
  /\ LET use    == text.relations[I].uses[K]
         symbol == LookupSymbolByName(table, use.relation)
     IN /\ errors' = errors \union (IF symbol = NoSymbol THEN {NotFound} ELSE {})
        /\ table' = IF symbol # NoSymbol /\ use.kind = "inPredicate"
                    THEN AddPermanentLocation(table, table.symbols[symbol],
                                              HaystackLocation(I, K))
                    ELSE table
  /\ UNCHANGED data

BeginBuild ==
  /\ todo = << >>
  /\ stage = "subqueries" \/ (stage = "details" /\ errors # {})
  /\ stage' = "build"
  /\ UNCHANGED <<text, todo, table, data, errors, output>>

-----------------------------------------------------------------------------
(* SymbolTablePrinter::outputToBinaryPlan.                                 *)

Relation(s) == text.relations[data[s].relation]

Kind(s) == IF data[s].relation = 0 THEN "none" ELSE Relation(s).kind

NextSinglePipeline(s) ==
  IF data[s].continuingPipeline # NoSymbol
  THEN data[s].continuingPipeline
  ELSE IF Len(data[s].newPipelines) = 1
  THEN Head(data[s].newPipelines)
  ELSE NoSymbol

TwoInputs(s) == Kind(s) \in BinaryKinds /\ Len(data[s].newPipelines) = 2

\* The relations addInputsToRelation puts below a relation.
InputsOf(s) ==
  IF Kind(s) \in UnaryKinds THEN <<NextSinglePipeline(s)>>
  ELSE IF TwoInputs(s) \/ Kind(s) = "set" THEN data[s].newPipelines
  ELSE << >>

\* Does addInputsToRelation visit the expressions of the relation?
FillsExpressions(s) ==
  \/ Kind(s) \in ExpressionKinds \intersect UnaryKinds
  \/ Kind(s) = "join" /\ TwoInputs(s)

\* SUBSTRAIT_FAIL: no input, or more subqueries than were noted.
Throws(s) ==
  \/ Kind(s) \in UnaryKinds /\ NextSinglePipeline(s) = NoSymbol
  \/ FillsExpressions(s) /\ Len(Relation(s).uses) > Len(data[s].subQueryPipelines)

\* The relations met below s, as far as the building can go.
Below(s) ==
  (ToSet(InputsOf(s)) \ {NoSymbol})
    \union (IF FillsExpressions(s)
            THEN ToSet(SubSeq(data[s].subQueryPipelines, 1, Len(Relation(s).uses)))
            ELSE {})

Met(s) ==
  LET met[n \in 0..Len(data)] ==
        IF n = 0 THEN {s} ELSE met[n - 1] \union UNION {Below(x) : x \in met[n - 1]}
  IN met[Len(data)]

BelowItself(s) == \E x \in Below(s) : s \in Met(x)

\* The message of s without its inputs, and with them: <<s, 0>> stands for
\* the relation, <<s, k>> for the k-th subquery of its expressions.
Bare(s) ==
  IF data[s].relation = 0 THEN NoTree ELSE
  LET relation == Relation(s)
      bare[k \in DOMAIN relation.uses] ==
        [ body   |-> relation.uses[k].body,
          kind   |-> relation.uses[k].kind,
          exprs  |-> [i \in DOMAIN relation.uses[k].exprs |->
                        bare[relation.uses[k].exprs[i]]],
          inputs |-> << >> ]
  IN [ body   |-> relation.body,
       kind   |-> relation.kind,
       exprs  |-> [i \in DOMAIN relation.exprs |-> bare[relation.exprs[i]]],
       inputs |-> << >> ]

Built(s) ==
  LET built[p \in (DOMAIN data) \X Nat] ==
        LET r == p[1] k == p[2]
            Inner(exprs) == [i \in DOMAIN exprs |-> built[<<r, exprs[i]>>]]
            inputs == InputsOf(r)
        IN IF k > 0
           THEN [ body   |-> Relation(r).uses[k].body,
                  kind   |-> Relation(r).uses[k].kind,
                  exprs  |-> Inner(Relation(r).uses[k].exprs),
                  inputs |-> <<built[<<data[r].subQueryPipelines[k], 0>>]>> ]
           ELSE [ Bare(r) EXCEPT
                  !.exprs  = IF FillsExpressions(r) THEN Inner(Relation(r).exprs) ELSE @,
                  !.inputs = [i \in DOMAIN inputs |-> built[<<inputs[i], 0>>]] ]
  IN built[<<s, 0>>]

\* The symbols that become a PlanRel, and the relation below each.
TopLevel ==
  SelectSeq(Indexes(table.symbols),
    LAMBDA s : /\ table.symbols[s].type = "relation"
               /\ table.symbols[s].parentQueryLocation = UnknownLocation
               /\ data[s].pipelineStart = NoSymbol)

RootNames ==
  LET root == NthSymbolByType(table, 0, "root")
  IN IF root = NoSymbol THEN << >> ELSE data[root].names

BuiltRoot(s) ==
  IF data[s].newPipelines = << >>
  THEN [kind |-> "root", top |-> Bare(s), names |-> << >>]
  ELSE [kind |-> "root", top |-> Built(Head(data[s].newPipelines)), names |-> RootNames]

\* The relations the building starts from.
Tops == {Head(data[s].newPipelines) :
           s \in {x \in ToSet(TopLevel) : data[x].newPipelines # << >>}}

AllMet == UNION {Met(s) : s \in Tops}

\* Which of a throw and an endless recursion comes first is left open.
Outcomes ==
  LET broken == (IF \E s \in AllMet : Throws(s) THEN {Failed} ELSE {})
                  \union (IF \E s \in AllMet : BelowItself(s) THEN {Diverges} ELSE {})
  IN IF errors # {} THEN {Refused}
     ELSE IF broken # {} THEN broken
     ELSE {Result("built", [i \in DOMAIN TopLevel |-> BuiltRoot(TopLevel[i])])}

OutputToBinaryPlan ==
  /\ stage = "build"
  /\ output' \in Outcomes
  /\ stage' = "done"
  /\ UNCHANGED <<text, todo, table, data, errors>>

Next ==
  \/ BeginSymbols
  \/ DefineRelation
  \/ DefineRoot
  \/ BeginPipelines
  \/ UpdateRelationSymbol
  \/ VisitPipeline
  \/ BeginRelations
  \/ EnterRelation
  \/ VisitSubquery
  \/ BeginDetails
  \/ VisitDetails
  \/ BeginSubqueryDetails
  \/ VisitSubqueryDetails
  \/ VisitUse
  \/ BeginBuild
  \/ OutputToBinaryPlan

Spec == Init /\ [][Next]_parserVars

-----------------------------------------------------------------------------
(* Types.                                                                  *)

RelationSymbols == {s \in DOMAIN table.symbols : table.symbols[s].type = "relation"}

\* Every symbol has a blob, every link leads to the symbol of a relation, and
\* the errors and the output are those the code can give.
ParserTypeOK ==
  /\ stage \in {"open", "symbols", "pipelines", "relations", "details",
                "subqueries", "build", "done"}
  /\ DOMAIN data = DOMAIN table.symbols
  /\ \A s \in DOMAIN data :
       /\ {data[s].pipelineStart, data[s].continuingPipeline}
            \subseteq RelationSymbols \union {NoSymbol}
       /\ ToSet(data[s].newPipelines) \subseteq RelationSymbols
       /\ ToSet(data[s].subQueryPipelines) \subseteq RelationSymbols
       /\ data[s].relation \in 0..Len(text.relations)
  /\ errors \subseteq {AlreadyDefined, SecondRoot, RootTaken, NonTerminating,
                      InPipeline, WentMissing, NotAnExpression, NotFound}
  /\ output.status \in {"unbuilt", "refused", "failed", "diverges", "built"}
  /\ stage = "done" <=> output # NotBuilt

-----------------------------------------------------------------------------
(* Safety.                                                                 *)

\* A pipeline ends: in a text without errors so far, following
\* continuingPipeline never comes back to where it started, whatever lines
\* the text has: from every set of symbols it leads out.  On one line a
\* repeated name is an error; across lines no check looks for a cycle, and it
\* is the order in which they are linked that keeps cycles out.
\* pipelineToPath follows the chain without a bound
\* (SymbolTablePrinter.cpp:119).
PipelinesEnd ==
  errors = {} =>
    \A S \in SUBSET DOMAIN data :
      S # {} => \E s \in S : data[s].continuingPipeline \notin S

PipelinesRead ==
  stage \in {"relations", "details", "subqueries", "build", "done"}

\* Every arrow of a text without errors is a link, and no later line has
\* undone it: to the left of a name in the middle of a line is what it
\* continues, to the left of the last one is among what it starts from.
EveryArrowKept ==
  PipelinesRead /\ errors = {} =>
    \A l \in DOMAIN text.pipelines : \A k \in 2..Len(text.pipelines[l]) :
      LET Named(i) == LookupSymbolByName(table, text.pipelines[l][i])
      IN IF k < Len(text.pipelines[l])
         THEN data[Named(k)].continuingPipeline = Named(k - 1)
         ELSE \E i \in DOMAIN data[Named(k)].newPipelines :
                data[Named(k)].newPipelines[i] = Named(k - 1)

\* "Prevent loops within the pipeline." (SubstraitPlanPipelineVisitor.cpp:123):
\* building a plan from the links of a text without errors ends.
BuildingEnds == output # Diverges
=============================================================================
