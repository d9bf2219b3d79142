----------------------------- MODULE RelationDetails -----------------------------
(***************************************************************************)
(* What stands in a relation besides its inputs and fields: conditions,    *)
(* groupings, measures, sorts, counts, kinds of joins, and the expressions *)
(* in them, from a message to a text and back.                             *)
(*                                                                         *)
(* A relation is printed (PlanPrinterVisitor), parsed by the grammar,      *)
(* visited detail by detail, twice (the two relation visitors of the       *)
(* parser), and what came back is printed and parsed once more; or a text  *)
(* that somebody wrote is parsed, and what it gave printed.  Literals,     *)
(* numbers of fields and of functions, subqueries and reads are those of   *)
(* the other modules: a literal or a name is a word here.                  *)
(***************************************************************************)
EXTENDS TypeTexts, SequencesExt

CONSTANTS
  Messages, Texts,  \* relations to print, and texts to parse
  MaxTrips,         \* how often a relation becomes a text
  Ids,              \* the words that are identifiers of the grammar
  Columns,          \* the fields that the relation can refer to
  Functions,        \* the names of functions
  FunctionZero      \* the function whose number is zero

VARIABLES
  stage,
  trips,
  next,      \* the detail that is visited next
  relation,  \* what is printed,
  text,
  before,    \* the text that the relation was parsed from, if any
  back,      \* what is parsed,
  printed,   \* what is reported by the printer, and
  parsed     \* by the parser

vars == <<stage, trips, next, relation, text, before, back, printed, parsed>>

(***************************************************************************)
(* Messages.  An expression has a word (of a literal, a field or a         *)
(* function), arguments, old arguments, options and a type if it is a      *)
(* function, clauses and the expression otherwise if it is a condition,    *)
(* and an input, a type and what to do on failure if it is a cast.         *)
(***************************************************************************)
Expr(kind, word) ==
  [ kind |-> kind, word |-> word, args |-> << >>, old |-> << >>, options |-> FALSE, type |-> UnsetType,
    clauses |-> << >>, inner |-> << >>, failure |-> "unspecified" ]

Absent == Expr("absent", "")   \* a field without an expression
Empty  == Expr("unset", "")    \* REX_TYPE_NOT_SET

Argument(kind, word, type, value) == [kind |-> kind, word |-> word, type |-> type, value |-> value]

EnumArgument(word)   == Argument("enum", word, UnsetType, Absent)
ValueArgument(value) == Argument("value", "", UnsetType, value)

NoMeasure ==
  [ has |-> FALSE, function |-> Expr("function", FunctionZero), phase |-> "unspecified",
    invocation |-> "unspecified", sorts |-> << >>, filter |-> Absent ]

SortField(expr, direction) == [expr |-> expr, direction |-> direction]

\* setRelationType: a new message of its kind.
RelationOf(kind) ==
  [ kind |-> kind, condition |-> Absent, postJoin |-> Absent, type |-> "unspecified",
    expressions |-> << >>, groupings |-> << >>, measures |-> << >>, sorts |-> << >>,
    count |-> "0", offset |-> "0" ]

(***************************************************************************)
(* Texts.  A word of an enumeration is a prefix and what follows it.       *)
(***************************************************************************)
Untyped == Word("")
NoId    == <<"", "">>

TextOf(form, word, parts) ==
  [form |-> form, word |-> word, parts |-> parts, type |-> Untyped, options |-> FALSE]

NoText == TextOf("none", "", << >>)

Detail(what, expression) ==
  [ what |-> what, behavior |-> "", expression |-> expression, type |-> Untyped, id |-> NoId,
    name |-> NoId, details |-> << >> ]

NotYetSupported   == "... are not yet supported"
NoArguments       == "Function encountered without any arguments"
NeedsBoth         == "If then clauses require both an if and a then expression"
NoMeasureFunction == "Encountered aggregate measure without a measure function."
SortKindMissing   == "Required sort kind missing from sort relation sort."
SyntaxError       == "syntax error"
NoColumn          == "no such field"
NotAFunction      == "... is not a function reference."
GivenAlready      == "... has already been specified."
NotPermitted      == "... not permitted for this kind of relation."
BadBehavior       == "Best effort and post join are the only two legal filter behavior choices."
ExpectedFunction  == "Expected an expression utilizing a function here."
BadEnum           == "Unrecognized ..."
BadNumber         == "Could not parse as a numeric literal."

\* What is made of results, with what they report.
Lift(Make(_), r)       == With(Make(r.value), r.errors)
Lift2(Make(_, _), r, s) == With(Make(r.value, s.value), r.errors \union s.errors)
All(results) ==
  With([i \in DOMAIN results |-> results[i].value], UNION {results[i].errors : i \in DOMAIN results})

Reporting(r, errors) == With(r.value, r.errors \union errors)

-----------------------------------------------------------------------------
(* PlanPrinterVisitor: expressions.                                        *)

IfThenWords == {"IFTHEN", "ifthen"}

EnumSuffix == "_enum"

\* A type in the place of an argument is not marked as one.
TypeToText(written) ==
  IF written.marked \/ written.parameters # << >>
  THEN [TextOf("type", written.name, << >>) EXCEPT !.type = written]
  ELSE TextOf("column", written.name, << >>)

Clause(condition, value) == [condition |-> condition, value |-> value]
HasBoth(clause) == Absent \notin {clause.condition, clause.value}

\* The old arguments follow the others.
Arguments(e) == e.args \o [i \in DOMAIN e.old |-> ValueArgument(e.old[i])]

RECURSIVE ExpressionToText(_)

ArgumentToText(a) ==
  CASE a.kind = "enum" -> With(TextOf("column", a.word \o EnumSuffix, << >>), {})
    [] a.kind = "type" -> Lift(TypeToText, VisitType(a.type))
    [] OTHER           -> ExpressionToText(a.value)

\* visitScalarFunction and visitAggregateFunction; "options" are printed only
\* by the second.
FunctionToText(e, options) ==
  Lift2(LAMBDA args, type : [TextOf("function", e.word, args) EXCEPT !.type = type, !.options = options],
        All([i \in DOMAIN Arguments(e) |-> ArgumentToText(Arguments(e)[i])]), VisitType(e.type))

\* A clause that does not have both is left out.
IfThenToText(e) ==
  LET printable == SelectSeq(e.clauses, HasBoth)
      parts     == FlattenSeq([i \in DOMAIN printable |-> <<printable[i].condition, printable[i].value>>])
                     \o e.inner
  IN Reporting(Lift(LAMBDA texts : TextOf("function", "IFTHEN", texts),
                    All([i \in DOMAIN parts |-> ExpressionToText(parts[i])])),
               IF printable = e.clauses THEN {} ELSE {NeedsBoth})

CastToText(e) ==
  Lift2(LAMBDA input, type : [TextOf("cast", "", <<input>>) EXCEPT !.type = type],
        ExpressionToText(e.inner[1]), VisitType(e.type))

ExpressionToText(e) ==
  CASE e.kind = "column"   -> With(TextOf("column", e.word, << >>), {})
    [] e.kind = "literal"  -> With(TextOf("constant", e.word, << >>), {})
    [] e.kind = "function" -> Reporting(FunctionToText(e, FALSE),
                                        IF Arguments(e) = << >> THEN {NoArguments} ELSE {})
    [] e.kind = "ifthen"   -> IfThenToText(e)
    [] e.kind = "cast"     -> CastToText(e)
    [] OTHER               -> With(TextOf("column", "NOT_YET_IMPLEMENTED", << >>), {NotYetSupported})

\* What BasePlanProtoVisitor refuses, in this pass or in one before it.
RECURSIVE Throwing(_)
ThrowingField(e) == e # Absent /\ Throwing(e)
Throwing(e) ==
  \/ e.kind \in {"unset", "absent"}
  \/ e.kind = "function" /\ \E i \in DOMAIN Arguments(e) :
       LET a == Arguments(e)[i]
       IN \/ a.kind = "unset"
          \/ a.kind = "value" /\ Throwing(a.value)
  \/ \E i \in DOMAIN e.clauses : \/ ThrowingField(e.clauses[i].condition)
                                 \/ ThrowingField(e.clauses[i].value)
  \/ \E i \in DOMAIN e.inner : Throwing(e.inner[i])

\* The sorts of a measure are visited too, if not by the printer.
ThrowingMeasure(measure) ==
  \/ measure.has /\ Throwing(measure.function)
  \/ measure.has /\ \E i \in DOMAIN measure.sorts : ThrowingField(measure.sorts[i].expr)
  \/ ThrowingField(measure.filter)

Throws ==
  \/ ThrowingField(relation.condition) \/ ThrowingField(relation.postJoin)
  \/ \E i \in DOMAIN relation.expressions : Throwing(relation.expressions[i])
  \/ \E i \in DOMAIN relation.groupings : \E j \in DOMAIN relation.groupings[i] :
       Throwing(relation.groupings[i][j])
  \/ \E i \in DOMAIN relation.measures : ThrowingMeasure(relation.measures[i])
  \/ \E i \in DOMAIN relation.sorts : Throwing(relation.sorts[i].expr)

-----------------------------------------------------------------------------
(* PlanPrinterVisitor: relations.                                          *)

Printing(kind, details) ==
  /\ stage = "print" /\ relation.kind = kind /\ ~Throws
  /\ text' = [kind |-> kind, details |-> details.value]
  /\ printed' = details.errors
  /\ stage' = "parse"
  /\ UNCHANGED <<trips, next, relation, before, back, parsed>>

PrintDetail(what, e) == Lift(LAMBDA t : Detail(what, t), ExpressionToText(e))

\* A field that is not there has no detail.
PrintField(what, e) == IF e = Absent THEN << >> ELSE <<PrintDetail(what, e)>>

WithId(what, id) == [Detail(what, NoText) EXCEPT !.id = id]

VisitFilterRelation == Printing("filter", All(PrintField("filter", relation.condition)))

VisitFetchRelation ==
  LET number(what, word) == WithId(what, <<"", word>>)
  IN Printing("fetch",
       With((IF relation.offset = "0" THEN << >> ELSE <<number("offset", relation.offset)>>)
              \o <<number("count", relation.count)>>, {}))

VisitProjectRelation ==
  Printing("project",
    All([i \in DOMAIN relation.expressions |-> PrintDetail("expression", relation.expressions[i])]))

\* A filter behind the join has a word of its own.
VisitJoinRelation ==
  Printing("join",
    All(<<With(WithId("type", <<"JOIN_TYPE_", relation.type>>), {})>>
          \o PrintField("expression", relation.condition) \o PrintField("post_join", relation.postJoin)))

VisitCrossRelation == Printing("cross", With(<< >>, {}))

\* Where a direction is not said nothing is printed for it.
DirectionId(direction) == IF direction \in {"unspecified", "not set"} THEN NoId ELSE <<"", direction>>

PrintSort(sort) ==
  Reporting(Lift(LAMBDA d : [d EXCEPT !.id = DirectionId(sort.direction)], PrintDetail("sort", sort.expr)),
            IF sort.direction = "not set" THEN {SortKindMissing} ELSE {})

\* The name of a function that compares is all that is printed.
VisitSortRelation ==
  LET compared == SelectInSeq(relation.sorts, LAMBDA sort : sort.direction = "comparison")
      sorts(n) == All([i \in 1..n |-> PrintSort(relation.sorts[i])])
  IN Printing("sort", IF compared = 0 THEN sorts(Len(relation.sorts))
                      ELSE With(<<Detail("name", NoText)>>, sorts(compared).errors))

PrintMeasure(measure) ==
  LET called == IF measure.invocation = "unspecified" THEN << >>
                ELSE <<WithId("invocation", <<"", measure.invocation>>)>>
      head(function) ==
        [ Detail("measure", function) EXCEPT
            !.id = <<"AGGREGATION_PHASE_", measure.phase>>, !.name = <<"", "measurename">> ]
  IN Lift2(LAMBDA function, filter :
             [Detail("measure", NoText) EXCEPT !.details = <<head(function)>> \o filter \o called],
           FunctionToText(measure.function, measure.function.options),
           All(PrintField("filter", measure.filter)))

VisitAggregateRelation ==
  LET grouped == FlattenSeq(relation.groupings)
      having  == SelectSeq(relation.measures, LAMBDA measure : measure.has)
  IN Printing("aggregate",
       Reporting(All([i \in DOMAIN grouped |-> PrintDetail("grouping", grouped[i])]
                       \o [i \in DOMAIN having |-> PrintMeasure(having[i])]),
                 IF having = relation.measures THEN {} ELSE {NoMeasureFunction}))

PrintThrows ==
  /\ stage = "print" /\ Throws
  /\ stage' = "thrown"
  /\ UNCHANGED <<trips, next, relation, text, before, back, printed, parsed>>

-----------------------------------------------------------------------------
(* The grammar.                                                            *)

\* Nothing follows the parentheses but a type, and a type stands nowhere else.
RECURSIVE ExpressionParses(_)
ExpressionParses(t) ==
  /\ t.form # "type" /\ ~t.options
  /\ t.form = "column" => t.word \in Ids
  /\ \A i \in DOMAIN t.parts : ExpressionParses(t.parts[i])

RECURSIVE DetailParses(_)
DetailParses(d) ==
  /\ d.what \notin {"offset", "post_join", "name"}
  /\ ExpressionParses(d.expression)
  /\ \A i \in DOMAIN d.details : DetailParses(d.details[i])

ParseStream ==
  /\ stage = "parse"
  /\ IF \A n \in DOMAIN text.details : DetailParses(text.details[n])
     THEN stage' = "details" /\ parsed' = {}
     ELSE stage' = "parsed" /\ parsed' = {SyntaxError}
  /\ back' = RelationOf(text.kind) /\ next' = 1
  /\ UNCHANGED <<trips, relation, text, before, printed>>

-----------------------------------------------------------------------------
(* SubstraitPlanRelationVisitor, and SubstraitPlanSubqueryRelationVisitor,  *)
(* which does all of it once more: expressions.                            *)

RECURSIVE VisitExpression(_)

EndsWithEnum(word) == \E n \in 0..Len(word) : word = SubSeq(word, 1, n) \o EnumSuffix
StripSuffix(word)  == SubSeq(word, 1, Len(word) - Len(EnumSuffix))

\* Variant: it is not reported at all.
FindAnyColumn(word) ==
  With(IF word \in Columns THEN Expr("column", word) ELSE Empty, {})

\* A field that is not found is reported by the second visit alone.
FindColumn(word) ==
  IF word \in Columns THEN With(Expr("column", word), {})
  ELSE With(Empty, IF stage = "again" THEN {NoColumn} ELSE {})

FindFunction(word) ==
  IF word \in Functions THEN With(Expr("function", word), {})
  ELSE With(Expr("function", FunctionZero), {NotAFunction})

TypeOrNone(written) ==
  IF written = Untyped THEN With(UnsetType, {}) ELSE TextToTypeProto(written, FALSE)

\* Variant: nothing is taken otherwise.
IfThenOnly(values) ==
  IF values = << >> THEN Empty
  ELSE [Expr("ifthen", "") EXCEPT
          !.clauses = [i \in 1..Len(values) \div 2 |-> Clause(values[2 * i - 1], values[2 * i])]]

\* The last one of an odd number is what is taken otherwise.
IfThenOf(values) ==
  LET pairs == Len(values) \div 2
  IN IF values = << >> THEN Empty
     ELSE [Expr("ifthen", "") EXCEPT
             !.clauses = [i \in 1..pairs |-> Clause(values[2 * i - 1], values[2 * i])],
             !.inner   = SubSeq(values, 2 * pairs + 1, Len(values))]

VisitArgument(t) ==
  IF t.form = "column" /\ EndsWithEnum(t.word)
  THEN With(EnumArgument(StripSuffix(t.word)), {})
  ELSE Lift(ValueArgument, VisitExpression(t))

VisitExpressionFunctionUse(t) ==
  LET named == FindFunction(t.word)
  IN Reporting(Lift2(LAMBDA args, type : [named.value EXCEPT !.args = args, !.type = type],
                     All([i \in DOMAIN t.parts |-> VisitArgument(t.parts[i])]), TypeOrNone(t.type)),
               named.errors)

VisitExpressionCast(t) ==
  Lift2(LAMBDA input, type : [Expr("cast", "") EXCEPT !.inner = <<input>>, !.type = type],
        VisitExpression(t.parts[1]), TypeOrNone(t.type))

\* The type of a condition is not looked at.
VisitExpression(t) ==
  CASE t.form = "function" /\ t.word \in IfThenWords ->
         Lift(IfThenOf, All([i \in DOMAIN t.parts |-> VisitExpression(t.parts[i])]))
    [] t.form = "function" /\ t.word \notin IfThenWords -> VisitExpressionFunctionUse(t)
    [] t.form = "constant" -> With(Expr("literal", t.word), {})
    [] t.form = "column"   -> FindColumn(t.word)
    [] t.form = "cast"     -> VisitExpressionCast(t)

-----------------------------------------------------------------------------
(* The relation visitors: enumerations.                                    *)

\* Variant: the prefix stays.
Unprefixed(id, prefix) == id[1] \o id[2]

\* normalizeProtoEnum.
Normalize(id, prefix) == IF id[1] \in {"", prefix} THEN id[2] ELSE id[1] \o id[2]

VisitEnum(id, prefix, words) ==
  IF Normalize(id, prefix) \in words THEN With(Normalize(id, prefix), {})
  ELSE With("unspecified", {BadEnum})

JoinTypes   == {"inner", "outer", "left", "right", "semi", "anti", "single"}
Invocations == {"unspecified", "all", "distinct"}
Phases      == {"unspecified", "initialtointermediate", "intermediatetointermediate",
                "initialtoresult", "intermediatetoresult"}
Directions  == {"unspecified", "ascnullsfirst", "ascnullslast", "descnullsfirst",
                "descnullslast", "clustered"}

FilterBehavior(word) ==
  IF word \in {"", "best effort", "post join"} THEN With(word, {}) ELSE With("", {BadBehavior})

VisitSortField(d) ==
  Lift2(SortField, VisitExpression(d.expression),
        IF d.id = NoId THEN With("not set", {}) ELSE VisitEnum(d.id, "SORT_DIRECTION_", Directions))

-----------------------------------------------------------------------------
(* The relation visitors: details.                                         *)

Visiting(what) ==
  /\ stage \in {"details", "again"} /\ next <= Len(text.details)
  /\ text.details[next].what = what

Visited(r) ==
  /\ back' = r.value /\ parsed' = parsed \union r.errors /\ next' = next + 1
  /\ UNCHANGED <<stage, trips, relation, text, before, printed>>

Refused(errors) == Visited(With(back, errors \union {NotPermitted}))

\* A field is given once.
Put(field, r) ==
  IF back[field] = Absent
  THEN Visited(Lift(LAMBDA value : [back EXCEPT ![field] = value], r))
  ELSE Visited(With(back, r.errors \union {GivenAlready}))

PutFilter(behavior, r) ==
  CASE back.kind = "filter" /\ behavior = ""        -> Put("condition", r)
    [] back.kind = "join" /\ behavior = "post join" -> Put("postJoin", r)
    [] OTHER                                        -> Refused(r.errors)

VisitRelationFilter ==
  LET detail   == text.details[next]
      behavior == FilterBehavior(detail.behavior)
  IN /\ Visiting("filter")
     /\ PutFilter(behavior.value, Reporting(VisitExpression(detail.expression), behavior.errors))

PutExpression(r) ==
  CASE back.kind = "join"    -> Put("condition", r)
    [] back.kind = "project" ->
         Visited(Lift(LAMBDA value : [back EXCEPT !.expressions = Append(@, value)], r))
    [] OTHER                 -> Refused(r.errors)

VisitRelationExpression ==
  Visiting("expression") /\ PutExpression(VisitExpression(text.details[next].expression))

\* Variant: in any relation.
GroupAnything(r) ==
  Visited(Lift(LAMBDA value : [back EXCEPT !.groupings = <<Append(FlattenSeq(@), value)>>], r))

\* All that is grouped by is one set.
PutGrouping(r) ==
  LET grouped == FlattenSeq(back.groupings)
  IN IF back.kind = "aggregate"
     THEN Visited(Lift(LAMBDA value : [back EXCEPT !.groupings = <<Append(grouped, value)>>], r))
     ELSE Refused(r.errors)

VisitRelationGrouping ==
  Visiting("grouping") /\ PutGrouping(VisitExpression(text.details[next].expression))

VisitRelationJoinType ==
  /\ Visiting("type")
  /\ IF back.kind = "join"
     THEN Visited(Lift(LAMBDA type : [back EXCEPT !.type = type],
                       VisitEnum(text.details[next].id, "JOIN_TYPE_", JoinTypes)))
     ELSE Refused({})

VisitRelationSort ==
  /\ Visiting("sort")
  /\ IF back.kind = "sort"
     THEN Visited(Lift(LAMBDA sort : [back EXCEPT !.sorts = Append(@, sort)],
                       VisitSortField(text.details[next])))
     ELSE Refused({})

\* What stol makes of a number; one that is too large counts as none.
VisitNumber(word) == IF word \in DOMAIN Stoi THEN With(Stoi[word], {}) ELSE With("0", {BadNumber})

VisitRelationCount ==
  /\ Visiting("count")
  /\ IF back.kind = "fetch"
     THEN Visited(Lift(LAMBDA count : [back EXCEPT !.count = count],
                       VisitNumber(text.details[next].id[2])))
     ELSE Refused({})

-----------------------------------------------------------------------------
(* The relation visitors: measures.                                        *)

\* The first of the two is taken for the phase, be it the name.
IdsOf(d) == SelectSeq(<<d.id, d.name>>, LAMBDA id : id # NoId)

PhaseOf(d) ==
  IF IdsOf(d) = << >> THEN With("unspecified", {})
  ELSE VisitEnum(IdsOf(d)[1], "AGGREGATION_PHASE_", Phases)

\* A type of its own takes the place of the function's.
MeasureFunction(d, function) ==
  Lift2(LAMBDA type, phase :
          [NoMeasure EXCEPT !.has = TRUE, !.phase = phase, !.function = [function EXCEPT !.type = type]],
        IF d.type = Untyped THEN With(function.type, {}) ELSE TextToTypeProto(d.type, FALSE), PhaseOf(d))

MeasureOr(d, r) ==
  Reporting(IF r.value.kind = "function" THEN MeasureFunction(d, r.value)
            ELSE With([NoMeasure EXCEPT !.has = TRUE], {ExpectedFunction}), r.errors)

VisitMeasure_detail(d) ==
  CASE d.what = "measure"    -> MeasureOr(d, VisitExpression(d.expression))
    [] d.what = "filter"     -> Lift(LAMBDA expr : [NoMeasure EXCEPT !.filter = expr],
                                     VisitExpression(d.expression))
    [] d.what = "invocation" -> Lift(LAMBDA called : [NoMeasure EXCEPT !.invocation = called],
                                     VisitEnum(d.id, "AGGREGATION_INVOCATION_", Invocations))
    [] d.what = "sort"       -> Lift(LAMBDA sort : [NoMeasure EXCEPT !.sorts = <<sort>>], VisitSortField(d))

\* There is an end at the second measure, and at the second filter.
Repeated(details) ==
  {i \in DOMAIN details : details[i].what \in {"measure", "filter"}
     /\ \E j \in 1..i - 1 : details[j].what = details[i].what}

VisitedDetails(details) ==
  IF Repeated(details) = {} THEN details ELSE SubSeq(details, 1, Min(Repeated(details)))

\* Variant: the measure is made anew by its function.
RenewDetail(measure, what, item) ==
  CASE what = "measure"    -> item
    [] what = "filter"     -> [measure EXCEPT !.filter = item.filter]
    [] what = "invocation" -> [measure EXCEPT !.invocation = item.invocation]
    [] what = "sort"       -> [measure EXCEPT !.sorts = @ \o item.sorts]

AddDetail(measure, what, item) ==
  CASE what = "measure"    -> [measure EXCEPT !.has = TRUE, !.function = item.function, !.phase = item.phase]
    [] what = "filter"     -> [measure EXCEPT !.filter = item.filter]
    [] what = "invocation" -> [measure EXCEPT !.invocation = item.invocation]
    [] what = "sort"       -> [measure EXCEPT !.sorts = @ \o item.sorts]

\* Calls and sorts make a function where there is none.
MeasureOf(details, items) ==
  LET taken     == DOMAIN items \ Repeated(details)
      add(m, i) == IF i \in taken THEN AddDetail(m, details[i].what, items[i]) ELSE m
      measure   == FoldLeftDomain(add, NoMeasure, items)
  IN [measure EXCEPT !.has = @ \/ measure.invocation # "unspecified" \/ measure.sorts # << >>]

\* What is wrong is reported at the first name, and there is none.
Crashing(d) ==
  d.what = "measure" /\ IdsOf(d) = << >> /\ VisitExpression(d.expression).value.kind # "function"

PutMeasure(r) ==
  IF back.kind = "aggregate"
  THEN Visited(Lift(LAMBDA measure : [back EXCEPT !.measures = Append(@, measure)], r))
  ELSE Refused(r.errors)

VisitRelationMeasure ==
  LET details == text.details[next].details
      visited == VisitedDetails(details)
  IN /\ Visiting("measure") /\ ~(\E i \in DOMAIN visited : Crashing(visited[i]))
     /\ PutMeasure(Reporting(Lift(LAMBDA items : MeasureOf(details, items),
                                  All([i \in DOMAIN visited |-> VisitMeasure_detail(visited[i])])),
                             IF Repeated(details) = {} THEN {} ELSE {GivenAlready}))

MeasureCrashes ==
  LET details == text.details[next].details
  IN /\ Visiting("measure") /\ \E i \in DOMAIN VisitedDetails(details) : Crashing(details[i])
     /\ stage' = "crashed"
     /\ UNCHANGED <<trips, next, relation, text, before, back, printed, parsed>>

-----------------------------------------------------------------------------

\* An aggregate without groupings gets an empty one.
WithGrouping(r) ==
  IF r.kind = "aggregate" /\ r.groupings = << >> THEN [r EXCEPT !.groupings = <<<< >>>>] ELSE r

\* The second visit begins with a new message.
EndVisit ==
  /\ stage \in {"details", "again"} /\ next > Len(text.details)
  /\ IF stage = "details" /\ parsed = {}
     THEN stage' = "again" /\ next' = 1 /\ back' = RelationOf(text.kind)
     ELSE stage' = "parsed" /\ next' = next /\ back' = WithGrouping(back)
  /\ UNCHANGED <<trips, relation, text, before, printed, parsed>>

NoRelation == RelationOf("none")
NoDetails  == [kind |-> "none", details |-> << >>]

Start(first, message, details) ==
  /\ stage = first /\ relation = message /\ text = details
  /\ trips = 1 /\ next = 1 /\ before = NoDetails /\ back = NoRelation
  /\ printed = {} /\ parsed = {}

Init ==
  \/ \E message \in Messages : Start("print", message, NoDetails)
  \/ \E details \in Texts : Start("parse", NoRelation, details)

\* A relation that came back without complaint is printed again.
Again ==
  /\ stage = "parsed" /\ parsed = {} /\ trips < MaxTrips
  /\ stage' = "print" /\ trips' = trips + 1 /\ next' = 1
  /\ relation' = back /\ before' = text /\ back' = NoRelation /\ text' = NoDetails
  /\ printed' = {} /\ parsed' = {}

Next ==
  \/ VisitFilterRelation \/ VisitFetchRelation \/ VisitProjectRelation \/ VisitJoinRelation
  \/ VisitCrossRelation \/ VisitSortRelation \/ VisitAggregateRelation \/ PrintThrows
  \/ ParseStream
  \/ VisitRelationFilter \/ VisitRelationExpression \/ VisitRelationGrouping
  \/ VisitRelationJoinType \/ VisitRelationSort \/ VisitRelationCount
  \/ VisitRelationMeasure \/ MeasureCrashes
  \/ EndVisit \/ Again

Spec == Init /\ [][Next]_vars

-----------------------------------------------------------------------------
(* Properties.                                                             *)

Accepted == stage = "parsed" /\ parsed = {}
Tripped  == stage \in {"parsed", "crashed"} /\ relation # NoRelation /\ printed = {}

PartsOf(e) ==
  e.inner \o FlattenSeq([i \in DOMAIN e.clauses |-> <<e.clauses[i].condition, e.clauses[i].value>>])
    \o [i \in DOMAIN Arguments(e) |-> Arguments(e)[i].value]

RECURSIVE Within(_)
Within(e) == {e} \union UNION {Within(PartsOf(e)[i]) : i \in DOMAIN PartsOf(e)}

\* What stands in a relation: the expressions, and the functions of measures.
MeasureFunctions(r) == {r.measures[i].function : i \in DOMAIN r.measures}

Expressions(r) ==
  UNION {Within(e) : e \in
    {r.condition, r.postJoin} \union ToSet(r.expressions) \union ToSet(FlattenSeq(r.groupings))
      \union MeasureFunctions(r) \union {r.measures[i].filter : i \in DOMAIN r.measures}
      \union {r.sorts[i].expr : i \in DOMAIN r.sorts}}

IsConditional(e) == e.kind = "function" /\ e.word \in IfThenWords

\* An expression that comes back as another.
Altered(e) ==
  \/ e.old # << >> \/ e.options \/ e.failure # "unspecified" \/ IsConditional(e)
  \/ e.kind = "ifthen" /\ PartsOf(e) = << >>
  \/ \E i \in DOMAIN e.args :
       \/ e.args[i].kind = "type"
       \/ e.args[i].value.kind = "column" /\ EndsWithEnum(e.args[i].value.word)

Loses ==
  \/ \E e \in Expressions(relation) : Altered(e)
  \/ Len(relation.groupings) > 1
  \/ \E i \in DOMAIN relation.measures : relation.measures[i].sorts # << >>
  \/ \E i \in DOMAIN relation.sorts : relation.sorts[i].direction = "unspecified"

\* What is not in the grammar, or not a field where it stands.
UnreadableArgument(e, a) ==
  \/ a.kind = "enum" /\ (a.word \o EnumSuffix \notin Ids \/ IsConditional(e))
  \/ a.kind = "type" /\ TypeToText(VisitType(a.type).value).word \notin Columns

Unreadable ==
  \/ \E e \in Expressions(relation) : \E i \in DOMAIN e.args : UnreadableArgument(e, e.args[i])
  \/ \E f \in MeasureFunctions(relation) : f.options \/ IsConditional(f)
  \/ relation.kind = "join" /\ relation.type = "unspecified"
  \/ relation.postJoin # Absent \/ relation.offset # "0"
  \/ \E i \in DOMAIN relation.sorts : relation.sorts[i].direction = "comparison"

(* A relation that is parsed is of the kind that its text names, and has only    *)
(* what such a relation has.                                                     *)
DetailTypeOK ==
  /\ stage \in {"print", "thrown", "parse", "details", "again", "parsed", "crashed"}
  /\ stage \in {"details", "again", "parsed"} =>
       /\ back.kind = text.kind
       /\ next <= Len(text.details) + 1
       /\ back.condition # Absent                       => back.kind \in {"filter", "join"}
       /\ back.postJoin # Absent                        => back.kind = "join"
       /\ back.expressions # << >>                      => back.kind = "project"
       /\ back.groupings # << >> \/ back.measures # << >> => back.kind = "aggregate"
       /\ back.sorts # << >>                            => back.kind = "sort"

(* A relation comes back as it was, but for options and old arguments of         *)
(* functions, fields whose name ends like that of an enumeration, functions with *)
(* the name of a condition, conditions without a clause, what a cast does on     *)
(* failure, all but one set of groupings, the sorts of measures, and directions  *)
(* that are not specified (tests/RoundtripTest.cpp expects plans to come back    *)
(* equal).                                                                       *)
RelationsKept == Tripped /\ Accepted => (back = WithGrouping(relation) <=> ~Loses)

(* A relation that is printed without a report can be read, but for types among  *)
(* arguments, enumerations that are no identifiers, options and conditions in    *)
(* the place of an aggregate function, joins without a type, filters behind a    *)
(* join, offsets, and sorts that compare.  It does not bring the parser down.    *)
TextsRead == Tripped => (Accepted <=> ~Unreadable)

DetailsOf(details, what) == SelectSeq(details, LAMBDA d : d.what = what)

\* Conditions are printed in capitals, and without a type.
RECURSIVE AsPrinted(_)
AsPrinted(t) ==
  LET parts == [t EXCEPT !.parts = [i \in DOMAIN t.parts |-> AsPrinted(t.parts[i])]]
  IN IF t.form = "function" /\ t.word \in IfThenWords
     THEN [parts EXCEPT !.word = "IFTHEN", !.type = Untyped]
     ELSE parts

\* The last of the words that are given, and no less than a word.
LastId(details, what, default, prefix, printedAs) ==
  LET given == DetailsOf(details, what)
      word  == IF given = << >> THEN default ELSE Normalize(Last(given).id, prefix)
  IN WithId(what, <<printedAs, word>>)

MeasureAsPrinted(details) ==
  LET head     == DetailsOf(details, "measure")[1]
      function == AsPrinted(head.expression)
      called   == LastId(details, "invocation", "unspecified", "AGGREGATION_INVOCATION_", "")
  IN [Detail("measure", NoText) EXCEPT !.details =
        <<[ head EXCEPT
              !.expression = IF head.type = Untyped THEN function ELSE [function EXCEPT !.type = head.type],
              !.type = Untyped,
              !.id   = <<"AGGREGATION_PHASE_", IF IdsOf(head) = << >> THEN "unspecified"
                                               ELSE Normalize(IdsOf(head)[1], "AGGREGATION_PHASE_")>>,
              !.name = <<"", "measurename">> ]>>
        \o [i \in DOMAIN DetailsOf(details, "filter") |->
              Detail("filter", AsPrinted(DetailsOf(details, "filter")[i].expression))]
        \o IF called.id[2] = "unspecified" THEN << >> ELSE <<called>>]

Printed(what) ==
  [i \in DOMAIN DetailsOf(before.details, what) |->
     LET d == DetailsOf(before.details, what)[i]
     IN IF what = "measure" THEN MeasureAsPrinted(d.details)
        ELSE [ Detail(what, AsPrinted(d.expression)) EXCEPT
                 !.id = IF what = "sort" THEN DirectionId(Normalize(d.id, "SORT_DIRECTION_")) ELSE NoId ]]

(* The text of a relation that was accepted is printed as it was written: every  *)
(* condition, grouping, measure and sort is there, in its order, with the last   *)
(* type, count and invocation that were given.  Groupings stand before           *)
(* measures, and a measure before its filter.                                    *)
TextKept ==
  stage = "parse" /\ trips = 2 /\ printed = {} =>
    text.details =
      CASE before.kind = "fetch"     ->
             <<WithId("count", <<"", Stoi[LastId(before.details, "count", "0", "", "").id[2]]>>)>>
        [] before.kind = "join"      ->
             <<LastId(before.details, "type", "unspecified", "JOIN_TYPE_", "JOIN_TYPE_")>>
               \o Printed("expression")
               \o [i \in DOMAIN Printed("filter") |-> [Printed("filter")[i] EXCEPT !.what = "post_join"]]
        [] before.kind = "aggregate" -> Printed("grouping") \o Printed("measure")
        [] OTHER                     ->
             Printed("filter") \o Printed("expression") \o Printed("sort")

\* What a text may leave out but the printer asks for.
Typed(written) == TypeOrNone(written).value.kind \in PrintedKinds

RECURSIVE Bare(_)   \* a condition without a clause
Bare(t) ==
  \/ t.form = "function" /\ t.word \in IfThenWords /\ t.parts = << >>
  \/ \E i \in DOMAIN t.parts : Bare(t.parts[i])

RECURSIVE Incomplete(_)
Incomplete(t) ==
  \/ Bare(t)
  \/ t.form = "function" /\ t.word \notin IfThenWords /\ (t.parts = << >> \/ ~Typed(t.type))
  \/ t.form = "cast" /\ ~Typed(t.type)
  \/ \E i \in DOMAIN t.parts : Incomplete(t.parts[i])

IncompleteMeasureDetail(d) ==
  CASE d.what = "measure" ->
         \/ ~Typed(IF d.type = Untyped THEN d.expression.type ELSE d.type)
         \/ \E i \in DOMAIN d.expression.parts : Incomplete(d.expression.parts[i])
    [] d.what = "filter"  -> Incomplete(d.expression)
    [] d.what = "sort"    -> Bare(d.expression)
    [] OTHER              -> FALSE

IncompleteDetail(d) ==
  IF d.what = "measure"
  THEN \/ DetailsOf(d.details, "measure") = << >>
       \/ \E i \in DOMAIN d.details : IncompleteMeasureDetail(d.details[i])
  ELSE \/ Incomplete(d.expression)
       \/ d.what = "sort" /\ d.id = NoId

(* A text that was accepted makes a relation that can be printed, but for        *)
(* functions and casts without a type, or with one that the printer does not     *)
(* know, scalar functions without arguments, conditions without a clause,        *)
(* measures without a function, and sorts that do not say which way.             *)
AcceptedPrinted ==
  trips = 2 /\ stage \in {"thrown", "parse"} =>
    (stage = "parse" /\ printed = {} <=>
       ~(\E n \in DOMAIN before.details : IncompleteDetail(before.details[n])))

=============================================================================
