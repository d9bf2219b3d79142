---------------------------- MODULE FieldReferences ----------------------------
(***************************************************************************)
(* What a field reference of a plan means, through the round trip: in a    *)
(* message it is a number of a field and a number of queries to step out   *)
(* of; in a text it is a name.  Four visits to every relation: the         *)
(* converter computes its fields (InitialPlanProtoVisitor), the printer    *)
(* turns numbers into names (PlanPrinterVisitor), and the parser turns     *)
(* them back in a first and a second visit (SubstraitPlanRelationVisitor,  *)
(* SubstraitPlanSubqueryRelationVisitor).                                  *)
(*                                                                         *)
(* A plan is a sequence of relations, those below a relation before it:    *)
(*   kind, inputs   as in ProtoPlan;                                       *)
(*   outer          the relation in whose expressions this one is the      *)
(*                  relation of a subquery, 0 if there is none;            *)
(*   columns        the names in the schema of a read;                     *)
(*   exprs          the expressions of a filter, sort, join or project and *)
(*                  the groupings of an aggregate: a reference, or         *)
(*                  computed from some;                                    *)
(*   measures       of an aggregate, each a sequence of references;        *)
(*   emit           the output mapping, empty if there is none.            *)
(* Fields are counted from 0, as in the message.                           *)
(***************************************************************************)
EXTENDS Integers, ProtoPlan

CONSTANT Plans

VARIABLES
  plan,
  stage,    \* "schemas", "print", "first", "second", "done"
  next,     \* the relation to visit next
  schema,   \* schema[n]: the fields of relation n, as the converter has them
  text,     \* text[n]: relation n as printed
  parsed,   \* parsed[n]: the fields of relation n, as the parser has them
  back,     \* back[n]: the references of relation n that come back
  asked,    \* how many names were made unique, for each base name
  errors

vars == <<plan, stage, next, schema, text, parsed, back, asked, errors>>

Stages == <<"schemas", "print", "first", "second", "done">>

Ref(field, steps) == [field |-> field, steps |-> steps]
NoRef             == Ref(-1, 0)

\* A SymbolInfo of a field: of a column in the schema of a read, or made by a
\* relation (schema 0).  Only the latter can have an alias, and it is its name.
Symbol(name, of) == [name |-> name, schema |-> of]

Intermediate(k) == <<"intermediate", k>>
Measure(k)      == <<"measurename", k>>
HasAlias(symbol) == symbol.schema = 0 /\ symbol.name[1] = "intermediate"

NoSchema == [fields |-> << >>, generated |-> << >>, output |-> << >>, aliases |-> << >>]

\* The fields a relation shows to the ones above it.
Exposed(s) == IF s.output # << >> THEN s.output ELSE s.fields \o s.generated

\* Fields are counted from 0 in a message.
Field(s, i) == s[i + 1]
Has(s, i)   == i \in 0..(Len(s) - 1)

\* A mapping over fields: those that are there.
Mapped(mapping, fields) ==
  LET there == SelectSeq(mapping, LAMBDA i : Has(fields, i))
  IN [k \in DOMAIN there |-> Field(fields, there[k])]

Covers(fields, mapping) == \A i \in ToSet(mapping) : Has(fields, i)

Init ==
  /\ plan \in Plans
  /\ stage = "schemas"
  /\ next = 1
  /\ schema = [n \in DOMAIN plan |-> NoSchema]
  /\ text = << >>
  /\ parsed = [n \in DOMAIN plan |-> NoSchema]
  /\ back = plan
  /\ asked = [intermediate |-> 0, measurename |-> 0]
  /\ errors = {}

Visiting(s) ==
  /\ stage = s
  /\ next \in DOMAIN plan
  /\ next' = next + 1
  /\ UNCHANGED <<plan, stage>>

\* The next pass starts over; the parser has a symbol table of its own.
NextPass ==
  /\ stage # "done"
  /\ next > Len(plan)
  /\ errors = {}
  /\ stage' = Stages[CHOOSE i \in DOMAIN Stages : i > 1 /\ Stages[i - 1] = stage]
  /\ next' = 1
  /\ asked' = IF stage' = "first" THEN [b \in DOMAIN asked |-> 0] ELSE asked
  /\ UNCHANGED <<plan, schema, text, parsed, back, errors>>

-----------------------------------------------------------------------------
(* InitialPlanProtoVisitor::updateLocalSchema.                             *)

NotAvailable == "Asked for a field that isn't available."

\* The fields below a relation, those of its inputs one after the other.
InputFields(schemas, n) ==
  FlattenSeq([i \in DOMAIN plan[n].inputs |-> Exposed(schemas[plan[n].inputs[i]])])

\* A reference in a project or a grouping stands for the field it names, a
\* computed expression of a project for a new one; a computed grouping for
\* none.  Steps out are not looked at.
AddGenerated(n, fields) ==
  LET add(acc, expr) ==
        IF expr.computed
        THEN IF plan[n].kind = "aggregate" THEN acc
             ELSE [acc EXCEPT !.asked = @ + 1,
                              !.generated = Append(@, Symbol(Intermediate(acc.asked + 1), 0))]
        ELSE IF Has(fields, expr.refs[1].field)
        THEN [acc EXCEPT !.generated = Append(@, Field(fields, expr.refs[1].field))]
        ELSE [acc EXCEPT !.errors = {NotAvailable}]
  IN FoldLeft(add,
       [generated |-> << >>, asked |-> asked.intermediate, errors |-> {}],
       IF plan[n].kind \in {"project", "aggregate"} THEN plan[n].exprs ELSE << >>)

\* Variant: an emit adds to what an aggregate shows by default.
OutputKept(n, fields, generated) ==
  IF plan[n].kind = "aggregate"
  THEN generated \o Mapped(plan[n].emit, generated)
  ELSE Mapped(plan[n].emit, fields \o generated)

\* What an aggregate shows by default is what it generates.
Output(n, fields, generated) ==
  IF plan[n].kind = "aggregate"
  THEN IF plan[n].emit = << >> THEN generated ELSE Mapped(plan[n].emit, generated)
  ELSE Mapped(plan[n].emit, fields \o generated)

UpdateLocalSchema ==
  /\ Visiting("schemas")
  /\ LET node      == plan[next]
         fields    == IF node.kind = "read"
                      THEN [i \in DOMAIN node.columns |-> Symbol(<<node.columns[i]>>, next)]
                      ELSE InputFields(schema, next)
         added     == AddGenerated(next, fields)
         measures  == [m \in DOMAIN node.measures |->
                         Symbol(Measure(asked.measurename + m), 0)]
         generated == added.generated \o measures
         all       == IF node.kind = "aggregate" THEN generated ELSE fields \o generated
     IN /\ schema' = [schema EXCEPT
             ![next].fields    = fields,
             ![next].generated = generated,
             ![next].output    = Output(next, fields, generated)]
        /\ asked' = [intermediate |-> added.asked,
                     measurename  |-> asked.measurename + Len(measures)]
        /\ errors' = errors \union added.errors
             \union (IF Covers(all, node.emit) THEN {} ELSE {NotAvailable})
  /\ UNCHANGED <<text, parsed, back>>

-----------------------------------------------------------------------------
(* PlanPrinterVisitor: numbers into names.                                 *)

OutOfRange == "Encountered field reference out of range."
TooDeep    == "Requested steps out but not within subquery depth that high."

\* The relation a relation is an input of.
Above(n) == {m \in DOMAIN plan : n \in ToSet(plan[m].inputs)}

\* getParentQueryLocation of the printer: the pipeline of a subquery knows
\* where it starts, the pipelines that meet in it do not (PipelineVisitor).
PrinterOuter ==
  LET outer[n \in DOMAIN plan] ==
        IF plan[n].outer # 0 THEN plan[n].outer
        ELSE LET onPipeline == {m \in Above(n) : plan[m].kind \in UnaryKinds}
             IN IF onPipeline = {} THEN 0 ELSE outer[CHOOSE m \in onPipeline : TRUE]
  IN outer

NoName == Symbol(<<"field#">>, 0)

\* The name printed for a reference, and the error met instead.
LookupFieldReference(n, ref) ==
  LET scope[k \in 0..ref.steps] ==
        IF k = 0 THEN n
        ELSE IF scope[k - 1] = 0 THEN 0 ELSE PrinterOuter[scope[k - 1]]
      m      == scope[ref.steps]
      fields == IF m = 0 THEN << >> ELSE schema[m].fields \o schema[m].generated
  IN IF m = 0 THEN [name |-> NoName, error |-> {TooDeep}]
     ELSE IF ~Has(fields, ref.field) THEN [name |-> NoName, error |-> {OutOfRange}]
     ELSE [name |-> Field(fields, ref.field), error |-> {}]

LookupFieldReferenceForEmit(n, i) ==
  LET fields == IF plan[n].kind = "aggregate" THEN schema[n].generated
                ELSE schema[n].fields \o schema[n].generated
  IN IF Has(fields, i) THEN Field(fields, i) ELSE NoName

\* Only these print their emits.
PrintsEmit == {"project", "aggregate"}

Names(n, refs) == [r \in DOMAIN refs |-> LookupFieldReference(n, refs[r]).name]

NoAliasGiven == << >>

\* NAMED is printed for what has an alias.  The alternative expressions the
\* converter notes for a repeated name are the same qualified names.
PrintedExpr(n, e) ==
  LET expr      == plan[n].exprs[e]
      generated == schema[n].generated
  IN [ computed |-> expr.computed,
       names    |-> Names(n, expr.refs),
       named    |-> IF plan[n].kind = "project" /\ e \in DOMAIN generated
                         /\ HasAlias(generated[e])
                    THEN generated[e].name ELSE NoAliasGiven ]

PrintedMeasure(n, m) ==
  LET generated == schema[n].generated
  IN [ names |-> Names(n, plan[n].measures[m]),
       named |-> generated[Len(generated) - Len(plan[n].measures) + m].name ]

References(node) ==
  UNION ({ToSet(node.exprs[e].refs) : e \in DOMAIN node.exprs}
           \union {ToSet(node.measures[m]) : m \in DOMAIN node.measures})

PrintRelation ==
  /\ Visiting("print")
  /\ text' = Append(text,
       [ exprs    |-> [e \in DOMAIN plan[next].exprs |-> PrintedExpr(next, e)],
         measures |-> [m \in DOMAIN plan[next].measures |-> PrintedMeasure(next, m)],
         emit     |-> IF plan[next].kind \in PrintsEmit
                      THEN [i \in DOMAIN plan[next].emit |->
                              LookupFieldReferenceForEmit(next, plan[next].emit[i])]
                      ELSE << >> ])
  /\ errors' = errors \union
       UNION {LookupFieldReference(next, ref).error : ref \in References(plan[next])}
         \union (IF NoName \in ToSet(text'[next].emit) THEN {OutOfRange} ELSE {})
  /\ UNCHANGED <<schema, parsed, back, asked>>

-----------------------------------------------------------------------------
(* The two visitors of the parser: names into numbers.                     *)

DoesNotExist  == "Reference does not exist."
EmitsOuter    == "Emitting outer references is not supported."
EmitsTooFar   == "Field requested but only fewer are available."
ReadsPastEnd  == "The vector of fields is read past its end."   \* not reported

\* Variant: the parser looks no further than the relation itself.
OuterOfItself == [n \in DOMAIN plan |-> plan[n].outer]

\* getParentQueryLocation of the parser climbs from start to start.
ParserOuter ==
  LET outer[n \in DOMAIN plan] ==
        IF plan[n].outer # 0 THEN plan[n].outer
        ELSE IF Above(n) = {} THEN 0 ELSE outer[CHOOSE m \in Above(n) : TRUE]
  IN outer

LastOf(positions) == CHOOSE k \in positions : \A j \in positions : j <= k

\* "& std::numeric_limits<int32_t>::max()"
Masked(i) == IF i >= 0 THEN i ELSE 2147483647 + (i + 1)

\* The number of a name among the fields of a relation, -1 if it is not there.
\* Of fields that share a name the last is taken, the generated ones before
\* the others; a generated field is not looked for by its qualified name.
FindField(s, kind, name, emitting) ==
  LET size      == IF kind = "aggregate" /\ emitting THEN 0 ELSE Len(s.fields)
      generated == {k \in DOMAIN s.generated :
                      name.schema = 0 /\ s.generated[k].name = name.name}
      fields    == {k \in DOMAIN s.fields :
                      /\ s.fields[k].name = name.name
                      /\ name.schema \in {0, s.fields[k].schema}}
  IN IF generated # {} THEN size + LastOf(generated) - 1
     ELSE IF fields # {} THEN Masked(size - Len(s.fields) + LastOf(fields) - 1)
     ELSE -1

\* findFieldReferenceByName of the first visit and of the second, which goes
\* on in the query around: relation n has the fields s so far.
FindInFirst(n, s, name, emitting) ==
  Ref(FindField(s, plan[n].kind, name, emitting), 0)

\* Variant: however far out, it is one step.
FindOneStepOut(n, s, name, emitting) ==
  LET find[m \in 0..Len(plan)] ==
        IF m = 0 THEN NoRef ELSE
        LET here == FindField(IF m = n THEN s ELSE parsed[m], plan[m].kind, name, emitting)
        IN IF here # -1 THEN Ref(here, IF m = n THEN 0 ELSE 1)
           ELSE find[ParserOuter[m]]
  IN find[n]

FindInSecond(n, s, name, emitting) ==
  LET find[m \in 0..Len(plan)] ==
        IF m = 0 THEN NoRef ELSE
        LET here == FindField(IF m = n THEN s ELSE parsed[m], plan[m].kind, name, emitting)
        IN IF here # -1 THEN Ref(here, 0)
           ELSE LET out == find[ParserOuter[m]]
                IN IF out = NoRef THEN NoRef ELSE [out EXCEPT !.steps = @ + 1]
  IN find[n]

\* A visit to relation n: the references it finds, the fields it is left with.
\* The first visit skips the expressions and the emits of the relation of a
\* subquery.
Found(n, s, name) ==
  IF stage = "second" THEN FindInSecond(n, s, name, FALSE)
  ELSE IF plan[n].outer # 0 THEN NoRef
  ELSE FindInFirst(n, s, name, FALSE)

FoundAll(n, s, names) == [r \in DOMAIN names |-> Found(n, s, names[r])]

Missing(refs) == IF stage = "second" /\ NoRef \in ToSet(refs) THEN {DoesNotExist} ELSE {}

\* A grouping becomes a generated field at once, before the next is read.
Grouped(v, computed, refs) ==
  LET fields == v.schema.fields
      kept   == ~computed /\ refs[1] # NoRef
  IN [ v EXCEPT
       !.exprs = Append(@, [computed |-> computed, refs |-> refs]),
       !.schema.generated =
         IF kept /\ Has(fields, refs[1].field) THEN Append(@, Field(fields, refs[1].field)) ELSE @,
       !.errors = @ \union Missing(refs)
         \union (IF kept /\ ~Has(fields, refs[1].field) THEN {ReadsPastEnd} ELSE {}) ]

VisitGrouping(n, v, expr) == Grouped(v, expr.computed, FoundAll(n, v.schema, expr.names))

Measured(v, name, refs) ==
  [ v EXCEPT !.schema.generated = Append(@, Symbol(name, 0)),
             !.measures = Append(@, refs),
             !.errors   = @ \union Missing(refs) ]

VisitMeasure(n, v, measure) == Measured(v, measure.named, FoundAll(n, v.schema, measure.names))

\* The expressions of other relations: none adds a field before all are read.
ReadExpr(v, computed, refs) ==
  [ v EXCEPT !.exprs  = Append(@, [computed |-> computed, refs |-> refs]),
             !.errors = @ \union Missing(refs) ]

VisitExpr(n, v, expr) ==
  IF plan[n].kind = "aggregate" THEN VisitGrouping(n, v, expr)
  ELSE ReadExpr(v, expr.computed, FoundAll(n, v.schema, expr.names))

\* addExpressionsToSchema: the expressions of a project become fields when
\* all of them have been read.  The second visit takes the alias of the
\* field it is about to add, whatever the number of the expression.
AddExpression(acc, expr) ==
  LET direct == ~expr.computed /\ expr.refs[1] # NoRef
      alias  == acc.aliases[IF stage = "second" THEN Len(acc.generated) + 1
                            ELSE acc.number + 1]
  IN [ acc EXCEPT
       !.number    = @ + 1,
       !.generated = IF ~direct THEN Append(@, Symbol(alias, 0))
                     ELSE IF Has(acc.fields, expr.refs[1].field)
                     THEN Append(@, Field(acc.fields, expr.refs[1].field))
                     ELSE @ ]

AddExpressionsToSchema(n, v) ==
  IF plan[n].kind # "project" THEN v
  ELSE [v EXCEPT !.schema.generated =
          FoldLeft(AddExpression,
            [number |-> 0, generated |-> @, fields |-> v.schema.fields,
             aliases |-> v.schema.aliases],
            v.exprs).generated]

\* The first visit notes an alias for every expression of a project, a new
\* name for those without NAMED.
Aliases(exprs) ==
  LET note(acc, expr) ==
        IF expr.named # NoAliasGiven
        THEN [acc EXCEPT !.aliases = Append(@, expr.named)]
        ELSE [aliases |-> Append(acc.aliases, Intermediate(acc.asked + 1)),
              asked   |-> acc.asked + 1]
  IN FoldLeft(note, [aliases |-> << >>, asked |-> asked.intermediate], exprs)

\* Variant: the mapped fields follow the default ones.
EmittedAfter(n, s, mapping) ==
  IF plan[n].kind = "aggregate"
  THEN s.output \o s.generated \o Mapped(mapping, s.output \o s.generated)
  ELSE s.output \o Mapped(mapping, s.fields \o s.generated)

\* applyOutputMappingToSchema
Emitted(n, s, mapping) ==
  IF plan[n].kind = "aggregate"
  THEN IF mapping = << >> THEN s.output \o s.generated
       ELSE Mapped(mapping, s.output \o s.generated)
  ELSE s.output \o Mapped(mapping, s.fields \o s.generated)

Emittable(n, s) ==
  IF plan[n].kind = "aggregate" THEN s.output \o s.generated ELSE s.fields \o s.generated

\* Emits: a number found in a query around is refused.
Mapping(refs) ==
  LET own == SelectSeq(refs, LAMBDA ref : ref.steps = 0)
  IN [i \in DOMAIN own |-> own[i].field]

ApplyOutputMapping(n, v, refs) ==
  [ v EXCEPT
    !.schema.output = Emitted(n, v.schema, Mapping(refs)),
    !.emit   = Mapping(refs),
    !.errors = @ \union Missing(refs)
      \union (IF \E i \in DOMAIN refs : refs[i].steps > 0 THEN {EmitsOuter} ELSE {})
      \union (IF Covers(Emittable(n, v.schema), Mapping(refs)) THEN {} ELSE {EmitsTooFar}) ]

VisitEmits(n, v) ==
  IF stage = "first" /\ plan[n].outer # 0 THEN v
  ELSE ApplyOutputMapping(n, v,
         [i \in DOMAIN text[n].emit |->
            IF stage = "second" THEN FindInSecond(n, v.schema, text[n].emit[i], TRUE)
            ELSE FindInFirst(n, v.schema, text[n].emit[i], TRUE)])

\* addInputFieldsToSchema, and the columns of a read, which are its output.
Entered(n, s) ==
  [ schema   |-> [ s EXCEPT
                   !.fields = @ \o InputFields(parsed, n),
                   !.output = @ \o [i \in DOMAIN plan[n].columns |->
                                      Symbol(<<plan[n].columns[i]>>, n)] ],
    exprs    |-> << >>,
    measures |-> << >>,
    emit     |-> << >>,
    errors   |-> {} ]

VisitDetails(n, v) ==
  FoldLeft(LAMBDA w, m : VisitMeasure(n, w, m),
           FoldLeft(LAMBDA w, e : VisitExpr(n, w, e), v, text[n].exprs),
           text[n].measures)

\* One visit, from the fields it starts with to those it leaves.
Visited(n, start) ==
  VisitEmits(n, AddExpressionsToSchema(n, VisitDetails(n, Entered(n, start))))

VisitRelation ==
  /\ Visiting("first")
  /\ LET noted   == IF plan[next].kind = "project" THEN Aliases(text[next].exprs)
                    ELSE [aliases |-> << >>, asked |-> asked.intermediate]
         visited == Visited(next, [parsed[next] EXCEPT !.aliases = noted.aliases])
     IN /\ parsed' = [parsed EXCEPT ![next] = visited.schema]
        /\ asked' = [asked EXCEPT !.intermediate = noted.asked]
        /\ errors' = errors \union visited.errors
  /\ UNCHANGED <<schema, text, back>>

ResetSchema(s) == [NoSchema EXCEPT !.aliases = s.aliases]

VisitRelationAgain ==
  /\ Visiting("second")
  /\ LET visited == Visited(next, ResetSchema(parsed[next]))
     IN /\ parsed' = [parsed EXCEPT ![next] = visited.schema]
        /\ back' = [back EXCEPT ![next].exprs    = visited.exprs,
                                ![next].measures = visited.measures,
                                ![next].emit     = visited.emit]
        /\ errors' = errors \union visited.errors
  /\ UNCHANGED <<schema, text, asked>>

Next ==
  \/ UpdateLocalSchema
  \/ PrintRelation
  \/ VisitRelation
  \/ VisitRelationAgain
  \/ NextPass

Spec == Init /\ [][Next]_vars

-----------------------------------------------------------------------------
(***************************************************************************)
(* What the numbers of a plan mean, without a visitor: every field is a    *)
(* column of a read, something a project or an aggregate made, or a copy.  *)
(***************************************************************************)
Nothing == << >>

Columns(p) ==
  LET columnsOf(columns, n) ==
        LET node == p[n]
            in   == FlattenSeq([i \in DOMAIN node.inputs |-> columns[node.inputs[i]]])
            at(fields, i) == IF Has(fields, i) THEN Field(fields, i) ELSE Nothing
            made == [e \in DOMAIN node.exprs |->
                       IF node.exprs[e].computed THEN <<"made", n, e>>
                       ELSE IF node.exprs[e].refs[1].steps = 0
                       THEN at(in, node.exprs[e].refs[1].field)
                       ELSE Nothing]
            measures == [m \in DOMAIN node.measures |-> <<"measure", n, m>>]
            all  == CASE node.kind = "read"      -> [i \in DOMAIN node.columns |-> <<"column", n, i>>]
                      [] node.kind = "project"   -> in \o made
                      [] node.kind = "aggregate" -> made \o measures
                      [] OTHER                   -> in
        IN IF node.emit = << >> THEN all
           ELSE [i \in DOMAIN node.emit |-> at(all, node.emit[i])]
  IN FoldLeft(LAMBDA columns, n : Append(columns, columnsOf(columns, n)), << >>, Indexes(p))

\* The relations of a query from relation n down, and the relation that asks
\* the query relation n is of, 0 if none does.
Within(p, n) ==
  LET within[m \in DOMAIN p] == {m} \union UNION {within[i] : i \in ToSet(p[m].inputs)}
  IN within[n]

AskedBy(p, n) ==
  LET asking == {p[r].outer : r \in {r \in DOMAIN p : p[r].outer # 0 /\ n \in Within(p, r)}}
  IN IF asking = {} THEN 0 ELSE CHOOSE m \in asking : TRUE

\* The column a reference of relation n means: each step leads from a relation
\* to the one that asks its query.
Means(p, columns, n, ref) ==
  LET scope[k \in 0..ref.steps] ==
        IF k = 0 THEN n ELSE IF scope[k - 1] = 0 THEN 0 ELSE AskedBy(p, scope[k - 1])
      m  == scope[ref.steps]
      in == IF m = 0 THEN << >>
            ELSE FlattenSeq([i \in DOMAIN p[m].inputs |-> columns[p[m].inputs[i]]])
  IN IF Has(in, ref.field) THEN Field(in, ref.field) ELSE Nothing

Meaning(p) ==
  LET columns == Columns(p)
      means(n, refs) == [r \in DOMAIN refs |-> Means(p, columns, n, refs[r])]
  IN [n \in DOMAIN p |->
        [ columns  |-> columns[n],
          exprs    |-> [e \in DOMAIN p[n].exprs |-> means(n, p[n].exprs[e].refs)],
          measures |-> [m \in DOMAIN p[n].measures |-> means(n, p[n].measures[m])] ]]

-----------------------------------------------------------------------------
(* The converter's fields are the columns of the plan: each relation shows as  *)
(* many, and two of them, of any two relations, are one symbol exactly when    *)
(* they are one column, through projections, aggregates, joins and emits.      *)
SymbolsAreColumns ==
  stage # "schemas" =>
    LET columns == Columns(plan) IN
    \A n, m \in DOMAIN plan :
      /\ Len(Exposed(schema[n])) = Len(columns[n])
      /\ \A i \in DOMAIN columns[n], j \in DOMAIN columns[m] :
           (Exposed(schema[n])[i] = Exposed(schema[m])[j]) <=> (columns[n][i] = columns[m][j])

(* Two programs compute the fields of a relation, the converter from numbers   *)
(* and the parser from names.  At the end they agree on every relation, those  *)
(* visited before and after the query around them included.                    *)
SchemasAgree ==
  stage = "done" => \A n \in DOMAIN plan : Exposed(parsed[n]) = Exposed(schema[n])

(* Every reference comes back meaning the column it meant, in its own query or *)
(* in one around it, though its number may be another; and every relation      *)
(* still shows the same columns.                                               *)
ReferencesKept == stage = "done" => Meaning(back) = Meaning(plan)

(* Nothing is reported on the way: the references of a plan have names, and    *)
(* the parser accepts what the printer printed (tests/RoundtripTest.cpp:       *)
(* ParsesOk, HasErrors({})).                                                   *)
TextAccepted == errors = {}
=============================================================================
