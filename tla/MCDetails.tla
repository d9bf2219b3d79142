-------------------------------- MODULE MCDetails --------------------------------
(* Every kind of relation with every expression in every place, and texts with   *)
(* every detail in every kind of relation.                                       *)
EXTENDS RelationDetails

MCIds      == {"a", "b", "a_enum", "i32", "date", "overflow_enum", "NOT_YET_IMPLEMENTED", "zz"}
MCColumns  == {"a", "b", "a_enum", "date"}
MCIntegers == {"0", "3", "2"}
MCStoi     == [w \in MCIntegers |-> w] @@ ("2E3" :> "2")

Whole == ProtoType("i32", "required", << >>, << >>)
Maybe == ProtoType("varchar", "nullable", <<"3">>, << >>)

-----------------------------------------------------------------------------
(* Messages.                                                               *)

Column(name)  == Expr("column", name)
One           == Expr("literal", "1")
Call(word, args) == [Expr("function", word) EXCEPT !.args = args, !.type = Whole]
If(clauses, inner) == [Expr("ifthen", "") EXCEPT !.clauses = clauses, !.inner = inner]
Cast(e, type) == [Expr("cast", "") EXCEPT !.inner = <<e>>, !.type = type]
A             == ValueArgument(Column("a"))

SomeArguments ==
  { A, ValueArgument(One), ValueArgument(Column("a_enum")), ValueArgument(Empty),
    ValueArgument(Call("f", <<A>>)), ValueArgument(If(<<Clause(Column("b"), One)>>, <<One>>)),
    EnumArgument("overflow"), EnumArgument("1"), Argument("type", "", Whole, Absent),
    Argument("type", "", Maybe, Absent), Argument("type", "", ProtoType("date", "required", << >>, << >>), Absent),
    Argument("unset", "", UnsetType, Absent) }

Calls ==
  {Call(f, <<a>>) : f \in {"f", "ifthen"}, a \in SomeArguments}
    \union { Call("f", << >>), Call("f", <<A, ValueArgument(One)>>),
             [Call("f", <<A>>) EXCEPT !.old = <<One>>], [Call("f", <<A>>) EXCEPT !.options = TRUE],
             [Call("f", <<A>>) EXCEPT !.type = UnsetType], [Call("f", <<A>>) EXCEPT !.type = Maybe] }

Others ==
  { Column("a"), Column("a_enum"), One, Empty, Expr("window", ""),
    If(<< >>, << >>), If(<< >>, <<One>>), If(<<Clause(Column("a"), One)>>, << >>),
    If(<<Clause(Column("a"), One), Clause(Column("b"), Column("a"))>>, <<Column("b")>>),
    If(<<Clause(Column("a"), Absent), Clause(Column("b"), One)>>, << >>),
    Cast(Column("a"), Maybe), Cast(Cast(One, Whole), Maybe), Cast(Empty, Whole),
    Cast(One, ProtoType("uuid", "required", << >>, << >>)),
    [Cast(One, Whole) EXCEPT !.failure = "throw"] }

SomeExpressions == Calls \union Others
Few == {Column("a"), Column("b"), Call("f", <<A>>)}

Filters == {[RelationOf("filter") EXCEPT !.condition = e] : e \in SomeExpressions \union {Absent}}

Fetches ==
  {[RelationOf("fetch") EXCEPT !.count = c, !.offset = o] : c \in {"0", "2", "3"}, o \in {"0", "2"}}

Projects ==
  {[RelationOf("project") EXCEPT !.expressions = es] :
     es \in {<< >>, <<One, Column("a"), One>>} \union {<<e, f>> : e \in SomeExpressions, f \in Few}}

Joins ==
  {[RelationOf("join") EXCEPT !.type = t, !.condition = e, !.postJoin = p] :
     t \in JoinTypes \union {"unspecified"}, e \in Few \union {Absent, Cast(One, Whole)}, p \in {Absent, One, Empty}}

Sorts ==
  {[RelationOf("sort") EXCEPT !.sorts = <<SortField(e, d), SortField(f, c)>>] :
     e \in Few \union {Absent, If(<< >>, << >>)}, f \in Few,
     d \in Directions \union {"not set", "comparison"}, c \in {"ascnullsfirst", "not set", "comparison"}}

Measure(function) == [NoMeasure EXCEPT !.has = TRUE, !.function = function]

SomeMeasures ==
  {Measure(c) : c \in Calls}
    \union {[Measure(Call("g", <<A>>)) EXCEPT !.phase = p, !.invocation = i, !.sorts = s, !.filter = f] :
              p \in Phases, i \in Invocations, s \in {<< >>, <<SortField(Column("b"), "clustered")>>, <<SortField(Empty, "clustered")>>},
              f \in {Absent, One}}
    \union {NoMeasure, [NoMeasure EXCEPT !.filter = One], [NoMeasure EXCEPT !.filter = Empty]}

Aggregates ==
  {[RelationOf("aggregate") EXCEPT !.groupings = g] :
     g \in { << >>, <<<< >>>>, <<<<Column("a"), Column("b")>>>>, <<<<Column("a")>>, <<Column("b")>>>>,
             <<<<Column("a")>>, << >>>>, <<<<Cast(One, Whole), If(<< >>, << >>)>>>>, <<<<Empty>>>> }}
    \union {[RelationOf("aggregate") EXCEPT !.groupings = g, !.measures = <<m, Measure(Call("f", <<A>>))>>] :
              g \in {<< >>, <<<<Column("b")>>>>}, m \in SomeMeasures}

MCMessages ==
  Filters \union Fetches \union Projects \union Joins \union Sorts \union Aggregates \union {RelationOf("cross")}

-----------------------------------------------------------------------------
(* Texts.                                                                  *)

ColumnText(word)       == TextOf("column", word, << >>)
OneText                == TextOf("constant", "1", << >>)
CallText(word, parts, type) == [TextOf("function", word, parts) EXCEPT !.type = type]
CastText(t, type)      == [TextOf("cast", "", <<t>>) EXCEPT !.type = type]

SomeTexts ==
  { ColumnText("a"), ColumnText("zz"), OneText, CastText(ColumnText("a"), Word("i32")),
    CastText(OneText, Word("uuid")), CastText(OneText, Word("other")),
    CallText("f", <<ColumnText("a")>>, Word("i32")), CallText("f", <<ColumnText("a")>>, Untyped),
    CallText("f", << >>, Word("i32")), CallText("h", <<OneText>>, Word("i32")),
    CallText("f", <<ColumnText("overflow_enum"), CallText("f", <<OneText>>, Word("i32"))>>, Word("i32")),
    CallText("ifthen", <<ColumnText("a"), OneText, ColumnText("b")>>, Word("i32")),
    CallText("IFTHEN", << >>, Untyped), CallText("f", <<CallText("IFTHEN", << >>, Untyped)>>, Word("i32")) }

FewTexts == {ColumnText("a"), OneText, CallText("f", <<ColumnText("a")>>, Word("i32")), CallText("IFTHEN", << >>, Untyped)}

SortText(t, id) == [Detail("sort", t) EXCEPT !.id = id]
SomeDirections  == {NoId, <<"", "clustered">>, <<"SORT_DIRECTION_", "ascnullslast">>, <<"", "unspecified">>, <<"", "up">>}

HeadText(t, type, id, name) == [Detail("measure", t) EXCEPT !.type = type, !.id = id, !.name = name]
Filtered(behavior, t)   == [Detail("filter", t) EXCEPT !.behavior = behavior]

MeasureDetails ==
  {HeadText(t, Untyped, <<"", "initialtoresult">>, NoId) : t \in SomeTexts}
    \union {HeadText(t, type, id, name) : t \in FewTexts, type \in {Untyped, Word("date"), Word("other")},
              id \in {NoId, <<"AGGREGATION_PHASE_", "unspecified">>, <<"", "all">>}, name \in {NoId, <<"", "m">>}}
    \union {Filtered("", t) : t \in FewTexts}
    \union {WithId("invocation", id) : id \in {<<"", "all">>, <<"AGGREGATION_INVOCATION_", "distinct">>, <<"", "unspecified">>, <<"", "some">>}}
    \union {SortText(t, id) : t \in FewTexts, id \in {NoId, <<"", "clustered">>, <<"", "up">>}}

MeasureText(details) == [Detail("measure", NoText) EXCEPT !.details = details]

PlainMeasure == HeadText(CallText("f", <<ColumnText("a")>>, Word("i32")), Untyped, <<"", "initialtoresult">>, NoId)

SomeDetails ==
  {Filtered("", t) : t \in SomeTexts}
    \union {Filtered(b, t) : b \in {"best effort", "post join", "other"}, t \in FewTexts}
    \union {Detail("expression", t) : t \in SomeTexts} \union {Detail("grouping", t) : t \in FewTexts}
    \union {SortText(t, id) : t \in FewTexts, id \in SomeDirections}
    \union {WithId("count", <<"", word>>) : word \in {"2", "2E3", "99999999999999999999"}}
    \union {WithId("type", id) : id \in {<<"JOIN_TYPE_", "left">>, <<"", "anti">>, <<"", "unspecified">>, <<"SORT_DIRECTION_", "left">>}}
    \union {MeasureText(<<PlainMeasure>>), MeasureText(<< >>)}

\* One that is right and one that is wrong of each.
FewMeasureDetails ==
  { PlainMeasure, HeadText(OneText, Untyped, NoId, NoId), Filtered("", OneText), Filtered("", ColumnText("zz")),
    WithId("invocation", <<"", "all">>), WithId("invocation", <<"", "unspecified">>),
    WithId("invocation", <<"AGGREGATION_INVOCATION_", "distinct">>),
    SortText(OneText, <<"", "clustered">>), SortText(CallText("IFTHEN", << >>, Untyped), NoId) }

FewDetails ==
  { Filtered("", OneText), Filtered("", ColumnText("a")), Filtered("post join", OneText),
    Detail("expression", OneText), Detail("expression", ColumnText("a")), Detail("expression", ColumnText("zz")),
    Detail("grouping", OneText), Detail("grouping", ColumnText("a")),
    SortText(OneText, <<"", "clustered">>), SortText(ColumnText("a"), NoId),
    WithId("count", <<"", "2E3">>), WithId("count", <<"", "3">>),
    WithId("type", <<"JOIN_TYPE_", "left">>), WithId("type", <<"", "anti">>),
    MeasureText(<<PlainMeasure>>), MeasureText(<<PlainMeasure, Filtered("", OneText)>>), MeasureText(<< >>) }

Kinds == {"filter", "fetch", "project", "join", "cross", "sort", "aggregate"}

Single(details) == {<<d>> : d \in details}
Pairs(first, second) == {<<d, e>> : d \in first, e \in second}

TextsOf(kinds, details) == {[kind |-> k, details |-> d] : k \in kinds, d \in details}
MeasureTexts(details)   == {[kind |-> "aggregate", details |-> <<MeasureText(d)>>] : d \in details}

MCTexts ==
  TextsOf(Kinds, {<< >>} \union Single(SomeDetails) \union Pairs(FewDetails, SomeDetails))
    \union TextsOf({"aggregate"}, {<<MeasureText(<<PlainMeasure>>), d, e>> : d, e \in FewDetails})
    \union MeasureTexts({<< >>} \union Single(MeasureDetails) \union Pairs(MeasureDetails, FewMeasureDetails))
    \union MeasureTexts({<<PlainMeasure, d, e>> : d, e \in FewMeasureDetails})

=============================================================================
