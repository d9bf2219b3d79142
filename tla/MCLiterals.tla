------------------------------- MODULE MCLiterals -------------------------------
(* Literals with bytes of four values, decimals of two bytes, floats printed *)
(* with two digits, and numbers up to twenty and sixty.                      *)
EXTENDS Literals

MCIntegers   == {"0", "1", "2", "3", "4", "5", "-4"}
MCStoi       == [w \in MCIntegers \union {"1.5"} |-> IF w = "1.5" THEN "1" ELSE w]
MCPrecisions == {"2", "3", "5"}
MCHex        == {"0", "1", "b", "f"}

\* Days from 1970: the last of them is in the year 10000.
MCDateText == [d \in {0, 5, 9} |->
                 CASE d = 0 -> "1970-01-01" [] d = 5 -> "1970-01-06" [] OTHER -> "10000-01-01"]

Dates  == "1970-01-01" :> 0 @@ "1970-01-06" :> 5 @@ "1970-01-06 10:00:00" :> 5
Stamps == "1970-01-06 10:00:00" :> 60
MCMoments == "date" :> Dates @@ "timestamp" :> Stamps
             @@ "timestamp_tz" :> ("1970-01-06 10:00:00 UTC" :> 60) @@ "time" :> ("10:00" :> 7)

-----------------------------------------------------------------------------
(* Messages.                                                               *)

NumberOf(kind, n)     == [LiteralOf(kind) EXCEPT !.numbers = <<n>>]
CharsOf(kind, chars)  == [LiteralOf(kind) EXCEPT !.chars = chars]
Lengths(words)        == ProtoType("unset", "unspecified", words, << >>)

OrNullLiterals(set) == set \union {[l EXCEPT !.nullable = TRUE] : l \in set}

Numbers0 ==
  {NumberOf(kind, n) : kind \in IntegerKinds, n \in {-3, 0, 20}}
    \union {NumberOf("i64", 60)} \union {NumberOf("boolean", n) : n \in 0..1}
    \union {NumberOf(kind, n) : kind \in FloatKinds, n \in {-125, -99, 7, 124, 990}}
    \union {LiteralOf("fp64")}

Decimals ==
  {[LiteralOf("decimal") EXCEPT !.numbers = bytes, !.type = Lengths(lengths)] :
     bytes \in UNION {[1..n -> 0..3] : n \in 0..2}, lengths \in {<<"2", "0">>, <<"5", "-4">>, <<"-4", "2">>}}

Times ==
  {NumberOf("date", d) : d \in {0, 5, 9}} \union {NumberOf(kind, 7) : kind \in MomentKinds \ {"date"}}
    \union {[LiteralOf("interval_year") EXCEPT !.numbers = <<5, 1>>],
            [LiteralOf("interval_day") EXCEPT !.numbers = <<4, 0, 13>>]}

Alphabet == {"\\", "\"", "n", "u", "x", "1", "z"}
Strings  == {CharsOf("string", chars) : chars \in UNION {[1..n -> Alphabet] : n \in 0..3}}
             \union {CharsOf("string", <<"\\", a, "1", b>>) : a \in {"u", "x"}, b \in {"1", "z", "\\"}}
Texts    == {CharsOf("fixedchar", <<"n", "\"">>)}
             \union {[CharsOf("varchar", <<"n", c>>) EXCEPT !.type = Lengths(<<"5">>)] : c \in {"n", "\\"}}

OfType(kind, type) == [LiteralOf(kind) EXCEPT !.type = type]
Small              == ProtoType("i8", "nullable", << >>, << >>)

Unprinted ==
  { OfType("null", Small), OfType("empty_list", ProtoType("list", "required", << >>, <<Small>>)),
    OfType("empty_map", ProtoType("map", "required", << >>, <<Small, UnsetType>>)),
    [LiteralOf("list") EXCEPT !.parts = <<NoLiteral>>] }
  \union {LiteralOf(kind) : kind \in {"unset", "binary", "fixedbinary", "uuid", "struct", "list", "map",
                               "null", "empty_list", "empty_map"}}

MCMessages == OrNullLiterals(Numbers0 \union Decimals \union Times \union Texts
                               \union {CharsOf("string", <<"n">>)})
                \union Strings \union Unprinted

-----------------------------------------------------------------------------
(* Texts.                                                                  *)

Of(name, words)  == Written(name, FALSE, [i \in DOMAIN words |-> Word(words[i])])
In(name, types)  == Written(name, FALSE, types)
OrNull(written)  == [written EXCEPT !.marked = TRUE]

BasicTypes ==
  {Word(name) : name \in {"i8", "i32", "i64", "fp64", "string", "boolean", "date", "timestamp",
                          "uuid", "binary", "interval_year", "interval_day", "varchar", "potato"}}
  \union { Of("decimal", <<"2", "-4">>), Of("decimal", <<"-4", "2">>), Of("decimal", <<"2">>),
           Of("varchar", <<"2">>), Of("varchar", <<"1.5">>), Of("fixedchar", <<"2">>),
           Of("fixedchar", <<"1.5">>), Of("fixedbinary", <<"2">>), Of("i32", <<"2">>) }

ComplexTypes ==
  { In("list", <<Word("string")>>), In("list", <<OrNull(Word("string"))>>),
    In("list", <<Word("")>>), In("list", <<In("list", <<Word("i8")>>)>>),
    In("map", <<Word("i8"), Word("string")>>), In("map", <<Word("string")>>),
    In("struct", <<Word("string"), Word("i8")>>), In("struct", <<Word("potato"), Word("i8")>>) }

WithType(constants, types) ==
  {[c EXCEPT !.written = type] : c \in constants,
                                 type \in types \union {OrNull(type) : type \in types} \union {Untyped}}

Number(tenths, exponent) == [TextOf("number", Untyped) EXCEPT !.tenths = tenths, !.exponent = exponent]
Quoted(form, chars)      == [TextOf(form, Untyped) EXCEPT !.chars = chars]
Braces(form, parts)      == [TextOf(form, Untyped) EXCEPT !.parts = parts]

NumberTexts == {Number(t, e) : t \in {-60, -15, 0, 20, 70, 120, 150, 210}, e \in 0..1}

StringTexts ==
  {Quoted("string", chars) :
     chars \in { << >>, <<"b", "-", "1", "1", "f">>, <<"\\", "n">>, <<"n", "\\">>, <<"1", "f", "1">>,
                 <<"\\", "z">>, <<"\\", "u", "z", "z">>, <<"\\", "u", "{", "}">>,
                 <<"\\", "u", "{", "1", "}">>, <<"\\", "u", "{", "1", "f">>,
                 <<"\\", "u", "{", "1", "f", "1", "1", "1", "1", "1", "}">>,
                 <<"1970-01-06">>, <<"1970-01-06 10:00:00">> }}
  \union {Quoted("raw", <<"\\", "n">>)}

Words == {TextOf(form, Untyped) : form \in {"null", "true", "false"}}

Two    == Quoted("string", <<"n", "z">>)
Part(tenths, unit) == [Number(tenths, 0) EXCEPT !.written = Word(unit)]
Year   == Part(50, "years")
Month  == Part(10, "month")
Typed(c, name) == [c EXCEPT !.written = Word(name)]

BraceTexts ==
  { Braces("map", << >>), Braces("struct", <<Year>>), Braces("struct", <<Year, Month>>),
    Braces("struct", <<Month, Year>>), Braces("struct", <<Year, Part(15, "month")>>),
    Braces("struct", <<Part(10, "day"), Part(20, "seconds"), Part(30, "microsecond")>>),
    Braces("map", <<Year, Month>>), Braces("map", <<Typed(Number(20, 0), "i8"), Typed(Two, "potato")>>),
    Braces("map", <<Number(20, 0), Two>>), Braces("struct", <<Two, Number(20, 0)>>),
    Braces("struct", <<Two, Number(120, 0)>>), Braces("struct", <<TextOf("null", Untyped), Two>>),
    Braces("struct", <<Braces("struct", <<Number(20, 0)>>), Braces("map", << >>)>>) }

MCWritings == WithType(NumberTexts \union StringTexts, BasicTypes)
                \union WithType(Words \union BraceTexts, BasicTypes \union ComplexTypes)

MCLimits == [kind \in IntegerKinds |-> CASE kind = "i8" -> 6 [] kind = "i16" -> 10
                                          [] kind = "i32" -> 20 [] kind = "i64" -> 60]
=============================================================================
