--------------------------- MODULE FunctionReferences ---------------------------
(***************************************************************************)
(* Functions and the spaces they come from.  A message declares both with  *)
(* numbers and calls a function by its number; a text has a section per    *)
(* space and calls a function by a short name.  ReferenceNormalizer        *)
(* renumbers a message; the conversions go through names, with a table in  *)
(* each direction (InitialPlanProtoVisitor, SubstraitPlanVisitor).         *)
(*                                                                         *)
(* A plan is a record:                                                     *)
(*   spaces      in order, each an anchor and a URI;                       *)
(*   extensions  in order, each a function with its space, its name and    *)
(*               its anchor, or the declaration of a type;                 *)
(*   columns     the names in the schema of a read;                        *)
(*   calls       what calls a function: the path to it, from a relation    *)
(*               through fields of messages, and the number it calls.      *)
(* Strings are compared by their place in a sequence of them.              *)
(***************************************************************************)
EXTENDS ProtoPlan, SymbolTable

CONSTANTS
  Plans,
  Uris,          \* the URIs of spaces, in the order of strings
  Names,         \* the names of functions, with their types, in that order
  ShortNames,    \* their names without types and numbered, in that order
  ShortName(_)   \* the name of a function up to the colon

\* Strings are numbered from one, numbers are naturals.
ASSUME OrdersAssumption == IsSequence(Uris) /\ IsSequence(Names) /\ IsSequence(ShortNames)

VARIABLES
  plan,
  stage,
  next,       \* the number of the element to visit next,
  inside,     \* and of the function in a section, 0 outside
  normal,     \* the plan as the normalizer leaves it
  table,      \* the converter's table, and
  data,       \* what its symbols are of: data[i] belongs to symbol i
  text,
  read,       \* the parser's table, its data and its counters
  back,       \* the plan built from it
  again,      \* the text printed from it
  errors

vars == <<plan, stage, next, inside, normal, table, data, text, read, back, again, errors>>

Stages == <<"spaces", "functions", "uris", "extensions", "calls", "print", "columns",
            "sections", "uses", "build", "again", "done">>

NoUri  == "none"
NoName == "none"
Unset  == 0       \* a number that is not in the message
NoSpace == -1     \* std::nullopt

FunctionData(name, space, anchor) == [name |-> name, space |-> space, anchor |-> anchor]
SpaceData(anchor)                 == FunctionData(NoName, NoSpace, anchor)

NoText == [calls |-> << >>, sections |-> << >>]

Place(order, x)     == IF x \in ToSet(order) THEN CHOOSE i \in DOMAIN order : order[i] = x ELSE 0
Before(order, x, y) == Place(order, x) < Place(order, y)

\* std::sort, and std::set: an order of S in which nothing comes behind what it
\* is before.  It is one of several if some are equal.
Ordered(S, Less(_, _)) == {p \in S \X S : Less(p[1], p[2])}

Sorted(S, before) ==
  CHOOSE s \in [1..Cardinality(S) -> S] :
    \A i, j \in DOMAIN s : i < j => s[i] # s[j] /\ <<s[j], s[i]>> \notin before

Greatest(positions) == CHOOSE i \in positions : \A j \in positions : j <= i

(***************************************************************************)
(* What every message is.                                                  *)
(***************************************************************************)
IsCalling(p) ==
  /\ DOMAIN p = {"spaces", "extensions", "columns", "calls"}
  /\ IsSequence(p.spaces) /\ IsSequence(p.extensions)
  /\ IsSequence(p.columns) /\ IsSequence(p.calls)
  /\ \A s \in ToSet(p.spaces) :
       DOMAIN s = {"anchor", "uri"} /\ s.anchor \in Nat /\ s.uri # NoUri
  /\ \A f \in ToSet(p.extensions) : f.kind = "function" =>
       /\ DOMAIN f = {"kind", "space", "name", "anchor"}
       /\ f.space \in Nat /\ f.anchor \in Nat
  /\ \A c \in ToSet(p.calls) : DOMAIN c = {"path", "function"} /\ c.function \in Nat

ASSUME PlansAssumption == \A p \in Plans : IsCalling(p)

Init ==
  /\ plan \in Plans
  /\ stage = Stages[1]
  /\ next = 1
  /\ inside = 0
  /\ normal = plan
  /\ table = EmptyTable
  /\ data = << >>
  /\ text = NoText
  /\ read = [table |-> EmptyTable, data |-> << >>, numSpacesSeen |-> 0, numFunctionsSeen |-> 0]
  /\ back = [plan EXCEPT !.spaces = << >>, !.extensions = << >>, !.calls = << >>]
  /\ again = NoText
  /\ errors = {}

\* What a stage visits one by one; the other stages are one call.
Visited(s) ==
  CASE s = "uris"       -> plan.spaces
    [] s = "extensions" -> plan.extensions
    [] s = "calls"      -> plan.calls
    [] s = "columns"    -> plan.columns
    [] s = "sections"   -> text.sections
    [] s = "uses"       -> text.calls
    [] OTHER            -> <<s>>

Visiting(s) ==
  /\ stage = s
  /\ next \in DOMAIN Visited(s)
  /\ next' = next + 1
  /\ UNCHANGED <<plan, stage, inside>>

NextStage ==
  /\ stage # "done"
  /\ next > Len(Visited(stage))
  /\ errors = {}
  /\ stage' = Stages[Place(Stages, stage) + 1]
  /\ next' = 1
  /\ UNCHANGED <<plan, inside, normal, table, data, text, read, back, again, errors>>

-----------------------------------------------------------------------------
(* ReferenceNormalizer.                                                    *)

\* The fields it follows, of an expression and of a relation.
ExpressionFields ==
  { <<"scalar_function", "arguments">>, <<"cast", "input">>,
    <<"if_then", "ifs">>, <<"if_then", "else">>,
    <<"scalar", "input">>, <<"in_predicate", "needles">>, <<"in_predicate", "haystack">>,
    <<"set_predicate", "tuples">>, <<"set_comparison", "left">>, <<"set_comparison", "right">> }

RelationFields ==
  { <<"read", "filter">>, <<"read", "best_effort_filter">>,
    <<"filter", "input">>, <<"filter", "condition">>, <<"fetch", "input">>,
    <<"aggregate", "input">>, <<"aggregate", "measures">>,
    <<"sort", "input">>, <<"sort", "sorts">>,
    <<"join", "expression">>, <<"join", "post_join_filter">>,
    <<"join", "left">>, <<"join", "right">>,
    <<"project", "input">>, <<"project", "expressions">>, <<"set", "inputs">>,
    <<"cross", "left">>, <<"cross", "right">> }
    \union {<<kind, "input">> : kind \in {"extension_single", "extension_multi"}}
    \union {<<kind, field>> : kind \in {"hash_join", "merge_join"},
                              field \in {"left", "right", "post_join_filter"}}

Follows(path) == ToSet(path) \subseteq ExpressionFields \union RelationFields

SpacesByUri(p) ==
  Sorted(DOMAIN p.spaces, Ordered(DOMAIN p.spaces,
    LAMBDA i, j : Before(Uris, p.spaces[i].uri, p.spaces[j].uri)))

\* Variant: a function keeps the number of its space.
NormalizeSpacesOnly(p) ==
  LET order == SpacesByUri(p)
  IN [p EXCEPT !.spaces = [i \in DOMAIN order |-> [p.spaces[order[i]] EXCEPT !.anchor = i]]]

\* Spaces are counted from one.
NormalizeSpaces(p) ==
  LET order == SpacesByUri(p)
      with(anchor) == {i \in DOMAIN order : p.spaces[order[i]].anchor = anchor}
      renumbered(f) == IF f.kind = "function" /\ with(f.space) # {}
                       THEN [f EXCEPT !.space = Greatest(with(f.space))] ELSE f
  IN [p EXCEPT
      !.spaces     = [i \in DOMAIN order |-> [p.spaces[order[i]] EXCEPT !.anchor = i]],
      !.extensions = [e \in DOMAIN @ |-> renumbered(@[e])]]

\* The function of a declaration, as a message shows it: what is not there
\* reads as zero.
ExtensionFunction(extension) ==
  IF extension.kind = "function" THEN extension
  ELSE [kind |-> "function", space |-> Unset, name |-> NoName, anchor |-> 0]

\* Variant: functions of a space are sorted by their numbers.
CompareAnchors(a, b) ==
  LET f == ExtensionFunction(a)
      g == ExtensionFunction(b)
  IN \/ a.kind = "function" /\ b.kind # "function"
     \/ /\ a.kind = b.kind
        /\ f.space < g.space \/ (f.space = g.space /\ f.anchor < g.anchor)

CompareExtensionFunctions(a, b) ==
  LET f == ExtensionFunction(a)
      g == ExtensionFunction(b)
  IN \/ a.kind = "function" /\ b.kind # "function"
     \/ /\ a.kind = b.kind
        /\ f.space < g.space \/ (f.space = g.space /\ Before(Names, f.name, g.name))

FunctionsByName(p) ==
  Sorted(DOMAIN p.extensions, Ordered(DOMAIN p.extensions,
    LAMBDA i, j : CompareExtensionFunctions(p.extensions[i], p.extensions[j])))

\* Functions are counted from zero.  Whatever is declared becomes a function.
NormalizeFunctions(p) ==
  LET order == FunctionsByName(p)
      function(i) == ExtensionFunction(p.extensions[order[i]])
      with(anchor) == {i \in DOMAIN order : function(i).anchor = anchor}
      renumbered(c) == IF Follows(c.path) /\ with(c.function) # {}
                       THEN [c EXCEPT !.function = Greatest(with(c.function)) - 1] ELSE c
  IN [p EXCEPT
      !.extensions = [i \in DOMAIN order |-> [function(i) EXCEPT !.anchor = i - 1]],
      !.calls      = [c \in DOMAIN @ |-> renumbered(@[c])]]

OutOfRange == "std::out_of_range"

Normalize ==
  /\ \/ /\ Visiting("spaces")
        /\ normal' = NormalizeSpaces(normal)
        /\ UNCHANGED errors
     \/ /\ Visiting("functions")
        /\ normal' = NormalizeFunctions(normal)
        /\ errors' = IF \A c \in ToSet(normal.calls) :
                          Follows(c.path) => \E f \in ToSet(normal.extensions) :
                                               ExtensionFunction(f).anchor = c.function
                     THEN errors ELSE {OutOfRange}
  /\ UNCHANGED <<table, data, text, read, back, again>>

-----------------------------------------------------------------------------
(* The converter: symbols for spaces and functions.                        *)

UnknownMapping == "Unknown mapping type case encountered."
Undefined      == "Reference of undefined function encountered."

VisitExtensionUri ==
  /\ Visiting("uris")
  /\ table' = DefineSymbol(table, plan.spaces[next].uri, <<"uri", next>>, "space")
  /\ data' = Append(data, SpaceData(plan.spaces[next].anchor))
  /\ UNCHANGED <<normal, text, read, back, again, errors>>

\* Variant: the short name is taken as it is.
DefineFunctionAsIs(t, extension, location) ==
  DefineSymbol(t, ShortName(extension.name), location, "function")

DefineFunction(t, extension, location) ==
  DefineUniqueSymbol(t, ShortName(extension.name), location, "function")

\* Anything but a function is an exception.
VisitExtension ==
  /\ Visiting("extensions")
  /\ LET extension == plan.extensions[next]
     IN IF extension.kind # "function"
        THEN /\ errors' = errors \union {UnknownMapping}
             /\ UNCHANGED <<table, data>>
        ELSE /\ table' = DefineFunction(table, extension, <<"extension", next>>)
             /\ data' = Append(data, FunctionData(extension.name, extension.space,
                                                  extension.anchor))
             /\ UNCHANGED errors
  /\ UNCHANGED <<normal, text, read, back, again>>

OfType(t, type) == {i \in DOMAIN t.symbols : t.symbols[i].type = type}

\* lookupFunctionReference: the first function with the number.
Calls(t, d, number) == First({i \in OfType(t, "function") : d[i].anchor = number})

VisitScalarFunction ==
  /\ Visiting("calls")
  /\ LET symbol == Calls(table, data, plan.calls[next].function)
     IN /\ text' = [text EXCEPT !.calls =
             Append(@, IF symbol = NoSymbol THEN NoName ELSE table.symbols[symbol].name)]
        /\ errors' = IF symbol = NoSymbol THEN errors \union {Undefined} ELSE errors
  /\ UNCHANGED <<normal, table, data, read, back, again>>

-----------------------------------------------------------------------------
(* outputFunctionsSection.                                                 *)

\* The name of a space; the first of two with one number.
SpaceName(t, d, space) ==
  LET symbol == First({i \in OfType(t, "space") : d[i].anchor = space})
  IN IF symbol = NoSymbol THEN NoUri ELSE t.symbols[symbol].name

\* Variant: spaces that are used but undefined are left out.
UsedSpacesDefined(t, d) ==
  LET used == {space \in {d[i].space : i \in OfType(t, "function")} : SpaceName(t, d, space) # NoUri}
  IN Sorted(used, Ordered(used,
       LAMBDA a, b : Before(Uris, SpaceName(t, d, a), SpaceName(t, d, b))))

\* usedSpaces: a set ordered by name, in which spaces of one name, and all
\* that have none, are the same.
UsedSpaces(t, d) ==
  LET first == {i \in OfType(t, "function") :
                  \A j \in OfType(t, "function") :
                    j < i => SpaceName(t, d, d[j].space) # SpaceName(t, d, d[i].space)}
      used  == {d[i].space : i \in first}
  IN Sorted(used, Ordered(used,
       LAMBDA a, b : Before(Uris, SpaceName(t, d, a), SpaceName(t, d, b))))

FunctionsOf(t, d, space) == {i \in OfType(t, "function") : d[i].space \in {NoSpace, space}}

Printed(t, d, space, functions) ==
  [ uri       |-> SpaceName(t, d, space),
    functions |-> [k \in DOMAIN functions |->
                     [name |-> d[functions[k]].name, as |-> t.symbols[functions[k]].name]] ]

\* Variant: functions are printed in the order they were defined.
SectionAsDefined(t, d, space) ==
  LET functions == FunctionsOf(t, d, space)
  IN Printed(t, d, space, Sorted(functions, Ordered(functions, <)))

\* By short name, and by name if two have the same.
Section(t, d, space) ==
  LET functions == FunctionsOf(t, d, space)
      short(i)  == t.symbols[i].name
      Less(i, j) == \/ Before(ShortNames, short(i), short(j))
                    \/ short(i) = short(j) /\ Before(Names, d[i].name, d[j].name)
  IN Printed(t, d, space, Sorted(functions, Ordered(functions, Less)))

Sections(t, d) ==
  LET used == UsedSpaces(t, d) IN [k \in DOMAIN used |-> Section(t, d, used[k])]

BadOptionalAccess == "std::bad_optional_access"

OutputFunctionsSection ==
  /\ Visiting("print")
  /\ text' = [text EXCEPT !.sections = Sections(table, data)]
  /\ UNCHANGED <<normal, table, data, read, back, again, errors>>

\* Printed from the parser's table, whose functions may have no space.
OutputTextAgain ==
  /\ Visiting("again")
  /\ LET t == read.table
         d == read.data
     IN IF \E i \in OfType(t, "function") : d[i].space = NoSpace
        THEN /\ errors' = errors \union {BadOptionalAccess}
             /\ UNCHANGED again
        ELSE /\ again' = [ calls    |-> [c \in DOMAIN back.calls |->
                             t.symbols[Calls(t, d, back.calls[c].function)].name],
                           sections |-> Sections(t, d) ]
             /\ UNCHANGED errors
  /\ UNCHANGED <<normal, table, data, text, read, back>>

-----------------------------------------------------------------------------
(* The parser: schemas come before the spaces in a printed text.           *)

NotAFunction == "is not a function reference."

VisitSchemaItem ==
  /\ Visiting("columns")
  /\ read' = [read EXCEPT
       !.table = DefineSymbol(@, plan.columns[next], <<"column", next>>, "column"),
       !.data  = Append(@, SpaceData(Unset))]
  /\ UNCHANGED <<normal, table, data, text, back, again, errors>>

FunctionLocation(section, k) == <<"function", section, k>>

DefineSpace(r, section) ==
  IF section.uri = NoUri THEN r
  ELSE [r EXCEPT
          !.table = DefineSymbol(@, section.uri, <<"space", r.numSpacesSeen + 1>>, "space"),
          !.data  = Append(@, SpaceData(r.numSpacesSeen + 1)),
          !.numSpacesSeen = @ + 1]

EnterExtensionspace ==
  /\ stage = "sections" /\ next \in DOMAIN text.sections /\ inside = 0
  /\ read' = DefineSpace(read, text.sections[next])
  /\ inside' = 1
  /\ UNCHANGED <<plan, stage, next, normal, table, data, text, back, again, errors>>

\* A function is of no space before its section is left.
VisitFunction ==
  /\ stage = "sections" /\ inside > 0 /\ inside <= Len(text.sections[next].functions)
  /\ LET function == text.sections[next].functions[inside]
     IN read' = [read EXCEPT
          !.table = DefineSymbol(@, function.as, FunctionLocation(next, inside), "function"),
          !.data  = Append(@, FunctionData(function.name, NoSpace, read.numFunctionsSeen)),
          !.numFunctionsSeen = @ + 1]
  /\ inside' = inside + 1
  /\ UNCHANGED <<plan, stage, next, normal, table, data, text, back, again, errors>>

\* Variant: the number is taken before it is counted on.
SpaceOfLate(r, section) == IF section.uri = NoUri THEN NoSpace ELSE r.numSpacesSeen - 1

\* A section without a URI leaves its functions without a space.
SpaceOf(r, section) == IF section.uri = NoUri THEN NoSpace ELSE r.numSpacesSeen

VisitExtensionspace ==
  /\ stage = "sections" /\ inside > 0 /\ inside > Len(text.sections[next].functions)
  /\ LET section   == text.sections[next]
         functions == {LookupSymbolByLocationAndType(
                         read.table, FunctionLocation(next, k), "function") :
                           k \in DOMAIN section.functions}
     IN read' = [read EXCEPT !.data = [i \in DOMAIN @ |->
          IF i \in functions THEN [@[i] EXCEPT !.space = SpaceOf(read, section)] ELSE @[i]]]
  /\ next' = next + 1
  /\ inside' = 0
  /\ UNCHANGED <<plan, stage, normal, table, data, text, back, again, errors>>

FunctionUsed(name) ==
  LET symbol == LookupSymbolByName(read.table, name)
  IN IF symbol \in OfType(read.table, "function") THEN symbol ELSE NoSymbol

VisitExpressionFunctionUse ==
  /\ Visiting("uses")
  /\ LET symbol == FunctionUsed(text.calls[next])
     IN /\ back' = [back EXCEPT !.calls =
             Append(@, [path     |-> plan.calls[next].path,
                        function |-> IF symbol = NoSymbol THEN 0 ELSE read.data[symbol].anchor])]
        /\ errors' = IF symbol = NoSymbol THEN errors \union {NotAFunction} ELSE errors
  /\ UNCHANGED <<normal, table, data, text, read, again>>

-----------------------------------------------------------------------------
(* outputExtensionSpacesToBinaryPlan, outputFunctionsToBinaryPlan.         *)

InOrder(positions) == Sorted(positions, Ordered(positions, <))

\* The functions space by space, those without one last.
FunctionsToBinary(t, d) ==
  LET functions == OfType(t, "function")
      Less(i, j) ==
        \/ d[i].space # NoSpace /\ (d[j].space = NoSpace \/ d[i].space < d[j].space)
        \/ d[i].space = d[j].space /\ i < j
      all == Sorted(functions, Ordered(functions, Less))
  IN [k \in DOMAIN all |->
        [ kind |-> "function", name |-> d[all[k]].name, anchor |-> d[all[k]].anchor,
          space |-> IF d[all[k]].space = NoSpace \/ SpaceName(t, d, d[all[k]].space) = NoUri
                    THEN Unset ELSE d[all[k]].space ]]

SpacesToBinary(t, d) ==
  LET all == InOrder(OfType(t, "space"))
  IN [k \in DOMAIN all |-> [anchor |-> d[all[k]].anchor, uri |-> t.symbols[all[k]].name]]

OutputToBinaryPlan ==
  /\ Visiting("build")
  /\ back' = [back EXCEPT !.spaces     = SpacesToBinary(read.table, read.data),
                          !.extensions = FunctionsToBinary(read.table, read.data)]
  /\ UNCHANGED <<normal, table, data, text, read, again, errors>>

Next ==
  \/ Normalize
  \/ VisitExtensionUri
  \/ VisitExtension
  \/ VisitScalarFunction
  \/ OutputFunctionsSection
  \/ VisitSchemaItem
  \/ EnterExtensionspace
  \/ VisitFunction
  \/ VisitExtensionspace
  \/ VisitExpressionFunctionUse
  \/ OutputToBinaryPlan
  \/ OutputTextAgain
  \/ NextStage

Spec == Init /\ [][Next]_vars

-----------------------------------------------------------------------------
(* What the converters write, and what nothing goes wrong with.            *)

AnchorsApart(list) == \A i, j \in DOMAIN list : list[i].anchor = list[j].anchor => i = j

\* Functions alone are declared, of declared spaces if any; no number is
\* taken twice; what is called is declared, and called from where the
\* normalizer looks.
Consistent(p) ==
  /\ AnchorsApart(p.spaces) /\ AnchorsApart(p.extensions)
  /\ \A e \in DOMAIN p.extensions :
       /\ p.extensions[e].kind = "function"
       /\ \/ p.extensions[e].space = Unset
          \/ \E s \in DOMAIN p.spaces : p.spaces[s].anchor = p.extensions[e].space
  /\ \A c \in DOMAIN p.calls :
       /\ Follows(p.calls[c].path)
       /\ \E e \in DOMAIN p.extensions : p.extensions[e].anchor = p.calls[c].function

\* The functions declared before e that have its short name.
Namesakes(p, e) ==
  {i \in 1..(e - 1) : ShortName(p.extensions[i].name) = ShortName(p.extensions[e].name)}

ShortNumbered(p, e) ==
  LET base == ShortName(p.extensions[e].name)
  IN IF Namesakes(p, e) = {} THEN base ELSE Numbered(base, Cardinality(Namesakes(p, e)) + 1)

\* No name in a text has two meanings.
NamesApart(p) ==
  /\ \A i, j \in DOMAIN p.spaces : p.spaces[i].uri = p.spaces[j].uri => i = j
  /\ \A i, j \in DOMAIN p.extensions : ShortNumbered(p, i) = ShortNumbered(p, j) => i = j
  /\ \A e \in DOMAIN p.extensions :
       /\ ShortNumbered(p, e) \notin ToSet(p.columns)
       /\ \A s \in DOMAIN p.spaces : p.spaces[s].uri # ShortNumbered(p, e)

-----------------------------------------------------------------------------
(* What a call means whatever the numbers: a URI and a name.               *)
Nothing == << >>

UriOf(p, space) ==
  LET spaces == {s \in ToSet(p.spaces) : s.anchor = space}
  IN IF spaces = {} THEN NoUri ELSE (CHOOSE s \in spaces : TRUE).uri

Function(p, number) ==
  LET declared == {f \in ToSet(p.extensions) : f.kind = "function" /\ f.anchor = number}
  IN IF declared = {} THEN Nothing
     ELSE LET f == CHOOSE f \in declared : TRUE IN <<UriOf(p, f.space), f.name>>

Meaning(p) == [c \in DOMAIN p.calls |-> Function(p, p.calls[c].function)]

\* A declared function by its URI and name.
FunctionOf(p, e) == <<UriOf(p, p.extensions[e].space), p.extensions[e].name>>

\* Nothing is declared twice under two numbers, all names have their place in
\* the order of strings, and each space has a function: a text shows no other.
IsDistinct(p) ==
  /\ \A i, j \in DOMAIN p.spaces : p.spaces[i].uri = p.spaces[j].uri => i = j
  /\ \A i \in DOMAIN p.spaces : p.spaces[i].uri \in ToSet(Uris)
  /\ \A e, f \in DOMAIN p.extensions : FunctionOf(p, e) = FunctionOf(p, f) => e = f
  /\ \A e \in DOMAIN p.extensions : p.extensions[e].name \in ToSet(Names)

SpacesUsed(p) ==
  \A s \in DOMAIN p.spaces : \E e \in DOMAIN p.extensions :
    p.extensions[e].space = p.spaces[s].anchor

ShortsKnown(p) == \A e \in DOMAIN p.extensions : ShortNumbered(p, e) \in ToSet(ShortNames)

Normalized(p) == NormalizeFunctions(NormalizeSpaces(p))

Passed(s) == Place(Stages, stage) > Place(Stages, s)

(* Renumbering a plan does not change what is called (ReferenceNormalizer.h:   *)
(* "renumbers ... in a consistent manner").                                    *)
NormalKeepsCalls == Passed("functions") => Meaning(normal) = Meaning(plan)

(* A plan comes back from its text with every call meaning the function it     *)
(* meant, one of two of the same short name in one space or in two included.   *)
CallsKept == Passed("build") => Meaning(back) = Meaning(plan)

(* The plan that comes back may have other numbers and declare in another      *)
(* order, but one normalization makes it equal to the plan that went in: what  *)
(* differencing tools need (ReferenceNormalizer.h).                            *)
NormalFormKept == Passed("build") => Normalized(back) = normal

\* Functions without a space are declared last, those with one first.
OneKindOfSpace(p) ==
  \/ \A f \in ToSet(p.extensions) : UriOf(p, f.space) = NoUri
  \/ \A f \in ToSet(p.extensions) : UriOf(p, f.space) # NoUri

\* No two functions of a space have their short names in another order.
ShortInOrder ==
  \A i, j \in OfType(table, "function") :
    data[i].space = data[j].space =>
      (Before(ShortNames, table.symbols[i].name, table.symbols[j].name)
         <=> Before(Names, data[i].name, data[j].name))

(* Printing and parsing normalize: numbers and order come back as the          *)
(* normalizer has them (tests/RoundtripTest.cpp compares with its result), as  *)
(* long as short names sort as the names do.                                   *)
TextIsNormal ==
  Passed("build") /\ OneKindOfSpace(plan) /\ ShortInOrder => back = normal

(* What the parser accepted prints as it was (TextPlanParserTest.cpp:          *)
(* WhenSerialized): sections, names and calls.                                 *)
SerializedAgain == Passed("again") => again = text

(* No pass reports anything, and nothing is thrown, on the way from a plan to  *)
(* a text and back (tests/RoundtripTest.cpp: ParsesOk, HasErrors({})).         *)
ConversionAccepted == errors \subseteq {BadOptionalAccess}

=============================================================================
