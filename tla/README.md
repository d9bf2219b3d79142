# A specification of the plan converter of substrait-cpp

substrait-cpp converts Substrait plans between their two forms: the protobuf
message (binary, or JSON) and the *text plan*, a language a person can read and
write. Both conversions work in the same way: a series of visitors fills a
symbol table, each pass relying on what the ones before it left there, and a
printer turns the table into the other form. These modules specify that core:
the symbol table, the two series of passes, the two of them one after the
other, and what becomes on the way of field and function references, of literals
and types, of what reads read, and of the details of relations; and, apart from that, the registry of functions
of `src/substrait/function`. Paths below are those in `src/src/substrait/textplan/`, or for `expression/`,
`function/` and `type/` in `src/src/substrait/`.

Contents: [the system](#the-system) · [the modules](#the-modules) ·
[the runs](#the-runs) · [the proofs](#the-proofs) ·
[differences](#where-code-and-documents-differ) ·
[what is left out](#what-is-left-out) · [plan](#plan)

## The system

### The parts

| Part | Code | State it keeps | Operations |
|---|---|---|---|
| Symbol table | `SymbolTable.cpp`, `Location.h` | the symbols in order of definition; an index by name (a map: the first entry wins); one by location (a multimap); a counter per name made unique | define, make unique, record at a second place, put below a parent query, alias, look up |
| Visitor framework | `converter/BasePlanProtoVisitor.cpp` | none; its order of visits decides every numbering | one visit method per message |
| Initial plan visitor | `converter/InitialPlanProtoVisitor.cpp` | the table, the relation being visited | defines a symbol for each relation, root, PlanRel, function, source, schema and field; puts subqueries below their relation |
| Pipeline visitor | `converter/PipelineVisitor.cpp` | the links in the blob of each relation (`RelationData`), a stack of scopes | links relations into pipelines |
| Printer, text | `SymbolTablePrinter.cpp`, `PlanPrinterVisitor.cpp` | the relation being printed, the number of subqueries met in it | prints pipelines, relations, schemas, sources, extension spaces |
| Printer, binary | `SymbolTablePrinter.cpp` | a count of the subqueries consumed | builds the message from the links |
| Text parser | `parser/SubstraitPlan*Visitor.cpp`, `parser/ParseText.cpp` | a table of its own, the errors, the scope | four visits of the parse tree: symbols, pipelines, details of relations, details of subqueries |
| Reference normalizer | `converter/ReferenceNormalizer.cpp` | none | renumbers function references and spaces of a message |
| Extensions and functions | `function/*.cpp` (of `src/substrait/`) | registries of signatures | load YAML, look a call up |
| Types, literals | `type/Type.cpp`, `expression/DecimalLiteral.cpp` | none | parse, print, convert |
| Plan files, error listeners, grammar | `common/`, `converter/LoadBinary.cpp`, `parser/LoadText.cpp`, `export/planloader` | files, lists of messages | I/O around the conversions |

### How they work together

```
 plan message --initial pass--> symbols --pipeline pass--> links --printer--> text
                                                                               |
 plan message <--builder-- links <--two detail passes-- links <--pipeline pass-+
                                                        <--symbol pass
```

Everything runs on one thread, call after call, and nothing survives a run. The
parts communicate through the symbol table alone: a pass records a symbol at
the address of a message or parse tree node, or by name, or below a parent with
a number, and a later pass looks it up by the same key. There is no concurrency
and no lost message here; what is hard is the protocol between passes:

- **two passes compute the same numbering independently**. The initial pass
  counts the subqueries of a relation in the table; the pipeline pass appends
  them to a list; the printer counts those it meets while it prints
  expressions; the parser's pipeline pass appends them again; the builder
  consumes that list by position. The plan survives only if all five meet the
  subqueries in one order;
- **links made one by one must form paths**: the printer and the builder follow
  them without a bound;
- **texts come from people**: relations without a pipeline, pipelines over
  relations that do not exist, names repeated across lines, sections in
  duplicate. The parser goes on after an error, on a table that is incomplete;
- **the same symbol under several keys**: what an early pass found must still
  be found by the next.

### What makes each part correct

| Part | Property | Where |
|---|---|---|
| Symbol table | no two subqueries of one parent share an index; symbols are found where they were recorded; lookups never change their answer; one name made unique twice gives two | `SymbolTableMachine` |
| Converter passes | independent numberings agree; each link is printed on exactly one line; an input is printed before its consumer; a subquery is printed with its own relation's name; no internal error | `BinaryToText` |
| Text parser | links of accepted texts are the arrows of the text; pipelines end; building ends | `TextToBinary` |
| Fields of relations | three programs that compute them agree; a reference means the same column before and after; no reference is refused | `FieldReferences` |
| Functions, spaces, normalizer | calls mean the same function under other numbers; what comes back is the normal form of what went in; an accepted text prints as it was | `FunctionReferences` |
| Literals, types in texts | what comes back is the literal that was printed, and what is printed can be read, with every exception named; a constant that somebody wrote is read as what it says; a decimal has the bytes of its number | `Literals`, `TypeTexts` |
| Schemas, sources, reads | a read comes back with the columns, the source and the filter it had; names lead to the sections that have them; what is printed can be read | `ReadSources` |
| Expressions, details of relations | a relation comes back with the conditions, groupings, measures, sorts and counts it had, and what is printed can be read, with every exception named; an accepted text prints as it was written | `RelationDetails` |
| Function lookup, types | a call finds an implementation exactly if one is declared for it; what is loaded later does not change the answer | `FunctionLookup`, `Types` |
| Both together | the plan comes back, and is the same | `RoundTrip` against `PlanConversion` |

## The modules

**`SymbolTable`** translates `SymbolTable.cpp` operation by operation, as
operators that take a table and return one. A table is a record of the
symbols, the two indexes and the counters; a symbol is known by its position.
`Insert` is `std::map::insert`, which leaves an entry that is already there,
and `InsertMulti` is `std::multimap::insert`, which keeps the order of insertion
among equal keys; both matter to later lookups. Operations find their symbol
again with `operator==` as in the code (`FindSymbolIndex`), by name, source
location and type. Modules of the passes keep a table in a variable and use
these operators, so all of them run on the same translation.

**`SymbolTableMachine`** lets a caller call any operation in any order, with any
symbol the table owns: the most general user of the table. `handedOut` is a
history of the answers of `getUniqueName`, which the table itself forgets.
**`SymbolTableProofs`** holds the theorems about it, and **`SymbolTableLemmas`** what every
other proof about a table needs: what each operation does to a table in which every name is that of one
symbol, and what a lookup then finds; besides, what a sequence made of sequences one after the other has at which place.

**`ProtoPlan`** defines what a plan message is to the passes: nodes (relations
and subquery expressions) known by their address, and roots. `Inside` is what a
visit method of `BasePlanProtoVisitor` goes on to, in its order: filters, sorts,
aggregates and reads visit their expressions before their input, joins and projects
after. `IsPlan` says what every message is: each node stands in one place, below the roots. That
nodes are numbered in the order in which a visit leaves them is a choice of
addresses, to which no pass but a proof refers; the needles of an IN, which no visit comes to, have the
numbers above. `Tree` is the value of a plan, what `EqualsProto` compares; whatever a
message says besides its inputs and subqueries (names, literals, field
references, functions) is its `body`, carried along uninterpreted.

**`BinaryToText`** is `parseBinaryPlan` and `SymbolTablePrinter::outputToText`.
A pass is a descent of visit methods: `visits` is the stack of those being run, the innermost last, with
how many of the messages inside each have been visited and the scope it was called in, and
every action calls the next (`Enter`) or returns from the innermost (`Leave`). What a method does before
it visits what is inside it is part of the first, what it does after it of the second:

| Action | Code |
|---|---|
| `EnterSubquery` | `BasePlanProtoVisitor::visitSubquery`, in either pass |
| `InitialEnterRelation`, `InitialVisitRelation`, `InitialVisitSubquery`, `InitialVisitRelationRoot`, `InitialEnterPlanRelation`, `InitialVisitPlanRelation` | `InitialPlanProtoVisitor::visitRelation`, `visitExpression`, `visitRelationRoot`, `visitPlanRelation` |
| `LinkPlanRelation`, `LeavePlanRelation`, `LinkRelation`, `LeaveRelation`, `LinkSubquery` | `PipelineVisitor::visitPlanRelation`, `visitRelation`, `visitExpression` |
| `BeginPipelines`, `BeginPrint` | `parseBinaryPlan`, from one visitor to the next |
| `OutputPipelinesSection`, `PrintRelation`, `OutputRootSection` | the sections of `SymbolTablePrinter`, with `PlanPrinterVisitor` for a relation |

`data[s]` is the blob of symbol `s` (`RelationData`). The message itself, the
copy of a relation that the table keeps, and the message of a root have
locations of their own, as they have addresses in the code. **`BinaryToTextProofs`** holds the theorem about
the two passes, **`ConverterTextProofs`**, on top of it, those about the text.

**`TextToBinary`** is `parseStream` and `outputToBinaryPlan`. A text is a list
of lines of names, a list of relation sections with their subqueries, and a
list of root sections. The parse tree is visited as the code does it:

| Stage | Actions | Code |
|---|---|---|
| symbols | `DefineRelation`, `DefineRoot` | `SubstraitPlanVisitor` |
| pipelines | `UpdateRelationSymbol` on the way to the left end of a line, `VisitPipeline` on the way back | `SubstraitPlanPipelineVisitor::visitPipeline`, recursive |
| relations | `EnterRelation`, `VisitSubquery` | `SubstraitPlanPipelineVisitor::visitRelation`, `visitExpression...Subquery` |
| details, subqueries | `VisitDetails`, `BeginSubqueryDetails`, `VisitSubqueryDetails`, `VisitUse` | `SubstraitPlanRelationVisitor`, `SubstraitPlanSubqueryRelationVisitor`: the second runs only if there are no errors |
| build | `OutputToBinaryPlan` | `addInputsToRelation`, `addInputsToExpression` |

`todo` is the stack of the visitor: a visit that goes deeper puts what is below in front of what is left.
`IsText` is what the grammar says of a text (`TextsAssumption`): a line has a name, names have no dot, and an
expression of a relation is one of those written in it. **`TextToBinaryProofs`** holds the theorems.

The build is a pure function of the links but it can throw, and it can recurse
without end; the outcome says which. If a text allows both, the model leaves
open which comes first.

**`PlanConversion`** is what the conversions promise: a plan goes in, and the
same plan comes back, once. **`RoundTrip`** puts the two machines together:
it extends `BinaryToText` and instantiates `TextToBinary` on the text that
module prints, with a table of its own, and claims to implement
`PlanConversion` under `back <- output`. Which plans are promised to come back says `Returns`, a condition on
the messages of a plan: one root (or several without names), no set relation, no subquery in the filter of a read, on the left
of a comparison or an IN, and no EXISTS or IN that is not the argument of a function. The converter prints the
others too, and for those `GoAstray` allows every outcome but the plan itself, so the condition is not narrower than it need be:
what it leaves out is refused, lost or changed, as listed [below](#where-code-and-documents-differ).

**`FieldReferences`** is the part of the same visits that `RoundTrip` leaves in
the body: which field a reference means. In a message it is a number, and a
number of queries to step out of; in a text it is a name. A plan is here a
sequence of relations in the order they are printed, inputs and subqueries
first, with their references and emits, and four visits go through it:

| Action | Code | Does |
|---|---|---|
| `UpdateLocalSchema` | `InitialPlanProtoVisitor::updateLocalSchema` | computes the fields of a relation from numbers: those of its inputs, those it makes, those it emits |
| `PrintRelation` | `PlanPrinterVisitor`, `lookupFieldReference`, `lookupFieldReferenceForEmit` | numbers into names |
| `VisitRelation` | `SubstraitPlanRelationVisitor::visitRelation` | names into numbers, but not in the relation of a subquery |
| `VisitRelationAgain` | `SubstraitPlanSubqueryRelationVisitor::visitRelation` | clears the fields (`resetSchema`) and starts over, looking on in the queries around |

`NextPass` goes from one to the next, and only without errors. `Columns` and
`Meaning` say what the numbers mean without any visitor: every field is a column
of a read, something made, or a copy. The properties compare the visits with
each other (`SchemasAgree`) and with that (`SymbolsAreColumns`,
`ReferencesKept`). The module is not composed with `RoundTrip`: the two share
the order of relations, which `InputsPrintedFirst` establishes there.

**`FunctionReferences`** does the same for functions, which a message declares
with numbers and a text with short names in a section for each space. It has
the normalizer in front, and ends by printing the parsed text once more:

| Action | Code | Does |
|---|---|---|
| `Normalize` | `ReferenceNormalizer::normalizeSpaces`, `normalizeFunctions` | sorts declarations, renumbers them, then what refers to them, along the fields of messages it follows |
| `VisitExtensionUri`, `VisitExtension` | `InitialPlanProtoVisitor` | symbols for spaces, and for functions under short names made unique |
| `VisitScalarFunction` | `PlanPrinterVisitor::lookupFunctionReference` | a number into a name |
| `OutputFunctionsSection` | the function of that name in `SymbolTablePrinter.cpp` | a section for each space used, both sorted |
| `VisitSchemaItem` | `SubstraitPlanVisitor::visitSchema_item` | symbols for columns, which a printed text has first |
| `EnterExtensionspace`, `VisitFunction`, `VisitExtensionspace` | `SubstraitPlanVisitor::visitExtensionspace` up to its children, `visitFunction`, and what follows the children | symbols and numbers for spaces and functions, in the order of the text; a function has no space before its section is left, and is then found by its location |
| `VisitExpressionFunctionUse` | both relation visitors | a name into a number |
| `OutputToBinaryPlan` | `outputExtensionSpacesToBinaryPlan`, `outputFunctionsToBinaryPlan` | declarations from symbols |
| `OutputTextAgain` | `outputToText` on the parser's table | the text once more |

Both tables are those of `SymbolTable`, so names hide each other as they do
in the code. `NextStage` goes on from stage to stage without errors. What a call
means without any number is `Meaning`: a URI and a name. `Consistent` and `NamesApart` say of a plan what the
properties need: no number is declared twice, what is named or called is declared, and called from a field the normalizer
follows; no URI, column or numbered short name is another of them. `IsDistinct` (no URI and no function of a space is declared
twice), `SpacesUsed` (no space is declared without a function) and `ShortsKnown` (numbered short names are strings
with a place in the order) are about lists as a whole. The plans of the run are such plans
(`PlansAreSound`), and what becomes of others is in the list of differences below. **`FunctionReferencesProofs`** and,
on top of it, **`FunctionTextProofs`** hold the theorems.

**`Types`** has the types as they are written (a name, a question mark, parameters) and the objects made of
them; **`TypeMatching`** is `ParameterizedType::decode` and `isMatch` on those, where every match asks for the
class first. **`FunctionLookup`** takes decoding and matching as constants, to which the run gives the operators
of `TypeMatching`: nothing about loading and asking depends on what a match compares. It is `Extension::load` (actions
`AddScalarFunctionImpl`, `AddAggregateFunctionImpl`, `AddTypeVariant`, each with the
decoding of its declaration and the exception it may throw, and `NextFile`) and
`lookupFunction` with `tryMatch`. `Describes` says of a declaration as written which
calls it takes; the properties hold after every declaration read, so also for
registries that were loaded in part. **`FunctionLookupProofs`** holds the theorems.

**`TypeTexts`** is `PlanPrinterVisitor::visitType` and `SubstraitPlanTypeVisitor`: the
type of a message as it is written, and what is written as the type of a message, on top of `decode`
from `TypeMatching`; and `UnvisitedType`, the types `BasePlanProtoVisitor::visitType` throws at. An operator that may report returns what it reports next to its value.

**`Literals`** takes a literal to its text and back, and once more, or starts from a constant that
somebody wrote:

| Action | Code | Does |
|---|---|---|
| `PrintLiteral` | `PlanPrinterVisitor::visitLiteral`, `DecimalLiteral::toBaseString`, `stringEscape` | a literal into a constant with a type behind an underscore |
| `VisitThrows` | `BasePlanProtoVisitor::visitLiteral`, `visitType` | a literal, or a type inside it, that is not set: nothing is printed |
| `ParseConstant` | `visitConstant` and the methods it calls in both relation visitors, `escapeText`, `DecimalLiteral::fromString`, `isValid` | a constant into a literal: numbers by the type, strings with their escapes, `{...}` as list, map, structure or interval |
| `Again` | `outputToText` on what was parsed | a literal that came back without a report is printed in turn |

Numbers are integers, in tenths where a text may have a fraction; a decimal has bytes, least first, and
both their number (`Width`) and their size (`Byte`) are constants. Characters matter to escapes only,
and stand in sequences. Negative decimals and booleans, which documents say can be read, are no exceptions of
`TextsRead` but left out of it: `DecimalsRead` says what is promised of decimals. Every exception is an operator of its own: `Loses` is what comes back
different without a report, `Unreadable` what is printed without a report and refused,
`Misread` what is taken for something else. The properties are equivalences, so they say also
that each exception does occur, and that there are no others.

**`ReadSources`** follows what the reads of a plan read, from the initial pass to the second of the
parser's detail passes. Its table is that of `SymbolTable`, so schemas, columns, sources and
tables hide each other by name as in the code.

| Action | Code | Does |
|---|---|---|
| `VisitRead` | `InitialPlanProtoVisitor::visitRelation`, `visitReadRelation`, `visitNamedStruct` | names the schema and the source of a read, defines its columns and tables; throws for a column type that is not set, and for a read without a source |
| `OutputToText` | the schema and source sections of `SymbolTablePrinter.cpp`, `PlanPrinterVisitor::visitReadRelation`, `visitLocalFiles` | sections, and the names in the relation |
| `ParseStream` | the grammar, `parser/SubstraitPlanParser.g4` | only where it has no room for what the printer writes |
| `VisitSchemaDefinition`, `VisitSourceDefinition`, `EndSections`, `VisitRelation` | `SubstraitPlanVisitor` | symbols for sections, columns, tables and files |
| `VisitRelationDetails`, `VisitThrows`, `EndVisit` | `visitRelationUsesSchema`, `visitRelationSourceReference`, `visitRelationFilter` of both relation visitors | the message of the read, made anew by each visit |
| `Again` | `outputToText` on the parsed plan, as a message | the way once more |

**`RelationDetails`** takes one relation with all that stands in it to its text and back, and once
more, or starts from a text that somebody wrote. A text is a tree as the grammar has it; words
are the leaves of it, and fields, functions and literals are words, since other modules follow those.

| Action | Code | Does |
|---|---|---|
| `VisitFilterRelation`, `VisitFetchRelation`, `VisitProjectRelation`, `VisitJoinRelation`, `VisitCrossRelation`, `VisitSortRelation`, `VisitAggregateRelation` | the methods of these names in `PlanPrinterVisitor.cpp`, with those for the expressions in them | a relation into details |
| `PrintThrows` | `BasePlanProtoVisitor.cpp` | a plan with what no visitor knows is an exception in the first pass that meets it |
| `ParseStream` | the grammar, `parser/SubstraitPlanParser.g4` | only where it has no room for what the printer writes |
| `VisitRelationFilter`, `VisitRelationExpression`, `VisitRelationGrouping`, `VisitRelationJoinType`, `VisitRelationSort`, `VisitRelationCount`, `VisitRelationMeasure` | the methods of these names in both relation visitors | a detail into a field of the message, or a report |
| `MeasureCrashes` | `visitMeasure_detail` | a report at a name that is not there |
| `EndVisit` | `parseStream`, `visitRelation` | the second visit makes the message anew; an aggregate gets its set of groupings |
| `Again` | `outputToText` on the parsed plan, as a message | the way once more |

An operator that may report returns what it reports next to its value (`With`, from `TypeTexts`), and
`Lift`, `Lift2` and `All` make values of such values.

The `MC` modules hold the plans and texts to check. `MCPlans` generates *every*
plan of given node shapes up to a number of messages, in the manner of reverse
Polish notation, so no tree is left out by hand. Operators named *Variant* in a
comment are plausible mistakes, kept to show that the properties would catch
them; nothing else refers to them.

## The runs

| Run | Checks | Size | Shows |
|---|---|---|---|
| `symbol_table` | `TypeOK`, `SubqueryIndexUnique`, `FoundWhereItIs`, `AnswersApart`, `LookupsAreStable` | 975 000 states | the table keeps its promises under every short sequence of calls, and when two answers of `getUniqueName` can be equal |
| `hand_written` | `ParserTypeOK`, `PipelinesEnd`, `EveryArrowKept` | 191 000 | links of texts nobody's printer wrote |
| `round_trip` | `SubqueriesAgree`, `SubqueryNamesItsRelation`, `InputsPrintedFirst`, `EachInputOnOneLine`, `RefinesConversion` | 125 000 | the numberings of the passes agree, the lines cut the plan into paths, and a plan comes back unchanged exactly if `Returns` says so |
| `field_references` | `SymbolsAreColumns`, `SchemasAgree`, `ReferencesKept`, `TextAccepted` | 82 000 | references survive the way from number to name and back, whatever the relations between |
| `function_references` | `NormalKeepsCalls`, `CallsKept`, `NormalFormKept`, `TextIsNormal`, `SerializedAgain`, `ConversionAccepted` | 172 000 | calls survive the normalizer and the way from number to name and back, and normalizer, printer and parser agree on numbers they compute independently |
| `function_lookup` | `LookupTypeOK`, `FindsWhatIsDeclared`, `AnswersStay` | 1 950, each asked 104 calls | lookup finds exactly what is declared, whatever is loaded and in which order |
| `literals` | `LiteralTypeOK`, `LiteralsKept`, `TextsRead`, `DecimalsAsWritten`, `ConstantsRead` | 19 000 | literals come back and constants mean what they say, but for what is listed |
| `reads` | `ReadTypeOK`, `ReadsKept`, `TextsRead`, `NamesFollowed` | 67 000 | reads come back, and names lead to what has them, but for what is listed |
| `details` | `DetailTypeOK`, `RelationsKept`, `TextsRead`, `TextKept`, `AcceptedPrinted` | 64 000 | relations come back and texts print as written, but for what is listed |
| `circles`, `nested_subquery`, `negative_decimal` | one property each | | the differences below |

**Bounds and why they are enough.**
`symbol_table`: `MaxSymbols` 2 symbols, `MaxLocated` 2 at one of 2 locations,
`MaxIndex` indexes up to 2, `MaxHandedOut` 3 unique names. Every property
relates at most two symbols, and two symbols can share a name, a location, a
type or a parent in every combination, equal ones included (the second is then
not reachable by `operator==`, as in the code); index 2 lets a symbol be put
below the same parent again. Locations are interchangeable, so permuting them is a symmetry. The bounds
are guards of the machine, and the theorems hold for all values of them.
Names are asked for as `atan` and as `atan2`, which is also what a second `atan` is called, and given as
`atan2`: a name can be the numbered form of another one, answered or given.
`hand_written`: all texts of two lines of two or three of the names `a`, `f`, `g`, `root`
(so lines that share, repeat or cross names), of three full lines over the same three
names, of three arrows with a join, and one-line texts whose sections are
missing, doubled, have no root, two roots, or name a relation that does not
exist or themselves. Three lines are needed to tell "the order of linking keeps
cycles out" from "each pair of lines is checked".
`round_trip`: all plans of up to six messages over reads, filters, projects, joins, sets and every kind of
subquery, with up to two roots, root or plain `rel`, named or not: six is the first size at which
there are two subqueries in one relation, or one inside the left side of
another, each with a relation below and one below the outer one. Besides, all trees of four over every printable
kind of relation, all plans of up to six over joins, filters with one or two subqueries and projects
with one, and all of up to five over every kind of subquery in the relations that hold one.
`field_references`: every stack of two of filter, project (a copy, something
computed, or both, and three emits), aggregate (up to two groupings, a measure,
two emits) and join over a read of two columns, with every choice of
references; a filter with a subquery over a read, an aggregate or a join, the
reference to the query around being on the relation of the subquery or on one
below it, past reads and projects; and subqueries two deep with references one
and two steps out. Two relations are enough for a field to be made, copied or
emitted by one and used by the next, and every visit looks at one relation and its
inputs only; two columns are enough to tell a wrong number from a right one.

`function_references`: every way to declare up to three functions of two
spaces and of none, in any order, with spaces in any order and numbered up or down,
and functions numbered up from zero or down to one. Their names are two of one short name,
and one that looks like another with a number (`atan2`; it is not declared next to `atan` twice,
whose second would get the same name). Each function is called once: in a project, in a measure,
in a subquery. Three functions are enough for two of a
short name with a third between them, in one space and in two. Every space is used.
`function_lookup`: every function of up to two arguments of few types, of one argument of
every kind of type, variadic ones with bounds 0 to 2, and aggregates with and without an intermediate type,
alone; and two files with two overloads, an aggregate and types of the same or other names. They are
asked every call of up to two simple types and of one nested type. A match looks at one
implementation and one argument at a time, and the order matters between two.
`literals`: every kind of literal with numbers at both ends of its range and around zero,
strings of up to three characters from a quote, a backslash, letters that escape and one that
does not, every kind with and without null; constants of every form with every type, nested once.
Bytes have four values and a decimal two of them (`Byte`, `Width`), which is enough for a
carry, a sign and a number that does not fit; floats are printed with two digits (`Digits`).
`later` says whether another string follows in the text, which only a string that does not end asks. What comes back
without a report is printed and parsed again (`MaxTrips` 2): what settles does so in one trip.
`reads`: two reads of every schema with every source, and three of the plainest. Schemas and sources
are chosen to collide: columns and tables named as the converter will name the schemas, sources and reads
that follow; numbers of names and types that differ; every format and path; the same file twice. Texts
have up to two sections out of eleven and two reads. A name hides another one between two sections, and
a third read shows that what is numbered is numbered past two.
`details`: every form of expression, with and without each of its parts, in every place of every kind of
relation, next to a plain one where the place holds several; every word of every enumeration. Texts have up to
two details of any kind in any kind of relation, right or wrong, and a third next to a measure; measures
have up to three details of their own. A detail is refused for its kind or because there was one before,
which two show, and a measure is what three details make of it.

Types are checked where a step could leave them, in the table, the parser, the registry, literals, reads and
details; in the other modules a value of a wrong type ends a run with an error, and the properties
compare the values with what they should be.

`CHECK_DEADLOCK FALSE` everywhere: a conversion ends, and a bounded caller of
the symbol table runs out of calls.

**Fairness.** Only `RoundTrip` and `PlanConversion` assume any: weak fairness of the whole
next-state relation. The conversions are one thread that runs each pass to its
end without waiting for anything, so a step that can be taken is taken.
`RefinesConversion` thus also says that no pass is ever stuck, refuses or
fails on a plan that `Returns`.

## The proofs

Each theorem says of every value of the constants what the run says of a small instance.

### The symbol table

`SymbolTableProofs`: any number of symbols, names, locations and types, and any values of the bounds.

| Theorem | Property |
|---|---|
| `TypeCorrect` | `TypeOK`: in particular every position in the two indexes is that of a symbol, so `symbols_[index]` never reads past the vector |
| `LookupsStay` | `LookupsAreStable` |
| `FoundWhereItIsAlways` | `FoundWhereItIs` |
| `SubqueryIndexesUnique` | `SubqueryIndexUnique` |
| `AnswersAreApart` | `AnswersApart`: two equal answers are to two bases, and with two numbers |

They rest on the assumptions of `SymbolTableMachine`: the numbered forms of the names asked for are
names, `UnknownLocation` is no location of a plan, the bounds are naturals, and, for `AnswersAreApart` alone,
what appending the digits of a number does (`NumberedAssumption`): it changes a name, and of base and number either
one and the result tell the other. That the result tells both is not assumed, because it does not.

*The argument.* `TypeOK` alone is not inductive, because a numbered name is in
`Name` only as long as the counters stay within the calls answered:
`TypeInv` adds that (`CountsBounded`). Each operation has a lemma that it keeps
the table well formed (`DefineSymbolOK`, `AddPermanentLocationOK`, ...).
For the lookups, `Grew(t, u)` says what every operation does: entries of the
name index stay, positions at a location are only appended to, symbols keep
name, source and type. `StepGrows` shows each step does only that, and
`GrewFoundAgain` that lookups of `u` then answer as those of `t`.
`FoundWhereItIs` and `SubqueryIndexUnique` are inductive together with
`TypeInv`; the second because the new index is above all those taken
(`HighestIsGreatest`), the symbol's own old one included.
`NamesInv` ties each answer to its base and counter, and says that no two answers have both in common, because a
counter only grows. Equal answers with one base would have two numbers, and equal answers with one number two
bases; `NumberedAssumption` excludes both, so what is left is a base that reads as the numbered form of another.
That this does occur, `atan`, `atan`, `atan2` show: `getUniqueName` does not keep more than
`AnswersApart`, although its comment promises more.

### The converter

`BinaryToTextProofs` and `ConverterTextProofs`: any plan (`PlansAssumption`): any number of roots and relations, with any
number of subqueries in each, one inside the other to any depth of queries and expressions.

| Theorem | Property |
|---|---|
| `NumberingsAgree` | `SubqueriesAgree` |
| `InputsAreFirst` | `InputsPrintedFirst`, if `NumberedKindsAreFresh` |
| `LinesAreThePlan` | `EachInputOnOneLine`, if also `EveryMessageVisited` |
| `SubqueriesAreNamed` | `SubqueryNamesItsRelation`, if also `NoSubqueryInNeedle` |

These are all the safety properties of the module. They rest on `PlansAssumption`, that every plan is one in the sense of
`IsPlan`, and on `LocationsAssumption`, that no message is at `UnknownLocation`, which is the null pointer in the code. TLC
evaluates both for all plans of the runs. The hypotheses are about plans and names alone, and hold for the plans of the runs:

- `NumberedKindsAreFresh`: no kind of relation or of root looks like a numbered one, as `atan2` does next to `atan`. Those the
  converter asks `getUniqueName` for are a fixed list of words without digits;
- `EveryMessageVisited`, `NoSubqueryInNeedle`: there are no subqueries among the needles of an IN, to which
  `BasePlanProtoVisitor` does not go on although the printer does. Plans with some print an internal error, as said below.

*The argument, two numberings.* The two passes never meet: one writes an index into the table when it leaves a subquery, the other
appends to a list. `NumberingInv` measures both by one number `d`: the nodes left so far are the first `d`
(`CallsOK`, with `LeftBy` for the innermost method). `SymbolsOK` says that exactly the relations among them have a symbol, recorded once at their
message, so what a lookup by message finds is that symbol and stays it. `IndexesOK` says that the subqueries among
them are below the relation they are in (`Around`), numbered upwards in the order in which they were left, without
a gap; the index `setParentQueryLocation` takes from the table is the next one because what is left is always a
first part of the order. `ListsOK` says of the lists that they have the same subqueries at the same
numbers, as far as the second pass has come. At the end of both, `d` is all nodes, which is the property.
None of this holds without the scopes: that the method around a subquery has the relation in `Around` for its
scope is part of `CallOK`, and is what a scope that is not restored would break.

*The argument, the text.* `TextInv` follows the links from the plan to the lines. `NamesOK` says that a symbol has the name its
type and kind had asked for so often (`NameAs`), so that no two symbols share one: only then does a name on a line stand for one relation.
`AllLinked` says at the end of the second pass, node by node, what the blob of each symbol holds.
`PlanIsForest` turns that into a statement about symbols alone: each is `Tied` to at most one consumer, and the
inputs of a symbol come before it in the table, because a visit leaves them first (`IsForest`). For any forest the lines
`pipelineToPath` makes are paths (`IsStored` from the top down, `IsPrinted` as reversed), ascend in the table (`Ascends`), and have each
link once (`IsCut`): a link into a relation with one input is in the middle of the one line that reaches it, any other
starts a line of its own. `InputsAreFirst` then needs only that relations are printed in the order of the
table (`RelationsOK`); `LinesAreThePlan` that the names of two links differ if the links do.

For `SubqueriesAreNamed` the printer's order is compared with the visit's. `Subqueries` recurses over expressions. `MetInOrder`
says of every relation that the subqueries the printer has met, in order, are those in whose `Around` it is, by their
numbers: each of those inside a subquery's expressions before it, as the visit leaves it after them.
`UsesInv` carries that through the printing: the number the printer counts to is the index the first pass gave (`UseFound`).

### The text parser

`TextToBinaryProofs`: any text the grammar allows (`TextsAssumption`): any number of lines of any length, with
names repeated in a line and across lines at will, relations doubled or missing, any number of roots.

| Theorem | Property |
|---|---|
| `ParserTypesCorrect` | `ParserTypeOK` |
| `EveryPipelineEnds` | `PipelinesEnd` |
| `EveryArrowIsALink` | `EveryArrowKept` |

*The argument* has three layers, each inductive on top of the one before. `TableInv` says where the visit is and
what the table then holds: `todo` has the visits of the stage, and on a line one name to look up follows
the links on the way back (`Stacked`); every name is that of one symbol, of one type (`NamedTable`,
`TypesByName`); and a place of a line is recorded exactly if its name has been looked up (`PlacesInv`), so `At`
finds the neighbour and nothing else. `DataInv` says that each symbol has a blob whose links lead to symbols of
relations: never to the symbol of `root.names`, whose blob the code keeps elsewhere. `ResultInv` is about errors and output.
Together they give `ParserTypeOK`, which is not inductive alone: a link is made to what a lookup by location finds.

`LinksInv` is `ArrowsInv` and `PipelinesEnd`. Nothing in the code looks for a circle across lines; that none is
made takes two facts about the line being linked (`LineInv`): no name already linked on it comes again further
right, and its first name continues nothing, because a name that continued something was refused when the
visit came to it. `PipelinesEnd` says that no set of symbols is closed under continuing. If a new link closed one, the set
would have in it the name on the left of the link, and along the line every name down to the first, which continues nothing.
An arrow already made stays because a second continuation is refused (`ArrowKept`).
`PipelinesEnd` is about `continuingPipeline`; over the ends of lines (`newPipelines`) texts do run in circles, as the run `circles` shows.

### The function registry

`FunctionLookupProofs`: any files with any declarations, any decoding and any matching.

| Theorem | Property |
|---|---|
| `RegistryCorrect` | `LookupTypeOK` |
| `DeclaredIsFound` | `FindsWhatIsDeclared`, if `MatchesAsWritten` |
| `FirstDeclaredStays` | `AnswersStay` |

`LoadsAssumption` says that a load is a sequence of files, and a file one of declarations in three sections. `RegistryInv` ties
each implementation to the declaration it was made of, and each declaration read to its place in the vector;
the two directions of `FindsWhatIsDeclared` use one each. `MatchesAsWritten` is what one declaration by itself
must do, and is about `decode` and `isMatch`, which recurse: TLC evaluates it for every declaration and call of the run
(`MatchingAssumption` in `MCLookup`). The theorem adds what a registry of many can get wrong.
`AnswersStay` needs no invariant, only that vectors grow at their end and that the first match is taken.

### Functions and their numbers

`FunctionReferencesProofs` and `FunctionTextProofs`: any plan (`PlansAssumption`) with any number of spaces, functions, columns and
calls, in any order, numbered in any way; any order of strings (`OrdersAssumption`) and any short names.

| Theorem | Property |
|---|---|
| `NormalizingKeepsCalls` | `NormalKeepsCalls`, if plans are `Consistent` |
| `CallsComeBack` | `CallsKept`, if they are `Consistent` and have their `NamesApart` |
| `ConversionsAccept` | `ConversionAccepted`, likewise |
| `NormalFormComesBack` | `NormalFormKept`, if they are also `IsDistinct` and `SpacesUsed` |
| `TextNormalizes` | `TextIsNormal`, likewise |
| `PrintsAsItWas` | `SerializedAgain`, if also `ShortsKnown` |

The hypotheses are about plans alone and are checked of every plan of the run. Without them the properties are false, in
the ways listed below (`atan2` next to two `atan`, a column with the name of a function, two declarations of one URI, a
grouping that calls; a space without functions is in no text, and two declarations of one function
are two equal elements of a sort).

*The argument.* Three sorts decide about numbers: the normalizer's, the printer's of sections and that of the functions in
one. `SortedIs` says of each that it lists every element exactly once, and nothing behind what it is before; that
there is such a list at all is `SortedExists`, from a first element of every finite set (`SetHasFirst`, by
least cardinality). Which of several equal elements comes first is left open, and no theorem depends on it.

For the normalizer that is all: `SpacesNormalized` and `FunctionsNormalized` say that a renumbered reference leads to the
same place of the declarations as before, as both are renumbered by one order.

For the way to text and back, `CallsInv` follows a function from place to place. `Converted` says what the converter's table
holds after so many spaces and functions: each at its place, with its number, under the name that `ShortNumbered`
computes from the declarations alone, since the counter behind `getUniqueName` is how often a short name has been asked for
(`Counted`). `Placed` says that the sections have each function in exactly one line, below the URI of its
space. `Parsed` says what the parser's table holds after so many sections and lines: the functions numbered as they
were met, each found by its name and at its location, those of sections left with their space, those of the open
one without. `CallsBack` says that each call read so far names a function, and has the number of what stands at
that function's place. `CallMeansWhatItDid` goes through all four: number to symbol, symbol to line, line to symbol, and by
`FunctionsWritten` and `SpacesWritten` symbol to declaration.
`NamesApart` is used where a name becomes a symbol again: lookups find the first symbol of a
name, be it a column or a URI.
`ConversionsAccept` needs the invariant too: only the stages know that what a call asks for is there to be found.

The theorems of `FunctionTextProofs` say that whole lists are equal, and all go through `AscendingOnce`: there is
one list of given elements that ascends in a strict order. What each sort leaves open is which of two equal elements
comes first; `IsDistinct` and `NamesApart` say that there are no two.

`IsNormal` describes a normalized plan without the normalizer: spaces ascend by URI and are numbered from one,
functions ascend by the place of their space and by name and are numbered from zero. `SameContent` compares two plans by what
they declare and mean, whatever the numbers. `OneNormalForm` is that two plans in normal form with the same content are the same
message, and `NormalizedIsNormal` that the normalizer leaves a plan in it, with the content it had. For
`NormalFormComesBack` it remains that the content comes back (`PlanComesBack`): the parser knows exactly the spaces and functions of the
plan, each once. Numbers are of no concern there; `TextNormalizes` is about them. `OrderInv` says in addition to
`CallsInv` that the parser counts without gaps and in the order of the text (`CountedFrom`, `SpacesFollow`,
`FunctionsFollow`), and the text is in the order of the normalizer (`SectionsInOrder`, `FunctionsInOrder`, which needs
`ShortInOrder`), so what is built is in normal form as it stands (`BuiltInOrder`).
`PrintsAsItWas` compares the parser's table with the text: the URIs of the spaces its functions have, then the lines of each
section, then the names of calls (`UrisPrintedAgain`, `SectionAgain`, `CallsAgain`). `AgainInv` adds that the second
text is of that table and that nothing was printed unless every function had a space.

### What is only model-checked

`BuildingEnds` and the build (`output`) of `TextToBinary`, `RoundTrip`, and everything in `FieldReferences`,
`TypeTexts`, `Literals`, `ReadSources` and `RelationDetails`. Most of them recurse over trees of any depth, and what a
recursive definition computes on all of them cannot be proved with the installed provers; the liveness that is part of
`RefinesConversion` is beyond them as well.

## Where code and documents differ

Each of these is a run that TLC ends with a counterexample:

- **`circles`** (`BuildingEnds`): the check "Prevent loops within the pipeline." sees one line
  only; `f -> g`, `g -> f`, `f -> root` is accepted and the builder recurses
  without end.
- **`nested_subquery`** (`ComesBackUnchanged`): with a subquery on the left of an ANY / ALL comparison,
  parser and builder count in different orders and the two relations are
  exchanged in the plan that comes back.
- **`negative_decimal`** (`DecimalsRead`): the bytes of a decimal below zero are printed as a number below zero, and
  `DecimalLiteral::fromString` reads an unsigned one (`expression/DecimalLiteral.cpp:57`), although
  `textplan/README.md:96` has `-123_decimal<3,0>` for an example.

Met while modelling and left out of the plans and texts of the passing runs,
or out of their properties, or named there as exceptions; the models reproduce all of them.

*Names, functions and the normalizer:*

- `getUniqueName` counts each base apart, so for `atan`, `atan`, `atan2` it returns `atan`, `atan2`, `atan2`, although
  `SymbolTable.h:131` says "so that it is unique"; what it does keep is `AnswersApart`;
- a column with the name of a function hides it: schemas come first in a printed text, and the parser looks a
  function up among all symbols (`parser/SubstraitPlanRelationVisitor.cpp:1167`), and the text is refused,
  although `tests/RoundtripTest.cpp:106` expects no errors;
- the normalizer renumbers the function of a measure and not what its arguments call, nor
  groupings (`converter/ReferenceNormalizer.cpp:54`); after declarations are sorted such a call means
  another function, although `ReferenceNormalizer.h:9` says "in a consistent manner";
- a declared `fixedbinary<L1>` takes another declared one and no `fixedbinary<3>` (`type/Type.cpp:442`);
- spaces that are used but undefined are equal in the set the printer keeps them in
  (`SymbolTablePrinter.cpp:348`); the functions of all but one are in no section;
- a text with functions of no space is accepted, and printing it throws `bad_optional_access`
  (`SymbolTablePrinter.cpp:377`);
- spaces no function uses are not printed, and two declarations of one URI print as one
  section, with the functions of the first;
- the normalizer turns the declaration of a type into one of a function without a name, whose number
  zero takes the place of function zero (`converter/ReferenceNormalizer.cpp:312`);
- the normalizer sorts by name, the printer by short name: if the two differ, the plan that
  comes back has other numbers than the normal form, though the same normal form;
- an aggregate takes its intermediate type for an argument before a later implementation that
  declares it: `sum` of i64 finds `sum:i8` (`function/Function.cpp:84`);
- `list?<string?>` is not decoded, because the mark is looked for from the end
  (`type/Type.cpp:201`); one such declaration ends the whole load;
- declared numbers are not compared (`decimal<38,0>` takes every decimal), words such as `T`
  take no type at all, and of a variadic function with several arguments only the first counts;
- window functions have a registry and a lookup, and `Extension::load` never fills it;

*Relations, pipelines and fields:*

- a subquery in the filter of a read loses its relation: `addInputsToRelation` does nothing for a read
  (`SymbolTablePrinter.cpp:577`);
- `BasePlanProtoVisitor` never visits the needles of an IN, the printer does, and prints
  "Internal error -- could not find subquery symbol." (`converter/BasePlanProtoVisitor.cpp:33`);
- an aggregate that emits a column of a read it groups by prints `emit schema.column`; the
  parser compares groupings with plain names only (`parser/SubstraitPlanRelationVisitor.cpp:2054`),
  finds the name among the other fields, counts those as none, and reports a missing
  field 2147483647;
- a plan of several roots with names on one only is read, and every root comes back with those names
  (`SymbolTablePrinter.cpp:1134`, the first root section for each); names on two are two root sections, of which
  the parser refuses the second (`parser/SubstraitPlanVisitor.cpp:242`);
- a PlanRel that is a plain `rel` comes back as a root (`SymbolTablePrinter.cpp:1118`);
- an EXISTS or IN that is a whole condition, not the argument of a function, is
  refused by the first detail pass (`parser/SubstraitPlanRelationVisitor.cpp:579`),
  though the printer prints it so;
- `pipelineStart` is not what `StructuredSymbolData.h:16` says: the converter
  makes the relation of a subquery its own start, and the parser gives the
  leftmost relation of a line of four its neighbour
  (`parser/SubstraitPlanPipelineVisitor.cpp:117`);
- whether a relation used in two pipelines is an error depends on the order of
  the lines (`parser/SubstraitPlanPipelineVisitor.cpp:90`): `b -> f` before
  `a -> f -> root` is accepted, after it is not;
- a set relation is never printed: `PlanPrinterVisitor` has no visit for it;
- a measure over a computed column that is also a grouping finds the grouping,
  whose number is not one of the input's; a second grouping by it reads past the
  end of the fields (`parser/SubstraitPlanRelationVisitor.cpp:706`);
- a grouping by a computed expression is not counted among the fields
  (`converter/InitialPlanProtoVisitor.cpp:682`), so the numbers above it are off by one;
- a reference out of a subquery from below a join in it is refused by the printer
  ("not within subquery depth that high"): only relations of one pipeline know
  where it starts (`converter/PipelineVisitor.cpp:60`);
- an outer reference that is an expression of a project is taken for a field of
  the project itself (`converter/InitialPlanProtoVisitor.cpp:531`);
- the columns of a read are no fields of the read itself to the parser, which
  cannot resolve them in its filter (`parser/SubstraitPlanRelationVisitor.cpp:621`);
- emits of relations other than projects and aggregates are not printed;
- of a column that occurs twice the number of the last comes back. It means the same, and
  `tests/RoundtripTest.cpp:108` does not compare the mappings of emits, where it shows most;
- a column that a user calls `intermediate1` is found instead of the computed
  field of that name: `getUniqueName` looks at no other names.

*Expressions and details of relations* (`Loses`, `Unreadable`, `Incomplete` and `Crashing` of `RelationDetails`):

- a filter behind a join is printed as `post_join` (`PlanPrinterVisitor.cpp:1209`), the grammar has
  `post join filter`; an offset, the options of an aggregate function and a sort that compares, of
  which the name of the function is all there is, are in no rule of the grammar;
- a join of no type is printed and refused;
- types among the arguments of a function are printed as they are: one of a single word is read as a column, any
  other not at all;
- a column whose name ends in `_enum` is read as an enumeration in the arguments of a function, and every function
  called `ifthen` as a condition;
- all sets of groupings come back as one (`PlanPrinterVisitor.cpp:1084`), the sorts of a measure are not printed
  ("TODO -- Emit the requested sort behavior here."), nor the options of a scalar function and what a cast does on failure;
- a sort whose direction is unspecified is printed without one, and comes back without one, which the printer
  then reports as missing;
- `IFTHEN()` is accepted and gives an expression of no kind, and printing that throws
  (`converter/BasePlanProtoVisitor.cpp:667`); functions without arguments or a type, and measures without a function, are
  accepted too, and then reported when printed;
- the phase of a measure is the first name in it, be it that behind `NAMED`
  (`parser/SubstraitPlanRelationVisitor.cpp:931`); a measure that is no function and has no name at all brings the parser
  down, because the report is made at that name.

*Literals and types* (`Loses`, `Unreadable` and `Misread` of `Literals`):

- booleans are printed as `1` and `0` without a type (`PlanPrinterVisitor.cpp:585`), which the parser refuses,
  although `textplan/README.md:191` says they need none; `TextsRead` says nothing of them;
- floats are printed with six digits, and `inf` and `nan` as words that are columns to the parser;
- a date past the year 9999 is printed with five digits of a year and cannot be read;
- nullability comes back for numbers only (`parser/SubstraitPlanRelationVisitor.cpp:1727`), and a question
  mark behind `decimal<3,0>` or `varchar<3>` is where the grammar has none;
- the printer escapes quotes and no backslashes (`PlanPrinterVisitor.cpp:43`): a string with a backslash comes back
  with an escape for it, is refused, or, if it ends in one, runs on to the next quote;
- `escapeText` drops `\u` in front of anything but a brace, and in a string of less than three characters
  compares with a length that ran below zero;
- 8 and 16 bit integers take every 32 bit number, fractions are cut off, and the
  lengths of `varchar` and `fixedchar` are not those of their strings;
- a structure written as `{}` or as pairs comes back empty; an interval takes
  whatever fields there are, in any order and unit, and reads past them if there are too few
  (`parser/SubstraitPlanRelationVisitor.cpp:1831`);
- an unknown type inside braces leaves its field unset, and the length of a `fixedbinary` is not read.

*Schemas, sources and reads* (`Loses`, `Hidden` and `Unreadable` of `ReadSources`):

- a file that is read twice, by one read or by two, has its details set on the first with the same text, so the second
  comes back without path and format (`parser/SubstraitPlanVisitor.cpp:503`), although line 533 says "We use all
  the details to create a unique name."; `ReadsKept` says nothing of them (`Repeats`);
- a schema whose name is that of an earlier column (a column `schema2` of the first schema, say) is
  hidden by it: the read comes back with the columns of the first; a source hidden so ends the
  visit with an exception nobody asked for (`parser/SubstraitPlanRelationVisitor.cpp:1003`), and a
  read hidden so is "already defined";
- a name that nothing has gives a read without schema or source, without a report;
- several files are printed without the commas between them that the grammar has
  (`SymbolTablePrinter.cpp:321`); a table without a name, `arrow` and `dwrf` are printed and not in the grammar;
- only `uri_file` is kept: paths, globs and folders are printed and then skipped;
- a best effort filter is printed as a plain one, and next to a plain one refused as the second;
- columns whose names are no identifiers, or whose types the printer does not support, are printed without
  a report and cannot be read; of names and types only as many as there are of both are;
- reads without a source, schemas with a column type that is not set (`converter/BasePlanProtoVisitor.cpp:184`),
  and virtual and extension tables, throw while they are visited or printed;
- a schema with types comes back as required, whatever its struct was.

## What is left out

- **Data**: literals, types, what a read reads and the details of relations are part of the `body` in `RoundTrip`, and the
  subjects of `Literals`, `TypeTexts`, `ReadSources` and `RelationDetails`. Field and function
  references, schemas and emits are the subject of
  `FieldReferences`, where an expression is the references in it, and of
  `FunctionReferences`, where a plan is its calls and what it declares.
- **Expressions the printer does not know** (window functions, switches, lists, nested ones) are one kind in
  `RelationDetails`, printed as a word with a report. Subqueries have modules of their own, and so do the names
  (`NAMED`) of expressions. Advanced extensions and `common` are read and have no effect.
- **`DecimalLiteral::toString`**, which puts the point where the scale says, is printed by nobody.
- **Relations with references** checked are reads, filters, projects, aggregates and
  joins; sorts, fetches and crosses treat fields as a filter or a join does.
  Filters of measures, sorts in them and casts add no fields and are left out.
- **Symbols of other types** (schemas and sources in all modules but `ReadSources`, functions and spaces in
  all modules but `FunctionReferences`): they share the table, but are looked up by other types, and
  no relation is looked up by the locations they use. In the other modules a relation in a text
  does not share its name with one of them.
- **Order of sections**: the symbol pass visits relations before roots wherever
  they stand (`SubstraitPlanVisitor::visitPlan`); the passes after it go
  through the file from top to bottom, and the model through one whose pipelines come
  first and whose roots come last, as printed.
- **`parseBinaryPlan`'s third pass** runs the printer once for its errors; it
  changes no symbol and is not a stage of its own.
- **Addresses** are never reused. The detail passes record the haystack of an IN at the address of a
  temporary message (`SubstraitPlanSubqueryRelationVisitor.cpp:1341`), which is
  freed; see the hazards in `PROJECT.json`.
- **Characters of types**: a type is what its characters mean; a declared map with one
  parameter and variadic functions without an argument, which follow null pointers, are not declared.
- **Missing inputs**: relations of the plans have their inputs. Hash and merge
  joins, exchanges, extension relations and writes, which most passes do not support, are left out.
- **Exceptions of the detail passes** end the pass with an error; the model goes
  on with the error noted, as only the presence of an error decides what follows.
- **The table of the parser printed as a text** by `outputToText` loses schemas, sources and the
  details of reads, because it has no messages for them; `Again` prints what was parsed as a message.
- **Characters**: numbers are not read digit by digit, nor dates; `Stoi`, `DateText` and `Moments` are constants
  that say what the library makes of a word.
- **I/O, formats, error positions**: no state the properties are about. Of the grammar only what the
  printer writes and the grammar lacks is modelled (`RunsOn` and marks in `Literals`, `ParseStream` in `ReadSources` and `RelationDetails`).

## Plan

Done: the symbol table with its proofs, the proofs above, the two conversions over relations,
pipelines and subqueries, the round trip, field and function references with the
normalizer, the function registry, literals and types in texts, schemas, sources and reads, the details
of relations.
Next, in this order:

1. More proofs: type correctness of `ReadSources`.
2. Texts with fields in another order than their pipelines, and the climb of
   `getParentQueryLocation` over lines that run in a circle: `FieldReferences` on the
   links of `TextToBinary`.
3. Texts that name a relation in two subqueries, and measures over computed columns that are groupings.

Composition stays as it is: `RoundTrip` extends the converter and instantiates
the parser.
