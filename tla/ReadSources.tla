------------------------------- MODULE ReadSources -------------------------------
(***************************************************************************)
(* What the read relations of a plan read: their schemas, their sources    *)
(* and their filters, from a plan to its text and back.                    *)
(*                                                                         *)
(* InitialPlanProtoVisitor names the schema and the source of each read,   *)
(* SymbolTablePrinter writes them as sections of their own, and            *)
(* SubstraitPlanVisitor defines what stands in the sections before the     *)
(* relation visitors look for the names that the reads give.  A plan is    *)
(* the sequence of its reads in the order they are visited; the relations  *)
(* above them are those of the other modules.                              *)
(***************************************************************************)
EXTENDS TypeTexts, SymbolTable, SequencesExt

CONSTANTS
  Plans, Texts,  \* plans to print, and texts to parse
  MaxTrips,      \* how often a plan becomes a text
  Ids,           \* the words that are identifiers of the grammar
  FileText(_)    \* what a file looks like without its spaces

VARIABLES
  stage,
  trips,
  next,       \* what is visited next
  plan,
  table,      \* the symbol table: first the converter's, then the parser's
  relations,  \* the symbols that the converter keeps for each read
  text,
  types,      \* the type of each column that the parser has defined,
  files,      \* and what it knows of each file
  back,
  printed,    \* what the converter and the printer report, and
  parsed      \* what the parser does

vars == <<stage, trips, next, plan, table, relations, text, types, files, back, printed, parsed>>

(***************************************************************************)
(* Locations are the messages of the plan and the contexts of the text.    *)
(***************************************************************************)
At(what, i)    == <<what, i, 0>>
Item(k, j)     == <<"item", k, j>>

NoSchema == [present |-> FALSE, names |-> << >>, types |-> << >>, required |-> FALSE]
NoSource == [kind |-> "unset", names |-> << >>, items |-> << >>]
NoRead   == [ schema |-> NoSchema, source |-> NoSource, filter |-> "", bestEffort |-> "",
              projected |-> FALSE ]

\* A number is a word, as it is written.
NoFile ==
  [path |-> "unset", uri |-> "", partition |-> "0", start |-> "0", length |-> "0", format |-> "unset"]

Section(kind, name, columns, names, items, separated) ==
  [ kind |-> kind, name |-> name, columns |-> columns, names |-> names, items |-> items,
    separated |-> separated ]

TooFewTypes    == "Type number requested but there are not that many types in the proto."
MaskExpression == "Mask expressions are not yet supported"
AlreadyDefined == "Relation already defined."
FilterTwice    == "A filter has already been specified for this read relation."
BestTwice      == "A best effort filter has already been specified for this read relation."
SyntaxError    == "syntax error"
Uncaught       == "uncaught parser exception encountered"

-----------------------------------------------------------------------------
(* InitialPlanProtoVisitor.                                                *)

DefineAll(t, names, location, type) ==
  FoldLeft(LAMBDA u, name : DefineSymbol(u, name, location, type), t, names)

\* A name that is known already takes no type.
VisitName(schema, location, visit, name) ==
  IF visit.stopped \/ LookupSymbolByName(visit.table, name) # NoSymbol
  THEN visit
  ELSE IF visit.number < Len(schema.types)
  THEN [visit EXCEPT !.table  = DefineSymbol(@, name, location, "field"), !.number = @ + 1]
  ELSE [visit EXCEPT !.stopped = TRUE]

VisitNamedStruct(t, schema, location) ==
  FoldLeft(LAMBDA visit, name : VisitName(schema, location, visit, name),
           [table |-> t, number |-> 0, stopped |-> FALSE], schema.names)

\* The converter visits a schema, and then its base visitor does; either
\* visit goes on to the types if there were enough of them for the names.
VisitSchema(t, schema, location) ==
  LET defined == DefineUniqueSymbol(t, "schema", location, "schema")
      first   == VisitNamedStruct(defined, schema, location)
      second  == VisitNamedStruct(first.table, schema, location)
      untyped == \E j \in DOMAIN schema.types : UnvisitedType(schema.types[j])
  IN IF ~schema.present
     THEN [table |-> t, errors |-> {}, throws |-> FALSE]
     ELSE [ table  |-> second.table,
            errors |-> IF first.stopped \/ second.stopped THEN {TooFewTypes} ELSE {},
            throws |-> untyped /\ ~(first.stopped /\ second.stopped) ]

BaseName(kind) ==
  CASE kind = "named_table"     -> "named"
    [] kind = "local_files"     -> "local"
    [] kind = "virtual_table"   -> "virtual"
    [] kind = "extension_table" -> "extensiontable"

\* Variant: the tables are defined before their source.
VisitSourceLast(t, source, location) ==
  DefineUniqueSymbol(DefineAll(t, source.names, UnknownLocation, "table"),
                     BaseName(source.kind), location, "source")

VisitSource(t, source, location) ==
  DefineAll(DefineUniqueSymbol(t, BaseName(source.kind), location, "source"),
            source.names, UnknownLocation, "table")

\* visitReadRelation and visitRelation; a column type without a kind and a
\* read without a source are exceptions.
VisitRead ==
  LET read    == plan[next]
      schema  == VisitSchema(table, read.schema, At("schema", next))
      source  == VisitSource(schema.table, read.source, At("source", next))
      fields  == DefineAll(source, read.schema.names, At("schema", next), "field")
      defined == DefineUniqueSymbol(fields, "read", At("read", next), "relation")
  IN /\ stage = "visit" /\ next <= Len(plan)
     /\ printed' = printed \union schema.errors
     /\ IF schema.throws \/ read.source.kind = "unset"
        THEN stage' = "thrown" /\ UNCHANGED <<next, table, relations>>
        ELSE /\ table' = AddPermanentLocation(defined, Last(defined.symbols), At("data", next))
             /\ relations' = Append(relations,
                  [ schema |-> IF read.schema.present THEN Len(table.symbols) + 1 ELSE NoSymbol,
                    source |-> Len(schema.table.symbols) + 1,
                    symbol |-> Len(defined.symbols) ])
             /\ next' = next + 1
             /\ stage' = stage
     /\ UNCHANGED <<trips, plan, text, types, files, back, parsed>>

-----------------------------------------------------------------------------
(* SymbolTablePrinter and PlanPrinterVisitor.                              *)

Detail(key, word) == [key |-> key, word |-> word]

\* What is zero is left out; a part of a file is given with both its ends.
LocalFileToText(file) ==
  <<Detail(file.path, file.uri)>>
    \o (IF file.partition = "0" THEN << >> ELSE <<Detail("partition_index", file.partition)>>)
    \o (IF file.start = "0" /\ file.length = "0" THEN << >>
        ELSE <<Detail("start", file.start), Detail("length", file.length)>>)
    \o <<Detail(file.format, "")>>

Unprintable(source) ==
  \/ source.kind \in {"virtual_table", "extension_table"}
  \/ \E i \in DOMAIN source.items :
       source.items[i].path = "unset" \/ source.items[i].format \in {"unset", "extension"}

\* There are as many columns as there are names and types for.
OutputSchema(name, schema) ==
  LET both == IF Len(schema.names) < Len(schema.types) THEN Len(schema.names) ELSE Len(schema.types)
  IN Section("schema", name,
             [j \in 1..both |-> [name |-> schema.names[j], type |-> VisitType(schema.types[j]).value]],
             << >>, << >>, TRUE)

\* Nothing stands between two files.
OutputSource(name, source) ==
  Section(source.kind, name, << >>, source.names,
          [j \in DOMAIN source.items |-> LocalFileToText(source.items[j])], FALSE)

SymbolsOf(t, type) == SelectSeq(t.symbols, LAMBDA symbol : symbol.type = type)

OutputSections ==
  LET schemas == SymbolsOf(table, "schema")
      sources == SymbolsOf(table, "source")
  IN [k \in DOMAIN schemas |->
        OutputSchema(schemas[k].name, plan[schemas[k].sourceLocation[2]].schema)]
     \o [k \in DOMAIN sources |->
           OutputSource(sources[k].name, plan[sources[k].sourceLocation[2]].source)]

NameOf(symbol) == IF symbol = NoSymbol THEN "" ELSE table.symbols[symbol].name

\* printRelation and visitReadRelation: both filters are printed alike.
PrintRelation(i) ==
  LET filters == SelectSeq(<<plan[i].filter, plan[i].bestEffort>>, LAMBDA f : f # "")
  IN [ name      |-> NameOf(relations[i].symbol),
       source    |-> NameOf(relations[i].source),
       schema    |-> NameOf(relations[i].schema),
       filters   |-> [j \in DOMAIN filters |-> [behavior |-> "default", expression |-> filters[j]]],
       projected |-> plan[i].projected ]

OutputToText ==
  /\ stage = "visit" /\ next > Len(plan)
  /\ printed' = printed \union
       (IF \E i \in DOMAIN plan : plan[i].projected THEN {MaskExpression} ELSE {})
  /\ IF \E i \in DOMAIN plan : Unprintable(plan[i].source)
     THEN stage' = "thrown" /\ UNCHANGED <<text, table>>
     ELSE /\ text' = [ sections |-> OutputSections,
                       reads    |-> [i \in DOMAIN plan |-> PrintRelation(i)] ]
          /\ stage' = "parse"
          /\ table' = EmptyTable
  /\ UNCHANGED <<trips, next, plan, relations, types, files, back, parsed>>

-----------------------------------------------------------------------------
(* The grammar.                                                            *)

PathTypes   == {"uri_file", "uri_path", "uri_path_glob", "uri_folder"}
FileDetails == PathTypes \union {"partition_index", "start", "length", "orc", "parquet"}

SectionParses(section) ==
  CASE section.kind = "schema"      ->
         \A j \in DOMAIN section.columns : section.columns[j].name \in Ids
    [] section.kind = "named_table" -> section.names # << >>
    [] section.kind = "local_files" ->
         /\ section.items # << >>
         /\ Len(section.items) > 1 => section.separated
         /\ \A j \in DOMAIN section.items :
              \A d \in DOMAIN section.items[j] : section.items[j][d].key \in FileDetails
    [] OTHER -> TRUE

Parses ==
  /\ \A k \in DOMAIN text.sections : SectionParses(text.sections[k])
  /\ \A k \in DOMAIN text.reads : ~text.reads[k].projected

\* What is made of a text with an error in it is not followed.
ParseStream ==
  /\ stage = "parse"
  /\ IF Parses
     THEN stage' = "sections" /\ parsed' = {}
     ELSE stage' = "parsed" /\ parsed' = {SyntaxError}
  /\ back' = [k \in DOMAIN text.reads |-> NoRead]
  /\ next' = 1
  /\ UNCHANGED <<trips, plan, table, relations, text, types, files, printed>>

-----------------------------------------------------------------------------
(* SubstraitPlanVisitor.                                                   *)

\* Variant: the column stays where it was read.
DefineColumnOnly(t, k, j) ==
  DefineSymbol(t, text.sections[k].columns[j].name, Item(k, j), "schemaColumn")

\* The column is defined where it stands, and then belongs to its schema.
DefineColumn(t, k, j) ==
  LET defined == DefineSymbol(t, text.sections[k].columns[j].name, Item(k, j), "schemaColumn")
  IN [defined EXCEPT !.symbols[Len(t.symbols) + 1].sourceLocation = At("section", k)]

Indices(first, count) == first + 1 .. first + count

VisitSchemaDefinition ==
  LET section == text.sections[next]
      schema  == DefineSymbol(table, section.name, At("section", next), "schema")
      first   == Len(schema.symbols)
      read(j) == TextToTypeProto(section.columns[j].type, FALSE)
  IN /\ stage = "sections" /\ next <= Len(text.sections) /\ section.kind = "schema"
     /\ table' = FoldLeftDomain(LAMBDA t, j : DefineColumn(t, next, j), schema, section.columns)
     /\ types' = types @@ [s \in Indices(first, Len(section.columns)) |-> read(s - first).value]
     /\ parsed' = parsed \union UNION {read(j).errors : j \in DOMAIN section.columns}
     /\ next' = next + 1
     /\ UNCHANGED <<stage, trips, plan, relations, text, files, back, printed>>

\* Only the first kind of path is kept.
SetDetail(file, detail) ==
  CASE detail.key = "uri_file"        -> [file EXCEPT !.path = "uri_file", !.uri = detail.word]
    [] detail.key = "partition_index" -> [file EXCEPT !.partition = detail.word]
    [] detail.key = "start"           -> [file EXCEPT !.start = detail.word]
    [] detail.key = "length"          -> [file EXCEPT !.length = detail.word]
    [] detail.key \in {"orc", "parquet"} -> [file EXCEPT !.format = detail.key]
    [] OTHER                          -> file

\* The file whose details these are is looked for by its text.
VisitFile(found, item, location) ==
  LET defined == DefineSymbol(found.table, FileText(item), location, "sourceDetail")
      known   == found.files @@ (Len(defined.symbols) :> NoFile)
      file    == LookupSymbolByName(defined, FileText(item))
  IN [table |-> defined, files |-> [known EXCEPT ![file] = FoldLeft(SetDetail, @, item)]]

VisitLocalFilesDetail(t, section, location) ==
  FoldLeft(LAMBDA found, item : VisitFile(found, item, location),
           [table |-> t, files |-> files], section.items)

VisitSourceDefinition ==
  LET section == text.sections[next]
      here    == At("section", next)
      named   == DefineAll(DefineSymbol(table, section.name, here, "source"), section.names, here,
                           "sourceDetail")
      visited == VisitLocalFilesDetail(named, section, here)
  IN /\ stage = "sections" /\ next <= Len(text.sections) /\ section.kind # "schema"
     /\ table' = visited.table
     /\ files' = visited.files
     /\ next' = next + 1
     /\ UNCHANGED <<stage, trips, plan, relations, text, types, back, printed, parsed>>

EndSections ==
  /\ stage = "sections" /\ next > Len(text.sections)
  /\ stage' = "relations" /\ next' = 1
  /\ UNCHANGED <<trips, plan, table, relations, text, types, files, back, printed, parsed>>

VisitRelation ==
  LET name == text.reads[next].name
  IN /\ stage = "relations" /\ next <= Len(text.reads)
     /\ IF LookupSymbolByName(table, name) # NoSymbol
        THEN parsed' = parsed \union {AlreadyDefined} /\ table' = table
        ELSE parsed' = parsed /\ table' = DefineSymbol(table, name, At("context", next), "relation")
     /\ next' = next + 1
     /\ UNCHANGED <<stage, trips, plan, relations, text, types, files, back, printed>>

-----------------------------------------------------------------------------
(* SubstraitPlanRelationVisitor, and SubstraitPlanSubqueryRelationVisitor,  *)
(* which does all of it once more.                                          *)

PositionsAt(location, type) ==
  SelectSeq([s \in DOMAIN table.symbols |-> s],
            LAMBDA s : table.symbols[s].type = type /\ table.symbols[s].sourceLocation = location)

\* Variant: the columns of all schemas.
ColumnsOfAll(symbol) == SelectSeq([s \in DOMAIN table.symbols |-> s],
                                  LAMBDA s : table.symbols[s].type = "schemaColumn")

ColumnsOf(symbol) == PositionsAt(table.symbols[symbol].sourceLocation, "schemaColumn")

\* visitRelationUsesSchema: whatever has the name, its place is where the
\* columns are.
UsesSchema(name) ==
  LET symbol  == LookupSymbolByName(table, name)
      columns == ColumnsOf(symbol)
      typed   == SelectSeq(columns, LAMBDA s : types[s].kind # "unset")
  IN IF name = "" \/ symbol = NoSymbol
     THEN NoSchema
     ELSE [ present  |-> TRUE,
            names    |-> [j \in DOMAIN columns |-> table.symbols[columns[j]].name],
            types    |-> [j \in DOMAIN typed |-> types[typed[j]]],
            required |-> typed # << >> ]

\* ANY_CAST(SourceType, symbol->subtype).
NoSourceType(name) ==
  LET symbol == LookupSymbolByName(table, name)
  IN name # "" /\ symbol # NoSymbol /\ table.symbols[symbol].type # "source"

\* visitRelationSourceReference.
SourceReference(name) ==
  LET symbol  == LookupSymbolByName(table, name)
      place   == table.symbols[symbol].sourceLocation
      kind    == text.sections[place[2]].kind
      details == PositionsAt(place, "sourceDetail")
  IN IF name = "" \/ symbol = NoSymbol
     THEN NoSource
     ELSE CASE kind = "local_files" ->
                 [kind |-> kind, names |-> << >>, items |-> [j \in DOMAIN details |-> files[details[j]]]]
            [] kind = "named_table" ->
                 [ kind |-> kind, names |-> [j \in DOMAIN details |-> table.symbols[details[j]].name],
                   items |-> << >> ]
            [] OTHER -> NoSource

\* visitRelationFilter: the first of each kind is kept.
FiltersOf(k, behavior) ==
  SelectSeq(text.reads[k].filters, LAMBDA f : f.behavior = behavior)

FirstFilter(filters) == IF filters = << >> THEN "" ELSE filters[1].expression

FilterErrors(k) ==
  (IF Len(FiltersOf(k, "default")) > 1 THEN {FilterTwice} ELSE {})
    \union (IF Len(FiltersOf(k, "best effort")) > 1 THEN {BestTwice} ELSE {})

Visiting == stage \in {"details", "again"} /\ next <= Len(text.reads)

\* A name that was taken has left no relation here.
IsRelation == LookupSymbolByLocationAndType(table, At("context", next), "relation") # NoSymbol

\* The message is made anew by each visit.
VisitRelationDetails ==
  LET read == text.reads[next]
  IN /\ Visiting
     /\ IF IsRelation
        THEN /\ ~NoSourceType(read.source)
             /\ back' = [back EXCEPT ![next] =
                  [ schema     |-> UsesSchema(read.schema),
                    source     |-> SourceReference(read.source),
                    filter     |-> FirstFilter(FiltersOf(next, "default")),
                    bestEffort |-> FirstFilter(FiltersOf(next, "best effort")),
                    projected  |-> FALSE ]]
             /\ parsed' = parsed \union FilterErrors(next)
        ELSE UNCHANGED <<back, parsed>>
     /\ next' = next + 1
     /\ UNCHANGED <<stage, trips, plan, table, relations, text, types, files, printed>>

\* The exception is caught outside of the visitor: it is the end of the visit.
VisitThrows ==
  /\ Visiting /\ IsRelation /\ NoSourceType(text.reads[next].source)
  /\ back' = [back EXCEPT ![next] = NoRead]
  /\ parsed' = parsed \union {Uncaught}
  /\ next' = Len(text.reads) + 1
  /\ UNCHANGED <<stage, trips, plan, table, relations, text, types, files, printed>>

\* Only the errors of the visitors keep the second visit from being made.
EndVisit ==
  /\ stage \in {"relations", "details", "again"} /\ next > Len(text.reads)
  /\ CASE stage = "relations"                              -> stage' = "details" /\ next' = 1
       [] stage = "details" /\ parsed \subseteq {Uncaught} -> stage' = "again" /\ next' = 1
       [] OTHER                                            -> stage' = "parsed" /\ next' = next
  /\ UNCHANGED <<trips, plan, table, relations, text, types, files, back, printed, parsed>>

-----------------------------------------------------------------------------

Start(first, reads, sections) ==
  /\ stage = first /\ plan = reads /\ text = sections
  /\ trips = 1 /\ next = 1 /\ table = EmptyTable
  /\ relations = << >> /\ types = << >> /\ files = << >> /\ back = << >>
  /\ printed = {} /\ parsed = {}

NoText == [sections |-> << >>, reads |-> << >>]

Init ==
  \/ \E reads \in Plans : Start("visit", reads, NoText)
  \/ \E sections \in Texts : Start("parse", << >>, sections)

\* A plan that came back without complaint is printed again.
Again ==
  /\ stage = "parsed" /\ parsed = {} /\ trips < MaxTrips
  /\ stage' = "visit" /\ plan' = back /\ text' = NoText
  /\ trips' = trips + 1 /\ next' = 1 /\ table' = EmptyTable
  /\ relations' = << >> /\ types' = << >> /\ files' = << >> /\ back' = << >>
  /\ printed' = {} /\ parsed' = {}

Next ==
  \/ VisitRead \/ OutputToText
  \/ ParseStream \/ VisitSchemaDefinition \/ VisitSourceDefinition \/ EndSections
  \/ VisitRelation \/ VisitRelationDetails \/ VisitThrows \/ EndVisit
  \/ Again

Spec == Init /\ [][Next]_vars

-----------------------------------------------------------------------------
(* Properties.                                                             *)

Accepted == stage = "parsed" /\ parsed = {}
Tripped  == stage = "parsed" /\ plan # << >> /\ printed = {}

\* What a section defines; the parser keeps the first to have a name.
Names(k) ==
  {text.sections[k].name} \union ToSet(text.sections[k].names)
    \union {text.sections[k].columns[j].name : j \in DOMAIN text.sections[k].columns}

Definers(name) == {k \in DOMAIN text.sections : name \in Names(k)}

\* Nothing but the section of that name has it.
Only(name, kinds) ==
  \E k \in DOMAIN text.sections :
    Definers(name) = {k} /\ text.sections[k].name = name /\ text.sections[k].kind \in kinds

Hidden(name) == name # "" /\ text.sections[First(Definers(name))].name # name

Unknown(name) ==
  Definers(name) = {} /\ \A k \in DOMAIN text.reads : text.reads[k].name # name

\* A file of the read has the same details as one of a read before.
Repeats(i) ==
  \E k \in 1..(i - 1) : \E j \in DOMAIN plan[i].source.items, m \in DOMAIN plan[k].source.items :
    LocalFileToText(plan[k].source.items[m]) = LocalFileToText(plan[i].source.items[j])

Settled(type) ==
  [type EXCEPT !.nullability = IF @ = "nullable" THEN @ ELSE "required"]

\* Nullability that is left open is settled.
AsSettled(read) ==
  [read EXCEPT !.schema.types = [j \in DOMAIN @ |-> Settled(@[j])],
               !.schema.required = read.schema.types # << >>]

\* What comes back in part, or as something else.
Loses(i) ==
  \/ Len(plan[i].schema.names) # Len(plan[i].schema.types)
  \/ plan[i].bestEffort # ""
  \/ \E j \in DOMAIN plan[i].source.items :
       plan[i].source.items[j].path # "uri_file"

\* What is printed but not in the grammar, or not under its name.
Unreadable(i) ==
  \/ \E j \in 1..Len(plan[i].schema.names) \intersect 1..Len(plan[i].schema.types) :
       \/ plan[i].schema.names[j] \notin Ids
       \/ UnsupportedType \in VisitType(plan[i].schema.types[j]).errors
  \/ plan[i].source.kind = "named_table" /\ plan[i].source.names = << >>
  \/ plan[i].source.kind = "local_files" /\ Len(plan[i].source.items) # 1
  \/ \E j \in DOMAIN plan[i].source.items : plan[i].source.items[j].format \in {"arrow", "dwrf"}
  \/ plan[i].filter # "" /\ plan[i].bestEffort # ""
  \/ Hidden(text.reads[i].source)
  \/ Definers(text.reads[i].name) # {}

(* The converter keeps for each read the symbols of its own schema and source;  *)
(* the parser knows a type for every column, and the details of every file.     *)
ReadTypeOK ==
  /\ stage \in {"visit", "thrown", "parse", "sections", "relations", "details", "again", "parsed"}
  /\ stage = "visit" => \A i \in DOMAIN relations :
       /\ table.symbols[relations[i].source].type = "source"
       /\ table.symbols[relations[i].source].sourceLocation = At("source", i)
       /\ relations[i].schema # NoSymbol =>
            /\ table.symbols[relations[i].schema].type = "schema"
            /\ table.symbols[relations[i].schema].sourceLocation = At("schema", i)
  /\ stage \in {"sections", "relations", "details", "again", "parsed"} =>
       /\ DOMAIN types = {s \in DOMAIN table.symbols : table.symbols[s].type = "schemaColumn"}
       /\ DOMAIN files \subseteq {s \in DOMAIN table.symbols : table.symbols[s].type = "sourceDetail"}

(* A read of files that no other read has comes back with the columns, the      *)
(* source and the filter it had, but for the columns of a schema with more      *)
(* names or fewer, best effort filters, folders and other paths, and a schema   *)
(* whose name is that of an earlier column (tests/RoundtripTest.cpp expects     *)
(* plans to come back equal).  It says nothing of files that are given twice,   *)
(* whose details the parser keeps under one name, and once                      *)
(* (SubstraitPlanVisitor.cpp:533 calls the name unique).                        *)
ReadsKept ==
  Tripped /\ Accepted => \A i \in DOMAIN plan :
    ~Hidden(text.reads[i].schema) /\ ~Repeats(i) =>
      (back[i] = AsSettled(plan[i]) <=> ~Loses(i))

(* A plan that is printed without a report can be read, but for columns of      *)
(* types that are not supported, names that are no identifiers, tables without  *)
(* a name, none or several files, formats that only the printer knows, two      *)
(* filters, and sources and relations with the name of a column or a table.     *)
TextsRead == Tripped => (Accepted <=> \A i \in DOMAIN plan : ~Unreadable(i))

(* A read gets the columns, in their order, of the one schema that has the name *)
(* it gives, and the tables or files of the source; nothing for a name that     *)
(* nothing in the text has.                                                     *)
NamesFollowed ==
  Accepted => \A k \in DOMAIN text.reads, m \in DOMAIN text.sections :
    LET read == text.reads[k]  section == text.sections[m]
    IN /\ Only(read.schema, {"schema"}) /\ m \in Definers(read.schema) =>
            /\ back[k].schema.names = [j \in DOMAIN section.columns |-> section.columns[j].name]
            /\ \A j \in DOMAIN section.columns :
                 back[k].schema.types[j].kind = section.columns[j].type.name
       /\ Only(read.source, {"named_table", "local_files"}) /\ m \in Definers(read.source) =>
            /\ back[k].source.kind = section.kind
            /\ back[k].source.names = section.names
            /\ Len(back[k].source.items) = Len(section.items)
       /\ Unknown(read.schema) => back[k].schema = NoSchema
       /\ Unknown(read.source) => back[k].source = NoSource

=============================================================================
