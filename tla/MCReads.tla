--------------------------------- MODULE MCReads ---------------------------------
(* Two reads of every schema with every source, three of the plainest, and texts *)
(* that name what other sections define.                                         *)
EXTENDS ReadSources

MCNumbered(base, n) == base \o ToString(n)
MCFileText(item)    == ToString(item)

MCIds      == {"a", "b", "read", "read2", "schema", "schema2", "named", "named2", "local"}
MCIntegers == {"3", "2"}
MCStoi     == [w \in MCIntegers |-> w]
MCUnknown  == <<"unknown", 0, 0>>

-----------------------------------------------------------------------------
(* Plans.                                                                  *)

TypeOf(kind)     == ProtoType(kind, "required", << >>, << >>)
SchemaOf(names, ts) == [present |-> TRUE, names |-> names, types |-> ts, required |-> ts # << >>]
ListOf(type)     == ProtoType("list", "required", << >>, <<type>>)
Whole            == TypeOf("i32")
Text             == ProtoType("varchar", "nullable", <<"3">>, << >>)
Number           == ProtoType("decimal", "unspecified", <<"3", "2">>, << >>)

Plain   == SchemaOf(<<"a", "b">>, <<Whole, Text>>)
Column(name) == SchemaOf(<<name>>, <<Number>>)

Schemas ==
  { NoSchema, Plain, Column("a"), Column("schema2"), Column("schema"), Column("named2"),
    Column("read2"), Column("#2"),
    SchemaOf(<<"a">>, <<TypeOf("timestamp")>>), SchemaOf(<<"a">>, <<UnsetType>>),
    SchemaOf(<<"a", "b">>, <<UnsetType>>), SchemaOf(<<"b">>, <<Whole, ListOf(UnsetType)>>),
    SchemaOf(<< >>, << >>), SchemaOf(<<"a", "b">>, <<Whole>>), SchemaOf(<<"b", "b", "a">>, <<Whole, Text>>),
    SchemaOf(<<"a">>, <<Whole, Whole>>) }

Table(names) == [NoSource EXCEPT !.kind = "named_table", !.names = names]
Files(items) == [NoSource EXCEPT !.kind = "local_files", !.items = items]
File(uri)    == [NoFile EXCEPT !.path = "uri_file", !.uri = uri, !.format = "parquet"]
Part(first)  == [File("x") EXCEPT !.start = first, !.length = "2", !.format = "orc"]

Sources ==
  { Table(<<"a", "#1">>), Table(<<"#1", "#1">>), Table(<< >>), Table(<<"named2">>), Table(<<"read">>),
    Files(<<File("x")>>), Files(<<File("y")>>), Files(<<Part("0")>>), Files(<<Part("3")>>),
    Files(<<[File("x") EXCEPT !.partition = "2"]>>), Files(<<[File("x") EXCEPT !.format = "arrow"]>>),
    Files(<<[File("x") EXCEPT !.path = "uri_folder"]>>), Files(<<File("x"), File("x")>>), Files(<< >>) }

Thrown ==
  { NoSource, [NoSource EXCEPT !.kind = "virtual_table"], [NoSource EXCEPT !.kind = "extension_table"],
    Files(<<NoFile>>), Files(<<[File("x") EXCEPT !.format = "extension"]>>) }

Read(schema, source) == [NoRead EXCEPT !.schema = schema, !.source = source]

Filtered ==
  {[Read(Plain, Table(<<"#1">>)) EXCEPT !.filter = f, !.bestEffort = e, !.projected = p] :
     f \in {"", "f"}, e \in {"", "e"}, p \in BOOLEAN}

Pairs(first, second) == {<<r, s>> : r \in first, s \in second}
Reads(schemas, sources) == {Read(s, t) : s \in schemas, t \in sources}
Several == Reads({Plain, Column("schema2")}, {Table(<<"#1">>), Files(<<File("x")>>)})

MCPlans ==
  Pairs(Reads(Schemas, {Table(<<"#1">>)}), Reads(Schemas, Sources))
    \union Pairs(Reads({Plain}, Sources), Reads({Plain}, Sources))
    \union Pairs(Several, Filtered) \union Pairs(Several, Reads({Plain}, Thrown))
    \union {<<r, s, t>> : r \in Several, s \in Several, t \in Several}

-----------------------------------------------------------------------------
(* Texts.                                                                  *)

ColumnText(name, kind) == [name |-> name, type |-> Word(kind)]
SchemaText(name, columns) == Section("schema", name, columns, << >>, << >>, TRUE)
TableText(name, names) == Section("named_table", name, << >>, names, << >>, TRUE)
FilesText(name, items) == Section("local_files", name, << >>, << >>, items, TRUE)
ReadText(name, schema, source, filters) ==
  [name |-> name, source |-> source, schema |-> schema, filters |-> filters, projected |-> FALSE]

Uri(uri)   == Detail("uri_file", uri)
Orc        == Detail("orc", "")
Best(e)    == [behavior |-> "best effort", expression |-> e]
Filter0(e) == [behavior |-> "default", expression |-> e]

SomeSections ==
  { SchemaText("s", <<ColumnText("a", "i32"), ColumnText("b", "uuid")>>), SchemaText("s", << >>),
    SchemaText("r", <<ColumnText("s", "i8")>>), SchemaText("q", <<ColumnText("a", "other")>>),
    TableText("t", <<"a", "s">>), TableText("s", <<"t">>), TableText("t", << >>),
    FilesText("t", <<<<Uri("x"), Orc>>, <<Uri("y"), Orc>>>>), FilesText("t", <<<<Orc>>, <<Uri("x")>>, <<Orc>>>>),
    FilesText("u", <<<<Uri("x"), Orc>>>>), Section("virtual_table", "t", << >>, << >>, << >>, TRUE) }

SomeReads ==
  {ReadText(name, schema, source, << >>) :
     name \in {"p"}, schema \in {"", "s", "q"}, source \in {"", "t", "u"}}
    \union {ReadText("p", "s", "t", filters) :
              filters \in {<<Best("e")>>, <<Best("e"), Filter0("f")>>, <<Best("e"), Best("e")>>}}
    \union {ReadText("s", "s", "t", << >>)}

MCTexts ==
  {[sections |-> sections, reads |-> <<read, ReadText("q", "s", "t", << >>)>>] :
     sections \in UNION {[1..n -> SomeSections] : n \in 0..2}, read \in SomeReads}

=============================================================================
