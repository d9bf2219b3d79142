-------------------------------- MODULE MCLookup --------------------------------
(* FunctionLookup on files of a few overloads of one function.             *)
EXTENDS FunctionLookup

Matching == INSTANCE TypeMatching WITH Wildcards <- {"any1"}, Numbers <- {"3", "4", "18"}

MCDecodeType(written, parameterized) == Matching!Decode(written, parameterized)
MCTypesMatch(declared, type)         == Matching!IsMatch(declared, type)
MCTypeTakes(declared, type)          == Matching!Takes(declared, type)

Named(name)       == Written(name, FALSE, << >>)
OrNull(written)   == [written EXCEPT !.marked = TRUE]
Of(name, written) == Written(name, FALSE, written)

\* Types of calls.
Simple == {Named("i32"), Named("i64"), Of("varchar", <<Named("3")>>),
           Of("decimal", <<Named("18"), Named("4")>>)}
Nested == {Of("list", <<Named("i32")>>), Of("list", <<OrNull(Named("i32"))>>),
           Of("map", <<Named("i32"), Named("i64")>>), Of("map", <<Named("i32"), Named("i32")>>),
           Of("struct", <<Named("i32"), Named("i64")>>), Of("struct", <<Named("i32")>>)}

OrNullToo(types) == types \union {OrNull(type) : type \in types}

\* With a mark inside and outside the type cannot be decoded.
CallTypes == {type \in OrNullToo(Simple \union Nested) : ~(type.marked /\ Matching!MarkedInside(type))}

Call(arguments, return) == [name |-> "f", arguments |-> arguments, return |-> return]

MCSignatures ==
  {Call(arguments, NoneWritten) :
     arguments \in (UNION {[1..n -> OrNullToo(Simple)] : n \in 0..2}) \union [1..1 -> CallTypes]}
  \union {Call(<<Named("i32"), Named("i32"), Named("i32")>>, NoneWritten)}
  \union {Call(<<Named("i32")>>, return) : return \in CallTypes}

\* Types of declarations, with words for lengths.
Declared ==
  {Named("any1"), Of("varchar", <<Named("L1")>>), Of("decimal", <<Named("P"), Named("S")>>),
   Of("list", <<Named("any1")>>), Of("list", <<OrNull(Named("i32"))>>), Of("list", <<Named("i32")>>),
   Of("map", <<Named("i32"), Named("i64")>>), Of("struct", <<Named("any1"), Named("i64")>>),
   Of("list", <<Of("list", <<Named("i32")>>)>>)}

DeclaredTypes ==
  {type \in OrNullToo(Declared \union {Named("i32"), Named("i64")}) : ~(type.marked /\ Matching!MarkedInside(type))}

Value(type) == [kind |-> "value", value |-> type]
Enum        == [kind |-> "enum", value |-> NoneWritten]

Function(section, args, variadic, return, intermediate) ==
  [section |-> section, name |-> "f", args |-> args, variadic |-> variadic,
   return |-> return, intermediate |-> intermediate]

TypeVariant(name) == [Function("types", << >>, NoVariadic, NoneWritten, NoneWritten) EXCEPT !.name = name]

Scalar(args) == Function("scalar", args, NoVariadic, NoneWritten, NoneWritten)

Few == {Named("any1"), Named("i32"), OrNull(Named("i64"))}

Scalars ==
  {Scalar(args) : args \in UNION {[1..n -> {Value(type) : type \in Few} \union {Enum}] : n \in 0..2}}
  \union {Scalar(<<Value(type)>>) : type \in DeclaredTypes}
  \union {Function("scalar", <<Value(type)>>, NoVariadic, return, NoneWritten) :
            type \in Few, return \in DeclaredTypes}
  \union {Function("scalar", <<Value(type)>>, [min |-> min, max |-> max], NoneWritten, NoneWritten) :
            type \in Few, min \in 0..2, max \in {Unbounded, 1, 2}}

Aggregates ==
  {Function("aggregate", args, NoVariadic, return, intermediate) :
     args \in {<< >>, <<Value(Named("i32"))>>, <<Value(OrNull(Named("i64")))>>},
     return \in {NoneWritten, Named("i64")},
     intermediate \in {NoneWritten, OrNull(Named("i64")), Of("struct", <<Named("i32"), Named("i64")>>)}}

File(uri, declarations) == [uri |-> uri, declarations |-> declarations]

\* One of everything; two of a few; two files with a type each.
MCLoads ==
  {<<File("a.yaml", <<function>>)>> : function \in Scalars \union Aggregates}
  \union {<<File("a.yaml", <<one>>), File("b.yaml", <<other, aggregate, TypeVariant(type)>>)>> :
            one \in {Scalar(<<Value(type)>>) : type \in Few} \union {TypeVariant("point")},
            other \in {Scalar(<<Value(type)>>) : type \in Few},
            aggregate \in {a \in Aggregates : a.return = NoneWritten}, type \in {"point", "line"}}
  \union {<<File("a.yaml", <<one, Scalar(<<Value(wrong)>>)>>)>> :
            one \in {Scalar(<<Value(Named("i32"))>>)},
            wrong \in {Of("point", <<Named("i32")>>), Of("decimal", <<Named("P")>>),
                       OrNull(Of("list", <<OrNull(Named("i32"))>>))}}

ASSUME MatchingAssumption == MatchesAsWritten
=============================================================================
