---------------------------------- MODULE Types ----------------------------------
(***************************************************************************)
(* Substrait types (type/Type.h).                                          *)
(*                                                                         *)
(* What is decoded is given as it is written, not as characters: a record  *)
(* of a name, whether a question mark follows it, and what stands between  *)
(* angle brackets, none of it if there are none.  A name is the name of a  *)
(* kind of types or any other word: "any1", "T", "38".                     *)
(*                                                                         *)
(* A decoded type is a record with the class it is an object of:           *)
(*   scalar         a ScalarType: a kind without parameters;               *)
(*   concrete       Decimal, Varchar, List, ...: the types of expressions; *)
(*   parameterized  ParameterizedDecimal, ...: the types of declarations;  *)
(*   literal        a StringLiteral: a word.                               *)
(***************************************************************************)
EXTENDS Sequences, Integers

ScalarKinds ==
  { "boolean", "i8", "i16", "i32", "i64", "fp32", "fp64", "string", "binary", "uuid",
    "interval_year", "interval_day", "timestamp", "timestamp_tz", "date", "time" }

LengthKinds == {"varchar", "fixedchar", "fixedbinary"}

NestedKinds == {"list", "map", "struct"}

CompoundKinds == LengthKinds \union NestedKinds \union {"decimal"}

Written(name, marked, parameters) ==
  [name |-> name, marked |-> marked, parameters |-> parameters]

Type(class, kind, nullable, parameters) ==
  [class |-> class, kind |-> kind, nullable |-> nullable, parameters |-> parameters]

Literal(word) == Type("literal", word, FALSE, << >>)

NoType  == Type("none", "none", FALSE, << >>)         \* a null pointer
Failed  == Type("exception", "none", FALSE, << >>)
Crashed == Type("undefined", "none", FALSE, << >>)    \* a null pointer followed
=============================================================================
