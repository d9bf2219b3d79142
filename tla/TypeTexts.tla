-------------------------------- MODULE TypeTexts --------------------------------
(***************************************************************************)
(* Types of messages and how they are written: PlanPrinterVisitor's        *)
(* visitType and SubstraitPlanTypeVisitor; and those that no pass of the   *)
(* converter gets past: BasePlanProtoVisitor's visitType.                  *)
(*                                                                         *)
(* The type of a message is a record of its kind, its nullability, its     *)
(* length (or precision and scale) as words, and the types inside it.      *)
(* What an operator reports comes with what it returns.                    *)
(***************************************************************************)
EXTENDS TypeMatching

CONSTANTS
  Integers,  \* the words that are whole numbers
  Stoi       \* what stoi makes of words that begin with one

ProtoType(kind, nullability, lengths, parts) ==
  [kind |-> kind, nullability |-> nullability, lengths |-> lengths, parts |-> parts]

UnsetType == ProtoType("unset", "unspecified", << >>, << >>)   \* KIND_NOT_SET

With(value, errors) == [value |-> value, errors |-> errors]

UnsupportedType == "Unsupported type requested"
NoTypeIncluded  == "Invalid type message -- type was not included."
BadType         == "Failed to decode type."
UnknownType     == "Unable to recognize requested type."
BadFixedChar    == "Could not parse fixedchar length."
NoVarcharLength == "Missing varchar length."
BadDecimal      == "Could not parse decimal precision and scale."
MapNeedsBoth    == "Maps require both a key and a value type."

\* Types without a kind, in whatever place, are an exception.
RECURSIVE UnvisitedType(_)
UnvisitedType(type) ==
  \/ type.kind \in {"unset", "user_defined_type_reference"}
  \/ \E i \in DOMAIN type.parts : UnvisitedType(type.parts[i])

-----------------------------------------------------------------------------
(* Printing.                                                               *)

PrintedKinds ==
  { "boolean", "i8", "i16", "i32", "i64", "fp32", "fp64", "string",
    "decimal", "varchar", "fixedchar", "date" }

Word(word) == Written(word, FALSE, << >>)

VisitType(type) ==
  IF type.kind \in PrintedKinds
  THEN With(Written(type.kind, type.nullability = "nullable",
                    [i \in DOMAIN type.lengths |-> Word(type.lengths[i])]), {})
  ELSE IF type.kind = "unset"
  THEN With(Word("MISSING_TYPE"), {NoTypeIncluded})
  ELSE With(Word("UNSUPPORTED_TYPE"), {UnsupportedType})

-----------------------------------------------------------------------------
(* Parsing.                                                                *)

NullValue(nullable) == IF nullable THEN "nullable" ELSE "required"

\* The length of a fixedbinary is not read.
LengthsToProto(decoded) ==
  LET words == [i \in DOMAIN decoded.parameters |-> decoded.parameters[i].kind]
      typed(lengths) == ProtoType(decoded.kind, NullValue(decoded.nullable), lengths, << >>)
  IN CASE decoded.kind = "fixedbinary" -> With(typed(<< >>), {})
       [] decoded.kind = "varchar" /\ words[1] \notin Integers -> With(UnsetType, {NoVarcharLength})
       [] \A i \in DOMAIN words : words[i] \in DOMAIN Stoi ->
            With(typed([i \in DOMAIN words |-> Stoi[words[i]]]), {})
       [] OTHER -> With(typed([i \in DOMAIN words |-> "0"]),
                        {IF decoded.kind = "decimal" THEN BadDecimal ELSE BadFixedChar})

\* "within": the type is that of a constant in braces, or inside one.
RECURSIVE TypeToProto(_, _)
TypeToProto(decoded, within) ==
  LET children == [i \in DOMAIN decoded.parameters |-> TypeToProto(decoded.parameters[i], within)]
  IN CASE decoded.class = "literal" ->
            With(UnsetType, IF within THEN {} ELSE {UnknownType})
       [] decoded.kind \in LengthKinds \union {"decimal"} -> LengthsToProto(decoded)
       [] decoded.kind = "map" /\ NoType \in {decoded.parameters[i] : i \in 1..2} ->
            With(UnsetType, {MapNeedsBoth})
       [] OTHER ->
            With(ProtoType(decoded.kind, NullValue(decoded.nullable), << >>,
                           [i \in DOMAIN children |-> children[i].value]),
                 UNION {children[i].errors : i \in DOMAIN children})

TextToTypeProto(written, within) ==
  LET decoded == Decode(written, TRUE)
  IN IF decoded = Failed THEN With(UnsetType, {BadType}) ELSE TypeToProto(decoded, within)

\* setNullable.
SetNullable(type) ==
  IF type.kind = "unset" THEN type ELSE [type EXCEPT !.nullability = "nullable"]

=============================================================================
