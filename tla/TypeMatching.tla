------------------------------- MODULE TypeMatching -------------------------------
(***************************************************************************)
(* ParameterizedType::decode and isMatch (type/Type.cpp).                  *)
(***************************************************************************)
EXTENDS Types

CONSTANTS
  Wildcards,   \* the words that begin with "any"
  Numbers      \* the words that are numbers, none below zero

-----------------------------------------------------------------------------
(* Decoding.                                                               *)

\* dynamic_pointer_cast to Type and to StringLiteral.
AsType(type)    == IF type.class \in {"scalar", "concrete"} THEN type ELSE NoType
AsLiteral(type) == IF type.class = "literal" THEN type ELSE NoType

\* A declared map may have one parameter; other maps have to have two.
DecodeNested(kind, parameterized, nullable, nested) ==
  LET wanted == CASE kind = "list" -> 1 [] kind = "map" -> 2 [] OTHER -> Len(nested)
  IN IF parameterized
     THEN Type("parameterized", kind, nullable,
               [i \in 1..wanted |-> IF i <= Len(nested) THEN nested[i] ELSE NoType])
     ELSE IF Len(nested) < wanted THEN Crashed
     ELSE Type("concrete", kind, nullable, [i \in 1..wanted |-> AsType(nested[i])])

\* Parameters are words in a declaration, and numbers elsewhere.
DecodeWords(kind, parameterized, nullable, nested) ==
  LET wanted == IF kind = "decimal" THEN 2 ELSE 1
      words  == [i \in 1..wanted |-> AsLiteral(nested[i])]
  IN IF kind = "decimal" /\ Len(nested) # wanted THEN Failed
     ELSE IF parameterized THEN Type("parameterized", kind, nullable, words)
     ELSE IF words[1] = NoType THEN Crashed
     ELSE IF words[1].kind \notin Numbers THEN Failed
     ELSE IF words[wanted] = NoType THEN Crashed
     ELSE IF words[wanted].kind \notin Numbers THEN Failed
     ELSE Type("concrete", kind, nullable, words)

RECURSIVE MarkedInside(_)
MarkedInside(written) ==
  \E i \in DOMAIN written.parameters :
    written.parameters[i].marked \/ MarkedInside(written.parameters[i])

\* The mark before an angle bracket is looked for from the end: with another
\* one inside it is not cut off the name.
RECURSIVE Decode(_, _)
Decode(written, parameterized) ==
  LET nested == [i \in DOMAIN written.parameters |->
                   Decode(written.parameters[i], parameterized)]
      broken == {i \in DOMAIN nested : nested[i] \in {Failed, Crashed}}
  IN CASE written.parameters = << >> /\ written.name \in ScalarKinds ->
            Type("scalar", written.name, written.marked, << >>)
       [] written.parameters = << >> /\ written.name \notin ScalarKinds ->
            Literal(written.name)
       [] broken # {} -> nested[CHOOSE i \in broken : \A j \in broken : i <= j]
       [] OTHER ->
            IF written.name \notin CompoundKinds \/ (written.marked /\ MarkedInside(written))
            THEN Failed
            ELSE IF written.name \in NestedKinds
            THEN DecodeNested(written.name, parameterized, written.marked, nested)
            ELSE DecodeWords(written.name, parameterized, written.marked, nested)

-----------------------------------------------------------------------------
(* Matching.                                                               *)

\* What may be null takes what may not.
NullMatch(declared, type) == declared.nullable \/ declared.nullable = type.nullable

\* The class that an object has to be of: a declared fixedbinary asks for
\* another declared one.
ClassFor(declared) ==
  CASE declared.class = "scalar" -> {"scalar", "concrete", "parameterized"}
    [] declared.class = "parameterized" /\ declared.kind = "fixedbinary" -> {"parameterized"}
    [] OTHER -> {"concrete"}

\* Declared lengths, precisions and scales are not compared, and a concrete
\* structure asks nothing about null.
RECURSIVE IsMatch(_, _)
IsMatch(declared, type) ==
  IF declared.class = "literal"
  THEN declared.kind \in Wildcards \/ declared = type
  ELSE /\ type.class \in ClassFor(declared)
       /\ declared.kind = type.kind
       /\ NullMatch(declared, type) \/ (declared.class = "concrete" /\ declared.kind = "struct")
       /\ CASE declared.kind \in NestedKinds ->
                 /\ Len(declared.parameters) = Len(type.parameters)
                 /\ \A i \in DOMAIN declared.parameters :
                      IsMatch(declared.parameters[i], type.parameters[i])
            [] declared.class = "concrete" ->
                 declared.parameters = type.parameters
            [] declared.class = "parameterized" /\ declared.kind = "fixedbinary" ->
                 IsMatch(declared.parameters[1], type.parameters[1])
            [] OTHER -> TRUE

-----------------------------------------------------------------------------
(* What a declared type takes, as it is written.                           *)

RECURSIVE Takes(_, _)
Takes(declared, type) ==
  \/ declared.name \in Wildcards
  \/ /\ declared.name = type.name
     /\ type.marked => declared.marked
     /\ declared.name \in NestedKinds =>
          /\ Len(declared.parameters) = Len(type.parameters)
          /\ \A i \in DOMAIN declared.parameters :
               Takes(declared.parameters[i], type.parameters[i])
=============================================================================
