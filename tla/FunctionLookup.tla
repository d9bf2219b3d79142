------------------------------ MODULE FunctionLookup ------------------------------
(***************************************************************************)
(* The registry of functions: Extension::load reads files of declarations, *)
(* one by one, and FunctionLookup finds the implementation that takes the  *)
(* types of a call (function/*.cpp).                                       *)
(*                                                                         *)
(* A file is a sequence of declarations: scalar functions come first, then *)
(* aggregates, then types.  An argument is a value with a type, an enum or *)
(* a type.                                                                 *)
(*                                                                         *)
(* What types decode to and which of them match is left to TypeMatching.   *)
(***************************************************************************)
EXTENDS Types, SequencesExt

CONSTANTS
  Loads,       \* sequences of files to load
  Signatures,  \* what is looked up: a name, the types of arguments and of the result
  DecodeType(_, _), TypesMatch(_, _), TypeTakes(_, _)   \* those of TypeMatching

IsFile(f) ==
  /\ f.declarations \in Seq(ToSet(f.declarations))
  /\ \A d \in ToSet(f.declarations) : d.section \in {"scalar", "aggregate", "types"}

ASSUME LoadsAssumption ==
  \A load \in Loads : load \in Seq(ToSet(load)) /\ \A f \in ToSet(load) : IsFile(f)

VARIABLES
  files,
  file,        \* the file that is read, and
  next,        \* the next declaration in it
  extension,   \* what is registered
  outcome

vars == <<files, file, next, extension, outcome>>

NoVariadic       == [min |-> -1, max |-> -1]   \* std::nullopt; no file says -1
Unbounded        == -1
NoImplementation == [name |-> "none"]

Init ==
  /\ files \in Loads
  /\ file = 1
  /\ next = 1
  /\ extension = [scalar |-> << >>, aggregate |-> << >>, types |-> << >>]
  /\ outcome = IF files = << >> THEN "loaded" ELSE "loading"

-----------------------------------------------------------------------------
(* Loading.                                                                *)

NoneWritten == Written("none", FALSE, << >>)

DecodeOr(written) == IF written = NoneWritten THEN NoType ELSE DecodeType(written, TRUE)

\* decodeFunctionImpl, with what an aggregate has besides.
FunctionImplementation(node, uri) ==
  [ name         |-> node.name,
    uri          |-> uri,
    arguments    |-> [i \in DOMAIN node.args |->
                        [kind |-> node.args[i].kind, type |-> DecodeOr(node.args[i].value)]],
    returnType   |-> DecodeOr(node.return),
    variadic     |-> node.variadic,
    intermediate |-> DecodeOr(node.intermediate) ]

TypesOf(impl) ==
  {impl.arguments[i].type : i \in DOMAIN impl.arguments} \union {impl.returnType, impl.intermediate}

\* Variant: the newest implementation is tried first.
RegisterFirst(impls, impl) == <<impl>> \o impls

\* The implementations of a name are a vector in the map; the model keeps one
\* vector for all names, and looks at those of a name.
Register(impls, impl) == Append(impls, impl)

Declaration == files[file].declarations[next]

Loading(section) ==
  /\ outcome = "loading"
  /\ file <= Len(files)
  /\ next \in DOMAIN files[file].declarations
  /\ Declaration.section = section
  /\ UNCHANGED <<files, file>>

\* An exception ends the loading, and nothing is returned.
AddFunctionImpl(section) ==
  /\ Loading(section)
  /\ LET impl == FunctionImplementation(Declaration, files[file].uri)
     IN IF TypesOf(impl) \intersect {Failed, Crashed} # {}
        THEN /\ outcome' = "failed"
             /\ UNCHANGED <<next, extension>>
        ELSE /\ extension' = [extension EXCEPT ![section] = Register(@, impl)]
             /\ next' = next + 1
             /\ UNCHANGED outcome

AddScalarFunctionImpl    == AddFunctionImpl("scalar")
AddAggregateFunctionImpl == AddFunctionImpl("aggregate")

\* Variant: a type is added again.
RegisterTypeAgain(types, type) == Append(types, type)

\* The first type of a name stays.
RegisterType(types, type) ==
  IF \E i \in DOMAIN types : types[i].name = type.name THEN types ELSE Append(types, type)

AddTypeVariant ==
  /\ Loading("types")
  /\ extension' = [extension EXCEPT !.types =
       RegisterType(@, [name |-> Declaration.name, uri |-> files[file].uri])]
  /\ next' = next + 1
  /\ UNCHANGED outcome

NextFile ==
  /\ outcome = "loading"
  /\ file <= Len(files)
  /\ next > Len(files[file].declarations)
  /\ file' = file + 1
  /\ next' = 1
  /\ outcome' = IF file = Len(files) THEN "loaded" ELSE outcome
  /\ UNCHANGED <<files, extension>>

Next ==
  \/ AddScalarFunctionImpl
  \/ AddAggregateFunctionImpl
  \/ AddTypeVariant
  \/ NextFile

Spec == Init /\ [][Next]_vars

-----------------------------------------------------------------------------
(* Looking up.                                                             *)

InBounds(variadic, size) ==
  size >= variadic.min /\ (variadic.max = Unbounded \/ size <= variadic.max)

ValueArguments(impl) == SelectSeq(impl.arguments, LAMBDA a : a.kind = "value")

\* A variadic function has an argument, whose type is that of all.
ArgumentsMatch(impl, types) ==
  IF impl.variadic # NoVariadic
  THEN /\ InBounds(impl.variadic, Len(types))
       /\ impl.arguments[1].kind = "value" =>
            \A i \in DOMAIN types : TypesMatch(impl.arguments[1].type, types[i])
  ELSE /\ Len(ValueArguments(impl)) = Len(types)
       /\ \A i \in DOMAIN types : TypesMatch(ValueArguments(impl)[i].type, types[i])

ReturnMatches(impl, type) ==
  impl.returnType = NoType \/ type = NoType \/ TypesMatch(impl.returnType, type)

\* An aggregate also takes what it has made of some of its rows.
TryMatch(impl, signature) ==
  \/ ArgumentsMatch(impl, signature.arguments) /\ ReturnMatches(impl, signature.returnType)
  \/ /\ impl.intermediate # NoType
     /\ Len(signature.arguments) = 1
     /\ TypesMatch(impl.intermediate, signature.arguments[1])

\* The types of a call as decode makes them outside of declarations.
Signature(written) ==
  [ name       |-> written.name,
    arguments  |-> [i \in DOMAIN written.arguments |-> DecodeType(written.arguments[i], FALSE)],
    returnType |-> IF written.return = NoneWritten THEN NoType ELSE DecodeType(written.return, FALSE) ]

\* Variant: only the first of the name is asked.
LookupFirstOfName(impls, signature) ==
  LET named == {i \in DOMAIN impls : impls[i].name = signature.name}
      first == CHOOSE i \in named : \A j \in named : i <= j
  IN IF named # {} /\ TryMatch(impls[first], signature) THEN impls[first] ELSE NoImplementation

LookupFunction(impls, signature) ==
  LET found == {i \in DOMAIN impls : impls[i].name = signature.name /\ TryMatch(impls[i], signature)}
  IN IF found = {} THEN NoImplementation
     ELSE impls[CHOOSE i \in found : \A j \in found : i <= j]

LookupType(types, name) ==
  LET found == {i \in DOMAIN types : types[i].name = name}
  IN IF found = {} THEN NoImplementation
     ELSE types[CHOOSE i \in found : \A j \in found : i <= j]

-----------------------------------------------------------------------------
(* What a declaration means, as it is written: the types it takes.         *)

\* The arguments a declaration stands for when there are n of them.
Expected(node, n) ==
  LET values == SelectSeq(node.args, LAMBDA a : a.kind = "value")
  IN IF node.variadic = NoVariadic THEN values ELSE [i \in 1..n |-> values[1]]

Allows(variadic, n) ==
  variadic # NoVariadic => variadic.min <= n /\ (variadic.max # Unbounded => n <= variadic.max)

Describes(node, written) ==
  LET n        == Len(written.arguments)
      expected == Expected(node, n)
  IN \/ /\ Allows(node.variadic, n)
        /\ Len(expected) = n
        /\ \A i \in 1..n : TypeTakes(expected[i].value, written.arguments[i])
        /\ NoneWritten \in {node.return, written.return} \/ TypeTakes(node.return, written.return)
     \/ /\ node.intermediate # NoneWritten
        /\ n = 1 /\ TypeTakes(node.intermediate, written.arguments[1])

\* What has been read so far.
ReadBefore(f, d) == f < file \/ (f = file /\ d < next)

Read ==
  UNION {{files[f].declarations[d] :
            d \in {d \in DOMAIN files[f].declarations : ReadBefore(f, d)}} :
           f \in DOMAIN files}

Sections == {"scalar", "aggregate"}

Decoded == [written \in Signatures |-> Signature(written)]

Answer(section, written) == LookupFunction(extension[section], Decoded[written])

\* A declaration that decodes takes the calls it says it takes.
MatchesAsWritten ==
  \A load \in Loads : \A f \in ToSet(load) : \A d \in ToSet(f.declarations) :
    LET impl == FunctionImplementation(d, f.uri)
    IN d.section \in Sections /\ TypesOf(impl) \intersect {Failed, Crashed} = {} =>
         \A written \in Signatures : TryMatch(impl, Decoded[written]) <=> Describes(d, written)

(* What is registered is what was read, in order, and types of one name once.  *)
LookupTypeOK ==
  /\ outcome \in {"loading", "loaded", "failed"}
  /\ outcome = "loaded" <=> file = Len(files) + 1
  /\ \A section \in Sections :
       /\ {extension[section][i].name : i \in DOMAIN extension[section]}
            = {d.name : d \in {d \in Read : d.section = section}}
       /\ \A i \in DOMAIN extension[section] :
            TypesOf(extension[section][i]) \intersect {Failed, Crashed} = {}
  /\ {extension.types[i].name : i \in DOMAIN extension.types}
       = {d.name : d \in {d \in Read : d.section = "types"}}
  /\ IsInjective([i \in DOMAIN extension.types |-> extension.types[i].name])

(* A call finds an implementation exactly if one that was read takes the       *)
(* types, as they are written: decoding, counting and matching lose no         *)
(* overload and add none (Function.h: "Test if the actual types matched").     *)
FindsWhatIsDeclared ==
  \A section \in Sections, written \in Signatures :
    Answer(section, written) # NoImplementation
      <=> \E d \in Read : /\ d.section = section /\ d.name = written.name
                          /\ Describes(d, written)

(* What is read later, overloads and other files, does not change what a call  *)
(* finds, nor the file a type is from.                                         *)
AnswersStay ==
  [][/\ \A section \in Sections, written \in Signatures :
          Answer(section, written) # NoImplementation
            => Answer(section, written)' = Answer(section, written)
     /\ \A i \in DOMAIN extension.types :
          LET name == extension.types[i].name
          IN LookupType(extension'.types, name) = LookupType(extension.types, name)]_vars
=============================================================================
