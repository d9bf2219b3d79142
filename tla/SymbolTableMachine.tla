-------------------------- MODULE SymbolTableMachine --------------------------
(***************************************************************************)
(* The symbol table under every sequence of calls its callers can make:    *)
(* one action per operation of class SymbolTable that changes state.  The  *)
(* operations that take a symbol are given one the table owns, as every    *)
(* caller does (a symbol the table does not know indexes past the vector). *)
(***************************************************************************)
EXTENDS SymbolTable

CONSTANTS
  Name,         \* all the names a symbol can have
  Base,         \* the names callers ask to be made unique
  Given,        \* the names callers define and add as they are
  Location,     \* the parse tree nodes and messages of one plan
  Type,         \* the symbol types in use
  MaxSymbols,   \* bound: symbols defined
  MaxIndex,     \* bound: index of a subquery within its parent
  MaxLocated,   \* bound: symbols recorded at one location
  MaxHandedOut  \* bound: calls to getUniqueName

ASSUME NameAssumption ==
  /\ \A name \in Base \union Given : name \in Name
  /\ \A base \in Base, n \in 1..MaxHandedOut : Numbered(base, n) \in Name
\* Appending the digits of a number gives another name, and the name it gives
\* tells the base if one knows the number, the number if one knows the base.
\* It does not tell both: "atan" with 2 may be a base of its own.
ASSUME NumberedAssumption ==
  \A b, c \in Base, m, n \in 1..MaxHandedOut :
    /\ Numbered(b, n) # b
    /\ Numbered(b, m) = Numbered(b, n) => m = n
    /\ Numbered(b, n) = Numbered(c, n) => b = c
ASSUME LocationAssumption == UnknownLocation \notin Location
ASSUME BoundAssumption ==
  /\ MaxSymbols \in Nat
  /\ MaxIndex \in Nat
  /\ MaxLocated \in Nat
  /\ MaxHandedOut \in Nat

VARIABLES
  table,
  handedOut   \* history: every answer of getUniqueName, in order

vars == <<table, handedOut>>

Init ==
  /\ table = EmptyTable
  /\ handedOut = << >>

Room(location) ==
  /\ Len(table.symbols) < MaxSymbols
  /\ Len(LookupSymbolsByLocation(table, location)) < MaxLocated

\* The call to getUniqueName every caller that invents a name makes.
HandOut(base) ==
  /\ Len(handedOut) < MaxHandedOut
  /\ handedOut' = Append(handedOut,
       [ base  |-> base,
         count |-> CountName(table, base).names[base],
         name  |-> UniqueName(table, base) ])

GetUniqueName(base) ==
  /\ HandOut(base)
  /\ table' = CountName(table, base)

Define(name, location, type) ==
  /\ Room(location)
  /\ table' = DefineSymbol(table, name, location, type)
  /\ UNCHANGED handedOut

DefineUnique(base, location, type) ==
  /\ Room(location)
  /\ HandOut(base)
  /\ table' = DefineUniqueSymbol(table, base, location, type)

GivePermanentLocation(i, location) ==
  /\ Len(LookupSymbolsByLocation(table, location)) < MaxLocated
  /\ table' = AddPermanentLocation(table, table.symbols[i], location)
  /\ UNCHANGED handedOut

GiveParentQuery(i, location) ==
  /\ table' = SetParentQueryLocation(table, table.symbols[i], location)
  /\ \A j \in DOMAIN table'.symbols :
       table'.symbols[j].parentQueryIndex <= MaxIndex
  /\ UNCHANGED handedOut

GiveAlias(i, alias) ==
  /\ table' = AddAlias(table, alias, table.symbols[i])
  /\ UNCHANGED handedOut

Next ==
  \/ \E base \in Base : GetUniqueName(base)
  \/ \E location \in Location, type \in Type :
       \/ \E name \in Given : Define(name, location, type)
       \/ \E base \in Base : DefineUnique(base, location, type)
  \/ \E i \in DOMAIN table.symbols :
       \/ \E location \in Location :
            \/ GivePermanentLocation(i, location)
            \/ GiveParentQuery(i, location)
       \/ \E alias \in Given : GiveAlias(i, alias)

Spec == Init /\ [][Next]_vars

-----------------------------------------------------------------------------
(* Types.                                                                  *)

SymbolInfo ==
  [ name                : Name,
    alias               : Name \union {NoAlias},
    sourceLocation      : Location,
    permanentLocation   : Location \union {UnknownLocation},
    parentQueryLocation : Location \union {UnknownLocation},
    parentQueryIndex    : -1 .. MaxIndex,
    type                : Type ]

Positions(t) == 1..Len(t.symbols)

Symbols == Positions(table)

\* Everything in the table is of its type, and every position the two
\* indexes hold is that of a symbol: no lookup reads past the vector.
TableOK(t) ==
  /\ DOMAIN t = DOMAIN EmptyTable
  /\ t.symbols \in Seq(SymbolInfo)
  /\ \A base \in DOMAIN t.names : base \in Base /\ t.names[base] \in Nat
  /\ \A name \in DOMAIN t.byName : name \in Name /\ t.byName[name] \in Positions(t)
  /\ \A l \in DOMAIN t.byLocation :
       l \in Location /\ t.byLocation[l] \in Seq(Positions(t))

TypeOK ==
  /\ TableOK(table)
  /\ handedOut \in Seq([base : Base, count : Nat, name : Name])

-----------------------------------------------------------------------------
(* Safety.                                                                 *)

\* Two subqueries of one relation never share an index: the printer finds a
\* subquery's relation by (parent location, index), and would print one
\* relation for both (setParentQueryLocation).
SubqueryIndexUnique ==
  \A i, j \in Symbols :
    /\ table.symbols[i].parentQueryLocation # UnknownLocation
    /\ table.symbols[i].parentQueryLocation = table.symbols[j].parentQueryLocation
    /\ table.symbols[i].parentQueryIndex = table.symbols[j].parentQueryIndex
    => i = j

\* A symbol is found at the place it was defined and at the permanent place
\* it was moved to last, whatever was recorded at either in between
\* (defineSymbol, addPermanentLocation).
RecordedAt(t, location, i) ==
  \E k \in DOMAIN ValuesAt(t.byLocation, location) :
    ValuesAt(t.byLocation, location)[k] = i

FoundWhereItIs ==
  \A i \in Symbols :
    /\ RecordedAt(table, table.symbols[i].sourceLocation, i)
    /\ table.symbols[i].permanentLocation # UnknownLocation =>
         RecordedAt(table, table.symbols[i].permanentLocation, i)

\* What one pass found under a name or at a location, every later pass finds
\* there again: symbols keep their position and their identity, and neither
\* index ever lets a newer entry shadow an older one.
FoundAgain ==
  /\ \A name \in DOMAIN table.byName :
       LookupSymbolByName(table', name) = LookupSymbolByName(table, name)
  /\ \A location \in DOMAIN table.byLocation, type \in Type :
       LET found == LookupSymbolByLocationAndType(table, location, type)
       IN found # NoSymbol =>
            LookupSymbolByLocationAndType(table', location, type) = found
  /\ \A i \in Symbols : SameSymbol(table.symbols[i], table'.symbols[i])

LookupsAreStable == [][FoundAgain]_vars

\* Two equal answers of getUniqueName were asked for with two bases, and one of
\* the two bases more often than the other: however the calls are mixed, one
\* base is given no name twice.  That is less than its comment promises ("so
\* that it is unique", SymbolTable.h:131): atan, atan, atan2 is answered atan,
\* atan2, atan2.
AnswersApart ==
  \A i, j \in DOMAIN handedOut :
    handedOut[i].name = handedOut[j].name /\ i # j =>
      /\ handedOut[i].base # handedOut[j].base
      /\ handedOut[i].count # handedOut[j].count
=============================================================================
