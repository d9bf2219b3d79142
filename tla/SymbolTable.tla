----------------------------- MODULE SymbolTable -----------------------------
(***************************************************************************)
(* The symbol table every pass of the plan converter writes to and reads   *)
(* from (SymbolTable.h, SymbolTable.cpp), as operators on a table value.   *)
(* The passes of the other modules keep a table in a variable and apply    *)
(* these operators to it; SymbolTableMachine lets any caller call any      *)
(* operation in any order.                                                 *)
(*                                                                         *)
(* A symbol is identified by its position in "symbols", counted from 1     *)
(* where the C++ vector counts from 0.  The subtype and the blob of a      *)
(* SymbolInfo are never read by the table and live with the passes.        *)
(***************************************************************************)
EXTENDS Integers, Sequences, FiniteSets

CONSTANTS
  Numbered(_, _),   \* Numbered(base, n): base followed by the digits of n
  UnknownLocation   \* Location::kUnknownLocation

NoSymbol == 0       \* the nullptr a failed lookup returns
NoAlias  == ""      \* an empty alias: "use the name"

(***************************************************************************)
(* std::map::operator[], std::map::insert (which keeps an entry that is    *)
(* already there) and std::multimap::insert (whose equal keys keep the     *)
(* order they were inserted in), on partial functions.                     *)
(***************************************************************************)
Put(map, key, value) ==
  [k \in DOMAIN map \union {key} |-> IF k = key THEN value ELSE map[k]]

\* Variant: an insert that overwrites.
InsertOverwrites(map, key, value) == Put(map, key, value)

Insert(map, key, value) ==
  IF key \in DOMAIN map THEN map ELSE Put(map, key, value)

ValuesAt(multimap, key) ==
  IF key \in DOMAIN multimap THEN multimap[key] ELSE << >>

\* Variant: a map in place of the multimap.
InsertReplaces(multimap, key, value) == Put(multimap, key, <<value>>)

InsertMulti(multimap, key, value) ==
  Put(multimap, key, Append(ValuesAt(multimap, key), value))

\* The first of a set of positions, as a forward loop that stops at the
\* first match finds it.
First(positions) ==
  IF positions = {}
  THEN NoSymbol
  ELSE CHOOSE i \in positions : \A j \in positions : i <= j

EmptyTable ==
  [ names      |-> << >>,   \* names_: base name -> how often it was asked for
    symbols    |-> << >>,   \* symbols_
    byName     |-> << >>,   \* symbolsByName_
    byLocation |-> << >> ]  \* symbolsByLocation_

-----------------------------------------------------------------------------
(* getUniqueName: the name it returns and the table it leaves.             *)

UniqueName(t, base) ==
  IF base \in DOMAIN t.names THEN Numbered(base, t.names[base] + 1) ELSE base

\* Variant: the second use of a name is not counted.
CountNameOnce(t, base) == [t EXCEPT !.names = Put(@, base, 1)]

CountName(t, base) ==
  [t EXCEPT !.names =
     Put(@, base, IF base \in DOMAIN @ THEN @[base] + 1 ELSE 1)]

NewSymbol(name, location, type) ==
  [ name                |-> name,
    alias               |-> NoAlias,
    sourceLocation      |-> location,
    permanentLocation   |-> UnknownLocation,
    parentQueryLocation |-> UnknownLocation,
    parentQueryIndex    |-> -1,
    type                |-> type ]

\* Variant: the index is taken after the symbol was appended.
DefineSymbolLate(t, name, location, type) ==
  LET index == Len(t.symbols) + 2
  IN [t EXCEPT !.symbols    = Append(@, NewSymbol(name, location, type)),
               !.byName     = Insert(@, name, index),
               !.byLocation = InsertMulti(@, location, index)]

DefineSymbol(t, name, location, type) ==
  LET index == Len(t.symbols) + 1
  IN [t EXCEPT !.symbols    = Append(@, NewSymbol(name, location, type)),
               !.byName     = Insert(@, name, index),
               !.byLocation = InsertMulti(@, location, index)]

DefineUniqueSymbol(t, base, location, type) ==
  DefineSymbol(CountName(t, base), UniqueName(t, base), location, type)

-----------------------------------------------------------------------------
(* The operations that change a symbol find it again with operator==, which *)
(* compares the name, the source location and the type and nothing else.   *)

SameSymbol(a, b) ==
  /\ a.name = b.name
  /\ a.sourceLocation = b.sourceLocation
  /\ a.type = b.type

FindSymbolIndex(t, symbol) ==
  First({i \in DOMAIN t.symbols : SameSymbol(t.symbols[i], symbol)})

AddPermanentLocation(t, symbol, location) ==
  LET index == FindSymbolIndex(t, symbol)
  IN [t EXCEPT !.symbols[index].permanentLocation = location,
               !.byLocation = InsertMulti(@, location, index)]

\* The indexes taken among the symbols whose parent query is at location.
TakenIndexes(symbols, location) ==
  { symbols[i].parentQueryIndex :
      i \in {j \in DOMAIN symbols : symbols[j].parentQueryLocation = location} }

HighestIndex(indexes) ==
  CHOOSE h \in indexes \union {-1} : \A k \in indexes \union {-1} : k <= h

\* Variant: the highest index is taken again.
SetParentQueryLocationLow(t, symbol, location) ==
  LET index == FindSymbolIndex(t, symbol)
      moved == [t.symbols EXCEPT ![index].parentQueryLocation = location]
      next  == HighestIndex(TakenIndexes(moved, location))
  IN [t EXCEPT !.symbols = [moved EXCEPT ![index].parentQueryIndex = next]]

\* The location is assigned before the loop looks for the highest index, so
\* the symbol's own old index takes part in the search.
SetParentQueryLocation(t, symbol, location) ==
  LET index == FindSymbolIndex(t, symbol)
      moved == [t.symbols EXCEPT ![index].parentQueryLocation = location]
      next  == HighestIndex(TakenIndexes(moved, location)) + 1
  IN [t EXCEPT !.symbols = [moved EXCEPT ![index].parentQueryIndex = next]]

AddAlias(t, alias, symbol) ==
  LET index == FindSymbolIndex(t, symbol)
  IN [t EXCEPT !.symbols[index].alias = alias,
               !.byName = Insert(@, alias, index)]

-----------------------------------------------------------------------------
(* The lookups.                                                            *)

LookupSymbolByName(t, name) ==
  IF name \in DOMAIN t.byName THEN t.byName[name] ELSE NoSymbol

LookupSymbolsByLocation(t, location) == ValuesAt(t.byLocation, location)

LookupSymbolByLocationAndTypes(t, location, types) ==
  LET found == ValuesAt(t.byLocation, location)
      match == {k \in DOMAIN found : t.symbols[found[k]].type \in types}
  IN IF match = {} THEN NoSymbol ELSE found[First(match)]

LookupSymbolByLocationAndType(t, location, type) ==
  LookupSymbolByLocationAndTypes(t, location, {type})

LookupSymbolByParentQueryAndType(t, location, index, type) ==
  First({i \in DOMAIN t.symbols :
           /\ t.symbols[i].parentQueryLocation = location
           /\ t.symbols[i].parentQueryIndex = index
           /\ t.symbols[i].type = type})

\* n counts from 0, as in the code.
NthSymbolByType(t, n, type) ==
  First({i \in DOMAIN t.symbols :
           /\ t.symbols[i].type = type
           /\ n = Cardinality({j \in 1..(i - 1) : t.symbols[j].type = type})})
=============================================================================
