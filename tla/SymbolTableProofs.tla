-------------------------- MODULE SymbolTableProofs --------------------------
(***************************************************************************)
(* What the symbol table guarantees its callers, for any number of         *)
(* symbols, names, locations and calls.                                    *)
(***************************************************************************)
EXTENDS SymbolTableMachine, SymbolTableLemmas

(***************************************************************************)
(* What each operation does to a well formed table.                        *)
(***************************************************************************)

\* The symbol an operation finds again is one of the table's, and is the
\* same symbol as far as operator== can tell.
LEMMA FindSymbolFinds ==
  ASSUME NEW t, TableOK(t), NEW i \in Positions(t)
  PROVE  LET f == FindSymbolIndex(t, t.symbols[i])
         IN f \in Positions(t) /\ SameSymbol(t.symbols[f], t.symbols[i])
<1> DEFINE M == {k \in DOMAIN t.symbols : SameSymbol(t.symbols[k], t.symbols[i])}
<1>1. DOMAIN t.symbols = Positions(t) /\ Positions(t) \subseteq Nat
  BY DEF TableOK, Positions
<1>2. i \in M /\ M \in SUBSET Nat
  BY <1>1 DEF SameSymbol
<1>3. First(M) \in M
  BY <1>2, FirstIsLeast
<1>4. QED
  BY <1>1, <1>3 DEF FindSymbolIndex

\* Recording a known position at a location keeps the location index well
\* formed, and keeps what was recorded anywhere before.
LEMMA InsertMultiKeeps ==
  ASSUME NEW P, NEW map, NEW l \in Location, NEW i \in P,
         \A k \in DOMAIN map : k \in Location /\ map[k] \in Seq(P)
  PROVE  LET new == InsertMulti(map, l, i)
         IN /\ DOMAIN new = DOMAIN map \union {l}
            /\ \A k \in DOMAIN new : k \in Location /\ new[k] \in Seq(P)
            /\ new[l] = Append(ValuesAt(map, l), i)
            /\ \A k \in DOMAIN map : k # l => new[k] = map[k]
            /\ ValuesAt(map, l) \in Seq(P)
<1>1. ValuesAt(map, l) \in Seq(P)
  BY DEF ValuesAt
<1>2. Append(ValuesAt(map, l), i) \in Seq(P)
  BY <1>1
<1>3. QED
  BY <1>1, <1>2 DEF InsertMulti, Put

LEMMA DefineSymbolOK ==
  ASSUME NEW t, TableOK(t),
         NEW name \in Name, NEW l \in Location, NEW type \in Type
  PROVE  LET u == DefineSymbol(t, name, l, type)
         IN /\ TableOK(u)
            /\ u.names = t.names
            /\ u.symbols = Append(t.symbols, NewSymbol(name, l, type))
            /\ u.byName = Insert(t.byName, name, Len(t.symbols) + 1)
            /\ u.byLocation = InsertMulti(t.byLocation, l, Len(t.symbols) + 1)
<1> DEFINE u == DefineSymbol(t, name, l, type)
           n == Len(t.symbols) + 1
           P == 1..n
<1>1. /\ DOMAIN u = DOMAIN EmptyTable
      /\ u.names = t.names
      /\ u.symbols = Append(t.symbols, NewSymbol(name, l, type))
      /\ u.byName = Insert(t.byName, name, n)
      /\ u.byLocation = InsertMulti(t.byLocation, l, n)
  BY DEF DefineSymbol, TableOK, EmptyTable
<1>2. NewSymbol(name, l, type) \in SymbolInfo
  BY BoundAssumption DEF NewSymbol, SymbolInfo
<1>3. u.symbols \in Seq(SymbolInfo) /\ Len(u.symbols) = n /\ n \in Nat
  BY <1>1, <1>2 DEF TableOK
<1>4. Positions(t) \subseteq P /\ n \in P /\ Positions(u) = P
  BY <1>3 DEF Positions
<1>5. \A m \in DOMAIN u.byName : m \in Name /\ u.byName[m] \in P
  BY <1>1, <1>4 DEF Insert, Put, TableOK
<1>6. \A k \in DOMAIN t.byLocation : k \in Location /\ t.byLocation[k] \in Seq(P)
  BY <1>4, SeqMonotonic DEF TableOK
<1>7. \A k \in DOMAIN u.byLocation : k \in Location /\ u.byLocation[k] \in Seq(P)
  <2>1. \A k \in DOMAIN InsertMulti(t.byLocation, l, n) :
          /\ k \in Location
          /\ InsertMulti(t.byLocation, l, n)[k] \in Seq(P)
    BY <1>4, <1>6, InsertMultiKeeps
  <2>2. QED
    BY <1>1, <2>1
<1>8. \A b \in DOMAIN u.names : b \in Base /\ u.names[b] \in Nat
  BY <1>1 DEF TableOK
<1>9. QED
  BY <1>1, <1>3, <1>4, <1>5, <1>7, <1>8 DEF TableOK

LEMMA AddPermanentLocationOK ==
  ASSUME NEW t, TableOK(t), NEW i \in Positions(t), NEW l \in Location
  PROVE  LET u == AddPermanentLocation(t, t.symbols[i], l)
             f == FindSymbolIndex(t, t.symbols[i])
         IN /\ TableOK(u)
            /\ f \in Positions(t)
            /\ u.names = t.names
            /\ u.symbols = [t.symbols EXCEPT ![f].permanentLocation = l]
            /\ u.byName = t.byName
            /\ u.byLocation = InsertMulti(t.byLocation, l, f)
            /\ Positions(u) = Positions(t)
<1> DEFINE u == AddPermanentLocation(t, t.symbols[i], l)
           f == FindSymbolIndex(t, t.symbols[i])
           s == [t.symbols[f] EXCEPT !.permanentLocation = l]
<1>1. f \in Positions(t)
  BY FindSymbolFinds
<1>2. /\ DOMAIN u = DOMAIN EmptyTable
      /\ u.names = t.names
      /\ u.symbols = [t.symbols EXCEPT ![f].permanentLocation = l]
      /\ u.byName = t.byName
      /\ u.byLocation = InsertMulti(t.byLocation, l, f)
  BY DEF AddPermanentLocation, TableOK, EmptyTable
<1>3. u.symbols = [t.symbols EXCEPT ![f] = s]
  BY <1>1, <1>2 DEF TableOK, Positions
<1>4. t.symbols[f] \in SymbolInfo
  BY <1>1 DEF TableOK, Positions
<1>5. s \in SymbolInfo
  BY <1>4 DEF SymbolInfo
<1>6. u.symbols \in Seq(SymbolInfo) /\ Len(u.symbols) = Len(t.symbols)
  BY <1>1, <1>3, <1>5, ExceptSeq DEF TableOK, Positions
<1>7. Positions(u) = Positions(t)
  BY <1>6 DEF Positions
<1>8. \A k \in DOMAIN InsertMulti(t.byLocation, l, f) :
        /\ k \in Location
        /\ InsertMulti(t.byLocation, l, f)[k] \in Seq(Positions(t))
  BY <1>1, InsertMultiKeeps DEF TableOK
<1>9. QED
  BY <1>1, <1>2, <1>6, <1>7, <1>8 DEF TableOK

LEMMA AddAliasOK ==
  ASSUME NEW t, TableOK(t), NEW i \in Positions(t), NEW alias \in Name
  PROVE  LET u == AddAlias(t, alias, t.symbols[i])
             f == FindSymbolIndex(t, t.symbols[i])
         IN /\ TableOK(u)
            /\ f \in Positions(t)
            /\ u.names = t.names
            /\ u.symbols = [t.symbols EXCEPT ![f].alias = alias]
            /\ u.byName = Insert(t.byName, alias, f)
            /\ u.byLocation = t.byLocation
            /\ Positions(u) = Positions(t)
<1> DEFINE u == AddAlias(t, alias, t.symbols[i])
           f == FindSymbolIndex(t, t.symbols[i])
           s == [t.symbols[f] EXCEPT !.alias = alias]
<1>1. f \in Positions(t)
  BY FindSymbolFinds
<1>2. /\ DOMAIN u = DOMAIN EmptyTable
      /\ u.names = t.names
      /\ u.symbols = [t.symbols EXCEPT ![f].alias = alias]
      /\ u.byName = Insert(t.byName, alias, f)
      /\ u.byLocation = t.byLocation
  BY DEF AddAlias, TableOK, EmptyTable
<1>3. u.symbols = [t.symbols EXCEPT ![f] = s]
  BY <1>1, <1>2 DEF TableOK, Positions
<1>4. t.symbols[f] \in SymbolInfo
  BY <1>1 DEF TableOK, Positions
<1>5. s \in SymbolInfo
  BY <1>4 DEF SymbolInfo
<1>6. u.symbols \in Seq(SymbolInfo) /\ Len(u.symbols) = Len(t.symbols)
  BY <1>1, <1>3, <1>5, ExceptSeq DEF TableOK, Positions
<1>7. Positions(u) = Positions(t)
  BY <1>6 DEF Positions
<1>8. \A m \in DOMAIN u.byName : m \in Name /\ u.byName[m] \in Positions(t)
  BY <1>1, <1>2 DEF Insert, Put, TableOK
<1>9. QED
  BY <1>1, <1>2, <1>6, <1>7, <1>8 DEF TableOK

\* The index given is one more than every index taken at that location, so
\* it differs from all of them.
LEMMA SetParentQueryLocationOK ==
  ASSUME NEW t, TableOK(t), NEW i \in Positions(t), NEW l \in Location,
         LET u == SetParentQueryLocation(t, t.symbols[i], l)
         IN \A j \in DOMAIN u.symbols : u.symbols[j].parentQueryIndex <= MaxIndex
  PROVE  LET u == SetParentQueryLocation(t, t.symbols[i], l)
             f == FindSymbolIndex(t, t.symbols[i])
         IN /\ TableOK(u)
            /\ f \in Positions(t)
            /\ u.names = t.names
            /\ u.byName = t.byName
            /\ u.byLocation = t.byLocation
            /\ Positions(u) = Positions(t)
            /\ \A j \in Positions(t) \ {f} : u.symbols[j] = t.symbols[j]
            /\ SameSymbol(u.symbols[f], t.symbols[f])
            /\ u.symbols[f].permanentLocation = t.symbols[f].permanentLocation
            /\ u.symbols[f].parentQueryLocation = l
            /\ \A j \in Positions(t) \ {f} :
                 t.symbols[j].parentQueryLocation = l =>
                   t.symbols[j].parentQueryIndex < u.symbols[f].parentQueryIndex
<1> DEFINE u == SetParentQueryLocation(t, t.symbols[i], l)
           f == FindSymbolIndex(t, t.symbols[i])
           moved == [t.symbols EXCEPT ![f].parentQueryLocation = l]
           taken == TakenIndexes(moved, l)
           next == HighestIndex(taken) + 1
           s == [[t.symbols[f] EXCEPT !.parentQueryLocation = l]
                    EXCEPT !.parentQueryIndex = next]
<1>1. f \in Positions(t)
  BY FindSymbolFinds
<1>2. t.symbols \in Seq(SymbolInfo) /\ DOMAIN t.symbols = Positions(t)
  BY DEF TableOK, Positions
<1>3. /\ DOMAIN u = DOMAIN EmptyTable
      /\ u.names = t.names
      /\ u.symbols = [moved EXCEPT ![f].parentQueryIndex = next]
      /\ u.byName = t.byName
      /\ u.byLocation = t.byLocation
  BY DEF SetParentQueryLocation, TableOK, EmptyTable
<1>4. /\ DOMAIN moved = Positions(t)
      /\ \A j \in Positions(t) \ {f} : moved[j] = t.symbols[j]
      /\ moved[f] = [t.symbols[f] EXCEPT !.parentQueryLocation = l]
  BY <1>1, <1>2
<1>5. \A j \in Positions(t) : t.symbols[j] \in SymbolInfo
  BY <1>2
<1>6. moved[f].parentQueryIndex = t.symbols[f].parentQueryIndex
  BY <1>1, <1>4, <1>5 DEF SymbolInfo
<1>7. \A j \in Positions(t) : moved[j].parentQueryIndex \in -1 .. MaxIndex
  BY <1>1, <1>4, <1>5, <1>6 DEF SymbolInfo
<1>8. taken \in SUBSET (-1 .. MaxIndex)
  BY <1>4, <1>7 DEF TakenIndexes
<1>9. /\ HighestIndex(taken) \in taken \union {-1}
      /\ \A k \in taken : k <= HighestIndex(taken)
  BY <1>8, BoundAssumption, HighestIsGreatest
<1>10. next \in Nat
  BY <1>8, <1>9
<1>11. u.symbols = [t.symbols EXCEPT ![f] = s]
  BY <1>1, <1>2, <1>3
<1>12. u.symbols[f] = s /\ s.parentQueryIndex = next
  BY <1>1, <1>2, <1>5, <1>11 DEF SymbolInfo
<1>13. next <= MaxIndex
  <2>1. f \in DOMAIN u.symbols
    BY <1>1, <1>2, <1>11
  <2>2. u.symbols[f].parentQueryIndex <= MaxIndex
    BY <2>1
  <2>3. QED
    BY <1>12, <2>2
<1>14. s \in SymbolInfo
  <2>1. next \in -1 .. MaxIndex
    BY <1>10, <1>13, BoundAssumption
  <2>2. t.symbols[f] \in SymbolInfo
    BY <1>1, <1>5
  <2> HIDE DEF next, f
  <2>3. QED
    BY <2>1, <2>2 DEF SymbolInfo
<1>15. u.symbols \in Seq(SymbolInfo) /\ Len(u.symbols) = Len(t.symbols)
  BY <1>1, <1>2, <1>11, <1>14, ExceptSeq DEF Positions
<1>16. Positions(u) = Positions(t)
  BY <1>15 DEF Positions
<1>17. TableOK(u)
  BY <1>3, <1>15, <1>16 DEF TableOK
<1>18. \A j \in Positions(t) \ {f} : u.symbols[j] = t.symbols[j]
  BY <1>2, <1>11
<1>19. /\ SameSymbol(s, t.symbols[f])
       /\ s.permanentLocation = t.symbols[f].permanentLocation
       /\ s.parentQueryLocation = l
  BY <1>1, <1>5 DEF SymbolInfo, SameSymbol
<1>20. ASSUME NEW j \in Positions(t) \ {f}, t.symbols[j].parentQueryLocation = l
       PROVE  t.symbols[j].parentQueryIndex < next
  <2>1. moved[j].parentQueryIndex \in taken
    BY <1>4, <1>20 DEF TakenIndexes
  <2>2. t.symbols[j].parentQueryIndex \in taken
    BY <1>4, <2>1
  <2>3. QED
    BY <1>8, <1>9, <2>2
<1>21. QED
  BY <1>1, <1>3, <1>12, <1>16, <1>17, <1>18, <1>19, <1>20

-----------------------------------------------------------------------------
(***************************************************************************)
(* Types.  A numbered name is a name because getUniqueName counts the      *)
(* calls it answered: CountsBounded ties its counters to the history.      *)
(***************************************************************************)

CountsBounded ==
  /\ Len(handedOut) <= MaxHandedOut
  /\ \A base \in DOMAIN table.names : table.names[base] \in 1..Len(handedOut)

TypeInv == TypeOK /\ CountsBounded

\* getUniqueName returns a name and counts the call.
LEMMA HandOutOK ==
  ASSUME TypeInv, NEW base \in Base, HandOut(base)
  PROVE  LET t == CountName(table, base)
         IN /\ TableOK(t)
            /\ t.symbols = table.symbols
            /\ t.byName = table.byName
            /\ t.byLocation = table.byLocation
            /\ \A b \in DOMAIN t.names : t.names[b] \in 1..Len(handedOut')
            /\ UniqueName(table, base) \in Name
            /\ handedOut' \in Seq([base : Base, count : Nat, name : Name])
            /\ Len(handedOut') = Len(handedOut) + 1
            /\ Len(handedOut') <= MaxHandedOut
<1> DEFINE t == CountName(table, base)
           n == IF base \in DOMAIN table.names THEN table.names[base] + 1 ELSE 1
<1>1. /\ DOMAIN t = DOMAIN EmptyTable
      /\ t.symbols = table.symbols
      /\ t.byName = table.byName
      /\ t.byLocation = table.byLocation
      /\ t.names = Put(table.names, base, n)
  BY DEF CountName, TypeInv, TypeOK, TableOK, EmptyTable
<1>2. n \in 1..Len(handedOut) + 1 /\ n \in 1..MaxHandedOut
  BY BoundAssumption DEF TypeInv, TypeOK, CountsBounded, HandOut
<1>3. UniqueName(table, base) \in Name
  BY <1>2, NameAssumption DEF UniqueName
<1>4. t.names[base] = n
  BY <1>1 DEF Put
<1>5. [base |-> base, count |-> n, name |-> UniqueName(table, base)]
        \in [base : Base, count : Nat, name : Name]
  BY <1>2, <1>3
<1>6. /\ handedOut' \in Seq([base : Base, count : Nat, name : Name])
      /\ Len(handedOut') = Len(handedOut) + 1
  BY <1>4, <1>5 DEF HandOut, TypeInv, TypeOK
<1>7. Len(handedOut') <= MaxHandedOut
  BY <1>6, BoundAssumption DEF HandOut, TypeInv, TypeOK
<1>8. \A b \in DOMAIN t.names :
        b \in Base /\ t.names[b] \in 1..Len(handedOut')
  BY <1>1, <1>2, <1>6 DEF Put, TypeInv, TypeOK, TableOK, CountsBounded
<1>9. TableOK(t)
  BY <1>1, <1>6, <1>8 DEF TypeInv, TypeOK, TableOK, Positions
<1>10. QED
  BY <1>1, <1>3, <1>6, <1>7, <1>8, <1>9

LEMMA TypeInvStep == TypeInv /\ [Next]_vars => TypeInv'
<1> SUFFICES ASSUME TypeInv, [Next]_vars
             PROVE  TypeInv'
  OBVIOUS
<1> USE DEF TypeInv
<1>1. TableOK(table)
  BY DEF TypeOK
<1>2. ASSUME NEW base \in Base, GetUniqueName(base)
      PROVE  TypeInv'
  BY <1>2, HandOutOK DEF GetUniqueName, TypeOK, CountsBounded
<1>3. ASSUME NEW base \in Given, NEW l \in Location, NEW type \in Type,
             Define(base, l, type)
      PROVE  TypeInv'
  <2>1. base \in Name
    BY NameAssumption
  <2>2. TableOK(table') /\ table'.names = table.names
    BY <1>1, <1>3, <2>1, DefineSymbolOK DEF Define
  <2>3. QED
    BY <1>3, <2>2 DEF Define, TypeOK, CountsBounded
<1>4. ASSUME NEW base \in Base, NEW l \in Location, NEW type \in Type,
             DefineUnique(base, l, type)
      PROVE  TypeInv'
  <2> DEFINE t == CountName(table, base)
  <2>1. HandOut(base) /\ table' = DefineSymbol(t, UniqueName(table, base), l, type)
    BY <1>4 DEF DefineUnique, DefineUniqueSymbol
  <2>2. /\ TableOK(t)
        /\ UniqueName(table, base) \in Name
        /\ \A b \in DOMAIN t.names : t.names[b] \in 1..Len(handedOut')
        /\ handedOut' \in Seq([base : Base, count : Nat, name : Name])
        /\ Len(handedOut') <= MaxHandedOut
    BY <2>1, HandOutOK
  <2>3. TableOK(table') /\ table'.names = t.names
    BY <2>1, <2>2, DefineSymbolOK
  <2>4. QED
    BY <2>2, <2>3 DEF TypeOK, CountsBounded
<1>5. ASSUME NEW i \in DOMAIN table.symbols, NEW l \in Location,
             GivePermanentLocation(i, l)
      PROVE  TypeInv'
  <2>1. i \in Positions(table)
    BY <1>1 DEF TableOK, Positions
  <2>2. TableOK(table') /\ table'.names = table.names
    BY <1>1, <1>5, <2>1, AddPermanentLocationOK DEF GivePermanentLocation
  <2>3. QED
    BY <1>5, <2>2 DEF GivePermanentLocation, TypeOK, CountsBounded
<1>6. ASSUME NEW i \in DOMAIN table.symbols, NEW l \in Location,
             GiveParentQuery(i, l)
      PROVE  TypeInv'
  <2>1. i \in Positions(table)
    BY <1>1 DEF TableOK, Positions
  <2>2. TableOK(table') /\ table'.names = table.names
    BY <1>1, <1>6, <2>1, SetParentQueryLocationOK DEF GiveParentQuery
  <2>3. QED
    BY <1>6, <2>2 DEF GiveParentQuery, TypeOK, CountsBounded
<1>7. ASSUME NEW i \in DOMAIN table.symbols, NEW alias \in Given,
             GiveAlias(i, alias)
      PROVE  TypeInv'
  <2>1. i \in Positions(table) /\ alias \in Name
    BY <1>1, NameAssumption DEF TableOK, Positions
  <2>2. TableOK(table') /\ table'.names = table.names
    BY <1>1, <1>7, <2>1, AddAliasOK DEF GiveAlias
  <2>3. QED
    BY <1>7, <2>2 DEF GiveAlias, TypeOK, CountsBounded
<1>8. CASE UNCHANGED vars
  BY <1>8 DEF vars, TypeOK, CountsBounded
<1>9. QED
  BY <1>2, <1>3, <1>4, <1>5, <1>6, <1>7, <1>8 DEF Next

\* The table stays well formed: no sequence of calls makes an index hold a
\* position past the end of the vector of symbols.
THEOREM TypeCorrect == Spec => []TypeOK
<1>1. Init => TypeInv
  BY BoundAssumption DEF Init, TypeInv, TypeOK, TableOK, CountsBounded, EmptyTable
<1>2. TypeInv /\ [Next]_vars => TypeInv'
  BY TypeInvStep
<1>3. TypeInv => TypeOK
  BY DEF TypeInv
<1>4. QED
  BY <1>1, <1>2, <1>3, PTL DEF Spec

-----------------------------------------------------------------------------
(***************************************************************************)
(* Nothing recorded is lost or shadowed.  Grew says what every operation   *)
(* does to a table, and the properties of the lookups follow from it.      *)
(***************************************************************************)

Grew(t, u) ==
  /\ \A name \in DOMAIN t.byName :
       name \in DOMAIN u.byName /\ u.byName[name] = t.byName[name]
  /\ Positions(t) \subseteq Positions(u)
  /\ \A i \in Positions(t) : SameSymbol(t.symbols[i], u.symbols[i])
  /\ \A l \in DOMAIN t.byLocation :
       /\ l \in DOMAIN u.byLocation
       /\ DOMAIN t.byLocation[l] \subseteq DOMAIN u.byLocation[l]
       /\ \A k \in DOMAIN u.byLocation[l] :
            IF k \in DOMAIN t.byLocation[l]
            THEN u.byLocation[l][k] = t.byLocation[l][k]
            ELSE \A j \in DOMAIN t.byLocation[l] : j <= k

\* Appending to one entry of the location index leaves the others, and the
\* beginning of that one.
LEMMA InsertMultiGrows ==
  ASSUME NEW P, NEW map, NEW l \in Location, NEW i \in P,
         \A k \in DOMAIN map : k \in Location /\ map[k] \in Seq(P)
  PROVE  LET new == InsertMulti(map, l, i)
         IN /\ \A m \in DOMAIN map :
                 /\ m \in DOMAIN new
                 /\ DOMAIN map[m] \subseteq DOMAIN new[m]
                 /\ \A k \in DOMAIN new[m] :
                      IF k \in DOMAIN map[m]
                      THEN new[m][k] = map[m][k]
                      ELSE \A j \in DOMAIN map[m] : j <= k
            /\ \E k \in DOMAIN ValuesAt(new, l) : ValuesAt(new, l)[k] = i
<1> DEFINE new == InsertMulti(map, l, i)
           old == ValuesAt(map, l)
<1>1. /\ DOMAIN new = DOMAIN map \union {l}
      /\ new[l] = Append(old, i)
      /\ \A k \in DOMAIN map : k # l => new[k] = map[k]
      /\ old \in Seq(P)
  BY DEF InsertMulti, Put, ValuesAt
<1> HIDE DEF new, old
<1>2. /\ DOMAIN new[l] = 1..Len(old) + 1
      /\ DOMAIN old = 1..Len(old)
      /\ Len(old) \in Nat
      /\ \A k \in 1..Len(old) : new[l][k] = old[k]
      /\ new[l][Len(old) + 1] = i
  BY <1>1
<1>3. ASSUME NEW m \in DOMAIN map
      PROVE  /\ m \in DOMAIN new
             /\ DOMAIN map[m] \subseteq DOMAIN new[m]
             /\ \A k \in DOMAIN new[m] :
                  IF k \in DOMAIN map[m]
                  THEN new[m][k] = map[m][k]
                  ELSE \A j \in DOMAIN map[m] : j <= k
  <2>1. CASE m = l
    <3>1. map[m] = old
      BY <2>1 DEF old, ValuesAt
    <3>2. QED
      BY <1>1, <1>2, <2>1, <3>1
  <2>2. CASE m # l
    BY <1>1, <2>2
  <2>3. QED
    BY <2>1, <2>2
<1>4. \E k \in DOMAIN ValuesAt(new, l) : ValuesAt(new, l)[k] = i
  <2>1. ValuesAt(new, l) = new[l]
    BY <1>1 DEF ValuesAt
  <2>2. Len(old) + 1 \in DOMAIN new[l]
    BY <1>2
  <2>3. QED
    BY <1>2, <2>1, <2>2
<1>5. QED
  BY <1>3, <1>4 DEF new

LEMMA GrewRefl == ASSUME NEW t, TableOK(t) PROVE Grew(t, t)
  BY DEF Grew, SameSymbol

\* Every step lets the table grow.
LEMMA StepGrows == TypeInv /\ [Next]_vars => Grew(table, table')
<1> SUFFICES ASSUME TypeInv, [Next]_vars
             PROVE  Grew(table, table')
  OBVIOUS
<1>1. TableOK(table)
  BY DEF TypeInv, TypeOK
<1>2. DOMAIN table.symbols = Positions(table) /\ Len(table.symbols) \in Nat
  BY <1>1 DEF TableOK, Positions
<1>3. ASSUME NEW t, TableOK(t), t.symbols = table.symbols,
             t.byName = table.byName, t.byLocation = table.byLocation,
             NEW name \in Name, NEW l \in Location, NEW type \in Type,
             table' = DefineSymbol(t, name, l, type)
      PROVE  Grew(table, table')
  <2> DEFINE n == Len(table.symbols) + 1
  <2>1. /\ TableOK(table')
        /\ table'.symbols = Append(table.symbols, NewSymbol(name, l, type))
        /\ table'.byName = Insert(table.byName, name, n)
        /\ table'.byLocation = InsertMulti(table.byLocation, l, n)
    BY <1>3, DefineSymbolOK
  <2>2. Positions(table) \subseteq 1..n /\ n \in 1..n
    BY <1>2 DEF Positions
  <2>3. \A k \in DOMAIN table.byLocation :
          k \in Location /\ table.byLocation[k] \in Seq(1..n)
    BY <1>1, <2>2, SeqMonotonic DEF TableOK
  <2>4. \A m \in DOMAIN table.byLocation :
          /\ m \in DOMAIN table'.byLocation
          /\ DOMAIN table.byLocation[m] \subseteq DOMAIN table'.byLocation[m]
          /\ \A k \in DOMAIN table'.byLocation[m] :
               IF k \in DOMAIN table.byLocation[m]
               THEN table'.byLocation[m][k] = table.byLocation[m][k]
               ELSE \A j \in DOMAIN table.byLocation[m] : j <= k
    <3> HIDE DEF n
    <3>1. QED
      BY <2>1, <2>2, <2>3, InsertMultiGrows
  <2>5. table.symbols \in Seq(SymbolInfo)
    BY <1>1 DEF TableOK
  <2>6. Positions(table) \subseteq Positions(table')
    BY <2>1, <2>5, AppendProperties DEF Positions
  <2>7. \A i \in Positions(table) : table'.symbols[i] = table.symbols[i]
    BY <2>1, <2>5, AppendProperties DEF Positions
  <2>8. \A m \in DOMAIN table.byName :
          m \in DOMAIN table'.byName /\ table'.byName[m] = table.byName[m]
    BY <2>1 DEF Insert, Put
  <2>9. QED
    BY <2>4, <2>6, <2>7, <2>8 DEF Grew, SameSymbol
<1>4. ASSUME NEW base \in Base, GetUniqueName(base)
      PROVE  Grew(table, table')
  BY <1>4, HandOutOK DEF GetUniqueName, Grew, SameSymbol, Positions, TypeInv, TypeOK, TableOK
<1>5. ASSUME NEW base \in Given, NEW l \in Location, NEW type \in Type,
             Define(base, l, type)
      PROVE  Grew(table, table')
  BY <1>1, <1>3, <1>5, NameAssumption DEF Define
<1>6. ASSUME NEW base \in Base, NEW l \in Location, NEW type \in Type,
             DefineUnique(base, l, type)
      PROVE  Grew(table, table')
  <2> DEFINE t == CountName(table, base)
  <2>1. HandOut(base) /\ table' = DefineSymbol(t, UniqueName(table, base), l, type)
    BY <1>6 DEF DefineUnique, DefineUniqueSymbol
  <2>2. /\ TableOK(t)
        /\ t.symbols = table.symbols
        /\ t.byName = table.byName
        /\ t.byLocation = table.byLocation
        /\ UniqueName(table, base) \in Name
    BY <2>1, HandOutOK
  <2>3. QED
    BY <1>3, <2>1, <2>2
<1>7. ASSUME NEW i \in DOMAIN table.symbols, NEW l \in Location,
             GivePermanentLocation(i, l)
      PROVE  Grew(table, table')
  <2> DEFINE f == FindSymbolIndex(table, table.symbols[i])
  <2>1. /\ f \in Positions(table)
        /\ table'.symbols = [table.symbols EXCEPT ![f].permanentLocation = l]
        /\ table'.byName = table.byName
        /\ table'.byLocation = InsertMulti(table.byLocation, l, f)
        /\ Positions(table') = Positions(table)
    BY <1>1, <1>2, <1>7, AddPermanentLocationOK DEF GivePermanentLocation
  <2> HIDE DEF f
  <2>2. \A k \in DOMAIN table.byLocation :
          k \in Location /\ table.byLocation[k] \in Seq(Positions(table))
    BY <1>1 DEF TableOK
  <2>3. \A m \in DOMAIN table.byLocation :
          /\ m \in DOMAIN table'.byLocation
          /\ DOMAIN table.byLocation[m] \subseteq DOMAIN table'.byLocation[m]
          /\ \A k \in DOMAIN table'.byLocation[m] :
               IF k \in DOMAIN table.byLocation[m]
               THEN table'.byLocation[m][k] = table.byLocation[m][k]
               ELSE \A j \in DOMAIN table.byLocation[m] : j <= k
    BY <2>1, <2>2, InsertMultiGrows
  <2>4. table.symbols \in Seq(SymbolInfo)
    BY <1>1 DEF TableOK
  <2>5. \A k \in Positions(table) : SameSymbol(table.symbols[k], table'.symbols[k])
    BY <1>2, <2>1, <2>4 DEF SameSymbol, SymbolInfo
  <2>6. QED
    BY <2>1, <2>3, <2>5 DEF Grew
<1>8. ASSUME NEW i \in DOMAIN table.symbols, NEW l \in Location,
             GiveParentQuery(i, l)
      PROVE  Grew(table, table')
  <2> DEFINE f == FindSymbolIndex(table, table.symbols[i])
  <2>1. /\ table'.byName = table.byName
        /\ table'.byLocation = table.byLocation
        /\ Positions(table') = Positions(table)
        /\ \A j \in Positions(table) \ {f} : table'.symbols[j] = table.symbols[j]
        /\ SameSymbol(table'.symbols[f], table.symbols[f])
    BY <1>1, <1>2, <1>8, SetParentQueryLocationOK DEF GiveParentQuery
  <2> HIDE DEF f
  <2>2. \A k \in Positions(table) : SameSymbol(table.symbols[k], table'.symbols[k])
    BY <2>1 DEF SameSymbol
  <2>3. QED
    BY <2>1, <2>2 DEF Grew
<1>9. ASSUME NEW i \in DOMAIN table.symbols, NEW alias \in Given,
             GiveAlias(i, alias)
      PROVE  Grew(table, table')
  <2> DEFINE f == FindSymbolIndex(table, table.symbols[i])
  <2>1. /\ f \in Positions(table)
        /\ table'.symbols = [table.symbols EXCEPT ![f].alias = alias]
        /\ table'.byName = Insert(table.byName, alias, f)
        /\ table'.byLocation = table.byLocation
        /\ Positions(table') = Positions(table)
    BY <1>1, <1>2, <1>9, NameAssumption, AddAliasOK DEF GiveAlias
  <2> HIDE DEF f
  <2>2. table.symbols \in Seq(SymbolInfo)
    BY <1>1 DEF TableOK
  <2>3. \A k \in Positions(table) : SameSymbol(table.symbols[k], table'.symbols[k])
    BY <1>2, <2>1, <2>2 DEF SameSymbol, SymbolInfo
  <2>4. \A m \in DOMAIN table.byName :
          m \in DOMAIN table'.byName /\ table'.byName[m] = table.byName[m]
    BY <2>1 DEF Insert, Put
  <2>5. QED
    BY <2>1, <2>3, <2>4 DEF Grew
<1>10. CASE UNCHANGED vars
  BY <1>1, <1>10, GrewRefl DEF vars
<1>11. QED
  BY <1>4, <1>5, <1>6, <1>7, <1>8, <1>9, <1>10 DEF Next

\* A lookup by location and type finds in the grown table what it found.
LEMMA GrewFoundAgain ==
  ASSUME NEW t, NEW u, TableOK(t), TableOK(u), Grew(t, u),
         NEW l \in DOMAIN t.byLocation, NEW type,
         LookupSymbolByLocationAndType(t, l, type) # NoSymbol
  PROVE  LookupSymbolByLocationAndType(u, l, type)
           = LookupSymbolByLocationAndType(t, l, type)
<1> DEFINE A == t.byLocation[l]
           B == u.byLocation[l]
           M == {k \in DOMAIN A : t.symbols[A[k]].type \in {type}}
           N == {k \in DOMAIN B : u.symbols[B[k]].type \in {type}}
<1>1. /\ l \in DOMAIN u.byLocation
      /\ A \in Seq(Positions(t)) /\ B \in Seq(Positions(u))
  BY DEF Grew, TableOK
<1>2. ValuesAt(t.byLocation, l) = A /\ ValuesAt(u.byLocation, l) = B
  BY <1>1 DEF ValuesAt
<1>3. LookupSymbolByLocationAndType(t, l, type)
        = IF M = {} THEN NoSymbol ELSE A[First(M)]
  BY <1>2 DEF LookupSymbolByLocationAndType, LookupSymbolByLocationAndTypes
<1>4. LookupSymbolByLocationAndType(u, l, type)
        = IF N = {} THEN NoSymbol ELSE B[First(N)]
  BY <1>2 DEF LookupSymbolByLocationAndType, LookupSymbolByLocationAndTypes
<1>5. M # {}
  BY <1>3
<1>6. /\ DOMAIN A \subseteq DOMAIN B /\ DOMAIN A \subseteq Nat /\ DOMAIN B \subseteq Nat
      /\ \A k \in DOMAIN A : B[k] = A[k] /\ A[k] \in Positions(t)
      /\ \A k \in DOMAIN B \ DOMAIN A : \A j \in DOMAIN A : j <= k
  BY <1>1 DEF Grew
<1>7. \A i \in Positions(t) : t.symbols[i].type = u.symbols[i].type
  BY DEF Grew, SameSymbol
<1>8. M \subseteq N /\ N \cap DOMAIN A = M
  BY <1>6, <1>7
<1>9. M \in SUBSET Nat /\ N \in SUBSET Nat
  BY <1>6
<1>10. First(M) \in M /\ \A j \in M : First(M) <= j
  BY <1>5, <1>9, FirstIsLeast
<1>11. \A j \in N : First(M) <= j
  BY <1>6, <1>8, <1>10
<1>12. First(N) = First(M)
  BY <1>8, <1>9, <1>10, <1>11, FirstIs
<1>13. B[First(M)] = A[First(M)]
  BY <1>6, <1>10
<1>14. QED
  BY <1>3, <1>4, <1>5, <1>8, <1>12, <1>13

\* What one pass found in the table, every later pass finds there again.
THEOREM LookupsStay == Spec => LookupsAreStable
<1>1. Init => TypeInv
  BY BoundAssumption DEF Init, TypeInv, TypeOK, TableOK, CountsBounded, EmptyTable
<1>2. TypeInv /\ [Next]_vars => TypeInv'
  BY TypeInvStep
<1>3. TypeInv /\ TypeInv' /\ [Next]_vars => FoundAgain
  <2> SUFFICES ASSUME TypeInv, TypeInv', [Next]_vars
               PROVE  FoundAgain
    OBVIOUS
  <2>1. TableOK(table) /\ TableOK(table') /\ Grew(table, table')
    BY StepGrows DEF TypeInv, TypeOK
  <2>2. \A name \in DOMAIN table.byName :
          LookupSymbolByName(table', name) = LookupSymbolByName(table, name)
    BY <2>1 DEF Grew, LookupSymbolByName
  <2>3. ASSUME NEW location \in DOMAIN table.byLocation, NEW type \in Type,
               LookupSymbolByLocationAndType(table, location, type) # NoSymbol
        PROVE  LookupSymbolByLocationAndType(table', location, type)
                 = LookupSymbolByLocationAndType(table, location, type)
    BY <2>1, <2>3, GrewFoundAgain
  <2>4. \A i \in Symbols : SameSymbol(table.symbols[i], table'.symbols[i])
    BY <2>1 DEF Grew, Symbols
  <2>5. QED
    BY <2>2, <2>3, <2>4 DEF FoundAgain
<1>4. QED
  BY <1>1, <1>2, <1>3, PTL DEF Spec, LookupsAreStable

-----------------------------------------------------------------------------
(***************************************************************************)
(* Symbols are found where they are, and subqueries keep indexes of their  *)
(* own: the two invariants that hold of every symbol.                      *)
(***************************************************************************)

SymbolsInv == FoundWhereItIs /\ SubqueryIndexUnique

\* What is recorded at a location stays recorded there.
LEMMA GrewRecorded ==
  ASSUME NEW t, NEW u, Grew(t, u), NEW l, NEW i, RecordedAt(t, l, i)
  PROVE  RecordedAt(u, l, i)
<1>1. PICK k \in DOMAIN ValuesAt(t.byLocation, l) : ValuesAt(t.byLocation, l)[k] = i
  BY DEF RecordedAt
<1>2. l \in DOMAIN t.byLocation
  BY <1>1 DEF ValuesAt
<1>3. /\ ValuesAt(t.byLocation, l) = t.byLocation[l]
      /\ ValuesAt(u.byLocation, l) = u.byLocation[l]
  BY <1>2 DEF Grew, ValuesAt
<1>4. k \in DOMAIN u.byLocation[l] /\ u.byLocation[l][k] = i
  BY <1>1, <1>2, <1>3 DEF Grew
<1>5. QED
  BY <1>3, <1>4 DEF RecordedAt

\* A symbol added at the end, without a parent query and recorded where it
\* is defined, breaks neither invariant.
LEMMA SymbolsInvDefine ==
  ASSUME TypeInv, SymbolsInv, Grew(table, table'),
         NEW t, TableOK(t), t.symbols = table.symbols,
         t.byLocation = table.byLocation,
         NEW name \in Name, NEW l \in Location, NEW type \in Type,
         table' = DefineSymbol(t, name, l, type)
  PROVE  SymbolsInv'
<1> DEFINE n == Len(table.symbols) + 1
<1>1. TableOK(table) /\ table.symbols \in Seq(SymbolInfo)
  BY DEF TypeInv, TypeOK, TableOK
<1>2. /\ table'.symbols = Append(table.symbols, NewSymbol(name, l, type))
      /\ table'.byLocation = InsertMulti(table.byLocation, l, n)
  BY DefineSymbolOK
<1>3. /\ Positions(table') = Positions(table) \union {n}
      /\ \A i \in Positions(table) : table'.symbols[i] = table.symbols[i]
      /\ table'.symbols[n] = NewSymbol(name, l, type)
      /\ n \in Nat
  BY <1>1, <1>2, AppendProperties DEF Positions
<1>4. /\ table'.symbols[n].sourceLocation = l
      /\ table'.symbols[n].permanentLocation = UnknownLocation
      /\ table'.symbols[n].parentQueryLocation = UnknownLocation
  BY <1>3 DEF NewSymbol
<1>5. RecordedAt(table', l, n)
  <2>1. \A k \in DOMAIN table.byLocation :
          k \in Location /\ table.byLocation[k] \in Seq(Positions(table'))
    BY <1>1, <1>3, SeqMonotonic DEF TableOK
  <2>2. \E k \in DOMAIN ValuesAt(InsertMulti(table.byLocation, l, n), l) :
          ValuesAt(InsertMulti(table.byLocation, l, n), l)[k] = n
    <3>1. n \in Positions(table')
      BY <1>3
    <3> HIDE DEF n
    <3>2. QED
      BY <2>1, <3>1, InsertMultiGrows
  <2>3. QED
    BY <1>2, <2>2 DEF RecordedAt
<1>6. FoundWhereItIs'
  <2>1. ASSUME NEW i \in Positions(table')
        PROVE  /\ RecordedAt(table', table'.symbols[i].sourceLocation, i)
               /\ table'.symbols[i].permanentLocation # UnknownLocation =>
                    RecordedAt(table', table'.symbols[i].permanentLocation, i)
    <3>1. CASE i = n
      BY <1>4, <1>5, <3>1
    <3>2. CASE i \in Positions(table)
      BY <1>3, <3>2, GrewRecorded DEF SymbolsInv, FoundWhereItIs, Symbols
    <3>3. QED
      BY <1>3, <3>1, <3>2
  <2>2. QED
    BY <2>1 DEF FoundWhereItIs, Symbols
<1>7. SubqueryIndexUnique'
  BY <1>3, <1>4 DEF SymbolsInv, SubqueryIndexUnique, Symbols
<1>8. QED
  BY <1>6, <1>7 DEF SymbolsInv

\* A step that leaves where symbols are, and where their parents are, breaks
\* neither invariant.
LEMMA SymbolsInvKept ==
  ASSUME SymbolsInv, Grew(table, table'), Positions(table') = Positions(table),
         \A i \in Positions(table) :
           /\ table'.symbols[i].permanentLocation = table.symbols[i].permanentLocation
           /\ table'.symbols[i].parentQueryLocation = table.symbols[i].parentQueryLocation
           /\ table'.symbols[i].parentQueryIndex = table.symbols[i].parentQueryIndex
  PROVE  SymbolsInv'
<1>1. \A i \in Positions(table) :
        table'.symbols[i].sourceLocation = table.symbols[i].sourceLocation
  BY DEF Grew, SameSymbol
<1>2. FoundWhereItIs'
  BY <1>1, GrewRecorded DEF SymbolsInv, FoundWhereItIs, Symbols
<1>3. SubqueryIndexUnique'
  BY DEF SymbolsInv, SubqueryIndexUnique, Symbols
<1>4. QED
  BY <1>2, <1>3 DEF SymbolsInv

LEMMA SymbolsInvStep == TypeInv /\ SymbolsInv /\ [Next]_vars => SymbolsInv'
<1> SUFFICES ASSUME TypeInv, SymbolsInv, [Next]_vars
             PROVE  SymbolsInv'
  OBVIOUS
<1>1. TableOK(table) /\ Grew(table, table')
  BY StepGrows DEF TypeInv, TypeOK
<1>2. DOMAIN table.symbols = Positions(table) /\ table.symbols \in Seq(SymbolInfo)
  BY <1>1 DEF TableOK, Positions
<1>3. ASSUME NEW base \in Base, GetUniqueName(base)
      PROVE  SymbolsInv'
  <2>1. table'.symbols = table.symbols
    BY <1>3, HandOutOK DEF GetUniqueName
  <2>2. QED
    BY <1>1, <2>1, SymbolsInvKept DEF Positions
<1>4. ASSUME NEW base \in Given, NEW l \in Location, NEW type \in Type,
             Define(base, l, type)
      PROVE  SymbolsInv'
  BY <1>1, <1>4, NameAssumption, SymbolsInvDefine DEF Define
<1>5. ASSUME NEW base \in Base, NEW l \in Location, NEW type \in Type,
             DefineUnique(base, l, type)
      PROVE  SymbolsInv'
  <2> DEFINE t == CountName(table, base)
  <2>1. HandOut(base) /\ table' = DefineSymbol(t, UniqueName(table, base), l, type)
    BY <1>5 DEF DefineUnique, DefineUniqueSymbol
  <2>2. /\ TableOK(t)
        /\ t.symbols = table.symbols
        /\ t.byLocation = table.byLocation
        /\ UniqueName(table, base) \in Name
    BY <2>1, HandOutOK
  <2>3. QED
    BY <1>1, <2>1, <2>2, SymbolsInvDefine
<1>6. ASSUME NEW i \in DOMAIN table.symbols, NEW l \in Location,
             GivePermanentLocation(i, l)
      PROVE  SymbolsInv'
  <2> DEFINE f == FindSymbolIndex(table, table.symbols[i])
  <2>1. /\ f \in Positions(table)
        /\ table'.symbols = [table.symbols EXCEPT ![f].permanentLocation = l]
        /\ table'.byLocation = InsertMulti(table.byLocation, l, f)
        /\ Positions(table') = Positions(table)
    BY <1>1, <1>2, <1>6, AddPermanentLocationOK DEF GivePermanentLocation
  <2> HIDE DEF f
  <2>2. /\ table'.symbols[f].permanentLocation = l
        /\ \A k \in Positions(table) \ {f} : table'.symbols[k] = table.symbols[k]
        /\ \A k \in Positions(table) :
             /\ table'.symbols[k].sourceLocation = table.symbols[k].sourceLocation
             /\ table'.symbols[k].parentQueryLocation
                  = table.symbols[k].parentQueryLocation
             /\ table'.symbols[k].parentQueryIndex = table.symbols[k].parentQueryIndex
    BY <1>2, <2>1 DEF SymbolInfo
  <2>3. RecordedAt(table', l, f)
    <3>1. \A k \in DOMAIN table.byLocation :
            k \in Location /\ table.byLocation[k] \in Seq(Positions(table))
      BY <1>1 DEF TableOK
    <3>2. \E k \in DOMAIN ValuesAt(InsertMulti(table.byLocation, l, f), l) :
            ValuesAt(InsertMulti(table.byLocation, l, f), l)[k] = f
      BY <2>1, <3>1, InsertMultiGrows
    <3>3. QED
      BY <2>1, <3>2 DEF RecordedAt
  <2>4. FoundWhereItIs'
    <3>1. ASSUME NEW k \in Positions(table)
          PROVE  /\ RecordedAt(table', table'.symbols[k].sourceLocation, k)
                 /\ table'.symbols[k].permanentLocation # UnknownLocation =>
                      RecordedAt(table', table'.symbols[k].permanentLocation, k)
      <4>1. RecordedAt(table', table'.symbols[k].sourceLocation, k)
        BY <1>1, <2>2, GrewRecorded DEF SymbolsInv, FoundWhereItIs, Symbols
      <4>2. CASE k = f
        BY <2>2, <2>3, <4>1, <4>2
      <4>3. CASE k # f
        BY <1>1, <2>2, <4>1, <4>3, GrewRecorded
           DEF SymbolsInv, FoundWhereItIs, Symbols
      <4>4. QED
        BY <4>2, <4>3
    <3>2. QED
      BY <2>1, <3>1 DEF FoundWhereItIs, Symbols
  <2>5. SubqueryIndexUnique'
    BY <2>1, <2>2 DEF SymbolsInv, SubqueryIndexUnique, Symbols
  <2>6. QED
    BY <2>4, <2>5 DEF SymbolsInv
<1>7. ASSUME NEW i \in DOMAIN table.symbols, NEW l \in Location,
             GiveParentQuery(i, l)
      PROVE  SymbolsInv'
  <2> DEFINE f == FindSymbolIndex(table, table.symbols[i])
  <2>1. /\ f \in Positions(table)
        /\ Positions(table') = Positions(table)
        /\ \A j \in Positions(table) \ {f} : table'.symbols[j] = table.symbols[j]
        /\ SameSymbol(table'.symbols[f], table.symbols[f])
        /\ table'.symbols[f].permanentLocation = table.symbols[f].permanentLocation
        /\ table'.symbols[f].parentQueryLocation = l
        /\ \A j \in Positions(table) \ {f} :
             table.symbols[j].parentQueryLocation = l =>
               table.symbols[j].parentQueryIndex < table'.symbols[f].parentQueryIndex
    BY <1>1, <1>2, <1>7, SetParentQueryLocationOK DEF GiveParentQuery
  <2> HIDE DEF f
  <2>2. FoundWhereItIs'
    BY <1>1, <2>1, GrewRecorded
       DEF SymbolsInv, FoundWhereItIs, Symbols, SameSymbol
  <2>3. \A j \in Positions(table) : table.symbols[j].parentQueryIndex \in Int
    <3>1. \A j \in Positions(table) : table.symbols[j] \in SymbolInfo
      BY <1>2
    <3>2. QED
      BY <3>1 DEF SymbolInfo
  <2>4. \A j \in Positions(table) \ {f} :
          table.symbols[j].parentQueryLocation = l =>
            table.symbols[j].parentQueryIndex # table'.symbols[f].parentQueryIndex
    BY <2>1, <2>3
  <2>5. SubqueryIndexUnique'
    BY <2>1, <2>4 DEF SymbolsInv, SubqueryIndexUnique, Symbols
  <2>6. QED
    BY <2>2, <2>5 DEF SymbolsInv
<1>8. ASSUME NEW i \in DOMAIN table.symbols, NEW alias \in Given,
             GiveAlias(i, alias)
      PROVE  SymbolsInv'
  <2> DEFINE f == FindSymbolIndex(table, table.symbols[i])
  <2>1. /\ f \in Positions(table)
        /\ table'.symbols = [table.symbols EXCEPT ![f].alias = alias]
        /\ Positions(table') = Positions(table)
    BY <1>1, <1>2, <1>8, NameAssumption, AddAliasOK DEF GiveAlias
  <2> HIDE DEF f
  <2>2. \A k \in Positions(table) :
          /\ table'.symbols[k].permanentLocation = table.symbols[k].permanentLocation
          /\ table'.symbols[k].parentQueryLocation = table.symbols[k].parentQueryLocation
          /\ table'.symbols[k].parentQueryIndex = table.symbols[k].parentQueryIndex
    BY <1>2, <2>1 DEF SymbolInfo
  <2>3. QED
    BY <1>1, <2>1, <2>2, SymbolsInvKept
<1>9. CASE UNCHANGED vars
  BY <1>1, <1>9, SymbolsInvKept DEF vars
<1>10. QED
  BY <1>3, <1>4, <1>5, <1>6, <1>7, <1>8, <1>9 DEF Next

LEMMA SymbolsCorrect == Spec => []SymbolsInv
<1>1. Init => TypeInv /\ SymbolsInv
  BY BoundAssumption
     DEF Init, TypeInv, TypeOK, TableOK, CountsBounded, EmptyTable, SymbolsInv,
         FoundWhereItIs, SubqueryIndexUnique, Symbols, Positions
<1>2. TypeInv /\ SymbolsInv /\ [Next]_vars => TypeInv' /\ SymbolsInv'
  BY TypeInvStep, SymbolsInvStep
<1>3. QED
  BY <1>1, <1>2, PTL DEF Spec

\* A symbol is found at its source location and at its permanent location.
THEOREM FoundWhereItIsAlways == Spec => []FoundWhereItIs
<1>1. SymbolsInv => FoundWhereItIs
  BY DEF SymbolsInv
<1>2. QED
  BY <1>1, SymbolsCorrect, PTL

\* However often a symbol's parent query is set, no two symbols ever have the
\* same index below the same parent.
THEOREM SubqueryIndexesUnique == Spec => []SubqueryIndexUnique
<1>1. SymbolsInv => SubqueryIndexUnique
  BY DEF SymbolsInv
<1>2. QED
  BY <1>1, SymbolsCorrect, PTL

-----------------------------------------------------------------------------
(***************************************************************************)
(* Unique names.  The counters keep two answers for one base apart, and    *)
(* two answers that were numbered alike; an answer for one base may still  *)
(* be that for another, which nothing in the code prevents.                *)
(***************************************************************************)

\* Every answer is the one its base and its count call for, and no two
\* answers have both in common.
NamesInv ==
  /\ \A i \in DOMAIN handedOut :
       LET h == handedOut[i] IN
       /\ h.base \in DOMAIN table.names
       /\ h.count \in 1..table.names[h.base]
       /\ h.name = IF h.count = 1 THEN h.base ELSE Numbered(h.base, h.count)
  /\ \A i, j \in DOMAIN handedOut :
       handedOut[i].base = handedOut[j].base
         /\ handedOut[i].count = handedOut[j].count => i = j
  /\ \A base \in DOMAIN table.names : table.names[base] \in Nat \ {0}

LEMMA NamesInvHandOut ==
  ASSUME TypeInv, NamesInv, NEW base \in Base, HandOut(base),
         table'.names = CountName(table, base).names
  PROVE  NamesInv'
<1> DEFINE n == IF base \in DOMAIN table.names THEN table.names[base] + 1 ELSE 1
           new == [base |-> base, count |-> n, name |-> UniqueName(table, base)]
           last == Len(handedOut) + 1
<1>1. /\ handedOut \in Seq([base : Base, count : Nat, name : Name])
      /\ \A b \in DOMAIN table.names : table.names[b] \in Nat \ {0}
  BY DEF TypeInv, TypeOK, NamesInv
<1>2. /\ DOMAIN table'.names = DOMAIN table.names \union {base}
      /\ table'.names[base] = n
      /\ \A b \in DOMAIN table.names : b # base => table'.names[b] = table.names[b]
      /\ CountName(table, base).names[base] = n
  BY DEF CountName, Put, TypeInv, TypeOK, TableOK, EmptyTable
<1>3. n \in Nat \ {0}
  BY <1>1
<1>4. handedOut' = Append(handedOut, new)
  BY <1>2 DEF HandOut
<1>5. /\ DOMAIN handedOut' = DOMAIN handedOut \union {last}
      /\ \A i \in DOMAIN handedOut : handedOut'[i] = handedOut[i]
      /\ handedOut'[last] = new
  BY <1>1, <1>4, AppendProperties
<1>6. new.name = IF n = 1 THEN base ELSE Numbered(base, n)
  BY <1>1 DEF UniqueName
<1>7. \A i \in DOMAIN handedOut :
        /\ handedOut[i].base = base => handedOut[i].count < n
        /\ handedOut[i].count \in Nat
  BY <1>1 DEF NamesInv
<1> HIDE DEF n, last
<1>8. \A i \in DOMAIN handedOut' :
        /\ handedOut'[i].base \in DOMAIN table'.names
        /\ handedOut'[i].count \in 1..table'.names[handedOut'[i].base]
        /\ handedOut'[i].name =
             IF handedOut'[i].count = 1 THEN handedOut'[i].base
             ELSE Numbered(handedOut'[i].base, handedOut'[i].count)
  <2>1. ASSUME NEW i \in DOMAIN handedOut
        PROVE  /\ handedOut[i].base \in DOMAIN table'.names
               /\ handedOut[i].count \in 1..table'.names[handedOut[i].base]
               /\ handedOut[i].name =
                    IF handedOut[i].count = 1 THEN handedOut[i].base
                    ELSE Numbered(handedOut[i].base, handedOut[i].count)
    <3>1. /\ handedOut[i].base \in DOMAIN table.names
          /\ handedOut[i].count \in 1..table.names[handedOut[i].base]
          /\ handedOut[i].name =
               IF handedOut[i].count = 1 THEN handedOut[i].base
               ELSE Numbered(handedOut[i].base, handedOut[i].count)
      BY DEF NamesInv
    <3>2. CASE handedOut[i].base = base
      BY <1>2, <1>3, <1>7, <3>1, <3>2
    <3>3. CASE handedOut[i].base # base
      BY <1>2, <3>1, <3>3
    <3>4. QED
      BY <3>2, <3>3
  <2>2. /\ new.base \in DOMAIN table'.names
        /\ new.count \in 1..table'.names[new.base]
        /\ new.name = IF new.count = 1 THEN new.base ELSE Numbered(new.base, new.count)
    BY <1>2, <1>3, <1>6
  <2>3. QED
    BY <1>5, <2>1, <2>2
<1>9. \A i, j \in DOMAIN handedOut' :
        handedOut'[i].base = handedOut'[j].base
          /\ handedOut'[i].count = handedOut'[j].count => i = j
  <2>1. \A i \in DOMAIN handedOut :
          ~(handedOut[i].base = new.base /\ handedOut[i].count = new.count)
    BY <1>3, <1>7
  <2> HIDE DEF new
  <2>2. QED
    BY <1>5, <2>1 DEF NamesInv
<1>10. \A b \in DOMAIN table'.names : table'.names[b] \in Nat \ {0}
  BY <1>1, <1>2, <1>3
<1>11. QED
  BY <1>8, <1>9, <1>10 DEF NamesInv

LEMMA NamesInvStep == TypeInv /\ NamesInv /\ [Next]_vars => NamesInv'
<1> SUFFICES ASSUME TypeInv, NamesInv, [Next]_vars
             PROVE  NamesInv'
  OBVIOUS
<1>1. TableOK(table) /\ DOMAIN table.symbols = Positions(table)
  BY DEF TypeInv, TypeOK, TableOK, Positions
<1>2. ASSUME handedOut' = handedOut, table'.names = table.names
      PROVE  NamesInv'
  BY <1>2 DEF NamesInv
<1>3. ASSUME NEW base \in Base, GetUniqueName(base)
      PROVE  NamesInv'
  BY <1>3, NamesInvHandOut DEF GetUniqueName
<1>4. ASSUME NEW base \in Given, NEW l \in Location, NEW type \in Type,
             Define(base, l, type)
      PROVE  NamesInv'
  BY <1>1, <1>2, <1>4, NameAssumption, DefineSymbolOK DEF Define
<1>5. ASSUME NEW base \in Base, NEW l \in Location, NEW type \in Type,
             DefineUnique(base, l, type)
      PROVE  NamesInv'
  <2> DEFINE t == CountName(table, base)
  <2>1. HandOut(base) /\ table' = DefineSymbol(t, UniqueName(table, base), l, type)
    BY <1>5 DEF DefineUnique, DefineUniqueSymbol
  <2>2. TableOK(t) /\ UniqueName(table, base) \in Name
    BY <2>1, HandOutOK
  <2>3. table'.names = t.names
    BY <2>1, <2>2, DefineSymbolOK
  <2>4. QED
    BY <2>1, <2>3, NamesInvHandOut
<1>6. ASSUME NEW i \in DOMAIN table.symbols, NEW l \in Location,
             GivePermanentLocation(i, l)
      PROVE  NamesInv'
  <2> DEFINE u == AddPermanentLocation(table, table.symbols[i], l)
  <2>1. table' = u
    BY <1>6 DEF GivePermanentLocation
  <2>2. i \in Positions(table) /\ TableOK(table)
    BY <1>1
  <2>3. u.names = table.names
    BY ONLY <2>2, l \in Location, AddPermanentLocationOK
  <2>4. table'.names = table.names
    BY <2>1, <2>3
  <2>5. QED
    BY <1>2, <1>6, <2>4 DEF GivePermanentLocation
<1>7. ASSUME NEW i \in DOMAIN table.symbols, NEW l \in Location,
             GiveParentQuery(i, l)
      PROVE  NamesInv'
  BY <1>1, <1>2, <1>7, SetParentQueryLocationOK DEF GiveParentQuery
<1>8. ASSUME NEW i \in DOMAIN table.symbols, NEW alias \in Given,
             GiveAlias(i, alias)
      PROVE  NamesInv'
  BY <1>1, <1>2, <1>8, NameAssumption, AddAliasOK DEF GiveAlias
<1>9. CASE UNCHANGED vars
  BY <1>2, <1>9 DEF vars
<1>10. QED
  BY <1>3, <1>4, <1>5, <1>6, <1>7, <1>8, <1>9 DEF Next

LEMMA NamesApart == TypeInv /\ NamesInv => AnswersApart
<1> SUFFICES ASSUME TypeInv, NamesInv
             PROVE  AnswersApart
  OBVIOUS
<1>1. \A k \in DOMAIN handedOut :
        /\ handedOut[k].base \in Base
        /\ handedOut[k].count \in 1..MaxHandedOut
        /\ handedOut[k].name = IF handedOut[k].count = 1 THEN handedOut[k].base
                               ELSE Numbered(handedOut[k].base, handedOut[k].count)
  <2> DEFINE Answer == [base : Base, count : Nat, name : Name]
  <2>1. handedOut \in Seq(Answer)
    BY DEF TypeInv, TypeOK
  <2>2. \A k \in DOMAIN handedOut : handedOut[k] \in Answer
    <3> HIDE DEF Answer
    <3>1. QED
      BY <2>1
  <2>3. Len(handedOut) \in Nat
    BY <2>1
  <2>4. \A k \in DOMAIN handedOut : handedOut[k].count \in 1..MaxHandedOut
    <3>1. \A base \in DOMAIN table.names :
            table.names[base] \in 1..Len(handedOut) /\ Len(handedOut) <= MaxHandedOut
      BY DEF TypeInv, CountsBounded
    <3>2. \A k \in DOMAIN handedOut :
            /\ handedOut[k].base \in DOMAIN table.names
            /\ handedOut[k].count \in 1..table.names[handedOut[k].base]
      BY DEF NamesInv
    <3>3. QED
      BY <2>3, <3>1, <3>2, BoundAssumption
  <2>5. QED
    BY <2>2, <2>4 DEF NamesInv
<1>2. ASSUME NEW i \in DOMAIN handedOut, NEW j \in DOMAIN handedOut,
             handedOut[i].name = handedOut[j].name, i # j
      PROVE  /\ handedOut[i].base # handedOut[j].base
             /\ handedOut[i].count # handedOut[j].count
  <2> DEFINE h == handedOut[i]
             g == handedOut[j]
  <2>1. /\ h.base \in Base /\ g.base \in Base
        /\ h.count \in 1..MaxHandedOut /\ g.count \in 1..MaxHandedOut
    BY <1>1
  <2>2. h.name = IF h.count = 1 THEN h.base ELSE Numbered(h.base, h.count)
    BY <1>1
  <2>3. g.name = IF g.count = 1 THEN g.base ELSE Numbered(g.base, g.count)
    BY <1>1
  <2>4. h.name = g.name
    BY <1>2
  <2>5. ~(h.base = g.base /\ h.count = g.count)
    BY <1>2 DEF NamesInv
  <2> HIDE DEF h, g
  <2>6. h.base = g.base => h.count = g.count
    BY <2>1, <2>2, <2>3, <2>4, NumberedAssumption
  <2>7. h.count = g.count => h.base = g.base
    BY <2>1, <2>2, <2>3, <2>4, NumberedAssumption
  <2>8. h.base # g.base /\ h.count # g.count
    BY <2>5, <2>6, <2>7
  <2>9. QED
    BY <2>8 DEF h, g
<1>3. QED
  BY <1>2 DEF AnswersApart

\* However the calls are mixed, getUniqueName repeats no answer to one base,
\* and two bases get the same answer only by being asked for unequally often,
\* as atan and atan2 do.
THEOREM AnswersAreApart == Spec => []AnswersApart
<1>1. Init => TypeInv /\ NamesInv
  BY BoundAssumption
     DEF Init, TypeInv, TypeOK, TableOK, CountsBounded, EmptyTable, NamesInv
<1>2. TypeInv /\ NamesInv /\ [Next]_vars => TypeInv' /\ NamesInv'
  BY TypeInvStep, NamesInvStep
<1>3. TypeInv /\ NamesInv => AnswersApart
  BY NamesApart
<1>4. QED
  BY <1>1, <1>2, <1>3, PTL DEF Spec
=============================================================================
