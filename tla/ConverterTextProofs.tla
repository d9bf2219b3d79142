-------------------------- MODULE ConverterTextProofs --------------------------
(***************************************************************************)
(* The text of every plan: its lines are the links of the plan, each once, *)
(* a relation is printed after those to its left, and a subquery with the  *)
(* name of the relation below it.                                          *)
(***************************************************************************)
EXTENDS BinaryToTextProofs, FiniteSetTheorems

-----------------------------------------------------------------------------
(***************************************************************************)
(* Names.  getUniqueName keeps "atan", asked for twice, and "atan2" apart  *)
(* only if no name asked for looks like a numbered one: those the          *)
(* converter asks for are kinds of relations and of roots.                 *)
(***************************************************************************)
NameBases(p) ==
  {"root.names"} \union {p.node[n].kind : n \in DOMAIN p.node}
                 \union {p.roots[r].kind : r \in DOMAIN p.roots}

NumberedKindsAreFresh ==
  \A p \in Plans : \A b, c \in NameBases(p) : \A m, n \in Nat :
    /\ Numbered(b, m) = Numbered(c, n) => b = c /\ m = n
    /\ Numbered(b, m) # c

\* The k-th answer for a name.
NameAs(base, k) == IF k = 1 THEN base ELSE Numbered(base, k)

NamesOK(p, t) ==
  /\ \A b \in DOMAIN t.names : b \in NameBases(p) /\ t.names[b] \in Nat \ {0}
  /\ \A s \in DOMAIN t.symbols : \E b \in DOMAIN t.names : \E k \in 1..t.names[b] :
       t.symbols[s].name = NameAs(b, k)
  /\ \A s, q \in DOMAIN t.symbols : t.symbols[s].name = t.symbols[q].name => s = q

-----------------------------------------------------------------------------
(***************************************************************************)
(* The order of the symbols, and the symbols of the roots.                 *)
(***************************************************************************)
IsLeft(t, n) == ValuesAt(t.byLocation, Original(n)) # << >>

RootSymbol(t, r) == Head(LookupSymbolsByLocation(t, PlanRelLocation(r)))

\* A PlanRel has one symbol, after that of its input.
RootOK(p, t, r) ==
  /\ RootSymbol(t, r) \in DOMAIN t.symbols
  /\ ValuesAt(t.byLocation, PlanRelLocation(r)) = <<RootSymbol(t, r)>>
  /\ t.symbols[RootSymbol(t, r)].type = "planRelation"
  /\ t.symbols[RootSymbol(t, r)].sourceLocation = PlanRelLocation(r)
  /\ IsLeft(t, p.roots[r].input) /\ SymbolOf(t, p.roots[r].input) < RootSymbol(t, r)

\* Relations are in the order of the visit, each recorded at its copy as well;
\* the first k roots have been left.
PlacesOK(p, t, k) ==
  /\ \A n \in Relations(p) :
       ValuesAt(t.byLocation, Copy(n)) = ValuesAt(t.byLocation, Original(n))
  /\ \A n, m \in Relations(p) : n < m /\ IsLeft(t, m) => SymbolOf(t, n) < SymbolOf(t, m)
  /\ \A r \in DOMAIN p.roots :
       IF r <= k THEN RootOK(p, t, r)
       ELSE ValuesAt(t.byLocation, PlanRelLocation(r)) = << >>
  /\ \A s \in DOMAIN t.symbols :
       t.symbols[s].type = "planRelation" => \E r \in DOMAIN p.roots : r <= k /\ s = RootSymbol(t, r)

RootsLeft(v) == IF Len(v) = 1 THEN v[1].visited ELSE v[1].visited - 1

-----------------------------------------------------------------------------
(***************************************************************************)
(* The links: those of the relations E and of the roots Q.                 *)
(***************************************************************************)
InputsOf(p, t, n) == [i \in DOMAIN p.node[n].inputs |-> SymbolOf(t, p.node[n].inputs[i])]

LinksOK(p, t, links, E, Q) ==
  /\ \A n \in Relations(p) :
       LET link  == links[SymbolOf(t, n)]
           unary == p.node[n].kind \in UnaryKinds
       IN /\ link.continuingPipeline = IF n \in E /\ unary THEN InputsOf(p, t, n)[1] ELSE NoSymbol
          /\ link.newPipelines = IF n \in E /\ ~unary THEN InputsOf(p, t, n) ELSE << >>
          /\ link.relation = n
  /\ \A r \in DOMAIN p.roots :
       links[RootSymbol(t, r)].newPipelines =
         IF r \in Q THEN <<SymbolOf(t, p.roots[r].input)>> ELSE << >>
  /\ \A s \in DOMAIN links :
       t.symbols[s].type # "relation" => /\ links[s].continuingPipeline = NoSymbol
                                         /\ links[s].subQueryPipelines = << >>

\* The relations the second pass has come to: those left and those being
\* visited.
BeingVisited(v, n) == \E i \in DOMAIN v : v[i].what = "relation" /\ v[i].node = n

Reached(p, v, d) == {n \in Relations(p) : n <= d \/ BeingVisited(v, n)}

\* Before the second pass there are no links.
Unlinked(p, t, links) ==
  /\ \A s \in DOMAIN links :
       links[s].continuingPipeline = NoSymbol /\ links[s].newPipelines = << >>
  /\ \A n \in Relations(p) : IsLeft(t, n) => links[SymbolOf(t, n)].relation = n

TablesInv ==
  /\ NamesOK(plan, table)
  /\ CASE pass = "initial"   -> /\ PlacesOK(plan, table, RootsLeft(visits))
                                /\ Unlinked(plan, table, data)
       [] pass = "pipelines" -> /\ PlacesOK(plan, table, Len(plan.roots))
                                /\ \E d \in 0..LastVisited(plan) :
                                     /\ CallsOK(plan, visits, scope, d)
                                     /\ LinksOK(plan, table, data, Reached(plan, visits, d),
                                                1..visits[1].visited)
       [] OTHER              -> /\ PlacesOK(plan, table, Len(plan.roots))
                                /\ LinksOK(plan, table, data, Relations(plan), DOMAIN plan.roots)

-----------------------------------------------------------------------------
(***************************************************************************)
(* Unique names.                                                           *)
(***************************************************************************)

\* A name asked for once more than before is like no other.
LEMMA NamesDefined ==
  ASSUME NumberedKindsAreFresh, NEW p \in Plans, NEW t, NamesOK(p, t),
         DOMAIN t = DOMAIN EmptyTable, IsSequence(t.symbols),
         NEW base \in NameBases(p), NEW l, NEW type
  PROVE  NamesOK(p, DefineUniqueSymbol(t, base, l, type))
<1> DEFINE u == DefineUniqueSymbol(t, base, l, type)
           new == Len(t.symbols) + 1
           count == IF base \in DOMAIN t.names THEN t.names[base] + 1 ELSE 1
<1>1. /\ Len(t.symbols) \in Nat /\ new \notin DOMAIN t.symbols
      /\ DOMAIN u.symbols = DOMAIN t.symbols \union {new}
      /\ \A i \in DOMAIN t.symbols : u.symbols[i] = t.symbols[i]
      /\ u.symbols[new] = NewSymbol(UniqueName(t, base), l, type)
  BY DefinedShape
<1>2. u.names = Put(t.names, base, count)
  BY DEF DefineUniqueSymbol, DefineSymbol, CountName, EmptyTable
<1>3. /\ DOMAIN u.names = DOMAIN t.names \union {base}
      /\ u.names[base] = count
      /\ \A b \in DOMAIN t.names : b # base => u.names[b] = t.names[b]
  BY <1>2 DEF Put
<1>4. /\ \A b \in DOMAIN t.names : b \in NameBases(p) /\ t.names[b] \in Nat \ {0}
      /\ \A s \in DOMAIN t.symbols : \E b \in DOMAIN t.names : \E k \in 1..t.names[b] :
           t.symbols[s].name = NameAs(b, k)
      /\ \A s, q \in DOMAIN t.symbols : t.symbols[s].name = t.symbols[q].name => s = q
  BY DEF NamesOK
<1>5. count \in Nat \ {0} /\ (base \in DOMAIN t.names => count # 1 /\ t.names[base] = count - 1)
  BY <1>4
<1>6. u.symbols[new].name = NameAs(base, count)
  BY <1>1, <1>5 DEF UniqueName, NewSymbol, NameAs
<1> HIDE DEF u, new, count
<1>7. \A b, c \in NameBases(p) : \A m, k \in Nat \ {0} : NameAs(b, m) = NameAs(c, k) => b = c /\ m = k
  BY DEF NumberedKindsAreFresh, NameAs
<1>8. \A s \in DOMAIN t.symbols : t.symbols[s].name # u.symbols[new].name
  <2>1. ASSUME NEW s \in DOMAIN t.symbols, t.symbols[s].name = u.symbols[new].name
        PROVE  FALSE
    <3>0. PICK b \in DOMAIN t.names : \E k \in 1..t.names[b] : t.symbols[s].name = NameAs(b, k)
      BY <1>4
    <3>1. PICK k \in 1..t.names[b] : t.symbols[s].name = NameAs(b, k)
      BY <3>0
    <3>2. b \in NameBases(p) /\ k \in Nat \ {0} /\ t.names[b] \in Nat
      BY <1>4
    <3>3. b = base /\ k = count
      BY <1>5, <1>6, <1>7, <2>1, <3>1, <3>2
    <3>4. QED
      BY <1>5, <3>2, <3>3
  <2>2. QED
    BY <2>1
<1>9. \A b \in DOMAIN u.names : b \in NameBases(p) /\ u.names[b] \in Nat \ {0}
  BY <1>3, <1>4, <1>5
<1>10. ASSUME NEW s \in DOMAIN u.symbols
       PROVE  \E b \in DOMAIN u.names : \E k \in 1..u.names[b] : u.symbols[s].name = NameAs(b, k)
  <2>1. CASE s = new
    <3>1. base \in DOMAIN u.names /\ count \in 1..u.names[base]
      BY <1>3, <1>5
    <3>2. QED
      BY <1>6, <2>1, <3>1
  <2>2. CASE s # new
    <3>1. s \in DOMAIN t.symbols /\ u.symbols[s] = t.symbols[s]
      BY <1>1, <2>2
    <3>4. PICK b \in DOMAIN t.names : \E k \in 1..t.names[b] : t.symbols[s].name = NameAs(b, k)
      BY <1>4, <3>1
    <3>2. PICK k \in 1..t.names[b] : t.symbols[s].name = NameAs(b, k)
      BY <3>4
    <3>3. b \in DOMAIN u.names /\ k \in 1..u.names[b]
      BY <1>3, <1>4, <1>5
    <3>5. QED
      BY <3>1, <3>2, <3>3
  <2>3. QED
    BY <2>1, <2>2
<1>11. \A s, q \in DOMAIN u.symbols : u.symbols[s].name = u.symbols[q].name => s = q
  BY <1>1, <1>4, <1>8
<1>12. QED
  BY <1>9, <1>10, <1>11 DEF NamesOK, u

LEMMA NamesStay ==
  ASSUME NEW p, NEW t, NEW u, NamesOK(p, t), u.names = t.names,
         DOMAIN u.symbols = DOMAIN t.symbols,
         \A i \in DOMAIN t.symbols : u.symbols[i].name = t.symbols[i].name
  PROVE  NamesOK(p, u)
BY DEF NamesOK

\* operator== finds the very symbol.
LEMMA NameFinds ==
  ASSUME NEW p, NEW t, NamesOK(p, t), IsSequence(t.symbols), NEW i \in DOMAIN t.symbols
  PROVE  FindSymbolIndex(t, t.symbols[i]) = i
<1> DEFINE M == {k \in DOMAIN t.symbols : SameSymbol(t.symbols[k], t.symbols[i])}
<1>1. M \in SUBSET Nat /\ i \in M
  BY SequenceHas DEF SameSymbol
<1>2. \A k \in M : k = i
  BY DEF SameSymbol, NamesOK
<1>3. First(M) = i
  <2>1. \A k \in M : i <= k
    BY <1>1, <1>2
  <2>2. QED
    BY <1>1, <2>1, FirstIs
<1>4. QED
  BY <1>3 DEF FindSymbolIndex

\* u is t with another index by location: names stay, and symbols keep what
\* operator== compares.
ChangedAt(t, u, map) ==
  /\ u.names = t.names /\ DOMAIN u.symbols = DOMAIN t.symbols
  /\ Keeps(t, u) /\ u.byLocation = map

LEMMA PermanentShape ==
  ASSUME NEW t, DOMAIN t = DOMAIN EmptyTable, IsSequence(t.symbols),
         \A s \in DOMAIN t.symbols : DOMAIN t.symbols[s] = DOMAIN NewSymbol("", "", ""),
         NEW i \in DOMAIN t.symbols, FindSymbolIndex(t, t.symbols[i]) = i, NEW l
  PROVE  ChangedAt(t, AddPermanentLocation(t, t.symbols[i], l), InsertMulti(t.byLocation, l, i))
<1> DEFINE u == AddPermanentLocation(t, t.symbols[i], l)
           s == [t.symbols[i] EXCEPT !.permanentLocation = l]
<1>1. /\ u.names = t.names
      /\ u.symbols = [t.symbols EXCEPT ![i].permanentLocation = l]
      /\ u.byLocation = InsertMulti(t.byLocation, l, i)
  BY DEF AddPermanentLocation, EmptyTable
<1>2. u.symbols = [t.symbols EXCEPT ![i] = s]
  BY <1>1
<1>3. SameSymbol(s, t.symbols[i])
  BY DEF SameSymbol, NewSymbol
<1> HIDE DEF u, s
<1>4. /\ DOMAIN u.symbols = DOMAIN t.symbols
      /\ \A j \in DOMAIN t.symbols : u.symbols[j] = IF j = i THEN s ELSE t.symbols[j]
  BY <1>2
<1>5. Keeps(t, u)
  BY <1>3, <1>4 DEF Keeps, SameSymbol
<1>6. QED
  BY <1>1, <1>4, <1>5 DEF u, ChangedAt

LEMMA ParentShape ==
  ASSUME NEW t, DOMAIN t = DOMAIN EmptyTable, IsSequence(t.symbols),
         \A s \in DOMAIN t.symbols : DOMAIN t.symbols[s] = DOMAIN NewSymbol("", "", ""),
         NEW i \in DOMAIN t.symbols, FindSymbolIndex(t, t.symbols[i]) = i, NEW l
  PROVE  LET u == SetParentQueryLocation(t, t.symbols[i], l)
         IN /\ u.names = t.names
            /\ DOMAIN u.symbols = DOMAIN t.symbols
            /\ Keeps(t, u)
            /\ u.byLocation = t.byLocation
<1> DEFINE u == SetParentQueryLocation(t, t.symbols[i], l)
           moved == [t.symbols EXCEPT ![i].parentQueryLocation = l]
           next == HighestIndex(TakenIndexes(moved, l)) + 1
           s == [[t.symbols[i] EXCEPT !.parentQueryLocation = l]
                   EXCEPT !.parentQueryIndex = next]
<1>1. /\ u.names = t.names
      /\ u.symbols = [moved EXCEPT ![i].parentQueryIndex = next]
      /\ u.byLocation = t.byLocation
  BY DEF SetParentQueryLocation, EmptyTable
<1> HIDE DEF next
<1>2. u.symbols = [t.symbols EXCEPT ![i] = s]
  BY <1>1
<1>3. SameSymbol(s, t.symbols[i])
  BY DEF SameSymbol, NewSymbol
<1> HIDE DEF u, s
<1>4. /\ DOMAIN u.symbols = DOMAIN t.symbols
      /\ \A j \in DOMAIN t.symbols : u.symbols[j] = IF j = i THEN s ELSE t.symbols[j]
  BY <1>2
<1>5. Keeps(t, u)
  BY <1>3, <1>4 DEF Keeps, SameSymbol
<1>6. QED
  BY <1>1, <1>4, <1>5 DEF u

-----------------------------------------------------------------------------
(***************************************************************************)
(* Where the symbols are.                                                  *)
(***************************************************************************)
LEMMA LocationsApart ==
  /\ \A n, m : /\ Original(n) # Copy(m) /\ Original(n) # PlanRelLocation(m)
               /\ Original(n) # RelRootLocation(m) /\ Copy(n) # PlanRelLocation(m)
               /\ Copy(n) # RelRootLocation(m) /\ PlanRelLocation(n) # RelRootLocation(m)
  /\ \A n, m : Original(n) = Original(m) \/ Copy(n) = Copy(m)
                 \/ PlanRelLocation(n) = PlanRelLocation(m) => n = m
BY DEF Original, Copy, PlanRelLocation, RelRootLocation

LEMMA InsertedThere ==
  ASSUME NEW map, NEW l, NEW i, ValuesAt(map, l) = << >>
  PROVE  ValuesAt(InsertMulti(map, l, i), l) = <<i>>
<1>1. ValuesAt(InsertMulti(map, l, i), l) = Append(ValuesAt(map, l), i)
  BY DEF InsertMulti, Put, ValuesAt
<1>2. Append(<< >>, i) = <<i>>
  OBVIOUS
<1>3. QED
  BY <1>1, <1>2, Zenon

LEMMA LeftHaveSymbols ==
  ASSUME NEW p, IsPlan(p), NEW t, NEW d \in Nat, SymbolsOK(p, t, d), NEW n \in Relations(p)
  PROVE  /\ n \in Nat
         /\ IsLeft(t, n) <=> n <= d
         /\ n <= d => /\ SymbolOf(t, n) \in DOMAIN t.symbols
                      /\ ValuesAt(t.byLocation, Original(n)) = <<SymbolOf(t, n)>>
                      /\ t.symbols[SymbolOf(t, n)].type = "relation"
         /\ ~(n <= d) => /\ ValuesAt(t.byLocation, Original(n)) = << >>
                         /\ SymbolOf(t, n) = NoSymbol
<1>1. n \in Nat
  BY RootsShape DEF Relations
<1>2. n <= d => /\ SymbolOf(t, n) \in DOMAIN t.symbols
                /\ ValuesAt(t.byLocation, Original(n)) = <<SymbolOf(t, n)>>
                /\ t.symbols[SymbolOf(t, n)].type = "relation"
  BY DEF SymbolsOK
<1>3. ~(n <= d) => ValuesAt(t.byLocation, Original(n)) = << >>
  BY DEF SymbolsOK
<1>4. ~(n <= d) => SymbolOf(t, n) = NoSymbol
  BY <1>3 DEF SymbolOf, LookupSymbolByLocationAndType, LookupSymbolByLocationAndTypes
<1>5. <<SymbolOf(t, n)>> # << >>
  OBVIOUS
<1>6. QED
  BY <1>1, <1>2, <1>3, <1>4, <1>5 DEF IsLeft

LEMMA SymbolOfStays ==
  ASSUME NEW p, IsPlan(p), NEW t, NEW d \in Nat, SymbolsOK(p, t, d), NEW u, Keeps(t, u),
         NEW n \in Relations(p),
         ValuesAt(u.byLocation, Original(n)) = ValuesAt(t.byLocation, Original(n))
  PROVE  SymbolOf(u, n) = SymbolOf(t, n) /\ (IsLeft(u, n) <=> IsLeft(t, n))
<1>1. CASE n <= d
  <2>1. /\ SymbolOf(t, n) \in DOMAIN t.symbols
        /\ ValuesAt(t.byLocation, Original(n)) = <<SymbolOf(t, n)>>
        /\ t.symbols[SymbolOf(t, n)].type = "relation"
    BY <1>1, LeftHaveSymbols
  <2>2. u.symbols[SymbolOf(t, n)].type = "relation"
    BY <2>1 DEF Keeps, SameSymbol
  <2>3. SymbolOf(u, n) = SymbolOf(t, n)
    BY <2>1, <2>2, SymbolsStay
  <2>4. QED
    BY <2>3 DEF IsLeft
<1>2. CASE ~(n <= d)
  <2>1. ValuesAt(u.byLocation, Original(n)) = << >> /\ SymbolOf(t, n) = NoSymbol
    BY <1>2, LeftHaveSymbols
  <2>2. SymbolOf(u, n) = NoSymbol
    BY <2>1 DEF SymbolOf, LookupSymbolByLocationAndType, LookupSymbolByLocationAndTypes
  <2>3. QED
    BY <2>1, <2>2 DEF IsLeft
<1>3. QED
  BY <1>1, <1>2

LEMMA RootStays ==
  ASSUME NEW p, IsPlan(p), NEW t, NEW d \in Nat, SymbolsOK(p, t, d), NEW u, Keeps(t, u),
         NEW r \in DOMAIN p.roots, RootOK(p, t, r),
         ValuesAt(u.byLocation, PlanRelLocation(r)) = ValuesAt(t.byLocation, PlanRelLocation(r)),
         SymbolOf(u, p.roots[r].input) = SymbolOf(t, p.roots[r].input),
         IsLeft(u, p.roots[r].input)
  PROVE  RootOK(p, u, r) /\ RootSymbol(u, r) = RootSymbol(t, r)
<1>1. RootSymbol(u, r) = RootSymbol(t, r)
  BY DEF RootSymbol, LookupSymbolsByLocation
<1>2. QED
  BY <1>1 DEF RootOK, Keeps, SameSymbol

\* A symbol that is no PlanRel's, recorded at no place of a relation or a
\* PlanRel, disturbs nothing.
LEMMA PlacesStay ==
  ASSUME NEW p, IsPlan(p), NEW t, NEW d \in Nat, SymbolsOK(p, t, d), NEW u, Keeps(t, u),
         NEW k, PlacesOK(p, t, k),
         \A n \in Relations(p) :
           /\ ValuesAt(u.byLocation, Original(n)) = ValuesAt(t.byLocation, Original(n))
           /\ ValuesAt(u.byLocation, Copy(n)) = ValuesAt(t.byLocation, Copy(n)),
         \A r \in DOMAIN p.roots :
           ValuesAt(u.byLocation, PlanRelLocation(r)) = ValuesAt(t.byLocation, PlanRelLocation(r)),
         \A s \in DOMAIN u.symbols \ DOMAIN t.symbols : u.symbols[s].type # "planRelation"
  PROVE  PlacesOK(p, u, k)
<1>1. \A n \in Relations(p) : SymbolOf(u, n) = SymbolOf(t, n) /\ (IsLeft(u, n) <=> IsLeft(t, n))
  BY SymbolOfStays
<1>2. \A r \in DOMAIN p.roots : p.roots[r].input \in Relations(p)
  BY RootsShape
<1>3. ASSUME NEW r \in DOMAIN p.roots
      PROVE  IF r <= k THEN RootOK(p, u, r) /\ RootSymbol(u, r) = RootSymbol(t, r)
             ELSE ValuesAt(u.byLocation, PlanRelLocation(r)) = << >>
  <2>1. CASE r <= k
    <3>1. RootOK(p, t, r)
      BY <2>1 DEF PlacesOK
    <3>2. IsLeft(u, p.roots[r].input) /\ SymbolOf(u, p.roots[r].input) = SymbolOf(t, p.roots[r].input)
      BY <1>1, <1>2, <3>1 DEF RootOK
    <3>3. QED
      BY <2>1, <3>1, <3>2, RootStays
  <2>2. CASE ~(r <= k)
    BY <2>2 DEF PlacesOK
  <2>3. QED
    BY <2>1, <2>2
<1>4. ASSUME NEW s \in DOMAIN u.symbols, u.symbols[s].type = "planRelation"
      PROVE  \E r \in DOMAIN p.roots : r <= k /\ s = RootSymbol(u, r)
  <2>1. s \in DOMAIN t.symbols
    BY <1>4
  <2>2. t.symbols[s].type = "planRelation"
    BY <1>4, <2>1 DEF Keeps, SameSymbol
  <2>3. PICK r \in DOMAIN p.roots : r <= k /\ s = RootSymbol(t, r)
    BY <2>1, <2>2 DEF PlacesOK
  <2>4. QED
    BY <1>3, <2>3
<1>5. QED
  BY <1>1, <1>3, <1>4 DEF PlacesOK

\* The symbol of a relation comes after all before it.
LEMMA RelationPlaced ==
  ASSUME NEW p, IsPlan(p), NEW t, NEW d \in Nat, SymbolsOK(p, t, d), d + 1 \in Relations(p),
         NEW k, PlacesOK(p, t, k), NEW u, Keeps(t, u),
         NEW new, new = Len(t.symbols) + 1, DOMAIN u.symbols = DOMAIN t.symbols \union {new},
         u.symbols[new].type = "relation",
         u.byLocation =
           InsertMulti(InsertMulti(t.byLocation, Original(d + 1), new), Copy(d + 1), new)
  PROVE  /\ PlacesOK(p, u, k)
         /\ SymbolOf(u, d + 1) = new
         /\ \A n \in Relations(p) : n <= d => SymbolOf(u, n) = SymbolOf(t, n)
         /\ \A n \in Relations(p) : IsLeft(u, n) <=> n <= d + 1
<1> DEFINE once == InsertMulti(t.byLocation, Original(d + 1), new)
<1>1. ASSUME NEW l, l # Original(d + 1), l # Copy(d + 1)
      PROVE  ValuesAt(u.byLocation, l) = ValuesAt(t.byLocation, l)
  BY <1>1, InsertMultiElsewhere
<1>2. ValuesAt(t.byLocation, Original(d + 1)) = << >> /\ ValuesAt(t.byLocation, Copy(d + 1)) = << >>
  BY LeftHaveSymbols DEF PlacesOK
<1>3. ValuesAt(u.byLocation, Original(d + 1)) = <<new>>
  <2>1. ValuesAt(u.byLocation, Original(d + 1)) = ValuesAt(once, Original(d + 1))
    BY LocationsApart, InsertMultiElsewhere
  <2>2. ValuesAt(once, Original(d + 1)) = <<new>>
    BY <1>2, InsertedThere
  <2>3. QED
    BY <2>1, <2>2
<1>4. ValuesAt(u.byLocation, Copy(d + 1)) = <<new>>
  <2>1. ValuesAt(once, Copy(d + 1)) = << >>
    <3>1. Copy(d + 1) # Original(d + 1)
      BY LocationsApart
    <3>2. ValuesAt(once, Copy(d + 1)) = ValuesAt(t.byLocation, Copy(d + 1))
      BY <3>1, InsertMultiElsewhere
    <3>3. QED
      BY <1>2, <3>2
  <2> HIDE DEF once
  <2>2. u.byLocation = InsertMulti(once, Copy(d + 1), new)
    BY DEF once
  <2>3. QED
    BY <2>1, <2>2, InsertedThere
<1>5. \A n \in Relations(p) : n # d + 1 =>
        /\ ValuesAt(u.byLocation, Original(n)) = ValuesAt(t.byLocation, Original(n))
        /\ ValuesAt(u.byLocation, Copy(n)) = ValuesAt(t.byLocation, Copy(n))
  BY <1>1, LocationsApart
<1>6. SymbolOf(u, d + 1) = new /\ IsLeft(u, d + 1)
  <2>1. <<new>> # << >>
    OBVIOUS
  <2>2. QED
    BY <1>3, <2>1, SymbolsStay DEF IsLeft
<1>7. \A n \in Relations(p) : n # d + 1 =>
        SymbolOf(u, n) = SymbolOf(t, n) /\ (IsLeft(u, n) <=> IsLeft(t, n))
  BY <1>5, SymbolOfStays
<1>8. \A n \in Relations(p) : IsLeft(u, n) <=> n <= d + 1
  BY <1>6, <1>7, LeftHaveSymbols
<1>9. Len(t.symbols) \in Nat /\ DOMAIN t.symbols = 1..Len(t.symbols)
  BY SymbolFound
<1>10. ASSUME NEW n \in Relations(p), NEW m \in Relations(p), n < m, IsLeft(u, m)
       PROVE  SymbolOf(u, n) < SymbolOf(u, m)
  <2>1. n \in Nat /\ m \in Nat /\ m <= d + 1
    BY <1>8, <1>10, LeftHaveSymbols
  <2>2. n <= d /\ SymbolOf(u, n) = SymbolOf(t, n)
    BY <1>7, <1>10, <2>1
  <2>3. CASE m = d + 1
    <3>1. SymbolOf(t, n) \in 1..Len(t.symbols)
      BY <1>9, <2>2, LeftHaveSymbols
    <3>2. QED
      BY <1>6, <1>9, <2>2, <2>3, <3>1
  <2>4. CASE m # d + 1
    <3>1. IsLeft(t, m) /\ SymbolOf(u, m) = SymbolOf(t, m)
      BY <1>7, <1>10, <2>4
    <3>2. QED
      BY <1>10, <2>2, <3>1 DEF PlacesOK
  <2>5. QED
    BY <2>3, <2>4
<1>11. ASSUME NEW r \in DOMAIN p.roots
       PROVE  IF r <= k THEN RootOK(p, u, r) /\ RootSymbol(u, r) = RootSymbol(t, r)
              ELSE ValuesAt(u.byLocation, PlanRelLocation(r)) = << >>
  <2>1. ValuesAt(u.byLocation, PlanRelLocation(r)) = ValuesAt(t.byLocation, PlanRelLocation(r))
    BY <1>1, LocationsApart
  <2>2. CASE r <= k
    <3>1. RootOK(p, t, r) /\ p.roots[r].input \in Relations(p)
      BY <2>2, RootsShape DEF PlacesOK
    <3>2. p.roots[r].input # d + 1 /\ IsLeft(t, p.roots[r].input)
      BY <3>1, LeftHaveSymbols DEF RootOK
    <3>3. IsLeft(u, p.roots[r].input) /\ SymbolOf(u, p.roots[r].input) = SymbolOf(t, p.roots[r].input)
      BY <1>7, <3>1, <3>2
    <3>4. QED
      BY <2>1, <2>2, <3>1, <3>3, RootStays
  <2>3. CASE ~(r <= k)
    BY <2>1, <2>3 DEF PlacesOK
  <2>4. QED
    BY <2>2, <2>3
<1>12. ASSUME NEW s \in DOMAIN u.symbols, u.symbols[s].type = "planRelation"
       PROVE  \E r \in DOMAIN p.roots : r <= k /\ s = RootSymbol(u, r)
  <2>1. s \in DOMAIN t.symbols
    BY <1>12
  <2>2. t.symbols[s].type = "planRelation"
    BY <1>12, <2>1 DEF Keeps, SameSymbol
  <2>3. PICK r \in DOMAIN p.roots : r <= k /\ s = RootSymbol(t, r)
    BY <2>1, <2>2 DEF PlacesOK
  <2>4. QED
    BY <1>11, <2>3
<1>13. \A n \in Relations(p) :
         ValuesAt(u.byLocation, Copy(n)) = ValuesAt(u.byLocation, Original(n))
  BY <1>3, <1>4, <1>5 DEF PlacesOK
<1>14. PlacesOK(p, u, k)
  BY <1>10, <1>11, <1>12, <1>13 DEF PlacesOK
<1>15. \A n \in Relations(p) : n <= d => SymbolOf(u, n) = SymbolOf(t, n)
  BY <1>7
<1>16. QED
  BY <1>6, <1>8, <1>14, <1>15

\* So does that of a PlanRel, which is recorded there.
LEMMA RootPlaced ==
  ASSUME NEW p, IsPlan(p), NEW t, NEW d \in Nat, SymbolsOK(p, t, d),
         NEW r \in DOMAIN p.roots, p.roots[r].input <= d, PlacesOK(p, t, r - 1),
         NEW u, Keeps(t, u),
         NEW new, new = Len(t.symbols) + 1, DOMAIN u.symbols = DOMAIN t.symbols \union {new},
         u.symbols[new].type = "planRelation", u.symbols[new].sourceLocation = PlanRelLocation(r),
         u.byLocation = InsertMulti(t.byLocation, PlanRelLocation(r), new)
  PROVE  /\ PlacesOK(p, u, r)
         /\ \A n \in Relations(p) : SymbolOf(u, n) = SymbolOf(t, n) /\ (IsLeft(u, n) <=> IsLeft(t, n))
<1>1. ASSUME NEW l, l # PlanRelLocation(r)
      PROVE  ValuesAt(u.byLocation, l) = ValuesAt(t.byLocation, l)
  BY <1>1, InsertMultiElsewhere
<1>2. /\ DOMAIN p.roots = 1..Len(p.roots) /\ Len(p.roots) \in Nat
      /\ \A q \in DOMAIN p.roots : p.roots[q].input \in Relations(p)
  BY RootsShape
<1>3. ValuesAt(t.byLocation, PlanRelLocation(r)) = << >>
  <2>1. ~(r <= r - 1)
    BY <1>2
  <2>2. QED
    BY <2>1 DEF PlacesOK
<1>4. ValuesAt(u.byLocation, PlanRelLocation(r)) = <<new>>
  BY <1>3, InsertedThere
<1>5. \A n \in Relations(p) :
        /\ ValuesAt(u.byLocation, Original(n)) = ValuesAt(t.byLocation, Original(n))
        /\ ValuesAt(u.byLocation, Copy(n)) = ValuesAt(t.byLocation, Copy(n))
  BY <1>1, LocationsApart
<1>6. \A n \in Relations(p) : SymbolOf(u, n) = SymbolOf(t, n) /\ (IsLeft(u, n) <=> IsLeft(t, n))
  BY <1>5, SymbolOfStays
<1>7. RootSymbol(u, r) = new
  BY <1>4 DEF RootSymbol, LookupSymbolsByLocation
<1>8. RootOK(p, u, r)
  <2>1. /\ SymbolOf(t, p.roots[r].input) \in DOMAIN t.symbols
        /\ IsLeft(t, p.roots[r].input)
    BY <1>2, LeftHaveSymbols
  <2>2. SymbolOf(t, p.roots[r].input) < new
    BY <2>1, SymbolFound
  <2>3. QED
    BY <1>2, <1>4, <1>6, <1>7, <2>1, <2>2 DEF RootOK
<1>9. ASSUME NEW q \in DOMAIN p.roots, q # r
      PROVE  IF q <= r THEN RootOK(p, u, q) /\ RootSymbol(u, q) = RootSymbol(t, q)
             ELSE ValuesAt(u.byLocation, PlanRelLocation(q)) = << >>
  <2>1. ValuesAt(u.byLocation, PlanRelLocation(q)) = ValuesAt(t.byLocation, PlanRelLocation(q))
    BY <1>1, <1>9, LocationsApart
  <2>2. q <= r <=> q <= r - 1
    BY <1>2, <1>9
  <2>3. CASE q <= r
    <3>1. RootOK(p, t, q)
      BY <2>2, <2>3 DEF PlacesOK
    <3>2. IsLeft(u, p.roots[q].input) /\ SymbolOf(u, p.roots[q].input) = SymbolOf(t, p.roots[q].input)
      BY <1>2, <1>6, <3>1 DEF RootOK
    <3>3. QED
      BY <2>1, <2>3, <3>1, <3>2, RootStays
  <2>4. CASE ~(q <= r)
    BY <2>1, <2>2, <2>4 DEF PlacesOK
  <2>5. QED
    BY <2>3, <2>4
<1>10. ASSUME NEW s \in DOMAIN u.symbols, u.symbols[s].type = "planRelation"
       PROVE  \E q \in DOMAIN p.roots : q <= r /\ s = RootSymbol(u, q)
  <2>1. CASE s = new
    BY <1>2, <1>7, <2>1
  <2>2. CASE s # new
    <3>1. s \in DOMAIN t.symbols
      BY <2>2
    <3>2. t.symbols[s].type = "planRelation"
      BY <1>10, <3>1 DEF Keeps, SameSymbol
    <3>3. PICK q \in DOMAIN p.roots : q <= r - 1 /\ s = RootSymbol(t, q)
      BY <3>1, <3>2 DEF PlacesOK
    <3>4. q # r /\ q <= r
      BY <1>2, <3>3
    <3>5. QED
      BY <1>9, <3>3, <3>4
  <2>3. QED
    BY <2>1, <2>2
<1>11. \A q \in DOMAIN p.roots : IF q <= r THEN RootOK(p, u, q)
                                 ELSE ValuesAt(u.byLocation, PlanRelLocation(q)) = << >>
  BY <1>2, <1>8, <1>9
<1>12. PlacesOK(p, u, r)
  BY <1>5, <1>6, <1>10, <1>11 DEF PlacesOK
<1>13. QED
  BY <1>6, <1>12

-----------------------------------------------------------------------------
(***************************************************************************)
(* What the visit methods being run have come to.                          *)
(***************************************************************************)

\* The first is the plan's; the second, if there is one, that of its PlanRel.
LEMMA StackBottom ==
  ASSUME NEW p, IsPlan(p), NEW v, NEW current, NEW d, CallsOK(p, v, current, d)
  PROVE  /\ Len(v) \in Nat \ {0} /\ DOMAIN v = 1..Len(v) /\ Last(v) = v[Len(v)]
         /\ v[1].what = "plan" /\ v[1].visited \in 0..Len(p.roots)
         /\ Last(v).what = "plan" <=> Len(v) = 1
         /\ Len(v) # 1 => v[1].visited # 0
         /\ \A i \in DOMAIN v : v[i].what = "planRelation" => i = 2 /\ v[i].node = v[1].visited
<1>1. /\ IsSequence(v) /\ v # << >>
      /\ \A i \in DOMAIN v : CallOK(p, v[i]) /\ (v[i].what = "plan" <=> i = 1)
      /\ \A i \in 1..(Len(v) - 1) : CalledBy(p, v[i], v[i + 1])
  BY DEF CallsOK
<1>2. Len(v) \in Nat \ {0} /\ DOMAIN v = 1..Len(v)
  BY <1>1, SequenceHas, EmptySeq DEF IsSequence
<1>3. Last(v) = v[Len(v)]
  BY DEF Last
<1>4. 1 \in DOMAIN v /\ v[1].what = "plan" /\ CallOK(p, v[1])
  BY <1>1, <1>2
<1>5. /\ v[1].visited \in 0..Len(p.roots)
      /\ VisitedBy(p, v[1]) = Indexes(p.roots)
      /\ \A i \in 1..Len(p.roots) : VisitedBy(p, v[1])[i] = i
  <2>1. Len(p.roots) \in Nat
    BY RootsShape
  <2>2. QED
    BY <1>4, <2>1, CallVisits
<1>6. Last(v).what = "plan" <=> Len(v) = 1
  BY <1>1, <1>2, <1>3
<1>7. ASSUME Len(v) # 1
      PROVE  v[1].visited # 0 /\ v[2].node = v[1].visited
  <2>1. 1 \in 1..(Len(v) - 1)
    BY <1>2, <1>7
  <2>2. CalledBy(p, v[1], v[1 + 1])
    BY <1>1, <2>1
  <2>3. 0 < v[1].visited /\ v[2].node = VisitedBy(p, v[1])[v[1].visited]
    BY <2>2 DEF CalledBy
  <2>4. v[1].visited \in 1..Len(p.roots)
    BY <1>5, <2>3
  <2>5. QED
    BY <1>5, <2>3, <2>4
<1>8. ASSUME NEW i \in DOMAIN v, v[i].what = "planRelation"
      PROVE  i = 2 /\ v[i].node = v[1].visited
  <2>1. i # 1 /\ i - 1 \in 1..(Len(v) - 1) /\ (i - 1) + 1 = i /\ i - 1 \in DOMAIN v
    BY <1>1, <1>2, <1>4, <1>8
  <2>2. CalledBy(p, v[i - 1], v[i])
    BY <1>1, <2>1
  <2>3. v[i - 1].what = "plan"
    BY <1>8, <2>2 DEF CalledBy, WhatBelow
  <2>4. i - 1 = 1
    BY <1>1, <2>1, <2>3
  <2>5. i = 2
    BY <1>2, <2>4
  <2>6. QED
    BY <1>2, <1>7, <2>5
<1>9. QED
  BY <1>2, <1>3, <1>4, <1>5, <1>6, <1>7, <1>8

\* What a relation or a subquery calls is before it.
LEMMA CalledBefore ==
  ASSUME NEW p, IsPlan(p), NEW caller, CallOK(p, caller), caller.what \in {"relation", "subquery"},
         NEW i \in 1..Len(VisitedBy(p, caller))
  PROVE  VisitedBy(p, caller)[i] \in 1..(caller.node - 1) /\ caller.node \in Nat
<1>1. VisitedBy(p, caller) = Inside(p, caller.node) /\ caller.node \in 1..LastVisited(p)
  BY CallVisits
<1>2. LastVisited(p) \in Nat
  BY RootsShape
<1>3. /\ DOMAIN Inside(p, caller.node) = 1..Len(Inside(p, caller.node))
      /\ ToSet(Inside(p, caller.node)) \subseteq 1..(caller.node - 1)
  BY <1>1, InsideShape
<1>4. VisitedBy(p, caller)[i] \in ToSet(Inside(p, caller.node))
  BY <1>1, <1>3 DEF ToSet
<1>5. QED
  BY <1>1, <1>2, <1>3, <1>4

LEMMA StackDescends ==
  ASSUME NEW p, IsPlan(p), NEW v, NEW current, NEW d, CallsOK(p, v, current, d),
         NEW i \in DOMAIN v, v[i].what \in {"relation", "subquery"}
  PROVE  \A j \in DOMAIN v : i < j =>
           /\ v[j].what \in {"relation", "subquery"}
           /\ v[j].node \in Nat /\ v[i].node \in Nat /\ v[j].node < v[i].node
<1> DEFINE Lower(j) == /\ v[j].what \in {"relation", "subquery"}
                       /\ v[j].node \in Nat /\ v[i].node \in Nat /\ v[j].node < v[i].node
           Bad == {j \in DOMAIN v : i < j /\ ~Lower(j)}
<1> SUFFICES ASSUME Bad # {}
             PROVE  FALSE
  OBVIOUS
<1>1. Len(v) \in Nat /\ DOMAIN v = 1..Len(v)
  BY StackBottom
<1>2. PICK j \in Bad : \A k \in Bad : j <= k
  <2>1. Bad \in SUBSET Nat
    BY <1>1
  <2> HIDE DEF Bad
  <2>2. QED
    BY <2>1, FirstIsLeast
<1>3. j \in DOMAIN v /\ i < j /\ ~Lower(j)
  OBVIOUS
<1> DEFINE k == j - 1
<1>4. k \in 1..(Len(v) - 1) /\ k \in DOMAIN v /\ k + 1 = j /\ i <= k /\ ~(j <= k)
  BY <1>1, <1>3
<1>5. i = k \/ Lower(k)
  <2>1. k \notin Bad
    <3> HIDE DEF Bad, k
    <3>1. QED
      BY <1>2, <1>4
  <2>2. CASE i < k
    BY <1>4, <2>1, <2>2
  <2>3. QED
    BY <1>1, <1>4, <2>2
<1> HIDE DEF k
<1>6. CallOK(p, v[k]) /\ CalledBy(p, v[k], v[j]) /\ CallOK(p, v[j])
  BY <1>3, <1>4 DEF CallsOK
<1>7. v[k].what \in {"relation", "subquery"}
  BY <1>5
<1>8. v[k].visited \in 1..Len(VisitedBy(p, v[k]))
  BY <1>6, CallVisits DEF CalledBy
<1>9. v[j].node \in 1..(v[k].node - 1) /\ v[k].node \in Nat
  <2>1. VisitedBy(p, v[k])[v[k].visited] \in 1..(v[k].node - 1) /\ v[k].node \in Nat
    BY <1>6, <1>7, <1>8, CalledBefore
  <2>2. QED
    BY <1>6, <2>1 DEF CalledBy
<1>10. v[j].what \in {"relation", "subquery"}
  BY <1>6, <1>7 DEF CalledBy, WhatBelow
<1>11. Lower(j)
  BY <1>5, <1>9, <1>10
<1>12. QED
  BY <1>3, <1>11

\* What the stack v has come to, and w when the innermost method of v has
\* called another.
ComesTo(p, v, w, d, what, node) ==
  /\ what = "relation" => /\ node \notin Reached(p, v, d)
                          /\ Reached(p, w, d) = Reached(p, v, d) \union {node}
  /\ what # "relation" => Reached(p, w, d) = Reached(p, v, d)
  /\ what = "planRelation" => /\ Len(v) = 1 /\ w[1].visited = v[1].visited + 1
                              /\ node = v[1].visited + 1
  /\ what # "planRelation" => w[1].visited = v[1].visited
  /\ Len(w) = Len(v) + 1 /\ Len(v) \in Nat \ {0}
  /\ what = "planRelation" <=> Len(v) = 1

\* The second pass comes to a relation once.
LEMMA ReachedEntered ==
  ASSUME NEW p, IsPlan(p), NEW v, NEW current, NEW d \in Nat, CallsOK(p, v, current, d),
         NEW c, c = Last(v), c.visited < Len(VisitedBy(p, c)),
         NEW node, node = VisitedBy(p, c)[c.visited + 1],
         NEW what, what = WhatBelow(p, c, node),
         NEW w, w = Append(Counted(v), Call(what, node, current))
  PROVE  ComesTo(p, v, w, d, what, node)
<1>1. /\ IsSequence(v) /\ v # << >>
      /\ \A i \in DOMAIN v : CallOK(p, v[i]) /\ (v[i].what = "plan" <=> i = 1)
      /\ \A i \in 1..(Len(v) - 1) : CalledBy(p, v[i], v[i + 1])
      /\ current = ScopeIn(c) /\ LeftBy(p, c, d)
  BY DEF CallsOK
<1>2. Len(v) \in Nat \ {0} /\ DOMAIN v = 1..Len(v) /\ c = v[Len(v)] /\ Len(v) \in DOMAIN v
      /\ (c.what = "plan" <=> Len(v) = 1)
  BY StackBottom
<1>3. CallOK(p, c)
  BY <1>1, <1>2
<1>4. c.visited \in Nat /\ Len(VisitedBy(p, c)) \in Nat /\ c.visited + 1 \in 1..Len(VisitedBy(p, c))
  BY <1>3, CallVisits
<1> DEFINE x == Counted(v)
           new == Call(what, node, current)
<1>5. /\ IsSequence(x) /\ Len(x) = Len(v) /\ DOMAIN x = DOMAIN v
      /\ \A i \in DOMAIN v : /\ x[i].what = v[i].what /\ x[i].node = v[i].node
                             /\ i # Len(v) => x[i] = v[i]
      /\ x[Len(v)].visited = c.visited + 1
  <2>1. IsSequence(x) /\ Len(x) = Len(v) /\ x[Len(v)].visited = c.visited + 1
        /\ x[Len(v)].what = c.what /\ x[Len(v)].node = c.node
    <3> DEFINE top == [c EXCEPT !.visited = @ + 1]
    <3>1. DOMAIN c = {"what", "node", "visited", "outer"}
      BY <1>3 DEF CallOK
    <3>2. top.visited = c.visited + 1 /\ top.what = c.what /\ top.node = c.node
      BY <3>1
    <3>3. x = [v EXCEPT ![Len(v)] = top]
      BY <1>2 DEF Counted
    <3> HIDE DEF top, x
    <3>4. /\ IsSequence(x) /\ DOMAIN x = DOMAIN v
          /\ \A i \in DOMAIN v : x[i] = IF i = Len(v) THEN top ELSE v[i]
      BY <1>1, <1>2, <3>3, SequenceExcept
    <3>5. x[Len(v)] = top
      BY <1>2, <3>4
    <3>6. Len(x) = Len(v)
      <4>1. DOMAIN x = 1..Len(x) /\ Len(x) \in Nat
        BY <3>4, SequenceHas
      <4>2. QED
        BY <1>2, <3>4, <4>1
    <3>7. QED
      BY <3>2, <3>4, <3>5, <3>6
  <2>2. DOMAIN x = DOMAIN v /\ \A i \in DOMAIN v : i # Len(v) => x[i] = v[i]
    BY DEF Counted
  <2>3. QED
    BY <1>2, <2>1, <2>2
<1> HIDE DEF x
<1>6. /\ Len(w) = Len(v) + 1 /\ DOMAIN w = DOMAIN v \union {Len(v) + 1}
      /\ \A i \in DOMAIN v : i # Len(v) + 1 /\ w[i] = x[i]
      /\ w[Len(v) + 1] = new
  <2>1. w = Append(x, new)
    BY DEF x
  <2> HIDE DEF new
  <2>2. QED
    BY <1>5, <2>1, SequenceAppend
<1>7. new.what = what /\ new.node = node
  BY DEF Call
<1>8. \A n : BeingVisited(w, n) <=> BeingVisited(v, n) \/ (what = "relation" /\ n = node)
  BY <1>5, <1>6, <1>7 DEF BeingVisited
<1>9. ASSUME what = "relation"
      PROVE  node \in Relations(p) /\ node \notin Reached(p, v, d)
  <2>1. node \in Relations(p)
    BY <1>3, <1>4, <1>9, CallEntered
  <2>2. ~(node <= d)
    <3>1. LeftBy(p, Call(what, node, ScopeIn(c)), d)
      BY <1>1, <1>3, NumberEntered
    <3>2. IsWhole(p, d, node)
      BY <1>9, <3>1 DEF LeftBy, Call
    <3>3. node \in Nat
      BY <2>1, RootsShape DEF Relations
    <3>4. QED
      BY <3>2, <3>3 DEF IsWhole
  <2>3. ASSUME NEW i \in DOMAIN v, v[i].what = "relation"
        PROVE  v[i].node # node
    <3>1. CASE i = Len(v)
      <4>1. node \in 1..(c.node - 1) /\ c.node \in Nat
        BY <1>2, <1>3, <1>4, <2>3, <3>1, CalledBefore
      <4>2. QED
        BY <1>2, <3>1, <4>1
    <3>2. CASE i # Len(v)
      <4>1. i < Len(v)
        BY <1>2, <3>2
      <4>2. /\ c.what \in {"relation", "subquery"}
            /\ c.node \in Nat /\ v[i].node \in Nat /\ c.node < v[i].node
        BY <1>2, <2>3, <4>1, StackDescends
      <4>3. node \in 1..(c.node - 1)
        BY <1>3, <1>4, <4>2, CalledBefore
      <4>4. QED
        BY <4>2, <4>3
    <3>3. QED
      BY <3>1, <3>2
  <2>4. QED
    BY <2>1, <2>2, <2>3 DEF Reached, BeingVisited
<1>10. what = "relation" => Reached(p, w, d) = Reached(p, v, d) \union {node}
  BY <1>8, <1>9 DEF Reached
<1>11. what # "relation" => Reached(p, w, d) = Reached(p, v, d)
  BY <1>8 DEF Reached
<1>12. what = "planRelation" <=> Len(v) = 1
  BY <1>2, <1>3, <1>4, CallEntered
<1>13. what = "planRelation" => w[1].visited = v[1].visited + 1 /\ node = v[1].visited + 1
  <2>1. SUFFICES ASSUME what = "planRelation"
                 PROVE  w[1].visited = v[1].visited + 1 /\ node = v[1].visited + 1
    OBVIOUS
  <2>2. Len(v) = 1 /\ c = v[1] /\ c.what = "plan"
    BY <1>2, <1>12, <2>1
  <2>3. w[1].visited = v[1].visited + 1
    BY <1>2, <1>5, <1>6, <2>2
  <2>4. node = c.visited + 1
    BY <1>3, <1>4, <2>2, CallVisits
  <2>5. QED
    BY <2>2, <2>3, <2>4
<1>14. what # "planRelation" => w[1].visited = v[1].visited
  <2>1. SUFFICES ASSUME what # "planRelation"
                 PROVE  w[1].visited = v[1].visited
    OBVIOUS
  <2>2. 1 \in DOMAIN v /\ 1 # Len(v)
    BY <1>2, <1>12, <2>1
  <2>3. QED
    BY <1>5, <1>6, <2>2
<1>15. QED
  BY <1>2, <1>6, <1>9, <1>10, <1>11, <1>12, <1>13, <1>14 DEF ComesTo

LEMMA FrontShape ==
  ASSUME NEW v, IsSequence(v), Len(v) \in Nat \ {0}
  PROVE  /\ DOMAIN Front(v) = 1..(Len(v) - 1) /\ Len(Front(v)) = Len(v) - 1
         /\ \A i \in 1..(Len(v) - 1) : Front(v)[i] = v[i]
<1> DEFINE u == Front(v)
<1>1. u = [i \in 1..(Len(v) - 1) |-> v[i]]
  <2>1. v \in Seq(ToSet(v)) /\ u = SubSeq(v, 1, Len(v) - 1)
    BY DEF IsSequence, Front
  <2>2. QED
    BY <2>1
<1>2. u = [i \in 1..(Len(v) - 1) |-> u[i]] /\ Len(v) - 1 \in Nat
  BY <1>1
<1> HIDE DEF u
<1>3. Len(u) = Len(v) - 1
  BY <1>2, ListIsSequence
<1>4. QED
  BY <1>1, <1>3 DEF u

LEMMA ReachedLeft ==
  ASSUME NEW p, IsPlan(p), NEW v, NEW current, NEW d \in Nat, CallsOK(p, v, current, d),
         NEW c, c = Last(v), ~(c.visited < Len(VisitedBy(p, c))), c.what # "plan"
  PROVE  /\ c.what = "planRelation" => Reached(p, Front(v), d) = Reached(p, v, d)
         /\ c.what # "planRelation" => Reached(p, Front(v), d + 1) = Reached(p, v, d)
         /\ Front(v)[1].visited = v[1].visited
         /\ Len(Front(v)) = Len(v) - 1 /\ Len(v) \in Nat \ {0, 1}
         /\ c.what = "planRelation" <=> Len(v) = 2
<1>1. /\ IsSequence(v)
      /\ \A i \in DOMAIN v : CallOK(p, v[i])
      /\ \A i \in 1..(Len(v) - 1) : CalledBy(p, v[i], v[i + 1])
  BY DEF CallsOK
<1>2. Len(v) \in Nat \ {0, 1} /\ DOMAIN v = 1..Len(v) /\ c = v[Len(v)] /\ v[1].what = "plan"
  BY StackBottom
<1>3. /\ DOMAIN Front(v) = 1..(Len(v) - 1) /\ Len(Front(v)) = Len(v) - 1
      /\ \A i \in 1..(Len(v) - 1) : Front(v)[i] = v[i]
  BY <1>1, <1>2, FrontShape
<1>4. /\ c.what = "relation" => c.node = d + 1 /\ c.node \in Relations(p)
      /\ c.what = "subquery" => c.node = d + 1 /\ c.node \in SubqueriesOf(p)
  BY CallsLeft
<1>5. \A n : BeingVisited(v, n)
               <=> BeingVisited(Front(v), n) \/ (c.what = "relation" /\ n = c.node)
  BY <1>2, <1>3 DEF BeingVisited
<1>6. \A n \in Relations(p) : n \in Nat
  BY RootsShape DEF Relations
<1>7. c.what = "planRelation" => Reached(p, Front(v), d) = Reached(p, v, d)
  BY <1>5 DEF Reached
<1>8. c.what \in {"planRelation", "relation", "subquery"}
  BY <1>1, <1>2 DEF CallOK
<1>9. c.what = "relation" => Reached(p, Front(v), d + 1) = Reached(p, v, d)
  BY <1>4, <1>5, <1>6 DEF Reached
<1>10. c.what = "subquery" => Reached(p, Front(v), d + 1) = Reached(p, v, d)
  <2>1. SUFFICES ASSUME c.what = "subquery"
                 PROVE  Reached(p, Front(v), d + 1) = Reached(p, v, d)
    OBVIOUS
  <2>2. d + 1 \notin Relations(p)
    BY <1>4, <2>1, KindsDiffer DEF Relations, SubqueriesOf
  <2>3. \A n \in Relations(p) : n <= d + 1 <=> n <= d
    BY <1>6, <2>2
  <2>4. QED
    BY <1>5, <2>1, <2>3 DEF Reached
<1>11. c.what = "planRelation" <=> Len(v) = 2
  <2>1. c.what = "planRelation" => Len(v) = 2
    BY <1>2, StackBottom
  <2>2. ASSUME Len(v) = 2
        PROVE  c.what = "planRelation"
    <3>1. 1 \in 1..(Len(v) - 1)
      BY <2>2
    <3>2. CalledBy(p, v[1], v[1 + 1])
      BY <1>1, <3>1
    <3>3. QED
      BY <1>2, <2>2, <3>2 DEF CalledBy, WhatBelow
  <2>3. QED
    BY <2>1, <2>2
<1>12. Front(v)[1].visited = v[1].visited
  BY <1>2, <1>3
<1>13. QED
  BY <1>2, <1>3, <1>7, <1>8, <1>9, <1>10, <1>11, <1>12

-----------------------------------------------------------------------------
(***************************************************************************)
(* The first pass.                                                         *)
(***************************************************************************)
\* Symbol n is appended, recorded at l and at m.
DefinedAt(t, u, n, l, m) ==
  /\ DOMAIN u.symbols = DOMAIN t.symbols \union {n}
  /\ u.symbols[n].type = "relation"
  /\ u.byLocation = InsertMulti(InsertMulti(t.byLocation, l, n), m, n)

LEMMA RelationNamed ==
  ASSUME NumberedKindsAreFresh, NEW p \in Plans, NEW t, NEW d, SymbolsOK(p, t, d),
         NamesOK(p, t), NEW base \in NameBases(p), NEW l, NEW m,
         NEW defined, defined = DefineUniqueSymbol(t, base, l, "relation"),
         NEW u, u = AddPermanentLocation(defined, Last(defined.symbols), m),
         NEW n, n = Len(t.symbols) + 1
  PROVE  NamesOK(p, u) /\ Keeps(t, u) /\ DefinedAt(t, u, n, l, m)
<1>1. DOMAIN t = DOMAIN EmptyTable /\ IsSequence(t.symbols)
  BY DEF SymbolsOK
<1>2. NamesOK(p, defined)
  BY <1>1, NamesDefined
<1>3. /\ DOMAIN defined = DOMAIN EmptyTable /\ IsSequence(defined.symbols)
      /\ Len(t.symbols) \in Nat /\ Len(defined.symbols) = n /\ n \notin DOMAIN t.symbols
      /\ DOMAIN defined.symbols = DOMAIN t.symbols \union {n}
      /\ \A i \in DOMAIN t.symbols : defined.symbols[i] = t.symbols[i]
      /\ defined.symbols[n] = NewSymbol(UniqueName(t, base), l, "relation")
      /\ defined.byLocation = InsertMulti(t.byLocation, l, n)
  BY <1>1, DefinedShape
<1>4. Last(defined.symbols) = defined.symbols[n]
  BY <1>3 DEF Last
<1>5. \A s \in DOMAIN defined.symbols : DOMAIN defined.symbols[s] = DOMAIN NewSymbol("", "", "")
  <2>1. DOMAIN defined.symbols[n] = DOMAIN NewSymbol("", "", "")
    BY <1>3 DEF NewSymbol
  <2>2. QED
    BY <1>3, <2>1 DEF SymbolsOK
<1>6. defined.symbols[n].type = "relation"
  BY <1>3 DEF NewSymbol
<1>7. n \in DOMAIN defined.symbols
  BY <1>3
<1>8. FindSymbolIndex(defined, defined.symbols[n]) = n
  BY <1>2, <1>3, <1>7, NameFinds
<1>9. /\ u.names = defined.names
      /\ DOMAIN u.symbols = DOMAIN defined.symbols
      /\ Keeps(defined, u)
      /\ u.byLocation = InsertMulti(defined.byLocation, m, n)
  <2>1. ChangedAt(defined, AddPermanentLocation(defined, defined.symbols[n], m),
                  InsertMulti(defined.byLocation, m, n))
    <3>1. DOMAIN defined = DOMAIN EmptyTable /\ IsSequence(defined.symbols)
      BY <1>3
    <3>2. QED
      BY <1>5, <1>7, <1>8, <3>1, PermanentShape
  <2>2. u = AddPermanentLocation(defined, defined.symbols[n], m)
    BY <1>4
  <2>3. QED
    BY <2>1, <2>2 DEF ChangedAt
<1>10. NamesOK(p, u)
  BY <1>2, <1>9, NamesStay DEF Keeps, SameSymbol
<1>11. Keeps(t, u)
  BY <1>3, <1>9 DEF Keeps, SameSymbol
<1>12. u.symbols[n].type = "relation"
  BY <1>6, <1>7, <1>9 DEF Keeps, SameSymbol
<1>13. QED
  BY <1>3, <1>4, <1>9, <1>10, <1>11, <1>12 DEF DefinedAt

LEMMA SubqueryNamed ==
  ASSUME NEW p, NEW t, NEW d, SymbolsOK(p, t, d), NamesOK(p, t), NEW i \in DOMAIN t.symbols, NEW l
  PROVE  LET u == SetParentQueryLocation(t, t.symbols[i], l)
         IN /\ NamesOK(p, u) /\ Keeps(t, u)
            /\ DOMAIN u.symbols = DOMAIN t.symbols /\ u.byLocation = t.byLocation
<1>1. FindSymbolIndex(t, t.symbols[i]) = i
  BY NameFinds DEF SymbolsOK
<1>2. LET u == SetParentQueryLocation(t, t.symbols[i], l)
      IN /\ u.names = t.names /\ DOMAIN u.symbols = DOMAIN t.symbols
         /\ Keeps(t, u) /\ u.byLocation = t.byLocation
  BY <1>1, ParentShape DEF SymbolsOK
<1> DEFINE u == SetParentQueryLocation(t, t.symbols[i], l)
<1> HIDE DEF u
<1>3. /\ u.names = t.names /\ DOMAIN u.symbols = DOMAIN t.symbols
      /\ Keeps(t, u) /\ u.byLocation = t.byLocation
  BY <1>2 DEF u
<1>4. NamesOK(p, u)
  BY <1>3, NamesStay DEF Keeps, SameSymbol
<1>5. QED
  BY <1>3, <1>4 DEF u

\* The links of a new symbol.
LEMMA UnlinkedAppended ==
  ASSUME NEW p, NEW t, NEW u, NEW links, Unlinked(p, t, links), DataOK(t, links),
         NEW r, r.continuingPipeline = NoSymbol, r.newPipelines = << >>,
         \A n \in Relations(p) : IsLeft(u, n) =>
           \/ IsLeft(t, n) /\ SymbolOf(u, n) = SymbolOf(t, n) /\ SymbolOf(t, n) \in DOMAIN t.symbols
           \/ SymbolOf(u, n) = Len(links) + 1 /\ r.relation = n
  PROVE  Unlinked(p, u, Append(links, r))
<1> DEFINE w == Append(links, r)
<1>1. /\ IsSequence(links) /\ DOMAIN links = DOMAIN t.symbols
  BY DEF DataOK
<1>2. /\ DOMAIN w = DOMAIN links \union {Len(links) + 1}
      /\ \A i \in DOMAIN links : w[i] = links[i]
      /\ w[Len(links) + 1] = r
  BY <1>1, SequenceAppend
<1> HIDE DEF w
<1>3. \A s \in DOMAIN w : w[s].continuingPipeline = NoSymbol /\ w[s].newPipelines = << >>
  BY <1>2 DEF Unlinked
<1>4. \A n \in Relations(p) : IsLeft(u, n) => w[SymbolOf(u, n)].relation = n
  BY <1>1, <1>2 DEF Unlinked
<1>5. Unlinked(p, u, w)
  BY <1>3, <1>4 DEF Unlinked
<1>6. QED
  BY <1>5 DEF w

LEMMA DataLength ==
  ASSUME NEW t, NEW links, DataOK(t, links), IsSequence(t.symbols)
  PROVE  Len(links) = Len(t.symbols)
<1>1. /\ DOMAIN links = 1..Len(links) /\ DOMAIN t.symbols = 1..Len(t.symbols)
      /\ Len(links) \in Nat /\ Len(t.symbols) \in Nat /\ DOMAIN links = DOMAIN t.symbols
  BY SequenceHas DEF DataOK
<1>2. QED
  BY <1>1

LEMMA NewDataUnlinked ==
  /\ \A names : /\ NamesData(names).continuingPipeline = NoSymbol
                /\ NamesData(names).newPipelines = << >>
  /\ \A n : /\ RelationData(n).continuingPipeline = NoSymbol
            /\ RelationData(n).newPipelines = << >> /\ RelationData(n).relation = n
BY DEF NamesData, RelationData

-----------------------------------------------------------------------------
(***************************************************************************)
(* What a visit method that is called or returns comes to.                 *)
(***************************************************************************)
LEMMA EnteredReached ==
  ASSUME NEW q, NEW what, Enter(q, what), IsPlan(plan),
         NEW d \in Nat, CallsOK(plan, visits, scope, d)
  PROVE  /\ RootsLeft(visits') = RootsLeft(visits)
         /\ what = "relation" =>
              /\ NextNode \notin Reached(plan, visits, d)
              /\ Reached(plan, visits', d) = Reached(plan, visits, d) \union {NextNode}
         /\ what # "relation" => Reached(plan, visits', d) = Reached(plan, visits, d)
         /\ what = "planRelation" => /\ visits'[1].visited = visits[1].visited + 1
                                     /\ NextNode = visits[1].visited + 1
                                     /\ NextNode \in DOMAIN plan.roots
         /\ what # "planRelation" => visits'[1].visited = visits[1].visited
<1>1. /\ visits' = Append(Counted(visits), Call(what, NextNode, scope))
      /\ Caller.visited < Len(VisitedBy(plan, Caller))
      /\ NextNode = VisitedBy(plan, Caller)[Caller.visited + 1]
      /\ what = WhatBelow(plan, Caller, NextNode)
  BY DEF Enter, HasMore, NextNode, NextWhat, Counted
<1>2. Caller = Last(visits)
  BY DEF Caller
<1> HIDE DEF Caller, NextNode
<1>3. /\ what = "relation" => /\ NextNode \notin Reached(plan, visits, d)
                              /\ Reached(plan, visits', d) = Reached(plan, visits, d) \union {NextNode}
      /\ what # "relation" => Reached(plan, visits', d) = Reached(plan, visits, d)
      /\ what = "planRelation" => /\ Len(visits) = 1
                                  /\ visits'[1].visited = visits[1].visited + 1
                                  /\ NextNode = visits[1].visited + 1
      /\ what # "planRelation" => visits'[1].visited = visits[1].visited
      /\ Len(visits') = Len(visits) + 1 /\ Len(visits) \in Nat \ {0}
      /\ what = "planRelation" <=> Len(visits) = 1
  <2>1. ComesTo(plan, visits, visits', d, what, NextNode)
    BY <1>1, <1>2, ReachedEntered
  <2>2. QED
    BY <2>1 DEF ComesTo
<1>4. visits[1].visited \in 0..Len(plan.roots)
  BY StackBottom
<1>5. RootsLeft(visits') = RootsLeft(visits)
  BY <1>3, <1>4 DEF RootsLeft
<1>6. ASSUME what = "planRelation"
      PROVE  NextNode \in DOMAIN plan.roots
  <2>1. /\ Caller = visits[1] /\ visits[1].what = "plan" /\ CallOK(plan, visits[1])
    BY <1>2, <1>3, <1>6, StackBottom DEF CallsOK
  <2>2. Len(VisitedBy(plan, Caller)) = Len(plan.roots) /\ Len(plan.roots) \in Nat
    BY <2>1, CallVisits, RootsShape
  <2>3. QED
    BY <1>1, <1>3, <1>4, <1>6, <2>1, <2>2, RootsShape
<1>7. QED
  BY <1>3, <1>5, <1>6

LEMMA LeftReached ==
  ASSUME NEW q, NEW what, Leave(q, what), what # "plan", IsPlan(plan),
         NEW d \in Nat, CallsOK(plan, visits, scope, d)
  PROVE  /\ what = "planRelation" =>
              /\ Reached(plan, visits', d) = Reached(plan, visits, d)
              /\ This \in DOMAIN plan.roots /\ plan.roots[This].input = d
              /\ RootsLeft(visits) = This - 1 /\ RootsLeft(visits') = This
         /\ what # "planRelation" =>
              /\ Reached(plan, visits', d + 1) = Reached(plan, visits, d)
              /\ RootsLeft(visits') = RootsLeft(visits)
         /\ visits'[1].visited = visits[1].visited
<1>1. /\ ~(Caller.visited < Len(VisitedBy(plan, Caller))) /\ Caller.what = what
      /\ visits' = Front(visits)
  BY DEF Leave, HasMore
<1>2. Caller = Last(visits) /\ This = Caller.node
  BY DEF Caller, This
<1> HIDE DEF Caller, This
<1>3. /\ what = "planRelation" => Reached(plan, visits', d) = Reached(plan, visits, d)
      /\ what # "planRelation" => Reached(plan, visits', d + 1) = Reached(plan, visits, d)
      /\ visits'[1].visited = visits[1].visited
      /\ Len(visits') = Len(visits) - 1 /\ Len(visits) \in Nat \ {0, 1}
      /\ what = "planRelation" <=> Len(visits) = 2
  BY <1>1, <1>2, ReachedLeft
<1>4. /\ DOMAIN visits = 1..Len(visits) /\ Caller = visits[Len(visits)]
      /\ visits[1].visited \in 0..Len(plan.roots) /\ visits[1].visited # 0
      /\ \A i \in DOMAIN visits :
           visits[i].what = "planRelation" => visits[i].node = visits[1].visited
  BY <1>2, <1>3, StackBottom
<1>5. CallOK(plan, Caller) /\ LeftBy(plan, Caller, d)
  BY <1>2, <1>3, <1>4 DEF CallsOK
<1>6. ASSUME what = "planRelation"
      PROVE  /\ This \in DOMAIN plan.roots /\ plan.roots[This].input = d
             /\ RootsLeft(visits) = This - 1 /\ RootsLeft(visits') = This
  <2>1. This = visits[1].visited
    BY <1>1, <1>2, <1>3, <1>4, <1>6
  <2>2. This \in DOMAIN plan.roots
    BY <1>4, <2>1, RootsShape
  <2>3. plan.roots[This].input = d
    BY <1>1, <1>2, <1>5, <1>6, NumberLeft
  <2>4. RootsLeft(visits) = This - 1
    BY <1>3, <1>6, <2>1 DEF RootsLeft
  <2>5. RootsLeft(visits') = This
    BY <1>3, <1>6, <2>1 DEF RootsLeft
  <2>6. QED
    BY <2>2, <2>3, <2>4, <2>5
<1>7. what # "planRelation" => RootsLeft(visits') = RootsLeft(visits)
  BY <1>3 DEF RootsLeft
<1>8. QED
  BY <1>3, <1>6, <1>7

-----------------------------------------------------------------------------
(***************************************************************************)
(* The invariant of the first pass is kept.                                *)
(***************************************************************************)
LEMMA OtherNamed ==
  ASSUME NumberedKindsAreFresh, NEW p \in Plans, NEW t, NEW d, SymbolsOK(p, t, d),
         NamesOK(p, t), NEW base \in NameBases(p), NEW l, NEW type
  PROVE  LET u == DefineUniqueSymbol(t, base, l, type)
             n == Len(t.symbols) + 1
         IN /\ NamesOK(p, u) /\ Keeps(t, u)
            /\ DOMAIN u.symbols = DOMAIN t.symbols \union {n} /\ n \notin DOMAIN t.symbols
            /\ u.symbols[n].type = type /\ u.symbols[n].sourceLocation = l
            /\ u.byLocation = InsertMulti(t.byLocation, l, n)
<1> DEFINE u == DefineUniqueSymbol(t, base, l, type)
           n == Len(t.symbols) + 1
<1>1. DOMAIN t = DOMAIN EmptyTable /\ IsSequence(t.symbols)
  BY DEF SymbolsOK
<1>2. NamesOK(p, u)
  BY <1>1, NamesDefined
<1>3. /\ n \notin DOMAIN t.symbols
      /\ DOMAIN u.symbols = DOMAIN t.symbols \union {n}
      /\ \A i \in DOMAIN t.symbols : u.symbols[i] = t.symbols[i]
      /\ u.symbols[n] = NewSymbol(UniqueName(t, base), l, type)
      /\ u.byLocation = InsertMulti(t.byLocation, l, n)
  BY <1>1, DefinedShape
<1> HIDE DEF u, n
<1>4. u.symbols[n].type = type /\ u.symbols[n].sourceLocation = l
  BY <1>3 DEF NewSymbol
<1>5. Keeps(t, u)
  BY <1>3 DEF Keeps, SameSymbol
<1>6. QED
  BY <1>2, <1>3, <1>4, <1>5 DEF u, n

\* Where the relations are found does not change what their symbols have.
LEMMA UnlinkedStays ==
  ASSUME NEW p, IsPlan(p), NEW t, NEW d \in Nat, SymbolsOK(p, t, d), NEW u, Keeps(t, u),
         \A n \in Relations(p) :
           ValuesAt(u.byLocation, Original(n)) = ValuesAt(t.byLocation, Original(n)),
         NEW links, Unlinked(p, t, links), DataOK(t, links)
  PROVE  /\ Unlinked(p, u, links)
         /\ \A r : /\ r.continuingPipeline = NoSymbol
                   /\ r.newPipelines = << >>
              => Unlinked(p, u, Append(links, r))
<1>1. \A n \in Relations(p) : IsLeft(u, n) => /\ IsLeft(t, n) /\ SymbolOf(u, n) = SymbolOf(t, n)
                                              /\ SymbolOf(t, n) \in DOMAIN t.symbols
  BY SymbolOfStays, LeftHaveSymbols
<1>2. Unlinked(p, u, links)
  BY <1>1 DEF Unlinked
<1>3. ASSUME NEW r, r.continuingPipeline = NoSymbol, r.newPipelines = << >>
      PROVE  Unlinked(p, u, Append(links, r))
  BY <1>1, <1>3, UnlinkedAppended
<1>4. QED
  BY <1>2, <1>3

LEMMA FirstPassKept ==
  ASSUME NumberedKindsAreFresh, NumberingInv, TablesInv, pass = "initial", pass' = "initial",
         ConverterNext
  PROVE  TablesInv'
<1>1. IsPlan(plan) /\ LastVisited(plan) \in Nat /\ plan \in Plans /\ DataOK(table, data)
  BY ThePlan DEF NumberingInv
<1>2. /\ NamesOK(plan, table) /\ PlacesOK(plan, table, RootsLeft(visits))
      /\ Unlinked(plan, table, data)
  BY DEF TablesInv
<1>3. PICK d \in Nat : d <= LastVisited(plan) /\ InitialInv(d)
  BY InitialState
<1>4. CallsOK(plan, visits, scope, d) /\ SymbolsOK(plan, table, d)
  BY <1>3 DEF InitialInv
<1>5. ASSUME plan' = plan, NamesOK(plan, table'), PlacesOK(plan, table', RootsLeft(visits')),
             Unlinked(plan, table', data')
      PROVE  TablesInv'
  BY <1>5 DEF TablesInv
<1>6. ASSUME NEW what, Enter("initial", what), table' = table, data' = data
      PROVE  TablesInv'
  <2>1. RootsLeft(visits') = RootsLeft(visits)
    BY <1>1, <1>4, <1>6, EnteredReached
  <2>2. plan' = plan
    BY <1>6 DEF Enter
  <2>3. QED
    BY <1>2, <1>5, <1>6, <2>1, <2>2
<1>7. CASE EnterSubquery
  <2>1. PICK q \in {"initial", "pipelines"} : Enter(q, "subquery")
    BY <1>7 DEF EnterSubquery
  <2>2. q = "initial" /\ table' = table /\ data' = data
    BY <1>7, <2>1 DEF EnterSubquery, Enter
  <2>3. QED
    BY <1>6, <2>1, <2>2
<1>8. CASE InitialVisitRelationRoot
  <2> DEFINE l == RelRootLocation(NextNode)
             r == NamesData(plan.roots[NextNode].names)
             n == Len(table.symbols) + 1
             base == "root.names"
             type == "root"
  <2>1. /\ Enter("initial", "planRelation") /\ plan' = plan
        /\ table' = DefineUniqueSymbol(table, base, l, type) /\ data' = Append(data, r)
    BY <1>8 DEF InitialVisitRelationRoot, Enter
  <2>2. base \in NameBases(plan) /\ type # "planRelation"
    BY DEF NameBases
  <2>3. RootsLeft(visits') = RootsLeft(visits)
    BY <1>1, <1>4, <2>1, EnteredReached
  <2>4. r.continuingPipeline = NoSymbol /\ r.newPipelines = << >>
    BY NewDataUnlinked
  <2>5. \A m : l # Original(m) /\ l # Copy(m) /\ l # PlanRelLocation(m)
    BY LocationsApart
  <2> HIDE DEF l, r, n, base, type
  <2>6. /\ NamesOK(plan, table') /\ Keeps(table, table')
        /\ DOMAIN table'.symbols = DOMAIN table.symbols \union {n}
        /\ table'.symbols[n].type = type
        /\ table'.byLocation = InsertMulti(table.byLocation, l, n)
    BY <1>1, <1>2, <1>4, <2>1, <2>2, OtherNamed DEF n
  <2>7. \A m : m # l => ValuesAt(table'.byLocation, m) = ValuesAt(table.byLocation, m)
    BY <2>6, InsertMultiElsewhere
  <2>8. PlacesOK(plan, table', RootsLeft(visits))
    BY <1>1, <1>2, <1>4, <2>2, <2>5, <2>6, <2>7, PlacesStay
  <2>9. Unlinked(plan, table', data')
    BY <1>1, <1>2, <1>4, <2>1, <2>4, <2>5, <2>6, <2>7, UnlinkedStays
  <2>10. QED
    BY <1>5, <2>1, <2>3, <2>6, <2>8, <2>9
<1>9. CASE InitialEnterPlanRelation
  BY <1>6, <1>9 DEF InitialEnterPlanRelation
<1>10. CASE InitialEnterRelation
  BY <1>6, <1>10 DEF InitialEnterRelation
<1>11. CASE InitialVisitRelation
  <2> DEFINE base == plan.node[This].kind
             n == Len(table.symbols) + 1
             r == RelationData(This)
             defined == DefineUniqueSymbol(table, base, Original(This), "relation")
  <2>1. /\ Leave("initial", "relation") /\ plan' = plan /\ scope' = Caller.outer
        /\ table' = AddPermanentLocation(defined, Last(defined.symbols), Copy(This))
        /\ data' = Append(data, r)
    BY <1>11 DEF InitialVisitRelation, Leave
  <2>2. This = d + 1 /\ This \in Relations(plan)
    BY <1>1, <1>4, <2>1, Left
  <2>3. RootsLeft(visits') = RootsLeft(visits)
    BY <1>1, <1>4, <2>1, LeftReached
  <2>4. base \in NameBases(plan)
    BY <1>1, <2>2, RootsShape DEF NameBases, Relations
  <2>5. r.continuingPipeline = NoSymbol /\ r.newPipelines = << >> /\ r.relation = This
    BY NewDataUnlinked
  <2> HIDE DEF base, n, r, This
  <2>6. /\ NamesOK(plan, table') /\ Keeps(table, table')
        /\ DOMAIN table'.symbols = DOMAIN table.symbols \union {n}
        /\ table'.symbols[n].type = "relation"
        /\ table'.byLocation =
             InsertMulti(InsertMulti(table.byLocation, Original(This), n), Copy(This), n)
    <3>1. n = Len(table.symbols) + 1
      BY DEF n
    <3> HIDE DEF defined
    <3>2. defined = DefineUniqueSymbol(table, base, Original(This), "relation")
      BY DEF defined
    <3>3. /\ NamesOK(plan, table') /\ Keeps(table, table')
          /\ DefinedAt(table, table', n, Original(This), Copy(This))
      BY <1>1, <1>2, <1>4, <2>1, <2>4, <3>1, <3>2, RelationNamed
    <3>4. QED
      BY <3>3 DEF DefinedAt
  <2>7. /\ PlacesOK(plan, table', RootsLeft(visits))
        /\ SymbolOf(table', d + 1) = n
        /\ \A m \in Relations(plan) : m <= d => SymbolOf(table', m) = SymbolOf(table, m)
        /\ \A m \in Relations(plan) : IsLeft(table', m) <=> m <= d + 1
    <3>1. n = Len(table.symbols) + 1
      BY DEF n
    <3>2. table'.byLocation =
            InsertMulti(InsertMulti(table.byLocation, Original(d + 1), n), Copy(d + 1), n)
      BY <2>2, <2>6
    <3>3. d + 1 \in Relations(plan)
      BY <2>2
    <3>4. QED
      BY <1>1, <1>2, <1>4, <2>6, <3>1, <3>2, <3>3, RelationPlaced
  <2>8. Len(data) + 1 = n
    BY <1>1, <1>4, DataLength DEF n, SymbolsOK
  <2>9. ASSUME NEW m \in Relations(plan), IsLeft(table', m)
        PROVE  \/ /\ IsLeft(table, m) /\ SymbolOf(table', m) = SymbolOf(table, m)
                  /\ SymbolOf(table, m) \in DOMAIN table.symbols
               \/ SymbolOf(table', m) = Len(data) + 1 /\ r.relation = m
    <3>1. m \in Nat /\ m <= d + 1
      BY <1>1, <1>4, <2>7, <2>9, LeftHaveSymbols
    <3>2. CASE m = d + 1
      BY <2>2, <2>5, <2>7, <2>8, <3>2
    <3>3. CASE m # d + 1
      <4>1. m <= d
        BY <3>1, <3>3
      <4>2. QED
        BY <1>1, <1>4, <2>7, <4>1, LeftHaveSymbols
    <3>4. QED
      BY <3>2, <3>3
  <2>10. Unlinked(plan, table', data')
    BY <1>1, <1>2, <2>1, <2>5, <2>9, UnlinkedAppended
  <2>11. QED
    BY <1>5, <2>1, <2>3, <2>6, <2>7, <2>10
<1>12. CASE InitialVisitSubquery
  <2> DEFINE s == Below(plan, table, This)
  <2>1. /\ Leave("initial", "subquery") /\ plan' = plan /\ scope' = scope /\ data' = data
        /\ table' = SetParentQueryLocation(table, table.symbols[s], Original(scope))
    BY <1>12 DEF InitialVisitSubquery, RelationSymbol, Below, SymbolOf, Leave
  <2>2. This = d + 1 /\ This \in SubqueriesOf(plan)
    BY <1>1, <1>4, <2>1, Left
  <2>3. RootsLeft(visits') = RootsLeft(visits)
    BY <1>1, <1>4, <2>1, LeftReached
  <2> HIDE DEF This
  <2>4. s \in DOMAIN table.symbols
    <3>1. This <= d + 1
      BY <2>2
    <3>2. QED
      BY <1>1, <1>4, <2>2, <3>1, BelowFound
  <2> HIDE DEF s
  <2>5. /\ NamesOK(plan, table') /\ Keeps(table, table')
        /\ DOMAIN table'.symbols = DOMAIN table.symbols
        /\ table'.byLocation = table.byLocation
    BY <1>2, <1>4, <2>1, <2>4, SubqueryNamed
  <2>6. DOMAIN table'.symbols \ DOMAIN table.symbols = {}
    BY <2>5
  <2>7. PlacesOK(plan, table', RootsLeft(visits))
    BY <1>1, <1>2, <1>4, <2>5, <2>6, PlacesStay
  <2>8. Unlinked(plan, table', data')
    BY <1>1, <1>2, <1>4, <2>1, <2>5, UnlinkedStays
  <2>9. QED
    BY <1>5, <2>1, <2>3, <2>5, <2>7, <2>8
<1>13. CASE InitialVisitPlanRelation
  <2> DEFINE l == PlanRelLocation(This)
             r == RelationData(0)
             n == Len(table.symbols) + 1
             base == plan.roots[This].kind
             type == "planRelation"
  <2>1. /\ Leave("initial", "planRelation") /\ plan' = plan
        /\ table' = DefineUniqueSymbol(table, base, l, type) /\ data' = Append(data, r)
    BY <1>13 DEF InitialVisitPlanRelation, Leave
  <2>2. /\ This \in DOMAIN plan.roots /\ plan.roots[This].input = d
        /\ RootsLeft(visits) = This - 1 /\ RootsLeft(visits') = This
    BY <1>1, <1>4, <2>1, LeftReached
  <2>3. base \in NameBases(plan)
    BY <2>2 DEF NameBases
  <2>4. r.continuingPipeline = NoSymbol /\ r.newPipelines = << >>
    BY NewDataUnlinked
  <2>5. \A m : l # Original(m)
    BY LocationsApart
  <2> HIDE DEF l, r, n, base, type, This
  <2>6. /\ NamesOK(plan, table') /\ Keeps(table, table')
        /\ DOMAIN table'.symbols = DOMAIN table.symbols \union {n}
        /\ table'.symbols[n].type = type /\ table'.symbols[n].sourceLocation = l
        /\ table'.byLocation = InsertMulti(table.byLocation, l, n)
    BY <1>1, <1>2, <1>4, <2>1, <2>3, OtherNamed DEF n
  <2>7. \A m : m # l => ValuesAt(table'.byLocation, m) = ValuesAt(table.byLocation, m)
    BY <2>6, InsertMultiElsewhere
  <2>8. PlacesOK(plan, table', This)
    <3>1. n = Len(table.symbols) + 1 /\ plan.roots[This].input <= d
          /\ PlacesOK(plan, table, This - 1)
      BY <1>2, <2>2 DEF n
    <3>2. QED
      BY <1>1, <1>4, <2>2, <2>6, <3>1, RootPlaced DEF l, type
  <2>9. Unlinked(plan, table', data')
    BY <1>1, <1>2, <1>4, <2>1, <2>4, <2>5, <2>6, <2>7, UnlinkedStays
  <2>10. QED
    BY <1>5, <2>1, <2>2, <2>6, <2>8, <2>9
<1>14. QED
  BY <1>7, <1>8, <1>9, <1>10, <1>11, <1>12, <1>13
     DEF ConverterNext, BeginPipelines, LinkPlanRelation, LeavePlanRelation, LinkRelation,
         LeaveRelation, LinkSubquery, BeginPrint, OutputPipelinesSection, PrintRelation,
         OutputRootSection, Enter, Leave, PlanVisited

-----------------------------------------------------------------------------
(***************************************************************************)
(* The second pass.                                                        *)
(***************************************************************************)
AllPlaces(p, t) ==
  SymbolsOK(p, t, LastVisited(p)) /\ PlacesOK(p, t, Len(p.roots))

LEMMA SymbolsApart ==
  ASSUME NEW p, IsPlan(p), NEW t, AllPlaces(p, t)
  PROVE  /\ \A n \in Relations(p) :
              /\ SymbolOf(t, n) \in DOMAIN t.symbols /\ IsLeft(t, n)
              /\ t.symbols[SymbolOf(t, n)].type = "relation"
              /\ \A m \in Relations(p) :
                   /\ SymbolOf(t, m) = SymbolOf(t, n) => m = n
                   /\ m < n => SymbolOf(t, m) < SymbolOf(t, n)
         /\ \A r \in DOMAIN p.roots :
              /\ RootSymbol(t, r) \in DOMAIN t.symbols
              /\ t.symbols[RootSymbol(t, r)].type = "planRelation"
              /\ p.roots[r].input \in Relations(p)
              /\ SymbolOf(t, p.roots[r].input) < RootSymbol(t, r)
              /\ \A q \in DOMAIN p.roots : RootSymbol(t, q) = RootSymbol(t, r) => q = r
         /\ \A s \in DOMAIN t.symbols :
              /\ t.symbols[s].type = "relation" => \E n \in Relations(p) : s = SymbolOf(t, n)
              /\ t.symbols[s].type = "planRelation" => \E r \in DOMAIN p.roots : s = RootSymbol(t, r)
<1>1. /\ LastVisited(p) \in Nat /\ DOMAIN p.roots = 1..Len(p.roots) /\ Len(p.roots) \in Nat
      /\ \A r \in DOMAIN p.roots : p.roots[r].input \in Relations(p)
  BY RootsShape
<1>2. \A n \in Relations(p) : n <= LastVisited(p)
  BY <1>1 DEF Relations
<1>3. SymbolsOK(p, t, LastVisited(p)) /\ PlacesOK(p, t, Len(p.roots))
  BY DEF AllPlaces
<1>4. ASSUME NEW n \in Relations(p)
      PROVE  /\ SymbolOf(t, n) \in DOMAIN t.symbols /\ IsLeft(t, n)
             /\ t.symbols[SymbolOf(t, n)].type = "relation"
             /\ \A m \in Relations(p) : SymbolOf(t, m) = SymbolOf(t, n) => m = n
  BY <1>1, <1>2, <1>3, LeftHaveSymbols, SymbolFound
<1>5. \A n, m \in Relations(p) : m < n => SymbolOf(t, m) < SymbolOf(t, n)
  BY <1>3, <1>4 DEF PlacesOK
<1>6. ASSUME NEW r \in DOMAIN p.roots
      PROVE  RootOK(p, t, r)
  <2>1. r <= Len(p.roots)
    BY <1>1
  <2>2. QED
    BY <1>3, <2>1 DEF PlacesOK
<1>7. \A r, q \in DOMAIN p.roots : RootSymbol(t, q) = RootSymbol(t, r) => q = r
  <2>1. \A r, q \in DOMAIN p.roots : RootSymbol(t, q) = RootSymbol(t, r)
          => PlanRelLocation(q) = PlanRelLocation(r)
    BY <1>6 DEF RootOK
  <2>2. QED
    BY <2>1, LocationsApart
<1>8. \A s \in DOMAIN t.symbols :
        /\ t.symbols[s].type = "relation" => \E n \in Relations(p) : s = SymbolOf(t, n)
        /\ t.symbols[s].type = "planRelation" => \E r \in DOMAIN p.roots : s = RootSymbol(t, r)
  BY <1>3 DEF SymbolsOK, PlacesOK
<1>9. QED
  BY <1>1, <1>4, <1>5, <1>6, <1>7, <1>8 DEF RootOK

LEMMA LinksBegin ==
  ASSUME NEW p, IsPlan(p), NEW t, AllPlaces(p, t), NEW links, DataOK(t, links),
         Unlinked(p, t, links), \A s \in DOMAIN links : links[s].subQueryPipelines = << >>
  PROVE  LinksOK(p, t, links, {}, {})
<1>1. DOMAIN links = DOMAIN t.symbols
  BY DEF DataOK
<1>2. QED
  BY <1>1, SymbolsApart DEF LinksOK, Unlinked

LEMMA LinksSame ==
  ASSUME NEW p, IsPlan(p), NEW t, AllPlaces(p, t), NEW links, DataOK(t, links), NEW E, NEW Q,
         LinksOK(p, t, links, E, Q), NEW w, DOMAIN w = DOMAIN links,
         \A s \in DOMAIN links : /\ w[s].continuingPipeline = links[s].continuingPipeline
                                 /\ w[s].newPipelines = links[s].newPipelines
                                 /\ w[s].relation = links[s].relation
                                 /\ t.symbols[s].type # "relation"
                                      => w[s].subQueryPipelines = links[s].subQueryPipelines
  PROVE  LinksOK(p, t, w, E, Q)
<1>1. DOMAIN links = DOMAIN t.symbols
  BY DEF DataOK
<1>2. /\ \A n \in Relations(p) : SymbolOf(t, n) \in DOMAIN links
      /\ \A r \in DOMAIN p.roots : RootSymbol(t, r) \in DOMAIN links
  BY <1>1, SymbolsApart
<1>3. QED
  BY <1>2 DEF LinksOK

LEMMA RootLinked ==
  ASSUME NEW p, IsPlan(p), NEW t, AllPlaces(p, t), NEW links, DataOK(t, links), NEW E,
         NEW k \in Nat, k + 1 \in DOMAIN p.roots, LinksOK(p, t, links, E, 1..k),
         NEW w, w = [links EXCEPT ![RootSymbol(t, k + 1)].newPipelines =
                                     Append(@, SymbolOf(t, p.roots[k + 1].input))]
  PROVE  LinksOK(p, t, w, E, 1..(k + 1))
<1> DEFINE s == RootSymbol(t, k + 1)
           i == SymbolOf(t, p.roots[k + 1].input)
<1>1. DOMAIN links = DOMAIN t.symbols /\ \A q \in DOMAIN links : DOMAIN links[q] = DOMAIN RelationData(0)
  BY DEF DataOK
<1>2. s \in DOMAIN links /\ t.symbols[s].type = "planRelation"
  BY <1>1, SymbolsApart
<1>3. links[s].newPipelines = << >>
  <2>1. k + 1 \notin 1..k
    OBVIOUS
  <2>2. QED
    BY <2>1 DEF LinksOK
<1>4. Append(<< >>, i) = <<i>>
  OBVIOUS
<1>5. Append(links[s].newPipelines, i) = <<i>>
  BY <1>3, <1>4, Zenon
<1> HIDE DEF s, i
<1>6. w = [links EXCEPT ![s].newPipelines = <<i>>]
  BY <1>5 DEF s, i
<1>7. /\ DOMAIN w = DOMAIN links
      /\ \A q \in DOMAIN links :
           /\ w[q].continuingPipeline = links[q].continuingPipeline
           /\ w[q].relation = links[q].relation
           /\ w[q].subQueryPipelines = links[q].subQueryPipelines
           /\ w[q].newPipelines = IF q = s THEN <<i>> ELSE links[q].newPipelines
  <2>1. \A q \in DOMAIN links :
          {"continuingPipeline", "relation", "newPipelines", "subQueryPipelines"}
            \subseteq DOMAIN links[q]
    BY <1>1 DEF RelationData
  <2> DEFINE x == [links[s] EXCEPT !.newPipelines = <<i>>]
  <2>2. w = [links EXCEPT ![s] = x]
    BY <1>2, <1>6
  <2>3. /\ x.continuingPipeline = links[s].continuingPipeline
        /\ x.relation = links[s].relation /\ x.newPipelines = <<i>>
        /\ x.subQueryPipelines = links[s].subQueryPipelines
    BY <1>2, <2>1
  <2> HIDE DEF x
  <2>4. DOMAIN w = DOMAIN links /\ \A q \in DOMAIN links : w[q] = IF q = s THEN x ELSE links[q]
    BY <2>2
  <2>5. ASSUME NEW q \in DOMAIN links
        PROVE  /\ w[q].continuingPipeline = links[q].continuingPipeline
               /\ w[q].relation = links[q].relation
               /\ w[q].subQueryPipelines = links[q].subQueryPipelines
               /\ w[q].newPipelines = IF q = s THEN <<i>> ELSE links[q].newPipelines
    <3>1. CASE q = s
      <4>1. w[q] = x
        BY <2>4, <3>1
      <4>2. QED
        BY <2>3, <3>1, <4>1
    <3>2. CASE q # s
      <4>1. w[q] = links[q]
        BY <2>4, <3>2
      <4>2. QED
        BY <3>2, <4>1
    <3>3. QED
      BY <3>1, <3>2
  <2>6. QED
    BY <2>4, <2>5
<1>8. ASSUME NEW r \in DOMAIN p.roots
      PROVE  w[RootSymbol(t, r)].newPipelines =
               IF r \in 1..(k + 1) THEN <<SymbolOf(t, p.roots[r].input)>> ELSE << >>
  <2>1. RootSymbol(t, r) \in DOMAIN links
    BY <1>1, SymbolsApart
  <2>2. CASE r = k + 1
    <3>1. RootSymbol(t, r) = s /\ SymbolOf(t, p.roots[r].input) = i /\ r \in 1..(k + 1)
      BY <2>2 DEF s, i
    <3>2. QED
      BY <1>7, <2>1, <3>1
  <2>3. CASE r # k + 1
    <3>1. RootSymbol(t, r) # s
      BY <2>3, SymbolsApart DEF s
    <3>2. r \in 1..(k + 1) <=> r \in 1..k
      BY <2>3
    <3>3. links[RootSymbol(t, r)].newPipelines =
            IF r \in 1..k THEN <<SymbolOf(t, p.roots[r].input)>> ELSE << >>
      BY DEF LinksOK
    <3>4. QED
      BY <1>7, <2>1, <3>1, <3>2, <3>3
  <2>4. QED
    BY <2>2, <2>3
<1>9. ASSUME NEW n \in Relations(p)
      PROVE  /\ SymbolOf(t, n) \in DOMAIN links
             /\ w[SymbolOf(t, n)].newPipelines = links[SymbolOf(t, n)].newPipelines
  BY <1>1, <1>2, <1>7, SymbolsApart
<1>10. QED
  BY <1>7, <1>8, <1>9 DEF LinksOK

LEMMA InputsShape ==
  ASSUME NEW p, IsPlan(p), NEW t, NEW n \in Relations(p)
  PROVE  /\ << >> \o InputsOf(p, t, n) = InputsOf(p, t, n)
         /\ DOMAIN InputsOf(p, t, n) = DOMAIN p.node[n].inputs
         /\ Len(InputsOf(p, t, n)) = Len(p.node[n].inputs) /\ IsSequence(InputsOf(p, t, n))
         /\ DOMAIN p.node[n].inputs = 1..Len(p.node[n].inputs) /\ Len(p.node[n].inputs) \in Nat
<1> DEFINE f == InputsOf(p, t, n)
           node == p.node[n]
<1>1. IsMessage(p, n)
  BY RootsShape DEF Relations, IsPlan
<1>2. DOMAIN node.inputs = 1..Len(node.inputs) /\ Len(node.inputs) \in Nat
  BY <1>1, SequenceHas DEF IsMessage
<1>3. f = [i \in 1..Len(node.inputs) |-> f[i]]
  BY <1>2 DEF InputsOf
<1> HIDE DEF f
<1>4. IsSequence(f) /\ Len(f) = Len(node.inputs)
  BY <1>2, <1>3, ListIsSequence
<1>5. << >> \o f = f
  <2>1. f \in Seq(ToSet(f))
    BY <1>4 DEF IsSequence
  <2>2. QED
    BY <2>1
<1>6. QED
  BY <1>2, <1>3, <1>4, <1>5 DEF f

LEMMA InputsLinked ==
  ASSUME NEW p, IsPlan(p), NEW t, AllPlaces(p, t), NEW links, DataOK(t, links), NEW E, NEW Q,
         NEW n \in Relations(p), n \notin E, LinksOK(p, t, links, E, Q),
         NEW unary \in BOOLEAN, unary <=> p.node[n].kind \in UnaryKinds,
         NEW w, w = [links EXCEPT
           ![SymbolOf(t, n)].continuingPipeline = IF unary THEN InputsOf(p, t, n)[1] ELSE @,
           ![SymbolOf(t, n)].newPipelines = IF unary THEN @ ELSE @ \o InputsOf(p, t, n)]
  PROVE  LinksOK(p, t, w, E \union {n}, Q)
<1> DEFINE s == SymbolOf(t, n)
           inputs == InputsOf(p, t, n)
<1>1. DOMAIN links = DOMAIN t.symbols /\ \A q \in DOMAIN links : DOMAIN links[q] = DOMAIN RelationData(0)
  BY DEF DataOK
<1>2. s \in DOMAIN links /\ t.symbols[s].type = "relation"
  BY <1>1, SymbolsApart
<1>3. links[s].newPipelines = << >> /\ links[s].continuingPipeline = NoSymbol /\ links[s].relation = n
  BY DEF LinksOK
<1>4. << >> \o inputs = inputs
  BY InputsShape
<1>5. links[s].newPipelines \o inputs = inputs
  BY <1>3, <1>4
<1> HIDE DEF s, inputs
<1>6. w = [links EXCEPT ![s].continuingPipeline = IF unary THEN inputs[1] ELSE @,
                        ![s].newPipelines = IF unary THEN @ ELSE @ \o inputs]
  BY DEF s, inputs
<1>7. \A q \in DOMAIN links :
        {"continuingPipeline", "relation", "newPipelines"} \subseteq DOMAIN links[q]
  BY <1>1 DEF RelationData
<1>8. /\ DOMAIN w = DOMAIN links
      /\ \A q \in DOMAIN links :
           /\ w[q].relation = links[q].relation
           /\ q # s => w[q] = links[q]
      /\ w[s].continuingPipeline = IF unary THEN inputs[1] ELSE links[s].continuingPipeline
      /\ w[s].newPipelines = IF unary THEN links[s].newPipelines ELSE links[s].newPipelines \o inputs
  <2> DEFINE first == IF unary THEN inputs[1] ELSE links[s].continuingPipeline
             all == IF unary THEN links[s].newPipelines ELSE links[s].newPipelines \o inputs
             x == [links[s] EXCEPT !.continuingPipeline = first, !.newPipelines = all]
  <2>1. w = [links EXCEPT ![s] = x]
    BY <1>2, <1>6
  <2> HIDE DEF first, all
  <2>2. /\ x.continuingPipeline = first
        /\ x.relation = links[s].relation /\ x.newPipelines = all
    BY <1>2, <1>7
  <2> HIDE DEF x
  <2>3. DOMAIN w = DOMAIN links /\ \A q \in DOMAIN links : w[q] = IF q = s THEN x ELSE links[q]
    BY <2>1
  <2>4. /\ w[s] = x
        /\ \A q \in DOMAIN links : w[q].relation = links[q].relation /\ (q # s => w[q] = links[q])
    BY <1>2, <2>2, <2>3
  <2>5. QED
    BY <2>2, <2>3, <2>4 DEF first, all
<1>9. ASSUME NEW m \in Relations(p)
      PROVE  LET link == w[SymbolOf(t, m)]
                 one == p.node[m].kind \in UnaryKinds
                 here == m \in E \union {n}
             IN /\ link.continuingPipeline = IF here /\ one THEN InputsOf(p, t, m)[1] ELSE NoSymbol
                /\ link.newPipelines = IF here /\ ~one THEN InputsOf(p, t, m) ELSE << >>
                /\ link.relation = m
  <2>1. CASE m = n
    <3>1. w[s].relation = n
      BY <1>2, <1>3, <1>8
    <3>2. w[s].continuingPipeline = IF unary THEN inputs[1] ELSE NoSymbol
      BY <1>3, <1>8
    <3>3. w[s].newPipelines = IF unary THEN << >> ELSE inputs
      BY <1>3, <1>5, <1>8
    <3>4. QED
      BY <2>1, <3>1, <3>2, <3>3 DEF s, inputs
  <2>2. CASE m # n
    <3>1. SymbolOf(t, m) # s /\ SymbolOf(t, m) \in DOMAIN links
      BY <1>1, <2>2, SymbolsApart DEF s
    <3>2. w[SymbolOf(t, m)] = links[SymbolOf(t, m)] /\ (m \in E \union {n} <=> m \in E)
      BY <1>8, <2>2, <3>1
    <3>3. QED
      BY <3>2 DEF LinksOK
  <2>3. QED
    BY <2>1, <2>2
<1>10. ASSUME NEW r \in DOMAIN p.roots
       PROVE  w[RootSymbol(t, r)].newPipelines = links[RootSymbol(t, r)].newPipelines
  <2>1. RootSymbol(t, r) \in DOMAIN links /\ RootSymbol(t, r) # s
    BY <1>1, <1>2, SymbolsApart
  <2>2. QED
    BY <1>8, <2>1
<1>11. ASSUME NEW q \in DOMAIN w, t.symbols[q].type # "relation"
       PROVE  w[q].continuingPipeline = NoSymbol /\ w[q].subQueryPipelines = << >>
  <2>1. q # s /\ q \in DOMAIN links
    BY <1>2, <1>8, <1>11
  <2>2. QED
    BY <1>8, <1>11, <2>1 DEF LinksOK
<1>12. QED
  BY <1>9, <1>10, <1>11 DEF LinksOK

LEMMA SecondPassKept ==
  ASSUME NumberingInv, TablesInv, pass = "pipelines", pass' = "pipelines", ConverterNext
  PROVE  TablesInv'
<1>1. IsPlan(plan) /\ LastVisited(plan) \in Nat /\ plan \in Plans /\ DataOK(table, data)
  BY ThePlan DEF NumberingInv
<1>2. NamesOK(plan, table) /\ AllPlaces(plan, table)
  BY PipelinesState DEF TablesInv, AllPlaces, AllSymbols
<1>3. PICK d \in 0..LastVisited(plan) :
        /\ CallsOK(plan, visits, scope, d)
        /\ LinksOK(plan, table, data, Reached(plan, visits, d), 1..visits[1].visited)
  BY DEF TablesInv
<1>4. d \in Nat /\ d <= LastVisited(plan)
  BY <1>1, <1>3
<1>5. ASSUME NEW g \in Nat, g <= LastVisited(plan), plan' = plan, table' = table,
             CallsOK(plan, visits', scope', g),
             LinksOK(plan, table, data', Reached(plan, visits', g), 1..visits'[1].visited)
      PROVE  TablesInv'
  <2>1. g \in 0..LastVisited(plan)
    BY <1>1, <1>5
  <2>2. NamesOK(plan, table) /\ PlacesOK(plan, table, Len(plan.roots))
    BY <1>2 DEF AllPlaces
  <2>3. \E k \in 0..LastVisited(plan) :
          /\ CallsOK(plan, visits', scope', k)
          /\ LinksOK(plan, table, data', Reached(plan, visits', k), 1..visits'[1].visited)
    BY <1>5, <2>1
  <2>4. QED
    BY <1>5, <2>2, <2>3 DEF TablesInv
<1>6. CASE EnterSubquery
  <2>1. PICK q \in {"initial", "pipelines"} : Enter(q, "subquery")
    BY <1>6 DEF EnterSubquery
  <2>2. plan' = plan /\ table' = table /\ data' = data /\ scope' = scope
    BY <1>6, <2>1 DEF EnterSubquery, Enter
  <2>3. CallsOK(plan, visits', scope', d)
    BY <1>1, <1>3, <1>4, <2>1, <2>2, Entered
  <2>4. Reached(plan, visits', d) = Reached(plan, visits, d) /\ visits'[1].visited = visits[1].visited
    BY <1>1, <1>3, <1>4, <2>1, EnteredReached
  <2>5. QED
    BY <1>3, <1>4, <1>5, <2>2, <2>3, <2>4
<1>7. CASE LinkPlanRelation
  <2>1. /\ Enter("pipelines", "planRelation") /\ scope' = scope /\ table' = table /\ plan' = plan
        /\ data' = [data EXCEPT ![RootSymbol(table, NextNode)].newPipelines =
                                    Append(@, SymbolOf(table, plan.roots[NextNode].input))]
    BY <1>7 DEF LinkPlanRelation, Enter, RootSymbol, RelationSymbol, SymbolOf
  <2>2. CallsOK(plan, visits', scope', d)
    BY <1>1, <1>3, <1>4, <2>1, Entered
  <2>3. /\ Reached(plan, visits', d) = Reached(plan, visits, d)
        /\ visits'[1].visited = visits[1].visited + 1
        /\ NextNode = visits[1].visited + 1 /\ NextNode \in DOMAIN plan.roots
    BY <1>1, <1>3, <1>4, <2>1, EnteredReached
  <2>4. visits[1].visited \in Nat
    BY <1>1, <1>3, StackBottom, RootsShape
  <2> HIDE DEF NextNode
  <2>5. LinksOK(plan, table, data', Reached(plan, visits, d), 1..(visits[1].visited + 1))
    BY <1>1, <1>2, <1>3, <2>1, <2>3, <2>4, RootLinked
  <2>6. QED
    BY <1>4, <1>5, <2>1, <2>2, <2>3, <2>5
<1>8. CASE LeavePlanRelation
  <2>1. /\ Leave("pipelines", "planRelation") /\ plan' = plan
        /\ scope' = scope /\ table' = table /\ data' = data
    BY <1>8 DEF LeavePlanRelation, Leave
  <2>2. CallsOK(plan, visits', scope', d)
    BY <1>1, <1>3, <1>4, <2>1, Left
  <2>3. Reached(plan, visits', d) = Reached(plan, visits, d) /\ visits'[1].visited = visits[1].visited
    BY <1>1, <1>3, <1>4, <2>1, LeftReached
  <2>4. QED
    BY <1>3, <1>4, <1>5, <2>1, <2>2, <2>3
<1>9. CASE LinkRelation
  <2> DEFINE unary == plan.node[NextNode].kind \in UnaryKinds
             inputs == InputsOf(plan, table, NextNode)
  <2>1. /\ Enter("pipelines", "relation") /\ scope' = NextNode /\ table' = table /\ plan' = plan
        /\ data' = [data EXCEPT
             ![SymbolOf(table, NextNode)].continuingPipeline = IF unary THEN inputs[1] ELSE @,
             ![SymbolOf(table, NextNode)].newPipelines = IF unary THEN @ ELSE @ \o inputs]
    BY <1>9 DEF LinkRelation, Enter, RelationSymbol, SymbolOf, InputsOf
  <2>2. CallsOK(plan, visits', scope', d) /\ NextNode \in Relations(plan)
    BY <1>1, <1>3, <1>4, <2>1, Entered
  <2>3. /\ NextNode \notin Reached(plan, visits, d)
        /\ Reached(plan, visits', d) = Reached(plan, visits, d) \union {NextNode}
        /\ visits'[1].visited = visits[1].visited
    BY <1>1, <1>3, <1>4, <2>1, EnteredReached
  <2>4. unary \in BOOLEAN /\ (unary <=> plan.node[NextNode].kind \in UnaryKinds)
    OBVIOUS
  <2> HIDE DEF NextNode, unary
  <2>5. LinksOK(plan, table, data', Reached(plan, visits, d) \union {NextNode}, 1..visits[1].visited)
    BY <1>1, <1>2, <1>3, <2>1, <2>2, <2>3, <2>4, InputsLinked
  <2>6. QED
    BY <1>4, <1>5, <2>1, <2>2, <2>3, <2>5
<1>10. CASE LeaveRelation
  <2>1. /\ Leave("pipelines", "relation") /\ plan' = plan
        /\ scope' = Caller.outer /\ table' = table /\ data' = data
    BY <1>10 DEF LeaveRelation, Leave
  <2>2. CallsOK(plan, visits', scope', d + 1) /\ This = d + 1 /\ This \in Relations(plan)
    BY <1>1, <1>3, <1>4, <2>1, Left
  <2>3. Reached(plan, visits', d + 1) = Reached(plan, visits, d) /\ visits'[1].visited = visits[1].visited
    BY <1>1, <1>3, <1>4, <2>1, LeftReached
  <2>4. d + 1 \in Nat /\ d + 1 <= LastVisited(plan)
    BY <1>1, <1>4, <2>2 DEF Relations
  <2>5. QED
    BY <1>3, <1>5, <2>1, <2>2, <2>3, <2>4
<1>11. CASE LinkSubquery
  <2> DEFINE symbol == Below(plan, table, This)
             outer  == SymbolOf(table, scope)
             started == ToSet(Path(symbol))
  <2>1. /\ Leave("pipelines", "subquery") /\ scope' = scope /\ table' = table /\ plan' = plan
        /\ data' = [s \in DOMAIN data |->
             [data[s] EXCEPT
                !.subQueryPipelines = IF s = outer THEN Append(@, symbol) ELSE @,
                !.pipelineStart     = IF s \in started THEN symbol ELSE @]]
    BY <1>11 DEF LinkSubquery, RelationSymbol, Below, SymbolOf, Leave
  <2> HIDE DEF symbol, outer, started
  <2>2. /\ CallsOK(plan, visits', scope', d + 1) /\ This = d + 1 /\ This \in SubqueriesOf(plan)
        /\ scope \in Relations(plan)
    <3>1. Leave("pipelines", "subquery") /\ scope' = scope
      BY <2>1
    <3>2. QED
      BY <1>1, <1>3, <1>4, <3>1, Left
  <2>3. Reached(plan, visits', d + 1) = Reached(plan, visits, d) /\ visits'[1].visited = visits[1].visited
    <3>1. Leave("pipelines", "subquery")
      BY <2>1
    <3>2. QED
      BY <1>1, <1>3, <1>4, <3>1, LeftReached
  <2>4. d + 1 \in Nat /\ d + 1 <= LastVisited(plan)
    BY <1>1, <1>4, <2>2 DEF SubqueriesOf
  <2>5. DOMAIN data' = DOMAIN data /\ \A s \in DOMAIN data :
          /\ data'[s].continuingPipeline = data[s].continuingPipeline
          /\ data'[s].newPipelines = data[s].newPipelines
          /\ data'[s].relation = data[s].relation
          /\ s # outer => data'[s].subQueryPipelines = data[s].subQueryPipelines
    <3>1. \A s \in DOMAIN data :
            {"continuingPipeline", "relation", "newPipelines", "subQueryPipelines"}
              \subseteq DOMAIN data[s]
      BY <1>1 DEF DataOK, RelationData
    <3>2. QED
      BY <2>1, <3>1
  <2>6. LinksOK(plan, table, data', Reached(plan, visits, d), 1..visits[1].visited)
    <3>2. table.symbols[outer].type = "relation"
      BY <1>1, <1>2, <2>2, SymbolsApart DEF outer
    <3>3. QED
      BY <1>1, <1>2, <1>3, <2>5, <3>2, LinksSame
  <2>7. QED
    BY <1>5, <2>1, <2>2, <2>3, <2>4, <2>6
<1>12. QED
  BY <1>6, <1>7, <1>8, <1>9, <1>10, <1>11
     DEF ConverterNext, InitialVisitRelationRoot, InitialEnterPlanRelation, InitialEnterRelation,
         InitialVisitRelation, InitialVisitSubquery, InitialVisitPlanRelation,
         BeginPipelines, BeginPrint, OutputPipelinesSection, PrintRelation,
         OutputRootSection, Enter, Leave, PlanVisited

\* When visitPlan returns, it has gone over all the roots.
LEMMA VisitEnds ==
  ASSUME IsPlan(plan), NEW q, PlanVisited(q), NEW d \in Nat, CallsOK(plan, visits, scope, d)
  PROVE  /\ d = LastVisited(plan) /\ RootsLeft(visits) = Len(plan.roots)
         /\ Reached(plan, visits, d) = Relations(plan)
         /\ 1..visits[1].visited = DOMAIN plan.roots
<1>1. /\ ~(Caller.visited < Len(VisitedBy(plan, Caller))) /\ Caller.what = "plan"
      /\ Caller = Last(visits)
  BY DEF PlanVisited, HasMore, Caller
<1> HIDE DEF Caller
<1>2. d = LastVisited(plan)
  BY <1>1, CallsEnd
<1>3. Len(visits) = 1 /\ DOMAIN visits = 1..Len(visits) /\ Caller = visits[1]
      /\ visits[1].visited \in 0..Len(plan.roots)
  BY <1>1, StackBottom
<1>4. Len(plan.roots) \in Nat /\ DOMAIN plan.roots = 1..Len(plan.roots)
  BY RootsShape
<1>5. visits[1].visited = Len(plan.roots)
  <2>1. CallOK(plan, Caller)
    BY <1>3 DEF CallsOK
  <2>2. Len(VisitedBy(plan, Caller)) = Len(plan.roots)
    BY <1>1, <2>1, CallVisits
  <2>3. QED
    BY <1>1, <1>3, <1>4, <2>2
<1>6. \A n \in Relations(plan) : n <= d
  BY <1>2, RootsShape DEF Relations
<1>7. QED
  BY <1>2, <1>3, <1>4, <1>5, <1>6 DEF RootsLeft, Reached

LEMMA NothingReached ==
  ASSUME NEW p, IsPlan(p)
  PROVE  Reached(p, VisitPlan, 0) = {} /\ VisitPlan[1].visited = 0
<1>1. /\ DOMAIN VisitPlan = {1} /\ VisitPlan[1].what = "plan" /\ VisitPlan[1].visited = 0
  BY DEF VisitPlan, Call
<1>2. \A n \in Relations(p) : ~(n <= 0)
  BY RootsShape DEF Relations
<1>3. \A n : ~BeingVisited(VisitPlan, n)
  BY <1>1 DEF BeingVisited
<1>4. QED
  BY <1>1, <1>2, <1>3 DEF Reached

LEMMA TablesStep ==
  ASSUME NumberedKindsAreFresh, NumberingInv, TablesInv, [ConverterNext]_converterVars
  PROVE  TablesInv'
<1>1. IsPlan(plan) /\ LastVisited(plan) \in Nat /\ plan \in Plans /\ DataOK(table, data)
  BY ThePlan DEF NumberingInv
<1>2. CASE BeginPipelines
  <2>1. /\ PlanVisited("initial") /\ pass = "initial" /\ pass' = "pipelines" /\ visits' = VisitPlan
        /\ plan' = plan /\ scope' = scope /\ table' = table /\ data' = data
    BY <1>2 DEF BeginPipelines, PlanVisited
  <2>2. PICK d \in Nat : d <= LastVisited(plan) /\ InitialInv(d)
    BY <2>1, InitialState
  <2>3. CallsOK(plan, visits, scope, d) /\ SymbolsOK(plan, table, d)
    BY <2>2 DEF InitialInv
  <2>4. d = LastVisited(plan) /\ RootsLeft(visits) = Len(plan.roots)
    BY <1>1, <2>1, <2>3, VisitEnds
  <2>5. /\ NamesOK(plan, table) /\ PlacesOK(plan, table, Len(plan.roots))
        /\ Unlinked(plan, table, data)
    BY <2>1, <2>4 DEF TablesInv
  <2>6. LinksOK(plan, table, data, {}, {})
    BY <1>1, <2>2, <2>3, <2>4, <2>5, LinksBegin DEF AllPlaces, InitialInv
  <2>7. /\ Reached(plan, VisitPlan, 0) = {} /\ VisitPlan[1].visited = 0 /\ 1..0 = {}
    BY <1>1, NothingReached
  <2>8. CallsOK(plan, VisitPlan, scope, 0)
    <3>1. scope = NoRelation
      <4>1. /\ ~(Caller.visited < Len(VisitedBy(plan, Caller))) /\ Caller.what = "plan"
            /\ Caller = Last(visits)
        BY <2>1 DEF PlanVisited, HasMore, Caller
      <4> HIDE DEF Caller
      <4>2. QED
        BY <1>1, <2>3, <4>1, CallsEnd
    <3>2. QED
      BY <1>1, <3>1, CallsBegin
  <2>9. \E k \in 0..LastVisited(plan) :
          /\ CallsOK(plan, VisitPlan, scope, k)
          /\ LinksOK(plan, table, data, Reached(plan, VisitPlan, k), 1..VisitPlan[1].visited)
    <3>1. 0 \in 0..LastVisited(plan)
      BY <1>1
    <3>2. QED
      BY <2>6, <2>7, <2>8, <3>1
  <2> HIDE DEF VisitPlan
  <2>10. QED
    BY <2>1, <2>5, <2>9 DEF TablesInv
<1>3. CASE BeginPrint
  <2>1. /\ PlanVisited("pipelines") /\ pass = "pipelines" /\ pass' = "print"
        /\ plan' = plan /\ table' = table /\ data' = data
    BY <1>3 DEF BeginPrint, PlanVisited
  <2>2. PICK d \in 0..LastVisited(plan) :
          /\ CallsOK(plan, visits, scope, d)
          /\ LinksOK(plan, table, data, Reached(plan, visits, d), 1..visits[1].visited)
    BY <2>1 DEF TablesInv
  <2>3. Reached(plan, visits, d) = Relations(plan) /\ 1..visits[1].visited = DOMAIN plan.roots
    <3>1. d \in Nat
      BY <1>1, <2>2
    <3>2. QED
      BY <1>1, <2>1, <2>2, <3>1, VisitEnds
  <2>4. LinksOK(plan, table, data, Relations(plan), DOMAIN plan.roots)
    BY <2>2, <2>3
  <2>5. QED
    BY <2>1, <2>4 DEF TablesInv
<1>4. CASE OutputPipelinesSection \/ PrintRelation \/ OutputRootSection
  <2>1. /\ plan' = plan /\ table' = table /\ data' = data
        /\ pass \in {"print", "relations"} /\ pass' \in {"relations", "printed"}
    BY <1>4 DEF OutputPipelinesSection, PrintRelation, OutputRootSection
  <2>2. QED
    BY <2>1 DEF TablesInv
<1>5. CASE UNCHANGED converterVars
  <2>1. /\ plan' = plan /\ pass' = pass /\ visits' = visits /\ scope' = scope
        /\ table' = table /\ data' = data
    BY <1>5 DEF converterVars
  <2>2. QED
    BY <2>1 DEF TablesInv
<1>6. CASE pass = "initial" /\ pass' = "initial" /\ ConverterNext
  BY <1>6, FirstPassKept
<1>7. CASE pass = "pipelines" /\ pass' = "pipelines" /\ ConverterNext
  BY <1>7, SecondPassKept
<1>8. QED
  <2>1. ASSUME ConverterNext
        PROVE  \/ pass = "initial" /\ pass' = "initial"
               \/ pass = "pipelines" /\ pass' = "pipelines"
               \/ BeginPipelines \/ BeginPrint
               \/ OutputPipelinesSection \/ PrintRelation \/ OutputRootSection
    <3>1. \A q, what : Enter(q, what) \/ Leave(q, what) => pass = q /\ pass' = q
      BY DEF Enter, Leave
    <3>2. EnterSubquery => \/ pass = "initial" /\ pass' = "initial"
                           \/ pass = "pipelines" /\ pass' = "pipelines"
      BY <3>1 DEF EnterSubquery
    <3>3. InitialVisitRelationRoot \/ InitialEnterPlanRelation \/ InitialEnterRelation
            \/ InitialVisitRelation \/ InitialVisitSubquery \/ InitialVisitPlanRelation
          => pass = "initial" /\ pass' = "initial"
      BY <3>1 DEF InitialVisitRelationRoot, InitialEnterPlanRelation, InitialEnterRelation,
           InitialVisitRelation, InitialVisitSubquery, InitialVisitPlanRelation
    <3>4. LinkPlanRelation \/ LeavePlanRelation \/ LinkRelation \/ LeaveRelation \/ LinkSubquery
          => pass = "pipelines" /\ pass' = "pipelines"
      BY <3>1 DEF LinkPlanRelation, LeavePlanRelation, LinkRelation, LeaveRelation, LinkSubquery
    <3>5. QED
      BY <2>1, <3>2, <3>3, <3>4 DEF ConverterNext
  <2>2. QED
    BY <1>2, <1>3, <1>4, <1>5, <1>6, <1>7, <2>1

LEMMA TablesBegin == ConverterInit => TablesInv
<1> SUFFICES ASSUME ConverterInit
             PROVE  TablesInv
  OBVIOUS
<1>1. /\ plan \in Plans /\ pass = "initial" /\ visits = VisitPlan
      /\ table = EmptyTable /\ data = << >>
  BY DEF ConverterInit
<1>2. IsPlan(plan)
  BY <1>1, PlansAssumption
<1>3. /\ DOMAIN EmptyTable.symbols = {} /\ DOMAIN EmptyTable.names = {}
      /\ \A l : ValuesAt(EmptyTable.byLocation, l) = << >>
  BY DEF EmptyTable, ValuesAt
<1>4. NamesOK(plan, table)
  BY <1>1, <1>3 DEF NamesOK
<1>5. \A n : ~IsLeft(table, n)
  BY <1>1, <1>3 DEF IsLeft
<1>6. RootsLeft(visits) = 0
  BY <1>1 DEF RootsLeft, VisitPlan, Call
<1>7. \A r \in DOMAIN plan.roots : ~(r <= 0)
  BY <1>2, RootsShape
<1>8. PlacesOK(plan, table, 0)
  BY <1>1, <1>3, <1>5, <1>7 DEF PlacesOK
<1>9. Unlinked(plan, table, data)
  <2>1. DOMAIN data = {}
    BY <1>1
  <2>2. QED
    BY <1>5, <2>1 DEF Unlinked
<1>10. QED
  BY <1>1, <1>4, <1>6, <1>8, <1>9 DEF TablesInv

-----------------------------------------------------------------------------
(***************************************************************************)
(* Lines as they are stored: from the top of a pipeline down.              *)
(***************************************************************************)

\* Symbol a is the next below b on a line.
Tied(links, a, b) ==
  /\ a # NoSymbol
  /\ links[b].continuingPipeline = a \/ a \in ToSet(links[b].newPipelines)

\* The links of the symbols B.  A symbol has others below it, all before it, and
\* is below one, or begins a pipeline of its own, once.
IsForest(links, B) ==
  /\ B \subseteq Nat /\ NoSymbol \notin B
  /\ \A b \in B :
       /\ \/ links[b].continuingPipeline = NoSymbol
          \/ links[b].continuingPipeline \in B /\ links[b].newPipelines = << >>
       /\ IsSequence(links[b].newPipelines) /\ IsSequence(links[b].subQueryPipelines)
       /\ ToSet(links[b].newPipelines) \union ToSet(links[b].subQueryPipelines) \subseteq B
       /\ \A i, j \in DOMAIN links[b].newPipelines :
            links[b].newPipelines[i] = links[b].newPipelines[j] => i = j
  /\ \A a, b \in B : Tied(links, a, b) => a < b
  /\ \A a, b, c \in B : Tied(links, a, b) /\ Tied(links, a, c) => b = c
  /\ \A b, c \in B : \A i \in DOMAIN links[b].subQueryPipelines :
       /\ ~Tied(links, links[b].subQueryPipelines[i], c)
       /\ \A j \in DOMAIN links[c].subQueryPipelines :
            links[b].subQueryPipelines[i] = links[c].subQueryPipelines[j] => b = c /\ i = j
  /\ \A b \in B : links[b].continuingPipeline # NoSymbol =>
       \E c \in B : Tied(links, b, c) \/ b \in ToSet(links[c].subQueryPipelines)

Continues(links, x, j) ==
  links[x[j]].continuingPipeline = IF j < Len(x) THEN x[j + 1] ELSE NoSymbol

IsPath(links, B, x, s) ==
  /\ IsSequence(x) /\ Len(x) \in Nat \ {0} /\ x[1] = s
  /\ \A j \in 1..Len(x) : x[j] \in B /\ Continues(links, x, j)

\* The k-th line of symbol b: those of newPipelines come first.
IsLine(links, B, x, b, k) ==
  /\ IsSequence(x) /\ Len(x) \in Nat \ {0}
  /\ \A j \in 1..Len(x) : x[j] \in B
  /\ IF k <= Len(links[b].newPipelines)
     THEN /\ Len(x) >= 2 /\ x[1] = b /\ x[2] = links[b].newPipelines[k]
          /\ \A j \in 2..Len(x) : Continues(links, x, j)
     ELSE /\ x[1] = links[b].subQueryPipelines[k - Len(links[b].newPipelines)]
          /\ \A j \in 1..Len(x) : Continues(links, x, j)

Lines(links, b) == 1..(Len(links[b].newPipelines) + Len(links[b].subQueryPipelines))

\* The recursive function of pipelineToPath.
IsPaths(f, links, n) ==
  f = [i \in 1..n |-> IF links[i].continuingPipeline = NoSymbol
                      THEN <<i>>
                      ELSE <<i>> \o f[links[i].continuingPipeline]]

LEMMA PathsExist ==
  ASSUME NEW N \in Nat, NEW links,
         \A i \in 1..N : \/ links[i].continuingPipeline = NoSymbol
                         \/ links[i].continuingPipeline \in 1..(i - 1)
  PROVE  \E f : IsPaths(f, links, N)
<1> DEFINE Bad == {n \in 0..N : ~ \E f : IsPaths(f, links, n)}
<1> SUFFICES ASSUME Bad # {}
             PROVE  FALSE
  <2>1. N \in 0..N
    OBVIOUS
  <2>2. QED
    BY <2>1
<1>1. /\ First(Bad) \in Bad
      /\ \A j \in Bad : First(Bad) <= j
  <2>1. Bad \in SUBSET Nat
    OBVIOUS
  <2> HIDE DEF Bad
  <2>2. QED
    BY <2>1, FirstIsLeast
<1> DEFINE n == First(Bad)
<1> HIDE DEF n
<1>2. n \in 0..N /\ ~ \E f : IsPaths(f, links, n)
  BY <1>1 DEF n
<1>3. n # 0
  <2>1. IsPaths([i \in 1..0 |-> i], links, 0)
    BY DEF IsPaths
  <2>2. QED
    BY <1>2, <2>1
<1>4. PICK f : IsPaths(f, links, n - 1)
  <2>1. n - 1 \in 0..N
    BY <1>2, <1>3
  <2>2. n - 1 \notin Bad
    <3> HIDE DEF Bad
    <3>1. QED
      BY <1>1, <1>2 DEF n
  <2>3. QED
    BY <2>1, <2>2
<1> DEFINE g == [i \in 1..n |-> IF links[i].continuingPipeline = NoSymbol
                               THEN <<i>>
                               ELSE <<i>> \o f[links[i].continuingPipeline]]
<1>5. \A i \in 1..(n - 1) : g[i] = f[i]
  <2>1. \A i \in 1..(n - 1) : f[i] = IF links[i].continuingPipeline = NoSymbol
                                    THEN <<i>> ELSE <<i>> \o f[links[i].continuingPipeline]
    BY <1>4 DEF IsPaths
  <2>2. \A i \in 1..(n - 1) : i \in 1..n
    BY <1>2
  <2>3. QED
    BY <2>1, <2>2
<1>6. IsPaths(g, links, n)
  <2>1. \A i \in 1..n : \/ links[i].continuingPipeline = NoSymbol
                        \/ links[i].continuingPipeline \in 1..(n - 1)
    BY <1>2
  <2>2. QED
    BY <1>5, <2>1 DEF IsPaths
<1>7. QED
  BY <1>2, <1>6

LEMMA OneMore ==
  ASSUME NEW x, IsSequence(x), NEW b
  PROVE  /\ IsSequence(<<b>> \o x) /\ Len(<<b>> \o x) = Len(x) + 1 /\ Len(x) \in Nat
         /\ (<<b>> \o x)[1] = b
         /\ \A j \in 1..Len(x) : (<<b>> \o x)[j + 1] = x[j]
<1>1. IsSequence(<<b>>) /\ Len(<<b>>) = 1 /\ <<b>>[1] = b
  BY DEF IsSequence, ToSet
<1>2. Len(x) \in Nat
  BY SequenceHas
<1> DEFINE s == <<b>>
<1> HIDE DEF s
<1>3. IsSequence(s) /\ Len(s) = 1 /\ s[1] = b
  BY <1>1 DEF s
<1>4. /\ IsSequence(s \o x) /\ Len(s \o x) = Len(s) + Len(x)
      /\ \A i \in 1..Len(s) : (s \o x)[i] = s[i]
      /\ \A i \in 1..Len(x) : (s \o x)[Len(s) + i] = x[i]
  <2>1. IsSequence(s)
    BY <1>3
  <2>2. QED
    BY <2>1, SequenceBoth
<1>5. /\ Len(s \o x) = Len(x) + 1 /\ (s \o x)[1] = b
      /\ \A j \in 1..Len(x) : (s \o x)[j + 1] = x[j]
  BY <1>2, <1>3, <1>4
<1>6. QED
  BY <1>2, <1>4, <1>5 DEF s

\* A path goes on until a symbol that continues nothing.
LEMMA PathsAre ==
  ASSUME NEW links, NEW B, IsForest(links, B), NEW f,
         \A s \in B : f[s] = IF links[s].continuingPipeline = NoSymbol
                             THEN <<s>> ELSE <<s>> \o f[links[s].continuingPipeline]
  PROVE  \A s \in B : IsPath(links, B, f[s], s)
<1> DEFINE Bad == {s \in B : ~IsPath(links, B, f[s], s)}
<1> SUFFICES ASSUME Bad # {}
             PROVE  FALSE
  OBVIOUS
<1>1. PICK s \in Bad : \A q \in Bad : s <= q
  <2>1. Bad \in SUBSET Nat
    BY DEF IsForest
  <2> HIDE DEF Bad
  <2>2. QED
    BY <2>1, FirstIsLeast
<1>2. s \in B /\ ~IsPath(links, B, f[s], s) /\ s \in Nat
  BY DEF IsForest
<1>3. CASE links[s].continuingPipeline = NoSymbol
  <2>1. f[s] = <<s>>
    BY <1>2, <1>3
  <2>2. IsSequence(<<s>>) /\ Len(<<s>>) = 1 /\ <<s>>[1] = s
    BY DEF IsSequence, ToSet
  <2>3. IsPath(links, B, <<s>>, s)
    <3> DEFINE x == <<s>>
    <3> HIDE DEF x
    <3>1. IsSequence(x) /\ Len(x) = 1 /\ x[1] = s
      BY <2>2 DEF x
    <3>2. IsPath(links, B, x, s)
      BY <1>2, <1>3, <3>1 DEF IsPath, Continues
    <3>3. QED
      BY <3>2 DEF x
  <2>4. QED
    BY <1>2, <2>1, <2>3
<1>4. CASE links[s].continuingPipeline # NoSymbol
  <2> DEFINE a == links[s].continuingPipeline
  <2>1. a \in B /\ a \in Nat /\ a < s
    <3>1. a \in B
      BY <1>2, <1>4 DEF IsForest
    <3>2. Tied(links, a, s)
      BY <1>4 DEF Tied
    <3>3. QED
      BY <1>2, <3>1, <3>2 DEF IsForest
  <2>2. a \notin Bad
    <3> HIDE DEF Bad, a
    <3>1. QED
      BY <1>1, <1>2, <2>1
  <2>3. IsPath(links, B, f[a], a)
    BY <2>1, <2>2
  <2>4. f[s] = <<s>> \o f[a]
    BY <1>2, <1>4
  <2> DEFINE x == f[a]
             y == <<s>> \o x
  <2> HIDE DEF a, x
  <2>5. /\ IsSequence(x) /\ Len(x) \in Nat \ {0} /\ x[1] = a
        /\ \A j \in 1..Len(x) : x[j] \in B /\ Continues(links, x, j)
    BY <2>3 DEF IsPath, x
  <2>6. /\ IsSequence(y) /\ Len(y) = Len(x) + 1 /\ y[1] = s
        /\ \A j \in 1..Len(x) : y[j + 1] = x[j]
    BY <2>5, OneMore
  <2> HIDE DEF y
  <2>7. ASSUME NEW j \in 1..Len(y)
        PROVE  y[j] \in B /\ Continues(links, y, j)
    <3>1. CASE j = 1
      <4>1. 1 \in 1..Len(x) /\ y[1 + 1] = x[1] /\ 1 < Len(y)
        BY <2>5, <2>6
      <4>2. links[y[1]].continuingPipeline = y[1 + 1]
        BY <2>5, <2>6, <4>1 DEF a
      <4>3. QED
        BY <1>2, <2>6, <3>1, <4>1, <4>2 DEF Continues
    <3>2. CASE j # 1
      <4>1. PICK i \in 1..Len(x) : j = i + 1
        <5>1. j - 1 \in 1..Len(x) /\ j = (j - 1) + 1
          BY <2>5, <2>6, <3>2
        <5>2. QED
          BY <5>1
      <4>2. y[j] = x[i] /\ x[i] \in B /\ Continues(links, x, i)
        BY <2>5, <2>6, <4>1
      <4>3. CASE i < Len(x)
        <5>1. i + 1 \in 1..Len(x) /\ j < Len(y)
          BY <2>5, <2>6, <4>1, <4>3
        <5>2. y[j + 1] = x[i + 1]
          BY <2>6, <4>1, <5>1
        <5>3. links[x[i]].continuingPipeline = x[i + 1]
          BY <4>2, <4>3 DEF Continues
        <5>4. QED
          BY <4>2, <5>1, <5>2, <5>3 DEF Continues
      <4>4. CASE ~(i < Len(x))
        <5>1. ~(j < Len(y))
          BY <2>5, <2>6, <4>1, <4>4
        <5>2. QED
          BY <4>2, <4>4, <5>1 DEF Continues
      <4>5. QED
        BY <4>3, <4>4
    <3>3. QED
      BY <3>1, <3>2
  <2>8. IsPath(links, B, y, s)
    BY <2>5, <2>6, <2>7 DEF IsPath
  <2>9. QED
    BY <1>2, <2>4, <2>8 DEF x, y
<1>5. QED
  BY <1>3, <1>4

\* Two symbols that follow each other on a line are tied.
LEMMA LineTies ==
  ASSUME NEW links, NEW B, IsForest(links, B), NEW b \in B, NEW k \in Lines(links, b),
         NEW x, IsLine(links, B, x, b, k), NEW j \in 1..(Len(x) - 1)
  PROVE  Tied(links, x[j + 1], x[j]) /\ x[j] \in B /\ x[j + 1] \in B
<1>1. Len(x) \in Nat /\ j \in 1..Len(x) /\ j + 1 \in 1..Len(x) /\ j < Len(x)
  BY DEF IsLine
<1>2. x[j] \in B /\ x[j + 1] \in B /\ x[j + 1] # NoSymbol
  BY <1>1 DEF IsLine, IsForest
<1>3. CASE k <= Len(links[b].newPipelines) /\ j = 1
  <2>1. x[1] = b /\ x[2] = links[b].newPipelines[k]
    BY <1>3 DEF IsLine
  <2>2. k \in DOMAIN links[b].newPipelines
    <3>1. IsSequence(links[b].newPipelines) /\ IsSequence(links[b].subQueryPipelines)
      BY DEF IsForest
    <3>2. k \in Nat \ {0}
      BY <3>1, SequenceHas DEF Lines
    <3>3. QED
      BY <1>3, <3>1, <3>2, SequenceHas
  <2>3. x[2] \in ToSet(links[b].newPipelines)
    BY <2>1, <2>2 DEF ToSet
  <2>4. QED
    BY <1>2, <1>3, <2>1, <2>3 DEF Tied
<1>4. CASE ~(k <= Len(links[b].newPipelines) /\ j = 1)
  <2>1. Continues(links, x, j)
    BY <1>1, <1>4 DEF IsLine
  <2>2. QED
    BY <1>1, <1>2, <2>1 DEF Continues, Tied
<1>5. QED
  BY <1>3, <1>4

LEMMA LineKinds ==
  ASSUME NEW links, NEW B, IsForest(links, B), NEW b \in B
  PROVE  /\ Len(links[b].newPipelines) \in Nat
         /\ \A k \in Lines(links, b) :
              /\ k \in Nat
              /\ IF k <= Len(links[b].newPipelines)
                 THEN k \in DOMAIN links[b].newPipelines
                 ELSE k - Len(links[b].newPipelines) \in DOMAIN links[b].subQueryPipelines
         /\ \A k \in DOMAIN links[b].newPipelines :
              k \in Lines(links, b) /\ k <= Len(links[b].newPipelines)
         /\ \A i \in DOMAIN links[b].subQueryPipelines :
              /\ Len(links[b].newPipelines) + i \in Lines(links, b)
              /\ ~(Len(links[b].newPipelines) + i <= Len(links[b].newPipelines))
              /\ (Len(links[b].newPipelines) + i) - Len(links[b].newPipelines) = i
<1> DEFINE n == Len(links[b].newPipelines)
           m == Len(links[b].subQueryPipelines)
<1>1. IsSequence(links[b].newPipelines) /\ IsSequence(links[b].subQueryPipelines)
  BY DEF IsForest
<1>2. /\ n \in Nat /\ m \in Nat
      /\ DOMAIN links[b].newPipelines = 1..n /\ DOMAIN links[b].subQueryPipelines = 1..m
  BY <1>1, SequenceHas
<1>3. Lines(links, b) = 1..(n + m)
  BY DEF Lines
<1> HIDE DEF n, m
<1>4. /\ n \in Nat
      /\ \A k \in Lines(links, b) :
           /\ k \in Nat
           /\ IF k <= n THEN k \in DOMAIN links[b].newPipelines
              ELSE k - n \in DOMAIN links[b].subQueryPipelines
      /\ \A k \in DOMAIN links[b].newPipelines : k \in Lines(links, b) /\ k <= n
      /\ \A i \in DOMAIN links[b].subQueryPipelines :
           n + i \in Lines(links, b) /\ ~(n + i <= n) /\ (n + i) - n = i
  BY <1>2, <1>3
<1>5. QED
  BY <1>4 DEF n

\* The first two symbols of a line.
LEMMA LineBegins ==
  ASSUME NEW links, NEW B, IsForest(links, B), NEW b \in B, NEW k \in Lines(links, b),
         NEW x, IsLine(links, B, x, b, k), Len(x) >= 2
  PROVE  IF k <= Len(links[b].newPipelines)
         THEN /\ k \in DOMAIN links[b].newPipelines
              /\ x[1] = b /\ x[2] = links[b].newPipelines[k]
              /\ links[b].continuingPipeline = NoSymbol
         ELSE /\ k - Len(links[b].newPipelines) \in DOMAIN links[b].subQueryPipelines
              /\ x[1] = links[b].subQueryPipelines[k - Len(links[b].newPipelines)]
              /\ links[x[1]].continuingPipeline = x[2]
<1>1. CASE k <= Len(links[b].newPipelines)
  <2>1. k \in DOMAIN links[b].newPipelines
    BY <1>1, LineKinds
  <2>2. DOMAIN << >> = {}
    OBVIOUS
  <2>3. links[b].continuingPipeline = NoSymbol
    BY <2>1, <2>2 DEF IsForest
  <2>4. QED
    BY <1>1, <2>1, <2>3 DEF IsLine
<1>2. CASE ~(k <= Len(links[b].newPipelines))
  <2>1. k - Len(links[b].newPipelines) \in DOMAIN links[b].subQueryPipelines
    BY <1>2, LineKinds
  <2>2. Len(x) \in Nat /\ 1 \in 1..Len(x) /\ 1 < Len(x)
    BY DEF IsLine
  <2>3. Continues(links, x, 1) /\ x[1] = links[b].subQueryPipelines[k - Len(links[b].newPipelines)]
    BY <1>2, <2>2 DEF IsLine
  <2>4. QED
    BY <1>2, <2>1, <2>2, <2>3 DEF Continues
<1>3. QED
  BY <1>1, <1>2

LEMMA LineGoesOn ==
  ASSUME NEW links, NEW B, IsForest(links, B), NEW b \in B, NEW k \in Lines(links, b),
         NEW x, IsLine(links, B, x, b, k), NEW j \in 3..Len(x)
  PROVE  /\ links[x[j - 1]].continuingPipeline = x[j]
         /\ \E c \in B : Tied(links, x[j - 1], c)
<1>1. Len(x) \in Nat /\ j - 1 \in 2..Len(x) /\ j - 1 \in 1..Len(x) /\ j - 1 < Len(x) /\ (j - 1) + 1 = j
  BY DEF IsLine
<1>2. Continues(links, x, j - 1)
  BY <1>1 DEF IsLine
<1>3. j - 2 \in 1..(Len(x) - 1) /\ (j - 2) + 1 = j - 1
  BY <1>1
<1>4. Tied(links, x[j - 1], x[j - 2]) /\ x[j - 2] \in B
  BY <1>3, LineTies
<1>5. QED
  BY <1>1, <1>2, <1>4 DEF Continues

\* Where two lines have a symbol in common, they have the one above it.
LEMMA LinesAbove ==
  ASSUME NEW links, NEW B, IsForest(links, B),
         NEW b \in B, NEW k \in Lines(links, b), NEW x, IsLine(links, B, x, b, k),
         NEW c \in B, NEW l \in Lines(links, c), NEW y, IsLine(links, B, y, c, l),
         NEW i \in 2..Len(x), NEW j \in 2..Len(y), x[i] = y[j]
  PROVE  /\ x[i - 1] = y[j - 1]
         /\ i = 2 <=> j = 2
         /\ i = 2 => b = c /\ k = l
<1>1. /\ Len(x) \in Nat /\ i - 1 \in 1..(Len(x) - 1) /\ (i - 1) + 1 = i
      /\ Len(y) \in Nat /\ j - 1 \in 1..(Len(y) - 1) /\ (j - 1) + 1 = j
  BY DEF IsLine
<1>2. /\ Tied(links, x[i], x[i - 1]) /\ x[i - 1] \in B /\ x[i] \in B
      /\ Tied(links, y[j], y[j - 1]) /\ y[j - 1] \in B
  <2>1. Tied(links, x[(i - 1) + 1], x[i - 1]) /\ x[i - 1] \in B /\ x[(i - 1) + 1] \in B
    BY <1>1, LineTies
  <2>2. Tied(links, y[(j - 1) + 1], y[j - 1]) /\ y[j - 1] \in B
    BY <1>1, LineTies
  <2>3. QED
    BY <1>1, <2>1, <2>2
<1>3. x[i - 1] = y[j - 1] /\ x[i] # NoSymbol
  <2>1. \A a, u, v \in B : Tied(links, a, u) /\ Tied(links, a, v) => u = v
    BY DEF IsForest
  <2>2. x[i] # NoSymbol
    BY <1>2 DEF Tied
  <2>3. QED
    BY <1>2, <2>1, <2>2
<1>4. ASSUME NEW u, NEW v \in B, NEW n \in Lines(links, v), NEW m \in 3..Len(u),
             NEW w, NEW a \in B, NEW o \in Lines(links, a), Len(w) >= 2,
             IsLine(links, B, u, v, n), IsLine(links, B, w, a, o),
             w[2] = u[m], w[1] = u[m - 1], u[m] # NoSymbol
      PROVE  FALSE
  <2>1. /\ links[u[m - 1]].continuingPipeline = u[m]
        /\ \E d \in B : Tied(links, u[m - 1], d)
    BY <1>4, LineGoesOn
  <2>2. CASE o <= Len(links[a].newPipelines)
    BY <1>4, <2>1, <2>2, LineBegins
  <2>3. CASE ~(o <= Len(links[a].newPipelines))
    <3>1. /\ o - Len(links[a].newPipelines) \in DOMAIN links[a].subQueryPipelines
          /\ w[1] = links[a].subQueryPipelines[o - Len(links[a].newPipelines)]
      BY <1>4, <2>3, LineBegins
    <3>2. \A d \in B : ~Tied(links, w[1], d)
      BY <3>1 DEF IsForest
    <3>3. QED
      BY <1>4, <2>1, <3>2
  <2>4. QED
    BY <2>2, <2>3
<1>5. CASE i = 2 /\ j # 2
  <2>1. j \in 3..Len(y) /\ Len(x) >= 2 /\ x[2] = y[j] /\ x[1] = y[j - 1] /\ y[j] # NoSymbol
    BY <1>1, <1>3, <1>5
  <2>2. QED
    BY <1>4, <2>1
<1>6. CASE i # 2 /\ j = 2
  <2>1. i \in 3..Len(x) /\ Len(y) >= 2 /\ y[2] = x[i] /\ y[1] = x[i - 1] /\ x[i] # NoSymbol
    BY <1>1, <1>3, <1>6
  <2>2. QED
    BY <1>4, <2>1
<1>7. CASE i = 2 /\ j = 2
  <2>1. Len(x) >= 2 /\ Len(y) >= 2 /\ x[1] = y[1] /\ x[2] = y[2] /\ x[2] # NoSymbol
    BY <1>1, <1>3, <1>7
  <2>2. IF k <= Len(links[b].newPipelines)
         THEN /\ k \in DOMAIN links[b].newPipelines
              /\ x[1] = b /\ x[2] = links[b].newPipelines[k]
              /\ links[b].continuingPipeline = NoSymbol
         ELSE /\ k - Len(links[b].newPipelines) \in DOMAIN links[b].subQueryPipelines
              /\ x[1] = links[b].subQueryPipelines[k - Len(links[b].newPipelines)]
              /\ links[x[1]].continuingPipeline = x[2]
    BY <2>1, LineBegins
  <2>3. IF l <= Len(links[c].newPipelines)
         THEN /\ l \in DOMAIN links[c].newPipelines
              /\ y[1] = c /\ y[2] = links[c].newPipelines[l]
              /\ links[c].continuingPipeline = NoSymbol
         ELSE /\ l - Len(links[c].newPipelines) \in DOMAIN links[c].subQueryPipelines
              /\ y[1] = links[c].subQueryPipelines[l - Len(links[c].newPipelines)]
              /\ links[y[1]].continuingPipeline = y[2]
    BY <2>1, LineBegins
  <2>4. CASE k <= Len(links[b].newPipelines)
    <3>1. l <= Len(links[c].newPipelines)
      BY <2>1, <2>2, <2>3, <2>4
    <3>2. b = c /\ links[b].newPipelines[k] = links[b].newPipelines[l]
          /\ k \in DOMAIN links[b].newPipelines /\ l \in DOMAIN links[b].newPipelines
      BY <2>1, <2>2, <2>3, <2>4, <3>1
    <3>3. k = l
      BY <3>2 DEF IsForest
    <3>4. QED
      BY <1>3, <1>7, <3>2, <3>3
  <2>5. CASE ~(k <= Len(links[b].newPipelines))
    <3>1. ~(l <= Len(links[c].newPipelines))
      BY <2>1, <2>2, <2>3, <2>5
    <3>2. b = c /\ k - Len(links[b].newPipelines) = l - Len(links[c].newPipelines)
      BY <2>1, <2>2, <2>3, <2>5, <3>1 DEF IsForest
    <3>3. Len(links[b].newPipelines) \in Nat /\ k \in Nat /\ l \in Nat
      BY LineKinds
    <3>4. k = l
      BY <3>2, <3>3
    <3>5. QED
      BY <1>3, <1>7, <3>2, <3>4
  <2>6. QED
    BY <2>4, <2>5
<1>8. QED
  BY <1>3, <1>5, <1>6, <1>7

\* All the lines.
AreLines(links, B, stored) ==
  \A b \in B : \A k \in Lines(links, b) : IsLine(links, B, stored[b][k], b, k)

\* A symbol is below another on one line, once.
LEMMA BelowOnce ==
  ASSUME NEW links, NEW B, IsForest(links, B), NEW stored, AreLines(links, B, stored),
         NEW b \in B, NEW k \in Lines(links, b), NEW i \in 2..Len(stored[b][k]),
         NEW c \in B, NEW l \in Lines(links, c), NEW j \in 2..Len(stored[c][l]),
         stored[b][k][i] = stored[c][l][j]
  PROVE  b = c /\ k = l /\ i = j
<1> DEFINE x == stored[b][k]
           y == stored[c][l]
           Apart(m, n) == m \in 2..Len(x) /\ n \in 2..Len(y) /\ x[m] = y[n]
                            /\ ~(b = c /\ k = l /\ m = n)
           Bad == {m \in 2..Len(x) : \E n \in 2..Len(y) : Apart(m, n)}
<1>1. IsLine(links, B, x, b, k) /\ IsLine(links, B, y, c, l)
  BY DEF AreLines
<1>2. Len(x) \in Nat /\ Len(y) \in Nat
  BY <1>1 DEF IsLine
<1>3. Bad = {}
  <2>1. SUFFICES ASSUME Bad # {}
                 PROVE  FALSE
    OBVIOUS
  <2>2. PICK m \in Bad : \A q \in Bad : m <= q
    <3>1. Bad \in SUBSET Nat
      OBVIOUS
    <3> HIDE DEF Bad
    <3>2. QED
      BY <2>1, <3>1, FirstIsLeast
  <2>3. PICK n \in 2..Len(y) : Apart(m, n)
    OBVIOUS
  <2>4. m \in 2..Len(x) /\ x[m] = y[n]
    BY <2>3
  <2>5. x[m - 1] = y[n - 1] /\ (m = 2 <=> n = 2) /\ (m = 2 => b = c /\ k = l)
    <3> HIDE DEF x, y
    <3>1. QED
      BY <1>1, <2>4, LinesAbove
  <2>6. CASE m = 2
    BY <2>3, <2>5, <2>6
  <2>7. CASE m # 2
    <3>1. m - 1 \in 2..Len(x) /\ n - 1 \in 2..Len(y) /\ ~(m <= m - 1)
      BY <1>2, <2>4, <2>5, <2>7
    <3>2. m - 1 \notin Bad
      <4> HIDE DEF Bad
      <4>1. QED
        BY <2>2, <3>1
    <3>3. ~Apart(m - 1, n - 1)
      BY <3>1, <3>2
    <3>4. b = c /\ k = l /\ m - 1 = n - 1
      BY <2>5, <3>1, <3>3
    <3>5. m = n
      BY <1>2, <2>4, <3>4
    <3>6. QED
      BY <2>3, <3>4, <3>5
  <2>8. QED
    BY <2>6, <2>7
<1>4. ~Apart(i, j)
  BY <1>3
<1>5. QED
  BY <1>4

\* Whatever is tied is on a line.
OnALine(links, B, stored, a, b) ==
  \E c \in B : \E k \in Lines(links, c) : \E j \in 1..(Len(stored[c][k]) - 1) :
    stored[c][k][j] = b /\ stored[c][k][j + 1] = a

LEMMA TiedOnALine ==
  ASSUME NEW links, NEW N \in Nat, NEW B \in SUBSET (1..N), IsForest(links, B), NEW stored,
         AreLines(links, B, stored), NEW a \in B, NEW b \in B, Tied(links, a, b)
  PROVE  OnALine(links, B, stored, a, b)
<1> DEFINE Found(d, u) == \E c \in B : \E k \in Lines(links, c) : \E j \in 1..(Len(stored[c][k]) - 1) :
                            stored[c][k][j] = u /\ stored[c][k][j + 1] = d
           Bad == {d \in B : \E u \in B : Tied(links, d, u) /\ ~Found(d, u)}
           Above == {N - d : d \in Bad}
<1>1. Bad = {}
  <2>1. SUFFICES ASSUME Bad # {}
                 PROVE  FALSE
    OBVIOUS
  <2>2. Above \in SUBSET Nat /\ Above # {}
    <3>1. \A d \in Bad : d \in 1..N
      OBVIOUS
    <3> HIDE DEF Bad
    <3>2. QED
      BY <2>1, <3>1
  <2>3. PICK z \in Above : \A v \in Above : z <= v
    <3> HIDE DEF Above
    <3>1. QED
      BY <2>2, FirstIsLeast
  <2>4. PICK d \in Bad : z = N - d
    OBVIOUS
  <2>5. PICK u \in B : Tied(links, d, u) /\ ~Found(d, u)
    OBVIOUS
  <2>6. d \in B /\ u \in B /\ d < u /\ d \in 1..N /\ u \in 1..N
    BY <2>5 DEF IsForest
  <2>7. CASE links[u].continuingPipeline # d
    <3>1. d \in ToSet(links[u].newPipelines) /\ IsSequence(links[u].newPipelines)
          /\ IsSequence(links[u].subQueryPipelines)
      BY <2>5, <2>6, <2>7 DEF Tied, IsForest
    <3>2. PICK k \in DOMAIN links[u].newPipelines : links[u].newPipelines[k] = d
      BY <3>1 DEF ToSet
    <3>3. k \in Lines(links, u) /\ k <= Len(links[u].newPipelines)
      BY <2>6, <3>2, LineKinds
    <3>4. IsLine(links, B, stored[u][k], u, k)
      BY <2>6, <3>3 DEF AreLines
    <3>5. /\ Len(stored[u][k]) \in Nat /\ Len(stored[u][k]) >= 2
          /\ stored[u][k][1] = u /\ stored[u][k][2] = d
      BY <3>2, <3>3, <3>4 DEF IsLine
    <3>6. 1 \in 1..(Len(stored[u][k]) - 1) /\ 1 + 1 = 2
      BY <3>5
    <3>7. QED
      BY <2>5, <3>3, <3>5, <3>6
  <2>8. CASE links[u].continuingPipeline = d
    <3>1. d # NoSymbol
      BY <2>5 DEF Tied
    <3>2. PICK c \in B : Tied(links, u, c) \/ u \in ToSet(links[c].subQueryPipelines)
      BY <2>6, <2>8, <3>1 DEF IsForest
    <3>3. CASE Tied(links, u, c)
      <4>1. u \notin Bad
        <5>1. SUFFICES ASSUME u \in Bad
                       PROVE  FALSE
          OBVIOUS
        <5>2. N - u \in Above
          BY <5>1
        <5>3. z <= N - u
          <6> HIDE DEF Above
          <6>1. QED
            BY <2>3, <5>2
        <5>4. QED
          BY <2>4, <2>6, <5>3
      <4>2. Found(u, c)
        BY <2>6, <3>3, <4>1
      <4>3. PICK e \in B : \E k \in Lines(links, e) : \E j \in 1..(Len(stored[e][k]) - 1) :
                             stored[e][k][j] = c /\ stored[e][k][j + 1] = u
        BY <4>2
      <4>4. PICK k \in Lines(links, e) : \E j \in 1..(Len(stored[e][k]) - 1) :
                             stored[e][k][j] = c /\ stored[e][k][j + 1] = u
        BY <4>3
      <4>5. PICK j \in 1..(Len(stored[e][k]) - 1) : stored[e][k][j] = c /\ stored[e][k][j + 1] = u
        BY <4>4
      <4> DEFINE x == stored[e][k]
      <4>6. IsLine(links, B, x, e, k)
        BY DEF AreLines
      <4> HIDE DEF x
      <4>7. Len(x) \in Nat /\ j + 1 \in 2..Len(x) /\ x[j + 1] = u
        BY <4>5, <4>6 DEF IsLine, x
      <4>8. Continues(links, x, j + 1)
        BY <4>6, <4>7 DEF IsLine
      <4>9. j + 1 < Len(x) /\ x[(j + 1) + 1] = d
        BY <2>8, <3>1, <4>7, <4>8 DEF Continues
      <4>10. j + 1 \in 1..(Len(x) - 1)
        <5>1. j \in Nat
          BY <4>5
        <5>2. Len(x) \in Nat /\ j + 1 < Len(x)
          BY <4>7, <4>9
        <5>3. QED
          BY <5>1, <5>2
      <4>11. QED
        BY <2>5, <4>7, <4>9, <4>10 DEF x
    <3>4. CASE u \in ToSet(links[c].subQueryPipelines)
      <4>1. PICK i \in DOMAIN links[c].subQueryPipelines : links[c].subQueryPipelines[i] = u
        BY <3>4 DEF ToSet
      <4> DEFINE n == Len(links[c].newPipelines)
                 k == n + i
                 x == stored[c][k]
      <4>4. k \in Lines(links, c) /\ ~(k <= n) /\ k - n = i
        BY <4>1, LineKinds
      <4>5. IsLine(links, B, x, c, k)
        BY <4>4 DEF AreLines
      <4> HIDE DEF k, x
      <4>6. /\ x[1] = u /\ Len(x) \in Nat \ {0}
            /\ \A j \in 1..Len(x) : Continues(links, x, j)
        BY <4>1, <4>4, <4>5 DEF IsLine
      <4>7. Continues(links, x, 1)
        BY <4>6
      <4>8. 1 < Len(x) /\ x[1 + 1] = d
        BY <2>8, <3>1, <4>6, <4>7 DEF Continues
      <4>9. 1 \in 1..(Len(x) - 1)
        BY <4>6, <4>8
      <4>10. QED
        BY <2>5, <4>4, <4>6, <4>8, <4>9 DEF x
    <3>5. QED
      BY <3>2, <3>3, <3>4
  <2>9. QED
    BY <2>7, <2>8
<1>2. Found(a, b)
  BY <1>1
<1>3. QED
  BY <1>2 DEF OnALine

-----------------------------------------------------------------------------
(***************************************************************************)
(* Lines as they are printed: the names, from the bottom up.               *)
(***************************************************************************)
PrintedLine(t, x) == Reverse([i \in DOMAIN x |-> t.symbols[x[i]].name])

PairsOf(line) == [k \in 1..(Len(line) - 1) |-> <<line[k], line[k + 1]>>]

NamePair(t, a, b) == <<t.symbols[a].name, t.symbols[b].name>>

LEMMA PrintedFromEnd ==
  ASSUME NEW t, NEW x, IsSequence(x)
  PROVE  /\ Len(x) \in Nat /\ Len(PrintedLine(t, x)) = Len(x)
         /\ \A j \in 1..Len(x) : PrintedLine(t, x)[j] = t.symbols[x[(Len(x) - j) + 1]].name
<1> DEFINE n == Len(x)
           f == [i \in DOMAIN x |-> t.symbols[x[i]].name]
<1>1. n \in Nat /\ DOMAIN x = 1..n
  BY SequenceHas
<1>2. f = [i \in 1..n |-> f[i]]
  BY <1>1
<1>3. \A i \in 1..n : f[i] = t.symbols[x[i]].name
  BY <1>1
<1> HIDE DEF f, n
<1>4. Len(f) = n
  BY <1>1, <1>2, ListIsSequence
<1>5. PrintedLine(t, x) = [i \in 1..n |-> f[(n - i) + 1]]
  BY <1>4 DEF PrintedLine, Reverse, f
<1>6. \A j \in 1..n : (n - j) + 1 \in 1..n
  BY <1>1
<1> DEFINE r == PrintedLine(t, x)
<1>7. r = [i \in 1..n |-> r[i]] /\ \A j \in 1..n : r[j] = t.symbols[x[(n - j) + 1]].name
  BY <1>3, <1>5, <1>6
<1> HIDE DEF r
<1>8. Len(r) = n
  BY <1>1, <1>7, ListIsSequence
<1>9. QED
  BY <1>1, <1>7, <1>8 DEF r, n

\* Where each pair of names of a line printed comes from on the line stored.
ArePairs(t, x, q) ==
  /\ IsSequence(q) /\ DOMAIN q = 1..(Len(x) - 1)
  /\ \A k \in DOMAIN q : /\ Len(x) - k \in 1..(Len(x) - 1)
                         /\ q[k] = NamePair(t, x[(Len(x) - k) + 1], x[Len(x) - k])
  /\ \A j \in 1..(Len(x) - 1) : \E k \in DOMAIN q : Len(x) - k = j

LEMMA PrintedPairs ==
  ASSUME NEW t, NEW x, IsSequence(x)
  PROVE  ArePairs(t, x, PairsOf(PrintedLine(t, x)))
<1> DEFINE n == Len(x)
           r == PrintedLine(t, x)
           q == PairsOf(r)
<1>1. n \in Nat /\ Len(r) = n /\ \A j \in 1..n : r[j] = t.symbols[x[(n - j) + 1]].name
  BY PrintedFromEnd
<1> HIDE DEF n, r
<1>2. q = [k \in 1..(n - 1) |-> <<r[k], r[k + 1]>>]
  BY <1>1 DEF PairsOf
<1> HIDE DEF q
<1>3. \A k \in 1..(n - 1) : k \in 1..n /\ k + 1 \in 1..n /\ n - k \in 1..(n - 1) /\ (n - (k + 1)) + 1 = n - k
  BY <1>1
<1>4. ASSUME NEW k \in 1..(n - 1)
      PROVE  n - k \in 1..(n - 1) /\ q[k] = NamePair(t, x[(n - k) + 1], x[n - k])
  <2>1. r[k] = t.symbols[x[(n - k) + 1]].name
    BY <1>1, <1>3
  <2>2. r[k + 1] = t.symbols[x[n - k]].name
    <3>1. k + 1 \in 1..n /\ (n - (k + 1)) + 1 = n - k
      BY <1>3
    <3>2. r[k + 1] = t.symbols[x[(n - (k + 1)) + 1]].name
      BY <1>1, <3>1
    <3>3. QED
      BY <3>1, <3>2
  <2>3. q[k] = <<r[k], r[k + 1]>>
    BY <1>2
  <2>4. QED
    BY <1>3, <2>1, <2>2, <2>3 DEF NamePair
<1>5. IsSequence(q) /\ DOMAIN q = 1..(n - 1)
  <2>1. CASE n = 0
    <3>1. 1..(n - 1) = 1..0
      BY <2>1
    <3>2. q = [k \in 1..0 |-> q[k]] /\ DOMAIN q = 1..(n - 1)
      BY <1>2, <3>1
    <3>3. QED
      BY <3>2, ListIsSequence
  <2>2. CASE n # 0
    <3>1. n - 1 \in Nat /\ q = [k \in 1..(n - 1) |-> q[k]] /\ DOMAIN q = 1..(n - 1)
      BY <1>1, <1>2, <2>2
    <3>2. QED
      BY <3>1, ListIsSequence
  <2>3. QED
    BY <2>1, <2>2
<1>6. ASSUME NEW j \in 1..(n - 1)
      PROVE  \E k \in 1..(n - 1) : n - k = j
  <2>1. n - j \in 1..(n - 1) /\ n - (n - j) = j
    BY <1>1
  <2>2. QED
    BY <2>1
<1>7. QED
  BY <1>4, <1>5, <1>6 DEF n, r, q, ArePairs

\* Each line printed is a line stored, and each of those is printed once.
IsListing(lines, t, links, B, stored, of, at) ==
  /\ IsSequence(lines)
  /\ \A l \in 1..Len(lines) : /\ of[l] \in B /\ at[l] \in Lines(links, of[l])
                              /\ lines[l] = PrintedLine(t, stored[of[l]][at[l]])
  /\ \A l, m \in 1..Len(lines) : of[l] = of[m] /\ at[l] = at[m] => l = m
  /\ \A b \in B : \A k \in Lines(links, b) : \E l \in 1..Len(lines) : of[l] = b /\ at[l] = k

LEMMA ListingExists ==
  ASSUME NEW t, NEW links, NEW B, IsForest(links, B), NEW stored, AreLines(links, B, stored),
         NEW starts, IsSequence(starts), \A i \in 1..Len(starts) : starts[i] \in B,
         \A i, j \in 1..Len(starts) : starts[i] = starts[j] => i = j,
         \A b \in B : \E i \in 1..Len(starts) : starts[i] = b,
         NEW parts, IsSequence(parts), Len(parts) = Len(starts),
         \A i \in 1..Len(starts) :
           /\ IsSequence(parts[i]) /\ DOMAIN parts[i] = Lines(links, starts[i])
           /\ \A k \in Lines(links, starts[i]) : parts[i][k] = PrintedLine(t, stored[starts[i]][k])
  PROVE  \E of, at : IsListing(FlattenSeq(parts), t, links, B, stored, of, at)
<1> DEFINE lines == FlattenSeq(parts)
<1>1. PICK part, at : IsFlat(lines, parts, Len(parts), part, at)
  BY FlatPlaces
<1> HIDE DEF lines
<1> DEFINE of == [l \in 1..Len(lines) |-> starts[part[l]]]
<1>2. IsSequence(lines) /\ Len(lines) \in Nat
  BY <1>1, SequenceHas DEF IsFlat
<1>3. ASSUME NEW l \in 1..Len(lines)
      PROVE  /\ part[l] \in 1..Len(starts) /\ of[l] = starts[part[l]] /\ of[l] \in B
             /\ at[l] \in Lines(links, of[l]) /\ at[l] \in Nat
             /\ lines[l] = PrintedLine(t, stored[of[l]][at[l]])
  <2>1. /\ part[l] \in 1..Len(starts) /\ at[l] \in 1..Len(parts[part[l]])
        /\ lines[l] = parts[part[l]][at[l]]
    BY <1>1 DEF IsFlat
  <2>2. IsSequence(parts[part[l]]) /\ DOMAIN parts[part[l]] = Lines(links, starts[part[l]])
    BY <2>1
  <2>3. at[l] \in Lines(links, starts[part[l]])
    BY <2>1, <2>2, SequenceHas
  <2>4. QED
    BY <2>1, <2>3
<1> HIDE DEF of
<1>4. ASSUME NEW l \in 1..Len(lines), NEW m \in 1..Len(lines), of[l] = of[m], at[l] = at[m]
      PROVE  l = m
  <2>1. part[l] = part[m] /\ part[l] \in Nat /\ at[l] \in Nat
    BY <1>3, <1>4
  <2>2. \A i, j \in 1..Len(lines) :
          i < j => part[i] < part[j] \/ (part[i] = part[j] /\ at[i] < at[j])
    BY <1>1 DEF IsFlat
  <2>3. ~(l < m) /\ ~(m < l)
    <3>1. ~(part[l] < part[m]) /\ ~(part[m] < part[l]) /\ ~(at[l] < at[m]) /\ ~(at[m] < at[l])
      BY <1>4, <2>1
    <3>2. QED
      BY <2>2, <3>1
  <2>4. QED
    BY <1>2, <2>3
<1>5. ASSUME NEW b \in B, NEW k \in Lines(links, b)
      PROVE  \E l \in 1..Len(lines) : of[l] = b /\ at[l] = k
  <2>1. PICK i \in 1..Len(starts) : starts[i] = b
    OBVIOUS
  <2>2. k \in 1..Len(parts[i])
    BY <2>1, SequenceHas
  <2>3. PICK l \in 1..Len(lines) : part[l] = i /\ at[l] = k
    BY <1>1, <2>1, <2>2 DEF IsFlat
  <2>4. QED
    BY <1>3, <2>1, <2>3
<1>6. IsListing(lines, t, links, B, stored, of, at)
  BY <1>2, <1>3, <1>4, <1>5 DEF IsListing
<1>7. QED
  BY <1>6 DEF lines

\* The pairs of names next to each other on the lines are those of the symbols
\* that are tied, each once.
IsCut(t, links, B, lines) ==
  LET pairs == FlattenSeq([l \in DOMAIN lines |-> PairsOf(lines[l])])
  IN /\ IsSequence(pairs)
     /\ \A m \in DOMAIN pairs : \E a, b \in B : Tied(links, a, b) /\ pairs[m] = NamePair(t, a, b)
     /\ \A a, b \in B : Tied(links, a, b) => \E m \in DOMAIN pairs : pairs[m] = NamePair(t, a, b)
     /\ \A m, n \in DOMAIN pairs : pairs[m] = pairs[n] => m = n

\* ... of which the one printed first is before the other in the table.
Ascends(t, links, B, lines) ==
  \A l \in DOMAIN lines : \A k \in 1..(Len(lines[l]) - 1) : \E a, b \in B :
    Tied(links, a, b) /\ <<lines[l][k], lines[l][k + 1]>> = NamePair(t, a, b)

LEMMA LinesCut ==
  ASSUME NEW t, NEW links, NEW N \in Nat, NEW B \in SUBSET (1..N), IsForest(links, B),
         \A a, b \in B : t.symbols[a].name = t.symbols[b].name => a = b,
         NEW stored, AreLines(links, B, stored), NEW lines, NEW of, NEW at,
         IsListing(lines, t, links, B, stored, of, at)
  PROVE  IsCut(t, links, B, lines) /\ Ascends(t, links, B, lines)
<1> DEFINE parts == [l \in DOMAIN lines |-> PairsOf(lines[l])]
           pairs == FlattenSeq(parts)
           x(l) == stored[of[l]][at[l]]
<1>1. IsSequence(lines) /\ Len(lines) \in Nat /\ DOMAIN lines = 1..Len(lines)
  BY SequenceHas DEF IsListing
<1>2. /\ IsSequence(parts) /\ Len(parts) = Len(lines)
      /\ \A l \in DOMAIN lines : parts[l] = PairsOf(lines[l])
  <2> DEFINE f == parts
  <2>1. f = [l \in 1..Len(lines) |-> f[l]] /\ \A l \in DOMAIN lines : f[l] = PairsOf(lines[l])
    BY <1>1
  <2> HIDE DEF f
  <2>2. IsSequence(f) /\ Len(f) = Len(lines)
    BY <1>1, <2>1, ListIsSequence
  <2>3. QED
    BY <2>1, <2>2 DEF f
<1> HIDE DEF parts
<1>3. ASSUME NEW l \in DOMAIN lines
      PROVE  /\ of[l] \in B /\ at[l] \in Lines(links, of[l])
             /\ lines[l] = PrintedLine(t, x(l))
             /\ IsLine(links, B, x(l), of[l], at[l]) /\ IsSequence(x(l)) /\ Len(x(l)) \in Nat
  <2>1. /\ of[l] \in B /\ at[l] \in Lines(links, of[l])
        /\ lines[l] = PrintedLine(t, x(l))
    BY <1>1 DEF IsListing
  <2>2. IsLine(links, B, x(l), of[l], at[l])
    BY <2>1 DEF AreLines
  <2>3. QED
    BY <2>1, <2>2 DEF IsLine
<1> HIDE DEF x
<1>4. ASSUME NEW l \in DOMAIN lines
      PROVE  /\ IsSequence(parts[l]) /\ DOMAIN parts[l] = 1..(Len(x(l)) - 1)
             /\ \A k \in DOMAIN parts[l] :
                  /\ Len(x(l)) - k \in 1..(Len(x(l)) - 1)
                  /\ parts[l][k] = NamePair(t, x(l)[(Len(x(l)) - k) + 1], x(l)[Len(x(l)) - k])
             /\ \A j \in 1..(Len(x(l)) - 1) : \E k \in DOMAIN parts[l] : Len(x(l)) - k = j
  <2>1. parts[l] = PairsOf(PrintedLine(t, x(l))) /\ IsSequence(x(l))
    BY <1>2, <1>3
  <2>2. ArePairs(t, x(l), parts[l])
    BY <2>1, PrintedPairs
  <2>3. QED
    BY <2>2 DEF ArePairs
<1>5. ASSUME NEW l \in DOMAIN lines, NEW k \in DOMAIN parts[l]
      PROVE  \E a, b \in B : Tied(links, a, b) /\ parts[l][k] = NamePair(t, a, b)
  <2>1. Len(x(l)) - k \in 1..(Len(x(l)) - 1)
    BY <1>4
  <2>2. /\ Tied(links, x(l)[(Len(x(l)) - k) + 1], x(l)[Len(x(l)) - k])
        /\ x(l)[Len(x(l)) - k] \in B /\ x(l)[(Len(x(l)) - k) + 1] \in B
    BY <1>3, <2>1, LineTies
  <2>3. QED
    BY <1>4, <2>2
<1>6. ASSUME NEW a \in B, NEW b \in B, Tied(links, a, b)
      PROVE  \E l \in DOMAIN lines : \E k \in DOMAIN parts[l] : parts[l][k] = NamePair(t, a, b)
  <2>0. OnALine(links, B, stored, a, b)
    BY <1>6, TiedOnALine
  <2>1. PICK c \in B : \E k \in Lines(links, c) : \E j \in 1..(Len(stored[c][k]) - 1) :
           stored[c][k][j] = b /\ stored[c][k][j + 1] = a
    BY <2>0 DEF OnALine
  <2>2. PICK k \in Lines(links, c) : \E j \in 1..(Len(stored[c][k]) - 1) :
           stored[c][k][j] = b /\ stored[c][k][j + 1] = a
    BY <2>1
  <2>3. PICK j \in 1..(Len(stored[c][k]) - 1) : stored[c][k][j] = b /\ stored[c][k][j + 1] = a
    BY <2>2
  <2>4. PICK l \in DOMAIN lines : of[l] = c /\ at[l] = k
    BY <1>1 DEF IsListing
  <2>5. x(l) = stored[c][k]
    BY <2>4 DEF x
  <2>6. PICK i \in DOMAIN parts[l] : Len(x(l)) - i = j
    BY <1>4, <2>3, <2>5
  <2>7. parts[l][i] = NamePair(t, a, b)
    BY <1>4, <2>3, <2>5, <2>6
  <2>8. QED
    BY <2>7
<1>7. ASSUME NEW l \in DOMAIN lines, NEW m \in DOMAIN lines,
             NEW i \in DOMAIN parts[l], NEW j \in DOMAIN parts[m], parts[l][i] = parts[m][j]
      PROVE  l = m /\ i = j
  <2> DEFINE d == (Len(x(l)) - i) + 1
             e == (Len(x(m)) - j) + 1
  <2>1. /\ Len(x(l)) - i \in 1..(Len(x(l)) - 1) /\ Len(x(l)) \in Nat /\ i \in 1..(Len(x(l)) - 1)
        /\ Len(x(m)) - j \in 1..(Len(x(m)) - 1) /\ Len(x(m)) \in Nat /\ j \in 1..(Len(x(m)) - 1)
    BY <1>3, <1>4
  <2>2. d \in 2..Len(x(l)) /\ e \in 2..Len(x(m)) /\ d \in 1..Len(x(l)) /\ e \in 1..Len(x(m))
    BY <2>1
  <2>3. t.symbols[x(l)[d]].name = t.symbols[x(m)[e]].name
    BY <1>4, <1>7 DEF NamePair
  <2> HIDE DEF d, e
  <2>4. x(l)[d] = x(m)[e]
    <3>1. x(l)[d] \in B /\ x(m)[e] \in B
      BY <1>3, <2>2 DEF IsLine
    <3>2. QED
      BY <2>3, <3>1
  <2>5. of[l] = of[m] /\ at[l] = at[m] /\ d = e
    BY <1>3, <2>2, <2>4, BelowOnce DEF x
  <2>6. l = m
    BY <1>1, <2>5 DEF IsListing
  <2>7. QED
    BY <2>1, <2>5, <2>6 DEF d, e
<1>8. \A l \in 1..Len(parts) : IsSequence(parts[l])
  BY <1>1, <1>2, <1>4
<1>9. /\ IsSequence(pairs)
      /\ \A m \in DOMAIN pairs : \E l \in DOMAIN parts : \E k \in DOMAIN parts[l] :
           pairs[m] = parts[l][k]
      /\ \A l \in DOMAIN parts : \A k \in DOMAIN parts[l] : \E m \in DOMAIN pairs :
           pairs[m] = parts[l][k]
  BY <1>2, <1>8, FlatHas
<1>10. DOMAIN parts = DOMAIN lines /\ DOMAIN parts = 1..Len(parts)
  BY <1>1, <1>2, SequenceHas
<1>11. \A m, n \in DOMAIN pairs : pairs[m] = pairs[n] => m = n
  <2>1. \A l, m \in 1..Len(parts) : \A i \in DOMAIN parts[l] : \A j \in DOMAIN parts[m] :
          parts[l][i] = parts[m][j] => l = m /\ i = j
    BY <1>7, <1>10
  <2>2. QED
    BY <1>2, <1>8, <2>1, FlatRepeatsNothing
<1> HIDE DEF pairs
<1>12. IsCut(t, links, B, lines)
  <2>1. \A m \in DOMAIN pairs : \E a, b \in B : Tied(links, a, b) /\ pairs[m] = NamePair(t, a, b)
    BY <1>5, <1>9, <1>10
  <2>2. \A a, b \in B : Tied(links, a, b) => \E m \in DOMAIN pairs : pairs[m] = NamePair(t, a, b)
    <3>1. SUFFICES ASSUME NEW a \in B, NEW b \in B, Tied(links, a, b)
                   PROVE  \E m \in DOMAIN pairs : pairs[m] = NamePair(t, a, b)
      OBVIOUS
    <3>2. PICK l \in DOMAIN parts : \E k \in DOMAIN parts[l] : parts[l][k] = NamePair(t, a, b)
      BY <1>6, <1>10, <3>1
    <3>3. PICK k \in DOMAIN parts[l] : parts[l][k] = NamePair(t, a, b)
      BY <3>2
    <3>4. QED
      BY <1>9, <3>3
  <2>3. QED
    BY <1>9, <1>11, <2>1, <2>2 DEF IsCut, pairs, parts
<1>13. Ascends(t, links, B, lines)
  <2>1. SUFFICES ASSUME NEW l \in DOMAIN lines, NEW k \in 1..(Len(lines[l]) - 1)
                 PROVE  \E a, b \in B : /\ Tied(links, a, b)
                                        /\ <<lines[l][k], lines[l][k + 1]>> = NamePair(t, a, b)
    BY DEF Ascends
  <2>2. parts[l] = [i \in 1..(Len(lines[l]) - 1) |-> <<lines[l][i], lines[l][i + 1]>>]
    BY <1>2 DEF PairsOf
  <2>3. k \in DOMAIN parts[l] /\ parts[l][k] = <<lines[l][k], lines[l][k + 1]>>
    BY <2>2
  <2>4. PICK a \in B, b \in B : Tied(links, a, b) /\ parts[l][k] = NamePair(t, a, b)
    BY <1>5, <2>3
  <2>5. <<lines[l][k], lines[l][k + 1]>> = NamePair(t, a, b)
    BY <2>3, <2>4, Zenon
  <2>6. QED
    BY <2>4, <2>5
<1>14. QED
  BY <1>12, <1>13

-----------------------------------------------------------------------------
(***************************************************************************)
(* The plan as a forest of symbols.                                        *)
(***************************************************************************)

\* The relations inside a message are its inputs.
LEMMA InsideRelation ==
  ASSUME NEW p, IsPlan(p), NEW m \in 1..LastVisited(p), NEW n \in ToSet(Inside(p, m)),
         p.node[n].kind \in RelationKinds
  PROVE  n \in ToSet(p.node[m].inputs)
<1> DEFINE node == p.node[m]
           exprs == VisitedExpressions(node)
<1>1. IsMessage(p, m)
  BY RootsShape DEF IsPlan
<1>2. /\ IsSequence(node.inputs) /\ IsSequence(node.exprs)
      /\ \A e \in ToSet(node.exprs) : p.node[e].kind \in SubqueryKinds
  BY <1>1 DEF IsMessage
<1>3. IsSequence(exprs) /\ \A e \in ToSet(exprs) : p.node[e].kind \in SubqueryKinds
  <2>1. IsSequence(<< >>) /\ ToSet(<< >>) = {}
    BY DEF IsSequence, ToSet
  <2>2. QED
    BY <1>2, <2>1 DEF VisitedExpressions
<1>4. n \notin ToSet(exprs)
  BY <1>3, KindsDiffer
<1>5. Inside(p, m) = exprs \o node.inputs \/ Inside(p, m) = node.inputs \o exprs
  BY DEF Inside
<1> HIDE DEF exprs
<1>6. ToSet(Inside(p, m)) = ToSet(exprs) \union ToSet(node.inputs)
  <2>1. /\ ToSet(exprs \o node.inputs) = ToSet(exprs) \union ToSet(node.inputs)
        /\ ToSet(node.inputs \o exprs) = ToSet(exprs) \union ToSet(node.inputs)
    BY <1>2, <1>3, SequenceBoth
  <2>2. QED
    BY <1>5, <2>1
<1>7. QED
  BY <1>4, <1>6

LEMMA InputsPlaced ==
  ASSUME NEW p, IsPlan(p), NEW n \in Relations(p), NEW i \in DOMAIN p.node[n].inputs
  PROVE  /\ p.node[n].inputs[i] \in Relations(p)
         /\ p.node[n].inputs[i] \in ToSet(Inside(p, n))
         /\ p.node[n].inputs[i] \in 1..(n - 1)
         /\ n \in 1..LastVisited(p) /\ n \in Nat
         /\ \A j \in DOMAIN p.node[n].inputs :
              p.node[n].inputs[i] = p.node[n].inputs[j] => i = j
<1> DEFINE node == p.node[n]
           exprs == VisitedExpressions(node)
<1>1. n \in 1..LastVisited(p) /\ LastVisited(p) \in Nat /\ n \in Nat
  BY RootsShape DEF Relations
<1>2. IsMessage(p, n)
  BY <1>1, RootsShape DEF IsPlan
<1>3. IsSequence(node.inputs) /\ node.inputs[i] \in ToSet(node.inputs)
  BY <1>2 DEF IsMessage, ToSet
<1>4. node.inputs[i] \in ToSet(Inside(p, n)) /\ node.inputs[i] \in 1..(n - 1)
  BY <1>1, <1>3, InsideShape
<1>5. node.inputs[i] \in Relations(p)
  <2>1. p.node[node.inputs[i]].kind \in RelationKinds
    BY <1>2, <1>3 DEF IsMessage
  <2>2. QED
    BY <1>1, <1>4, <2>1 DEF Relations
<1>6. ASSUME NEW j \in DOMAIN node.inputs, node.inputs[i] = node.inputs[j]
      PROVE  i = j
  <2>1. IsSequence(exprs)
    <3>1. IsSequence(<< >>)
      BY DEF IsSequence
    <3>2. QED
      BY <1>2, <3>1 DEF IsMessage, VisitedExpressions
  <2>2. Inside(p, n) = exprs \o node.inputs \/ Inside(p, n) = node.inputs \o exprs
    BY DEF Inside
  <2> HIDE DEF exprs, node
  <2>3. /\ Len(exprs) \in Nat /\ Len(node.inputs) \in Nat
        /\ i \in 1..Len(node.inputs) /\ j \in 1..Len(node.inputs)
    BY <1>3, <2>1, SequenceHas DEF node
  <2>4. /\ Len(exprs \o node.inputs) = Len(exprs) + Len(node.inputs)
        /\ Len(node.inputs \o exprs) = Len(exprs) + Len(node.inputs)
        /\ \A k \in 1..Len(node.inputs) : /\ (exprs \o node.inputs)[Len(exprs) + k] = node.inputs[k]
                                          /\ (node.inputs \o exprs)[k] = node.inputs[k]
    BY <1>3, <2>1, <2>3, SequenceBoth
  <2>5. \E k \in Nat : /\ Inside(p, n)[k + i] = node.inputs[i] /\ Inside(p, n)[k + j] = node.inputs[j]
                       /\ k + i \in DOMAIN Inside(p, n) /\ k + j \in DOMAIN Inside(p, n)
    <3>1. DOMAIN Inside(p, n) = 1..Len(Inside(p, n))
      BY <1>1, InsideShape
    <3>2. CASE Inside(p, n) = exprs \o node.inputs
      <4>1. /\ Len(exprs) + i \in 1..Len(Inside(p, n)) /\ Len(exprs) + j \in 1..Len(Inside(p, n))
        BY <2>3, <2>4, <3>2
      <4>2. /\ Inside(p, n)[Len(exprs) + i] = node.inputs[i]
            /\ Inside(p, n)[Len(exprs) + j] = node.inputs[j]
        BY <2>3, <2>4, <3>2
      <4>3. QED
        BY <2>3, <3>1, <4>1, <4>2
    <3>3. CASE Inside(p, n) = node.inputs \o exprs
      <4>1. /\ 0 + i \in 1..Len(Inside(p, n)) /\ 0 + j \in 1..Len(Inside(p, n))
            /\ 0 + i = i /\ 0 + j = j
        BY <2>3, <2>4, <3>3
      <4>2. Inside(p, n)[i] = node.inputs[i] /\ Inside(p, n)[j] = node.inputs[j]
        BY <2>3, <2>4, <3>3
      <4>3. QED
        BY <3>1, <4>1, <4>2
    <3>4. QED
      BY <2>2, <3>2, <3>3
  <2>6. PICK k \in Nat : /\ Inside(p, n)[k + i] = node.inputs[i] /\ Inside(p, n)[k + j] = node.inputs[j]
                         /\ k + i \in DOMAIN Inside(p, n) /\ k + j \in DOMAIN Inside(p, n)
    BY <2>5
  <2>7. ~(k + i < k + j) /\ ~(k + j < k + i)
    <3>1. /\ Inside(p, n)[k + i] = Inside(p, n)[k + j]
          /\ Inside(p, n)[k + i] \in 1..(n - 1)
      BY <1>1, <1>6, <2>6, InsideOrdered
    <3>2. /\ k + i < k + j => Inside(p, n)[k + i] < Inside(p, n)[k + j]
          /\ k + j < k + i => Inside(p, n)[k + j] < Inside(p, n)[k + i]
      BY <1>1, <2>6, InsideOrdered
    <3>3. QED
      BY <3>1, <3>2
  <2>8. QED
    BY <2>3, <2>7
<1>7. QED
  BY <1>1, <1>4, <1>5, <1>6

\* A relation is below a root, another relation or a subquery.
LEMMA RelationAbove ==
  ASSUME NEW p, IsPlan(p), NEW n \in Relations(p)
  PROVE  \/ \E r \in DOMAIN p.roots : p.roots[r].input = n
         \/ \E m \in Relations(p) : \E i \in DOMAIN p.node[m].inputs : p.node[m].inputs[i] = n
         \/ \E e \in SubqueriesOf(p) : p.node[e].inputs[1] = n
<1>1. n \in 1..LastVisited(p) /\ p.node[n].kind \in RelationKinds
  BY DEF Relations
<1>2. CASE n \in RootInputs(p)
  BY <1>2 DEF RootInputs
<1>3. CASE n \notin RootInputs(p)
  <2>1. PICK m \in 1..LastVisited(p) : n \in ToSet(Inside(p, m))
    BY <1>1, <1>3 DEF IsPlan, HaveOnePlace
  <2>2. PICK i \in DOMAIN p.node[m].inputs : p.node[m].inputs[i] = n
    BY <1>1, <2>1, InsideRelation DEF ToSet
  <2>3. CASE m \in Relations(p)
    BY <2>2, <2>3
  <2>4. CASE m \in SubqueriesOf(p)
    <3>1. IsMessage(p, m) /\ p.node[m].kind \in SubqueryKinds
      BY <2>1, <2>4, RootsShape DEF IsPlan, SubqueriesOf
    <3>2. DOMAIN p.node[m].inputs = 1..1
      BY <3>1, SequenceHas DEF IsMessage
    <3>3. i = 1
      BY <2>2, <3>2
    <3>4. QED
      BY <2>2, <2>4, <3>3
  <2>5. QED
    BY <2>1, <2>3, <2>4, InsideShape
<1>4. QED
  BY <1>2, <1>3

\* Two subqueries of a relation have different numbers.
LEMMA NumbersApart ==
  ASSUME NEW p, IsPlan(p), NEW t, IndexesOK(p, t, LastVisited(p)),
         NEW e \in SubqueriesOf(p), NEW f \in SubqueriesOf(p),
         Around(p, e) = Around(p, f), IndexOf(p, t, e) = IndexOf(p, t, f)
  PROVE  e = f
<1>1. /\ e \in Nat /\ f \in Nat /\ e <= LastVisited(p) /\ f <= LastVisited(p)
  BY SubqueryInput
<1>2. IndexOf(p, t, e) \in Int
  <2>1. IndexOf(p, t, e) \in 0..(e - 1)
    BY <1>1 DEF IndexesOK
  <2>2. QED
    BY <2>1
<1>3. ~(e < f) /\ ~(f < e)
  <2>1. ~(IndexOf(p, t, e) < IndexOf(p, t, f)) /\ ~(IndexOf(p, t, f) < IndexOf(p, t, e))
    BY <1>2
  <2>2. QED
    BY <1>1, <2>1 DEF IndexesOK
<1>4. QED
  BY <1>1, <1>3

AllLinked(p, t, links) ==
  /\ AllPlaces(p, t) /\ IndexesOK(p, t, LastVisited(p)) /\ DataOK(t, links)
  /\ ListsOK(p, t, links, LastVisited(p))
  /\ LinksOK(p, t, links, Relations(p), DOMAIN p.roots)

LEMMA SymbolPositions ==
  ASSUME NEW p, NEW t, AllPlaces(p, t)
  PROVE  /\ IsSequence(t.symbols) /\ Len(t.symbols) \in Nat
         /\ DOMAIN t.symbols = 1..Len(t.symbols) /\ NoSymbol \notin DOMAIN t.symbols
<1>1. IsSequence(t.symbols)
  BY DEF AllPlaces, SymbolsOK
<1>2. QED
  BY <1>1, SequenceHas DEF NoSymbol

\* The symbols lines are printed for.
LineSymbols(t) == {s \in DOMAIN t.symbols : t.symbols[s].type \in {"planRelation", "relation"}}

IsTie(p, t, a, b) ==
  \/ \E n \in Relations(p) : \E i \in DOMAIN p.node[n].inputs :
       a = SymbolOf(t, p.node[n].inputs[i]) /\ b = SymbolOf(t, n)
  \/ \E r \in DOMAIN p.roots : a = SymbolOf(t, p.roots[r].input) /\ b = RootSymbol(t, r)

\* What is tied to the symbol of a relation are its inputs, and to that of a
\* PlanRel its input.
LEMMA RelationTies ==
  ASSUME NEW p, IsPlan(p), NEW t, NEW links, AllLinked(p, t, links), NEW n \in Relations(p), NEW a
  PROVE  Tied(links, a, SymbolOf(t, n))
           <=> \E i \in DOMAIN p.node[n].inputs : a = SymbolOf(t, p.node[n].inputs[i])
<1> DEFINE link == links[SymbolOf(t, n)]
           inputs == InputsOf(p, t, n)
<1>1. /\ DOMAIN inputs = DOMAIN p.node[n].inputs
      /\ \A i \in DOMAIN inputs : inputs[i] = SymbolOf(t, p.node[n].inputs[i])
  BY DEF InputsOf
<1>2. \A i \in DOMAIN inputs : inputs[i] # NoSymbol
  <2>1. \A i \in DOMAIN inputs : inputs[i] \in DOMAIN t.symbols
    BY <1>1, InputsPlaced, SymbolsApart DEF AllLinked
  <2>2. NoSymbol \notin DOMAIN t.symbols
    BY SymbolPositions DEF AllLinked
  <2>3. QED
    BY <2>1, <2>2
<1>3. LinksOK(p, t, links, Relations(p), DOMAIN p.roots)
  BY DEF AllLinked
<1>4. CASE p.node[n].kind \in UnaryKinds
  <2>1. link.continuingPipeline = inputs[1] /\ link.newPipelines = << >>
    BY <1>3, <1>4 DEF LinksOK
  <2>2. DOMAIN inputs = {1}
    <3>1. IsMessage(p, n)
      BY RootsShape DEF Relations, IsPlan
    <3>2. Len(p.node[n].inputs) = 1
      BY <1>4, <3>1 DEF IsMessage
    <3>3. QED
      BY <1>1, <3>2, InputsShape
  <2>3. ToSet(<< >>) = {}
    BY DEF ToSet
  <2> HIDE DEF link, inputs
  <2>4. Tied(links, a, SymbolOf(t, n)) <=> a # NoSymbol /\ a = inputs[1]
    BY <2>1, <2>3 DEF Tied, link
  <2>5. Tied(links, a, SymbolOf(t, n)) <=> \E i \in DOMAIN inputs : a = inputs[i]
    BY <1>2, <2>2, <2>4
  <2>6. QED
    BY <1>1, <2>5
<1>5. CASE p.node[n].kind \notin UnaryKinds
  <2>1. link.continuingPipeline = NoSymbol /\ link.newPipelines = inputs
    BY <1>3, <1>5 DEF LinksOK
  <2> HIDE DEF link, inputs
  <2>2. Tied(links, a, SymbolOf(t, n)) <=> a # NoSymbol /\ a \in ToSet(inputs)
    BY <2>1 DEF Tied, link
  <2>3. Tied(links, a, SymbolOf(t, n)) <=> \E i \in DOMAIN inputs : a = inputs[i]
    BY <1>2, <2>2 DEF ToSet
  <2>4. QED
    BY <1>1, <2>3
<1>6. QED
  BY <1>4, <1>5

LEMMA RootTies ==
  ASSUME NEW p, IsPlan(p), NEW t, NEW links, AllLinked(p, t, links), NEW r \in DOMAIN p.roots, NEW a
  PROVE  /\ Tied(links, a, RootSymbol(t, r)) <=> a = SymbolOf(t, p.roots[r].input)
         /\ links[RootSymbol(t, r)].continuingPipeline = NoSymbol
         /\ links[RootSymbol(t, r)].subQueryPipelines = << >>
         /\ links[RootSymbol(t, r)].newPipelines = <<SymbolOf(t, p.roots[r].input)>>
<1>1. RootSymbol(t, r) \in DOMAIN links /\ t.symbols[RootSymbol(t, r)].type # "relation"
      /\ SymbolOf(t, p.roots[r].input) \in DOMAIN t.symbols
  BY SymbolsApart DEF AllLinked, DataOK
<1>2. NoSymbol \notin DOMAIN t.symbols
  BY SymbolPositions DEF AllLinked
<1>3. LinksOK(p, t, links, Relations(p), DOMAIN p.roots)
  BY DEF AllLinked
<1>4. /\ links[RootSymbol(t, r)].continuingPipeline = NoSymbol
      /\ links[RootSymbol(t, r)].subQueryPipelines = << >>
      /\ links[RootSymbol(t, r)].newPipelines = <<SymbolOf(t, p.roots[r].input)>>
  BY <1>1, <1>3 DEF LinksOK
<1>5. \A e : ToSet(<<e>>) = {e}
  BY DEF ToSet
<1>6. QED
  BY <1>1, <1>2, <1>4, <1>5 DEF Tied

LEMMA TiesAre ==
  ASSUME NEW p, IsPlan(p), NEW t, NEW links, AllLinked(p, t, links), NEW b \in LineSymbols(t), NEW a
  PROVE  Tied(links, a, b) <=> IsTie(p, t, a, b)
<1>1. AllPlaces(p, t)
  BY DEF AllLinked
<1>2. CASE t.symbols[b].type = "relation"
  <2>1. PICK n \in Relations(p) : b = SymbolOf(t, n)
    BY <1>1, <1>2, SymbolsApart DEF LineSymbols
  <2>2. \A m \in Relations(p) : SymbolOf(t, m) = b => m = n
    BY <1>1, <2>1, SymbolsApart
  <2>3. \A r \in DOMAIN p.roots : RootSymbol(t, r) # b
    BY <1>1, <1>2, SymbolsApart
  <2>4. QED
    BY <2>1, <2>2, <2>3, RelationTies DEF IsTie
<1>3. CASE t.symbols[b].type = "planRelation"
  <2>1. PICK r \in DOMAIN p.roots : b = RootSymbol(t, r)
    BY <1>1, <1>3, SymbolsApart DEF LineSymbols
  <2>2. \A q \in DOMAIN p.roots : RootSymbol(t, q) = b => q = r
    BY <1>1, <2>1, SymbolsApart
  <2>3. \A m \in Relations(p) : SymbolOf(t, m) # b
    BY <1>1, <1>3, SymbolsApart
  <2>4. QED
    BY <2>1, <2>2, <2>3, RootTies DEF IsTie
<1>4. QED
  BY <1>2, <1>3 DEF LineSymbols

LEMMA AroundIsRelation ==
  ASSUME NEW p, IsPlan(p)
  PROVE  \A e \in SubqueriesOf(p) : Around(p, e) \in Relations(p)
<1> DEFINE N == LastVisited(p)
           Bad == {e \in SubqueriesOf(p) : Around(p, e) \notin Relations(p)}
           Above == {N - e : e \in Bad}
<1> SUFFICES ASSUME Bad # {}
             PROVE  FALSE
  OBVIOUS
<1>1. N \in Nat /\ \A e \in SubqueriesOf(p) : e \in 1..N
  BY RootsShape DEF SubqueriesOf
<1> HIDE DEF N
<1>2. PICK z \in Above : \A v \in Above : z <= v
  <2>1. Above \in SUBSET Nat /\ Above # {}
    <3>1. \A e \in Bad : e \in 1..N
      BY <1>1
    <3> HIDE DEF Bad
    <3>2. QED
      BY <1>1, <3>1
  <2> HIDE DEF Above
  <2>2. QED
    BY <2>1, FirstIsLeast
<1>3. PICK e \in Bad : z = N - e
  OBVIOUS
<1>4. e \in SubqueriesOf(p) /\ Around(p, e) \notin Relations(p) /\ e \in 1..N
  BY <1>1
<1>5. e \notin RootInputs(p)
  <2>1. p.node[e].kind \in SubqueryKinds
    BY <1>4 DEF SubqueriesOf
  <2>2. \A n \in RootInputs(p) : p.node[n].kind \in RelationKinds
    BY DEF IsPlan
  <2>3. QED
    BY <2>1, <2>2, KindsDiffer
<1>6. PICK m \in 1..LastVisited(p) : e \in ToSet(Inside(p, m))
  BY <1>4, <1>5 DEF IsPlan, HaveOnePlace, N
<1>7. e < m /\ m \in Nat
  BY <1>1, <1>4, <1>6, InsideShape DEF N
<1>8. CASE m \in Relations(p)
  BY <1>4, <1>6, <1>8, AroundRelation
<1>9. CASE m \in SubqueriesOf(p)
  <2>1. Around(p, e) = Around(p, m)
    BY <1>6, <1>9, AroundSubquery
  <2>2. m \in Bad
    BY <1>4, <1>9, <2>1
  <2>3. N - m \in Above
    BY <2>2
  <2>4. z <= N - m
    <3> HIDE DEF Above
    <3>1. QED
      BY <1>2, <2>3
  <2>5. QED
    BY <1>1, <1>3, <1>4, <1>7, <2>4
<1>10. QED
  BY <1>6, <1>8, <1>9, InsideShape

\* The lists of subqueries: each subquery is in one, at the place of its number.
LEMMA SubqueryListed ==
  ASSUME NEW p, IsPlan(p), NEW t, NEW links, AllLinked(p, t, links)
  PROVE  /\ \A b \in LineSymbols(t) : \A i \in DOMAIN links[b].subQueryPipelines :
              \E e \in SubqueriesOf(p) :
                /\ b = SymbolOf(t, Around(p, e)) /\ links[b].subQueryPipelines[i] = Below(p, t, e)
                /\ IndexOf(p, t, e) = i - 1
         /\ \A e \in SubqueriesOf(p) :
              /\ SymbolOf(t, Around(p, e)) \in LineSymbols(t)
              /\ Below(p, t, e) \in ToSet(links[SymbolOf(t, Around(p, e))].subQueryPipelines)
<1>1. AllPlaces(p, t) /\ ListsOK(p, t, links, LastVisited(p)) /\ IndexesOK(p, t, LastVisited(p))
      /\ DataOK(t, links)
  BY DEF AllLinked
<1>2. ASSUME NEW b \in LineSymbols(t), NEW i \in DOMAIN links[b].subQueryPipelines
      PROVE  \E e \in SubqueriesOf(p) :
               /\ b = SymbolOf(t, Around(p, e)) /\ links[b].subQueryPipelines[i] = Below(p, t, e)
               /\ IndexOf(p, t, e) = i - 1
  <2>1. CASE t.symbols[b].type = "relation"
    <3>1. PICK n \in Relations(p) : b = SymbolOf(t, n)
      BY <1>1, <2>1, SymbolsApart DEF LineSymbols
    <3>2. QED
      BY <1>1, <3>1 DEF ListsOK
  <2>2. CASE t.symbols[b].type = "planRelation"
    <3>1. PICK r \in DOMAIN p.roots : b = RootSymbol(t, r)
      BY <1>1, <2>2, SymbolsApart DEF LineSymbols
    <3>2. links[b].subQueryPipelines = << >> /\ DOMAIN << >> = {}
      BY <3>1, RootTies
    <3>3. QED
      BY <3>2
  <2>3. QED
    BY <2>1, <2>2 DEF LineSymbols
<1>3. ASSUME NEW e \in SubqueriesOf(p)
      PROVE  /\ SymbolOf(t, Around(p, e)) \in LineSymbols(t)
             /\ Below(p, t, e) \in ToSet(links[SymbolOf(t, Around(p, e))].subQueryPipelines)
  <2> DEFINE n == Around(p, e)
             list == links[SymbolOf(t, n)].subQueryPipelines
  <2>1. n \in Relations(p)
    BY AroundIsRelation
  <2>2. SymbolOf(t, n) \in LineSymbols(t) /\ SymbolOf(t, n) \in DOMAIN links
    BY <1>1, <2>1, SymbolsApart DEF LineSymbols, DataOK
  <2>3. IsSequence(list)
    BY <1>1, <2>2 DEF DataOK
  <2>4. e <= LastVisited(p) /\ IndexOf(p, t, e) \in 0..(e - 1) /\ e \in Nat
    <3>1. e <= LastVisited(p) /\ e \in Nat
      BY SubqueryInput
    <3>2. QED
      BY <1>1, <3>1 DEF IndexesOK
  <2>5. IndexOf(p, t, e) < Len(list)
    BY <1>1, <2>1, <2>4 DEF ListsOK
  <2>6. IndexOf(p, t, e) + 1 \in DOMAIN list
    <3>1. DOMAIN list = 1..Len(list) /\ Len(list) \in Nat
      BY <2>3, SequenceHas
    <3> HIDE DEF list
    <3>2. QED
      BY <2>4, <2>5, <3>1
  <2>7. PICK f \in SubqueriesOf(p) :
          /\ Around(p, f) = n /\ list[IndexOf(p, t, e) + 1] = Below(p, t, f)
          /\ IndexOf(p, t, f) = (IndexOf(p, t, e) + 1) - 1
    BY <1>1, <2>1, <2>6 DEF ListsOK
  <2>8. IndexOf(p, t, f) = IndexOf(p, t, e)
    BY <2>4, <2>7
  <2>9. f = e
    BY <1>1, <2>7, <2>8, NumbersApart
  <2> HIDE DEF list, n
  <2>10. Below(p, t, e) \in ToSet(list)
    BY <2>6, <2>7, <2>9 DEF ToSet
  <2>11. QED
    BY <2>2, <2>10 DEF list, n
<1>4. QED
  BY <1>2, <1>3

\* A relation below a subquery is below nothing else.
LEMMA BelowNothingElse ==
  ASSUME NEW p, IsPlan(p), NEW t, NEW links, AllLinked(p, t, links), NEW e \in SubqueriesOf(p),
         NEW b
  PROVE  ~IsTie(p, t, Below(p, t, e), b)
<1> SUFFICES ASSUME IsTie(p, t, Below(p, t, e), b)
             PROVE  FALSE
  OBVIOUS
<1> DEFINE n == p.node[e].inputs[1]
<1>1. n \in Relations(p) /\ e \in 1..LastVisited(p)
  BY SubqueryInput
<1>2. \A m \in Relations(p) : SymbolOf(t, m) = Below(p, t, e) => m = n
  BY <1>1, SymbolsApart DEF AllLinked, Below
<1>3. n \in ToSet(Inside(p, e)) /\ n \in 1..LastVisited(p)
  <2>1. IsMessage(p, e) /\ p.node[e].kind \in SubqueryKinds
    BY <1>1, RootsShape DEF IsPlan, SubqueriesOf
  <2>2. 1 \in DOMAIN p.node[e].inputs
    BY <2>1, SequenceHas DEF IsMessage
  <2>3. n \in ToSet(p.node[e].inputs)
    BY <2>2 DEF ToSet
  <2>4. QED
    BY <1>1, <2>3, InsideShape DEF Relations
<1> HIDE DEF n
<1>4. CASE \E m \in Relations(p) : \E i \in DOMAIN p.node[m].inputs :
             Below(p, t, e) = SymbolOf(t, p.node[m].inputs[i])
  <2>1. PICK m \in Relations(p) : \E i \in DOMAIN p.node[m].inputs :
             Below(p, t, e) = SymbolOf(t, p.node[m].inputs[i])
    BY <1>4
  <2>2. PICK i \in DOMAIN p.node[m].inputs : Below(p, t, e) = SymbolOf(t, p.node[m].inputs[i])
    BY <2>1
  <2>3. n = p.node[m].inputs[i] /\ n \in ToSet(Inside(p, m)) /\ m \in 1..LastVisited(p)
    BY <1>2, <2>2, InputsPlaced
  <2>4. m = e
    BY <1>1, <1>3, <2>3, OnePlace
  <2>5. QED
    BY <2>4, KindsDiffer DEF Relations, SubqueriesOf
<1>5. CASE \E r \in DOMAIN p.roots : Below(p, t, e) = SymbolOf(t, p.roots[r].input)
  <2>1. PICK r \in DOMAIN p.roots : Below(p, t, e) = SymbolOf(t, p.roots[r].input)
    BY <1>5
  <2>2. n = p.roots[r].input /\ n \in RootInputs(p)
    BY <1>2, <2>1, RootsOrdered, RootsShape
  <2>3. QED
    BY <1>1, <1>3, <2>2 DEF IsPlan, HaveOnePlace
<1>6. QED
  BY <1>4, <1>5 DEF IsTie

\* A relation is below one other, or below a root.
LEMMA TiedOnce ==
  ASSUME NEW p, IsPlan(p), NEW t, NEW links, AllLinked(p, t, links), NEW a, NEW b, NEW c,
         IsTie(p, t, a, b), IsTie(p, t, a, c)
  PROVE  b = c
<1>1. AllPlaces(p, t)
  BY DEF AllLinked
<1> DEFINE Within(n, d) == \/ \E m \in Relations(p) : \E i \in DOMAIN p.node[m].inputs :
                                 n = p.node[m].inputs[i] /\ d = SymbolOf(t, m)
                           \/ \E r \in DOMAIN p.roots : n = p.roots[r].input /\ d = RootSymbol(t, r)
<1>2. ASSUME NEW d, IsTie(p, t, a, d)
      PROVE  \E n \in Relations(p) : a = SymbolOf(t, n) /\ Within(n, d)
  <2>1. CASE \E m \in Relations(p) : \E i \in DOMAIN p.node[m].inputs :
               a = SymbolOf(t, p.node[m].inputs[i]) /\ d = SymbolOf(t, m)
    BY <2>1, InputsPlaced
  <2>2. CASE \E r \in DOMAIN p.roots : a = SymbolOf(t, p.roots[r].input) /\ d = RootSymbol(t, r)
    BY <2>2, RootsShape
  <2>3. QED
    BY <1>2, <2>1, <2>2 DEF IsTie
<1>3. PICK n \in Relations(p) : a = SymbolOf(t, n) /\ Within(n, b)
  BY <1>2
<1>4. PICK k \in Relations(p) : a = SymbolOf(t, k) /\ Within(k, c)
  BY <1>2
<1>5. n = k
  <2>1. SymbolOf(t, n) = SymbolOf(t, k)
    <3> HIDE DEF Within
    <3>1. QED
      BY <1>3, <1>4
  <2>2. QED
    BY <1>1, <2>1, SymbolsApart
<1>6. n \in 1..LastVisited(p)
  BY DEF Relations
<1>7. ASSUME NEW d, Within(n, d), NEW r \in DOMAIN p.roots, n = p.roots[r].input
      PROVE  d = RootSymbol(t, r)
  <2>1. CASE \E m \in Relations(p) : \E i \in DOMAIN p.node[m].inputs : n = p.node[m].inputs[i]
    <3>1. PICK m \in Relations(p) : \E i \in DOMAIN p.node[m].inputs : n = p.node[m].inputs[i]
      BY <2>1
    <3>2. n \in ToSet(Inside(p, m)) /\ m \in 1..LastVisited(p)
      BY <3>1, InputsPlaced
    <3>3. n \in RootInputs(p)
      BY <1>7, RootsOrdered
    <3>4. QED
      BY <1>6, <3>2, <3>3 DEF IsPlan, HaveOnePlace
  <2>2. CASE \E q \in DOMAIN p.roots : n = p.roots[q].input /\ d = RootSymbol(t, q)
    <3>1. PICK q \in DOMAIN p.roots : n = p.roots[q].input /\ d = RootSymbol(t, q)
      BY <2>2
    <3>2. ~(q < r) /\ ~(r < q) /\ q \in Nat /\ r \in Nat
      <4>1. /\ q < r => p.roots[q].input < p.roots[r].input
            /\ r < q => p.roots[r].input < p.roots[q].input
            /\ q \in Nat /\ r \in Nat
        BY RootsOrdered, RootsShape
      <4>2. n \in Nat
        BY <1>6, RootsShape
      <4>3. QED
        BY <1>7, <3>1, <4>1, <4>2
    <3>3. q = r
      BY <3>2
    <3>4. QED
      BY <3>1, <3>3
  <2>3. QED
    BY <1>7, <2>1, <2>2
<1>8. ASSUME NEW d, Within(n, d), NEW m \in Relations(p), NEW i \in DOMAIN p.node[m].inputs,
             n = p.node[m].inputs[i]
      PROVE  d = SymbolOf(t, m)
  <2>1. n \in ToSet(Inside(p, m)) /\ m \in 1..LastVisited(p)
    BY <1>8, InputsPlaced
  <2>2. \A r \in DOMAIN p.roots : n # p.roots[r].input
    <3>1. n \notin RootInputs(p)
      BY <1>6, <2>1 DEF IsPlan, HaveOnePlace
    <3>2. QED
      BY <3>1, RootsOrdered
  <2>3. PICK k2 \in Relations(p) : \E j \in DOMAIN p.node[k2].inputs :
               n = p.node[k2].inputs[j] /\ d = SymbolOf(t, k2)
    BY <1>8, <2>2
  <2>4. n \in ToSet(Inside(p, k2)) /\ k2 \in 1..LastVisited(p) /\ d = SymbolOf(t, k2)
    BY <2>3, InputsPlaced
  <2>5. k2 = m
    BY <2>1, <2>4, OnePlace
  <2>6. QED
    BY <2>4, <2>5
<1>9. CASE \E r \in DOMAIN p.roots : n = p.roots[r].input
  <2>1. PICK r \in DOMAIN p.roots : n = p.roots[r].input
    BY <1>9
  <2>2. Within(n, b) /\ Within(n, c)
    <3> HIDE DEF Within
    <3>1. QED
      BY <1>3, <1>4, <1>5
  <2> HIDE DEF Within
  <2>3. b = RootSymbol(t, r) /\ c = RootSymbol(t, r)
    BY <1>7, <2>1, <2>2
  <2>4. QED
    BY <2>3
<1>10. CASE \E m \in Relations(p) : \E i \in DOMAIN p.node[m].inputs : n = p.node[m].inputs[i]
  BY <1>3, <1>4, <1>5, <1>8, <1>10
<1>11. QED
  BY <1>3, <1>9, <1>10

LEMMA PlanIsForest ==
  ASSUME NEW p, IsPlan(p), NEW t, NEW links, AllLinked(p, t, links)
  PROVE  IsForest(links, LineSymbols(t))
<1> DEFINE B == LineSymbols(t)
<1>1. /\ AllPlaces(p, t) /\ ListsOK(p, t, links, LastVisited(p)) /\ DataOK(t, links)
      /\ IndexesOK(p, t, LastVisited(p)) /\ LinksOK(p, t, links, Relations(p), DOMAIN p.roots)
  BY DEF AllLinked
<1>2. B \subseteq DOMAIN t.symbols /\ DOMAIN t.symbols \subseteq Nat /\ NoSymbol \notin DOMAIN t.symbols
      /\ DOMAIN links = DOMAIN t.symbols
  BY <1>1, SymbolPositions DEF LineSymbols, DataOK
<1>3. /\ \A n \in Relations(p) : SymbolOf(t, n) \in B
      /\ \A r \in DOMAIN p.roots : RootSymbol(t, r) \in B /\ SymbolOf(t, p.roots[r].input) \in B
      /\ \A b \in B : \/ \E n \in Relations(p) : b = SymbolOf(t, n)
                      \/ \E r \in DOMAIN p.roots : b = RootSymbol(t, r)
  BY <1>1, SymbolsApart DEF LineSymbols
<1>4. ASSUME NEW b \in B
      PROVE  /\ \/ links[b].continuingPipeline = NoSymbol
                \/ links[b].continuingPipeline \in B /\ links[b].newPipelines = << >>
             /\ IsSequence(links[b].newPipelines)
             /\ ToSet(links[b].newPipelines) \subseteq B
             /\ \A i, j \in DOMAIN links[b].newPipelines :
                  links[b].newPipelines[i] = links[b].newPipelines[j] => i = j
  <2>1. IsSequence(<< >>) /\ ToSet(<< >>) = {} /\ DOMAIN << >> = {}
    BY DEF IsSequence, ToSet
  <2>2. ASSUME NEW n \in Relations(p), b = SymbolOf(t, n)
        PROVE  /\ \/ links[b].continuingPipeline = NoSymbol
                  \/ links[b].continuingPipeline \in B /\ links[b].newPipelines = << >>
               /\ IsSequence(links[b].newPipelines)
               /\ ToSet(links[b].newPipelines) \subseteq B
               /\ \A i, j \in DOMAIN links[b].newPipelines :
                    links[b].newPipelines[i] = links[b].newPipelines[j] => i = j
    <3> DEFINE inputs == InputsOf(p, t, n)
    <3>1. /\ IsSequence(inputs) /\ DOMAIN inputs = DOMAIN p.node[n].inputs
          /\ \A i \in DOMAIN inputs : inputs[i] = SymbolOf(t, p.node[n].inputs[i])
      BY InputsShape DEF InputsOf
    <3>2. \A i \in DOMAIN inputs : inputs[i] \in B
      BY <1>3, <3>1, InputsPlaced
    <3>3. \A i, j \in DOMAIN inputs : inputs[i] = inputs[j] => i = j
      <4>1. \A i, j \in DOMAIN inputs : inputs[i] = inputs[j]
              => p.node[n].inputs[i] = p.node[n].inputs[j]
        BY <1>1, <3>1, InputsPlaced, SymbolsApart
      <4>2. QED
        BY <3>1, <4>1, InputsPlaced
    <3>4. CASE p.node[n].kind \in UnaryKinds
      <4>1. links[b].continuingPipeline = inputs[1] /\ links[b].newPipelines = << >>
        BY <1>1, <2>2, <3>4 DEF LinksOK
      <4>2. 1 \in DOMAIN inputs
        <5>1. IsMessage(p, n)
          BY RootsShape DEF Relations, IsPlan
        <5>2. Len(p.node[n].inputs) = 1
          BY <3>4, <5>1 DEF IsMessage
        <5>3. QED
          BY <3>1, <5>2, InputsShape
      <4>3. QED
        BY <2>1, <3>2, <4>1, <4>2
    <3>5. CASE p.node[n].kind \notin UnaryKinds
      <4>1. links[b].continuingPipeline = NoSymbol /\ links[b].newPipelines = inputs
        BY <1>1, <2>2, <3>5 DEF LinksOK
      <4> HIDE DEF inputs
      <4>2. ToSet(inputs) \subseteq B
        BY <3>2 DEF ToSet
      <4>3. QED
        BY <3>1, <3>3, <4>1, <4>2
    <3>6. QED
      BY <3>4, <3>5
  <2>3. ASSUME NEW r \in DOMAIN p.roots, b = RootSymbol(t, r)
        PROVE  /\ \/ links[b].continuingPipeline = NoSymbol
                  \/ links[b].continuingPipeline \in B /\ links[b].newPipelines = << >>
               /\ IsSequence(links[b].newPipelines)
               /\ ToSet(links[b].newPipelines) \subseteq B
               /\ \A i, j \in DOMAIN links[b].newPipelines :
                    links[b].newPipelines[i] = links[b].newPipelines[j] => i = j
    <3>1. /\ links[b].continuingPipeline = NoSymbol
          /\ links[b].newPipelines = <<SymbolOf(t, p.roots[r].input)>>
      BY <2>3, RootTies
    <3>2. \A e : IsSequence(<<e>>) /\ ToSet(<<e>>) = {e} /\ DOMAIN <<e>> = {1}
      BY DEF IsSequence, ToSet
    <3>3. QED
      BY <1>3, <3>1, <3>2
  <2>4. QED
    BY <1>3, <2>2, <2>3
<1>5. ASSUME NEW b \in B
      PROVE  IsSequence(links[b].subQueryPipelines) /\ ToSet(links[b].subQueryPipelines) \subseteq B
  <2>1. IsSequence(links[b].subQueryPipelines)
    BY <1>1, <1>2 DEF DataOK
  <2>2. \A i \in DOMAIN links[b].subQueryPipelines : links[b].subQueryPipelines[i] \in B
    <3>1. \A i \in DOMAIN links[b].subQueryPipelines : \E e \in SubqueriesOf(p) :
             links[b].subQueryPipelines[i] = Below(p, t, e)
      BY SubqueryListed
    <3>2. \A e \in SubqueriesOf(p) : Below(p, t, e) \in B
      BY <1>3, SubqueryInput DEF Below
    <3>3. QED
      BY <3>1, <3>2
  <2>3. QED
    BY <2>1, <2>2 DEF ToSet
<1>6. \A b \in B : \A a : Tied(links, a, b) <=> IsTie(p, t, a, b)
  BY TiesAre
<1>7. \A a, b \in B : Tied(links, a, b) => a < b
  <2>1. ASSUME NEW a \in B, NEW b \in B, IsTie(p, t, a, b)
        PROVE  a < b
    <3>1. CASE \E n \in Relations(p) : \E i \in DOMAIN p.node[n].inputs :
                 a = SymbolOf(t, p.node[n].inputs[i]) /\ b = SymbolOf(t, n)
      <4>1. PICK n \in Relations(p) : \E i \in DOMAIN p.node[n].inputs :
                 a = SymbolOf(t, p.node[n].inputs[i]) /\ b = SymbolOf(t, n)
        BY <3>1
      <4>2. PICK i \in DOMAIN p.node[n].inputs :
                 a = SymbolOf(t, p.node[n].inputs[i]) /\ b = SymbolOf(t, n)
        BY <4>1
      <4>3. p.node[n].inputs[i] \in Relations(p) /\ p.node[n].inputs[i] < n
        BY InputsPlaced
      <4>4. QED
        BY <1>1, <4>2, <4>3, SymbolsApart
    <3>2. CASE \E r \in DOMAIN p.roots : a = SymbolOf(t, p.roots[r].input) /\ b = RootSymbol(t, r)
      BY <1>1, <3>2, SymbolsApart
    <3>3. QED
      BY <2>1, <3>1, <3>2 DEF IsTie
  <2>2. QED
    BY <1>6, <2>1
<1>8. \A a, b, c \in B : Tied(links, a, b) /\ Tied(links, a, c) => b = c
  BY <1>6, TiedOnce
<1>9. ASSUME NEW b \in B, NEW c \in B, NEW i \in DOMAIN links[b].subQueryPipelines
      PROVE  /\ ~Tied(links, links[b].subQueryPipelines[i], c)
             /\ \A j \in DOMAIN links[c].subQueryPipelines :
                  links[b].subQueryPipelines[i] = links[c].subQueryPipelines[j] => b = c /\ i = j
  <2>1. PICK e \in SubqueriesOf(p) :
          /\ b = SymbolOf(t, Around(p, e)) /\ links[b].subQueryPipelines[i] = Below(p, t, e)
          /\ IndexOf(p, t, e) = i - 1
    BY SubqueryListed
  <2>2. ~Tied(links, links[b].subQueryPipelines[i], c)
    BY <1>6, <2>1, BelowNothingElse
  <2>3. ASSUME NEW j \in DOMAIN links[c].subQueryPipelines,
               links[b].subQueryPipelines[i] = links[c].subQueryPipelines[j]
        PROVE  b = c /\ i = j
    <3>1. PICK f \in SubqueriesOf(p) :
            /\ c = SymbolOf(t, Around(p, f)) /\ links[c].subQueryPipelines[j] = Below(p, t, f)
            /\ IndexOf(p, t, f) = j - 1
      BY SubqueryListed
    <3>2. p.node[f].inputs[1] = p.node[e].inputs[1]
      <4>1. SymbolOf(t, p.node[f].inputs[1]) = SymbolOf(t, p.node[e].inputs[1])
        BY <2>1, <2>3, <3>1 DEF Below
      <4>2. p.node[f].inputs[1] \in Relations(p) /\ p.node[e].inputs[1] \in Relations(p)
        BY SubqueryInput
      <4>3. QED
        BY <1>1, <4>1, <4>2, SymbolsApart
    <3>3. f = e
      BY <3>2, SubqueryInput
    <3>4. i \in Nat /\ j \in Nat
      BY <1>5, SequenceHas
    <3>5. QED
      BY <2>1, <3>1, <3>3, <3>4
  <2>4. QED
    BY <2>2, <2>3
<1>10. ASSUME NEW b \in B, links[b].continuingPipeline # NoSymbol
       PROVE  \E c \in B : Tied(links, b, c) \/ b \in ToSet(links[c].subQueryPipelines)
  <2>1. PICK n \in Relations(p) : b = SymbolOf(t, n)
    <3>1. \A r \in DOMAIN p.roots : links[RootSymbol(t, r)].continuingPipeline = NoSymbol
      BY RootTies
    <3>2. \A r \in DOMAIN p.roots : b # RootSymbol(t, r)
      BY <1>10, <3>1
    <3>3. \/ \E n \in Relations(p) : b = SymbolOf(t, n)
          \/ \E r \in DOMAIN p.roots : b = RootSymbol(t, r)
      BY <1>3
    <3>4. QED
      BY <3>2, <3>3
  <2>2. CASE \E r \in DOMAIN p.roots : p.roots[r].input = n
    <3>1. PICK r \in DOMAIN p.roots : p.roots[r].input = n
      BY <2>2
    <3>2. IsTie(p, t, b, RootSymbol(t, r)) /\ RootSymbol(t, r) \in B
      BY <1>3, <2>1, <3>1 DEF IsTie
    <3>3. QED
      BY <1>6, <3>2
  <2>3. CASE \E m \in Relations(p) : \E i \in DOMAIN p.node[m].inputs : p.node[m].inputs[i] = n
    <3>1. PICK m \in Relations(p) : \E i \in DOMAIN p.node[m].inputs : p.node[m].inputs[i] = n
      BY <2>3
    <3>2. IsTie(p, t, b, SymbolOf(t, m)) /\ SymbolOf(t, m) \in B
      BY <1>3, <2>1, <3>1 DEF IsTie
    <3>3. QED
      BY <1>6, <3>2
  <2>4. CASE \E e \in SubqueriesOf(p) : p.node[e].inputs[1] = n
    <3>1. PICK e \in SubqueriesOf(p) : p.node[e].inputs[1] = n
      BY <2>4
    <3>2. b = Below(p, t, e)
      BY <2>1, <3>1 DEF Below
    <3>3. QED
      BY <3>2, SubqueryListed
  <2>5. QED
    BY <2>2, <2>3, <2>4, RelationAbove
<1> HIDE DEF B
<1>11. IsForest(links, B)
  BY <1>2, <1>4, <1>5, <1>7, <1>8, <1>9, <1>10 DEF IsForest
<1>12. QED
  BY <1>11 DEF B

-----------------------------------------------------------------------------
(***************************************************************************)
(* The pipelines section.                                                  *)
(***************************************************************************)

\* Some of the symbols, in the order of the table.
InOrder(t, types, list) ==
  /\ IsSequence(list)
  /\ \A i \in DOMAIN list : list[i] \in DOMAIN t.symbols /\ t.symbols[list[i]].type \in types
  /\ \A s \in DOMAIN t.symbols : t.symbols[s].type \in types => \E i \in DOMAIN list : list[i] = s
  /\ \A i, j \in DOMAIN list : i < j => list[i] < list[j]

LEMMA SymbolsInOrder ==
  ASSUME IsSequence(table.symbols), NEW types
  PROVE  InOrder(table, types, SymbolsOfType(types))
<1> DEFINE parts == [s \in DOMAIN table.symbols |->
                       IF table.symbols[s].type \in types THEN <<s>> ELSE << >>]
           n == Len(table.symbols)
<1>1. n \in Nat /\ DOMAIN table.symbols = 1..n
  BY SequenceHas
<1>2. IsSequence(parts) /\ Len(parts) = n
  <2>1. parts = [s \in 1..n |-> parts[s]]
    BY <1>1
  <2> HIDE DEF parts, n
  <2>2. QED
    BY <1>1, <2>1, ListIsSequence
<1>3. ASSUME NEW s \in 1..n
      PROVE  /\ IsSequence(parts[s])
             /\ IF table.symbols[s].type \in types
                THEN DOMAIN parts[s] = {1} /\ parts[s][1] = s ELSE DOMAIN parts[s] = {}
  <2>1. \A e : IsSequence(<<e>>) /\ DOMAIN <<e>> = {1} /\ <<e>>[1] = e
    BY DEF IsSequence, ToSet
  <2>2. IsSequence(<< >>) /\ DOMAIN << >> = {}
    BY DEF IsSequence, ToSet
  <2>3. parts[s] = IF table.symbols[s].type \in types THEN <<s>> ELSE << >>
    BY <1>1
  <2> HIDE DEF parts, n
  <2>4. CASE table.symbols[s].type \in types
    BY <2>1, <2>3, <2>4
  <2>5. CASE table.symbols[s].type \notin types
    BY <2>2, <2>3, <2>5
  <2>6. QED
    BY <2>4, <2>5
<1>4. SymbolsOfType(types) = FlattenSeq(parts)
  BY DEF SymbolsOfType
<1> DEFINE list == FlattenSeq(parts)
<1> HIDE DEF parts, n
<1>5. DOMAIN parts = 1..n /\ \A a \in 1..Len(parts) : IsSequence(parts[a])
  BY <1>2, <1>3, SequenceHas
<1>6. /\ IsSequence(list)
      /\ \A i \in DOMAIN list : \E a \in DOMAIN parts : \E k \in DOMAIN parts[a] :
           list[i] = parts[a][k]
      /\ \A a \in DOMAIN parts : \A k \in DOMAIN parts[a] : \E i \in DOMAIN list :
           list[i] = parts[a][k]
  BY <1>2, <1>5, FlatHas
<1>7. \A i, j \in DOMAIN list : i < j => list[i] < list[j]
  <2>1. \A a \in 1..Len(parts) : \A i, j \in DOMAIN parts[a] :
          i < j => parts[a][i] < parts[a][j]
    BY <1>2, <1>3
  <2>2. \A a, b \in 1..Len(parts) : a < b =>
          \A i \in DOMAIN parts[a] : \A j \in DOMAIN parts[b] : parts[a][i] < parts[b][j]
    BY <1>2, <1>3
  <2>3. QED
    BY <1>2, <1>5, <2>1, <2>2, FlatIncreases
<1> HIDE DEF list
<1>8. \A i \in DOMAIN list : list[i] \in DOMAIN table.symbols /\ table.symbols[list[i]].type \in types
  <2>1. ASSUME NEW i \in DOMAIN list
        PROVE  list[i] \in DOMAIN table.symbols /\ table.symbols[list[i]].type \in types
    <3>1. PICK a \in DOMAIN parts : \E k \in DOMAIN parts[a] : list[i] = parts[a][k]
      BY <1>6
    <3>2. QED
      BY <1>1, <1>3, <1>5, <3>1
  <2>2. QED
    BY <2>1
<1>9. \A s \in DOMAIN table.symbols :
        table.symbols[s].type \in types => \E i \in DOMAIN list : list[i] = s
  BY <1>1, <1>3, <1>5, <1>6
<1>10. InOrder(table, types, list)
  BY <1>6, <1>7, <1>8, <1>9 DEF InOrder
<1>11. QED
  BY <1>4, <1>10 DEF list

LEMMA LinkedTables ==
  ASSUME NumberingInv, TablesInv, Linked
  PROVE  /\ IsPlan(plan) /\ AllLinked(plan, table, data) /\ NamesOK(plan, table)
         /\ IsForest(data, LineSymbols(table))
<1>1. IsPlan(plan) /\ DataOK(table, data)
  BY ThePlan DEF NumberingInv
<1>2. /\ SymbolsOK(plan, table, LastVisited(plan)) /\ IndexesOK(plan, table, LastVisited(plan))
      /\ ListsOK(plan, table, data, LastVisited(plan))
  BY DEF NumberingInv, PassInv, Linked, AllSymbols
<1>3. /\ NamesOK(plan, table) /\ PlacesOK(plan, table, Len(plan.roots))
      /\ LinksOK(plan, table, data, Relations(plan), DOMAIN plan.roots)
  BY DEF TablesInv, Linked
<1>4. AllLinked(plan, table, data)
  BY <1>1, <1>2, <1>3 DEF AllLinked, AllPlaces
<1>5. QED
  BY <1>1, <1>3, <1>4, PlanIsForest

\* pipelineToPath ends, and gives the path that begins at a symbol.
LEMMA PathsFound ==
  ASSUME IsPlan(plan), AllLinked(plan, table, data), IsForest(data, LineSymbols(table))
  PROVE  \A s \in LineSymbols(table) : IsPath(data, LineSymbols(table), Path(s), s)
<1> DEFINE N == Len(table.symbols)
           f == CHOOSE g : g = [i \in DOMAIN data |->
                  IF data[i].continuingPipeline = NoSymbol
                  THEN <<i>> ELSE <<i>> \o g[data[i].continuingPipeline]]
           B == LineSymbols(table)
<1>1. N \in Nat /\ DOMAIN data = 1..N /\ DOMAIN table.symbols = 1..N
  BY SymbolPositions DEF AllLinked, DataOK
<1>2. \A i \in 1..N : \/ data[i].continuingPipeline = NoSymbol
                      \/ data[i].continuingPipeline \in 1..(i - 1)
  <2>1. ASSUME NEW i \in 1..N, data[i].continuingPipeline # NoSymbol
        PROVE  data[i].continuingPipeline \in 1..(i - 1)
    <3>1. table.symbols[i].type = "relation"
      BY <1>1, <2>1 DEF AllLinked, LinksOK
    <3>2. i \in B
      BY <1>1, <3>1 DEF LineSymbols
    <3>3. data[i].continuingPipeline \in B
      BY <2>1, <3>2 DEF IsForest
    <3>4. Tied(data, data[i].continuingPipeline, i)
      BY <2>1 DEF Tied
    <3>5. data[i].continuingPipeline < i
      BY <3>2, <3>3, <3>4 DEF IsForest
    <3>6. data[i].continuingPipeline \in 1..N
      BY <1>1, <3>3 DEF LineSymbols
    <3> HIDE DEF N, B
    <3>7. QED
      BY <1>1, <3>5, <3>6
  <2>2. QED
    BY <2>1
<1>3. f = [i \in DOMAIN data |-> IF data[i].continuingPipeline = NoSymbol
                                 THEN <<i>> ELSE <<i>> \o f[data[i].continuingPipeline]]
  <2> HIDE DEF N
  <2>1. \E g : IsPaths(g, data, N)
    BY <1>1, <1>2, PathsExist
  <2>2. \E g : g = [i \in DOMAIN data |->
                  IF data[i].continuingPipeline = NoSymbol
                  THEN <<i>> ELSE <<i>> \o g[data[i].continuingPipeline]]
    BY <1>1, <2>1 DEF IsPaths
  <2>3. QED
    BY <2>2
<1>4. \A s : Path(s) = f[s]
  BY DEF Path
<1> HIDE DEF f
<1>5. \A s \in B : f[s] = IF data[s].continuingPipeline = NoSymbol
                          THEN <<s>> ELSE <<s>> \o f[data[s].continuingPipeline]
  <2>1. B \subseteq DOMAIN data
    BY <1>1 DEF LineSymbols
  <2> HIDE DEF B
  <2>2. QED
    BY <1>3, <2>1
<1>6. \A s \in B : IsPath(data, B, f[s], s)
  <2> HIDE DEF B
  <2>1. IsForest(data, B)
    BY DEF B
  <2>2. QED
    BY <1>5, <2>1, PathsAre
<1>7. QED
  BY <1>4, <1>6

\* The k-th line of symbol s as it is stored, and all of them.
StoredLine(s, k) ==
  IF k <= Len(data[s].newPipelines)
  THEN <<s>> \o Path(data[s].newPipelines[k])
  ELSE Path(data[s].subQueryPipelines[k - Len(data[s].newPipelines)])

StoredLines == [s \in LineSymbols(table) |-> [k \in Lines(data, s) |-> StoredLine(s, k)]]

LEMMA StoredAreLines ==
  ASSUME IsPlan(plan), AllLinked(plan, table, data), IsForest(data, LineSymbols(table))
  PROVE  AreLines(data, LineSymbols(table), StoredLines)
<1> DEFINE B == LineSymbols(table)
<1>1. \A s \in B : IsPath(data, B, Path(s), s)
  BY PathsFound
<1>2. IsForest(data, B)
  OBVIOUS
<1> SUFFICES ASSUME NEW s \in B, NEW k \in Lines(data, s)
             PROVE  IsLine(data, B, StoredLine(s, k), s, k)
  BY DEF AreLines, StoredLines
<1> HIDE DEF B
<1> DEFINE new == data[s].newPipelines
           subs == data[s].subQueryPipelines
<1>3. /\ IsSequence(new) /\ IsSequence(subs) /\ Len(new) \in Nat /\ Len(subs) \in Nat
      /\ \A i \in 1..Len(new) : new[i] \in B
      /\ \A i \in 1..Len(subs) : subs[i] \in B
  <2>1. IsSequence(new) /\ IsSequence(subs) /\ ToSet(new) \union ToSet(subs) \subseteq B
    BY <1>2 DEF IsForest
  <2>2. QED
    BY <2>1, SequenceHas
<1>4. k \in 1..(Len(new) + Len(subs))
  BY DEF Lines
<1>5. CASE k <= Len(new)
  <2> DEFINE P == Path(new[k])
             x == <<s>> \o P
  <2>1. k \in 1..Len(new)
    BY <1>3, <1>4, <1>5
  <2>2. IsPath(data, B, P, new[k])
    BY <1>1, <1>3, <2>1
  <2>3. StoredLine(s, k) = x
    BY <1>5 DEF StoredLine
  <2> HIDE DEF P
  <2>4. IsSequence(P) /\ Len(P) \in Nat \ {0} /\ P[1] = new[k]
        /\ \A j \in 1..Len(P) : P[j] \in B /\ Continues(data, P, j)
    BY <2>2 DEF IsPath
  <2>5. /\ IsSequence(x) /\ Len(x) = Len(P) + 1 /\ x[1] = s
        /\ \A j \in 1..Len(P) : x[j + 1] = P[j]
    BY <2>4, OneMore
  <2> HIDE DEF x, new, subs
  <2>6. x[2] = new[k]
    BY <2>4, <2>5
  <2>7. ASSUME NEW j \in 2..Len(x)
        PROVE  x[j] \in B /\ Continues(data, x, j)
    <3>1. j - 1 \in 1..Len(P) /\ (j - 1) + 1 = j /\ (j < Len(x) <=> j - 1 < Len(P))
      BY <2>4, <2>5
    <3>2. x[j] = P[j - 1] /\ P[j - 1] \in B /\ Continues(data, P, j - 1)
      BY <2>4, <2>5, <3>1
    <3>3. j < Len(x) => x[j + 1] = P[j]
      <4>1. j < Len(x) => j \in 1..Len(P)
        BY <2>4, <2>5
      <4>2. QED
        BY <2>5, <4>1
    <3>4. QED
      BY <3>1, <3>2, <3>3 DEF Continues
  <2>8. \A j \in 1..Len(x) : x[j] \in B
    <3>1. \A j \in 1..Len(x) : j = 1 \/ j \in 2..Len(x)
      BY <2>4, <2>5
    <3>2. QED
      BY <2>5, <2>7, <3>1
  <2>9. Len(x) \in Nat \ {0} /\ Len(x) >= 2
    BY <2>4, <2>5
  <2>10. IsLine(data, B, x, s, k)
    BY <1>5, <2>5, <2>6, <2>7, <2>8, <2>9 DEF IsLine, new
  <2>11. QED
    BY <2>3, <2>10
<1>6. CASE ~(k <= Len(new))
  <2> DEFINE i == k - Len(new)
             P == Path(subs[i])
  <2>1. i \in 1..Len(subs)
    <3> HIDE DEF new, subs
    <3>1. QED
      BY <1>3, <1>4, <1>6
  <2>2. StoredLine(s, k) = P
    BY <1>6 DEF StoredLine
  <2>3. IsPath(data, B, P, subs[i])
    BY <1>1, <1>3, <2>1
  <2> HIDE DEF P
  <2>4. IsLine(data, B, P, s, k)
    BY <1>6, <2>3 DEF IsPath, IsLine
  <2>5. QED
    BY <2>2, <2>4
<1>7. QED
  BY <1>5, <1>6

\* The lines of a symbol are those stored, printed from their other end.
LEMMA LinesPrinted ==
  ASSUME IsPlan(plan), AllLinked(plan, table, data), IsForest(data, LineSymbols(table)),
         NEW s \in LineSymbols(table)
  PROVE  /\ IsSequence(LinesOf(s)) /\ DOMAIN LinesOf(s) = Lines(data, s)
         /\ \A k \in Lines(data, s) : LinesOf(s)[k] = PrintedLine(table, StoredLines[s][k])
<1> DEFINE new == data[s].newPipelines
           subs == data[s].subQueryPipelines
           u == [i \in DOMAIN new |-> Line(<<s>> \o Path(new[i]))]
           v == [i \in DOMAIN subs |-> Line(Path(subs[i]))]
<1>1. /\ IsSequence(new) /\ IsSequence(subs) /\ Len(new) \in Nat /\ Len(subs) \in Nat
      /\ DOMAIN new = 1..Len(new) /\ DOMAIN subs = 1..Len(subs)
  <2>1. IsSequence(new) /\ IsSequence(subs)
    BY DEF IsForest
  <2>2. QED
    BY <2>1, SequenceHas
<1>2. \A path : Line(path) = PrintedLine(table, path)
  BY DEF Line, NameOf, PrintedLine
<1>3. /\ u = [i \in 1..Len(new) |-> u[i]]
      /\ v = [i \in 1..Len(subs) |-> v[i]]
      /\ \A i \in 1..Len(new) : u[i] = Line(<<s>> \o Path(new[i]))
      /\ \A i \in 1..Len(subs) : v[i] = Line(Path(subs[i]))
  BY <1>1
<1>4. LinesOf(s) = u \o v
  BY DEF LinesOf
<1> HIDE DEF u, v, new, subs
<1>5. IsSequence(u) /\ Len(u) = Len(new) /\ IsSequence(v) /\ Len(v) = Len(subs)
  BY <1>1, <1>3, ListIsSequence
<1> DEFINE w == u \o v
<1>6. /\ IsSequence(w) /\ Len(w) = Len(new) + Len(subs)
      /\ \A i \in 1..Len(new) : w[i] = u[i]
      /\ \A i \in 1..Len(subs) : w[Len(new) + i] = v[i]
  BY <1>5, SequenceBoth
<1> HIDE DEF w
<1>7. Lines(data, s) = 1..(Len(new) + Len(subs))
  BY DEF Lines, new, subs
<1>8. DOMAIN w = Lines(data, s)
  BY <1>6, <1>7, SequenceHas
<1>9. ASSUME NEW k \in Lines(data, s)
      PROVE  w[k] = PrintedLine(table, StoredLine(s, k))
  <2>1. CASE k <= Len(new)
    <3>1. k \in 1..Len(new)
      BY <1>1, <1>7, <2>1
    <3>2. StoredLine(s, k) = <<s>> \o Path(new[k])
      BY <2>1 DEF StoredLine, new
    <3>3. QED
      BY <1>2, <1>3, <1>6, <3>1, <3>2
  <2>2. CASE ~(k <= Len(new))
    <3>1. k - Len(new) \in 1..Len(subs) /\ Len(new) + (k - Len(new)) = k
      BY <1>1, <1>7, <2>2
    <3>2. StoredLine(s, k) = Path(subs[k - Len(new)])
      BY <2>2 DEF StoredLine, new, subs
    <3>3. w[k] = v[k - Len(new)]
      BY <1>6, <3>1
    <3>4. QED
      BY <1>2, <1>3, <3>1, <3>2, <3>3
  <2>3. QED
    BY <2>1, <2>2
<1>10. \A k \in Lines(data, s) : StoredLines[s][k] = StoredLine(s, k)
  BY DEF StoredLines
<1>11. QED
  BY <1>4, <1>6, <1>8, <1>9, <1>10 DEF w

LEMMA SectionCut ==
  ASSUME NumberingInv, TablesInv, Linked,
         NEW starts, starts = SymbolsOfType({"planRelation", "relation"}),
         NEW lines, lines = FlattenSeq([i \in DOMAIN starts |-> LinesOf(starts[i])])
  PROVE  IsCut(table, data, LineSymbols(table), lines) /\ Ascends(table, data, LineSymbols(table), lines)
<1> DEFINE B == LineSymbols(table)
           parts == [i \in DOMAIN starts |-> LinesOf(starts[i])]
<1>1. /\ IsPlan(plan) /\ AllLinked(plan, table, data) /\ NamesOK(plan, table)
      /\ IsForest(data, LineSymbols(table))
  BY LinkedTables
<1>2. IsSequence(table.symbols) /\ Len(table.symbols) \in Nat /\ B \in SUBSET (1..Len(table.symbols))
  BY <1>1, SymbolPositions DEF AllLinked, LineSymbols
<1>3. InOrder(table, {"planRelation", "relation"}, starts)
  BY <1>2, SymbolsInOrder
<1>4. /\ IsSequence(starts) /\ Len(starts) \in Nat /\ DOMAIN starts = 1..Len(starts)
      /\ \A i \in 1..Len(starts) : starts[i] \in B
      /\ \A b \in B : \E i \in 1..Len(starts) : starts[i] = b
      /\ \A i, j \in 1..Len(starts) : i < j => starts[i] < starts[j]
  <2>1. IsSequence(starts)
    BY <1>3 DEF InOrder
  <2>2. Len(starts) \in Nat /\ DOMAIN starts = 1..Len(starts)
    BY <2>1, SequenceHas
  <2>3. QED
    BY <1>3, <2>1, <2>2 DEF InOrder, LineSymbols
<1>5. \A i, j \in 1..Len(starts) : starts[i] = starts[j] => i = j
  <2>1. ASSUME NEW i \in 1..Len(starts), NEW j \in 1..Len(starts), starts[i] = starts[j]
        PROVE  i = j
    <3>1. starts[i] \in Nat /\ starts[j] \in Nat
      BY <1>2, <1>4
    <3>2. ~(i < j) /\ ~(j < i)
      BY <1>4, <2>1, <3>1
    <3>3. QED
      BY <1>4, <3>2
  <2>2. QED
    BY <2>1
<1>6. /\ parts = [i \in 1..Len(starts) |-> parts[i]]
      /\ \A i \in 1..Len(starts) : parts[i] = LinesOf(starts[i])
  BY <1>4
<1>7. lines = FlattenSeq(parts)
  OBVIOUS
<1> HIDE DEF parts
<1>8. IsSequence(parts) /\ Len(parts) = Len(starts)
  BY <1>4, <1>6, ListIsSequence
<1>9. AreLines(data, B, StoredLines)
  BY <1>1, StoredAreLines
<1>10. \A i \in 1..Len(starts) :
         /\ IsSequence(parts[i]) /\ DOMAIN parts[i] = Lines(data, starts[i])
         /\ \A k \in Lines(data, starts[i]) : parts[i][k] = PrintedLine(table, StoredLines[starts[i]][k])
  BY <1>1, <1>4, <1>6, LinesPrinted
<1>11. \A a, b \in B : table.symbols[a].name = table.symbols[b].name => a = b
  BY <1>1 DEF NamesOK, LineSymbols
<1>12. IsForest(data, B)
  BY <1>1
<1> HIDE DEF B
<1>13. PICK of, at : IsListing(FlattenSeq(parts), table, data, B, StoredLines, of, at)
  <2>1. \A i \in 1..Len(starts) : starts[i] \in B
    BY <1>4
  <2>2. \A b \in B : \E i \in 1..Len(starts) : starts[i] = b
    BY <1>4
  <2>3. IsSequence(starts) /\ IsSequence(parts) /\ Len(parts) = Len(starts)
    BY <1>4, <1>8
  <2>4. \E of, at : IsListing(FlattenSeq(parts), table, data, B, StoredLines, of, at)
    BY <1>5, <1>9, <1>10, <1>12, <2>1, <2>2, <2>3, ListingExists, ZenonT(60)
  <2>5. QED
    BY <2>4
<1>14. IsListing(lines, table, data, B, StoredLines, of, at)
  BY <1>7, <1>13
<1>15. IsCut(table, data, B, lines) /\ Ascends(table, data, B, lines)
  BY <1>2, <1>9, <1>11, <1>12, <1>14, LinesCut
<1>16. QED
  BY <1>15 DEF B

-----------------------------------------------------------------------------
(***************************************************************************)
(* The relations, printed in the order of the table.                       *)
(***************************************************************************)

\* The relations printed, and before which symbols that are left to print.
RelationsOK(t, relations, left) ==
  /\ IsSequence(relations) /\ IsSequence(left)
  /\ \A k \in DOMAIN left : left[k] \in DOMAIN t.symbols /\ t.symbols[left[k]].type = "relation"
  /\ \A k, l \in DOMAIN left : k < l => left[k] < left[l]
  /\ \A i \in DOMAIN relations : \E s \in DOMAIN t.symbols :
       relations[i].name = t.symbols[s].name /\ \A k \in DOMAIN left : s < left[k]
  /\ \A i, j \in DOMAIN relations : \A s, q \in DOMAIN t.symbols :
       i < j /\ relations[i].name = t.symbols[s].name /\ relations[j].name = t.symbols[q].name
         => s < q

PrintedInv ==
  IF pass \in {"relations", "printed"}
  THEN /\ DOMAIN text = DOMAIN EmptyText
       /\ IsCut(table, data, LineSymbols(table), text.pipelines)
       /\ Ascends(table, data, LineSymbols(table), text.pipelines)
       /\ RelationsOK(table, text.relations, agenda)
  ELSE text = EmptyText

LEMMA SequenceTail ==
  ASSUME NEW s, IsSequence(s), s # << >>
  PROVE  /\ Len(s) \in Nat \ {0} /\ 1 \in DOMAIN s /\ Head(s) = s[1]
         /\ IsSequence(Tail(s)) /\ DOMAIN Tail(s) = 1..(Len(s) - 1)
         /\ \A k \in DOMAIN Tail(s) : k + 1 \in DOMAIN s /\ Tail(s)[k] = s[k + 1]
<1> DEFINE S == ToSet(s)
           r == Tail(s)
<1>1. s \in Seq(S)
  BY DEF IsSequence
<1> HIDE DEF S
<1>2. Len(s) \in Nat \ {0} /\ DOMAIN s = 1..Len(s) /\ Head(s) = s[1]
  BY <1>1
<1>3. /\ Len(r) = Len(s) - 1 /\ r \in Seq(S)
      /\ \A k \in 1..(Len(s) - 1) : r[k] = s[k + 1]
  BY <1>1
<1>4. DOMAIN r = 1..(Len(s) - 1)
  BY <1>3
<1> HIDE DEF r
<1>5. r = [k \in 1..Len(r) |-> r[k]] /\ Len(r) \in Nat
  BY <1>3
<1>6. IsSequence(r)
  BY <1>5, ListIsSequence
<1>7. \A k \in DOMAIN r : k + 1 \in DOMAIN s
  BY <1>2, <1>4
<1>8. 1 \in DOMAIN s
  BY <1>2
<1>9. QED
  BY <1>2, <1>3, <1>4, <1>6, <1>7, <1>8 DEF r

\* A relation is printed or passed over.
LEMMA RelationPrinted ==
  ASSUME NEW p, NEW t, NamesOK(p, t), IsSequence(t.symbols), NEW relations, NEW left,
         RelationsOK(t, relations, left), left # << >>, NEW e, e.name = t.symbols[Head(left)].name
  PROVE  /\ RelationsOK(t, relations, Tail(left))
         /\ RelationsOK(t, Append(relations, e), Tail(left))
<1> DEFINE rest == Tail(left)
           more == Append(relations, e)
           here == Head(left)
           m == Len(relations) + 1
<1>1. /\ Len(left) \in Nat \ {0} /\ 1 \in DOMAIN left /\ here = left[1]
      /\ IsSequence(rest) /\ DOMAIN rest = 1..(Len(left) - 1)
      /\ \A k \in DOMAIN rest : k + 1 \in DOMAIN left /\ rest[k] = left[k + 1]
  BY SequenceTail DEF RelationsOK
<1>2. /\ IsSequence(more) /\ Len(relations) \in Nat /\ DOMAIN more = DOMAIN relations \union {m}
      /\ \A i \in DOMAIN relations : i # m /\ more[i] = relations[i]
      /\ more[m] = e
  BY SequenceAppend DEF RelationsOK
<1>3. DOMAIN relations = 1..Len(relations)
  BY SequenceHas DEF RelationsOK
<1>4. DOMAIN t.symbols \subseteq Nat
  BY SequenceHas
<1>5. e.name = t.symbols[here].name
  OBVIOUS
<1> HIDE DEF rest, more, here
<1>6. here \in DOMAIN t.symbols
  BY <1>1 DEF RelationsOK
<1>7. /\ \A k \in DOMAIN rest : rest[k] \in DOMAIN t.symbols /\ t.symbols[rest[k]].type = "relation"
      /\ \A k, l \in DOMAIN rest : k < l => rest[k] < rest[l]
      /\ \A k \in DOMAIN rest : here < rest[k]
  <2>1. \A k \in DOMAIN rest : k \in Nat /\ 1 < k + 1
    BY <1>1
  <2>2. \A k, l \in DOMAIN left : k < l => left[k] < left[l]
    BY DEF RelationsOK
  <2>3. \A k \in DOMAIN left : left[k] \in DOMAIN t.symbols /\ t.symbols[left[k]].type = "relation"
    BY DEF RelationsOK
  <2>4. ASSUME NEW k \in DOMAIN rest, NEW l \in DOMAIN rest, k < l
        PROVE  rest[k] < rest[l]
    <3>1. k + 1 < l + 1
      BY <2>1, <2>4
    <3>2. QED
      BY <1>1, <2>2, <3>1
  <2>5. QED
    BY <1>1, <2>1, <2>2, <2>3, <2>4
<1>8. \A i \in DOMAIN relations : \E s \in DOMAIN t.symbols :
        /\ relations[i].name = t.symbols[s].name /\ s < here
        /\ \A k \in DOMAIN rest : s < rest[k]
  <2>1. ASSUME NEW i \in DOMAIN relations
        PROVE  \E s \in DOMAIN t.symbols :
                 /\ relations[i].name = t.symbols[s].name /\ s < here
                 /\ \A k \in DOMAIN rest : s < rest[k]
    <3>1. PICK s \in DOMAIN t.symbols :
            relations[i].name = t.symbols[s].name /\ \A k \in DOMAIN left : s < left[k]
      BY DEF RelationsOK
    <3>2. QED
      BY <1>1, <3>1
  <2>2. QED
    BY <2>1
<1>9. \A i, j \in DOMAIN relations : \A s, q \in DOMAIN t.symbols :
        i < j /\ relations[i].name = t.symbols[s].name /\ relations[j].name = t.symbols[q].name
          => s < q
  BY DEF RelationsOK
<1>10. RelationsOK(t, relations, rest)
  <2>1. \A i \in DOMAIN relations : \E s \in DOMAIN t.symbols :
          relations[i].name = t.symbols[s].name /\ \A k \in DOMAIN rest : s < rest[k]
    BY <1>8
  <2>2. IsSequence(relations)
    BY DEF RelationsOK
  <2>3. QED
    BY <1>1, <1>7, <1>9, <2>1, <2>2 DEF RelationsOK
<1>11. \A s, q \in DOMAIN t.symbols : t.symbols[s].name = t.symbols[q].name => s = q
  BY DEF NamesOK
<1>12. \A i \in DOMAIN more : \E s \in DOMAIN t.symbols :
         more[i].name = t.symbols[s].name /\ \A k \in DOMAIN rest : s < rest[k]
  <2>1. ASSUME NEW i \in DOMAIN more
        PROVE  \E s \in DOMAIN t.symbols :
                 more[i].name = t.symbols[s].name /\ \A k \in DOMAIN rest : s < rest[k]
    <3>1. CASE i \in DOMAIN relations
      BY <1>2, <1>8, <3>1
    <3>2. CASE i = m
      <4>1. more[i].name = t.symbols[here].name
        BY <1>2, <1>5, <3>2
      <4>2. QED
        BY <1>6, <1>7, <4>1
    <3>3. QED
      BY <1>2, <2>1, <3>1, <3>2
  <2>2. QED
    BY <2>1
<1>13. ASSUME NEW i \in DOMAIN more, NEW j \in DOMAIN more,
              NEW s \in DOMAIN t.symbols, NEW q \in DOMAIN t.symbols, i < j,
              more[i].name = t.symbols[s].name, more[j].name = t.symbols[q].name
       PROVE  s < q
  <2>1. i \in DOMAIN relations
    BY <1>2, <1>3, <1>13
  <2>2. relations[i].name = t.symbols[s].name
    BY <1>2, <1>13, <2>1
  <2>3. CASE j \in DOMAIN relations
    <3>1. relations[j].name = t.symbols[q].name
      BY <1>2, <1>13, <2>3
    <3>2. QED
      BY <1>9, <1>13, <2>1, <2>2, <2>3, <3>1
  <2>4. CASE j = m
    <3>1. t.symbols[q].name = t.symbols[here].name
      BY <1>2, <1>5, <1>13, <2>4
    <3>2. q = here
      BY <1>6, <1>11, <3>1
    <3>3. PICK d \in DOMAIN t.symbols : relations[i].name = t.symbols[d].name /\ d < here
      BY <1>8, <2>1
    <3>4. d = s
      BY <1>11, <2>2, <3>3
    <3>5. QED
      BY <3>2, <3>3, <3>4
  <2>5. QED
    BY <1>2, <2>3, <2>4
<1>14. RelationsOK(t, more, rest)
  BY <1>1, <1>2, <1>7, <1>12, <1>13 DEF RelationsOK
<1>15. QED
  BY <1>10, <1>14 DEF rest, more

\* The steps that print, and the others.
LEMMA PrintingSteps ==
  ConverterNext => \/ OutputPipelinesSection \/ PrintRelation \/ OutputRootSection
                   \/ /\ pass \notin {"relations", "printed"}
                      /\ pass' \notin {"relations", "printed"} /\ text' = text
<1>1. \A q, what : Enter(q, what) \/ Leave(q, what) => pass = q /\ pass' = q /\ text' = text
  BY DEF Enter, Leave
<1>2. EnterSubquery => /\ pass \notin {"relations", "printed"}
                       /\ pass' \notin {"relations", "printed"} /\ text' = text
  BY <1>1 DEF EnterSubquery
<1>3. InitialVisitRelationRoot \/ InitialEnterPlanRelation \/ InitialEnterRelation
        \/ InitialVisitRelation \/ InitialVisitSubquery \/ InitialVisitPlanRelation
      => pass = "initial" /\ pass' = "initial" /\ text' = text
  BY <1>1 DEF InitialVisitRelationRoot, InitialEnterPlanRelation, InitialEnterRelation,
       InitialVisitRelation, InitialVisitSubquery, InitialVisitPlanRelation
<1>4. LinkPlanRelation \/ LeavePlanRelation \/ LinkRelation \/ LeaveRelation \/ LinkSubquery
      => pass = "pipelines" /\ pass' = "pipelines" /\ text' = text
  BY <1>1 DEF LinkPlanRelation, LeavePlanRelation, LinkRelation, LeaveRelation, LinkSubquery
<1>5. BeginPipelines \/ BeginPrint
      => /\ pass \in {"initial", "pipelines"} /\ pass' \in {"pipelines", "print"}
         /\ text' = text
  BY DEF BeginPipelines, BeginPrint, PlanVisited
<1>6. QED
  BY <1>2, <1>3, <1>4, <1>5 DEF ConverterNext

LEMMA PrintedStep ==
  ASSUME NumberingInv, TablesInv, PrintedInv, [ConverterNext]_converterVars
  PROVE  PrintedInv'
<1>1. CASE OutputPipelinesSection
  <2> DEFINE starts == SymbolsOfType({"planRelation", "relation"})
             lines == FlattenSeq([i \in DOMAIN starts |-> LinesOf(starts[i])])
  <2>1. /\ pass = "print" /\ pass' = "relations" /\ table' = table /\ data' = data
        /\ text' = [text EXCEPT !.pipelines = lines] /\ agenda' = SymbolsOfType({"relation"})
    BY <1>1 DEF OutputPipelinesSection
  <2>2. Linked
    BY <2>1 DEF Linked
  <2>3. IsCut(table, data, LineSymbols(table), lines) /\ Ascends(table, data, LineSymbols(table), lines)
    BY <2>2, SectionCut
  <2> HIDE DEF lines, starts
  <2>4. /\ DOMAIN text' = DOMAIN EmptyText /\ text'.pipelines = lines /\ text'.relations = << >>
    BY <2>1 DEF PrintedInv, EmptyText
  <2>5. RelationsOK(table, << >>, agenda')
    <3>1. IsSequence(table.symbols)
      BY <2>2, LinkedTables, SymbolPositions DEF AllLinked
    <3>2. InOrder(table, {"relation"}, agenda')
      BY <2>1, <3>1, SymbolsInOrder
    <3>3. IsSequence(<< >>) /\ DOMAIN << >> = {}
      BY DEF IsSequence, ToSet
    <3>4. QED
      BY <3>2, <3>3 DEF InOrder, RelationsOK
  <2>6. QED
    BY <2>1, <2>3, <2>4, <2>5 DEF PrintedInv
<1>2. CASE PrintRelation
  <2> DEFINE printed == PrintedRelation(Head(agenda))
  <2>1. /\ pass = "relations" /\ pass' = "relations" /\ table' = table /\ data' = data
        /\ agenda # << >> /\ agenda' = Tail(agenda)
        /\ \/ text' = [text EXCEPT !.relations = Append(@, printed)]
           \/ text' = [text EXCEPT !.relations = @]
    <3>1. text' = [text EXCEPT !.relations =
                     IF printed.kind \in PrintableKinds THEN Append(@, printed) ELSE @]
      BY <1>2 DEF PrintRelation
    <3> HIDE DEF printed
    <3>2. QED
      BY <1>2, <3>1 DEF PrintRelation
  <2>2. printed.name = table.symbols[Head(agenda)].name
    BY DEF PrintedRelation, NameOf
  <2> HIDE DEF printed
  <2>3. NamesOK(plan, table) /\ IsSequence(table.symbols)
    BY <2>1, LinkedTables, SymbolPositions DEF AllLinked, Linked
  <2>4. /\ DOMAIN text = DOMAIN EmptyText
        /\ IsCut(table, data, LineSymbols(table), text.pipelines)
        /\ Ascends(table, data, LineSymbols(table), text.pipelines)
        /\ RelationsOK(table, text.relations, agenda)
    BY <2>1 DEF PrintedInv
  <2>5. /\ RelationsOK(table, text.relations, Tail(agenda))
        /\ RelationsOK(table, Append(text.relations, printed), Tail(agenda))
    BY <2>1, <2>2, <2>3, <2>4, RelationPrinted
  <2>6. /\ DOMAIN text' = DOMAIN text /\ text'.pipelines = text.pipelines
        /\ text'.relations \in {text.relations, Append(text.relations, printed)}
    BY <2>1, <2>4 DEF EmptyText
  <2>7. RelationsOK(table, text'.relations, Tail(agenda))
    BY <2>5, <2>6
  <2>8. QED
    BY <2>1, <2>4, <2>6, <2>7 DEF PrintedInv
<1>3. CASE OutputRootSection
  <2>1. /\ pass = "relations" /\ pass' = "printed" /\ table' = table /\ data' = data /\ agenda' = agenda
        /\ \E roots : text' = [text EXCEPT !.roots = roots]
    BY <1>3 DEF OutputRootSection
  <2>2. /\ DOMAIN text' = DOMAIN text /\ text'.pipelines = text.pipelines
        /\ text'.relations = text.relations
    BY <2>1 DEF PrintedInv, EmptyText
  <2>3. QED
    BY <2>1, <2>2 DEF PrintedInv
<1>4. CASE /\ pass \notin {"relations", "printed"} /\ pass' \notin {"relations", "printed"}
           /\ text' = text
  BY <1>4 DEF PrintedInv
<1>5. CASE UNCHANGED converterVars
  <2>1. pass' = pass /\ table' = table /\ data' = data /\ text' = text /\ agenda' = agenda
    BY <1>5 DEF converterVars
  <2>2. QED
    BY <2>1 DEF PrintedInv
<1>6. QED
  <2>1. ConverterNext => \/ OutputPipelinesSection \/ PrintRelation \/ OutputRootSection
                         \/ /\ pass \notin {"relations", "printed"}
                            /\ pass' \notin {"relations", "printed"} /\ text' = text
    BY PrintingSteps
  <2>2. QED
    BY <1>1, <1>2, <1>3, <1>4, <1>5, <2>1

LEMMA PrintedBegins == ConverterInit => PrintedInv
BY DEF ConverterInit, PrintedInv

\* The state of a converter that has been given some of the plans.
TextInv == NumberingInv /\ TablesInv /\ PrintedInv

LEMMA TextKept ==
  ASSUME NumberedKindsAreFresh
  PROVE  ConverterSpec => []TextInv
<1>1. ConverterInit => TextInv
  BY NumberingBegins, TablesBegin, PrintedBegins DEF TextInv
<1>2. TextInv /\ [ConverterNext]_converterVars => TextInv'
  BY NumberingStep, TablesStep, PrintedStep DEF TextInv
<1>3. QED
  BY <1>1, <1>2, PTL DEF ConverterSpec

LEMMA TextSuffices == TextInv => InputsPrintedFirst
<1> SUFFICES ASSUME TextInv, NEW l \in DOMAIN text.pipelines,
                    NEW i \in DOMAIN text.relations, NEW j \in DOMAIN text.relations,
                    NEW k \in 1..(Len(text.pipelines[l]) - 1),
                    text.pipelines[l][k] = text.relations[i].name,
                    text.pipelines[l][k + 1] = text.relations[j].name
             PROVE  i < j
  BY DEF InputsPrintedFirst
<1>1. pass \in {"relations", "printed"}
  <2>1. CASE pass \notin {"relations", "printed"}
    <3>1. DOMAIN text.pipelines = {}
      BY <2>1 DEF TextInv, PrintedInv, EmptyText
    <3>2. QED
      BY <3>1
  <2>2. QED
    BY <2>1
<1>2. /\ AllLinked(plan, table, data) /\ NamesOK(plan, table)
      /\ IsForest(data, LineSymbols(table))
  BY <1>1, LinkedTables DEF TextInv, Linked
<1>3. /\ Ascends(table, data, LineSymbols(table), text.pipelines)
      /\ RelationsOK(table, text.relations, agenda)
  BY <1>1 DEF TextInv, PrintedInv
<1>4. PICK a \in LineSymbols(table), b \in LineSymbols(table) :
        /\ Tied(data, a, b)
        /\ <<text.pipelines[l][k], text.pipelines[l][k + 1]>> = NamePair(table, a, b)
  BY <1>3 DEF Ascends
<1>5. text.relations[i].name = table.symbols[a].name /\ text.relations[j].name = table.symbols[b].name
  BY <1>4 DEF NamePair
<1>6. a < b /\ a \in Nat /\ b \in Nat /\ a \in DOMAIN table.symbols /\ b \in DOMAIN table.symbols
  BY <1>2, <1>4 DEF IsForest, LineSymbols
<1>7. i \in Nat /\ j \in Nat
  BY <1>3, SequenceHas DEF RelationsOK
<1>8. ~(j < i)
  <2>1. j < i => b < a
    BY <1>3, <1>5, <1>6 DEF RelationsOK
  <2>2. QED
    BY <1>6, <2>1
<1>9. i # j
  <2>1. i = j => a = b
    BY <1>2, <1>5, <1>6 DEF NamesOK
  <2>2. QED
    BY <1>6, <2>1
<1>10. QED
  BY <1>7, <1>8, <1>9

\* Of every plan whose names do not look like numbered ones, a relation is
\* printed after the one to its left on every line: the parser takes the fields
\* of an input from what it has read so far (addInputFieldsToSchema), and the
\* text never has a relation before one of its inputs.
THEOREM InputsAreFirst ==
  ASSUME NumberedKindsAreFresh
  PROVE  ConverterSpec => []InputsPrintedFirst
BY TextKept, TextSuffices, PTL

-----------------------------------------------------------------------------
(***************************************************************************)
(* The links of the plan.  visitSubqueryInPredicate goes on to the         *)
(* haystack alone: of a plan without a subquery among the needles of an IN *)
(* a visit comes to every message, and those have a symbol.                *)
(***************************************************************************)
EveryMessageVisited == \A p \in Plans : DOMAIN p.node = 1..LastVisited(p)

LEMMA LinksOfPlan ==
  ASSUME EveryMessageVisited, plan \in Plans, IsPlan(plan), AllLinked(plan, table, data)
  PROVE  \A e : e \in PlanLinks
           <=> \E b \in LineSymbols(table) : \E a \in LineSymbols(table) :
                 Tied(data, a, b) /\ e = NamePair(table, a, b)
<1> DEFINE B == LineSymbols(table)
           Links == {m \in DOMAIN plan.node : plan.node[m].kind \in RelationKinds}
           Below1(n) == {<<NameOf(RelationSymbol(Original(i))), NameOf(RelationSymbol(Original(n)))>> :
                           i \in ToSet(plan.node[n].inputs)}
           Below2 == {<<NameOf(RelationSymbol(Original(plan.roots[r].input))),
                        NameOf(Head(LookupSymbolsByLocation(table, PlanRelLocation(r))))>> :
                        r \in DOMAIN plan.roots}
<1>1. \A n : RelationSymbol(Original(n)) = SymbolOf(table, n)
  BY DEF RelationSymbol, SymbolOf
<1>2. \A s : NameOf(s) = table.symbols[s].name
  BY DEF NameOf
<1>3. Links = Relations(plan)
  BY DEF EveryMessageVisited, Relations
<1> DEFINE Inner == UNION {Below1(n) : n \in Links}
<1>4. PlanLinks = Inner \union Below2
  BY DEF PlanLinks
<1>5. \A n \in Relations(plan) : \A e : e \in Below1(n)
        <=> \E i \in DOMAIN plan.node[n].inputs :
              e = NamePair(table, SymbolOf(table, plan.node[n].inputs[i]), SymbolOf(table, n))
  BY <1>1, <1>2 DEF NamePair, ToSet
<1>6. \A e : e \in Below2
        <=> \E r \in DOMAIN plan.roots :
              e = NamePair(table, SymbolOf(table, plan.roots[r].input), RootSymbol(table, r))
  BY <1>1, <1>2 DEF NamePair, RootSymbol
<1> HIDE DEF Links, Below1, Below2
<1>7. \A e : e \in PlanLinks <=> (\E n \in Links : e \in Below1(n)) \/ e \in Below2
  <2>1. \A e : e \in Inner <=> \E n \in Links : e \in Below1(n)
    OBVIOUS
  <2> HIDE DEF Inner
  <2>2. QED
    BY <1>4, <2>1
<1>8. \A n \in Relations(plan) : SymbolOf(table, n) \in B
  BY SymbolsApart DEF AllLinked, LineSymbols
<1>9. \A r \in DOMAIN plan.roots : RootSymbol(table, r) \in B /\ plan.roots[r].input \in Relations(plan)
  BY SymbolsApart DEF AllLinked, LineSymbols
<1>10. \A b \in B : \A a : Tied(data, a, b) <=> IsTie(plan, table, a, b)
  BY TiesAre
<1> HIDE DEF B
<1>11. ASSUME NEW e \in PlanLinks
       PROVE  \E b \in B : \E a \in B : Tied(data, a, b) /\ e = NamePair(table, a, b)
  <2>1. CASE \E n \in Links : e \in Below1(n)
    <3>1. PICK n \in Relations(plan) : e \in Below1(n)
      BY <1>3, <2>1
    <3>2. PICK i \in DOMAIN plan.node[n].inputs :
              e = NamePair(table, SymbolOf(table, plan.node[n].inputs[i]), SymbolOf(table, n))
      BY <1>5, <3>1
    <3>3. plan.node[n].inputs[i] \in Relations(plan)
      BY InputsPlaced
    <3>4. IsTie(plan, table, SymbolOf(table, plan.node[n].inputs[i]), SymbolOf(table, n))
      BY DEF IsTie
    <3>5. QED
      BY <1>8, <1>10, <3>2, <3>3, <3>4
  <2>2. CASE e \in Below2
    <3>1. PICK r \in DOMAIN plan.roots :
            e = NamePair(table, SymbolOf(table, plan.roots[r].input), RootSymbol(table, r))
      BY <1>6, <2>2
    <3>2. IsTie(plan, table, SymbolOf(table, plan.roots[r].input), RootSymbol(table, r))
      BY DEF IsTie
    <3>3. QED
      BY <1>8, <1>9, <1>10, <3>1, <3>2
  <2>3. QED
    BY <1>11, <1>7, <2>1, <2>2
<1>12. ASSUME NEW e, NEW b \in B, NEW a \in B, Tied(data, a, b), e = NamePair(table, a, b)
       PROVE  e \in PlanLinks
  <2>1. IsTie(plan, table, a, b)
    BY <1>10, <1>12
  <2>2. CASE \E n \in Relations(plan) : \E i \in DOMAIN plan.node[n].inputs :
               a = SymbolOf(table, plan.node[n].inputs[i]) /\ b = SymbolOf(table, n)
    <3>1. PICK n \in Relations(plan) : \E i \in DOMAIN plan.node[n].inputs :
               a = SymbolOf(table, plan.node[n].inputs[i]) /\ b = SymbolOf(table, n)
      BY <2>2
    <3>2. e \in Below1(n)
      BY <1>5, <1>12, <3>1
    <3>3. QED
      BY <1>3, <1>7, <3>2
  <2>3. CASE \E r \in DOMAIN plan.roots :
               a = SymbolOf(table, plan.roots[r].input) /\ b = RootSymbol(table, r)
    <3>1. e \in Below2
      BY <1>6, <1>12, <2>3
    <3>2. QED
      BY <1>7, <3>1
  <2>4. QED
    BY <2>1, <2>2, <2>3 DEF IsTie
<1>13. \A e : e \in PlanLinks
         <=> \E b \in B : \E a \in B : Tied(data, a, b) /\ e = NamePair(table, a, b)
  BY <1>11, <1>12
<1>14. QED
  BY <1>13 DEF B

\* A sequence without repetitions is as long as what is in it is large.
LEMMA LengthOfEach ==
  ASSUME NEW s, IsSequence(s), \A i, j \in DOMAIN s : s[i] = s[j] => i = j
  PROVE  Len(s) = Cardinality(ToSet(s))
<1>1. Len(s) \in Nat /\ DOMAIN s = 1..Len(s)
  BY SequenceHas
<1>2. s \in [1..Len(s) -> ToSet(s)]
  BY DEF IsSequence
<1>3. s \in Bijection(1..Len(s), ToSet(s))
  <2>1. \A e \in ToSet(s) : \E i \in 1..Len(s) : s[i] = e
    BY <1>1 DEF ToSet
  <2>2. s \in Injection(1..Len(s), ToSet(s))
    BY <1>1, <1>2 DEF Injection, IsInjective
  <2>3. s \in Surjection(1..Len(s), ToSet(s))
    BY <1>1, <1>2, <2>1 DEF Surjection
  <2>4. QED
    BY <2>2, <2>3 DEF Bijection
<1>4. ExistsBijection(1..Len(s), ToSet(s))
  BY <1>3 DEF ExistsBijection
<1>5. QED
  BY <1>1, <1>4, FS_CountingElements

LEMMA CutSuffices ==
  ASSUME EveryMessageVisited, TextInv
  PROVE  EachInputOnOneLine
<1> DEFINE pairs == FlattenSeq([l \in DOMAIN text.pipelines |-> PairsOf(text.pipelines[l])])
<1> SUFFICES ASSUME pass \in {"relations", "printed"}
             PROVE  ToSet(pairs) = PlanLinks /\ Len(pairs) = Cardinality(PlanLinks)
  BY DEF EachInputOnOneLine, PairsOf
<1>1. IsPlan(plan) /\ AllLinked(plan, table, data) /\ plan \in Plans
  BY LinkedTables DEF TextInv, Linked, NumberingInv
<1>2. IsCut(table, data, LineSymbols(table), text.pipelines)
  BY DEF TextInv, PrintedInv
<1>3. /\ IsSequence(pairs)
      /\ \A m \in DOMAIN pairs : \E a, b \in LineSymbols(table) :
           Tied(data, a, b) /\ pairs[m] = NamePair(table, a, b)
      /\ \A a, b \in LineSymbols(table) :
           Tied(data, a, b) => \E m \in DOMAIN pairs : pairs[m] = NamePair(table, a, b)
      /\ \A m, n \in DOMAIN pairs : pairs[m] = pairs[n] => m = n
  BY <1>2 DEF IsCut
<1> HIDE DEF pairs
<1>4. \A e : e \in PlanLinks
        <=> \E b \in LineSymbols(table) : \E a \in LineSymbols(table) :
              Tied(data, a, b) /\ e = NamePair(table, a, b)
  BY <1>1, LinksOfPlan
<1>5. \A e : e \in ToSet(pairs) <=> \E m \in DOMAIN pairs : e = pairs[m]
  BY DEF ToSet
<1>6. \A e : e \in ToSet(pairs) <=> e \in PlanLinks
  BY <1>3, <1>4, <1>5
<1>7. ToSet(pairs) = PlanLinks
  BY <1>6
<1>8. QED
  BY <1>3, <1>7, LengthOfEach

\* The pipelines section of every plan whose messages are all visited, and whose
\* names do not look like numbered ones, cuts it into paths: each link of the
\* plan, from an input to the relation or the PlanRel above it, is on one line,
\* once, and the lines have no other (outputPipelinesSection follows the links
\* that PipelineVisitor made, through pipelineToPath).
THEOREM LinesAreThePlan ==
  ASSUME NumberedKindsAreFresh, EveryMessageVisited
  PROVE  ConverterSpec => []EachInputOnOneLine
BY TextKept, CutSuffices, PTL

-----------------------------------------------------------------------------
(***************************************************************************)
(* The subqueries of a relation, in the order in which the printer meets   *)
(* them.  It prints the needles of an IN, which no visit goes on to: the   *)
(* two orders are the same where no needle has a subquery in it.           *)
(***************************************************************************)
NoSubqueryInNeedle ==
  \A p \in Plans : \A n \in DOMAIN p.node :
    p.node[n].kind = "inPredicate" => p.node[n].exprs = << >>

IsWhollyVisited(p) ==
  /\ DOMAIN p.node = 1..LastVisited(p)
  /\ \A n \in DOMAIN p.node : VisitedExpressions(p.node[n]) = p.node[n].exprs

\* The recursive function of SubqueriesInside.
IsUses(f, p, N) ==
  f = [n \in 1..N |->
         FlattenSeq([i \in DOMAIN p.node[n].exprs |-> f[p.node[n].exprs[i]]]) \o <<n>>]

LEMMA ExpressionsInside ==
  ASSUME NEW p, IsPlan(p), IsWhollyVisited(p), NEW n \in 1..LastVisited(p)
  PROVE  /\ IsSequence(p.node[n].exprs)
         /\ DOMAIN p.node[n].exprs = 1..Len(p.node[n].exprs) /\ Len(p.node[n].exprs) \in Nat
         /\ \A i \in DOMAIN p.node[n].exprs :
              /\ p.node[n].exprs[i] \in SubqueriesOf(p)
              /\ p.node[n].exprs[i] \in ToSet(Inside(p, n))
              /\ p.node[n].exprs[i] \in 1..(n - 1)
              /\ \A j \in DOMAIN p.node[n].exprs :
                   i < j => p.node[n].exprs[i] < p.node[n].exprs[j]
         /\ \A e \in ToSet(Inside(p, n)) : e \in SubqueriesOf(p) => e \in ToSet(p.node[n].exprs)
<1> DEFINE exprs == p.node[n].exprs
           inputs == p.node[n].inputs
           inside == Inside(p, n)
<1>1. LastVisited(p) \in Nat /\ n \in DOMAIN p.node
  BY RootsShape
<1>2. IsMessage(p, n)
  BY <1>1 DEF IsPlan
<1>3. /\ IsSequence(exprs) /\ IsSequence(inputs)
      /\ \A e \in ToSet(exprs) : e \in DOMAIN p.node /\ p.node[e].kind \in SubqueryKinds
      /\ \A i \in ToSet(inputs) : p.node[i].kind \in RelationKinds
  BY <1>2 DEF IsMessage
<1>4. inside = exprs \o inputs \/ inside = inputs \o exprs
  <2>1. VisitedExpressions(p.node[n]) = exprs
    BY <1>1 DEF IsWhollyVisited
  <2>2. QED
    BY <2>1 DEF Inside
<1>5. /\ Len(exprs) \in Nat /\ DOMAIN exprs = 1..Len(exprs)
      /\ Len(inputs) \in Nat /\ DOMAIN inputs = 1..Len(inputs)
      /\ Len(inside) \in Nat /\ DOMAIN inside = 1..Len(inside)
  BY <1>3, SequenceHas, InsideShape
<1>6. \A i \in DOMAIN exprs : exprs[i] \in ToSet(exprs)
  BY DEF ToSet
<1> HIDE DEF inside, exprs, inputs
<1>7. /\ ToSet(inside) = ToSet(exprs) \union ToSet(inputs)
      /\ \E d \in Nat : \A i \in DOMAIN exprs : d + i \in DOMAIN inside /\ inside[d + i] = exprs[i]
  <2>1. CASE inside = exprs \o inputs
    <3>1. /\ ToSet(inside) = ToSet(exprs) \union ToSet(inputs)
          /\ Len(inside) = Len(exprs) + Len(inputs)
          /\ \A i \in 1..Len(exprs) : inside[i] = exprs[i]
      BY <1>3, <2>1, SequenceBoth
    <3>2. \A i \in DOMAIN exprs : 0 + i = i /\ 0 + i \in DOMAIN inside
      BY <1>5, <3>1
    <3>3. \A i \in DOMAIN exprs : 0 + i \in DOMAIN inside /\ inside[0 + i] = exprs[i]
      BY <1>5, <3>1, <3>2
    <3>4. QED
      BY <3>1, <3>3
  <2>2. CASE inside = inputs \o exprs
    <3>1. /\ ToSet(inside) = ToSet(exprs) \union ToSet(inputs)
          /\ Len(inside) = Len(inputs) + Len(exprs)
          /\ \A i \in 1..Len(exprs) : inside[Len(inputs) + i] = exprs[i]
      BY <1>3, <2>2, SequenceBoth
    <3>2. \A i \in DOMAIN exprs : Len(inputs) + i \in DOMAIN inside
      BY <1>5, <3>1
    <3>3. QED
      BY <1>5, <3>1, <3>2
  <2>3. QED
    BY <1>4, <2>1, <2>2
<1>8. PICK d \in Nat : \A i \in DOMAIN exprs : d + i \in DOMAIN inside /\ inside[d + i] = exprs[i]
  BY <1>7
<1>9. ASSUME NEW i \in DOMAIN exprs
      PROVE  /\ exprs[i] \in SubqueriesOf(p) /\ exprs[i] \in ToSet(inside)
             /\ exprs[i] \in 1..(n - 1)
             /\ \A j \in DOMAIN exprs : i < j => exprs[i] < exprs[j]
  <2>1. exprs[i] \in ToSet(inside)
    BY <1>6, <1>7
  <2>2. exprs[i] \in 1..(n - 1)
    BY <2>1, InsideShape DEF inside
  <2>3. exprs[i] \in SubqueriesOf(p)
    <3>1. exprs[i] \in 1..LastVisited(p)
      BY <1>1, <2>2
    <3>2. QED
      BY <1>3, <1>6, <3>1 DEF SubqueriesOf
  <2>4. ASSUME NEW j \in DOMAIN exprs, i < j
        PROVE  exprs[i] < exprs[j]
    <3>1. d + i < d + j
      BY <1>5, <2>4
    <3>2. inside[d + i] < inside[d + j]
      BY <1>8, <3>1, InsideOrdered DEF inside
    <3>3. QED
      BY <1>8, <3>2
  <2>5. QED
    BY <2>1, <2>2, <2>3, <2>4
<1>10. \A e \in ToSet(inside) : e \in SubqueriesOf(p) => e \in ToSet(exprs)
  <2>1. \A e \in SubqueriesOf(p) : p.node[e].kind \in SubqueryKinds
    BY DEF SubqueriesOf
  <2>2. QED
    BY <1>3, <1>7, <2>1, KindsDiffer
<1>11. QED
  BY <1>3, <1>5, <1>9, <1>10 DEF exprs, inside

LEMMA UsesExist ==
  ASSUME NEW p, IsPlan(p), IsWhollyVisited(p)
  PROVE  \E f : IsUses(f, p, LastVisited(p))
<1> DEFINE N == LastVisited(p)
           Bad == {n \in 0..N : ~ \E f : IsUses(f, p, n)}
<1>1. N \in Nat
  BY RootsShape
<1> SUFFICES ASSUME Bad # {}
             PROVE  FALSE
  <2>1. N \in 0..N
    BY <1>1
  <2>2. QED
    BY <2>1
<1>2. \A i \in 1..N : \A j \in DOMAIN p.node[i].exprs : p.node[i].exprs[j] \in 1..(i - 1)
  BY ExpressionsInside
<1> HIDE DEF N
<1>3. /\ First(Bad) \in Bad
      /\ \A j \in Bad : First(Bad) <= j
  <2>1. Bad \in SUBSET Nat
    BY <1>1
  <2> HIDE DEF Bad
  <2>2. QED
    BY <2>1, FirstIsLeast
<1> DEFINE n == First(Bad)
<1> HIDE DEF n
<1>4. n \in 0..N /\ ~ \E f : IsUses(f, p, n)
  BY <1>3 DEF n
<1>5. n # 0
  <2>1. IsUses([i \in 1..0 |-> i], p, 0)
    BY DEF IsUses
  <2>2. QED
    BY <1>4, <2>1
<1>6. PICK f : IsUses(f, p, n - 1)
  <2>1. n - 1 \in 0..N
    BY <1>1, <1>4, <1>5
  <2>2. n - 1 \notin Bad
    <3> HIDE DEF Bad
    <3>1. QED
      BY <1>1, <1>3, <1>4 DEF n
  <2>3. QED
    BY <2>1, <2>2
<1> DEFINE Parts(h, i) == [j \in DOMAIN p.node[i].exprs |-> h[p.node[i].exprs[j]]]
           g == [i \in 1..n |-> FlattenSeq(Parts(f, i)) \o <<i>>]
<1>7. \A i \in 1..(n - 1) : g[i] = f[i]
  <2>1. \A i \in 1..(n - 1) : f[i] = FlattenSeq(Parts(f, i)) \o <<i>>
    BY <1>6 DEF IsUses
  <2>2. \A i \in 1..(n - 1) : i \in 1..n
    BY <1>1, <1>4
  <2> HIDE DEF Parts
  <2>3. QED
    BY <2>1, <2>2
<1>8. \A i \in 1..n : Parts(g, i) = Parts(f, i)
  <2>1. \A i \in 1..n : \A j \in DOMAIN p.node[i].exprs : p.node[i].exprs[j] \in 1..(n - 1)
    <3>1. \A i \in 1..n : i \in 1..N /\ \A e \in 1..(i - 1) : e \in 1..(n - 1)
      BY <1>1, <1>4
    <3>2. QED
      BY <1>2, <3>1
  <2> HIDE DEF g
  <2>2. \A i \in 1..n : \A j \in DOMAIN p.node[i].exprs :
          g[p.node[i].exprs[j]] = f[p.node[i].exprs[j]]
    BY <1>7, <2>1
  <2>3. QED
    BY <2>2
<1>9. g = [i \in 1..n |-> FlattenSeq(Parts(g, i)) \o <<i>>]
  <2>1. \A i \in 1..n : FlattenSeq(Parts(g, i)) \o <<i>> = FlattenSeq(Parts(f, i)) \o <<i>>
    <3> HIDE DEF g, Parts
    <3>1. QED
      BY <1>8
  <2>2. \A i \in 1..n : g[i] = FlattenSeq(Parts(f, i)) \o <<i>>
    <3> HIDE DEF Parts
    <3>1. QED
      OBVIOUS
  <2>3. g = [i \in 1..n |-> g[i]]
    OBVIOUS
  <2> HIDE DEF g, Parts
  <2>4. \A i \in 1..n : g[i] = FlattenSeq(Parts(g, i)) \o <<i>>
    BY <2>1, <2>2
  <2>5. QED
    BY <2>3, <2>4
<1>10. IsUses(g, p, n)
  <2> HIDE DEF g
  <2>1. QED
    BY <1>9 DEF IsUses
<1>11. QED
  BY <1>4, <1>10

\* What is inside a node is enclosed in it, and so is what that encloses.
LEMMA EnclosesInside ==
  ASSUME NEW p, IsPlan(p), NEW n \in 1..LastVisited(p), NEW e \in ToSet(Inside(p, n)),
         NEW m \in Nat, m = e \/ Encloses(p, e, m)
  PROVE  Encloses(p, n, m) /\ m < n
<1>1. LastVisited(p) \in Nat /\ n \in Nat /\ e \in 1..(n - 1)
  BY RootsShape, InsideShape
<1>2. m <= e
  BY <1>1 DEF Encloses
<1>3. ASSUME NEW k \in m..(n - 1)
      PROVE  InsideUpTo(p, k, n)
  <2>1. CASE k < e
    <3>1. m # e /\ k \in m..(e - 1)
      BY <1>1, <1>2, <2>1
    <3>2. PICK j \in 1..e : k \in ToSet(Inside(p, j))
      BY <3>1 DEF Encloses, InsideUpTo
    <3>3. j \in 1..n
      BY <1>1
    <3>4. QED
      BY <3>2, <3>3 DEF InsideUpTo
  <2>2. CASE k = e
    <3>1. n \in 1..n
      BY <1>1
    <3>2. QED
      BY <2>2, <3>1 DEF InsideUpTo
  <2>3. CASE e < k
    <3>1. k \in Nat /\ k < n
      BY <1>1
    <3>2. QED
      BY <2>3, <3>1, Between
  <2>4. QED
    BY <1>1, <2>1, <2>2, <2>3
<1>4. m < n
  BY <1>1, <1>2
<1>5. QED
  BY <1>3, <1>4 DEF Encloses

\* What an earlier and a later node inside another enclose is apart.
LEMMA EnclosedApart ==
  ASSUME NEW p, IsPlan(p), NEW n \in 1..LastVisited(p),
         NEW x \in ToSet(Inside(p, n)), NEW y \in ToSet(Inside(p, n)), x < y,
         NEW u \in Nat, u = x \/ Encloses(p, x, u),
         NEW v \in Nat, v = y \/ Encloses(p, y, v)
  PROVE  u < v
<1>1. LastVisited(p) \in Nat /\ n \in Nat /\ x \in 1..(n - 1) /\ y \in 1..(n - 1)
  BY RootsShape, InsideShape
<1>2. u <= x
  BY <1>1 DEF Encloses
<1>3. CASE v = y
  BY <1>1, <1>2, <1>3
<1>4. CASE Encloses(p, y, v)
  <2>1. ~(v <= x)
    <3>1. SUFFICES ASSUME v <= x
                   PROVE  FALSE
      OBVIOUS
    <3>2. x \in v..(y - 1)
      BY <1>1, <3>1
    <3>3. PICK k \in 1..y : x \in ToSet(Inside(p, k))
      BY <1>4, <3>2 DEF Encloses, InsideUpTo
    <3>4. k \in 1..LastVisited(p)
      BY <1>1
    <3>5. k = n
      BY <3>3, <3>4, OnePlace
    <3>6. QED
      BY <1>1, <3>5
  <2>2. QED
    BY <1>1, <1>2, <2>1
<1>5. QED
  BY <1>3, <1>4

\* The subqueries list has are in order, below x or x itself, and has with each
\* those in its expressions.
AreUses(p, x, list) ==
  /\ IsSequence(list)
  /\ \A k \in DOMAIN list : /\ list[k] \in SubqueriesOf(p) /\ Around(p, list[k]) = Around(p, x)
                            /\ list[k] = x \/ Encloses(p, x, list[k])
                            /\ ToSet(p.node[list[k]].exprs) \subseteq ToSet(list)
  /\ \A k, l \in DOMAIN list : k < l => list[k] < list[l]
  /\ x \in ToSet(list)

\* The subqueries in the expressions of n.
AreUsesIn(p, n, list) ==
  /\ IsSequence(list)
  /\ \A k \in DOMAIN list : /\ list[k] \in SubqueriesOf(p)
                            /\ \E e \in ToSet(p.node[n].exprs) : Around(p, list[k]) = Around(p, e)
                            /\ Encloses(p, n, list[k]) /\ list[k] < n
                            /\ ToSet(p.node[list[k]].exprs) \subseteq ToSet(list)
  /\ \A k, l \in DOMAIN list : k < l => list[k] < list[l]
  /\ ToSet(p.node[n].exprs) \subseteq ToSet(list)

LEMMA PartsInside ==
  ASSUME NEW p, IsPlan(p), IsWhollyVisited(p), NEW n \in 1..LastVisited(p), NEW f,
         NEW parts, parts = [i \in DOMAIN p.node[n].exprs |-> f[p.node[n].exprs[i]]]
  PROVE  /\ IsSequence(parts) /\ Len(parts) = Len(p.node[n].exprs)
         /\ \A i \in DOMAIN p.node[n].exprs : parts[i] = f[p.node[n].exprs[i]]
<1> DEFINE exprs == p.node[n].exprs
<1>1. DOMAIN exprs = 1..Len(exprs) /\ Len(exprs) \in Nat
  BY ExpressionsInside
<1>2. /\ parts = [i \in 1..Len(exprs) |-> parts[i]]
      /\ \A i \in DOMAIN exprs : parts[i] = f[exprs[i]]
  BY <1>1
<1> HIDE DEF exprs
<1>3. IsSequence(parts) /\ Len(parts) = Len(exprs)
  BY <1>1, <1>2, ListIsSequence
<1>4. QED
  BY <1>2, <1>3 DEF exprs

LEMMA UsesInside ==
  ASSUME NEW p, IsPlan(p), IsWhollyVisited(p), NEW n \in 1..LastVisited(p), NEW parts,
         IsSequence(parts), Len(parts) = Len(p.node[n].exprs),
         \A i \in DOMAIN p.node[n].exprs : AreUses(p, p.node[n].exprs[i], parts[i])
  PROVE  AreUsesIn(p, n, FlattenSeq(parts))
<1> DEFINE exprs == p.node[n].exprs
           list == FlattenSeq(parts)
<1>1. /\ DOMAIN exprs = 1..Len(exprs) /\ Len(exprs) \in Nat
      /\ \A i \in DOMAIN exprs :
           /\ exprs[i] \in SubqueriesOf(p) /\ exprs[i] \in ToSet(Inside(p, n))
           /\ exprs[i] \in 1..(n - 1)
           /\ \A j \in DOMAIN exprs : i < j => exprs[i] < exprs[j]
  BY ExpressionsInside
<1>2. \A i \in DOMAIN exprs : AreUses(p, exprs[i], parts[i])
  OBVIOUS
<1>3. IsSequence(parts) /\ Len(parts) = Len(exprs) /\ DOMAIN parts = DOMAIN exprs
  BY <1>1, SequenceHas
<1> HIDE DEF exprs
<1>4. \A i \in 1..Len(parts) : IsSequence(parts[i])
  BY <1>1, <1>3, <1>2 DEF AreUses
<1>5. /\ IsSequence(list)
      /\ \A i \in DOMAIN list : \E a \in DOMAIN parts : \E k \in DOMAIN parts[a] :
           list[i] = parts[a][k]
      /\ \A a \in DOMAIN parts : \A k \in DOMAIN parts[a] : \E i \in DOMAIN list :
           list[i] = parts[a][k]
  <2>1. IsSequence(parts)
    BY <1>3
  <2>2. QED
    BY <1>4, <2>1, FlatHas
<1>6. \A k, l \in DOMAIN list : k < l => list[k] < list[l]
  <2>1. \A a \in 1..Len(parts) : \A i, j \in DOMAIN parts[a] :
          i < j => parts[a][i] < parts[a][j]
    BY <1>1, <1>3, <1>2 DEF AreUses
  <2>2. ASSUME NEW a \in 1..Len(parts), NEW b \in 1..Len(parts), a < b,
               NEW i \in DOMAIN parts[a], NEW j \in DOMAIN parts[b]
        PROVE  parts[a][i] < parts[b][j]
    <3>1. a \in DOMAIN exprs /\ b \in DOMAIN exprs
      BY <1>1, <1>3
    <3>2. /\ exprs[a] \in ToSet(Inside(p, n)) /\ exprs[b] \in ToSet(Inside(p, n))
          /\ exprs[a] < exprs[b]
      BY <1>1, <2>2, <3>1
    <3>3. /\ parts[a][i] \in SubqueriesOf(p)
          /\ parts[a][i] = exprs[a] \/ Encloses(p, exprs[a], parts[a][i])
          /\ parts[b][j] \in SubqueriesOf(p)
          /\ parts[b][j] = exprs[b] \/ Encloses(p, exprs[b], parts[b][j])
      BY <1>2, <3>1 DEF AreUses
    <3>4. parts[a][i] \in Nat /\ parts[b][j] \in Nat
      <4>1. \A e \in SubqueriesOf(p) : e \in Nat
        BY RootsShape DEF SubqueriesOf
      <4>2. QED
        BY <3>3, <4>1
    <3>5. QED
      BY <3>2, <3>3, <3>4, EnclosedApart
  <2>3. QED
    BY <1>3, <1>4, <2>1, <2>2, FlatIncreases
<1> HIDE DEF list
<1>7. \A a \in DOMAIN parts : ToSet(parts[a]) \subseteq ToSet(list)
  BY <1>5 DEF ToSet
<1>8. ASSUME NEW k \in DOMAIN list
      PROVE  /\ list[k] \in SubqueriesOf(p)
             /\ \E e \in ToSet(exprs) : Around(p, list[k]) = Around(p, e)
             /\ Encloses(p, n, list[k]) /\ list[k] < n
             /\ ToSet(p.node[list[k]].exprs) \subseteq ToSet(list)
  <2>1. PICK a \in DOMAIN parts : \E j \in DOMAIN parts[a] : list[k] = parts[a][j]
    BY <1>5
  <2>2. PICK j \in DOMAIN parts[a] : list[k] = parts[a][j]
    BY <2>1
  <2>3. a \in DOMAIN exprs
    BY <1>3
  <2>4. /\ list[k] \in SubqueriesOf(p) /\ Around(p, list[k]) = Around(p, exprs[a])
        /\ list[k] = exprs[a] \/ Encloses(p, exprs[a], list[k])
        /\ ToSet(p.node[list[k]].exprs) \subseteq ToSet(parts[a])
    BY <1>2, <2>2, <2>3 DEF AreUses
  <2>5. list[k] \in Nat /\ exprs[a] \in ToSet(Inside(p, n))
    BY <1>1, <2>3, <2>4, SubqueryInput
  <2>6. Encloses(p, n, list[k]) /\ list[k] < n
    BY <2>4, <2>5, EnclosesInside
  <2>7. exprs[a] \in ToSet(exprs)
    BY <2>3 DEF ToSet
  <2>8. QED
    BY <1>7, <2>4, <2>6, <2>7
<1>9. ToSet(exprs) \subseteq ToSet(list)
  <2>1. \A a \in DOMAIN exprs : exprs[a] \in ToSet(parts[a])
    BY <1>2 DEF AreUses
  <2>2. \A a \in DOMAIN exprs : exprs[a] \in ToSet(list)
    BY <1>3, <1>7, <2>1
  <2>3. QED
    BY <2>2 DEF ToSet
<1>10. AreUsesIn(p, n, list)
  BY <1>5, <1>6, <1>8, <1>9 DEF AreUsesIn, exprs
<1>11. QED
  BY <1>10 DEF list

LEMMA UsesAre ==
  ASSUME NEW p, IsPlan(p), IsWhollyVisited(p), NEW f, IsUses(f, p, LastVisited(p))
  PROVE  \A n \in SubqueriesOf(p) : AreUses(p, n, f[n])
<1> DEFINE Bad == {n \in SubqueriesOf(p) : ~AreUses(p, n, f[n])}
<1> SUFFICES ASSUME Bad # {}
             PROVE  FALSE
  OBVIOUS
<1>1. LastVisited(p) \in Nat /\ \A n \in SubqueriesOf(p) : n \in 1..LastVisited(p)
  BY RootsShape DEF SubqueriesOf
<1>2. PICK n \in Bad : \A m \in Bad : n <= m
  <2>1. Bad \in SUBSET Nat
    BY <1>1
  <2> HIDE DEF Bad
  <2>2. QED
    BY <2>1, FirstIsLeast
<1>3. n \in SubqueriesOf(p) /\ ~AreUses(p, n, f[n]) /\ n \in 1..LastVisited(p) /\ n \in Nat
  BY <1>1
<1> DEFINE exprs == p.node[n].exprs
           parts == [i \in DOMAIN exprs |-> f[exprs[i]]]
           below == FlattenSeq(parts)
<1>4. \A i \in DOMAIN exprs : /\ exprs[i] \in SubqueriesOf(p) /\ exprs[i] \in ToSet(Inside(p, n))
                              /\ exprs[i] \in 1..(n - 1)
  BY <1>3, ExpressionsInside
<1>5. \A i \in DOMAIN exprs : AreUses(p, exprs[i], f[exprs[i]])
  <2>1. \A i \in DOMAIN exprs : exprs[i] \notin Bad
    <3>1. \A i \in DOMAIN exprs : exprs[i] < n /\ exprs[i] \in Nat
      BY <1>3, <1>4
    <3> HIDE DEF Bad
    <3>2. QED
      BY <1>2, <1>3, <3>1
  <2>2. QED
    BY <1>4, <2>1
<1>6. AreUsesIn(p, n, below)
  <2>1. /\ IsSequence(parts) /\ Len(parts) = Len(exprs)
        /\ \A i \in DOMAIN exprs : parts[i] = f[exprs[i]]
    BY <1>3, PartsInside
  <2> HIDE DEF parts
  <2>2. \A i \in DOMAIN exprs : AreUses(p, exprs[i], parts[i])
    BY <1>5, <2>1
  <2>3. QED
    BY <1>3, <2>1, <2>2, UsesInside
<1>7. f[n] = below \o <<n>>
  BY <1>3 DEF IsUses
<1> HIDE DEF below
<1>8. IsSequence(below) /\ Len(below) \in Nat /\ DOMAIN below = 1..Len(below)
  BY <1>6, SequenceHas DEF AreUsesIn
<1> DEFINE one == <<n>>
           list == below \o one
           m == Len(below)
<1>9. IsSequence(one) /\ Len(one) = 1 /\ one[1] = n /\ ToSet(one) = {n}
  BY DEF IsSequence, ToSet
<1> HIDE DEF one
<1>10. /\ IsSequence(list) /\ Len(list) = m + 1
       /\ ToSet(list) = ToSet(below) \union {n}
       /\ \A k \in 1..m : list[k] = below[k]
       /\ list[m + 1] = n
  <2>1. /\ IsSequence(list) /\ Len(list) = Len(below) + Len(one)
        /\ ToSet(list) = ToSet(below) \union ToSet(one)
        /\ \A k \in 1..Len(below) : list[k] = below[k]
        /\ \A k \in 1..Len(one) : list[Len(below) + k] = one[k]
    <3>1. IsSequence(below) /\ IsSequence(one)
      BY <1>8, <1>9
    <3>2. QED
      BY <3>1, SequenceBoth
  <2>2. 1 \in 1..Len(one)
    BY <1>9
  <2>3. list[Len(below) + 1] = n
    BY <1>9, <2>1, <2>2
  <2> HIDE DEF list
  <2>4. QED
    BY <1>9, <2>1, <2>3
<1>11. DOMAIN list = 1..(m + 1)
  BY <1>10, SequenceHas
<1> HIDE DEF list, m
<1>12. m \in Nat /\ DOMAIN below = 1..m
  BY <1>8 DEF m
<1>13. ToSet(p.node[n].exprs) \subseteq ToSet(list)
  BY <1>6, <1>10 DEF AreUsesIn
<1>14. ASSUME NEW k \in DOMAIN list
       PROVE  /\ list[k] \in SubqueriesOf(p) /\ Around(p, list[k]) = Around(p, n)
              /\ list[k] = n \/ Encloses(p, n, list[k])
              /\ ToSet(p.node[list[k]].exprs) \subseteq ToSet(list)
  <2>1. CASE k = m + 1
    BY <1>3, <1>10, <1>13, <2>1
  <2>2. CASE k # m + 1
    <3>1. k \in DOMAIN below /\ list[k] = below[k]
      BY <1>10, <1>11, <1>12, <2>2
    <3>2. /\ list[k] \in SubqueriesOf(p) /\ Encloses(p, n, list[k])
          /\ ToSet(p.node[list[k]].exprs) \subseteq ToSet(below)
          /\ \E e \in ToSet(p.node[n].exprs) : Around(p, list[k]) = Around(p, e)
      BY <1>6, <3>1 DEF AreUsesIn
    <3>3. \A e \in ToSet(p.node[n].exprs) : Around(p, e) = Around(p, n)
      <4>1. \A e \in ToSet(p.node[n].exprs) : e \in ToSet(Inside(p, n))
        BY <1>4 DEF ToSet
      <4>2. QED
        BY <1>3, <4>1, AroundSubquery
    <3>4. QED
      BY <1>10, <3>2, <3>3
  <2>3. QED
    BY <2>1, <2>2
<1>15. ASSUME NEW k \in DOMAIN list, NEW l \in DOMAIN list, k < l
       PROVE  list[k] < list[l]
  <2>1. k \in DOMAIN below /\ list[k] = below[k]
    BY <1>10, <1>11, <1>12, <1>15
  <2>2. CASE l = m + 1
    <3>1. below[k] < n
      BY <1>6, <2>1 DEF AreUsesIn
    <3>2. QED
      BY <1>10, <2>1, <2>2, <3>1
  <2>3. CASE l # m + 1
    <3>1. l \in DOMAIN below /\ list[l] = below[l]
      BY <1>10, <1>11, <1>12, <2>3
    <3>2. QED
      BY <1>6, <1>15, <2>1, <3>1 DEF AreUsesIn
  <2>4. QED
    BY <2>2, <2>3
<1>16. n \in ToSet(list)
  BY <1>10
<1>17. AreUses(p, n, list)
  BY <1>10, <1>14, <1>15, <1>16 DEF AreUses
<1>18. QED
  BY <1>3, <1>7, <1>17 DEF list, one

\* The subqueries the printer meets in a relation are those the relation is
\* around, in the order of the visit.
LEMMA SubqueriesMet ==
  ASSUME NEW p, IsPlan(p), IsWhollyVisited(p), NEW n \in Relations(p),
         NEW list, list = Subqueries(p, n)
  PROVE  /\ IsSequence(list)
         /\ \A k, l \in DOMAIN list : k < l => list[k] < list[l]
         /\ \A e : e \in ToSet(list) <=> e \in SubqueriesOf(p) /\ Around(p, e) = n
<1> DEFINE N == LastVisited(p)
           f == CHOOSE g : g = [m \in DOMAIN p.node |->
                  FlattenSeq([i \in DOMAIN p.node[m].exprs |-> g[p.node[m].exprs[i]]]) \o <<m>>]
           exprs == p.node[n].exprs
           parts == [i \in DOMAIN exprs |-> f[exprs[i]]]
<1>1. list = FlattenSeq(parts)
  BY DEF Subqueries, SubqueriesInside
<1>2. IsUses(f, p, N)
  <2>1. \E g : IsUses(g, p, N)
    BY UsesExist
  <2>2. \E g : g = [m \in DOMAIN p.node |->
                  FlattenSeq([i \in DOMAIN p.node[m].exprs |-> g[p.node[m].exprs[i]]]) \o <<m>>]
    BY <2>1 DEF IsUses, IsWhollyVisited
  <2>3. f = [m \in DOMAIN p.node |->
                  FlattenSeq([i \in DOMAIN p.node[m].exprs |-> f[p.node[m].exprs[i]]]) \o <<m>>]
    BY <2>2
  <2> HIDE DEF f
  <2>4. QED
    BY <2>3 DEF IsUses, IsWhollyVisited
<1> HIDE DEF f
<1>3. n \in 1..N /\ N \in Nat
  BY RootsShape DEF Relations
<1>4. \A i \in DOMAIN exprs : AreUses(p, exprs[i], f[exprs[i]])
  BY <1>2, <1>3, UsesAre, ExpressionsInside
<1>5. AreUsesIn(p, n, list)
  <2>1. /\ IsSequence(parts) /\ Len(parts) = Len(exprs)
        /\ \A i \in DOMAIN exprs : parts[i] = f[exprs[i]]
    BY <1>3, PartsInside
  <2> HIDE DEF parts
  <2>2. \A i \in DOMAIN exprs : AreUses(p, exprs[i], parts[i])
    BY <1>4, <2>1
  <2>3. QED
    BY <1>1, <1>3, <2>1, <2>2, UsesInside
<1> HIDE DEF parts
<1>6. ASSUME NEW e \in ToSet(list)
      PROVE  e \in SubqueriesOf(p) /\ Around(p, e) = n
  <2>1. PICK k \in DOMAIN list : list[k] = e
    BY DEF ToSet
  <2>2. e \in SubqueriesOf(p) /\ \E x \in ToSet(p.node[n].exprs) : Around(p, e) = Around(p, x)
    BY <1>5, <2>1 DEF AreUsesIn
  <2>3. \A x \in ToSet(p.node[n].exprs) : x \in ToSet(Inside(p, n))
    <3> DEFINE inside == ToSet(Inside(p, n))
    <3>1. \A i \in DOMAIN exprs : exprs[i] \in inside
      BY <1>3, ExpressionsInside
    <3> HIDE DEF inside
    <3>2. \A x \in ToSet(exprs) : x \in inside
      BY <3>1 DEF ToSet
    <3>3. QED
      BY <3>2 DEF inside
  <2>4. QED
    BY <2>2, <2>3, AroundRelation
<1> DEFINE Bad == {e \in SubqueriesOf(p) : Around(p, e) = n /\ e \notin ToSet(list)}
           Above == {N - e : e \in Bad}
<1>7. Bad = {}
  <2> SUFFICES ASSUME Bad # {}
               PROVE  FALSE
    OBVIOUS
  <2>1. \A e \in SubqueriesOf(p) : e \in 1..N
    BY DEF SubqueriesOf
  <2> HIDE DEF N
  <2>2. PICK z \in Above : \A v \in Above : z <= v
    <3>1. Above \in SUBSET Nat /\ Above # {}
      <4>1. \A e \in Bad : e \in 1..N
        BY <2>1
      <4> HIDE DEF Bad
      <4>2. QED
        BY <1>3, <4>1
    <3> HIDE DEF Above
    <3>2. QED
      BY <3>1, FirstIsLeast
  <2>3. PICK e \in Bad : z = N - e
    OBVIOUS
  <2>4. e \in SubqueriesOf(p) /\ Around(p, e) = n /\ e \notin ToSet(list) /\ e \in 1..N
    BY <2>1
  <2>5. e \notin RootInputs(p)
    <3>1. p.node[e].kind \in SubqueryKinds
      BY <2>4 DEF SubqueriesOf
    <3>2. \A m \in RootInputs(p) : p.node[m].kind \in RelationKinds
      BY DEF IsPlan
    <3>3. QED
      BY <3>1, <3>2, KindsDiffer
  <2>6. PICK m \in 1..LastVisited(p) : e \in ToSet(Inside(p, m))
    BY <2>4, <2>5 DEF IsPlan, HaveOnePlace, N
  <2>7. e < m /\ m \in Nat
    BY <1>3, <2>4, <2>6, InsideShape DEF N
  <2>8. e \in ToSet(p.node[m].exprs)
    BY <2>4, <2>6, ExpressionsInside
  <2>9. CASE m \in Relations(p)
    <3>1. m = n
      BY <2>4, <2>6, <2>9, AroundRelation
    <3>2. QED
      BY <1>5, <2>4, <2>8, <3>1 DEF AreUsesIn
  <2>10. CASE m \in SubqueriesOf(p)
    <3>1. Around(p, m) = n
      BY <2>4, <2>6, <2>10, AroundSubquery
    <3>2. m \notin ToSet(list)
      <4>1. \A k \in DOMAIN list : ToSet(p.node[list[k]].exprs) \subseteq ToSet(list)
        BY <1>5 DEF AreUsesIn
      <4>2. \A x \in ToSet(list) : ToSet(p.node[x].exprs) \subseteq ToSet(list)
        BY <4>1 DEF ToSet
      <4>3. QED
        BY <2>4, <2>8, <4>2
    <3>3. N - m \in Above
      BY <2>10, <3>1, <3>2
    <3>4. z <= N - m
      <4> HIDE DEF Above
      <4>1. QED
        BY <2>2, <3>3
    <3>5. QED
      BY <1>3, <2>3, <2>4, <2>7, <3>4
  <2>11. QED
    BY <2>6, <2>9, <2>10, InsideShape
<1>8. \A e \in SubqueriesOf(p) : Around(p, e) = n => e \in ToSet(list)
  BY <1>7
<1>9. QED
  BY <1>5, <1>6, <1>8 DEF AreUsesIn

\* The subqueries the printer meets in a relation are numbered in that order.
IsMet(p, n, list) ==
  /\ IsSequence(list)
  /\ \A k, l \in DOMAIN list : k < l => list[k] < list[l]
  /\ \A e : e \in ToSet(list) <=> e \in SubqueriesOf(p) /\ Around(p, e) = n

LEMMA MetInOrder ==
  ASSUME NEW p, IsPlan(p), NEW t, IndexesOK(p, t, LastVisited(p)), NEW n, NEW list, IsMet(p, n, list)
  PROVE  \A k \in DOMAIN list : IndexOf(p, t, list[k]) = k - 1
<1> DEFINE Number(k) == IndexOf(p, t, list[k])
           Bad == {k \in DOMAIN list : Number(k) # k - 1}
<1> SUFFICES ASSUME Bad # {}
             PROVE  FALSE
  OBVIOUS
<1>1. Len(list) \in Nat /\ DOMAIN list = 1..Len(list)
  BY SequenceHas DEF IsMet
<1>2. ASSUME NEW k \in DOMAIN list
      PROVE  list[k] \in SubqueriesOf(p) /\ Around(p, list[k]) = n
  <2>1. list[k] \in ToSet(list)
    BY DEF ToSet
  <2>2. QED
    BY <2>1 DEF IsMet
<1>3. \A e \in SubqueriesOf(p) : e \in Nat /\ e <= LastVisited(p)
  BY SubqueryInput
<1>4. ASSUME NEW k \in DOMAIN list
      PROVE  Number(k) \in Nat
  <2>1. Number(k) \in 0..(list[k] - 1)
    BY <1>2, <1>3 DEF IndexesOK
  <2>2. list[k] \in Nat
    BY <1>2, <1>3
  <2> HIDE DEF Number
  <2>3. QED
    BY <2>1, <2>2
<1>5. ASSUME NEW k \in DOMAIN list, NEW l \in DOMAIN list, k < l
      PROVE  Number(k) < Number(l)
  <2>1. list[k] < list[l]
    BY <1>5 DEF IsMet
  <2>2. QED
    BY <1>2, <1>3, <2>1 DEF IndexesOK
<1>6. ASSUME NEW k \in DOMAIN list, NEW i \in 0..(Number(k) - 1)
      PROVE  \E l \in DOMAIN list : Number(l) = i
  <2>1. PICK f \in SubqueriesOf(p) : Around(p, f) = n /\ IndexOf(p, t, f) = i
    BY <1>2, <1>3, <1>6 DEF IndexesOK
  <2>2. f \in ToSet(list)
    BY <2>1 DEF IsMet
  <2>3. QED
    BY <2>1, <2>2 DEF ToSet
<1> HIDE DEF Number
<1>7. PICK k \in Bad : \A l \in Bad : k <= l
  <2>1. Bad \in SUBSET Nat
    BY <1>1
  <2> HIDE DEF Bad
  <2>2. QED
    BY <2>1, FirstIsLeast
<1>8. k \in 1..Len(list) /\ k \in DOMAIN list /\ Number(k) # k - 1 /\ Number(k) \in Nat
  BY <1>1, <1>4
<1>9. \A l \in 1..Len(list) : l < k => Number(l) = l - 1
  <2>1. \A l \in 1..Len(list) : l < k => l \notin Bad
    BY <1>1, <1>7, <1>8
  <2>2. QED
    BY <1>1, <2>1
<1> HIDE DEF Bad
<1>10. ~(Number(k) < k - 1)
  <2>1. SUFFICES ASSUME Number(k) < k - 1
                 PROVE  FALSE
    OBVIOUS
  <2> DEFINE l == Number(k) + 1
  <2>2. l \in 1..Len(list) /\ l < k /\ l - 1 = Number(k)
    BY <1>1, <1>8, <2>1
  <2> HIDE DEF l
  <2>3. Number(l) = Number(k) /\ Number(l) < Number(k)
    BY <1>1, <1>5, <1>8, <1>9, <2>2
  <2>4. QED
    BY <1>8, <2>3
<1>11. ~(Number(k) > k - 1)
  <2>1. SUFFICES ASSUME Number(k) > k - 1
                 PROVE  FALSE
    OBVIOUS
  <2>2. k - 1 \in 0..(Number(k) - 1)
    BY <1>1, <1>8, <2>1
  <2>3. PICK l \in DOMAIN list : Number(l) = k - 1
    BY <1>6, <1>8, <2>2
  <2>4. CASE l < k
    BY <1>1, <1>8, <1>9, <2>3, <2>4
  <2>5. CASE l = k
    BY <1>8, <2>3, <2>5
  <2>6. CASE k < l
    BY <1>1, <1>5, <1>8, <2>1, <2>3, <2>6
  <2>7. QED
    BY <1>1, <1>8, <2>4, <2>5, <2>6
<1>12. QED
  BY <1>1, <1>8, <1>10, <1>11

\* The relation the printer finds for a subquery, by counting those of the
\* relation it is in, is the one below it.
LEMMA UseFound ==
  ASSUME NumberingInv, TablesInv, Linked, IsWhollyVisited(plan), NEW n \in Relations(plan),
         NEW k \in DOMAIN Subqueries(plan, n)
  PROVE  /\ SubquerySymbol(n, k) = Below(plan, table, Subqueries(plan, n)[k])
         /\ SubquerySymbol(n, k) # NoSymbol
<1> DEFINE list == Subqueries(plan, n)
           e == list[k]
           s == SymbolOf(table, n)
           pipes == data[s].subQueryPipelines
<1>1. /\ IsPlan(plan) /\ AllLinked(plan, table, data)
      /\ \A m \in Relations(plan) : UnknownLocation # Original(m)
  BY LinkedTables, ThePlan
<1>2. /\ SymbolsOK(plan, table, LastVisited(plan)) /\ IndexesOK(plan, table, LastVisited(plan))
      /\ PlacesOK(plan, table, Len(plan.roots)) /\ AllPlaces(plan, table)
      /\ DataOK(table, data) /\ ListsOK(plan, table, data, LastVisited(plan))
  BY <1>1 DEF AllLinked, AllPlaces
<1>3. IsMet(plan, n, list)
  BY <1>1, SubqueriesMet DEF IsMet
<1> HIDE DEF list
<1>4. k \in DOMAIN list
  BY DEF list
<1>5. e \in SubqueriesOf(plan) /\ Around(plan, e) = n
  <2>1. e \in ToSet(list)
    BY <1>4 DEF ToSet
  <2>2. QED
    BY <1>3, <2>1 DEF IsMet
<1>6. IndexOf(plan, table, e) = k - 1
  BY <1>1, <1>2, <1>3, <1>4, MetInOrder
<1>7. k \in Nat \ {0}
  <2>1. Len(list) \in Nat /\ DOMAIN list = 1..Len(list)
    BY <1>3, SequenceHas DEF IsMet
  <2>2. QED
    BY <1>4, <2>1
<1>8. s \in DOMAIN table.symbols /\ table.symbols[s].type = "relation"
  BY <1>1, <1>2, SymbolsApart
<1> HIDE DEF e, s
<1>9. IsSequence(pipes)
  BY <1>2, <1>8 DEF DataOK
<1>10. k - 1 < Len(pipes)
  <2>1. e <= LastVisited(plan)
    BY <1>1, <1>5, SubqueryInput
  <2>2. IndexOf(plan, table, e) < Len(pipes)
    BY <1>2, <1>5, <2>1 DEF ListsOK, s
  <2>3. QED
    BY <1>6, <2>2
<1>11. k \in DOMAIN pipes
  <2>1. DOMAIN pipes = 1..Len(pipes) /\ Len(pipes) \in Nat
    BY <1>9, SequenceHas
  <2> HIDE DEF pipes
  <2>2. QED
    BY <1>7, <1>10, <2>1
<1>12. pipes[k] = Below(plan, table, e)
  <2>1. PICK f \in SubqueriesOf(plan) : /\ Around(plan, f) = n
                                        /\ pipes[k] = Below(plan, table, f)
                                        /\ IndexOf(plan, table, f) = k - 1
    BY <1>2, <1>11 DEF ListsOK, s
  <2>2. f = e
    BY <1>1, <1>2, <1>5, <1>6, <2>1, NumbersApart
  <2>3. QED
    BY <2>1, <2>2
<1>13. LookupSymbolByParentQueryAndType(table, table.symbols[s].sourceLocation, k - 1, "relation")
         = pipes[k]
  BY <1>1, <1>2, <1>8, <1>11, ListsAgree
<1>14. RelationSymbol(Copy(n)) = s
  BY <1>2 DEF PlacesOK, RelationSymbol, SymbolOf, LookupSymbolByLocationAndType,
       LookupSymbolByLocationAndTypes, s
<1>15. SubquerySymbol(n, k) = pipes[k]
  BY <1>13, <1>14 DEF SubquerySymbol
<1>16. Below(plan, table, e) # NoSymbol
  <2>1. Below(plan, table, e) \in DOMAIN table.symbols
    BY <1>1, <1>2, <1>5, SubqueryInput, SymbolsApart DEF Below
  <2>2. QED
    BY <1>2, <2>1, SymbolPositions
<1>17. QED
  BY <1>12, <1>15, <1>16 DEF e, list

\* The name of each subquery printed is that of the relation below it.
UsesOK(p, t, relations) ==
  \A i \in DOMAIN relations : \A k \in DOMAIN relations[i].uses :
    relations[i].uses[k].relation = t.symbols[Below(p, t, relations[i].uses[k].body)].name

LEMMA UsesNamed ==
  ASSUME TextInv, IsWhollyVisited(plan), pass = "relations", agenda # << >>,
         NEW k \in DOMAIN PrintedRelation(Head(agenda)).uses
  PROVE  LET use == PrintedRelation(Head(agenda)).uses[k]
         IN use.relation = table.symbols[Below(plan, table, use.body)].name
<1> DEFINE s == Head(agenda)
           n == data[s].relation
           list == Subqueries(plan, n)
           use == PrintedRelation(s).uses[k]
<1>1. Linked /\ NumberingInv /\ TablesInv
  BY DEF Linked, TextInv
<1>2. IsPlan(plan) /\ AllLinked(plan, table, data)
  BY <1>1, LinkedTables
<1>3. s \in DOMAIN table.symbols /\ table.symbols[s].type = "relation"
  <2>1. RelationsOK(table, text.relations, agenda)
    BY DEF TextInv, PrintedInv
  <2>2. 1 \in DOMAIN agenda /\ Head(agenda) = agenda[1]
    BY <2>1, SequenceTail DEF RelationsOK
  <2>3. QED
    BY <2>1, <2>2 DEF RelationsOK
<1>4. n \in Relations(plan)
  <2>1. PICK m \in Relations(plan) : s = SymbolOf(table, m)
    BY <1>2, <1>3, SymbolsApart DEF AllLinked
  <2>2. n = m
    BY <1>2, <2>1 DEF AllLinked, LinksOK
  <2>3. QED
    BY <2>1, <2>2
<1>5. k \in DOMAIN list /\ use.body = list[k]
      /\ use.relation = IF SubquerySymbol(n, k) = NoSymbol THEN "" ELSE NameOf(SubquerySymbol(n, k))
  BY DEF PrintedRelation
<1> HIDE DEF use, n
<1>6. SubquerySymbol(n, k) = Below(plan, table, list[k]) /\ SubquerySymbol(n, k) # NoSymbol
  BY <1>1, <1>4, <1>5, UseFound
<1>7. use.relation = table.symbols[Below(plan, table, use.body)].name
  BY <1>5, <1>6 DEF NameOf
<1>8. QED
  BY <1>7 DEF use

UsesInv == UsesOK(plan, table, text.relations)

LEMMA UsesStep ==
  ASSUME TextInv, TextInv', UsesInv, IsWhollyVisited(plan), [ConverterNext]_converterVars
  PROVE  UsesInv'
<1>1. CASE PrintRelation
  <2> DEFINE printed == PrintedRelation(Head(agenda))
             more == Append(text.relations, printed)
  <2>1. /\ pass = "relations" /\ agenda # << >> /\ table' = table /\ plan' = plan
        /\ \/ text' = [text EXCEPT !.relations = more]
           \/ text' = [text EXCEPT !.relations = text.relations]
    <3>1. text' = [text EXCEPT !.relations =
                     IF printed.kind \in PrintableKinds THEN Append(@, printed) ELSE @]
      BY <1>1 DEF PrintRelation
    <3> HIDE DEF printed
    <3>2. QED
      BY <1>1, <3>1 DEF PrintRelation
  <2>2. IsSequence(text.relations) /\ DOMAIN text = DOMAIN EmptyText
    BY <2>1 DEF TextInv, PrintedInv, RelationsOK
  <2>3. \A k \in DOMAIN printed.uses :
          printed.uses[k].relation = table.symbols[Below(plan, table, printed.uses[k].body)].name
    BY <2>1, UsesNamed
  <2> HIDE DEF printed
  <2>4. /\ DOMAIN more = DOMAIN text.relations \union {Len(text.relations) + 1}
        /\ \A i \in DOMAIN text.relations : more[i] = text.relations[i]
        /\ more[Len(text.relations) + 1] = printed
    BY <2>2, SequenceAppend
  <2>5. text'.relations \in {text.relations, more}
    BY <2>1, <2>2 DEF EmptyText
  <2> HIDE DEF more
  <2>6. UsesOK(plan, table, more)
    BY <2>3, <2>4 DEF UsesOK, UsesInv
  <2>7. UsesOK(plan, table, text'.relations)
    BY <2>5, <2>6 DEF UsesInv
  <2>8. QED
    BY <2>1, <2>7 DEF UsesInv
<1>2. CASE pass' \notin {"relations", "printed"}
  <2>1. DOMAIN text'.relations = {}
    BY <1>2 DEF TextInv, PrintedInv, EmptyText
  <2>2. QED
    BY <2>1 DEF UsesInv, UsesOK
<1>3. CASE OutputPipelinesSection \/ OutputRootSection
  <2>1. /\ table' = table /\ plan' = plan
        /\ \E e : text' = [text EXCEPT !.pipelines = e] \/ text' = [text EXCEPT !.roots = e]
    BY <1>3 DEF OutputPipelinesSection, OutputRootSection
  <2>2. text'.relations = text.relations
    BY <2>1 DEF TextInv, PrintedInv, EmptyText
  <2>3. QED
    BY <2>1, <2>2 DEF UsesInv
<1>4. CASE UNCHANGED converterVars
  BY <1>4 DEF converterVars, UsesInv
<1>5. QED
  BY <1>1, <1>2, <1>3, <1>4, PrintingSteps

LEMMA NeedlesEmpty ==
  ASSUME EveryMessageVisited, NoSubqueryInNeedle, NEW p \in Plans, IsPlan(p)
  PROVE  IsWhollyVisited(p)
BY DEF EveryMessageVisited, NoSubqueryInNeedle, IsWhollyVisited, VisitedExpressions

LEMMA UsesSuffice ==
  ASSUME TextInv, UsesInv, IsWhollyVisited(plan)
  PROVE  SubqueryNamesItsRelation
BY DEF UsesInv, UsesOK, SubqueryNamesItsRelation, NameOf, RelationSymbol, Below, SymbolOf

\* Of every plan whose messages are all visited, so without subqueries among the
\* needles of an IN, a subquery is printed with the name of the relation that is
\* below it in the plan, although visitScalarSubquery and the others of
\* PlanPrinterVisitor find that name by counting the subqueries they have met:
\* they meet them in the order InitialPlanProtoVisitor numbered them in, those
\* inside a subquery's own expressions before it.
THEOREM SubqueriesAreNamed ==
  ASSUME NumberedKindsAreFresh, EveryMessageVisited, NoSubqueryInNeedle
  PROVE  ConverterSpec => []SubqueryNamesItsRelation
<1>1. ASSUME TextInv
      PROVE  IsWhollyVisited(plan)
  BY <1>1, ThePlan, NeedlesEmpty DEF TextInv, NumberingInv
<1>2. ConverterInit => UsesInv
  BY DEF ConverterInit, UsesInv, UsesOK, EmptyText
<1>3. TextInv /\ TextInv' /\ UsesInv /\ [ConverterNext]_converterVars => UsesInv'
  BY <1>1, UsesStep
<1>4. TextInv /\ UsesInv => SubqueryNamesItsRelation
  BY <1>1, UsesSuffice
<1>5. ConverterSpec => []TextInv
  BY TextKept
<1>6. QED
  BY <1>2, <1>3, <1>4, <1>5, PTL DEF ConverterSpec
=============================================================================
