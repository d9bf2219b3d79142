----------------------- MODULE FunctionReferencesProofs -----------------------
(***************************************************************************)
(* A call means the same function before and after it is renumbered, and   *)
(* before and after it has been a name, in a plan of any number of spaces, *)
(* functions and calls.                                                    *)
(***************************************************************************)
EXTENDS FunctionReferences, SymbolTableLemmas, FiniteSetTheorems

(***************************************************************************)
(* Sorting.                                                                *)
(***************************************************************************)

\* Nothing is before itself, and what is before something is before whatever
\* that is before.
IsStrictOrder(S, R) ==
  /\ \A x \in S : <<x, x>> \notin R
  /\ \A x, y, z \in S : <<x, y>> \in R /\ <<y, z>> \in R => <<x, z>> \in R

\* There is a least number with a property, if there is one.
LEMMA LeastNumber ==
  ASSUME NEW N \in SUBSET Nat, N # {}
  PROVE  \E n \in N : \A m \in N : n <= m
  BY FirstIsLeast

HasFirst(U, R) == \E x \in U : \A y \in U : <<y, x>> \notin R

LEMMA SetHasFirst ==
  ASSUME NEW S, IsFiniteSet(S), NEW R, IsStrictOrder(S, R)
  PROVE  \A U \in SUBSET S : U # {} => HasFirst(U, R)
<1> SUFFICES ASSUME ~ \A U \in SUBSET S : U # {} => HasFirst(U, R)
             PROVE  FALSE
  OBVIOUS
<1> DEFINE Bad == {U \in SUBSET S : U # {} /\ ~HasFirst(U, R)}
           N == {Cardinality(U) : U \in Bad}
<1>1. \A U \in SUBSET S : IsFiniteSet(U) /\ Cardinality(U) \in Nat
  BY FS_Subset, FS_CardinalityType
<1>2. N \in SUBSET Nat /\ N # {}
  BY <1>1
<1>3. PICK n \in N : \A m \in N : n <= m
  BY <1>2, LeastNumber
<1>4. PICK U \in Bad : n = Cardinality(U)
  BY <1>3
<1>5. PICK x \in U : TRUE
  BY <1>4
<1> DEFINE V == {y \in U : <<y, x>> \in R}
<1>6. V # {} /\ V \in SUBSET S
  BY <1>4, <1>5 DEF HasFirst
<1>7. x \notin V
  BY <1>4, <1>5 DEF IsStrictOrder
<1>8. Cardinality(V) < n
  <2>1. Cardinality(V) <= Cardinality(U) /\ Cardinality(V) # Cardinality(U)
    <3>1. V \in SUBSET U /\ V # U /\ IsFiniteSet(U)
      BY <1>1, <1>4, <1>5, <1>7
    <3>2. QED
      BY <3>1, FS_Subset
  <2>2. U \in SUBSET S /\ V \in SUBSET S
    BY <1>4, <1>6
  <2>3. Cardinality(U) \in Nat /\ Cardinality(V) \in Nat
    BY <1>1, <2>2
  <2>4. QED
    BY <1>4, <2>1, <2>3
<1>9. HasFirst(V, R)
  <2>1. SUFFICES ASSUME ~HasFirst(V, R)
                 PROVE  FALSE
    OBVIOUS
  <2>2. Cardinality(V) \in N
    BY <1>6, <2>1
  <2>3. QED
    BY <1>2, <1>3, <1>8, <2>2
<1>10. PICK m \in V : \A y \in V : <<y, m>> \notin R
  BY <1>9 DEF HasFirst
<1>11. \A y \in U : <<y, m>> \notin R
  BY <1>4, <1>5, <1>10 DEF IsStrictOrder
<1>12. QED
  BY <1>4, <1>10, <1>11 DEF HasFirst

SortedAs(s, S, R) ==
  /\ s \in [1..Cardinality(S) -> S]
  /\ \A i, j \in DOMAIN s : i < j => s[i] # s[j] /\ <<s[j], s[i]>> \notin R

LEMMA SortedExists ==
  ASSUME NEW S, IsFiniteSet(S), NEW R, IsStrictOrder(S, R)
  PROVE  \A U \in SUBSET S : \E s : SortedAs(s, U, R)
<1> SUFFICES ASSUME ~ \A U \in SUBSET S : \E s : SortedAs(s, U, R)
             PROVE  FALSE
  OBVIOUS
<1> DEFINE Bad == {U \in SUBSET S : ~ \E s : SortedAs(s, U, R)}
           N == {Cardinality(U) : U \in Bad}
<1>1. \A U \in SUBSET S : IsFiniteSet(U) /\ Cardinality(U) \in Nat
  BY FS_Subset, FS_CardinalityType
<1>2. N \in SUBSET Nat /\ N # {}
  BY <1>1
<1>3. PICK n \in N : \A m \in N : n <= m
  BY <1>2, LeastNumber
<1>4. PICK U \in Bad : n = Cardinality(U)
  BY <1>3
<1>5. U # {}
  <2>1. SUFFICES ASSUME U = {}
                 PROVE  FALSE
    OBVIOUS
  <2>2. Cardinality(U) = 0
    BY <2>1, FS_EmptySet
  <2>3. SortedAs([i \in 1..0 |-> i], U, R)
    BY <2>1, <2>2 DEF SortedAs
  <2>4. QED
    BY <1>4, <2>3
<1>6. PICK x \in U : \A y \in U : <<y, x>> \notin R
  BY <1>4, <1>5, SetHasFirst DEF HasFirst
<1> DEFINE V == U \ {x}
<1>7. V \in SUBSET S /\ Cardinality(V) = n - 1 /\ n \in Nat
  BY <1>1, <1>4, <1>6, FS_RemoveElement
<1>8. PICK t : SortedAs(t, V, R)
  <2>1. SUFFICES ASSUME ~ \E t : SortedAs(t, V, R)
                 PROVE  FALSE
    OBVIOUS
  <2>2. V \in Bad /\ n - 1 = Cardinality(V)
    BY <1>7, <2>1
  <2> HIDE DEF Bad, V
  <2>3. n - 1 \in N
    BY <2>2
  <2> HIDE DEF N
  <2>4. n <= n - 1
    BY <1>3, <2>3
  <2>5. QED
    BY <1>7, <2>4
<1> DEFINE s == [i \in 1..n |-> IF i = 1 THEN x ELSE t[i - 1]]
<1>9. t \in [1..(n - 1) -> V]
  BY <1>7, <1>8 DEF SortedAs
<1>10. \A i \in 1..n : i # 1 => i - 1 \in 1..(n - 1) /\ t[i - 1] \in V
  BY <1>7, <1>9
<1>11. s \in [1..n -> U]
  BY <1>6, <1>10
<1>12. ASSUME NEW i \in 1..n, NEW j \in 1..n, i < j
       PROVE  s[i] # s[j] /\ <<s[j], s[i]>> \notin R
  <2>1. j # 1 /\ s[j] = t[j - 1] /\ t[j - 1] \in V
    BY <1>7, <1>10, <1>12
  <2>2. CASE i = 1
    BY <1>6, <2>1, <2>2
  <2>3. CASE i # 1
    <3>1. i - 1 < j - 1 /\ i - 1 \in DOMAIN t /\ j - 1 \in DOMAIN t
      BY <1>7, <1>9, <1>10, <1>12, <2>1, <2>3
    <3>2. t[i - 1] # t[j - 1] /\ <<t[j - 1], t[i - 1]>> \notin R
      BY <1>8, <3>1 DEF SortedAs
    <3>3. QED
      BY <2>1, <2>3, <3>2
  <2>4. QED
    BY <2>2, <2>3
<1> HIDE DEF s
<1>13. SortedAs(s, U, R)
  BY <1>4, <1>11, <1>12 DEF SortedAs
<1>14. QED
  BY <1>4, <1>13

\* What is sorted has every element once.
LEMMA SortedIs ==
  ASSUME NEW S, IsFiniteSet(S), NEW R, IsStrictOrder(S, R)
  PROVE  /\ IsSequence(Sorted(S, R))
         /\ DOMAIN Sorted(S, R) = 1..Cardinality(S) /\ Cardinality(S) \in Nat
         /\ \A i \in DOMAIN Sorted(S, R) : Sorted(S, R)[i] \in S
         /\ \A i, j \in DOMAIN Sorted(S, R) :
              Sorted(S, R)[i] = Sorted(S, R)[j] => i = j
         /\ \A x \in S : \E i \in DOMAIN Sorted(S, R) : Sorted(S, R)[i] = x
<1> DEFINE s == Sorted(S, R)
           n == Cardinality(S)
<1>1. n \in Nat
  BY FS_CardinalityType
<1>2. \E q : SortedAs(q, S, R)
  BY SortedExists
<1>3. SortedAs(s, S, R)
  BY <1>2 DEF SortedAs, Sorted
<1> HIDE DEF s
<1>4. s \in [1..n -> S]
  BY <1>3 DEF SortedAs
<1>5. \A i, j \in 1..n : s[i] = s[j] => i = j
  <2>1. \A i, j \in 1..n : i < j => s[i] # s[j]
    BY <1>3, <1>4 DEF SortedAs
  <2>2. \A i, j \in 1..n : i < j \/ j < i \/ i = j
    BY <1>1
  <2>3. QED
    BY <2>1, <2>2
<1>6. s \in Injection(1..n, S)
  BY <1>4, <1>5 DEF Injection, IsInjective
<1>7. IsFiniteSet(1..n) /\ Cardinality(1..n) = n
  BY <1>1, FS_Interval
<1>8. s \in Surjection(1..n, S)
  BY <1>6, <1>7, FS_Injection
<1>9. \A x \in S : \E i \in 1..n : s[i] = x
  BY <1>8 DEF Surjection
<1>10. IsSequence(s)
  <2>1. s = [i \in 1..n |-> s[i]]
    BY <1>4
  <2>2. QED
    BY <1>1, <2>1, ListIsSequence
<1>11. QED
  BY <1>1, <1>4, <1>5, <1>9, <1>10 DEF s

-----------------------------------------------------------------------------
(***************************************************************************)
(* The orders plans and texts are sorted by.                               *)
(***************************************************************************)

LEMMA PlaceIsNumber ==
  ASSUME NEW order, IsSequence(order), NEW x
  PROVE  Place(order, x) \in Nat
<1>1. CASE x \in ToSet(order)
  <2>1. \E i \in DOMAIN order : order[i] = x
    BY <1>1 DEF ToSet
  <2>2. Place(order, x) \in DOMAIN order
    BY <1>1, <2>1 DEF Place
  <2>3. QED
    BY <2>2, SequenceHas
<1>2. CASE x \notin ToSet(order)
  BY <1>2 DEF Place
<1>3. QED
  BY <1>1, <1>2

LEMMA NumbersOrdered ==
  ASSUME NEW S \in SUBSET Int
  PROVE  IsStrictOrder(S, Ordered(S, <))
<1>1. \A x, y \in S : <<x, y>> \in Ordered(S, <) <=> x < y
  BY DEF Ordered
<1>2. \A x, y, z \in S : x < y /\ y < z => x < z
  OBVIOUS
<1>3. \A x \in S : ~(x < x)
  OBVIOUS
<1>4. QED
  BY <1>1, <1>2, <1>3 DEF IsStrictOrder

OrderOfSpaces(p) ==
  Ordered(DOMAIN p.spaces, LAMBDA i, j : Before(Uris, p.spaces[i].uri, p.spaces[j].uri))

OrderOfFunctions(p) ==
  Ordered(DOMAIN p.extensions,
    LAMBDA i, j : CompareExtensionFunctions(p.extensions[i], p.extensions[j]))

LEMMA SpacesOrdered ==
  ASSUME NEW p
  PROVE  IsStrictOrder(DOMAIN p.spaces, OrderOfSpaces(p))
<1> DEFINE S == DOMAIN p.spaces
           R == OrderOfSpaces(p)
           at(i) == Place(Uris, p.spaces[i].uri)
<1>1. \A x, y \in S : <<x, y>> \in R <=> at(x) < at(y)
  BY DEF OrderOfSpaces, Ordered, Before
<1>2. \A x \in S : at(x) \in Nat
  BY PlaceIsNumber, OrdersAssumption
<1> HIDE DEF S, R, at
<1>3. IsStrictOrder(S, R)
  BY <1>1, <1>2 DEF IsStrictOrder
<1>4. QED
  BY <1>3 DEF S, R

LEMMA FunctionsOrdered ==
  ASSUME NEW p, IsCalling(p), Consistent(p)
  PROVE  IsStrictOrder(DOMAIN p.extensions, OrderOfFunctions(p))
<1> DEFINE S == DOMAIN p.extensions
           R == OrderOfFunctions(p)
           space(i) == p.extensions[i].space
           at(i) == Place(Names, p.extensions[i].name)
<1>1. \A x, y \in S : <<x, y>> \in R <=>
        CompareExtensionFunctions(p.extensions[x], p.extensions[y])
  BY DEF OrderOfFunctions, Ordered
<1>2. \A x \in S : at(x) \in Nat
  BY PlaceIsNumber, OrdersAssumption
<1>3. \A x \in S : p.extensions[x].kind = "function" /\ space(x) \in Nat
  <2>1. \A x \in S : p.extensions[x].kind = "function"
    BY DEF Consistent
  <2>2. \A x \in S : p.extensions[x] \in ToSet(p.extensions)
    BY DEF ToSet
  <2>3. QED
    BY <2>1, <2>2 DEF IsCalling
<1>4. \A x, y \in S : <<x, y>> \in R <=>
        space(x) < space(y) \/ (space(x) = space(y) /\ at(x) < at(y))
  BY <1>1, <1>3 DEF CompareExtensionFunctions, ExtensionFunction, Before
<1> HIDE DEF S, R, at, space
<1>5. IsStrictOrder(S, R)
  <2>1. \A x \in S : <<x, x>> \notin R
    BY <1>2, <1>3, <1>4
  <2>2. ASSUME NEW x \in S, NEW y \in S, NEW z \in S, <<x, y>> \in R, <<y, z>> \in R
        PROVE  <<x, z>> \in R
    BY <1>2, <1>3, <1>4, <2>2
  <2>3. QED
    BY <2>1, <2>2 DEF IsStrictOrder
<1>6. QED
  BY <1>5 DEF S, R

\* A sorted list of the positions of a list.
IsReordering(order, list) ==
  /\ DOMAIN order = DOMAIN list
  /\ \A i \in DOMAIN order : order[i] \in DOMAIN list
  /\ \A i, j \in DOMAIN order : order[i] = order[j] => i = j
  /\ \A x \in DOMAIN list : \E i \in DOMAIN order : order[i] = x

LEMMA PositionsSorted ==
  ASSUME NEW list, IsSequence(list), NEW R, IsStrictOrder(DOMAIN list, R)
  PROVE  IsSequence(Sorted(DOMAIN list, R)) /\ IsReordering(Sorted(DOMAIN list, R), list)
<1>1. DOMAIN list = 1..Len(list) /\ Len(list) \in Nat
  BY SequenceHas
<1>2. IsFiniteSet(DOMAIN list) /\ Cardinality(DOMAIN list) = Len(list)
  <2>1. \A n \in Nat : IsFiniteSet(1..n) /\ Cardinality(1..n) = n
    BY FS_Interval
  <2>2. QED
    BY <1>1, <2>1
<1>3. QED
  BY <1>1, <1>2, SortedIs DEF IsReordering

LEMMA GreatestOfOne == ASSUME NEW i \in Int PROVE Greatest({i}) = i
  BY DEF Greatest

-----------------------------------------------------------------------------
(***************************************************************************)
(* What the numbers of a consistent plan mean.                             *)
(***************************************************************************)

LEMMA UriIs ==
  ASSUME NEW p, AnchorsApart(p.spaces), NEW i \in DOMAIN p.spaces
  PROVE  UriOf(p, p.spaces[i].anchor) = p.spaces[i].uri
<1> DEFINE S == {s \in ToSet(p.spaces) : s.anchor = p.spaces[i].anchor}
<1>1. S = {p.spaces[i]}
  BY DEF AnchorsApart, ToSet
<1>2. QED
  BY <1>1 DEF UriOf

LEMMA NoUriIs ==
  ASSUME NEW p, NEW space, \A i \in DOMAIN p.spaces : p.spaces[i].anchor # space
  PROVE  UriOf(p, space) = NoUri
BY DEF UriOf, ToSet

LEMMA FunctionIs ==
  ASSUME NEW p, AnchorsApart(p.extensions), NEW e \in DOMAIN p.extensions,
         p.extensions[e].kind = "function"
  PROVE  Function(p, p.extensions[e].anchor) = FunctionOf(p, e)
<1> DEFINE S == {f \in ToSet(p.extensions) :
                   f.kind = "function" /\ f.anchor = p.extensions[e].anchor}
<1>1. S = {p.extensions[e]}
  BY DEF AnchorsApart, ToSet
<1>2. QED
  BY <1>1 DEF Function, FunctionOf

\* What a consistent message is made of.
LEMMA CallingHas ==
  ASSUME NEW p, IsCalling(p), Consistent(p)
  PROVE  /\ \A i \in DOMAIN p.spaces :
              /\ DOMAIN p.spaces[i] = {"anchor", "uri"}
              /\ p.spaces[i].anchor \in Nat /\ p.spaces[i].uri # NoUri
         /\ \A e \in DOMAIN p.extensions :
              /\ DOMAIN p.extensions[e] = {"kind", "space", "name", "anchor"}
              /\ p.extensions[e].kind = "function"
              /\ p.extensions[e].space \in Nat /\ p.extensions[e].anchor \in Nat
         /\ \A c \in DOMAIN p.calls :
              DOMAIN p.calls[c] = {"path", "function"} /\ p.calls[c].function \in Nat
<1>1. /\ \A i \in DOMAIN p.spaces : p.spaces[i] \in ToSet(p.spaces)
      /\ \A e \in DOMAIN p.extensions : p.extensions[e] \in ToSet(p.extensions)
      /\ \A c \in DOMAIN p.calls : p.calls[c] \in ToSet(p.calls)
  BY DEF ToSet
<1>2. \A e \in DOMAIN p.extensions : p.extensions[e].kind = "function"
  BY DEF Consistent
<1>3. QED
  BY <1>1, <1>2 DEF IsCalling

-----------------------------------------------------------------------------
(***************************************************************************)
(* The normalizer.                                                         *)
(***************************************************************************)

LEMMA SpacesNormalized ==
  ASSUME NEW p, IsCalling(p), Consistent(p)
  PROVE  LET q == NormalizeSpaces(p)
         IN /\ IsCalling(q) /\ Consistent(q)
            /\ q.calls = p.calls
            /\ DOMAIN q.extensions = DOMAIN p.extensions
            /\ \A e \in DOMAIN p.extensions :
                 /\ q.extensions[e].anchor = p.extensions[e].anchor
                 /\ FunctionOf(q, e) = FunctionOf(p, e)
<1> DEFINE order == SpacesByUri(p)
           with(anchor) == {i \in DOMAIN order : p.spaces[order[i]].anchor = anchor}
           spaces == [i \in DOMAIN order |-> [p.spaces[order[i]] EXCEPT !.anchor = i]]
           renumbered(f) == IF f.kind = "function" /\ with(f.space) # {}
                            THEN [f EXCEPT !.space = Greatest(with(f.space))] ELSE f
           extensions == [e \in DOMAIN p.extensions |-> renumbered(p.extensions[e])]
           q == NormalizeSpaces(p)
<1>1. IsReordering(order, p.spaces) /\ IsSequence(order)
  <2>1. IsSequence(p.spaces) /\ IsStrictOrder(DOMAIN p.spaces, OrderOfSpaces(p))
    BY SpacesOrdered DEF IsCalling
  <2>2. order = Sorted(DOMAIN p.spaces, OrderOfSpaces(p))
    BY DEF SpacesByUri, OrderOfSpaces
  <2> HIDE DEF order
  <2>3. QED
    BY <2>1, <2>2, PositionsSorted
<1>2. DOMAIN order = 1..Len(order) /\ Len(order) \in Nat
  BY <1>1, SequenceHas
<1>3. /\ DOMAIN q = {"spaces", "extensions", "columns", "calls"}
      /\ q.spaces = spaces /\ q.extensions = extensions
      /\ q.columns = p.columns /\ q.calls = p.calls
  BY DEF NormalizeSpaces, IsCalling
<1> HIDE DEF q, order
<1>4. \A i \in DOMAIN order :
        /\ DOMAIN spaces[i] = {"anchor", "uri"}
        /\ spaces[i].anchor = i
        /\ spaces[i].uri = p.spaces[order[i]].uri /\ spaces[i].uri # NoUri
  BY <1>1, CallingHas DEF IsReordering
<1>5. ASSUME NEW e \in DOMAIN p.extensions
      PROVE  LET f == extensions[e]
             IN /\ DOMAIN f = {"kind", "space", "name", "anchor"}
                /\ f.kind = "function" /\ f.name = p.extensions[e].name
                /\ f.anchor = p.extensions[e].anchor /\ f.anchor \in Nat
                /\ \/ /\ f.space \in DOMAIN order
                      /\ p.spaces[order[f.space]].anchor = p.extensions[e].space
                   \/ /\ f.space = Unset
                      /\ \A i \in DOMAIN p.spaces : p.spaces[i].anchor # p.extensions[e].space
  <2> DEFINE g == p.extensions[e]
             f == extensions[e]
  <2>1. /\ DOMAIN g = {"kind", "space", "name", "anchor"}
        /\ g.kind = "function" /\ g.anchor \in Nat
    BY CallingHas
  <2>2. g.space = Unset \/ \E s \in DOMAIN p.spaces : p.spaces[s].anchor = g.space
    BY DEF Consistent
  <2>3. f = IF with(g.space) # {} THEN [g EXCEPT !.space = Greatest(with(g.space))] ELSE g
    BY <2>1
  <2> HIDE DEF g, f, with
  <2>4. CASE \E s \in DOMAIN p.spaces : p.spaces[s].anchor = g.space
    <3>1. PICK s \in DOMAIN p.spaces : p.spaces[s].anchor = g.space
      BY <2>4
    <3>2. PICK i \in DOMAIN order : order[i] = s
      BY <1>1 DEF IsReordering
    <3>3. with(g.space) = {i}
      BY <1>1, <3>1, <3>2 DEF with, IsReordering, Consistent, AnchorsApart
    <3>4. f = [g EXCEPT !.space = i]
      <4>1. i \in Int
        BY <1>2
      <4>2. Greatest({i}) = i
        BY <4>1, GreatestOfOne
      <4>3. QED
        BY <2>3, <3>3, <4>2
    <3>5. QED
      BY <2>1, <3>1, <3>2, <3>4 DEF g, f
  <2>5. CASE ~ \E s \in DOMAIN p.spaces : p.spaces[s].anchor = g.space
    <3>1. with(g.space) = {}
      BY <1>1, <2>5 DEF with, IsReordering
    <3>2. QED
      BY <2>1, <2>2, <2>3, <2>5, <3>1 DEF g, f
  <2>6. QED
    BY <2>4, <2>5
<1>6. DOMAIN spaces = DOMAIN order /\ DOMAIN extensions = DOMAIN p.extensions
  OBVIOUS
<1> HIDE DEF spaces, extensions, with
<1>7. AnchorsApart(q.spaces)
  BY <1>3, <1>4, <1>6 DEF AnchorsApart
<1>8. ASSUME NEW e \in DOMAIN p.extensions
      PROVE  FunctionOf(q, e) = FunctionOf(p, e)
  <2> DEFINE f == extensions[e]
  <2>1. f.name = p.extensions[e].name /\ q.extensions[e] = f
    BY <1>3, <1>5
  <2>2. CASE f.space \in DOMAIN order
                /\ p.spaces[order[f.space]].anchor = p.extensions[e].space
    <3>1. UriOf(q, q.spaces[f.space].anchor) = q.spaces[f.space].uri
      BY <1>3, <1>6, <1>7, <2>2, UriIs
    <3>2. UriOf(q, f.space) = p.spaces[order[f.space]].uri
      BY <1>3, <1>4, <2>2, <3>1
    <3>3. order[f.space] \in DOMAIN p.spaces /\ AnchorsApart(p.spaces)
      BY <1>1, <2>2 DEF IsReordering, Consistent
    <3>4. UriOf(p, p.extensions[e].space) = p.spaces[order[f.space]].uri
      BY <2>2, <3>3, UriIs
    <3>5. QED
      BY <2>1, <3>2, <3>4 DEF FunctionOf
  <2>3. CASE f.space = Unset
                /\ \A i \in DOMAIN p.spaces : p.spaces[i].anchor # p.extensions[e].space
    <3>1. UriOf(p, p.extensions[e].space) = NoUri
      BY <2>3, NoUriIs
    <3>2. \A i \in DOMAIN q.spaces : q.spaces[i].anchor # f.space
      BY <1>2, <1>3, <1>4, <1>6, <2>3 DEF Unset
    <3>3. UriOf(q, f.space) = NoUri
      BY <3>2, NoUriIs
    <3>4. QED
      BY <2>1, <3>1, <3>3 DEF FunctionOf
  <2>4. QED
    BY <1>5, <2>2, <2>3
<1>9. IsSequence(q.spaces) /\ IsSequence(q.extensions)
  <2>1. spaces = [i \in 1..Len(order) |-> spaces[i]]
    BY <1>2 DEF spaces
  <2>2. DOMAIN p.extensions = 1..Len(p.extensions) /\ Len(p.extensions) \in Nat
    BY SequenceHas DEF IsCalling
  <2>3. extensions = [e \in 1..Len(p.extensions) |-> extensions[e]]
    BY <2>2 DEF extensions
  <2>4. QED
    BY <1>2, <1>3, <2>1, <2>2, <2>3, ListIsSequence
<1>10. IsCalling(q)
  <2>1. \A s \in ToSet(q.spaces) :
          DOMAIN s = {"anchor", "uri"} /\ s.anchor \in Nat /\ s.uri # NoUri
    <3>1. \A i \in DOMAIN q.spaces : DOMAIN q.spaces[i] = {"anchor", "uri"}
                                    /\ q.spaces[i].anchor \in Nat /\ q.spaces[i].uri # NoUri
      BY <1>2, <1>3, <1>4, <1>6
    <3>2. QED
      BY <3>1 DEF ToSet
  <2>2. \A f \in ToSet(q.extensions) :
          DOMAIN f = {"kind", "space", "name", "anchor"} /\ f.space \in Nat /\ f.anchor \in Nat
    <3>1. \A e \in DOMAIN q.extensions :
            /\ DOMAIN q.extensions[e] = {"kind", "space", "name", "anchor"}
            /\ q.extensions[e].space \in Nat /\ q.extensions[e].anchor \in Nat
      BY <1>2, <1>3, <1>5, <1>6 DEF Unset
    <3>2. QED
      BY <3>1 DEF ToSet
  <2>3. QED
    BY <1>3, <1>9, <2>1, <2>2 DEF IsCalling
<1>11. Consistent(q)
  <2>1. AnchorsApart(q.extensions)
    BY <1>3, <1>5, <1>6 DEF Consistent, AnchorsApart
  <2>2. \A e \in DOMAIN q.extensions :
          /\ q.extensions[e].kind = "function"
          /\ \/ q.extensions[e].space = Unset
             \/ \E s \in DOMAIN q.spaces : q.spaces[s].anchor = q.extensions[e].space
    BY <1>3, <1>4, <1>5, <1>6
  <2>3. \A c \in DOMAIN q.calls :
          /\ Follows(q.calls[c].path)
          /\ \E e \in DOMAIN q.extensions : q.extensions[e].anchor = q.calls[c].function
    BY <1>3, <1>5, <1>6 DEF Consistent
  <2>4. QED
    BY <1>7, <2>1, <2>2, <2>3 DEF Consistent
<1>12. \A e \in DOMAIN p.extensions : q.extensions[e].anchor = p.extensions[e].anchor
  BY <1>3, <1>5
<1>13. QED
  BY <1>3, <1>6, <1>8, <1>10, <1>11, <1>12 DEF q

LEMMA FunctionsNormalized ==
  ASSUME NEW q, IsCalling(q), Consistent(q)
  PROVE  LET r == NormalizeFunctions(q)
         IN /\ DOMAIN r.calls = DOMAIN q.calls
            /\ \A c \in DOMAIN q.calls, e \in DOMAIN q.extensions :
                 q.extensions[e].anchor = q.calls[c].function =>
                   Function(r, r.calls[c].function) = FunctionOf(q, e)
<1> DEFINE order == FunctionsByName(q)
           function(i) == ExtensionFunction(q.extensions[order[i]])
           with(anchor) == {i \in DOMAIN order : function(i).anchor = anchor}
           renumbered(c) == IF Follows(c.path) /\ with(c.function) # {}
                            THEN [c EXCEPT !.function = Greatest(with(c.function)) - 1] ELSE c
           extensions == [i \in DOMAIN order |-> [function(i) EXCEPT !.anchor = i - 1]]
           calls == [c \in DOMAIN q.calls |-> renumbered(q.calls[c])]
           r == NormalizeFunctions(q)
<1>1. IsReordering(order, q.extensions) /\ IsSequence(order)
  <2>1. IsSequence(q.extensions) /\ IsStrictOrder(DOMAIN q.extensions, OrderOfFunctions(q))
    BY FunctionsOrdered DEF IsCalling
  <2>2. order = Sorted(DOMAIN q.extensions, OrderOfFunctions(q))
    BY DEF FunctionsByName, OrderOfFunctions
  <2> HIDE DEF order
  <2>3. QED
    BY <2>1, <2>2, PositionsSorted
<1>2. DOMAIN order = 1..Len(order) /\ Len(order) \in Nat
  BY <1>1, SequenceHas
<1>3. r.spaces = q.spaces /\ r.extensions = extensions /\ r.calls = calls
  BY DEF NormalizeFunctions, IsCalling
<1> HIDE DEF r, order
<1>4. \A i \in DOMAIN order : function(i) = q.extensions[order[i]]
  BY <1>1, CallingHas DEF IsReordering, ExtensionFunction
<1> HIDE DEF function
<1>5. \A i \in DOMAIN order :
        /\ extensions[i].anchor = i - 1 /\ extensions[i].kind = "function"
        /\ extensions[i].space = q.extensions[order[i]].space
        /\ extensions[i].name = q.extensions[order[i]].name
  BY <1>1, <1>4, CallingHas DEF IsReordering
<1>6. DOMAIN extensions = DOMAIN order /\ DOMAIN calls = DOMAIN q.calls
  OBVIOUS
<1>7. AnchorsApart(extensions)
  <2> HIDE DEF extensions
  <2>1. ASSUME NEW i \in DOMAIN order, NEW j \in DOMAIN order,
               extensions[i].anchor = extensions[j].anchor
        PROVE  i = j
    <3>1. i \in Int /\ j \in Int /\ i - 1 = j - 1
      BY <1>2, <1>5, <2>1
    <3>2. QED
      BY <3>1
  <2>2. QED
    BY <1>6, <2>1 DEF AnchorsApart
<1>8. ASSUME NEW c \in DOMAIN q.calls, NEW e \in DOMAIN q.extensions,
             q.extensions[e].anchor = q.calls[c].function
      PROVE  Function(r, r.calls[c].function) = FunctionOf(q, e)
  <2>1. PICK i \in DOMAIN order : order[i] = e
    BY <1>1 DEF IsReordering
  <2>2. AnchorsApart(q.extensions) /\ Follows(q.calls[c].path)
    BY DEF Consistent
  <2>3. with(q.calls[c].function) = {i}
    BY <1>1, <1>4, <1>8, <2>1, <2>2 DEF IsReordering, AnchorsApart
  <2>4. Greatest({i}) = i
    BY <1>2, GreatestOfOne
  <2>5. DOMAIN q.calls[c] = {"path", "function"}
    BY CallingHas
  <2>6. r.calls[c].function = i - 1
    <3> DEFINE d == q.calls[c]
    <3> HIDE DEF with, extensions
    <3>1. r.calls[c] = renumbered(d)
      BY <1>3
    <3>2. Greatest(with(d.function)) = i /\ with(d.function) # {}
      BY <2>3, <2>4
    <3>3. DOMAIN d = {"path", "function"} /\ Follows(d.path)
      BY <2>2, <2>5
    <3> HIDE DEF d
    <3>4. renumbered(d) = [d EXCEPT !.function = i - 1]
      BY <3>2, <3>3
    <3>5. QED
      BY <3>1, <3>3, <3>4
  <2> HIDE DEF extensions, calls, with
  <2>7. Function(r, r.extensions[i].anchor) = FunctionOf(r, i)
    BY <1>3, <1>5, <1>6, <1>7, FunctionIs
  <2>8. FunctionOf(r, i) = FunctionOf(q, e)
    <3>1. UriOf(r, q.extensions[e].space) = UriOf(q, q.extensions[e].space)
      BY <1>3 DEF UriOf
    <3>2. QED
      BY <1>3, <1>5, <2>1, <3>1 DEF FunctionOf
  <2>9. QED
    BY <1>3, <1>5, <2>6, <2>7, <2>8
<1>9. QED
  BY <1>3, <1>6, <1>8 DEF r

\* What is called keeps its meaning, whatever the numbers become.
LEMMA CallsNormalized ==
  ASSUME NEW p, IsCalling(p), Consistent(p)
  PROVE  Meaning(Normalized(p)) = Meaning(p)
<1> DEFINE q == NormalizeSpaces(p)
           r == NormalizeFunctions(q)
<1>1. /\ IsCalling(q) /\ Consistent(q)
      /\ q.calls = p.calls
      /\ DOMAIN q.extensions = DOMAIN p.extensions
      /\ \A e \in DOMAIN p.extensions :
           /\ q.extensions[e].anchor = p.extensions[e].anchor
           /\ FunctionOf(q, e) = FunctionOf(p, e)
  BY SpacesNormalized
<1> HIDE DEF q
<1>2. /\ DOMAIN r.calls = DOMAIN q.calls
      /\ \A c \in DOMAIN q.calls, e \in DOMAIN q.extensions :
           q.extensions[e].anchor = q.calls[c].function =>
             Function(r, r.calls[c].function) = FunctionOf(q, e)
  BY <1>1, FunctionsNormalized
<1> HIDE DEF r
<1>3. ASSUME NEW c \in DOMAIN p.calls
      PROVE  Function(r, r.calls[c].function) = Function(p, p.calls[c].function)
  <2>1. PICK e \in DOMAIN p.extensions : p.extensions[e].anchor = p.calls[c].function
    BY DEF Consistent
  <2>2. Function(r, r.calls[c].function) = FunctionOf(p, e)
    BY <1>1, <1>2, <2>1
  <2>3. p.extensions[e].kind = "function" /\ AnchorsApart(p.extensions)
    BY DEF Consistent
  <2>4. Function(p, p.extensions[e].anchor) = FunctionOf(p, e)
    BY <2>3, FunctionIs
  <2>5. QED
    BY <2>1, <2>2, <2>4
<1>4. Meaning(r) = Meaning(p)
  BY <1>1, <1>2, <1>3 DEF Meaning
<1>5. QED
  BY <1>4 DEF Normalized, q, r

-----------------------------------------------------------------------------
(***************************************************************************)
(* The stages.                                                             *)
(***************************************************************************)

LEMMA PlaceIs ==
  ASSUME NEW order, \A i, j \in DOMAIN order : order[i] = order[j] => i = j,
         NEW i \in DOMAIN order
  PROVE  Place(order, order[i]) = i
<1>1. order[i] \in ToSet(order)
  BY DEF ToSet
<1>2. QED
  BY <1>1 DEF Place

LEMMA StagesPlaced ==
  /\ Place(Stages, "spaces") = 1     /\ Place(Stages, "functions") = 2
  /\ Place(Stages, "uris") = 3       /\ Place(Stages, "extensions") = 4
  /\ Place(Stages, "calls") = 5      /\ Place(Stages, "print") = 6
  /\ Place(Stages, "columns") = 7    /\ Place(Stages, "sections") = 8
  /\ Place(Stages, "uses") = 9       /\ Place(Stages, "build") = 10
  /\ Place(Stages, "again") = 11     /\ Place(Stages, "done") = 12
<1>1. DOMAIN Stages = 1..12
  BY DEF Stages
<1>2. /\ Stages[1] = "spaces"     /\ Stages[2] = "functions"
      /\ Stages[3] = "uris"       /\ Stages[4] = "extensions"
      /\ Stages[5] = "calls"      /\ Stages[6] = "print"
      /\ Stages[7] = "columns"    /\ Stages[8] = "sections"
      /\ Stages[9] = "uses"       /\ Stages[10] = "build"
      /\ Stages[11] = "again"     /\ Stages[12] = "done"
  BY DEF Stages
<1> HIDE DEF Stages
<1>3. \A i, j \in DOMAIN Stages : Stages[i] = Stages[j] => i = j
  BY <1>1, <1>2
<1>4. \A i \in DOMAIN Stages : Place(Stages, Stages[i]) = i
  BY <1>3, PlaceIs
<1>5. QED
  BY <1>1, <1>2, <1>4

AStage(s) ==
  s \in {"spaces", "functions", "uris", "extensions", "calls", "print",
         "columns", "sections", "uses", "build", "again", "done"}

Follow(s, t) ==
  \/ s = "spaces"     /\ t = "functions"
  \/ s = "functions"  /\ t = "uris"
  \/ s = "uris"       /\ t = "extensions"
  \/ s = "extensions" /\ t = "calls"
  \/ s = "calls"      /\ t = "print"
  \/ s = "print"      /\ t = "columns"
  \/ s = "columns"    /\ t = "sections"
  \/ s = "sections"   /\ t = "uses"
  \/ s = "uses"       /\ t = "build"
  \/ s = "build"      /\ t = "again"
  \/ s = "again"      /\ t = "done"

LEMMA StageFollows ==
  ASSUME AStage(stage), NextStage
  PROVE  Follow(stage, stage') /\ next' = 1 /\ next > Len(Visited(stage))
<1>1. stage # "done" /\ stage' = Stages[Place(Stages, stage) + 1] /\ next' = 1
        /\ next > Len(Visited(stage))
  BY DEF NextStage
<1>2. /\ Stages[2] = "functions" /\ Stages[3] = "uris" /\ Stages[4] = "extensions"
      /\ Stages[5] = "calls" /\ Stages[6] = "print" /\ Stages[7] = "columns"
      /\ Stages[8] = "sections" /\ Stages[9] = "uses" /\ Stages[10] = "build"
      /\ Stages[11] = "again" /\ Stages[12] = "done"
  BY DEF Stages
<1> HIDE DEF Stages
<1>3. Follow(stage, stage')
  BY <1>1, <1>2, StagesPlaced DEF AStage, Follow
<1>4. QED
  BY <1>1, <1>3

-----------------------------------------------------------------------------
(***************************************************************************)
(* What the normalizer leaves.                                             *)
(***************************************************************************)

NormalInv ==
  /\ plan \in Plans
  /\ AStage(stage)
  /\ stage = "spaces" => normal = IF next = 1 THEN plan ELSE NormalizeSpaces(plan)
  /\ stage = "functions" =>
       normal = IF next = 1 THEN NormalizeSpaces(plan) ELSE Normalized(plan)
  /\ stage \notin {"spaces", "functions"} => normal = Normalized(plan)

LEMMA OneVisit ==
  ASSUME stage \in {"spaces", "functions", "print", "build", "again"}
  PROVE  Len(Visited(stage)) = 1 /\ DOMAIN Visited(stage) = {1}
<1>1. Visited(stage) = <<stage>>
  BY DEF Visited
<1>2. QED
  BY <1>1

LEMMA NormalInvInit == Init => NormalInv
  BY DEF Init, NormalInv, AStage, Stages

LEMMA NormalInvStep == NormalInv /\ [Next]_vars => NormalInv'
<1> SUFFICES ASSUME NormalInv, [Next]_vars
             PROVE  NormalInv'
  OBVIOUS
<1> USE DEF NormalInv
<1>1. CASE Normalize
  <2>1. CASE Visiting("spaces") /\ normal' = NormalizeSpaces(normal)
    <3>1. next = 1
      BY <2>1, OneVisit DEF Visiting
    <3>2. QED
      BY <2>1, <3>1 DEF Visiting
  <2>2. CASE Visiting("functions") /\ normal' = NormalizeFunctions(normal)
    <3>1. next = 1
      BY <2>2, OneVisit DEF Visiting
    <3>2. QED
      BY <2>2, <3>1 DEF Visiting, Normalized
  <2>3. QED
    BY <1>1, <2>1, <2>2 DEF Normalize
<1>2. CASE NextStage
  <2>1. plan' = plan /\ normal' = normal
    BY <1>2 DEF NextStage
  <2>2. Follow(stage, stage') /\ next' = 1 /\ next > Len(Visited(stage))
    BY <1>2, StageFollows
  <2>3. stage \in {"spaces", "functions"} => next # 1
    BY <2>2, OneVisit
  <2>4. AStage(stage')
    BY <2>2 DEF Follow, AStage
  <2>5. stage' # "spaces" /\ (stage' = "functions" => stage = "spaces")
          /\ (stage' = "uris" => stage = "functions")
          /\ (stage' \notin {"functions", "uris"} => stage \notin {"spaces", "functions"})
    BY <2>2 DEF Follow
  <2>6. QED
    BY <2>1, <2>2, <2>3, <2>4, <2>5
<1>3. ASSUME /\ stage \notin {"spaces", "functions"}
             /\ UNCHANGED <<plan, stage, normal>>
      PROVE  NormalInv'
  BY <1>3
<1>4. CASE VisitExtensionUri \/ VisitExtension \/ VisitScalarFunction
             \/ OutputFunctionsSection
  BY <1>3, <1>4 DEF VisitExtensionUri, VisitExtension, VisitScalarFunction,
                    OutputFunctionsSection, Visiting
<1>5. CASE VisitSchemaItem \/ EnterExtensionspace \/ VisitFunction \/ VisitExtensionspace
  BY <1>3, <1>5 DEF VisitSchemaItem, EnterExtensionspace, VisitFunction,
                    VisitExtensionspace, Visiting
<1>6. CASE VisitExpressionFunctionUse \/ OutputToBinaryPlan \/ OutputTextAgain
  BY <1>3, <1>6 DEF VisitExpressionFunctionUse, OutputToBinaryPlan, OutputTextAgain, Visiting
<1>7. CASE UNCHANGED vars
  BY <1>7 DEF vars
<1>8. QED
  BY <1>1, <1>2, <1>4, <1>5, <1>6, <1>7 DEF Next

LEMMA NormalInvAlways == Spec => []NormalInv
  BY NormalInvInit, NormalInvStep, PTL DEF Spec

(* Every plan that calls what it declares calls the same functions after   *)
(* ReferenceNormalizer has renumbered it.                                  *)
THEOREM NormalizingKeepsCalls ==
  (\A p \in Plans : Consistent(p)) => (Spec => []NormalKeepsCalls)
<1> SUFFICES ASSUME \A p \in Plans : Consistent(p)
             PROVE  Spec => []NormalKeepsCalls
  OBVIOUS
<1>1. NormalInv => NormalKeepsCalls
  <2> SUFFICES ASSUME NormalInv, Passed("functions")
               PROVE  Meaning(normal) = Meaning(plan)
    BY DEF NormalKeepsCalls
  <2>1. stage \notin {"spaces", "functions"}
    BY StagesPlaced DEF Passed
  <2>2. IsCalling(plan) /\ Consistent(plan) /\ normal = Normalized(plan)
    BY <2>1, PlansAssumption DEF NormalInv
  <2>3. QED
    BY <2>2, CallsNormalized
<1>2. QED
  BY <1>1, NormalInvAlways, PTL

-----------------------------------------------------------------------------
(***************************************************************************)
(* The converter's table.                                                  *)
(***************************************************************************)

SpaceConverted(p, t, d, i) ==
  /\ t.symbols[i].type = "space"
  /\ t.symbols[i].name = p.spaces[i].uri
  /\ d[i] = SpaceData(p.spaces[i].anchor)

FunctionConverted(p, t, d, i, e) ==
  /\ t.symbols[i].type = "function"
  /\ t.symbols[i].name = ShortNumbered(p, e)
  /\ d[i] = FunctionData(p.extensions[e].name, p.extensions[e].space, p.extensions[e].anchor)

ShortOf(p, e) == ShortName(p.extensions[e].name)

\* A short name is counted as often as it was asked for.
Counted(p, names, f) ==
  /\ DOMAIN names = {ShortOf(p, e) : e \in 1..f}
  /\ \A e \in 1..f :
       names[ShortOf(p, e)] = Cardinality({i \in 1..f : ShortOf(p, i) = ShortOf(p, e)})

\* The first s spaces and f functions have symbols.
Converted(p, t, d, s, f) ==
  /\ DOMAIN t = DOMAIN EmptyTable
  /\ s \in 0..Len(p.spaces) /\ f \in 0..Len(p.extensions)
  /\ IsSequence(t.symbols) /\ Len(t.symbols) = s + f
  /\ IsSequence(d) /\ Len(d) = s + f
  /\ \A i \in 1..s : SpaceConverted(p, t, d, i)
  /\ \A e \in 1..f : FunctionConverted(p, t, d, s + e, e)
  /\ Counted(p, t.names, f)

\* u is t with symbol n more.
DefinesOne(t, u, n, name, l, type) ==
  /\ DOMAIN u = DOMAIN EmptyTable
  /\ u.names = t.names
  /\ IsSequence(u.symbols) /\ Len(u.symbols) = n /\ n \in Nat
  /\ DOMAIN u.symbols = DOMAIN t.symbols \union {n} /\ n \notin DOMAIN t.symbols
  /\ \A i \in DOMAIN t.symbols : u.symbols[i] = t.symbols[i]
  /\ u.symbols[n] = NewSymbol(name, l, type)
  /\ u.byName = Insert(t.byName, name, n)
  /\ u.byLocation = InsertMulti(t.byLocation, l, n)

LEMMA DefineShape ==
  ASSUME NEW t, DOMAIN t = DOMAIN EmptyTable, IsSequence(t.symbols),
         NEW name, NEW l, NEW type,
         NEW n, n = Len(t.symbols) + 1,
         NEW u, u = DefineSymbol(t, name, l, type)
  PROVE  DefinesOne(t, u, n, name, l, type)
<1> DEFINE new == NewSymbol(name, l, type)
<1>1. /\ DOMAIN u = DOMAIN EmptyTable
      /\ u.names = t.names
      /\ u.symbols = Append(t.symbols, new)
      /\ u.byName = Insert(t.byName, name, n)
      /\ u.byLocation = InsertMulti(t.byLocation, l, n)
  BY DEF DefineSymbol, EmptyTable
<1> HIDE DEF new
<1>2. /\ IsSequence(u.symbols) /\ Len(u.symbols) = n /\ n \in Nat
      /\ DOMAIN u.symbols = DOMAIN t.symbols \union {n}
      /\ \A i \in DOMAIN t.symbols : i # n /\ u.symbols[i] = t.symbols[i]
      /\ u.symbols[n] = new
  BY <1>1, SequenceAppend
<1>3. QED
  BY <1>1, <1>2 DEF DefinesOne, new

LEMMA ConvertedBegins ==
  ASSUME NEW p, IsCalling(p)
  PROVE  Converted(p, EmptyTable, << >>, 0, 0)
<1>1. IsSequence(<< >>) /\ Len(<< >>) = 0
  BY DEF IsSequence
<1>2. DOMAIN EmptyTable.names = {} /\ EmptyTable.symbols = << >>
  BY DEF EmptyTable
<1>3. Len(p.spaces) \in Nat /\ Len(p.extensions) \in Nat
  BY SequenceHas DEF IsCalling
<1>4. Counted(p, EmptyTable.names, 0)
  BY <1>2 DEF Counted
<1>5. QED
  BY <1>1, <1>2, <1>3, <1>4 DEF Converted

LEMMA SpaceConverts ==
  ASSUME NEW p, IsCalling(p), NEW t, NEW d, NEW s, s + 1 \in DOMAIN p.spaces,
         Converted(p, t, d, s, 0), NEW l
  PROVE  Converted(p, DefineSymbol(t, p.spaces[s + 1].uri, l, "space"),
                   Append(d, SpaceData(p.spaces[s + 1].anchor)), s + 1, 0)
<1> DEFINE u == DefineSymbol(t, p.spaces[s + 1].uri, l, "space")
           e == Append(d, SpaceData(p.spaces[s + 1].anchor))
<1>1. /\ DOMAIN t = DOMAIN EmptyTable
      /\ s \in 0..Len(p.spaces) /\ 0 \in 0..Len(p.extensions)
      /\ IsSequence(t.symbols) /\ Len(t.symbols) = s
      /\ IsSequence(d) /\ Len(d) = s
      /\ \A i \in 1..s : SpaceConverted(p, t, d, i)
      /\ Counted(p, t.names, 0)
  BY DEF Converted
<1>2. /\ DOMAIN u = DOMAIN EmptyTable
      /\ u.names = t.names
      /\ IsSequence(u.symbols) /\ Len(u.symbols) = s + 1
      /\ \A i \in DOMAIN t.symbols : u.symbols[i] = t.symbols[i]
      /\ u.symbols[s + 1] = NewSymbol(p.spaces[s + 1].uri, l, "space")
  <2> DEFINE uri == p.spaces[s + 1].uri
  <2>1. u = DefineSymbol(t, uri, l, "space") /\ s + 1 = Len(t.symbols) + 1
    BY <1>1
  <2> HIDE DEF u, uri
  <2>2. DefinesOne(t, u, s + 1, uri, l, "space")
    BY <1>1, <2>1, DefineShape
  <2>3. QED
    BY <2>2 DEF DefinesOne, uri
<1>3. /\ IsSequence(e) /\ Len(e) = s + 1
      /\ \A i \in DOMAIN d : e[i] = d[i]
      /\ e[s + 1] = SpaceData(p.spaces[s + 1].anchor)
  BY <1>1, SequenceAppend
<1> HIDE DEF u, e
<1>4. DOMAIN t.symbols = 1..s /\ DOMAIN d = 1..s /\ s \in Nat
  BY <1>1, SequenceHas
<1>5. \A i \in 1..s : SpaceConverted(p, u, e, i)
  BY <1>1, <1>2, <1>3, <1>4 DEF SpaceConverted
<1>6. SpaceConverted(p, u, e, s + 1)
  BY <1>2, <1>3 DEF SpaceConverted, NewSymbol
<1>7. s + 1 \in 0..Len(p.spaces)
  BY <1>4, SequenceHas DEF IsCalling
<1>8. QED
  BY <1>1, <1>2, <1>3, <1>4, <1>5, <1>6, <1>7 DEF Converted, u, e

LEMMA NamesakesCounted ==
  ASSUME NEW p, NEW names, NEW f \in Nat, Counted(p, names, f)
  PROVE  LET base == ShortOf(p, f + 1)
             n    == Cardinality(Namesakes(p, f + 1))
         IN /\ n \in Nat
            /\ base \in DOMAIN names <=> Namesakes(p, f + 1) # {}
            /\ base \in DOMAIN names => names[base] = n
<1> DEFINE base == ShortOf(p, f + 1)
           same == {i \in 1..f : ShortOf(p, i) = base}
<1>1. Namesakes(p, f + 1) = same
  BY DEF Namesakes, ShortOf
<1>2. IsFiniteSet(1..f)
  BY FS_Interval
<1>3. Cardinality(same) \in Nat
  BY <1>2, FS_Subset, FS_CardinalityType
<1>4. base \in DOMAIN names <=> same # {}
  BY DEF Counted
<1>5. ASSUME base \in DOMAIN names
      PROVE  names[base] = Cardinality(same)
  <2>1. PICK e \in 1..f : ShortOf(p, e) = base
    BY <1>5 DEF Counted
  <2>2. QED
    BY <2>1 DEF Counted
<1>6. QED
  BY <1>1, <1>3, <1>4, <1>5

\* One more of the first f + 1 has the short name of f + 1.
LEMMA CountGoesOn ==
  ASSUME NEW p, NEW f \in Nat, NEW e \in 1..(f + 1)
  PROVE  LET before == {i \in 1..f : ShortOf(p, i) = ShortOf(p, e)}
             after  == {i \in 1..(f + 1) : ShortOf(p, i) = ShortOf(p, e)}
         IN /\ Cardinality(before) \in Nat
            /\ Cardinality(after) =
                 IF ShortOf(p, e) = ShortOf(p, f + 1) THEN Cardinality(before) + 1
                 ELSE Cardinality(before)
<1> DEFINE before == {i \in 1..f : ShortOf(p, i) = ShortOf(p, e)}
           after  == {i \in 1..(f + 1) : ShortOf(p, i) = ShortOf(p, e)}
<1>1. IsFiniteSet(1..f)
  BY FS_Interval
<1>2. IsFiniteSet(before) /\ Cardinality(before) \in Nat
  BY <1>1, FS_Subset, FS_CardinalityType
<1>3. CASE ShortOf(p, e) = ShortOf(p, f + 1)
  <2>1. after = before \union {f + 1} /\ f + 1 \notin before
    BY <1>3
  <2>2. QED
    BY <1>2, <1>3, <2>1, FS_AddElement
<1>4. CASE ShortOf(p, e) # ShortOf(p, f + 1)
  <2>1. after = before
    BY <1>4
  <2>2. QED
    BY <1>2, <1>4, <2>1
<1>5. QED
  BY <1>3, <1>4

LEMMA NameCounts ==
  ASSUME NEW p, NEW names, NEW f \in Nat, Counted(p, names, f)
  PROVE  Counted(p, Put(names, ShortOf(p, f + 1),
                        IF ShortOf(p, f + 1) \in DOMAIN names
                        THEN names[ShortOf(p, f + 1)] + 1 ELSE 1), f + 1)
<1> DEFINE base  == ShortOf(p, f + 1)
           count == IF base \in DOMAIN names THEN names[base] + 1 ELSE 1
           new   == Put(names, base, count)
           before(e) == {i \in 1..f : ShortOf(p, i) = ShortOf(p, e)}
           after(e)  == {i \in 1..(f + 1) : ShortOf(p, i) = ShortOf(p, e)}
<1>1. 1..(f + 1) = (1..f) \union {f + 1}
  OBVIOUS
<1>2. /\ DOMAIN new = DOMAIN names \union {base}
      /\ new[base] = count
      /\ \A x \in DOMAIN names : x # base => new[x] = names[x]
  BY DEF Put
<1>3. DOMAIN new = {ShortOf(p, e) : e \in 1..(f + 1)}
  BY <1>1, <1>2 DEF Counted
<1>4. \A e \in 1..(f + 1) :
        /\ Cardinality(before(e)) \in Nat
        /\ Cardinality(after(e)) = IF ShortOf(p, e) = base THEN Cardinality(before(e)) + 1
                                   ELSE Cardinality(before(e))
  BY CountGoesOn
<1>5. \A e \in 1..f : names[ShortOf(p, e)] = Cardinality(before(e)) /\ ShortOf(p, e) \in DOMAIN names
  BY DEF Counted
<1>6. count = Cardinality(after(f + 1))
  <2>1. CASE base \in DOMAIN names
    <3>1. PICK e \in 1..f : ShortOf(p, e) = base
      BY <2>1 DEF Counted
    <3>2. names[base] = Cardinality(before(f + 1))
      BY <1>5, <3>1
    <3>3. QED
      BY <1>1, <1>4, <2>1, <3>2
  <2>2. CASE base \notin DOMAIN names
    <3>1. before(f + 1) = {}
      BY <2>2 DEF Counted
    <3>2. Cardinality(before(f + 1)) = 0
      BY <3>1, FS_EmptySet
    <3>3. QED
      BY <1>1, <1>4, <2>2, <3>2
  <2>3. QED
    BY <2>1, <2>2
<1>7. ASSUME NEW e \in 1..(f + 1)
      PROVE  new[ShortOf(p, e)] = Cardinality(after(e))
  <2>1. CASE ShortOf(p, e) = base
    <3>1. after(e) = after(f + 1)
      BY <2>1
    <3>2. QED
      BY <1>2, <1>6, <2>1, <3>1
  <2>2. CASE ShortOf(p, e) # base
    <3>1. e \in 1..f
      BY <1>1, <2>2
    <3>2. QED
      BY <1>2, <1>4, <1>5, <2>2, <3>1
  <2>3. QED
    BY <2>1, <2>2
<1> HIDE DEF new, after
<1>8. Counted(p, new, f + 1)
  BY <1>3, <1>7 DEF Counted, after
<1>9. QED
  BY <1>8 DEF new

LEMMA FunctionConverts ==
  ASSUME NEW p, IsCalling(p), NEW t, NEW d, NEW f, f + 1 \in DOMAIN p.extensions,
         Converted(p, t, d, Len(p.spaces), f), NEW l
  PROVE  LET x == p.extensions[f + 1]
         IN Converted(p, DefineFunction(t, x, l),
                      Append(d, FunctionData(x.name, x.space, x.anchor)),
                      Len(p.spaces), f + 1)
<1> DEFINE x == p.extensions[f + 1]
           base == ShortName(x.name)
           v == CountName(t, base)
           name == UniqueName(t, base)
           u == DefineFunction(t, x, l)
           e == Append(d, FunctionData(x.name, x.space, x.anchor))
           s == Len(p.spaces)
<1>1. /\ DOMAIN t = DOMAIN EmptyTable
      /\ s \in 0..s /\ f \in 0..Len(p.extensions) /\ s \in Nat /\ f \in Nat
      /\ IsSequence(t.symbols) /\ Len(t.symbols) = s + f
      /\ IsSequence(d) /\ Len(d) = s + f
      /\ \A i \in 1..s : SpaceConverted(p, t, d, i)
      /\ \A i \in 1..f : FunctionConverted(p, t, d, s + i, i)
      /\ Counted(p, t.names, f)
  BY DEF Converted
<1> HIDE DEF s, e
<1> DEFINE n == s + (f + 1)
<1>0. n = Len(t.symbols) + 1 /\ n = Len(d) + 1 /\ n \in Nat
  <2>1. s \in Nat /\ f \in Nat /\ Len(t.symbols) = s + f /\ Len(d) = s + f
    BY <1>1
  <2>2. QED
    BY <2>1
<1> HIDE DEF n
<1>2. /\ DOMAIN v = DOMAIN EmptyTable
      /\ v.symbols = t.symbols
      /\ v.names = Put(t.names, base, IF base \in DOMAIN t.names THEN t.names[base] + 1 ELSE 1)
  BY <1>1 DEF CountName, EmptyTable
<1>3. Counted(p, v.names, f + 1)
  <2>1. base = ShortOf(p, f + 1)
    BY DEF ShortOf
  <2> HIDE DEF base
  <2>2. QED
    BY <1>1, <1>2, <2>1, NameCounts
<1>4. name = ShortNumbered(p, f + 1)
  <2>1. /\ base \in DOMAIN t.names <=> Namesakes(p, f + 1) # {}
        /\ base \in DOMAIN t.names =>
             t.names[base] = Cardinality(Namesakes(p, f + 1))
    BY <1>1, NamesakesCounted DEF ShortOf
  <2>2. QED
    BY <2>1 DEF UniqueName, ShortNumbered
<1>5. u = DefineSymbol(v, name, l, "function")
  BY DEF DefineFunction, DefineUniqueSymbol
<1> HIDE DEF u, v, name
<1>6. /\ DOMAIN u = DOMAIN EmptyTable
      /\ u.names = v.names
      /\ IsSequence(u.symbols) /\ Len(u.symbols) = n
      /\ \A i \in DOMAIN t.symbols : u.symbols[i] = t.symbols[i]
      /\ u.symbols[n] = NewSymbol(name, l, "function")
  <2>1. /\ n = Len(v.symbols) + 1 /\ IsSequence(v.symbols) /\ DOMAIN v = DOMAIN EmptyTable
        /\ u = DefineSymbol(v, name, l, "function")
    BY <1>0, <1>1, <1>2, <1>5
  <2>2. DefinesOne(v, u, n, name, l, "function")
    BY <2>1, DefineShape
  <2>3. QED
    BY <1>2, <2>2 DEF DefinesOne
<1>7. /\ IsSequence(e) /\ Len(e) = n
      /\ \A i \in DOMAIN d : e[i] = d[i]
      /\ e[n] = FunctionData(x.name, x.space, x.anchor)
  <2> DEFINE new == FunctionData(x.name, x.space, x.anchor)
  <2>1. e = Append(d, new) /\ n = Len(d) + 1 /\ IsSequence(d)
    BY <1>0, <1>1 DEF e
  <2> HIDE DEF new
  <2>2. /\ IsSequence(e) /\ Len(e) = n
        /\ \A i \in DOMAIN d : e[i] = d[i]
        /\ e[n] = new
    BY <2>1, SequenceAppend
  <2>3. QED
    BY <2>2 DEF new
<1>8. DOMAIN t.symbols = 1..(s + f) /\ DOMAIN d = 1..(s + f)
  BY <1>1, SequenceHas
<1>9. ASSUME NEW i \in 1..s
      PROVE  SpaceConverted(p, u, e, i)
  <2>1. i \in DOMAIN t.symbols /\ i \in DOMAIN d
    BY <1>1, <1>8
  <2>2. SpaceConverted(p, t, d, i) /\ u.symbols[i] = t.symbols[i] /\ e[i] = d[i]
    BY <1>1, <1>6, <1>7, <2>1
  <2>3. QED
    BY <2>2 DEF SpaceConverted
<1>10. \A i \in 1..f : FunctionConverted(p, u, e, s + i, i)
  <2>1. \A i \in 1..f : s + i \in DOMAIN t.symbols /\ s + i \in DOMAIN d
    BY <1>1, <1>8
  <2>2. \A i \in 1..f : u.symbols[s + i] = t.symbols[s + i] /\ e[s + i] = d[s + i]
    BY <1>6, <1>7, <2>1
  <2>3. ASSUME NEW i \in 1..f
        PROVE  FunctionConverted(p, u, e, s + i, i)
    <3>1. FunctionConverted(p, t, d, s + i, i)
      BY <1>1
    <3>2. u.symbols[s + i] = t.symbols[s + i] /\ e[s + i] = d[s + i]
      BY <2>2
    <3>3. QED
      BY <3>1, <3>2 DEF FunctionConverted
  <2>4. QED
    BY <2>3
<1>11. FunctionConverted(p, u, e, n, f + 1)
  <2>1. u.symbols[n].type = "function" /\ u.symbols[n].name = name
    BY <1>6 DEF NewSymbol
  <2>2. QED
    BY <1>4, <1>7, <2>1 DEF FunctionConverted
<1>12. \A i \in 1..(f + 1) : FunctionConverted(p, u, e, s + i, i)
  <2>1. \A i \in 1..(f + 1) : i \in 1..f \/ i = f + 1
    BY <1>1
  <2>2. QED
    BY <1>10, <1>11, <2>1 DEF n
<1>13. f + 1 \in 0..Len(p.extensions) /\ s \in 0..Len(p.spaces)
  BY <1>1, SequenceHas DEF IsCalling, s
<1>14. QED
  BY <1>3, <1>6, <1>7, <1>9, <1>12, <1>13 DEF Converted, u, e, n, s

-----------------------------------------------------------------------------
(***************************************************************************)
(* The sections of the text.                                               *)
(***************************************************************************)

\* Function e of plan p is the j-th of section k.
PrintedAt(p, sections, k, j, e) ==
  /\ sections[k].functions[j].name = p.extensions[e].name
  /\ sections[k].functions[j].as = ShortNumbered(p, e)
  /\ sections[k].uri = UriOf(p, p.extensions[e].space)

\* Every function is printed once, in a section with its URI.
Placed(p, sections) ==
  /\ IsSequence(sections)
  /\ \A k \in DOMAIN sections : IsSequence(sections[k].functions)
  /\ \A k \in DOMAIN sections :
       sections[k].uri = NoUri \/ \E s \in DOMAIN p.spaces : sections[k].uri = p.spaces[s].uri
  /\ \A k \in DOMAIN sections : \A j \in DOMAIN sections[k].functions :
       \E e \in DOMAIN p.extensions : PrintedAt(p, sections, k, j, e)
  /\ \A e \in DOMAIN p.extensions :
       \E k \in DOMAIN sections : \E j \in DOMAIN sections[k].functions :
         PrintedAt(p, sections, k, j, e)
  /\ \A k, l \in DOMAIN sections :
       \A j \in DOMAIN sections[k].functions, m \in DOMAIN sections[l].functions :
         sections[k].functions[j].as = sections[l].functions[m].as => k = l /\ j = m

\* A space that functions may have.
SpaceKnown(p, space) ==
  space = Unset \/ \E s \in DOMAIN p.spaces : p.spaces[s].anchor = space

LEMMA UrisApart ==
  ASSUME NEW p, IsCalling(p), Consistent(p), NamesApart(p),
         NEW a, NEW b, SpaceKnown(p, a), SpaceKnown(p, b), UriOf(p, a) = UriOf(p, b)
  PROVE  a = b
<1>1. AnchorsApart(p.spaces)
  BY DEF Consistent
<1>2. \A x : (\E s \in DOMAIN p.spaces : p.spaces[s].anchor = x) =>
        \E s \in DOMAIN p.spaces : p.spaces[s].anchor = x /\ UriOf(p, x) = p.spaces[s].uri
  BY <1>1, UriIs
<1>3. \A x : (~ \E s \in DOMAIN p.spaces : p.spaces[s].anchor = x) => UriOf(p, x) = NoUri
  BY NoUriIs
<1>4. \A s \in DOMAIN p.spaces : p.spaces[s].uri # NoUri
  BY CallingHas
<1>5. \A i, j \in DOMAIN p.spaces : p.spaces[i].uri = p.spaces[j].uri => i = j
  BY DEF NamesApart
<1>6. CASE \E s \in DOMAIN p.spaces : p.spaces[s].anchor = a
  <2>1. PICK s \in DOMAIN p.spaces : p.spaces[s].anchor = a /\ UriOf(p, a) = p.spaces[s].uri
    BY <1>2, <1>6
  <2>2. \E r \in DOMAIN p.spaces : p.spaces[r].anchor = b
    BY <1>3, <1>4, <2>1
  <2>3. PICK r \in DOMAIN p.spaces : p.spaces[r].anchor = b /\ UriOf(p, b) = p.spaces[r].uri
    BY <1>2, <2>2
  <2>4. QED
    BY <1>5, <2>1, <2>3
<1>7. CASE ~ \E s \in DOMAIN p.spaces : p.spaces[s].anchor = a
  <2>1. UriOf(p, b) = NoUri
    BY <1>3, <1>7
  <2>2. ~ \E r \in DOMAIN p.spaces : p.spaces[r].anchor = b
    BY <1>2, <1>4, <2>1
  <2>3. QED
    BY <1>7, <2>2 DEF SpaceKnown
<1>8. QED
  BY <1>6, <1>7

\* The symbol of function e, and the function of symbol i.
SymbolFor(p, e)   == Len(p.spaces) + e
ExtensionOf(p, i) == i - Len(p.spaces)

\* What a table of a whole plan has.
SpacesOfPlan(p, t, d) ==
  /\ OfType(t, "space") = DOMAIN p.spaces
  /\ \A i \in DOMAIN p.spaces :
       d[i].anchor = p.spaces[i].anchor /\ t.symbols[i].name = p.spaces[i].uri

FunctionsOfPlan(p, t, d) ==
  /\ \A e \in DOMAIN p.extensions :
       SymbolFor(p, e) \in OfType(t, "function") /\ ExtensionOf(p, SymbolFor(p, e)) = e
  /\ \A i \in OfType(t, "function") :
       /\ ExtensionOf(p, i) \in DOMAIN p.extensions
       /\ SymbolFor(p, ExtensionOf(p, i)) = i
       /\ t.symbols[i].name = ShortNumbered(p, ExtensionOf(p, i))
       /\ d[i].name = p.extensions[ExtensionOf(p, i)].name
       /\ d[i].space = p.extensions[ExtensionOf(p, i)].space
       /\ d[i].anchor = p.extensions[ExtensionOf(p, i)].anchor
  /\ IsFiniteSet(OfType(t, "function")) /\ OfType(t, "function") \in SUBSET Nat

LEMMA ConvertedHas ==
  ASSUME NEW p, IsCalling(p), Consistent(p), NEW t, NEW d,
         Converted(p, t, d, Len(p.spaces), Len(p.extensions))
  PROVE  SpacesOfPlan(p, t, d) /\ FunctionsOfPlan(p, t, d)
<1> DEFINE s == Len(p.spaces)
           n == Len(p.extensions)
           F == OfType(t, "function")
<1>1. s \in Nat /\ n \in Nat /\ DOMAIN p.spaces = 1..s /\ DOMAIN p.extensions = 1..n
  BY SequenceHas DEF IsCalling
<1>2. /\ DOMAIN t.symbols = 1..(s + n)
      /\ \A i \in 1..s : SpaceConverted(p, t, d, i)
      /\ \A e \in 1..n : FunctionConverted(p, t, d, s + e, e)
  BY SequenceHas DEF Converted
<1> HIDE DEF s, n
<1>3. \A i \in 1..s : /\ t.symbols[i].type = "space" /\ t.symbols[i].name = p.spaces[i].uri
                      /\ d[i].anchor = p.spaces[i].anchor
  <2>1. ASSUME NEW i \in 1..s
        PROVE  /\ t.symbols[i].type = "space" /\ t.symbols[i].name = p.spaces[i].uri
               /\ d[i].anchor = p.spaces[i].anchor
    <3>1. SpaceConverted(p, t, d, i)
      BY <1>2
    <3>2. QED
      BY <3>1 DEF SpaceConverted, SpaceData, FunctionData
  <2>2. QED
    BY <2>1
<1>4. \A e \in 1..n : /\ t.symbols[s + e].type = "function"
                      /\ t.symbols[s + e].name = ShortNumbered(p, e)
                      /\ d[s + e].name = p.extensions[e].name
                      /\ d[s + e].space = p.extensions[e].space
                      /\ d[s + e].anchor = p.extensions[e].anchor
  <2>1. ASSUME NEW e \in 1..n
        PROVE  FunctionConverted(p, t, d, s + e, e)
    BY <1>2
  <2>2. ASSUME NEW e \in 1..n
        PROVE  /\ t.symbols[s + e].type = "function"
               /\ t.symbols[s + e].name = ShortNumbered(p, e)
               /\ d[s + e].name = p.extensions[e].name
               /\ d[s + e].space = p.extensions[e].space
               /\ d[s + e].anchor = p.extensions[e].anchor
    <3>1. FunctionConverted(p, t, d, s + e, e)
      BY <2>1
    <3>2. QED
      BY <3>1 DEF FunctionConverted, FunctionData
  <2>3. QED
    BY <2>2
<1>5. \A i \in 1..(s + n) : i \in 1..s \/ (i - s \in 1..n /\ i = s + (i - s))
  BY <1>1
<1>6. \A e \in 1..n : s + e \in 1..(s + n) /\ s + e \notin 1..s
  BY <1>1
<1>7. \A i \in 1..s : i \in 1..(s + n)
  BY <1>1
<1>8. \A i \in 1..(s + n) : t.symbols[i].type = "function" => i \notin 1..s
  BY <1>3
<1>9. \A i \in 1..(s + n) : t.symbols[i].type = "space" => i \in 1..s
  <2>1. ASSUME NEW i \in 1..(s + n), i \notin 1..s
        PROVE  t.symbols[i].type = "function"
    BY <1>4, <1>5, <2>1
  <2>2. QED
    BY <2>1
<1>10. OfType(t, "space") = 1..s
  BY <1>2, <1>3, <1>7, <1>9 DEF OfType
<1>11. \A i \in F : i \in 1..(s + n) /\ i - s \in 1..n /\ i = s + (i - s)
  BY <1>2, <1>5, <1>8 DEF OfType
<1>12. \A e \in 1..n : s + e \in F
  BY <1>2, <1>4, <1>6 DEF OfType
<1>13. IsFiniteSet(1..(s + n)) /\ F \in SUBSET (1..(s + n))
  <2>1. 1 \in Int /\ s + n \in Int
    BY <1>1
  <2>2. IsFiniteSet(1..(s + n))
    BY <2>1, FS_Interval
  <2> HIDE DEF F
  <2>3. QED
    BY <1>11, <2>2
<1>14. IsFiniteSet(F) /\ F \in SUBSET Nat
  BY <1>1, <1>13, FS_Subset
<1>15. ASSUME NEW i \in F
       PROVE  /\ ExtensionOf(p, i) \in DOMAIN p.extensions
              /\ SymbolFor(p, ExtensionOf(p, i)) = i
              /\ t.symbols[i].name = ShortNumbered(p, ExtensionOf(p, i))
              /\ d[i].name = p.extensions[ExtensionOf(p, i)].name
              /\ d[i].space = p.extensions[ExtensionOf(p, i)].space
              /\ d[i].anchor = p.extensions[ExtensionOf(p, i)].anchor
  <2> DEFINE e == i - s
  <2>1. e \in 1..n /\ i = s + e
    BY <1>11
  <2>2. e = ExtensionOf(p, i) /\ SymbolFor(p, e) = s + e
    BY DEF ExtensionOf, SymbolFor, s
  <2> HIDE DEF e
  <2>3. QED
    BY <1>1, <1>4, <2>1, <2>2
<1>16. ASSUME NEW e \in DOMAIN p.extensions
       PROVE  SymbolFor(p, e) \in F /\ ExtensionOf(p, SymbolFor(p, e)) = e
  <2>1. s + e \in F /\ (s + e) - s = e
    BY <1>1, <1>12
  <2>2. QED
    BY <2>1 DEF ExtensionOf, SymbolFor, s
<1>17. QED
  BY <1>1, <1>3, <1>10, <1>14, <1>15, <1>16 DEF SpacesOfPlan, FunctionsOfPlan

LEMMA SpaceNameIs ==
  ASSUME NEW p, IsCalling(p), Consistent(p), NEW t, NEW d,
         Converted(p, t, d, Len(p.spaces), Len(p.extensions)), NEW space
  PROVE  SpaceName(t, d, space) = UriOf(p, space)
<1> DEFINE S == {i \in OfType(t, "space") : d[i].anchor = space}
<1>1. /\ OfType(t, "space") = DOMAIN p.spaces
      /\ \A i \in DOMAIN p.spaces :
           d[i].anchor = p.spaces[i].anchor /\ t.symbols[i].name = p.spaces[i].uri
  BY ConvertedHas DEF SpacesOfPlan
<1>2. DOMAIN p.spaces = 1..Len(p.spaces) /\ Len(p.spaces) \in Nat
  BY SequenceHas DEF IsCalling
<1>3. AnchorsApart(p.spaces)
  BY DEF Consistent
<1>4. CASE \E i \in DOMAIN p.spaces : p.spaces[i].anchor = space
  <2>1. PICK i \in DOMAIN p.spaces : p.spaces[i].anchor = space
    BY <1>4
  <2>2. S = {i}
    BY <1>1, <1>3, <2>1 DEF AnchorsApart
  <2>3. i \in Nat /\ i # NoSymbol
    BY <1>2 DEF NoSymbol
  <2>4. First(S) = i
    BY <2>2, <2>3, FirstIs
  <2>5. SpaceName(t, d, space) = t.symbols[i].name
    BY <2>3, <2>4 DEF SpaceName
  <2>6. UriOf(p, space) = p.spaces[i].uri
    BY <1>3, <2>1, UriIs
  <2>7. QED
    BY <1>1, <2>5, <2>6
<1>5. CASE ~ \E i \in DOMAIN p.spaces : p.spaces[i].anchor = space
  <2>1. S = {}
    BY <1>1, <1>5
  <2>2. SpaceName(t, d, space) = NoUri
    BY <2>1 DEF SpaceName, First
  <2>3. UriOf(p, space) = NoUri
    BY <1>5, NoUriIs
  <2>4. QED
    BY <2>2, <2>3
<1>6. QED
  BY <1>4, <1>5

LEMMA FunctionsHaveSpaces ==
  ASSUME NEW p, IsCalling(p), Consistent(p), NEW e \in DOMAIN p.extensions
  PROVE  SpaceKnown(p, p.extensions[e].space) /\ p.extensions[e].space # NoSpace
<1>1. p.extensions[e].space \in Nat
  BY CallingHas
<1>2. QED
  BY <1>1 DEF Consistent, SpaceKnown, NoSpace

\* The spaces that are used, and in a list.
LEMMA UsedSpacesAre ==
  ASSUME NEW p, IsCalling(p), Consistent(p), NamesApart(p), NEW t, NEW d,
         Converted(p, t, d, Len(p.spaces), Len(p.extensions))
  PROVE  LET used == UsedSpaces(t, d)
         IN /\ IsSequence(used)
            /\ \A k \in DOMAIN used : \E e \in DOMAIN p.extensions :
                 used[k] = p.extensions[e].space
            /\ \A e \in DOMAIN p.extensions : \E k \in DOMAIN used :
                 used[k] = p.extensions[e].space
            /\ \A k, l \in DOMAIN used : used[k] = used[l] => k = l
<1> DEFINE F == OfType(t, "function")
           named(x) == SpaceName(t, d, x)
           first == {i \in F : \A j \in F : j < i => named(d[j].space) # named(d[i].space)}
           used == {d[i].space : i \in first}
           R == Ordered(used, LAMBDA a, b : Before(Uris, named(a), named(b)))
<1>0. FunctionsOfPlan(p, t, d)
  BY ConvertedHas
<1>1. /\ \A e \in DOMAIN p.extensions :
           SymbolFor(p, e) \in F /\ ExtensionOf(p, SymbolFor(p, e)) = e
      /\ IsFiniteSet(F) /\ F \in SUBSET Nat
  BY <1>0 DEF FunctionsOfPlan
<1>2. \A i \in F : /\ ExtensionOf(p, i) \in DOMAIN p.extensions
                   /\ d[i].space = p.extensions[ExtensionOf(p, i)].space
  BY <1>0 DEF FunctionsOfPlan
<1>3. \A x : named(x) = UriOf(p, x)
  BY SpaceNameIs
<1>4. UsedSpaces(t, d) = Sorted(used, R)
  BY DEF UsedSpaces
<1> HIDE DEF F, named
<1>5. ASSUME NEW i \in F
      PROVE  \E j \in first : d[j].space = d[i].space
  <2> DEFINE same == {j \in F : named(d[j].space) = named(d[i].space)}
  <2>1. same \in SUBSET Nat /\ same # {}
    BY <1>1
  <2>2. PICK j \in same : \A m \in same : j <= m
    BY <2>1, LeastNumber
  <2>3. \A m \in F : m < j => m \notin same
    BY <1>1, <2>1, <2>2
  <2>4. j \in first
    BY <2>2, <2>3
  <2>5. d[j].space = d[i].space
    <3>1. UriOf(p, d[j].space) = UriOf(p, d[i].space)
      BY <1>3, <2>2
    <3>2. SpaceKnown(p, d[j].space) /\ SpaceKnown(p, d[i].space)
      BY <1>1, <1>2, <2>2, FunctionsHaveSpaces
    <3>3. QED
      BY <3>1, <3>2, UrisApart
  <2>6. QED
    BY <2>4, <2>5
<1>6. used = {d[i].space : i \in F}
  BY <1>5
<1>7. IsFiniteSet(used)
  <2> DEFINE f == [i \in F |-> d[i].space]
  <2>1. f \in Surjection(F, used)
    BY <1>6 DEF Surjection
  <2>2. QED
    BY <1>1, <2>1, FS_Surjection
<1>8. \A x \in used : \E e \in DOMAIN p.extensions : x = p.extensions[e].space
  BY <1>2
<1>9. \A e \in DOMAIN p.extensions : p.extensions[e].space \in used
  BY <1>1, <1>2, <1>6
<1> HIDE DEF used
<1>10. IsStrictOrder(used, R)
  <2> DEFINE at(x) == Place(Uris, named(x))
  <2>1. \A x, y \in used : <<x, y>> \in R <=> at(x) < at(y)
    BY DEF Ordered, Before
  <2>2. \A x \in used : at(x) \in Nat
    BY PlaceIsNumber, OrdersAssumption
  <2> HIDE DEF at, R
  <2>3. QED
    BY <2>1, <2>2 DEF IsStrictOrder
<1> HIDE DEF R
<1>11. /\ IsSequence(Sorted(used, R))
       /\ \A i \in DOMAIN Sorted(used, R) : Sorted(used, R)[i] \in used
       /\ \A i, j \in DOMAIN Sorted(used, R) : Sorted(used, R)[i] = Sorted(used, R)[j] => i = j
       /\ \A x \in used : \E i \in DOMAIN Sorted(used, R) : Sorted(used, R)[i] = x
  BY <1>7, <1>10, SortedIs
<1>12. QED
  BY <1>4, <1>8, <1>9, <1>11

\* The functions of a space, each once.
SectionFor(p, section, space) ==
  /\ section.uri = UriOf(p, space)
  /\ IsSequence(section.functions)
  /\ \A j \in DOMAIN section.functions : \E e \in DOMAIN p.extensions :
       /\ p.extensions[e].space = space
       /\ section.functions[j].name = p.extensions[e].name
       /\ section.functions[j].as = ShortNumbered(p, e)
  /\ \A e \in DOMAIN p.extensions : p.extensions[e].space = space =>
       \E j \in DOMAIN section.functions :
         /\ section.functions[j].name = p.extensions[e].name
         /\ section.functions[j].as = ShortNumbered(p, e)
  /\ \A j, m \in DOMAIN section.functions :
       section.functions[j].as = section.functions[m].as => j = m

LEMMA SectionIs ==
  ASSUME NEW p, IsCalling(p), Consistent(p), NamesApart(p), NEW t, NEW d,
         Converted(p, t, d, Len(p.spaces), Len(p.extensions)),
         NEW space, space # NoSpace
  PROVE  SectionFor(p, Section(t, d, space), space)
<1> DEFINE F == FunctionsOf(t, d, space)
           short(i) == t.symbols[i].name
           R == Ordered(F, LAMBDA i, j :
                  \/ Before(ShortNames, short(i), short(j))
                  \/ short(i) = short(j) /\ Before(Names, d[i].name, d[j].name))
           fs == Sorted(F, R)
           section == Section(t, d, space)
<1>0. FunctionsOfPlan(p, t, d)
  BY ConvertedHas
<1>1. \A e \in DOMAIN p.extensions :
        p.extensions[e].space = space => SymbolFor(p, e) \in F /\ ExtensionOf(p, SymbolFor(p, e)) = e
  BY <1>0 DEF FunctionsOfPlan, FunctionsOf
<1>2. \A i \in F :
        /\ ExtensionOf(p, i) \in DOMAIN p.extensions
        /\ SymbolFor(p, ExtensionOf(p, i)) = i
        /\ t.symbols[i].name = ShortNumbered(p, ExtensionOf(p, i))
        /\ d[i].name = p.extensions[ExtensionOf(p, i)].name
        /\ p.extensions[ExtensionOf(p, i)].space = space
  <2>1. ASSUME NEW i \in F
        PROVE  p.extensions[ExtensionOf(p, i)].space = space
    <3>1. i \in OfType(t, "function") /\ d[i].space \in {NoSpace, space}
      BY DEF FunctionsOf
    <3>2. /\ ExtensionOf(p, i) \in DOMAIN p.extensions
          /\ d[i].space = p.extensions[ExtensionOf(p, i)].space
      BY <1>0, <3>1 DEF FunctionsOfPlan
    <3>3. QED
      BY <3>1, <3>2, FunctionsHaveSpaces
  <2>2. \A i \in F : i \in OfType(t, "function")
    BY DEF FunctionsOf
  <2> HIDE DEF F
  <2>3. QED
    BY <1>0, <2>1, <2>2 DEF FunctionsOfPlan
<1>3. IsFiniteSet(F)
  <2>1. F \in SUBSET OfType(t, "function") /\ IsFiniteSet(OfType(t, "function"))
    BY <1>0 DEF FunctionsOfPlan, FunctionsOf
  <2>2. QED
    BY <2>1, FS_Subset
<1>4. section = Printed(t, d, space, fs)
  BY DEF Section
<1> HIDE DEF F, section
<1>5. IsStrictOrder(F, R)
  <2> DEFINE a(i) == Place(ShortNames, short(i))
             b(i) == Place(Names, d[i].name)
  <2>1. \A i, j \in F : <<i, j>> \in R <=> a(i) < a(j) \/ (short(i) = short(j) /\ b(i) < b(j))
    BY DEF Ordered, Before
  <2>2. \A i \in F : a(i) \in Nat /\ b(i) \in Nat
    BY PlaceIsNumber, OrdersAssumption
  <2>3. \A i, j \in F : short(i) = short(j) => a(i) = a(j)
    OBVIOUS
  <2> HIDE DEF a, b, R, short
  <2>4. \A i \in F : <<i, i>> \notin R
    BY <2>1, <2>2
  <2>5. ASSUME NEW i \in F, NEW j \in F, NEW k \in F, <<i, j>> \in R, <<j, k>> \in R
        PROVE  <<i, k>> \in R
    BY <2>1, <2>2, <2>3, <2>5
  <2>6. QED
    BY <2>4, <2>5 DEF IsStrictOrder
<1> HIDE DEF R
<1>6. /\ IsSequence(fs)
      /\ \A i \in DOMAIN fs : fs[i] \in F
      /\ \A i, j \in DOMAIN fs : fs[i] = fs[j] => i = j
      /\ \A x \in F : \E i \in DOMAIN fs : fs[i] = x
  BY <1>3, <1>5, SortedIs
<1> HIDE DEF fs
<1>7. /\ section.uri = UriOf(p, space)
      /\ DOMAIN section.functions = DOMAIN fs
      /\ \A j \in DOMAIN fs : /\ section.functions[j].name = d[fs[j]].name
                              /\ section.functions[j].as = t.symbols[fs[j]].name
  BY <1>4, SpaceNameIs DEF Printed
<1>8. IsSequence(section.functions)
  <2>1. DOMAIN fs = 1..Len(fs) /\ Len(fs) \in Nat
    BY <1>6, SequenceHas
  <2>2. section.functions = [j \in 1..Len(fs) |-> section.functions[j]]
    BY <1>4, <2>1 DEF Printed
  <2>3. QED
    BY <2>1, <2>2, ListIsSequence
<1>9. \A j \in DOMAIN fs :
        /\ ExtensionOf(p, fs[j]) \in DOMAIN p.extensions
        /\ SymbolFor(p, ExtensionOf(p, fs[j])) = fs[j]
        /\ section.functions[j].as = ShortNumbered(p, ExtensionOf(p, fs[j]))
        /\ section.functions[j].name = p.extensions[ExtensionOf(p, fs[j])].name
        /\ p.extensions[ExtensionOf(p, fs[j])].space = space
  BY <1>2, <1>6, <1>7
<1>10. ASSUME NEW e \in DOMAIN p.extensions, p.extensions[e].space = space
       PROVE  \E j \in DOMAIN fs : ExtensionOf(p, fs[j]) = e
  <2>1. SymbolFor(p, e) \in F /\ ExtensionOf(p, SymbolFor(p, e)) = e
    BY <1>1, <1>10
  <2>2. PICK j \in DOMAIN fs : fs[j] = SymbolFor(p, e)
    BY <1>6, <2>1
  <2>3. QED
    BY <2>1, <2>2
<1>11. ASSUME NEW j \in DOMAIN fs, NEW m \in DOMAIN fs,
              section.functions[j].as = section.functions[m].as
       PROVE  j = m
  <2>1. ExtensionOf(p, fs[j]) = ExtensionOf(p, fs[m])
    BY <1>9, <1>11 DEF NamesApart
  <2>2. fs[j] = fs[m]
    BY <1>9, <2>1
  <2>3. QED
    BY <1>6, <2>2
<1>12. SectionFor(p, section, space)
  BY <1>7, <1>8, <1>9, <1>10, <1>11 DEF SectionFor
<1>13. QED
  BY <1>12 DEF section

LEMMA SectionsPlaced ==
  ASSUME NEW p, IsCalling(p), Consistent(p), NamesApart(p), NEW t, NEW d,
         Converted(p, t, d, Len(p.spaces), Len(p.extensions))
  PROVE  Placed(p, Sections(t, d))
<1> DEFINE used == UsedSpaces(t, d)
           sections == Sections(t, d)
<1>1. /\ IsSequence(used)
      /\ \A k \in DOMAIN used : \E e \in DOMAIN p.extensions : used[k] = p.extensions[e].space
      /\ \A e \in DOMAIN p.extensions : \E k \in DOMAIN used : used[k] = p.extensions[e].space
      /\ \A k, l \in DOMAIN used : used[k] = used[l] => k = l
  BY UsedSpacesAre
<1>2. sections = [k \in DOMAIN used |-> Section(t, d, used[k])]
  BY DEF Sections
<1> HIDE DEF used, sections
<1>3. \A k \in DOMAIN used : SectionFor(p, sections[k], used[k])
  <2>1. ASSUME NEW k \in DOMAIN used
        PROVE  SectionFor(p, sections[k], used[k])
    <3>1. used[k] # NoSpace
      BY <1>1, FunctionsHaveSpaces
    <3>2. SectionFor(p, Section(t, d, used[k]), used[k])
      BY <3>1, SectionIs
    <3>3. QED
      BY <1>2, <3>2
  <2>2. QED
    BY <2>1
<1>4. DOMAIN sections = DOMAIN used
  BY <1>2
<1>5. IsSequence(sections)
  <2>1. DOMAIN used = 1..Len(used) /\ Len(used) \in Nat
    BY <1>1, SequenceHas
  <2>2. sections = [k \in 1..Len(used) |-> sections[k]]
    BY <1>2, <2>1
  <2>3. QED
    BY <2>1, <2>2, ListIsSequence
<1>6. \A k \in DOMAIN sections : IsSequence(sections[k].functions)
  BY <1>3, <1>4 DEF SectionFor
<1>7. \A k \in DOMAIN sections : \A j \in DOMAIN sections[k].functions :
        \E e \in DOMAIN p.extensions : PrintedAt(p, sections, k, j, e)
  BY <1>3, <1>4 DEF SectionFor, PrintedAt
<1>8. ASSUME NEW e \in DOMAIN p.extensions
      PROVE  \E k \in DOMAIN sections : \E j \in DOMAIN sections[k].functions :
               PrintedAt(p, sections, k, j, e)
  <2>1. PICK k \in DOMAIN used : used[k] = p.extensions[e].space
    BY <1>1
  <2>2. QED
    BY <1>3, <1>4, <2>1 DEF SectionFor, PrintedAt
<1>9. ASSUME NEW k \in DOMAIN sections, NEW l \in DOMAIN sections,
             NEW j \in DOMAIN sections[k].functions, NEW m \in DOMAIN sections[l].functions,
             sections[k].functions[j].as = sections[l].functions[m].as
      PROVE  k = l /\ j = m
  <2>1. PICK e \in DOMAIN p.extensions : /\ p.extensions[e].space = used[k]
                                         /\ sections[k].functions[j].as = ShortNumbered(p, e)
    BY <1>3, <1>4 DEF SectionFor
  <2>2. PICK f \in DOMAIN p.extensions : /\ p.extensions[f].space = used[l]
                                         /\ sections[l].functions[m].as = ShortNumbered(p, f)
    BY <1>3, <1>4 DEF SectionFor
  <2>3. e = f
    BY <1>9, <2>1, <2>2 DEF NamesApart
  <2>4. k = l
    BY <1>1, <1>4, <2>1, <2>2, <2>3
  <2>5. QED
    BY <1>3, <1>4, <1>9, <2>4 DEF SectionFor
<1>10. ASSUME NEW k \in DOMAIN sections
       PROVE  sections[k].uri = NoUri \/ \E s \in DOMAIN p.spaces : sections[k].uri = p.spaces[s].uri
  <2>1. sections[k].uri = UriOf(p, used[k]) /\ AnchorsApart(p.spaces)
    BY <1>3, <1>4 DEF SectionFor, Consistent
  <2>2. QED
    BY <2>1, UriIs, NoUriIs
<1>11. Placed(p, sections)
  BY <1>5, <1>6, <1>7, <1>8, <1>9, <1>10 DEF Placed
<1>12. QED
  BY <1>11 DEF sections

-----------------------------------------------------------------------------
(***************************************************************************)
(* The parser's table, between two functions: the ones seen are those of   *)
(* the sections before section n and those before function m in it.        *)
(***************************************************************************)

Tabled(t, d) ==
  /\ DOMAIN t = DOMAIN EmptyTable
  /\ IsSequence(t.symbols) /\ IsSequence(d) /\ Len(d) = Len(t.symbols)

Seen(n, m, s, k) == s < n \/ (s = n /\ k < m)

ShortAt(sections, s, k) == sections[s].functions[k].as

\* Symbol i is function k of section s, found by its name and its place.
FunctionAt(sections, t, d, i, s, k) ==
  /\ i \in OfType(t, "function")
  /\ t.symbols[i].name = ShortAt(sections, s, k)
  /\ ShortAt(sections, s, k) \in DOMAIN t.byName
  /\ t.byName[ShortAt(sections, s, k)] = i
  /\ ValuesAt(t.byLocation, FunctionLocation(s, k)) = <<i>>
  /\ DOMAIN d[i] = {"name", "space", "anchor"}
  /\ d[i].name = sections[s].functions[k].name

NothingAt(sections, t, s, k) ==
  /\ ShortAt(sections, s, k) \notin DOMAIN t.byName
  /\ ValuesAt(t.byLocation, FunctionLocation(s, k)) = << >>

SpaceNumbered(t, d, number, uri) ==
  \E j \in OfType(t, "space") : d[j].anchor = number /\ t.symbols[j].name = uri

SpaceGiven(t, d, uri, space) ==
  IF uri = NoUri THEN space = NoSpace ELSE SpaceNumbered(t, d, space, uri)

FunctionsNumbered(t, d, seen) ==
  /\ \A i \in OfType(t, "function") : d[i].anchor \in Nat /\ d[i].anchor < seen
  /\ \A i, j \in OfType(t, "function") : d[i].anchor = d[j].anchor => i = j

SpacesNumbered(t, d, seen) ==
  /\ \A j \in OfType(t, "space") :
       d[j].anchor \in Nat /\ 0 < d[j].anchor /\ d[j].anchor <= seen
  /\ \A i, j \in OfType(t, "space") : d[i].anchor = d[j].anchor => i = j

\* The functions of the sections that were left have their spaces.
SymbolsSeen(sections, t, d, n, m) ==
  \A i \in OfType(t, "function") :
    \E s \in DOMAIN sections : \E k \in DOMAIN sections[s].functions :
      /\ Seen(n, m, s, k) /\ FunctionAt(sections, t, d, i, s, k)
      /\ s < n => SpaceGiven(t, d, sections[s].uri, d[i].space)

PlacesSeen(sections, t, d, n, m) ==
  \A s \in DOMAIN sections : \A k \in DOMAIN sections[s].functions :
    IF Seen(n, m, s, k) THEN \E i \in OfType(t, "function") : FunctionAt(sections, t, d, i, s, k)
                        ELSE NothingAt(sections, t, s, k)

SpaceOpen(sections, t, d, spacesSeen, n, m) ==
  m > 0 /\ sections[n].uri # NoUri => SpaceNumbered(t, d, spacesSeen, sections[n].uri)

Parsed(sections, t, d, spacesSeen, functionsSeen, n, m) ==
  /\ Tabled(t, d)
  /\ spacesSeen \in Nat /\ functionsSeen \in Nat
  /\ FunctionsNumbered(t, d, functionsSeen)
  /\ SpacesNumbered(t, d, spacesSeen)
  /\ SymbolsSeen(sections, t, d, n, m)
  /\ PlacesSeen(sections, t, d, n, m)
  /\ SpaceOpen(sections, t, d, spacesSeen, n, m)

\* One symbol more, with its data.
Grows(t, d, u, e, n, name, l, type, new) ==
  /\ n \notin DOMAIN t.symbols
  /\ DOMAIN u.symbols = DOMAIN t.symbols \union {n}
  /\ \A i \in DOMAIN t.symbols : u.symbols[i] = t.symbols[i] /\ e[i] = d[i]
  /\ u.symbols[n].name = name /\ u.symbols[n].type = type /\ e[n] = new
  /\ \A x \in DOMAIN t.byName : x \in DOMAIN u.byName /\ u.byName[x] = t.byName[x]
  /\ \A x \in DOMAIN u.byName : x = name \/ x \in DOMAIN t.byName
  /\ name \notin DOMAIN t.byName => name \in DOMAIN u.byName /\ u.byName[name] = n
  /\ \A k : k # l => ValuesAt(u.byLocation, k) = ValuesAt(t.byLocation, k)
  /\ ValuesAt(u.byLocation, l) = Append(ValuesAt(t.byLocation, l), n)

LEMMA TableGrows ==
  ASSUME NEW t, NEW d, Tabled(t, d), NEW name, NEW l, NEW type, NEW new,
         NEW u, u = DefineSymbol(t, name, l, type),
         NEW e, e = Append(d, new)
  PROVE  Tabled(u, e) /\ Grows(t, d, u, e, Len(t.symbols) + 1, name, l, type, new)
<1> DEFINE n == Len(t.symbols) + 1
<1>1. DefinesOne(t, u, n, name, l, type)
  <2>1. DOMAIN t = DOMAIN EmptyTable /\ IsSequence(t.symbols) /\ n = Len(t.symbols) + 1
    BY DEF Tabled
  <2> HIDE DEF n
  <2>2. QED
    BY <2>1, DefineShape
<1>2. /\ IsSequence(d) /\ Len(d) + 1 = n
      /\ DOMAIN d = 1..Len(d) /\ DOMAIN t.symbols = 1..Len(d)
  BY SequenceHas DEF Tabled
<1>3. /\ IsSequence(e) /\ Len(e) = Len(d) + 1
      /\ \A i \in DOMAIN d : e[i] = d[i]
      /\ e[Len(d) + 1] = new
  <2>1. IsSequence(d) /\ e = Append(d, new)
    BY <1>2
  <2>2. QED
    BY <2>1, SequenceAppend
<1> HIDE DEF n
<1>4. Tabled(u, e)
  BY <1>1, <1>2, <1>3 DEF Tabled, DefinesOne
<1>5. u.symbols[n].name = name /\ u.symbols[n].type = type
  BY <1>1 DEF DefinesOne, NewSymbol
<1>6. /\ \A x \in DOMAIN t.byName : x \in DOMAIN u.byName /\ u.byName[x] = t.byName[x]
      /\ \A x \in DOMAIN u.byName : x = name \/ x \in DOMAIN t.byName
      /\ name \notin DOMAIN t.byName => name \in DOMAIN u.byName /\ u.byName[name] = n
  BY <1>1 DEF DefinesOne, Insert, Put
<1>7. /\ \A k : k # l => ValuesAt(u.byLocation, k) = ValuesAt(t.byLocation, k)
      /\ ValuesAt(u.byLocation, l) = Append(ValuesAt(t.byLocation, l), n)
  <2>1. u.byLocation = InsertMulti(t.byLocation, l, n)
    BY <1>1 DEF DefinesOne
  <2>2. ValuesAt(InsertMulti(t.byLocation, l, n), l) = Append(ValuesAt(t.byLocation, l), n)
    BY DEF InsertMulti, Put, ValuesAt
  <2>3. QED
    BY <2>1, <2>2, InsertMultiElsewhere
<1>8. Grows(t, d, u, e, n, name, l, type, new)
  BY <1>1, <1>2, <1>3, <1>5, <1>6, <1>7 DEF DefinesOne, Grows
<1>9. QED
  BY <1>4, <1>8 DEF n

LEMMA GrowsOfType ==
  ASSUME NEW t, NEW d, NEW u, NEW e, NEW n, NEW name, NEW l, NEW type, NEW new,
         Grows(t, d, u, e, n, name, l, type, new), NEW other
  PROVE  /\ \A i \in OfType(t, other) : i \in OfType(u, other) /\ i # n
         /\ \A i \in OfType(u, other) : i \in OfType(t, other) \/ (i = n /\ type = other)
         /\ type = other => n \in OfType(u, other)
         /\ \A i \in OfType(t, other) : u.symbols[i] = t.symbols[i] /\ e[i] = d[i]
<1>1. /\ n \notin DOMAIN t.symbols
      /\ DOMAIN u.symbols = DOMAIN t.symbols \union {n}
      /\ \A i \in DOMAIN t.symbols : u.symbols[i] = t.symbols[i] /\ e[i] = d[i]
      /\ u.symbols[n].type = type
  BY DEF Grows
<1>2. /\ \A i : i \in OfType(t, other) <=> i \in DOMAIN t.symbols /\ t.symbols[i].type = other
      /\ \A i : i \in OfType(u, other) <=> i \in DOMAIN u.symbols /\ u.symbols[i].type = other
  BY DEF OfType
<1>3. QED
  BY <1>1, <1>2

LEMMA SpaceStaysNumbered ==
  ASSUME NEW t, NEW d, NEW u, NEW e, NEW n, NEW name, NEW l, NEW type, NEW new,
         Grows(t, d, u, e, n, name, l, type, new)
  PROVE  /\ \A number, uri :
              SpaceNumbered(t, d, number, uri) => SpaceNumbered(u, e, number, uri)
         /\ \A uri, space : SpaceGiven(t, d, uri, space) => SpaceGiven(u, e, uri, space)
<1>1. ASSUME NEW number, NEW uri, SpaceNumbered(t, d, number, uri)
      PROVE  SpaceNumbered(u, e, number, uri)
  <2>1. PICK j \in OfType(t, "space") : d[j].anchor = number /\ t.symbols[j].name = uri
    BY <1>1 DEF SpaceNumbered
  <2>2. j \in OfType(u, "space") /\ u.symbols[j] = t.symbols[j] /\ e[j] = d[j]
    BY GrowsOfType
  <2>3. QED
    BY <2>1, <2>2 DEF SpaceNumbered
<1>2. QED
  BY <1>1 DEF SpaceGiven

\* A symbol with another name and another place than any function changes
\* nothing about the functions.
NamesNoFunction(sections, name, l) ==
  \A s \in DOMAIN sections : \A k \in DOMAIN sections[s].functions :
    ShortAt(sections, s, k) # name /\ FunctionLocation(s, k) # l

IsFunction(type) == type = "function"

LEMMA OtherDefined ==
  ASSUME NEW sections, NEW t, NEW d, NEW u, NEW e, NEW x, NEW name, NEW l, NEW type, NEW new,
         Grows(t, d, u, e, x, name, l, type, new), ~IsFunction(type),
         NamesNoFunction(sections, name, l), NEW n, NEW m,
         SymbolsSeen(sections, t, d, n, m), PlacesSeen(sections, t, d, n, m)
  PROVE  SymbolsSeen(sections, u, e, n, m) /\ PlacesSeen(sections, u, e, n, m)
<1>1. /\ \A i \in OfType(t, "function") : i \in OfType(u, "function")
      /\ \A i \in OfType(u, "function") : i \in OfType(t, "function")
      /\ \A i \in OfType(t, "function") : u.symbols[i] = t.symbols[i] /\ e[i] = d[i]
  BY GrowsOfType DEF IsFunction
<1>2. /\ \A y \in DOMAIN t.byName : y \in DOMAIN u.byName /\ u.byName[y] = t.byName[y]
      /\ \A y \in DOMAIN u.byName : y = name \/ y \in DOMAIN t.byName
      /\ \A k : k # l => ValuesAt(u.byLocation, k) = ValuesAt(t.byLocation, k)
  BY DEF Grows
<1>3. ASSUME NEW s \in DOMAIN sections, NEW k \in DOMAIN sections[s].functions
      PROVE  /\ \A i \in OfType(t, "function") :
                  FunctionAt(sections, t, d, i, s, k) => FunctionAt(sections, u, e, i, s, k)
             /\ NothingAt(sections, t, s, k) => NothingAt(sections, u, s, k)
  <2>1. ShortAt(sections, s, k) # name
          /\ ValuesAt(u.byLocation, FunctionLocation(s, k))
               = ValuesAt(t.byLocation, FunctionLocation(s, k))
    BY <1>2 DEF NamesNoFunction
  <2>2. QED
    BY <1>1, <1>2, <2>1 DEF FunctionAt, NothingAt
<1>4. SymbolsSeen(sections, u, e, n, m)
  <2>1. ASSUME NEW i \in OfType(t, "function")
        PROVE  \E s \in DOMAIN sections : \E k \in DOMAIN sections[s].functions :
                 /\ Seen(n, m, s, k) /\ FunctionAt(sections, u, e, i, s, k)
                 /\ s < n => SpaceGiven(u, e, sections[s].uri, e[i].space)
    <3>1. PICK s \in DOMAIN sections : \E k \in DOMAIN sections[s].functions :
            /\ Seen(n, m, s, k) /\ FunctionAt(sections, t, d, i, s, k)
            /\ s < n => SpaceGiven(t, d, sections[s].uri, d[i].space)
      BY DEF SymbolsSeen
    <3>2. PICK k \in DOMAIN sections[s].functions :
            /\ Seen(n, m, s, k) /\ FunctionAt(sections, t, d, i, s, k)
            /\ s < n => SpaceGiven(t, d, sections[s].uri, d[i].space)
      BY <3>1
    <3>3. FunctionAt(sections, u, e, i, s, k) /\ e[i] = d[i]
      BY <1>1, <1>3, <3>2
    <3>4. s < n => SpaceGiven(u, e, sections[s].uri, d[i].space)
      BY <3>2, SpaceStaysNumbered
    <3>5. QED
      BY <3>2, <3>3, <3>4
  <2>2. QED
    BY <1>1, <2>1 DEF SymbolsSeen
<1>5. PlacesSeen(sections, u, e, n, m)
  <2>1. ASSUME NEW s \in DOMAIN sections, NEW k \in DOMAIN sections[s].functions,
               Seen(n, m, s, k)
        PROVE  \E i \in OfType(u, "function") : FunctionAt(sections, u, e, i, s, k)
    <3>1. PICK i \in OfType(t, "function") : FunctionAt(sections, t, d, i, s, k)
      BY <2>1 DEF PlacesSeen
    <3>2. QED
      BY <1>1, <1>3, <3>1
  <2>2. ASSUME NEW s \in DOMAIN sections, NEW k \in DOMAIN sections[s].functions,
               ~Seen(n, m, s, k)
        PROVE  NothingAt(sections, u, s, k)
    BY <1>3, <2>2 DEF PlacesSeen
  <2>3. QED
    BY <2>1, <2>2 DEF PlacesSeen
<1>6. QED
  BY <1>4, <1>5

LEMMA FunctionsStayNumbered ==
  ASSUME NEW t, NEW d, NEW u, NEW e, NEW x, NEW name, NEW l, NEW type, NEW new,
         Grows(t, d, u, e, x, name, l, type, new), ~IsFunction(type),
         NEW seen, FunctionsNumbered(t, d, seen)
  PROVE  FunctionsNumbered(u, e, seen)
<1>1. /\ \A i \in OfType(u, "function") : i \in OfType(t, "function")
      /\ \A i \in OfType(t, "function") : e[i] = d[i]
  BY GrowsOfType DEF IsFunction
<1>2. QED
  BY <1>1 DEF FunctionsNumbered

IsSpace(type) == type = "space"

LEMMA SpacesStayNumbered ==
  ASSUME NEW t, NEW d, NEW u, NEW e, NEW x, NEW name, NEW l, NEW type, NEW new,
         Grows(t, d, u, e, x, name, l, type, new), ~IsSpace(type),
         NEW seen, SpacesNumbered(t, d, seen)
  PROVE  SpacesNumbered(u, e, seen)
<1>1. /\ \A i \in OfType(u, "space") : i \in OfType(t, "space")
      /\ \A i \in OfType(t, "space") : e[i] = d[i]
  BY GrowsOfType DEF IsSpace
<1>2. QED
  BY <1>1 DEF SpacesNumbered

LEMMA LocationsDiffer ==
  ASSUME NEW s, NEW k, NEW x
  PROVE  /\ FunctionLocation(s, k) # <<"column", x>> /\ FunctionLocation(s, k) # <<"space", x>>
         /\ \A r, m : FunctionLocation(s, k) = FunctionLocation(r, m) => s = r /\ k = m
<1>1. FunctionLocation(s, k)[1] = "function" /\ <<"column", x>>[1] = "column"
        /\ <<"space", x>>[1] = "space"
  BY DEF FunctionLocation
<1>2. "function" # "column" /\ "function" # "space"
  OBVIOUS
<1>3. \A r, m : FunctionLocation(s, k) = FunctionLocation(r, m) => s = r /\ k = m
  BY DEF FunctionLocation
<1>4. QED
  BY <1>1, <1>2, <1>3

LEMMA SectionPositions ==
  ASSUME NEW p, NEW sections, Placed(p, sections)
  PROVE  /\ DOMAIN sections = 1..Len(sections) /\ Len(sections) \in Nat
         /\ \A s \in DOMAIN sections :
              /\ DOMAIN sections[s].functions = 1..Len(sections[s].functions)
              /\ Len(sections[s].functions) \in Nat
BY SequenceHas DEF Placed

LEMMA ParsedBegins ==
  ASSUME NEW p, NEW sections, Placed(p, sections)
  PROVE  Parsed(sections, EmptyTable, << >>, 0, 0, 1, 0)
<1>1. IsSequence(<< >>) /\ Len(<< >>) = 0
  BY DEF IsSequence
<1>2. /\ DOMAIN EmptyTable.byName = {} /\ DOMAIN EmptyTable.byLocation = {}
      /\ EmptyTable.symbols = << >>
  BY DEF EmptyTable
<1>3. Tabled(EmptyTable, << >>)
  BY <1>1, <1>2 DEF Tabled
<1>4. \A type : OfType(EmptyTable, type) = {}
  BY <1>2 DEF OfType
<1>5. \A s \in DOMAIN sections : \A k \in DOMAIN sections[s].functions : ~Seen(1, 0, s, k)
  BY SectionPositions DEF Seen
<1>6. \A s \in DOMAIN sections : \A k \in DOMAIN sections[s].functions :
        NothingAt(sections, EmptyTable, s, k)
  BY <1>2 DEF NothingAt, ValuesAt
<1>7. PlacesSeen(sections, EmptyTable, << >>, 1, 0)
  BY <1>5, <1>6 DEF PlacesSeen
<1>8. /\ FunctionsNumbered(EmptyTable, << >>, 0) /\ SpacesNumbered(EmptyTable, << >>, 0)
      /\ SymbolsSeen(sections, EmptyTable, << >>, 1, 0)
  BY <1>4 DEF FunctionsNumbered, SpacesNumbered, SymbolsSeen
<1>9. SpaceOpen(sections, EmptyTable, << >>, 0, 1, 0)
  BY DEF SpaceOpen
<1>10. QED
  BY <1>3, <1>7, <1>8, <1>9 DEF Parsed

\* A column of a schema.
LEMMA ColumnParsed ==
  ASSUME NEW p, NEW sections, Placed(p, sections), NEW t, NEW d, NEW ns, NEW nf,
         NEW n, NEW m, Parsed(sections, t, d, ns, nf, n, m),
         NEW name, NEW x,
         \A s \in DOMAIN sections : \A k \in DOMAIN sections[s].functions :
           ShortAt(sections, s, k) # name
  PROVE  Parsed(sections, DefineSymbol(t, name, <<"column", x>>, "column"),
                Append(d, SpaceData(Unset)), ns, nf, n, m)
<1> DEFINE l == <<"column", x>>
           new == SpaceData(Unset)
           type == "column"
           i == Len(t.symbols) + 1
           u == DefineSymbol(t, name, l, type)
           e == Append(d, new)
<1>1. /\ Tabled(t, d) /\ ns \in Nat /\ nf \in Nat
      /\ FunctionsNumbered(t, d, nf) /\ SpacesNumbered(t, d, ns)
      /\ SymbolsSeen(sections, t, d, n, m) /\ PlacesSeen(sections, t, d, n, m)
      /\ SpaceOpen(sections, t, d, ns, n, m)
  BY DEF Parsed
<1>2. ~IsFunction(type) /\ ~IsSpace(type)
  BY DEF IsFunction, IsSpace
<1>3. NamesNoFunction(sections, name, l)
  BY LocationsDiffer DEF NamesNoFunction
<1>4. u = DefineSymbol(t, name, l, type) /\ e = Append(d, new)
  OBVIOUS
<1> HIDE DEF l, new, type, i, u, e
<1>5. Tabled(u, e) /\ Grows(t, d, u, e, i, name, l, type, new)
  BY <1>1, <1>4, TableGrows DEF i
<1>6. SymbolsSeen(sections, u, e, n, m) /\ PlacesSeen(sections, u, e, n, m)
  BY <1>1, <1>2, <1>3, <1>5, OtherDefined
<1>7. FunctionsNumbered(u, e, nf)
  BY <1>1, <1>2, <1>5, FunctionsStayNumbered
<1>8. SpacesNumbered(u, e, ns)
  BY <1>1, <1>2, <1>5, SpacesStayNumbered
<1>9. SpaceOpen(sections, u, e, ns, n, m)
  BY <1>1, <1>5, SpaceStaysNumbered DEF SpaceOpen
<1>10. Parsed(sections, u, e, ns, nf, n, m)
  BY <1>1, <1>5, <1>6, <1>7, <1>8, <1>9 DEF Parsed
<1>11. QED
  BY <1>10 DEF u, e, l, type, new

\* Inside a section nothing more is seen than before it.
LEMMA SeenInside ==
  ASSUME NEW p, NEW sections, Placed(p, sections), NEW t, NEW d, NEW n,
         SymbolsSeen(sections, t, d, n, 0), PlacesSeen(sections, t, d, n, 0)
  PROVE  SymbolsSeen(sections, t, d, n, 1) /\ PlacesSeen(sections, t, d, n, 1)
<1>1. \A s \in DOMAIN sections : \A k \in DOMAIN sections[s].functions :
        Seen(n, 0, s, k) <=> Seen(n, 1, s, k)
  BY SectionPositions DEF Seen
<1>2. SymbolsSeen(sections, t, d, n, 1)
  BY <1>1 DEF SymbolsSeen
<1>3. PlacesSeen(sections, t, d, n, 1)
  BY <1>1 DEF PlacesSeen
<1>4. QED
  BY <1>2, <1>3

\* A URI is no name of a function.
LEMMA UriNamesNoFunction ==
  ASSUME NEW p, NamesApart(p), NEW sections, Placed(p, sections),
         NEW n \in DOMAIN sections, sections[n].uri # NoUri, NEW x
  PROVE  NamesNoFunction(sections, sections[n].uri, <<"space", x>>)
<1>1. PICK r \in DOMAIN p.spaces : sections[n].uri = p.spaces[r].uri
  BY DEF Placed
<1>2. ASSUME NEW s \in DOMAIN sections, NEW k \in DOMAIN sections[s].functions
      PROVE  ShortAt(sections, s, k) # sections[n].uri
  <2>1. PICK e \in DOMAIN p.extensions : sections[s].functions[k].as = ShortNumbered(p, e)
    BY DEF Placed, PrintedAt
  <2>2. QED
    BY <1>1, <2>1 DEF NamesApart, ShortAt
<1>3. QED
  BY <1>2, LocationsDiffer DEF NamesNoFunction

\* A space is numbered by what is seen with it.
LEMMA SpaceCounted ==
  ASSUME NEW t, NEW d, NEW u, NEW e, NEW x, NEW uri, NEW l, NEW seen \in Nat,
         Grows(t, d, u, e, x, uri, l, "space", SpaceData(seen + 1)),
         SpacesNumbered(t, d, seen)
  PROVE  SpacesNumbered(u, e, seen + 1) /\ SpaceNumbered(u, e, seen + 1, uri)
<1>1. /\ \A i \in OfType(u, "space") : i \in OfType(t, "space") \/ i = x
      /\ x \in OfType(u, "space")
      /\ \A i \in OfType(t, "space") : e[i] = d[i]
  BY GrowsOfType
<1>2. e[x].anchor = seen + 1 /\ u.symbols[x].name = uri
  BY DEF Grows, SpaceData, FunctionData
<1>3. \A j \in OfType(t, "space") :
        /\ e[j].anchor \in Nat /\ 0 < e[j].anchor /\ e[j].anchor <= seen
        /\ e[j].anchor # seen + 1
  BY <1>1 DEF SpacesNumbered
<1>4. \A i, j \in OfType(t, "space") : e[i].anchor = e[j].anchor => i = j
  BY <1>1 DEF SpacesNumbered
<1>5. \A j \in OfType(u, "space") :
        e[j].anchor \in Nat /\ 0 < e[j].anchor /\ e[j].anchor <= seen + 1
  BY <1>1, <1>2, <1>3
<1>6. \A i, j \in OfType(u, "space") : e[i].anchor = e[j].anchor => i = j
  BY <1>1, <1>2, <1>3, <1>4
<1>7. QED
  BY <1>1, <1>2, <1>5, <1>6 DEF SpacesNumbered, SpaceNumbered

\* The parser's record.
ParsedAs(sections, r, n, m) ==
  /\ DOMAIN r = {"table", "data", "numSpacesSeen", "numFunctionsSeen"}
  /\ Parsed(sections, r.table, r.data, r.numSpacesSeen, r.numFunctionsSeen, n, m)

LEMMA SpaceParsed ==
  ASSUME NEW p, NamesApart(p), NEW sections, Placed(p, sections),
         NEW n \in DOMAIN sections, NEW r, ParsedAs(sections, r, n, 0)
  PROVE  ParsedAs(sections, DefineSpace(r, sections[n]), n, 1)
<1> DEFINE t == r.table
           d == r.data
           ns == r.numSpacesSeen
           nf == r.numFunctionsSeen
<1>1. /\ Tabled(t, d) /\ ns \in Nat /\ nf \in Nat
      /\ FunctionsNumbered(t, d, nf) /\ SpacesNumbered(t, d, ns)
      /\ SymbolsSeen(sections, t, d, n, 0) /\ PlacesSeen(sections, t, d, n, 0)
      /\ DOMAIN r = {"table", "data", "numSpacesSeen", "numFunctionsSeen"}
  BY DEF ParsedAs, Parsed
<1>2. SymbolsSeen(sections, t, d, n, 1) /\ PlacesSeen(sections, t, d, n, 1)
  BY <1>1, SeenInside
<1>3. CASE sections[n].uri = NoUri
  <2>1. DefineSpace(r, sections[n]) = r
    BY <1>3 DEF DefineSpace
  <2>2. SpaceOpen(sections, t, d, ns, n, 1)
    BY <1>3 DEF SpaceOpen
  <2>3. QED
    BY <1>1, <1>2, <2>1, <2>2 DEF ParsedAs, Parsed
<1>4. CASE sections[n].uri # NoUri
  <2> DEFINE uri == sections[n].uri
             l == <<"space", ns + 1>>
             type == "space"
             new == SpaceData(ns + 1)
             i == Len(t.symbols) + 1
             u == DefineSymbol(t, uri, l, type)
             e == Append(d, new)
             q == DefineSpace(r, sections[n])
  <2>1. /\ DOMAIN q = {"table", "data", "numSpacesSeen", "numFunctionsSeen"}
        /\ q.table = u /\ q.data = e /\ q.numSpacesSeen = ns + 1 /\ q.numFunctionsSeen = nf
    BY <1>1, <1>4 DEF DefineSpace
  <2>2. NamesNoFunction(sections, uri, l)
    BY <1>4, UriNamesNoFunction
  <2>3. u = DefineSymbol(t, uri, l, type) /\ e = Append(d, new)
    OBVIOUS
  <2> HIDE DEF t, d, ns, nf, u, e, i, l, uri, q
  <2>4. Tabled(u, e) /\ Grows(t, d, u, e, i, uri, l, type, new)
    <3> HIDE DEF type, new
    <3>1. QED
      BY <1>1, <2>3, TableGrows DEF i
  <2>5. SpacesNumbered(u, e, ns + 1) /\ SpaceNumbered(u, e, ns + 1, uri)
    BY <1>1, <2>4, SpaceCounted
  <2>6. ~IsFunction(type)
    BY DEF IsFunction
  <2> HIDE DEF type, new
  <2>7. SymbolsSeen(sections, u, e, n, 1) /\ PlacesSeen(sections, u, e, n, 1)
    BY <1>2, <2>2, <2>4, <2>6, OtherDefined
  <2>8. FunctionsNumbered(u, e, nf)
    BY <1>1, <2>4, <2>6, FunctionsStayNumbered
  <2>9. SpaceOpen(sections, u, e, ns + 1, n, 1)
    BY <2>5 DEF SpaceOpen, uri
  <2>10. ns + 1 \in Nat
    BY <1>1
  <2>11. Parsed(sections, u, e, ns + 1, nf, n, 1)
    BY <1>1, <2>4, <2>5, <2>7, <2>8, <2>9, <2>10 DEF Parsed
  <2>12. ParsedAs(sections, q, n, 1)
    BY <2>1, <2>11 DEF ParsedAs
  <2>13. QED
    BY <2>12 DEF q
<1>5. QED
  BY <1>3, <1>4

\* A function is numbered by what was seen before it.
LEMMA FunctionCounted ==
  ASSUME NEW t, NEW d, NEW u, NEW e, NEW x, NEW name, NEW l, NEW of, NEW seen \in Nat,
         Grows(t, d, u, e, x, name, l, "function", FunctionData(of, NoSpace, seen)),
         FunctionsNumbered(t, d, seen)
  PROVE  FunctionsNumbered(u, e, seen + 1)
<1>1. /\ \A i \in OfType(u, "function") : i \in OfType(t, "function") \/ i = x
      /\ \A i \in OfType(t, "function") : e[i] = d[i]
  BY GrowsOfType
<1>2. e[x].anchor = seen
  BY DEF Grows, FunctionData
<1>3. \A j \in OfType(t, "function") :
        e[j].anchor \in Nat /\ e[j].anchor < seen /\ e[j].anchor # seen
  BY <1>1 DEF FunctionsNumbered
<1>4. \A i, j \in OfType(t, "function") : e[i].anchor = e[j].anchor => i = j
  BY <1>1 DEF FunctionsNumbered
<1>5. \A j \in OfType(u, "function") : e[j].anchor \in Nat /\ e[j].anchor < seen + 1
  BY <1>1, <1>2, <1>3
<1>6. \A i, j \in OfType(u, "function") : e[i].anchor = e[j].anchor => i = j
  BY <1>1, <1>2, <1>3, <1>4
<1>7. QED
  BY <1>5, <1>6 DEF FunctionsNumbered

\* A new function leaves the others where they are.
LEMMA OthersStay ==
  ASSUME NEW p, NEW sections, Placed(p, sections),
         NEW n \in DOMAIN sections, NEW k \in DOMAIN sections[n].functions,
         NEW t, NEW d, NEW u, NEW e, NEW x, NEW type, NEW new,
         Grows(t, d, u, e, x, ShortAt(sections, n, k), FunctionLocation(n, k), type, new),
         NEW s \in DOMAIN sections, NEW j \in DOMAIN sections[s].functions,
         ~(s = n /\ j = k)
  PROVE  /\ \A i \in OfType(t, "function") :
              FunctionAt(sections, t, d, i, s, j) => FunctionAt(sections, u, e, i, s, j)
         /\ NothingAt(sections, t, s, j) => NothingAt(sections, u, s, j)
<1>1. \A i \in OfType(t, "function") :
        i \in OfType(u, "function") /\ u.symbols[i] = t.symbols[i] /\ e[i] = d[i]
  BY GrowsOfType
<1>2. ShortAt(sections, s, j) # ShortAt(sections, n, k)
  BY DEF Placed, ShortAt
<1>3. FunctionLocation(s, j) # FunctionLocation(n, k)
  BY LocationsDiffer
<1>4. ValuesAt(u.byLocation, FunctionLocation(s, j)) = ValuesAt(t.byLocation, FunctionLocation(s, j))
  BY <1>3 DEF Grows
<1>5. /\ ShortAt(sections, s, j) \in DOMAIN t.byName =>
           /\ ShortAt(sections, s, j) \in DOMAIN u.byName
           /\ u.byName[ShortAt(sections, s, j)] = t.byName[ShortAt(sections, s, j)]
      /\ ShortAt(sections, s, j) \notin DOMAIN t.byName =>
           ShortAt(sections, s, j) \notin DOMAIN u.byName
  BY <1>2 DEF Grows
<1>6. QED
  BY <1>1, <1>4, <1>5 DEF FunctionAt, NothingAt

LEMMA SymbolsSeenMore ==
  ASSUME NEW p, NEW sections, Placed(p, sections),
         NEW n \in DOMAIN sections, NEW k \in DOMAIN sections[n].functions,
         NEW t, NEW d, NEW u, NEW e, NEW x, NEW type, NEW new,
         Grows(t, d, u, e, x, ShortAt(sections, n, k), FunctionLocation(n, k), type, new),
         SymbolsSeen(sections, t, d, n, k), FunctionAt(sections, u, e, x, n, k)
  PROVE  SymbolsSeen(sections, u, e, n, k + 1)
<1>1. /\ \A i \in OfType(u, "function") : i \in OfType(t, "function") \/ i = x
      /\ \A i \in OfType(t, "function") : e[i] = d[i]
  BY GrowsOfType
<1>2. n \in Nat /\ k \in Nat /\ \A s \in DOMAIN sections : s \in Nat
        /\ \A j \in DOMAIN sections[s].functions : j \in Nat
  BY SectionPositions
<1>3. ASSUME NEW i \in OfType(t, "function")
      PROVE  \E s \in DOMAIN sections : \E j \in DOMAIN sections[s].functions :
               /\ Seen(n, k + 1, s, j) /\ FunctionAt(sections, u, e, i, s, j)
               /\ s < n => SpaceGiven(u, e, sections[s].uri, e[i].space)
  <2>1. PICK s \in DOMAIN sections : \E j \in DOMAIN sections[s].functions :
          /\ Seen(n, k, s, j) /\ FunctionAt(sections, t, d, i, s, j)
          /\ s < n => SpaceGiven(t, d, sections[s].uri, d[i].space)
    BY DEF SymbolsSeen
  <2>2. PICK j \in DOMAIN sections[s].functions :
          /\ Seen(n, k, s, j) /\ FunctionAt(sections, t, d, i, s, j)
          /\ s < n => SpaceGiven(t, d, sections[s].uri, d[i].space)
    BY <2>1
  <2>3. Seen(n, k + 1, s, j) /\ ~(s = n /\ j = k)
    BY <1>2, <2>2 DEF Seen
  <2>4. FunctionAt(sections, u, e, i, s, j)
    BY <2>2, <2>3, OthersStay
  <2>5. s < n => SpaceGiven(u, e, sections[s].uri, d[i].space)
    BY <2>2, SpaceStaysNumbered
  <2>6. QED
    BY <1>1, <2>3, <2>4, <2>5
<1>4. Seen(n, k + 1, n, k) /\ ~(n < n)
  BY <1>2 DEF Seen
<1>5. QED
  BY <1>1, <1>3, <1>4 DEF SymbolsSeen

LEMMA PlacesSeenMore ==
  ASSUME NEW p, NEW sections, Placed(p, sections),
         NEW n \in DOMAIN sections, NEW k \in DOMAIN sections[n].functions,
         NEW t, NEW d, NEW u, NEW e, NEW x, NEW type, NEW new,
         Grows(t, d, u, e, x, ShortAt(sections, n, k), FunctionLocation(n, k), type, new),
         PlacesSeen(sections, t, d, n, k), FunctionAt(sections, u, e, x, n, k)
  PROVE  PlacesSeen(sections, u, e, n, k + 1)
<1>1. \A i \in OfType(t, "function") : i \in OfType(u, "function")
  BY GrowsOfType
<1>2. n \in Nat /\ k \in Nat /\ \A s \in DOMAIN sections : s \in Nat
        /\ \A j \in DOMAIN sections[s].functions : j \in Nat
  BY SectionPositions
<1>3. x \in OfType(u, "function")
  BY DEF FunctionAt
<1>4. ASSUME NEW s \in DOMAIN sections, NEW j \in DOMAIN sections[s].functions,
             Seen(n, k + 1, s, j)
      PROVE  \E i \in OfType(u, "function") : FunctionAt(sections, u, e, i, s, j)
  <2>1. CASE s = n /\ j = k
    BY <1>3, <2>1
  <2>2. CASE ~(s = n /\ j = k)
    <3>1. Seen(n, k, s, j)
      BY <1>2, <1>4, <2>2 DEF Seen
    <3>2. PICK i \in OfType(t, "function") : FunctionAt(sections, t, d, i, s, j)
      BY <3>1 DEF PlacesSeen
    <3>3. FunctionAt(sections, u, e, i, s, j)
      BY <2>2, <3>2, OthersStay
    <3>4. QED
      BY <1>1, <3>3
  <2>3. QED
    BY <2>1, <2>2
<1>5. ASSUME NEW s \in DOMAIN sections, NEW j \in DOMAIN sections[s].functions,
             ~Seen(n, k + 1, s, j)
      PROVE  NothingAt(sections, u, s, j)
  <2>1. ~Seen(n, k, s, j) /\ ~(s = n /\ j = k)
    BY <1>2, <1>5 DEF Seen
  <2>2. NothingAt(sections, t, s, j)
    BY <2>1 DEF PlacesSeen
  <2>3. QED
    BY <2>1, <2>2, OthersStay
<1>6. QED
  BY <1>4, <1>5 DEF PlacesSeen

LEMMA FunctionParsed ==
  ASSUME NEW p, NEW sections, Placed(p, sections),
         NEW n \in DOMAIN sections, NEW k \in DOMAIN sections[n].functions,
         NEW r, ParsedAs(sections, r, n, k)
  PROVE  ParsedAs(sections,
           [r EXCEPT
              !.table = DefineSymbol(@, sections[n].functions[k].as, FunctionLocation(n, k), "function"),
              !.data  = Append(@, FunctionData(sections[n].functions[k].name, NoSpace, r.numFunctionsSeen)),
              !.numFunctionsSeen = @ + 1], n, k + 1)
<1> DEFINE t == r.table
           d == r.data
           ns == r.numSpacesSeen
           nf == r.numFunctionsSeen
           name == ShortAt(sections, n, k)
           of == sections[n].functions[k].name
           l == FunctionLocation(n, k)
           type == "function"
           new == FunctionData(of, NoSpace, nf)
           x == Len(t.symbols) + 1
           u == DefineSymbol(t, name, l, type)
           e == Append(d, new)
           q == [r EXCEPT
              !.table = DefineSymbol(@, sections[n].functions[k].as, FunctionLocation(n, k), "function"),
              !.data  = Append(@, FunctionData(sections[n].functions[k].name, NoSpace, r.numFunctionsSeen)),
              !.numFunctionsSeen = @ + 1]
<1>1. /\ Tabled(t, d) /\ ns \in Nat /\ nf \in Nat
      /\ FunctionsNumbered(t, d, nf) /\ SpacesNumbered(t, d, ns)
      /\ SymbolsSeen(sections, t, d, n, k) /\ PlacesSeen(sections, t, d, n, k)
      /\ SpaceOpen(sections, t, d, ns, n, k)
      /\ DOMAIN r = {"table", "data", "numSpacesSeen", "numFunctionsSeen"}
  BY DEF ParsedAs, Parsed
<1>2. /\ DOMAIN q = {"table", "data", "numSpacesSeen", "numFunctionsSeen"}
      /\ q.table = u /\ q.data = e /\ q.numSpacesSeen = ns /\ q.numFunctionsSeen = nf + 1
  BY <1>1 DEF ShortAt
<1>3. u = DefineSymbol(t, name, l, type) /\ e = Append(d, new)
  OBVIOUS
<1> HIDE DEF t, d, ns, nf, u, e, x, q
<1>4. Tabled(u, e) /\ Grows(t, d, u, e, x, name, l, type, new)
  <2> HIDE DEF name, l, type, new
  <2>1. QED
    BY <1>1, <1>3, TableGrows DEF x
<1>5. n \in Nat /\ k \in Nat /\ k > 0
  BY SectionPositions
<1>6. NothingAt(sections, t, n, k)
  <2>1. ~Seen(n, k, n, k)
    BY <1>5 DEF Seen
  <2>2. QED
    BY <1>1, <2>1 DEF PlacesSeen
<1>7. FunctionAt(sections, u, e, x, n, k)
  <2>1. x \in OfType(u, "function")
    BY <1>4, GrowsOfType
  <2>2. /\ u.symbols[x].name = name /\ e[x] = new
        /\ name \notin DOMAIN t.byName => name \in DOMAIN u.byName /\ u.byName[name] = x
        /\ ValuesAt(u.byLocation, l) = Append(ValuesAt(t.byLocation, l), x)
    BY <1>4 DEF Grows
  <2>3. name \notin DOMAIN t.byName /\ ValuesAt(t.byLocation, l) = << >>
    BY <1>6 DEF NothingAt
  <2>4. ValuesAt(u.byLocation, l) = <<x>>
    BY <2>2, <2>3
  <2>5. e[x].name = of /\ DOMAIN e[x] = {"name", "space", "anchor"}
    BY <2>2 DEF FunctionData
  <2>6. QED
    BY <2>1, <2>2, <2>3, <2>4, <2>5 DEF FunctionAt
<1>8. SymbolsSeen(sections, u, e, n, k + 1) /\ PlacesSeen(sections, u, e, n, k + 1)
  <2>1. Grows(t, d, u, e, x, ShortAt(sections, n, k), FunctionLocation(n, k), type, new)
    BY <1>4
  <2> HIDE DEF type, new, name, l
  <2>2. QED
    BY <1>1, <1>7, <2>1, SymbolsSeenMore, PlacesSeenMore
<1>9. FunctionsNumbered(u, e, nf + 1) /\ nf + 1 \in Nat
  BY <1>1, <1>4, FunctionCounted
<1>10. SpacesNumbered(u, e, ns)
  <2>1. ~IsSpace(type)
    BY DEF IsSpace
  <2> HIDE DEF type, new, name, l
  <2>2. QED
    BY <1>1, <1>4, <2>1, SpacesStayNumbered
<1>11. SpaceOpen(sections, u, e, ns, n, k + 1)
  <2>1. \A number, uri : SpaceNumbered(t, d, number, uri) => SpaceNumbered(u, e, number, uri)
    <3> HIDE DEF type, new, name, l
    <3>1. QED
      BY <1>4, SpaceStaysNumbered
  <2>2. QED
    BY <1>1, <1>5, <2>1 DEF SpaceOpen
<1>12. Parsed(sections, u, e, ns, nf + 1, n, k + 1)
  BY <1>1, <1>4, <1>8, <1>9, <1>10, <1>11 DEF Parsed
<1>13. ParsedAs(sections, q, n, k + 1)
  BY <1>2, <1>12 DEF ParsedAs
<1>14. QED
  BY <1>13 DEF q

\* What a section that is left gives its functions.
GivesSpace(t, d, e, functions, space) ==
  /\ Tabled(t, e)
  /\ functions \subseteq OfType(t, "function")
  /\ \A i \in OfType(t, "function") :
       /\ DOMAIN e[i] = DOMAIN d[i] /\ e[i].name = d[i].name /\ e[i].anchor = d[i].anchor
       /\ e[i].space = IF i \in functions THEN space ELSE d[i].space
  /\ \A j \in OfType(t, "space") : e[j] = d[j]

LEMMA SpaceIsGiven ==
  ASSUME NEW t, NEW d, Tabled(t, d), NEW space,
         NEW functions \in SUBSET OfType(t, "function"),
         \A i \in OfType(t, "function") : DOMAIN d[i] = {"name", "space", "anchor"},
         NEW e, e = [i \in DOMAIN d |->
                       IF i \in functions THEN [d[i] EXCEPT !.space = space] ELSE d[i]]
  PROVE  GivesSpace(t, d, e, functions, space)
<1>1. /\ DOMAIN t = DOMAIN EmptyTable /\ IsSequence(t.symbols) /\ Len(d) = Len(t.symbols)
      /\ DOMAIN d = 1..Len(d) /\ Len(d) \in Nat /\ DOMAIN t.symbols = 1..Len(d)
  BY SequenceHas DEF Tabled
<1>2. IsSequence(e) /\ Len(e) = Len(d)
  <2>1. e = [i \in 1..Len(d) |-> e[i]]
    BY <1>1
  <2>2. QED
    BY <1>1, <2>1, ListIsSequence
<1>3. \A i \in OfType(t, "function") : i \in DOMAIN d
  BY <1>1 DEF OfType
<1>4. \A j \in OfType(t, "space") : j \in DOMAIN d /\ j \notin functions
  BY <1>1 DEF OfType
<1>5. ASSUME NEW i \in OfType(t, "function")
      PROVE  /\ DOMAIN e[i] = DOMAIN d[i] /\ e[i].name = d[i].name /\ e[i].anchor = d[i].anchor
             /\ e[i].space = IF i \in functions THEN space ELSE d[i].space
  <2>1. DOMAIN d[i] = {"name", "space", "anchor"}
    OBVIOUS
  <2>2. e[i] = IF i \in functions THEN [d[i] EXCEPT !.space = space] ELSE d[i]
    BY <1>3
  <2>3. QED
    BY <2>1, <2>2
<1>6. \A j \in OfType(t, "space") : e[j] = d[j]
  BY <1>4
<1>7. QED
  BY <1>1, <1>2, <1>5, <1>6 DEF GivesSpace, Tabled

\* The symbols VisitExtensionspace finds are the functions of the section.
FunctionsThere(t, sections, n) ==
  {LookupSymbolByLocationAndType(t, FunctionLocation(n, k), "function") :
     k \in DOMAIN sections[n].functions}

LEMMA FunctionsThereAre ==
  ASSUME NEW p, NEW sections, Placed(p, sections), NEW n \in DOMAIN sections,
         NEW t, NEW d, NEW m \in Nat, m > Len(sections[n].functions),
         PlacesSeen(sections, t, d, n, m)
  PROVE  /\ \A i \in FunctionsThere(t, sections, n) :
              \E k \in DOMAIN sections[n].functions : FunctionAt(sections, t, d, i, n, k)
         /\ \A k \in DOMAIN sections[n].functions, i \in OfType(t, "function") :
              FunctionAt(sections, t, d, i, n, k) => i \in FunctionsThere(t, sections, n)
         /\ FunctionsThere(t, sections, n) \in SUBSET OfType(t, "function")
<1>1. ASSUME NEW k \in DOMAIN sections[n].functions, NEW i, FunctionAt(sections, t, d, i, n, k)
      PROVE  LookupSymbolByLocationAndType(t, FunctionLocation(n, k), "function") = i
  <2>1. ValuesAt(t.byLocation, FunctionLocation(n, k)) = <<i>> /\ t.symbols[i].type = "function"
    BY <1>1 DEF FunctionAt, OfType
  <2>2. QED
    BY <2>1, NamedAloneThere
<1>2. \A k \in DOMAIN sections[n].functions :
        \E i \in OfType(t, "function") : FunctionAt(sections, t, d, i, n, k)
  <2>1. \A k \in DOMAIN sections[n].functions : Seen(n, m, n, k)
    BY SectionPositions DEF Seen
  <2>2. QED
    BY <2>1 DEF PlacesSeen
<1>3. \A i \in FunctionsThere(t, sections, n) :
        \E k \in DOMAIN sections[n].functions :
          FunctionAt(sections, t, d, i, n, k) /\ i \in OfType(t, "function")
  <2>1. ASSUME NEW k \in DOMAIN sections[n].functions
        PROVE  LET i == LookupSymbolByLocationAndType(t, FunctionLocation(n, k), "function")
               IN FunctionAt(sections, t, d, i, n, k) /\ i \in OfType(t, "function")
    BY <1>1, <1>2
  <2>2. QED
    BY <2>1 DEF FunctionsThere
<1>4. \A k \in DOMAIN sections[n].functions, i \in OfType(t, "function") :
        FunctionAt(sections, t, d, i, n, k) => i \in FunctionsThere(t, sections, n)
  BY <1>1 DEF FunctionsThere
<1>5. QED
  BY <1>3, <1>4

LEMMA SymbolsSeenAfter ==
  ASSUME NEW p, NEW sections, Placed(p, sections), NEW n \in DOMAIN sections,
         NEW t, NEW d, NEW e, NEW space, NEW m \in Nat, m > Len(sections[n].functions),
         SymbolsSeen(sections, t, d, n, m), PlacesSeen(sections, t, d, n, m),
         GivesSpace(t, d, e, FunctionsThere(t, sections, n), space),
         SpaceGiven(t, d, sections[n].uri, space)
  PROVE  SymbolsSeen(sections, t, e, n + 1, 0)
<1> DEFINE functions == FunctionsThere(t, sections, n)
<1>1. /\ \A i \in functions :
           \E k \in DOMAIN sections[n].functions : FunctionAt(sections, t, d, i, n, k)
      /\ \A k \in DOMAIN sections[n].functions, i \in OfType(t, "function") :
           FunctionAt(sections, t, d, i, n, k) => i \in functions
  BY FunctionsThereAre
<1> HIDE DEF functions
<1>2. /\ \A i \in OfType(t, "function") :
           /\ DOMAIN e[i] = DOMAIN d[i] /\ e[i].name = d[i].name
           /\ e[i].space = IF i \in functions THEN space ELSE d[i].space
      /\ \A j \in OfType(t, "space") : e[j] = d[j]
  BY DEF GivesSpace, functions
<1>3. \A uri, x : SpaceGiven(t, d, uri, x) => SpaceGiven(t, e, uri, x)
  BY <1>2 DEF SpaceGiven, SpaceNumbered
<1>4. ASSUME NEW i \in OfType(t, "function")
      PROVE  \E s \in DOMAIN sections : \E k \in DOMAIN sections[s].functions :
               /\ Seen(n + 1, 0, s, k) /\ FunctionAt(sections, t, e, i, s, k)
               /\ s < n + 1 => SpaceGiven(t, e, sections[s].uri, e[i].space)
  <2>1. PICK s \in DOMAIN sections : \E k \in DOMAIN sections[s].functions :
          /\ Seen(n, m, s, k) /\ FunctionAt(sections, t, d, i, s, k)
          /\ s < n => SpaceGiven(t, d, sections[s].uri, d[i].space)
    BY DEF SymbolsSeen
  <2>2. PICK k \in DOMAIN sections[s].functions :
          /\ Seen(n, m, s, k) /\ FunctionAt(sections, t, d, i, s, k)
          /\ s < n => SpaceGiven(t, d, sections[s].uri, d[i].space)
    BY <2>1
  <2>3. s \in Nat /\ n \in Nat
    BY SectionPositions
  <2>4. Seen(n + 1, 0, s, k)
    BY <2>2, <2>3 DEF Seen
  <2>5. FunctionAt(sections, t, e, i, s, k)
    BY <1>2, <2>2 DEF FunctionAt
  <2>6. SpaceGiven(t, d, sections[s].uri, e[i].space)
    <3>1. CASE s = n
      <4>1. i \in functions
        BY <1>1, <2>2, <3>1
      <4>2. QED
        BY <1>2, <3>1, <4>1
    <3>2. CASE s # n
      <4>1. s < n
        BY <2>2, <3>2 DEF Seen
      <4>2. i \notin functions
        <5>1. SUFFICES ASSUME i \in functions PROVE FALSE
          OBVIOUS
        <5>2. PICK j \in DOMAIN sections[n].functions : FunctionAt(sections, t, d, i, n, j)
          BY <1>1, <5>1
        <5>3. sections[n].functions[j].as = sections[s].functions[k].as
          BY <2>2, <5>2 DEF FunctionAt, ShortAt
        <5>4. QED
          BY <3>2, <5>3 DEF Placed
      <4>3. QED
        BY <1>2, <2>2, <4>1, <4>2
    <3>3. QED
      BY <3>1, <3>2
  <2>7. QED
    BY <1>3, <2>4, <2>5, <2>6
<1>5. QED
  BY <1>4 DEF SymbolsSeen

LEMMA PlacesSeenAfter ==
  ASSUME NEW p, NEW sections, Placed(p, sections), NEW n \in DOMAIN sections,
         NEW t, NEW d, NEW e, NEW space, NEW functions,
         NEW m \in Nat, m > Len(sections[n].functions),
         PlacesSeen(sections, t, d, n, m), GivesSpace(t, d, e, functions, space)
  PROVE  PlacesSeen(sections, t, e, n + 1, 0)
<1>1. \A s \in DOMAIN sections : \A k \in DOMAIN sections[s].functions :
        Seen(n + 1, 0, s, k) <=> Seen(n, m, s, k)
  BY SectionPositions DEF Seen
<1>2. \A i \in OfType(t, "function") : \A s, k :
        FunctionAt(sections, t, d, i, s, k) => FunctionAt(sections, t, e, i, s, k)
  BY DEF GivesSpace, FunctionAt
<1>3. ASSUME NEW s \in DOMAIN sections, NEW k \in DOMAIN sections[s].functions,
             Seen(n + 1, 0, s, k)
      PROVE  \E i \in OfType(t, "function") : FunctionAt(sections, t, e, i, s, k)
  <2>1. PICK i \in OfType(t, "function") : FunctionAt(sections, t, d, i, s, k)
    BY <1>1, <1>3 DEF PlacesSeen
  <2>2. QED
    BY <1>2, <2>1
<1>4. ASSUME NEW s \in DOMAIN sections, NEW k \in DOMAIN sections[s].functions,
             ~Seen(n + 1, 0, s, k)
      PROVE  NothingAt(sections, t, s, k)
  BY <1>1, <1>4 DEF PlacesSeen
<1>5. QED
  BY <1>3, <1>4 DEF PlacesSeen

LEMMA SectionParsed ==
  ASSUME NEW p, NEW sections, Placed(p, sections), NEW n \in DOMAIN sections,
         NEW m \in Nat, m > 0, m > Len(sections[n].functions),
         NEW r, ParsedAs(sections, r, n, m)
  PROVE  ParsedAs(sections,
           [r EXCEPT !.data = [i \in DOMAIN @ |->
              IF i \in FunctionsThere(r.table, sections, n)
              THEN [@[i] EXCEPT !.space = SpaceOf(r, sections[n])] ELSE @[i]]], n + 1, 0)
<1> DEFINE t == r.table
           d == r.data
           ns == r.numSpacesSeen
           nf == r.numFunctionsSeen
           functions == FunctionsThere(t, sections, n)
           space == SpaceOf(r, sections[n])
           e == [i \in DOMAIN d |->
                   IF i \in functions THEN [d[i] EXCEPT !.space = space] ELSE d[i]]
           q == [r EXCEPT !.data = [i \in DOMAIN @ |->
              IF i \in FunctionsThere(r.table, sections, n)
              THEN [@[i] EXCEPT !.space = SpaceOf(r, sections[n])] ELSE @[i]]]
<1>1. /\ Tabled(t, d) /\ ns \in Nat /\ nf \in Nat
      /\ FunctionsNumbered(t, d, nf) /\ SpacesNumbered(t, d, ns)
      /\ SymbolsSeen(sections, t, d, n, m) /\ PlacesSeen(sections, t, d, n, m)
      /\ SpaceOpen(sections, t, d, ns, n, m)
      /\ DOMAIN r = {"table", "data", "numSpacesSeen", "numFunctionsSeen"}
  BY DEF ParsedAs, Parsed
<1>2. /\ DOMAIN q = {"table", "data", "numSpacesSeen", "numFunctionsSeen"}
      /\ q.table = t /\ q.data = e /\ q.numSpacesSeen = ns /\ q.numFunctionsSeen = nf
  BY <1>1
<1>3. SpaceGiven(t, d, sections[n].uri, space)
  BY <1>1 DEF SpaceOpen, SpaceGiven, SpaceOf
<1>4. functions \in SUBSET OfType(t, "function")
  BY <1>1, FunctionsThereAre
<1>5. e = [i \in DOMAIN d |-> IF i \in functions THEN [d[i] EXCEPT !.space = space] ELSE d[i]]
  OBVIOUS
<1> HIDE DEF t, d, ns, nf, functions, space, e, q
<1>6. \A i \in OfType(t, "function") : DOMAIN d[i] = {"name", "space", "anchor"}
  BY <1>1 DEF SymbolsSeen, FunctionAt
<1>7. GivesSpace(t, d, e, functions, space)
  BY <1>1, <1>4, <1>5, <1>6, SpaceIsGiven
<1>8. SymbolsSeen(sections, t, e, n + 1, 0)
  <2>1. GivesSpace(t, d, e, FunctionsThere(t, sections, n), space)
    BY <1>7 DEF functions
  <2>2. QED
    BY <1>1, <1>3, <2>1, SymbolsSeenAfter
<1>9. PlacesSeen(sections, t, e, n + 1, 0)
  BY <1>1, <1>7, PlacesSeenAfter
<1>10. Tabled(t, e) /\ FunctionsNumbered(t, e, nf) /\ SpacesNumbered(t, e, ns)
  BY <1>1, <1>7 DEF GivesSpace, FunctionsNumbered, SpacesNumbered
<1>11. SpaceOpen(sections, t, e, ns, n + 1, 0)
  BY DEF SpaceOpen
<1>12. Parsed(sections, t, e, ns, nf, n + 1, 0)
  BY <1>1, <1>8, <1>9, <1>10, <1>11 DEF Parsed
<1>13. ParsedAs(sections, q, n + 1, 0)
  BY <1>2, <1>12 DEF ParsedAs
<1>14. QED
  BY <1>13 DEF q, e, d, functions, t, space

-----------------------------------------------------------------------------
(***************************************************************************)
(* The message the parser's table is written to.                           *)
(***************************************************************************)

LEMMA SymbolPositions ==
  ASSUME NEW t, NEW d, Tabled(t, d), NEW type
  PROVE  /\ OfType(t, type) \in SUBSET Nat /\ NoSymbol \notin OfType(t, type)
         /\ OfType(t, type) \in SUBSET Int
         /\ IsFiniteSet(OfType(t, type))
<1>1. DOMAIN t.symbols = 1..Len(t.symbols) /\ Len(t.symbols) \in Nat
  BY SequenceHas DEF Tabled
<1>2. OfType(t, type) \in SUBSET DOMAIN t.symbols
  BY DEF OfType
<1>3. IsFiniteSet(1..Len(t.symbols))
  BY <1>1, FS_Interval
<1>4. IsFiniteSet(OfType(t, type))
  BY <1>1, <1>2, <1>3, FS_Subset
<1>5. QED
  BY <1>1, <1>2, <1>4 DEF NoSymbol

LEMMA SpaceNameNumbered ==
  ASSUME NEW t, NEW d, Tabled(t, d), NEW seen, SpacesNumbered(t, d, seen),
         NEW j \in OfType(t, "space")
  PROVE  SpaceName(t, d, d[j].anchor) = t.symbols[j].name
<1> DEFINE S == {i \in OfType(t, "space") : d[i].anchor = d[j].anchor}
<1>1. S = {j}
  BY DEF SpacesNumbered
<1>2. j \in Nat /\ j # NoSymbol
  BY SymbolPositions
<1>3. First(S) = j
  BY <1>1, <1>2, FirstIs
<1>4. QED
  BY <1>2, <1>3 DEF SpaceName

LEMMA SpacesWritten ==
  ASSUME NEW t, NEW d, Tabled(t, d), NEW seen, SpacesNumbered(t, d, seen),
         NEW b, b.spaces = SpacesToBinary(t, d)
  PROVE  /\ \A j \in OfType(t, "space") : UriOf(b, d[j].anchor) = t.symbols[j].name
         /\ UriOf(b, Unset) = NoUri
<1> DEFINE S == OfType(t, "space")
           all == InOrder(S)
<1>1. /\ IsSequence(all)
      /\ \A k \in DOMAIN all : all[k] \in S
      /\ \A k, l \in DOMAIN all : all[k] = all[l] => k = l
      /\ \A j \in S : \E k \in DOMAIN all : all[k] = j
  <2> DEFINE R == Ordered(S, <)
  <2>1. IsFiniteSet(S)
    BY SymbolPositions
  <2>2. IsStrictOrder(S, R)
    BY SymbolPositions, NumbersOrdered
  <2>3. all = Sorted(S, R)
    BY DEF InOrder
  <2> HIDE DEF S, all, R
  <2>4. QED
    BY <2>1, <2>2, <2>3, SortedIs
<1>2. b.spaces = [k \in DOMAIN all |-> [anchor |-> d[all[k]].anchor, uri |-> t.symbols[all[k]].name]]
  BY DEF SpacesToBinary
<1> HIDE DEF all, S
<1>3. /\ DOMAIN b.spaces = DOMAIN all
      /\ \A k \in DOMAIN all : /\ b.spaces[k].anchor = d[all[k]].anchor
                               /\ b.spaces[k].uri = t.symbols[all[k]].name
  BY <1>2
<1>4. /\ \A j \in S : d[j].anchor \in Nat /\ 0 < d[j].anchor
      /\ \A i, j \in S : d[i].anchor = d[j].anchor => i = j
  BY DEF SpacesNumbered, S
<1>5. AnchorsApart(b.spaces)
  BY <1>1, <1>3, <1>4 DEF AnchorsApart
<1>6. ASSUME NEW j \in S
      PROVE  UriOf(b, d[j].anchor) = t.symbols[j].name
  <2>1. PICK k \in DOMAIN all : all[k] = j
    BY <1>1
  <2>2. UriOf(b, b.spaces[k].anchor) = b.spaces[k].uri
    BY <1>3, <1>5, UriIs
  <2>3. QED
    BY <1>3, <2>1, <2>2
<1>7. UriOf(b, Unset) = NoUri
  <2>1. \A k \in DOMAIN b.spaces : b.spaces[k].anchor # Unset
    BY <1>1, <1>3, <1>4 DEF Unset
  <2>2. QED
    BY <2>1, NoUriIs
<1>8. QED
  BY <1>6, <1>7 DEF S

\* The number of its space a function is written with.
SpaceWritten(t, d, i) ==
  IF d[i].space = NoSpace \/ SpaceName(t, d, d[i].space) = NoUri THEN Unset ELSE d[i].space

LEMMA FunctionsWritten ==
  ASSUME NEW t, NEW d, Tabled(t, d), NEW seen, FunctionsNumbered(t, d, seen),
         \A i \in OfType(t, "function") : d[i].space \in Int,
         NEW b, b.extensions = FunctionsToBinary(t, d),
         NEW i \in OfType(t, "function")
  PROVE  Function(b, d[i].anchor) = <<UriOf(b, SpaceWritten(t, d, i)), d[i].name>>
<1> DEFINE F == OfType(t, "function")
           R == Ordered(F, LAMBDA x, y :
                  \/ d[x].space # NoSpace /\ (d[y].space = NoSpace \/ d[x].space < d[y].space)
                  \/ d[x].space = d[y].space /\ x < y)
           all == Sorted(F, R)
<1>1. b.extensions = [k \in DOMAIN all |->
        [ kind |-> "function", name |-> d[all[k]].name, anchor |-> d[all[k]].anchor,
          space |-> SpaceWritten(t, d, all[k]) ]]
  BY DEF FunctionsToBinary, SpaceWritten
<1>2. IsStrictOrder(F, R)
  <2>1. \A x, y \in F : <<x, y>> \in R <=>
          \/ d[x].space # NoSpace /\ (d[y].space = NoSpace \/ d[x].space < d[y].space)
          \/ d[x].space = d[y].space /\ x < y
    BY DEF Ordered
  <2>2. F \in SUBSET Int
    BY SymbolPositions
  <2>3. \A x \in F : d[x].space \in Int
    OBVIOUS
  <2> HIDE DEF F, R
  <2>4. \A x \in F : <<x, x>> \notin R
    BY <2>1, <2>2, <2>3
  <2>5. ASSUME NEW x \in F, NEW y \in F, NEW z \in F, <<x, y>> \in R, <<y, z>> \in R
        PROVE  <<x, z>> \in R
    BY <2>1, <2>2, <2>3, <2>5
  <2>6. QED
    BY <2>4, <2>5 DEF IsStrictOrder
<1>3. IsFiniteSet(F)
  BY SymbolPositions
<1>4. /\ \A x, y \in F : d[x].anchor = d[y].anchor => x = y
      /\ i \in F
  BY DEF FunctionsNumbered
<1> HIDE DEF R, F
<1>5. /\ \A k \in DOMAIN all : all[k] \in F
      /\ \A k, l \in DOMAIN all : all[k] = all[l] => k = l
      /\ \A j \in F : \E k \in DOMAIN all : all[k] = j
  BY <1>2, <1>3, SortedIs
<1> HIDE DEF all
<1>6. /\ DOMAIN b.extensions = DOMAIN all
      /\ \A k \in DOMAIN all :
           /\ b.extensions[k].kind = "function"
           /\ b.extensions[k].name = d[all[k]].name
           /\ b.extensions[k].anchor = d[all[k]].anchor
           /\ b.extensions[k].space = SpaceWritten(t, d, all[k])
  BY <1>1
<1>7. AnchorsApart(b.extensions)
  BY <1>4, <1>5, <1>6 DEF AnchorsApart
<1>8. PICK k \in DOMAIN all : all[k] = i
  BY <1>4, <1>5
<1>9. Function(b, b.extensions[k].anchor) = FunctionOf(b, k)
  BY <1>6, <1>7, FunctionIs
<1>10. QED
  BY <1>6, <1>8, <1>9 DEF FunctionOf

\* What was parsed means what was converted.
CallMeans(p, t, d, b, e) ==
  LET i == LookupSymbolByName(t, ShortNumbered(p, e))
  IN i \in OfType(t, "function") /\ Function(b, d[i].anchor) = FunctionOf(p, e)

LEMMA FunctionComesBack ==
  ASSUME NEW p, NEW sections, Placed(p, sections),
         NEW r, ParsedAs(sections, r, Len(sections) + 1, 0), NEW e \in DOMAIN p.extensions
  PROVE  LET i == LookupSymbolByName(r.table, ShortNumbered(p, e))
         IN /\ i \in OfType(r.table, "function")
            /\ r.data[i].name = p.extensions[e].name
            /\ SpaceGiven(r.table, r.data, UriOf(p, p.extensions[e].space), r.data[i].space)
<1> DEFINE t == r.table
           d == r.data
           n == Len(sections) + 1
<1>1. SymbolsSeen(sections, t, d, n, 0) /\ PlacesSeen(sections, t, d, n, 0)
  BY DEF ParsedAs, Parsed
<1>2. PICK s \in DOMAIN sections : \E k \in DOMAIN sections[s].functions :
        PrintedAt(p, sections, s, k, e)
  BY DEF Placed
<1>3. PICK k \in DOMAIN sections[s].functions : PrintedAt(p, sections, s, k, e)
  BY <1>2
<1> HIDE DEF t, d
<1>4. \A x \in DOMAIN sections : x < n /\ \A y \in DOMAIN sections[x].functions : Seen(n, 0, x, y)
  BY SectionPositions DEF Seen
<1> HIDE DEF n
<1>5. PICK i \in OfType(t, "function") : FunctionAt(sections, t, d, i, s, k)
  BY <1>1, <1>4 DEF PlacesSeen
<1>6. LookupSymbolByName(t, ShortNumbered(p, e)) = i
  BY <1>3, <1>5 DEF FunctionAt, ShortAt, PrintedAt, LookupSymbolByName
<1>7. d[i].name = p.extensions[e].name
  BY <1>3, <1>5 DEF FunctionAt, PrintedAt
<1>8. PICK x \in DOMAIN sections : \E y \in DOMAIN sections[x].functions :
        /\ FunctionAt(sections, t, d, i, x, y)
        /\ x < n => SpaceGiven(t, d, sections[x].uri, d[i].space)
  BY <1>1 DEF SymbolsSeen
<1>9. PICK y \in DOMAIN sections[x].functions :
        /\ FunctionAt(sections, t, d, i, x, y)
        /\ x < n => SpaceGiven(t, d, sections[x].uri, d[i].space)
  BY <1>8
<1>10. x = s
  <2>1. sections[x].functions[y].as = sections[s].functions[k].as
    BY <1>5, <1>9 DEF FunctionAt, ShortAt
  <2>2. QED
    BY <2>1 DEF Placed
<1>11. SpaceGiven(t, d, UriOf(p, p.extensions[e].space), d[i].space)
  BY <1>3, <1>4, <1>9, <1>10 DEF PrintedAt
<1>12. QED
  BY <1>6, <1>7, <1>11 DEF t, d

LEMMA SpacesAreNumbers ==
  ASSUME NEW p, NEW sections, Placed(p, sections),
         NEW r, ParsedAs(sections, r, Len(sections) + 1, 0)
  PROVE  \A i \in OfType(r.table, "function") : r.data[i].space \in Int
<1> DEFINE t == r.table
           d == r.data
           n == Len(sections) + 1
<1>1. SymbolsSeen(sections, t, d, n, 0) /\ SpacesNumbered(t, d, r.numSpacesSeen)
  BY DEF ParsedAs, Parsed
<1> HIDE DEF t, d
<1>2. \A x \in DOMAIN sections : x < n
  BY SectionPositions
<1> HIDE DEF n
<1>3. ASSUME NEW i \in OfType(t, "function")
      PROVE  \E x \in DOMAIN sections : SpaceGiven(t, d, sections[x].uri, d[i].space)
  <2>1. PICK x \in DOMAIN sections : \E y \in DOMAIN sections[x].functions :
          x < n => SpaceGiven(t, d, sections[x].uri, d[i].space)
    BY <1>1 DEF SymbolsSeen
  <2>2. QED
    BY <1>2, <2>1
<1>4. \A uri, x : SpaceGiven(t, d, uri, x) => x \in Int
  BY <1>1 DEF SpaceGiven, SpaceNumbered, SpacesNumbered, NoSpace
<1>5. QED
  BY <1>3, <1>4 DEF t, d

LEMMA CallMeansWhatItDid ==
  ASSUME NEW p, NEW sections, Placed(p, sections),
         NEW r, ParsedAs(sections, r, Len(sections) + 1, 0), NEW e \in DOMAIN p.extensions,
         NEW b, b.spaces = SpacesToBinary(r.table, r.data),
         b.extensions = FunctionsToBinary(r.table, r.data)
  PROVE  CallMeans(p, r.table, r.data, b, e)
<1> DEFINE t == r.table
           d == r.data
           i == LookupSymbolByName(t, ShortNumbered(p, e))
           uri == UriOf(p, p.extensions[e].space)
<1>1. /\ Tabled(t, d) /\ SpacesNumbered(t, d, r.numSpacesSeen)
      /\ FunctionsNumbered(t, d, r.numFunctionsSeen)
  BY DEF ParsedAs, Parsed
<1>2. /\ i \in OfType(t, "function") /\ d[i].name = p.extensions[e].name
      /\ SpaceGiven(t, d, uri, d[i].space)
  BY FunctionComesBack
<1>3. \A x \in OfType(t, "function") : d[x].space \in Int
  BY SpacesAreNumbers
<1>4. b.spaces = SpacesToBinary(t, d) /\ b.extensions = FunctionsToBinary(t, d)
  OBVIOUS
<1> HIDE DEF t, d, i, uri
<1>5. /\ \A j \in OfType(t, "space") : UriOf(b, d[j].anchor) = t.symbols[j].name
      /\ UriOf(b, Unset) = NoUri
  BY <1>1, <1>4, SpacesWritten
<1>6. UriOf(b, SpaceWritten(t, d, i)) = uri
  <2>1. CASE uri = NoUri
    <3>1. SpaceWritten(t, d, i) = Unset
      BY <1>2, <2>1 DEF SpaceGiven, SpaceWritten
    <3>2. QED
      BY <1>5, <2>1, <3>1
  <2>2. CASE uri # NoUri
    <3>1. PICK j \in OfType(t, "space") : d[j].anchor = d[i].space /\ t.symbols[j].name = uri
      BY <1>2, <2>2 DEF SpaceGiven, SpaceNumbered
    <3>2. SpaceName(t, d, d[i].space) = uri
      BY <1>1, <3>1, SpaceNameNumbered
    <3>3. d[i].space # NoSpace
      BY <1>1, <3>1 DEF SpacesNumbered, NoSpace
    <3>4. SpaceWritten(t, d, i) = d[i].space
      BY <2>2, <3>2, <3>3 DEF SpaceWritten
    <3>5. QED
      BY <1>5, <3>1, <3>4
  <2>3. QED
    BY <2>1, <2>2
<1>7. Function(b, d[i].anchor) = <<UriOf(b, SpaceWritten(t, d, i)), d[i].name>>
  BY <1>1, <1>2, <1>3, <1>4, FunctionsWritten
<1>8. Function(b, d[i].anchor) = FunctionOf(p, e)
  BY <1>2, <1>6, <1>7 DEF FunctionOf, uri
<1>9. CallMeans(p, t, d, b, e)
  BY <1>2, <1>8 DEF CallMeans, i
<1>10. QED
  BY <1>9 DEF t, d

-----------------------------------------------------------------------------
(***************************************************************************)
(* Calls, on the way to a text and on the way back.                        *)
(***************************************************************************)

\* The first n calls are by the names of what they call.
CallsNamed(p, calls, n) ==
  /\ IsSequence(calls) /\ Len(calls) = n /\ n \in 0..Len(p.calls)
  /\ \A c \in 1..n : \A e \in DOMAIN p.extensions :
       p.extensions[e].anchor = p.calls[c].function => calls[c] = ShortNumbered(p, e)

\* The first n calls are by the numbers those names have.
CallsBack(p, r, calls, n) ==
  /\ IsSequence(calls) /\ Len(calls) = n /\ n \in 0..Len(p.calls)
  /\ \A c \in 1..n : \A e \in DOMAIN p.extensions :
       p.extensions[e].anchor = p.calls[c].function =>
         calls[c].function = r.data[LookupSymbolByName(r.table, ShortNumbered(p, e))].anchor

LEMMA FunctionCalled ==
  ASSUME NEW p, IsCalling(p), Consistent(p), NEW t, NEW d,
         Converted(p, t, d, Len(p.spaces), Len(p.extensions)),
         NEW e \in DOMAIN p.extensions
  PROVE  LET i == Calls(t, d, p.extensions[e].anchor)
         IN i # NoSymbol /\ t.symbols[i].name = ShortNumbered(p, e)
<1> DEFINE S == {i \in OfType(t, "function") : d[i].anchor = p.extensions[e].anchor}
           s == SymbolFor(p, e)
<1>0. FunctionsOfPlan(p, t, d)
  BY ConvertedHas
<1>1. s \in OfType(t, "function") /\ ExtensionOf(p, s) = e
  BY <1>0 DEF FunctionsOfPlan
<1>2. \A i \in OfType(t, "function") :
        /\ ExtensionOf(p, i) \in DOMAIN p.extensions
        /\ SymbolFor(p, ExtensionOf(p, i)) = i
        /\ t.symbols[i].name = ShortNumbered(p, ExtensionOf(p, i))
        /\ d[i].anchor = p.extensions[ExtensionOf(p, i)].anchor
  BY <1>0 DEF FunctionsOfPlan
<1>3. AnchorsApart(p.extensions)
  BY DEF Consistent
<1>4. S = {s}
  BY <1>1, <1>2, <1>3 DEF AnchorsApart
<1>5. s \in Nat /\ s # NoSymbol
  <2>1. IsSequence(t.symbols)
    BY DEF Converted
  <2>2. DOMAIN t.symbols = 1..Len(t.symbols) /\ Len(t.symbols) \in Nat
    BY <2>1, SequenceHas
  <2>3. s \in DOMAIN t.symbols
    BY <1>1 DEF OfType
  <2> HIDE DEF s
  <2>4. QED
    BY <2>2, <2>3 DEF NoSymbol
<1> HIDE DEF s
<1>6. First(S) = s
  BY <1>4, <1>5, FirstIs
<1>7. Calls(t, d, p.extensions[e].anchor) = s
  BY <1>6 DEF Calls
<1>8. QED
  BY <1>1, <1>2, <1>5, <1>7

LEMMA CallIsNamed ==
  ASSUME NEW p, IsCalling(p), Consistent(p), NEW t, NEW d,
         Converted(p, t, d, Len(p.spaces), Len(p.extensions)),
         NEW calls, NEW n \in DOMAIN p.calls, CallsNamed(p, calls, n - 1)
  PROVE  LET i == Calls(t, d, p.calls[n].function)
         IN i # NoSymbol /\ CallsNamed(p, Append(calls, t.symbols[i].name), n)
<1>1. PICK e \in DOMAIN p.extensions : p.extensions[e].anchor = p.calls[n].function
  BY DEF Consistent
<1> DEFINE i == Calls(t, d, p.calls[n].function)
           new == Append(calls, t.symbols[i].name)
<1>2. i # NoSymbol /\ t.symbols[i].name = ShortNumbered(p, e)
  BY <1>1, FunctionCalled
<1> HIDE DEF i
<1>3. DOMAIN p.calls = 1..Len(p.calls) /\ Len(p.calls) \in Nat
  BY SequenceHas DEF IsCalling
<1>4. IsSequence(calls) /\ Len(calls) = n - 1 /\ DOMAIN calls = 1..(n - 1)
  <2>1. IsSequence(calls) /\ Len(calls) = n - 1
    BY DEF CallsNamed
  <2>2. QED
    BY <2>1, SequenceHas
<1>5. /\ IsSequence(new) /\ Len(new) = Len(calls) + 1
      /\ \A c \in DOMAIN calls : new[c] = calls[c]
      /\ new[Len(calls) + 1] = t.symbols[i].name
  BY <1>4, SequenceAppend
<1> HIDE DEF new
<1>6. Len(new) = n /\ new[n] = ShortNumbered(p, e) /\ n \in 0..Len(p.calls)
  BY <1>2, <1>3, <1>4, <1>5
<1>7. \A f \in DOMAIN p.extensions : p.extensions[f].anchor = p.calls[n].function => f = e
  BY <1>1 DEF Consistent, AnchorsApart
<1>8. ASSUME NEW c \in 1..n, NEW f \in DOMAIN p.extensions,
             p.extensions[f].anchor = p.calls[c].function
      PROVE  new[c] = ShortNumbered(p, f)
  <2>1. CASE c = n
    BY <1>6, <1>7, <1>8, <2>1
  <2>2. CASE c # n
    <3>1. c \in 1..(n - 1)
      BY <1>3, <2>2
    <3>2. QED
      BY <1>4, <1>5, <1>8, <3>1 DEF CallsNamed
  <2>3. QED
    BY <2>1, <2>2
<1>9. CallsNamed(p, new, n)
  BY <1>5, <1>6, <1>8 DEF CallsNamed
<1>10. QED
  BY <1>2, <1>9 DEF i, new

LEMMA CallComesBack ==
  ASSUME NEW p, IsCalling(p), Consistent(p), NEW sections, Placed(p, sections),
         NEW r, ParsedAs(sections, r, Len(sections) + 1, 0),
         NEW names, CallsNamed(p, names, Len(p.calls)),
         NEW calls, NEW n \in DOMAIN p.calls, CallsBack(p, r, calls, n - 1), NEW path
  PROVE  LET s == LookupSymbolByName(r.table, names[n])
         IN /\ s \in OfType(r.table, "function") /\ s # NoSymbol
            /\ CallsBack(p, r, Append(calls, [path |-> path, function |-> r.data[s].anchor]), n)
<1>1. PICK e \in DOMAIN p.extensions : p.extensions[e].anchor = p.calls[n].function
  BY DEF Consistent
<1> DEFINE s == LookupSymbolByName(r.table, names[n])
           call == [path |-> path, function |-> r.data[s].anchor]
           new == Append(calls, call)
<1>2. DOMAIN p.calls = 1..Len(p.calls) /\ Len(p.calls) \in Nat
  BY SequenceHas DEF IsCalling
<1>3. names[n] = ShortNumbered(p, e)
  BY <1>1, <1>2 DEF CallsNamed
<1>4. s \in OfType(r.table, "function")
  BY <1>3, FunctionComesBack
<1>5. Tabled(r.table, r.data)
  BY DEF ParsedAs, Parsed
<1>6. s # NoSymbol
  BY <1>4, <1>5, SymbolPositions
<1>7. call.function = r.data[LookupSymbolByName(r.table, ShortNumbered(p, e))].anchor
  BY <1>3
<1>8. IsSequence(calls) /\ Len(calls) = n - 1 /\ DOMAIN calls = 1..(n - 1)
  <2>1. IsSequence(calls) /\ Len(calls) = n - 1
    BY DEF CallsBack
  <2>2. QED
    BY <2>1, SequenceHas
<1> HIDE DEF s, call
<1>9. /\ IsSequence(new) /\ Len(new) = Len(calls) + 1
      /\ \A c \in DOMAIN calls : new[c] = calls[c]
      /\ new[Len(calls) + 1] = call
  BY <1>8, SequenceAppend
<1> HIDE DEF new
<1>10. Len(new) = n /\ new[n] = call /\ n \in 0..Len(p.calls)
  BY <1>2, <1>8, <1>9
<1>11. \A f \in DOMAIN p.extensions : p.extensions[f].anchor = p.calls[n].function => f = e
  BY <1>1 DEF Consistent, AnchorsApart
<1>12. ASSUME NEW c \in 1..n, NEW f \in DOMAIN p.extensions,
              p.extensions[f].anchor = p.calls[c].function
       PROVE  new[c].function = r.data[LookupSymbolByName(r.table, ShortNumbered(p, f))].anchor
  <2>1. CASE c = n
    BY <1>7, <1>10, <1>11, <1>12, <2>1
  <2>2. CASE c # n
    <3>1. c \in 1..(n - 1)
      BY <1>2, <2>2
    <3>2. QED
      BY <1>8, <1>9, <1>12, <3>1 DEF CallsBack
  <2>3. QED
    BY <2>1, <2>2
<1>13. CallsBack(p, r, new, n)
  BY <1>9, <1>10, <1>12 DEF CallsBack
<1>14. QED
  BY <1>4, <1>6, <1>13 DEF s, call, new

\* Calls that came back mean what they meant.
LEMMA MeaningComesBack ==
  ASSUME NEW p, IsCalling(p), Consistent(p), NEW sections, Placed(p, sections),
         NEW r, ParsedAs(sections, r, Len(sections) + 1, 0),
         NEW b, CallsBack(p, r, b.calls, Len(p.calls)),
         b.spaces = SpacesToBinary(r.table, r.data),
         b.extensions = FunctionsToBinary(r.table, r.data)
  PROVE  Meaning(b) = Meaning(p)
<1>1. DOMAIN b.calls = 1..Len(p.calls) /\ DOMAIN p.calls = 1..Len(p.calls)
  <2>1. IsSequence(b.calls) /\ Len(b.calls) = Len(p.calls) /\ IsSequence(p.calls)
    BY DEF CallsBack, IsCalling
  <2>2. QED
    BY <2>1, SequenceHas
<1>2. ASSUME NEW c \in DOMAIN p.calls
      PROVE  Function(b, b.calls[c].function) = Function(p, p.calls[c].function)
  <2>1. PICK e \in DOMAIN p.extensions : p.extensions[e].anchor = p.calls[c].function
    BY DEF Consistent
  <2>2. b.calls[c].function = r.data[LookupSymbolByName(r.table, ShortNumbered(p, e))].anchor
    BY <1>1, <2>1 DEF CallsBack
  <2>3. CallMeans(p, r.table, r.data, b, e)
    BY CallMeansWhatItDid
  <2>4. AnchorsApart(p.extensions) /\ p.extensions[e].kind = "function"
    BY DEF Consistent
  <2>5. Function(p, p.extensions[e].anchor) = FunctionOf(p, e)
    BY <2>4, FunctionIs
  <2>6. QED
    BY <2>1, <2>2, <2>3, <2>5 DEF CallMeans
<1>3. QED
  BY <1>1, <1>2 DEF Meaning

-----------------------------------------------------------------------------
(***************************************************************************)
(* Who moves at which stage, and what moves with it.                       *)
(***************************************************************************)

Moves ==
  /\ stage \in {"spaces", "functions"} => Normalize
  /\ stage = "uris"       => VisitExtensionUri
  /\ stage = "extensions" => VisitExtension
  /\ stage = "calls"      => VisitScalarFunction
  /\ stage = "print"      => OutputFunctionsSection
  /\ stage = "columns"    => VisitSchemaItem
  /\ stage = "sections"   => EnterExtensionspace \/ VisitFunction \/ VisitExtensionspace
  /\ stage = "uses"       => VisitExpressionFunctionUse
  /\ stage = "build"      => OutputToBinaryPlan
  /\ stage = "again"      => OutputTextAgain
  /\ stage # "done"

Stays ==
  /\ UNCHANGED <<plan, stage>>
  /\ stage \notin {"uris", "extensions"} => UNCHANGED <<table, data>>
  /\ stage \notin {"calls", "print"} => UNCHANGED text
  /\ stage \notin {"columns", "sections"} => UNCHANGED read
  /\ stage \notin {"uses", "build"} => UNCHANGED back
  /\ stage # "sections" => UNCHANGED inside
  /\ stage \notin {"sections"} => next \in DOMAIN Visited(stage) /\ next' = next + 1

LEMMA StageMoves ==
  ASSUME Next, ~NextStage
  PROVE  Moves /\ Stays
<1>1. CASE Normalize
  BY <1>1 DEF Normalize, Visiting, Moves, Stays
<1>2. CASE VisitExtensionUri \/ VisitExtension
  BY <1>2 DEF VisitExtensionUri, VisitExtension, Visiting, Moves, Stays
<1>3. CASE VisitScalarFunction \/ OutputFunctionsSection
  BY <1>3 DEF VisitScalarFunction, OutputFunctionsSection, Visiting, Moves, Stays
<1>4. CASE VisitSchemaItem
  BY <1>4 DEF VisitSchemaItem, Visiting, Moves, Stays
<1>5. CASE EnterExtensionspace \/ VisitFunction \/ VisitExtensionspace
  <2>1. UNCHANGED <<plan, stage, table, data, text, back>> /\ stage = "sections"
    BY <1>5 DEF EnterExtensionspace, VisitFunction, VisitExtensionspace
  <2>2. QED
    BY <1>5, <2>1 DEF Moves, Stays
<1>6. CASE VisitExpressionFunctionUse \/ OutputToBinaryPlan
  BY <1>6 DEF VisitExpressionFunctionUse, OutputToBinaryPlan, Visiting, Moves, Stays
<1>7. CASE OutputTextAgain
  BY <1>7 DEF OutputTextAgain, Visiting, Moves, Stays
<1>8. QED
  BY <1>1, <1>2, <1>3, <1>4, <1>5, <1>6, <1>7 DEF Next

\* Every plan is one the converters write.
Sound == \A p \in Plans : Consistent(p) /\ NamesApart(p)

LEMMA PlanIsSound ==
  ASSUME Sound, NormalInv
  PROVE  IsCalling(plan) /\ Consistent(plan) /\ NamesApart(plan)
  BY PlansAssumption DEF Sound, NormalInv

BeforeCalls    == {"spaces", "functions", "uris", "extensions"}
BeforePrint    == BeforeCalls \union {"calls"}
BeforeColumns  == BeforePrint \union {"print"}
AfterSections  == {"uses", "build", "again", "done"}

\* What is visited next, and where in a section.
PlaceInv ==
  /\ next \in Nat
  /\ stage # "sections" => inside = 0
  /\ stage = "sections" =>
       /\ next \in 1..(Len(text.sections) + 1) /\ inside \in Nat
       /\ inside > 0 => next \in DOMAIN text.sections

\* The converter's table has what was visited.
ConverterInv ==
  /\ stage \in {"spaces", "functions"} => Converted(plan, table, data, 0, 0)
  /\ stage = "uris" => Converted(plan, table, data, next - 1, 0)
  /\ stage = "extensions" => Converted(plan, table, data, Len(plan.spaces), next - 1)
  /\ stage \notin BeforeCalls =>
       Converted(plan, table, data, Len(plan.spaces), Len(plan.extensions))

\* So has the text.
TextInv ==
  /\ DOMAIN text = {"calls", "sections"}
  /\ stage \in BeforeCalls => CallsNamed(plan, text.calls, 0)
  /\ stage = "calls" => CallsNamed(plan, text.calls, next - 1)
  /\ stage \notin BeforePrint => CallsNamed(plan, text.calls, Len(plan.calls))
  /\ stage \notin BeforePrint /\ ~(stage = "print" /\ next = 1) =>
       text.sections = Sections(table, data)

Unread == [table |-> EmptyTable, data |-> << >>, numSpacesSeen |-> 0, numFunctionsSeen |-> 0]

\* So has the parser's table.
ParserInv ==
  /\ stage \in BeforeColumns => read = Unread
  /\ stage = "columns" => ParsedAs(text.sections, read, 1, 0)
  /\ stage = "sections" => ParsedAs(text.sections, read, next, inside)
  /\ stage \in AfterSections => ParsedAs(text.sections, read, Len(text.sections) + 1, 0)

\* So has the message.
BackInv ==
  /\ DOMAIN back = {"spaces", "extensions", "columns", "calls"}
  /\ stage \notin AfterSections => CallsBack(plan, read, back.calls, 0)
  /\ stage = "uses" => CallsBack(plan, read, back.calls, next - 1)
  /\ stage \in AfterSections \ {"uses"} => CallsBack(plan, read, back.calls, Len(plan.calls))
  /\ (stage = "build" /\ next # 1) \/ stage \in {"again", "done"} =>
       /\ back.spaces = SpacesToBinary(read.table, read.data)
       /\ back.extensions = FunctionsToBinary(read.table, read.data)

CallsInv == NormalInv /\ PlaceInv /\ ConverterInv /\ TextInv /\ ParserInv /\ BackInv

LEMMA CallsInvInit ==
  ASSUME Init
  PROVE  CallsInv
<1>1. /\ plan \in Plans /\ stage = "spaces" /\ next = 1 /\ inside = 0
      /\ table = EmptyTable /\ data = << >> /\ text = NoText /\ read = Unread
      /\ back = [plan EXCEPT !.spaces = << >>, !.extensions = << >>, !.calls = << >>]
  BY DEF Init, Stages, Unread
<1>2. IsCalling(plan)
  BY <1>1, PlansAssumption
<1>3. NormalInv
  BY NormalInvInit
<1>4. PlaceInv
  BY <1>1 DEF PlaceInv
<1>5. ConverterInv
  BY <1>1, <1>2, ConvertedBegins DEF ConverterInv, BeforeCalls
<1>6. IsSequence(<< >>) /\ Len(<< >>) = 0
  BY DEF IsSequence
<1>7. Len(plan.calls) \in Nat
  BY <1>2, SequenceHas DEF IsCalling
<1>8. CallsNamed(plan, << >>, 0) /\ CallsBack(plan, read, << >>, 0)
  BY <1>6, <1>7 DEF CallsNamed, CallsBack
<1>9. TextInv
  <2>1. text.calls = << >> /\ DOMAIN text = {"calls", "sections"}
    BY <1>1 DEF NoText
  <2>2. QED
    BY <1>1, <1>8, <2>1 DEF TextInv, BeforeCalls, BeforePrint
<1>10. ParserInv
  BY <1>1 DEF ParserInv, BeforeColumns, BeforePrint, BeforeCalls, AfterSections
<1>11. BackInv
  <2>1. DOMAIN plan = {"spaces", "extensions", "columns", "calls"}
    BY <1>2 DEF IsCalling
  <2>2. back.calls = << >> /\ DOMAIN back = {"spaces", "extensions", "columns", "calls"}
    BY <1>1, <2>1
  <2>3. QED
    BY <1>1, <1>8, <2>2 DEF BackInv, AfterSections
<1>12. QED
  BY <1>3, <1>4, <1>5, <1>9, <1>10, <1>11 DEF CallsInv

LEMMA TextIsPlaced ==
  ASSUME Sound, CallsInv, stage \notin BeforeColumns
  PROVE  Placed(plan, text.sections)
<1>1. IsCalling(plan) /\ Consistent(plan) /\ NamesApart(plan)
  BY PlanIsSound DEF CallsInv
<1>2. /\ Converted(plan, table, data, Len(plan.spaces), Len(plan.extensions))
      /\ text.sections = Sections(table, data)
  BY DEF CallsInv, ConverterInv, TextInv, BeforeColumns, BeforePrint
<1>3. QED
  BY <1>1, <1>2, SectionsPlaced

-----------------------------------------------------------------------------
(***************************************************************************)
(* From one stage to the next.                                             *)
(***************************************************************************)

LEMMA CallsInvStage ==
  ASSUME Sound, CallsInv, NormalInv', NextStage
  PROVE  CallsInv'
<1>1. /\ Follow(stage, stage') /\ next' = 1 /\ next > Len(Visited(stage))
      /\ UNCHANGED <<plan, inside, table, data, text, read, back>>
  BY StageFollows DEF NextStage, CallsInv, NormalInv
<1>2. IsCalling(plan) /\ Consistent(plan) /\ NamesApart(plan)
  BY PlanIsSound DEF CallsInv
<1>3. /\ Len(plan.spaces) \in Nat /\ Len(plan.extensions) \in Nat /\ Len(plan.calls) \in Nat
      /\ Len(plan.columns) \in Nat
  BY <1>2, SequenceHas DEF IsCalling
<1>4. next \in Nat
  BY DEF CallsInv, PlaceInv
<1>5. PlaceInv'
  <2>1. stage = "sections" => inside = 0
    <3>1. stage = "sections" => next > Len(text.sections)
      BY <1>1 DEF Visited
    <3>2. stage = "sections" => IsSequence(text.sections)
      BY TextIsPlaced DEF Placed, BeforeColumns, BeforePrint, BeforeCalls
    <3>3. stage = "sections" => next \notin DOMAIN text.sections
      BY <1>4, <3>1, <3>2, SequenceHas
    <3>4. QED
      BY <3>3 DEF CallsInv, PlaceInv
  <2>2. inside' = 0
    BY <1>1, <2>1 DEF CallsInv, PlaceInv
  <2>3. stage' = "sections" => Len(text.sections) \in Nat
    <3>1. stage' = "sections" => stage = "columns"
      BY <1>1 DEF Follow
    <3>2. stage = "columns" => IsSequence(text.sections)
      BY TextIsPlaced DEF Placed, BeforeColumns, BeforePrint, BeforeCalls
    <3>3. QED
      BY <3>1, <3>2, SequenceHas
  <2>4. QED
    BY <1>1, <2>2, <2>3 DEF PlaceInv
<1>6. ConverterInv'
  <2>1. stage = "uris" => next - 1 = Len(plan.spaces)
    <3>1. stage = "uris" => next > Len(plan.spaces) /\ next - 1 \in 0..Len(plan.spaces)
      BY <1>1 DEF Visited, CallsInv, ConverterInv, Converted
    <3>2. QED
      BY <1>3, <1>4, <3>1
  <2>2. stage = "extensions" => next - 1 = Len(plan.extensions)
    <3>1. stage = "extensions" =>
            next > Len(plan.extensions) /\ next - 1 \in 0..Len(plan.extensions)
      BY <1>1 DEF Visited, CallsInv, ConverterInv, Converted
    <3>2. QED
      BY <1>3, <1>4, <3>1
  <2>3. next' - 1 = 0
    BY <1>1
  <2>4. QED
    BY <1>1, <2>1, <2>2, <2>3 DEF CallsInv, ConverterInv, Follow, BeforeCalls
<1>7. TextInv'
  <2>1. stage = "calls" => next - 1 = Len(plan.calls)
    <3>1. stage = "calls" => next > Len(plan.calls) /\ next - 1 \in 0..Len(plan.calls)
      BY <1>1 DEF Visited, CallsInv, TextInv, CallsNamed
    <3>2. QED
      BY <1>3, <1>4, <3>1
  <2>2. stage = "print" => next # 1
    BY <1>1, <1>4, OneVisit
  <2>3. next' - 1 = 0
    BY <1>1
  <2>4. QED
    BY <1>1, <2>1, <2>2, <2>3 DEF CallsInv, TextInv, Follow, BeforeCalls, BeforePrint
<1>8. ParserInv'
  <2>1. stage = "print" => ParsedAs(text.sections, read, 1, 0)
    <3>1. SUFFICES ASSUME stage = "print" PROVE ParsedAs(text.sections, read, 1, 0)
      OBVIOUS
    <3>2. text.sections = Sections(table, data)
      <4>1. next # 1
        BY <1>1, <1>4, <3>1, OneVisit
      <4>2. QED
        BY <3>1, <4>1 DEF CallsInv, TextInv, BeforePrint, BeforeCalls
    <3>3. Converted(plan, table, data, Len(plan.spaces), Len(plan.extensions))
      BY <3>1 DEF CallsInv, ConverterInv, BeforeCalls
    <3>4. Placed(plan, text.sections)
      BY <1>2, <3>2, <3>3, SectionsPlaced
    <3>5. Parsed(text.sections, EmptyTable, << >>, 0, 0, 1, 0)
      BY <3>4, ParsedBegins
    <3>6. read = Unread
      BY <3>1 DEF CallsInv, ParserInv, BeforeColumns
    <3>7. QED
      BY <3>5, <3>6 DEF ParsedAs, Unread
  <2>2. stage = "sections" => ParsedAs(text.sections, read, Len(text.sections) + 1, 0)
    <3>1. SUFFICES ASSUME stage = "sections"
                   PROVE  ParsedAs(text.sections, read, Len(text.sections) + 1, 0)
      OBVIOUS
    <3>2. IsSequence(text.sections)
      BY <3>1, TextIsPlaced DEF Placed, BeforeColumns, BeforePrint, BeforeCalls
    <3>3. Len(text.sections) \in Nat /\ DOMAIN text.sections = 1..Len(text.sections)
      BY <3>2, SequenceHas
    <3>4. next > Len(text.sections)
      BY <1>1, <3>1 DEF Visited
    <3>5. /\ next \in 1..(Len(text.sections) + 1) /\ inside \in Nat
          /\ inside > 0 => next \in DOMAIN text.sections
      BY <3>1 DEF CallsInv, PlaceInv
    <3>6. next = Len(text.sections) + 1 /\ next \notin DOMAIN text.sections
      BY <3>3, <3>4, <3>5
    <3>7. inside = 0
      BY <3>5, <3>6
    <3>8. ParsedAs(text.sections, read, next, inside)
      BY <3>1 DEF CallsInv, ParserInv
    <3>9. QED
      BY <3>6, <3>7, <3>8
  <2>3. inside' = 0 /\ next' = 1
    BY <1>1, <1>5 DEF PlaceInv, Follow, CallsInv
  <2>4. QED
    BY <1>1, <2>1, <2>2, <2>3 DEF CallsInv, ParserInv, Follow, BeforeCalls, BeforePrint,
                                  BeforeColumns, AfterSections
<1>9. BackInv'
  <2>1. stage = "uses" => next - 1 = Len(plan.calls)
    <3>1. stage = "uses" => Len(text.calls) = Len(plan.calls)
      BY DEF CallsInv, TextInv, CallsNamed, BeforePrint, BeforeCalls
    <3>2. stage = "uses" => next > Len(plan.calls) /\ next - 1 \in 0..Len(plan.calls)
      BY <1>1, <3>1 DEF Visited, CallsInv, BackInv, CallsBack
    <3>3. QED
      BY <1>3, <1>4, <3>2
  <2>2. stage = "build" => next # 1
    BY <1>1, <1>4, OneVisit
  <2>3. next' - 1 = 0
    BY <1>1
  <2>4. QED
    BY <1>1, <2>1, <2>2, <2>3 DEF CallsInv, BackInv, Follow, AfterSections
<1>10. QED
  BY <1>5, <1>6, <1>7, <1>8, <1>9 DEF CallsInv

-----------------------------------------------------------------------------
(***************************************************************************)
(* Within a stage.                                                         *)
(***************************************************************************)

LEMMA PlaceInvMove ==
  ASSUME Sound, CallsInv, Moves, Stays
  PROVE  PlaceInv'
<1>1. next \in Nat /\ stage' = stage /\ (stage # "sections" => inside = 0)
  BY DEF CallsInv, PlaceInv, Stays
<1>2. CASE stage # "sections"
  BY <1>1, <1>2 DEF Stays, PlaceInv
<1>3. CASE stage = "sections"
  <2>1. Placed(plan, text.sections)
    BY <1>3, TextIsPlaced DEF BeforeColumns, BeforePrint, BeforeCalls
  <2>2. DOMAIN text.sections = 1..Len(text.sections) /\ Len(text.sections) \in Nat
    BY <2>1, SectionPositions
  <2>3. /\ next \in 1..(Len(text.sections) + 1) /\ inside \in Nat
        /\ inside > 0 => next \in DOMAIN text.sections
        /\ text' = text
    BY <1>3 DEF CallsInv, PlaceInv, Stays
  <2>4. CASE EnterExtensionspace
    BY <1>1, <1>3, <2>3, <2>4 DEF EnterExtensionspace, PlaceInv
  <2>5. CASE VisitFunction
    <3>1. inside > 0 /\ inside' = inside + 1 /\ next' = next
      BY <2>5 DEF VisitFunction
    <3>2. QED
      BY <1>1, <1>3, <2>3, <3>1 DEF PlaceInv
  <2>6. CASE VisitExtensionspace
    <3>1. inside > 0 /\ inside' = 0 /\ next' = next + 1
      BY <2>6 DEF VisitExtensionspace
    <3>2. next + 1 \in 1..(Len(text.sections) + 1)
      BY <2>2, <2>3, <3>1
    <3>3. QED
      BY <1>1, <1>3, <2>3, <3>1, <3>2 DEF PlaceInv
  <2>7. QED
    BY <1>3, <2>4, <2>5, <2>6 DEF Moves
<1>4. QED
  BY <1>2, <1>3

LEMMA ConverterInvMove ==
  ASSUME Sound, CallsInv, Moves, Stays
  PROVE  ConverterInv'
<1>1. IsCalling(plan) /\ Consistent(plan)
  BY PlanIsSound DEF CallsInv
<1>2. next \in Nat /\ UNCHANGED <<plan, stage>>
  BY DEF CallsInv, PlaceInv, Stays
<1>3. CASE stage = "uris"
  <2> DEFINE s == next - 1
             l == <<"uri", next>>
  <2>1. /\ next \in DOMAIN plan.spaces /\ next' = next + 1
        /\ table' = DefineSymbol(table, plan.spaces[next].uri, l, "space")
        /\ data' = Append(data, SpaceData(plan.spaces[next].anchor))
    BY <1>3 DEF Moves, VisitExtensionUri, Visiting, Visited
  <2>2. Converted(plan, table, data, s, 0)
    BY <1>3 DEF CallsInv, ConverterInv
  <2>3. s + 1 = next /\ next' - 1 = s + 1
    BY <1>2, <2>1
  <2> HIDE DEF s, l
  <2>4. Converted(plan, table', data', s + 1, 0)
    BY <1>1, <2>1, <2>2, <2>3, SpaceConverts
  <2>5. QED
    BY <1>2, <1>3, <2>3, <2>4 DEF ConverterInv, BeforeCalls
<1>4. CASE stage = "extensions"
  <2> DEFINE f == next - 1
             l == <<"extension", next>>
             x == plan.extensions[next]
  <2>1. next \in DOMAIN plan.extensions /\ next' = next + 1
    BY <1>4 DEF Moves, VisitExtension, Visiting, Visited
  <2>2. x.kind = "function"
    BY <1>1, <2>1 DEF Consistent
  <2>3. /\ table' = DefineFunction(table, x, l)
        /\ data' = Append(data, FunctionData(x.name, x.space, x.anchor))
    BY <1>4, <2>2 DEF Moves, VisitExtension
  <2>4. Converted(plan, table, data, Len(plan.spaces), f)
    BY <1>4 DEF CallsInv, ConverterInv
  <2>5. f + 1 = next /\ next' - 1 = f + 1
    BY <1>2, <2>1
  <2> HIDE DEF f, l
  <2>6. Converted(plan, table', data', Len(plan.spaces), f + 1)
    <3>1. f + 1 \in DOMAIN plan.extensions /\ x = plan.extensions[f + 1]
      BY <2>1, <2>5
    <3> HIDE DEF x
    <3>2. QED
      BY <1>1, <2>3, <2>4, <3>1, FunctionConverts
  <2>7. QED
    BY <1>2, <1>4, <2>5, <2>6 DEF ConverterInv, BeforeCalls
<1>5. CASE stage \notin {"uris", "extensions"}
  <2>1. UNCHANGED <<table, data>>
    BY <1>5 DEF Stays
  <2>2. QED
    BY <1>2, <1>5, <2>1 DEF CallsInv, ConverterInv
<1>6. QED
  BY <1>3, <1>4, <1>5

LEMMA TextInvMove ==
  ASSUME Sound, CallsInv, Moves, Stays
  PROVE  TextInv'
<1>1. IsCalling(plan) /\ Consistent(plan)
  BY PlanIsSound DEF CallsInv
<1>2. /\ next \in Nat /\ UNCHANGED <<plan, stage>>
      /\ DOMAIN text = {"calls", "sections"}
  BY DEF CallsInv, PlaceInv, TextInv, Stays
<1>3. CASE stage = "calls"
  <2> DEFINE i == Calls(table, data, plan.calls[next].function)
  <2>1. next \in DOMAIN plan.calls /\ next' = next + 1
    BY <1>3 DEF Moves, VisitScalarFunction, Visiting, Visited
  <2>2. Converted(plan, table, data, Len(plan.spaces), Len(plan.extensions))
    BY <1>3 DEF CallsInv, ConverterInv, BeforeCalls
  <2>3. CallsNamed(plan, text.calls, next - 1)
    BY <1>3 DEF CallsInv, TextInv
  <2>4. i # NoSymbol /\ CallsNamed(plan, Append(text.calls, table.symbols[i].name), next)
    BY <1>1, <2>1, <2>2, <2>3, CallIsNamed
  <2>5. text' = [text EXCEPT !.calls =
                  Append(@, IF i = NoSymbol THEN NoName ELSE table.symbols[i].name)]
    BY <1>3 DEF Moves, VisitScalarFunction
  <2> HIDE DEF i
  <2>6. DOMAIN text' = {"calls", "sections"} /\ CallsNamed(plan, text'.calls, next)
    BY <1>2, <2>4, <2>5
  <2>7. next' - 1 = next
    BY <1>2, <2>1
  <2>8. QED
    BY <1>2, <1>3, <2>6, <2>7 DEF TextInv, BeforeCalls, BeforePrint
<1>4. CASE stage = "print"
  <2>1. text' = [text EXCEPT !.sections = Sections(table, data)] /\ UNCHANGED <<table, data>>
    BY <1>4 DEF Moves, OutputFunctionsSection
  <2>2. CallsNamed(plan, text.calls, Len(plan.calls))
    BY <1>4 DEF CallsInv, TextInv, BeforePrint, BeforeCalls
  <2>3. /\ DOMAIN text' = {"calls", "sections"} /\ text'.calls = text.calls
        /\ text'.sections = Sections(table, data)
    BY <1>2, <2>1
  <2>4. QED
    BY <1>2, <1>4, <2>1, <2>2, <2>3 DEF TextInv, BeforeCalls, BeforePrint
<1>5. CASE stage \notin {"calls", "print"}
  <2>1. UNCHANGED text
    BY <1>5 DEF Stays
  <2>2. stage \notin BeforePrint => UNCHANGED <<table, data>>
    BY DEF Stays, BeforePrint, BeforeCalls
  <2>3. QED
    BY <1>2, <1>5, <2>1, <2>2 DEF CallsInv, TextInv
<1>6. QED
  BY <1>3, <1>4, <1>5

LEMMA ParserInvMove ==
  ASSUME Sound, CallsInv, Moves, Stays
  PROVE  ParserInv'
<1>1. IsCalling(plan) /\ Consistent(plan) /\ NamesApart(plan)
  BY PlanIsSound DEF CallsInv
<1>2. next \in Nat /\ UNCHANGED <<plan, stage>>
  BY DEF CallsInv, PlaceInv, Stays
<1> DEFINE sections == text.sections
           fields == {"table", "data", "numSpacesSeen", "numFunctionsSeen"}
<1>3. CASE stage = "columns"
  <2> DEFINE t == DefineSymbol(read.table, plan.columns[next], <<"column", next>>, "column")
             d == Append(read.data, SpaceData(Unset))
  <2>1. next \in DOMAIN plan.columns /\ read' = [read EXCEPT !.table = t, !.data = d]
    BY <1>3 DEF Moves, VisitSchemaItem, Visiting, Visited
  <2>2. text' = text
    BY <1>3 DEF Stays
  <2>3. Placed(plan, sections)
    BY <1>3, TextIsPlaced DEF BeforeColumns, BeforePrint, BeforeCalls
  <2>4. /\ DOMAIN read = fields
        /\ Parsed(sections, read.table, read.data, read.numSpacesSeen, read.numFunctionsSeen, 1, 0)
    BY <1>3 DEF CallsInv, ParserInv, ParsedAs
  <2>5. ASSUME NEW s \in DOMAIN sections, NEW k \in DOMAIN sections[s].functions
        PROVE  ShortAt(sections, s, k) # plan.columns[next]
    <3>1. PICK e \in DOMAIN plan.extensions : sections[s].functions[k].as = ShortNumbered(plan, e)
      BY <2>3 DEF Placed, PrintedAt
    <3>2. plan.columns[next] \in ToSet(plan.columns)
      BY <2>1 DEF ToSet
    <3>3. QED
      BY <1>1, <3>1, <3>2 DEF NamesApart, ShortAt
  <2>6. Parsed(sections, t, d, read.numSpacesSeen, read.numFunctionsSeen, 1, 0)
    <3> HIDE DEF sections
    <3>1. QED
      BY <2>3, <2>4, <2>5, ColumnParsed
  <2>7. /\ DOMAIN read' = fields /\ read'.table = t /\ read'.data = d
        /\ read'.numSpacesSeen = read.numSpacesSeen
        /\ read'.numFunctionsSeen = read.numFunctionsSeen
    <3> HIDE DEF t, d
    <3>1. QED
      BY <2>1, <2>4
  <2> HIDE DEF t, d
  <2>8. ParsedAs(sections, read', 1, 0)
    BY <2>6, <2>7 DEF ParsedAs
  <2>9. QED
    BY <1>2, <1>3, <2>2, <2>8 DEF ParserInv, BeforeColumns, BeforePrint, BeforeCalls,
                                  AfterSections
<1>4. CASE stage = "sections"
  <2>1. Placed(plan, sections)
    BY <1>4, TextIsPlaced DEF BeforeColumns, BeforePrint, BeforeCalls
  <2>2. text' = text /\ inside \in Nat
    BY <1>4 DEF Stays, CallsInv, PlaceInv
  <2>3. ParsedAs(sections, read, next, inside) /\ (inside > 0 => next \in DOMAIN sections)
    BY <1>4 DEF CallsInv, ParserInv, PlaceInv
  <2>4. SUFFICES ParsedAs(sections, read', next', inside')
    BY <1>2, <1>4, <2>2 DEF ParserInv, BeforeColumns, BeforePrint, BeforeCalls, AfterSections
  <2>5. CASE EnterExtensionspace
    <3>1. /\ next \in DOMAIN sections /\ inside = 0 /\ inside' = 1 /\ next' = next
          /\ read' = DefineSpace(read, sections[next])
      BY <2>5 DEF EnterExtensionspace
    <3> HIDE DEF sections
    <3>2. QED
      BY <1>1, <2>1, <2>3, <3>1, SpaceParsed
  <2>6. CASE VisitFunction
    <3>1. inside > 0 /\ inside <= Len(sections[next].functions)
            /\ inside' = inside + 1 /\ next' = next
      BY <2>6 DEF VisitFunction
    <3>2. next \in DOMAIN sections /\ inside \in DOMAIN sections[next].functions
      <4>1. next \in DOMAIN sections
        BY <2>3, <3>1
      <4>2. /\ DOMAIN sections[next].functions = 1..Len(sections[next].functions)
            /\ Len(sections[next].functions) \in Nat
        BY <2>1, <4>1, SectionPositions
      <4>3. QED
        BY <2>2, <3>1, <4>1, <4>2
    <3>3. read' = [read EXCEPT
            !.table = DefineSymbol(@, sections[next].functions[inside].as,
                                   FunctionLocation(next, inside), "function"),
            !.data  = Append(@, FunctionData(sections[next].functions[inside].name, NoSpace,
                                             read.numFunctionsSeen)),
            !.numFunctionsSeen = @ + 1]
      BY <2>6 DEF VisitFunction
    <3> HIDE DEF sections
    <3>4. ParsedAs(sections, read', next, inside + 1)
      BY <2>1, <2>3, <3>2, <3>3, FunctionParsed
    <3>5. QED
      BY <3>1, <3>4
  <2>7. CASE VisitExtensionspace
    <3>1. inside > 0 /\ inside > Len(sections[next].functions)
            /\ inside' = 0 /\ next' = next + 1
      BY <2>7 DEF VisitExtensionspace
    <3>2. next \in DOMAIN sections
      BY <2>3, <3>1
    <3>3. read' = [read EXCEPT !.data = [i \in DOMAIN @ |->
            IF i \in FunctionsThere(read.table, sections, next)
            THEN [@[i] EXCEPT !.space = SpaceOf(read, sections[next])] ELSE @[i]]]
      BY <2>7 DEF VisitExtensionspace, FunctionsThere
    <3> HIDE DEF sections
    <3>4. ParsedAs(sections, read', next + 1, 0)
      BY <2>1, <2>2, <2>3, <3>1, <3>2, <3>3, SectionParsed
    <3>5. QED
      BY <3>1, <3>4
  <2>8. QED
    BY <1>4, <2>5, <2>6, <2>7 DEF Moves
<1>5. CASE stage \notin {"columns", "sections"}
  <2>1. read' = read
    BY <1>5 DEF Stays
  <2>2. stage \in AfterSections => text' = text
    BY DEF Stays, AfterSections
  <2>3. QED
    BY <1>2, <1>5, <2>1, <2>2 DEF CallsInv, ParserInv
<1>6. QED
  BY <1>3, <1>4, <1>5

LEMMA BackInvMove ==
  ASSUME Sound, CallsInv, Moves, Stays
  PROVE  BackInv'
<1>1. IsCalling(plan) /\ Consistent(plan)
  BY PlanIsSound DEF CallsInv
<1>2. /\ next \in Nat /\ UNCHANGED <<plan, stage>>
      /\ DOMAIN back = {"spaces", "extensions", "columns", "calls"}
  BY DEF CallsInv, PlaceInv, BackInv, Stays
<1>3. CASE stage = "uses"
  <2> DEFINE s == LookupSymbolByName(read.table, text.calls[next])
             path == plan.calls[next].path
  <2>1. /\ CallsNamed(plan, text.calls, Len(plan.calls))
        /\ ParsedAs(text.sections, read, Len(text.sections) + 1, 0)
        /\ CallsBack(plan, read, back.calls, next - 1)
        /\ read' = read
    BY <1>3 DEF CallsInv, TextInv, ParserInv, BackInv, BeforePrint, BeforeCalls,
                AfterSections, Stays
  <2>2. Placed(plan, text.sections)
    BY <1>3, TextIsPlaced DEF BeforeColumns, BeforePrint, BeforeCalls
  <2>3. next \in DOMAIN plan.calls /\ next' = next + 1
    <3>1. next \in DOMAIN text.calls /\ next' = next + 1
      BY <1>3 DEF Moves, VisitExpressionFunctionUse, Visiting, Visited
    <3>2. /\ IsSequence(text.calls) /\ Len(text.calls) = Len(plan.calls)
          /\ IsSequence(plan.calls)
      BY <1>1, <2>1 DEF CallsNamed, IsCalling
    <3>3. QED
      BY <3>1, <3>2, SequenceHas
  <2>4. /\ s \in OfType(read.table, "function") /\ s # NoSymbol
        /\ CallsBack(plan, read,
             Append(back.calls, [path |-> path, function |-> read.data[s].anchor]), next)
    BY <1>1, <2>1, <2>2, <2>3, CallComesBack
  <2>5. FunctionUsed(text.calls[next]) = s
    BY <2>4 DEF FunctionUsed
  <2>6. back' = [back EXCEPT !.calls =
                  Append(@, [path |-> path, function |-> read.data[s].anchor])]
    BY <1>3, <2>4, <2>5 DEF Moves, VisitExpressionFunctionUse
  <2> HIDE DEF s, path
  <2>7. /\ DOMAIN back' = {"spaces", "extensions", "columns", "calls"}
        /\ CallsBack(plan, read, back'.calls, next)
    BY <1>2, <2>4, <2>6
  <2>8. next' - 1 = next
    BY <1>2, <2>3
  <2>9. QED
    BY <1>2, <1>3, <2>1, <2>7, <2>8 DEF BackInv, AfterSections
<1>4. CASE stage = "build"
  <2>1. /\ back' = [back EXCEPT !.spaces     = SpacesToBinary(read.table, read.data),
                                !.extensions = FunctionsToBinary(read.table, read.data)]
        /\ read' = read
    BY <1>4 DEF Moves, OutputToBinaryPlan
  <2>2. CallsBack(plan, read, back.calls, Len(plan.calls))
    BY <1>4 DEF CallsInv, BackInv, AfterSections
  <2>3. /\ DOMAIN back' = {"spaces", "extensions", "columns", "calls"}
        /\ back'.calls = back.calls
        /\ back'.spaces = SpacesToBinary(read.table, read.data)
        /\ back'.extensions = FunctionsToBinary(read.table, read.data)
    BY <1>2, <2>1
  <2>4. QED
    BY <1>2, <1>4, <2>1, <2>2, <2>3 DEF BackInv, AfterSections
<1>5. CASE stage \in {"again", "done"}
  <2>1. UNCHANGED <<read, back>>
    BY <1>5 DEF Stays
  <2>2. QED
    BY <1>2, <1>5, <2>1 DEF CallsInv, BackInv, AfterSections
<1>6. CASE stage \notin AfterSections
  <2>1. back' = back
    BY <1>6 DEF Stays, AfterSections
  <2>2. CallsBack(plan, read, back.calls, 0)
    BY <1>6 DEF CallsInv, BackInv
  <2>3. CallsBack(plan, read', back.calls, 0)
    BY <2>2 DEF CallsBack
  <2>4. QED
    BY <1>2, <1>6, <2>1, <2>3 DEF BackInv, AfterSections
<1>7. QED
  BY <1>3, <1>4, <1>5, <1>6 DEF AfterSections

LEMMA CallsInvStep ==
  ASSUME Sound
  PROVE  CallsInv /\ [Next]_vars => CallsInv'
<1> SUFFICES ASSUME CallsInv, [Next]_vars
             PROVE  CallsInv'
  OBVIOUS
<1>1. NormalInv'
  BY NormalInvStep DEF CallsInv
<1>2. CASE NextStage
  BY <1>1, <1>2, CallsInvStage
<1>3. CASE Next /\ ~NextStage
  <2>1. Moves /\ Stays
    BY <1>3, StageMoves
  <2>2. PlaceInv'
    BY <2>1, PlaceInvMove
  <2>3. ConverterInv'
    BY <2>1, ConverterInvMove
  <2>4. TextInv'
    BY <2>1, TextInvMove
  <2>5. ParserInv'
    BY <2>1, ParserInvMove
  <2>6. BackInv'
    BY <2>1, BackInvMove
  <2>7. QED
    BY <1>1, <2>2, <2>3, <2>4, <2>5, <2>6 DEF CallsInv
<1>4. CASE UNCHANGED vars
  <2>1. UNCHANGED <<plan, stage, next, inside, table, data, text, read, back>>
    BY <1>4 DEF vars
  <2>2. QED
    BY <1>1, <2>1 DEF CallsInv, PlaceInv, ConverterInv, TextInv, ParserInv, BackInv
<1>5. QED
  BY <1>2, <1>3, <1>4

LEMMA CallsInvAlways ==
  ASSUME Sound
  PROVE  Spec => []CallsInv
<1>1. Init => CallsInv
  BY CallsInvInit
<1>2. CallsInv /\ [Next]_vars => CallsInv'
  BY CallsInvStep
<1>3. QED
  BY <1>1, <1>2, PTL DEF Spec

(* Every plan that calls what it declares, and gives a URI to one space    *)
(* and a short name to one function, calls the same functions when it      *)
(* comes back from its text: the sections the functions were printed in,   *)
(* sorted by names, the numbers the parser counts them with, and the       *)
(* order they are written in, lose none and confuse none.                  *)
THEOREM CallsComeBack ==
  (\A p \in Plans : Consistent(p) /\ NamesApart(p)) => (Spec => []CallsKept)
<1> SUFFICES ASSUME Sound
             PROVE  Spec => []CallsKept
  BY DEF Sound
<1>1. CallsInv => CallsKept
  <2> SUFFICES ASSUME CallsInv, Passed("build")
               PROVE  Meaning(back) = Meaning(plan)
    BY DEF CallsKept
  <2>1. stage \in {"again", "done"}
    BY StagesPlaced DEF Passed, CallsInv, NormalInv, AStage
  <2>2. IsCalling(plan) /\ Consistent(plan)
    BY PlanIsSound DEF CallsInv
  <2>3. Placed(plan, text.sections)
    BY <2>1, TextIsPlaced DEF BeforeColumns, BeforePrint, BeforeCalls
  <2>4. /\ ParsedAs(text.sections, read, Len(text.sections) + 1, 0)
        /\ CallsBack(plan, read, back.calls, Len(plan.calls))
        /\ back.spaces = SpacesToBinary(read.table, read.data)
        /\ back.extensions = FunctionsToBinary(read.table, read.data)
    BY <2>1 DEF CallsInv, ParserInv, BackInv, AfterSections
  <2>5. QED
    BY <2>2, <2>3, <2>4, MeaningComesBack
<1>2. Spec => []CallsInv
  BY CallsInvAlways
<1>3. QED
  BY <1>1, <1>2, PTL

-----------------------------------------------------------------------------
(***************************************************************************)
(* What nothing goes wrong with.                                           *)
(***************************************************************************)

\* The normalizer finds what every call it follows calls.
LEMMA NormalizerFinds ==
  ASSUME NEW p, IsCalling(p), Consistent(p),
         NEW q, q = NormalizeSpaces(p), NEW c \in ToSet(q.calls)
  PROVE  \E f \in ToSet(q.extensions) : ExtensionFunction(f).anchor = c.function
<1>1. Consistent(q)
  BY SpacesNormalized
<1>2. PICK i \in DOMAIN q.calls : q.calls[i] = c
  BY DEF ToSet
<1>3. PICK e \in DOMAIN q.extensions : q.extensions[e].anchor = c.function
  BY <1>1, <1>2 DEF Consistent
<1>4. q.extensions[e].kind = "function" /\ q.extensions[e] \in ToSet(q.extensions)
  BY <1>1 DEF Consistent, ToSet
<1>5. ExtensionFunction(q.extensions[e]).anchor = c.function
  BY <1>3, <1>4 DEF ExtensionFunction
<1>6. QED
  BY <1>4, <1>5

LEMMA AcceptedStep ==
  ASSUME Sound, CallsInv, ConversionAccepted, [Next]_vars
  PROVE  ConversionAccepted'
<1>0. SUFFICES errors' \subseteq errors \union {BadOptionalAccess}
  BY DEF ConversionAccepted
<1>1. IsCalling(plan) /\ Consistent(plan) /\ NamesApart(plan)
  BY PlanIsSound DEF CallsInv
<1>2. CASE Normalize
  <2>1. CASE Visiting("spaces") /\ UNCHANGED errors
    BY <2>1
  <2>2. CASE /\ Visiting("functions")
             /\ errors' = IF \A c \in ToSet(normal.calls) :
                               Follows(c.path) => \E f \in ToSet(normal.extensions) :
                                                    ExtensionFunction(f).anchor = c.function
                          THEN errors ELSE {OutOfRange}
    <3>1. stage = "functions" /\ next = 1
      BY <2>2, OneVisit DEF Visiting
    <3>2. normal = NormalizeSpaces(plan)
      BY <3>1 DEF CallsInv, NormalInv
    <3>3. \A c \in ToSet(normal.calls) :
            \E f \in ToSet(normal.extensions) : ExtensionFunction(f).anchor = c.function
      BY <1>1, <3>2, NormalizerFinds
    <3>4. QED
      BY <2>2, <3>3
  <2>3. QED
    BY <1>2, <2>1, <2>2 DEF Normalize
<1>3. CASE VisitExtension
  <2>1. next \in DOMAIN plan.extensions
    BY <1>3 DEF VisitExtension, Visiting, Visited
  <2>2. plan.extensions[next].kind = "function"
    BY <1>1, <2>1 DEF Consistent
  <2>3. QED
    BY <1>3, <2>2 DEF VisitExtension
<1>4. CASE VisitScalarFunction
  <2> DEFINE i == Calls(table, data, plan.calls[next].function)
  <2>1. next \in DOMAIN plan.calls /\ stage = "calls"
    BY <1>4 DEF VisitScalarFunction, Visiting, Visited
  <2>2. Converted(plan, table, data, Len(plan.spaces), Len(plan.extensions))
    BY <2>1 DEF CallsInv, ConverterInv, BeforeCalls
  <2>3. CallsNamed(plan, text.calls, next - 1)
    BY <2>1 DEF CallsInv, TextInv
  <2>4. i # NoSymbol
    BY <1>1, <2>1, <2>2, <2>3, CallIsNamed
  <2>5. errors' = IF i = NoSymbol THEN errors \union {Undefined} ELSE errors
    BY <1>4 DEF VisitScalarFunction
  <2>6. QED
    BY <2>4, <2>5
<1>5. CASE VisitExpressionFunctionUse
  <2> DEFINE s == LookupSymbolByName(read.table, text.calls[next])
  <2>1. next \in DOMAIN text.calls /\ stage = "uses"
    BY <1>5 DEF VisitExpressionFunctionUse, Visiting, Visited
  <2>2. /\ CallsNamed(plan, text.calls, Len(plan.calls))
        /\ ParsedAs(text.sections, read, Len(text.sections) + 1, 0)
        /\ CallsBack(plan, read, back.calls, next - 1)
    BY <2>1 DEF CallsInv, TextInv, ParserInv, BackInv, BeforePrint, BeforeCalls, AfterSections
  <2>3. Placed(plan, text.sections)
    BY <2>1, TextIsPlaced DEF BeforeColumns, BeforePrint, BeforeCalls
  <2>4. next \in DOMAIN plan.calls
    <3>1. /\ IsSequence(text.calls) /\ Len(text.calls) = Len(plan.calls)
          /\ IsSequence(plan.calls)
      BY <1>1, <2>2 DEF CallsNamed, IsCalling
    <3>2. QED
      BY <2>1, <3>1, SequenceHas
  <2>5. s \in OfType(read.table, "function") /\ s # NoSymbol
    BY <1>1, <2>2, <2>3, <2>4, CallComesBack
  <2>6. FunctionUsed(text.calls[next]) = s
    BY <2>5 DEF FunctionUsed
  <2> HIDE DEF s
  <2>7. QED
    BY <1>5, <2>5, <2>6 DEF VisitExpressionFunctionUse
<1>6. CASE OutputTextAgain
  BY <1>6 DEF OutputTextAgain
<1>7. CASE VisitExtensionUri \/ OutputFunctionsSection \/ VisitSchemaItem \/ OutputToBinaryPlan
  BY <1>7 DEF VisitExtensionUri, OutputFunctionsSection, VisitSchemaItem, OutputToBinaryPlan
<1>8. CASE EnterExtensionspace \/ VisitFunction \/ VisitExtensionspace
  BY <1>8 DEF EnterExtensionspace, VisitFunction, VisitExtensionspace
<1>9. CASE NextStage
  BY <1>9 DEF NextStage
<1>10. CASE UNCHANGED vars
  BY <1>10 DEF vars
<1>11. QED
  BY <1>2, <1>3, <1>4, <1>5, <1>6, <1>7, <1>8, <1>9, <1>10 DEF Next

(* For such a plan no pass throws or reports an undefined function: the    *)
(* normalizer finds the number of every call, the converter the function,  *)
(* and the parser the name.  A section without a URI alone keeps the       *)
(* printer from printing the plan again.                                   *)
THEOREM ConversionsAccept ==
  (\A p \in Plans : Consistent(p) /\ NamesApart(p)) => (Spec => []ConversionAccepted)
<1> SUFFICES ASSUME Sound
             PROVE  Spec => []ConversionAccepted
  BY DEF Sound
<1>1. Init => ConversionAccepted
  BY DEF Init, ConversionAccepted
<1>2. CallsInv /\ ConversionAccepted /\ [Next]_vars => ConversionAccepted'
  BY AcceptedStep
<1>3. Spec => []CallsInv
  BY CallsInvAlways
<1>4. QED
  BY <1>1, <1>2, <1>3, PTL DEF Spec
=============================================================================
