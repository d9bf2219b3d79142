--------------------------- MODULE FunctionTextProofs ---------------------------
(***************************************************************************)
(* A plan that has been a text is, once normalized, the plan normalized    *)
(* before: whatever order its spaces and functions are declared in, one    *)
(* plan has one normal form.  The text itself comes back as it was.        *)
(***************************************************************************)
EXTENDS FunctionReferencesProofs

-----------------------------------------------------------------------------
(***************************************************************************)
(* Lists in ascending order.                                               *)
(***************************************************************************)
IsAscending(s, R) ==
  IsSequence(s) /\ \A i, j \in DOMAIN s : i < j => <<s[i], s[j]>> \in R

SameElements(a, b) == \A x : x \in ToSet(a) <=> x \in ToSet(b)

\* What is in a list is at a place of it.
LEMMA PlacesOf ==
  ASSUME NEW s
  PROVE  /\ \A i \in DOMAIN s : s[i] \in ToSet(s)
         /\ \A x \in ToSet(s) : \E i \in DOMAIN s : s[i] = x
BY DEF ToSet

LEMMA AscendingApart ==
  ASSUME NEW S, NEW R, IsStrictOrder(S, R), NEW a, IsAscending(a, R), ToSet(a) \subseteq S
  PROVE  \A i, j \in DOMAIN a : a[i] = a[j] => i = j
<1> SUFFICES ASSUME NEW i \in DOMAIN a, NEW j \in DOMAIN a, a[i] = a[j], i # j
             PROVE  FALSE
  OBVIOUS
<1>1. DOMAIN a = 1..Len(a) /\ Len(a) \in Nat
  BY SequenceHas DEF IsAscending
<1>2. i < j \/ j < i
  BY <1>1
<1>3. a[i] \in S
  BY PlacesOf
<1>4. <<a[i], a[i]>> \in R
  BY <1>2 DEF IsAscending
<1>5. QED
  BY <1>3, <1>4 DEF IsStrictOrder

\* There is one list of given elements in ascending order.
LEMMA AscendingOnce ==
  ASSUME NEW S, NEW R, IsStrictOrder(S, R),
         NEW a, IsAscending(a, R), ToSet(a) \subseteq S,
         NEW b, IsAscending(b, R), SameElements(a, b)
  PROVE  a = b
<1> DEFINE Here(k) == k \in DOMAIN a /\ k \in DOMAIN b /\ a[k] = b[k]
           Bad == {k \in DOMAIN a \union DOMAIN b : ~Here(k)}
<1>1. /\ DOMAIN a = 1..Len(a) /\ Len(a) \in Nat
      /\ DOMAIN b = 1..Len(b) /\ Len(b) \in Nat
  BY SequenceHas DEF IsAscending
<1>2. ToSet(b) \subseteq S
  BY DEF SameElements
<1>3. /\ \A i, j \in DOMAIN a : a[i] = a[j] => i = j
      /\ \A i, j \in DOMAIN b : b[i] = b[j] => i = j
  BY <1>2, AscendingApart
<1>4. /\ \A k \in DOMAIN a : a[k] \in S /\ \E m \in DOMAIN b : b[m] = a[k]
      /\ \A k \in DOMAIN b : b[k] \in S /\ \E m \in DOMAIN a : a[m] = b[k]
  BY <1>2, PlacesOf DEF SameElements
<1>5. Bad = {}
  <2> SUFFICES ASSUME Bad # {}
               PROVE  FALSE
    OBVIOUS
  <2>1. Bad \in SUBSET Nat
    BY <1>1
  <2>2. PICK k \in Bad : \A j \in Bad : k <= j
    <3> HIDE DEF Bad
    <3>1. QED
      BY <2>1, LeastNumber
  <2>3. /\ k \in DOMAIN a \union DOMAIN b /\ k \in Nat /\ ~Here(k)
        /\ \A j \in DOMAIN a \union DOMAIN b : j < k => Here(j)
    BY <1>1, <2>2
  <2>4. ASSUME k \in DOMAIN a
        PROVE  k \in DOMAIN b /\ <<b[k], a[k]>> \in R
    <3>1. PICK m \in DOMAIN b : b[m] = a[k]
      BY <1>4, <2>4
    <3>2. ~(m < k)
      BY <1>1, <1>3, <2>3, <2>4, <3>1
    <3>3. m # k
      BY <2>3, <2>4, <3>1
    <3>4. k < m /\ k \in DOMAIN b
      BY <1>1, <2>3, <2>4, <3>1, <3>2, <3>3
    <3>5. QED
      BY <3>1, <3>4 DEF IsAscending
  <2>5. ASSUME k \in DOMAIN b
        PROVE  k \in DOMAIN a /\ <<a[k], b[k]>> \in R
    <3>1. PICK m \in DOMAIN a : a[m] = b[k]
      BY <1>4, <2>5
    <3>2. ~(m < k)
      BY <1>1, <1>3, <2>3, <2>5, <3>1
    <3>3. m # k
      BY <2>3, <2>5, <3>1
    <3>4. k < m /\ k \in DOMAIN a
      BY <1>1, <2>3, <2>5, <3>1, <3>2, <3>3
    <3>5. QED
      BY <3>1, <3>4 DEF IsAscending
  <2>6. k \in DOMAIN a /\ k \in DOMAIN b
    BY <2>3, <2>4, <2>5
  <2>7. QED
    BY <1>4, <2>4, <2>5, <2>6 DEF IsStrictOrder
<1>6. DOMAIN a = DOMAIN b /\ \A k \in DOMAIN a : a[k] = b[k]
  BY <1>5
<1>7. a = [k \in DOMAIN a |-> a[k]] /\ b = [k \in DOMAIN b |-> b[k]]
  <2>1. a \in Seq(ToSet(a)) /\ b \in Seq(ToSet(b))
    BY DEF IsAscending, IsSequence
  <2>2. QED
    BY <2>1
<1>8. QED
  BY <1>6, <1>7

\* A sorted list is ascending, if of two elements one is before the other.
LEMMA SortedAscends ==
  ASSUME NEW S, IsFiniteSet(S), NEW R, IsStrictOrder(S, R),
         NEW i \in DOMAIN Sorted(S, R), NEW j \in DOMAIN Sorted(S, R), i < j
  PROVE  /\ Sorted(S, R)[i] # Sorted(S, R)[j]
         /\ <<Sorted(S, R)[j], Sorted(S, R)[i]>> \notin R
<1> DEFINE s == Sorted(S, R)
<1>1. \E q : SortedAs(q, S, R)
  BY SortedExists
<1>2. SortedAs(s, S, R)
  BY <1>1 DEF SortedAs, Sorted
<1> HIDE DEF s
<1>3. \A k, l \in DOMAIN s : k < l => s[k] # s[l] /\ <<s[l], s[k]>> \notin R
  BY <1>2 DEF SortedAs
<1>4. s[i] # s[j] /\ <<s[j], s[i]>> \notin R
  BY <1>3 DEF s
<1>5. QED
  BY <1>4 DEF s

LEMMA PlaceApart ==
  ASSUME NEW order, IsSequence(order), NEW x \in ToSet(order)
  PROVE  /\ Place(order, x) \in DOMAIN order /\ order[Place(order, x)] = x
         /\ Place(order, x) # 0
<1>1. \E i \in DOMAIN order : order[i] = x
  BY PlacesOf
<1>2. Place(order, x) \in DOMAIN order /\ order[Place(order, x)] = x
  BY <1>1 DEF Place
<1>3. QED
  BY <1>2, SequenceHas

LEMMA NotInOrder ==
  ASSUME NEW order, NEW x, x \notin ToSet(order)
  PROVE  Place(order, x) = 0
BY DEF Place

-----------------------------------------------------------------------------
(***************************************************************************)
(* Plans in normal form: spaces are numbered from one in the order of      *)
(* their URIs, functions from zero in that of their spaces, and of their   *)
(* names in one.                                                           *)
(***************************************************************************)
UrisOf(p)      == [i \in DOMAIN p.spaces |-> p.spaces[i].uri]
FunctionsIn(p) == [e \in DOMAIN p.extensions |-> FunctionOf(p, e)]

UriBefore == Ordered(ToSet(Uris), LAMBDA x, y : Before(Uris, x, y))

\* A function is before another if its URI is in a list of them, or its name is
\* if they have one URI.
ComesBefore(uris, f, g) ==
  \/ Before(uris, f[1], g[1])
  \/ Place(uris, f[1]) = Place(uris, g[1]) /\ Before(Names, f[2], g[2])

FunctionBefore(uris, S) == Ordered(S, LAMBDA f, g : ComesBefore(uris, f, g))

IsNormal(p) ==
  /\ p = [spaces |-> p.spaces, extensions |-> p.extensions, columns |-> p.columns, calls |-> p.calls]
  /\ IsSequence(p.spaces) /\ IsSequence(p.extensions) /\ IsSequence(p.calls)
  /\ IsAscending(UrisOf(p), UriBefore) /\ ToSet(UrisOf(p)) \subseteq ToSet(Uris)
  /\ \A i \in DOMAIN p.spaces : p.spaces[i] = [anchor |-> i, uri |-> UrisOf(p)[i]]
  /\ IsAscending(FunctionsIn(p), FunctionBefore(UrisOf(p), ToSet(FunctionsIn(p))))
  /\ \A e \in DOMAIN p.extensions :
       p.extensions[e] = [ kind   |-> "function", space |-> Place(UrisOf(p), FunctionsIn(p)[e][1]),
                           name   |-> FunctionsIn(p)[e][2],
                           anchor |-> e - 1 ]
  /\ \A c \in DOMAIN p.calls :
       /\ p.calls[c] = [path |-> p.calls[c].path, function |-> p.calls[c].function]
       /\ \E e \in DOMAIN p.extensions : p.calls[c].function = e - 1

\* Two plans have the same columns, and call the same from the same places.
SameCalls(p, q) ==
  /\ p.columns = q.columns
  /\ DOMAIN p.calls = DOMAIN q.calls
  /\ \A c \in DOMAIN p.calls : p.calls[c].path = q.calls[c].path
  /\ Meaning(p) = Meaning(q)

\* ... and declare the same, whatever the order and the numbers.
SameContent(p, q) ==
  /\ SameElements(UrisOf(p), UrisOf(q))
  /\ SameElements(FunctionsIn(p), FunctionsIn(q))
  /\ SameCalls(p, q)

LEMMA ContentGoesOn ==
  ASSUME NEW p, NEW q, NEW r, SameContent(p, q), SameContent(q, r)
  PROVE  SameContent(p, r)
BY DEF SameContent, SameElements, SameCalls

LEMMA ContentTurns ==
  ASSUME NEW p, NEW q, SameContent(p, q)
  PROVE  SameContent(q, p)
BY DEF SameContent, SameElements, SameCalls

LEMMA UrisOrdered ==
  IsStrictOrder(ToSet(Uris), UriBefore)
<1> DEFINE at(x) == Place(Uris, x)
<1>1. \A x, y \in ToSet(Uris) : <<x, y>> \in UriBefore <=> at(x) < at(y)
  BY DEF UriBefore, Ordered, Before
<1>2. \A x : at(x) \in Nat
  BY PlaceIsNumber, OrdersAssumption
<1> HIDE DEF at
<1>3. QED
  BY <1>1, <1>2 DEF IsStrictOrder

LEMMA PairsOrdered ==
  ASSUME NEW uris, IsSequence(uris), NEW S
  PROVE  IsStrictOrder(S, FunctionBefore(uris, S))
<1> DEFINE at(f) == Place(uris, f[1])
           by(f) == Place(Names, f[2])
           R == FunctionBefore(uris, S)
<1>1. \A f, g \in S : <<f, g>> \in R <=> at(f) < at(g) \/ (at(f) = at(g) /\ by(f) < by(g))
  BY DEF FunctionBefore, Ordered, ComesBefore, Before
<1>2. \A f : at(f) \in Nat /\ by(f) \in Nat
  BY PlaceIsNumber, OrdersAssumption
<1> HIDE DEF at, by, R
<1>3. \A f \in S : <<f, f>> \notin R
  BY <1>1, <1>2
<1>4. ASSUME NEW f \in S, NEW g \in S, NEW h \in S, <<f, g>> \in R, <<g, h>> \in R
      PROVE  <<f, h>> \in R
  BY <1>1, <1>2, <1>4
<1>5. QED
  BY <1>3, <1>4 DEF IsStrictOrder, R

LEMMA ListOf ==
  ASSUME NEW s, IsSequence(s)
  PROVE  s = [i \in DOMAIN s |-> s[i]]
<1>1. s \in Seq(ToSet(s))
  BY DEF IsSequence
<1>2. QED
  BY <1>1

\* What a plan in normal form calls is what has the number.
LEMMA NormalCalls ==
  ASSUME NEW p, IsNormal(p), NEW c \in DOMAIN p.calls
  PROVE  \E e \in DOMAIN p.extensions :
           p.calls[c].function = e - 1 /\ Meaning(p)[c] = FunctionsIn(p)[e]
<1>1. PICK e \in DOMAIN p.extensions : p.calls[c].function = e - 1
  BY DEF IsNormal
<1>2. \A f \in DOMAIN p.extensions : p.extensions[f].anchor = f - 1 /\ p.extensions[f].kind = "function"
  BY DEF IsNormal
<1>3. DOMAIN p.extensions \subseteq Nat
  BY SequenceHas DEF IsNormal
<1>4. AnchorsApart(p.extensions)
  <2>1. ASSUME NEW i \in DOMAIN p.extensions, NEW j \in DOMAIN p.extensions,
               p.extensions[i].anchor = p.extensions[j].anchor
        PROVE  i = j
    <3>1. i - 1 = j - 1 /\ i \in Nat /\ j \in Nat
      BY <1>2, <1>3, <2>1
    <3>2. QED
      BY <3>1
  <2>2. QED
    BY <2>1 DEF AnchorsApart
<1>5. Function(p, p.extensions[e].anchor) = FunctionOf(p, e)
  BY <1>2, <1>4, FunctionIs
<1>6. Meaning(p)[c] = FunctionsIn(p)[e]
  BY <1>1, <1>2, <1>5 DEF Meaning, FunctionsIn
<1>7. QED
  BY <1>1, <1>6

\* One plan has one normal form.
LEMMA OneNormalForm ==
  ASSUME NEW p, IsNormal(p), NEW q, IsNormal(q), SameContent(p, q)
  PROVE  p = q
<1>1. UrisOf(p) = UrisOf(q)
  BY UrisOrdered, AscendingOnce DEF IsNormal, SameContent
<1>2. p.spaces = q.spaces
  <2>1. DOMAIN p.spaces = DOMAIN q.spaces
    BY <1>1 DEF UrisOf
  <2>2. \A i \in DOMAIN p.spaces : p.spaces[i] = q.spaces[i]
    BY <1>1, <2>1 DEF IsNormal
  <2>3. p.spaces = [i \in DOMAIN p.spaces |-> p.spaces[i]]
        /\ q.spaces = [i \in DOMAIN q.spaces |-> q.spaces[i]]
    BY ListOf DEF IsNormal
  <2>4. QED
    BY <2>1, <2>2, <2>3
<1> DEFINE S == ToSet(FunctionsIn(p))
           R == FunctionBefore(UrisOf(p), S)
<1>3. ToSet(FunctionsIn(q)) = S
  BY DEF SameContent, SameElements
<1>4. IsStrictOrder(S, R)
  <2>1. IsSequence(UrisOf(p))
    BY DEF IsNormal, IsAscending
  <2>2. QED
    BY <2>1, PairsOrdered
<1>5. IsAscending(FunctionsIn(p), R) /\ IsAscending(FunctionsIn(q), R)
  BY <1>1, <1>3 DEF IsNormal
<1>6. FunctionsIn(p) = FunctionsIn(q)
  <2>1. SameElements(FunctionsIn(p), FunctionsIn(q))
    BY DEF SameContent
  <2> HIDE DEF R
  <2>2. QED
    BY <1>4, <1>5, <2>1, AscendingOnce
<1>7. p.extensions = q.extensions
  <2>1. DOMAIN p.extensions = DOMAIN q.extensions
    BY <1>6 DEF FunctionsIn
  <2>2. \A e \in DOMAIN p.extensions : p.extensions[e] = q.extensions[e]
    BY <1>1, <1>6, <2>1 DEF IsNormal
  <2>3. p.extensions = [e \in DOMAIN p.extensions |-> p.extensions[e]]
        /\ q.extensions = [e \in DOMAIN q.extensions |-> q.extensions[e]]
    BY ListOf DEF IsNormal
  <2>4. QED
    BY <2>1, <2>2, <2>3
<1>8. \A e, f \in DOMAIN p.extensions : FunctionsIn(p)[e] = FunctionsIn(p)[f] => e = f
  <2>1. DOMAIN FunctionsIn(p) = DOMAIN p.extensions
    BY DEF FunctionsIn
  <2> HIDE DEF R
  <2>2. QED
    BY <1>4, <1>5, <2>1, AscendingApart
<1>9. p.calls = q.calls
  <2>1. /\ DOMAIN p.calls = DOMAIN q.calls /\ Meaning(p) = Meaning(q)
        /\ \A c \in DOMAIN p.calls : p.calls[c].path = q.calls[c].path
    BY DEF SameContent, SameCalls
  <2>2. ASSUME NEW c \in DOMAIN p.calls
        PROVE  p.calls[c] = q.calls[c]
    <3>1. PICK e \in DOMAIN p.extensions :
            p.calls[c].function = e - 1 /\ Meaning(p)[c] = FunctionsIn(p)[e]
      BY NormalCalls
    <3>2. PICK f \in DOMAIN q.extensions :
            q.calls[c].function = f - 1 /\ Meaning(q)[c] = FunctionsIn(q)[f]
      BY <2>1, NormalCalls
    <3>3. e = f
      BY <1>6, <1>7, <1>8, <2>1, <3>1, <3>2
    <3>4. /\ p.calls[c] = [path |-> p.calls[c].path, function |-> p.calls[c].function]
          /\ q.calls[c] = [path |-> q.calls[c].path, function |-> q.calls[c].function]
      BY <2>1 DEF IsNormal
    <3>5. p.calls[c].function = q.calls[c].function /\ p.calls[c].path = q.calls[c].path
      BY <2>1, <3>1, <3>2, <3>3
    <3>6. QED
      BY <3>4, <3>5
  <2>3. p.calls = [c \in DOMAIN p.calls |-> p.calls[c]]
        /\ q.calls = [c \in DOMAIN q.calls |-> q.calls[c]]
    BY ListOf DEF IsNormal
  <2>4. QED
    BY <2>1, <2>2, <2>3
<1>10. p.columns = q.columns
  BY DEF SameContent, SameCalls
<1>11. /\ p = [spaces |-> p.spaces, extensions |-> p.extensions, columns |-> p.columns, calls |-> p.calls]
       /\ q = [spaces |-> q.spaces, extensions |-> q.extensions, columns |-> q.columns, calls |-> q.calls]
  BY DEF IsNormal
<1>12. QED
  BY <1>2, <1>7, <1>9, <1>10, <1>11

-----------------------------------------------------------------------------
(***************************************************************************)
(* The normalizer makes a normal form.                                     *)
(***************************************************************************)

\* What normalizeSpaces leaves.
SpacesInOrder(p) ==
  /\ p = [spaces |-> p.spaces, extensions |-> p.extensions, columns |-> p.columns, calls |-> p.calls]
  /\ IsAscending(UrisOf(p), UriBefore) /\ ToSet(UrisOf(p)) \subseteq ToSet(Uris)
  /\ \A i \in DOMAIN p.spaces : p.spaces[i] = [anchor |-> i, uri |-> UrisOf(p)[i]]
  /\ \A e \in DOMAIN p.extensions : p.extensions[e].space = Place(UrisOf(p), FunctionOf(p, e)[1])

LEMMA UrisSorted ==
  ASSUME NEW p, IsCalling(p), IsDistinct(p)
  PROVE  LET order == SpacesByUri(p)
         IN /\ IsReordering(order, p.spaces) /\ IsSequence(order)
            /\ \A i, j \in DOMAIN order : i < j =>
                 <<p.spaces[order[i]].uri, p.spaces[order[j]].uri>> \in UriBefore
<1> DEFINE order == SpacesByUri(p)
           S == DOMAIN p.spaces
           R == OrderOfSpaces(p)
           at(i) == Place(Uris, p.spaces[i].uri)
<1>1. order = Sorted(S, R)
  BY DEF SpacesByUri, OrderOfSpaces
<1>2. IsSequence(p.spaces) /\ IsStrictOrder(S, R)
  BY SpacesOrdered DEF IsCalling
<1>3. IsFiniteSet(S)
  <2>1. S = 1..Len(p.spaces) /\ Len(p.spaces) \in Nat
    BY <1>2, SequenceHas
  <2> HIDE DEF S
  <2>2. QED
    BY <2>1, FS_Interval
<1>4. IsReordering(order, p.spaces) /\ IsSequence(order)
  <2> HIDE DEF order, R
  <2>1. QED
    BY <1>1, <1>2, PositionsSorted
<1>5. \A i, j \in DOMAIN order : i < j =>
        order[i] # order[j] /\ <<order[j], order[i]>> \notin R
  <2> HIDE DEF S, R, order
  <2>1. QED
    BY <1>1, <1>2, <1>3, SortedAscends
<1>6. \A x, y \in S : <<x, y>> \in R <=> at(x) < at(y)
  BY DEF OrderOfSpaces, Ordered, Before
<1>7. \A x \in S : at(x) \in Nat /\ Uris[at(x)] = p.spaces[x].uri
  <2>1. \A x \in S : p.spaces[x].uri \in ToSet(Uris)
    BY DEF IsDistinct
  <2>2. QED
    BY <2>1, OrdersAssumption, PlaceIsNumber, PlaceApart
<1>8. ASSUME NEW i \in DOMAIN order, NEW j \in DOMAIN order, i < j
      PROVE  <<p.spaces[order[i]].uri, p.spaces[order[j]].uri>> \in UriBefore
  <2>1. order[i] \in S /\ order[j] \in S
    BY <1>4 DEF IsReordering
  <2>2. order[i] # order[j] /\ ~(at(order[j]) < at(order[i]))
    <3> HIDE DEF R, at, order
    <3>1. QED
      BY <1>5, <1>6, <1>8, <2>1
  <2>3. at(order[i]) # at(order[j])
    <3>1. p.spaces[order[i]].uri # p.spaces[order[j]].uri
      BY <2>1, <2>2 DEF IsDistinct
    <3> HIDE DEF at, order
    <3>2. QED
      BY <1>7, <2>1, <3>1
  <2>4. at(order[i]) < at(order[j])
    <3> HIDE DEF at, order
    <3>1. QED
      BY <1>7, <2>1, <2>2, <2>3
  <2>5. p.spaces[order[i]].uri \in ToSet(Uris) /\ p.spaces[order[j]].uri \in ToSet(Uris)
    BY <2>1 DEF IsDistinct
  <2>6. QED
    BY <2>4, <2>5 DEF UriBefore, Ordered, Before
<1>9. QED
  BY <1>4, <1>8 DEF order

\* The number of a space is the place of its URI.
LEMMA SpaceIsPlace ==
  ASSUME NEW q, IsCalling(q), Consistent(q),
         \A i \in DOMAIN q.spaces : q.spaces[i].anchor = i,
         \A i, j \in DOMAIN q.spaces : q.spaces[i].uri = q.spaces[j].uri => i = j,
         NEW e \in DOMAIN q.extensions
  PROVE  q.extensions[e].space = Place(UrisOf(q), FunctionOf(q, e)[1])
<1> DEFINE x == q.extensions[e].space
           uris == UrisOf(q)
<1>1. FunctionOf(q, e)[1] = UriOf(q, x)
  BY DEF FunctionOf
<1>2. DOMAIN uris = DOMAIN q.spaces /\ \A i \in DOMAIN uris : uris[i] = q.spaces[i].uri
  BY DEF UrisOf
<1>3. \A i \in DOMAIN q.spaces : i \in Nat \ {0}
  <2>1. IsSequence(q.spaces)
    BY DEF IsCalling
  <2>2. QED
    BY <2>1, SequenceHas
<1>4. CASE \E s \in DOMAIN q.spaces : q.spaces[s].anchor = x
  <2>1. x \in DOMAIN q.spaces /\ q.spaces[x].anchor = x
    BY <1>4
  <2>2. UriOf(q, x) = q.spaces[x].uri
    BY <2>1, UriIs DEF Consistent
  <2>3. x \in DOMAIN uris /\ uris[x] = UriOf(q, x)
    BY <1>2, <2>1, <2>2
  <2>4. \A i, j \in DOMAIN uris : uris[i] = uris[j] => i = j
    BY <1>2
  <2> HIDE DEF uris, x
  <2>5. Place(uris, uris[x]) = x
    BY <2>3, <2>4, PlaceIs
  <2>6. QED
    BY <1>1, <2>3, <2>5 DEF uris, x
<1>5. CASE ~ \E s \in DOMAIN q.spaces : q.spaces[s].anchor = x
  <2>1. x = 0
    BY <1>5 DEF Consistent, Unset
  <2>2. UriOf(q, x) = NoUri
    BY <1>5, NoUriIs
  <2>3. \A i \in DOMAIN q.spaces : q.spaces[i].uri # NoUri
    BY CallingHas
  <2>4. NoUri \notin ToSet(uris)
    BY <1>2, <2>3, PlacesOf
  <2>5. QED
    BY <1>1, <2>1, <2>2, <2>4, NotInOrder
<1>6. QED
  BY <1>4, <1>5

LEMMA SpacesMade ==
  ASSUME NEW p, IsCalling(p), Consistent(p), IsDistinct(p)
  PROVE  LET q == NormalizeSpaces(p)
         IN /\ IsCalling(q) /\ Consistent(q) /\ IsDistinct(q) /\ SpacesInOrder(q)
            /\ SameElements(UrisOf(q), UrisOf(p))
            /\ q.calls = p.calls /\ q.columns = p.columns
            /\ DOMAIN q.extensions = DOMAIN p.extensions
            /\ \A e \in DOMAIN p.extensions : FunctionOf(q, e) = FunctionOf(p, e)
<1> DEFINE q == NormalizeSpaces(p)
           order == SpacesByUri(p)
           spaces == [i \in DOMAIN order |-> [p.spaces[order[i]] EXCEPT !.anchor = i]]
<1>1. /\ IsCalling(q) /\ Consistent(q) /\ q.calls = p.calls
      /\ DOMAIN q.extensions = DOMAIN p.extensions
      /\ \A e \in DOMAIN p.extensions : FunctionOf(q, e) = FunctionOf(p, e)
  BY SpacesNormalized
<1>2. /\ IsReordering(order, p.spaces) /\ IsSequence(order)
      /\ \A i, j \in DOMAIN order : i < j =>
           <<p.spaces[order[i]].uri, p.spaces[order[j]].uri>> \in UriBefore
  BY UrisSorted
<1>3. /\ q = [spaces |-> q.spaces, extensions |-> q.extensions, columns |-> q.columns, calls |-> q.calls]
      /\ q.spaces = spaces /\ q.columns = p.columns
  <2>1. DOMAIN p = {"spaces", "extensions", "columns", "calls"}
    BY DEF IsCalling
  <2>2. /\ DOMAIN q = DOMAIN p /\ q.spaces = spaces /\ q.columns = p.columns
        /\ q = [x \in DOMAIN p |-> q[x]]
    <3> HIDE DEF order
    <3>1. QED
      BY <2>1 DEF NormalizeSpaces, order
  <2> HIDE DEF q, spaces
  <2>3. QED
    BY <2>1, <2>2
<1> HIDE DEF q, order
<1>4. /\ DOMAIN q.spaces = DOMAIN order
      /\ \A i \in DOMAIN order :
           /\ q.spaces[i] = [anchor |-> i, uri |-> p.spaces[order[i]].uri]
           /\ q.spaces[i].anchor = i /\ q.spaces[i].uri = p.spaces[order[i]].uri
  <2>1. \A i \in DOMAIN order : DOMAIN p.spaces[order[i]] = {"anchor", "uri"}
    BY <1>2, CallingHas DEF IsReordering
  <2>2. \A i \in DOMAIN order : [p.spaces[order[i]] EXCEPT !.anchor = i]
                                  = [anchor |-> i, uri |-> p.spaces[order[i]].uri]
    BY <2>1
  <2>3. QED
    BY <1>3, <2>2
<1> HIDE DEF spaces
<1>5. DOMAIN UrisOf(q) = DOMAIN q.spaces /\ \A i \in DOMAIN q.spaces : UrisOf(q)[i] = q.spaces[i].uri
  BY DEF UrisOf
<1>6. DOMAIN UrisOf(p) = DOMAIN p.spaces /\ \A i \in DOMAIN p.spaces : UrisOf(p)[i] = p.spaces[i].uri
  BY DEF UrisOf
<1>7. /\ DOMAIN UrisOf(q) = DOMAIN order
      /\ \A i \in DOMAIN order :
           /\ order[i] \in DOMAIN p.spaces
           /\ UrisOf(q)[i] = p.spaces[order[i]].uri /\ q.spaces[i].uri = p.spaces[order[i]].uri
           /\ q.spaces[i].anchor = i
      /\ \A x \in DOMAIN p.spaces : \E i \in DOMAIN order : order[i] = x
      /\ \A i, j \in DOMAIN order : order[i] = order[j] => i = j
  <2>1. /\ \A i \in DOMAIN order : order[i] \in DOMAIN p.spaces
        /\ \A x \in DOMAIN p.spaces : \E i \in DOMAIN order : order[i] = x
        /\ \A i, j \in DOMAIN order : order[i] = order[j] => i = j
    BY <1>2 DEF IsReordering
  <2>2. \A i \in DOMAIN order : q.spaces[i].anchor = i /\ q.spaces[i].uri = p.spaces[order[i]].uri
    BY <1>4
  <2>3. DOMAIN q.spaces = DOMAIN order
    BY <1>4
  <2>4. QED
    BY <1>5, <2>1, <2>2, <2>3
<1>8. SameElements(UrisOf(q), UrisOf(p))
  <2>1. \A i \in DOMAIN UrisOf(q) : \E j \in DOMAIN UrisOf(p) : UrisOf(q)[i] = UrisOf(p)[j]
    BY <1>6, <1>7
  <2>2. \A j \in DOMAIN UrisOf(p) : \E i \in DOMAIN UrisOf(q) : UrisOf(q)[i] = UrisOf(p)[j]
    BY <1>6, <1>7
  <2>3. QED
    BY <2>1, <2>2 DEF SameElements, ToSet
<1>9. IsSequence(UrisOf(q))
  <2>1. DOMAIN order = 1..Len(order) /\ Len(order) \in Nat
    BY <1>2, SequenceHas
  <2>2. UrisOf(q) = [i \in 1..Len(order) |-> UrisOf(q)[i]]
    BY <1>4, <2>1 DEF UrisOf
  <2>3. QED
    BY <2>1, <2>2, ListIsSequence
<1>10. IsAscending(UrisOf(q), UriBefore)
  <2>1. \A i, j \in DOMAIN UrisOf(q) : i < j => <<UrisOf(q)[i], UrisOf(q)[j]>> \in UriBefore
    BY <1>2, <1>7
  <2>2. QED
    BY <1>9, <2>1 DEF IsAscending
<1>11. ToSet(UrisOf(q)) \subseteq ToSet(Uris)
  <2>1. \A i \in DOMAIN UrisOf(q) : UrisOf(q)[i] \in ToSet(Uris)
    BY <1>7 DEF IsDistinct
  <2>2. QED
    BY <2>1, PlacesOf
<1>12. \A i, j \in DOMAIN q.spaces : q.spaces[i].uri = q.spaces[j].uri => i = j
  BY <1>5, <1>7 DEF IsDistinct
<1>13. IsDistinct(q)
  <2>1. \A i \in DOMAIN q.spaces : q.spaces[i].uri \in ToSet(Uris)
    BY <1>5, <1>7 DEF IsDistinct
  <2>2. \A e, f \in DOMAIN q.extensions : FunctionOf(q, e) = FunctionOf(q, f) => e = f
    BY <1>1 DEF IsDistinct
  <2>3. ASSUME NEW e \in DOMAIN q.extensions
        PROVE  q.extensions[e].name \in ToSet(Names)
    <3>1. FunctionOf(q, e) = FunctionOf(p, e)
      BY <1>1
    <3>2. q.extensions[e].name = p.extensions[e].name
      BY <3>1 DEF FunctionOf
    <3>3. QED
      BY <1>1, <3>2 DEF IsDistinct
  <2>4. QED
    BY <1>12, <2>1, <2>2, <2>3 DEF IsDistinct
<1>14. \A e \in DOMAIN q.extensions : q.extensions[e].space = Place(UrisOf(q), FunctionOf(q, e)[1])
  <2>1. \A i \in DOMAIN q.spaces : q.spaces[i].anchor = i
    BY <1>4
  <2>2. QED
    BY <1>1, <1>12, <2>1, SpaceIsPlace
<1>15. SpacesInOrder(q)
  BY <1>3, <1>4, <1>5, <1>10, <1>11, <1>14 DEF SpacesInOrder
<1>16. QED
  BY <1>1, <1>3, <1>8, <1>13, <1>15 DEF q

LEMMA FunctionsSorted ==
  ASSUME NEW q, IsCalling(q), Consistent(q), IsDistinct(q), SpacesInOrder(q)
  PROVE  LET order == FunctionsByName(q)
         IN /\ IsReordering(order, q.extensions) /\ IsSequence(order)
            /\ \A i, j \in DOMAIN order : i < j =>
                 ComesBefore(UrisOf(q), FunctionOf(q, order[i]), FunctionOf(q, order[j]))
<1> DEFINE order == FunctionsByName(q)
           S == DOMAIN q.extensions
           R == OrderOfFunctions(q)
           space(e) == q.extensions[e].space
           at(e) == Place(Names, q.extensions[e].name)
<1>1. order = Sorted(S, R)
  BY DEF FunctionsByName, OrderOfFunctions
<1>2. IsSequence(q.extensions) /\ IsStrictOrder(S, R)
  BY FunctionsOrdered DEF IsCalling
<1>3. IsFiniteSet(S)
  <2>1. S = 1..Len(q.extensions) /\ Len(q.extensions) \in Nat
    BY <1>2, SequenceHas
  <2> HIDE DEF S
  <2>2. QED
    BY <2>1, FS_Interval
<1>4. IsReordering(order, q.extensions) /\ IsSequence(order)
  <2> HIDE DEF order, R
  <2>1. QED
    BY <1>1, <1>2, PositionsSorted
<1>5. \A i, j \in DOMAIN order : i < j =>
        order[i] # order[j] /\ <<order[j], order[i]>> \notin R
  <2> HIDE DEF S, R, order
  <2>1. QED
    BY <1>1, <1>2, <1>3, SortedAscends
<1>6. \A e \in S : at(e) \in Nat /\ Names[at(e)] = q.extensions[e].name
  <2>1. \A e \in S : q.extensions[e].name \in ToSet(Names)
    BY DEF IsDistinct
  <2>2. QED
    BY <2>1, OrdersAssumption, PlaceIsNumber, PlaceApart
<1>7. \A e \in S : q.extensions[e].kind = "function" /\ space(e) \in Nat
  BY CallingHas
<1>8. \A x, y \in S : <<x, y>> \in R <=>
        space(x) < space(y) \/ (space(x) = space(y) /\ at(x) < at(y))
  <2>1. \A x, y \in S : <<x, y>> \in R <=>
          CompareExtensionFunctions(q.extensions[x], q.extensions[y])
    BY DEF OrderOfFunctions, Ordered
  <2>2. QED
    BY <1>7, <2>1 DEF CompareExtensionFunctions, ExtensionFunction, Before
<1>9. ASSUME NEW x \in S, NEW y \in S, space(x) = space(y), at(x) = at(y)
      PROVE  x = y
  <2>1. q.extensions[x].name = q.extensions[y].name
    BY <1>6, <1>9
  <2>2. FunctionOf(q, x) = FunctionOf(q, y)
    BY <1>9, <2>1 DEF FunctionOf
  <2>3. QED
    BY <2>2 DEF IsDistinct
<1>10. \A e \in S : /\ space(e) = Place(UrisOf(q), FunctionOf(q, e)[1])
                    /\ at(e) = Place(Names, FunctionOf(q, e)[2])
  <2>1. \A e \in S : FunctionOf(q, e)[2] = q.extensions[e].name
    BY DEF FunctionOf
  <2>2. QED
    BY <2>1 DEF SpacesInOrder
<1>11. ASSUME NEW i \in DOMAIN order, NEW j \in DOMAIN order, i < j
       PROVE  ComesBefore(UrisOf(q), FunctionOf(q, order[i]), FunctionOf(q, order[j]))
  <2> DEFINE x == order[i]
             y == order[j]
  <2>1. x \in S /\ y \in S
    BY <1>4 DEF IsReordering
  <2>2. x # y /\ <<y, x>> \notin R
    BY <1>5, <1>11
  <2> HIDE DEF x, y, space, at, S, R, order
  <2>3. space(x) < space(y) \/ (space(x) = space(y) /\ at(x) < at(y))
    <3>1. ~(space(y) < space(x) \/ (space(y) = space(x) /\ at(y) < at(x)))
      BY <1>8, <2>1, <2>2
    <3>2. ~(space(x) = space(y) /\ at(x) = at(y))
      BY <1>9, <2>1, <2>2
    <3>3. space(x) \in Nat /\ space(y) \in Nat /\ at(x) \in Nat /\ at(y) \in Nat
      BY <1>6, <1>7, <2>1
    <3>4. QED
      BY <3>1, <3>2, <3>3
  <2>4. ComesBefore(UrisOf(q), FunctionOf(q, x), FunctionOf(q, y))
    BY <1>10, <2>1, <2>3 DEF ComesBefore, Before
  <2>5. QED
    BY <2>4 DEF x, y
<1>12. QED
  BY <1>4, <1>11 DEF order

LEMMA FunctionsMade ==
  ASSUME NEW q, IsCalling(q), Consistent(q), IsDistinct(q), SpacesInOrder(q)
  PROVE  LET r == NormalizeFunctions(q)
         IN /\ IsNormal(r)
            /\ UrisOf(r) = UrisOf(q) /\ SameElements(FunctionsIn(r), FunctionsIn(q))
            /\ r.columns = q.columns /\ DOMAIN r.calls = DOMAIN q.calls
            /\ \A c \in DOMAIN q.calls : r.calls[c].path = q.calls[c].path
<1> DEFINE order == FunctionsByName(q)
           function(i) == ExtensionFunction(q.extensions[order[i]])
           with(anchor) == {i \in DOMAIN order : function(i).anchor = anchor}
           renumbered(c) == IF Follows(c.path) /\ with(c.function) # {}
                            THEN [c EXCEPT !.function = Greatest(with(c.function)) - 1] ELSE c
           extensions == [i \in DOMAIN order |-> [function(i) EXCEPT !.anchor = i - 1]]
           calls == [c \in DOMAIN q.calls |-> renumbered(q.calls[c])]
           r == NormalizeFunctions(q)
<1>1. /\ IsReordering(order, q.extensions) /\ IsSequence(order)
      /\ \A i, j \in DOMAIN order : i < j =>
           ComesBefore(UrisOf(q), FunctionOf(q, order[i]), FunctionOf(q, order[j]))
  BY FunctionsSorted
<1>2. DOMAIN order = 1..Len(order) /\ Len(order) \in Nat
  BY <1>1, SequenceHas
<1>3. /\ r = [spaces |-> r.spaces, extensions |-> r.extensions, columns |-> r.columns, calls |-> r.calls]
      /\ r.spaces = q.spaces /\ r.columns = q.columns
      /\ r.extensions = extensions /\ r.calls = calls
  <2>1. DOMAIN q = {"spaces", "extensions", "columns", "calls"}
    BY DEF IsCalling
  <2>2. /\ DOMAIN r = DOMAIN q /\ r.spaces = q.spaces /\ r.columns = q.columns
        /\ r.extensions = extensions /\ r.calls = calls
        /\ r = [x \in DOMAIN q |-> r[x]]
    <3> HIDE DEF order
    <3>1. QED
      BY <2>1 DEF NormalizeFunctions, order
  <2> HIDE DEF r, extensions, calls
  <2>3. QED
    BY <2>1, <2>2
<1> HIDE DEF r, order
<1>4. /\ \A i \in DOMAIN order : order[i] \in DOMAIN q.extensions
      /\ \A x \in DOMAIN q.extensions : \E i \in DOMAIN order : order[i] = x
      /\ \A i, j \in DOMAIN order : order[i] = order[j] => i = j
  BY <1>1 DEF IsReordering
<1>5. \A i \in DOMAIN order : function(i) = q.extensions[order[i]]
  BY <1>4, CallingHas DEF ExtensionFunction
<1> HIDE DEF function
<1>6. /\ DOMAIN extensions = DOMAIN order /\ DOMAIN calls = DOMAIN q.calls
      /\ \A i \in DOMAIN order :
           extensions[i] = [ kind |-> "function", space |-> q.extensions[order[i]].space,
                             name |-> q.extensions[order[i]].name, anchor |-> i - 1 ]
  <2>1. \A i \in DOMAIN order :
          /\ DOMAIN q.extensions[order[i]] = {"kind", "space", "name", "anchor"}
          /\ q.extensions[order[i]].kind = "function"
    BY <1>4, CallingHas
  <2>2. ASSUME NEW i \in DOMAIN order
        PROVE  [q.extensions[order[i]] EXCEPT !.anchor = i - 1]
                 = [ kind |-> "function", space |-> q.extensions[order[i]].space,
                     name |-> q.extensions[order[i]].name, anchor |-> i - 1 ]
    BY <2>1
  <2>3. QED
    BY <1>5, <2>2
<1> HIDE DEF extensions
<1>7. ASSUME NEW c \in DOMAIN q.calls
      PROVE  /\ calls[c].path = q.calls[c].path
             /\ calls[c] = [path |-> calls[c].path, function |-> calls[c].function]
             /\ \E i \in DOMAIN order : calls[c].function = i - 1
  <2> DEFINE d == q.calls[c]
  <2>1. PICK e \in DOMAIN q.extensions : q.extensions[e].anchor = d.function
    BY DEF Consistent
  <2>2. PICK i \in DOMAIN order : order[i] = e
    BY <1>4
  <2>3. AnchorsApart(q.extensions) /\ Follows(d.path)
    BY DEF Consistent
  <2>4. with(d.function) = {i}
    BY <1>4, <1>5, <2>1, <2>2, <2>3 DEF AnchorsApart
  <2>5. Greatest(with(d.function)) = i /\ with(d.function) # {}
    <3>1. Greatest({i}) = i
      BY <1>2, GreatestOfOne
    <3> HIDE DEF with
    <3>2. QED
      BY <2>4, <3>1
  <2>6. DOMAIN d = {"path", "function"}
    BY CallingHas
  <2> HIDE DEF with
  <2>7. calls[c] = renumbered(d)
    OBVIOUS
  <2> HIDE DEF d, calls
  <2>8. renumbered(d) = [d EXCEPT !.function = i - 1]
    BY <2>3, <2>5
  <2>9. [d EXCEPT !.function = i - 1] = [path |-> d.path, function |-> i - 1]
    BY <2>6
  <2>10. calls[c] = [path |-> d.path, function |-> i - 1]
    BY <2>7, <2>8, <2>9
  <2>11. QED
    BY <2>10 DEF d
<1> HIDE DEF calls
<1>8. UrisOf(r) = UrisOf(q)
  BY <1>3 DEF UrisOf
<1>9. \A i \in DOMAIN order : FunctionOf(r, i) = FunctionOf(q, order[i])
  <2>1. \A space : UriOf(r, space) = UriOf(q, space)
    BY <1>3 DEF UriOf
  <2>2. \A i \in DOMAIN order : /\ r.extensions[i].space = q.extensions[order[i]].space
                               /\ r.extensions[i].name = q.extensions[order[i]].name
    BY <1>3, <1>6
  <2>3. QED
    BY <2>1, <2>2 DEF FunctionOf
<1>10. /\ DOMAIN FunctionsIn(r) = DOMAIN order
       /\ \A i \in DOMAIN order : FunctionsIn(r)[i] = FunctionOf(q, order[i])
       /\ DOMAIN FunctionsIn(q) = DOMAIN q.extensions
       /\ \A e \in DOMAIN q.extensions : FunctionsIn(q)[e] = FunctionOf(q, e)
  BY <1>3, <1>6, <1>9 DEF FunctionsIn
<1>11. SameElements(FunctionsIn(r), FunctionsIn(q))
  <2>1. \A i \in DOMAIN FunctionsIn(r) : \E j \in DOMAIN FunctionsIn(q) : FunctionsIn(r)[i] = FunctionsIn(q)[j]
    BY <1>4, <1>10
  <2>2. \A j \in DOMAIN FunctionsIn(q) : \E i \in DOMAIN FunctionsIn(r) : FunctionsIn(r)[i] = FunctionsIn(q)[j]
    BY <1>4, <1>10
  <2>3. QED
    BY <2>1, <2>2 DEF SameElements, ToSet
<1>12. IsSequence(FunctionsIn(r)) /\ IsSequence(r.extensions) /\ IsSequence(r.calls) /\ IsSequence(r.spaces)
  <2>1. FunctionsIn(r) = [i \in 1..Len(order) |-> FunctionsIn(r)[i]]
    BY <1>2, <1>3, <1>6 DEF FunctionsIn
  <2>2. extensions = [i \in 1..Len(order) |-> extensions[i]]
    BY <1>2 DEF extensions
  <2>3. DOMAIN q.calls = 1..Len(q.calls) /\ Len(q.calls) \in Nat
    BY SequenceHas DEF IsCalling
  <2>4. calls = [c \in 1..Len(q.calls) |-> calls[c]]
    BY <2>3 DEF calls
  <2>5. IsSequence(q.spaces)
    BY DEF IsCalling
  <2>6. QED
    BY <1>2, <1>3, <2>1, <2>2, <2>3, <2>4, <2>5, ListIsSequence
<1>13. IsAscending(FunctionsIn(r), FunctionBefore(UrisOf(r), ToSet(FunctionsIn(r))))
  <2>1. \A i \in DOMAIN FunctionsIn(r) : FunctionsIn(r)[i] \in ToSet(FunctionsIn(r))
    BY PlacesOf
  <2>2. ASSUME NEW i \in DOMAIN FunctionsIn(r), NEW j \in DOMAIN FunctionsIn(r), i < j
        PROVE  <<FunctionsIn(r)[i], FunctionsIn(r)[j]>> \in FunctionBefore(UrisOf(r), ToSet(FunctionsIn(r)))
    <3>1. ComesBefore(UrisOf(r), FunctionsIn(r)[i], FunctionsIn(r)[j])
      BY <1>1, <1>8, <1>10, <2>2
    <3>2. QED
      BY <2>1, <3>1 DEF FunctionBefore, Ordered
  <2>3. QED
    BY <1>12, <2>2 DEF IsAscending
<1>14. \A e \in DOMAIN r.extensions :
         r.extensions[e] = [ kind   |-> "function", space |-> Place(UrisOf(r), FunctionsIn(r)[e][1]),
                             name   |-> FunctionsIn(r)[e][2],
                             anchor |-> e - 1 ]
  <2>1. ASSUME NEW e \in DOMAIN order
        PROVE  /\ FunctionsIn(r)[e][2] = q.extensions[order[e]].name
               /\ Place(UrisOf(r), FunctionsIn(r)[e][1]) = q.extensions[order[e]].space
    <3>1. FunctionOf(q, order[e])[2] = q.extensions[order[e]].name
      BY DEF FunctionOf
    <3>2. q.extensions[order[e]].space = Place(UrisOf(q), FunctionOf(q, order[e])[1])
      BY <1>4 DEF SpacesInOrder
    <3>3. QED
      BY <1>8, <1>10, <3>1, <3>2
  <2>2. QED
    BY <1>3, <1>6, <2>1
<1>15. /\ IsAscending(UrisOf(r), UriBefore) /\ ToSet(UrisOf(r)) \subseteq ToSet(Uris)
       /\ \A i \in DOMAIN r.spaces : r.spaces[i] = [anchor |-> i, uri |-> UrisOf(r)[i]]
  BY <1>3, <1>8 DEF SpacesInOrder
<1>16. \A c \in DOMAIN r.calls :
         /\ r.calls[c] = [path |-> r.calls[c].path, function |-> r.calls[c].function]
         /\ \E e \in DOMAIN r.extensions : r.calls[c].function = e - 1
  BY <1>3, <1>6, <1>7
<1>17. IsNormal(r)
  BY <1>3, <1>12, <1>13, <1>14, <1>15, <1>16 DEF IsNormal
<1>18. \A c \in DOMAIN q.calls : r.calls[c].path = q.calls[c].path
  BY <1>3, <1>7
<1>19. DOMAIN r.calls = DOMAIN q.calls /\ r.columns = q.columns
  BY <1>3, <1>6
<1>20. QED
  BY <1>8, <1>11, <1>17, <1>18, <1>19 DEF r

\* What a plan becomes is in normal form, and is the same plan.
LEMMA NormalizedIsNormal ==
  ASSUME NEW p, IsCalling(p), Consistent(p), IsDistinct(p)
  PROVE  IsNormal(Normalized(p)) /\ SameContent(Normalized(p), p)
<1> DEFINE q == NormalizeSpaces(p)
           r == NormalizeFunctions(q)
<1>1. /\ IsCalling(q) /\ Consistent(q) /\ IsDistinct(q) /\ SpacesInOrder(q)
      /\ SameElements(UrisOf(q), UrisOf(p))
      /\ q.calls = p.calls /\ q.columns = p.columns
      /\ DOMAIN q.extensions = DOMAIN p.extensions
      /\ \A e \in DOMAIN p.extensions : FunctionOf(q, e) = FunctionOf(p, e)
  BY SpacesMade
<1> HIDE DEF q
<1>2. /\ IsNormal(r)
      /\ UrisOf(r) = UrisOf(q) /\ SameElements(FunctionsIn(r), FunctionsIn(q))
      /\ r.columns = q.columns /\ DOMAIN r.calls = DOMAIN q.calls
      /\ \A c \in DOMAIN q.calls : r.calls[c].path = q.calls[c].path
  BY <1>1, FunctionsMade
<1>3. r = Normalized(p)
  BY DEF Normalized, q
<1> HIDE DEF r
<1>4. FunctionsIn(q) = FunctionsIn(p)
  BY <1>1 DEF FunctionsIn
<1>5. Meaning(r) = Meaning(p)
  BY <1>3, CallsNormalized
<1>6. SameCalls(r, p)
  BY <1>1, <1>2, <1>5 DEF SameCalls
<1>7. SameContent(r, p)
  BY <1>1, <1>2, <1>4, <1>6 DEF SameContent
<1>8. QED
  BY <1>2, <1>3, <1>7

-----------------------------------------------------------------------------
(***************************************************************************)
(* The parser counts spaces and functions in the order of the text.        *)
(***************************************************************************)

\* The symbols of a type have the numbers from one to another, in their order.
CountedFrom(t, d, type, from, upto) ==
  /\ \A i \in OfType(t, type) : d[i].anchor \in Nat /\ from <= d[i].anchor /\ d[i].anchor < upto
  /\ \A i, j \in OfType(t, type) : i < j => d[i].anchor < d[j].anchor
  /\ \A a \in Nat : from <= a /\ a < upto => \E i \in OfType(t, type) : d[i].anchor = a

Entered(n, m, k) == k < n \/ (k = n /\ m > 0)

\* Spaces are of sections, in the order of the sections.
SpacesEntered(sections, t, n, m) ==
  \A j \in OfType(t, "space") :
    /\ t.symbols[j].name # NoUri
    /\ \E k \in DOMAIN sections : Entered(n, m, k) /\ sections[k].uri = t.symbols[j].name

SpacesFollow(sections, t) ==
  \A i, j \in OfType(t, "space") : \A k, l \in DOMAIN sections :
    i < j /\ sections[k].uri = t.symbols[i].name /\ sections[l].uri = t.symbols[j].name => k < l

\* Functions follow each other as they do in the sections.
FunctionsFollow(sections, t) ==
  \A i, j \in OfType(t, "function") : \A s, z \in DOMAIN sections :
    \A k \in DOMAIN sections[s].functions, m \in DOMAIN sections[z].functions :
      i < j /\ t.symbols[i].name = ShortAt(sections, s, k)
            /\ t.symbols[j].name = ShortAt(sections, z, m) => Seen(z, m, s, k)

InTurn(sections, t, d, spacesSeen, functionsSeen, n, m) ==
  /\ CountedFrom(t, d, "space", 1, spacesSeen + 1)
  /\ CountedFrom(t, d, "function", 0, functionsSeen)
  /\ SpacesEntered(sections, t, n, m)
  /\ SpacesFollow(sections, t)
  /\ FunctionsFollow(sections, t)

ReadInTurn(sections, r, n, m) ==
  InTurn(sections, r.table, r.data, r.numSpacesSeen, r.numFunctionsSeen, n, m)

\* No two sections are of one space.
UrisDiffer(sections) == \A k, l \in DOMAIN sections : sections[k].uri = sections[l].uri => k = l

LEMMA SectionsDiffer ==
  ASSUME NEW p, IsCalling(p), Consistent(p), NamesApart(p), NEW t, NEW d,
         Converted(p, t, d, Len(p.spaces), Len(p.extensions))
  PROVE  UrisDiffer(Sections(t, d))
<1> DEFINE used == UsedSpaces(t, d)
           sections == Sections(t, d)
<1>1. /\ \A k \in DOMAIN used : \E e \in DOMAIN p.extensions : used[k] = p.extensions[e].space
      /\ \A k, l \in DOMAIN used : used[k] = used[l] => k = l
  BY UsedSpacesAre
<1>2. sections = [k \in DOMAIN used |-> Section(t, d, used[k])]
  BY DEF Sections
<1>3. \A space : Section(t, d, space).uri = SpaceName(t, d, space)
  BY DEF Section, Printed
<1>4. \A space : SpaceName(t, d, space) = UriOf(p, space)
  BY SpaceNameIs
<1> HIDE DEF used, sections
<1>5. DOMAIN sections = DOMAIN used /\ \A k \in DOMAIN used : sections[k].uri = UriOf(p, used[k])
  BY <1>2, <1>3, <1>4
<1>6. \A k \in DOMAIN used : SpaceKnown(p, used[k])
  BY <1>1, FunctionsHaveSpaces
<1>7. ASSUME NEW k \in DOMAIN used, NEW l \in DOMAIN used, sections[k].uri = sections[l].uri
      PROVE  k = l
  <2>1. UriOf(p, used[k]) = UriOf(p, used[l])
    BY <1>5, <1>7
  <2>2. used[k] = used[l]
    BY <1>6, <2>1, UrisApart
  <2>3. QED
    BY <1>1, <2>2
<1>8. UrisDiffer(sections)
  BY <1>5, <1>7 DEF UrisDiffer
<1>9. QED
  BY <1>8 DEF sections

Carries(new, anchor) == new.anchor = anchor

LEMMA CountStays ==
  ASSUME NEW t, NEW d, NEW u, NEW e, NEW x, NEW name, NEW l, NEW type, NEW new,
         Grows(t, d, u, e, x, name, l, type, new), NEW other, type # other,
         NEW from, NEW upto, CountedFrom(t, d, other, from, upto)
  PROVE  CountedFrom(u, e, other, from, upto)
<1>1. /\ \A i \in OfType(u, other) : i \in OfType(t, other)
      /\ \A i \in OfType(t, other) : i \in OfType(u, other) /\ e[i] = d[i]
  BY GrowsOfType
<1>2. QED
  BY <1>1 DEF CountedFrom

LEMMA CountGrows ==
  ASSUME NEW t, NEW d, Tabled(t, d), NEW u, NEW e, NEW name, NEW l, NEW type, NEW new,
         Grows(t, d, u, e, Len(t.symbols) + 1, name, l, type, new),
         NEW from \in Nat, NEW upto \in Nat, from <= upto, Carries(new, upto),
         CountedFrom(t, d, type, from, upto)
  PROVE  CountedFrom(u, e, type, from, upto + 1)
<1> DEFINE x == Len(t.symbols) + 1
<1>1. /\ \A i \in OfType(u, type) : i \in OfType(t, type) \/ i = x
      /\ \A i \in OfType(t, type) : i \in OfType(u, type) /\ e[i] = d[i]
      /\ x \in OfType(u, type)
  BY GrowsOfType
<1>2. e[x].anchor = upto
  BY DEF Grows, Carries
<1>3. x \in Nat /\ \A i \in OfType(t, type) : i \in Nat /\ i < x
  <2>1. DOMAIN t.symbols = 1..Len(t.symbols) /\ Len(t.symbols) \in Nat
    BY SequenceHas DEF Tabled
  <2>2. QED
    BY <2>1 DEF OfType
<1> HIDE DEF x
<1>4. \A i \in OfType(t, type) : e[i].anchor \in Nat /\ from <= e[i].anchor /\ e[i].anchor < upto
  BY <1>1 DEF CountedFrom
<1>5. \A i \in OfType(u, type) : e[i].anchor \in Nat /\ from <= e[i].anchor /\ e[i].anchor < upto + 1
  BY <1>1, <1>2, <1>4
<1>6. ASSUME NEW i \in OfType(u, type), NEW j \in OfType(u, type), i < j
      PROVE  e[i].anchor < e[j].anchor
  <2>1. i \in OfType(t, type)
    <3>1. i \in Nat /\ j \in Nat /\ j <= x
      <4>1. /\ i \in OfType(t, type) \/ i = x
            /\ j \in OfType(t, type) \/ j = x
        BY <1>1
      <4>2. QED
        BY <1>3, <4>1
    <3>2. i # x
      BY <1>3, <1>6, <3>1
    <3>3. QED
      BY <1>1, <3>2
  <2>2. CASE j = x
    BY <1>2, <1>4, <2>1, <2>2
  <2>3. CASE j # x
    BY <1>1, <1>6, <2>1, <2>3 DEF CountedFrom
  <2>4. QED
    BY <2>2, <2>3
<1>7. ASSUME NEW a \in Nat, from <= a, a < upto + 1
      PROVE  \E i \in OfType(u, type) : e[i].anchor = a
  <2>1. CASE a = upto
    BY <1>1, <1>2, <2>1
  <2>2. CASE a # upto
    <3>1. a < upto
      BY <1>7, <2>2
    <3>2. PICK i \in OfType(t, type) : d[i].anchor = a
      BY <1>7, <3>1 DEF CountedFrom
    <3>3. QED
      BY <1>1, <3>2
  <2>3. QED
    BY <2>1, <2>2
<1>8. QED
  BY <1>5, <1>6, <1>7 DEF CountedFrom

\* Another symbol than a space, or than a function, changes no order.
LEMMA SpacesStayInTurn ==
  ASSUME NEW t, NEW d, NEW u, NEW e, NEW x, NEW name, NEW l, NEW type, NEW new,
         Grows(t, d, u, e, x, name, l, type, new), ~IsSpace(type), NEW sections, NEW n, NEW m
  PROVE  /\ SpacesEntered(sections, t, n, m) => SpacesEntered(sections, u, n, m)
         /\ SpacesFollow(sections, t) => SpacesFollow(sections, u)
<1>1. /\ \A i \in OfType(u, "space") : i \in OfType(t, "space")
      /\ \A i \in OfType(t, "space") : u.symbols[i] = t.symbols[i]
  BY GrowsOfType DEF IsSpace
<1>2. SpacesEntered(sections, t, n, m) => SpacesEntered(sections, u, n, m)
  BY <1>1 DEF SpacesEntered
<1>3. SpacesFollow(sections, t) => SpacesFollow(sections, u)
  BY <1>1 DEF SpacesFollow
<1>4. QED
  BY <1>2, <1>3

LEMMA FunctionsStayInTurn ==
  ASSUME NEW t, NEW d, NEW u, NEW e, NEW x, NEW name, NEW l, NEW type, NEW new,
         Grows(t, d, u, e, x, name, l, type, new), ~IsFunction(type), NEW sections,
         FunctionsFollow(sections, t)
  PROVE  FunctionsFollow(sections, u)
<1>1. /\ \A i \in OfType(u, "function") : i \in OfType(t, "function")
      /\ \A i \in OfType(t, "function") : u.symbols[i] = t.symbols[i]
  BY GrowsOfType DEF IsFunction
<1>2. QED
  BY <1>1 DEF FunctionsFollow

LEMMA InTurnBegins ==
  ASSUME NEW sections
  PROVE  InTurn(sections, EmptyTable, << >>, 0, 0, 1, 0)
<1>1. \A type : OfType(EmptyTable, type) = {}
  BY DEF EmptyTable, OfType
<1>2. CountedFrom(EmptyTable, << >>, "space", 1, 0 + 1)
  BY <1>1 DEF CountedFrom
<1>3. CountedFrom(EmptyTable, << >>, "function", 0, 0)
  BY <1>1 DEF CountedFrom
<1>4. QED
  BY <1>1, <1>2, <1>3 DEF InTurn, SpacesEntered, SpacesFollow, FunctionsFollow

LEMMA ColumnInTurn ==
  ASSUME NEW sections, NEW t, NEW d, Tabled(t, d), NEW ns, NEW nf, NEW n, NEW m,
         InTurn(sections, t, d, ns, nf, n, m), NEW name, NEW l, NEW new
  PROVE  InTurn(sections, DefineSymbol(t, name, l, "column"), Append(d, new), ns, nf, n, m)
<1> DEFINE type == "column"
           x == Len(t.symbols) + 1
           u == DefineSymbol(t, name, l, type)
           e == Append(d, new)
<1>1. u = DefineSymbol(t, name, l, type) /\ e = Append(d, new)
  OBVIOUS
<1>2. ~IsFunction(type) /\ ~IsSpace(type) /\ type # "function" /\ type # "space"
  BY DEF IsFunction, IsSpace
<1> HIDE DEF type, u, e, x
<1>3. Grows(t, d, u, e, x, name, l, type, new)
  BY <1>1, TableGrows DEF x
<1>4. CountedFrom(u, e, "space", 1, ns + 1)
  <2>1. CountedFrom(t, d, "space", 1, ns + 1)
    BY DEF InTurn
  <2>2. QED
    BY <1>2, <1>3, <2>1, CountStays
<1>5. CountedFrom(u, e, "function", 0, nf)
  <2>1. CountedFrom(t, d, "function", 0, nf)
    BY DEF InTurn
  <2>2. QED
    BY <1>2, <1>3, <2>1, CountStays
<1>6. SpacesEntered(sections, u, n, m) /\ SpacesFollow(sections, u)
  <2>1. SpacesEntered(sections, t, n, m) /\ SpacesFollow(sections, t)
    BY DEF InTurn
  <2>2. QED
    BY <1>2, <1>3, <2>1, SpacesStayInTurn
<1>7. FunctionsFollow(sections, u)
  <2>1. FunctionsFollow(sections, t)
    BY DEF InTurn
  <2>2. QED
    BY <1>2, <1>3, <2>1, FunctionsStayInTurn
<1>8. InTurn(sections, u, e, ns, nf, n, m)
  BY <1>4, <1>5, <1>6, <1>7 DEF InTurn
<1>9. QED
  BY <1>8 DEF u, e, type

LEMMA SpaceInTurn ==
  ASSUME NEW p, NEW sections, Placed(p, sections), UrisDiffer(sections),
         NEW n \in DOMAIN sections, NEW t, NEW d, Tabled(t, d), NEW ns \in Nat, NEW nf,
         InTurn(sections, t, d, ns, nf, n, 0), sections[n].uri # NoUri, NEW l
  PROVE  InTurn(sections, DefineSymbol(t, sections[n].uri, l, "space"),
                Append(d, SpaceData(ns + 1)), ns + 1, nf, n, 1)
<1> DEFINE type == "space"
           uri == sections[n].uri
           new == SpaceData(ns + 1)
           x == Len(t.symbols) + 1
           u == DefineSymbol(t, uri, l, type)
           e == Append(d, new)
<1>1. u = DefineSymbol(t, uri, l, type) /\ e = Append(d, new)
  OBVIOUS
<1>2. ~IsFunction(type) /\ type # "function" /\ type = "space"
  BY DEF IsFunction
<1>3. Carries(new, ns + 1)
  BY DEF Carries, SpaceData, FunctionData
<1>4. /\ DOMAIN t.symbols = 1..Len(t.symbols) /\ Len(t.symbols) \in Nat
      /\ DOMAIN sections \subseteq Nat
  BY SequenceHas, SectionPositions DEF Tabled
<1> HIDE DEF type, u, e, x, new, uri
<1>5. Grows(t, d, u, e, x, uri, l, type, new)
  BY <1>1, TableGrows DEF x
<1>6. CountedFrom(u, e, "space", 1, (ns + 1) + 1)
  <2>1. CountedFrom(t, d, type, 1, ns + 1)
    BY <1>2 DEF InTurn
  <2>2. ns + 1 \in Nat /\ 1 <= ns + 1
    OBVIOUS
  <2>3. CountedFrom(u, e, type, 1, (ns + 1) + 1)
    BY <1>3, <1>5, <2>1, <2>2, CountGrows DEF x
  <2>4. QED
    BY <1>2, <2>3
<1>7. CountedFrom(u, e, "function", 0, nf)
  <2>1. CountedFrom(t, d, "function", 0, nf)
    BY DEF InTurn
  <2>2. QED
    BY <1>2, <1>5, <2>1, CountStays
<1>8. FunctionsFollow(sections, u)
  <2>1. FunctionsFollow(sections, t)
    BY DEF InTurn
  <2>2. QED
    BY <1>2, <1>5, <2>1, FunctionsStayInTurn
<1>9. /\ \A i \in OfType(u, "space") : i \in OfType(t, "space") \/ i = x
      /\ \A i \in OfType(t, "space") : u.symbols[i] = t.symbols[i] /\ i < x /\ i \in Nat
      /\ u.symbols[x].name = uri /\ x \in Nat
  <2>1. /\ \A i \in OfType(u, "space") : i \in OfType(t, "space") \/ i = x
        /\ \A i \in OfType(t, "space") : u.symbols[i] = t.symbols[i]
    BY <1>5, GrowsOfType
  <2>2. \A i \in OfType(t, "space") : i < x /\ i \in Nat
    BY <1>4 DEF OfType, x
  <2>3. u.symbols[x].name = uri
    BY <1>5 DEF Grows
  <2>4. QED
    BY <1>4, <2>1, <2>2, <2>3 DEF x
<1>10. \A j \in OfType(t, "space") :
         /\ t.symbols[j].name # NoUri
         /\ \E k \in DOMAIN sections : k < n /\ sections[k].uri = t.symbols[j].name
  BY DEF InTurn, SpacesEntered, Entered
<1>11. SpacesEntered(sections, u, n, 1)
  <2>1. ASSUME NEW j \in OfType(u, "space")
        PROVE  /\ u.symbols[j].name # NoUri
               /\ \E k \in DOMAIN sections : Entered(n, 1, k) /\ sections[k].uri = u.symbols[j].name
    <3>1. CASE j = x
      BY <1>9, <3>1 DEF Entered, uri
    <3>2. CASE j # x
      <4>1. j \in OfType(t, "space") /\ u.symbols[j] = t.symbols[j]
        BY <1>9, <3>2
      <4>2. QED
        BY <1>10, <4>1 DEF Entered
    <3>3. QED
      BY <3>1, <3>2
  <2>2. QED
    BY <2>1 DEF SpacesEntered
<1>12. SpacesFollow(sections, u)
  <2>1. ASSUME NEW i \in OfType(u, "space"), NEW j \in OfType(u, "space"),
               NEW k \in DOMAIN sections, NEW z \in DOMAIN sections, i < j,
               sections[k].uri = u.symbols[i].name, sections[z].uri = u.symbols[j].name
        PROVE  k < z
    <3>1. i \in OfType(t, "space") /\ u.symbols[i] = t.symbols[i]
      <4>1. i # x
        <5>1. j \in Nat /\ j <= x
          <6>1. j \in OfType(t, "space") \/ j = x
            BY <1>9
          <6>2. QED
            BY <1>9, <6>1
        <5>2. QED
          BY <1>9, <2>1, <5>1
      <4>2. QED
        BY <1>9, <4>1
    <3>2. CASE j = x
      <4>1. z = n
        BY <1>9, <2>1, <3>2 DEF UrisDiffer, uri
      <4>2. PICK y \in DOMAIN sections : y < n /\ sections[y].uri = t.symbols[i].name
        BY <1>10, <3>1
      <4>3. y = k
        BY <2>1, <3>1, <4>2 DEF UrisDiffer
      <4>4. QED
        BY <4>1, <4>2, <4>3
    <3>3. CASE j # x
      <4>1. j \in OfType(t, "space") /\ u.symbols[j] = t.symbols[j]
        BY <1>9, <3>3
      <4>2. SpacesFollow(sections, t)
        BY DEF InTurn
      <4>3. QED
        BY <2>1, <3>1, <4>1, <4>2 DEF SpacesFollow
    <3>4. QED
      BY <3>2, <3>3
  <2>2. QED
    BY <2>1 DEF SpacesFollow
<1>13. InTurn(sections, u, e, ns + 1, nf, n, 1)
  BY <1>6, <1>7, <1>8, <1>11, <1>12 DEF InTurn
<1>14. QED
  BY <1>13 DEF u, e, type, new, uri

LEMMA FunctionInTurn ==
  ASSUME NEW p, NEW sections, Placed(p, sections),
         NEW n \in DOMAIN sections, NEW k \in DOMAIN sections[n].functions,
         NEW t, NEW d, Tabled(t, d), NEW ns, NEW nf \in Nat,
         SymbolsSeen(sections, t, d, n, k), InTurn(sections, t, d, ns, nf, n, k),
         NEW l, NEW of
  PROVE  InTurn(sections, DefineSymbol(t, ShortAt(sections, n, k), l, "function"),
                Append(d, FunctionData(of, NoSpace, nf)), ns, nf + 1, n, k + 1)
<1> DEFINE type == "function"
           name == ShortAt(sections, n, k)
           new == FunctionData(of, NoSpace, nf)
           x == Len(t.symbols) + 1
           u == DefineSymbol(t, name, l, type)
           e == Append(d, new)
<1>1. u = DefineSymbol(t, name, l, type) /\ e = Append(d, new)
  OBVIOUS
<1>2. ~IsSpace(type) /\ type # "space" /\ type = "function"
  BY DEF IsSpace
<1>3. Carries(new, nf)
  BY DEF Carries, FunctionData
<1>4. /\ DOMAIN t.symbols = 1..Len(t.symbols) /\ Len(t.symbols) \in Nat
      /\ k \in Nat /\ k > 0
  BY SequenceHas, SectionPositions DEF Tabled
<1> HIDE DEF type, u, e, x, new, name
<1>5. Grows(t, d, u, e, x, name, l, type, new)
  BY <1>1, TableGrows DEF x
<1>6. CountedFrom(u, e, "function", 0, nf + 1)
  <2>1. CountedFrom(t, d, type, 0, nf)
    BY <1>2 DEF InTurn
  <2>2. 0 <= nf /\ 0 \in Nat
    OBVIOUS
  <2>3. CountedFrom(u, e, type, 0, nf + 1)
    BY <1>3, <1>5, <2>1, <2>2, CountGrows DEF x
  <2>4. QED
    BY <1>2, <2>3
<1>7. CountedFrom(u, e, "space", 1, ns + 1)
  <2>1. CountedFrom(t, d, "space", 1, ns + 1)
    BY DEF InTurn
  <2>2. QED
    BY <1>2, <1>5, <2>1, CountStays
<1>8. SpacesEntered(sections, u, n, k + 1) /\ SpacesFollow(sections, u)
  <2>1. SpacesEntered(sections, t, n, k) /\ SpacesFollow(sections, t)
    BY DEF InTurn
  <2>2. SpacesEntered(sections, u, n, k) /\ SpacesFollow(sections, u)
    BY <1>2, <1>5, <2>1, SpacesStayInTurn
  <2>3. \A z : Entered(n, k, z) => Entered(n, k + 1, z)
    BY <1>4 DEF Entered
  <2>4. QED
    BY <2>2, <2>3 DEF SpacesEntered
<1>9. /\ \A i \in OfType(u, "function") : i \in OfType(t, "function") \/ i = x
      /\ \A i \in OfType(t, "function") : u.symbols[i] = t.symbols[i] /\ i < x /\ i \in Nat
      /\ u.symbols[x].name = name /\ x \in Nat
  <2>1. /\ \A i \in OfType(u, "function") : i \in OfType(t, "function") \/ i = x
        /\ \A i \in OfType(t, "function") : u.symbols[i] = t.symbols[i]
    BY <1>5, GrowsOfType
  <2>2. \A i \in OfType(t, "function") : i < x /\ i \in Nat
    BY <1>4 DEF OfType, x
  <2>3. u.symbols[x].name = name
    BY <1>5 DEF Grows
  <2>4. QED
    BY <1>4, <2>1, <2>2, <2>3 DEF x
<1>10. FunctionsFollow(sections, u)
  <2>1. ASSUME NEW i \in OfType(u, "function"), NEW j \in OfType(u, "function"),
               NEW s \in DOMAIN sections, NEW z \in DOMAIN sections,
               NEW g \in DOMAIN sections[s].functions, NEW h \in DOMAIN sections[z].functions,
               i < j, u.symbols[i].name = ShortAt(sections, s, g),
               u.symbols[j].name = ShortAt(sections, z, h)
        PROVE  Seen(z, h, s, g)
    <3>1. i \in OfType(t, "function") /\ u.symbols[i] = t.symbols[i]
      <4>1. i # x
        <5>1. j \in Nat /\ j <= x
          <6>1. j \in OfType(t, "function") \/ j = x
            BY <1>9
          <6>2. QED
            BY <1>9, <6>1
        <5>2. QED
          BY <1>9, <2>1, <5>1
      <4>2. QED
        BY <1>9, <4>1
    <3>2. CASE j = x
      <4>1. ShortAt(sections, z, h) = ShortAt(sections, n, k)
        BY <1>9, <2>1, <3>2 DEF name
      <4>2. z = n /\ h = k
        BY <4>1 DEF Placed, ShortAt
      <4>3. PICK y \in DOMAIN sections : \E w \in DOMAIN sections[y].functions :
              Seen(n, k, y, w) /\ t.symbols[i].name = ShortAt(sections, y, w)
        BY <3>1 DEF SymbolsSeen, FunctionAt
      <4>4. PICK w \in DOMAIN sections[y].functions :
              Seen(n, k, y, w) /\ t.symbols[i].name = ShortAt(sections, y, w)
        BY <4>3
      <4>5. ShortAt(sections, y, w) = ShortAt(sections, s, g)
        BY <2>1, <3>1, <4>4
      <4>6. y = s /\ w = g
        BY <4>5 DEF Placed, ShortAt
      <4>7. QED
        BY <4>2, <4>4, <4>6
    <3>3. CASE j # x
      <4>1. j \in OfType(t, "function") /\ u.symbols[j] = t.symbols[j]
        BY <1>9, <3>3
      <4>2. FunctionsFollow(sections, t)
        BY DEF InTurn
      <4>3. QED
        BY <2>1, <3>1, <4>1, <4>2 DEF FunctionsFollow
    <3>4. QED
      BY <3>2, <3>3
  <2>2. QED
    BY <2>1 DEF FunctionsFollow
<1>11. InTurn(sections, u, e, ns, nf + 1, n, k + 1)
  BY <1>6, <1>7, <1>8, <1>10 DEF InTurn
<1>12. QED
  BY <1>11 DEF u, e, type, new, name

\* A section that is left changes no number.
LEMMA SectionInTurn ==
  ASSUME NEW p, NEW sections, Placed(p, sections), NEW n \in DOMAIN sections, NEW m,
         NEW t, NEW d, NEW e, NEW functions, NEW space,
         GivesSpace(t, d, e, functions, space),
         NEW ns, NEW nf, InTurn(sections, t, d, ns, nf, n, m)
  PROVE  InTurn(sections, t, e, ns, nf, n + 1, 0)
<1>1. CountedFrom(t, e, "space", 1, ns + 1) /\ CountedFrom(t, e, "function", 0, nf)
  <2>1. /\ \A i \in OfType(t, "space") : e[i].anchor = d[i].anchor
        /\ \A i \in OfType(t, "function") : e[i].anchor = d[i].anchor
    BY DEF GivesSpace
  <2>2. CountedFrom(t, d, "space", 1, ns + 1) /\ CountedFrom(t, d, "function", 0, nf)
    BY DEF InTurn
  <2>3. QED
    BY <2>1, <2>2 DEF CountedFrom
<1>2. SpacesEntered(sections, t, n + 1, 0)
  <2>1. \A k \in DOMAIN sections : Entered(n, m, k) => Entered(n + 1, 0, k)
    BY SectionPositions DEF Entered
  <2>2. QED
    BY <2>1 DEF InTurn, SpacesEntered
<1>3. QED
  BY <1>1, <1>2 DEF InTurn

-----------------------------------------------------------------------------
(***************************************************************************)
(* The order is kept as the parser goes on, and what is written of calls.  *)
(***************************************************************************)
OrderInv ==
  /\ stage = "columns" => ReadInTurn(text.sections, read, 1, 0)
  /\ stage = "sections" => ReadInTurn(text.sections, read, next, inside)
  /\ stage \in AfterSections => ReadInTurn(text.sections, read, Len(text.sections) + 1, 0)

\* A message has the fields of one and no more.
FieldsOnly(b) ==
  b = [spaces |-> b.spaces, extensions |-> b.extensions, columns |-> b.columns, calls |-> b.calls]

\* Calls are where they were.
WordsInv ==
  /\ FieldsOnly(back)
  /\ back.columns = plan.columns
  /\ \A c \in DOMAIN back.calls :
       back.calls[c] = [path |-> plan.calls[c].path, function |-> back.calls[c].function]

LEMMA TextIsApart ==
  ASSUME Sound, CallsInv, stage \notin BeforeColumns
  PROVE  UrisDiffer(text.sections)
<1>1. IsCalling(plan) /\ Consistent(plan) /\ NamesApart(plan)
  BY PlanIsSound DEF CallsInv
<1>2. /\ Converted(plan, table, data, Len(plan.spaces), Len(plan.extensions))
      /\ text.sections = Sections(table, data)
  BY DEF CallsInv, ConverterInv, TextInv, BeforeColumns, BeforePrint
<1>3. QED
  BY <1>1, <1>2, SectionsDiffer

LEMMA OrderInvInit ==
  ASSUME Init
  PROVE  OrderInv /\ WordsInv
<1>1. stage = "spaces" /\ plan \in Plans
      /\ back = [plan EXCEPT !.spaces = << >>, !.extensions = << >>, !.calls = << >>]
  BY DEF Init, Stages
<1>2. OrderInv
  BY <1>1 DEF OrderInv, AfterSections
<1>3. DOMAIN plan = {"spaces", "extensions", "columns", "calls"}
  BY <1>1, PlansAssumption DEF IsCalling
<1>4. back.columns = plan.columns /\ back.calls = << >>
  BY <1>1, <1>3
<1>5. FieldsOnly(back)
  BY <1>1, <1>3 DEF FieldsOnly
<1>6. QED
  BY <1>2, <1>4, <1>5 DEF WordsInv

LEMMA OrderInvStage ==
  ASSUME Sound, CallsInv, OrderInv, NextStage
  PROVE  OrderInv'
<1>1. /\ Follow(stage, stage') /\ next' = 1 /\ next > Len(Visited(stage))
      /\ UNCHANGED <<plan, inside, table, data, text, read, back>>
  BY StageFollows DEF NextStage, CallsInv, NormalInv
<1>2. CASE stage = "print"
  <2>1. read = Unread /\ stage' = "columns"
    BY <1>1, <1>2 DEF CallsInv, ParserInv, BeforeColumns, Follow
  <2>2. ReadInTurn(text.sections, read, 1, 0)
    BY <2>1, InTurnBegins DEF ReadInTurn, Unread
  <2>3. QED
    BY <1>1, <2>1, <2>2 DEF OrderInv, AfterSections
<1>3. CASE stage = "columns"
  <2>1. stage' = "sections" /\ inside = 0
    BY <1>1, <1>3 DEF Follow, CallsInv, PlaceInv
  <2>2. QED
    BY <1>1, <1>3, <2>1 DEF OrderInv, AfterSections
<1>4. CASE stage = "sections"
  <2>1. Placed(plan, text.sections)
    BY <1>4, TextIsPlaced DEF BeforeColumns, BeforePrint, BeforeCalls
  <2>2. Len(text.sections) \in Nat /\ DOMAIN text.sections = 1..Len(text.sections)
    BY <2>1, SectionPositions
  <2>3. next > Len(text.sections)
    BY <1>1, <1>4 DEF Visited
  <2>4. /\ next \in 1..(Len(text.sections) + 1) /\ inside \in Nat
        /\ inside > 0 => next \in DOMAIN text.sections
    BY <1>4 DEF CallsInv, PlaceInv
  <2>5. next = Len(text.sections) + 1 /\ next \notin DOMAIN text.sections
    BY <2>2, <2>3, <2>4
  <2>6. inside = 0
    BY <2>4, <2>5
  <2>7. ReadInTurn(text.sections, read, Len(text.sections) + 1, 0)
    BY <1>4, <2>5, <2>6 DEF OrderInv
  <2>8. stage' = "uses"
    BY <1>1, <1>4 DEF Follow
  <2>9. QED
    BY <1>1, <2>7, <2>8 DEF OrderInv
<1>5. CASE stage \notin {"print", "columns", "sections"}
  <2>1. stage' \notin {"columns", "sections"} /\ (stage' \in AfterSections => stage \in AfterSections)
    BY <1>1, <1>5 DEF Follow, AfterSections
  <2>2. QED
    BY <1>1, <2>1 DEF OrderInv
<1>6. QED
  BY <1>2, <1>3, <1>4, <1>5

LEMMA OrderInvMove ==
  ASSUME Sound, CallsInv, OrderInv, Moves, Stays
  PROVE  OrderInv'
<1>1. UNCHANGED <<plan, stage>>
  BY DEF Stays
<1> DEFINE sections == text.sections
           fields == {"table", "data", "numSpacesSeen", "numFunctionsSeen"}
<1>2. CASE stage = "columns"
  <2> DEFINE t == DefineSymbol(read.table, plan.columns[next], <<"column", next>>, "column")
             d == Append(read.data, SpaceData(Unset))
  <2>1. read' = [read EXCEPT !.table = t, !.data = d]
    BY <1>2 DEF Moves, VisitSchemaItem
  <2>2. text' = text
    BY <1>2 DEF Stays
  <2>3. DOMAIN read = fields /\ Tabled(read.table, read.data)
    BY <1>2 DEF CallsInv, ParserInv, ParsedAs, Parsed
  <2>4. InTurn(sections, read.table, read.data, read.numSpacesSeen, read.numFunctionsSeen, 1, 0)
    BY <1>2 DEF OrderInv, ReadInTurn
  <2>5. InTurn(sections, t, d, read.numSpacesSeen, read.numFunctionsSeen, 1, 0)
    BY <2>3, <2>4, ColumnInTurn
  <2> HIDE DEF t, d
  <2>6. /\ read'.table = t /\ read'.data = d
        /\ read'.numSpacesSeen = read.numSpacesSeen
        /\ read'.numFunctionsSeen = read.numFunctionsSeen
    BY <2>1, <2>3
  <2>7. ReadInTurn(sections, read', 1, 0)
    BY <2>5, <2>6 DEF ReadInTurn
  <2>8. QED
    BY <1>1, <1>2, <2>2, <2>7 DEF OrderInv, AfterSections
<1>3. CASE stage = "sections"
  <2>1. Placed(plan, sections) /\ UrisDiffer(sections)
    BY <1>3, TextIsPlaced, TextIsApart DEF BeforeColumns, BeforePrint, BeforeCalls
  <2>2. text' = text /\ inside \in Nat
    BY <1>3 DEF Stays, CallsInv, PlaceInv
  <2>3. ParsedAs(sections, read, next, inside) /\ (inside > 0 => next \in DOMAIN sections)
    BY <1>3 DEF CallsInv, ParserInv, PlaceInv
  <2>4. /\ DOMAIN read = fields /\ Tabled(read.table, read.data)
        /\ read.numSpacesSeen \in Nat /\ read.numFunctionsSeen \in Nat
        /\ SymbolsSeen(sections, read.table, read.data, next, inside)
        /\ PlacesSeen(sections, read.table, read.data, next, inside)
    BY <2>3 DEF ParsedAs, Parsed
  <2>5. InTurn(sections, read.table, read.data, read.numSpacesSeen, read.numFunctionsSeen, next, inside)
    BY <1>3 DEF OrderInv, ReadInTurn
  <2>6. SUFFICES ReadInTurn(sections, read', next', inside')
    BY <1>1, <1>3, <2>2 DEF OrderInv, AfterSections
  <2>7. CASE EnterExtensionspace
    <3>1. /\ next \in DOMAIN sections /\ inside = 0 /\ inside' = 1 /\ next' = next
          /\ read' = DefineSpace(read, sections[next])
      BY <2>7 DEF EnterExtensionspace
    <3>2. CASE sections[next].uri = NoUri
      <4>1. read' = read
        BY <3>1, <3>2 DEF DefineSpace
      <4>2. \A k : Entered(next, 0, k) => Entered(next, 1, k)
        BY DEF Entered
      <4>3. InTurn(sections, read.table, read.data, read.numSpacesSeen, read.numFunctionsSeen, next, 1)
        <5>1. SpacesEntered(sections, read.table, next, 0)
          BY <2>5, <3>1 DEF InTurn
        <5>2. SpacesEntered(sections, read.table, next, 1)
          BY <4>2, <5>1 DEF SpacesEntered
        <5>3. QED
          BY <2>5, <5>2 DEF InTurn
      <4>4. QED
        BY <3>1, <4>1, <4>3 DEF ReadInTurn
    <3>3. CASE sections[next].uri # NoUri
      <4> DEFINE l == <<"space", read.numSpacesSeen + 1>>
                 u == DefineSymbol(read.table, sections[next].uri, l, "space")
                 e == Append(read.data, SpaceData(read.numSpacesSeen + 1))
      <4>1. /\ read'.table = u /\ read'.data = e
            /\ read'.numSpacesSeen = read.numSpacesSeen + 1
            /\ read'.numFunctionsSeen = read.numFunctionsSeen
        BY <2>4, <3>1, <3>3 DEF DefineSpace
      <4>2. InTurn(sections, read.table, read.data, read.numSpacesSeen, read.numFunctionsSeen, next, 0)
        BY <2>5, <3>1
      <4>3. InTurn(sections, u, e, read.numSpacesSeen + 1, read.numFunctionsSeen, next, 1)
        <5> HIDE DEF sections, l
        <5>1. QED
          BY <2>1, <2>4, <3>1, <3>3, <4>2, SpaceInTurn
      <4> HIDE DEF u, e
      <4>4. QED
        BY <3>1, <4>1, <4>3 DEF ReadInTurn
    <3>4. QED
      BY <3>2, <3>3
  <2>8. CASE VisitFunction
    <3>1. inside > 0 /\ inside <= Len(sections[next].functions)
            /\ inside' = inside + 1 /\ next' = next
      BY <2>8 DEF VisitFunction
    <3>2. next \in DOMAIN sections /\ inside \in DOMAIN sections[next].functions
      <4>1. next \in DOMAIN sections
        BY <2>3, <3>1
      <4>2. /\ DOMAIN sections[next].functions = 1..Len(sections[next].functions)
            /\ Len(sections[next].functions) \in Nat
        BY <2>1, <4>1, SectionPositions
      <4>3. QED
        BY <2>2, <3>1, <4>1, <4>2
    <3> DEFINE l == FunctionLocation(next, inside)
               u == DefineSymbol(read.table, ShortAt(sections, next, inside), l, "function")
               of == sections[next].functions[inside].name
               e == Append(read.data, FunctionData(of, NoSpace, read.numFunctionsSeen))
    <3>3. /\ read'.table = u /\ read'.data = e
          /\ read'.numSpacesSeen = read.numSpacesSeen
          /\ read'.numFunctionsSeen = read.numFunctionsSeen + 1
      BY <2>4, <2>8 DEF VisitFunction, ShortAt
    <3>4. InTurn(sections, u, e, read.numSpacesSeen, read.numFunctionsSeen + 1, next, inside + 1)
      <4> HIDE DEF sections, l, of
      <4>1. QED
        BY <2>1, <2>4, <2>5, <3>2, FunctionInTurn
    <3> HIDE DEF u, e
    <3>5. QED
      BY <3>1, <3>3, <3>4 DEF ReadInTurn
  <2>9. CASE VisitExtensionspace
    <3>1. inside > 0 /\ inside > Len(sections[next].functions)
            /\ inside' = 0 /\ next' = next + 1
      BY <2>9 DEF VisitExtensionspace
    <3>2. next \in DOMAIN sections
      BY <2>3, <3>1
    <3> DEFINE there == FunctionsThere(read.table, sections, next)
               space == SpaceOf(read, sections[next])
               e == [i \in DOMAIN read.data |->
                       IF i \in there THEN [read.data[i] EXCEPT !.space = space] ELSE read.data[i]]
    <3>3. /\ read'.table = read.table /\ read'.data = e
          /\ read'.numSpacesSeen = read.numSpacesSeen
          /\ read'.numFunctionsSeen = read.numFunctionsSeen
      BY <2>4, <2>9 DEF VisitExtensionspace, FunctionsThere
    <3>4. there \in SUBSET OfType(read.table, "function")
      <4> HIDE DEF sections
      <4>1. QED
        BY <2>1, <2>2, <2>4, <3>1, <3>2, FunctionsThereAre
    <3>5. \A i \in OfType(read.table, "function") : DOMAIN read.data[i] = {"name", "space", "anchor"}
      BY <2>4 DEF SymbolsSeen, FunctionAt
    <3>6. e = [i \in DOMAIN read.data |->
                 IF i \in there THEN [read.data[i] EXCEPT !.space = space] ELSE read.data[i]]
      OBVIOUS
    <3> HIDE DEF sections, there, space, e
    <3>7. GivesSpace(read.table, read.data, e, there, space)
      BY <2>4, <3>4, <3>5, <3>6, SpaceIsGiven
    <3>8. InTurn(sections, read.table, e, read.numSpacesSeen, read.numFunctionsSeen, next + 1, 0)
      BY <2>1, <2>5, <3>2, <3>7, SectionInTurn
    <3>9. QED
      BY <3>1, <3>3, <3>8 DEF ReadInTurn
  <2>10. QED
    BY <1>3, <2>7, <2>8, <2>9 DEF Moves
<1>4. CASE stage \notin {"columns", "sections"}
  <2>1. read' = read
    BY <1>4 DEF Stays
  <2>2. stage \in AfterSections => text' = text
    BY DEF Stays, AfterSections
  <2>3. QED
    BY <1>1, <1>4, <2>1, <2>2 DEF OrderInv
<1>5. QED
  BY <1>2, <1>3, <1>4

LEMMA WordsInvMove ==
  ASSUME Sound, CallsInv, WordsInv, Moves, Stays
  PROVE  WordsInv'
<1>1. UNCHANGED <<plan, stage>> /\ DOMAIN back = {"spaces", "extensions", "columns", "calls"}
  BY DEF Stays, CallsInv, BackInv
<1>2. CASE stage = "uses"
  <2>1. PICK f : back' = [back EXCEPT !.calls =
                   Append(@, [path |-> plan.calls[next].path, function |-> f])]
    BY <1>2 DEF Moves, VisitExpressionFunctionUse
  <2> DEFINE new == Append(back.calls, [path |-> plan.calls[next].path, function |-> f])
  <2>2. IsSequence(back.calls) /\ Len(back.calls) = next - 1 /\ next \in Nat
    BY <1>2 DEF CallsInv, PlaceInv, BackInv, AfterSections, CallsBack
  <2>3. back'.calls = new /\ back'.columns = back.columns
    BY <1>1, <2>1
  <2>4. /\ IsSequence(new) /\ Len(new) = Len(back.calls) + 1
        /\ \A i \in DOMAIN back.calls : new[i] = back.calls[i]
        /\ new[Len(back.calls) + 1] = [path |-> plan.calls[next].path, function |-> f]
    BY <2>2, SequenceAppend
  <2>5. DOMAIN new = 1..(Len(back.calls) + 1) /\ DOMAIN back.calls = 1..Len(back.calls)
        /\ Len(back.calls) \in Nat
    BY <2>2, <2>4, SequenceHas
  <2> HIDE DEF new
  <2>6. ASSUME NEW c \in DOMAIN new
        PROVE  new[c] = [path |-> plan.calls[c].path, function |-> new[c].function]
    <3>1. CASE c = Len(back.calls) + 1
      <4>1. c = next
        BY <2>2, <2>5, <3>1
      <4>2. new[c] = [path |-> plan.calls[c].path, function |-> f]
        BY <2>4, <3>1, <4>1
      <4>3. QED
        BY <4>2
    <3>2. CASE c # Len(back.calls) + 1
      <4>1. c \in DOMAIN back.calls /\ new[c] = back.calls[c]
        BY <2>4, <2>5, <3>2
      <4>2. QED
        BY <4>1 DEF WordsInv
    <3>3. QED
      BY <3>1, <3>2
  <2>7. FieldsOnly(back')
    BY <1>1, <2>1 DEF FieldsOnly
  <2>8. QED
    BY <1>1, <2>3, <2>6, <2>7 DEF WordsInv
<1>3. CASE stage = "build"
  <2>1. back' = [back EXCEPT !.spaces     = SpacesToBinary(read.table, read.data),
                             !.extensions = FunctionsToBinary(read.table, read.data)]
    BY <1>3 DEF Moves, OutputToBinaryPlan
  <2>2. back'.calls = back.calls /\ back'.columns = back.columns
    BY <1>1, <2>1
  <2>3. FieldsOnly(back')
    BY <1>1, <2>1 DEF FieldsOnly
  <2>4. QED
    BY <1>1, <2>2, <2>3 DEF WordsInv
<1>4. CASE stage \notin {"uses", "build"}
  <2>1. back' = back
    BY <1>4 DEF Stays
  <2>2. QED
    BY <1>1, <2>1 DEF WordsInv
<1>5. QED
  BY <1>2, <1>3, <1>4

LEMMA OrderInvAlways ==
  ASSUME Sound
  PROVE  Spec => [](CallsInv /\ OrderInv /\ WordsInv)
<1> DEFINE Inv == CallsInv /\ OrderInv /\ WordsInv
<1>1. Init => Inv
  BY CallsInvInit, OrderInvInit
<1>2. Inv /\ [Next]_vars => Inv'
  <2> SUFFICES ASSUME Inv, [Next]_vars
               PROVE  Inv'
    OBVIOUS
  <2>1. CallsInv'
    BY CallsInvStep
  <2>2. CASE NextStage
    <3>1. UNCHANGED <<plan, back>>
      BY <2>2 DEF NextStage
    <3>2. WordsInv'
      BY <3>1 DEF WordsInv
    <3>3. QED
      BY <2>1, <2>2, <3>2, OrderInvStage
  <2>3. CASE Next /\ ~NextStage
    <3>1. Moves /\ Stays
      BY <2>3, StageMoves
    <3>2. QED
      BY <2>1, <3>1, OrderInvMove, WordsInvMove
  <2>4. CASE UNCHANGED vars
    <3>1. UNCHANGED <<plan, stage, next, inside, text, read, back>>
      BY <2>4 DEF vars
    <3>2. QED
      BY <2>1, <3>1 DEF OrderInv, WordsInv
  <2>5. QED
    BY <2>2, <2>3, <2>4
<1>3. QED
  BY <1>1, <1>2, PTL DEF Spec

-----------------------------------------------------------------------------
(***************************************************************************)
(* What is built from the parser's table.                                  *)
(***************************************************************************)

\* A list has every element of a set once.
Lists(all, S) ==
  /\ IsSequence(all)
  /\ \A k \in DOMAIN all : all[k] \in S
  /\ \A k, l \in DOMAIN all : all[k] = all[l] => k = l
  /\ \A x \in S : \E k \in DOMAIN all : all[k] = x

SpaceOfSymbol(t, d, j) == [anchor |-> d[j].anchor, uri |-> t.symbols[j].name]

FunctionOfSymbol(t, d, i) ==
  [ kind |-> "function", name |-> d[i].name, anchor |-> d[i].anchor, space |-> SpaceWritten(t, d, i) ]

\* Function i is written before function j.
WrittenBefore(d, i, j) ==
  \/ d[i].space # NoSpace /\ (d[j].space = NoSpace \/ d[i].space < d[j].space)
  \/ d[i].space = d[j].space /\ i < j

SpacesFrom(all, t, d, b) ==
  /\ Lists(all, OfType(t, "space"))
  /\ \A k, l \in DOMAIN all : k < l => all[k] < all[l]
  /\ IsSequence(b.spaces) /\ DOMAIN b.spaces = DOMAIN all
  /\ \A k \in DOMAIN all : b.spaces[k] = SpaceOfSymbol(t, d, all[k])

FunctionsFrom(all, t, d, b) ==
  /\ Lists(all, OfType(t, "function"))
  /\ \A k, l \in DOMAIN all : k < l => all[k] # all[l] /\ ~WrittenBefore(d, all[l], all[k])
  /\ IsSequence(b.extensions) /\ DOMAIN b.extensions = DOMAIN all
  /\ \A k \in DOMAIN all : b.extensions[k] = FunctionOfSymbol(t, d, all[k])

LEMMA SpacesBuilt ==
  ASSUME NEW t, NEW d, Tabled(t, d), NEW b, b.spaces = SpacesToBinary(t, d)
  PROVE  \E all : SpacesFrom(all, t, d, b)
<1> DEFINE S == OfType(t, "space")
           R == Ordered(S, <)
           all == Sorted(S, R)
<1>1. b.spaces = [k \in DOMAIN all |-> SpaceOfSymbol(t, d, all[k])]
  BY DEF SpacesToBinary, InOrder, SpaceOfSymbol
<1>2. S \in SUBSET Int /\ IsFiniteSet(S)
  BY SymbolPositions
<1>3. IsStrictOrder(S, R)
  BY <1>2, NumbersOrdered
<1>4. \A x, y \in S : <<x, y>> \in R <=> x < y
  BY DEF Ordered
<1> HIDE DEF S, R
<1>5. /\ IsSequence(all) /\ DOMAIN all = 1..Cardinality(S) /\ Cardinality(S) \in Nat
      /\ \A k \in DOMAIN all : all[k] \in S
      /\ \A k, l \in DOMAIN all : all[k] = all[l] => k = l
      /\ \A j \in S : \E k \in DOMAIN all : all[k] = j
  BY <1>2, <1>3, SortedIs
<1>6. \A k, l \in DOMAIN all : k < l => all[k] # all[l] /\ <<all[l], all[k]>> \notin R
  BY <1>2, <1>3, SortedAscends
<1> HIDE DEF all
<1>7. ASSUME NEW k \in DOMAIN all, NEW l \in DOMAIN all, k < l
      PROVE  all[k] < all[l]
  <2>1. all[k] \in S /\ all[l] \in S /\ all[k] # all[l] /\ <<all[l], all[k]>> \notin R
    BY <1>5, <1>6, <1>7
  <2>2. all[k] \in Int /\ all[l] \in Int /\ ~(all[l] < all[k])
    BY <1>2, <1>4, <2>1
  <2>3. QED
    BY <2>1, <2>2
<1>8. DOMAIN b.spaces = DOMAIN all /\ \A k \in DOMAIN all : b.spaces[k] = SpaceOfSymbol(t, d, all[k])
  BY <1>1
<1>9. IsSequence(b.spaces)
  BY <1>1, <1>5, ListIsSequence
<1>10. Lists(all, S)
  BY <1>5 DEF Lists
<1>11. SpacesFrom(all, t, d, b)
  BY <1>7, <1>8, <1>9, <1>10 DEF SpacesFrom, S
<1>12. QED
  BY <1>11

LEMMA FunctionsBuilt ==
  ASSUME NEW t, NEW d, Tabled(t, d), \A i \in OfType(t, "function") : d[i].space \in Int,
         NEW b, b.extensions = FunctionsToBinary(t, d)
  PROVE  \E all : FunctionsFrom(all, t, d, b)
<1> DEFINE F == OfType(t, "function")
           R == Ordered(F, LAMBDA x, y :
                  \/ d[x].space # NoSpace /\ (d[y].space = NoSpace \/ d[x].space < d[y].space)
                  \/ d[x].space = d[y].space /\ x < y)
           all == Sorted(F, R)
<1>1. b.extensions = [k \in DOMAIN all |-> FunctionOfSymbol(t, d, all[k])]
  BY DEF FunctionsToBinary, FunctionOfSymbol, SpaceWritten
<1>2. F \in SUBSET Int /\ IsFiniteSet(F)
  BY SymbolPositions
<1>3. \A x \in F : d[x].space \in Int
  OBVIOUS
<1>4. \A x, y \in F : <<x, y>> \in R <=> WrittenBefore(d, x, y)
  BY DEF Ordered, WrittenBefore
<1> HIDE DEF F, R
<1>5. IsStrictOrder(F, R)
  <2>1. \A x \in F : <<x, x>> \notin R
    BY <1>2, <1>3, <1>4 DEF WrittenBefore
  <2>2. ASSUME NEW x \in F, NEW y \in F, NEW z \in F, <<x, y>> \in R, <<y, z>> \in R
        PROVE  <<x, z>> \in R
    BY <1>2, <1>3, <1>4, <2>2 DEF WrittenBefore
  <2>3. QED
    BY <2>1, <2>2 DEF IsStrictOrder
<1>6. /\ IsSequence(all) /\ DOMAIN all = 1..Cardinality(F) /\ Cardinality(F) \in Nat
      /\ \A k \in DOMAIN all : all[k] \in F
      /\ \A k, l \in DOMAIN all : all[k] = all[l] => k = l
      /\ \A j \in F : \E k \in DOMAIN all : all[k] = j
  BY <1>2, <1>5, SortedIs
<1>7. \A k, l \in DOMAIN all : k < l => all[k] # all[l] /\ <<all[l], all[k]>> \notin R
  BY <1>2, <1>5, SortedAscends
<1> HIDE DEF all
<1>8. \A k, l \in DOMAIN all : k < l => all[k] # all[l] /\ ~WrittenBefore(d, all[l], all[k])
  BY <1>4, <1>6, <1>7
<1>9. DOMAIN b.extensions = DOMAIN all
      /\ \A k \in DOMAIN all : b.extensions[k] = FunctionOfSymbol(t, d, all[k])
  BY <1>1
<1>10. IsSequence(b.extensions)
  BY <1>1, <1>6, ListIsSequence
<1>11. Lists(all, F)
  BY <1>6 DEF Lists
<1>12. FunctionsFrom(all, t, d, b)
  BY <1>8, <1>9, <1>10, <1>11 DEF FunctionsFrom, F
<1>13. QED
  BY <1>12

\* Every function the parser knows is of the plan, and is found by the name it
\* was given.
LEMMA FunctionsKnown ==
  ASSUME NEW p, NEW sections, Placed(p, sections),
         NEW r, ParsedAs(sections, r, Len(sections) + 1, 0), NEW i \in OfType(r.table, "function")
  PROVE  \E e \in DOMAIN p.extensions : i = LookupSymbolByName(r.table, ShortNumbered(p, e))
<1>1. SymbolsSeen(sections, r.table, r.data, Len(sections) + 1, 0)
  BY DEF ParsedAs, Parsed
<1>2. PICK s \in DOMAIN sections : \E k \in DOMAIN sections[s].functions :
        FunctionAt(sections, r.table, r.data, i, s, k)
  BY <1>1 DEF SymbolsSeen
<1>3. PICK k \in DOMAIN sections[s].functions : FunctionAt(sections, r.table, r.data, i, s, k)
  BY <1>2
<1>4. PICK e \in DOMAIN p.extensions : PrintedAt(p, sections, s, k, e)
  BY DEF Placed
<1>5. LookupSymbolByName(r.table, ShortNumbered(p, e)) = i
  BY <1>3, <1>4 DEF FunctionAt, ShortAt, PrintedAt, LookupSymbolByName
<1>6. QED
  BY <1>5

\* The parser knows the spaces of the plan that have functions.
LEMMA SpacesKnown ==
  ASSUME NEW p, IsCalling(p), Consistent(p), SpacesUsed(p),
         NEW sections, Placed(p, sections), UrisDiffer(sections),
         NEW r, ParsedAs(sections, r, Len(sections) + 1, 0),
         ReadInTurn(sections, r, Len(sections) + 1, 0)
  PROVE  LET S == OfType(r.table, "space")
             name(j) == r.table.symbols[j].name
         IN /\ \A j \in S : name(j) # NoUri /\ \E s \in DOMAIN p.spaces : name(j) = p.spaces[s].uri
            /\ \A s \in DOMAIN p.spaces : \E j \in S : name(j) = p.spaces[s].uri
            /\ \A i, j \in S : name(i) = name(j) => i = j
<1> DEFINE t == r.table
           S == OfType(t, "space")
           name(j) == t.symbols[j].name
<1>1. /\ SpacesEntered(sections, t, Len(sections) + 1, 0)
      /\ SpacesFollow(sections, t)
  BY DEF ReadInTurn, InTurn
<1>2. \A j \in S : name(j) # NoUri /\ \E k \in DOMAIN sections : sections[k].uri = name(j)
  BY <1>1 DEF SpacesEntered
<1>3. Tabled(t, r.data)
  BY DEF ParsedAs, Parsed
<1>4. S \in SUBSET Nat
  BY <1>3, SymbolPositions
<1>5. \A j \in S : \E s \in DOMAIN p.spaces : name(j) = p.spaces[s].uri
  BY <1>2 DEF Placed
<1>6. ASSUME NEW s \in DOMAIN p.spaces
      PROVE  \E j \in S : name(j) = p.spaces[s].uri
  <2>1. PICK e \in DOMAIN p.extensions : p.extensions[e].space = p.spaces[s].anchor
    BY DEF SpacesUsed
  <2>2. AnchorsApart(p.spaces)
    BY DEF Consistent
  <2>3. UriOf(p, p.extensions[e].space) = p.spaces[s].uri
    BY <2>1, <2>2, UriIs
  <2>4. p.spaces[s].uri # NoUri
    BY CallingHas
  <2>5. \E space : SpaceGiven(t, r.data, p.spaces[s].uri, space)
    BY <2>3, FunctionComesBack
  <2>6. QED
    BY <2>4, <2>5 DEF SpaceGiven, SpaceNumbered
<1>7. ASSUME NEW i \in S, NEW j \in S, name(i) = name(j)
      PROVE  i = j
  <2>1. PICK k \in DOMAIN sections : sections[k].uri = name(i)
    BY <1>2
  <2>2. k \in Nat
    BY SequenceHas DEF Placed
  <2>3. ~(i < j) /\ ~(j < i)
    BY <1>1, <1>7, <2>1, <2>2 DEF SpacesFollow
  <2>4. i \in Nat /\ j \in Nat
    BY <1>4
  <2>5. QED
    BY <2>3, <2>4
<1>8. QED
  BY <1>2, <1>5, <1>6, <1>7

\* The number a function is written with is that of a space.
LEMMA SpaceIsWritten ==
  ASSUME NEW p, NEW sections, Placed(p, sections),
         NEW r, ParsedAs(sections, r, Len(sections) + 1, 0), NEW i \in OfType(r.table, "function")
  PROVE  \/ SpaceWritten(r.table, r.data, i) = Unset
         \/ \E j \in OfType(r.table, "space") : SpaceWritten(r.table, r.data, i) = r.data[j].anchor
<1>1. PICK e \in DOMAIN p.extensions : i = LookupSymbolByName(r.table, ShortNumbered(p, e))
  BY FunctionsKnown
<1>2. SpaceGiven(r.table, r.data, UriOf(p, p.extensions[e].space), r.data[i].space)
  BY <1>1, FunctionComesBack
<1>3. CASE UriOf(p, p.extensions[e].space) = NoUri
  BY <1>2, <1>3 DEF SpaceGiven, SpaceWritten
<1>4. CASE UriOf(p, p.extensions[e].space) # NoUri
  <2>1. \E j \in OfType(r.table, "space") : r.data[j].anchor = r.data[i].space
    BY <1>2, <1>4 DEF SpaceGiven, SpaceNumbered
  <2>2. QED
    BY <2>1 DEF SpaceWritten
<1>5. QED
  BY <1>3, <1>4

\* Calls are from where they were.
WordsKept(p, b) ==
  /\ b.columns = p.columns
  /\ \A c \in DOMAIN b.calls :
       b.calls[c] = [path |-> p.calls[c].path, function |-> b.calls[c].function]

\* What comes back is built from a text of the plan, read to its end.
BuiltFrom(p, sections, r, b) ==
  /\ Placed(p, sections) /\ UrisDiffer(sections)
  /\ ParsedAs(sections, r, Len(sections) + 1, 0)
  /\ ReadInTurn(sections, r, Len(sections) + 1, 0)
  /\ DOMAIN b = {"spaces", "extensions", "columns", "calls"}
  /\ b.spaces = SpacesToBinary(r.table, r.data)
  /\ b.extensions = FunctionsToBinary(r.table, r.data)
  /\ CallsBack(p, r, b.calls, Len(p.calls)) /\ WordsKept(p, b)

LEMMA SpacesComeBack ==
  ASSUME NEW p, IsCalling(p), Consistent(p), SpacesUsed(p), NEW sections, NEW r, NEW b,
         BuiltFrom(p, sections, r, b)
  PROVE  /\ IsSequence(b.spaces) /\ AnchorsApart(b.spaces)
         /\ \A k \in DOMAIN b.spaces :
              /\ DOMAIN b.spaces[k] = {"anchor", "uri"}
              /\ b.spaces[k].anchor \in Nat /\ b.spaces[k].uri # NoUri
              /\ \E s \in DOMAIN p.spaces : b.spaces[k].uri = p.spaces[s].uri
         /\ \A s \in DOMAIN p.spaces : \E k \in DOMAIN b.spaces : b.spaces[k].uri = p.spaces[s].uri
         /\ \A k, l \in DOMAIN b.spaces : b.spaces[k].uri = b.spaces[l].uri => k = l
         /\ \A j \in OfType(r.table, "space") : \E k \in DOMAIN b.spaces :
              b.spaces[k].anchor = r.data[j].anchor
<1> DEFINE t == r.table
           d == r.data
           S == OfType(t, "space")
           name(j) == t.symbols[j].name
<1>1. Tabled(t, d) /\ SpacesNumbered(t, d, r.numSpacesSeen) /\ b.spaces = SpacesToBinary(t, d)
  BY DEF BuiltFrom, ParsedAs, Parsed
<1>2. PICK all : SpacesFrom(all, t, d, b)
  BY <1>1, SpacesBuilt
<1>3. /\ \A j \in S : name(j) # NoUri /\ \E s \in DOMAIN p.spaces : name(j) = p.spaces[s].uri
      /\ \A s \in DOMAIN p.spaces : \E j \in S : name(j) = p.spaces[s].uri
      /\ \A i, j \in S : name(i) = name(j) => i = j
  BY SpacesKnown DEF BuiltFrom
<1>4. /\ \A j \in S : d[j].anchor \in Nat
      /\ \A i, j \in S : d[i].anchor = d[j].anchor => i = j
  BY <1>1 DEF SpacesNumbered
<1> HIDE DEF t, d, name
<1>5. /\ IsSequence(b.spaces) /\ DOMAIN b.spaces = DOMAIN all
      /\ \A k \in DOMAIN all : all[k] \in S
      /\ \A k, l \in DOMAIN all : all[k] = all[l] => k = l
      /\ \A j \in S : \E k \in DOMAIN all : all[k] = j
  BY <1>2 DEF SpacesFrom, Lists, S
<1>6. \A k \in DOMAIN all : b.spaces[k] = [anchor |-> d[all[k]].anchor, uri |-> name(all[k])]
  BY <1>2 DEF SpacesFrom, SpaceOfSymbol, name
<1> HIDE DEF S
<1>7. \A k \in DOMAIN all : /\ DOMAIN b.spaces[k] = {"anchor", "uri"}
                            /\ b.spaces[k].anchor = d[all[k]].anchor
                            /\ b.spaces[k].uri = name(all[k])
  <2>1. ASSUME NEW k \in DOMAIN all
        PROVE  /\ DOMAIN b.spaces[k] = {"anchor", "uri"}
               /\ b.spaces[k].anchor = d[all[k]].anchor
               /\ b.spaces[k].uri = name(all[k])
    <3>1. b.spaces[k] = [anchor |-> d[all[k]].anchor, uri |-> name(all[k])]
      BY <1>6
    <3>2. QED
      BY <3>1
  <2>2. QED
    BY <2>1
<1>8. AnchorsApart(b.spaces)
  BY <1>4, <1>5, <1>7 DEF AnchorsApart
<1>9. \A k \in DOMAIN b.spaces :
        /\ DOMAIN b.spaces[k] = {"anchor", "uri"}
        /\ b.spaces[k].anchor \in Nat /\ b.spaces[k].uri # NoUri
        /\ \E s \in DOMAIN p.spaces : b.spaces[k].uri = p.spaces[s].uri
  BY <1>3, <1>4, <1>5, <1>7
<1>10. ASSUME NEW s \in DOMAIN p.spaces
       PROVE  \E k \in DOMAIN b.spaces : b.spaces[k].uri = p.spaces[s].uri
  <2>1. PICK j \in S : name(j) = p.spaces[s].uri
    BY <1>3
  <2>2. PICK k \in DOMAIN all : all[k] = j
    BY <1>5
  <2>3. QED
    BY <1>5, <1>7, <2>1, <2>2
<1>11. \A k, l \in DOMAIN b.spaces : b.spaces[k].uri = b.spaces[l].uri => k = l
  BY <1>3, <1>5, <1>7
<1>12. \A j \in S : \E k \in DOMAIN b.spaces : b.spaces[k].anchor = d[j].anchor
  BY <1>5, <1>7
<1>13. QED
  BY <1>5, <1>8, <1>9, <1>10, <1>11, <1>12 DEF S, t, d

LEMMA FunctionsComeBack ==
  ASSUME NEW p, IsCalling(p), Consistent(p), IsDistinct(p), NEW sections, NEW r, NEW b,
         BuiltFrom(p, sections, r, b)
  PROVE  /\ IsSequence(b.extensions) /\ AnchorsApart(b.extensions)
         /\ \A k \in DOMAIN b.extensions :
              /\ DOMAIN b.extensions[k] = {"kind", "space", "name", "anchor"}
              /\ b.extensions[k].kind = "function" /\ b.extensions[k].anchor \in Nat
              /\ \/ b.extensions[k].space = Unset
                 \/ \E j \in OfType(r.table, "space") : b.extensions[k].space = r.data[j].anchor
              /\ \E e \in DOMAIN p.extensions : FunctionOf(b, k) = FunctionOf(p, e)
         /\ \A e \in DOMAIN p.extensions : \E k \in DOMAIN b.extensions :
              FunctionOf(b, k) = FunctionOf(p, e)
         /\ \A k, l \in DOMAIN b.extensions : FunctionOf(b, k) = FunctionOf(b, l) => k = l
         /\ \A i \in OfType(r.table, "function") : \E k \in DOMAIN b.extensions :
              b.extensions[k].anchor = r.data[i].anchor
<1> DEFINE t == r.table
           d == r.data
           F == OfType(t, "function")
           found(e) == LookupSymbolByName(t, ShortNumbered(p, e))
<1>1. /\ Tabled(t, d) /\ FunctionsNumbered(t, d, r.numFunctionsSeen)
      /\ b.extensions = FunctionsToBinary(t, d)
  BY DEF BuiltFrom, ParsedAs, Parsed
<1>2. \A i \in F : d[i].space \in Int
  BY SpacesAreNumbers DEF BuiltFrom
<1>3. PICK all : FunctionsFrom(all, t, d, b)
  BY <1>1, <1>2, FunctionsBuilt
<1>4. \A i \in F : \E e \in DOMAIN p.extensions : i = found(e)
  <2>1. Placed(p, sections) /\ ParsedAs(sections, r, Len(sections) + 1, 0)
    BY DEF BuiltFrom
  <2>2. \A i \in OfType(r.table, "function") : \E e \in DOMAIN p.extensions :
          i = LookupSymbolByName(r.table, ShortNumbered(p, e))
    BY <2>1, FunctionsKnown
  <2>3. QED
    BY <2>2
<1>5. \A e \in DOMAIN p.extensions : found(e) \in F /\ Function(b, d[found(e)].anchor) = FunctionOf(p, e)
  BY CallMeansWhatItDid DEF BuiltFrom, CallMeans
<1>6. \A i \in F : \/ SpaceWritten(t, d, i) = Unset
                   \/ \E j \in OfType(t, "space") : SpaceWritten(t, d, i) = d[j].anchor
  BY SpaceIsWritten DEF BuiltFrom
<1>7. /\ \A i \in F : d[i].anchor \in Nat
      /\ \A i, j \in F : d[i].anchor = d[j].anchor => i = j
  BY <1>1 DEF FunctionsNumbered
<1> HIDE DEF t, d, found
<1>8. /\ IsSequence(b.extensions) /\ DOMAIN b.extensions = DOMAIN all
      /\ \A k \in DOMAIN all : all[k] \in F
      /\ \A k, l \in DOMAIN all : all[k] = all[l] => k = l
      /\ \A i \in F : \E k \in DOMAIN all : all[k] = i
  BY <1>3 DEF FunctionsFrom, Lists, F
<1>9. \A k \in DOMAIN all :
        b.extensions[k] = [ kind |-> "function", name |-> d[all[k]].name, anchor |-> d[all[k]].anchor,
                            space |-> SpaceWritten(t, d, all[k]) ]
  BY <1>3 DEF FunctionsFrom, FunctionOfSymbol
<1>10. \A k \in DOMAIN all : /\ DOMAIN b.extensions[k] = {"kind", "space", "name", "anchor"}
                             /\ b.extensions[k].kind = "function"
                             /\ b.extensions[k].anchor = d[all[k]].anchor
                             /\ b.extensions[k].space = SpaceWritten(t, d, all[k])
  <2>1. ASSUME NEW k \in DOMAIN all
        PROVE  /\ DOMAIN b.extensions[k] = {"kind", "space", "name", "anchor"}
               /\ b.extensions[k].kind = "function"
               /\ b.extensions[k].anchor = d[all[k]].anchor
               /\ b.extensions[k].space = SpaceWritten(t, d, all[k])
    <3>1. b.extensions[k] =
            [ kind |-> "function", name |-> d[all[k]].name, anchor |-> d[all[k]].anchor,
              space |-> SpaceWritten(t, d, all[k]) ]
      BY <1>9
    <3>2. QED
      BY <3>1
  <2>2. QED
    BY <2>1
<1> HIDE DEF F
<1>11. AnchorsApart(b.extensions)
  BY <1>7, <1>8, <1>10 DEF AnchorsApart
<1>12. \A k \in DOMAIN all : Function(b, d[all[k]].anchor) = FunctionOf(b, k)
  BY <1>8, <1>10, <1>11, FunctionIs
<1>13. ASSUME NEW k \in DOMAIN all
       PROVE  \E e \in DOMAIN p.extensions : all[k] = found(e) /\ FunctionOf(b, k) = FunctionOf(p, e)
  <2>1. PICK e \in DOMAIN p.extensions : all[k] = found(e)
    BY <1>4, <1>8
  <2>2. FunctionOf(b, k) = FunctionOf(p, e)
    BY <1>5, <1>12, <2>1
  <2>3. QED
    BY <2>1, <2>2
<1>14. ASSUME NEW e \in DOMAIN p.extensions
       PROVE  \E k \in DOMAIN all : FunctionOf(b, k) = FunctionOf(p, e)
  <2>1. PICK k \in DOMAIN all : all[k] = found(e)
    BY <1>5, <1>8
  <2>2. QED
    BY <1>5, <1>12, <2>1
<1>15. ASSUME NEW k \in DOMAIN all, NEW l \in DOMAIN all, FunctionOf(b, k) = FunctionOf(b, l)
       PROVE  k = l
  <2>1. PICK e \in DOMAIN p.extensions : all[k] = found(e) /\ FunctionOf(b, k) = FunctionOf(p, e)
    BY <1>13
  <2>2. PICK f \in DOMAIN p.extensions : all[l] = found(f) /\ FunctionOf(b, l) = FunctionOf(p, f)
    BY <1>13
  <2>3. e = f
    BY <1>15, <2>1, <2>2 DEF IsDistinct
  <2>4. QED
    BY <1>8, <2>1, <2>2, <2>3
<1>16. \A k \in DOMAIN b.extensions :
         /\ DOMAIN b.extensions[k] = {"kind", "space", "name", "anchor"}
         /\ b.extensions[k].kind = "function" /\ b.extensions[k].anchor \in Nat
         /\ \/ b.extensions[k].space = Unset
            \/ \E j \in OfType(t, "space") : b.extensions[k].space = d[j].anchor
  BY <1>6, <1>7, <1>8, <1>10
<1>17. \A i \in F : \E k \in DOMAIN b.extensions : b.extensions[k].anchor = d[i].anchor
  BY <1>8, <1>10
<1>18. QED
  BY <1>8, <1>11, <1>13, <1>14, <1>15, <1>16, <1>17 DEF F, t, d

\* What comes back from a text is the plan, in another order and with other
\* numbers.
LEMMA PlanComesBack ==
  ASSUME NEW p, IsCalling(p), Consistent(p), IsDistinct(p), SpacesUsed(p),
         NEW sections, NEW r, NEW b, BuiltFrom(p, sections, r, b)
  PROVE  IsCalling(b) /\ Consistent(b) /\ IsDistinct(b) /\ SameContent(b, p)
<1>1. /\ IsSequence(b.spaces) /\ AnchorsApart(b.spaces)
      /\ \A k \in DOMAIN b.spaces :
           /\ DOMAIN b.spaces[k] = {"anchor", "uri"}
           /\ b.spaces[k].anchor \in Nat /\ b.spaces[k].uri # NoUri
           /\ \E s \in DOMAIN p.spaces : b.spaces[k].uri = p.spaces[s].uri
      /\ \A s \in DOMAIN p.spaces : \E k \in DOMAIN b.spaces : b.spaces[k].uri = p.spaces[s].uri
      /\ \A k, l \in DOMAIN b.spaces : b.spaces[k].uri = b.spaces[l].uri => k = l
      /\ \A j \in OfType(r.table, "space") : \E k \in DOMAIN b.spaces :
           b.spaces[k].anchor = r.data[j].anchor
  BY SpacesComeBack
<1>2. /\ IsSequence(b.extensions) /\ AnchorsApart(b.extensions)
      /\ \A k \in DOMAIN b.extensions :
           /\ DOMAIN b.extensions[k] = {"kind", "space", "name", "anchor"}
           /\ b.extensions[k].kind = "function" /\ b.extensions[k].anchor \in Nat
           /\ \/ b.extensions[k].space = Unset
              \/ \E j \in OfType(r.table, "space") : b.extensions[k].space = r.data[j].anchor
           /\ \E e \in DOMAIN p.extensions : FunctionOf(b, k) = FunctionOf(p, e)
      /\ \A e \in DOMAIN p.extensions : \E k \in DOMAIN b.extensions :
           FunctionOf(b, k) = FunctionOf(p, e)
      /\ \A k, l \in DOMAIN b.extensions : FunctionOf(b, k) = FunctionOf(b, l) => k = l
      /\ \A i \in OfType(r.table, "function") : \E k \in DOMAIN b.extensions :
           b.extensions[k].anchor = r.data[i].anchor
  BY FunctionsComeBack
<1>3. \A k \in DOMAIN b.extensions :
        \/ b.extensions[k].space = Unset
        \/ \E s \in DOMAIN b.spaces : b.spaces[s].anchor = b.extensions[k].space
  <2> SUFFICES ASSUME NEW k \in DOMAIN b.extensions, b.extensions[k].space # Unset
               PROVE  \E s \in DOMAIN b.spaces : b.spaces[s].anchor = b.extensions[k].space
    OBVIOUS
  <2>1. PICK j \in OfType(r.table, "space") : b.extensions[k].space = r.data[j].anchor
    BY <1>2
  <2>2. QED
    BY <1>1, <2>1
<1>4. \A k \in DOMAIN b.extensions : b.extensions[k].space \in Nat
  BY <1>1, <1>3 DEF Unset
<1>5. /\ IsSequence(b.calls) /\ DOMAIN b.calls = DOMAIN p.calls
      /\ b.columns = p.columns /\ IsSequence(b.columns)
  <2>1. /\ IsSequence(b.calls) /\ Len(b.calls) = Len(p.calls)
        /\ IsSequence(p.calls) /\ IsSequence(p.columns) /\ b.columns = p.columns
    BY DEF BuiltFrom, CallsBack, WordsKept, IsCalling
  <2>2. QED
    BY <2>1, SequenceHas
<1>6. ASSUME NEW c \in DOMAIN b.calls
      PROVE  /\ DOMAIN b.calls[c] = {"path", "function"} /\ b.calls[c].function \in Nat
             /\ b.calls[c].path = p.calls[c].path
             /\ \E k \in DOMAIN b.extensions : b.extensions[k].anchor = b.calls[c].function
  <2>1. b.calls[c] = [path |-> p.calls[c].path, function |-> b.calls[c].function]
    BY DEF BuiltFrom, WordsKept
  <2>2. DOMAIN b.calls[c] = {"path", "function"} /\ b.calls[c].path = p.calls[c].path
    BY <2>1
  <2>3. PICK e \in DOMAIN p.extensions : p.extensions[e].anchor = p.calls[c].function
    BY <1>5 DEF Consistent
  <2>4. c \in 1..Len(p.calls)
    BY <1>5, SequenceHas DEF IsCalling
  <2>5. b.calls[c].function = r.data[LookupSymbolByName(r.table, ShortNumbered(p, e))].anchor
    BY <2>3, <2>4 DEF BuiltFrom, CallsBack
  <2>6. LookupSymbolByName(r.table, ShortNumbered(p, e)) \in OfType(r.table, "function")
    BY FunctionComesBack DEF BuiltFrom
  <2>7. PICK k \in DOMAIN b.extensions : b.extensions[k].anchor = b.calls[c].function
    BY <1>2, <2>5, <2>6
  <2>8. QED
    BY <1>2, <2>2, <2>7
<1>7. IsCalling(b)
  <2>1. \A s \in ToSet(b.spaces) : DOMAIN s = {"anchor", "uri"} /\ s.anchor \in Nat /\ s.uri # NoUri
    <3>1. \A k \in DOMAIN b.spaces :
            /\ DOMAIN b.spaces[k] = {"anchor", "uri"}
            /\ b.spaces[k].anchor \in Nat /\ b.spaces[k].uri # NoUri
      BY <1>1
    <3>2. ASSUME NEW s \in ToSet(b.spaces)
          PROVE  DOMAIN s = {"anchor", "uri"} /\ s.anchor \in Nat /\ s.uri # NoUri
      <4>1. PICK k \in DOMAIN b.spaces : b.spaces[k] = s
        BY PlacesOf
      <4>2. QED
        BY <3>1, <4>1
    <3>3. QED
      BY <3>2
  <2>2. \A f \in ToSet(b.extensions) :
          DOMAIN f = {"kind", "space", "name", "anchor"} /\ f.space \in Nat /\ f.anchor \in Nat
    <3>1. \A k \in DOMAIN b.extensions :
            /\ DOMAIN b.extensions[k] = {"kind", "space", "name", "anchor"}
            /\ b.extensions[k].space \in Nat /\ b.extensions[k].anchor \in Nat
      BY <1>2, <1>4
    <3>2. ASSUME NEW f \in ToSet(b.extensions)
          PROVE  DOMAIN f = {"kind", "space", "name", "anchor"} /\ f.space \in Nat /\ f.anchor \in Nat
      <4>1. PICK k \in DOMAIN b.extensions : b.extensions[k] = f
        BY PlacesOf
      <4>2. QED
        BY <3>1, <4>1
    <3>3. QED
      BY <3>2
  <2>3. \A c \in ToSet(b.calls) : DOMAIN c = {"path", "function"} /\ c.function \in Nat
    BY <1>6 DEF ToSet
  <2>4. DOMAIN b = {"spaces", "extensions", "columns", "calls"}
    BY DEF BuiltFrom
  <2>5. QED
    BY <1>1, <1>2, <1>5, <2>1, <2>2, <2>3, <2>4 DEF IsCalling
<1>8. Consistent(b)
  <2>1. \A c \in DOMAIN b.calls : Follows(b.calls[c].path)
    BY <1>5, <1>6 DEF Consistent
  <2>2. QED
    BY <1>1, <1>2, <1>3, <1>6, <2>1 DEF Consistent
<1>9. IsDistinct(b)
  <2>1. \A k \in DOMAIN b.spaces : b.spaces[k].uri \in ToSet(Uris)
    BY <1>1 DEF IsDistinct
  <2>2. \A k \in DOMAIN b.extensions : b.extensions[k].name \in ToSet(Names)
    <3> SUFFICES ASSUME NEW k \in DOMAIN b.extensions
                 PROVE  b.extensions[k].name \in ToSet(Names)
      OBVIOUS
    <3>1. PICK e \in DOMAIN p.extensions : FunctionOf(b, k) = FunctionOf(p, e)
      BY <1>2
    <3>2. b.extensions[k].name = p.extensions[e].name
      BY <3>1 DEF FunctionOf
    <3>3. QED
      BY <3>2 DEF IsDistinct
  <2>3. QED
    BY <1>1, <1>2, <2>1, <2>2 DEF IsDistinct
<1>10. SameElements(UrisOf(b), UrisOf(p))
  <2>1. /\ DOMAIN UrisOf(b) = DOMAIN b.spaces /\ \A k \in DOMAIN b.spaces : UrisOf(b)[k] = b.spaces[k].uri
        /\ DOMAIN UrisOf(p) = DOMAIN p.spaces /\ \A s \in DOMAIN p.spaces : UrisOf(p)[s] = p.spaces[s].uri
    BY DEF UrisOf
  <2>2. QED
    BY <1>1, <2>1 DEF SameElements, ToSet
<1>11. SameElements(FunctionsIn(b), FunctionsIn(p))
  <2>1. /\ DOMAIN FunctionsIn(b) = DOMAIN b.extensions
        /\ \A k \in DOMAIN b.extensions : FunctionsIn(b)[k] = FunctionOf(b, k)
        /\ DOMAIN FunctionsIn(p) = DOMAIN p.extensions
        /\ \A e \in DOMAIN p.extensions : FunctionsIn(p)[e] = FunctionOf(p, e)
    BY DEF FunctionsIn
  <2>2. \A k \in DOMAIN b.extensions : \E e \in DOMAIN p.extensions : FunctionOf(b, k) = FunctionOf(p, e)
    BY <1>2
  <2>3. \A e \in DOMAIN p.extensions : \E k \in DOMAIN b.extensions : FunctionOf(b, k) = FunctionOf(p, e)
    BY <1>2
  <2>4. QED
    BY <2>1, <2>2, <2>3 DEF SameElements, ToSet
<1>12. Meaning(b) = Meaning(p)
  BY MeaningComesBack DEF BuiltFrom
<1>13. SameContent(b, p)
  BY <1>5, <1>6, <1>10, <1>11, <1>12 DEF SameContent, SameCalls
<1>14. QED
  BY <1>7, <1>8, <1>9, <1>13

LEMMA BackIsBuilt ==
  ASSUME Sound, CallsInv, OrderInv, WordsInv, Passed("build")
  PROVE  BuiltFrom(plan, text.sections, read, back)
<1>1. stage \in {"again", "done"}
  BY StagesPlaced DEF Passed, CallsInv, NormalInv, AStage
<1>2. Placed(plan, text.sections) /\ UrisDiffer(text.sections)
  BY <1>1, TextIsPlaced, TextIsApart DEF BeforeColumns, BeforePrint, BeforeCalls
<1>3. /\ ParsedAs(text.sections, read, Len(text.sections) + 1, 0)
      /\ CallsBack(plan, read, back.calls, Len(plan.calls))
      /\ DOMAIN back = {"spaces", "extensions", "columns", "calls"}
      /\ back.spaces = SpacesToBinary(read.table, read.data)
      /\ back.extensions = FunctionsToBinary(read.table, read.data)
  BY <1>1 DEF CallsInv, ParserInv, BackInv, AfterSections
<1>4. ReadInTurn(text.sections, read, Len(text.sections) + 1, 0)
  BY <1>1 DEF OrderInv, AfterSections
<1>5. WordsKept(plan, back)
  BY DEF WordsInv, WordsKept
<1>6. QED
  BY <1>2, <1>3, <1>4, <1>5 DEF BuiltFrom

\* No plan declares anything twice, or a space without functions.
Declaring == \A p \in Plans : IsDistinct(p) /\ SpacesUsed(p)

(* A plan that declares no space and no function twice, and no space       *)
(* without a function, has come back from its text as itself: whatever the *)
(* parser's numbers and the order in which it declares, what comes back is *)
(* normalized to the very message the plan is normalized to.               *)
THEOREM NormalFormComesBack ==
  (\A p \in Plans : Consistent(p) /\ NamesApart(p) /\ IsDistinct(p) /\ SpacesUsed(p))
    => (Spec => []NormalFormKept)
<1> SUFFICES ASSUME Sound, Declaring
             PROVE  Spec => []NormalFormKept
  BY DEF Sound, Declaring
<1>1. CallsInv /\ OrderInv /\ WordsInv => NormalFormKept
  <2> SUFFICES ASSUME CallsInv, OrderInv, WordsInv, Passed("build")
               PROVE  Normalized(back) = normal
    BY DEF NormalFormKept
  <2>1. stage \in {"again", "done"}
    BY StagesPlaced DEF Passed, CallsInv, NormalInv, AStage
  <2>2. normal = Normalized(plan) /\ plan \in Plans
    BY <2>1 DEF CallsInv, NormalInv
  <2>3. IsCalling(plan) /\ Consistent(plan) /\ IsDistinct(plan) /\ SpacesUsed(plan)
    BY <2>2, PlansAssumption DEF Sound, Declaring
  <2>4. BuiltFrom(plan, text.sections, read, back)
    BY BackIsBuilt
  <2>5. IsCalling(back) /\ Consistent(back) /\ IsDistinct(back) /\ SameContent(back, plan)
    BY <2>3, <2>4, PlanComesBack
  <2>6. /\ IsNormal(Normalized(back)) /\ SameContent(Normalized(back), back)
        /\ IsNormal(Normalized(plan)) /\ SameContent(Normalized(plan), plan)
    BY <2>3, <2>5, NormalizedIsNormal
  <2>7. SameContent(Normalized(back), plan)
    BY <2>5, <2>6, ContentGoesOn
  <2>8. SameContent(plan, Normalized(plan))
    BY <2>6, ContentTurns
  <2>9. SameContent(Normalized(back), Normalized(plan))
    BY <2>7, <2>8, ContentGoesOn
  <2>10. QED
    BY <2>2, <2>6, <2>9, OneNormalForm
<1>2. Spec => [](CallsInv /\ OrderInv /\ WordsInv)
  BY OrderInvAlways
<1>3. QED
  BY <1>1, <1>2, PTL

-----------------------------------------------------------------------------
(***************************************************************************)
(* A text is in order: its sections are sorted by URIs, the functions in   *)
(* one by short names.                                                     *)
(***************************************************************************)

\* Function i is printed before function j.
PrintedBefore(t, d, i, j) ==
  \/ Before(ShortNames, t.symbols[i].name, t.symbols[j].name)
  \/ t.symbols[i].name = t.symbols[j].name /\ Before(Names, d[i].name, d[j].name)

\* A section is of a list of functions.
SectionOf(t, d, space, fs, section) ==
  /\ Lists(fs, FunctionsOf(t, d, space))
  /\ \A k, l \in DOMAIN fs : k < l => fs[k] # fs[l] /\ ~PrintedBefore(t, d, fs[l], fs[k])
  /\ section = [ uri |-> SpaceName(t, d, space),
                 functions |-> [k \in DOMAIN fs |->
                                  [name |-> d[fs[k]].name, as |-> t.symbols[fs[k]].name]] ]

LEMMA SectionIsOf ==
  ASSUME NEW t, NEW d, IsFiniteSet(OfType(t, "function")), NEW space
  PROVE  \E fs : SectionOf(t, d, space, fs, Section(t, d, space))
<1> DEFINE F == FunctionsOf(t, d, space)
           short(i) == t.symbols[i].name
           R == Ordered(F, LAMBDA i, j :
                  \/ Before(ShortNames, short(i), short(j))
                  \/ short(i) = short(j) /\ Before(Names, d[i].name, d[j].name))
           fs == Sorted(F, R)
<1>1. Section(t, d, space) = Printed(t, d, space, fs)
  BY DEF Section
<1>2. IsFiniteSet(F)
  <2>1. F \in SUBSET OfType(t, "function")
    BY DEF FunctionsOf
  <2>2. QED
    BY <2>1, FS_Subset
<1>3. \A i, j \in F : <<i, j>> \in R <=> PrintedBefore(t, d, i, j)
  BY DEF Ordered, PrintedBefore
<1> HIDE DEF F, R
<1>4. IsStrictOrder(F, R)
  <2> DEFINE a(i) == Place(ShortNames, short(i))
             b(i) == Place(Names, d[i].name)
  <2>1. \A i, j \in F : <<i, j>> \in R <=> a(i) < a(j) \/ (short(i) = short(j) /\ b(i) < b(j))
    BY <1>3 DEF PrintedBefore, Before
  <2>2. \A i \in F : a(i) \in Nat /\ b(i) \in Nat
    BY PlaceIsNumber, OrdersAssumption
  <2>3. \A i, j \in F : short(i) = short(j) => a(i) = a(j)
    OBVIOUS
  <2> HIDE DEF a, b, short
  <2>4. \A i \in F : <<i, i>> \notin R
    BY <2>1, <2>2
  <2>5. ASSUME NEW i \in F, NEW j \in F, NEW k \in F, <<i, j>> \in R, <<j, k>> \in R
        PROVE  <<i, k>> \in R
    BY <2>1, <2>2, <2>3, <2>5
  <2>6. QED
    BY <2>4, <2>5 DEF IsStrictOrder
<1>5. /\ IsSequence(fs)
      /\ \A i \in DOMAIN fs : fs[i] \in F
      /\ \A i, j \in DOMAIN fs : fs[i] = fs[j] => i = j
      /\ \A x \in F : \E i \in DOMAIN fs : fs[i] = x
  BY <1>2, <1>4, SortedIs
<1>6. \A k, l \in DOMAIN fs : k < l => fs[k] # fs[l] /\ <<fs[l], fs[k]>> \notin R
  BY <1>2, <1>4, SortedAscends
<1> HIDE DEF fs
<1>7. \A k, l \in DOMAIN fs : k < l => fs[k] # fs[l] /\ ~PrintedBefore(t, d, fs[l], fs[k])
  BY <1>3, <1>5, <1>6
<1>8. Lists(fs, F)
  BY <1>5 DEF Lists
<1>9. SectionOf(t, d, space, fs, Section(t, d, space))
  BY <1>1, <1>7, <1>8 DEF SectionOf, Printed, F
<1>10. QED
  BY <1>9

\* The spaces with functions, one of each name, sorted by names.
LEMMA UsedSpacesSorted ==
  ASSUME NEW t, NEW d, IsFiniteSet(OfType(t, "function")), OfType(t, "function") \in SUBSET Nat
  PROVE  LET used == UsedSpaces(t, d)
             name(x) == SpaceName(t, d, x)
         IN /\ IsSequence(used)
            /\ \A k \in DOMAIN used : \E i \in OfType(t, "function") : used[k] = d[i].space
            /\ \A i \in OfType(t, "function") : \E k \in DOMAIN used : name(used[k]) = name(d[i].space)
            /\ \A k, l \in DOMAIN used : k < l => ~Before(Uris, name(used[l]), name(used[k]))
            /\ \A k, l \in DOMAIN used : name(used[k]) = name(used[l]) => k = l
<1> DEFINE F == OfType(t, "function")
           name(x) == SpaceName(t, d, x)
           first == {i \in F : \A j \in F : j < i => name(d[j].space) # name(d[i].space)}
           used == {d[i].space : i \in first}
           R == Ordered(used, LAMBDA a, b : Before(Uris, name(a), name(b)))
           s == Sorted(used, R)
<1>1. UsedSpaces(t, d) = s
  BY DEF UsedSpaces
<1> HIDE DEF F, name
<1>2. IsFiniteSet(F) /\ F \in SUBSET Nat
  BY DEF F
<1>3. ASSUME NEW i \in F
      PROVE  \E j \in first : name(d[j].space) = name(d[i].space)
  <2> DEFINE same == {j \in F : name(d[j].space) = name(d[i].space)}
  <2>1. same \in SUBSET Nat /\ same # {}
    BY <1>2
  <2>2. PICK j \in same : \A m \in same : j <= m
    BY <2>1, LeastNumber
  <2>3. \A m \in F : m < j => m \notin same
    BY <1>2, <2>1, <2>2
  <2>4. j \in first
    BY <2>2, <2>3
  <2>5. QED
    BY <2>2, <2>4
<1>4. IsFiniteSet(used)
  <2> DEFINE f == [i \in first |-> d[i].space]
  <2>1. f \in Surjection(first, used)
    BY DEF Surjection
  <2>2. IsFiniteSet(first)
    BY <1>2, FS_Subset
  <2>3. QED
    BY <2>1, <2>2, FS_Surjection
<1>5. \A x \in used : \E i \in F : x = d[i].space
  OBVIOUS
<1>6. \A j \in first : d[j].space \in used
  OBVIOUS
<1>7. ASSUME NEW x \in used, NEW y \in used, name(x) = name(y)
      PROVE  x = y
  <2>1. PICK i \in first : x = d[i].space
    OBVIOUS
  <2>2. PICK j \in first : y = d[j].space
    OBVIOUS
  <2>3. ~(i < j) /\ ~(j < i)
    BY <1>7, <2>1, <2>2
  <2>4. i = j
    BY <1>2, <2>3
  <2>5. QED
    BY <2>1, <2>2, <2>4
<1>8. \A x, y \in used : <<x, y>> \in R <=> Before(Uris, name(x), name(y))
  BY DEF Ordered
<1> HIDE DEF first, used, R
<1>9. IsStrictOrder(used, R)
  <2> DEFINE at(x) == Place(Uris, name(x))
  <2>1. \A x, y \in used : <<x, y>> \in R <=> at(x) < at(y)
    BY <1>8 DEF Before
  <2>2. \A x \in used : at(x) \in Nat
    BY PlaceIsNumber, OrdersAssumption
  <2> HIDE DEF at
  <2>3. QED
    BY <2>1, <2>2 DEF IsStrictOrder
<1>10. /\ IsSequence(s)
       /\ \A k \in DOMAIN s : s[k] \in used
       /\ \A x \in used : \E k \in DOMAIN s : s[k] = x
       /\ \A k, l \in DOMAIN s : s[k] = s[l] => k = l
  BY <1>4, <1>9, SortedIs
<1>11. \A k, l \in DOMAIN s : k < l => <<s[l], s[k]>> \notin R
  BY <1>4, <1>9, SortedAscends
<1> HIDE DEF s
<1>12. \A k, l \in DOMAIN s : k < l => ~Before(Uris, name(s[l]), name(s[k]))
  BY <1>8, <1>10, <1>11
<1>13. \A i \in F : \E k \in DOMAIN s : name(s[k]) = name(d[i].space)
  BY <1>3, <1>6, <1>10
<1>14. \A k \in DOMAIN s : \E i \in F : s[k] = d[i].space
  BY <1>5, <1>10
<1>15. \A k, l \in DOMAIN s : name(s[k]) = name(s[l]) => k = l
  BY <1>7, <1>10
<1>16. QED
  BY <1>1, <1>10, <1>12, <1>13, <1>14, <1>15 DEF F, name

\* Two strings, one of them perhaps none, are at two places.
LEMMA PlacesDiffer ==
  ASSUME NEW order, IsSequence(order), NEW z, NEW x, NEW y,
         x \in ToSet(order) \/ x = z, y \in ToSet(order) \/ y = z, x # y
  PROVE  Before(order, x, y) \/ Before(order, y, x)
<1>1. Place(order, x) \in Nat /\ Place(order, y) \in Nat
  BY PlaceIsNumber
<1>2. Place(order, x) # Place(order, y)
  <2>1. CASE x \in ToSet(order) /\ y \in ToSet(order)
    BY <2>1, PlaceApart
  <2>2. CASE x \notin ToSet(order) /\ y \in ToSet(order)
    BY <2>2, PlaceApart, NotInOrder
  <2>3. CASE x \in ToSet(order) /\ y \notin ToSet(order)
    BY <2>3, PlaceApart, NotInOrder
  <2>4. QED
    BY <2>1, <2>2, <2>3
<1>3. QED
  BY <1>1, <1>2 DEF Before

UrisInOrder(sections) ==
  \A k, l \in DOMAIN sections : k < l => Before(Uris, sections[k].uri, sections[l].uri)

NamesInOrder(sections) ==
  \A s \in DOMAIN sections : \A k, l \in DOMAIN sections[s].functions :
    k < l => Before(Names, sections[s].functions[k].name, sections[s].functions[l].name)

\* ShortInOrder of a table.
ShortsInOrder(t, d) ==
  \A i, j \in OfType(t, "function") :
    d[i].space = d[j].space =>
      (Before(ShortNames, t.symbols[i].name, t.symbols[j].name)
         <=> Before(Names, d[i].name, d[j].name))

LEMMA SectionsInOrder ==
  ASSUME NEW p, IsCalling(p), Consistent(p), NamesApart(p), IsDistinct(p), NEW t, NEW d,
         Converted(p, t, d, Len(p.spaces), Len(p.extensions))
  PROVE  UrisInOrder(Sections(t, d))
<1> DEFINE used == UsedSpaces(t, d)
           sections == Sections(t, d)
           name(x) == SpaceName(t, d, x)
<1>1. IsFiniteSet(OfType(t, "function")) /\ OfType(t, "function") \in SUBSET Nat
  BY ConvertedHas DEF FunctionsOfPlan
<1>2. IsSequence(used) /\ \A k, l \in DOMAIN used : k < l => ~Before(Uris, name(used[l]), name(used[k]))
  BY <1>1, UsedSpacesSorted
<1>3. sections = [k \in DOMAIN used |-> Section(t, d, used[k])]
  BY DEF Sections
<1>4. \A space : Section(t, d, space).uri = SpaceName(t, d, space)
  BY DEF Section, Printed
<1>5. UrisDiffer(sections) /\ Placed(p, sections)
  BY SectionsDiffer, SectionsPlaced
<1> HIDE DEF sections, used, name
<1>6. DOMAIN sections = DOMAIN used /\ \A k \in DOMAIN used : sections[k].uri = name(used[k])
  BY <1>3, <1>4 DEF name
<1>7. \A k \in DOMAIN sections : sections[k].uri \in ToSet(Uris) \/ sections[k].uri = NoUri
  BY <1>5 DEF Placed, IsDistinct
<1>8. ASSUME NEW k \in DOMAIN sections, NEW l \in DOMAIN sections, k < l
      PROVE  Before(Uris, sections[k].uri, sections[l].uri)
  <2>1. ~Before(Uris, sections[l].uri, sections[k].uri)
    BY <1>2, <1>6, <1>8
  <2>2. sections[k].uri # sections[l].uri
    <3>1. k \in Nat /\ l \in Nat
      BY <1>5, SequenceHas DEF Placed
    <3>2. k # l
      BY <1>8, <3>1
    <3>3. QED
      BY <1>5, <3>2 DEF UrisDiffer
  <2>3. QED
    BY <1>7, <2>1, <2>2, PlacesDiffer, OrdersAssumption
<1>9. UrisInOrder(sections)
  BY <1>8 DEF UrisInOrder
<1>10. QED
  BY <1>9 DEF sections

\* The functions of a space have that space, in the table of a plan.
OfSpace(p, t, d, space, i) ==
  /\ i \in OfType(t, "function") /\ d[i].space = space
  /\ ExtensionOf(p, i) \in DOMAIN p.extensions
  /\ SymbolFor(p, ExtensionOf(p, i)) = i
  /\ t.symbols[i].name = ShortNumbered(p, ExtensionOf(p, i))
  /\ FunctionOf(p, ExtensionOf(p, i)) = <<UriOf(p, space), d[i].name>>
  /\ d[i].name = p.extensions[ExtensionOf(p, i)].name

LEMMA FunctionsOfSpace ==
  ASSUME NEW p, IsCalling(p), Consistent(p), NEW t, NEW d,
         Converted(p, t, d, Len(p.spaces), Len(p.extensions)), NEW space
  PROVE  \A i \in FunctionsOf(t, d, space) : OfSpace(p, t, d, space, i)
<1> SUFFICES ASSUME NEW i \in FunctionsOf(t, d, space)
             PROVE  OfSpace(p, t, d, space, i)
  OBVIOUS
<1>0. FunctionsOfPlan(p, t, d)
  BY ConvertedHas
<1>1. i \in OfType(t, "function") /\ d[i].space \in {NoSpace, space}
  BY DEF FunctionsOf
<1>2. /\ ExtensionOf(p, i) \in DOMAIN p.extensions
      /\ SymbolFor(p, ExtensionOf(p, i)) = i
      /\ t.symbols[i].name = ShortNumbered(p, ExtensionOf(p, i))
      /\ d[i].name = p.extensions[ExtensionOf(p, i)].name
      /\ d[i].space = p.extensions[ExtensionOf(p, i)].space
  BY <1>0, <1>1 DEF FunctionsOfPlan
<1>3. d[i].space = space
  BY <1>1, <1>2, FunctionsHaveSpaces
<1>4. FunctionOf(p, ExtensionOf(p, i)) = <<UriOf(p, space), d[i].name>>
  BY <1>2, <1>3 DEF FunctionOf
<1>5. QED
  BY <1>1, <1>2, <1>3, <1>4 DEF OfSpace

LEMMA FunctionsInOrder ==
  ASSUME NEW p, IsCalling(p), Consistent(p), NamesApart(p), IsDistinct(p), NEW t, NEW d,
         Converted(p, t, d, Len(p.spaces), Len(p.extensions)), ShortsInOrder(t, d)
  PROVE  NamesInOrder(Sections(t, d))
<1> DEFINE used == UsedSpaces(t, d)
           sections == Sections(t, d)
<1>1. IsFiniteSet(OfType(t, "function"))
  BY ConvertedHas DEF FunctionsOfPlan
<1>2. sections = [k \in DOMAIN used |-> Section(t, d, used[k])]
  BY DEF Sections
<1> HIDE DEF sections, used
<1>3. ASSUME NEW s \in DOMAIN sections,
             NEW k \in DOMAIN sections[s].functions, NEW l \in DOMAIN sections[s].functions, k < l
      PROVE  Before(Names, sections[s].functions[k].name, sections[s].functions[l].name)
  <2>1. sections[s] = Section(t, d, used[s])
    BY <1>2
  <2>2. PICK fs : SectionOf(t, d, used[s], fs, sections[s])
    BY <1>1, <2>1, SectionIsOf
  <2>3. sections[s].functions =
          [m \in DOMAIN fs |-> [name |-> d[fs[m]].name, as |-> t.symbols[fs[m]].name]]
    BY <2>2 DEF SectionOf
  <2>4. /\ k \in DOMAIN fs /\ l \in DOMAIN fs
        /\ sections[s].functions[k].name = d[fs[k]].name
        /\ sections[s].functions[l].name = d[fs[l]].name
    BY <2>3
  <2> DEFINE i == fs[k]
             j == fs[l]
  <2>5. /\ i \in FunctionsOf(t, d, used[s]) /\ j \in FunctionsOf(t, d, used[s])
        /\ i # j /\ ~PrintedBefore(t, d, j, i)
    BY <1>3, <2>2, <2>4 DEF SectionOf, Lists
  <2> HIDE DEF i, j
  <2>6. /\ i \in OfType(t, "function") /\ d[i].space = used[s]
        /\ ExtensionOf(p, i) \in DOMAIN p.extensions /\ SymbolFor(p, ExtensionOf(p, i)) = i
        /\ FunctionOf(p, ExtensionOf(p, i)) = <<UriOf(p, used[s]), d[i].name>>
        /\ d[i].name = p.extensions[ExtensionOf(p, i)].name
    <3>1. OfSpace(p, t, d, used[s], i)
      BY <2>5, FunctionsOfSpace
    <3>2. QED
      BY <3>1 DEF OfSpace
  <2>7. /\ j \in OfType(t, "function") /\ d[j].space = used[s]
        /\ ExtensionOf(p, j) \in DOMAIN p.extensions /\ SymbolFor(p, ExtensionOf(p, j)) = j
        /\ FunctionOf(p, ExtensionOf(p, j)) = <<UriOf(p, used[s]), d[j].name>>
        /\ d[j].name = p.extensions[ExtensionOf(p, j)].name
    <3>1. OfSpace(p, t, d, used[s], j)
      BY <2>5, FunctionsOfSpace
    <3>2. QED
      BY <3>1 DEF OfSpace
  <2>8. d[i].name # d[j].name
    <3>1. ExtensionOf(p, i) # ExtensionOf(p, j)
      BY <2>5, <2>6, <2>7
    <3>2. QED
      BY <2>6, <2>7, <3>1 DEF IsDistinct
  <2>9. d[i].name \in ToSet(Names) /\ d[j].name \in ToSet(Names)
    BY <2>6, <2>7 DEF IsDistinct
  <2>10. Before(Names, d[i].name, d[j].name) \/ Before(Names, d[j].name, d[i].name)
    BY <2>8, <2>9, PlacesDiffer, OrdersAssumption
  <2>11. ~Before(Names, d[j].name, d[i].name)
    <3>1. ~Before(ShortNames, t.symbols[j].name, t.symbols[i].name)
      BY <2>5 DEF PrintedBefore
    <3>2. QED
      BY <2>6, <2>7, <3>1 DEF ShortsInOrder
  <2>12. QED
    BY <2>4, <2>10, <2>11 DEF i, j
<1>4. NamesInOrder(sections)
  BY <1>3 DEF NamesInOrder
<1>5. QED
  BY <1>4 DEF sections

-----------------------------------------------------------------------------
(***************************************************************************)
(* What is built from a text in order is in normal form.                   *)
(***************************************************************************)

\* Symbols in their order are numbered one by one.
LEMMA CountedInOrder ==
  ASSUME NEW t, NEW d, NEW type, NEW from \in Nat, NEW upto \in Nat,
         CountedFrom(t, d, type, from, upto),
         NEW all, Lists(all, OfType(t, type)),
         \A k, l \in DOMAIN all : k < l => all[k] < all[l], NEW k \in DOMAIN all
  PROVE  d[all[k]].anchor = from + k - 1
<1> DEFINE S == OfType(t, type)
           R == Ordered(Nat, <)
           a == [i \in DOMAIN all |-> d[all[i]].anchor]
           n == IF from <= upto THEN upto - from ELSE 0
           b == [i \in 1..n |-> from + i - 1]
<1>1. /\ IsSequence(all) /\ DOMAIN all = 1..Len(all) /\ Len(all) \in Nat
      /\ \A i \in DOMAIN all : all[i] \in S
      /\ \A x \in S : \E i \in DOMAIN all : all[i] = x
  BY SequenceHas DEF Lists
<1>2. /\ \A i \in S : d[i].anchor \in Nat /\ from <= d[i].anchor /\ d[i].anchor < upto
      /\ \A i, j \in S : i < j => d[i].anchor < d[j].anchor
      /\ \A x \in Nat : from <= x /\ x < upto => \E i \in S : d[i].anchor = x
  BY DEF CountedFrom
<1>3. IsStrictOrder(Nat, R)
  <2>1. Nat \in SUBSET Int
    OBVIOUS
  <2>2. QED
    BY <2>1, NumbersOrdered
<1>4. \A x, y \in Nat : <<x, y>> \in R <=> x < y
  BY DEF Ordered
<1> HIDE DEF S, R
<1>5. n \in Nat
  OBVIOUS
<1>6. DOMAIN a = DOMAIN all /\ \A i \in DOMAIN all : a[i] = d[all[i]].anchor /\ a[i] \in Nat
  BY <1>1, <1>2
<1>7. IsSequence(a)
  BY <1>1, ListIsSequence
<1>8. DOMAIN b = 1..n /\ \A i \in 1..n : b[i] = from + i - 1 /\ b[i] \in Nat
  BY <1>5
<1>9. IsSequence(b)
  BY <1>5, ListIsSequence
<1> HIDE DEF a
<1>10. IsAscending(a, R)
  <2>1. ASSUME NEW i \in DOMAIN a, NEW j \in DOMAIN a, i < j
        PROVE  <<a[i], a[j]>> \in R
    <3>1. all[i] \in S /\ all[j] \in S /\ all[i] < all[j]
      BY <1>1, <1>6, <2>1
    <3>2. a[i] < a[j]
      BY <1>2, <1>6, <2>1, <3>1
    <3>3. QED
      BY <1>4, <1>6, <2>1, <3>2
  <2>2. QED
    BY <1>7, <2>1 DEF IsAscending
<1>11. ASSUME NEW x
       PROVE  x \in ToSet(a) <=> x \in ToSet(b)
  <2>1. ASSUME x \in ToSet(a)
        PROVE  x \in ToSet(b)
    <3>1. PICK i \in DOMAIN a : a[i] = x
      BY <2>1, PlacesOf
    <3>2. x \in Nat /\ from <= x /\ x < upto
      BY <1>1, <1>2, <1>6, <3>1
    <3>3. x - from + 1 \in 1..n /\ b[x - from + 1] = x
      BY <1>8, <3>2
    <3>4. QED
      BY <1>8, <3>3, PlacesOf
  <2>2. ASSUME x \in ToSet(b)
        PROVE  x \in ToSet(a)
    <3>1. PICK i \in DOMAIN b : b[i] = x
      BY <2>2, PlacesOf
    <3>2. x \in Nat /\ from <= x /\ x < upto
      BY <1>8, <3>1
    <3>3. PICK y \in S : d[y].anchor = x
      BY <1>2, <3>2
    <3>4. PICK j \in DOMAIN all : all[j] = y
      BY <1>1, <3>3
    <3>5. a[j] = x /\ j \in DOMAIN a
      BY <1>6, <3>3, <3>4
    <3>6. QED
      BY <3>5, PlacesOf
  <2>3. QED
    BY <2>1, <2>2
<1> HIDE DEF n, b
<1>12. IsAscending(b, R)
  <2>1. ASSUME NEW i \in DOMAIN b, NEW j \in DOMAIN b, i < j
        PROVE  <<b[i], b[j]>> \in R
    <3>1. b[i] \in Nat /\ b[j] \in Nat /\ b[i] < b[j]
      BY <1>5, <1>8, <2>1
    <3>2. QED
      BY <1>4, <3>1
  <2>2. QED
    BY <1>9, <2>1 DEF IsAscending
<1>13. ToSet(a) \subseteq Nat
  BY <1>6, PlacesOf
<1>14. SameElements(a, b)
  BY <1>11 DEF SameElements
<1>15. a = b
  BY <1>3, <1>10, <1>12, <1>13, <1>14, AscendingOnce
<1>16. QED
  BY <1>6, <1>8, <1>15

\* Symbol i is function k of section s, and function e of the plan.
StandsFor(p, sections, t, d, i, s, k, e) ==
  /\ FunctionAt(sections, t, d, i, s, k)
  /\ PrintedAt(p, sections, s, k, e)
  /\ SpaceGiven(t, d, sections[s].uri, d[i].space)

LEMMA FunctionStands ==
  ASSUME NEW p, NEW sections, Placed(p, sections),
         NEW r, ParsedAs(sections, r, Len(sections) + 1, 0), NEW i \in OfType(r.table, "function")
  PROVE  \E s \in DOMAIN sections : \E k \in DOMAIN sections[s].functions :
           \E e \in DOMAIN p.extensions : StandsFor(p, sections, r.table, r.data, i, s, k, e)
<1>1. SymbolsSeen(sections, r.table, r.data, Len(sections) + 1, 0)
  BY DEF ParsedAs, Parsed
<1>2. PICK s \in DOMAIN sections : \E k \in DOMAIN sections[s].functions :
        /\ FunctionAt(sections, r.table, r.data, i, s, k)
        /\ s < Len(sections) + 1 => SpaceGiven(r.table, r.data, sections[s].uri, r.data[i].space)
  BY <1>1 DEF SymbolsSeen
<1>3. PICK k \in DOMAIN sections[s].functions :
        /\ FunctionAt(sections, r.table, r.data, i, s, k)
        /\ s < Len(sections) + 1 => SpaceGiven(r.table, r.data, sections[s].uri, r.data[i].space)
  BY <1>2
<1>4. s < Len(sections) + 1
  BY SectionPositions
<1>5. PICK e \in DOMAIN p.extensions : PrintedAt(p, sections, s, k, e)
  BY DEF Placed
<1>6. StandsFor(p, sections, r.table, r.data, i, s, k, e)
  BY <1>3, <1>4, <1>5 DEF StandsFor
<1>7. QED
  BY <1>6

\* A function parsed after another is written after it, if all have a space or
\* none has.
LEMMA WrittenAsParsed ==
  ASSUME NEW p, IsCalling(p), Consistent(p), SpacesUsed(p), OneKindOfSpace(p),
         NEW sections, Placed(p, sections), UrisDiffer(sections),
         NEW r, ParsedAs(sections, r, Len(sections) + 1, 0),
         ReadInTurn(sections, r, Len(sections) + 1, 0),
         NEW i \in OfType(r.table, "function"), NEW j \in OfType(r.table, "function"), i < j
  PROVE  WrittenBefore(r.data, i, j)
<1> DEFINE t == r.table
           d == r.data
           S == OfType(t, "space")
<1>1. PICK s \in DOMAIN sections : \E k \in DOMAIN sections[s].functions :
        \E e \in DOMAIN p.extensions : StandsFor(p, sections, t, d, i, s, k, e)
  BY FunctionStands
<1>2. PICK k \in DOMAIN sections[s].functions : \E e \in DOMAIN p.extensions :
        StandsFor(p, sections, t, d, i, s, k, e)
  BY <1>1
<1>3. PICK e \in DOMAIN p.extensions : StandsFor(p, sections, t, d, i, s, k, e)
  BY <1>2
<1>4. PICK z \in DOMAIN sections : \E m \in DOMAIN sections[z].functions :
        \E f \in DOMAIN p.extensions : StandsFor(p, sections, t, d, j, z, m, f)
  BY FunctionStands
<1>5. PICK m \in DOMAIN sections[z].functions : \E f \in DOMAIN p.extensions :
        StandsFor(p, sections, t, d, j, z, m, f)
  BY <1>4
<1>6. PICK f \in DOMAIN p.extensions : StandsFor(p, sections, t, d, j, z, m, f)
  BY <1>5
<1>7. /\ FunctionsFollow(sections, t) /\ SpacesFollow(sections, t)
      /\ CountedFrom(t, d, "space", 1, r.numSpacesSeen + 1)
  BY DEF ReadInTurn, InTurn
<1>8. Tabled(t, d)
  BY DEF ParsedAs, Parsed
<1>9. S \in SUBSET Nat
  BY <1>8, SymbolPositions
<1>10. \A a, b \in S : t.symbols[a].name = t.symbols[b].name => a = b
  BY SpacesKnown
<1> HIDE DEF t, d
<1>11. Seen(z, m, s, k)
  <2>1. t.symbols[i].name = ShortAt(sections, s, k) /\ t.symbols[j].name = ShortAt(sections, z, m)
    BY <1>3, <1>6 DEF StandsFor, FunctionAt
  <2>2. i \in OfType(t, "function") /\ j \in OfType(t, "function") /\ i < j
    BY DEF t
  <2>3. QED
    BY <1>7, <2>1, <2>2 DEF FunctionsFollow
<1>12. s \in Nat /\ z \in Nat
  BY SequenceHas DEF Placed
<1>13. sections[s].uri = NoUri <=> sections[z].uri = NoUri
  <2>1. /\ sections[s].uri = UriOf(p, p.extensions[e].space)
        /\ sections[z].uri = UriOf(p, p.extensions[f].space)
    BY <1>3, <1>6 DEF StandsFor, PrintedAt
  <2>2. p.extensions[e] \in ToSet(p.extensions) /\ p.extensions[f] \in ToSet(p.extensions)
    BY PlacesOf
  <2>3. QED
    BY <2>1, <2>2 DEF OneKindOfSpace
<1>14. CASE sections[s].uri = NoUri
  <2>1. d[i].space = NoSpace /\ d[j].space = NoSpace
    BY <1>3, <1>6, <1>13, <1>14 DEF StandsFor, SpaceGiven
  <2>2. QED
    BY <2>1 DEF WrittenBefore, d
<1>15. CASE sections[s].uri # NoUri
  <2>1. PICK a \in S : d[a].anchor = d[i].space /\ t.symbols[a].name = sections[s].uri
    BY <1>3, <1>15 DEF StandsFor, SpaceGiven, SpaceNumbered
  <2>2. PICK b \in S : d[b].anchor = d[j].space /\ t.symbols[b].name = sections[z].uri
    BY <1>6, <1>13, <1>15 DEF StandsFor, SpaceGiven, SpaceNumbered
  <2>3. CASE s = z
    <3>1. d[i].space = d[j].space
      BY <1>10, <2>1, <2>2, <2>3
    <3>2. QED
      BY <3>1 DEF WrittenBefore, d
  <2>4. CASE s # z
    <3>1. s < z
      BY <1>11, <2>4 DEF Seen
    <3>2. a # b
      BY <2>1, <2>2, <2>4 DEF UrisDiffer
    <3>3. ~(b < a)
      <4>1. b < a => z < s
        BY <1>7, <2>1, <2>2 DEF SpacesFollow
      <4>2. QED
        BY <1>12, <3>1, <4>1
    <3>4. a < b
      BY <1>9, <3>2, <3>3
    <3>5. d[a].anchor < d[b].anchor /\ d[a].anchor \in Nat
      BY <1>7, <3>4 DEF CountedFrom
    <3>6. d[i].space < d[j].space /\ d[i].space # NoSpace
      BY <2>1, <2>2, <3>5 DEF NoSpace
    <3>7. QED
      BY <3>6 DEF WrittenBefore, d
  <2>5. QED
    BY <2>3, <2>4
<1>16. QED
  BY <1>14, <1>15

\* The place of a URI is further on in a list if it is in the order of strings.
LEMMA PlacesAscend ==
  ASSUME NEW uris, IsAscending(uris, UriBefore), ToSet(uris) \subseteq ToSet(Uris),
         NEW x \in ToSet(uris), NEW y \in ToSet(uris), Before(Uris, x, y)
  PROVE  Before(uris, x, y)
<1>1. \A i, j \in DOMAIN uris : uris[i] = uris[j] => i = j
  BY UrisOrdered, AscendingApart
<1>2. PICK i \in DOMAIN uris : uris[i] = x
  BY PlacesOf
<1>3. PICK j \in DOMAIN uris : uris[j] = y
  BY PlacesOf
<1>4. Place(uris, x) = i /\ Place(uris, y) = j
  BY <1>1, <1>2, <1>3, PlaceIs
<1>5. <<x, y>> \in UriBefore
  BY DEF UriBefore, Ordered
<1>6. <<y, x>> \notin UriBefore /\ x # y
  BY <1>5, UrisOrdered DEF IsStrictOrder
<1>7. ~(j < i) /\ i # j
  BY <1>2, <1>3, <1>6 DEF IsAscending
<1>8. i \in Nat /\ j \in Nat
  BY SequenceHas DEF IsAscending
<1>9. QED
  BY <1>4, <1>7, <1>8 DEF Before

LEMMA SpacesBuiltInOrder ==
  ASSUME NEW p, IsCalling(p), Consistent(p), IsDistinct(p), SpacesUsed(p),
         NEW sections, UrisInOrder(sections), NEW r, NEW b, BuiltFrom(p, sections, r, b)
  PROVE  /\ IsAscending(UrisOf(b), UriBefore) /\ ToSet(UrisOf(b)) \subseteq ToSet(Uris)
         /\ \A i \in DOMAIN b.spaces : b.spaces[i] = [anchor |-> i, uri |-> UrisOf(b)[i]]
<1> DEFINE t == r.table
           d == r.data
           ns == r.numSpacesSeen
           uris == UrisOf(b)
<1>1. Tabled(t, d) /\ b.spaces = SpacesToBinary(t, d) /\ ns \in Nat
  BY DEF BuiltFrom, ParsedAs, Parsed
<1>2. /\ SpacesEntered(sections, t, Len(sections) + 1, 0) /\ SpacesFollow(sections, t)
      /\ CountedFrom(t, d, "space", 1, ns + 1)
  BY DEF BuiltFrom, ReadInTurn, InTurn
<1>3. IsDistinct(b)
  BY PlanComesBack
<1> HIDE DEF t, d, ns
<1>4. PICK all : SpacesFrom(all, t, d, b)
  BY <1>1, SpacesBuilt
<1>5. /\ Lists(all, OfType(t, "space"))
      /\ \A k, l \in DOMAIN all : k < l => all[k] < all[l]
      /\ IsSequence(b.spaces) /\ DOMAIN b.spaces = DOMAIN all
  BY <1>4 DEF SpacesFrom
<1>6. \A k \in DOMAIN all : all[k] \in OfType(t, "space")
  BY <1>5 DEF Lists
<1>7. \A k \in DOMAIN all : b.spaces[k] = [anchor |-> d[all[k]].anchor, uri |-> t.symbols[all[k]].name]
  BY <1>4 DEF SpacesFrom, SpaceOfSymbol
<1>8. DOMAIN all = 1..Len(b.spaces) /\ Len(b.spaces) \in Nat
  BY <1>5, SequenceHas
<1>9. ASSUME NEW k \in DOMAIN all
      PROVE  d[all[k]].anchor = k
  <2>1. 1 \in Nat /\ ns + 1 \in Nat
    BY <1>1
  <2>2. d[all[k]].anchor = 1 + k - 1
    BY <1>2, <1>5, <2>1, CountedInOrder
  <2>3. QED
    BY <1>8, <2>2
<1>10. DOMAIN uris = DOMAIN all
       /\ \A k \in DOMAIN all : uris[k] = t.symbols[all[k]].name /\ uris[k] = b.spaces[k].uri
  <2>1. ASSUME NEW k \in DOMAIN all
        PROVE  b.spaces[k].uri = t.symbols[all[k]].name
    <3>1. b.spaces[k] = [anchor |-> d[all[k]].anchor, uri |-> t.symbols[all[k]].name]
      BY <1>7
    <3>2. QED
      BY <3>1
  <2>2. QED
    BY <1>5, <2>1 DEF UrisOf
<1>11. IsSequence(uris)
  BY <1>5, <1>8, ListIsSequence DEF UrisOf
<1> HIDE DEF uris
<1>12. \A k \in DOMAIN all : uris[k] \in ToSet(Uris)
  BY <1>3, <1>5, <1>10 DEF IsDistinct
<1>13. ASSUME NEW k \in DOMAIN uris, NEW l \in DOMAIN uris, k < l
       PROVE  <<uris[k], uris[l]>> \in UriBefore
  <2>1. all[k] \in OfType(t, "space") /\ all[l] \in OfType(t, "space") /\ all[k] < all[l]
    BY <1>5, <1>6, <1>10, <1>13
  <2>2. PICK x \in DOMAIN sections : sections[x].uri = t.symbols[all[k]].name
    BY <1>2, <2>1 DEF SpacesEntered
  <2>3. PICK y \in DOMAIN sections : sections[y].uri = t.symbols[all[l]].name
    BY <1>2, <2>1 DEF SpacesEntered
  <2>4. x < y
    BY <1>2, <2>1, <2>2, <2>3 DEF SpacesFollow
  <2>5. Before(Uris, uris[k], uris[l])
    BY <1>10, <1>13, <2>2, <2>3, <2>4 DEF UrisInOrder
  <2>6. QED
    BY <1>10, <1>12, <2>5 DEF UriBefore, Ordered
<1>14. IsAscending(uris, UriBefore)
  BY <1>11, <1>13 DEF IsAscending
<1>15. ToSet(uris) \subseteq ToSet(Uris)
  BY <1>10, <1>12, PlacesOf
<1>16. \A i \in DOMAIN b.spaces : b.spaces[i] = [anchor |-> i, uri |-> uris[i]]
  BY <1>5, <1>7, <1>9, <1>10
<1>17. QED
  BY <1>14, <1>15, <1>16 DEF uris

LEMMA FunctionsBuiltInOrder ==
  ASSUME NEW p, IsCalling(p), Consistent(p), IsDistinct(p), SpacesUsed(p), OneKindOfSpace(p),
         NEW sections, UrisInOrder(sections), NamesInOrder(sections),
         NEW r, NEW b, BuiltFrom(p, sections, r, b)
  PROVE  /\ IsAscending(FunctionsIn(b), FunctionBefore(UrisOf(b), ToSet(FunctionsIn(b))))
         /\ \A e \in DOMAIN b.extensions :
              b.extensions[e] = [ kind   |-> "function", space |-> Place(UrisOf(b), FunctionsIn(b)[e][1]),
                                  name   |-> FunctionsIn(b)[e][2],
                                  anchor |-> e - 1 ]
<1> DEFINE t == r.table
           d == r.data
           nf == r.numFunctionsSeen
           uris == UrisOf(b)
           fs == FunctionsIn(b)
<1>1. /\ Tabled(t, d) /\ b.extensions = FunctionsToBinary(t, d) /\ nf \in Nat
      /\ Placed(p, sections) /\ UrisDiffer(sections)
      /\ ParsedAs(sections, r, Len(sections) + 1, 0)
      /\ ReadInTurn(sections, r, Len(sections) + 1, 0)
  BY DEF BuiltFrom, ParsedAs, Parsed
<1>2. FunctionsFollow(sections, t) /\ CountedFrom(t, d, "function", 0, nf)
  BY DEF BuiltFrom, ReadInTurn, InTurn
<1>3. IsCalling(b) /\ Consistent(b) /\ IsDistinct(b)
  BY PlanComesBack
<1>4. /\ IsAscending(uris, UriBefore) /\ ToSet(uris) \subseteq ToSet(Uris)
      /\ \A i \in DOMAIN b.spaces : b.spaces[i] = [anchor |-> i, uri |-> uris[i]]
  BY SpacesBuiltInOrder
<1>5. \A i \in OfType(t, "function") : d[i].space \in Int
  BY <1>1, SpacesAreNumbers
<1>6. \A i, j \in OfType(t, "function") : i < j => WrittenBefore(d, i, j)
  BY <1>1, WrittenAsParsed
<1>7. \A i \in OfType(t, "function") : \E s \in DOMAIN sections : \E k \in DOMAIN sections[s].functions :
        \E e \in DOMAIN p.extensions : StandsFor(p, sections, t, d, i, s, k, e)
  BY <1>1, FunctionStands
<1>8. \A e \in DOMAIN p.extensions : CallMeans(p, t, d, b, e)
  BY CallMeansWhatItDid DEF BuiltFrom
<1>9. OfType(t, "function") \in SUBSET Int
  BY <1>1, SymbolPositions
<1> HIDE DEF t, d, nf
<1>10. PICK all : FunctionsFrom(all, t, d, b)
  BY <1>1, <1>5, FunctionsBuilt
<1>11. /\ Lists(all, OfType(t, "function"))
       /\ \A k, l \in DOMAIN all : k < l => all[k] # all[l] /\ ~WrittenBefore(d, all[l], all[k])
       /\ IsSequence(b.extensions) /\ DOMAIN b.extensions = DOMAIN all
  BY <1>10 DEF FunctionsFrom
<1>12. \A k \in DOMAIN all : all[k] \in OfType(t, "function")
  BY <1>11 DEF Lists
<1>13. \A k \in DOMAIN all :
         b.extensions[k] = [ kind |-> "function", name |-> d[all[k]].name, anchor |-> d[all[k]].anchor,
                             space |-> SpaceWritten(t, d, all[k]) ]
  BY <1>10 DEF FunctionsFrom, FunctionOfSymbol
<1>14. ASSUME NEW k \in DOMAIN all
       PROVE  /\ b.extensions[k].anchor = d[all[k]].anchor /\ b.extensions[k].kind = "function"
              /\ b.extensions[k] = [ kind |-> "function", space |-> b.extensions[k].space,
                                     name |-> b.extensions[k].name, anchor |-> b.extensions[k].anchor ]
  <2>1. b.extensions[k] =
          [ kind |-> "function", name |-> d[all[k]].name, anchor |-> d[all[k]].anchor,
            space |-> SpaceWritten(t, d, all[k]) ]
    BY <1>13
  <2>2. QED
    BY <2>1
<1>15. DOMAIN all = 1..Len(b.extensions) /\ Len(b.extensions) \in Nat
  BY <1>11, SequenceHas
<1>16. \A k, l \in DOMAIN all : k < l => all[k] < all[l]
  <2> SUFFICES ASSUME NEW k \in DOMAIN all, NEW l \in DOMAIN all, k < l
               PROVE  all[k] < all[l]
    OBVIOUS
  <2>1. all[k] \in OfType(t, "function") /\ all[l] \in OfType(t, "function")
    BY <1>12
  <2>2. all[k] # all[l] /\ ~WrittenBefore(d, all[l], all[k])
    BY <1>11
  <2>3. ~(all[l] < all[k])
    BY <1>6, <2>1, <2>2
  <2>4. all[k] \in Int /\ all[l] \in Int
    BY <1>9, <2>1
  <2>5. QED
    BY <2>2, <2>3, <2>4
<1>17. ASSUME NEW k \in DOMAIN all
       PROVE  d[all[k]].anchor = k - 1
  <2>1. 0 \in Nat
    OBVIOUS
  <2>2. d[all[k]].anchor = 0 + k - 1
    BY <1>1, <1>2, <1>11, <1>16, <2>1, CountedInOrder
  <2>3. QED
    BY <1>15, <2>2
<1>18. ASSUME NEW k \in DOMAIN all, NEW s \in DOMAIN sections, NEW m \in DOMAIN sections[s].functions,
              NEW e \in DOMAIN p.extensions, StandsFor(p, sections, t, d, all[k], s, m, e)
       PROVE  FunctionOf(b, k) = <<sections[s].uri, sections[s].functions[m].name>>
  <2>1. LookupSymbolByName(t, ShortNumbered(p, e)) = all[k]
    BY <1>18 DEF StandsFor, FunctionAt, ShortAt, PrintedAt, LookupSymbolByName
  <2>2. Function(b, d[all[k]].anchor) = FunctionOf(p, e)
    BY <1>8, <2>1 DEF CallMeans
  <2>3. b.extensions[k].anchor = d[all[k]].anchor /\ b.extensions[k].kind = "function"
    BY <1>14
  <2>4. Function(b, b.extensions[k].anchor) = FunctionOf(b, k)
    BY <1>3, <1>11, <2>3, FunctionIs DEF Consistent
  <2>5. FunctionOf(p, e) = <<sections[s].uri, sections[s].functions[m].name>>
    BY <1>18 DEF StandsFor, PrintedAt, FunctionOf
  <2>6. QED
    BY <2>2, <2>3, <2>4, <2>5
<1>19. DOMAIN fs = DOMAIN all /\ \A k \in DOMAIN all : fs[k] = FunctionOf(b, k)
  BY <1>11 DEF FunctionsIn
<1>20. IsSequence(fs)
  BY <1>11, <1>15, ListIsSequence DEF FunctionsIn
<1>21. \A i, j \in DOMAIN b.spaces : b.spaces[i].uri = b.spaces[j].uri => i = j
  BY <1>3 DEF IsDistinct
<1>22. /\ \A i \in DOMAIN b.spaces : b.spaces[i].anchor = i
       /\ DOMAIN uris = DOMAIN b.spaces /\ \A i \in DOMAIN b.spaces : uris[i] = b.spaces[i].uri
  <2>1. ASSUME NEW i \in DOMAIN b.spaces
        PROVE  b.spaces[i].anchor = i
    <3>1. b.spaces[i] = [anchor |-> i, uri |-> uris[i]]
      BY <1>4
    <3>2. QED
      BY <3>1
  <2>2. QED
    BY <2>1 DEF UrisOf
<1>23. ASSUME NEW k \in DOMAIN all
       PROVE  /\ b.extensions[k].space = Place(uris, fs[k][1])
              /\ b.extensions[k].name = fs[k][2]
  <2>1. b.extensions[k].space = Place(uris, FunctionOf(b, k)[1])
    BY <1>3, <1>11, <1>21, <1>22, SpaceIsPlace
  <2>2. b.extensions[k].name = FunctionOf(b, k)[2]
    BY DEF FunctionOf
  <2>3. QED
    BY <1>19, <2>1, <2>2
<1>24. \A k \in DOMAIN all :
         b.extensions[k] = [ kind |-> "function", space |-> b.extensions[k].space,
                             name |-> b.extensions[k].name, anchor |-> b.extensions[k].anchor ]
  BY <1>14
<1>25. \A k \in DOMAIN all : b.extensions[k].anchor = k - 1
  BY <1>17, <1>14
<1>26. \A e \in DOMAIN b.extensions :
         b.extensions[e] = [ kind |-> "function", space |-> Place(uris, fs[e][1]),
                             name |-> fs[e][2], anchor |-> e - 1 ]
  BY <1>11, <1>23, <1>24, <1>25
<1> HIDE DEF uris, fs
<1>27. ASSUME NEW k \in DOMAIN all, NEW l \in DOMAIN all, k < l
       PROVE  ComesBefore(uris, fs[k], fs[l])
  <2> DEFINE i == all[k]
             j == all[l]
  <2>1. i \in OfType(t, "function") /\ j \in OfType(t, "function") /\ i < j
    BY <1>12, <1>16, <1>27
  <2>2. PICK s \in DOMAIN sections : \E m \in DOMAIN sections[s].functions :
          \E e \in DOMAIN p.extensions : StandsFor(p, sections, t, d, i, s, m, e)
    BY <1>7, <2>1
  <2>3. PICK m \in DOMAIN sections[s].functions : \E e \in DOMAIN p.extensions :
          StandsFor(p, sections, t, d, i, s, m, e)
    BY <2>2
  <2>4. PICK e \in DOMAIN p.extensions : StandsFor(p, sections, t, d, i, s, m, e)
    BY <2>3
  <2>5. PICK z \in DOMAIN sections : \E n \in DOMAIN sections[z].functions :
          \E f \in DOMAIN p.extensions : StandsFor(p, sections, t, d, j, z, n, f)
    BY <1>7, <2>1
  <2>6. PICK n \in DOMAIN sections[z].functions : \E f \in DOMAIN p.extensions :
          StandsFor(p, sections, t, d, j, z, n, f)
    BY <2>5
  <2>7. PICK f \in DOMAIN p.extensions : StandsFor(p, sections, t, d, j, z, n, f)
    BY <2>6
  <2>8. fs[k] = <<sections[s].uri, sections[s].functions[m].name>>
    BY <1>18, <1>19, <2>4
  <2>9. fs[l] = <<sections[z].uri, sections[z].functions[n].name>>
    BY <1>18, <1>19, <2>7
  <2>10. Seen(z, n, s, m)
    <3>1. t.symbols[i].name = ShortAt(sections, s, m) /\ t.symbols[j].name = ShortAt(sections, z, n)
      BY <2>4, <2>7 DEF StandsFor, FunctionAt
    <3> HIDE DEF i, j
    <3>2. QED
      BY <1>2, <2>1, <3>1 DEF FunctionsFollow
  <2>11. CASE s = z /\ m < n
    <3>1. Before(Names, fs[k][2], fs[l][2])
      BY <2>8, <2>9, <2>11 DEF NamesInOrder
    <3>2. fs[k][1] = fs[l][1]
      BY <2>8, <2>9, <2>11
    <3>3. QED
      BY <3>1, <3>2 DEF ComesBefore
  <2>12. CASE s < z
    <3>1. Before(Uris, sections[s].uri, sections[z].uri)
      BY <2>12 DEF UrisInOrder
    <3>2. sections[s].uri # sections[z].uri
      <4>1. s \in Nat /\ z \in Nat
        <5>1. IsSequence(sections)
          BY <1>1 DEF Placed
        <5>2. QED
          BY <5>1, SequenceHas
      <4>2. s # z
        BY <2>12, <4>1
      <4>3. QED
        BY <1>1, <4>2 DEF UrisDiffer
    <3>3. sections[s].uri # NoUri /\ sections[z].uri # NoUri
      <4>1. /\ sections[s].uri = UriOf(p, p.extensions[e].space)
            /\ sections[z].uri = UriOf(p, p.extensions[f].space)
        BY <2>4, <2>7 DEF StandsFor, PrintedAt
      <4>2. p.extensions[e] \in ToSet(p.extensions) /\ p.extensions[f] \in ToSet(p.extensions)
        BY PlacesOf
      <4>3. QED
        BY <3>2, <4>1, <4>2 DEF OneKindOfSpace
    <3>4. \A x \in DOMAIN sections : sections[x].uri # NoUri => sections[x].uri \in ToSet(uris)
      <4> SUFFICES ASSUME NEW x \in DOMAIN sections, sections[x].uri # NoUri
                   PROVE  sections[x].uri \in ToSet(uris)
        OBVIOUS
      <4>1. PICK y \in DOMAIN p.spaces : sections[x].uri = p.spaces[y].uri
        BY <1>1 DEF Placed
      <4>2. PICK w \in DOMAIN b.spaces : b.spaces[w].uri = p.spaces[y].uri
        BY SpacesComeBack
      <4>3. uris[w] = sections[x].uri /\ w \in DOMAIN uris
        BY <1>22, <4>1, <4>2
      <4>4. QED
        BY <4>3, PlacesOf
    <3>5. Before(uris, sections[s].uri, sections[z].uri)
      BY <1>4, <3>1, <3>3, <3>4, PlacesAscend
    <3>6. QED
      BY <2>8, <2>9, <3>5 DEF ComesBefore
  <2>13. QED
    BY <2>10, <2>11, <2>12 DEF Seen
<1>28. IsAscending(fs, FunctionBefore(uris, ToSet(fs)))
  <2>1. \A k \in DOMAIN fs : fs[k] \in ToSet(fs)
    BY PlacesOf
  <2>2. \A k, l \in DOMAIN fs : k < l => <<fs[k], fs[l]>> \in FunctionBefore(uris, ToSet(fs))
    BY <1>19, <1>27, <2>1 DEF FunctionBefore, Ordered
  <2>3. QED
    BY <1>20, <2>2 DEF IsAscending
<1>29. QED
  BY <1>26, <1>28 DEF uris, fs

LEMMA BuiltInOrder ==
  ASSUME NEW p, IsCalling(p), Consistent(p), IsDistinct(p), SpacesUsed(p), OneKindOfSpace(p),
         NEW sections, UrisInOrder(sections), NamesInOrder(sections),
         NEW r, NEW b, BuiltFrom(p, sections, r, b), FieldsOnly(b)
  PROVE  IsNormal(b)
<1>1. IsCalling(b) /\ Consistent(b)
  BY PlanComesBack
<1>2. /\ IsAscending(UrisOf(b), UriBefore) /\ ToSet(UrisOf(b)) \subseteq ToSet(Uris)
      /\ \A i \in DOMAIN b.spaces : b.spaces[i] = [anchor |-> i, uri |-> UrisOf(b)[i]]
  BY SpacesBuiltInOrder
<1>3. /\ IsAscending(FunctionsIn(b), FunctionBefore(UrisOf(b), ToSet(FunctionsIn(b))))
      /\ \A e \in DOMAIN b.extensions :
           b.extensions[e] = [ kind   |-> "function", space |-> Place(UrisOf(b), FunctionsIn(b)[e][1]),
                               name   |-> FunctionsIn(b)[e][2],
                               anchor |-> e - 1 ]
  BY FunctionsBuiltInOrder
<1>4. ASSUME NEW c \in DOMAIN b.calls
      PROVE  /\ b.calls[c] = [path |-> b.calls[c].path, function |-> b.calls[c].function]
             /\ \E e \in DOMAIN b.extensions : b.calls[c].function = e - 1
  <2>1. b.calls[c] = [path |-> p.calls[c].path, function |-> b.calls[c].function]
    BY DEF BuiltFrom, WordsKept
  <2>2. b.calls[c].path = p.calls[c].path
    BY <2>1
  <2>3. PICK e \in DOMAIN b.extensions : b.extensions[e].anchor = b.calls[c].function
    BY <1>1 DEF Consistent
  <2>4. b.extensions[e].anchor = e - 1
    <3>1. b.extensions[e] = [ kind   |-> "function", space |-> Place(UrisOf(b), FunctionsIn(b)[e][1]),
                              name   |-> FunctionsIn(b)[e][2],
                              anchor |-> e - 1 ]
      BY <1>3
    <3>2. QED
      BY <3>1
  <2>5. QED
    BY <2>1, <2>2, <2>3, <2>4
<1>5. IsSequence(b.spaces) /\ IsSequence(b.extensions) /\ IsSequence(b.calls)
  BY <1>1 DEF IsCalling
<1>6. QED
  BY <1>2, <1>3, <1>4, <1>5 DEF IsNormal, FieldsOnly

(* A text normalizes: if the short names sort as the names do, and all     *)
(* functions have a space or none has, the numbers the parser counts and   *)
(* the order it declares in are the normalizer's own, so that what comes   *)
(* back is the normalized plan as it stands.                               *)
THEOREM TextNormalizes ==
  (\A p \in Plans : Consistent(p) /\ NamesApart(p) /\ IsDistinct(p) /\ SpacesUsed(p))
    => (Spec => []TextIsNormal)
<1> SUFFICES ASSUME Sound, Declaring
             PROVE  Spec => []TextIsNormal
  BY DEF Sound, Declaring
<1>1. CallsInv /\ OrderInv /\ WordsInv => TextIsNormal
  <2> SUFFICES ASSUME CallsInv, OrderInv, WordsInv,
                      Passed("build"), OneKindOfSpace(plan), ShortInOrder
               PROVE  back = normal
    BY DEF TextIsNormal
  <2>1. stage \in {"again", "done"}
    BY StagesPlaced DEF Passed, CallsInv, NormalInv, AStage
  <2>2. normal = Normalized(plan) /\ plan \in Plans
    BY <2>1 DEF CallsInv, NormalInv
  <2>3. IsCalling(plan) /\ Consistent(plan) /\ NamesApart(plan) /\ IsDistinct(plan) /\ SpacesUsed(plan)
    BY <2>2, PlansAssumption DEF Sound, Declaring
  <2>4. BuiltFrom(plan, text.sections, read, back)
    BY BackIsBuilt
  <2>5. /\ Converted(plan, table, data, Len(plan.spaces), Len(plan.extensions))
        /\ text.sections = Sections(table, data)
    BY <2>1 DEF CallsInv, ConverterInv, TextInv, BeforeCalls, BeforePrint
  <2>6. ShortsInOrder(table, data)
    BY DEF ShortInOrder, ShortsInOrder
  <2>7. UrisInOrder(text.sections)
    BY <2>3, <2>5, SectionsInOrder
  <2>8. NamesInOrder(text.sections)
    BY <2>3, <2>5, <2>6, FunctionsInOrder
  <2>9. FieldsOnly(back)
    BY DEF WordsInv
  <2>10. IsNormal(back)
    BY <2>3, <2>4, <2>7, <2>8, <2>9, BuiltInOrder
  <2>11. SameContent(back, plan)
    BY <2>3, <2>4, PlanComesBack
  <2>12. IsNormal(normal) /\ SameContent(plan, normal)
    BY <2>2, <2>3, NormalizedIsNormal, ContentTurns
  <2>13. QED
    BY <2>10, <2>11, <2>12, ContentGoesOn, OneNormalForm
<1>2. Spec => [](CallsInv /\ OrderInv /\ WordsInv)
  BY OrderInvAlways
<1>3. QED
  BY <1>1, <1>2, PTL

-----------------------------------------------------------------------------
(***************************************************************************)
(* A text that was parsed is printed as it was.                            *)
(***************************************************************************)

\* A text as the printer writes it: no section is empty, all is sorted, and
\* lines have nothing but their names.
LinesOnly(section) ==
  /\ section = [uri |-> section.uri, functions |-> section.functions]
  /\ \A k \in DOMAIN section.functions :
       section.functions[k] = [name |-> section.functions[k].name, as |-> section.functions[k].as]

ShortsSorted(section) ==
  \A k, l \in DOMAIN section.functions :
    k < l => Before(ShortNames, section.functions[k].as, section.functions[l].as)

WellPrinted(p, sections) ==
  /\ Placed(p, sections) /\ UrisDiffer(sections) /\ UrisInOrder(sections)
  /\ \A s \in DOMAIN sections :
       /\ LinesOnly(sections[s]) /\ ShortsSorted(sections[s])
       /\ \E k : k \in DOMAIN sections[s].functions

\* No function is without a space.
AllInSpaces(r) == \A i \in OfType(r.table, "function") : r.data[i].space # NoSpace

\* A section printed of functions that no name is common to is sorted.
LEMMA SectionSorted ==
  ASSUME NEW t, NEW d, NEW space, NEW fs, NEW section, SectionOf(t, d, space, fs, section),
         \A i \in FunctionsOf(t, d, space) : t.symbols[i].name \in ToSet(ShortNames),
         \A i, j \in FunctionsOf(t, d, space) : t.symbols[i].name = t.symbols[j].name => i = j
  PROVE  LinesOnly(section) /\ ShortsSorted(section)
<1>1. /\ section.functions = [k \in DOMAIN fs |->
                               [name |-> d[fs[k]].name, as |-> t.symbols[fs[k]].name]]
      /\ section = [uri |-> section.uri, functions |-> section.functions]
  BY DEF SectionOf
<1>2. DOMAIN section.functions = DOMAIN fs
  BY <1>1
<1>3. ASSUME NEW k \in DOMAIN section.functions
      PROVE  /\ k \in DOMAIN fs
             /\ section.functions[k] = [name |-> d[fs[k]].name, as |-> t.symbols[fs[k]].name]
  BY <1>1
<1>4. LinesOnly(section)
  <2>1. ASSUME NEW k \in DOMAIN section.functions
        PROVE  section.functions[k] = [name |-> section.functions[k].name, as |-> section.functions[k].as]
    <3>1. section.functions[k] = [name |-> d[fs[k]].name, as |-> t.symbols[fs[k]].name]
      BY <1>3
    <3>2. QED
      BY <3>1
  <2>2. QED
    BY <1>1, <2>1 DEF LinesOnly
<1>5. ASSUME NEW k \in DOMAIN section.functions, NEW l \in DOMAIN section.functions, k < l
      PROVE  Before(ShortNames, section.functions[k].as, section.functions[l].as)
  <2> DEFINE i == fs[k]
             j == fs[l]
  <2>1. k \in DOMAIN fs /\ l \in DOMAIN fs
    BY <1>2
  <2>2. section.functions[k].as = t.symbols[i].name /\ section.functions[l].as = t.symbols[j].name
    <3>1. /\ section.functions[k] = [name |-> d[i].name, as |-> t.symbols[i].name]
          /\ section.functions[l] = [name |-> d[j].name, as |-> t.symbols[j].name]
      BY <1>3
    <3>2. QED
      BY <3>1
  <2>3. /\ i \in FunctionsOf(t, d, space) /\ j \in FunctionsOf(t, d, space)
        /\ i # j /\ ~PrintedBefore(t, d, j, i)
    BY <1>5, <2>1 DEF SectionOf, Lists
  <2> HIDE DEF i, j
  <2>4. /\ t.symbols[i].name # t.symbols[j].name
        /\ t.symbols[i].name \in ToSet(ShortNames) /\ t.symbols[j].name \in ToSet(ShortNames)
    BY <2>3
  <2>5. ~Before(ShortNames, t.symbols[j].name, t.symbols[i].name)
    BY <2>3 DEF PrintedBefore
  <2>6. Before(ShortNames, t.symbols[i].name, t.symbols[j].name)
    BY <2>4, <2>5, PlacesDiffer, OrdersAssumption
  <2>7. QED
    BY <2>2, <2>6
<1>6. ShortsSorted(section)
  BY <1>5 DEF ShortsSorted
<1>7. QED
  BY <1>4, <1>6

\* What the printer writes of a plan.
LEMMA PrintsWell ==
  ASSUME NEW p, IsCalling(p), Consistent(p), NamesApart(p), IsDistinct(p), ShortsKnown(p),
         NEW t, NEW d, Converted(p, t, d, Len(p.spaces), Len(p.extensions))
  PROVE  WellPrinted(p, Sections(t, d))
<1> DEFINE used == UsedSpaces(t, d)
           sections == Sections(t, d)
<1>1. IsFiniteSet(OfType(t, "function"))
  BY ConvertedHas DEF FunctionsOfPlan
<1>2. /\ sections = [k \in DOMAIN used |-> Section(t, d, used[k])]
      /\ \A k \in DOMAIN used : \E e \in DOMAIN p.extensions : used[k] = p.extensions[e].space
  BY UsedSpacesAre DEF Sections
<1>3. Placed(p, sections) /\ UrisDiffer(sections) /\ UrisInOrder(sections)
  BY SectionsPlaced, SectionsDiffer, SectionsInOrder
<1> HIDE DEF sections, used
<1>4. ASSUME NEW s \in DOMAIN sections
      PROVE  /\ LinesOnly(sections[s]) /\ ShortsSorted(sections[s])
             /\ \E k : k \in DOMAIN sections[s].functions
  <2>1. s \in DOMAIN used /\ sections[s] = Section(t, d, used[s])
    BY <1>2
  <2>2. PICK e \in DOMAIN p.extensions : used[s] = p.extensions[e].space
    BY <1>2, <2>1
  <2>3. SectionFor(p, sections[s], used[s])
    <3>1. used[s] # NoSpace
      BY <2>2, CallingHas DEF NoSpace
    <3>2. QED
      BY <2>1, <3>1, SectionIs
  <2>4. \E k : k \in DOMAIN sections[s].functions
    BY <2>2, <2>3 DEF SectionFor
  <2>5. PICK fs : SectionOf(t, d, used[s], fs, sections[s])
    BY <1>1, <2>1, SectionIsOf
  <2>6. \A i \in FunctionsOf(t, d, used[s]) : OfSpace(p, t, d, used[s], i)
    BY FunctionsOfSpace
  <2>7. \A i \in FunctionsOf(t, d, used[s]) : t.symbols[i].name \in ToSet(ShortNames)
    BY <2>6 DEF OfSpace, ShortsKnown
  <2>8. ASSUME NEW i \in FunctionsOf(t, d, used[s]), NEW j \in FunctionsOf(t, d, used[s]),
               t.symbols[i].name = t.symbols[j].name
        PROVE  i = j
    <3>1. /\ ExtensionOf(p, i) \in DOMAIN p.extensions /\ ExtensionOf(p, j) \in DOMAIN p.extensions
          /\ SymbolFor(p, ExtensionOf(p, i)) = i /\ SymbolFor(p, ExtensionOf(p, j)) = j
          /\ ShortNumbered(p, ExtensionOf(p, i)) = ShortNumbered(p, ExtensionOf(p, j))
      BY <2>6, <2>8 DEF OfSpace
    <3>2. ExtensionOf(p, i) = ExtensionOf(p, j)
      BY <3>1 DEF NamesApart
    <3>3. QED
      BY <3>1, <3>2
  <2>9. LinesOnly(sections[s]) /\ ShortsSorted(sections[s])
    BY <2>5, <2>7, <2>8, SectionSorted
  <2>10. QED
    BY <2>4, <2>9
<1>5. WellPrinted(p, sections)
  BY <1>3, <1>4 DEF WellPrinted
<1>6. QED
  BY <1>5 DEF sections

\* Function i is of the space of a URI.
SpaceNamed(t, d, i, uri) ==
  /\ uri # NoUri
  /\ SpaceName(t, d, d[i].space) = uri
  /\ \E a \in OfType(t, "space") : d[a].anchor = d[i].space /\ t.symbols[a].name = uri

\* The space of a function the parser knows has the URI of its section.
LEMMA SpaceOfLine ==
  ASSUME NEW p, NEW sections, Placed(p, sections),
         NEW r, ParsedAs(sections, r, Len(sections) + 1, 0), AllInSpaces(r),
         NEW i \in OfType(r.table, "function"), NEW s, NEW k, NEW e,
         StandsFor(p, sections, r.table, r.data, i, s, k, e)
  PROVE  SpaceNamed(r.table, r.data, i, sections[s].uri)
<1> DEFINE t == r.table
           d == r.data
<1>1. Tabled(t, d) /\ SpacesNumbered(t, d, r.numSpacesSeen)
  BY DEF ParsedAs, Parsed
<1>2. d[i].space # NoSpace
  BY DEF AllInSpaces
<1>3. SpaceGiven(t, d, sections[s].uri, d[i].space)
  BY DEF StandsFor
<1> HIDE DEF t, d
<1>4. sections[s].uri # NoUri
  BY <1>2, <1>3 DEF SpaceGiven
<1>5. PICK a \in OfType(t, "space") : d[a].anchor = d[i].space /\ t.symbols[a].name = sections[s].uri
  BY <1>3, <1>4 DEF SpaceGiven, SpaceNumbered
<1>6. SpaceName(t, d, d[a].anchor) = t.symbols[a].name
  BY <1>1, SpaceNameNumbered
<1>7. SpaceNamed(t, d, i, sections[s].uri)
  BY <1>4, <1>5, <1>6 DEF SpaceNamed
<1>8. QED
  BY <1>7 DEF t, d

\* Every line is of a function the parser knows.
LEMMA LineIsKnown ==
  ASSUME NEW p, NEW sections, Placed(p, sections),
         NEW r, ParsedAs(sections, r, Len(sections) + 1, 0),
         NEW s \in DOMAIN sections, NEW k \in DOMAIN sections[s].functions
  PROVE  \E i \in OfType(r.table, "function") : \E e \in DOMAIN p.extensions :
           StandsFor(p, sections, r.table, r.data, i, s, k, e)
<1> DEFINE t == r.table
           d == r.data
<1>1. PlacesSeen(sections, t, d, Len(sections) + 1, 0)
  BY DEF ParsedAs, Parsed
<1>2. Seen(Len(sections) + 1, 0, s, k)
  BY SectionPositions DEF Seen
<1>3. PICK i \in OfType(t, "function") : FunctionAt(sections, t, d, i, s, k)
  BY <1>1, <1>2 DEF PlacesSeen
<1>4. PICK z \in DOMAIN sections : \E m \in DOMAIN sections[z].functions :
        \E e \in DOMAIN p.extensions : StandsFor(p, sections, t, d, i, z, m, e)
  BY FunctionStands
<1>5. PICK m \in DOMAIN sections[z].functions : \E e \in DOMAIN p.extensions :
        StandsFor(p, sections, t, d, i, z, m, e)
  BY <1>4
<1>6. PICK e \in DOMAIN p.extensions : StandsFor(p, sections, t, d, i, z, m, e)
  BY <1>5
<1>7. sections[z].functions[m].as = sections[s].functions[k].as
  BY <1>3, <1>6 DEF StandsFor, FunctionAt, ShortAt
<1>8. z = s /\ m = k
  BY <1>7 DEF Placed
<1>9. QED
  BY <1>6, <1>8

\* The sections printed of the parser's table have the URIs of the text.
LEMMA UrisPrintedAgain ==
  ASSUME NEW p, IsDistinct(p), NEW sections, WellPrinted(p, sections),
         NEW r, ParsedAs(sections, r, Len(sections) + 1, 0), AllInSpaces(r)
  PROVE  LET used == UsedSpaces(r.table, r.data)
         IN /\ DOMAIN used = DOMAIN sections
            /\ \A k \in DOMAIN used : /\ SpaceName(r.table, r.data, used[k]) = sections[k].uri
                                      /\ \E i \in OfType(r.table, "function") :
                                           used[k] = r.data[i].space
<1> DEFINE t == r.table
           d == r.data
           F == OfType(t, "function")
           used == UsedSpaces(t, d)
           name(x) == SpaceName(t, d, x)
           a == [k \in DOMAIN used |-> name(used[k])]
           b == [k \in DOMAIN sections |-> sections[k].uri]
<1>1. Tabled(t, d)
  BY DEF ParsedAs, Parsed
<1>2. IsFiniteSet(F) /\ F \in SUBSET Nat
  BY <1>1, SymbolPositions
<1>3. /\ IsSequence(used)
      /\ \A k \in DOMAIN used : \E i \in F : used[k] = d[i].space
      /\ \A i \in F : \E k \in DOMAIN used : name(used[k]) = name(d[i].space)
      /\ \A k, l \in DOMAIN used : k < l => ~Before(Uris, name(used[l]), name(used[k]))
      /\ \A k, l \in DOMAIN used : name(used[k]) = name(used[l]) => k = l
  BY <1>2, UsedSpacesSorted
<1>4. Placed(p, sections) /\ UrisInOrder(sections)
  BY DEF WellPrinted
<1>5. ASSUME NEW i \in F
      PROVE  \E s \in DOMAIN sections : name(d[i].space) = sections[s].uri /\ sections[s].uri # NoUri
  <2>1. PICK s \in DOMAIN sections : \E k \in DOMAIN sections[s].functions :
          \E e \in DOMAIN p.extensions : StandsFor(p, sections, t, d, i, s, k, e)
    BY <1>4, FunctionStands
  <2>2. PICK k \in DOMAIN sections[s].functions : \E e \in DOMAIN p.extensions :
          StandsFor(p, sections, t, d, i, s, k, e)
    BY <2>1
  <2>3. PICK e \in DOMAIN p.extensions : StandsFor(p, sections, t, d, i, s, k, e)
    BY <2>2
  <2>4. SpaceNamed(t, d, i, sections[s].uri)
    BY <1>4, <2>3, SpaceOfLine
  <2>5. QED
    BY <2>4 DEF SpaceNamed
<1>6. ASSUME NEW s \in DOMAIN sections
      PROVE  /\ sections[s].uri \in ToSet(Uris)
             /\ \E i \in F : name(d[i].space) = sections[s].uri
  <2>1. PICK k : k \in DOMAIN sections[s].functions
    BY DEF WellPrinted
  <2>2. PICK i \in F : \E e \in DOMAIN p.extensions : StandsFor(p, sections, t, d, i, s, k, e)
    BY <1>4, <2>1, LineIsKnown
  <2>3. PICK e \in DOMAIN p.extensions : StandsFor(p, sections, t, d, i, s, k, e)
    BY <2>2
  <2>4. SpaceNamed(t, d, i, sections[s].uri)
    BY <1>4, <2>3, SpaceOfLine
  <2>5. name(d[i].space) = sections[s].uri /\ sections[s].uri # NoUri
    BY <2>4 DEF SpaceNamed
  <2>6. \E z \in DOMAIN p.spaces : sections[s].uri = p.spaces[z].uri
    BY <1>4, <2>5 DEF Placed
  <2>7. sections[s].uri \in ToSet(Uris)
    BY <2>6 DEF IsDistinct
  <2>8. QED
    BY <2>5, <2>7
<1> HIDE DEF t, d, F, used, name
<1>7. /\ DOMAIN a = DOMAIN used /\ \A k \in DOMAIN used : a[k] = name(used[k])
      /\ DOMAIN b = DOMAIN sections /\ \A k \in DOMAIN sections : b[k] = sections[k].uri
  OBVIOUS
<1>8. IsSequence(a) /\ IsSequence(b)
  <2>1. /\ DOMAIN used = 1..Len(used) /\ Len(used) \in Nat
        /\ DOMAIN sections = 1..Len(sections) /\ Len(sections) \in Nat
    BY <1>3, <1>4, SequenceHas DEF Placed
  <2>2. a = [k \in 1..Len(used) |-> a[k]] /\ b = [k \in 1..Len(sections) |-> b[k]]
    BY <2>1
  <2> HIDE DEF a, b
  <2>3. QED
    BY <2>1, <2>2, ListIsSequence
<1> HIDE DEF a, b
<1>9. /\ \A k \in DOMAIN a : \E s \in DOMAIN b : b[s] = a[k]
      /\ \A s \in DOMAIN b : \E k \in DOMAIN a : a[k] = b[s]
      /\ \A s \in DOMAIN b : b[s] \in ToSet(Uris)
  <2>1. ASSUME NEW k \in DOMAIN a
        PROVE  \E s \in DOMAIN b : b[s] = a[k]
    <3>1. PICK i \in F : used[k] = d[i].space
      BY <1>3, <1>7
    <3>2. PICK s \in DOMAIN sections : name(d[i].space) = sections[s].uri
      BY <1>5
    <3>3. QED
      BY <1>7, <3>1, <3>2
  <2>2. ASSUME NEW s \in DOMAIN b
        PROVE  b[s] \in ToSet(Uris) /\ \E k \in DOMAIN a : a[k] = b[s]
    <3>1. b[s] \in ToSet(Uris)
      BY <1>6, <1>7
    <3>2. PICK i \in F : name(d[i].space) = b[s]
      BY <1>6, <1>7
    <3>3. PICK k \in DOMAIN used : name(used[k]) = name(d[i].space)
      BY <1>3
    <3>4. QED
      BY <1>7, <3>1, <3>2, <3>3
  <2>3. QED
    BY <2>1, <2>2
<1>10. SameElements(a, b) /\ ToSet(a) \subseteq ToSet(Uris) /\ ToSet(b) \subseteq ToSet(Uris)
  <2>1. \A x \in ToSet(a) : x \in ToSet(b)
    BY <1>9 DEF ToSet
  <2>2. \A x \in ToSet(b) : x \in ToSet(a) /\ x \in ToSet(Uris)
    BY <1>9, PlacesOf
  <2>3. QED
    BY <2>1, <2>2 DEF SameElements
<1>11. IsAscending(a, UriBefore)
  <2>1. ASSUME NEW k \in DOMAIN a, NEW l \in DOMAIN a, k < l
        PROVE  <<a[k], a[l]>> \in UriBefore
    <3>1. a[k] \in ToSet(Uris) /\ a[l] \in ToSet(Uris)
      BY <1>10, PlacesOf
    <3>2. ~Before(Uris, a[l], a[k])
      BY <1>3, <1>7, <2>1
    <3>3. a[k] # a[l]
      <4>1. k \in Nat /\ l \in Nat
        BY <1>8, SequenceHas
      <4>2. k # l
        BY <2>1, <4>1
      <4>3. QED
        BY <1>3, <1>7, <4>2
    <3>4. Before(Uris, a[k], a[l])
      BY <3>1, <3>2, <3>3, PlacesDiffer, OrdersAssumption
    <3>5. QED
      BY <3>1, <3>4 DEF UriBefore, Ordered
  <2>2. QED
    BY <1>8, <2>1 DEF IsAscending
<1>12. IsAscending(b, UriBefore)
  <2>1. ASSUME NEW k \in DOMAIN b, NEW l \in DOMAIN b, k < l
        PROVE  <<b[k], b[l]>> \in UriBefore
    <3>1. b[k] \in ToSet(Uris) /\ b[l] \in ToSet(Uris)
      BY <1>9
    <3>2. Before(Uris, b[k], b[l])
      BY <1>4, <1>7, <2>1 DEF UrisInOrder
    <3>3. QED
      BY <3>1, <3>2 DEF UriBefore, Ordered
  <2>2. QED
    BY <1>8, <2>1 DEF IsAscending
<1>13. a = b
  BY <1>10, <1>11, <1>12, UrisOrdered, AscendingOnce
<1>14. DOMAIN used = DOMAIN sections /\ \A k \in DOMAIN used : name(used[k]) = sections[k].uri
  BY <1>7, <1>13
<1>15. QED
  BY <1>3, <1>14 DEF t, d, F, used, name

\* A section printed again has the lines it had.
LEMMA SectionAgain ==
  ASSUME NEW p, IsCalling(p), Consistent(p), SpacesUsed(p), ShortsKnown(p),
         NEW sections, WellPrinted(p, sections),
         NEW r, ParsedAs(sections, r, Len(sections) + 1, 0),
         ReadInTurn(sections, r, Len(sections) + 1, 0), AllInSpaces(r),
         NEW s \in DOMAIN sections, NEW space,
         SpaceName(r.table, r.data, space) = sections[s].uri,
         \E i \in OfType(r.table, "function") : space = r.data[i].space
  PROVE  Section(r.table, r.data, space) = sections[s]
<1> DEFINE t == r.table
           d == r.data
           F == OfType(t, "function")
           new == Section(t, d, space)
           a == new.functions
           b == sections[s].functions
           Line(i, x) == x = [name |-> d[i].name, as |-> t.symbols[i].name]
           T == ToSet(b)
           R == Ordered(T, LAMBDA x, y : Before(ShortNames, x.as, y.as))
<1>1. Placed(p, sections) /\ UrisDiffer(sections) /\ LinesOnly(sections[s]) /\ ShortsSorted(sections[s])
  BY DEF WellPrinted
<1>2. Tabled(t, d)
  BY DEF ParsedAs, Parsed
<1>3. IsFiniteSet(F)
  BY <1>2, SymbolPositions
<1>4. \A i, j \in OfType(t, "space") : t.symbols[i].name = t.symbols[j].name => i = j
  BY <1>1, SpacesKnown
<1>5. ASSUME NEW i \in F
      PROVE  \E z \in DOMAIN sections : \E k \in DOMAIN sections[z].functions :
               /\ SpaceNamed(t, d, i, sections[z].uri)
               /\ FunctionAt(sections, t, d, i, z, k)
               /\ ShortAt(sections, z, k) \in ToSet(ShortNames)
  <2>1. PICK z \in DOMAIN sections : \E k \in DOMAIN sections[z].functions :
          \E e \in DOMAIN p.extensions : StandsFor(p, sections, t, d, i, z, k, e)
    BY <1>1, FunctionStands
  <2>2. PICK k \in DOMAIN sections[z].functions : \E e \in DOMAIN p.extensions :
          StandsFor(p, sections, t, d, i, z, k, e)
    BY <2>1
  <2>3. PICK e \in DOMAIN p.extensions : StandsFor(p, sections, t, d, i, z, k, e)
    BY <2>2
  <2>4. SpaceNamed(t, d, i, sections[z].uri)
    BY <1>1, <2>3, SpaceOfLine
  <2>5. FunctionAt(sections, t, d, i, z, k) /\ PrintedAt(p, sections, z, k, e)
    BY <2>3 DEF StandsFor
  <2>6. ShortAt(sections, z, k) \in ToSet(ShortNames)
    BY <2>5 DEF PrintedAt, ShortAt, ShortsKnown
  <2>7. QED
    BY <2>4, <2>5, <2>6
<1>6. ASSUME NEW k \in DOMAIN b
      PROVE  \E i \in F : SpaceNamed(t, d, i, sections[s].uri) /\ FunctionAt(sections, t, d, i, s, k)
  <2>1. PICK i \in F : \E e \in DOMAIN p.extensions : StandsFor(p, sections, t, d, i, s, k, e)
    BY <1>1, LineIsKnown
  <2>2. PICK e \in DOMAIN p.extensions : StandsFor(p, sections, t, d, i, s, k, e)
    BY <2>1
  <2>3. SpaceNamed(t, d, i, sections[s].uri)
    BY <1>1, <2>2, SpaceOfLine
  <2>4. FunctionAt(sections, t, d, i, s, k)
    BY <2>2 DEF StandsFor
  <2>5. QED
    BY <2>3, <2>4
<1>7. \A i \in F : d[i].space # NoSpace
  BY DEF AllInSpaces
<1>8. PICK fs : SectionOf(t, d, space, fs, new)
  BY <1>3, SectionIsOf
<1>9. PICK q \in F : space = d[q].space
  OBVIOUS
<1>10. IsSequence(b)
  BY <1>1 DEF Placed
<1>11. SpaceName(t, d, space) = sections[s].uri
  OBVIOUS
<1> HIDE DEF t, d, F, new, b
<1>12. LinesOnly(new) /\ ShortsSorted(new)
  <2>1. \A i \in FunctionsOf(t, d, space) : i \in F
    BY DEF FunctionsOf, F
  <2>2. ASSUME NEW i \in F
        PROVE  /\ t.symbols[i].name \in ToSet(ShortNames)
               /\ t.byName[t.symbols[i].name] = i
    BY <1>5 DEF FunctionAt
  <2>3. \A i, j \in F : t.symbols[i].name = t.symbols[j].name => i = j
    BY <2>2
  <2>4. QED
    BY <1>8, <2>1, <2>2, <2>3, SectionSorted
<1>13. new.uri = sections[s].uri
  <2>1. new = [ uri |-> SpaceName(t, d, space),
                functions |-> [k \in DOMAIN fs |->
                                 [name |-> d[fs[k]].name, as |-> t.symbols[fs[k]].name]] ]
    BY <1>8 DEF SectionOf
  <2>2. QED
    BY <1>11, <2>1
<1>14. /\ DOMAIN a = DOMAIN fs /\ \A k \in DOMAIN fs : Line(fs[k], a[k])
       /\ IsSequence(a)
  <2>1. new.functions = [k \in DOMAIN fs |->
                           [name |-> d[fs[k]].name, as |-> t.symbols[fs[k]].name]]
    BY <1>8 DEF SectionOf
  <2>2. DOMAIN fs = 1..Len(fs) /\ Len(fs) \in Nat
    BY <1>8, SequenceHas DEF SectionOf, Lists
  <2>3. new.functions = [k \in 1..Len(fs) |-> new.functions[k]]
    BY <2>1, <2>2
  <2>4. IsSequence(new.functions)
    BY <2>2, <2>3, ListIsSequence
  <2>5. QED
    BY <2>1, <2>4
<1>15. \A i \in FunctionsOf(t, d, space) : i \in F /\ d[i].space = space
  BY <1>7 DEF FunctionsOf, F
<1>16. ASSUME NEW k \in DOMAIN a
       PROVE  \E m \in DOMAIN b : b[m] = a[k]
  <2> DEFINE i == fs[k]
  <2>1. i \in F /\ d[i].space = space /\ Line(i, a[k])
    BY <1>8, <1>14, <1>15 DEF SectionOf, Lists
  <2> HIDE DEF i, a
  <2>2. PICK z \in DOMAIN sections : \E m \in DOMAIN sections[z].functions :
          SpaceNamed(t, d, i, sections[z].uri) /\ FunctionAt(sections, t, d, i, z, m)
    BY <1>5, <2>1
  <2>3. PICK m \in DOMAIN sections[z].functions :
          SpaceNamed(t, d, i, sections[z].uri) /\ FunctionAt(sections, t, d, i, z, m)
    BY <2>2
  <2>4. sections[z].uri = sections[s].uri
    BY <1>11, <2>1, <2>3 DEF SpaceNamed
  <2>5. z = s
    BY <1>1, <2>4 DEF UrisDiffer
  <2>6. m \in DOMAIN b /\ b[m].name = d[i].name /\ b[m].as = t.symbols[i].name
    BY <2>3, <2>5 DEF FunctionAt, ShortAt, b
  <2>7. b[m] = [name |-> b[m].name, as |-> b[m].as]
    BY <1>1, <2>6 DEF LinesOnly, b
  <2>8. b[m] = a[k]
    BY <2>1, <2>6, <2>7
  <2>9. QED
    BY <2>6, <2>8
<1>17. ASSUME NEW m \in DOMAIN b
       PROVE  \E k \in DOMAIN a : a[k] = b[m]
  <2>1. PICK i \in F : SpaceNamed(t, d, i, sections[s].uri) /\ FunctionAt(sections, t, d, i, s, m)
    BY <1>6
  <2>2. PICK x \in OfType(t, "space") : d[x].anchor = d[i].space /\ t.symbols[x].name = sections[s].uri
    BY <2>1 DEF SpaceNamed
  <2>3. PICK z \in DOMAIN sections : SpaceNamed(t, d, q, sections[z].uri)
    BY <1>5
  <2>4. sections[z].uri = sections[s].uri
    BY <1>9, <1>11, <2>3 DEF SpaceNamed
  <2>5. PICK y \in OfType(t, "space") : d[y].anchor = d[q].space /\ t.symbols[y].name = sections[s].uri
    BY <2>3, <2>4 DEF SpaceNamed
  <2>6. d[i].space = space
    BY <1>4, <1>9, <2>2, <2>5
  <2>7. i \in FunctionsOf(t, d, space)
    BY <2>6 DEF FunctionsOf, F
  <2>8. PICK k \in DOMAIN fs : fs[k] = i
    BY <1>8, <2>7 DEF SectionOf, Lists
  <2>9. k \in DOMAIN a /\ Line(i, a[k])
    BY <1>14, <2>8
  <2>10. b[m].name = d[i].name /\ b[m].as = t.symbols[i].name
    BY <2>1 DEF FunctionAt, ShortAt, b
  <2>11. b[m] = [name |-> b[m].name, as |-> b[m].as]
    BY <1>1 DEF LinesOnly, b
  <2> HIDE DEF a
  <2>12. a[k] = b[m]
    BY <2>9, <2>10, <2>11
  <2>13. QED
    BY <2>9, <2>12
<1>18. /\ \A k, l \in DOMAIN a : k < l => Before(ShortNames, a[k].as, a[l].as)
       /\ \A k, l \in DOMAIN b : k < l => Before(ShortNames, b[k].as, b[l].as)
  BY <1>1, <1>12 DEF ShortsSorted, b
<1> HIDE DEF a
<1>19. SameElements(a, b) /\ ToSet(a) \subseteq T
  <2>1. \A x \in ToSet(a) : x \in T
    BY <1>16, PlacesOf
  <2>2. \A x \in T : x \in ToSet(a)
    BY <1>17, PlacesOf
  <2>3. QED
    BY <2>1, <2>2 DEF SameElements
<1>20. \A x, y \in T : <<x, y>> \in R <=> Before(ShortNames, x.as, y.as)
  BY DEF Ordered
<1> HIDE DEF R
<1>21. IsStrictOrder(T, R)
  <2> DEFINE at(x) == Place(ShortNames, x.as)
  <2>1. \A x, y \in T : <<x, y>> \in R <=> at(x) < at(y)
    BY <1>20 DEF Before
  <2>2. \A x \in T : at(x) \in Nat
    BY PlaceIsNumber, OrdersAssumption
  <2> HIDE DEF at, T
  <2>3. QED
    BY <2>1, <2>2 DEF IsStrictOrder
<1>22. \A k \in DOMAIN a : a[k] \in T
  BY <1>19, PlacesOf
<1>23. \A k \in DOMAIN b : b[k] \in T
  BY PlacesOf
<1> HIDE DEF T
<1>24. IsAscending(a, R)
  BY <1>14, <1>18, <1>20, <1>22 DEF IsAscending
<1>25. IsAscending(b, R)
  BY <1>10, <1>18, <1>20, <1>23 DEF IsAscending
<1>26. a = b
  BY <1>19, <1>21, <1>24, <1>25, AscendingOnce
<1>27. new = sections[s]
  <2>1. new = [uri |-> new.uri, functions |-> a]
    BY <1>12 DEF LinesOnly, a
  <2>2. sections[s] = [uri |-> sections[s].uri, functions |-> b]
    BY <1>1 DEF LinesOnly, b
  <2>3. QED
    BY <1>13, <1>26, <2>1, <2>2
<1>28. QED
  BY <1>27 DEF new, t, d

\* All sections are printed as they were.
LEMMA SectionsAgain ==
  ASSUME NEW p, IsCalling(p), Consistent(p), IsDistinct(p), SpacesUsed(p), ShortsKnown(p),
         NEW sections, WellPrinted(p, sections),
         NEW r, ParsedAs(sections, r, Len(sections) + 1, 0),
         ReadInTurn(sections, r, Len(sections) + 1, 0), AllInSpaces(r)
  PROVE  Sections(r.table, r.data) = sections
<1> DEFINE t == r.table
           d == r.data
           used == UsedSpaces(t, d)
<1>1. /\ DOMAIN used = DOMAIN sections
      /\ \A k \in DOMAIN used : /\ SpaceName(t, d, used[k]) = sections[k].uri
                                /\ \E i \in OfType(t, "function") : used[k] = d[i].space
  BY UrisPrintedAgain
<1>2. ASSUME NEW k \in DOMAIN sections
      PROVE  Section(t, d, used[k]) = sections[k]
  <2>1. /\ SpaceName(t, d, used[k]) = sections[k].uri
        /\ \E i \in OfType(t, "function") : used[k] = d[i].space
    BY <1>1
  <2> HIDE DEF used
  <2>2. QED
    BY <2>1, SectionAgain
<1>3. Sections(t, d) = [k \in DOMAIN used |-> Section(t, d, used[k])]
  BY DEF Sections
<1> HIDE DEF used
<1>4. Sections(t, d) = [k \in DOMAIN sections |-> sections[k]]
  BY <1>1, <1>2, <1>3
<1>5. sections = [k \in DOMAIN sections |-> sections[k]]
  BY ListOf DEF WellPrinted, Placed
<1>6. QED
  BY <1>4, <1>5

\* What calls are printed as.
CallsPrinted(t, d, calls) ==
  [c \in DOMAIN calls |-> t.symbols[Calls(t, d, calls[c].function)].name]

LEMMA CallsAgain ==
  ASSUME NEW p, IsCalling(p), Consistent(p), NEW sections, Placed(p, sections),
         NEW r, ParsedAs(sections, r, Len(sections) + 1, 0),
         NEW names, CallsNamed(p, names, Len(p.calls)),
         NEW calls, CallsBack(p, r, calls, Len(p.calls))
  PROVE  CallsPrinted(r.table, r.data, calls) = names
<1> DEFINE t == r.table
           d == r.data
           F == OfType(t, "function")
<1>1. /\ DOMAIN names = DOMAIN p.calls /\ DOMAIN calls = DOMAIN p.calls
      /\ DOMAIN p.calls = 1..Len(p.calls) /\ IsSequence(names)
  <2>1. /\ IsSequence(names) /\ Len(names) = Len(p.calls)
        /\ IsSequence(calls) /\ Len(calls) = Len(p.calls)
        /\ IsSequence(p.calls)
    BY DEF CallsNamed, CallsBack, IsCalling
  <2>2. QED
    BY <2>1, SequenceHas
<1>2. Tabled(t, d) /\ FunctionsNumbered(t, d, r.numFunctionsSeen)
  BY DEF ParsedAs, Parsed
<1>3. ASSUME NEW c \in DOMAIN p.calls
      PROVE  t.symbols[Calls(t, d, calls[c].function)].name = names[c]
  <2>1. PICK e \in DOMAIN p.extensions : p.extensions[e].anchor = p.calls[c].function
    BY DEF Consistent
  <2> DEFINE i == LookupSymbolByName(t, ShortNumbered(p, e))
  <2>2. names[c] = ShortNumbered(p, e) /\ calls[c].function = d[i].anchor
    BY <1>1, <2>1 DEF CallsNamed, CallsBack
  <2>3. i \in F
    BY FunctionComesBack
  <2>4. PICK s \in DOMAIN sections : \E k \in DOMAIN sections[s].functions :
          PrintedAt(p, sections, s, k, e)
    BY DEF Placed
  <2>5. PICK k \in DOMAIN sections[s].functions : PrintedAt(p, sections, s, k, e)
    BY <2>4
  <2>6. PICK j \in F : \E f \in DOMAIN p.extensions : StandsFor(p, sections, t, d, j, s, k, f)
    BY LineIsKnown
  <2>7. FunctionAt(sections, t, d, j, s, k)
    BY <2>6 DEF StandsFor
  <2>8. i = j /\ t.symbols[j].name = ShortNumbered(p, e)
    BY <2>5, <2>7 DEF FunctionAt, ShortAt, PrintedAt, LookupSymbolByName
  <2> DEFINE S == {x \in F : d[x].anchor = d[i].anchor}
  <2> HIDE DEF i
  <2>9. S = {i}
    BY <1>2, <2>3 DEF FunctionsNumbered
  <2>10. i \in Nat
    BY <1>2, <2>3, SymbolPositions
  <2>11. First(S) = i
    BY <2>9, <2>10, FirstIs
  <2>12. Calls(t, d, d[i].anchor) = i
    BY <2>11 DEF Calls
  <2>13. QED
    BY <2>2, <2>8, <2>12
<1>4. CallsPrinted(t, d, calls) = [c \in DOMAIN names |-> names[c]]
  BY <1>1, <1>3 DEF CallsPrinted
<1>5. names = [c \in DOMAIN names |-> names[c]]
  BY <1>1, ListOf
<1>6. QED
  BY <1>4, <1>5

\* The second text is of the parser's table, and was not printed without all
\* functions in spaces.
PrintedAgain == stage = "done" \/ (stage = "again" /\ next # 1 /\ errors = {})

AgainInv ==
  /\ text = [calls |-> text.calls, sections |-> text.sections]
  /\ PrintedAgain =>
       /\ AllInSpaces(read)
       /\ again = [calls    |-> CallsPrinted(read.table, read.data, back.calls),
                   sections |-> Sections(read.table, read.data)]

LEMMA AgainInvInit ==
  ASSUME Init
  PROVE  AgainInv
<1>1. text = NoText /\ stage = "spaces"
  BY DEF Init, Stages
<1>2. QED
  BY <1>1 DEF AgainInv, PrintedAgain, NoText

LEMMA AgainInvStage ==
  ASSUME CallsInv, AgainInv, NextStage
  PROVE  AgainInv'
<1>1. /\ Follow(stage, stage') /\ next' = 1 /\ next > Len(Visited(stage)) /\ errors = {}
      /\ UNCHANGED <<text, read, back, again>>
  BY StageFollows DEF NextStage, CallsInv, NormalInv
<1>2. PrintedAgain' => PrintedAgain
  <2> SUFFICES ASSUME PrintedAgain'
               PROVE  PrintedAgain
    OBVIOUS
  <2>1. stage' = "done"
    BY <1>1 DEF PrintedAgain
  <2>2. stage = "again"
    BY <1>1, <2>1 DEF Follow
  <2>3. Visited(stage) = <<"again">>
    BY <2>2 DEF Visited
  <2>4. next # 1
    BY <1>1, <2>3
  <2>5. QED
    BY <1>1, <2>2, <2>4 DEF PrintedAgain
<1>3. QED
  BY <1>1, <1>2 DEF AgainInv

LEMMA AgainInvMove ==
  ASSUME CallsInv, AgainInv, Moves, Stays
  PROVE  AgainInv'
<1>1. stage' = stage /\ stage # "done"
  BY DEF Moves, Stays
<1>2. text' = [calls |-> text'.calls, sections |-> text'.sections]
  <2>1. CASE stage = "calls"
    <3>1. PICK x : text' = [text EXCEPT !.calls = Append(@, x)]
      BY <2>1 DEF Moves, VisitScalarFunction
    <3>2. text = [calls |-> text.calls, sections |-> text.sections]
      BY DEF AgainInv
    <3>3. QED
      BY <3>1, <3>2
  <2>2. CASE stage = "print"
    <3>1. text' = [text EXCEPT !.sections = Sections(table, data)]
      BY <2>2 DEF Moves, OutputFunctionsSection
    <3>2. text = [calls |-> text.calls, sections |-> text.sections]
      BY DEF AgainInv
    <3>3. QED
      BY <3>1, <3>2
  <2>3. CASE stage \notin {"calls", "print"}
    BY <2>3 DEF Stays, AgainInv
  <2>4. QED
    BY <2>1, <2>2, <2>3
<1>3. CASE stage = "again"
  <2>1. OutputTextAgain /\ read' = read /\ back' = back
    BY <1>3 DEF Moves, Stays
  <2>2. ASSUME errors' = {}
        PROVE  /\ AllInSpaces(read)
               /\ again' = [calls    |-> CallsPrinted(read.table, read.data, back.calls),
                            sections |-> Sections(read.table, read.data)]
    <3>1. ~\E i \in OfType(read.table, "function") : read.data[i].space = NoSpace
      BY <2>1, <2>2 DEF OutputTextAgain
    <3>2. again' = [calls    |-> CallsPrinted(read.table, read.data, back.calls),
                    sections |-> Sections(read.table, read.data)]
      BY <2>1, <3>1 DEF OutputTextAgain, CallsPrinted
    <3>3. QED
      BY <3>1, <3>2 DEF AllInSpaces
  <2>3. PrintedAgain' => errors' = {}
    BY <1>1, <1>3 DEF PrintedAgain
  <2>4. QED
    BY <1>2, <2>1, <2>2, <2>3 DEF AgainInv
<1>4. CASE stage # "again"
  <2>1. ~PrintedAgain'
    BY <1>1, <1>4 DEF PrintedAgain
  <2>2. QED
    BY <1>2, <2>1 DEF AgainInv
<1>5. QED
  BY <1>3, <1>4

LEMMA AgainInvAlways ==
  ASSUME Sound
  PROVE  Spec => [](CallsInv /\ OrderInv /\ WordsInv /\ AgainInv)
<1>1. Spec => [](CallsInv /\ OrderInv /\ WordsInv)
  BY OrderInvAlways
<1>2. Init => AgainInv
  BY AgainInvInit
<1>3. CallsInv /\ AgainInv /\ [Next]_vars => AgainInv'
  <2> SUFFICES ASSUME CallsInv, AgainInv, [Next]_vars
               PROVE  AgainInv'
    OBVIOUS
  <2>1. CASE NextStage
    BY <2>1, AgainInvStage
  <2>2. CASE Next /\ ~NextStage
    BY <2>2, StageMoves, AgainInvMove
  <2>3. CASE UNCHANGED vars
    <3>1. UNCHANGED <<stage, next, errors, text, read, back, again>>
      BY <2>3 DEF vars
    <3>2. QED
      BY <3>1 DEF AgainInv, PrintedAgain, AllInSpaces
  <2>4. QED
    BY <2>1, <2>2, <2>3
<1>4. QED
  BY <1>1, <1>2, <1>3, PTL DEF Spec

\* No plan has a short name that is not among the strings.
ShortsAreKnown == \A p \in Plans : ShortsKnown(p)

(* What was parsed is printed as the text it was parsed from, sections,     *)
(* names and calls: the parser's table, filled in the order of the text,    *)
(* sorts into the lists that the converter's sorted into.                   *)
THEOREM PrintsAsItWas ==
  (\A p \in Plans :
     Consistent(p) /\ NamesApart(p) /\ IsDistinct(p) /\ SpacesUsed(p) /\ ShortsKnown(p))
    => (Spec => []SerializedAgain)
<1> SUFFICES ASSUME Sound, Declaring, ShortsAreKnown
             PROVE  Spec => []SerializedAgain
  BY DEF Sound, Declaring, ShortsAreKnown
<1>1. CallsInv /\ OrderInv /\ WordsInv /\ AgainInv => SerializedAgain
  <2> SUFFICES ASSUME CallsInv, OrderInv, WordsInv, AgainInv, Passed("again")
               PROVE  again = text
    BY DEF SerializedAgain
  <2>1. stage = "done"
    BY StagesPlaced DEF Passed, CallsInv, NormalInv, AStage
  <2>2. plan \in Plans
    BY DEF CallsInv, NormalInv
  <2>3. /\ IsCalling(plan) /\ Consistent(plan) /\ NamesApart(plan)
        /\ IsDistinct(plan) /\ SpacesUsed(plan) /\ ShortsKnown(plan)
    BY <2>2, PlansAssumption DEF Sound, Declaring, ShortsAreKnown
  <2>4. /\ Converted(plan, table, data, Len(plan.spaces), Len(plan.extensions))
        /\ text.sections = Sections(table, data)
        /\ CallsNamed(plan, text.calls, Len(plan.calls))
    BY <2>1 DEF CallsInv, ConverterInv, TextInv, BeforeCalls, BeforePrint
  <2>5. WellPrinted(plan, text.sections) /\ Placed(plan, text.sections)
    BY <2>3, <2>4, PrintsWell DEF WellPrinted
  <2>6. /\ ParsedAs(text.sections, read, Len(text.sections) + 1, 0)
        /\ CallsBack(plan, read, back.calls, Len(plan.calls))
        /\ ReadInTurn(text.sections, read, Len(text.sections) + 1, 0)
    BY <2>1 DEF CallsInv, ParserInv, BackInv, OrderInv, AfterSections
  <2>7. /\ AllInSpaces(read)
        /\ again = [calls    |-> CallsPrinted(read.table, read.data, back.calls),
                    sections |-> Sections(read.table, read.data)]
        /\ text = [calls |-> text.calls, sections |-> text.sections]
    BY <2>1 DEF AgainInv, PrintedAgain
  <2>8. Sections(read.table, read.data) = text.sections
    BY <2>3, <2>5, <2>6, <2>7, SectionsAgain
  <2>9. CallsPrinted(read.table, read.data, back.calls) = text.calls
    BY <2>3, <2>4, <2>5, <2>6, CallsAgain
  <2>10. QED
    BY <2>7, <2>8, <2>9
<1>2. Spec => [](CallsInv /\ OrderInv /\ WordsInv /\ AgainInv)
  BY AgainInvAlways
<1>3. QED
  BY <1>1, <1>2, PTL

=============================================================================
