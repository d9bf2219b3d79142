-------------------------- MODULE BinaryToTextProofs --------------------------
(***************************************************************************)
(* The two passes of the converter number the subqueries of every plan     *)
(* alike, however many relations and subqueries it has and however deep    *)
(* they lie in each other.                                                 *)
(***************************************************************************)
EXTENDS BinaryToText, SymbolTableLemmas

(***************************************************************************)
(* Places in a plan p.                                                     *)
(***************************************************************************)
Relations(p)     == {n \in 1..LastVisited(p) : p.node[n].kind \in RelationKinds}
SubqueriesOf(p)  == {n \in 1..LastVisited(p) : p.node[n].kind \in SubqueryKinds}

\* m is inside one of the first n nodes.
InsideUpTo(p, m, n) == \E k \in 1..n : m \in ToSet(Inside(p, k))

\* The nodes after m, up to n, are n and what is below it.
IsWhole(p, m, n) ==
  /\ m < n
  /\ \A k \in (m + 1)..(n - 1) : InsideUpTo(p, k, n)
  /\ \A k \in (m + 1)..n : \A c \in ToSet(Inside(p, k)) : m < c

Encloses(p, n, m) == m < n /\ \A k \in m..(n - 1) : InsideUpTo(p, k, n)

\* The relation a subquery is in, at any depth of expressions.
Around(p, e) == First({n \in Relations(p) : Encloses(p, n, e)})

-----------------------------------------------------------------------------
(***************************************************************************)
(* The inductive invariant.                                                *)
(***************************************************************************)

\* What a visit method visits is in the plan.
CallOK(p, c) ==
  /\ DOMAIN c = {"what", "node", "visited", "outer"}
  /\ c.visited \in 0..Len(VisitedBy(p, c))
  /\ \/ c.what = "plan" /\ c.outer = NoRelation
     \/ c.what = "planRelation" /\ c.node \in DOMAIN p.roots
     \/ c.what = "relation" /\ c.node \in Relations(p)
     \/ /\ c.what = "subquery" /\ c.node \in SubqueriesOf(p)
        /\ c.outer \in Relations(p) /\ c.outer = Around(p, c.node)

\* The scope inside a visit method.
ScopeIn(c) == IF c.what = "relation" THEN c.node ELSE c.outer

CalledBy(p, caller, c) ==
  /\ 0 < caller.visited
  /\ c.node = VisitedBy(p, caller)[caller.visited]
  /\ c.what = WhatBelow(p, caller, c.node)
  /\ c.outer = ScopeIn(caller)

\* The nodes that have been left are the first d.
LeftBy(p, c, d) ==
  IF c.visited = 0
  THEN CASE c.what = "plan"         -> d = 0
         [] c.what = "planRelation" -> IsWhole(p, d, p.roots[c.node].input)
         [] OTHER                   -> IsWhole(p, d, c.node)
  ELSE d = IF c.what = "plan" THEN p.roots[c.visited].input
           ELSE VisitedBy(p, c)[c.visited]

CallsOK(p, v, current, d) ==
  /\ IsSequence(v) /\ v # << >>
  /\ \A i \in DOMAIN v : CallOK(p, v[i]) /\ (v[i].what = "plan" <=> i = 1)
  /\ \A i \in 1..(Len(v) - 1) : CalledBy(p, v[i], v[i + 1])
  /\ current = ScopeIn(Last(v))
  /\ LeftBy(p, Last(v), d)

\* The symbol of relation n, and of the relation of subquery e.
SymbolOf(t, n) == LookupSymbolByLocationAndType(t, Original(n), "relation")
Below(p, t, e) == SymbolOf(t, p.node[e].inputs[1])

\* The relations that have been left have a symbol, at one place.
SymbolsOK(p, t, d) ==
  /\ DOMAIN t = DOMAIN EmptyTable
  /\ IsSequence(t.symbols)
  /\ \A s \in DOMAIN t.symbols : DOMAIN t.symbols[s] = DOMAIN NewSymbol("", "", "")
  /\ \A n \in Relations(p) :
       IF n <= d
       THEN /\ SymbolOf(t, n) \in DOMAIN t.symbols
            /\ ValuesAt(t.byLocation, Original(n)) = <<SymbolOf(t, n)>>
            /\ t.symbols[SymbolOf(t, n)].type = "relation"
            /\ t.symbols[SymbolOf(t, n)].sourceLocation = Original(n)
       ELSE ValuesAt(t.byLocation, Original(n)) = << >>
  /\ \A s \in DOMAIN t.symbols :
       t.symbols[s].type = "relation" => \E n \in Relations(p) : n <= d /\ s = SymbolOf(t, n)

IndexOf(p, t, e) == t.symbols[Below(p, t, e)].parentQueryIndex

\* The subqueries that have been left are numbered, under the relation they
\* are in, in the order in which they were.
IndexesOK(p, t, d) ==
  /\ \A e \in SubqueriesOf(p) : e <= d =>
       /\ t.symbols[Below(p, t, e)].parentQueryLocation = Original(Around(p, e))
       /\ IndexOf(p, t, e) \in 0..(e - 1)
       /\ \A f \in SubqueriesOf(p) : f < e /\ Around(p, f) = Around(p, e)
            => IndexOf(p, t, f) < IndexOf(p, t, e)
       /\ \A k \in 0..(IndexOf(p, t, e) - 1) :
            \E f \in SubqueriesOf(p) :
              f <= d /\ Around(p, f) = Around(p, e) /\ IndexOf(p, t, f) = k
  /\ \A s \in DOMAIN t.symbols :
       \/ /\ t.symbols[s].parentQueryLocation = UnknownLocation
          /\ t.symbols[s].parentQueryIndex = -1
       \/ \E e \in SubqueriesOf(p) : e <= d /\ s = Below(p, t, e)

DataOK(t, links) ==
  /\ IsSequence(links) /\ DOMAIN links = DOMAIN t.symbols
  /\ \A s \in DOMAIN links :
       /\ DOMAIN links[s] = DOMAIN RelationData(0)
       /\ IsSequence(links[s].subQueryPipelines)

\* The lists have the subqueries that have been left, in the order of their
\* numbers.
ListsOK(p, t, links, d) ==
  \A n \in Relations(p) :
    LET list == links[SymbolOf(t, n)].subQueryPipelines
    IN /\ \A k \in DOMAIN list :
            \E e \in SubqueriesOf(p) : /\ Around(p, e) = n
                                       /\ list[k] = Below(p, t, e)
                                       /\ IndexOf(p, t, e) = k - 1
       /\ \A e \in SubqueriesOf(p) :
            Around(p, e) = n => (e <= d <=> IndexOf(p, t, e) < Len(list))

InitialInv(d) ==
  /\ CallsOK(plan, visits, scope, d)
  /\ SymbolsOK(plan, table, d)
  /\ IndexesOK(plan, table, d)
  /\ \A s \in DOMAIN data : data[s].subQueryPipelines = << >>

PipelinesInv(d) ==
  /\ CallsOK(plan, visits, scope, d)
  /\ ListsOK(plan, table, data, d)

AllSymbols ==
  SymbolsOK(plan, table, LastVisited(plan)) /\ IndexesOK(plan, table, LastVisited(plan))

PassInv ==
  CASE pass = "initial"   -> \E d \in 0..LastVisited(plan) : InitialInv(d)
    [] pass = "pipelines" -> AllSymbols /\ \E d \in 0..LastVisited(plan) : PipelinesInv(d)
    [] OTHER              -> AllSymbols /\ ListsOK(plan, table, data, LastVisited(plan))

NumberingInv ==
  /\ plan \in Plans
  /\ pass \in {"initial", "pipelines", "print", "relations", "printed"}
  /\ DataOK(table, data)
  /\ PassInv

-----------------------------------------------------------------------------
(***************************************************************************)
(* The shape of a plan.                                                    *)
(***************************************************************************)

LEMMA KindsDiffer == RelationKinds \intersect SubqueryKinds = {}
  BY DEF RelationKinds, SubqueryKinds, UnaryKinds, BinaryKinds

LEMMA RootsShape ==
  ASSUME NEW p, IsPlan(p)
  PROVE  /\ Len(p.roots) \in Nat
         /\ DOMAIN p.roots = 1..Len(p.roots)
         /\ LastVisited(p) \in Nat
         /\ 1..LastVisited(p) \subseteq DOMAIN p.node
         /\ \A r \in DOMAIN p.roots : p.roots[r].input \in Relations(p)
         /\ p.roots = << >> <=> Len(p.roots) = 0
<1>1. /\ Len(p.roots) \in Nat /\ DOMAIN p.roots = 1..Len(p.roots)
      /\ DOMAIN p.node = 1..Len(p.node) /\ Len(p.node) \in Nat
  BY SequenceHas DEF IsPlan
<1>2. p.roots = << >> <=> Len(p.roots) = 0
  BY EmptySeq DEF IsPlan, IsSequence
<1>3. \A r \in DOMAIN p.roots :
        p.roots[r].input \in DOMAIN p.node /\ p.node[p.roots[r].input].kind \in RelationKinds
  BY DEF IsPlan, RootInputs
<1>4. CASE p.roots = << >>
  BY <1>1, <1>2, <1>4 DEF LastVisited
<1>5. CASE p.roots # << >>
  <2>1. Len(p.roots) \in DOMAIN p.roots /\ LastVisited(p) = p.roots[Len(p.roots)].input
    BY <1>1, <1>2, <1>5 DEF LastVisited
  <2>2. LastVisited(p) \in DOMAIN p.node
    BY <1>3, <2>1
  <2>3. ASSUME NEW r \in DOMAIN p.roots
        PROVE  p.roots[r].input <= LastVisited(p)
    <3>1. CASE r = Len(p.roots)
      BY <1>1, <2>1, <2>2, <3>1
    <3>2. CASE r # Len(p.roots)
      <4>1. r < Len(p.roots)
        BY <1>1, <3>2
      <4>2. p.roots[r].input < p.roots[Len(p.roots)].input
        BY <2>1, <4>1 DEF IsPlan, NumberedAsLeft
      <4>3. p.roots[r].input \in Nat /\ LastVisited(p) \in Nat
        BY <1>1, <1>3, <2>2
      <4>4. QED
        BY <2>1, <4>2, <4>3
    <3>3. QED
      BY <3>1, <3>2
  <2>4. \A r \in DOMAIN p.roots : p.roots[r].input \in 1..LastVisited(p)
    BY <1>1, <1>3, <2>2, <2>3
  <2>5. LastVisited(p) \in Nat /\ 1..LastVisited(p) \subseteq DOMAIN p.node
    BY <1>1, <2>2
  <2>6. QED
    BY <1>1, <1>2, <1>3, <2>4, <2>5 DEF Relations
<1>6. QED
  BY <1>4, <1>5

LEMMA InsideShape ==
  ASSUME NEW p, IsPlan(p), NEW n \in 1..LastVisited(p)
  PROVE  /\ IsSequence(Inside(p, n))
         /\ Len(Inside(p, n)) \in Nat
         /\ DOMAIN Inside(p, n) = 1..Len(Inside(p, n))
         /\ ToSet(Inside(p, n)) \subseteq 1..(n - 1)
         /\ n \in Relations(p) \/ n \in SubqueriesOf(p)
         /\ ToSet(p.node[n].inputs) \subseteq ToSet(Inside(p, n))
<1>1. n \in DOMAIN p.node
  BY RootsShape
<1>2. IsMessage(p, n)
  BY <1>1 DEF IsPlan
<1>3. IsSequence(VisitedExpressions(p.node[n])) /\ IsSequence(p.node[n].inputs)
  <2>1. IsSequence(<< >>)
    BY DEF IsSequence
  <2>2. QED
    BY <1>2, <2>1 DEF IsMessage, VisitedExpressions
<1>4. IsSequence(Inside(p, n)) /\ ToSet(p.node[n].inputs) \subseteq ToSet(Inside(p, n))
  BY <1>3, SequenceBoth DEF Inside
<1>5. Len(Inside(p, n)) \in Nat /\ DOMAIN Inside(p, n) = 1..Len(Inside(p, n))
  BY <1>4, SequenceHas
<1>6. ToSet(Inside(p, n)) \subseteq 1..(n - 1)
  BY DEF ToSet, IsPlan, NumberedAsLeft
<1>7. n \in Relations(p) \/ n \in SubqueriesOf(p)
  BY <1>2 DEF IsMessage, Relations, SubqueriesOf
<1>8. QED
  BY <1>4, <1>5, <1>6, <1>7

-----------------------------------------------------------------------------
(***************************************************************************)
(* The numbers of the nodes.                                               *)
(***************************************************************************)

\* What is in between two numbers of which one is inside the other is inside
\* as well.
LEMMA Between ==
  ASSUME NEW p, IsPlan(p), NEW n \in 1..LastVisited(p), NEW c \in ToSet(Inside(p, n)),
         NEW m \in Nat, c < m, m < n
  PROVE  InsideUpTo(p, m, n)
<1>1. PICK i \in DOMAIN Inside(p, n) : Inside(p, n)[i] = c
  BY DEF ToSet
<1>2. m \in (c + 1)..(n - 1)
  BY InsideShape, RootsShape
<1>3. \A k \in (Inside(p, n)[i] + 1)..(n - 1) : \E j \in 1..n : k \in ToSet(Inside(p, j))
  BY DEF IsPlan, NumberedAsLeft
<1>4. QED
  BY <1>1, <1>2, <1>3 DEF InsideUpTo

LEMMA OnePlace ==
  ASSUME NEW p, IsPlan(p), NEW n \in 1..LastVisited(p), NEW k \in 1..LastVisited(p),
         NEW c \in ToSet(Inside(p, n)), c \in ToSet(Inside(p, k))
  PROVE  k = n
BY DEF IsPlan, HaveOnePlace

\* The nodes between m and something inside n, all below n but not n's own,
\* are below it.
LEMMA WholeInside ==
  ASSUME NEW p, IsPlan(p), NEW n \in 1..LastVisited(p), NEW c \in ToSet(Inside(p, n)),
         NEW m \in Nat, m < c,
         \A k \in (m + 1)..(c - 1) : InsideUpTo(p, k, n) /\ k \notin ToSet(Inside(p, n)),
         \A k \in (m + 1)..c : \A b \in ToSet(Inside(p, k)) : m < b
  PROVE  IsWhole(p, m, c)
<1>1. c \in 1..(n - 1) /\ LastVisited(p) \in Nat
  BY InsideShape, RootsShape
<1>2. ASSUME NEW k \in (m + 1)..(c - 1)
      PROVE  InsideUpTo(p, k, c)
  <2>1. PICK j \in 1..n : k \in ToSet(Inside(p, j))
    BY DEF InsideUpTo
  <2>2. j # n
    BY <2>1
  <2>3. j \in 1..LastVisited(p) /\ n \in 1..LastVisited(p)
    BY <1>1
  <2>4. ~(c < j)
    <3>1. SUFFICES ASSUME c < j
                   PROVE  FALSE
      OBVIOUS
    <3>2. InsideUpTo(p, c, j)
      <4>1. k < c /\ c \in Nat
        BY <1>1
      <4>2. QED
        BY <2>1, <2>3, <3>1, <4>1, Between
    <3>3. PICK i \in 1..j : c \in ToSet(Inside(p, i))
      BY <3>2 DEF InsideUpTo
    <3>4. i \in 1..LastVisited(p)
      BY <1>1, <2>3
    <3>5. i = n
      BY <3>3, <3>4, OnePlace
    <3>6. QED
      BY <2>1, <2>2, <3>5
  <2>5. j \in 1..c
    BY <1>1, <2>4
  <2>6. QED
    BY <2>1, <2>5 DEF InsideUpTo
<1>3. QED
  BY <1>2 DEF IsWhole

LEMMA InsideOrdered ==
  ASSUME NEW p, IsPlan(p), NEW n \in 1..LastVisited(p),
         NEW i \in DOMAIN Inside(p, n), NEW j \in DOMAIN Inside(p, n)
  PROVE  /\ Inside(p, n)[i] \in ToSet(Inside(p, n))
         /\ Inside(p, n)[i] \in 1..(n - 1)
         /\ i < j => Inside(p, n)[i] < Inside(p, n)[j]
         /\ Inside(p, n)[i] < Inside(p, n)[j] => i < j
<1>1. /\ Inside(p, n)[i] \in 1..(n - 1) /\ Inside(p, n)[j] \in 1..(n - 1)
      /\ i < j => Inside(p, n)[i] < Inside(p, n)[j]
      /\ j < i => Inside(p, n)[j] < Inside(p, n)[i]
  BY DEF IsPlan, NumberedAsLeft
<1>2. i \in Nat /\ j \in Nat /\ n \in Nat
  BY InsideShape, RootsShape
<1>3. Inside(p, n)[i] \in ToSet(Inside(p, n))
  BY DEF ToSet
<1> DEFINE x == Inside(p, n)[i]
           y == Inside(p, n)[j]
<1>4. x < y => i < j
  <2>1. i = j => x = y
    OBVIOUS
  <2>2. x \in Nat /\ y \in Nat
    BY <1>1, <1>2
  <2>3. j < i => y < x
    BY <1>1
  <2> HIDE DEF x, y
  <2>4. QED
    BY <1>2, <2>1, <2>2, <2>3
<1>5. QED
  BY <1>1, <1>3, <1>4

\* The first node inside another is visited first, ...
LEMMA FirstInside ==
  ASSUME NEW p, IsPlan(p), NEW n \in 1..LastVisited(p), NEW m \in Nat,
         IsWhole(p, m, n), Inside(p, n) # << >>
  PROVE  IsWhole(p, m, Inside(p, n)[1])
<1> DEFINE c == Inside(p, n)[1]
<1>1. 1 \in DOMAIN Inside(p, n)
  <2>1. Len(Inside(p, n)) # 0
    BY InsideShape, EmptySeq DEF IsSequence
  <2>2. QED
    BY <2>1, InsideShape
<1>2. c \in ToSet(Inside(p, n)) /\ c \in 1..(n - 1) /\ n \in Nat
  BY <1>1, InsideOrdered, RootsShape
<1>3. m < c
  <2>1. n \in (m + 1)..n
    BY <1>2 DEF IsWhole
  <2>2. QED
    BY <1>2, <2>1 DEF IsWhole
<1>4. \A b \in ToSet(Inside(p, n)) : c <= b
  <2>1. ASSUME NEW i \in DOMAIN Inside(p, n)
        PROVE  c <= Inside(p, n)[i]
    <3>1. i = 1 \/ 1 < i
      BY InsideShape
    <3>2. CASE 1 < i
      BY <1>1, <3>2, InsideOrdered, RootsShape
    <3>3. CASE i = 1
      BY <1>2, <3>3
    <3>4. QED
      BY <3>1, <3>2, <3>3
  <2>2. QED
    BY <2>1 DEF ToSet
<1> HIDE DEF c
<1>5. \A k \in (m + 1)..(c - 1) : InsideUpTo(p, k, n) /\ k \notin ToSet(Inside(p, n))
  <2>1. ASSUME NEW k \in (m + 1)..(c - 1)
        PROVE  k \in (m + 1)..(n - 1) /\ ~(c <= k)
    BY <1>2
  <2>2. QED
    BY <1>4, <2>1 DEF IsWhole
<1>6. \A k \in (m + 1)..c : \A b \in ToSet(Inside(p, k)) : m < b
  <2>1. \A k \in (m + 1)..c : k \in (m + 1)..n
    BY <1>2
  <2>2. QED
    BY <2>1 DEF IsWhole
<1>7. IsWhole(p, m, c)
  BY <1>2, <1>3, <1>5, <1>6, WholeInside
<1>8. QED
  BY <1>7 DEF c

\* ... then one after the other, ...
LEMMA NextInside ==
  ASSUME NEW p, IsPlan(p), NEW n \in 1..LastVisited(p), NEW i \in DOMAIN Inside(p, n),
         i + 1 \in DOMAIN Inside(p, n)
  PROVE  IsWhole(p, Inside(p, n)[i], Inside(p, n)[i + 1])
<1> DEFINE m == Inside(p, n)[i]
           c == Inside(p, n)[i + 1]
<1>1. /\ m \in ToSet(Inside(p, n)) /\ m \in 1..(n - 1)
      /\ c \in ToSet(Inside(p, n)) /\ c \in 1..(n - 1)
      /\ i \in Nat /\ m < c /\ n \in Nat /\ LastVisited(p) \in Nat
  <2>1. i \in Nat /\ i < i + 1
    BY InsideShape
  <2>2. QED
    BY <2>1, InsideOrdered, RootsShape
<1>2. ASSUME NEW b \in ToSet(Inside(p, n)), m < b
      PROVE  c <= b
  <2>1. PICK j \in DOMAIN Inside(p, n) : Inside(p, n)[j] = b
    BY DEF ToSet
  <2>2. i < j /\ j \in Nat
    BY <1>2, <2>1, InsideOrdered, InsideShape
  <2>3. j = i + 1 \/ i + 1 < j
    BY <1>1, <2>2
  <2>4. CASE i + 1 < j
    <3>1. c < b /\ b \in Nat
      BY <1>1, <2>1, <2>4, InsideOrdered
    <3>2. QED
      BY <1>1, <3>1
  <2>5. CASE j = i + 1
    BY <1>1, <2>1, <2>5
  <2>6. QED
    BY <2>3, <2>4, <2>5
<1> HIDE DEF m, c
<1>3. \A k \in (m + 1)..(c - 1) : InsideUpTo(p, k, n) /\ k \notin ToSet(Inside(p, n))
  <2>1. ASSUME NEW k \in (m + 1)..(c - 1)
        PROVE  k \in Nat /\ m < k /\ k < n /\ ~(c <= k)
    BY <1>1
  <2>2. QED
    BY <1>1, <1>2, <2>1, Between
<1>4. ASSUME NEW k \in (m + 1)..c, NEW b \in ToSet(Inside(p, k))
      PROVE  m < b
  <2>1. k \in 1..LastVisited(p) /\ k # n /\ m < k
    BY <1>1
  <2>2. b \in 1..(k - 1)
    BY <2>1, InsideShape
  <2>3. b # m
    BY <1>1, <2>1, OnePlace
  <2>4. ~(b < m)
    <3>1. SUFFICES ASSUME b < m
                   PROVE  FALSE
      OBVIOUS
    <3>2. InsideUpTo(p, m, k)
      <4>1. m \in Nat
        BY <1>1
      <4>2. QED
        BY <2>1, <3>1, <4>1, Between
    <3>3. PICK j \in 1..k : m \in ToSet(Inside(p, j))
      BY <3>2 DEF InsideUpTo
    <3>4. j \in 1..LastVisited(p) /\ j # n
      BY <1>1, <2>1
    <3>5. QED
      BY <1>1, <3>3, <3>4, OnePlace
  <2>5. QED
    BY <1>1, <2>2, <2>3, <2>4
<1>5. IsWhole(p, m, c)
  <2>1. m \in Nat
    BY <1>1
  <2>2. QED
    BY <1>1, <1>3, <1>4, <2>1, WholeInside
<1>6. QED
  BY <1>5 DEF m, c

\* ... and then the node itself.
LEMMA LastInside ==
  ASSUME NEW p, IsPlan(p), NEW n \in 1..LastVisited(p), Inside(p, n) # << >>
  PROVE  n = Inside(p, n)[Len(Inside(p, n))] + 1
<1> DEFINE c == Inside(p, n)[Len(Inside(p, n))]
<1>1. Len(Inside(p, n)) \in DOMAIN Inside(p, n)
  <2>1. Len(Inside(p, n)) # 0
    BY InsideShape, EmptySeq DEF IsSequence
  <2>2. QED
    BY <2>1, InsideShape
<1>2. c \in ToSet(Inside(p, n)) /\ c \in 1..(n - 1) /\ n \in Nat /\ LastVisited(p) \in Nat
  BY <1>1, InsideOrdered, RootsShape
<1>3. \A b \in ToSet(Inside(p, n)) : ~(c < b)
  <2>1. ASSUME NEW i \in DOMAIN Inside(p, n)
        PROVE  ~(c < Inside(p, n)[i])
    <3>1. ~(Len(Inside(p, n)) < i)
      BY InsideShape
    <3>2. QED
      BY <1>1, <3>1, InsideOrdered
  <2>2. QED
    BY <2>1 DEF ToSet
<1> HIDE DEF c
<1>4. ~(c < n - 1)
  <2>1. SUFFICES ASSUME c < n - 1
                 PROVE  FALSE
    OBVIOUS
  <2>2. InsideUpTo(p, n - 1, n)
    <3>1. n - 1 \in Nat /\ n - 1 < n
      BY <1>2
    <3>2. QED
      BY <1>2, <2>1, <3>1, Between
  <2>3. PICK k \in 1..n : n - 1 \in ToSet(Inside(p, k))
    BY <2>2 DEF InsideUpTo
  <2>4. n - 1 \in 1..(k - 1)
    <3>1. k \in 1..LastVisited(p)
      BY <1>2
    <3>2. QED
      BY <2>3, <3>1, InsideShape
  <2>5. k = n
    BY <1>2, <2>4
  <2>6. QED
    BY <1>3, <2>1, <2>3, <2>5
<1>5. n = c + 1
  BY <1>2, <1>4
<1>6. QED
  BY <1>5 DEF c

LEMMA NothingInside ==
  ASSUME NEW p, IsPlan(p), NEW n \in 1..LastVisited(p), NEW m \in Nat,
         IsWhole(p, m, n), Inside(p, n) = << >>
  PROVE  n = m + 1
<1>1. n \in Nat /\ m < n /\ LastVisited(p) \in Nat
  BY RootsShape DEF IsWhole
<1>2. ~(m < n - 1)
  <2>1. SUFFICES ASSUME m < n - 1
                 PROVE  FALSE
    OBVIOUS
  <2>2. n - 1 \in (m + 1)..(n - 1)
    BY <1>1, <2>1
  <2>3. PICK k \in 1..n : n - 1 \in ToSet(Inside(p, k))
    BY <2>2 DEF InsideUpTo, IsWhole
  <2>4. k # n
    BY <2>3 DEF ToSet
  <2>5. n - 1 \in 1..(k - 1)
    <3>1. k \in 1..LastVisited(p)
      BY <1>1
    <3>2. QED
      BY <2>3, <3>1, InsideShape
  <2>6. QED
    BY <1>1, <2>4, <2>5
<1>3. QED
  BY <1>1, <1>2

\* A visit comes to a root after the one before it and all that is below.
LEMMA RootWhole ==
  ASSUME NEW p, IsPlan(p), NEW c \in RootInputs(p), NEW m \in Nat, m < c,
         m = 0 \/ m \in RootInputs(p),
         \A k \in RootInputs(p) : m < k => c <= k
  PROVE  IsWhole(p, m, c)
<1>1. c \in 1..LastVisited(p) /\ LastVisited(p) \in Nat
  BY RootsShape DEF RootInputs, Relations
<1>2. \A k \in 1..LastVisited(p) : m = k \/ c = k => ~InsideUpTo(p, k, LastVisited(p))
  BY DEF IsPlan, HaveOnePlace, InsideUpTo
<1>3. ASSUME NEW j \in 1..LastVisited(p), NEW k \in 1..LastVisited(p), InsideUpTo(p, k, j)
      PROVE  InsideUpTo(p, k, LastVisited(p))
  BY <1>1, <1>3 DEF InsideUpTo
<1>4. ASSUME NEW k \in (m + 1)..(c - 1)
      PROVE  InsideUpTo(p, k, c)
  <2>1. k \in 1..LastVisited(p) /\ k \in Nat /\ m < k /\ k < c /\ ~(c <= k)
    BY <1>1
  <2>2. PICK j \in 1..LastVisited(p) : k \in ToSet(Inside(p, j))
    BY <2>1 DEF IsPlan, HaveOnePlace
  <2>3. ~(c < j)
    <3>1. SUFFICES ASSUME c < j
                   PROVE  FALSE
      OBVIOUS
    <3>2. InsideUpTo(p, c, j)
      BY <1>1, <2>1, <2>2, <3>1, Between
    <3>3. QED
      BY <1>1, <1>2, <1>3, <3>2
  <2>4. j \in 1..c
    BY <1>1, <2>3
  <2>5. QED
    BY <2>2, <2>4 DEF InsideUpTo
<1>5. ASSUME NEW k \in (m + 1)..c, NEW b \in ToSet(Inside(p, k))
      PROVE  m < b
  <2>1. k \in 1..LastVisited(p) /\ m < k
    BY <1>1
  <2>2. b \in 1..(k - 1)
    BY <2>1, InsideShape
  <2>3. CASE m = 0
    BY <2>2, <2>3
  <2>4. CASE m \in RootInputs(p)
    <3>1. m \in 1..LastVisited(p)
      BY <2>4, RootsShape DEF RootInputs, Relations
    <3>2. ~InsideUpTo(p, m, k)
      BY <1>2, <1>3, <2>1, <3>1
    <3>3. ~(b < m)
      BY <2>1, <3>2, Between
    <3>4. b # m
      <4>1. k \in 1..k
        BY <2>1, <1>1
      <4>2. QED
        BY <3>2, <4>1 DEF InsideUpTo
    <3>5. QED
      BY <2>2, <3>3, <3>4
  <2>5. QED
    BY <2>3, <2>4
<1>6. QED
  BY <1>4, <1>5 DEF IsWhole

LEMMA RootsOrdered ==
  ASSUME NEW p, IsPlan(p), NEW r \in DOMAIN p.roots, NEW q \in DOMAIN p.roots
  PROVE  /\ p.roots[r].input \in RootInputs(p) /\ p.roots[r].input \in 1..LastVisited(p)
         /\ r < q => p.roots[r].input < p.roots[q].input
         /\ r <= q => p.roots[r].input <= p.roots[q].input
         /\ p.roots[r].input < p.roots[q].input => r < q
<1> DEFINE x == p.roots[r].input
           y == p.roots[q].input
<1>1. x \in 1..LastVisited(p) /\ y \in 1..LastVisited(p) /\ x \in RootInputs(p)
  BY RootsShape DEF RootInputs, Relations
<1>2. (r < q => x < y) /\ (q < r => y < x) /\ (r = q => x = y)
  BY DEF IsPlan, NumberedAsLeft
<1>3. r \in Nat /\ q \in Nat /\ LastVisited(p) \in Nat
  BY RootsShape
<1> HIDE DEF x, y
<1>4. x \in Nat /\ y \in Nat
  BY <1>1, <1>3
<1>5. (r <= q => x <= y) /\ (x < y => r < q)
  BY <1>2, <1>3, <1>4
<1>6. QED
  BY <1>1, <1>2, <1>5 DEF x, y

LEMMA FirstRoot ==
  ASSUME NEW p, IsPlan(p), 1 \in DOMAIN p.roots
  PROVE  IsWhole(p, 0, p.roots[1].input)
<1> DEFINE c == p.roots[1].input
<1>1. c \in RootInputs(p) /\ c \in 1..LastVisited(p) /\ LastVisited(p) \in Nat
  BY RootsOrdered, RootsShape
<1>2. \A k \in RootInputs(p) : c <= k
  <2>1. ASSUME NEW r \in DOMAIN p.roots
        PROVE  c <= p.roots[r].input
    <3>1. 1 <= r
      BY RootsShape
    <3>2. QED
      BY <3>1, RootsOrdered
  <2>2. QED
    BY <2>1 DEF RootInputs
<1> HIDE DEF c
<1>3. IsWhole(p, 0, c)
  <2>1. 0 < c
    BY <1>1
  <2>2. QED
    BY <1>1, <1>2, <2>1, RootWhole
<1>4. QED
  BY <1>3 DEF c

LEMMA NextRoot ==
  ASSUME NEW p, IsPlan(p), NEW r \in DOMAIN p.roots, r + 1 \in DOMAIN p.roots
  PROVE  IsWhole(p, p.roots[r].input, p.roots[r + 1].input)
<1> DEFINE m == p.roots[r].input
           c == p.roots[r + 1].input
<1>1. r \in Nat /\ LastVisited(p) \in Nat
  BY RootsShape
<1>2. /\ m \in RootInputs(p) /\ m \in 1..LastVisited(p)
      /\ c \in RootInputs(p) /\ c \in 1..LastVisited(p) /\ m < c
  BY <1>1, RootsOrdered
<1>3. \A k \in RootInputs(p) : m < k => c <= k
  <2>1. ASSUME NEW q \in DOMAIN p.roots, m < p.roots[q].input
        PROVE  c <= p.roots[q].input
    <3>1. r < q /\ q \in Nat
      BY <2>1, RootsOrdered, RootsShape
    <3>2. r + 1 <= q
      BY <1>1, <3>1
    <3>3. QED
      BY <3>2, RootsOrdered
  <2>2. QED
    BY <2>1 DEF RootInputs
<1> HIDE DEF m, c
<1>4. IsWhole(p, m, c)
  <2>1. m \in Nat
    BY <1>1, <1>2
  <2>2. QED
    BY <1>2, <1>3, <2>1, RootWhole
<1>5. QED
  BY <1>4 DEF m, c

-----------------------------------------------------------------------------
(***************************************************************************)
(* The relation a subquery is in.                                          *)
(***************************************************************************)

\* One in the expressions of a relation is in it, ...
LEMMA AroundRelation ==
  ASSUME NEW p, IsPlan(p), NEW n \in Relations(p), NEW e \in ToSet(Inside(p, n))
  PROVE  Around(p, e) = n
<1> DEFINE S == {m \in Relations(p) : Encloses(p, m, e)}
<1>1. n \in 1..LastVisited(p) /\ LastVisited(p) \in Nat /\ n \in Nat
  BY RootsShape DEF Relations
<1>2. e \in 1..(n - 1)
  BY <1>1, InsideShape
<1>3. ASSUME NEW k \in e..(n - 1)
      PROVE  InsideUpTo(p, k, n)
  <2>1. CASE k = e
    <3>1. n \in 1..n
      BY <1>1
    <3>2. QED
      BY <2>1, <3>1 DEF InsideUpTo
  <2>2. CASE k # e
    <3>1. k \in Nat /\ e < k /\ k < n
      BY <1>1, <1>2, <2>2
    <3>2. QED
      BY <1>1, <3>1, Between
  <2>3. QED
    BY <2>1, <2>2
<1>4. n \in S
  <2>1. e < n
    BY <1>1, <1>2
  <2>2. QED
    BY <1>3, <2>1 DEF Encloses
<1>5. ASSUME NEW m \in S
      PROVE  n <= m
  <2>1. m \in 1..LastVisited(p) /\ Encloses(p, m, e)
    BY DEF Relations
  <2>2. e \in e..(m - 1)
    BY <1>1, <1>2, <2>1 DEF Encloses
  <2>3. PICK j \in 1..m : e \in ToSet(Inside(p, j))
    BY <2>1, <2>2 DEF Encloses, InsideUpTo
  <2>4. j \in 1..LastVisited(p)
    BY <1>1, <2>1
  <2>5. j = n
    BY <1>1, <2>3, <2>4, OnePlace
  <2>6. QED
    BY <1>1, <2>1, <2>3, <2>5
<1>6. S \in SUBSET Nat
  BY <1>1 DEF Relations
<1> HIDE DEF S
<1>7. First(S) = n
  BY <1>4, <1>5, <1>6, FirstIs
<1>8. QED
  BY <1>7 DEF S, Around

\* ... and one inside another subquery is where that one is.
LEMMA AroundSubquery ==
  ASSUME NEW p, IsPlan(p), NEW f \in SubqueriesOf(p), NEW e \in ToSet(Inside(p, f))
  PROVE  Around(p, e) = Around(p, f)
<1>1. f \in 1..LastVisited(p) /\ LastVisited(p) \in Nat /\ f \in Nat
  BY RootsShape DEF SubqueriesOf
<1>2. e \in 1..(f - 1)
  BY <1>1, InsideShape
<1>3. ASSUME NEW m \in Relations(p), Encloses(p, m, f)
      PROVE  Encloses(p, m, e)
  <2>1. m \in 1..LastVisited(p) /\ f < m
    BY <1>3 DEF Encloses, Relations
  <2>2. ASSUME NEW k \in e..(m - 1)
        PROVE  InsideUpTo(p, k, m)
    <3>1. CASE k = e
      <4>1. f \in 1..m
        BY <1>1, <2>1
      <4>2. QED
        BY <3>1, <4>1 DEF InsideUpTo
    <3>2. CASE k # e /\ k < f
      <4>1. k \in Nat /\ e < k
        BY <1>2, <3>2
      <4>2. PICK j \in 1..f : k \in ToSet(Inside(p, j))
        BY <1>1, <3>2, <4>1, Between DEF InsideUpTo
      <4>3. j \in 1..m
        BY <1>1, <2>1
      <4>4. QED
        BY <4>2, <4>3 DEF InsideUpTo
    <3>3. CASE ~(k < f)
      <4>1. k \in f..(m - 1)
        BY <1>1, <1>2, <2>1, <3>3
      <4>2. QED
        BY <1>3, <4>1 DEF Encloses
    <3>4. QED
      BY <3>1, <3>2, <3>3
  <2>3. e < m
    BY <1>1, <1>2, <2>1
  <2>4. QED
    BY <2>2, <2>3 DEF Encloses
<1>4. ASSUME NEW m \in Relations(p), Encloses(p, m, e)
      PROVE  Encloses(p, m, f)
  <2>1. m \in 1..LastVisited(p) /\ e < m
    BY <1>4 DEF Encloses, Relations
  <2>2. e \in e..(m - 1)
    BY <1>1, <1>2, <2>1
  <2>3. PICK j \in 1..m : e \in ToSet(Inside(p, j))
    BY <1>4, <2>2 DEF Encloses, InsideUpTo
  <2>4. j \in 1..LastVisited(p)
    BY <1>1, <2>1
  <2>5. j = f
    BY <1>1, <2>3, <2>4, OnePlace
  <2>6. m # f
    BY KindsDiffer DEF Relations, SubqueriesOf
  <2>7. f < m
    BY <1>1, <2>1, <2>3, <2>5, <2>6
  <2>8. \A k \in f..(m - 1) : k \in e..(m - 1)
    BY <1>1, <1>2, <2>1
  <2>9. QED
    BY <1>4, <2>7, <2>8 DEF Encloses
<1>5. {m \in Relations(p) : Encloses(p, m, e)} = {m \in Relations(p) : Encloses(p, m, f)}
  BY <1>3, <1>4
<1>6. QED
  BY <1>5 DEF Around

\* A subquery has one relation below it, that of no other.
LEMMA SubqueryInput ==
  ASSUME NEW p, IsPlan(p), NEW e \in SubqueriesOf(p)
  PROVE  /\ e \in 1..LastVisited(p) /\ LastVisited(p) \in Nat
         /\ p.node[e].inputs[1] \in Relations(p)
         /\ p.node[e].inputs[1] \in 1..(e - 1)
         /\ \A f \in SubqueriesOf(p) :
              p.node[f].inputs[1] = p.node[e].inputs[1] => f = e
<1>1. \A f \in SubqueriesOf(p) :
        f \in 1..LastVisited(p) /\ p.node[f].inputs[1] \in ToSet(p.node[f].inputs)
  <2>1. ASSUME NEW f \in SubqueriesOf(p)
        PROVE  IsMessage(p, f) /\ p.node[f].kind \in SubqueryKinds
    BY RootsShape DEF SubqueriesOf, IsPlan
  <2>2. ASSUME NEW f \in SubqueriesOf(p)
        PROVE  1 \in DOMAIN p.node[f].inputs
    BY <2>1, SequenceHas DEF IsMessage
  <2>3. QED
    BY <2>2 DEF SubqueriesOf, ToSet
<1>2. /\ e \in 1..LastVisited(p) /\ p.node[e].inputs[1] \in ToSet(p.node[e].inputs)
      /\ LastVisited(p) \in Nat
  BY <1>1, RootsShape
<1>3. p.node[e].inputs[1] \in 1..(e - 1)
  BY <1>2, InsideShape
<1>4. p.node[e].inputs[1] \in Relations(p)
  <2>1. IsMessage(p, e)
    BY <1>2, RootsShape DEF IsPlan
  <2>2. p.node[p.node[e].inputs[1]].kind \in RelationKinds
    BY <1>2, <2>1 DEF IsMessage
  <2>3. QED
    BY <1>2, <1>3, <2>2 DEF Relations
<1>5. ASSUME NEW f \in SubqueriesOf(p), p.node[f].inputs[1] = p.node[e].inputs[1]
      PROVE  f = e
  <2>1. f \in 1..LastVisited(p) /\ p.node[e].inputs[1] \in ToSet(Inside(p, f))
    BY <1>1, <1>5, InsideShape
  <2>2. p.node[e].inputs[1] \in ToSet(Inside(p, e))
    BY <1>2, InsideShape
  <2>3. QED
    BY <1>2, <2>1, <2>2, OnePlace
<1>6. QED
  BY <1>2, <1>3, <1>4, <1>5

-----------------------------------------------------------------------------
(***************************************************************************)
(* The visit methods.                                                      *)
(***************************************************************************)

LEMMA CallVisits ==
  ASSUME NEW p, IsPlan(p), NEW c, CallOK(p, c)
  PROVE  /\ c.visited \in Nat /\ Len(VisitedBy(p, c)) \in Nat
         /\ c.visited <= Len(VisitedBy(p, c))
         /\ c.what = "plan" => VisitedBy(p, c) = Indexes(p.roots)
                                 /\ Len(VisitedBy(p, c)) = Len(p.roots)
                                 /\ \A i \in 1..Len(p.roots) : VisitedBy(p, c)[i] = i
         /\ c.what = "planRelation" => VisitedBy(p, c) = <<p.roots[c.node].input>>
         /\ c.what = "relation" \/ c.what = "subquery" =>
              VisitedBy(p, c) = Inside(p, c.node) /\ c.node \in 1..LastVisited(p)
<1>1. Len(p.roots) \in Nat /\ DOMAIN p.roots = 1..Len(p.roots)
  BY RootsShape
<1>2. Len(Indexes(p.roots)) = Len(p.roots) /\ \A i \in 1..Len(p.roots) : Indexes(p.roots)[i] = i
  <2>1. Indexes(p.roots) = [i \in 1..Len(p.roots) |-> i]
    BY <1>1 DEF Indexes
  <2>2. Indexes(p.roots) = [i \in 1..Len(p.roots) |-> Indexes(p.roots)[i]]
    BY <2>1
  <2>3. QED
    BY <1>1, <2>1, <2>2, ListIsSequence
<1>3. c.what = "plan" => VisitedBy(p, c) = Indexes(p.roots)
  BY DEF VisitedBy
<1>4. c.what = "planRelation" => VisitedBy(p, c) = <<p.roots[c.node].input>>
  BY DEF VisitedBy
<1>5. c.what = "relation" \/ c.what = "subquery" =>
        VisitedBy(p, c) = Inside(p, c.node) /\ c.node \in 1..LastVisited(p)
  BY DEF VisitedBy, CallOK, Relations, SubqueriesOf
<1>6. Len(VisitedBy(p, c)) \in Nat
  <2>1. CASE c.what = "plan"
    BY <1>1, <1>2, <1>3, <2>1
  <2>2. CASE c.what = "planRelation"
    BY <1>4, <2>2
  <2>3. CASE c.what = "relation" \/ c.what = "subquery"
    BY <1>5, <2>3, InsideShape
  <2>4. QED
    BY <2>1, <2>2, <2>3 DEF CallOK
<1>7. c.visited \in Nat /\ c.visited <= Len(VisitedBy(p, c))
  BY <1>6 DEF CallOK
<1>8. QED
  BY <1>2, <1>3, <1>4, <1>5, <1>6, <1>7

\* What is called is in the plan, in the scope of the relation around it.
LEMMA CallEntered ==
  ASSUME NEW p, IsPlan(p), NEW c, CallOK(p, c), NEW i \in 1..Len(VisitedBy(p, c))
  PROVE  LET node == VisitedBy(p, c)[i]
             what == WhatBelow(p, c, node)
         IN /\ CallOK(p, Call(what, node, ScopeIn(c)))
            /\ what \in {"planRelation", "relation", "subquery"}
            /\ what = "planRelation" <=> c.what = "plan"
            /\ what = "relation" => node \in Relations(p)
<1> DEFINE node == VisitedBy(p, c)[i]
           what == WhatBelow(p, c, node)
           new == Call(what, node, ScopeIn(c))
<1>1. /\ DOMAIN new = {"what", "node", "visited", "outer"} /\ new.visited = 0
      /\ new.what = what /\ new.node = node /\ new.outer = ScopeIn(c)
  BY DEF Call
<1>2. Len(VisitedBy(p, new)) \in Nat =>
        /\ new.visited \in 0..Len(VisitedBy(p, new))
  BY <1>1
<1>3. CASE c.what = "plan"
  <2>1. node \in DOMAIN p.roots /\ what = "planRelation"
    BY <1>3, CallVisits, RootsShape DEF WhatBelow
  <2>2. VisitedBy(p, new) = <<p.roots[node].input>>
    BY <1>1, <2>1 DEF VisitedBy
  <2>3. Len(VisitedBy(p, new)) \in Nat
    BY <2>2
  <2>4. CallOK(p, new)
    BY <1>1, <1>2, <2>1, <2>3 DEF CallOK
  <2>5. QED
    BY <1>3, <2>1, <2>4
<1>4. ASSUME c.what # "plan", node \in Relations(p)
      PROVE  CallOK(p, new) /\ what = "relation"
  <2>1. what = "relation"
    BY <1>4, KindsDiffer DEF WhatBelow, Relations
  <2>2. VisitedBy(p, new) = Inside(p, node) /\ node \in 1..LastVisited(p)
    BY <1>1, <1>4, <2>1 DEF VisitedBy, Relations
  <2>3. Len(VisitedBy(p, new)) \in Nat
    BY <2>2, InsideShape
  <2>4. QED
    BY <1>1, <1>2, <1>4, <2>1, <2>3 DEF CallOK
<1>5. CASE c.what = "planRelation"
  <2>1. node \in Relations(p)
    <3>1. VisitedBy(p, c) = <<p.roots[c.node].input>> /\ c.node \in DOMAIN p.roots
      BY <1>5, CallVisits DEF CallOK
    <3>2. node = p.roots[c.node].input
      BY <3>1
    <3>3. QED
      BY <3>1, <3>2, RootsShape
  <2>2. QED
    BY <1>4, <1>5, <2>1
<1>6. CASE c.what = "relation" \/ c.what = "subquery"
  <2>1. VisitedBy(p, c) = Inside(p, c.node) /\ c.node \in 1..LastVisited(p)
    BY <1>6, CallVisits
  <2>2. node \in ToSet(Inside(p, c.node)) /\ node \in 1..LastVisited(p)
    <3>1. i \in DOMAIN Inside(p, c.node) /\ LastVisited(p) \in Nat
      BY <2>1, InsideShape, RootsShape
    <3>2. node \in ToSet(Inside(p, c.node)) /\ node \in 1..(c.node - 1)
      BY <2>1, <3>1, InsideOrdered
    <3>3. QED
      BY <2>1, <3>1, <3>2
  <2>3. CASE node \in Relations(p)
    BY <1>4, <1>6, <2>3
  <2>4. CASE node \in SubqueriesOf(p)
    <3>1. what = "subquery"
      BY <1>6, <2>4 DEF WhatBelow, SubqueriesOf
    <3>2. Len(VisitedBy(p, new)) \in Nat
      <4>1. VisitedBy(p, new) = Inside(p, node)
        BY <1>1, <3>1 DEF VisitedBy
      <4>2. QED
        BY <2>2, <4>1, InsideShape
    <3>3. ScopeIn(c) \in Relations(p) /\ ScopeIn(c) = Around(p, node)
      <4>1. CASE c.what = "relation"
        <5>1. c.node \in Relations(p)
          BY <4>1 DEF CallOK
        <5>2. QED
          BY <2>2, <4>1, <5>1, AroundRelation DEF ScopeIn
      <4>2. CASE c.what = "subquery"
        <5>1. c.node \in SubqueriesOf(p) /\ c.outer \in Relations(p)
              /\ c.outer = Around(p, c.node)
          BY <4>2 DEF CallOK
        <5>2. QED
          BY <2>2, <4>2, <5>1, AroundSubquery DEF ScopeIn
      <4>3. QED
        BY <1>6, <4>1, <4>2
    <3>4. CallOK(p, new)
      BY <1>1, <1>2, <2>4, <3>1, <3>2, <3>3 DEF CallOK
    <3>5. QED
      BY <1>6, <3>1, <3>4
  <2>5. QED
    BY <2>2, <2>3, <2>4, InsideShape
<1>7. QED
  BY <1>3, <1>5, <1>6 DEF CallOK

\* It comes next in the numbering.
LEMMA NumberEntered ==
  ASSUME NEW p, IsPlan(p), NEW c, CallOK(p, c), NEW d \in Nat, LeftBy(p, c, d),
         c.visited < Len(VisitedBy(p, c))
  PROVE  LET node == VisitedBy(p, c)[c.visited + 1]
         IN LeftBy(p, Call(WhatBelow(p, c, node), node, ScopeIn(c)), d)
<1> DEFINE node == VisitedBy(p, c)[c.visited + 1]
           what == WhatBelow(p, c, node)
           new == Call(what, node, ScopeIn(c))
<1>1. c.visited \in Nat /\ Len(VisitedBy(p, c)) \in Nat
      /\ c.visited + 1 \in 1..Len(VisitedBy(p, c))
  BY CallVisits
<1>2. new.visited = 0 /\ new.what = what /\ new.node = node
  BY DEF Call
<1>3. what \in {"planRelation", "relation", "subquery"} /\ (what = "planRelation" <=> c.what = "plan")
  BY <1>1, CallEntered
<1>4. CASE c.what = "plan"
  <2>1. node = c.visited + 1 /\ node \in DOMAIN p.roots
    BY <1>1, <1>4, CallVisits, RootsShape
  <2>2. IsWhole(p, d, p.roots[node].input)
    <3>1. CASE c.visited = 0
      <4>1. d = 0 /\ node = 1
        BY <1>4, <2>1, <3>1 DEF LeftBy
      <4>2. QED
        BY <2>1, <4>1, FirstRoot
    <3>2. CASE c.visited # 0
      <4>1. d = p.roots[c.visited].input
        BY <1>4, <3>2 DEF LeftBy
      <4>2. c.visited \in DOMAIN p.roots
        BY <1>1, <2>1, <3>2, RootsShape
      <4>3. QED
        BY <2>1, <4>1, <4>2, NextRoot
    <3>3. QED
      BY <3>1, <3>2
  <2>3. QED
    BY <1>2, <1>3, <1>4, <2>2 DEF LeftBy
<1>5. CASE c.what = "planRelation"
  <2>1. VisitedBy(p, c) = <<p.roots[c.node].input>>
    BY <1>5, CallVisits
  <2>2. Len(VisitedBy(p, c)) = 1
    BY <2>1
  <2>3. c.visited = 0 /\ node = p.roots[c.node].input
    BY <1>1, <2>1, <2>2
  <2>4. IsWhole(p, d, node)
    BY <1>5, <2>3 DEF LeftBy
  <2>5. QED
    BY <1>2, <1>3, <1>5, <2>4 DEF LeftBy
<1>6. CASE c.what = "relation" \/ c.what = "subquery"
  <2>1. VisitedBy(p, c) = Inside(p, c.node) /\ c.node \in 1..LastVisited(p)
    BY <1>6, CallVisits
  <2>2. c.visited + 1 \in DOMAIN Inside(p, c.node)
    BY <1>1, <2>1, InsideShape
  <2>3. IsWhole(p, d, node)
    <3>1. CASE c.visited = 0
      <4>1. IsWhole(p, d, c.node)
        BY <1>6, <3>1 DEF LeftBy
      <4>2. Inside(p, c.node) # << >>
        BY <2>2
      <4>3. QED
        BY <2>1, <3>1, <4>1, <4>2, FirstInside
    <3>2. CASE c.visited # 0
      <4>1. d = Inside(p, c.node)[c.visited]
        BY <1>6, <2>1, <3>2 DEF LeftBy
      <4>2. c.visited \in DOMAIN Inside(p, c.node)
        BY <1>1, <2>1, <3>2, InsideShape
      <4>3. QED
        BY <2>1, <2>2, <4>1, <4>2, NextInside
    <3>3. QED
      BY <3>1, <3>2
  <2>4. QED
    BY <1>2, <1>3, <1>6, <2>3 DEF LeftBy
<1>7. QED
  BY <1>4, <1>5, <1>6 DEF CallOK

\* When nothing is left to visit, the node itself is next.
LEMMA NumberLeft ==
  ASSUME NEW p, IsPlan(p), NEW c, CallOK(p, c), NEW d \in Nat, LeftBy(p, c, d),
         ~(c.visited < Len(VisitedBy(p, c)))
  PROVE  /\ c.what = "plan" => d = LastVisited(p)
         /\ c.what = "planRelation" => d = p.roots[c.node].input
         /\ c.what = "relation" \/ c.what = "subquery" =>
              c.node = d + 1 /\ c.node \in 1..LastVisited(p)
<1>1. c.visited \in Nat /\ c.visited = Len(VisitedBy(p, c))
  BY CallVisits
<1>2. CASE c.what = "plan"
  <2>1. c.visited = Len(p.roots)
    BY <1>1, <1>2, CallVisits
  <2>2. CASE c.visited = 0
    <3>1. d = 0 /\ p.roots = << >>
      BY <1>2, <2>1, <2>2, RootsShape DEF LeftBy
    <3>2. QED
      BY <1>2, <3>1 DEF LastVisited
  <2>3. CASE c.visited # 0
    <3>1. d = p.roots[Len(p.roots)].input /\ p.roots # << >>
      BY <1>2, <2>1, <2>3, RootsShape DEF LeftBy
    <3>2. QED
      BY <1>2, <3>1 DEF LastVisited
  <2>4. QED
    BY <2>2, <2>3
<1>3. CASE c.what = "planRelation"
  <2>1. VisitedBy(p, c) = <<p.roots[c.node].input>>
    BY <1>3, CallVisits
  <2>2. Len(VisitedBy(p, c)) = 1 /\ VisitedBy(p, c)[1] = p.roots[c.node].input
    BY <2>1
  <2>3. d = VisitedBy(p, c)[c.visited]
    BY <1>1, <1>3, <2>2 DEF LeftBy
  <2>4. QED
    BY <1>1, <1>3, <2>2, <2>3
<1>4. CASE c.what = "relation" \/ c.what = "subquery"
  <2>1. VisitedBy(p, c) = Inside(p, c.node) /\ c.node \in 1..LastVisited(p)
    BY <1>4, CallVisits
  <2>2. Inside(p, c.node) = << >> <=> c.visited = 0
    BY <1>1, <2>1, InsideShape, EmptySeq DEF IsSequence
  <2>3. CASE c.visited = 0
    <3>1. IsWhole(p, d, c.node)
      BY <1>4, <2>3 DEF LeftBy
    <3>2. QED
      BY <1>4, <2>1, <2>2, <2>3, <3>1, NothingInside
  <2>4. CASE c.visited # 0
    <3>1. d = Inside(p, c.node)[Len(Inside(p, c.node))]
      BY <1>1, <1>4, <2>1, <2>4 DEF LeftBy
    <3>2. QED
      BY <1>4, <2>1, <2>2, <2>4, <3>1, LastInside
  <2>5. QED
    BY <2>3, <2>4
<1>5. QED
  BY <1>2, <1>3, <1>4 DEF CallOK

\* The stack when the innermost method has called another.
Counted(v) == [v EXCEPT ![Len(v)].visited = @ + 1]

LEMMA StackCounted ==
  ASSUME NEW p, NEW v, IsSequence(v), v # << >>,
         \A i \in DOMAIN v : CallOK(p, v[i]) /\ (v[i].what = "plan" <=> i = 1),
         \A i \in 1..(Len(v) - 1) : CalledBy(p, v[i], v[i + 1]),
         NEW c, c = Last(v), c.visited \in Nat, Len(VisitedBy(p, c)) \in Nat,
         c.visited < Len(VisitedBy(p, c))
  PROVE  LET w == Counted(v) IN
         /\ IsSequence(w) /\ Len(w) = Len(v) /\ w # << >>
         /\ \A i \in DOMAIN w : CallOK(p, w[i]) /\ (w[i].what = "plan" <=> i = 1)
         /\ \A i \in 1..(Len(w) - 1) : CalledBy(p, w[i], w[i + 1])
         /\ Len(v) \in Nat \ {0} /\ DOMAIN v = 1..Len(v)
         /\ w[Len(v)].visited = c.visited + 1
         /\ w[Len(v)].what = c.what /\ w[Len(v)].node = c.node
         /\ w[Len(v)].outer = c.outer
         /\ VisitedBy(p, w[Len(v)]) = VisitedBy(p, c)
<1>1. Len(v) \in Nat \ {0} /\ DOMAIN v = 1..Len(v)
  BY SequenceHas, EmptySeq DEF IsSequence
<1>2. c = v[Len(v)] /\ Len(v) \in DOMAIN v
  BY <1>1 DEF Last
<1>3. DOMAIN c = {"what", "node", "visited", "outer"}
  BY <1>2 DEF CallOK
<1> DEFINE new == [c EXCEPT !.visited = @ + 1]
           w == Counted(v)
<1>4. /\ DOMAIN new = {"what", "node", "visited", "outer"} /\ new.visited = c.visited + 1
      /\ new.what = c.what /\ new.node = c.node /\ new.outer = c.outer
  BY <1>3
<1>5. w = [v EXCEPT ![Len(v)] = new]
  BY <1>2 DEF Counted
<1> HIDE DEF new
<1> HIDE DEF w
<1>6. /\ IsSequence(w) /\ DOMAIN w = DOMAIN v
      /\ \A i \in DOMAIN v : w[i] = IF i = Len(v) THEN new ELSE v[i]
  BY <1>2, <1>5, SequenceExcept
<1>7. Len(w) = Len(v)
  <2>1. DOMAIN w = 1..Len(w) /\ Len(w) \in Nat
    BY <1>6, SequenceHas
  <2>2. QED
    BY <1>1, <1>6, <2>1
<1>8. VisitedBy(p, new) = VisitedBy(p, c)
  BY <1>4 DEF VisitedBy
<1>9. CallOK(p, new)
  <2>1. new.visited \in 0..Len(VisitedBy(p, new))
    BY <1>4, <1>8
  <2>2. CallOK(p, c)
    BY <1>2
  <2>3. QED
    BY <1>4, <2>1, <2>2 DEF CallOK
<1>10. \A i \in DOMAIN w : CallOK(p, w[i]) /\ (w[i].what = "plan" <=> i = 1)
  BY <1>2, <1>4, <1>6, <1>9
<1>11. ASSUME NEW i \in 1..(Len(w) - 1)
       PROVE  CalledBy(p, w[i], w[i + 1])
  <2>1. i \in DOMAIN v /\ i # Len(v) /\ i + 1 \in DOMAIN v /\ i \in 1..(Len(v) - 1)
    BY <1>1, <1>7
  <2>2. w[i] = v[i]
    BY <1>6, <2>1
  <2>3. /\ w[i + 1].node = v[i + 1].node /\ w[i + 1].what = v[i + 1].what
        /\ w[i + 1].outer = v[i + 1].outer
    BY <1>2, <1>4, <1>6, <2>1
  <2>4. QED
    BY <2>1, <2>2, <2>3 DEF CalledBy
<1>12. w # << >>
  BY <1>1, <1>6
<1>13. w[Len(v)] = new
  BY <1>2, <1>6
<1>14. QED
  BY <1>1, <1>4, <1>6, <1>7, <1>8, <1>10, <1>11, <1>12, <1>13 DEF w

LEMMA CallsEntered ==
  ASSUME NEW p, IsPlan(p), NEW v, NEW current, NEW d \in Nat,
         CallsOK(p, v, current, d),
         NEW c, c = Last(v), c.visited < Len(VisitedBy(p, c)),
         NEW node, node = VisitedBy(p, c)[c.visited + 1],
         NEW what, what = WhatBelow(p, c, node),
         NEW next, next = IF what = "relation" THEN node ELSE current
  PROVE  CallsOK(p, Append(Counted(v), Call(what, node, current)), next, d)
<1> DEFINE w == Counted(v)
           new == Call(what, node, current)
           u == Append(w, new)
<1>1. /\ IsSequence(v) /\ v # << >>
      /\ \A i \in DOMAIN v : CallOK(p, v[i]) /\ (v[i].what = "plan" <=> i = 1)
      /\ \A i \in 1..(Len(v) - 1) : CalledBy(p, v[i], v[i + 1])
      /\ current = ScopeIn(c) /\ LeftBy(p, c, d)
  BY DEF CallsOK
<1>2. CallOK(p, c)
  <2>1. Len(v) \in DOMAIN v
    BY <1>1, SequenceHas, EmptySeq DEF IsSequence
  <2>2. QED
    BY <1>1, <2>1 DEF Last
<1>3. c.visited \in Nat /\ Len(VisitedBy(p, c)) \in Nat
      /\ c.visited + 1 \in 1..Len(VisitedBy(p, c))
  BY <1>2, CallVisits
<1>4. /\ CallOK(p, new) /\ what # "plan" /\ LeftBy(p, new, d)
  BY <1>1, <1>2, <1>3, CallEntered, NumberEntered
<1>5. /\ IsSequence(w) /\ Len(w) = Len(v) /\ w # << >>
      /\ \A i \in DOMAIN w : CallOK(p, w[i]) /\ (w[i].what = "plan" <=> i = 1)
      /\ \A i \in 1..(Len(w) - 1) : CalledBy(p, w[i], w[i + 1])
      /\ Len(v) \in Nat \ {0} /\ DOMAIN v = 1..Len(v)
      /\ w[Len(v)].visited = c.visited + 1
      /\ w[Len(v)].what = c.what /\ w[Len(v)].node = c.node
      /\ w[Len(v)].outer = c.outer
      /\ VisitedBy(p, w[Len(v)]) = VisitedBy(p, c)
  BY <1>1, <1>3, StackCounted
<1>6. new.what = what /\ new.node = node /\ new.outer = current /\ new.visited = 0
  BY DEF Call
<1> HIDE DEF w, new
<1>7. /\ IsSequence(u) /\ Len(u) = Len(v) + 1 /\ DOMAIN u = DOMAIN w \union {Len(v) + 1}
      /\ \A i \in DOMAIN w : i # Len(v) + 1 /\ u[i] = w[i]
      /\ u[Len(v) + 1] = new
  BY <1>5, SequenceAppend
<1>8. DOMAIN w = 1..Len(v) /\ DOMAIN u = 1..(Len(v) + 1)
  BY <1>5, <1>7, SequenceHas
<1> HIDE DEF u
<1>9. u # << >> /\ Last(u) = new
  BY <1>5, <1>7, <1>8 DEF Last
<1>10. \A i \in DOMAIN u : CallOK(p, u[i]) /\ (u[i].what = "plan" <=> i = 1)
  BY <1>4, <1>5, <1>6, <1>7
<1>11. CalledBy(p, w[Len(v)], new)
  <2>1. ScopeIn(w[Len(v)]) = current
    BY <1>1, <1>5 DEF ScopeIn
  <2>2. WhatBelow(p, w[Len(v)], node) = what
    BY <1>5 DEF WhatBelow
  <2>3. QED
    BY <1>3, <1>5, <1>6, <2>1, <2>2 DEF CalledBy
<1>12. ASSUME NEW i \in 1..(Len(u) - 1)
       PROVE  CalledBy(p, u[i], u[i + 1])
  <2>1. i \in 1..Len(v) /\ (i = Len(v) \/ (i \in 1..(Len(w) - 1) /\ i + 1 \in 1..Len(v)))
    BY <1>5, <1>7
  <2>2. CASE i = Len(v)
    BY <1>7, <1>8, <1>11, <2>1, <2>2
  <2>3. CASE i \in 1..(Len(w) - 1) /\ i + 1 \in 1..Len(v)
    BY <1>5, <1>7, <1>8, <2>1, <2>3
  <2>4. QED
    BY <2>1, <2>2, <2>3
<1>13. next = ScopeIn(new)
  BY <1>6 DEF ScopeIn
<1>14. CallsOK(p, u, next, d)
  BY <1>4, <1>7, <1>9, <1>10, <1>12, <1>13 DEF CallsOK
<1>15. QED
  BY <1>14 DEF u, w, new

LEMMA CallsLeft ==
  ASSUME NEW p, IsPlan(p), NEW v, NEW current, NEW d \in Nat,
         CallsOK(p, v, current, d),
         NEW c, c = Last(v), ~(c.visited < Len(VisitedBy(p, c))), c.what # "plan"
  PROVE  /\ CallsOK(p, Front(v), c.outer, IF c.what = "planRelation" THEN d ELSE d + 1)
         /\ c.what = "relation" => c.node = d + 1 /\ c.node \in Relations(p)
         /\ c.what = "subquery" =>
              /\ c.node = d + 1 /\ c.node \in SubqueriesOf(p)
              /\ current \in Relations(p) /\ current = Around(p, c.node)
              /\ c.outer = current
         /\ c.what = "planRelation" => c.outer = current
<1> DEFINE u == Front(v)
           left == IF c.what = "planRelation" THEN d ELSE d + 1
<1>1. /\ IsSequence(v) /\ v # << >>
      /\ \A i \in DOMAIN v : CallOK(p, v[i]) /\ (v[i].what = "plan" <=> i = 1)
      /\ \A i \in 1..(Len(v) - 1) : CalledBy(p, v[i], v[i + 1])
      /\ current = ScopeIn(c) /\ LeftBy(p, c, d)
  BY DEF CallsOK
<1>2. Len(v) \in Nat \ {0} /\ DOMAIN v = 1..Len(v)
  BY <1>1, SequenceHas, EmptySeq DEF IsSequence
<1>3. c = v[Len(v)] /\ CallOK(p, c) /\ Len(v) # 1
  BY <1>1, <1>2 DEF Last
<1>4. /\ c.what = "planRelation" => d = p.roots[c.node].input
      /\ c.what = "relation" \/ c.what = "subquery" =>
           c.node = d + 1 /\ c.node \in 1..LastVisited(p)
  BY <1>1, <1>3, NumberLeft
<1> DEFINE caller == v[Len(v) - 1]
<1>5. CalledBy(p, caller, c) /\ CallOK(p, caller) /\ Len(v) - 1 \in DOMAIN v
  <2>1. Len(v) - 1 \in 1..(Len(v) - 1) /\ (Len(v) - 1) + 1 = Len(v)
    BY <1>2, <1>3
  <2>2. Len(v) - 1 \in DOMAIN v
    BY <1>2, <2>1
  <2>3. QED
    BY <1>1, <1>3, <2>1, <2>2
<1>6. /\ IsSequence(u) /\ Len(u) = Len(v) - 1 /\ DOMAIN u = 1..(Len(v) - 1)
      /\ \A i \in DOMAIN u : u[i] = v[i]
  <2>1. u = [i \in 1..(Len(v) - 1) |-> v[i]]
    <3>1. u = SubSeq(v, 1, Len(v) - 1)
      BY DEF Front
    <3>2. v \in Seq(ToSet(v))
      BY <1>1 DEF IsSequence
    <3>3. QED
      BY <1>2, <3>1, <3>2
  <2>2. u = [i \in 1..(Len(v) - 1) |-> u[i]] /\ Len(v) - 1 \in Nat
    BY <1>2, <2>1
  <2> HIDE DEF u
  <2>3. IsSequence(u) /\ Len(u) = Len(v) - 1
    BY <2>2, ListIsSequence
  <2>4. QED
    BY <2>1, <2>3
<1> HIDE DEF u, caller
<1>7. u # << >> /\ Last(u) = caller
  <2>1. Len(u) \in DOMAIN u
    BY <1>2, <1>3, <1>6
  <2>2. QED
    BY <1>6, <2>1 DEF Last, caller
<1>8. \A i \in DOMAIN u : CallOK(p, u[i]) /\ (u[i].what = "plan" <=> i = 1)
  BY <1>1, <1>2, <1>6
<1>9. ASSUME NEW i \in 1..(Len(u) - 1)
      PROVE  CalledBy(p, u[i], u[i + 1])
  <2>1. i \in DOMAIN u /\ i + 1 \in DOMAIN u /\ i \in 1..(Len(v) - 1)
    BY <1>2, <1>6
  <2>2. QED
    BY <1>1, <1>6, <2>1
<1>10. c.outer = ScopeIn(caller)
  BY <1>5 DEF CalledBy
<1>11. LeftBy(p, caller, left)
  <2>1. caller.visited # 0 /\ c.node = VisitedBy(p, caller)[caller.visited]
        /\ c.what = WhatBelow(p, caller, c.node)
        /\ caller.visited \in 1..Len(VisitedBy(p, caller))
    <3>1. caller.visited \in Nat /\ Len(VisitedBy(p, caller)) \in Nat
          /\ caller.visited <= Len(VisitedBy(p, caller))
      BY <1>5, CallVisits
    <3>2. QED
      BY <1>5, <3>1 DEF CalledBy
  <2>2. c.what \in {"planRelation", "relation", "subquery"}
        /\ (c.what = "planRelation" <=> caller.what = "plan")
    BY <1>5, <2>1, CallEntered
  <2>3. CASE caller.what = "plan"
    <3>1. c.node = caller.visited
      BY <1>5, <2>1, <2>3, CallVisits
    <3>2. QED
      BY <1>4, <2>1, <2>2, <2>3, <3>1 DEF LeftBy
  <2>4. CASE caller.what # "plan"
    BY <1>4, <2>1, <2>2, <2>4 DEF LeftBy
  <2>5. QED
    BY <2>3, <2>4
<1>12. CallsOK(p, u, c.outer, left)
  BY <1>6, <1>7, <1>8, <1>9, <1>10, <1>11 DEF CallsOK
<1>13. c.what = "relation" => c.node \in Relations(p)
  BY <1>3 DEF CallOK
<1>14. c.what = "subquery" => /\ c.node \in SubqueriesOf(p) /\ c.outer \in Relations(p)
                              /\ c.outer = Around(p, c.node)
  BY <1>3 DEF CallOK
<1>15. c.what # "relation" => c.outer = current
  BY <1>1 DEF ScopeIn
<1>16. QED
  BY <1>4, <1>12, <1>13, <1>14, <1>15 DEF u

LEMMA CallsBegin ==
  ASSUME NEW p, IsPlan(p)
  PROVE  CallsOK(p, VisitPlan, NoRelation, 0)
<1> DEFINE c == Call("plan", 0, NoRelation)
           v == <<c>>
<1>1. /\ c.what = "plan" /\ c.visited = 0 /\ c.outer = NoRelation
      /\ DOMAIN c = {"what", "node", "visited", "outer"}
  BY DEF Call
<1>2. VisitedBy(p, c) = Indexes(p.roots)
  BY <1>1 DEF VisitedBy
<1>3. Len(VisitedBy(p, c)) \in Nat
  <2>1. Indexes(p.roots) = [i \in 1..Len(p.roots) |-> Indexes(p.roots)[i]] /\ Len(p.roots) \in Nat
    BY RootsShape DEF Indexes
  <2>2. QED
    BY <1>2, <2>1, ListIsSequence
<1> HIDE DEF c
<1>4. CallOK(p, c)
  BY <1>1, <1>3 DEF CallOK
<1>5. IsSequence(v) /\ v # << >> /\ Len(v) = 1 /\ DOMAIN v = {1} /\ v[1] = c
  <2>1. v = [i \in 1..1 |-> v[i]] /\ DOMAIN v = {1} /\ v[1] = c /\ Len(v) = 1
    OBVIOUS
  <2>2. QED
    BY <2>1, ListIsSequence
<1> HIDE DEF v
<1>6. Last(v) = c
  BY <1>5 DEF Last
<1>7. LeftBy(p, c, 0) /\ ScopeIn(c) = NoRelation
  BY <1>1 DEF LeftBy, ScopeIn
<1>8. CallsOK(p, v, NoRelation, 0)
  BY <1>1, <1>4, <1>5, <1>6, <1>7 DEF CallsOK
<1>9. QED
  BY <1>8 DEF v, c, VisitPlan

LEMMA CallsEnd ==
  ASSUME NEW p, IsPlan(p), NEW v, NEW current, NEW d \in Nat,
         CallsOK(p, v, current, d),
         NEW c, c = Last(v), ~(c.visited < Len(VisitedBy(p, c))), c.what = "plan"
  PROVE  d = LastVisited(p) /\ current = NoRelation
<1>1. CallOK(p, c) /\ LeftBy(p, c, d) /\ current = ScopeIn(c)
  <2>1. Len(v) \in DOMAIN v
    BY SequenceHas, EmptySeq DEF IsSequence, CallsOK
  <2>2. QED
    BY <2>1 DEF CallsOK, Last
<1>2. QED
  BY <1>1, NumberLeft DEF CallOK, ScopeIn

-----------------------------------------------------------------------------
(***************************************************************************)
(* The symbols and their numbers.                                          *)
(***************************************************************************)

IsOriginal(l) == \E n : l = Original(n)

LEMMA OriginalsDiffer ==
  /\ \A n, m : Original(n) = Original(m) => n = m
  /\ \A n, m : Original(n) # Copy(m)
  /\ \A m : ~IsOriginal(PlanRelLocation(m)) /\ ~IsOriginal(RelRootLocation(m))
BY DEF IsOriginal, Original, Copy, PlanRelLocation, RelRootLocation

\* A relation that has been left has one symbol and is found again by it.
LEMMA SymbolFound ==
  ASSUME NEW p, NEW t, NEW d, SymbolsOK(p, t, d)
  PROVE  /\ Len(t.symbols) \in Nat /\ DOMAIN t.symbols = 1..Len(t.symbols)
         /\ \A n \in Relations(p) : n <= d =>
              /\ SymbolOf(t, n) \in DOMAIN t.symbols
              /\ FindSymbolIndex(t, t.symbols[SymbolOf(t, n)]) = SymbolOf(t, n)
              /\ \A m \in Relations(p) : m <= d /\ SymbolOf(t, m) = SymbolOf(t, n) => m = n
<1>1. Len(t.symbols) \in Nat /\ DOMAIN t.symbols = 1..Len(t.symbols)
  BY SequenceHas DEF SymbolsOK
<1>2. ASSUME NEW n \in Relations(p), n <= d
      PROVE  /\ SymbolOf(t, n) \in DOMAIN t.symbols
             /\ t.symbols[SymbolOf(t, n)].type = "relation"
             /\ t.symbols[SymbolOf(t, n)].sourceLocation = Original(n)
  BY <1>2 DEF SymbolsOK
<1>3. ASSUME NEW n \in Relations(p), n <= d,
             NEW m \in Relations(p), m <= d, SymbolOf(t, m) = SymbolOf(t, n)
      PROVE  m = n
  <2>1. Original(m) = Original(n)
    BY <1>2, <1>3
  <2>2. QED
    BY <2>1, OriginalsDiffer
<1>4. ASSUME NEW n \in Relations(p), n <= d
      PROVE  FindSymbolIndex(t, t.symbols[SymbolOf(t, n)]) = SymbolOf(t, n)
  <2> DEFINE s == SymbolOf(t, n)
             M == {i \in DOMAIN t.symbols : SameSymbol(t.symbols[i], t.symbols[s])}
  <2>1. s \in M /\ M \in SUBSET Nat
    BY <1>1, <1>2, <1>4 DEF SameSymbol
  <2>2. ASSUME NEW i \in M
        PROVE  i = s
    <3>1. t.symbols[i].type = "relation" /\ t.symbols[i].sourceLocation = Original(n)
          /\ i \in DOMAIN t.symbols
      BY <1>2, <1>4 DEF SameSymbol
    <3>2. PICK m \in Relations(p) : m <= d /\ i = SymbolOf(t, m)
      BY <3>1 DEF SymbolsOK
    <3>3. Original(m) = Original(n)
      BY <1>2, <3>1, <3>2
    <3>4. m = n
      BY <3>3, OriginalsDiffer
    <3>5. QED
      BY <3>2, <3>4
  <2> HIDE DEF s
  <2>3. \A i \in M : s <= i
    BY <2>1, <2>2
  <2> HIDE DEF M
  <2>4. First(M) = s
    BY <2>1, <2>3, FirstIs
  <2>5. QED
    BY <2>4 DEF FindSymbolIndex, s, M
<1>5. QED
  BY <1>1, <1>2, <1>3, <1>4

LEMMA BelowFound ==
  ASSUME NEW p, IsPlan(p), NEW t, NEW d \in Nat, SymbolsOK(p, t, d),
         NEW e \in SubqueriesOf(p), e <= d + 1
  PROVE  /\ p.node[e].inputs[1] \in Relations(p) /\ p.node[e].inputs[1] <= d
         /\ Below(p, t, e) \in DOMAIN t.symbols
         /\ FindSymbolIndex(t, t.symbols[Below(p, t, e)]) = Below(p, t, e)
         /\ t.symbols[Below(p, t, e)].type = "relation"
         /\ \A f \in SubqueriesOf(p) :
              f <= d + 1 /\ Below(p, t, f) = Below(p, t, e) => f = e
<1>1. ASSUME NEW f \in SubqueriesOf(p), f <= d + 1
      PROVE  p.node[f].inputs[1] \in Relations(p) /\ p.node[f].inputs[1] <= d
  <2>1. f \in Nat /\ p.node[f].inputs[1] \in 1..(f - 1)
    BY SubqueryInput
  <2>2. p.node[f].inputs[1] <= d
    BY <1>1, <2>1
  <2>3. QED
    BY <2>2, SubqueryInput
<1>2. ASSUME NEW f \in SubqueriesOf(p), f <= d + 1, Below(p, t, f) = Below(p, t, e)
      PROVE  f = e
  <2>1. p.node[f].inputs[1] = p.node[e].inputs[1]
    BY <1>1, <1>2, SymbolFound DEF Below
  <2>2. QED
    BY <2>1, SubqueryInput
<1>3. QED
  BY <1>1, <1>2, SymbolFound DEF Below, SymbolsOK

\* Where a relation alone is recorded, it is what is found.
LEMMA SymbolsStay ==
  ASSUME NEW u, NEW n, NEW s,
         ValuesAt(u.byLocation, Original(n)) = <<s>>, u.symbols[s].type = "relation"
  PROVE  SymbolOf(u, n) = s
<1>1. LookupSymbolByLocationAndType(u, Original(n), u.symbols[s].type) = s
  BY NamedAloneThere
<1>2. QED
  BY <1>1 DEF SymbolOf

\* A symbol that is no relation's under a subquery changes no number.
LEMMA IndexesStay ==
  ASSUME NEW p, IsPlan(p), NEW t, NEW u, NEW d \in Nat, NEW g \in Nat,
         d <= g, g <= d + 1, \A e \in SubqueriesOf(p) : e <= g => e <= d,
         SymbolsOK(p, t, d), IndexesOK(p, t, d),
         NEW new, new \notin DOMAIN t.symbols,
         DOMAIN u.symbols = DOMAIN t.symbols \union {new},
         \A i \in DOMAIN t.symbols : u.symbols[i] = t.symbols[i],
         u.symbols[new].parentQueryLocation = UnknownLocation,
         u.symbols[new].parentQueryIndex = -1,
         \A n \in Relations(p) : n <= d => SymbolOf(u, n) = SymbolOf(t, n)
  PROVE  IndexesOK(p, u, g)
<1>1. ASSUME NEW e \in SubqueriesOf(p), e <= g
      PROVE  /\ e <= d /\ Below(p, u, e) = Below(p, t, e) /\ Below(p, t, e) \in DOMAIN t.symbols
             /\ IndexOf(p, u, e) = IndexOf(p, t, e)
             /\ u.symbols[Below(p, u, e)].parentQueryLocation
                  = t.symbols[Below(p, t, e)].parentQueryLocation
  <2>1. e <= d /\ e \in Nat
    BY <1>1, SubqueryInput
  <2>2. e <= d + 1
    BY <2>1
  <2>3. Below(p, u, e) = Below(p, t, e) /\ Below(p, t, e) \in DOMAIN t.symbols
    BY <2>2, BelowFound DEF Below
  <2>4. QED
    BY <2>1, <2>3 DEF IndexOf
<1>2. \A e \in SubqueriesOf(p) : e \in Nat /\ (e <= d => e <= g)
  <2>1. ASSUME NEW e \in SubqueriesOf(p)
        PROVE  e \in Nat
    BY SubqueryInput
  <2>2. QED
    BY <2>1
<1>3. ASSUME NEW e \in SubqueriesOf(p), e <= g
      PROVE  /\ u.symbols[Below(p, u, e)].parentQueryLocation = Original(Around(p, e))
             /\ IndexOf(p, u, e) \in 0..(e - 1)
             /\ \A f \in SubqueriesOf(p) : f < e /\ Around(p, f) = Around(p, e)
                  => IndexOf(p, u, f) < IndexOf(p, u, e)
             /\ \A k \in 0..(IndexOf(p, u, e) - 1) :
                  \E f \in SubqueriesOf(p) :
                    f <= g /\ Around(p, f) = Around(p, e) /\ IndexOf(p, u, f) = k
  <2>1. /\ t.symbols[Below(p, t, e)].parentQueryLocation = Original(Around(p, e))
        /\ IndexOf(p, t, e) \in 0..(e - 1)
        /\ \A f \in SubqueriesOf(p) : f < e /\ Around(p, f) = Around(p, e)
             => IndexOf(p, t, f) < IndexOf(p, t, e)
        /\ \A k \in 0..(IndexOf(p, t, e) - 1) :
             \E f \in SubqueriesOf(p) :
               f <= d /\ Around(p, f) = Around(p, e) /\ IndexOf(p, t, f) = k
    BY <1>1, <1>3 DEF IndexesOK
  <2>2. \A f \in SubqueriesOf(p) : f < e => f <= g
    BY <1>2, <1>3
  <2>3. \A f \in SubqueriesOf(p) : f < e /\ Around(p, f) = Around(p, e)
          => IndexOf(p, u, f) < IndexOf(p, u, e)
    BY <1>1, <1>3, <2>1, <2>2
  <2>4. ASSUME NEW k \in 0..(IndexOf(p, u, e) - 1)
        PROVE  \E f \in SubqueriesOf(p) :
                 f <= g /\ Around(p, f) = Around(p, e) /\ IndexOf(p, u, f) = k
    <3>1. PICK f \in SubqueriesOf(p) :
            f <= d /\ Around(p, f) = Around(p, e) /\ IndexOf(p, t, f) = k
      BY <1>1, <1>3, <2>1
    <3>2. QED
      BY <1>1, <1>2, <3>1
  <2>5. QED
    BY <1>1, <1>3, <2>1, <2>3, <2>4
<1>4. ASSUME NEW s \in DOMAIN u.symbols
      PROVE  \/ /\ u.symbols[s].parentQueryLocation = UnknownLocation
                /\ u.symbols[s].parentQueryIndex = -1
             \/ \E e \in SubqueriesOf(p) : e <= g /\ s = Below(p, u, e)
  <2>1. CASE s = new
    BY <2>1
  <2>2. CASE s \in DOMAIN t.symbols
    <3>1. \/ /\ t.symbols[s].parentQueryLocation = UnknownLocation
             /\ t.symbols[s].parentQueryIndex = -1
          \/ \E e \in SubqueriesOf(p) : e <= d /\ s = Below(p, t, e)
      BY <2>2 DEF IndexesOK
    <3>2. QED
      BY <1>1, <1>2, <2>2, <3>1
  <2>3. QED
    BY <2>1, <2>2
<1>5. QED
  BY <1>3, <1>4 DEF IndexesOK

LEMMA DefinedShape ==
  ASSUME NEW t, DOMAIN t = DOMAIN EmptyTable, IsSequence(t.symbols),
         NEW base, NEW l, NEW type
  PROVE  LET u == DefineUniqueSymbol(t, base, l, type)
             new == Len(t.symbols) + 1
         IN /\ DOMAIN u = DOMAIN EmptyTable /\ IsSequence(u.symbols)
            /\ Len(t.symbols) \in Nat /\ Len(u.symbols) = new /\ new \notin DOMAIN t.symbols
            /\ DOMAIN u.symbols = DOMAIN t.symbols \union {new}
            /\ \A i \in DOMAIN t.symbols : u.symbols[i] = t.symbols[i]
            /\ u.symbols[new] = NewSymbol(UniqueName(t, base), l, type)
            /\ u.byLocation = InsertMulti(t.byLocation, l, new)
<1> DEFINE u == DefineUniqueSymbol(t, base, l, type)
           c == CountName(t, base)
           new == Len(t.symbols) + 1
           s == NewSymbol(UniqueName(t, base), l, type)
<1>1. /\ DOMAIN c = DOMAIN EmptyTable
      /\ c.symbols = t.symbols /\ c.byLocation = t.byLocation
  BY DEF CountName, EmptyTable
<1>2. u = DefineSymbol(c, UniqueName(t, base), l, type)
  BY DEF DefineUniqueSymbol
<1> HIDE DEF u, c
<1>3. /\ DOMAIN u = DOMAIN EmptyTable
      /\ u.symbols = Append(t.symbols, s)
      /\ u.byLocation = InsertMulti(t.byLocation, l, new)
  BY <1>1, <1>2 DEF DefineSymbol, EmptyTable
<1> HIDE DEF s
<1>4. /\ IsSequence(u.symbols) /\ Len(t.symbols) \in Nat /\ Len(u.symbols) = new
      /\ DOMAIN u.symbols = DOMAIN t.symbols \union {new}
      /\ \A i \in DOMAIN t.symbols : i # new /\ u.symbols[i] = t.symbols[i]
      /\ u.symbols[new] = s
  BY <1>3, SequenceAppend
<1>5. new \notin DOMAIN t.symbols
  BY <1>4
<1>6. QED
  BY <1>3, <1>4, <1>5 DEF u, s

IsOther(type) == type # "relation"

\* A symbol for a root or a PlanRel disturbs no relation.
LEMMA RootDefined ==
  ASSUME NEW p, IsPlan(p), NEW t, NEW d \in Nat, SymbolsOK(p, t, d), IndexesOK(p, t, d),
         NEW base, NEW l, ~IsOriginal(l), NEW type, IsOther(type),
         NEW u, u = DefineUniqueSymbol(t, base, l, type)
  PROVE  /\ SymbolsOK(p, u, d) /\ IndexesOK(p, u, d)
         /\ DOMAIN u.symbols = DOMAIN t.symbols \union {Len(t.symbols) + 1}
         /\ IsSequence(u.symbols)
<1> DEFINE new == Len(t.symbols) + 1
           s == NewSymbol(UniqueName(t, base), l, type)
<1>1. /\ DOMAIN t = DOMAIN EmptyTable /\ IsSequence(t.symbols)
  BY DEF SymbolsOK
<1>2. /\ DOMAIN u = DOMAIN EmptyTable /\ IsSequence(u.symbols)
      /\ new \notin DOMAIN t.symbols
      /\ DOMAIN u.symbols = DOMAIN t.symbols \union {new}
      /\ \A i \in DOMAIN t.symbols : u.symbols[i] = t.symbols[i]
      /\ u.symbols[new] = s
      /\ u.byLocation = InsertMulti(t.byLocation, l, new)
  BY <1>1, DefinedShape
<1>3. /\ DOMAIN s = DOMAIN NewSymbol("", "", "") /\ s.type = type
      /\ s.parentQueryLocation = UnknownLocation /\ s.parentQueryIndex = -1
  BY DEF NewSymbol
<1> HIDE DEF new, s
<1>4. \A n : ValuesAt(u.byLocation, Original(n)) = ValuesAt(t.byLocation, Original(n))
  <2>1. \A n : Original(n) # l
    BY DEF IsOriginal
  <2>2. QED
    BY <1>2, <2>1, InsertMultiElsewhere
<1>5. ASSUME NEW n \in Relations(p), n <= d
      PROVE  SymbolOf(u, n) = SymbolOf(t, n)
  <2>1. /\ SymbolOf(t, n) \in DOMAIN t.symbols
        /\ t.symbols[SymbolOf(t, n)].type = "relation"
        /\ ValuesAt(t.byLocation, Original(n)) = <<SymbolOf(t, n)>>
    BY <1>5 DEF SymbolsOK
  <2>2. /\ u.symbols[SymbolOf(t, n)].type = "relation"
        /\ ValuesAt(u.byLocation, Original(n)) = <<SymbolOf(t, n)>>
    BY <1>2, <1>4, <2>1
  <2>3. QED
    BY <2>2, SymbolsStay
<1>6. \A n \in Relations(p) : n <= d =>
        SymbolOf(t, n) \in DOMAIN t.symbols
  BY DEF SymbolsOK
<1>7. \A n \in Relations(p) :
        IF n <= d
        THEN /\ SymbolOf(u, n) \in DOMAIN u.symbols
             /\ ValuesAt(u.byLocation, Original(n)) = <<SymbolOf(u, n)>>
             /\ u.symbols[SymbolOf(u, n)].type = "relation"
             /\ u.symbols[SymbolOf(u, n)].sourceLocation = Original(n)
        ELSE ValuesAt(u.byLocation, Original(n)) = << >>
  BY <1>2, <1>4, <1>5, <1>6 DEF SymbolsOK
<1>8. ASSUME NEW i \in DOMAIN u.symbols, u.symbols[i].type = "relation"
      PROVE  \E n \in Relations(p) : n <= d /\ i = SymbolOf(u, n)
  <2>1. i \in DOMAIN t.symbols /\ t.symbols[i].type = "relation"
    BY <1>2, <1>3, <1>8 DEF IsOther
  <2>2. PICK n \in Relations(p) : n <= d /\ i = SymbolOf(t, n)
    BY <2>1 DEF SymbolsOK
  <2>3. QED
    BY <1>5, <2>2
<1>9. \A i \in DOMAIN u.symbols : DOMAIN u.symbols[i] = DOMAIN NewSymbol("", "", "")
  BY <1>2, <1>3 DEF SymbolsOK
<1>10. SymbolsOK(p, u, d)
  BY <1>2, <1>7, <1>8, <1>9 DEF SymbolsOK
<1>11. IndexesOK(p, u, d)
  <2>1. d <= d /\ d <= d + 1
    OBVIOUS
  <2>2. QED
    BY <1>2, <1>3, <1>5, <2>1, IndexesStay
<1>12. QED
  BY <1>2, <1>10, <1>11 DEF new

\* The symbol of a relation, recorded at the relation and at its copy.
LEMMA RelationDefined ==
  ASSUME NEW p, IsPlan(p), NEW t, NEW d \in Nat, SymbolsOK(p, t, d), IndexesOK(p, t, d),
         d + 1 \in Relations(p), NEW base, NEW k
  PROVE  LET defined == DefineUniqueSymbol(t, base, Original(d + 1), "relation")
             u == AddPermanentLocation(defined, Last(defined.symbols), Copy(k))
         IN /\ SymbolsOK(p, u, d + 1) /\ IndexesOK(p, u, d + 1)
            /\ DOMAIN u.symbols = DOMAIN t.symbols \union {Len(t.symbols) + 1}
            /\ IsSequence(u.symbols)
<1> DEFINE l == Original(d + 1)
           defined == DefineUniqueSymbol(t, base, l, "relation")
           new == Len(t.symbols) + 1
           s == NewSymbol(UniqueName(t, base), l, "relation")
           u == AddPermanentLocation(defined, s, Copy(k))
           moved == [s EXCEPT !.permanentLocation = Copy(k)]
<1>1. /\ DOMAIN t = DOMAIN EmptyTable /\ IsSequence(t.symbols)
  BY DEF SymbolsOK
<1>2. /\ DOMAIN defined = DOMAIN EmptyTable /\ IsSequence(defined.symbols)
      /\ Len(t.symbols) \in Nat /\ Len(defined.symbols) = new
      /\ new \notin DOMAIN t.symbols
      /\ DOMAIN defined.symbols = DOMAIN t.symbols \union {new}
      /\ \A i \in DOMAIN t.symbols : defined.symbols[i] = t.symbols[i]
      /\ defined.symbols[new] = s
      /\ defined.byLocation = InsertMulti(t.byLocation, l, new)
  BY <1>1, DefinedShape
<1>3. /\ DOMAIN s = DOMAIN NewSymbol("", "", "") /\ s.type = "relation"
      /\ s.sourceLocation = l
      /\ s.parentQueryLocation = UnknownLocation /\ s.parentQueryIndex = -1
      /\ DOMAIN s = {"name", "alias", "sourceLocation", "permanentLocation",
                     "parentQueryLocation", "parentQueryIndex", "type"}
  BY DEF NewSymbol
<1>4. Last(defined.symbols) = s
  BY <1>2 DEF Last
<1> HIDE DEF l, defined, new, s, u, moved
<1>5. FindSymbolIndex(defined, s) = new
  <2> DEFINE M == {i \in DOMAIN defined.symbols : SameSymbol(defined.symbols[i], s)}
  <2>1. new \in M
    BY <1>2 DEF SameSymbol
  <2>2. ASSUME NEW i \in M
        PROVE  i = new
    <3>1. SUFFICES ASSUME i # new
                   PROVE  FALSE
      OBVIOUS
    <3>2. i \in DOMAIN t.symbols /\ t.symbols[i].type = "relation"
          /\ t.symbols[i].sourceLocation = Original(d + 1)
      BY <1>2, <1>3, <3>1 DEF SameSymbol, l
    <3>3. PICK n \in Relations(p) : n <= d /\ i = SymbolOf(t, n)
      BY <3>2 DEF SymbolsOK
    <3>4. Original(n) = Original(d + 1)
      BY <3>2, <3>3 DEF SymbolsOK
    <3>5. n = d + 1
      BY <3>4, OriginalsDiffer
    <3>6. QED
      BY <3>3, <3>5
  <2>3. M \in SUBSET Nat
    <3>1. new \in Nat
      BY <1>2 DEF new
    <3>2. QED
      BY <2>2, <3>1
  <2> HIDE DEF M
  <2>4. First(M) = new
    <3>1. \A i \in M : new <= i
      BY <2>1, <2>2, <2>3
    <3>2. QED
      BY <2>1, <2>3, <3>1, FirstIs
  <2>5. QED
    BY <2>4 DEF FindSymbolIndex, M
<1>6. /\ DOMAIN u = DOMAIN EmptyTable
      /\ u.symbols = [defined.symbols EXCEPT ![new] = moved]
      /\ u.byLocation = InsertMulti(InsertMulti(t.byLocation, l, new), Copy(k), new)
  BY <1>2, <1>5 DEF AddPermanentLocation, EmptyTable, u, moved
<1>7. /\ DOMAIN moved = DOMAIN NewSymbol("", "", "") /\ moved.type = "relation"
      /\ moved.sourceLocation = Original(d + 1)
      /\ moved.parentQueryLocation = UnknownLocation /\ moved.parentQueryIndex = -1
  BY <1>3 DEF moved, l
<1>8. /\ IsSequence(u.symbols)
      /\ DOMAIN u.symbols = DOMAIN t.symbols \union {new}
      /\ \A i \in DOMAIN t.symbols : u.symbols[i] = t.symbols[i]
      /\ u.symbols[new] = moved
  BY <1>2, <1>6, SequenceExcept
<1>9. \A n : Original(n) # Copy(k)
  BY OriginalsDiffer
<1>10. \A n : n # d + 1 =>
         ValuesAt(u.byLocation, Original(n)) = ValuesAt(t.byLocation, Original(n))
  <2>1. \A n : n # d + 1 => Original(n) # l
    BY OriginalsDiffer DEF l
  <2>2. QED
    BY <1>6, <1>9, <2>1, InsertMultiElsewhere
<1>11. ~(d + 1 <= d) /\ \A n \in Relations(p) : n <= d + 1 <=> n <= d \/ n = d + 1
  BY RootsShape DEF Relations
<1>12. ValuesAt(u.byLocation, Original(d + 1)) = <<new>>
  <2>1. ValuesAt(t.byLocation, l) = << >>
    BY <1>11 DEF SymbolsOK, l
  <2>2. ValuesAt(InsertMulti(t.byLocation, l, new), l) = <<new>>
    <3>1. Append(<< >>, new) = <<new>>
      OBVIOUS
    <3>2. ValuesAt(InsertMulti(t.byLocation, l, new), l) = Append(ValuesAt(t.byLocation, l), new)
      BY DEF InsertMulti, Put, ValuesAt
    <3>3. QED
      BY <2>1, <3>1, <3>2
  <2>3. QED
    BY <1>6, <1>9, <2>2, InsertMultiElsewhere DEF l
<1>13. SymbolOf(u, d + 1) = new
  <2>1. LookupSymbolByLocationAndType(u, Original(d + 1), u.symbols[new].type) = new
    BY <1>12, NamedAloneThere
  <2>2. QED
    BY <1>7, <1>8, <2>1 DEF SymbolOf
<1>14. ASSUME NEW n \in Relations(p), n <= d
       PROVE  SymbolOf(u, n) = SymbolOf(t, n)
  <2>1. /\ SymbolOf(t, n) \in DOMAIN t.symbols
        /\ t.symbols[SymbolOf(t, n)].type = "relation"
        /\ ValuesAt(t.byLocation, Original(n)) = <<SymbolOf(t, n)>>
    BY <1>14 DEF SymbolsOK
  <2>2. /\ u.symbols[SymbolOf(t, n)].type = "relation"
        /\ ValuesAt(u.byLocation, Original(n)) = <<SymbolOf(t, n)>>
    BY <1>8, <1>10, <1>11, <1>14, <2>1
  <2>3. QED
    BY <2>2, SymbolsStay
<1>15. \A n \in Relations(p) : n <= d => SymbolOf(t, n) \in DOMAIN t.symbols
  BY DEF SymbolsOK
<1>16. ASSUME NEW n \in Relations(p)
       PROVE  IF n <= d + 1
              THEN /\ SymbolOf(u, n) \in DOMAIN u.symbols
                   /\ ValuesAt(u.byLocation, Original(n)) = <<SymbolOf(u, n)>>
                   /\ u.symbols[SymbolOf(u, n)].type = "relation"
                   /\ u.symbols[SymbolOf(u, n)].sourceLocation = Original(n)
              ELSE ValuesAt(u.byLocation, Original(n)) = << >>
  <2>1. CASE n = d + 1
    BY <1>7, <1>8, <1>11, <1>12, <1>13, <2>1
  <2>2. CASE n # d + 1
    BY <1>8, <1>10, <1>11, <1>14, <1>15, <2>2 DEF SymbolsOK
  <2>3. QED
    BY <2>1, <2>2
<1>17. ASSUME NEW i \in DOMAIN u.symbols, u.symbols[i].type = "relation"
       PROVE  \E n \in Relations(p) : n <= d + 1 /\ i = SymbolOf(u, n)
  <2>1. CASE i = new
    BY <1>11, <1>13, <2>1
  <2>2. CASE i # new
    <3>1. i \in DOMAIN t.symbols /\ t.symbols[i].type = "relation"
      BY <1>8, <1>17, <2>2
    <3>2. PICK n \in Relations(p) : n <= d /\ i = SymbolOf(t, n)
      BY <3>1 DEF SymbolsOK
    <3>3. QED
      BY <1>11, <1>14, <3>2
  <2>3. QED
    BY <2>1, <2>2
<1>18. \A i \in DOMAIN u.symbols : DOMAIN u.symbols[i] = DOMAIN NewSymbol("", "", "")
  BY <1>7, <1>8 DEF SymbolsOK
<1>19. SymbolsOK(p, u, d + 1)
  BY <1>6, <1>8, <1>16, <1>17, <1>18 DEF SymbolsOK
<1>20. IndexesOK(p, u, d + 1)
  <2>1. d + 1 \in Nat /\ d <= d + 1 /\ d + 1 <= d + 1
    OBVIOUS
  <2>2. ASSUME NEW e \in SubqueriesOf(p), e <= d + 1
        PROVE  e <= d
    <3>1. e \in Nat /\ e # d + 1
      BY SubqueryInput, KindsDiffer DEF SubqueriesOf, Relations
    <3>2. QED
      BY <2>2, <3>1
  <2>3. QED
    BY <1>2, <1>7, <1>8, <1>14, <2>1, <2>2, IndexesStay
<1>21. QED
  BY <1>4, <1>8, <1>19, <1>20 DEF u, defined, new, l

\* The numbers taken under a relation are those of the subqueries in it that
\* have been left, and the next is one more than the greatest.
LEMMA NumbersTaken ==
  ASSUME NEW p, IsPlan(p), NEW t, NEW d \in Nat, SymbolsOK(p, t, d), IndexesOK(p, t, d),
         NEW e \in SubqueriesOf(p), e = d + 1, NEW n \in Relations(p), n = Around(p, e),
         UnknownLocation # Original(n)
  PROVE  LET s == Below(p, t, e)
             moved == [t.symbols EXCEPT ![s].parentQueryLocation = Original(n)]
             next == HighestIndex(TakenIndexes(moved, Original(n))) + 1
         IN /\ next \in 0..d
            /\ \A f \in SubqueriesOf(p) : f <= d /\ Around(p, f) = n
                 => IndexOf(p, t, f) < next
            /\ \A k \in 0..(next - 1) : \E f \in SubqueriesOf(p) :
                 f <= d /\ Around(p, f) = n /\ IndexOf(p, t, f) = k
<1> DEFINE s == Below(p, t, e)
           l == Original(n)
           moved == [t.symbols EXCEPT ![s].parentQueryLocation = l]
           T == TakenIndexes(moved, l)
           h == HighestIndex(T)
<1>1. s \in DOMAIN t.symbols /\ \A f \in SubqueriesOf(p) : f <= d => s # Below(p, t, f)
  <2>1. e <= d + 1 /\ \A f \in SubqueriesOf(p) : f <= d => f <= d + 1 /\ f # e
    BY SubqueryInput
  <2>2. QED
    BY <2>1, BelowFound
<1>2. t.symbols[s].parentQueryIndex = -1
  BY <1>1 DEF IndexesOK
<1>3. /\ DOMAIN moved = DOMAIN t.symbols
      /\ \A i \in DOMAIN t.symbols :
           /\ moved[i].parentQueryIndex = t.symbols[i].parentQueryIndex
           /\ i # s => moved[i].parentQueryLocation = t.symbols[i].parentQueryLocation
  <2>1. DOMAIN t.symbols[s] = DOMAIN NewSymbol("", "", "")
    BY <1>1 DEF SymbolsOK
  <2>2. "parentQueryIndex" \in DOMAIN t.symbols[s]
    BY <2>1 DEF NewSymbol
  <2>3. QED
    BY <1>1, <2>2
<1>4. T = {moved[i].parentQueryIndex :
             i \in {j \in DOMAIN moved : moved[j].parentQueryLocation = l}}
  BY DEF TakenIndexes
<1> HIDE DEF s, moved, T, h
<1>5. ASSUME NEW k \in T
      PROVE  \/ k = -1
             \/ \E f \in SubqueriesOf(p) : f <= d /\ Around(p, f) = n /\ IndexOf(p, t, f) = k
  <2>1. PICK i \in DOMAIN moved : moved[i].parentQueryLocation = l
                                    /\ k = moved[i].parentQueryIndex
    BY <1>4
  <2>2. CASE i = s
    BY <1>1, <1>2, <1>3, <2>1, <2>2
  <2>3. CASE i # s
    <3>1. t.symbols[i].parentQueryLocation = l /\ k = t.symbols[i].parentQueryIndex
          /\ i \in DOMAIN t.symbols
      BY <1>3, <2>1, <2>3
    <3>2. PICK f \in SubqueriesOf(p) : f <= d /\ i = Below(p, t, f)
      BY <3>1 DEF IndexesOK
    <3>3. Original(Around(p, f)) = Original(n)
      BY <3>1, <3>2 DEF IndexesOK
    <3>4. Around(p, f) = n /\ IndexOf(p, t, f) = k
      BY <3>1, <3>2, <3>3, OriginalsDiffer DEF IndexOf
    <3>5. QED
      BY <3>2, <3>4
  <2>4. QED
    BY <2>2, <2>3
<1>6. ASSUME NEW f \in SubqueriesOf(p), f <= d, Around(p, f) = n
      PROVE  IndexOf(p, t, f) \in T
  <2>1. t.symbols[Below(p, t, f)].parentQueryLocation = l
    BY <1>6 DEF IndexesOK
  <2>2. Below(p, t, f) \in DOMAIN t.symbols /\ Below(p, t, f) # s
    <3>1. f <= d + 1
      BY <1>6, SubqueryInput
    <3>2. QED
      BY <1>1, <1>6, <3>1, BelowFound
  <2>3. QED
    BY <1>3, <1>4, <2>1, <2>2 DEF IndexOf
<1>7. ASSUME NEW f \in SubqueriesOf(p), f <= d
      PROVE  IndexOf(p, t, f) \in 0..(d - 1)
  <2>1. IndexOf(p, t, f) \in 0..(f - 1) /\ f \in Nat
    BY <1>7, SubqueryInput DEF IndexesOK
  <2> HIDE DEF IndexOf
  <2>2. QED
    BY <1>7, <2>1
<1>8. T \in SUBSET (-1 .. d)
  <2>1. \A k \in T : k = -1 \/ k \in 0..(d - 1)
    BY <1>5, <1>7
  <2>2. QED
    BY <2>1
<1>9. h \in T \union {-1} /\ \A k \in T : k <= h
  BY <1>8, HighestIsGreatest DEF h
<1>10. h = -1 \/ \E f \in SubqueriesOf(p) : f <= d /\ Around(p, f) = n /\ IndexOf(p, t, f) = h
  BY <1>5, <1>9
<1>11. h = -1 \/ h \in 0..(d - 1)
  BY <1>7, <1>10
<1>12. h + 1 \in 0..d
  BY <1>11
<1>13. ASSUME NEW f \in SubqueriesOf(p), f <= d, Around(p, f) = n
       PROVE  IndexOf(p, t, f) < h + 1
  <2>1. IndexOf(p, t, f) <= h /\ IndexOf(p, t, f) \in 0..(d - 1)
    BY <1>6, <1>7, <1>9, <1>13
  <2>2. QED
    BY <1>11, <2>1
<1>14. ASSUME NEW k \in 0..((h + 1) - 1)
       PROVE  \E f \in SubqueriesOf(p) : f <= d /\ Around(p, f) = n /\ IndexOf(p, t, f) = k
  <2>1. h # -1 /\ (k = h \/ k \in 0..(h - 1))
    BY <1>11
  <2>2. PICK f \in SubqueriesOf(p) : f <= d /\ Around(p, f) = n /\ IndexOf(p, t, f) = h
    BY <1>10, <2>1
  <2>3. \A j \in 0..(h - 1) : \E g \in SubqueriesOf(p) :
          g <= d /\ Around(p, g) = n /\ IndexOf(p, t, g) = j
    BY <2>2 DEF IndexesOK
  <2>4. QED
    BY <2>1, <2>2, <2>3
<1>15. QED
  BY <1>12, <1>13, <1>14 DEF h, T, moved, s

LEMMA SubqueryNumbered ==
  ASSUME NEW p, IsPlan(p), NEW t, NEW d \in Nat, SymbolsOK(p, t, d), IndexesOK(p, t, d),
         NEW e \in SubqueriesOf(p), e = d + 1, NEW n \in Relations(p), n = Around(p, e),
         UnknownLocation # Original(n)
  PROVE  LET u == SetParentQueryLocation(t, t.symbols[Below(p, t, e)], Original(n))
         IN /\ SymbolsOK(p, u, e) /\ IndexesOK(p, u, e)
            /\ DOMAIN u.symbols = DOMAIN t.symbols
<1> DEFINE s == Below(p, t, e)
           l == Original(n)
           moved == [t.symbols EXCEPT ![s].parentQueryLocation = l]
           next == HighestIndex(TakenIndexes(moved, l)) + 1
           new == [[t.symbols[s] EXCEPT !.parentQueryLocation = l]
                     EXCEPT !.parentQueryIndex = next]
           u == SetParentQueryLocation(t, t.symbols[s], l)
<1>1. /\ next \in 0..d
      /\ \A f \in SubqueriesOf(p) : f <= d /\ Around(p, f) = n => IndexOf(p, t, f) < next
      /\ \A k \in 0..(next - 1) : \E f \in SubqueriesOf(p) :
           f <= d /\ Around(p, f) = n /\ IndexOf(p, t, f) = k
  BY NumbersTaken
<1>2. /\ \A f \in SubqueriesOf(p) : f \in Nat /\ (f <= e <=> f <= d \/ f = e)
      /\ \A f \in SubqueriesOf(p) : f <= d => f <= d + 1 /\ f # e /\ ~(e < f)
      /\ \A f \in SubqueriesOf(p) : f < e => f <= d
      /\ e <= d + 1
  <2>1. \A f \in SubqueriesOf(p) : f \in Nat
    BY SubqueryInput
  <2>2. QED
    BY <2>1
<1>3. /\ s \in DOMAIN t.symbols /\ FindSymbolIndex(t, t.symbols[s]) = s
      /\ \A f \in SubqueriesOf(p) : f <= d => s # Below(p, t, f)
                                                /\ Below(p, t, f) \in DOMAIN t.symbols
  BY <1>2, BelowFound
<1>4. /\ DOMAIN u = DOMAIN EmptyTable
      /\ u.symbols = [moved EXCEPT ![s].parentQueryIndex = next]
      /\ u.byLocation = t.byLocation
  <2>1. DOMAIN t = DOMAIN EmptyTable
    BY DEF SymbolsOK
  <2>2. QED
    BY <1>3, <2>1 DEF SetParentQueryLocation, EmptyTable
<1> HIDE DEF next
<1>5. u.symbols = [t.symbols EXCEPT ![s] = new]
  BY <1>3, <1>4
<1>6. DOMAIN t.symbols[s] = {"name", "alias", "sourceLocation", "permanentLocation",
                             "parentQueryLocation", "parentQueryIndex", "type"}
  <2>1. DOMAIN t.symbols[s] = DOMAIN NewSymbol("", "", "")
    BY <1>3 DEF SymbolsOK
  <2>2. QED
    BY <2>1 DEF NewSymbol
<1>7. /\ DOMAIN new = DOMAIN t.symbols[s]
      /\ new.type = t.symbols[s].type /\ new.sourceLocation = t.symbols[s].sourceLocation
      /\ new.parentQueryLocation = l /\ new.parentQueryIndex = next
  BY <1>6
<1> HIDE DEF new, u, moved, s
<1>8. /\ IsSequence(u.symbols) /\ DOMAIN u.symbols = DOMAIN t.symbols
      /\ \A i \in DOMAIN t.symbols : u.symbols[i] = IF i = s THEN new ELSE t.symbols[i]
  <2>1. IsSequence(t.symbols)
    BY DEF SymbolsOK
  <2>2. QED
    BY <1>3, <1>5, <2>1, SequenceExcept
<1>9. \A i \in DOMAIN t.symbols :
        /\ DOMAIN u.symbols[i] = DOMAIN t.symbols[i]
        /\ u.symbols[i].type = t.symbols[i].type
        /\ u.symbols[i].sourceLocation = t.symbols[i].sourceLocation
  BY <1>7, <1>8
<1>10. \A m \in Relations(p) : m <= e <=> m <= d
  <2>1. \A m \in Relations(p) : m # e /\ m \in Nat
    BY KindsDiffer, RootsShape DEF Relations, SubqueriesOf
  <2>2. QED
    BY <2>1
<1>11. ASSUME NEW m \in Relations(p), m <= d
       PROVE  SymbolOf(u, m) = SymbolOf(t, m) /\ SymbolOf(t, m) \in DOMAIN t.symbols
  <2>1. /\ SymbolOf(t, m) \in DOMAIN t.symbols
        /\ t.symbols[SymbolOf(t, m)].type = "relation"
        /\ ValuesAt(t.byLocation, Original(m)) = <<SymbolOf(t, m)>>
    BY <1>11 DEF SymbolsOK
  <2>2. /\ u.symbols[SymbolOf(t, m)].type = "relation"
        /\ ValuesAt(u.byLocation, Original(m)) = <<SymbolOf(t, m)>>
    BY <1>4, <1>9, <2>1
  <2>3. QED
    BY <2>1, <2>2, SymbolsStay
<1>12. SymbolsOK(p, u, e)
  <2>1. ASSUME NEW m \in Relations(p)
        PROVE  IF m <= e
               THEN /\ SymbolOf(u, m) \in DOMAIN u.symbols
                    /\ ValuesAt(u.byLocation, Original(m)) = <<SymbolOf(u, m)>>
                    /\ u.symbols[SymbolOf(u, m)].type = "relation"
                    /\ u.symbols[SymbolOf(u, m)].sourceLocation = Original(m)
               ELSE ValuesAt(u.byLocation, Original(m)) = << >>
    <3>1. CASE m <= d
      <4>1. /\ SymbolOf(t, m) \in DOMAIN t.symbols
            /\ ValuesAt(t.byLocation, Original(m)) = <<SymbolOf(t, m)>>
            /\ t.symbols[SymbolOf(t, m)].type = "relation"
            /\ t.symbols[SymbolOf(t, m)].sourceLocation = Original(m)
        BY <3>1 DEF SymbolsOK
      <4>2. QED
        BY <1>4, <1>8, <1>9, <1>10, <1>11, <3>1, <4>1
    <3>2. CASE ~(m <= d)
      <4>1. ValuesAt(t.byLocation, Original(m)) = << >>
        BY <3>2 DEF SymbolsOK
      <4>2. QED
        BY <1>4, <1>10, <3>2, <4>1
    <3>3. QED
      BY <3>1, <3>2
  <2>2. ASSUME NEW i \in DOMAIN u.symbols, u.symbols[i].type = "relation"
        PROVE  \E m \in Relations(p) : m <= e /\ i = SymbolOf(u, m)
    <3>1. PICK m \in Relations(p) : m <= d /\ i = SymbolOf(t, m)
      BY <1>8, <1>9, <2>2 DEF SymbolsOK
    <3>2. QED
      BY <1>10, <1>11, <3>1
  <2>3. \A i \in DOMAIN u.symbols : DOMAIN u.symbols[i] = DOMAIN NewSymbol("", "", "")
    BY <1>8, <1>9 DEF SymbolsOK
  <2>4. QED
    BY <1>4, <1>8, <2>1, <2>2, <2>3 DEF SymbolsOK
<1>13. ASSUME NEW f \in SubqueriesOf(p), f <= e
       PROVE  Below(p, u, f) = Below(p, t, f)
  <2>1. p.node[f].inputs[1] \in Relations(p) /\ p.node[f].inputs[1] <= d
    BY <1>2, <1>13, BelowFound
  <2>2. QED
    BY <1>11, <2>1 DEF Below
<1>14. ASSUME NEW f \in SubqueriesOf(p), f <= d
       PROVE  /\ IndexOf(p, u, f) = IndexOf(p, t, f)
              /\ u.symbols[Below(p, u, f)] = t.symbols[Below(p, t, f)]
  <2>1. Below(p, u, f) = Below(p, t, f)
    BY <1>2, <1>13, <1>14
  <2>2. u.symbols[Below(p, t, f)] = t.symbols[Below(p, t, f)]
    BY <1>3, <1>8, <1>14
  <2>3. QED
    BY <2>1, <2>2 DEF IndexOf
<1>15. IndexOf(p, u, e) = next /\ u.symbols[Below(p, u, e)].parentQueryLocation = l
  <2>1. e <= e
    BY <1>2
  <2>2. Below(p, u, e) = s
    BY <1>13, <2>1 DEF s
  <2>3. QED
    BY <1>3, <1>7, <1>8, <2>2 DEF IndexOf
<1>16. ASSUME NEW f \in SubqueriesOf(p), f <= e
       PROVE  /\ u.symbols[Below(p, u, f)].parentQueryLocation = Original(Around(p, f))
              /\ IndexOf(p, u, f) \in 0..(f - 1)
              /\ \A g \in SubqueriesOf(p) : g < f /\ Around(p, g) = Around(p, f)
                   => IndexOf(p, u, g) < IndexOf(p, u, f)
              /\ \A k \in 0..(IndexOf(p, u, f) - 1) :
                   \E g \in SubqueriesOf(p) :
                     g <= e /\ Around(p, g) = Around(p, f) /\ IndexOf(p, u, g) = k
  <2>1. CASE f = e
    <3>1. 0..(f - 1) = 0..d
      BY <2>1
    <3>2. \A g \in SubqueriesOf(p) : g < f /\ Around(p, g) = Around(p, f)
            => IndexOf(p, u, g) < next
      BY <1>1, <1>2, <1>14, <2>1
    <3>3. ASSUME NEW k \in 0..(next - 1)
          PROVE  \E g \in SubqueriesOf(p) :
                   g <= e /\ Around(p, g) = Around(p, f) /\ IndexOf(p, u, g) = k
      <4>1. PICK g \in SubqueriesOf(p) :
              g <= d /\ Around(p, g) = n /\ IndexOf(p, t, g) = k
        BY <1>1
      <4>2. QED
        BY <1>2, <1>14, <2>1, <4>1
    <3>4. QED
      BY <1>1, <1>15, <2>1, <3>1, <3>2, <3>3
  <2>2. CASE f <= d
    <3>1. /\ t.symbols[Below(p, t, f)].parentQueryLocation = Original(Around(p, f))
          /\ IndexOf(p, t, f) \in 0..(f - 1)
          /\ \A g \in SubqueriesOf(p) : g < f /\ Around(p, g) = Around(p, f)
               => IndexOf(p, t, g) < IndexOf(p, t, f)
          /\ \A k \in 0..(IndexOf(p, t, f) - 1) :
               \E g \in SubqueriesOf(p) :
                 g <= d /\ Around(p, g) = Around(p, f) /\ IndexOf(p, t, g) = k
      BY <2>2 DEF IndexesOK
    <3>2. \A g \in SubqueriesOf(p) : g < f => g <= d
      <4>1. \A g \in SubqueriesOf(p) : g \in Nat
        BY <1>2
      <4>2. QED
        BY <2>2, <4>1
    <3>3. \A g \in SubqueriesOf(p) : g < f /\ Around(p, g) = Around(p, f)
            => IndexOf(p, u, g) < IndexOf(p, u, f)
      BY <1>14, <2>2, <3>1, <3>2
    <3>4. ASSUME NEW k \in 0..(IndexOf(p, u, f) - 1)
          PROVE  \E g \in SubqueriesOf(p) :
                   g <= e /\ Around(p, g) = Around(p, f) /\ IndexOf(p, u, g) = k
      <4>1. k \in 0..(IndexOf(p, t, f) - 1)
        BY <1>14, <2>2
      <4>2. PICK g \in SubqueriesOf(p) :
              g <= d /\ Around(p, g) = Around(p, f) /\ IndexOf(p, t, g) = k
        BY <3>1, <4>1
      <4>3. QED
        BY <1>2, <1>14, <4>2
    <3>5. QED
      BY <1>14, <2>2, <3>1, <3>3, <3>4
  <2>3. QED
    BY <1>2, <1>16, <2>1, <2>2
<1>17. ASSUME NEW i \in DOMAIN u.symbols
       PROVE  \/ /\ u.symbols[i].parentQueryLocation = UnknownLocation
                 /\ u.symbols[i].parentQueryIndex = -1
              \/ \E f \in SubqueriesOf(p) : f <= e /\ i = Below(p, u, f)
  <2>1. CASE i = s
    <3>1. e <= e
      BY <1>2
    <3>2. QED
      BY <1>13, <2>1, <3>1 DEF s
  <2>2. CASE i # s
    <3>1. u.symbols[i] = t.symbols[i] /\ i \in DOMAIN t.symbols
      BY <1>8, <2>2
    <3>2. CASE \E f \in SubqueriesOf(p) : f <= d /\ i = Below(p, t, f)
      BY <1>2, <1>13, <3>2
    <3>3. CASE t.symbols[i].parentQueryLocation = UnknownLocation
                 /\ t.symbols[i].parentQueryIndex = -1
      BY <3>1, <3>3
    <3>4. QED
      BY <3>1, <3>2, <3>3 DEF IndexesOK
  <2>3. QED
    BY <2>1, <2>2
<1>18. IndexesOK(p, u, e)
  BY <1>16, <1>17 DEF IndexesOK
<1>19. QED
  BY <1>8, <1>12, <1>18 DEF u, s

-----------------------------------------------------------------------------
(***************************************************************************)
(* The lists of the pipelines pass.                                        *)
(***************************************************************************)

LEMMA DataAppended ==
  ASSUME NEW t, NEW u, NEW links, DataOK(t, links), IsSequence(t.symbols),
         IsSequence(u.symbols),
         DOMAIN u.symbols = DOMAIN t.symbols \union {Len(t.symbols) + 1},
         NEW r, DOMAIN r = DOMAIN RelationData(0), r.subQueryPipelines = << >>
  PROVE  /\ DataOK(u, Append(links, r))
         /\ (\A s \in DOMAIN links : links[s].subQueryPipelines = << >>)
              => \A s \in DOMAIN Append(links, r) :
                   Append(links, r)[s].subQueryPipelines = << >>
<1> DEFINE new == Append(links, r)
<1>1. Len(links) = Len(t.symbols) /\ Len(links) \in Nat
  <2>1. /\ DOMAIN links = 1..Len(links) /\ DOMAIN t.symbols = 1..Len(t.symbols)
        /\ Len(links) \in Nat /\ Len(t.symbols) \in Nat /\ DOMAIN links = DOMAIN t.symbols
    BY SequenceHas DEF DataOK
  <2>2. QED
    BY <2>1
<1>2. /\ IsSequence(new) /\ DOMAIN new = DOMAIN links \union {Len(links) + 1}
      /\ \A i \in DOMAIN links : new[i] = links[i]
      /\ new[Len(links) + 1] = r
  BY SequenceAppend DEF DataOK
<1>3. IsSequence(<< >>)
  BY DEF IsSequence
<1> HIDE DEF new
<1>4. DataOK(u, new)
  BY <1>1, <1>2, <1>3 DEF DataOK
<1>5. (\A s \in DOMAIN links : links[s].subQueryPipelines = << >>)
        => \A s \in DOMAIN new : new[s].subQueryPipelines = << >>
  BY <1>2
<1>6. QED
  BY <1>4, <1>5 DEF new

\* Nothing is in a list when the pass begins.
LEMMA ListsBegin ==
  ASSUME NEW p, IsPlan(p), NEW t, SymbolsOK(p, t, LastVisited(p)), IndexesOK(p, t, LastVisited(p)),
         NEW links, DataOK(t, links),
         \A s \in DOMAIN links : links[s].subQueryPipelines = << >>
  PROVE  ListsOK(p, t, links, 0)
<1> SUFFICES ASSUME NEW n \in Relations(p)
             PROVE  LET list == links[SymbolOf(t, n)].subQueryPipelines
                    IN /\ \A k \in DOMAIN list :
                            \E e \in SubqueriesOf(p) : /\ Around(p, e) = n
                                                       /\ list[k] = Below(p, t, e)
                                                       /\ IndexOf(p, t, e) = k - 1
                       /\ \A e \in SubqueriesOf(p) :
                            Around(p, e) = n => (e <= 0 <=> IndexOf(p, t, e) < Len(list))
  BY DEF ListsOK
<1>1. n <= LastVisited(p)
  BY RootsShape DEF Relations
<1>2. links[SymbolOf(t, n)].subQueryPipelines = << >>
  BY <1>1 DEF SymbolsOK, DataOK
<1>3. DOMAIN << >> = {} /\ Len(<< >>) = 0
  OBVIOUS
<1>4. ASSUME NEW e \in SubqueriesOf(p)
      PROVE  ~(e <= 0) /\ ~(IndexOf(p, t, e) < 0)
  <2>1. e \in 1..LastVisited(p) /\ LastVisited(p) \in Nat
    BY SubqueryInput
  <2>2. IndexOf(p, t, e) \in 0..(e - 1)
    <3>1. e <= LastVisited(p)
      BY <2>1
    <3>2. QED
      BY <3>1 DEF IndexesOK
  <2> HIDE DEF IndexOf
  <2>3. QED
    BY <2>1, <2>2
<1>5. QED
  BY <1>2, <1>3, <1>4

LEMMA ListsStay ==
  ASSUME NEW p, NEW t, NEW links, NEW d, NEW g,
         ListsOK(p, t, links, d), SymbolsOK(p, t, LastVisited(p)), DataOK(t, links),
         \A n \in Relations(p) : n <= LastVisited(p),
         \A e \in SubqueriesOf(p) : e <= d <=> e <= g,
         NEW new,
         \A s \in DOMAIN links : new[s].subQueryPipelines = links[s].subQueryPipelines
  PROVE  ListsOK(p, t, new, g)
<1>1. ASSUME NEW n \in Relations(p)
      PROVE  new[SymbolOf(t, n)].subQueryPipelines = links[SymbolOf(t, n)].subQueryPipelines
  <2>1. SymbolOf(t, n) \in DOMAIN links
    BY DEF SymbolsOK, DataOK
  <2>2. QED
    BY <2>1
<1>2. QED
  BY <1>1 DEF ListsOK

\* The subquery that is appended has the next number.
LEMMA NumberFollows ==
  ASSUME NEW p, IsPlan(p), NEW t, IndexesOK(p, t, LastVisited(p)),
         NEW d \in Nat, NEW e \in SubqueriesOf(p), e = d + 1, NEW n, n = Around(p, e),
         NEW len \in Nat,
         \A f \in SubqueriesOf(p) :
           Around(p, f) = n => (f <= d <=> IndexOf(p, t, f) < len)
  PROVE  /\ IndexOf(p, t, e) = len
         /\ \A f \in SubqueriesOf(p) :
              Around(p, f) = n => (f <= e <=> IndexOf(p, t, f) < len + 1)
<1>1. \A f \in SubqueriesOf(p) : f \in Nat /\ f <= LastVisited(p)
  <2>1. \A f \in SubqueriesOf(p) : f \in 1..LastVisited(p) /\ LastVisited(p) \in Nat
    BY SubqueryInput
  <2>2. QED
    BY <2>1
<1>2. \A f \in SubqueriesOf(p) : IndexOf(p, t, f) \in Nat
  <2>1. \A f \in SubqueriesOf(p) : IndexOf(p, t, f) \in 0..(f - 1)
    BY <1>1 DEF IndexesOK
  <2> HIDE DEF IndexOf
  <2>2. QED
    BY <1>1, <2>1
<1>3. ASSUME NEW f \in SubqueriesOf(p), NEW g \in SubqueriesOf(p), f < g,
             Around(p, f) = Around(p, g)
      PROVE  IndexOf(p, t, f) < IndexOf(p, t, g)
  BY <1>1, <1>3 DEF IndexesOK
<1>4. ~(IndexOf(p, t, e) < len)
  BY <1>1
<1>5. ~(len < IndexOf(p, t, e))
  <2>1. SUFFICES ASSUME len < IndexOf(p, t, e)
                 PROVE  FALSE
    OBVIOUS
  <2>2. len \in 0..(IndexOf(p, t, e) - 1)
    BY <1>2, <2>1
  <2>3. PICK f \in SubqueriesOf(p) : Around(p, f) = n /\ IndexOf(p, t, f) = len
    BY <1>1, <2>2 DEF IndexesOK
  <2>4. ~(f <= d) /\ f # e
    BY <2>1, <2>3
  <2>5. e < f
    BY <1>1, <2>4
  <2>6. IndexOf(p, t, e) < IndexOf(p, t, f)
    BY <1>3, <2>3, <2>5
  <2>7. QED
    BY <1>2, <2>1, <2>3, <2>6
<1>6. IndexOf(p, t, e) = len
  <2> HIDE DEF IndexOf
  <2>1. IndexOf(p, t, e) \in Nat
    BY <1>2
  <2>2. QED
    BY <1>4, <1>5, <2>1
<1>7. ASSUME NEW f \in SubqueriesOf(p), Around(p, f) = n
      PROVE  f <= e <=> IndexOf(p, t, f) < len + 1
  <2>1. f <= d <=> IndexOf(p, t, f) < len
    BY <1>7
  <2>2. IndexOf(p, t, f) \in Nat /\ f \in Nat
    BY <1>1, <1>2
  <2>3. f = e => IndexOf(p, t, f) = len
    BY <1>6
  <2>4. e < f => len < IndexOf(p, t, f)
    BY <1>3, <1>6, <1>7
  <2> HIDE DEF IndexOf
  <2>5. QED
    BY <2>1, <2>2, <2>3, <2>4
<1>8. QED
  BY <1>6, <1>7

LEMMA ListLinked ==
  ASSUME NEW p, IsPlan(p), NEW t, SymbolsOK(p, t, LastVisited(p)), IndexesOK(p, t, LastVisited(p)),
         NEW links, DataOK(t, links), NEW d \in Nat, ListsOK(p, t, links, d),
         NEW e \in SubqueriesOf(p), e = d + 1, NEW n \in Relations(p), n = Around(p, e),
         NEW new,
         \A s \in DOMAIN links : new[s].subQueryPipelines =
            IF s = SymbolOf(t, n) THEN Append(links[s].subQueryPipelines, Below(p, t, e))
            ELSE links[s].subQueryPipelines
  PROVE  ListsOK(p, t, new, e)
<1>1. \A m \in Relations(p) :
        m <= LastVisited(p) /\ SymbolOf(t, m) \in DOMAIN links
          /\ (SymbolOf(t, m) = SymbolOf(t, n) => m = n)
  <2>1. \A m \in Relations(p) : m <= LastVisited(p)
    BY RootsShape DEF Relations
  <2>2. QED
    BY <2>1, SymbolFound DEF DataOK
<1>2. \A f \in SubqueriesOf(p) : f \in Nat
  BY SubqueryInput
<1>3. ASSUME NEW m \in Relations(p), m # n
      PROVE  LET list == new[SymbolOf(t, m)].subQueryPipelines
             IN /\ \A k \in DOMAIN list :
                     \E f \in SubqueriesOf(p) : /\ Around(p, f) = m
                                                /\ list[k] = Below(p, t, f)
                                                /\ IndexOf(p, t, f) = k - 1
                /\ \A f \in SubqueriesOf(p) :
                     Around(p, f) = m => (f <= e <=> IndexOf(p, t, f) < Len(list))
  <2>1. new[SymbolOf(t, m)].subQueryPipelines = links[SymbolOf(t, m)].subQueryPipelines
    BY <1>1, <1>3
  <2>2. \A f \in SubqueriesOf(p) : Around(p, f) = m => (f <= e <=> f <= d)
    BY <1>2, <1>3
  <2>3. QED
    BY <2>1, <2>2 DEF ListsOK
<1> DEFINE list == links[SymbolOf(t, n)].subQueryPipelines
           longer == new[SymbolOf(t, n)].subQueryPipelines
<1>4. /\ IsSequence(list) /\ longer = Append(list, Below(p, t, e))
  BY <1>1 DEF DataOK
<1>5. /\ \A k \in DOMAIN list :
           \E f \in SubqueriesOf(p) : /\ Around(p, f) = n
                                      /\ list[k] = Below(p, t, f)
                                      /\ IndexOf(p, t, f) = k - 1
      /\ \A f \in SubqueriesOf(p) :
           Around(p, f) = n => (f <= d <=> IndexOf(p, t, f) < Len(list))
  BY DEF ListsOK
<1> HIDE DEF list, longer
<1>6. /\ Len(list) \in Nat /\ Len(longer) = Len(list) + 1
      /\ DOMAIN longer = DOMAIN list \union {Len(list) + 1}
      /\ \A i \in DOMAIN list : i # Len(list) + 1 /\ longer[i] = list[i]
      /\ longer[Len(list) + 1] = Below(p, t, e)
  BY <1>4, SequenceAppend
<1>7. /\ IndexOf(p, t, e) = Len(list)
      /\ \A f \in SubqueriesOf(p) :
           Around(p, f) = n => (f <= e <=> IndexOf(p, t, f) < Len(list) + 1)
  BY <1>5, <1>6, NumberFollows
<1>8. ASSUME NEW k \in DOMAIN longer
      PROVE  \E f \in SubqueriesOf(p) : /\ Around(p, f) = n
                                        /\ longer[k] = Below(p, t, f)
                                        /\ IndexOf(p, t, f) = k - 1
  <2>1. CASE k = Len(list) + 1
    <3>1. k - 1 = Len(list)
      BY <1>6, <2>1
    <3>2. QED
      BY <1>6, <1>7, <2>1, <3>1
  <2>2. CASE k \in DOMAIN list
    BY <1>5, <1>6, <2>2
  <2>3. QED
    BY <1>6, <2>1, <2>2
<1>9. \A f \in SubqueriesOf(p) :
        Around(p, f) = n => (f <= e <=> IndexOf(p, t, f) < Len(longer))
  BY <1>6, <1>7
<1>10. \A m \in Relations(p) :
         LET l == new[SymbolOf(t, m)].subQueryPipelines
         IN /\ \A k \in DOMAIN l :
                 \E f \in SubqueriesOf(p) : /\ Around(p, f) = m
                                            /\ l[k] = Below(p, t, f)
                                            /\ IndexOf(p, t, f) = k - 1
            /\ \A f \in SubqueriesOf(p) :
                 Around(p, f) = m => (f <= e <=> IndexOf(p, t, f) < Len(l))
  BY <1>3, <1>8, <1>9 DEF longer
<1>11. QED
  BY <1>10 DEF ListsOK

\* The lists and the numbers say the same.
LEMMA ListsAgree ==
  ASSUME NEW p, IsPlan(p), NEW t, SymbolsOK(p, t, LastVisited(p)), IndexesOK(p, t, LastVisited(p)),
         NEW links, DataOK(t, links), ListsOK(p, t, links, LastVisited(p)),
         \A n \in Relations(p) : UnknownLocation # Original(n),
         NEW s \in DOMAIN t.symbols, t.symbols[s].type = "relation"
  PROVE  LET list == links[s].subQueryPipelines
             AtIndex(i) == LookupSymbolByParentQueryAndType(
                             t, t.symbols[s].sourceLocation, i, "relation")
         IN /\ \A k \in DOMAIN list : AtIndex(k - 1) = list[k]
            /\ AtIndex(Len(list)) = NoSymbol
<1> DEFINE list == links[s].subQueryPipelines
           At(i) == {j \in DOMAIN t.symbols :
                       /\ t.symbols[j].parentQueryLocation = t.symbols[s].sourceLocation
                       /\ t.symbols[j].parentQueryIndex = i
                       /\ t.symbols[j].type = "relation"}
<1>1. PICK n \in Relations(p) : s = SymbolOf(t, n)
  BY DEF SymbolsOK
<1>2. n <= LastVisited(p) /\ LastVisited(p) \in Nat
  BY RootsShape DEF Relations
<1>3. t.symbols[s].sourceLocation = Original(n)
  BY <1>1, <1>2 DEF SymbolsOK
<1>4. \A f \in SubqueriesOf(p) : f \in Nat /\ f <= LastVisited(p) /\ f <= LastVisited(p) + 1
  <2>1. \A f \in SubqueriesOf(p) : f \in 1..LastVisited(p)
    BY SubqueryInput
  <2>2. QED
    BY <1>2, <2>1
<1>5. ASSUME NEW i, NEW j \in At(i)
      PROVE  \E f \in SubqueriesOf(p) :
               j = Below(p, t, f) /\ Around(p, f) = n /\ IndexOf(p, t, f) = i
  <2>1. t.symbols[j].parentQueryLocation = Original(n) /\ t.symbols[j].parentQueryIndex = i
        /\ j \in DOMAIN t.symbols
    BY <1>3
  <2>2. PICK f \in SubqueriesOf(p) : f <= LastVisited(p) /\ j = Below(p, t, f)
    BY <2>1 DEF IndexesOK
  <2>3. Original(Around(p, f)) = Original(n)
    BY <2>1, <2>2 DEF IndexesOK
  <2>4. Around(p, f) = n
    BY <2>3, OriginalsDiffer
  <2>5. QED
    BY <2>1, <2>2, <2>4 DEF IndexOf
<1>6. At(Len(list)) = {}
  <2>1. SUFFICES ASSUME NEW j \in At(Len(list))
                 PROVE  FALSE
    OBVIOUS
  <2>2. PICK f \in SubqueriesOf(p) : Around(p, f) = n /\ IndexOf(p, t, f) = Len(list)
    BY <1>5
  <2>3. IndexOf(p, t, f) < Len(list)
    BY <1>1, <1>4, <2>2 DEF ListsOK
  <2>4. Len(list) \in Nat
    BY SequenceHas DEF DataOK
  <2>5. QED
    BY <2>2, <2>3, <2>4
<1>7. ASSUME NEW k \in DOMAIN list
      PROVE  First(At(k - 1)) = list[k]
  <2>1. PICK e \in SubqueriesOf(p) : /\ Around(p, e) = n
                                     /\ list[k] = Below(p, t, e)
                                     /\ IndexOf(p, t, e) = k - 1
    BY <1>1 DEF ListsOK
  <2>2. Below(p, t, e) \in DOMAIN t.symbols /\ t.symbols[Below(p, t, e)].type = "relation"
    BY <1>2, <1>4, BelowFound
  <2>3. t.symbols[Below(p, t, e)].parentQueryLocation = Original(n)
    BY <1>4, <2>1 DEF IndexesOK
  <2>4. list[k] \in At(k - 1)
    BY <1>3, <2>1, <2>2, <2>3 DEF IndexOf
  <2>5. ASSUME NEW j \in At(k - 1)
        PROVE  j = list[k]
    <3>1. PICK f \in SubqueriesOf(p) :
            j = Below(p, t, f) /\ Around(p, f) = n /\ IndexOf(p, t, f) = k - 1
      BY <1>5
    <3>2. ~(f < e) /\ ~(e < f)
      <4>1. IndexOf(p, t, e) \in Int
        <5>1. IndexOf(p, t, e) \in 0..(e - 1)
          BY <1>4 DEF IndexesOK
        <5>2. QED
          BY <5>1
      <4>2. ~(IndexOf(p, t, e) < IndexOf(p, t, f)) /\ ~(IndexOf(p, t, f) < IndexOf(p, t, e))
        BY <2>1, <3>1, <4>1
      <4>3. QED
        BY <1>4, <2>1, <3>1, <4>2 DEF IndexesOK
    <3>3. f = e
      BY <1>4, <3>2
    <3>4. QED
      BY <2>1, <3>1, <3>3
  <2>6. At(k - 1) \in SUBSET Nat
    BY SymbolFound
  <2> HIDE DEF At
  <2>7. \A j \in At(k - 1) : list[k] <= j
    BY <2>4, <2>5, <2>6
  <2>8. QED
    BY <2>4, <2>6, <2>7, FirstIs
<1>8. First({}) = NoSymbol
  BY DEF First
<1>9. QED
  BY <1>6, <1>7, <1>8 DEF LookupSymbolByParentQueryAndType

-----------------------------------------------------------------------------
(***************************************************************************)
(* The steps.                                                              *)
(***************************************************************************)

LEMMA ThePlan ==
  ASSUME NumberingInv
  PROVE  /\ IsPlan(plan)
         /\ LastVisited(plan) \in Nat
         /\ \A n \in Relations(plan) : UnknownLocation # Original(n) /\ n <= LastVisited(plan)
<1>1. IsPlan(plan) /\ \A n \in DOMAIN plan.node : UnknownLocation # Original(n)
  BY PlansAssumption, LocationsAssumption DEF NumberingInv
<1>2. QED
  BY <1>1, RootsShape DEF Relations

\* The state of a pass while its visit methods run.
LEMMA InitialState ==
  ASSUME NumberingInv, pass = "initial"
  PROVE  \E d \in Nat : d <= LastVisited(plan) /\ InitialInv(d)
<1>1. LastVisited(plan) \in Nat
  BY ThePlan
<1>2. PICK d \in 0..LastVisited(plan) : InitialInv(d)
  BY DEF NumberingInv, PassInv
<1>3. QED
  BY <1>1, <1>2

LEMMA PipelinesState ==
  ASSUME NumberingInv, pass = "pipelines"
  PROVE  AllSymbols /\ \E d \in Nat : d <= LastVisited(plan) /\ PipelinesInv(d)
<1>1. LastVisited(plan) \in Nat
  BY ThePlan
<1>2. AllSymbols /\ \E d \in 0..LastVisited(plan) : PipelinesInv(d)
  BY DEF NumberingInv, PassInv
<1>3. QED
  BY <1>1, <1>2

LEMMA Entered ==
  ASSUME NEW q, NEW what, Enter(q, what), IsPlan(plan),
         NEW d \in Nat, CallsOK(plan, visits, scope, d),
         scope' = IF what = "relation" THEN NextNode ELSE scope
  PROVE  /\ CallsOK(plan, visits', scope', d)
         /\ what = "relation" => NextNode \in Relations(plan)
<1>1. /\ HasMore /\ NextWhat = what
      /\ visits' = Append(Counted(visits), Call(what, NextNode, scope))
  BY DEF Enter, Counted
<1>2. /\ Caller.visited < Len(VisitedBy(plan, Caller))
      /\ NextNode = VisitedBy(plan, Caller)[Caller.visited + 1]
      /\ what = WhatBelow(plan, Caller, NextNode)
  BY <1>1 DEF HasMore, NextNode, NextWhat
<1>3. Caller = Last(visits)
  BY DEF Caller
<1> HIDE DEF Caller, NextNode
<1>4. CallsOK(plan, visits', scope', d)
  BY <1>1, <1>2, <1>3, CallsEntered
<1>5. CallOK(plan, Caller)
  <2>1. Len(visits) \in DOMAIN visits
    BY SequenceHas, EmptySeq DEF IsSequence, CallsOK
  <2>2. QED
    BY <1>3, <2>1 DEF CallsOK, Last
<1>6. Caller.visited + 1 \in 1..Len(VisitedBy(plan, Caller))
  BY <1>2, <1>5, CallVisits
<1>7. what = "relation" => NextNode \in Relations(plan)
  BY <1>2, <1>5, <1>6, CallEntered
<1>8. QED
  BY <1>4, <1>7

LEMMA Left ==
  ASSUME NEW q, NEW what, Leave(q, what), what # "plan", IsPlan(plan),
         NEW d \in Nat, CallsOK(plan, visits, scope, d),
         scope' = IF what = "relation" THEN Caller.outer ELSE scope
  PROVE  /\ CallsOK(plan, visits', scope', IF what = "planRelation" THEN d ELSE d + 1)
         /\ what = "relation" => This = d + 1 /\ This \in Relations(plan)
         /\ what = "subquery" => /\ This = d + 1 /\ This \in SubqueriesOf(plan)
                                 /\ scope \in Relations(plan) /\ scope = Around(plan, This)
<1>1. /\ ~(Caller.visited < Len(VisitedBy(plan, Caller))) /\ Caller.what = what
      /\ visits' = Front(visits)
  BY DEF Leave, HasMore
<1>2. Caller = Last(visits) /\ This = Caller.node
  BY DEF Caller, This
<1> HIDE DEF Caller, This
<1>3. /\ CallsOK(plan, Front(visits), Caller.outer, IF what = "planRelation" THEN d ELSE d + 1)
      /\ what = "relation" => This = d + 1 /\ This \in Relations(plan)
      /\ what = "subquery" => /\ This = d + 1 /\ This \in SubqueriesOf(plan)
                              /\ scope \in Relations(plan) /\ scope = Around(plan, This)
                              /\ Caller.outer = scope
      /\ what = "planRelation" => Caller.outer = scope
  BY <1>1, <1>2, CallsLeft
<1>4. Caller.what \in {"plan", "planRelation", "relation", "subquery"}
  <2>1. CallOK(plan, Caller)
    <3>1. Len(visits) \in DOMAIN visits
      BY SequenceHas, EmptySeq DEF IsSequence, CallsOK
    <3>2. QED
      BY <1>2, <3>1 DEF CallsOK, Last
  <2>2. QED
    BY <2>1 DEF CallOK
<1>5. scope' = Caller.outer
  BY <1>1, <1>3, <1>4
<1>6. QED
  BY <1>1, <1>3, <1>5

\* What the first pass has to keep.
LEMMA InitialKept ==
  ASSUME NumberingInv, plan' = plan, pass' = "initial",
         NEW d \in Nat, d <= LastVisited(plan), InitialInv(d)', DataOK(table', data')
  PROVE  NumberingInv'
<1>1. d \in 0..LastVisited(plan)
  BY ThePlan
<1>2. PassInv'
  BY <1>1 DEF PassInv
<1>3. QED
  BY <1>2 DEF NumberingInv

\* What the second pass has to keep.
LEMMA PipelinesKept ==
  ASSUME NumberingInv, plan' = plan, pass' = "pipelines", table' = table, AllSymbols,
         NEW d \in Nat, d <= LastVisited(plan), PipelinesInv(d)', DataOK(table', data')
  PROVE  NumberingInv'
<1>1. d \in 0..LastVisited(plan)
  BY ThePlan
<1>2. AllSymbols'
  BY DEF AllSymbols
<1>3. PassInv'
  BY <1>1, <1>2 DEF PassInv
<1>4. QED
  BY <1>3 DEF NumberingInv

LEMMA RootsDescribed ==
  /\ \A names : /\ DOMAIN NamesData(names) = DOMAIN RelationData(0)
                /\ NamesData(names).subQueryPipelines = << >>
  /\ \A n : /\ DOMAIN RelationData(n) = DOMAIN RelationData(0)
            /\ RelationData(n).subQueryPipelines = << >>
BY DEF NamesData, RelationData

LEMMA LinksChanged ==
  ASSUME NEW t, NEW links, DataOK(t, links), NEW new, new = [s \in DOMAIN links |-> new[s]],
         \A s \in DOMAIN links : /\ DOMAIN new[s] = DOMAIN links[s]
                                 /\ IsSequence(new[s].subQueryPipelines)
  PROVE  DataOK(t, new)
<1>1. IsSequence(links) /\ DOMAIN links = 1..Len(links) /\ Len(links) \in Nat
  BY SequenceHas DEF DataOK
<1>2. IsSequence(new)
  <2>1. new = [s \in 1..Len(links) |-> new[s]]
    BY <1>1
  <2>2. QED
    BY <1>1, <2>1, ListIsSequence
<1>3. QED
  BY <1>2 DEF DataOK

\* A step of the second pass after which the lists are the same.
LEMMA LinksKept ==
  ASSUME NumberingInv, plan' = plan, pass = "pipelines", pass' = "pipelines", table' = table,
         NEW d \in Nat, d <= LastVisited(plan), PipelinesInv(d),
         NEW g \in Nat, g = d \/ (g = d + 1 /\ g \in Relations(plan)),
         CallsOK(plan, visits', scope', g),
         DataOK(table, data'),
         \A s \in DOMAIN data : data'[s].subQueryPipelines = data[s].subQueryPipelines
  PROVE  NumberingInv'
<1>1. IsPlan(plan) /\ LastVisited(plan) \in Nat /\ \A n \in Relations(plan) : n <= LastVisited(plan)
  BY ThePlan
<1>2. AllSymbols
  BY PipelinesState
<1>3. \A e \in SubqueriesOf(plan) : e <= d <=> e <= g
  <2>1. ASSUME NEW e \in SubqueriesOf(plan)
        PROVE  e <= d <=> e <= g
    <3>1. e \in Nat
      BY <1>1, SubqueryInput
    <3>2. g \in Relations(plan) => e # g
      BY KindsDiffer DEF Relations, SubqueriesOf
    <3>3. QED
      BY <3>1, <3>2
  <2>2. QED
    BY <2>1
<1>4. ListsOK(plan, table, data', g)
  <2>1. ListsOK(plan, table, data, d) /\ SymbolsOK(plan, table, LastVisited(plan))
        /\ DataOK(table, data)
    BY <1>2 DEF PipelinesInv, AllSymbols, NumberingInv
  <2>2. QED
    BY <1>1, <1>3, <2>1, ListsStay
<1>5. PipelinesInv(g)'
  BY <1>4 DEF PipelinesInv
<1>6. g <= LastVisited(plan)
  BY <1>1
<1>7. QED
  BY <1>2, <1>5, <1>6, PipelinesKept

LEMMA PrintKept ==
  ASSUME NumberingInv, plan' = plan, table' = table, data' = data,
         pass' \in {"print", "relations", "printed"},
         AllSymbols, ListsOK(plan, table, data, LastVisited(plan))
  PROVE  NumberingInv'
<1>1. AllSymbols'
  BY DEF AllSymbols
<1>2. PassInv'
  BY <1>1 DEF PassInv
<1>3. QED
  BY <1>2 DEF NumberingInv

LEMMA NumberingStep == NumberingInv /\ [ConverterNext]_converterVars => NumberingInv'
<1> SUFFICES ASSUME NumberingInv, [ConverterNext]_converterVars
             PROVE  NumberingInv'
  OBVIOUS
<1> USE DEF InitialInv
<1>1. IsPlan(plan) /\ LastVisited(plan) \in Nat
  BY ThePlan
<1>2. DataOK(table, data)
  BY DEF NumberingInv
<1>3. CASE EnterSubquery
  <2>1. PICK q \in {"initial", "pipelines"} : Enter(q, "subquery")
    BY <1>3 DEF EnterSubquery
  <2>2. /\ pass = q /\ pass' = pass /\ plan' = plan
        /\ scope' = scope /\ table' = table /\ data' = data
    BY <1>3, <2>1 DEF EnterSubquery, Enter
  <2>3. CASE q = "initial"
    <3>1. PICK d \in Nat : d <= LastVisited(plan) /\ InitialInv(d)
      BY <2>2, <2>3, InitialState
    <3>2. CallsOK(plan, visits', scope', d)
      BY <1>1, <2>1, <2>2, <3>1, Entered
    <3>3. InitialInv(d)'
      BY <2>2, <3>1, <3>2
    <3>4. QED
      BY <1>2, <2>2, <2>3, <3>1, <3>3, InitialKept
  <2>4. CASE q = "pipelines"
    <3>1. PICK d \in Nat : d <= LastVisited(plan) /\ PipelinesInv(d)
      BY <2>2, <2>4, PipelinesState
    <3>2. CallsOK(plan, visits', scope', d)
      BY <1>1, <2>1, <2>2, <3>1, Entered DEF PipelinesInv
    <3>3. PipelinesInv(d)'
      BY <2>2, <3>1, <3>2 DEF PipelinesInv
    <3>4. QED
      BY <1>2, <2>2, <2>4, <3>1, <3>3, PipelinesState, PipelinesKept
  <2>5. QED
    BY <2>3, <2>4
<1>4. CASE InitialVisitRelationRoot
  <2> DEFINE l == RelRootLocation(NextNode)
             r == NamesData(plan.roots[NextNode].names)
             type == "root"
  <2>1. /\ Enter("initial", "planRelation") /\ scope' = scope
        /\ table' = DefineUniqueSymbol(table, "root.names", l, type)
        /\ data' = Append(data, r)
    BY <1>4 DEF InitialVisitRelationRoot
  <2>2. pass = "initial" /\ pass' = "initial" /\ plan' = plan
    BY <2>1 DEF Enter
  <2>3. PICK d \in Nat : d <= LastVisited(plan) /\ InitialInv(d)
    BY <2>2, InitialState
  <2>4. CallsOK(plan, visits', scope', d)
    BY <1>1, <2>1, <2>3, Entered
  <2>5. ~IsOriginal(l) /\ type # "relation"
    BY OriginalsDiffer
  <2>6. DOMAIN r = DOMAIN RelationData(0) /\ r.subQueryPipelines = << >>
    BY RootsDescribed
  <2> HIDE DEF l, r, type
  <2>7. /\ SymbolsOK(plan, table', d) /\ IndexesOK(plan, table', d)
        /\ DOMAIN table'.symbols = DOMAIN table.symbols \union {Len(table.symbols) + 1}
        /\ IsSequence(table'.symbols)
    <3>1. IsPlan(plan) /\ SymbolsOK(plan, table, d) /\ IndexesOK(plan, table, d)
      BY <1>1, <2>3
    <3>2. PICK b, m, k : /\ table' = DefineUniqueSymbol(table, b, m, k)
                         /\ ~IsOriginal(m) /\ IsOther(k)
      BY <2>1, <2>5 DEF IsOther
    <3>3. d \in Nat
      BY <2>3
    <3>4. QED
      BY <3>1, <3>2, <3>3, RootDefined
  <2>8. IsSequence(table.symbols)
    BY <2>3 DEF SymbolsOK
  <2>9. /\ DataOK(table', data')
        /\ \A i \in DOMAIN data' : data'[i].subQueryPipelines = << >>
    BY <1>2, <2>1, <2>3, <2>6, <2>7, <2>8, DataAppended
  <2>10. InitialInv(d)'
    BY <2>2, <2>4, <2>7, <2>9
  <2>11. QED
    BY <2>2, <2>3, <2>9, <2>10, InitialKept
<1>5. CASE InitialEnterPlanRelation
  <2>1. /\ Enter("initial", "planRelation")
        /\ scope' = scope /\ table' = table /\ data' = data
    BY <1>5 DEF InitialEnterPlanRelation
  <2>2. pass = "initial" /\ pass' = "initial" /\ plan' = plan
    BY <2>1 DEF Enter
  <2>3. PICK d \in Nat : d <= LastVisited(plan) /\ InitialInv(d)
    BY <2>2, InitialState
  <2>4. CallsOK(plan, visits', scope', d)
    BY <1>1, <2>1, <2>3, Entered
  <2>5. InitialInv(d)'
    BY <2>1, <2>2, <2>3, <2>4
  <2>6. QED
    BY <1>2, <2>1, <2>2, <2>3, <2>5, InitialKept
<1>6. CASE InitialEnterRelation
  <2>1. /\ Enter("initial", "relation")
        /\ scope' = NextNode /\ table' = table /\ data' = data
    BY <1>6 DEF InitialEnterRelation
  <2>2. pass = "initial" /\ pass' = "initial" /\ plan' = plan
    BY <2>1 DEF Enter
  <2>3. PICK d \in Nat : d <= LastVisited(plan) /\ InitialInv(d)
    BY <2>2, InitialState
  <2>4. CallsOK(plan, visits', scope', d)
    BY <1>1, <2>1, <2>3, Entered
  <2>5. InitialInv(d)'
    BY <2>1, <2>2, <2>3, <2>4
  <2>6. QED
    BY <1>2, <2>1, <2>2, <2>3, <2>5, InitialKept
<1>7. CASE InitialVisitRelation
  <2> DEFINE defined == DefineUniqueSymbol(table, plan.node[This].kind,
                                           Original(This), "relation")
             r == RelationData(This)
  <2>1. /\ Leave("initial", "relation") /\ scope' = Caller.outer
        /\ table' = AddPermanentLocation(defined, Last(defined.symbols), Copy(This))
        /\ data' = Append(data, r)
    BY <1>7 DEF InitialVisitRelation
  <2>2. pass = "initial" /\ pass' = "initial" /\ plan' = plan
    BY <2>1 DEF Leave
  <2>3. PICK d \in Nat : d <= LastVisited(plan) /\ InitialInv(d)
    BY <2>2, InitialState
  <2>4. CallsOK(plan, visits', scope', d + 1) /\ This = d + 1 /\ This \in Relations(plan)
    BY <1>1, <2>1, <2>3, Left
  <2>5. d + 1 \in Nat /\ d + 1 <= LastVisited(plan)
    BY <1>1, <2>4 DEF Relations
  <2>6. DOMAIN r = DOMAIN RelationData(0) /\ r.subQueryPipelines = << >>
    BY RootsDescribed
  <2> HIDE DEF r, This
  <2>7. /\ SymbolsOK(plan, table', d + 1) /\ IndexesOK(plan, table', d + 1)
        /\ DOMAIN table'.symbols = DOMAIN table.symbols \union {Len(table.symbols) + 1}
        /\ IsSequence(table'.symbols)
    BY <1>1, <2>1, <2>3, <2>4, RelationDefined
  <2>8. IsSequence(table.symbols)
    BY <2>3 DEF SymbolsOK
  <2>9. /\ DataOK(table', data')
        /\ \A i \in DOMAIN data' : data'[i].subQueryPipelines = << >>
    BY <1>2, <2>1, <2>3, <2>6, <2>7, <2>8, DataAppended
  <2>10. InitialInv(d + 1)'
    BY <2>2, <2>4, <2>7, <2>9
  <2>11. QED
    BY <2>2, <2>5, <2>9, <2>10, InitialKept
<1>8. CASE InitialVisitSubquery
  <2>1. /\ Leave("initial", "subquery") /\ scope' = scope /\ data' = data
        /\ table' = SetParentQueryLocation(table, table.symbols[Below(plan, table, This)],
                                           Original(scope))
    BY <1>8 DEF InitialVisitSubquery, RelationSymbol, Below, SymbolOf
  <2>2. pass = "initial" /\ pass' = "initial" /\ plan' = plan
    BY <2>1 DEF Leave
  <2>3. PICK d \in Nat : d <= LastVisited(plan) /\ InitialInv(d)
    BY <2>2, InitialState
  <2>4. /\ CallsOK(plan, visits', scope', d + 1)
        /\ This = d + 1 /\ This \in SubqueriesOf(plan)
        /\ scope \in Relations(plan) /\ scope = Around(plan, This)
    BY <1>1, <2>1, <2>3, Left
  <2>5. d + 1 \in Nat /\ d + 1 <= LastVisited(plan)
    BY <1>1, <2>4 DEF SubqueriesOf
  <2>6. UnknownLocation # Original(scope)
    BY <2>4, ThePlan
  <2> HIDE DEF This
  <2>7. /\ SymbolsOK(plan, table', d + 1) /\ IndexesOK(plan, table', d + 1)
        /\ DOMAIN table'.symbols = DOMAIN table.symbols
    BY <1>1, <2>1, <2>3, <2>4, <2>6, SubqueryNumbered
  <2>8. DataOK(table', data')
    BY <1>2, <2>1, <2>7 DEF DataOK
  <2>9. InitialInv(d + 1)'
    BY <2>1, <2>2, <2>3, <2>4, <2>7
  <2>10. QED
    BY <2>2, <2>5, <2>8, <2>9, InitialKept
<1>9. CASE InitialVisitPlanRelation
  <2> DEFINE l == PlanRelLocation(This)
             r == RelationData(0)
             type == "planRelation"
  <2>1. /\ Leave("initial", "planRelation") /\ scope' = scope
        /\ table' = DefineUniqueSymbol(table, plan.roots[This].kind, l, type)
        /\ data' = Append(data, r)
    BY <1>9 DEF InitialVisitPlanRelation
  <2>2. pass = "initial" /\ pass' = "initial" /\ plan' = plan
    BY <2>1 DEF Leave
  <2>3. PICK d \in Nat : d <= LastVisited(plan) /\ InitialInv(d)
    BY <2>2, InitialState
  <2>4. CallsOK(plan, visits', scope', d)
    BY <1>1, <2>1, <2>3, Left
  <2>5. ~IsOriginal(l) /\ type # "relation"
    BY OriginalsDiffer
  <2>6. DOMAIN r = DOMAIN RelationData(0) /\ r.subQueryPipelines = << >>
    BY RootsDescribed
  <2> HIDE DEF l, r, type
  <2>7. /\ SymbolsOK(plan, table', d) /\ IndexesOK(plan, table', d)
        /\ DOMAIN table'.symbols = DOMAIN table.symbols \union {Len(table.symbols) + 1}
        /\ IsSequence(table'.symbols)
    <3>1. IsPlan(plan) /\ SymbolsOK(plan, table, d) /\ IndexesOK(plan, table, d)
      BY <1>1, <2>3
    <3>2. PICK b, m, k : /\ table' = DefineUniqueSymbol(table, b, m, k)
                         /\ ~IsOriginal(m) /\ IsOther(k)
      BY <2>1, <2>5 DEF IsOther
    <3>3. d \in Nat
      BY <2>3
    <3>4. QED
      BY <3>1, <3>2, <3>3, RootDefined
  <2>8. IsSequence(table.symbols)
    BY <2>3 DEF SymbolsOK
  <2>9. /\ DataOK(table', data')
        /\ \A i \in DOMAIN data' : data'[i].subQueryPipelines = << >>
    BY <1>2, <2>1, <2>3, <2>6, <2>7, <2>8, DataAppended
  <2>10. InitialInv(d)'
    BY <2>2, <2>4, <2>7, <2>9
  <2>11. QED
    BY <2>2, <2>3, <2>9, <2>10, InitialKept
<1>10. CASE BeginPipelines
  <2>1. /\ pass = "initial" /\ ~(Caller.visited < Len(VisitedBy(plan, Caller)))
        /\ Caller.what = "plan" /\ pass' = "pipelines" /\ visits' = VisitPlan
        /\ plan' = plan /\ scope' = scope /\ table' = table /\ data' = data
    BY <1>10 DEF BeginPipelines, PlanVisited, HasMore
  <2>2. PICK d \in Nat : d <= LastVisited(plan) /\ InitialInv(d)
    BY <2>1, InitialState
  <2>3. d = LastVisited(plan) /\ scope = NoRelation
    <3>1. Caller = Last(visits)
      BY DEF Caller
    <3> HIDE DEF Caller
    <3>2. QED
      BY <1>1, <2>1, <2>2, <3>1, CallsEnd
  <2>4. AllSymbols
    BY <2>2, <2>3 DEF AllSymbols
  <2>5. ListsOK(plan, table, data, 0)
    BY <1>1, <1>2, <2>2, <2>4, ListsBegin DEF AllSymbols
  <2>6. CallsOK(plan, VisitPlan, NoRelation, 0)
    BY <1>1, CallsBegin
  <2>7. PipelinesInv(0)'
    BY <2>1, <2>3, <2>5, <2>6 DEF PipelinesInv
  <2>8. 0 \in Nat /\ 0 <= LastVisited(plan)
    BY <1>1
  <2>9. QED
    BY <1>2, <2>1, <2>4, <2>7, <2>8, PipelinesKept
<1>11. CASE LinkPlanRelation
  <2>1. /\ Enter("pipelines", "planRelation") /\ scope' = scope /\ table' = table
        /\ \E symbol, input :
             data' = [data EXCEPT ![symbol].newPipelines = Append(@, input)]
    BY <1>11 DEF LinkPlanRelation
  <2>2. pass = "pipelines" /\ pass' = "pipelines" /\ plan' = plan
    BY <2>1 DEF Enter
  <2>3. PICK d \in Nat : d <= LastVisited(plan) /\ PipelinesInv(d)
    BY <2>2, PipelinesState
  <2>4. CallsOK(plan, visits', scope', d)
    BY <1>1, <2>1, <2>3, Entered DEF PipelinesInv
  <2>5. /\ data' = [s \in DOMAIN data |-> data'[s]]
        /\ \A s \in DOMAIN data :
             /\ DOMAIN data'[s] = DOMAIN data[s]
             /\ data'[s].subQueryPipelines = data[s].subQueryPipelines
    <3>1. \A s \in DOMAIN data : "subQueryPipelines" \in DOMAIN data[s]
      BY <1>2 DEF DataOK, RelationData
    <3>2. PICK symbol, input :
            data' = [data EXCEPT ![symbol].newPipelines = Append(@, input)]
      BY <2>1
    <3>3. QED
      BY <3>1, <3>2
  <2>6. DataOK(table, data')
    BY <1>2, <2>5, LinksChanged DEF DataOK
  <2>7. QED
    BY <2>1, <2>2, <2>3, <2>4, <2>5, <2>6, LinksKept
<1>12. CASE LeavePlanRelation
  <2>1. /\ Leave("pipelines", "planRelation")
        /\ scope' = scope /\ table' = table /\ data' = data
    BY <1>12 DEF LeavePlanRelation
  <2>2. pass = "pipelines" /\ pass' = "pipelines" /\ plan' = plan
    BY <2>1 DEF Leave
  <2>3. PICK d \in Nat : d <= LastVisited(plan) /\ PipelinesInv(d)
    BY <2>2, PipelinesState
  <2>4. CallsOK(plan, visits', scope', d)
    BY <1>1, <2>1, <2>3, Left DEF PipelinesInv
  <2>5. QED
    BY <1>2, <2>1, <2>2, <2>3, <2>4, LinksKept
<1>13. CASE LinkRelation
  <2> DEFINE symbol == SymbolOf(table, NextNode)
             node   == plan.node[NextNode]
             inputs == [i \in DOMAIN node.inputs |-> RelationSymbol(Original(node.inputs[i]))]
  <2>1. /\ Enter("pipelines", "relation") /\ scope' = NextNode /\ table' = table
        /\ data' = [data EXCEPT
             ![symbol].continuingPipeline = IF node.kind \in UnaryKinds THEN inputs[1] ELSE @,
             ![symbol].newPipelines = IF node.kind \in UnaryKinds THEN @ ELSE @ \o inputs]
    BY <1>13 DEF LinkRelation, RelationSymbol, SymbolOf
  <2>2. pass = "pipelines" /\ pass' = "pipelines" /\ plan' = plan
    BY <2>1 DEF Enter
  <2>3. PICK d \in Nat : d <= LastVisited(plan) /\ PipelinesInv(d)
    BY <2>2, PipelinesState
  <2>4. CallsOK(plan, visits', scope', d)
    BY <1>1, <2>1, <2>3, Entered DEF PipelinesInv
  <2> HIDE DEF symbol, node, inputs
  <2>5. /\ data' = [s \in DOMAIN data |-> data'[s]]
        /\ \A s \in DOMAIN data :
             /\ DOMAIN data'[s] = DOMAIN data[s]
             /\ data'[s].subQueryPipelines = data[s].subQueryPipelines
    <3>1. \A s \in DOMAIN data : "subQueryPipelines" \in DOMAIN data[s]
      BY <1>2 DEF DataOK, RelationData
    <3>2. QED
      BY <2>1, <3>1
  <2>6. DataOK(table, data')
    BY <1>2, <2>5, LinksChanged DEF DataOK
  <2>7. QED
    BY <2>1, <2>2, <2>3, <2>4, <2>5, <2>6, LinksKept
<1>14. CASE LeaveRelation
  <2>1. /\ Leave("pipelines", "relation")
        /\ scope' = Caller.outer /\ table' = table /\ data' = data
    BY <1>14 DEF LeaveRelation
  <2>2. pass = "pipelines" /\ pass' = "pipelines" /\ plan' = plan
    BY <2>1 DEF Leave
  <2>3. PICK d \in Nat : d <= LastVisited(plan) /\ PipelinesInv(d)
    BY <2>2, PipelinesState
  <2>4. CallsOK(plan, visits', scope', d + 1) /\ This = d + 1 /\ This \in Relations(plan)
    BY <1>1, <2>1, <2>3, Left DEF PipelinesInv
  <2>5. d + 1 \in Nat /\ d + 1 \in Relations(plan)
    BY <2>4
  <2>6. QED
    BY <1>2, <2>1, <2>2, <2>3, <2>4, <2>5, LinksKept
<1>15. CASE LinkSubquery
  <2> DEFINE symbol == Below(plan, table, This)
             outer  == SymbolOf(table, scope)
             started == ToSet(Path(symbol))
  <2>1. /\ Leave("pipelines", "subquery") /\ scope' = scope /\ table' = table
        /\ data' = [s \in DOMAIN data |->
             [data[s] EXCEPT
                !.subQueryPipelines = IF s = outer THEN Append(@, symbol) ELSE @,
                !.pipelineStart     = IF s \in started THEN symbol ELSE @]]
    BY <1>15 DEF LinkSubquery, RelationSymbol, Below, SymbolOf
  <2> HIDE DEF symbol, outer, started
  <2>2. pass = "pipelines" /\ pass' = "pipelines" /\ plan' = plan
    BY <2>1 DEF Leave
  <2>3. PICK d \in Nat : d <= LastVisited(plan) /\ PipelinesInv(d)
    BY <2>2, PipelinesState
  <2>4. /\ CallsOK(plan, visits', scope', d + 1)
        /\ This = d + 1 /\ This \in SubqueriesOf(plan)
        /\ scope \in Relations(plan) /\ scope = Around(plan, This)
    <3>1. Leave("pipelines", "subquery") /\ scope' = scope
      BY <2>1
    <3>2. CallsOK(plan, visits, scope, d)
      BY <2>3 DEF PipelinesInv
    <3>3. QED
      BY <1>1, <3>1, <3>2, Left
  <2>5. d + 1 \in Nat /\ d + 1 <= LastVisited(plan)
    BY <1>1, <2>4 DEF SubqueriesOf
  <2>6. AllSymbols
    BY <2>2, PipelinesState
  <2> HIDE DEF This
  <2>7. /\ data' = [s \in DOMAIN data |-> data'[s]]
        /\ \A s \in DOMAIN data :
             /\ DOMAIN data'[s] = DOMAIN data[s]
             /\ data'[s].subQueryPipelines =
                  IF s = outer THEN Append(data[s].subQueryPipelines, symbol)
                  ELSE data[s].subQueryPipelines
    <3>1. \A s \in DOMAIN data : "subQueryPipelines" \in DOMAIN data[s]
      BY <1>2 DEF DataOK, RelationData
    <3>2. QED
      BY <2>1, <3>1
  <2>8. DataOK(table, data')
    <3>1. \A s \in DOMAIN data : IsSequence(data'[s].subQueryPipelines)
      BY <1>2, <2>7, SequenceAppend DEF DataOK
    <3>2. QED
      BY <1>2, <2>7, <3>1, LinksChanged
  <2>9. ListsOK(plan, table, data', d + 1)
    <3>1. ListsOK(plan, table, data, d) /\ SymbolsOK(plan, table, LastVisited(plan))
          /\ IndexesOK(plan, table, LastVisited(plan))
      BY <2>3, <2>6 DEF PipelinesInv, AllSymbols
    <3>2. \A s \in DOMAIN data : data'[s].subQueryPipelines =
            IF s = SymbolOf(table, scope)
            THEN Append(data[s].subQueryPipelines, Below(plan, table, This))
            ELSE data[s].subQueryPipelines
      BY <2>7 DEF outer, symbol
    <3>3. ListsOK(plan, table, data', This)
      BY <1>1, <1>2, <2>4, <3>1, <3>2, ListLinked
    <3>4. QED
      BY <2>4, <3>3
  <2>10. PipelinesInv(d + 1)'
    BY <2>1, <2>2, <2>4, <2>9 DEF PipelinesInv
  <2>11. QED
    BY <2>1, <2>2, <2>5, <2>6, <2>8, <2>10, PipelinesKept
<1>16. CASE BeginPrint
  <2>1. /\ pass = "pipelines" /\ ~(Caller.visited < Len(VisitedBy(plan, Caller)))
        /\ Caller.what = "plan" /\ pass' = "print"
        /\ plan' = plan /\ table' = table /\ data' = data
    BY <1>16 DEF BeginPrint, PlanVisited, HasMore
  <2>2. PICK d \in Nat : d <= LastVisited(plan) /\ PipelinesInv(d)
    BY <2>1, PipelinesState
  <2>3. d = LastVisited(plan)
    <3>1. Caller = Last(visits)
      BY DEF Caller
    <3> HIDE DEF Caller
    <3>2. QED
      BY <1>1, <2>1, <2>2, <3>1, CallsEnd DEF PipelinesInv
  <2>4. AllSymbols /\ ListsOK(plan, table, data, LastVisited(plan))
    BY <2>1, <2>2, <2>3, PipelinesState DEF PipelinesInv
  <2>5. QED
    BY <2>1, <2>4, PrintKept
<1>17. CASE OutputPipelinesSection \/ PrintRelation \/ OutputRootSection
  <2>1. /\ plan' = plan /\ table' = table /\ data' = data
        /\ pass \in {"print", "relations"} /\ pass' \in {"relations", "printed"}
    BY <1>17 DEF OutputPipelinesSection, PrintRelation, OutputRootSection
  <2>2. AllSymbols /\ ListsOK(plan, table, data, LastVisited(plan))
    BY <2>1 DEF NumberingInv, PassInv
  <2>3. QED
    BY <2>1, <2>2, PrintKept
<1>18. CASE UNCHANGED converterVars
  <2>1. /\ plan' = plan /\ pass' = pass /\ visits' = visits /\ scope' = scope
        /\ table' = table /\ data' = data
    BY <1>18 DEF converterVars
  <2>2. PassInv'
    BY <2>1 DEF NumberingInv, PassInv, PipelinesInv, AllSymbols
  <2>3. QED
    BY <2>1, <2>2 DEF NumberingInv
<1>19. QED
  BY <1>3, <1>4, <1>5, <1>6, <1>7, <1>8, <1>9, <1>10, <1>11, <1>12, <1>13, <1>14, <1>15,
     <1>16, <1>17, <1>18 DEF ConverterNext

LEMMA NumberingBegins == ConverterInit => NumberingInv
<1> SUFFICES ASSUME ConverterInit
             PROVE  NumberingInv
  OBVIOUS
<1>1. /\ plan \in Plans /\ pass = "initial" /\ visits = VisitPlan /\ scope = NoRelation
      /\ table = EmptyTable /\ data = << >>
  BY DEF ConverterInit
<1>2. IsPlan(plan) /\ LastVisited(plan) \in Nat
  <2>1. IsPlan(plan)
    BY <1>1, PlansAssumption
  <2>2. QED
    BY <2>1, RootsShape
<1>3. CallsOK(plan, visits, scope, 0)
  BY <1>1, <1>2, CallsBegin
<1>4. /\ EmptyTable.symbols = << >> /\ DOMAIN EmptyTable.symbols = {}
      /\ IsSequence(EmptyTable.symbols)
      /\ \A l : ValuesAt(EmptyTable.byLocation, l) = << >>
  BY DEF EmptyTable, IsSequence, ValuesAt
<1>5. /\ \A n \in Relations(plan) : ~(n <= 0)
      /\ \A e \in SubqueriesOf(plan) : ~(e <= 0)
  BY <1>2 DEF Relations, SubqueriesOf
<1>6. SymbolsOK(plan, table, 0) /\ IndexesOK(plan, table, 0)
  BY <1>1, <1>4, <1>5 DEF SymbolsOK, IndexesOK
<1>7. DataOK(table, data)
  <2>1. IsSequence(<< >>) /\ DOMAIN << >> = {}
    BY DEF IsSequence
  <2>2. QED
    BY <1>1, <1>4, <2>1 DEF DataOK
<1>8. InitialInv(0)
  BY <1>1, <1>3, <1>6 DEF InitialInv
<1>9. PassInv
  <2>1. 0 \in 0..LastVisited(plan)
    BY <1>2
  <2>2. QED
    BY <1>1, <1>8, <2>1 DEF PassInv
<1>10. QED
  BY <1>1, <1>7, <1>9 DEF NumberingInv

LEMMA NumberingSuffices == NumberingInv => SubqueriesAgree
<1> SUFFICES ASSUME NumberingInv, Linked, NEW s \in RelationSymbols
             PROVE  LET pipelines == data[s].subQueryPipelines
                        AtIndex(i) == LookupSymbolByParentQueryAndType(
                                        table, table.symbols[s].sourceLocation, i, "relation")
                    IN /\ \A k \in DOMAIN pipelines : AtIndex(k - 1) = pipelines[k]
                       /\ AtIndex(Len(pipelines)) = NoSymbol
  BY DEF SubqueriesAgree
<1>1. IsPlan(plan) /\ \A n \in Relations(plan) : UnknownLocation # Original(n)
  BY ThePlan
<1>2. /\ SymbolsOK(plan, table, LastVisited(plan)) /\ IndexesOK(plan, table, LastVisited(plan))
      /\ ListsOK(plan, table, data, LastVisited(plan)) /\ DataOK(table, data)
  BY DEF NumberingInv, PassInv, Linked, AllSymbols
<1>3. s \in DOMAIN table.symbols /\ table.symbols[s].type = "relation"
  BY DEF RelationSymbols
<1>4. QED
  BY <1>1, <1>2, <1>3, ListsAgree

\* Of every plan, the k-th subquery the second pass lists for a relation is the
\* one the first pass gave index k - 1 under it, and the list has them all: the
\* relation a subquery names when it is printed (SubquerySymbol, by the index)
\* is taken from the same numbering as the lines of the pipelines section
\* (LinesOf, by the list).
THEOREM NumberingsAgree == ConverterSpec => []SubqueriesAgree
<1>1. NumberingInv /\ [ConverterNext]_converterVars => NumberingInv'
  BY NumberingStep
<1>2. QED
  BY <1>1, NumberingBegins, NumberingSuffices, PTL DEF ConverterSpec
=============================================================================
