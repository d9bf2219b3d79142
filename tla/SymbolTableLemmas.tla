--------------------------- MODULE SymbolTableLemmas ---------------------------
(***************************************************************************)
(* What the operators of SymbolTable do, whoever calls them.               *)
(***************************************************************************)
EXTENDS SymbolTable, ProtoPlan, SequenceTheorems, WellFoundedInduction, TLAPS

(***************************************************************************)
(* The search.                                                             *)
(***************************************************************************)

\* A forward loop that stops at the first match stops at a match, and no
\* match comes before it.
LEMMA FirstIsLeast ==
  ASSUME NEW S \in SUBSET Nat, S # {}
  PROVE  /\ First(S) \in S
         /\ \A j \in S : First(S) <= j
<1> DEFINE Less == OpToRel(<, Nat)
<1>1. \A x, y \in Nat : x < y => <<x, y>> \in Less
  BY DEF OpToRel
<1>2. IsWellFoundedOn(Less, Nat)
  BY NatLessThanWellFounded
<1> HIDE DEF Less
<1>3. PICK m \in S : \A y \in S : ~(<<y, m>> \in Less)
  BY <1>2, WFMin
<1>4. ASSUME NEW y \in S
      PROVE  m <= y
  <2>1. y \in Nat /\ m \in Nat
    OBVIOUS
  <2>2. ~(y < m)
    BY <1>1, <1>3, <2>1, Zenon
  <2>3. QED
    BY <2>1, <2>2
<1>5. QED
  BY <1>4 DEF First

\* The least of a set of positions is the one First returns.
LEMMA FirstIs ==
  ASSUME NEW S \in SUBSET Nat, NEW i \in S, \A j \in S : i <= j
  PROVE  First(S) = i
<1>1. First(S) \in S /\ First(S) <= i
  BY FirstIsLeast
<1>2. i <= First(S) /\ i \in Nat /\ First(S) \in Nat
  BY <1>1
<1>3. QED
  BY <1>1, <1>2

\* The loop of setParentQueryLocation leaves highestIndex at the greatest
\* index taken, or at -1.
LEMMA HighestIsGreatest ==
  ASSUME NEW m \in Nat, NEW S \in SUBSET (-1 .. m)
  PROVE  /\ HighestIndex(S) \in S \union {-1}
         /\ \A k \in S : k <= HighestIndex(S)
<1> DEFINE T == S \union {-1}
           Below == {m - k : k \in T}
<1>1. Below \in SUBSET Nat /\ Below # {}
  OBVIOUS
<1> HIDE DEF Below
<1>2. PICK b \in Below : \A y \in Below : b <= y
  BY <1>1, FirstIsLeast
<1> USE DEF Below
<1>3. PICK h \in T : b = m - h
  OBVIOUS
<1>4. ASSUME NEW k \in T
      PROVE  k <= h
  <2>1. m - k \in Below
    OBVIOUS
  <2>2. b <= m - k
    BY <1>2, <2>1
  <2>3. QED
    BY <1>3, <2>2
<1>5. QED
  BY <1>4 DEF HighestIndex

-----------------------------------------------------------------------------
(***************************************************************************)
(* Sequences of anything.                                                  *)
(***************************************************************************)

LEMMA SequenceHas ==
  ASSUME NEW s, IsSequence(s)
  PROVE  /\ Len(s) \in Nat
         /\ DOMAIN s = 1..Len(s)
         /\ \A i \in 1..Len(s) : s[i] \in ToSet(s)
  BY DEF IsSequence, ToSet

\* A list with domain 1..n is a sequence.
LEMMA ListIsSequence ==
  ASSUME NEW n \in Nat, NEW s, s = [i \in 1..n |-> s[i]]
  PROVE  IsSequence(s) /\ Len(s) = n
<1>1. \A i \in 1..n : s[i] \in ToSet(s)
  BY DEF ToSet
<1>2. s \in [1..n -> ToSet(s)]
  BY <1>1
<1>3. QED
  BY <1>2 DEF IsSequence

LEMMA SequenceAppend ==
  ASSUME NEW s, IsSequence(s), NEW e
  PROVE  LET r == Append(s, e)
         IN /\ IsSequence(r)
            /\ Len(s) \in Nat
            /\ Len(r) = Len(s) + 1
            /\ DOMAIN r = DOMAIN s \union {Len(s) + 1}
            /\ \A i \in DOMAIN s : i # Len(s) + 1 /\ r[i] = s[i]
            /\ r[Len(s) + 1] = e
<1> DEFINE S == ToSet(s) \union {e}
           r == Append(s, e)
<1>1. s \in Seq(S)
  BY SeqMonotonic DEF IsSequence
<1>2. e \in S
  OBVIOUS
<1>3. /\ r \in Seq(S)
      /\ Len(s) \in Nat
      /\ Len(r) = Len(s) + 1
      /\ DOMAIN s = 1..Len(s)
      /\ \A i \in 1..Len(s) : r[i] = s[i]
      /\ r[Len(s) + 1] = e
  BY <1>1, <1>2
<1>4. DOMAIN r = 1..Len(r)
  BY <1>3
<1> HIDE DEF S, r
<1>5. IsSequence(r)
  BY <1>3, <1>4 DEF IsSequence, ToSet
<1>6. QED
  BY <1>3, <1>4, <1>5 DEF r

LEMMA SequenceExcept ==
  ASSUME NEW s, IsSequence(s), NEW i \in DOMAIN s, NEW e
  PROVE  LET r == [s EXCEPT ![i] = e]
         IN /\ IsSequence(r)
            /\ DOMAIN r = DOMAIN s
            /\ \A j \in DOMAIN s : r[j] = IF j = i THEN e ELSE s[j]
<1> DEFINE r == [s EXCEPT ![i] = e]
<1>1. DOMAIN s = 1..Len(s) /\ Len(s) \in Nat
  BY DEF IsSequence
<1>2. DOMAIN r = DOMAIN s /\ \A j \in DOMAIN s : r[j] = IF j = i THEN e ELSE s[j]
  OBVIOUS
<1>3. r = [j \in 1..Len(s) |-> r[j]]
  BY <1>1
<1>4. IsSequence(r)
  BY <1>1, <1>3, ListIsSequence
<1>5. QED
  BY <1>2, <1>4

LEMMA SequenceBoth ==
  ASSUME NEW s, NEW t, IsSequence(s), IsSequence(t)
  PROVE  /\ IsSequence(s \o t)
         /\ Len(s \o t) = Len(s) + Len(t)
         /\ ToSet(s \o t) = ToSet(s) \union ToSet(t)
         /\ \A i \in 1..Len(s) : (s \o t)[i] = s[i]
         /\ \A i \in 1..Len(t) : (s \o t)[Len(s) + i] = t[i]
<1> DEFINE S == ToSet(s) \union ToSet(t)
           r == s \o t
<1>1. s \in Seq(S) /\ t \in Seq(S)
  BY SeqMonotonic DEF IsSequence
<1>2. /\ r \in Seq(S) /\ Len(r) = Len(s) + Len(t)
      /\ Len(s) \in Nat /\ Len(t) \in Nat
      /\ \A i \in 1..Len(s) : r[i] = s[i]
      /\ \A i \in 1..Len(t) : r[Len(s) + i] = t[i]
  BY <1>1
<1>3. DOMAIN r = 1..Len(r) /\ DOMAIN s = 1..Len(s) /\ DOMAIN t = 1..Len(t)
  BY <1>1, <1>2
<1> HIDE DEF r
<1>4. IsSequence(r)
  <2>1. Len(r) \in Nat /\ r = [i \in 1..Len(r) |-> r[i]]
    BY <1>2, <1>3
  <2>2. QED
    BY <2>1, ListIsSequence
<1>5. ToSet(r) \subseteq S
  BY <1>2, <1>3 DEF ToSet
<1>6. S \subseteq ToSet(r)
  <2>1. ASSUME NEW i \in DOMAIN s
        PROVE  s[i] \in ToSet(r)
    <3>1. i \in DOMAIN r /\ r[i] = s[i]
      BY <1>2, <1>3
    <3>2. QED
      BY <3>1 DEF ToSet
  <2>2. ASSUME NEW i \in DOMAIN t
        PROVE  t[i] \in ToSet(r)
    <3>1. Len(s) + i \in DOMAIN r /\ r[Len(s) + i] = t[i]
      BY <1>2, <1>3
    <3>2. QED
      BY <3>1 DEF ToSet
  <2>3. QED
    BY <2>1, <2>2 DEF ToSet
<1>7. QED
  BY <1>2, <1>4, <1>5, <1>6 DEF r

-----------------------------------------------------------------------------
(***************************************************************************)
(* Sequences one after the other.                                          *)
(***************************************************************************)

IsFlattening(f, parts, n) ==
  f = [i \in 1..n |-> IF i = 1 THEN parts[i] ELSE f[i - 1] \o parts[i]]

\* The recursive function of FlattenSeq exists.
LEMMA FlatteningExists ==
  ASSUME NEW parts
  PROVE  \A n \in Nat : \E f : IsFlattening(f, parts, n)
<1> DEFINE Bad == {n \in Nat : ~ \E f : IsFlattening(f, parts, n)}
<1> SUFFICES ASSUME Bad # {}
             PROVE  FALSE
  OBVIOUS
<1>1. /\ First(Bad) \in Bad
      /\ \A j \in Bad : First(Bad) <= j
  BY FirstIsLeast
<1> DEFINE n == First(Bad)
<1> HIDE DEF n
<1>2. n \in Nat /\ ~ \E f : IsFlattening(f, parts, n)
  BY <1>1 DEF n
<1>3. n # 0
  <2>1. IsFlattening([i \in 1..0 |-> parts[i]], parts, 0)
    BY DEF IsFlattening
  <2>2. QED
    BY <1>2, <2>1
<1>4. PICK f : IsFlattening(f, parts, n - 1)
  <2>1. n - 1 \in Nat
    BY <1>2, <1>3
  <2>2. n - 1 \notin Bad
    <3> HIDE DEF Bad
    <3>1. QED
      BY <1>1, <1>2 DEF n
  <2>3. QED
    BY <2>1, <2>2
<1> DEFINE g == [i \in 1..n |-> IF i = 1 THEN parts[i] ELSE f[i - 1] \o parts[i]]
<1>5. \A i \in 1..(n - 1) : g[i] = f[i]
  <2>1. \A i \in 1..(n - 1) : f[i] = IF i = 1 THEN parts[i] ELSE f[i - 1] \o parts[i]
    BY <1>4 DEF IsFlattening
  <2>2. \A i \in 1..(n - 1) : i \in 1..n
    BY <1>2
  <2>3. QED
    BY <2>1, <2>2
<1>6. IsFlattening(g, parts, n)
  <2>1. \A i \in 1..n : i # 1 => i - 1 \in 1..(n - 1)
    BY <1>2
  <2>2. QED
    BY <1>5, <2>1 DEF IsFlattening
<1>7. QED
  BY <1>2, <1>6

\* flat has the elements of the first n parts, in their order.
IsFlat(flat, parts, n, part, place) ==
  /\ IsSequence(flat)
  /\ \A i \in 1..Len(flat) :
       /\ part[i] \in 1..n
       /\ place[i] \in 1..Len(parts[part[i]])
       /\ flat[i] = parts[part[i]][place[i]]
  /\ \A i, j \in 1..Len(flat) :
       i < j => part[i] < part[j] \/ (part[i] = part[j] /\ place[i] < place[j])
  /\ \A a \in 1..n : \A k \in 1..Len(parts[a]) :
       \E i \in 1..Len(flat) : part[i] = a /\ place[i] = k

\* The part and the place each element of parts one after the other comes from.
LEMMA FlatExists ==
  ASSUME NEW N \in Nat, NEW parts, \A i \in 1..N : IsSequence(parts[i]),
         NEW f, IsFlattening(f, parts, N)
  PROVE  \A n \in 1..N : \E part, place : IsFlat(f[n], parts, n, part, place)
<1> DEFINE Bad == {n \in 1..N : ~ \E part, place : IsFlat(f[n], parts, n, part, place)}
<1> SUFFICES ASSUME Bad # {}
             PROVE  FALSE
  OBVIOUS
<1>1. /\ First(Bad) \in Bad
      /\ \A j \in Bad : First(Bad) <= j
  BY FirstIsLeast
<1> DEFINE n == First(Bad)
<1> HIDE DEF n
<1>2. n \in 1..N /\ ~ \E part, place : IsFlat(f[n], parts, n, part, place)
  BY <1>1 DEF n
<1>3. \A i \in 1..N : f[i] = IF i = 1 THEN parts[i] ELSE f[i - 1] \o parts[i]
  BY DEF IsFlattening
<1>4. n # 1
  <2>1. SUFFICES ASSUME n = 1
                 PROVE  FALSE
    OBVIOUS
  <2>2. f[1] = parts[1] /\ IsSequence(parts[1])
    BY <1>2, <1>3, <2>1
  <2>3. Len(parts[1]) \in Nat
    BY <2>2, SequenceHas
  <2> DEFINE part == [i \in 1..Len(parts[1]) |-> 1]
             place == [i \in 1..Len(parts[1]) |-> i]
  <2>4. IsFlat(f[1], parts, 1, part, place)
    BY <2>2, <2>3 DEF IsFlat
  <2>5. QED
    BY <1>2, <2>1, <2>4
<1>5. n - 1 \in 1..N /\ n - 1 \notin Bad
  <2>1. n - 1 \in 1..N
    BY <1>2, <1>4
  <2>2. n - 1 \notin Bad
    <3> HIDE DEF Bad
    <3>1. QED
      BY <1>1, <1>2 DEF n
  <2>3. QED
    BY <2>1, <2>2
<1>6. PICK part, place : IsFlat(f[n - 1], parts, n - 1, part, place)
  BY <1>5
<1> DEFINE s == f[n - 1]
           t == parts[n]
<1>7. f[n] = s \o t
  BY <1>2, <1>3, <1>4
<1>8. IsSequence(s) /\ IsSequence(t)
  BY <1>2, <1>6 DEF IsFlat
<1> HIDE DEF s, t
<1>9. /\ IsSequence(s \o t) /\ Len(s \o t) = Len(s) + Len(t)
      /\ \A i \in 1..Len(s) : (s \o t)[i] = s[i]
      /\ \A i \in 1..Len(t) : (s \o t)[Len(s) + i] = t[i]
      /\ Len(s) \in Nat /\ Len(t) \in Nat
  BY <1>8, SequenceBoth, SequenceHas
<1> DEFINE u == s \o t
           part2 == [i \in 1..Len(u) |-> IF i <= Len(s) THEN part[i] ELSE n]
           place2 == [i \in 1..Len(u) |-> IF i <= Len(s) THEN place[i] ELSE i - Len(s)]
<1>10. IsFlat(s, parts, n - 1, part, place) /\ t = parts[n]
  BY <1>6 DEF s, t
<1> HIDE DEF u
<1>11. \A i \in 1..Len(u) :
         \/ /\ i \in 1..Len(s) /\ part2[i] = part[i] /\ place2[i] = place[i] /\ u[i] = s[i]
            /\ part2[i] \in 1..(n - 1)
         \/ /\ i \notin 1..Len(s) /\ i - Len(s) \in 1..Len(t) /\ part2[i] = n
            /\ place2[i] = i - Len(s) /\ u[i] = t[i - Len(s)]
  <2> SUFFICES ASSUME NEW i \in 1..Len(u)
               PROVE  \/ /\ i \in 1..Len(s) /\ part2[i] = part[i] /\ place2[i] = place[i]
                         /\ u[i] = s[i] /\ part2[i] \in 1..(n - 1)
                      \/ /\ i \notin 1..Len(s) /\ i - Len(s) \in 1..Len(t) /\ part2[i] = n
                         /\ place2[i] = i - Len(s) /\ u[i] = t[i - Len(s)]
    OBVIOUS
  <2>1. CASE i <= Len(s)
    <3>1. i \in 1..Len(s)
      BY <1>9, <2>1
    <3>2. part[i] \in 1..(n - 1)
      BY <1>10, <3>1 DEF IsFlat
    <3>3. QED
      BY <1>9, <2>1, <3>1, <3>2 DEF u
  <2>2. CASE ~(i <= Len(s))
    <3>1. i - Len(s) \in 1..Len(t) /\ i = Len(s) + (i - Len(s))
      BY <1>9, <2>2 DEF u
    <3>2. u[i] = t[i - Len(s)]
      BY <1>9, <3>1 DEF u
    <3>3. QED
      BY <1>9, <2>2, <3>1, <3>2
  <2>3. QED
    BY <2>1, <2>2
<1> HIDE DEF part2, place2
<1>12. IsFlat(u, parts, n, part2, place2)
  <2>1. IsSequence(u)
    BY <1>9 DEF u
  <2>2. ASSUME NEW i \in 1..Len(u)
        PROVE  /\ part2[i] \in 1..n
               /\ place2[i] \in 1..Len(parts[part2[i]])
               /\ u[i] = parts[part2[i]][place2[i]]
    <3>1. CASE i \in 1..Len(s)
      <4>1. /\ part[i] \in 1..(n - 1) /\ place[i] \in 1..Len(parts[part[i]])
            /\ s[i] = parts[part[i]][place[i]]
        BY <1>10, <3>1 DEF IsFlat
      <4>2. part2[i] = part[i] /\ place2[i] = place[i] /\ u[i] = s[i]
        BY <1>11, <3>1
      <4>3. QED
        BY <1>2, <4>1, <4>2
    <3>2. CASE i \notin 1..Len(s)
      <4>1. /\ i - Len(s) \in 1..Len(t) /\ part2[i] = n
            /\ place2[i] = i - Len(s) /\ u[i] = t[i - Len(s)]
        BY <1>11, <3>2
      <4>2. QED
        BY <1>2, <1>10, <4>1
    <3>3. QED
      BY <3>1, <3>2
  <2>3. ASSUME NEW i \in 1..Len(u), NEW j \in 1..Len(u), i < j
        PROVE  part2[i] < part2[j] \/ (part2[i] = part2[j] /\ place2[i] < place2[j])
    <3>1. CASE j \in 1..Len(s)
      <4>1. i \in 1..Len(s)
        BY <1>9, <2>3, <3>1
      <4>2. /\ part2[i] = part[i] /\ place2[i] = place[i]
            /\ part2[j] = part[j] /\ place2[j] = place[j]
        BY <1>11, <3>1, <4>1
      <4>3. QED
        BY <1>10, <2>3, <3>1, <4>1, <4>2 DEF IsFlat
    <3>2. CASE j \notin 1..Len(s) /\ i \in 1..Len(s)
      BY <1>2, <1>11, <3>2
    <3>3. CASE j \notin 1..Len(s) /\ i \notin 1..Len(s)
      <4>1. /\ part2[i] = n /\ place2[i] = i - Len(s)
            /\ part2[j] = n /\ place2[j] = j - Len(s)
        BY <1>11, <3>3
      <4>2. i - Len(s) < j - Len(s)
        BY <1>9, <2>3
      <4>3. QED
        BY <4>1, <4>2
    <3>4. QED
      BY <3>1, <3>2, <3>3
  <2>4. ASSUME NEW a \in 1..n, NEW k \in 1..Len(parts[a])
        PROVE  \E i \in 1..Len(u) : part2[i] = a /\ place2[i] = k
    <3>0. Len(u) = Len(s) + Len(t)
      BY <1>9 DEF u
    <3>1. CASE a = n
      <4>1. Len(s) + k \in 1..Len(u) /\ Len(s) + k \notin 1..Len(s) /\ (Len(s) + k) - Len(s) = k
        BY <1>9, <1>10, <3>0, <3>1
      <4>2. part2[Len(s) + k] = n /\ place2[Len(s) + k] = (Len(s) + k) - Len(s)
        BY <1>11, <4>1
      <4>3. QED
        BY <3>1, <4>1, <4>2
    <3>2. CASE a # n
      <4>1. a \in 1..(n - 1)
        BY <1>2, <3>2
      <4>2. PICK i \in 1..Len(s) : part[i] = a /\ place[i] = k
        BY <1>10, <4>1 DEF IsFlat
      <4>3. i \in 1..Len(u)
        BY <1>9, <3>0
      <4>4. QED
        BY <1>11, <4>2, <4>3
    <3>3. QED
      BY <3>1, <3>2
  <2>5. QED
    BY <2>1, <2>2, <2>3, <2>4 DEF IsFlat
<1>13. QED
  BY <1>2, <1>7, <1>12 DEF u

LEMMA FlatPlaces ==
  ASSUME NEW parts, IsSequence(parts), \A i \in 1..Len(parts) : IsSequence(parts[i])
  PROVE  /\ Len(parts) \in Nat
         /\ \E part, place : IsFlat(FlattenSeq(parts), parts, Len(parts), part, place)
<1> DEFINE N == Len(parts)
<1>1. N \in Nat
  BY SequenceHas
<1>2. CASE N = 0
  <2>1. FlattenSeq(parts) = parts
    BY <1>2 DEF FlattenSeq
  <2>2. IsFlat(parts, parts, 0, << >>, << >>)
    BY <1>2 DEF IsFlat
  <2>3. QED
    BY <1>1, <1>2, <2>1, <2>2
<1>3. CASE N # 0
  <2> DEFINE f == CHOOSE g : g = [i \in 1..N |-> IF i = 1 THEN parts[i] ELSE g[i - 1] \o parts[i]]
  <2>1. FlattenSeq(parts) = f[N]
    BY <1>3 DEF FlattenSeq
  <2>2. \E g : g = [i \in 1..N |-> IF i = 1 THEN parts[i] ELSE g[i - 1] \o parts[i]]
    BY <1>1, FlatteningExists DEF IsFlattening
  <2>3. IsFlattening(f, parts, N)
    BY <2>2 DEF IsFlattening
  <2> HIDE DEF f
  <2>4. N \in 1..N
    BY <1>1, <1>3
  <2>5. \E part, place : IsFlat(f[N], parts, N, part, place)
    BY <1>1, <2>3, <2>4, FlatExists
  <2>6. QED
    BY <1>1, <2>1, <2>5
<1>4. QED
  BY <1>2, <1>3

\* One after the other, the parts have the elements they have.
LEMMA FlatHas ==
  ASSUME NEW parts, IsSequence(parts), \A i \in 1..Len(parts) : IsSequence(parts[i])
  PROVE  LET flat == FlattenSeq(parts)
         IN /\ IsSequence(flat)
            /\ \A i \in DOMAIN flat : \E a \in DOMAIN parts : \E k \in DOMAIN parts[a] :
                 flat[i] = parts[a][k]
            /\ \A a \in DOMAIN parts : \A k \in DOMAIN parts[a] : \E i \in DOMAIN flat :
                 flat[i] = parts[a][k]
<1> DEFINE flat == FlattenSeq(parts)
<1>1. PICK part, place : IsFlat(flat, parts, Len(parts), part, place)
  BY FlatPlaces
<1> HIDE DEF flat
<1>2. IsSequence(flat) /\ DOMAIN flat = 1..Len(flat) /\ DOMAIN parts = 1..Len(parts)
  BY <1>1, SequenceHas DEF IsFlat
<1>3. \A a \in 1..Len(parts) : DOMAIN parts[a] = 1..Len(parts[a])
  BY SequenceHas
<1>4. ASSUME NEW i \in DOMAIN flat
      PROVE  \E a \in DOMAIN parts : \E k \in DOMAIN parts[a] : flat[i] = parts[a][k]
  <2>1. /\ part[i] \in 1..Len(parts) /\ place[i] \in 1..Len(parts[part[i]])
        /\ flat[i] = parts[part[i]][place[i]]
    BY <1>1, <1>2 DEF IsFlat
  <2>2. QED
    BY <1>2, <1>3, <2>1
<1>5. ASSUME NEW a \in DOMAIN parts, NEW k \in DOMAIN parts[a]
      PROVE  \E i \in DOMAIN flat : flat[i] = parts[a][k]
  <2>1. a \in 1..Len(parts) /\ k \in 1..Len(parts[a])
    BY <1>2, <1>3
  <2>2. PICK i \in 1..Len(flat) : part[i] = a /\ place[i] = k
    BY <1>1, <2>1 DEF IsFlat
  <2>3. flat[i] = parts[a][k]
    BY <1>1, <2>2 DEF IsFlat
  <2>4. QED
    BY <1>2, <2>3
<1>6. QED
  BY <1>2, <1>4, <1>5 DEF flat

\* Increasing parts, each above the one before it, make an increasing whole.
LEMMA FlatIncreases ==
  ASSUME NEW parts, IsSequence(parts), \A a \in 1..Len(parts) : IsSequence(parts[a]),
         \A a \in 1..Len(parts) : \A i, j \in DOMAIN parts[a] :
           i < j => parts[a][i] < parts[a][j],
         \A a, b \in 1..Len(parts) : a < b =>
           \A i \in DOMAIN parts[a] : \A j \in DOMAIN parts[b] : parts[a][i] < parts[b][j]
  PROVE  \A i, j \in DOMAIN FlattenSeq(parts) :
           i < j => FlattenSeq(parts)[i] < FlattenSeq(parts)[j]
<1> DEFINE flat == FlattenSeq(parts)
<1>1. PICK part, place : IsFlat(flat, parts, Len(parts), part, place)
  BY FlatPlaces
<1> HIDE DEF flat
<1>2. DOMAIN flat = 1..Len(flat)
  BY <1>1, SequenceHas DEF IsFlat
<1>3. \A a \in 1..Len(parts) : DOMAIN parts[a] = 1..Len(parts[a])
  BY SequenceHas
<1>4. ASSUME NEW i \in DOMAIN flat, NEW j \in DOMAIN flat, i < j
      PROVE  flat[i] < flat[j]
  <2>1. /\ part[i] \in 1..Len(parts) /\ place[i] \in DOMAIN parts[part[i]]
        /\ flat[i] = parts[part[i]][place[i]]
        /\ part[j] \in 1..Len(parts) /\ place[j] \in DOMAIN parts[part[j]]
        /\ flat[j] = parts[part[j]][place[j]]
    BY <1>1, <1>2, <1>3 DEF IsFlat
  <2>2. part[i] < part[j] \/ (part[i] = part[j] /\ place[i] < place[j])
    BY <1>1, <1>2, <1>4 DEF IsFlat
  <2>3. QED
    BY <2>1, <2>2
<1>5. QED
  BY <1>4 DEF flat

\* Parts without repetitions that have nothing in common make a whole without.
LEMMA FlatRepeatsNothing ==
  ASSUME NEW parts, IsSequence(parts), \A a \in 1..Len(parts) : IsSequence(parts[a]),
         \A a, b \in 1..Len(parts) : \A i \in DOMAIN parts[a] : \A j \in DOMAIN parts[b] :
           parts[a][i] = parts[b][j] => a = b /\ i = j
  PROVE  \A i, j \in DOMAIN FlattenSeq(parts) :
           FlattenSeq(parts)[i] = FlattenSeq(parts)[j] => i = j
<1> DEFINE flat == FlattenSeq(parts)
<1>1. PICK part, place : IsFlat(flat, parts, Len(parts), part, place)
  BY FlatPlaces
<1> HIDE DEF flat
<1>2. DOMAIN flat = 1..Len(flat)
  BY <1>1, SequenceHas DEF IsFlat
<1>3. \A a \in 1..Len(parts) : DOMAIN parts[a] = 1..Len(parts[a]) /\ Len(parts[a]) \in Nat
  BY SequenceHas
<1>4. \A i \in DOMAIN flat : /\ part[i] \in 1..Len(parts) /\ place[i] \in DOMAIN parts[part[i]]
                             /\ flat[i] = parts[part[i]][place[i]] /\ place[i] \in Nat
  BY <1>1, <1>2, <1>3 DEF IsFlat
<1>5. ASSUME NEW i \in DOMAIN flat, NEW j \in DOMAIN flat, flat[i] = flat[j]
      PROVE  i = j
  <2>1. /\ part[i] \in 1..Len(parts) /\ place[i] \in DOMAIN parts[part[i]]
        /\ part[j] \in 1..Len(parts) /\ place[j] \in DOMAIN parts[part[j]]
        /\ parts[part[i]][place[i]] = parts[part[j]][place[j]]
        /\ place[i] \in Nat
    BY <1>4, <1>5
  <2>2. part[i] = part[j] /\ place[i] = place[j]
    BY <2>1
  <2>3. ~(i < j) /\ ~(j < i)
    <3>1. \A x, y \in 1..Len(flat) :
            x < y => part[x] < part[y] \/ (part[x] = part[y] /\ place[x] < place[y])
      BY <1>1 DEF IsFlat
    <3>2. ~(part[i] < part[j]) /\ ~(part[j] < part[i])
          /\ ~(place[i] < place[j]) /\ ~(place[j] < place[i])
      BY <2>1, <2>2
    <3>3. QED
      BY <1>2, <3>1, <3>2
  <2>4. i \in Nat /\ j \in Nat
    BY <1>2
  <2>5. QED
    BY <2>3, <2>4
<1>6. QED
  BY <1>5 DEF flat

-----------------------------------------------------------------------------
(***************************************************************************)
(* Tables no name is defined twice in: the passes of the converter define  *)
(* unique names, and the parser asks for a name before it defines it.      *)
(***************************************************************************)

NamedTable(t) ==
  /\ DOMAIN t = DOMAIN EmptyTable
  /\ IsSequence(t.symbols)
  /\ \A i \in DOMAIN t.symbols :
       DOMAIN t.symbols[i] = {"name", "alias", "sourceLocation", "permanentLocation",
                              "parentQueryLocation", "parentQueryIndex", "type"}
  /\ DOMAIN t.byName = {t.symbols[i].name : i \in DOMAIN t.symbols}
  /\ \A i \in DOMAIN t.symbols : t.byName[t.symbols[i].name] = i
  /\ \A l \in DOMAIN t.byLocation : t.byLocation[l] \in Seq(DOMAIN t.symbols)

\* u has the symbols of t where t has them, as far as operator== can tell.
Keeps(t, u) ==
  /\ DOMAIN t.symbols \subseteq DOMAIN u.symbols
  /\ \A i \in DOMAIN t.symbols : SameSymbol(u.symbols[i], t.symbols[i])

LEMMA NamedPositions ==
  ASSUME NEW t, NamedTable(t)
  PROVE  /\ DOMAIN t.symbols = 1..Len(t.symbols)
         /\ Len(t.symbols) \in Nat
         /\ NoSymbol \notin DOMAIN t.symbols
         /\ DOMAIN t.symbols \in SUBSET Nat
BY SequenceHas DEF NamedTable, NoSymbol

LEMMA NamedEmpty == NamedTable(EmptyTable)
<1>1. IsSequence(EmptyTable.symbols) /\ DOMAIN EmptyTable.symbols = {}
  BY DEF EmptyTable, IsSequence
<1>2. DOMAIN EmptyTable.byName = {} /\ DOMAIN EmptyTable.byLocation = {}
  BY DEF EmptyTable
<1>3. QED
  BY <1>1, <1>2 DEF NamedTable

\* A name is found at the one symbol that has it.
LEMMA NamedFound ==
  ASSUME NEW t, NamedTable(t), NEW name
  PROVE  LET s == LookupSymbolByName(t, name)
         IN /\ s # NoSymbol => s \in DOMAIN t.symbols /\ t.symbols[s].name = name
            /\ \A i \in DOMAIN t.symbols : t.symbols[i].name = name => s = i
            /\ s # NoSymbol <=> name \in DOMAIN t.byName
<1>1. CASE name \in DOMAIN t.byName
  <2>1. PICK i \in DOMAIN t.symbols : t.symbols[i].name = name
    BY <1>1 DEF NamedTable
  <2>2. LookupSymbolByName(t, name) = i
    BY <1>1, <2>1 DEF NamedTable, LookupSymbolByName
  <2>3. \A j \in DOMAIN t.symbols : t.symbols[j].name = name => j = i
    BY <2>1 DEF NamedTable
  <2>4. QED
    BY <1>1, <2>1, <2>2, <2>3, NamedPositions
<1>2. CASE name \notin DOMAIN t.byName
  <2>1. \A i \in DOMAIN t.symbols : t.symbols[i].name # name
    BY <1>2 DEF NamedTable
  <2>2. QED
    BY <1>2, <2>1 DEF LookupSymbolByName
<1>3. QED
  BY <1>1, <1>2

\* operator== finds the very symbol.
LEMMA NamedIndex ==
  ASSUME NEW t, NamedTable(t), NEW i \in DOMAIN t.symbols
  PROVE  FindSymbolIndex(t, t.symbols[i]) = i
<1> DEFINE M == {k \in DOMAIN t.symbols : SameSymbol(t.symbols[k], t.symbols[i])}
<1>1. M \in SUBSET Nat /\ i \in M
  BY NamedPositions DEF SameSymbol
<1>2. \A k \in M : k = i
  BY DEF SameSymbol, NamedTable
<1>3. First(M) = i
  <2>1. \A k \in M : i <= k
    BY <1>1, <1>2
  <2>2. QED
    BY <1>1, <2>1, FirstIs
<1>4. QED
  BY <1>3 DEF FindSymbolIndex

\* What a lookup by location and type finds is a symbol of that type.
LEMMA NamedAtLocation ==
  ASSUME NEW t, NamedTable(t), NEW l, NEW type
  PROVE  LET s == LookupSymbolByLocationAndType(t, l, type)
         IN s # NoSymbol => s \in DOMAIN t.symbols /\ t.symbols[s].type = type
<1> DEFINE found == ValuesAt(t.byLocation, l)
           match == {k \in DOMAIN found : t.symbols[found[k]].type \in {type}}
<1>1. found \in Seq(DOMAIN t.symbols)
  <2>1. << >> \in Seq(DOMAIN t.symbols)
    OBVIOUS
  <2>2. QED
    BY <2>1 DEF NamedTable, ValuesAt
<1>2. match \in SUBSET Nat
  BY <1>1
<1>3. CASE match # {}
  <2>1. First(match) \in match
    BY <1>2, <1>3, FirstIsLeast
  <2>2. found[First(match)] \in DOMAIN t.symbols
    BY <1>1, <2>1
  <2>3. QED
    BY <2>1, <2>2 DEF LookupSymbolByLocationAndType, LookupSymbolByLocationAndTypes
<1>4. CASE match = {}
  BY <1>4 DEF LookupSymbolByLocationAndType, LookupSymbolByLocationAndTypes
<1>5. QED
  BY <1>3, <1>4

\* Where one symbol alone is recorded, it is what is found.
LEMMA NamedAloneThere ==
  ASSUME NEW t, NEW l, NEW s, ValuesAt(t.byLocation, l) = <<s>>
  PROVE  LookupSymbolByLocationAndType(t, l, t.symbols[s].type) = s
<1> DEFINE found == ValuesAt(t.byLocation, l)
           match == {k \in DOMAIN found : t.symbols[found[k]].type \in {t.symbols[s].type}}
<1>1. match = {1}
  OBVIOUS
<1>2. First({1}) = 1
  BY FirstIs
<1>3. QED
  BY <1>1, <1>2 DEF LookupSymbolByLocationAndType, LookupSymbolByLocationAndTypes

\* InsertMulti appends at its key and leaves the rest.
LEMMA InsertMultiAt ==
  ASSUME NEW map, NEW l, NEW i
  PROVE  LET new == InsertMulti(map, l, i)
         IN /\ DOMAIN new = DOMAIN map \union {l}
            /\ new[l] = Append(ValuesAt(map, l), i)
            /\ \A k \in DOMAIN map : k # l => new[k] = map[k]
            /\ ValuesAt(new, l) = Append(ValuesAt(map, l), i)
BY DEF InsertMulti, Put, ValuesAt

LEMMA InsertMultiElsewhere ==
  ASSUME NEW map, NEW l, NEW i, NEW k, k # l
  PROVE  ValuesAt(InsertMulti(map, l, i), k) = ValuesAt(map, k)
BY DEF InsertMulti, Put, ValuesAt

\* A name that is found stays where it is found.
LEMMA KeepsFinds ==
  ASSUME NEW t, NEW u, NamedTable(t), NamedTable(u), Keeps(t, u), NEW name,
         LookupSymbolByName(t, name) # NoSymbol
  PROVE  LookupSymbolByName(u, name) = LookupSymbolByName(t, name)
<1> DEFINE s == LookupSymbolByName(t, name)
<1>1. s \in DOMAIN t.symbols /\ t.symbols[s].name = name
  BY NamedFound
<1>2. s \in DOMAIN u.symbols /\ u.symbols[s].name = name
  BY <1>1 DEF Keeps, SameSymbol
<1>3. QED
  BY <1>2, NamedFound

\* Recording a symbol keeps the index of locations well formed.
LEMMA RecordedWell ==
  ASSUME NEW P, NEW map, NEW l, NEW i \in P,
         \A k \in DOMAIN map : map[k] \in Seq(P)
  PROVE  LET new == InsertMulti(map, l, i)
         IN \A k \in DOMAIN new : new[k] \in Seq(P)
<1>1. ValuesAt(map, l) \in Seq(P)
  <2>1. << >> \in Seq(P)
    OBVIOUS
  <2>2. QED
    BY <2>1 DEF ValuesAt
<1>2. Append(ValuesAt(map, l), i) \in Seq(P)
  BY <1>1
<1> DEFINE new == InsertMulti(map, l, i)
<1>3. /\ DOMAIN new = DOMAIN map \union {l}
      /\ new[l] = Append(ValuesAt(map, l), i)
      /\ \A k \in DOMAIN map : k # l => new[k] = map[k]
  BY DEF InsertMulti, Put
<1> HIDE DEF new
<1>4. \A k \in DOMAIN new : new[k] \in Seq(P)
  BY <1>2, <1>3
<1>5. QED
  BY <1>4 DEF new

LEMMA NamedDefine ==
  ASSUME NEW t, NamedTable(t), NEW name, NEW l, NEW type,
         LookupSymbolByName(t, name) = NoSymbol
  PROVE  LET u == DefineSymbol(t, name, l, type)
             n == Len(t.symbols) + 1
         IN /\ NamedTable(u)
            /\ Keeps(t, u)
            /\ n \notin DOMAIN t.symbols
            /\ DOMAIN u.symbols = DOMAIN t.symbols \union {n}
            /\ \A i \in DOMAIN t.symbols : u.symbols[i] = t.symbols[i]
            /\ u.symbols[n] = NewSymbol(name, l, type)
            /\ LookupSymbolByName(u, name) = n
            /\ u.byLocation = InsertMulti(t.byLocation, l, n)
<1> DEFINE n == Len(t.symbols) + 1
           new == NewSymbol(name, l, type)
           u == DefineSymbol(t, name, l, type)
<1>1. /\ DOMAIN u = DOMAIN EmptyTable
      /\ u.symbols = Append(t.symbols, new)
      /\ u.byName = Insert(t.byName, name, n)
      /\ u.byLocation = InsertMulti(t.byLocation, l, n)
  BY DEF DefineSymbol, NamedTable, EmptyTable
<1>2. name \notin DOMAIN t.byName
  BY NamedFound
<1>3. u.byName = [k \in DOMAIN t.byName \union {name} |->
                    IF k = name THEN n ELSE t.byName[k]]
  BY <1>1, <1>2 DEF Insert, Put
<1>4. /\ IsSequence(u.symbols)
      /\ Len(t.symbols) \in Nat
      /\ DOMAIN u.symbols = DOMAIN t.symbols \union {n}
      /\ \A i \in DOMAIN t.symbols : i # n /\ u.symbols[i] = t.symbols[i]
      /\ u.symbols[n] = new
  BY <1>1, SequenceAppend DEF NamedTable
<1>5. /\ new.name = name
      /\ DOMAIN new = {"name", "alias", "sourceLocation", "permanentLocation",
                       "parentQueryLocation", "parentQueryIndex", "type"}
  BY DEF NewSymbol
<1> HIDE DEF n, new, u
<1>6. DOMAIN u.byName = {u.symbols[i].name : i \in DOMAIN u.symbols}
  BY <1>3, <1>4, <1>5 DEF NamedTable
<1>7. \A i \in DOMAIN u.symbols : u.byName[u.symbols[i].name] = i
  BY <1>2, <1>3, <1>4, <1>5 DEF NamedTable
<1>8. \A k \in DOMAIN u.byLocation : u.byLocation[k] \in Seq(DOMAIN u.symbols)
  <2>1. \A k \in DOMAIN t.byLocation : t.byLocation[k] \in Seq(DOMAIN u.symbols)
    <3>1. DOMAIN t.symbols \subseteq DOMAIN u.symbols
      BY <1>4
    <3>2. \A k \in DOMAIN t.byLocation : t.byLocation[k] \in Seq(DOMAIN t.symbols)
      BY DEF NamedTable
    <3>3. QED
      BY <3>1, <3>2, SeqMonotonic
  <2>2. n \in DOMAIN u.symbols
    BY <1>4
  <2>3. QED
    BY <1>1, <2>1, <2>2, RecordedWell
<1>9. NamedTable(u)
  BY <1>1, <1>4, <1>5, <1>6, <1>7, <1>8 DEF NamedTable
<1>10. Keeps(t, u)
  BY <1>4 DEF Keeps, SameSymbol
<1>11. LookupSymbolByName(u, name) = n
  BY <1>3 DEF LookupSymbolByName
<1>12. QED
  BY <1>1, <1>4, <1>9, <1>10, <1>11 DEF u, n, new

\* Symbols that change in no field operator== or an index looks at.
LEMMA NamedChange ==
  ASSUME NEW t, NamedTable(t), NEW u,
         DOMAIN u = DOMAIN EmptyTable,
         IsSequence(u.symbols),
         DOMAIN u.symbols = DOMAIN t.symbols,
         \A i \in DOMAIN t.symbols :
           DOMAIN u.symbols[i] = DOMAIN t.symbols[i]
             /\ SameSymbol(u.symbols[i], t.symbols[i]),
         u.byName = t.byName,
         \A l \in DOMAIN u.byLocation : u.byLocation[l] \in Seq(DOMAIN t.symbols)
  PROVE  NamedTable(u) /\ Keeps(t, u)
<1>1. \A i \in DOMAIN t.symbols : u.symbols[i].name = t.symbols[i].name
  BY DEF SameSymbol
<1>2. DOMAIN u.byName = {u.symbols[i].name : i \in DOMAIN u.symbols}
  BY <1>1 DEF NamedTable
<1>3. QED
  BY <1>1, <1>2 DEF NamedTable, Keeps

LEMMA NamedPermanent ==
  ASSUME NEW t, NamedTable(t), NEW i \in DOMAIN t.symbols, NEW l
  PROVE  LET u == AddPermanentLocation(t, t.symbols[i], l)
         IN /\ NamedTable(u)
            /\ Keeps(t, u)
            /\ DOMAIN u.symbols = DOMAIN t.symbols
            /\ u.byLocation = InsertMulti(t.byLocation, l, i)
<1> DEFINE u == AddPermanentLocation(t, t.symbols[i], l)
           s == [t.symbols[i] EXCEPT !.permanentLocation = l]
<1>1. FindSymbolIndex(t, t.symbols[i]) = i
  BY NamedIndex
<1>2. /\ DOMAIN u = DOMAIN EmptyTable
      /\ u.symbols = [t.symbols EXCEPT ![i].permanentLocation = l]
      /\ u.byName = t.byName
      /\ u.byLocation = InsertMulti(t.byLocation, l, i)
  BY <1>1 DEF AddPermanentLocation, NamedTable, EmptyTable
<1>3. u.symbols = [t.symbols EXCEPT ![i] = s]
  BY <1>2
<1>4. /\ IsSequence(u.symbols)
      /\ DOMAIN u.symbols = DOMAIN t.symbols
      /\ \A j \in DOMAIN t.symbols : u.symbols[j] = IF j = i THEN s ELSE t.symbols[j]
  <2> HIDE DEF s
  <2>1. QED
    BY <1>3, SequenceExcept DEF NamedTable
<1>5. DOMAIN s = DOMAIN t.symbols[i] /\ SameSymbol(s, t.symbols[i])
  BY DEF NamedTable, SameSymbol
<1>6. \A k \in DOMAIN u.byLocation : u.byLocation[k] \in Seq(DOMAIN t.symbols)
  BY <1>2, RecordedWell DEF NamedTable
<1> HIDE DEF u, s
<1>7. \A j \in DOMAIN t.symbols :
        DOMAIN u.symbols[j] = DOMAIN t.symbols[j] /\ SameSymbol(u.symbols[j], t.symbols[j])
  BY <1>4, <1>5 DEF SameSymbol
<1>8. NamedTable(u) /\ Keeps(t, u)
  BY <1>2, <1>4, <1>6, <1>7, NamedChange
<1>9. QED
  BY <1>2, <1>4, <1>8 DEF u

LEMMA NamedParent ==
  ASSUME NEW t, NamedTable(t), NEW i \in DOMAIN t.symbols, NEW l
  PROVE  LET u == SetParentQueryLocation(t, t.symbols[i], l)
         IN /\ NamedTable(u)
            /\ Keeps(t, u)
            /\ DOMAIN u.symbols = DOMAIN t.symbols
            /\ u.byLocation = t.byLocation
<1> DEFINE u == SetParentQueryLocation(t, t.symbols[i], l)
           moved == [t.symbols EXCEPT ![i].parentQueryLocation = l]
           next == HighestIndex(TakenIndexes(moved, l)) + 1
           s == [[t.symbols[i] EXCEPT !.parentQueryLocation = l]
                   EXCEPT !.parentQueryIndex = next]
<1>1. FindSymbolIndex(t, t.symbols[i]) = i
  BY NamedIndex
<1>2. /\ DOMAIN u = DOMAIN EmptyTable
      /\ u.symbols = [moved EXCEPT ![i].parentQueryIndex = next]
      /\ u.byName = t.byName
      /\ u.byLocation = t.byLocation
  BY <1>1 DEF SetParentQueryLocation, NamedTable, EmptyTable
<1> HIDE DEF next
<1>3. u.symbols = [t.symbols EXCEPT ![i] = s]
  BY <1>2
<1>4. /\ IsSequence(u.symbols)
      /\ DOMAIN u.symbols = DOMAIN t.symbols
      /\ \A j \in DOMAIN t.symbols : u.symbols[j] = IF j = i THEN s ELSE t.symbols[j]
  <2> HIDE DEF s
  <2>1. QED
    BY <1>3, SequenceExcept DEF NamedTable
<1>5. DOMAIN s = DOMAIN t.symbols[i] /\ SameSymbol(s, t.symbols[i])
  BY DEF NamedTable, SameSymbol
<1> HIDE DEF u, s
<1>6. \A j \in DOMAIN t.symbols :
        DOMAIN u.symbols[j] = DOMAIN t.symbols[j] /\ SameSymbol(u.symbols[j], t.symbols[j])
  BY <1>4, <1>5 DEF SameSymbol
<1>7. NamedTable(u) /\ Keeps(t, u)
  BY <1>2, <1>4, <1>6, NamedChange DEF NamedTable
<1>8. QED
  BY <1>2, <1>4, <1>7 DEF u

LEMMA KeepsItself == ASSUME NEW t PROVE Keeps(t, t)
  BY DEF Keeps, SameSymbol

\* A lookup by location depends on the types of the symbols and on where they
\* are recorded.
LEMMA SameThere ==
  ASSUME NEW t, NEW u, NamedTable(t), Keeps(t, u), NEW l, NEW type,
         ValuesAt(u.byLocation, l) = ValuesAt(t.byLocation, l)
  PROVE  LookupSymbolByLocationAndType(u, l, type)
           = LookupSymbolByLocationAndType(t, l, type)
<1> DEFINE found == ValuesAt(t.byLocation, l)
           before == {k \in DOMAIN found : t.symbols[found[k]].type \in {type}}
           after == {k \in DOMAIN found : u.symbols[found[k]].type \in {type}}
<1>1. found \in Seq(DOMAIN t.symbols)
  <2>1. << >> \in Seq(DOMAIN t.symbols)
    OBVIOUS
  <2>2. QED
    BY <2>1 DEF NamedTable, ValuesAt
<1>2. \A k \in DOMAIN found : found[k] \in DOMAIN t.symbols
  BY <1>1
<1>3. before = after
  BY <1>2 DEF Keeps, SameSymbol
<1>4. QED
  BY <1>3 DEF LookupSymbolByLocationAndType, LookupSymbolByLocationAndTypes
=============================================================================
