--------------------------- MODULE FunctionLookupProofs ---------------------------
(***************************************************************************)
(* Proofs about FunctionLookup, for any files, any calls, and any decoding *)
(* and matching of types.                                                  *)
(***************************************************************************)
EXTENDS FunctionLookup, WellFoundedInduction, TLAPS

(***************************************************************************)
(* The search.                                                             *)
(***************************************************************************)

\* A loop that stops at the first match finds one if there is one.
LEMMA LeastIsThere ==
  ASSUME NEW S \in SUBSET Nat, S # {}
  PROVE  \E i \in S : \A j \in S : i <= j
<1> DEFINE Less == OpToRel(<, Nat)
<1>1. \A x, y \in Nat : x < y => <<x, y>> \in Less
  BY DEF OpToRel
<1>2. IsWellFoundedOn(Less, Nat)
  BY NatLessThanWellFounded
<1> HIDE DEF Less
<1>3. PICK m \in S : \A y \in S : ~(<<y, m>> \in Less)
  BY <1>2, WFMin
<1>4. ASSUME NEW y \in S
      PROVE  m <= y
  <2>1. y \in Nat /\ m \in Nat
    OBVIOUS
  <2>2. ~(y < m)
    BY <1>1, <1>3, <2>1, Zenon
  <2>3. QED
    BY <2>1, <2>2
<1>5. QED
  BY <1>4

\* What the loop stops at is the least there is.
LEMMA LeastIs ==
  ASSUME NEW S \in SUBSET Nat, NEW i \in S, \A j \in S : i <= j
  PROVE  (CHOOSE k \in S : \A j \in S : k <= j) = i
<1> DEFINE least == CHOOSE k \in S : \A j \in S : k <= j
<1>1. least \in S /\ \A j \in S : least <= j
  OBVIOUS
<1> HIDE DEF least
<1>2. least <= i /\ i <= least /\ least \in Nat /\ i \in Nat
  BY <1>1
<1>3. least = i
  BY <1>2
<1>4. QED
  BY <1>3 DEF least

IsList(s) == DOMAIN s = 1..Len(s) /\ Len(s) \in Nat

LEMMA SequenceIsList ==
  ASSUME NEW S, NEW s \in Seq(S)
  PROVE  IsList(s) /\ \A i \in DOMAIN s : s[i] \in S
  BY DEF IsList

\* lookupFunction finds an implementation exactly if one of that name matches.
LEMMA LookupFinds ==
  ASSUME NEW impls, IsList(impls), NEW signature,
         \A i \in DOMAIN impls : impls[i] # NoImplementation
  PROVE  LookupFunction(impls, signature) # NoImplementation
           <=> \E i \in DOMAIN impls :
                 impls[i].name = signature.name /\ TryMatch(impls[i], signature)
<1> DEFINE Matching(i) == impls[i].name = signature.name /\ TryMatch(impls[i], signature)
           found == {i \in DOMAIN impls : Matching(i)}
<1>1. LookupFunction(impls, signature) =
        IF found = {} THEN NoImplementation
        ELSE impls[CHOOSE i \in found : \A j \in found : i <= j]
  BY DEF LookupFunction
<1>2. found \in SUBSET Nat /\ found \subseteq DOMAIN impls
  BY DEF IsList
<1>3. (\E i \in DOMAIN impls : Matching(i)) <=> found # {}
  OBVIOUS
<1> HIDE DEF found
<1>4. CASE found = {}
  BY <1>1, <1>3, <1>4
<1>5. CASE found # {}
  <2>1. PICK i \in found : \A j \in found : i <= j
    BY <1>2, <1>5, LeastIsThere
  <2>2. (CHOOSE k \in found : \A j \in found : k <= j) = i
    BY <1>2, <2>1, LeastIs
  <2>3. LookupFunction(impls, signature) = impls[i]
    BY <1>1, <1>5, <2>2
  <2>4. QED
    BY <1>2, <1>3, <1>5, <2>3
<1>6. QED
  BY <1>4, <1>5

\* An implementation registered behind others does not take their calls.
LEMMA LookupStays ==
  ASSUME NEW impls, IsList(impls), NEW impl, NEW signature,
         LookupFunction(impls, signature) # NoImplementation
  PROVE  LookupFunction(Register(impls, impl), signature) = LookupFunction(impls, signature)
<1> DEFINE more == Register(impls, impl)
           Matching(s, i) == s[i].name = signature.name /\ TryMatch(s[i], signature)
           found(s) == {i \in DOMAIN s : Matching(s, i)}
<1>1. \A s : LookupFunction(s, signature) =
        IF found(s) = {} THEN NoImplementation
        ELSE s[CHOOSE i \in found(s) : \A j \in found(s) : i <= j]
  BY DEF LookupFunction
<1>2. /\ DOMAIN more = DOMAIN impls \union {Len(impls) + 1}
      /\ \A i \in DOMAIN impls : more[i] = impls[i] /\ i \in Nat /\ i < Len(impls) + 1
      /\ Len(impls) \in Nat
  BY DEF Register, IsList
<1> HIDE DEF more
<1>3. /\ found(impls) \in SUBSET Nat /\ found(impls) \subseteq DOMAIN impls
      /\ found(more) \in SUBSET Nat
      /\ found(impls) \subseteq found(more)
      /\ found(more) \subseteq found(impls) \union {Len(impls) + 1}
  BY <1>2
<1>4. found(impls) # {}
  BY <1>1
<1> HIDE DEF found
<1>5. PICK i \in found(impls) : \A j \in found(impls) : i <= j
  BY <1>3, <1>4, LeastIsThere
<1>6. i \in found(more) /\ \A j \in found(more) : i <= j
  BY <1>2, <1>3, <1>5
<1>7. /\ (CHOOSE k \in found(impls) : \A j \in found(impls) : k <= j) = i
      /\ (CHOOSE k \in found(more) : \A j \in found(more) : k <= j) = i
  BY <1>3, <1>5, <1>6, LeastIs
<1>8. LookupFunction(impls, signature) = impls[i] /\ LookupFunction(more, signature) = more[i]
  BY <1>1, <1>4, <1>6, <1>7
<1>9. QED
  BY <1>2, <1>3, <1>8 DEF more

-----------------------------------------------------------------------------
(***************************************************************************)
(* The invariant: what is registered is what has been read.                *)
(***************************************************************************)

IsRead(f, d) ==
  f \in DOMAIN files /\ d \in DOMAIN files[f].declarations /\ ReadBefore(f, d)

Section(f, d)        == files[f].declarations[d].section
Implementation(f, d) == FunctionImplementation(files[f].declarations[d], files[f].uri)

\* Where the loading is.
PlaceInv ==
  /\ files \in Loads
  /\ IsList(files) /\ \A f \in DOMAIN files : IsList(files[f].declarations)
  /\ file \in 1..(Len(files) + 1)
  /\ next \in Nat \ {0}
  /\ file \in DOMAIN files => next <= Len(files[file].declarations) + 1
  /\ outcome \in {"loading", "loaded", "failed"}
  /\ outcome = "loaded" <=> file = Len(files) + 1

\* The implementations of a section are those that were read in it, and each
\* of them decoded.
ImplsInv ==
  \A section \in Sections :
    /\ IsList(extension[section])
    /\ \A i \in DOMAIN extension[section] :
         \E f, d : IsRead(f, d) /\ Section(f, d) = section
                     /\ extension[section][i] = Implementation(f, d)
    /\ \A f, d : IsRead(f, d) /\ Section(f, d) = section =>
         /\ \E i \in DOMAIN extension[section] : extension[section][i] = Implementation(f, d)
         /\ TypesOf(Implementation(f, d)) \intersect {Failed, Crashed} = {}

\* The types are those that were read, the first of each name.
TypesInv ==
  /\ IsList(extension.types)
  /\ \A i \in DOMAIN extension.types :
       \E f, d : IsRead(f, d) /\ Section(f, d) = "types"
                   /\ extension.types[i].name = files[f].declarations[d].name
  /\ \A f, d : IsRead(f, d) /\ Section(f, d) = "types" =>
       \E i \in DOMAIN extension.types :
         extension.types[i].name = files[f].declarations[d].name
  /\ \A i, j \in DOMAIN extension.types :
       extension.types[i].name = extension.types[j].name => i = j

RegistryInv ==
  /\ PlaceInv
  /\ DOMAIN extension = {"scalar", "aggregate", "types"}
  /\ ImplsInv
  /\ TypesInv

-----------------------------------------------------------------------------
(***************************************************************************)
(* Reading goes on by one declaration.                                     *)
(***************************************************************************)

LEMMA DeclarationShape ==
  ASSUME PlaceInv
  PROVE  /\ file \in Nat /\ next \in Nat /\ Len(files) \in Nat
         /\ DOMAIN files = 1..Len(files)
         /\ \A f \in DOMAIN files :
              /\ f \in Nat
              /\ Len(files[f].declarations) \in Nat
              /\ DOMAIN files[f].declarations = 1..Len(files[f].declarations)
              /\ \A d \in DOMAIN files[f].declarations :
                   d \in Nat /\ Section(f, d) \in {"scalar", "aggregate", "types"}
<1>1. ASSUME NEW f \in DOMAIN files
      PROVE  IsFile(files[f])
  <2>1. files \in Seq(ToSet(files)) /\ files[f] \in ToSet(files)
    BY LoadsAssumption DEF PlaceInv, ToSet
  <2>2. QED
    BY <2>1, LoadsAssumption DEF PlaceInv
<1>2. ASSUME NEW f \in DOMAIN files, NEW d \in DOMAIN files[f].declarations
      PROVE  Section(f, d) \in {"scalar", "aggregate", "types"}
  <2>1. files[f].declarations[d] \in ToSet(files[f].declarations)
    BY DEF ToSet
  <2>2. QED
    BY <1>1, <2>1 DEF IsFile, Section
<1>3. QED
  BY <1>2 DEF PlaceInv, IsList

\* A declaration read adds one place.
LEMMA OneMoreRead ==
  ASSUME PlaceInv, outcome = "loading", file <= Len(files), next \in DOMAIN files[file].declarations,
         next' = next + 1, UNCHANGED <<files, file>>
  PROVE  /\ \A f, d : IsRead(f, d)' <=> IsRead(f, d) \/ (f = file /\ d = next)
         /\ ~IsRead(file, next) /\ file \in DOMAIN files
<1>1. file \in DOMAIN files /\ file \in Nat /\ next \in Nat
  BY DeclarationShape DEF PlaceInv
<1>2. ~IsRead(file, next)
  BY <1>1 DEF IsRead, ReadBefore
<1>3. ASSUME NEW f \in DOMAIN files, NEW d \in DOMAIN files[f].declarations
      PROVE  ReadBefore(f, d)' <=> ReadBefore(f, d) \/ (f = file /\ d = next)
  <2>1. f \in Nat /\ d \in Nat
    BY DeclarationShape
  <2>2. QED
    BY <1>1, <2>1 DEF ReadBefore
<1>4. QED
  BY <1>1, <1>2, <1>3 DEF IsRead

\* Going to the next file adds none.
LEMMA NextFileReads ==
  ASSUME PlaceInv, NextFile
  PROVE  \A f, d : IsRead(f, d)' <=> IsRead(f, d)
<1>1. /\ file \in DOMAIN files /\ file \in Nat /\ next \in Nat
      /\ next > Len(files[file].declarations)
      /\ file' = file + 1 /\ next' = 1 /\ files' = files
  BY DeclarationShape DEF PlaceInv, NextFile
<1>2. ASSUME NEW f \in DOMAIN files, NEW d \in DOMAIN files[f].declarations
      PROVE  ReadBefore(f, d)' <=> ReadBefore(f, d)
  <2>1. f \in Nat /\ d \in 1..Len(files[f].declarations) /\ Len(files[f].declarations) \in Nat
    BY DeclarationShape
  <2>2. QED
    BY <1>1, <2>1 DEF ReadBefore
<1>3. QED
  BY <1>1, <1>2 DEF IsRead

\* Nothing read, nothing changed.
LEMMA SameRead ==
  ASSUME UNCHANGED <<files, file, next>>
  PROVE  /\ \A f, d : IsRead(f, d)' <=> IsRead(f, d)
         /\ \A f, d : Section(f, d)' = Section(f, d)
         /\ \A f, d : Implementation(f, d)' = Implementation(f, d)
  BY DEF IsRead, ReadBefore, Section, Implementation

-----------------------------------------------------------------------------
(***************************************************************************)
(* Every step keeps the invariant.                                         *)
(***************************************************************************)

LEMMA RegistryInvInit == Init => RegistryInv
<1> SUFFICES ASSUME Init PROVE RegistryInv
  OBVIOUS
<1>1. /\ files \in Loads /\ file = 1 /\ next = 1
      /\ extension = [scalar |-> << >>, aggregate |-> << >>, types |-> << >>]
      /\ outcome = IF files = << >> THEN "loaded" ELSE "loading"
  BY DEF Init
<1>2. files \in Seq(ToSet(files)) /\ \A f \in ToSet(files) : IsFile(f)
  BY <1>1, LoadsAssumption
<1>3. IsList(files) /\ \A f \in DOMAIN files : files[f] \in ToSet(files)
  BY <1>2, SequenceIsList
<1>4. ASSUME NEW f \in DOMAIN files
      PROVE  IsList(files[f].declarations)
  BY <1>2, <1>3, SequenceIsList DEF IsFile
<1>5. Len(files) \in Nat /\ DOMAIN files = 1..Len(files) /\ (files = << >> <=> Len(files) = 0)
  BY <1>2
<1>6. 1 \in DOMAIN files => 1 <= Len(files[1].declarations) + 1
  BY <1>4 DEF IsList
<1>7. PlaceInv
  BY <1>1, <1>3, <1>4, <1>5, <1>6 DEF PlaceInv
<1>8. \A f, d : ~IsRead(f, d)
  <2> SUFFICES ASSUME NEW f, NEW d, IsRead(f, d) PROVE FALSE
    OBVIOUS
  <2>1. f \in DOMAIN files /\ d \in DOMAIN files[f].declarations
    BY DEF IsRead
  <2>2. f \in 1..Len(files) /\ d \in 1..Len(files[f].declarations)
        /\ Len(files) \in Nat /\ Len(files[f].declarations) \in Nat
    BY <1>5, <1>4, <2>1 DEF IsList
  <2>3. QED
    BY <1>1, <2>2 DEF IsRead, ReadBefore
<1>9. IsList(<< >>) /\ DOMAIN << >> = {}
  BY DEF IsList
<1>10. /\ DOMAIN extension = {"scalar", "aggregate", "types"}
       /\ \A s \in DOMAIN extension : extension[s] = << >>
       /\ extension.types = << >>
  BY <1>1
<1>11. ImplsInv
  BY <1>8, <1>9, <1>10 DEF ImplsInv, Sections
<1>12. TypesInv
  BY <1>8, <1>9, <1>10 DEF TypesInv
<1>13. QED
  BY <1>7, <1>10, <1>11, <1>12 DEF RegistryInv

LEMMA ListGrows ==
  ASSUME NEW s, IsList(s), NEW x
  PROVE  /\ IsList(Append(s, x))
         /\ DOMAIN Append(s, x) = DOMAIN s \union {Len(s) + 1}
         /\ \A i \in DOMAIN s : Append(s, x)[i] = s[i] /\ i # Len(s) + 1
         /\ Append(s, x)[Len(s) + 1] = x
  BY DEF IsList

\* Another declaration of the file is read.
LEMMA PlaceGoesOn ==
  ASSUME PlaceInv, outcome = "loading", file <= Len(files), next \in DOMAIN files[file].declarations,
         next' = next + 1, UNCHANGED <<files, file, outcome>>
  PROVE  PlaceInv'
<1>1. next + 1 \in Nat \ {0} /\ next + 1 <= Len(files[file].declarations) + 1
  BY DeclarationShape DEF PlaceInv
<1>2. QED
  BY <1>1 DEF PlaceInv

LEMMA AddFunctionImplKeeps ==
  ASSUME NEW section \in Sections, RegistryInv, AddFunctionImpl(section)
  PROVE  RegistryInv'
<1> DEFINE impl == FunctionImplementation(Declaration, files[file].uri)
<1>1. /\ PlaceInv /\ ImplsInv /\ TypesInv /\ DOMAIN extension = {"scalar", "aggregate", "types"}
      /\ outcome = "loading" /\ file <= Len(files) /\ next \in DOMAIN files[file].declarations
      /\ Declaration.section = section
      /\ UNCHANGED <<files, file>>
  BY DEF RegistryInv, AddFunctionImpl, Loading
<1>2. CASE TypesOf(impl) \intersect {Failed, Crashed} # {}
  <2>1. outcome' = "failed" /\ UNCHANGED <<next, extension>>
    BY <1>2 DEF AddFunctionImpl
  <2>2. PlaceInv'
    BY <1>1, <2>1 DEF PlaceInv
  <2>3. /\ \A f, d : IsRead(f, d)' <=> IsRead(f, d)
        /\ \A f, d : Section(f, d)' = Section(f, d)
        /\ \A f, d : Implementation(f, d)' = Implementation(f, d)
    BY <1>1, <2>1, SameRead
  <2>4. ImplsInv'
    BY <1>1, <2>1, <2>3 DEF ImplsInv
  <2>5. TypesInv'
    BY <1>1, <2>1, <2>3 DEF TypesInv
  <2>6. QED
    BY <1>1, <2>1, <2>2, <2>4, <2>5 DEF RegistryInv
<1>3. CASE TypesOf(impl) \intersect {Failed, Crashed} = {}
  <2>1. /\ extension' = [extension EXCEPT ![section] = Register(@, impl)]
        /\ next' = next + 1 /\ UNCHANGED outcome
    BY <1>3 DEF AddFunctionImpl
  <2>2. PlaceInv'
    BY <1>1, <2>1, PlaceGoesOn
  <2>3. /\ \A f, d : IsRead(f, d)' <=> IsRead(f, d) \/ (f = file /\ d = next)
        /\ file \in DOMAIN files
    BY <1>1, <2>1, OneMoreRead
  <2>4. /\ Implementation(file, next) = impl /\ Section(file, next) = section
        /\ \A f, d : Section(f, d)' = Section(f, d)
        /\ \A f, d : Implementation(f, d)' = Implementation(f, d)
    BY <1>1 DEF Implementation, Section, Declaration
  <2> HIDE DEF impl
  <2>5. /\ DOMAIN extension' = DOMAIN extension
        /\ extension'[section] = Append(extension[section], impl)
        /\ \A other \in DOMAIN extension : other # section => extension'[other] = extension[other]
        /\ extension'.types = extension.types
    BY <1>1, <2>1 DEF Register, Sections
  <2>6. ImplsInv'
    <3> SUFFICES ASSUME NEW other \in Sections
                 PROVE  /\ IsList(extension'[other])
                        /\ \A i \in DOMAIN extension'[other] :
                             \E f, d : IsRead(f, d)' /\ Section(f, d)' = other
                                         /\ extension'[other][i] = Implementation(f, d)'
                        /\ \A f, d : IsRead(f, d)' /\ Section(f, d)' = other =>
                             /\ \E i \in DOMAIN extension'[other] :
                                  extension'[other][i] = Implementation(f, d)'
                             /\ TypesOf(Implementation(f, d)') \intersect {Failed, Crashed} = {}
      BY DEF ImplsInv
    <3>1. /\ IsList(extension[other])
          /\ \A i \in DOMAIN extension[other] :
               \E f, d : IsRead(f, d) /\ Section(f, d) = other
                           /\ extension[other][i] = Implementation(f, d)
          /\ \A f, d : IsRead(f, d) /\ Section(f, d) = other =>
               /\ \E i \in DOMAIN extension[other] : extension[other][i] = Implementation(f, d)
               /\ TypesOf(Implementation(f, d)) \intersect {Failed, Crashed} = {}
      BY <1>1 DEF ImplsInv
    <3>2. CASE other # section
      <4>1. extension'[other] = extension[other]
        BY <1>1, <2>5, <3>2 DEF Sections
      <4>2. \A f, d : Section(f, d) = other => (IsRead(f, d)' <=> IsRead(f, d))
        BY <2>3, <2>4, <3>2
      <4>3. QED
        BY <2>4, <3>1, <4>1, <4>2
    <3>3. CASE other = section
      <4>1. /\ IsList(extension'[other])
            /\ DOMAIN extension'[other] = DOMAIN extension[other] \union {Len(extension[other]) + 1}
            /\ \A i \in DOMAIN extension[other] : extension'[other][i] = extension[other][i]
            /\ extension'[other][Len(extension[other]) + 1] = impl
        <5> DEFINE old == extension[other]
        <5>1. IsList(old) /\ extension'[other] = Append(old, impl)
          BY <2>5, <3>1, <3>3
        <5> HIDE DEF old
        <5>2. /\ IsList(Append(old, impl))
              /\ DOMAIN Append(old, impl) = DOMAIN old \union {Len(old) + 1}
              /\ \A i \in DOMAIN old : Append(old, impl)[i] = old[i] /\ i # Len(old) + 1
              /\ Append(old, impl)[Len(old) + 1] = impl
          BY <5>1, ListGrows
        <5>3. QED
          BY <5>1, <5>2 DEF old
      <4>2. ASSUME NEW i \in DOMAIN extension'[other]
            PROVE  \E f, d : IsRead(f, d)' /\ Section(f, d)' = other
                               /\ extension'[other][i] = Implementation(f, d)'
        <5>1. CASE i \in DOMAIN extension[other]
          <6>1. PICK f, d : IsRead(f, d) /\ Section(f, d) = other
                              /\ extension[other][i] = Implementation(f, d)
            BY <3>1, <5>1
          <6>2. IsRead(f, d)' /\ Section(f, d)' = other /\ extension'[other][i] = Implementation(f, d)'
            BY <2>3, <2>4, <4>1, <5>1, <6>1
          <6>3. QED
            BY <6>2
        <5>2. CASE i = Len(extension[other]) + 1
          BY <2>3, <2>4, <3>3, <4>1, <5>2
        <5>3. QED
          BY <4>1, <5>1, <5>2
      <4>3. ASSUME NEW f, NEW d, IsRead(f, d)', Section(f, d)' = other
            PROVE  /\ \E i \in DOMAIN extension'[other] :
                        extension'[other][i] = Implementation(f, d)'
                   /\ TypesOf(Implementation(f, d)') \intersect {Failed, Crashed} = {}
        <5>1. CASE IsRead(f, d)
          BY <2>4, <3>1, <4>1, <4>3, <5>1
        <5>2. CASE f = file /\ d = next
          <6>1. Implementation(f, d)' = impl
            BY <2>4, <5>2
          <6>2. QED
            BY <1>3, <4>1, <6>1 DEF impl
        <5>3. QED
          BY <2>3, <4>3, <5>1, <5>2
      <4>4. QED
        BY <4>1, <4>2, <4>3
    <3>4. QED
      BY <3>2, <3>3
  <2>7. TypesInv'
    <3>1. \A f, d : Section(f, d) = "types" => (IsRead(f, d)' <=> IsRead(f, d))
      BY <2>3, <2>4 DEF Sections
    <3>2. QED
      BY <1>1, <2>4, <2>5, <3>1 DEF TypesInv
  <2>8. QED
    BY <1>1, <2>2, <2>5, <2>6, <2>7 DEF RegistryInv
<1>4. QED
  BY <1>2, <1>3

LEMMA AddTypeVariantKeeps == RegistryInv /\ AddTypeVariant => RegistryInv'
<1> SUFFICES ASSUME RegistryInv, AddTypeVariant PROVE RegistryInv'
  OBVIOUS
<1> DEFINE old     == extension.types
           variant == [name |-> Declaration.name, uri |-> files[file].uri]
<1>1. /\ PlaceInv /\ ImplsInv /\ TypesInv /\ DOMAIN extension = {"scalar", "aggregate", "types"}
      /\ outcome = "loading" /\ file <= Len(files) /\ next \in DOMAIN files[file].declarations
      /\ Declaration.section = "types"
      /\ UNCHANGED <<files, file, outcome>> /\ next' = next + 1
      /\ extension' = [extension EXCEPT !.types = RegisterType(@, variant)]
  BY DEF RegistryInv, AddTypeVariant, Loading
<1>2. PlaceInv'
  BY <1>1, PlaceGoesOn
<1>3. /\ \A f, d : IsRead(f, d)' <=> IsRead(f, d) \/ (f = file /\ d = next)
      /\ file \in DOMAIN files
  BY <1>1, OneMoreRead
<1>4. /\ Section(file, next) = "types"
      /\ files[file].declarations[next].name = variant.name
      /\ \A f, d : Section(f, d)' = Section(f, d)
      /\ \A f, d : Implementation(f, d)' = Implementation(f, d)
  BY <1>1 DEF Implementation, Section, Declaration
<1>5. /\ DOMAIN extension' = DOMAIN extension
      /\ extension'.types = RegisterType(old, variant)
      /\ \A section \in Sections : extension'[section] = extension[section]
  BY <1>1 DEF Sections
<1>6. /\ IsList(old)
      /\ \A i \in DOMAIN old :
           \E f, d : IsRead(f, d) /\ Section(f, d) = "types"
                       /\ old[i].name = files[f].declarations[d].name
      /\ \A f, d : IsRead(f, d) /\ Section(f, d) = "types" =>
           \E i \in DOMAIN old : old[i].name = files[f].declarations[d].name
      /\ \A i, j \in DOMAIN old : old[i].name = old[j].name => i = j
  BY <1>1 DEF TypesInv
<1> HIDE DEF old, variant
<1>7. ImplsInv'
  <2>1. \A f, d : Section(f, d) \in Sections => (IsRead(f, d)' <=> IsRead(f, d))
    BY <1>3, <1>4 DEF Sections
  <2>2. QED
    BY <1>1, <1>4, <1>5, <2>1 DEF ImplsInv
<1>8. TypesInv'
  <2>1. CASE \E i \in DOMAIN old : old[i].name = variant.name
    <3>1. extension'.types = old
      BY <1>5, <2>1 DEF RegisterType
    <3>2. QED
      BY <1>1, <1>3, <1>4, <1>6, <2>1, <3>1 DEF TypesInv
  <2>2. CASE ~\E i \in DOMAIN old : old[i].name = variant.name
    <3>1. extension'.types = Append(old, variant)
      BY <1>5, <2>2 DEF RegisterType
    <3>2. /\ IsList(extension'.types)
          /\ DOMAIN extension'.types = DOMAIN old \union {Len(old) + 1}
          /\ \A i \in DOMAIN old : extension'.types[i] = old[i] /\ i # Len(old) + 1
          /\ extension'.types[Len(old) + 1] = variant
      BY <1>6, <3>1, ListGrows
    <3>3. ASSUME NEW i \in DOMAIN extension'.types
          PROVE  \E f, d : IsRead(f, d)' /\ Section(f, d)' = "types"
                             /\ extension'.types[i].name = files[f].declarations[d].name
      BY <1>3, <1>4, <1>6, <3>2
    <3>4. ASSUME NEW f, NEW d, IsRead(f, d)', Section(f, d)' = "types"
          PROVE  \E i \in DOMAIN extension'.types :
                   extension'.types[i].name = files[f].declarations[d].name
      BY <1>3, <1>4, <1>6, <3>2, <3>4
    <3>5. ASSUME NEW i \in DOMAIN extension'.types, NEW j \in DOMAIN extension'.types,
                 extension'.types[i].name = extension'.types[j].name
          PROVE  i = j
      BY <1>6, <2>2, <3>2, <3>5
    <3>6. QED
      BY <1>1, <1>4, <3>2, <3>3, <3>4, <3>5 DEF TypesInv
  <2>3. QED
    BY <2>1, <2>2
<1>9. QED
  BY <1>1, <1>2, <1>5, <1>7, <1>8 DEF RegistryInv

LEMMA NextFileKeeps == RegistryInv /\ NextFile => RegistryInv'
<1> SUFFICES ASSUME RegistryInv, NextFile PROVE RegistryInv'
  OBVIOUS
<1>1. /\ PlaceInv /\ ImplsInv /\ TypesInv /\ DOMAIN extension = {"scalar", "aggregate", "types"}
      /\ outcome = "loading" /\ file <= Len(files)
      /\ file' = file + 1 /\ next' = 1
      /\ outcome' = IF file = Len(files) THEN "loaded" ELSE outcome
      /\ UNCHANGED <<files, extension>>
  BY DEF RegistryInv, NextFile
<1>2. file \in Nat /\ Len(files) \in Nat /\ DOMAIN files = 1..Len(files)
      /\ \A f \in DOMAIN files : Len(files[f].declarations) \in Nat
  BY <1>1, DeclarationShape
<1>3. PlaceInv'
  <2> DEFINE last == Len(files)
  <2>5. file \in 1..last /\ last \in Nat /\ outcome' = IF file = last THEN "loaded" ELSE "loading"
    <3>1. file \in 1..(last + 1)
      BY <1>1 DEF PlaceInv
    <3>2. file <= last /\ file \in Nat /\ last \in Nat
      BY <1>1, <1>2
    <3>3. outcome' = IF file = last THEN "loaded" ELSE "loading"
      BY <1>1, Zenon
    <3>4. QED
      BY <3>1, <3>2, <3>3
  <2> HIDE DEF last
  <2>1. file + 1 \in 1..(last + 1)
    BY <2>5
  <2>2. file + 1 \in DOMAIN files => 1 <= Len(files[file + 1].declarations) + 1
    BY <1>2
  <2>3. outcome' \in {"loading", "loaded"} /\ (outcome' = "loaded" <=> file + 1 = last + 1)
    BY <2>5
  <2>4. QED
    BY <1>1, <2>1, <2>2, <2>3 DEF PlaceInv, last
<1>4. /\ \A f, d : IsRead(f, d)' <=> IsRead(f, d)
      /\ \A f, d : Section(f, d)' = Section(f, d)
      /\ \A f, d : Implementation(f, d)' = Implementation(f, d)
  BY <1>1, NextFileReads DEF Section, Implementation
<1>5. ImplsInv' /\ TypesInv'
  BY <1>1, <1>4 DEF ImplsInv, TypesInv
<1>6. QED
  BY <1>1, <1>3, <1>5 DEF RegistryInv

LEMMA RegistryInvStep == RegistryInv /\ [Next]_vars => RegistryInv'
<1> SUFFICES ASSUME RegistryInv, [Next]_vars PROVE RegistryInv'
  OBVIOUS
<1>1. CASE AddScalarFunctionImpl
  BY <1>1, AddFunctionImplKeeps DEF AddScalarFunctionImpl, Sections
<1>2. CASE AddAggregateFunctionImpl
  BY <1>2, AddFunctionImplKeeps DEF AddAggregateFunctionImpl, Sections
<1>3. CASE AddTypeVariant
  BY <1>3, AddTypeVariantKeeps
<1>4. CASE NextFile
  BY <1>4, NextFileKeeps
<1>5. CASE UNCHANGED vars
  <2>1. UNCHANGED <<files, file, next, extension, outcome>>
    BY <1>5 DEF vars
  <2>2. /\ \A f, d : IsRead(f, d)' <=> IsRead(f, d)
        /\ \A f, d : Section(f, d)' = Section(f, d)
        /\ \A f, d : Implementation(f, d)' = Implementation(f, d)
    BY <2>1, SameRead
  <2>3. QED
    BY <2>1, <2>2 DEF RegistryInv, PlaceInv, ImplsInv, TypesInv
<1>6. QED
  BY <1>1, <1>2, <1>3, <1>4, <1>5 DEF Next

LEMMA RegistryInvAlways == Spec => []RegistryInv
  BY RegistryInvInit, RegistryInvStep, PTL DEF Spec

-----------------------------------------------------------------------------
(***************************************************************************)
(* What follows for the registry and the calls.                            *)
(***************************************************************************)

LEMMA ReadIs ==
  ASSUME PlaceInv, NEW x
  PROVE  x \in Read <=> \E f, d : IsRead(f, d) /\ x = files[f].declarations[d]
  BY DEF Read, IsRead

\* Two names for one implementation are one.
LEMMA ImplementationNamed ==
  ASSUME NEW f, NEW d
  PROVE  /\ Implementation(f, d).name = files[f].declarations[d].name
         /\ Implementation(f, d) # NoImplementation
<1>1. Implementation(f, d).name = files[f].declarations[d].name
  BY DEF Implementation, FunctionImplementation
<1>2. "uri" \in DOMAIN Implementation(f, d) /\ "uri" \notin DOMAIN NoImplementation
  BY DEF Implementation, FunctionImplementation, NoImplementation
<1>3. QED
  BY <1>1, <1>2

LEMMA RegistryTypes == RegistryInv => LookupTypeOK
<1> SUFFICES ASSUME RegistryInv PROVE LookupTypeOK
  OBVIOUS
<1>1. PlaceInv /\ ImplsInv /\ TypesInv
  BY DEF RegistryInv
<1>2. ASSUME NEW section \in Sections
      PROVE  /\ {extension[section][i].name : i \in DOMAIN extension[section]}
                  = {d.name : d \in {d \in Read : d.section = section}}
             /\ \A i \in DOMAIN extension[section] :
                  TypesOf(extension[section][i]) \intersect {Failed, Crashed} = {}
  <2>1. /\ \A i \in DOMAIN extension[section] :
             \E f, d : IsRead(f, d) /\ Section(f, d) = section
                         /\ extension[section][i] = Implementation(f, d)
        /\ \A f, d : IsRead(f, d) /\ Section(f, d) = section =>
             /\ \E i \in DOMAIN extension[section] : extension[section][i] = Implementation(f, d)
             /\ TypesOf(Implementation(f, d)) \intersect {Failed, Crashed} = {}
    BY <1>1 DEF ImplsInv
  <2>2. ASSUME NEW i \in DOMAIN extension[section]
        PROVE  /\ \E d \in Read : d.section = section /\ d.name = extension[section][i].name
               /\ TypesOf(extension[section][i]) \intersect {Failed, Crashed} = {}
    <3>1. PICK f, d : IsRead(f, d) /\ Section(f, d) = section
                        /\ extension[section][i] = Implementation(f, d)
      BY <2>1
    <3>2. files[f].declarations[d] \in Read
      BY <1>1, <3>1, ReadIs
    <3>3. QED
      BY <2>1, <3>1, <3>2, ImplementationNamed DEF Section
  <2>3. ASSUME NEW x \in Read, x.section = section
        PROVE  \E i \in DOMAIN extension[section] : extension[section][i].name = x.name
    <3>1. PICK f, d : IsRead(f, d) /\ x = files[f].declarations[d]
      BY <1>1, ReadIs
    <3>2. QED
      BY <2>1, <2>3, <3>1, ImplementationNamed DEF Section
  <2>4. {extension[section][i].name : i \in DOMAIN extension[section]}
          = {d.name : d \in {d \in Read : d.section = section}}
    BY <2>2, <2>3
  <2>5. QED
    BY <2>2, <2>4
<1>3. {extension.types[i].name : i \in DOMAIN extension.types}
        = {d.name : d \in {d \in Read : d.section = "types"}}
  <2>1. ASSUME NEW i \in DOMAIN extension.types
        PROVE  \E d \in Read : d.section = "types" /\ d.name = extension.types[i].name
    <3>1. PICK f, d : IsRead(f, d) /\ Section(f, d) = "types"
                        /\ extension.types[i].name = files[f].declarations[d].name
      BY <1>1 DEF TypesInv
    <3>2. files[f].declarations[d] \in Read
      BY <1>1, <3>1, ReadIs
    <3>3. QED
      BY <3>1, <3>2 DEF Section
  <2>2. ASSUME NEW x \in Read, x.section = "types"
        PROVE  \E i \in DOMAIN extension.types : extension.types[i].name = x.name
    <3>1. PICK f, d : IsRead(f, d) /\ x = files[f].declarations[d]
      BY <1>1, ReadIs
    <3>2. QED
      BY <1>1, <2>2, <3>1 DEF Section, TypesInv
  <2>3. QED
    BY <2>1, <2>2
<1>4. IsInjective([i \in DOMAIN extension.types |-> extension.types[i].name])
  BY <1>1 DEF TypesInv, IsInjective
<1>5. QED
  BY <1>1, <1>2, <1>3, <1>4 DEF LookupTypeOK, PlaceInv

\* Whatever the files declare, and in whatever order they are loaded, the
\* registry holds what was read, every implementation of it decoded, and one
\* type of each name (Extension::load, addScalarFunctionImpl,
\* addAggregateFunctionImpl, addTypeVariant).
THEOREM RegistryCorrect == Spec => []LookupTypeOK
  BY RegistryInvAlways, RegistryTypes, PTL

LEMMA FoundIfDeclared ==
  ASSUME MatchesAsWritten, RegistryInv
  PROVE  FindsWhatIsDeclared
<1> SUFFICES ASSUME NEW section \in Sections, NEW written \in Signatures
             PROVE  Answer(section, written) # NoImplementation
                      <=> \E x \in Read : /\ x.section = section /\ x.name = written.name
                                          /\ Describes(x, written)
  BY DEF FindsWhatIsDeclared
<1> DEFINE impls == extension[section]
           call  == Decoded[written]
<1>1. PlaceInv /\ ImplsInv
  BY DEF RegistryInv
<1>2. /\ IsList(impls)
      /\ \A i \in DOMAIN impls :
           \E f, d : IsRead(f, d) /\ Section(f, d) = section /\ impls[i] = Implementation(f, d)
      /\ \A f, d : IsRead(f, d) /\ Section(f, d) = section =>
           /\ \E i \in DOMAIN impls : impls[i] = Implementation(f, d)
           /\ TypesOf(Implementation(f, d)) \intersect {Failed, Crashed} = {}
  BY <1>1 DEF ImplsInv
<1>3. call.name = written.name
  BY DEF Decoded, Signature
<1>4. Answer(section, written) = LookupFunction(impls, call)
  BY DEF Answer
<1> HIDE DEF impls, call
<1>5. \A i \in DOMAIN impls : impls[i] # NoImplementation
  BY <1>2, ImplementationNamed
<1>6. Answer(section, written) # NoImplementation
        <=> \E i \in DOMAIN impls : impls[i].name = written.name /\ TryMatch(impls[i], call)
  BY <1>2, <1>3, <1>4, <1>5, LookupFinds
<1>7. ASSUME NEW f, NEW d, IsRead(f, d), Section(f, d) = section
      PROVE  TryMatch(Implementation(f, d), call) <=> Describes(files[f].declarations[d], written)
  <2>1. files \in Loads /\ files[f] \in ToSet(files)
        /\ files[f].declarations[d] \in ToSet(files[f].declarations)
    BY <1>1, <1>7 DEF PlaceInv, IsRead, ToSet
  <2>2. /\ files[f].declarations[d].section \in Sections
        /\ TypesOf(FunctionImplementation(files[f].declarations[d], files[f].uri))
             \intersect {Failed, Crashed} = {}
    BY <1>2, <1>7 DEF Section, Implementation
  <2>3. QED
    BY <2>1, <2>2 DEF MatchesAsWritten, Implementation, call
<1>8. ASSUME NEW i \in DOMAIN impls, impls[i].name = written.name, TryMatch(impls[i], call)
      PROVE  \E x \in Read : x.section = section /\ x.name = written.name /\ Describes(x, written)
  <2>1. PICK f, d : IsRead(f, d) /\ Section(f, d) = section /\ impls[i] = Implementation(f, d)
    BY <1>2
  <2>2. files[f].declarations[d] \in Read
    BY <1>1, <2>1, ReadIs
  <2>3. Describes(files[f].declarations[d], written)
    BY <1>7, <1>8, <2>1
  <2>4. QED
    BY <1>8, <2>1, <2>2, <2>3, ImplementationNamed DEF Section
<1>9. ASSUME NEW x \in Read, x.section = section, x.name = written.name, Describes(x, written)
      PROVE  \E i \in DOMAIN impls : impls[i].name = written.name /\ TryMatch(impls[i], call)
  <2>1. PICK f, d : IsRead(f, d) /\ x = files[f].declarations[d]
    BY <1>1, ReadIs
  <2>2. Section(f, d) = section
    BY <1>9, <2>1 DEF Section
  <2>3. PICK i \in DOMAIN impls : impls[i] = Implementation(f, d)
    BY <1>2, <2>1, <2>2
  <2>4. TryMatch(impls[i], call)
    BY <1>7, <1>9, <2>1, <2>2, <2>3
  <2>5. QED
    BY <1>9, <2>1, <2>3, <2>4, ImplementationNamed
<1>10. QED
  BY <1>6, <1>8, <1>9

\* If every declaration taken by itself takes the calls it says it takes, then
\* so does the registry, after every declaration read: no overload is lost,
\* none takes the calls of a name that is not its own, and none that failed
\* to decode is asked (FunctionLookup::lookupFunction).
THEOREM DeclaredIsFound == MatchesAsWritten => (Spec => []FindsWhatIsDeclared)
<1> SUFFICES ASSUME MatchesAsWritten PROVE Spec => []FindsWhatIsDeclared
  OBVIOUS
<1>1. RegistryInv => FindsWhatIsDeclared
  BY FoundIfDeclared
<1>2. QED
  BY <1>1, RegistryInvAlways, PTL

-----------------------------------------------------------------------------
(***************************************************************************)
(* The first of a name stays the first.                                    *)
(***************************************************************************)

LEMMA TypeStays ==
  ASSUME NEW types, IsList(types), NEW type, NEW i \in DOMAIN types
  PROVE  LookupType(RegisterType(types, type), types[i].name) = LookupType(types, types[i].name)
<1> DEFINE name     == types[i].name
           found(s) == {j \in DOMAIN s : s[j].name = name}
           more     == Append(types, type)
<1>1. \A s : LookupType(s, name) =
        IF found(s) = {} THEN NoImplementation
        ELSE s[CHOOSE k \in found(s) : \A j \in found(s) : k <= j]
  BY DEF LookupType
<1>2. CASE RegisterType(types, type) = types
  BY <1>2
<1>3. CASE RegisterType(types, type) = more
  <2>1. /\ DOMAIN more = DOMAIN types \union {Len(types) + 1}
        /\ \A j \in DOMAIN types : more[j] = types[j] /\ j \in Nat /\ j < Len(types) + 1
        /\ Len(types) \in Nat
    BY DEF IsList
  <2> HIDE DEF more
  <2>2. /\ found(types) \in SUBSET Nat /\ found(types) \subseteq DOMAIN types
        /\ found(more) \in SUBSET Nat
        /\ found(types) \subseteq found(more)
        /\ found(more) \subseteq found(types) \union {Len(types) + 1}
        /\ found(types) # {}
    BY <2>1
  <2> HIDE DEF found
  <2>3. PICK k \in found(types) : \A j \in found(types) : k <= j
    BY <2>2, LeastIsThere
  <2>4. k \in found(more) /\ \A j \in found(more) : k <= j
    BY <2>1, <2>2, <2>3
  <2>5. /\ (CHOOSE m \in found(types) : \A j \in found(types) : m <= j) = k
        /\ (CHOOSE m \in found(more) : \A j \in found(more) : m <= j) = k
    BY <2>2, <2>3, <2>4, LeastIs
  <2>6. LookupType(types, name) = types[k] /\ LookupType(more, name) = more[k]
    BY <1>1, <2>2, <2>4, <2>5
  <2>7. QED
    BY <1>3, <2>1, <2>2, <2>3, <2>6
<1>4. QED
  BY <1>2, <1>3 DEF RegisterType

\* What a step changes in the registry: one vector grows by one
\* implementation, or the types by one.
LEMMA RegistryStep ==
  ASSUME RegistryInv, [Next]_vars
  PROVE  /\ \A section \in Sections :
              extension'[section] = extension[section]
                \/ \E impl : extension'[section] = Register(extension[section], impl)
         /\ extension'.types = extension.types
              \/ \E type : extension'.types = RegisterType(extension.types, type)
<1>1. DOMAIN extension = {"scalar", "aggregate", "types"}
  BY DEF RegistryInv
<1>2. ASSUME NEW section \in Sections, AddFunctionImpl(section)
      PROVE  \/ UNCHANGED extension
             \/ \E impl : extension' = [extension EXCEPT ![section] = Register(@, impl)]
  BY <1>2 DEF AddFunctionImpl
<1>3. ASSUME NEW section \in Sections, NEW impl,
             extension' = [extension EXCEPT ![section] = Register(@, impl)]
      PROVE  /\ extension'[section] = Register(extension[section], impl)
             /\ \A other \in Sections : other # section => extension'[other] = extension[other]
             /\ extension'.types = extension.types
  BY <1>1, <1>3 DEF Sections
<1>4. CASE AddScalarFunctionImpl \/ AddAggregateFunctionImpl
  <2>1. PICK section \in Sections : AddFunctionImpl(section)
    BY <1>4 DEF AddScalarFunctionImpl, AddAggregateFunctionImpl, Sections
  <2>2. CASE UNCHANGED extension
    BY <2>2
  <2>3. CASE \E impl : extension' = [extension EXCEPT ![section] = Register(@, impl)]
    <3>1. PICK impl : extension' = [extension EXCEPT ![section] = Register(@, impl)]
      BY <2>3
    <3>2. QED
      BY <1>3, <3>1
  <2>4. QED
    BY <1>2, <2>1, <2>2, <2>3
<1>5. CASE AddTypeVariant
  <2>1. PICK type : extension' = [extension EXCEPT !.types = RegisterType(@, type)]
    BY <1>5 DEF AddTypeVariant
  <2>2. extension'.types = RegisterType(extension.types, type)
        /\ \A section \in Sections : extension'[section] = extension[section]
    BY <1>1, <2>1 DEF Sections
  <2>3. QED
    BY <2>2
<1>6. CASE NextFile \/ UNCHANGED vars
  BY <1>6 DEF NextFile, vars
<1>7. QED
  BY <1>4, <1>5, <1>6 DEF Next

LEMMA AnswersStayStep ==
  ASSUME RegistryInv, [Next]_vars
  PROVE  /\ \A section \in Sections, written \in Signatures :
              Answer(section, written) # NoImplementation
                => Answer(section, written)' = Answer(section, written)
         /\ \A i \in DOMAIN extension.types :
              LET name == extension.types[i].name
              IN LookupType(extension'.types, name) = LookupType(extension.types, name)
<1>1. ASSUME NEW section \in Sections, NEW written \in Signatures,
             Answer(section, written) # NoImplementation
      PROVE  Answer(section, written)' = Answer(section, written)
  <2>1. IsList(extension[section])
    BY DEF RegistryInv, ImplsInv
  <2>2. CASE extension'[section] = extension[section]
    BY <2>2 DEF Answer
  <2>3. CASE \E impl : extension'[section] = Register(extension[section], impl)
    <3>1. PICK impl : extension'[section] = Register(extension[section], impl)
      BY <2>3
    <3>2. QED
      BY <1>1, <2>1, <3>1, LookupStays DEF Answer
  <2>4. QED
    BY <2>2, <2>3, RegistryStep
<1>2. ASSUME NEW i \in DOMAIN extension.types
      PROVE  LookupType(extension'.types, extension.types[i].name)
               = LookupType(extension.types, extension.types[i].name)
  <2>1. IsList(extension.types)
    BY DEF RegistryInv, TypesInv
  <2>2. QED
    BY <2>1, RegistryStep, TypeStays
<1>3. QED
  BY <1>1, <1>2

\* No declaration read later, in this file or another, changes what a call
\* that found an implementation finds, nor the file that the type of a name
\* is from (std::map::insert keeps the entry, emplace_back the order).
THEOREM FirstDeclaredStays == Spec => AnswersStay
<1>1. RegistryInv /\ [Next]_vars =>
        [/\ \A section \in Sections, written \in Signatures :
              Answer(section, written) # NoImplementation
                => Answer(section, written)' = Answer(section, written)
         /\ \A i \in DOMAIN extension.types :
              LET name == extension.types[i].name
              IN LookupType(extension'.types, name) = LookupType(extension.types, name)]_vars
  BY AnswersStayStep
<1>2. QED
  BY <1>1, RegistryInvAlways, PTL DEF Spec, AnswersStay
=============================================================================
