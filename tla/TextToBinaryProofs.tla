-------------------------- MODULE TextToBinaryProofs --------------------------
(***************************************************************************)
(* What the parser makes of any text: the symbols and links of every text  *)
(* are well formed, an accepted text has lost no arrow, and no pipeline of *)
(* it is endless.                                                          *)
(***************************************************************************)
EXTENDS TextToBinary, SymbolTableLemmas

(***************************************************************************)
(* The inductive invariant, in three layers: the table and the visits that *)
(* are left, which do not depend on the links; the links are well formed;  *)
(* the links of a text without errors are its arrows.                      *)
(***************************************************************************)

Lines == DOMAIN text.pipelines
Names(l) == 1..Len(text.pipelines[l])

Named(l, k) == LookupSymbolByName(table, text.pipelines[l][k])

\* The visits a stage can have left to make.
VisitsOf(s) ==
  IF s = "symbols"
  THEN {Visit("relation", i, 0) : i \in DOMAIN text.relations}
         \union {Visit("root", i, 0) : i \in DOMAIN text.roots}
  ELSE IF s = "pipelines"
  THEN UNION {{Visit(what, l, k) : what \in {"name", "link"}, k \in Names(l)} :
                l \in Lines}
  ELSE IF s = "relations"
  THEN {Visit("relation", i, 0) : i \in DOMAIN text.relations}
         \union UNION {{Visit("subquery", i, k) : k \in DOMAIN text.relations[i].uses} :
                         i \in {j \in DOMAIN text.relations : RelationAt(j) # NoSymbol}}
  ELSE IF s = "details"
  THEN {Visit("details", i, 0) : i \in DOMAIN text.relations}
  ELSE IF s = "subqueries"
  THEN {Visit("details", i, 0) : i \in DOMAIN text.relations}
         \union UNION {{Visit("use", i, k) : k \in DOMAIN text.relations[i].uses} :
                         i \in DOMAIN text.relations}
  ELSE {}

\* On the stack of visitPipeline lies what follows: the names of the line to
\* the right, then the lines below.
After(v) ==
  IF v.k < Len(text.pipelines[v.i])
  THEN Visit("link", v.i, v.k + 1)
  ELSE VisitLine(v.i + 1)

IsLast(v) == v.i = Len(text.pipelines) /\ v.k = Len(text.pipelines[v.i])

Stacked(s) ==
  s # << >> =>
    /\ \A p \in 1..(Len(s) - 1) : s[p + 1] = After(s[p])
    /\ IsLast(s[Len(s)])

TodoInv ==
  /\ todo \in Seq(VisitsOf(stage))
  /\ stage = "pipelines" => Stacked(todo)

\* Which names have been looked up, and which have been linked.
LookedUp(l, k) ==
  \/ PipelinesRead
  \/ /\ stage = "pipelines"
     /\ \/ todo = << >>
        \/ l < I
        \/ l = I /\ (Head(todo).what = "link" \/ k > K)

LinkedYet(l, k) ==
  \/ PipelinesRead
  \/ /\ stage = "pipelines"
     /\ \/ todo = << >>
        \/ l < I
        \/ l = I /\ Head(todo).what = "link" /\ k < K

\* All symbols are relations, except the one that has the names of the root.
TypesByName(t) ==
  \A s \in DOMAIN t.symbols :
    t.symbols[s].type = IF t.symbols[s].name = "root.names" THEN "root" ELSE "relation"

\* Where the parser has been on a line it has recorded one symbol, the one of
\* the name there.
PlacesInv ==
  \A l \in Lines : \A k \in Names(l) :
    /\ LookedUp(l, k) => Named(l, k) # NoSymbol
    /\ ~PipelinesRead =>
         ValuesAt(table.byLocation, PipelineLocation(l, k)) =
           IF LookedUp(l, k) THEN <<Named(l, k)>> ELSE << >>

Stages == {"open", "symbols", "pipelines", "relations", "details", "subqueries",
           "build", "done"}

TableInv ==
  /\ IsText(text)
  /\ stage \in Stages
  /\ TodoInv
  /\ NamedTable(table)
  /\ TypesByName(table)
  /\ PlacesInv

Blobs ==
  [ pipelineStart      : RelationSymbols \union {NoSymbol},
    continuingPipeline : RelationSymbols \union {NoSymbol},
    newPipelines       : Seq(RelationSymbols),
    subQueryPipelines  : Seq(RelationSymbols),
    relation           : 0..Len(text.relations),
    names              : {<< >>} \union ToSet(text.roots) ]

DataInv == data \in Seq(Blobs) /\ DOMAIN data = DOMAIN table.symbols

Reported == {AlreadyDefined, SecondRoot, RootTaken, NonTerminating, InPipeline,
             WentMissing, NotAnExpression, NotFound}

ResultInv ==
  /\ errors \subseteq Reported
  /\ output.status \in {"unbuilt", "refused", "failed", "diverges", "built"}
  /\ stage = "done" <=> output # NotBuilt

TypesInv == TableInv /\ DataInv /\ ResultInv

\* The arrow to the k-th name of a line is a link.
ArrowKept(l, k) ==
  IF k < Len(text.pipelines[l])
  THEN data[Named(l, k)].continuingPipeline = Named(l, k - 1)
  ELSE \E i \in DOMAIN data[Named(l, k)].newPipelines :
         data[Named(l, k)].newPipelines[i] = Named(l, k - 1)

\* On the line being linked, no name that is linked comes again, and the
\* first continues nothing.
LineInv ==
  stage = "pipelines" /\ todo # << >> /\ Head(todo).what = "link" =>
    /\ \A j \in 1..(K - 1) : ~ContinuingPipelineContains(text.pipelines[I], j,
                                                         text.pipelines[I][j])
    /\ K > 1 => data[Named(I, 1)].continuingPipeline = NoSymbol

ArrowsInv ==
  errors = {} =>
    /\ \A l \in Lines : \A k \in Names(l) :
         k > 1 /\ LinkedYet(l, k) => ArrowKept(l, k)
    /\ LineInv

LinksInv == ArrowsInv /\ PipelinesEnd

-----------------------------------------------------------------------------
(***************************************************************************)
(* Texts and visits.                                                       *)
(***************************************************************************)

LEMMA TextShape ==
  ASSUME IsText(text)
  PROVE  /\ Len(text.pipelines) \in Nat
         /\ Lines = 1..Len(text.pipelines)
         /\ \A l \in Lines :
              /\ Len(text.pipelines[l]) \in Nat \ {0}
              /\ \A k \in Names(l) : text.pipelines[l][k] # "root.names"
<1>1. /\ Len(text.pipelines) \in Nat
      /\ Lines = 1..Len(text.pipelines)
      /\ \A l \in Lines : text.pipelines[l] \in ToSet(text.pipelines)
  BY SequenceHas DEF IsText, Lines
<1>2. ASSUME NEW l \in Lines
      PROVE  /\ Len(text.pipelines[l]) \in Nat \ {0}
             /\ \A k \in Names(l) : text.pipelines[l][k] # "root.names"
  <2> DEFINE line == text.pipelines[l]
  <2>1. IsSequence(line) /\ line # << >> /\ "root.names" \notin ToSet(line)
    BY <1>1 DEF IsText
  <2> HIDE DEF line
  <2>2. /\ Len(line) \in Nat
        /\ \A k \in 1..Len(line) : line[k] \in ToSet(line)
    BY <2>1, SequenceHas
  <2>3. Len(line) # 0
    BY <2>1 DEF IsSequence
  <2>4. QED
    BY <2>1, <2>2, <2>3 DEF line, Names
<1>3. QED
  BY <1>1, <1>2

LEMMA RelationShape ==
  ASSUME IsText(text), NEW i \in DOMAIN text.relations
  PROVE  /\ text.relations[i].name # "root.names"
         /\ IsSequence(text.relations[i].exprs)
         /\ ToSet(text.relations[i].exprs) \subseteq DOMAIN text.relations[i].uses
         /\ IsSequence(text.relations[i].uses)
         /\ \A k \in DOMAIN text.relations[i].uses :
              /\ text.relations[i].uses[k].relation # "root.names"
              /\ IsSequence(text.relations[i].uses[k].exprs)
              /\ ToSet(text.relations[i].uses[k].exprs)
                   \subseteq DOMAIN text.relations[i].uses
<1> DEFINE relation == text.relations[i]
<1>1. relation \in ToSet(text.relations)
  BY SequenceHas DEF IsText
<1>2. \A k \in DOMAIN relation.uses : relation.uses[k] \in ToSet(relation.uses)
  BY DEF ToSet
<1>3. QED
  BY <1>1, <1>2 DEF IsText

\* A list with a domain 1..n.
LEMMA ListOf ==
  ASSUME NEW n \in Nat, NEW V, NEW s, s = [i \in 1..n |-> s[i]],
         \A i \in 1..n : s[i] \in V
  PROVE  s \in Seq(V) /\ Len(s) = n
<1>1. s \in [1..n -> V]
  OBVIOUS
<1>2. QED
  BY <1>1

LEMMA EachVisit ==
  ASSUME IsText(text), NEW what, NEW V,
         \A i \in DOMAIN text.relations : Visit(what, i, 0) \in V
  PROVE  VisitEach(what) \in Seq(V)
<1> DEFINE all == VisitEach(what)
<1>1. /\ Len(text.relations) \in Nat
      /\ DOMAIN text.relations = 1..Len(text.relations)
  BY SequenceHas DEF IsText
<1>2. \A i \in 1..Len(text.relations) : all[i] \in V
  BY <1>1 DEF VisitEach
<1>3. all = [i \in 1..Len(text.relations) |-> all[i]]
  BY <1>1 DEF VisitEach
<1> HIDE DEF all
<1>4. QED
  BY <1>1, <1>2, <1>3, ListOf DEF all

\* What is left when the visitor goes on.
LEMMA LeftToDo ==
  ASSUME NEW V, NEW s \in Seq(V), s # << >>
  PROVE  /\ Head(s) \in V
         /\ Head(s) = s[1]
         /\ Len(s) \in Nat \ {0}
         /\ Tail(s) \in Seq(V)
         /\ Len(Tail(s)) = Len(s) - 1
         /\ \A p \in 1..(Len(s) - 1) : Tail(s)[p] = s[p + 1]
OBVIOUS

\* A stack less its top, and with one visit more.
LEMMA StackPops ==
  ASSUME NEW V, NEW s \in Seq(V), Stacked(s), s # << >>
  PROVE  /\ Stacked(Tail(s))
         /\ IF Tail(s) = << >> THEN IsLast(Head(s))
            ELSE Head(Tail(s)) = After(Head(s))
<1> DEFINE t == Tail(s)
           n == Len(s)
<1>1. /\ n \in Nat \ {0}
      /\ t \in Seq(V)
      /\ Len(t) = n - 1
      /\ \A p \in 1..(n - 1) : t[p] = s[p + 1]
      /\ Head(s) = s[1]
  BY LeftToDo
<1>2. (\A p \in 1..(n - 1) : s[p + 1] = After(s[p])) /\ IsLast(s[n])
  BY DEF Stacked
<1> HIDE DEF t, n
<1>3. CASE t = << >>
  <2>1. n = 1
    BY <1>1, <1>3
  <2>2. QED
    BY <1>1, <1>2, <1>3, <2>1 DEF Stacked, t
<1>4. CASE t # << >>
  <2>1. n > 1 /\ t[n - 1] = s[n]
    BY <1>1, <1>4
  <2>2. Head(t) = t[1] /\ t[1] = s[2] /\ s[2] = After(s[1])
    BY <1>1, <1>2, <1>4, <2>1
  <2>3. ASSUME NEW p \in 1..(Len(t) - 1)
        PROVE  t[p + 1] = After(t[p])
    <3>1. p \in 1..(n - 1) /\ p + 1 \in 1..(n - 1)
      BY <1>1
    <3>2. t[p] = s[p + 1] /\ t[p + 1] = s[p + 1 + 1]
      BY <1>1, <3>1
    <3>3. QED
      BY <1>2, <3>1, <3>2
  <2>4. QED
    BY <1>1, <1>2, <1>4, <2>1, <2>2, <2>3 DEF Stacked, t
<1>5. QED
  BY <1>3, <1>4

LEMMA StackPushed ==
  ASSUME NEW V, NEW s \in Seq(V), Stacked(s), NEW v \in V,
         IF s = << >> THEN IsLast(v) ELSE Head(s) = After(v)
  PROVE  /\ Stacked(<<v>> \o s)
         /\ <<v>> \o s \in Seq(V)
         /\ Head(<<v>> \o s) = v
         /\ <<v>> \o s # << >>
<1> DEFINE t == <<v>> \o s
           n == Len(s)
<1>1. /\ n \in Nat
      /\ t \in Seq(V)
      /\ Len(t) = n + 1
      /\ t[1] = v
      /\ \A p \in 1..n : t[p + 1] = s[p]
  OBVIOUS
<1>2. t # << >> /\ Head(t) = v
  BY <1>1
<1> HIDE DEF t, n
<1>3. CASE s = << >>
  <2>1. n = 0
    BY <1>3 DEF n
  <2>2. QED
    BY <1>1, <1>2, <1>3, <2>1 DEF Stacked, t
<1>4. CASE s # << >>
  <2>1. /\ n > 0
        /\ \A p \in 1..(n - 1) : s[p + 1] = After(s[p])
        /\ IsLast(s[n])
        /\ Head(s) = s[1]
    BY <1>4 DEF Stacked, n
  <2>2. ASSUME NEW p \in 1..n
        PROVE  t[p + 1] = After(t[p])
    <3>1. CASE p = 1
      BY <1>1, <1>4, <2>1, <3>1
    <3>2. CASE p > 1
      <4>1. p - 1 \in 1..(n - 1) /\ p - 1 \in 1..n
        BY <1>1, <3>2
      <4>2. t[p - 1 + 1] = s[p - 1] /\ t[p + 1] = s[p]
        BY <1>1, <4>1
      <4>3. s[p - 1 + 1] = After(s[p - 1])
        BY <2>1, <4>1
      <4>4. QED
        BY <1>1, <4>2, <4>3
    <3>3. QED
      BY <1>1, <3>1, <3>2
  <2>3. t[n + 1] = s[n]
    BY <1>1, <2>1
  <2>4. QED
    BY <1>1, <1>2, <2>1, <2>2, <2>3 DEF Stacked, t
<1>5. QED
  BY <1>3, <1>4

\* The visit to a line, and the one that comes next on the stack.
LEMMA OnLine ==
  ASSUME TableInv, stage = "pipelines", todo # << >>
  PROVE  /\ I \in Lines /\ K \in Names(I)
         /\ Head(todo).what \in {"name", "link"}
         /\ Head(todo) = Visit(Head(todo).what, I, K)
         /\ Tail(todo) \in Seq(VisitsOf("pipelines"))
         /\ Stacked(Tail(todo))
         /\ IF Tail(todo) = << >>
            THEN I = Len(text.pipelines) /\ K = Len(text.pipelines[I])
            ELSE Head(Tail(todo)) = After(Head(todo))
<1> DEFINE V == VisitsOf("pipelines")
<1>1. todo \in Seq(V) /\ Stacked(todo)
  BY DEF TableInv, TodoInv
<1>2. \A v \in V : /\ v.i \in Lines /\ v.k \in Names(v.i)
                   /\ v.what \in {"name", "link"}
                   /\ v = Visit(v.what, v.i, v.k)
  BY DEF VisitsOf, Visit
<1> HIDE DEF V
<1>3. Head(todo) \in V /\ Tail(todo) \in Seq(V)
  BY <1>1, LeftToDo
<1>4. /\ Stacked(Tail(todo))
      /\ IF Tail(todo) = << >> THEN IsLast(Head(todo))
         ELSE Head(Tail(todo)) = After(Head(todo))
  BY <1>1, StackPops
<1>5. QED
  BY <1>2, <1>3, <1>4 DEF I, K, V, IsLast

\* When the stack loses its top it still ends where it ended.
LEMMA StackGoesOn ==
  ASSUME TableInv, stage = "pipelines", todo # << >>,
         UNCHANGED <<text, stage>>, todo' = Tail(todo)
  PROVE  TodoInv'
<1>1. VisitsOf(stage)' = VisitsOf("pipelines")
  BY DEF VisitsOf, Lines, Names, Visit
<1>2. Stacked(todo)' <=> Stacked(todo')
  BY DEF Stacked, IsLast, After, VisitLine
<1>3. QED
  BY <1>1, <1>2, OnLine DEF TodoInv

\* When the visitor goes to the left, what it came from lies below.
LEMMA StackDescends ==
  ASSUME TableInv, stage = "pipelines", todo # << >>,
         Head(todo).what = "name",
         UNCHANGED <<text, stage>>, todo' = VisitLeft(I, K) \o Tail(todo)
  PROVE  /\ TodoInv'
         /\ todo' # << >>
         /\ Head(todo') = IF K > 1 THEN Visit("name", I, K - 1) ELSE Visit("link", I, K)
<1> DEFINE V    == VisitsOf("pipelines")
           link == Visit("link", I, K)
           name == Visit("name", I, K - 1)
           rest == Tail(todo)
<1>1. /\ I \in Lines /\ K \in Names(I)
      /\ rest \in Seq(V) /\ Stacked(rest)
      /\ Head(todo) = Visit("name", I, K)
      /\ IF rest = << >>
         THEN I = Len(text.pipelines) /\ K = Len(text.pipelines[I])
         ELSE Head(rest) = After(Head(todo))
  BY OnLine
<1>2. Len(text.pipelines[I]) \in Nat /\ K \in Nat \ {0}
  BY <1>1, TextShape DEF TableInv, Names
<1>3. link \in V
  BY <1>1 DEF VisitsOf
<1>4. IF rest = << >> THEN IsLast(link) ELSE Head(rest) = After(link)
  BY <1>1 DEF IsLast, After, Visit
<1>5. K > 1 => name \in V /\ After(name) = link
  <2>1. K > 1 => K - 1 \in Names(I) /\ K - 1 < Len(text.pipelines[I])
    BY <1>1, <1>2 DEF Names
  <2>2. QED
    BY <1>1, <1>2, <2>1 DEF VisitsOf, After, Visit
<1>6. VisitsOf(stage)' = V /\ (Stacked(todo)' <=> Stacked(todo'))
  BY DEF VisitsOf, Lines, Names, Visit, Stacked, IsLast, After, VisitLine
<1> HIDE DEF V, link, name, rest
<1> DEFINE one == <<link>> \o rest
           two == <<name>> \o one
<1>7. Stacked(one) /\ one \in Seq(V) /\ Head(one) = link /\ one # << >>
  BY <1>1, <1>3, <1>4, StackPushed
<1> HIDE DEF one
<1>8. CASE K > 1
  <2>1. Stacked(two) /\ two \in Seq(V) /\ Head(two) = name /\ two # << >>
    BY <1>5, <1>7, <1>8, StackPushed
  <2>2. VisitLeft(I, K) = <<name>> \o <<link>>
    BY <1>8 DEF VisitLeft, name, link
  <2>3. <<name>> \in Seq(V) /\ <<link>> \in Seq(V)
    BY <1>3, <1>5, <1>8
  <2>4. todo' = two
    BY <1>1, <2>2, <2>3, ConcatAssociative DEF rest, one
  <2> HIDE DEF two
  <2>5. QED
    BY <1>6, <1>8, <2>1, <2>4 DEF TodoInv, name, V
<1>9. CASE ~(K > 1)
  <2>1. VisitLeft(I, K) = <<link>>
    BY <1>9 DEF VisitLeft, link
  <2>2. todo' = one
    BY <2>1 DEF rest, one
  <2>3. QED
    BY <1>6, <1>7, <1>9, <2>2 DEF TodoInv, link, V
<1>10. QED
  BY <1>8, <1>9

-----------------------------------------------------------------------------
(***************************************************************************)
(* The table.                                                              *)
(***************************************************************************)

LEMMA PlacesStep ==
  ASSUME UNCHANGED text,
         \A l \in Lines : \A k \in Names(l) :
           /\ LookedUp(l, k)' => Named(l, k)' # NoSymbol
           /\ ~PipelinesRead' =>
                ValuesAt(table'.byLocation, PipelineLocation(l, k)) =
                  IF LookedUp(l, k)' THEN <<Named(l, k)'>> ELSE << >>
  PROVE  PlacesInv'
<1>1. Lines' = Lines /\ \A l \in Lines : Names(l)' = Names(l)
  BY DEF Lines, Names
<1>2. QED
  BY <1>1 DEF PlacesInv, PipelineLocation

\* What a step has to show of the table if it looks up no name of a line.
LEMMA TableStep ==
  ASSUME TableInv, text' = text, stage' \in Stages, TodoInv',
         NamedTable(table'), TypesByName(table'), Keeps(table, table'),
         PipelinesRead => PipelinesRead',
         \A l \in Lines : \A k \in Names(l) :
           /\ LookedUp(l, k)' <=> LookedUp(l, k)
           /\ ~PipelinesRead' =>
                ValuesAt(table'.byLocation, PipelineLocation(l, k))
                  = ValuesAt(table.byLocation, PipelineLocation(l, k))
  PROVE  TableInv'
<1>1. ASSUME NEW l \in Lines, NEW k \in Names(l)
      PROVE  /\ LookedUp(l, k)' => Named(l, k)' # NoSymbol
             /\ ~PipelinesRead' =>
                  ValuesAt(table'.byLocation, PipelineLocation(l, k)) =
                    IF LookedUp(l, k)' THEN <<Named(l, k)'>> ELSE << >>
  <2>1. LookedUp(l, k) => Named(l, k) # NoSymbol
    BY DEF TableInv, PlacesInv
  <2>2. LookedUp(l, k) => Named(l, k)' = Named(l, k)
    BY <2>1, KeepsFinds DEF TableInv, Named
  <2>3. QED
    BY <2>1, <2>2 DEF TableInv, PlacesInv
<1>2. PlacesInv'
  BY <1>1, PlacesStep
<1>3. QED
  BY <1>2 DEF TableInv

LEMMA TypesKept ==
  ASSUME NEW t, NEW u, TypesByName(t), Keeps(t, u), DOMAIN u.symbols = DOMAIN t.symbols
  PROVE  TypesByName(u)
BY DEF TypesByName, Keeps, SameSymbol

\* A step that leaves the table alone and looks up no name of a line.
LEMMA SameTable ==
  ASSUME TableInv, UNCHANGED <<text, table>>, stage' \in Stages, TodoInv',
         PipelinesRead => PipelinesRead',
         \A l \in Lines : \A k \in Names(l) : LookedUp(l, k)' <=> LookedUp(l, k)
  PROVE  TableInv' /\ Keeps(table, table')
<1>1. Keeps(table, table')
  BY KeepsItself
<1>2. TypesByName(table') /\ NamedTable(table')
  BY DEF TableInv
<1>3. QED
  BY <1>1, <1>2, TableStep

\* A visit outside the lines, with what the visitor descends into.
LEMMA TodoStep ==
  ASSUME TableInv, todo # << >>, stage # "pipelines", stage' = stage,
         VisitsOf(stage)' = VisitsOf(stage),
         NEW into \in Seq(VisitsOf(stage)),
         todo' = Tail(todo) \/ todo' = into \o Tail(todo)
  PROVE  TodoInv'
<1>1. Tail(todo) \in Seq(VisitsOf(stage))
  BY LeftToDo DEF TableInv, TodoInv
<1>2. into \o Tail(todo) \in Seq(VisitsOf(stage))
  BY <1>1
<1>3. QED
  BY <1>1, <1>2 DEF TodoInv

LEMMA BeginSymbolsTable ==
  ASSUME TableInv, BeginSymbols
  PROVE  TableInv' /\ Keeps(table, table')
<1> DEFINE V == VisitsOf("symbols")
           first == VisitEach("relation")
           second == [i \in DOMAIN text.roots |-> Visit("root", i, 0)]
<1>1. /\ stage = "open" /\ stage' = "symbols" /\ UNCHANGED <<text, table>>
      /\ todo' = first \o second
  BY DEF BeginSymbols
<1>2. first \in Seq(V)
  BY EachVisit DEF TableInv, VisitsOf
<1>3. second \in Seq(V)
  <2>1. Len(text.roots) \in Nat /\ DOMAIN text.roots = 1..Len(text.roots)
    BY SequenceHas DEF TableInv, IsText
  <2>2. \A i \in 1..Len(text.roots) : second[i] \in V
    BY <2>1 DEF VisitsOf
  <2>3. second = [i \in 1..Len(text.roots) |-> second[i]]
    BY <2>1
  <2> HIDE DEF second, V
  <2>4. QED
    BY <2>1, <2>2, <2>3, ListOf
<1>4. todo' \in Seq(V)
  BY <1>1, <1>2, <1>3
<1>5. VisitsOf(stage)' = V
  BY <1>1 DEF VisitsOf
<1>6. TodoInv'
  BY <1>1, <1>4, <1>5 DEF TodoInv
<1>7. stage' \in Stages /\ ~PipelinesRead /\ ~PipelinesRead'
  BY <1>1 DEF Stages, PipelinesRead
<1>8. \A l \in Lines : \A k \in Names(l) : LookedUp(l, k)' <=> LookedUp(l, k)
  BY <1>1, <1>7 DEF LookedUp
<1>9. QED
  BY <1>1, <1>6, <1>7, <1>8, SameTable

\* Defining a symbol of the right type elsewhere than on a line.
LEMMA DefinedElsewhere ==
  ASSUME NEW t, NamedTable(t), NEW name, NEW l, NEW type,
         LookupSymbolByName(t, name) = NoSymbol,
         type = (IF name = "root.names" THEN "root" ELSE "relation"),
         TypesByName(t)
  PROVE  LET u == DefineSymbol(t, name, l, type)
         IN /\ NamedTable(u)
            /\ Keeps(t, u)
            /\ TypesByName(u)
            /\ u.byLocation = InsertMulti(t.byLocation, l, Len(t.symbols) + 1)
<1> DEFINE u == DefineSymbol(t, name, l, type)
           n == Len(t.symbols) + 1
<1>1. /\ NamedTable(u)
      /\ Keeps(t, u)
      /\ DOMAIN u.symbols = DOMAIN t.symbols \union {n}
      /\ \A s \in DOMAIN t.symbols : u.symbols[s] = t.symbols[s]
      /\ u.symbols[n] = NewSymbol(name, l, type)
      /\ u.byLocation = InsertMulti(t.byLocation, l, n)
  BY NamedDefine
<1>2. NewSymbol(name, l, type).name = name /\ NewSymbol(name, l, type).type = type
  BY DEF NewSymbol
<1> HIDE DEF u, n
<1>3. TypesByName(u)
  BY <1>1, <1>2 DEF TypesByName
<1>4. QED
  BY <1>1, <1>3 DEF u, n

LEMMA DefineRelationTable ==
  ASSUME TableInv, DefineRelation
  PROVE  TableInv' /\ Keeps(table, table')
<1> DEFINE name == text.relations[I].name
           u == DefineSymbol(table, name, RelationLocation(I), "relation")
<1>1. /\ stage = "symbols" /\ todo # << >> /\ Head(todo).what = "relation"
      /\ UNCHANGED <<text, stage>> /\ todo' = Tail(todo)
      /\ \/ table' = table
         \/ LookupSymbolByName(table, name) = NoSymbol /\ table' = u
  BY DEF DefineRelation, On, GoOn
<1>2. I \in DOMAIN text.relations
  <2>1. Head(todo) \in VisitsOf("symbols")
    BY <1>1, LeftToDo DEF TableInv, TodoInv
  <2>2. QED
    BY <1>1, <2>1 DEF VisitsOf, Visit, I
<1>3. name # "root.names"
  BY <1>2, RelationShape DEF TableInv
<1>4. TodoInv'
  <2>1. VisitsOf(stage)' = VisitsOf(stage)
    BY <1>1 DEF VisitsOf
  <2>2. << >> \in Seq(VisitsOf(stage))
    OBVIOUS
  <2>3. QED
    BY <1>1, <2>1, <2>2, TodoStep
<1>5. /\ stage' \in Stages /\ ~PipelinesRead /\ ~PipelinesRead'
      /\ \A l \in Lines : \A k \in Names(l) : LookedUp(l, k)' <=> LookedUp(l, k)
  BY <1>1 DEF Stages, PipelinesRead, LookedUp
<1>6. CASE table' = table
  BY <1>1, <1>4, <1>5, <1>6, SameTable
<1>7. CASE LookupSymbolByName(table, name) = NoSymbol /\ table' = u
  <2>1. /\ NamedTable(table') /\ Keeps(table, table') /\ TypesByName(table')
        /\ table'.byLocation
             = InsertMulti(table.byLocation, RelationLocation(I), Len(table.symbols) + 1)
    BY <1>3, <1>7, DefinedElsewhere DEF TableInv
  <2>2. \A l \in Lines : \A k \in Names(l) :
          ValuesAt(table'.byLocation, PipelineLocation(l, k))
            = ValuesAt(table.byLocation, PipelineLocation(l, k))
    <3>1. \A l \in Lines : \A k \in Names(l) : PipelineLocation(l, k) # RelationLocation(I)
      BY DEF PipelineLocation, RelationLocation
    <3>2. QED
      BY <2>1, <3>1, InsertMultiElsewhere
  <2>3. QED
    BY <1>1, <1>4, <1>5, <2>1, <2>2, TableStep
<1>8. QED
  BY <1>1, <1>6, <1>7

LEMMA DefineRootTable ==
  ASSUME TableInv, DefineRoot
  PROVE  TableInv' /\ Keeps(table, table')
<1> DEFINE l0 == RootLocation(I)
           t == DefineSymbol(table, "root", l0, "relation")
           u == DefineSymbol(t, "root.names", l0, "root")
<1>1. /\ stage = "symbols" /\ todo # << >>
      /\ UNCHANGED <<text, stage>> /\ todo' = Tail(todo)
      /\ \/ table' = table
         \/ /\ LookupSymbolByName(table, "root") = NoSymbol
            /\ LookupSymbolByName(table, "root.names") = NoSymbol
            /\ table' = u
  BY DEF DefineRoot, On, GoOn
<1>2. TodoInv'
  <2>1. VisitsOf(stage)' = VisitsOf(stage)
    BY <1>1 DEF VisitsOf
  <2>2. << >> \in Seq(VisitsOf(stage))
    OBVIOUS
  <2>3. QED
    BY <1>1, <2>1, <2>2, TodoStep
<1>3. /\ stage' \in Stages /\ ~PipelinesRead /\ ~PipelinesRead'
      /\ \A l \in Lines : \A k \in Names(l) : LookedUp(l, k)' <=> LookedUp(l, k)
  BY <1>1 DEF Stages, PipelinesRead, LookedUp
<1>4. CASE table' = table
  BY <1>1, <1>2, <1>3, <1>4, SameTable
<1>5. CASE /\ LookupSymbolByName(table, "root") = NoSymbol
           /\ LookupSymbolByName(table, "root.names") = NoSymbol
           /\ table' = u
  <2>1. /\ NamedTable(t) /\ Keeps(table, t) /\ TypesByName(t)
        /\ t.byLocation = InsertMulti(table.byLocation, l0, Len(table.symbols) + 1)
    BY <1>5, DefinedElsewhere DEF TableInv
  <2>2. LookupSymbolByName(t, "root.names") = NoSymbol
    <3>1. /\ DOMAIN t.symbols = DOMAIN table.symbols \union {Len(table.symbols) + 1}
          /\ \A i \in DOMAIN table.symbols : t.symbols[i] = table.symbols[i]
          /\ t.symbols[Len(table.symbols) + 1] = NewSymbol("root", l0, "relation")
      BY <1>5, NamedDefine DEF TableInv
    <3>2. NewSymbol("root", l0, "relation").name # "root.names"
      BY DEF NewSymbol
    <3>3. \A i \in DOMAIN table.symbols : table.symbols[i].name # "root.names"
      BY <1>5, NamedFound, NamedPositions DEF TableInv
    <3> HIDE DEF t
    <3>4. \A i \in DOMAIN t.symbols : t.symbols[i].name # "root.names"
      BY <3>1, <3>2, <3>3
    <3>5. QED
      BY <2>1, <3>4, NamedFound
  <2> HIDE DEF t
  <2>3. /\ NamedTable(u) /\ Keeps(t, u) /\ TypesByName(u)
        /\ u.byLocation = InsertMulti(t.byLocation, l0, Len(t.symbols) + 1)
    BY <2>1, <2>2, DefinedElsewhere
  <2> HIDE DEF u
  <2>4. Keeps(table, u)
    BY <2>1, <2>3 DEF Keeps, SameSymbol
  <2>5. \A l \in Lines : \A k \in Names(l) :
          ValuesAt(u.byLocation, PipelineLocation(l, k))
            = ValuesAt(table.byLocation, PipelineLocation(l, k))
    <3>1. \A l \in Lines : \A k \in Names(l) : PipelineLocation(l, k) # RootLocation(I)
      BY DEF PipelineLocation, RootLocation
    <3>2. QED
      BY <2>1, <2>3, <3>1, InsertMultiElsewhere
  <2>6. QED
    BY <1>1, <1>2, <1>3, <1>5, <2>3, <2>4, <2>5, TableStep
<1>6. QED
  BY <1>1, <1>4, <1>5

LEMMA BeginPipelinesTable ==
  ASSUME TableInv, BeginPipelines
  PROVE  TableInv' /\ Keeps(table, table')
<1> DEFINE V == VisitsOf("pipelines")
           n == Len(text.pipelines)
<1>1. /\ stage = "symbols" /\ stage' = "pipelines" /\ UNCHANGED <<text, table>>
      /\ todo' = [l \in Lines |-> VisitLine(l)]
  BY DEF BeginPipelines, Lines
<1>2. /\ n \in Nat /\ Lines = 1..n
      /\ \A l \in Lines : Len(text.pipelines[l]) \in Nat \ {0}
  BY TextShape DEF TableInv
<1>3. \A l \in Lines : VisitLine(l) \in V
  BY <1>2 DEF VisitLine, VisitsOf, Names
<1>4. todo' \in Seq(V) /\ Len(todo') = n
  <2>1. \A l \in 1..n : todo'[l] \in V
    BY <1>1, <1>2, <1>3
  <2>2. todo' = [l \in 1..n |-> todo'[l]]
    BY <1>1, <1>2
  <2> HIDE DEF V, n
  <2>3. QED
    BY <1>2, <2>1, <2>2, ListOf
<1>5. /\ VisitsOf(stage)' = V
      /\ Stacked(todo)' <=> Stacked(todo')
  BY <1>1 DEF VisitsOf, Lines, Names, Visit, Stacked, IsLast, After, VisitLine
<1>6. Stacked(todo')
  <2>1. \A l \in Lines : /\ VisitLine(l).i = l
                         /\ VisitLine(l).k = Len(text.pipelines[l])
    BY DEF VisitLine, Visit
  <2>2. \A l \in Lines : After(VisitLine(l)) = VisitLine(l + 1)
    BY <1>2, <2>1 DEF After
  <2>3. n > 0 => IsLast(VisitLine(n))
    BY <1>2, <2>1 DEF IsLast
  <2>4. QED
    BY <1>1, <1>2, <1>4, <2>2, <2>3 DEF Stacked
<1>7. TodoInv'
  BY <1>4, <1>5, <1>6 DEF TodoInv
<1>8. /\ stage' \in Stages /\ ~PipelinesRead /\ ~PipelinesRead'
      /\ \A l \in Lines : \A k \in Names(l) : ~LookedUp(l, k)
  BY <1>1 DEF Stages, PipelinesRead, LookedUp
<1>9. \A l \in Lines : \A k \in Names(l) : ~LookedUp(l, k)'
  <2>1. ASSUME NEW l \in Lines, NEW k \in Names(l)
        PROVE  ~LookedUp(l, k)'
    <3>1. n > 0 /\ todo' # << >> /\ 1 \in Lines
      BY <1>2, <1>4
    <3>2. Head(todo') = VisitLine(1)
      BY <1>1, <1>2, <1>4, <3>1
    <3>3. /\ Head(todo').i = 1
          /\ Head(todo').k = Len(text.pipelines[1])
          /\ Head(todo').what = "name"
      BY <3>2 DEF VisitLine, Visit
    <3>4. l \in Nat \ {0} /\ (l = 1 => ~(k > Len(text.pipelines[1])))
      BY <1>2, <3>1 DEF Names
    <3>5. QED
      BY <1>1, <1>8, <3>1, <3>3, <3>4 DEF LookedUp, I, K
  <2>2. QED
    BY <2>1
<1>10. QED
  BY <1>1, <1>7, <1>8, <1>9, SameTable

\* A name that is looked up is recorded where it is.
LEMMA UpdateRelationSymbolTable ==
  ASSUME TableInv, UpdateRelationSymbol
  PROVE  TableInv' /\ Keeps(table, table')
<1> DEFINE name == text.pipelines[I][K]
           symbol == LookupSymbolByName(table, name)
           here == PipelineLocation(I, K)
<1>0. PICK found : found = LookupSymbolByName(table', name)
  OBVIOUS
<1>1. /\ stage = "pipelines" /\ todo # << >> /\ Head(todo).what = "name"
      /\ UNCHANGED <<text, stage>> /\ todo' = VisitLeft(I, K) \o Tail(todo)
      /\ IF symbol = NoSymbol
         THEN table' = DefineSymbol(table, name, here, "relation")
         ELSE table' = AddPermanentLocation(table, table.symbols[symbol], here)
  BY DEF UpdateRelationSymbol, On, Descend
<1>2. I \in Lines /\ K \in Names(I)
  BY <1>1, OnLine
<1>3. /\ Len(text.pipelines[I]) \in Nat /\ K \in Nat \ {0}
      /\ I \in Nat /\ Lines \subseteq Nat
      /\ name # "root.names"
  BY <1>2, TextShape DEF TableInv, Names
<1>4. /\ TodoInv'
      /\ todo' # << >>
      /\ Head(todo') = IF K > 1 THEN Visit("name", I, K - 1) ELSE Visit("link", I, K)
  BY <1>1, StackDescends
<1>5. ~PipelinesRead /\ ~PipelinesRead' /\ stage' \in Stages
  BY <1>1 DEF PipelinesRead, Stages
<1>6. ASSUME NEW l \in Lines, NEW k \in Names(l)
      PROVE  LookedUp(l, k)' <=> LookedUp(l, k) \/ (l = I /\ k = K)
  <2>1. l \in Nat /\ k \in Nat \ {0}
    BY <1>3, TextShape DEF TableInv, Names
  <2>2. LookedUp(l, k) <=> l < I \/ (l = I /\ k > K)
    BY <1>1, <1>5 DEF LookedUp
  <2>3. LookedUp(l, k)' <=> l < I' \/ (l = I' /\ (Head(todo').what = "link" \/ k > K'))
    BY <1>1, <1>4, <1>5 DEF LookedUp
  <2>4. /\ I' = I
        /\ IF K > 1 THEN K' = K - 1 /\ Head(todo').what = "name"
           ELSE K' = K /\ Head(todo').what = "link"
    BY <1>4 DEF Visit, I, K
  <2> HIDE DEF name, symbol, here
  <2>5. QED
    BY <1>3, <2>1, <2>2, <2>3, <2>4
<1>7. ~LookedUp(I, K)
  BY <1>1, <1>3, <1>5 DEF LookedUp
<1>8. ValuesAt(table.byLocation, here) = << >>
  BY <1>2, <1>5, <1>7 DEF TableInv, PlacesInv
<1>9. /\ NamedTable(table') /\ Keeps(table, table') /\ TypesByName(table')
      /\ found # NoSymbol
      /\ table'.byLocation = InsertMulti(table.byLocation, here, found)
  <2>1. NamedTable(table) /\ TypesByName(table)
    BY DEF TableInv
  <2>2. CASE symbol = NoSymbol
    <3>0. /\ table' = DefineSymbol(table, name, here, "relation")
          /\ "relation" = IF name = "root.names" THEN "root" ELSE "relation"
      BY <1>1, <1>3, <2>2
    <3> HIDE DEF name, here
    <3>1. /\ NamedTable(table') /\ Keeps(table, table') /\ TypesByName(table')
          /\ table'.byLocation = InsertMulti(table.byLocation, here, Len(table.symbols) + 1)
      BY <2>1, <2>2, <3>0, DefinedElsewhere DEF symbol
    <3> USE DEF name, here
    <3>2. found = Len(table.symbols) + 1
      BY <1>0, <1>1, <2>1, <2>2, NamedDefine
    <3>3. Len(table.symbols) + 1 # NoSymbol
      BY <2>1, NamedPositions DEF NoSymbol
    <3>4. QED
      BY <3>1, <3>2, <3>3
  <2>3. CASE symbol # NoSymbol
    <3>1. symbol \in DOMAIN table.symbols
      BY <2>1, <2>3, NamedFound
    <3>2. /\ NamedTable(table') /\ Keeps(table, table')
          /\ DOMAIN table'.symbols = DOMAIN table.symbols
          /\ table'.byLocation = InsertMulti(table.byLocation, here, symbol)
      BY <1>1, <2>1, <2>3, <3>1, NamedPermanent
    <3>3. found = symbol
      BY <1>0, <2>1, <2>3, <3>2, KeepsFinds
    <3>4. TypesByName(table')
      BY <2>1, <3>2, TypesKept
    <3>5. QED
      BY <2>3, <3>2, <3>3, <3>4
  <2>4. QED
    BY <2>2, <2>3
<1>10. ASSUME NEW l \in Lines, NEW k \in Names(l)
       PROVE  /\ LookedUp(l, k)' => Named(l, k)' # NoSymbol
              /\ ~PipelinesRead' =>
                   ValuesAt(table'.byLocation, PipelineLocation(l, k)) =
                     IF LookedUp(l, k)' THEN <<Named(l, k)'>> ELSE << >>
  <2>1. Named(l, k)' = LookupSymbolByName(table', text.pipelines[l][k])
    BY <1>1 DEF Named
  <2>2. CASE l = I /\ k = K
    <3>1. Named(l, k)' = found
      BY <1>0, <2>1, <2>2
    <3>2. ValuesAt(table'.byLocation, here) = Append(<< >>, found)
      BY <1>8, <1>9 DEF InsertMulti, Put, ValuesAt
    <3>3. Append(<< >>, found) = <<found>>
      OBVIOUS
    <3>4. PipelineLocation(l, k) = here
      BY <2>2
    <3> HIDE DEF here, name
    <3>5. LookedUp(l, k)'
      BY <1>6, <2>2
    <3>6. QED
      BY <1>9, <3>1, <3>2, <3>3, <3>4, <3>5
  <2>3. CASE ~(l = I /\ k = K)
    <3>1. PipelineLocation(l, k) # here
      BY <2>3 DEF PipelineLocation
    <3>2. ValuesAt(table'.byLocation, PipelineLocation(l, k))
            = ValuesAt(table.byLocation, PipelineLocation(l, k))
      BY <1>9, <3>1, InsertMultiElsewhere
    <3>3. LookedUp(l, k) => Named(l, k) # NoSymbol
      BY DEF TableInv, PlacesInv
    <3>4. LookedUp(l, k) => Named(l, k)' = Named(l, k)
      BY <1>9, <2>1, <3>3, KeepsFinds DEF TableInv, Named
    <3>5. QED
      BY <1>5, <1>6, <2>3, <3>2, <3>3, <3>4 DEF TableInv, PlacesInv
  <2>4. QED
    BY <2>2, <2>3
<1>11. PlacesInv'
  BY <1>1, <1>10, PlacesStep
<1>12. QED
  BY <1>1, <1>4, <1>5, <1>9, <1>11 DEF TableInv

LEMMA VisitPipelineTable ==
  ASSUME TableInv, VisitPipeline
  PROVE  TableInv' /\ Keeps(table, table')
<1> DEFINE rest == Tail(todo)
<1>1. /\ stage = "pipelines" /\ todo # << >> /\ Head(todo).what = "link"
      /\ UNCHANGED <<text, stage, table>> /\ todo' = rest
  BY DEF VisitPipeline, On, GoOn
<1>2. /\ I \in Lines /\ K \in Names(I)
      /\ IF rest = << >>
         THEN I = Len(text.pipelines) /\ K = Len(text.pipelines[I])
         ELSE Head(rest) = After(Head(todo))
  BY <1>1, OnLine
<1>3. /\ Len(text.pipelines) \in Nat
      /\ Lines = 1..Len(text.pipelines)
      /\ \A l \in Lines : Len(text.pipelines[l]) \in Nat \ {0}
  BY TextShape DEF TableInv
<1>4. TodoInv'
  BY <1>1, StackGoesOn
<1>5. ~PipelinesRead /\ ~PipelinesRead' /\ stage' \in Stages
  BY <1>1 DEF PipelinesRead, Stages
<1>6. ASSUME NEW l \in Lines, NEW k \in Names(l)
      PROVE  LookedUp(l, k)' <=> LookedUp(l, k)
  <2>1. l \in Nat /\ k \in 1..Len(text.pipelines[l]) /\ I \in Nat /\ K \in 1..Len(text.pipelines[I])
    BY <1>2, <1>3 DEF Names
  <2>2. LookedUp(l, k) <=> l < I \/ l = I
    BY <1>1, <1>5 DEF LookedUp
  <2>3. CASE rest = << >>
    <3>1. LookedUp(l, k)'
      BY <1>1, <1>5, <2>3 DEF LookedUp
    <3>2. QED
      BY <1>2, <1>3, <2>1, <2>2, <2>3, <3>1
  <2>4. CASE rest # << >>
    <3>1. LookedUp(l, k)' <=> l < I' \/ (l = I' /\ (Head(rest).what = "link" \/ k > K'))
      BY <1>1, <1>5, <2>4 DEF LookedUp
    <3>2. Head(rest) = After(Head(todo)) /\ I' = Head(rest).i /\ K' = Head(rest).k
      BY <1>1, <1>2, <2>4 DEF I, K
    <3> HIDE DEF rest
    <3>3. CASE K < Len(text.pipelines[I])
      <4>1. After(Head(todo)) = Visit("link", I, K + 1)
        BY <3>3 DEF After, I, K
      <4>2. I' = I /\ Head(rest).what = "link"
        BY <3>2, <4>1 DEF Visit
      <4>3. QED
        BY <2>1, <2>2, <3>1, <4>2
    <3>4. CASE ~(K < Len(text.pipelines[I]))
      <4>1. After(Head(todo)) = VisitLine(I + 1)
        BY <3>4 DEF After, I, K
      <4>2. /\ I' = I + 1 /\ Head(rest).what = "name"
            /\ K' = Len(text.pipelines[I + 1])
        BY <3>2, <4>1 DEF Visit, VisitLine
      <4>3. l = I + 1 => ~(k > K')
        BY <1>3, <2>1, <4>2
      <4>4. QED
        BY <2>1, <2>2, <3>1, <4>2, <4>3
    <3>5. QED
      BY <3>3, <3>4
  <2>5. QED
    BY <2>3, <2>4
<1>7. QED
  BY <1>1, <1>4, <1>5, <1>6, SameTable

(***************************************************************************)
(* The steps after the lines were read.                                    *)
(***************************************************************************)

LEMMA ReadStep ==
  ASSUME TableInv, UNCHANGED text,
         PipelinesRead \/ (stage = "pipelines" /\ todo = << >>),
         stage' \in {"relations", "details", "subqueries", "build", "done"},
         TodoInv', NamedTable(table'), TypesByName(table'), Keeps(table, table')
  PROVE  TableInv' /\ Keeps(table, table')
<1>1. PipelinesRead' /\ stage' \in Stages
  BY DEF PipelinesRead, Stages
<1>2. \A l \in Lines : \A k \in Names(l) : LookedUp(l, k)' /\ LookedUp(l, k)
  BY <1>1 DEF LookedUp
<1>3. QED
  BY <1>1, <1>2, TableStep

LEMMA ReadStepSame ==
  ASSUME TableInv, UNCHANGED <<text, table>>,
         PipelinesRead \/ (stage = "pipelines" /\ todo = << >>),
         stage' \in {"relations", "details", "subqueries", "build", "done"},
         TodoInv'
  PROVE  TableInv' /\ Keeps(table, table')
<1>1. NamedTable(table') /\ TypesByName(table') /\ Keeps(table, table')
  BY KeepsItself DEF TableInv
<1>2. QED
  BY <1>1, ReadStep

LEMMA ReadStepChange ==
  ASSUME TableInv, PipelinesRead, UNCHANGED <<text, stage>>, TodoInv',
         NamedTable(table'), Keeps(table, table'),
         DOMAIN table'.symbols = DOMAIN table.symbols
  PROVE  TableInv' /\ Keeps(table, table')
<1>1. TypesByName(table')
  BY TypesKept DEF TableInv
<1>2. stage' \in {"relations", "details", "subqueries", "build", "done"}
  BY DEF PipelinesRead
<1>3. QED
  BY <1>1, <1>2, ReadStep

LEMMA BeginRelationsTable ==
  ASSUME TableInv, BeginRelations
  PROVE  TableInv' /\ Keeps(table, table')
<1>1. /\ stage = "pipelines" /\ todo = << >> /\ stage' = "relations"
      /\ UNCHANGED <<text, table>> /\ todo' = VisitEach("relation")
  BY DEF BeginRelations
<1>2. \A i \in DOMAIN text.relations : Visit("relation", i, 0) \in VisitsOf(stage)'
  BY <1>1 DEF VisitsOf, Visit
<1>3. VisitEach("relation") \in Seq(VisitsOf(stage)')
  BY <1>2, EachVisit DEF TableInv
<1>4. TodoInv'
  BY <1>1, <1>3 DEF TodoInv
<1>5. QED
  BY <1>1, <1>4, ReadStepSame

LEMMA OnRelations ==
  ASSUME TableInv, stage = "relations", todo # << >>
  PROVE  /\ I \in DOMAIN text.relations
         /\ Head(todo).what = "subquery" =>
              RelationAt(I) # NoSymbol /\ K \in DOMAIN text.relations[I].uses
<1>1. Head(todo) \in VisitsOf("relations")
  BY LeftToDo DEF TableInv, TodoInv
<1>2. QED
  BY <1>1 DEF VisitsOf, Visit, I, K

LEMMA IntoExpressions ==
  ASSUME NEW i \in DOMAIN text.relations, RelationAt(i) # NoSymbol,
         NEW exprs, IsSequence(exprs),
         ToSet(exprs) \subseteq DOMAIN text.relations[i].uses
  PROVE  VisitExpressions(i, exprs) \in Seq(VisitsOf("relations"))
<1> DEFINE V == VisitsOf("relations")
           into == VisitExpressions(i, exprs)
<1>1. /\ Len(exprs) \in Nat /\ DOMAIN exprs = 1..Len(exprs)
      /\ \A n \in 1..Len(exprs) : exprs[n] \in DOMAIN text.relations[i].uses
  BY SequenceHas
<1>2. \A n \in 1..Len(exprs) : into[n] \in V
  BY <1>1 DEF VisitsOf, VisitExpressions
<1>3. into = [n \in 1..Len(exprs) |-> into[n]]
  BY <1>1 DEF VisitExpressions
<1> HIDE DEF V, into
<1>4. QED
  BY <1>1, <1>2, <1>3, ListOf DEF V, into

LEMMA EnterRelationTable ==
  ASSUME TableInv, EnterRelation
  PROVE  TableInv' /\ Keeps(table, table')
<1> DEFINE into == VisitExpressions(I, text.relations[I].exprs)
<1>1. /\ stage = "relations" /\ todo # << >>
      /\ UNCHANGED <<text, stage, table>>
      /\ IF RelationAt(I) = NoSymbol THEN todo' = Tail(todo)
         ELSE todo' = into \o Tail(todo)
  BY DEF EnterRelation, On, GoOn, Descend
<1>2. I \in DOMAIN text.relations
  BY <1>1, OnRelations
<1>3. VisitsOf(stage)' = VisitsOf(stage)
  BY <1>1 DEF VisitsOf, Visit, RelationAt
<1>4. TodoInv'
  <2>1. CASE RelationAt(I) = NoSymbol
    <3>1. << >> \in Seq(VisitsOf(stage))
      OBVIOUS
    <3>2. QED
      BY <1>1, <1>3, <2>1, <3>1, TodoStep
  <2>2. CASE RelationAt(I) # NoSymbol
    <3>1. into \in Seq(VisitsOf(stage))
      BY <1>1, <1>2, <2>2, RelationShape, IntoExpressions DEF TableInv
    <3> HIDE DEF into
    <3>2. QED
      BY <1>1, <1>3, <2>2, <3>1, TodoStep
  <2>3. QED
    BY <2>1, <2>2
<1>5. PipelinesRead /\ stage' \in {"relations"}
  BY <1>1 DEF PipelinesRead
<1>6. QED
  BY <1>1, <1>4, <1>5, ReadStepSame

LEMMA VisitSubqueryTable ==
  ASSUME TableInv, VisitSubquery
  PROVE  /\ TableInv' /\ Keeps(table, table')
         /\ DOMAIN table'.symbols = DOMAIN table.symbols
<1> DEFINE use    == text.relations[I].uses[K]
           symbol == LookupSymbolByName(table, use.relation)
           into   == VisitExpressions(I, use.exprs)
<1>1. /\ stage = "relations" /\ todo # << >> /\ Head(todo).what = "subquery"
      /\ UNCHANGED <<text, stage>>
      /\ todo' = Tail(todo) \/ todo' = into \o Tail(todo)
      /\ symbol = NoSymbol => table' = table
      /\ symbol # NoSymbol =>
           table' = SetParentQueryLocation(table, table.symbols[symbol],
                                           RelationLocation(I))
  BY DEF VisitSubquery, On, GoOn, Descend
<1> HIDE DEF use, symbol, into
<1>2. /\ I \in DOMAIN text.relations /\ RelationAt(I) # NoSymbol
      /\ K \in DOMAIN text.relations[I].uses
  BY <1>1, OnRelations
<1>3. /\ NamedTable(table') /\ Keeps(table, table')
      /\ DOMAIN table'.symbols = DOMAIN table.symbols
      /\ table'.byLocation = table.byLocation
  <2>1. NamedTable(table)
    BY DEF TableInv
  <2>2. CASE symbol = NoSymbol
    BY <1>1, <2>1, <2>2, KeepsItself
  <2>3. CASE symbol # NoSymbol
    <3>1. symbol \in DOMAIN table.symbols
      BY <2>1, <2>3, NamedFound DEF symbol
    <3>2. table' = SetParentQueryLocation(table, table.symbols[symbol],
                                          RelationLocation(I))
      BY <1>1, <2>3
    <3>3. QED
      BY <2>1, <3>1, <3>2, NamedParent
  <2>4. QED
    BY <2>2, <2>3
<1>4. \A i : RelationAt(i)' = RelationAt(i)
  BY <1>3, SameThere DEF TableInv, RelationAt, RelationLocation
<1>5. VisitsOf(stage)' = VisitsOf(stage)
  BY <1>1, <1>4 DEF VisitsOf, Visit
<1>6. into \in Seq(VisitsOf(stage))
  <2>1. IsSequence(use.exprs) /\ ToSet(use.exprs) \subseteq DOMAIN text.relations[I].uses
    BY <1>2, RelationShape DEF TableInv, use
  <2>2. into \in Seq(VisitsOf("relations"))
    BY <1>2, <2>1, IntoExpressions DEF into
  <2>3. QED
    BY <1>1, <2>2
<1>7. TodoInv'
  BY <1>1, <1>5, <1>6, TodoStep
<1>8. PipelinesRead
  BY <1>1 DEF PipelinesRead
<1>9. QED
  BY <1>1, <1>3, <1>7, <1>8, ReadStepChange

LEMMA BeginDetailsTable ==
  ASSUME TableInv, BeginDetails
  PROVE  TableInv' /\ Keeps(table, table')
<1>1. /\ stage = "relations" /\ stage' = "details"
      /\ UNCHANGED <<text, table>> /\ todo' = VisitEach("details")
  BY DEF BeginDetails
<1>2. \A i \in DOMAIN text.relations : Visit("details", i, 0) \in VisitsOf(stage)'
  BY <1>1 DEF VisitsOf, Visit
<1>3. VisitEach("details") \in Seq(VisitsOf(stage)')
  BY <1>2, EachVisit DEF TableInv
<1>4. TodoInv'
  BY <1>1, <1>3 DEF TodoInv
<1>5. PipelinesRead
  BY <1>1 DEF PipelinesRead
<1>6. QED
  BY <1>1, <1>4, <1>5, ReadStepSame

LEMMA BeginSubqueryDetailsTable ==
  ASSUME TableInv, BeginSubqueryDetails
  PROVE  TableInv' /\ Keeps(table, table')
<1>1. /\ stage = "details" /\ stage' = "subqueries"
      /\ UNCHANGED <<text, table>> /\ todo' = VisitEach("details")
  BY DEF BeginSubqueryDetails
<1>2. \A i \in DOMAIN text.relations : Visit("details", i, 0) \in VisitsOf(stage)'
  BY <1>1 DEF VisitsOf, Visit
<1>3. VisitEach("details") \in Seq(VisitsOf(stage)')
  BY <1>2, EachVisit DEF TableInv
<1>4. TodoInv'
  BY <1>1, <1>3 DEF TodoInv
<1>5. PipelinesRead
  BY <1>1 DEF PipelinesRead
<1>6. QED
  BY <1>1, <1>4, <1>5, ReadStepSame

\* A relation gets its message, and no symbol changes otherwise.
LEMMA MessageNotedTable ==
  ASSUME NamedTable(table)
  PROVE  /\ NamedTable(MessageNoted) /\ Keeps(table, MessageNoted)
         /\ DOMAIN MessageNoted.symbols = DOMAIN table.symbols
<1> DEFINE s == RelationAt(I)
<1>1. CASE s = NoSymbol
  BY <1>1, KeepsItself DEF MessageNoted
<1>2. CASE s # NoSymbol
  <2>1. s \in DOMAIN table.symbols
    BY <1>2, NamedAtLocation DEF RelationAt
  <2>2. MessageNoted = AddPermanentLocation(table, table.symbols[s], MessageLocation(s))
    BY <1>2 DEF MessageNoted
  <2> HIDE DEF s
  <2>3. QED
    BY <2>1, <2>2, NamedPermanent
<1>3. QED
  BY <1>1, <1>2

LEMMA VisitDetailsTable ==
  ASSUME TableInv, VisitDetails
  PROVE  /\ TableInv' /\ Keeps(table, table')
         /\ DOMAIN table'.symbols = DOMAIN table.symbols
<1>1. /\ stage = "details" /\ todo # << >>
      /\ UNCHANGED <<text, stage>> /\ todo' = Tail(todo) /\ table' = MessageNoted
  BY DEF VisitDetails, On, GoOn
<1>2. /\ NamedTable(table') /\ Keeps(table, table')
      /\ DOMAIN table'.symbols = DOMAIN table.symbols
  BY <1>1, MessageNotedTable DEF TableInv
<1>3. VisitsOf(stage)' = VisitsOf(stage)
  BY <1>1 DEF VisitsOf
<1>4. << >> \in Seq(VisitsOf(stage))
  OBVIOUS
<1>5. TodoInv'
  BY <1>1, <1>3, <1>4, TodoStep
<1>6. PipelinesRead
  BY <1>1 DEF PipelinesRead
<1>7. QED
  BY <1>1, <1>2, <1>5, <1>6, ReadStepChange

LEMMA VisitSubqueryDetailsTable ==
  ASSUME TableInv, VisitSubqueryDetails
  PROVE  /\ TableInv' /\ Keeps(table, table')
         /\ DOMAIN table'.symbols = DOMAIN table.symbols
<1> DEFINE V    == VisitsOf(stage)
           uses == text.relations[I].uses
           into == [k \in DOMAIN uses |-> Visit("use", I, k)]
<1>1. /\ stage = "subqueries" /\ todo # << >> /\ Head(todo).what = "details"
      /\ UNCHANGED <<text, stage>> /\ todo' = into \o Tail(todo)
      /\ table' = MessageNoted
  BY DEF VisitSubqueryDetails, On, Descend
<1>2. I \in DOMAIN text.relations
  <2>1. Head(todo) \in VisitsOf("subqueries")
    BY <1>1, LeftToDo DEF TableInv, TodoInv
  <2>2. QED
    BY <1>1, <2>1 DEF VisitsOf, Visit, I
<1>3. /\ NamedTable(table') /\ Keeps(table, table')
      /\ DOMAIN table'.symbols = DOMAIN table.symbols
  BY <1>1, MessageNotedTable DEF TableInv
<1>4. VisitsOf(stage)' = VisitsOf(stage)
  BY <1>1 DEF VisitsOf
<1>5. into \in Seq(V)
  <2>1. Len(uses) \in Nat /\ DOMAIN uses = 1..Len(uses)
    BY <1>2, RelationShape, SequenceHas DEF TableInv
  <2>2. \A k \in 1..Len(uses) : into[k] \in V
    BY <1>1, <1>2, <2>1 DEF VisitsOf
  <2>3. into = [k \in 1..Len(uses) |-> into[k]]
    BY <2>1
  <2> HIDE DEF V, uses, into
  <2>4. QED
    BY <2>1, <2>2, <2>3, ListOf
<1> HIDE DEF into
<1>6. TodoInv'
  BY <1>1, <1>4, <1>5, TodoStep
<1>7. PipelinesRead
  BY <1>1 DEF PipelinesRead
<1>8. QED
  BY <1>1, <1>3, <1>6, <1>7, ReadStepChange

LEMMA VisitUseTable ==
  ASSUME TableInv, VisitUse
  PROVE  /\ TableInv' /\ Keeps(table, table')
         /\ DOMAIN table'.symbols = DOMAIN table.symbols
<1> DEFINE symbol == LookupSymbolByName(table, text.relations[I].uses[K].relation)
<1>1. /\ stage = "subqueries" /\ todo # << >>
      /\ UNCHANGED <<text, stage>> /\ todo' = Tail(todo)
      /\ \/ table' = table
         \/ /\ symbol # NoSymbol
            /\ table' = AddPermanentLocation(table, table.symbols[symbol],
                                             HaystackLocation(I, K))
  BY DEF VisitUse, On, GoOn
<1>2. symbol # NoSymbol => symbol \in DOMAIN table.symbols
  BY NamedFound DEF TableInv
<1> HIDE DEF symbol
<1>3. /\ NamedTable(table') /\ Keeps(table, table')
      /\ DOMAIN table'.symbols = DOMAIN table.symbols
  <2>1. CASE table' = table
    BY <2>1, KeepsItself DEF TableInv
  <2>2. CASE table' # table
    BY <1>1, <1>2, <2>2, NamedPermanent DEF TableInv
  <2>3. QED
    BY <2>1, <2>2
<1>4. VisitsOf(stage)' = VisitsOf(stage)
  BY <1>1 DEF VisitsOf
<1>5. << >> \in Seq(VisitsOf(stage))
  OBVIOUS
<1>6. TodoInv'
  BY <1>1, <1>4, <1>5, TodoStep
<1>7. PipelinesRead
  BY <1>1 DEF PipelinesRead
<1>8. QED
  BY <1>1, <1>3, <1>6, <1>7, ReadStepChange

LEMMA BeginBuildTable ==
  ASSUME TableInv, BeginBuild
  PROVE  TableInv' /\ Keeps(table, table')
<1>1. /\ stage \in {"details", "subqueries"} /\ stage' = "build"
      /\ todo = << >> /\ UNCHANGED <<text, todo, table>>
  BY DEF BeginBuild
<1>2. TodoInv'
  BY <1>1 DEF TodoInv
<1>3. PipelinesRead
  BY <1>1 DEF PipelinesRead
<1>4. QED
  BY <1>1, <1>2, <1>3, ReadStepSame

LEMMA OutputToBinaryPlanTable ==
  ASSUME TableInv, OutputToBinaryPlan
  PROVE  TableInv' /\ Keeps(table, table')
<1>1. stage = "build" /\ stage' = "done" /\ UNCHANGED <<text, todo, table>>
  BY DEF OutputToBinaryPlan
<1>2. TodoInv'
  BY <1>1 DEF TableInv, TodoInv, VisitsOf
<1>3. PipelinesRead
  BY <1>1 DEF PipelinesRead
<1>4. QED
  BY <1>1, <1>2, <1>3, ReadStepSame

LEMMA NothingHappensTable ==
  ASSUME TableInv, UNCHANGED parserVars
  PROVE  TableInv' /\ Keeps(table, table')
<1>1. UNCHANGED <<text, stage, todo, table>>
  BY DEF parserVars
<1>2. TodoInv'
  BY <1>1 DEF TableInv, TodoInv, VisitsOf, Visit, Lines, Names, RelationAt, Stacked,
     IsLast, After, VisitLine
<1>3. stage' \in Stages /\ (PipelinesRead' <=> PipelinesRead)
  BY <1>1 DEF TableInv, PipelinesRead
<1>4. \A l \in Lines : \A k \in Names(l) : LookedUp(l, k)' <=> LookedUp(l, k)
  BY <1>1, <1>3 DEF LookedUp, I, K
<1>5. QED
  BY <1>1, <1>2, <1>3, <1>4, SameTable

LEMMA TableInvInit == Init => TableInv
<1> SUFFICES ASSUME Init PROVE TableInv
  OBVIOUS
<1>1. /\ text \in Texts /\ stage = "open" /\ todo = << >> /\ table = EmptyTable
  BY DEF Init, ParserInit
<1>2. IsText(text)
  BY <1>1, TextsAssumption
<1>3. stage \in Stages /\ TodoInv
  BY <1>1 DEF Stages, TodoInv
<1>4. NamedTable(table)
  BY <1>1, NamedEmpty
<1>5. TypesByName(table)
  BY <1>1 DEF TypesByName, EmptyTable
<1>6. PlacesInv
  <2>1. \A l, k : ~LookedUp(l, k)
    BY <1>1 DEF LookedUp, PipelinesRead
  <2>2. \A place : ValuesAt(table.byLocation, place) = << >>
    BY <1>1 DEF EmptyTable, ValuesAt
  <2>3. QED
    BY <2>1, <2>2 DEF PlacesInv
<1>7. QED
  BY <1>2, <1>3, <1>4, <1>5, <1>6 DEF TableInv

LEMMA TableInvStep ==
  ASSUME TableInv, [Next]_parserVars
  PROVE  TableInv' /\ Keeps(table, table')
<1>1. CASE BeginSymbols
  BY <1>1, BeginSymbolsTable
<1>2. CASE DefineRelation
  BY <1>2, DefineRelationTable
<1>3. CASE DefineRoot
  BY <1>3, DefineRootTable
<1>4. CASE BeginPipelines
  BY <1>4, BeginPipelinesTable
<1>5. CASE UpdateRelationSymbol
  BY <1>5, UpdateRelationSymbolTable
<1>6. CASE VisitPipeline
  BY <1>6, VisitPipelineTable
<1>7. CASE BeginRelations
  BY <1>7, BeginRelationsTable
<1>8. CASE EnterRelation
  BY <1>8, EnterRelationTable
<1>9. CASE VisitSubquery
  BY <1>9, VisitSubqueryTable
<1>10. CASE BeginDetails
  BY <1>10, BeginDetailsTable
<1>11. CASE VisitDetails
  BY <1>11, VisitDetailsTable
<1>12. CASE BeginSubqueryDetails
  BY <1>12, BeginSubqueryDetailsTable
<1>13. CASE VisitSubqueryDetails
  BY <1>13, VisitSubqueryDetailsTable
<1>14. CASE VisitUse
  BY <1>14, VisitUseTable
<1>15. CASE BeginBuild
  BY <1>15, BeginBuildTable
<1>16. CASE OutputToBinaryPlan
  BY <1>16, OutputToBinaryPlanTable
<1>17. CASE UNCHANGED parserVars
  BY <1>17, NothingHappensTable
<1>18. QED
  BY <1>1, <1>2, <1>3, <1>4, <1>5, <1>6, <1>7, <1>8, <1>9, <1>10, <1>11, <1>12,
     <1>13, <1>14, <1>15, <1>16, <1>17 DEF Next

-----------------------------------------------------------------------------
(***************************************************************************)
(* The links.                                                              *)
(***************************************************************************)

\* What is found at a place of a line is the relation of the name there.
LEMMA FoundOnLine ==
  ASSUME TableInv, NEW l \in Lines, NEW k \in Names(l), LookedUp(l, k)
  PROVE  /\ Named(l, k) \in RelationSymbols
         /\ ~PipelinesRead => At(l, k) = Named(l, k)
<1> DEFINE s == Named(l, k)
<1>1. s # NoSymbol
  BY DEF TableInv, PlacesInv
<1>2. s \in DOMAIN table.symbols /\ table.symbols[s].name = text.pipelines[l][k]
  BY <1>1, NamedFound DEF TableInv, Named
<1>3. text.pipelines[l][k] # "root.names"
  BY TextShape DEF TableInv
<1>4. table.symbols[s].type = "relation"
  BY <1>2, <1>3 DEF TableInv, TypesByName
<1>5. ASSUME ~PipelinesRead
      PROVE  At(l, k) = s
  <2>1. ValuesAt(table.byLocation, PipelineLocation(l, k)) = <<s>>
    BY <1>5 DEF TableInv, PlacesInv
  <2> HIDE DEF s
  <2>2. LookupSymbolByLocationAndType(table, PipelineLocation(l, k), table.symbols[s].type)
          = s
    BY <2>1, NamedAloneThere
  <2>3. QED
    BY <1>4, <2>2 DEF At
<1>6. QED
  BY <1>2, <1>4, <1>5 DEF RelationSymbols

LEMMA BlobsGrow ==
  ASSUME UNCHANGED text, Keeps(table, table')
  PROVE  RelationSymbols \subseteq RelationSymbols' /\ Blobs \subseteq Blobs'
<1>1. RelationSymbols \subseteq RelationSymbols'
  BY DEF RelationSymbols, Keeps, SameSymbol
<1>2. Seq(RelationSymbols) \subseteq Seq(RelationSymbols')
  BY <1>1
<1>3. QED
  BY <1>1, <1>2 DEF Blobs

\* A step that defines no symbol and changes no link.
LEMMA SameData ==
  ASSUME DataInv, UNCHANGED <<text, data>>, Keeps(table, table'),
         DOMAIN table'.symbols = DOMAIN table.symbols
  PROVE  DataInv'
<1>1. data \in Seq(Blobs')
  BY BlobsGrow DEF DataInv
<1>2. QED
  BY <1>1 DEF DataInv

\* A symbol is defined, and its blob with it.
LEMMA OneMore ==
  ASSUME DataInv, NamedTable(table), UNCHANGED text, Keeps(table, table'),
         DOMAIN table'.symbols = DOMAIN table.symbols \union {Len(table.symbols) + 1},
         NEW relation \in 0..Len(text.relations),
         data' = Append(data, Linkage(relation))
  PROVE  DataInv'
<1>1. Linkage(relation) \in Blobs'
  <2>1. << >> \in Seq(RelationSymbols')
    OBVIOUS
  <2>2. QED
    BY <2>1 DEF Linkage, Blobs
<1>2. data \in Seq(Blobs')
  BY BlobsGrow DEF DataInv
<1>3. Len(data) = Len(table.symbols)
  <2>1. /\ DOMAIN data = DOMAIN table.symbols
        /\ DOMAIN table.symbols = 1..Len(table.symbols)
        /\ Len(table.symbols) \in Nat
    BY NamedPositions DEF DataInv
  <2>2. DOMAIN data = 1..Len(data) /\ Len(data) \in Nat
    BY <1>2
  <2>3. QED
    BY <2>1, <2>2
<1>4. /\ data' \in Seq(Blobs')
      /\ DOMAIN data' = DOMAIN data \union {Len(data) + 1}
  BY <1>1, <1>2
<1>5. QED
  BY <1>3, <1>4 DEF DataInv

LEMMA DefineRelationData ==
  ASSUME TableInv, DataInv, DefineRelation
  PROVE  DataInv'
<1> DEFINE name == text.relations[I].name
<1>1. /\ stage = "symbols" /\ todo # << >> /\ Head(todo).what = "relation"
      /\ UNCHANGED text
      /\ \/ UNCHANGED <<table, data>>
         \/ /\ LookupSymbolByName(table, name) = NoSymbol
            /\ table' = DefineSymbol(table, name, RelationLocation(I), "relation")
            /\ data' = Append(data, Linkage(I))
  BY DEF DefineRelation, On
<1>2. I \in 0..Len(text.relations)
  <2>1. Head(todo) \in VisitsOf("symbols")
    BY <1>1, LeftToDo DEF TableInv, TodoInv
  <2>2. I \in DOMAIN text.relations
    BY <1>1, <2>1 DEF VisitsOf, Visit, I
  <2>3. QED
    BY <2>2, SequenceHas DEF TableInv, IsText
<1> HIDE DEF name
<1>3. CASE UNCHANGED <<table, data>>
  BY <1>1, <1>3, KeepsItself, SameData
<1>4. CASE ~UNCHANGED <<table, data>>
  <2>1. /\ Keeps(table, table')
        /\ DOMAIN table'.symbols = DOMAIN table.symbols \union {Len(table.symbols) + 1}
    BY <1>1, <1>4, NamedDefine DEF TableInv
  <2>2. data' = Append(data, Linkage(I)) /\ NamedTable(table)
    BY <1>1, <1>4 DEF TableInv
  <2>3. QED
    BY <1>1, <1>2, <2>1, <2>2, OneMore
<1>5. QED
  BY <1>3, <1>4

LEMMA UpdateRelationSymbolData ==
  ASSUME TableInv, DataInv, UpdateRelationSymbol
  PROVE  DataInv'
<1> DEFINE name == text.pipelines[I][K]
           symbol == LookupSymbolByName(table, name)
<1>1. /\ UNCHANGED text
      /\ \/ /\ symbol = NoSymbol
            /\ table' = DefineSymbol(table, name, PipelineLocation(I, K), "relation")
            /\ data' = Append(data, Linkage(0))
         \/ /\ symbol # NoSymbol
            /\ table' = AddPermanentLocation(table, table.symbols[symbol],
                                             PipelineLocation(I, K))
            /\ UNCHANGED data
  BY DEF UpdateRelationSymbol, On
<1>2. NamedTable(table) /\ 0 \in 0..Len(text.relations)
  BY SequenceHas DEF TableInv, IsText
<1>3. symbol # NoSymbol => symbol \in DOMAIN table.symbols
  BY <1>2, NamedFound
<1>4. CASE symbol = NoSymbol
  <2>1. /\ Keeps(table, table')
        /\ DOMAIN table'.symbols = DOMAIN table.symbols \union {Len(table.symbols) + 1}
    BY <1>1, <1>2, <1>4, NamedDefine
  <2>2. QED
    BY <1>1, <1>2, <1>4, <2>1, OneMore
<1>5. CASE symbol # NoSymbol
  <2>1. /\ table' = AddPermanentLocation(table, table.symbols[symbol],
                                         PipelineLocation(I, K))
        /\ UNCHANGED <<text, data>>
    BY <1>1, <1>5
  <2> HIDE DEF symbol
  <2>2. Keeps(table, table') /\ DOMAIN table'.symbols = DOMAIN table.symbols
    BY <1>2, <1>3, <1>5, <2>1, NamedPermanent
  <2>3. QED
    BY <2>1, <2>2, SameData
<1>6. QED
  BY <1>4, <1>5

LEMMA TwoMore ==
  ASSUME NEW V, NEW s \in Seq(V), NEW a \in V, NEW b \in V
  PROVE  /\ s \o <<a, b>> \in Seq(V)
         /\ DOMAIN (s \o <<a, b>>) = 1..(Len(s) + 2)
<1>1. <<a, b>> \in Seq(V) /\ Len(<<a, b>>) = 2
  OBVIOUS
<1>2. s \o <<a, b>> \in Seq(V) /\ Len(s \o <<a, b>>) = Len(s) + 2
  BY <1>1
<1>3. QED
  BY <1>2

LEMMA ElementExcept ==
  ASSUME NEW V, NEW s \in Seq(V), NEW i \in DOMAIN s, NEW e \in V
  PROVE  /\ [s EXCEPT ![i] = e] \in Seq(V)
         /\ DOMAIN [s EXCEPT ![i] = e] = DOMAIN s
OBVIOUS

LEMMA DefineRootData ==
  ASSUME TableInv, TableInv', Keeps(table, table'), DataInv, DefineRoot
  PROVE  DataInv'
<1> DEFINE t == DefineSymbol(table, "root", RootLocation(I), "relation")
           u == DefineSymbol(t, "root.names", RootLocation(I), "root")
           a == Linkage(0)
           b == [Linkage(0) EXCEPT !.names = text.roots[I]]
<1>1. /\ stage = "symbols" /\ todo # << >> /\ Head(todo).what = "root"
      /\ UNCHANGED text
      /\ \/ UNCHANGED <<table, data>>
         \/ table' = u /\ data' = data \o <<a, b>>
  BY DEF DefineRoot, On
<1>2. I \in DOMAIN text.roots
  <2>1. Head(todo) \in VisitsOf("symbols")
    BY <1>1, LeftToDo DEF TableInv, TodoInv
  <2>2. QED
    BY <1>1, <2>1 DEF VisitsOf, Visit, I
<1>3. CASE UNCHANGED <<table, data>>
  BY <1>1, <1>3, SameData
<1>4. CASE table' = u /\ data' = data \o <<a, b>>
  <2>1. a \in Blobs' /\ b \in Blobs'
    <3>1. << >> \in Seq(RelationSymbols') /\ 0 \in 0..Len(text.relations)
      BY SequenceHas DEF TableInv, IsText
    <3>2. text.roots[I] \in ToSet(text.roots)
      BY <1>2 DEF ToSet
    <3>3. QED
      BY <1>1, <3>1, <3>2 DEF Linkage, Blobs
  <2>2. data \in Seq(Blobs')
    BY <1>1, BlobsGrow DEF DataInv
  <2> HIDE DEF a, b
  <2>3. data' \in Seq(Blobs') /\ DOMAIN data' = 1..(Len(data) + 2)
    BY <1>4, <2>1, <2>2, TwoMore
  <2>4. DOMAIN table'.symbols = 1..(Len(table.symbols) + 2)
    <3>1. IsSequence(table.symbols)
      BY DEF TableInv, NamedTable
    <3>2. /\ IsSequence(t.symbols)
          /\ Len(t.symbols) = Len(table.symbols) + 1
          /\ Len(table.symbols) \in Nat
      BY <3>1, SequenceAppend DEF DefineSymbol
    <3> HIDE DEF t
    <3>3. IsSequence(u.symbols) /\ Len(u.symbols) = Len(t.symbols) + 1
      BY <3>2, SequenceAppend DEF DefineSymbol
    <3>4. DOMAIN u.symbols = 1..Len(u.symbols)
      BY <3>3, SequenceHas
    <3>5. QED
      BY <1>4, <3>2, <3>3, <3>4
  <2>5. Len(data) = Len(table.symbols)
    <3>1. /\ DOMAIN data = DOMAIN table.symbols
          /\ DOMAIN table.symbols = 1..Len(table.symbols)
          /\ Len(table.symbols) \in Nat
      BY NamedPositions DEF DataInv, TableInv
    <3>2. DOMAIN data = 1..Len(data) /\ Len(data) \in Nat
      BY <2>2
    <3>3. QED
      BY <3>1, <3>2
  <2>6. QED
    BY <2>3, <2>4, <2>5 DEF DataInv
<1>5. QED
  BY <1>1, <1>3, <1>4

\* What the visit to a name's left makes of its blob.
LEMMA LinkedBlob ==
  ASSUME TableInv, DataInv, stage = "pipelines", todo # << >>, Head(todo).what = "link"
  PROVE  /\ I \in Lines /\ K \in Names(I)
         /\ \A k \in Names(I) : At(I, k) = Named(I, k) /\ Named(I, k) \in RelationSymbols
         /\ RelationSymbols \subseteq DOMAIN data
         /\ Linked(I, K) \in Blobs
<1> DEFINE line     == text.pipelines[I]
           old      == data[Named(I, K)]
           left     == At(I, K - 1)
           right    == At(I, K + 1)
           start    == IF data[right].pipelineStart # NoSymbol
                       THEN data[right].pipelineStart
                       ELSE right
<1>1. I \in Lines /\ K \in Names(I)
  BY OnLine
<1>2. ~PipelinesRead /\ \A k \in Names(I) : LookedUp(I, k)
  BY DEF PipelinesRead, LookedUp
<1>3. \A k \in Names(I) : At(I, k) = Named(I, k) /\ Named(I, k) \in RelationSymbols
  BY <1>1, <1>2, FoundOnLine
<1>4. RelationSymbols \subseteq DOMAIN data /\ \A s \in DOMAIN data : data[s] \in Blobs
  BY DEF DataInv, RelationSymbols
<1>5. /\ Len(line) \in Nat /\ K \in 1..Len(line)
      /\ K > 1 => K - 1 \in Names(I)
      /\ K < Len(line) => K + 1 \in Names(I)
  BY <1>1, TextShape DEF TableInv, Names
<1>6. old \in Blobs
  BY <1>1, <1>3, <1>4
<1>7. K > 1 => left \in RelationSymbols
  BY <1>3, <1>5
<1>8. K < Len(line) => start \in RelationSymbols
  <2>1. ASSUME K < Len(line)
        PROVE  start \in RelationSymbols
    <3>1. right \in RelationSymbols
      BY <1>3, <1>5, <2>1
    <3>2. data[right] \in Blobs
      BY <1>4, <3>1
    <3> HIDE DEF right
    <3>3. QED
      BY <3>1, <3>2 DEF Blobs
  <2>2. QED
    BY <2>1
<1>9. Linked(I, K) \in Blobs
  <2>1. Linked(I, K) =
          [old EXCEPT
             !.pipelineStart      = IF K < Len(line) THEN start ELSE @,
             !.newPipelines       = IF K > 1 /\ ~(K < Len(line)) THEN Append(@, left) ELSE @,
             !.continuingPipeline = IF K > 1 /\ K < Len(line) THEN left ELSE @]
    BY DEF Linked, Named
  <2> HIDE DEF line, old, left, start
  <2>2. K > 1 => Append(old.newPipelines, left) \in Seq(RelationSymbols)
    BY <1>6, <1>7 DEF Blobs
  <2>3. QED
    BY <1>6, <1>7, <1>8, <2>1, <2>2 DEF Blobs
<1>10. QED
  BY <1>1, <1>3, <1>4, <1>9

LEMMA VisitPipelineData ==
  ASSUME TableInv, DataInv, VisitPipeline
  PROVE  DataInv'
<1>1. /\ stage = "pipelines" /\ todo # << >> /\ Head(todo).what = "link"
      /\ UNCHANGED <<text, table>>
      /\ data' = data \/ data' = [data EXCEPT ![Named(I, K)] = Linked(I, K)]
  BY DEF VisitPipeline, On, Named
<1>2. /\ Named(I, K) \in DOMAIN data
      /\ Linked(I, K) \in Blobs
  BY <1>1, LinkedBlob
<1>3. Blobs' = Blobs
  BY <1>1 DEF Blobs, RelationSymbols
<1>4. data \in Seq(Blobs)
  BY DEF DataInv
<1>5. data' \in Seq(Blobs) /\ DOMAIN data' = DOMAIN data
  BY <1>1, <1>2, <1>4, ElementExcept
<1>6. QED
  BY <1>1, <1>3, <1>5 DEF DataInv

LEMMA VisitSubqueryData ==
  ASSUME TableInv, DataInv, VisitSubquery
  PROVE  DataInv'
<1> DEFINE use    == text.relations[I].uses[K]
           outer  == RelationAt(I)
           symbol == LookupSymbolByName(table, use.relation)
           b      == [data[outer] EXCEPT !.subQueryPipelines = Append(@, symbol)]
<1>1. /\ stage = "relations" /\ todo # << >> /\ Head(todo).what = "subquery"
      /\ UNCHANGED text
      /\ \/ data' = data
         \/ symbol # NoSymbol /\ data' = [data EXCEPT ![outer] = b]
  BY DEF VisitSubquery, On
<1>2. /\ I \in DOMAIN text.relations /\ outer # NoSymbol
      /\ K \in DOMAIN text.relations[I].uses
  BY <1>1, OnRelations
<1>3. use.relation # "root.names"
  BY <1>2, RelationShape DEF TableInv
<1>4. symbol # NoSymbol => symbol \in RelationSymbols
  BY <1>3, NamedFound DEF TableInv, TypesByName, RelationSymbols
<1>5. outer \in DOMAIN data
  BY <1>2, NamedAtLocation DEF TableInv, DataInv, RelationAt
<1>6. data \in Seq(Blobs) /\ data[outer] \in Blobs
  BY <1>5 DEF DataInv
<1> HIDE DEF use, outer, symbol
<1>7. symbol # NoSymbol => b \in Blobs
  <2>1. data[outer].subQueryPipelines \in Seq(RelationSymbols)
    BY <1>6 DEF Blobs
  <2>2. symbol # NoSymbol =>
          Append(data[outer].subQueryPipelines, symbol) \in Seq(RelationSymbols)
    BY <1>4, <2>1
  <2>3. QED
    BY <1>6, <2>2 DEF Blobs
<1> HIDE DEF b
<1>8. data' \in Seq(Blobs) /\ DOMAIN data' = DOMAIN data
  BY <1>1, <1>5, <1>6, <1>7, ElementExcept
<1>9. /\ Keeps(table, table')
      /\ DOMAIN table'.symbols = DOMAIN table.symbols
  BY VisitSubqueryTable
<1>10. data' \in Seq(Blobs')
  BY <1>1, <1>8, <1>9, BlobsGrow
<1>11. QED
  BY <1>8, <1>9, <1>10 DEF DataInv

\* The steps that define no symbol and change no link.
LinksNothing ==
  \/ BeginSymbols \/ BeginPipelines \/ BeginRelations \/ EnterRelation
  \/ BeginDetails \/ VisitDetails \/ BeginSubqueryDetails \/ VisitSubqueryDetails
  \/ VisitUse \/ BeginBuild \/ OutputToBinaryPlan \/ UNCHANGED parserVars

LEMMA LinksNothingData ==
  ASSUME TableInv, LinksNothing
  PROVE  /\ UNCHANGED <<text, data>>
         /\ DOMAIN table'.symbols = DOMAIN table.symbols
<1>1. CASE VisitDetails
  BY <1>1, VisitDetailsTable DEF VisitDetails, On
<1>2. CASE VisitSubqueryDetails
  BY <1>2, VisitSubqueryDetailsTable DEF VisitSubqueryDetails, On
<1>3. CASE VisitUse
  BY <1>3, VisitUseTable DEF VisitUse, On
<1>4. CASE ~(VisitDetails \/ VisitSubqueryDetails \/ VisitUse)
  BY <1>4 DEF LinksNothing, BeginSymbols, BeginPipelines, BeginRelations, EnterRelation, On,
     BeginDetails, BeginSubqueryDetails, BeginBuild, OutputToBinaryPlan, parserVars
<1>5. QED
  BY <1>1, <1>2, <1>3, <1>4

LEMMA DataInvStep ==
  ASSUME TableInv, DataInv, [Next]_parserVars
  PROVE  DataInv'
<1>1. TableInv' /\ Keeps(table, table')
  BY TableInvStep
<1>2. CASE DefineRelation
  BY <1>2, DefineRelationData
<1>3. CASE DefineRoot
  BY <1>1, <1>3, DefineRootData
<1>4. CASE UpdateRelationSymbol
  BY <1>4, UpdateRelationSymbolData
<1>5. CASE VisitPipeline
  BY <1>5, VisitPipelineData
<1>6. CASE VisitSubquery
  BY <1>6, VisitSubqueryData
<1>7. CASE LinksNothing
  BY <1>1, <1>7, LinksNothingData, SameData
<1>8. QED
  BY <1>2, <1>3, <1>4, <1>5, <1>6, <1>7 DEF Next, LinksNothing

\* What the building of a plan can come to.
LEMMA OutcomeHasStatus ==
  \A outcome \in Outcomes : outcome.status \in {"refused", "failed", "diverges", "built"}
<1> DEFINE built  == [i \in DOMAIN TopLevel |-> BuiltRoot(TopLevel[i])]
           broken == (IF \E s \in AllMet : Throws(s) THEN {Failed} ELSE {})
                       \union (IF \E s \in AllMet : BelowItself(s) THEN {Diverges} ELSE {})
<1>1. Outcomes = IF errors # {} THEN {Refused}
                 ELSE IF broken # {} THEN broken ELSE {Result("built", built)}
  BY DEF Outcomes
<1>2. broken \subseteq {Failed, Diverges}
  OBVIOUS
<1> HIDE DEF built, broken
<1>3. Outcomes \subseteq {Refused, Failed, Diverges, Result("built", built)}
  BY <1>1, <1>2
<1>4. QED
  BY <1>3 DEF Result, Refused, Failed, Diverges

\* No step takes an error back.
LEMMA ErrorsGrow ==
  ASSUME [Next]_parserVars
  PROVE  errors \subseteq errors' /\ errors' \subseteq errors \union Reported
<1>1. CASE DefineRelation
  BY <1>1 DEF DefineRelation, Reported
<1>2. CASE DefineRoot
  <2> DEFINE error == IF LookupSymbolByName(table, "root.names") # NoSymbol
                      THEN {SecondRoot}
                      ELSE IF LookupSymbolByName(table, "root") # NoSymbol
                      THEN {RootTaken} ELSE {}
  <2>1. errors' = errors \union error \/ errors' = errors
    BY <1>2 DEF DefineRoot
  <2>2. error \subseteq {SecondRoot, RootTaken}
    OBVIOUS
  <2> HIDE DEF error
  <2>3. QED
    BY <2>1, <2>2 DEF Reported
<1>3. CASE VisitPipeline
  <2>1. LinkErrors(I, K) \subseteq {NonTerminating, InPipeline}
    BY DEF LinkErrors
  <2>2. QED
    BY <1>3, <2>1 DEF VisitPipeline, Reported
<1>4. CASE EnterRelation
  BY <1>4 DEF EnterRelation, Reported
<1>5. CASE VisitSubquery
  <2>1. errors' = errors \/ errors' = errors \union {WentMissing}
    BY <1>5 DEF VisitSubquery
  <2>2. QED
    BY <2>1 DEF Reported
<1>6. CASE VisitDetails
  BY <1>6 DEF VisitDetails, Reported
<1>7. CASE VisitUse
  BY <1>7 DEF VisitUse, Reported
<1>8. CASE UpdateRelationSymbol
  BY <1>8 DEF UpdateRelationSymbol
<1>9. CASE VisitSubqueryDetails
  BY <1>9 DEF VisitSubqueryDetails
<1>10. CASE \/ BeginSymbols \/ BeginPipelines \/ BeginRelations \/ BeginDetails
            \/ BeginSubqueryDetails \/ BeginBuild \/ OutputToBinaryPlan
            \/ UNCHANGED parserVars
  BY <1>10 DEF BeginSymbols, BeginPipelines, BeginRelations, BeginDetails,
     BeginSubqueryDetails, BeginBuild, OutputToBinaryPlan, parserVars
<1>11. QED
  BY <1>1, <1>2, <1>3, <1>4, <1>5, <1>6, <1>7, <1>8, <1>9, <1>10 DEF Next

LEMMA ResultInvStep ==
  ASSUME TableInv, ResultInv, [Next]_parserVars
  PROVE  ResultInv'
<1>1. CASE OutputToBinaryPlan
  <2>1. /\ output' \in Outcomes /\ stage' = "done" /\ UNCHANGED errors
    BY <1>1 DEF OutputToBinaryPlan
  <2>2. output'.status \in {"refused", "failed", "diverges", "built"}
    BY <2>1, OutcomeHasStatus
  <2>3. output' # NotBuilt
    BY <2>2 DEF NotBuilt, Result
  <2>4. QED
    BY <2>1, <2>2, <2>3 DEF ResultInv
<1>2. CASE UNCHANGED parserVars
  BY <1>2 DEF parserVars, ResultInv
<1>3. CASE ~OutputToBinaryPlan /\ ~UNCHANGED parserVars
  <2>1. UNCHANGED output /\ (stage' = "done" <=> stage = "done")
    BY <1>3 DEF Next, BeginSymbols, DefineRelation, DefineRoot, BeginPipelines,
       UpdateRelationSymbol, VisitPipeline, BeginRelations, EnterRelation, VisitSubquery,
       BeginDetails, VisitDetails, BeginSubqueryDetails, VisitSubqueryDetails, VisitUse,
       BeginBuild, On
  <2>2. errors' \subseteq errors \union Reported
    BY ErrorsGrow
  <2>3. QED
    BY <2>1, <2>2 DEF ResultInv
<1>4. QED
  BY <1>1, <1>2, <1>3

LEMMA TypesInvInit == Init => TypesInv
<1> SUFFICES ASSUME Init PROVE TypesInv
  OBVIOUS
<1>1. TableInv
  BY TableInvInit
<1>2. /\ stage = "open" /\ table = EmptyTable /\ data = << >>
      /\ errors = {} /\ output = NotBuilt
  BY DEF Init, ParserInit
<1>3. DataInv
  BY <1>2 DEF DataInv, EmptyTable
<1>4. ResultInv
  BY <1>2 DEF ResultInv, NotBuilt, Result
<1>5. QED
  BY <1>1, <1>3, <1>4 DEF TypesInv

LEMMA TypesInvStep == TypesInv /\ [Next]_parserVars => TypesInv'
BY TableInvStep, DataInvStep, ResultInvStep DEF TypesInv

LEMMA TypesInvAlways == Spec => []TypesInv
BY TypesInvInit, TypesInvStep, PTL DEF Spec

LEMMA TypesInvTypes == TypesInv => ParserTypeOK
<1> SUFFICES ASSUME TypesInv PROVE ParserTypeOK
  OBVIOUS
<1>1. TableInv /\ DataInv /\ ResultInv
  BY DEF TypesInv
<1>2. ASSUME NEW s \in DOMAIN data
      PROVE  /\ {data[s].pipelineStart, data[s].continuingPipeline}
                  \subseteq RelationSymbols \union {NoSymbol}
             /\ ToSet(data[s].newPipelines) \subseteq RelationSymbols
             /\ ToSet(data[s].subQueryPipelines) \subseteq RelationSymbols
             /\ data[s].relation \in 0..Len(text.relations)
  <2>1. data[s] \in Blobs
    BY <1>1 DEF DataInv
  <2>2. \A t \in Seq(RelationSymbols) : ToSet(t) \subseteq RelationSymbols
    BY DEF ToSet
  <2>3. QED
    BY <2>1, <2>2 DEF Blobs
<1>3. stage \in Stages /\ DOMAIN data = DOMAIN table.symbols
  BY <1>1 DEF TableInv, DataInv
<1>4. QED
  BY <1>1, <1>2, <1>3 DEF ParserTypeOK, ResultInv, Reported, Stages

\* Whatever text is parsed, every symbol has a blob and every link leads to
\* the symbol of a relation: no pass of the parser, and not the builder,
\* follows a pointer to a symbol that is not there, or to the one of the names
\* of the root, which has no RelationData.
THEOREM ParserTypesCorrect == Spec => []ParserTypeOK
BY TypesInvAlways, TypesInvTypes, PTL

-----------------------------------------------------------------------------
(***************************************************************************)
(* The arrows.                                                             *)
(***************************************************************************)

\* What is linked has been looked up, and so has what is on its left.
LEMMA LinkedIsLookedUp ==
  ASSUME TableInv, NEW l \in Lines, NEW k \in Names(l), k > 1, LinkedYet(l, k)
  PROVE  /\ k \in Nat /\ k - 1 \in Names(l)
         /\ LookedUp(l, k) /\ LookedUp(l, k - 1)
<1>1. k \in Nat /\ k - 1 \in Names(l)
  BY TextShape DEF TableInv, Names
<1>2. QED
  BY <1>1 DEF LinkedYet, LookedUp

\* Every arrow that is linked, as ArrowsInv has it.
ArrowsKept ==
  \A l \in Lines : \A k \in Names(l) : k > 1 /\ LinkedYet(l, k) => ArrowKept(l, k)

\* The two links an arrow can be.
SameArrows(s) ==
  /\ data'[s].continuingPipeline = data[s].continuingPipeline
  /\ data'[s].newPipelines = data[s].newPipelines

LEMMA NamedStays ==
  ASSUME TableInv, TableInv', Keeps(table, table'), UNCHANGED text,
         NEW l \in Lines, NEW k \in Names(l), LookedUp(l, k)
  PROVE  Named(l, k)' = Named(l, k)
<1>1. Named(l, k) # NoSymbol
  BY DEF TableInv, PlacesInv
<1>2. NamedTable(table) /\ NamedTable(table')
  BY DEF TableInv
<1>3. QED
  BY <1>1, <1>2, KeepsFinds DEF Named

LEMMA ArrowsStay ==
  ASSUME TableInv, TableInv', Keeps(table, table'), ArrowsKept, UNCHANGED text,
         RelationSymbols \subseteq DOMAIN data,
         \A s \in DOMAIN data : SameArrows(s),
         \A l \in Lines : \A k \in Names(l) :
           k > 1 /\ LinkedYet(l, k)' => LinkedYet(l, k)
  PROVE  ArrowsKept'
<1>1. Lines' = Lines /\ \A l \in Lines : Names(l)' = Names(l)
  BY DEF Lines, Names
<1>2. ASSUME NEW l \in Lines, NEW k \in Names(l), k > 1, LinkedYet(l, k)
      PROVE  ArrowKept(l, k)'
  <2>1. k - 1 \in Names(l) /\ LookedUp(l, k) /\ LookedUp(l, k - 1)
    BY <1>2, LinkedIsLookedUp
  <2>2. Named(l, k) \in DOMAIN data
    BY <2>1, FoundOnLine
  <2>3. Named(l, k)' = Named(l, k) /\ Named(l, k - 1)' = Named(l, k - 1)
    BY <2>1, NamedStays
  <2>4. SameArrows(Named(l, k))
    BY <2>2
  <2>5. ArrowKept(l, k)
    BY <1>2 DEF ArrowsKept
  <2>6. QED
    BY <2>3, <2>4, <2>5 DEF ArrowKept, SameArrows
<1>3. QED
  BY <1>1, <1>2 DEF ArrowsKept

\* Symbols that continue nothing are no way around.
LEMMA EndsStay ==
  ASSUME PipelinesEnd, errors \subseteq errors', NoSymbol \notin DOMAIN data',
         \A s \in DOMAIN data : SameArrows(s),
         \A s \in DOMAIN data' : s \notin DOMAIN data =>
           data'[s].continuingPipeline = NoSymbol
  PROVE  PipelinesEnd'
<1> SUFFICES ASSUME errors' = {}, NEW S \in SUBSET DOMAIN data', S # {}
             PROVE  \E s \in S : data'[s].continuingPipeline \notin S
  BY DEF PipelinesEnd
<1>1. CASE S \subseteq DOMAIN data
  <2>1. PICK s \in S : data[s].continuingPipeline \notin S
    BY <1>1 DEF PipelinesEnd
  <2>2. QED
    BY <1>1, <2>1 DEF SameArrows
<1>2. CASE ~(S \subseteq DOMAIN data)
  <2>1. PICK s \in S : s \notin DOMAIN data
    BY <1>2
  <2>2. data'[s].continuingPipeline \notin S
    BY <2>1
  <2>3. QED
    BY <2>2
<1>3. QED
  BY <1>1, <1>2

\* What no step but VisitPipeline changes.
LEMMA NoLink ==
  ASSUME TableInv, DataInv, [Next]_parserVars, ~VisitPipeline
  PROVE  /\ \A s \in DOMAIN data : SameArrows(s)
         /\ \A s \in DOMAIN data' : s \notin DOMAIN data =>
              data'[s].continuingPipeline = NoSymbol
<1>1. data \in Seq(Blobs)
  BY DEF DataInv
<1>2. ASSUME NEW b, data' = Append(data, b), b.continuingPipeline = NoSymbol
      PROVE  /\ \A s \in DOMAIN data : SameArrows(s)
             /\ \A s \in DOMAIN data' : s \notin DOMAIN data =>
                  data'[s].continuingPipeline = NoSymbol
  <2>1. IsSequence(data)
    BY <1>1 DEF IsSequence, ToSet
  <2>2. /\ DOMAIN data' = DOMAIN data \union {Len(data) + 1}
        /\ \A s \in DOMAIN data : data'[s] = data[s]
        /\ data'[Len(data) + 1] = b
    BY <1>2, <2>1, SequenceAppend
  <2>3. QED
    BY <1>2, <2>2 DEF SameArrows
<1>3. \A i : Linkage(i).continuingPipeline = NoSymbol
  BY DEF Linkage
<1>4. CASE data' = data
  BY <1>4 DEF SameArrows
<1>5. CASE DefineRelation
  <2>1. data' = data \/ data' = Append(data, Linkage(I))
    BY <1>5 DEF DefineRelation
  <2>2. QED
    BY <1>2, <1>3, <1>4, <2>1
<1>6. CASE UpdateRelationSymbol
  <2>1. data' = data \/ data' = Append(data, Linkage(0))
    BY <1>6 DEF UpdateRelationSymbol
  <2>2. QED
    BY <1>2, <1>3, <1>4, <2>1
<1>7. CASE DefineRoot
  <2> DEFINE b == [Linkage(0) EXCEPT !.names = text.roots[I]]
  <2>1. data' = data \/ data' = data \o <<Linkage(0), b>>
    BY <1>7 DEF DefineRoot
  <2>2. b.continuingPipeline = NoSymbol
    BY DEF Linkage
  <2> HIDE DEF b
  <2>3. CASE data' = data \o <<Linkage(0), b>>
    <3>1. /\ DOMAIN data = 1..Len(data) /\ Len(data) \in Nat
          /\ DOMAIN data' = 1..(Len(data) + 2)
          /\ \A s \in 1..Len(data) : data'[s] = data[s]
          /\ data'[Len(data) + 1] = Linkage(0)
          /\ data'[Len(data) + 2] = b
      BY <1>1, <2>3
    <3>2. QED
      BY <1>3, <2>2, <3>1 DEF SameArrows
  <2>4. QED
    BY <1>4, <2>1, <2>3
<1>8. CASE VisitSubquery
  <2>1. PICK i, p : \/ data' = data
                    \/ data' = [data EXCEPT ![i].subQueryPipelines = p]
    BY <1>8 DEF VisitSubquery
  <2>2. CASE data' = [data EXCEPT ![i].subQueryPipelines = p]
    <3>1. ASSUME NEW s \in DOMAIN data
          PROVE  SameArrows(s)
      <4>1. data[s] \in Blobs
        BY <1>1
      <4>2. data'[s] = data[s] \/ data'[s] = [data[s] EXCEPT !.subQueryPipelines = p]
        BY <2>2
      <4>3. QED
        BY <4>1, <4>2 DEF SameArrows, Blobs
    <3>2. DOMAIN data' = DOMAIN data
      BY <2>2
    <3>3. QED
      BY <3>1, <3>2
  <2>3. QED
    BY <1>4, <2>1, <2>2
<1>9. CASE LinksNothing
  BY <1>4, <1>9, LinksNothingData
<1>10. QED
  BY <1>5, <1>6, <1>7, <1>8, <1>9 DEF Next, LinksNothing

\* No step but VisitPipeline links a name or goes on to the right of one.
LEMMA NotLinkedYet ==
  ASSUME TableInv, [Next]_parserVars, ~VisitPipeline
  PROVE  /\ UNCHANGED text
         /\ \A l \in Lines : \A k \in Names(l) :
              k > 1 /\ LinkedYet(l, k)' => LinkedYet(l, k)
         /\ errors' = {} /\ ArrowsInv => LineInv'
<1>1. CASE BeginPipelines
  <2>1. /\ stage' = "pipelines" /\ UNCHANGED text
        /\ todo' = [l \in Lines |-> VisitLine(l)]
        /\ Lines = 1..Len(text.pipelines) /\ Len(text.pipelines) \in Nat
    BY <1>1, TextShape DEF BeginPipelines, Lines, TableInv
  <2>2. \A l \in Lines : /\ VisitLine(l).i = l
                         /\ VisitLine(l).what = "name"
    BY DEF VisitLine, Visit
  <2>3. todo' # << >> => Head(todo').i = 1 /\ Head(todo').what = "name"
    <3>1. ASSUME todo' # << >>
          PROVE  Head(todo').i = 1 /\ Head(todo').what = "name"
      <4>1. Lines # {}
        BY <2>1, <3>1
      <4>2. 1 \in Lines
        BY <2>1, <4>1
      <4>3. Head(todo') = VisitLine(1)
        BY <2>1, <4>2
      <4>4. QED
        BY <2>2, <4>2, <4>3
    <3>2. QED
      BY <3>1
  <2>4. ASSUME NEW l \in Lines, NEW k \in Names(l)
        PROVE  ~LinkedYet(l, k)'
    <3>1. Lines # {} /\ ~(l < 1)
      BY <2>1
    <3>2. todo' # << >>
      BY <2>1, <3>1
    <3>3. QED
      BY <2>1, <2>3, <3>1, <3>2 DEF LinkedYet, PipelinesRead, I, K
  <2>5. LineInv'
    BY <2>3 DEF LineInv
  <2>6. QED
    BY <2>1, <2>4, <2>5
<1>2. CASE UpdateRelationSymbol
  <2>1. /\ stage = "pipelines" /\ todo # << >> /\ Head(todo).what = "name"
        /\ UNCHANGED <<text, stage>> /\ todo' = VisitLeft(I, K) \o Tail(todo)
    BY <1>2 DEF UpdateRelationSymbol, On, Descend
  <2>2. I \in Lines /\ K \in Names(I) /\ K \in Nat \ {0}
    BY <2>1, OnLine, TextShape DEF TableInv, Names
  <2>3. /\ todo' # << >>
        /\ Head(todo') = IF K > 1 THEN Visit("name", I, K - 1) ELSE Visit("link", I, K)
    BY <2>1, StackDescends
  <2>4. /\ I' = I
        /\ IF K > 1 THEN Head(todo').what = "name"
           ELSE Head(todo').what = "link" /\ K' = 1
    BY <2>2, <2>3 DEF Visit, I, K
  <2>5. ASSUME NEW l \in Lines, NEW k \in Names(l), k > 1, LinkedYet(l, k)'
        PROVE  LinkedYet(l, k)
    <3>1. l < I' \/ (l = I' /\ Head(todo').what = "link" /\ k < K')
      BY <2>1, <2>3, <2>5 DEF LinkedYet, PipelinesRead
    <3>2. k \in Nat
      BY TextShape DEF TableInv, Names
    <3>3. l < I
      BY <2>4, <2>5, <3>1, <3>2
    <3>4. QED
      BY <2>1, <3>3 DEF LinkedYet
  <2>6. LineInv'
    BY <2>4 DEF LineInv
  <2>7. QED
    BY <2>1, <2>5, <2>6
<1>3. CASE BeginRelations
  <2>1. /\ stage = "pipelines" /\ todo = << >> /\ stage' = "relations" /\ UNCHANGED text
    BY <1>3 DEF BeginRelations
  <2>2. QED
    BY <2>1 DEF LinkedYet, LineInv
<1>4. CASE BeginSymbols \/ DefineRelation \/ DefineRoot
  <2>1. stage' = "symbols" /\ UNCHANGED text
    BY <1>4 DEF BeginSymbols, DefineRelation, DefineRoot, On
  <2>2. QED
    BY <2>1 DEF LinkedYet, LineInv, PipelinesRead
<1>5. CASE \/ EnterRelation \/ VisitSubquery \/ BeginDetails \/ VisitDetails
           \/ BeginSubqueryDetails \/ VisitSubqueryDetails \/ VisitUse \/ BeginBuild
           \/ OutputToBinaryPlan
  <2>1. PipelinesRead /\ stage' # "pipelines" /\ UNCHANGED text
    <3>1. CASE EnterRelation \/ VisitSubquery \/ VisitDetails \/ VisitSubqueryDetails \/ VisitUse
      BY <3>1 DEF EnterRelation, VisitSubquery, VisitDetails, VisitSubqueryDetails, VisitUse,
         On, PipelinesRead
    <3>2. CASE BeginDetails \/ BeginSubqueryDetails \/ BeginBuild \/ OutputToBinaryPlan
      BY <3>2 DEF BeginDetails, BeginSubqueryDetails, BeginBuild, OutputToBinaryPlan,
         PipelinesRead
    <3>3. QED
      BY <1>5, <3>1, <3>2
  <2>2. QED
    BY <2>1 DEF LinkedYet, LineInv
<1>6. CASE UNCHANGED parserVars
  <2>1. UNCHANGED <<text, stage, todo, table, data, errors>>
    BY <1>6 DEF parserVars
  <2>2. \A l \in Lines : \A k \in Names(l) : LinkedYet(l, k)' <=> LinkedYet(l, k)
    BY <2>1 DEF LinkedYet, PipelinesRead, I, K
  <2>3. errors = {} /\ ArrowsInv => LineInv'
    BY <2>1 DEF ArrowsInv, LineInv, I, K, Named
  <2>4. QED
    BY <2>1, <2>2, <2>3
<1>7. QED
  BY <1>1, <1>2, <1>3, <1>4, <1>5, <1>6 DEF Next

\* The link of a name that has met no error.
LEMMA LinkMade ==
  ASSUME TableInv, DataInv, VisitPipeline, errors' = {}
  PROVE  /\ errors = {}
         /\ stage = "pipelines" /\ todo # << >> /\ Head(todo).what = "link"
         /\ UNCHANGED <<text, stage, table>> /\ todo' = Tail(todo)
         /\ data[Named(I, K)].continuingPipeline = NoSymbol
         /\ ~ContinuingPipelineContains(text.pipelines[I], K, text.pipelines[I][K])
         /\ DOMAIN data' = DOMAIN data
         /\ \A s \in DOMAIN data : s # Named(I, K) => data'[s] = data[s]
         /\ data'[Named(I, K)].continuingPipeline =
              IF K > 1 /\ K < Len(text.pipelines[I]) THEN Named(I, K - 1) ELSE NoSymbol
         /\ data'[Named(I, K)].newPipelines =
              IF K > 1 /\ ~(K < Len(text.pipelines[I]))
              THEN Append(data[Named(I, K)].newPipelines, Named(I, K - 1))
              ELSE data[Named(I, K)].newPipelines
<1>1. /\ stage = "pipelines" /\ todo # << >> /\ Head(todo).what = "link"
      /\ UNCHANGED <<text, stage, table>> /\ todo' = Tail(todo)
      /\ errors' = errors \union LinkErrors(I, K)
      /\ data' = IF LinkErrors(I, K) # {} THEN data
                 ELSE [data EXCEPT ![Named(I, K)] = Linked(I, K)]
  BY DEF VisitPipeline, On, GoOn, Named
<1>2. errors = {} /\ LinkErrors(I, K) = {}
  BY <1>1
<1>3. /\ data[Named(I, K)].continuingPipeline = NoSymbol
      /\ ~ContinuingPipelineContains(text.pipelines[I], K, text.pipelines[I][K])
  BY <1>2 DEF LinkErrors, Named
<1>4. /\ I \in Lines /\ K \in Names(I)
      /\ \A k \in Names(I) : At(I, k) = Named(I, k) /\ Named(I, k) \in RelationSymbols
      /\ RelationSymbols \subseteq DOMAIN data
  BY <1>1, LinkedBlob
<1>5. Named(I, K) \in DOMAIN data /\ data[Named(I, K)] \in Blobs
  BY <1>4 DEF DataInv
<1>6. data' = [data EXCEPT ![Named(I, K)] = Linked(I, K)]
  BY <1>1, <1>2
<1>7. K > 1 => At(I, K - 1) = Named(I, K - 1)
  BY <1>4, TextShape DEF TableInv, Names
<1>8. /\ Linked(I, K).continuingPipeline =
           IF K > 1 /\ K < Len(text.pipelines[I]) THEN Named(I, K - 1) ELSE NoSymbol
      /\ Linked(I, K).newPipelines =
           IF K > 1 /\ ~(K < Len(text.pipelines[I]))
           THEN Append(data[Named(I, K)].newPipelines, Named(I, K - 1))
           ELSE data[Named(I, K)].newPipelines
  <2> DEFINE line  == text.pipelines[I]
             old   == data[Named(I, K)]
             right == At(I, K + 1)
             start == IF data[right].pipelineStart # NoSymbol
                      THEN data[right].pipelineStart
                      ELSE right
  <2>1. Linked(I, K) =
          [old EXCEPT
             !.pipelineStart      = IF K < Len(line) THEN start ELSE @,
             !.newPipelines       = IF K > 1 /\ ~(K < Len(line))
                                    THEN Append(@, At(I, K - 1)) ELSE @,
             !.continuingPipeline = IF K > 1 /\ K < Len(line) THEN At(I, K - 1) ELSE @]
    BY DEF Linked, Named
  <2> HIDE DEF line, old, start
  <2>2. old \in Blobs /\ old.continuingPipeline = NoSymbol
    BY <1>3, <1>5 DEF old
  <2>3. /\ Linked(I, K).continuingPipeline =
             IF K > 1 /\ K < Len(line) THEN At(I, K - 1) ELSE NoSymbol
        /\ Linked(I, K).newPipelines =
             IF K > 1 /\ ~(K < Len(line)) THEN Append(old.newPipelines, At(I, K - 1))
             ELSE old.newPipelines
    BY <2>1, <2>2 DEF Blobs
  <2>4. QED
    BY <1>7, <2>3 DEF line, old
<1>9. QED
  BY <1>1, <1>2, <1>3, <1>5, <1>6, <1>8

\* A name that does not come again is not the name of what is on its right.
LEMMA OtherThere ==
  ASSUME TableInv, NEW l \in Lines, NEW j \in Names(l), NEW k \in Names(l), j < k,
         LookedUp(l, j), LookedUp(l, k),
         ~ContinuingPipelineContains(text.pipelines[l], j, text.pipelines[l][j])
  PROVE  Named(l, j) # Named(l, k)
<1>1. text.pipelines[l][k] # text.pipelines[l][j]
  <2>1. k \in (j + 1)..Len(text.pipelines[l])
    BY TextShape DEF TableInv, Names
  <2>2. QED
    BY <2>1 DEF ContinuingPipelineContains
<1>2. \A i \in {j, k} : table.symbols[Named(l, i)].name = text.pipelines[l][i]
  BY NamedFound DEF TableInv, PlacesInv, Named
<1>3. QED
  BY <1>1, <1>2

\* What VisitPipeline goes on to.
LEMMA LinkGoesOn ==
  ASSUME TableInv, stage = "pipelines", todo # << >>, Head(todo).what = "link",
         UNCHANGED <<text, stage>>, todo' = Tail(todo)
  PROVE  /\ \A l \in Lines : \A k \in Names(l) :
              LinkedYet(l, k)' => LinkedYet(l, k) \/ (l = I /\ k = K)
         /\ todo' # << >> /\ Head(todo').what = "link" => I' = I /\ K' = K + 1
<1> DEFINE rest == Tail(todo)
           v == Head(rest)
<1>1. /\ I \in Lines /\ K \in Names(I)
      /\ IF rest = << >>
         THEN I = Len(text.pipelines) /\ K = Len(text.pipelines[I])
         ELSE v = After(Head(todo))
  BY OnLine
<1>2. /\ Len(text.pipelines) \in Nat
      /\ Lines = 1..Len(text.pipelines)
      /\ \A l \in Lines : Len(text.pipelines[l]) \in Nat \ {0}
  BY TextShape DEF TableInv
<1>3. K \in Nat /\ K <= Len(text.pipelines[I])
  BY <1>1, <1>2 DEF Names
<1>4. rest # << >> /\ K < Len(text.pipelines[I]) =>
        I' = I /\ K' = K + 1 /\ v.what = "link"
  <2>1. K < Len(text.pipelines[I]) => After(Head(todo)) = Visit("link", I, K + 1)
    BY DEF After, I, K
  <2>2. I' = v.i /\ K' = v.k
    BY DEF I, K
  <2> HIDE DEF rest, v
  <2>3. QED
    BY <1>1, <2>1, <2>2 DEF Visit
<1>5. rest # << >> /\ ~(K < Len(text.pipelines[I])) =>
        I' = I + 1 /\ v.what = "name"
  <2>1. ~(K < Len(text.pipelines[I])) => After(Head(todo)) = VisitLine(I + 1)
    BY DEF After, I, K
  <2>2. I' = v.i
    BY DEF I
  <2> HIDE DEF rest, v
  <2>3. QED
    BY <1>1, <2>1, <2>2 DEF VisitLine, Visit
<1>6. ASSUME NEW l \in Lines, NEW k \in Names(l), LinkedYet(l, k)'
      PROVE  LinkedYet(l, k) \/ (l = I /\ k = K)
  <2>1. l \in Nat /\ I \in Nat /\ k \in Nat /\ k <= Len(text.pipelines[l])
    BY <1>1, <1>2 DEF Names
  <2>2. LinkedYet(l, k) <=> l < I \/ (l = I /\ k < K)
    BY DEF LinkedYet, PipelinesRead
  <2>3. rest # << >> => l < I' \/ (l = I' /\ v.what = "link" /\ k < K')
    BY <1>6 DEF LinkedYet, PipelinesRead
  <2> HIDE DEF rest, v
  <2>4. CASE rest = << >>
    BY <1>1, <1>2, <1>3, <2>1, <2>2, <2>4
  <2>5. CASE rest # << >> /\ K < Len(text.pipelines[I])
    BY <1>3, <1>4, <2>1, <2>2, <2>3, <2>5
  <2>6. CASE rest # << >> /\ ~(K < Len(text.pipelines[I]))
    <3>1. l < I + 1
      BY <1>5, <2>3, <2>6
    <3>2. l = I => k <= K
      BY <1>3, <2>1, <2>6
    <3>3. QED
      BY <1>3, <2>1, <2>2, <3>1, <3>2
  <2>7. QED
    BY <2>4, <2>5, <2>6
<1>7. QED
  BY <1>4, <1>5, <1>6

\* Linking a name keeps the arrows of the names linked before: what continues
\* something is not linked again.
LEMMA VisitPipelineArrows ==
  ASSUME TableInv, TableInv', DataInv, ArrowsInv, VisitPipeline, errors' = {}
  PROVE  ArrowsKept' /\ LineInv'
<1>0. PICK i, n : i = I /\ n = K
  OBVIOUS
<1> DEFINE x == Named(i, n)
           line == text.pipelines[i]
<1>1. /\ errors = {}
      /\ stage = "pipelines" /\ todo # << >> /\ Head(todo).what = "link"
      /\ UNCHANGED <<text, stage, table>> /\ todo' = Tail(todo)
      /\ data[x].continuingPipeline = NoSymbol
      /\ ~ContinuingPipelineContains(line, n, line[n])
      /\ \A s \in DOMAIN data : s # x => data'[s] = data[s]
      /\ data'[x].continuingPipeline =
           IF n > 1 /\ n < Len(line) THEN Named(i, n - 1) ELSE NoSymbol
      /\ data'[x].newPipelines =
           IF n > 1 /\ ~(n < Len(line)) THEN Append(data[x].newPipelines, Named(i, n - 1))
           ELSE data[x].newPipelines
  BY <1>0, LinkMade
<1>2. /\ i \in Lines /\ n \in Names(i)
      /\ RelationSymbols \subseteq DOMAIN data
  BY <1>0, <1>1, LinkedBlob
<1>3. ArrowsKept /\ LineInv
  BY <1>1 DEF ArrowsInv, ArrowsKept
<1>4. \A l \in Lines : \A k \in Names(l) :
        /\ LookedUp(l, k) => Named(l, k) \in RelationSymbols
        /\ Named(l, k)' = Named(l, k)
  BY <1>1, FoundOnLine DEF Named
<1>5. /\ Lines' = Lines
      /\ \A l \in Lines : Names(l)' = Names(l) /\ text'.pipelines[l] = text.pipelines[l]
  BY <1>1 DEF Lines, Names
<1>6. /\ \A l \in Lines : \A k \in Names(l) :
           LinkedYet(l, k)' => LinkedYet(l, k) \/ (l = i /\ k = n)
      /\ todo' # << >> /\ Head(todo').what = "link" => I' = i /\ K' = n + 1
  BY <1>0, <1>1, LinkGoesOn
<1>7. \A k \in Names(i) : LookedUp(i, k) /\ Named(i, k) \in RelationSymbols
  BY <1>0, <1>1, <1>2, <1>4 DEF LookedUp
<1>8. /\ Len(line) \in Nat /\ Names(i) = 1..Len(line)
      /\ n > 1 => n - 1 \in Names(i)
  BY <1>2, TextShape DEF TableInv, Names
<1>9. x \in DOMAIN data /\ data[x].newPipelines \in Seq(RelationSymbols)
  <2>1. x \in DOMAIN data
    BY <1>2, <1>7
  <2> HIDE DEF x
  <2>2. data[x] \in Blobs
    BY <2>1 DEF DataInv
  <2>3. QED
    BY <2>1, <2>2 DEF Blobs
<1>10. ASSUME NEW l \in Lines, NEW k \in Names(l), k > 1
       PROVE  ArrowKept(l, k)' <=>
                IF k < Len(text.pipelines[l])
                THEN data'[Named(l, k)].continuingPipeline = Named(l, k - 1)
                ELSE \E j \in DOMAIN data'[Named(l, k)].newPipelines :
                       data'[Named(l, k)].newPipelines[j] = Named(l, k - 1)
  <2>1. k - 1 \in Names(l)
    BY <1>10, TextShape DEF TableInv, Names
  <2>2. Named(l, k)' = Named(l, k) /\ Named(l, k - 1)' = Named(l, k - 1)
    BY <1>4, <2>1
  <2>3. QED
    BY <1>5, <2>2 DEF ArrowKept
<1> HIDE DEF x, line
<1>11. ASSUME n > 1
       PROVE  ArrowKept(i, n)'
  <2>1. CASE n < Len(line)
    <3>1. data'[x].continuingPipeline = Named(i, n - 1)
      BY <1>1, <1>11, <2>1
    <3>2. QED
      BY <1>2, <1>10, <1>11, <2>1, <3>1 DEF x, line
  <2>2. CASE ~(n < Len(line))
    <3> DEFINE old == data[x].newPipelines
               new == data'[x].newPipelines
    <3>1. new = Append(old, Named(i, n - 1)) /\ Named(i, n - 1) \in RelationSymbols
      BY <1>1, <1>7, <1>8, <1>11, <2>2
    <3>2. Len(old) + 1 \in DOMAIN new /\ new[Len(old) + 1] = Named(i, n - 1)
      BY <1>9, <3>1
    <3>3. \E j \in DOMAIN new : new[j] = Named(i, n - 1)
      BY <3>2
    <3>4. QED
      BY <1>2, <1>10, <1>11, <2>2, <3>3 DEF x, line
  <2>3. QED
    BY <2>1, <2>2
<1>12. ASSUME NEW l \in Lines, NEW k \in Names(l), k > 1, LinkedYet(l, k)
       PROVE  ArrowKept(l, k)'
  <2>1. k - 1 \in Names(l) /\ LookedUp(l, k) /\ LookedUp(l, k - 1)
    BY <1>12, LinkedIsLookedUp
  <2>2. Named(l, k) \in DOMAIN data /\ Named(l, k - 1) # NoSymbol
    BY <1>2, <1>4, <2>1 DEF TableInv, PlacesInv
  <2>3. ArrowKept(l, k)
    BY <1>3, <1>12 DEF ArrowsKept
  <2>4. CASE Named(l, k) # x
    <3>1. data'[Named(l, k)] = data[Named(l, k)]
      BY <1>1, <2>2, <2>4
    <3>2. QED
      BY <1>10, <1>12, <2>3, <3>1 DEF ArrowKept
  <2>5. CASE Named(l, k) = x
    <3> DEFINE old == data[x].newPipelines
               new == data'[x].newPipelines
    <3>1. ~(k < Len(text.pipelines[l]))
      BY <1>1, <2>2, <2>3, <2>5 DEF ArrowKept
    <3>2. PICK j \in DOMAIN old : old[j] = Named(l, k - 1)
      BY <2>3, <2>5, <3>1 DEF ArrowKept
    <3>3. new = old \/ \E e \in RelationSymbols : new = Append(old, e)
      BY <1>1, <1>7, <1>8
    <3>4. j \in DOMAIN new /\ new[j] = old[j]
      BY <1>9, <3>2, <3>3
    <3> HIDE DEF old, new
    <3>5. \E m \in DOMAIN new : new[m] = Named(l, k - 1)
      BY <3>2, <3>4
    <3>6. QED
      BY <1>10, <1>12, <2>5, <3>1, <3>5 DEF new
  <2>6. QED
    BY <2>4, <2>5
<1>13. ArrowsKept'
  <2>1. ASSUME NEW l \in Lines, NEW k \in Names(l), k > 1, LinkedYet(l, k)'
        PROVE  ArrowKept(l, k)'
    BY <1>6, <1>11, <1>12, <2>1
  <2>2. QED
    BY <1>5, <2>1 DEF ArrowsKept
<1>14. LineInv'
  <2> SUFFICES ASSUME todo' # << >>, Head(todo').what = "link"
               PROVE  /\ \A j \in 1..(K' - 1) :
                           ~ContinuingPipelineContains(text'.pipelines[I'], j,
                                                       text'.pipelines[I'][j])
                      /\ K' > 1 => data'[Named(I, 1)'].continuingPipeline = NoSymbol
    BY DEF LineInv
  <2>1. I' = i /\ K' = n + 1 /\ text'.pipelines[i] = line
    BY <1>2, <1>5, <1>6 DEF line
  <2>2. /\ \A j \in 1..(n - 1) : ~ContinuingPipelineContains(line, j, line[j])
        /\ n > 1 => data[Named(i, 1)].continuingPipeline = NoSymbol
    BY <1>0, <1>1, <1>3 DEF LineInv, line
  <2>3. \A j \in 1..n : ~ContinuingPipelineContains(line, j, line[j])
    <3>1. \A j \in 1..n : j = n \/ j \in 1..(n - 1)
      BY <1>2, <1>8
    <3>2. QED
      BY <1>1, <2>2, <3>1
  <2>4. 1 \in Names(i) /\ n \in Names(i) /\ (n > 1 => 1 \in 1..n)
    BY <1>2, <1>8
  <2>5. data'[Named(i, 1)].continuingPipeline = NoSymbol
    <3>1. CASE n > 1
      <4>1. Named(i, 1) # x
        BY <1>2, <1>7, <2>3, <2>4, <3>1, OtherThere DEF x, line
      <4>2. Named(i, 1) \in DOMAIN data
        BY <1>2, <1>7, <2>4
      <4>3. QED
        BY <1>1, <2>2, <3>1, <4>1, <4>2
    <3>2. CASE ~(n > 1)
      <4>1. n = 1
        BY <1>8, <2>4, <3>2
      <4>2. QED
        BY <1>1, <4>1 DEF x
    <3>3. QED
      BY <3>1, <3>2
  <2>6. Named(I, 1)' = Named(i, 1)
    <3>1. Named(I, 1)' = LookupSymbolByName(table', text'.pipelines[I'][1])
      BY DEF Named
    <3>2. QED
      BY <1>1, <2>1, <3>1 DEF Named, line
  <2>7. text'.pipelines[I'] = line /\ K' - 1 = n
    BY <1>2, <1>8, <2>1
  <2>8. \A j \in 1..(K' - 1) :
          ~ContinuingPipelineContains(text'.pipelines[I'], j, text'.pipelines[I'][j])
    BY <2>3, <2>7
  <2>9. QED
    BY <2>5, <2>6, <2>8
<1>15. QED
  BY <1>13, <1>14

\* Linking a name closes no circle: what it continues leads, on this line, to
\* the first name, and that continues nothing.
LEMMA VisitPipelineEnds ==
  ASSUME TableInv, DataInv, ArrowsInv, PipelinesEnd, VisitPipeline
  PROVE  PipelinesEnd'
<1> SUFFICES ASSUME errors' = {}, NEW S \in SUBSET DOMAIN data', S # {},
                    \A s \in S : data'[s].continuingPipeline \in S
             PROVE  FALSE
  BY DEF PipelinesEnd
<1>0. PICK i, n : i = I /\ n = K
  OBVIOUS
<1> DEFINE x == Named(i, n)
           line == text.pipelines[i]
<1>1. /\ errors = {}
      /\ stage = "pipelines" /\ todo # << >> /\ Head(todo).what = "link"
      /\ DOMAIN data' = DOMAIN data
      /\ \A s \in DOMAIN data : s # x => data'[s] = data[s]
      /\ data'[x].continuingPipeline =
           IF n > 1 /\ n < Len(line) THEN Named(i, n - 1) ELSE NoSymbol
  BY <1>0, LinkMade
<1>2. /\ i \in Lines /\ n \in Names(i)
      /\ RelationSymbols \subseteq DOMAIN data
  BY <1>0, <1>1, LinkedBlob
<1>3. \A k \in Names(i) : LookedUp(i, k)
  BY <1>0, <1>1 DEF LookedUp
<1>4. Len(line) \in Nat /\ Names(i) = 1..Len(line)
  BY <1>2, TextShape DEF TableInv, Names
<1>5. NoSymbol \notin S
  <2>1. NoSymbol \notin DOMAIN data
    BY NamedPositions DEF TableInv, DataInv
  <2>2. QED
    BY <1>1, <2>1
<1>6. ArrowsKept /\ LineInv
  BY <1>1 DEF ArrowsInv, ArrowsKept
<1>7. \A T \in SUBSET DOMAIN data :
        T # {} => \E t \in T : data[t].continuingPipeline \notin T
  BY <1>1 DEF PipelinesEnd
<1>8. x \in S
  <2>1. ASSUME x \notin S
        PROVE  FALSE
    <3>1. \A s \in S : data[s].continuingPipeline \in S
      BY <1>1, <2>1
    <3>2. QED
      BY <1>1, <1>7, <3>1
  <2>2. QED
    BY <2>1
<1> HIDE DEF x
<1>9. n > 1 /\ n < Len(line) /\ Named(i, n - 1) \in S
  <2>1. data'[x].continuingPipeline \in S
    BY <1>8
  <2>2. QED
    BY <1>1, <1>5, <2>1
<1> DEFINE T == {s \in S : \E j \in 1..(n - 1) : s = Named(i, j)}
<1>10. n - 1 \in 1..(n - 1) /\ n \in Nat
  BY <1>2, <1>4, <1>9
<1>11. PICK t \in T : data[t].continuingPipeline \notin T
  <2>1. T \in SUBSET DOMAIN data /\ T # {}
    BY <1>1, <1>9, <1>10
  <2> HIDE DEF T
  <2>2. QED
    BY <1>7, <2>1
<1>12. PICK j \in 1..(n - 1) : t = Named(i, j)
  BY <1>11
<1>13. /\ j \in Names(i) /\ j < n /\ j \in Nat \ {0}
       /\ ~ContinuingPipelineContains(line, j, line[j])
  BY <1>0, <1>1, <1>2, <1>4, <1>6, <1>10, <1>12 DEF LineInv
<1>14. t # x
  BY <1>2, <1>3, <1>12, <1>13, OtherThere DEF x
<1>15. t \in S /\ data[t].continuingPipeline \in S
  BY <1>1, <1>11, <1>14
<1>16. CASE j = 1
  <2>1. data[t].continuingPipeline = NoSymbol
    BY <1>0, <1>1, <1>6, <1>9, <1>12, <1>16 DEF LineInv
  <2>2. QED
    BY <1>5, <1>15, <2>1
<1>17. CASE j > 1
  <2>1. LinkedYet(i, j)
    BY <1>0, <1>1, <1>13 DEF LinkedYet
  <2>2. ArrowKept(i, j)
    BY <1>2, <1>6, <1>13, <1>17, <2>1 DEF ArrowsKept
  <2>3. j < Len(line)
    BY <1>4, <1>9, <1>10, <1>13
  <2>4. data[t].continuingPipeline = Named(i, j - 1)
    BY <1>12, <2>2, <2>3 DEF ArrowKept
  <2>5. j - 1 \in 1..(n - 1)
    BY <1>10, <1>13, <1>17
  <2>6. data[t].continuingPipeline \in T
    BY <1>15, <2>4, <2>5
  <2>7. QED
    BY <1>11, <2>6
<1>18. QED
  BY <1>13, <1>16, <1>17

LEMMA LinksInvInit == Init => LinksInv
<1> SUFFICES ASSUME Init PROVE LinksInv
  OBVIOUS
<1>1. stage = "open" /\ data = << >>
  BY DEF Init, ParserInit
<1>2. \A l, k : ~LinkedYet(l, k)
  BY <1>1 DEF LinkedYet, PipelinesRead
<1>3. LineInv
  BY <1>1 DEF LineInv
<1>4. PipelinesEnd
  BY <1>1 DEF PipelinesEnd
<1>5. QED
  BY <1>2, <1>3, <1>4 DEF LinksInv, ArrowsInv

LEMMA LinksInvStep ==
  ASSUME TypesInv, LinksInv, [Next]_parserVars
  PROVE  LinksInv'
<1>1. /\ TableInv /\ DataInv
      /\ TableInv' /\ DataInv' /\ Keeps(table, table')
      /\ errors \subseteq errors'
  BY TableInvStep, DataInvStep, ErrorsGrow DEF TypesInv
<1>2. ArrowsInv /\ PipelinesEnd
  BY DEF LinksInv
<1>3. CASE VisitPipeline
  <2>1. PipelinesEnd'
    BY <1>1, <1>2, <1>3, VisitPipelineEnds
  <2>2. errors' = {} => ArrowsKept' /\ LineInv'
    BY <1>1, <1>2, <1>3, VisitPipelineArrows
  <2>3. ArrowsInv'
    BY <2>2 DEF ArrowsInv, ArrowsKept
  <2>4. QED
    BY <2>1, <2>3 DEF LinksInv
<1>4. CASE ~VisitPipeline
  <2>1. /\ \A s \in DOMAIN data : SameArrows(s)
        /\ \A s \in DOMAIN data' : s \notin DOMAIN data =>
             data'[s].continuingPipeline = NoSymbol
    BY <1>1, <1>4, NoLink
  <2>2. NoSymbol \notin DOMAIN data'
    BY <1>1, NamedPositions DEF TableInv, DataInv
  <2>3. PipelinesEnd'
    BY <1>1, <1>2, <2>1, <2>2, EndsStay
  <2>4. /\ UNCHANGED text
        /\ \A l \in Lines : \A k \in Names(l) :
             k > 1 /\ LinkedYet(l, k)' => LinkedYet(l, k)
        /\ errors' = {} => LineInv'
    BY <1>1, <1>2, <1>4, NotLinkedYet
  <2>5. RelationSymbols \subseteq DOMAIN data
    BY <1>1 DEF DataInv, RelationSymbols
  <2>6. errors = {} => ArrowsKept
    BY <1>2 DEF ArrowsInv, ArrowsKept
  <2>7. errors' = {} => ArrowsKept'
    BY <1>1, <2>1, <2>4, <2>5, <2>6, ArrowsStay
  <2>8. ArrowsInv'
    BY <2>4, <2>7 DEF ArrowsInv, ArrowsKept
  <2>9. QED
    BY <2>3, <2>8 DEF LinksInv
<1>5. QED
  BY <1>3, <1>4

LEMMA LinksInvAlways == Spec => []LinksInv
<1>1. TypesInv /\ LinksInv /\ [Next]_parserVars => LinksInv'
  BY LinksInvStep
<1>2. QED
  BY <1>1, LinksInvInit, TypesInvAlways, PTL DEF Spec

\* Whatever lines a text has, and in whatever order, no check looks for a
\* circle across them and none is made: following continuingPipeline, as
\* pipelineToPath does without a bound, ends.
THEOREM EveryPipelineEnds == Spec => []PipelinesEnd
<1>1. LinksInv => PipelinesEnd
  BY DEF LinksInv
<1>2. QED
  BY <1>1, LinksInvAlways, PTL

\* Whatever lines a text has, if none met an error then every arrow of every
\* line is a link, and no later line has undone it.
THEOREM EveryArrowIsALink == Spec => []EveryArrowKept
<1>1. TypesInv /\ LinksInv => EveryArrowKept
  <2> SUFFICES ASSUME TypesInv, LinksInv, PipelinesRead, errors = {},
                      NEW l \in DOMAIN text.pipelines, NEW k \in 2..Len(text.pipelines[l])
               PROVE  IF k < Len(text.pipelines[l])
                      THEN data[Named(l, k)].continuingPipeline = Named(l, k - 1)
                      ELSE \E i \in DOMAIN data[Named(l, k)].newPipelines :
                             data[Named(l, k)].newPipelines[i] = Named(l, k - 1)
    BY DEF EveryArrowKept, Named
  <2>1. l \in Lines /\ k \in Names(l) /\ k > 1
    BY TextShape DEF TypesInv, TableInv, Lines, Names
  <2>2. LinkedYet(l, k)
    BY DEF LinkedYet
  <2>3. ArrowKept(l, k)
    BY <2>1, <2>2 DEF LinksInv, ArrowsInv
  <2>4. QED
    BY <2>3 DEF ArrowKept
<1>2. QED
  BY <1>1, TypesInvAlways, LinksInvAlways, PTL
=============================================================================
