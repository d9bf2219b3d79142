-------------------------------- MODULE MCFields --------------------------------
(* FieldReferences on plans built one relation on top of another.          *)
EXTENDS FieldReferences, FiniteSets

Node(kind, inputs) ==
  [ kind |-> kind, inputs |-> inputs, outer |-> 0, columns |-> << >>,
    exprs |-> << >>, measures |-> << >>, emit |-> << >> ]

ReadOf(columns) == [Node("read", << >>) EXCEPT !.columns = columns]

Direct(i)      == [computed |-> FALSE, refs |-> <<Ref(i, 0)>>]
Computed(refs) == [computed |-> TRUE, refs |-> refs]

Top(p) == Columns(p)[Len(p)]

\* Relations on top of p, which shows the columns of top.
Filters(p, top) ==
  {Append(p, [Node("filter", <<Len(p)>>) EXCEPT !.exprs = <<Computed(<<Ref(i - 1, 0)>>)>>]) :
     i \in DOMAIN top}

\* With no emit, one that shows the last field made, one that shows it first.
Projected(p, exprs, last) ==
  {Append(p, [Node("project", <<Len(p)>>) EXCEPT !.exprs = exprs, !.emit = emit]) :
     emit \in {<< >>, <<last>>, <<last, 0>>}}

Projects(p, top) ==
  UNION {Projected(p, exprs, Len(top) + Len(exprs) - 1) :
           exprs \in {<<Direct(i - 1)>> : i \in DOMAIN top}
                      \union {<<Computed(<<Ref(i - 1, 0)>>)>> : i \in DOMAIN top}
                      \union {<<Direct(i - 1), Computed(<<Ref(j - 1, 0)>>)>> :
                                i, j \in DOMAIN top}}

\* A field made below is used once: copies of a grouping are not emitted, and
\* a measure of one is not taken.
UsedOnce(top, fields) ==
  \A i, j \in DOMAIN fields :
    i # j /\ top[fields[i]][1] # "column" => top[fields[i]] # top[fields[j]]

Aggregated(p, groupings, m) ==
  {Append(p, [Node("aggregate", <<Len(p)>>) EXCEPT
                !.exprs    = [e \in DOMAIN groupings |-> Direct(groupings[e] - 1)],
                !.measures = <<<<Ref(m - 1, 0)>>>>,
                !.emit     = emit]) :
     emit \in {<< >>, <<Len(groupings)>>}}

Aggregates(p, top) ==
  UNION {Aggregated(p, used[1], used[2]) :
           used \in {u \in SeqOf(DOMAIN top, 2) \X DOMAIN top :
                       UsedOnce(top, Append(u[1], u[2]))}}

Joins(p, top) ==
  {p \o <<ReadOf(<<"a">>),
          [Node("join", <<Len(p), Len(p) + 1>>) EXCEPT
             !.exprs = <<Computed(<<Ref(i - 1, 0), Ref(Len(top), 0)>>)>>]>> :
     i \in DOMAIN top}

LayeredOn(p, top) ==
  Filters(p, top) \union Projects(p, top) \union Aggregates(p, top) \union Joins(p, top)

Layered(plans) == UNION {LayeredOn(p, Top(p)) : p \in plans}

\* The relations of p, with k others before them.
Shifted(p, k) ==
  [n \in DOMAIN p |->
     [p[n] EXCEPT !.inputs = [i \in DOMAIN @ |-> @[i] + k],
                  !.outer  = IF @ = 0 THEN 0 ELSE @ + k]]

\* A filter on top of p whose condition has a subquery: "inner", whose last
\* relation compares a field of its own with a field of the query around it.
WithSubquery(p, inner) ==
  LET all == inner \o Shifted(p, Len(inner))
  IN Append([all EXCEPT ![Len(inner)].outer = Len(all) + 1],
            [Node("filter", <<Len(all)>>) EXCEPT !.exprs = <<Computed(<<Ref(0, 0)>>)>>])

Compare(inner, own, refs) ==
  Append(inner, [Node("filter", <<Len(inner)>>) EXCEPT
                   !.exprs = <<Computed(<<Ref(own, 0)>> \o refs)>>])

Base == <<ReadOf(<<"a", "b">>)>>
One  == <<ReadOf(<<"a">>)>>

\* A reference one query out, on the relation of the subquery itself and on
\* one below it.
Correlated(inner, top, i) ==
  {Compare(inner, own - 1, <<Ref(i, 1)>>) : own \in DOMAIN top}
    \union Filters(Compare(inner, 0, <<Ref(i, 1)>>), top)

OneOutOf(p, top, inner, innerTop) ==
  UNION {{WithSubquery(p, q) : q \in Correlated(inner, innerTop, i - 1)} : i \in DOMAIN top}

OneOut(outers, inners) ==
  UNION {OneOutOf(p, Top(p), inner, Top(inner)) : p \in outers, inner \in inners}

\* References one and two queries out, in a subquery of a subquery.
Middle(q, k) == [q EXCEPT ![Len(q)].exprs = <<Computed(<<Ref(0, 0), Ref(k, 1)>>)>>]

TwoOut(outers) ==
  {WithSubquery(p, Middle(WithSubquery(Base, Compare(One, 0, <<Ref(i, 1), Ref(j, 2)>>)), k)) :
     i \in 0..1, j \in 0..1, k \in 0..1, p \in outers}

FieldPlans ==
  LET one    == Layered({Base})
      onOne  == Top(One)
      onBase == Top(Base)
  IN one \union Layered(one)
       \union OneOut({Base} \union Aggregates(One, onOne) \union Joins(Base, onBase),
                     {Base} \union Projects(One, onOne))
       \union TwoOut(Filters(Base, onBase))

=============================================================================
