------------------------------ MODULE MCFunctions ------------------------------
(* FunctionReferences on small plans: two spaces and none, names that share *)
(* a short name, and one whose short name is the beginning of another's.    *)
EXTENDS FunctionReferences

MCNumbered(base, n) == base \o ToString(n)

MCUris       == <<"a.yaml", "b.yaml">>
MCNames      == <<"add:i32", "add:i64", "atan2:fp64", "atan:fp64">>
MCShortNames == <<"add", "add2", "add3", "atan", "atan2", "atan22", "atan23", "atan3">>
MCShortName(name) ==
  CASE name \in {"add:i32", "add:i64"} -> "add"
    [] name = "atan2:fp64" -> "atan2"
    [] OTHER -> "atan"

Space(anchor, uri) == [anchor |-> anchor, uri |-> uri]
Extension(space, name, anchor) ==
  [kind |-> "function", space |-> space, name |-> name, anchor |-> anchor]

Calling(path, function) == [path |-> path, function |-> function]
Plan(spaces, extensions, columns, calls) ==
  [spaces |-> spaces, extensions |-> extensions, columns |-> columns, calls |-> calls]

ProjectPath  == << <<"project", "expressions">>, <<"scalar_function", "arguments">> >>
MeasurePath  == << <<"project", "input">>, <<"aggregate", "measures">> >>
SubqueryPath == << <<"filter", "condition">>, <<"scalar", "input">>, <<"filter", "condition">> >>

SpaceLists ==
  { << >>, <<Space(7, "b.yaml")>>,
    <<Space(1, "a.yaml"), Space(2, "b.yaml")>>, <<Space(1, "b.yaml"), Space(2, "a.yaml")>>,
    <<Space(2, "a.yaml"), Space(1, "b.yaml")>> }

Anchors(spaces) == {spaces[i].anchor : i \in DOMAIN spaces}

\* What is declared: up to three functions, no two with a name and a space
\* in common, and no name numbered that is the short name of another.
Declared(spaces) ==
  {d \in UNION {[1..n -> (Anchors(spaces) \union {0}) \X ToSet(MCNames)] : n \in 1..3} :
     /\ IsInjective(d)
     /\ Anchors(spaces) \subseteq {d[i][1] : i \in DOMAIN d}
     /\ Cardinality({i \in DOMAIN d : d[i][2] = "atan:fp64"}) = 2
          => "atan2:fp64" \notin {d[i][2] : i \in DOMAIN d}}

\* Numbered up from zero or down to one.
Numberings(d) ==
  { [i \in DOMAIN d |-> Extension(d[i][1], d[i][2], i - 1)],
    [i \in DOMAIN d |-> Extension(d[i][1], d[i][2], Len(d) + 1 - i)] }

CallsOf(extensions) ==
  [i \in DOMAIN extensions |->
     Calling(CASE i = 1 -> ProjectPath [] i = 2 -> MeasurePath [] OTHER -> SubqueryPath,
             extensions[i].anchor)]

FunctionPlans ==
  UNION {UNION {{Plan(spaces, extensions, <<"column">>, CallsOf(extensions)) :
                   extensions \in Numberings(d)} : d \in Declared(spaces)} :
           spaces \in SpaceLists}

ASSUME PlansAreSound ==
  \A p \in FunctionPlans :
    Consistent(p) /\ NamesApart(p) /\ IsDistinct(p) /\ SpacesUsed(p) /\ ShortsKnown(p)

=============================================================================
