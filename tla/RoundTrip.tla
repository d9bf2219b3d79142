------------------------------- MODULE RoundTrip -------------------------------
(***************************************************************************)
(* The two conversions one after the other, as RoundtripTest.cpp and the   *)
(* plan transformer run them: the text BinaryToText prints is the text     *)
(* TextToBinary parses.  The parser has a symbol table of its own.         *)
(***************************************************************************)
EXTENDS BinaryToText

VARIABLES stage, todo, parsed, links, parseErrors, output

vars == <<plan, pass, visits, scope, table, data, agenda, text, errors,
          stage, todo, parsed, links, parseErrors, output>>

\* The parser reads "text"; the texts of its own Init are not used.
Parser == INSTANCE TextToBinary WITH
            Texts <- {}, table <- parsed, data <- links, errors <- parseErrors

\* The plans that come back: of one root, and without the messages that one of
\* the passes is known to refuse, to print as something else or to lose.
Returns(p) ==
  /\ \A r \in DOMAIN p.roots : p.roots[r].kind = "root"
  /\ Len(p.roots) > 1 => \A r \in DOMAIN p.roots : p.roots[r].names = << >>
  /\ \A n \in DOMAIN p.node :
       /\ p.node[n].kind # "set"
       /\ p.node[n].kind \in {"setPredicate", "inPredicate"} => p.node[n].argument
       /\ p.node[n].kind \in {"read", "setComparison", "inPredicate"} => p.node[n].exprs = << >>

Conversion == INSTANCE PlanConversion WITH back <- output

Init == ConverterInit /\ Parser!ParserInit

PrintStep ==
  /\ ConverterNext
  /\ UNCHANGED <<stage, todo, parsed, links, parseErrors, output>>

\* A plan that cannot be printed without errors goes no further.
ParseStep ==
  /\ pass = "printed"
  /\ errors = {}
  /\ Parser!Next
  /\ UNCHANGED <<plan, pass, visits, scope, table, data, agenda, errors>>

Next == PrintStep \/ ParseStep

\* One thread runs both conversions to their end.
Spec == Init /\ [][Next]_vars /\ WF_vars(Next)

\* What is promised to come back does, as it was: every run of the two
\* conversions is one of PlanConversion.
RefinesConversion == Conversion!Spec

\* What came back, if anything did, is what went in (RoundtripTest.cpp:101).
ComesBackUnchanged ==
  /\ output.status \in {"unbuilt", "built"}
  /\ output.status = "built" => output.plan = Tree(plan)
=============================================================================
