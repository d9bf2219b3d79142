---------------------------- MODULE PlanConversion ----------------------------
(***************************************************************************)
(* What a round trip promises (RoundtripTest.cpp): a plan message printed  *)
(* as text and parsed again is the plan that went in.  Of a plan with      *)
(* something the converter or the parser is known to refuse or to lose,    *)
(* nothing is promised.                                                    *)
(***************************************************************************)
EXTENDS ProtoPlan

CONSTANTS
  Plans,
  Returns(_)   \* Returns(p): p is promised to come back

VARIABLES
  plan,   \* the message
  back    \* [status |-> "built", plan |-> its value] once it has come back

Init ==
  /\ plan \in Plans
  /\ back = [status |-> "unbuilt", plan |-> << >>]

ComeBack ==
  /\ Returns(plan) /\ back.status = "unbuilt"
  /\ back' = [status |-> "built", plan |-> Tree(plan)]
  /\ UNCHANGED plan

GoAstray ==
  /\ ~Returns(plan)
  /\ back' \notin {back, [status |-> "built", plan |-> Tree(plan)]}
  /\ UNCHANGED plan

Next == ComeBack \/ GoAstray

Spec == Init /\ [][Next]_<<plan, back>> /\ WF_<<plan, back>>(ComeBack)
=============================================================================
