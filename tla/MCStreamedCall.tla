---------------------------- MODULE MCStreamedCall ----------------------------
(* StreamedCall on an excerpt of the shipped SOP, a step whose outcome is no *)
(* CallOutcome, and a branch that only the customer's overlay has, with      *)
(* every kind of answer.                                                     *)
EXTENDS StreamedCall

Say(next) == [type |-> "speak", next |-> next, branches |-> {}, outcome |-> None]
Ask(branches) == [type |-> "ask", next |-> None, branches |-> branches, outcome |-> None]
Close(outcome) == [type |-> "speak", next |-> None, branches |-> {}, outcome |-> outcome]

MCDef ==
  [greeting           |-> Say("ask_awareness"),
   ask_awareness      |-> Ask({"inform_details", "confirm_resolution", "apologize"}),
   apologize          |-> Say("confirm_resolution"),
   inform_details     |-> Say("confirm_resolution"),
   confirm_resolution |-> Ask({"close_resolved", "handed_over", "escalate_unclear"}),
   handed_over        |-> Close("other"),
   close_resolved     |-> Close("resolved"),
   escalate_unclear   |-> Close("escalate_human")]

MCDefaultDef == [t \in DOMAIN MCDef \ {"apologize"} |-> MCDef[t]]

MCStepId == DOMAIN MCDef \cup {"no_such_step"}

MCResponse ==
  [next_step : MCStepId, should_escalate : {FALSE}]
    \cup {[next_step |-> "escalate_unclear", should_escalate |-> TRUE]}

ASSUME StepsDecide /\ VerdictsAreSpoken
=============================================================================
