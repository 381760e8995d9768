----------------------------- MODULE MCLocalCall -----------------------------
(***************************************************************************)
(* LocalCall on an excerpt of the shipped SOP (sops/high_temp_alarm.json): *)
(* a speak step that opens the call, an ask step with a branch into every  *)
(* kind of step, and the two terminal steps the properties tell apart.     *)
(***************************************************************************)
EXTENDS LocalCall, LocalCallProperties, TLC

Speak(next) == [type |-> "speak", next |-> next, branches |-> {}, outcome |-> None]
Ask(branches) == [type |-> "ask", next |-> None, branches |-> branches, outcome |-> None]
Close(outcome) == [type |-> "speak", next |-> None, branches |-> {}, outcome |-> outcome]

MCDef ==
  [greeting           |-> Speak("ask_awareness"),
   ask_awareness      |-> Ask({"inform_details", "confirm_resolution"}),
   inform_details     |-> Speak("confirm_resolution"),
   confirm_resolution |-> Ask({"close_resolved", "escalate_unclear"}),
   close_resolved     |-> Close("resolved"),
   escalate_unclear   |-> Close("escalate_human")]

\* The shortest SOP with every kind of step, for the runs over time.
MCShortDef ==
  [greeting         |-> Speak("ask_awareness"),
   ask_awareness    |-> Ask({"close_resolved", "escalate_unclear"}),
   close_resolved   |-> Close("resolved"),
   escalate_unclear |-> Close("escalate_human")]

MCStepId == DOMAIN MCDef \cup {"no_such_step"}

\* The agent may name any step, of the SOP or not, or ask to escalate.
MCResponse ==
  [next_step : MCStepId, should_escalate : {FALSE}]
    \cup {[next_step |-> "escalate_unclear", should_escalate |-> TRUE]}

ASSUME ShippedShape == SoundSOP

Symmetric == Permutations(Worker)
=============================================================================
