----------------------------- MODULE MCSharedCall -----------------------------
(* SharedCall with two replicas on the shortest SOP with every kind of step. *)
EXTENDS SharedCall, TLC

CONSTANTS r1, r2

MCReplica == {r1, r2}

Say(next) == [type |-> "speak", next |-> next, branches |-> {}, outcome |-> None]
Ask(branches) == [type |-> "ask", next |-> None, branches |-> branches, outcome |-> None]
Close(outcome) == [type |-> "speak", next |-> None, branches |-> {}, outcome |-> outcome]

MCDef ==
  [greeting         |-> Say("ask_awareness"),
   ask_awareness    |-> Ask({"close_resolved", "escalate_unclear"}),
   close_resolved   |-> Close("resolved"),
   escalate_unclear |-> Close("escalate_human")]

MCResponse == [next_step : {"close_resolved"}, should_escalate : BOOLEAN]

Symmetric == Permutations(MCReplica)
=============================================================================
