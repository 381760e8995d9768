---------------------------- MODULE MCCallServices ----------------------------
(* CallServices on a part of the shipped SOP, src/sops/high_temp_alarm.json:  *)
(* the question of awareness and its retry, which lead straight to the last   *)
(* question, with those of its keywords that the utterances below contain.    *)
EXTENDS CallServices

Say(next) == [type |-> "speak", next |-> next, branches |-> {}, outcome |-> None]
Close(outcome) == [type |-> "speak", next |-> None, branches |-> {}, outcome |-> outcome]
Branch(match, keywords, next) == [match |-> match, keywords |-> keywords, next |-> next]

Aware == {"yes", "aware", "know"}
Unaware == {"no", "not aware", "didn't know"}
MCBranches ==
  [ask_awareness |->
     <<Branch("yes", Aware, "confirm_resolution"), Branch("no", Unaware, "inform_details"),
       Branch("unclear", {}, "ask_awareness_retry")>>,
   ask_awareness_retry |->
     <<Branch("yes", Aware, "confirm_resolution"), Branch("no", Unaware, "inform_details"),
       Branch("unclear", {}, "escalate_unclear")>>,
   confirm_resolution |->
     <<Branch("resolved", {"handled", "handle", "yes", "will do", "on it"}, "close_resolved"),
       Branch("follow_up", {"later", "again", "not sure", "check"}, "close_retry"),
       Branch("need_help", {"help", "technician", "can't handle"}, "escalate_human"),
       Branch("unclear", {}, "escalate_unclear")>>]

Ask(t) == [type |-> "ask", next |-> None, outcome |-> None,
           branches |-> {MCBranches[t][i].next : i \in DOMAIN MCBranches[t]}]

MCDef ==
  [greeting            |-> Say("ask_awareness"),
   ask_awareness       |-> Ask("ask_awareness"),
   ask_awareness_retry |-> Ask("ask_awareness_retry"),
   inform_details      |-> Say("confirm_resolution"),
   confirm_resolution  |-> Ask("confirm_resolution"),
   close_resolved      |-> Close("resolved"),
   close_retry         |-> Close("retry_later"),
   escalate_human      |-> Close("escalate_human"),
   escalate_unclear    |-> Close("escalate_human")]

MCStepId == DOMAIN MCDef

\* "Yes", "No", "I'm not sure", and a mumble.
MCUtterance == {{"yes"}, {"no"}, {"not sure", "sure", "not", "no"}, {}}

ASSUME OneWayOut
=============================================================================
