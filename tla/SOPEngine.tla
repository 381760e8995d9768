------------------------------ MODULE SOPEngine ------------------------------
(***************************************************************************)
(* The SOP engine (src/src/orchestrator/sop_engine.py): the pure functions *)
(* that decide which step of a Standard Operating Procedure a call is on.  *)
(*                                                                         *)
(* A definition maps step ids to steps.  Def is the definition that        *)
(* applies to the call (base SOP plus the customer's overlay, what         *)
(* definition_for(session) returns); DefaultDef is the single file the     *)
(* engine loads by itself, which get_step consults when no session is      *)
(* passed to it.  Prompt texts, keywords and timeouts are abstracted away. *)
(***************************************************************************)
EXTENDS CallModels, Naturals

CONSTANTS
  StepId,      \* every step id that a definition or the agent can mention
  Def,         \* the definition of this call
  DefaultDef,  \* the definition of the engine's own file
  MaxUnclear   \* constraints["max_unclear_responses"]

\* The outcome of a step is free text in the JSON; "other" stands for a text
\* that names no CallOutcome.
StepOutcome == CallOutcome \cup {"other"}

Step == [type     : {"speak", "ask"},
         next     : StepId \cup {None},
         branches : SUBSET StepId,
         outcome  : StepOutcome \cup {None}]

AgentResponse == [next_step : StepId, should_escalate : BOOLEAN]

ASSUME EngineAssumption ==
  /\ {"greeting", "escalate_unclear"} \subseteq StepId
  /\ None \notin StepId
  /\ Def \in [DOMAIN Def -> Step]
  /\ DOMAIN Def \subseteq StepId
  /\ DefaultDef \in [DOMAIN DefaultDef -> Step]
  /\ DOMAIN DefaultDef \subseteq StepId
  /\ MaxUnclear \in Nat

-----------------------------------------------------------------------------

Escalation == [next |-> "escalate_unclear", outcome |-> "escalate_human"]

\* The branch of an ask step that the agent proposes, with the outcome of the
\* step of that name in the engine's own file.
BranchTo(proposed) == [next |-> proposed, outcome |-> DefaultDef[proposed].outcome]

\* A speak step that says by itself where the call goes.
IsFixed(current) ==
  current.type = "speak" /\ (current.outcome # None \/ current.next # None)

Deterministic(current) ==
  IF current.outcome # None
  THEN [next |-> None, outcome |-> current.outcome]
  ELSE [next |-> current.next, outcome |-> None]

IsBranching(current) == current.type = "ask" /\ current.branches # {}

\* Mutant: the branches of an ask step are not checked.
EvaluateUnchecked(current, response) ==
  LET proposed == response.next_step IN
  IF response.should_escalate \/ proposed \notin DOMAIN Def THEN Escalation
  ELSE IF IsFixed(current) THEN Deterministic(current)
  ELSE [next |-> proposed, outcome |-> Def[proposed].outcome]

\* The transition from a known step, given an answer of the agent: the early
\* returns of the source, in their order.
EvaluateTransition(current, response) ==
  LET proposed == response.next_step IN
  IF response.should_escalate \/ proposed \notin DOMAIN Def THEN Escalation
  ELSE IF IsFixed(current) THEN Deterministic(current)
  ELSE IF ~IsBranching(current)
       THEN [next |-> proposed, outcome |-> Def[proposed].outcome]
  ELSE IF proposed \in current.branches THEN BranchTo(proposed) ELSE Escalation

\* The evaluation raises ValueError: the current step is unknown, or a legal
\* branch of this call's definition has no step in the engine's own file.
EvaluationRaises(step, response) ==
  \/ step \notin DOMAIN Def
  \/ /\ ~response.should_escalate
     /\ response.next_step \in Def[step].branches \cap DOMAIN Def
     /\ Def[step].type = "ask"
     /\ response.next_step \notin DOMAIN DefaultDef

\* Mutant: the text of the step is taken for the outcome.
TakeOutcome(outcome) == outcome

\* CallOutcome(outcome), with the source's fallback for an unknown text.
ParseOutcome(outcome) == IF outcome \in CallOutcome THEN outcome ELSE "failed"

ShouldEscalateUnclear(session) == session.unclear_count >= MaxUnclear

=============================================================================
