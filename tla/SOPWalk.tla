------------------------------- MODULE SOPWalk -------------------------------
(***************************************************************************)
(* What "follows the SOP" means: the call walks along the edges of its own *)
(* definition, it may leave them only for escalate_unclear, and a step it  *)
(* reaches decides the verdict.  Once there is a verdict the walk is over. *)
(***************************************************************************)
CONSTANTS Def, None

VARIABLES step, verdict

vars == <<step, verdict>>

Init == step = "greeting" /\ verdict = None

Successors(s) == (IF Def[s].next = None THEN {} ELSE {Def[s].next}) \cup Def[s].branches

Follow ==
  /\ verdict = None
  /\ step' \in Successors(step)
  /\ verdict' = Def[step'].outcome

Escalate ==
  /\ verdict = None
  /\ step' = "escalate_unclear"
  /\ verdict' = "escalate_human"

Next == Follow \/ Escalate

Spec == Init /\ [][Next]_vars
=============================================================================
