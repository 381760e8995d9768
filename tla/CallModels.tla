------------------------------ MODULE CallModels ------------------------------
(***************************************************************************)
(* The enumerations that the orchestrator's modules share                  *)
(* (src/src/orchestrator/models.py).                                       *)
(***************************************************************************)

\* Python's None.
None == "None"

CallOutcome == {"resolved", "retry_later", "escalate_human", "failed", "no_answer"}
=============================================================================
