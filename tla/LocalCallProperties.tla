------------------------- MODULE LocalCallProperties -------------------------
(***************************************************************************)
(* What a call handled by one process is expected to do.                   *)
(***************************************************************************)
EXTENDS LocalCall, FiniteSets

-----------------------------------------------------------------------------
(* The conversation has one turn at a time: at most one of a media         *)
(* operation under way, an event that will move the conversation and has   *)
(* not been handled, and an answer the agent still owes.  This is what the *)
(* event-id check of acs_callback is for: with two turns, two prompts talk *)
(* over each other and the SOP advances twice for one answer.              *)

BeingRead == {request[w].event : w \in {v \in Worker : request[v].stage = "reading"}}

UnhandledTurns ==
  {e \in owed \cup BeingRead : e.type \in TurnType /\ ~AlreadyProcessed(session, e)}

AwaitedAnswers == {w \in Worker : request[w].stage = "reasoning"}

OneTurn == Cardinality(ops) + Cardinality(UnhandledTurns) + Cardinality(AwaitedAnswers) <= 1

-----------------------------------------------------------------------------
(* The handlers keep the contract of a call: one outcome recorded, one     *)
(* result posted, in that order, whatever order the disconnect, the        *)
(* recording report, the finalize timer and a late answer come in.         *)

Phase ==
  IF line \in {"idle", "failed"} THEN line
  ELSE IF session.completion_logged THEN "closed"
  ELSE IF session.ended THEN "ended" ELSE "open"

Contract ==
  INSTANCE CallContract WITH
    Outcome <- CallOutcome, phase <- Phase,
    verdicts <- recorded, posts <- posting + Len(posted)

KeepsContract == Contract!Spec

-----------------------------------------------------------------------------
(* "The LLM never chooses a step outside what the engine allows": whatever *)
(* the agent answers and however events are repeated, the session walks    *)
(* the SOP of its call and stops at the first verdict.  NO_ANSWER is what  *)
(* a call without a verdict is recorded as.                                *)

Walk ==
  INSTANCE SOPWalk WITH
    step <- session.current_step,
    verdict <- IF session.outcome = "no_answer" THEN None ELSE session.outcome

WalksTheSOP == Walk!Spec

(* The shape of the shipped SOP that the engine relies on without checking *)
(* it: the file it reads by itself is the definition of the call, a speak  *)
(* step without an outcome leads on, to a step without an outcome, and an  *)
(* ask step has branches.                                                  *)

SoundSOP ==
  /\ DefaultDef = Def
  /\ {"greeting", "escalate_unclear"} \subseteq DOMAIN Def
  /\ Def["greeting"].outcome = None
  /\ \A t \in DOMAIN Def :
       /\ Def[t].outcome \notin {"other", "no_answer"}
       /\ Def[t].type = "ask" => Def[t].branches # {}
       /\ Def[t].type = "speak" /\ Def[t].outcome = None =>
            Def[t].next \in DOMAIN Def /\ Def[Def[t].next].outcome = None

(* The orchestrator hangs up on a callee only when the SOP has reached its *)
(* verdict: a terminal playback never finishes in the middle of the SOP.   *)
(* (A line that drops by itself leaves the webhook requests alone.)        *)

HangsUpOnVerdict ==
  [][line = "up" /\ line' = "down" /\ request' # request
       => session.outcome \notin {None, "no_answer"}]_vars

(* A finalized session has nothing left to fire: its outcome was recorded  *)
(* and no finalize timer is pending for it, so that nothing posts it again. *)

FinalizedIsQuiet ==
  session.completion_logged => ~timer /\ session.ended /\ recorded # << >>

-----------------------------------------------------------------------------
(* An answered call ends by itself: the SOP has no cycle, unclear answers  *)
(* are bounded and the terminal prompt is followed by a hang-up -- even if *)
(* the callee never hangs up.                                              *)

CallEnds == line = "up" ~> line = "down"

(* Every call whose line has dropped is finalized and its result posted,   *)
(* even if its recording never reports: the finalize timer sees to it.     *)

EndedCallIsPosted == line = "down" ~> posted # << >>

=============================================================================
