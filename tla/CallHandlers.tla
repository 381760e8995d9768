----------------------------- MODULE CallHandlers -----------------------------
(***************************************************************************)
(* The webhook event handlers of src/src/orchestrator/app.py as operators  *)
(* on the session record they are given.  Each one returns                 *)
(*   session : the record the handler leaves behind, and                   *)
(*   command : what it then asks ACS to do -- a playback or a recognition, *)
(*             named by its operationContext, "hang_up", or None.          *)
(* A handler that raises before it issues a command has command None.      *)
(* The modules that use these operators decide what a session record is a  *)
(* copy of, when it is written back, and whether the command succeeds.     *)
(***************************************************************************)
EXTENDS SOPEngine, Sequences, SequencesExt

CONSTANT MaxProcessed   \* MAX_PROCESSED_EVENT_IDS

MediaContext == {"sop_speak", "sop_ask", "sop_terminal"}
Command == MediaContext \cup {"hang_up", None}

\* An ACS event is its own event id: two deliveries of one event are equal.
\* op tells apart the events of one kind, info is what the handler reads.
EventType == {"CallConnected", "PlayCompleted", "RecognizeCompleted",
              "RecognizeFailed", "RecordingFileStatusUpdated", "CallDisconnected"}
EventInfo == MediaContext \cup {"speech", "silence", "url", "no_url", None}
Event == [type : EventType, op : Nat, info : EventInfo]

\* The events that carry the conversation's turn.
TurnType == {"CallConnected", "PlayCompleted", "RecognizeCompleted", "RecognizeFailed"}

Session == [current_step        : StepId,
            unclear_count       : Nat,
            outcome             : CallOutcome \cup {None},
            ended               : BOOLEAN,   \* ended_at is set
            completion_logged   : BOOLEAN,
            recording_id        : BOOLEAN,   \* an id is known
            recording_url       : BOOLEAN,
            processed_event_ids : Seq(Event)]

NewSession == [current_step        |-> "greeting",
               unclear_count       |-> 0,
               outcome             |-> None,
               ended               |-> FALSE,
               completion_logged   |-> FALSE,
               recording_id        |-> FALSE,
               recording_url       |-> FALSE,
               processed_event_ids |-> << >>]

-----------------------------------------------------------------------------
(* The idempotency key check of acs_callback. *)

AlreadyProcessed(session, event) == event \in ToSet(session.processed_event_ids)

LastIds(ids) ==
  IF Len(ids) > MaxProcessed THEN SubSeq(ids, Len(ids) - MaxProcessed + 1, Len(ids)) ELSE ids

MarkProcessed(session, event) ==
  [session EXCEPT !.processed_event_ids = LastIds(Append(@, event))]

-----------------------------------------------------------------------------
(* SOPEngine.advance_session: the step and the outcome are stored before   *)
(* the look-up of the next step, which may raise.                          *)

AdvanceSession(session, response) ==
  LET t == EvaluateTransition(Def[session.current_step], response) IN
  [session EXCEPT
     !.current_step = IF t.next = None THEN @ ELSE t.next,
     !.outcome      = IF t.outcome = None THEN @ ELSE ParseOutcome(t.outcome)]

\* Mutant: every speak step is taken for a goodbye.
CommandForStepType(session, response) ==
  LET t == EvaluateTransition(Def[session.current_step], response) IN
  IF t.next \in DOMAIN DefaultDef /\ DefaultDef[t.next].type = "ask"
  THEN "sop_ask" ELSE "sop_terminal"

\* What the handler plays for the agent's answer: the step object comes from
\* the engine's own file.
CommandAfterAdvance(session, response) ==
  LET t == EvaluateTransition(Def[session.current_step], response) IN
  IF t.next # None /\ t.next \notin DOMAIN DefaultDef THEN None
  ELSE IF t.next = None \/ t.outcome # None THEN "sop_terminal"
  ELSE IF DefaultDef[t.next].type = "ask" THEN "sop_ask" ELSE "sop_speak"

Known(session) == session.current_step \in DOMAIN Def

OnCallConnected(session) ==
  LET step == Def[session.current_step] IN
  [session |-> session,
   command |->
     IF ~Known(session) THEN None
     ELSE IF step.type = "speak" /\ step.next # None THEN "sop_speak"
     ELSE IF step.type = "ask" THEN "sop_ask"
     ELSE "sop_terminal"]

\* The session is on a speak step with a successor: the end of a playback
\* advances it, unless the playback was the terminal one.
SpeaksOn(session) ==
  /\ Known(session)
  /\ Def[session.current_step].type = "speak"
  /\ Def[session.current_step].next # None

OnPlayCompleted(session, context) ==
  IF context = "sop_terminal" THEN [session |-> session, command |-> "hang_up"]
  ELSE IF ~SpeaksOn(session) THEN [session |-> session, command |-> None]
  ELSE LET to == Def[session.current_step].next IN
       [session |-> [session EXCEPT !.current_step = to],
        command |-> IF to \notin DOMAIN Def THEN None
                    ELSE IF Def[to].type = "ask" THEN "sop_ask"
                    ELSE IF Def[to].outcome # None THEN "sop_terminal"
                    ELSE "sop_speak"]

\* _start_recording_background is spawned by the same handler.
StartsRecording(session, context) ==
  context # "sop_terminal" /\ SpeaksOn(session) /\ ~session.recording_id

\* The part of _handle_recognize_completed after the agent has answered.
OnAgentResponse(session, response) ==
  IF EvaluationRaises(session.current_step, response)
  THEN [session |-> session, command |-> None]
  ELSE [session |-> AdvanceSession(session, response),
        command |-> CommandAfterAdvance(session, response)]

OnRecognizeFailed(session) ==
  LET counted == [session EXCEPT !.unclear_count = @ + 1] IN
  IF ~ShouldEscalateUnclear(counted)
  THEN [session |-> counted, command |-> "sop_ask"]
  ELSE IF "escalate_unclear" \notin DOMAIN Def
  THEN [session |-> [counted EXCEPT !.current_step = "escalate_unclear"], command |-> None]
  ELSE [session |-> [counted EXCEPT !.current_step = "escalate_unclear",
                                    !.outcome      = "escalate_human"],
        command |-> "sop_terminal"]

\* Mutant: a silent turn is ignored.
IgnoreSilence(session) == [session |-> session, command |-> None]

\* A RecognizeCompleted event without speech or tone is an unclear turn; the
\* dispatcher has looked the current step up before.
OnSilence(session) ==
  IF Known(session) THEN OnRecognizeFailed(session)
  ELSE [session |-> session, command |-> None]

\* Mutant: no default outcome.
DisconnectWithoutDefault(session) == [session EXCEPT !.ended = TRUE]

\* Mutant: ended_at is not set.
DisconnectWithoutEnd(session) ==
  [session EXCEPT !.outcome = IF @ = None THEN "no_answer" ELSE @]

\* _handle_call_disconnected up to the decision to wait for the recording.
OnCallDisconnected(session) ==
  [session EXCEPT !.ended = TRUE, !.outcome = IF @ = None THEN "no_answer" ELSE @]

AwaitsRecordingUrl(session) == session.recording_id /\ ~session.recording_url

\* _handle_recording_file_status_updated: every payload names the recording.
OnRecordingFile(session, info) ==
  [session EXCEPT !.recording_id = TRUE, !.recording_url = @ \/ info = "url"]

=============================================================================
