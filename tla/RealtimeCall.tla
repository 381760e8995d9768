----------------------------- MODULE RealtimeCall -----------------------------
(***************************************************************************)
(* A call on a speech-to-speech engine                                     *)
(* (src/src/orchestrator/realtime_session.py, voicelive_session.py, and    *)
(* the pre-warming and media-stream route of app.py).                      *)
(*                                                                         *)
(* Two engine sessions can exist for one call: the "warm" one, connected   *)
(* by a background task while the phone rings, and the "cold" one that the *)
(* route builds when it finds none parked.  The route runs one of them:    *)
(* two pumps, a paced sender, and short-lived tasks for the greeting, the  *)
(* confirmation of a barge-in and the hang-up.  All of this is asyncio     *)
(* code of one process; an action runs from one await to the next.         *)
(*                                                                         *)
(* The model service and the callee are the environment.  An event of the  *)
(* model is handled in the step that raises it.  Audio is abstracted to    *)
(* whether a frame is queued; every bounded wait may end at any time.  A   *)
(* sound of the callee is known only by the events it causes: the service  *)
(* raises speech_stopped when the line has been silent for vad_silence_ms. *)
(***************************************************************************)
EXTENDS CallModels, Naturals, FiniteSets

CONSTANTS
  Config,         \* agent_config.json files, and networks, to consider
  Report,         \* what end_call may carry: keys of _OUTCOME_MAP, None if unusable
  SharedStore     \* get_session returns a copy made before the call was placed

\* What end_call's schema offers the model; None stands for arguments that
\* name no outcome.
Reportable == CallOutcome \cup {None}

\* barge_in, and barge_in_confirm_ms = 0 (eager) or more (confirm); whether the
\* model service may refuse or drop a connection.
Configs == [wait_for_caller : BOOLEAN, barge_in : {"off", "eager", "confirm"},
            may_drop : BOOLEAN]

ASSUME RealtimeAssumption ==
  /\ Config \subseteq Configs
  /\ Report \subseteq Reportable
  /\ SharedStore \in BOOLEAN

VARIABLES
  config,  \* the one this replica runs with
  line,    \* "ringing", "up" or "down"
  warmer,  \* stage of the background task that pre-warms
  parked,  \* _prewarmed_sessions holds the warm session
  route,   \* stage of the media-stream route
  ran,     \* the engine session the route runs
  socket,  \* per engine session: its connection to the model
  closed,  \* per engine session: _closed
  s,       \* the flags of the engine session that runs
  model,   \* the model's side: what it was told and what it is doing; speech from
           \* its speech_started to its speech_stopped
  hist     \* what the callee and the records saw

vars == <<config, line, warmer, parked, route, ran, socket, closed, s, model, hist>>
lines == <<config, line, warmer, parked, route, ran, socket, closed>>

Engine == {"warm", "cold"}

\* What the transcription of a caller's utterance amounts to.
Heard == {"nothing", "words", "voicemail"}

Flags == [pumps     : SUBSET {"acs", "model"},   \* pumps that still run
          sender    : BOOLEAN,
          fallback  : BOOLEAN,   \* the greeting fallback is pending
          greeted   : BOOLEAN,
          speaking  : BOOLEAN,   \* _agent_speaking
          queued    : BOOLEAN,   \* _out_buf holds a frame
          barge     : BOOLEAN,   \* _barge_task is pending
          voicemail : BOOLEAN,
          endCallId : BOOLEAN,
          ending    : BOOLEAN,
          finish    : {"none", "grace", "goodbye", "draining", "tail", "done"},
          source    : {None, "tool", "inference"},
          outcome   : Reportable]

\* The bounds of hist say that the callee is greeted once, whoever asks for it
\* (the fallback, the end of an utterance and its transcription race for it),
\* and hung up on once, however often the model reports the end.
TypeOK ==
  /\ config \in Config
  /\ line \in {"ringing", "up", "down"}
  /\ warmer \in {"connecting", "configuring", "sleeping", "done"}
  /\ parked \in BOOLEAN
  /\ route \in {"none", "connecting", "configuring", "starting", "running", "over"}
  /\ ran \in Engine \cup {None}
  /\ socket \in [Engine -> {"none", "open", "lost", "shut"}]
  /\ closed \in [Engine -> BOOLEAN]
  /\ s \in Flags
  /\ model \in [auto : BOOLEAN, responding : BOOLEAN, speech : BOOLEAN, owed : BOOLEAN]
  /\ hist \in [greetings : 0..1, late : BOOLEAN, hangups : 0..1, reports : SUBSET CallOutcome]

Init ==
  /\ config \in Config
  /\ line = "ringing" /\ warmer = "connecting" /\ parked = FALSE
  /\ route = "none" /\ ran = None
  /\ socket = [e \in Engine |-> "none"] /\ closed = [e \in Engine |-> FALSE]
  /\ s = [pumps |-> {}, sender |-> FALSE, fallback |-> FALSE, greeted |-> FALSE,
          speaking |-> FALSE, queued |-> FALSE, barge |-> FALSE, voicemail |-> FALSE,
          endCallId |-> FALSE, ending |-> FALSE, finish |-> "none",
          source |-> None, outcome |-> None]
  /\ model = [auto |-> FALSE, responding |-> FALSE, speech |-> FALSE, owed |-> FALSE]
  /\ hist = [greetings |-> 0, late |-> FALSE, hangups |-> 0, reports |-> {}]

-----------------------------------------------------------------------------
(* Connecting: prewarm() awaits a token and the connection, then the       *)
(* configuration it sends.                                                 *)

Connect(e) == socket' = [socket EXCEPT ![e] = "open"]
Shut(e) == socket' = [socket EXCEPT ![e] = IF @ = "none" THEN @ ELSE "shut"]

\* In wait_for_caller mode the model starts with create_response off.
\* Mutant: the model is configured to answer by itself.
RespondAtOnce == TRUE

AutoResponse == ~config.wait_for_caller

WarmConnects ==
  /\ warmer = "connecting"
  /\ \/ Connect("warm") /\ warmer' = "configuring"
     \/ config.may_drop /\ warmer' = "done" /\ UNCHANGED socket
  /\ UNCHANGED <<config, line, parked, route, ran, closed, s, model, hist>>

\* The configured session is parked, also when the call has ended meanwhile
\* or the route runs a cold one; a dropped connection makes the send raise.
WarmParks ==
  /\ warmer = "configuring"
  /\ IF socket["warm"] = "open"
     THEN warmer' = "sleeping" /\ parked' = TRUE
     ELSE warmer' = "done" /\ UNCHANGED parked
  /\ UNCHANGED <<config, line, route, ran, socket, closed, s, model, hist>>

\* Mutant: the expired session is forgotten, but not closed.
ForgetUnclaimed == parked' = FALSE /\ UNCHANGED <<closed, socket>>

\* After PREWARM_TTL_S a session that nobody claimed is popped and closed.
CloseUnclaimed ==
  IF parked
  THEN /\ parked' = FALSE
       /\ closed' = [closed EXCEPT !["warm"] = TRUE]
       /\ Shut("warm")
  ELSE UNCHANGED <<parked, closed, socket>>

WarmExpires ==
  /\ warmer = "sleeping" /\ warmer' = "done"
  /\ CloseUnclaimed
  /\ UNCHANGED <<config, line, route, ran, s, model, hist>>

Answer == line = "ringing" /\ line' = "up"
          /\ UNCHANGED <<config, warmer, parked, route, ran, socket, closed, s, model, hist>>

\* Not answered, or the callee hangs up.
Drop == line # "down" /\ line' = "down"
        /\ UNCHANGED <<config, warmer, parked, route, ran, socket, closed, s, model, hist>>

\* ACS opens the media stream: the route claims the parked session or builds one.
StreamOpens ==
  /\ line = "up" /\ route = "none"
  /\ parked' = FALSE
  /\ IF parked
     THEN ran' = "warm" /\ route' = "starting"
     ELSE ran' = "cold" /\ route' = "connecting"
  /\ UNCHANGED <<config, line, warmer, socket, closed, s, model, hist>>

ColdConnects ==
  /\ route = "connecting"
  /\ \/ Connect("cold") /\ route' = "configuring"
     \/ config.may_drop /\ route' = "over" /\ UNCHANGED socket
  /\ UNCHANGED <<config, line, warmer, parked, ran, closed, s, model, hist>>

ColdConfigures ==
  /\ route = "configuring"
  /\ route' = IF socket["cold"] = "open" THEN "starting" ELSE "over"
  /\ UNCHANGED <<config, line, warmer, parked, ran, socket, closed, s, model, hist>>

\* Mutant: nobody greets a silent callee.
NoFallback == FALSE

\* The greeter task waits greeting_fallback_s for the callee to speak.
Fallback == config.wait_for_caller

\* run: greet at once, or start the fallback; then the sender and the pumps.
\* A greeting that cannot be sent ends the run before the pumps exist.
RunStarts ==
  /\ route = "starting"
  /\ IF config.wait_for_caller \/ socket[ran] = "open"
     THEN /\ route' = "running"
          /\ s' = [s EXCEPT !.pumps = {"acs", "model"}, !.sender = TRUE,
                            !.fallback = Fallback,
                            !.greeted = ~config.wait_for_caller]
          /\ model' = [model EXCEPT !.auto = AutoResponse,
                                    !.responding = ~config.wait_for_caller]
          /\ hist' = [hist EXCEPT !.greetings = IF config.wait_for_caller THEN @ ELSE @ + 1]
          /\ UNCHANGED <<socket, closed>>
     ELSE /\ route' = "over" /\ Shut(ran)
          /\ s' = [s EXCEPT !.greeted = TRUE]
          /\ UNCHANGED <<model, hist, closed>>
  /\ UNCHANGED <<config, line, warmer, parked, ran>>

\* The finally clauses of run.
CloseRun ==
  /\ route' = "over"
  /\ Shut(ran)
  /\ closed' = [closed EXCEPT ![ran] = TRUE]
  /\ s' = [s EXCEPT !.pumps = {}, !.sender = FALSE, !.fallback = FALSE, !.barge = FALSE]
  /\ UNCHANGED <<config, line, warmer, parked, ran, model, hist>>

\* gather waits for both pumps, unless one of them raises.
RunEnds == route = "running" /\ s.pumps = {} /\ CloseRun

\* iter_text ends when ACS closes the media stream.
AcsPumpEnds ==
  /\ route = "running" /\ line = "down" /\ "acs" \in s.pumps
  /\ s' = [s EXCEPT !.pumps = @ \ {"acs"}]
  /\ UNCHANGED <<lines, model, hist>>

ModelDrops(e) ==
  /\ config.may_drop /\ socket[e] = "open"
  /\ socket' = [socket EXCEPT ![e] = "lost"]
  /\ model' = IF e = ran THEN [model EXCEPT !.responding = FALSE] ELSE model
  /\ UNCHANGED <<config, line, warmer, parked, route, ran, closed, s, hist>>

\* The iteration over a dropped connection ends, or raises if it broke.
ModelPumpEnds ==
  /\ route = "running" /\ "model" \in s.pumps /\ socket[ran] = "lost"
  /\ \/ s' = [s EXCEPT !.pumps = @ \ {"model"}] /\ UNCHANGED <<lines, model, hist>>
     \/ CloseRun

-----------------------------------------------------------------------------
(* The greeting.                                                           *)

MayGreet == ~s.greeted /\ ~closed[ran]

\* _trigger_greeting on the flags f: the first caller wins, enables the
\* model's automatic responses and asks for the greeting.
TriggerGreeting(f, m) ==
  LET sent == MayGreet /\ socket[ran] = "open" IN
  /\ s' = [f EXCEPT !.greeted = @ \/ MayGreet]
  /\ model' = IF sent THEN [m EXCEPT !.auto = TRUE, !.responding = TRUE] ELSE m
  /\ hist' = [hist EXCEPT !.greetings = IF sent THEN @ + 1 ELSE @]

FallbackFires ==
  /\ s.fallback
  /\ TriggerGreeting([s EXCEPT !.fallback = FALSE], model)
  /\ UNCHANGED lines

-----------------------------------------------------------------------------
(* The agent's audio, and the callee talking over it.                      *)

Audible == s.speaking \/ s.queued

\* The pump handles an event of the model.
Pumping == route = "running" /\ "model" \in s.pumps /\ socket[ran] = "open"

AudioDelta ==
  /\ Pumping /\ model.responding
  /\ s' = [s EXCEPT !.speaking = TRUE, !.queued = TRUE]
  /\ UNCHANGED <<lines, model, hist>>

ResponseDone ==
  /\ Pumping /\ model.responding
  /\ s' = [s EXCEPT !.speaking = FALSE]
  /\ model' = [model EXCEPT !.responding = FALSE]
  /\ UNCHANGED <<lines, hist>>

\* The paced sender plays a frame, or stops for good when ACS is gone.
SenderSends ==
  /\ s.sender /\ s.queued
  /\ IF line = "up" THEN \E more \in BOOLEAN : s' = [s EXCEPT !.queued = more]
     ELSE s' = [s EXCEPT !.sender = FALSE]
  /\ UNCHANGED <<lines, model, hist>>

Interrupt(f) == [f EXCEPT !.speaking = FALSE, !.queued = FALSE]

SpeechStarted ==
  /\ Pumping /\ ~model.speech
  /\ model' = [model EXCEPT !.speech = TRUE]
  /\ s' = IF ~Audible \/ config.barge_in = "off" THEN s
          ELSE IF config.barge_in = "eager" THEN Interrupt(s)
          ELSE [s EXCEPT !.barge = TRUE]
  /\ UNCHANGED <<lines, hist>>

\* barge_in_confirm_ms after speech_started, nobody cancelled the task.  The sound
\* may be over: the window is shorter than the silence that ends an utterance.
BargeInConfirmed ==
  /\ s.barge
  /\ LET f == [s EXCEPT !.barge = FALSE] IN
     /\ s' = IF Audible THEN Interrupt(f) ELSE f
     /\ hist' = [hist EXCEPT !.late = @ \/ (Audible /\ ~model.speech)]
  /\ UNCHANGED <<lines, model>>

\* Mutant: the pending confirmation is not cancelled.
KeepBargeIn(f) == f

CancelBargeIn(f) == [f EXCEPT !.barge = FALSE]

\* The event that ends an utterance, vad_silence_ms after its sound.  long: it came
\* greeting_min_speech_ms after speech_started.  The service transcribes the
\* utterance, and answers it by itself if it was told to.
SpeechStopped(long) ==
  /\ Pumping /\ model.speech
  /\ LET m == [model EXCEPT !.speech = FALSE, !.owed = TRUE,
                            !.responding = @ \/ model.auto]
         f == CancelBargeIn(s)
     IN IF ~s.greeted /\ config.wait_for_caller /\ long
        THEN TriggerGreeting(f, m)
        ELSE s' = f /\ model' = m /\ UNCHANGED hist
  /\ UNCHANGED lines

\* The transcription arrives some time after the utterance.
CallerTranscript(heard) ==
  /\ Pumping /\ model.owed
  /\ LET m == [model EXCEPT !.owed = FALSE]
         f == [s EXCEPT !.voicemail = @ \/ heard = "voicemail"]
     IN IF heard # "nothing" /\ ~s.greeted /\ config.wait_for_caller
        THEN TriggerGreeting(f, m)
        ELSE s' = f /\ model' = m /\ UNCHANGED hist
  /\ UNCHANGED lines

-----------------------------------------------------------------------------
(* The outcome.                                                            *)

\* Nobody confirms anything on an answering machine.
Downgraded(f, report) == IF f.voicemail /\ report = "resolved" THEN "no_answer" ELSE report

\* _record_outcome: unusable reports are ignored, inference never replaces a
\* report, but a report replaces an earlier one.  (It also persists the session.)
RecordOutcome(f, report, source) ==
  IF report = None \/ (f.source = "tool" /\ source # "tool") THEN f
  ELSE [f EXCEPT !.source = source, !.outcome = Downgraded(f, report)]

\* Mutant: what the goodbye suggests replaces what the model reported.
InferAlways(f, escalates) ==
  [f EXCEPT !.source = "inference",
            !.outcome = IF escalates THEN "escalate_human" ELSE "resolved"]

InferOutcome(f, escalates) ==
  IF f.outcome # None THEN f
  ELSE RecordOutcome(f, IF f.voicemail THEN "no_answer"
                        ELSE IF escalates THEN "escalate_human" ELSE "resolved",
                     "inference")

\* Mutant: every request to finish starts over.
FinishAgain(f) ==
  IF ~closed[ran] THEN [f EXCEPT !.ending = TRUE, !.finish = "grace"] ELSE f

\* _finish_call up to its first wait; the event that creates the task does not
\* wait for it.
FinishCall(f) ==
  IF ~f.ending /\ ~closed[ran]
  THEN [f EXCEPT !.ending = TRUE, !.finish = "grace"] ELSE f

\* The agent's words look like a goodbye, which comes before end_call or instead.
GoodbyeTranscript(escalates) ==
  /\ Pumping /\ model.responding /\ s.greeted
  /\ s' = FinishCall(InferOutcome(s, escalates))
  /\ UNCHANGED <<lines, model, hist>>

\* The two events the service raises for one end_call do the same.
EndCall(report) ==
  /\ Pumping /\ model.responding
  /\ s' = FinishCall([RecordOutcome(s, report, "tool") EXCEPT !.endCallId = TRUE])
  /\ hist' = [hist EXCEPT !.reports = IF report = None THEN @ ELSE @ \cup {Downgraded(s, report)}]
  /\ UNCHANGED <<lines, model>>

\* The disconnect handler of the webhooks, on the same session object.
DisconnectRecorded ==
  /\ line = "down" /\ ~SharedStore /\ s.outcome = None
  /\ s' = [s EXCEPT !.outcome = "no_answer"]
  /\ UNCHANGED <<lines, model, hist>>

-----------------------------------------------------------------------------
(* Hanging up: _finish_call.                                               *)

\* Mutant: the hang-up waits until the goodbye is heard.
WaitsForGoodbye ==
  /\ s.finish = "grace" /\ Audible
  /\ s' = [s EXCEPT !.finish = "draining"]
  /\ UNCHANGED <<lines, model, hist>>

\* The goodbye is heard, or the wait is over: then a bare end_call has its tool
\* handshake completed and the goodbye requested.
FinishGrace ==
  /\ s.finish = "grace"
  /\ LET request == ~Audible /\ s.endCallId /\ socket[ran] = "open" IN
     /\ s' = [s EXCEPT !.finish = IF Audible THEN "draining"
                                  ELSE IF request THEN "goodbye" ELSE "tail"]
     /\ model' = IF request THEN [model EXCEPT !.responding = TRUE] ELSE model
  /\ UNCHANGED <<lines, hist>>

FinishGoodbye ==
  /\ s.finish = "goodbye"
  /\ s' = [s EXCEPT !.finish = IF Audible THEN "draining" ELSE "tail"]
  /\ UNCHANGED <<lines, model, hist>>

\* The goodbye has played out, the session is closed, or 12 s have passed.
FinishDrained ==
  /\ s.finish = "draining"
  /\ s' = [s EXCEPT !.finish = "tail"]
  /\ UNCHANGED <<lines, model, hist>>

\* The server_call_id set after create_call is in the object that placed the
\* call, which the pre-warmed session shares, but not in a stored copy.
KnowsConnection == ran = "warm" \/ ~SharedStore

\* on_terminal hangs the phone up, if it knows the connection.
FinishHangsUp ==
  /\ s.finish = "tail"
  /\ s' = [s EXCEPT !.finish = "done"]
  /\ IF KnowsConnection
     THEN line' = "down" /\ hist' = [hist EXCEPT !.hangups = @ + 1]
     ELSE UNCHANGED <<line, hist>>
  /\ UNCHANGED <<config, warmer, parked, route, ran, socket, closed, model>>

-----------------------------------------------------------------------------

Environment ==
  \/ Answer \/ Drop
  \/ \E e \in Engine : ModelDrops(e)
  \/ AudioDelta \/ ResponseDone \/ SpeechStarted
  \/ \E long \in BOOLEAN : SpeechStopped(long)
  \/ \E heard \in Heard : CallerTranscript(heard)
  \/ \E escalates \in BOOLEAN : GoodbyeTranscript(escalates)
  \/ \E report \in Report : EndCall(report)

Connecting == WarmConnects \/ WarmParks \/ ColdConnects \/ ColdConfigures \/ RunStarts
Closing == AcsPumpEnds \/ ModelPumpEnds \/ RunEnds
Finishing == FinishGrace \/ FinishGoodbye \/ FinishDrained \/ FinishHangsUp

Next ==
  \/ Environment
  \/ Connecting \/ WarmExpires \/ StreamOpens \/ Closing
  \/ FallbackFires \/ SenderSends \/ BargeInConfirmed \/ DisconnectRecorded
  \/ Finishing

Spec == Init /\ [][Next]_vars

\* The event loop runs every task, timers fire and ACS opens the stream of an
\* answered call.  Neither the callee nor the model owes anything.
Fairness ==
  /\ WF_vars(WarmConnects) /\ WF_vars(WarmParks) /\ WF_vars(WarmExpires)
  /\ WF_vars(StreamOpens) /\ WF_vars(ColdConnects) /\ WF_vars(ColdConfigures)
  /\ WF_vars(RunStarts) /\ WF_vars(FallbackFires)
  /\ WF_vars(Finishing)

FairSpec == Spec /\ Fairness

-----------------------------------------------------------------------------
(* In wait_for_caller mode the model says nothing before the greeting was  *)
(* asked for, whatever noise is on the line.                               *)

SilentUntilGreeted == model.responding => s.greeted

(* "If speech stopped before the confirm window, it was a blip -- cancel    *)
(* the pending barge-in so the agent keeps talking": once speech_stopped    *)
(* was received, the sound it ends interrupts nothing any more.  It says    *)
(* nothing of a sound that ends without that event yet: see the README.     *)

StoppedSpeechIsIgnored == ~hist.late

(* "Explicit model reports win over inference": once the model has          *)
(* reported, the outcome is one of its reports, whatever its words suggest  *)
(* before or after and however the call ends.  (The code keeps the last of  *)
(* several; the same docstring says the first: see the README.)             *)

ReportStands == hist.reports # {} => s.source = "tool" /\ s.outcome \in hist.reports

(* The time to live of a pre-warmed session does not close it under the    *)
(* call that claimed it.                                                   *)

RunningIsOpen == route \in {"starting", "running"} => ~closed[ran]

-----------------------------------------------------------------------------
(* A session connected while the phone rang is used or closed.             *)

WarmIsSettled == socket["warm"] = "open" ~> ran = "warm" \/ socket["warm"] # "open"

(* Nobody who answers is left with a dead line: the agent greets, even if  *)
(* the callee says nothing.                                                *)

AnswerIsGreeted ==
  line = "up" ~> \/ hist.greetings > 0 \/ line = "down"
                 \/ route = "over" \/ (ran # None /\ socket[ran] = "lost")

(* "stop any recording and hang up the ACS call so it doesn't sit in       *)
(* silence waiting on the callee" (_make_on_terminal).                     *)

EndingHangsUp == s.ending ~> line = "down"

(* "A call that reached voicemail must be no_answer (so the retry manager  *)
(* redials) -- never resolved" (_VOICEMAIL_MARKERS).                       *)

VoicemailIsNoAnswer == s.voicemail => s.outcome # "resolved"

=============================================================================
