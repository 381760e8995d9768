------------------------------ MODULE LocalCall ------------------------------
(***************************************************************************)
(* One outbound call handled by one orchestrator process with the          *)
(* in-memory session store: src/src/orchestrator/app.py from               *)
(* _process_intent to the final outcome webhook, with the Azure            *)
(* Communication Services (ACS) side of the call as its environment.       *)
(*                                                                         *)
(* The event loop runs one coroutine at a time, so what the code does      *)
(* between two awaits is one action here.  A webhook request is suspended  *)
(* twice: after it has looked its session up, while it reads its body      *)
(* ("reading"), and, for recognized speech, while the Foundry agent        *)
(* reasons ("reasoning").  Every handler mutates the same Python object,   *)
(* whether or not the store still maps the call id to it (stored).         *)
(***************************************************************************)
EXTENDS CallHandlers

CONSTANTS
  Worker,      \* webhook requests that can be in progress at one time
  Response,    \* the answers the Foundry agent can give
  MaxDups,     \* bound: webhook deliveries that ACS repeats
  MaxReports,  \* bound: status reports of recordings that ACS makes
  AcsMayFail   \* can an ACS command on a live call be refused?

ASSUME LocalCallAssumption ==
  /\ Response \subseteq AgentResponse
  /\ MaxDups \in Nat /\ MaxReports \in Nat
  /\ MaxProcessed \in Nat \ {0}
  /\ AcsMayFail \in BOOLEAN

VARIABLES
  session,     \* the CallSession object
  stored,      \* the session store maps the call id to it
  request,     \* the webhook requests in progress
  timer,       \* a finalize task is pending for the call
  starting,    \* recording start-ups running in background threads
  recorded,    \* outcomes given to RetryManager.record_outcome, in order
  posting,     \* webhook tasks created that have not built their payload
  posted,      \* payloads handed to the outcome webhook
  line,        \* ACS: the phone line
  ops,         \* ACS: media operations under way
  opCount,     \* ACS: media operations started so far
  recordings,  \* ACS: recordings started so far
  recStopped,  \* ACS: recording was stopped
  reports,     \* ACS: status reports of recordings made so far
  owed,        \* ACS: events raised and not yet delivered for the last time
  dups         \* ACS: deliveries that are not the last of their event

process == <<session, stored, request, timer, starting, recorded, posting, posted>>
acsMedia == <<ops, opCount>>
acsRecording == <<recordings, recStopped, reports>>
vars == <<process, line, acsMedia, acsRecording, owed, dups>>

NoEvent == [type |-> None, op |-> 0, info |-> None]

Request == [stage : {"idle", "reading", "reasoning"},
            event : Event \cup {NoEvent},
            found : BOOLEAN]   \* get_session returned the session

Idle == [stage |-> "idle", event |-> NoEvent, found |-> FALSE]
Reading(e, found) == [stage |-> "reading", event |-> e, found |-> found]
Reasoning(e) == [stage |-> "reasoning", event |-> e, found |-> TRUE]

Payload == [outcome : CallOutcome, url : BOOLEAN]

ConnectedEvent    == [type |-> "CallConnected", op |-> 0, info |-> None]
DisconnectedEvent == [type |-> "CallDisconnected", op |-> 0, info |-> None]
RecordingEvent(n, info) == [type |-> "RecordingFileStatusUpdated", op |-> n, info |-> info]

TypeOK ==
  /\ session \in Session
  /\ stored \in BOOLEAN
  /\ request \in [Worker -> Request]
  /\ timer \in BOOLEAN
  /\ starting \in Nat
  /\ recorded \in Seq(CallOutcome)
  /\ posting \in Nat
  /\ posted \in Seq(Payload)
  /\ line \in {"idle", "failed", "ringing", "up", "down"}
  /\ ops \in SUBSET [id : Nat, context : MediaContext]
  /\ opCount \in Nat
  /\ recordings \in Nat
  /\ recStopped \in BOOLEAN
  /\ reports \in Nat
  /\ owed \in SUBSET Event
  /\ dups \in Nat

Init ==
  /\ session = NewSession
  /\ stored = FALSE
  /\ request = [w \in Worker |-> Idle]
  /\ timer = FALSE
  /\ starting = 0
  /\ recorded = << >>
  /\ posting = 0
  /\ posted = << >>
  /\ line = "idle"
  /\ ops = {}
  /\ opCount = 0
  /\ recordings = 0
  /\ recStopped = FALSE
  /\ reports = 0
  /\ owed = {}
  /\ dups = 0

-----------------------------------------------------------------------------
(* Placing the call: the end of _process_intent.                           *)

PlaceCall ==
  /\ line = "idle"
  /\ stored' = TRUE
  /\ line' = "ringing"
  /\ UNCHANGED <<session, request, timer, starting, recorded, posting, posted,
                 acsMedia, acsRecording, owed, dups>>

\* create_call raised: FAILED is recorded, the session stays registered.
PlaceCallFails ==
  /\ line = "idle"
  /\ stored' = TRUE
  /\ recorded' = Append(recorded, "failed")
  /\ line' = "failed"
  /\ UNCHANGED <<session, request, timer, starting, posting, posted,
                 acsMedia, acsRecording, owed, dups>>

-----------------------------------------------------------------------------
(* The ACS side.                                                           *)

Answer ==
  /\ line = "ringing"
  /\ line' = "up"
  /\ owed' = owed \cup {ConnectedEvent}
  /\ UNCHANGED <<process, acsMedia, acsRecording, dups>>

\* Nobody answers, or the callee hangs up.
LineDrops ==
  /\ line \in {"ringing", "up"}
  /\ line' = "down"
  /\ owed' = owed \cup {DisconnectedEvent}
  /\ UNCHANGED <<process, acsMedia, acsRecording, dups>>

CompletionEvents(o) ==
  IF o.context = "sop_ask"
  THEN {[type |-> "RecognizeCompleted", op |-> o.id, info |-> i] : i \in {"speech", "silence"}}
         \cup {[type |-> "RecognizeFailed", op |-> o.id, info |-> None]}
  ELSE {[type |-> "PlayCompleted", op |-> o.id, info |-> o.context]}

\* A media operation finishes and raises its one completion event.
MediaCompletes(o) ==
  /\ line = "up"
  /\ ops' = ops \ {o}
  /\ \E e \in CompletionEvents(o) : owed' = owed \cup {e}
  /\ UNCHANGED <<process, line, opCount, acsRecording, dups>>

\* The line drops under an operation: a recognition fails, a playback is
\* cancelled with an event that the application has no handler for.
MediaAborts(o) ==
  /\ line = "down"
  /\ ops' = ops \ {o}
  /\ owed' = owed \cup {e \in CompletionEvents(o) : e.type = "RecognizeFailed"}
  /\ UNCHANGED <<process, line, opCount, acsRecording, dups>>

\* A recording reports its state, or its file once it is over.
RecordingReports ==
  /\ recordings > 0
  /\ reports < MaxReports
  /\ reports' = reports + 1
  /\ \E info \in {"url", "no_url"} :
       /\ info = "url" => (recStopped \/ line = "down")
       /\ owed' = owed \cup {RecordingEvent(reports + 1, info)}
  /\ UNCHANGED <<process, line, acsMedia, recordings, recStopped, dups>>

\* A webhook delivery: a request looks its session up, then awaits its body.
\* Deliveries are at least once: ACS may still owe the event afterwards,
\* whatever becomes of this request.
Deliver(e) ==
  /\ \E w \in Worker :
       /\ request[w] = Idle
       /\ request' = [request EXCEPT ![w] = Reading(e, stored)]
  /\ \/ owed' = owed \ {e} /\ UNCHANGED dups
     \/ dups < MaxDups /\ dups' = dups + 1 /\ UNCHANGED owed
  /\ UNCHANGED <<session, stored, timer, starting, recorded, posting, posted,
                 line, acsMedia, acsRecording>>

\* What ACS does with a command of a handler.  A refused or late command
\* raises in the handler: the request fails, the session keeps its changes.
Issue(command) ==
  \/ /\ command \in MediaContext /\ line = "up"
     /\ ops' = ops \cup {[id |-> opCount + 1, context |-> command]}
     /\ opCount' = opCount + 1
     /\ UNCHANGED <<line, owed>>
  \/ /\ command = "hang_up" /\ line = "up"
     /\ line' = "down"
     /\ owed' = owed \cup {DisconnectedEvent}
     /\ UNCHANGED acsMedia
  \/ /\ command = None \/ line # "up" \/ AcsMayFail
     /\ UNCHANGED <<line, owed, acsMedia>>

-----------------------------------------------------------------------------
(* The body of a webhook request.                                          *)

Done(w) == request' = [request EXCEPT ![w] = Idle]

\* Mutant: duplicates are not recognized.
FreshOrNot(w, type) ==
  request[w].stage = "reading" /\ request[w].event.type = type /\ request[w].found

\* The event is handled: the session was found and its id is new.  The id is
\* marked, and the session put back, before the handler runs.
Fresh(w, type) ==
  /\ request[w].stage = "reading"
  /\ request[w].event.type = type
  /\ request[w].found
  /\ ~AlreadyProcessed(session, request[w].event)

Marked(w) == MarkProcessed(session, request[w].event)

\* The session was unknown, or the event is a duplicate.
IgnoreEvent(w) ==
  /\ request[w].stage = "reading"
  /\ ~request[w].found \/ AlreadyProcessed(session, request[w].event)
  /\ Done(w)
  /\ UNCHANGED <<session, stored, timer, starting, recorded, posting, posted,
                 line, acsMedia, acsRecording, owed, dups>>

\* A handler that only moves the conversation on.
Converse(w, result) ==
  /\ session' = result.session
  /\ stored' = TRUE
  /\ Done(w)
  /\ Issue(result.command)
  /\ UNCHANGED <<timer, recorded, posting, posted, recordings, reports, dups>>

HandleCallConnected(w) ==
  /\ Fresh(w, "CallConnected")
  /\ Converse(w, OnCallConnected(Marked(w)))
  /\ UNCHANGED <<starting, recStopped>>

HandlePlayCompleted(w) ==
  /\ Fresh(w, "PlayCompleted")
  /\ LET context == request[w].event.info IN
     /\ Converse(w, OnPlayCompleted(Marked(w), context))
     /\ starting' = IF StartsRecording(session, context) THEN starting + 1 ELSE starting
     /\ recStopped' = (recStopped \/ (context = "sop_terminal" /\ session.recording_id))

HandleRecognizeFailed(w) ==
  /\ Fresh(w, "RecognizeFailed")
  /\ Converse(w, OnRecognizeFailed(Marked(w)))
  /\ UNCHANGED <<starting, recStopped>>

HandleSilence(w) ==
  /\ Fresh(w, "RecognizeCompleted")
  /\ request[w].event.info = "silence"
  /\ Converse(w, OnSilence(Marked(w)))
  /\ UNCHANGED <<starting, recStopped>>

\* Recognized speech: the request suspends until the agent has answered.
HandleSpeech(w) ==
  /\ Fresh(w, "RecognizeCompleted")
  /\ request[w].event.info = "speech"
  /\ session' = Marked(w)
  /\ stored' = TRUE
  /\ request' = [request EXCEPT ![w] = Reasoning(request[w].event)]
  /\ UNCHANGED <<timer, starting, recorded, posting, posted,
                 line, acsMedia, acsRecording, owed, dups>>

\* The answer: the session is updated and put back as it is by then.
AgentAnswers(w) ==
  /\ request[w].stage = "reasoning"
  /\ \E response \in Response :
       LET result == OnAgentResponse(session, response) IN
       /\ session' = result.session
       /\ stored' = (stored \/ result.command # None)
       /\ Issue(result.command)
  /\ Done(w)
  /\ UNCHANGED <<timer, starting, recorded, posting, posted,
                 acsRecording, dups>>

\* Mutant: completion_logged is not consulted.
FinalizeAgain(s) ==
  /\ session' = [s EXCEPT !.completion_logged = TRUE]
  /\ stored' = FALSE
  /\ posting' = posting + 1

\* _finalize_disconnected_session, except for the timer: the result is posted
\* and the session removed, unless that was done before.
Finalize(s) ==
  /\ session' = [s EXCEPT !.completion_logged = TRUE]
  /\ stored' = s.completion_logged
  /\ posting' = IF s.completion_logged THEN posting ELSE posting + 1

\* Mutant: the finalize task is left running.
LeaveTimer(s) == timer' = timer

CancelTimer(s) == timer' = (timer /\ s.completion_logged)

HandleCallDisconnected(w) ==
  /\ Fresh(w, "CallDisconnected")
  /\ Done(w)
  /\ IF Marked(w).ended
     THEN /\ session' = Marked(w)
          /\ stored' = TRUE
          /\ UNCHANGED <<timer, recorded, posting>>
     ELSE LET s == OnCallDisconnected(Marked(w)) IN
          /\ recorded' = Append(recorded, s.outcome)
          /\ IF AwaitsRecordingUrl(s)
             THEN /\ session' = s
                  /\ stored' = TRUE
                  /\ timer' = TRUE
                  /\ UNCHANGED posting
             ELSE Finalize(s) /\ CancelTimer(s)
  /\ UNCHANGED <<starting, posted, line, acsMedia, acsRecording, owed, dups>>

HandleRecordingFile(w) ==
  /\ Fresh(w, "RecordingFileStatusUpdated")
  /\ Done(w)
  /\ LET s == OnRecordingFile(Marked(w), request[w].event.info) IN
     IF request[w].event.info = "url" /\ s.ended
     THEN Finalize(s) /\ CancelTimer(s)
     ELSE /\ session' = s
          /\ stored' = TRUE
          /\ UNCHANGED <<timer, posting>>
  /\ UNCHANGED <<starting, recorded, posted, line, acsMedia, acsRecording, owed, dups>>

-----------------------------------------------------------------------------
(* Background tasks.                                                       *)

\* _finalize_after_recording_timeout.
TimerFires ==
  /\ timer
  /\ timer' = FALSE
  /\ IF stored /\ session.ended
     THEN Finalize(session)
     ELSE UNCHANGED <<session, stored, posting>>
  /\ UNCHANGED <<request, starting, recorded, posted,
                 line, acsMedia, acsRecording, owed, dups>>

\* _start_recording_background after its thread has returned: with an id, which
\* is kept if the session is still stored and has none, or without.
RecordingStarts ==
  /\ starting > 0
  /\ starting' = starting - 1
  /\ recordings' = recordings + 1
  /\ session' = IF stored THEN [session EXCEPT !.recording_id = TRUE] ELSE session
  /\ UNCHANGED <<stored, request, timer, recorded, posting, posted,
                 line, acsMedia, recStopped, reports, owed, dups>>

RecordingFailsToStart ==
  /\ starting > 0
  /\ line # "up" \/ AcsMayFail
  /\ starting' = starting - 1
  /\ UNCHANGED <<session, stored, request, timer, recorded, posting, posted,
                 line, acsMedia, acsRecording, owed, dups>>

\* OutcomeNotifier._deliver runs: the payload is built from the session now.
PostOutcome ==
  /\ posting > 0
  /\ posting' = posting - 1
  /\ posted' = Append(posted, [outcome |-> session.outcome, url |-> session.recording_url])
  /\ UNCHANGED <<session, stored, request, timer, starting, recorded,
                 line, acsMedia, acsRecording, owed, dups>>

-----------------------------------------------------------------------------
Handle(w) ==
  \/ IgnoreEvent(w)
  \/ HandleCallConnected(w)
  \/ HandlePlayCompleted(w)
  \/ HandleRecognizeFailed(w)
  \/ HandleSilence(w)
  \/ HandleSpeech(w)
  \/ AgentAnswers(w)
  \/ HandleCallDisconnected(w)
  \/ HandleRecordingFile(w)

Media == \E o \in ops : MediaCompletes(o) \/ MediaAborts(o)

Background == TimerFires \/ RecordingStarts \/ RecordingFailsToStart \/ PostOutcome

Next ==
  \/ PlaceCall
  \/ PlaceCallFails
  \/ Answer
  \/ LineDrops
  \/ Media
  \/ RecordingReports
  \/ \E e \in owed : Deliver(e)
  \/ \E w \in Worker : Handle(w)
  \/ Background

Spec == Init /\ [][Next]_vars

\* ACS finishes its media operations and delivers every event at least once;
\* the event loop runs every request and task that can go on.  Nothing says
\* that anyone answers, or hangs up, or that a recording ever reports.
Fairness ==
  /\ WF_vars(Media)
  /\ WF_vars(\E e \in owed : Deliver(e))
  /\ \A w \in Worker : WF_vars(Handle(w))
  /\ WF_vars(TimerFires)
  /\ WF_vars(RecordingStarts \/ RecordingFailsToStart)
  /\ WF_vars(PostOutcome)

FairSpec == Spec /\ Fairness

=============================================================================
