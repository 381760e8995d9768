------------------------------ MODULE SharedCall ------------------------------
(***************************************************************************)
(* One call whose webhooks land on several replicas, with the session in a *)
(* shared store (src/src/orchestrator/session_store.py: Redis or Cosmos).  *)
(*                                                                         *)
(* Unlike LocalCall's one object, every request works on a copy of its own *)
(* from get_session on, and update_session overwrites the whole record.    *)
(* Between two awaits a replica runs alone, but other replicas read and    *)
(* write the store between any two of its store operations: an action has  *)
(* one operation on a shared object (store, retry record, ACS) at most.    *)
(* A replica may stop at any point; its copies, its finalize task and its  *)
(* recording start-up are gone with it.                                    *)
(***************************************************************************)
EXTENDS CallHandlers, FiniteSets

CONSTANTS
  Replica,     \* the replicas, each with one webhook request at a time
  Response,    \* the answers the Foundry agent can give
  Overlap,     \* can two copies that may still be stored be in use at one time?
  MaxFaults,   \* bound: webhook deliveries that ACS repeats, and replicas that stop
  MaxReports,  \* bound: status reports of the recording
  MaxOps       \* bound: media operations of the call

ASSUME SharedCallAssumption ==
  /\ Response \subseteq AgentResponse
  /\ {MaxFaults, MaxReports, MaxOps} \subseteq Nat
  /\ MaxProcessed \in Nat \ {0}
  /\ IsFiniteSet(Replica) /\ Overlap \in BOOLEAN
  /\ "no session" \notin StepId   \* the name by which NoSession is told apart

VARIABLES
  store,      \* the record the session store holds for the call id
  request,    \* by replica: its webhook request
  task,       \* by replica: a background task that is writing a session back
  timer,      \* by replica: a finalize task is pending
  starting,   \* by replica: a recording start-up runs in a thread
  recorded,   \* outcomes given to RetryManager.record_outcome, in order
  posted,     \* outcomes posted to the customer, in order
  line, ops, opCount, saidAt, recordings, reports, owed, dups,
              \* ACS, as in LocalCall; saidAt: the step of every operation
  stops       \* replicas that have stopped

shared == <<store, recorded, posted>>
NotAcs == <<shared, request, task, timer, starting, stops>>
acs == <<line, ops, opCount, saidAt, recordings, reports, owed, dups>>
vars == <<shared, request, task, timer, starting, acs, stops>>

\* What get_session returns for an unknown call: no state of a session.
NoSession == [NewSession EXCEPT !.current_step = "no session"]
MaybeSession == Session \cup {NoSession}
NoEvent == [type |-> None, op |-> 0, info |-> None]

\* A request: what it does next, its event, its copy, its command.
Idle == [stage |-> "idle", event |-> NoEvent, copy |-> NoSession, command |-> None]
NoTask == [kind |-> None, copy |-> NoSession]

TypeOK ==
  /\ store \in MaybeSession
  /\ request \in [Replica ->
       [stage : {"idle", "reading", "marked", "reasoning", "commanding", "closing"},
        event : Event \cup {NoEvent}, copy : MaybeSession, command : Command]]
  /\ task \in [Replica -> [kind : {None, "save_recording", "finalize"},
                           copy : MaybeSession]]
  /\ timer \in [Replica -> BOOLEAN] /\ starting \in [Replica -> Nat]
  /\ {recorded, posted} \subseteq Seq(CallOutcome)
  /\ line \in {"idle", "ringing", "up", "down", "failed"}
  /\ ops \in SUBSET [id : 1..MaxOps, context : MediaContext]
  /\ saidAt \in BoundedSeq(StepId, MaxOps) /\ opCount = Len(saidAt)
  /\ recordings \in Nat /\ reports \in 0..MaxReports
  /\ owed \in SUBSET Event
  /\ {dups, stops} \subseteq 0..MaxFaults

Init ==
  /\ store = NoSession /\ recorded = << >> /\ posted = << >>
  /\ request = [r \in Replica |-> Idle] /\ task = [r \in Replica |-> NoTask]
  /\ timer = [r \in Replica |-> FALSE] /\ starting = [r \in Replica |-> 0]
  /\ line = "idle" /\ ops = {} /\ opCount = 0 /\ saidAt = << >>
  /\ recordings = 0 /\ reports = 0 /\ owed = {} /\ dups = 0
  /\ stops = 0

-----------------------------------------------------------------------------
(* The event loop of a replica, and who holds a copy.                      *)

Awaiting(r) == request[r].stage \in {"idle", "reading", "reasoning"}
LoopIsFree(r) == Awaiting(r) /\ task[r] = NoTask

\* A copy that may still be stored: at "commanding" it was stored if it is to
\* be, and what is left is the command and the return.
MayStore(q) == q.copy # NoSession /\ q.stage # "commanding"

InUse(req, tsk) ==
  Cardinality({r \in Replica : MayStore(req[r])})
    + Cardinality({r \in Replica : tsk[r] # NoTask})

\* A copy is taken: conjoined after request and task have been assigned.
Takes == Overlap \/ InUse(request', task') <= 1

-----------------------------------------------------------------------------
(* Placing the call: the session is stored before the call is created.     *)

Register ==
  /\ line = "idle" /\ store = NoSession
  /\ store' = NewSession
  /\ UNCHANGED <<recorded, posted, request, task, timer, starting, acs, stops>>

InitiateCall ==
  /\ line = "idle" /\ store # NoSession
  /\ line' = "ringing"
  /\ UNCHANGED <<NotAcs, ops, opCount, saidAt, recordings, reports, owed, dups>>

\* ACS refuses: that is recorded, and the session stays in the store.
PlaceCallFails ==
  /\ line = "idle" /\ store # NoSession
  /\ line' = "failed" /\ recorded' = Append(recorded, "failed")
  /\ UNCHANGED <<store, posted, request, task, timer, starting, stops,
                 ops, opCount, saidAt, recordings, reports, owed, dups>>

-----------------------------------------------------------------------------
(* ACS.                                                                    *)

Answer ==
  /\ line = "ringing" /\ line' = "up"
  /\ owed' = owed \cup {[type |-> "CallConnected", op |-> 0, info |-> None]}
  /\ UNCHANGED <<NotAcs, ops, opCount, saidAt, recordings, reports, dups>>

Disconnected == [type |-> "CallDisconnected", op |-> 0, info |-> None]

LineDrops ==
  /\ line \in {"ringing", "up"} /\ line' = "down"
  /\ owed' = owed \cup {Disconnected}
  /\ UNCHANGED <<NotAcs, ops, opCount, saidAt, recordings, reports, dups>>

CompletionEvents(o) ==
  IF o.context = "sop_ask"
  THEN {[type |-> "RecognizeCompleted", op |-> o.id, info |-> "speech"],
        [type |-> "RecognizeFailed", op |-> o.id, info |-> None]}
  ELSE {[type |-> "PlayCompleted", op |-> o.id, info |-> o.context]}

\* An operation completes, or is aborted with the line.
MediaCompletes(o) ==
  /\ line \in {"up", "down"} /\ ops' = ops \ {o}
  /\ \E e \in CompletionEvents(o) :
       owed' = IF line = "up" \/ e.type = "RecognizeFailed" THEN owed \cup {e} ELSE owed
  /\ UNCHANGED <<NotAcs, line, opCount, saidAt, recordings, reports, dups>>

RecordingReports ==
  /\ recordings > 0 /\ reports < MaxReports /\ reports' = reports + 1
  /\ \E info \in {"url", "no_url"} :
       /\ info = "url" => line = "down"
       /\ owed' = owed \cup {[type |-> "RecordingFileStatusUpdated", op |-> reports', info |-> info]}
  /\ UNCHANGED <<NotAcs, line, ops, opCount, saidAt, recordings, dups>>

\* A webhook request begins with the look-up of the session.  ACS delivers an
\* event until a request has returned for it, and may deliver it once more.
Deliver(r, e) ==
  /\ request[r] = Idle /\ LoopIsFree(r)
  /\ IF \E x \in Replica : request[x].event = e
     THEN dups + stops < MaxFaults /\ dups' = dups + 1
     ELSE UNCHANGED dups
  /\ request' = [request EXCEPT ![r] = [Idle EXCEPT !.stage = "reading", !.event = e,
                                                    !.copy = store]]
  /\ task' = task /\ Takes
  /\ UNCHANGED <<shared, timer, starting, line, ops, opCount, saidAt,
                 recordings, reports, owed, stops>>

\* The request returns, and the handler's command raised these events.
Returns(r, raised) ==
  /\ request' = [request EXCEPT ![r] = Idle]
  /\ \/ owed' = (owed \ {request[r].event}) \cup raised /\ UNCHANGED dups
     \/ dups + stops < MaxFaults /\ dups' = dups + 1 /\ owed' = owed \cup raised

-----------------------------------------------------------------------------
(* A webhook request of replica r, one store operation at a time.          *)

At(r, stage) == request[r].stage = stage /\ task[r] = NoTask
Webhook(r) == request[r].event
Copy(r) == request[r].copy

Goes(r, stage, session, command) ==
  request' = [request EXCEPT ![r].stage = stage, ![r].copy = session,
                             ![r].command = command]

\* Mutant: the ids of handled events are not consulted.
SeenNever(r) == FALSE

Seen(r) == AlreadyProcessed(Copy(r), Webhook(r))

\* No session, or a duplicate.
Ignore(r) ==
  /\ At(r, "reading")
  /\ Copy(r) = NoSession \/ Seen(r)
  /\ Returns(r, {})
  /\ UNCHANGED <<shared, task, timer, starting, line, ops, opCount, saidAt,
                 recordings, reports, stops>>

\* The id is marked and the copy stored.  For recognized speech the agent is
\* asked next.
Mark(r) ==
  /\ At(r, "reading") /\ Copy(r) # NoSession /\ ~Seen(r)
  /\ LET marked == MarkProcessed(Copy(r), Webhook(r)) IN
     /\ Goes(r, IF Webhook(r).type = "RecognizeCompleted" THEN "reasoning" ELSE "marked",
             marked, None)
     /\ store' = marked
  /\ UNCHANGED <<recorded, posted, task, timer, starting, acs, stops>>

\* The end of a handler that moves the conversation on: update_session, then
\* its command.  One that raises, has nothing to say or hangs up stores nothing.
Save(r, result) ==
  /\ Goes(r, "commanding", result.session, result.command)
  /\ store' = IF result.command \in MediaContext
              THEN result.session ELSE store

Result(r) ==
  LET e == Webhook(r)
      s == Copy(r)
  IN CASE e.type = "CallConnected" -> OnCallConnected(s)
       [] e.type = "PlayCompleted" -> OnPlayCompleted(s, e.info)
       [] e.type = "RecognizeFailed" -> OnRecognizeFailed(s)

BeginsRecording(r) ==
  starting' = IF Webhook(r).type = "PlayCompleted"
                   /\ StartsRecording(Copy(r), Webhook(r).info)
              THEN [starting EXCEPT ![r] = @ + 1] ELSE starting

Converse(r) ==
  /\ At(r, "marked") /\ Webhook(r).type \in TurnType
  /\ Save(r, Result(r)) /\ BeginsRecording(r)
  /\ UNCHANGED <<recorded, posted, task, timer, acs, stops>>

AgentAnswers(r, response) ==
  /\ At(r, "reasoning")
  /\ Save(r, OnAgentResponse(Copy(r), response))
  /\ UNCHANGED <<recorded, posted, task, timer, starting, acs, stops>>

\* ACS carries the command out, or refuses it because the line is down.
Operate(session, command) ==
  IF command \in MediaContext /\ line = "up" /\ opCount < MaxOps
  THEN /\ ops' = ops \cup {[id |-> opCount + 1, context |-> command]}
       /\ opCount' = opCount + 1
       /\ saidAt' = Append(saidAt, session.current_step)
  ELSE UNCHANGED <<ops, opCount, saidAt>>

\* The call is hung up if that is the command, and the request returns.
EndTurn(r) ==
  /\ line' = IF request[r].command = "hang_up" /\ line = "up" THEN "down" ELSE line
  /\ Returns(r, IF line' # line THEN {Disconnected} ELSE {})

SendCommand(r) ==
  /\ At(r, "commanding")
  /\ Operate(Copy(r), request[r].command) /\ EndTurn(r)
  /\ UNCHANGED <<shared, task, timer, starting, recordings, reports, stops>>

\* Mutant: the command is given before the session is stored.
CommandFirst(r, result) ==
  /\ Goes(r, "commanding", result.session, result.command)
  /\ Operate(result.session, result.command)
  /\ UNCHANGED <<store, line, owed, dups>>

ReplyUnstored(r) ==
  /\ \/ /\ At(r, "marked") /\ Webhook(r).type \in TurnType
        /\ CommandFirst(r, Result(r)) /\ BeginsRecording(r)
     \/ /\ At(r, "reasoning") /\ UNCHANGED starting
        /\ \E response \in Response :
             CommandFirst(r, OnAgentResponse(Copy(r), response))
     \/ /\ At(r, "commanding") /\ EndTurn(r)
        /\ store' = IF request[r].command \in MediaContext THEN Copy(r) ELSE store
        /\ UNCHANGED <<starting, ops, opCount, saidAt>>
  /\ UNCHANGED <<recorded, posted, task, timer, recordings, reports, stops>>

\* The conversation moves on: the session is stored before the command is given.
Reply(r) ==
  \/ Converse(r) \/ SendCommand(r)
  \/ \E response \in Response : AgentAnswers(r, response)

\* _handle_call_disconnected: the outcome is recorded, then the session is
\* stored until its recording reports, or finalized.
RecordDisconnect(r) ==
  /\ At(r, "marked") /\ Webhook(r).type = "CallDisconnected"
  /\ IF Copy(r).ended
     THEN Returns(r, {}) /\ UNCHANGED recorded
     ELSE LET s == OnCallDisconnected(Copy(r)) IN
          /\ recorded' = Append(recorded, s.outcome)
          /\ Goes(r, "closing", s, None)
          /\ UNCHANGED <<owed, dups>>
  /\ UNCHANGED <<store, posted, task, timer, starting, line, ops, opCount,
                 saidAt, recordings, reports, stops>>

\* _finalize_disconnected_session on a copy: it is removed from the store and
\* its outcome handed to the notifier, unless that copy says it was.
Finalize(c) ==
  IF c.completion_logged THEN UNCHANGED <<store, posted>>
  ELSE store' = NoSession /\ posted' = Append(posted, c.outcome)

CloseDisconnect(r) ==
  /\ At(r, "closing")
  /\ IF AwaitsRecordingUrl(Copy(r))
     THEN /\ store' = Copy(r)
          /\ timer' = [timer EXCEPT ![r] = TRUE]
          /\ UNCHANGED posted
     ELSE /\ Finalize(Copy(r))
          /\ timer' = [timer EXCEPT ![r] = @ /\ Copy(r).completion_logged]
  /\ Returns(r, {})
  /\ UNCHANGED <<recorded, task, starting, line, ops, opCount, saidAt,
                 recordings, reports, stops>>

RecordingFile(r) ==
  /\ At(r, "marked") /\ Webhook(r).type = "RecordingFileStatusUpdated"
  /\ LET s == OnRecordingFile(Copy(r), Webhook(r).info) IN
        IF Webhook(r).info = "url" /\ s.ended
        THEN Finalize(s) /\ timer' = [timer EXCEPT ![r] = @ /\ s.completion_logged]
        ELSE store' = s /\ UNCHANGED <<posted, timer>>
  /\ Returns(r, {})
  /\ UNCHANGED <<recorded, task, starting, line, ops, opCount, saidAt,
                 recordings, reports, stops>>

-----------------------------------------------------------------------------
(* Background tasks of replica r.                                          *)

\* The thread of start_recording returns; with an id, whatever has become of the
\* line meanwhile, the latest session is read ...
RecordingStarts(r) ==
  /\ starting[r] > 0 /\ LoopIsFree(r) /\ request' = request
  /\ starting' = [starting EXCEPT ![r] = @ - 1]
  /\ \/ /\ recordings' = recordings + 1
        /\ task' = IF store = NoSession \/ store.recording_id THEN task
                   ELSE [task EXCEPT ![r] = [kind |-> "save_recording", copy |-> store]]
        /\ Takes
     \/ UNCHANGED <<recordings, task>>
  /\ UNCHANGED <<shared, timer, line, ops, opCount, saidAt, reports,
                 owed, dups, stops>>

\* ... and stored again with the id.
SaveRecording(r) ==
  /\ task[r].kind = "save_recording"
  /\ store' = [task[r].copy EXCEPT !.recording_id = TRUE]
  /\ task' = [task EXCEPT ![r] = NoTask]
  /\ UNCHANGED <<recorded, posted, request, timer, starting, acs, stops>>

TimerFires(r) ==
  /\ timer[r] /\ LoopIsFree(r) /\ request' = request
  /\ timer' = [timer EXCEPT ![r] = FALSE]
  /\ task' = IF store = NoSession \/ ~store.ended THEN task
             ELSE [task EXCEPT ![r] = [kind |-> "finalize", copy |-> store]]
  /\ Takes
  /\ UNCHANGED <<shared, starting, acs, stops>>

FinalizeLate(r) ==
  /\ task[r].kind = "finalize"
  /\ Finalize(task[r].copy)
  /\ task' = [task EXCEPT ![r] = NoTask]
  /\ UNCHANGED <<recorded, request, timer, starting, acs, stops>>

\* The replica is shut down or fails; ACS delivers its request's event again.
Stop(r) ==
  /\ dups + stops < MaxFaults /\ stops' = stops + 1
  /\ request' = [request EXCEPT ![r] = Idle]
  /\ task' = [task EXCEPT ![r] = NoTask]
  /\ timer' = [timer EXCEPT ![r] = FALSE]
  /\ starting' = [starting EXCEPT ![r] = 0]
  /\ UNCHANGED <<shared, acs>>

-----------------------------------------------------------------------------

RequestStep(r) ==
  \/ Ignore(r) \/ Mark(r) \/ Reply(r)
  \/ RecordDisconnect(r) \/ CloseDisconnect(r) \/ RecordingFile(r)

TaskStep(r) == SaveRecording(r) \/ FinalizeLate(r)

Delivery == \E r \in Replica, e \in owed : Deliver(r, e)

Next ==
  \/ \E r \in Replica : RequestStep(r) \/ TaskStep(r)
                          \/ RecordingStarts(r) \/ TimerFires(r) \/ Stop(r)
  \/ Register \/ InitiateCall \/ PlaceCallFails \/ Answer \/ LineDrops \/ RecordingReports
  \/ \E o \in ops : MediaCompletes(o)
  \/ Delivery

Spec == Init /\ [][Next]_vars

\* Replicas run what they can and ACS delivers what it owes.
Fairness ==
  /\ WF_vars(Delivery)
  /\ \A r \in Replica :
       WF_vars(RequestStep(r)) /\ WF_vars(TaskStep(r)) /\ WF_vars(TimerFires(r))

FairSpec == Spec /\ Fairness

-----------------------------------------------------------------------------
(* The shared store has no compare-and-swap.  As long as no two requests   *)
(* or tasks hold copies that may still be stored it does what the single   *)
(* object does: the outcome is recorded at most once, posted at most once  *)
(* and only after it was recorded -- with duplicates, timers of other      *)
(* replicas and replicas that stop half-way.                               *)

OnceIfAlone == Len(recorded) <= 1 /\ Len(posted) <= Len(recorded)

(* "Persist before the next ACS call so a webhook landing on a different   *)
(* replica sees the updated current_step" (_handle_play_completed): ACS may *)
(* answer a command with an event, and another replica may look the session *)
(* up for it, while the handler that gave the command has not returned: the *)
(* event is handled at the step whose prompt raised it.                    *)

TurnSeesUpdate ==
  \A r \in Replica :
    LET e == request[r].event IN
    /\ request[r].stage \in {"marked", "reasoning"}
    /\ e.type \in {"PlayCompleted", "RecognizeCompleted", "RecognizeFailed"}
    => Copy(r).current_step = saidAt[e.op]

(* What was recorded is posted in the end, wherever the recording report   *)
(* lands and whatever writes the session in between, unless a replica      *)
(* stops: its finalize task is gone with it.  A call that could not be     *)
(* placed is recorded and never posted, as in LocalCall.                   *)

RecordedIsPosted ==
  recorded # << >> ~> posted # << >> \/ stops > 0 \/ line = "failed"

-----------------------------------------------------------------------------
(* What the repository says and the shared store does not give.            *)

(* "persist it in the call session so duplicate webhook deliveries across  *)
(* replicas are ignored safely" (acs_callback): the outcome of the call is *)
(* recorded once.                                                          *)

RecordedOnce == Len(recorded) <= 1

=============================================================================
