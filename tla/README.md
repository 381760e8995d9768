# TLA+ project for the call-out agent

The call-out agent turns alarms ("the freezer in store 12 is too warm") into
outbound phone calls: an alarm intent is queued, a call is placed through Azure
Communication Services (ACS), an automated agent walks the callee through a
Standard Operating Procedure (SOP), and the outcome goes into a retry record,
an audit log and a webhook. This directory holds its specification: TLA+
modules translated from `src/orchestrator/` and the rule-based part of
`src/agent/`, model-checked with TLC and, for the properties marked below,
proved with TLAPS for all values of the constants.

Paths below are relative to `src/src/orchestrator/` unless they say otherwise.

## 1. Inventory

| component | state | operations | talks to | module |
|---|---|---|---|---|
| Alarm intake (`app.py:614-716`, `queue.py`) | Service Bus queue; per replica a semaphore and running tasks | `receive_alarm_intent`, publish, receive loop, `_process_one`, `stop` | retry manager, call handler | `AlarmIntake` |
| Retry store and manager (`retry_store.py`, `retry_manager.py`) | one record per alarm: attempts, final outcome | `should_attempt_call`, `record_outcome` | called synchronously by the intake and by call handlers | `RetryRecord`, `AlarmIntake` |
| Call conversation (`app.py:722-1163`) | the `CallSession`, pending finalize timers, recording start-ups | one handler per ACS event, `_finalize_disconnected_session`, `_finalize_after_recording_timeout` | SOP engine, Foundry agent, ACS, retry manager, notifier | `CallHandlers`, `LocalCall`, `SharedCall` |
| SOP engine (`sop_engine.py`) | none (pure, over a definition) | `evaluate_transition`, `advance_session`, `should_escalate_unclear` | SOP catalog | `SOPEngine` |
| Session store (`session_store.py`) | call id -> session, in memory or in Redis/Cosmos with a time to live | `put`, `get`, `remove` | call handler | `LocalCall`, `SharedCall` |
| Call handler (`call_handler.py`) | ACS clients per region, connection -> region | place, play, recognize, record, hang up | ACS | `CallSetup`, `LocalCall` |
| Outcome notifier (`outcome_notifier.py`) | background deliveries | `notify`, `_deliver` with bounded retries | the customer's webhook | `CallServices` |
| Foundry client (`foundry_client.py`) | failure counter, circuit breaker, shared by all calls | `reason` | agent service | `CallServices` |
| Agent, rule-based (`src/src/agent/agent.py`) | none | `_reason_local` | Foundry client | `CallServices` |
| Tenant registry (`tenant_registry.py`) | contact documents | `get_contact_group`, `resolve_primary` | intake | `TenantRegistry`, `CallSetup` |
| SOP catalog (`sop_catalog.py`) | base SOPs, overlays, cache of resolved definitions | `resolve`, `_apply_patches`, `invalidate` | SOP engine | `SOPCatalog`, `CallSetup` |
| Region router (`region_router.py`) | dial prefixes | `resolve` | intake, call handler | `RegionRouter`, `CallSetup` |
| Media streaming (`media_streaming.py`) | speaking / turn flags shared by SDK threads and the event loop | `_on_recognized`, `respond_to`, `_speak`, `_barge_in` | Speech SDK, SOP engine | `StreamedCall` |
| Realtime sessions (`realtime_session.py`, `voicelive_session.py`) | greeting, outcome, ending, closed flags; output buffer; parked sessions of `app.py` | prewarm, claim, two pumps, `_record_outcome`, `_finish_call` | speech-to-speech model, ACS | `RealtimeCall` |
| Latency tracker (`latency.py`) | one pending turn per call, bounded samples | two marks, `stats` | media streaming | `StreamedCall` |
| Audit logger, scripts, infrastructure | none that the orchestrator decides on | -- | -- | -- |

What is hard in this system, and the properties that answer it:

* **Webhooks are at least once and in any order**, while a request suspends to
  read its body and to ask the agent. The conversation must keep one turn
  (`OneTurn`), stay on its SOP (`WalksTheSOP`) and hang up on a verdict only
  (`HangsUpOnVerdict`).
* **Three actors finalize a call**: the disconnect, the recording report and a
  timer. The result is recorded once and posted once (`KeepsContract`), nothing
  stays behind (`FinalizedIsQuiet`), and it does happen (`EndedCallIsPosted`).
* **Replicas share the session through a store without compare-and-swap.** If
  no two of them hold copies that may still be stored they do what one process
  does (`OnceIfAlone`, `RecordedIsPosted`), though replicas stop half-way, and
  a webhook that overtakes the return of the handler that caused it finds the
  session it needs (`TurnSeesUpdate`); if such copies overlap, duplicates get
  through (`RecordedOnce`, refuted).
* **A conversation must end** although anyone may be silent for ever
  (`CallEnds`, `VerdictEndsCall`, `EndingHangsUp`), and although the agent
  service and the customer's webhook may fail at any request (`CallsConclude`,
  `OpenMeansFailing`).
* **The queue redelivers**, replicas stop, locks run out, the semaphore bounds
  the work: no intent is lost (`CompletedWasHandled`, `EveryIntentSettles`), no
  permit leaks (`PermitsAddUp`).
* **The retry record is read, changed and written back** by several replicas
  and by overlapping calls (`AttemptsAddUp`, `NoCallAfterConclusion`).
* **Speech is concurrent**: recognizer threads, the event loop, a greeting in a
  task of its own, a callee who interrupts (`OneVoice`, `VerdictStands`,
  `SampleIsOfTheTurn`, `BusyEnds`); a model that hears noise, reports late or
  twice, says goodbye before or instead of reporting (`SilentUntilGreeted`,
  `StoppedSpeechIsIgnored`, `ReportStands`, `VoicemailIsNoAnswer`); a session connected
  while the phone rings, claimed in a race with its expiry (`WarmIsSettled`,
  `AnswerIsGreeted`).
* **Set-up reads documents that fail, overlap or change during a call**: who is
  dialled, from where, with which definition (`PlacedWell`, `OneDefinition`),
  and through which region the commands go (`ConversationReachesTheCall`; with
  recording and a shared store, `CommandsReachTheCall`, refuted).

`PROJECT.json` lists every component with its status and every hazard at its
line, those that no property covers included.

## 2. Modules

```
CallModels                     the outcome enumeration, None
  SOPEngine                    sop_engine.py: transition functions over Def / DefaultDef
    CallHandlers               app.py: each webhook handler as an operator on a session
      HandlerProofs            lemmas about the handlers, for all proofs that follow
      LocalCall                one call, one process: requests, timer, recording, ACS
        LocalCallProperties    what is expected of it
          MCLocalCall          SOPs and answers for TLC
          LocalCallProofs      proofs: finalizing, the contract; the turn, the walk, hanging up
      SharedCall               one call, several replicas, a shared session store
        MCSharedCall
        SharedCallProofs       proofs: one record and one post, the turn across replicas
      StreamedCall             media_streaming.py, latency.py
        MCStreamedCall, StreamedCallProofs
      CallServices             foundry_client.py, agent.py, outcome_notifier.py
        MCCallServices, CallServicesProofs
  RetryRecord                  retry_store.py / retry_manager.py: the record and the gate
    AlarmIntake                queue, consumers, shared retry store, several replicas
      MCAlarmIntake, AlarmIntakeProofs
  RealtimeCall                 realtime_session.py, voicelive_session.py, pre-warming
    MCRealtimeCall, RealtimeCallProofs
  TenantRegistry               who is called          }  CallSetup, MCCallSetup,
  SOPCatalog                   JSON patches, cache    }  CallSetupProofs
RegionRouter                   longest dial prefix    }
StableSort                     Python's sorted, by a rank (TenantRegistry, RegionRouter)
CallContract                   abstract: what one call promises   (refined by LocalCall)
SOPWalk                        abstract: what following a SOP means (refined by LocalCall)
```

An operator that a comment calls a *mutant* is a plausible bug of the
definition that follows it; replacing the definition by it makes a property
fail, which shows that the property depends on that line of the code.

### SOPEngine and SOPWalk

A definition is a function from step ids to steps; a step keeps its type, its
`next`, the set of branch targets and its outcome. `EvaluateTransition` has the
early returns of `evaluate_transition` in their order. The engine looks some
steps up in the definition that applies to the session and some in its own
file; the two are the constants `Def` and `DefaultDef`, so that a customer's
overlay can make them differ. `SOPWalk` is the specification the engine and all
handlers together are to implement: a walk along the edges of `Def` that may
leave them for `escalate_unclear` only and is over at the first verdict.

### CallHandlers and LocalCall

`CallHandlers` holds each handler as an operator from the session it is given
to the session it leaves and the ACS command it ends with. `LocalCall` decides
when they run. asyncio runs one coroutine at a time, so the code between two
awaits is one action. A webhook request suspends twice: after `get_session`,
while it awaits its body (stage `reading`, `app.py:738-740`), and for
recognized speech while it awaits the agent (`reasoning`, line 987). All
requests share one `CallSession` object, whether or not the store still maps
the call id to it (`stored`). Background tasks (finalize timer, recording
start-up, webhook delivery) are actions of their own. `completion_logged`,
`ended`, `recording_id` and `recording_url` are the attributes they are named
after, as Booleans where the value does not matter.

ACS is the environment: it answers, drops the line, completes or aborts media
operations, reports recordings, and delivers every event it owes at least once
in any order (`Deliver` may leave the event owed, up to `MaxDups` times). A
request carries one event, which is how ACS posts them; a batch in one request
is not modelled. `Issue` gives the effect of a command: it needs a line
that is up, may be refused when `AcsMayFail`, and raises in the handler then,
after the session was changed.

`CallContract` is what the intake may rely on: a call is placed or fails; a
placed call ends with one recorded outcome and is closed once, with one result
posted. The refinement mapping (`Phase` in `LocalCallProperties`) reads the
contract's phase off the line and the session. A call that cannot be placed is
recorded as failed and has no result posted (here and in `SharedCall`): `app.py:702-705` does not notify,
although `outcome_notifier.py:4-5` lists failed calls among those it posts.

### SharedCall

The same handlers on replicas with Redis or Cosmos behind them. `get_session`
gives a request a copy (`request[r].copy`), `update_session` overwrites the
record with it, and the calls of the store are synchronous, so that a replica
holds its event loop between two awaits while other replicas read and write:
every action has one operation on a shared object (the store, the retry record,
ACS) at most. The finalize timer and the thread that starts a recording live in
one replica's memory; `Stop` drops them with the replica's request, whose event
ACS delivers again. `Overlap` says whether two copies that may still be stored
may be in use at one time: the promises hold without, and the run with it shows
why. A request whose handler has stored the session and is about to give its
command and return (stage `commanding`) does not count (`MayStore`): ACS may
carry the command out, raise its event and have another replica look the
session up before that request has returned, which is what "persist before the
next ACS call" (`app.py:898-899`) is for. The mutant of `TurnSeesUpdate` gives
the command first. `saidAt` is a history of the step at which every prompt was
given. `RecognizeCompleted`
without recognized speech does what `RecognizeFailed` does (`app.py:968-970`)
and is modelled as that event.

### StreamedCall

The recognizer's callbacks run on an SDK thread. They read `_speaking` and
`_turn_active`, which coroutines set, and schedule a coroutine; `pending` are
the transcripts scheduled and not yet handled. The greeting speaks in a task of
its own, outside of any turn. Utterances start, sound (the first frame, which
takes the latency sample) and end. Between two utterances of one speaker `_speaking` is
FALSE for a moment (`media_streaming.py:533`, 503), in which the recognizer's
thread may read it: `gap` is that moment, and `NextSpeak` ends it. Transcripts
are numbered, so that the latency tracker's mark, which is a step's name in the
code, tells which transcript it is of, and `overwritten` remembers that the
mark of one that waited was replaced. `shared` says that the session is a copy
from a shared store, which has no connection id to hang up
(`KnowsConnection`, `app.py:456-461`). There are two `Slot`s for turns although
`_turn_active` admits one: the model does not assume what `OneTurn` proves. `Chain`
is the chain of speak steps that `_speak_chain` follows, as the least set of
steps that its start leads to (`Following`).

### RealtimeCall

Two engine sessions can exist for one call: the `warm` one that a background
task connects while the phone rings, and the `cold` one that the media-stream
route builds when it finds none parked. The route runs one of them: two pumps
(`s.pumps`), a paced sender, and tasks for the greeting fallback, the
confirmation of a barge-in and the hang-up, whose stages are `s.finish`. The
model service and the callee are the environment; an event of the model is
handled in the step that raises it. The callee's sound and the service's account
of it are apart: `model.speech` lasts from `speech_started` to
`speech_stopped`, which the service raises `vad_silence_ms` after the sound has
ended (`config/agent_config.json`), and `BargeInConfirmed` may fire any time
between. `hist` records what the callee and the records saw. `SharedStore` says whether the object that the route loads knows
the connection to hang up (`KnowsConnection`).

### CallServices

Several calls at a time share one Foundry client: `failures` and `open` are its
counter and its breaker, `row` the requests that really failed in a row. A
request makes two attempts; success resets both, a malformed reply resets and
then counts (`RepliesMalformed`, `foundry_client.py:58`), an open breaker
answers at once with an escalation. What the callee says is the set of listed
words it contains; `ReasonLocal` chooses the branch, and the handlers of
`CallHandlers` act on it. A call that is over has its webhook tried at once and
after each of three delays.

### RetryRecord and AlarmIntake

The retry store and ACS are called synchronously from async code, so a replica
that is between reading and writing a record runs nothing else, while other
replicas do. `job[r]` is that synchronous work: the record that was read, and
whether it is for the gate (`gating`), for a refused call (`refused`) or for an
outcome (`recording`). A task of the consumer goes through the stages
`received` (waiting for the semaphore) -> `started` -> `handled` or `failed` ->
settled. Service Bus is modelled from how the consumer uses it: peek-lock, a
delivery count, redelivery or dead-lettering, and locks that can run out at any
time. Settling a delivery whose lock is lost has no effect on the message. A
call is abstracted to `CallContract`'s phases: `open` until the disconnect
reaches some replica, `ending` while its outcome is being recorded, `ended`.

### TenantRegistry, RegionRouter, SOPCatalog and CallSetup

The first three are algorithms, each with what it promises beside it
(`IsPrimary`, `IsNearest`, `Definitions`). `CallSetup` runs them: an intent of
some customer about some store at some hour, with documents that cannot be read
at that moment, is placed by some replica; its events reach any replica and are
answered with a definition from that replica's cache, through the region that
the replica takes the connection to be in. Overlays change, replicas restart.
The number an intent brings itself bypasses the registry. An answer is
evaluated with the resolved definition, but the step it leads to is looked up
in the engine's own file (`EngineFile`, `sop_engine.py:150`, 221): where the
file has no such step the handler raises and gives no command
(`AnswerRaises`). A recording is started and stopped without a region
(`StartRecording`, `HangUp`), hence through the default one; `recorded` keeps
where these commands went.

## 3. Runs

TLC explores the whole state space of each run. `P` passes; `V` finds the
property violated: the code does not do what a comment of the repository says,
or has a bug; `PROJECT.json` quotes the lines under `findings`.

| run | configuration | | properties | what it shows |
|---|---|---|---|---|
| `call_safety` | `LocalCall_safety` | P | `TypeOK OneTurn FinalizedIsQuiet KeepsContract WalksTheSOP HangsUpOnVerdict` | one turn at a time; contract; SOP; hang-up |
| `call_liveness` | `LocalCall_liveness` | P | `CallEnds EndedCallIsPosted` | an answered call ends, and is posted |
| `shared_call` | `SharedCall` | P | `TypeOK OnceIfAlone TurnSeesUpdate RecordedIsPosted` | two replicas, one copy that may be stored; webhooks that overtake the return of a handler, duplicates, stops |
| `shared_duplicates` | `SharedCall_duplicates` | V | `RecordedOnce` | two replicas at one time record an outcome twice |
| `streamed_call` | `StreamedCall` | P | `TypeOK OneVoice WalksInTurns VerdictStands SampleIsOfTheTurn BusyEnds VerdictEndsCall` | turns, greeting and barge-in between threads and event loop |
| `realtime_call` | `RealtimeCall` | P | `TypeOK SilentUntilGreeted StoppedSpeechIsIgnored ReportStands WarmIsSettled AnswerIsGreeted EndingHangsUp` | greeting, outcome and hang-up of a speech-to-speech call |
| `realtime_voicemail` | `RealtimeCall_voicemail` | V | `VoicemailIsNoAnswer` | the answering machine is recognized after the report |
| `call_services` | `CallServices` | P | `TypeOK OpenMeansFailing MishearingIsRetried CallsConclude` | calls against services that may fail at any request |
| `intake` | `AlarmIntake` | P | `TypeOK PermitsAddUp CompletedWasHandled AttemptsAddUp NoCallAfterConclusion EveryIntentSettles` | one replica: permits, messages, attempts, across a restart |
| `intake_attempts` | `AlarmIntake_attempts` | V | `AttemptsAddUp` | two replicas: an attempt is overwritten |
| `call_setup` | `CallSetup` | P | `TypeOK PlacedWell ConversationReachesTheCall OneDefinition` | contact, region and definition of two calls |
| `setup_regions` | `CallSetup_regions` | V | `CommandsReachTheCall` | with a shared store the region is lost, and recording never has it |

Deadlock is checked in `call_services` and the two set-up runs, where something
can always happen. Elsewhere it is not: a call that has ended, or an empty
queue with no deliveries left, has nothing more to do.

### Bounds

* `Worker`: two requests in progress. Every hazard found is a race of two; a
  third request only waits for one of them.
* `MaxDups` = 1 repeated delivery and `MaxReports` = 1 recording report (the
  file, or a status without one; it may come before or after the disconnect).
  The repeat can hit any event at any time.
* `MaxProcessed` = 12 remembered event ids, more than the model's calls raise
  before they end; the code keeps 200. The window therefore never forgets an
  event that can still be repeated, in the model as in any real call. (The
  two models without webhooks, `StreamedCall` and `CallServices`, set it to 0.)
* `MaxUnclear` = 2 as in the shipped SOP wherever a call asks again before it
  escalates; 1 in `call_safety`, whose SOP has more steps, and in
  `call_services`, where the SOP's own retry comes first. The SOPs are excerpts
  of `src/sops/high_temp_alarm.json` with the same shape (a speak step that
  opens, ask steps, a speak step between them, terminal steps). Every step id,
  an unknown one and a request to escalate are possible answers of the agent;
  `shared_call` offers the two answers that a step accepts and refuses.
* `SharedCall`: two replicas with one request each, two faults (a repeat and a
  stop, or two of one kind), four media operations, which is the whole of a
  call on its SOP. Overlap needs only one repeat.
* `StreamedCall`: two transcripts between the SDK thread and the event loop:
  the second is the one the guard must drop.
* `RealtimeCall`: the shipped configuration on a reliable connection, and one
  with the opposite choices (greet at once, interrupt at the first sound) on
  one that can break at any time. Two reports that contradict each other, and
  one that names no outcome. The proofs cover all others.
* `CallServices`: two calls, each followed by others without bound; four
  utterances that fit the first branch, another, several at once, or none.
* `AlarmIntake`: two messages, of which one cannot be processed; a batch of two
  with one permit, so that a message waits for the semaphore with its lock
  running; three deliveries (five in `src/infra/modules/servicebus.bicep`), one
  stop, two attempts allowed. `intake_attempts` uses two intents of one alarm.
* `CallSetup`: three regions with overlapping prefixes, two customers and the
  global documents, a customer without documents of its own, contacts that
  differ in store, hours and priority, overlays that add, replace, remove or
  raise. Two calls on one process; one call on two replicas when the store is
  shared.
* Requests and calls are interchangeable (`SYMMETRY`) in `call_safety` and
  `call_setup`; the runs over time use none.

### Fairness

`LocalCall` and `SharedCall`: ACS finishes its media operations (`LocalCall`)
and delivers every event it owes at least once (its documented retry), the
event loop runs every request, task and timer that can go on, the agent answers
or its client times out and answers itself (`foundry_client.py`). Nothing says
that anyone answers, speaks or hangs up, or that a recording ever reports.
`call_liveness` assumes that ACS accepts commands for a live call; if it
refuses one, the callee hears nothing more and the call lasts until he hangs
up. A playback that ACS cancels or fails on a live line is the same case: the
application handles no event for it.

`StreamedCall` and `RealtimeCall`: the event loop runs what is scheduled,
bounded waits end, utterances end (`_speak` sends frames on a clock), ACS opens
the stream of an answered call and carries out a hang-up. Neither the callee
nor the model owes anything.

`CallServices`: one fairness condition per call, on whatever its next step is:
playbacks end, recognition gives a result or fails by its own time limit, the
HTTP client answers or times out, and deliveries follow a schedule. It does not
favour an answer over a failure.

`AlarmIntake`: locks run out, replicas run, and calls end, which is what
`CallEnds` and `KeepsContract` establish for one call.

### What the runs and the reading of the code found

Refuted by runs (the four `V` runs): an attempt overwritten in the shared retry
store; an outcome recorded twice through overlapping duplicates; an answering
machine recorded as resolved; commands sent through the default region when the
session store is shared.

Seen while modelling, and either part of the models or kept out of their
properties:

* *Intake.* The gate counts recorded attempts, so that intents of one alarm that
  are processed before the first call ends exceed `max_retries`, and a
  redelivered message places a second call although `docs/scalability.md:68`
  says the gate collapses duplicates; an unanswered overlapping call turns a
  resolved alarm into an escalated one (`retry_store.py:68`); nothing triggers
  the retry that `app.py:1088` announces.
* *Conversation.* A request that looked the session up before it was finalized
  stores it again (`app.py:768`); an answer of the agent after the disconnect
  changes the outcome that the webhook posts, but not the recorded one
  (`app.py:991`); the step of a branch, its outcome and its prompt, is read from
  the engine's own file, whatever the overlay says (`sop_engine.py:150`, 221),
  and a branch that only the overlay has raises `KeyError` there. A call with an
  overlay is thus handled with two definitions: `OneDefinition` is about the one
  that the catalog resolves, and no property tells the two files' outcomes
  apart.
* *Replicas.* A replica that shuts down cancels its finalize timers
  (`app.py:362`): a call that waits for its recording is then posted only if the
  recording reports. `RecordedIsPosted` excuses every run with a stop. A
  duplicate that is looked up before the first copy is stored is handled twice
  (`RecordedOnce`, refuted); `OnceIfAlone` is about runs without that overlap.
* *Media streaming.* A silent callee produces no transcript, and unclear answers
  are not counted on this path, so that only the callee ends such a call; an
  utterance in the delay before the greeting starts a turn that the greeting
  talks over, and so does one that the recognizer reports in the moment between
  two utterances of the greeting (`_speaking` is FALSE between
  `media_streaming.py:533` and 503, the echo guard of 436-437 reads it); one
  between the hang-up and the end of the line can revise the verdict. A second
  transcript that is accepted and then dropped restarts the clock of the same
  step's sample (`media_streaming.py:446`). A session copy from a shared store
  has no connection id, so that its verdict does not hang the call up
  (`app.py:456-461`, 695, 701, 771-774). `OneVoice`, `VerdictStands`,
  `SampleIsOfTheTurn` and `VerdictEndsCall` state these reservations.
* *Speech-to-speech.* `gather` waits for both pumps, so that the model's
  connection stays open after the line dropped until the model closes it; a
  short sound clips the agent all the same, although
  `realtime_session.py:407-409` and 652-654 let `speech_stopped` cancel the
  confirmation of a barge-in: the service raises it 200 or 300 ms
  (`vad_silence_ms`) after the sound, the confirmation takes 150
  (`barge_in_confirm_ms`), so that `StoppedSpeechIsIgnored` promises no more
  than that speech reported to have stopped interrupts nothing; of two different
  reports the last one stands (line 562 only ignores an equal one), although
  lines 549-550 say the first wins, so that `ReportStands` promises one of them; `end_call` arguments that are JSON but no object raise; a
  parked session may be dead when it is claimed; a cold connection that fails
  leaves a silent call; with a shared store the hang-up of a cold session does
  not know the connection (`app.py:458`, 701).
* *Services and set-up.* Branch words are looked for as substrings, so that "not
  sure" fits a branch that lists "sure" (`agent.py:299`); an `add` patch inside
  a list replaces the element where RFC 6902 inserts (`sop_catalog.py:61`); a
  call window that spans midnight never matches (`tenant_registry.py:53`); only
  the first contact is called, although `contacts.json` describes a list to be
  called in order; a recording is started and stopped through the default region
  (`app.py:866`, 878; `call_handler.py:465`, 485), wherever the session lives,
  although `call_handler.py:141-142` names it among the operations that target
  the call's region: `ConversationReachesTheCall` leaves recording out and says
  so, `CommandsReachTheCall` has it.

## 4. Proofs

`tlapm` checks every obligation of the eight modules whose names end in
`Proofs`. With them every safety property that a passing run checks, invariant,
action property or refinement, is also a theorem: for every SOP, every answer
of the agent, every document, and any number of requests, replicas, messages,
repeats and restarts.

The assumptions are the named ASSUMEs, which TLC evaluates in every run: SOPs
and answers are well typed and a SOP has the ids that the code names
(`EngineAssumption`, `LocalCallAssumption`, `ServicesAssumption`); a streamed
definition is finite and its speak steps do not go round in a circle, which
`_speak_chain` would follow for ever (`StreamAssumption`); a session is told
apart from none, and there are finitely many replicas (`SharedCallAssumption`);
documents hold numbers and prefixes regions (`SetupAssumption`,
`RegionAssumption`); bounds are natural numbers (`RetryAssumption`,
`IntakeAssumption`); and a realtime engine's configurations and reports are
among those that the code can parse (`RealtimeAssumption`).

Some theorems need more, and say so. Most of it is what the shipped SOP has and
no code checks; the MC modules state it as an ASSUME about the SOPs of the runs.

| hypothesis | says | needed because |
|---|---|---|
| `[]WindowOpen` | the session still remembers every event it handled (200 ids in the code) | a forgotten event that ACS repeats is handled again |
| `SoundSOP` | engine file and definition agree; speak steps lead on and ask steps have branches; a step reached from a speak step has no outcome yet | the engine reads some steps from its own file, and plays a speak step that leads into an outcome as terminal without setting it |
| `StepsDecide` | every step has a `next` or branches | from a step with neither the engine takes any answer of the agent |
| `VerdictsAreSpoken` | a step with an outcome is in the engine's own file | a closing step the file lacks is not played, and the conversation stays open |
| `OneWayOut` | a step's unclear branches lead one way, known to agent and engine | the agent takes the first branch it finds, the engine looks for it in another definition |
| `MaxUnclear > 0` | a callee may be misunderstood once | otherwise the counter passes its limit before it is compared |
| `~SharedStore` | sessions live in the process | `setup_regions` shows that a shared store loses the region |
| one replica, or `~Overlap`, or `[]Alone` | no two replicas work on retry records, or hold copies of the session that may still be stored, at one time | `intake_attempts` and `shared_duplicates` refute the properties without it |

| theorem | statement |
|---|---|
| `LocalCallProofs!TypeCorrect` | `Spec => []TypeOK` |
| `LocalCallProofs!FinalizedStaysQuiet` | `Spec => []FinalizedIsQuiet` |
| `LocalCallProofs!CallKeepsContract` | `Spec => KeepsContract` (refinement of `CallContract`) |
| `LocalCallProofs!OneTurnAtATime` | `Spec /\ []WindowOpen => []OneTurn` |
| `LocalCallProofs!CallWalksTheSOP` | `SoundSOP`: `Spec /\ []WindowOpen => WalksTheSOP` (refinement of `SOPWalk`) |
| `LocalCallProofs!HangUpFollowsVerdict` | `SoundSOP`: `Spec /\ []WindowOpen => HangsUpOnVerdict` |
| `SharedCallProofs!SharedTypes` | `Spec => []TypeOK` |
| `SharedCallProofs!RecordingTwiceTakesTwo` | `Spec /\ []Alone /\ []WindowOpen => []OnceIfAlone` |
| `SharedCallProofs!RecordedOnceInTurns` | `~Overlap`: `Spec /\ []WindowOpen => []OnceIfAlone` |
| `SharedCallProofs!StaleStepTakesTwo` | `Spec /\ []Alone /\ []WindowOpen => []TurnSeesUpdate` |
| `SharedCallProofs!UpdateSeenInTurns` | `~Overlap`: `Spec /\ []WindowOpen => []TurnSeesUpdate` |
| `AlarmIntakeProofs!TypeCorrect` | `Spec => []TypeOK` |
| `AlarmIntakeProofs!PermitsAlwaysAddUp` | `Spec => []PermitsAddUp` |
| `AlarmIntakeProofs!NothingIsLost` | `Spec => []CompletedWasHandled` |
| `AlarmIntakeProofs!AttemptsAlwaysAddUp` | one replica: `Spec => []AttemptsAddUp` |
| `AlarmIntakeProofs!OverwritingTakesTwo` | `Spec /\ []Alone => []AttemptsAddUp` |
| `AlarmIntakeProofs!ConcludedIsLeftAlone` | one replica: `Spec => NoCallAfterConclusion` |
| `CallSetupProofs!SetupTypes` | `Spec => []TypeOK` |
| `CallSetupProofs!CallsArePlacedWell` | `Spec => []PlacedWell` |
| `CallSetupProofs!MemoryBindsCommands` | `~SharedStore`: `Spec => []ConversationReachesTheCall` |
| `CallSetupProofs!MemoryKeepsOneDefinition` | `~SharedStore`: `Spec => []OneDefinition` |
| `StreamedCallProofs!OneTurn` | `Spec => []OneTurnAtATime` |
| `StreamedCallProofs!NeverTwoVoices` | `Spec => []OneVoice` |
| `StreamedCallProofs!StreamTypes` | `Spec => []TypeOK` |
| `StreamedCallProofs!StreamWalksTheSOP` | `StepsDecide`: `Spec => WalksInTurns` |
| `StreamedCallProofs!VerdictIsKept` | `VerdictsAreSpoken`: `Spec => VerdictStands` |
| `StreamedCallProofs!SamplesAreTheTurns` | `Spec => SampleIsOfTheTurn` |
| `CallServicesProofs!BreakerIsJustified` | `Spec => []OpenMeansFailing` |
| `CallServicesProofs!ServicesTypes` | `MaxUnclear > 0`: `Spec => []TypeOK` |
| `CallServicesProofs!MishearingLeadsOn` | `MaxUnclear > 0`, `OneWayOut`: `Spec => MishearingIsRetried` |
| `RealtimeCallProofs!TypeCorrect` | `Spec => []TypeOK` |
| `RealtimeCallProofs!SilenceBeforeGreeting` | `Spec => []SilentUntilGreeted` |
| `RealtimeCallProofs!NoLateInterruption` | `Spec => []StoppedSpeechIsIgnored` |
| `RealtimeCallProofs!ReportsStand` | `Spec => []ReportStands` |
| `RealtimeCallProofs!ClaimedStaysOpen` | the time to live never closes a session that was claimed |

`HandlerProofs` has the lemmas that the call modules share: for any session and
event, a handler keeps the session's type, how far it has ended (`SameEnd`) and
the ids it remembers, and its result is one of the few shapes that the steps
distinguish.

**LocalCall, the end.** `FinalizedIsQuiet` is not inductive: it says nothing of
a call whose session is not finalized. `Inv` adds the relations between the
line, the session's `ended` and `completion_logged` flags, the timer, the
recorded outcomes and the webhook tasks that the handlers rely on and
re-establish. The refinement reuses it: each action maps to one step of
`CallContract` or leaves its variables alone.

**LocalCall, the conversation.** The turn is a token (`OneToken`): a media
operation, an event that nobody has handled, or a question to the agent. Every
step passes it on. It is not doubled because the request that takes an event
marks it in the same step, and because an operation's id is new, so that its
completion is not among those marked before (`IdsAreFresh`). `OnSOP` says of
whoever holds the token that it fits the step the session is on (`FitsStep`): a
prompt, its completion or an answer. That is why the next step is an edge of
the SOP, and why only a terminal playback ends in a hang-up. It is stated of
the token, so it is inductive only together with it.

**SharedCall.** The type invariant holds with overlapping copies too, and needs
to know that whatever has ended has an outcome, as outcomes are recorded from
copies. The rest is about the holder of the only copy that may still be stored:
what it has in hand is the stored session, or what its handler has made of it so
far (`Held`). Two invariants rest on that. `Once`: when an outcome is recorded
the stored session has the disconnect marked, so that its repeat is ignored, and
the outcome is posted only when the session has left the store (a call that
could not be placed has one outcome and then nothing happens, `QuietBefore`).
`Turn`: the token of `LocalCall`, over all replicas, and its holder finds the
session on the step that the last prompt was given at. A request that is about
to give its command holds the token too, and its step is the stored one: that
clause is what storing first establishes, since meanwhile others may read and
store the session, and events other than the conversation's leave the step
alone. A replica that stops drops its copy, but keeps no secret: the event it
worked on was either marked in the store before, so that the repeat is ignored,
or not at all. `~Overlap` makes `Alone` an invariant, by counting copies; the
`TakesTwo` theorems say the same of any behaviour, overlapping replicas
included, as long as no two copies that may still be stored meet.

**AlarmIntake.** The type of `permits` (a semaphore never exceeds its limit) is
itself a consequence of `PermitsAddUp`, which needs the running tasks of a
replica to be finite, and `CompletedWasHandled` needs to know that a task in
stage `handled` has placed its call or was skipped. `Inv` therefore joins them
with: deliveries are counted (so a task's delivery is no later than its
message's), a delivery has at most one task, and a replica's `gating` or
`refused` job belongs to a task that has started. The last one identifies the
`CHOOSE` in `JobTask`. The retry record needs three parts that hold together
only (`Recorded`): a record that was read is still the stored one
(`SeenIsStored`), the attempts add up, and after a decisive outcome the stored
conclusion stays decisive (`VerdictStays`).

**CallSetup.** Sorting and longest-prefix matching are recursions over data,
beyond the prover's induction. `StableSort` therefore defines Python's `sorted`
by the rank of every element, and the proofs find the first fitting element by
the least-number principle for natural numbers. Who is called then follows
from the definitions: the first in the sorted list is best among all. With
sessions in memory, `Bound` says that every session carries the region that
placed its call (`MemoryBindsCommands`: recording, which is not asked for by
session, is outside it), and `Cached` that the only thing that replaces the
cached definition of a customer with a call, a restart, ends that call.

**StreamedCall.** That there is one turn does not follow from the guard of the
recognizer's callback (`media_streaming.py:437`), which reads `_turn_active` on
another thread than the one that sets it: it is the second check on the event
loop (line 468) that gives it. `Inv` says that a turn under way has the flag
set, that hence there is one at most, that there is none while the greeting is
under way unless the callee talked over it, and that no transcript is taken
before the recognizer runs. `VoicesLeft` says that whoever speaks has something
left to say, and nobody else has; how much is bounded by the steps of the
definition, as a chain never visits a step twice.
In the gap between two utterances of the greeting a transcript may be taken:
that counts as talking over it, so that `OneVoice` is about all other moments.
`Judged` says that while the line is up a session with an outcome has a turn
that is closing it, and with one turn at most nobody else answers. `Sampled`
relates the mark of the latency tracker to the transcript that it is of: one
that waits (`MarkOfWaiting`), the one of a turn (`MarkOfTurn`), or none while
nobody has been heard during the greeting (`GreetingUnmarked`).

**CallServices.** The breaker's counter is not the number of failures in a row:
a malformed reply resets it before it counts. `CountsFailures` says that the
counter never exceeds the failures in a row unless these have reached the
threshold. `CallsTyped` adds to the types that the counter of unclear answers is
below its limit wherever it may still grow.
For `MishearingIsRetried`, `Questioned` says that a call that waits for the
agent is at a question, and that words which fit nothing are answered with the
step's unclear branch.

**RealtimeCall.** `TypeOK` bounds what the callee heard: at most one greeting
and one hang-up, so that it is the safety property of the two flags that guard
them and needs to know when each is set. `Inv` joins it with: the model speaks
and answers on its own only after the greeting was asked for (`GreetedFirst`);
a barge-in is under confirmation only between the service's `speech_started` and
its `speech_stopped` (`BargeIsOfCaller`); the hang-up task starts once per call (`EndsOnce`); a
session is closed by the side that owns it, the expiry before the claim and the
route after it (`ClosedByOne`). `StoppedSpeechIsIgnored` and `ReportStands` are
parts of `Inv`: the first follows from `BargeIsOfCaller`, the second from the
order in which a report and an inference may set the outcome. The bounds hold for every configuration, the
runs check two.

Only model-checked:

* everything that must happen: `CallEnds`, `EndedCallIsPosted`,
  `RecordedIsPosted`, `BusyEnds`, `VerdictEndsCall`, `WarmIsSettled`,
  `AnswerIsGreeted`, `EndingHangsUp`, `CallsConclude`, `EveryIntentSettles`.
  Liveness under fairness and ENABLED are outside what `tlapm` proves;
* that the algorithms compute what they promise where they recurse over data:
  folding patches over a document (`SOPCatalog`). The theorems about
  `CallSetup` take the resulting definition as it is.

## 5. Plan

What is left, in order of importance.

1. Sessions that expire in the shared store during a call, and several events
   in one webhook request, with their effect on `Turn` and `Once`.
2. Weaker hypotheses: `SoundSOP` asks the engine's file and the definition to be
   equal, where overlays may differ in steps that a call does not reach.
3. The counting argument for `WindowOpen` from the length of a SOP: how many
   events a call without repetitions can raise.

## 6. Not modelled

* *The agent's words.* Prompt wording and rendering, speech synthesis,
  recognition tuning and timeouts, the normalization of transcripts; the hosted
  agent and the retrieval of knowledge, replaced by every possible answer.
* *Data nobody decides on.* The audit logger, which is only written to; latency
  percentiles (the pairing of the marks is modelled); `contact_roster.py`,
  which no module imports.
* *Transport.* Authentication, HTTP details, audio frames and resampling; a
  batch of events in one webhook request.
* *Expiry.* The time to live of a session in a shared store, longer than any
  call.
* *Unused shapes.* Speak steps that lead straight into a step with an outcome,
  which the shipped SOP does not have.
* Scripts, demo material and deployment, except for the queue's limits.
