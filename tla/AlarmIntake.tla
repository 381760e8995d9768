------------------------------ MODULE AlarmIntake ------------------------------
(***************************************************************************)
(* From an accepted alarm intent to a placed call, and from the outcome of *)
(* a call back into the retry record of its alarm: the Service Bus queue,  *)
(* the AlarmIntentConsumer of every replica (src/src/orchestrator/         *)
(* queue.py), _process_intent (app.py) and the shared retry store          *)
(* (retry_store.py).                                                       *)
(*                                                                         *)
(* The retry store and ACS are called synchronously: while a replica reads *)
(* or writes a record or places a call, its event loop runs nothing else   *)
(* (job).  Between two such calls another replica may run.  A call itself  *)
(* is what CallContract promises: it is open until its one outcome is      *)
(* recorded, by whatever replica receives the webhook.                     *)
(***************************************************************************)
EXTENDS RetryRecord, FiniteSets

CONSTANTS
  Replica,
  Message,        \* queue messages: intents that broker deduplication let pass
  Alarm,
  AlarmOf,        \* the alarm of each message
  Unprocessable,  \* messages whose processing raises: no contact, bad JSON
  MaxConcurrent,  \* the consumer's semaphore
  BatchSize,      \* max_message_count of receive_messages
  MaxDelivery,    \* the queue's maxDeliveryCount
  Verdict,        \* outcomes that placed calls can have
  CallsMayFail,   \* can create_call raise?
  WindowMayClose, \* can it be outside the call window?
  MaxStops        \* bound: replicas that stop or crash

ASSUME IntakeAssumption ==
  /\ AlarmOf \in [Message -> Alarm]
  /\ Unprocessable \subseteq Message
  /\ MaxConcurrent \in Nat \ {0} /\ BatchSize \in Nat \ {0} /\ MaxDelivery \in Nat \ {0}
  /\ Verdict \subseteq CallOutcome
  /\ CallsMayFail \in BOOLEAN /\ WindowMayClose \in BOOLEAN
  /\ MaxStops \in Nat

VARIABLES
  place,     \* Service Bus: where each message is
  delivery,  \* Service Bus: how often it was delivered
  tasks,     \* messages that a replica has received and not settled
  permits,   \* free permits of each replica's semaphore
  job,       \* the synchronous work a replica is in the middle of
  record,    \* the retry store
  calls,     \* the calls placed
  skipped,   \* messages that the gate answered "skipped"
  outcomes,  \* the outcomes recorded for each alarm, in order
  stops

queue == <<place, delivery>>
consumer == <<tasks, permits>>
store == <<record, outcomes>>
vars == <<queue, consumer, job, store, calls, skipped, stops>>

Task == [replica : Replica, msg : Message, delivery : 1..MaxDelivery,
         stage : {"received", "started", "handled", "failed"}]

\* A call is known by the delivery that placed it.
Call == [msg : Message, delivery : 1..MaxDelivery, phase : {"open", "ending", "ended"}]

\* gating: the record was read for the gate; refused: create_call raised;
\* recording: the record was read to record an outcome.
Job ==
  [doing : {"gating", "refused"}, msg : Message, delivery : 1..MaxDelivery,
   outcome : {None}, seen : Record \cup {NoRecord}] \cup
  [doing : {"recording"}, msg : Message, delivery : 1..MaxDelivery,
   outcome : CallOutcome, seen : Record \cup {NoRecord}]

NoJob == [doing |-> "nothing"]

Running == {"started", "handled", "failed"}

TypeOK ==
  /\ place \in [Message -> {"absent", "ready", "locked", "completed", "dead"}]
  /\ delivery \in [Message -> 0..MaxDelivery]
  /\ tasks \subseteq Task
  /\ permits \in [Replica -> 0..MaxConcurrent]
  /\ job \in [Replica -> Job \cup {NoJob}]
  /\ record \in [Alarm -> Record \cup {NoRecord}]
  /\ calls \subseteq Call
  /\ skipped \subseteq Message
  /\ outcomes \in [Alarm -> Seq(CallOutcome)]
  /\ stops \in 0..MaxStops

Init ==
  /\ place = [m \in Message |-> "absent"]
  /\ delivery = [m \in Message |-> 0]
  /\ tasks = {}
  /\ permits = [r \in Replica |-> MaxConcurrent]
  /\ job = [r \in Replica |-> NoJob]
  /\ record = [a \in Alarm |-> NoRecord]
  /\ calls = {}
  /\ skipped = {}
  /\ outcomes = [a \in Alarm |-> << >>]
  /\ stops = 0

-----------------------------------------------------------------------------
(* The queue.                                                              *)

\* POST /api/alarm-intent: 202 "queued".
Enqueue(m) ==
  /\ place[m] = "absent"
  /\ place' = [place EXCEPT ![m] = "ready"]
  /\ UNCHANGED <<delivery, consumer, job, store, calls, skipped, stops>>

\* Mutant: the queue has no maxDeliveryCount.
ReturnedAlways(m) == place' = [place EXCEPT ![m] = "ready"]

\* A message that was delivered in vain is delivered again, or dead-lettered.
Returned(m) ==
  place' = [place EXCEPT ![m] = IF delivery[m] < MaxDelivery THEN "ready" ELSE "dead"]

LockExpires(m) ==
  /\ place[m] = "locked"
  /\ Returned(m)
  /\ UNCHANGED <<delivery, consumer, job, store, calls, skipped, stops>>

-----------------------------------------------------------------------------
(* The consumer of a replica.                                              *)

TasksOf(r) == {t \in tasks : t.replica = r}

\* The tasks that hold a permit.
RunningTasks(r) == {t \in TasksOf(r) : t.stage \in Running}

\* The receive loop takes a batch and starts its messages one after the
\* other, each when the semaphore has a permit; it receives the next batch
\* when all of this one have started.
Receive(r) ==
  /\ job[r] = NoJob
  /\ \A t \in TasksOf(r) : t.stage # "received"
  /\ \E batch \in SUBSET {m \in Message : place[m] = "ready"} :
       /\ Cardinality(batch) \in 1..BatchSize
       /\ place' = [m \in Message |-> IF m \in batch THEN "locked" ELSE place[m]]
       /\ delivery' = [m \in Message |-> IF m \in batch THEN delivery[m] + 1 ELSE delivery[m]]
       /\ tasks' = tasks \cup
            {[replica |-> r, msg |-> m, delivery |-> delivery[m] + 1, stage |-> "received"] :
               m \in batch}
  /\ UNCHANGED <<permits, job, store, calls, skipped, stops>>

Move(t, stage) == tasks' = (tasks \ {t}) \cup {[t EXCEPT !.stage = stage]}

\* Mutant: the semaphore is not acquired.
StartUnlimited(t) ==
  /\ t.stage = "received"
  /\ job[t.replica] = NoJob
  /\ Move(t, "started")
  /\ UNCHANGED <<queue, permits, job, store, calls, skipped, stops>>

StartTask(t) ==
  /\ t.stage = "received"
  /\ job[t.replica] = NoJob
  /\ permits[t.replica] > 0
  /\ permits' = [permits EXCEPT ![t.replica] = @ - 1]
  /\ Move(t, "started")
  /\ UNCHANGED <<queue, job, store, calls, skipped, stops>>

\* The lock that the task received its message under.
HoldsLock(t) == place[t.msg] = "locked" /\ delivery[t.msg] = t.delivery

\* Mutant: a message whose processing failed is completed as well.
FinishEither(t) ==
  /\ t.stage \in {"handled", "failed"}
  /\ place' = IF HoldsLock(t) THEN [place EXCEPT ![t.msg] = "completed"] ELSE place

\* complete_message, or abandon_message after an exception; either one fails,
\* and is logged, when the lock was lost.
Finish(t) ==
  \/ /\ t.stage = "handled"
     /\ place' = IF HoldsLock(t) THEN [place EXCEPT ![t.msg] = "completed"] ELSE place
  \/ /\ t.stage = "failed"
     /\ IF HoldsLock(t) THEN Returned(t.msg) ELSE UNCHANGED place

\* Mutant: the permit is released only when the message is completed.
ReleaseOnSuccess(t) ==
  permits' = IF t.stage = "handled" THEN [permits EXCEPT ![t.replica] = @ + 1] ELSE permits

\* The finally clause.
Release(t) == permits' = [permits EXCEPT ![t.replica] = @ + 1]

Settle(t) ==
  /\ job[t.replica] = NoJob
  /\ Finish(t)
  /\ Release(t)
  /\ tasks' = tasks \ {t}
  /\ UNCHANGED <<delivery, job, store, calls, skipped, stops>>

-----------------------------------------------------------------------------
(* _process_intent.                                                        *)

HandlerRaises(t) ==
  /\ t.stage = "started"
  /\ t.msg \in Unprocessable
  /\ job[t.replica] = NoJob
  /\ Move(t, "failed")
  /\ UNCHANGED <<queue, permits, job, store, calls, skipped, stops>>

Begin(r, doing, msg, n, outcome) ==
  job' = [job EXCEPT ![r] = [doing |-> doing, msg |-> msg, delivery |-> n, outcome |-> outcome,
                             seen |-> record[AlarmOf[msg]]]]

\* should_attempt_call reads the record of the alarm.
ReadForGate(t) ==
  /\ t.stage = "started"
  /\ t.msg \notin Unprocessable
  /\ job[t.replica] = NoJob
  /\ Begin(t.replica, "gating", t.msg, t.delivery, None)
  /\ UNCHANGED <<queue, consumer, store, calls, skipped, stops>>

\* The task that a replica's gating or refused job belongs to.
JobTask(r) ==
  CHOOSE t \in tasks :
    t.replica = r /\ t.msg = job[r].msg /\ t.delivery = job[r].delivery

\* Mutant: an existing record is not found.
CreatedAnew(seen) == FreshRecord

Created(seen) == IF seen = NoRecord THEN FreshRecord ELSE seen

\* get_or_create_record writes a fresh record if it has read none.
CreateIfNone(r) ==
  record' = IF job[r].seen = NoRecord
            THEN [record EXCEPT ![AlarmOf[job[r].msg]] = FreshRecord] ELSE record

InCallWindow == IF WindowMayClose THEN BOOLEAN ELSE {TRUE}

Skip(r) ==
  /\ job[r].doing = "gating"
  /\ \E inWindow \in InCallWindow : ~ShouldAttemptCall(Created(job[r].seen), inWindow)
  /\ CreateIfNone(r)
  /\ skipped' = skipped \cup {job[r].msg}
  /\ Move(JobTask(r), "handled")
  /\ job' = [job EXCEPT ![r] = NoJob]
  /\ UNCHANGED <<queue, permits, outcomes, calls, stops>>

Place(r) ==
  /\ job[r].doing = "gating"
  /\ \E inWindow \in InCallWindow : ShouldAttemptCall(Created(job[r].seen), inWindow)
  /\ CreateIfNone(r)
  /\ calls' = calls \cup {[msg |-> job[r].msg, delivery |-> job[r].delivery, phase |-> "open"]}
  /\ Move(JobTask(r), "handled")
  /\ job' = [job EXCEPT ![r] = NoJob]
  /\ UNCHANGED <<queue, permits, outcomes, skipped, stops>>

\* create_call raises: FAILED is to be recorded and the handler raises.
Refuse(r) ==
  /\ CallsMayFail
  /\ job[r].doing = "gating"
  /\ \E inWindow \in InCallWindow : ShouldAttemptCall(Created(job[r].seen), inWindow)
  /\ CreateIfNone(r)
  /\ job' = [job EXCEPT ![r].doing = "refused"]
  /\ UNCHANGED <<queue, consumer, outcomes, calls, skipped, stops>>

ReadForFailure(r) ==
  /\ job[r].doing = "refused"
  /\ Begin(r, "recording", job[r].msg, job[r].delivery, "failed")
  /\ Move(JobTask(r), "failed")
  /\ UNCHANGED <<queue, permits, store, calls, skipped, stops>>

-----------------------------------------------------------------------------
(* record_outcome.                                                         *)

\* CallDisconnected of an open call reaches replica r.
ReadForOutcome(r, c) ==
  /\ c.phase = "open"
  /\ job[r] = NoJob
  /\ \E outcome \in Verdict : Begin(r, "recording", c.msg, c.delivery, outcome)
  /\ calls' = (calls \ {c}) \cup {[c EXCEPT !.phase = "ending"]}
  /\ UNCHANGED <<queue, consumer, store, skipped, stops>>

\* The record that was read is written back with one more attempt; the write
\* names no ETag, so that it always succeeds.
WriteOutcome(r) ==
  /\ job[r].doing = "recording"
  /\ LET a == AlarmOf[job[r].msg] IN
     /\ record' = [record EXCEPT ![a] = RecordAttempt(Created(job[r].seen), job[r].outcome)]
     /\ outcomes' = [outcomes EXCEPT ![a] = Append(@, job[r].outcome)]
  /\ calls' = {IF c.msg = job[r].msg /\ c.delivery = job[r].delivery
               THEN [c EXCEPT !.phase = "ended"] ELSE c : c \in calls}
  /\ job' = [job EXCEPT ![r] = NoJob]
  /\ UNCHANGED <<queue, consumer, skipped, stops>>

-----------------------------------------------------------------------------
(* A replica is scaled in or crashes, and another takes its place.  stop() *)
(* does not await the tasks of the consumer: closing the client loses      *)
(* their locks.                                                            *)

Stop(r) ==
  /\ stops < MaxStops
  /\ stops' = stops + 1
  /\ tasks' = tasks \ TasksOf(r)
  /\ permits' = [permits EXCEPT ![r] = MaxConcurrent]
  /\ job' = [job EXCEPT ![r] = NoJob]
  /\ UNCHANGED <<queue, store, calls, skipped>>

-----------------------------------------------------------------------------
Process(r) ==
  \/ \E t \in TasksOf(r) : StartTask(t) \/ HandlerRaises(t) \/ ReadForGate(t) \/ Settle(t)
  \/ Skip(r) \/ Place(r) \/ Refuse(r) \/ ReadForFailure(r) \/ WriteOutcome(r)

Next ==
  \/ \E m \in Message : Enqueue(m) \/ LockExpires(m)
  \/ \E r \in Replica : Receive(r) \/ Process(r) \/ Stop(r)
  \/ \E r \in Replica, c \in calls : ReadForOutcome(r, c)

Spec == Init /\ [][Next]_vars

\* Replicas keep running, locks expire, and calls end: KeepsContract and
\* CallEnds of LocalCall.
Fairness ==
  /\ \A m \in Message : WF_vars(LockExpires(m))
  /\ \A r \in Replica : WF_vars(Receive(r)) /\ WF_vars(Process(r))
  /\ WF_vars(\E r \in Replica, c \in calls : ReadForOutcome(r, c))

FairSpec == Spec /\ Fairness

-----------------------------------------------------------------------------
(* What the intake is expected to do.                                      *)

(* The semaphore: at every moment its permits and the tasks that were      *)
(* started and not finished add up, whatever way the tasks end, so that    *)
(* the consumer never stops consuming for want of a permit.                *)

PermitsAddUp ==
  \A r \in Replica :
    permits[r] + Cardinality(RunningTasks(r)) = MaxConcurrent

(* Nothing accepted is lost: a message leaves the queue as completed only  *)
(* after its processing has placed a call or was told by the gate to skip. *)

WasHandled(m) == m \in skipped \/ \E c \in calls : c.msg = m

CompletedWasHandled == \A m \in Message : place[m] = "completed" => WasHandled(m)

(* Every accepted intent is completed or dead-lettered in the end, across  *)
(* restarts, lost locks and a consumer that is at its limit.               *)

EveryIntentSettles ==
  \A m \in Message : place[m] = "ready" ~> place[m] \in {"completed", "dead"}

Concluded(history) ==
  Len(history) >= MaxRetries \/ \E n \in DOMAIN history : history[n] \in Decisive

(* "Alarm already resolved", "Already escalated to human", "Max retries    *)
(* exhausted": with one replica no call is placed for an alarm whose calls *)
(* have come to a conclusion, in whatever order their outcomes came in.    *)

NoCallAfterConclusion ==
  [][\A c \in calls' \ calls : c.phase = "open" => ~Concluded(outcomes[AlarmOf[c.msg]])]_vars

(* "uses ETag optimistic concurrency to keep concurrent attempts safe"     *)
(* (retry_store): no recorded attempt is overwritten.                      *)

AttemptsAddUp ==
  \A a \in Alarm : record[a].attempts = outcomes[a]

=============================================================================
