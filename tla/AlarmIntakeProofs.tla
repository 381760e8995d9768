--------------------------- MODULE AlarmIntakeProofs ---------------------------
(***************************************************************************)
(* Proofs about AlarmIntake, for any number of replicas, messages, alarms, *)
(* permits, deliveries and restarts.                                       *)
(***************************************************************************)
EXTENDS AlarmIntake, FiniteSetTheorems, TLAPS

(***************************************************************************)
(* The inductive invariant.  A delivery is processed by one task of one    *)
(* replica; the job that a replica runs for a message belongs to a task    *)
(* that has started; and a task that is about to complete its message has  *)
(* handled it.  PermitsAddUp needs the running tasks to be finite, and     *)
(* TypeOK needs PermitsAddUp: released permits stay below the limit.       *)
(***************************************************************************)
DeliveriesCounted ==
  /\ \A m \in Message : place[m] \in {"absent", "ready"} => delivery[m] < MaxDelivery
  /\ \A t \in tasks : t.delivery <= delivery[t.msg]

OneTaskPerDelivery ==
  \A t, u \in tasks : t.msg = u.msg /\ t.delivery = u.delivery => t = u

PermitsHeld ==
  \A r \in Replica :
    IsFiniteSet(RunningTasks(r)) /\ permits[r] + Cardinality(RunningTasks(r)) = MaxConcurrent

Belongs(t, r) == t.replica = r /\ t.msg = job[r].msg /\ t.delivery = job[r].delivery

JobsHaveTasks ==
  \A r \in Replica :
    job[r].doing \in {"gating", "refused"} => \E t \in tasks : Belongs(t, r) /\ t.stage = "started"

HandledTasks == \A t \in tasks : t.stage = "handled" => WasHandled(t.msg)

Inv ==
  /\ TypeOK
  /\ DeliveriesCounted
  /\ OneTaskPerDelivery
  /\ PermitsHeld
  /\ JobsHaveTasks
  /\ HandledTasks
  /\ CompletedWasHandled

LEMMA InvInit == Init => Inv
<1> SUFFICES ASSUME Init PROVE Inv
  OBVIOUS
<1>1. TypeOK
  BY IntakeAssumption DEF Init, TypeOK
<1>2. DeliveriesCounted /\ OneTaskPerDelivery /\ HandledTasks /\ CompletedWasHandled
  BY IntakeAssumption DEF Init, DeliveriesCounted, OneTaskPerDelivery, HandledTasks, CompletedWasHandled
<1>3. JobsHaveTasks
  BY DEF Init, JobsHaveTasks, NoJob
<1>4. PermitsHeld
  <2> SUFFICES ASSUME NEW r \in Replica
               PROVE IsFiniteSet(RunningTasks(r)) /\ permits[r] + Cardinality(RunningTasks(r)) = MaxConcurrent
    BY DEF PermitsHeld
  <2>1. RunningTasks(r) = {} /\ permits[r] = MaxConcurrent
    BY DEF Init, RunningTasks, TasksOf
  <2>2. QED BY <2>1, FS_EmptySet, IntakeAssumption
<1>5. QED BY <1>1, <1>2, <1>3, <1>4 DEF Inv

(***************************************************************************)
(* What a step of a task does to the tasks.                                *)
(***************************************************************************)

\* The task of a job is the one that started for it.
LEMMA JobTaskStarted ==
  ASSUME Inv, NEW r \in Replica, job[r].doing \in {"gating", "refused"}
  PROVE  /\ JobTask(r) \in tasks
         /\ Belongs(JobTask(r), r)
         /\ JobTask(r).stage = "started"
<1>1. PICK t \in tasks : Belongs(t, r) /\ t.stage = "started"
  BY DEF Inv, JobsHaveTasks
<1>2. JobTask(r) \in tasks /\ Belongs(JobTask(r), r)
  BY <1>1 DEF JobTask, Belongs
<1>3. JobTask(r) = t
  BY <1>1, <1>2 DEF Inv, OneTaskPerDelivery, Belongs
<1>4. QED BY <1>1, <1>2, <1>3

\* A task that moves to another stage remains the task of its delivery.
LEMMA Moved ==
  ASSUME Inv, NEW t \in tasks, NEW stage \in {"received", "started", "handled", "failed"},
         Move(t, stage)
  PROVE  LET u == [t EXCEPT !.stage = stage] IN
         /\ u \in Task /\ u.stage = stage
         /\ u.replica = t.replica /\ u.msg = t.msg /\ u.delivery = t.delivery
         /\ tasks' = (tasks \ {t}) \cup {u}
         /\ t.stage # stage => u \notin tasks
         /\ tasks' \subseteq Task
         /\ OneTaskPerDelivery'
<1> DEFINE u == [t EXCEPT !.stage = stage]
<1>1. t \in Task /\ tasks \subseteq Task
  BY DEF Inv, TypeOK
<1>2. u \in Task /\ u.stage = stage /\ u.replica = t.replica /\ u.msg = t.msg /\ u.delivery = t.delivery
  BY <1>1 DEF Task
<1>3. tasks' = (tasks \ {t}) \cup {u}
  BY DEF Move
<1> HIDE DEF u
<1>4. t.stage # stage => u \notin tasks
  BY <1>2 DEF Inv, OneTaskPerDelivery
<1>5. OneTaskPerDelivery'
  BY <1>2, <1>3 DEF Inv, OneTaskPerDelivery
<1>6. QED BY <1>1, <1>2, <1>3, <1>4, <1>5 DEF u

\* From one running stage to another, a task keeps its permit.
LEMMA MovedKeepsPermits ==
  ASSUME Inv, NEW t \in tasks, NEW stage \in Running, t.stage \in Running, t.stage # stage,
         Move(t, stage), UNCHANGED permits
  PROVE  PermitsHeld'
<1> DEFINE u == [t EXCEPT !.stage = stage]
<1>1. /\ u.stage = stage /\ u.replica = t.replica
      /\ tasks' = (tasks \ {t}) \cup {u} /\ u \notin tasks
  BY Moved DEF Running
<1> HIDE DEF u
<1> SUFFICES ASSUME NEW r \in Replica
             PROVE (/\ IsFiniteSet(RunningTasks(r))
                    /\ permits[r] + Cardinality(RunningTasks(r)) = MaxConcurrent)'
  BY DEF PermitsHeld
<1>2. IsFiniteSet(RunningTasks(r)) /\ permits[r] + Cardinality(RunningTasks(r)) = MaxConcurrent
  BY DEF Inv, PermitsHeld
<1>3. CASE r # t.replica
  <2>1. RunningTasks(r)' = RunningTasks(r)
    BY <1>1, <1>3 DEF RunningTasks, TasksOf
  <2>2. QED BY <1>2, <2>1
<1>4. CASE r = t.replica
  <2>1. RunningTasks(r)' = (RunningTasks(r) \ {t}) \cup {u}
    BY <1>1, <1>4 DEF RunningTasks, TasksOf
  <2>2. t \in RunningTasks(r) /\ u \notin RunningTasks(r)
    BY <1>1, <1>4 DEF RunningTasks, TasksOf
  <2>3. /\ IsFiniteSet(RunningTasks(r) \ {t})
        /\ Cardinality(RunningTasks(r) \ {t}) = Cardinality(RunningTasks(r)) - 1
    BY <1>2, <2>2, FS_RemoveElement
  <2>4. /\ IsFiniteSet(RunningTasks(r)')
        /\ Cardinality(RunningTasks(r)') = Cardinality(RunningTasks(r) \ {t}) + 1
    BY <2>1, <2>2, <2>3, FS_AddElement
  <2>5. Cardinality(RunningTasks(r)) \in Nat
    BY <1>2, FS_CardinalityType
  <2>6. QED BY <1>2, <2>3, <2>4, <2>5
<1>5. QED BY <1>3, <1>4

(***************************************************************************)
(* The inductive step, one action at a time.                               *)
(***************************************************************************)

\* A returned message was delivered often enough, or may be delivered again.
LEMMA ReturnedType ==
  ASSUME Inv, NEW m \in Message, Returned(m), UNCHANGED delivery
  PROVE  /\ place' \in [Message -> {"absent", "ready", "locked", "completed", "dead"}]
         /\ \A n \in Message : place'[n] \in {"absent", "ready"} => delivery'[n] < MaxDelivery
         /\ \A n \in Message : place'[n] = "completed" => place[n] = "completed"
BY DEF Inv, TypeOK, Returned, DeliveriesCounted

LEMMA QueueKeepsInv ==
  ASSUME Inv, NEW m \in Message, Enqueue(m) \/ LockExpires(m)
  PROVE  Inv'
<1>1. UNCHANGED <<delivery, consumer, job, store, calls, skipped, stops>>
  BY DEF Enqueue, LockExpires
<1>2. /\ place' \in [Message -> {"absent", "ready", "locked", "completed", "dead"}]
      /\ \A n \in Message : place'[n] \in {"absent", "ready"} => delivery'[n] < MaxDelivery
      /\ \A n \in Message : place'[n] = "completed" => place[n] = "completed"
  <2>1. CASE Enqueue(m)
    BY <1>1, <2>1 DEF Enqueue, Inv, TypeOK, DeliveriesCounted
  <2>2. CASE LockExpires(m)
    BY <1>1, <2>2, ReturnedType DEF LockExpires
  <2>3. QED BY <2>1, <2>2
<1>3. TypeOK'
  BY <1>1, <1>2 DEF Inv, TypeOK, consumer, store
<1>4. DeliveriesCounted' /\ OneTaskPerDelivery'
  BY <1>1, <1>2 DEF Inv, DeliveriesCounted, OneTaskPerDelivery, consumer
<1>5. PermitsHeld'
  BY <1>1 DEF Inv, PermitsHeld, RunningTasks, TasksOf, consumer
<1>6. JobsHaveTasks'
  BY <1>1 DEF Inv, JobsHaveTasks, Belongs, consumer
<1>7. HandledTasks' /\ CompletedWasHandled'
  BY <1>1, <1>2 DEF Inv, HandledTasks, CompletedWasHandled, WasHandled, consumer
<1>8. QED BY <1>3, <1>4, <1>5, <1>6, <1>7 DEF Inv

LEMMA ReceiveKeepsInv ==
  ASSUME Inv, NEW r \in Replica, Receive(r)
  PROVE  Inv'
<1>1. PICK batch \in SUBSET {m \in Message : place[m] = "ready"} :
        /\ place' = [m \in Message |-> IF m \in batch THEN "locked" ELSE place[m]]
        /\ delivery' = [m \in Message |-> IF m \in batch THEN delivery[m] + 1 ELSE delivery[m]]
        /\ tasks' = tasks \cup
             {[replica |-> r, msg |-> m, delivery |-> delivery[m] + 1, stage |-> "received"] :
                m \in batch}
  BY DEF Receive
<1>2. UNCHANGED <<permits, job, store, calls, skipped, stops>>
  BY DEF Receive
<1>3. \A m \in batch : m \in Message /\ delivery[m] + 1 \in 1..MaxDelivery
  BY <1>1, IntakeAssumption DEF Inv, TypeOK, DeliveriesCounted
<1> DEFINE new(m) == [replica |-> r, msg |-> m, delivery |-> delivery[m] + 1, stage |-> "received"]
<1>4. \A m \in batch : new(m) \in Task
  BY <1>3 DEF Task
<1>5. \A t \in tasks' : t \in tasks \/ \E m \in batch : t = new(m)
  BY <1>1
<1>6. TypeOK'
  <2>1. tasks' \subseteq Task
    BY <1>4, <1>5 DEF Inv, TypeOK
  <2>2. place' \in [Message -> {"absent", "ready", "locked", "completed", "dead"}]
    BY <1>1 DEF Inv, TypeOK
  <2>3. delivery' \in [Message -> 0..MaxDelivery]
    BY <1>1, <1>3, IntakeAssumption DEF Inv, TypeOK
  <2>4. QED BY <1>2, <2>1, <2>2, <2>3 DEF Inv, TypeOK, store
<1>7. DeliveriesCounted'
  <2>1. \A m \in Message : place'[m] \in {"absent", "ready"} => delivery'[m] < MaxDelivery
    BY <1>1 DEF Inv, DeliveriesCounted
  <2>2. ASSUME NEW t \in tasks' PROVE t.delivery <= delivery'[t.msg]
    <3>1. CASE t \in tasks
      <4>1. t.msg \in Message /\ t.delivery \in Nat /\ t.delivery <= delivery[t.msg]
        BY <3>1 DEF Inv, TypeOK, Task, DeliveriesCounted
      <4>2. delivery[t.msg] \in Nat
        BY <4>1, IntakeAssumption DEF Inv, TypeOK
      <4>3. QED BY <1>1, <4>1, <4>2
    <3>2. CASE \E m \in batch : t = new(m)
      BY <1>1, <1>3, <3>2
    <3>3. QED BY <1>5, <3>1, <3>2
  <2>3. QED BY <2>1, <2>2 DEF DeliveriesCounted
<1>8. OneTaskPerDelivery'
  <2> SUFFICES ASSUME NEW t \in tasks', NEW u \in tasks',
                      t.msg = u.msg, t.delivery = u.delivery
               PROVE  t = u
    BY DEF OneTaskPerDelivery
  <2>1. \A v \in tasks, m \in batch : ~(v.msg = m /\ v.delivery = delivery[m] + 1)
    BY <1>3, IntakeAssumption DEF Inv, TypeOK, DeliveriesCounted
  <2>2. QED BY <1>5, <2>1 DEF Inv, OneTaskPerDelivery
<1>9. PermitsHeld'
  <2> SUFFICES ASSUME NEW s \in Replica PROVE RunningTasks(s)' = RunningTasks(s)
    BY <1>2 DEF Inv, PermitsHeld
  <2>1. QED BY <1>1, <1>5 DEF RunningTasks, TasksOf, Running
<1>10. JobsHaveTasks'
  BY <1>1, <1>2 DEF Inv, JobsHaveTasks, Belongs
<1>11. HandledTasks' /\ CompletedWasHandled'
  BY <1>1, <1>2, <1>5 DEF Inv, HandledTasks, CompletedWasHandled, WasHandled
<1>12. QED BY <1>6, <1>7, <1>8, <1>9, <1>10, <1>11 DEF Inv

\* A task of a replica moves on; what was handled stays handled.
LEMMA TaskMoves ==
  ASSUME Inv, NEW t \in tasks, NEW stage \in {"received", "started", "handled", "failed"},
         Move(t, stage), UNCHANGED queue,
         \A s \in Replica \ {t.replica} : job'[s] = job[s],
         job'[t.replica].doing \notin {"gating", "refused"},
         \A m \in Message : WasHandled(m) => WasHandled(m)',
         stage = "handled" => WasHandled(t.msg)'
  PROVE  /\ tasks' \subseteq Task
         /\ DeliveriesCounted' /\ OneTaskPerDelivery'
         /\ JobsHaveTasks' /\ HandledTasks' /\ CompletedWasHandled'
<1> DEFINE u == [t EXCEPT !.stage = stage]
<1>1. /\ u.stage = stage /\ u.replica = t.replica /\ u.msg = t.msg /\ u.delivery = t.delivery
      /\ tasks' = (tasks \ {t}) \cup {u}
      /\ tasks' \subseteq Task /\ OneTaskPerDelivery'
  BY Moved
<1> HIDE DEF u
<1>2. t.msg \in Message
  BY DEF Inv, TypeOK, Task
<1>3. DeliveriesCounted'
  BY <1>1 DEF Inv, DeliveriesCounted, queue
<1>4. JobsHaveTasks'
  <2> SUFFICES ASSUME NEW r \in Replica, job'[r].doing \in {"gating", "refused"}
               PROVE  \E v \in tasks' : Belongs(v, r)' /\ v.stage = "started"
    BY DEF JobsHaveTasks
  <2>1. r # t.replica /\ job'[r] = job[r]
    OBVIOUS
  <2>2. PICK v \in tasks : Belongs(v, r) /\ v.stage = "started"
    BY <2>1 DEF Inv, JobsHaveTasks
  <2>3. v \in tasks' /\ Belongs(v, r)'
    BY <1>1, <2>1, <2>2 DEF Belongs
  <2>4. QED BY <2>2, <2>3
<1>5. HandledTasks'
  <2> SUFFICES ASSUME NEW v \in tasks', v.stage = "handled" PROVE WasHandled(v.msg)'
    BY DEF HandledTasks
  <2>1. v \in Task
    BY <1>1
  <2>2. CASE v \in tasks
    <3>1. WasHandled(v.msg) /\ v.msg \in Message
      BY <2>1, <2>2 DEF Inv, HandledTasks, Task
    <3>2. QED BY <3>1
  <2>3. CASE v = u
    BY <1>1, <2>3
  <2>4. QED BY <1>1, <2>2, <2>3
<1>6. CompletedWasHandled'
  BY DEF Inv, CompletedWasHandled, queue
<1>7. QED BY <1>1, <1>3, <1>4, <1>5, <1>6

LEMMA StartKeepsInv ==
  ASSUME Inv, NEW t \in tasks, StartTask(t)
  PROVE  Inv'
<1>1. /\ Move(t, "started") /\ t.stage = "received"
      /\ UNCHANGED <<queue, job, store, calls, skipped, stops>>
      /\ permits[t.replica] > 0
      /\ permits' = [permits EXCEPT ![t.replica] = @ - 1]
      /\ job[t.replica] = NoJob
  BY DEF StartTask
<1>2. /\ tasks' \subseteq Task
      /\ DeliveriesCounted' /\ OneTaskPerDelivery'
      /\ JobsHaveTasks' /\ HandledTasks' /\ CompletedWasHandled'
  BY <1>1, TaskMoves DEF NoJob, WasHandled
<1>3. permits' \in [Replica -> 0..MaxConcurrent]
  <2>1. t.replica \in Replica /\ permits \in [Replica -> 0..MaxConcurrent]
    BY DEF Inv, TypeOK, Task
  <2>2. permits[t.replica] - 1 \in 0..MaxConcurrent
    BY <1>1, <2>1, IntakeAssumption
  <2>3. QED BY <1>1, <2>1, <2>2
<1>4. TypeOK'
  BY <1>1, <1>2, <1>3 DEF Inv, TypeOK, queue, store
<1> DEFINE u == [t EXCEPT !.stage = "started"]
<1>5. /\ u.stage = "started" /\ u.replica = t.replica
      /\ tasks' = (tasks \ {t}) \cup {u} /\ u \notin tasks
  BY <1>1, Moved
<1>6. PermitsHeld'
  <2> HIDE DEF u
  <2> SUFFICES ASSUME NEW r \in Replica
               PROVE (/\ IsFiniteSet(RunningTasks(r))
                      /\ permits[r] + Cardinality(RunningTasks(r)) = MaxConcurrent)'
    BY DEF PermitsHeld
  <2>1. /\ IsFiniteSet(RunningTasks(r)) /\ permits[r] + Cardinality(RunningTasks(r)) = MaxConcurrent
        /\ permits[r] \in Nat
    BY IntakeAssumption DEF Inv, PermitsHeld, TypeOK
  <2>2. CASE r # t.replica
    <3>1. RunningTasks(r)' = RunningTasks(r)
      BY <1>5, <2>2 DEF RunningTasks, TasksOf
    <3>2. permits'[r] = permits[r]
      BY <1>1, <2>2 DEF Inv, TypeOK
    <3>3. QED BY <2>1, <3>1, <3>2
  <2>3. CASE r = t.replica
    <3>1. RunningTasks(r)' = RunningTasks(r) \cup {u} /\ u \notin RunningTasks(r)
      BY <1>1, <1>5, <2>3 DEF RunningTasks, TasksOf, Running
    <3>2. /\ IsFiniteSet(RunningTasks(r)')
          /\ Cardinality(RunningTasks(r)') = Cardinality(RunningTasks(r)) + 1
      BY <2>1, <3>1, FS_AddElement
    <3>3. permits'[r] = permits[r] - 1
      BY <1>1, <2>3 DEF Inv, TypeOK
    <3>4. Cardinality(RunningTasks(r)) \in Nat
      BY <2>1, FS_CardinalityType
    <3>5. QED BY <2>1, <3>2, <3>3, <3>4
  <2>4. QED BY <2>2, <2>3
<1>7. QED BY <1>2, <1>4, <1>6 DEF Inv

LEMMA SettleKeepsInv ==
  ASSUME Inv, NEW t \in tasks, Settle(t)
  PROVE  Inv'
<1>1. /\ job[t.replica] = NoJob /\ Finish(t)
      /\ permits' = [permits EXCEPT ![t.replica] = @ + 1]
      /\ tasks' = tasks \ {t}
      /\ UNCHANGED <<delivery, job, store, calls, skipped, stops>>
      /\ t.stage \in {"handled", "failed"}
  BY DEF Settle, Release, Finish
<1>2. t \in Task /\ t.msg \in Message /\ t.replica \in Replica
  BY DEF Inv, TypeOK, Task
<1>3. /\ place' \in [Message -> {"absent", "ready", "locked", "completed", "dead"}]
      /\ \A n \in Message : place'[n] \in {"absent", "ready"} => delivery'[n] < MaxDelivery
      /\ \A n \in Message : place'[n] = "completed" => WasHandled(n)
  <2>1. CASE t.stage = "handled"
    <3>1. place' = IF HoldsLock(t) THEN [place EXCEPT ![t.msg] = "completed"] ELSE place
      BY <1>1, <2>1 DEF Finish
    <3>2. WasHandled(t.msg)
      BY <2>1 DEF Inv, HandledTasks
    <3>3. QED BY <1>1, <1>2, <3>1, <3>2 DEF Inv, TypeOK, DeliveriesCounted, CompletedWasHandled
  <2>2. CASE t.stage = "failed"
    <3>1. Returned(t.msg) \/ UNCHANGED place
      BY <1>1, <2>2 DEF Finish
    <3>2. CASE Returned(t.msg)
      BY <1>1, <1>2, <3>2, ReturnedType DEF Inv, CompletedWasHandled
    <3>3. CASE UNCHANGED place
      BY <1>1, <3>3 DEF Inv, TypeOK, DeliveriesCounted, CompletedWasHandled
    <3>4. QED BY <3>1, <3>2, <3>3
  <2>3. QED BY <1>1, <2>1, <2>2
<1>4. PermitsHeld' /\ permits' \in [Replica -> 0..MaxConcurrent]
  <2>1. ASSUME NEW r \in Replica
        PROVE  /\ IsFiniteSet(RunningTasks(r)')
               /\ permits'[r] + Cardinality(RunningTasks(r)') = MaxConcurrent
               /\ permits'[r] \in 0..MaxConcurrent
    <3>1. /\ IsFiniteSet(RunningTasks(r)) /\ permits[r] + Cardinality(RunningTasks(r)) = MaxConcurrent
          /\ permits[r] \in Nat
      BY IntakeAssumption DEF Inv, PermitsHeld, TypeOK
    <3>2. CASE r # t.replica
      <4>1. RunningTasks(r)' = RunningTasks(r)
        BY <1>1, <3>2 DEF RunningTasks, TasksOf
      <4>2. permits'[r] = permits[r]
        BY <1>1, <3>2 DEF Inv, TypeOK
      <4>3. permits[r] \in 0..MaxConcurrent
        BY DEF Inv, TypeOK
      <4>4. QED BY <3>1, <4>1, <4>2, <4>3
    <3>3. CASE r = t.replica
      <4>1. RunningTasks(r)' = RunningTasks(r) \ {t} /\ t \in RunningTasks(r)
        BY <1>1, <3>3 DEF RunningTasks, TasksOf, Running
      <4>2. /\ IsFiniteSet(RunningTasks(r)')
            /\ Cardinality(RunningTasks(r)') = Cardinality(RunningTasks(r)) - 1
        BY <3>1, <4>1, FS_RemoveElement
      <4>3. permits'[r] = permits[r] + 1
        BY <1>1, <3>3 DEF Inv, TypeOK
      <4>4. Cardinality(RunningTasks(r)) \in Nat /\ Cardinality(RunningTasks(r)') \in Nat
        BY <3>1, <4>2, FS_CardinalityType
      <4>5. QED BY <3>1, <4>2, <4>3, <4>4, IntakeAssumption
    <3>4. QED BY <3>2, <3>3
  <2>2. PermitsHeld'
    BY <2>1 DEF PermitsHeld
  <2>3. QED BY <1>1, <2>1, <2>2 DEF Inv, TypeOK
<1>5. TypeOK'
  BY <1>1, <1>3, <1>4 DEF Inv, TypeOK, store
<1>6. DeliveriesCounted' /\ OneTaskPerDelivery'
  BY <1>1, <1>3 DEF Inv, DeliveriesCounted, OneTaskPerDelivery
<1>7. JobsHaveTasks'
  <2> SUFFICES ASSUME NEW r \in Replica, job'[r].doing \in {"gating", "refused"}
               PROVE  \E v \in tasks' : Belongs(v, r)' /\ v.stage = "started"
    BY DEF JobsHaveTasks
  <2>1. PICK v \in tasks : Belongs(v, r) /\ v.stage = "started"
    BY <1>1 DEF Inv, JobsHaveTasks
  <2>2. v # t
    BY <1>1, <2>1
  <2>3. QED BY <1>1, <2>1, <2>2 DEF Belongs
<1>8. HandledTasks' /\ CompletedWasHandled'
  BY <1>1, <1>3 DEF Inv, HandledTasks, CompletedWasHandled, WasHandled
<1>9. QED BY <1>4, <1>5, <1>6, <1>7, <1>8 DEF Inv

(***************************************************************************)
(* What the steps of _process_intent and record_outcome have in common.    *)
(***************************************************************************)

\* A replica begins to work on a record.
LEMMA Begun ==
  ASSUME Inv, NEW r \in Replica, NEW doing \in {"gating", "recording"}, NEW m \in Message,
         NEW n \in 1..MaxDelivery, NEW outcome,
         doing = "gating" => outcome = None,
         doing = "recording" => outcome \in CallOutcome,
         Begin(r, doing, m, n, outcome)
  PROVE  /\ job' \in [Replica -> Job \cup {NoJob}]
         /\ job'[r].doing = doing /\ job'[r].msg = m /\ job'[r].delivery = n
         /\ \A s \in Replica \ {r} : job'[s] = job[s]
<1> DEFINE begun == [doing |-> doing, msg |-> m, delivery |-> n, outcome |-> outcome,
                     seen |-> record[AlarmOf[m]]]
<1>1. begun.doing = doing /\ begun.msg = m /\ begun.delivery = n
  OBVIOUS
<1>2. record[AlarmOf[m]] \in Record \cup {NoRecord}
  BY IntakeAssumption DEF Inv, TypeOK
<1>3. begun \in Job
  BY <1>2 DEF Job
<1>4. job' = [job EXCEPT ![r] = begun]
  BY DEF Begin
<1> HIDE DEF begun
<1>5. QED BY <1>1, <1>3, <1>4 DEF Inv, TypeOK

\* The job of a replica that has one.
LEMMA JobType ==
  ASSUME Inv, NEW r \in Replica, job[r].doing \in {"gating", "refused", "recording"}
  PROVE  /\ job[r] \in Job
         /\ job[r].msg \in Message /\ job[r].delivery \in 1..MaxDelivery
         /\ AlarmOf[job[r].msg] \in Alarm
BY IntakeAssumption DEF Inv, TypeOK, Job, NoJob

\* A step that leaves the queue and the tasks alone.
LEMMA TasksUntouched ==
  ASSUME Inv, UNCHANGED <<place, delivery, tasks, permits>>,
         \A m \in Message : WasHandled(m) => WasHandled(m)',
         \A r \in Replica : job'[r].doing \in {"gating", "refused"} =>
                              \E t \in tasks : Belongs(t, r)' /\ t.stage = "started"
  PROVE  /\ DeliveriesCounted' /\ OneTaskPerDelivery' /\ PermitsHeld'
         /\ JobsHaveTasks' /\ HandledTasks' /\ CompletedWasHandled'
<1>1. DeliveriesCounted' /\ OneTaskPerDelivery'
  BY DEF Inv, DeliveriesCounted, OneTaskPerDelivery
<1>2. PermitsHeld'
  BY DEF Inv, PermitsHeld, RunningTasks, TasksOf
<1>3. JobsHaveTasks'
  BY DEF JobsHaveTasks
<1>4. HandledTasks' /\ CompletedWasHandled'
  BY DEF Inv, TypeOK, Task, HandledTasks, CompletedWasHandled
<1>5. QED BY <1>1, <1>2, <1>3, <1>4

LEMMA CreateIfNoneType ==
  ASSUME Inv, NEW r \in Replica, job[r].doing = "gating", CreateIfNone(r)
  PROVE  record' \in [Alarm -> Record \cup {NoRecord}]
<1>1. FreshRecord \in Record
  BY DEF FreshRecord, Record
<1>2. QED BY <1>1, JobType DEF CreateIfNone, Inv, TypeOK

\* The task of a job moves on when the job is done.
LEMMA JobTaskMoves ==
  ASSUME Inv, NEW r \in Replica, job[r].doing \in {"gating", "refused"},
         NEW stage \in {"handled", "failed"}, Move(JobTask(r), stage),
         UNCHANGED <<queue, permits>>,
         \A s \in Replica \ {r} : job'[s] = job[s],
         job'[r].doing \notin {"gating", "refused"},
         \A m \in Message : WasHandled(m) => WasHandled(m)',
         stage = "handled" => \A m \in Message : m = job[r].msg => WasHandled(m)'
  PROVE  /\ tasks' \subseteq Task
         /\ DeliveriesCounted' /\ OneTaskPerDelivery' /\ PermitsHeld'
         /\ JobsHaveTasks' /\ HandledTasks' /\ CompletedWasHandled'
<1>1. PICK t \in tasks : /\ t = JobTask(r)
                          /\ t.replica = r /\ t.msg = job[r].msg /\ t.stage = "started"
  BY JobTaskStarted DEF Belongs
<1>2. Move(t, stage)
  BY <1>1
<1>3. stage \in Running /\ t.stage \in Running /\ t.stage # stage
  BY <1>1 DEF Running
<1>4. PermitsHeld'
  BY <1>1, <1>2, <1>3, MovedKeepsPermits
<1>5. stage = "handled" => WasHandled(t.msg)'
  <2>1. t.msg \in Message /\ t.msg = job[r].msg
    BY <1>1, JobType
  <2>2. QED BY <2>1
<1>6. stage \in {"received", "started", "handled", "failed"}
  OBVIOUS
<1>7. QED BY <1>1, <1>2, <1>4, <1>5, <1>6, TaskMoves

(***************************************************************************)
(* The remaining actions.                                                  *)
(***************************************************************************)

LEMMA RaiseKeepsInv ==
  ASSUME Inv, NEW t \in tasks, HandlerRaises(t)
  PROVE  Inv'
<1>1. /\ Move(t, "failed") /\ t.stage = "started" /\ job[t.replica] = NoJob
      /\ UNCHANGED <<queue, permits, job, store, calls, skipped, stops>>
  BY DEF HandlerRaises
<1>2. \A m \in Message : WasHandled(m) => WasHandled(m)'
  BY <1>1 DEF WasHandled
<1>3. job'[t.replica].doing \notin {"gating", "refused"}
  BY <1>1 DEF NoJob
<1>4. /\ tasks' \subseteq Task
      /\ DeliveriesCounted' /\ OneTaskPerDelivery'
      /\ JobsHaveTasks' /\ HandledTasks' /\ CompletedWasHandled'
  BY <1>1, <1>2, <1>3, TaskMoves
<1>5. PermitsHeld'
  BY <1>1, MovedKeepsPermits DEF Running
<1>6. TypeOK'
  BY <1>1, <1>4 DEF Inv, TypeOK, queue, store
<1>7. QED BY <1>4, <1>5, <1>6 DEF Inv

LEMMA ReadForGateKeepsInv ==
  ASSUME Inv, NEW t \in tasks, ReadForGate(t)
  PROVE  Inv'
<1>1. /\ t.stage = "started" /\ Begin(t.replica, "gating", t.msg, t.delivery, None)
      /\ UNCHANGED <<queue, consumer, store, calls, skipped, stops>>
  BY DEF ReadForGate
<1>2. t.replica \in Replica /\ t.msg \in Message /\ t.delivery \in 1..MaxDelivery
  BY DEF Inv, TypeOK, Task
<1>3. /\ job' \in [Replica -> Job \cup {NoJob}]
      /\ job'[t.replica].msg = t.msg /\ job'[t.replica].delivery = t.delivery
      /\ \A s \in Replica \ {t.replica} : job'[s] = job[s]
  BY <1>1, <1>2, Begun
<1>4. ASSUME NEW r \in Replica, job'[r].doing \in {"gating", "refused"}
      PROVE  \E u \in tasks : Belongs(u, r)' /\ u.stage = "started"
  <2>1. CASE r = t.replica
    BY <1>1, <1>3, <2>1 DEF Belongs
  <2>2. CASE r # t.replica
    BY <1>3, <1>4, <2>2 DEF Inv, JobsHaveTasks, Belongs
  <2>3. QED BY <2>1, <2>2
<1>5. UNCHANGED <<place, delivery, tasks, permits>> /\ \A m \in Message : WasHandled(m) => WasHandled(m)'
  BY <1>1 DEF WasHandled, queue, consumer
<1>6. TypeOK'
  BY <1>1, <1>3 DEF Inv, TypeOK, queue, consumer, store
<1>7. QED BY <1>4, <1>5, <1>6, TasksUntouched DEF Inv

LEMMA SkipKeepsInv ==
  ASSUME Inv, NEW r \in Replica, Skip(r)
  PROVE  Inv'
<1>1. /\ job[r].doing = "gating" /\ CreateIfNone(r)
      /\ skipped' = skipped \cup {job[r].msg}
      /\ Move(JobTask(r), "handled")
      /\ job' = [job EXCEPT ![r] = NoJob]
      /\ UNCHANGED <<queue, permits, outcomes, calls, stops>>
  BY DEF Skip
<1>2. job[r].msg \in Message
  BY <1>1, JobType
<1>3. /\ \A m \in Message : WasHandled(m) => WasHandled(m)'
      /\ \A m \in Message : m = job[r].msg => WasHandled(m)'
  BY <1>1 DEF WasHandled
<1>4. /\ job' \in [Replica -> Job \cup {NoJob}]
      /\ \A s \in Replica \ {r} : job'[s] = job[s]
      /\ job'[r].doing \notin {"gating", "refused"}
  BY <1>1 DEF Inv, TypeOK, NoJob
<1>5. /\ tasks' \subseteq Task
      /\ DeliveriesCounted' /\ OneTaskPerDelivery' /\ PermitsHeld'
      /\ JobsHaveTasks' /\ HandledTasks' /\ CompletedWasHandled'
  BY <1>1, <1>3, <1>4, JobTaskMoves
<1>6. record' \in [Alarm -> Record \cup {NoRecord}]
  BY <1>1, CreateIfNoneType
<1>7. TypeOK'
  BY <1>1, <1>2, <1>4, <1>5, <1>6 DEF Inv, TypeOK, queue
<1>8. QED BY <1>5, <1>7 DEF Inv

LEMMA PlaceKeepsInv ==
  ASSUME Inv, NEW r \in Replica, Place(r)
  PROVE  Inv'
<1> DEFINE placed == [msg |-> job[r].msg, delivery |-> job[r].delivery, phase |-> "open"]
<1>1. /\ job[r].doing = "gating" /\ CreateIfNone(r)
      /\ calls' = calls \cup {placed}
      /\ Move(JobTask(r), "handled")
      /\ job' = [job EXCEPT ![r] = NoJob]
      /\ UNCHANGED <<queue, permits, outcomes, skipped, stops>>
  BY DEF Place
<1>2. placed \in Call /\ placed.msg = job[r].msg
  BY <1>1, JobType DEF Call
<1> HIDE DEF placed
<1>3. /\ \A m \in Message : WasHandled(m) => WasHandled(m)'
      /\ \A m \in Message : m = job[r].msg => WasHandled(m)'
  BY <1>1, <1>2 DEF WasHandled
<1>4. /\ job' \in [Replica -> Job \cup {NoJob}]
      /\ \A s \in Replica \ {r} : job'[s] = job[s]
      /\ job'[r].doing \notin {"gating", "refused"}
  BY <1>1 DEF Inv, TypeOK, NoJob
<1>5. /\ tasks' \subseteq Task
      /\ DeliveriesCounted' /\ OneTaskPerDelivery' /\ PermitsHeld'
      /\ JobsHaveTasks' /\ HandledTasks' /\ CompletedWasHandled'
  BY <1>1, <1>3, <1>4, JobTaskMoves
<1>6. record' \in [Alarm -> Record \cup {NoRecord}]
  BY <1>1, CreateIfNoneType
<1>7. TypeOK'
  BY <1>1, <1>2, <1>4, <1>5, <1>6 DEF Inv, TypeOK, queue
<1>8. QED BY <1>5, <1>7 DEF Inv

LEMMA RefuseKeepsInv ==
  ASSUME Inv, NEW r \in Replica, Refuse(r)
  PROVE  Inv'
<1>1. /\ job[r].doing = "gating" /\ CreateIfNone(r)
      /\ job' = [job EXCEPT ![r] = [job[r] EXCEPT !.doing = "refused"]]
      /\ UNCHANGED <<queue, consumer, outcomes, calls, skipped, stops>>
  BY DEF Refuse, Inv, TypeOK
<1> DEFINE refused == [job[r] EXCEPT !.doing = "refused"]
<1>2. /\ refused \in Job /\ refused.msg = job[r].msg /\ refused.delivery = job[r].delivery
  BY <1>1, JobType DEF Job
<1>3. job' = [job EXCEPT ![r] = refused]
  BY <1>1
<1> HIDE DEF refused
<1>4. /\ job' \in [Replica -> Job \cup {NoJob}]
      /\ job'[r] = refused
      /\ \A s \in Replica \ {r} : job'[s] = job[s]
  BY <1>2, <1>3 DEF Inv, TypeOK
<1>5. ASSUME NEW s \in Replica, job'[s].doing \in {"gating", "refused"}
      PROVE  \E t \in tasks : Belongs(t, s)' /\ t.stage = "started"
  <2>1. job[s].doing \in {"gating", "refused"}
    BY <1>1, <1>4, <1>5
  <2>2. PICK t \in tasks : Belongs(t, s) /\ t.stage = "started"
    BY <2>1 DEF Inv, JobsHaveTasks
  <2>3. Belongs(t, s)'
    BY <1>2, <1>4, <2>2 DEF Belongs
  <2>4. QED BY <2>2, <2>3
<1>6. UNCHANGED <<place, delivery, tasks, permits>> /\ \A m \in Message : WasHandled(m) => WasHandled(m)'
  BY <1>1 DEF WasHandled, queue, consumer
<1>7. record' \in [Alarm -> Record \cup {NoRecord}]
  BY <1>1, CreateIfNoneType
<1>8. TypeOK'
  BY <1>1, <1>4, <1>7 DEF Inv, TypeOK, queue, consumer
<1>9. QED BY <1>5, <1>6, <1>8, TasksUntouched DEF Inv

LEMMA ReadForFailureKeepsInv ==
  ASSUME Inv, NEW r \in Replica, ReadForFailure(r)
  PROVE  Inv'
<1>1. /\ job[r].doing = "refused"
      /\ Begin(r, "recording", job[r].msg, job[r].delivery, "failed")
      /\ Move(JobTask(r), "failed")
      /\ UNCHANGED <<queue, permits, store, calls, skipped, stops>>
  BY DEF ReadForFailure
<1>2. job[r].msg \in Message /\ job[r].delivery \in 1..MaxDelivery /\ "failed" \in CallOutcome
  BY <1>1, JobType DEF CallOutcome
<1>3. /\ job' \in [Replica -> Job \cup {NoJob}]
      /\ job'[r].doing = "recording"
      /\ \A s \in Replica \ {r} : job'[s] = job[s]
  BY <1>1, <1>2, Begun
<1>4. \A m \in Message : WasHandled(m) => WasHandled(m)'
  BY <1>1 DEF WasHandled
<1>5. /\ tasks' \subseteq Task
      /\ DeliveriesCounted' /\ OneTaskPerDelivery' /\ PermitsHeld'
      /\ JobsHaveTasks' /\ HandledTasks' /\ CompletedWasHandled'
  BY <1>1, <1>3, <1>4, JobTaskMoves
<1>6. TypeOK'
  BY <1>1, <1>3, <1>5 DEF Inv, TypeOK, queue, store
<1>7. QED BY <1>5, <1>6 DEF Inv

LEMMA ReadForOutcomeKeepsInv ==
  ASSUME Inv, NEW r \in Replica, NEW c \in calls, ReadForOutcome(r, c)
  PROVE  Inv'
<1>1. PICK outcome \in Verdict : Begin(r, "recording", c.msg, c.delivery, outcome)
  BY DEF ReadForOutcome
<1> DEFINE ending == [c EXCEPT !.phase = "ending"]
<1>2. /\ calls' = (calls \ {c}) \cup {ending}
      /\ UNCHANGED <<queue, consumer, store, skipped, stops>>
  BY DEF ReadForOutcome
<1>3. /\ c.msg \in Message /\ c.delivery \in 1..MaxDelivery /\ outcome \in CallOutcome
      /\ ending \in Call /\ ending.msg = c.msg
  BY IntakeAssumption DEF Inv, TypeOK, Call
<1> HIDE DEF ending
<1>4. /\ job' \in [Replica -> Job \cup {NoJob}]
      /\ job'[r].doing = "recording"
      /\ \A s \in Replica \ {r} : job'[s] = job[s]
  BY <1>1, <1>3, Begun
<1>5. ASSUME NEW s \in Replica, job'[s].doing \in {"gating", "refused"}
      PROVE  \E t \in tasks : Belongs(t, s)' /\ t.stage = "started"
  <2>1. s # r /\ job'[s] = job[s]
    BY <1>4, <1>5
  <2>2. QED BY <1>5, <2>1 DEF Inv, JobsHaveTasks, Belongs
<1>6. UNCHANGED <<place, delivery, tasks, permits>>
  BY <1>2 DEF queue, consumer
<1>7. \A m \in Message : WasHandled(m) => WasHandled(m)'
  BY <1>2, <1>3 DEF WasHandled
<1>8. TypeOK'
  BY <1>2, <1>3, <1>4 DEF Inv, TypeOK, queue, consumer, store
<1>9. QED BY <1>5, <1>6, <1>7, <1>8, TasksUntouched DEF Inv

LEMMA RecordAttemptType ==
  ASSUME NEW rec \in Record, NEW outcome \in CallOutcome
  PROVE  RecordAttempt(rec, outcome) \in Record
<1> DEFINE appended == [rec EXCEPT !.attempts = Append(@, outcome)]
<1>1. Append(rec.attempts, outcome) \in Seq(CallOutcome)
  BY DEF Record
<1>2. appended \in Record
  BY <1>1 DEF Record
<1> HIDE DEF appended
<1>3. [appended EXCEPT !.final = outcome] \in Record /\ [appended EXCEPT !.final = "escalate_human"] \in Record
  BY <1>2 DEF Record, CallOutcome
<1>4. QED BY <1>2, <1>3 DEF RecordAttempt, appended

LEMMA WriteOutcomeKeepsInv ==
  ASSUME Inv, NEW r \in Replica, WriteOutcome(r)
  PROVE  Inv'
<1> DEFINE a == AlarmOf[job[r].msg]
           ended(c) == [c EXCEPT !.phase = "ended"]
           ofJob(c) == c.msg = job[r].msg /\ c.delivery = job[r].delivery
<1>1. /\ job[r].doing = "recording"
      /\ record' = [record EXCEPT ![a] = RecordAttempt(Created(job[r].seen), job[r].outcome)]
      /\ outcomes' = [outcomes EXCEPT ![a] = Append(@, job[r].outcome)]
      /\ calls' = {IF ofJob(c) THEN ended(c) ELSE c : c \in calls}
      /\ job' = [job EXCEPT ![r] = NoJob]
      /\ UNCHANGED <<queue, consumer, skipped, stops>>
  BY DEF WriteOutcome
<1>2. job[r] \in Job /\ a \in Alarm /\ job[r].outcome \in CallOutcome
  BY <1>1, JobType DEF Job
<1>3. Created(job[r].seen) \in Record
  BY <1>2 DEF Job, Created, FreshRecord, Record
<1>4. RecordAttempt(Created(job[r].seen), job[r].outcome) \in Record
  BY <1>2, <1>3, RecordAttemptType
<1>5. record' \in [Alarm -> Record \cup {NoRecord}]
  BY <1>1, <1>2, <1>4 DEF Inv, TypeOK
<1>6. outcomes' \in [Alarm -> Seq(CallOutcome)]
  <2>1. outcomes[a] \in Seq(CallOutcome)
    BY <1>2 DEF Inv, TypeOK
  <2>2. Append(outcomes[a], job[r].outcome) \in Seq(CallOutcome)
    BY <1>2, <2>1
  <2>3. QED BY <1>1, <1>2, <2>2 DEF Inv, TypeOK
<1>7. \A c \in calls : c \in Call /\ ended(c) \in Call /\ ended(c).msg = c.msg
  BY DEF Inv, TypeOK, Call
<1> HIDE DEF ended, ofJob, a
<1>8. calls' \subseteq Call
  BY <1>1, <1>7
<1>9. \A m \in Message : WasHandled(m) => WasHandled(m)'
  <2> SUFFICES ASSUME NEW m \in Message, NEW c \in calls, c.msg = m
               PROVE  \E d \in calls' : d.msg = m
    BY <1>1 DEF WasHandled
  <2>1. (IF ofJob(c) THEN ended(c) ELSE c) \in calls'
    BY <1>1
  <2>2. QED BY <1>7, <2>1
<1>10. /\ job' \in [Replica -> Job \cup {NoJob}]
       /\ \A s \in Replica \ {r} : job'[s] = job[s]
       /\ job'[r].doing \notin {"gating", "refused", "recording"}
  BY <1>1 DEF Inv, TypeOK, NoJob
<1>11. ASSUME NEW s \in Replica, job'[s].doing \in {"gating", "refused"}
       PROVE  \E t \in tasks : Belongs(t, s)' /\ t.stage = "started"
  <2>1. s # r /\ job'[s] = job[s]
    BY <1>10, <1>11
  <2>2. QED BY <1>11, <2>1 DEF Inv, JobsHaveTasks, Belongs
<1>12. UNCHANGED <<place, delivery, tasks, permits>>
  BY <1>1 DEF queue, consumer
<1>13. TypeOK'
  BY <1>1, <1>5, <1>6, <1>8, <1>10 DEF Inv, TypeOK, queue, consumer
<1>14. QED BY <1>9, <1>11, <1>12, <1>13, TasksUntouched DEF Inv

LEMMA StopKeepsInv ==
  ASSUME Inv, NEW r \in Replica, Stop(r)
  PROVE  Inv'
<1>1. /\ stops < MaxStops /\ stops' = stops + 1
      /\ tasks' = tasks \ TasksOf(r)
      /\ permits' = [permits EXCEPT ![r] = MaxConcurrent]
      /\ job' = [job EXCEPT ![r] = NoJob]
      /\ UNCHANGED <<queue, store, calls, skipped>>
  BY DEF Stop
<1>2. \A s \in Replica \ {r} : TasksOf(s)' = TasksOf(s) /\ permits'[s] = permits[s] /\ job'[s] = job[s]
  BY <1>1 DEF TasksOf, Inv, TypeOK
<1>3. job'[r] = NoJob /\ permits'[r] = MaxConcurrent /\ RunningTasks(r)' = {}
  BY <1>1 DEF RunningTasks, TasksOf, Inv, TypeOK
<1>4. PermitsHeld'
  <2> SUFFICES ASSUME NEW s \in Replica
               PROVE (/\ IsFiniteSet(RunningTasks(s))
                      /\ permits[s] + Cardinality(RunningTasks(s)) = MaxConcurrent)'
    BY DEF PermitsHeld
  <2>1. CASE s = r
    BY <1>3, <2>1, FS_EmptySet, IntakeAssumption
  <2>2. CASE s # r
    <3>1. RunningTasks(s)' = RunningTasks(s)
      BY <1>2, <2>2 DEF RunningTasks
    <3>2. QED BY <1>2, <2>2, <3>1 DEF Inv, PermitsHeld
  <2>3. QED BY <2>1, <2>2
<1>5. JobsHaveTasks'
  <2> SUFFICES ASSUME NEW s \in Replica, job'[s].doing \in {"gating", "refused"}
               PROVE  \E t \in tasks' : Belongs(t, s)' /\ t.stage = "started"
    BY DEF JobsHaveTasks
  <2>1. s # r /\ job'[s] = job[s]
    BY <1>2, <1>3 DEF NoJob
  <2>2. PICK t \in tasks : Belongs(t, s) /\ t.stage = "started"
    BY <2>1 DEF Inv, JobsHaveTasks
  <2>3. t \in tasks'
    BY <1>1, <2>1, <2>2 DEF TasksOf, Belongs
  <2>4. QED BY <2>1, <2>2, <2>3 DEF Belongs
<1>6. permits' \in [Replica -> 0..MaxConcurrent] /\ stops' \in 0..MaxStops
  BY <1>1, IntakeAssumption DEF Inv, TypeOK
<1>7. TypeOK'
  BY <1>1, <1>6 DEF Inv, TypeOK, queue, store
<1>8. DeliveriesCounted' /\ OneTaskPerDelivery' /\ HandledTasks' /\ CompletedWasHandled'
  BY <1>1 DEF Inv, DeliveriesCounted, OneTaskPerDelivery, HandledTasks, CompletedWasHandled, WasHandled, queue
<1>9. QED BY <1>4, <1>5, <1>7, <1>8 DEF Inv

-----------------------------------------------------------------------------

LEMMA InvStep == Inv /\ [Next]_vars => Inv'
<1> SUFFICES ASSUME Inv, [Next]_vars PROVE Inv'
  OBVIOUS
<1>1. ASSUME NEW m \in Message, Enqueue(m) \/ LockExpires(m) PROVE Inv'
  BY <1>1, QueueKeepsInv
<1>2. ASSUME NEW r \in Replica, Receive(r) PROVE Inv'
  BY <1>2, ReceiveKeepsInv
<1>3. ASSUME NEW r \in Replica, NEW t \in tasks,
             StartTask(t) \/ HandlerRaises(t) \/ ReadForGate(t) \/ Settle(t)
      PROVE  Inv'
  BY <1>3, StartKeepsInv, RaiseKeepsInv, ReadForGateKeepsInv, SettleKeepsInv
<1>4. ASSUME NEW r \in Replica, Skip(r) \/ Place(r) \/ Refuse(r) \/ ReadForFailure(r) \/ WriteOutcome(r)
      PROVE  Inv'
  BY <1>4, SkipKeepsInv, PlaceKeepsInv, RefuseKeepsInv, ReadForFailureKeepsInv, WriteOutcomeKeepsInv
<1>5. ASSUME NEW r \in Replica, Stop(r) PROVE Inv'
  BY <1>5, StopKeepsInv
<1>6. ASSUME NEW r \in Replica, NEW c \in calls, ReadForOutcome(r, c) PROVE Inv'
  BY <1>6, ReadForOutcomeKeepsInv
<1>7. CASE UNCHANGED vars
  BY <1>7 DEF vars, queue, consumer, store, Inv, TypeOK, DeliveriesCounted, OneTaskPerDelivery,
              PermitsHeld, RunningTasks, TasksOf, JobsHaveTasks, Belongs,
              HandledTasks, CompletedWasHandled, WasHandled
<1>8. QED BY <1>1, <1>2, <1>3, <1>4, <1>5, <1>6, <1>7 DEF Next, Process, TasksOf

\* The invariant holds throughout, whatever the replicas, the queue and ACS do.
THEOREM Invariance == Spec => []Inv
<1>1. Init => Inv
  BY InvInit
<1>2. Inv /\ [Next]_vars => Inv'
  BY InvStep
<1>3. QED BY <1>1, <1>2, PTL DEF Spec

\* Every variable keeps its type: no message is delivered more often than
\* maxDeliveryCount, and no semaphore counts below zero or above its limit.
THEOREM TypeCorrect == Spec => []TypeOK
<1>1. Inv => TypeOK
  BY DEF Inv
<1>2. QED BY <1>1, Invariance, PTL

\* However the tasks of a consumer end, by completion, exception, a lost lock
\* or a restart, no permit of its semaphore is lost or gained.
THEOREM PermitsAlwaysAddUp == Spec => []PermitsAddUp
<1>1. Inv => PermitsAddUp
  BY DEF Inv, PermitsHeld, PermitsAddUp
<1>2. QED BY <1>1, Invariance, PTL

\* No message leaves the queue as completed unless its processing has placed
\* a call or was told by the gate to skip.
THEOREM NothingIsLost == Spec => []CompletedWasHandled
<1>1. Inv => CompletedWasHandled
  BY DEF Inv
<1>2. QED BY <1>1, Invariance, PTL

-----------------------------------------------------------------------------
(***************************************************************************)
(* The retry record.  What a replica has read is still in the store when   *)
(* it writes, so that no attempt is overwritten, as long as no two of them *)
(* are in the middle of one record at the same time; one replica is always *)
(* alone.  (With two, the run intake_attempts refutes AttemptsAddUp.)      *)
(***************************************************************************)
Reading(r) == job[r].doing \in {"gating", "recording"}

Alone ==
  \A r, q \in Replica :
    Reading(r) /\ Reading(q) /\ AlarmOf[job[r].msg] = AlarmOf[job[q].msg] => r = q

SeenIsStored ==
  \A r \in Replica : Reading(r) => job[r].seen = record[AlarmOf[job[r].msg]]

\* A decisive outcome is never followed by another conclusion than itself or
\* an escalation.
VerdictStays ==
  \A a \in Alarm :
    (\E n \in DOMAIN outcomes[a] : outcomes[a][n] \in Decisive) => record[a].final \in Decisive

Recorded == SeenIsStored /\ AttemptsAddUp /\ VerdictStays

LEMMA RecordedInit == Init => Recorded
  BY IntakeAssumption DEF Init, Recorded, SeenIsStored, Reading, AttemptsAddUp, VerdictStays, NoJob, NoRecord

\* A step that leaves the store alone, and begins at most one job.
LEMMA BegunKeepsRecorded ==
  ASSUME Inv, Recorded, NEW r \in Replica, NEW doing, NEW msg \in Message, NEW n, NEW outcome,
         Begin(r, doing, msg, n, outcome), UNCHANGED store
  PROVE  Recorded'
<1>1. job \in [Replica -> Job \cup {NoJob}]
  BY DEF Inv, TypeOK
<1>2. AttemptsAddUp' /\ VerdictStays'
  BY DEF Recorded, AttemptsAddUp, VerdictStays, store
<1>3. ASSUME NEW q \in Replica, job'[q].doing \in {"gating", "recording"}
      PROVE  job'[q].seen = record[AlarmOf[job'[q].msg]]
  <2>1. CASE q = r
    BY <1>1, <2>1 DEF Begin
  <2>2. CASE q # r
    <3>1. job'[q] = job[q]
      BY <1>1, <2>2 DEF Begin
    <3>2. QED BY <1>3, <3>1 DEF Recorded, SeenIsStored, Reading
  <2>3. QED BY <2>1, <2>2
<1>4. SeenIsStored'
  BY <1>3 DEF SeenIsStored, Reading, store
<1>5. QED BY <1>2, <1>4 DEF Recorded

\* A step in which jobs only end, and nothing is written.
LEMMA QuietKeepsRecorded ==
  ASSUME Recorded, UNCHANGED store,
         \A q \in Replica : job'[q] = job[q] \/ job'[q] = NoJob
  PROVE  Recorded'
<1>1. AttemptsAddUp' /\ VerdictStays'
  BY DEF Recorded, AttemptsAddUp, VerdictStays, store
<1>2. SeenIsStored'
  BY DEF Recorded, SeenIsStored, Reading, NoJob, store
<1>3. QED BY <1>1, <1>2 DEF Recorded

\* The gate writes a fresh record where there was none.
LEMMA GateKeepsRecorded ==
  ASSUME Inv, Recorded, Alone, NEW r \in Replica, job[r].doing = "gating",
         CreateIfNone(r), outcomes' = outcomes,
         \A q \in Replica \ {r} : job'[q] = job[q],
         job'[r].doing \notin {"gating", "recording"}
  PROVE  Recorded'
<1> DEFINE a == AlarmOf[job[r].msg]
<1>1. job[r] \in Job /\ a \in Alarm /\ record \in [Alarm -> Record \cup {NoRecord}]
  <2>1. job[r] \in Job
    BY DEF Inv, TypeOK, NoJob
  <2>2. QED BY <2>1, IntakeAssumption DEF Inv, TypeOK, Job
<1>2. job[r].seen = record[a]
  BY DEF Recorded, SeenIsStored, Reading
<1>3. \A b \in Alarm : record'[b] = record[b] \/ (b = a /\ record[b] = NoRecord /\ record'[b] = FreshRecord)
  BY <1>1, <1>2 DEF CreateIfNone
<1>4. AttemptsAddUp'
  BY <1>3 DEF Recorded, AttemptsAddUp, NoRecord, FreshRecord
<1>5. VerdictStays'
  BY <1>3 DEF Recorded, VerdictStays, NoRecord, Decisive
<1>6. SeenIsStored'
  <2> SUFFICES ASSUME NEW q \in Replica, Reading(q)' PROVE job'[q].seen = record'[AlarmOf[job'[q].msg]]
    BY DEF SeenIsStored
  <2>1. q # r /\ job'[q] = job[q] /\ Reading(q)
    BY DEF Reading
  <2>2. AlarmOf[job[q].msg] # a
    BY <2>1 DEF Alone, Reading
  <2>3. AlarmOf[job[q].msg] \in Alarm
    <3>1. job[q] \in Job
      BY <2>1 DEF Inv, TypeOK, NoJob, Reading
    <3>2. QED BY <3>1, IntakeAssumption DEF Job
  <2>4. QED BY <1>3, <2>1, <2>2, <2>3 DEF Recorded, SeenIsStored
<1>7. QED BY <1>4, <1>5, <1>6 DEF Recorded

\* An outcome is appended to the attempts that were read.
LEMMA WriteKeepsRecorded ==
  ASSUME Inv, Recorded, Alone, NEW r \in Replica, WriteOutcome(r)
  PROVE  Recorded'
<1> DEFINE a == AlarmOf[job[r].msg]
           o == job[r].outcome
           new == RecordAttempt(Created(job[r].seen), o)
<1>1. job[r] \in Job /\ a \in Alarm /\ record \in [Alarm -> Record \cup {NoRecord}] /\ o \in CallOutcome
  <2>1. job[r] \in Job
    BY DEF Inv, TypeOK, NoJob, WriteOutcome
  <2>2. QED BY <2>1, IntakeAssumption DEF Inv, TypeOK, Job, WriteOutcome
<1>2. job[r].seen = record[a]
  BY DEF Recorded, SeenIsStored, Reading, WriteOutcome
<1>3. /\ record' = [record EXCEPT ![a] = new]
      /\ outcomes' = [outcomes EXCEPT ![a] = Append(outcomes[a], o)]
      /\ outcomes \in [Alarm -> Seq(CallOutcome)]
      /\ job' = [job EXCEPT ![r] = NoJob]
  BY DEF WriteOutcome, Inv, TypeOK
<1>4. Created(record[a]) \in Record /\ Created(record[a]).attempts = outcomes[a]
  BY <1>1, <1>3 DEF Recorded, AttemptsAddUp, Created, NoRecord, FreshRecord, Record
<1>5. new.attempts = Append(outcomes[a], o)
  BY <1>2, <1>4 DEF RecordAttempt, Record
<1>6. AttemptsAddUp'
  BY <1>1, <1>3, <1>5 DEF Recorded, AttemptsAddUp
<1>7. VerdictStays'
  <2> SUFFICES ASSUME NEW b \in Alarm, NEW n \in DOMAIN outcomes'[b], outcomes'[b][n] \in Decisive
               PROVE  record'[b].final \in Decisive
    BY DEF VerdictStays
  <2>1. CASE b # a
    BY <1>1, <1>3, <2>1 DEF Recorded, VerdictStays
  <2>2. CASE b = a
    <3>1. o \in Decisive \/ (n \in DOMAIN outcomes[a] /\ outcomes[a][n] \in Decisive)
      BY <1>1, <1>3, <2>2
    <3>2. CASE o \in Decisive
      BY <1>1, <1>2, <1>3, <1>4, <2>2, <3>2 DEF RecordAttempt, Record
    <3>3. CASE n \in DOMAIN outcomes[a] /\ outcomes[a][n] \in Decisive
      <4>1. record[a].final \in Decisive /\ Created(record[a]) = record[a]
        BY <1>1, <3>3 DEF Recorded, VerdictStays, Created, NoRecord, Decisive
      <4>2. new.final \in Decisive
        BY <1>2, <1>4, <4>1 DEF RecordAttempt, Record, ShouldRetry, Decisive
      <4>3. QED BY <1>1, <1>3, <2>2, <4>2
    <3>4. QED BY <3>1, <3>2, <3>3
  <2>3. QED BY <2>1, <2>2
<1>8. SeenIsStored'
  <2> SUFFICES ASSUME NEW q \in Replica, Reading(q)' PROVE job'[q].seen = record'[AlarmOf[job'[q].msg]]
    BY DEF SeenIsStored
  <2>1. q # r /\ job'[q] = job[q] /\ Reading(q)
    BY <1>3 DEF Reading, NoJob, Inv, TypeOK
  <2>2. AlarmOf[job[q].msg] # a
    BY <2>1 DEF Alone, Reading, WriteOutcome
  <2>3. AlarmOf[job[q].msg] \in Alarm
    <3>1. job[q] \in Job
      BY <2>1 DEF Inv, TypeOK, NoJob, Reading
    <3>2. QED BY <3>1, IntakeAssumption DEF Job
  <2>4. QED BY <1>1, <1>3, <2>1, <2>2, <2>3 DEF Recorded, SeenIsStored
<1>9. QED BY <1>6, <1>7, <1>8 DEF Recorded

LEMMA RecordedStep == Inv /\ Alone /\ Recorded /\ [Next]_vars => Recorded'
<1> SUFFICES ASSUME Inv, Alone, Recorded, [Next]_vars PROVE Recorded'
  OBVIOUS
<1>0. job \in [Replica -> Job \cup {NoJob}]
  BY DEF Inv, TypeOK
<1>1. ASSUME NEW m \in Message, Enqueue(m) \/ LockExpires(m) PROVE Recorded'
  BY <1>1, QuietKeepsRecorded DEF Enqueue, LockExpires
<1>2. ASSUME NEW r \in Replica, Receive(r) \/ Stop(r) PROVE Recorded'
  <2>1. \A q \in Replica : job'[q] = job[q] \/ job'[q] = NoJob
    BY <1>0, <1>2 DEF Receive, Stop
  <2>2. QED BY <1>2, <2>1, QuietKeepsRecorded DEF Receive, Stop
<1>3. ASSUME NEW t \in tasks, StartTask(t) \/ HandlerRaises(t) \/ Settle(t) PROVE Recorded'
  BY <1>3, QuietKeepsRecorded DEF StartTask, HandlerRaises, Settle
<1>4. ASSUME NEW t \in tasks, ReadForGate(t) PROVE Recorded'
  <2>1. t.replica \in Replica /\ t.msg \in Message
    BY DEF Inv, TypeOK, Task
  <2>2. QED BY <1>4, <2>1, BegunKeepsRecorded DEF ReadForGate
<1>5. ASSUME NEW r \in Replica, Skip(r) \/ Place(r) \/ Refuse(r) PROVE Recorded'
  <2>1. job[r].doing = "gating" /\ CreateIfNone(r) /\ outcomes' = outcomes
    BY <1>5 DEF Skip, Place, Refuse
  <2>2. job[r] \in Job
    BY <1>0, <2>1 DEF NoJob
  <2>3. \A q \in Replica \ {r} : job'[q] = job[q]
    BY <1>0, <1>5 DEF Skip, Place, Refuse
  <2>4. job'[r].doing \notin {"gating", "recording"}
    BY <1>0, <1>5, <2>2 DEF Skip, Place, Refuse, NoJob, Job
  <2>5. QED BY <2>1, <2>3, <2>4, GateKeepsRecorded
<1>6. ASSUME NEW r \in Replica, ReadForFailure(r) PROVE Recorded'
  <2>1. job[r].msg \in Message
    BY <1>0, <1>6 DEF ReadForFailure, NoJob, Job
  <2>2. QED BY <1>6, <2>1, BegunKeepsRecorded DEF ReadForFailure
<1>7. ASSUME NEW r \in Replica, WriteOutcome(r) PROVE Recorded'
  BY <1>7, WriteKeepsRecorded
<1>8. ASSUME NEW r \in Replica, NEW c \in calls, ReadForOutcome(r, c) PROVE Recorded'
  <2>1. c.msg \in Message
    BY DEF Inv, TypeOK, Call
  <2>2. PICK outcome \in Verdict : Begin(r, "recording", c.msg, c.delivery, outcome)
    BY <1>8 DEF ReadForOutcome
  <2>3. QED BY <1>8, <2>1, <2>2, BegunKeepsRecorded DEF ReadForOutcome
<1>9. CASE UNCHANGED vars
  BY <1>9, QuietKeepsRecorded DEF vars
<1>10. QED BY <1>1, <1>2, <1>3, <1>4, <1>5, <1>6, <1>7, <1>8, <1>9 DEF Next, Process, TasksOf

\* The retry record counts the ended calls, but for the update in progress.
THEOREM RecordInvariance == Spec /\ []Alone => []Recorded
  BY RecordedInit, RecordedStep, Invariance, PTL DEF Spec

\* A call is placed only where the gate has seen no conclusion.
LEMMA PlacedBeforeConclusion ==
  Inv /\ Recorded /\ [Next]_vars =>
    [\A c \in calls' \ calls : c.phase = "open" => ~Concluded(outcomes[AlarmOf[c.msg]])]_vars
<1> DEFINE A == \A c \in calls' \ calls : c.phase = "open" => ~Concluded(outcomes[AlarmOf[c.msg]])
<1> SUFFICES ASSUME Inv, Recorded, [Next]_vars PROVE [A]_vars
  OBVIOUS
<1>1. ASSUME NEW r \in Replica, Place(r) PROVE A
  <2> DEFINE a == AlarmOf[job[r].msg]
  <2>1. job[r] \in Job /\ a \in Alarm
    <3>1. job[r] \in Job
      BY <1>1 DEF Inv, TypeOK, NoJob, Place
    <3>2. QED BY <3>1, IntakeAssumption DEF Job
  <2>2. job[r].seen = record[a]
    BY <1>1 DEF Recorded, SeenIsStored, Reading, Place
  <2>3. ShouldRetry(Created(record[a]))
    BY <1>1, <2>2 DEF Place, ShouldAttemptCall
  <2>4. Created(record[a]).attempts = outcomes[a]
    BY <2>1 DEF Recorded, AttemptsAddUp, Created, NoRecord, FreshRecord
  <2>5. (\E n \in DOMAIN outcomes[a] : outcomes[a][n] \in Decisive) => Created(record[a]).final \in Decisive
    BY <2>1 DEF Recorded, VerdictStays, Created, NoRecord, Decisive
  <2>6. outcomes[a] \in Seq(CallOutcome)
    BY <2>1 DEF Inv, TypeOK
  <2>7. ~Concluded(outcomes[a])
    BY <2>3, <2>4, <2>5, <2>6, RetryAssumption DEF Concluded, ShouldRetry
  <2>8. QED BY <1>1, <2>7 DEF Place
<1>2. ASSUME NEW r \in Replica, WriteOutcome(r) PROVE A
  BY <1>2 DEF WriteOutcome, Inv, TypeOK, Call
<1>3. ASSUME NEW r \in Replica, NEW c \in calls, ReadForOutcome(r, c) PROVE A
  BY <1>3 DEF ReadForOutcome, Inv, TypeOK, Call
<1>4. CASE calls' \subseteq calls
  BY <1>4
<1>5. (\E r \in Replica : Place(r) \/ WriteOutcome(r) \/ \E c \in calls : ReadForOutcome(r, c)) \/ calls' = calls
  BY DEF Next, Process, Enqueue, LockExpires, Receive, Stop, StartTask, HandlerRaises, ReadForGate,
         Settle, Skip, Refuse, ReadForFailure, vars
<1>6. QED BY <1>1, <1>2, <1>3, <1>4, <1>5

\* With one replica no attempt is ever overwritten, whatever tasks, calls and
\* restarts it is in the middle of (retry_store: the record is read, changed
\* and written back).
THEOREM AttemptsAlwaysAddUp ==
  ASSUME \A r, q \in Replica : r = q PROVE Spec => []AttemptsAddUp
<1>1. Alone
  BY DEF Alone
<1>2. Recorded => AttemptsAddUp
  BY DEF Recorded
<1>3. QED BY <1>1, <1>2, RecordInvariance, PTL

\* With more replicas it takes two of them in the middle of one record.
THEOREM OverwritingTakesTwo == Spec /\ []Alone => []AttemptsAddUp
<1>1. Recorded => AttemptsAddUp
  BY DEF Recorded
<1>2. QED BY <1>1, RecordInvariance, PTL

\* With one replica no call is placed for an alarm that was resolved, escalated
\* or tried often enough (RetryManager.should_attempt_call).
THEOREM ConcludedIsLeftAlone ==
  ASSUME \A r, q \in Replica : r = q PROVE Spec => NoCallAfterConclusion
<1>1. Alone
  BY DEF Alone
<1>2. QED
  BY <1>1, PlacedBeforeConclusion, RecordInvariance, Invariance, PTL DEF Spec, NoCallAfterConclusion
=============================================================================
