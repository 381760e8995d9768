--------------------------- MODULE SharedCallProofs ---------------------------
(***************************************************************************)
(* Proofs about SharedCall: what replicas with copies of their own keep up *)
(* as long as no two of them hold copies of the session that may still be  *)
(* stored -- for every SOP, any number of replicas, repeated deliveries    *)
(* and replicas that stop anywhere.                                        *)
(***************************************************************************)
EXTENDS SharedCall, HandlerProofs, FiniteSetTheorems

-----------------------------------------------------------------------------
(* The type invariant.  Outcomes are recorded and posted from copies, so   *)
(* that it needs to know that whatever has ended has an outcome.           *)

EndedHasOutcome(s) == s.ended => s.outcome # None

GoodSession == {s \in MaybeSession : EndedHasOutcome(s)}

\* Disconnected is the only event of its type; a completion names its operation.
GoodEvent ==
  {e \in Event :
     /\ e.type = "CallDisconnected" => e = Disconnected
     /\ e.type \in TurnType \ {"CallConnected"} => e.op \in 1..MaxOps}

RequestRecord ==
  [stage : {"idle", "reading", "marked", "reasoning", "commanding", "closing"},
   event : Event \cup {NoEvent}, copy : MaybeSession, command : Command]

GoodRequest ==
  {q \in RequestRecord :
     /\ q.stage # "idle" => q.event \in GoodEvent
     /\ q.stage \notin {"idle", "reading"} => q.copy \in Session
     /\ q.stage = "marked" => q.event.type # "RecognizeCompleted"
     /\ q.stage \in {"reasoning", "commanding"} => q.event.type \in TurnType
     /\ q.stage = "closing" => q.copy.ended
     /\ EndedHasOutcome(q.copy)}

GoodTask ==
  {t \in [kind : {None, "save_recording", "finalize"}, copy : MaybeSession] :
     /\ t # NoTask => t.copy \in Session
     /\ t.kind = "finalize" => t.copy.ended
     /\ EndedHasOutcome(t.copy)}

AcsTyped ==
  /\ line \in {"idle", "ringing", "up", "down", "failed"}
  /\ ops \in SUBSET [id : 1..MaxOps, context : MediaContext]
  /\ saidAt \in Seq(StepId) /\ opCount = Len(saidAt) /\ opCount <= MaxOps
  /\ recordings \in Nat /\ reports \in 0..MaxReports
  /\ owed \in SUBSET GoodEvent
  /\ dups \in 0..MaxFaults /\ stops \in 0..MaxFaults

Typed ==
  /\ store \in GoodSession
  /\ request \in [Replica -> GoodRequest] /\ task \in [Replica -> GoodTask]
  /\ timer \in [Replica -> BOOLEAN] /\ starting \in [Replica -> Nat]
  /\ recorded \in Seq(CallOutcome) /\ posted \in Seq(CallOutcome)
  /\ AcsTyped

LEMMA BoundedSeqType ==
  ASSUME NEW S, NEW n \in Nat, NEW s \in Seq(S), Len(s) <= n
  PROVE  s \in BoundedSeq(S, n)
<1>1. s \in [1..Len(s) -> S] /\ Len(s) \in 0..n
  OBVIOUS
<1>2. QED BY <1>1 DEF BoundedSeq, SeqOf

LEMMA TypedIsTypeOK == Typed => TypeOK
<1> SUFFICES ASSUME Typed PROVE TypeOK
  OBVIOUS
<1>1. saidAt \in BoundedSeq(StepId, MaxOps)
  BY SharedCallAssumption, BoundedSeqType DEF Typed, AcsTyped
<1>2. request \in [Replica -> RequestRecord]
  BY DEF Typed, GoodRequest
<1>3. task \in [Replica -> [kind : {None, "save_recording", "finalize"}, copy : MaybeSession]]
  BY DEF Typed, GoodTask
<1>4. store \in MaybeSession /\ owed \in SUBSET Event
  BY DEF Typed, AcsTyped, GoodSession, GoodEvent
<1>5. QED BY <1>1, <1>2, <1>3, <1>4 DEF Typed, AcsTyped, TypeOK, RequestRecord

\* What get_session returns for an unknown call is no session.
LEMMA SessionOrNot ==
  /\ NoSession \notin Session /\ NewSession \in Session
  /\ ~NoSession.ended /\ ~NewSession.ended
  /\ NoSession.processed_event_ids = << >> /\ NewSession.processed_event_ids = << >>
<1>1. NoSession.current_step = "no session"
  BY DEF NoSession, NewSession
<1>2. NoSession \notin Session
  BY <1>1, SharedCallAssumption DEF Session
<1>3. NewSession \in Session
  BY EngineAssumption DEF NewSession, Session
<1>4. QED BY <1>2, <1>3 DEF NoSession, NewSession

LEMMA GoodDefaults == NoSession \in GoodSession /\ Idle \in GoodRequest /\ NoTask \in GoodTask
<1>1. NoSession \in GoodSession
  BY SessionOrNot DEF GoodSession, MaybeSession, EndedHasOutcome
<1>2. None \in Command
  BY DEF Command
<1>3. Idle \in RequestRecord
  BY <1>2 DEF Idle, RequestRecord, MaybeSession
<1>4. Idle \in GoodRequest
  BY <1>3, SessionOrNot DEF Idle, GoodRequest, EndedHasOutcome
<1>5. NoTask \in GoodTask
  BY SessionOrNot DEF NoTask, GoodTask, EndedHasOutcome, MaybeSession, None
<1>6. QED BY <1>1, <1>4, <1>5

LEMMA GoodEvents ==
  /\ Disconnected \in GoodEvent
  /\ [type |-> "CallConnected", op |-> 0, info |-> None] \in GoodEvent
  /\ \A o \in [id : 1..MaxOps, context : MediaContext] : CompletionEvents(o) \subseteq GoodEvent
  /\ \A n \in Nat, i \in {"url", "no_url"} :
       [type |-> "RecordingFileStatusUpdated", op |-> n, info |-> i] \in GoodEvent
<1>1. Disconnected \in GoodEvent
  BY DEF Disconnected, GoodEvent, Event, EventType, EventInfo, TurnType
<1>2. [type |-> "CallConnected", op |-> 0, info |-> None] \in GoodEvent
  BY DEF GoodEvent, Event, EventType, EventInfo, TurnType
<1>3. ASSUME NEW o \in [id : 1..MaxOps, context : MediaContext]
      PROVE  CompletionEvents(o) \subseteq GoodEvent
  BY <1>3 DEF CompletionEvents, GoodEvent, Event, EventType, EventInfo, TurnType
<1>4. ASSUME NEW n \in Nat, NEW i \in {"url", "no_url"}
      PROVE  [type |-> "RecordingFileStatusUpdated", op |-> n, info |-> i] \in GoodEvent
  BY DEF GoodEvent, Event, EventType, EventInfo, TurnType
<1>5. QED BY <1>1, <1>2, <1>3, <1>4

(***************************************************************************)
(* What the steps of a request leave, piece by piece.                      *)
(***************************************************************************)
LEMMA GoesTo ==
  ASSUME Typed, NEW r \in Replica, NEW stage \in {"marked", "reasoning", "commanding", "closing"},
         NEW s \in Session, EndedHasOutcome(s), NEW command \in Command,
         request[r].stage # "idle",
         stage = "marked" => request[r].event.type # "RecognizeCompleted",
         stage \in {"reasoning", "commanding"} => request[r].event.type \in TurnType,
         stage = "closing" => s.ended,
         Goes(r, stage, s, command)
  PROVE  /\ request' = [request EXCEPT ![r] = [stage |-> stage, event |-> request[r].event,
                                               copy |-> s, command |-> command]]
         /\ request' \in [Replica -> GoodRequest]
<1> DEFINE q == [stage |-> stage, event |-> request[r].event, copy |-> s, command |-> command]
<1>1. request[r] \in RequestRecord /\ request[r].event \in GoodEvent
  BY DEF Typed, GoodRequest
<1>2. q \in RequestRecord
  BY <1>1 DEF RequestRecord, MaybeSession
<1>3. q \in GoodRequest
  BY <1>1, <1>2 DEF GoodRequest
<1>4. request' = [request EXCEPT ![r] = q]
  <2> DEFINE others(f) == \A x \in Replica : x # r => f[x] = request[x]
             n1 == [request EXCEPT ![r].stage = stage]
             n2 == [n1 EXCEPT ![r].copy = s]
             n3 == [n2 EXCEPT ![r].command = command]
  <2>1. request \in [Replica -> RequestRecord] /\ s \in MaybeSession
    BY DEF Typed, GoodRequest, MaybeSession
  <2>2. request' = n3
    BY DEF Goes
  <2>3. /\ n1 \in [Replica -> RequestRecord] /\ others(n1)
        /\ n1[r].event = request[r].event /\ n1[r].stage = stage
    BY <2>1 DEF RequestRecord
  <2> HIDE DEF n1
  <2>4. /\ n2 \in [Replica -> RequestRecord] /\ others(n2)
        /\ n2[r].event = request[r].event /\ n2[r].stage = stage /\ n2[r].copy = s
    BY <2>1, <2>3 DEF RequestRecord
  <2> HIDE DEF n2
  <2>5. /\ n3 \in [Replica -> RequestRecord] /\ others(n3)
        /\ n3[r].event = request[r].event /\ n3[r].stage = stage /\ n3[r].copy = s
        /\ n3[r].command = command
    BY <2>4 DEF RequestRecord
  <2> HIDE DEF n3
  <2>6. n3[r] = q
    BY <2>5 DEF RequestRecord
  <2>7. QED BY <2>1, <2>2, <2>5, <2>6
<1> HIDE DEF q
<1>5. request' \in [Replica -> GoodRequest]
  BY <1>3, <1>4 DEF Typed
<1>6. QED BY <1>4, <1>5 DEF q

LEMMA ReturnsTo ==
  ASSUME Typed, NEW r \in Replica, NEW raised \in SUBSET GoodEvent, Returns(r, raised)
  PROVE  /\ request' = [request EXCEPT ![r] = Idle]
         /\ request' \in [Replica -> GoodRequest]
         /\ owed' \in SUBSET GoodEvent /\ owed' \subseteq owed \cup raised
         /\ dups' \in 0..MaxFaults
<1>1. request' = [request EXCEPT ![r] = Idle] /\ request' \in [Replica -> GoodRequest]
  BY GoodDefaults DEF Returns, Typed
<1>2. owed' \subseteq owed \cup raised
  BY DEF Returns
<1>3. dups' \in 0..MaxFaults
  <2>1. MaxFaults \in Nat /\ dups \in 0..MaxFaults /\ stops \in 0..MaxFaults
    BY SharedCallAssumption DEF Typed, AcsTyped
  <2>2. dups' = dups \/ (dups + stops < MaxFaults /\ dups' = dups + 1)
    BY DEF Returns
  <2>3. QED BY <2>1, <2>2
<1>4. QED BY <1>1, <1>2, <1>3 DEF Typed, AcsTyped

LEMMA FinalizeTo ==
  ASSUME Typed, NEW c \in Session, c.ended, EndedHasOutcome(c), Finalize(c)
  PROVE  store' \in GoodSession /\ posted' \in Seq(CallOutcome)
<1>1. c.outcome \in CallOutcome
  BY DEF EndedHasOutcome, Session
<1>2. store \in GoodSession /\ posted \in Seq(CallOutcome)
  BY DEF Typed
<1>3. \/ store' = store /\ posted' = posted
      \/ store' = NoSession /\ posted' = Append(posted, c.outcome)
  BY DEF Finalize
<1>4. QED BY <1>1, <1>2, <1>3, GoodDefaults

LEMMA CopyIsGood ==
  ASSUME Typed, NEW r \in Replica, request[r].stage \notin {"idle", "reading"}
  PROVE  /\ request[r].copy \in Session /\ EndedHasOutcome(request[r].copy)
         /\ request[r].event \in GoodEvent
BY DEF Typed, GoodRequest

LEMMA SaveTo ==
  ASSUME Typed, NEW r \in Replica, request[r].stage \in {"marked", "reasoning"},
         request[r].event.type \in TurnType,
         NEW result, ResultOf(request[r].copy, result), Save(r, result)
  PROVE  /\ request' = [request EXCEPT ![r] =
                          [stage |-> "commanding", event |-> request[r].event,
                           copy |-> result.session, command |-> result.command]]
         /\ request' \in [Replica -> GoodRequest]
         /\ store' \in GoodSession
         /\ result.session \in Session
         /\ store' = IF result.command \in MediaContext THEN result.session ELSE store
<1>1. request[r].copy \in Session /\ EndedHasOutcome(request[r].copy)
  BY CopyIsGood
<1>2. result.session \in Session /\ result.command \in Command
  BY DEF ResultOf
<1>3. EndedHasOutcome(result.session)
  BY <1>1 DEF ResultOf, SameEnd, EndedHasOutcome
<1>4. Goes(r, "commanding", result.session, result.command)
  BY DEF Save
<1>5. /\ request' = [request EXCEPT ![r] =
                       [stage |-> "commanding", event |-> request[r].event,
                        copy |-> result.session, command |-> result.command]]
      /\ request' \in [Replica -> GoodRequest]
  BY <1>2, <1>3, <1>4, GoesTo
<1>6. store' = IF result.command \in MediaContext THEN result.session ELSE store
  BY DEF Save
<1>7. store' \in GoodSession
  BY <1>2, <1>3, <1>6 DEF GoodSession, MaybeSession, Typed
<1>8. QED BY <1>2, <1>5, <1>6, <1>7

LEMMA ConverseSaves ==
  ASSUME Typed, NEW r \in Replica, Converse(r)
  PROVE  /\ request[r].stage = "marked" /\ request[r].event.type \in TurnType
         /\ Save(r, Result(r)) /\ ResultOf(request[r].copy, Result(r))
         /\ SameIds(request[r].copy, Result(r).session)
<1>1. request[r].stage = "marked" /\ request[r].event.type \in TurnType /\ Save(r, Result(r))
  BY DEF Converse, At, Webhook
<1>2. request[r].copy \in Session /\ request[r].event.type # "RecognizeCompleted"
  BY <1>1 DEF Typed, GoodRequest
<1>3. Result(r) \in {OnCallConnected(request[r].copy), OnRecognizeFailed(request[r].copy),
                     OnPlayCompleted(request[r].copy, request[r].event.info)}
  BY <1>1, <1>2 DEF Result, TurnType, Webhook, Copy
<1>4. QED
  BY <1>1, <1>2, <1>3, CallConnectedResult, PlayCompletedResult, RecognizeFailedResult,
     HandlersKeepIds

LEMMA AgentSaves ==
  ASSUME Typed, NEW r \in Replica, NEW response \in Response, AgentAnswers(r, response)
  PROVE  LET result == OnAgentResponse(request[r].copy, response) IN
         /\ request[r].stage = "reasoning" /\ request[r].event.type \in TurnType
         /\ Save(r, result) /\ ResultOf(request[r].copy, result)
         /\ SameIds(request[r].copy, result.session)
<1>1. request[r].stage = "reasoning" /\ Save(r, OnAgentResponse(request[r].copy, response))
  BY DEF AgentAnswers, At, Copy
<1>2. request[r].copy \in Session /\ request[r].event.type \in TurnType
  BY <1>1 DEF Typed, GoodRequest
<1>3. response \in AgentResponse
  BY SharedCallAssumption
<1>4. QED BY <1>1, <1>2, <1>3, AgentResponseResult, HandlersKeepIds

LEMMA MarkTo ==
  ASSUME Typed, NEW r \in Replica, Mark(r)
  PROVE  LET marked == MarkProcessed(request[r].copy, request[r].event)
             stage == IF request[r].event.type = "RecognizeCompleted" THEN "reasoning" ELSE "marked"
         IN /\ request' = [request EXCEPT ![r] = [stage |-> stage, event |-> request[r].event,
                                                  copy |-> marked, command |-> None]]
            /\ request' \in [Replica -> GoodRequest]
            /\ request[r].copy \in Session /\ marked \in Session
            /\ request[r].event \in GoodEvent
            /\ store' = marked /\ store' \in GoodSession
            /\ SameEnd(request[r].copy, marked)
<1> DEFINE marked == MarkProcessed(request[r].copy, request[r].event)
           stage == IF request[r].event.type = "RecognizeCompleted" THEN "reasoning" ELSE "marked"
<1>1. /\ request[r].copy \in Session /\ request[r].event \in GoodEvent
      /\ EndedHasOutcome(request[r].copy) /\ request[r].stage = "reading"
  BY DEF Mark, At, Copy, Typed, GoodRequest, RequestRecord, MaybeSession
<1>2. marked \in Session /\ SameEnd(request[r].copy, marked)
  BY <1>1, MarkProcessedType, SharedCallAssumption DEF GoodEvent
<1>3. EndedHasOutcome(marked)
  BY <1>1, <1>2 DEF EndedHasOutcome, SameEnd
<1>4. Goes(r, stage, marked, None) /\ store' = marked
  BY DEF Mark, Webhook, Copy
<1>5. None \in Command
  BY DEF Command
<1>6. /\ stage \in {"marked", "reasoning"}
      /\ stage = "marked" => request[r].event.type # "RecognizeCompleted"
      /\ stage \in {"reasoning", "commanding"} => request[r].event.type \in TurnType
  BY DEF TurnType
<1> HIDE DEF marked, stage
<1>7. /\ request' = [request EXCEPT ![r] = [stage |-> stage, event |-> request[r].event,
                                            copy |-> marked, command |-> None]]
      /\ request' \in [Replica -> GoodRequest]
  BY <1>1, <1>2, <1>3, <1>4, <1>5, <1>6, GoesTo
<1>8. store' \in GoodSession
  BY <1>2, <1>3, <1>4 DEF GoodSession, MaybeSession
<1>9. QED BY <1>1, <1>2, <1>4, <1>7, <1>8 DEF marked, stage

LEMMA DisconnectTo ==
  ASSUME NEW s \in Session
  PROVE  /\ OnCallDisconnected(s) \in Session /\ OnCallDisconnected(s).ended
         /\ OnCallDisconnected(s).outcome \in CallOutcome
         /\ EndedHasOutcome(OnCallDisconnected(s))
         /\ OnCallDisconnected(s).processed_event_ids = s.processed_event_ids
         /\ OnCallDisconnected(s).current_step = s.current_step
<1> DEFINE o == IF s.outcome = None THEN "no_answer" ELSE s.outcome
           d == [s EXCEPT !.ended = TRUE, !.outcome = o]
<1>1. o \in CallOutcome /\ o # None
  BY DEF Session, CallOutcome, None
<1>2. OnCallDisconnected(s) = d
  BY DEF OnCallDisconnected, Session
<1> HIDE DEF o
<1>3. /\ d \in Session /\ d.ended /\ d.outcome = o
      /\ d.processed_event_ids = s.processed_event_ids /\ d.current_step = s.current_step
  BY <1>1 DEF Session
<1> HIDE DEF d
<1>4. QED BY <1>1, <1>2, <1>3 DEF EndedHasOutcome

LEMMA RecordingFileTo ==
  ASSUME NEW s \in Session, NEW info
  PROVE  /\ OnRecordingFile(s, info) \in Session
         /\ OnRecordingFile(s, info).ended = s.ended
         /\ OnRecordingFile(s, info).outcome = s.outcome
         /\ OnRecordingFile(s, info).processed_event_ids = s.processed_event_ids
         /\ OnRecordingFile(s, info).current_step = s.current_step
<1> DEFINE u == s.recording_url \/ info = "url"
           d == [s EXCEPT !.recording_id = TRUE, !.recording_url = u]
<1>1. u \in BOOLEAN
  OBVIOUS
<1>2. OnRecordingFile(s, info) = d
  BY DEF OnRecordingFile, Session
<1> HIDE DEF u
<1>3. /\ d \in Session /\ d.ended = s.ended /\ d.outcome = s.outcome
      /\ d.processed_event_ids = s.processed_event_ids /\ d.current_step = s.current_step
  BY <1>1 DEF Session
<1> HIDE DEF d
<1>4. QED BY <1>2, <1>3

(***************************************************************************)
(* The type invariant is inductive, one group of actions at a time.        *)
(***************************************************************************)
LEMMA AcsKeepsTypes ==
  ASSUME Typed, \/ Register \/ InitiateCall \/ PlaceCallFails \/ Answer \/ LineDrops \/ RecordingReports
                \/ \E o \in ops : MediaCompletes(o)
  PROVE  Typed'
<1>1. CASE Register
  <2>1. NewSession \in GoodSession
    BY SessionOrNot DEF GoodSession, MaybeSession, EndedHasOutcome
  <2>2. QED BY <1>1, <2>1 DEF Register, Typed, AcsTyped, acs
<1>2. CASE InitiateCall
  BY <1>2 DEF InitiateCall, Typed, AcsTyped, NotAcs, shared
<1>3. CASE Answer
  BY <1>3, GoodEvents DEF Answer, Typed, AcsTyped, NotAcs, shared
<1>4. CASE LineDrops
  BY <1>4, GoodEvents DEF LineDrops, Typed, AcsTyped, NotAcs, shared
<1>5. CASE RecordingReports
  <2>1. MaxReports \in Nat /\ reports \in 0..MaxReports
    BY SharedCallAssumption DEF Typed, AcsTyped
  <2>2. reports' \in 0..MaxReports /\ reports' \in Nat
    BY <1>5, <2>1 DEF RecordingReports
  <2>3. owed' \in SUBSET GoodEvent
    BY <1>5, <2>2, GoodEvents DEF RecordingReports, Typed, AcsTyped
  <2>4. QED BY <1>5, <2>2, <2>3 DEF RecordingReports, Typed, AcsTyped, NotAcs, shared
<1>6. ASSUME NEW o \in ops, MediaCompletes(o) PROVE Typed'
  <2>1. o \in [id : 1..MaxOps, context : MediaContext]
    BY DEF Typed, AcsTyped
  <2>2. CompletionEvents(o) \subseteq GoodEvent
    BY <2>1, GoodEvents
  <2>3. owed' \in SUBSET GoodEvent
    BY <1>6, <2>2 DEF MediaCompletes, Typed, AcsTyped
  <2>4. QED BY <1>6, <2>3 DEF MediaCompletes, Typed, AcsTyped, NotAcs, shared
<1>7. CASE PlaceCallFails
  <2>1. "failed" \in CallOutcome
    BY DEF CallOutcome
  <2>2. QED BY <1>7, <2>1 DEF PlaceCallFails, Typed, AcsTyped
<1>8. QED BY <1>1, <1>2, <1>3, <1>4, <1>5, <1>6, <1>7

LEMMA ReadingRequest ==
  ASSUME NEW e, NEW s
  PROVE  [Idle EXCEPT !.stage = "reading", !.event = e, !.copy = s]
           = [stage |-> "reading", event |-> e, copy |-> s, command |-> None]
<1> DEFINE q1 == [Idle EXCEPT !.stage = "reading"]
           q2 == [q1 EXCEPT !.event = e]
<1>1. q1 = [stage |-> "reading", event |-> NoEvent, copy |-> NoSession, command |-> None]
  BY DEF Idle
<1> HIDE DEF q1
<1>2. q2 = [stage |-> "reading", event |-> e, copy |-> NoSession, command |-> None]
  BY <1>1
<1> HIDE DEF q2
<1>3. [q2 EXCEPT !.copy = s] = [stage |-> "reading", event |-> e, copy |-> s, command |-> None]
  BY <1>2
<1>4. QED BY <1>3 DEF q1, q2

LEMMA DeliveryKeepsTypes ==
  ASSUME Typed, NEW r \in Replica, NEW e \in owed, Deliver(r, e)
  PROVE  Typed'
<1> DEFINE q == [Idle EXCEPT !.stage = "reading", !.event = e, !.copy = store]
<1>1. q = [stage |-> "reading", event |-> e, copy |-> store, command |-> None]
  BY ReadingRequest
<1>2. e \in GoodEvent /\ store \in GoodSession /\ None \in Command
  BY DEF Typed, AcsTyped, Command
<1>3. q \in GoodRequest
  BY <1>1, <1>2 DEF GoodRequest, RequestRecord, GoodEvent, GoodSession
<1> HIDE DEF q
<1>4. request' \in [Replica -> GoodRequest]
  BY <1>3 DEF Deliver, Typed, q
<1>5. dups' \in 0..MaxFaults
  <2>1. MaxFaults \in Nat /\ dups \in 0..MaxFaults /\ stops \in 0..MaxFaults
    BY SharedCallAssumption DEF Typed, AcsTyped
  <2>2. dups' = dups \/ (dups + stops < MaxFaults /\ dups' = dups + 1)
    BY DEF Deliver
  <2>3. QED BY <2>1, <2>2
<1>6. QED BY <1>4, <1>5 DEF Deliver, Typed, AcsTyped, shared

LEMMA ConversationKeepsTypes ==
  ASSUME Typed, NEW r \in Replica,
         \/ Ignore(r) \/ Mark(r) \/ Converse(r) \/ SendCommand(r)
         \/ \E response \in Response : AgentAnswers(r, response)
  PROVE  Typed'
<1>1. CASE Ignore(r)
  <2>1. /\ request' \in [Replica -> GoodRequest]
        /\ owed' \in SUBSET GoodEvent /\ dups' \in 0..MaxFaults
    BY <1>1, ReturnsTo DEF Ignore
  <2>2. QED BY <1>1, <2>1 DEF Ignore, Typed, AcsTyped, shared
<1>2. CASE Mark(r)
  <2>1. request' \in [Replica -> GoodRequest] /\ store' \in GoodSession
    BY <1>2, MarkTo
  <2>2. QED BY <1>2, <2>1 DEF Mark, Typed, AcsTyped, acs
<1>3. CASE Converse(r)
  <2>2. request' \in [Replica -> GoodRequest] /\ store' \in GoodSession
    BY <1>3, ConverseSaves, SaveTo
  <2>3. starting' \in [Replica -> Nat]
    BY <1>3 DEF Converse, BeginsRecording, Typed
  <2>4. QED BY <1>3, <2>2, <2>3 DEF Converse, Typed, AcsTyped, acs
<1>4. ASSUME NEW response \in Response, AgentAnswers(r, response) PROVE Typed'
  <2>4. request' \in [Replica -> GoodRequest] /\ store' \in GoodSession
    BY <1>4, AgentSaves, SaveTo
  <2>5. QED BY <1>4, <2>4 DEF AgentAnswers, Typed, AcsTyped, acs
<1>5. CASE SendCommand(r)
  <2>1. (IF line' # line THEN {Disconnected} ELSE {}) \in SUBSET GoodEvent
    BY GoodEvents
  <2>2. /\ request' \in [Replica -> GoodRequest]
        /\ owed' \in SUBSET GoodEvent /\ dups' \in 0..MaxFaults
    BY <1>5, <2>1, ReturnsTo DEF SendCommand, EndTurn
  <2>3. request[r].copy.current_step \in StepId
    BY <1>5, CopyIsGood DEF SendCommand, At, Session
  <2>4. /\ ops' \in SUBSET [id : 1..MaxOps, context : MediaContext]
        /\ saidAt' \in Seq(StepId) /\ opCount' = Len(saidAt') /\ opCount' <= MaxOps
    <3>1. MaxOps \in Nat /\ opCount \in Nat
      <4>1. MaxOps \in Nat
        BY SharedCallAssumption
      <4>2. saidAt \in Seq(StepId) /\ opCount = Len(saidAt)
        BY DEF Typed, AcsTyped
      <4>3. QED BY <4>1, <4>2
    <3>2. CASE request[r].command \in MediaContext /\ line = "up" /\ opCount < MaxOps
      <4>1. /\ ops' = ops \cup {[id |-> opCount + 1, context |-> request[r].command]}
            /\ opCount' = opCount + 1
            /\ saidAt' = Append(saidAt, request[r].copy.current_step)
        BY <1>5, <3>2 DEF SendCommand, Operate, Copy
      <4>2. opCount + 1 \in 1..MaxOps
        BY <3>1, <3>2
      <4>3. saidAt' \in Seq(StepId) /\ Len(saidAt') = Len(saidAt) + 1
        BY <2>3, <4>1 DEF Typed, AcsTyped
      <4>4. QED BY <3>1, <3>2, <4>1, <4>2, <4>3 DEF Typed, AcsTyped
    <3>3. CASE ~(request[r].command \in MediaContext /\ line = "up" /\ opCount < MaxOps)
      BY <1>5, <3>3 DEF SendCommand, Operate, Typed, AcsTyped
    <3>4. QED BY <3>2, <3>3
  <2>5. line' \in {"idle", "ringing", "up", "down", "failed"}
    BY <1>5 DEF SendCommand, EndTurn, Typed, AcsTyped
  <2>6. QED BY <1>5, <2>2, <2>4, <2>5 DEF SendCommand, Typed, AcsTyped, shared
<1>6. QED BY <1>1, <1>2, <1>3, <1>4, <1>5

LEMMA EndingKeepsTypes ==
  ASSUME Typed, NEW r \in Replica, RecordDisconnect(r) \/ CloseDisconnect(r) \/ RecordingFile(r)
  PROVE  Typed'
<1>0. {} \in SUBSET GoodEvent
  OBVIOUS
<1>1. CASE RecordDisconnect(r)
  <2>1. request[r].copy \in Session /\ request[r].stage = "marked"
    BY <1>1, CopyIsGood DEF RecordDisconnect, At
  <2>2. CASE request[r].copy.ended
    <3>1. Returns(r, {}) /\ recorded' = recorded
      BY <1>1, <2>2 DEF RecordDisconnect, Copy
    <3>2. /\ request' \in [Replica -> GoodRequest]
          /\ owed' \in SUBSET GoodEvent /\ dups' \in 0..MaxFaults
      BY <1>0, <3>1, ReturnsTo
    <3>3. QED BY <1>1, <3>1, <3>2 DEF RecordDisconnect, Typed, AcsTyped
  <2>3. CASE ~request[r].copy.ended
    <3> DEFINE s == OnCallDisconnected(request[r].copy)
    <3>1. /\ recorded' = Append(recorded, s.outcome) /\ Goes(r, "closing", s, None)
          /\ owed' = owed /\ dups' = dups
      BY <1>1, <2>3 DEF RecordDisconnect, Copy
    <3>2. s \in Session /\ s.ended /\ s.outcome \in CallOutcome /\ EndedHasOutcome(s)
      BY <2>1, DisconnectTo
    <3> HIDE DEF s
    <3>3. None \in Command
      BY DEF Command
    <3>4. request' \in [Replica -> GoodRequest]
      BY <2>1, <3>1, <3>2, <3>3, GoesTo
    <3>5. recorded' \in Seq(CallOutcome)
      BY <3>1, <3>2 DEF Typed
    <3>6. QED BY <1>1, <3>1, <3>4, <3>5 DEF RecordDisconnect, Typed, AcsTyped
  <2>4. QED BY <2>2, <2>3
<1>2. CASE CloseDisconnect(r)
  <2>1. /\ request[r].copy \in Session /\ request[r].copy.ended
        /\ EndedHasOutcome(request[r].copy)
    BY <1>2, CopyIsGood DEF CloseDisconnect, At, Typed, GoodRequest
  <2>2. store' \in GoodSession /\ posted' \in Seq(CallOutcome)
    <3>1. CASE AwaitsRecordingUrl(Copy(r))
      BY <1>2, <2>1, <3>1 DEF CloseDisconnect, Copy, GoodSession, MaybeSession, Typed
    <3>2. CASE ~AwaitsRecordingUrl(Copy(r))
      BY <1>2, <2>1, <3>2, FinalizeTo DEF CloseDisconnect, Copy
    <3>3. QED BY <3>1, <3>2
  <2>3. timer' \in [Replica -> BOOLEAN]
    <3>1. request[r].copy.completion_logged \in BOOLEAN
      BY <2>1 DEF Session
    <3>2. timer \in [Replica -> BOOLEAN]
      BY DEF Typed
    <3>3. (timer[r] /\ request[r].copy.completion_logged) \in BOOLEAN
      OBVIOUS
    <3>4. \/ timer' = [timer EXCEPT ![r] = TRUE]
          \/ timer' = [timer EXCEPT ![r] = timer[r] /\ request[r].copy.completion_logged]
      BY <1>2, <3>2 DEF CloseDisconnect, Copy
    <3>5. QED BY <3>2, <3>3, <3>4
  <2>4. /\ request' \in [Replica -> GoodRequest]
        /\ owed' \in SUBSET GoodEvent /\ dups' \in 0..MaxFaults
    BY <1>0, <1>2, ReturnsTo DEF CloseDisconnect
  <2>5. QED BY <1>2, <2>2, <2>3, <2>4 DEF CloseDisconnect, Typed, AcsTyped
<1>3. CASE RecordingFile(r)
  <2> DEFINE s == OnRecordingFile(request[r].copy, request[r].event.info)
  <2>1. request[r].copy \in Session /\ EndedHasOutcome(request[r].copy)
    BY <1>3, CopyIsGood DEF RecordingFile, At
  <2>2. s \in Session /\ EndedHasOutcome(s)
    BY <2>1, RecordingFileTo DEF EndedHasOutcome
  <2>3. IF request[r].event.info = "url" /\ s.ended
        THEN Finalize(s) /\ timer' = [timer EXCEPT ![r] = @ /\ s.completion_logged]
        ELSE store' = s /\ UNCHANGED <<posted, timer>>
    BY <1>3 DEF RecordingFile, Copy, Webhook
  <2> HIDE DEF s
  <2>4. store' \in GoodSession /\ posted' \in Seq(CallOutcome)
    <3>1. CASE request[r].event.info = "url" /\ s.ended
      BY <2>2, <2>3, <3>1, FinalizeTo
    <3>2. CASE ~(request[r].event.info = "url" /\ s.ended)
      BY <2>2, <2>3, <3>2 DEF GoodSession, MaybeSession, Typed
    <3>3. QED BY <3>1, <3>2
  <2>5. timer' \in [Replica -> BOOLEAN]
    <3>1. timer \in [Replica -> BOOLEAN]
      BY DEF Typed
    <3>2. (timer[r] /\ s.completion_logged) \in BOOLEAN
      OBVIOUS
    <3>3. timer' = timer \/ timer' = [timer EXCEPT ![r] = timer[r] /\ s.completion_logged]
      BY <2>3, <3>1
    <3>4. QED BY <3>1, <3>2, <3>3
  <2>6. /\ request' \in [Replica -> GoodRequest]
        /\ owed' \in SUBSET GoodEvent /\ dups' \in 0..MaxFaults
    BY <1>0, <1>3, ReturnsTo DEF RecordingFile
  <2>7. QED BY <1>3, <2>4, <2>5, <2>6 DEF RecordingFile, Typed, AcsTyped
<1>4. QED BY <1>1, <1>2, <1>3

\* A background task takes a copy of what is stored.
LEMMA TaskTakes ==
  ASSUME Typed, NEW r \in Replica, NEW kind \in {"save_recording", "finalize"},
         store # NoSession, kind = "finalize" => store.ended,
         task' = [task EXCEPT ![r] = [kind |-> kind, copy |-> store]]
  PROVE  task' \in [Replica -> GoodTask]
<1> DEFINE t == [kind |-> kind, copy |-> store]
<1>1. store \in Session /\ EndedHasOutcome(store)
  BY DEF Typed, GoodSession, MaybeSession
<1>2. t \in GoodTask
  BY <1>1 DEF GoodTask, MaybeSession
<1> HIDE DEF t
<1>3. QED BY <1>2 DEF Typed, t

LEMMA TasksKeepTypes ==
  ASSUME Typed, NEW r \in Replica, \/ RecordingStarts(r) \/ SaveRecording(r) \/ TimerFires(r)
                                   \/ FinalizeLate(r) \/ Stop(r)
  PROVE  Typed'
<1>1. CASE RecordingStarts(r)
  <2>1. starting[r] > 0 /\ starting \in [Replica -> Nat] /\ recordings \in Nat
    BY <1>1 DEF RecordingStarts, Typed, AcsTyped
  <2>2. starting' \in [Replica -> Nat]
    BY <1>1, <2>1 DEF RecordingStarts
  <2>3. recordings' \in Nat
    BY <1>1, <2>1 DEF RecordingStarts
  <2>4. \/ task' = task
        \/ store # NoSession /\ task' = [task EXCEPT ![r] = [kind |-> "save_recording", copy |-> store]]
    BY <1>1 DEF RecordingStarts
  <2>5. task' \in [Replica -> GoodTask]
    BY <2>4, TaskTakes DEF Typed
  <2>6. QED BY <1>1, <2>2, <2>3, <2>5 DEF RecordingStarts, Typed, AcsTyped, shared
<1>2. CASE SaveRecording(r)
  <2> DEFINE s == [task[r].copy EXCEPT !.recording_id = TRUE]
  <2>1. task[r].copy \in Session /\ EndedHasOutcome(task[r].copy)
    BY <1>2 DEF SaveRecording, Typed, GoodTask, NoTask, None
  <2>2. s \in Session /\ EndedHasOutcome(s)
    BY <2>1 DEF Session, EndedHasOutcome
  <2>3. store' = s
    BY <1>2 DEF SaveRecording
  <2> HIDE DEF s
  <2>4. store' \in GoodSession
    BY <2>2, <2>3 DEF GoodSession, MaybeSession
  <2>5. task' \in [Replica -> GoodTask]
    BY <1>2, GoodDefaults DEF SaveRecording, Typed
  <2>6. QED BY <1>2, <2>4, <2>5 DEF SaveRecording, Typed, AcsTyped, acs
<1>3. CASE TimerFires(r)
  <2>1. \/ task' = task
        \/ store # NoSession /\ store.ended
           /\ task' = [task EXCEPT ![r] = [kind |-> "finalize", copy |-> store]]
    BY <1>3 DEF TimerFires
  <2>2. task' \in [Replica -> GoodTask]
    BY <2>1, TaskTakes DEF Typed
  <2>3. timer' \in [Replica -> BOOLEAN]
    BY <1>3 DEF TimerFires, Typed
  <2>4. QED BY <1>3, <2>2, <2>3 DEF TimerFires, Typed, AcsTyped, acs, shared
<1>4. CASE FinalizeLate(r)
  <2>1. task[r].copy \in Session /\ task[r].copy.ended /\ EndedHasOutcome(task[r].copy)
    BY <1>4 DEF FinalizeLate, Typed, GoodTask, NoTask, None
  <2>2. store' \in GoodSession /\ posted' \in Seq(CallOutcome)
    BY <1>4, <2>1, FinalizeTo DEF FinalizeLate
  <2>3. task' \in [Replica -> GoodTask]
    BY <1>4, GoodDefaults DEF FinalizeLate, Typed
  <2>4. QED BY <1>4, <2>2, <2>3 DEF FinalizeLate, Typed, AcsTyped, acs
<1>5. CASE Stop(r)
  <2>1. MaxFaults \in Nat /\ dups \in 0..MaxFaults /\ stops \in 0..MaxFaults
    BY SharedCallAssumption DEF Typed, AcsTyped
  <2>2. stops' \in 0..MaxFaults
    BY <1>5, <2>1 DEF Stop
  <2>3. /\ request' \in [Replica -> GoodRequest] /\ task' \in [Replica -> GoodTask]
        /\ timer' \in [Replica -> BOOLEAN] /\ starting' \in [Replica -> Nat]
    BY <1>5, GoodDefaults DEF Stop, Typed
  <2>4. QED BY <1>5, <2>2, <2>3 DEF Stop, Typed, AcsTyped, acs, shared
<1>6. QED BY <1>1, <1>2, <1>3, <1>4, <1>5

LEMMA NextTyped == Typed /\ [Next]_vars => Typed'
<1> SUFFICES ASSUME Typed, [Next]_vars PROVE Typed'
  OBVIOUS
<1>1. CASE UNCHANGED vars
  BY <1>1 DEF vars, shared, acs, Typed, AcsTyped
<1>2. ASSUME NEW r \in Replica, RequestStep(r) PROVE Typed'
  BY <1>2, ConversationKeepsTypes, EndingKeepsTypes DEF RequestStep, Reply
<1>3. ASSUME NEW r \in Replica, TaskStep(r) \/ RecordingStarts(r) \/ TimerFires(r) \/ Stop(r)
      PROVE  Typed'
  BY <1>3, TasksKeepTypes DEF TaskStep
<1>4. CASE \/ Register \/ InitiateCall \/ PlaceCallFails \/ Answer \/ LineDrops \/ RecordingReports
           \/ \E o \in ops : MediaCompletes(o)
  BY <1>4, AcsKeepsTypes
<1>5. CASE Delivery
  BY <1>5, DeliveryKeepsTypes DEF Delivery
<1>6. QED BY <1>1, <1>2, <1>3, <1>4, <1>5 DEF Next

LEMMA InitTyped == Init => Typed
<1> SUFFICES ASSUME Init PROVE Typed
  OBVIOUS
<1>1. AcsTyped
  <2>1. MaxOps \in Nat /\ MaxReports \in Nat /\ MaxFaults \in Nat
    BY SharedCallAssumption
  <2>2. saidAt \in Seq(StepId) /\ opCount = Len(saidAt) /\ opCount <= MaxOps
    BY <2>1 DEF Init
  <2>3. QED BY <2>1, <2>2 DEF Init, AcsTyped
<1>2. QED BY <1>1, GoodDefaults DEF Init, Typed

(***************************************************************************)
(* Every variable keeps its type, overlapping copies or not: in particular *)
(* what is recorded and posted is an outcome, never a missing one.         *)
(***************************************************************************)
THEOREM TypedInvariance == Spec => []Typed
BY InitTyped, NextTyped, PTL DEF Spec

\* TypeOK of SharedCall, for every SOP, any replicas and faults in any number.
THEOREM SharedTypes == Spec => []TypeOK
BY TypedInvariance, TypedIsTypeOK, PTL

-----------------------------------------------------------------------------
(* No two copies that may still be stored are in use at one time.  Takes   *)
(* gives that where Overlap is false; what follows from it holds with      *)
(* Overlap too, in every run in which copies happen not to overlap.        *)

Alone == InUse(request, task) <= 1

Sole(req, tsk) ==
  /\ \A r, q \in Replica : MayStore(req[r]) /\ MayStore(req[q]) => r = q
  /\ \A r, q \in Replica : tsk[r] # NoTask /\ tsk[q] # NoTask => r = q
  /\ \A r, q \in Replica : MayStore(req[r]) => tsk[q] = NoTask

LEMMA AtMostOneElement ==
  ASSUME NEW S, IsFiniteSet(S), Cardinality(S) <= 1, NEW x \in S, NEW y \in S
  PROVE  x = y
<1> SUFFICES ASSUME x # y PROVE FALSE
  OBVIOUS
<1>1. {x, y} \subseteq S
  OBVIOUS
<1>2. IsFiniteSet({x, y}) /\ Cardinality({x, y}) <= Cardinality(S)
  BY <1>1, FS_Subset
<1>3. Cardinality({x}) = 1 /\ IsFiniteSet({x})
  BY FS_Singleton
<1>4. Cardinality({x} \cup {y}) = Cardinality({x}) + 1
  BY <1>3, FS_AddElement
<1>5. {x} \cup {y} = {x, y}
  OBVIOUS
<1>6. Cardinality(S) \in Nat
  BY FS_CardinalityType
<1>7. QED BY <1>2, <1>3, <1>4, <1>5, <1>6

LEMMA OneIsSole ==
  ASSUME NEW req, NEW tsk, InUse(req, tsk) <= 1
  PROVE  Sole(req, tsk)
<1> DEFINE A == {r \in Replica : MayStore(req[r])}
           B == {r \in Replica : tsk[r] # NoTask}
<1>1. IsFiniteSet(A) /\ IsFiniteSet(B)
  BY SharedCallAssumption, FS_Subset
<1>2. Cardinality(A) \in Nat /\ Cardinality(B) \in Nat
  BY <1>1, FS_CardinalityType
<1>3. Cardinality(A) + Cardinality(B) <= 1
  BY DEF InUse
<1>4. Cardinality(A) <= 1 /\ Cardinality(B) <= 1
  BY <1>2, <1>3
<1>5. A = {} \/ B = {}
  <2>1. Cardinality(A) = 0 \/ Cardinality(B) = 0
    BY <1>2, <1>3
  <2>2. QED BY <1>1, <2>1, FS_EmptySet
<1>6. \A r, q \in A : r = q
  BY <1>1, <1>4, AtMostOneElement
<1>7. \A r, q \in B : r = q
  BY <1>1, <1>4, AtMostOneElement
<1>8. QED BY <1>5, <1>6, <1>7 DEF Sole

LEMMA FewerInUse ==
  ASSUME NEW req, NEW tsk, NEW req2, NEW tsk2, InUse(req, tsk) <= 1,
         \A r \in Replica : MayStore(req2[r]) => MayStore(req[r]),
         \A r \in Replica : tsk2[r] # NoTask => tsk[r] # NoTask
  PROVE  InUse(req2, tsk2) <= 1
<1> DEFINE A == {r \in Replica : MayStore(req[r])}
           B == {r \in Replica : tsk[r] # NoTask}
           A2 == {r \in Replica : MayStore(req2[r])}
           B2 == {r \in Replica : tsk2[r] # NoTask}
<1>1. IsFiniteSet(A) /\ IsFiniteSet(B) /\ A2 \subseteq A /\ B2 \subseteq B
  BY SharedCallAssumption, FS_Subset
<1>2. Cardinality(A2) <= Cardinality(A) /\ IsFiniteSet(A2)
  BY <1>1, FS_Subset
<1>3. Cardinality(B2) <= Cardinality(B) /\ IsFiniteSet(B2)
  BY <1>1, FS_Subset
<1>4. /\ Cardinality(A) \in Nat /\ Cardinality(B) \in Nat
      /\ Cardinality(A2) \in Nat /\ Cardinality(B2) \in Nat
  BY <1>1, <1>2, <1>3, FS_CardinalityType
<1>5. Cardinality(A) + Cardinality(B) <= 1
  BY DEF InUse
<1>6. Cardinality(A2) + Cardinality(B2) <= 1
  BY <1>2, <1>3, <1>4, <1>5
<1>7. QED BY <1>6 DEF InUse

LEMMA NextAlone ==
  ASSUME ~Overlap, Typed, Alone, [Next]_vars
  PROVE  Alone'
<1> DEFINE Lessen == /\ \A r \in Replica : MayStore(request'[r]) => MayStore(request[r])
                     /\ \A r \in Replica : task'[r] # NoTask => task[r] # NoTask
<1>1. ASSUME Lessen PROVE Alone'
  BY <1>1, FewerInUse DEF Alone
<1>2. ~MayStore(Idle)
  BY DEF MayStore, Idle
<1>3. request \in [Replica -> GoodRequest] /\ task \in [Replica -> GoodTask]
  BY DEF Typed
<1>4. ASSUME NEW r \in Replica, NEW q, MayStore(request[r]) \/ ~MayStore(q),
             request' = [request EXCEPT ![r] = q], task' = task
      PROVE  Lessen
  BY <1>2, <1>3, <1>4
<1>5. ASSUME NEW r \in Replica, NEW raised, Returns(r, raised), task' = task PROVE Lessen
  BY <1>2, <1>4, <1>5 DEF Returns
<1>6. \A r \in Replica : request[r].stage \in {"marked", "reasoning", "closing"} => MayStore(request[r])
  BY CopyIsGood, SessionOrNot DEF MayStore
<1>7. ASSUME NEW r \in Replica, RequestStep(r) PROVE Lessen
  <2>1. CASE Ignore(r)
    BY <1>5, <2>1 DEF Ignore
  <2>2. CASE Mark(r)
    <3>1. MayStore(request[r])
      BY <2>2 DEF Mark, Copy, At, MayStore
    <3>2. task' = task
      BY <2>2 DEF Mark
    <3>3. QED BY <1>4, <2>2, <3>1, <3>2, MarkTo
  <2>3. CASE Converse(r)
    BY <1>4, <1>6, <2>3, ConverseSaves, SaveTo DEF Converse
  <2>4. ASSUME NEW response \in Response, AgentAnswers(r, response) PROVE Lessen
    BY <1>4, <1>6, <2>4, AgentSaves, SaveTo DEF AgentAnswers
  <2>5. CASE SendCommand(r)
    BY <1>5, <2>5 DEF SendCommand, EndTurn
  <2>6. CASE RecordDisconnect(r)
    <3>1. request[r].stage = "marked" /\ task' = task
      BY <2>6 DEF RecordDisconnect, At
    <3>2. CASE request[r].copy.ended
      BY <1>5, <2>6, <3>1, <3>2 DEF RecordDisconnect, Copy
    <3>3. CASE ~request[r].copy.ended
      <4>1. Goes(r, "closing", OnCallDisconnected(request[r].copy), None)
        BY <2>6, <3>3 DEF RecordDisconnect, Copy
      <4>2. \A x \in Replica : x # r => request'[x] = request[x]
        BY <1>3, <4>1 DEF Goes
      <4>3. QED BY <1>6, <3>1, <4>2
    <3>4. QED BY <3>2, <3>3
  <2>7. CASE CloseDisconnect(r)
    BY <1>5, <2>7 DEF CloseDisconnect
  <2>8. CASE RecordingFile(r)
    BY <1>5, <2>8 DEF RecordingFile
  <2>9. QED BY <1>7, <2>1, <2>2, <2>3, <2>4, <2>5, <2>6, <2>7, <2>8 DEF RequestStep, Reply
<1>8. ASSUME NEW r \in Replica, SaveRecording(r) \/ FinalizeLate(r) \/ Stop(r) PROVE Lessen
  BY <1>2, <1>3, <1>8 DEF SaveRecording, FinalizeLate, Stop
<1>9. ASSUME NEW r \in Replica, RecordingStarts(r) \/ TimerFires(r) PROVE Alone'
  BY <1>9 DEF RecordingStarts, TimerFires, Takes, Alone
<1>10. ASSUME NEW r \in Replica, NEW e, Deliver(r, e) PROVE Alone'
  BY <1>10 DEF Deliver, Takes, Alone
<1>11. CASE \/ Register \/ InitiateCall \/ PlaceCallFails \/ Answer \/ LineDrops \/ RecordingReports
            \/ UNCHANGED vars \/ \E o \in ops : MediaCompletes(o)
  <2>1. request' = request /\ task' = task
    BY <1>11 DEF Register, InitiateCall, PlaceCallFails, Answer, LineDrops, RecordingReports, MediaCompletes,
                 vars, NotAcs, shared
  <2>2. QED BY <2>1 DEF Alone
<1> HIDE DEF Lessen
<1>12. QED
  BY <1>1, <1>7, <1>8, <1>9, <1>10, <1>11 DEF Next, TaskStep, Delivery

LEMMA InitAlone == Init => Alone
<1> SUFFICES ASSUME Init PROVE Alone
  OBVIOUS
<1>1. {r \in Replica : MayStore(request[r])} = {} /\ {r \in Replica : task[r] # NoTask} = {}
  BY DEF Init, Idle, MayStore
<1>2. QED BY <1>1, FS_EmptySet DEF Alone, InUse

LEMMA AloneInvariance ==
  ASSUME ~Overlap PROVE Spec => []Alone
<1>1. ASSUME Typed, Alone, [Next]_vars PROVE Alone'
  BY <1>1, NextAlone
<1>2. QED BY <1>1, InitAlone, TypedInvariance, PTL DEF Spec

-----------------------------------------------------------------------------
(* Whoever works on the session holds what the store holds, although he    *)
(* holds a copy: as long as nobody else does, and as long as the session   *)
(* remembers all the events it has handled.                                *)

WindowOpen == Len(store.processed_event_ids) < MaxProcessed

IdsOf(s) == ToSet(s.processed_event_ids)

InStep(q, s) ==
  /\ MayStore(q) => s # NoSession
  /\ q.copy # NoSession /\ q.stage \in {"reading", "marked", "reasoning"} => q.copy = s
  /\ q.stage = "closing" => q.copy = OnCallDisconnected(s)
  /\ q.stage \in {"marked", "reasoning"} => q.event \in IdsOf(s)

Held == \A r \in Replica : InStep(request[r], store) /\ (task[r] # NoTask => task[r].copy = store)

\* A request that has nothing to store is in step with whatever is stored.
LEMMA Bystander ==
  ASSUME NEW q \in GoodRequest, ~MayStore(q), NEW s
  PROVE  InStep(q, s)
<1>1. q.copy = NoSession \/ q.stage = "commanding"
  BY DEF MayStore
<1>2. q.copy = NoSession => q.stage \in {"idle", "reading"}
  BY SessionOrNot DEF GoodRequest
<1>3. QED BY <1>1, <1>2 DEF InStep

LEMMA IdleInStep == \A s : InStep(Idle, s)
BY GoodDefaults, Bystander DEF Idle, MayStore

\* The one who holds the copy writes the store, and goes on.
LEMMA HolderWrites ==
  ASSUME Typed, Sole(request, task), Held, NEW r \in Replica, MayStore(request[r]),
         NEW q, request' = [request EXCEPT ![r] = q], task' = task, InStep(q, store')
  PROVE  Held'
<1>1. request \in [Replica -> GoodRequest]
  BY DEF Typed
<1>2. ASSUME NEW x \in Replica PROVE InStep(request'[x], store')
  <2>1. CASE x = r
    BY <1>1, <2>1
  <2>2. CASE x # r
    <3>1. request'[x] = request[x] /\ ~MayStore(request[x])
      BY <1>1, <2>2 DEF Sole
    <3>2. QED BY <1>1, <3>1, Bystander
  <2>3. QED BY <2>1, <2>2
<1>3. \A x \in Replica : task'[x] = NoTask
  BY DEF Sole
<1>4. QED BY <1>2, <1>3 DEF Held

\* A request goes on and the store stays as it is.
LEMMA StoreStays ==
  ASSUME Typed, Held, NEW r \in Replica, NEW q, request' = [request EXCEPT ![r] = q],
         task' = task, store' = store, InStep(q, store)
  PROVE  Held'
BY DEF Held, Typed

LEMMA Reader ==
  ASSUME Typed, Held, NEW r \in Replica, request[r].stage \in {"marked", "reasoning"}
  PROVE  /\ request[r].copy # NoSession /\ MayStore(request[r]) /\ request[r].copy = store /\ store \in Session
         /\ request[r].event \in IdsOf(store)
<1>1. request[r].copy \in Session /\ request[r].copy # NoSession
  BY CopyIsGood, SessionOrNot
<1>2. MayStore(request[r])
  BY <1>1 DEF MayStore
<1>3. QED BY <1>1, <1>2 DEF Held, InStep

LEMMA SaverHolds ==
  ASSUME Typed, Sole(request, task), Held, NEW r \in Replica,
         request[r].stage \in {"marked", "reasoning"}, request[r].event.type \in TurnType,
         NEW result, ResultOf(request[r].copy, result), Save(r, result), task' = task
  PROVE  Held'
<1> DEFINE q == [stage |-> "commanding", event |-> request[r].event,
                 copy |-> result.session, command |-> result.command]
<1>1. MayStore(request[r]) /\ store \in Session
  BY Reader
<1>2. /\ request' = [request EXCEPT ![r] = q] /\ result.session \in Session
      /\ store' = IF result.command \in MediaContext THEN result.session ELSE store
  BY SaveTo
<1>3. store' # NoSession
  BY <1>1, <1>2, SessionOrNot
<1>4. InStep(q, store')
  BY <1>2, <1>3 DEF InStep, MayStore
<1> HIDE DEF q
<1>5. QED BY <1>1, <1>2, <1>4, HolderWrites

LEMMA MarkRemembers ==
  ASSUME Typed, Held, WindowOpen', NEW r \in Replica, Mark(r)
  PROVE  /\ request[r].copy = store /\ store \in Session /\ store' \in Session
         /\ request[r].event \notin IdsOf(store)
         /\ IdsOf(store') = IdsOf(store) \cup {request[r].event}
         /\ store'.current_step = store.current_step
         /\ store'.ended = store.ended
<1>1. /\ request[r].copy \in Session /\ request[r].event \in Event
      /\ store' = MarkProcessed(request[r].copy, request[r].event) /\ store' \in Session
      /\ SameEnd(request[r].copy, store')
  BY MarkTo DEF GoodEvent
<1>2. request[r].copy = store
  BY <1>1, SessionOrNot DEF Mark, At, Held, InStep
<1>3. Len(MarkProcessed(request[r].copy, request[r].event).processed_event_ids) < MaxProcessed
  BY <1>1 DEF WindowOpen
<1>4. /\ IdsOf(store') = IdsOf(store) \cup {request[r].event}
      /\ store'.current_step = store.current_step
  BY <1>1, <1>2, <1>3, MarkingAddsId, SharedCallAssumption DEF IdsOf
<1>5. request[r].event \notin IdsOf(store)
  BY <1>2 DEF Mark, Seen, AlreadyProcessed, Copy, Webhook, IdsOf
<1>6. QED BY <1>1, <1>2, <1>4, <1>5 DEF SameEnd

LEMMA RequestHolds ==
  ASSUME Typed, Sole(request, task), Held, WindowOpen', NEW r \in Replica, RequestStep(r)
  PROVE  Held'
<1>1. CASE Ignore(r)
  BY <1>1, StoreStays, IdleInStep DEF Ignore, Returns, shared
<1>2. CASE Mark(r)
  <2> DEFINE stage == IF request[r].event.type = "RecognizeCompleted" THEN "reasoning" ELSE "marked"
             q == [stage |-> stage, event |-> request[r].event, copy |-> store', command |-> None]
  <2>1. request' = [request EXCEPT ![r] = q] /\ store' \in Session
    BY <1>2, MarkTo
  <2>2. MayStore(request[r]) /\ task' = task
    BY <1>2 DEF Mark, Copy, At, MayStore
  <2>3. request[r].event \in IdsOf(store')
    BY <1>2, MarkRemembers
  <2>4. InStep(q, store')
    BY <2>1, <2>3, SessionOrNot DEF InStep
  <2> HIDE DEF q
  <2>5. QED BY <2>1, <2>2, <2>4, HolderWrites
<1>3. CASE Converse(r)
  BY <1>3, ConverseSaves, SaverHolds DEF Converse
<1>4. ASSUME NEW response \in Response, AgentAnswers(r, response) PROVE Held'
  BY <1>4, AgentSaves, SaverHolds DEF AgentAnswers
<1>5. CASE SendCommand(r)
  BY <1>5, StoreStays, IdleInStep DEF SendCommand, EndTurn, Returns, shared
<1>6. CASE RecordDisconnect(r)
  <2>1. /\ request[r].stage = "marked" /\ task' = task /\ store' = store
        /\ request[r].copy = store /\ store \in Session
    BY <1>6, Reader DEF RecordDisconnect, At
  <2>2. CASE request[r].copy.ended
    BY <1>6, <2>1, <2>2, StoreStays, IdleInStep DEF RecordDisconnect, Returns, Copy
  <2>3. CASE ~request[r].copy.ended
    <3> DEFINE s == OnCallDisconnected(request[r].copy)
               q == [stage |-> "closing", event |-> request[r].event, copy |-> s, command |-> None]
    <3>1. Goes(r, "closing", s, None)
      BY <1>6, <2>3 DEF RecordDisconnect, Copy
    <3>2. s \in Session /\ s.ended /\ EndedHasOutcome(s) /\ s = OnCallDisconnected(store)
      BY <2>1, DisconnectTo
    <3> HIDE DEF s
    <3>3. request' = [request EXCEPT ![r] = q]
      BY <2>1, <3>1, <3>2, GoesTo DEF Command
    <3>4. InStep(q, store)
      BY <2>1, <3>2, SessionOrNot DEF InStep
    <3> HIDE DEF q
    <3>5. QED BY <2>1, <3>3, <3>4, StoreStays
  <2>4. QED BY <2>2, <2>3
<1>7. CASE CloseDisconnect(r) \/ RecordingFile(r)
  <2>1. MayStore(request[r]) /\ task' = task /\ Returns(r, {})
    BY <1>7, CopyIsGood, SessionOrNot DEF CloseDisconnect, RecordingFile, At, MayStore
  <2>2. QED BY <2>1, HolderWrites, IdleInStep DEF Returns
<1>8. QED BY <1>1, <1>2, <1>3, <1>4, <1>5, <1>6, <1>7 DEF RequestStep, Reply

LEMMA TasksHold ==
  ASSUME Typed, Sole(request, task), Held, NEW r \in Replica,
         \/ SaveRecording(r) \/ FinalizeLate(r) \/ RecordingStarts(r) \/ TimerFires(r) \/ Stop(r)
  PROVE  Held'
<1>1. request \in [Replica -> GoodRequest] /\ task \in [Replica -> GoodTask]
  BY DEF Typed
<1>2. CASE SaveRecording(r) \/ FinalizeLate(r)
  <2>1. task[r] # NoTask /\ request' = request /\ task' = [task EXCEPT ![r] = NoTask]
    BY <1>2 DEF SaveRecording, FinalizeLate, NoTask, None
  <2>2. \A x \in Replica : ~MayStore(request[x]) /\ task'[x] = NoTask
    BY <1>1, <2>1 DEF Sole
  <2>3. QED BY <1>1, <2>1, <2>2, Bystander DEF Held
<1>3. CASE RecordingStarts(r) \/ TimerFires(r)
  <2>1. request' = request /\ store' = store
    BY <1>3 DEF RecordingStarts, TimerFires, shared
  <2>2. \/ task' = task
        \/ task' = [task EXCEPT ![r] = [kind |-> "save_recording", copy |-> store]]
        \/ task' = [task EXCEPT ![r] = [kind |-> "finalize", copy |-> store]]
    BY <1>3 DEF RecordingStarts, TimerFires
  <2>3. \A x \in Replica : task'[x] # NoTask => task'[x].copy = store
    BY <1>1, <2>2 DEF Held
  <2>4. QED BY <2>1, <2>3 DEF Held
<1>4. CASE Stop(r)
  <2>1. /\ request' = [request EXCEPT ![r] = Idle] /\ task' = [task EXCEPT ![r] = NoTask]
        /\ store' = store
    BY <1>4 DEF Stop, shared
  <2>2. QED BY <1>1, <2>1, IdleInStep DEF Held
<1>5. QED BY <1>2, <1>3, <1>4

LEMMA NextHeld ==
  ASSUME Typed, Sole(request, task), Held, WindowOpen', [Next]_vars
  PROVE  Held'
<1>1. ASSUME NEW r \in Replica, NEW e, Deliver(r, e) PROVE Held'
  <2> DEFINE q == [stage |-> "reading", event |-> e, copy |-> store, command |-> None]
  <2>1. request' = [request EXCEPT ![r] = q] /\ task' = task /\ store' = store
    BY <1>1, ReadingRequest DEF Deliver, shared
  <2>2. InStep(q, store)
    BY DEF InStep, MayStore
  <2> HIDE DEF q
  <2>3. QED BY <2>1, <2>2, StoreStays
<1>2. CASE Register
  <2>1. store = NoSession /\ request' = request /\ task' = task
    BY <1>2 DEF Register
  <2>2. \A r \in Replica : request[r] \in GoodRequest /\ task[r] \in GoodTask
    BY DEF Typed
  <2>3. \A r \in Replica : ~MayStore(request[r])
    BY <2>1 DEF Held, InStep
  <2>4. \A r \in Replica : task[r] = NoTask
    BY <2>1, <2>2, SessionOrNot DEF Held, GoodTask
  <2>5. QED BY <2>1, <2>2, <2>3, <2>4, Bystander DEF Held
<1>3. CASE \/ InitiateCall \/ PlaceCallFails \/ Answer \/ LineDrops \/ RecordingReports
           \/ UNCHANGED vars \/ \E o \in ops : MediaCompletes(o)
  <2>1. request' = request /\ task' = task /\ store' = store
    BY <1>3 DEF InitiateCall, PlaceCallFails, Answer, LineDrops, RecordingReports, MediaCompletes,
                vars, NotAcs, shared
  <2>2. QED BY <2>1 DEF Held
<1>4. QED
  BY <1>1, <1>2, <1>3, RequestHolds, TasksHold DEF Next, TaskStep, Delivery

LEMMA InitHeld == Init => Held
BY IdleInStep DEF Init, Held

\* A sole copy is what the store holds, or what its handler has made of it.
THEOREM HeldInvariance == Spec /\ []Alone /\ []WindowOpen => []Held
<1>1. ASSUME Typed, Alone, Held, WindowOpen', [Next]_vars PROVE Held'
  BY <1>1, OneIsSole, NextHeld DEF Alone
<1>2. QED BY <1>1, InitHeld, TypedInvariance, PTL DEF Spec

-----------------------------------------------------------------------------
(* The invariant behind OnceIfAlone: what is recorded is known to the      *)
(* session that is stored, and what is posted has ended it.                *)

Silence ==
  /\ owed = {} /\ ops = {} /\ opCount = 0 /\ recordings = 0 /\ posted = << >>
  /\ \A r \in Replica :
       request[r] = Idle /\ task[r] = NoTask /\ ~timer[r] /\ starting[r] = 0

NothingYet == Silence /\ recorded = << >>

QuietBefore ==
  /\ line \in {"idle", "ringing"} => NothingYet
  /\ line = "failed" => Silence /\ Len(recorded) = 1

OnceInRequest(q, rec) ==
  /\ q.stage = "marked" /\ q.event = Disconnected => rec = << >>
  /\ q.stage = "closing" => rec # << >>

Ledger(s, rec, pos) ==
  /\ Len(rec) <= 1 /\ Len(pos) <= Len(rec)
  /\ s # NoSession => pos = << >>
  /\ s.ended => rec # << >>
  /\ rec # << >> => s = NoSession \/ Disconnected \in IdsOf(s)

Once ==
  /\ Ledger(store, recorded, posted)
  /\ \A r \in Replica : OnceInRequest(request[r], recorded)

OnceIfPlaced == line # "failed" => Once

LEMMA LineMoves ==
  ASSUME [Next]_vars
  PROVE  \/ line' = line \/ PlaceCallFails
         \/ line \in {"ringing", "up"} /\ line' \in {"up", "down"}
         \/ line = "idle" /\ line' = "ringing"
<1>1. ASSUME NEW r \in Replica, RequestStep(r) PROVE line' = line \/ (line = "up" /\ line' = "down")
  BY <1>1 DEF RequestStep, Reply, Ignore, Mark, Converse, SendCommand, EndTurn, AgentAnswers,
              RecordDisconnect, CloseDisconnect, RecordingFile, acs
<1>2. ASSUME NEW r \in Replica, TaskStep(r) \/ RecordingStarts(r) \/ TimerFires(r) \/ Stop(r)
      PROVE  line' = line
  BY <1>2 DEF TaskStep, SaveRecording, FinalizeLate, RecordingStarts, TimerFires, Stop, acs
<1>3. CASE UNCHANGED vars \/ Register \/ RecordingReports \/ Delivery
           \/ \E o \in ops : MediaCompletes(o)
  BY <1>3 DEF vars, Register, RecordingReports, MediaCompletes, Delivery, Deliver, acs
<1>4. CASE InitiateCall \/ Answer \/ LineDrops
  BY <1>4 DEF InitiateCall, Answer, LineDrops
<1>5. QED BY <1>1, <1>2, <1>3, <1>4 DEF Next

\* While nobody has anything to handle only the line and the store can change.
LEMMA NextSilent ==
  ASSUME Typed, Silence, [Next]_vars, ~PlaceCallFails,
         line \notin {"up", "down"}, line' \notin {"up", "down"}
  PROVE  Silence' /\ recorded' = recorded
<1>1. request \in [Replica -> GoodRequest] /\ task \in [Replica -> GoodTask]
  BY DEF Typed
<1>2. ASSUME NEW r \in Replica, RequestStep(r) PROVE FALSE
  <2>1. request[r] = Idle
    BY DEF Silence
  <2>2. request[r].stage # "idle"
    BY <1>2 DEF RequestStep, Reply, Ignore, Mark, Converse, SendCommand, AgentAnswers,
                RecordDisconnect, CloseDisconnect, RecordingFile, At
  <2>3. QED BY <2>1, <2>2 DEF Idle
<1>3. ASSUME NEW r \in Replica, TaskStep(r) PROVE FALSE
  <2>1. task[r].kind # None
    BY <1>3 DEF TaskStep, SaveRecording, FinalizeLate, None
  <2>2. QED BY <2>1 DEF Silence, NoTask
<1>4. ASSUME NEW r \in Replica, RecordingStarts(r) \/ TimerFires(r) PROVE FALSE
  BY <1>4 DEF RecordingStarts, TimerFires, Silence
<1>5. ASSUME NEW r \in Replica, Stop(r) PROVE Silence' /\ recorded' = recorded
  <2>1. timer \in [Replica -> BOOLEAN] /\ starting \in [Replica -> Nat]
    BY DEF Typed
  <2>2. UNCHANGED <<owed, ops, opCount, recordings, recorded, posted>>
    BY <1>5 DEF Stop, acs, shared
  <2>3. \A x \in Replica : request'[x] = Idle /\ task'[x] = NoTask
    BY <1>1, <1>5 DEF Stop, Silence
  <2>4. \A x \in Replica : ~timer'[x] /\ starting'[x] = 0
    BY <1>5, <2>1 DEF Stop, Silence
  <2>5. QED BY <2>2, <2>3, <2>4 DEF Silence
<1>6. CASE Register \/ InitiateCall \/ UNCHANGED vars
  BY <1>6 DEF Register, InitiateCall, vars, NotAcs, shared, acs, Silence
<1>7. CASE Answer \/ LineDrops \/ RecordingReports \/ \E o \in ops : MediaCompletes(o)
  BY <1>7 DEF Answer, LineDrops, RecordingReports, MediaCompletes, Silence
<1>8. CASE Delivery
  BY <1>8 DEF Delivery, Silence
<1>9. QED BY <1>2, <1>3, <1>4, <1>5, <1>6, <1>7, <1>8 DEF Next

LEMMA NextQuiet == Typed /\ QuietBefore /\ [Next]_vars => QuietBefore'
<1> SUFFICES ASSUME Typed, QuietBefore, [Next]_vars PROVE QuietBefore'
  OBVIOUS
<1>1. CASE PlaceCallFails
  <2>1. /\ line = "idle" /\ line' = "failed" /\ recorded' = Append(recorded, "failed")
        /\ UNCHANGED <<request, task, timer, starting, owed, ops, opCount, recordings, posted>>
    BY <1>1 DEF PlaceCallFails
  <2>2. Silence /\ recorded = << >>
    BY <2>1 DEF QuietBefore, NothingYet
  <2>3. Silence'
    BY <2>1, <2>2 DEF Silence
  <2>4. Len(recorded') = 1
    BY <2>1, <2>2
  <2>5. QED BY <2>1, <2>3, <2>4 DEF QuietBefore
<1>2. CASE ~PlaceCallFails /\ line' \notin {"up", "down"}
  <2>1. line' = line \/ (line = "idle" /\ line' = "ringing")
    BY <1>2, LineMoves
  <2>2. line \in {"idle", "ringing", "failed"}
    BY <1>2, <2>1 DEF Typed, AcsTyped
  <2>3. Silence
    BY <2>2 DEF QuietBefore, NothingYet
  <2>4. Silence' /\ recorded' = recorded
    BY <1>2, <2>2, <2>3, NextSilent
  <2>5. QED BY <2>1, <2>4 DEF QuietBefore, NothingYet
<1>3. CASE line' \in {"up", "down"}
  BY <1>3 DEF QuietBefore
<1>4. QED BY <1>1, <1>2, <1>3

\* Until the call is answered or dropped, and if it could not be placed, nobody
\* has anything to handle.
THEOREM QuietInvariance == Spec => []QuietBefore
<1>1. Init => QuietBefore
  BY DEF Init, QuietBefore, NothingYet, Silence
<1>2. QED BY <1>1, NextQuiet, TypedInvariance, PTL DEF Spec

\* Requests of others have nothing to store, and neither ended nor marked anything.
LEMMA OthersWait ==
  ASSUME Typed, Sole(request, task), NEW r \in Replica, NEW x \in Replica, x # r,
         MayStore(request[r])
  PROVE  request[x].stage \in {"idle", "reading", "commanding"}
<1>1. ~MayStore(request[x])
  BY DEF Sole
<1>2. request[x].stage \in {"idle", "reading", "marked", "reasoning", "commanding", "closing"}
  BY DEF Typed, GoodRequest, RequestRecord
<1>3. QED BY <1>1, <1>2, CopyIsGood, SessionOrNot DEF MayStore

\* The session moves on, and nothing is recorded or posted.
LEMMA SessionMovesOn ==
  ASSUME Typed, Once, NEW r \in Replica, NEW q, request' = [request EXCEPT ![r] = q],
         OnceInRequest(q, recorded), recorded' = recorded, posted' = posted,
         \/ store' = store
         \/ /\ store \in Session /\ store' \in Session
            /\ IdsOf(store) \subseteq IdsOf(store') /\ store'.ended = store.ended
  PROVE  Once'
<1>1. Ledger(store', recorded, posted)
  <2>1. Ledger(store, recorded, posted)
    BY DEF Once
  <2>2. CASE store' = store
    BY <2>1, <2>2
  <2>3. CASE /\ store \in Session /\ store' \in Session
             /\ IdsOf(store) \subseteq IdsOf(store') /\ store'.ended = store.ended
    <3>1. store # NoSession
      BY <2>3, SessionOrNot
    <3>2. QED BY <2>1, <2>3, <3>1 DEF Ledger
  <2>4. QED BY <2>2, <2>3
<1>2. request \in [Replica -> GoodRequest]
  BY DEF Typed
<1>3. \A x \in Replica : OnceInRequest(request'[x], recorded)
  BY <1>2 DEF Once
<1>4. QED BY <1>1, <1>3 DEF Once

\* The session is removed and its outcome posted, once it was recorded.
LEMMA FinalizeOnce ==
  ASSUME Typed, Once, store # NoSession, recorded # << >>, recorded' = recorded,
         NEW c \in Session, Finalize(c),
         \A r \in Replica : OnceInRequest(request'[r], recorded)
  PROVE  Once'
<1>1. Ledger(store, recorded, posted) /\ posted = << >>
  BY DEF Once, Ledger
<1>2. Ledger(store', recorded, posted')
  <2>1. CASE store' = store /\ posted' = posted
    BY <1>1, <2>1
  <2>2. CASE store' = NoSession /\ posted' = Append(posted, c.outcome)
    <3>1. Len(posted') = 1
      BY <1>1, <2>2
    <3>2. Len(recorded) = 1
      <4> DEFINE n == Len(recorded)
      <4>1. recorded \in Seq(CallOutcome)
        BY DEF Typed
      <4>2. n \in Nat /\ n # 0
        BY <4>1
      <4>3. n <= 1
        BY <1>1 DEF Ledger
      <4> HIDE DEF n
      <4>4. n = 1
        BY <4>2, <4>3
      <4>5. QED BY <4>4 DEF n
    <3>3. QED BY <2>2, <3>1, <3>2, SessionOrNot DEF Ledger
  <2>3. QED BY <2>1, <2>2 DEF Finalize
<1>3. QED BY <1>2 DEF Once

\* The requests that a step of r leaves, if r has the copy and returns.
LEMMA ReturnsOnce ==
  ASSUME Typed, Once, NEW r \in Replica, request' = [request EXCEPT ![r] = Idle]
  PROVE  \A x \in Replica : OnceInRequest(request'[x], recorded)
BY DEF Typed, Once, OnceInRequest, Idle

LEMMA SaveOnce ==
  ASSUME Typed, Held, Once, NEW r \in Replica, request[r].stage \in {"marked", "reasoning"},
         request[r].event.type \in TurnType,
         NEW result, ResultOf(request[r].copy, result), Save(r, result),
         SameIds(request[r].copy, result.session), UNCHANGED <<recorded, posted>>
  PROVE  Once'
<1> DEFINE q == [stage |-> "commanding", event |-> request[r].event,
                 copy |-> result.session, command |-> result.command]
<1>1. request[r].copy = store /\ store \in Session
  BY Reader
<1>2. /\ request' = [request EXCEPT ![r] = q] /\ result.session \in Session
      /\ store' = IF result.command \in MediaContext THEN result.session ELSE store
  BY SaveTo
<1>3. IdsOf(result.session) = IdsOf(store) /\ result.session.ended = store.ended
  BY <1>1 DEF SameIds, IdsOf, ResultOf, SameEnd
<1>4. OnceInRequest(q, recorded)
  BY DEF OnceInRequest
<1> HIDE DEF q
<1>5. \/ store' = store
      \/ /\ store \in Session /\ store' \in Session
         /\ IdsOf(store) \subseteq IdsOf(store') /\ store'.ended = store.ended
  BY <1>1, <1>2, <1>3
<1>6. QED BY <1>2, <1>4, <1>5, SessionMovesOn

LEMMA RequestsOnce ==
  ASSUME Typed, Sole(request, task), Held, WindowOpen', Once, NEW r \in Replica, RequestStep(r)
  PROVE  Once'
<1>0. OnceInRequest(Idle, recorded)
  BY DEF OnceInRequest, Idle
<1>1. CASE Ignore(r)
  BY <1>0, <1>1, SessionMovesOn DEF Ignore, Returns, shared
<1>2. CASE Mark(r)
  <2> DEFINE stage == IF request[r].event.type = "RecognizeCompleted" THEN "reasoning" ELSE "marked"
             q == [stage |-> stage, event |-> request[r].event, copy |-> store', command |-> None]
  <2>1. request' = [request EXCEPT ![r] = q] /\ recorded' = recorded /\ posted' = posted
    BY <1>2, MarkTo DEF Mark
  <2>2. /\ store \in Session /\ store' \in Session
        /\ request[r].event \notin IdsOf(store)
        /\ IdsOf(store) \subseteq IdsOf(store') /\ store'.ended = store.ended
    BY <1>2, MarkRemembers
  <2>3. request[r].event = Disconnected => recorded = << >>
    BY <2>2, SessionOrNot DEF Once, Ledger
  <2>4. OnceInRequest(q, recorded)
    BY <2>3 DEF OnceInRequest
  <2> HIDE DEF q
  <2>5. QED BY <2>1, <2>2, <2>4, SessionMovesOn
<1>3. CASE Converse(r)
  BY <1>3, ConverseSaves, SaveOnce DEF Converse
<1>4. ASSUME NEW response \in Response, AgentAnswers(r, response) PROVE Once'
  BY <1>4, AgentSaves, SaveOnce DEF AgentAnswers
<1>5. CASE SendCommand(r)
  BY <1>0, <1>5, SessionMovesOn DEF SendCommand, EndTurn, Returns, shared
<1>6. CASE RecordDisconnect(r)
  <2>1. /\ request[r].stage = "marked" /\ store' = store /\ posted' = posted
        /\ request[r].copy = store /\ store \in Session /\ request[r].event \in IdsOf(store)
        /\ request[r].event = Disconnected /\ MayStore(request[r])
    <3>1. request[r].stage = "marked" /\ request[r].event.type = "CallDisconnected"
      BY <1>6 DEF RecordDisconnect, At, Webhook
    <3>2. request[r].event = Disconnected
      BY <3>1, CopyIsGood DEF GoodEvent
    <3>3. QED BY <1>6, <3>1, <3>2, Reader DEF RecordDisconnect
  <2>2. CASE request[r].copy.ended
    BY <1>0, <1>6, <2>1, <2>2, SessionMovesOn DEF RecordDisconnect, Returns, Copy
  <2>3. CASE ~request[r].copy.ended
    <3> DEFINE s == OnCallDisconnected(request[r].copy)
               q == [stage |-> "closing", event |-> request[r].event, copy |-> s, command |-> None]
    <3>1. Goes(r, "closing", s, None) /\ recorded' = Append(recorded, s.outcome)
      BY <1>6, <2>3 DEF RecordDisconnect, Copy
    <3>2. s \in Session /\ s.ended /\ EndedHasOutcome(s) /\ s = OnCallDisconnected(store)
      BY <2>1, DisconnectTo
    <3> HIDE DEF s
    <3>3. request' = [request EXCEPT ![r] = q]
      BY <2>1, <3>1, <3>2, GoesTo DEF Command
    <3>4. recorded = << >> /\ posted = << >>
      BY <2>1, SessionOrNot DEF Once, OnceInRequest, Ledger
    <3>5. Len(recorded') = 1 /\ recorded' # << >>
      BY <3>1, <3>4
    <3>6. Ledger(store', recorded', posted')
      BY <2>1, <3>4, <3>5 DEF Ledger
    <3>7. request \in [Replica -> GoodRequest]
      BY DEF Typed
    <3>8. \A x \in Replica : OnceInRequest(request'[x], recorded')
      <4> SUFFICES ASSUME NEW x \in Replica PROVE OnceInRequest(request'[x], recorded')
        OBVIOUS
      <4>1. CASE x = r
        BY <3>3, <3>5, <3>7, <4>1 DEF OnceInRequest
      <4>2. CASE x # r
        <5>1. request'[x] = request[x] /\ request[x].stage \in {"idle", "reading", "commanding"}
          BY <2>1, <3>3, <3>7, <4>2, OthersWait
        <5>2. QED BY <5>1 DEF OnceInRequest
      <4>3. QED BY <4>1, <4>2
    <3>9. QED BY <3>6, <3>8 DEF Once
  <2>4. QED BY <2>2, <2>3
<1>7. CASE CloseDisconnect(r)
  <2>1. /\ request[r].stage = "closing" /\ request' = [request EXCEPT ![r] = Idle]
        /\ recorded' = recorded
    BY <1>7 DEF CloseDisconnect, At, Returns
  <2>2. /\ request[r].copy \in Session /\ store # NoSession
        /\ request[r].copy = OnCallDisconnected(store)
    BY <2>1, CopyIsGood, SessionOrNot DEF Held, InStep, MayStore
  <2>3. store \in Session /\ recorded # << >>
    BY <2>1, <2>2 DEF Typed, GoodSession, MaybeSession, Once, OnceInRequest
  <2>4. CASE AwaitsRecordingUrl(Copy(r))
    <3>1. store' = request[r].copy /\ posted' = posted
      BY <1>7, <2>4 DEF CloseDisconnect, Copy
    <3>2. IdsOf(store') = IdsOf(store)
      BY <2>2, <2>3, <3>1, DisconnectTo DEF IdsOf
    <3>3. Ledger(store', recorded, posted)
      BY <2>2, <2>3, <3>2 DEF Once, Ledger
    <3>4. QED BY <2>1, <3>1, <3>3, ReturnsOnce DEF Once
  <2>5. CASE ~AwaitsRecordingUrl(Copy(r))
    <3>1. Finalize(request[r].copy)
      BY <1>7, <2>5 DEF CloseDisconnect, Copy
    <3>2. QED BY <2>1, <2>2, <2>3, <3>1, ReturnsOnce, FinalizeOnce
  <2>6. QED BY <2>4, <2>5
<1>8. CASE RecordingFile(r)
  <2> DEFINE s == OnRecordingFile(request[r].copy, request[r].event.info)
  <2>1. /\ request[r].stage = "marked" /\ request' = [request EXCEPT ![r] = Idle]
        /\ recorded' = recorded
    BY <1>8 DEF RecordingFile, At, Returns
  <2>2. request[r].copy = store /\ store \in Session /\ store # NoSession
    BY <2>1, Reader
  <2>3. s \in Session /\ s.ended = store.ended /\ IdsOf(s) = IdsOf(store)
    BY <2>2, RecordingFileTo DEF IdsOf
  <2>4. IF request[r].event.info = "url" /\ s.ended
        THEN Finalize(s) /\ timer' = [timer EXCEPT ![r] = @ /\ s.completion_logged]
        ELSE store' = s /\ UNCHANGED <<posted, timer>>
    BY <1>8 DEF RecordingFile, Copy, Webhook
  <2> HIDE DEF s
  <2>5. CASE request[r].event.info = "url" /\ s.ended
    <3>1. recorded # << >>
      BY <2>3, <2>5 DEF Once, Ledger
    <3>2. QED BY <2>1, <2>2, <2>3, <2>4, <2>5, <3>1, ReturnsOnce, FinalizeOnce
  <2>6. CASE ~(request[r].event.info = "url" /\ s.ended)
    BY <1>0, <2>1, <2>2, <2>3, <2>4, <2>6, SessionMovesOn
  <2>7. QED BY <2>5, <2>6
<1>9. QED BY <1>1, <1>2, <1>3, <1>4, <1>5, <1>6, <1>7, <1>8 DEF RequestStep, Reply

LEMMA NextOnce ==
  ASSUME Typed, Sole(request, task), Held, WindowOpen', QuietBefore, Once, ~PlaceCallFails, [Next]_vars
  PROVE  Once'
<1>1. request \in [Replica -> GoodRequest] /\ task \in [Replica -> GoodTask]
  BY DEF Typed
<1>2. ASSUME NEW r \in Replica, SaveRecording(r) PROVE Once'
  <2> DEFINE s == [task[r].copy EXCEPT !.recording_id = TRUE]
  <2>1. task[r].copy \in Session /\ task[r].copy = store
    BY <1>1, <1>2 DEF SaveRecording, GoodTask, NoTask, None, Held
  <2>2. s \in Session /\ s.ended = store.ended /\ IdsOf(s) = IdsOf(store)
    BY <2>1 DEF Session, IdsOf
  <2>3. store' = s /\ UNCHANGED <<recorded, posted, request>>
    BY <1>2 DEF SaveRecording
  <2> HIDE DEF s
  <2>4. Ledger(store', recorded, posted)
    BY <2>1, <2>2, <2>3, SessionOrNot DEF Once, Ledger
  <2>5. QED BY <2>3, <2>4 DEF Once
<1>3. ASSUME NEW r \in Replica, FinalizeLate(r) PROVE Once'
  <2>1. task[r].copy \in Session /\ task[r].copy = store /\ store.ended
    BY <1>1, <1>3 DEF FinalizeLate, GoodTask, NoTask, None, Held
  <2>2. store # NoSession /\ recorded # << >>
    BY <2>1, SessionOrNot DEF Once, Ledger
  <2>3. Finalize(task[r].copy) /\ request' = request /\ recorded' = recorded
    BY <1>3 DEF FinalizeLate
  <2>4. \A x \in Replica : OnceInRequest(request'[x], recorded)
    BY <2>3 DEF Once
  <2>5. QED BY <2>1, <2>2, <2>3, <2>4, FinalizeOnce
<1>4. CASE Register
  <2>1. line = "idle" /\ store' = NewSession /\ UNCHANGED <<recorded, posted, request>>
    BY <1>4 DEF Register
  <2>2. recorded = << >> /\ posted = << >>
    BY <2>1 DEF QuietBefore, NothingYet, Silence
  <2>3. Ledger(store', recorded, posted)
    BY <2>1, <2>2, SessionOrNot DEF Ledger
  <2>4. QED BY <2>1, <2>3 DEF Once
<1>5. ASSUME NEW r \in Replica, NEW e, Deliver(r, e) PROVE Once'
  <2> DEFINE q == [stage |-> "reading", event |-> e, copy |-> store, command |-> None]
  <2>1. request' = [request EXCEPT ![r] = q] /\ UNCHANGED <<store, recorded, posted>>
    BY <1>5, ReadingRequest DEF Deliver, shared
  <2>2. OnceInRequest(q, recorded)
    BY DEF OnceInRequest
  <2> HIDE DEF q
  <2>3. QED BY <2>1, <2>2, SessionMovesOn
<1>6. ASSUME NEW r \in Replica, Stop(r) PROVE Once'
  <2>1. request' = [request EXCEPT ![r] = Idle] /\ UNCHANGED <<store, recorded, posted>>
    BY <1>6 DEF Stop, shared
  <2>2. QED BY <2>1, SessionMovesOn DEF OnceInRequest, Idle
<1>7. ASSUME NEW r \in Replica, RecordingStarts(r) \/ TimerFires(r) PROVE Once'
  BY <1>7 DEF RecordingStarts, TimerFires, shared, Once
<1>8. CASE \/ InitiateCall \/ Answer \/ LineDrops \/ RecordingReports
           \/ UNCHANGED vars \/ \E o \in ops : MediaCompletes(o)
  <2>1. UNCHANGED <<request, store, recorded, posted>>
    BY <1>8 DEF InitiateCall, Answer, LineDrops, RecordingReports, MediaCompletes,
                vars, NotAcs, shared
  <2>2. QED BY <2>1 DEF Once
<1>9. QED
  BY <1>2, <1>3, <1>4, <1>5, <1>6, <1>7, <1>8, RequestsOnce DEF Next, TaskStep, Delivery

LEMMA InitOnce == Init => Once
<1> SUFFICES ASSUME Init PROVE Once
  OBVIOUS
<1>1. Ledger(NoSession, << >>, << >>)
  BY SessionOrNot DEF Ledger
<1>2. OnceInRequest(Idle, << >>)
  BY DEF OnceInRequest, Idle
<1>3. QED BY <1>1, <1>2 DEF Init, Once

\* The ledger of outcomes and the session in the store agree.
THEOREM OnceInvariance == Spec /\ []Alone /\ []WindowOpen => []OnceIfPlaced
<1>1. ASSUME Typed, Alone, Held, WindowOpen', QuietBefore, OnceIfPlaced, [Next]_vars
      PROVE  OnceIfPlaced'
  <2> SUFFICES ASSUME line' # "failed" PROVE Once'
    BY DEF OnceIfPlaced
  <2>1. ~PlaceCallFails
    BY DEF PlaceCallFails
  <2>2. line # "failed"
    BY <1>1, <2>1, LineMoves, NextSilent DEF QuietBefore
  <2>3. QED BY <1>1, <2>1, <2>2, OneIsSole, NextOnce DEF Alone, OnceIfPlaced
<1>2. Init => OnceIfPlaced
  BY InitOnce DEF OnceIfPlaced
<1>3. QED
  BY <1>1, <1>2, TypedInvariance, QuietInvariance, HeldInvariance, PTL DEF Spec

(***************************************************************************)
(* The outcome of a call is recorded twice, or posted without having been  *)
(* recorded, only where two copies of its session that could still be      *)
(* stored were in use at one time.                                         *)
(***************************************************************************)
THEOREM RecordingTwiceTakesTwo == Spec /\ []Alone /\ []WindowOpen => []OnceIfAlone
<1>1. ASSUME OnceIfPlaced, QuietBefore PROVE OnceIfAlone
  <2>1. CASE line # "failed"
    BY <1>1, <2>1 DEF OnceIfPlaced, Once, Ledger, OnceIfAlone
  <2>2. CASE line = "failed"
    <3>1. Len(recorded) = 1 /\ posted = << >>
      BY <1>1, <2>2 DEF QuietBefore, Silence
    <3>2. QED BY <3>1 DEF OnceIfAlone
  <2>3. QED BY <2>1, <2>2
<1>2. QED BY <1>1, OnceInvariance, QuietInvariance, PTL

(***************************************************************************)
(* Replicas that take turns at the session record its outcome at most once *)
(* and post it at most once, after it was recorded.                        *)
(***************************************************************************)
THEOREM RecordedOnceInTurns ==
  ASSUME ~Overlap PROVE Spec /\ []WindowOpen => []OnceIfAlone
BY AloneInvariance, RecordingTwiceTakesTwo, PTL

-----------------------------------------------------------------------------
(* The invariant behind TurnSeesUpdate.  The turn is a token: a media      *)
(* operation, an event that nobody has marked, or a request that handles   *)
(* one; whoever holds it finds the session on the step of the last         *)
(* operation.                                                              *)

Pending(ow, req) == ow \cup {req[r].event : r \in {q \in Replica : req[q].stage = "reading"}}

Turns == {e \in Pending(owed, request) : e.type \in TurnType /\ e \notin IdsOf(store)}

Talks(q) == q.stage \in {"marked", "reasoning", "commanding"} /\ q.event.type \in TurnType

OneTurn ==
  /\ \A o, p \in ops : o = p
  /\ \A e, f \in Turns : e = f
  /\ Turns # {} => ops = {}
  /\ \A r \in Replica : Talks(request[r]) => ops = {} /\ Turns = {}
  /\ \A r, x \in Replica : Talks(request[r]) /\ Talks(request[x]) => r = x

IsLatest(id) == id = opCount /\ (id > 0 => store.current_step = saidAt[id])

TurnIsLatest ==
  /\ \A o \in ops : IsLatest(o.id)
  /\ \A e \in Turns : e.type # "CallConnected" => IsLatest(e.op)
  /\ \A r \in Replica :
       Talks(request[r]) /\ request[r].stage # "commanding" /\ request[r].event.type # "CallConnected"
         => IsLatest(request[r].event.op)
  /\ \A r \in Replica :
       Talks(request[r]) /\ request[r].stage = "commanding" /\ request[r].command \in MediaContext
         => request[r].copy.current_step = store.current_step

Turn == store # NoSession => OneTurn /\ TurnIsLatest

LEMMA PendingAfter ==
  ASSUME Typed, NEW r \in Replica, NEW q, request' = [request EXCEPT ![r] = q],
         q.stage # "reading", NEW X, owed' \subseteq owed \cup X
  PROVE  Pending(owed', request') \subseteq Pending(owed, request) \cup X
<1>1. request \in [Replica -> GoodRequest]
  BY DEF Typed
<1>2. ASSUME NEW x \in Replica, request'[x].stage = "reading" PROVE request'[x] = request[x]
  BY <1>1, <1>2
<1>3. QED BY <1>2 DEF Pending

\* Nobody takes the turn and the session stays on its step.
LEMMA TurnStays ==
  ASSUME Turn, UNCHANGED <<ops, opCount, saidAt>>,
         store' # NoSession => /\ store # NoSession /\ store'.current_step = store.current_step
                               /\ IdsOf(store) \subseteq IdsOf(store'),
         \A e \in Pending(owed', request') : e.type \in TurnType => e \in Pending(owed, request),
         \A r \in Replica : Talks(request'[r]) => request'[r] = request[r]
  PROVE  Turn'
<1> SUFFICES ASSUME store' # NoSession PROVE OneTurn' /\ TurnIsLatest'
  BY DEF Turn
<1>1. OneTurn /\ TurnIsLatest
  BY DEF Turn
<1>2. Turns' \subseteq Turns
  BY DEF Turns
<1>3. \A id : IsLatest(id) => IsLatest(id)'
  BY DEF IsLatest
<1> HIDE DEF Turns
<1>4. OneTurn'
  BY <1>1, <1>2 DEF OneTurn
<1>5. TurnIsLatest'
  BY <1>1, <1>2, <1>3 DEF TurnIsLatest
<1>6. QED BY <1>4, <1>5

\* The same for a request that returns, or goes on to close the call.
LEMMA TurnEnds ==
  ASSUME Typed, Turn, NEW r \in Replica, NEW q, request' = [request EXCEPT ![r] = q],
         q.stage \in {"idle", "closing"}, UNCHANGED <<ops, opCount, saidAt>>,
         owed' \subseteq owed,
         store' # NoSession => /\ store # NoSession /\ store'.current_step = store.current_step
                               /\ IdsOf(store) \subseteq IdsOf(store')
  PROVE  Turn'
<1>1. \A e \in Pending(owed', request') : e.type \in TurnType => e \in Pending(owed, request)
  <2>1. Pending(owed', request') \subseteq Pending(owed, request) \cup {}
    BY PendingAfter
  <2>2. QED BY <2>1
<1>2. request \in [Replica -> GoodRequest]
  BY DEF Typed
<1>3. \A x \in Replica : Talks(request'[x]) => x # r /\ request'[x] = request[x]
  BY <1>2 DEF Talks
<1>4. QED BY <1>1, <1>3, TurnStays

LEMMA MarkTakesTurn ==
  ASSUME Typed, Sole(request, task), Held, Turn, WindowOpen', NEW r \in Replica, Mark(r)
  PROVE  Turn'
<1> DEFINE e == request[r].event
           stage == IF e.type = "RecognizeCompleted" THEN "reasoning" ELSE "marked"
           q == [stage |-> stage, event |-> e, copy |-> store', command |-> None]
<1>1. request' = [request EXCEPT ![r] = q] /\ request[r].stage = "reading"
  BY MarkTo DEF Mark, At
<1>2. UNCHANGED <<ops, opCount, saidAt, owed>>
  BY DEF Mark, acs
<1>3. /\ store \in Session /\ store' \in Session /\ e \notin IdsOf(store)
      /\ IdsOf(store') = IdsOf(store) \cup {e} /\ store'.current_step = store.current_step
  BY MarkRemembers
<1>4. store # NoSession /\ OneTurn /\ TurnIsLatest
  BY <1>3, SessionOrNot DEF Turn
<1>5. q.event = e /\ q.stage \in {"marked", "reasoning"}
  OBVIOUS
<1> HIDE DEF q
<1>6. Pending(owed', request') \subseteq Pending(owed, request)
  <2>1. Pending(owed', request') \subseteq Pending(owed, request) \cup {}
    BY <1>1, <1>2, <1>5, PendingAfter
  <2>2. QED BY <2>1
<1>7. request \in [Replica -> GoodRequest]
  BY DEF Typed
<1>8. \A x \in Replica : x # r => request'[x] = request[x]
  BY <1>1, <1>7
<1>9. \A id : IsLatest(id) => IsLatest(id)'
  BY <1>2, <1>3 DEF IsLatest
<1>10. CASE e.type \in TurnType
  <2>1. e \in Turns
    BY <1>1, <1>3, <1>10 DEF Turns, Pending
  <2>2. ops = {} /\ \A f \in Turns : f = e
    BY <1>4, <2>1 DEF OneTurn
  <2>8. \A x \in Replica : Talks(request'[x]) => x = r
    BY <1>4, <1>8, <2>1 DEF OneTurn
  <2>3. Turns' = {}
    <3>1. Turns' \subseteq Turns /\ e \notin Turns'
      BY <1>3, <1>6 DEF Turns
    <3>2. QED BY <2>2, <3>1
  <2>4. e.type # "CallConnected" => IsLatest(e.op)
    BY <1>4, <2>1 DEF TurnIsLatest
  <2>5. OneTurn'
    BY <1>2, <2>2, <2>3, <2>8 DEF OneTurn
  <2>6. TurnIsLatest'
    <3>1. \A x \in Replica : Talks(request'[x]) => x = r /\ request'[x] = q
      BY <1>1, <1>7, <2>8
    <3>2. QED BY <1>2, <1>5, <1>9, <2>2, <2>3, <2>4, <3>1 DEF TurnIsLatest
  <2>7. QED BY <2>5, <2>6 DEF Turn
<1>11. CASE e.type \notin TurnType
  <2>1. ~Talks(request'[r])
    BY <1>1, <1>5, <1>7, <1>11 DEF Talks
  <2>2. QED BY <1>2, <1>3, <1>4, <1>6, <1>8, <2>1, TurnStays
<1>12. QED BY <1>10, <1>11

LEMMA TalkerAlone ==
  ASSUME Turn, store # NoSession, NEW r \in Replica, Talks(request[r])
  PROVE  /\ ops = {} /\ Turns = {}
         /\ \A x \in Replica : x # r => ~Talks(request[x])
BY DEF Turn, OneTurn

LEMMA SaveKeepsTurn ==
  ASSUME Typed, Sole(request, task), Held, Turn, NEW r \in Replica,
         request[r].stage \in {"marked", "reasoning"}, request[r].event.type \in TurnType,
         NEW result, ResultOf(request[r].copy, result), Save(r, result),
         SameIds(request[r].copy, result.session), UNCHANGED <<ops, opCount, saidAt, owed>>
  PROVE  Turn'
<1> DEFINE q == [stage |-> "commanding", event |-> request[r].event,
                 copy |-> result.session, command |-> result.command]
<1>1. request[r].copy = store /\ store # NoSession
  BY Reader, SessionOrNot
<1>2. /\ request' = [request EXCEPT ![r] = q]
      /\ store' = IF result.command \in MediaContext THEN result.session ELSE store
  BY SaveTo
<1>3. IdsOf(store') = IdsOf(store)
  BY <1>1, <1>2 DEF SameIds, IdsOf
<1>4. ops = {} /\ Turns = {} /\ \A x \in Replica : x # r => ~Talks(request[x])
  BY <1>1, TalkerAlone DEF Talks
<1>5. /\ q.stage = "commanding" /\ q.command = result.command
      /\ q.copy.current_step = result.session.current_step
  OBVIOUS
<1> HIDE DEF q
<1>6. Pending(owed', request') \subseteq Pending(owed, request) \cup {}
  BY <1>2, <1>5, PendingAfter
<1>7. Turns' = {}
  BY <1>3, <1>4, <1>6 DEF Turns
<1>8. request \in [Replica -> GoodRequest]
  BY DEF Typed
<1>9. \A x \in Replica : Talks(request'[x]) => x = r /\ request'[x] = q
  BY <1>2, <1>4, <1>8
<1>10. OneTurn'
  BY <1>4, <1>7, <1>9 DEF OneTurn
<1>11. TurnIsLatest'
  BY <1>2, <1>4, <1>5, <1>7, <1>9 DEF TurnIsLatest
<1>12. QED BY <1>10, <1>11 DEF Turn

LEMMA CommandPassesTurn ==
  ASSUME Typed, Turn, NEW r \in Replica, SendCommand(r)
  PROVE  Turn'
<1>1. request[r].stage = "commanding" /\ Talks(request[r])
  BY DEF SendCommand, At, Typed, GoodRequest, Talks
<1> SUFFICES ASSUME store # NoSession PROVE Turn'
  BY DEF SendCommand, shared, Turn
<1>2. /\ ops = {} /\ Turns = {}
      /\ \A x \in Replica : x # r => ~Talks(request[x])
  BY <1>1, TalkerAlone
<1>3. store' = store /\ request' = [request EXCEPT ![r] = Idle]
      /\ owed' \subseteq owed \cup {Disconnected}
  BY DEF SendCommand, EndTurn, Returns, shared
<1>4. request \in [Replica -> GoodRequest]
  BY DEF Typed
<1>5. \A x \in Replica : ~Talks(request'[x])
  BY <1>2, <1>3, <1>4 DEF Idle, Talks
<1>6. Turns' = {}
  <2>1. Pending(owed', request') \subseteq Pending(owed, request) \cup {Disconnected}
    <3>1. Idle.stage # "reading"
      BY DEF Idle
    <3>2. QED BY <1>3, <3>1, PendingAfter
  <2>2. Disconnected.type \notin TurnType
    BY DEF Disconnected, TurnType
  <2>3. QED BY <1>2, <1>3, <2>1, <2>2 DEF Turns
<1>7. CASE request[r].command \in MediaContext /\ line = "up" /\ opCount < MaxOps
  <2>1. /\ ops' = ops \cup {[id |-> opCount + 1, context |-> request[r].command]}
        /\ opCount' = opCount + 1
        /\ saidAt' = Append(saidAt, request[r].copy.current_step)
    BY <1>7 DEF SendCommand, Operate, Copy
  <2>2. request[r].copy.current_step = store.current_step /\ store.current_step \in StepId
    <3>1. store \in Session
      BY DEF Typed, GoodSession, MaybeSession
    <3>2. request[r].copy.current_step = store.current_step
      BY <1>1, <1>7 DEF Turn, TurnIsLatest
    <3>3. QED BY <3>1, <3>2 DEF Session
  <2>3. saidAt \in Seq(StepId) /\ opCount = Len(saidAt)
    BY DEF Typed, AcsTyped
  <2>4. saidAt'[opCount + 1] = store.current_step
    BY <2>1, <2>2, <2>3
  <2>5. ASSUME NEW o \in ops' PROVE IsLatest(o.id)'
    <3>1. o.id = opCount'
      BY <1>2, <2>1, <2>5
    <3>2. store'.current_step = saidAt'[opCount']
      BY <1>3, <2>1, <2>4
    <3>3. QED BY <3>1, <3>2 DEF IsLatest
  <2>6. \A o, p \in ops' : o = p
    BY <1>2, <2>1
  <2>7. OneTurn'
    BY <1>5, <1>6, <2>6 DEF OneTurn
  <2>8. TurnIsLatest'
    BY <1>5, <1>6, <2>5 DEF TurnIsLatest
  <2>9. QED BY <2>7, <2>8 DEF Turn
<1>8. CASE ~(request[r].command \in MediaContext /\ line = "up" /\ opCount < MaxOps)
  <2>1. ops' = ops
    BY <1>8 DEF SendCommand, Operate
  <2>2. QED BY <1>2, <1>5, <1>6, <2>1 DEF Turn, OneTurn, TurnIsLatest
<1>9. QED BY <1>7, <1>8

LEMMA CompletionPassesTurn ==
  ASSUME Typed, Turn, NEW o \in ops, MediaCompletes(o)
  PROVE  Turn'
<1>1. request' = request /\ store' = store /\ opCount' = opCount /\ saidAt' = saidAt
      /\ ops' = ops \ {o}
  BY DEF MediaCompletes, NotAcs, shared
<1>2. PICK e \in CompletionEvents(o) : owed' \subseteq owed \cup {e}
  BY DEF MediaCompletes
<1>3. e.op = o.id
  BY DEF CompletionEvents
<1> SUFFICES ASSUME store # NoSession PROVE OneTurn' /\ TurnIsLatest'
  BY <1>1 DEF Turn
<1>4. /\ \A p \in ops : p = o
      /\ Turns = {} /\ IsLatest(o.id) /\ \A r \in Replica : ~Talks(request[r])
  BY DEF Turn, OneTurn, TurnIsLatest
<1>5. ops' = {}
  BY <1>1, <1>4
<1>6. Turns' \subseteq {e}
  BY <1>1, <1>2, <1>4 DEF Turns, Pending
<1>7. IsLatest(o.id)'
  BY <1>1, <1>4 DEF IsLatest
<1>8. OneTurn'
  BY <1>1, <1>4, <1>5, <1>6 DEF OneTurn
<1>9. TurnIsLatest'
  BY <1>1, <1>3, <1>4, <1>5, <1>6, <1>7 DEF TurnIsLatest
<1>10. QED BY <1>8, <1>9

LEMMA CallBegins ==
  ASSUME Typed, QuietBefore, Register \/ Answer
  PROVE  Turn'
<1>1. NothingYet
  BY DEF Register, Answer, QuietBefore
<1>2. UNCHANGED <<request, ops, opCount, saidAt>>
  BY DEF Register, Answer, acs, NotAcs
<1>3. \A r \in Replica : request'[r] = Idle
  BY <1>1, <1>2 DEF NothingYet, Silence
<1>4. \A e \in owed' : e = [type |-> "CallConnected", op |-> 0, info |-> None]
  BY <1>1 DEF NothingYet, Silence, Register, Answer, acs
<1>5. Pending(owed', request') = owed'
  BY <1>3 DEF Pending, Idle
<1>6. Turns' \subseteq owed'
  BY <1>5 DEF Turns
<1>7. \A r \in Replica : ~Talks(request'[r])
  BY <1>3 DEF Talks, Idle
<1>8. ops' = {}
  BY <1>1, <1>2 DEF NothingYet, Silence
<1>9. OneTurn'
  BY <1>4, <1>6, <1>7, <1>8 DEF OneTurn
<1>10. TurnIsLatest'
  BY <1>4, <1>6, <1>7, <1>8 DEF TurnIsLatest
<1>11. QED BY <1>9, <1>10 DEF Turn

LEMMA RequestsKeepTurn ==
  ASSUME Typed, Sole(request, task), Held, Turn, WindowOpen', NEW r \in Replica, RequestStep(r)
  PROVE  Turn'
<1>0. Idle.stage = "idle"
  BY DEF Idle
<1>1. CASE Ignore(r)
  <2>1. /\ request' = [request EXCEPT ![r] = Idle] /\ owed' \subseteq owed
        /\ store' = store /\ UNCHANGED <<ops, opCount, saidAt>>
    BY <1>1 DEF Ignore, Returns, shared
  <2>2. QED BY <1>0, <2>1, TurnEnds
<1>2. CASE Mark(r)
  BY <1>2, MarkTakesTurn
<1>3. CASE Converse(r)
  <2>1. UNCHANGED <<ops, opCount, saidAt, owed>>
    BY <1>3 DEF Converse, acs
  <2>2. QED BY <1>3, <2>1, ConverseSaves, SaveKeepsTurn
<1>4. ASSUME NEW response \in Response, AgentAnswers(r, response) PROVE Turn'
  <2>1. UNCHANGED <<ops, opCount, saidAt, owed>>
    BY <1>4 DEF AgentAnswers, acs
  <2>2. QED BY <1>4, <2>1, AgentSaves, SaveKeepsTurn
<1>5. CASE SendCommand(r)
  BY <1>5, CommandPassesTurn
<1>6. CASE RecordDisconnect(r)
  <2>1. request[r].stage = "marked" /\ store' = store /\ UNCHANGED <<ops, opCount, saidAt>>
    BY <1>6 DEF RecordDisconnect, At
  <2>2. \E q : /\ request' = [request EXCEPT ![r] = q] /\ q.stage \in {"idle", "closing"}
               /\ owed' \subseteq owed
    <3>1. CASE request[r].copy.ended
      BY <1>0, <1>6, <3>1 DEF RecordDisconnect, Returns, Copy
    <3>2. CASE ~request[r].copy.ended
      <4> DEFINE s == OnCallDisconnected(request[r].copy)
                 q == [stage |-> "closing", event |-> request[r].event, copy |-> s, command |-> None]
      <4>1. Goes(r, "closing", s, None) /\ owed' = owed
        BY <1>6, <3>2 DEF RecordDisconnect, Copy
      <4>2. s \in Session /\ s.ended /\ EndedHasOutcome(s)
        BY <2>1, CopyIsGood, DisconnectTo
      <4> HIDE DEF s
      <4>3. request' = [request EXCEPT ![r] = q]
        BY <2>1, <4>1, <4>2, GoesTo DEF Command
      <4>4. q.stage = "closing"
        OBVIOUS
      <4> HIDE DEF q
      <4>5. QED BY <4>1, <4>3, <4>4
    <3>3. QED BY <3>1, <3>2
  <2>3. PICK q : /\ request' = [request EXCEPT ![r] = q] /\ q.stage \in {"idle", "closing"}
                 /\ owed' \subseteq owed
    BY <2>2
  <2>4. store # NoSession /\ IdsOf(store) \subseteq IdsOf(store')
    BY <2>1, Reader, SessionOrNot
  <2>5. QED BY <2>1, <2>3, <2>4, TurnEnds
<1>7. CASE CloseDisconnect(r) \/ RecordingFile(r)
  <2>1. /\ request' = [request EXCEPT ![r] = Idle] /\ owed' \subseteq owed
        /\ UNCHANGED <<ops, opCount, saidAt>>
    BY <1>7 DEF CloseDisconnect, RecordingFile, Returns
  <2>2. store # NoSession /\ store \in Session
    <3>1. CASE CloseDisconnect(r)
      <4>1. request[r].stage = "closing"
        BY <3>1 DEF CloseDisconnect, At
      <4>2. store # NoSession
        BY <4>1, CopyIsGood, SessionOrNot DEF Held, InStep, MayStore
      <4>3. QED BY <4>2 DEF Typed, GoodSession, MaybeSession
    <3>2. CASE RecordingFile(r)
      BY <3>2, Reader, SessionOrNot DEF RecordingFile, At
    <3>3. QED BY <1>7, <3>1, <3>2
  <2>3. \/ store' = NoSession \/ store' = store
        \/ store'.current_step = store.current_step /\ IdsOf(store') = IdsOf(store)
    <3>1. CASE CloseDisconnect(r)
      <4>1. request[r].copy = OnCallDisconnected(store)
        BY <3>1 DEF CloseDisconnect, At, Held, InStep
      <4>2. store' \in {NoSession, store, request[r].copy}
        BY <3>1 DEF CloseDisconnect, Finalize, Copy
      <4>3. QED BY <2>2, <4>1, <4>2, DisconnectTo DEF IdsOf
    <3>2. CASE RecordingFile(r)
      <4>1. request[r].copy = store
        BY <3>2, Reader DEF RecordingFile, At
      <4>2. store' \in {NoSession, store, OnRecordingFile(request[r].copy, request[r].event.info)}
        BY <3>2 DEF RecordingFile, Finalize, Copy, Webhook
      <4>3. QED BY <2>2, <4>1, <4>2, RecordingFileTo DEF IdsOf
    <3>3. QED BY <1>7, <3>1, <3>2
  <2>4. store' # NoSession => /\ store # NoSession /\ store'.current_step = store.current_step
                              /\ IdsOf(store) \subseteq IdsOf(store')
    BY <2>2, <2>3
  <2>5. QED BY <1>0, <2>1, <2>4, TurnEnds
<1>8. QED BY <1>1, <1>2, <1>3, <1>4, <1>5, <1>6, <1>7 DEF RequestStep, Reply

LEMMA NextTurn ==
  ASSUME Typed, Sole(request, task), Held, WindowOpen', QuietBefore, Turn, [Next]_vars
  PROVE  Turn'
<1>1. request \in [Replica -> GoodRequest] /\ task \in [Replica -> GoodTask]
  BY DEF Typed
<1>2. ASSUME NEW r \in Replica, SaveRecording(r) \/ FinalizeLate(r) PROVE Turn'
  <2> DEFINE s == [task[r].copy EXCEPT !.recording_id = TRUE]
  <2>1. task[r].copy \in Session /\ task[r].copy = store
    BY <1>1, <1>2 DEF SaveRecording, FinalizeLate, GoodTask, NoTask, None, Held
  <2>2. s.current_step = store.current_step /\ IdsOf(s) = IdsOf(store)
    BY <2>1 DEF Session, IdsOf
  <2>3. store' \in {s, store, NoSession} /\ UNCHANGED <<request, ops, opCount, saidAt, owed>>
    BY <1>2 DEF SaveRecording, FinalizeLate, Finalize, acs
  <2> HIDE DEF s
  <2>4. store # NoSession
    BY <2>1, SessionOrNot
  <2>5. QED BY <2>2, <2>3, <2>4, TurnStays
<1>3. CASE Register \/ Answer
  BY <1>3, CallBegins
<1>4. ASSUME NEW r \in Replica, NEW e \in owed, Deliver(r, e) PROVE Turn'
  <2> DEFINE q == [stage |-> "reading", event |-> e, copy |-> store, command |-> None]
  <2>1. /\ request' = [request EXCEPT ![r] = q]
        /\ UNCHANGED <<store, ops, opCount, saidAt, owed>>
    BY <1>4, ReadingRequest DEF Deliver, shared
  <2>2. q.stage = "reading" /\ q.event = e
    OBVIOUS
  <2> HIDE DEF q
  <2>3. \A x \in Replica : request'[x] = IF x = r THEN q ELSE request[x]
    BY <1>1, <2>1
  <2>4. Pending(owed', request') \subseteq Pending(owed, request)
    BY <2>1, <2>2, <2>3 DEF Pending
  <2>5. \A x \in Replica : Talks(request'[x]) => request'[x] = request[x]
    BY <2>2, <2>3 DEF Talks
  <2>6. QED BY <2>1, <2>4, <2>5, TurnStays
<1>5. ASSUME NEW r \in Replica, Stop(r) PROVE Turn'
  <2>1. /\ request' = [request EXCEPT ![r] = Idle] /\ owed' \subseteq owed
        /\ UNCHANGED <<store, ops, opCount, saidAt>>
    BY <1>5 DEF Stop, shared, acs
  <2>2. Idle.stage = "idle"
    BY DEF Idle
  <2>3. QED BY <2>1, <2>2, TurnEnds
<1>6. ASSUME NEW r \in Replica, RecordingStarts(r) \/ TimerFires(r) PROVE Turn'
  <2>1. UNCHANGED <<request, store, ops, opCount, saidAt, owed>>
    BY <1>6 DEF RecordingStarts, TimerFires, shared, acs
  <2>2. QED BY <2>1, TurnStays
<1>7. CASE InitiateCall \/ PlaceCallFails \/ LineDrops \/ RecordingReports \/ UNCHANGED vars
  <2>1. UNCHANGED <<request, store, ops, opCount, saidAt>>
    BY <1>7 DEF InitiateCall, PlaceCallFails, LineDrops, RecordingReports, vars, NotAcs, shared, acs
  <2>2. \A e \in owed' : e.type \in TurnType => e \in owed
    BY <1>7 DEF InitiateCall, PlaceCallFails, LineDrops, RecordingReports, vars, acs, Disconnected, TurnType
  <2>3. \A e \in Pending(owed', request') : e.type \in TurnType => e \in Pending(owed, request)
    BY <2>1, <2>2 DEF Pending
  <2>4. QED BY <2>1, <2>3, TurnStays
<1>8. ASSUME NEW o \in ops, MediaCompletes(o) PROVE Turn'
  BY <1>8, CompletionPassesTurn
<1>9. QED
  BY <1>2, <1>3, <1>4, <1>5, <1>6, <1>7, <1>8, RequestsKeepTurn DEF Next, TaskStep, Delivery

\* The turn is passed on, and its holder is at the last operation's step.
THEOREM TurnInvariance == Spec /\ []Alone /\ []WindowOpen => []Turn
<1>1. ASSUME Typed, Alone, Held, WindowOpen', QuietBefore, Turn, [Next]_vars PROVE Turn'
  BY <1>1, OneIsSole, NextTurn DEF Alone
<1>2. Init => Turn
  BY DEF Init, Turn
<1>3. QED
  BY <1>1, <1>2, TypedInvariance, QuietInvariance, HeldInvariance, PTL DEF Spec

(***************************************************************************)
(* An event of the conversation is handled at the step whose prompt raised *)
(* it, although another replica may look the session up for it before the  *)
(* handler that gave the command has returned -- unless two copies that    *)
(* could still be stored were in use at one time.                          *)
(***************************************************************************)
THEOREM StaleStepTakesTwo == Spec /\ []Alone /\ []WindowOpen => []TurnSeesUpdate
<1>1. ASSUME Typed, Held, Turn PROVE TurnSeesUpdate
  <2> SUFFICES ASSUME NEW r \in Replica, request[r].stage \in {"marked", "reasoning"},
                      request[r].event.type \in {"PlayCompleted", "RecognizeCompleted", "RecognizeFailed"}
               PROVE  request[r].copy.current_step = saidAt[request[r].event.op]
    BY DEF TurnSeesUpdate, Copy
  <2>1. request[r].copy = store /\ store # NoSession
    BY <1>1, Reader, SessionOrNot
  <2>2. request[r].event.op \in 1..MaxOps
    BY <1>1, CopyIsGood DEF GoodEvent, TurnType
  <2>3. IsLatest(request[r].event.op)
    BY <1>1, <2>1 DEF Turn, TurnIsLatest, Talks, TurnType
  <2>4. QED BY <2>1, <2>2, <2>3 DEF IsLatest
<1>2. QED BY <1>1, TypedInvariance, HeldInvariance, TurnInvariance, PTL

(***************************************************************************)
(* "Persist before the next ACS call": where no two copies that may still  *)
(* be stored are in use, that order is enough for every webhook to find    *)
(* the step that raised it, on whichever replica it lands.                 *)
(***************************************************************************)
THEOREM UpdateSeenInTurns ==
  ASSUME ~Overlap PROVE Spec /\ []WindowOpen => []TurnSeesUpdate
BY AloneInvariance, StaleStepTakesTwo, PTL

=============================================================================
