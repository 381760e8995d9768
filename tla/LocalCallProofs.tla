--------------------------- MODULE LocalCallProofs ---------------------------
(***************************************************************************)
(* Proofs about LocalCall, for every SOP, every answer of the agent, any   *)
(* number of concurrent requests and any number of repeated deliveries:    *)
(* first how the call ends, then how the conversation goes.                *)
(***************************************************************************)
EXTENDS LocalCallProperties, HandlerProofs, FiniteSetTheorems

(***************************************************************************)
(* The inductive invariant.  Before the call is placed nothing happens to  *)
(* it; from then on the two flags of the session, ended and                *)
(* completion_logged, say exactly what was recorded, which result is       *)
(* posted or about to be, and whether the finalize timer can be pending.   *)
(* TypeOK alone is not inductive: that a posted outcome is never None      *)
(* rests on the disconnect having come first.                              *)
(***************************************************************************)
Unplaced == line \in {"idle", "failed"}

NothingHappens ==
  /\ session = NewSession
  /\ \A w \in Worker : request[w] = Idle
  /\ starting = 0
  /\ recordings = 0
  /\ ops = {}
  /\ owed = {}

Ending ==
  /\ line = "failed" => recorded = <<"failed">>
  /\ line # "failed" /\ ~session.ended => recorded = << >>
  /\ session.ended => session.outcome # None /\ \E o \in CallOutcome : recorded = <<o>>
  /\ timer => session.ended /\ ~session.completion_logged
  /\ session.completion_logged => session.ended /\ posting + Len(posted) = 1
  /\ ~session.completion_logged => posting = 0 /\ posted = << >>

Inv == TypeOK /\ (Unplaced => NothingHappens) /\ Ending

LEMMA InvInit == Init => Inv
<1> SUFFICES ASSUME Init PROVE Inv
  OBVIOUS
<1>1. TypeOK
  <2>1. NewSession \in Session
    BY EngineAssumption DEF NewSession, Session
  <2>2. Idle \in Request
    BY DEF Idle, Request
  <2>3. << >> \in Seq(CallOutcome) /\ << >> \in Seq(Payload)
    OBVIOUS
  <2>4. request \in [Worker -> Request]
    BY <2>2 DEF Init
  <2>5. QED
    BY <2>1, <2>3, <2>4 DEF Init, TypeOK
<1>2. NothingHappens
  BY DEF Init, NothingHappens
<1>3. Ending
  BY DEF Init, Ending, NewSession
<1>4. QED BY <1>1, <1>2, <1>3 DEF Inv

(***************************************************************************)
(* A step of a call that was placed, and that leaves its ending alone,     *)
(* keeps Ending.                                                           *)
(***************************************************************************)
LEMMA EndingKept ==
  ASSUME Ending, ~Unplaced, ~Unplaced', SameEnd(session, session'),
         UNCHANGED <<timer, recorded, posting, posted>>
  PROVE  Ending'
BY DEF Ending, SameEnd, Unplaced

\* A request in progress is one of a call that was placed.
LEMMA InProgress ==
  ASSUME Inv, NEW w \in Worker, request[w].stage # "idle"
  PROVE  ~Unplaced
BY DEF Inv, NothingHappens, Idle

\* A fresh event is an event, and marking it changes nothing that matters here.
LEMMA FreshEvent ==
  ASSUME Inv, NEW w \in Worker, NEW type \in EventType, Fresh(w, type)
  PROVE  /\ request[w].event \in Event
         /\ request[w].event.type = type
         /\ Marked(w) \in Session
         /\ SameEnd(session, Marked(w))
         /\ ~Unplaced
<1>1. request[w] \in Request /\ session \in Session
  BY DEF Inv, TypeOK
<1>2. request[w].event.type = type /\ request[w].stage = "reading"
  BY DEF Fresh
<1>3. request[w].event # NoEvent
  BY <1>2 DEF NoEvent, EventType, None
<1>4. request[w].event \in Event
  BY <1>1, <1>3 DEF Request
<1>5. ~Unplaced
  BY <1>2, InProgress
<1>6. QED BY <1>1, <1>2, <1>4, <1>5, MarkProcessedType, LocalCallAssumption DEF Marked

\* What a command does to the ACS side.
LEMMA IssueType ==
  ASSUME TypeOK, ~Unplaced, NEW command \in Command, Issue(command)
  PROVE  /\ line' \in {"ringing", "up", "down"}
         /\ ops' \in SUBSET [id : Nat, context : MediaContext]
         /\ opCount' \in Nat
         /\ owed' \in SUBSET Event
<1>1. DisconnectedEvent \in Event
  BY DEF DisconnectedEvent, Event, EventType, EventInfo
<1>2. QED
  BY <1>1 DEF Issue, TypeOK, Unplaced, acsMedia

LEMMA ResultTransitive ==
  ASSUME NEW s \in Session, NEW t \in Session, SameEnd(s, t), NEW r, ResultOf(t, r)
  PROVE  ResultOf(s, r)
BY DEF ResultOf, SameEnd

\* A handler that only moves the conversation on.
LEMMA ConverseKeepsInv ==
  ASSUME Inv, NEW w \in Worker, ~Unplaced, NEW r, ResultOf(session, r), Converse(w, r),
         starting' \in Nat, recStopped' \in BOOLEAN
  PROVE  Inv'
<1>1. TypeOK /\ Ending /\ session' = r.session /\ r.command \in Command
  BY DEF Inv, ResultOf, Converse
<1>2. /\ line' \in {"ringing", "up", "down"}
      /\ ops' \in SUBSET [id : Nat, context : MediaContext]
      /\ opCount' \in Nat
      /\ owed' \in SUBSET Event
  <2>1. Issue(r.command)
    BY DEF Converse
  <2>2. QED BY <1>1, <2>1, IssueType
<1>3. request' \in [Worker -> Request]
  <2>1. Idle \in Request
    BY DEF Idle, Request
  <2>2. QED BY <1>1, <2>1 DEF Converse, Done, TypeOK
<1>4. TypeOK'
  BY <1>1, <1>2, <1>3 DEF TypeOK, ResultOf, Converse
<1>5. ~Unplaced'
  BY <1>2 DEF Unplaced
<1>6. Ending'
  BY <1>1, <1>5, EndingKept DEF Converse, ResultOf
<1>7. QED BY <1>4, <1>5, <1>6 DEF Inv

LEMMA FinalizeEnds ==
  ASSUME Inv, ~Unplaced, NEW s \in Session, s.ended, s.outcome # None,
         s.completion_logged = session.completion_logged,
         NEW o \in CallOutcome, recorded' = <<o>>,
         Finalize(s), CancelTimer(s) \/ timer' = FALSE,
         UNCHANGED <<posted, line>>
  PROVE  /\ session' \in Session /\ stored' \in BOOLEAN /\ posting' \in Nat
         /\ timer' \in BOOLEAN /\ recorded' \in Seq(CallOutcome)
         /\ Ending'
<1>1. TypeOK /\ Ending
  BY DEF Inv
<1>2. session' \in Session
  BY DEF Finalize, Session
<1>3. session'.ended /\ session'.completion_logged /\ session'.outcome = s.outcome
  BY DEF Finalize, Session
<1>4. stored' \in BOOLEAN
  BY DEF Finalize, Session
<1>5. timer' = FALSE
  BY <1>1 DEF CancelTimer, Ending, TypeOK, Session
<1>6. posting' \in Nat /\ posting' + Len(posted') = 1
  BY <1>1 DEF Finalize, Ending, TypeOK
<1>7. \E p \in CallOutcome : recorded' = <<p>>
  OBVIOUS
<1>8. line' # "failed"
  BY DEF Unplaced
<1>9. Ending'
  BY <1>3, <1>5, <1>6, <1>7, <1>8 DEF Ending
<1>10. recorded' \in Seq(CallOutcome)
  BY <1>7
<1>11. QED BY <1>2, <1>4, <1>5, <1>6, <1>9, <1>10

(***************************************************************************)
(* The inductive step, one action at a time.                               *)
(***************************************************************************)
LEMMA PlacingKeepsInv ==
  ASSUME Inv, PlaceCall \/ PlaceCallFails
  PROVE  Inv'
<1>1. TypeOK /\ NothingHappens /\ Ending /\ line = "idle"
  BY DEF Inv, Unplaced, PlaceCall, PlaceCallFails
<1>2. CASE PlaceCall
  <2>1. TypeOK'
    BY <1>1, <1>2 DEF PlaceCall, TypeOK, acsMedia, acsRecording
  <2>2. Ending'
    BY <1>1, <1>2 DEF PlaceCall, Ending
  <2>3. QED BY <1>2, <2>1, <2>2 DEF PlaceCall, Inv, Unplaced
<1>3. CASE PlaceCallFails
  <2>1. recorded = << >>
    BY <1>1 DEF Ending, NothingHappens, NewSession
  <2>2. recorded' = <<"failed">>
    BY <1>3, <2>1 DEF PlaceCallFails
  <2>3. recorded' \in Seq(CallOutcome)
    BY <2>2 DEF CallOutcome
  <2>4. TypeOK'
    BY <1>1, <1>3, <2>3 DEF PlaceCallFails, TypeOK, acsMedia, acsRecording
  <2>5. ~session.ended /\ ~session.completion_logged
    BY <1>1 DEF NothingHappens, NewSession
  <2>6. Ending'
    BY <1>1, <1>3, <2>2, <2>5 DEF PlaceCallFails, Ending
  <2>7. NothingHappens'
    BY <1>1, <1>3 DEF PlaceCallFails, NothingHappens, acsMedia, acsRecording
  <2>8. QED BY <2>4, <2>6, <2>7 DEF Inv
<1>4. QED BY <1>2, <1>3

\* Steps of ACS and deliveries leave the ending of the call alone.
LEMMA AcsKeepsInv ==
  ASSUME Inv, Answer \/ LineDrops \/ Media \/ RecordingReports \/ \E e \in owed : Deliver(e)
  PROVE  Inv'
<1>1. TypeOK /\ Ending
  BY DEF Inv
<1>2. CASE Answer
  <2>1. ConnectedEvent \in Event
    BY DEF ConnectedEvent, Event, EventType, EventInfo
  <2>2. TypeOK'
    BY <1>1, <1>2, <2>1 DEF Answer, TypeOK, process, acsMedia, acsRecording
  <2>3. Ending' /\ ~Unplaced'
    BY <1>1, <1>2 DEF Answer, Ending, Unplaced, process
  <2>4. QED BY <2>2, <2>3 DEF Inv
<1>3. CASE LineDrops
  <2>1. DisconnectedEvent \in Event
    BY DEF DisconnectedEvent, Event, EventType, EventInfo
  <2>2. TypeOK'
    BY <1>1, <1>3, <2>1 DEF LineDrops, TypeOK, process, acsMedia, acsRecording
  <2>3. Ending' /\ ~Unplaced'
    BY <1>1, <1>3 DEF LineDrops, Ending, Unplaced, process
  <2>4. QED BY <2>2, <2>3 DEF Inv
<1>4. CASE Media
  <2>1. PICK o \in ops : MediaCompletes(o) \/ MediaAborts(o)
    BY <1>4 DEF Media
  <2>2. o \in [id : Nat, context : MediaContext]
    BY <1>1 DEF TypeOK
  <2>3. CompletionEvents(o) \subseteq Event
    BY <2>2 DEF CompletionEvents, Event, EventType, EventInfo
  <2>4. TypeOK'
    BY <1>1, <2>1, <2>3 DEF MediaCompletes, MediaAborts, TypeOK, process, acsRecording
  <2>5. Ending' /\ ~Unplaced'
    BY <1>1, <2>1 DEF MediaCompletes, MediaAborts, Ending, Unplaced, process
  <2>6. QED BY <2>4, <2>5 DEF Inv
<1>5. CASE RecordingReports
  <2>1. \A n \in Nat, i \in {"url", "no_url"} : RecordingEvent(n, i) \in Event
    BY DEF RecordingEvent, Event, EventType, EventInfo
  <2>2. TypeOK'
    BY <1>1, <1>5, <2>1 DEF RecordingReports, TypeOK, process, acsMedia
  <2>3. ~Unplaced
    BY <1>5 DEF RecordingReports, Inv, NothingHappens
  <2>4. Ending' /\ ~Unplaced'
    BY <1>1, <1>5, <2>3 DEF RecordingReports, Ending, Unplaced, process
  <2>5. QED BY <2>2, <2>4 DEF Inv
<1>6. ASSUME NEW e \in owed, Deliver(e) PROVE Inv'
  <2>1. Reading(e, stored) \in Request
    BY <1>1, <1>6 DEF Reading, Request, TypeOK
  <2>2. request' \in [Worker -> Request]
    BY <1>1, <1>6, <2>1 DEF Deliver, TypeOK
  <2>3. TypeOK'
    BY <1>1, <1>6, <2>2 DEF Deliver, TypeOK, acsMedia, acsRecording
  <2>4. ~Unplaced
    BY <1>6 DEF Inv, NothingHappens
  <2>5. Ending' /\ ~Unplaced'
    BY <1>1, <1>6, <2>4 DEF Deliver, Ending, Unplaced
  <2>6. QED BY <2>3, <2>5 DEF Inv
<1>7. QED BY <1>2, <1>3, <1>4, <1>5, <1>6

LEMMA ConversationKeepsInv ==
  ASSUME Inv, NEW w \in Worker,
         \/ HandleCallConnected(w) \/ HandlePlayCompleted(w)
         \/ HandleRecognizeFailed(w) \/ HandleSilence(w)
  PROVE  Inv'
<1>1. TypeOK
  BY DEF Inv
<1>2. {"CallConnected", "PlayCompleted", "RecognizeFailed", "RecognizeCompleted"} \subseteq EventType
  BY DEF EventType
<1>3. session \in Session
  BY <1>1 DEF TypeOK
<1>4. CASE HandleCallConnected(w)
  <2> DEFINE r == OnCallConnected(Marked(w))
  <2>1. Marked(w) \in Session /\ SameEnd(session, Marked(w)) /\ ~Unplaced
    BY <1>2, <1>4, FreshEvent DEF HandleCallConnected
  <2>2. ResultOf(session, r)
    BY <1>3, <2>1, CallConnectedResult, ResultTransitive
  <2>3. Converse(w, r) /\ starting' \in Nat /\ recStopped' \in BOOLEAN
    BY <1>1, <1>4 DEF HandleCallConnected, TypeOK
  <2> HIDE DEF r
  <2>4. QED BY <2>1, <2>2, <2>3, ConverseKeepsInv
<1>5. CASE HandlePlayCompleted(w)
  <2> DEFINE r == OnPlayCompleted(Marked(w), request[w].event.info)
  <2>1. Marked(w) \in Session /\ SameEnd(session, Marked(w)) /\ ~Unplaced
    BY <1>2, <1>5, FreshEvent DEF HandlePlayCompleted
  <2>2. ResultOf(session, r)
    BY <1>3, <2>1, PlayCompletedResult, ResultTransitive
  <2>3. Converse(w, r) /\ starting' \in Nat /\ recStopped' \in BOOLEAN
    BY <1>1, <1>5 DEF HandlePlayCompleted, TypeOK, Session
  <2> HIDE DEF r
  <2>4. QED BY <2>1, <2>2, <2>3, ConverseKeepsInv
<1>6. CASE HandleRecognizeFailed(w)
  <2> DEFINE r == OnRecognizeFailed(Marked(w))
  <2>1. Marked(w) \in Session /\ SameEnd(session, Marked(w)) /\ ~Unplaced
    BY <1>2, <1>6, FreshEvent DEF HandleRecognizeFailed
  <2>2. ResultOf(session, r)
    BY <1>3, <2>1, RecognizeFailedResult, ResultTransitive
  <2>3. Converse(w, r) /\ starting' \in Nat /\ recStopped' \in BOOLEAN
    BY <1>1, <1>6 DEF HandleRecognizeFailed, TypeOK
  <2> HIDE DEF r
  <2>4. QED BY <2>1, <2>2, <2>3, ConverseKeepsInv
<1>7. CASE HandleSilence(w)
  <2> DEFINE r == OnSilence(Marked(w))
  <2>1. Marked(w) \in Session /\ SameEnd(session, Marked(w)) /\ ~Unplaced
    BY <1>2, <1>7, FreshEvent DEF HandleSilence
  <2>2. ResultOf(session, r)
    BY <1>3, <2>1, SilenceResult, ResultTransitive
  <2>3. Converse(w, r) /\ starting' \in Nat /\ recStopped' \in BOOLEAN
    BY <1>1, <1>7 DEF HandleSilence, TypeOK
  <2> HIDE DEF r
  <2>4. QED BY <2>1, <2>2, <2>3, ConverseKeepsInv
<1>8. QED BY <1>4, <1>5, <1>6, <1>7

LEMMA ReasoningKeepsInv ==
  ASSUME Inv, NEW w \in Worker, HandleSpeech(w) \/ AgentAnswers(w)
  PROVE  Inv'
<1>1. TypeOK /\ Ending /\ session \in Session
  BY DEF Inv, TypeOK
<1>2. CASE HandleSpeech(w)
  <2>1. "RecognizeCompleted" \in EventType
    BY DEF EventType
  <2>2. /\ request[w].event \in Event /\ ~Unplaced
        /\ Marked(w) \in Session /\ SameEnd(session, Marked(w))
    BY <1>2, <2>1, FreshEvent DEF HandleSpeech
  <2>3. Reasoning(request[w].event) \in Request
    BY <2>2 DEF Reasoning, Request
  <2>4. request' \in [Worker -> Request]
    BY <1>1, <1>2, <2>3 DEF HandleSpeech, TypeOK
  <2>5. TypeOK'
    BY <1>1, <1>2, <2>2, <2>4 DEF HandleSpeech, TypeOK, acsMedia, acsRecording
  <2>6. ~Unplaced'
    BY <1>2, <2>2 DEF HandleSpeech, Unplaced
  <2>7. Ending'
    BY <1>1, <1>2, <2>2, <2>6, EndingKept DEF HandleSpeech
  <2>8. QED BY <2>5, <2>6, <2>7 DEF Inv
<1>3. CASE AgentAnswers(w)
  <2>1. ~Unplaced
    BY <1>3, InProgress DEF AgentAnswers
  <2>2. PICK response \in Response :
          LET result == OnAgentResponse(session, response) IN
          /\ session' = result.session
          /\ stored' = (stored \/ result.command # None)
          /\ Issue(result.command)
    BY <1>3 DEF AgentAnswers
  <2> DEFINE r == OnAgentResponse(session, response)
  <2>3. ResultOf(session, r)
    BY <1>1, LocalCallAssumption, AgentResponseResult
  <2>4. session' = r.session /\ stored' \in BOOLEAN /\ Issue(r.command)
    BY <1>1, <2>2 DEF TypeOK
  <2> HIDE DEF r
  <2>5. session' \in Session /\ SameEnd(session, session') /\ r.command \in Command
    BY <2>3, <2>4 DEF ResultOf
  <2>6. /\ line' \in {"ringing", "up", "down"}
        /\ ops' \in SUBSET [id : Nat, context : MediaContext]
        /\ opCount' \in Nat
        /\ owed' \in SUBSET Event
    BY <1>1, <2>1, <2>4, <2>5, IssueType
  <2>7. request' \in [Worker -> Request]
    <3>1. Idle \in Request
      BY DEF Idle, Request
    <3>2. QED BY <1>1, <1>3, <3>1 DEF AgentAnswers, Done, TypeOK
  <2>8. TypeOK'
    BY <1>1, <1>3, <2>4, <2>5, <2>6, <2>7 DEF AgentAnswers, TypeOK, acsRecording
  <2>9. ~Unplaced'
    BY <2>6 DEF Unplaced
  <2>10. Ending'
    BY <1>1, <1>3, <2>1, <2>5, <2>9, EndingKept DEF AgentAnswers
  <2>11. QED BY <2>8, <2>9, <2>10 DEF Inv
<1>4. QED BY <1>2, <1>3

LEMMA IgnoringKeepsInv ==
  ASSUME Inv, NEW w \in Worker, IgnoreEvent(w)
  PROVE  Inv'
<1>1. TypeOK /\ Ending /\ ~Unplaced
  BY InProgress DEF Inv, IgnoreEvent
<1>2. request' \in [Worker -> Request]
  <2>1. Idle \in Request
    BY DEF Idle, Request
  <2>2. QED BY <1>1, <2>1 DEF IgnoreEvent, Done, TypeOK
<1>3. TypeOK'
  BY <1>1, <1>2 DEF IgnoreEvent, TypeOK, acsMedia, acsRecording
<1>4. Ending' /\ ~Unplaced'
  BY <1>1 DEF IgnoreEvent, Ending, Unplaced
<1>5. QED BY <1>3, <1>4 DEF Inv

LEMMA DisconnectKeepsInv ==
  ASSUME Inv, NEW w \in Worker, HandleCallDisconnected(w)
  PROVE  Inv'
<1> DEFINE marked == Marked(w)
           s == OnCallDisconnected(marked)
<1>1. TypeOK /\ Ending
  BY DEF Inv
<1>2. marked \in Session /\ SameEnd(session, marked) /\ ~Unplaced
  <2>1. "CallDisconnected" \in EventType
    BY DEF EventType
  <2>2. QED BY <2>1, FreshEvent DEF HandleCallDisconnected
<1>3. request' \in [Worker -> Request]
  <2>1. Idle \in Request
    BY DEF Idle, Request
  <2>2. QED BY <1>1, <2>1 DEF HandleCallDisconnected, Done, TypeOK
<1> HIDE DEF marked
<1>4. /\ s \in Session /\ s.ended /\ s.outcome # None
      /\ s.completion_logged = session.completion_logged
  BY <1>2 DEF OnCallDisconnected, Session, SameEnd, CallOutcome, None
<1> HIDE DEF s
<1>5. ~Unplaced' /\ line' # "failed"
  BY <1>2 DEF HandleCallDisconnected, Unplaced
<1>6. CASE marked.ended
  <2>1. session' = marked /\ UNCHANGED <<timer, recorded, posting, posted>> /\ stored' = TRUE
    BY <1>6 DEF HandleCallDisconnected, marked
  <2>2. Ending'
    BY <1>1, <1>2, <1>5, <2>1, EndingKept
  <2>3. TypeOK'
    BY <1>1, <1>2, <1>3, <2>1 DEF HandleCallDisconnected, TypeOK, acsMedia, acsRecording
  <2>4. QED BY <1>5, <2>2, <2>3 DEF Inv
<1>7. CASE ~marked.ended
  <2>1. /\ recorded' = Append(recorded, s.outcome)
        /\ \/ session' = s /\ stored' = TRUE /\ timer' = TRUE /\ UNCHANGED posting
           \/ Finalize(s) /\ CancelTimer(s)
    BY <1>7 DEF HandleCallDisconnected, marked, s
  <2>2. ~session.ended /\ ~session.completion_logged
    BY <1>1, <1>2, <1>7 DEF SameEnd, Ending
  <2>3. recorded = << >>
    BY <1>1, <1>2, <2>2 DEF Ending, Unplaced
  <2>4. s.outcome \in CallOutcome /\ recorded' = <<s.outcome>>
    BY <1>4, <2>1, <2>3 DEF Session
  <2>5. /\ session' \in Session /\ stored' \in BOOLEAN /\ posting' \in Nat
        /\ timer' \in BOOLEAN /\ recorded' \in Seq(CallOutcome)
        /\ Ending'
    <3>1. UNCHANGED <<posted, line>>
      BY DEF HandleCallDisconnected
    <3>2. CASE Finalize(s) /\ CancelTimer(s)
      BY <1>2, <1>4, <2>4, <3>1, <3>2, FinalizeEnds
    <3>3. CASE session' = s /\ stored' = TRUE /\ timer' = TRUE /\ UNCHANGED posting
      <4>1. recorded' \in Seq(CallOutcome) /\ posting' \in Nat
        BY <1>1, <2>4, <3>3 DEF TypeOK
      <4>2. Ending'
        BY <1>1, <1>4, <1>5, <2>2, <2>4, <3>1, <3>3 DEF Ending
      <4>3. QED BY <1>4, <3>3, <4>1, <4>2
    <3>4. QED BY <2>1, <3>2, <3>3
  <2>6. TypeOK'
    BY <1>1, <1>3, <2>5 DEF HandleCallDisconnected, TypeOK, acsMedia, acsRecording
  <2>7. QED BY <1>5, <2>5, <2>6 DEF Inv
<1>8. QED BY <1>6, <1>7

LEMMA RecordingFileKeepsInv ==
  ASSUME Inv, NEW w \in Worker, HandleRecordingFile(w)
  PROVE  Inv'
<1> DEFINE info == request[w].event.info
           s == OnRecordingFile(Marked(w), info)
<1>1. TypeOK /\ Ending
  BY DEF Inv
<1>2. Marked(w) \in Session /\ SameEnd(session, Marked(w)) /\ ~Unplaced
  <2>1. "RecordingFileStatusUpdated" \in EventType
    BY DEF EventType
  <2>2. QED BY <2>1, FreshEvent DEF HandleRecordingFile
<1>3. request' \in [Worker -> Request]
  <2>1. Idle \in Request
    BY DEF Idle, Request
  <2>2. QED BY <1>1, <2>1 DEF HandleRecordingFile, Done, TypeOK
<1>4. s \in Session /\ SameEnd(session, s)
  BY <1>2 DEF OnRecordingFile, Session, SameEnd
<1>5. UNCHANGED <<recorded, posted, line>>
  BY DEF HandleRecordingFile
<1>6. \/ s.ended /\ Finalize(s) /\ CancelTimer(s)
      \/ session' = s /\ stored' = TRUE /\ UNCHANGED <<timer, posting>>
  BY DEF HandleRecordingFile
<1> HIDE DEF s
<1>7. ~Unplaced'
  BY <1>2, <1>5 DEF Unplaced
<1>8. /\ session' \in Session /\ stored' \in BOOLEAN /\ posting' \in Nat
      /\ timer' \in BOOLEAN /\ recorded' \in Seq(CallOutcome)
      /\ Ending'
  <2>1. CASE s.ended /\ Finalize(s) /\ CancelTimer(s)
    <3>1. session.ended /\ s.outcome # None /\ s.completion_logged = session.completion_logged
      BY <1>1, <1>4, <2>1 DEF SameEnd, Ending
    <3>2. PICK o \in CallOutcome : recorded' = <<o>>
      BY <1>1, <1>5, <3>1 DEF Ending
    <3>3. QED BY <1>2, <1>4, <1>5, <2>1, <3>1, <3>2, FinalizeEnds
  <2>2. CASE session' = s /\ stored' = TRUE /\ UNCHANGED <<timer, posting>>
    <3>1. Ending'
      BY <1>1, <1>2, <1>4, <1>5, <1>7, <2>2, EndingKept
    <3>2. QED BY <1>1, <1>4, <1>5, <2>2, <3>1 DEF TypeOK
  <2>3. QED BY <1>6, <2>1, <2>2
<1>9. TypeOK'
  BY <1>1, <1>3, <1>8 DEF HandleRecordingFile, TypeOK, acsMedia, acsRecording
<1>10. QED BY <1>7, <1>8, <1>9 DEF Inv

LEMMA BackgroundKeepsInv ==
  ASSUME Inv, Background
  PROVE  Inv'
<1>1. TypeOK /\ Ending /\ session \in Session
  BY DEF Inv, TypeOK
<1>2. CASE TimerFires
  <2>1. session.ended /\ ~session.completion_logged /\ session.outcome # None
    BY <1>1, <1>2 DEF TimerFires, Ending
  <2>2. ~Unplaced
    BY <2>1 DEF Inv, NothingHappens, NewSession
  <2>3. UNCHANGED <<recorded, posted, line>> /\ timer' = FALSE
    BY <1>2 DEF TimerFires
  <2>4. /\ session' \in Session /\ stored' \in BOOLEAN /\ posting' \in Nat
        /\ timer' \in BOOLEAN /\ recorded' \in Seq(CallOutcome)
        /\ Ending'
    <3>1. CASE stored
      <4>1. Finalize(session)
        BY <1>2, <2>1, <3>1 DEF TimerFires
      <4>2. PICK o \in CallOutcome : recorded' = <<o>>
        BY <1>1, <2>1, <2>3 DEF Ending
      <4>3. QED BY <1>1, <2>1, <2>2, <2>3, <4>1, <4>2, FinalizeEnds
    <3>2. CASE ~stored
      <4>1. UNCHANGED <<session, stored, posting>>
        BY <1>2, <3>2 DEF TimerFires
      <4>2. QED BY <1>1, <2>3, <4>1 DEF TypeOK, Ending
    <3>3. QED BY <3>1, <3>2
  <2>5. TypeOK'
    BY <1>1, <1>2, <2>4 DEF TimerFires, TypeOK, acsMedia, acsRecording
  <2>6. QED BY <2>2, <2>3, <2>4, <2>5 DEF Inv, Unplaced
<1>3. CASE RecordingStarts
  <2>1. ~Unplaced
    BY <1>3 DEF RecordingStarts, Inv, NothingHappens
  <2>2. session' \in Session /\ SameEnd(session, session')
    BY <1>1, <1>3 DEF RecordingStarts, Session, SameEnd
  <2>3. TypeOK'
    BY <1>1, <1>3, <2>2 DEF RecordingStarts, TypeOK, acsMedia
  <2>4. Ending' /\ ~Unplaced'
    BY <1>1, <1>3, <2>1, <2>2, EndingKept DEF RecordingStarts, Unplaced
  <2>5. QED BY <2>3, <2>4 DEF Inv
<1>4. CASE RecordingFailsToStart
  <2>1. ~Unplaced
    BY <1>4 DEF RecordingFailsToStart, Inv, NothingHappens
  <2>2. TypeOK'
    BY <1>1, <1>4 DEF RecordingFailsToStart, TypeOK, acsMedia, acsRecording
  <2>3. Ending' /\ ~Unplaced'
    BY <1>1, <1>4, <2>1 DEF RecordingFailsToStart, Ending, Unplaced
  <2>4. QED BY <2>2, <2>3 DEF Inv
<1>5. CASE PostOutcome
  <2>1. session.ended /\ session.completion_logged
    BY <1>1, <1>5 DEF PostOutcome, Ending, TypeOK
  <2>2. ~Unplaced
    BY <2>1 DEF Inv, NothingHappens, NewSession
  <2> DEFINE payload == [outcome |-> session.outcome, url |-> session.recording_url]
  <2>3. payload \in Payload
    BY <1>1, <2>1 DEF Payload, Session, Ending
  <2>4. posted' = Append(posted, payload)
    BY <1>5 DEF PostOutcome
  <2> HIDE DEF payload
  <2>5. posted' \in Seq(Payload) /\ Len(posted') = Len(posted) + 1 /\ Len(posted) \in Nat
    BY <1>1, <2>3, <2>4 DEF TypeOK
  <2>6. posting' \in Nat /\ posting' + Len(posted') = posting + Len(posted)
    BY <1>1, <1>5, <2>5 DEF PostOutcome, TypeOK
  <2>7. TypeOK'
    BY <1>1, <1>5, <2>5, <2>6 DEF PostOutcome, TypeOK, acsMedia, acsRecording
  <2>8. Ending' /\ ~Unplaced'
    BY <1>1, <1>5, <2>1, <2>2, <2>6 DEF PostOutcome, Ending, Unplaced
  <2>9. QED BY <2>7, <2>8 DEF Inv
<1>6. QED BY <1>2, <1>3, <1>4, <1>5 DEF Background

LEMMA InvStep == Inv /\ [Next]_vars => Inv'
<1> SUFFICES ASSUME Inv, [Next]_vars PROVE Inv'
  OBVIOUS
<1>1. ASSUME NEW w \in Worker, Handle(w) PROVE Inv'
  BY <1>1, IgnoringKeepsInv, ConversationKeepsInv, ReasoningKeepsInv,
     DisconnectKeepsInv, RecordingFileKeepsInv DEF Handle
<1>2. CASE UNCHANGED vars
  BY <1>2 DEF vars, process, acsMedia, acsRecording, Inv, TypeOK, Ending, NothingHappens, Unplaced
<1>3. QED
  BY <1>1, <1>2, PlacingKeepsInv, AcsKeepsInv, BackgroundKeepsInv DEF Next

\* Inv holds throughout, whatever ACS, the agent and the timer do.
THEOREM Invariance == Spec => []Inv
BY InvInit, InvStep, PTL DEF Spec

(***************************************************************************)
(* Type correctness of LocalCall.  In particular a result that is posted   *)
(* always has an outcome (PostOutcome in _deliver, after                   *)
(* _handle_call_disconnected has defaulted it).                            *)
(***************************************************************************)
THEOREM TypeCorrect == Spec => []TypeOK
<1>1. Inv => TypeOK
  BY DEF Inv
<1>2. QED BY <1>1, Invariance, PTL

(***************************************************************************)
(* A finalized call has no timer left and was recorded: neither a late     *)
(* recording report nor a repeated disconnect can post it a second time    *)
(* (_finalize_disconnected_session, _cancel_pending_finalize_task).        *)
(***************************************************************************)
THEOREM FinalizedStaysQuiet == Spec => []FinalizedIsQuiet
<1>1. Inv => FinalizedIsQuiet
  <2>1. \A o : <<o>> # << >>
    OBVIOUS
  <2>2. QED BY <2>1 DEF Inv, Ending, FinalizedIsQuiet
<1>2. QED BY <1>1, Invariance, PTL

(***************************************************************************)
(* Refinement: the webhook handlers, the finalize timer and the failing    *)
(* placement implement CallContract -- one verdict recorded, then one      *)
(* result posted, and nothing after that.                                  *)
(***************************************************************************)
LEMMA ContractInit == Init => Contract!Init
BY DEF Init, Contract!Init, Phase, NewSession

\* Most steps leave phase, verdicts and posts alone.
LEMMA ContractStutter ==
  ASSUME Inv, Inv', SameEnd(session, session'), Unplaced' <=> Unplaced,
         Unplaced => line' = line, recorded' = recorded, UNCHANGED <<posting, posted>>
  PROVE  UNCHANGED Contract!vars
BY DEF Contract!vars, Phase, Unplaced, SameEnd

\* Finalize(s) is Close after the disconnect, EndAndClose with it, and nothing
\* once the completion is logged.
LEMMA ContractFinalize ==
  ASSUME Inv, Inv', ~Unplaced, NEW s \in Session, s.ended,
         s.completion_logged = session.completion_logged,
         session.ended => recorded' = recorded,
         Finalize(s), UNCHANGED <<line, posted>>
  PROVE  [Contract!Next]_(Contract!vars)
<1>1. session'.ended /\ session'.completion_logged
  BY DEF Finalize, Session
<1>2. Phase' = "closed"
  BY <1>1 DEF Phase, Unplaced
<1>3. posting' + Len(posted') = 1
  BY <1>1 DEF Inv, Ending
<1>4. \E o \in CallOutcome : recorded' = <<o>>
  BY <1>1 DEF Inv, Ending
<1>5. CASE session.completion_logged
  <2>1. session.ended /\ Phase = "closed" /\ posting + Len(posted) = 1
    BY <1>5 DEF Inv, Ending, Phase, Unplaced
  <2>2. QED BY <1>2, <1>3, <2>1 DEF Contract!vars
<1>6. CASE session.ended /\ ~session.completion_logged
  <2>1. Phase = "ended"
    BY <1>6 DEF Phase, Unplaced
  <2>2. QED BY <1>2, <1>3, <1>6, <2>1 DEF Contract!Next, Contract!Close
<1>7. CASE ~session.ended
  <2>1. Phase = "open"
    BY <1>7 DEF Phase, Unplaced, Inv, Ending
  <2>2. QED BY <1>2, <1>3, <1>4, <2>1 DEF Contract!Next, Contract!EndAndClose
<1>8. QED BY <1>5, <1>6, <1>7

LEMMA ContractPlacing ==
  ASSUME Inv, Inv', PlaceCall \/ PlaceCallFails
  PROVE  Contract!Next
<1>1. Phase = "idle" /\ recorded = << >> /\ ~session.ended /\ ~session.completion_logged
  BY DEF Inv, Phase, Unplaced, PlaceCall, PlaceCallFails, NothingHappens, Ending, NewSession
<1>2. CASE PlaceCall
  <2>1. Phase' = "open" /\ UNCHANGED <<recorded, posting, posted>>
    BY <1>1, <1>2 DEF PlaceCall, Phase
  <2>2. QED BY <1>1, <2>1 DEF Contract!Next, Contract!Place
<1>3. CASE PlaceCallFails
  <2>1. recorded' = <<"failed">> /\ Phase' = "failed" /\ UNCHANGED <<posting, posted>>
    BY <1>1, <1>3 DEF PlaceCallFails, Phase
  <2>2. QED BY <1>1, <2>1 DEF Contract!Next, Contract!PlaceFails
<1>4. QED BY <1>2, <1>3

LEMMA ContractHandle ==
  ASSUME Inv, Inv', NEW w \in Worker, Handle(w)
  PROVE  [Contract!Next]_(Contract!vars)
<1>1. session \in Session /\ TypeOK
  BY DEF Inv, TypeOK
<1>2. ~Unplaced
  <2>1. request[w].stage # "idle"
    BY DEF Handle, IgnoreEvent, HandleCallConnected, HandlePlayCompleted, HandleRecognizeFailed,
           HandleSilence, HandleSpeech, AgentAnswers, HandleCallDisconnected,
           HandleRecordingFile, Fresh
  <2>2. QED BY <2>1, InProgress
<1>3. {"CallConnected", "PlayCompleted", "RecognizeFailed", "RecognizeCompleted",
       "CallDisconnected", "RecordingFileStatusUpdated"} \subseteq EventType
  BY DEF EventType
<1>4. ASSUME NEW r, ResultOf(session, r), Converse(w, r)
      PROVE  UNCHANGED Contract!vars
  <2>1. session' = r.session /\ SameEnd(session, session') /\ r.command \in Command
    BY <1>4 DEF Converse, ResultOf
  <2>2. ~Unplaced'
    BY <1>1, <1>2, <1>4, <2>1, IssueType DEF Converse, Unplaced
  <2>3. QED BY <1>2, <1>4, <2>1, <2>2, ContractStutter DEF Converse
<1>5. CASE IgnoreEvent(w)
  BY <1>2, <1>5, ContractStutter DEF IgnoreEvent, Unplaced, SameEnd
<1>6. CASE HandleCallConnected(w)
  <2> DEFINE r == OnCallConnected(Marked(w))
  <2>1. ResultOf(session, r)
    BY <1>1, <1>3, <1>6, FreshEvent, CallConnectedResult, ResultTransitive
    DEF HandleCallConnected
  <2>2. Converse(w, r)
    BY <1>6 DEF HandleCallConnected
  <2> HIDE DEF r
  <2>3. QED BY <1>4, <2>1, <2>2
<1>7. CASE HandlePlayCompleted(w)
  <2> DEFINE r == OnPlayCompleted(Marked(w), request[w].event.info)
  <2>1. ResultOf(session, r)
    BY <1>1, <1>3, <1>7, FreshEvent, PlayCompletedResult, ResultTransitive
    DEF HandlePlayCompleted
  <2>2. Converse(w, r)
    BY <1>7 DEF HandlePlayCompleted
  <2> HIDE DEF r
  <2>3. QED BY <1>4, <2>1, <2>2
<1>8. CASE HandleRecognizeFailed(w)
  <2> DEFINE r == OnRecognizeFailed(Marked(w))
  <2>1. ResultOf(session, r)
    BY <1>1, <1>3, <1>8, FreshEvent, RecognizeFailedResult, ResultTransitive
    DEF HandleRecognizeFailed
  <2>2. Converse(w, r)
    BY <1>8 DEF HandleRecognizeFailed
  <2> HIDE DEF r
  <2>3. QED BY <1>4, <2>1, <2>2
<1>9. CASE HandleSilence(w)
  <2> DEFINE r == OnSilence(Marked(w))
  <2>1. ResultOf(session, r)
    BY <1>1, <1>3, <1>9, FreshEvent, SilenceResult, ResultTransitive
    DEF HandleSilence
  <2>2. Converse(w, r)
    BY <1>9 DEF HandleSilence
  <2> HIDE DEF r
  <2>3. QED BY <1>4, <2>1, <2>2
<1>10. CASE HandleSpeech(w)
  BY <1>2, <1>3, <1>10, FreshEvent, ContractStutter DEF HandleSpeech, Unplaced
<1>11. CASE AgentAnswers(w)
  <2>1. PICK response \in Response :
          /\ session' = OnAgentResponse(session, response).session
          /\ Issue(OnAgentResponse(session, response).command)
    BY <1>11 DEF AgentAnswers
  <2> DEFINE r == OnAgentResponse(session, response)
  <2>2. ResultOf(session, r)
    BY <1>1, LocalCallAssumption, AgentResponseResult
  <2>3. session' = r.session /\ Issue(r.command)
    BY <2>1
  <2> HIDE DEF r
  <2>4. SameEnd(session, session') /\ ~Unplaced'
    BY <1>1, <1>2, <2>2, <2>3, IssueType DEF ResultOf, Unplaced
  <2>5. UNCHANGED <<recorded, posting, posted>>
    BY <1>11 DEF AgentAnswers
  <2>6. QED BY <1>2, <2>4, <2>5, ContractStutter
<1>12. CASE HandleCallDisconnected(w)
  <2> DEFINE s == OnCallDisconnected(Marked(w))
  <2>1. Marked(w) \in Session /\ SameEnd(session, Marked(w))
    BY <1>3, <1>12, FreshEvent DEF HandleCallDisconnected
  <2>2. s \in Session /\ s.ended /\ s.completion_logged = session.completion_logged
    BY <2>1 DEF OnCallDisconnected, Session, SameEnd, CallOutcome
  <2>3. UNCHANGED <<posted, line>>
    BY <1>12 DEF HandleCallDisconnected
  <2>4. CASE Marked(w).ended
    <3>1. session' = Marked(w) /\ UNCHANGED <<recorded, posting>>
      BY <1>12, <2>4 DEF HandleCallDisconnected
    <3>2. QED BY <1>2, <2>1, <2>3, <3>1, ContractStutter DEF Unplaced
  <2>5. CASE ~Marked(w).ended
    <3>1. ~session.ended /\ ~session.completion_logged
      BY <2>1, <2>5 DEF SameEnd, Inv, Ending
    <3>2. \/ Finalize(s)
          \/ session' = s /\ UNCHANGED posting
      BY <1>12, <2>5 DEF HandleCallDisconnected
    <3> HIDE DEF s
    <3>3. CASE Finalize(s)
      BY <1>2, <2>2, <2>3, <3>1, <3>3, ContractFinalize
    <3>4. CASE session' = s /\ UNCHANGED posting
      <4>1. Phase = "open" /\ Phase' = "ended"
        BY <1>2, <2>2, <2>3, <3>1, <3>4 DEF Phase, Unplaced
      <4>2. \E o \in CallOutcome : recorded' = <<o>>
        BY <2>2, <3>4 DEF Inv, Ending
      <4>3. QED BY <2>3, <3>4, <4>1, <4>2 DEF Contract!Next, Contract!End
    <3>5. QED BY <3>2, <3>3, <3>4
  <2>6. QED BY <2>4, <2>5
<1>13. CASE HandleRecordingFile(w)
  <2> DEFINE s == OnRecordingFile(Marked(w), request[w].event.info)
  <2>1. Marked(w) \in Session /\ SameEnd(session, Marked(w))
    BY <1>3, <1>13, FreshEvent DEF HandleRecordingFile
  <2>2. s \in Session /\ SameEnd(session, s)
    BY <2>1 DEF OnRecordingFile, Session, SameEnd
  <2>3. UNCHANGED <<recorded, posted, line>>
    BY <1>13 DEF HandleRecordingFile
  <2>4. \/ s.ended /\ Finalize(s)
        \/ session' = s /\ UNCHANGED posting
    BY <1>13 DEF HandleRecordingFile
  <2> HIDE DEF s
  <2>5. CASE s.ended /\ Finalize(s)
    BY <1>2, <2>2, <2>3, <2>5, ContractFinalize DEF SameEnd
  <2>6. CASE session' = s /\ UNCHANGED posting
    BY <1>2, <2>2, <2>3, <2>6, ContractStutter DEF Unplaced
  <2>7. QED BY <2>4, <2>5, <2>6
<1>14. QED
  BY <1>5, <1>6, <1>7, <1>8, <1>9, <1>10, <1>11, <1>12, <1>13 DEF Handle

LEMMA ContractBackground ==
  ASSUME Inv, Inv', Background
  PROVE  [Contract!Next]_(Contract!vars)
<1>1. TypeOK /\ Ending /\ session \in Session
  BY DEF Inv, TypeOK
<1>2. CASE TimerFires
  <2>1. session.ended /\ ~Unplaced /\ UNCHANGED <<recorded, posted, line>>
    BY <1>1, <1>2 DEF TimerFires, Ending, Inv, NothingHappens, NewSession
  <2>2. \/ Finalize(session)
        \/ UNCHANGED <<session, posting>>
    BY <1>2 DEF TimerFires
  <2>3. CASE Finalize(session)
    BY <1>1, <2>1, <2>3, ContractFinalize
  <2>4. CASE UNCHANGED <<session, posting>>
    BY <2>1, <2>4, ContractStutter DEF SameEnd, Unplaced
  <2>5. QED BY <2>2, <2>3, <2>4
<1>3. CASE RecordingStarts
  <2>1. SameEnd(session, session')
    BY <1>1, <1>3 DEF RecordingStarts, Session, SameEnd
  <2>2. QED BY <1>3, <2>1, ContractStutter DEF RecordingStarts, Unplaced
<1>4. CASE RecordingFailsToStart
  BY <1>4, ContractStutter DEF RecordingFailsToStart, SameEnd, Unplaced
<1>5. CASE PostOutcome
  <2>1. Len(posted') = Len(posted) + 1 /\ Len(posted) \in Nat
    BY <1>1, <1>5 DEF PostOutcome, TypeOK
  <2>2. posting' + Len(posted') = posting + Len(posted)
    BY <1>1, <1>5, <2>1 DEF PostOutcome, TypeOK
  <2>3. Phase' = Phase
    BY <1>5 DEF PostOutcome, Phase
  <2>4. QED BY <1>5, <2>2, <2>3 DEF PostOutcome, Contract!vars
<1>6. QED BY <1>2, <1>3, <1>4, <1>5 DEF Background

LEMMA ContractAcs ==
  ASSUME Inv, Inv', Answer \/ LineDrops \/ Media \/ RecordingReports \/ \E e \in owed : Deliver(e)
  PROVE  UNCHANGED Contract!vars
<1>1. UNCHANGED <<session, recorded, posting, posted>>
  BY DEF Answer, LineDrops, Media, MediaCompletes, MediaAborts, RecordingReports, Deliver, process
<1>2. (~Unplaced /\ ~Unplaced') \/ line' = line
  BY DEF Answer, LineDrops, Media, MediaCompletes, MediaAborts, RecordingReports, Deliver, Unplaced
<1>3. QED BY <1>1, <1>2, ContractStutter DEF SameEnd, Unplaced

\* The handlers implement CallContract: one outcome is recorded and one result
\* posted per call, in that order (_handle_call_disconnected,
\* _finalize_disconnected_session).
THEOREM CallKeepsContract == Spec => KeepsContract
<1>1. Inv /\ Inv' /\ [Next]_vars => [Contract!Next]_(Contract!vars)
  <2> SUFFICES ASSUME Inv, Inv', [Next]_vars PROVE [Contract!Next]_(Contract!vars)
    OBVIOUS
  <2>1. ASSUME NEW w \in Worker, Handle(w) PROVE [Contract!Next]_(Contract!vars)
    BY <2>1, ContractHandle
  <2>2. CASE UNCHANGED vars
    BY <2>2 DEF vars, process, Contract!vars, Phase
  <2>3. QED
    BY <2>1, <2>2, ContractPlacing, ContractAcs, ContractBackground DEF Next
<1>2. QED
  BY <1>1, ContractInit, Invariance, PTL DEF KeepsContract, Contract!Spec, Spec

-----------------------------------------------------------------------------
(* The conversation has one turn at a time, walks its SOP and hangs up on  *)
(* a verdict only, for every SOP of the shape that SoundSOP states.  A     *)
(* call remembers the last MaxProcessed event ids only, so all of this     *)
(* holds as long as it has handled no more events than that.               *)

WindowOpen == Len(session.processed_event_ids) < MaxProcessed

(***************************************************************************)
(* The invariant behind OneTurn.  The turn is a token: it is a media       *)
(* operation, an event that nobody has handled, or a question to the       *)
(* agent.  It is never doubled because an operation's id is new, so that   *)
(* its completion is not among the events already marked, and because the  *)
(* request that takes an event marks it in the same step.                  *)
(***************************************************************************)
Ids == ToSet(session.processed_event_ids)

Open == owed \cup BeingRead

AtMostOne(S) == \A x, y \in S : x = y

OneToken ==
  /\ AtMostOne(ops) /\ AtMostOne(UnhandledTurns) /\ AtMostOne(AwaitedAnswers)
  /\ ops = {} \/ (UnhandledTurns = {} /\ AwaitedAnswers = {})
  /\ UnhandledTurns = {} \/ AwaitedAnswers = {}

IdsAreFresh ==
  /\ \A o \in ops : o.id \in 1..opCount
  /\ \A e \in Open \cup Ids : e.type \in TurnType =>
       e.op <= opCount /\ \A o \in ops : o.id # e.op

SilentBefore == line \in {"idle", "failed", "ringing"} => NothingHappens

Talk == OneToken /\ IdsAreFresh /\ SilentBefore

\* As far as turns go, S has no event that T has not.
TurnsAmong(S, T) == \A e \in S : e.type \in TurnType => e \in T

LEMMA UnhandledDef == UnhandledTurns = {e \in Open : e.type \in TurnType /\ e \notin Ids}
BY DEF UnhandledTurns, Open, Ids, AlreadyProcessed

\* A step that takes no turn and starts none.
LEMMA TokenKept ==
  ASSUME Talk, ops' \subseteq ops, opCount' = opCount, AwaitedAnswers' \subseteq AwaitedAnswers,
         TurnsAmong(Open', Open), Ids \subseteq Ids', TurnsAmong(Ids', Ids \cup Open)
  PROVE  OneToken' /\ IdsAreFresh' /\ UnhandledTurns' \subseteq UnhandledTurns
<1>1. UnhandledTurns' = {e \in Open' : e.type \in TurnType /\ e \notin Ids'}
  BY DEF UnhandledTurns, Open, Ids, AlreadyProcessed
<1>2. UnhandledTurns' \subseteq UnhandledTurns
  BY <1>1, UnhandledDef DEF TurnsAmong
<1>3. OneToken'
  BY <1>2 DEF Talk, OneToken, AtMostOne
<1>4. IdsAreFresh'
  BY DEF Talk, IdsAreFresh, TurnsAmong
<1>5. QED BY <1>2, <1>3, <1>4

\* A step that takes the turn and may start the next operation.
LEMMA TokenMoves ==
  ASSUME Talk, opCount \in Nat, ops = {}, NEW command,
         \/ ops' = {} /\ opCount' = opCount
         \/ ops' = {[id |-> opCount + 1, context |-> command]} /\ opCount' = opCount + 1,
         AwaitedAnswers' = {}, UnhandledTurns \subseteq Ids',
         TurnsAmong(Open', Open), Ids \subseteq Ids', TurnsAmong(Ids', Ids \cup Open),
         \A e \in Open \cup Ids : e.type \in TurnType => e.op \in Nat
  PROVE  /\ OneToken' /\ IdsAreFresh' /\ UnhandledTurns' = {}
         /\ \A o \in ops' : o.context = command
<1>1. UnhandledTurns' = {e \in Open' : e.type \in TurnType /\ e \notin Ids'}
  BY DEF UnhandledTurns, Open, Ids, AlreadyProcessed
<1>2. UnhandledTurns' = {}
  BY <1>1, UnhandledDef DEF TurnsAmong
<1>3. OneToken'
  BY <1>2 DEF OneToken, AtMostOne
<1>4. \A o \in ops' : o.id = opCount + 1 /\ o.id = opCount' /\ o.context = command
  OBVIOUS
<1>5. opCount' \in Nat /\ opCount <= opCount'
  OBVIOUS
<1>6. \A o \in ops' : o.id \in 1..opCount'
  BY <1>4, <1>5
<1>7. ASSUME NEW e \in Open' \cup Ids', e.type \in TurnType
      PROVE  e.op <= opCount' /\ \A o \in ops' : o.id # e.op
  <2>1. e \in Open \cup Ids
    BY <1>7 DEF TurnsAmong
  <2>2. e.op <= opCount /\ e.op \in Nat
    BY <1>7, <2>1 DEF Talk, IdsAreFresh
  <2>3. QED BY <1>4, <1>5, <2>2
<1>8. IdsAreFresh'
  BY <1>6, <1>7 DEF IdsAreFresh
<1>9. QED BY <1>2, <1>3, <1>4, <1>8

\* What becomes of the requests.
LEMMA RequestDone ==
  ASSUME TypeOK, NEW w \in Worker, Done(w)
  PROVE  BeingRead' \subseteq BeingRead /\ AwaitedAnswers' = AwaitedAnswers \ {w}
<1>1. request'[w].stage = "idle" /\ \A v \in Worker \ {w} : request'[v] = request[v]
  BY DEF TypeOK, Done, Idle
<1>2. QED BY <1>1 DEF BeingRead, AwaitedAnswers

LEMMA RequestReasons ==
  ASSUME TypeOK, NEW w \in Worker, NEW e,
         request' = [request EXCEPT ![w] = Reasoning(e)]
  PROVE  BeingRead' \subseteq BeingRead /\ AwaitedAnswers' = AwaitedAnswers \cup {w}
<1>1. request'[w].stage = "reasoning" /\ \A v \in Worker \ {w} : request'[v] = request[v]
  BY DEF TypeOK, Reasoning
<1>2. QED BY <1>1 DEF BeingRead, AwaitedAnswers

LEMMA RequestReads ==
  ASSUME TypeOK, NEW w \in Worker, NEW e, NEW found, request[w] = Idle,
         request' = [request EXCEPT ![w] = Reading(e, found)]
  PROVE  BeingRead' = BeingRead \cup {e} /\ AwaitedAnswers' = AwaitedAnswers
<1>1. /\ request'[w].stage = "reading" /\ request'[w].event = e
      /\ \A v \in Worker \ {w} : request'[v] = request[v]
  BY DEF TypeOK, Reading
<1>2. request[w].stage = "idle"
  BY DEF Idle
<1>3. QED BY <1>1, <1>2 DEF BeingRead, AwaitedAnswers

(***************************************************************************)
(* The inductive step, one kind of action at a time.                       *)
(***************************************************************************)
LEMMA TalkInit == Init => Talk
<1> SUFFICES ASSUME Init PROVE Talk
  OBVIOUS
<1>1. NothingHappens
  BY DEF Init, NothingHappens
<1>2. BeingRead = {} /\ AwaitedAnswers = {}
  BY <1>1 DEF NothingHappens, BeingRead, AwaitedAnswers, Idle
<1>3. Open = {} /\ ops = {} /\ Ids = {}
  BY <1>1, <1>2 DEF NothingHappens, Open, Ids, NewSession, ToSet
<1>4. UnhandledTurns = {}
  BY <1>3, UnhandledDef
<1>5. QED BY <1>1, <1>2, <1>3, <1>4 DEF Talk, OneToken, IdsAreFresh, SilentBefore, AtMostOne

\* Before the callee has answered nothing has happened.
LEMMA SilentFacts ==
  ASSUME NothingHappens
  PROVE  Open = {} /\ ops = {} /\ Ids = {} /\ AwaitedAnswers = {} /\ UnhandledTurns = {}
<1>1. BeingRead = {} /\ AwaitedAnswers = {}
  BY DEF NothingHappens, BeingRead, AwaitedAnswers, Idle
<1>2. Open = {} /\ ops = {} /\ Ids = {}
  BY <1>1 DEF NothingHappens, Open, Ids, NewSession, ToSet
<1>3. QED BY <1>1, <1>2, UnhandledDef

LEMMA EventOps ==
  ASSUME TypeOK
  PROVE  \A e \in Open : e.type \in TurnType => e \in Event /\ e.op \in Nat
<1>1. \A e \in owed : e \in Event
  BY DEF TypeOK
<1>2. \A e \in BeingRead : e.type \in TurnType => e \in Event
  BY DEF TypeOK, BeingRead, Request, NoEvent, TurnType, None
<1>3. QED BY <1>1, <1>2 DEF Open, Event

LEMMA IdsAreEvents ==
  ASSUME TypeOK
  PROVE  \A e \in Ids : e \in Event /\ e.op \in Nat
<1>1. session.processed_event_ids \in Seq(Event)
  BY DEF TypeOK, Session
<1>2. \A i \in DOMAIN session.processed_event_ids : session.processed_event_ids[i] \in Event
  BY <1>1
<1>3. QED BY <1>2 DEF Ids, ToSet, Event

\* A media operation ends and may raise one event.
LEMMA MediaKeepsTalk ==
  ASSUME Inv, Talk, NEW o \in ops, MediaCompletes(o) \/ MediaAborts(o)
  PROVE  /\ Talk' /\ ops' = {} /\ AwaitedAnswers' = {}
         /\ UnhandledTurns' \subseteq CompletionEvents(o)
<1>1. TypeOK /\ o \in [id : Nat, context : MediaContext] /\ opCount \in Nat
  BY DEF Inv, TypeOK
<1>2. ops = {o} /\ ops' = {}
  BY DEF Talk, OneToken, AtMostOne, MediaCompletes, MediaAborts
<1>3. UNCHANGED <<session, request, line, opCount>> /\ ~(line \in {"idle", "failed", "ringing"})
  BY DEF MediaCompletes, MediaAborts, process
<1>4. BeingRead' = BeingRead /\ AwaitedAnswers' = AwaitedAnswers /\ Ids' = Ids
  BY <1>3 DEF BeingRead, AwaitedAnswers, Ids
<1>5. owed' \subseteq owed \cup CompletionEvents(o)
  BY DEF MediaCompletes, MediaAborts
<1>6. PICK e : \/ e \in CompletionEvents(o) /\ owed' \subseteq owed \cup {e}
               \/ owed' \subseteq owed
  <2>1. CASE MediaCompletes(o)
    BY <2>1 DEF MediaCompletes
  <2>2. CASE MediaAborts(o)
    <3>1. \A x, y \in CompletionEvents(o) :
            x.type = "RecognizeFailed" /\ y.type = "RecognizeFailed" => x = y
      BY DEF CompletionEvents
    <3>2. QED BY <2>2, <3>1 DEF MediaAborts
  <2>3. QED BY <2>1, <2>2
<1>7. UnhandledTurns = {} /\ AwaitedAnswers = {}
  BY <1>2 DEF Talk, OneToken
<1>8. UnhandledTurns' = {x \in Open' : x.type \in TurnType /\ x \notin Ids'}
  BY DEF UnhandledTurns, Open, Ids, AlreadyProcessed
<1>9. Open' \subseteq Open \cup CompletionEvents(o)
  BY <1>4, <1>5 DEF Open
<1>10. UnhandledTurns' \subseteq CompletionEvents(o)
  BY <1>4, <1>7, <1>8, <1>9, UnhandledDef
<1>11. AtMostOne(UnhandledTurns')
  <2>1. CASE owed' \subseteq owed
    BY <1>4, <1>7, <1>8, <2>1, UnhandledDef DEF Open, AtMostOne
  <2>2. CASE owed' \subseteq owed \cup {e}
    BY <1>4, <1>7, <1>8, <2>2, UnhandledDef DEF Open, AtMostOne
  <2>3. QED BY <1>6, <2>1, <2>2
<1>12. OneToken'
  BY <1>2, <1>4, <1>7, <1>11 DEF OneToken, AtMostOne
<1>13. \A x \in CompletionEvents(o) : x.op = o.id /\ o.id <= opCount
  BY <1>1 DEF CompletionEvents, Talk, IdsAreFresh
<1>14. IdsAreFresh'
  BY <1>2, <1>3, <1>4, <1>9, <1>13 DEF Talk, IdsAreFresh
<1>15. SilentBefore'
  BY <1>3 DEF SilentBefore
<1>16. QED BY <1>2, <1>4, <1>7, <1>10, <1>12, <1>14, <1>15 DEF Talk

\* The callee answers: the first turn is the connected event.
LEMMA AnswerKeepsTalk ==
  ASSUME Inv, Talk, Answer
  PROVE  /\ Talk' /\ ops' = {} /\ AwaitedAnswers' = {}
         /\ UnhandledTurns' \subseteq {ConnectedEvent} /\ session = NewSession
<1>1. NothingHappens /\ opCount \in Nat
  BY DEF Answer, Talk, SilentBefore, Inv, TypeOK
<1>2. Open = {} /\ ops = {} /\ Ids = {} /\ AwaitedAnswers = {}
  BY <1>1, SilentFacts
<1>3. UNCHANGED <<session, request, ops, opCount>> /\ owed' = {ConnectedEvent} /\ line' = "up"
  BY <1>2 DEF Answer, process, acsMedia, Open
<1>4. BeingRead' = {} /\ AwaitedAnswers' = {} /\ Ids' = {} /\ ops' = {}
  BY <1>2, <1>3 DEF BeingRead, AwaitedAnswers, Ids, Open
<1>5. Open' = {ConnectedEvent}
  BY <1>3, <1>4 DEF Open
<1>6. UnhandledTurns' \subseteq {ConnectedEvent}
  BY <1>5 DEF UnhandledTurns, Open
<1>7. OneToken'
  BY <1>4, <1>6 DEF OneToken, AtMostOne
<1>8. IdsAreFresh'
  BY <1>1, <1>3, <1>4, <1>5 DEF IdsAreFresh, ConnectedEvent
<1>9. SilentBefore'
  BY <1>3 DEF SilentBefore
<1>10. QED BY <1>1, <1>4, <1>6, <1>7, <1>8, <1>9 DEF Talk, NothingHappens

\* Steps that only take turns away, or leave them.
LEMMA QuietKeepsTalk ==
  ASSUME Inv, Talk, ops' = ops, opCount' = opCount, AwaitedAnswers' \subseteq AwaitedAnswers,
         TurnsAmong(Open', Open), Ids \subseteq Ids', TurnsAmong(Ids', Ids \cup Open), SilentBefore'
  PROVE  Talk' /\ UnhandledTurns' \subseteq UnhandledTurns
BY TokenKept DEF Talk

Quiet ==
  /\ ops' = ops /\ AwaitedAnswers' \subseteq AwaitedAnswers
  /\ UnhandledTurns' \subseteq UnhandledTurns

LEMMA LineKeepsTalk ==
  ASSUME Inv, Talk, PlaceCall \/ PlaceCallFails \/ LineDrops \/ RecordingReports
  PROVE  Talk' /\ Quiet
<1>1. UNCHANGED <<session, request, starting, recordings, ops, opCount>>
  BY DEF PlaceCall, PlaceCallFails, LineDrops, RecordingReports, process, acsMedia, acsRecording
<1>2. BeingRead' = BeingRead /\ AwaitedAnswers' = AwaitedAnswers /\ Ids' = Ids
  BY <1>1 DEF BeingRead, AwaitedAnswers, Ids
<1>3. TurnsAmong(owed', owed)
  BY DEF PlaceCall, PlaceCallFails, LineDrops, RecordingReports, TurnsAmong, TurnType,
         DisconnectedEvent, RecordingEvent
<1>4. TurnsAmong(Open', Open)
  BY <1>2, <1>3 DEF TurnsAmong, Open
<1>5. SilentBefore'
  <2>1. CASE PlaceCall \/ PlaceCallFails
    <3>1. NothingHappens /\ owed' = owed
      BY <2>1 DEF PlaceCall, PlaceCallFails, Talk, SilentBefore
    <3>2. QED BY <1>1, <3>1 DEF SilentBefore, NothingHappens
  <2>2. CASE LineDrops
    BY <2>2 DEF LineDrops, SilentBefore
  <2>3. CASE RecordingReports
    BY <2>3 DEF RecordingReports, SilentBefore, Talk, NothingHappens
  <2>4. QED BY <2>1, <2>2, <2>3
<1>6. QED
  BY <1>1, <1>2, <1>4, <1>5, QuietKeepsTalk DEF Quiet, TurnsAmong

LEMMA DeliverKeepsTalk ==
  ASSUME Inv, Talk, NEW e \in owed, Deliver(e)
  PROVE  Talk' /\ Quiet
<1>1. PICK w \in Worker : request[w] = Idle /\ request' = [request EXCEPT ![w] = Reading(e, stored)]
  BY DEF Deliver
<1>2. BeingRead' = BeingRead \cup {e} /\ AwaitedAnswers' = AwaitedAnswers
  BY <1>1, RequestReads DEF Inv
<1>3. UNCHANGED <<session, ops, opCount, line>> /\ owed' \subseteq owed
  BY DEF Deliver, acsMedia
<1>4. Open' \subseteq Open /\ Ids' = Ids
  BY <1>2, <1>3 DEF Open, Ids
<1>5. SilentBefore'
  BY <1>3 DEF SilentBefore, Talk, NothingHappens
<1>6. QED
  BY <1>2, <1>3, <1>4, <1>5, QuietKeepsTalk DEF Quiet, TurnsAmong

LEMMA BackgroundKeepsTalk ==
  ASSUME Inv, Inv', Talk, Background
  PROVE  Talk' /\ Quiet /\ SameIds(session, session')
<1>1. UNCHANGED <<request, line, ops, opCount, owed>>
  BY DEF Background, TimerFires, RecordingStarts, RecordingFailsToStart, PostOutcome, acsMedia
<1>2. session \in Session
  BY DEF Inv, TypeOK
<1>3. SameIds(session, session')
  BY <1>2 DEF Background, TimerFires, RecordingStarts, RecordingFailsToStart, PostOutcome,
              Finalize, SameIds, Session
<1>4. BeingRead' = BeingRead /\ AwaitedAnswers' = AwaitedAnswers /\ Ids' = Ids
  BY <1>1, <1>3 DEF BeingRead, AwaitedAnswers, Ids, SameIds
<1>5. Open' = Open
  BY <1>1, <1>4 DEF Open
<1>6. SilentBefore'
  <2>1. CASE line \in {"idle", "failed", "ringing"}
    <3>1. NothingHappens /\ ~session.ended /\ posting = 0
      BY <2>1 DEF Talk, SilentBefore, NothingHappens, NewSession, Inv, Ending
    <3>2. ~timer
      BY <3>1 DEF Inv, Ending
    <3>3. FALSE
      BY <3>1, <3>2 DEF Background, TimerFires, RecordingStarts, RecordingFailsToStart, PostOutcome,
                        NothingHappens
    <3>4. QED BY <3>3
  <2>2. CASE ~(line \in {"idle", "failed", "ringing"})
    BY <1>1, <2>2 DEF SilentBefore
  <2>3. QED BY <2>1, <2>2
<1>7. QED
  BY <1>1, <1>3, <1>4, <1>5, <1>6, QuietKeepsTalk DEF Quiet, TurnsAmong

(***************************************************************************)
(* The webhook requests.                                                   *)
(***************************************************************************)

\* A request is of a call whose callee has answered or whose line is down.
LEMMA RequestIsLate ==
  ASSUME Inv, Talk, NEW w \in Worker, request[w].stage # "idle"
  PROVE  line \in {"up", "down"}
<1>1. line \in {"idle", "failed", "ringing", "up", "down"}
  BY DEF Inv, TypeOK
<1>2. QED BY <1>1 DEF Talk, SilentBefore, NothingHappens, Idle

\* A command starts an operation, or ends the line, or does nothing.
LEMMA IssueFacts ==
  ASSUME TypeOK, NEW command, Issue(command), line \in {"up", "down"}, ops = {}
  PROVE  /\ \/ ops' = {} /\ opCount' = opCount
            \/ ops' = {[id |-> opCount + 1, context |-> command]} /\ opCount' = opCount + 1
               /\ command \in MediaContext
         /\ TurnsAmong(owed', owed)
         /\ line' \in {"up", "down"}
         /\ line = "up" /\ line' = "down" => command = "hang_up"
<1>1. CASE command \in MediaContext /\ line = "up" /\ UNCHANGED <<line, owed>>
           /\ ops' = ops \cup {[id |-> opCount + 1, context |-> command]} /\ opCount' = opCount + 1
  BY <1>1 DEF TurnsAmong
<1>2. CASE command = "hang_up" /\ line = "up" /\ line' = "down"
           /\ owed' = owed \cup {DisconnectedEvent} /\ UNCHANGED acsMedia
  BY <1>2 DEF TurnsAmong, TurnType, DisconnectedEvent, acsMedia
<1>3. CASE UNCHANGED <<line, owed, acsMedia>>
  BY <1>3 DEF TurnsAmong, acsMedia
<1>4. QED BY <1>1, <1>2, <1>3 DEF Issue

\* The request that takes a fresh turn is the only one that has it.
LEMMA FreshTurn ==
  ASSUME Inv, Talk, NEW w \in Worker, NEW type \in TurnType, Fresh(w, type)
  PROVE  /\ request[w].event \in UnhandledTurns
         /\ UnhandledTurns = {request[w].event} /\ ops = {} /\ AwaitedAnswers = {}
<1>1. request[w].event \in BeingRead /\ request[w].event.type \in TurnType
  BY DEF Fresh, BeingRead
<1>2. request[w].event \in UnhandledTurns
  BY <1>1 DEF UnhandledTurns, Fresh
<1>3. QED BY <1>2 DEF Talk, OneToken, AtMostOne

LEMMA MarkedIds ==
  ASSUME Inv, WindowOpen', NEW w \in Worker, NEW type \in EventType, Fresh(w, type),
         SameIds(Marked(w), session')
  PROVE  /\ Ids' = Ids \cup {request[w].event} /\ request[w].event \in Open
         /\ WindowOpen
         /\ Marked(w).current_step = session.current_step
         /\ Marked(w).outcome = session.outcome
<1>1. session \in Session /\ request[w].event \in Event
  BY FreshEvent DEF Inv, TypeOK
<1>2. request[w].event \in Open
  BY DEF Fresh, BeingRead, Open
<1>3. Len(Marked(w).processed_event_ids) < MaxProcessed
  BY DEF WindowOpen, SameIds
<1>4. QED BY <1>1, <1>2, <1>3, LocalCallAssumption, MarkingAddsId DEF Marked, Ids, SameIds, WindowOpen

\* A handler that takes the turn and moves the conversation on.
LEMMA ConverseKeepsTalk ==
  ASSUME Inv, Talk, WindowOpen', NEW w \in Worker, NEW type \in TurnType, Fresh(w, type),
         NEW r, SameIds(Marked(w), r.session), Converse(w, r)
  PROVE  /\ Talk' /\ UnhandledTurns' = {} /\ AwaitedAnswers' = {}
         /\ \A o \in ops' : o.context = r.command
         /\ line = "up" /\ line' = "down" => r.command = "hang_up"
<1>1. TypeOK /\ opCount \in Nat
  BY DEF Inv, TypeOK
<1>2. type \in EventType
  BY DEF TurnType, EventType
<1>3. session' = r.session /\ Done(w) /\ Issue(r.command)
  BY DEF Converse
<1>4. Ids' = Ids \cup {request[w].event} /\ request[w].event \in Open
  BY <1>2, <1>3, MarkedIds
<1>5. UnhandledTurns = {request[w].event} /\ ops = {} /\ AwaitedAnswers = {}
  BY FreshTurn
<1>6. line \in {"up", "down"}
  BY RequestIsLate DEF Fresh
<1>7. BeingRead' \subseteq BeingRead /\ AwaitedAnswers' = {}
  BY <1>1, <1>3, <1>5, RequestDone
<1> HIDE DEF Done, Issue
<1>8. /\ \/ ops' = {} /\ opCount' = opCount
         \/ ops' = {[id |-> opCount + 1, context |-> r.command]} /\ opCount' = opCount + 1
      /\ TurnsAmong(owed', owed)
      /\ line' \in {"up", "down"}
      /\ line = "up" /\ line' = "down" => r.command = "hang_up"
  BY <1>1, <1>3, <1>5, <1>6, IssueFacts
<1>9. TurnsAmong(Open', Open)
  BY <1>7, <1>8 DEF TurnsAmong, Open
<1>10. \A e \in Open \cup Ids : e.type \in TurnType => e.op \in Nat
  BY <1>1, EventOps, IdsAreEvents
<1>11. /\ OneToken' /\ IdsAreFresh' /\ UnhandledTurns' = {}
       /\ \A o \in ops' : o.context = r.command
  BY <1>1, <1>4, <1>5, <1>7, <1>8, <1>9, <1>10, TokenMoves DEF TurnsAmong
<1>12. SilentBefore'
  BY <1>8 DEF SilentBefore
<1>13. QED BY <1>7, <1>8, <1>11, <1>12 DEF Talk

LEMMA AnswerOfAgentKeepsTalk ==
  ASSUME Inv, Talk, NEW w \in Worker, request[w].stage = "reasoning", Done(w),
         NEW r, SameIds(session, r.session), session' = r.session, Issue(r.command)
  PROVE  /\ Talk' /\ UnhandledTurns' = {} /\ AwaitedAnswers' = {}
         /\ \A o \in ops' : o.context = r.command
         /\ line = "up" /\ line' = "down" => r.command = "hang_up"
<1>1. TypeOK /\ opCount \in Nat
  BY DEF Inv, TypeOK
<1>2. w \in AwaitedAnswers
  BY DEF AwaitedAnswers
<1>3. AwaitedAnswers = {w} /\ ops = {} /\ UnhandledTurns = {}
  BY <1>2 DEF Talk, OneToken, AtMostOne
<1>4. line \in {"up", "down"}
  BY RequestIsLate
<1>5. BeingRead' \subseteq BeingRead /\ AwaitedAnswers' = {}
  BY <1>1, <1>3, RequestDone
<1>6. Ids' = Ids
  BY DEF SameIds, Ids
<1> HIDE DEF Done, Issue
<1>7. /\ \/ ops' = {} /\ opCount' = opCount
         \/ ops' = {[id |-> opCount + 1, context |-> r.command]} /\ opCount' = opCount + 1
      /\ TurnsAmong(owed', owed)
      /\ line' \in {"up", "down"}
      /\ line = "up" /\ line' = "down" => r.command = "hang_up"
  BY <1>1, <1>3, <1>4, IssueFacts
<1>8. TurnsAmong(Open', Open)
  BY <1>5, <1>7 DEF TurnsAmong, Open
<1>9. \A e \in Open \cup Ids : e.type \in TurnType => e.op \in Nat
  BY <1>1, EventOps, IdsAreEvents
<1>10. /\ OneToken' /\ IdsAreFresh' /\ UnhandledTurns' = {}
       /\ \A o \in ops' : o.context = r.command
  BY <1>1, <1>3, <1>5, <1>6, <1>7, <1>8, <1>9, TokenMoves DEF TurnsAmong
<1>11. SilentBefore'
  BY <1>7 DEF SilentBefore
<1>12. QED BY <1>5, <1>7, <1>10, <1>11 DEF Talk

\* Speech hands the turn to the agent.
LEMMA SpeechKeepsTalk ==
  ASSUME Inv, Talk, WindowOpen', NEW w \in Worker, HandleSpeech(w)
  PROVE  Talk' /\ ops' = {} /\ UnhandledTurns' = {}
<1>1. Fresh(w, "RecognizeCompleted") /\ "RecognizeCompleted" \in EventType \cap TurnType
  BY DEF HandleSpeech, EventType, TurnType
<1>2. session' = Marked(w) /\ UNCHANGED <<line, ops, opCount, owed>>
  BY DEF HandleSpeech, acsMedia
<1>3. Ids' = Ids \cup {request[w].event} /\ request[w].event \in Open
  BY <1>1, <1>2, MarkedIds DEF SameIds
<1>4. UnhandledTurns = {request[w].event} /\ ops = {} /\ AwaitedAnswers = {}
  BY <1>1, FreshTurn
<1>5. BeingRead' \subseteq BeingRead /\ AwaitedAnswers' = {w}
  BY <1>4, RequestReasons DEF Inv, HandleSpeech
<1>6. Open' \subseteq Open
  BY <1>2, <1>5 DEF Open
<1>7. UnhandledTurns' = {}
  <2>1. UnhandledTurns' = {e \in Open' : e.type \in TurnType /\ e \notin Ids'}
    BY DEF UnhandledTurns, Open, Ids, AlreadyProcessed
  <2>2. QED BY <1>3, <1>4, <1>6, <2>1, UnhandledDef
<1>8. OneToken'
  BY <1>2, <1>4, <1>5, <1>7 DEF OneToken, AtMostOne
<1>9. IdsAreFresh'
  BY <1>2, <1>3, <1>4, <1>6 DEF IdsAreFresh, Talk
<1>10. SilentBefore'
  <2>1. line \in {"up", "down"}
    BY <1>1, RequestIsLate DEF Fresh
  <2>2. QED BY <1>2, <2>1 DEF SilentBefore
<1>11. QED BY <1>2, <1>4, <1>7, <1>8, <1>9, <1>10 DEF Talk

\* The other requests leave the turn alone.
LEMMA OtherRequestsKeepTalk ==
  ASSUME Inv, Talk, WindowOpen', NEW w \in Worker,
         IgnoreEvent(w) \/ HandleCallDisconnected(w) \/ HandleRecordingFile(w)
  PROVE  Talk' /\ Quiet
<1>1. Done(w) /\ UNCHANGED <<line, ops, opCount, owed>> /\ request[w].stage # "idle"
  BY DEF IgnoreEvent, HandleCallDisconnected, HandleRecordingFile, Fresh, acsMedia
<1>2. BeingRead' \subseteq BeingRead /\ AwaitedAnswers' \subseteq AwaitedAnswers
  BY <1>1, RequestDone DEF Inv
<1>3. Open' \subseteq Open
  BY <1>1, <1>2 DEF Open
<1>4. SilentBefore'
  BY <1>1, RequestIsLate DEF SilentBefore
<1>5. Ids \subseteq Ids' /\ Ids' \subseteq Ids \cup Open
  <2>1. CASE IgnoreEvent(w)
    BY <2>1 DEF IgnoreEvent, Ids
  <2>2. CASE HandleCallDisconnected(w)
    <3>1. Fresh(w, "CallDisconnected") /\ "CallDisconnected" \in EventType
      BY <2>2 DEF HandleCallDisconnected, EventType
    <3>2. Marked(w) \in Session
      BY <3>1, FreshEvent
    <3>3. SameIds(Marked(w), OnCallDisconnected(Marked(w)))
      BY <3>2, HandlersKeepIds
    <3>4. OnCallDisconnected(Marked(w)) \in Session
      BY <3>2 DEF OnCallDisconnected, Session, CallOutcome
    <3>5. SameIds(Marked(w), session')
      BY <2>2, <3>2, <3>3, <3>4 DEF HandleCallDisconnected, Finalize, SameIds, Session
    <3>6. QED BY <3>1, <3>5, MarkedIds
  <2>3. CASE HandleRecordingFile(w)
    <3>1. Fresh(w, "RecordingFileStatusUpdated") /\ "RecordingFileStatusUpdated" \in EventType
      BY <2>3 DEF HandleRecordingFile, EventType
    <3>2. Marked(w) \in Session
      BY <3>1, FreshEvent
    <3> DEFINE s == OnRecordingFile(Marked(w), request[w].event.info)
    <3>3. SameIds(Marked(w), s)
      BY <3>2, HandlersKeepIds
    <3>4. s \in Session
      BY <3>2 DEF OnRecordingFile, Session
    <3>5. Finalize(s) \/ session' = s
      BY <2>3 DEF HandleRecordingFile
    <3> HIDE DEF s
    <3>6. SameIds(Marked(w), session')
      BY <3>3, <3>4, <3>5 DEF Finalize, SameIds, Session
    <3>7. QED BY <3>1, <3>6, MarkedIds
  <2>4. QED BY <2>1, <2>2, <2>3
<1>6. QED
  BY <1>1, <1>2, <1>3, <1>4, <1>5, QuietKeepsTalk DEF Quiet, TurnsAmong

\* Every conversing handler, as one.
Conversing(w, type, r) ==
  /\ Fresh(w, type)
  /\ SameIds(Marked(w), r.session)
  /\ Converse(w, r)

LEMMA ConversingHandlers ==
  ASSUME Inv, NEW w \in Worker
  PROVE  /\ HandleCallConnected(w) => Conversing(w, "CallConnected", OnCallConnected(Marked(w)))
         /\ HandlePlayCompleted(w) =>
              Conversing(w, "PlayCompleted", OnPlayCompleted(Marked(w), request[w].event.info))
         /\ HandleRecognizeFailed(w) =>
              Conversing(w, "RecognizeFailed", OnRecognizeFailed(Marked(w)))
         /\ HandleSilence(w) => Conversing(w, "RecognizeCompleted", OnSilence(Marked(w)))
<1>1. ASSUME NEW type \in TurnType, Fresh(w, type) PROVE Marked(w) \in Session
  BY <1>1, FreshEvent DEF TurnType, EventType
<1>2. {"CallConnected", "PlayCompleted", "RecognizeCompleted", "RecognizeFailed"} \subseteq TurnType
  BY DEF TurnType
<1>3. ASSUME HandleCallConnected(w)
      PROVE  Conversing(w, "CallConnected", OnCallConnected(Marked(w)))
  BY <1>1, <1>2, <1>3, HandlersKeepIds DEF HandleCallConnected, Conversing
<1>4. ASSUME HandlePlayCompleted(w)
      PROVE  Conversing(w, "PlayCompleted", OnPlayCompleted(Marked(w), request[w].event.info))
  BY <1>1, <1>2, <1>4, HandlersKeepIds DEF HandlePlayCompleted, Conversing
<1>5. ASSUME HandleRecognizeFailed(w)
      PROVE  Conversing(w, "RecognizeFailed", OnRecognizeFailed(Marked(w)))
  BY <1>1, <1>2, <1>5, HandlersKeepIds DEF HandleRecognizeFailed, Conversing
<1>6. ASSUME HandleSilence(w)
      PROVE  Conversing(w, "RecognizeCompleted", OnSilence(Marked(w)))
  BY <1>1, <1>2, <1>6, HandlersKeepIds DEF HandleSilence, Conversing
<1>7. QED BY <1>3, <1>4, <1>5, <1>6

LEMMA AgentAnswersAs ==
  ASSUME Inv, NEW w \in Worker, AgentAnswers(w)
  PROVE  /\ request[w].stage = "reasoning" /\ Done(w)
         /\ \E response \in Response :
              LET r == OnAgentResponse(session, response) IN
              SameIds(session, r.session) /\ session' = r.session /\ Issue(r.command)
<1>1. session \in Session
  BY DEF Inv, TypeOK
<1>2. QED BY <1>1, HandlersKeepIds DEF AgentAnswers

LEMMA TalkStep ==
  ASSUME Inv, Inv', WindowOpen', Talk, [Next]_vars
  PROVE  Talk'
<1>1. ASSUME NEW w \in Worker, NEW type \in TurnType, NEW r, Conversing(w, type, r)
      PROVE  Talk'
  BY <1>1, ConverseKeepsTalk DEF Conversing
<1>2. ASSUME NEW w \in Worker, AgentAnswers(w) PROVE Talk'
  <2>1. PICK response \in Response :
          LET r == OnAgentResponse(session, response) IN
          SameIds(session, r.session) /\ session' = r.session /\ Issue(r.command)
    BY <1>2, AgentAnswersAs
  <2> DEFINE r == OnAgentResponse(session, response)
  <2>2. SameIds(session, r.session) /\ session' = r.session /\ Issue(r.command)
    BY <2>1
  <2>3. request[w].stage = "reasoning" /\ Done(w)
    BY <1>2, AgentAnswersAs
  <2> HIDE DEF r
  <2>4. QED BY <2>2, <2>3, AnswerOfAgentKeepsTalk
<1>3. ASSUME NEW w \in Worker, Handle(w) PROVE Talk'
  <2>1. CASE \/ HandleCallConnected(w) \/ HandlePlayCompleted(w)
             \/ HandleRecognizeFailed(w) \/ HandleSilence(w)
    BY <1>1, <2>1, ConversingHandlers DEF TurnType
  <2>2. QED
    BY <1>2, <1>3, <2>1, SpeechKeepsTalk, OtherRequestsKeepTalk DEF Handle
<1>4. CASE Media
  BY <1>4, MediaKeepsTalk DEF Media
<1>5. CASE UNCHANGED vars
  BY <1>5 DEF vars, process, acsMedia, acsRecording, Talk, OneToken, IdsAreFresh, SilentBefore,
              NothingHappens, UnhandledTurns, AwaitedAnswers, BeingRead, Open, Ids, AtMostOne
<1>6. QED
  BY <1>3, <1>4, <1>5, AnswerKeepsTalk, LineKeepsTalk, DeliverKeepsTalk, BackgroundKeepsTalk
  DEF Next

\* The turn is passed on, never doubled, as long as no handled id was forgotten.
THEOREM TalkInvariance == Spec /\ []WindowOpen => []Talk
BY TalkInit, TalkStep, Invariance, PTL DEF Spec

(***************************************************************************)
(* The conversation has one turn at a time: a repeated or late webhook     *)
(* never makes two prompts talk over each other or moves the SOP twice     *)
(* (the event-id check of acs_callback), as long as the call has handled   *)
(* no more events than it remembers (MAX_PROCESSED_EVENT_IDS).             *)
(***************************************************************************)
LEMMA CountOfOne ==
  ASSUME NEW S, AtMostOne(S)
  PROVE  /\ Cardinality(S) \in {0, 1}
         /\ S = {} => Cardinality(S) = 0
<1>1. S = {} \/ \E x : S = {x}
  BY DEF AtMostOne
<1>2. CASE S = {}
  BY <1>2, FS_EmptySet
<1>3. CASE \E x : S = {x}
  BY <1>3, FS_Singleton
<1>4. QED BY <1>1, <1>2, <1>3

\* The conversation has one turn at a time, however requests overlap and ACS
\* repeats its events (MarkProcessed before the first await of a handler).
THEOREM OneTurnAtATime == Spec /\ []WindowOpen => []OneTurn
<1>1. Talk => OneTurn
  BY CountOfOne DEF Talk, OneToken, OneTurn
<1>2. QED BY <1>1, TalkInvariance, PTL

(***************************************************************************)
(* The SOP.  Whoever holds the turn fits the step the session is on: the   *)
(* terminal prompt goes with a verdict and all others go without, a prompt *)
(* that leads on was spoken by a speak step, an answer is one to an ask    *)
(* step.                                                                   *)
(***************************************************************************)
VerdictOf(s) == IF s.outcome = "no_answer" THEN None ELSE s.outcome

FitsStep(s, context) ==
  LET step == Def[s.current_step] IN
  /\ s.current_step \in DOMAIN Def
  /\ context = "sop_terminal" <=> VerdictOf(s) # None
  /\ context = "start" => s.current_step = "greeting"
  /\ context = "sop_speak" => step.type = "speak" /\ step.outcome = None
  /\ context = "sop_ask" => step.type = "ask"

\* One step of SOPWalk, or none.
WalkStep(s, t) ==
  \/ t.current_step = s.current_step /\ VerdictOf(t) = VerdictOf(s)
  \/ /\ VerdictOf(s) = None
     /\ t.current_step \in Walk!Successors(s.current_step)
     /\ VerdictOf(t) = Def[t.current_step].outcome
  \/ /\ VerdictOf(s) = None
     /\ t.current_step = "escalate_unclear"
     /\ VerdictOf(t) = "escalate_human"

\* What a handler leaves behind when it was given a session that fits.
Follows(s, r) ==
  /\ r.session.current_step \in DOMAIN Def
  /\ WalkStep(s, r.session)
  /\ r.command \in MediaContext => FitsStep(r.session, r.command)
  /\ r.command = "hang_up" => VerdictOf(s) # None

LEMMA StepsOfSOP ==
  ASSUME SoundSOP, NEW t \in DOMAIN Def
  PROVE  /\ Def[t] \in Step
         /\ Def[t].outcome \in (CallOutcome \ {"no_answer"}) \cup {None}
         /\ Def[t].type = "speak" /\ Def[t].outcome = None =>
              /\ Def[t].next \in DOMAIN Def /\ Def[t].next # None
              /\ Def[Def[t].next].outcome = None
<1>1. Def[t] \in Step
  BY EngineAssumption
<1>2. Def[t].outcome \in (CallOutcome \ {"no_answer"}) \cup {None}
  BY <1>1 DEF SoundSOP, Step, StepOutcome
<1>3. ASSUME Def[t].type = "speak", Def[t].outcome = None
      PROVE  /\ Def[t].next \in DOMAIN Def /\ Def[t].next # None
             /\ Def[Def[t].next].outcome = None
  BY <1>3, EngineAssumption DEF SoundSOP
<1>4. QED BY <1>1, <1>2, <1>3

LEMMA ConnectedFollows ==
  ASSUME SoundSOP, NEW s \in Session, FitsStep(s, "start")
  PROVE  Follows(s, OnCallConnected(s))
<1>1. s.current_step = "greeting" /\ "greeting" \in DOMAIN Def /\ VerdictOf(s) = None
  BY DEF FitsStep
<1>2. Def["greeting"] \in Step /\ Def["greeting"].outcome = None
  BY <1>1, StepsOfSOP DEF SoundSOP
<1>3. Def["greeting"].type = "speak" => Def["greeting"].next # None
  BY <1>1, <1>2, StepsOfSOP
<1>4. Def["greeting"].type \in {"speak", "ask"}
  BY <1>2 DEF Step
<1>5. OnCallConnected(s).session = s
  BY DEF OnCallConnected
<1>6. OnCallConnected(s).command =
        IF Def["greeting"].type = "speak" THEN "sop_speak" ELSE "sop_ask"
  BY <1>1, <1>3, <1>4 DEF OnCallConnected, Known
<1>7. QED BY <1>1, <1>2, <1>3, <1>4, <1>5, <1>6 DEF Follows, WalkStep, FitsStep, MediaContext

LEMMA PlayedFollows ==
  ASSUME SoundSOP, NEW s \in Session, NEW context \in {"sop_speak", "sop_terminal"},
         FitsStep(s, context)
  PROVE  Follows(s, OnPlayCompleted(s, context))
<1>1. s.current_step \in DOMAIN Def
  BY DEF FitsStep
<1>2. CASE context = "sop_terminal"
  BY <1>1, <1>2 DEF OnPlayCompleted, Follows, WalkStep, FitsStep, MediaContext
<1>3. CASE context = "sop_speak"
  <2> DEFINE here == Def[s.current_step]
             to == here.next
             t == [s EXCEPT !.current_step = to]
  <2>1. here.type = "speak" /\ here.outcome = None /\ VerdictOf(s) = None
    BY <1>3 DEF FitsStep
  <2>2. to \in DOMAIN Def /\ to # None /\ Def[to].outcome = None /\ Def[to] \in Step
    BY <1>1, <2>1, StepsOfSOP
  <2>3. SpeaksOn(s)
    BY <1>1, <2>1, <2>2 DEF SpeaksOn, Known
  <2>4. t.current_step = to /\ VerdictOf(t) = None
    BY <2>1 DEF VerdictOf, Session
  <2>5. OnPlayCompleted(s, context).session = t
    BY <1>3, <2>3 DEF OnPlayCompleted
  <2>6. OnPlayCompleted(s, context).command =
          IF Def[to].type = "ask" THEN "sop_ask" ELSE "sop_speak"
    BY <1>3, <2>2, <2>3 DEF OnPlayCompleted
  <2>7. to \in Walk!Successors(s.current_step)
    BY <2>2 DEF Walk!Successors
  <2>8. Def[to].type \in {"speak", "ask"}
    BY <2>2 DEF Step
  <2> HIDE DEF t, to
  <2>9. WalkStep(s, t)
    BY <2>1, <2>2, <2>4, <2>7 DEF WalkStep
  <2>10. FitsStep(t, IF Def[to].type = "ask" THEN "sop_ask" ELSE "sop_speak")
    BY <2>2, <2>4, <2>8 DEF FitsStep
  <2>11. QED BY <2>2, <2>4, <2>5, <2>6, <2>9, <2>10 DEF Follows
<1>4. QED BY <1>2, <1>3

LEMMA UnclearFollows ==
  ASSUME SoundSOP, NEW s \in Session, FitsStep(s, "sop_ask")
  PROVE  Follows(s, OnRecognizeFailed(s)) /\ Follows(s, OnSilence(s))
<1> DEFINE counted == [s EXCEPT !.unclear_count = @ + 1]
           escalated == [counted EXCEPT !.current_step = "escalate_unclear",
                                        !.outcome = "escalate_human"]
<1>1. s.current_step \in DOMAIN Def /\ VerdictOf(s) = None /\ "escalate_unclear" \in DOMAIN Def
  BY DEF FitsStep, SoundSOP
<1>2. counted.current_step = s.current_step /\ counted.outcome = s.outcome
  BY DEF Session
<1>3. escalated.current_step = "escalate_unclear" /\ escalated.outcome = "escalate_human"
  BY DEF Session
<1>4. OnRecognizeFailed(s) \in {[session |-> counted, command |-> "sop_ask"],
                               [session |-> escalated, command |-> "sop_terminal"]}
  BY <1>1 DEF OnRecognizeFailed
<1> HIDE DEF counted, escalated
<1>5. Follows(s, [session |-> counted, command |-> "sop_ask"])
  BY <1>1, <1>2 DEF Follows, WalkStep, FitsStep, VerdictOf
<1>6. Follows(s, [session |-> escalated, command |-> "sop_terminal"])
  BY <1>1, <1>3 DEF Follows, WalkStep, FitsStep, VerdictOf, None
<1>7. Follows(s, OnRecognizeFailed(s))
  BY <1>4, <1>5, <1>6
<1>8. OnSilence(s) = OnRecognizeFailed(s)
  BY <1>1 DEF OnSilence, Known
<1>9. QED BY <1>7, <1>8

\* From an ask step the engine goes to a branch or escalates.
LEMMA AskTransition ==
  ASSUME SoundSOP, NEW step \in DOMAIN Def, Def[step].type = "ask",
         NEW response \in AgentResponse
  PROVE  LET t == EvaluateTransition(Def[step], response) IN
         \/ t = Escalation
         \/ /\ t.next \in DOMAIN Def /\ t.next \in Def[step].branches
            /\ t.outcome = Def[t.next].outcome
<1> DEFINE proposed == response.next_step
<1>1. ~IsFixed(Def[step]) /\ IsBranching(Def[step])
  BY DEF IsFixed, IsBranching, SoundSOP
<1>2. CASE response.should_escalate \/ proposed \notin DOMAIN Def \/ proposed \notin Def[step].branches
  BY <1>1, <1>2 DEF EvaluateTransition
<1>3. CASE ~(response.should_escalate \/ proposed \notin DOMAIN Def \/ proposed \notin Def[step].branches)
  <2>1. EvaluateTransition(Def[step], response) = [next |-> proposed, outcome |-> Def[proposed].outcome]
    BY <1>1, <1>3 DEF EvaluateTransition, BranchTo, SoundSOP
  <2>2. QED BY <1>3, <2>1
<1>4. QED BY <1>2, <1>3

LEMMA AnsweredFollows ==
  ASSUME SoundSOP, NEW s \in Session, FitsStep(s, "sop_ask"), NEW response \in AgentResponse
  PROVE  Follows(s, OnAgentResponse(s, response))
<1> DEFINE step == s.current_step
           t == EvaluateTransition(Def[step], response)
           a == AdvanceSession(s, response)
<1>1. /\ step \in DOMAIN Def /\ Def[step].type = "ask" /\ VerdictOf(s) = None
      /\ "escalate_unclear" \in DOMAIN Def /\ DefaultDef = Def
  BY DEF FitsStep, SoundSOP
<1>2. ~EvaluationRaises(step, response)
  BY <1>1 DEF EvaluationRaises
<1>3. \/ t = Escalation
      \/ /\ t.next \in DOMAIN Def /\ t.next \in Def[step].branches
         /\ t.outcome = Def[t.next].outcome
  BY <1>1, AskTransition
<1>4. /\ t.next \in DOMAIN Def /\ t.next # None
      /\ t.outcome \in (CallOutcome \ {"no_answer"}) \cup {None}
  BY <1>1, <1>3, StepsOfSOP, EngineAssumption DEF Escalation, CallOutcome
<1>5. a.current_step = t.next /\ VerdictOf(a) = t.outcome
  <2>1. a = [s EXCEPT !.current_step = IF t.next = None THEN @ ELSE t.next,
                      !.outcome = IF t.outcome = None THEN @ ELSE ParseOutcome(t.outcome)]
    BY DEF AdvanceSession
  <2> HIDE DEF t, a
  <2>2. a.current_step = t.next
    BY <1>4, <2>1 DEF Session
  <2>3. a.outcome = IF t.outcome = None THEN s.outcome ELSE t.outcome
    BY <1>4, <2>1 DEF Session, ParseOutcome
  <2>4. QED BY <1>1, <1>4, <2>2, <2>3 DEF VerdictOf
<1>6. OnAgentResponse(s, response) =
        [session |-> a, command |-> CommandAfterAdvance(s, response)]
  BY <1>2 DEF OnAgentResponse
<1>7. CommandAfterAdvance(s, response) =
        IF t.outcome # None THEN "sop_terminal"
        ELSE IF Def[t.next].type = "ask" THEN "sop_ask" ELSE "sop_speak"
  BY <1>1, <1>4 DEF CommandAfterAdvance
<1>8. Def[t.next].type \in {"speak", "ask"}
  BY <1>4, StepsOfSOP DEF Step
<1>9. t.outcome = None => Def[t.next].outcome = None
  BY <1>3 DEF Escalation, None
<1>10. Escalation.next = "escalate_unclear" /\ Escalation.outcome = "escalate_human"
  BY DEF Escalation
<1> HIDE DEF t, a
<1>11. WalkStep(s, a)
  BY <1>1, <1>3, <1>5, <1>10 DEF WalkStep, Walk!Successors, step
<1>12. FitsStep(a, CommandAfterAdvance(s, response))
  BY <1>4, <1>5, <1>7, <1>8, <1>9 DEF FitsStep
<1>13. CommandAfterAdvance(s, response) # "hang_up"
  BY <1>7
<1>14. QED BY <1>4, <1>5, <1>6, <1>11, <1>12, <1>13 DEF Follows

(***************************************************************************)
(* The invariant behind WalksTheSOP and HangsUpOnVerdict.                  *)
(***************************************************************************)
ContextOf(e) ==
  IF e.type = "CallConnected" THEN "start"
  ELSE IF e.type = "PlayCompleted" THEN e.info ELSE "sop_ask"

OnSOP ==
  /\ session.current_step \in DOMAIN Def
  /\ \A o \in ops : FitsStep(session, o.context)
  /\ \A e \in UnhandledTurns :
       /\ FitsStep(session, ContextOf(e))
       /\ e.type = "PlayCompleted" => e.info \in {"sop_speak", "sop_terminal"}
  /\ \A w \in AwaitedAnswers : FitsStep(session, "sop_ask")

SameFit(s, t) == t.current_step = s.current_step /\ VerdictOf(t) = VerdictOf(s)

LEMMA FitsAlike ==
  ASSUME NEW s, NEW t, SameFit(s, t), NEW context, FitsStep(s, context)
  PROVE  FitsStep(t, context)
BY DEF SameFit, FitsStep

\* What a step does to the conversation.
Walks ==
  /\ OnSOP'
  /\ WalkStep(session, session')
  /\ line = "up" /\ line' = "down" /\ request' # request => VerdictOf(session) # None

LEMMA QuietWalks ==
  ASSUME OnSOP, Quiet, SameFit(session, session'),
         line = "up" /\ line' = "down" => request' = request
  PROVE  Walks
<1>1. OnSOP'
  BY FitsAlike DEF OnSOP, Quiet, SameFit
<1>2. QED BY <1>1 DEF Walks, WalkStep, SameFit

LEMMA MovingWalks ==
  ASSUME NEW s \in Session, SameFit(session, s), NEW r, Follows(s, r), session' = r.session,
         UnhandledTurns' = {}, AwaitedAnswers' = {},
         \A o \in ops' : o.context = r.command /\ o.context \in MediaContext,
         line = "up" /\ line' = "down" => r.command = "hang_up"
  PROVE  Walks
<1>1. OnSOP'
  BY DEF OnSOP, Follows
<1>2. WalkStep(session, session')
  BY DEF Follows, WalkStep, SameFit
<1>3. QED BY <1>1, <1>2 DEF Walks, Follows, SameFit

LEMMA ConversingWalks ==
  ASSUME SoundSOP, Inv, Inv', Talk, WindowOpen', OnSOP, NEW w \in Worker,
         \/ HandleCallConnected(w) \/ HandlePlayCompleted(w)
         \/ HandleRecognizeFailed(w) \/ HandleSilence(w)
  PROVE  Walks
<1>1. \A o \in ops' : o.context \in MediaContext
  BY DEF Inv, TypeOK
<1>2. ASSUME NEW type \in TurnType, NEW r, Conversing(w, type, r),
             FitsStep(Marked(w), ContextOf(request[w].event)) => Follows(Marked(w), r)
      PROVE  Walks
  <2>1. Marked(w) \in Session /\ SameFit(session, Marked(w))
    <3>1. Fresh(w, type) /\ type \in EventType /\ SameIds(Marked(w), session')
      BY <1>2 DEF Conversing, Converse, TurnType, EventType
    <3>2. QED BY <3>1, FreshEvent, MarkedIds DEF SameFit, VerdictOf
  <2>2. request[w].event \in UnhandledTurns
    BY <1>2, FreshTurn DEF Conversing
  <2>3. FitsStep(Marked(w), ContextOf(request[w].event))
    BY <2>1, <2>2, FitsAlike DEF OnSOP
  <2>4. session' = r.session
    BY <1>2 DEF Conversing, Converse
  <2>5. /\ UnhandledTurns' = {} /\ AwaitedAnswers' = {}
        /\ \A o \in ops' : o.context = r.command
        /\ line = "up" /\ line' = "down" => r.command = "hang_up"
    BY <1>2, ConverseKeepsTalk DEF Conversing
  <2>6. QED BY <1>1, <1>2, <2>1, <2>3, <2>4, <2>5, MovingWalks
<1>3. ASSUME NEW type \in TurnType, Fresh(w, type)
      PROVE  /\ Marked(w) \in Session
             /\ request[w].event \in UnhandledTurns /\ request[w].event.type = type
  BY <1>3, FreshEvent, FreshTurn DEF TurnType, EventType, Fresh
<1>4. CASE HandleCallConnected(w)
  <2>1. Conversing(w, "CallConnected", OnCallConnected(Marked(w))) /\ "CallConnected" \in TurnType
    BY <1>4, ConversingHandlers DEF TurnType
  <2>2. Marked(w) \in Session /\ ContextOf(request[w].event) = "start"
    BY <1>3, <2>1 DEF Conversing, ContextOf
  <2>3. QED BY <1>2, <2>1, <2>2, ConnectedFollows
<1>5. CASE HandlePlayCompleted(w)
  <2> DEFINE context == request[w].event.info
  <2>1. /\ Conversing(w, "PlayCompleted", OnPlayCompleted(Marked(w), context))
        /\ "PlayCompleted" \in TurnType
    BY <1>5, ConversingHandlers DEF TurnType
  <2>2. /\ Marked(w) \in Session /\ ContextOf(request[w].event) = context
        /\ context \in {"sop_speak", "sop_terminal"}
    BY <1>3, <2>1 DEF Conversing, ContextOf, OnSOP
  <2> HIDE DEF context
  <2>3. QED BY <1>2, <2>1, <2>2, PlayedFollows
<1>6. CASE HandleRecognizeFailed(w)
  <2>1. /\ Conversing(w, "RecognizeFailed", OnRecognizeFailed(Marked(w)))
        /\ "RecognizeFailed" \in TurnType
    BY <1>6, ConversingHandlers DEF TurnType
  <2>2. Marked(w) \in Session /\ ContextOf(request[w].event) = "sop_ask"
    BY <1>3, <2>1 DEF Conversing, ContextOf
  <2>3. QED BY <1>2, <2>1, <2>2, UnclearFollows
<1>7. CASE HandleSilence(w)
  <2>1. /\ Conversing(w, "RecognizeCompleted", OnSilence(Marked(w)))
        /\ "RecognizeCompleted" \in TurnType
    BY <1>7, ConversingHandlers DEF TurnType
  <2>2. Marked(w) \in Session /\ ContextOf(request[w].event) = "sop_ask"
    BY <1>3, <2>1 DEF Conversing, ContextOf
  <2>3. QED BY <1>2, <2>1, <2>2, UnclearFollows
<1>8. QED BY <1>4, <1>5, <1>6, <1>7

LEMMA ReasoningWalks ==
  ASSUME SoundSOP, Inv, Inv', Talk, WindowOpen', OnSOP, NEW w \in Worker,
         HandleSpeech(w) \/ AgentAnswers(w)
  PROVE  Walks
<1>1. \A o \in ops' : o.context \in MediaContext
  BY DEF Inv, TypeOK
<1>2. session \in Session
  BY DEF Inv, TypeOK
<1>3. CASE HandleSpeech(w)
  <2>1. /\ Fresh(w, "RecognizeCompleted") /\ session' = Marked(w) /\ line' = line
        /\ "RecognizeCompleted" \in TurnType \cap EventType
    BY <1>3 DEF HandleSpeech, TurnType, EventType
  <2>2. SameFit(session, session')
    BY <2>1, MarkedIds DEF SameFit, VerdictOf, SameIds
  <2>3. request[w].event \in UnhandledTurns /\ ContextOf(request[w].event) = "sop_ask"
    BY <2>1, FreshTurn DEF Fresh, ContextOf
  <2>4. FitsStep(session', "sop_ask")
    BY <2>2, <2>3, FitsAlike DEF OnSOP
  <2>5. ops' = {} /\ UnhandledTurns' = {}
    BY <1>3, SpeechKeepsTalk
  <2>6. OnSOP'
    BY <2>2, <2>4, <2>5 DEF OnSOP, SameFit
  <2>7. QED BY <2>1, <2>2, <2>6 DEF Walks, WalkStep, SameFit
<1>4. CASE AgentAnswers(w)
  <2>1. PICK response \in Response :
          LET r == OnAgentResponse(session, response) IN
          SameIds(session, r.session) /\ session' = r.session /\ Issue(r.command)
    BY <1>4, AgentAnswersAs
  <2> DEFINE r == OnAgentResponse(session, response)
  <2>2. SameIds(session, r.session) /\ session' = r.session /\ Issue(r.command)
    BY <2>1
  <2>3. request[w].stage = "reasoning" /\ Done(w)
    BY <1>4, AgentAnswersAs
  <2>4. FitsStep(session, "sop_ask")
    BY <2>3 DEF OnSOP, AwaitedAnswers
  <2>5. Follows(session, r)
    BY <1>2, <2>4, AnsweredFollows, LocalCallAssumption
  <2> HIDE DEF r
  <2>6. /\ UnhandledTurns' = {} /\ AwaitedAnswers' = {}
        /\ \A o \in ops' : o.context = r.command
        /\ line = "up" /\ line' = "down" => r.command = "hang_up"
    BY <2>2, <2>3, AnswerOfAgentKeepsTalk
  <2>7. QED BY <1>1, <1>2, <2>2, <2>5, <2>6, MovingWalks DEF SameFit
<1>5. QED BY <1>3, <1>4

LEMMA OtherRequestsWalk ==
  ASSUME Inv, Talk, WindowOpen', OnSOP, NEW w \in Worker,
         IgnoreEvent(w) \/ HandleCallDisconnected(w) \/ HandleRecordingFile(w)
  PROVE  Walks
<1>1. Quiet /\ line' = line
  BY OtherRequestsKeepTalk DEF IgnoreEvent, HandleCallDisconnected, HandleRecordingFile
<1>2. ASSUME NEW type \in EventType, Fresh(w, type), SameIds(Marked(w), session')
      PROVE  Marked(w) \in Session /\ SameFit(session, Marked(w))
  BY <1>2, FreshEvent, MarkedIds DEF SameFit, VerdictOf
<1>3. SameFit(session, session')
  <2>1. CASE IgnoreEvent(w)
    BY <2>1 DEF IgnoreEvent, SameFit
  <2>2. CASE HandleCallDisconnected(w)
    <3>1. Fresh(w, "CallDisconnected") /\ "CallDisconnected" \in EventType
      BY <2>2 DEF HandleCallDisconnected, EventType
    <3>2. Marked(w) \in Session
      BY <3>1, FreshEvent
    <3> DEFINE s == OnCallDisconnected(Marked(w))
    <3>3. s \in Session /\ SameIds(Marked(w), s) /\ SameFit(Marked(w), s)
      BY <3>2, HandlersKeepIds DEF OnCallDisconnected, Session, CallOutcome, SameFit, VerdictOf
    <3>4. session' = Marked(w) \/ session' = s \/ Finalize(s)
      BY <2>2 DEF HandleCallDisconnected
    <3> HIDE DEF s
    <3>5. SameIds(Marked(w), session') /\ SameFit(Marked(w), session')
      BY <3>3, <3>4 DEF Finalize, SameIds, SameFit, Session, VerdictOf
    <3>6. QED BY <1>2, <3>1, <3>5 DEF SameFit
  <2>3. CASE HandleRecordingFile(w)
    <3>1. /\ Fresh(w, "RecordingFileStatusUpdated")
          /\ "RecordingFileStatusUpdated" \in EventType
      BY <2>3 DEF HandleRecordingFile, EventType
    <3>2. Marked(w) \in Session
      BY <3>1, FreshEvent
    <3> DEFINE s == OnRecordingFile(Marked(w), request[w].event.info)
    <3>3. s \in Session /\ SameIds(Marked(w), s) /\ SameFit(Marked(w), s)
      BY <3>2, HandlersKeepIds DEF OnRecordingFile, Session, SameFit, VerdictOf
    <3>4. session' = s \/ Finalize(s)
      BY <2>3 DEF HandleRecordingFile
    <3> HIDE DEF s
    <3>5. SameIds(Marked(w), session') /\ SameFit(Marked(w), session')
      BY <3>3, <3>4 DEF Finalize, SameIds, SameFit, Session, VerdictOf
    <3>6. QED BY <1>2, <3>1, <3>5 DEF SameFit
  <2>4. QED BY <2>1, <2>2, <2>3
<1>4. QED BY <1>1, <1>3, QuietWalks

LEMMA AcsWalks ==
  ASSUME SoundSOP, Inv, Talk, OnSOP,
         \/ PlaceCall \/ PlaceCallFails \/ Answer \/ LineDrops \/ Media \/ RecordingReports
         \/ \E e \in owed : Deliver(e)
  PROVE  Walks
<1>1. UNCHANGED session
  BY DEF PlaceCall, PlaceCallFails, Answer, LineDrops, Media, MediaCompletes, MediaAborts,
         RecordingReports, Deliver, process
<1>2. line = "up" /\ line' = "down" => request' = request
  BY DEF PlaceCall, PlaceCallFails, Answer, LineDrops, Media, MediaCompletes, MediaAborts,
         RecordingReports, Deliver, process
<1>3. SameFit(session, session') /\ WalkStep(session, session')
  BY <1>1 DEF SameFit, WalkStep
<1>4. CASE Answer
  <2>1. /\ ops' = {} /\ AwaitedAnswers' = {}
        /\ UnhandledTurns' \subseteq {ConnectedEvent} /\ session' = NewSession
    BY <1>1, <1>4, AnswerKeepsTalk
  <2>2. FitsStep(NewSession, "start")
    BY DEF FitsStep, NewSession, VerdictOf, SoundSOP, None
  <2>3. ContextOf(ConnectedEvent) = "start" /\ ConnectedEvent.type # "PlayCompleted"
    BY DEF ContextOf, ConnectedEvent
  <2>4. OnSOP'
    BY <2>1, <2>2, <2>3 DEF OnSOP, FitsStep
  <2>5. QED BY <1>2, <1>3, <2>4 DEF Walks
<1>5. ASSUME NEW o \in ops, MediaCompletes(o) \/ MediaAborts(o)
      PROVE  Walks
  <2>1. /\ ops' = {} /\ AwaitedAnswers' = {}
        /\ UnhandledTurns' \subseteq CompletionEvents(o)
    BY <1>5, MediaKeepsTalk
  <2>2. o.context \in MediaContext /\ FitsStep(session, o.context)
    BY DEF Inv, TypeOK, OnSOP
  <2>3. \A e \in CompletionEvents(o) :
          /\ ContextOf(e) = o.context
          /\ e.type = "PlayCompleted" => e.info \in {"sop_speak", "sop_terminal"}
    BY <2>2 DEF CompletionEvents, ContextOf, MediaContext
  <2>4. OnSOP'
    BY <1>1, <2>1, <2>2, <2>3 DEF OnSOP
  <2>5. QED BY <1>2, <1>3, <2>4 DEF Walks
<1>6. CASE PlaceCall \/ PlaceCallFails \/ LineDrops \/ RecordingReports
  BY <1>2, <1>3, <1>6, LineKeepsTalk, QuietWalks
<1>7. CASE \E e \in owed : Deliver(e)
  BY <1>2, <1>3, <1>7, DeliverKeepsTalk, QuietWalks
<1>8. QED BY <1>4, <1>5, <1>6, <1>7 DEF Media

LEMMA BackgroundWalks ==
  ASSUME Inv, Inv', Talk, OnSOP, Background
  PROVE  Walks
<1>1. Quiet /\ line' = line
  BY BackgroundKeepsTalk DEF Background, TimerFires, RecordingStarts, RecordingFailsToStart, PostOutcome
<1>2. session \in Session
  BY DEF Inv, TypeOK
<1>3. SameFit(session, session')
  BY <1>2 DEF Background, TimerFires, RecordingStarts, RecordingFailsToStart, PostOutcome,
              Finalize, SameFit, Session, VerdictOf
<1>4. QED BY <1>1, <1>3, QuietWalks

LEMMA NextWalks ==
  ASSUME SoundSOP, Inv, Inv', WindowOpen', Talk, OnSOP, [Next]_vars
  PROVE  Walks
<1>1. ASSUME NEW w \in Worker, Handle(w) PROVE Walks
  BY <1>1, ConversingWalks, ReasoningWalks, OtherRequestsWalk DEF Handle
<1>2. CASE UNCHANGED vars
  <2>1. UNCHANGED <<session, request, ops, owed, line>>
    BY <1>2 DEF vars, process, acsMedia
  <2>2. Quiet
    BY <2>1 DEF Quiet, UnhandledTurns, AwaitedAnswers, BeingRead
  <2>3. QED BY <2>1, <2>2, QuietWalks DEF SameFit
<1>3. QED
  BY <1>1, <1>2, AcsWalks, BackgroundWalks DEF Next

LEMMA OnSOPInit ==
  ASSUME SoundSOP, Init PROVE OnSOP
<1>1. session = NewSession /\ NothingHappens
  BY DEF Init, NothingHappens
<1>2. QED BY <1>1, SilentFacts DEF OnSOP, SoundSOP, NewSession

\* Whoever holds the turn is at the session's step, and the call is on its walk.
THEOREM OnSOPInvariance ==
  ASSUME SoundSOP PROVE Spec /\ []WindowOpen => []OnSOP
<1>1. Init => OnSOP
  BY OnSOPInit
<1>2. Inv /\ Inv' /\ WindowOpen' /\ Talk /\ OnSOP /\ [Next]_vars => OnSOP'
  BY NextWalks DEF Walks
<1>3. QED BY <1>1, <1>2, Invariance, TalkInvariance, PTL DEF Spec

(***************************************************************************)
(* The handlers implement SOPWalk: whatever the agent answers and however  *)
(* events are repeated, the session goes from step to step along the edges *)
(* of its SOP or escalates, and stops at the first verdict                 *)
(* (SOPEngine.evaluate_transition, advance_session and their callers).     *)
(***************************************************************************)
THEOREM CallWalksTheSOP ==
  ASSUME SoundSOP PROVE Spec /\ []WindowOpen => WalksTheSOP
<1>1. Init => Walk!Init
  BY DEF Init, NewSession, Walk!Init, None
<1>2. ASSUME WalkStep(session, session') PROVE [Walk!Next]_(Walk!vars)
  BY <1>2 DEF WalkStep, VerdictOf, Walk!Next, Walk!Follow, Walk!Escalate, Walk!vars
<1>3. Inv /\ Inv' /\ WindowOpen' /\ Talk /\ OnSOP /\ [Next]_vars => [Walk!Next]_(Walk!vars)
  BY <1>2, NextWalks DEF Walks
<1>4. QED
  BY <1>1, <1>3, OnSOPInvariance, Invariance, TalkInvariance, PTL DEF WalksTheSOP, Walk!Spec, Spec

(***************************************************************************)
(* The orchestrator never hangs up on a callee before the SOP has reached  *)
(* its verdict (the branch of _handle_play_completed for the terminal      *)
(* prompt).                                                                *)
(***************************************************************************)
THEOREM HangUpFollowsVerdict ==
  ASSUME SoundSOP PROVE Spec /\ []WindowOpen => HangsUpOnVerdict
<1> DEFINE A == line = "up" /\ line' = "down" /\ request' # request
                  => session.outcome \notin {None, "no_answer"}
<1>1. Inv /\ Inv' /\ WindowOpen' /\ Talk /\ OnSOP /\ [Next]_vars => [A]_vars
  <2> SUFFICES ASSUME Inv, Inv', WindowOpen', Talk, OnSOP, [Next]_vars PROVE [A]_vars
    OBVIOUS
  <2>1. Walks
    BY NextWalks
  <2>2. QED BY <2>1 DEF Walks, VerdictOf
<1>2. QED
  BY <1>1, OnSOPInvariance, Invariance, TalkInvariance, PTL DEF HangsUpOnVerdict, Spec

=============================================================================
