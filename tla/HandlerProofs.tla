----------------------------- MODULE HandlerProofs -----------------------------
(***************************************************************************)
(* What the handlers of CallHandlers return, for every SOP and every       *)
(* answer of the agent: the lemmas that the proofs about the modules that  *)
(* use the handlers rest on.                                               *)
(***************************************************************************)
EXTENDS CallHandlers, SequenceTheorems, TLAPS

(***************************************************************************)
(* The engine returns a step id and an outcome of the expected types.      *)
(***************************************************************************)
LEMMA TransitionType ==
  ASSUME NEW step \in StepId, NEW response \in AgentResponse,
         ~EvaluationRaises(step, response)
  PROVE  /\ EvaluateTransition(Def[step], response).next \in StepId \cup {None}
         /\ EvaluateTransition(Def[step], response).outcome \in StepOutcome \cup {None}
<1> DEFINE current == Def[step]
           proposed == response.next_step
<1>1. step \in DOMAIN Def /\ current \in Step
  BY EngineAssumption DEF EvaluationRaises
<1>2. proposed \in StepId
  BY DEF AgentResponse
<1>3. CASE response.should_escalate \/ proposed \notin DOMAIN Def
  BY <1>3, EngineAssumption DEF EvaluateTransition, Escalation, StepOutcome, CallOutcome
<1>4. CASE ~(response.should_escalate \/ proposed \notin DOMAIN Def)
  <2>1. Def[proposed] \in Step
    BY <1>4, EngineAssumption
  <2>2. CASE IsFixed(current)
    BY <1>1, <1>4, <2>2 DEF EvaluateTransition, Deterministic, IsFixed, Step
  <2>3. CASE ~IsFixed(current) /\ ~IsBranching(current)
    BY <1>2, <1>4, <2>1, <2>3 DEF EvaluateTransition, Step
  <2>4. CASE ~IsFixed(current) /\ IsBranching(current)
    <3>1. CASE proposed \in current.branches
      <4>1. DefaultDef[proposed] \in Step
        BY <1>4, <2>4, <3>1, EngineAssumption DEF EvaluationRaises, IsBranching
      <4>2. QED
        BY <1>2, <1>4, <2>4, <3>1, <4>1 DEF EvaluateTransition, BranchTo, Step
    <3>2. CASE proposed \notin current.branches
      BY <1>4, <2>4, <3>2, EngineAssumption
      DEF EvaluateTransition, Escalation, StepOutcome, CallOutcome
    <3>3. QED BY <3>1, <3>2
  <2>5. QED BY <2>2, <2>3, <2>4
<1>5. QED BY <1>3, <1>4

(***************************************************************************)
(* The handlers keep the type of the session and what says how far the     *)
(* call has ended; they never take a verdict back.                         *)
(***************************************************************************)
SameEnd(s, t) ==
  /\ t.ended = s.ended
  /\ t.completion_logged = s.completion_logged
  /\ s.outcome # None => t.outcome # None

ResultOf(s, r) == r.session \in Session /\ r.command \in Command /\ SameEnd(s, r.session)

LEMMA MarkProcessedType ==
  ASSUME NEW s \in Session, NEW e \in Event, MaxProcessed \in Nat \ {0}
  PROVE  MarkProcessed(s, e) \in Session /\ SameEnd(s, MarkProcessed(s, e))
<1> DEFINE ids == Append(s.processed_event_ids, e)
<1>1. ids \in Seq(Event)
  BY DEF Session
<1>2. LastIds(ids) \in Seq(Event)
  <2>1. CASE Len(ids) > MaxProcessed
    <3>1. /\ Len(ids) - MaxProcessed + 1 \in 1..(Len(ids) + 1)
          /\ Len(ids) \in Nat
      BY <1>1, <2>1
    <3>2. SubSeq(ids, Len(ids) - MaxProcessed + 1, Len(ids)) \in Seq(Event)
      BY <1>1, <3>1, SubSeqProperties
    <3>3. QED BY <2>1, <3>2 DEF LastIds
  <2>2. CASE ~(Len(ids) > MaxProcessed)
    BY <1>1, <2>2 DEF LastIds
  <2>3. QED BY <2>1, <2>2
<1>3. MarkProcessed(s, e) = [s EXCEPT !.processed_event_ids = LastIds(ids)]
  BY DEF MarkProcessed
<1>4. QED BY <1>2, <1>3 DEF Session, SameEnd

LEMMA CallConnectedResult ==
  ASSUME NEW s \in Session
  PROVE  ResultOf(s, OnCallConnected(s))
BY DEF OnCallConnected, ResultOf, SameEnd, Command, MediaContext

LEMMA PlayCompletedResult ==
  ASSUME NEW s \in Session, NEW context
  PROVE  ResultOf(s, OnPlayCompleted(s, context))
<1>1. CASE context = "sop_terminal" \/ ~SpeaksOn(s)
  BY <1>1 DEF OnPlayCompleted, ResultOf, SameEnd, Command, MediaContext
<1>2. CASE context # "sop_terminal" /\ SpeaksOn(s)
  <2> DEFINE to == Def[s.current_step].next
             t  == [s EXCEPT !.current_step = to]
  <2>1. to \in StepId
    BY <1>2, EngineAssumption DEF SpeaksOn, Known, Step
  <2>2. t \in Session /\ SameEnd(s, t)
    BY <2>1 DEF Session, SameEnd
  <2>3. OnPlayCompleted(s, context).session = t
    BY <1>2 DEF OnPlayCompleted
  <2>4. OnPlayCompleted(s, context).command \in Command
    BY <1>2 DEF OnPlayCompleted, Command, MediaContext
  <2>5. QED BY <2>2, <2>3, <2>4 DEF ResultOf
<1>3. QED BY <1>1, <1>2

LEMMA RecognizeFailedResult ==
  ASSUME NEW s \in Session
  PROVE  ResultOf(s, OnRecognizeFailed(s))
<1> DEFINE counted == [s EXCEPT !.unclear_count = @ + 1]
           moved == [counted EXCEPT !.current_step = "escalate_unclear"]
           escalated == [counted EXCEPT !.current_step = "escalate_unclear",
                                        !.outcome = "escalate_human"]
<1>1. counted \in Session /\ SameEnd(s, counted)
  BY DEF Session, SameEnd
<1> HIDE DEF counted
<1>2. moved \in Session /\ SameEnd(s, moved)
  BY <1>1, EngineAssumption DEF Session, SameEnd
<1>3. escalated \in Session /\ SameEnd(s, escalated)
  BY <1>1, EngineAssumption DEF Session, SameEnd, CallOutcome, None
<1>4. {"sop_ask", "sop_terminal", None} \subseteq Command
  BY DEF Command, MediaContext
<1> HIDE DEF moved, escalated
<1>5. OnRecognizeFailed(s) \in {[session |-> counted, command |-> "sop_ask"],
                               [session |-> moved, command |-> None],
                               [session |-> escalated, command |-> "sop_terminal"]}
  BY DEF OnRecognizeFailed, counted, moved, escalated
<1>6. QED
  BY <1>1, <1>2, <1>3, <1>4, <1>5 DEF ResultOf

LEMMA SilenceResult ==
  ASSUME NEW s \in Session
  PROVE  ResultOf(s, OnSilence(s))
BY RecognizeFailedResult DEF OnSilence, ResultOf, SameEnd, Command

LEMMA AgentResponseResult ==
  ASSUME NEW s \in Session, NEW response \in AgentResponse
  PROVE  ResultOf(s, OnAgentResponse(s, response))
<1>1. CASE EvaluationRaises(s.current_step, response)
  BY <1>1 DEF OnAgentResponse, ResultOf, SameEnd, Command
<1>2. CASE ~EvaluationRaises(s.current_step, response)
  <2> DEFINE t == EvaluateTransition(Def[s.current_step], response)
             a == AdvanceSession(s, response)
  <2>1. t.next \in StepId \cup {None} /\ t.outcome \in StepOutcome \cup {None}
    BY <1>2, TransitionType DEF Session
  <2> DEFINE step == IF t.next = None THEN s.current_step ELSE t.next
             outcome == IF t.outcome = None THEN s.outcome ELSE ParseOutcome(t.outcome)
  <2>2. a \in Session /\ SameEnd(s, a)
    <3>1. step \in StepId
      BY <2>1 DEF Session
    <3>2. outcome \in CallOutcome \cup {None}
      BY DEF Session, ParseOutcome, CallOutcome
    <3>3. s.outcome # None => outcome # None
      BY DEF ParseOutcome, CallOutcome, None
    <3>4. a = [s EXCEPT !.current_step = step, !.outcome = outcome]
      BY DEF AdvanceSession
    <3> HIDE DEF step, outcome
    <3>5. QED BY <3>1, <3>2, <3>3, <3>4 DEF Session, SameEnd
  <2>3. CommandAfterAdvance(s, response) \in Command
    BY DEF CommandAfterAdvance, Command, MediaContext
  <2>4. QED BY <1>2, <2>2, <2>3 DEF OnAgentResponse, ResultOf
<1>3. QED BY <1>1, <1>2

(***************************************************************************)
(* Marking an event adds its id and, while the window is open, drops none; *)
(* the handlers leave the ids alone.                                       *)
(***************************************************************************)
SameIds(s, t) == t.processed_event_ids = s.processed_event_ids

LEMMA ToSetAppend ==
  ASSUME NEW S, NEW q \in Seq(S), NEW x \in S
  PROVE  ToSet(Append(q, x)) = ToSet(q) \cup {x}
<1> DEFINE longer == Append(q, x)
           n == Len(q)
<1>1. n \in Nat /\ DOMAIN q = 1..n /\ DOMAIN longer = 1..(n + 1)
  OBVIOUS
<1>2. \A i \in 1..n : longer[i] = q[i]
  OBVIOUS
<1>3. longer[n + 1] = x
  OBVIOUS
<1> HIDE DEF longer, n
<1>4. \A i \in 1..(n + 1) : i \in 1..n \/ i = n + 1
  BY <1>1
<1>5. n + 1 \in 1..(n + 1) /\ \A i \in 1..n : i \in 1..(n + 1)
  BY <1>1
<1>6. ToSet(longer) \subseteq ToSet(q) \cup {x}
  BY <1>1, <1>2, <1>3, <1>4 DEF ToSet
<1>7. ToSet(q) \subseteq ToSet(longer)
  BY <1>1, <1>2, <1>5 DEF ToSet
<1>8. x \in ToSet(longer)
  BY <1>1, <1>3, <1>5 DEF ToSet
<1>9. QED BY <1>6, <1>7, <1>8 DEF longer

LEMMA MarkingAddsId ==
  ASSUME NEW s \in Session, NEW e \in Event, MaxProcessed \in Nat \ {0},
         Len(MarkProcessed(s, e).processed_event_ids) < MaxProcessed
  PROVE  /\ ToSet(MarkProcessed(s, e).processed_event_ids) = ToSet(s.processed_event_ids) \cup {e}
         /\ Len(s.processed_event_ids) < MaxProcessed
         /\ MarkProcessed(s, e).current_step = s.current_step
         /\ MarkProcessed(s, e).outcome = s.outcome
<1> DEFINE ids == s.processed_event_ids
           longer == Append(ids, e)
<1>1. ids \in Seq(Event) /\ longer \in Seq(Event) /\ Len(longer) = Len(ids) + 1 /\ Len(ids) \in Nat
  BY DEF Session
<1>2. MarkProcessed(s, e).processed_event_ids = LastIds(longer)
  BY DEF MarkProcessed, Session
<1>3. MaxProcessed \in Nat \ {0}
  OBVIOUS
<1>4. Len(longer) <= MaxProcessed
  <2> SUFFICES ASSUME Len(longer) > MaxProcessed PROVE FALSE
    BY <1>1, <1>3
  <2>1. LastIds(longer) = SubSeq(longer, Len(longer) - MaxProcessed + 1, Len(longer))
    BY DEF LastIds
  <2>2. Len(longer) - MaxProcessed + 1 \in 1..Len(longer) /\ Len(longer) \in 1..Len(longer)
    BY <1>1, <1>3
  <2>3. Len(LastIds(longer)) = MaxProcessed
    BY <1>1, <1>3, <2>1, <2>2, SubSeqProperties
  <2>4. QED BY <1>2, <1>3, <2>3
<1>5. LastIds(longer) = longer
  BY <1>1, <1>3, <1>4 DEF LastIds
<1>6. ToSet(longer) = ToSet(ids) \cup {e}
  BY <1>1, ToSetAppend
<1>7. /\ MarkProcessed(s, e).current_step = s.current_step
      /\ MarkProcessed(s, e).outcome = s.outcome
  BY DEF MarkProcessed, Session
<1> HIDE DEF longer
<1>8. QED BY <1>1, <1>2, <1>3, <1>4, <1>5, <1>6, <1>7

LEMMA HandlersKeepIds ==
  ASSUME NEW s \in Session, NEW context, NEW response
  PROVE  /\ SameIds(s, OnCallConnected(s).session)
         /\ SameIds(s, OnPlayCompleted(s, context).session)
         /\ SameIds(s, OnRecognizeFailed(s).session)
         /\ SameIds(s, OnSilence(s).session)
         /\ SameIds(s, OnAgentResponse(s, response).session)
         /\ SameIds(s, OnCallDisconnected(s))
         /\ SameIds(s, OnRecordingFile(s, context))
<1>1. SameIds(s, OnCallConnected(s).session)
  BY DEF OnCallConnected, SameIds
<1>2. SameIds(s, OnPlayCompleted(s, context).session)
  BY DEF OnPlayCompleted, SameIds, Session
<1>3. SameIds(s, OnRecognizeFailed(s).session)
  BY DEF OnRecognizeFailed, SameIds, Session
<1>4. SameIds(s, OnSilence(s).session)
  BY <1>3 DEF OnSilence, SameIds
<1>5. SameIds(s, OnAgentResponse(s, response).session)
  BY DEF OnAgentResponse, AdvanceSession, SameIds, Session
<1>6. SameIds(s, OnCallDisconnected(s)) /\ SameIds(s, OnRecordingFile(s, context))
  BY DEF OnCallDisconnected, OnRecordingFile, SameIds, Session
<1>7. QED BY <1>1, <1>2, <1>3, <1>4, <1>5, <1>6

=============================================================================
