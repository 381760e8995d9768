-------------------------- MODULE CallServicesProofs --------------------------
(***************************************************************************)
(* Proofs about CallServices, for any number of calls, any SOP and any     *)
(* answers of the callees.                                                 *)
(***************************************************************************)
EXTENDS CallServices, HandlerProofs, WellFoundedInduction

(***************************************************************************)
(* The inductive invariant: the client's counter never exceeds the row of  *)
(* failures that the requests really made.  It may fall behind, because a  *)
(* malformed reply resets it.                                              *)
(***************************************************************************)
CountsFailures ==
  /\ failures \in Nat /\ open \in BOOLEAN /\ row \in 0..Threshold
  /\ failures <= row \/ row = Threshold
  /\ open => row = Threshold

LEMMA CountsInit == Init => CountsFailures
<1> SUFFICES ASSUME Init PROVE CountsFailures
  OBVIOUS
<1>1. open \in BOOLEAN /\ ~open
  BY DEF Init
<1>2. failures \in Nat /\ row \in 0..Threshold /\ failures <= row
  BY DEF Init, Threshold
<1>3. QED BY <1>1, <1>2 DEF CountsFailures

LEMMA RequestCounts ==
  ASSUME CountsFailures, NEW c \in Call, Request(c)
  PROVE  CountsFailures'
<1>1. CASE Replies(c)
  <2>1. open' \in BOOLEAN /\ ~open'
    BY <1>1 DEF Replies, Succeeded
  <2>2. failures' = 0 /\ row' = 0
    BY <1>1 DEF Replies, Succeeded
  <2>3. QED BY <2>1, <2>2 DEF CountsFailures, Threshold
<1>2. CASE TriesAgain(c)
  BY <1>2 DEF CountsFailures, TriesAgain, client
<1>3. CASE GivesUp(c)
  <2>1. failures' = failures + 1 /\ row' = IF row < Threshold THEN row + 1 ELSE row
    BY <1>3 DEF GivesUp, Failed, CountFailure
  <2>2. open' \in BOOLEAN /\ (open' <=> open \/ failures + 1 >= Threshold)
    BY <1>3 DEF GivesUp, Failed
  <2>3. open => row = Threshold
    BY DEF CountsFailures
  <2>4. failures' \in Nat /\ row' \in 0..Threshold /\ (failures' <= row' \/ row' = Threshold)
    BY <2>1 DEF CountsFailures, Threshold
  <2>5. row = Threshold \/ failures + 1 >= Threshold => row' = Threshold
    BY <2>1 DEF CountsFailures, Threshold
  <2>6. QED BY <2>2, <2>3, <2>4, <2>5 DEF CountsFailures
<1>4. CASE RepliesMalformed(c)
  <2>1. open' \in BOOLEAN /\ ~open'
    BY <1>4 DEF RepliesMalformed
  <2>2. failures' = 1 /\ row' \in 1..Threshold
    BY <1>4 DEF CountsFailures, RepliesMalformed, CountFailure, Threshold
  <2>3. QED BY <2>1, <2>2 DEF CountsFailures, Threshold
<1>5. QED BY <1>1, <1>2, <1>3, <1>4 DEF Request

\* Only the answers to requests touch the client.
LEMMA OthersLeaveClient ==
  ASSUME NEW c \in Call, PlayEnds(c) \/ Listens(c) \/ Send(c) \/ NextCall(c)
  PROVE  UNCHANGED client
  BY DEF PlayEnds, Listens, Silence, Speaks, Send, NextCall

LEMMA CountsStep == ASSUME CountsFailures, [Next]_vars PROVE CountsFailures'
<1>1. CASE UNCHANGED client
  BY <1>1 DEF CountsFailures, client
<1>2. ASSUME NEW c \in Call, Request(c) PROVE CountsFailures'
  BY <1>2, RequestCounts
<1>3. QED BY <1>1, <1>2, OthersLeaveClient DEF Next, vars, client

(***************************************************************************)
(* The breaker refuses requests only after three failures in a row, of     *)
(* whatever calls (FoundryClient.reason).                                  *)
(***************************************************************************)
THEOREM BreakerIsJustified == Spec => []OpenMeansFailing
<1>1. Init => CountsFailures
  BY CountsInit
<1>2. CountsFailures /\ [Next]_vars => CountsFailures'
  BY CountsStep
<1>3. CountsFailures => OpenMeansFailing
  BY DEF CountsFailures, OpenMeansFailing
<1>4. QED BY <1>1, <1>2, <1>3, PTL DEF Spec

(***************************************************************************)
(* What the rule-based agent answers.                                      *)
(***************************************************************************)
LEMMA LeastPosition ==
  ASSUME NEW T, T \subseteq Nat, T # {}
  PROVE  Min(T) \in T
<1> DEFINE Less == {ss \in Nat \X Nat : ss[1] < ss[2]}
<1>1. IsWellFoundedOn(Less, Nat)
  <2>1. OpToRel(<, Nat) = Less
    BY Zenon DEF OpToRel
  <2>2. QED BY <2>1, NatLessThanWellFounded, Zenon
<1>2. \E x \in T : \A y \in T : <<y, x>> \notin Less
  <2> HIDE DEF Less
  <2> QED BY <1>1, WFMin, Zenon
<1>3. PICK x \in T : \A y \in T : <<y, x>> \notin Less
  BY <1>2
<1>4. ASSUME NEW y \in T PROVE x <= y
  <2>1. <<y, x>> \in Nat \X Nat /\ <<y, x>>[1] = y /\ <<y, x>>[2] = x
    OBVIOUS
  <2>2. ~(y < x)
    BY <1>3, <2>1
  <2>3. QED BY <2>2
<1>5. QED BY <1>4, Zenon DEF Min

LEMMA BranchIndex ==
  ASSUME NEW t \in DOMAIN Branches
  PROVE  /\ DOMAIN Branches[t] = 1..Len(Branches[t]) /\ Len(Branches[t]) \in Nat
         /\ \A i \in DOMAIN Branches[t] : Branches[t][i].next \in StepId
<1> DEFINE Words == SUBSET STRING
           Branch == [match : Match, keywords : Words, next : StepId]
<1>1. Branches[t] \in Seq(Branch)
  BY ServicesAssumption
<1> HIDE DEF Words
<1>2. \A b \in Branch : b.next \in StepId
  OBVIOUS
<1> HIDE DEF Branch
<1>3. QED BY <1>1, <1>2

\* An index found by the agent is one of a branch that fits.
LEMMA FitIsListed ==
  ASSUME NEW t \in DOMAIN Branches, NEW said \in Utterance, FirstFit[t][said] # 0
  PROVE  FirstFit[t][said] \in DOMAIN Branches[t]
<1> DEFINE found == {i \in 1..Len(Branches[t]) : Fits(Branches[t][i], said)}
<1>1. FirstFit[t][said] = IF found # {} THEN Min(found) ELSE 0
  BY Zenon DEF FirstFit, SelectInSeq
<1>2. found \subseteq Nat
  BY BranchIndex
<1>3. found # {} => Min(found) \in found
  BY <1>2, LeastPosition
<1>4. QED BY <1>1, <1>3, BranchIndex

LEMMA UnclearIsListed ==
  ASSUME NEW t \in DOMAIN Branches
  PROVE  LET u == UnclearBranch[t] IN
         /\ u # 0 => u \in DOMAIN Branches[t] /\ Branches[t][u].match = "unclear"
         /\ u = 0 => \A i \in DOMAIN Branches[t] : Branches[t][i].match # "unclear"
<1> DEFINE found == {i \in 1..Len(Branches[t]) : Branches[t][i].match = "unclear"}
<1>1. UnclearBranch[t] = IF found # {} THEN Min(found) ELSE 0
  BY Zenon DEF UnclearBranch, SelectInSeq
<1>2. found \subseteq Nat
  BY BranchIndex
<1>3. found # {} => Min(found) \in found
  BY <1>2, LeastPosition
<1>4. 0 \notin found
  BY BranchIndex
<1>5. QED BY <1>1, <1>3, <1>4, BranchIndex

LEMMA AskStepHasBranches ==
  ASSUME NEW t \in DOMAIN Def, Def[t].type # "speak"
  PROVE  Def[t].type = "ask" /\ t \in DOMAIN Branches
<1>1. Def[t] \in Step
  BY EngineAssumption
<1>2. QED BY <1>1, ServicesAssumption DEF Step

LEMMA AnswerType ==
  ASSUME NEW t \in StepId, NEW said \in Utterance
  PROVE  ReasonLocal(t, said) \in Answer
<1>1. Trouble \in Answer
  BY EngineAssumption DEF Trouble, Answer
<1>2. \A to \in StepId, e \in BOOLEAN : [next_step |-> to, should_escalate |-> e] \in Answer
  BY DEF Answer
<1>3. CASE t \notin DOMAIN Def
  BY <1>1, <1>3 DEF ReasonLocal
<1>4. CASE t \in DOMAIN Def /\ Def[t].type = "speak"
  <2> DEFINE to == IF Def[t].next \in DOMAIN Def THEN Def[t].next ELSE t
  <2>1. to \in StepId
    BY EngineAssumption
  <2>2. ReasonLocal(t, said) = [next_step |-> to, should_escalate |-> FALSE]
    BY <1>4 DEF ReasonLocal
  <2> HIDE DEF to
  <2>3. QED BY <1>2, <2>1, <2>2
<1>5. CASE t \in DOMAIN Def /\ Def[t].type # "speak"
  <2>1. t \in DOMAIN Branches
    BY <1>5, AskStepHasBranches
  <2>2. CASE FirstFit[t][said] = 0
    <3> DEFINE to == Branches[t][UnclearBranch[t]].next
    <3>1. ReasonLocal(t, said) = NoMatch(t)
      BY <1>5, <2>2 DEF ReasonLocal
    <3>2. \/ NoMatch(t) = Trouble
          \/ /\ to \in DOMAIN Def
             /\ NoMatch(t) = [next_step |-> to, should_escalate |-> Def[to].outcome = "escalate_human"]
      BY DEF NoMatch
    <3> HIDE DEF to
    <3>3. to \in DOMAIN Def => to \in StepId
      BY EngineAssumption
    <3>4. QED BY <1>1, <1>2, <3>1, <3>2, <3>3
  <2>3. CASE FirstFit[t][said] # 0
    <3> DEFINE to == Branches[t][FirstFit[t][said]].next
    <3>1. to \in StepId
      BY <2>1, <2>3, FitIsListed, BranchIndex
    <3>2. ReasonLocal(t, said) = [next_step |-> to, should_escalate |-> FALSE]
      BY <1>5, <2>3 DEF ReasonLocal
    <3> HIDE DEF to
    <3>3. QED BY <1>2, <3>1, <3>2
  <2>4. QED BY <2>2, <2>3
<1>6. QED BY <1>3, <1>4, <1>5

(***************************************************************************)
(* What the handlers make of a session of this model: the type of its      *)
(* fields, and what the call does next.                                    *)
(***************************************************************************)
CallSession == [current_step : StepId, unclear_count : 0..MaxUnclear, outcome : CallOutcome \cup {None}]

Asks(s) == s.current_step \in DOMAIN Def /\ Def[s.current_step].type = "ask"

\* The handler returns r for s.
Handled(s, r) ==
  /\ r.session \in CallSession /\ r.command \in Command
  /\ r.command \in {"sop_speak", "sop_ask"}
       => r.session.unclear_count = s.unclear_count \/ r.session.unclear_count < MaxUnclear

\* What is asked is a step that the definition of the call asks.
QuestionsAgree ==
  \A t \in DOMAIN DefaultDef : DefaultDef[t].type = "ask" => t \in DOMAIN Def /\ Def[t].type = "ask"

LEMMA PlayHandled ==
  ASSUME NEW s \in CallSession, NEW context \in {"sop_speak", "sop_terminal"}
  PROVE  LET r == OnPlayCompleted(s, context) IN
         /\ Handled(s, r)
         /\ context = "sop_terminal" => r.command = "hang_up"
         /\ r.command = "sop_ask" => Asks(r.session)
<1> DEFINE to == Def[s.current_step].next
           moved == [s EXCEPT !.current_step = to]
           r == OnPlayCompleted(s, context)
<1>1. CASE context = "sop_terminal"
  <2>1. r.session = s /\ r.command = "hang_up"
    BY <1>1 DEF OnPlayCompleted
  <2>2. QED BY <1>1, <2>1 DEF Handled, Command
<1>2. CASE context # "sop_terminal" /\ ~SpeaksOn(s)
  <2>1. r.session = s /\ r.command = None
    BY <1>2 DEF OnPlayCompleted
  <2>2. QED BY <1>2, <2>1 DEF Handled, Command, None
<1>3. CASE context # "sop_terminal" /\ SpeaksOn(s)
  <2>1. to \in StepId
    BY <1>3, EngineAssumption DEF SpeaksOn, Known, Step
  <2>2. moved \in CallSession /\ moved.current_step = to /\ moved.unclear_count = s.unclear_count
    BY <2>1 DEF CallSession
  <2>3. r.session = moved
    BY <1>3 DEF OnPlayCompleted
  <2>4. r.command \in Command /\ (r.command = "sop_ask" => to \in DOMAIN Def /\ Def[to].type = "ask")
    BY <1>3 DEF OnPlayCompleted, Command, MediaContext, None
  <2> HIDE DEF moved, to, r
  <2>5. QED BY <1>3, <2>2, <2>3, <2>4 DEF Handled, Asks, r
<1>4. QED BY <1>1, <1>2, <1>3

LEMMA SilenceHandled ==
  ASSUME NEW s \in CallSession, s.unclear_count < MaxUnclear
  PROVE  LET r == OnRecognizeFailed(s) IN
         Handled(s, r) /\ (Asks(s) /\ r.command = "sop_ask" => Asks(r.session))
<1> DEFINE counted == [s EXCEPT !.unclear_count = @ + 1]
           moved == [counted EXCEPT !.current_step = "escalate_unclear"]
           escalated == [counted EXCEPT !.current_step = "escalate_unclear",
                                        !.outcome = "escalate_human"]
           r == OnRecognizeFailed(s)
<1>1. MaxUnclear \in Nat /\ s.unclear_count \in 0..MaxUnclear
  BY EngineAssumption DEF CallSession
<1>2. /\ counted \in CallSession /\ counted.current_step = s.current_step
      /\ counted.unclear_count \in Nat
  BY <1>1 DEF CallSession
<1> HIDE DEF counted
<1>3. moved \in CallSession
  BY <1>2, EngineAssumption DEF CallSession
<1>4. escalated \in CallSession
  <2>1. "escalate_human" \in CallOutcome
    BY DEF CallOutcome
  <2>2. QED BY <1>2, <2>1, EngineAssumption DEF CallSession
<1> HIDE DEF moved, escalated
<1>5. \/ ~(counted.unclear_count >= MaxUnclear) /\ r = [session |-> counted, command |-> "sop_ask"]
      \/ r = [session |-> moved, command |-> None]
      \/ r = [session |-> escalated, command |-> "sop_terminal"]
  BY DEF OnRecognizeFailed, ShouldEscalateUnclear, counted, moved, escalated
<1> HIDE DEF r
<1>6. CASE ~(counted.unclear_count >= MaxUnclear) /\ r = [session |-> counted, command |-> "sop_ask"]
  BY <1>1, <1>2, <1>6 DEF r, Handled, Command, MediaContext, Asks
<1>7. CASE r = [session |-> moved, command |-> None]
  BY <1>3, <1>7 DEF r, Handled, Command, None
<1>8. CASE r = [session |-> escalated, command |-> "sop_terminal"]
  BY <1>4, <1>8 DEF r, Handled, Command, MediaContext
<1>9. QED BY <1>5, <1>6, <1>7, <1>8

LEMMA AnswerHandled ==
  ASSUME NEW s \in CallSession, NEW response \in Answer
  PROVE  LET r == OnAgentResponse(s, response)
             t == EvaluateTransition(Def[s.current_step], response)
         IN /\ Handled(s, r)
            /\ QuestionsAgree /\ r.command = "sop_ask" => Asks(r.session)
            /\ ~EvaluationRaises(s.current_step, response) /\ t.next # None
                 => r.session.current_step = t.next
<1> DEFINE t == EvaluateTransition(Def[s.current_step], response)
           a == AdvanceSession(s, response)
           r == OnAgentResponse(s, response)
           step == IF t.next = None THEN s.current_step ELSE t.next
           end == IF t.outcome = None THEN s.outcome ELSE ParseOutcome(t.outcome)
<1>1. CASE EvaluationRaises(s.current_step, response)
  <2>1. r.session = s /\ r.command = None
    BY <1>1 DEF OnAgentResponse
  <2> HIDE DEF r
  <2>2. QED BY <1>1, <2>1 DEF r, Handled, Command, None
<1>2. CASE ~EvaluationRaises(s.current_step, response)
  <2>1. t.next \in StepId \cup {None} /\ t.outcome \in StepOutcome \cup {None}
    BY <1>2, TransitionType DEF CallSession, Answer, AgentResponse
  <2>2. r.session = a /\ r.command = CommandAfterAdvance(s, response)
    BY <1>2 DEF OnAgentResponse
  <2>3. CommandAfterAdvance(s, response) \in Command
    BY DEF CommandAfterAdvance, Command, MediaContext, None
  <2>4. CommandAfterAdvance(s, response) = "sop_ask"
          => t.next # None /\ t.next \in DOMAIN DefaultDef /\ DefaultDef[t.next].type = "ask"
    BY DEF CommandAfterAdvance, None
  <2>5. a = [s EXCEPT !.current_step = step, !.outcome = end]
    BY DEF AdvanceSession
  <2> HIDE DEF t, a, r
  <2>6. step \in StepId /\ end \in CallOutcome \cup {None}
    BY <2>1 DEF CallSession, ParseOutcome, CallOutcome
  <2> HIDE DEF step, end
  <2>7. a \in CallSession /\ a.current_step = step /\ a.unclear_count = s.unclear_count
    BY <2>5, <2>6 DEF CallSession
  <2>8. t.next # None => step = t.next
    BY DEF step
  <2>9. QED
    BY <1>2, <2>2, <2>3, <2>4, <2>7, <2>8 DEF Handled, QuestionsAgree, Asks, r, t
<1>3. QED BY <1>1, <1>2

(***************************************************************************)
(* The inductive invariant, call by call: while a call can still be asked  *)
(* again the callee may be unclear once more; and what waits for the agent *)
(* is a question, whose answer is known to the model once it is sent.      *)
(***************************************************************************)
Activity == MediaContext \cup {"asking", "over", "stuck"}

CallRecord == [session : CallSession, doing : Activity, try : 0..MaxTries, answer : Answer,
               unclear : BOOLEAN, sends : 0..MaxSends, accepted : BOOLEAN]

Typed(k) ==
  /\ k \in CallRecord
  /\ k.doing \in {"sop_speak", "sop_ask", "asking"} => k.session.unclear_count < MaxUnclear

Questioned(k) ==
  /\ k.doing \in {"sop_ask", "asking"} => Asks(k.session)
  /\ k.doing = "asking" /\ k.unclear => k.answer = NoMatch(k.session.current_step)

CallsTyped == call = [c \in Call |-> call[c]] /\ \A c \in Call : Typed(call[c])

CallsQuestioned == \A c \in Call : Questioned(call[c])

\* The record of call c is changed to n.
Becomes(c, n) == call' = [call EXCEPT ![c] = n]

\* n is as good a record as k.
AsGood(k, n) == Typed(n) /\ (QuestionsAgree /\ Questioned(k) => Questioned(n))

LEMMA FreshTyped ==
  ASSUME MaxUnclear > 0
  PROVE  Typed(Fresh) /\ Questioned(Fresh)
<1> DEFINE s == [current_step |-> "greeting", unclear_count |-> 0, outcome |-> None]
<1>1. s \in CallSession
  BY EngineAssumption DEF CallSession
<1>2. Trouble \in Answer
  BY EngineAssumption DEF Trouble, Answer
<1>3. s.unclear_count = 0
  OBVIOUS
<1>4. Fresh = [session |-> s, doing |-> "sop_speak", try |-> 0, answer |-> Trouble, unclear |-> FALSE,
               sends |-> 0, accepted |-> FALSE]
  BY Zenon DEF Fresh
<1> HIDE DEF s
<1>5. Fresh \in CallRecord
  BY <1>1, <1>2, <1>4 DEF CallRecord, Activity, MediaContext, MaxTries, MaxSends
<1>6. QED BY <1>3, <1>4, <1>5 DEF Typed, Questioned

LEMMA TurnBecomes ==
  ASSUME CallsTyped, NEW c \in Call, NEW result, Turn(c, result),
         Handled(call[c].session, result),
         call[c].session.unclear_count < MaxUnclear \/ result.command \notin {"sop_speak", "sop_ask"}
  PROVE  \E n : /\ Becomes(c, n) /\ Typed(n) /\ n.session = result.session
                /\ ~(result.command = "sop_ask" /\ ~Asks(result.session)) => Questioned(n)
<1> DEFINE k == call[c]
           d == Doing(result.command)
           n1 == [k EXCEPT !.session = result.session]
           n2 == [n1 EXCEPT !.doing = d]
           n == [n2 EXCEPT !.try = 0]
<1>1. k \in CallRecord
  BY DEF CallsTyped, Typed
<1>2. Becomes(c, n)
  BY DEF CallsTyped, Turn, Becomes
<1>3. /\ result.session \in CallSession /\ result.command \in Command
      /\ result.command \in {"sop_speak", "sop_ask"} => result.session.unclear_count < MaxUnclear
  BY DEF Handled
<1>4. d \in Activity \ {"asking"}
      /\ (d \in {"sop_speak", "sop_ask"} => d = result.command)
  BY <1>3 DEF Doing, Activity, Command, MediaContext, None
<1> HIDE DEF k, d
<1>5. n1 \in CallRecord /\ n1.session = result.session
  BY <1>1, <1>3 DEF CallRecord
<1> HIDE DEF n1
<1>6. n2 \in CallRecord /\ n2.session = result.session /\ n2.doing = d
  BY <1>4, <1>5 DEF CallRecord
<1> HIDE DEF n2
<1>7. n \in CallRecord /\ n.session = result.session /\ n.doing = d
  BY <1>6 DEF CallRecord, MaxTries
<1> HIDE DEF n
<1>8. Typed(n)
  BY <1>3, <1>4, <1>7 DEF Typed
<1>9. ~(result.command = "sop_ask" /\ ~Asks(result.session)) => Questioned(n)
  BY <1>4, <1>7 DEF Questioned
<1>10. QED BY <1>2, <1>7, <1>8, <1>9

LEMMA AnsweredBecomes ==
  ASSUME CallsTyped, NEW c \in Call, NEW response \in Answer, Answered(c, response),
         call[c].doing \in {"sop_ask", "asking"}
  PROVE  \E n : Becomes(c, n) /\ AsGood(call[c], n)
                /\ n.session = OnAgentResponse(call[c].session, response).session
<1> DEFINE r == OnAgentResponse(call[c].session, response)
<1>1. call[c].session \in CallSession /\ call[c].session.unclear_count < MaxUnclear
  BY DEF CallsTyped, Typed, CallRecord
<1>2. Handled(call[c].session, r) /\ (QuestionsAgree /\ r.command = "sop_ask" => Asks(r.session))
  BY <1>1, AnswerHandled
<1>3. Turn(c, r)
  BY DEF Answered
<1> HIDE DEF r
<1>4. QED BY <1>1, <1>2, <1>3, TurnBecomes DEF AsGood, r

LEMMA CallStep ==
  ASSUME MaxUnclear > 0, CallsTyped, NEW c \in Call,
         PlayEnds(c) \/ Listens(c) \/ Request(c) \/ Send(c) \/ NextCall(c)
  PROVE  \E n : Becomes(c, n) /\ AsGood(call[c], n)
<1> DEFINE k == call[c]
<1>1. k \in CallRecord /\ k.session \in CallSession /\ k.session.current_step \in StepId
      /\ (k.doing \in {"sop_speak", "sop_ask", "asking"} => k.session.unclear_count < MaxUnclear)
  BY DEF CallsTyped, Typed, CallRecord, CallSession
<1>2. Trouble \in Answer
  BY EngineAssumption DEF Trouble, Answer
<1>3. CASE PlayEnds(c)
  <2> DEFINE r == OnPlayCompleted(k.session, k.doing)
  <2>1. k.doing \in {"sop_speak", "sop_terminal"} /\ Turn(c, r)
    BY <1>3 DEF PlayEnds
  <2>2. Handled(k.session, r) /\ (k.doing = "sop_terminal" => r.command = "hang_up")
        /\ (r.command = "sop_ask" => Asks(r.session))
    BY <1>1, <2>1, PlayHandled
  <2> HIDE DEF r
  <2>3. QED BY <1>1, <2>1, <2>2, TurnBecomes DEF AsGood
<1>4. CASE Silence(c)
  <2> DEFINE r == OnRecognizeFailed(k.session)
  <2>1. k.doing = "sop_ask" /\ Turn(c, r)
    BY <1>4 DEF Silence
  <2>2. Handled(k.session, r) /\ (Asks(k.session) /\ r.command = "sop_ask" => Asks(r.session))
    BY <1>1, <2>1, SilenceHandled
  <2> HIDE DEF r
  <2>3. Questioned(k) => Asks(k.session)
    BY <2>1 DEF Questioned
  <2>4. QED BY <1>1, <2>1, <2>2, <2>3, TurnBecomes DEF AsGood
<1>5. ASSUME NEW said \in Utterance, Speaks(c, said)
      PROVE  \E n : Becomes(c, n) /\ AsGood(call[c], n)
  <2>1. CASE open
    BY <1>2, <1>5, <2>1, AnsweredBecomes DEF Speaks
  <2>2. CASE ~open
    <3> DEFINE step == k.session.current_step
               answer == ReasonLocal(step, said)
               unclear == FirstFit[step][said] = 0
               n1 == [k EXCEPT !.doing = "asking"]
               n2 == [n1 EXCEPT !.try = 1]
               n3 == [n2 EXCEPT !.answer = answer]
               n == [n3 EXCEPT !.unclear = unclear]
    <3>1. /\ k.doing = "sop_ask"
          /\ call' = [call EXCEPT ![c].doing = "asking", ![c].try = 1,
                                  ![c].answer = answer, ![c].unclear = unclear]
      BY <1>5, <2>2 DEF Speaks
    <3>2. Asks(k.session) /\ unclear => answer = NoMatch(step)
      BY DEF Asks, ReasonLocal
    <3>3. answer \in Answer /\ unclear \in BOOLEAN
      BY <1>1, AnswerType
    <3> HIDE DEF answer, unclear, step
    <3>4. Becomes(c, n)
      BY <3>1 DEF CallsTyped, Becomes
    <3> HIDE DEF k
    <3>5. n1 \in CallRecord /\ n1.doing = "asking" /\ n1.session = k.session
      BY <1>1 DEF CallRecord, Activity
    <3> HIDE DEF n1
    <3>6. n2 \in CallRecord /\ n2.doing = "asking" /\ n2.session = k.session
      BY <3>5 DEF CallRecord, MaxTries
    <3> HIDE DEF n2
    <3>7. n3 \in CallRecord /\ n3.doing = "asking" /\ n3.session = k.session /\ n3.answer = answer
      BY <3>3, <3>6 DEF CallRecord
    <3> HIDE DEF n3
    <3>8. n \in CallRecord /\ n.doing = "asking" /\ n.session = k.session /\ n.answer = answer
          /\ n.unclear = unclear
      BY <3>3, <3>7 DEF CallRecord
    <3> HIDE DEF n
    <3>9. Typed(n)
      BY <1>1, <3>1, <3>8 DEF Typed
    <3>10. Questioned(k) => Questioned(n)
      <4>1. Questioned(k) => Asks(k.session)
        BY <3>1 DEF Questioned
      <4>2. QED BY <3>2, <3>8, <4>1 DEF Questioned, step
    <3>11. QED BY <3>4, <3>9, <3>10 DEF AsGood, k
  <2>3. QED BY <2>1, <2>2
<1>6. CASE Replies(c) \/ GivesUp(c) \/ RepliesMalformed(c)
  <2>1. k.answer \in Answer
    BY <1>1 DEF CallRecord
  <2>2. k.doing = "asking" /\ (Answered(c, k.answer) \/ Answered(c, Trouble))
    BY <1>6 DEF Replies, GivesUp, RepliesMalformed
  <2>3. QED BY <1>2, <2>1, <2>2, AnsweredBecomes
<1>7. CASE TriesAgain(c)
  <2> DEFINE n == [k EXCEPT !.try = k.try + 1]
  <2>1. k.try < MaxTries /\ Becomes(c, n)
    BY <1>7 DEF TriesAgain, CallsTyped, Becomes
  <2> HIDE DEF k
  <2>2. n \in CallRecord /\ n.doing = k.doing /\ n.session = k.session /\ n.answer = k.answer
        /\ n.unclear = k.unclear
    <3>1. k.try + 1 \in 0..MaxTries
      BY <1>1, <2>1 DEF CallRecord, MaxTries
    <3>2. QED BY <1>1, <3>1 DEF CallRecord
  <2> HIDE DEF n
  <2>3. AsGood(k, n)
    BY <1>1, <2>2 DEF AsGood, Typed, Questioned
  <2>4. QED BY <2>1, <2>3 DEF k
<1>8. CASE Send(c)
  <2>1. PICK accepted \in BOOLEAN :
          call' = [call EXCEPT ![c].sends = @ + 1, ![c].accepted = accepted]
    BY <1>8 DEF Send
  <2> DEFINE n1 == [k EXCEPT !.sends = k.sends + 1]
             n == [n1 EXCEPT !.accepted = accepted]
  <2>2. k.sends < MaxSends
    BY <1>8 DEF Send, Delivering
  <2>3. Becomes(c, n)
    BY <2>1 DEF CallsTyped, Becomes
  <2> HIDE DEF k
  <2>4. n1 \in CallRecord /\ n1.doing = k.doing /\ n1.session = k.session /\ n1.answer = k.answer
        /\ n1.unclear = k.unclear
    <3>1. k.sends + 1 \in 0..MaxSends
      BY <1>1, <2>2 DEF CallRecord, MaxSends
    <3>2. QED BY <1>1, <3>1 DEF CallRecord
  <2> HIDE DEF n1
  <2>5. n \in CallRecord /\ n.doing = k.doing /\ n.session = k.session /\ n.answer = k.answer
        /\ n.unclear = k.unclear
    BY <2>4 DEF CallRecord
  <2> HIDE DEF n
  <2>6. AsGood(k, n)
    BY <1>1, <2>5 DEF AsGood, Typed, Questioned
  <2>7. QED BY <2>3, <2>6 DEF k
<1>9. CASE NextCall(c)
  BY <1>9, FreshTyped DEF NextCall, Becomes, AsGood
<1>10. QED BY <1>3, <1>4, <1>5, <1>6, <1>7, <1>8, <1>9 DEF Listens, Request

LEMMA CallsInit ==
  ASSUME MaxUnclear > 0, Init
  PROVE  CallsTyped /\ CallsQuestioned
BY FreshTyped DEF Init, CallsTyped, CallsQuestioned

LEMMA CallsStep ==
  ASSUME MaxUnclear > 0, CallsTyped, [Next]_vars
  PROVE  CallsTyped' /\ (QuestionsAgree /\ CallsQuestioned => CallsQuestioned')
<1>1. CASE UNCHANGED vars
  BY <1>1 DEF CallsTyped, CallsQuestioned, Typed, Questioned, Asks, vars
<1>2. ASSUME NEW c \in Call, PlayEnds(c) \/ Listens(c) \/ Request(c) \/ Send(c) \/ NextCall(c)
      PROVE  CallsTyped' /\ (QuestionsAgree /\ CallsQuestioned => CallsQuestioned')
  <2>1. PICK n : Becomes(c, n) /\ AsGood(call[c], n)
    BY <1>2, CallStep
  <2>2. /\ call' = [d \in Call |-> call'[d]] /\ call'[c] = n
        /\ \A d \in Call \ {c} : call'[d] = call[d]
    BY <2>1 DEF CallsTyped, Becomes
  <2>3. \A d \in Call : Typed(call'[d])
    BY <2>1, <2>2 DEF CallsTyped, AsGood
  <2>4. QuestionsAgree /\ CallsQuestioned => \A d \in Call : Questioned(call'[d])
    BY <2>1, <2>2 DEF CallsQuestioned, AsGood
  <2>5. CallsTyped'
    BY <2>2, <2>3 DEF CallsTyped, Typed
  <2>6. QED BY <2>4, <2>5 DEF CallsQuestioned, Questioned, Asks
<1>3. QED BY <1>1, <1>2 DEF Next

(***************************************************************************)
(* Every variable keeps its type: a call never makes more attempts, posts  *)
(* or unclear turns than allowed (_MAX_RETRIES, RETRY_DELAYS and the SOP's *)
(* limit, whatever it is, as long as it allows one).                       *)
(***************************************************************************)
THEOREM ServicesTypes ==
  ASSUME MaxUnclear > 0
  PROVE  Spec => []TypeOK
<1>1. Init => CallsTyped /\ CountsFailures
  BY CallsInit, CountsInit
<1>2. CallsTyped /\ CountsFailures /\ [Next]_vars => CallsTyped' /\ CountsFailures'
  BY CallsStep, CountsStep
<1>3. CallsTyped /\ CountsFailures => TypeOK
  <2> SUFFICES ASSUME CallsTyped, CountsFailures PROVE TypeOK
    OBVIOUS
  <2>1. call \in [Call -> CallRecord]
    BY DEF CallsTyped, Typed
  <2>2. QED BY <2>1, Zenon DEF CountsFailures, TypeOK, CallRecord, CallSession, Activity
<1>4. QED BY <1>1, <1>2, <1>3, PTL DEF Spec

(***************************************************************************)
(* An answer that fits nothing takes the step's own unclear branch, and    *)
(* never the engine's escalation instead, although the agent and the       *)
(* engine check the step against different definitions (_reason_local,     *)
(* evaluate_transition).                                                   *)
(***************************************************************************)
THEOREM MishearingLeadsOn ==
  ASSUME MaxUnclear > 0, OneWayOut
  PROVE  Spec => MishearingIsRetried
<1>1. QuestionsAgree
  BY DEF OneWayOut, QuestionsAgree
<1>2. Init => CallsTyped /\ CallsQuestioned
  BY CallsInit
<1>3. CallsTyped /\ CallsQuestioned /\ [Next]_vars => CallsTyped' /\ CallsQuestioned'
  BY <1>1, CallsStep
<1>4. ASSUME CallsTyped, CallsQuestioned, NEW c \in Call, call[c].unclear, Replies(c),
             NEW i \in DOMAIN Branches[call[c].session.current_step],
             Branches[call[c].session.current_step][i].match = "unclear"
      PROVE  call'[c].session.current_step = Branches[call[c].session.current_step][i].next
  <2> DEFINE s == call[c].session
             t == s.current_step
             to == Branches[t][i].next
             u == UnclearBranch[t]
             answer == NoMatch(t)
             v == EvaluateTransition(Def[t], answer)
  <2>1. /\ s \in CallSession /\ call[c].answer \in Answer /\ call[c].doing = "asking"
        /\ Asks(s) /\ call[c].answer = answer
    BY <1>4 DEF CallsTyped, Typed, CallRecord, CallsQuestioned, Questioned, Replies
  <2>2. t \in DOMAIN Def /\ Def[t].type = "ask" /\ t \in DOMAIN Branches
    BY <2>1, ServicesAssumption DEF Asks
  <2>3. u # 0 /\ u \in DOMAIN Branches[t] /\ Branches[t][u].match = "unclear"
    BY <1>4, <2>2, UnclearIsListed
  <2>4. /\ Branches[t][u].next = to /\ to \in DOMAIN Def /\ to \in DOMAIN DefaultDef
        /\ Def[to].outcome = "escalate_human" => to = "escalate_unclear"
    BY <1>4, <2>2, <2>3 DEF OneWayOut
  <2>5. to \in Def[t].branches
    BY <2>2, <2>3, <2>4, ServicesAssumption
  <2>6. answer = [next_step |-> to, should_escalate |-> Def[to].outcome = "escalate_human"]
    BY <2>3, <2>4 DEF NoMatch
  <2> HIDE DEF to, u, answer
  <2>7. answer.next_step = to /\ (answer.should_escalate <=> Def[to].outcome = "escalate_human")
    BY <2>6
  <2>8. ~EvaluationRaises(t, answer)
    BY <2>2, <2>4, <2>7 DEF EvaluationRaises
  <2>9. v.next = to
    <3>1. CASE answer.should_escalate
      BY <2>4, <2>7, <3>1 DEF EvaluateTransition, Escalation
    <3>2. CASE ~answer.should_escalate
      <4>1. ~IsFixed(Def[t]) /\ IsBranching(Def[t])
        BY <2>2, <2>5 DEF IsFixed, IsBranching
      <4>2. QED BY <2>4, <2>5, <2>7, <3>2, <4>1 DEF EvaluateTransition, BranchTo
    <3>3. QED BY <3>1, <3>2
  <2>10. to # None
    BY <2>4, EngineAssumption
  <2> HIDE DEF v
  <2>11. OnAgentResponse(s, answer).session.current_step = to
    <3>1. answer \in Answer
      BY <2>1
    <3>2. v.next # None => OnAgentResponse(s, answer).session.current_step = v.next
      BY <2>1, <2>8, <3>1, AnswerHandled DEF v
    <3>3. QED BY <2>9, <2>10, <3>2
  <2>12. Answered(c, call[c].answer)
    BY <1>4 DEF Replies
  <2>13. PICK n : Becomes(c, n) /\ n.session = OnAgentResponse(s, call[c].answer).session
    BY <1>4, <2>1, <2>12, AnsweredBecomes
  <2>14. call'[c] = n
    BY <1>4, <2>13 DEF CallsTyped, Becomes
  <2>15. QED BY <2>1, <2>11, <2>13, <2>14 DEF to
<1>5. CallsTyped /\ CallsQuestioned /\ [Next]_vars
        => [\A c \in Call :
              call[c].unclear /\ Replies(c)
                => LET step == call[c].session.current_step
                       branches == Branches[step] IN
                   \A i \in DOMAIN branches :
                     branches[i].match = "unclear"
                       => call'[c].session.current_step = branches[i].next]_vars
  BY <1>4
<1>6. QED BY <1>2, <1>3, <1>5, PTL DEF Spec, MishearingIsRetried

===============================================================================
