-------------------------- MODULE StreamedCallProofs --------------------------
(***************************************************************************)
(* Proofs about StreamedCall, for every SOP, every set of answers of the   *)
(* agent and any number of transcripts that wait on the event loop.        *)
(***************************************************************************)
EXTENDS StreamedCall, HandlerProofs, FiniteSetTheorems

(***************************************************************************)
(* The inductive invariant: _turn_active is the lock of the one turn, and  *)
(* while the greeting is under way, and the callee has not talked over it, *)
(* no transcript was accepted.                                             *)
(***************************************************************************)
TurnShape ==
  turn = [i \in Slot |-> [stage |-> turn[i].stage, heard |-> turn[i].heard,
                          voice |-> turn[i].voice, terminal |-> turn[i].terminal]]

TurnHoldsLock == \A i \in Slot : turn[i].stage # "idle" => turnActive

AtMostOneTurn == \A i, j \in Slot : turn[i].stage # "idle" /\ turn[j].stage # "idle" => i = j

NoTurnInGreeting ==
  greeter.stage # "done" /\ ~spokeOver
    => pending = << >> /\ ~turnActive /\ (greeter.stage = "speaking" => speaking \/ gap)

DeafInSetup == greeter.stage \in {"setup", "refused"} => ~listening

GreeterShape ==
  /\ greeter = [stage |-> greeter.stage, voice |-> greeter.voice]
  /\ greeter.stage \in {"setup", "refused", "delay", "speaking", "done"}

Inv == GreeterShape /\ TurnShape /\ TurnHoldsLock /\ AtMostOneTurn /\ NoTurnInGreeting /\ DeafInSetup

LEMMA InvInit == ASSUME Init PROVE Inv
<1>1. turn = [i \in Slot |-> [stage |-> "idle", heard |-> NoTranscript, voice |-> Silent, terminal |-> FALSE]]
  BY DEF Init, IdleTurn
<1>2. \A i \in Slot : turn[i].stage = "idle"
  BY <1>1
<1>3. TurnShape
  BY <1>1 DEF TurnShape
<1>4. TurnHoldsLock /\ AtMostOneTurn
  BY <1>2 DEF TurnHoldsLock, AtMostOneTurn
<1>5. NoTurnInGreeting /\ DeafInSetup /\ GreeterShape
  BY DEF Init, NoTurnInGreeting, DeafInSetup, GreeterShape
<1>6. QED BY <1>3, <1>4, <1>5 DEF Inv

(***************************************************************************)
(* The parts of a step.                                                    *)
(***************************************************************************)

\* The fields of a record, one by one.
LEMMA RecordUpdates ==
  ASSUME NEW s0, NEW h0, NEW v0, NEW t0, NEW x, NEW r,
         r = [stage |-> s0, heard |-> h0, voice |-> v0, terminal |-> t0]
  PROVE  /\ [r EXCEPT !.stage = x] = [stage |-> x, heard |-> h0, voice |-> v0, terminal |-> t0]
         /\ [r EXCEPT !.heard = x] = [stage |-> s0, heard |-> x, voice |-> v0, terminal |-> t0]
         /\ [r EXCEPT !.voice = x] = [stage |-> s0, heard |-> h0, voice |-> x, terminal |-> t0]
         /\ [r EXCEPT !.terminal = x] = [stage |-> s0, heard |-> h0, voice |-> v0, terminal |-> x]
  OBVIOUS

\* Turn i with these values.
With(i, stage, heard, voice, terminal) ==
  [turn EXCEPT ![i] = [stage |-> stage, heard |-> heard, voice |-> voice, terminal |-> terminal]]

\* The updates that the actions make.
LEMMA TurnUpdates ==
  ASSUME Inv, NEW i \in Slot, NEW stage, NEW heard, NEW voice, NEW terminal
  PROVE  /\ [turn EXCEPT ![i].stage = stage, ![i].heard = heard]
               = With(i, stage, heard, turn[i].voice, turn[i].terminal)
         /\ [turn EXCEPT ![i].voice = voice]
               = With(i, turn[i].stage, turn[i].heard, voice, turn[i].terminal)
         /\ [[turn EXCEPT ![i].voice = voice] EXCEPT ![i].stage = stage]
               = With(i, stage, turn[i].heard, voice, turn[i].terminal)
<1> DEFINE r == turn[i]
<1>1. r = [stage |-> r.stage, heard |-> r.heard, voice |-> r.voice, terminal |-> r.terminal]
  BY DEF Inv, TurnShape
<1>2. turn = [k \in Slot |-> turn[k]]
  BY DEF Inv, TurnShape
<1>3. [turn EXCEPT ![i].stage = stage, ![i].heard = heard]
        = [turn EXCEPT ![i] = [[turn[i] EXCEPT !.stage = stage] EXCEPT !.heard = heard]]
  BY <1>2
<1>4. [turn EXCEPT ![i].voice = voice] = [turn EXCEPT ![i] = [turn[i] EXCEPT !.voice = voice]]
  BY <1>2
<1>5. [[turn EXCEPT ![i].voice = voice] EXCEPT ![i].stage = stage]
        = [turn EXCEPT ![i] = [[turn[i] EXCEPT !.voice = voice] EXCEPT !.stage = stage]]
  BY <1>2
<1> HIDE DEF r
<1>6. /\ [[r EXCEPT !.stage = stage] EXCEPT !.heard = heard]
            = [stage |-> stage, heard |-> heard, voice |-> r.voice, terminal |-> r.terminal]
      /\ [r EXCEPT !.voice = voice]
            = [stage |-> r.stage, heard |-> r.heard, voice |-> voice, terminal |-> r.terminal]
      /\ [[r EXCEPT !.voice = voice] EXCEPT !.stage = stage]
            = [stage |-> stage, heard |-> r.heard, voice |-> voice, terminal |-> r.terminal]
  <2> DEFINE q == [r EXCEPT !.stage = stage]
             w == [r EXCEPT !.voice = voice]
  <2>1. q = [stage |-> stage, heard |-> r.heard, voice |-> r.voice, terminal |-> r.terminal]
    BY <1>1, RecordUpdates
  <2>2. w = [stage |-> r.stage, heard |-> r.heard, voice |-> voice, terminal |-> r.terminal]
    BY <1>1, RecordUpdates
  <2>3. [q EXCEPT !.heard = heard] = [stage |-> stage, heard |-> heard, voice |-> r.voice, terminal |-> r.terminal]
    <3> HIDE DEF q
    <3>1. QED BY <2>1, RecordUpdates
  <2>4. [w EXCEPT !.stage = stage] = [stage |-> stage, heard |-> r.heard, voice |-> voice, terminal |-> r.terminal]
    <3> HIDE DEF w
    <3>1. QED BY <2>2, RecordUpdates
  <2>5. QED BY <2>2, <2>3, <2>4
<1>7. QED BY <1>3, <1>4, <1>5, <1>6 DEF With, r

LEMMA TurnSpeaks ==
  ASSUME Inv, NEW i \in Slot, NEW voice, NEW terminal,
         turn' = [turn EXCEPT ![i].stage = "speaking", ![i].voice = voice, ![i].terminal = terminal]
  PROVE  turn' = With(i, "speaking", turn[i].heard, voice, terminal)
<1> DEFINE r == turn[i]
           q == [r EXCEPT !.stage = "speaking"]
           u == [q EXCEPT !.voice = voice]
           w == [u EXCEPT !.terminal = terminal]
<1>1. r = [stage |-> r.stage, heard |-> r.heard, voice |-> r.voice, terminal |-> r.terminal]
  BY DEF Inv, TurnShape
<1>2. turn = [k \in Slot |-> turn[k]]
  BY DEF Inv, TurnShape
<1>3. turn' = [turn EXCEPT ![i] = w]
  BY <1>2
<1> HIDE DEF r
<1>4. q = [stage |-> "speaking", heard |-> r.heard, voice |-> r.voice, terminal |-> r.terminal]
  BY <1>1, RecordUpdates
<1> HIDE DEF q
<1>5. u = [stage |-> "speaking", heard |-> r.heard, voice |-> voice, terminal |-> r.terminal]
  BY <1>4, RecordUpdates
<1> HIDE DEF u
<1>6. w = [stage |-> "speaking", heard |-> r.heard, voice |-> voice, terminal |-> terminal]
  BY <1>5, RecordUpdates
<1> HIDE DEF w
<1>7. QED BY <1>3, <1>6 DEF With, r

\* A step of turn i gives it a new record, and leaves the other turns alone.
LEMMA TurnChanges ==
  ASSUME Inv, NEW i \in Slot, NEW stage, NEW heard, NEW voice, NEW terminal,
         turn' = With(i, stage, heard, voice, terminal)
  PROVE  TurnShape' /\ turn'[i].stage = stage /\ \A j \in Slot \ {i} : turn'[j] = turn[j]
<1>1. turn = [k \in Slot |-> turn[k]]
  BY DEF Inv, TurnShape
<1>2. /\ turn' = [k \in Slot |-> turn'[k]]
      /\ turn'[i] = [stage |-> stage, heard |-> heard, voice |-> voice, terminal |-> terminal]
      /\ \A j \in Slot \ {i} : turn'[j] = turn[j]
  BY <1>1 DEF With
<1>3. \A j \in Slot : turn'[j] = [stage |-> turn'[j].stage, heard |-> turn'[j].heard,
                                 voice |-> turn'[j].voice, terminal |-> turn'[j].terminal]
  BY <1>2 DEF Inv, TurnShape
<1>4. QED BY <1>2, <1>3 DEF TurnShape

\* A turn that is under way goes on.
LEMMA TurnGoesOn ==
  ASSUME Inv, NEW i \in Slot, turn[i].stage # "idle", TurnShape',
         \A j \in Slot \ {i} : turn'[j] = turn[j], UNCHANGED turnActive
  PROVE  TurnHoldsLock' /\ AtMostOneTurn'
  BY DEF Inv, TurnHoldsLock, AtMostOneTurn

\* The turn gives the lock back.
LEMMA TurnEnds ==
  ASSUME Inv, NEW i \in Slot, turn[i].stage # "idle", TurnOver(i)
  PROVE  TurnShape' /\ TurnHoldsLock' /\ AtMostOneTurn' /\ turnActive' = FALSE
<1>1. TurnShape' /\ turn'[i].stage = "idle" /\ \A j \in Slot \ {i} : turn'[j] = turn[j]
  BY TurnChanges DEF TurnOver, IdleTurn, With
<1>2. \A j \in Slot : turn'[j].stage = "idle"
  BY <1>1 DEF Inv, AtMostOneTurn
<1>3. QED BY <1>1, <1>2 DEF TurnOver, TurnHoldsLock, AtMostOneTurn

\* While a turn is under way the greeting is over, or was talked over.
LEMMA GreetedBeforeTurn ==
  ASSUME Inv, NEW i \in Slot, turn[i].stage # "idle"
  PROVE  greeter.stage = "done" \/ spokeOver
  BY DEF Inv, TurnHoldsLock, NoTurnInGreeting

\* A step that neither begins nor ends a turn.
LEMMA TurnsStand ==
  ASSUME Inv, UNCHANGED <<turn, turnActive>>
  PROVE  TurnShape' /\ TurnHoldsLock' /\ AtMostOneTurn'
  BY DEF Inv, TurnShape, TurnHoldsLock, AtMostOneTurn

(***************************************************************************)
(* The actions.                                                            *)
(***************************************************************************)
LEMMA GreetingStep == ASSUME Inv, Greeting \/ GreetingSounds PROVE Inv'
<1>1. UNCHANGED <<turn, turnActive, pending, spokeOver, listening>>
  BY DEF Greeting, SynthReady, GreetingStarts, GreetingUtteranceEnds, GreetingSounds, quiet, hearing
<1>2. TurnShape' /\ TurnHoldsLock' /\ AtMostOneTurn'
  BY <1>1, TurnsStand
<1>3. GreeterShape' /\ DeafInSetup' /\ NoTurnInGreeting'
  <2>1. CASE SynthReady
    <3>1. GreeterShape' /\ greeter.stage = "setup" /\ greeter'.stage \in {"delay", "refused"}
      BY <2>1 DEF Inv, GreeterShape, SynthReady
    <3>2. QED BY <1>1, <3>1 DEF Inv, GreeterShape, DeafInSetup, NoTurnInGreeting, SynthReady
  <2>2. CASE GreetingStarts
    <3> DEFINE opening == Opening(ses.current_step)
               opens == ses.current_step \in DOMAIN Def /\ opening.length > 0
               v == IF opens THEN Speak(opening.length) ELSE Silent
    <3>1. greeter' = [stage |-> IF opens THEN "speaking" ELSE "done", voice |-> v]
          /\ speaking' = (speaking \/ opens) /\ greeter.stage = "delay"
      BY <2>2 DEF GreetingStarts
    <3> HIDE DEF v, opens
    <3>2. GreeterShape' /\ greeter'.stage = (IF opens THEN "speaking" ELSE "done")
      BY <3>1 DEF GreeterShape
    <3>3. DeafInSetup'
      BY <3>2 DEF DeafInSetup
    <3>4. NoTurnInGreeting'
      BY <1>1, <3>1, <3>2 DEF Inv, NoTurnInGreeting
    <3>5. QED BY <3>2, <3>3, <3>4
  <2>3. CASE GreetingUtteranceEnds
    <3> DEFINE v == NextUtterance(greeter.voice)
    <3>1. /\ greeter' = [stage |-> IF v.left > 0 THEN "speaking" ELSE "done", voice |-> v]
          /\ gap' = (v.left > 0) /\ greeter.stage = "speaking"
      BY <2>3 DEF GreetingUtteranceEnds
    <3> HIDE DEF v
    <3>2. CASE v.left > 0
      <4>1. greeter' = [stage |-> "speaking", voice |-> v] /\ gap'
        BY <3>1, <3>2
      <4>2. GreeterShape' /\ greeter'.stage = "speaking"
        BY <4>1 DEF GreeterShape
      <4>3. QED BY <1>1, <3>1, <4>1, <4>2 DEF Inv, DeafInSetup, NoTurnInGreeting
    <3>3. CASE ~(v.left > 0)
      <4>1. greeter' = [stage |-> "done", voice |-> v]
        BY <3>1, <3>3
      <4>2. GreeterShape' /\ greeter'.stage = "done"
        BY <4>1 DEF GreeterShape
      <4>3. QED BY <4>2 DEF DeafInSetup, NoTurnInGreeting
    <3>4. QED BY <3>2, <3>3
  <2>4. CASE GreetingSounds
    <3>1. GreeterShape' /\ greeter'.stage = greeter.stage /\ speaking' = speaking /\ gap' = gap
      BY <2>4 DEF GreetingSounds, Inv, GreeterShape
    <3>2. QED BY <1>1, <3>1 DEF Inv, DeafInSetup, NoTurnInGreeting
  <2>5. QED BY <2>1, <2>2, <2>3, <2>4 DEF Greeting
<1>4. QED BY <1>2, <1>3 DEF Inv

\* A transcript is accepted when nobody speaks: in the delay before the greeting
\* or between two of its utterances, which counts as talking over it, or after it.
LEMMA RecognitionStep ==
  ASSUME Inv, RecognizerReady \/ Recognized \/ Recognizing \/ BargeIn \/ NextSpeak
  PROVE  Inv'
<1>1. UNCHANGED <<turn, turnActive, greeter>> /\ GreeterShape'
  BY DEF Inv, GreeterShape, RecognizerReady, Recognized, Recognizing, BargeIn, NextSpeak
<1>2. TurnShape' /\ TurnHoldsLock' /\ AtMostOneTurn'
  BY <1>1, TurnsStand
<1>3. CASE RecognizerReady
  BY <1>1, <1>2, <1>3 DEF Inv, NoTurnInGreeting, DeafInSetup, RecognizerReady, hearing
<1>4. CASE Recognized
  <2>1. ~speaking /\ listening /\ spokeOver' = (spokeOver \/ greeter.stage = "delay" \/ gap)
        /\ UNCHANGED <<listening, speaking, gap>>
    BY <1>4 DEF Recognized, Busy
  <2>2. greeter.stage = "done" \/ spokeOver'
    BY <2>1 DEF Inv, GreeterShape, NoTurnInGreeting, DeafInSetup
  <2>3. QED BY <1>1, <1>2, <2>1, <2>2 DEF Inv, NoTurnInGreeting, DeafInSetup
<1>5. CASE Recognizing
  BY <1>1, <1>2, <1>5 DEF Inv, NoTurnInGreeting, DeafInSetup, Recognizing, hearing
<1>6. CASE BargeIn
  BY <1>1, <1>2, <1>6 DEF Inv, NoTurnInGreeting, DeafInSetup, BargeIn
<1>7. CASE NextSpeak
  BY <1>1, <1>2, <1>7 DEF Inv, NoTurnInGreeting, DeafInSetup, NextSpeak, quiet, hearing
<1>8. QED BY <1>3, <1>4, <1>5, <1>6, <1>7

LEMMA HandleTranscriptStep == ASSUME Inv, HandleTranscript PROVE Inv'
<1>1. pending # << >> /\ UNCHANGED <<greeter, spokeOver, listening, speaking, gap>>
  BY DEF HandleTranscript, quiet
<1>2. GreeterShape' /\ DeafInSetup' /\ NoTurnInGreeting'
  BY <1>1 DEF Inv, GreeterShape, DeafInSetup, NoTurnInGreeting
<1>3. CASE turnActive
  BY <1>2, <1>3, TurnsStand DEF HandleTranscript, MayTakeTurn, Inv
<1>4. CASE ~turnActive
  <2>1. PICK i \in Slot : turn' = [turn EXCEPT ![i].stage = "reasoning", ![i].heard = Head(pending)]
    BY <1>4, Zenon DEF HandleTranscript, MayTakeTurn
  <2>2. turnActive'
    BY <1>4 DEF HandleTranscript, MayTakeTurn
  <2>3. turn' = With(i, "reasoning", Head(pending), turn[i].voice, turn[i].terminal)
    BY <2>1, TurnUpdates
  <2>4. TurnShape' /\ \A j \in Slot \ {i} : turn'[j] = turn[j]
    BY <2>3, TurnChanges
  <2>5. \A j \in Slot \ {i} : turn'[j].stage = "idle"
    BY <1>4, <2>4 DEF Inv, TurnHoldsLock
  <2>6. TurnHoldsLock' /\ AtMostOneTurn'
    BY <2>2, <2>5 DEF TurnHoldsLock, AtMostOneTurn
  <2>7. QED BY <1>2, <2>4, <2>6 DEF Inv
<1>5. QED BY <1>3, <1>4

LEMMA TurnStepStep == ASSUME Inv, NEW i \in Slot, TurnStep(i) \/ TurnSounds(i) PROVE Inv'
<1>1. UNCHANGED <<greeter, spokeOver, listening, pending>>
  BY DEF TurnStep, AgentAnswers, TurnUtteranceEnds, HangUp, TurnSounds, quiet, hearing
<1>2. CASE TurnStep(i)
  <2>1. turn[i].stage # "idle"
    BY <1>2 DEF TurnStep, AgentAnswers, TurnUtteranceEnds, HangUp
  <2>2. GreeterShape' /\ DeafInSetup' /\ NoTurnInGreeting'
    BY <1>1, <2>1, GreetedBeforeTurn DEF Inv, GreeterShape, DeafInSetup, NoTurnInGreeting
  <2>3. CASE TurnOver(i)
    BY <2>1, <2>2, <2>3, TurnEnds DEF Inv
  <2>4. CASE ~TurnOver(i)
    <3>1. /\ UNCHANGED turnActive
          /\ \E stage, voice, terminal :
               turn' = With(i, stage, turn[i].heard, voice, terminal)
      <4>1. CASE \E response \in Response : AgentAnswers(i, response)
        <5>1. PICK response \in Response : AgentAnswers(i, response)
          BY <4>1
        <5>2. /\ UNCHANGED turnActive
              /\ \E says, terminal :
                   turn' = [turn EXCEPT ![i].stage = "speaking", ![i].voice = says,
                                        ![i].terminal = terminal]
          BY <2>4, <5>1 DEF AgentAnswers
        <5>3. PICK says, terminal :
                turn' = [turn EXCEPT ![i].stage = "speaking", ![i].voice = says,
                                     ![i].terminal = terminal]
          BY <5>2
        <5>4. turn' = With(i, "speaking", turn[i].heard, says, terminal)
          BY <5>3, TurnSpeaks
        <5>5. QED BY <5>2, <5>4
      <4>2. CASE TurnUtteranceEnds(i)
        <5> DEFINE v == NextUtterance(turn[i].voice)
                   next == [turn EXCEPT ![i].voice = v]
        <5>1. UNCHANGED turnActive /\ (turn' = next \/ turn' = [next EXCEPT ![i].stage = "draining"])
          BY <2>4, <4>2 DEF TurnUtteranceEnds
        <5> HIDE DEF v
        <5>2. CASE turn' = next
          <6>1. turn' = [turn EXCEPT ![i].voice = v]
            BY <5>2
          <6> HIDE DEF next
          <6>2. turn' = With(i, turn[i].stage, turn[i].heard, v, turn[i].terminal)
            BY <6>1, TurnUpdates
          <6>3. QED BY <5>1, <6>2
        <5>3. CASE turn' = [next EXCEPT ![i].stage = "draining"]
          <6>1. turn' = With(i, "draining", turn[i].heard, v, turn[i].terminal)
            BY <5>3, TurnUpdates
          <6>2. QED BY <5>1, <6>1
        <5>4. QED BY <5>1, <5>2, <5>3
      <4>3. QED BY <1>2, <2>4, <4>1, <4>2 DEF TurnStep, HangUp
    <3>2. TurnShape' /\ \A j \in Slot \ {i} : turn'[j] = turn[j]
      BY <3>1, TurnChanges
    <3>3. QED BY <2>1, <2>2, <3>1, <3>2, TurnGoesOn DEF Inv
  <2>5. QED BY <2>3, <2>4
<1>3. CASE TurnSounds(i)
  <2>1. turn' = [turn EXCEPT ![i].voice.sounding = TRUE] /\ UNCHANGED <<turnActive, speaking, gap>>
    BY <1>3 DEF TurnSounds
  <2> DEFINE v == [turn[i].voice EXCEPT !.sounding = TRUE]
  <2>2. turn' = With(i, turn[i].stage, turn[i].heard, v, turn[i].terminal)
    <3>1. turn = [k \in Slot |-> turn[k]]
      BY DEF Inv, TurnShape
    <3>2. turn' = [turn EXCEPT ![i].voice = v]
      BY <2>1, <3>1
    <3> HIDE DEF v
    <3>3. QED BY <3>2, TurnUpdates
  <2> HIDE DEF v
  <2>3. TurnShape' /\ turn'[i].stage = turn[i].stage /\ \A j \in Slot \ {i} : turn'[j] = turn[j]
    BY <2>2, TurnChanges
  <2>4. \A j \in Slot : turn'[j].stage = turn[j].stage
    BY <2>3
  <2>5. TurnHoldsLock' /\ AtMostOneTurn'
    BY <2>1, <2>4 DEF Inv, TurnHoldsLock, AtMostOneTurn
  <2>6. GreeterShape' /\ DeafInSetup' /\ NoTurnInGreeting'
    BY <1>1, <2>1 DEF Inv, GreeterShape, DeafInSetup, NoTurnInGreeting
  <2>7. QED BY <2>3, <2>5, <2>6 DEF Inv
<1>4. QED BY <1>2, <1>3

LEMMA LineStep == ASSUME Inv, LineDrops \/ StreamCloses PROVE Inv'
<1>1. UNCHANGED <<turn, turnActive, pending, spokeOver>>
  BY DEF LineDrops, StreamCloses, quiet, hearing
<1>2. TurnShape' /\ TurnHoldsLock' /\ AtMostOneTurn'
  BY <1>1, TurnsStand
<1>3. CASE LineDrops
  <2>1. UNCHANGED <<greeter, listening, speaking, gap>>
    BY <1>3 DEF LineDrops, quiet
  <2>2. QED BY <1>1, <1>2, <2>1 DEF Inv, GreeterShape, NoTurnInGreeting, DeafInSetup
<1>4. CASE StreamCloses
  BY <1>1, <1>2, <1>4 DEF Inv, GreeterShape, NoTurnInGreeting, DeafInSetup, StreamCloses
<1>5. QED BY <1>3, <1>4

LEMMA InvStep == ASSUME Inv, [Next]_vars PROVE Inv'
<1>1. CASE Next
  BY <1>1, GreetingStep, RecognitionStep, HandleTranscriptStep, TurnStepStep, LineStep DEF Next
<1>2. CASE UNCHANGED vars
  BY <1>2 DEF Inv, GreeterShape, TurnShape, TurnHoldsLock, AtMostOneTurn, NoTurnInGreeting, DeafInSetup, vars
<1>3. QED BY <1>1, <1>2

LEMMA InvAlways == Spec => []Inv
<1>1. Init => Inv
  BY InvInit
<1>2. Inv /\ [Next]_vars => Inv'
  BY InvStep
<1>3. QED BY <1>1, <1>2, PTL DEF Spec

(***************************************************************************)
(* However many transcripts are scheduled while the agent is not busy, at  *)
(* most one turn is under way (_turn_active in _handle_transcript).        *)
(***************************************************************************)
THEOREM OneTurn == Spec => []OneTurnAtATime
<1>1. Inv => OneTurnAtATime
  BY DEF Inv, AtMostOneTurn, OneTurnAtATime, Active
<1>2. QED BY <1>1, InvAlways, PTL

(***************************************************************************)
(* The greeting and a turn do not talk at the same time, unless the callee *)
(* was taken to talk before the greeting or between two of its utterances, *)
(* or cut it short: the echo guard covers the greeting, which is no turn   *)
(* (_speaking and _turn_active in _on_recognized).                         *)
(***************************************************************************)
THEOREM NeverTwoVoices == Spec => []OneVoice
<1>1. Inv => OneVoice
  BY DEF Inv, TurnHoldsLock, NoTurnInGreeting, OneVoice
<1>2. QED BY <1>1, InvAlways, PTL

(***************************************************************************)
(* What the engine and the chains return.                                  *)
(***************************************************************************)
LEMMA ChainType ==
  ASSUME NEW t \in DOMAIN DefaultDef
  PROVE  /\ Chain[t].length \in 1..Cardinality(DOMAIN DefaultDef)
         /\ Chain[t].end \in DOMAIN DefaultDef
<1> DEFINE D == DOMAIN DefaultDef
<1>1. Chained(t) \subseteq D /\ t \in Chained(t)
  BY DEF Chained
<1>2. IsFiniteSet(D)
  BY StreamAssumption
<1>3. /\ IsFiniteSet(Chained(t)) /\ Cardinality(Chained(t)) <= Cardinality(D)
      /\ Cardinality(Chained(t)) \in Nat /\ Cardinality(D) \in Nat
  <2> HIDE DEF D
  <2>1. IsFiniteSet(Chained(t)) /\ Cardinality(Chained(t)) <= Cardinality(D)
    BY <1>1, <1>2, FS_Subset
  <2>2. QED BY <1>2, <2>1, FS_CardinalityType
<1>4. Cardinality(Chained(t)) # 0
  BY <1>1, <1>3, FS_EmptySet
<1>5. \E p \in Chained(t) : Following(p) = p
  BY StreamAssumption
<1>6. Chain[t] = [length |-> Cardinality(Chained(t)),
                  end |-> CHOOSE p \in Chained(t) : Following(p) = p]
  BY DEF Chain
<1>7. QED BY <1>1, <1>3, <1>4, <1>5, <1>6

MaxLeft == Cardinality(DOMAIN DefaultDef) + 1

LEMMA OpeningType ==
  ASSUME NEW t \in DOMAIN Def
  PROVE  /\ MaxLeft \in Nat
         /\ Opening(t).length \in 0..MaxLeft
         /\ Opening(t).end \in StepId
<1>1. Cardinality(DOMAIN DefaultDef) \in Nat
  BY StreamAssumption, FS_CardinalityType
<1>2. Def[t].next \in StepId \cup {None} /\ t \in StepId
  BY EngineAssumption DEF Step
<1>3. CASE Def[t].type # "speak" \/ Def[t].next = None
  BY <1>1, <1>2, <1>3 DEF Opening, MaxLeft
<1>4. CASE ~(Def[t].type # "speak" \/ Def[t].next = None) /\ Def[t].next \notin DOMAIN DefaultDef
  BY <1>1, <1>2, <1>4 DEF Opening, MaxLeft
<1>5. CASE ~(Def[t].type # "speak" \/ Def[t].next = None) /\ Def[t].next \in DOMAIN DefaultDef
  <2>1. /\ Chain[Def[t].next].length \in 1..Cardinality(DOMAIN DefaultDef)
        /\ Chain[Def[t].next].end \in StepId
    BY <1>5, ChainType, EngineAssumption
  <2>2. Opening(t) = [length |-> 1 + Chain[Def[t].next].length, end |-> Chain[Def[t].next].end]
    BY <1>5 DEF Opening
  <2>3. QED BY <1>1, <2>1, <2>2 DEF MaxLeft
<1>6. QED BY <1>3, <1>4, <1>5

SessionType == [current_step : StepId, outcome : CallOutcome \cup {None}]

Advanced(s, t) ==
  [s EXCEPT !.current_step = IF t.next = None THEN s.current_step ELSE t.next,
            !.outcome = IF t.outcome = None THEN s.outcome ELSE ParseOutcome(t.outcome)]

\* The four ways in which a turn is answered.
LEMMA RespondCases ==
  ASSUME NEW s \in SessionType, NEW response \in AgentResponse
  PROVE  LET t == EvaluateTransition(Def[s.current_step], response)
             r == RespondTo(s, response)
         IN \/ /\ EvaluationRaises(s.current_step, response)
               /\ r = [session |-> s, says |-> Silent, terminal |-> FALSE]
            \/ /\ ~EvaluationRaises(s.current_step, response)
               /\ t.next # None /\ t.next \notin DOMAIN DefaultDef
               /\ r = [session |-> Advanced(s, t), says |-> Silent, terminal |-> FALSE]
            \/ /\ ~EvaluationRaises(s.current_step, response)
               /\ t.next = None \/ t.outcome # None
               /\ r = [session |-> Advanced(s, t), says |-> Speak(1), terminal |-> TRUE]
            \/ /\ ~EvaluationRaises(s.current_step, response)
               /\ t.next \in DOMAIN DefaultDef /\ t.outcome = None
               /\ r = [session |-> [Advanced(s, t) EXCEPT !.current_step = Chain[t.next].end],
                       says |-> Speak(Chain[t.next].length),
                       terminal |-> DefaultDef[Chain[t.next].end].type = "speak"]
<1> DEFINE t == EvaluateTransition(Def[s.current_step], response)
<1>1. AdvanceSession(s, response) = Advanced(s, t)
  BY DEF AdvanceSession, Advanced
<1> HIDE DEF t
<1>2. RespondTo(s, response) =
        IF EvaluationRaises(s.current_step, response)
        THEN [session |-> s, says |-> Silent, terminal |-> FALSE]
        ELSE IF t.next # None /\ t.next \notin DOMAIN DefaultDef
        THEN [session |-> Advanced(s, t), says |-> Silent, terminal |-> FALSE]
        ELSE IF t.next = None \/ t.outcome # None
        THEN [session |-> Advanced(s, t), says |-> Speak(1), terminal |-> TRUE]
        ELSE [session |-> [Advanced(s, t) EXCEPT !.current_step = Chain[t.next].end],
              says |-> Speak(Chain[t.next].length),
              terminal |-> DefaultDef[Chain[t.next].end].type = "speak"]
  BY <1>1, Zenon DEF RespondTo, t
<1>3. QED BY <1>2 DEF t

LEMMA AdvancedType ==
  ASSUME NEW s \in SessionType, NEW response \in AgentResponse,
         ~EvaluationRaises(s.current_step, response)
  PROVE  LET t == EvaluateTransition(Def[s.current_step], response) IN
         /\ Advanced(s, t) \in SessionType
         /\ Advanced(s, t).current_step = IF t.next = None THEN s.current_step ELSE t.next
         /\ t.outcome = None => Advanced(s, t).outcome = s.outcome
<1> DEFINE t == EvaluateTransition(Def[s.current_step], response)
           step == IF t.next = None THEN s.current_step ELSE t.next
           outcome == IF t.outcome = None THEN s.outcome ELSE ParseOutcome(t.outcome)
<1>1. s.current_step \in StepId
  BY DEF SessionType
<1>2. t.next \in StepId \cup {None} /\ t.outcome \in StepOutcome \cup {None}
  BY <1>1, TransitionType
<1>3. step \in StepId
  BY <1>1, <1>2
<1>4. outcome \in CallOutcome \cup {None}
  BY DEF SessionType, ParseOutcome, CallOutcome
<1>5. Advanced(s, t) = [s EXCEPT !.current_step = step, !.outcome = outcome]
  BY DEF Advanced
<1>6. t.outcome = None => outcome = s.outcome
  OBVIOUS
<1>7. step = IF t.next = None THEN s.current_step ELSE t.next
  OBVIOUS
<1> HIDE DEF step, outcome, t
<1>8. /\ Advanced(s, t) \in SessionType
      /\ Advanced(s, t).current_step = step /\ Advanced(s, t).outcome = outcome
  BY <1>3, <1>4, <1>5 DEF SessionType
<1>9. QED BY <1>6, <1>7, <1>8 DEF t

LEMMA RespondType ==
  ASSUME NEW s \in SessionType, NEW response \in AgentResponse
  PROVE  LET r == RespondTo(s, response) IN
         /\ r.session \in SessionType
         /\ r.says = Silent \/ \E n \in 1..MaxLeft : r.says = Speak(n)
         /\ r.terminal \in BOOLEAN
<1> DEFINE t == EvaluateTransition(Def[s.current_step], response)
           r == RespondTo(s, response)
           raises == EvaluationRaises(s.current_step, response)
<1>1. Cardinality(DOMAIN DefaultDef) \in Nat /\ 1 \in 1..MaxLeft
  BY StreamAssumption, FS_CardinalityType DEF MaxLeft
<1>2. ~raises => Advanced(s, t) \in SessionType
  BY AdvancedType
<1> HIDE DEF t, raises
<1>3. CASE r = [session |-> s, says |-> Silent, terminal |-> FALSE]
  BY <1>3
<1>4. CASE ~raises /\ r = [session |-> Advanced(s, t), says |-> Silent, terminal |-> FALSE]
  BY <1>2, <1>4
<1>5. CASE ~raises /\ r = [session |-> Advanced(s, t), says |-> Speak(1), terminal |-> TRUE]
  BY <1>1, <1>2, <1>5
<1>6. CASE /\ ~raises /\ t.next \in DOMAIN DefaultDef
           /\ r = [session |-> [Advanced(s, t) EXCEPT !.current_step = Chain[t.next].end],
                   says |-> Speak(Chain[t.next].length),
                   terminal |-> DefaultDef[Chain[t.next].end].type = "speak"]
  <2>1. /\ Chain[t.next].length \in 1..Cardinality(DOMAIN DefaultDef)
        /\ Chain[t.next].end \in StepId
    BY <1>6, ChainType, EngineAssumption
  <2>2. Chain[t.next].length \in 1..MaxLeft
    BY <1>1, <2>1 DEF MaxLeft
  <2>3. [Advanced(s, t) EXCEPT !.current_step = Chain[t.next].end] \in SessionType
    <3> DEFINE a == Advanced(s, t)
    <3>1. a \in SessionType
      BY <1>2, <1>6
    <3> HIDE DEF a
    <3>2. [a EXCEPT !.current_step = Chain[t.next].end] \in SessionType
      BY <2>1, <3>1 DEF SessionType
    <3>3. QED BY <3>2 DEF a
  <2>4. QED BY <1>6, <2>2, <2>3
<1>7. QED BY <1>3, <1>4, <1>5, <1>6, RespondCases DEF t, raises

(***************************************************************************)
(* The steps of a turn, as the record they leave it.                       *)
(***************************************************************************)
Ended(i) == With(i, "idle", NoTranscript, Silent, FALSE)

LEMMA AnswerTurn ==
  ASSUME Inv, NEW i \in Slot, NEW response \in Response, AgentAnswers(i, response)
  PROVE  LET r == RespondTo(ses, response) IN
         /\ turn[i].stage = "reasoning" /\ pending = << >> /\ ses' = r.session
         /\ UNCHANGED <<config, listening, cutting, spokeOver, gap, line, greeter, hearing>>
         /\ \/ /\ r.says = Silent /\ turn' = Ended(i) /\ turnActive' = FALSE /\ speaking' = speaking
            \/ /\ r.says # Silent
               /\ turn' = With(i, "speaking", turn[i].heard, r.says, r.terminal)
               /\ speaking' = TRUE /\ turnActive' = turnActive
<1> DEFINE r == RespondTo(ses, response)
<1>1. /\ turn[i].stage = "reasoning" /\ pending = << >> /\ ses' = r.session
      /\ UNCHANGED <<config, listening, cutting, spokeOver, gap, line, greeter, hearing>>
      /\ IF r.says = Silent THEN TurnOver(i) /\ UNCHANGED speaking
         ELSE /\ turn' = [turn EXCEPT ![i].stage = "speaking", ![i].voice = r.says,
                                      ![i].terminal = r.terminal]
              /\ speaking' = TRUE /\ UNCHANGED turnActive
  BY Zenon DEF AgentAnswers, quiet
<1> HIDE DEF r
<1>2. CASE r.says = Silent
  BY <1>1, <1>2 DEF TurnOver, Ended, With, IdleTurn, r
<1>3. CASE r.says # Silent
  <2>1. turn' = [turn EXCEPT ![i].stage = "speaking", ![i].voice = r.says, ![i].terminal = r.terminal]
    BY <1>1, <1>3
  <2>2. turn' = With(i, "speaking", turn[i].heard, r.says, r.terminal)
    BY <2>1, TurnSpeaks
  <2>3. QED BY <1>1, <1>3, <2>2 DEF r
<1>4. QED BY <1>2, <1>3

LEMMA UtteranceTurn ==
  ASSUME Inv, NEW i \in Slot, TurnUtteranceEnds(i)
  PROVE  LET v == NextUtterance(turn[i].voice) IN
         /\ turn[i].stage = "speaking" /\ gap' = (v.left > 0) /\ speaking' = FALSE
         /\ UNCHANGED <<config, listening, cutting, spokeOver, line, ses, greeter, hearing>>
         /\ \/ v.left > 0 /\ turn' = With(i, "speaking", turn[i].heard, v, turn[i].terminal)
            \/ /\ ~(v.left > 0) /\ turn[i].terminal
               /\ turn' = With(i, "draining", turn[i].heard, v, turn[i].terminal)
            \/ ~(v.left > 0) /\ ~turn[i].terminal /\ turn' = Ended(i)
<1> DEFINE v == NextUtterance(turn[i].voice)
           next == [turn EXCEPT ![i].voice = v]
<1>1. /\ turn[i].stage = "speaking" /\ gap' = (v.left > 0) /\ speaking' = FALSE
      /\ UNCHANGED <<config, listening, cutting, spokeOver, line, ses, greeter, hearing>>
      /\ IF v.left > 0 THEN turn' = next /\ UNCHANGED turnActive
         ELSE IF turn[i].terminal
         THEN turn' = [next EXCEPT ![i].stage = "draining"] /\ UNCHANGED turnActive
         ELSE TurnOver(i)
  BY Zenon DEF TurnUtteranceEnds, quiet
<1> HIDE DEF v
<1>2. next = With(i, turn[i].stage, turn[i].heard, v, turn[i].terminal)
      /\ [next EXCEPT ![i].stage = "draining"] = With(i, "draining", turn[i].heard, v, turn[i].terminal)
  BY TurnUpdates
<1> HIDE DEF next
<1>3. CASE v.left > 0
  BY <1>1, <1>2, <1>3 DEF v
<1>4. CASE ~(v.left > 0) /\ turn[i].terminal
  BY <1>1, <1>2, <1>4 DEF v
<1>5. CASE ~(v.left > 0) /\ ~turn[i].terminal
  BY <1>1, <1>5 DEF v, TurnOver, Ended, With, IdleTurn
<1>6. QED BY <1>3, <1>4, <1>5

LEMMA SoundTurn ==
  ASSUME Inv, NEW i \in Slot, TurnSounds(i)
  PROVE  /\ turn' = With(i, turn[i].stage, turn[i].heard,
                         [turn[i].voice EXCEPT !.sounding = TRUE], turn[i].terminal)
         /\ speaking /\ turn[i].voice.left > 0 /\ ~turn[i].voice.sounding
         /\ latency' = NoTranscript
         /\ UNCHANGED <<config, listening, cutting, spokeOver, gap, line, ses, speaking, turnActive,
                        greeter, pending, overwritten>>
<1> DEFINE v == [turn[i].voice EXCEPT !.sounding = TRUE]
<1>1. /\ speaking /\ turn[i].voice.left > 0 /\ ~turn[i].voice.sounding
      /\ latency' = NoTranscript
      /\ turn' = [turn EXCEPT ![i].voice.sounding = TRUE]
      /\ UNCHANGED <<config, listening, cutting, spokeOver, gap, line, ses, speaking, turnActive,
                     greeter, pending, overwritten>>
  BY DEF TurnSounds, Sounds, quiet
<1>2. turn = [k \in Slot |-> turn[k]]
  BY DEF Inv, TurnShape
<1>3. turn' = [turn EXCEPT ![i].voice = v]
  BY <1>1, <1>2
<1> HIDE DEF v
<1>4. turn' = With(i, turn[i].stage, turn[i].heard, v, turn[i].terminal)
  BY <1>3, TurnUpdates
<1>5. QED BY <1>1, <1>4 DEF v

LEMMA AcceptTurn ==
  ASSUME Inv, HandleTranscript
  PROVE  /\ pending # << >> /\ pending' = Tail(pending)
         /\ UNCHANGED <<config, listening, cutting, spokeOver, gap, line, ses, speaking, greeter, latency,
                       overwritten>>
         /\ \/ turnActive /\ UNCHANGED <<turn, turnActive>>
            \/ /\ ~turnActive /\ turnActive'
               /\ \E i \in Slot : /\ turn[i].stage = "idle"
                                  /\ turn' = With(i, "reasoning", Head(pending), turn[i].voice,
                                                  turn[i].terminal)
<1>1. /\ pending # << >> /\ pending' = Tail(pending)
      /\ UNCHANGED <<config, listening, cutting, spokeOver, gap, line, ses, speaking, greeter, latency,
                       overwritten>>
  BY DEF HandleTranscript, quiet
<1>2. CASE turnActive
  BY <1>1, <1>2 DEF HandleTranscript, MayTakeTurn
<1>3. CASE ~turnActive
  <2>1. PICK i \in Slot :
          /\ turn[i].stage = "idle"
          /\ turn' = [turn EXCEPT ![i].stage = "reasoning", ![i].heard = Head(pending)]
    BY <1>3, Zenon DEF HandleTranscript, MayTakeTurn
  <2>2. turnActive'
    BY <1>3 DEF HandleTranscript, MayTakeTurn
  <2>3. turn' = With(i, "reasoning", Head(pending), turn[i].voice, turn[i].terminal)
    BY <2>1, TurnUpdates
  <2>4. QED BY <1>1, <1>3, <2>1, <2>2, <2>3
<1>4. QED BY <1>2, <1>3

\* What With leaves.
LEMMA WithIs ==
  ASSUME Inv, NEW i \in Slot, NEW stage, NEW heard, NEW voice, NEW terminal,
         turn' = With(i, stage, heard, voice, terminal)
  PROVE  /\ turn' = [j \in Slot |-> turn'[j]]
         /\ turn'[i] = [stage |-> stage, heard |-> heard, voice |-> voice, terminal |-> terminal]
         /\ \A j \in Slot \ {i} : turn'[j] = turn[j]
<1>1. turn = [k \in Slot |-> turn[k]]
  BY DEF Inv, TurnShape
<1>2. QED BY <1>1 DEF With

LEMMA WithFields ==
  ASSUME Inv, NEW i \in Slot, NEW stage, NEW heard, NEW voice, NEW terminal,
         turn' = With(i, stage, heard, voice, terminal)
  PROVE  /\ turn'[i].stage = stage /\ turn'[i].heard = heard
         /\ turn'[i].voice = voice /\ turn'[i].terminal = terminal
         /\ \A j \in Slot \ {i} : turn'[j] = turn[j]
<1>1. /\ turn'[i] = [stage |-> stage, heard |-> heard, voice |-> voice, terminal |-> terminal]
      /\ \A j \in Slot \ {i} : turn'[j] = turn[j]
  BY WithIs
<1>2. QED BY <1>1

(***************************************************************************)
(* Types.  The utterances that a speaker has left are what tells a speaker *)
(* from the other tasks: the last one ends where none is left.             *)
(***************************************************************************)
VoicesLeft ==
  /\ greeter.stage = "speaking" <=> greeter.voice.left > 0
  /\ \A i \in Slot : turn[i].stage = "speaking" <=> turn[i].voice.left > 0

Typed == TypeOK /\ VoicesLeft

TurnRecord ==
  [stage : {"idle", "reasoning", "speaking", "draining"}, heard : Transcript \cup {NoTranscript},
   voice : Voice, terminal : BOOLEAN]

LEMMA Voices ==
  /\ MaxLeft \in Nat
  /\ Voice = [left : 0..MaxLeft, sounding : BOOLEAN]
  /\ Silent \in Voice /\ Silent.left = 0
  /\ \A n \in 0..MaxLeft : Speak(n) \in Voice /\ Speak(n).left = n
  /\ \A v \in Voice : [v EXCEPT !.sounding = TRUE] \in Voice
                      /\ [v EXCEPT !.sounding = TRUE].left = v.left
  /\ \A v \in Voice : v.left > 0 => /\ NextUtterance(v) \in Voice
                                    /\ NextUtterance(v).left \in Nat
<1>1. MaxLeft \in Nat
  BY StreamAssumption, FS_CardinalityType DEF MaxLeft
<1>2. Voice = [left : 0..MaxLeft, sounding : BOOLEAN]
  BY DEF Voice, MaxLeft
<1> HIDE DEF MaxLeft
<1>3. Silent \in Voice /\ Silent.left = 0
  BY <1>1, <1>2 DEF Silent
<1>4. \A n \in 0..MaxLeft : Speak(n) \in Voice /\ Speak(n).left = n
  BY <1>1, <1>2 DEF Speak
<1>5. \A v \in Voice : [v EXCEPT !.sounding = TRUE] \in Voice
                       /\ [v EXCEPT !.sounding = TRUE].left = v.left
  BY <1>1, <1>2
<1>6. ASSUME NEW v \in Voice, v.left > 0 PROVE NextUtterance(v) \in Voice /\ NextUtterance(v).left \in Nat
  <2>1. v.left \in 0..MaxLeft
    BY <1>2
  <2>2. v.left - 1 \in 0..MaxLeft
    BY <1>1, <1>6, <2>1
  <2>3. QED BY <1>1, <1>2, <2>2 DEF NextUtterance
<1>7. QED BY <1>1, <1>2, <1>3, <1>4, <1>5, <1>6

LEMMA WithType ==
  ASSUME Inv, Typed, NEW i \in Slot, NEW stage \in {"idle", "reasoning", "speaking", "draining"},
         NEW heard \in Transcript \cup {NoTranscript}, NEW voice \in Voice, NEW terminal \in BOOLEAN,
         stage = "speaking" <=> voice.left > 0,
         turn' = With(i, stage, heard, voice, terminal)
  PROVE  /\ turn' \in [Slot -> TurnRecord]
         /\ \A j \in Slot : turn'[j].stage = "speaking" <=> turn'[j].voice.left > 0
<1>1. /\ turn' = [j \in Slot |-> turn'[j]]
      /\ turn'[i] = [stage |-> stage, heard |-> heard, voice |-> voice, terminal |-> terminal]
      /\ \A j \in Slot \ {i} : turn'[j] = turn[j]
  BY WithIs
<1>2. turn'[i] \in TurnRecord
  BY <1>1 DEF TurnRecord
<1>3. \A j \in Slot \ {i} : turn'[j] \in TurnRecord
  BY <1>1 DEF Typed, TypeOK, TurnRecord
<1>4. turn'[i].stage = stage /\ turn'[i].voice = voice
  BY <1>1
<1>5. \A j \in Slot : turn'[j].stage = "speaking" <=> turn'[j].voice.left > 0
  BY <1>1, <1>4 DEF Typed, VoicesLeft
<1>6. QED BY <1>1, <1>2, <1>3, <1>5

LEMMA PendingType ==
  \A s : s \in BoundedSeq(Transcript, MaxPending) <=> s \in Seq(Transcript) /\ Len(s) <= MaxPending
<1> SUFFICES ASSUME NEW s
             PROVE  s \in BoundedSeq(Transcript, MaxPending) <=> s \in Seq(Transcript) /\ Len(s) <= MaxPending
  OBVIOUS
<1>1. MaxPending \in Nat
  BY StreamAssumption
<1>2. s \in BoundedSeq(Transcript, MaxPending) <=> \E m \in 0..MaxPending : s \in [1..m -> Transcript]
  BY DEF BoundedSeq, SeqOf
<1>3. ASSUME NEW m \in 0..MaxPending, s \in [1..m -> Transcript]
      PROVE  s \in Seq(Transcript) /\ Len(s) <= MaxPending
  BY <1>1, <1>3
<1>4. ASSUME s \in Seq(Transcript), Len(s) <= MaxPending
      PROVE  \E m \in 0..MaxPending : s \in [1..m -> Transcript]
  <2>1. Len(s) \in 0..MaxPending /\ s \in [1..Len(s) -> Transcript]
    BY <1>1, <1>4
  <2>2. QED BY <2>1
<1>5. QED BY <1>2, <1>3, <1>4

GreeterRecord == [stage : {"setup", "refused", "delay", "speaking", "done"}, voice : Voice]

\* The pieces of Typed, which the actions change one by one.
Flags ==
  /\ bargeIn \in BOOLEAN /\ shared \in BOOLEAN /\ line \in {"up", "ending", "down"}
  /\ listening \in BOOLEAN /\ speaking \in BOOLEAN /\ gap \in BOOLEAN /\ turnActive \in BOOLEAN
  /\ cutting \in BOOLEAN /\ spokeOver \in BOOLEAN /\ overwritten \in BOOLEAN

Talkers ==
  /\ greeter \in GreeterRecord
  /\ greeter.stage = "speaking" <=> greeter.voice.left > 0

Turns ==
  /\ turn \in [Slot -> TurnRecord]
  /\ \A i \in Slot : turn[i].stage = "speaking" <=> turn[i].voice.left > 0

Heard ==
  /\ pending \in Seq(Transcript) /\ Len(pending) <= MaxPending
  /\ latency \in Transcript \cup {NoTranscript}

LEMMA TypedIs == Typed <=> Flags /\ ses \in SessionType /\ Talkers /\ Turns /\ Heard
BY PendingType, Zenon
DEF Typed, TypeOK, VoicesLeft, Flags, SessionType, Talkers, GreeterRecord, Turns, TurnRecord, Heard

LEMMA TypedIsNext == Typed' <=> Flags' /\ ses' \in SessionType /\ Talkers' /\ Turns' /\ Heard'
BY PendingType, Zenon
DEF Typed, TypeOK, VoicesLeft, Flags, SessionType, Talkers, GreeterRecord, Turns, TurnRecord, Heard

LEMMA TypedInit == Init => Typed
<1> SUFFICES ASSUME Init PROVE Typed
  OBVIOUS
<1>1. Flags
  BY DEF Init, Flags
<1>2. ses \in SessionType
  BY EngineAssumption DEF Init, SessionType
<1>3. Talkers
  BY Voices DEF Init, Talkers, GreeterRecord
<1>4. Turns
  <2>1. IdleTurn \in TurnRecord /\ IdleTurn.stage = "idle" /\ IdleTurn.voice.left = 0
    BY Voices DEF IdleTurn, TurnRecord
  <2> HIDE DEF IdleTurn
  <2>2. QED BY <2>1 DEF Init, Turns
<1>5. Heard
  BY StreamAssumption DEF Init, Heard
<1>6. QED BY <1>1, <1>2, <1>3, <1>4, <1>5, TypedIs

LEMMA TypedStep == Inv /\ Typed /\ [Next]_vars => Typed'
<1> SUFFICES ASSUME Inv, Typed, [Next]_vars PROVE Typed'
  OBVIOUS
<1>1. Flags /\ ses \in SessionType /\ Talkers /\ Turns /\ Heard
  BY TypedIs
<1>2. ASSUME Greeting \/ GreetingSounds PROVE Typed'
  <2>1. UNCHANGED <<config, listening, cutting, spokeOver, line, turnActive, turn, pending, overwritten>>
    BY <1>2 DEF Greeting, SynthReady, GreetingStarts, GreetingUtteranceEnds, GreetingSounds, quiet, hearing
  <2>2. Turns'
    BY <1>1, <2>1 DEF Turns
  <2>3. CASE SynthReady
    <3>1. UNCHANGED <<ses, speaking, gap, latency>>
          /\ \E to \in {"delay", "refused"} : greeter' = [greeter EXCEPT !.stage = to]
          /\ greeter.stage = "setup"
      BY <2>3 DEF SynthReady, hearing
    <3>2. Talkers'
      BY <1>1, <3>1 DEF Talkers, GreeterRecord
    <3>3. QED BY <1>1, <2>1, <2>2, <3>1, <3>2, TypedIsNext DEF Flags, Heard, config
  <2>4. CASE GreetingStarts
    <3> DEFINE opening == Opening(ses.current_step)
               known == ses.current_step \in DOMAIN Def
               opens == known /\ opening.length > 0
    <3>1. /\ ses' = IF known THEN [ses EXCEPT !.current_step = opening.end] ELSE ses
          /\ greeter' = IF opens THEN [stage |-> "speaking", voice |-> Speak(opening.length)]
                        ELSE [stage |-> "done", voice |-> Silent]
          /\ speaking' = (speaking \/ opens) /\ UNCHANGED <<gap, latency>>
      BY <2>4 DEF GreetingStarts, hearing
    <3>2. known => opening.length \in 0..MaxLeft /\ opening.end \in StepId
      BY OpeningType
    <3>3. opens \in BOOLEAN
      OBVIOUS
    <3>4. opens => opening.length \in 0..MaxLeft /\ opening.length > 0
      BY <3>2
    <3> HIDE DEF opening, known, opens
    <3>5. ses' \in SessionType
      BY <1>1, <3>1, <3>2 DEF SessionType
    <3>6. Talkers'
      <4>1. CASE opens
        <5>1. Speak(opening.length) \in Voice /\ Speak(opening.length).left > 0
          BY <3>4, <4>1, Voices
        <5>2. QED BY <3>1, <4>1, <5>1 DEF Talkers, GreeterRecord
      <4>2. CASE ~opens
        BY <3>1, <4>2, Voices DEF Talkers, GreeterRecord
      <4>3. QED BY <4>1, <4>2
    <3>7. speaking' \in BOOLEAN
      BY <1>1, <3>1, <3>3 DEF Flags
    <3>8. QED BY <1>1, <2>1, <2>2, <3>1, <3>5, <3>6, <3>7, TypedIsNext DEF Flags, Heard, config
  <2>5. CASE GreetingUtteranceEnds
    <3> DEFINE v == NextUtterance(greeter.voice)
    <3>1. /\ greeter' = [stage |-> IF v.left > 0 THEN "speaking" ELSE "done", voice |-> v]
          /\ gap' = (v.left > 0) /\ speaking' = FALSE /\ greeter.stage = "speaking"
          /\ UNCHANGED <<ses, latency>>
      BY <2>5 DEF GreetingUtteranceEnds, hearing
    <3>2. v \in Voice /\ v.left \in Nat
      BY <1>1, <3>1, Voices DEF Talkers, GreeterRecord
    <3> HIDE DEF v
    <3>3. Talkers'
      BY <3>1, <3>2 DEF Talkers, GreeterRecord
    <3>4. speaking' \in BOOLEAN /\ gap' \in BOOLEAN
      <4>1. gap' \in BOOLEAN
        BY <3>1
      <4>2. speaking' = FALSE
        BY <3>1
      <4>3. QED BY <4>1, <4>2
    <3>5. QED BY <1>1, <2>1, <2>2, <3>1, <3>3, <3>4, TypedIsNext DEF Flags, Heard, config
  <2>6. CASE GreetingSounds
    <3>1. /\ greeter' = [greeter EXCEPT !.voice.sounding = TRUE] /\ latency' = NoTranscript
          /\ UNCHANGED <<ses, speaking, gap>>
      BY <2>6 DEF GreetingSounds
    <3> DEFINE v == [greeter.voice EXCEPT !.sounding = TRUE]
    <3>2. v \in Voice /\ v.left = greeter.voice.left
      BY <1>1, Voices DEF Talkers, GreeterRecord
    <3>3. greeter' = [greeter EXCEPT !.voice = v]
      BY <1>1, <3>1 DEF Talkers, GreeterRecord
    <3> HIDE DEF v
    <3>4. Talkers'
      BY <1>1, <3>2, <3>3 DEF Talkers, GreeterRecord
    <3>5. QED BY <1>1, <2>1, <2>2, <3>1, <3>4, TypedIsNext DEF Flags, Heard, config
  <2>7. QED BY <1>2, <2>3, <2>4, <2>5, <2>6 DEF Greeting
<1>3. ASSUME RecognizerReady \/ Recognizing \/ BargeIn \/ NextSpeak PROVE Typed'
  <2>1. UNCHANGED <<config, line, ses, turnActive, greeter, turn, hearing>>
    BY <1>3 DEF RecognizerReady, Recognizing, BargeIn, NextSpeak, quiet
  <2>2. Flags'
    BY <1>1, <1>3, <2>1 DEF Flags, RecognizerReady, Recognizing, BargeIn, NextSpeak, quiet, config, hearing
  <2>3. QED BY <1>1, <2>1, <2>2, TypedIsNext DEF Talkers, Turns, Heard, hearing
<1>4. ASSUME Recognized PROVE Typed'
  <2>1. /\ UNCHANGED <<config, listening, cutting, gap, line, ses, speaking, turnActive, greeter, turn>>
        /\ spokeOver' = (spokeOver \/ greeter.stage = "delay" \/ gap) /\ Len(pending) < MaxPending
        /\ overwritten' = (pending # << >>)
    BY <1>4 DEF Recognized
  <2>2. PICK t \in Transcript : latency' = t /\ pending' = Append(pending, t)
    BY <1>4 DEF Recognized
  <2>3. pending' \in Seq(Transcript) /\ Len(pending') = Len(pending) + 1
    BY <1>1, <2>2, AppendProperties DEF Heard
  <2>4. Heard'
    <3>1. Len(pending) \in Nat /\ MaxPending \in Nat
      BY <1>1, StreamAssumption DEF Heard
    <3>2. QED BY <2>1, <2>2, <2>3, <3>1 DEF Heard
  <2>5. Flags'
    BY <1>1, <2>1 DEF Flags, config
  <2>6. QED BY <1>1, <2>1, <2>4, <2>5, TypedIsNext DEF Talkers, Turns
<1>5. ASSUME HandleTranscript PROVE Typed'
  <2>1. /\ pending # << >> /\ pending' = Tail(pending)
        /\ UNCHANGED <<config, listening, cutting, spokeOver, gap, line, ses, speaking, greeter, latency,
                       overwritten>>
        /\ \/ UNCHANGED <<turn, turnActive>>
           \/ /\ turnActive'
              /\ \E i \in Slot : /\ turn[i].stage = "idle"
                                 /\ turn' = With(i, "reasoning", Head(pending), turn[i].voice,
                                                 turn[i].terminal)
    BY <1>5, AcceptTurn
  <2>2. pending' \in Seq(Transcript) /\ Len(pending') = Len(pending) - 1 /\ Head(pending) \in Transcript
    BY <1>1, <2>1, HeadTailProperties DEF Heard
  <2>3. Heard'
    <3>1. Len(pending) \in Nat /\ MaxPending \in Nat
      BY <1>1, StreamAssumption DEF Heard
    <3>2. QED BY <1>1, <2>1, <2>2, <3>1 DEF Heard
  <2>4. Turns'
    <3>1. CASE UNCHANGED turn
      BY <1>1, <3>1 DEF Turns
    <3>2. ASSUME NEW i \in Slot, turn[i].stage = "idle",
                 turn' = With(i, "reasoning", Head(pending), turn[i].voice, turn[i].terminal)
          PROVE  Turns'
      <4>1. turn[i].voice \in Voice /\ turn[i].terminal \in BOOLEAN /\ ~(turn[i].voice.left > 0)
        BY <1>1, <3>2 DEF Turns, TurnRecord
      <4>2. QED BY <2>2, <3>2, <4>1, WithType DEF Turns
    <3>3. QED BY <2>1, <3>1, <3>2
  <2>5. turnActive' \in BOOLEAN
    BY <1>1, <1>5 DEF Flags, HandleTranscript
  <2>6. Flags' /\ Talkers'
    BY <1>1, <2>1, <2>5 DEF Flags, Talkers, config
  <2>7. QED BY <1>1, <2>1, <2>3, <2>4, <2>6, TypedIsNext
<1>6. ASSUME NEW i \in Slot, turn' = Ended(i) PROVE Turns'
  <2>1. Silent \in Voice /\ ~(Silent.left > 0) /\ turn' = With(i, "idle", NoTranscript, Silent, FALSE)
    BY <1>6, Voices DEF Ended
  <2>2. QED BY <2>1, WithType DEF Turns
<1>7. ASSUME NEW i \in Slot, TurnStep(i) \/ TurnSounds(i) PROVE Typed'
  <2>1. turn[i].heard \in Transcript \cup {NoTranscript} /\ turn[i].voice \in Voice /\ turn[i].terminal \in BOOLEAN
    BY <1>1 DEF Turns, TurnRecord
  <2>2. turnActive' \in BOOLEAN
    BY <1>1, <1>7 DEF Flags, TurnStep, AgentAnswers, TurnUtteranceEnds, HangUp, TurnSounds, TurnOver
  <2>3. ASSUME NEW response \in Response, AgentAnswers(i, response) PROVE Typed'
    <3> DEFINE r == RespondTo(ses, response)
    <3>1. /\ ses' = r.session
          /\ UNCHANGED <<config, listening, cutting, spokeOver, gap, line, greeter, hearing>>
          /\ \/ /\ r.says = Silent /\ turn' = Ended(i) /\ speaking' = speaking
             \/ /\ r.says # Silent
                /\ turn' = With(i, "speaking", turn[i].heard, r.says, r.terminal)
                /\ speaking' = TRUE
      BY <2>3, AnswerTurn
    <3>2. /\ r.session \in SessionType
          /\ r.says = Silent \/ \E n \in 1..MaxLeft : r.says = Speak(n)
          /\ r.terminal \in BOOLEAN
      BY <1>1, RespondType, StreamAssumption
    <3> HIDE DEF r
    <3>3. Turns'
      <4>1. CASE turn' = Ended(i)
        BY <1>6, <4>1
      <4>2. CASE r.says # Silent /\ turn' = With(i, "speaking", turn[i].heard, r.says, r.terminal)
        <5>1. PICK n \in 1..MaxLeft : r.says = Speak(n)
          BY <3>2, <4>2
        <5>2. r.says \in Voice /\ r.says.left > 0
          BY <5>1, Voices
        <5>3. QED BY <2>1, <3>2, <4>2, <5>2, WithType DEF Turns
      <4>3. QED BY <3>1, <4>1, <4>2
    <3>4. speaking' \in BOOLEAN
      BY <1>1, <3>1, Zenon DEF Flags
    <3>5. Flags' /\ Talkers' /\ Heard' /\ ses' \in SessionType
      <4>1. UNCHANGED <<config, listening, cutting, spokeOver, gap, line, greeter, hearing>>
            /\ ses' = r.session
        BY <3>1
      <4>2. QED BY <1>1, <2>2, <3>2, <3>4, <4>1 DEF Flags, Talkers, Heard, config, hearing
    <3>6. QED BY <3>3, <3>5, TypedIsNext
  <2>4. CASE TurnUtteranceEnds(i)
    <3> DEFINE v == NextUtterance(turn[i].voice)
    <3>1. /\ turn[i].stage = "speaking" /\ gap' = (v.left > 0) /\ speaking' = FALSE
          /\ UNCHANGED <<config, listening, cutting, spokeOver, line, ses, greeter, hearing>>
          /\ \/ v.left > 0 /\ turn' = With(i, "speaking", turn[i].heard, v, turn[i].terminal)
             \/ ~(v.left > 0) /\ turn' = With(i, "draining", turn[i].heard, v, turn[i].terminal)
             \/ turn' = Ended(i)
      BY <2>4, UtteranceTurn
    <3>2. v \in Voice /\ v.left \in Nat
      BY <1>1, <3>1, Voices DEF Turns, TurnRecord
    <3> HIDE DEF v
    <3>3. Turns'
      <4>1. CASE v.left > 0 /\ turn' = With(i, "speaking", turn[i].heard, v, turn[i].terminal)
        BY <2>1, <3>2, <4>1, WithType DEF Turns
      <4>2. CASE ~(v.left > 0) /\ turn' = With(i, "draining", turn[i].heard, v, turn[i].terminal)
        BY <2>1, <3>2, <4>2, WithType DEF Turns
      <4>3. QED BY <1>6, <3>1, <4>1, <4>2
    <3>4. speaking' \in BOOLEAN /\ gap' \in BOOLEAN
      <4>1. gap' \in BOOLEAN
        BY <3>1
      <4>2. speaking' = FALSE
        BY <3>1
      <4>3. QED BY <4>1, <4>2
    <3>5. Flags' /\ Talkers' /\ Heard' /\ ses' \in SessionType
      BY <1>1, <2>2, <3>1, <3>4 DEF Flags, Talkers, Heard, config, hearing
    <3>6. QED BY <3>3, <3>5, TypedIsNext
  <2>5. CASE HangUp(i)
    <3>1. turn' = Ended(i)
      BY <2>5 DEF HangUp, TurnOver, Ended, With, IdleTurn
    <3>2. /\ UNCHANGED <<config, listening, cutting, spokeOver, gap, ses, speaking, greeter, hearing>>
          /\ line' \in {line, "ending"}
      BY <2>5 DEF HangUp, quiet
    <3>3. Flags' /\ Talkers' /\ Heard' /\ ses' \in SessionType
      BY <1>1, <2>2, <3>2 DEF Flags, Talkers, Heard, config, hearing
    <3>4. QED BY <1>6, <3>1, <3>3, TypedIsNext
  <2>6. CASE TurnSounds(i)
    <3> DEFINE v == [turn[i].voice EXCEPT !.sounding = TRUE]
    <3>1. /\ turn' = With(i, turn[i].stage, turn[i].heard, v, turn[i].terminal)
          /\ latency' = NoTranscript
          /\ UNCHANGED <<config, listening, cutting, spokeOver, gap, line, ses, speaking, turnActive,
                         greeter, pending, overwritten>>
      BY <2>6, SoundTurn
    <3>2. v \in Voice /\ v.left = turn[i].voice.left
      BY <2>1, Voices
    <3> HIDE DEF v
    <3>3. turn[i].stage \in {"idle", "reasoning", "speaking", "draining"}
          /\ (turn[i].stage = "speaking" <=> v.left > 0)
      BY <1>1, <3>2 DEF Turns, TurnRecord
    <3>4. Turns'
      BY <2>1, <3>1, <3>2, <3>3, WithType DEF Turns
    <3>5. Flags' /\ Talkers' /\ Heard' /\ ses' \in SessionType
      BY <1>1, <3>1 DEF Flags, Talkers, Heard, config
    <3>6. QED BY <3>4, <3>5, TypedIsNext
  <2>7. QED BY <1>7, <2>3, <2>4, <2>5, <2>6 DEF TurnStep
<1>8. ASSUME LineDrops PROVE Typed'
  <2>1. UNCHANGED <<config, listening, cutting, spokeOver, gap, ses, speaking, turnActive, greeter,
                    turn, hearing>> /\ line' = "down"
    BY <1>8 DEF LineDrops, quiet
  <2>2. QED BY <1>1, <2>1, TypedIsNext DEF Flags, Talkers, Turns, Heard, config, hearing
<1>9. ASSUME StreamCloses PROVE Typed'
  <2>1. /\ UNCHANGED <<config, cutting, spokeOver, gap, line, ses, turnActive, turn, hearing>>
        /\ listening' = FALSE /\ greeter' = [stage |-> "done", voice |-> Silent]
        /\ speaking' = (speaking /\ greeter.stage # "speaking")
    BY <1>9 DEF StreamCloses
  <2>2. Talkers'
    BY <2>1, Voices DEF Talkers, GreeterRecord
  <2>3. Flags'
    BY <1>1, <2>1 DEF Flags, config, hearing
  <2>4. QED BY <1>1, <2>1, <2>2, <2>3, TypedIsNext DEF Turns, Heard, hearing
<1>10. ASSUME UNCHANGED vars PROVE Typed'
  BY <1>1, <1>10, TypedIsNext DEF vars, Flags, Talkers, Turns, Heard
<1>11. QED BY <1>2, <1>3, <1>4, <1>5, <1>7, <1>8, <1>9, <1>10 DEF Next

LEMMA TypedInvariance == Spec => []Typed
BY TypedInit, TypedStep, InvAlways, PTL DEF Spec

(***************************************************************************)
(* The state is what the code can hold; a chain never has more utterances  *)
(* than the definition has steps, plus the one opening_turns begins with.  *)
(***************************************************************************)
THEOREM StreamTypes == Spec => []TypeOK
<1>1. Typed => TypeOK
  BY DEF Typed
<1>2. QED BY <1>1, TypedInvariance, PTL

(***************************************************************************)
(* Where the session moves.                                                *)
(***************************************************************************)
\* What the engine proposes for a known step is one of its edges.
LEMMA TransitionFollowsEdge ==
  ASSUME StepsDecide, NEW step \in DOMAIN Def, NEW response
  PROVE  EvaluateTransition(Def[step], response).next \in Edges(step) \cup {None}
<1>1. IsFixed(Def[step]) \/ IsBranching(Def[step])
  BY DEF StepsDecide
<1>2. CASE response.should_escalate \/ response.next_step \notin DOMAIN Def
  BY <1>2 DEF EvaluateTransition, Escalation, Edges
<1>3. CASE ~(response.should_escalate \/ response.next_step \notin DOMAIN Def) /\ IsFixed(Def[step])
  BY <1>3 DEF EvaluateTransition, Deterministic, IsFixed, Edges
<1>4. CASE ~(response.should_escalate \/ response.next_step \notin DOMAIN Def) /\ ~IsFixed(Def[step])
  <2>1. CASE response.next_step \in Def[step].branches
    BY <1>1, <1>4, <2>1 DEF EvaluateTransition, BranchTo, Edges
  <2>2. CASE response.next_step \notin Def[step].branches
    BY <1>1, <1>4, <2>2 DEF EvaluateTransition, Escalation, Edges
  <2>3. QED BY <2>1, <2>2
<1>5. QED BY <1>2, <1>3, <1>4

\* Only the start of the greeting and an answer change the session.
LEMMA SessionChanges ==
  ASSUME [Next]_vars, ses' # ses
  PROVE  GreetingStarts \/ \E i \in Slot : \E response \in Response : AgentAnswers(i, response)
BY DEF Next, Greeting, SynthReady, GreetingUtteranceEnds, GreetingSounds, RecognizerReady, Recognized,
       Recognizing, BargeIn, NextSpeak, HandleTranscript, TurnStep, TurnUtteranceEnds, HangUp, TurnSounds,
       LineDrops, StreamCloses, vars

(***************************************************************************)
(* The conversation moves along an edge of the call's definition, and from *)
(* there to the end of a chain of speak steps -- whatever the agent        *)
(* answers and whatever the engine's own file says (respond_to and         *)
(* opening_turns), for every definition whose steps say where they lead.   *)
(***************************************************************************)
THEOREM StreamWalksTheSOP ==
  ASSUME StepsDecide
  PROVE  Spec => WalksInTurns
<1> DEFINE from == ses.current_step
           to == ses'.current_step
           Walked == to # from => to = Opening(from).end
                       \/ \E e \in Edges(from) :
                            to = e \/ (e \in DOMAIN DefaultDef /\ to = Chain[e].end)
<1>1. Inv /\ Typed /\ [Next]_vars => [Walked]_vars
  <2> SUFFICES ASSUME Inv, Typed, [Next]_vars, to # from
               PROVE  to = Opening(from).end
                      \/ \E e \in Edges(from) :
                           to = e \/ (e \in DOMAIN DefaultDef /\ to = Chain[e].end)
    OBVIOUS
  <2>1. ses \in SessionType
    BY TypedIs
  <2>2. CASE GreetingStarts
    <3>1. ses' = IF from \in DOMAIN Def THEN [ses EXCEPT !.current_step = Opening(from).end] ELSE ses
      BY <2>2 DEF GreetingStarts
    <3>2. QED BY <2>1, <3>1 DEF SessionType
  <2>3. ASSUME NEW i \in Slot, NEW response \in Response, AgentAnswers(i, response)
        PROVE  \E e \in Edges(from) :
                 to = e \/ (e \in DOMAIN DefaultDef /\ to = Chain[e].end)
    <3> DEFINE t == EvaluateTransition(Def[from], response)
               raises == EvaluationRaises(from, response)
    <3>1. response \in AgentResponse
      BY StreamAssumption
    <3>2. ses' = RespondTo(ses, response).session
      BY <2>3, AnswerTurn
    <3>3. \/ raises /\ ses' = ses
          \/ ~raises /\ ses' = Advanced(ses, t)
          \/ /\ ~raises /\ t.next \in DOMAIN DefaultDef
             /\ ses' = [Advanced(ses, t) EXCEPT !.current_step = Chain[t.next].end]
      <4>1. \/ raises /\ RespondTo(ses, response).session = ses
            \/ ~raises /\ RespondTo(ses, response).session = Advanced(ses, t)
            \/ /\ ~raises /\ t.next \in DOMAIN DefaultDef
               /\ RespondTo(ses, response).session
                    = [Advanced(ses, t) EXCEPT !.current_step = Chain[t.next].end]
        BY <2>1, <3>1, RespondCases
      <4>2. QED BY <3>2, <4>1
    <3>4. ~raises => /\ Advanced(ses, t) \in SessionType
                     /\ Advanced(ses, t).current_step = IF t.next = None THEN from ELSE t.next
      BY <2>1, <3>1, AdvancedType
    <3>5. ~raises => t.next \in Edges(from) \cup {None}
      BY TransitionFollowsEdge DEF EvaluationRaises
    <3> HIDE DEF t, raises
    <3>6. CASE ~raises /\ ses' = Advanced(ses, t)
      BY <3>4, <3>5, <3>6
    <3>7. CASE /\ ~raises /\ t.next \in DOMAIN DefaultDef
               /\ ses' = [Advanced(ses, t) EXCEPT !.current_step = Chain[t.next].end]
      <4>1. t.next # None
        BY <3>7, EngineAssumption
      <4>2. to = Chain[t.next].end
        <5> DEFINE a == Advanced(ses, t)
        <5>1. a \in SessionType /\ ses' = [a EXCEPT !.current_step = Chain[t.next].end]
          BY <3>4, <3>7
        <5> HIDE DEF a
        <5>2. QED BY <5>1 DEF SessionType
      <4>3. QED BY <3>5, <3>7, <4>1, <4>2
    <3>8. QED BY <3>3, <3>6, <3>7
  <2>4. QED BY <2>2, <2>3, SessionChanges
<1>2. QED BY <1>1, InvAlways, TypedInvariance, PTL DEF Spec, WalksInTurns

(***************************************************************************)
(* The verdict.  While the line is up, a session with an outcome has a     *)
(* turn that is still saying so, and that turn will hang up -- where the   *)
(* session knows its connection.                                           *)
(***************************************************************************)
Closing(i) == turn[i].terminal /\ turn[i].stage \in {"speaking", "draining"}

Judged == KnowsConnection /\ ses.outcome # None /\ line = "up" => \E i \in Slot : Closing(i)

LEMMA VerdictIsSaid ==
  ASSUME VerdictsAreSpoken, NEW s \in SessionType, NEW response \in AgentResponse, s.outcome = None,
         RespondTo(s, response).session.outcome # None
  PROVE  RespondTo(s, response).says = Speak(1) /\ RespondTo(s, response).terminal
<1> DEFINE t == EvaluateTransition(Def[s.current_step], response)
           raises == EvaluationRaises(s.current_step, response)
           r == RespondTo(s, response)
<1>1. ~raises => /\ Advanced(s, t) \in SessionType
                 /\ t.outcome = None => Advanced(s, t).outcome = s.outcome
  BY AdvancedType
<1>2. ~raises /\ t.outcome # None => t.next = None \/ t.next \in DOMAIN DefaultDef
  <2> SUFFICES ASSUME ~raises, t.outcome # None PROVE t.next = None \/ t.next \in DOMAIN DefaultDef
    OBVIOUS
  <2> DEFINE current == Def[s.current_step]
             proposed == response.next_step
  <2>1. s.current_step \in DOMAIN Def
    BY DEF EvaluationRaises
  <2>2. CASE response.should_escalate \/ proposed \notin DOMAIN Def
    BY <2>2 DEF EvaluateTransition, Escalation, VerdictsAreSpoken
  <2>3. CASE ~(response.should_escalate \/ proposed \notin DOMAIN Def) /\ IsFixed(current)
    BY <2>3 DEF EvaluateTransition, Deterministic, IsFixed
  <2>4. CASE ~(response.should_escalate \/ proposed \notin DOMAIN Def) /\ ~IsFixed(current)
    <3>1. CASE ~IsBranching(current)
      BY <2>4, <3>1 DEF EvaluateTransition, VerdictsAreSpoken
    <3>2. CASE IsBranching(current) /\ proposed \in current.branches
      BY <2>4, <3>2 DEF EvaluateTransition, BranchTo, EvaluationRaises, IsBranching
    <3>3. CASE IsBranching(current) /\ proposed \notin current.branches
      BY <2>4, <3>3 DEF EvaluateTransition, Escalation, VerdictsAreSpoken
    <3>4. QED BY <3>1, <3>2, <3>3
  <2>5. QED BY <2>2, <2>3, <2>4
<1>3. \/ raises /\ r.session = s
      \/ /\ ~raises /\ t.next # None /\ t.next \notin DOMAIN DefaultDef
         /\ r.session = Advanced(s, t)
      \/ ~raises /\ r.says = Speak(1) /\ r.terminal
      \/ /\ ~raises /\ t.outcome = None
         /\ r.session = [Advanced(s, t) EXCEPT !.current_step = Chain[t.next].end]
  BY RespondCases
<1> HIDE DEF t, raises, r
<1>4. CASE /\ ~raises /\ t.next # None /\ t.next \notin DOMAIN DefaultDef
           /\ r.session = Advanced(s, t)
  BY <1>1, <1>2, <1>4 DEF r
<1>5. CASE /\ ~raises /\ t.outcome = None
           /\ r.session = [Advanced(s, t) EXCEPT !.current_step = Chain[t.next].end]
  <2> DEFINE a == Advanced(s, t)
  <2>1. a \in SessionType /\ a.outcome = None
        /\ r.session = [a EXCEPT !.current_step = Chain[t.next].end]
    BY <1>1, <1>5
  <2> HIDE DEF a
  <2>2. r.session.outcome = None
    BY <2>1 DEF SessionType
  <2>3. QED BY <2>2 DEF r
<1>6. QED BY <1>3, <1>4, <1>5 DEF r

LEMMA AnswerFindsNoVerdict ==
  ASSUME Inv, Judged, KnowsConnection, NEW i \in Slot, turn[i].stage = "reasoning", line = "up"
  PROVE  ses.outcome = None
BY DEF Inv, AtMostOneTurn, Judged, Closing

LEMMA JudgedStepConnected ==
  ASSUME VerdictsAreSpoken, Inv, Typed, Judged, [Next]_vars, KnowsConnection
  PROVE  Judged'
<1>1. CASE UNCHANGED <<ses, turn, line>>
  BY <1>1 DEF Judged, Closing
<1>2. CASE GreetingStarts
  <2>1. ses'.outcome = ses.outcome /\ UNCHANGED <<turn, line>>
    <3>1. ses \in SessionType
      BY TypedIs
    <3>2. QED BY <1>2, <3>1 DEF GreetingStarts, SessionType
  <2>2. QED BY <2>1 DEF Judged, Closing
<1>3. ASSUME NEW i \in Slot, NEW response \in Response, AgentAnswers(i, response) PROVE Judged'
  <2> DEFINE r == RespondTo(ses, response)
  <2>1. /\ turn[i].stage = "reasoning" /\ ses' = r.session /\ line' = line
        /\ \/ r.says = Silent
           \/ turn' = With(i, "speaking", turn[i].heard, r.says, r.terminal)
    BY <1>3, AnswerTurn
  <2> SUFFICES ASSUME ses'.outcome # None, line' = "up" PROVE \E j \in Slot : Closing(j)'
    BY DEF Judged
  <2>2. ses.outcome = None
    BY <2>1, AnswerFindsNoVerdict
  <2>3. r.says = Speak(1) /\ r.terminal
    BY <2>1, <2>2, VerdictIsSaid, TypedIs, StreamAssumption
  <2> HIDE DEF r
  <2>4. r.says # Silent
    BY <2>3 DEF Speak, Silent
  <2>5. turn' = With(i, "speaking", turn[i].heard, r.says, r.terminal)
    BY <2>1, <2>4
  <2>6. turn'[i].stage = "speaking" /\ turn'[i].terminal = r.terminal
    BY <2>5, WithFields
  <2>7. QED BY <2>3, <2>6 DEF Closing
<1>4. ASSUME NEW i \in Slot, TurnUtteranceEnds(i) PROVE Judged'
  <2> DEFINE v == NextUtterance(turn[i].voice)
  <2>1. /\ turn[i].stage = "speaking" /\ UNCHANGED <<ses, line>>
        /\ \/ turn' = With(i, "speaking", turn[i].heard, v, turn[i].terminal)
           \/ turn' = With(i, "draining", turn[i].heard, v, turn[i].terminal)
           \/ ~turn[i].terminal /\ turn' = Ended(i)
    BY <1>4, UtteranceTurn
  <2> HIDE DEF v
  <2> SUFFICES ASSUME ses.outcome # None, line = "up" PROVE \E j \in Slot : Closing(j)'
    BY <2>1 DEF Judged
  <2>2. turn[i].terminal
    BY <2>1 DEF Judged, Closing, Inv, AtMostOneTurn
  <2>3. PICK next \in {"speaking", "draining"} :
          turn' = With(i, next, turn[i].heard, v, turn[i].terminal)
    BY <2>1, <2>2
  <2>4. turn'[i].stage = next /\ turn'[i].terminal = turn[i].terminal
    BY <2>3, WithFields
  <2>5. QED BY <2>2, <2>4 DEF Closing
<1>5. ASSUME NEW i \in Slot, HangUp(i) PROVE Judged'
  <2>1. line' # "up"
    BY <1>5, Zenon DEF HangUp
  <2>2. QED BY <2>1 DEF Judged
<1>6. ASSUME NEW i \in Slot, TurnSounds(i) PROVE Judged'
  <2> DEFINE v == [turn[i].voice EXCEPT !.sounding = TRUE]
  <2>1. turn' = With(i, turn[i].stage, turn[i].heard, v, turn[i].terminal) /\ UNCHANGED <<ses, line>>
    BY <1>6, SoundTurn
  <2> HIDE DEF v
  <2>2. /\ turn'[i].stage = turn[i].stage /\ turn'[i].terminal = turn[i].terminal
        /\ \A j \in Slot \ {i} : turn'[j] = turn[j]
    BY <2>1, WithFields
  <2>3. \A j \in Slot : Closing(j) => Closing(j)'
    BY <2>2 DEF Closing
  <2>4. QED BY <2>1, <2>3 DEF Judged
<1>7. CASE HandleTranscript
  <2>1. UNCHANGED <<ses, line>>
        /\ \/ UNCHANGED turn
           \/ \E i \in Slot : /\ turn[i].stage = "idle"
                              /\ turn' = With(i, "reasoning", Head(pending), turn[i].voice,
                                              turn[i].terminal)
    BY <1>7, AcceptTurn
  <2>2. ASSUME NEW i \in Slot, turn[i].stage = "idle",
               turn' = With(i, "reasoning", Head(pending), turn[i].voice, turn[i].terminal)
        PROVE  \A j \in Slot : Closing(j) => Closing(j)'
    <3>1. \A j \in Slot \ {i} : turn'[j] = turn[j]
      BY <2>2, WithFields
    <3>2. QED BY <2>2, <3>1 DEF Closing
  <2>3. QED BY <1>1, <2>1, <2>2 DEF Judged
<1>8. CASE LineDrops
  BY <1>8 DEF LineDrops, Judged
<1>9. UNCHANGED <<ses, turn, line>> \/ GreetingStarts \/ HandleTranscript \/ LineDrops
      \/ \E i \in Slot : \/ \E response \in Response : AgentAnswers(i, response)
                         \/ TurnUtteranceEnds(i) \/ HangUp(i) \/ TurnSounds(i)
  BY DEF Next, Greeting, SynthReady, GreetingUtteranceEnds, GreetingSounds, RecognizerReady, Recognized,
         Recognizing, BargeIn, NextSpeak, TurnStep, StreamCloses, quiet, vars
<1>10. QED BY <1>1, <1>2, <1>3, <1>4, <1>5, <1>6, <1>7, <1>8, <1>9

LEMMA JudgedStep ==
  ASSUME VerdictsAreSpoken, Inv, Typed, Judged, [Next]_vars
  PROVE  Judged'
<1>1. UNCHANGED shared
  BY DEF Next, Greeting, SynthReady, GreetingStarts, GreetingUtteranceEnds, GreetingSounds, RecognizerReady,
         Recognized, Recognizing, BargeIn, NextSpeak, HandleTranscript, TurnStep, AgentAnswers,
         TurnUtteranceEnds, HangUp, TurnSounds, LineDrops, StreamCloses, quiet, config, vars
<1>2. CASE ~KnowsConnection
  BY <1>1, <1>2 DEF Judged, KnowsConnection
<1>3. CASE KnowsConnection
  BY <1>3, JudgedStepConnected
<1>4. QED BY <1>2, <1>3

(***************************************************************************)
(* Whatever transcripts come while the callee hears the verdict, no answer *)
(* revises it before the hang-up (_turn_active covers the drain pause of   *)
(* _handle_transcript too) -- where the agent can hang up, and for every   *)
(* definition whose closing steps the engine's own file knows: otherwise   *)
(* respond_to raises after the outcome was stored, and the turn is over.   *)
(***************************************************************************)
THEOREM VerdictIsKept ==
  ASSUME VerdictsAreSpoken
  PROVE  Spec => VerdictStands
<1>1. Init => Judged
  BY DEF Init, Judged
<1>2. Inv /\ Typed /\ Judged /\ [Next]_vars => Judged'
  BY JudgedStep
<1>3. Inv /\ Typed /\ Judged /\ [Next]_vars
        => [ses.outcome # None /\ ses'.outcome # ses.outcome => line # "up" \/ ~KnowsConnection]_vars
  <2> SUFFICES ASSUME Inv, Typed, Judged, [Next]_vars, ses.outcome # None, line = "up", KnowsConnection
               PROVE  ses'.outcome = ses.outcome
    OBVIOUS
  <2>1. CASE GreetingStarts
    <3>1. ses \in SessionType
      BY TypedIs
    <3>2. QED BY <2>1, <3>1 DEF GreetingStarts, SessionType
  <2>2. ASSUME NEW i \in Slot, NEW response \in Response, AgentAnswers(i, response) PROVE FALSE
    BY <2>2, AnswerTurn, AnswerFindsNoVerdict
  <2>3. QED BY <2>1, <2>2, SessionChanges
<1>4. QED BY <1>1, <1>2, <1>3, InvAlways, TypedInvariance, PTL DEF Spec, VerdictStands

(***************************************************************************)
(* The latency mark.  Unless a second transcript replaced it, it is the    *)
(* mark of the one transcript that waits or is answered.  The greeting     *)
(* finds no mark, unless it was talked over.                               *)
(***************************************************************************)
MarkOfWaiting == pending # << >> => Len(pending) = 1 /\ latency \in {NoTranscript, pending[1]}

MarkOfTurn ==
  \A i \in Slot : turn[i].stage # "idle"
                    => pending = << >> /\ latency \in {NoTranscript, turn[i].heard}

GreetingUnmarked == ~spokeOver /\ greeter.stage # "done" => latency = NoTranscript

Sampled == GreetingUnmarked /\ (~overwritten => MarkOfWaiting /\ MarkOfTurn)

\* The record of a turn i that goes on, or is over, and hears what it heard.
LEMMA MarkStays ==
  ASSUME Inv, MarkOfTurn, NEW i \in Slot, turn[i].stage # "idle",
         latency' \in {latency, NoTranscript}, UNCHANGED pending,
         NEW stage, NEW voice, NEW terminal,
         turn' = With(i, stage, turn[i].heard, voice, terminal) \/ turn' = Ended(i)
  PROVE  MarkOfTurn'
<1>1. CASE turn' = With(i, stage, turn[i].heard, voice, terminal)
  <2>1. turn'[i].heard = turn[i].heard /\ \A j \in Slot \ {i} : turn'[j] = turn[j]
    BY <1>1, WithFields
  <2>2. QED BY <2>1 DEF MarkOfTurn
<1>2. CASE turn' = Ended(i)
  <2>1. turn'[i].stage = "idle" /\ \A j \in Slot \ {i} : turn'[j] = turn[j]
    BY <1>2, WithFields DEF Ended
  <2>2. QED BY <2>1 DEF MarkOfTurn
<1>3. QED BY <1>1, <1>2

LEMMA GreetingUnmarkedStep ==
  ASSUME Inv, Typed, GreetingUnmarked, [Next]_vars
  PROVE  GreetingUnmarked'
<1> SUFFICES ASSUME ~spokeOver', greeter'.stage # "done" PROVE latency' = NoTranscript
  BY DEF GreetingUnmarked
<1>1. CASE GreetingSounds \/ \E i \in Slot : TurnSounds(i)
  BY <1>1, SoundTurn DEF GreetingSounds
<1>2. CASE Recognized
  <2>1. /\ ~speaking /\ listening /\ UNCHANGED greeter
        /\ spokeOver' = (spokeOver \/ greeter.stage = "delay" \/ gap)
    BY <1>2 DEF Recognized, Busy
  <2>2. QED BY <2>1 DEF Inv, GreeterShape, NoTurnInGreeting, DeafInSetup
<1>3. CASE Greeting
  <2>1. greeter.stage # "done" /\ UNCHANGED <<latency, spokeOver>>
    BY <1>3 DEF Greeting, SynthReady, GreetingStarts, GreetingUtteranceEnds, quiet, hearing
  <2>2. QED BY <2>1 DEF GreetingUnmarked
<1>4. CASE StreamCloses
  <2>1. greeter' = [stage |-> "done", voice |-> Silent]
    BY <1>4 DEF StreamCloses
  <2>2. QED BY <2>1
<1>5. CASE /\ UNCHANGED <<greeter, latency>> /\ (spokeOver => spokeOver')
  BY <1>5 DEF GreetingUnmarked
<1>6. ASSUME NEW i \in Slot, TurnStep(i) PROVE UNCHANGED <<greeter, latency, spokeOver>>
  BY <1>6 DEF TurnStep, AgentAnswers, TurnUtteranceEnds, HangUp, quiet, hearing
<1>7. CASE RecognizerReady \/ Recognizing \/ BargeIn \/ NextSpeak \/ HandleTranscript \/ LineDrops
           \/ UNCHANGED vars
  BY <1>5, <1>7 DEF RecognizerReady, Recognizing, BargeIn, NextSpeak, HandleTranscript, LineDrops,
                    quiet, hearing, vars
<1>8. QED BY <1>1, <1>2, <1>3, <1>4, <1>5, <1>6, <1>7 DEF Next

LEMMA MarkStep ==
  ASSUME Inv, Typed, Sampled, [Next]_vars, ~overwritten'
  PROVE  MarkOfWaiting' /\ MarkOfTurn'
<1>1. pending \in Seq(Transcript)
  BY TypedIs DEF Heard
<1>2. CASE Recognized
  <2>1. ~turnActive /\ pending = << >> /\ UNCHANGED turn
    BY <1>2 DEF Recognized, Busy
  <2>2. PICK t \in Transcript : latency' = t /\ pending' = Append(pending, t)
    BY <1>2 DEF Recognized
  <2>3. Len(pending') = 1 /\ pending'[1] = t
    BY <1>1, <2>1, <2>2
  <2>4. QED BY <2>1, <2>2, <2>3 DEF Inv, TurnHoldsLock, MarkOfWaiting, MarkOfTurn
<1>3. ASSUME ~Recognized PROVE UNCHANGED overwritten
  BY <1>3 DEF Next, Greeting, SynthReady, GreetingStarts, GreetingUtteranceEnds, GreetingSounds, RecognizerReady,
         Recognizing, BargeIn, NextSpeak, HandleTranscript, TurnStep, AgentAnswers, TurnUtteranceEnds,
         HangUp, TurnSounds, LineDrops, StreamCloses, hearing, vars
<1>4. CASE ~Recognized
  <2>1. MarkOfWaiting /\ MarkOfTurn
    BY <1>3, <1>4 DEF Sampled
  <2>2. CASE UNCHANGED <<turn, pending>> /\ latency' \in {latency, NoTranscript}
    BY <2>1, <2>2 DEF MarkOfWaiting, MarkOfTurn
  <2>3. CASE HandleTranscript
    <3>1. /\ pending # << >> /\ pending' = Tail(pending) /\ UNCHANGED latency
          /\ \/ turnActive /\ UNCHANGED turn
             \/ \E i \in Slot : turn' = With(i, "reasoning", Head(pending), turn[i].voice, turn[i].terminal)
      BY <2>3, AcceptTurn
    <3>2. Len(pending) = 1 /\ Head(pending) = pending[1] /\ latency \in {NoTranscript, pending[1]}
      BY <1>1, <2>1, <3>1 DEF MarkOfWaiting
    <3>3. pending' = << >>
      BY <1>1, <3>1, <3>2
    <3>4. ASSUME NEW i \in Slot,
                 turn' = With(i, "reasoning", Head(pending), turn[i].voice, turn[i].terminal)
          PROVE  MarkOfTurn'
      <4>1. turn'[i].heard = pending[1] /\ \A j \in Slot \ {i} : turn'[j] = turn[j]
        BY <3>2, <3>4, WithFields
      <4>2. QED BY <2>1, <3>1, <3>2, <3>3, <4>1 DEF MarkOfTurn
    <3>5. UNCHANGED turn => MarkOfTurn'
      BY <2>1, <3>1, <3>3 DEF MarkOfTurn
    <3>6. QED BY <3>1, <3>3, <3>4, <3>5 DEF MarkOfWaiting
  <2>4. ASSUME NEW i \in Slot, NEW response \in Response, AgentAnswers(i, response)
        PROVE  MarkOfWaiting' /\ MarkOfTurn'
    <3> DEFINE q == RespondTo(ses, response)
    <3>1. /\ turn[i].stage = "reasoning" /\ UNCHANGED <<pending, latency>>
          /\ \/ turn' = Ended(i) \/ turn' = With(i, "speaking", turn[i].heard, q.says, q.terminal)
      BY <2>4, AnswerTurn DEF hearing
    <3> HIDE DEF q
    <3>2. QED BY <2>1, <3>1, MarkStays DEF MarkOfWaiting
  <2>5. ASSUME NEW i \in Slot, TurnUtteranceEnds(i) PROVE MarkOfWaiting' /\ MarkOfTurn'
    <3> DEFINE v == NextUtterance(turn[i].voice)
    <3>1. /\ turn[i].stage = "speaking" /\ UNCHANGED <<pending, latency>>
          /\ \/ turn' = With(i, "speaking", turn[i].heard, v, turn[i].terminal)
             \/ turn' = With(i, "draining", turn[i].heard, v, turn[i].terminal)
             \/ turn' = Ended(i)
      BY <2>5, UtteranceTurn DEF hearing
    <3> HIDE DEF v
    <3>2. QED BY <2>1, <3>1, MarkStays DEF MarkOfWaiting
  <2>6. ASSUME NEW i \in Slot, HangUp(i) PROVE MarkOfWaiting' /\ MarkOfTurn'
    <3>1. turn[i].stage # "idle" /\ turn' = Ended(i) /\ UNCHANGED <<pending, latency>>
      BY <2>6 DEF HangUp, TurnOver, Ended, With, IdleTurn, hearing
    <3>2. QED BY <2>1, <3>1, MarkStays DEF MarkOfWaiting
  <2>7. ASSUME NEW i \in Slot, TurnSounds(i) PROVE MarkOfWaiting' /\ MarkOfTurn'
    <3> DEFINE v == [turn[i].voice EXCEPT !.sounding = TRUE]
    <3>1. /\ turn' = With(i, turn[i].stage, turn[i].heard, v, turn[i].terminal)
          /\ latency' = NoTranscript /\ UNCHANGED pending /\ turn[i].voice.left > 0
      BY <2>7, SoundTurn
    <3> HIDE DEF v
    <3>2. turn[i].stage # "idle"
      BY <3>1 DEF Typed, VoicesLeft
    <3>3. QED BY <2>1, <3>1, <3>2, MarkStays DEF MarkOfWaiting
  <2>8. CASE Greeting \/ GreetingSounds \/ RecognizerReady \/ NextSpeak \/ Recognizing \/ BargeIn
             \/ LineDrops \/ StreamCloses \/ UNCHANGED vars
    BY <2>2, <2>8 DEF Greeting, SynthReady, GreetingStarts, GreetingUtteranceEnds, GreetingSounds,
       RecognizerReady, NextSpeak, Recognizing, BargeIn, LineDrops, StreamCloses, hearing, vars
  <2>9. QED BY <1>4, <2>3, <2>4, <2>5, <2>6, <2>7, <2>8 DEF Next, TurnStep
<1>5. QED BY <1>2, <1>4

(***************************************************************************)
(* The frame that takes a voice-to-voice sample belongs to the turn that   *)
(* answers the transcript that was marked, unless another transcript took  *)
(* the mark over while that one waited, or the greeting was talked over    *)
(* (mark_caller_stopped and mark_agent_started around _turn_active).       *)
(***************************************************************************)
THEOREM SamplesAreTheTurns == Spec => SampleIsOfTheTurn
<1>1. Init => Sampled
  <2> SUFFICES ASSUME Init PROVE Sampled
    OBVIOUS
  <2>1. /\ pending = << >> /\ latency = NoTranscript /\ turn = [i \in Slot |-> IdleTurn]
    BY DEF Init
  <2>2. QED BY <2>1 DEF Sampled, MarkOfWaiting, MarkOfTurn, GreetingUnmarked, IdleTurn
<1>2. Inv /\ Typed /\ Sampled /\ [Next]_vars => Sampled'
  BY GreetingUnmarkedStep, MarkStep DEF Sampled
<1>3. Inv /\ Typed /\ Sampled /\ [Next]_vars
        => [latency # NoTranscript /\ latency' = NoTranscript /\ ~overwritten
              => \/ \E i \in Active : latency = turn[i].heard
                 \/ greeter.stage = "speaking" /\ spokeOver]_vars
  <2> SUFFICES ASSUME Inv, Typed, Sampled, Next, latency # NoTranscript, latency' = NoTranscript,
                      ~overwritten
               PROVE  \/ \E i \in Active : latency = turn[i].heard
                      \/ greeter.stage = "speaking" /\ spokeOver
    BY DEF vars
  <2>1. MarkOfTurn /\ GreetingUnmarked
    BY DEF Sampled
  <2>2. ASSUME NEW i \in Slot, TurnSounds(i) PROVE i \in Active /\ latency = turn[i].heard
    <3>1. turn[i].stage = "speaking"
      BY <2>2, SoundTurn DEF Typed, VoicesLeft
    <3>2. QED BY <2>1, <3>1 DEF MarkOfTurn, Active
  <2>3. ASSUME GreetingSounds PROVE greeter.stage = "speaking" /\ spokeOver
    <3>1. greeter.stage = "speaking"
      BY <2>3 DEF GreetingSounds, Sounds, Typed, VoicesLeft
    <3>2. QED BY <2>1, <3>1 DEF GreetingUnmarked
  <2>4. ~Recognized
    BY DEF Recognized, Transcript, NoTranscript
  <2>5. GreetingSounds \/ \E i \in Slot : TurnSounds(i)
    BY <2>4 DEF Next, Greeting, SynthReady, GreetingStarts, GreetingUtteranceEnds, RecognizerReady,
       Recognizing, BargeIn, NextSpeak, HandleTranscript, TurnStep, AgentAnswers, TurnUtteranceEnds, HangUp,
       LineDrops, StreamCloses, hearing
  <2>6. QED BY <2>2, <2>3, <2>5
<1>4. QED BY <1>1, <1>2, <1>3, InvAlways, TypedInvariance, PTL DEF Spec, SampleIsOfTheTurn
=============================================================================
