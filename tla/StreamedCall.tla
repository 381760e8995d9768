----------------------------- MODULE StreamedCall -----------------------------
(***************************************************************************)
(* A call on the streaming engine with our own speech recognition          *)
(* (src/src/orchestrator/media_streaming.py), with its latency marks       *)
(* (latency.py).                                                           *)
(*                                                                         *)
(* The recognizer's callbacks run on an SDK thread: they read _speaking    *)
(* and _turn_active, which coroutines of the event loop set, and schedule  *)
(* a coroutine.  The greeting speaks in a task of its own, outside of any  *)
(* turn.  An action runs from one await to the next, except that a         *)
(* callback can come between two assignments: the end of an utterance and  *)
(* the start of the next one are two actions.  A callback is one action,   *)
(* because no turn begins and ends in the middle of it.  Speech is         *)
(* abstracted to utterances that start, sound and end.                     *)
(***************************************************************************)
EXTENDS CallHandlers, FiniteSets

CONSTANTS
  Response,    \* the answers the agent can give
  MaxPending   \* bound: transcripts scheduled and not yet handled

\* The step that _speak_chain renders after p, p itself if it is the last one.
Following(p) ==
  IF DefaultDef[p].type = "speak" /\ DefaultDef[p].next # None THEN DefaultDef[p].next ELSE p

\* The chain from step t: what every set that follows t contains.
Chained(t) ==
  {p \in DOMAIN DefaultDef :
     \A S \in SUBSET DOMAIN DefaultDef : t \in S /\ (\A q \in S : Following(q) \in S) => p \in S}

\* Speak steps of the engine's own file lead on to steps it has, and come to an
\* end: _speak_chain would not return.
ASSUME StreamAssumption ==
  /\ Response \subseteq AgentResponse
  /\ IsFiniteSet(DOMAIN DefaultDef)
  /\ \A t \in DOMAIN DefaultDef :
       /\ DefaultDef[t].next \in DOMAIN DefaultDef \cup {None}
       /\ \E p \in Chained(t) : Following(p) = p
  /\ MaxPending \in Nat

VARIABLES
  bargeIn,    \* enable_barge_in
  shared,     \* the session is a copy from a shared store
  line,       \* "up", "ending" once hang_up was called, "down"
  ses,        \* the session: current step and outcome
  listening,  \* the recognizer is running
  speaking,   \* _speaking
  gap,        \* the event loop is between two utterances of one speaker
  turnActive, \* _turn_active
  greeter,    \* the task _setup_and_greet
  turn,       \* the tasks _handle_transcript
  pending,    \* transcripts scheduled on the event loop
  cutting,    \* a _barge_in coroutine is scheduled
  spokeOver,  \* history: the callee cut an utterance short, or was taken to speak
              \* before or between the utterances of the greeting
  latency,    \* LatencyTracker._pending of this call: the transcript that was marked
  overwritten \* history: that mark replaced the one of a transcript that waited

vars == <<bargeIn, shared, line, ses, listening, speaking, gap, turnActive, greeter, turn,
          pending, cutting, spokeOver, latency, overwritten>>
config == <<bargeIn, shared>>
hearing == <<pending, latency, overwritten>>
quiet == <<config, listening, cutting, spokeOver>>

Slot == {1, 2}

\* Transcripts, told apart while they wait, are answered or marked.
Transcript == 1..(MaxPending + 3)
NoTranscript == 0

\* A speaker has utterances left; the first frame of the current one is out.
Silent == [left |-> 0, sounding |-> FALSE]
Voice == [left : 0..(Cardinality(DOMAIN DefaultDef) + 1), sounding : BOOLEAN]

IdleTurn == [stage |-> "idle", heard |-> NoTranscript, voice |-> Silent, terminal |-> FALSE]

TypeOK ==
  /\ {bargeIn, shared} \subseteq BOOLEAN /\ line \in {"up", "ending", "down"}
  /\ ses \in [current_step : StepId, outcome : CallOutcome \cup {None}]
  /\ {listening, speaking, gap, turnActive, cutting, spokeOver, overwritten} \subseteq BOOLEAN
  /\ greeter \in [stage : {"setup", "refused", "delay", "speaking", "done"}, voice : Voice]
  /\ turn \in [Slot -> [stage : {"idle", "reasoning", "speaking", "draining"},
                        heard : Transcript \cup {NoTranscript}, voice : Voice, terminal : BOOLEAN]]
  /\ pending \in BoundedSeq(Transcript, MaxPending)
  /\ latency \in Transcript \cup {NoTranscript}

Init ==
  /\ bargeIn \in BOOLEAN /\ shared \in BOOLEAN /\ line = "up"
  /\ ses = [current_step |-> "greeting", outcome |-> None]
  /\ listening = FALSE /\ speaking = FALSE /\ gap = FALSE /\ turnActive = FALSE
  /\ greeter = [stage |-> "setup", voice |-> Silent]
  /\ turn = [i \in Slot |-> IdleTurn]
  /\ pending = << >> /\ cutting = FALSE /\ spokeOver = FALSE
  /\ latency = NoTranscript /\ overwritten = FALSE

-----------------------------------------------------------------------------
(* StreamingConversation.                                                  *)

\* _speak_chain: how many utterances, and the step it ends on.
Chain ==
  [t \in DOMAIN DefaultDef |->
     [length |-> Cardinality(Chained(t)), end |-> CHOOSE p \in Chained(t) : Following(p) = p]]

\* opening_turns, from a known step: the first one comes from the call's
\* definition.  Length 0: the next one is unknown to the engine's file, and
\* get_step raises.
Opening(t) ==
  IF Def[t].type # "speak" \/ Def[t].next = None THEN [length |-> 1, end |-> t]
  ELSE IF Def[t].next \notin DOMAIN DefaultDef THEN [length |-> 0, end |-> Def[t].next]
  ELSE [length |-> 1 + Chain[Def[t].next].length, end |-> Chain[Def[t].next].end]

Speak(utterances) == [left |-> utterances, sounding |-> FALSE]

\* respond_to after the agent has answered: the session it leaves, and what
\* the turn says, Silent if the engine raised.
RespondTo(session, response) ==
  LET t == EvaluateTransition(Def[session.current_step], response)
      advanced == AdvanceSession(session, response)
      chain == Chain[t.next]
  IN IF EvaluationRaises(session.current_step, response)
     THEN [session |-> session, says |-> Silent, terminal |-> FALSE]
     ELSE IF t.next # None /\ t.next \notin DOMAIN DefaultDef
     THEN [session |-> advanced, says |-> Silent, terminal |-> FALSE]
     ELSE IF t.next = None \/ t.outcome # None
     THEN [session |-> advanced, says |-> Speak(1), terminal |-> TRUE]
     ELSE [session |-> [advanced EXCEPT !.current_step = chain.end],
           says |-> Speak(chain.length), terminal |-> DefaultDef[chain.end].type = "speak"]

-----------------------------------------------------------------------------
(* Setting up and greeting.                                                *)

\* Token and synthesizer; the recognizer is built meanwhile by a thread.  When
\* the speech service refuses, the call stays open in silence.
SynthReady ==
  /\ ~gap /\ greeter.stage = "setup"
  /\ \/ greeter' = [greeter EXCEPT !.stage = "delay"]
     \/ greeter' = [greeter EXCEPT !.stage = "refused"]
  /\ UNCHANGED <<quiet, gap, line, ses, speaking, turnActive, turn, hearing>>

RecognizerReady ==
  /\ greeter.stage \notin {"setup", "refused"} /\ line # "down" /\ ~listening
  /\ listening' = TRUE
  /\ UNCHANGED <<config, cutting, spokeOver, gap, line, ses, speaking, turnActive, greeter,
                 turn, hearing>>

\* greeting_delay_s is over: opening_turns, then the first _speak.  When the
\* engine raises, nobody is greeted.
GreetingStarts ==
  /\ ~gap /\ greeter.stage = "delay" /\ line # "down"
  /\ LET opening == Opening(ses.current_step)
         opens == ses.current_step \in DOMAIN Def /\ opening.length > 0
     IN /\ ses' = IF ses.current_step \in DOMAIN Def
                  THEN [ses EXCEPT !.current_step = opening.end] ELSE ses
        /\ greeter' = IF opens THEN [stage |-> "speaking", voice |-> Speak(opening.length)]
                      ELSE [stage |-> "done", voice |-> Silent]
        /\ speaking' = (speaking \/ opens)
  /\ UNCHANGED <<quiet, gap, line, turnActive, turn, hearing>>

-----------------------------------------------------------------------------
(* Recognition, on the SDK thread.                                         *)

\* Mutant: the echo guard forgets the utterances outside of a turn.
BusyInTurn == turnActive

Busy == speaking \/ turnActive

\* The transcripts that wait, are answered or are marked.
InUse == {pending[k] : k \in 1..Len(pending)} \cup {turn[i].heard : i \in Slot} \cup {latency}

\* Transcript t is new: the first one that is not in use.
New(t) == t \notin InUse /\ \A u \in Transcript \ InUse : t <= u

\* Mutant: every transcript is marked, the ignored ones too.
RecognizedMarked ==
  /\ listening /\ line # "down" /\ Len(pending) < MaxPending
  /\ \E t \in Transcript :
       /\ New(t) /\ latency' = t
       /\ IF Busy THEN UNCHANGED pending ELSE pending' = Append(pending, t)
  /\ overwritten' = (pending # << >>)
  /\ UNCHANGED <<quiet, gap, line, ses, speaking, turnActive, greeter, turn>>

\* A transcript that is more than a pickup greeting: marked and scheduled.
Recognized ==
  /\ listening /\ line # "down" /\ Len(pending) < MaxPending
  /\ ~Busy
  /\ \E t \in Transcript :
       New(t) /\ latency' = t /\ pending' = Append(pending, t)
  /\ overwritten' = (pending # << >>)
  /\ spokeOver' = (spokeOver \/ greeter.stage = "delay" \/ gap)
  /\ UNCHANGED <<config, listening, cutting, gap, line, ses, speaking, turnActive, greeter, turn>>

\* The callee is talking over the agent.
Recognizing ==
  /\ listening /\ line # "down" /\ bargeIn /\ speaking /\ ~cutting
  /\ cutting' = TRUE
  /\ UNCHANGED <<config, listening, spokeOver, gap, line, ses, speaking, turnActive, greeter,
                 turn, hearing>>

BargeIn ==
  /\ ~gap /\ cutting /\ cutting' = FALSE
  /\ speaking' = FALSE /\ spokeOver' = TRUE
  /\ UNCHANGED <<config, listening, gap, line, ses, turnActive, greeter, turn, hearing>>

-----------------------------------------------------------------------------
(* A turn.                                                                 *)

\* Mutant: every scheduled transcript becomes a turn.
MayTakeAnyTurn == TRUE

MayTakeTurn == ~turnActive

\* A scheduled transcript is dropped, or becomes the turn and asks the agent.
HandleTranscript ==
  /\ ~gap /\ pending # << >> /\ pending' = Tail(pending)
  /\ IF MayTakeTurn
     THEN \E i \in Slot :
            /\ turn[i].stage = "idle" /\ \A j \in Slot : j < i => turn[j].stage # "idle"
            /\ turn' = [turn EXCEPT ![i].stage = "reasoning", ![i].heard = Head(pending)]
            /\ turnActive' = TRUE
     ELSE UNCHANGED <<turn, turnActive>>
  /\ UNCHANGED <<quiet, gap, line, ses, speaking, greeter, latency, overwritten>>

\* The turn is over, by an exception or at its end: the finally clause.
TurnOver(i) == turn' = [turn EXCEPT ![i] = IdleTurn] /\ turnActive' = FALSE

\* The coroutines scheduled before this turn asked the agent have run by now.
AgentAnswers(i, response) ==
  /\ ~gap /\ turn[i].stage = "reasoning" /\ pending = << >>
  /\ LET result == RespondTo(ses, response) IN
     /\ ses' = result.session
     /\ IF result.says = Silent THEN TurnOver(i) /\ UNCHANGED speaking
        ELSE /\ turn' = [turn EXCEPT ![i].stage = "speaking", ![i].voice = result.says,
                                     ![i].terminal = result.terminal]
             /\ speaking' = TRUE /\ UNCHANGED turnActive
  /\ UNCHANGED <<quiet, gap, line, greeter, hearing>>

-----------------------------------------------------------------------------
(* _speak: the first frame takes the latency sample.  An utterance ends    *)
(* when it is played, cut short or cannot be sent: its finally clause      *)
(* clears the flag, and the next _speak sets it again.  The event loop     *)
(* does nothing else in between, but a callback may read the flag.         *)

Sounds(v) == speaking /\ v.left > 0 /\ ~v.sounding

GreetingSounds ==
  /\ Sounds(greeter.voice)
  /\ greeter' = [greeter EXCEPT !.voice.sounding = TRUE]
  /\ latency' = NoTranscript
  /\ UNCHANGED <<quiet, gap, line, ses, speaking, turnActive, turn, pending, overwritten>>

TurnSounds(i) ==
  /\ Sounds(turn[i].voice)
  /\ turn' = [turn EXCEPT ![i].voice.sounding = TRUE]
  /\ latency' = NoTranscript
  /\ UNCHANGED <<quiet, gap, line, ses, speaking, turnActive, greeter, pending, overwritten>>

NextUtterance(v) == [left |-> v.left - 1, sounding |-> FALSE]

GreetingUtteranceEnds ==
  /\ ~gap /\ greeter.stage = "speaking"
  /\ LET v == NextUtterance(greeter.voice) IN
     /\ greeter' = [stage |-> IF v.left > 0 THEN "speaking" ELSE "done", voice |-> v]
     /\ gap' = (v.left > 0)
  /\ speaking' = FALSE
  /\ UNCHANGED <<quiet, line, ses, turnActive, turn, hearing>>

\* Mutant: an utterance of a turn that ends leaves the flag set.
TurnUtteranceStays(i) ==
  /\ ~gap /\ turn[i].stage = "speaking"
  /\ LET v == NextUtterance(turn[i].voice)
         next == [turn EXCEPT ![i].voice = v]
     IN /\ gap' = (v.left > 0)
        /\ IF v.left > 0 THEN turn' = next /\ UNCHANGED turnActive
           ELSE IF turn[i].terminal
           THEN turn' = [next EXCEPT ![i].stage = "draining"] /\ UNCHANGED turnActive
           ELSE TurnOver(i)
  /\ UNCHANGED <<quiet, line, ses, speaking, greeter, hearing>>

TurnUtteranceEnds(i) ==
  /\ ~gap /\ turn[i].stage = "speaking"
  /\ LET v == NextUtterance(turn[i].voice)
         next == [turn EXCEPT ![i].voice = v]
     IN /\ gap' = (v.left > 0)
        /\ IF v.left > 0 THEN turn' = next /\ UNCHANGED turnActive
           ELSE IF turn[i].terminal
           THEN turn' = [next EXCEPT ![i].stage = "draining"] /\ UNCHANGED turnActive
           ELSE TurnOver(i)
  /\ speaking' = FALSE
  /\ UNCHANGED <<quiet, line, ses, greeter, hearing>>

\* The next utterance of the one that spoke.
NextSpeak ==
  /\ gap /\ gap' = FALSE /\ speaking' = TRUE
  /\ UNCHANGED <<quiet, line, ses, turnActive, greeter, turn, hearing>>

\* Mutant: a conversation that is over is left to the callee.
ForgetsToHangUp(i) ==
  /\ ~gap /\ turn[i].stage = "draining"
  /\ TurnOver(i)
  /\ UNCHANGED <<quiet, gap, line, ses, speaking, greeter, hearing>>

\* server_call_id is set after the session was stored: the copy that a shared
\* store returns does not have it.
KnowsConnection == ~shared

\* hangup_delay_s after the last utterance: on_terminal hangs the phone up, if the
\* session has a connection id.
HangUp(i) ==
  /\ ~gap /\ turn[i].stage = "draining"
  /\ line' = IF line = "up" /\ KnowsConnection THEN "ending" ELSE line
  /\ TurnOver(i)
  /\ UNCHANGED <<quiet, gap, ses, speaking, greeter, hearing>>

\* ACS carries the hang-up out, or the callee hangs up.
LineDrops ==
  /\ line # "down" /\ line' = "down"
  /\ UNCHANGED <<quiet, gap, ses, speaking, turnActive, greeter, turn, hearing>>

\* The socket closes: run stops the recognizer and cancels the greeting.
StreamCloses ==
  /\ ~gap /\ line = "down" /\ (listening \/ greeter.stage # "done")
  /\ listening' = FALSE
  /\ greeter' = [stage |-> "done", voice |-> Silent]
  /\ speaking' = (speaking /\ greeter.stage # "speaking")
  /\ UNCHANGED <<config, cutting, spokeOver, gap, line, ses, turnActive, turn, hearing>>

-----------------------------------------------------------------------------

TurnStep(i) ==
  \/ \E response \in Response : AgentAnswers(i, response)
  \/ TurnUtteranceEnds(i)
  \/ HangUp(i)

Greeting == SynthReady \/ GreetingStarts \/ GreetingUtteranceEnds

Next ==
  \/ Greeting \/ GreetingSounds \/ RecognizerReady \/ NextSpeak
  \/ Recognized \/ Recognizing \/ BargeIn
  \/ HandleTranscript
  \/ \E i \in Slot : TurnStep(i) \/ TurnSounds(i)
  \/ LineDrops \/ StreamCloses

Spec == Init /\ [][Next]_vars

\* The event loop runs what is scheduled, the agent answers or its client times
\* out, utterances end, and ACS carries out a hang-up.  The callee may be silent.
Fairness ==
  /\ WF_vars(Greeting) /\ WF_vars(NextSpeak) /\ WF_vars(BargeIn) /\ WF_vars(HandleTranscript)
  /\ \A i \in Slot : WF_vars(TurnStep(i))
  /\ WF_vars(line = "ending" /\ LineDrops) /\ WF_vars(StreamCloses)

FairSpec == Spec /\ Fairness

-----------------------------------------------------------------------------
(* One turn at a time: a transcript that was scheduled while the agent was *)
(* not busy yet is dropped if another one became the turn.                 *)

Active == {i \in Slot : turn[i].stage # "idle"}

OneTurnAtATime == \A i, j \in Active : i = j

(* The echo guard ("ignore anything that lands while we're speaking"): the  *)
(* greeting and a turn talk at the same time only if a transcript was      *)
(* accepted before the greeting, or in the moment between two of its       *)
(* utterances, or after the callee had cut it short.                       *)

OneVoice ==
  \A i \in Slot :
    greeter.stage = "speaking" /\ turn[i].stage = "speaking" => spokeOver

(* "Reuse the existing brain [...] so SOP adherence [is] identical to the  *)
(* webhook path": the conversation moves along the SOP's edges, and from   *)
(* there to the end of a chain of speak steps.                             *)

Edges(t) == Def[t].branches \cup ({Def[t].next} \ {None}) \cup {"escalate_unclear"}

WalksInTurns ==
  [][LET from == ses.current_step
         to == ses'.current_step
     IN to # from => to = Opening(from).end
                     \/ \E e \in Edges(from) :
                          to = e \/ (e \in DOMAIN DefaultDef /\ to = Chain[e].end)]_vars

(* What those two properties rely on without the code checking it: every   *)
(* step of the call's definition says where it leads, or lists it, and     *)
(* what closes a call is known to the engine's own file too.               *)

StepsDecide == \A t \in DOMAIN Def : IsFixed(Def[t]) \/ IsBranching(Def[t])

VerdictsAreSpoken ==
  \A t \in DOMAIN Def \cup {"escalate_unclear"} :
    t = "escalate_unclear" \/ Def[t].outcome # None => t \in DOMAIN DefaultDef

(* A verdict is not revised while the callee hears it; only an utterance   *)
(* between the hang-up and the end of the line may start another turn --   *)
(* where the agent can hang up.                                            *)

VerdictStands ==
  [][ses.outcome # None /\ ses'.outcome # ses.outcome => line # "up" \/ ~KnowsConnection]_vars

(* A voice-to-voice sample pairs the audio that starts with the transcript *)
(* that its turn answers, with two exceptions: a transcript accepted while *)
(* another one waits takes over the mark, though it will be dropped; and a *)
(* greeting that was talked over takes the sample of the first answer.     *)

SampleIsOfTheTurn ==
  [][latency # NoTranscript /\ latency' = NoTranscript /\ ~overwritten
       => \/ \E i \in Active : latency = turn[i].heard
          \/ greeter.stage = "speaking" /\ spokeOver]_vars

-----------------------------------------------------------------------------
(* The agent does not stay busy: the guards that make it ignore the callee *)
(* are released, and not only for the moment between two utterances.       *)

BusyEnds == Busy ~> ~Busy /\ ~gap

(* "Hang up the ACS call so it doesn't sit in silence waiting on the        *)
(* callee": a conversation that reaches its verdict ends the call, where    *)
(* the session has its connection id.                                      *)

VerdictEndsCall == KnowsConnection /\ ses.outcome # None ~> line = "down"

=============================================================================
