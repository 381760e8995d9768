----------------------------- MODULE CallServices -----------------------------
(***************************************************************************)
(* The calls of one orchestrator and the two HTTP services they depend on: *)
(* the agent that judges every answer of the callee, through the shared    *)
(* FoundryClient with its retries and its circuit breaker                  *)
(* (src/src/orchestrator/foundry_client.py), and the customer's webhook,   *)
(* through the OutcomeNotifier (outcome_notifier.py).  The agent is the    *)
(* rule-based one of src/src/agent/agent.py.  The handlers of the calls    *)
(* are those of CallHandlers; one event of a call follows the other.       *)
(*                                                                         *)
(* What the callee says is the set of the listed words it contains.        *)
(***************************************************************************)
EXTENDS CallHandlers

CONSTANTS
  Call,        \* calls in progress at one time
  Branches,    \* by ask step: its branches, in order
  Utterance    \* what a callee can say

Match == {"yes", "no", "action_taken", "no_action", "resolved", "follow_up",
          "need_help", "unclear"}

ASSUME ServicesAssumption ==
  /\ \A t \in DOMAIN Branches :
       Branches[t] \in Seq([match : Match, keywords : SUBSET STRING, next : StepId])
  /\ \A t \in DOMAIN Def : Def[t].type = "ask" =>
       /\ t \in DOMAIN Branches
       /\ Def[t].branches = {Branches[t][i].next : i \in DOMAIN Branches[t]}

VARIABLES
  call,        \* by call: its session, what it is doing, its request, its delivery
  failures,    \* FoundryClient._consecutive_failures
  open,        \* FoundryClient._circuit_open
  row          \* history: requests that failed in a row, up to the threshold

vars == <<call, failures, open, row>>
client == <<failures, open, row>>

Threshold == 3       \* _circuit_threshold
MaxTries == 2        \* _MAX_RETRIES
MaxSends == 4        \* an immediate attempt and one after each of RETRY_DELAYS

Answer == [next_step : StepId, should_escalate : BOOLEAN]
Trouble == [next_step |-> "escalate_unclear", should_escalate |-> TRUE]

Fresh == [session  |-> [current_step |-> "greeting", unclear_count |-> 0, outcome |-> None],
          doing    |-> "sop_speak",   \* the greeting is played
          try      |-> 0,             \* the attempt the request is at
          answer   |-> Trouble,       \* what the agent will answer to it
          unclear  |-> FALSE,         \* the callee's words fitted no branch
          sends    |-> 0,             \* posts to the customer's webhook
          accepted |-> FALSE]         \* the customer's webhook has accepted one

TypeOK ==
  /\ call \in [Call -> [session  : [current_step : StepId, unclear_count : 0..MaxUnclear,
                                    outcome : CallOutcome \cup {None}],
                        doing    : MediaContext \cup {"asking", "over", "stuck"},
                        try      : 0..MaxTries, answer : Answer, unclear : BOOLEAN,
                        sends    : 0..MaxSends, accepted : BOOLEAN]]
  /\ failures \in Nat /\ open \in BOOLEAN /\ row \in 0..Threshold

Init ==
  /\ call = [c \in Call |-> Fresh]
  /\ failures = 0 /\ open = FALSE /\ row = 0

-----------------------------------------------------------------------------
(* The agent (_reason_local).                                              *)

\* Words that stand for a kind of branch in every SOP (synonyms left out).
Fallback ==
  [yes          |-> {"yes", "yeah", "sure", "right", "aware", "know", "noticed", "ok"},
   no           |-> {"no", "nope", "not", "haven't", "didn't", "nothing"},
   action_taken |-> {"yes", "yeah", "sure", "checked", "done", "fixed", "handled",
                     "technician", "called", "working"},
   no_action    |-> {"no", "nope", "not yet", "haven't", "nobody", "didn't", "nothing"},
   resolved     |-> {"yes", "yeah", "sure", "resolved", "fixed", "handled", "done", "ok", "on it"},
   follow_up    |-> {"later", "call back", "again", "not sure"},
   need_help    |-> {"help", "send", "dispatch", "what"},
   unclear      |-> {"help", "send", "dispatch", "what"}]

Fits(branch, said) == said \cap (branch.keywords \cup Fallback[branch.match]) # {}

\* By ask step and utterance: the index of the first branch that fits, 0 if none.
FirstFit ==
  [step \in DOMAIN Branches |-> [said \in Utterance |->
     SelectInSeq(Branches[step], LAMBDA b : Fits(b, said))]]

UnclearBranch ==
  [step \in DOMAIN Branches |-> SelectInSeq(Branches[step], LAMBDA b : b.match = "unclear")]

\* Mutant: the step itself is proposed again, as the agent once did.
AskAgain(step) == [next_step |-> step, should_escalate |-> FALSE]

\* Nothing fits: the step's own unclear branch, or a person.
NoMatch(step) ==
  IF UnclearBranch[step] = 0 THEN Trouble
  ELSE LET to == Branches[step][UnclearBranch[step]].next IN
       IF to \notin DOMAIN Def THEN Trouble
       ELSE [next_step |-> to, should_escalate |-> Def[to].outcome = "escalate_human"]

ReasonLocal(step, said) ==
  IF step \notin DOMAIN Def THEN Trouble
  ELSE IF Def[step].type = "speak"
  THEN [next_step |-> IF Def[step].next \in DOMAIN Def THEN Def[step].next ELSE step,
        should_escalate |-> FALSE]
  ELSE IF FirstFit[step][said] = 0 THEN NoMatch(step)
  ELSE [next_step |-> Branches[step][FirstFit[step][said]].next, should_escalate |-> FALSE]

-----------------------------------------------------------------------------
(* A call.                                                                 *)

\* What a handler's command makes the call do next; a handler that raises
\* leaves it silent.
Doing(command) ==
  IF command = "hang_up" THEN "over" ELSE IF command = None THEN "stuck" ELSE command

Turn(c, result) ==
  call' = [call EXCEPT ![c].session = result.session, ![c].doing = Doing(result.command),
                       ![c].try = 0]

PlayEnds(c) ==
  /\ call[c].doing \in {"sop_speak", "sop_terminal"}
  /\ Turn(c, OnPlayCompleted(call[c].session, call[c].doing))
  /\ UNCHANGED client

\* The callee says nothing that is recognized.
Silence(c) ==
  /\ call[c].doing = "sop_ask"
  /\ Turn(c, OnRecognizeFailed(call[c].session))
  /\ UNCHANGED client

Answered(c, response) == Turn(c, OnAgentResponse(call[c].session, response))

\* The callee speaks: the request is sent, or refused by the circuit breaker.
Speaks(c, said) ==
  /\ call[c].doing = "sop_ask"
  /\ LET step == call[c].session.current_step IN
     IF open THEN Answered(c, Trouble)
     ELSE call' = [call EXCEPT ![c].doing = "asking", ![c].try = 1,
                               ![c].answer = ReasonLocal(step, said),
                               ![c].unclear = FirstFit[step][said] = 0]
  /\ UNCHANGED client

-----------------------------------------------------------------------------
(* FoundryClient.reason.  Requests of different calls overlap; one that    *)
(* was sent before the breaker opened may still close it.                  *)

\* Mutant: a success does not end the row of failures.
StillFailing == open' = FALSE /\ UNCHANGED failures

Succeeded == failures' = 0 /\ open' = FALSE

Failed(count) ==
  /\ failures' = count + 1
  /\ open' = (open \/ count + 1 >= Threshold)

Replies(c) ==
  /\ call[c].doing = "asking"
  /\ Succeeded /\ row' = 0
  /\ Answered(c, call[c].answer)

CountFailure == row' = IF row < Threshold THEN row + 1 ELSE row

\* Mutant: one attempt too many.
TriesTooOften(c) ==
  /\ call[c].doing = "asking" /\ call[c].try <= MaxTries
  /\ call' = [call EXCEPT ![c].try = @ + 1]
  /\ UNCHANGED client

\* Mutant: the attempts are not counted.
TriesForever(c) ==
  /\ call[c].doing = "asking"
  /\ call' = [call EXCEPT ![c].try = IF @ = MaxTries THEN 1 ELSE @ + 1]
  /\ UNCHANGED client

\* A timeout or an error status is tried again.
TriesAgain(c) ==
  /\ call[c].doing = "asking" /\ call[c].try < MaxTries
  /\ call' = [call EXCEPT ![c].try = @ + 1]
  /\ UNCHANGED client

\* The last attempt fails so, or any attempt in a way that is not tried again.
GivesUp(c) ==
  /\ call[c].doing = "asking"
  /\ Failed(failures) /\ CountFailure
  /\ Answered(c, Trouble)

\* The agent replies 200 with JSON that is no AgentResponse: the counters are
\* reset before the reply is validated, then the failure is counted.
RepliesMalformed(c) ==
  /\ call[c].doing = "asking"
  /\ failures' = 1 /\ open' = FALSE /\ CountFailure
  /\ Answered(c, Trouble)

-----------------------------------------------------------------------------
(* OutcomeNotifier._deliver, for the call that is over.                    *)

Delivering(c) == call[c].doing = "over" /\ ~call[c].accepted /\ call[c].sends < MaxSends

Send(c) ==
  /\ Delivering(c)
  /\ \E accepted \in BOOLEAN :
       call' = [call EXCEPT ![c].sends = @ + 1, ![c].accepted = accepted]
  /\ UNCHANGED client

Delivered(c) == call[c].accepted \/ call[c].sends = MaxSends

\* The call is done with, and another one takes its place.
NextCall(c) ==
  /\ call[c].doing = "over" /\ Delivered(c)
  /\ call' = [call EXCEPT ![c] = Fresh]
  /\ UNCHANGED client

-----------------------------------------------------------------------------

Request(c) == Replies(c) \/ TriesAgain(c) \/ GivesUp(c) \/ RepliesMalformed(c)

Listens(c) == Silence(c) \/ \E said \in Utterance : Speaks(c, said)

Next == \E c \in Call : PlayEnds(c) \/ Listens(c) \/ Request(c) \/ Send(c) \/ NextCall(c)

Spec == Init /\ [][Next]_vars

\* Playbacks end, recognition gives a result or fails by its time limit, the
\* HTTP client answers or times out, and deliveries are retried on a schedule.
Fairness ==
  \A c \in Call : WF_vars(PlayEnds(c) \/ Listens(c) \/ Request(c) \/ Send(c))

FairSpec == Spec /\ Fairness

-----------------------------------------------------------------------------
(* The breaker refuses requests only when the last three that ended, of    *)
(* whatever calls, all failed: "Circuit breaker open due to consecutive    *)
(* failures".                                                              *)

OpenMeansFailing == open => row = Threshold

(* "[...] follow the SOP step's own unclear branch [...] do NOT return     *)
(* request.current_step here [...] which made a single mishearing jump     *)
(* straight to a human" (_reason_local): what the agent and the engine     *)
(* make together of an answer that fits nothing.                           *)

MishearingIsRetried ==
  [][\A c \in Call :
       call[c].unclear /\ Replies(c)
         => LET step == call[c].session.current_step
                branches == Branches[step] IN
            \A i \in DOMAIN branches :
              branches[i].match = "unclear"
                => call'[c].session.current_step = branches[i].next]_vars

(* What the SOP has to say for that, and nobody checks: a step that the    *)
(* engine takes for a question is one for the agent too, a step has one    *)
(* unclear branch at most, it leads to a step that both know, and where    *)
(* that hands over to a person it is the engine's own way to do so.        *)

OneWayOut ==
  /\ \A t \in DOMAIN DefaultDef :
       DefaultDef[t].type = "ask" => t \in DOMAIN Def /\ Def[t].type = "ask"
  /\ \A t \in DOMAIN Branches : \A i, j \in DOMAIN Branches[t] :
       /\ Branches[t][i].match = "unclear"
       /\ Branches[t][j].match = "unclear"
       => LET to == Branches[t][i].next IN
          /\ to = Branches[t][j].next
          /\ to \in DOMAIN Def \cap DOMAIN DefaultDef
          /\ Def[to].outcome = "escalate_human" => to = "escalate_unclear"

(* Whatever the services do, every call comes to an end with an outcome,   *)
(* and its webhook is told or was tried as often as promised.              *)

CallsConclude ==
  \A c \in Call :
    call[c] = Fresh ~> call[c].session.outcome # None /\ Delivered(c)

=============================================================================
