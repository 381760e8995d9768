------------------------------ MODULE RetryRecord ------------------------------
(***************************************************************************)
(* The retry record of an alarm (src/src/orchestrator/retry_store.py) and  *)
(* the decision RetryManager bases on it whether to call                   *)
(* (src/src/orchestrator/retry_manager.py).                                *)
(***************************************************************************)
EXTENDS CallModels, Naturals, Sequences

CONSTANT MaxRetries   \* RetryManager's max_retries

ASSUME RetryAssumption == MaxRetries \in Nat

Record == [attempts : Seq(CallOutcome), final : CallOutcome \cup {None}]

\* What get returns for an alarm that the store does not know.
NoRecord == [attempts |-> << >>, final |-> "unknown"]

FreshRecord == [attempts |-> << >>, final |-> None]

Decisive == {"resolved", "escalate_human"}

ShouldRetry(record) == record.final \notin Decisive /\ Len(record.attempts) < MaxRetries

\* The attempt is appended before should_retry is asked.
RecordAttempt(record, outcome) ==
  LET appended == [record EXCEPT !.attempts = Append(@, outcome)] IN
  IF outcome \in Decisive THEN [appended EXCEPT !.final = outcome]
  ELSE IF ShouldRetry(appended) THEN appended
  ELSE [appended EXCEPT !.final = "escalate_human"]

\* Mutant: only the number of attempts is asked for.
CountAttempts(record, inCallWindow) == Len(record.attempts) <= MaxRetries /\ inCallWindow

\* should_attempt_call.
ShouldAttemptCall(record, inCallWindow) == ShouldRetry(record) /\ inCallWindow
=============================================================================
