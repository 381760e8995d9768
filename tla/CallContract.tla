----------------------------- MODULE CallContract -----------------------------
(***************************************************************************)
(* What one call promises to the rest of the system, whatever the webhook  *)
(* handlers go through: it is placed or it fails; a placed call ends with  *)
(* one outcome, recorded against its alarm once; and it is then closed     *)
(* once, which is when its result is handed to the outcome webhook.        *)
(***************************************************************************)
CONSTANT Outcome

VARIABLES
  phase,      \* where the call is in its life
  verdicts,   \* the outcomes recorded in the retry store for this call
  posts       \* how many results were handed to the outcome webhook

vars == <<phase, verdicts, posts>>

Init == phase = "idle" /\ verdicts = << >> /\ posts = 0

Place == phase = "idle" /\ phase' = "open" /\ UNCHANGED <<verdicts, posts>>

PlaceFails ==
  phase = "idle" /\ phase' = "failed" /\ verdicts' = <<"failed">> /\ UNCHANGED posts

\* The call ends and its outcome is recorded; it may still wait for its recording.
End ==
  /\ phase = "open"
  /\ phase' = "ended"
  /\ \E o \in Outcome : verdicts' = <<o>>
  /\ UNCHANGED posts

Close == phase = "ended" /\ phase' = "closed" /\ posts' = 1 /\ UNCHANGED verdicts

EndAndClose ==
  /\ phase = "open"
  /\ phase' = "closed"
  /\ \E o \in Outcome : verdicts' = <<o>>
  /\ posts' = 1

Next == Place \/ PlaceFails \/ End \/ Close \/ EndAndClose

Spec == Init /\ [][Next]_vars
=============================================================================
