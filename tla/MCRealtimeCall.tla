---------------------------- MODULE MCRealtimeCall ----------------------------
(* RealtimeCall with the configurations and reports that make a difference. *)
EXTENDS RealtimeCall

\* The shipped configuration, and one that greets at once and interrupts on the
\* first sound, on a connection to the model that can break.
MCConfig ==
  {[wait_for_caller |-> TRUE, barge_in |-> "confirm", may_drop |-> FALSE],
   [wait_for_caller |-> FALSE, barge_in |-> "eager", may_drop |-> TRUE]}

\* Two reports that contradict each other, and one that names no outcome.
MCReport == {"resolved", "escalate_human", None}
=============================================================================
