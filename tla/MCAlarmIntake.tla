----------------------------- MODULE MCAlarmIntake -----------------------------
(***************************************************************************)
(* AlarmIntake on two alarms.  An intent of the first may be delivered     *)
(* several times, or be followed by another one (outside the window of the *)
(* broker's duplicate detection); the other alarm has no contact.          *)
(***************************************************************************)
EXTENDS AlarmIntake, TLC

CONSTANTS a1, a2

MCTwo == {"first", "no_contact"}
MCTwice == {"first", "again"}

MCAlarmOf == [m \in Message |-> IF m = "no_contact" THEN a2 ELSE a1]
MCUnprocessable == Message \cap {"no_contact"}
=============================================================================
