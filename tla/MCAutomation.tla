---------------------------- MODULE MCAutomation ----------------------------
(***************************************************************************)
(* Days of four ticks; sun streams before, at and after their event.  A    *)
(* reading without power, one between the two thresholds and one above.    *)
(* Two lights with a settle timer each at most, the reconcile-all timer    *)
(* and a spare handle.                                                     *)
(***************************************************************************)
EXTENDS Automation, TLC

MCEventAt == [sunrise |-> 1, sunset |-> 3, daily |-> 2]
MCOffsets == {-1, 0, 1}
MCEarly == {-1}
MCReadings == {-1, 6, 20}
=============================================================================
