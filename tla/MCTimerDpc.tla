----------------------------- MODULE MCTimerDpc -----------------------------
(* Instances of TimerDpc for TLC: the DPC d1 sets the event e1; the routine *)
(* of d2, if there is a d2, is one process_dpcs passes over.                *)
EXTENDS TimerDpc

CONSTANTS d1, e1
RoutineOf == [d \in Dpc |-> IF d = d1 THEN "sets" ELSE "invalid"]
EventOf == [d \in Dpc |-> e1]
=============================================================================
