-------------------------- MODULE MCTimedContexts --------------------------
(* Small instances of TimedContexts for TLC. *)
EXTENDS TimedContexts, TLC
CONSTANTS c1, c2, precise, idle

OnFirst == [t \in Timers |-> c1]
PreciseAndIdle == [t \in Timers |-> IF t = idle THEN "Idle" ELSE "Precision"]
TwoAndOne == [t \in Timers |-> IF t = idle THEN 1 ELSE 2]
ThreeForIdle == [t \in Timers |-> IF t = idle THEN 3 ELSE 2]
=============================================================================
