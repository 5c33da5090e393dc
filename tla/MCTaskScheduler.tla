--------------------------- MODULE MCTaskScheduler ---------------------------
(* Values for the constants of TaskScheduler, for TLC. *)
EXTENDS TaskScheduler

CONSTANTS cleanup, purge, s1, s2

\* An hourly and a daily task, in ticks that keep the two intervals apart.
Intervals == [n \in Task |-> IF n = cleanup THEN 3 ELSE 4]

=============================================================================
