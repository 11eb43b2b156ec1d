------------------------------ MODULE MCNTimer ------------------------------
(* Small instances of NTimer for TLC. *)
EXTENDS NTimerProperties, TLC

CONSTANTS k1, k2

AllTimerCalls == {"schedule_event", "unschedule_event", "set_paused", "destroy", "spurious_wakeup"}
=============================================================================
