----------------------------- MODULE MCWatchdog -----------------------------
(* Two monitors, the second of which is a heartbeat, and a file that is    *)
(* edited twice.                                                           *)
EXTENDS Watchdog

CONSTANTS m1, m2, bad

TwoMonitors == {m1, m2}
OneOrInvalid == {{m1}, {bad}}
=============================================================================
