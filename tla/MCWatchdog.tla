----------------------------- MODULE MCWatchdog -----------------------------
(* Two pages, a burst limit of two failures in four seconds, a backoff, a   *)
(* grace and a hang limit of one second; no subreaper.                      *)
EXTENDS Watchdog

CONSTANTS p1, p2
=============================================================================
