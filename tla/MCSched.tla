------------------------------- MODULE MCSched -------------------------------
(* Two user tasks beside the idle task.  MCSchedSafe.cfg is for safety,  *)
(* MCSchedLive.cfg for liveness.                                           *)
EXTENDS Sched

OneSignal == {SIGALRM}
TwoSignals == {SIGKILL, SIGALRM}
NiceArgs == {-1, 1}
MaskArgs == {{SIGALRM}}
=============================================================================
