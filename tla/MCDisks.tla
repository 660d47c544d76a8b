------------------------------ MODULE MCDisks ------------------------------
(* The drivers of the hard disk and of the floppy drives and the kernel    *)
(* timers.  They share no state but the timers, so a behaviour exercises   *)
(* one of them, its subject; "timers" are the timers with other clients    *)
(* than the floppy driver.                                                 *)
EXTENDS Hd, Floppy

CONSTANTS r1, r2

VARIABLE subject

disksVars == <<subject, hdVars, fdVars>>

\* one request for the first drive, one for the second
MCFdAsk == [r \in FdRequests |-> IF r = r1 THEN {<<0, 1>>} ELSE {<<1, 1>>, <<1, FdBad>>}]

Init == HdInit /\ FdInit /\ subject \in {"hd", "floppy", "timers"}

Next ==
  /\ UNCHANGED subject
  /\ \/ subject = "hd" /\ HdNext /\ UNCHANGED fdVars
     \/ subject = "floppy" /\ FdNext /\ UNCHANGED hdVars
     \/ subject = "timers" /\ TimerNext
        /\ UNCHANGED <<hdVars, fdReq, fdQueue, fd, motor, fdc, chg>>

\* the drivers' code runs to its end, the drives and the controller answer every
\* command, and the clock ticks
Spec ==
  /\ Init /\ [][Next]_disksVars
  /\ WF_hdVars(subject = "hd" /\ DoHdRequest) /\ WF_hdVars(subject = "hd" /\ HdInterrupt)
  /\ WF_fdVars(subject = "floppy" /\ FdRuns) /\ WF_fdVars(subject = "floppy" /\ FdInterrupt)
  /\ WF_fdVars(subject = "floppy" /\ FdClock)

----------------------------------------------------------------------------
DisksTypeOK == HdTypeOK /\ FdTypeOK /\ TimerTypeOK

\* Every request ends, whatever fails and however often: a failed one is retried,
\* after a reset or a recalibration, at most MAX_ERRORS times.  (A hard disk
\* controller that is not ready stops the machine.)
DiskRequestsEnd == HdRequestsEnd /\ FdRequestsEnd
=============================================================================
