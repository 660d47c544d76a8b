------------------------------- MODULE Floppy -------------------------------
(***************************************************************************)
(* The floppy driver (kernel/blk_drv/floppy.c), the motor timers of        *)
(* kernel/sched.c it shares with floppy_change(), and the kernel timers.   *)
(*                                                                         *)
(* The driver's functions end by calling one another, in an interrupt or   *)
(* in add_request(), and nothing else runs until the last returns: fd.pc   *)
(* names the function still to be run.  One process calls floppy_change(); *)
(* it sleeps in the middle.                                                *)
(*                                                                         *)
(* The controller is external: it answers every command with one interrupt *)
(* and any status within FdOpTicks ticks, and is FdFaults times unable to  *)
(* take a byte or to give its result.  All diskettes are of one type, so   *)
(* fd.spec stands for cur_spec1 and cur_rate; a request is for a track.    *)
(***************************************************************************)
EXTENDS Timer

CONSTANTS
  FdRequests, FdDrives,
  FdAsk,          \* drives and tracks each request may be for
  FdTracks,       \* tracks of a diskette
  FdBad,          \* a track it does not have
  FdMaxErrors,    \* MAX_ERRORS
  FdSpinUp,       \* HZ/2
  FdOffDelay,     \* 3*HZ
  FdOpTicks, FdFaults,
  FdChanges,      \* calls of floppy_change()
  FdAnyTime       \* whether a request may come while the driver, without one,
                  \* still resets or recalibrates after the last

ASSUME FdAssumption ==
  /\ FdDrives # {} /\ FdTracks # {} /\ FdTracks \subseteq Nat /\ FdBad \in Nat \ FdTracks
  /\ FdMaxErrors \in Nat /\ FdFaults \in Nat /\ FdChanges \in Nat /\ FdAnyTime \in BOOLEAN
  /\ FdSpinUp \in Nat /\ FdSpinUp >= 2 /\ FdOpTicks \in Nat /\ FdOffDelay \in Nat
  \* selecting, seeking and transferring take less time than the motor runs on
  /\ FdOffDelay >= 2 + 2 * FdOpTicks

VARIABLES
  fdReq, fdQueue, \* requests; CURRENT and those behind it
  fd,             \* the driver's globals: reset, recalibrate, seek, cur_spec1,
                  \* current_drive, seek_track, current_track, do_floppy; and pc
  motor,          \* selected, current_DOR (sel, on), mon_timer, moff_timer, and
                  \* spun, history: ticks each motor has been on
  fdc,            \* the controller's command, its age, and the faults left to it
  chg             \* the process in floppy_change()

fdVars == <<fdReq, fdQueue, fd, motor, fdc, chg, timerVars>>

Forever == FdOffDelay + 1     \* 10000, "100 s = very big"; does not run down
AnyDrive == CHOOSE d \in FdDrives : TRUE

FdTypeOK ==
  /\ fdReq \in [FdRequests -> [state : {"new", "queued", "ok", "failed"}, drive : FdDrives,
                               track : FdTracks \cup {FdBad}, errors : 0 .. FdMaxErrors + 1]]
  /\ Range(fdQueue) = {r \in FdRequests : fdReq[r].state = "queued"}
  /\ fd \in [reset : BOOLEAN, recal : BOOLEAN, seek : BOOLEAN, spec : BOOLEAN, drive : FdDrives,
             seek_track : FdTracks, current_track : FdTracks \cup {0, 255},
             do_floppy : {"none", "rw", "seek", "recal", "reset"},
             pc : {"idle", "do_fd_request", "repeat", "floppy_on_interrupt", "transfer", "setup_rw"}]
  /\ motor \in [selected : BOOLEAN, sel : FdDrives, on : SUBSET FdDrives,
                mon : [FdDrives -> 0 .. FdSpinUp], moff : [FdDrives -> 0 .. Forever],
                spun : [FdDrives -> 0 .. FdSpinUp]]
  /\ fdc \in [kind : {"none", "rw", "seek", "recal", "reset"}, age : 0 .. FdOpTicks,
              faults : 0 .. FdFaults]
  /\ chg \in [pc : {"out", "on", "motor", "test", "nap", "asleep"}, nr : FdDrives,
              left : 0 .. FdChanges]

FdInit ==
  /\ fdReq = [r \in FdRequests |->
                [state |-> "new", drive |-> AnyDrive, track |-> FdBad, errors |-> 0]]
  /\ fdQueue = <<>>
  /\ fd = [reset |-> FALSE, recal |-> FALSE, seek |-> FALSE, spec |-> FALSE, drive |-> AnyDrive,
           seek_track |-> CHOOSE t \in FdTracks : TRUE, current_track |-> 255,
           do_floppy |-> "none", pc |-> "idle"]
  /\ motor = [selected |-> FALSE, sel |-> AnyDrive, on |-> {},
              mon |-> [d \in FdDrives |-> 0], moff |-> [d \in FdDrives |-> 0],
              spun |-> [d \in FdDrives |-> 0]]
  /\ fdc = [kind |-> "none", age |-> 0, faults |-> FdFaults]
  /\ chg = [pc |-> "out", nr |-> AnyDrive, left |-> FdChanges]
  /\ TimerInit

\* between two interrupts
ProcessRuns == fd.pc = "idle" /\ timerPc = "idle"

----------------------------------------------------------------------------
(* kernel/sched.c *)

\* ticks_to_floppy_on(), which returns mon[nr]; meanwhile the motor is not turned off
MutKeptOn(m, nr) == m
KeptOn(m, nr) == [m EXCEPT !.moff[nr] = Forever]
TicksToFloppyOn(nr) ==
  LET sel == IF motor.selected THEN motor.sel ELSE nr
      mon == IF nr \notin motor.on THEN FdSpinUp
             ELSE IF sel # motor.sel /\ motor.mon[nr] < 2 THEN 2
             ELSE motor.mon[nr]
  IN KeptOn([motor EXCEPT !.sel = sel, !.on = @ \cup {nr}, !.mon[nr] = mon], nr)

\* floppy_off()
FloppyOff(m, nr) == [m EXCEPT !.moff[nr] = FdOffDelay]

\* do_floppy_timer()
DoFloppyTimer ==
  LET off == {d \in motor.on : motor.mon[d] = 0 /\ motor.moff[d] = 0}
      Less(n, runs) == IF runs /\ n > 0 THEN n - 1 ELSE n
  IN [motor EXCEPT
        !.on = @ \ off,
        !.mon = [d \in FdDrives |-> Less(@[d], d \in motor.on)],
        !.moff = [d \in FdDrives |->
                    Less(@[d], d \in motor.on /\ motor.mon[d] = 0 /\ @[d] # Forever)],
        !.spun = [d \in FdDrives |-> IF d \in off THEN 0
                                     ELSE IF d \in motor.on /\ @[d] < FdSpinUp THEN @[d] + 1
                                     ELSE @[d]]]

\* a clock tick; the controller answers in time
FdTick ==
  /\ fd.pc = "idle" /\ fdc.age < FdOpTicks
  /\ Tick
  /\ fdc' = IF fdc.kind = "none" THEN fdc ELSE [fdc EXCEPT !.age = @ + 1]
  /\ UNCHANGED <<fdReq, fdQueue, fd, motor, chg>>

FdExpire(fn) ==
  /\ fd.pc = "idle"
  /\ Expire(fn)
  /\ fd' = [fd EXCEPT !.pc = fn]
  /\ UNCHANGED <<fdReq, fdQueue, motor, fdc, chg>>

\* the end of do_timer(), with the wake_up() of wait_motor
FdTickDone ==
  /\ fd.pc = "idle"
  /\ TickDone
  /\ motor' = DoFloppyTimer
  /\ chg' = IF chg.pc = "motor" /\ motor.mon[chg.nr] = 1 THEN [chg EXCEPT !.pc = "on"] ELSE chg
  /\ UNCHANGED <<fdReq, fdQueue, fd, fdc>>

----------------------------------------------------------------------------
(* floppy_change(), in the process that calls it *)

FloppyChange(nr) ==
  /\ ProcessRuns /\ chg.pc = "out" /\ chg.left > 0
  /\ chg' = [pc |-> "on", nr |-> nr, left |-> chg.left - 1]
  /\ UNCHANGED <<fdReq, fdQueue, fd, motor, fdc, timerVars>>

\* floppy_on(): sleeps until the motor turns; tests with interrupts off
FloppyOn ==
  /\ ProcessRuns /\ chg.pc = "on"
  /\ motor' = TicksToFloppyOn(chg.nr)
  /\ chg' = [chg EXCEPT !.pc = IF motor'.mon[chg.nr] > 0 THEN "motor" ELSE "test"]
  /\ UNCHANGED <<fdReq, fdQueue, fd, fdc, timerVars>>

\* the test of the inner loop, and what follows it; FD_DIR is read and dropped
ChangeTest ==
  /\ ProcessRuns /\ chg.pc = "test"
  /\ IF motor.sel = chg.nr
       THEN chg' = [chg EXCEPT !.pc = "out"] /\ motor' = FloppyOff(motor, chg.nr)
       ELSE /\ chg' = [chg EXCEPT !.pc = IF motor.selected THEN "nap" ELSE "on"]
            /\ UNCHANGED motor
  /\ UNCHANGED <<fdReq, fdQueue, fd, fdc, timerVars>>

\* interruptible_sleep_on(), entered with interrupts on, and a signal that ends it
ChangeSleeps ==
  /\ ProcessRuns /\ chg.pc \in {"nap", "asleep"}
  /\ chg' = [chg EXCEPT !.pc = IF @ = "nap" THEN "asleep" ELSE "test"]
  /\ UNCHANGED <<fdReq, fdQueue, fd, motor, fdc, timerVars>>

----------------------------------------------------------------------------
(* kernel/blk_drv/floppy.c *)

FdCurrent == Head(fdQueue)

\* add_request(): behind CURRENT the elevator may choose any place
FdAddRequest(r, d, t) ==
  /\ ProcessRuns /\ fdReq[r].state = "new"
  /\ <<d, t>> \in FdAsk[r]
  /\ fdQueue # <<>> \/ fdc.kind = "none" \/ FdAnyTime
  /\ fdReq' = [fdReq EXCEPT ![r] = [state |-> "queued", drive |-> d, track |-> t, errors |-> 0]]
  /\ IF fdQueue = <<>>
       THEN fdQueue' = <<r>> /\ fd' = [fd EXCEPT !.pc = "do_fd_request"]
       ELSE /\ \E i \in 2 .. Len(fdQueue) + 1 : fdQueue' = InsertAt(fdQueue, i, r)
            /\ UNCHANGED fd
  /\ UNCHANGED <<motor, fdc, chg, timerVars>>

\* output_byte(): the controller takes a command, or reset is set; either way
\* the driver's globals become g, and do_fd_request() is called after a failure
FdSend(kind, g) ==
  \/ fd' = [g EXCEPT !.pc = "idle"] /\ fdc' = [fdc EXCEPT !.kind = kind, !.age = 0]
  \/ /\ fdc.faults > 0 /\ fdc' = [fdc EXCEPT !.faults = @ - 1]
     /\ fd' = [g EXCEPT !.reset = TRUE, !.pc = "do_fd_request"]

\* reset_floppy()
ResetFloppy ==
  /\ fd.pc = "do_fd_request" /\ fd.reset
  /\ fd' = [fd EXCEPT !.reset = FALSE, !.recal = TRUE, !.seek = FALSE, !.spec = FALSE,
                      !.do_floppy = "reset", !.pc = "idle"]
  /\ fdc' = [fdc EXCEPT !.kind = "reset", !.age = 0]
  /\ UNCHANGED <<fdReq, fdQueue, motor, chg, timerVars>>

\* recalibrate_floppy()
RecalibrateFloppy ==
  /\ fd.pc = "do_fd_request" /\ ~fd.reset /\ fd.recal
  /\ FdSend("recal", [fd EXCEPT !.recal = FALSE, !.seek = FALSE, !.current_track = 0,
                                !.do_floppy = "recal"])
  /\ UNCHANGED <<fdReq, fdQueue, motor, chg, timerVars>>

\* end_request(), with floppy_off()
FdEnd(req, ok) == [req EXCEPT ![FdCurrent].state = IF ok THEN "ok" ELSE "failed"]

\* the rest of do_fd_request(): no request, one out of range, or one to be served
FdNoRequest ==
  /\ fd.pc \in {"do_fd_request", "repeat"} /\ ~fd.reset /\ ~fd.recal /\ fdQueue = <<>>
  /\ fd' = [fd EXCEPT !.seek = FALSE, !.pc = "idle"]
  /\ UNCHANGED <<fdReq, fdQueue, motor, fdc, chg, timerVars>>

Moved(drive) == (fd.pc = "repeat" /\ fd.seek) \/ fd.drive # drive

FdRefuse ==
  /\ fd.pc \in {"do_fd_request", "repeat"} /\ ~fd.reset /\ ~fd.recal /\ fdQueue # <<>>
  /\ LET c == fdReq[FdCurrent]
     IN /\ c.track = FdBad
        /\ fd' = [fd EXCEPT !.seek = Moved(c.drive), !.drive = c.drive, !.pc = "repeat"]
        /\ motor' = FloppyOff(motor, c.drive)
  /\ fdReq' = FdEnd(fdReq, FALSE) /\ fdQueue' = Tail(fdQueue)
  /\ UNCHANGED <<fdc, chg, timerVars>>

FdServe ==
  /\ fd.pc \in {"do_fd_request", "repeat"} /\ ~fd.reset /\ ~fd.recal /\ fdQueue # <<>>
  /\ LET c == fdReq[FdCurrent]
         ticks == motor'.mon[c.drive]
     IN /\ c.track # FdBad
        /\ motor' = TicksToFloppyOn(c.drive)
        /\ fd' = [fd EXCEPT !.seek = Moved(c.drive) \/ c.track # fd.current_track,
                            !.drive = c.drive, !.seek_track = c.track,
                            !.pc = IF ticks = 0 THEN "floppy_on_interrupt" ELSE "idle"]
        /\ timers' = IF ticks = 0 THEN timers
                     ELSE AddTimer(timers, ticks, "floppy_on_interrupt")
  /\ UNCHANGED <<fdReq, fdQueue, fdc, chg, timerPc>>

\* floppy_on_interrupt()
FloppyOnInterrupt ==
  /\ fd.pc = "floppy_on_interrupt"
  /\ motor' = [motor EXCEPT !.selected = TRUE, !.sel = fd.drive]
  /\ IF motor.sel # fd.drive
       THEN timers' = AddTimer(timers, 2, "transfer") /\ fd' = [fd EXCEPT !.pc = "idle"]
       ELSE UNCHANGED timers /\ fd' = [fd EXCEPT !.pc = "transfer"]
  /\ UNCHANGED <<fdReq, fdQueue, fdc, chg, timerPc>>

\* transfer(): FD_SPECIFY if need be, then setup_rw_floppy() or a seek
Transfer ==
  /\ fd.pc = "transfer"
  /\ \/ /\ ~fd.reset /\ fd.seek
        /\ FdSend("seek", [fd EXCEPT !.spec = TRUE, !.do_floppy = "seek"])
     \/ /\ fd.reset \/ ~fd.seek
        /\ fd' = [fd EXCEPT !.spec = TRUE, !.pc = IF fd.reset THEN "do_fd_request" ELSE "setup_rw"]
        /\ UNCHANGED fdc
     \/ /\ ~fd.spec /\ fdc.faults > 0
        /\ fdc' = [fdc EXCEPT !.faults = @ - 1]
        /\ fd' = [fd EXCEPT !.spec = TRUE, !.reset = TRUE, !.pc = "do_fd_request"]
  /\ UNCHANGED <<fdReq, fdQueue, motor, chg, timerVars>>

\* setup_rw_floppy()
SetupRw ==
  /\ fd.pc = "setup_rw"
  /\ FdSend("rw", [fd EXCEPT !.do_floppy = "rw"])
  /\ UNCHANGED <<fdReq, fdQueue, motor, chg, timerVars>>

\* floppy_deselect(), end_request(): the wake_up(), and the motor runs on for a while
FdFinish(req, ok) ==
  /\ fdReq' = FdEnd(req, ok) /\ fdQueue' = Tail(fdQueue)
  /\ motor' = [FloppyOff(motor, req[FdCurrent].drive) EXCEPT !.selected = FALSE]
  /\ chg' = IF chg.pc = "asleep" THEN [chg EXCEPT !.pc = "test"] ELSE chg

\* CURRENT->errors without a request: see Hd
FdNullErrors == 12295

\* bad_flp_intr(), with the driver's globals g
BadFlpIntr(g) ==
  LET e == fdReq[FdCurrent].errors + 1
      req == [fdReq EXCEPT ![FdCurrent].errors = e]
      q == IF e > FdMaxErrors THEN Tail(fdQueue) ELSE fdQueue
      seen == IF q = <<>> THEN FdNullErrors ELSE req[Head(q)].errors
  IN /\ IF e > FdMaxErrors THEN FdFinish(req, FALSE)
        ELSE fdReq' = req /\ UNCHANGED <<fdQueue, motor, chg>>
     /\ fd' = [g EXCEPT !.reset = @ \/ seen > FdMaxErrors \div 2,
                        !.recal = @ \/ seen <= FdMaxErrors \div 2]

\* floppy_interrupt calls the handler that is armed
FdIntr(handler) ==
  /\ ProcessRuns /\ fdc.kind = handler /\ fd.do_floppy = handler
  /\ UNCHANGED timerVars

MutCalled == [fd EXCEPT !.do_floppy = "none"]
Called == [fd EXCEPT !.do_floppy = "none", !.pc = "do_fd_request"]
Answered == [fdc EXCEPT !.kind = "none", !.age = 0]
Silent == [Answered EXCEPT !.faults = @ - 1]

\* the controller reports an error; or result() gives up, which sets reset too
FdStatusBad ==
  \/ fdc' = Answered /\ BadFlpIntr(Called)
  \/ fdc.faults > 0 /\ fdc' = Silent /\ BadFlpIntr([Called EXCEPT !.reset = TRUE])

\* seek_interrupt()
SeekInterrupt ==
  /\ FdIntr("seek")
  /\ \/ /\ fd' = [Called EXCEPT !.current_track = fd.seek_track, !.pc = "setup_rw"]
        /\ fdc' = Answered
        /\ UNCHANGED <<fdReq, fdQueue, motor, chg>>
     \/ FdStatusBad

\* rw_interrupt(): done, write protected, or an error
RwInterrupt ==
  /\ FdIntr("rw")
  /\ \/ fd' = Called /\ fdc' = Answered /\ \E ok \in BOOLEAN : FdFinish(fdReq, ok)
     \/ FdStatusBad

\* recal_interrupt() and reset_interrupt(): what goes wrong here is not counted
RecalInterrupt ==
  /\ \/ FdIntr("recal") /\ fd' = [Called EXCEPT !.recal = FALSE] /\ fdc' = Answered
     \/ FdIntr("reset") /\ fd' = Called /\ fdc' = Answered
     \/ /\ FdIntr("recal") \/ FdIntr("reset")
        /\ fdc.faults > 0 /\ fdc' = Silent /\ fd' = [Called EXCEPT !.reset = TRUE]
  /\ UNCHANGED <<fdReq, fdQueue, motor, chg>>

\* unexpected_floppy_interrupt(), while no command is out
UnexpectedFloppy ==
  /\ ProcessRuns /\ fdc.kind = "none" /\ fd.do_floppy = "none" /\ fdc.faults > 0
  /\ fdc' = Silent
  /\ \/ fd' = [fd EXCEPT !.reset = TRUE]
     \/ fd' = [fd EXCEPT !.recal = TRUE]
  /\ UNCHANGED <<fdReq, fdQueue, motor, chg, timerVars>>

FdInterrupt == SeekInterrupt \/ RwInterrupt \/ RecalInterrupt
FdRuns ==
  \/ ResetFloppy \/ RecalibrateFloppy \/ FdNoRequest \/ FdRefuse \/ FdServe
  \/ FloppyOnInterrupt \/ Transfer \/ SetupRw
FdClock == FdTick \/ FdTickDone \/ \E fn \in {"floppy_on_interrupt", "transfer"} : FdExpire(fn)

FdNext ==
  \/ \E r \in FdRequests, d \in FdDrives, t \in FdTracks \cup {FdBad} : FdAddRequest(r, d, t)
  \/ \E d \in FdDrives : FloppyChange(d)
  \/ FloppyOn \/ ChangeTest \/ ChangeSleeps
  \/ FdRuns \/ FdInterrupt \/ UnexpectedFloppy \/ FdClock

----------------------------------------------------------------------------
\* The controller seeks and transfers only on the drive of the request that is
\* being served, with that drive selected and its motor at speed ("everything
\* should be correctly set up for the transfer (ie floppy motor is on and the
\* correct floppy is selected)"), although floppy_change() turns on and selects
\* other drives at any time and releases this one's motor behind its back.
FdReady ==
  fdc.kind \in {"seek", "rw"} \/ fd.pc = "setup_rw" =>
    /\ fdQueue # <<>> /\ fd.drive = fdReq[FdCurrent].drive
    /\ motor.sel = fd.drive /\ fd.drive \in motor.on
    /\ motor.spun[fd.drive] >= FdSpinUp - 1

\* Every request ends, through errors, resets, recalibrations and spurious
\* interrupts, as long as the controller is out of reach only finitely often.
FdRequestsEnd ==
  \A r \in FdRequests : fdReq[r].state = "queued" ~> fdReq[r].state \in {"ok", "failed"}
=============================================================================
