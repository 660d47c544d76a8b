-------------------------------- MODULE Hd --------------------------------
(***************************************************************************)
(* The hard disk driver (kernel/blk_drv/hd.c) below the request list: one  *)
(* drive, one partition.  do_hd_request() is always the last thing an      *)
(* interrupt handler or add_request() does, and nothing else runs before   *)
(* it returns, so hdPc says that it still has to run; each of its "goto    *)
(* repeat" is a step.                                                      *)
(*                                                                         *)
(* The drive is external: it serves the command it has, sector after       *)
(* sector, and raises one interrupt per sector or command, with any        *)
(* status.  A write command it does not accept (no DRQ) raises none.       *)
(***************************************************************************)
EXTENDS Integers, Sequences, SequencesExt

CONSTANTS
  HdRequests,    \* the requests that are made, each once
  HdSectors,     \* first sectors they may ask for
  HdNrSects,     \* nr_sects of the partition
  HdMaxErrors    \* MAX_ERRORS

ASSUME HdAssumption ==
  /\ HdSectors \subseteq Nat /\ HdNrSects \in Nat
  /\ HdMaxErrors \in Nat \ {0}

VARIABLES
  hdReq,     \* each request; start is the first sector asked for, buf how many
             \* sectors its buffer pointer has advanced
  hdQueue,   \* CURRENT and the requests behind it
  doHd,      \* do_hd, the handler of the next interrupt
  hdReset, hdRecal,
  hdDrive,   \* the drive's command, its sector, and the buffer of a write
  hdData,    \* history: pairs <<sector, place in the buffer>> transferred
  hdPc       \* "request": do_hd_request() has to run; "panic": halted

hdVars == <<hdReq, hdQueue, doHd, hdReset, hdRecal, hdDrive, hdData, hdPc>>

NoRequest == [state |-> "new", cmd |-> "READ", start |-> 0, sector |-> 0, nr |-> 2,
              buf |-> 0, errors |-> 0]
DriveIdle == [cmd |-> "none", sector |-> 0, left |-> 0, buf |-> 0]

\* struct request with the state of its buffer (blk.h), and the driver's globals
HdTypeOK ==
  /\ hdReq \in [HdRequests ->
       [state : {"new", "queued", "ok", "failed"}, cmd : {"READ", "WRITE"},
        start : HdSectors \cup {0}, sector : Nat, nr : 0 .. 2, buf : 0 .. 2,
        errors : 0 .. HdMaxErrors]]
  /\ hdQueue \in Seq(HdRequests) /\ IsInjective(hdQueue)
  /\ Range(hdQueue) = {r \in HdRequests : hdReq[r].state = "queued"}
  /\ doHd \in {"none", "read_intr", "write_intr", "recal_intr"}
  /\ hdReset \in BOOLEAN /\ hdRecal \in BOOLEAN
  /\ hdDrive \in [cmd : {"none", "READ", "WRITE", "SPECIFY", "RESTORE"}, sector : Nat,
                  left : 0 .. 2, buf : 0 .. 2]
  /\ hdData \in [HdRequests -> SUBSET (Nat \X (0 .. 1))]
  /\ hdPc \in {"idle", "request", "panic"}

HdInit ==
  /\ hdReq = [r \in HdRequests |-> NoRequest]
  /\ hdQueue = <<>> /\ doHd = "none"
  /\ hdReset = TRUE /\ hdRecal = TRUE
  /\ hdDrive = DriveIdle
  /\ hdData = [r \in HdRequests |-> {}]
  /\ hdPc = "idle"

CURRENT == Head(hdQueue)

\* CURRENT->errors when there is no request: the word at address 8, an entry of
\* the page directory (pg2 + 7)
NullErrors == 12295

\* add_request(): behind CURRENT the elevator may choose any place
HdAddRequest(r, cmd, s) ==
  /\ hdPc = "idle" /\ hdReq[r].state = "new"
  /\ hdReq' = [hdReq EXCEPT ![r].state = "queued", ![r].cmd = cmd,
                            ![r].start = s, ![r].sector = s]
  /\ IF hdQueue = <<>>
       THEN hdQueue' = <<r>> /\ hdPc' = "request"
       ELSE /\ \E i \in 2 .. Len(hdQueue) + 1 : hdQueue' = InsertAt(hdQueue, i, r)
            /\ UNCHANGED hdPc
  /\ UNCHANGED <<doHd, hdReset, hdRecal, hdDrive, hdData>>

\* end_request(): the buffer's owner learns the outcome, the next one is CURRENT
HdEnd(req, ok) == [req EXCEPT ![CURRENT].state = IF ok THEN "ok" ELSE "failed"]

\* bad_rw_intr(); it looks at CURRENT again after end_request()
MutGivesUp(errors) == errors > HdMaxErrors
GivesUp(errors) == errors >= HdMaxErrors
BadRwIntr ==
  LET e == hdReq[CURRENT].errors + 1
      req == [hdReq EXCEPT ![CURRENT].errors = e]
      gone == GivesUp(e)
      q == IF gone THEN Tail(hdQueue) ELSE hdQueue
      seen == IF q = <<>> THEN NullErrors ELSE req[Head(q)].errors
  IN /\ hdReq' = IF gone THEN HdEnd(req, FALSE) ELSE req
     /\ hdQueue' = q
     /\ hdReset' = (hdReset \/ seen > HdMaxErrors \div 2)

\* hd_out(): panics if the controller is not ready, else arms the handler
HdOut(cmd, sector, n, buf, intr) ==
  \/ /\ hdPc' = "panic" /\ UNCHANGED <<doHd, hdDrive>>
  \/ /\ hdPc' = "idle"
     /\ doHd' = intr
     /\ hdDrive' = [cmd |-> cmd, sector |-> sector, left |-> n, buf |-> buf]

OutOfRange(r) == hdReq[r].sector + 2 > HdNrSects

\* do_hd_request(): no request is left
RequestDone ==
  /\ hdPc = "request" /\ hdQueue = <<>>
  /\ hdPc' = "idle"
  /\ UNCHANGED <<hdReq, hdQueue, doHd, hdReset, hdRecal, hdDrive, hdData>>

\* the block is not in the partition
RequestRefused ==
  /\ hdPc = "request" /\ hdQueue # <<>> /\ OutOfRange(CURRENT)
  /\ hdReq' = HdEnd(hdReq, FALSE) /\ hdQueue' = Tail(hdQueue)
  /\ UNCHANGED <<doHd, hdReset, hdRecal, hdDrive, hdData, hdPc>>

\* reset_controller() and reset_hd(), or WIN_RESTORE
RequestReset ==
  /\ hdPc = "request" /\ hdQueue # <<>> /\ ~OutOfRange(CURRENT)
  /\ hdReset \/ hdRecal
  /\ hdReset' = FALSE /\ hdRecal' = hdReset
  /\ HdOut(IF hdReset THEN "SPECIFY" ELSE "RESTORE", 0, 0, 0, "recal_intr")
  /\ UNCHANGED <<hdReq, hdQueue, hdData>>

\* WIN_READ, or WIN_WRITE whose DRQ appears
RequestTransfer ==
  /\ hdPc = "request" /\ hdQueue # <<>> /\ ~OutOfRange(CURRENT)
  /\ ~hdReset /\ ~hdRecal
  /\ LET c == hdReq[CURRENT]
     IN HdOut(c.cmd, c.sector, c.nr, c.buf, IF c.cmd = "READ" THEN "read_intr" ELSE "write_intr")
  /\ UNCHANGED <<hdReq, hdQueue, hdReset, hdRecal, hdData>>

\* WIN_WRITE whose DRQ does not appear: the handler stays armed
RequestNoDrq ==
  /\ hdPc = "request" /\ hdQueue # <<>> /\ ~OutOfRange(CURRENT)
  /\ ~hdReset /\ ~hdRecal /\ hdReq[CURRENT].cmd = "WRITE"
  /\ doHd' = "write_intr" /\ hdDrive' = DriveIdle
  /\ BadRwIntr
  /\ UNCHANGED <<hdRecal, hdData, hdPc>>

\* what hd_interrupt does before it calls the handler
HdIntr(handler) ==
  /\ hdPc = "idle" /\ hdDrive.cmd # "none"
  /\ doHd = handler

Transferred == [hdData EXCEPT ![CURRENT] = @ \cup {<<hdDrive.sector, hdDrive.buf>>}]
MutNextSector(c) == [c EXCEPT !.sector = @ + 1, !.nr = @ - 1]
NextSector(c) == [c EXCEPT !.sector = @ + 1, !.buf = @ + 1, !.nr = @ - 1]

\* win_result() reports an error: in each handler, bad_rw_intr() and do_hd_request()
IntrError(handler) ==
  /\ HdIntr(handler)
  /\ BadRwIntr
  /\ doHd' = "none" /\ hdDrive' = DriveIdle /\ hdPc' = "request"
  /\ UNCHANGED <<hdRecal, hdData>>

\* read_intr(), status good; the drive goes on with the next sector if it has one
ReadIntr ==
  /\ HdIntr("read_intr")
  /\ LET c == NextSector([hdReq[CURRENT] EXCEPT !.errors = 0])
         req == [hdReq EXCEPT ![CURRENT] = c]
     IN /\ hdData' = [hdData EXCEPT ![CURRENT] = @ \cup {<<hdDrive.sector, hdReq[CURRENT].buf>>}]
        /\ IF c.nr > 0
             THEN /\ hdReq' = req /\ doHd' = "read_intr"
                  /\ UNCHANGED <<hdQueue, hdPc>>
             ELSE /\ hdReq' = HdEnd(req, TRUE) /\ hdQueue' = Tail(hdQueue)
                  /\ doHd' = "none" /\ hdPc' = "request"
  /\ hdDrive' = IF hdDrive.left > 1
                  THEN [hdDrive EXCEPT !.sector = @ + 1, !.left = @ - 1] ELSE DriveIdle
  /\ UNCHANGED <<hdReset, hdRecal>>

\* write_intr(), status good: the sector is on the disk; port_write() of the next
WriteIntr ==
  /\ HdIntr("write_intr")
  /\ hdData' = Transferred
  /\ LET left == hdReq[CURRENT].nr - 1
     IN IF left > 0
          THEN /\ hdReq' = [hdReq EXCEPT ![CURRENT] = NextSector(@)]
               /\ doHd' = "write_intr"
               /\ hdDrive' = [hdDrive EXCEPT !.sector = @ + 1, !.left = @ - 1,
                                             !.buf = hdReq[CURRENT].buf + 1]
               /\ UNCHANGED <<hdQueue, hdPc>>
          ELSE /\ hdReq' = HdEnd([hdReq EXCEPT ![CURRENT].nr = 0], TRUE)
               /\ hdQueue' = Tail(hdQueue)
               /\ doHd' = "none" /\ hdDrive' = DriveIdle /\ hdPc' = "request"
  /\ UNCHANGED <<hdReset, hdRecal>>

\* recal_intr(), status good
RecalIntr ==
  /\ HdIntr("recal_intr")
  /\ doHd' = "none" /\ hdDrive' = DriveIdle /\ hdPc' = "request"
  /\ UNCHANGED <<hdReq, hdQueue, hdReset, hdRecal, hdData>>

\* unexpected_hd_interrupt(): a message, and whatever the drive had to say is lost
HdUnexpected ==
  /\ hdPc = "idle" /\ doHd = "none"
  /\ hdDrive' = DriveIdle
  /\ UNCHANGED <<hdReq, hdQueue, doHd, hdReset, hdRecal, hdData, hdPc>>

HdInterrupt ==
  \/ \E h \in {"read_intr", "write_intr", "recal_intr"} : IntrError(h)
  \/ ReadIntr \/ WriteIntr \/ RecalIntr \/ HdUnexpected

DoHdRequest == RequestDone \/ RequestRefused \/ RequestReset \/ RequestTransfer \/ RequestNoDrq

HdNext ==
  \/ \E r \in HdRequests, cmd \in {"READ", "WRITE"}, s \in HdSectors : HdAddRequest(r, cmd, s)
  \/ DoHdRequest
  \/ HdInterrupt

\* the driver on its own; the runs add the drivers it is composed with, and fairness
HdSpec == HdInit /\ [][HdNext]_hdVars

----------------------------------------------------------------------------
\* What a process is told of its request is what happened.  Each sector went to
\* the place of the buffer that belongs to it, whatever was retried; a request
\* that succeeded moved both; one that failed was outside the partition or had
\* MAX_ERRORS errors.  (The exception: do_hd_request() tests a retry of the
\* second sector as if it were a whole block, so in the last block of a
\* partition the first error of the second sector is final.)
HdOutcomeHonest ==
  \A r \in HdRequests :
    LET c == hdReq[r]
    IN /\ \A t \in hdData[r] : t[1] = c.start + t[2]
       /\ c.state = "ok" => {t[2] : t \in hdData[r]} = {0, 1}
       /\ c.state = "failed" =>
            \/ c.errors >= HdMaxErrors
            \/ c.start + 2 > HdNrSects
            \/ c.start + 2 = HdNrSects /\ c.buf = 1 /\ c.errors > 0

\* Every request ends, however often the drive fails, is reset and recalibrated;
\* a controller that is not ready stops the machine.
HdRequestsEnd ==
  \A r \in HdRequests :
    hdReq[r].state = "queued" ~> (hdReq[r].state \in {"ok", "failed"} \/ hdPc = "panic")
=============================================================================
