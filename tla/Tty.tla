-------------------------------- MODULE Tty --------------------------------
(***************************************************************************)
(* A terminal on a serial line: the queues and the line discipline of      *)
(* kernel/chr_drv/tty_io.c, the serial interrupts of rs_io.s, and the      *)
(* ioctl() calls that touch a queue.  One process reads and one writes.    *)
(*                                                                         *)
(* A process in the kernel keeps the processor (ttyCpu) until it sleeps,   *)
(* calls schedule() or returns, but interrupts come between any two of its *)
(* steps.  An interrupt is one action: the serial interrupt is not         *)
(* acknowledged before copy_to_cooked() is done.                           *)
(*                                                                         *)
(* The characters are "a" (any printing one), "nl", "cr" and the control   *)
(* characters of c_cc.  A ring of tty.h is the sequence of characters from *)
(* its tail to its head: a head that runs into the tail empties it, and a  *)
(* tail that overtakes the head makes it full, of characters nobody put    *)
(* there ("a").  Of the write queue only the length is kept.  The terminal *)
(* is "raw" (no flag set), "timed" (raw with VTIME set and VMIN 0) or      *)
(* "cooked" (ICANON, ISIG, ECHO, ECHOCTL, OPOST and ONLCR).  The flag      *)
(* `stopped' is left out: nothing reads it.                                *)
(***************************************************************************)
EXTENDS Integers, Sequences, FiniteSets

CONSTANTS
  TtySize,      \* TTY_BUF_SIZE
  TtyLow,       \* room a writer waits for once the queue was full (128)
  TtyRoom,      \* room below which an unfinished line may be read (20)
  TtyStartup,   \* a queue this short wakes its writer (256)
  TtyVmin,      \* VMIN of a raw terminal
  TtyNr,        \* bytes asked for by a read()
  TtyKeys,      \* the characters that can be received
  TtyTexts,     \* what can be written by a write()
  TtyInput      \* bound on the characters received

TtyModes == {"raw", "timed", "cooked"}
TtyChars == {"a", "nl", "cr", "eof", "erase", "kill", "intr", "stop", "ctl"}

ASSUME TtyAssumption ==
  /\ TtySize \in Nat /\ TtySize > 1
  /\ TtyLow \in 1 .. TtySize /\ TtyRoom \in Nat
  /\ TtyStartup \in 0 .. TtySize - 1 - TtyLow
  /\ TtyVmin \in 1 .. TtyNr /\ TtyNr \in Nat /\ TtyInput \in Nat
  /\ TtyKeys \subseteq TtyChars
  /\ \A t \in TtyTexts : t \in Seq(TtyChars) /\ t # <<>>

VARIABLES
  tty,      \* [readQ, writeN, second, data, mode, thre]: struct tty_struct; thre
            \* is the transmit interrupt enable bit of the port
  ttyR,     \* the reader: [pc, nr, got, flag]
  ttyW,     \* the writer: [pc, text, cr]; cr is cr_flag
  ttyCpu,   \* the process that runs in the kernel, or "none"
  ttySig,   \* the signals pending for each process
  ttyAlarm, \* the reader's alarm was set by tty_read()
  ttyIn,    \* history: the characters received and not flushed
  ttyOut,   \* history: the characters read(), until ttyRaced
  ttyRaced  \* history: a character was taken from an empty queue

ttyVars == <<tty, ttyR, ttyW, ttyCpu, ttySig, ttyAlarm, ttyIn, ttyOut, ttyRaced>>

----------------------------------------------------------------------------
\* the macros of tty.h
Room == TtySize - 1
Left(q) == Room - Len(q)
Full(q) == Left(q) = 0
Empty(q) == q = <<>>
Last(q) == q[Len(q)]
Putch(c, q) == IF Full(q) THEN <<>> ELSE Append(q, c)
Getch(q) == IF Empty(q) THEN [i \in 1 .. Room |-> "a"] ELSE Tail(q)
DecHead(q) == SubSeq(q, 1, Len(q) - 1)
PutWrite(n, t) == [t EXCEPT !.writeN = (@ + n) % TtySize]

TtyTypeOK ==
  /\ tty.readQ \in Seq(TtyChars) /\ tty.second \in Seq(TtyChars)
  /\ Len(tty.readQ) <= Room /\ Len(tty.second) <= Room /\ tty.writeN \in 0 .. Room
  /\ tty.data \in Int /\ tty.mode \in TtyModes /\ tty.thre \in BOOLEAN
  /\ ttyR.pc \in {"user", "test", "get", "asleep", "woken"}
  /\ ttyW.pc \in {"user", "full", "fill", "put", "asleep", "woken"}
  /\ ttyCpu \in {"none", "reader", "writer"}
  /\ ttySig.reader \subseteq {"int", "alrm"} /\ ttySig.writer \subseteq {"int", "alrm"}

TtyInit ==
  /\ tty \in [readQ : {<<>>}, writeN : {0}, second : {<<>>},
              data : {0}, mode : TtyModes, thre : {FALSE}]
  /\ ttyR = [pc |-> "user", nr |-> 0, got |-> 0, flag |-> FALSE]
  /\ ttyW = [pc |-> "user", text |-> <<>>, cr |-> FALSE]
  /\ ttyCpu = "none" /\ ttySig = [p \in {"reader", "writer"} |-> {}] /\ ttyAlarm = FALSE
  /\ ttyIn = <<>> /\ ttyOut = <<>> /\ ttyRaced = FALSE

Canon(t) == t.mode = "cooked"
EndsLine(c) == c \in {"nl", "eof"}

\* rs_write(): enable the transmit interrupt
RsWrite(t) == [t EXCEPT !.thre = @ \/ t.writeN > 0]

----------------------------------------------------------------------------
(***************************************************************************)
(* copy_to_cooked(), on a record of the terminal.                          *)
(***************************************************************************)

\* the echo of a character is put into the write queue, without asking for room: two
\* characters for one below 32, and as many to take it back
Echoed(c) == IF c \in {"a", "erase"} THEN 1 ELSE 2
WithEcho(n, t) == RsWrite(PutWrite(n, t))

\* a character of the unfinished line, which may be taken back
MutErasable(t) == ~Empty(t.second) /\ Last(t.second) # "nl"
Erasable(t) == ~Empty(t.second) /\ ~EndsLine(Last(t.second))
Erase(t) == [WithEcho(Echoed(Last(t.second)), t) EXCEPT !.second = DecHead(@)]
KillLine(t) ==
  LET killed[n \in 0 .. TtySize] ==
        IF n = 0 THEN t
        ELSE IF Erasable(killed[n - 1]) THEN Erase(killed[n - 1]) ELSE killed[n - 1]
  IN killed[TtySize]

\* c is queued for the readers
Accept(c, t) ==
  LET u == IF Canon(t) THEN WithEcho(Echoed(c), t) ELSE t
  IN [u EXCEPT !.second = Putch(c, @), !.data = IF EndsLine(c) THEN @ + 1 ELSE @]

\* one turn of the loop
Cook(t) ==
  LET raw == Head(t.readQ)
      c == IF Canon(t) /\ raw = "cr" THEN "nl" ELSE raw
      u == [t EXCEPT !.readQ = Getch(@)]
  IN IF ~Canon(t) THEN Accept(c, u)
     ELSE CASE c = "kill" -> KillLine(u)
            [] c = "erase" -> IF Erasable(u) THEN Erase(u) ELSE u
            [] c \in {"stop", "intr"} -> u
            [] OTHER -> Accept(c, u)

\* the loop, and whether it has called tty_intr()
CopyToCooked(t) ==
  LET cooked[n \in 0 .. TtySize] ==
        IF n = 0 THEN [tty |-> t, intr |-> FALSE]
        ELSE LET u == cooked[n - 1].tty
             IN IF Empty(u.readQ) \/ Full(u.second) THEN cooked[n - 1]
                ELSE [tty |-> Cook(u),
                      intr |-> cooked[n - 1].intr \/ (Canon(u) /\ Head(u.readQ) = "intr")]
  IN cooked[TtySize]

----------------------------------------------------------------------------
\* tty_intr(): the signal reaches reader and writer, and schedule() runs a task
\* that sleeps interruptibly and has one
WithSignal(s) == [p \in {"reader", "writer"} |-> ttySig[p] \cup s]
WokenIf(b, r) == IF b /\ r.pc = "asleep" THEN [r EXCEPT !.pc = "woken"] ELSE r

\* read_char: a character that finds the read queue full is dropped, but the rest
\* of the handler runs; copy_to_cooked() ends by waking the readers
Receive(c) ==
  /\ Len(ttyIn) < TtyInput
  /\ LET room == ~Full(tty.readQ)
         q == IF room THEN Append(tty.readQ, c) ELSE tty.readQ
         t == CopyToCooked([tty EXCEPT !.readQ = q])
     IN /\ tty' = t.tty
        /\ ttyIn' = IF room THEN Append(ttyIn, c) ELSE ttyIn
        /\ ttySig' = IF t.intr THEN WithSignal({"int"}) ELSE ttySig
        /\ ttyR' = WokenIf(TRUE, ttyR)
        /\ ttyW' = WokenIf(t.intr, ttyW)
  /\ UNCHANGED <<ttyCpu, ttyAlarm, ttyOut, ttyRaced>>

\* write_char and write_buffer_empty, with n characters in the queue
MutWakesWriter(n) == n \in 1 .. TtyStartup
WakesWriter(n) == n <= TtyStartup \/ n <= 1

Transmit ==
  /\ tty.thre
  /\ LET left == IF tty.writeN = 0 THEN 0 ELSE tty.writeN - 1
     IN /\ tty' = [tty EXCEPT !.writeN = left, !.thre = left > 0]
        /\ ttyW' = WokenIf(WakesWriter(tty.writeN), ttyW)
  /\ UNCHANGED <<ttyR, ttyCpu, ttySig, ttyAlarm, ttyIn, ttyOut, ttyRaced>>

\* the reader's alarm goes off, in a schedule()
AlarmFires ==
  /\ ttyAlarm /\ ttyCpu = "none"
  /\ ttyAlarm' = FALSE /\ ttySig' = [ttySig EXCEPT !.reader = @ \cup {"alrm"}]
  /\ ttyR' = WokenIf(TRUE, ttyR)
  /\ UNCHANGED <<tty, ttyW, ttyCpu, ttyIn, ttyOut, ttyRaced>>

----------------------------------------------------------------------------
(***************************************************************************)
(* tty_read().                                                             *)
(***************************************************************************)

\* back to user mode, where the signals are dealt with
ReaderReturns ==
  /\ ttyR' = [pc |-> "user", nr |-> 0, got |-> 0, flag |-> FALSE]
  /\ ttyCpu' = "none" /\ ttySig' = [ttySig EXCEPT !.reader = {}]

ReadCall ==
  /\ ttyR.pc = "user" /\ ttyCpu = "none"
  /\ ttyR' = [pc |-> "test", nr |-> TtyNr, got |-> 0, flag |-> tty.mode = "timed"]
  /\ ttyAlarm' = (tty.mode = "timed") /\ ttyCpu' = "reader"
  /\ UNCHANGED <<tty, ttyW, ttySig, ttyIn, ttyOut, ttyRaced>>

\* a canonical reader waits for a whole line, unless the queue is nearly full
MustWait ==
  \/ Empty(tty.second)
  \/ Canon(tty) /\ tty.data = 0 /\ Left(tty.second) > TtyRoom

\* The head of the loop: sleep_if_empty() returns at once when part of a line is
\* queued, so that the reader holds the processor and tests again (no step).
ReadTest ==
  /\ ttyR.pc = "test" /\ ttyCpu = "reader"
  /\ \/ /\ ttySig.reader # {}
        /\ ReaderReturns /\ ttyAlarm' = FALSE
     \/ /\ ttySig.reader = {} /\ Empty(tty.second)
        /\ ttyR' = [ttyR EXCEPT !.pc = "asleep"] /\ ttyCpu' = "none"
        /\ UNCHANGED <<ttySig, ttyAlarm>>
     \/ /\ ttySig.reader = {} /\ ~MustWait
        /\ ttyR' = [ttyR EXCEPT !.pc = "get"]
        /\ UNCHANGED <<ttyCpu, ttySig, ttyAlarm>>
  /\ UNCHANGED <<tty, ttyW, ttyIn, ttyOut, ttyRaced>>

\* interruptible_sleep_on() returns into the loop of sleep_if_empty()
ReadWakes ==
  /\ ttyR.pc = "woken" /\ ttyCpu = "none"
  /\ \/ /\ ttySig.reader = {} /\ Empty(tty.second)
        /\ ttyR' = [ttyR EXCEPT !.pc = "asleep"] /\ UNCHANGED ttyCpu
     \/ /\ ttySig.reader # {} \/ ~Empty(tty.second)
        /\ ttyR' = [ttyR EXCEPT !.pc = "test"] /\ ttyCpu' = "reader"
  /\ UNCHANGED <<tty, ttyW, ttySig, ttyAlarm, ttyIn, ttyOut, ttyRaced>>

\* GETCH and the rest of the do-loop up to the next EMPTY test.  The queue was not
\* empty when it was tested; an erase received since then may have emptied it.
ReadGet ==
  /\ ttyR.pc = "get" /\ ttyCpu = "reader"
  /\ LET q == tty.second
         c == IF Empty(q) THEN "a" ELSE Head(q)
         q1 == Getch(q)
         got == ttyR.got + 1
         nr == ttyR.nr - 1
         minimum == IF ttyR.flag THEN 1 ELSE TtyVmin
     IN /\ tty' = [tty EXCEPT !.second = q1, !.data = IF EndsLine(c) THEN @ - 1 ELSE @]
        /\ ttyRaced' = (ttyRaced \/ Empty(q))
        /\ ttyOut' = IF ttyRaced' THEN <<>> ELSE Append(ttyOut, c)
        /\ \/ /\ c = "eof" /\ Canon(tty)        \* the alarm is not restored
              /\ ReaderReturns /\ UNCHANGED ttyAlarm
           \/ /\ c # "eof" \/ ~Canon(tty)
              /\ nr > 0 /\ ~Empty(q1)
              /\ ttyR' = [ttyR EXCEPT !.nr = nr, !.got = got]
              /\ UNCHANGED <<ttyCpu, ttySig, ttyAlarm>>
           \/ /\ c # "eof" \/ ~Canon(tty)
              /\ nr = 0 \/ Empty(q1)
              /\ IF nr = 0 \/ Canon(tty) \/ got >= minimum
                   THEN ReaderReturns /\ ttyAlarm' = FALSE
                   ELSE /\ ttyR' = [ttyR EXCEPT !.pc = "test", !.nr = nr, !.got = got]
                        /\ UNCHANGED <<ttyCpu, ttySig, ttyAlarm>>
  /\ UNCHANGED <<ttyW, ttyIn>>

----------------------------------------------------------------------------
(***************************************************************************)
(* tty_write().                                                            *)
(***************************************************************************)
WriterReturns ==
  /\ ttyW' = [ttyW EXCEPT !.pc = "user", !.text = <<>>]
  /\ ttyCpu' = "none" /\ ttySig' = [ttySig EXCEPT !.writer = {}]

WriteCall ==
  /\ ttyW.pc = "user" /\ ttyCpu = "none"
  /\ \E text \in TtyTexts : ttyW' = [ttyW EXCEPT !.pc = "full", !.text = text]
  /\ UNCHANGED <<tty, ttyR, ttyCpu, ttySig, ttyAlarm, ttyIn, ttyOut, ttyRaced>>

\* sleep_if_full() and the test for a signal; "woken" is the return into its loop,
\* "full" also the return from schedule() at the foot of the outer loop
WriteFull ==
  /\ ttyW.pc \in {"full", "woken"} /\ ttyCpu = "none"
  /\ LET wait == IF ttyW.pc = "full" THEN tty.writeN = Room ELSE Room - tty.writeN < TtyLow
     IN \/ /\ wait /\ ttySig.writer = {}
           /\ ttyW' = [ttyW EXCEPT !.pc = "asleep"] /\ UNCHANGED <<ttyCpu, ttySig>>
        \/ /\ ttySig.writer # {}
           /\ WriterReturns
        \/ /\ ~wait /\ ttySig.writer = {}
           /\ ttyW' = [ttyW EXCEPT !.pc = "fill"] /\ ttyCpu' = "writer" /\ UNCHANGED ttySig
  /\ UNCHANGED <<tty, ttyR, ttyAlarm, ttyIn, ttyOut, ttyRaced>>

\* the head of the inner loop; behind it tty->write() and, with bytes left, schedule()
WriteFill ==
  /\ ttyW.pc = "fill" /\ ttyCpu = "writer"
  /\ \/ /\ ttyW.text # <<>> /\ tty.writeN < Room
        /\ ttyW' = [ttyW EXCEPT !.pc = "put"]
        /\ UNCHANGED <<tty, ttyCpu, ttySig>>
     \/ /\ ttyW.text # <<>> /\ tty.writeN = Room
        /\ tty' = RsWrite(tty)
        /\ ttyW' = [ttyW EXCEPT !.pc = "full"] /\ ttyCpu' = "none" /\ UNCHANGED ttySig
     \/ /\ ttyW.text = <<>>
        /\ tty' = RsWrite(tty) /\ WriterReturns
  /\ UNCHANGED <<ttyR, ttyAlarm, ttyIn, ttyOut, ttyRaced>>

\* PUTCH: an echo since the test of FULL may have filled the queue
WritePut ==
  /\ ttyW.pc = "put" /\ ttyCpu = "writer"
  /\ LET cr == Canon(tty) /\ Head(ttyW.text) = "nl" /\ ~ttyW.cr
     IN ttyW' = [pc |-> "fill", cr |-> cr, text |-> IF cr THEN ttyW.text ELSE Tail(ttyW.text)]
  /\ tty' = PutWrite(1, tty)
  /\ UNCHANGED <<ttyR, ttyCpu, ttySig, ttyAlarm, ttyIn, ttyOut, ttyRaced>>

----------------------------------------------------------------------------
\* tty_ioctl() by some process: flush() empties the read queue (TCSETSF, TCFLSH 0
\* or 2) or the write queue (TCFLSH 1 or 2), never the secondary
TtyIoctl ==
  /\ ttyCpu = "none"
  /\ \E m \in TtyModes, input \in BOOLEAN, output \in BOOLEAN :
       /\ output => m = tty.mode
       /\ tty' = [tty EXCEPT !.mode = m, !.readQ = IF input THEN <<>> ELSE @,
                            !.writeN = IF output THEN 0 ELSE @]
       /\ ttyIn' = IF input THEN SubSeq(ttyIn, 1, Len(ttyIn) - Len(tty.readQ)) ELSE ttyIn
  /\ UNCHANGED <<ttyR, ttyW, ttyCpu, ttySig, ttyAlarm, ttyOut, ttyRaced>>

TtyLine(keys) == (\E c \in keys : Receive(c)) \/ Transmit \/ AlarmFires \/ TtyIoctl
TtyReader == ReadCall \/ ReadTest \/ ReadWakes \/ ReadGet
TtyWriter == WriteCall \/ WriteFull \/ WriteFill \/ WritePut

----------------------------------------------------------------------------
\* The reader holds the processor in tty_read(): part of a line is queued, so that
\* sleep_if_empty() does not sleep, and no more of it comes.
ReaderSpins ==
  ttyR.pc = "test" /\ ttySig.reader = {} /\ MustWait /\ ~Empty(tty.second)

\* s is t with some characters taken out, and a carriage return read as a newline
Subsequence(s, t) ==
  \E at \in [DOMAIN s -> DOMAIN t] :
    /\ \A i, j \in DOMAIN s : i < j => at[i] < at[j]
    /\ \A i \in DOMAIN s : s[i] = t[at[i]] \/ (s[i] = "nl" /\ t[at[i]] = "cr")

Count(cs, s) == Cardinality({i \in DOMAIN s : s[i] \in cs})

\* Input comes to read() in order, nothing twice and nothing invented; what is taken
\* back is never a line end, and nothing is when no editing character was received;
\* and secondary.data is the number of line ends queued, which decides when a
\* canonical reader stops waiting.  Except where an erase came between tty_read()'s
\* EMPTY test and its GETCH.
TtyLinesExact ==
  LET kept == ttyOut \o tty.second \o tty.readQ
  IN ~ttyRaced =>
       /\ Subsequence(kept, ttyIn)
       /\ Count({"nl", "eof"}, kept) >= Count({"nl", "eof"}, ttyIn)
       /\ Count({"erase", "kill", "intr", "stop"}, ttyIn) = 0 => Len(kept) = Len(ttyIn)
       /\ tty.data = Count({"nl", "eof"}, tty.second)

\* A writer that sleeps on a full queue gets on, even when the queue is flushed
\* under it, unless a reader spins.
TtyWriterWakes == (ttyW.pc = "asleep") ~> (ttyW.pc \in {"fill", "user"} \/ ReaderSpins)
=============================================================================
