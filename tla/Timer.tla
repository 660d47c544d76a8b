------------------------------- MODULE Timer -------------------------------
(***************************************************************************)
(* The kernel timers (add_timer() and do_timer() of kernel/sched.c): a     *)
(* list of [jiffies, fn] in which jiffies counts from the entry before.    *)
(* asked is history: the ticks the caller still has to wait, 0 when due.   *)
(*                                                                         *)
(* do_timer() calls the expired functions one after the other inside one   *)
(* interrupt; timerPc is "run" until it has called the last.  What the     *)
(* functions do belongs to the module that uses the timers; here a client  *)
(* does nothing.                                                           *)
(***************************************************************************)
EXTENDS Integers, Sequences, SequencesExt

CONSTANTS
  TimerClients,   \* functions other than the floppy driver's
  TimerMax,       \* the longest time a client asks for
  TIME_REQUESTS

ASSUME TimerAssumption == TimerMax \in Nat /\ TIME_REQUESTS \in Nat \ {0}

VARIABLES timers, timerPc

timerVars == <<timers, timerPc>>

\* ticks until the i-th entry expires
Expiry(list, i) ==
  LET sum[k \in 0 .. Len(list)] == IF k = 0 THEN 0 ELSE sum[k - 1] + list[k].jiffies
  IN sum[i]

TimerTypeOK ==
  /\ timerPc \in {"idle", "run", "panic"}
  /\ Len(timers) <= TIME_REQUESTS
  /\ \A i \in DOMAIN timers : timers[i].jiffies \in Nat /\ timers[i].asked \in Nat

TimerInit == timers = <<>> /\ timerPc = "idle"

\* add_timer() for jiffies > 0: the new entry is put in front and exchanged with
\* the next one as long as that one expires earlier
MutGoesBefore(list, k, left) == k = Len(list) \/ list[k + 1].jiffies >= left + Expiry(list, k)
GoesBefore(list, k, left) == k = Len(list) \/ list[k + 1].jiffies >= left

AddTimer(list, jiffies, fn) ==
  LET Left(k) == jiffies - Expiry(list, k)
      Stops(k) == GoesBefore(list, k, Left(k))
      at == CHOOSE k \in 0 .. Len(list) : Stops(k) /\ \A m \in 0 .. k - 1 : ~Stops(m)
  IN InsertAt(list, at + 1, [jiffies |-> Left(at), fn |-> fn, asked |-> jiffies])

\* a client calls add_timer(); without a free entry it panics
ClientAdds(fn, jiffies) ==
  /\ timerPc = "idle"
  /\ \A i \in DOMAIN timers : timers[i].fn # fn
  /\ IF Len(timers) >= TIME_REQUESTS
       THEN timerPc' = "panic" /\ UNCHANGED timers
       ELSE timers' = AddTimer(timers, jiffies, fn) /\ UNCHANGED timerPc

\* the first part of do_timer(): a tick
Tick ==
  /\ timerPc = "idle"
  /\ timers' = [i \in DOMAIN timers |->
                  [timers[i] EXCEPT !.jiffies = IF i = 1 THEN @ - 1 ELSE @,
                                    !.asked = IF @ > 0 THEN @ - 1 ELSE 0]]
  /\ timerPc' = "run"

Expired == timers # <<>> /\ Head(timers).jiffies <= 0

\* one round of its loop, for a function of the caller's choice
Expire(fn) ==
  /\ timerPc = "run" /\ Expired /\ Head(timers).fn = fn
  /\ timers' = Tail(timers)
  /\ UNCHANGED timerPc

\* its loop ends
TickDone == timerPc = "run" /\ ~Expired /\ timerPc' = "idle" /\ UNCHANGED timers

TimerNext ==
  \/ \E fn \in TimerClients : Expire(fn) \/ \E j \in 1 .. TimerMax : ClientAdds(fn, j)
  \/ Tick
  \/ TickDone

----------------------------------------------------------------------------
\* No function is called before the time its caller asked for, whatever is added
\* in front of it, behind it or at the same moment.  (It may be called later: the
\* entry behind a new one keeps its jiffies, and so waits for both.)
TimersNeverEarly == \A i \in DOMAIN timers : Expiry(timers, i) >= timers[i].asked
=============================================================================
