-------------------------------- MODULE Sched --------------------------------
(***************************************************************************)
(* The scheduler: schedule(), do_timer(), sys_pause(), sys_alarm() and     *)
(* sys_nice() of kernel/sched.c, and the return paths of                   *)
(* kernel/system_call.s that call schedule() and deliver signals.          *)
(*                                                                         *)
(* One processor.  The kernel is not preempted: a task leaves the          *)
(* processor only inside schedule().  schedule() itself is not atomic.  It *)
(* runs with interrupts enabled when a system call entered it and with     *)
(* interrupts disabled when the timer did, so its three parts (look at     *)
(* alarms and signals; search the table; switch) are separate steps        *)
(* between which enabled interrupts may tick and wake tasks up.            *)
(*                                                                         *)
(* Fork, exit, wait and sleeping appear here with their effect on the      *)
(* scheduler's fields of the task table only.                              *)
(***************************************************************************)
EXTENDS Integers, FiniteSets

CONSTANTS
  NR_TASKS,      \* size of task[]
  InitPriority,  \* INIT_TASK's priority and counter
  MaxPriority,   \* bound: the highest priority value a negative nice() reaches
  MaxForks,      \* bound: how many tasks are made in a behaviour
  Signals,       \* the signal numbers in use
  Sent,          \* the signals kill() and terminal interrupts send
  AlarmTicks,    \* the alarms a task may set, in ticks (HZ * seconds)
  Increments,    \* the arguments nice() is called with
  Masks          \* the arguments ssetmask() is called with

SIGKILL == 9
SIGALRM == 14
SIGSTOP == 19

ASSUME SchedAssumption ==
  /\ NR_TASKS \in Nat \ {0, 1}
  /\ MaxPriority \in Nat
  /\ InitPriority \in 1 .. MaxPriority
  /\ MaxForks \in Nat
  /\ Signals \subseteq 1 .. 32 /\ SIGALRM \in Signals
  /\ Sent \subseteq Signals
  /\ AlarmTicks \subseteq Nat
  /\ Increments \subseteq Int
  /\ Masks \subseteq SUBSET Signals

Slot == 0 .. NR_TASKS - 1
Task == Slot \ {0}

\* alarm is kept relative to jiffies; an alarm below jiffies stays Expired.
NoAlarm == -2
Expired == -1
Alarm == {NoAlarm, Expired} \cup Nat

TaskState == {"RUNNING", "INTERRUPTIBLE", "UNINTERRUPTIBLE", "ZOMBIE", "EMPTY"}

\* Where a task continues when it next has the processor:
\*   "user"    in its program
\*   "sysret"  in system_call, after the call, at the test of state and counter
\*   "ret"     at ret_from_sys_call
\*   "gone"    nowhere: an empty slot, or do_exit() after its last schedule()
Place == {"user", "sysret", "ret", "gone"}

\* How far the current task is inside schedule():
\*   "out" not in it, "wake" at the alarm and signal loop, "pick" at the
\*   search, "switch" at switch_to(next).
Phase == {"out", "wake", "pick", "switch"}

VARIABLES
  state, counter, priority, alarm, signal, blocked,  \* of struct task_struct
  place,     \* where each task continues
  irq,       \* the interrupt flag in each task's eflags
  current,   \* the slot of the current task
  phase,     \* of schedule()
  next,      \* schedule()'s local variable
  ticked,    \* a timer interrupt came during this call of schedule()
  forks      \* number of tasks made so far (for the bound)

taskVars == <<state, counter, priority, alarm, signal, blocked, place, irq>>
vars == <<taskVars, current, phase, next, ticked, forks>>

TypeOK ==
  /\ state \in [Slot -> TaskState]
  /\ counter \in [Slot -> 0 .. 2 * MaxPriority]
  /\ priority \in [Slot -> 1 .. MaxPriority]
  /\ alarm \in [Slot -> Alarm]
  /\ signal \in [Slot -> SUBSET Signals]
  /\ blocked \in [Slot -> SUBSET Signals]
  /\ place \in [Slot -> Place]
  /\ irq \in [Slot -> BOOLEAN]
  /\ current \in Slot
  /\ phase \in Phase
  /\ next \in Slot
  /\ ticked \in BOOLEAN
  /\ forks \in 0 .. MaxForks

\* Task 0 as INIT_TASK and sched_init() leave it, in main() after
\* move_to_user_mode(); every other slot empty.
Init ==
  /\ state = [s \in Slot |-> IF s = 0 THEN "RUNNING" ELSE "EMPTY"]
  /\ counter = [s \in Slot |-> IF s = 0 THEN InitPriority ELSE 0]
  /\ priority = [s \in Slot |-> InitPriority]
  /\ alarm = [s \in Slot |-> NoAlarm]
  /\ signal = [s \in Slot |-> {}]
  /\ blocked = [s \in Slot |-> {}]
  /\ place = [s \in Slot |-> IF s = 0 THEN "user" ELSE "gone"]
  /\ irq = [s \in Slot |-> TRUE]
  /\ current = 0
  /\ phase = "out"
  /\ next = 0
  /\ ticked = FALSE
  /\ forks = 0

-----------------------------------------------------------------------------
(* schedule() *)

\* The call: the caller continues at `where' when schedule() returns to it.
CallSchedule(where) ==
  /\ phase' = "wake"
  /\ ticked' = FALSE
  /\ place' = [place EXCEPT ![current] = where]

Unmasked(s, sig) == sig \ ((Signals \ {SIGKILL, SIGSTOP}) \cap blocked[s])

MutWakeNoSignal(s, sig) == state[s]
MutWakeAnyState(s, sig) == IF state[s] # "EMPTY" /\ Unmasked(s, sig) # {} THEN "RUNNING" ELSE state[s]

\* The alarm test comes before the signal test, so an alarm that has just
\* expired wakes its task in the same pass.
WakeState(s, sig) ==
  IF state[s] = "INTERRUPTIBLE" /\ Unmasked(s, sig) # {} THEN "RUNNING" ELSE state[s]

ScheduleWake ==
  LET due(s) == s # 0 /\ state[s] # "EMPTY" /\ alarm[s] = Expired
      sig(s) == IF due(s) THEN signal[s] \cup {SIGALRM} ELSE signal[s]
  IN  /\ phase = "wake"
      /\ phase' = "pick"
      /\ signal' = [s \in Slot |-> sig(s)]
      /\ alarm' = [s \in Slot |-> IF due(s) THEN NoAlarm ELSE alarm[s]]
      /\ state' = [s \in Slot |-> IF s = 0 THEN state[s] ELSE WakeState(s, sig(s))]
      /\ UNCHANGED <<counter, priority, blocked, place, irq, current, next, ticked, forks>>

Runnable == {s \in Task : state[s] = "RUNNING"}

MutIsBest(s) == s \in Task /\ state[s] # "EMPTY"
                /\ \A r \in Runnable : counter[s] >= counter[r]

\* The search goes down from the last slot and keeps the first of the
\* runnable tasks with the largest counter.
IsBest(s) ==
  /\ s \in Runnable
  /\ \A r \in Runnable : \/ counter[r] < counter[s]
                         \/ counter[r] = counter[s] /\ r <= s

MutRecharge(s) == counter[s] + priority[s]

Recharge(s) == counter[s] \div 2 + priority[s]

\* One pass of while (1).  With nothing runnable c stays -1, which ends the
\* loop with next = 0; with c = 0 every slot above 0 is recharged, runnable or
\* not, and the search starts again.
SchedulePick ==
  /\ phase = "pick"
  /\ \/ /\ Runnable = {}
        /\ next' = 0
        /\ phase' = "switch"
        /\ UNCHANGED counter
     \/ /\ \E s \in Task : IsBest(s) /\ counter[s] > 0 /\ next' = s
        /\ phase' = "switch"
        /\ UNCHANGED counter
     \/ /\ Runnable # {}
        /\ \A s \in Runnable : counter[s] = 0
        /\ counter' = [s \in Slot |-> IF s # 0 /\ state[s] # "EMPTY"
                                      THEN Recharge(s) ELSE counter[s]]
        /\ UNCHANGED <<next, phase>>
  /\ UNCHANGED <<state, priority, alarm, signal, blocked, place, irq, current, ticked, forks>>

\* switch_to(next), which loads next's eflags with the rest of its TSS.
ScheduleSwitch ==
  /\ phase = "switch"
  /\ phase' = "out"
  /\ current' = next
  /\ next' = 0 /\ ticked' = FALSE
  /\ UNCHANGED <<taskVars, forks>>

-----------------------------------------------------------------------------
(* Interrupts *)

\* jiffies moves every alarm one tick closer.
TickAlarms == [s \in Slot |-> IF alarm[s] >= 0 THEN alarm[s] - 1 ELSE alarm[s]]

\* do_timer(cpl # 0): the interrupted task is in its program.
TimerUser ==
  /\ phase = "out" /\ place[current] = "user"
  /\ alarm' = TickAlarms
  /\ IF counter[current] > 1
       THEN /\ counter' = [counter EXCEPT ![current] = @ - 1]
            /\ place' = [place EXCEPT ![current] = "ret"]
            /\ UNCHANGED <<phase, ticked>>
       ELSE /\ counter' = [counter EXCEPT ![current] = 0]
            /\ CallSchedule("ret")
  /\ irq' = [irq EXCEPT ![current] = FALSE]
  /\ UNCHANGED <<state, priority, signal, blocked, current, next, forks>>

\* do_timer(0): in the kernel the tick is charged but never reschedules, and
\* ret_from_sys_call delivers nothing to a supervisor frame.  One call of
\* schedule() takes far less than the 1/HZ between two ticks, so at most one
\* tick falls into it.
TimerKernel ==
  /\ irq[current]
  /\ \/ phase = "out" /\ place[current] # "user" /\ UNCHANGED ticked
     \/ phase # "out" /\ ~ticked /\ ticked' = TRUE
  /\ alarm' = TickAlarms
  /\ counter' = [counter EXCEPT ![current] = IF @ > 1 THEN @ - 1 ELSE 0]
  /\ UNCHANGED <<state, priority, signal, blocked, place, irq, current, phase, next, forks>>

\* wake_up() of a sleeper by a device interrupt.
InterruptWakes(s) ==
  /\ irq[current]
  /\ state[s] \in {"INTERRUPTIBLE", "UNINTERRUPTIBLE"}
  /\ state' = [state EXCEPT ![s] = "RUNNING"]
  /\ UNCHANGED <<counter, priority, alarm, signal, blocked, place, irq,
                 current, phase, next, ticked, forks>>

\* tty_intr() of a keyboard or serial interrupt posts a signal.
InterruptSignals(s, sig) ==
  /\ irq[current]
  /\ state[s] # "EMPTY"
  /\ signal' = [signal EXCEPT ![s] = @ \cup {sig}]
  /\ UNCHANGED <<state, counter, priority, alarm, blocked, place, irq,
                 current, phase, next, ticked, forks>>

-----------------------------------------------------------------------------
(* System calls, made by a task other than 0 in its program *)

InProgram == phase = "out" /\ place[current] = "user"
UserCalls == InProgram /\ current # 0

\* A call that does not sleep leaves for the test at the end of system_call.
Returns == /\ place' = [place EXCEPT ![current] = "sysret"]
           /\ UNCHANGED <<irq, current, phase, next, ticked>>

\* pause(), and the sleep in waitpid() and in both sleep_on() functions.  Task
\* 0 does nothing but pause() once it has made task 1.
Sleep(st) ==
  /\ InProgram
  /\ current = 0 => forks > 0 /\ st = "INTERRUPTIBLE"
  /\ state' = [state EXCEPT ![current] = st]
  /\ CallSchedule("sysret")
  /\ UNCHANGED <<counter, priority, alarm, signal, blocked, irq, current, next, forks>>

\* wake_up() by a task in the kernel: an unlock, a release, a pipe or tty write.
CallWakes(s) ==
  /\ UserCalls
  /\ state[s] \in {"INTERRUPTIBLE", "UNINTERRUPTIBLE"}
  /\ state' = [state EXCEPT ![s] = "RUNNING"]
  /\ Returns
  /\ UNCHANGED <<counter, priority, alarm, signal, blocked, forks>>

\* kill(), reduced to send_sig() of one task.
Kill(s, sig) ==
  /\ UserCalls
  /\ state[s] # "EMPTY"
  /\ signal' = [signal EXCEPT ![s] = @ \cup {sig}]
  /\ Returns
  /\ UNCHANGED <<state, counter, priority, alarm, blocked, forks>>

SetMask(newmask) ==
  /\ UserCalls
  /\ blocked' = [blocked EXCEPT ![current] = newmask \ {SIGKILL}]
  /\ Returns
  /\ UNCHANGED <<state, counter, priority, alarm, signal, forks>>

\* alarm(seconds): 0 cancels.
SetAlarm(ticks) ==
  /\ UserCalls
  /\ alarm' = [alarm EXCEPT ![current] = IF ticks > 0 THEN ticks ELSE NoAlarm]
  /\ Returns
  /\ UNCHANGED <<state, counter, priority, signal, blocked, forks>>

Niced(p, increment) == IF p - increment > 0 THEN p - increment ELSE p

Nice(increment) ==
  /\ UserCalls
  /\ Niced(priority[current], increment) <= MaxPriority    \* bound
  /\ priority' = [priority EXCEPT ![current] = Niced(@, increment)]
  /\ Returns
  /\ UNCHANGED <<state, counter, alarm, signal, blocked, forks>>

\* sys_fork: the first empty slot becomes a copy that starts in its program;
\* with no empty slot (or no memory) the call fails.
Fork ==
  /\ InProgram
  /\ current = 0 => forks = 0
  /\ forks < MaxForks                                      \* bound
  /\ \/ \E s \in Task :
          /\ state[s] = "EMPTY"
          /\ \A r \in Task : r < s => state[r] # "EMPTY"
          /\ state' = [state EXCEPT ![s] = "RUNNING"]
          /\ priority' = [priority EXCEPT ![s] = priority[current]]
          /\ counter' = [counter EXCEPT ![s] = priority[current]]
          /\ alarm' = [alarm EXCEPT ![s] = NoAlarm]
          /\ signal' = [signal EXCEPT ![s] = {}]
          /\ blocked' = [blocked EXCEPT ![s] = blocked[current]]
          /\ place' = [place EXCEPT ![s] = "user", ![current] = "sysret"]
          /\ irq' = [irq EXCEPT ![s] = TRUE]
          /\ forks' = forks + 1
          /\ UNCHANGED <<current, phase, next, ticked>>
     \/ /\ current # 0
        /\ Returns
        /\ UNCHANGED <<state, counter, priority, alarm, signal, blocked, forks>>

\* release(): the page that holds the fields goes back to the free pages.
ClearSlot(s) ==
  /\ state' = [state EXCEPT ![s] = "EMPTY"]
  /\ counter' = [counter EXCEPT ![s] = 0]
  /\ priority' = [priority EXCEPT ![s] = InitPriority]
  /\ alarm' = [alarm EXCEPT ![s] = NoAlarm]
  /\ signal' = [signal EXCEPT ![s] = {}]
  /\ blocked' = [blocked EXCEPT ![s] = {}]

\* do_exit(): the current task becomes a zombie; with no father to tell,
\* release() clears its slot and calls schedule() itself.
DoExit(sigs) ==
  /\ \/ /\ state' = [state EXCEPT ![current] = "ZOMBIE"]
        /\ signal' = sigs
        /\ UNCHANGED <<counter, priority, alarm, blocked>>
     \/ ClearSlot(current)
  /\ CallSchedule("gone")
  /\ UNCHANGED <<irq, current, next, forks>>

Exit == UserCalls /\ DoExit(signal)

\* waitpid() finds a dead child: release() clears its slot, then schedules.
Reap(s) ==
  /\ UserCalls
  /\ state[s] = "ZOMBIE"
  /\ ClearSlot(s)
  /\ CallSchedule("sysret")
  /\ UNCHANGED <<irq, current, next, forks>>

-----------------------------------------------------------------------------
(* The way back to the program *)

MutMustReschedule == state[current] # "RUNNING"

\* Only task 0 gets here in a state other than RUNNING.
MustReschedule == state[current] # "RUNNING" \/ counter[current] = 0

SystemCallEnd ==
  /\ phase = "out" /\ place[current] = "sysret"
  /\ IF MustReschedule
       THEN CallSchedule("ret")
       ELSE /\ place' = [place EXCEPT ![current] = "ret"]
            /\ UNCHANGED <<phase, ticked>>
  /\ UNCHANGED <<state, counter, priority, alarm, signal, blocked, irq, current, next, forks>>

ToProgram == /\ place' = [place EXCEPT ![current] = "user"]
             /\ irq' = [irq EXCEPT ![current] = TRUE]

Deliverable == IF current = 0 THEN {} ELSE signal[current] \ blocked[current]

\* ret_from_sys_call: the lowest deliverable signal is cleared and given to
\* do_signal(), which ignores it, calls a handler (blocking more signals), or
\* exits.  No handler can be set for SIGKILL.
RetFromSysCall ==
  /\ phase = "out" /\ place[current] = "ret"
  /\ \/ /\ Deliverable = {}
        /\ ToProgram
        /\ UNCHANGED <<state, counter, priority, alarm, signal, blocked,
                       current, phase, next, ticked, forks>>
     \/ \E sig \in Deliverable :
          LET rest == [signal EXCEPT ![current] = @ \ {sig}]
          IN  /\ \A g \in Deliverable : sig <= g
              /\ \/ /\ sig # SIGKILL
                    /\ ToProgram
                    /\ signal' = rest
                    /\ \E m \in Masks \cup {{}} :
                         blocked' = [blocked EXCEPT ![current] = @ \cup m]
                    /\ UNCHANGED <<state, counter, priority, alarm,
                                   current, phase, next, ticked, forks>>
                 \/ DoExit(rest)

-----------------------------------------------------------------------------
Schedule == ScheduleWake \/ SchedulePick \/ ScheduleSwitch
Timer == TimerUser \/ TimerKernel
Return == SystemCallEnd \/ RetFromSysCall

Next ==
  \/ Schedule \/ Timer \/ Return
  \/ \E s \in Task : InterruptWakes(s) \/ CallWakes(s) \/ Reap(s)
  \/ \E s \in Task, sig \in Sent : InterruptSignals(s, sig) \/ Kill(s, sig)
  \/ \E st \in {"INTERRUPTIBLE", "UNINTERRUPTIBLE"} : Sleep(st)
  \/ \E m \in Masks : SetMask(m)
  \/ \E n \in AlarmTicks : SetAlarm(n)
  \/ \E i \in Increments : Nice(i)
  \/ Fork \/ Exit

\* The kernel's own code always goes on; the timer chip never stops; task 0
\* makes task 1 and then pauses for ever (main()).  Nothing is assumed of the
\* programs and of the devices.
Fairness ==
  /\ WF_vars(Schedule) /\ WF_vars(Return) /\ SF_vars(Timer)
  /\ WF_vars(current = 0 /\ (Sleep("INTERRUPTIBLE") \/ Fork))

Spec == Init /\ [][Next]_vars
FairSpec == Spec /\ Fairness

-----------------------------------------------------------------------------
(* Properties *)

\* The task that executes outside schedule() is RUNNING (task 0's state is
\* never used): neither a sleeper nor a zombie nor a cleared slot ever gets
\* the processor back, whatever interrupts do between search and switch.
CurrentRuns == phase = "out" /\ current # 0 => state[current] = "RUNNING"

\* A counter never reaches twice the largest priority, however long a task
\* sleeps through recharges (counter/2 + priority converges below it).
CounterBounded == \A s \in Slot : counter[s] < 2 * MaxPriority

\* With interrupts off (the timer's call) the idle task is chosen only when
\* no task can run, and no sleeper is left with a signal it does not block.
IdleOnlyWhenNothingRuns ==
  phase = "switch" /\ ~irq[current] =>
    /\ next = 0 => Runnable = {}
    /\ \A s \in Task : state[s] = "INTERRUPTIBLE" => Unmasked(s, signal[s]) = {}

\* A runnable task gets the processor: no set of other tasks that sleep, wake,
\* change priority and fork (boundedly) can keep it out for ever.
NoStarvation == \A s \in Task : state[s] = "RUNNING" ~> (current = s /\ phase = "out")

\* A task that paused with an alarm set and not blocked runs again, whether
\* the others compute, sleep, or the machine is idle.
AlarmEndsPause ==
  \A s \in Task : state[s] = "INTERRUPTIBLE" /\ alarm[s] # NoAlarm /\ SIGALRM \notin blocked[s]
                    ~> (current = s /\ phase = "out")

LifeOf(st) == CASE st = "RUNNING" -> "ready"
                [] st = "ZOMBIE" -> "dead"
                [] st = "EMPTY" -> "absent"
                [] OTHER -> "blocked"
LifeMap == [s \in Task |-> LifeOf(state[s])]
Holder == IF phase = "out" THEN current ELSE -1

Life == INSTANCE TaskLife WITH life <- LifeMap, cpu <- Holder

\* The scheduler implements the task life it promises to the other parts: a
\* task leaves the ready ones only by its own doing while it holds the
\* processor, and a zombie never becomes ready.
ImplementsTaskLife == Life!Spec
=============================================================================
