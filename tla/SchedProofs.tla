----------------------------- MODULE SchedProofs -----------------------------
(***************************************************************************)
(* Theorems about the scheduler, for every table size, every priority      *)
(* range, every set of signals and any number of tasks.                    *)
(*                                                                         *)
(* The invariant: TypeOK and CounterBounded hold each other up (a recharge *)
(* stays in range because the counter was below twice the priority bound); *)
(* CurrentRuns needs NextRuns, the promise that the choice of the search   *)
(* is still good when the switch happens, and IdleOnlyWhenNothingRuns      *)
(* needs QuietPick, its counterpart at the search.                         *)
(***************************************************************************)
EXTENDS Sched, TLAPS

NextRuns == phase = "switch" /\ next # 0 => state[next] = "RUNNING"

QuietPick == phase = "pick" /\ ~irq[current] =>
               \A s \in Task : state[s] = "INTERRUPTIBLE" => Unmasked(s, signal[s]) = {}

IInv == TypeOK /\ CounterBounded /\ CurrentRuns /\ NextRuns
Quiet == QuietPick /\ IdleOnlyWhenNothingRuns

\* The first state satisfies the invariant.
LEMMA InitInv == Init => IInv
  <1> SUFFICES ASSUME Init PROVE IInv
    OBVIOUS
  <1>1. 0 \in Slot /\ InitPriority \in 1 .. MaxPriority
    BY SchedAssumption DEF Slot
  <1>2. irq \in [Slot -> BOOLEAN] /\ ticked \in BOOLEAN
    BY DEF Init
  <1>3. TypeOK
    BY <1>1, <1>2, SchedAssumption
       DEF Init, TypeOK, TaskState, Alarm, NoAlarm, Place, Phase
  <1>4. CounterBounded
    BY <1>1, SchedAssumption DEF Init, CounterBounded
  <1> QED
    BY <1>3, <1>4 DEF Init, IInv, CurrentRuns, NextRuns

\* A recharge keeps a counter below twice the priority bound.
LEMMA RechargeBound ==
  ASSUME TypeOK, CounterBounded, NEW s \in Slot
  PROVE  Recharge(s) \in 0 .. (2 * MaxPriority - 1)
  <1>1. counter[s] \in 0 .. (2 * MaxPriority - 1) /\ priority[s] \in 1 .. MaxPriority
    BY SchedAssumption DEF TypeOK, CounterBounded
  <1>2. counter[s] \div 2 \in 0 .. (MaxPriority - 1)
    BY <1>1, SchedAssumption
  <1> QED BY <1>1, <1>2, SchedAssumption DEF Recharge
\* Every step of the timer, of schedule() and of the calls keeps the types.
LEMMA StepType == TypeOK /\ CounterBounded /\ [Next]_vars => TypeOK' /\ CounterBounded'
  <1> SUFFICES ASSUME TypeOK, CounterBounded, [Next]_vars
               PROVE  TypeOK' /\ CounterBounded'
    OBVIOUS
  <1> USE SchedAssumption
  <1> DEFINE CounterRange == 0 .. (2 * MaxPriority - 1)
  <1>a. 0 \in Slot /\ 0 \in CounterRange /\ Task \subseteq Slot
    BY DEF Slot, Task
  <1>b. counter \in [Slot -> CounterRange]
    BY DEF TypeOK, CounterBounded
  <1>c. counter' \in [Slot -> CounterRange]
          => counter' \in [Slot -> 0 .. 2 * MaxPriority] /\ CounterBounded'
    BY DEF CounterBounded
  <1>d. InitPriority \in 1 .. MaxPriority
    OBVIOUS
  <1>1. CASE ScheduleWake
    BY <1>1 DEF ScheduleWake, TypeOK, CounterBounded, WakeState, TaskState, Alarm, Phase
  <1>2. CASE SchedulePick
    <2>1. counter' \in [Slot -> CounterRange]
      BY <1>2, <1>b, RechargeBound DEF SchedulePick
    <2> HIDE DEF CounterRange
    <2> QED BY <1>2, <1>a, <1>c, <2>1 DEF SchedulePick, TypeOK, Phase
  <1>3. CASE ScheduleSwitch
    BY <1>3, <1>a DEF ScheduleSwitch, taskVars, TypeOK, CounterBounded, Phase
  <1>4. CASE Timer
    <2>1. alarm' \in [Slot -> Alarm]
      BY <1>4 DEF Timer, TimerUser, TimerKernel, TickAlarms, TypeOK, Alarm, NoAlarm, Expired
    <2>2. counter' \in [Slot -> 0 .. (2 * MaxPriority - 1)]
      BY <1>4 DEF Timer, TimerUser, TimerKernel, TypeOK, CounterBounded
    <2>3. irq' \in [Slot -> BOOLEAN] /\ ticked' \in BOOLEAN
      BY <1>4 DEF Timer, TimerUser, TimerKernel, CallSchedule, TypeOK
    <2> QED BY <1>4, <2>1, <2>2, <2>3
            DEF Timer, TimerUser, TimerKernel, CallSchedule, TypeOK, CounterBounded, Place, Phase
  <1>5. CASE SystemCallEnd
    BY <1>5 DEF SystemCallEnd, CallSchedule, TypeOK, CounterBounded, Place, Phase
  <1>6. ASSUME NEW sigs \in [Slot -> SUBSET Signals], DoExit(sigs)
        PROVE  TypeOK' /\ CounterBounded'
    <2>1. counter' \in [Slot -> CounterRange]
      BY <1>6, <1>a, <1>b DEF DoExit, ClearSlot
    <2>2. priority' \in [Slot -> 1 .. MaxPriority]
      BY <1>6, <1>d DEF DoExit, ClearSlot, TypeOK
    <2>3. /\ state' \in [Slot -> TaskState] /\ alarm' \in [Slot -> Alarm]
          /\ signal' \in [Slot -> SUBSET Signals] /\ blocked' \in [Slot -> SUBSET Signals]
      BY <1>6 DEF DoExit, ClearSlot, TypeOK, TaskState, Alarm, NoAlarm
    <2> HIDE DEF CounterRange
    <2> QED BY <1>6, <1>c, <2>1, <2>2, <2>3 DEF DoExit, CallSchedule, TypeOK, Place, Phase
  <1>7. CASE RetFromSysCall
    <2>1. CASE \E sig \in Deliverable : DoExit([signal EXCEPT ![current] = @ \ {sig}])
      BY <1>6, <2>1 DEF TypeOK
    <2>2. CASE ToProgram /\ UNCHANGED <<state, counter, priority, alarm, current, phase, next,
                                        ticked, forks>>
               /\ signal' \in [Slot -> SUBSET Signals]
               /\ blocked' \in [Slot -> SUBSET Signals]
      BY <2>2 DEF ToProgram, TypeOK, CounterBounded, Place
    <2>3. ASSUME NEW sig \in Signals, NEW m \in SUBSET Signals
          PROVE  /\ [signal EXCEPT ![current] = @ \ {sig}] \in [Slot -> SUBSET Signals]
                 /\ [blocked EXCEPT ![current] = @ \cup m] \in [Slot -> SUBSET Signals]
      BY DEF TypeOK
    <2>4. Masks \cup {{}} \subseteq SUBSET Signals /\ Deliverable \subseteq Signals
      BY DEF TypeOK, Deliverable
    <2>5. signal \in [Slot -> SUBSET Signals] /\ blocked \in [Slot -> SUBSET Signals]
      BY DEF TypeOK
    <2>6. \/ \E sig \in Deliverable : DoExit([signal EXCEPT ![current] = @ \ {sig}])
          \/ /\ ToProgram /\ UNCHANGED <<state, counter, priority, alarm, current, phase, next,
                                         ticked, forks>>
             /\ signal' \in [Slot -> SUBSET Signals]
             /\ blocked' \in [Slot -> SUBSET Signals]
      <3>1. CASE Deliverable = {}
        BY <1>7, <2>5, <3>1 DEF RetFromSysCall
      <3>2. CASE Deliverable # {}
        <4>1. PICK sig \in Deliverable :
                \/ /\ ToProgram
                   /\ signal' = [signal EXCEPT ![current] = @ \ {sig}]
                   /\ \E m \in Masks \cup {{}} : blocked' = [blocked EXCEPT ![current] = @ \cup m]
                   /\ UNCHANGED <<state, counter, priority, alarm, current, phase, next,
                                  ticked, forks>>
                \/ DoExit([signal EXCEPT ![current] = @ \ {sig}])
          BY <1>7, <3>2, Zenon DEF RetFromSysCall
        <4>2. CASE DoExit([signal EXCEPT ![current] = @ \ {sig}])
          BY <4>2, Zenon
        <4>3. CASE ~DoExit([signal EXCEPT ![current] = @ \ {sig}])
          <5>1. PICK m \in SUBSET Signals : blocked' = [blocked EXCEPT ![current] = @ \cup m]
            BY <4>1, <4>3, <2>4, Zenon
          <5>2. sig \in Signals
            BY <2>4
          <5>3. signal' = [signal EXCEPT ![current] = @ \ {sig}] /\ ToProgram
                /\ UNCHANGED <<state, counter, priority, alarm, current, phase, next,
                               ticked, forks>>
            BY <4>1, <4>3, Zenon
          <5>4. signal' \in [Slot -> SUBSET Signals] /\ blocked' \in [Slot -> SUBSET Signals]
            BY <5>1, <5>2, <5>3, <2>3
          <5> QED BY <5>3, <5>4
        <4> QED BY <4>2, <4>3
      <3> QED BY <3>1, <3>2
    <2> QED BY <2>1, <2>2, <2>6
  <1>8. ASSUME NEW s \in Task, InterruptWakes(s) \/ CallWakes(s) \/ Reap(s)
        PROVE  TypeOK' /\ CounterBounded'
    <2>1. CASE InterruptWakes(s) \/ CallWakes(s)
      BY <1>a, <2>1 DEF InterruptWakes, CallWakes, Returns, TypeOK, CounterBounded, TaskState,
                        Place
    <2>2. CASE Reap(s)
      <3>1. counter' \in [Slot -> CounterRange]
        BY <2>2, <1>a, <1>b DEF Reap, ClearSlot
      <3>2. priority' \in [Slot -> 1 .. MaxPriority]
        BY <2>2, <1>a, <1>d DEF Reap, ClearSlot, TypeOK
      <3>3. /\ state' \in [Slot -> TaskState] /\ alarm' \in [Slot -> Alarm]
            /\ signal' \in [Slot -> SUBSET Signals] /\ blocked' \in [Slot -> SUBSET Signals]
        BY <2>2, <1>a DEF Reap, ClearSlot, TypeOK, TaskState, Alarm, NoAlarm
      <3> HIDE DEF CounterRange
      <3> QED BY <2>2, <1>c, <3>1, <3>2, <3>3 DEF Reap, CallSchedule, TypeOK, Place, Phase
    <2> QED BY <1>8, <2>1, <2>2
  <1>9. ASSUME NEW s \in Task, NEW sig \in Sent, InterruptSignals(s, sig) \/ Kill(s, sig)
        PROVE  TypeOK' /\ CounterBounded'
    BY <1>9 DEF InterruptSignals, Kill, Returns, TypeOK, CounterBounded, Place, Task
  <1>10. ASSUME NEW st \in {"INTERRUPTIBLE", "UNINTERRUPTIBLE"}, Sleep(st)
         PROVE  TypeOK' /\ CounterBounded'
    BY <1>10 DEF Sleep, CallSchedule, TypeOK, CounterBounded, TaskState, Place, Phase
  <1>11. ASSUME NEW m \in Masks, SetMask(m)
         PROVE  TypeOK' /\ CounterBounded'
    BY <1>11 DEF SetMask, Returns, TypeOK, CounterBounded, Place
  <1>12. ASSUME NEW n \in AlarmTicks, SetAlarm(n)
         PROVE  TypeOK' /\ CounterBounded'
    BY <1>12 DEF SetAlarm, Returns, TypeOK, CounterBounded, Place, Alarm, NoAlarm
  <1>13. ASSUME NEW i \in Increments, Nice(i)
         PROVE  TypeOK' /\ CounterBounded'
    <2>1. Niced(priority[current], i) \in 1 .. MaxPriority
      BY <1>13 DEF Nice, Niced, TypeOK
    <2> QED BY <1>13, <2>1 DEF Nice, Returns, TypeOK, CounterBounded, Place
  <1>14. CASE Fork
    <2>1. priority[current] \in 1 .. MaxPriority /\ blocked[current] \in SUBSET Signals
      BY DEF TypeOK
    <2>2. ASSUME NEW s \in Task
          PROVE  /\ [counter EXCEPT ![s] = priority[current]] \in [Slot -> CounterRange]
                 /\ [priority EXCEPT ![s] = priority[current]] \in [Slot -> 1 .. MaxPriority]
      BY <1>a, <1>b, <2>1 DEF TypeOK
    <2>3. counter' \in [Slot -> CounterRange] /\ priority' \in [Slot -> 1 .. MaxPriority]
      BY <1>14, <1>b, <2>2 DEF Fork, Returns, TypeOK
    <2>4. irq' \in [Slot -> BOOLEAN] /\ ticked' \in BOOLEAN
      BY <1>14, <1>a DEF Fork, Returns, TypeOK
    <2>5. /\ state' \in [Slot -> TaskState] /\ alarm' \in [Slot -> Alarm]
          /\ signal' \in [Slot -> SUBSET Signals] /\ blocked' \in [Slot -> SUBSET Signals]
          /\ place' \in [Slot -> Place]
      BY <1>14, <1>a, <2>1 DEF Fork, Returns, TypeOK, TaskState, Alarm, NoAlarm, Place
    <2> HIDE DEF CounterRange
    <2> QED BY <1>14, <1>c, <2>3, <2>4, <2>5 DEF Fork, Returns, TypeOK
  <1>15. CASE Exit
    BY <1>15, <1>6 DEF Exit, TypeOK
  <1>16. CASE UNCHANGED vars
    BY <1>16 DEF vars, taskVars, TypeOK, CounterBounded
  <1> QED
    BY <1>1, <1>2, <1>3, <1>4, <1>5, <1>7, <1>8, <1>9, <1>10, <1>11, <1>12, <1>13, <1>14,
       <1>15, <1>16 DEF Next, Schedule, Return

\* A step keeps a runnable choice runnable, and hands the processor only to it.
LEMMA StepRuns == IInv /\ [Next]_vars => CurrentRuns' /\ NextRuns'
  <1> SUFFICES ASSUME IInv, [Next]_vars
               PROVE  CurrentRuns' /\ NextRuns'
    OBVIOUS
  <1> USE DEF IInv, CurrentRuns, NextRuns
  <1>a. state \in [Slot -> TaskState] /\ current \in Slot /\ next \in Slot /\ Task \subseteq Slot
    BY DEF TypeOK, Task
  <1>1. CASE ScheduleWake
    BY <1>1 DEF ScheduleWake
  <1>2. CASE SchedulePick
    BY <1>2, <1>a DEF SchedulePick, IsBest, Runnable
  <1>3. CASE ScheduleSwitch
    BY <1>3 DEF ScheduleSwitch, taskVars
  <1>4. CASE Timer
    BY <1>4 DEF Timer, TimerUser, TimerKernel, CallSchedule
  <1>5. CASE SystemCallEnd
    BY <1>5 DEF SystemCallEnd, CallSchedule
  <1>6. CASE RetFromSysCall
    BY <1>6 DEF RetFromSysCall, DoExit, CallSchedule
  <1>7. ASSUME NEW s \in Task, InterruptWakes(s) \/ CallWakes(s) \/ Reap(s)
        PROVE  CurrentRuns' /\ NextRuns'
    BY <1>7, <1>a DEF InterruptWakes, CallWakes, Reap, Returns, CallSchedule, UserCalls, InProgram
  <1>8. ASSUME NEW s \in Task, NEW sig \in Sent, InterruptSignals(s, sig) \/ Kill(s, sig)
        PROVE  CurrentRuns' /\ NextRuns'
    BY <1>8 DEF InterruptSignals, Kill, Returns
  <1>9. ASSUME NEW st \in {"INTERRUPTIBLE", "UNINTERRUPTIBLE"}, Sleep(st)
        PROVE  CurrentRuns' /\ NextRuns'
    BY <1>9 DEF Sleep, CallSchedule
  <1>10. ASSUME NEW m \in Masks, SetMask(m)
         PROVE  CurrentRuns' /\ NextRuns'
    BY <1>10 DEF SetMask, Returns
  <1>11. ASSUME NEW n \in AlarmTicks, SetAlarm(n)
         PROVE  CurrentRuns' /\ NextRuns'
    BY <1>11 DEF SetAlarm, Returns
  <1>12. ASSUME NEW i \in Increments, Nice(i)
         PROVE  CurrentRuns' /\ NextRuns'
    BY <1>12 DEF Nice, Returns
  <1>13. CASE Fork
    BY <1>13, <1>a DEF Fork, Returns, InProgram
  <1>14. CASE Exit
    BY <1>14 DEF Exit, DoExit, CallSchedule
  <1>15. CASE UNCHANGED vars
    BY <1>15 DEF vars, taskVars
  <1> QED
    BY <1>1, <1>2, <1>3, <1>4, <1>5, <1>6, <1>7, <1>8, <1>9, <1>10, <1>11, <1>12, <1>13,
       <1>14, <1>15 DEF Next, Schedule, Return

\* The task table keeps its types and every counter stays below twice the
\* priority bound, for any number of recharges (schedule(), do_timer()).
THEOREM CountersStayBounded == Spec => [](TypeOK /\ CounterBounded)
  <1>1. Init => TypeOK /\ CounterBounded
    BY InitInv DEF IInv
  <1> QED BY <1>1, StepType, PTL DEF Spec

\* The invariant of the scheduler.
LEMMA Invariance == Spec => []IInv
  <1>1. IInv /\ [Next]_vars => IInv'
    BY StepType, StepRuns DEF IInv
  <1> QED BY InitInv, <1>1, PTL DEF Spec

\* Only a RUNNING task (or the idle task) executes outside schedule().
THEOREM OnlyRunnableTasksRun == Spec => []CurrentRuns
  <1>1. IInv => CurrentRuns
    BY DEF IInv
  <1> QED BY <1>1, Invariance, PTL

\* With interrupts off nothing changes between the signal loop, the search and
\* the switch, so what the loop and the search establish still holds.
LEMMA StepQuiet == IInv /\ Quiet /\ [Next]_vars => Quiet'
  <1> SUFFICES ASSUME IInv, Quiet, [Next]_vars
               PROVE  Quiet'
    OBVIOUS
  <1> USE DEF Quiet, QuietPick, IdleOnlyWhenNothingRuns, Unmasked, Runnable
  <1>a. /\ state \in [Slot -> TaskState] /\ signal \in [Slot -> SUBSET Signals]
        /\ blocked \in [Slot -> SUBSET Signals] /\ irq \in [Slot -> BOOLEAN]
        /\ current \in Slot /\ Task \subseteq Slot /\ 0 \notin Task
    BY DEF IInv, TypeOK, Task
  <1>1. CASE ScheduleWake
    BY <1>1, <1>a DEF ScheduleWake, WakeState
  <1>2. CASE SchedulePick
    BY <1>2, <1>a DEF SchedulePick
  <1>3. CASE phase' = "wake" \/ phase' = "out"
    BY <1>3
  <1>4. CASE irq[current] /\ UNCHANGED <<irq, current>>
    BY <1>4
  <1>5. CASE UNCHANGED vars
    BY <1>5 DEF vars, taskVars
  <1>6. CASE Timer
    BY <1>3, <1>4, <1>6 DEF Timer, TimerUser, TimerKernel, CallSchedule
  <1>7. CASE Return
    BY <1>3, <1>7 DEF Return, SystemCallEnd, RetFromSysCall, CallSchedule, DoExit
  <1>8. ASSUME NEW s \in Task, InterruptWakes(s) \/ CallWakes(s) \/ Reap(s)
        PROVE  Quiet'
    BY <1>3, <1>4, <1>8 DEF InterruptWakes, CallWakes, Reap, Returns, CallSchedule, UserCalls,
                            InProgram
  <1>9. ASSUME NEW s \in Task, NEW sig \in Sent, InterruptSignals(s, sig) \/ Kill(s, sig)
        PROVE  Quiet'
    BY <1>3, <1>4, <1>9 DEF InterruptSignals, Kill, Returns, UserCalls, InProgram
  <1>10. ASSUME NEW st \in {"INTERRUPTIBLE", "UNINTERRUPTIBLE"}, Sleep(st)
         PROVE  Quiet'
    BY <1>3, <1>10 DEF Sleep, CallSchedule
  <1>11. CASE \/ \E m \in Masks : SetMask(m)
              \/ \E n \in AlarmTicks : SetAlarm(n)
              \/ \E i \in Increments : Nice(i)
    BY <1>3, <1>11 DEF SetMask, SetAlarm, Nice, Returns, UserCalls, InProgram
  <1>12. CASE Fork \/ Exit
    BY <1>3, <1>12 DEF Fork, Exit, DoExit, CallSchedule, Returns, InProgram
  <1>13. CASE ScheduleSwitch
    BY <1>3, <1>13 DEF ScheduleSwitch
  <1> QED
    BY <1>1, <1>2, <1>5, <1>6, <1>7, <1>8, <1>9, <1>10, <1>11, <1>12, <1>13
       DEF Next, Schedule

\* The timer's call of schedule() picks the idle task only when nothing can
\* run, and leaves no sleeper with a signal it does not block.
THEOREM IdleOnlyWhenIdle == Spec => []IdleOnlyWhenNothingRuns
  <1>1. Init => IInv /\ Quiet
    BY InitInv DEF Init, Quiet, QuietPick, IdleOnlyWhenNothingRuns
  <1>2. (IInv /\ Quiet) /\ [Next]_vars => (IInv /\ Quiet)'
    BY StepType, StepRuns, StepQuiet DEF IInv
  <1>3. Quiet => IdleOnlyWhenNothingRuns
    BY DEF Quiet
  <1> QED BY <1>1, <1>2, <1>3, PTL DEF Spec

\* What a change of one slot's state is for the abstract task life.
LEMMA LifeChange ==
  ASSUME state \in [Slot -> TaskState], NEW s \in Task, NEW st \in TaskState,
         state' = [state EXCEPT ![s] = st]
  PROVE  LifeMap' = [LifeMap EXCEPT ![s] = LifeOf(st)]
  BY DEF LifeMap, Task

\* Every step of the scheduler is a step of the task life, or stutters.
LEMMA StepLife == IInv /\ [Next]_vars => [Life!Next]_Life!lifeVars
  <1> SUFFICES ASSUME IInv, [Next]_vars
               PROVE  Life!Next \/ UNCHANGED Life!lifeVars
    OBVIOUS
  <1> USE DEF Life!lifeVars, Life!NoOne
  <1>a. /\ state \in [Slot -> TaskState] /\ current \in Slot /\ next \in Slot
        /\ Slot = Task \cup {0} /\ 0 \notin Task /\ -1 \notin Slot
    BY SchedAssumption DEF IInv, TypeOK, Task, Slot
  <1>b. CurrentRuns /\ NextRuns
    BY DEF IInv
  <1>c. ASSUME UNCHANGED state PROVE UNCHANGED LifeMap
    BY <1>c DEF LifeMap
  <1>d. \A s \in Task : LifeMap[s] = LifeOf(state[s])
    BY DEF LifeMap
  <1>1. CASE UNCHANGED <<state, current, phase>>
    BY <1>1, <1>c DEF Holder
  <1>2. CASE UNCHANGED state /\ phase = "out" /\ phase' = "wake"
    BY <1>2, <1>a, <1>c DEF Holder, Life!Next, Life!GiveUp
  <1>3. CASE UNCHANGED state /\ phase # "out" /\ phase' # "out"
    BY <1>3, <1>c DEF Holder
  <1>4. CASE ScheduleWake
    <2> DEFINE S == {s \in Task : state[s] # state'[s]}
    <2>1. \A s \in S : state[s] = "INTERRUPTIBLE" /\ state'[s] = "RUNNING"
      BY <1>4, <1>a DEF ScheduleWake, WakeState
    <2>2. \A s \in S : LifeMap[s] = "blocked" /\ LifeOf(state'[s]) = "ready"
      BY <2>1, <1>d DEF LifeOf
    <2>3. LifeMap' = [t \in Task |-> IF t \in S THEN "ready" ELSE LifeMap[t]]
      BY <2>2, <1>d DEF LifeMap
    <2>4. UNCHANGED Holder
      BY <1>4 DEF ScheduleWake, Holder
    <2>5. Life!Awake(S)
      BY <2>2, <2>3, <2>4 DEF Life!Awake
    <2> QED BY <2>5 DEF Life!Next
  <1>5. CASE SchedulePick
    BY <1>5, <1>3 DEF SchedulePick
  <1>6. CASE ScheduleSwitch
    <2>1. UNCHANGED state /\ Holder = -1 /\ Holder' = next
      BY <1>6 DEF ScheduleSwitch, taskVars, Holder
    <2>2. next = 0 \/ LifeMap[next] = "ready"
      BY <1>6, <1>a, <1>b, <1>d DEF ScheduleSwitch, NextRuns, LifeOf
    <2>3. Life!Dispatch(next)
      BY <2>1, <2>2, <1>c DEF Life!Dispatch
    <2> QED BY <2>3, <1>a DEF Life!Next
  <1>7. CASE Timer
    BY <1>1, <1>2, <1>7 DEF Timer, TimerUser, TimerKernel, CallSchedule
  <1>8. CASE SystemCallEnd
    BY <1>1, <1>2, <1>8 DEF SystemCallEnd, CallSchedule
  <1>9. ASSUME NEW st \in {"INTERRUPTIBLE", "UNINTERRUPTIBLE", "ZOMBIE", "EMPTY"},
               state' = [state EXCEPT ![current] = st], phase = "out", phase' = "wake"
        PROVE  Life!Next
    <2>1. Holder = current /\ Holder' = -1
      BY <1>9 DEF Holder
    <2>2. CASE current = 0
      <3>1. LifeMap' = LifeMap
        BY <1>9, <1>a, <2>2 DEF LifeMap
      <3> QED BY <3>1, <2>1, <1>a DEF Life!Next, Life!GiveUp
    <2>3. CASE current # 0
      <3>1. current \in Task /\ st \in TaskState
        BY <2>3, <1>a DEF TaskState
      <3>2. LifeMap' = [LifeMap EXCEPT ![current] = LifeOf(st)]
        BY <1>9, <1>a, <3>1, LifeChange
      <3>3. LifeOf(st) \in {"blocked", "dead", "absent"}
        BY DEF LifeOf
      <3> QED BY <2>1, <2>3, <3>2, <3>3, <1>a DEF Life!Next, Life!GiveUp
    <2> QED BY <2>2, <2>3
  <1>10. ASSUME NEW sigs, DoExit(sigs), phase = "out" PROVE Life!Next
    BY <1>9, <1>10 DEF DoExit, ClearSlot, CallSchedule
  <1>11. CASE RetFromSysCall
    BY <1>1, <1>10, <1>11 DEF RetFromSysCall
  <1>12. ASSUME NEW s \in Task, InterruptWakes(s) \/ CallWakes(s) PROVE Life!Next
    <2>1. LifeMap' = [LifeMap EXCEPT ![s] = LifeOf("RUNNING")]
      BY <1>12, <1>a, LifeChange DEF InterruptWakes, CallWakes, TaskState
    <2>2. LifeMap[s] = "blocked" /\ LifeOf("RUNNING") = "ready"
      BY <1>12, <1>d DEF InterruptWakes, CallWakes, LifeOf
    <2>3. LifeMap' = [t \in Task |-> IF t \in {s} THEN "ready" ELSE LifeMap[t]]
      BY <2>1, <2>2 DEF LifeMap
    <2>4. UNCHANGED Holder
      BY <1>12 DEF InterruptWakes, CallWakes, Returns, Holder
    <2>5. Life!Awake({s})
      BY <2>2, <2>3, <2>4 DEF Life!Awake
    <2> QED BY <2>5 DEF Life!Next
  <1>13. ASSUME NEW s \in Task, Reap(s) PROVE Life!Next
    <2>1. LifeMap' = [LifeMap EXCEPT ![s] = LifeOf("EMPTY")]
      BY <1>13, <1>a, LifeChange DEF Reap, ClearSlot, TaskState
    <2>2. LifeMap[s] = "dead" /\ LifeOf("EMPTY") = "absent"
      BY <1>13, <1>d DEF Reap, LifeOf
    <2>3. Holder = current /\ Holder' = -1 /\ current # -1 /\ current # s
      BY <1>13, <1>a, <1>b DEF Reap, UserCalls, InProgram, CallSchedule, Holder, CurrentRuns
    <2>4. Life!Bury(s)
      BY <2>1, <2>2, <2>3 DEF Life!Bury
    <2> QED BY <2>4 DEF Life!Next
  <1>14. CASE Fork
    <2>1. CASE \E s \in Task : state[s] = "EMPTY" /\ state' = [state EXCEPT ![s] = "RUNNING"]
      <3>1. PICK s \in Task : state[s] = "EMPTY" /\ state' = [state EXCEPT ![s] = "RUNNING"]
        BY <2>1
      <3>2. LifeMap' = [LifeMap EXCEPT ![s] = LifeOf("RUNNING")]
        BY <3>1, <1>a, LifeChange DEF TaskState
      <3>3. LifeMap[s] = "absent" /\ LifeOf("RUNNING") = "ready"
        BY <3>1, <1>d DEF LifeOf
      <3>4. Holder = current /\ Holder' = current /\ current # -1
        BY <1>14, <1>a DEF Fork, InProgram, Returns, Holder
      <3>5. Life!Create(s)
        BY <3>2, <3>3, <3>4 DEF Life!Create
      <3> QED BY <3>5 DEF Life!Next
    <2>2. CASE UNCHANGED <<state, current, phase>>
      BY <1>1, <2>2
    <2> QED BY <1>14, <2>1, <2>2 DEF Fork, Returns
  <1>15. CASE Exit
    BY <1>10, <1>15 DEF Exit, UserCalls, InProgram
  <1>16. ASSUME NEW st \in {"INTERRUPTIBLE", "UNINTERRUPTIBLE"}, Sleep(st)
         PROVE  Life!Next
    BY <1>9, <1>16 DEF Sleep, InProgram, CallSchedule
  <1>17. CASE \/ \E s \in Task, sig \in Sent : InterruptSignals(s, sig) \/ Kill(s, sig)
              \/ \E m \in Masks : SetMask(m)
              \/ \E n \in AlarmTicks : SetAlarm(n)
              \/ \E i \in Increments : Nice(i)
    BY <1>1, <1>17 DEF InterruptSignals, Kill, SetMask, SetAlarm, Nice, Returns
  <1>18. CASE UNCHANGED vars
    BY <1>1, <1>18 DEF vars, taskVars
  <1> QED
    BY <1>4, <1>5, <1>6, <1>7, <1>8, <1>11, <1>12, <1>13, <1>14, <1>15, <1>16, <1>17, <1>18
       DEF Next, Schedule, Return

\* The scheduler implements TaskLife: at most one holder, which is ready; no
\* task is taken off the ready ones by another; the dead stay dead.
THEOREM SchedImplementsTaskLife == Spec => ImplementsTaskLife
  <1>1. Init => Life!Init
    BY SchedAssumption DEF Init, Life!Init, LifeMap, LifeOf, Holder, Task, Slot
  <1> QED BY <1>1, StepLife, Invariance, PTL DEF Spec, ImplementsTaskLife, Life!Spec
=============================================================================
