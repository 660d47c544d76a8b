------------------------------ MODULE WaitQueue ------------------------------
(***************************************************************************)
(* sleep_on(), interruptible_sleep_on() and wake_up() of kernel/sched.c.   *)
(*                                                                         *)
(* A wait queue is one pointer.  A sleeper saves the old pointer in a      *)
(* local variable on its kernel stack, so the sleepers form a list that    *)
(* exists nowhere as a data structure: it is held together by tmp.         *)
(*                                                                         *)
(* The kernel is not preempted, so what a task does between two calls of   *)
(* schedule() is one step; which runnable task goes first is left open     *)
(* (Sched).  The kernel uses each queue with one of the two functions:     *)
(* uninter is a queue of sleep_on() (a buffer, an inode, the request       *)
(* table), inter one of interruptible_sleep_on() (a terminal).  A task     *)
(* uses one of the two queues: pointers left behind by the interruptible   *)
(* one (ZombieStaysDead) could otherwise end a sleep on the other early.   *)
(***************************************************************************)
EXTENDS Naturals, FiniteSets

CONSTANTS
  UUsers,   \* the tasks that use sleep_on()
  IUsers,   \* the tasks that use interruptible_sleep_on()
  Mortal,   \* the tasks that may exit
  NULL

Proc == UUsers \cup IUsers

ASSUME WaitAssumption == NULL \notin Proc /\ UUsers \cap IUsers = {}

VARIABLES
  uninter,   \* *p of the sleep_on() queue
  inter,     \* *p of the interruptible_sleep_on() queue
  state,     \* state of each task
  tmp,       \* the local variable tmp of each sleeper
  inside,    \* which function a task is asleep in: "no", "U" or "I"
  signalled, \* the task has a signal it does not block
  waiting    \* history: who called sleep_on() since the last wake_up(&uninter)

vars == <<uninter, inter, state, tmp, inside, signalled, waiting>>

TypeOK ==
  /\ uninter \in UUsers \cup {NULL}
  /\ inter \in IUsers \cup {NULL}
  /\ state \in [Proc -> {"RUNNING", "INTERRUPTIBLE", "UNINTERRUPTIBLE", "ZOMBIE"}]
  /\ tmp \in [Proc -> Proc \cup {NULL}]
  /\ inside \in [Proc -> {"no", "U", "I"}]
  /\ signalled \in SUBSET Proc
  /\ waiting \in SUBSET UUsers

Init ==
  /\ uninter = NULL /\ inter = NULL
  /\ state = [p \in Proc |-> "RUNNING"]
  /\ tmp = [p \in Proc |-> NULL]
  /\ inside = [p \in Proc |-> "no"]
  /\ signalled = {}
  /\ waiting = {}

\* x->state = 0, where x may be NULL.
Wake(st, x) == IF x = NULL THEN st ELSE [st EXCEPT ![x] = "RUNNING"]

\* The task is on the processor and not asleep in a queue function.
Free(p) == state[p] = "RUNNING" /\ inside[p] = "no"

-----------------------------------------------------------------------------
MutSavedHead(head) == NULL

\* tmp = *p
SavedHead(head) == head

MutSleepState == "INTERRUPTIBLE"
SleepState == "UNINTERRUPTIBLE"

SleepOn(p) ==
  /\ Free(p)
  /\ tmp' = [tmp EXCEPT ![p] = SavedHead(uninter)]
  /\ uninter' = p
  /\ state' = [state EXCEPT ![p] = SleepState]
  /\ inside' = [inside EXCEPT ![p] = "U"]
  /\ waiting' = waiting \cup {p}
  /\ UNCHANGED <<inter, signalled>>

MutAfterSleep(p) == [state EXCEPT ![p] = "RUNNING"]

\* if (tmp) tmp->state = 0
AfterSleep(p) == Wake(state, tmp[p])

SleepOnReturns(p) ==
  /\ inside[p] = "U" /\ state[p] = "RUNNING"
  /\ state' = AfterSleep(p)
  /\ tmp' = [tmp EXCEPT ![p] = NULL]
  /\ inside' = [inside EXCEPT ![p] = "no"]
  /\ UNCHANGED <<uninter, inter, signalled, waiting>>

InterruptibleSleepOn(p) ==
  /\ Free(p)
  /\ tmp' = [tmp EXCEPT ![p] = inter]
  /\ inter' = p
  /\ state' = [state EXCEPT ![p] = "INTERRUPTIBLE"]
  /\ inside' = [inside EXCEPT ![p] = "I"]
  /\ UNCHANGED <<uninter, signalled, waiting>>

MutSomeoneSleptAfter(p) == inter # p

\* *p && *p != current
SomeoneSleptAfter(p) == inter # NULL /\ inter # p

\* (**p).state = 0, then back to repeat.
PassOn(p) == [Wake(state, inter) EXCEPT ![p] = "INTERRUPTIBLE"]

\* A task that resumes while another heads the queue wakes that one and goes
\* back to sleep; otherwise it empties the queue and wakes the task before it.
InterruptibleSleepOnResumes(p) ==
  /\ inside[p] = "I" /\ state[p] = "RUNNING"
  /\ IF SomeoneSleptAfter(p)
       THEN /\ state' = PassOn(p)
            /\ UNCHANGED <<inter, tmp, inside>>
       ELSE /\ inter' = NULL
            /\ state' = Wake(state, tmp[p])
            /\ tmp' = [tmp EXCEPT ![p] = NULL]
            /\ inside' = [inside EXCEPT ![p] = "no"]
  /\ UNCHANGED <<uninter, signalled, waiting>>

MutHeadAfterWakeUp == uninter
HeadAfterWakeUp == NULL

\* wake_up(), from an interrupt or from another task.
WakeUpU ==
  /\ uninter # NULL
  /\ state' = Wake(state, uninter)
  /\ uninter' = HeadAfterWakeUp
  /\ waiting' = {}
  /\ UNCHANGED <<inter, tmp, inside, signalled>>

WakeUpI ==
  /\ inter # NULL
  /\ state' = Wake(state, inter)
  /\ inter' = NULL
  /\ UNCHANGED <<uninter, tmp, inside, signalled, waiting>>

-----------------------------------------------------------------------------
(* The rest of the kernel *)

Signal(p) ==
  /\ state[p] # "ZOMBIE"
  /\ signalled' = signalled \cup {p}
  /\ UNCHANGED <<uninter, inter, state, tmp, inside, waiting>>

\* The first loop of schedule().
ScheduleWakes(p) ==
  /\ p \in signalled /\ state[p] = "INTERRUPTIBLE"
  /\ state' = [state EXCEPT ![p] = "RUNNING"]
  /\ UNCHANGED <<uninter, inter, tmp, inside, signalled, waiting>>

\* A signal is delivered on the way back to the program, and may be fatal.
Delivered(p) ==
  /\ Free(p) /\ p \in signalled
  /\ signalled' = signalled \ {p}
  /\ \/ UNCHANGED state
     \/ p \in Mortal /\ state' = [state EXCEPT ![p] = "ZOMBIE"]
  /\ UNCHANGED <<uninter, inter, tmp, inside, waiting>>

Resumes(p) == SleepOnReturns(p) \/ InterruptibleSleepOnResumes(p)

Next ==
  \/ WakeUpU \/ WakeUpI
  \/ \E p \in UUsers : SleepOn(p)
  \/ \E p \in IUsers : InterruptibleSleepOn(p)
  \/ \E p \in Proc : Resumes(p) \/ Signal(p) \/ ScheduleWakes(p) \/ Delivered(p)

\* A runnable task is scheduled (Sched, NoStarvation); what the sleepers wait
\* for keeps happening.
Fairness ==
  /\ WF_vars(WakeUpU) /\ WF_vars(WakeUpI)
  /\ \A p \in Proc : WF_vars(Resumes(p))

Spec == Init /\ [][Next]_vars
FairSpec == Spec /\ Fairness

-----------------------------------------------------------------------------
(* Properties *)

Sleepers == {p \in UUsers : inside[p] = "U"}

\* The pointer a sleeper of sleep_on() writes through when it returns never
\* goes stale: its target is still asleep in the same queue, so tmp->state = 0
\* can hit neither a task that does something else nor a zombie.
TmpIsAsleep ==
  \A p \in Sleepers : tmp[p] # NULL =>
    tmp[p] \in Sleepers /\ state[tmp[p]] = "UNINTERRUPTIBLE"

\* The hidden list loses nobody: every sleeper is the head of the queue, is
\* runnable, or is the one that exactly one other sleeper will wake.
NobodyLost ==
  \A p \in Sleepers :
    \/ p = uninter /\ state[p] = "UNINTERRUPTIBLE"
    \/ state[p] = "RUNNING"
    \/ Cardinality({r \in Sleepers : tmp[r] = p}) = 1

\* sleep_on() and wake_up() implement a broadcast: wake_up() releases all who
\* sleep at that moment although it sets one state, and nobody resumes early.
B == INSTANCE Broadcast WITH Proc <- UUsers, released <- Sleepers \ waiting
ImplementsBroadcast == B!Spec

\* Nobody sleeps for ever in sleep_on() on a queue that keeps being woken.
SleepersReturn == \A p \in UUsers : inside[p] = "U" ~> inside[p] = "no"

\* On the interruptible queue a wake-up is passed from task to task until one
\* of them returns.  (The others may be left behind: a task that sleeps
\* between a wake_up() and the return of the task it woke has no pointer to
\* that task, which then goes back to sleep with nobody to wake it.)
WakeReachesSomeone ==
  (\A p \in IUsers : inside[p] = "I") /\ (\E p \in IUsers : state[p] = "RUNNING")
    ~> (\E p \in IUsers : inside[p] = "no")

\* do_exit() relies on it: "return (-1); /* just to suppress warnings */" is
\* reached if a zombie is made runnable and scheduled again.
ZombieStaysDead == [][\A p \in Proc : state[p] = "ZOMBIE" => state'[p] = "ZOMBIE"]_vars
=============================================================================
