------------------------------ MODULE TaskLife ------------------------------
(***************************************************************************)
(* What the process core of the kernel promises to every other part: the   *)
(* life of a task, and who may change it.  One processor; a task that      *)
(* holds it is ready; a task stops being ready only by its own doing,      *)
(* while it holds the processor; a dead task never comes back to life      *)
(* before its slot has been cleared and filled again.                      *)
(*                                                                         *)
(* This is the abstract specification that Sched (kernel/sched.c and the   *)
(* return paths of kernel/system_call.s) is shown to implement.            *)
(***************************************************************************)
EXTENDS Integers

CONSTANT Task       \* the slots of task[] above 0 (positive numbers); 0 is the idle task

NoOne == -1

VARIABLES
  life,   \* life[t]: "absent", "ready", "blocked" or "dead"
  cpu     \* the task that holds the processor, 0 (idle), or NoOne

lifeVars == <<life, cpu>>

Init == /\ life = [t \in Task |-> "absent"]
        /\ cpu = 0

\* The holder enters schedule(): it stays ready (its time is up), blocks
\* itself, dies, or dies with nobody to tell, which clears its slot at once.
GiveUp == /\ cpu # NoOne
          /\ cpu' = NoOne
          /\ \/ life' = life
             \/ /\ cpu # 0
                /\ \E l \in {"blocked", "dead", "absent"} :
                      life' = [life EXCEPT ![cpu] = l]

\* schedule() hands the processor to a ready task, or to the idle task.
Dispatch(t) == /\ cpu = NoOne
               /\ t = 0 \/ life[t] = "ready"
               /\ cpu' = t
               /\ UNCHANGED life

\* An interrupt, a signal or another task makes blocked tasks ready.
Awake(S) == /\ \A t \in S : life[t] = "blocked"
            /\ life' = [t \in Task |-> IF t \in S THEN "ready" ELSE life[t]]
            /\ UNCHANGED cpu

\* The holder makes a task, or clears the slot of a dead one (and may give
\* up the processor as it does).
Create(t) == /\ cpu # NoOne
             /\ life[t] = "absent"
             /\ life' = [life EXCEPT ![t] = "ready"]
             /\ UNCHANGED cpu

Bury(t) == /\ cpu # NoOne
           /\ t # cpu
           /\ life[t] = "dead"
           /\ life' = [life EXCEPT ![t] = "absent"]
           /\ cpu' \in {cpu, NoOne}

Next == \/ GiveUp
        \/ \E t \in Task \cup {0} : Dispatch(t)
        \/ \E S \in SUBSET Task : Awake(S)
        \/ \E t \in Task : Create(t) \/ Bury(t)

Spec == Init /\ [][Next]_lifeVars
=============================================================================
