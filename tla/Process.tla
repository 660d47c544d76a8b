------------------------------- MODULE Process -------------------------------
(***************************************************************************)
(* Birth and death of processes: find_empty_process() and copy_process()   *)
(* of kernel/fork.c; do_exit(), tell_father(), release(), sys_waitpid()    *)
(* and sys_kill() of kernel/exit.c.                                        *)
(*                                                                         *)
(* The kernel is not preempted, so each stretch between two calls of       *)
(* schedule() is one step.  do_exit() may sleep while it closes files and  *)
(* puts inodes, after it has given its children to init and before it is   *)
(* a zombie: it is two steps.  Of the signals only SIGCHLD and those that  *)
(* kill are told apart.  A father is known by its pid, and pids are used   *)
(* again once last_pid has wrapped.                                        *)
(***************************************************************************)
EXTENDS Integers, FiniteSets

CONSTANTS
  NR_TASKS,    \* size of task[]
  MaxPid,      \* last_pid wraps to 1 after it (2^31 - 1 in the kernel)
  InitMayDie   \* a fatal signal may be sent to init

ASSUME ProcessAssumption ==
  /\ NR_TASKS \in Nat \ {0, 1}
  /\ MaxPid \in Nat /\ MaxPid > NR_TASKS
  /\ InitMayDie \in BOOLEAN

Slot == 0 .. NR_TASKS - 1
Task == Slot \ {0}
Pid == 1 .. MaxPid
None == -1          \* the pid of an empty slot
Any == 0            \* the argument -1 of waitpid(): any child

VARIABLES
  pid,       \* pid of each slot's task, None for an empty slot
  father,    \* pid of its father
  st,        \* "RUN"; "WAIT" asleep in waitpid(); "EXIT" asleep in do_exit();
             \* "ZOMBIE"; "EMPTY"
  want,      \* the pid a task waits for in waitpid(), or Any
  chld,      \* the tasks with SIGCHLD pending
  fatal,     \* the tasks with a fatal signal pending
  last_pid

vars == <<pid, father, st, want, chld, fatal, last_pid>>

TypeOK ==
  /\ pid \in [Slot -> Pid \cup {0, None}]
  /\ father \in [Slot -> Pid \cup {0, None}]
  /\ st \in [Slot -> {"RUN", "WAIT", "EXIT", "ZOMBIE", "EMPTY"}]
  /\ want \in [Slot -> Pid \cup {Any}]
  /\ chld \in SUBSET Slot
  /\ fatal \in SUBSET Task
  /\ last_pid \in Pid

\* main() has made init, which is task[1] with pid 1.
Init ==
  /\ pid = [s \in Slot |-> IF s \in {0, 1} THEN s ELSE None]
  /\ father = [s \in Slot |-> IF s = 1 THEN 0 ELSE None]
  /\ st = [s \in Slot |-> IF s \in {0, 1} THEN "RUN" ELSE "EMPTY"]
  /\ want = [s \in Slot |-> Any]
  /\ chld = {} /\ fatal = {}
  /\ last_pid = 1

Present(s) == st[s] # "EMPTY"

\* The slot is in its program or in a system call, with no reason to die.
Runs(s) == s \in Task /\ st[s] = "RUN"

-----------------------------------------------------------------------------
(* fork *)

MutAfter(n) == last_pid + n

\* last_pid after n increments, wrapping from MaxPid to 1.
After(n) == ((last_pid + n - 1) % MaxPid) + 1

MutTaken(p) == \E s \in Slot : Present(s) /\ st[s] # "ZOMBIE" /\ pid[s] = p
Taken(p) == \E s \in Slot : Present(s) /\ pid[s] = p

\* The loop at `repeat': the first pid after last_pid that no task has.
NewPid(p) == \E n \in 1 .. NR_TASKS + 1 :
               /\ p = After(n) /\ ~Taken(p)
               /\ \A k \in 1 .. n - 1 : Taken(After(k))

\* last_pid advances even when no slot is left or memory is short (-EAGAIN).
Fork(s) ==
  /\ Runs(s)
  /\ \E p \in {After(n) : n \in 1 .. NR_TASKS + 1} :
       /\ NewPid(p)
       /\ last_pid' = p
       /\ \/ \E n \in Task :
               /\ ~Present(n) /\ \A k \in Task : k < n => Present(k)
               /\ pid' = [pid EXCEPT ![n] = p]
               /\ father' = [father EXCEPT ![n] = pid[s]]
               /\ st' = [st EXCEPT ![n] = "RUN"]
          \/ UNCHANGED <<pid, father, st>>
  /\ UNCHANGED <<want, chld, fatal>>

-----------------------------------------------------------------------------
(* exit *)

\* release(): the slot is empty; its signals go with the page.
Empties(s) ==
  /\ st' = [st EXCEPT ![s] = "EMPTY"]
  /\ pid' = [pid EXCEPT ![s] = None]
  /\ father' = [father EXCEPT ![s] = None]
  /\ want' = [want EXCEPT ![s] = Any]
  /\ fatal' = fatal \ {s}

Children(s) == {c \in Slot : Present(c) /\ father[c] = pid[s]}

MutNewFather(s) == father
MutAdopters(s) == {}

NewFather(s) == [c \in Slot |-> IF c \in Children(s) THEN 1 ELSE father[c]]

\* "assumption task[1] is always init"
Adopters(s) == IF Present(1) /\ \E c \in Children(s) : st[c] = "ZOMBIE" THEN {1} ELSE {}

\* do_exit() up to its first sleep; by sys_exit() or by a fatal signal on the
\* way back to the program.  init never calls exit().
DoExit(s) ==
  /\ Runs(s)
  /\ pid[s] = 1 => s \in fatal
  /\ father' = NewFather(s)
  /\ chld' = chld \cup Adopters(s)
  /\ st' = [st EXCEPT ![s] = "EXIT"]
  /\ UNCHANGED <<pid, want, fatal, last_pid>>

Fathers(s) == {f \in Slot : Present(f) /\ pid[f] = father[s]}

\* tell_father(): who gets SIGCHLD.
Told(s) == IF father[s] = 0 THEN {} ELSE Fathers(s)

\* The rest of do_exit(); with no father to tell, release(current).
ExitEnds(s) ==
  /\ st[s] = "EXIT"
  /\ IF Told(s) # {}
       THEN /\ st' = [st EXCEPT ![s] = "ZOMBIE"]
            /\ \E f \in Told(s) : (\A g \in Told(s) : f <= g) /\ chld' = chld \cup {f}
            /\ UNCHANGED <<pid, father, want, fatal>>
       ELSE Empties(s) /\ chld' = chld \ {s}
  /\ UNCHANGED last_pid

-----------------------------------------------------------------------------
(* waitpid *)

Match(s, w) == {c \in Task \ {s} : /\ Present(c) /\ father[c] = pid[s]
                                   /\ w = Any \/ pid[c] = w}

\* The scan from the last slot: a zombie is released, else the task sleeps if
\* it has a child to wait for, else it returns.  pending is chld as the scan
\* finds it.
Scan(s, w, pending) ==
  LET dead == {c \in Match(s, w) : st[c] = "ZOMBIE"}
  IN  \/ \E c \in dead :
           /\ \A d \in dead : d <= c
           /\ st' = [st EXCEPT ![c] = "EMPTY", ![s] = "RUN"]
           /\ pid' = [pid EXCEPT ![c] = None]
           /\ father' = [father EXCEPT ![c] = None]
           /\ want' = [want EXCEPT ![c] = Any, ![s] = Any]
           /\ fatal' = fatal \ {c}
           /\ chld' = pending \ {c}
      \/ /\ dead = {} /\ Match(s, w) # {}
         /\ st' = [st EXCEPT ![s] = "WAIT"]
         /\ want' = [want EXCEPT ![s] = w]
         /\ chld' = pending
         /\ UNCHANGED <<pid, father, fatal>>
      \/ /\ Match(s, w) = {}
         /\ st' = [st EXCEPT ![s] = "RUN"]
         /\ want' = [want EXCEPT ![s] = Any]
         /\ chld' = pending
         /\ UNCHANGED <<pid, father, fatal>>

\* init() waits with wait(), which is waitpid() for any child.
WaitPid(s, w) ==
  /\ Runs(s)
  /\ pid[s] = 1 => w = Any
  /\ Scan(s, w, chld)
  /\ UNCHANGED last_pid

MutWoken(s) == s \in fatal
Woken(s) == s \in chld \cup fatal

\* schedule() returns once a signal is pending.  SIGCHLD is cleared; with
\* another one pending the call ends with -EINTR, else the scan starts again.
WaitWakes(s) ==
  /\ st[s] = "WAIT" /\ Woken(s)
  /\ IF s \in fatal
       THEN /\ st' = [st EXCEPT ![s] = "RUN"]
            /\ want' = [want EXCEPT ![s] = Any]
            /\ chld' = chld \ {s}
            /\ UNCHANGED <<pid, father, fatal>>
       ELSE Scan(s, want[s], chld \ {s})
  /\ UNCHANGED last_pid

-----------------------------------------------------------------------------
(* signals *)

\* do_signal(SIGCHLD) with the default action returns.
ChldIgnored(s) ==
  /\ Runs(s) /\ s \in chld
  /\ chld' = chld \ {s}
  /\ UNCHANGED <<pid, father, st, want, fatal, last_pid>>

\* sys_kill(p > 0) with a fatal signal: every slot above 0 with that pid.
Kill(s, p) ==
  /\ Runs(s)
  /\ p = 1 => InitMayDie
  /\ fatal' = fatal \cup {t \in Task : Present(t) /\ pid[t] = p}
  /\ UNCHANGED <<pid, father, st, want, chld, last_pid>>

Next == \E s \in Task : \/ Fork(s) \/ DoExit(s) \/ ExitEnds(s) \/ WaitWakes(s) \/ ChldIgnored(s)
                        \/ \E p \in Pid : WaitPid(s, p) \/ Kill(s, p)
                        \/ WaitPid(s, Any)

\* init() calls wait() in a loop; the files of an exiting task get closed; a
\* task that can run does (Sched), so what is pending is looked at.
Fairness ==
  /\ WF_vars(\E s \in Task : pid[s] = 1 /\ WaitPid(s, Any))
  /\ \A s \in Task : WF_vars(ExitEnds(s)) /\ WF_vars(WaitWakes(s))

Spec == Init /\ [][Next]_vars
FairSpec == Spec /\ Fairness

-----------------------------------------------------------------------------
(* Properties *)

\* No two tasks have the same pid, also after last_pid has wrapped: a zombie
\* keeps its pid until it is waited for.
PidsUnique == \A s, t \in Slot : s # t /\ Present(s) /\ Present(t) => pid[s] # pid[t]

\* While init lives, the father of every other task is a task that is not
\* dying: whatever the order of exits, there is always someone to tell and
\* someone to wait.  Without it tell_father() prints "BAD BAD - no father
\* found" and the exit code is lost.
FatherAlive ==
  \A s \in Task : Present(s) /\ pid[s] # 1 =>
    \E f \in Slot : pid[f] = father[s] /\ st[f] \in {"RUN", "WAIT"}

\* A task asleep in waitpid() whose child is already a zombie has SIGCHLD
\* pending: no order of exit, adoption and wait leaves it asleep for ever.
NoLostChild ==
  \A s \in Task : st[s] = "WAIT" /\ (\E c \in Match(s, want[s]) : st[c] = "ZOMBIE")
                    => s \in chld

\* Once forking stops, every zombie that belongs to init is buried, the
\* adopted ones included.  (The scan of waitpid() starts at the last slot, so
\* an endless supply of zombies in a high slot can keep a low one waiting.)
InitReaps ==
  <>[][UNCHANGED last_pid]_vars =>
    \A s \in Task : st[s] = "ZOMBIE" /\ father[s] = 1 ~> st[s] = "EMPTY"
=============================================================================
