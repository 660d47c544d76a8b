---------------------------- MODULE ProcessProofs ----------------------------
(***************************************************************************)
(* Theorems about the birth and death of processes, for every size of      *)
(* task[] and every number of pids.                                        *)
(*                                                                         *)
(* The invariant: a slot is empty exactly when it has no pid, and task 0   *)
(* never moves (Shape); this and PidsUnique need no more than TypeOK.  The *)
(* other two rest on init, which must live: it stays in task[1] with pid 1 *)
(* (InitLives), and so the father of every orphan is there (FatherAlive)   *)
(* and the slot do_exit() signals is the one that waits (NoLostChild).     *)
(***************************************************************************)
EXTENDS Process, TLAPS

Shape ==
  /\ \A s \in Slot : Present(s) <=> pid[s] # None
  /\ \A s \in Task : pid[s] # 0
  /\ pid[0] = 0 /\ st[0] = "RUN"

IInv == TypeOK /\ Shape /\ PidsUnique

InitLives == pid[1] = 1 /\ st[1] \in {"RUN", "WAIT"} /\ 1 \notin fatal

\* The first pids are pids, and task 1 is a task.
LEMMA Constants ==
  /\ 0 \in Slot /\ 1 \in Slot /\ 1 \in Task /\ 0 \notin Task
  /\ Task \subseteq Slot /\ 1 \in Pid /\ None \notin Pid /\ 0 \notin Pid /\ None # 0
  BY ProcessAssumption DEF Slot, Task, Pid, None

\* What the search of find_empty_process() yields is a pid.
LEMMA AfterIsPid == ASSUME last_pid \in Pid, NEW n \in Nat PROVE After(n) \in Pid
  <1>1. last_pid + n - 1 \in Int /\ MaxPid \in Nat \ {0}
    BY ProcessAssumption DEF Pid
  <1>2. (last_pid + n - 1) % MaxPid \in 0 .. MaxPid - 1
    BY <1>1
  <1> QED BY <1>1, <1>2 DEF After, Pid

\* The first state satisfies the invariant.
LEMMA InitInv == Init => IInv /\ InitLives /\ FatherAlive /\ NoLostChild
  <1> SUFFICES ASSUME Init PROVE IInv /\ InitLives /\ FatherAlive /\ NoLostChild
    OBVIOUS
  <1>1. TypeOK
    BY Constants DEF Init, TypeOK, Any
  <1>2. Shape /\ PidsUnique
    BY Constants DEF Init, Shape, PidsUnique, Present
  <1>3. InitLives /\ NoLostChild
    BY Constants DEF Init, InitLives, NoLostChild
  <1>4. FatherAlive
    BY Constants DEF Init, FatherAlive, Present
  <1> QED BY <1>1, <1>2, <1>3, <1>4 DEF IInv

\* fork() keeps the invariant: the new pid is nobody's.
LEMMA ForkInv == ASSUME IInv, NEW s \in Task, Fork(s) PROVE IInv'
  <1> USE Constants
  <1>1. PICK p \in {After(n) : n \in 1 .. NR_TASKS + 1} :
          /\ ~Taken(p) /\ last_pid' = p
          /\ \/ \E n \in Task :
                  /\ ~Present(n)
                  /\ pid' = [pid EXCEPT ![n] = p]
                  /\ father' = [father EXCEPT ![n] = pid[s]]
                  /\ st' = [st EXCEPT ![n] = "RUN"]
             \/ UNCHANGED <<pid, father, st>>
    BY DEF Fork, NewPid
  <1>2. p \in Pid
    BY AfterIsPid, ProcessAssumption DEF IInv, TypeOK
  <1>3. CASE UNCHANGED <<pid, father, st>>
    BY <1>1, <1>2, <1>3 DEF Fork, IInv, TypeOK, Shape, PidsUnique, Present
  <1>4. ASSUME NEW n \in Task, ~Present(n),
               pid' = [pid EXCEPT ![n] = p], father' = [father EXCEPT ![n] = pid[s]],
               st' = [st EXCEPT ![n] = "RUN"]
        PROVE  IInv'
    <2>1. TypeOK'
      BY <1>1, <1>2, <1>4 DEF Fork, IInv, TypeOK
    <2>2. Shape'
      BY <1>2, <1>4 DEF IInv, TypeOK, Shape, Present
    <2>3. PidsUnique'
      BY <1>1, <1>2, <1>4 DEF IInv, TypeOK, PidsUnique, Present, Taken
    <2> QED BY <2>1, <2>2, <2>3 DEF IInv
  <1> QED BY <1>1, <1>3, <1>4

\* What a step does to slot t if it takes no pid: nothing, or it empties it.
Kept(t) == \/ pid'[t] = pid[t] /\ (st'[t] = "EMPTY" <=> st[t] = "EMPTY")
           \/ t # 0 /\ pid'[t] = None /\ st'[t] = "EMPTY"

\* A step that at most empties some slots above 0 keeps the shape and the pids.
LEMMA ReleaseInv ==
  ASSUME IInv, TypeOK', st'[0] = "RUN", \A t \in Slot : Kept(t)
  PROVE  IInv'
  BY Constants DEF IInv, TypeOK, Shape, PidsUnique, Present, Task, Kept

\* One pass of sys_waitpid() over task[] keeps the invariant.
LEMMA ScanInv ==
  ASSUME IInv, NEW s \in Task, NEW w \in Pid \cup {Any}, NEW pending \in SUBSET Slot,
         st[s] \in {"RUN", "WAIT"}, Scan(s, w, pending), UNCHANGED last_pid
  PROVE  IInv'
  <1> USE Constants
  <1> DEFINE dead == {c \in Match(s, w) : st[c] = "ZOMBIE"}
  <1>0. Any \in Pid \cup {Any} /\ None \in Pid \cup {0, None}
    OBVIOUS
  <1>1. ASSUME NEW c \in dead,
               st' = [st EXCEPT ![c] = "EMPTY", ![s] = "RUN"],
               pid' = [pid EXCEPT ![c] = None], father' = [father EXCEPT ![c] = None],
               want' = [want EXCEPT ![c] = Any, ![s] = Any],
               fatal' = fatal \ {c}, chld' = pending \ {c}
        PROVE  IInv'
    <2>0. c \in Task /\ c # s /\ st[c] = "ZOMBIE"
      BY <1>1 DEF Match
    <2>1. TypeOK'
      BY <1>0, <1>1, <2>0 DEF IInv, TypeOK
    <2>2. st'[0] = "RUN" /\ \A t \in Slot : Kept(t)
      BY <1>1, <2>0 DEF IInv, TypeOK, Shape, Kept
    <2> QED BY <2>1, <2>2, ReleaseInv
  <1>2. ASSUME NEW state \in {"RUN", "WAIT"}, NEW v \in Pid \cup {Any},
               st' = [st EXCEPT ![s] = state], want' = [want EXCEPT ![s] = v],
               chld' = pending, UNCHANGED <<pid, father, fatal>>
        PROVE  IInv'
    <2>1. TypeOK'
      BY <1>2 DEF IInv, TypeOK
    <2>2. st'[0] = "RUN" /\ \A t \in Slot : Kept(t)
      BY <1>2 DEF IInv, TypeOK, Shape, Kept
    <2> QED BY <2>1, <2>2, ReleaseInv
  <1> QED BY <1>0, <1>1, <1>2 DEF Scan

\* Every step keeps the shape and the pids.
LEMMA StepInv == IInv /\ [Next]_vars => IInv'
  <1> SUFFICES ASSUME IInv, [Next]_vars PROVE IInv'
    OBVIOUS
  <1> USE Constants
  <1>1. ASSUME NEW s \in Task, Fork(s) PROVE IInv'
    BY <1>1, ForkInv
  <1>2. ASSUME NEW s \in Task, DoExit(s) PROVE IInv'
    <2>1. st' = [st EXCEPT ![s] = "EXIT"] /\ st[s] = "RUN" /\ UNCHANGED pid
      BY <1>2 DEF DoExit, Runs
    <2>2. father' \in [Slot -> Pid \cup {0, None}]
      BY <1>2 DEF DoExit, NewFather, IInv, TypeOK
    <2>3. TypeOK'
      BY <1>2, <2>1, <2>2 DEF DoExit, Adopters, IInv, TypeOK
    <2>4. st'[0] = "RUN" /\ \A t \in Slot : Kept(t)
      BY <2>1 DEF IInv, TypeOK, Shape, Kept
    <2> QED BY <2>3, <2>4, ReleaseInv
  <1>3. ASSUME NEW s \in Task, ExitEnds(s) PROVE IInv'
    <2>1. CASE Told(s) # {}
      <3>1. TypeOK'
        BY <1>3, <2>1 DEF ExitEnds, Told, Fathers, IInv, TypeOK
      <3>2. st'[0] = "RUN" /\ \A t \in Slot : Kept(t)
        BY <1>3, <2>1 DEF ExitEnds, IInv, TypeOK, Shape, Kept
      <3> QED BY <3>1, <3>2, ReleaseInv
    <2>2. CASE Told(s) = {}
      <3>1. TypeOK'
        BY <1>3, <2>2 DEF ExitEnds, Empties, IInv, TypeOK
      <3>2. st'[0] = "RUN" /\ \A t \in Slot : Kept(t)
        BY <1>3, <2>2 DEF ExitEnds, Empties, IInv, TypeOK, Shape, Kept
      <3> QED BY <3>1, <3>2, ReleaseInv
    <2> QED BY <2>1, <2>2
  <1>4. ASSUME NEW s \in Task, WaitWakes(s) PROVE IInv'
    <2>1. CASE s \in fatal
      <3>1. TypeOK'
        BY <1>4, <2>1 DEF WaitWakes, IInv, TypeOK
      <3>2. st'[0] = "RUN" /\ \A t \in Slot : Kept(t)
        BY <1>4, <2>1 DEF WaitWakes, IInv, TypeOK, Shape, Kept
      <3> QED BY <3>1, <3>2, ReleaseInv
    <2>2. CASE s \notin fatal
      <3>1. /\ st[s] = "WAIT" /\ Scan(s, want[s], chld \ {s}) /\ UNCHANGED last_pid
            /\ want[s] \in Pid \cup {Any} /\ chld \ {s} \in SUBSET Slot
        BY <1>4, <2>2 DEF WaitWakes, IInv, TypeOK
      <3> QED BY <3>1, ScanInv
    <2> QED BY <2>1, <2>2
  <1>5. ASSUME NEW s \in Task, ChldIgnored(s) PROVE IInv'
    BY <1>5 DEF ChldIgnored, IInv, TypeOK, Shape, PidsUnique, Present
  <1>6. ASSUME NEW s \in Task, NEW w \in Pid \cup {Any}, WaitPid(s, w) PROVE IInv'
    <2>1. st[s] = "RUN" /\ Scan(s, w, chld) /\ UNCHANGED last_pid /\ chld \in SUBSET Slot
      BY <1>6 DEF WaitPid, Runs, IInv, TypeOK
    <2> QED BY <2>1, ScanInv
  <1>7. ASSUME NEW s \in Task, NEW p \in Pid, Kill(s, p) PROVE IInv'
    BY <1>7 DEF Kill, IInv, TypeOK, Shape, PidsUnique, Present
  <1>8. CASE UNCHANGED vars
    BY <1>8 DEF vars, IInv, TypeOK, Shape, PidsUnique, Present
  <1> QED BY <1>1, <1>2, <1>3, <1>4, <1>5, <1>6, <1>7, <1>8 DEF Next

-----------------------------------------------------------------------------
(* While nobody kills init *)

\* init stays in task[1]: it never exits, and no signal that would make it is sent.
LEMMA InitStep == ASSUME IInv, IInv', ~InitMayDie, InitLives, [Next]_vars PROVE InitLives'
  <1> USE Constants
  <1>1. ASSUME NEW s \in Task, Fork(s) PROVE InitLives'
    BY <1>1 DEF Fork, InitLives, IInv, TypeOK, Present
  <1>2. ASSUME NEW s \in Task, DoExit(s) PROVE InitLives'
    BY <1>2 DEF DoExit, InitLives, IInv, TypeOK
  <1>3. ASSUME NEW s \in Task, ExitEnds(s) PROVE InitLives'
    BY <1>3 DEF ExitEnds, Empties, InitLives, IInv, TypeOK
  <1>4. ASSUME NEW s \in Task, NEW w, NEW pending, Scan(s, w, pending) PROVE InitLives'
    BY <1>4 DEF Scan, InitLives, IInv, TypeOK
  <1>5. ASSUME NEW s \in Task, WaitWakes(s) PROVE InitLives'
    <2>1. CASE s \in fatal
      BY <1>5, <2>1 DEF WaitWakes, InitLives, IInv, TypeOK
    <2> QED BY <1>4, <1>5, <2>1 DEF WaitWakes
  <1>6. ASSUME NEW s \in Task, ChldIgnored(s) PROVE InitLives'
    BY <1>6 DEF ChldIgnored, InitLives
  <1>7. ASSUME NEW s \in Task, NEW w, WaitPid(s, w) PROVE InitLives'
    BY <1>4, <1>7 DEF WaitPid
  <1>8. ASSUME NEW s \in Task, NEW p \in Pid, Kill(s, p) PROVE InitLives'
    BY <1>8 DEF Kill, InitLives
  <1>9. CASE UNCHANGED vars
    BY <1>9 DEF vars, InitLives
  <1> QED BY <1>1, <1>2, <1>3, <1>5, <1>6, <1>7, <1>8, <1>9 DEF Next

\* Every father stays: an exiting task hands its children to init first.
LEMMA FatherStep ==
  ASSUME IInv, IInv', InitLives, FatherAlive, [Next]_vars
  PROVE  FatherAlive'
  <1> USE Constants
  <1>a. ASSUME \A t \in Slot : st[t] \in {"RUN", "WAIT"} =>
                                 st'[t] \in {"RUN", "WAIT"} /\ pid'[t] = pid[t],
               \A t \in Task : st'[t] # "EMPTY" =>
                                 st[t] # "EMPTY" /\ pid'[t] = pid[t] /\ father'[t] = father[t]
        PROVE  FatherAlive'
    BY <1>a DEF FatherAlive, Present
  <1>1. ASSUME NEW s \in Task, Fork(s) PROVE FatherAlive'
    <2>1. st[s] = "RUN"
      BY <1>1 DEF Fork, Runs
    <2>2. CASE UNCHANGED <<pid, father, st>>
      BY <2>2 DEF FatherAlive, Present
    <2>3. ASSUME NEW n \in Task, NEW p, ~Present(n), pid' = [pid EXCEPT ![n] = p],
                 father' = [father EXCEPT ![n] = pid[s]], st' = [st EXCEPT ![n] = "RUN"]
          PROVE  FatherAlive'
      <3>1. \A t \in Slot \ {n} : pid'[t] = pid[t] /\ father'[t] = father[t] /\ st'[t] = st[t]
        BY <2>3 DEF IInv, TypeOK
      <3>2. father'[n] = pid[s] /\ s # n /\ pid'[s] = pid[s] /\ st'[s] = "RUN"
        BY <2>1, <2>3, <3>1 DEF IInv, TypeOK, Present
      <3>3. ASSUME NEW t \in Task \ {n}, Present(t)', pid'[t] # 1
            PROVE  \E f \in Slot : pid'[f] = father'[t] /\ st'[f] \in {"RUN", "WAIT"}
        <4>1. PICK f \in Slot : pid[f] = father[t] /\ st[f] \in {"RUN", "WAIT"}
          BY <3>1, <3>3 DEF FatherAlive, Present
        <4>2. f # n
          BY <2>3, <4>1 DEF Present
        <4> QED BY <3>1, <4>1, <4>2
      <3> QED BY <3>2, <3>3 DEF FatherAlive
    <2> QED BY <1>1, <2>2, <2>3 DEF Fork
  <1>2. ASSUME NEW s \in Task, DoExit(s) PROVE FatherAlive'
    <2>1. /\ UNCHANGED pid /\ st' = [st EXCEPT ![s] = "EXIT"] /\ st[s] = "RUN"
          /\ father' = NewFather(s)
      BY <1>2 DEF DoExit, Runs
    <2>2. s # 1
      BY <1>2 DEF DoExit, InitLives
    <2>3. pid'[1] = 1 /\ st'[1] \in {"RUN", "WAIT"}
      BY <2>1, <2>2 DEF InitLives, IInv, TypeOK
    <2>4. ASSUME NEW t \in Task, Present(t)', pid'[t] # 1
          PROVE  \E f \in Slot : pid'[f] = father'[t] /\ st'[f] \in {"RUN", "WAIT"}
      <3>1. Present(t) /\ pid[t] # 1
        BY <2>1, <2>4 DEF Present, IInv, TypeOK
      <3>2. CASE t \in Children(s)
        BY <2>1, <2>3, <3>2 DEF NewFather
      <3>3. CASE t \notin Children(s)
        <4>1. father'[t] = father[t] /\ father[t] # pid[s]
          BY <2>1, <3>1, <3>3 DEF NewFather, Children
        <4>2. PICK f \in Slot : pid[f] = father[t] /\ st[f] \in {"RUN", "WAIT"}
          BY <3>1 DEF FatherAlive
        <4> QED BY <2>1, <4>1, <4>2 DEF IInv, TypeOK
      <3> QED BY <3>2, <3>3
    <2> QED BY <2>4 DEF FatherAlive
  <1>3. ASSUME NEW s \in Task, ExitEnds(s) PROVE FatherAlive'
    BY <1>3, <1>a DEF ExitEnds, Empties, IInv, TypeOK
  <1>4. ASSUME NEW s \in Task, NEW w, NEW pending, st[s] \in {"RUN", "WAIT"}, Scan(s, w, pending)
        PROVE  FatherAlive'
    BY <1>4, <1>a DEF Scan, Match, IInv, TypeOK
  <1>5. ASSUME NEW s \in Task, WaitWakes(s) PROVE FatherAlive'
    <2>1. CASE s \in fatal
      BY <1>5, <2>1, <1>a DEF WaitWakes, IInv, TypeOK
    <2> QED BY <1>4, <1>5, <2>1 DEF WaitWakes
  <1>6. ASSUME NEW s \in Task, ChldIgnored(s) PROVE FatherAlive'
    BY <1>6 DEF ChldIgnored, FatherAlive, Present
  <1>7. ASSUME NEW s \in Task, NEW w, WaitPid(s, w) PROVE FatherAlive'
    BY <1>4, <1>7 DEF WaitPid, Runs
  <1>8. ASSUME NEW s \in Task, NEW p \in Pid, Kill(s, p) PROVE FatherAlive'
    BY <1>8 DEF Kill, FatherAlive, Present
  <1>9. CASE UNCHANGED vars
    BY <1>9 DEF vars, FatherAlive, Present
  <1> QED BY <1>1, <1>2, <1>3, <1>5, <1>6, <1>7, <1>8, <1>9 DEF Next

\* Whoever becomes a zombie, or a zombie's new father, is told in the same step.
LEMMA LostStep ==
  ASSUME IInv, IInv', InitLives, NoLostChild, [Next]_vars
  PROVE  NoLostChild'
  <1> USE Constants
  <1>a. ASSUME NEW s \in Task, st'[s] # "WAIT",
               \A t \in Task : st'[t] = "WAIT" /\ t # s =>
                                 /\ st[t] = "WAIT" /\ want'[t] = want[t] /\ pid'[t] = pid[t]
                                 /\ t \in chld => t \in chld',
               \A t \in Task : st'[t] = "ZOMBIE" =>
                                 st[t] = "ZOMBIE" /\ pid'[t] = pid[t] /\ father'[t] = father[t]
        PROVE  NoLostChild'
    BY <1>a DEF NoLostChild, Match, Present
  <1>1. ASSUME NEW s \in Task, Fork(s) PROVE NoLostChild'
    BY <1>1, <1>a DEF Fork, Runs, Present, IInv, TypeOK
  <1>2. ASSUME NEW s \in Task, DoExit(s) PROVE NoLostChild'
    <2>1. /\ UNCHANGED <<pid, want>> /\ st' = [st EXCEPT ![s] = "EXIT"]
          /\ father' = NewFather(s) /\ chld' = chld \cup Adopters(s)
      BY <1>2 DEF DoExit
    <2>2. SUFFICES ASSUME NEW t \in Task, st'[t] = "WAIT", NEW c \in Match(t, want[t])', st'[c] = "ZOMBIE"
                   PROVE  t \in chld'
      BY <2>1 DEF NoLostChild
    <2>3. /\ t # s /\ st[t] = "WAIT" /\ c # s /\ c # t /\ c \in Task /\ st[c] = "ZOMBIE"
          /\ father'[c] = pid[t] /\ (want[t] = Any \/ pid[c] = want[t])
      BY <2>1, <2>2 DEF Match, IInv, TypeOK
    <2>4. CASE c \in Children(s)
      <3>1. pid[t] = 1
        BY <2>1, <2>3, <2>4 DEF NewFather
      <3>2. t = 1
        BY <2>3, <3>1 DEF InitLives, IInv, PidsUnique, Present
      <3> QED BY <2>1, <2>3, <2>4, <3>2 DEF Adopters, Present
    <2>5. CASE c \notin Children(s)
      BY <2>1, <2>3, <2>5 DEF NewFather, NoLostChild, Match, Present
    <2> QED BY <2>4, <2>5
  <1>3. ASSUME NEW s \in Task, ExitEnds(s) PROVE NoLostChild'
    <2>1. CASE Told(s) = {}
      BY <1>3, <1>a, <2>1 DEF ExitEnds, Empties, IInv, TypeOK
    <2>2. CASE Told(s) # {}
      <3>1. PICK f \in Told(s) : chld' = chld \cup {f}
        BY <1>3, <2>2 DEF ExitEnds
      <3>2. st' = [st EXCEPT ![s] = "ZOMBIE"] /\ UNCHANGED <<pid, father, want>>
        BY <1>3, <2>2 DEF ExitEnds
      <3>3. f \in Slot /\ Present(f) /\ pid[f] = father[s]
        BY <3>1 DEF Told, Fathers
      <3>4. SUFFICES ASSUME NEW t \in Task, st'[t] = "WAIT", NEW c \in Match(t, want[t])', st'[c] = "ZOMBIE"
                     PROVE  t \in chld'
        BY <3>2 DEF NoLostChild
      <3>5. /\ st[t] = "WAIT" /\ c \in Task /\ c # t /\ father[c] = pid[t]
            /\ (want[t] = Any \/ pid[c] = want[t])
        BY <3>2, <3>4 DEF Match, IInv, TypeOK
      <3>6. CASE c = s
        <4>1. f = t
          BY <3>3, <3>5, <3>6 DEF IInv, PidsUnique, Present
        <4> QED BY <3>1, <4>1
      <3>7. CASE c # s
        <4>1. st[c] = "ZOMBIE"
          BY <3>2, <3>4, <3>5, <3>7 DEF IInv, TypeOK
        <4> QED BY <3>1, <3>5, <4>1 DEF NoLostChild, Match, Present
      <3> QED BY <3>6, <3>7
    <2> QED BY <2>1, <2>2
  <1>4. ASSUME NEW s \in Task, NEW w \in Pid \cup {Any}, st[s] \in {"RUN", "WAIT"},
               Scan(s, w, chld) \/ Scan(s, w, chld \ {s})
        PROVE  NoLostChild'
    <2> DEFINE dead == {c \in Match(s, w) : st[c] = "ZOMBIE"}
    <2>1. CASE \E c \in dead :
                 /\ st' = [st EXCEPT ![c] = "EMPTY", ![s] = "RUN"]
                 /\ pid' = [pid EXCEPT ![c] = None] /\ father' = [father EXCEPT ![c] = None]
                 /\ want' = [want EXCEPT ![c] = Any, ![s] = Any]
                 /\ chld' \in {chld \ {c}, (chld \ {s}) \ {c}}
      BY <1>4, <1>a, <2>1 DEF Match, IInv, TypeOK
    <2>2. CASE /\ dead = {} /\ st' = [st EXCEPT ![s] = "WAIT"]
               /\ want' = [want EXCEPT ![s] = w] /\ chld' \in {chld, chld \ {s}}
               /\ UNCHANGED <<pid, father>>
      <3>1. SUFFICES ASSUME NEW t \in Task, st'[t] = "WAIT", NEW c \in Match(t, want[t])', st'[c] = "ZOMBIE"
                     PROVE  t \in chld'
        BY DEF NoLostChild
      <3>2. /\ c \in Task /\ c # t /\ father[c] = pid[t] /\ (want'[t] = Any \/ pid[c] = want'[t])
            /\ c # s /\ st[c] = "ZOMBIE"
        BY <2>2, <3>1 DEF Match, IInv, TypeOK
      <3>3. t # s
        BY <2>2, <3>2 DEF Match, Present, IInv, TypeOK
      <3>4. st[t] = "WAIT" /\ want'[t] = want[t]
        BY <2>2, <3>1, <3>3 DEF IInv, TypeOK
      <3> QED BY <2>2, <3>2, <3>3, <3>4 DEF NoLostChild, Match, Present
    <2>3. CASE /\ st' = [st EXCEPT ![s] = "RUN"] /\ want' = [want EXCEPT ![s] = Any]
               /\ chld' \in {chld, chld \ {s}} /\ UNCHANGED <<pid, father>>
      BY <1>4, <1>a, <2>3 DEF IInv, TypeOK
    <2> QED BY <1>4, <2>1, <2>2, <2>3 DEF Scan
  <1>5. ASSUME NEW s \in Task, WaitWakes(s) PROVE NoLostChild'
    <2>1. CASE s \in fatal
      BY <1>5, <2>1, <1>a DEF WaitWakes, IInv, TypeOK
    <2>2. CASE s \notin fatal
      BY <1>4, <1>5, <2>2 DEF WaitWakes, IInv, TypeOK
    <2> QED BY <2>1, <2>2
  <1>6. ASSUME NEW s \in Task, ChldIgnored(s) PROVE NoLostChild'
    BY <1>6, <1>a DEF ChldIgnored, Runs
  <1>7. ASSUME NEW s \in Task, NEW w \in Pid \cup {Any}, WaitPid(s, w) PROVE NoLostChild'
    BY <1>4, <1>7 DEF WaitPid, Runs
  <1>8. ASSUME NEW s \in Task, NEW p \in Pid, Kill(s, p) PROVE NoLostChild'
    BY <1>8, <1>a DEF Kill, Runs
  <1>9. CASE UNCHANGED vars
    BY <1>9 DEF vars, NoLostChild, Match, Present
  <1> QED BY <1>1, <1>2, <1>3, <1>5, <1>6, <1>7, <1>8, <1>9 DEF Next

-----------------------------------------------------------------------------
\* Whatever fork(), exit(), waitpid() and kill() do, task[], the pending signals
\* and last_pid stay in range.
THEOREM TypesHold == Spec => []TypeOK
  <1>1. Init => IInv
    BY InitInv
  <1>2. IInv /\ [Next]_vars => IInv'
    BY StepInv
  <1>3. IInv => TypeOK
    BY DEF IInv
  <1> QED BY <1>1, <1>2, <1>3, PTL DEF Spec

\* find_empty_process() never gives a pid that a task or a zombie still has, also
\* after last_pid has wrapped, and whether or not init lives.
THEOREM PidsStayUnique == Spec => []PidsUnique
  <1>1. Init => IInv
    BY InitInv
  <1>2. IInv /\ [Next]_vars => IInv'
    BY StepInv
  <1>3. IInv => PidsUnique
    BY DEF IInv
  <1> QED BY <1>1, <1>2, <1>3, PTL DEF Spec

\* As long as nobody kills init, tell_father() always finds a father that has not
\* begun to exit: its "BAD BAD - no father found" is unreachable.
THEOREM FathersStay == ASSUME ~InitMayDie PROVE Spec => []FatherAlive
  <1> DEFINE Inv == IInv /\ InitLives /\ FatherAlive
  <1>1. Init => Inv
    BY InitInv
  <1>2. Inv /\ [Next]_vars => Inv'
    BY StepInv, InitStep, FatherStep
  <1>3. Inv => FatherAlive
    OBVIOUS
  <1> HIDE DEF Inv
  <1> QED BY <1>1, <1>2, <1>3, PTL DEF Spec

\* As long as nobody kills init, no interleaving of exits, adoptions and waits
\* leaves a task asleep in sys_waitpid() over a zombie it waits for.
THEOREM NoChildIsLost == ASSUME ~InitMayDie PROVE Spec => []NoLostChild
  <1> DEFINE Inv == IInv /\ InitLives /\ NoLostChild
  <1>1. Init => Inv
    BY InitInv
  <1>2. Inv /\ [Next]_vars => Inv'
    BY StepInv, InitStep, LostStep
  <1>3. Inv => NoLostChild
    OBVIOUS
  <1> HIDE DEF Inv
  <1> QED BY <1>1, <1>2, <1>3, PTL DEF Spec
=============================================================================
