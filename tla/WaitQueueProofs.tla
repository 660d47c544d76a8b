--------------------------- MODULE WaitQueueProofs ---------------------------
(***************************************************************************)
(* sleep_on() and wake_up() implement a broadcast, for any number of       *)
(* tasks, whatever happens on the interruptible queue.                     *)
(*                                                                         *)
(* The invariant describes the hidden list without induction over it: the  *)
(* sleepers fall into those still waiting and those released; tmp stays    *)
(* within each part, is injective, and never points at the head; so a      *)
(* sleeper that is not runnable is the head or has exactly one waker, and  *)
(* that waker is in the same part.                                         *)
(***************************************************************************)
EXTENDS WaitQueue, FiniteSetTheorems, TLAPS

\* Each task keeps to its own queue.
Apart ==
  /\ \A p \in UUsers : inside[p] \in {"no", "U"}
  /\ \A p \in IUsers : inside[p] \in {"no", "I"} /\ tmp[p] \in IUsers \cup {NULL}
  /\ inter \in IUsers \cup {NULL}

\* The waiting part and the head.
Head ==
  /\ waiting \subseteq Sleepers
  /\ uninter \in waiting \cup {NULL}
  /\ uninter = NULL => waiting = {}
  /\ \A p \in waiting : state[p] = "UNINTERRUPTIBLE"
  /\ \A p \in Sleepers : tmp[p] # NULL => tmp[p] # uninter

\* The pointers between sleepers.
Links ==
  /\ TmpIsAsleep
  /\ \A p \in Sleepers : tmp[p] # NULL => (tmp[p] \in waiting <=> p \in waiting)
  /\ \A p, r \in Sleepers : tmp[p] = tmp[r] /\ tmp[p] # NULL => p = r

\* Everybody asleep has a waker.
Woken ==
  \A p \in Sleepers : \/ state[p] = "RUNNING"
                      \/ p = uninter /\ state[p] = "UNINTERRUPTIBLE"
                      \/ state[p] = "UNINTERRUPTIBLE" /\ \E r \in Sleepers : tmp[r] = p

IInv == TypeOK /\ Apart /\ Head /\ Links /\ Woken

\* With empty queues the invariant holds.
LEMMA InitInv == Init => IInv
  BY DEF Init, IInv, TypeOK, Apart, Head, Links, Woken, TmpIsAsleep, Sleepers, Proc

\* Every step of a sleeper, a waker or a signal keeps the shape of the list.
LEMMA StepInv == IInv /\ [Next]_vars => IInv'
  <1> SUFFICES ASSUME IInv, [Next]_vars PROVE IInv'
    OBVIOUS
  <1> USE WaitAssumption DEF Proc
  <1>a. TypeOK /\ Apart /\ Head /\ Links /\ Woken
    BY DEF IInv
  <1>1. CASE WakeUpU
    BY <1>1, <1>a DEF WakeUpU, Wake, HeadAfterWakeUp, IInv, TypeOK, Apart, Head, Links, Woken,
       TmpIsAsleep, Sleepers
  <1>2. CASE WakeUpI
    BY <1>2, <1>a DEF WakeUpI, Wake, IInv, TypeOK, Apart, Head, Links, Woken,
       TmpIsAsleep, Sleepers
  <1>3. ASSUME NEW p \in UUsers, SleepOn(p) PROVE IInv'
    BY <1>3, <1>a DEF SleepOn, Free, SavedHead, SleepState, IInv, TypeOK, Apart, Head, Links,
       Woken, TmpIsAsleep, Sleepers
  <1>4. ASSUME NEW p \in IUsers, InterruptibleSleepOn(p) PROVE IInv'
    BY <1>4, <1>a DEF InterruptibleSleepOn, Free, IInv, TypeOK, Apart, Head, Links,
       Woken, TmpIsAsleep, Sleepers
  <1>5. ASSUME NEW p \in Proc, SleepOnReturns(p) PROVE IInv'
    BY <1>5, <1>a DEF SleepOnReturns, AfterSleep, Wake, IInv, TypeOK, Apart, Head, Links,
       Woken, TmpIsAsleep, Sleepers
  <1>6. ASSUME NEW p \in Proc, InterruptibleSleepOnResumes(p) PROVE IInv'
    BY <1>6, <1>a DEF InterruptibleSleepOnResumes, SomeoneSleptAfter, PassOn, Wake, IInv, TypeOK,
       Apart, Head, Links, Woken, TmpIsAsleep, Sleepers
  <1>7. ASSUME NEW p \in Proc, Signal(p) \/ ScheduleWakes(p) PROVE IInv'
    BY <1>7, <1>a DEF Signal, ScheduleWakes, IInv, TypeOK, Apart, Head, Links, Woken,
       TmpIsAsleep, Sleepers
  <1>8. ASSUME NEW p \in Proc, Delivered(p) PROVE IInv'
    BY <1>8, <1>a DEF Delivered, Free, IInv, TypeOK, Apart, Head, Links, Woken,
       TmpIsAsleep, Sleepers
  <1>9. CASE UNCHANGED vars
    BY <1>9, <1>a DEF vars, IInv, TypeOK, Apart, Head, Links, Woken, TmpIsAsleep, Sleepers
  <1> QED BY <1>1, <1>2, <1>3, <1>4, <1>5, <1>6, <1>7, <1>8, <1>9 DEF Next, Resumes

\* The shape of the list is an invariant of the two functions.
LEMMA Invariance == Spec => []IInv
  BY InitInv, StepInv, PTL DEF Spec

\* sleep_on()'s tmp never goes stale.
THEOREM TmpNeverStale == Spec => []TmpIsAsleep
  <1>1. IInv => TmpIsAsleep
    BY DEF IInv, Links
  <1> QED BY <1>1, Invariance, PTL

\* The hidden list of sleep_on() loses nobody and gives everybody one waker.
THEOREM EverySleeperHasAWaker == Spec => []NobodyLost
  <1>1. IInv => NobodyLost
    <2> SUFFICES ASSUME IInv, NEW p \in Sleepers, state[p] # "RUNNING", p # uninter
                 PROVE  Cardinality({r \in Sleepers : tmp[r] = p}) = 1
      BY DEF NobodyLost, IInv, Woken
    <2>1. PICK r \in Sleepers : tmp[r] = p
      BY DEF IInv, Woken
    <2>2. p # NULL
      BY WaitAssumption DEF Sleepers, Proc
    <2>3. {q \in Sleepers : tmp[q] = p} = {r}
      BY <2>1, <2>2 DEF IInv, Links
    <2> QED BY <2>3, FS_Singleton
  <1> QED BY <1>1, Invariance, PTL

\* Every step on the sleep_on() queue is a step of the broadcast, or stutters.
LEMMA StepBroadcast ==
  IInv /\ [Next]_vars => [B!Next]_<<waiting, Sleepers \ waiting>>
  <1> SUFFICES ASSUME IInv, [Next]_vars
               PROVE  B!Next \/ UNCHANGED <<waiting, Sleepers \ waiting>>
    OBVIOUS
  <1> USE WaitAssumption DEF Proc
  <1>a. /\ TypeOK /\ Apart /\ Head /\ waiting \subseteq Sleepers
        /\ inside \in [Proc -> {"no", "U", "I"}]
    BY DEF IInv, Head, TypeOK
  <1>1. CASE WakeUpU
    <2>1. waiting # {} /\ waiting' = {} /\ Sleepers' = Sleepers
      BY <1>1, <1>a DEF WakeUpU, Head, Sleepers
    <2> QED BY <2>1, <1>a DEF B!Next, B!WakeUp
  <1>2. ASSUME NEW p \in UUsers, SleepOn(p) PROVE B!Next
    <2>1. p \notin Sleepers /\ Sleepers' = Sleepers \cup {p} /\ waiting' = waiting \cup {p}
      BY <1>2, <1>a DEF SleepOn, Free, Sleepers
    <2>2. B!Sleep(p)
      BY <2>1, <1>a DEF B!Sleep
    <2> QED BY <2>2 DEF B!Next
  <1>3. ASSUME NEW p \in Proc, SleepOnReturns(p) PROVE B!Next
    <2>1. p \in UUsers /\ p \in Sleepers /\ p \notin waiting
      BY <1>3, <1>a DEF SleepOnReturns, Sleepers, Head, Apart
    <2>2. Sleepers' = Sleepers \ {p} /\ waiting' = waiting
      BY <1>3, <1>a DEF SleepOnReturns, Sleepers
    <2>3. B!Resume(p)
      BY <2>1, <2>2 DEF B!Resume
    <2> QED BY <2>1, <2>3 DEF B!Next
  <1>4. ASSUME NEW p \in IUsers, InterruptibleSleepOn(p) PROVE UNCHANGED <<waiting, Sleepers>>
    BY <1>4, <1>a DEF InterruptibleSleepOn, Sleepers
  <1>5. ASSUME NEW p \in Proc, InterruptibleSleepOnResumes(p)
        PROVE  UNCHANGED <<waiting, Sleepers>>
    BY <1>5, <1>a DEF InterruptibleSleepOnResumes, Sleepers
  <1>6. ASSUME UNCHANGED <<waiting, inside>> PROVE UNCHANGED <<waiting, Sleepers>>
    BY <1>6 DEF Sleepers
  <1>7. ASSUME NEW p \in Proc, Signal(p) \/ ScheduleWakes(p) \/ Delivered(p)
        PROVE  UNCHANGED <<waiting, Sleepers>>
    BY <1>6, <1>7 DEF Signal, ScheduleWakes, Delivered
  <1>8. CASE WakeUpI \/ UNCHANGED vars
    BY <1>6, <1>8 DEF WakeUpI, vars
  <1> QED BY <1>1, <1>2, <1>3, <1>4, <1>5, <1>7, <1>8 DEF Next, Resumes

\* One wake_up() on a sleep_on() queue releases all its sleepers, and no sleep
\* ends without one.
THEOREM SleepOnIsABroadcast == Spec => ImplementsBroadcast
  <1>1. Init => B!Init
    BY DEF Init, B!Init, Sleepers, Proc
  <1> QED BY <1>1, StepBroadcast, Invariance, PTL DEF Spec, ImplementsBroadcast, B!Spec
=============================================================================
