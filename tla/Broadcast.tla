------------------------------ MODULE Broadcast ------------------------------
(***************************************************************************)
(* What sleep_on() and wake_up() promise on one wait queue: wake_up()      *)
(* releases everyone who sleeps at that moment, nobody is released         *)
(* otherwise, and only the released resume.                                *)
(***************************************************************************)
CONSTANT Proc

VARIABLES
  waiting,   \* who sleeps and has not been released
  released   \* who has been released and has not resumed

Init == waiting = {} /\ released = {}

Sleep(p) == /\ p \notin waiting \cup released
            /\ waiting' = waiting \cup {p}
            /\ UNCHANGED released

WakeUp == /\ waiting # {}
          /\ waiting' = {}
          /\ released' = released \cup waiting

Resume(p) == /\ p \in released
             /\ released' = released \ {p}
             /\ UNCHANGED waiting

Next == WakeUp \/ \E p \in Proc : Sleep(p) \/ Resume(p)

Spec == Init /\ [][Next]_<<waiting, released>>
=============================================================================
