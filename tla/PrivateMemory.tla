---------------------------- MODULE PrivateMemory ----------------------------
(***************************************************************************)
(* What paging promises a process about its own pages: they read zero      *)
(* until the process writes them, a fork copies them, and nobody else's    *)
(* writes, copies, exits or page faults change them.                       *)
(***************************************************************************)
CONSTANTS Proc, Addr, Val, Zero

VARIABLES
  mem,       \* mem[p][a]: what process p reads at address a
  event      \* what a process has just asked for

vars == <<mem, event>>

Event(op, p, q, v) == [op |-> op, p |-> p, q |-> q, v |-> v]
None == Event("none", 0, 0, Zero)
Blank == [a \in Addr |-> Zero]

Init == mem = [p \in Proc |-> Blank] /\ event = None

Write(p, a, v) == event' = Event("write", p, a, v) /\ mem' = [mem EXCEPT ![p][a] = v]
Copy(p, c) == event' = Event("fork", p, c, Zero) /\ mem' = [mem EXCEPT ![c] = mem[p]]
Clear(p) == event' = Event("exit", p, 0, Zero) /\ mem' = [mem EXCEPT ![p] = Blank]

\* A new program starts with its arguments in one page and nothing else.
Start(p, a, v) == /\ event' = Event("exec", p, a, v)
                  /\ mem' = [mem EXCEPT ![p] = [Blank EXCEPT ![a] = v]]

\* Everything else the kernel does leaves every process' memory alone.
Internal == event' = None /\ UNCHANGED mem

Next == \/ Internal
        \/ \E p \in Proc : \/ \E a \in Addr, v \in Val : Write(p, a, v) \/ Start(p, a, v)
                           \/ \E c \in Proc : Copy(p, c)
                           \/ Clear(p)

Spec == Init /\ [][Next]_vars
=============================================================================
