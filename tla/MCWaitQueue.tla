---------------------------- MODULE MCWaitQueue ----------------------------
(* Three tasks on a sleep_on() queue, two on an interruptible one. *)
EXTENDS WaitQueue
CONSTANTS u1, u2, u3, i1, i2

UThree == {u1, u2, u3}
ITwo == {i1, i2}
=============================================================================
