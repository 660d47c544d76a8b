----------------------------- MODULE MCProcess -----------------------------
(* init and two other processes; a table of four slots and pids up to five, *)
(* so that pids wrap while zombies still hold theirs.                        *)
EXTENDS Process
=============================================================================
