------------------------------ MODULE MCBuffer ------------------------------
(* Two processes and fewer buffers than blocks. *)
EXTENDS Buffer

ProcSymmetry == Permutations(Proc)
=============================================================================
