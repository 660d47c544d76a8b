------------------------------ MODULE MCMemory ------------------------------
(***************************************************************************)
(* Two processes, one page of each kind, and too few frames for all they   *)
(* ask.  Which free frame get_free_page() yields makes no difference, so   *)
(* states that differ only in the numbers of the frames are explored once: *)
(* View keeps what each frame is used for, its count and its content, and  *)
(* how many frames are free.                                               *)
(***************************************************************************)
EXTENDS Memory

View == <<{<<References(f), mem_map[f], content[f]>> : f \in Frame},
          Cardinality(Free(mem_map)),
          [p \in Proc |-> [a \in Addr |-> <<pte[p][a].w, pte[p][a].d>>]],
          exe, [p \in Proc |-> loading[p].a], verified>>
=============================================================================
