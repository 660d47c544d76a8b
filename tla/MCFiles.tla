------------------------------ MODULE MCFiles ------------------------------
(* Names, descriptors with a pipe, and inodes.  A behaviour exercises one  *)
(* subject; for the inodes two processes do everything, or a crowd of      *)
(* three everything but making new inodes.                                 *)
EXTENDS Namei, FileTable, Inode

CONSTANTS u1, u2, u3

VARIABLE subject

filesVars == <<subject, nmVars, ftVars, inVars>>

\* calls on two names of the root and one of a subdirectory
C(op, path) == [op |-> op, path |-> path, old |-> <<>>]
MCCalls ==
  {C(op, path) : op \in {"creat", "mkdir", "unlink", "rmdir"}, path \in {<<"a">>, <<"a", "b">>}}
  \cup {C("open", <<"a">>), C("open", <<"a", "b">>), C("excl", <<"a">>), C("mknod", <<"b">>),
        C("mkdir", <<"b">>)}
  \cup {[op |-> "link", path |-> <<"b">>, old |-> <<"a">>],
        [op |-> "link", path |-> <<"a", "b">>, old |-> <<"b">>]}

Init == NmInit /\ FtInit /\ InInit /\ subject \in {"names", "descriptors", "inodes", "crowd"}

Next ==
  /\ UNCHANGED subject
  /\ \/ subject = "names" /\ NmNext /\ UNCHANGED <<ftVars, inVars>>
     \/ subject = "descriptors" /\ FtNext /\ UNCHANGED <<nmVars, inVars>>
     \/ subject = "inodes" /\ (\E p \in {u1, u2} : InStep(p)) /\ UNCHANGED <<nmVars, ftVars>>
     \/ subject = "crowd" /\ (\E p \in InProcs : InOldStep(p)) /\ UNCHANGED <<nmVars, ftVars>>

Spec == Init /\ [][Next]_filesVars

----------------------------------------------------------------------------
FilesTypeOK == NmTypeOK /\ FtTypeOK /\ InTypeOK
=============================================================================
