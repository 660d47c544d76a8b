------------------------------- MODULE Namei -------------------------------
(***************************************************************************)
(* Directories (fs/namei.c): the calls that look up, make, remove and link *)
(* names.  Nothing locks a directory: a call may sleep, and others run,    *)
(* whenever it reads a directory block or takes or makes an inode.  Each   *)
(* stretch from one such point to the next is an action, with the iput()s  *)
(* in it; an inode without links is freed with its blocks when the last    *)
(* process lets go of it.                                                  *)
(*                                                                         *)
(* The processes are the super-user's, in the root directory.  A directory *)
(* block holds NmPerBlock entries beside "." and "..", which are not kept; *)
(* files are empty.  A path is a sequence of names; ".." and mount points  *)
(* are left out.                                                           *)
(***************************************************************************)
EXTENDS Integers, Sequences, FiniteSets

CONSTANTS
  NmProcs,
  NmInodes,     \* inode numbers; 1 is ROOT_INO
  NmBlocks,     \* data blocks, one of which the root has
  NmPerBlock,   \* entries in a directory block
  NmCalls,      \* the calls made: [op, path, old], old for link() alone
  NmMaxCalls    \* bound on the number of calls

ROOT_INO == 1
NoInode == 0
Changing == {"creat", "excl", "mknod", "mkdir", "rmdir", "unlink", "link"}

ASSUME NmAssumption ==
  /\ NmInodes \subseteq Nat \ {0} /\ ROOT_INO \in NmInodes
  /\ IsFiniteSet(NmInodes) /\ IsFiniteSet(NmProcs)
  /\ NmBlocks \in Nat \ {0} /\ NmPerBlock \in Nat \ {0} /\ NmMaxCalls \in Nat
  /\ \A c \in NmCalls :
       /\ c.op \in Changing \cup {"open"}
       /\ c.path \in Seq(STRING) \ {<<>>} /\ c.old \in Seq(STRING)

VARIABLES
  inode,     \* each inode: i_mode, i_nlinks, its entries and number of blocks
  nmFree,    \* free data blocks
  nmProc,    \* each process: where it is in which call, and what it holds
  nmCalls,   \* calls made so far
  nmPanic,   \* the kernel has panicked
  nmOverlap, \* history: two calls that change names were under way together
  nmStale    \* history: an inode was taken after it was freed

nmVars == <<inode, nmFree, nmProc, nmCalls, nmPanic, nmOverlap, nmStale>>

FreeInode == [mode |-> "free", nlinks |-> 0, ents |-> <<>>, blocks |-> 0]
Idle == [pc |-> "idle", op |-> "open", path |-> <<>>, new |-> <<>>, dir |-> NoInode,
         ino |-> NoInode, nr |-> NoInode, slot |-> 0, file |-> NoInode]

NmTypeOK ==
  /\ \A i \in NmInodes :
       /\ inode[i].mode \in {"free", "reg", "dir"} /\ inode[i].nlinks \in Nat
       /\ inode[i].blocks \in 0 .. NmBlocks
       /\ Len(inode[i].ents) <= NmPerBlock * inode[i].blocks
       /\ \A s \in DOMAIN inode[i].ents : inode[i].ents[s].ino \in NmInodes \cup {NoInode}
  /\ nmFree \in 0 .. NmBlocks
  /\ \A p \in NmProcs :
       /\ nmProc[p].pc \in {"idle", "walk", "step", "got", "empty", "new", "add", "linked"}
       /\ {nmProc[p].dir, nmProc[p].ino, nmProc[p].nr, nmProc[p].file}
            \subseteq NmInodes \cup {NoInode}
  /\ nmCalls \in 0 .. NmMaxCalls /\ {nmPanic, nmOverlap, nmStale} \subseteq BOOLEAN

\* an empty root directory
NmInit ==
  /\ inode = [i \in NmInodes |->
                IF i = ROOT_INO THEN [mode |-> "dir", nlinks |-> 2, ents |-> <<>>, blocks |-> 1]
                ELSE FreeInode]
  /\ nmFree = NmBlocks - 1
  /\ nmProc = [p \in NmProcs |-> Idle]
  /\ nmCalls = 0 /\ nmPanic = FALSE /\ nmOverlap = FALSE /\ nmStale = FALSE

----------------------------------------------------------------------------
\* i_count: the root is held by every process besides
Holds(procs, i) ==
  Cardinality({h \in NmProcs \X {"dir", "ino", "file"} : procs[h[1]][h[2]] = i})
  + IF i = ROOT_INO THEN 1 ELSE 0

\* the data blocks of the inodes in S: the b-th block of i is <<i, b>>
BlocksOf(inodes, S) == {e \in S \X (1 .. NmBlocks) : e[2] <= inodes[e[1]].blocks}

\* The last iput() of an inode without links: truncate() and free_inode().
Unused(inodes, procs) ==
  {i \in NmInodes : inodes[i].mode # "free" /\ inodes[i].nlinks = 0 /\ Holds(procs, i) = 0}
Settle(inodes, free, procs) ==
  LET gone == Unused(inodes, procs)
  IN /\ inode' = [i \in NmInodes |-> IF i \in gone THEN FreeInode ELSE inodes[i]]
     /\ nmFree' = free + Cardinality(BlocksOf(inodes, gone))
     /\ nmProc' = procs

\* The call returns; what it holds but an open file is put.
Done(q) == [Idle EXCEPT !.file = q.file]
Return(p, inodes, free) == Settle(inodes, free, [nmProc EXCEPT ![p] = Done(@)])
Fail(p) == Return(p, inode, nmFree)

\* find_entry() and match(): the slots with the name
Found(d, name) == {s \in DOMAIN inode[d].ents : inode[d].ents[s].ino # NoInode
                                                 /\ inode[d].ents[s].name = name}
First(S) == CHOOSE s \in S : \A t \in S : s <= t

\* S_ISDIR and permission(): "not even root can read/write a deleted file"
MayUse(i) == inode[i].nlinks # 0
MaySearch(i) == inode[i].mode = "dir" /\ MayUse(i)

Quiet == UNCHANGED <<nmCalls, nmPanic, nmOverlap, nmStale>>
Runs(p, pc) == ~nmPanic /\ nmProc[p].pc = pc
InChange(q) == q.pc # "idle" /\ q.op \in Changing \cup {"old"}

----------------------------------------------------------------------------
\* dir_namei() and get_dir() start at the root; link() first looks up its old name
NmCall(p, c) ==
  /\ Runs(p, "idle") /\ nmCalls < NmMaxCalls
  /\ nmProc' = [nmProc EXCEPT ![p] =
       [Done(@) EXCEPT !.pc = "walk", !.op = IF c.op = "link" THEN "old" ELSE c.op,
                       !.path = IF c.op = "link" THEN c.old ELSE c.path,
                       !.new = IF c.op = "link" THEN c.path ELSE <<>>, !.dir = ROOT_INO]]
  /\ nmOverlap' = (nmOverlap \/ (c.op \in Changing /\ \E q \in NmProcs : InChange(nmProc[q])))
  /\ nmCalls' = nmCalls + 1
  /\ UNCHANGED <<inode, nmFree, nmPanic, nmStale>>

\* sys_close(), or the end of a process
NmClose(p) ==
  /\ Runs(p, "idle") /\ nmProc[p].file # NoInode
  /\ Settle(inode, nmFree, [nmProc EXCEPT ![p] = Idle])
  /\ Quiet

\* one round of get_dir()'s loop: the number is read, the directory put ...
GetDir(p) ==
  /\ Runs(p, "walk") /\ Len(nmProc[p].path) > 1
  /\ LET q == nmProc[p]
         hits == Found(q.dir, Head(q.path))
     IN IF ~MaySearch(q.dir) \/ hits = {} THEN Fail(p)
        ELSE Settle(inode, nmFree,
               [nmProc EXCEPT ![p].pc = "step", ![p].path = Tail(@), ![p].dir = NoInode,
                              ![p].nr = inode[q.dir].ents[First(hits)].ino])
  /\ Quiet

\* iget() of nr, which may have been freed since it was read
Iget(nr) == nmStale' = (nmStale \/ inode[nr].mode = "free")

\* ... and the next directory taken
GetDirStep(p) ==
  /\ Runs(p, "step")
  /\ Iget(nmProc[p].nr)
  /\ nmProc' = [nmProc EXCEPT ![p].pc = "walk", ![p].dir = nmProc[p].nr, ![p].nr = NoInode]
  /\ UNCHANGED <<inode, nmFree, nmCalls, nmPanic, nmOverlap>>

\* The last name is there.  open_namei() and namei() put the directory before they
\* take the inode; sys_unlink() and sys_rmdir() keep it, and the place of the entry.
NameFound(p) ==
  /\ Runs(p, "walk") /\ Len(nmProc[p].path) = 1
  /\ LET q == nmProc[p]
         hits == Found(q.dir, q.path[1])
         s == First(hits)
         keep == q.op \in {"unlink", "rmdir"}
     IN /\ MaySearch(q.dir) /\ hits # {}
        /\ IF q.op \in {"excl", "mknod", "mkdir", "link"} THEN Fail(p)       \* EEXIST
           ELSE Settle(inode, nmFree,
                  [nmProc EXCEPT ![p].pc = "got", ![p].nr = inode[q.dir].ents[s].ino,
                                 ![p].slot = IF keep THEN s ELSE 0,
                                 ![p].dir = IF keep THEN @ ELSE NoInode])
  /\ Quiet

\* It is not there, or there is no directory to look in.
NameMissing(p) ==
  /\ Runs(p, "walk") /\ Len(nmProc[p].path) = 1
  /\ LET q == nmProc[p]
     IN \/ /\ ~MaySearch(q.dir) \/ Found(q.dir, q.path[1]) = {}
           /\ ~MaySearch(q.dir) \/ q.op \in {"open", "old", "unlink", "rmdir"}
           /\ Fail(p)
        \/ /\ MaySearch(q.dir) /\ Found(q.dir, q.path[1]) = {}
           /\ q.op \in {"creat", "excl", "mknod", "mkdir", "link"}
           /\ nmProc' = [nmProc EXCEPT ![p].pc = IF q.op = "link" THEN "add" ELSE "new"]
           /\ UNCHANGED <<inode, nmFree>>
  /\ Quiet

----------------------------------------------------------------------------
(* The inode of the name that was found is taken: what follows iget().      *)

\* open_namei(): a directory is not opened for writing
OpenGot(p) ==
  /\ Runs(p, "got") /\ nmProc[p].op \in {"open", "creat"}
  /\ LET n == nmProc[p].nr
         ok == MayUse(n) /\ ~(inode[n].mode = "dir" /\ nmProc[p].op = "creat")
     IN /\ Iget(n)
        /\ Settle(inode, nmFree, [nmProc EXCEPT ![p] = [Idle EXCEPT !.file = IF ok THEN n ELSE @]])
  /\ UNCHANGED <<nmCalls, nmPanic, nmOverlap>>

\* sys_link(): the old name is no directory; now the new one
LinkGot(p) ==
  /\ Runs(p, "got") /\ nmProc[p].op = "old"
  /\ LET n == nmProc[p].nr
     IN /\ Iget(n)
        /\ IF inode[n].mode = "dir" THEN Fail(p)
           ELSE /\ nmProc' = [nmProc EXCEPT ![p] =
                     [@ EXCEPT !.pc = "walk", !.op = "link", !.path = nmProc[p].new, !.new = <<>>,
                               !.ino = n, !.nr = NoInode, !.dir = ROOT_INO]]
                /\ UNCHANGED <<inode, nmFree>>
  /\ UNCHANGED <<nmCalls, nmPanic, nmOverlap>>

Cleared(d, s) == [inode EXCEPT ![d].ents[s].ino = NoInode]

\* sys_unlink(): the entry goes and then the link
UnlinkGot(p) ==
  /\ Runs(p, "got") /\ nmProc[p].op = "unlink"
  /\ LET q == nmProc[p]
         n == q.nr
     IN /\ Iget(n)
        /\ IF inode[n].mode = "dir" THEN Fail(p)
           ELSE Return(p, [Cleared(q.dir, q.slot) EXCEPT ![n].nlinks = IF @ = 0 THEN 0 ELSE @ - 1],
                       nmFree)
  /\ UNCHANGED <<nmCalls, nmPanic, nmOverlap>>

\* sys_rmdir(): a directory nobody else uses; empty_dir() reads it first
InUse(n) == Holds(nmProc, n) > 0

RmdirGot(p) ==
  /\ Runs(p, "got") /\ nmProc[p].op = "rmdir"
  /\ LET n == nmProc[p].nr
     IN /\ Iget(n)
        /\ IF inode[n].mode # "dir" \/ InUse(n) THEN Fail(p)
           ELSE /\ nmProc' = [nmProc EXCEPT ![p].pc = "empty", ![p].ino = n]
                /\ UNCHANGED <<inode, nmFree>>
  /\ UNCHANGED <<nmCalls, nmPanic, nmOverlap>>

EmptyDir(i) == \A s \in DOMAIN inode[i].ents : inode[i].ents[s].ino = NoInode

Rmdir(p) ==
  /\ Runs(p, "empty")
  /\ LET q == nmProc[p]
     IN IF ~EmptyDir(q.ino) THEN Fail(p)
        ELSE Return(p, [Cleared(q.dir, q.slot) EXCEPT ![q.ino].nlinks = 0, ![q.dir].nlinks = @ - 1],
                    nmFree)
  /\ Quiet

----------------------------------------------------------------------------
(* A new name.                                                              *)

\* new_inode() takes the first free number; without one the call fails
NewInode(p) ==
  /\ Runs(p, "new") /\ nmProc[p].op # "mkdir"
  /\ LET free == {i \in NmInodes : inode[i].mode = "free"}
         n == First(free)
     IN IF free = {} THEN Fail(p)
        ELSE /\ inode' = [inode EXCEPT ![n] = [FreeInode EXCEPT !.mode = "reg", !.nlinks = 1]]
             /\ nmProc' = [nmProc EXCEPT ![p].pc = "add", ![p].ino = n]
             /\ UNCHANGED nmFree
  /\ Quiet

\* sys_mkdir() also needs a block, and to read it; when either fails, the inode
\* and the block are given back
NewDirectory(p) ==
  /\ Runs(p, "new") /\ nmProc[p].op = "mkdir"
  /\ LET free == {i \in NmInodes : inode[i].mode = "free"}
         n == First(free)
     IN \/ Fail(p)
        \/ /\ free # {} /\ nmFree > 0
           /\ inode' = [inode EXCEPT ![n] = [mode |-> "dir", nlinks |-> 2, ents |-> <<>>, blocks |-> 1]]
           /\ nmFree' = nmFree - 1
           /\ nmProc' = [nmProc EXCEPT ![p].pc = "add", ![p].ino = n]
  /\ Quiet

\* add_entry(): the first free entry, or a new one, which may need a block
FreeSlots(d) == {s \in DOMAIN inode[d].ents : inode[d].ents[s].ino = NoInode}
MutNeedsBlock(d) == FreeSlots(d) = {} /\ Len(inode[d].ents) > NmPerBlock * inode[d].blocks
NeedsBlock(d) == FreeSlots(d) = {} /\ Len(inode[d].ents) = NmPerBlock * inode[d].blocks
NoRoom(d) == NeedsBlock(d) /\ nmFree = 0
WithEntry(d, name, n) ==
  LET e == [name |-> name, ino |-> n]
      x == inode[d]
  IN [inode EXCEPT ![d] =
        [x EXCEPT !.ents = IF FreeSlots(d) # {} THEN [@ EXCEPT ![First(FreeSlots(d))] = e]
                           ELSE Append(@, e),
                  !.blocks = IF NeedsBlock(d) THEN @ + 1 ELSE @]]
FreeAfter(d) == IF NeedsBlock(d) THEN nmFree - 1 ELSE nmFree

\* the end of sys_mknod() and sys_mkdir(), and of open_namei(), which returns the inode
MutDirLinks(op) == 0                   \* the link of ".." forgotten
DirLinks(op) == IF op = "mkdir" THEN 1 ELSE 0

AddEntry(p) ==
  /\ Runs(p, "add") /\ ~NoRoom(nmProc[p].dir) /\ nmProc[p].op # "link"
  /\ LET q == nmProc[p]
         file == IF q.op \in {"creat", "excl"} THEN q.ino ELSE q.file
     IN Settle([WithEntry(q.dir, q.path[1], q.ino) EXCEPT ![q.dir].nlinks = @ + DirLinks(q.op)],
               FreeAfter(q.dir), [nmProc EXCEPT ![p] = [Idle EXCEPT !.file = file]])
  /\ Quiet

\* sys_link() counts the link only after it has put the directory
LinkEntry(p) ==
  /\ Runs(p, "add") /\ ~NoRoom(nmProc[p].dir) /\ nmProc[p].op = "link"
  /\ LET q == nmProc[p]
     IN Settle(WithEntry(q.dir, q.path[1], q.ino), FreeAfter(q.dir),
               [nmProc EXCEPT ![p].pc = "linked", ![p].dir = NoInode])
  /\ Quiet

LinkCount(p) ==
  /\ Runs(p, "linked")
  /\ Return(p, [inode EXCEPT ![nmProc[p].ino].nlinks = @ + 1], nmFree)
  /\ Quiet

\* Without room the new inode is given back.  sys_mkdir() frees the block of the new
\* directory and leaves it in i_zone[0], so that iput() frees it again: a panic.
AddFails(p) ==
  /\ Runs(p, "add") /\ NoRoom(nmProc[p].dir)
  /\ LET q == nmProc[p]
     IN \/ q.op = "link" /\ Fail(p) /\ UNCHANGED nmPanic
        \/ /\ q.op \in {"creat", "excl", "mknod"}
           /\ Return(p, [inode EXCEPT ![q.ino].nlinks = 0], nmFree) /\ UNCHANGED nmPanic
        \/ /\ q.op = "mkdir"
           /\ nmPanic' = TRUE /\ UNCHANGED <<inode, nmFree, nmProc>>
  /\ UNCHANGED <<nmCalls, nmOverlap, nmStale>>

NmNext ==
  \E p \in NmProcs :
    \/ \E c \in NmCalls : NmCall(p, c)
    \/ NmClose(p) \/ GetDir(p) \/ GetDirStep(p) \/ NameFound(p) \/ NameMissing(p)
    \/ OpenGot(p) \/ LinkGot(p) \/ UnlinkGot(p) \/ RmdirGot(p) \/ Rmdir(p)
    \/ NewInode(p) \/ NewDirectory(p) \/ AddEntry(p) \/ LinkEntry(p) \/ LinkCount(p) \/ AddFails(p)

NmSpec == NmInit /\ [][NmNext]_nmVars

----------------------------------------------------------------------------
Entries(i) == {e \in NmInodes \X (1 .. NmPerBlock * NmBlocks) :
                 e[2] \in DOMAIN inode[e[1]].ents /\ inode[e[1]].ents[e[2]].ino = i}
Subdirs(i) == {s \in DOMAIN inode[i].ents :
                 inode[i].ents[s].ino # NoInode /\ inode[inode[i].ents[s].ino].mode = "dir"}
\* links of i that a call is about to write, and entries whose link it has not counted
ToWrite(i) == Cardinality({p \in NmProcs : nmProc[p].pc = "add" /\ nmProc[p].ino = i
                                           /\ nmProc[p].op # "link"})
ToCount(i) == Cardinality({p \in NmProcs : nmProc[p].pc = "linked" /\ nmProc[p].ino = i})

\* While the calls that change names come one after the other, whatever calls that
\* only look overlap with them, and none takes an inode freed since it read the number
\* (what iget() then reads from the disk is not modelled): every entry names an inode in use, a name is
\* there once in its directory, i_nlinks is the number of names (for a directory 2
\* and its subdirectories), also on the way through a call and after one that
\* failed, a removed directory is empty, and no block is lost.
TreeConsistent ==
  ~nmOverlap /\ ~nmStale /\ ~nmPanic =>
    /\ \A i \in NmInodes :
         LET x == inode[i]
             refs == Cardinality(Entries(i)) + ToWrite(i) - ToCount(i)
         IN /\ x.mode = "free" => Entries(i) = {}
            /\ x.mode = "reg" => x.nlinks = refs
            /\ x.mode = "dir" /\ i # ROOT_INO =>
                 IF refs = 1 THEN x.nlinks = 2 + Cardinality(Subdirs(i))
                 ELSE refs = 0 /\ x.nlinks = 0 /\ EmptyDir(i)
            /\ \A s, t \in DOMAIN x.ents :
                 s # t /\ x.ents[s].ino # NoInode /\ x.ents[t].ino # NoInode =>
                   x.ents[s].name # x.ents[t].name
    /\ nmFree + Cardinality(BlocksOf(inode, NmInodes)) = NmBlocks
=============================================================================
