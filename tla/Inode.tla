------------------------------- MODULE Inode -------------------------------
(***************************************************************************)
(* The table of inodes in memory (fs/inode.c, and free_inode() and         *)
(* new_inode() of fs/bitmap.c), for one device whose inodes are in one     *)
(* block.  Of an inode the number of links, 0 or 1, and one bit of the     *)
(* rest are kept.                                                          *)
(*                                                                         *)
(* A process sleeps on a locked inode, in the bread() of read_inode() and  *)
(* write_inode(), and in truncate(); between two such points nobody else   *)
(* runs, and the stretch is one action.  Pipes, mount points and a change  *)
(* of the diskette are left out, and so is the order in which              *)
(* get_empty_inode() searches: it takes any inode that would do.  A        *)
(* behaviour ends where the table may be damaged: at a panic, at an iget() *)
(* of an inode that is being freed, at the clearing of a locked inode.     *)
(***************************************************************************)
EXTENDS Integers, FiniteSets

CONSTANTS
  InProcs,
  NR_INODE,          \* the length of inode_table
  INODES_PER_BLOCK   \* the inodes of the device

Slots == 1 .. NR_INODE
NoSlot == 0
Nums == 1 .. INODES_PER_BLOCK
Datum == [nlinks : 0 .. 1, val : 0 .. 1]

ASSUME InAssumption ==
  /\ NR_INODE \in Nat \ {0} /\ INODES_PER_BLOCK \in Nat \ {0}
  /\ InProcs # {} /\ IsFiniteSet(InProcs)

VARIABLES
  table,     \* inode_table: i_num (0: i_dev is 0), i_count, i_lock, i_dirt, i_wait and the data
  disk,      \* the block of inodes
  imap,      \* the numbers in use
  inProc,    \* each process: the call it is in, and the inode it holds
  inPanic,   \* "No free inodes in mem"
  inLast,    \* history: what was last put into each inode
  inLate,    \* history: iget() took an inode that was being freed, or had been
  inCleared  \* history: an inode was cleared while it was locked

inVars == <<table, disk, imap, inProc, inPanic, inLast, inLate, inCleared>>

Zero == [nlinks |-> 0, val |-> 0]
Blank == [num |-> 0, count |-> 0, lock |-> FALSE, dirt |-> FALSE, wait |-> {}, data |-> Zero]
AtUser == [pc |-> "user", op |-> "none", slot |-> NoSlot, empty |-> NoSlot, nr |-> 0,
           hold |-> NoSlot, asleep |-> FALSE]

InTypeOK ==
  /\ table \in [Slots -> [num : 0 .. INODES_PER_BLOCK, count : 0 .. 2 * Cardinality(InProcs),
                          lock : BOOLEAN, dirt : BOOLEAN, wait : SUBSET InProcs, data : Datum]]
  /\ disk \in [Nums -> Datum] /\ imap \subseteq Nums
  /\ \A p \in InProcs :
       /\ inProc[p].pc \in {"user", "empty", "search", "reading", "writing",
                            "put", "truncating", "sync"}
       /\ inProc[p].op \in {"none", "get", "new", "put", "sync"}
       /\ {inProc[p].slot, inProc[p].empty, inProc[p].hold} \subseteq 0 .. NR_INODE + 1
  /\ {inPanic, inLate, inCleared} \subseteq BOOLEAN

\* one inode, on the disk alone
InInit ==
  /\ table = [s \in Slots |-> Blank]
  /\ disk = [n \in Nums |-> IF n = 1 THEN [Zero EXCEPT !.nlinks = 1] ELSE Zero]
  /\ imap = {1}
  /\ inProc = [p \in InProcs |-> AtUser]
  /\ inPanic = FALSE /\ inLast = disk /\ inLate = FALSE /\ inCleared = FALSE

----------------------------------------------------------------------------
At(p, pc) == ~inPanic /\ ~inLate /\ ~inCleared /\ inProc[p].pc = pc /\ ~inProc[p].asleep
Smallest(S) == CHOOSE x \in S : \A y \in S : x <= y
Back(p) == [AtUser EXCEPT !.hold = inProc[p].hold]

\* wait_on_inode() finds it locked; it is tested again after the wake-up
Sleeps(p, tbl, s, q) ==
  /\ table' = [tbl EXCEPT ![s].wait = @ \cup {p}]
  /\ inProc' = [inProc EXCEPT ![p] = [q EXCEPT !.asleep = TRUE]]

\* unlock_inode()
Unlocked(s) == [s EXCEPT !.lock = FALSE, !.wait = {}]
MutWoken(s) == inProc     \* the wake-up forgotten
Woken(s) == [p \in InProcs |-> IF p \in table[s].wait THEN [inProc[p] EXCEPT !.asleep = FALSE]
                               ELSE inProc[p]]

\* write_inode() up to its bread(); whoever calls it has seen that it is not locked
MustWrite(s) == table[s].dirt /\ table[s].num # 0
WriteStarts(p, s) ==
  /\ table' = [table EXCEPT ![s].lock = TRUE]
  /\ inProc' = [inProc EXCEPT ![p].pc = "writing", ![p].slot = s]

InRest == UNCHANGED <<disk, imap, inPanic, inLast, inLate, inCleared>>

\* The inode is written as it is after the bread().
WriteEnds(p) ==
  /\ At(p, "writing")
  /\ LET q == inProc[p]
         s == q.slot
     IN /\ disk' = [disk EXCEPT ![table[s].num] = table[s].data]
        /\ table' = [table EXCEPT ![s] = [Unlocked(@) EXCEPT !.dirt = FALSE]]
        /\ inProc' = [Woken(s) EXCEPT ![p].pc = q.op,
                                      ![p].slot = IF q.op = "sync" THEN s + 1 ELSE s]
  /\ UNCHANGED <<imap, inPanic, inLast, inLate, inCleared>>

\* read_inode() after its bread(): the end of iget()
ReadEnds(p) ==
  /\ At(p, "reading")
  /\ LET s == inProc[p].slot
     IN /\ table' = [table EXCEPT ![s] = [Unlocked(@) EXCEPT !.data = disk[table[s].num]]]
        /\ inProc' = [Woken(s) EXCEPT ![p] = [AtUser EXCEPT !.hold = s]]
  /\ InRest

----------------------------------------------------------------------------
(* iget() and new_inode() *)

\* iget() with an empty inode: the number is looked for, and read if it is not there
Search(p, tbl, e) ==
  LET nr == inProc[p].nr
      hits == {s \in Slots : tbl[s].num = nr}
      s == Smallest(hits)
      freeing == \E q \in InProcs : inProc[q].pc = "truncating" /\ inProc[q].slot \in hits
  IN IF hits = {}
     THEN /\ table' = [tbl EXCEPT ![e] = [Blank EXCEPT !.num = nr, !.count = 1, !.lock = TRUE]]
          /\ inProc' = [inProc EXCEPT ![p].pc = "reading", ![p].slot = e, ![p].empty = NoSlot]
          /\ inLate' = (nr \notin imap)
     ELSE IF tbl[s].lock
     THEN /\ Sleeps(p, tbl, s, [inProc[p] EXCEPT !.pc = "search", !.slot = NoSlot, !.empty = e])
          /\ UNCHANGED inLate
     ELSE /\ table' = [tbl EXCEPT ![s].count = @ + 1, ![e].count = @ - 1]
          /\ inProc' = [inProc EXCEPT ![p] = [AtUser EXCEPT !.hold = s]]
          /\ inLate' = (freeing \/ nr \notin imap)

\* The number was read in a directory, while it was there.
InGet(p, nr) ==
  /\ At(p, "user") /\ inProc[p].hold = NoSlot
  /\ nr \in imap /\ inLast[nr].nlinks > 0
  /\ inProc' = [inProc EXCEPT ![p].pc = "empty", ![p].op = "get", ![p].nr = nr]
  /\ UNCHANGED table /\ InRest

InGetGoesOn(p) ==
  /\ At(p, "search")
  /\ Search(p, table, inProc[p].empty)
  /\ UNCHANGED <<disk, imap, inPanic, inLast, inCleared>>

InNew(p) ==
  /\ At(p, "user") /\ inProc[p].hold = NoSlot
  /\ inProc' = [inProc EXCEPT ![p].pc = "empty", ![p].op = "new"]
  /\ UNCHANGED table /\ InRest

\* The bit is set and the inode is dirty; or there is no number left, and it is put.
GetsNumber(p, e) ==
  LET free == Nums \ imap
      n == Smallest(free)
      data == [nlinks |-> 1, val |-> 0]
  IN IF free = {}
     THEN /\ table' = [table EXCEPT ![e] = Blank]
          /\ inProc' = [inProc EXCEPT ![p] = AtUser] /\ UNCHANGED <<imap, inLast>>
     ELSE /\ table' = [table EXCEPT ![e] =
                         [Blank EXCEPT !.num = n, !.count = 1, !.dirt = TRUE, !.data = data]]
          /\ inProc' = [inProc EXCEPT ![p] = [AtUser EXCEPT !.hold = e]]
          /\ imap' = imap \cup {n} /\ inLast' = [inLast EXCEPT ![n] = data]

\* the end of get_empty_inode(), and what its caller does with the inode
Take(p, e) ==
  \/ /\ inProc[p].op = "get"
     /\ Search(p, [table EXCEPT ![e] = [Blank EXCEPT !.count = 1]], e)
     /\ UNCHANGED <<imap, inLast>>
  \/ /\ inProc[p].op = "new"
     /\ GetsNumber(p, e) /\ UNCHANGED inLate

\* get_empty_inode() takes an inode that nobody uses.  It would wait for one that is
\* locked and write one that is dirty, but there is none (UnusedReady).
UnusedSlots == {s \in Slots : table[s].count = 0}
Ready(s) == ~table[s].dirt /\ ~table[s].lock

GetEmpty(p) ==
  /\ At(p, "empty")
  /\ \/ /\ UnusedSlots = {}
        /\ inPanic' = TRUE
        /\ UNCHANGED <<table, imap, inProc, inLast, inLate>>
     \/ /\ \E s \in UnusedSlots : Ready(s) /\ Take(p, s)
        /\ UNCHANGED inPanic
  /\ UNCHANGED <<disk, inCleared>>

----------------------------------------------------------------------------
\* the holder of an inode changes it, or removes its name, and marks it dirty
Change(p, data) ==
  /\ At(p, "user") /\ inProc[p].hold # NoSlot
  /\ LET s == inProc[p].hold
     IN /\ data.nlinks <= table[s].data.nlinks /\ data # table[s].data
        /\ table' = [table EXCEPT ![s].data = data, ![s].dirt = TRUE]
        /\ inLast' = [inLast EXCEPT ![table[s].num] = data]
  /\ UNCHANGED <<disk, imap, inProc, inPanic, inLate, inCleared>>

InPut(p) ==
  /\ At(p, "user") /\ inProc[p].hold # NoSlot
  /\ inProc' = [inProc EXCEPT ![p].pc = "put", ![p].op = "put", ![p].slot = inProc[p].hold]
  /\ UNCHANGED table /\ InRest

\* The last user of an inode without links frees it; one with links is written first.
LastUser(s) == table[s].count = 1
LetGo(p, s) ==
  /\ table' = [table EXCEPT ![s].count = @ - 1]
  /\ inProc' = [inProc EXCEPT ![p] = AtUser]

InPutGoesOn(p) ==
  /\ At(p, "put")
  /\ LET s == inProc[p].slot
         i == table[s]
     IN \/ i.lock /\ Sleeps(p, table, s, inProc[p])
        \/ ~i.lock /\ ~LastUser(s) /\ LetGo(p, s)
        \/ /\ ~i.lock /\ LastUser(s) /\ i.data.nlinks = 0
           /\ inProc' = [inProc EXCEPT ![p].pc = "truncating"] /\ UNCHANGED table
        \/ ~i.lock /\ LastUser(s) /\ i.data.nlinks > 0 /\ i.dirt /\ WriteStarts(p, s)
        \/ ~i.lock /\ LastUser(s) /\ i.data.nlinks > 0 /\ ~i.dirt /\ LetGo(p, s)
  /\ InRest

\* truncate() is over: free_inode() clears the bit and the inode, its lock too
Truncated(p) ==
  /\ At(p, "truncating")
  /\ LET s == inProc[p].slot
     IN /\ imap' = imap \ {table[s].num}
        /\ table' = [table EXCEPT ![s] = Blank]
        /\ inProc' = [inProc EXCEPT ![p] = AtUser]
        /\ inCleared' = table[s].lock
  /\ UNCHANGED <<disk, inPanic, inLast, inLate>>

\* sync_inodes() goes through the table
InSync(p) ==
  /\ At(p, "user")
  /\ inProc' = [inProc EXCEPT ![p].pc = "sync", ![p].op = "sync", ![p].slot = 1]
  /\ UNCHANGED table /\ InRest

InSyncGoesOn(p) ==
  /\ At(p, "sync")
  /\ LET s == inProc[p].slot
     IN \/ s > NR_INODE /\ inProc' = [inProc EXCEPT ![p] = Back(p)] /\ UNCHANGED table
        \/ s <= NR_INODE /\ table[s].lock /\ Sleeps(p, table, s, inProc[p])
        \/ s <= NR_INODE /\ ~table[s].lock /\ MustWrite(s) /\ WriteStarts(p, s)
        \/ /\ s <= NR_INODE /\ ~table[s].lock /\ ~MustWrite(s)
           /\ inProc' = [inProc EXCEPT ![p].slot = s + 1] /\ UNCHANGED table
  /\ InRest

\* a step of p that starts no new_inode(), and any step
InOldStep(p) ==
  \/ \E nr \in Nums : InGet(p, nr)
  \/ \E data \in Datum : Change(p, data)
  \/ GetEmpty(p) \/ InGetGoesOn(p) \/ ReadEnds(p) \/ WriteEnds(p)
  \/ InPut(p) \/ InPutGoesOn(p) \/ Truncated(p) \/ InSync(p) \/ InSyncGoesOn(p)
InStep(p) == InNew(p) \/ InOldStep(p)

InSpec == InInit /\ [][\E p \in InProcs : InStep(p)]_inVars

----------------------------------------------------------------------------
Holders(s) == Cardinality({p \in InProcs : inProc[p].hold = s})
              + Cardinality({p \in InProcs : inProc[p].empty = s})
              + Cardinality({p \in InProcs : inProc[p].pc = "reading" /\ inProc[p].slot = s})
Lockers(s) == {p \in InProcs : inProc[p].pc \in {"reading", "writing"} /\ inProc[p].slot = s}
BeingRead(s) == \E p \in Lockers(s) : inProc[p].pc = "reading"

UnusedReady == \A s \in UnusedSlots : Ready(s)

\* Unless an iget() came too late, or free_inode() cleared a locked inode: a number is
\* in one place of the table, i_count is the number of its holders, a lock has one
\* owner, whoever sleeps will be woken, an inode nobody uses is clean and unlocked,
\* and no change of an inode is lost: the table has the last one, and the disk too if
\* the inode is not dirty there.
InodesCoherent ==
  ~inLate /\ ~inCleared =>
    /\ UnusedReady
    /\ \A s \in Slots :
         /\ \A t \in Slots \ {s} : table[s].num = 0 \/ table[s].num # table[t].num
         /\ table[s].count = Holders(s)
         /\ Cardinality(Lockers(s)) = IF table[s].lock THEN 1 ELSE 0
         /\ table[s].num # 0 /\ ~BeingRead(s) =>
              /\ table[s].data = inLast[table[s].num]
              /\ table[s].dirt \/ disk[table[s].num] = table[s].data
    /\ \A n \in imap : (\A s \in Slots : table[s].num # n) => disk[n] = inLast[n]
    /\ \A p \in InProcs : inProc[p].asleep =>
         \E s \in Slots : p \in table[s].wait /\ table[s].lock
=============================================================================
