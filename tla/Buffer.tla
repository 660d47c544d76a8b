------------------------------- MODULE Buffer -------------------------------
(***************************************************************************)
(* The buffer cache (fs/buffer.c), the request queue below it              *)
(* (kernel/blk_drv/ll_rw_blk.c) and the completion of a request            *)
(* (end_request() of blk.h), for one device.                               *)
(*                                                                         *)
(* The kernel does not preempt itself: an action is what a process does    *)
(* between two places where it may sleep, or one interrupt.  At each       *)
(* wait_on_buffer() another process may run, whether or not the buffer is  *)
(* locked, which allows more interleavings than the code has and none     *)
(* less.  Sleeping is a guard where the code tests its condition in a loop *)
(* with interrupts off; the two queues it does not test that way,          *)
(* buffer_wait and wait_for_request, are explicit.                         *)
(*                                                                         *)
(* What a buffer holds is abstracted to whether it is the newest version   *)
(* of its block.  The order of the free list and the hash queues are left  *)
(* out: getblk() may take any of the least bad buffers.                    *)
(***************************************************************************)
EXTENDS Integers, Sequences, FiniteSets, SequencesExt

CONSTANTS
  Proc,      \* processes in the kernel
  NBuf,      \* NR_BUFFERS
  NReq,      \* NR_REQUEST
  Block,     \* blocks of the device
  Meta,      \* those the file system writes: inodes, maps, directories
  File       \* those file_write() writes

Buf == 1 .. NBuf
Slot == 1 .. NReq

ASSUME BufferAssumption ==
  /\ IsFiniteSet(Proc)
  /\ NBuf \in Nat \ {0} /\ NReq \in Nat \ {0}
  /\ Block \subseteq Nat \ {0}
  /\ Meta \subseteq Block /\ File \subseteq Block /\ Meta \cap File = {}

VARIABLES
  b_blocknr,    \* block of each buffer, 0 while it has no device
  b_count, b_dirt, b_lock, b_uptodate,
  fresh,        \* whether the buffer holds the newest version of its block
  disk,         \* whether the disk does, for each block
  failed,       \* blocks that a failed write has left undefined
  request,      \* each slot, NoReq when its dev is -1; old: the data has changed since
  queue,        \* the device's request list; the first one is being served
  pc, op,       \* where a process is, and what it was called for
  want, ahead,  \* block it looks for; the other block of breada()
  bh, got,      \* buffer getblk() or ll_rw_block() works on; buffer it holds
  rw, at        \* command of make_request(); position of sync_dev()'s loop

head == <<b_blocknr, b_count, b_dirt, b_lock, b_uptodate>>
data == <<fresh, disk, failed>>
io == <<request, queue>>
locals == <<pc, op, want, ahead, bh, got, rw, at>>
vars == <<head, data, io, locals>>

NoReq == [cmd |-> "NONE", b |-> 0, old |-> FALSE]

TypeOK ==
  /\ b_blocknr \in [Buf -> Block \cup {0}]
  /\ b_count \in [Buf -> Nat]
  /\ b_dirt \in [Buf -> BOOLEAN] /\ b_lock \in [Buf -> BOOLEAN]
  /\ b_uptodate \in [Buf -> BOOLEAN]
  /\ fresh \in [Buf -> BOOLEAN] /\ disk \in [Block -> BOOLEAN]
  /\ failed \subseteq Block
  /\ request \in [Slot -> [cmd : {"READ", "WRITE"}, b : Buf, old : BOOLEAN] \cup {NoReq}]
  /\ queue \in Seq(Slot) /\ IsInjective(queue)
  /\ Range(queue) = {s \in Slot : request[s] # NoReq}
  /\ pc \in [Proc -> {"user", "copy", "repeat", "hashed", "sleeping", "victim", "sync",
                      "found", "lock", "request", "nap", "waiting", "read"}]
  /\ op \in [Proc -> {"none", "bread", "breada", "sync"}]
  /\ want \in [Proc -> Block \cup {0}] /\ ahead \in [Proc -> Block \cup {0}]
  /\ bh \in [Proc -> Buf \cup {0}] /\ got \in [Proc -> Buf \cup {0}]
  /\ rw \in [Proc -> {"READ", "WRITE"}]
  /\ at \in [Proc -> 0 .. NBuf + 1]

\* buffer_init() and blk_dev_init()
Init ==
  /\ b_blocknr = [b \in Buf |-> 0] /\ b_count = [b \in Buf |-> 0]
  /\ b_dirt = [b \in Buf |-> FALSE] /\ b_lock = [b \in Buf |-> FALSE]
  /\ b_uptodate = [b \in Buf |-> FALSE]
  /\ fresh = [b \in Buf |-> FALSE] /\ disk = [k \in Block |-> TRUE]
  /\ failed = {}
  /\ request = [s \in Slot |-> NoReq] /\ queue = <<>>
  /\ pc = [p \in Proc |-> "user"] /\ op = [p \in Proc |-> "none"]
  /\ want = [p \in Proc |-> 0] /\ ahead = [p \in Proc |-> 0]
  /\ bh = [p \in Proc |-> 0] /\ got = [p \in Proc |-> 0]
  /\ rw = [p \in Proc |-> "READ"] /\ at = [p \in Proc |-> 0]

Goto(p, label) == pc' = [pc EXCEPT ![p] = label]

-----------------------------------------------------------------------------
(* getblk() *)

Buffers(k) == {b \in Buf : b_blocknr[b] = k}

MutPinned(b) == b_count[b]

\* get_hash_table() counts itself in before it waits for the buffer.
Pinned(b) == b_count[b] + 1

Badness(b) == (IF b_dirt[b] THEN 2 ELSE 0) + (IF b_lock[b] THEN 1 ELSE 0)
Unused == {b \in Buf : b_count[b] = 0}
LeastBad == {b \in Unused : \A c \in Unused : Badness(b) <= Badness(c)}

\* From repeat to the first sleep: a cached buffer is pinned, else the least
\* bad unused one is chosen; without one the process sleeps on buffer_wait.
Repeat(p) ==
  /\ pc[p] = "repeat"
  /\ \/ \E b \in Buffers(want[p]) :
           /\ b_count' = [b_count EXCEPT ![b] = Pinned(b)]
           /\ bh' = [bh EXCEPT ![p] = b]
           /\ Goto(p, "hashed")
     \/ \E b \in LeastBad :
           /\ Buffers(want[p]) = {}
           /\ bh' = [bh EXCEPT ![p] = b]
           /\ Goto(p, "victim")
           /\ UNCHANGED b_count
     \/ /\ Buffers(want[p]) = {} /\ Unused = {}
        /\ Goto(p, "sleeping")
        /\ UNCHANGED <<b_count, bh>>
  /\ UNCHANGED <<b_blocknr, b_dirt, b_lock, b_uptodate, data, io,
                 op, want, ahead, got, rw, at>>

\* get_hash_table() after wait_on_buffer()
Hashed(p) ==
  LET b == bh[p] IN
  /\ pc[p] = "hashed" /\ ~b_lock[b]
  /\ IF b_blocknr[b] = want[p]
       THEN Goto(p, "found") /\ UNCHANGED b_count
       ELSE Goto(p, "repeat") /\ b_count' = [b_count EXCEPT ![b] = @ - 1]
  /\ bh' = IF pc'[p] = "repeat" THEN [bh EXCEPT ![p] = 0] ELSE bh
  /\ UNCHANGED <<b_blocknr, b_dirt, b_lock, b_uptodate, data, io,
                 op, want, ahead, got, rw, at>>

MutStillFree(b) == TRUE

\* if (bh->b_count) goto repeat
StillFree(b) == b_count[b] = 0

MutAddedMeanwhile(k) == FALSE

\* "somebody else might already have added this block to the cache"
AddedMeanwhile(k) == Buffers(k) # {}

\* getblk() after wait_on_buffer(bh): a dirty buffer is written out first.
Victim(p) ==
  LET b == bh[p] IN
  /\ pc[p] = "victim" /\ ~b_lock[b]
  /\ \/ /\ ~StillFree(b)
        /\ Goto(p, "repeat")
        /\ UNCHANGED <<head, fresh, at>>
     \/ /\ StillFree(b) /\ b_dirt[b]
        /\ Goto(p, "sync")
        /\ at' = [at EXCEPT ![p] = 1]
        /\ UNCHANGED <<head, fresh>>
     \/ /\ StillFree(b) /\ ~b_dirt[b] /\ AddedMeanwhile(want[p])
        /\ Goto(p, "repeat")
        /\ UNCHANGED <<head, fresh, at>>
     \/ /\ StillFree(b) /\ ~b_dirt[b] /\ ~AddedMeanwhile(want[p])
        /\ b_count' = [b_count EXCEPT ![b] = 1]
        /\ b_dirt' = [b_dirt EXCEPT ![b] = FALSE]
        /\ b_uptodate' = [b_uptodate EXCEPT ![b] = FALSE]
        /\ b_blocknr' = [b_blocknr EXCEPT ![b] = want[p]]
        /\ fresh' = [fresh EXCEPT ![b] = FALSE]
        /\ Goto(p, "found")
        /\ UNCHANGED <<b_lock, at>>
  /\ bh' = IF pc'[p] = "repeat" THEN [bh EXCEPT ![p] = 0] ELSE bh
  /\ UNCHANGED <<disk, failed, io, op, want, ahead, got, rw>>

-----------------------------------------------------------------------------
(* make_request() *)

Before(cmd, k, r) ==   \* IN_ORDER()
  \/ cmd = "READ" /\ r.cmd = "WRITE"
  \/ cmd = r.cmd /\ k < b_blocknr[r.b]
InOrder(r, q) == Before(r.cmd, b_blocknr[r.b], q)

\* add_request(): where the elevator puts a request
Queued(s, r) ==
  LET q == [j \in 1 .. Len(queue) |-> request[queue[j]]]
      fits == {j \in 1 .. Len(queue) - 1 : /\ InOrder(q[j], r) \/ ~InOrder(q[j], q[j + 1])
                                           /\ InOrder(r, q[j + 1])}
  IN  IF fits = {} THEN Append(queue, s) ELSE InsertAt(queue, Min(fits) + 1, s)

\* Writes may not use the last third of the requests.
FreeSlots(cmd) ==
  {s \in 1 .. (IF cmd = "READ" THEN NReq ELSE (NReq * 2) \div 3) : request[s] = NoReq}

AddRequest(cmd, b) ==
  LET s == Max(FreeSlots(cmd))
      r == [cmd |-> cmd, b |-> b, old |-> FALSE]
  IN  /\ request' = [request EXCEPT ![s] = r]
      /\ queue' = Queued(s, r)
      /\ b_dirt' = [b_dirt EXCEPT ![b] = FALSE]

Target(p) == IF rw[p] = "WRITE" THEN at[p] ELSE got[p]

\* Where the caller of ll_rw_block() goes on.
Return(p) ==
  IF rw[p] = "WRITE"
    THEN /\ Goto(p, "sync")
         /\ at' = [at EXCEPT ![p] = @ + 1]
         /\ UNCHANGED <<want, ahead>>
    ELSE /\ Goto(p, IF op[p] = "breada" THEN "repeat" ELSE "read")
         /\ want' = IF op[p] = "breada" THEN [want EXCEPT ![p] = ahead[p]] ELSE want
         /\ ahead' = IF op[p] = "breada" THEN [ahead EXCEPT ![p] = want[p]] ELSE ahead
         /\ UNCHANGED at

MutNothingToDo(cmd, b) == cmd = "WRITE" /\ ~b_dirt[b]

NothingToDo(cmd, b) == \/ cmd = "WRITE" /\ ~b_dirt[b]
                       \/ cmd = "READ" /\ b_uptodate[b]

MutAfterSkip(b) == [b_lock EXCEPT ![b] = TRUE]

\* unlock_buffer() when there is nothing to read or write
AfterSkip(b) == [b_lock EXCEPT ![b] = FALSE]

\* lock_buffer(), then look whether there is anything to do.
Lock(p) ==
  LET b == Target(p) IN
  /\ pc[p] = "lock" /\ ~b_lock[b]
  /\ IF NothingToDo(rw[p], b)
       THEN b_lock' = AfterSkip(b) /\ Return(p)
       ELSE /\ b_lock' = [b_lock EXCEPT ![b] = TRUE]
            /\ Goto(p, "request")
            /\ UNCHANGED <<want, ahead, at>>
  /\ UNCHANGED <<b_blocknr, b_count, b_dirt, b_uptodate, data, io, op, bh, got, rw>>

Request(p) ==
  /\ pc[p] = "request"
  /\ IF FreeSlots(rw[p]) # {}
       THEN AddRequest(rw[p], Target(p)) /\ Return(p)
       ELSE Goto(p, "nap") /\ UNCHANGED <<b_dirt, io, want, ahead, at>>
  /\ UNCHANGED <<b_blocknr, b_count, b_lock, b_uptodate, data, op, bh, got, rw>>

\* The search for a free request and sleep_on() are not atomic.
Nap(p) ==
  /\ pc[p] = "nap"
  /\ Goto(p, "waiting")
  /\ UNCHANGED <<head, data, io, op, want, ahead, bh, got, rw, at>>

\* end_request() for the first request of the queue; what the disk gets when
\* the data changed during the transfer is either version.
EndRequest ==
  \E ok \in BOOLEAN, late \in BOOLEAN :
    LET s == Head(queue)
        r == request[s]
        k == b_blocknr[r.b]
    IN  /\ queue # <<>>
        /\ b_uptodate' = [b_uptodate EXCEPT ![r.b] = ok]
        /\ b_lock' = [b_lock EXCEPT ![r.b] = FALSE]
        /\ IF r.cmd = "READ"
             THEN /\ fresh' = [fresh EXCEPT ![r.b] = ok /\ disk[k]]
                  /\ UNCHANGED <<disk, failed>>
             ELSE /\ disk' = [disk EXCEPT ![k] = ok /\ fresh[r.b] /\ (r.old => late)]
                  /\ failed' = IF ok THEN failed ELSE failed \cup {k}
                  /\ UNCHANGED fresh
        /\ request' = [request EXCEPT ![s] = NoReq]
        /\ queue' = Tail(queue)
        /\ pc' = [q \in Proc |-> IF pc[q] = "waiting" THEN "request" ELSE pc[q]]
        /\ UNCHANGED <<b_blocknr, b_count, b_dirt, op, want, ahead, bh, got, rw, at>>

-----------------------------------------------------------------------------
(* sync_dev() and sys_sync() *)

\* One round over the buffers.  sync_dev() makes a second one for the buffers
\* that sync_inodes(), which is not modelled, has changed.
Sync(p) ==
  LET b == at[p] IN
  /\ pc[p] = "sync"
  /\ \/ /\ at[p] > NBuf
        /\ Goto(p, IF op[p] = "sync" THEN "user" ELSE "victim")
        /\ op' = IF op[p] = "sync" THEN [op EXCEPT ![p] = "none"] ELSE op
        /\ at' = [at EXCEPT ![p] = 0]
        /\ rw' = [rw EXCEPT ![p] = "READ"]
     \/ /\ at[p] <= NBuf
        /\ b_blocknr[b] # 0 => ~b_lock[b]
        /\ IF b_blocknr[b] # 0 /\ b_dirt[b]
             THEN Goto(p, "lock") /\ rw' = [rw EXCEPT ![p] = "WRITE"] /\ UNCHANGED at
             ELSE at' = [at EXCEPT ![p] = @ + 1] /\ UNCHANGED <<pc, rw>>
        /\ UNCHANGED op
  /\ UNCHANGED <<head, data, io, want, ahead, bh, got>>

SysSync(p) ==
  /\ pc[p] = "user" /\ got[p] = 0
  /\ op' = [op EXCEPT ![p] = "sync"]
  /\ at' = [at EXCEPT ![p] = 1]
  /\ Goto(p, "sync")
  /\ UNCHANGED <<head, data, io, want, ahead, bh, got, rw>>

-----------------------------------------------------------------------------
(* bread() and breada() *)

Bread(p, k) ==
  /\ pc[p] = "user" /\ got[p] = 0
  /\ op' = [op EXCEPT ![p] = "bread"] /\ want' = [want EXCEPT ![p] = k]
  /\ Goto(p, "repeat")
  /\ UNCHANGED <<head, data, io, ahead, bh, got, rw, at>>

\* The callers ask for the blocks that follow; here for one of them.
Breada(p, k) ==
  /\ pc[p] = "user" /\ got[p] = 0 /\ k + 1 \in Block
  /\ op' = [op EXCEPT ![p] = "breada"]
  /\ want' = [want EXCEPT ![p] = k] /\ ahead' = [ahead EXCEPT ![p] = k + 1]
  /\ Goto(p, "repeat")
  /\ UNCHANGED <<head, data, io, bh, got, rw, at>>

\* getblk() has returned the block to read.
Found(p) ==
  /\ pc[p] = "found" /\ got[p] = 0
  /\ got' = [got EXCEPT ![p] = bh[p]] /\ bh' = [bh EXCEPT ![p] = 0]
  /\ IF b_uptodate[bh[p]]
       THEN IF op[p] = "bread"
              THEN Goto(p, "read") /\ UNCHANGED <<want, ahead, at>>
              ELSE Return(p)
       ELSE Goto(p, "lock") /\ UNCHANGED <<want, ahead, at>>
  /\ UNCHANGED <<head, data, io, op, rw>>

\* getblk() has returned the block to read ahead: ll_rw_block(READA,bh) asks
\* for the first block once more, and the other one is let go without a
\* wake_up().
FoundAhead(p) ==
  LET b == got[p]
      tmp == bh[p]
  IN  /\ pc[p] = "found" /\ b # 0
      /\ IF /\ ~b_uptodate[tmp] /\ ~b_lock[b] /\ ~NothingToDo("READ", b)
            /\ FreeSlots("READ") # {}
           THEN AddRequest("READ", b) /\ b_lock' = [b_lock EXCEPT ![b] = TRUE]
           ELSE UNCHANGED <<b_dirt, b_lock, io>>
      /\ b_count' = [b_count EXCEPT ![tmp] = @ - 1]
      /\ want' = [want EXCEPT ![p] = ahead[p]] /\ ahead' = [ahead EXCEPT ![p] = 0]
      /\ bh' = [bh EXCEPT ![p] = 0]
      /\ Goto(p, "read")
      /\ UNCHANGED <<b_blocknr, b_uptodate, data, op, got, rw, at>>

MutWoken(q) == pc[q]

\* wake_up(&buffer_wait)
Woken(q) == IF pc[q] = "sleeping" THEN "repeat" ELSE pc[q]

\* brelse(), when the buffer is not locked
Release(p) ==
  /\ b_count' = [b_count EXCEPT ![got[p]] = @ - 1]
  /\ pc' = [q \in Proc |-> IF q = p THEN "user" ELSE Woken(q)]
  /\ got' = [got EXCEPT ![p] = 0] /\ want' = [want EXCEPT ![p] = 0]

\* bread() and breada() after the last wait_on_buffer()
Read(p) ==
  /\ pc[p] = "read" /\ ~b_lock[got[p]]
  /\ op' = [op EXCEPT ![p] = "none"]
  /\ IF b_uptodate[got[p]]
       THEN Goto(p, "user") /\ UNCHANGED <<b_count, want, got>>
       ELSE Release(p)
  /\ UNCHANGED <<b_blocknr, b_dirt, b_lock, b_uptodate, data, io, ahead, bh, rw, at>>

Brelse(p) ==
  /\ pc[p] = "user" /\ got[p] # 0 /\ ~b_lock[got[p]]
  /\ Release(p)
  /\ UNCHANGED <<b_blocknr, b_dirt, b_lock, b_uptodate, data, io, op, ahead, bh, rw, at>>

-----------------------------------------------------------------------------
(* Callers that change a block *)

Change(b) ==
  /\ fresh' = [c \in Buf |-> c = b \/ (fresh[c] /\ b_blocknr[c] # b_blocknr[b])]
  /\ disk' = [disk EXCEPT ![b_blocknr[b]] = FALSE]
  /\ request' = [s \in Slot |-> IF request[s].b = b THEN [request[s] EXCEPT !.old = TRUE]
                                                   ELSE request[s]]

\* The file system changes the block and marks it, as in add_entry().
ChangeMeta(p) ==
  /\ pc[p] = "user" /\ got[p] # 0 /\ b_blocknr[got[p]] \in Meta
  /\ Change(got[p])
  /\ b_dirt' = [b_dirt EXCEPT ![got[p]] = TRUE]
  /\ UNCHANGED <<b_blocknr, b_count, b_lock, b_uptodate, failed, queue, locals>>

\* file_write() marks it first and then copies from user memory, where it may
\* sleep on a page fault.
FileWrite(p) ==
  /\ pc[p] = "user" /\ got[p] # 0 /\ b_blocknr[got[p]] \in File
  /\ b_dirt' = [b_dirt EXCEPT ![got[p]] = TRUE]
  /\ Goto(p, "copy")
  /\ UNCHANGED <<b_blocknr, b_count, b_lock, b_uptodate, data, io,
                 op, want, ahead, bh, got, rw, at>>

FileCopy(p) ==
  /\ pc[p] = "copy"
  /\ Change(got[p])
  /\ Goto(p, "user")
  /\ UNCHANGED <<head, failed, queue, op, want, ahead, bh, got, rw, at>>

Next ==
  \/ EndRequest
  \/ \E p \in Proc :
       \/ Repeat(p) \/ Hashed(p) \/ Victim(p) \/ Lock(p) \/ Request(p) \/ Nap(p)
       \/ Sync(p) \/ SysSync(p) \/ Found(p) \/ FoundAhead(p) \/ Read(p) \/ Brelse(p)
       \/ ChangeMeta(p) \/ FileWrite(p) \/ FileCopy(p)
       \/ \E k \in Block : Bread(p, k) \/ Breada(p, k)

Spec == Init /\ [][Next]_vars

-----------------------------------------------------------------------------
(* Properties *)

\* getblk(): "we know that this buffer is the only one of it's kind".  No two
\* buffers hold the same block, however the processes that want it interleave.
OneBufferPerBlock == \A k \in Block : Cardinality(Buffers(k)) <= 1

Pinning(b) == {p \in Proc : pc[p] \in {"hashed", "found"} /\ bh[p] = b}
Holding(b) == {p \in Proc : got[p] = b}

\* b_count counts the users of a buffer, so that brelse() never panics, and a
\* buffer in use is not given to another block.
UsersKeepTheirBlock ==
  /\ \A b \in Buf : b_count[b] = Cardinality(Pinning(b)) + Cardinality(Holding(b))
  /\ \A p \in Proc : got[p] # 0 => b_blocknr[got[p]] \in {want[p], ahead[p]}

\* A locked buffer has exactly one owner: a request in the queue, or a process
\* that is about to queue one.  So every lock is released, and the driver's
\* "block not locked" panic cannot happen.
LockHasOneOwner ==
  \A b \in Buf :
    Cardinality({s \in Slot : request[s].b = b})
      + Cardinality({p \in Proc : pc[p] \in {"request", "nap", "waiting"} /\ Target(p) = b})
      = IF b_lock[b] THEN 1 ELSE 0

\* A process that found every buffer in use does not sleep on while one is
\* unused, unless a process that is awake has one to release: breada() lets a
\* buffer go without a wake_up(), but the same caller releases another later.
NoLostWakeup ==
  \A p \in Proc : pc[p] = "sleeping" /\ Unused # {} =>
    \E q \in Proc : pc[q] # "sleeping" /\ got[q] # 0

Stored(k) ==   \* the newest version of block k is on disk or on its way
  \/ disk[k]
  \/ \E b \in Buffers(k) :
       fresh[b] /\ (b_dirt[b] \/ \E s \in Slot : request[s].b = b /\ request[s].cmd = "WRITE")

Coherent(k) ==
  /\ \A b \in Buffers(k) : b_uptodate[b] => fresh[b]
  /\ Stored(k)

\* What the file system writes to a block is what every later reader finds,
\* in the cache or on the disk, unless a write of that block has failed.
MetaCoherent == \A k \in Meta \ failed : Coherent(k)

\* fs/buffer.c:241: "we know that this buffer is the only one of it's kind,
\* and that it's unused (b_count=0), unlocked (b_lock=0), and clean".  The
\* same for the blocks of files: what getblk() takes for clean is on the disk.
FileCoherent == \A k \in File \ failed : (\E b \in Buffers(k) : b_count[b] = 0) => Stored(k)
=============================================================================
