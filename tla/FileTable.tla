----------------------------- MODULE FileTable -----------------------------
(***************************************************************************)
(* Descriptors, the file table and pipes: fs/open.c, fs/fcntl.c, fs/pipe.c *)
(* and the part of fork() that copies descriptors.  There is one file and  *)
(* one inode for a pipe; what a file holds is left out, of a pipe it is    *)
(* all that matters: the n-th byte written is the number n.                *)
(*                                                                         *)
(* A process sleeps while it opens a file or gets a pipe's inode, on the   *)
(* pipe, and where copying to or from its memory faults; the loops of      *)
(* read_pipe() and write_pipe() are one action per round.  An exit closes  *)
(* the descriptors one by one, which processes do here at any time.        *)
(***************************************************************************)
EXTENDS Integers, Sequences, FiniteSets

CONSTANTS
  FtProcs,
  NR_OPEN, NR_FILE,
  PipeBuf,       \* PAGE_SIZE
  PipeAsk,       \* the longest read or write
  PipeBytes      \* bound on the bytes written to one pipe

FDs == 0 .. NR_OPEN - 1
Files == 1 .. NR_FILE
NoFile == 0
FtInodes == {"file", "pipe"}

ASSUME FtAssumption ==
  /\ IsFiniteSet(FtProcs)
  /\ NR_OPEN \in Nat \ {0} /\ NR_FILE \in Nat \ {0}
  /\ PipeBuf \in Nat /\ PipeBuf > 1 /\ PipeAsk \in Nat /\ PipeBytes \in Nat

VARIABLES
  filp,      \* each process's descriptors
  fileTab,   \* file_table[]: f_count, f_inode, f_mode (1 and 2: the ends of a pipe)
  iCount,    \* i_count
  pipe,      \* head, tail and buf
  ftProc,    \* each process: the call it is in
  pipeWrit,  \* history: bytes written and read
  pipeRead,
  pipeFault, \* history: a copy to or from a process faulted and slept
  pipeBad    \* history: what a reader saw that it should not

ftVars == <<filp, fileTab, iCount, pipe, ftProc, pipeWrit, pipeRead, pipeFault, pipeBad>>

User == [pc |-> "user", fds |-> <<>>, left |-> 0]
EmptyPipe == [head |-> 0, tail |-> 0, buf |-> [i \in 0 .. PipeBuf - 1 |-> 0]]
Unborn == [User EXCEPT !.pc = "unborn"]

FtTypeOK ==
  /\ filp \in [FtProcs -> [FDs -> Files \cup {NoFile}]]
  /\ fileTab \in [Files -> [count : Nat, inode : FtInodes, mode : 0 .. 2]]
  /\ iCount \in [FtInodes -> Nat]
  /\ pipe.head \in 0 .. PipeBuf - 1 /\ pipe.tail \in 0 .. PipeBuf - 1
  /\ \A p \in FtProcs : ftProc[p].pc \in
       {"unborn", "user", "opening", "piping", "read", "write", "readSleep", "writeSleep",
        "readCopy", "writeCopy"}

FtInit ==
  /\ filp = [p \in FtProcs |-> [fd \in FDs |-> NoFile]]
  /\ fileTab = [f \in Files |-> [count |-> 0, inode |-> "file", mode |-> 0]]
  /\ iCount = [i \in FtInodes |-> 0]
  /\ pipe = EmptyPipe
  /\ ftProc = [p \in FtProcs |-> IF p = CHOOSE q \in FtProcs : TRUE THEN User ELSE Unborn]
  /\ pipeWrit = 0 /\ pipeRead = 0 /\ pipeFault = FALSE /\ pipeBad = "none"

----------------------------------------------------------------------------
NoData == UNCHANGED <<pipe, pipeWrit, pipeRead, pipeFault, pipeBad>>
FreeFds(p) == {fd \in FDs : filp[p][fd] = NoFile}
FreeFiles == {f \in Files : fileTab[f].count = 0}
Lowest(S) == CHOOSE x \in S : \A y \in S : x <= y
InUser(p) == ftProc[p].pc = "user"

\* wake_up(&inode->i_wait) of the pipe
WakePipe(procs) ==
  [p \in FtProcs |-> CASE procs[p].pc = "readSleep" -> [procs[p] EXCEPT !.pc = "read"]
                       [] procs[p].pc = "writeSleep" -> [procs[p] EXCEPT !.pc = "write"]
                       [] OTHER -> procs[p]]

\* sys_open() takes the lowest descriptor and the first file, and then sleeps in
\* open_namei() ...
OpenReserve(p) ==
  /\ InUser(p) /\ FreeFds(p) # {} /\ FreeFiles # {}
  /\ LET fd == Lowest(FreeFds(p))
         f == Lowest(FreeFiles)
     IN /\ filp' = [filp EXCEPT ![p][fd] = f]
        /\ fileTab' = [fileTab EXCEPT ![f].count = @ + 1]
        /\ ftProc' = [ftProc EXCEPT ![p].pc = "opening", ![p].fds = <<fd>>]
  /\ UNCHANGED iCount /\ NoData

\* ... and keeps or gives them back
OpenEnds(p) ==
  /\ ftProc[p].pc = "opening"
  /\ LET fd == ftProc[p].fds[1]
         f == filp[p][fd]
     IN \/ /\ fileTab' = [fileTab EXCEPT ![f] = [count |-> 1, inode |-> "file", mode |-> 0]]
           /\ iCount' = [iCount EXCEPT !["file"] = @ + 1]
           /\ UNCHANGED filp
        \/ /\ fileTab' = [fileTab EXCEPT ![f].count = 0]
           /\ filp' = [filp EXCEPT ![p][fd] = NoFile]
           /\ UNCHANGED iCount
  /\ ftProc' = [ftProc EXCEPT ![p] = User] /\ NoData

\* sys_close() and iput(): the file's inode is put with the last descriptor
SysClose(p, fd) ==
  /\ InUser(p) /\ filp[p][fd] # NoFile
  /\ LET f == filp[p][fd]
         i == fileTab[f].inode
         last == fileTab[f].count = 1
     IN /\ filp' = [filp EXCEPT ![p][fd] = NoFile]
        /\ fileTab' = [fileTab EXCEPT ![f].count = @ - 1]
        /\ iCount' = IF last THEN [iCount EXCEPT ![i] = @ - 1] ELSE iCount
        /\ ftProc' = IF last /\ i = "pipe" THEN WakePipe(ftProc) ELSE ftProc
  /\ NoData

\* dupfd(), for sys_dup(), F_DUPFD and (after sys_close()) sys_dup2()
DupFd(p, fd, arg) ==
  /\ InUser(p) /\ filp[p][fd] # NoFile
  /\ LET free == {n \in FreeFds(p) : n >= arg}
     IN /\ free # {}
        /\ filp' = [filp EXCEPT ![p][Lowest(free)] = filp[p][fd]]
        /\ fileTab' = [fileTab EXCEPT ![filp[p][fd]].count = @ + 1]
  /\ UNCHANGED <<iCount, ftProc>> /\ NoData

MutCopies(p, f) == IF \E fd \in FDs : filp[p][fd] = f THEN 1 ELSE 0   \* a dup not counted
Copies(p, f) == Cardinality({fd \in FDs : filp[p][fd] = f})

\* copy_process(): the child has the same open files
Fork(p, child) ==
  /\ InUser(p) /\ ftProc[child].pc = "unborn"
  /\ filp' = [filp EXCEPT ![child] = filp[p]]
  /\ fileTab' = [f \in Files |-> [fileTab[f] EXCEPT !.count = @ + Copies(p, f)]]
  /\ ftProc' = [ftProc EXCEPT ![child] = User]
  /\ UNCHANGED iCount /\ NoData

\* sys_pipe(): two files and two descriptors are reserved before get_pipe_inode()
\* sleeps
PipeReserve(p) ==
  /\ InUser(p) /\ Cardinality(FreeFds(p)) >= 2 /\ Cardinality(FreeFiles) >= 2
  /\ LET fd0 == Lowest(FreeFds(p))
         fd1 == Lowest(FreeFds(p) \ {fd0})
         f0 == Lowest(FreeFiles)
         f1 == Lowest(FreeFiles \ {f0})
     IN /\ filp' = [filp EXCEPT ![p][fd0] = f0, ![p][fd1] = f1]
        /\ fileTab' = [fileTab EXCEPT ![f0].count = 1, ![f1].count = 1]
        /\ ftProc' = [ftProc EXCEPT ![p].pc = "piping", ![p].fds = <<fd0, fd1>>]
  /\ UNCHANGED iCount /\ NoData

\* get_pipe_inode() gives an inode with a count of 2, or there is none
PipeEnds(p) ==
  /\ ftProc[p].pc = "piping"
  /\ LET fds == ftProc[p].fds
         f0 == filp[p][fds[1]]
         f1 == filp[p][fds[2]]
     IN \/ /\ iCount["pipe"] = 0
           /\ iCount' = [iCount EXCEPT !["pipe"] = 2]
           /\ fileTab' = [fileTab EXCEPT ![f0] = [count |-> 1, inode |-> "pipe", mode |-> 1],
                                         ![f1] = [count |-> 1, inode |-> "pipe", mode |-> 2]]
           /\ pipe' = EmptyPipe /\ pipeWrit' = 0 /\ pipeRead' = 0 /\ pipeFault' = FALSE
           /\ UNCHANGED <<filp, pipeBad>>
        \/ /\ filp' = [filp EXCEPT ![p][fds[1]] = NoFile, ![p][fds[2]] = NoFile]
           /\ fileTab' = [fileTab EXCEPT ![f0].count = 0, ![f1].count = 0]
           /\ UNCHANGED iCount /\ NoData
  /\ ftProc' = [ftProc EXCEPT ![p] = User]

----------------------------------------------------------------------------
(* fs/pipe.c *)
Tables == UNCHANGED <<filp, fileTab, iCount>>
PipeSize == (pipe.head - pipe.tail) % PipeBuf
MutPipeRoom == PipeBuf - PipeSize      \* a full buffer looks empty
PipeRoom == (PipeBuf - 1) - PipeSize

\* read() and write() on an end of the pipe
PipeCall(p, fd, mode, n) ==
  /\ InUser(p) /\ filp[p][fd] # NoFile
  /\ fileTab[filp[p][fd]].inode = "pipe" /\ fileTab[filp[p][fd]].mode = mode
  /\ mode = 2 => pipeWrit < PipeBytes
  /\ ftProc' = [ftProc EXCEPT ![p].pc = IF mode = 1 THEN "read" ELSE "write", ![p].left = n]
  /\ Tables /\ NoData

\* the files open, and not only reserved by a call that sleeps
Reserved == {f \in Files : \E p \in FtProcs : \E k \in DOMAIN ftProc[p].fds :
                             filp[p][ftProc[p].fds[k]] = f}
OpenFiles(i) == {f \in Files \ Reserved : fileTab[f].count > 0 /\ fileTab[f].inode = i}
WriterOpen == \E f \in OpenFiles("pipe") : fileTab[f].mode = 2

\* Nothing to read: the writers are woken, and the reader returns if there are none.
ReadEmpty(p) ==
  /\ ftProc[p].pc = "read" /\ ftProc[p].left > 0 /\ PipeSize = 0
  /\ ftProc' = [WakePipe(ftProc) EXCEPT ![p] =
                  IF iCount["pipe"] # 2 THEN User ELSE [ftProc[p] EXCEPT !.pc = "readSleep"]]
  /\ pipeBad' = IF iCount["pipe"] # 2 /\ WriterOpen THEN "early end" ELSE pipeBad
  /\ Tables /\ UNCHANGED <<pipe, pipeWrit, pipeRead, pipeFault>>

\* the bytes of a chunk of the buffer, which never wraps
Chunk(from, n) == [k \in 1 .. n |-> pipe.buf[from + k - 1]]
InOrder(bytes) == \A k \in DOMAIN bytes : bytes[k] = pipeRead + k

\* The tail moves before the bytes are copied, and the copy may fault and sleep.
ReadChunk(p) ==
  /\ ftProc[p].pc = "read" /\ ftProc[p].left > 0 /\ PipeSize > 0
  /\ LET chars == Lowest({PipeBuf - pipe.tail, ftProc[p].left, PipeSize})
         q == [ftProc[p] EXCEPT !.left = @ - chars]
     IN /\ pipe' = [pipe EXCEPT !.tail = (@ + chars) % PipeBuf]
        /\ pipeRead' = pipeRead + chars
        /\ \/ /\ ftProc' = [ftProc EXCEPT ![p] = q]
              /\ pipeBad' = IF pipeFault \/ InOrder(Chunk(pipe.tail, chars)) THEN pipeBad
                            ELSE "bytes"
              /\ UNCHANGED pipeFault
           \/ /\ ftProc' = [ftProc EXCEPT ![p] = [q EXCEPT !.pc = "readCopy"]]
              /\ pipeFault' = TRUE /\ UNCHANGED pipeBad
  /\ Tables /\ UNCHANGED pipeWrit

\* nothing left to read: the sleepers are woken
ReadDone(p) ==
  /\ ftProc[p].pc = "read" /\ ftProc[p].left = 0
  /\ ftProc' = [WakePipe(ftProc) EXCEPT ![p] = User]
  /\ Tables /\ NoData

\* the same for write_pipe(); without a reader, a writer is told only when it is full
WriteFull(p) ==
  /\ ftProc[p].pc = "write" /\ ftProc[p].left > 0 /\ PipeRoom = 0
  /\ ftProc' = [WakePipe(ftProc) EXCEPT ![p] =
                  IF iCount["pipe"] # 2 THEN User ELSE [ftProc[p] EXCEPT !.pc = "writeSleep"]]
  /\ Tables /\ NoData

WriteChunk(p) ==
  /\ ftProc[p].pc = "write" /\ ftProc[p].left > 0 /\ PipeRoom > 0
  /\ pipeWrit < PipeBytes
  /\ LET chars == Lowest({PipeBuf - pipe.head, ftProc[p].left, PipeRoom})
         q == [ftProc[p] EXCEPT !.left = @ - chars]
         moved == [pipe EXCEPT !.head = (@ + chars) % PipeBuf]
         Filled(k) == k >= pipe.head /\ k < pipe.head + chars
     IN /\ pipeWrit' = pipeWrit + chars
        /\ \/ /\ pipe' = [moved EXCEPT !.buf = [k \in DOMAIN @ |->
                            IF Filled(k) THEN pipeWrit + 1 + k - pipe.head ELSE @[k]]]
              /\ ftProc' = [ftProc EXCEPT ![p] = q] /\ UNCHANGED pipeFault
           \/ /\ pipe' = moved /\ pipeFault' = TRUE
              /\ ftProc' = [ftProc EXCEPT ![p] = [q EXCEPT !.pc = "writeCopy"]]
  /\ Tables /\ UNCHANGED <<pipeRead, pipeBad>>

WriteDone(p) ==
  /\ ftProc[p].pc = "write" /\ ftProc[p].left = 0
  /\ ftProc' = [WakePipe(ftProc) EXCEPT ![p] = User]
  /\ Tables /\ NoData

\* a copy that slept is done (the bytes are not followed after one has)
CopyDone(p) ==
  /\ ftProc[p].pc \in {"readCopy", "writeCopy"}
  /\ ftProc' = [ftProc EXCEPT ![p].pc = IF @ = "readCopy" THEN "read" ELSE "write"]
  /\ Tables /\ NoData

FtNext ==
  \E p \in FtProcs :
    \/ OpenReserve(p) \/ OpenEnds(p) \/ PipeReserve(p) \/ PipeEnds(p)
    \/ \E fd \in FDs : SysClose(p, fd) \/ (\E arg \in FDs : DupFd(p, fd, arg))
                       \/ \E mode \in {1, 2}, n \in 1 .. PipeAsk : PipeCall(p, fd, mode, n)
    \/ \E child \in FtProcs : Fork(p, child)
    \/ ReadEmpty(p) \/ ReadChunk(p) \/ ReadDone(p)
    \/ WriteFull(p) \/ WriteChunk(p) \/ WriteDone(p) \/ CopyDone(p)

FtSpec == FtInit /\ [][FtNext]_ftVars

----------------------------------------------------------------------------
Users(f) == {u \in FtProcs \X FDs : filp[u[1]][u[2]] = f}
InPipe(p) == ftProc[p].pc \in {"read", "write", "readCopy", "writeCopy"}

\* Through open(), pipe(), dup(), fork(), close() and calls that fail after they have
\* slept: f_count is the number of descriptors that name the file and i_count the
\* number of open files of the inode, so that a file is reused and an inode put when
\* its last user has gone, and not before.
FileCountsExact ==
  /\ \A f \in Files : fileTab[f].count = Cardinality(Users(f))
  /\ \A i \in FtInodes : iCount[i] = Cardinality(OpenFiles(i))

\* A pipe gives its bytes in order, each once (while no copy sleeps), and no end of
\* file while somebody can write; and nobody sleeps on a pipe that has what it waits
\* for, or whose other end is closed, unless somebody in a call is still to wake it.
PipeDelivers ==
  /\ pipeBad = "none"
  /\ iCount["pipe"] > 0 => PipeSize = pipeWrit - pipeRead
  /\ \A p \in FtProcs :
       /\ ftProc[p].pc = "readSleep" =>
            (PipeSize = 0 /\ WriterOpen) \/ \E q \in FtProcs : InPipe(q)
       /\ ftProc[p].pc = "writeSleep" =>
            (PipeSize = PipeBuf - 1 /\ iCount["pipe"] = 2) \/ \E q \in FtProcs : InPipe(q)
=============================================================================
