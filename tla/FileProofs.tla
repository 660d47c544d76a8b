------------------------------ MODULE FileProofs ------------------------------
(***************************************************************************)
(* Proofs about descriptors, the file table and the pipe, about the table  *)
(* of inodes and about directories, for any number of processes,           *)
(* descriptors, files, inodes and blocks and any size of the pipe.         *)
(*                                                                         *)
(* FileCountsExact needs to know of calls that sleep: a descriptor that    *)
(* open() or pipe() has reserved is the only user of its file (Exclusive), *)
(* so that the call may set the file up or give it back as it likes, and   *)
(* a process that does not exist has no descriptors (Unborns), so that     *)
(* fork() only ever adds some.  PipeDelivers needs more, and has an        *)
(* invariant of its own on top of that one (PipeInv).  InodesCoherent      *)
(* needs to know what a process has at each point of a call (ProcOK): the  *)
(* inode it reads or frees has no other user, and the one it keeps empty   *)
(* while it sleeps is still empty.  TreeConsistent, the last part, needs   *)
(* to know what a call on names holds and knows while it sleeps (NameInv). *)
(***************************************************************************)
EXTENDS FileTable, Inode, Namei, FiniteSetTheorems, SequenceTheorems, TLAPS

Calls == {"unborn", "user", "opening", "piping", "read", "write", "readSleep", "writeSleep",
          "readCopy", "writeCopy"}
ProcType == [pc : Calls, fds : Seq(FDs), left : Nat]
FileType == [count : Nat, inode : FtInodes, mode : 0 .. 2]
FilpType == [FtProcs -> [FDs -> Files \cup {NoFile}]]
TabType == [Files -> FileType]
PipeType == [head : 0 .. PipeBuf - 1, tail : 0 .. PipeBuf - 1, buf : [0 .. PipeBuf - 1 -> Nat]]

\* the descriptors a call has reserved
Pending(c) == {c.fds[k] : k \in DOMAIN c.fds}

Types ==
  /\ filp \in FilpType
  /\ fileTab \in TabType
  /\ iCount \in [FtInodes -> Nat]
  /\ ftProc \in [FtProcs -> ProcType]
  /\ pipe \in PipeType
  /\ pipeWrit \in Nat /\ pipeRead \in Nat

CallOK(c) ==
  /\ c.pc = "opening" => \E a \in FDs : c.fds = <<a>>
  /\ c.pc = "piping" => \E a, b \in FDs : a # b /\ c.fds = <<a, b>>
  /\ c.pc \notin {"opening", "piping"} => c.fds = <<>>

Exclusive ==
  \A p \in FtProcs : \A fd \in Pending(ftProc[p]) :
    filp[p][fd] \in Files /\ Users(filp[p][fd]) = {<<p, fd>>}

Unborns == \A p \in FtProcs : ftProc[p].pc = "unborn" => \A fd \in FDs : filp[p][fd] = NoFile

TableInv ==
  /\ Types
  /\ \A p \in FtProcs : CallOK(ftProc[p])
  /\ Exclusive
  /\ Unborns
  /\ FileCountsExact

UsersOf(h, f) == {u \in FtProcs \X FDs : h[u[1]][u[2]] = f}
ReservedBy(p) == {f \in Files : \E fd \in Pending(ftProc[p]) : filp[p][fd] = f}
Opens(tab, res, i) == {f \in Files \ res : tab[f].count > 0 /\ tab[f].inode = i}

\* the ends of the pipe that are open stay the same
EndsKept ==
  /\ Opens(fileTab', Reserved', "pipe") = Opens(fileTab, Reserved, "pipe")
  /\ \A f \in Opens(fileTab, Reserved, "pipe") : fileTab'[f].mode = fileTab[f].mode

SetFd(h, p, fd, f) == [h EXCEPT ![p][fd] = f]
SetCount(tab, f, n) == [tab EXCEPT ![f].count = n]

-----------------------------------------------------------------------------
(* Numbers and finite sets *)

\* A set of numbers that is not empty has a lowest one.
LEMMA LowestIn ==
  ASSUME NEW S, S \subseteq Nat, S # {}
  PROVE  Lowest(S) \in S
<1> DEFINE R == OpToRel(<, Nat)
<1>1. PICK x \in S : \A y \in S : ~(<<y, x>> \in R)
  BY NatLessThanWellFounded, WFMin
<1>2. \A y \in S : ~(y < x)
  BY <1>1, Zenon DEF OpToRel
<1>3. \A y \in S : x <= y
  BY <1>2
<1> QED
  BY <1>3 DEF Lowest

\* The length of a chunk is the least of three lengths.
LEMMA LowestOfThree ==
  ASSUME NEW a \in Int, NEW b \in Int, NEW c \in Int, NEW S, S = {a, b, c}
  PROVE  Lowest(S) \in S /\ Lowest(S) <= a /\ Lowest(S) <= b /\ Lowest(S) <= c
<1>1. \E x \in S : x <= a /\ x <= b /\ x <= c
  OBVIOUS
<1>2. \E x \in S : \A y \in S : x <= y
  BY <1>1
<1>3. Lowest(S) \in S /\ \A y \in S : Lowest(S) <= y
  BY <1>2 DEF Lowest
<1> QED
  BY <1>3

\* There are finitely many descriptors and files.
LEMMA Finite ==
  /\ IsFiniteSet(FDs) /\ IsFiniteSet(Files) /\ FDs \subseteq Nat /\ Files \subseteq Nat
  /\ NoFile \notin Files /\ IsFiniteSet(FtProcs \X FDs)
  /\ \A h, f : IsFiniteSet(UsersOf(h, f)) /\ Cardinality(UsersOf(h, f)) \in Nat
  /\ \A tab, res, i : IsFiniteSet(Opens(tab, res, i)) /\ Cardinality(Opens(tab, res, i)) \in Nat
<1>1. IsFiniteSet(FDs) /\ IsFiniteSet(Files)
  BY FtAssumption, FS_Interval DEF FDs, Files
<1>2. FDs \subseteq Nat /\ Files \subseteq Nat /\ NoFile \notin Files
  BY FtAssumption DEF FDs, Files, NoFile
<1>3. IsFiniteSet(FtProcs \X FDs)
  BY <1>1, FtAssumption, FS_Product
<1>4. ASSUME NEW h, NEW f PROVE IsFiniteSet(UsersOf(h, f)) /\ Cardinality(UsersOf(h, f)) \in Nat
  <2>1. UsersOf(h, f) \in SUBSET (FtProcs \X FDs)
    BY DEF UsersOf
  <2>2. IsFiniteSet(UsersOf(h, f))
    BY <1>3, <2>1, FS_Subset
  <2> QED
    BY <2>2, FS_CardinalityType
<1>5. ASSUME NEW tab, NEW res, NEW i
      PROVE  IsFiniteSet(Opens(tab, res, i)) /\ Cardinality(Opens(tab, res, i)) \in Nat
  <2>1. Opens(tab, res, i) \in SUBSET Files
    BY DEF Opens
  <2>2. IsFiniteSet(Opens(tab, res, i))
    BY <1>1, <2>1, FS_Subset
  <2> QED
    BY <2>2, FS_CardinalityType
<1> QED
  BY <1>1, <1>2, <1>3, <1>4, <1>5

-----------------------------------------------------------------------------
(* The tables *)

\* One descriptor gets another file, or none.
LEMMA UsersSet ==
  ASSUME NEW h \in FilpType,
         NEW p \in FtProcs, NEW fd \in FDs, NEW f \in Files \cup {NoFile},
         NEW k, k = SetFd(h, p, fd, f)
  PROVE  /\ k \in FilpType
         /\ k[p][fd] = f
         /\ \A n \in FDs : n # fd => k[p][n] = h[p][n]
         /\ \A q \in FtProcs : q # p => k[q] = h[q]
         /\ UsersOf(k, f) = UsersOf(h, f) \cup {<<p, fd>>}
         /\ \A g \in Files : g # f => UsersOf(k, g) = UsersOf(h, g) \ {<<p, fd>>}
<1>1. /\ k \in FilpType
      /\ k[p][fd] = f
      /\ \A n \in FDs : n # fd => k[p][n] = h[p][n]
      /\ \A q \in FtProcs : q # p => k[q] = h[q]
  BY DEF SetFd, FilpType
<1>2. \A u \in FtProcs \X FDs : u # <<p, fd>> => k[u[1]][u[2]] = h[u[1]][u[2]]
  <2>1. ASSUME NEW q \in FtProcs, NEW n \in FDs, <<q, n>> # <<p, fd>> PROVE k[q][n] = h[q][n]
    BY <1>1, <2>1
  <2> QED
    BY <2>1
<1>3. UsersOf(k, f) = UsersOf(h, f) \cup {<<p, fd>>}
  BY <1>1, <1>2 DEF UsersOf
<1>4. ASSUME NEW g \in Files, g # f PROVE UsersOf(k, g) = UsersOf(h, g) \ {<<p, fd>>}
  BY <1>1, <1>2, <1>4 DEF UsersOf
<1> QED
  BY <1>1, <1>3, <1>4

\* One file gets another count.
LEMMA CountSet ==
  ASSUME NEW tab \in TabType, NEW f \in Files, NEW n \in Nat,
         NEW new, new = SetCount(tab, f, n)
  PROVE  /\ new \in TabType /\ new[f].count = n
         /\ new[f].inode = tab[f].inode /\ new[f].mode = tab[f].mode
         /\ \A g \in Files : g # f => new[g] = tab[g]
<1>1. PICK c : c = [tab[f] EXCEPT !.count = n]
  OBVIOUS
<1>2. c \in FileType /\ c.count = n /\ c.inode = tab[f].inode /\ c.mode = tab[f].mode
  BY <1>1 DEF FileType, TabType
<1>3. new = [tab EXCEPT ![f] = c]
  BY <1>1 DEF SetCount
<1> QED
  BY <1>2, <1>3 DEF TabType

\* What TableInv says of counts, in terms of UsersOf and Opens.
LEMMA Counts ==
  /\ \A f : Users(f) = UsersOf(filp, f)
  /\ \A i : OpenFiles(i) = Opens(fileTab, Reserved, i)
  /\ FileCountsExact <=>
       /\ \A f \in Files : fileTab[f].count = Cardinality(UsersOf(filp, f))
       /\ \A i \in FtInodes : iCount[i] = Cardinality(Opens(fileTab, Reserved, i))
<1>1. \A f : Users(f) = UsersOf(filp, f)
  BY DEF Users, UsersOf
<1>2. \A i : OpenFiles(i) = Opens(fileTab, Reserved, i)
  BY DEF OpenFiles, Opens
<1> QED
  BY <1>1, <1>2 DEF FileCountsExact

\* The same of the next state.
LEMMA CountsNext ==
  FileCountsExact' <=>
       /\ \A f \in Files : fileTab'[f].count = Cardinality(UsersOf(filp', f))
       /\ \A i \in FtInodes : iCount'[i] = Cardinality(Opens(fileTab', Reserved', i))
<1>1. \A f : Users(f)' = UsersOf(filp', f)
  BY DEF Users, UsersOf
<1>2. \A i : OpenFiles(i)' = Opens(fileTab', Reserved', i)
  BY DEF OpenFiles, Opens
<1> QED
  BY <1>1, <1>2 DEF FileCountsExact

\* What is reserved, by whom.
LEMMA ReservedByWhom ==
  /\ Reserved = {f \in Files : \E p \in FtProcs : f \in ReservedBy(p)}
  /\ Reserved' = {f \in Files : \E p \in FtProcs : f \in ReservedBy(p)'}
BY DEF Reserved, ReservedBy, Pending

\* A reserved file has one user, and so is reserved by one call.
LEMMA ReservedAlone ==
  ASSUME TableInv, NEW p \in FtProcs, NEW f \in ReservedBy(p)
  PROVE  \E fd \in Pending(ftProc[p]) : filp[p][fd] = f /\ UsersOf(filp, f) = {<<p, fd>>}
<1>1. PICK fd \in Pending(ftProc[p]) : filp[p][fd] = f
  BY DEF ReservedBy
<1>2. Users(filp[p][fd]) = {<<p, fd>>}
  BY <1>1 DEF TableInv, Exclusive
<1> QED
  BY <1>1, <1>2, Counts

\* No two processes have reserved the same file.
LEMMA ReservedOnce ==
  ASSUME TableInv, NEW p \in FtProcs, NEW q \in FtProcs, p # q
  PROVE  ReservedBy(p) \cap ReservedBy(q) = {}
<1> SUFFICES ASSUME NEW f \in ReservedBy(p), f \in ReservedBy(q) PROVE FALSE
  OBVIOUS
<1>1. PICK a : UsersOf(filp, f) = {<<p, a>>}
  BY ReservedAlone
<1>2. PICK b : UsersOf(filp, f) = {<<q, b>>}
  BY ReservedAlone
<1>3. <<p, a>> = <<q, b>>
  BY <1>1, <1>2
<1> QED
  BY <1>3

\* A process that is not in open() or pipe() has reserved nothing.
LEMMA NothingReserved ==
  ASSUME NEW c, CallOK(c), c.pc \notin {"opening", "piping"}
  PROVE  c.fds = <<>> /\ Pending(c) = {}
<1>1. c.fds = <<>>
  BY DEF CallOK
<1>2. DOMAIN <<>> = {}
  OBVIOUS
<1> QED
  BY <1>1, <1>2 DEF Pending

\* When one process alone changes its descriptors or its call, what the others have
\* reserved stays reserved.
LEMMA ReservedStep ==
  ASSUME TableInv, NEW p \in FtProcs,
         \A q \in FtProcs : q # p => filp'[q] = filp[q] /\ ftProc'[q].fds = ftProc[q].fds
  PROVE  Reserved' = (Reserved \ ReservedBy(p)) \cup ReservedBy(p)'
<1>1. ASSUME NEW q \in FtProcs, q # p PROVE ReservedBy(q)' = ReservedBy(q)
  BY <1>1 DEF ReservedBy, Pending
<1>2. ASSUME NEW q \in FtProcs, q # p PROVE ReservedBy(q) \cap ReservedBy(p) = {}
  BY <1>2, ReservedOnce
<1>3. ReservedBy(p)' \subseteq Files /\ \A q \in FtProcs : ReservedBy(q) \subseteq Files
  BY DEF ReservedBy
<1>4. ASSUME NEW f \in Reserved' PROVE f \in (Reserved \ ReservedBy(p)) \cup ReservedBy(p)'
  <2>1. PICK q \in FtProcs : f \in ReservedBy(q)'
    BY ReservedByWhom
  <2>2. CASE q = p
    BY <2>1, <2>2
  <2>3. CASE q # p
    <3>1. f \in ReservedBy(q) /\ f \notin ReservedBy(p)
      BY <2>1, <2>3, <1>1, <1>2
    <3> QED
      BY <3>1, <1>3, ReservedByWhom
  <2> QED
    BY <2>2, <2>3
<1>5. ASSUME NEW f \in Reserved, f \notin ReservedBy(p) PROVE f \in Reserved'
  <2>1. PICK q \in FtProcs : f \in ReservedBy(q)
    BY ReservedByWhom
  <2>2. q # p /\ f \in ReservedBy(q)'
    BY <2>1, <1>1, <1>5
  <2> QED
    BY <2>2, <1>3, <2>1, ReservedByWhom
<1>6. ASSUME NEW f \in ReservedBy(p)' PROVE f \in Reserved'
  BY <1>3, ReservedByWhom
<1> QED
  BY <1>4, <1>5, <1>6

\* What a step of p has to show: that its own call and descriptors are in order, and
\* that it leaves the users of the files others have reserved alone.
LEMMA TableStep ==
  ASSUME TableInv, NEW p \in FtProcs, Types',
         \A q \in FtProcs : q # p =>
           /\ filp'[q] = filp[q] /\ ftProc'[q].fds = ftProc[q].fds
           /\ CallOK(ftProc'[q]) /\ (ftProc'[q].pc = "unborn" => ftProc[q].pc = "unborn"),
         CallOK(ftProc'[p]), ftProc'[p].pc # "unborn",
         \A fd \in Pending(ftProc'[p]) :
           filp'[p][fd] \in Files /\ UsersOf(filp', filp'[p][fd]) = {<<p, fd>>},
         \A g \in Reserved \ ReservedBy(p) : UsersOf(filp', g) = UsersOf(filp, g),
         FileCountsExact'
  PROVE  TableInv'
<1>1. ASSUME NEW q \in FtProcs, NEW fd \in Pending(ftProc'[q])
      PROVE  filp'[q][fd] \in Files /\ UsersOf(filp', filp'[q][fd]) = {<<q, fd>>}
  <2>1. CASE q = p
    BY <2>1
  <2>2. CASE q # p
    <3>1. fd \in Pending(ftProc[q]) /\ filp'[q][fd] = filp[q][fd]
      BY <2>2 DEF Pending
    <3>2. filp[q][fd] \in Files /\ Users(filp[q][fd]) = {<<q, fd>>}
      BY <3>1 DEF TableInv, Exclusive
    <3>3. PICK g : g = filp[q][fd]
      OBVIOUS
    <3>4. g \in Files /\ UsersOf(filp, g) = {<<q, fd>>}
      BY <3>2, <3>3, Counts
    <3>5. g \in ReservedBy(q)
      BY <3>1, <3>3, <3>4 DEF ReservedBy
    <3>6. g \in Reserved \ ReservedBy(p)
      BY <3>4, <3>5, <2>2, ReservedOnce, ReservedByWhom
    <3>7. UsersOf(filp', g) = {<<q, fd>>}
      BY <3>4, <3>6
    <3> QED
      BY <3>1, <3>3, <3>4, <3>7
  <2> QED
    BY <2>1, <2>2
<1>2. Exclusive'
  BY <1>1 DEF Exclusive, Users, UsersOf
<1>3. Unborns'
  BY DEF Unborns, TableInv
<1>4. \A q \in FtProcs : CallOK(ftProc'[q])
  OBVIOUS
<1> QED
  BY <1>2, <1>3, <1>4 DEF TableInv

\* What is the same for all steps that leave the tables alone: the calls on the pipe.
LEMMA PipeStep ==
  ASSUME TableInv, Tables, Types',
         \A q \in FtProcs :
           /\ ftProc'[q].fds = ftProc[q].fds
           /\ ftProc'[q].pc = ftProc[q].pc \/
                /\ ftProc'[q].pc \notin {"unborn", "opening", "piping"}
                /\ ftProc[q].pc \notin {"unborn", "opening", "piping"}
  PROVE  TableInv' /\ EndsKept
<1>1. UNCHANGED <<filp, fileTab, iCount>>
  BY DEF Tables
<1>2. \A q \in FtProcs : ReservedBy(q)' = ReservedBy(q)
  BY <1>1 DEF ReservedBy, Pending
<1>3. Reserved' = Reserved
  BY <1>2, ReservedByWhom
<1>4. FileCountsExact'
  BY <1>1, <1>3, Counts, CountsNext DEF TableInv
<1>5. Exclusive'
  BY <1>1 DEF TableInv, Exclusive, Pending, Users
<1>6. Unborns'
  BY <1>1 DEF TableInv, Unborns
<1>7. ASSUME NEW q \in FtProcs PROVE CallOK(ftProc'[q])
  <2>1. CallOK(ftProc[q])
    BY DEF TableInv
  <2> QED
    BY <2>1 DEF CallOK
<1> QED
  BY <1>1, <1>3, <1>4, <1>5, <1>6, <1>7 DEF TableInv, EndsKept

\* wake_up() changes no call but those that sleep on the pipe.
LEMMA Wakes ==
  ASSUME NEW procs \in [FtProcs -> ProcType], NEW w, w = WakePipe(procs)
  PROVE  /\ w \in [FtProcs -> ProcType]
         /\ \A q \in FtProcs :
              /\ w[q].fds = procs[q].fds /\ w[q].left = procs[q].left
              /\ procs[q].pc = "readSleep" => w[q].pc = "read"
              /\ procs[q].pc = "writeSleep" => w[q].pc = "write"
              /\ procs[q].pc \notin {"readSleep", "writeSleep"} => w[q] = procs[q]
<1>1. ASSUME NEW q \in FtProcs
      PROVE  /\ w[q] \in ProcType /\ w[q].fds = procs[q].fds /\ w[q].left = procs[q].left
             /\ procs[q].pc = "readSleep" => w[q].pc = "read"
             /\ procs[q].pc = "writeSleep" => w[q].pc = "write"
             /\ procs[q].pc \notin {"readSleep", "writeSleep"} => w[q] = procs[q]
  <2>1. procs[q] \in ProcType
    OBVIOUS
  <2>2. CASE procs[q].pc = "readSleep"
    <3>1. w[q] = [procs[q] EXCEPT !.pc = "read"]
      BY <2>2 DEF WakePipe
    <3> QED
      BY <2>1, <2>2, <3>1 DEF ProcType, Calls
  <2>3. CASE procs[q].pc = "writeSleep"
    <3>1. w[q] = [procs[q] EXCEPT !.pc = "write"]
      BY <2>3 DEF WakePipe
    <3> QED
      BY <2>1, <2>3, <3>1 DEF ProcType, Calls
  <2>4. CASE procs[q].pc \notin {"readSleep", "writeSleep"}
    <3>1. w[q] = procs[q]
      BY <2>4 DEF WakePipe
    <3> QED
      BY <2>1, <2>4, <3>1
  <2> QED
    BY <2>2, <2>3, <2>4
<1>2. w \in [FtProcs -> ProcType]
  BY <1>1 DEF WakePipe
<1> QED
  BY <1>1, <1>2

\* the types that most steps keep
LEMMA SameData ==
  ASSUME TableInv, NoData
  PROVE  pipe' \in PipeType /\ pipeWrit' \in Nat /\ pipeRead' \in Nat
BY DEF NoData, TableInv, Types

\* User is a call that has reserved nothing.
LEMMA UserOK == User \in ProcType /\ CallOK(User) /\ Pending(User) = {} /\ User.pc = "user"
                /\ User.fds = <<>>
<1>1. <<>> \in Seq(FDs) /\ 0 \in Nat
  BY EmptySeq
<1>2. User \in ProcType
  BY <1>1 DEF User, ProcType, Calls
<1>3. CallOK(User) /\ User.pc = "user" /\ User.fds = <<>>
  BY DEF User, CallOK
<1> QED
  BY <1>2, <1>3, NothingReserved

\* sys_open(), first half
LEMMA OpenReserveStep ==
  ASSUME TableInv, NEW p \in FtProcs, OpenReserve(p)
  PROVE  TableInv' /\ EndsKept
<1>1. PICK fd : fd = Lowest(FreeFds(p))
  OBVIOUS
<1>2. PICK f : f = Lowest(FreeFiles)
  OBVIOUS
<1>3. fd \in FDs /\ filp[p][fd] = NoFile
  <2>1. FreeFds(p) # {} /\ FreeFds(p) \subseteq FDs
    BY DEF OpenReserve, FreeFds
  <2>2. fd \in FreeFds(p)
    BY <1>1, <2>1, LowestIn, Finite
  <2> QED
    BY <2>2 DEF FreeFds
<1>4. f \in Files /\ fileTab[f].count = 0
  <2>1. FreeFiles # {} /\ FreeFiles \subseteq Files
    BY DEF OpenReserve, FreeFiles
  <2>2. f \in FreeFiles
    BY <1>2, <2>1, LowestIn, Finite
  <2> QED
    BY <2>2 DEF FreeFiles
<1>5. /\ filp \in FilpType /\ fileTab \in TabType
      /\ iCount \in [FtInodes -> Nat] /\ ftProc \in [FtProcs -> ProcType]
  BY DEF TableInv, Types
<1>6. /\ filp' = [filp EXCEPT ![p][fd] = f]
      /\ fileTab' = [fileTab EXCEPT ![f].count = @ + 1]
      /\ ftProc' = [ftProc EXCEPT ![p].pc = "opening", ![p].fds = <<fd>>]
      /\ iCount' = iCount /\ NoData
  BY <1>1, <1>2 DEF OpenReserve
<1>7. CallOK(ftProc[p]) /\ ftProc[p].pc = "user"
  BY DEF TableInv, OpenReserve, InUser
<1>8. Pending(ftProc[p]) = {} /\ ReservedBy(p) = {}
  BY <1>7, NothingReserved DEF ReservedBy
<1>9. /\ filp' \in FilpType /\ filp'[p][fd] = f
      /\ \A q \in FtProcs : q # p => filp'[q] = filp[q]
      /\ UsersOf(filp', f) = UsersOf(filp, f) \cup {<<p, fd>>}
      /\ \A g \in Files : g # f => UsersOf(filp', g) = UsersOf(filp, g) \ {<<p, fd>>}
  <2>1. filp' = SetFd(filp, p, fd, f)
    BY <1>6 DEF SetFd
  <2>2. PICK k : k = SetFd(filp, p, fd, f)
    OBVIOUS
  <2>3. /\ k \in FilpType /\ k[p][fd] = f
        /\ \A q \in FtProcs : q # p => k[q] = filp[q]
        /\ UsersOf(k, f) = UsersOf(filp, f) \cup {<<p, fd>>}
        /\ \A g \in Files : g # f => UsersOf(k, g) = UsersOf(filp, g) \ {<<p, fd>>}
    <3>1. f \in Files \cup {NoFile}
      BY <1>4
    <3> QED
      BY <1>3, <1>5, <2>2, <3>1, UsersSet
  <2> QED
    BY <2>1, <2>2, <2>3
<1>10. \A g \in Files : <<p, fd>> \notin UsersOf(filp, g)
  BY <1>3, Finite DEF UsersOf
<1>11. UsersOf(filp, f) = {}
  <2>1. Cardinality(UsersOf(filp, f)) = 0
    BY <1>4, Counts DEF TableInv
  <2> QED
    BY <2>1, Finite, FS_EmptySet
<1>12. UsersOf(filp', f) = {<<p, fd>>} /\ \A g \in Files : g # f => UsersOf(filp', g) = UsersOf(filp, g)
  <2>1. ASSUME NEW g \in Files, g # f PROVE UsersOf(filp', g) = UsersOf(filp, g)
    <3>1. PICK A : A = UsersOf(filp, g)
      OBVIOUS
    <3>2. <<p, fd>> \notin A /\ UsersOf(filp', g) = A \ {<<p, fd>>}
      BY <2>1, <3>1, <1>9, <1>10
    <3> QED
      BY <3>1, <3>2
  <2> QED
    BY <1>9, <1>11, <2>1
<1>13. /\ fileTab' \in TabType /\ fileTab'[f].count = 1
       /\ \A g \in Files : g # f => fileTab'[g] = fileTab[g]
  <2>1. fileTab' = SetCount(fileTab, f, 1)
    BY <1>4, <1>5, <1>6 DEF SetCount
  <2> QED
    BY <1>4, <1>5, <2>1, CountSet
<1>14. /\ ftProc' \in [FtProcs -> ProcType] /\ ftProc'[p].pc = "opening" /\ ftProc'[p].fds = <<fd>>
       /\ \A q \in FtProcs : q # p => ftProc'[q] = ftProc[q]
  <2>1. <<fd>> \in Seq(FDs)
    BY <1>3
  <2> QED
    BY <1>5, <1>6, <2>1 DEF ProcType, Calls
<1>15. Pending(ftProc'[p]) = {fd} /\ CallOK(ftProc'[p])
  <2>1. DOMAIN <<fd>> = {1} /\ <<fd>>[1] = fd
    OBVIOUS
  <2> QED
    BY <1>3, <1>14, <2>1 DEF Pending, CallOK
<1>16. ReservedBy(p)' = {f}
  BY <1>4, <1>9, <1>15 DEF ReservedBy
<1>17. Reserved' = Reserved \cup {f}
  BY <1>8, <1>9, <1>14, <1>16, ReservedStep
<1>18. ASSUME NEW i \in FtInodes PROVE Opens(fileTab', Reserved', i) = Opens(fileTab, Reserved, i)
  BY <1>4, <1>13, <1>17 DEF Opens
<1>19. Cardinality({<<p, fd>>}) = 1
  BY FS_Singleton
<1>20. FileCountsExact'
  <2>1. ASSUME NEW g \in Files PROVE fileTab'[g].count = Cardinality(UsersOf(filp', g))
    <3>1. fileTab[g].count = Cardinality(UsersOf(filp, g))
      BY Counts DEF TableInv
    <3> QED
      BY <3>1, <1>12, <1>13, <1>19
  <2>2. ASSUME NEW i \in FtInodes PROVE iCount'[i] = Cardinality(Opens(fileTab', Reserved', i))
    BY <1>6, <1>18, Counts DEF TableInv
  <2> QED
    BY <2>1, <2>2, CountsNext
<1>21. Types'
  BY <1>5, <1>6, <1>9, <1>13, <1>14, SameData DEF Types
<1>22. f \notin Reserved
  <2>1. SUFFICES ASSUME f \in Reserved PROVE FALSE
    OBVIOUS
  <2>2. PICK q \in FtProcs : f \in ReservedBy(q)
    BY <2>1, ReservedByWhom
  <2> QED
    BY <2>2, <1>11, ReservedAlone
<1>23. \A g \in Reserved \ ReservedBy(p) : UsersOf(filp', g) = UsersOf(filp, g)
  BY <1>12, <1>22, ReservedByWhom
<1>24. \A q \in FtProcs : CallOK(ftProc[q])
  BY DEF TableInv
<1>25. TableInv'
  BY <1>4, <1>9, <1>12, <1>14, <1>15, <1>20, <1>21, <1>23, <1>24, TableStep
<1>26. \A g \in Opens(fileTab, Reserved, "pipe") : g \in Files /\ g # f
  BY <1>4 DEF Opens
<1> QED
  BY <1>13, <1>18, <1>25, <1>26 DEF EndsKept, FtInodes

\* a call that ends
LEMMA EndCall ==
  ASSUME TableInv, NEW p \in FtProcs, ftProc' = [ftProc EXCEPT ![p] = User]
  PROVE  /\ ftProc' \in [FtProcs -> ProcType] /\ ftProc'[p] = User
         /\ \A q \in FtProcs : q # p => ftProc'[q] = ftProc[q]
         /\ Pending(ftProc'[p]) = {} /\ ReservedBy(p)' = {} /\ CallOK(ftProc'[p])
<1>1. /\ ftProc' \in [FtProcs -> ProcType] /\ ftProc'[p] = User
      /\ \A q \in FtProcs : q # p => ftProc'[q] = ftProc[q]
  BY UserOK DEF TableInv, Types
<1>2. Pending(ftProc'[p]) = {} /\ CallOK(ftProc'[p])
  BY <1>1, UserOK
<1> QED
  BY <1>1, <1>2 DEF ReservedBy

\* sys_open(), second half
LEMMA OpenEndsStep ==
  ASSUME TableInv, NEW p \in FtProcs, OpenEnds(p)
  PROVE  TableInv' /\ EndsKept
<1>1. PICK fd \in FDs : ftProc[p].fds = <<fd>>
  BY DEF OpenEnds, TableInv, CallOK
<1>2. PICK f : f = filp[p][fd]
  OBVIOUS
<1>3. /\ filp \in FilpType /\ fileTab \in TabType
      /\ iCount \in [FtInodes -> Nat] /\ ftProc \in [FtProcs -> ProcType]
  BY DEF TableInv, Types
<1>4. Pending(ftProc[p]) = {fd}
  <2>1. DOMAIN <<fd>> = {1} /\ <<fd>>[1] = fd
    OBVIOUS
  <2> QED
    BY <1>1, <2>1 DEF Pending
<1>5. f \in Files /\ UsersOf(filp, f) = {<<p, fd>>} /\ ReservedBy(p) = {f}
  <2>1. f \in Files /\ Users(f) = {<<p, fd>>}
    BY <1>2, <1>4 DEF TableInv, Exclusive
  <2> QED
    BY <1>2, <1>4, <2>1, Counts DEF ReservedBy
<1>6. f \in Reserved
  BY <1>5, ReservedByWhom
<1>7. /\ ftProc' \in [FtProcs -> ProcType] /\ ftProc'[p] = User
      /\ \A q \in FtProcs : q # p => ftProc'[q] = ftProc[q]
      /\ Pending(ftProc'[p]) = {} /\ ReservedBy(p)' = {} /\ CallOK(ftProc'[p])
  BY EndCall DEF OpenEnds
<1>8. NoData
  BY DEF OpenEnds
<1>9. \A q \in FtProcs : CallOK(ftProc[q])
  BY DEF TableInv
<1>10. ASSUME NEW g \in Files, g # f PROVE <<p, fd>> \notin UsersOf(filp, g)
  BY <1>2, <1>10 DEF UsersOf
<1>11. /\ \A g \in Files : fileTab[g].count = Cardinality(UsersOf(filp, g))
       /\ \A i \in FtInodes : iCount[i] = Cardinality(Opens(fileTab, Reserved, i))
  BY Counts DEF TableInv
<1>12. Cardinality({<<p, fd>>}) = 1 /\ Cardinality({}) = 0
  BY FS_Singleton, FS_EmptySet
<1>others. \A g \in Opens(fileTab, Reserved, "pipe") : g \in Files /\ g # f
  BY <1>6 DEF Opens
<1>13. CASE /\ fileTab' = [fileTab EXCEPT ![f] = [count |-> 1, inode |-> "file", mode |-> 0]]
            /\ iCount' = [iCount EXCEPT !["file"] = @ + 1] /\ filp' = filp
  <2>1. Reserved' = Reserved \ {f}
    BY <1>5, <1>7, <1>13, ReservedStep
  <2>2. /\ fileTab' \in TabType /\ fileTab'[f].count = 1 /\ fileTab'[f].inode = "file"
        /\ \A g \in Files : g # f => fileTab'[g] = fileTab[g]
    <3>1. [count |-> 1, inode |-> "file", mode |-> 0] \in FileType
      BY DEF FileType, FtInodes
    <3> QED
      BY <1>3, <1>5, <1>13, <3>1 DEF TabType
  <2>3. Opens(fileTab', Reserved', "file") = Opens(fileTab, Reserved, "file") \cup {f}
    BY <1>5, <2>1, <2>2 DEF Opens
  <2>4. Opens(fileTab', Reserved', "pipe") = Opens(fileTab, Reserved, "pipe")
    BY <1>5, <1>6, <2>1, <2>2 DEF Opens
  <2>5. f \notin Opens(fileTab, Reserved, "file")
    BY <1>6 DEF Opens
  <2>6. Cardinality(Opens(fileTab', Reserved', "file")) = Cardinality(Opens(fileTab, Reserved, "file")) + 1
    BY <2>3, <2>5, Finite, FS_AddElement
  <2>7. /\ iCount' \in [FtInodes -> Nat] /\ iCount'["file"] = iCount["file"] + 1
        /\ iCount'["pipe"] = iCount["pipe"]
    BY <1>3, <1>13 DEF FtInodes
  <2>8. \A i \in FtInodes : iCount'[i] = Cardinality(Opens(fileTab', Reserved', i))
    BY <1>11, <2>4, <2>6, <2>7 DEF FtInodes
  <2>9. ASSUME NEW g \in Files PROVE fileTab'[g].count = Cardinality(UsersOf(filp', g))
    BY <1>5, <1>11, <1>12, <1>13, <2>2
  <2>10. FileCountsExact'
    BY <2>8, <2>9, CountsNext
  <2>11. Types'
    BY <1>3, <1>7, <1>8, <1>13, <2>2, <2>7, SameData DEF Types
  <2>12. TableInv'
    BY <1>7, <1>9, <1>13, <2>10, <2>11, UserOK, TableStep
  <2> QED
    BY <1>others, <2>2, <2>4, <2>12 DEF EndsKept
<1>14. CASE /\ fileTab' = [fileTab EXCEPT ![f].count = 0]
            /\ filp' = [filp EXCEPT ![p][fd] = NoFile] /\ iCount' = iCount
  <2>1. PICK k : k = SetFd(filp, p, fd, NoFile)
    OBVIOUS
  <2>2. /\ k \in FilpType
        /\ \A q \in FtProcs : q # p => k[q] = filp[q]
        /\ \A g \in Files : g # NoFile => UsersOf(k, g) = UsersOf(filp, g) \ {<<p, fd>>}
    <3>1. NoFile \in Files \cup {NoFile}
      OBVIOUS
    <3> QED
      BY <1>3, <2>1, <3>1, UsersSet
  <2>3. filp' = k
    BY <1>14, <2>1 DEF SetFd
  <2>4. /\ fileTab' \in TabType /\ fileTab'[f].count = 0
        /\ \A g \in Files : g # f => fileTab'[g] = fileTab[g]
    <3>1. fileTab' = SetCount(fileTab, f, 0)
      BY <1>14 DEF SetCount
    <3> QED
      BY <1>3, <1>5, <3>1, CountSet
  <2>5. Reserved' = Reserved \ {f}
    BY <1>5, <1>7, <2>2, <2>3, ReservedStep
  <2>6. ASSUME NEW i \in FtInodes PROVE Opens(fileTab', Reserved', i) = Opens(fileTab, Reserved, i)
    BY <1>5, <1>6, <2>4, <2>5 DEF Opens
  <2>7. UsersOf(filp', f) = {}
    BY <1>5, <2>2, <2>3, Finite
  <2>8. ASSUME NEW g \in Files, g # f PROVE UsersOf(filp', g) = UsersOf(filp, g)
    <3>1. PICK A : A = UsersOf(filp, g)
      OBVIOUS
    <3>2. <<p, fd>> \notin A /\ UsersOf(filp', g) = A \ {<<p, fd>>}
      BY <2>2, <2>3, <2>8, <3>1, <1>10, Finite
    <3> QED
      BY <3>1, <3>2
  <2>9. ASSUME NEW g \in Files PROVE fileTab'[g].count = Cardinality(UsersOf(filp', g))
    BY <1>11, <1>12, <2>4, <2>7, <2>8
  <2>10. \A i \in FtInodes : iCount'[i] = Cardinality(Opens(fileTab', Reserved', i))
    BY <1>11, <1>14, <2>6
  <2>11. FileCountsExact'
    BY <2>9, <2>10, CountsNext
  <2>12. Types'
    BY <1>3, <1>7, <1>8, <1>14, <2>2, <2>3, <2>4, SameData DEF Types
  <2>13. \A g \in Reserved \ ReservedBy(p) : UsersOf(filp', g) = UsersOf(filp, g)
    BY <1>5, <2>8, ReservedByWhom
  <2>14. TableInv'
    BY <1>7, <1>9, <2>2, <2>3, <2>11, <2>12, <2>13, UserOK, TableStep
  <2> QED
    BY <1>others, <2>4, <2>6, <2>14 DEF EndsKept, FtInodes
<1> QED
  BY <1>1, <1>2, <1>13, <1>14 DEF OpenEnds

\* A process in its program has reserved nothing, and no file it has open is reserved.
LEMMA InUserFree ==
  ASSUME TableInv, NEW p \in FtProcs, InUser(p)
  PROVE  /\ ReservedBy(p) = {} /\ Pending(ftProc[p]) = {} /\ ftProc[p].fds = <<>>
         /\ CallOK(ftProc[p]) /\ ftProc[p].pc = "user"
         /\ \A fd \in FDs : filp[p][fd] \notin Reserved
<1>1. CallOK(ftProc[p]) /\ ftProc[p].pc = "user"
  BY DEF TableInv, InUser
<1>2. ReservedBy(p) = {} /\ Pending(ftProc[p]) = {} /\ ftProc[p].fds = <<>>
  BY <1>1, NothingReserved DEF ReservedBy
<1>3. ASSUME NEW fd \in FDs, filp[p][fd] \in Reserved PROVE FALSE
  <2>1. PICK f : f = filp[p][fd]
    OBVIOUS
  <2>2. PICK q \in FtProcs : f \in ReservedBy(q)
    BY <1>3, <2>1, ReservedByWhom
  <2>3. PICK b : UsersOf(filp, f) = {<<q, b>>}
    BY <2>2, ReservedAlone
  <2>4. <<p, fd>> \in UsersOf(filp, f)
    BY <2>1 DEF UsersOf
  <2>5. p = q
    BY <2>3, <2>4
  <2> QED
    BY <2>2, <2>5, <1>2
<1> QED
  BY <1>1, <1>2, <1>3

\* sys_close()
LEMMA CloseStep ==
  ASSUME TableInv, NEW p \in FtProcs, NEW fd \in FDs, SysClose(p, fd)
  PROVE  /\ TableInv'
         /\ \A q \in FtProcs : q # p => filp'[q] = filp[q]
         /\ \/ EndsKept /\ ftProc' = ftProc
            \/ \E f \in Files :
                 /\ UsersOf(filp, f) = {<<p, fd>>} /\ ftProc' = WakePipe(ftProc)
                 /\ Opens(fileTab', Reserved', "pipe") = Opens(fileTab, Reserved, "pipe") \ {f}
                 /\ \A g \in Opens(fileTab, Reserved, "pipe") : fileTab'[g].mode = fileTab[g].mode
<1>1. PICK f : f = filp[p][fd]
  OBVIOUS
<1>2. /\ filp \in FilpType /\ fileTab \in TabType
      /\ iCount \in [FtInodes -> Nat] /\ ftProc \in [FtProcs -> ProcType]
  BY DEF TableInv, Types
<1>3. InUser(p) /\ f \in Files /\ NoData
  BY <1>1, <1>2 DEF SysClose, FilpType
<1>4. /\ ReservedBy(p) = {} /\ ftProc[p].fds = <<>> /\ CallOK(ftProc[p]) /\ ftProc[p].pc = "user"
      /\ f \notin Reserved
  BY <1>1, <1>3, InUserFree
<1>5. PICK i \in FtInodes : i = fileTab[f].inode
  BY <1>2, <1>3 DEF FileType, TabType
<1>6. PICK n : n = fileTab[f].count - 1
  OBVIOUS
<1>7. /\ \A g \in Files : fileTab[g].count = Cardinality(UsersOf(filp, g))
      /\ \A j \in FtInodes : iCount[j] = Cardinality(Opens(fileTab, Reserved, j))
  BY Counts DEF TableInv
<1>8. <<p, fd>> \in UsersOf(filp, f)
  BY <1>1 DEF UsersOf
<1>9. n \in Nat /\ n = Cardinality(UsersOf(filp, f) \ {<<p, fd>>}) /\ fileTab[f].count = n + 1
  <2>1. PICK m : m = fileTab[f].count
    OBVIOUS
  <2>2. m = Cardinality(UsersOf(filp, f)) /\ m \in Nat
    BY <1>3, <1>7, <2>1, Finite
  <2>3. /\ IsFiniteSet(UsersOf(filp, f) \ {<<p, fd>>})
        /\ Cardinality(UsersOf(filp, f) \ {<<p, fd>>}) = m - 1
    BY <1>8, <2>2, Finite, FS_RemoveElement
  <2>4. m - 1 \in Nat
    BY <2>3, FS_CardinalityType
  <2> QED
    BY <1>6, <2>1, <2>2, <2>3, <2>4
<1>10. PICK k : k = SetFd(filp, p, fd, NoFile)
  OBVIOUS
<1>11. /\ k \in FilpType
       /\ \A q \in FtProcs : q # p => k[q] = filp[q]
       /\ \A g \in Files : g # NoFile => UsersOf(k, g) = UsersOf(filp, g) \ {<<p, fd>>}
  <2>1. NoFile \in Files \cup {NoFile}
    OBVIOUS
  <2> QED
    BY <1>2, <1>10, <2>1, UsersSet
<1>12. filp' = k
  BY <1>10 DEF SysClose, SetFd
<1>13. /\ fileTab' \in TabType /\ fileTab'[f].count = n /\ fileTab'[f].inode = i
       /\ fileTab'[f].mode = fileTab[f].mode
       /\ \A g \in Files : g # f => fileTab'[g] = fileTab[g]
  <2>1. fileTab' = SetCount(fileTab, f, n)
    BY <1>1, <1>6 DEF SysClose, SetCount
  <2>2. PICK t : t = SetCount(fileTab, f, n)
    OBVIOUS
  <2>3. /\ t \in TabType /\ t[f].count = n /\ t[f].inode = fileTab[f].inode
        /\ t[f].mode = fileTab[f].mode
        /\ \A g \in Files : g # f => t[g] = fileTab[g]
    <3>1. fileTab \in TabType /\ f \in Files /\ n \in Nat
      BY <1>2, <1>3, <1>9
    <3> QED
      BY <2>2, <3>1, CountSet
  <2> QED
    BY <1>5, <2>1, <2>2, <2>3
<1>14. /\ ftProc' \in [FtProcs -> ProcType] /\ ftProc'[p] = ftProc[p]
       /\ \A q \in FtProcs : /\ ftProc'[q].fds = ftProc[q].fds /\ CallOK(ftProc'[q])
                             /\ ftProc'[q].pc = "unborn" => ftProc[q].pc = "unborn"
  <2>1. \A q \in FtProcs : CallOK(ftProc[q])
    BY DEF TableInv
  <2>2. ftProc' = ftProc \/ ftProc' = WakePipe(ftProc)
    BY DEF SysClose
  <2>3. CASE ftProc' = ftProc
    BY <1>2, <2>1, <2>3
  <2>4. CASE ftProc' = WakePipe(ftProc)
    <3>1. PICK w : w = WakePipe(ftProc)
      OBVIOUS
    <3>2. /\ w \in [FtProcs -> ProcType]
          /\ \A q \in FtProcs :
               /\ w[q].fds = ftProc[q].fds
               /\ ftProc[q].pc = "readSleep" => w[q].pc = "read"
               /\ ftProc[q].pc = "writeSleep" => w[q].pc = "write"
               /\ ftProc[q].pc \notin {"readSleep", "writeSleep"} => w[q] = ftProc[q]
      BY <1>2, <3>1, Wakes
    <3>3. ASSUME NEW q \in FtProcs
          PROVE  CallOK(w[q]) /\ (w[q].pc = "unborn" => ftProc[q].pc = "unborn")
      <4>1. CASE ftProc[q].pc \notin {"readSleep", "writeSleep"}
        BY <2>1, <3>2, <4>1
      <4>2. CASE ftProc[q].pc \in {"readSleep", "writeSleep"}
        BY <2>1, <3>2, <4>2 DEF CallOK
      <4> QED
        BY <4>1, <4>2
    <3>4. w[p] = ftProc[p]
      BY <3>2, <1>4
    <3> QED
      BY <2>4, <3>1, <3>2, <3>3, <3>4
  <2> QED
    BY <2>2, <2>3, <2>4
<1>15. ReservedBy(p)' = {} /\ Pending(ftProc'[p]) = {}
  BY <1>14, <1>4, NothingReserved DEF ReservedBy
<1>16. Reserved' = Reserved
  BY <1>4, <1>11, <1>12, <1>14, <1>15, ReservedStep
<1>17. ASSUME NEW g \in Files, g # f PROVE UsersOf(filp', g) = UsersOf(filp, g)
  <2>1. <<p, fd>> \notin UsersOf(filp, g)
    BY <1>1, <1>17 DEF UsersOf
  <2>2. PICK A : A = UsersOf(filp, g)
    OBVIOUS
  <2>3. <<p, fd>> \notin A /\ UsersOf(filp', g) = A \ {<<p, fd>>}
    BY <2>1, <2>2, <1>11, <1>12, Finite
  <2> QED
    BY <2>2, <2>3
<1>18. ASSUME NEW g \in Files PROVE fileTab'[g].count = Cardinality(UsersOf(filp', g))
  <2>1. CASE g = f
    BY <2>1, <1>9, <1>11, <1>12, <1>13, Finite
  <2>2. CASE g # f
    BY <2>2, <1>7, <1>13, <1>17
  <2> QED
    BY <2>1, <2>2
<1>19. /\ iCount' \in [FtInodes -> Nat]
       /\ \A j \in FtInodes : iCount'[j] = Cardinality(Opens(fileTab', Reserved', j))
  <2>1. CASE n = 0
    <3>1. iCount' = [iCount EXCEPT ![i] = @ - 1]
      BY <2>1, <1>1, <1>5, <1>9 DEF SysClose
    <3>2. f \in Opens(fileTab, Reserved, i)
      BY <1>3, <1>4, <1>5, <1>9 DEF Opens
    <3>3. Opens(fileTab', Reserved', i) = Opens(fileTab, Reserved, i) \ {f}
      BY <2>1, <1>13, <1>16 DEF Opens
    <3>4. /\ IsFiniteSet(Opens(fileTab', Reserved', i))
          /\ Cardinality(Opens(fileTab', Reserved', i)) = Cardinality(Opens(fileTab, Reserved, i)) - 1
      BY <3>2, <3>3, Finite, FS_RemoveElement
    <3>5. Cardinality(Opens(fileTab', Reserved', i)) \in Nat
      BY <3>4, FS_CardinalityType
    <3>6. ASSUME NEW j \in FtInodes, j # i
          PROVE  Opens(fileTab', Reserved', j) = Opens(fileTab, Reserved, j)
      BY <2>1, <3>6, <1>5, <1>13, <1>16 DEF Opens
    <3>7. iCount[i] - 1 = Cardinality(Opens(fileTab', Reserved', i)) /\ iCount[i] - 1 \in Nat
      BY <3>4, <3>5, <1>7
    <3>8. /\ iCount' \in [FtInodes -> Nat] /\ iCount'[i] = iCount[i] - 1
          /\ \A j \in FtInodes : j # i => iCount'[j] = iCount[j]
      BY <3>1, <3>7, <1>2
    <3> QED
      BY <3>6, <3>7, <3>8, <1>7
  <2>2. CASE n # 0
    <3>1. iCount' = iCount
      BY <2>2, <1>1, <1>6, <1>9 DEF SysClose
    <3>2. fileTab'[f].count > 0 /\ fileTab[f].count > 0
      BY <2>2, <1>9, <1>13
    <3>3. ASSUME NEW j \in FtInodes
          PROVE  Opens(fileTab', Reserved', j) = Opens(fileTab, Reserved, j)
      BY <3>2, <1>5, <1>13, <1>16 DEF Opens
    <3> QED
      BY <3>1, <3>3, <1>2, <1>7
  <2> QED
    BY <2>1, <2>2
<1>20. FileCountsExact'
  BY <1>18, <1>19, CountsNext
<1>21. Types'
  BY <1>3, <1>11, <1>12, <1>13, <1>14, <1>19, SameData DEF Types
<1>22. \A g \in Reserved \ ReservedBy(p) : UsersOf(filp', g) = UsersOf(filp, g)
  BY <1>4, <1>17, ReservedByWhom
<1>23. TableInv'
  BY <1>4, <1>11, <1>12, <1>14, <1>15, <1>20, <1>21, <1>22, TableStep
<1>24. \A g \in Opens(fileTab, Reserved, "pipe") : fileTab'[g].mode = fileTab[g].mode
  BY <1>13 DEF Opens
<1>25. CASE n = 0 /\ i = "pipe"
  <2>1. ftProc' = WakePipe(ftProc)
    BY <1>1, <1>5, <1>9, <1>25 DEF SysClose
  <2>2. UsersOf(filp, f) = {<<p, fd>>}
    <3>1. PICK A : A = UsersOf(filp, f) \ {<<p, fd>>}
      OBVIOUS
    <3>2. A = {}
      <4>1. IsFiniteSet(A) /\ Cardinality(A) = 0
        BY <3>1, <1>9, <1>25, Finite, FS_Subset
      <4> QED
        BY <4>1, FS_EmptySet
    <3> QED
      BY <3>1, <3>2, <1>8
  <2>3. Opens(fileTab', Reserved', "pipe") = Opens(fileTab, Reserved, "pipe") \ {f}
    BY <1>13, <1>16, <1>25 DEF Opens
  <2> QED
    BY <1>3, <1>11, <1>12, <1>23, <1>24, <2>1, <2>2, <2>3
<1>26. CASE ~(n = 0 /\ i = "pipe")
  <2>1. ftProc' = ftProc
    BY <1>1, <1>5, <1>6, <1>9, <1>26 DEF SysClose
  <2>2. Opens(fileTab', Reserved', "pipe") = Opens(fileTab, Reserved, "pipe")
    BY <1>5, <1>9, <1>13, <1>16, <1>26 DEF Opens
  <2> QED
    BY <1>11, <1>12, <1>23, <1>24, <2>1, <2>2 DEF EndsKept
<1> QED
  BY <1>25, <1>26

\* dupfd()
LEMMA DupStep ==
  ASSUME TableInv, NEW p \in FtProcs, NEW fd \in FDs, NEW arg \in FDs, DupFd(p, fd, arg)
  PROVE  TableInv' /\ EndsKept
<1>1. PICK f : f = filp[p][fd]
  OBVIOUS
<1>2. PICK new : new = Lowest({n \in FreeFds(p) : n >= arg})
  OBVIOUS
<1>3. new \in FDs /\ filp[p][new] = NoFile
  <2>1. PICK S : S = {n \in FreeFds(p) : n >= arg}
    OBVIOUS
  <2>2. S # {} /\ S \subseteq FreeFds(p) /\ S \subseteq FDs
    BY <2>1 DEF DupFd, FreeFds
  <2>3. new \in S
    BY <1>2, <2>1, <2>2, LowestIn, Finite
  <2> QED
    BY <2>2, <2>3 DEF FreeFds
<1>4. filp \in FilpType /\ fileTab \in TabType /\ iCount \in [FtInodes -> Nat]
      /\ ftProc \in [FtProcs -> ProcType]
  BY DEF TableInv, Types
<1>5. InUser(p) /\ f \in Files /\ NoData /\ UNCHANGED <<iCount, ftProc>>
  BY <1>1, <1>4 DEF DupFd, FilpType
<1>6. /\ ReservedBy(p) = {} /\ CallOK(ftProc[p]) /\ ftProc[p].pc = "user"
      /\ f \notin Reserved /\ Pending(ftProc[p]) = {}
  BY <1>1, <1>5, InUserFree
<1>7. PICK m : m = fileTab[f].count
  OBVIOUS
<1>8. /\ \A g \in Files : fileTab[g].count = Cardinality(UsersOf(filp, g))
      /\ \A j \in FtInodes : iCount[j] = Cardinality(Opens(fileTab, Reserved, j))
  BY Counts DEF TableInv
<1>9. <<p, fd>> \in UsersOf(filp, f) /\ \A g \in Files : <<p, new>> \notin UsersOf(filp, g)
  BY <1>1, <1>3, Finite DEF UsersOf
<1>10. /\ m \in Nat /\ m = Cardinality(UsersOf(filp, f)) /\ m > 0
       /\ Cardinality(UsersOf(filp, f) \cup {<<p, new>>}) = m + 1
  <2>1. m = Cardinality(UsersOf(filp, f)) /\ m \in Nat
    BY <1>5, <1>7, <1>8, Finite
  <2>2. m # 0
    BY <1>9, <2>1, Finite, FS_EmptySet
  <2>3. Cardinality(UsersOf(filp, f) \cup {<<p, new>>}) = m + 1
    BY <1>5, <1>9, <2>1, Finite, FS_AddElement
  <2> QED
    BY <2>1, <2>2, <2>3
<1>11. PICK k : k = SetFd(filp, p, new, f)
  OBVIOUS
<1>12. /\ k \in FilpType /\ \A q \in FtProcs : q # p => k[q] = filp[q]
       /\ UsersOf(k, f) = UsersOf(filp, f) \cup {<<p, new>>}
       /\ \A g \in Files : g # f => UsersOf(k, g) = UsersOf(filp, g) \ {<<p, new>>}
  <2>1. f \in Files \cup {NoFile}
    BY <1>5
  <2> QED
    BY <1>3, <1>4, <1>11, <2>1, UsersSet
<1>13. filp' = k
  BY <1>1, <1>2, <1>11 DEF DupFd, SetFd
<1>14. /\ fileTab' \in TabType /\ fileTab'[f].count = m + 1
       /\ fileTab'[f].inode = fileTab[f].inode /\ fileTab'[f].mode = fileTab[f].mode
       /\ \A g \in Files : g # f => fileTab'[g] = fileTab[g]
  <2>1. PICK n : n = m + 1
    OBVIOUS
  <2>2. fileTab' = SetCount(fileTab, f, n)
    BY <1>1, <1>7, <2>1 DEF DupFd, SetCount
  <2>3. fileTab \in TabType /\ f \in Files /\ n \in Nat
    BY <1>4, <1>5, <1>10, <2>1
  <2>4. PICK t : t = SetCount(fileTab, f, n)
    OBVIOUS
  <2>5. /\ t \in TabType /\ t[f].count = n /\ t[f].inode = fileTab[f].inode
        /\ t[f].mode = fileTab[f].mode
        /\ \A g \in Files : g # f => t[g] = fileTab[g]
    BY <2>3, <2>4, CountSet
  <2> QED
    BY <2>1, <2>2, <2>4, <2>5
<1>15. ReservedBy(p)' = {} /\ Pending(ftProc'[p]) = {}
  BY <1>5, <1>6 DEF ReservedBy
<1>16. Reserved' = Reserved
  BY <1>5, <1>6, <1>12, <1>13, <1>15, ReservedStep
<1>17. ASSUME NEW g \in Files, g # f PROVE UsersOf(filp', g) = UsersOf(filp, g)
  <2>1. PICK A : A = UsersOf(filp, g)
    OBVIOUS
  <2>2. <<p, new>> \notin A /\ UsersOf(filp', g) = A \ {<<p, new>>}
    BY <2>1, <1>9, <1>12, <1>13, <1>17
  <2> QED
    BY <2>1, <2>2
<1>18. ASSUME NEW g \in Files PROVE fileTab'[g].count = Cardinality(UsersOf(filp', g))
  <2>1. CASE g = f
    BY <2>1, <1>10, <1>12, <1>13, <1>14
  <2>2. CASE g # f
    BY <2>2, <1>8, <1>14, <1>17
  <2> QED
    BY <2>1, <2>2
<1>19. ASSUME NEW j \in FtInodes PROVE Opens(fileTab', Reserved', j) = Opens(fileTab, Reserved, j)
  <2>1. fileTab'[f].count > 0 /\ fileTab[f].count > 0
    BY <1>7, <1>10, <1>14
  <2> QED
    BY <2>1, <1>14, <1>16 DEF Opens
<1>20. FileCountsExact'
  BY <1>5, <1>8, <1>18, <1>19, CountsNext
<1>21. Types'
  BY <1>4, <1>5, <1>12, <1>13, <1>14, SameData DEF Types
<1>22. \A g \in Reserved \ ReservedBy(p) : UsersOf(filp', g) = UsersOf(filp, g)
  BY <1>6, <1>17, ReservedByWhom
<1>23. \A q \in FtProcs : CallOK(ftProc'[q]) /\ ftProc'[q] = ftProc[q]
  BY <1>5 DEF TableInv
<1>24. TableInv'
  BY <1>6, <1>12, <1>13, <1>15, <1>20, <1>21, <1>22, <1>23, TableStep
<1>25. \A g \in Opens(fileTab, Reserved, "pipe") : fileTab'[g].mode = fileTab[g].mode
  BY <1>14 DEF Opens
<1> QED
  BY <1>19, <1>24, <1>25 DEF EndsKept, FtInodes

\* the descriptors copy_process() copies
LEMMA ForkStep ==
  ASSUME TableInv, NEW p \in FtProcs, NEW child \in FtProcs, Fork(p, child)
  PROVE  TableInv' /\ EndsKept
<1>1. filp \in FilpType /\ fileTab \in TabType /\ iCount \in [FtInodes -> Nat]
      /\ ftProc \in [FtProcs -> ProcType]
  BY DEF TableInv, Types
<1>2. InUser(p) /\ ftProc[child].pc = "unborn" /\ NoData /\ iCount' = iCount /\ p # child
  BY DEF Fork, InUser
<1>3. /\ ReservedBy(p) = {} /\ \A fd \in FDs : filp[p][fd] \notin Reserved
  BY <1>2, InUserFree
<1>4. \A fd \in FDs : filp[child][fd] = NoFile
  BY <1>2 DEF TableInv, Unborns
<1>5. ReservedBy(child) = {}
  <2>1. CallOK(ftProc[child])
    BY DEF TableInv
  <2>2. Pending(ftProc[child]) = {}
    BY <1>2, <2>1, NothingReserved
  <2> QED
    BY <2>2 DEF ReservedBy
<1>6. /\ filp' \in FilpType /\ filp'[child] = filp[p]
      /\ \A q \in FtProcs : q # child => filp'[q] = filp[q]
  BY <1>1 DEF Fork, FilpType
<1>7. /\ ftProc' \in [FtProcs -> ProcType] /\ ftProc'[child] = User
      /\ \A q \in FtProcs : q # child => ftProc'[q] = ftProc[q]
      /\ Pending(ftProc'[child]) = {} /\ ReservedBy(child)' = {} /\ CallOK(ftProc'[child])
  BY EndCall DEF Fork
<1>8. Reserved' = Reserved
  BY <1>5, <1>6, <1>7, ReservedStep
<1>9. /\ \A g \in Files : fileTab[g].count = Cardinality(UsersOf(filp, g))
      /\ \A j \in FtInodes : iCount[j] = Cardinality(Opens(fileTab, Reserved, j))
  BY Counts DEF TableInv
<1> DEFINE D(f) == {fd \in FDs : filp[p][fd] = f}
<1>10. ASSUME NEW f \in Files
       PROVE  /\ UsersOf(filp', f) = UsersOf(filp, f) \cup ({child} \X D(f))
              /\ UsersOf(filp, f) \cap ({child} \X D(f)) = {}
  <2>1. ASSUME NEW q \in FtProcs, NEW n \in FDs
        PROVE  filp'[q][n] = f <=> filp[q][n] = f \/ (q = child /\ n \in D(f))
    <3>1. CASE q = child
      BY <3>1, <1>4, <1>6, Finite
    <3>2. CASE q # child
      BY <3>2, <1>6
    <3> QED
      BY <3>1, <3>2
  <2>2. UsersOf(filp', f) = UsersOf(filp, f) \cup ({child} \X D(f))
    BY <2>1 DEF UsersOf
  <2>3. UsersOf(filp, f) \cap ({child} \X D(f)) = {}
    BY <1>4, Finite DEF UsersOf
  <2> QED
    BY <2>2, <2>3
<1>11. ASSUME NEW f \in Files
       PROVE  /\ IsFiniteSet(D(f)) /\ Cardinality(D(f)) \in Nat
              /\ Cardinality(UsersOf(filp', f)) = Cardinality(UsersOf(filp, f)) + Cardinality(D(f))
  <2>1. IsFiniteSet(D(f))
    <3>1. D(f) \in SUBSET FDs
      OBVIOUS
    <3> HIDE DEF D
    <3> QED
      BY <3>1, Finite, FS_Subset
  <2>2. PICK P : P = {child} \X D(f)
    OBVIOUS
  <2>3. PICK U : U = UsersOf(filp, f)
    OBVIOUS
  <2>4. UsersOf(filp', f) = U \cup P /\ U \cap P = {}
    BY <1>10, <2>2, <2>3
  <2> HIDE DEF D
  <2>5. Cardinality(D(f)) \in Nat
    BY <2>1, FS_CardinalityType
  <2>6. IsFiniteSet({child}) /\ Cardinality({child}) = 1
    BY FS_Singleton
  <2>7. IsFiniteSet(P) /\ Cardinality(P) = 1 * Cardinality(D(f))
    BY <2>1, <2>2, <2>6, FS_Product
  <2>8. IsFiniteSet(U) /\ Cardinality(U) \in Nat
    BY <2>3, Finite
  <2>9. Cardinality(U \cup P) = Cardinality(U) + Cardinality(P) - Cardinality(U \cap P)
    BY <2>7, <2>8, FS_Union
  <2>10. Cardinality(U \cap P) = 0
    BY <2>4, FS_EmptySet
  <2>11. Cardinality(P) = Cardinality(D(f))
    BY <2>5, <2>7
  <2> QED
    BY <2>1, <2>3, <2>4, <2>5, <2>8, <2>9, <2>10, <2>11
<1>12. ASSUME NEW f \in Files
       PROVE  /\ fileTab'[f].count = fileTab[f].count + Cardinality(D(f))
              /\ fileTab'[f] \in FileType /\ fileTab'[f].inode = fileTab[f].inode
              /\ fileTab'[f].mode = fileTab[f].mode
  <2>1. fileTab[f] \in FileType
    BY <1>1 DEF TabType
  <2>2. PICK n : n = Cardinality(D(f))
    OBVIOUS
  <2>3. n \in Nat
    BY <1>11, <2>2
  <2>4. PICK c : c = [fileTab[f] EXCEPT !.count = @ + n]
    OBVIOUS
  <2>5. fileTab'[f] = c
    BY <2>2, <2>4 DEF Fork, Copies
  <2>6. c \in FileType /\ c.count = fileTab[f].count + n /\ c.inode = fileTab[f].inode
        /\ c.mode = fileTab[f].mode
    BY <2>1, <2>3, <2>4 DEF FileType
  <2> HIDE DEF D
  <2> QED
    BY <2>2, <2>5, <2>6
<1>13. fileTab' \in TabType
  BY <1>12 DEF Fork, TabType
<1>14. ASSUME NEW f \in Files PROVE fileTab'[f].count > 0 <=> fileTab[f].count > 0
  <2>1. Cardinality(UsersOf(filp, f)) \in Nat /\ fileTab[f].count = Cardinality(UsersOf(filp, f))
    BY <1>9, Finite
  <2>2. CASE D(f) = {}
    <3>1. Cardinality(D(f)) = 0
      BY <2>2, FS_EmptySet
    <3> HIDE DEF D
    <3> QED
      BY <3>1, <2>1, <1>12
  <2>3. CASE D(f) # {}
    <3>1. UsersOf(filp, f) # {}
      <4>1. PICK n \in FDs : filp[p][n] = f
        BY <2>3
      <4>2. <<p, n>> \in UsersOf(filp, f)
        BY <4>1 DEF UsersOf
      <4> QED
        BY <4>2
    <3>2. Cardinality(UsersOf(filp, f)) # 0
      BY <3>1, Finite, FS_EmptySet
    <3> HIDE DEF D
    <3> QED
      BY <3>2, <2>1, <1>11, <1>12
  <2> QED
    BY <2>2, <2>3
<1>15. ASSUME NEW j \in FtInodes PROVE Opens(fileTab', Reserved', j) = Opens(fileTab, Reserved, j)
  BY <1>8, <1>12, <1>14 DEF Opens
<1>16. ASSUME NEW f \in Files PROVE fileTab'[f].count = Cardinality(UsersOf(filp', f))
  <2> HIDE DEF D
  <2> QED
    BY <1>9, <1>11, <1>12
<1>17. FileCountsExact'
  BY <1>2, <1>9, <1>15, <1>16, CountsNext
<1>18. Types'
  BY <1>1, <1>2, <1>6, <1>7, <1>13, SameData DEF Types
<1>19. ASSUME NEW g \in Reserved PROVE UsersOf(filp', g) = UsersOf(filp, g)
  <2>1. g \in Files /\ D(g) = {}
    BY <1>3, ReservedByWhom
  <2>2. {child} \X D(g) = {}
    BY <2>1
  <2> HIDE DEF D
  <2> QED
    BY <2>1, <2>2, <1>10
<1>20. \A q \in FtProcs : CallOK(ftProc[q])
  BY DEF TableInv
<1>21. TableInv'
  BY <1>6, <1>7, <1>17, <1>18, <1>19, <1>20, UserOK, TableStep
<1>22. \A g \in Opens(fileTab, Reserved, "pipe") : fileTab'[g].mode = fileTab[g].mode
  <2> HIDE DEF D
  <2>1. Opens(fileTab, Reserved, "pipe") \subseteq Files
    BY DEF Opens
  <2> QED
    BY <2>1, <1>12
<1> QED
  BY <1>15, <1>21, <1>22 DEF EndsKept, FtInodes

\* The two lowest members of a set that has two.
LEMMA LowestTwo ==
  ASSUME NEW S, S \subseteq Nat, IsFiniteSet(S), Cardinality(S) >= 2,
         NEW a, a = Lowest(S), NEW b, b = Lowest(S \ {a})
  PROVE  a \in S /\ b \in S /\ a # b
<1>1. S # {}
  BY FS_EmptySet
<1>2. a \in S
  BY <1>1, LowestIn
<1>3. PICK T : T = S \ {a}
  OBVIOUS
<1>4. IsFiniteSet(T) /\ Cardinality(T) = Cardinality(S) - 1 /\ Cardinality(S) \in Nat
  BY <1>2, <1>3, FS_RemoveElement, FS_CardinalityType
<1>5. T # {}
  BY <1>4, FS_EmptySet
<1>6. T \subseteq Nat
  BY <1>3
<1>7. b \in T
  BY <1>3, <1>5, <1>6, LowestIn
<1> QED
  BY <1>2, <1>3, <1>7

\* sys_pipe(), first half
LEMMA PipeReserveStep ==
  ASSUME TableInv, NEW p \in FtProcs, PipeReserve(p)
  PROVE  TableInv' /\ EndsKept
<1>1. PICK fd0 : fd0 = Lowest(FreeFds(p))
  OBVIOUS
<1>2. PICK fd1 : fd1 = Lowest(FreeFds(p) \ {fd0})
  OBVIOUS
<1>3. PICK f0 : f0 = Lowest(FreeFiles)
  OBVIOUS
<1>4. PICK f1 : f1 = Lowest(FreeFiles \ {f0})
  OBVIOUS
<1>5. /\ fd0 \in FDs /\ fd1 \in FDs /\ fd0 # fd1 /\ filp[p][fd0] = NoFile /\ filp[p][fd1] = NoFile
  <2>1. PICK S : S = FreeFds(p)
    OBVIOUS
  <2>2. S \in SUBSET FDs /\ Cardinality(S) >= 2
    BY <2>1 DEF PipeReserve, FreeFds
  <2>3. S \subseteq Nat /\ IsFiniteSet(S)
    BY <2>2, Finite, FS_Subset
  <2>4. fd0 \in S /\ fd1 \in S /\ fd0 # fd1
    BY <1>1, <1>2, <2>1, <2>2, <2>3, LowestTwo
  <2> QED
    BY <2>1, <2>4 DEF FreeFds
<1>6. /\ f0 \in Files /\ f1 \in Files /\ f0 # f1 /\ fileTab[f0].count = 0 /\ fileTab[f1].count = 0
  <2>1. PICK S : S = FreeFiles
    OBVIOUS
  <2>2. S \in SUBSET Files /\ Cardinality(S) >= 2
    BY <2>1 DEF PipeReserve, FreeFiles
  <2>3. S \subseteq Nat /\ IsFiniteSet(S)
    BY <2>2, Finite, FS_Subset
  <2>4. f0 \in S /\ f1 \in S /\ f0 # f1
    BY <1>3, <1>4, <2>1, <2>2, <2>3, LowestTwo
  <2> QED
    BY <2>1, <2>4 DEF FreeFiles
<1>7. filp \in FilpType /\ fileTab \in TabType /\ iCount \in [FtInodes -> Nat]
      /\ ftProc \in [FtProcs -> ProcType]
  BY DEF TableInv, Types
<1>8. /\ filp' = [filp EXCEPT ![p][fd0] = f0, ![p][fd1] = f1]
      /\ fileTab' = [fileTab EXCEPT ![f0].count = 1, ![f1].count = 1]
      /\ ftProc' = [ftProc EXCEPT ![p].pc = "piping", ![p].fds = <<fd0, fd1>>]
      /\ iCount' = iCount /\ NoData /\ InUser(p)
  BY <1>1, <1>2, <1>3, <1>4 DEF PipeReserve
<1>9. ReservedBy(p) = {}
  BY <1>8, InUserFree
<1>10. /\ \A g \in Files : fileTab[g].count = Cardinality(UsersOf(filp, g))
       /\ \A j \in FtInodes : iCount[j] = Cardinality(Opens(fileTab, Reserved, j))
  BY Counts DEF TableInv
<1>11. UsersOf(filp, f0) = {} /\ UsersOf(filp, f1) = {}
  BY <1>6, <1>10, Finite, FS_EmptySet
<1>12. PICK h : h = SetFd(filp, p, fd0, f0)
  OBVIOUS
<1>13. /\ h \in FilpType /\ h[p][fd0] = f0
       /\ \A q \in FtProcs : q # p => h[q] = filp[q]
       /\ UsersOf(h, f0) = UsersOf(filp, f0) \cup {<<p, fd0>>}
       /\ \A g \in Files : g # f0 => UsersOf(h, g) = UsersOf(filp, g) \ {<<p, fd0>>}
  <2>1. f0 \in Files \cup {NoFile}
    BY <1>6
  <2> QED
    BY <1>5, <1>7, <1>12, <2>1, UsersSet
<1>14. PICK k : k = SetFd(h, p, fd1, f1)
  OBVIOUS
<1>15. /\ k \in FilpType /\ k[p][fd1] = f1 /\ k[p][fd0] = h[p][fd0]
       /\ \A q \in FtProcs : q # p => k[q] = h[q]
       /\ UsersOf(k, f1) = UsersOf(h, f1) \cup {<<p, fd1>>}
       /\ \A g \in Files : g # f1 => UsersOf(k, g) = UsersOf(h, g) \ {<<p, fd1>>}
  <2>1. f1 \in Files \cup {NoFile}
    BY <1>6
  <2> QED
    BY <1>5, <1>13, <1>14, <2>1, UsersSet
<1>16. filp' = k
  BY <1>8, <1>12, <1>14 DEF SetFd
<1>17. /\ UsersOf(filp', f0) = {<<p, fd0>>} /\ UsersOf(filp', f1) = {<<p, fd1>>}
  <2>1. UsersOf(h, f0) = {<<p, fd0>>} /\ UsersOf(h, f1) = {}
    BY <1>6, <1>11, <1>13
  <2>2. <<p, fd0>> # <<p, fd1>>
    BY <1>5
  <2> QED
    BY <2>1, <2>2, <1>6, <1>15, <1>16
<1>18. ASSUME NEW g \in Files, g # f0, g # f1 PROVE UsersOf(filp', g) = UsersOf(filp, g)
  <2>1. <<p, fd0>> \notin UsersOf(filp, g) /\ <<p, fd1>> \notin UsersOf(filp, g)
    BY <1>5, Finite DEF UsersOf
  <2>2. PICK A : A = UsersOf(filp, g)
    OBVIOUS
  <2>3. UsersOf(h, g) = A \ {<<p, fd0>>} /\ UsersOf(filp', g) = UsersOf(h, g) \ {<<p, fd1>>}
    BY <2>2, <1>13, <1>15, <1>16, <1>18
  <2> QED
    BY <2>1, <2>2, <2>3
<1>one. PICK one \in Nat : one = 1
  OBVIOUS
<1>19. PICK t : t = SetCount(fileTab, f0, one)
  OBVIOUS
<1>20. /\ t \in TabType /\ t[f0].count = one /\ \A g \in Files : g # f0 => t[g] = fileTab[g]
  <2>1. t = SetCount(fileTab, f0, one) /\ f0 \in Files /\ fileTab \in TabType
    BY <1>6, <1>7, <1>19
  <2> QED
    BY <2>1, CountSet
<1>21. PICK u : u = SetCount(t, f1, one)
  OBVIOUS
<1>22. /\ u \in TabType /\ u[f1].count = one /\ \A g \in Files : g # f1 => u[g] = t[g]
  <2>1. f1 \in Files /\ t \in TabType
    BY <1>6, <1>20
  <2> QED
    BY <2>1, <1>21, CountSet
<1>23. fileTab' = u
  BY <1>one, <1>8, <1>19, <1>21 DEF SetCount
<1>24. /\ fileTab' \in TabType /\ fileTab'[f0].count = 1 /\ fileTab'[f1].count = 1
       /\ \A g \in Files : g # f0 /\ g # f1 => fileTab'[g] = fileTab[g]
  BY <1>one, <1>6, <1>20, <1>22, <1>23
<1>25. /\ ftProc' \in [FtProcs -> ProcType] /\ ftProc'[p].pc = "piping"
       /\ ftProc'[p].fds = <<fd0, fd1>>
       /\ \A q \in FtProcs : q # p => ftProc'[q] = ftProc[q]
  <2>1. <<fd0, fd1>> \in Seq(FDs)
    BY <1>5
  <2> QED
    BY <1>7, <1>8, <2>1 DEF ProcType, Calls
<1>26. Pending(ftProc'[p]) = {fd0, fd1} /\ CallOK(ftProc'[p])
  <2>1. DOMAIN <<fd0, fd1>> = {1, 2} /\ <<fd0, fd1>>[1] = fd0 /\ <<fd0, fd1>>[2] = fd1
    OBVIOUS
  <2>2. Pending(ftProc'[p]) = {fd0, fd1}
    BY <1>25, <2>1 DEF Pending
  <2> QED
    BY <1>5, <1>25, <2>2 DEF CallOK
<1>27. filp'[p][fd0] = f0 /\ filp'[p][fd1] = f1
  BY <1>13, <1>15, <1>16
<1>28. ReservedBy(p)' = {f0, f1}
  BY <1>6, <1>26, <1>27 DEF ReservedBy
<1>29. \A q \in FtProcs : q # p => filp'[q] = filp[q] /\ ftProc'[q] = ftProc[q]
  BY <1>13, <1>15, <1>16, <1>25
<1>30. Reserved' = Reserved \cup {f0, f1}
  BY <1>9, <1>28, <1>29, ReservedStep
<1>31. ASSUME NEW j \in FtInodes PROVE Opens(fileTab', Reserved', j) = Opens(fileTab, Reserved, j)
  BY <1>6, <1>24, <1>30 DEF Opens
<1>32. ASSUME NEW g \in Files PROVE fileTab'[g].count = Cardinality(UsersOf(filp', g))
  <2>1. Cardinality({<<p, fd0>>}) = 1 /\ Cardinality({<<p, fd1>>}) = 1
    BY FS_Singleton
  <2> QED
    BY <2>1, <1>10, <1>17, <1>18, <1>24
<1>33. FileCountsExact'
  BY <1>8, <1>10, <1>31, <1>32, CountsNext
<1>34. Types'
  BY <1>7, <1>8, <1>15, <1>16, <1>24, <1>25, SameData DEF Types
<1>35. f0 \notin Reserved /\ f1 \notin Reserved
  <2>1. ASSUME NEW g \in Reserved PROVE UsersOf(filp, g) # {}
    <3>1. PICK q \in FtProcs : g \in ReservedBy(q)
      BY ReservedByWhom
    <3> QED
      BY <3>1, ReservedAlone
  <2> QED
    BY <2>1, <1>11
<1>36. \A g \in Reserved \ ReservedBy(p) : UsersOf(filp', g) = UsersOf(filp, g)
  BY <1>18, <1>35, ReservedByWhom
<1>37. \A q \in FtProcs : CallOK(ftProc[q])
  BY DEF TableInv
<1>38. \A fd \in Pending(ftProc'[p]) :
         filp'[p][fd] \in Files /\ UsersOf(filp', filp'[p][fd]) = {<<p, fd>>}
  BY <1>6, <1>17, <1>26, <1>27
<1>39. TableInv'
  BY <1>25, <1>26, <1>29, <1>33, <1>34, <1>36, <1>37, <1>38, TableStep
<1>40. \A g \in Opens(fileTab, Reserved, "pipe") : g \in Files /\ g # f0 /\ g # f1
  BY <1>6 DEF Opens
<1> QED
  BY <1>24, <1>31, <1>39, <1>40 DEF EndsKept, FtInodes

\* sys_pipe(), second half
LEMMA PipeEndsStep ==
  ASSUME TableInv, NEW p \in FtProcs, PipeEnds(p)
  PROVE  /\ TableInv'
         /\ \/ EndsKept /\ NoData /\ \A q \in FtProcs : q # p => filp'[q] = filp[q]
            \/ /\ Opens(fileTab, Reserved, "pipe") = {}
               /\ \E f0, f1 \in Files :
                    /\ f0 # f1 /\ Opens(fileTab', Reserved', "pipe") = {f0, f1}
                    /\ fileTab'[f0].mode = 1 /\ fileTab'[f1].mode = 2
               /\ pipe' = EmptyPipe /\ pipeWrit' = 0 /\ pipeRead' = 0 /\ pipeBad' = pipeBad
               /\ pipeFault' = FALSE
<1>1. PICK a \in FDs, b \in FDs : a # b /\ ftProc[p].fds = <<a, b>>
  BY DEF PipeEnds, TableInv, CallOK
<1>2. PICK f0 : f0 = filp[p][a]
  OBVIOUS
<1>3. PICK f1 : f1 = filp[p][b]
  OBVIOUS
<1>4. filp \in FilpType /\ fileTab \in TabType /\ iCount \in [FtInodes -> Nat]
      /\ ftProc \in [FtProcs -> ProcType]
  BY DEF TableInv, Types
<1>5. Pending(ftProc[p]) = {a, b}
  <2>1. DOMAIN <<a, b>> = {1, 2} /\ <<a, b>>[1] = a /\ <<a, b>>[2] = b
    OBVIOUS
  <2> QED
    BY <1>1, <2>1 DEF Pending
<1>6. /\ f0 \in Files /\ f1 \in Files
      /\ UsersOf(filp, f0) = {<<p, a>>} /\ UsersOf(filp, f1) = {<<p, b>>} /\ ReservedBy(p) = {f0, f1}
  <2>1. f0 \in Files /\ Users(f0) = {<<p, a>>}
    BY <1>2, <1>5 DEF TableInv, Exclusive
  <2>2. f1 \in Files /\ Users(f1) = {<<p, b>>}
    BY <1>3, <1>5 DEF TableInv, Exclusive
  <2>3. ReservedBy(p) = {f0, f1}
    BY <1>2, <1>3, <1>5, <2>1, <2>2 DEF ReservedBy
  <2> QED
    BY <2>1, <2>2, <2>3, Counts
<1>7. f0 # f1 /\ f0 \in Reserved /\ f1 \in Reserved
  <2>1. <<p, a>> # <<p, b>>
    BY <1>1
  <2> QED
    BY <2>1, <1>6, ReservedByWhom
<1>8. /\ ftProc' \in [FtProcs -> ProcType] /\ ftProc'[p] = User
      /\ \A q \in FtProcs : q # p => ftProc'[q] = ftProc[q]
      /\ Pending(ftProc'[p]) = {} /\ ReservedBy(p)' = {} /\ CallOK(ftProc'[p])
  BY EndCall DEF PipeEnds
<1>9. \A q \in FtProcs : CallOK(ftProc[q])
  BY DEF TableInv
<1>10. /\ \A g \in Files : fileTab[g].count = Cardinality(UsersOf(filp, g))
       /\ \A j \in FtInodes : iCount[j] = Cardinality(Opens(fileTab, Reserved, j))
  BY Counts DEF TableInv
<1>11. Cardinality({<<p, a>>}) = 1 /\ Cardinality({<<p, b>>}) = 1 /\ Cardinality({}) = 0
  BY FS_Singleton, FS_EmptySet
<1>12. CASE /\ iCount["pipe"] = 0
            /\ iCount' = [iCount EXCEPT !["pipe"] = 2]
            /\ fileTab' = [fileTab EXCEPT ![f0] = [count |-> 1, inode |-> "pipe", mode |-> 1],
                                          ![f1] = [count |-> 1, inode |-> "pipe", mode |-> 2]]
            /\ pipe' = EmptyPipe /\ pipeWrit' = 0 /\ pipeRead' = 0
            /\ filp' = filp /\ pipeBad' = pipeBad /\ pipeFault' = FALSE
  <2>1. Reserved' = Reserved \ {f0, f1}
    BY <1>6, <1>8, <1>12, ReservedStep
  <2>2. /\ fileTab' \in TabType
        /\ fileTab'[f0].count = 1 /\ fileTab'[f0].inode = "pipe"
        /\ fileTab'[f1].count = 1 /\ fileTab'[f1].inode = "pipe"
        /\ fileTab'[f0].mode = 1 /\ fileTab'[f1].mode = 2
        /\ \A g \in Files : g # f0 /\ g # f1 => fileTab'[g] = fileTab[g]
    <3>1. PICK r : r = [count |-> 1, inode |-> "pipe", mode |-> 1]
      OBVIOUS
    <3>2. PICK w : w = [count |-> 1, inode |-> "pipe", mode |-> 2]
      OBVIOUS
    <3>3. /\ r \in FileType /\ r.count = 1 /\ r.inode = "pipe"
          /\ w \in FileType /\ w.count = 1 /\ w.inode = "pipe" /\ r.mode = 1 /\ w.mode = 2
      BY <3>1, <3>2 DEF FileType, FtInodes
    <3>4. fileTab' = [fileTab EXCEPT ![f0] = r, ![f1] = w]
      BY <1>12, <3>1, <3>2
    <3>5. /\ fileTab' \in TabType /\ fileTab'[f0] = r /\ fileTab'[f1] = w
          /\ \A g \in Files : g # f0 /\ g # f1 => fileTab'[g] = fileTab[g]
      BY <1>4, <1>6, <1>7, <3>3, <3>4 DEF TabType
    <3> QED
      BY <3>3, <3>5
  <2>3. Opens(fileTab, Reserved, "pipe") = {}
    <3>1. Cardinality(Opens(fileTab, Reserved, "pipe")) = 0
      BY <1>10, <1>12 DEF FtInodes
    <3> QED
      BY <3>1, Finite, FS_EmptySet
  <2>4. Opens(fileTab', Reserved', "pipe") = {f0, f1}
    <3>1. ASSUME NEW g \in Opens(fileTab', Reserved', "pipe"), g # f0, g # f1 PROVE FALSE
      <4>1. g \in Opens(fileTab, Reserved, "pipe")
        BY <3>1, <2>1, <2>2 DEF Opens
      <4> QED
        BY <4>1, <2>3
    <3>2. f0 \in Opens(fileTab', Reserved', "pipe") /\ f1 \in Opens(fileTab', Reserved', "pipe")
      BY <1>6, <2>1, <2>2 DEF Opens
    <3> QED
      BY <3>1, <3>2
  <2>5. Opens(fileTab', Reserved', "file") = Opens(fileTab, Reserved, "file")
    BY <1>6, <1>7, <2>1, <2>2 DEF Opens
  <2>6. Cardinality({f0, f1}) = 2
    <3>1. Cardinality({f0}) = 1 /\ IsFiniteSet({f0})
      BY FS_Singleton
    <3>2. Cardinality({f0} \cup {f1}) = 1 + 1
      BY <1>7, <3>1, FS_AddElement
    <3>3. {f0} \cup {f1} = {f0, f1}
      OBVIOUS
    <3> QED
      BY <3>2, <3>3
  <2>7. /\ iCount' \in [FtInodes -> Nat] /\ iCount'["pipe"] = 2 /\ iCount'["file"] = iCount["file"]
    BY <1>4, <1>12 DEF FtInodes
  <2>8. \A i \in FtInodes : iCount'[i] = Cardinality(Opens(fileTab', Reserved', i))
    BY <1>10, <2>4, <2>5, <2>6, <2>7 DEF FtInodes
  <2>9. ASSUME NEW g \in Files PROVE fileTab'[g].count = Cardinality(UsersOf(filp', g))
    BY <1>6, <1>10, <1>11, <1>12, <2>2
  <2>10. FileCountsExact'
    BY <2>8, <2>9, CountsNext
  <2>11. EmptyPipe \in PipeType
    BY FtAssumption DEF EmptyPipe, PipeType
  <2>12. Types'
    BY <1>4, <1>8, <1>12, <2>2, <2>7, <2>11 DEF Types
  <2>13. TableInv'
    BY <1>8, <1>9, <1>12, <2>10, <2>12, UserOK, TableStep
  <2> QED
    BY <1>6, <1>7, <1>12, <2>2, <2>3, <2>4, <2>13
<1>13. CASE /\ filp' = [filp EXCEPT ![p][a] = NoFile, ![p][b] = NoFile]
            /\ fileTab' = [fileTab EXCEPT ![f0].count = 0, ![f1].count = 0]
            /\ iCount' = iCount /\ NoData
  <2>1. NoFile \in Files \cup {NoFile} /\ \A g \in Files : g # NoFile
    BY Finite
  <2>2. PICK h : h = SetFd(filp, p, a, NoFile)
    OBVIOUS
  <2>3. /\ h \in FilpType /\ \A q \in FtProcs : q # p => h[q] = filp[q]
        /\ \A g \in Files : g # NoFile => UsersOf(h, g) = UsersOf(filp, g) \ {<<p, a>>}
    BY <1>1, <1>4, <2>1, <2>2, UsersSet
  <2>4. PICK k : k = SetFd(h, p, b, NoFile)
    OBVIOUS
  <2>5. /\ k \in FilpType /\ \A q \in FtProcs : q # p => k[q] = h[q]
        /\ \A g \in Files : g # NoFile => UsersOf(k, g) = UsersOf(h, g) \ {<<p, b>>}
    BY <1>1, <2>1, <2>3, <2>4, UsersSet
  <2>6. filp' = k
    BY <1>13, <2>2, <2>4 DEF SetFd
  <2>7. /\ filp' \in FilpType /\ \A q \in FtProcs : q # p => filp'[q] = filp[q]
        /\ \A g \in Files : UsersOf(filp', g) = (UsersOf(filp, g) \ {<<p, a>>}) \ {<<p, b>>}
    BY <2>1, <2>3, <2>5, <2>6
  <2>8. UsersOf(filp', f0) = {} /\ UsersOf(filp', f1) = {}
    BY <1>6, <2>7
  <2>9. ASSUME NEW g \in Files, g # f0, g # f1 PROVE UsersOf(filp', g) = UsersOf(filp, g)
    <3>1. <<p, a>> \notin UsersOf(filp, g) /\ <<p, b>> \notin UsersOf(filp, g)
      BY <1>2, <1>3, <2>9 DEF UsersOf
    <3>2. PICK A : A = UsersOf(filp, g)
      OBVIOUS
    <3>3. UsersOf(filp', g) = (A \ {<<p, a>>}) \ {<<p, b>>}
      BY <2>7, <3>2
    <3> QED
      BY <3>1, <3>2, <3>3
  <2>10. PICK t : t = SetCount(fileTab, f0, 0)
    OBVIOUS
  <2>11. /\ t \in TabType /\ t[f0].count = 0 /\ \A g \in Files : g # f0 => t[g] = fileTab[g]
    <3>1. 0 \in Nat
      OBVIOUS
    <3> QED
      BY <1>4, <1>6, <2>10, <3>1, CountSet
  <2>12. PICK u : u = SetCount(t, f1, 0)
    OBVIOUS
  <2>13. /\ u \in TabType /\ u[f1].count = 0 /\ \A g \in Files : g # f1 => u[g] = t[g]
    <3>1. 0 \in Nat
      OBVIOUS
    <3> QED
      BY <1>6, <2>11, <2>12, <3>1, CountSet
  <2>14. fileTab' = u
    BY <1>13, <2>10, <2>12 DEF SetCount
  <2>15. /\ fileTab' \in TabType /\ fileTab'[f0].count = 0 /\ fileTab'[f1].count = 0
         /\ \A g \in Files : g # f0 /\ g # f1 => fileTab'[g] = fileTab[g]
    BY <1>6, <1>7, <2>11, <2>13, <2>14
  <2>16. Reserved' = Reserved \ {f0, f1}
    BY <1>6, <1>8, <2>7, ReservedStep
  <2>17. ASSUME NEW j \in FtInodes PROVE Opens(fileTab', Reserved', j) = Opens(fileTab, Reserved, j)
    BY <1>6, <1>7, <2>15, <2>16 DEF Opens
  <2>18. ASSUME NEW g \in Files PROVE fileTab'[g].count = Cardinality(UsersOf(filp', g))
    BY <1>10, <1>11, <2>8, <2>9, <2>15
  <2>19. FileCountsExact'
    BY <1>10, <1>13, <2>17, <2>18, CountsNext
  <2>20. Types'
    BY <1>4, <1>8, <1>13, <2>7, <2>15, SameData DEF Types
  <2>21. \A g \in Reserved \ ReservedBy(p) : UsersOf(filp', g) = UsersOf(filp, g)
    BY <1>6, <2>9, ReservedByWhom
  <2>22. TableInv'
    BY <1>8, <1>9, <2>7, <2>19, <2>20, <2>21, UserOK, TableStep
  <2>23. \A g \in Opens(fileTab, Reserved, "pipe") : g \in Files /\ g # f0 /\ g # f1
    BY <1>7 DEF Opens
  <2> QED
    BY <1>13, <2>7, <2>15, <2>17, <2>22, <2>23 DEF EndsKept, FtInodes
<1> QED
  <2>1. <<a, b>>[1] = a /\ <<a, b>>[2] = b
    OBVIOUS
  <2> QED
    BY <1>1, <1>2, <1>3, <1>12, <1>13, <2>1 DEF PipeEnds

-----------------------------------------------------------------------------
(* Calls on the pipe *)

\* A remainder is below what was divided by.
LEMMA Modulo ==
  ASSUME NEW a \in Int, NEW n \in Nat, n > 0
  PROVE  a % n \in 0 .. n - 1
OBVIOUS

\* The bytes in the buffer and the room in it.
LEMMA Sizes ==
  ASSUME TableInv
  PROVE  /\ pipe \in PipeType /\ PipeSize \in 0 .. PipeBuf - 1 /\ PipeRoom \in 0 .. PipeBuf - 1
         /\ pipe.head \in 0 .. PipeBuf - 1 /\ pipe.tail \in 0 .. PipeBuf - 1
         /\ pipe.buf \in [0 .. PipeBuf - 1 -> Nat]
         /\ ftProc \in [FtProcs -> ProcType] /\ pipeWrit \in Nat /\ pipeRead \in Nat
         /\ filp \in FilpType /\ fileTab \in TabType /\ iCount \in [FtInodes -> Nat]
<1>1. /\ pipe \in PipeType /\ ftProc \in [FtProcs -> ProcType] /\ pipeWrit \in Nat /\ pipeRead \in Nat
      /\ filp \in FilpType /\ fileTab \in TabType /\ iCount \in [FtInodes -> Nat]
  BY DEF TableInv, Types
<1>2. /\ pipe.head \in 0 .. PipeBuf - 1 /\ pipe.tail \in 0 .. PipeBuf - 1
      /\ pipe.buf \in [0 .. PipeBuf - 1 -> Nat]
  BY <1>1 DEF PipeType
<1>3. PICK d \in Int : d = pipe.head - pipe.tail
  BY <1>2, FtAssumption
<1>4. d % PipeBuf \in 0 .. PipeBuf - 1
  BY FtAssumption, Modulo
<1>5. PipeSize \in 0 .. PipeBuf - 1
  BY <1>3, <1>4 DEF PipeSize
<1>6. PipeRoom \in 0 .. PipeBuf - 1
  BY <1>5, FtAssumption DEF PipeRoom
<1> QED
  BY <1>1, <1>2, <1>5, <1>6

\* One process's call changes, and others may be woken: no more than PipeStep allows.
LEMMA CallStep ==
  ASSUME TableInv, Tables, NEW p \in FtProcs, NEW c \in ProcType, NEW w,
         w = ftProc \/ w = WakePipe(ftProc), ftProc' = [w EXCEPT ![p] = c],
         c.fds = ftProc[p].fds,
         c.pc \notin {"unborn", "opening", "piping"},
         ftProc[p].pc \notin {"unborn", "opening", "piping"},
         pipe' \in PipeType, pipeWrit' \in Nat, pipeRead' \in Nat
  PROVE  TableInv' /\ EndsKept
<1>1. ftProc \in [FtProcs -> ProcType] /\ filp \in FilpType /\ fileTab \in TabType
      /\ iCount \in [FtInodes -> Nat]
  BY Sizes
<1>2. /\ w \in [FtProcs -> ProcType]
      /\ \A q \in FtProcs :
           /\ w[q].fds = ftProc[q].fds
           /\ w[q].pc = ftProc[q].pc \/
                /\ w[q].pc \notin {"unborn", "opening", "piping"}
                /\ ftProc[q].pc \notin {"unborn", "opening", "piping"}
  <2>1. CASE w = ftProc
    BY <1>1, <2>1
  <2>2. CASE w = WakePipe(ftProc)
    <3>1. /\ w \in [FtProcs -> ProcType]
          /\ \A q \in FtProcs :
               /\ w[q].fds = ftProc[q].fds
               /\ ftProc[q].pc = "readSleep" => w[q].pc = "read"
               /\ ftProc[q].pc = "writeSleep" => w[q].pc = "write"
               /\ ftProc[q].pc \notin {"readSleep", "writeSleep"} => w[q] = ftProc[q]
      BY <1>1, <2>2, Wakes
    <3> QED
      BY <3>1
  <2> QED
    BY <2>1, <2>2
<1>3. ftProc' \in [FtProcs -> ProcType] /\ ftProc'[p] = c /\ \A q \in FtProcs : q # p => ftProc'[q] = w[q]
  BY <1>2
<1>4. Types'
  BY <1>1, <1>3 DEF Types, Tables
<1>5. \A q \in FtProcs :
        /\ ftProc'[q].fds = ftProc[q].fds
        /\ ftProc'[q].pc = ftProc[q].pc \/
             /\ ftProc'[q].pc \notin {"unborn", "opening", "piping"}
             /\ ftProc[q].pc \notin {"unborn", "opening", "piping"}
  BY <1>2, <1>3
<1> QED
  BY <1>4, <1>5, PipeStep

\* A process that is in no call, or in one on the pipe, has reserved nothing.
LEMMA Unreserved ==
  ASSUME TableInv, NEW p \in FtProcs, ftProc[p].pc \notin {"opening", "piping"}
  PROVE  ftProc[p].fds = User.fds /\ ftProc[p] \in ProcType
<1>1. CallOK(ftProc[p]) /\ ftProc[p] \in ProcType
  BY Sizes DEF TableInv
<1>2. ftProc[p].fds = <<>>
  BY <1>1, NothingReserved
<1> QED
  BY <1>1, <1>2, UserOK

\* read() and write() of a pipe begin
LEMMA PipeCallStep ==
  ASSUME TableInv, NEW p \in FtProcs, NEW fd \in FDs, NEW mode \in {1, 2}, NEW n \in 1 .. PipeAsk,
         PipeCall(p, fd, mode, n)
  PROVE  TableInv' /\ EndsKept
<1>1. ftProc[p].pc = "user"
  BY DEF PipeCall, InUser
<1>2. PICK s \in Calls : s = IF mode = 1 THEN "read" ELSE "write"
  BY DEF Calls
<1>3. PICK c : c = [ftProc[p] EXCEPT !.pc = s, !.left = n]
  OBVIOUS
<1>4. ftProc[p] \in ProcType /\ n \in Nat
  BY <1>1, Unreserved, FtAssumption
<1>5. c \in ProcType /\ c.pc = s /\ c.fds = ftProc[p].fds
  <2>1. PICK o \in ProcType : o = ftProc[p]
    BY <1>4
  <2>2. PICK m \in Nat : m = n
    BY <1>4
  <2>3. c = [o EXCEPT !.pc = s, !.left = m]
    BY <1>3, <2>1, <2>2
  <2>4. c \in ProcType /\ c.pc = s /\ c.fds = o.fds
    BY <2>3 DEF ProcType
  <2> QED
    BY <2>1, <2>4
<1>6. ftProc' = [ftProc EXCEPT ![p] = c]
  BY <1>2, <1>3 DEF PipeCall
<1>7. Tables /\ NoData
  BY DEF PipeCall
<1>8. c.pc \notin {"unborn", "opening", "piping"}
  BY <1>2, <1>5
<1> QED
  BY <1>1, <1>5, <1>6, <1>7, <1>8, SameData, CallStep

\* A call on the pipe is done: the sleepers are woken.
LEMMA CallEnds ==
  ASSUME TableInv, NEW p \in FtProcs, ftProc[p].pc \in {"read", "write"},
         Tables, NoData, ftProc' = [WakePipe(ftProc) EXCEPT ![p] = User]
  PROVE  TableInv' /\ EndsKept
<1>1. User \in ProcType /\ User.pc = "user" /\ User.fds = ftProc[p].fds
  BY UserOK, Unreserved
<1>2. User.pc \notin {"unborn", "opening", "piping"}
  BY <1>1
<1> QED
  BY <1>1, <1>2, SameData, CallStep

\* A reader finds the pipe empty, or a writer finds it full: it sleeps or returns.
LEMMA SleepStep ==
  ASSUME TableInv, NEW p \in FtProcs, ReadEmpty(p) \/ WriteFull(p)
  PROVE  TableInv' /\ EndsKept
<1>1. ftProc[p].pc \in {"read", "write"}
  BY DEF ReadEmpty, WriteFull
<1>2. PICK s \in Calls : s = IF ftProc[p].pc = "read" THEN "readSleep" ELSE "writeSleep"
  BY DEF Calls
<1>3. PICK c : c = IF iCount["pipe"] # 2 THEN User ELSE [ftProc[p] EXCEPT !.pc = s]
  OBVIOUS
<1>4. c \in ProcType /\ c.fds = ftProc[p].fds /\ c.pc \in {"user", "readSleep", "writeSleep"}
  <2>1. ftProc[p] \in ProcType /\ ftProc[p].fds = User.fds
    BY <1>1, Unreserved
  <2>2. CASE iCount["pipe"] # 2
    BY <1>3, <2>1, <2>2, UserOK
  <2>3. CASE ~(iCount["pipe"] # 2)
    <3>1. c = [ftProc[p] EXCEPT !.pc = s]
      BY <1>3, <2>3
    <3>2. c \in ProcType /\ c.fds = ftProc[p].fds /\ c.pc = s
      BY <3>1, <2>1 DEF ProcType
    <3> QED
      BY <3>2, <1>2
  <2> QED
    BY <2>2, <2>3
<1>5. ftProc' = [WakePipe(ftProc) EXCEPT ![p] = c]
  BY <1>2, <1>3 DEF ReadEmpty, WriteFull
<1>6. Tables /\ UNCHANGED <<pipe, pipeWrit, pipeRead>>
  BY DEF ReadEmpty, WriteFull, NoData
<1>7. pipe' \in PipeType /\ pipeWrit' \in Nat /\ pipeRead' \in Nat
  BY <1>6, Sizes
<1> QED
  BY <1>1, <1>4, <1>5, <1>6, <1>7, CallStep

\* a copy that slept
LEMMA CopyStep ==
  ASSUME TableInv, NEW p \in FtProcs, CopyDone(p)
  PROVE  TableInv' /\ EndsKept
<1>1. ftProc[p].pc \in {"readCopy", "writeCopy"}
  BY DEF CopyDone
<1>2. PICK s \in Calls : s = IF ftProc[p].pc = "readCopy" THEN "read" ELSE "write"
  BY DEF Calls
<1>3. PICK c : c = [ftProc[p] EXCEPT !.pc = s]
  OBVIOUS
<1>4. ftProc[p] \in ProcType
  BY <1>1, Unreserved
<1>5. c \in ProcType /\ c.pc = s /\ c.fds = ftProc[p].fds
  BY <1>3, <1>4 DEF ProcType
<1>6. ftProc' = [ftProc EXCEPT ![p] = c]
  BY <1>2, <1>3 DEF CopyDone
<1>7. Tables /\ NoData
  BY DEF CopyDone
<1>8. c.pc \notin {"unborn", "opening", "piping"}
  BY <1>2, <1>5
<1> QED
  BY <1>1, <1>5, <1>6, <1>7, <1>8, SameData, CallStep

\* A chunk is no longer than what is asked for, what there is, and the end of the buffer.
LEMMA ChunkLength ==
  ASSUME NEW at \in 0 .. PipeBuf - 1, NEW left \in Nat, left > 0,
         NEW size \in 0 .. PipeBuf - 1, size > 0,
         NEW chars, chars = Lowest({PipeBuf - at, left, size})
  PROVE  /\ chars \in Nat /\ chars > 0 /\ chars <= PipeBuf - at /\ chars <= left /\ chars <= size
<1>1. PICK room \in Int : room = PipeBuf - at /\ room > 0
  BY FtAssumption
<1>2. left \in Int /\ size \in Int
  BY FtAssumption
<1>3. PICK S : S = {room, left, size} /\ chars = Lowest(S)
  BY <1>1
<1>4. chars \in S /\ chars <= room /\ chars <= left /\ chars <= size
  BY <1>2, <1>3, LowestOfThree
<1> QED
  BY <1>1, <1>2, <1>3, <1>4, FtAssumption

\* a chunk of read_pipe()
LEMMA ReadChunkStep ==
  ASSUME TableInv, NEW p \in FtProcs, ReadChunk(p)
  PROVE  TableInv' /\ EndsKept
<1>1. ftProc[p].pc = "read" /\ ftProc[p].left > 0 /\ PipeSize > 0 /\ Tables /\ pipeWrit' = pipeWrit
  BY DEF ReadChunk
<1>2. PICK chars : chars = Lowest({PipeBuf - pipe.tail, ftProc[p].left, PipeSize})
  OBVIOUS
<1>3. PICK q : q = [ftProc[p] EXCEPT !.left = @ - chars]
  OBVIOUS
<1>4. PICK s \in Calls : s = "readCopy"
  BY DEF Calls
<1>5. PICK d : d = [q EXCEPT !.pc = s]
  OBVIOUS
<1>6. /\ pipe' = [pipe EXCEPT !.tail = (@ + chars) % PipeBuf]
      /\ pipeRead' = pipeRead + chars
      /\ ftProc' = [ftProc EXCEPT ![p] = q] \/ ftProc' = [ftProc EXCEPT ![p] = d]
  BY <1>2, <1>3, <1>4, <1>5 DEF ReadChunk
<1>7. PICK o \in ProcType : o = ftProc[p] /\ o.left \in Nat /\ o.left > 0
  BY <1>1, Unreserved DEF ProcType
<1>8. PICK at \in 0 .. PipeBuf - 1, size \in 0 .. PipeBuf - 1 : at = pipe.tail /\ size = PipeSize
  BY Sizes
<1>9. chars \in Nat /\ chars <= o.left
  <2>1. chars = Lowest({PipeBuf - at, o.left, size}) /\ size > 0
    BY <1>1, <1>2, <1>7, <1>8
  <2> QED
    BY <1>7, <2>1, ChunkLength
<1>10. q \in ProcType /\ q.pc = o.pc /\ q.fds = o.fds /\ d \in ProcType /\ d.pc = s /\ d.fds = o.fds
  <2>1. PICK n \in Nat : n = o.left - chars
    BY <1>9 DEF ProcType
  <2>2. q = [o EXCEPT !.left = n]
    BY <1>3, <1>7, <2>1
  <2>3. q \in ProcType /\ q.pc = o.pc /\ q.fds = o.fds
    BY <2>2 DEF ProcType
  <2> QED
    BY <1>5, <2>3 DEF ProcType
<1>11. pipe' \in PipeType
  <2>1. PICK t \in 0 .. PipeBuf - 1 : t = (pipe.tail + chars) % PipeBuf
    <3>1. PICK x \in Int : x = pipe.tail + chars
      BY <1>8, <1>9, FtAssumption
    <3> QED
      BY <3>1, Modulo, FtAssumption
  <2>2. pipe' = [pipe EXCEPT !.tail = t]
    BY <1>6, <2>1
  <2>3. pipe \in PipeType
    BY Sizes
  <2> QED
    BY <2>2, <2>3 DEF PipeType
<1>12. pipeWrit' \in Nat /\ pipeRead' \in Nat
  BY <1>1, <1>6, <1>9, Sizes
<1>13. PICK c \in ProcType : /\ ftProc' = [ftProc EXCEPT ![p] = c] /\ c.fds = ftProc[p].fds
                             /\ c.pc \in {"read", "readCopy"}
  BY <1>1, <1>4, <1>6, <1>7, <1>10
<1> QED
  BY <1>1, <1>11, <1>12, <1>13, CallStep

\* a chunk of write_pipe()
LEMMA WriteChunkStep ==
  ASSUME TableInv, NEW p \in FtProcs, WriteChunk(p)
  PROVE  TableInv' /\ EndsKept
<1>1. ftProc[p].pc = "write" /\ ftProc[p].left > 0 /\ PipeRoom > 0 /\ Tables /\ pipeRead' = pipeRead
  BY DEF WriteChunk
<1>2. PICK chars : chars = Lowest({PipeBuf - pipe.head, ftProc[p].left, PipeRoom})
  OBVIOUS
<1>3. PICK q : q = [ftProc[p] EXCEPT !.left = @ - chars]
  OBVIOUS
<1>4. PICK s \in Calls : s = "writeCopy"
  BY DEF Calls
<1>5. PICK d : d = [q EXCEPT !.pc = s]
  OBVIOUS
<1>6. PICK moved : moved = [pipe EXCEPT !.head = (@ + chars) % PipeBuf]
  OBVIOUS
<1>7. PICK filled : filled = [k \in DOMAIN moved.buf |->
                               IF k >= pipe.head /\ k < pipe.head + chars
                                 THEN pipeWrit + 1 + k - pipe.head ELSE moved.buf[k]]
  OBVIOUS
<1>8. /\ pipe' = moved \/ pipe' = [moved EXCEPT !.buf = filled]
      /\ pipeWrit' = pipeWrit + chars
      /\ ftProc' = [ftProc EXCEPT ![p] = q] \/ ftProc' = [ftProc EXCEPT ![p] = d]
  BY <1>2, <1>3, <1>4, <1>5, <1>6, <1>7 DEF WriteChunk
<1>9. PICK o \in ProcType : o = ftProc[p] /\ o.left \in Nat /\ o.left > 0
  BY <1>1, Unreserved DEF ProcType
<1>10. PICK at \in 0 .. PipeBuf - 1, room \in 0 .. PipeBuf - 1 : at = pipe.head /\ room = PipeRoom
  BY Sizes
<1>11. chars \in Nat /\ chars <= o.left
  <2>1. chars = Lowest({PipeBuf - at, o.left, room}) /\ room > 0
    BY <1>1, <1>2, <1>9, <1>10
  <2> QED
    BY <1>9, <2>1, ChunkLength
<1>12. q \in ProcType /\ q.pc = o.pc /\ q.fds = o.fds /\ d \in ProcType /\ d.pc = s /\ d.fds = o.fds
  <2>1. PICK n \in Nat : n = o.left - chars
    BY <1>11 DEF ProcType
  <2>2. q = [o EXCEPT !.left = n]
    BY <1>3, <1>9, <2>1
  <2>3. q \in ProcType /\ q.pc = o.pc /\ q.fds = o.fds
    BY <2>2 DEF ProcType
  <2> QED
    BY <1>5, <2>3 DEF ProcType
<1>13. moved \in PipeType /\ moved.buf = pipe.buf
  <2>1. PICK h \in 0 .. PipeBuf - 1 : h = (pipe.head + chars) % PipeBuf
    <3>1. PICK x \in Int : x = pipe.head + chars
      BY <1>10, <1>11, FtAssumption
    <3> QED
      BY <3>1, Modulo, FtAssumption
  <2>2. moved = [pipe EXCEPT !.head = h]
    BY <1>6, <2>1
  <2>3. pipe \in PipeType
    BY Sizes
  <2> QED
    BY <2>2, <2>3 DEF PipeType
<1>14. filled \in [0 .. PipeBuf - 1 -> Nat]
  <2>1. pipe.buf \in [0 .. PipeBuf - 1 -> Nat] /\ pipeWrit \in Nat /\ pipe.head \in 0 .. PipeBuf - 1
    BY Sizes
  <2> QED
    BY <1>7, <1>13, <2>1, FtAssumption
<1>15. pipe' \in PipeType
  BY <1>8, <1>13, <1>14 DEF PipeType
<1>16. pipeWrit' \in Nat /\ pipeRead' \in Nat
  BY <1>1, <1>8, <1>11, Sizes
<1>17. PICK c \in ProcType : /\ ftProc' = [ftProc EXCEPT ![p] = c] /\ c.fds = ftProc[p].fds
                             /\ c.pc \in {"write", "writeCopy"}
  BY <1>1, <1>4, <1>8, <1>9, <1>12
<1> QED
  BY <1>1, <1>15, <1>16, <1>17, CallStep

-----------------------------------------------------------------------------
(* What the pipe delivers.  PipeInv adds to TableInv that each end of the pipe is at   *)
(* most one file (EndsOK); that who is in a call on the pipe has that end open, and so *)
(* keeps the inode (Callers); where the bytes are that were written and not yet read   *)
(* (Bytes); and what is said of sleepers (Sleepers).                                   *)

OffPipe == {"unborn", "user", "opening", "piping"}
Readers == {"read", "readSleep", "readCopy"}
Writers == {"write", "writeSleep", "writeCopy"}

Wrap(n) == IF n < PipeBuf THEN n ELSE n - PipeBuf
Ends == Opens(fileTab, Reserved, "pipe")
HasEnd(p, m) == \E fd \in FDs : filp[p][fd] \in Ends /\ fileTab[filp[p][fd]].mode = m

EndsOK ==
  /\ \A f \in Ends : fileTab[f].mode \in {1, 2}
  /\ \A f, g \in Ends : fileTab[f].mode = fileTab[g].mode => f = g

Callers ==
  \A p \in FtProcs : /\ ftProc[p].pc \in Readers => HasEnd(p, 1)
                     /\ ftProc[p].pc \in Writers => HasEnd(p, 2)

Bytes ==
  /\ pipeRead <= pipeWrit /\ pipeWrit - pipeRead < PipeBuf
  /\ pipe.head = Wrap(pipe.tail + (pipeWrit - pipeRead))
  /\ pipeFault \in BOOLEAN
  /\ ~pipeFault => \A n \in pipeRead + 1 .. pipeWrit :
                     pipe.buf[Wrap(pipe.tail + (n - pipeRead - 1))] = n

Awake == \E q \in FtProcs : InPipe(q)

Sleepers ==
  \A p \in FtProcs :
    /\ ftProc[p].pc = "readSleep" => (PipeSize = 0 /\ WriterOpen) \/ Awake
    /\ ftProc[p].pc = "writeSleep" => (PipeSize = PipeBuf - 1 /\ iCount["pipe"] = 2) \/ Awake

PipeInv ==
  TableInv /\ EndsOK /\ Callers /\ Bytes /\ Sleepers /\ pipeBad = "none"

\* Remainders of numbers close to the divisor.
LEMMA Remainders ==
  ASSUME NEW n \in Nat, n > 0, NEW d \in Int, 0 <= d, d < n
  PROVE  d % n = d /\ (d - n) % n = d /\ (d + n) % n = d
<1>1. d % n = d
  OBVIOUS
<1>2. (d - n) % n = d
  OBVIOUS
<1>3. (d + n) % n = d
  OBVIOUS
<1> QED
  BY <1>1, <1>2, <1>3

\* Remainders of what is less than twice the size of the buffer.
LEMMA WrapMod ==
  ASSUME NEW n \in Nat, n < 2 * PipeBuf
  PROVE  n % PipeBuf = Wrap(n)
<1>1. PipeBuf \in Nat /\ PipeBuf > 0
  BY FtAssumption
<1>2. CASE n < PipeBuf
  BY <1>1, <1>2 DEF Wrap
<1>3. CASE n >= PipeBuf
  <2>1. PICK d \in Nat : d < PipeBuf /\ n = d + PipeBuf
    BY <1>1, <1>3
  <2>2. (d + PipeBuf) % PipeBuf = d
    BY <1>1, <2>1
  <2>3. Wrap(n) = d
    BY <1>1, <2>1 DEF Wrap
  <2> QED
    BY <2>1, <2>2, <2>3
<1> QED
  BY <1>1, <1>2, <1>3

\* PIPE_SIZE() is the number of bytes written and not read.
LEMMA SizeIs ==
  ASSUME TableInv, Bytes
  PROVE  PipeSize = pipeWrit - pipeRead
<1>1. PICK h \in 0 .. PipeBuf - 1, t \in 0 .. PipeBuf - 1 : h = pipe.head /\ t = pipe.tail
  BY Sizes
<1>2. PICK d \in Nat : d < PipeBuf /\ d = pipeWrit - pipeRead /\ h = Wrap(t + d)
  BY <1>1, Sizes DEF Bytes
<1>3. PipeBuf \in Nat /\ PipeBuf > 0
  BY FtAssumption
<1>4. h - t = d \/ h - t = d - PipeBuf
  BY <1>1, <1>2, <1>3 DEF Wrap
<1>5. d % PipeBuf = d /\ (d - PipeBuf) % PipeBuf = d
  BY <1>2, <1>3, Remainders
<1>6. (h - t) % PipeBuf = d
  BY <1>4, <1>5
<1> QED
  BY <1>1, <1>2, <1>6 DEF PipeSize

EndsCounted ==
  /\ iCount["pipe"] = Cardinality(Ends) /\ IsFiniteSet(Ends) /\ Ends \subseteq Files
  /\ WriterOpen <=> \E f \in Ends : fileTab[f].mode = 2

\* The open ends, in terms of the counts and of WriterOpen.
LEMMA EndsFacts ==
  TableInv => EndsCounted
<1> SUFFICES ASSUME TableInv PROVE EndsCounted
  OBVIOUS
<1>1. OpenFiles("pipe") = Ends
  BY Counts DEF Ends
<1>2. iCount["pipe"] = Cardinality(Ends)
  BY Counts DEF Ends, TableInv, FtInodes
<1>3. IsFiniteSet(Ends)
  BY Finite DEF Ends
<1>4. Ends \subseteq Files
  BY DEF Ends, Opens
<1> QED
  BY <1>1, <1>2, <1>3, <1>4 DEF WriterOpen, EndsCounted

\* i_count is 2 exactly when both ends are open.
LEMMA TwoEnds ==
  TableInv /\ EndsOK =>
    (iCount["pipe"] = 2 <=> (\E f \in Ends : fileTab[f].mode = 1) /\ WriterOpen)
<1> SUFFICES ASSUME TableInv, EndsOK
             PROVE  iCount["pipe"] = 2 <=> (\E f \in Ends : fileTab[f].mode = 1) /\ WriterOpen
  OBVIOUS
<1>1. /\ iCount["pipe"] = Cardinality(Ends) /\ IsFiniteSet(Ends)
      /\ WriterOpen <=> \E f \in Ends : fileTab[f].mode = 2
  BY EndsFacts DEF EndsCounted
<1>2. ASSUME NEW f \in Ends, fileTab[f].mode = 1, NEW g \in Ends, fileTab[g].mode = 2
      PROVE  iCount["pipe"] = 2
  <2>1. f # g
    BY <1>2
  <2>2. Ends = {f} \cup {g}
    BY <1>2 DEF EndsOK
  <2>3. Cardinality({f}) = 1 /\ IsFiniteSet({f})
    BY FS_Singleton
  <2>4. Cardinality({f} \cup {g}) = 1 + 1
    BY <2>1, <2>3, FS_AddElement
  <2> QED
    BY <1>1, <2>2, <2>4
<1>3. ASSUME NEW m \in {1, 2}, \A f \in Ends : fileTab[f].mode # m PROVE iCount["pipe"] # 2
  <2>1. CASE Ends = {}
    BY <1>1, <2>1, FS_EmptySet
  <2>2. CASE Ends # {}
    <3>1. PICK f : f \in Ends
      BY <2>2
    <3>2. Ends = {f}
      BY <1>3, <3>1 DEF EndsOK
    <3>3. Cardinality({f}) = 1
      BY FS_Singleton
    <3> QED
      BY <1>1, <3>2, <3>3
  <2> QED
    BY <2>1, <2>2
<1> QED
  BY <1>1, <1>2, <1>3

\* What keeps the ends and the calls in order.
LEMMA EndsStay ==
  ASSUME TableInv, EndsOK, TableInv', EndsKept,
         \A q \in FtProcs : \/ ftProc'[q].pc \in OffPipe
                            \/ /\ filp'[q] = filp[q]
                               /\ ftProc'[q].pc \in Readers => HasEnd(q, 1)
                               /\ ftProc'[q].pc \in Writers => HasEnd(q, 2)
  PROVE  /\ EndsOK' /\ Callers' /\ (WriterOpen' <=> WriterOpen)
         /\ iCount'["pipe"] = iCount["pipe"]
<1>1. PICK E : E = Ends
  OBVIOUS
<1>2. Ends' = E /\ \A f \in E : fileTab'[f].mode = fileTab[f].mode
  BY <1>1 DEF Ends, EndsKept, Opens
<1>3. EndsOK'
  BY <1>1, <1>2 DEF EndsOK
<1>4. ASSUME NEW q \in FtProcs, NEW m, filp'[q] = filp[q], HasEnd(q, m) PROVE HasEnd(q, m)'
  BY <1>1, <1>2, <1>4 DEF HasEnd
<1>5. Callers'
  BY <1>4 DEF Callers, OffPipe, Readers, Writers
<1>6. /\ iCount["pipe"] = Cardinality(E) /\ (WriterOpen <=> \E f \in E : fileTab[f].mode = 2)
  BY <1>1, EndsFacts DEF EndsCounted
<1>7. /\ iCount'["pipe"] = Cardinality(Ends') /\ (WriterOpen' <=> \E f \in Ends' : fileTab'[f].mode = 2)
  <2>1. EndsCounted'
    BY EndsFacts, PTL
  <2> QED
    BY <2>1 DEF EndsCounted
<1> QED
  BY <1>2, <1>3, <1>5, <1>6, <1>7

\* Bytes and PipeSize speak of the data alone.
LEMMA SameBytes ==
  ASSUME Bytes, UNCHANGED <<pipe, pipeWrit, pipeRead, pipeFault>>
  PROVE  Bytes' /\ PipeSize' = PipeSize
BY DEF Bytes, PipeSize

\* Steps of open(), close(), dup(), fork() and pipe() that leave the pipe alone.
LEMMA PipeUntouched ==
  ASSUME PipeInv, TableInv', EndsKept, NoData,
         \A q \in FtProcs : \/ filp'[q] = filp[q] /\ ftProc'[q] = ftProc[q]
                            \/ ftProc[q].pc \in OffPipe /\ ftProc'[q].pc \in OffPipe
  PROVE  PipeInv'
<1>1. TableInv /\ EndsOK /\ Callers /\ Bytes /\ Sleepers /\ pipeBad = "none"
  BY DEF PipeInv
<1>2. \A q \in FtProcs : \/ ftProc'[q].pc \in OffPipe
                         \/ /\ filp'[q] = filp[q]
                            /\ ftProc'[q].pc \in Readers => HasEnd(q, 1)
                            /\ ftProc'[q].pc \in Writers => HasEnd(q, 2)
  BY <1>1 DEF Callers
<1>3. EndsOK' /\ Callers' /\ (WriterOpen' <=> WriterOpen) /\ iCount'["pipe"] = iCount["pipe"]
  BY <1>1, <1>2, EndsStay
<1>4. Bytes' /\ PipeSize' = PipeSize /\ pipeBad' = "none"
  BY <1>1, SameBytes DEF NoData
<1>5. Awake => Awake'
  BY DEF Awake, InPipe, OffPipe
<1>6. Sleepers'
  BY <1>1, <1>3, <1>4, <1>5 DEF Sleepers, OffPipe
<1> QED
  BY <1>1, <1>3, <1>4, <1>6 DEF PipeInv

\* open(), the first half of pipe() and dup() change one process that is not in a call on
\* the pipe.
LEMMA PipeQuiet ==
  ASSUME PipeInv, NEW p \in FtProcs,
         \/ OpenReserve(p) \/ OpenEnds(p) \/ PipeReserve(p)
         \/ \E fd, arg \in FDs : DupFd(p, fd, arg)
  PROVE  PipeInv'
<1>1. TableInv
  BY DEF PipeInv
<1>2. TableInv' /\ EndsKept
  BY <1>1, OpenReserveStep, OpenEndsStep, PipeReserveStep, DupStep
<1>3. filp \in FilpType /\ ftProc \in [FtProcs -> ProcType]
  BY <1>1, Sizes
<1>4. \A q \in FtProcs : q # p => filp'[q] = filp[q]
  BY <1>3 DEF OpenReserve, OpenEnds, PipeReserve, DupFd, FilpType
<1>5. /\ \A q \in FtProcs : q # p => ftProc'[q] = ftProc[q]
      /\ ftProc'[p].pc \in OffPipe /\ ftProc[p].pc \in OffPipe
  <2>1. CASE OpenReserve(p) \/ PipeReserve(p)
    BY <1>3, <2>1 DEF OpenReserve, PipeReserve, InUser, OffPipe, ProcType
  <2>2. CASE OpenEnds(p)
    BY <1>3, <2>2, UserOK DEF OpenEnds, OffPipe
  <2>3. CASE \E fd, arg \in FDs : DupFd(p, fd, arg)
    BY <2>3 DEF DupFd, InUser, OffPipe
  <2> QED
    BY <2>1, <2>2, <2>3
<1>6. NoData
  BY DEF OpenReserve, OpenEnds, PipeReserve, DupFd
<1> QED
  BY <1>2, <1>4, <1>5, <1>6, PipeUntouched

\* A child is in no call.
LEMMA PipeFork ==
  ASSUME PipeInv, NEW p \in FtProcs, NEW child \in FtProcs, Fork(p, child)
  PROVE  PipeInv'
<1>1. TableInv
  BY DEF PipeInv
<1>2. TableInv' /\ EndsKept
  BY <1>1, ForkStep
<1>3. filp \in FilpType /\ ftProc \in [FtProcs -> ProcType]
  BY <1>1, Sizes
<1>4. /\ \A q \in FtProcs : q # child => filp'[q] = filp[q] /\ ftProc'[q] = ftProc[q]
      /\ ftProc'[child].pc \in OffPipe /\ ftProc[child].pc \in OffPipe /\ NoData
  BY <1>3, UserOK DEF Fork, FilpType, OffPipe
<1> QED
  BY <1>2, <1>4, PipeUntouched

\* Whoever is woken goes on with the same call.
LEMMA WokenUp ==
  ASSUME TableInv, NEW w, w = WakePipe(ftProc)
  PROVE  /\ w \in [FtProcs -> ProcType]
         /\ \A q \in FtProcs : /\ w[q].pc \notin {"readSleep", "writeSleep"}
                               /\ w[q].pc \in Readers => ftProc[q].pc \in Readers
                               /\ w[q].pc \in Writers => ftProc[q].pc \in Writers
<1>1. ftProc \in [FtProcs -> ProcType]
  BY Sizes
<1>2. /\ w \in [FtProcs -> ProcType]
      /\ \A q \in FtProcs :
           /\ ftProc[q].pc = "readSleep" => w[q].pc = "read"
           /\ ftProc[q].pc = "writeSleep" => w[q].pc = "write"
           /\ ftProc[q].pc \notin {"readSleep", "writeSleep"} => w[q] = ftProc[q]
  BY <1>1, Wakes
<1> QED
  BY <1>2 DEF Readers, Writers

\* The last descriptor of an end is closed: nobody is in a call on that end, and who
\* sleeps on the other is woken.
LEMMA PipeClose ==
  ASSUME PipeInv, NEW p \in FtProcs, NEW fd \in FDs, SysClose(p, fd)
  PROVE  PipeInv'
<1>1. TableInv /\ EndsOK /\ Callers /\ Bytes /\ pipeBad = "none"
  BY DEF PipeInv
<1>2. /\ TableInv'
      /\ \A q \in FtProcs : q # p => filp'[q] = filp[q]
      /\ \/ EndsKept /\ ftProc' = ftProc
         \/ \E f \in Files :
              /\ UsersOf(filp, f) = {<<p, fd>>} /\ ftProc' = WakePipe(ftProc)
              /\ Opens(fileTab', Reserved', "pipe") = Opens(fileTab, Reserved, "pipe") \ {f}
              /\ \A g \in Opens(fileTab, Reserved, "pipe") : fileTab'[g].mode = fileTab[g].mode
  BY <1>1, CloseStep
<1>3. NoData /\ ftProc[p].pc = "user"
  BY DEF SysClose, InUser
<1>4. CASE EndsKept /\ ftProc' = ftProc
  <2>1. \A q \in FtProcs : \/ filp'[q] = filp[q] /\ ftProc'[q] = ftProc[q]
                           \/ ftProc[q].pc \in OffPipe /\ ftProc'[q].pc \in OffPipe
    BY <1>2, <1>3, <1>4 DEF OffPipe
  <2> QED
    BY <1>2, <1>3, <1>4, <2>1, PipeUntouched
<1>5. ASSUME NEW f \in Files,
             UsersOf(filp, f) = {<<p, fd>>}, ftProc' = WakePipe(ftProc),
             Opens(fileTab', Reserved', "pipe") = Opens(fileTab, Reserved, "pipe") \ {f},
             \A g \in Opens(fileTab, Reserved, "pipe") : fileTab'[g].mode = fileTab[g].mode
      PROVE  PipeInv'
  <2>1. PICK E : E = Ends
    OBVIOUS
  <2>2. Ends' = E \ {f} /\ \A g \in E : fileTab'[g].mode = fileTab[g].mode
    BY <1>5, <2>1 DEF Ends, Opens
  <2>3. EndsOK'
    BY <1>1, <2>1, <2>2 DEF EndsOK
  <2>4. \A q \in FtProcs : /\ ftProc'[q].pc \notin {"readSleep", "writeSleep"}
                           /\ ftProc'[q].pc \in Readers => ftProc[q].pc \in Readers
                           /\ ftProc'[q].pc \in Writers => ftProc[q].pc \in Writers
    BY <1>1, <1>5, WokenUp
  <2>5. ASSUME NEW q \in FtProcs, q # p, NEW m, HasEnd(q, m) PROVE HasEnd(q, m)'
    <3>1. PICK n \in FDs : filp[q][n] \in E /\ fileTab[filp[q][n]].mode = m
      BY <2>1, <2>5 DEF HasEnd
    <3>2. <<q, n>> \notin UsersOf(filp, f)
      BY <1>5, <2>5
    <3>3. filp[q][n] # f
      BY <3>2 DEF UsersOf
    <3> QED
      BY <1>2, <2>2, <2>5, <3>1, <3>3 DEF HasEnd
  <2>6. Callers'
    <3>1. ASSUME NEW q \in FtProcs, ftProc'[q].pc \in Readers \cup Writers PROVE q # p
      BY <1>3, <2>4, <3>1 DEF Readers, Writers
    <3> QED
      BY <1>1, <2>4, <2>5, <3>1 DEF Callers
  <2>7. Sleepers'
    BY <2>4 DEF Sleepers
  <2>8. Bytes' /\ pipeBad' = "none"
    BY <1>1, <1>3, SameBytes DEF NoData
  <2> QED
    BY <1>2, <2>3, <2>6, <2>7, <2>8 DEF PipeInv
<1> QED
  BY <1>2, <1>4, <1>5

\* When get_pipe_inode() gives the inode, nobody is in a call on the pipe.
LEMMA PipeBegins ==
  ASSUME PipeInv, NEW p \in FtProcs, PipeEnds(p)
  PROVE  PipeInv'
<1>1. TableInv /\ EndsOK /\ Callers /\ Bytes /\ pipeBad = "none"
  BY DEF PipeInv
<1>2. /\ TableInv'
      /\ \/ EndsKept /\ NoData /\ \A q \in FtProcs : q # p => filp'[q] = filp[q]
         \/ /\ Opens(fileTab, Reserved, "pipe") = {}
            /\ \E f0, f1 \in Files :
                 /\ f0 # f1 /\ Opens(fileTab', Reserved', "pipe") = {f0, f1}
                 /\ fileTab'[f0].mode = 1 /\ fileTab'[f1].mode = 2
            /\ pipe' = EmptyPipe /\ pipeWrit' = 0 /\ pipeRead' = 0 /\ pipeBad' = pipeBad
            /\ pipeFault' = FALSE
  BY <1>1, PipeEndsStep
<1>3. /\ \A q \in FtProcs : q # p => ftProc'[q] = ftProc[q]
      /\ ftProc'[p].pc \in OffPipe /\ ftProc[p].pc \in OffPipe
  <2>1. ftProc \in [FtProcs -> ProcType]
    BY <1>1, Sizes
  <2> QED
    BY <2>1, UserOK DEF PipeEnds, OffPipe
<1>4. CASE EndsKept /\ NoData /\ \A q \in FtProcs : q # p => filp'[q] = filp[q]
  BY <1>2, <1>3, <1>4, PipeUntouched
<1>5. ASSUME Opens(fileTab, Reserved, "pipe") = {}, NEW f0 \in Files, NEW f1 \in Files, f0 # f1,
             Opens(fileTab', Reserved', "pipe") = {f0, f1},
             fileTab'[f0].mode = 1, fileTab'[f1].mode = 2,
             pipe' = EmptyPipe, pipeWrit' = 0, pipeRead' = 0, pipeBad' = pipeBad, pipeFault' = FALSE
      PROVE  PipeInv'
  <2>1. Ends = {}
    BY <1>5 DEF Ends
  <2>2. Ends' = {f0, f1}
    BY <1>5 DEF Ends, Opens
  <2>3. EndsOK'
    BY <1>5, <2>2 DEF EndsOK
  <2>4. \A q \in FtProcs : ftProc'[q].pc \notin Readers /\ ftProc'[q].pc \notin Writers
    BY <1>1, <1>3, <2>1 DEF Callers, HasEnd, Readers, Writers, OffPipe
  <2>5. Callers' /\ Sleepers'
    BY <2>4 DEF Callers, Sleepers, Readers, Writers
  <2>6. Bytes'
    <3>1. pipe'.head = 0 /\ pipe'.tail = 0
      BY <1>5 DEF EmptyPipe
    <3>2. Wrap(0) = 0 /\ 0 < PipeBuf
      BY FtAssumption DEF Wrap
    <3>3. pipeWrit' - pipeRead' = 0 /\ pipeRead' <= pipeWrit' /\ pipeRead' + 1 .. pipeWrit' = {}
      BY <1>5
    <3>4. pipe'.tail + (pipeWrit' - pipeRead') = 0
      BY <3>1, <3>3
    <3> QED
      BY <1>5, <3>1, <3>2, <3>3, <3>4 DEF Bytes
  <2> QED
    BY <1>1, <1>2, <1>5, <2>3, <2>5, <2>6 DEF PipeInv
<1> QED
  BY <1>2, <1>4, <1>5

\* read() and write() begin on an end that is open.
LEMMA PipeCalled ==
  ASSUME PipeInv, NEW p \in FtProcs, NEW fd \in FDs, NEW mode \in {1, 2}, NEW n \in 1 .. PipeAsk,
         PipeCall(p, fd, mode, n)
  PROVE  PipeInv'
<1>1. TableInv /\ EndsOK /\ Callers /\ Bytes /\ pipeBad = "none"
  BY DEF PipeInv
<1>2. TableInv' /\ EndsKept
  BY <1>1, PipeCallStep
<1>3. NoData /\ filp' = filp /\ InUser(p)
  BY DEF PipeCall, Tables
<1>4. HasEnd(p, mode)
  <2>1. PICK f : f = filp[p][fd]
    OBVIOUS
  <2>2. filp \in FilpType /\ fileTab \in TabType
    BY <1>1, Sizes
  <2>3. f \in Files /\ f \notin Reserved /\ fileTab[f].inode = "pipe" /\ fileTab[f].mode = mode
    BY <1>1, <1>3, <2>1, <2>2, InUserFree DEF PipeCall, FilpType
  <2>4. fileTab[f].count > 0
    <3>1. fileTab[f].count = Cardinality(UsersOf(filp, f))
      BY <1>1, <2>3, Counts DEF TableInv
    <3>2. <<p, fd>> \in UsersOf(filp, f)
      BY <2>1 DEF UsersOf
    <3>3. Cardinality(UsersOf(filp, f)) # 0 /\ Cardinality(UsersOf(filp, f)) \in Nat
      BY <3>2, Finite, FS_EmptySet
    <3> QED
      BY <3>1, <3>3
  <2>5. f \in Ends
    BY <2>3, <2>4 DEF Ends, Opens
  <2> QED
    BY <2>1, <2>3, <2>5 DEF HasEnd
<1>5. /\ \A q \in FtProcs : q # p => ftProc'[q] = ftProc[q]
      /\ ftProc'[p].pc = IF mode = 1 THEN "read" ELSE "write"
  <2>1. ftProc \in [FtProcs -> ProcType]
    BY <1>1, Sizes
  <2> QED
    BY <2>1 DEF PipeCall, ProcType
<1>6. \A q \in FtProcs : /\ filp'[q] = filp[q]
                         /\ ftProc'[q].pc \in Readers => HasEnd(q, 1)
                         /\ ftProc'[q].pc \in Writers => HasEnd(q, 2)
  BY <1>1, <1>3, <1>4, <1>5 DEF Callers, Readers, Writers
<1>7. EndsOK' /\ Callers'
  BY <1>1, <1>2, <1>6, EndsStay
<1>8. Bytes' /\ pipeBad' = "none"
  BY <1>1, <1>3, SameBytes DEF NoData
<1>9. Awake'
  BY <1>5 DEF Awake, InPipe
<1>10. Sleepers'
  BY <1>9 DEF Sleepers
<1> QED
  BY <1>2, <1>7, <1>8, <1>10 DEF PipeInv

\* A call that is done wakes all who sleep.
LEMMA PipeCallDone ==
  ASSUME PipeInv, NEW p \in FtProcs, ReadDone(p) \/ WriteDone(p)
  PROVE  PipeInv'
<1>1. TableInv /\ EndsOK /\ Callers /\ Bytes /\ pipeBad = "none"
  BY DEF PipeInv
<1>2. /\ ftProc[p].pc \in {"read", "write"} /\ Tables /\ NoData
      /\ ftProc' = [WakePipe(ftProc) EXCEPT ![p] = User]
  BY DEF ReadDone, WriteDone
<1>3. TableInv' /\ EndsKept
  BY <1>1, <1>2, CallEnds
<1>4. PICK w : w = WakePipe(ftProc)
  OBVIOUS
<1>5. /\ w \in [FtProcs -> ProcType]
      /\ \A q \in FtProcs : /\ w[q].pc \notin {"readSleep", "writeSleep"}
                            /\ w[q].pc \in Readers => ftProc[q].pc \in Readers
                            /\ w[q].pc \in Writers => ftProc[q].pc \in Writers
  BY <1>1, <1>4, WokenUp
<1>6. ftProc'[p] = User /\ \A q \in FtProcs : q # p => ftProc'[q] = w[q]
  BY <1>2, <1>4, <1>5
<1>7. User.pc = "user"
  BY UserOK
<1>8. \A q \in FtProcs : \/ ftProc'[q].pc \in OffPipe
                         \/ /\ filp'[q] = filp[q]
                            /\ ftProc'[q].pc \in Readers => HasEnd(q, 1)
                            /\ ftProc'[q].pc \in Writers => HasEnd(q, 2)
  BY <1>1, <1>2, <1>5, <1>6, <1>7 DEF Callers, Tables, OffPipe
<1>9. EndsOK' /\ Callers'
  BY <1>1, <1>3, <1>8, EndsStay
<1>10. Bytes' /\ pipeBad' = "none"
  BY <1>1, <1>2, SameBytes DEF NoData
<1>11. Sleepers'
  BY <1>5, <1>6, <1>7 DEF Sleepers
<1> QED
  BY <1>3, <1>9, <1>10, <1>11 DEF PipeInv

\* A reader that finds nothing, or a writer that finds no room, wakes all others; it sleeps
\* only if both ends are open, and a reader is told the end only if no writer is.
LEMMA PipeSleep ==
  ASSUME PipeInv, NEW p \in FtProcs, ReadEmpty(p) \/ WriteFull(p)
  PROVE  PipeInv'
<1>1. TableInv /\ EndsOK /\ Callers /\ Bytes /\ pipeBad = "none"
  BY DEF PipeInv
<1>2. TableInv' /\ EndsKept
  BY <1>1, SleepStep
<1>3. /\ Tables /\ UNCHANGED <<pipe, pipeWrit, pipeRead, pipeFault>>
      /\ ftProc[p].pc \in {"read", "write"}
      /\ ftProc[p].pc = "read" => PipeSize = 0
      /\ ftProc[p].pc = "write" => PipeRoom = 0
      /\ pipeBad' = pipeBad \/ (ftProc[p].pc = "read" /\ iCount["pipe"] # 2 /\ WriterOpen)
  <2>1. CASE ReadEmpty(p)
    BY <2>1 DEF ReadEmpty
  <2>2. CASE WriteFull(p)
    BY <2>2 DEF WriteFull, NoData
  <2> QED
    BY <2>1, <2>2
<1>4. PICK w : w = WakePipe(ftProc)
  OBVIOUS
<1>5. /\ w \in [FtProcs -> ProcType]
      /\ \A q \in FtProcs : /\ w[q].pc \notin {"readSleep", "writeSleep"}
                            /\ w[q].pc \in Readers => ftProc[q].pc \in Readers
                            /\ w[q].pc \in Writers => ftProc[q].pc \in Writers
  BY <1>1, <1>4, WokenUp
<1>6. PICK c : /\ ftProc' = [w EXCEPT ![p] = c]
               /\ \/ c.pc = "user"
                  \/ /\ iCount["pipe"] = 2
                     /\ c.pc = IF ftProc[p].pc = "read" THEN "readSleep" ELSE "writeSleep"
  <2>1. PICK s : s = IF ftProc[p].pc = "read" THEN "readSleep" ELSE "writeSleep"
    OBVIOUS
  <2>2. PICK d : d = [ftProc[p] EXCEPT !.pc = s]
    OBVIOUS
  <2>3. d.pc = s /\ User.pc = "user"
    <3>1. ftProc[p] \in ProcType
      BY <1>1, Sizes
    <3> QED
      BY <2>2, <3>1, UserOK DEF ProcType
  <2>4. ftProc' = [w EXCEPT ![p] = IF iCount["pipe"] # 2 THEN User ELSE d]
    BY <1>4, <2>1, <2>2 DEF ReadEmpty, WriteFull
  <2> QED
    BY <2>1, <2>3, <2>4
<1>7. ftProc'[p] = c /\ \A q \in FtProcs : q # p => ftProc'[q] = w[q]
  BY <1>5, <1>6
<1>8. \A q \in FtProcs : \/ ftProc'[q].pc \in OffPipe
                         \/ /\ filp'[q] = filp[q]
                            /\ ftProc'[q].pc \in Readers => HasEnd(q, 1)
                            /\ ftProc'[q].pc \in Writers => HasEnd(q, 2)
  BY <1>1, <1>3, <1>5, <1>6, <1>7 DEF Callers, Tables, OffPipe, Readers, Writers
<1>9. /\ EndsOK' /\ Callers' /\ (WriterOpen' <=> WriterOpen)
      /\ iCount'["pipe"] = iCount["pipe"]
  BY <1>1, <1>2, <1>8, EndsStay
<1>10. Bytes' /\ PipeSize' = PipeSize
  BY <1>1, <1>3, SameBytes
<1>11. iCount["pipe"] = 2 <=> (\E f \in Ends : fileTab[f].mode = 1) /\ WriterOpen
  BY <1>1, TwoEnds
<1>12. pipeBad' = "none"
  <2>1. ftProc[p].pc = "read" => \E f \in Ends : fileTab[f].mode = 1
    BY <1>1 DEF Callers, HasEnd, Readers
  <2> QED
    BY <1>1, <1>3, <1>11, <2>1
<1>13. PipeRoom = 0 => PipeSize = PipeBuf - 1
  BY <1>1, Sizes, FtAssumption DEF PipeRoom
<1>14. Sleepers'
  BY <1>3, <1>5, <1>6, <1>7, <1>9, <1>10, <1>11, <1>13 DEF Sleepers
<1> QED
  BY <1>2, <1>9, <1>10, <1>12, <1>14 DEF PipeInv

\* A call that goes on is awake, and has its end open as before.
LEMMA PipeGoesOn ==
  ASSUME TableInv, EndsOK, Callers, TableInv', EndsKept, Tables,
         NEW p \in FtProcs, \A q \in FtProcs : q # p => ftProc'[q] = ftProc[q],
         \/ ftProc[p].pc \in Readers /\ ftProc'[p].pc \in {"read", "readCopy"}
         \/ ftProc[p].pc \in Writers /\ ftProc'[p].pc \in {"write", "writeCopy"}
  PROVE  EndsOK' /\ Callers' /\ Sleepers'
<1>1. \A q \in FtProcs : \/ ftProc'[q].pc \in OffPipe
                         \/ /\ filp'[q] = filp[q]
                            /\ ftProc'[q].pc \in Readers => HasEnd(q, 1)
                            /\ ftProc'[q].pc \in Writers => HasEnd(q, 2)
  BY DEF Callers, Tables, Readers, Writers
<1>2. EndsOK' /\ Callers'
  BY <1>1, EndsStay
<1>3. Awake'
  BY DEF Awake, InPipe
<1> QED
  BY <1>2, <1>3 DEF Sleepers

\* A copy that slept is done.
LEMMA PipeCopied ==
  ASSUME PipeInv, NEW p \in FtProcs, CopyDone(p)
  PROVE  PipeInv'
<1>1. TableInv /\ EndsOK /\ Callers /\ Bytes /\ pipeBad = "none"
  BY DEF PipeInv
<1>2. TableInv' /\ EndsKept
  BY <1>1, CopyStep
<1>3. Tables /\ NoData
  BY DEF CopyDone
<1>4. /\ \A q \in FtProcs : q # p => ftProc'[q] = ftProc[q]
      /\ \/ ftProc[p].pc \in Readers /\ ftProc'[p].pc \in {"read", "readCopy"}
         \/ ftProc[p].pc \in Writers /\ ftProc'[p].pc \in {"write", "writeCopy"}
  <2>1. ftProc \in [FtProcs -> ProcType]
    BY <1>1, Sizes
  <2> QED
    BY <2>1 DEF CopyDone, ProcType, Readers, Writers
<1>5. EndsOK' /\ Callers' /\ Sleepers'
  BY <1>1, <1>2, <1>3, <1>4, PipeGoesOn
<1>6. Bytes' /\ pipeBad' = "none"
  BY <1>1, <1>3, SameBytes DEF NoData
<1> QED
  BY <1>2, <1>5, <1>6 DEF PipeInv

AfterRead(t, r, w, chars) ==
  /\ (t + chars) % PipeBuf = Wrap(t + chars)
  /\ r + chars \in Nat /\ r + chars <= w /\ w - (r + chars) < PipeBuf
  /\ \A n \in Int : r + chars <= n /\ n <= w =>
       Wrap(Wrap(t + chars) + (n - (r + chars))) = Wrap(t + (n - r))

\* Where the bytes are after a chunk was read.
LEMMA BytesRead ==
  ASSUME NEW t \in 0 .. PipeBuf - 1, NEW r \in Nat, NEW w \in Nat, r <= w, w - r < PipeBuf,
         NEW chars \in Nat, chars <= PipeBuf - t, chars <= w - r
  PROVE  AfterRead(t, r, w, chars)
<1>1. PipeBuf \in Nat /\ PipeBuf > 0
  BY FtAssumption
<1>2. (t + chars) % PipeBuf = Wrap(t + chars)
  <2>1. PICK x \in Nat : x = t + chars /\ x < 2 * PipeBuf
    BY <1>1
  <2> QED
    BY <2>1, WrapMod
<1>3. \A n \in Int : r + chars <= n /\ n <= w =>
        Wrap(Wrap(t + chars) + (n - (r + chars))) = Wrap(t + (n - r))
  BY <1>1 DEF Wrap
<1> QED
  BY <1>1, <1>2, <1>3 DEF AfterRead

\* A reader takes the oldest bytes, in order, unless a copy has slept.
LEMMA PipeReadChunk ==
  ASSUME PipeInv, NEW p \in FtProcs, ReadChunk(p)
  PROVE  PipeInv'
<1>1. TableInv /\ EndsOK /\ Callers /\ Bytes /\ pipeBad = "none"
  BY DEF PipeInv
<1>2. TableInv' /\ EndsKept
  BY <1>1, ReadChunkStep
<1>3. ftProc[p].pc = "read" /\ ftProc[p].left > 0 /\ PipeSize > 0 /\ Tables /\ pipeWrit' = pipeWrit
  BY DEF ReadChunk
<1>4. PICK chars : chars = Lowest({PipeBuf - pipe.tail, ftProc[p].left, PipeSize})
  OBVIOUS
<1>5. PICK t \in 0 .. PipeBuf - 1 : t = pipe.tail
  BY <1>1, Sizes
<1>6. PICK r \in Nat, w \in Nat : r = pipeRead /\ w = pipeWrit /\ r <= w /\ w - r < PipeBuf
  BY <1>1, Sizes DEF Bytes
<1>7. PICK o \in ProcType : o = ftProc[p] /\ o.left \in Nat /\ o.left > 0
  <2>1. ftProc[p] \in ProcType
    BY <1>1, Sizes
  <2>2. ftProc[p].left \in Nat
    BY <2>1 DEF ProcType
  <2> QED
    BY <1>3, <2>1, <2>2
<1>8. chars \in Nat /\ chars > 0 /\ chars <= PipeBuf - t /\ chars <= w - r
  <2>1. PICK size \in 0 .. PipeBuf - 1 : size = PipeSize /\ size = w - r /\ size > 0
    BY <1>1, <1>3, <1>6, Sizes, SizeIs
  <2>2. chars = Lowest({PipeBuf - t, o.left, size})
    BY <1>4, <1>5, <1>7, <2>1
  <2>3. chars \in Nat /\ chars > 0 /\ chars <= PipeBuf - t /\ chars <= size
    BY <1>7, <2>1, <2>2, ChunkLength
  <2> QED
    BY <2>1, <2>3
<1>9. /\ (t + chars) % PipeBuf = Wrap(t + chars)
      /\ r + chars \in Nat /\ r + chars <= w /\ w - (r + chars) < PipeBuf
      /\ \A n \in Int : r + chars <= n /\ n <= w =>
           Wrap(Wrap(t + chars) + (n - (r + chars))) = Wrap(t + (n - r))
  <2>1. /\ t \in 0 .. PipeBuf - 1 /\ r \in Nat /\ w \in Nat /\ r <= w /\ w - r < PipeBuf
        /\ chars \in Nat /\ chars <= PipeBuf - t /\ chars <= w - r
    BY <1>5, <1>6, <1>8
  <2>2. AfterRead(t, r, w, chars)
    BY <2>1, BytesRead
  <2> QED
    BY <2>2 DEF AfterRead
<1>10. PICK u : u = Wrap(t + chars)
  OBVIOUS
<1>11. pipe'.tail = u /\ pipe'.head = pipe.head /\ pipe'.buf = pipe.buf /\ pipeRead' = r + chars
  <2>1. pipe' = [pipe EXCEPT !.tail = (pipe.tail + chars) % PipeBuf] /\ pipeRead' = pipeRead + chars
    BY <1>4 DEF ReadChunk
  <2>2. pipe' = [pipe EXCEPT !.tail = u]
    BY <1>5, <1>9, <1>10, <2>1
  <2>3. pipe \in PipeType
    BY <1>1, Sizes
  <2>4. pipe'.tail = u /\ pipe'.head = pipe.head /\ pipe'.buf = pipe.buf
    BY <2>2, <2>3 DEF PipeType
  <2> QED
    BY <1>6, <2>1, <2>4
<1>12. pipeFault' \in BOOLEAN /\ (~pipeFault' => ~pipeFault)
  BY <1>1 DEF ReadChunk, Bytes
<1>13. ~pipeFault => \A n \in r + 1 .. w : pipe.buf[Wrap(t + (n - r - 1))] = n
  BY <1>1, <1>5, <1>6 DEF Bytes
<1>14. pipe.head = Wrap(t + (w - r))
  BY <1>1, <1>5, <1>6 DEF Bytes
<1>15. Bytes'
  <2>1. pipe'.head = Wrap(u + (w - (r + chars)))
    BY <1>6, <1>9, <1>10, <1>11, <1>14
  <2>2. ASSUME ~pipeFault', NEW n \in r + chars + 1 .. w
        PROVE  pipe'.buf[Wrap(u + (n - (r + chars) - 1))] = n
    <3>1. PICK m \in Int : m = n - 1
      BY <1>6, <1>8
    <3>2. Wrap(u + (m - (r + chars))) = Wrap(t + (m - r))
      <4>1. r + chars <= m /\ m <= w
        BY <1>6, <1>8, <2>2, <3>1
      <4> QED
        BY <4>1, <1>9, <1>10
    <3>3. n \in r + 1 .. w
      BY <1>6, <1>8, <2>2
    <3>4. pipe.buf[Wrap(t + (n - r - 1))] = n
      BY <1>12, <1>13, <2>2, <3>3
    <3>5. n - r - 1 = m - r /\ n - (r + chars) - 1 = m - (r + chars)
      BY <1>6, <1>8, <3>1, <3>3
    <3> QED
      BY <1>11, <3>2, <3>4, <3>5
  <2>3. pipeWrit' = w
    BY <1>3, <1>6
  <2> QED
    BY <1>9, <1>11, <1>12, <2>1, <2>2, <2>3 DEF Bytes
<1>16. pipeBad' = "none"
  <2>1. ASSUME ~pipeFault PROVE InOrder(Chunk(pipe.tail, chars))
    <3>1. ASSUME NEW k \in 1 .. chars PROVE pipe.buf[t + k - 1] = r + k
      <4>1. PICK n \in r + 1 .. w : n = r + k
        BY <1>6, <1>8
      <4>2. t + (n - r - 1) = t + k - 1 /\ t + k - 1 < PipeBuf
        BY <1>5, <1>6, <1>8, <4>1, FtAssumption
      <4>3. Wrap(t + (n - r - 1)) = t + k - 1
        BY <4>2 DEF Wrap
      <4> QED
        BY <1>13, <2>1, <4>1, <4>3
    <3> QED
      BY <1>5, <1>6, <3>1 DEF InOrder, Chunk
  <2>2. \/ pipeBad' = pipeBad
        \/ ~pipeFault /\ ~InOrder(Chunk(pipe.tail, chars))
    BY <1>4 DEF ReadChunk
  <2> QED
    BY <1>1, <2>1, <2>2
<1>17. /\ \A q \in FtProcs : q # p => ftProc'[q] = ftProc[q]
       /\ ftProc[p].pc \in Readers /\ ftProc'[p].pc \in {"read", "readCopy"}
  <2>1. ftProc \in [FtProcs -> ProcType]
    BY <1>1, Sizes
  <2>2. PICK q : q = [ftProc[p] EXCEPT !.left = @ - chars]
    OBVIOUS
  <2>3. PICK d : d = [q EXCEPT !.pc = "readCopy"]
    OBVIOUS
  <2>4. q.pc = "read" /\ d.pc = "readCopy"
    BY <1>3, <2>1, <2>2, <2>3 DEF ProcType
  <2>5. ftProc' = [ftProc EXCEPT ![p] = q] \/ ftProc' = [ftProc EXCEPT ![p] = d]
    BY <1>4, <2>2, <2>3 DEF ReadChunk
  <2> QED
    BY <1>3, <2>1, <2>4, <2>5 DEF Readers
<1>18. EndsOK' /\ Callers' /\ Sleepers'
  BY <1>1, <1>2, <1>3, <1>17, PipeGoesOn
<1> QED
  BY <1>2, <1>15, <1>16, <1>18 DEF PipeInv

AfterWrite(t, h, r, w, chars) ==
  /\ (h + chars) % PipeBuf = Wrap(t + (w + chars - r))
  /\ w + chars \in Nat /\ r <= w + chars /\ (w + chars) - r < PipeBuf
  /\ \A n \in r + 1 .. w : ~(Wrap(t + (n - r - 1)) >= h /\ Wrap(t + (n - r - 1)) < h + chars)
                           /\ Wrap(t + (n - r - 1)) \in 0 .. PipeBuf - 1
  /\ \A n \in w + 1 .. w + chars : Wrap(t + (n - r - 1)) = h + (n - w - 1)

\* Where the bytes are after a chunk was written.
LEMMA BytesWritten ==
  ASSUME NEW t \in 0 .. PipeBuf - 1, NEW r \in Nat, NEW w \in Nat, r <= w, w - r < PipeBuf,
         NEW h, h = Wrap(t + (w - r)),
         NEW chars \in Nat, chars > 0, chars <= PipeBuf - h, chars <= PipeBuf - 1 - (w - r)
  PROVE  AfterWrite(t, h, r, w, chars)
<1>1. PipeBuf \in Nat /\ PipeBuf > 0
  BY FtAssumption
<1>2. h \in 0 .. PipeBuf - 1
  BY <1>1 DEF Wrap
<1>3. (h + chars) % PipeBuf = Wrap(h + chars)
  <2>1. PICK x \in Nat : x = h + chars /\ x < 2 * PipeBuf
    BY <1>1, <1>2
  <2> QED
    BY <2>1, WrapMod
<1>4. Wrap(h + chars) = Wrap(t + (w + chars - r))
  BY <1>1, <1>2 DEF Wrap
<1>5. ASSUME NEW n \in r + 1 .. w
      PROVE  /\ ~(Wrap(t + (n - r - 1)) >= h /\ Wrap(t + (n - r - 1)) < h + chars)
             /\ Wrap(t + (n - r - 1)) \in 0 .. PipeBuf - 1
  BY <1>1, <1>2 DEF Wrap
<1>6. ASSUME NEW n \in w + 1 .. w + chars PROVE Wrap(t + (n - r - 1)) = h + (n - w - 1)
  BY <1>1, <1>2 DEF Wrap
<1> QED
  BY <1>1, <1>3, <1>4, <1>5, <1>6 DEF AfterWrite

\* A writer adds its bytes behind those that are there, and overwrites none of them.
LEMMA PipeWriteChunk ==
  ASSUME PipeInv, NEW p \in FtProcs, WriteChunk(p)
  PROVE  PipeInv'
<1>1. TableInv /\ EndsOK /\ Callers /\ Bytes /\ pipeBad = "none"
  BY DEF PipeInv
<1>2. TableInv' /\ EndsKept
  BY <1>1, WriteChunkStep
<1>3. /\ ftProc[p].pc = "write" /\ ftProc[p].left > 0 /\ PipeRoom > 0 /\ Tables
      /\ pipeRead' = pipeRead /\ pipeBad' = "none"
  BY <1>1 DEF WriteChunk
<1>4. PICK chars : chars = Lowest({PipeBuf - pipe.head, ftProc[p].left, PipeRoom})
  OBVIOUS
<1>5. PICK t \in 0 .. PipeBuf - 1, h \in 0 .. PipeBuf - 1 : t = pipe.tail /\ h = pipe.head
  BY <1>1, Sizes
<1>6. PICK r \in Nat, w \in Nat : r = pipeRead /\ w = pipeWrit /\ r <= w /\ w - r < PipeBuf
  BY <1>1, Sizes DEF Bytes
<1>7. PICK o \in ProcType : o = ftProc[p] /\ o.left \in Nat /\ o.left > 0
  <2>1. ftProc[p] \in ProcType
    BY <1>1, Sizes
  <2>2. ftProc[p].left \in Nat
    BY <2>1 DEF ProcType
  <2> QED
    BY <1>3, <2>1, <2>2
<1>8. chars \in Nat /\ chars > 0 /\ chars <= PipeBuf - h /\ chars <= PipeBuf - 1 - (w - r)
  <2>1. PICK room \in 0 .. PipeBuf - 1 : room = PipeRoom /\ room = PipeBuf - 1 - (w - r) /\ room > 0
    <3>1. PipeSize = w - r
      BY <1>1, <1>6, SizeIs
    <3> QED
      BY <1>1, <1>3, <3>1, Sizes DEF PipeRoom
  <2>2. chars = Lowest({PipeBuf - h, o.left, room})
    BY <1>4, <1>5, <1>7, <2>1
  <2>3. chars \in Nat /\ chars > 0 /\ chars <= PipeBuf - h /\ chars <= room
    BY <1>7, <2>1, <2>2, ChunkLength
  <2> QED
    BY <2>1, <2>3
<1>9. h = Wrap(t + (w - r))
  BY <1>1, <1>5, <1>6 DEF Bytes
<1>10. /\ (h + chars) % PipeBuf = Wrap(t + (w + chars - r))
       /\ w + chars \in Nat /\ r <= w + chars /\ (w + chars) - r < PipeBuf
       /\ \A n \in r + 1 .. w : ~(Wrap(t + (n - r - 1)) >= h /\ Wrap(t + (n - r - 1)) < h + chars)
                                /\ Wrap(t + (n - r - 1)) \in 0 .. PipeBuf - 1
       /\ \A n \in w + 1 .. w + chars : Wrap(t + (n - r - 1)) = h + (n - w - 1)
  <2>1. /\ t \in 0 .. PipeBuf - 1 /\ r \in Nat /\ w \in Nat /\ r <= w /\ w - r < PipeBuf
        /\ h = Wrap(t + (w - r))
        /\ chars \in Nat /\ chars > 0 /\ chars <= PipeBuf - h /\ chars <= PipeBuf - 1 - (w - r)
    BY <1>5, <1>6, <1>8, <1>9
  <2>2. AfterWrite(t, h, r, w, chars)
    BY <2>1, BytesWritten
  <2> QED
    BY <2>2 DEF AfterWrite
<1>11. PICK g : g = Wrap(t + (w + chars - r))
  OBVIOUS
<1>12. PICK moved : moved = [pipe EXCEPT !.head = g]
  OBVIOUS
<1>13. /\ moved.head = g /\ moved.tail = t /\ moved.buf = pipe.buf
       /\ DOMAIN moved = {"head", "tail", "buf"} /\ DOMAIN pipe.buf = 0 .. PipeBuf - 1
  <2>1. pipe \in PipeType
    BY <1>1, Sizes
  <2> QED
    BY <1>5, <1>12, <2>1 DEF PipeType
<1>14. PICK filled : filled = [k \in 0 .. PipeBuf - 1 |-> IF k >= h /\ k < h + chars
                                                            THEN w + 1 + k - h ELSE pipe.buf[k]]
  OBVIOUS
<1>15. /\ pipeWrit' = w + chars
       /\ \/ pipe' = [moved EXCEPT !.buf = filled] /\ pipeFault' = pipeFault
          \/ pipe' = moved /\ pipeFault' = TRUE
  <2>1. moved = [pipe EXCEPT !.head = (pipe.head + chars) % PipeBuf]
    BY <1>5, <1>10, <1>11, <1>12
  <2>2. filled = [k \in DOMAIN moved.buf |-> IF k >= pipe.head /\ k < pipe.head + chars
                                               THEN pipeWrit + 1 + k - pipe.head ELSE moved.buf[k]]
    BY <1>5, <1>6, <1>13, <1>14
  <2> QED
    BY <1>4, <1>6, <2>1, <2>2 DEF WriteChunk
<1>16. pipe'.head = g /\ pipe'.tail = t
  BY <1>13, <1>15
<1>17. pipeFault' \in BOOLEAN /\ (~pipeFault' => ~pipeFault /\ pipe'.buf = filled)
  <2>1. pipeFault \in BOOLEAN
    BY <1>1 DEF Bytes
  <2>2. pipe' = [moved EXCEPT !.buf = filled] => pipe'.buf = filled
    BY <1>13
  <2>3. CASE pipe' = [moved EXCEPT !.buf = filled] /\ pipeFault' = pipeFault
    <3>1. pipe'.buf = filled
      BY <2>2, <2>3
    <3> QED
      BY <2>1, <2>3, <3>1, Zenon
  <2>4. CASE pipe' = moved /\ pipeFault' = TRUE
    BY <2>4, Zenon
  <2> QED
    BY <1>15, <2>3, <2>4, Zenon
<1>18. ASSUME ~pipeFault', NEW n \in r + 1 .. w + chars
       PROVE  pipe'.buf[Wrap(t + (n - r - 1))] = n
  <2>1. PICK k : k = Wrap(t + (n - r - 1))
    OBVIOUS
  <2>2. CASE n <= w
    <3>1. n \in r + 1 .. w
      BY <1>6, <1>8, <2>2
    <3>2. k \in 0 .. PipeBuf - 1 /\ ~(k >= h /\ k < h + chars)
      BY <1>10, <2>1, <3>1
    <3>3. filled[k] = pipe.buf[k]
      BY <1>14, <3>2
    <3>4. pipe.buf[k] = n
      <4>1. ~pipeFault
        BY <1>17, <1>18
      <4> QED
        BY <1>1, <1>5, <1>6, <2>1, <3>1, <4>1 DEF Bytes
    <3> QED
      BY <1>17, <1>18, <2>1, <3>3, <3>4
  <2>3. CASE n > w
    <3>1. n \in w + 1 .. w + chars
      BY <1>6, <1>8, <2>3
    <3>2. k = h + (n - w - 1)
      BY <1>10, <2>1, <3>1
    <3>3. k \in 0 .. PipeBuf - 1 /\ k >= h /\ k < h + chars /\ w + 1 + k - h = n
      BY <1>6, <1>8, <3>1, <3>2, FtAssumption
    <3>4. filled[k] = n
      BY <1>14, <3>3
    <3> QED
      BY <1>17, <1>18, <2>1, <3>4
  <2> QED
    BY <1>6, <1>8, <2>2, <2>3
<1>19. Bytes'
  <2>1. pipe'.head = Wrap(t + ((w + chars) - r))
    BY <1>6, <1>8, <1>11, <1>16
  <2>2. pipeRead' = r
    BY <1>3, <1>6
  <2> QED
    BY <1>10, <1>15, <1>16, <1>17, <1>18, <2>1, <2>2 DEF Bytes
<1>20. /\ \A q \in FtProcs : q # p => ftProc'[q] = ftProc[q]
       /\ ftProc[p].pc \in Writers /\ ftProc'[p].pc \in {"write", "writeCopy"}
  <2>1. ftProc \in [FtProcs -> ProcType]
    BY <1>1, Sizes
  <2>2. PICK q : q = [ftProc[p] EXCEPT !.left = @ - chars]
    OBVIOUS
  <2>3. PICK d : d = [q EXCEPT !.pc = "writeCopy"]
    OBVIOUS
  <2>4. q.pc = "write" /\ d.pc = "writeCopy"
    BY <1>3, <2>1, <2>2, <2>3 DEF ProcType
  <2>5. ftProc' = [ftProc EXCEPT ![p] = q] \/ ftProc' = [ftProc EXCEPT ![p] = d]
    BY <1>4, <2>2, <2>3 DEF WriteChunk
  <2> QED
    BY <1>3, <2>1, <2>4, <2>5 DEF Writers
<1>21. EndsOK' /\ Callers' /\ Sleepers'
  BY <1>1, <1>2, <1>3, <1>20, PipeGoesOn
<1> QED
  BY <1>2, <1>3, <1>19, <1>21 DEF PipeInv

-----------------------------------------------------------------------------
(* The theorems *)

\* At the start one process exists and nothing is open.
LEMMA TableStart ==
  ASSUME FtInit
  PROVE  TableInv
<1>1. User \in ProcType /\ User.fds = <<>> /\ User.pc = "user"
  BY UserOK
<1>2. Unborn \in ProcType /\ Unborn.fds = <<>> /\ Unborn.pc = "unborn"
  BY <1>1 DEF Unborn, ProcType, Calls
<1>3. ftProc \in [FtProcs -> ProcType] /\ \A p \in FtProcs : ftProc[p] = User \/ ftProc[p] = Unborn
  BY <1>1, <1>2 DEF FtInit
<1>4. \A p \in FtProcs : CallOK(ftProc[p])
  BY <1>1, <1>2, <1>3 DEF CallOK
<1>5. \A p \in FtProcs : Pending(ftProc[p]) = {}
  BY <1>1, <1>2, <1>3, <1>4, NothingReserved
<1>6. /\ filp \in FilpType /\ \A p \in FtProcs : \A fd \in FDs : filp[p][fd] = NoFile
  BY DEF FtInit, FilpType
<1>7. /\ fileTab \in TabType /\ \A f \in Files : fileTab[f].count = 0
  <2>1. PICK c : c = [count |-> 0, inode |-> "file", mode |-> 0]
    OBVIOUS
  <2>2. c \in FileType /\ c.count = 0
    BY <2>1 DEF FileType, FtInodes
  <2> QED
    BY <2>1, <2>2 DEF FtInit, TabType
<1>8. EmptyPipe \in PipeType
  BY FtAssumption DEF EmptyPipe, PipeType
<1>9. Types
  BY <1>3, <1>6, <1>7, <1>8 DEF FtInit, Types
<1>10. ASSUME NEW f \in Files PROVE UsersOf(filp, f) = {}
  BY <1>6, Finite DEF UsersOf
<1>11. ASSUME NEW i \in FtInodes PROVE Opens(fileTab, Reserved, i) = {}
  BY <1>7 DEF Opens
<1>12. FileCountsExact
  <2>1. Cardinality({}) = 0
    BY FS_EmptySet
  <2>2. \A i \in FtInodes : iCount[i] = 0
    BY DEF FtInit
  <2> QED
    BY <2>1, <2>2, <1>7, <1>10, <1>11, Counts
<1> QED
  BY <1>4, <1>5, <1>6, <1>9, <1>12 DEF TableInv, Exclusive, Unborns

\* Every step keeps the tables in order.
LEMMA TableNext ==
  ASSUME TableInv, [FtNext]_ftVars
  PROVE  TableInv'
<1>1. CASE UNCHANGED ftVars
  <2>1. UNCHANGED <<filp, fileTab, iCount, ftProc, pipe, pipeWrit, pipeRead>>
    BY <1>1 DEF ftVars
  <2>2. Types'
    BY <2>1 DEF TableInv, Types
  <2> QED
    BY <2>1, <2>2, PipeStep DEF Tables
<1>2. ASSUME NEW p \in FtProcs, NEW fd \in FDs,
             SysClose(p, fd) \/ (\E arg \in FDs : DupFd(p, fd, arg))
             \/ \E mode \in {1, 2}, n \in 1 .. PipeAsk : PipeCall(p, fd, mode, n)
      PROVE  TableInv'
  BY <1>2, CloseStep, DupStep, PipeCallStep
<1>3. ASSUME NEW p \in FtProcs,
             OpenReserve(p) \/ OpenEnds(p) \/ PipeReserve(p) \/ PipeEnds(p)
             \/ \E child \in FtProcs : Fork(p, child)
      PROVE  TableInv'
  BY <1>3, OpenReserveStep, OpenEndsStep, PipeReserveStep, PipeEndsStep, ForkStep
<1>4. ASSUME NEW p \in FtProcs, ReadDone(p) \/ WriteDone(p) PROVE TableInv'
  BY <1>4, CallEnds DEF ReadDone, WriteDone
<1>5. ASSUME NEW p \in FtProcs,
             ReadEmpty(p) \/ ReadChunk(p) \/ WriteFull(p) \/ WriteChunk(p) \/ CopyDone(p)
      PROVE  TableInv'
  BY <1>5, SleepStep, ReadChunkStep, WriteChunkStep, CopyStep
<1> QED
  BY <1>1, <1>2, <1>3, <1>4, <1>5 DEF FtNext

\* At the start nobody has the pipe open.
LEMMA PipeStart ==
  ASSUME FtInit
  PROVE  PipeInv
<1>1. TableInv
  BY TableStart
<1>2. \A p \in FtProcs : ftProc[p].pc \in OffPipe
  <2>1. User.pc = "user" /\ User \in ProcType
    BY UserOK
  <2>2. Unborn.pc = "unborn"
    BY <2>1 DEF Unborn, ProcType
  <2> QED
    BY <2>1, <2>2 DEF FtInit, OffPipe
<1>3. Callers /\ Sleepers
  BY <1>2 DEF Callers, Sleepers, Readers, Writers, OffPipe
<1>4. EndsOK
  <2>1. \A f \in Files : fileTab[f].count = 0
    BY DEF FtInit
  <2>2. Ends = {}
    BY <2>1 DEF Ends, Opens
  <2> QED
    BY <2>2 DEF EndsOK
<1>5. Bytes
  <2>1. pipe.head = 0 /\ pipe.tail = 0 /\ pipeWrit = 0 /\ pipeRead = 0 /\ pipeFault = FALSE
    BY DEF FtInit, EmptyPipe
  <2>2. Wrap(0) = 0 /\ 0 < PipeBuf
    BY FtAssumption DEF Wrap
  <2>3. pipe.tail + (pipeWrit - pipeRead) = 0 /\ pipeRead + 1 .. pipeWrit = {}
    BY <2>1
  <2>4. pipeRead <= pipeWrit /\ pipeWrit - pipeRead < PipeBuf
    BY <2>1, <2>2
  <2>5. pipe.head = Wrap(pipe.tail + (pipeWrit - pipeRead))
    BY <2>1, <2>2, <2>3
  <2>6. pipeFault \in BOOLEAN
    BY <2>1, Zenon
  <2> QED
    BY <2>3, <2>4, <2>5, <2>6 DEF Bytes
<1> QED
  BY <1>1, <1>3, <1>4, <1>5 DEF PipeInv, FtInit

\* Every step keeps the pipe in order.
LEMMA PipeNext ==
  ASSUME PipeInv, [FtNext]_ftVars
  PROVE  PipeInv'
<1>1. CASE UNCHANGED ftVars
  <2>1. UNCHANGED <<filp, ftProc, fileTab>> /\ NoData
    BY <1>1 DEF ftVars, NoData
  <2>2. TableInv'
    BY TableNext DEF PipeInv
  <2>3. EndsKept
    <3>1. Reserved' = Reserved
      BY <2>1 DEF Reserved
    <3> QED
      BY <2>1, <3>1 DEF EndsKept
  <2> QED
    BY <2>1, <2>2, <2>3, PipeUntouched
<1>2. ASSUME NEW p \in FtProcs, NEW fd \in FDs,
             SysClose(p, fd) \/ (\E arg \in FDs : DupFd(p, fd, arg))
             \/ \E mode \in {1, 2}, n \in 1 .. PipeAsk : PipeCall(p, fd, mode, n)
      PROVE  PipeInv'
  BY <1>2, PipeClose, PipeQuiet, PipeCalled
<1>3. ASSUME NEW p \in FtProcs,
             OpenReserve(p) \/ OpenEnds(p) \/ PipeReserve(p) \/ PipeEnds(p)
             \/ \E child \in FtProcs : Fork(p, child)
      PROVE  PipeInv'
  BY <1>3, PipeQuiet, PipeBegins, PipeFork
<1>4. ASSUME NEW p \in FtProcs,
             \/ ReadEmpty(p) \/ ReadChunk(p) \/ ReadDone(p)
             \/ WriteFull(p) \/ WriteChunk(p) \/ WriteDone(p) \/ CopyDone(p)
      PROVE  PipeInv'
  BY <1>4, PipeSleep, PipeReadChunk, PipeCallDone, PipeWriteChunk, PipeCopied
<1> QED
  BY <1>1, <1>2, <1>3, <1>4 DEF FtNext

\* TableInv is an invariant.
LEMMA TablesHold == FtSpec => []TableInv
<1>1. FtInit => TableInv
  BY TableStart
<1>2. TableInv /\ [FtNext]_ftVars => TableInv'
  BY TableNext
<1> QED
  BY <1>1, <1>2, PTL DEF FtSpec

\* The descriptors, the file table, the pipe and the calls always have their types: the
\* pipe's head and tail stay in its page, and no call leaves its states.
THEOREM FtTypesHold == FtSpec => []FtTypeOK
<1>1. ASSUME TableInv PROVE FtTypeOK
  <2>1. /\ pipe.head \in 0 .. PipeBuf - 1 /\ pipe.tail \in 0 .. PipeBuf - 1
        /\ ftProc \in [FtProcs -> ProcType]
        /\ filp \in FilpType /\ fileTab \in TabType /\ iCount \in [FtInodes -> Nat]
    BY <1>1, Sizes
  <2>2. \A p \in FtProcs : ftProc[p].pc \in Calls
    BY <2>1 DEF ProcType
  <2> QED
    BY <2>1, <2>2 DEF FtTypeOK, FilpType, TabType, FileType, Calls
<1> QED
  BY <1>1, TablesHold, PTL

\* f_count is the number of descriptors that name the file, and i_count the number of
\* open files of the inode, through open(), pipe(), dup(), fork(), close() and calls that
\* fail after they have slept: for any number of processes, descriptors and files.
THEOREM FilesAreCounted == FtSpec => []FileCountsExact
<1>1. TableInv => FileCountsExact
  BY DEF TableInv
<1> QED
  BY <1>1, TablesHold, PTL

\* A pipe gives its bytes in order, each once, as long as no copy sleeps, and no end of
\* file while a writer is open; and nobody sleeps on it that should go on, unless somebody
\* in a call is still to wake it: for any number of readers and writers and any size.
THEOREM PipesDeliver == FtSpec => []PipeDelivers
<1>1. FtInit => PipeInv
  BY PipeStart
<1>2. PipeInv /\ [FtNext]_ftVars => PipeInv'
  BY PipeNext
<1>3. ASSUME PipeInv PROVE PipeDelivers
  <2>1. TableInv /\ Bytes /\ Sleepers /\ pipeBad = "none"
    BY <1>3 DEF PipeInv
  <2>2. PipeSize = pipeWrit - pipeRead
    BY <2>1, SizeIs
  <2> QED
    BY <2>1, <2>2 DEF PipeDelivers, Sleepers, Awake
<1> QED
  BY <1>1, <1>2, <1>3, PTL DEF FtSpec

-----------------------------------------------------------------------------
(* The table of inodes *)

SlotType == [num : 0 .. INODES_PER_BLOCK, count : 0 .. 2 * Cardinality(InProcs), lock : BOOLEAN,
             dirt : BOOLEAN, wait : SUBSET InProcs, data : Datum]
Pcs == {"user", "empty", "search", "reading", "writing", "put", "truncating", "sync"}
Ops == {"none", "get", "new", "put", "sync"}
CallType == [pc : Pcs, op : Ops, slot : 0 .. NR_INODE + 1,
             empty : 0 .. NR_INODE, nr : 0 .. INODES_PER_BLOCK, hold : 0 .. NR_INODE,
             asleep : BOOLEAN]

InTypes ==
  /\ table \in [Slots -> SlotType] /\ inProc \in [InProcs -> CallType]
  /\ disk \in [Nums -> Datum] /\ inLast \in [Nums -> Datum] /\ imap \subseteq Nums
  /\ inPanic \in BOOLEAN /\ inLate \in BOOLEAN /\ inCleared \in BOOLEAN

\* what a process in each call has
InCallOK(c) ==
  /\ c.hold # 0 => c.pc \in {"user", "put", "truncating", "sync", "writing"}
  /\ c.empty # 0 <=> c.pc = "search"
  /\ c.pc \in {"reading", "writing", "put", "truncating"} => c.slot \in Slots
  /\ c.pc \in {"put", "truncating"} => c.hold = c.slot /\ c.op = "put"
  /\ c.pc = "writing" => c.op \in {"put", "sync"} /\ (c.op = "put" => c.hold = c.slot)
  /\ c.pc = "sync" => c.op = "sync" /\ c.slot # 0
  /\ c.pc = "empty" => c.op \in {"get", "new"} /\ (c.op = "get" => c.nr # 0)
  /\ c.pc = "search" => c.nr # 0
  /\ c.asleep => c.pc \in {"search", "put", "sync"}

\* c counts in i_count of s, c has locked s
Uses(c, s) == c.hold = s \/ c.empty = s \/ (c.pc = "reading" /\ c.slot = s)
Locks(c, s) == c.pc \in {"reading", "writing"} /\ c.slot = s
Emptied == [Blank EXCEPT !.count = 1]

OnlyUser(p, s) == \A q \in InProcs \ {p} : ~Uses(inProc[q], s)

ProcOK(p) ==
  LET c == inProc[p]
  IN /\ InCallOK(c)
     /\ c.hold # 0 => table[c.hold].num # 0
     /\ c.empty # 0 => table[c.empty] = Emptied
     /\ c.pc \in {"reading", "truncating"} => OnlyUser(p, c.slot)
     /\ c.pc \in {"reading", "writing"} => table[c.slot].num # 0
     /\ c.pc = "reading" => ~table[c.slot].dirt
                            /\ disk[table[c.slot].num] = inLast[table[c.slot].num]
     /\ c.asleep => \E s \in Slots : p \in table[s].wait /\ table[s].lock

LockOK(s) ==
  /\ table[s].lock <=> \E p \in InProcs : Locks(inProc[p], s)
  /\ \A p, q \in InProcs : Locks(inProc[p], s) /\ Locks(inProc[q], s) => p = q

NumOK(s) ==
  /\ \A t \in Slots \ {s} : table[s].num = 0 \/ table[s].num # table[t].num
  /\ table[s].num # 0 => table[s].num \in imap

DataOK(s) ==
  table[s].num # 0 /\ (\A p \in InProcs : ~(inProc[p].pc = "reading" /\ inProc[p].slot = s)) =>
    /\ table[s].data = inLast[table[s].num]
    /\ table[s].dirt \/ disk[table[s].num] = table[s].data

CountOK(s) == table[s].count = Cardinality({p \in InProcs : Uses(inProc[p], s)})
UnusedOK(s) == table[s].count = 0 => ~table[s].dirt /\ ~table[s].lock
Absent(n) == (\A s \in Slots : table[s].num # n) => disk[n] = inLast[n]

SlotOK(s) == LockOK(s) /\ NumOK(s) /\ DataOK(s) /\ CountOK(s) /\ UnusedOK(s)

InGood ==
  /\ \A p \in InProcs : ProcOK(p)
  /\ \A s \in Slots : SlotOK(s)
  /\ \A n \in imap : Absent(n)

InInv == InTypes /\ (~inLate /\ ~inCleared => InGood)

\* the other processes stay in their calls; some may be woken
SameCall(c, d) ==
  /\ d.pc = c.pc /\ d.op = c.op /\ d.slot = c.slot /\ d.empty = c.empty /\ d.nr = c.nr
  /\ d.hold = c.hold /\ (d.asleep => c.asleep)
Others(p) == \A q \in InProcs \ {p} : SameCall(inProc[q], inProc'[q])

-----------------------------------------------------------------------------
\* The fields of an inode and of a call.
LEMMA SlotFields ==
  ASSUME InTypes, NEW s \in Slots
  PROVE  /\ table[s] \in SlotType /\ table[s].num \in 0 .. INODES_PER_BLOCK /\ table[s].count \in Nat
         /\ table[s].lock \in BOOLEAN /\ table[s].dirt \in BOOLEAN
         /\ table[s].wait \subseteq InProcs /\ table[s].data \in Datum
         /\ (table[s].num # 0 <=> table[s].num \in Nums)
BY InAssumption DEF InTypes, SlotType, Nums

LEMMA CallFields ==
  ASSUME InTypes, NEW p \in InProcs
  PROVE  /\ inProc[p] \in CallType /\ inProc[p].slot \in 0 .. NR_INODE + 1
         /\ (inProc[p].empty # 0 <=> inProc[p].empty \in Slots)
         /\ (inProc[p].hold # 0 <=> inProc[p].hold \in Slots)
         /\ (inProc[p].nr # 0 <=> inProc[p].nr \in Nums)
         /\ inProc[p].asleep \in BOOLEAN /\ NR_INODE \in Nat /\ INODES_PER_BLOCK \in Nat
BY InAssumption DEF InTypes, CallType, Slots, Nums

\* A process in the same call counts and locks the same.
LEMMA SameUse ==
  ASSUME NEW c, NEW d, SameCall(c, d)
  PROVE  /\ \A s : (Uses(d, s) <=> Uses(c, s)) /\ (Locks(d, s) <=> Locks(c, s))
         /\ InCallOK(c) => InCallOK(d)
BY DEF SameCall, Uses, Locks, InCallOK

\* i_count is the number of users, whether p is one as before, becomes one or stops
\* being one.
LEMMA UsersFinite ==
  ASSUME NEW s
  PROVE  /\ IsFiniteSet({q \in InProcs : Uses(inProc[q], s)})
         /\ Cardinality({q \in InProcs : Uses(inProc[q], s)}) \in Nat
<1>1. IsFiniteSet({q \in InProcs : Uses(inProc[q], s)})
  BY InAssumption, FS_Subset
<1> QED
  BY <1>1, FS_CardinalityType

LEMMA CountSame ==
  ASSUME NEW p \in InProcs, Others(p), NEW s, CountOK(s), table'[s].count = table[s].count,
         Uses(inProc'[p], s) <=> Uses(inProc[p], s)
  PROVE  CountOK(s)'
<1>1. \A q \in InProcs : Uses(inProc'[q], s) <=> Uses(inProc[q], s)
  BY SameUse DEF Others
<1>2. {q \in InProcs : Uses(inProc'[q], s)} = {q \in InProcs : Uses(inProc[q], s)}
  BY <1>1
<1> QED
  BY <1>2 DEF CountOK

LEMMA CountMore ==
  ASSUME NEW p \in InProcs, Others(p), NEW s, CountOK(s), table'[s].count = table[s].count + 1,
         Uses(inProc'[p], s), ~Uses(inProc[p], s)
  PROVE  CountOK(s)'
<1> DEFINE U == {q \in InProcs : Uses(inProc[q], s)}
<1>1. \A q \in InProcs \ {p} : Uses(inProc'[q], s) <=> Uses(inProc[q], s)
  BY SameUse DEF Others
<1>2. {q \in InProcs : Uses(inProc'[q], s)} = U \cup {p} /\ p \notin U
  BY <1>1
<1>3. IsFiniteSet(U)
  BY UsersFinite
<1>4. Cardinality(U \cup {p}) = Cardinality(U) + 1
  BY <1>2, <1>3, FS_AddElement
<1> QED
  BY <1>2, <1>4 DEF CountOK

LEMMA CountLess ==
  ASSUME NEW p \in InProcs, Others(p), NEW s, CountOK(s), table'[s].count = table[s].count - 1,
         ~Uses(inProc'[p], s), Uses(inProc[p], s)
  PROVE  CountOK(s)'
<1> DEFINE U == {q \in InProcs : Uses(inProc[q], s)}
<1>1. \A q \in InProcs \ {p} : Uses(inProc'[q], s) <=> Uses(inProc[q], s)
  BY SameUse DEF Others
<1>2. {q \in InProcs : Uses(inProc'[q], s)} = U \ {p} /\ p \in U
  BY <1>1
<1>3. IsFiniteSet(U)
  BY UsersFinite
<1>4. Cardinality(U \ {p}) = Cardinality(U) - 1
  BY <1>2, <1>3, FS_RemoveElement
<1> QED
  BY <1>2, <1>4 DEF CountOK

\* Nobody uses an inode whose count is 0, and one process alone one whose count is 1.
LEMMA NoUsers ==
  ASSUME NEW s, CountOK(s), table[s].count = 0
  PROVE  \A q \in InProcs : ~Uses(inProc[q], s)
<1> DEFINE U == {q \in InProcs : Uses(inProc[q], s)}
<1>1. Cardinality(U) = 0 /\ IsFiniteSet(U)
  BY UsersFinite DEF CountOK
<1>2. U = {}
  BY <1>1, FS_EmptySet
<1> QED
  BY <1>2

LEMMA OneUser ==
  ASSUME NEW p \in InProcs, NEW s, CountOK(s), table[s].count = 1, Uses(inProc[p], s)
  PROVE  OnlyUser(p, s)
<1> DEFINE U == {q \in InProcs : Uses(inProc[q], s)}
<1>1. Cardinality(U) = 1 /\ IsFiniteSet(U) /\ p \in U
  BY UsersFinite DEF CountOK
<1> HIDE DEF U
<1>2. Cardinality(U \ {p}) = Cardinality(U) - 1 /\ IsFiniteSet(U \ {p})
  BY <1>1, FS_RemoveElement
<1>3. U \ {p} = {}
  BY <1>1, <1>2, FS_EmptySet
<1> QED
  BY <1>3 DEF OnlyUser, U

LEMMA SoleUser ==
  ASSUME NEW p \in InProcs, Others(p), NEW s, OnlyUser(p, s)
  PROVE  /\ Uses(inProc'[p], s) /\ table'[s].count = 1 => CountOK(s)'
         /\ ~Uses(inProc'[p], s) /\ table'[s].count = 0 => CountOK(s)'
<1>1. \A q \in InProcs \ {p} : ~Uses(inProc'[q], s)
  BY SameUse DEF Others, OnlyUser
<1>2. Uses(inProc'[p], s) => {q \in InProcs : Uses(inProc'[q], s)} = {p}
  BY <1>1
<1>3. ~Uses(inProc'[p], s) => {q \in InProcs : Uses(inProc'[q], s)} = {}
  BY <1>1
<1>4. Cardinality({p}) = 1 /\ Cardinality({}) = 0
  BY FS_Singleton, FS_EmptySet
<1> QED
  BY <1>2, <1>3, <1>4 DEF CountOK

\* The lock stays, is taken by p, or is given back by p.
LEMMA LockSame ==
  ASSUME NEW p \in InProcs, Others(p), NEW s, LockOK(s), table'[s].lock = table[s].lock,
         Locks(inProc'[p], s) <=> Locks(inProc[p], s)
  PROVE  LockOK(s)'
<1>1. \A q \in InProcs : Locks(inProc'[q], s) <=> Locks(inProc[q], s)
  BY SameUse DEF Others
<1> QED
  BY <1>1 DEF LockOK

LEMMA LockTaken ==
  ASSUME NEW p \in InProcs, Others(p), NEW s, LockOK(s), ~table[s].lock, table'[s].lock,
         Locks(inProc'[p], s)
  PROVE  LockOK(s)'
<1>1. \A q \in InProcs \ {p} : ~Locks(inProc'[q], s)
  BY SameUse DEF Others, LockOK
<1> QED
  BY <1>1 DEF LockOK

LEMMA LockGiven ==
  ASSUME NEW p \in InProcs, Others(p), NEW s, LockOK(s), ~table'[s].lock,
         Locks(inProc[p], s), ~Locks(inProc'[p], s)
  PROVE  LockOK(s)'
<1>1. \A q \in InProcs \ {p} : ~Locks(inProc'[q], s)
  BY SameUse DEF Others, LockOK
<1> QED
  BY <1>1 DEF LockOK

LEMMA LockNone ==
  ASSUME NEW p \in InProcs, Others(p), NEW s, ~table'[s].lock,
         \A q \in InProcs : ~Locks(inProc[q], s), ~Locks(inProc'[p], s)
  PROVE  LockOK(s)'
<1>1. \A q \in InProcs : ~Locks(inProc'[q], s)
  BY SameUse DEF Others
<1> QED
  BY <1>1 DEF LockOK

\* What is known of a process stays, when the inodes it uses stay.
LEMMA KeptCall ==
  ASSUME InTypes, NEW p \in InProcs, Others(p), NEW q \in InProcs \ {p}, ProcOK(q),
         \A s \in Slots : Uses(inProc[q], s) \/ Locks(inProc[q], s) => table'[s].num = table[s].num,
         inProc[q].empty # 0 => table'[inProc[q].empty] = table[inProc[q].empty],
         inProc[q].pc = "reading" =>
           /\ table'[inProc[q].slot].dirt = table[inProc[q].slot].dirt
           /\ disk'[table[inProc[q].slot].num] = disk[table[inProc[q].slot].num]
           /\ inLast'[table[inProc[q].slot].num] = inLast[table[inProc[q].slot].num],
         inProc[q].pc \in {"reading", "truncating"} => ~Uses(inProc'[p], inProc[q].slot),
         inProc'[q].asleep =>
           \A s \in Slots : table[s].lock /\ q \in table[s].wait => table'[s].lock /\ q \in table'[s].wait
  PROVE  ProcOK(q)'
<1> DEFINE c == inProc[q]
           d == inProc'[q]
<1>1. SameCall(c, d)
  BY DEF Others
<1>2. InCallOK(c) /\ InCallOK(d) /\ \A s : (Uses(d, s) <=> Uses(c, s)) /\ (Locks(d, s) <=> Locks(c, s))
  BY <1>1, SameUse DEF ProcOK
<1>3. /\ d.pc = c.pc /\ d.slot = c.slot /\ d.empty = c.empty /\ d.hold = c.hold
      /\ (d.asleep => c.asleep)
  BY <1>1 DEF SameCall
<1>4. d.hold # 0 => table'[d.hold].num # 0
  <2>1. c.hold # 0 => c.hold \in Slots /\ Uses(c, c.hold)
    BY CallFields DEF Uses
  <2> QED
    BY <2>1, <1>3 DEF ProcOK
<1>5. d.empty # 0 => table'[d.empty] = Emptied
  BY <1>3 DEF ProcOK
<1>6. d.pc \in {"reading", "truncating"} => \A r \in InProcs \ {q} : ~Uses(inProc'[r], c.slot)
  <2>1. \A r \in InProcs \ {p} : \A s : Uses(inProc'[r], s) <=> Uses(inProc[r], s)
    BY SameUse DEF Others
  <2> QED
    BY <2>1, <1>3 DEF ProcOK, OnlyUser
<1>7. d.pc \in {"reading", "writing"} => d.slot \in Slots /\ table'[d.slot].num = table[c.slot].num
  BY <1>2, <1>3 DEF InCallOK, Locks
<1>8. d.asleep => \E s \in Slots : q \in table'[s].wait /\ table'[s].lock
  BY <1>3 DEF ProcOK
<1>9. d.pc = "reading" => /\ ~table'[d.slot].dirt
                          /\ disk'[table'[d.slot].num] = inLast'[table'[d.slot].num]
  BY <1>3, <1>7 DEF ProcOK
<1>10. d.pc \in {"reading", "writing"} => table'[d.slot].num # 0
  BY <1>3, <1>7 DEF ProcOK
<1> HIDE DEF c, d
<1>11. c.slot = d.slot
  BY <1>3
<1> QED
  BY <1>2, <1>4, <1>5, <1>6, <1>8, <1>9, <1>10, <1>11 DEF ProcOK, OnlyUser, d

\* What the step of p leaves of an inode, and of a call.
KeepsSlot(p, s) ==
  /\ table'[s].num = table[s].num /\ table'[s].count = table[s].count
  /\ table'[s].lock = table[s].lock /\ table'[s].dirt = table[s].dirt
  /\ table'[s].data = table[s].data
  /\ (Uses(inProc'[p], s) <=> Uses(inProc[p], s))
  /\ (Locks(inProc'[p], s) <=> Locks(inProc[p], s))
  /\ (inProc'[p].pc = "reading" /\ inProc'[p].slot = s <=> inProc[p].pc = "reading" /\ inProc[p].slot = s)

\* An inode that the step leaves as it is stays as it should be.
LEMMA KeptData ==
  ASSUME NEW p \in InProcs, Others(p), NEW s \in Slots, DataOK(s),
         table'[s].num = table[s].num, table'[s].dirt = table[s].dirt, table'[s].data = table[s].data,
         inProc'[p].pc = "reading" /\ inProc'[p].slot = s <=> inProc[p].pc = "reading" /\ inProc[p].slot = s,
         table[s].num # 0 => /\ disk'[table[s].num] = disk[table[s].num]
                             /\ inLast'[table[s].num] = inLast[table[s].num]
  PROVE  DataOK(s)'
<1>1. \A q \in InProcs : inProc'[q].pc = "reading" /\ inProc'[q].slot = s
                           <=> inProc[q].pc = "reading" /\ inProc[q].slot = s
  BY DEF Others, SameCall
<1> QED
  BY <1>1 DEF DataOK

LEMMA KeptSlot ==
  ASSUME NEW p \in InProcs, Others(p), NEW s \in Slots, SlotOK(s), KeepsSlot(p, s),
         table[s].num # 0 =>
           /\ disk'[table[s].num] = disk[table[s].num] /\ inLast'[table[s].num] = inLast[table[s].num]
           /\ table[s].num \in imap'
           /\ \A t \in Slots \ {s} : table'[t].num # table[s].num
  PROVE  SlotOK(s)'
<1>1. DataOK(s)'
  BY KeptData DEF SlotOK, KeepsSlot
<1>2. LockOK(s)'
  BY LockSame DEF SlotOK, KeepsSlot
<1>3. CountOK(s)'
  BY CountSame DEF SlotOK, KeepsSlot
<1>4. NumOK(s)'
  BY DEF SlotOK, NumOK, KeepsSlot
<1>5. UnusedOK(s)'
  BY DEF SlotOK, UnusedOK, KeepsSlot
<1> QED
  BY <1>1, <1>2, <1>3, <1>4, <1>5 DEF SlotOK

\* The numbers stay where they are.
LEMMA KeptNum ==
  ASSUME \A t \in Slots : table'[t].num = table[t].num, imap' = imap, NEW s \in Slots, NumOK(s)
  PROVE  /\ NumOK(s)'
         /\ table[s].num # 0 => /\ table[s].num \in imap'
                                /\ \A t \in Slots \ {s} : table'[t].num # table[s].num
BY DEF NumOK

LEMMA KeptAbsent ==
  ASSUME \A t \in Slots : table'[t].num = table[t].num, NEW n, Absent(n),
         (\A t \in Slots : table[t].num # n) => disk'[n] = disk[n] /\ inLast'[n] = inLast[n]
  PROVE  Absent(n)'
BY DEF Absent

\* What the table has of an inode that stays there, for the step of another process.
LEMMA QuietCall ==
  ASSUME InTypes, InGood, NEW p \in InProcs, Others(p), NEW q \in InProcs \ {p},
         NEW e, OnlyUser(p, e), \A t \in Slots \ {e} : table'[t].num = table[t].num,
         ~Locks(inProc[q], e),
         inProc[q].empty # 0 => table'[inProc[q].empty] = table[inProc[q].empty],
         inProc[q].pc = "reading" =>
           /\ table'[inProc[q].slot].dirt = table[inProc[q].slot].dirt
           /\ disk'[table[inProc[q].slot].num] = disk[table[inProc[q].slot].num]
           /\ inLast'[table[inProc[q].slot].num] = inLast[table[inProc[q].slot].num],
         inProc[q].pc \in {"reading", "truncating"} => ~Uses(inProc'[p], inProc[q].slot),
         inProc'[q].asleep =>
           \A s \in Slots : table[s].lock /\ q \in table[s].wait => table'[s].lock /\ q \in table'[s].wait
  PROVE  ProcOK(q)'
<1>1. \A s \in Slots : Uses(inProc[q], s) \/ Locks(inProc[q], s) => table'[s].num = table[s].num
  BY DEF OnlyUser
<1>2. ProcOK(q)
  BY DEF InGood
<1> QED
  BY <1>1, <1>2, KeptCall

\* An inode that a process uses has a count; no count is above the number of processes.
LEMMA Used ==
  ASSUME NEW p \in InProcs, NEW s, CountOK(s), Uses(inProc[p], s)
  PROVE  table[s].count # 0
BY NoUsers

LEMMA CountBound ==
  ASSUME NEW s, CountOK(s)
  PROVE  /\ table[s].count \in Nat /\ table[s].count <= Cardinality(InProcs)
         /\ Cardinality(InProcs) \in Nat \ {0}
<1> DEFINE U == {q \in InProcs : Uses(inProc[q], s)}
<1>1. U \subseteq InProcs /\ IsFiniteSet(InProcs) /\ InProcs # {}
  BY InAssumption
<1>2. Cardinality(U) <= Cardinality(InProcs) /\ Cardinality(U) \in Nat
  BY <1>1, FS_Subset, UsersFinite
<1>3. Cardinality(InProcs) \in Nat /\ Cardinality(InProcs) # 0
  BY <1>1, FS_CardinalityType, FS_EmptySet
<1> QED
  BY <1>2, <1>3 DEF CountOK

\* Of two processes that are reading, or freeing, one inode, or one of which is, and
\* the other uses it, there are none.
LEMMA Alone ==
  ASSUME InGood, NEW p \in InProcs, NEW q \in InProcs \ {p}, inProc[q].pc \in {"reading", "truncating"}
  PROVE  inProc[q].slot \in Slots /\ ~Uses(inProc[p], inProc[q].slot)
BY DEF InGood, ProcOK, InCallOK, OnlyUser

\* A process goes on in its call, or starts or ends one, and the inodes it uses stay;
\* at most it joins the queue of a locked one.
LEMMA Moves ==
  ASSUME InTypes, InGood, NEW p \in InProcs, Others(p), UNCHANGED <<disk, imap, inLast>>,
         \A s \in Slots :
           /\ table'[s].num = table[s].num /\ table'[s].count = table[s].count
           /\ table'[s].lock = table[s].lock /\ table'[s].dirt = table[s].dirt
           /\ table'[s].data = table[s].data /\ table[s].wait \subseteq table'[s].wait
           /\ (~table[s].lock => table'[s] = table[s]),
         inProc[p].pc \notin {"reading", "writing"}, inProc'[p].pc \notin {"reading", "writing"},
         \A s \in Slots : Uses(inProc'[p], s) <=> Uses(inProc[p], s),
         ProcOK(p)'
  PROVE  InGood'
<1>1. \A s \in Slots : SlotOK(s)'
  <2> SUFFICES ASSUME NEW s \in Slots PROVE SlotOK(s)'
    OBVIOUS
  <2>1. KeepsSlot(p, s)
    BY DEF KeepsSlot, Locks
  <2>2. SlotOK(s) /\ NumOK(s)
    BY DEF InGood, SlotOK
  <2> QED
    BY <2>1, <2>2, KeptSlot, KeptNum
<1>2. \A n \in imap' : Absent(n)'
  BY KeptAbsent DEF InGood
<1>3. ASSUME NEW q \in InProcs \ {p} PROVE ProcOK(q)'
  <2>1. ProcOK(q)
    BY DEF InGood
  <2>2. inProc[q].empty # 0 => table'[inProc[q].empty] = table[inProc[q].empty]
    BY <2>1, CallFields DEF ProcOK, Emptied, Blank
  <2>3. inProc[q].pc \in {"reading", "truncating"} => ~Uses(inProc'[p], inProc[q].slot)
    BY Alone
  <2>4. inProc[q].pc = "reading" => inProc[q].slot \in Slots
    BY <2>1 DEF ProcOK, InCallOK
  <2> QED
    BY <2>1, <2>2, <2>3, <2>4, KeptCall
<1> QED
  BY <1>1, <1>2, <1>3 DEF InGood

\* write_inode() locks an inode, and ends.
LEMMA WriteStarting ==
  ASSUME InTypes, InGood, NEW p \in InProcs, NEW s \in Slots, WriteStarts(p, s),
         UNCHANGED <<disk, imap, inLast>>, ~table[s].lock, table[s].num # 0, table[s].count # 0,
         inProc[p].pc = inProc[p].op, inProc[p].op \in {"put", "sync"},
         inProc[p].pc = "put" => inProc[p].slot = s, ~inProc[p].asleep
  PROVE  InGood'
<1> DEFINE c == inProc[p]
           d == inProc'[p]
<1>1. d = [c EXCEPT !.pc = "writing", !.slot = s] /\ c \in CallType
  BY CallFields DEF WriteStarts, InTypes
<1>2. /\ d.pc = "writing" /\ d.slot = s /\ d.op = c.op /\ d.hold = c.hold /\ d.empty = c.empty
      /\ d.asleep = c.asleep
  BY <1>1 DEF CallType
<1>3. Others(p)
  BY DEF WriteStarts, InTypes, Others, SameCall
<1>4. \A t \in Slots \ {s} : table'[t] = table[t]
  BY DEF WriteStarts, InTypes
<1>5. /\ table'[s].num = table[s].num /\ table'[s].count = table[s].count /\ table'[s].lock
      /\ table'[s].dirt = table[s].dirt /\ table'[s].data = table[s].data
      /\ table'[s].wait = table[s].wait
  BY SlotFields DEF WriteStarts, InTypes, SlotType
<1>6. ProcOK(p) /\ c.pc \notin {"reading", "writing"}
  BY DEF InGood
<1>7. \A t : Uses(d, t) <=> Uses(c, t)
  BY <1>2, <1>6 DEF Uses
<1>8. \A t \in Slots : table'[t].num = table[t].num
  BY <1>4, <1>5
<1>9. \A t \in Slots : SlotOK(t)'
  <2> SUFFICES ASSUME NEW t \in Slots PROVE SlotOK(t)'
    OBVIOUS
  <2>1. SlotOK(t) /\ NumOK(t)
    BY DEF InGood, SlotOK
  <2>2. CASE t # s
    <3>1. KeepsSlot(p, t)
      BY <2>2, <1>2, <1>4, <1>6, <1>7 DEF KeepsSlot, Locks
    <3> QED
      BY <3>1, <2>1, <1>3, <1>8, KeptSlot, KeptNum
  <2>3. CASE t = s
    <3>1. LockOK(s)'
      BY <2>1, <2>3, <1>2, <1>3, <1>5, LockTaken DEF SlotOK, Locks
    <3>2. NumOK(s)'
      BY <2>1, <2>3, <1>8, KeptNum
    <3>3. DataOK(s)'
      BY <2>1, <2>3, <1>2, <1>3, <1>5, <1>6, KeptData DEF SlotOK
    <3>4. CountOK(s)'
      BY <2>1, <2>3, <1>3, <1>5, <1>7, CountSame DEF SlotOK
    <3>5. UnusedOK(s)'
      BY <1>5 DEF UnusedOK
    <3> QED
      BY <2>3, <3>1, <3>2, <3>3, <3>4, <3>5 DEF SlotOK
  <2> QED
    BY <2>2, <2>3
<1>10. \A n \in imap' : Absent(n)'
  BY <1>8, KeptAbsent DEF InGood
<1>11. ASSUME NEW q \in InProcs \ {p} PROVE ProcOK(q)'
  <2>1. ProcOK(q)
    BY DEF InGood
  <2>2. inProc[q].empty # 0 => inProc[q].empty # s /\ inProc[q].empty \in Slots
    BY <2>1, CallFields DEF ProcOK, Emptied, Blank
  <2>3. inProc[q].empty # 0 => table'[inProc[q].empty] = table[inProc[q].empty]
    BY <2>2, <1>4
  <2>4. inProc[q].pc \in {"reading", "truncating"} =>
          inProc[q].slot \in Slots /\ ~Uses(inProc'[p], inProc[q].slot)
    BY Alone, <1>7
  <2>5. \A t \in Slots : table[t].lock /\ q \in table[t].wait => table'[t].lock /\ q \in table'[t].wait
    BY <1>4, <1>5
  <2>6. inProc[q].pc = "reading" => table'[inProc[q].slot].dirt = table[inProc[q].slot].dirt
    BY <2>4, <1>4, <1>5
  <2> QED
    BY <2>1, <2>3, <2>4, <2>5, <2>6, <1>3, <1>8, KeptCall
<1>12. ProcOK(p)'
  <2>1. InCallOK(d)
    BY <1>2, <1>6 DEF ProcOK, InCallOK
  <2>2. d.hold # 0 => table'[d.hold].num # 0
    BY <1>2, <1>6, <1>8, CallFields DEF ProcOK
  <2>3. d.empty = 0 /\ ~d.asleep
    BY <1>2, <1>6 DEF ProcOK, InCallOK
  <2> QED
    BY <2>1, <2>2, <2>3, <1>2, <1>5 DEF ProcOK
<1> QED
  BY <1>9, <1>10, <1>11, <1>12 DEF InGood

LEMMA WokenCall ==
  ASSUME NEW c \in CallType, NEW d, d = [c EXCEPT !.asleep = FALSE]
  PROVE  SameCall(c, d) /\ d.asleep = FALSE
BY DEF SameCall, CallType

\* What unlock_inode() does to the processes: those that sleep on s are woken.
LEMMA WokenOthers ==
  ASSUME InTypes, NEW p \in InProcs, NEW s \in Slots, NEW d, inProc' = [Woken(s) EXCEPT ![p] = d]
  PROVE  /\ Others(p) /\ inProc'[p] = d
         /\ \A q \in InProcs \ {p} : inProc'[q].asleep => q \notin table[s].wait
<1> DEFINE W == [q \in InProcs |-> IF q \in table[s].wait THEN [inProc[q] EXCEPT !.asleep = FALSE]
                                   ELSE inProc[q]]
<1>1. inProc' = [W EXCEPT ![p] = d]
  BY DEF Woken
<1>2. \A q \in InProcs \ {p} : inProc'[q] = IF q \in table[s].wait
                                 THEN [inProc[q] EXCEPT !.asleep = FALSE] ELSE inProc[q]
  BY <1>1
<1>3. \A q \in InProcs : inProc[q] \in CallType
  BY DEF InTypes
<1>4. ASSUME NEW q \in InProcs \ {p}
      PROVE  SameCall(inProc[q], inProc'[q]) /\ (inProc'[q].asleep => q \notin table[s].wait)
  <2>1. inProc[q] \in CallType
    BY <1>3
  <2>2. CASE q \in table[s].wait
    <3>1. inProc'[q] = [inProc[q] EXCEPT !.asleep = FALSE]
      BY <2>2, <1>2
    <3> HIDE DEF W
    <3>2. SameCall(inProc[q], inProc'[q]) /\ inProc'[q].asleep = FALSE
      BY <2>1, <3>1, WokenCall
    <3> QED
      BY <3>2
  <2>3. CASE q \notin table[s].wait
    BY <2>3, <1>2 DEF SameCall
  <2> QED
    BY <2>2, <2>3
<1> QED
  BY <1>1, <1>4 DEF Others

\* The others, when p unlocks s and leaves the other inodes as they are.
LEMMA UnlockedOthers ==
  ASSUME InTypes, InGood, NEW p \in InProcs, Others(p), NEW s \in Slots, Locks(inProc[p], s),
         table[s].num # 0, table'[s].num = table[s].num, \A t \in Slots \ {s} : table'[t] = table[t],
         \A q \in InProcs \ {p} : inProc'[q].asleep => q \notin table[s].wait,
         inLast' = inLast, \A n \in Nums \ {table[s].num} : disk'[n] = disk[n],
         \A t \in Slots : Uses(inProc'[p], t) <=> Uses(inProc[p], t)
  PROVE  \A q \in InProcs \ {p} : ProcOK(q)'
<1> SUFFICES ASSUME NEW q \in InProcs \ {p} PROVE ProcOK(q)'
  OBVIOUS
<1>1. ProcOK(q) /\ LockOK(s) /\ NumOK(s)
  BY DEF InGood, SlotOK
<1>2. inProc[q].empty # 0 => table'[inProc[q].empty] = table[inProc[q].empty]
  BY <1>1, CallFields DEF ProcOK, Emptied, Blank
<1>3. inProc[q].pc = "reading" => inProc[q].slot \in Slots \ {s}
  BY <1>1 DEF ProcOK, InCallOK, LockOK, Locks
<1>4. inProc[q].pc = "reading" =>
        /\ table'[inProc[q].slot].dirt = table[inProc[q].slot].dirt
        /\ table[inProc[q].slot].num \in Nums \ {table[s].num}
  <2>1. inProc[q].pc = "reading" => table[inProc[q].slot].num # 0
    BY <1>1 DEF ProcOK
  <2> QED
    BY <2>1, <1>1, <1>3, SlotFields DEF NumOK
<1>5. inProc[q].pc \in {"reading", "truncating"} => ~Uses(inProc'[p], inProc[q].slot)
  BY Alone
<1>6. inProc'[q].asleep =>
        \A t \in Slots : table[t].lock /\ q \in table[t].wait => table'[t].lock /\ q \in table'[t].wait
  OBVIOUS
<1>7. \A t \in Slots : table'[t].num = table[t].num
  OBVIOUS
<1> QED
  BY <1>1, <1>2, <1>4, <1>5, <1>6, <1>7, KeptCall

\* p unlocks s, with the data and the disk in step: all of the invariant but p's call.
LEMMA Unlocking ==
  ASSUME InTypes, InGood, NEW p \in InProcs, Others(p), NEW s \in Slots, Locks(inProc[p], s),
         table[s].num # 0, table'[s].num = table[s].num, \A t \in Slots \ {s} : table'[t] = table[t],
         table'[s].count = table[s].count, ~table'[s].lock, ~table'[s].dirt,
         \A q \in InProcs \ {p} : inProc'[q].asleep => q \notin table[s].wait,
         inLast' = inLast, imap' = imap, \A n \in Nums \ {table[s].num} : disk'[n] = disk[n],
         table'[s].data = inLast[table[s].num], disk'[table[s].num] = table'[s].data,
         \A t \in Slots : Uses(inProc'[p], t) <=> Uses(inProc[p], t),
         inProc'[p].pc \notin {"reading", "writing"}, ProcOK(p)'
  PROVE  InGood'
<1>1. \A t \in Slots : table'[t].num = table[t].num
  OBVIOUS
<1>2. \A t \in Slots : SlotOK(t)'
  <2> SUFFICES ASSUME NEW t \in Slots PROVE SlotOK(t)'
    OBVIOUS
  <2>1. SlotOK(t) /\ NumOK(t)
    BY DEF InGood, SlotOK
  <2>2. CASE t # s
    <3>1. KeepsSlot(p, t)
      BY <2>2 DEF KeepsSlot, Locks
    <3>2. table[t].num # 0 => table[t].num \in Nums \ {table[s].num}
      BY <2>1, <2>2, SlotFields DEF NumOK
    <3> QED
      BY <3>1, <3>2, <2>1, <1>1, KeptSlot, KeptNum
  <2>3. CASE t = s
    <3>1. LockOK(s)'
      BY <2>1, <2>3, LockGiven DEF SlotOK, Locks
    <3>2. NumOK(s)'
      BY <2>1, <2>3, <1>1, KeptNum
    <3>3. DataOK(s)'
      BY DEF DataOK
    <3>4. CountOK(s)'
      BY <2>1, <2>3, CountSame DEF SlotOK
    <3>5. UnusedOK(s)'
      BY DEF UnusedOK
    <3> QED
      BY <2>3, <3>1, <3>2, <3>3, <3>4, <3>5 DEF SlotOK
  <2> QED
    BY <2>2, <2>3
<1>3. ASSUME NEW n \in imap' PROVE Absent(n)'
  <2>1. Absent(n) /\ n \in Nums
    BY DEF InGood, InTypes
  <2> QED
    BY <2>1, <1>1, KeptAbsent
<1>4. \A q \in InProcs \ {p} : ProcOK(q)'
  BY UnlockedOthers
<1> QED
  BY <1>2, <1>3, <1>4 DEF InGood

LEMMA WriteEnding ==
  ASSUME InTypes, InGood, NEW p \in InProcs, WriteEnds(p)
  PROVE  InGood'
<1> DEFINE c == inProc[p]
           s == c.slot
           k == IF c.op = "sync" THEN s + 1 ELSE s
           d == [[Woken(s)[p] EXCEPT !.pc = c.op] EXCEPT !.slot = k]
<1>1. /\ c \in CallType /\ c.pc = "writing" /\ ~c.asleep /\ ProcOK(p) /\ s \in Slots
      /\ c.op \in {"put", "sync"} /\ (c.op = "put" => c.hold = s) /\ table[s].num # 0
      /\ c.empty = 0
  BY CallFields DEF WriteEnds, At, InGood, ProcOK, InCallOK
<1>2. Locks(c, s) /\ LockOK(s) /\ NumOK(s) /\ DataOK(s)
  BY <1>1 DEF Locks, InGood, SlotOK
<1>3. inProc' = [Woken(s) EXCEPT ![p] = d]
  BY DEF WriteEnds, Woken
<1>4. /\ Others(p) /\ inProc'[p] = d
      /\ \A q \in InProcs \ {p} : inProc'[q].asleep => q \notin table[s].wait
  BY <1>1, <1>3, WokenOthers
<1>5. /\ d.pc = c.op /\ d.slot = k /\ d.op = c.op /\ d.hold = c.hold /\ d.empty = c.empty
      /\ ~d.asleep
  <2>1. Woken(s)[p] \in CallType /\ SameCall(c, Woken(s)[p]) /\ ~Woken(s)[p].asleep
    BY <1>1 DEF Woken, CallType, SameCall
  <2> QED
    BY <2>1 DEF CallType, SameCall
<1>6. table'[s] = [Unlocked(table[s]) EXCEPT !.dirt = FALSE] /\ \A t \in Slots \ {s} : table'[t] = table[t]
  BY <1>1 DEF WriteEnds, InTypes
<1>7. /\ table'[s].num = table[s].num /\ table'[s].count = table[s].count
      /\ ~table'[s].lock /\ ~table'[s].dirt /\ table'[s].data = table[s].data
  BY <1>1, <1>6, SlotFields DEF Unlocked, SlotType
<1>8. /\ table[s].num \in Nums /\ disk'[table[s].num] = table[s].data
      /\ \A n \in Nums \ {table[s].num} : disk'[n] = disk[n]
  BY <1>1, SlotFields DEF WriteEnds, InTypes
<1>9. table[s].data = inLast[table[s].num]
  <2>1. \A q \in InProcs : ~(inProc[q].pc = "reading" /\ inProc[q].slot = s)
    BY <1>1, <1>2 DEF LockOK, Locks
  <2> QED
    BY <2>1, <1>1, <1>2 DEF DataOK
<1>10. \A t \in Slots : Uses(inProc'[p], t) <=> Uses(c, t)
  BY <1>1, <1>4, <1>5 DEF Uses
<1>11. ProcOK(p)'
  <2>1. InCallOK(d)
    <3>1. CASE c.op = "sync"
      <4>1. d.slot # 0 /\ d.pc = "sync" /\ d.op = "sync" /\ d.empty = 0 /\ ~d.asleep
        BY <3>1, <1>1, <1>5 DEF Slots
      <4> QED
        BY <4>1 DEF InCallOK
    <3>2. CASE c.op = "put"
      <4>1. d.slot = s /\ d.hold = s /\ d.pc = "put" /\ d.op = "put" /\ d.empty = 0 /\ ~d.asleep
        BY <3>2, <1>1, <1>5
      <4> QED
        BY <4>1, <1>1 DEF InCallOK
    <3> QED
      BY <3>1, <3>2, <1>1
  <2>2. \A t \in Slots : table'[t].num = table[t].num
    BY <1>6, <1>7
  <2>3. c.hold # 0 => table'[c.hold].num # 0
    BY <2>2, <1>1, CallFields DEF ProcOK
  <2>4. d.hold # 0 => table'[d.hold].num # 0
    BY <2>3, <1>5
  <2> QED
    BY <2>1, <2>4, <1>1, <1>4, <1>5 DEF ProcOK
<1> HIDE DEF c, d, s
<1>12. UNCHANGED <<imap, inLast>> /\ Locks(inProc[p], s) /\ inProc'[p].pc \notin {"reading", "writing"}
  BY <1>1, <1>2, <1>4, <1>5 DEF WriteEnds, c
<1>13. \A t \in Slots : Uses(inProc'[p], t) <=> Uses(inProc[p], t)
  BY <1>10 DEF c
<1> QED
  BY <1>1, <1>4, <1>6, <1>7, <1>8, <1>9, <1>11, <1>12, <1>13, Unlocking

LEMMA ReadEnding ==
  ASSUME InTypes, InGood, NEW p \in InProcs, ReadEnds(p)
  PROVE  InGood'
<1> DEFINE c == inProc[p]
           s == c.slot
           d == [AtUser EXCEPT !.hold = s]
<1>1. /\ c \in CallType /\ c.pc = "reading" /\ ProcOK(p) /\ s \in Slots
      /\ table[s].num # 0 /\ ~table[s].dirt /\ disk[table[s].num] = inLast[table[s].num]
      /\ c.hold = 0 /\ c.empty = 0
  BY CallFields DEF ReadEnds, At, InGood, ProcOK, InCallOK
<1>2. Locks(c, s)
  BY <1>1 DEF Locks
<1>3. inProc' = [Woken(s) EXCEPT ![p] = d]
  BY DEF ReadEnds
<1>4. /\ Others(p) /\ inProc'[p] = d
      /\ \A q \in InProcs \ {p} : inProc'[q].asleep => q \notin table[s].wait
  BY <1>1, <1>3, WokenOthers
<1>5. d.pc = "user" /\ d.hold = s /\ d.empty = 0 /\ ~d.asleep
  BY DEF AtUser, NoSlot
<1>6. /\ table'[s] = [Unlocked(table[s]) EXCEPT !.data = disk[table[s].num]]
      /\ \A t \in Slots \ {s} : table'[t] = table[t]
  BY <1>1 DEF ReadEnds, InTypes
<1>7. /\ table'[s].num = table[s].num /\ table'[s].count = table[s].count
      /\ ~table'[s].lock /\ table'[s].dirt = table[s].dirt /\ table'[s].data = disk[table[s].num]
  BY <1>1, <1>6, SlotFields DEF Unlocked, SlotType
<1>8. \A t \in Slots : Uses(inProc'[p], t) <=> Uses(c, t)
  BY <1>1, <1>4, <1>5, 0 \notin Slots DEF Uses, Slots
<1>9. ProcOK(p)'
  <2>1. InCallOK(d)
    BY <1>5 DEF InCallOK
  <2> QED
    BY <2>1, <1>1, <1>4, <1>5, <1>7 DEF ProcOK
<1> HIDE DEF c, d, s
<1>10. UNCHANGED <<disk, imap, inLast>> /\ Locks(inProc[p], s) /\ inProc'[p].pc \notin {"reading", "writing"}
  BY <1>2, <1>4, <1>5 DEF ReadEnds, InRest, c
<1>11. \A t \in Slots : Uses(inProc'[p], t) <=> Uses(inProc[p], t)
  BY <1>8 DEF c
<1>12. table'[s].data = inLast[table[s].num] /\ disk'[table[s].num] = table'[s].data /\ ~table'[s].dirt
  BY <1>1, <1>7, <1>10
<1> QED
  BY <1>1, <1>4, <1>6, <1>7, <1>9, <1>10, <1>11, <1>12, Unlocking

\* A change of an inode by one of its holders.
LEMMA ChangeKeeps ==
  ASSUME InTypes, InGood, NEW p \in InProcs, NEW data \in Datum, Change(p, data)
  PROVE  InGood'
<1> DEFINE c == inProc[p]
<1>0. PICK s \in Slots : s = c.hold
  BY CallFields DEF Change, NoSlot
<1>1. s = c.hold /\ c.pc = "user" /\ ProcOK(p) /\ table[s].num # 0 /\ Uses(c, s)
  BY <1>0, CallFields DEF Change, At, NoSlot, InGood, ProcOK, Uses
<1>2. /\ table'[s] = [[table[s] EXCEPT !.data = data] EXCEPT !.dirt = TRUE]
      /\ \A t \in Slots \ {s} : table'[t] = table[t]
  BY <1>1 DEF Change, InTypes
<1>3. /\ table'[s].num = table[s].num /\ table'[s].count = table[s].count
      /\ table'[s].lock = table[s].lock /\ table'[s].dirt /\ table'[s].data = data
      /\ table'[s].wait = table[s].wait
  BY <1>1, <1>2, SlotFields DEF SlotType
<1>4. /\ table[s].num \in Nums /\ inLast'[table[s].num] = data
      /\ \A n \in Nums \ {table[s].num} : inLast'[n] = inLast[n]
  BY <1>1, SlotFields DEF Change, InTypes
<1>5. UNCHANGED <<disk, imap, inProc>> /\ Others(p)
  BY DEF Change, Others, SameCall
<1>6. \A t \in Slots : table'[t].num = table[t].num /\ table'[t].count = table[t].count
                         /\ table'[t].lock = table[t].lock /\ table'[t].wait = table[t].wait
  BY <1>2, <1>3
<1>7. \A q \in InProcs : ~(inProc[q].pc = "reading" /\ inProc[q].slot = s)
  BY <1>1, Alone
<1>8. \A t \in Slots : SlotOK(t)'
  <2> SUFFICES ASSUME NEW t \in Slots PROVE SlotOK(t)'
    OBVIOUS
  <2>1. SlotOK(t) /\ NumOK(t) /\ NumOK(s)
    BY <1>1 DEF InGood, SlotOK
  <2>2. CASE t # s
    <3>1. KeepsSlot(p, t)
      BY <2>2, <1>2, <1>5 DEF KeepsSlot
    <3>2. table[t].num # 0 => table[t].num \in Nums \ {table[s].num}
      BY <2>1, <2>2, SlotFields DEF NumOK
    <3> QED
      BY <3>1, <3>2, <2>1, <1>4, <1>5, <1>6, KeptSlot, KeptNum
  <2>3. CASE t = s
    <3>1. LockOK(s)'
      BY <2>1, <2>3, <1>3, <1>5, LockSame DEF SlotOK
    <3>2. NumOK(s)'
      BY <2>1, <1>1, <1>5, <1>6, KeptNum
    <3>3. DataOK(s)'
      BY <1>3, <1>4 DEF DataOK
    <3>4. CountOK(s)'
      BY <2>1, <2>3, <1>3, <1>5, CountSame DEF SlotOK
    <3>5. UnusedOK(s)'
      BY <2>1, <2>3, <1>1, <1>3, Used DEF UnusedOK, SlotOK
    <3> QED
      BY <2>3, <3>1, <3>2, <3>3, <3>4, <3>5 DEF SlotOK
  <2> QED
    BY <2>2, <2>3
<1>9. ASSUME NEW n \in imap' PROVE Absent(n)'
  <2>1. Absent(n) /\ n \in Nums
    BY <1>5 DEF InGood, InTypes
  <2> QED
    BY <2>1, <1>1, <1>4, <1>5, <1>6, KeptAbsent
<1>10. ASSUME NEW q \in InProcs \ {p} PROVE ProcOK(q)'
  <2>1. ProcOK(q) /\ NumOK(s)
    BY <1>1 DEF InGood, SlotOK
  <2>2. inProc[q].empty # 0 => inProc[q].empty \in Slots \ {s}
    BY <2>1, <1>1, CallFields DEF ProcOK, Emptied, Blank
  <2>3. inProc[q].pc = "reading" => inProc[q].slot \in Slots \ {s}
    BY <2>1, <1>7 DEF ProcOK, InCallOK
  <2>4. inProc[q].pc = "reading" => table[inProc[q].slot].num \in Nums \ {table[s].num}
    <3>1. inProc[q].pc = "reading" => table[inProc[q].slot].num # 0
      BY <2>1 DEF ProcOK
    <3> QED
      BY <3>1, <2>1, <2>3, SlotFields DEF NumOK
  <2>5. inProc[q].pc \in {"reading", "truncating"} => ~Uses(inProc'[p], inProc[q].slot)
    BY <1>5, Alone
  <2>6. inProc[q].empty # 0 => table'[inProc[q].empty] = table[inProc[q].empty]
    BY <2>2, <1>2
  <2>7. inProc[q].pc = "reading" =>
           /\ table'[inProc[q].slot].dirt = table[inProc[q].slot].dirt
           /\ disk'[table[inProc[q].slot].num] = disk[table[inProc[q].slot].num]
           /\ inLast'[table[inProc[q].slot].num] = inLast[table[inProc[q].slot].num]
    BY <2>3, <2>4, <1>2, <1>4, <1>5
  <2> QED
    BY <2>1, <2>5, <2>6, <2>7, <1>5, <1>6, KeptCall
<1>11. ProcOK(p)'
  <2>1. c.empty = 0 /\ ~c.asleep /\ InCallOK(c)
    BY <1>1 DEF ProcOK, InCallOK
  <2> QED
    BY <2>1, <1>1, <1>3, <1>5 DEF ProcOK
<1> QED
  BY <1>8, <1>9, <1>10, <1>11 DEF InGood

\* A user lets go of an inode that others use, or that is as it is on the disk.
LEMMA LettingGo ==
  ASSUME InTypes, InGood, NEW p \in InProcs, inProc[p].pc = "put", NEW s \in Slots, s = inProc[p].slot,
         ~table[s].lock, table[s].count # 1 \/ ~table[s].dirt, LetGo(p, s),
         UNCHANGED <<disk, imap, inLast>>
  PROVE  InGood'
<1> DEFINE c == inProc[p]
<1>1. ProcOK(p) /\ c.hold = s /\ table[s].num # 0 /\ Uses(c, s) /\ c.empty = 0 /\ 0 \notin Slots
  BY DEF InGood, ProcOK, InCallOK, Uses, Slots
<1>2. inProc'[p] = AtUser /\ Others(p)
  BY DEF LetGo, InTypes, Others, SameCall
<1>3. \A t \in Slots : ~Uses(AtUser, t) /\ ~Locks(AtUser, t) /\ AtUser.pc = "user"
  BY DEF AtUser, Uses, Locks, NoSlot, Slots
<1>4. /\ table'[s] = [table[s] EXCEPT !.count = @ - 1] /\ \A t \in Slots \ {s} : table'[t] = table[t]
  BY DEF LetGo, InTypes
<1>5. /\ table'[s].num = table[s].num /\ table'[s].count = table[s].count - 1
      /\ table'[s].lock = table[s].lock /\ table'[s].dirt = table[s].dirt /\ table'[s].data = table[s].data
      /\ table'[s].wait = table[s].wait
  BY <1>4, SlotFields DEF SlotType
<1>6. \A t \in Slots : table'[t].num = table[t].num /\ table'[t].lock = table[t].lock
                         /\ table'[t].wait = table[t].wait /\ table'[t].dirt = table[t].dirt
  BY <1>4, <1>5
<1>7. \A t \in Slots : SlotOK(t)'
  <2> SUFFICES ASSUME NEW t \in Slots PROVE SlotOK(t)'
    OBVIOUS
  <2>1. SlotOK(t) /\ NumOK(t)
    BY DEF InGood, SlotOK
  <2>2. CASE t # s
    <3>0. ~Uses(c, t) /\ ~Locks(c, t) /\ c.pc # "reading"
      BY <2>2, <1>1 DEF Uses, Locks
    <3>1. KeepsSlot(p, t)
      BY <2>2, <3>0, <1>2, <1>3, <1>4 DEF KeepsSlot
    <3> QED
      BY <3>1, <2>1, <1>2, <1>6, KeptSlot, KeptNum
  <2>3. CASE t = s
    <3>1. LockOK(s)'
      BY <2>1, <2>3, <1>2, <1>3, <1>5, LockSame DEF SlotOK, Locks
    <3>2. NumOK(s)'
      BY <2>1, <2>3, <1>6, KeptNum
    <3>3. DataOK(s)'
      BY <2>1, <2>3, <1>2, <1>3, <1>5, KeptData DEF SlotOK
    <3>4. CountOK(s)'
      BY <2>1, <2>3, <1>1, <1>2, <1>3, <1>5, CountLess DEF SlotOK
    <3>5. UnusedOK(s)'
      <4>1. table[s].count \in Nat /\ table[s].count # 0
        BY <2>1, <2>3, <1>1, Used, SlotFields DEF SlotOK
      <4> QED
        BY <4>1, <1>5 DEF UnusedOK
    <3> QED
      BY <2>3, <3>1, <3>2, <3>3, <3>4, <3>5 DEF SlotOK
  <2> QED
    BY <2>2, <2>3
<1>8. \A n \in imap' : Absent(n)'
  BY <1>6, KeptAbsent DEF InGood
<1>9. ASSUME NEW q \in InProcs \ {p} PROVE ProcOK(q)'
  <2>1. ProcOK(q)
    BY DEF InGood
  <2>2. inProc[q].empty # 0 => table'[inProc[q].empty] = table[inProc[q].empty]
    BY <2>1, <1>1, <1>4, CallFields DEF ProcOK, Emptied, Blank
  <2>3. inProc[q].pc \in {"reading", "truncating"} =>
           inProc[q].slot \in Slots /\ ~Uses(inProc'[p], inProc[q].slot)
    BY <1>2, <1>3, Alone
  <2> QED
    BY <2>1, <2>2, <2>3, <1>2, <1>6, KeptCall
<1>10. ProcOK(p)'
  BY <1>2 DEF ProcOK, InCallOK, AtUser, NoSlot
<1> QED
  BY <1>7, <1>8, <1>9, <1>10 DEF InGood

\* An inode that p may clear: only p uses it, nobody has locked it.
Spare(p, e) == e \in Slots /\ OnlyUser(p, e) /\ ~table[e].lock

\* The step puts another inode at e; the numbers elsewhere stay.
Replaces(e) ==
  /\ \A t \in Slots \ {e} : /\ table'[t].num = table[t].num
                            /\ table'[t].num = 0 \/ table'[t].num # table'[e].num
  /\ disk' = disk /\ \A n \in imap : inLast'[n] = inLast[n]
  /\ \A n \in imap : n # table[e].num => n \in imap'

LEMMA SpareUnlocked ==
  ASSUME InGood, NEW p, NEW e, Spare(p, e)
  PROVE  \A q \in InProcs : ~Locks(inProc[q], e)
BY DEF Spare, InGood, SlotOK, LockOK

\* The other inodes, the other processes, and the inodes that are on the disk alone.
LEMMA OtherSlots ==
  ASSUME InTypes, InGood, NEW p \in InProcs, Others(p), NEW e \in Slots, Replaces(e),
         NEW t \in Slots \ {e}, KeepsSlot(p, t)
  PROVE  SlotOK(t)'
<1>1. SlotOK(t) /\ NumOK(t) /\ NumOK(e)
  BY DEF InGood, SlotOK
<1>2. table[t].num # 0 => table[t].num \in imap /\ table[t].num # table[e].num
  BY <1>1 DEF NumOK
<1>3. table[t].num # 0 =>
        /\ disk'[table[t].num] = disk[table[t].num] /\ inLast'[table[t].num] = inLast[table[t].num]
        /\ table[t].num \in imap'
        /\ \A u \in Slots \ {t} : table'[u].num # table[t].num
  <2> SUFFICES ASSUME table[t].num # 0
               PROVE  /\ disk'[table[t].num] = disk[table[t].num]
                      /\ inLast'[table[t].num] = inLast[table[t].num]
                      /\ table[t].num \in imap'
                      /\ \A u \in Slots \ {t} : table'[u].num # table[t].num
    OBVIOUS
  <2>1. \A u \in Slots \ {t} : table'[u].num # table[t].num
    BY <1>1 DEF NumOK, Replaces
  <2> QED
    BY <2>1, <1>2 DEF Replaces
<1> QED
  BY <1>1, <1>3, KeptSlot

LEMMA OtherCalls ==
  ASSUME InTypes, InGood, NEW p \in InProcs, Others(p), NEW e \in Slots, Spare(p, e), Replaces(e),
         \A t \in Slots \ {e} :
           /\ table'[t].dirt = table[t].dirt /\ table'[t].lock = table[t].lock
           /\ table[t].wait \subseteq table'[t].wait /\ (table[t].num = 0 => table'[t] = table[t]),
         \A q \in InProcs \ {p} : inProc[q].pc \in {"reading", "truncating"} =>
                                    ~Uses(inProc'[p], inProc[q].slot)
  PROVE  \A q \in InProcs \ {p} : ProcOK(q)'
<1> SUFFICES ASSUME NEW q \in InProcs \ {p} PROVE ProcOK(q)'
  OBVIOUS
<1>1. ProcOK(q) /\ ~Locks(inProc[q], e) /\ OnlyUser(p, e)
  BY SpareUnlocked DEF InGood, Spare
<1>2. inProc[q].empty # 0 => inProc[q].empty \in Slots \ {e} /\ table[inProc[q].empty].num = 0
  BY <1>1, CallFields DEF ProcOK, Emptied, Blank, OnlyUser, Uses
<1>3. inProc[q].empty # 0 => table'[inProc[q].empty] = table[inProc[q].empty]
  BY <1>2
<1>4. inProc[q].pc = "reading" => /\ inProc[q].slot \in Slots \ {e}
                                  /\ table[inProc[q].slot].num \in imap
  <2>1. inProc[q].pc = "reading" => inProc[q].slot \in Slots /\ table[inProc[q].slot].num # 0
    BY <1>1 DEF ProcOK, InCallOK
  <2>2. inProc[q].pc = "reading" => NumOK(inProc[q].slot)
    BY <2>1 DEF InGood, SlotOK
  <2> QED
    BY <2>1, <2>2, <1>1 DEF Locks, NumOK
<1>5. \A s \in Slots : table[s].lock /\ q \in table[s].wait => table'[s].lock /\ q \in table'[s].wait
  BY DEF Spare
<1>6. inProc[q].pc = "reading" =>
           /\ table'[inProc[q].slot].dirt = table[inProc[q].slot].dirt
           /\ disk'[table[inProc[q].slot].num] = disk[table[inProc[q].slot].num]
           /\ inLast'[table[inProc[q].slot].num] = inLast[table[inProc[q].slot].num]
  BY <1>4 DEF Replaces
<1>7. \A t \in Slots \ {e} : table'[t].num = table[t].num
  BY DEF Replaces
<1> QED
  BY <1>1, <1>3, <1>5, <1>6, <1>7, QuietCall

LEMMA OtherAbsent ==
  ASSUME InTypes, InGood, NEW e \in Slots, Replaces(e),
         NEW n \in imap, table[e].num = n => disk[n] = inLast[n]
  PROVE  Absent(n)'
<1>1. Absent(n) /\ inLast'[n] = inLast[n] /\ disk' = disk
  BY DEF InGood, Replaces
<1>2. CASE table'[e].num = n
  BY <1>2 DEF Absent
<1>3. CASE table'[e].num # n /\ table[e].num = n
  BY <1>1, <1>3 DEF Absent
<1>4. CASE table'[e].num # n /\ table[e].num # n
  <2>1. (\A t \in Slots : table'[t].num # n) => \A t \in Slots : table[t].num # n
    BY <1>4 DEF Replaces
  <2> QED
    BY <1>1, <2>1 DEF Absent
<1> QED
  BY <1>2, <1>3, <1>4

\* truncate() is over and the inode is not locked.
LEMMA Truncating ==
  ASSUME InTypes, InGood, NEW p \in InProcs, Truncated(p), ~inCleared'
  PROVE  InGood'
<1> DEFINE c == inProc[p]
<1>1. PICK s \in Slots : s = c.slot
  BY DEF Truncated, At, InGood, ProcOK, InCallOK
<1>2. ProcOK(p) /\ c.hold = s /\ c.empty = 0 /\ OnlyUser(p, s) /\ table[s].num # 0 /\ c.pc = "truncating"
      /\ 0 \notin Slots
  BY <1>1 DEF Truncated, At, InGood, ProcOK, InCallOK, Slots
<1>3. Spare(p, s) /\ NumOK(s)
  BY <1>1, <1>2 DEF Truncated, Spare, InGood, SlotOK
<1>4. inProc'[p] = AtUser /\ Others(p)
  BY DEF Truncated, InTypes, Others, SameCall
<1>5. \A t \in Slots : ~Uses(AtUser, t) /\ ~Locks(AtUser, t) /\ AtUser.pc = "user"
  BY DEF AtUser, Uses, Locks, NoSlot, Slots
<1>6. table'[s] = Blank /\ \A t \in Slots \ {s} : table'[t] = table[t]
  BY <1>1 DEF Truncated, InTypes
<1>7. Blank.num = 0 /\ Blank.count = 0 /\ Blank.lock = FALSE /\ Blank.dirt = FALSE
  BY DEF Blank
<1>8. Replaces(s)
  BY <1>1, <1>6, <1>7 DEF Replaces, Truncated
<1>9. ASSUME NEW t \in Slots \ {s} PROVE SlotOK(t)'
  <2>1. ~Uses(c, t) /\ ~Locks(c, t) /\ c.pc # "reading"
    BY <1>2 DEF Uses, Locks
  <2>2. KeepsSlot(p, t)
    BY <2>1, <1>4, <1>5, <1>6 DEF KeepsSlot
  <2> QED
    BY <2>2, <1>4, <1>8, OtherSlots
<1>10. SlotOK(s)'
  <2>2. LockOK(s)'
    BY <1>3, <1>4, <1>5, <1>6, <1>7, SpareUnlocked, LockNone
  <2>3. CountOK(s)'
    BY <1>2, <1>4, <1>5, <1>6, <1>7, SoleUser
  <2>4. NumOK(s)' /\ DataOK(s)' /\ UnusedOK(s)'
    BY <1>6, <1>7 DEF NumOK, DataOK, UnusedOK
  <2> QED
    BY <2>2, <2>3, <2>4 DEF SlotOK
<1>11. ASSUME NEW n \in imap' PROVE Absent(n)'
  BY <1>1, <1>8, OtherAbsent DEF Truncated
<1>12. \A q \in InProcs \ {p} : ProcOK(q)'
  <2>1. \A q \in InProcs \ {p} : inProc[q].pc \in {"reading", "truncating"} =>
                                    ~Uses(inProc'[p], inProc[q].slot)
    BY <1>4, <1>5, Alone
  <2> QED
    BY <2>1, <1>3, <1>4, <1>6, <1>8, OtherCalls
<1>13. ProcOK(p)'
  BY <1>4 DEF ProcOK, InCallOK, AtUser, NoSlot
<1> QED
  BY <1>9, <1>10, <1>11, <1>12, <1>13 DEF InGood

\* An inode that nobody uses is one to clear, and its contents are on the disk.
LEMMA UnusedSpare ==
  ASSUME InTypes, InGood, NEW p \in InProcs, NEW e \in Slots, table[e].count = 0
  PROVE  /\ Spare(p, e) /\ \A q \in InProcs : ~Uses(inProc[q], e)
         /\ table[e].num # 0 => disk[table[e].num] = inLast[table[e].num]
<1>1. CountOK(e) /\ UnusedOK(e) /\ DataOK(e)
  BY DEF InGood, SlotOK
<1>2. \A q \in InProcs : ~Uses(inProc[q], e)
  BY <1>1, NoUsers
<1>3. ~table[e].lock /\ ~table[e].dirt
  BY <1>1 DEF UnusedOK
<1>4. table[e].num # 0 => disk[table[e].num] = inLast[table[e].num]
  BY <1>1, <1>2, <1>3 DEF DataOK, Uses
<1> QED
  BY <1>2, <1>3, <1>4 DEF Spare, OnlyUser

\* The emptied inode of an iget() that goes on is its own.
LEMMA Kept ==
  ASSUME InTypes, InGood, NEW p \in InProcs, NEW e, e = inProc[p].empty, inProc[p].pc = "search"
  PROVE  e \in Slots /\ Spare(p, e) /\ table[e] = Emptied
<1>1. ProcOK(p) /\ e \in Slots /\ table[e] = Emptied /\ Uses(inProc[p], e)
  BY CallFields DEF InGood, ProcOK, InCallOK, Uses
<1>2. CountOK(e) /\ table[e].count = 1 /\ ~table[e].lock
  BY <1>1 DEF InGood, SlotOK, Emptied, Blank
<1> QED
  BY <1>1, <1>2, OneUser DEF Spare

LEMMA SmallestIn ==
  ASSUME NEW S, S \subseteq Nat, S # {}
  PROVE  Smallest(S) \in S
BY LowestIn DEF Lowest, Smallest

\* A new inode gets a number, or there is none.
LEMMA Numbering ==
  ASSUME InTypes, InGood, NEW p \in InProcs, inProc[p].pc = "empty", NEW e \in Slots,
         table[e].count = 0, GetsNumber(p, e), disk' = disk
  PROVE  InGood'
<1> DEFINE c == inProc[p]
           free == Nums \ imap
           n == Smallest(free)
           data == [nlinks |-> 1, val |-> 0]
<1>1. /\ Spare(p, e) /\ (\A q \in InProcs : ~Uses(inProc[q], e))
      /\ (table[e].num # 0 => disk[table[e].num] = inLast[table[e].num]) /\ OnlyUser(p, e)
  BY UnusedSpare DEF Spare
<1>2. ProcOK(p) /\ c.hold = 0 /\ c.empty = 0 /\ 0 \notin Slots
  BY DEF InGood, ProcOK, InCallOK, Slots
<1>3. \A t \in Slots : ~Uses(c, t) /\ ~Locks(c, t) /\ c.pc # "reading"
  BY <1>2 DEF Uses, Locks
<1>4. CASE free = {}
  <2>1. inProc'[p] = AtUser /\ Others(p)
    BY <1>4 DEF GetsNumber, InTypes, Others, SameCall
  <2>2. \A t \in Slots : ~Uses(AtUser, t) /\ ~Locks(AtUser, t) /\ AtUser.pc = "user"
    BY DEF AtUser, Uses, Locks, NoSlot, Slots
  <2>3. table'[e] = Blank /\ (\A t \in Slots \ {e} : table'[t] = table[t]) /\ UNCHANGED <<imap, inLast>>
    BY <1>4 DEF GetsNumber, InTypes
  <2>4. Blank.num = 0 /\ Blank.count = 0 /\ Blank.lock = FALSE /\ Blank.dirt = FALSE
    BY DEF Blank
  <2>5. Replaces(e)
    BY <2>3, <2>4 DEF Replaces
  <2>6. ASSUME NEW t \in Slots \ {e} PROVE SlotOK(t)'
    <3>1. KeepsSlot(p, t)
      BY <1>3, <2>1, <2>2, <2>3 DEF KeepsSlot
    <3> QED
      BY <3>1, <2>1, <2>5, OtherSlots
  <2>7. SlotOK(e)'
    <3>1. LockOK(e)'
      BY <1>1, <2>1, <2>2, <2>3, <2>4, SpareUnlocked, LockNone
    <3>2. CountOK(e)'
      BY <1>1, <2>1, <2>2, <2>3, <2>4, SoleUser
    <3>3. NumOK(e)' /\ DataOK(e)' /\ UnusedOK(e)'
      BY <2>3, <2>4 DEF NumOK, DataOK, UnusedOK
    <3> QED
      BY <3>1, <3>2, <3>3 DEF SlotOK
  <2>8. ASSUME NEW m \in imap' PROVE Absent(m)'
    <3>1. m \in imap /\ m # 0
      BY <2>3 DEF InTypes, Nums
    <3> QED
      BY <3>1, <1>1, <2>5, OtherAbsent
  <2>9. \A q \in InProcs \ {p} : ProcOK(q)'
    <3>1. \A q \in InProcs \ {p} : inProc[q].pc \in {"reading", "truncating"} =>
                                      ~Uses(inProc'[p], inProc[q].slot)
      BY <2>1, <2>2, Alone
    <3> QED
      BY <3>1, <1>1, <2>1, <2>3, <2>5, OtherCalls
  <2>10. ProcOK(p)'
    BY <2>1 DEF ProcOK, InCallOK, AtUser, NoSlot
  <2> QED
    BY <2>6, <2>7, <2>8, <2>9, <2>10 DEF InGood
<1>5. CASE free # {}
  <2>0. n \in Nums /\ n \notin imap /\ n # 0
    BY <1>5, SmallestIn DEF Nums
  <2> DEFINE d == [AtUser EXCEPT !.hold = e]
             i == [Blank EXCEPT !.num = n, !.count = 1, !.dirt = TRUE, !.data = data]
  <2>1. inProc'[p] = d /\ Others(p)
    BY <1>5 DEF GetsNumber, InTypes, Others, SameCall
  <2>2. /\ d.pc = "user" /\ d.hold = e /\ d.empty = 0 /\ d.asleep = FALSE /\ Uses(d, e)
        /\ \A t \in Slots : ~Locks(d, t) /\ (t # e => ~Uses(d, t))
    BY <1>2 DEF AtUser, Uses, Locks, NoSlot
  <2>3. /\ table'[e] = i /\ (\A t \in Slots \ {e} : table'[t] = table[t])
        /\ imap' = imap \cup {n} /\ inLast' = [inLast EXCEPT ![n] = data]
    BY <1>5 DEF GetsNumber, InTypes
  <2>4. i.num = n /\ i.count = 1 /\ i.lock = FALSE /\ i.dirt = TRUE /\ i.data = data
    BY DEF Blank
  <2>5. inLast'[n] = data /\ \A m \in imap : inLast'[m] = inLast[m]
    BY <2>0, <2>3 DEF InTypes
  <2>6. \A t \in Slots : table[t].num # n
    BY <2>0 DEF InGood, SlotOK, NumOK
  <2> HIDE DEF n, free, data, d, i
  <2>7. Replaces(e)
    BY <2>3, <2>4, <2>5, <2>6 DEF Replaces
  <2>8. ASSUME NEW t \in Slots \ {e} PROVE SlotOK(t)'
    <3>1. KeepsSlot(p, t)
      BY <1>3, <2>1, <2>2, <2>3 DEF KeepsSlot
    <3> QED
      BY <3>1, <2>1, <2>7, OtherSlots
  <2>9. SlotOK(e)'
    <3>1. LockOK(e)'
      BY <1>1, <2>1, <2>2, <2>3, <2>4, SpareUnlocked, LockNone
    <3>2. CountOK(e)'
      BY <1>1, <2>1, <2>2, <2>3, <2>4, SoleUser
    <3>3. NumOK(e)'
      BY <2>3, <2>4, <2>6 DEF NumOK
    <3>4. DataOK(e)' /\ UnusedOK(e)'
      BY <2>3, <2>4, <2>5 DEF DataOK, UnusedOK
    <3> QED
      BY <3>1, <3>2, <3>3, <3>4 DEF SlotOK
  <2>10. ASSUME NEW m \in imap' PROVE Absent(m)'
    <3>1. CASE m = n
      BY <3>1, <2>3, <2>4 DEF Absent
    <3>2. CASE m # n
      <4>1. m \in imap /\ m # 0
        BY <3>2, <2>3 DEF InTypes, Nums
      <4> QED
        BY <4>1, <1>1, <2>7, OtherAbsent
    <3> QED
      BY <3>1, <3>2
  <2>11. \A q \in InProcs \ {p} : ProcOK(q)'
    <3>1. \A q \in InProcs \ {p} : inProc[q].pc \in {"reading", "truncating"} =>
                                      ~Uses(inProc'[p], inProc[q].slot)
      <4> SUFFICES ASSUME NEW q \in InProcs \ {p}, inProc[q].pc \in {"reading", "truncating"}
                   PROVE  ~Uses(inProc'[p], inProc[q].slot)
        OBVIOUS
      <4>1. inProc[q].slot \in Slots /\ Uses(inProc[q], inProc[q].slot)
        BY Alone DEF InGood, ProcOK, InCallOK, Uses
      <4> QED
        BY <4>1, <1>1, <2>1, <2>2
    <3> QED
      BY <3>1, <1>1, <2>1, <2>3, <2>7, OtherCalls
  <2>12. ProcOK(p)'
    <3>1. InCallOK(d)
      BY <2>2 DEF InCallOK
    <3> QED
      BY <3>1, <2>0, <2>1, <2>2, <2>3, <2>4 DEF ProcOK
  <2> QED
    BY <2>8, <2>9, <2>10, <2>11, <2>12 DEF InGood
<1> QED
  BY <1>4, <1>5

\* iget() looks for the number, with the inode e, which it has emptied.
LEMMA Searching ==
  ASSUME InTypes, InGood, NEW p \in InProcs, inProc[p].pc \in {"empty", "search"},
         NEW e \in Slots, Spare(p, e), table[e].num # 0 => disk[table[e].num] = inLast[table[e].num],
         inProc[p].nr \in Nums, inProc[p].hold = 0, inProc[p].empty \in {0, e}, ~inProc[p].asleep,
         NEW tbl, tbl = [table EXCEPT ![e] = Emptied], Search(p, tbl, e),
         UNCHANGED <<disk, imap, inLast>>, ~inLate'
  PROVE  InGood'
<1> DEFINE c == inProc[p]
           nr == inProc[p].nr
           hits == {s \in Slots : tbl[s].num = nr}
           s == Smallest(hits)
           freeing == \E q \in InProcs : inProc[q].pc = "truncating" /\ inProc[q].slot \in hits
           d == inProc'[p]
<1>1. tbl[e] = Emptied /\ (\A t \in Slots \ {e} : tbl[t] = table[t]) /\ tbl \in [Slots -> SlotType \cup {Emptied}]
  BY DEF InTypes
<1>2. /\ Emptied.num = 0 /\ Emptied.count = 1 /\ Emptied.lock = FALSE /\ Emptied.dirt = FALSE
      /\ Emptied.wait = {} /\ 0 \notin Slots /\ nr # 0 /\ Blank.num = 0 /\ Blank.dirt = FALSE
  BY DEF Emptied, Blank, Slots, Nums
<1>3. OnlyUser(p, e) /\ (\A q \in InProcs : ~Locks(inProc[q], e)) /\ c \in CallType /\ ProcOK(p)
  BY SpareUnlocked, CallFields DEF Spare, InGood
<1>4. \A t \in Slots \ {e} : ~Uses(c, t) /\ ~Locks(c, t) /\ c.pc # "reading"
  BY <1>2 DEF Uses, Locks
<1>5. hits # {} => s \in Slots \ {e} /\ table[s].num = nr
  <2>1. hits \subseteq Slots \ {e} /\ hits \subseteq Nat
    BY <1>1, <1>2 DEF Slots
  <2>2. hits # {} => s \in hits
    BY <2>1, SmallestIn
  <2> QED
    BY <2>1, <2>2, <1>1
<1>6. \A q \in InProcs \ {p} : inProc[q].pc \in {"reading", "truncating"} =>
                                  inProc[q].slot \in Slots \ {e}
  <2> SUFFICES ASSUME NEW q \in InProcs \ {p}, inProc[q].pc \in {"reading", "truncating"}
               PROVE  inProc[q].slot \in Slots \ {e}
    OBVIOUS
  <2>1. inProc[q].slot \in Slots /\ Uses(inProc[q], inProc[q].slot)
    BY Alone DEF InGood, ProcOK, InCallOK, Uses
  <2> QED
    BY <2>1, <1>3 DEF OnlyUser
<1>7. ASSUME NEW m \in imap', Replaces(e) PROVE Absent(m)'
  <2>1. m \in imap /\ m # 0
    BY <1>7 DEF InTypes, Nums
  <2> QED
    BY <2>1, <1>7, OtherAbsent
<1>8. CASE hits = {}
  <2> DEFINE i == [Blank EXCEPT !.num = nr, !.count = 1, !.lock = TRUE]
  <2>1. /\ table' = [tbl EXCEPT ![e] = i]
        /\ inProc' = [inProc EXCEPT ![p].pc = "reading", ![p].slot = e, ![p].empty = NoSlot]
        /\ nr \in imap
    BY <1>8 DEF Search
  <2>2. Others(p) /\ d = [[[c EXCEPT !.pc = "reading"] EXCEPT !.slot = e] EXCEPT !.empty = 0]
    BY <2>1 DEF InTypes, Others, SameCall, NoSlot
  <2>3. d.pc = "reading" /\ d.slot = e /\ d.empty = 0 /\ d.hold = 0 /\ d.asleep = c.asleep
    BY <2>2, <1>3 DEF CallType
  <2>4. i.num = nr /\ i.count = 1 /\ i.lock = TRUE /\ i.dirt = FALSE
    BY DEF Blank
  <2>5. table'[e] = i /\ \A t \in Slots \ {e} : table'[t] = table[t] /\ table[t].num # nr
    <3>1. \A t \in Slots : tbl[t].num # nr
      BY <1>8
    <3> QED
      BY <3>1, <2>1, <1>1
  <2>6. Uses(d, e) /\ Locks(d, e) /\ \A t \in Slots \ {e} : ~Uses(d, t) /\ ~Locks(d, t) /\ d.slot # t
    BY <2>3, <1>2 DEF Uses, Locks
  <2> HIDE DEF i, hits, s, nr, d
  <2>7. Replaces(e)
    BY <2>4, <2>5 DEF Replaces
  <2>8. ASSUME NEW t \in Slots \ {e} PROVE SlotOK(t)'
    <3>1. KeepsSlot(p, t)
      BY <1>4, <2>5, <2>6 DEF KeepsSlot, d
    <3> QED
      BY <3>1, <2>2, <2>7, OtherSlots
  <2>9. SlotOK(e)'
    <3>1. LockOK(e)
      BY DEF InGood, SlotOK
    <3>2. LockOK(e)'
      BY <3>1, <2>2, <2>4, <2>5, <2>6, LockTaken DEF Spare, d
    <3>3. CountOK(e)'
      BY <1>3, <2>2, <2>4, <2>5, <2>6, SoleUser DEF d
    <3>4. NumOK(e)'
      <4>1. table'[e].num = nr /\ nr \in imap' /\ \A t \in Slots \ {e} : table'[t].num # nr
        BY <2>1, <2>4, <2>5
      <4> QED
        BY <4>1 DEF NumOK
    <3>5. DataOK(e)' /\ UnusedOK(e)'
      BY <2>3, <2>4, <2>5 DEF DataOK, UnusedOK, d
    <3> QED
      BY <3>2, <3>3, <3>4, <3>5 DEF SlotOK
  <2>10. \A m \in imap' : Absent(m)'
    BY <2>7, <1>7
  <2>11. \A q \in InProcs \ {p} : ProcOK(q)'
    <3>1. \A q \in InProcs \ {p} : inProc[q].pc \in {"reading", "truncating"} =>
                                      ~Uses(inProc'[p], inProc[q].slot)
      BY <1>6, <2>6 DEF d
    <3> QED
      BY <3>1, <2>2, <2>5, <2>7, OtherCalls
  <2>12. ProcOK(p)'
    <3>2. disk[nr] = inLast[nr]
      <4>1. Absent(nr)
        BY <2>1 DEF InGood
      <4>2. CASE table[e].num = nr
        BY <4>2, <1>2
      <4>3. CASE table[e].num # nr
        <5>1. \A t \in Slots : table[t].num # nr
          BY <4>3, <2>5
        <5> QED
          BY <4>1, <5>1 DEF Absent
      <4> QED
        BY <4>2, <4>3
    <3>3. \A q \in InProcs \ {p} : ~Uses(inProc'[q], e)
      BY <1>3, <2>2, SameUse DEF Others, OnlyUser
    <3>4. ~d.asleep
      BY <2>3
    <3>5. InCallOK(d)
      BY <3>4, <2>3 DEF InCallOK
    <3> QED
      BY <3>2, <3>3, <3>4, <3>5, <2>3, <2>4, <2>5, <1>2 DEF ProcOK, OnlyUser, d
  <2> QED
    BY <2>8, <2>9, <2>10, <2>11, <2>12 DEF InGood
<1>9. CASE hits # {} /\ tbl[s].lock
  <2> DEFINE b == [inProc[p] EXCEPT !.pc = "search", !.slot = NoSlot, !.empty = e]
  <2>1. Sleeps(p, tbl, s, b) /\ s \in Slots \ {e} /\ table[s].num = nr
    BY <1>5, <1>9 DEF Search
  <2>2. Others(p) /\ d = [b EXCEPT !.asleep = TRUE]
    BY <2>1 DEF InTypes, Others, SameCall, Sleeps
  <2>3. /\ d.pc = "search" /\ d.empty = e /\ d.hold = 0 /\ d.nr = nr /\ d.asleep = TRUE
    BY <2>2, <1>3 DEF CallType
  <2>4. table'[e] = Emptied /\ table'[s] = [table[s] EXCEPT !.wait = @ \cup {p}]
        /\ \A t \in Slots \ {e, s} : table'[t] = table[t]
    BY <2>1, <1>1 DEF Sleeps
  <2>5. table[s].lock /\ table[s] \in SlotType
    BY <2>1, <1>1, <1>9, SlotFields
  <2>6. /\ table'[s].num = table[s].num /\ table'[s].count = table[s].count
        /\ table'[s].lock = table[s].lock /\ table'[s].dirt = table[s].dirt
        /\ table'[s].data = table[s].data /\ table'[s].wait = table[s].wait \cup {p}
    BY <2>4, <2>5 DEF SlotType
  <2>7. \A t \in Slots \ {e} :
          /\ table'[t].num = table[t].num /\ table'[t].count = table[t].count
          /\ table'[t].lock = table[t].lock /\ table'[t].dirt = table[t].dirt
          /\ table'[t].data = table[t].data /\ table[t].wait \subseteq table'[t].wait
          /\ (table[t].num = 0 => table'[t] = table[t])
    BY <2>1, <2>4, <2>6, <1>2
  <2>8. Uses(d, e) /\ ~Locks(d, e) /\ \A t \in Slots \ {e} : ~Uses(d, t) /\ ~Locks(d, t)
    BY <2>3, <1>2 DEF Uses, Locks
  <2> HIDE DEF hits, s, nr, d, b
  <2>9. Replaces(e)
    BY <2>4, <2>7, <1>2 DEF Replaces
  <2>10. ASSUME NEW t \in Slots \ {e} PROVE SlotOK(t)'
    <3>1. KeepsSlot(p, t)
      BY <1>4, <2>3, <2>7, <2>8 DEF KeepsSlot, d
    <3> QED
      BY <3>1, <2>2, <2>9, OtherSlots
  <2>11. SlotOK(e)'
    <3>2. LockOK(e)'
      BY <1>2, <1>3, <2>2, <2>4, <2>8, LockNone DEF d
    <3>3. CountOK(e)'
      BY <1>2, <1>3, <2>2, <2>4, <2>8, SoleUser DEF d
    <3>4. NumOK(e)' /\ DataOK(e)' /\ UnusedOK(e)'
      BY <2>4, <1>2 DEF NumOK, DataOK, UnusedOK
    <3> QED
      BY <3>2, <3>3, <3>4 DEF SlotOK
  <2>12. \A m \in imap' : Absent(m)'
    BY <2>9, <1>7
  <2>13. \A q \in InProcs \ {p} : ProcOK(q)'
    <3>1. \A q \in InProcs \ {p} : inProc[q].pc \in {"reading", "truncating"} =>
                                      ~Uses(inProc'[p], inProc[q].slot)
      BY <1>6, <2>8 DEF d
    <3> QED
      BY <3>1, <2>2, <2>7, <2>9, OtherCalls
  <2>14. ProcOK(p)'
    <3>1. InCallOK(d)
      BY <2>3, <1>2 DEF InCallOK
    <3>2. \E t \in Slots : p \in table'[t].wait /\ table'[t].lock
      BY <2>1, <2>5, <2>6
    <3> QED
      BY <3>1, <3>2, <2>3, <2>4 DEF ProcOK, d
  <2> QED
    BY <2>10, <2>11, <2>12, <2>13, <2>14 DEF InGood
<1>10. CASE hits # {} /\ ~tbl[s].lock
  <2>1. /\ table' = [tbl EXCEPT ![s].count = @ + 1, ![e].count = @ - 1]
        /\ inProc' = [inProc EXCEPT ![p] = [AtUser EXCEPT !.hold = s]]
        /\ ~freeing /\ s \in Slots \ {e} /\ table[s].num = nr /\ ~table[s].lock
    BY <1>1, <1>5, <1>10 DEF Search
  <2>2. Others(p) /\ d = [AtUser EXCEPT !.hold = s]
    BY <2>1 DEF InTypes, Others, SameCall
  <2>3. d.pc = "user" /\ d.hold = s /\ d.empty = 0 /\ d.asleep = FALSE
    BY <2>2 DEF AtUser, NoSlot
  <2>4. /\ table'[e] = [Emptied EXCEPT !.count = @ - 1] /\ table'[s] = [table[s] EXCEPT !.count = @ + 1]
        /\ \A t \in Slots \ {e, s} : table'[t] = table[t]
    BY <2>1, <1>1
  <2>5. /\ table'[s].num = table[s].num /\ table'[s].count = table[s].count + 1
        /\ table'[s].lock = table[s].lock /\ table'[s].dirt = table[s].dirt
        /\ table'[s].data = table[s].data /\ table'[s].wait = table[s].wait
    <3>1. table[s] \in SlotType /\ table'[s] = [table[s] EXCEPT !.count = @ + 1]
      BY <2>1, <2>4, SlotFields
    <3> HIDE DEF s
    <3> QED
      BY <3>1 DEF SlotType
  <2>6. /\ table'[e].num = 0 /\ table'[e].count = 0 /\ table'[e].lock = FALSE /\ table'[e].dirt = FALSE
    BY <2>4 DEF Emptied, Blank
  <2>7. \A q \in InProcs : inProc[q].pc \in {"reading", "truncating"} => inProc[q].slot # s
    <3>1. LockOK(s)
      BY <2>1 DEF InGood, SlotOK
    <3>2. s \in hits
      BY <2>1, <1>1
    <3> QED
      BY <3>1, <3>2, <2>1 DEF LockOK, Locks
  <2>8. Uses(d, s) /\ \A t \in Slots : ~Locks(d, t) /\ (t # s => ~Uses(d, t))
    BY <2>3, <1>2 DEF Uses, Locks
  <2> HIDE DEF hits, nr, d, freeing
  <2>9. Replaces(e)
    BY <2>4, <2>5, <2>6 DEF Replaces
  <2>10. ASSUME NEW t \in Slots \ {e} PROVE SlotOK(t)'
    <3>1. CASE t # s
      <4>1. KeepsSlot(p, t)
        BY <3>1, <1>4, <2>3, <2>4, <2>8 DEF KeepsSlot, d
      <4> QED
        BY <4>1, <2>2, <2>9, OtherSlots
    <3>2. CASE t = s
      <4>1. SlotOK(t) /\ LockOK(t) /\ NumOK(t) /\ DataOK(t) /\ CountOK(t) /\ UnusedOK(t)
        BY DEF InGood, SlotOK
      <4>2. LockOK(t)'
        BY <4>1, <3>2, <1>4, <2>2, <2>5, <2>8, LockSame DEF d
      <4>3. CountOK(t)'
        BY <4>1, <3>2, <1>4, <2>2, <2>5, <2>8, CountMore DEF d
      <4>4. NumOK(t)'
        BY <4>1, <3>2, <2>4, <2>5, <2>6 DEF NumOK
      <4>5. DataOK(t)'
        BY <4>1, <3>2, <1>4, <2>2, <2>3, <2>5, KeptData DEF d
      <4>6. UnusedOK(t)'
        BY <3>2, <2>5, SlotFields DEF UnusedOK
      <4> QED
        BY <4>2, <4>3, <4>4, <4>5, <4>6 DEF SlotOK
    <3> QED
      BY <3>1, <3>2
  <2>11. SlotOK(e)'
    <3>1. ~Uses(d, e) /\ ~Locks(d, e)
      BY <2>1, <2>8
    <3>2. LockOK(e)'
      BY <3>1, <1>3, <2>2, <2>6, LockNone DEF d
    <3>3. CountOK(e)'
      BY <3>1, <1>3, <2>2, <2>6, SoleUser DEF d
    <3>4. NumOK(e)' /\ DataOK(e)' /\ UnusedOK(e)'
      BY <2>6 DEF NumOK, DataOK, UnusedOK
    <3> QED
      BY <3>2, <3>3, <3>4 DEF SlotOK
  <2>12. \A m \in imap' : Absent(m)'
    BY <2>9, <1>7
  <2>13. \A q \in InProcs \ {p} : ProcOK(q)'
    <3>1. \A q \in InProcs \ {p} : inProc[q].pc \in {"reading", "truncating"} =>
                                      ~Uses(inProc'[p], inProc[q].slot)
      BY <1>6, <2>7, <2>8 DEF d
    <3>2. \A t \in Slots \ {e} :
           /\ table'[t].dirt = table[t].dirt /\ table'[t].lock = table[t].lock
           /\ table[t].wait \subseteq table'[t].wait /\ (table[t].num = 0 => table'[t] = table[t])
      BY <2>1, <2>4, <2>5, <1>2
    <3> QED
      BY <3>1, <3>2, <2>2, <2>9, OtherCalls
  <2>14. ProcOK(p)'
    <3>1. InCallOK(d)
      BY <2>3 DEF InCallOK
    <3>2. table'[d.hold].num # 0
      BY <2>1, <2>3, <2>5, <1>2
    <3> QED
      BY <3>1, <3>2, <2>3 DEF ProcOK, d
  <2> QED
    BY <2>10, <2>11, <2>12, <2>13, <2>14 DEF InGood
<1> QED
  BY <1>8, <1>9, <1>10

\* A step that leaves the table alone.
LEMMA Stays ==
  ASSUME InTypes, InGood, NEW p \in InProcs, NEW d, inProc' = [inProc EXCEPT ![p] = d],
         UNCHANGED <<table, disk, imap, inLast>>,
         inProc[p].pc \notin {"reading", "writing"}, d.pc \notin {"reading", "writing"},
         d.hold = inProc[p].hold, d.empty = inProc[p].empty, d.asleep = FALSE, InCallOK(d),
         d.pc = "truncating" => OnlyUser(p, d.slot)
  PROVE  InGood'
<1>1. Others(p) /\ inProc'[p] = d
  BY DEF InTypes, Others, SameCall
<1>2. \A s \in Slots : Uses(inProc'[p], s) <=> Uses(inProc[p], s)
  BY <1>1 DEF Uses
<1>3. ProcOK(p)'
  <2>1. ProcOK(p)
    BY DEF InGood
  <2>2. d.pc = "truncating" => \A q \in InProcs \ {p} : ~Uses(inProc'[q], d.slot)
    BY <1>1, SameUse DEF OnlyUser, Others
  <2> QED
    BY <2>1, <2>2, <1>1 DEF ProcOK, OnlyUser
<1>4. \A s \in Slots :
           /\ table'[s].num = table[s].num /\ table'[s].count = table[s].count
           /\ table'[s].lock = table[s].lock /\ table'[s].dirt = table[s].dirt
           /\ table'[s].data = table[s].data /\ table[s].wait \subseteq table'[s].wait
           /\ (~table[s].lock => table'[s] = table[s])
  OBVIOUS
<1> QED
  BY <1>1, <1>2, <1>3, <1>4, Moves

LEMMA Getting ==
  ASSUME InTypes, InGood, NEW p \in InProcs, NEW nr \in Nums, InGet(p, nr)
  PROVE  InGood'
<1> DEFINE c == inProc[p]
           d == [c EXCEPT !.pc = "empty", !.op = "get", !.nr = nr]
<1>1. c \in CallType /\ ProcOK(p) /\ c.pc = "user" /\ ~c.asleep /\ c.asleep \in BOOLEAN /\ c.hold = 0 /\ c.empty = 0
  BY CallFields DEF InGet, At, NoSlot, InGood, ProcOK, InCallOK
<1>2. inProc' = [inProc EXCEPT ![p] = d] /\ UNCHANGED <<table, disk, imap, inLast>>
  BY DEF InGet, InRest, InTypes
<1>3. d.pc = "empty" /\ d.op = "get" /\ d.nr = nr /\ d.empty = c.empty /\ d.hold = c.hold /\ d.asleep = FALSE
  BY <1>1 DEF CallType
<1>4. InCallOK(d)
  BY <1>1, <1>3 DEF InCallOK, Nums
<1> HIDE DEF d
<1> QED
  BY <1>1, <1>2, <1>3, <1>4, Stays

LEMMA Making ==
  ASSUME InTypes, InGood, NEW p \in InProcs, InNew(p)
  PROVE  InGood'
<1> DEFINE c == inProc[p]
           d == [c EXCEPT !.pc = "empty", !.op = "new"]
<1>1. c \in CallType /\ ProcOK(p) /\ c.pc = "user" /\ ~c.asleep /\ c.asleep \in BOOLEAN /\ c.hold = 0 /\ c.empty = 0
  BY CallFields DEF InNew, At, NoSlot, InGood, ProcOK, InCallOK
<1>2. inProc' = [inProc EXCEPT ![p] = d] /\ UNCHANGED <<table, disk, imap, inLast>>
  BY DEF InNew, InRest, InTypes
<1>3. d.pc = "empty" /\ d.op = "new" /\ d.empty = c.empty /\ d.hold = c.hold /\ d.asleep = FALSE
  BY <1>1 DEF CallType
<1>4. InCallOK(d)
  BY <1>1, <1>3 DEF InCallOK
<1> HIDE DEF d
<1> QED
  BY <1>1, <1>2, <1>3, <1>4, Stays

LEMMA Putting ==
  ASSUME InTypes, InGood, NEW p \in InProcs, InPut(p)
  PROVE  InGood'
<1> DEFINE c == inProc[p]
           d == [c EXCEPT !.pc = "put", !.op = "put", !.slot = c.hold]
<1>1. c \in CallType /\ ProcOK(p) /\ c.pc = "user" /\ ~c.asleep /\ c.asleep \in BOOLEAN /\ c.hold \in Slots /\ c.empty = 0
  BY CallFields DEF InPut, At, NoSlot, InGood, ProcOK, InCallOK
<1>2. inProc' = [inProc EXCEPT ![p] = d] /\ UNCHANGED <<table, disk, imap, inLast>>
  BY DEF InPut, InRest, InTypes
<1>3. d.pc = "put" /\ d.op = "put" /\ d.slot = c.hold /\ d.empty = c.empty /\ d.hold = c.hold /\ d.asleep = FALSE
  BY <1>1 DEF CallType
<1>4. InCallOK(d)
  BY <1>1, <1>3 DEF InCallOK
<1> HIDE DEF d
<1> QED
  BY <1>1, <1>2, <1>3, <1>4, Stays

LEMMA Syncing ==
  ASSUME InTypes, InGood, NEW p \in InProcs, InSync(p)
  PROVE  InGood'
<1> DEFINE c == inProc[p]
           d == [c EXCEPT !.pc = "sync", !.op = "sync", !.slot = 1]
<1>1. c \in CallType /\ ProcOK(p) /\ c.pc = "user" /\ ~c.asleep /\ c.asleep \in BOOLEAN /\ c.empty = 0
  BY CallFields DEF InSync, At, NoSlot, InGood, ProcOK, InCallOK
<1>2. inProc' = [inProc EXCEPT ![p] = d] /\ UNCHANGED <<table, disk, imap, inLast>>
  BY DEF InSync, InRest, InTypes
<1>3. d.pc = "sync" /\ d.op = "sync" /\ d.slot = 1 /\ d.empty = c.empty /\ d.hold = c.hold /\ d.asleep = FALSE
  BY <1>1 DEF CallType
<1>4. InCallOK(d)
  BY <1>1, <1>3 DEF InCallOK
<1> HIDE DEF d
<1> QED
  BY <1>1, <1>2, <1>3, <1>4, Stays

\* wait_on_inode(): p joins the queue of the locked inode s.
LEMMA Sleeping ==
  ASSUME InTypes, InGood, NEW p \in InProcs, NEW s \in Slots, table[s].lock,
         inProc[p].pc \in {"put", "sync"}, Sleeps(p, table, s, inProc[p]),
         UNCHANGED <<disk, imap, inLast>>
  PROVE  InGood'
<1> DEFINE c == inProc[p]
           d == [c EXCEPT !.asleep = TRUE]
<1>1. Others(p) /\ inProc'[p] = d /\ c \in CallType
  BY CallFields DEF Sleeps, InTypes, Others, SameCall
<1>2. /\ d.pc = c.pc /\ d.op = c.op /\ d.slot = c.slot /\ d.empty = c.empty /\ d.nr = c.nr
      /\ d.hold = c.hold /\ d.asleep = TRUE
  BY <1>1 DEF CallType
<1>3. table'[s] = [table[s] EXCEPT !.wait = @ \cup {p}] /\ \A t \in Slots \ {s} : table'[t] = table[t]
  BY DEF Sleeps, InTypes
<1>4. /\ table'[s].num = table[s].num /\ table'[s].count = table[s].count
      /\ table'[s].lock = table[s].lock /\ table'[s].dirt = table[s].dirt
      /\ table'[s].data = table[s].data /\ table'[s].wait = table[s].wait \cup {p}
  BY <1>3, SlotFields DEF SlotType
<1>5. \A t \in Slots :
           /\ table'[t].num = table[t].num /\ table'[t].count = table[t].count
           /\ table'[t].lock = table[t].lock /\ table'[t].dirt = table[t].dirt
           /\ table'[t].data = table[t].data /\ table[t].wait \subseteq table'[t].wait
           /\ (~table[t].lock => table'[t] = table[t])
  BY <1>3, <1>4
<1>6. ProcOK(p) /\ c.empty = 0
  BY DEF InGood, ProcOK, InCallOK
<1>7. \A t \in Slots : Uses(inProc'[p], t) <=> Uses(c, t)
  BY <1>1, <1>2 DEF Uses
<1>8. ProcOK(p)'
  <2>1. InCallOK(d)
    BY <1>2, <1>6 DEF ProcOK, InCallOK
  <2>2. c.hold # 0 => table'[c.hold].num # 0
    BY <1>5, <1>6, CallFields DEF ProcOK
  <2>3. \E t \in Slots : p \in table'[t].wait /\ table'[t].lock
    BY <1>4
  <2> QED
    BY <2>1, <2>2, <2>3, <1>1, <1>2, <1>6 DEF ProcOK
<1>9. inProc[p].pc \notin {"reading", "writing"} /\ inProc'[p].pc \notin {"reading", "writing"}
  BY <1>1, <1>2
<1> HIDE DEF d
<1> QED
  BY <1>1, <1>5, <1>7, <1>8, <1>9, Moves

\* the rest of iput()
LEMMA PuttingOn ==
  ASSUME InTypes, InGood, NEW p \in InProcs, InPutGoesOn(p)
  PROVE  InGood'
<1> DEFINE c == inProc[p]
<1>1. PICK s \in Slots : s = c.slot
  BY DEF InPutGoesOn, At, InGood, ProcOK, InCallOK
<1>2. /\ c \in CallType /\ ProcOK(p) /\ c.pc = "put" /\ c.op = "put" /\ c.hold = s /\ ~c.asleep
      /\ c.asleep \in BOOLEAN /\ Uses(c, s) /\ table[s].num # 0 /\ c.empty = 0
  BY <1>1, CallFields DEF InPutGoesOn, At, InGood, ProcOK, InCallOK, Uses, Slots
<1>3. UNCHANGED <<disk, imap, inLast>> /\ CountOK(s)
  BY DEF InPutGoesOn, InRest, InGood, SlotOK
<1>4. CASE table[s].lock /\ Sleeps(p, table, s, c)
  BY <1>2, <1>3, <1>4, Sleeping
<1>5. CASE ~table[s].lock /\ LetGo(p, s) /\ (table[s].count # 1 \/ ~table[s].dirt)
  BY <1>1, <1>2, <1>3, <1>5, LettingGo
<1>6. CASE /\ ~table[s].lock /\ LastUser(s)
           /\ inProc' = [inProc EXCEPT ![p].pc = "truncating"] /\ UNCHANGED table
  <2> DEFINE d == [c EXCEPT !.pc = "truncating"]
  <2>1. inProc' = [inProc EXCEPT ![p] = d]
    BY <1>6 DEF InTypes
  <2>2. /\ d.pc = "truncating" /\ d.op = c.op /\ d.slot = c.slot /\ d.empty = c.empty /\ d.hold = c.hold
        /\ d.asleep = FALSE
    BY <1>2 DEF CallType
  <2>3. OnlyUser(p, s)
    BY <1>2, <1>3, <1>6, OneUser DEF LastUser
  <2>4. InCallOK(d)
    BY <1>1, <1>2, <2>2 DEF InCallOK
  <2> HIDE DEF d
  <2>5. /\ UNCHANGED <<table, disk, imap, inLast>> /\ d.pc \notin {"reading", "writing"}
        /\ d.hold = c.hold /\ d.empty = c.empty /\ d.asleep = FALSE /\ OnlyUser(p, d.slot)
    BY <1>1, <1>3, <1>6, <2>2, <2>3
  <2> QED
    BY <1>2, <2>1, <2>4, <2>5, Stays
<1>7. CASE ~table[s].lock /\ LastUser(s) /\ WriteStarts(p, s)
  BY <1>1, <1>2, <1>3, <1>7, WriteStarting DEF LastUser
<1> QED
  BY <1>1, <1>4, <1>5, <1>6, <1>7 DEF InPutGoesOn, LastUser

\* the rest of sync_inodes()
LEMMA SyncingOn ==
  ASSUME InTypes, InGood, NEW p \in InProcs, InSyncGoesOn(p)
  PROVE  InGood'
<1> DEFINE c == inProc[p]
           s == c.slot
<1>1. /\ c \in CallType /\ ProcOK(p) /\ c.pc = "sync" /\ c.op = "sync" /\ ~c.asleep
      /\ c.asleep \in BOOLEAN /\ c.empty = 0 /\ s \in Nat \ {0} /\ (s <= NR_INODE => s \in Slots)
      /\ c.hold \in 0 .. NR_INODE /\ NR_INODE \in Nat
  <2>1. c \in CallType /\ ProcOK(p) /\ c.pc = "sync" /\ c.op = "sync" /\ ~c.asleep /\ c.slot # 0
        /\ c.empty = 0 /\ c.asleep \in BOOLEAN /\ c.slot \in 0 .. NR_INODE + 1 /\ NR_INODE \in Nat
    BY CallFields DEF InSyncGoesOn, At, InGood, ProcOK, InCallOK
  <2> QED
    BY <2>1 DEF Slots, CallType
<1>2. UNCHANGED <<disk, imap, inLast>>
  BY DEF InSyncGoesOn, InRest
<1>3. CASE inProc' = [inProc EXCEPT ![p] = Back(p)] /\ UNCHANGED table
  <2> DEFINE d == Back(p)
  <2>1. d.pc = "user" /\ d.hold = c.hold /\ d.empty = 0 /\ d.asleep = FALSE
    BY DEF Back, AtUser, NoSlot
  <2>2. InCallOK(d)
    BY <2>1 DEF InCallOK
  <2> HIDE DEF d
  <2>3. inProc' = [inProc EXCEPT ![p] = d]
    BY <1>3 DEF d
  <2> QED
    BY <1>1, <1>2, <1>3, <2>1, <2>2, <2>3, Stays
<1>4. CASE s <= NR_INODE /\ table[s].lock /\ Sleeps(p, table, s, c)
  BY <1>1, <1>2, <1>4, Sleeping
<1>5. CASE s <= NR_INODE /\ ~table[s].lock /\ MustWrite(s) /\ WriteStarts(p, s)
  <2>1. PICK t \in Slots : t = s
    BY <1>1, <1>5
  <2>2. table[t].count # 0 /\ table[t].num # 0
    BY <1>5, <2>1 DEF MustWrite, InGood, SlotOK, UnusedOK
  <2> QED
    BY <1>1, <1>2, <1>5, <2>1, <2>2, WriteStarting
<1>6. CASE inProc' = [inProc EXCEPT ![p].slot = s + 1] /\ UNCHANGED table
  <2> DEFINE d == [c EXCEPT !.slot = s + 1]
  <2>1. inProc' = [inProc EXCEPT ![p] = d]
    BY <1>6 DEF InTypes
  <2>2. /\ d.pc = "sync" /\ d.op = "sync" /\ d.slot = s + 1 /\ d.empty = c.empty /\ d.hold = c.hold
        /\ d.asleep = FALSE
    BY <1>1 DEF CallType
  <2>3. s + 1 # 0
    BY <1>1
  <2>4. InCallOK(d)
    BY <2>2, <2>3, <1>1 DEF InCallOK
  <2> HIDE DEF d
  <2> QED
    BY <1>1, <1>2, <1>6, <2>1, <2>2, <2>4, Stays
<1> QED
  BY <1>3, <1>4, <1>5, <1>6 DEF InSyncGoesOn

LEMMA SameGood ==
  ASSUME InGood, UNCHANGED <<table, disk, imap, inProc, inLast>>
  PROVE  InGood'
<1>1. \A p \in InProcs : ProcOK(p)'
  BY DEF InGood, ProcOK, OnlyUser
<1>2. ASSUME NEW s \in Slots PROVE SlotOK(s)'
  <2>1. LockOK(s) /\ NumOK(s) /\ DataOK(s) /\ CountOK(s) /\ UnusedOK(s)
    BY DEF InGood, SlotOK
  <2>2. LockOK(s)' /\ NumOK(s)'
    BY <2>1 DEF LockOK, NumOK
  <2>3. DataOK(s)' /\ CountOK(s)' /\ UnusedOK(s)'
    BY <2>1 DEF DataOK, CountOK, UnusedOK
  <2> QED
    BY <2>2, <2>3 DEF SlotOK
<1>3. \A n \in imap' : Absent(n)'
  BY DEF InGood, Absent
<1> QED
  BY <1>1, <1>2, <1>3 DEF InGood

\* iget() and new_inode() take an inode, and iget() searches again after its sleep
LEMMA Emptying ==
  ASSUME InTypes, InGood, NEW p \in InProcs, GetEmpty(p), ~inLate'
  PROVE  InGood'
<1> DEFINE c == inProc[p]
<1>1. c.pc = "empty" /\ ProcOK(p) /\ c.hold = 0 /\ c.empty = 0 /\ ~c.asleep /\ (c.op = "get" => c.nr \in Nums)
  BY CallFields DEF GetEmpty, At, InGood, ProcOK, InCallOK
<1>2. CASE UNCHANGED <<table, imap, inProc, inLast>>
  <2>1. UNCHANGED disk
    BY DEF GetEmpty
  <2> QED
    BY <1>2, <2>1, SameGood
<1>3. ASSUME NEW e \in UnusedSlots, Take(p, e) PROVE InGood'
  <2>1. e \in Slots /\ table[e].count = 0 /\ UNCHANGED disk
    BY <1>3 DEF UnusedSlots, GetEmpty
  <2>2. Spare(p, e) /\ (table[e].num # 0 => disk[table[e].num] = inLast[table[e].num])
    BY <2>1, UnusedSpare
  <2>3. CASE c.op = "get" /\ Search(p, [table EXCEPT ![e] = [Blank EXCEPT !.count = 1]], e)
             /\ UNCHANGED <<imap, inLast>>
    <3>1. PICK tbl : tbl = [table EXCEPT ![e] = [Blank EXCEPT !.count = 1]]
      OBVIOUS
    <3>2. tbl = [table EXCEPT ![e] = Emptied]
      BY <3>1 DEF Emptied
    <3>3. Search(p, tbl, e) /\ UNCHANGED <<disk, imap, inLast>>
      BY <2>1, <2>3, <3>1
    <3> QED
      BY <1>1, <2>1, <2>2, <2>3, <3>2, <3>3, Searching
  <2>4. CASE GetsNumber(p, e)
    BY <1>1, <2>1, <2>4, Numbering
  <2> QED
    BY <1>3, <2>3, <2>4 DEF Take
<1> QED
  BY <1>2, <1>3 DEF GetEmpty

LEMMA GettingOn ==
  ASSUME InTypes, InGood, NEW p \in InProcs, InGetGoesOn(p), ~inLate'
  PROVE  InGood'
<1> DEFINE c == inProc[p]
<1>1. c.pc = "search" /\ ProcOK(p) /\ c.hold = 0 /\ ~c.asleep /\ c.nr \in Nums
  BY CallFields DEF InGetGoesOn, At, InGood, ProcOK, InCallOK
<1>2. PICK e : e = c.empty
  OBVIOUS
<1>3. e \in Slots /\ Spare(p, e) /\ table[e] = Emptied
  BY <1>1, <1>2, Kept
<1>4. table = [table EXCEPT ![e] = Emptied]
  BY <1>3 DEF InTypes
<1>5. table[e].num = 0
  BY <1>3 DEF Emptied, Blank
<1>6. Search(p, table, e) /\ UNCHANGED <<disk, imap, inLast>>
  BY <1>2 DEF InGetGoesOn
<1> QED
  BY <1>1, <1>2, <1>3, <1>4, <1>5, <1>6, Searching

-----------------------------------------------------------------------------
\* The types, step by step.
LEMMA CallKind ==
  ASSUME NEW c \in CallType
  PROVE  /\ \A u \in Pcs : [c EXCEPT !.pc = u] \in CallType
         /\ \A o \in Ops : [c EXCEPT !.op = o] \in CallType
         /\ \A k \in 0 .. NR_INODE + 1 : [c EXCEPT !.slot = k] \in CallType
         /\ \A e \in 0 .. NR_INODE : [c EXCEPT !.empty = e] \in CallType
         /\ \A n \in 0 .. INODES_PER_BLOCK : [c EXCEPT !.nr = n] \in CallType
<1>1. ASSUME NEW u \in Pcs PROVE [c EXCEPT !.pc = u] \in CallType
  BY ZenonT(30) DEF CallType
<1>2. ASSUME NEW o \in Ops PROVE [c EXCEPT !.op = o] \in CallType
  BY ZenonT(30) DEF CallType
<1>3. ASSUME NEW k \in 0 .. NR_INODE + 1 PROVE [c EXCEPT !.slot = k] \in CallType
  BY ZenonT(30) DEF CallType
<1>4. ASSUME NEW e \in 0 .. NR_INODE PROVE [c EXCEPT !.empty = e] \in CallType
  BY ZenonT(30) DEF CallType
<1>5. ASSUME NEW n \in 0 .. INODES_PER_BLOCK PROVE [c EXCEPT !.nr = n] \in CallType
  BY ZenonT(30) DEF CallType
<1> QED
  BY <1>1, <1>2, <1>3, <1>4, <1>5

LEMMA CallKinds ==
  ASSUME NEW c \in CallType, NEW u \in Pcs
  PROVE  /\ \A o \in Ops : /\ [c EXCEPT !.pc = u, !.op = o] \in CallType
                           /\ \A n \in 0 .. INODES_PER_BLOCK : [c EXCEPT !.pc = u, !.op = o, !.nr = n] \in CallType
                           /\ \A k \in 0 .. NR_INODE + 1 : [c EXCEPT !.pc = u, !.op = o, !.slot = k] \in CallType
         /\ \A k \in 0 .. NR_INODE + 1 :
              /\ [c EXCEPT !.pc = u, !.slot = k] \in CallType
              /\ \A e \in 0 .. NR_INODE : [c EXCEPT !.pc = u, !.slot = k, !.empty = e] \in CallType
<1>1. [c EXCEPT !.pc = u] \in CallType
  BY CallKind
<1>2. PICK d \in CallType : d = [c EXCEPT !.pc = u]
  BY <1>1
<1>3. ASSUME NEW o \in Ops
      PROVE  /\ [c EXCEPT !.pc = u, !.op = o] \in CallType
             /\ \A n \in 0 .. INODES_PER_BLOCK : [c EXCEPT !.pc = u, !.op = o, !.nr = n] \in CallType
             /\ \A k \in 0 .. NR_INODE + 1 : [c EXCEPT !.pc = u, !.op = o, !.slot = k] \in CallType
  <2>1. [d EXCEPT !.op = o] \in CallType
    BY CallKind
  <2>2. PICK f \in CallType : f = [d EXCEPT !.op = o]
    BY <2>1
  <2>3. /\ \A n \in 0 .. INODES_PER_BLOCK : [f EXCEPT !.nr = n] \in CallType
        /\ \A k \in 0 .. NR_INODE + 1 : [f EXCEPT !.slot = k] \in CallType
    BY CallKind
  <2> QED
    BY <1>2, <2>2, <2>3, Zenon
<1>4. ASSUME NEW k \in 0 .. NR_INODE + 1
      PROVE  /\ [c EXCEPT !.pc = u, !.slot = k] \in CallType
             /\ \A e \in 0 .. NR_INODE : [c EXCEPT !.pc = u, !.slot = k, !.empty = e] \in CallType
  <2>1. [d EXCEPT !.slot = k] \in CallType
    BY CallKind
  <2>2. PICK f \in CallType : f = [d EXCEPT !.slot = k]
    BY <2>1
  <2>3. \A e \in 0 .. NR_INODE : [f EXCEPT !.empty = e] \in CallType
    BY CallKind
  <2> QED
    BY <1>2, <2>2, <2>3, Zenon
<1> QED
  BY <1>3, <1>4

LEMMA InSizes ==
  /\ NR_INODE \in Nat \ {0} /\ INODES_PER_BLOCK \in Nat \ {0} /\ Cardinality(InProcs) \in Nat \ {0}
  /\ 0 \in 0 .. NR_INODE /\ 0 \in 0 .. NR_INODE + 1 /\ 0 \in 0 .. INODES_PER_BLOCK
  /\ Slots \subseteq 0 .. NR_INODE /\ Slots \subseteq 0 .. NR_INODE + 1 /\ Nums \subseteq 0 .. INODES_PER_BLOCK
  /\ 0 \in 0 .. 2 * Cardinality(InProcs) /\ 1 \in 0 .. 2 * Cardinality(InProcs) /\ 1 \in 0 .. NR_INODE + 1
  /\ \A s \in Slots : s + 1 \in 0 .. NR_INODE + 1
<1>1. Cardinality(InProcs) \in Nat /\ Cardinality(InProcs) # 0
  BY InAssumption, FS_CardinalityType, FS_EmptySet
<1>2. NR_INODE \in Nat \ {0} /\ INODES_PER_BLOCK \in Nat \ {0}
  BY InAssumption
<1>3. PICK N : N = Cardinality(InProcs)
  OBVIOUS
<1>4. 0 \in 0 .. 2 * N /\ 1 \in 0 .. 2 * N
  BY <1>1, <1>3
<1> QED
  BY <1>1, <1>2, <1>3, <1>4 DEF Slots, Nums

LEMMA BlankKinds ==
  ASSUME NEW n \in 0 .. INODES_PER_BLOCK, NEW v \in Datum, NEW k \in 0 .. 2 * Cardinality(InProcs),
         NEW a \in BOOLEAN, NEW b \in BOOLEAN
  PROVE  [num |-> n, count |-> k, lock |-> a, dirt |-> b, wait |-> {}, data |-> v] \in SlotType
BY DEF SlotType

LEMMA BlankTyped ==
  /\ Zero \in Datum /\ Blank \in SlotType /\ Emptied \in SlotType /\ AtUser \in CallType
  /\ \A h \in 0 .. NR_INODE : [AtUser EXCEPT !.hold = h] \in CallType
<1>1. Zero \in Datum
  BY DEF Zero, Datum
<1>2. Blank \in SlotType
  BY <1>1, InSizes, BlankKinds DEF Blank
<1>3. AtUser \in CallType
  BY InSizes DEF AtUser, CallType, NoSlot, Pcs, Ops
<1>4. Emptied \in SlotType
  BY <1>2, InSizes DEF Emptied, SlotType
<1>5. \A h \in 0 .. NR_INODE : [AtUser EXCEPT !.hold = h] \in CallType
  BY <1>3, Zenon DEF CallType
<1> QED
  BY <1>1, <1>2, <1>3, <1>4, <1>5

LEMMA WokenTyped ==
  ASSUME InTypes, NEW s \in Slots
  PROVE  Woken(s) \in [InProcs -> CallType]
<1>1. \A p \in InProcs : inProc[p] \in CallType /\ [inProc[p] EXCEPT !.asleep = FALSE] \in CallType
  <2> SUFFICES ASSUME NEW p \in InProcs
               PROVE  inProc[p] \in CallType /\ [inProc[p] EXCEPT !.asleep = FALSE] \in CallType
    OBVIOUS
  <2>1. inProc[p] \in CallType
    BY DEF InTypes
  <2> QED
    BY <2>1 DEF CallType
<1> QED
  BY <1>1, Zenon DEF Woken

LEMMA SleepsTyped ==
  ASSUME InTypes, NEW p \in InProcs, NEW s \in Slots, NEW tbl \in [Slots -> SlotType], NEW q \in CallType,
         Sleeps(p, tbl, s, q)
  PROVE  table' \in [Slots -> SlotType] /\ inProc' \in [InProcs -> CallType]
<1>1. [q EXCEPT !.asleep = TRUE] \in CallType
  BY DEF CallType
<1>2. tbl[s] \in SlotType /\ tbl[s].wait \subseteq InProcs
  BY DEF SlotType
<1>3. tbl[s].wait \cup {p} \subseteq InProcs
  BY <1>2
<1>4. [tbl[s] EXCEPT !.wait = tbl[s].wait \cup {p}] \in SlotType
  BY <1>2, <1>3 DEF SlotType
<1>5. table' = [tbl EXCEPT ![s] = [tbl[s] EXCEPT !.wait = tbl[s].wait \cup {p}]]
  BY DEF Sleeps
<1> QED
  BY <1>1, <1>4, <1>5 DEF Sleeps, InTypes

LEMMA SearchTyped ==
  ASSUME InTypes, InGood, NEW p \in InProcs, NEW e \in Slots, inProc[p].nr \in Nums,
         NEW tbl, tbl = [table EXCEPT ![e] = Emptied], Search(p, tbl, e)
  PROVE  /\ table' \in [Slots -> SlotType] /\ inProc' \in [InProcs -> CallType]
         /\ (inLate \in BOOLEAN => inLate' \in BOOLEAN)
<1> DEFINE c == inProc[p]
           nr == inProc[p].nr
           hits == {s \in Slots : tbl[s].num = nr}
           s == Smallest(hits)
<1>1. tbl \in [Slots -> SlotType] /\ c \in CallType /\ tbl[e] = Emptied
      /\ \A t \in Slots \ {e} : tbl[t] = table[t]
  BY BlankTyped DEF InTypes
<1>2. hits # {} => s \in Slots /\ s # e
  <2>1. hits \subseteq Slots /\ hits \subseteq Nat /\ e \notin hits
    BY <1>1 DEF Slots, Emptied, Blank, Nums
  <2> QED
    BY <2>1, SmallestIn
<1>3. CASE hits = {}
  <2> DEFINE i == [num |-> nr, count |-> 1, lock |-> TRUE, dirt |-> FALSE, wait |-> {}, data |-> Zero]
             d == [c EXCEPT !.pc = "reading", !.slot = e, !.empty = 0]
  <2>1. i \in SlotType
    BY BlankTyped, BlankKinds, InSizes
  <2>2. d \in CallType
    <3>1. 0 \in 0 .. NR_INODE /\ e \in 0 .. NR_INODE + 1
      BY InSizes
    <3> QED
      BY <3>1, <1>1, CallKinds DEF Pcs, Ops
  <2>3. inProc' = [inProc EXCEPT ![p] = d] /\ table' = [tbl EXCEPT ![e] = i] /\ inLate' = (nr \notin imap)
    BY <1>3 DEF Search, InTypes, Blank, NoSlot
  <2> HIDE DEF i, d
  <2> QED
    BY <2>1, <2>2, <2>3, <1>1 DEF InTypes
<1>4. CASE hits # {} /\ tbl[s].lock
  <2> DEFINE d == [c EXCEPT !.pc = "search", !.slot = NoSlot, !.empty = e]
  <2>1. d \in CallType
    <3>1. 0 \in 0 .. NR_INODE + 1 /\ e \in 0 .. NR_INODE
      BY InSizes
    <3> QED
      BY <3>1, <1>1, CallKinds DEF NoSlot, Pcs, Ops
  <2>2. Sleeps(p, tbl, s, d) /\ s \in Slots /\ inLate' = inLate
    BY <1>2, <1>4 DEF Search
  <2> HIDE DEF d, s
  <2> QED
    BY <2>1, <2>2, <1>1, SleepsTyped
<1>5. CASE hits # {} /\ ~tbl[s].lock
  <2> DEFINE i == [tbl[s] EXCEPT !.count = @ + 1]
             j == [Emptied EXCEPT !.count = @ - 1]
             d == [AtUser EXCEPT !.hold = s]
  <2>1. CountOK(s) /\ s \in Slots /\ s # e
    BY <1>2, <1>5 DEF InGood, SlotOK
  <2>2. tbl[s].count + 1 \in 0 .. 2 * Cardinality(InProcs) /\ tbl[s] \in SlotType
    <3>1. tbl[s] = table[s] /\ tbl[s] \in SlotType
      BY <1>1, <2>1
    <3>2. PICK k, N : k = table[s].count /\ N = Cardinality(InProcs)
      OBVIOUS
    <3>3. k \in Nat /\ N \in Nat /\ N # 0 /\ k <= N
      BY <3>2, <2>1, CountBound
    <3>4. k + 1 \in 0 .. 2 * N
      BY <3>3
    <3> QED
      BY <3>1, <3>2, <3>4
  <2> HIDE DEF s
  <2>3. i \in SlotType
    BY <2>2 DEF SlotType
  <2>4. j \in SlotType
    <3>1. Emptied.count - 1 = 0
      BY DEF Emptied, Blank
    <3>2. [Emptied EXCEPT !.count = 0] \in SlotType
      BY InSizes, BlankTyped DEF SlotType
    <3> QED
      BY <3>1, <3>2
  <2>5. d \in CallType
    BY <2>1, BlankTyped, InSizes
  <2>6. table' = [[tbl EXCEPT ![s] = i] EXCEPT ![e] = j] /\ inProc' = [inProc EXCEPT ![p] = d] /\ inLate' \in BOOLEAN
    BY <1>1, <1>5, <2>1 DEF Search, s
  <2> HIDE DEF i, d, j
  <2> QED
    BY <2>3, <2>4, <2>5, <2>6, <1>1 DEF InTypes
<1> QED
  BY <1>3, <1>4, <1>5

LEMMA WriteStartsTyped ==
  ASSUME InTypes, NEW p \in InProcs, NEW s \in Slots, WriteStarts(p, s)
  PROVE  table' \in [Slots -> SlotType] /\ inProc' \in [InProcs -> CallType]
<1> DEFINE i == [table[s] EXCEPT !.lock = TRUE]
           d == [inProc[p] EXCEPT !.pc = "writing", !.slot = s]
<1>1. table[s] \in SlotType /\ inProc[p] \in CallType
  BY DEF InTypes
<1>2. i \in SlotType
  BY <1>1 DEF SlotType
<1>3. d \in CallType
  <2>1. s \in 0 .. NR_INODE + 1
    BY InSizes
  <2> QED
    BY <2>1, <1>1, CallKinds DEF Pcs, Ops
<1>4. table' = [table EXCEPT ![s] = i] /\ inProc' = [inProc EXCEPT ![p] = d]
  BY DEF WriteStarts, InTypes
<1> HIDE DEF i, d
<1> QED
  BY <1>2, <1>3, <1>4 DEF InTypes

LEMMA LetGoTyped ==
  ASSUME InTypes, NEW p \in InProcs, NEW s \in Slots, LetGo(p, s), table[s].count # 0
  PROVE  table' \in [Slots -> SlotType] /\ inProc' \in [InProcs -> CallType]
<1> DEFINE i == [table[s] EXCEPT !.count = @ - 1]
<1>1. table[s] \in SlotType /\ table[s].count \in 0 .. 2 * Cardinality(InProcs)
  BY DEF InTypes, SlotType
<1>2. PICK k, N : k = table[s].count /\ N = Cardinality(InProcs)
  OBVIOUS
<1>3. k - 1 \in 0 .. 2 * N
  BY <1>1, <1>2, InSizes
<1>4. table[s].count - 1 \in 0 .. 2 * Cardinality(InProcs)
  BY <1>2, <1>3
<1>5. i \in SlotType
  BY <1>1, <1>4 DEF SlotType
<1>6. table' = [table EXCEPT ![s] = i] /\ inProc' = [inProc EXCEPT ![p] = AtUser]
  BY DEF LetGo
<1> HIDE DEF i
<1> QED
  BY <1>5, <1>6, BlankTyped DEF InTypes

\* The types of the table and of the processes, for the steps of iget() and new_inode().
LEMMA GetTyped ==
  ASSUME InTypes, InGood, NEW p \in InProcs,
         InNew(p) \/ (\E nr \in Nums : InGet(p, nr)) \/ GetEmpty(p) \/ InGetGoesOn(p) \/ ReadEnds(p)
  PROVE  InTypes'
<1> DEFINE c == inProc[p]
<1>0. c \in CallType /\ ProcOK(p)
  BY DEF InTypes, InGood
<1>1. CASE InNew(p)
  <2> DEFINE d == [c EXCEPT !.pc = "empty", !.op = "new"]
  <2>1. inProc' = [inProc EXCEPT ![p] = d]
    BY <1>1 DEF InNew, InTypes
  <2>2. d \in CallType
    BY <1>0, CallKinds DEF Pcs, Ops
  <2> HIDE DEF d
  <2> QED
    BY <2>1, <2>2, <1>1 DEF InNew, InRest, InTypes
<1>2. ASSUME NEW nr \in Nums, InGet(p, nr) PROVE InTypes'
  <2> DEFINE d == [c EXCEPT !.pc = "empty", !.op = "get", !.nr = nr]
  <2>1. inProc' = [inProc EXCEPT ![p] = d]
    BY <1>2 DEF InGet, InTypes
  <2>2. d \in CallType
    <3>1. nr \in 0 .. INODES_PER_BLOCK
      BY InSizes
    <3> QED
      BY <3>1, <1>0, CallKinds DEF Pcs, Ops
  <2> HIDE DEF d
  <2> QED
    BY <2>1, <2>2, <1>2 DEF InGet, InRest, InTypes
<1>3. CASE GetEmpty(p)
  <2>1. CASE UNCHANGED <<table, imap, inProc, inLast, inLate>> /\ inPanic' = TRUE
    BY <1>3, <2>1 DEF GetEmpty, InTypes
  <2>2. ASSUME NEW e \in UnusedSlots, Take(p, e), inPanic' = inPanic PROVE InTypes'
    <3>1. e \in Slots /\ UNCHANGED <<disk, inCleared>> /\ (c.op = "get" => c.nr \in Nums)
      BY <1>0, <1>3, CallFields DEF UnusedSlots, GetEmpty, At, ProcOK, InCallOK
    <3>2. CASE c.op = "get" /\ Search(p, [table EXCEPT ![e] = [Blank EXCEPT !.count = 1]], e)
               /\ UNCHANGED <<imap, inLast>>
      <4>1. PICK tbl : tbl = [table EXCEPT ![e] = Emptied]
        OBVIOUS
      <4>2. Search(p, tbl, e)
        BY <4>1, <3>2 DEF Emptied
      <4>3. /\ table' \in [Slots -> SlotType] /\ inProc' \in [InProcs -> CallType]
            /\ inLate' \in BOOLEAN
        BY <3>1, <3>2, <4>1, <4>2, SearchTyped DEF InTypes
      <4> QED
        BY <4>3, <3>1, <3>2, <2>2 DEF InTypes
    <3>3. CASE GetsNumber(p, e) /\ UNCHANGED inLate
      <4> DEFINE free == Nums \ imap
                 n == Smallest(free)
                 data == [nlinks |-> 1, val |-> 0]
      <4>1. CASE free = {}
        <5>1. table' = [table EXCEPT ![e] = Blank] /\ inProc' = [inProc EXCEPT ![p] = AtUser]
              /\ UNCHANGED <<imap, inLast>>
          BY <3>3, <4>1 DEF GetsNumber
        <5> QED
          BY <5>1, <2>2, <3>1, <3>3, BlankTyped DEF InTypes
      <4>2. CASE free # {}
        <5> DEFINE i == [num |-> n, count |-> 1, lock |-> FALSE, dirt |-> TRUE, wait |-> {}, data |-> data]
                   d == [AtUser EXCEPT !.hold = e]
        <5>1. free \subseteq Nat
          BY DEF Nums
        <5>2. n \in Nums
          BY <5>1, <4>2, SmallestIn
        <5>3. data \in Datum
          BY DEF Datum
        <5>4. i \in SlotType
          BY <5>2, <5>3, BlankKinds, InSizes
        <5>5. d \in CallType
          BY <3>1, BlankTyped, InSizes
        <5>6. table' = [table EXCEPT ![e] = i] /\ inProc' = [inProc EXCEPT ![p] = d]
              /\ imap' = imap \cup {n} /\ inLast' = [inLast EXCEPT ![n] = data]
          BY <3>3, <4>2 DEF GetsNumber, Blank
        <5> HIDE DEF free, n, data, i, d
        <5> QED
          BY <5>2, <5>3, <5>4, <5>5, <5>6, <2>2, <3>1, <3>3 DEF InTypes
      <4> QED
        BY <4>1, <4>2
    <3> QED
      BY <2>2, <3>2, <3>3 DEF Take
  <2> QED
    BY <1>3, <2>1, <2>2 DEF GetEmpty
<1>4. CASE InGetGoesOn(p)
  <2>1. PICK e : e = c.empty
    OBVIOUS
  <2>2. e \in Slots /\ table[e] = Emptied /\ c.nr \in Nums
    BY <1>0, <1>4, <2>1, Kept, CallFields DEF InGetGoesOn, At, ProcOK, InCallOK
  <2>3. table = [table EXCEPT ![e] = Emptied] /\ Search(p, table, e)
    BY <1>4, <2>1, <2>2 DEF InTypes, InGetGoesOn
  <2>4. /\ table' \in [Slots -> SlotType] /\ inProc' \in [InProcs -> CallType] /\ inLate' \in BOOLEAN
    BY <2>2, <2>3, SearchTyped DEF InTypes
  <2> QED
    BY <2>4, <1>4 DEF InGetGoesOn, InTypes
<1>5. CASE ReadEnds(p)
  <2>1. PICK s : s = c.slot
    OBVIOUS
  <2>2. s \in Slots /\ table[s].num \in Nums
    <3>1. s \in Slots /\ table[s].num # 0
      BY <1>0, <1>5, <2>1 DEF ReadEnds, At, ProcOK, InCallOK
    <3> QED
      BY <3>1, SlotFields
  <2> DEFINE i == [Unlocked(table[s]) EXCEPT !.data = disk[table[s].num]]
             d == [AtUser EXCEPT !.hold = s]
  <2>3. i \in SlotType
    BY <2>2 DEF Unlocked, InTypes, SlotType
  <2>4. d \in CallType
    BY <2>2, BlankTyped, InSizes
  <2>5. table' = [table EXCEPT ![s] = i] /\ inProc' = [Woken(s) EXCEPT ![p] = d]
    BY <1>5, <2>1 DEF ReadEnds
  <2> HIDE DEF i, d
  <2>6. inProc' \in [InProcs -> CallType]
    BY <2>2, <2>4, <2>5, WokenTyped
  <2> QED
    BY <2>3, <2>5, <2>6, <1>5 DEF ReadEnds, InRest, InTypes
<1> QED
  BY <1>1, <1>2, <1>3, <1>4, <1>5

\* and for the other steps
LEMMA PutTyped ==
  ASSUME InTypes, InGood, NEW p \in InProcs,
         \/ \E data \in Datum : Change(p, data)
         \/ WriteEnds(p) \/ InPut(p) \/ InPutGoesOn(p) \/ Truncated(p) \/ InSync(p) \/ InSyncGoesOn(p)
  PROVE  InTypes'
<1> DEFINE c == inProc[p]
<1>0. c \in CallType /\ ProcOK(p) /\ c.op \in Ops /\ c.hold \in 0 .. NR_INODE /\ c.slot \in 0 .. NR_INODE + 1
  BY DEF InTypes, InGood, CallType
<1>1. ASSUME NEW data \in Datum, Change(p, data) PROVE InTypes'
  <2>1. PICK s : s = c.hold
    OBVIOUS
  <2>2. s \in Slots /\ table[s].num \in Nums
    <3>1. s \in Slots /\ table[s].num # 0
      BY <1>0, <1>1, <2>1, CallFields DEF Change, NoSlot, ProcOK
    <3> QED
      BY <3>1, SlotFields
  <2> DEFINE i == [[table[s] EXCEPT !.data = data] EXCEPT !.dirt = TRUE]
  <2>3. i \in SlotType
    BY <2>2 DEF InTypes, SlotType
  <2>4. table' = [table EXCEPT ![s] = i] /\ inLast' = [inLast EXCEPT ![table[s].num] = data]
    BY <1>1, <2>1, <2>2 DEF Change, InTypes
  <2> HIDE DEF i
  <2> QED
    BY <2>2, <2>3, <2>4, <1>1 DEF Change, InTypes
<1>2. CASE WriteEnds(p)
  <2>1. PICK s : s = c.slot
    OBVIOUS
  <2>2. s \in Slots /\ table[s].num \in Nums /\ c.op \in {"put", "sync"}
    <3>1. s \in Slots /\ table[s].num # 0 /\ c.op \in {"put", "sync"}
      BY <1>0, <1>2, <2>1 DEF WriteEnds, At, ProcOK, InCallOK
    <3> QED
      BY <3>1, SlotFields
  <2>3. PICK k : k = IF c.op = "sync" THEN s + 1 ELSE s
    OBVIOUS
  <2> DEFINE i == [Unlocked(table[s]) EXCEPT !.dirt = FALSE]
             d == [Woken(s)[p] EXCEPT !.pc = c.op, !.slot = k]
  <2>4. i \in SlotType
    BY <2>2 DEF Unlocked, InTypes, SlotType
  <2>5. Woken(s) \in [InProcs -> CallType] /\ Woken(s)[p] \in CallType
    BY <2>2, WokenTyped
  <2>6. k \in 0 .. NR_INODE + 1 /\ c.op \in Pcs
    BY <2>2, <2>3, InSizes DEF Pcs
  <2>7. d \in CallType
    BY <2>5, <2>6, CallKinds
  <2>8. table' = [table EXCEPT ![s] = i] /\ inProc' = [Woken(s) EXCEPT ![p] = d]
        /\ disk' = [disk EXCEPT ![table[s].num] = table[s].data]
    BY <1>2, <2>1, <2>3, <2>5 DEF WriteEnds
  <2> HIDE DEF i, d
  <2>9. inProc' \in [InProcs -> CallType]
    BY <2>5, <2>7, <2>8
  <2>10. table[s].data \in Datum
    BY <2>2, SlotFields
  <2> QED
    BY <2>2, <2>4, <2>8, <2>9, <2>10, <1>2 DEF WriteEnds, InTypes
<1>3. CASE InPut(p)
  <2> DEFINE d == [c EXCEPT !.pc = "put", !.op = "put", !.slot = c.hold]
  <2>1. inProc' = [inProc EXCEPT ![p] = d]
    BY <1>3 DEF InPut, InTypes
  <2>2. d \in CallType
    <3>1. c.hold \in 0 .. NR_INODE + 1
      BY <1>0, InSizes
    <3> QED
      BY <3>1, <1>0, CallKinds DEF Pcs, Ops
  <2> HIDE DEF d
  <2> QED
    BY <2>1, <2>2, <1>3 DEF InPut, InRest, InTypes
<1>4. CASE InPutGoesOn(p)
  <2>1. PICK s : s = c.slot
    OBVIOUS
  <2>2. s \in Slots /\ Uses(c, s) /\ CountOK(s)
    BY <1>0, <1>4, <2>1 DEF InPutGoesOn, At, ProcOK, InCallOK, Uses, InGood, SlotOK
  <2>3. CASE Sleeps(p, table, s, c)
    <3>1. table' \in [Slots -> SlotType] /\ inProc' \in [InProcs -> CallType]
      BY <2>2, <2>3, <1>0, SleepsTyped DEF InTypes
    <3> QED
      BY <3>1, <1>4 DEF InPutGoesOn, InRest, InTypes
  <2>4. CASE LetGo(p, s)
    <3>1. table' \in [Slots -> SlotType] /\ inProc' \in [InProcs -> CallType]
      BY <2>2, <2>4, Used, LetGoTyped
    <3> QED
      BY <3>1, <1>4 DEF InPutGoesOn, InRest, InTypes
  <2>5. CASE inProc' = [inProc EXCEPT ![p].pc = "truncating"] /\ UNCHANGED table
    <3> DEFINE d == [c EXCEPT !.pc = "truncating"]
    <3>1. d \in CallType
      BY <1>0, CallKind DEF Pcs
    <3>2. inProc' = [inProc EXCEPT ![p] = d]
      BY <2>5 DEF InTypes
    <3> HIDE DEF d
    <3> QED
      BY <3>1, <3>2, <2>5, <1>4 DEF InPutGoesOn, InRest, InTypes
  <2>6. CASE WriteStarts(p, s)
    <3>1. table' \in [Slots -> SlotType] /\ inProc' \in [InProcs -> CallType]
      BY <2>2, <2>6, WriteStartsTyped
    <3> QED
      BY <3>1, <1>4 DEF InPutGoesOn, InRest, InTypes
  <2> QED
    BY <1>4, <2>1, <2>3, <2>4, <2>5, <2>6 DEF InPutGoesOn
<1>5. CASE Truncated(p)
  <2>1. PICK s : s = c.slot
    OBVIOUS
  <2>2. s \in Slots
    BY <1>0, <1>5, <2>1 DEF Truncated, At, ProcOK, InCallOK
  <2>3. table' = [table EXCEPT ![s] = Blank] /\ inProc' = [inProc EXCEPT ![p] = AtUser]
        /\ inCleared' = table[s].lock /\ imap' = imap \ {table[s].num}
    BY <1>5, <2>1 DEF Truncated
  <2>4. table[s].lock \in BOOLEAN
    BY <2>2, SlotFields
  <2>5. inCleared' \in BOOLEAN
    BY <2>3, <2>4
  <2>6. UNCHANGED <<disk, inPanic, inLast, inLate>>
    BY <1>5 DEF Truncated
  <2>7. table' \in [Slots -> SlotType] /\ inProc' \in [InProcs -> CallType] /\ imap' \subseteq Nums
    BY <2>3, BlankTyped DEF InTypes
  <2> QED
    BY <2>5, <2>6, <2>7 DEF InTypes
<1>6. CASE InSync(p)
  <2> DEFINE d == [c EXCEPT !.pc = "sync", !.op = "sync", !.slot = 1]
  <2>1. inProc' = [inProc EXCEPT ![p] = d]
    BY <1>6 DEF InSync, InTypes
  <2>2. d \in CallType
    <3>1. 1 \in 0 .. NR_INODE + 1
      BY InSizes
    <3> QED
      BY <3>1, <1>0, CallKinds DEF Pcs, Ops
  <2> HIDE DEF d
  <2> QED
    BY <2>1, <2>2, <1>6 DEF InSync, InRest, InTypes
<1>7. CASE InSyncGoesOn(p)
  <2>1. PICK s : s = c.slot
    OBVIOUS
  <2>2. s \in 0 .. NR_INODE + 1 /\ s # 0 /\ NR_INODE \in Nat
    BY <1>0, <1>7, <2>1, InSizes DEF InSyncGoesOn, At, ProcOK, InCallOK
  <2>3. s <= NR_INODE => s \in Slots
    BY <2>2 DEF Slots
  <2>4. CASE inProc' = [inProc EXCEPT ![p] = Back(p)] /\ UNCHANGED table
    <3>1. Back(p) \in CallType
      BY <1>0, BlankTyped DEF Back
    <3> QED
      BY <3>1, <2>4, <1>7 DEF InSyncGoesOn, InRest, InTypes
  <2>5. CASE s <= NR_INODE /\ Sleeps(p, table, s, c)
    <3>1. table' \in [Slots -> SlotType] /\ inProc' \in [InProcs -> CallType]
      BY <2>3, <2>5, <1>0, SleepsTyped DEF InTypes
    <3> QED
      BY <3>1, <1>7 DEF InSyncGoesOn, InRest, InTypes
  <2>6. CASE s <= NR_INODE /\ WriteStarts(p, s)
    <3>1. table' \in [Slots -> SlotType] /\ inProc' \in [InProcs -> CallType]
      BY <2>3, <2>6, WriteStartsTyped
    <3> QED
      BY <3>1, <1>7 DEF InSyncGoesOn, InRest, InTypes
  <2>7. CASE s <= NR_INODE /\ inProc' = [inProc EXCEPT ![p].slot = s + 1] /\ UNCHANGED table
    <3> DEFINE d == [c EXCEPT !.slot = s + 1]
    <3>1. s + 1 \in 0 .. NR_INODE + 1
      BY <2>3, <2>7, InSizes
    <3>2. d \in CallType
      BY <1>0, <3>1, CallKind
    <3>3. inProc' = [inProc EXCEPT ![p] = d]
      BY <2>7 DEF InTypes
    <3> HIDE DEF d
    <3> QED
      BY <3>2, <3>3, <2>7, <1>7 DEF InSyncGoesOn, InRest, InTypes
  <2> QED
    BY <1>7, <2>1, <2>4, <2>5, <2>6, <2>7 DEF InSyncGoesOn
<1> QED
  BY <1>1, <1>2, <1>3, <1>4, <1>5, <1>6, <1>7

-----------------------------------------------------------------------------
LEMMA InStart ==
  ASSUME InInit
  PROVE  InInv
<1>1. InTypes
  <2>1. [Zero EXCEPT !.nlinks = 1] \in Datum /\ Zero \in Datum /\ 1 \in Nums
    BY InAssumption DEF Zero, Datum, Nums
  <2> QED
    BY <2>1, BlankTyped DEF InInit, InTypes
<1>2. AtUser.pc = "user" /\ AtUser.hold = 0 /\ AtUser.empty = 0 /\ AtUser.asleep = FALSE /\ 0 \notin Slots
  BY DEF AtUser, NoSlot, Slots
<1>3. InCallOK(AtUser) /\ \A s \in Slots : ~Uses(AtUser, s) /\ ~Locks(AtUser, s)
  BY <1>2 DEF InCallOK, Uses, Locks
<1>4. \A p \in InProcs : inProc[p] = AtUser
  BY DEF InInit
<1>5. \A s \in Slots : table[s] = Blank
  BY DEF InInit
<1>6. Blank.num = 0 /\ Blank.count = 0 /\ Blank.lock = FALSE /\ Blank.dirt = FALSE
  BY DEF Blank
<1>7. \A p \in InProcs : ProcOK(p)
  BY <1>2, <1>3, <1>4 DEF ProcOK
<1>8. ASSUME NEW s \in Slots PROVE SlotOK(s)
  <2>1. LockOK(s) /\ NumOK(s) /\ DataOK(s) /\ UnusedOK(s)
    BY <1>3, <1>4, <1>5, <1>6 DEF LockOK, NumOK, DataOK, UnusedOK
  <2>2. {p \in InProcs : Uses(inProc[p], s)} = {}
    BY <1>3, <1>4
  <2>3. Cardinality({}) = 0
    BY FS_EmptySet
  <2>4. CountOK(s)
    BY <2>2, <2>3, <1>5, <1>6 DEF CountOK
  <2> QED
    BY <2>1, <2>4 DEF SlotOK
<1>9. \A n \in imap : Absent(n)
  BY DEF InInit, Absent
<1> QED
  BY <1>1, <1>7, <1>8, <1>9 DEF InInv, InGood

LEMMA InStepGood ==
  ASSUME InInv, NEW p \in InProcs, InStep(p)
  PROVE  InInv'
<1>1. ~inLate /\ ~inCleared
  BY DEF InStep, InOldStep, InNew, InGet, Change, GetEmpty, InGetGoesOn, ReadEnds, WriteEnds, InPut,
         InPutGoesOn, Truncated, InSync, InSyncGoesOn, At
<1>2. InTypes /\ InGood
  BY <1>1 DEF InInv
<1>3. InTypes'
  BY <1>2, GetTyped, PutTyped DEF InStep, InOldStep
<1>4. ASSUME ~inLate', ~inCleared' PROVE InGood'
  BY <1>2, <1>4, Getting, Making, ChangeKeeps, Emptying, GettingOn, ReadEnding, WriteEnding, Putting,
     PuttingOn, Truncating, Syncing, SyncingOn DEF InStep, InOldStep
<1> QED
  BY <1>3, <1>4 DEF InInv

LEMMA InStutter ==
  ASSUME InInv, UNCHANGED inVars
  PROVE  InInv'
<1>1. InTypes'
  BY DEF InInv, InTypes, inVars
<1>2. InGood => InGood'
  BY SameGood DEF inVars
<1> QED
  BY <1>1, <1>2 DEF InInv, inVars

\* The users of an inode are of three kinds, and no process is of two.
LEMMA UsersAre ==
  ASSUME InTypes, InGood, NEW s \in Slots
  PROVE  table[s].count = Holders(s)
<1> DEFINE H == {p \in InProcs : inProc[p].hold = s}
           E == {p \in InProcs : inProc[p].empty = s}
           R == {p \in InProcs : inProc[p].pc = "reading" /\ inProc[p].slot = s}
<1>1. IsFiniteSet(H) /\ IsFiniteSet(E) /\ IsFiniteSet(R)
  <2>1. H \subseteq InProcs /\ E \subseteq InProcs /\ R \subseteq InProcs
    OBVIOUS
  <2> HIDE DEF H, E, R
  <2> QED
    BY <2>1, InAssumption, FS_Subset
<1>2. \A p \in InProcs : InCallOK(inProc[p]) /\ s # 0
  BY DEF InGood, ProcOK, Slots
<1>3. H \cap E = {} /\ (H \cup E) \cap R = {}
  BY <1>2 DEF InCallOK
<1>4. {p \in InProcs : Uses(inProc[p], s)} = (H \cup E) \cup R
  BY DEF Uses
<1>5. CountOK(s) /\ Holders(s) = Cardinality(H) + Cardinality(E) + Cardinality(R)
  BY DEF InGood, SlotOK, Holders
<1> HIDE DEF H, E, R
<1>6. /\ IsFiniteSet(H \cup E) /\ Cardinality(H \cup E) = Cardinality(H) + Cardinality(E) - Cardinality(H \cap E)
      /\ Cardinality({}) = 0
  BY <1>1, FS_Union, FS_EmptySet
<1>7. Cardinality((H \cup E) \cup R) = Cardinality(H \cup E) + Cardinality(R) - Cardinality((H \cup E) \cap R)
  BY <1>1, <1>6, FS_Union
<1>8. Cardinality(H) \in Nat /\ Cardinality(E) \in Nat /\ Cardinality(R) \in Nat
  BY <1>1, FS_CardinalityType
<1>9. Cardinality((H \cup E) \cup R) = Cardinality(H) + Cardinality(E) + Cardinality(R)
  <2>1. PICK h, x, r, u : /\ h = Cardinality(H) /\ x = Cardinality(E) /\ r = Cardinality(R)
                          /\ u = Cardinality(H \cup E)
    OBVIOUS
  <2>2. h \in Nat /\ x \in Nat /\ r \in Nat /\ u = h + x - 0
    BY <2>1, <1>3, <1>6, <1>8
  <2>3. Cardinality((H \cup E) \cup R) = u + r - 0
    BY <2>1, <1>3, <1>6, <1>7
  <2>4. u + r - 0 = h + x + r
    BY <2>2
  <2> QED
    BY <2>1, <2>3, <2>4
<1> QED
  BY <1>4, <1>5, <1>9 DEF CountOK

LEMMA LockersAre ==
  ASSUME InTypes, InGood, NEW s \in Slots
  PROVE  Cardinality(Lockers(s)) = IF table[s].lock THEN 1 ELSE 0
<1>1. LockOK(s) /\ table[s].lock \in BOOLEAN
  BY SlotFields DEF InGood, SlotOK
<1>2. Lockers(s) = {p \in InProcs : Locks(inProc[p], s)}
  BY DEF Lockers, Locks
<1>3. CASE table[s].lock
  <2>1. PICK p \in InProcs : Locks(inProc[p], s)
    BY <1>1, <1>3 DEF LockOK
  <2>2. Lockers(s) = {p}
    BY <1>1, <1>2, <2>1 DEF LockOK
  <2>3. Cardinality({p}) = 1
    BY FS_Singleton
  <2> QED
    BY <1>3, <2>2, <2>3
<1>4. CASE ~table[s].lock
  <2>1. Lockers(s) = {}
    BY <1>1, <1>2, <1>4 DEF LockOK
  <2>2. Cardinality({}) = 0
    BY FS_EmptySet
  <2> QED
    BY <1>4, <2>1, <2>2
<1> QED
  BY <1>3, <1>4

LEMMA InCoherent ==
  ASSUME InInv
  PROVE  InodesCoherent
<1> SUFFICES ASSUME ~inLate, ~inCleared PROVE InodesCoherent
  BY DEF InodesCoherent
<1>1. InTypes /\ InGood
  BY DEF InInv
<1>2. UnusedReady
  BY <1>1 DEF UnusedReady, UnusedSlots, Ready, InGood, SlotOK, UnusedOK
<1>3. ASSUME NEW s \in Slots
      PROVE  /\ \A t \in Slots \ {s} : table[s].num = 0 \/ table[s].num # table[t].num
             /\ table[s].count = Holders(s)
             /\ Cardinality(Lockers(s)) = IF table[s].lock THEN 1 ELSE 0
             /\ table[s].num # 0 /\ ~BeingRead(s) =>
                  /\ table[s].data = inLast[table[s].num]
                  /\ table[s].dirt \/ disk[table[s].num] = table[s].data
  <2>1. NumOK(s) /\ DataOK(s)
    BY <1>1 DEF InGood, SlotOK
  <2>2. ~BeingRead(s) => \A p \in InProcs : ~(inProc[p].pc = "reading" /\ inProc[p].slot = s)
    BY DEF BeingRead, Lockers
  <2> QED
    BY <1>1, <2>1, <2>2, UsersAre, LockersAre DEF NumOK, DataOK
<1>4. \A n \in imap : (\A s \in Slots : table[s].num # n) => disk[n] = inLast[n]
  BY <1>1 DEF InGood, Absent
<1>5. \A p \in InProcs : inProc[p].asleep => \E s \in Slots : p \in table[s].wait /\ table[s].lock
  BY <1>1 DEF InGood, ProcOK
<1> QED
  BY <1>2, <1>3, <1>4, <1>5 DEF InodesCoherent

\* The table of inodes of fs/inode.c stays coherent: a number is in one place, i_count
\* is the number of its holders, a lock has one owner and wakes its waiters, and no
\* change of an inode is lost, as long as no iget() met an inode that is being freed and
\* free_inode() cleared no locked one.
THEOREM InodesStayCoherent == InSpec => []InodesCoherent
<1>1. InInit => InInv
  BY InStart
<1>2. InInv /\ [\E p \in InProcs : InStep(p)]_inVars => InInv'
  BY InStepGood, InStutter
<1>3. InInv => InodesCoherent
  BY InCoherent
<1> QED
  BY <1>1, <1>2, <1>3, PTL DEF InSpec

-----------------------------------------------------------------------------
(* Directories.  TreeConsistent speaks of the runs in which no two calls that change  *)
(* names overlap.  Until then NameInv has: at most one call is changing names          *)
(* (OneChange); in each place of its code a call has the inodes that code uses         *)
(* (NameCallOK), none of them free (HoldsOK); what the changing call has seen of its   *)
(* directory still holds (ChangeOK); the links of an inode are its names on the disk,  *)
(* those about to be written and not those about to be counted (Linked); and the       *)
(* blocks of the inodes and the free ones are all the blocks (Tree).                   *)

NmEntry == [name : STRING, ino : NmInodes \cup {NoInode}]
NmInode == [mode : {"free", "reg", "dir"}, nlinks : Int, ents : Seq(NmEntry), blocks : 0 .. NmBlocks]
NmPcs == {"idle", "walk", "step", "got", "empty", "new", "add", "linked"}
NmOps == Changing \cup {"open", "old"}
NmHeld == NmInodes \cup {NoInode}
NmCallType == [pc : NmPcs, op : NmOps, path : Seq(STRING), new : Seq(STRING), dir : NmHeld,
               ino : NmHeld, nr : NmHeld, slot : Nat, file : NmHeld]
Makes == {"creat", "excl", "mknod", "mkdir"}

\* Namei's definitions for a table of inodes and of calls
EntriesIn(I, i) == {e \in NmInodes \X (1 .. NmPerBlock * NmBlocks) :
                      e[2] \in DOMAIN I[e[1]].ents /\ I[e[1]].ents[e[2]].ino = i}
SubdirsIn(I, i) == {s \in DOMAIN I[i].ents :
                      I[i].ents[s].ino # NoInode /\ I[I[i].ents[s].ino].mode = "dir"}
EmptyIn(I, i) == \A s \in DOMAIN I[i].ents : I[i].ents[s].ino = NoInode
FoundIn(I, d, name) == {s \in DOMAIN I[d].ents : I[d].ents[s].ino # NoInode
                                                 /\ I[d].ents[s].name = name}
WritersOf(Q, i) == {p \in NmProcs : Q[p].pc = "add" /\ Q[p].ino = i /\ Q[p].op # "link"}
CountersOf(Q, i) == {p \in NmProcs : Q[p].pc = "linked" /\ Q[p].ino = i}
RefsIn(I, Q, i) == Cardinality(EntriesIn(I, i)) + Cardinality(WritersOf(Q, i))
                   - Cardinality(CountersOf(Q, i))

\* what a call has in each place
NameCallOK(q) ==
  /\ q \in NmCallType
  /\ q.pc \in {"walk", "empty", "new", "add"} => q.dir # NoInode
  /\ q.pc \in {"step", "got"} => q.nr # NoInode
  /\ q.pc \in {"empty", "add", "linked"} => q.ino # NoInode
  /\ q.pc = "got" => q.op \in {"open", "creat", "old", "unlink", "rmdir"}
  /\ q.pc = "empty" => q.op = "rmdir" /\ q.nr = q.ino /\ q.dir # q.ino
  /\ q.pc = "new" => q.op \in Makes
  /\ q.pc = "add" => q.op \in Makes \cup {"link"} /\ q.dir # q.ino
  /\ q.pc = "linked" => q.op = "link"
  /\ q.op = "link" /\ q.pc # "idle" => q.ino # NoInode
  /\ q.pc \in {"new", "add"} => Len(q.path) = 1

\* an inode that is held is not free
HoldsOK(I, q) == \A i \in {q.dir, q.ino, q.file} \ {NoInode} : I[i].mode # "free"

\* what the call that changes names knows of them
ChangeOK(I, q) ==
  /\ (q.pc = "got" /\ q.op \in {"unlink", "rmdir"}) \/ q.pc = "empty" =>
       /\ q.dir # NoInode /\ I[q.dir].mode = "dir"
       /\ q.slot \in DOMAIN I[q.dir].ents /\ I[q.dir].ents[q.slot].ino = q.nr
  /\ q.pc = "empty" => I[q.ino].mode = "dir"
  /\ q.pc \in {"new", "add"} =>
       /\ I[q.dir].mode = "dir" /\ I[q.dir].nlinks # 0
       /\ FoundIn(I, q.dir, q.path[1]) = {}
  /\ q.pc = "add" /\ q.op # "link" =>
       /\ I[q.ino].mode = (IF q.op = "mkdir" THEN "dir" ELSE "reg")
       /\ I[q.ino].ents = <<>> /\ EntriesIn(I, q.ino) = {} /\ q.ino # ROOT_INO
  /\ q.pc # "idle" /\ q.op = "link" => I[q.ino].mode = "reg"

OneChange(Q) == \A p, r \in NmProcs : InChange(Q[p]) /\ InChange(Q[r]) => p = r

Linked(I, Q, i) ==
  /\ I[i].mode = "free" => EntriesIn(I, i) = {}
  /\ I[i].mode = "reg" => I[i].nlinks = RefsIn(I, Q, i)
  /\ I[i].mode = "dir" /\ i # ROOT_INO =>
       IF RefsIn(I, Q, i) = 1 THEN I[i].nlinks = 2 + Cardinality(SubdirsIn(I, i))
       ELSE RefsIn(I, Q, i) = 0 /\ I[i].nlinks = 0 /\ EmptyIn(I, i)

OnceNamed(x) ==
  \A s, t \in DOMAIN x.ents :
    s # t /\ x.ents[s].ino # NoInode /\ x.ents[t].ino # NoInode => x.ents[s].name # x.ents[t].name
Listed(x) ==
  /\ x.mode # "dir" => x.ents = <<>> /\ x.blocks = 0
  /\ OnceNamed(x)
  /\ Len(x.ents) <= NmPerBlock * x.blocks

Tree(I, F, Q) ==
  /\ I \in [NmInodes -> NmInode] /\ Q \in [NmProcs -> NmCallType] /\ F \in Nat
  /\ I[ROOT_INO].mode = "dir"
  /\ OneChange(Q)
  /\ \A p \in NmProcs : NameCallOK(Q[p]) /\ HoldsOK(I, Q[p]) /\ ChangeOK(I, Q[p])
  /\ \A i \in NmInodes : Linked(I, Q, i) /\ Listed(I[i])
  /\ F + Cardinality(BlocksOf(I, NmInodes)) = NmBlocks

NameInv == ~nmOverlap /\ ~nmStale /\ ~nmPanic => Tree(inode, nmFree, nmProc)

\* a call with no link to write or to count
Plain(q) == ~(q.pc = "add" /\ q.op # "link") /\ q.pc # "linked"

-----------------------------------------------------------------------------
LEMMA FirstIn ==
  ASSUME NEW S, S \subseteq Nat, S # {}
  PROVE  First(S) \in S
<1> DEFINE R == OpToRel(<, Nat)
<1>1. PICK x \in S : \A y \in S : ~(<<y, x>> \in R)
  BY NatLessThanWellFounded, WFMin
<1>2. \A y \in S : ~(y < x)
  BY <1>1, Zenon DEF OpToRel
<1>3. \A y \in S : x <= y
  BY <1>2
<1> QED
  BY <1>3 DEF First

\* An entry is in its directory's blocks.
LEMMA Capacity ==
  ASSUME NEW I, I \in [NmInodes -> NmInode], \A i \in NmInodes : Listed(I[i]), NEW d \in NmInodes
  PROVE  /\ I[d].ents \in Seq(NmEntry) /\ Len(I[d].ents) \in Nat
         /\ DOMAIN I[d].ents = 1 .. Len(I[d].ents)
         /\ \A s \in DOMAIN I[d].ents : /\ I[d].ents[s] \in NmEntry /\ I[d].ents[s].ino \in NmHeld
                                        /\ s \in 1 .. NmPerBlock * NmBlocks
<1>1. I[d] \in NmInode /\ Listed(I[d])
  OBVIOUS
<1>2. I[d].ents \in Seq(NmEntry) /\ I[d].blocks \in 0 .. NmBlocks
  BY <1>1 DEF NmInode
<1>3. Len(I[d].ents) \in Nat /\ DOMAIN I[d].ents = 1 .. Len(I[d].ents)
  BY <1>2, LenProperties
<1>4. \A s \in DOMAIN I[d].ents : I[d].ents[s] \in NmEntry
  BY <1>2, <1>3, ElementOfSeq
<1>5. \A s \in DOMAIN I[d].ents : I[d].ents[s].ino \in NmHeld
  BY <1>4 DEF NmEntry, NmHeld
<1>6. \A x, y, z \in Nat : y <= z => x * y <= x * z
  OBVIOUS
<1>7. NmPerBlock * I[d].blocks <= NmPerBlock * NmBlocks
  BY <1>2, <1>6, NmAssumption
<1>8. Len(I[d].ents) <= NmPerBlock * I[d].blocks
  BY <1>1 DEF Listed
<1>9. PICK l, x, y : l = Len(I[d].ents) /\ x = NmPerBlock * I[d].blocks /\ y = NmPerBlock * NmBlocks
  OBVIOUS
<1>10. l \in Nat /\ x \in Int /\ y \in Int
  BY <1>2, <1>3, <1>9, NmAssumption
<1>11. l <= y
  BY <1>7, <1>8, <1>9, <1>10
<1>12. \A s \in 1 .. l : s \in 1 .. y
  BY <1>10, <1>11
<1> QED
  BY <1>2, <1>3, <1>4, <1>5, <1>9, <1>12

LEMMA EntryHere ==
  ASSUME NEW I, I \in [NmInodes -> NmInode], \A i \in NmInodes : Listed(I[i]), NEW d \in NmInodes,
         NEW s \in DOMAIN I[d].ents
  PROVE  <<d, s>> \in EntriesIn(I, I[d].ents[s].ino)
<1>1. s \in 1 .. NmPerBlock * NmBlocks
  BY Capacity
<1> QED
  BY <1>1 DEF EntriesIn

LEMMA SubdirsFinite ==
  ASSUME NEW I, I \in [NmInodes -> NmInode], \A j \in NmInodes : Listed(I[j]), NEW i \in NmInodes
  PROVE  IsFiniteSet(SubdirsIn(I, i)) /\ Cardinality(SubdirsIn(I, i)) \in Nat
<1>1. SubdirsIn(I, i) \subseteq DOMAIN I[i].ents
  BY DEF SubdirsIn
<1>2. PICK l : l = Len(I[i].ents)
  OBVIOUS
<1>3. DOMAIN I[i].ents = 1 .. l /\ l \in Int /\ 1 \in Int
  BY <1>2, Capacity
<1>4. IsFiniteSet(1 .. l)
  BY <1>3, FS_Interval
<1>5. IsFiniteSet(SubdirsIn(I, i))
  BY <1>1, <1>3, <1>4, FS_Subset
<1> QED
  BY <1>5, FS_CardinalityType

LEMMA NameSets ==
  ASSUME NEW I, NEW Q, NEW i
  PROVE  /\ IsFiniteSet(EntriesIn(I, i)) /\ Cardinality(EntriesIn(I, i)) \in Nat
         /\ IsFiniteSet(WritersOf(Q, i)) /\ Cardinality(WritersOf(Q, i)) \in Nat
         /\ IsFiniteSet(CountersOf(Q, i)) /\ Cardinality(CountersOf(Q, i)) \in Nat
         /\ \A S \in SUBSET NmInodes : IsFiniteSet(BlocksOf(I, S)) /\ Cardinality(BlocksOf(I, S)) \in Nat
<1>1. /\ IsFiniteSet(1 .. NmPerBlock * NmBlocks) /\ IsFiniteSet(1 .. NmBlocks)
  BY NmAssumption, FS_Interval
<1>2. IsFiniteSet(NmInodes \X (1 .. NmPerBlock * NmBlocks))
  BY <1>1, NmAssumption, FS_Product
<1>3. IsFiniteSet(EntriesIn(I, i))
  <2>1. EntriesIn(I, i) \subseteq NmInodes \X (1 .. NmPerBlock * NmBlocks)
    BY Zenon DEF EntriesIn
  <2> QED
    BY <1>2, <2>1, FS_Subset
<1>4. IsFiniteSet(WritersOf(Q, i)) /\ IsFiniteSet(CountersOf(Q, i))
  <2>1. WritersOf(Q, i) \subseteq NmProcs /\ CountersOf(Q, i) \subseteq NmProcs
    BY DEF WritersOf, CountersOf
  <2> QED
    BY <2>1, NmAssumption, FS_Subset
<1>5. IsFiniteSet(NmInodes \X (1 .. NmBlocks))
  BY <1>1, NmAssumption, FS_Product
<1>6. ASSUME NEW S \in SUBSET NmInodes PROVE IsFiniteSet(BlocksOf(I, S))
  <2>1. BlocksOf(I, S) \subseteq NmInodes \X (1 .. NmBlocks)
    BY DEF BlocksOf
  <2> QED
    BY <1>5, <2>1, FS_Subset
<1> QED
  BY <1>3, <1>4, <1>6, FS_CardinalityType

\* The table of what is held is finite.
LEMMA HoldsNat ==
  ASSUME NEW Q, NEW i
  PROVE  /\ IsFiniteSet({h \in NmProcs \X {"dir", "ino", "file"} : Q[h[1]][h[2]] = i})
         /\ Cardinality({h \in NmProcs \X {"dir", "ino", "file"} : Q[h[1]][h[2]] = i}) \in Nat
         /\ Holds(Q, i) \in Nat
<1> DEFINE H == {h \in NmProcs \X {"dir", "ino", "file"} : Q[h[1]][h[2]] = i}
<1>1. IsFiniteSet({"dir", "ino", "file"})
  <2>1. IsFiniteSet({"dir"}) /\ IsFiniteSet({"ino"}) /\ IsFiniteSet({"file"})
    BY FS_Singleton
  <2>2. IsFiniteSet({"dir"} \cup {"ino"})
    BY <2>1, FS_Union
  <2>3. IsFiniteSet(({"dir"} \cup {"ino"}) \cup {"file"})
    BY <2>1, <2>2, FS_Union
  <2>4. ({"dir"} \cup {"ino"}) \cup {"file"} = {"dir", "ino", "file"}
    OBVIOUS
  <2> QED
    BY <2>3, <2>4
<1>2. IsFiniteSet(NmProcs \X {"dir", "ino", "file"})
  BY <1>1, NmAssumption, FS_Product
<1>3. IsFiniteSet(H) /\ Cardinality(H) \in Nat
  <2>1. H \subseteq NmProcs \X {"dir", "ino", "file"}
    BY Zenon
  <2> QED
    BY <1>2, <2>1, FS_Subset, FS_CardinalityType
<1>4. Holds(Q, i) = Cardinality(H) + (IF i = ROOT_INO THEN 1 ELSE 0)
  BY Zenon DEF Holds
<1>5. Holds(Q, i) \in Nat
  <2> HIDE DEF H
  <2> QED
    BY <1>3, <1>4
<1> QED
  BY <1>3, <1>5

\* An inode that nobody holds is nowhere among what the calls have.
LEMMA NobodyHolds ==
  ASSUME NEW Q, Q \in [NmProcs -> NmCallType], NEW i, Holds(Q, i) = 0
  PROVE  /\ i # ROOT_INO
         /\ \A p \in NmProcs : Q[p].dir # i /\ Q[p].ino # i /\ Q[p].file # i
<1> DEFINE H == {h \in NmProcs \X {"dir", "ino", "file"} : Q[h[1]][h[2]] = i}
<1>3. IsFiniteSet(H) /\ Cardinality(H) \in Nat
  BY HoldsNat
<1>4. Cardinality(H) + (IF i = ROOT_INO THEN 1 ELSE 0) = 0
  BY Zenon DEF Holds
<1>5. Cardinality(H) = 0 /\ i # ROOT_INO
  <2> HIDE DEF H
  <2> QED
    BY <1>3, <1>4
<1>6. H = {}
  BY <1>3, <1>5, FS_EmptySet
<1>7. ASSUME NEW p \in NmProcs PROVE Q[p].dir # i /\ Q[p].ino # i /\ Q[p].file # i
  <2>1. /\ <<p, "dir">> \notin H /\ <<p, "ino">> \notin H /\ <<p, "file">> \notin H
    BY <1>6
  <2>2. Q[p]["dir"] # i /\ Q[p]["ino"] # i /\ Q[p]["file"] # i
    BY <2>1
  <2>3. Q[p] \in NmCallType
    OBVIOUS
  <2> QED
    BY <2>2, <2>3 DEF NmCallType
<1> QED
  BY <1>5, <1>7

\* What a call has does not matter to the links, unless it writes or counts one.
LEMMA SameRefs ==
  ASSUME NEW I, NEW Q, NEW Q2, NEW p \in NmProcs, Plain(Q[p]), Plain(Q2[p]),
         \A r \in NmProcs \ {p} : Q2[r] = Q[r], NEW i
  PROVE  RefsIn(I, Q2, i) = RefsIn(I, Q, i)
<1>1. WritersOf(Q2, i) = WritersOf(Q, i) /\ CountersOf(Q2, i) = CountersOf(Q, i)
  BY DEF WritersOf, CountersOf, Plain
<1> QED
  BY <1>1 DEF RefsIn

\* One process's call goes on, and no inode changes.
LEMMA MoveProc ==
  ASSUME NEW I, NEW F, NEW Q, Tree(I, F, Q), NEW p \in NmProcs, NEW Q2, Q2 \in [NmProcs -> NmCallType],
         \A r \in NmProcs \ {p} : Q2[r] = Q[r],
         Plain(Q[p]), Plain(Q2[p]), NameCallOK(Q2[p]), HoldsOK(I, Q2[p]), ChangeOK(I, Q2[p]),
         InChange(Q2[p]) => \A r \in NmProcs \ {p} : ~InChange(Q[r])
  PROVE  Tree(I, F, Q2)
<1>2. ASSUME NEW i \in NmInodes PROVE RefsIn(I, Q2, i) = RefsIn(I, Q, i)
  BY SameRefs
<1>3. OneChange(Q2)
  BY DEF Tree, OneChange
<1>4. \A r \in NmProcs : NameCallOK(Q2[r]) /\ HoldsOK(I, Q2[r]) /\ ChangeOK(I, Q2[r])
  BY DEF Tree
<1>5. \A i \in NmInodes : Linked(I, Q2, i)
  BY <1>2 DEF Tree, Linked
<1> QED
  BY <1>3, <1>4, <1>5 DEF Tree

\* An inode without links that nobody holds has no names and no entries.
LEMMA GoneIsBare ==
  ASSUME NEW I, NEW F, NEW Q, Tree(I, F, Q), NEW i \in Unused(I, Q)
  PROVE  /\ i \in NmInodes /\ i # ROOT_INO /\ I[i].mode # "free"
         /\ \A p \in NmProcs : Q[p].dir # i /\ Q[p].ino # i /\ Q[p].file # i
         /\ EntriesIn(I, i) = {} /\ EmptyIn(I, i)
<1>1. i \in NmInodes /\ I[i].mode # "free" /\ I[i].nlinks = 0 /\ Holds(Q, i) = 0
  BY DEF Unused
<1>2. /\ i # ROOT_INO
      /\ \A p \in NmProcs : Q[p].dir # i /\ Q[p].ino # i /\ Q[p].file # i
  BY <1>1, NobodyHolds DEF Tree
<1>3. WritersOf(Q, i) = {} /\ CountersOf(Q, i) = {}
  BY <1>2 DEF WritersOf, CountersOf
<1>4. RefsIn(I, Q, i) = Cardinality(EntriesIn(I, i))
  <2>1. Cardinality(EntriesIn(I, i)) \in Nat
    BY NameSets
  <2>2. Cardinality({}) = 0
    BY FS_EmptySet
  <2>3. RefsIn(I, Q, i) = Cardinality(EntriesIn(I, i)) + 0 - 0
    BY <1>3, <2>2 DEF RefsIn
  <2>4. \A n \in Nat : n + 0 - 0 = n
    OBVIOUS
  <2> QED
    BY <2>1, <2>3, <2>4
<1>5. I[i] \in NmInode /\ Linked(I, Q, i) /\ Listed(I[i])
  BY <1>1 DEF Tree
<1>6. IsFiniteSet(EntriesIn(I, i))
  BY NameSets
<1>7. CASE I[i].mode = "reg"
  <2>1. Cardinality(EntriesIn(I, i)) = 0
    BY <1>1, <1>4, <1>5, <1>7 DEF Linked
  <2>2. I[i].ents = <<>>
    BY <1>5, <1>7 DEF Listed
  <2>3. EmptyIn(I, i)
    BY <2>2 DEF EmptyIn
  <2> QED
    BY <1>1, <1>2, <1>6, <2>1, <2>3, FS_EmptySet
<1>8. CASE I[i].mode = "dir"
  <2>3. Cardinality(SubdirsIn(I, i)) \in Nat
    BY <1>1, SubdirsFinite DEF Tree
  <2>4. 2 + Cardinality(SubdirsIn(I, i)) # 0
    BY <2>3
  <2>5. Cardinality(EntriesIn(I, i)) = 0 /\ EmptyIn(I, i)
    BY <1>1, <1>2, <1>4, <1>5, <1>8, <2>4 DEF Linked
  <2> QED
    BY <1>1, <1>2, <1>6, <2>5, FS_EmptySet
<1> QED
  BY <1>1, <1>5, <1>7, <1>8 DEF NmInode

\* Freeing them keeps the tree as it is.
LEMMA SettleKeeps ==
  ASSUME NEW I, NEW F, NEW Q, Tree(I, F, Q), Settle(I, F, Q)
  PROVE  Tree(inode', nmFree', nmProc')
<1> DEFINE gone == Unused(I, Q)
           I2 == [i \in NmInodes |-> IF i \in gone THEN FreeInode ELSE I[i]]
           F2 == F + Cardinality(BlocksOf(I, gone))
<1>1. inode' = I2 /\ nmFree' = F2 /\ nmProc' = Q
  BY DEF Settle
<1>2. \A i \in gone :
        /\ i \in NmInodes /\ i # ROOT_INO /\ I[i].mode # "free"
        /\ \A p \in NmProcs : Q[p].dir # i /\ Q[p].ino # i /\ Q[p].file # i
        /\ EntriesIn(I, i) = {} /\ EmptyIn(I, i)
  BY GoneIsBare
<1> HIDE DEF gone
<1>3. /\ I \in [NmInodes -> NmInode] /\ I2 \in [NmInodes -> NmInode]
      /\ \A i \in NmInodes : I2[i] = IF i \in gone THEN FreeInode ELSE I[i]
      /\ FreeInode.mode = "free" /\ FreeInode.ents = <<>> /\ FreeInode.blocks = 0
  <2>1. FreeInode \in NmInode
    <3>1. <<>> \in Seq(NmEntry) /\ 0 \in 0 .. NmBlocks
      BY NmAssumption
    <3> QED
      BY <3>1 DEF FreeInode, NmInode
  <2>2. I \in [NmInodes -> NmInode]
    BY DEF Tree
  <2> QED
    BY <2>1, <2>2 DEF FreeInode
<1> HIDE DEF I2
<1>4. \A i \in NmInodes : EntriesIn(I2, i) = EntriesIn(I, i)
  <2>1. ASSUME NEW i \in NmInodes, NEW d \in NmInodes, NEW s
        PROVE  (s \in DOMAIN I2[d].ents /\ I2[d].ents[s].ino = i)
                 <=> (s \in DOMAIN I[d].ents /\ I[d].ents[s].ino = i)
    <3>1. CASE d \in gone
      <4>1. I2[d].ents = <<>> /\ EmptyIn(I, d)
        BY <1>2, <1>3, <3>1
      <4>2. i # NoInode
        BY NmAssumption DEF NoInode
      <4> QED
        BY <4>1, <4>2 DEF EmptyIn
    <3>2. CASE d \notin gone
      BY <1>3, <3>2
    <3> QED
      BY <3>1, <3>2
  <2> QED
    BY <2>1 DEF EntriesIn
<1>5. \A i \in NmInodes \ gone : SubdirsIn(I2, i) = SubdirsIn(I, i)
  <2> SUFFICES ASSUME NEW i \in NmInodes \ gone PROVE SubdirsIn(I2, i) = SubdirsIn(I, i)
    OBVIOUS
  <2>1. I2[i] = I[i]
    BY <1>3
  <2>2. ASSUME NEW s \in DOMAIN I[i].ents, I[i].ents[s].ino # NoInode
        PROVE  I2[I[i].ents[s].ino].mode = I[I[i].ents[s].ino].mode
    <3>1. <<i, s>> \in EntriesIn(I, I[i].ents[s].ino)
      BY EntryHere DEF Tree
    <3>2. I[i].ents[s].ino \in NmInodes
      BY <2>2, Capacity DEF Tree, NmHeld
    <3>3. I[i].ents[s].ino \notin gone
      BY <1>2, <3>1
    <3> QED
      BY <1>3, <3>2, <3>3
  <2> QED
    BY <2>1, <2>2 DEF SubdirsIn
<1>6. ASSUME NEW i \in NmInodes PROVE Linked(I2, Q, i) /\ Listed(I2[i])
  <2>1. Linked(I, Q, i) /\ Listed(I[i])
    BY DEF Tree
  <2>2. RefsIn(I2, Q, i) = RefsIn(I, Q, i)
    BY <1>4 DEF RefsIn
  <2>3. CASE i \in gone
    <3>1. I2[i] = FreeInode /\ EntriesIn(I2, i) = {}
      BY <1>2, <1>3, <1>4, <2>3
    <3>2. Linked(I2, Q, i)
      BY <3>1, <1>3 DEF Linked
    <3>3. Len(<<>>) <= NmPerBlock * 0
      BY NmAssumption
    <3>4. Listed(FreeInode)
      BY <1>3, <3>3 DEF Listed, OnceNamed
    <3> QED
      BY <3>1, <3>2, <3>4
  <2>4. CASE i \notin gone
    <3>1. I2[i] = I[i] /\ SubdirsIn(I2, i) = SubdirsIn(I, i)
      BY <1>3, <1>5, <2>4
    <3>2. EmptyIn(I2, i) = EmptyIn(I, i)
      BY <3>1 DEF EmptyIn
    <3> QED
      BY <1>4, <2>1, <2>2, <3>1, <3>2 DEF Linked
  <2> QED
    BY <2>3, <2>4
<1>7. ASSUME NEW p \in NmProcs PROVE NameCallOK(Q[p]) /\ HoldsOK(I2, Q[p]) /\ ChangeOK(I2, Q[p])
  <2>1. NameCallOK(Q[p]) /\ HoldsOK(I, Q[p]) /\ ChangeOK(I, Q[p])
    BY DEF Tree
  <2>2. /\ Q[p].dir \in NmHeld /\ Q[p].ino \in NmHeld /\ Q[p].file \in NmHeld
    BY <2>1 DEF NameCallOK, NmCallType
  <2>3. \A i \in {Q[p].dir, Q[p].ino, Q[p].file} \ {NoInode} : i \in NmInodes /\ I2[i] = I[i]
    BY <1>2, <1>3, <2>2 DEF NmHeld
  <2>4. HoldsOK(I2, Q[p])
    BY <2>1, <2>3 DEF HoldsOK
  <2>5. ASSUME NEW n, Q[p].dir # NoInode PROVE FoundIn(I2, Q[p].dir, n) = FoundIn(I, Q[p].dir, n)
    BY <2>3, <2>5 DEF FoundIn
  <2>6. Q[p].ino # NoInode => EntriesIn(I2, Q[p].ino) = EntriesIn(I, Q[p].ino)
    BY <1>4, <2>2 DEF NmHeld
  <2>7. ChangeOK(I2, Q[p])
    BY <2>1, <2>3, <2>5, <2>6 DEF ChangeOK, NameCallOK
  <2> QED
    BY <2>1, <2>4, <2>7
<1>8. F2 \in Nat /\ F2 + Cardinality(BlocksOf(I2, NmInodes)) = NmBlocks
  <2>1. gone \in SUBSET NmInodes /\ NmInodes \ gone \in SUBSET NmInodes /\ NmInodes \in SUBSET NmInodes
    BY <1>2
  <2>2. BlocksOf(I, NmInodes) = BlocksOf(I, gone) \cup BlocksOf(I, NmInodes \ gone)
    BY <2>1 DEF BlocksOf
  <2>3. BlocksOf(I, gone) \cap BlocksOf(I, NmInodes \ gone) = {}
    BY <2>1 DEF BlocksOf
  <2>4. BlocksOf(I2, NmInodes) = BlocksOf(I, NmInodes \ gone)
    <3>1. ASSUME NEW i \in NmInodes, NEW b \in 1 .. NmBlocks
          PROVE  (b <= I2[i].blocks) <=> (i \notin gone /\ b <= I[i].blocks)
      BY <1>3, NmAssumption
    <3> QED
      BY <3>1 DEF BlocksOf
  <2>5. /\ IsFiniteSet(BlocksOf(I, gone)) /\ IsFiniteSet(BlocksOf(I, NmInodes \ gone))
        /\ Cardinality(BlocksOf(I, gone)) \in Nat /\ Cardinality(BlocksOf(I, NmInodes \ gone)) \in Nat
    BY <2>1, NameSets
  <2>6. Cardinality(BlocksOf(I, NmInodes)) =
          Cardinality(BlocksOf(I, gone)) + Cardinality(BlocksOf(I, NmInodes \ gone))
          - Cardinality(BlocksOf(I, gone) \cap BlocksOf(I, NmInodes \ gone))
    BY <2>2, <2>5, FS_Union
  <2>7. Cardinality(BlocksOf(I, gone) \cap BlocksOf(I, NmInodes \ gone)) = 0
    BY <2>3, FS_EmptySet
  <2>8. PICK a, b : a = Cardinality(BlocksOf(I, gone)) /\ b = Cardinality(BlocksOf(I, NmInodes \ gone))
    OBVIOUS
  <2>9. F \in Nat /\ F + (a + b - 0) = NmBlocks
    BY <2>6, <2>7, <2>8 DEF Tree
  <2>10. a \in Nat /\ b \in Nat
    BY <2>5, <2>8
  <2>11. F + a \in Nat /\ (F + a) + b = NmBlocks
    BY <2>9, <2>10, NmAssumption
  <2> QED
    BY <2>4, <2>8, <2>11
<1>9. I2[ROOT_INO].mode = "dir"
  BY <1>2, <1>3, NmAssumption DEF Tree
<1>10. Q \in [NmProcs -> NmCallType] /\ OneChange(Q)
  BY DEF Tree
<1>11. Tree(I2, F2, Q)
  <2> HIDE DEF F2
  <2> QED
    BY <1>3, <1>6, <1>7, <1>8, <1>9, <1>10 DEF Tree
<1> QED
  BY <1>1, <1>11

LEMMA NmCallTyped ==
  ASSUME NEW pc \in NmPcs, NEW op \in NmOps, NEW path \in Seq(STRING), NEW new \in Seq(STRING),
         NEW dir \in NmHeld, NEW ino \in NmHeld, NEW nr \in NmHeld, NEW slot \in Nat, NEW file \in NmHeld
  PROVE  [pc |-> pc, op |-> op, path |-> path, new |-> new, dir |-> dir, ino |-> ino, nr |-> nr,
          slot |-> slot, file |-> file] \in NmCallType
  BY DEF NmCallType

\* A process outside a call holds its open file at most.
LEMMA OutsideCall ==
  ASSUME NEW I, NEW f \in NmHeld, f # NoInode => I[f].mode # "free", NEW q, q = [Idle EXCEPT !.file = f]
  PROVE  /\ q \in NmCallType /\ NameCallOK(q) /\ HoldsOK(I, q) /\ ChangeOK(I, q) /\ ~InChange(q) /\ Plain(q)
<1>1. /\ q.pc = "idle" /\ q.op = "open" /\ q.dir = NoInode /\ q.ino = NoInode /\ q.file = f
      /\ q = [pc |-> "idle", op |-> "open", path |-> <<>>, new |-> <<>>, dir |-> NoInode,
              ino |-> NoInode, nr |-> NoInode, slot |-> 0, file |-> f]
  BY DEF Idle
<1>2. q \in NmCallType
  <2>1. /\ "idle" \in NmPcs /\ "open" \in NmOps /\ <<>> \in Seq(STRING) /\ NoInode \in NmHeld /\ 0 \in Nat
    BY DEF NmPcs, NmOps, NmHeld
  <2>2. PICK e : e = <<>>
    OBVIOUS
  <2>3. q = [pc |-> "idle", op |-> "open", path |-> e, new |-> e, dir |-> NoInode,
             ino |-> NoInode, nr |-> NoInode, slot |-> 0, file |-> f]
    BY <1>1, <2>2
  <2>4. e \in Seq(STRING)
    BY <2>1, <2>2
  <2>5. [pc |-> "idle", op |-> "open", path |-> e, new |-> e, dir |-> NoInode,
         ino |-> NoInode, nr |-> NoInode, slot |-> 0, file |-> f] \in NmCallType
    BY <2>1, <2>4 DEF NmCallType
  <2> QED
    BY <2>3, <2>5
<1> QED
  BY <1>1, <1>2 DEF NameCallOK, HoldsOK, ChangeOK, InChange, Plain, NmCallType

\* What the invariant says of one process's call, and of the inodes it names.
LEMMA CallIs ==
  ASSUME NEW I, NEW F, NEW Q, Tree(I, F, Q), NEW p \in NmProcs
  PROVE  /\ Q \in [NmProcs -> NmCallType] /\ Q[p] \in NmCallType
         /\ NameCallOK(Q[p]) /\ HoldsOK(I, Q[p]) /\ ChangeOK(I, Q[p])
         /\ Q[p].file \in NmHeld /\ (Q[p].file # NoInode => I[Q[p].file].mode # "free")
  BY DEF Tree, NameCallOK, HoldsOK, NmCallType

\* A call that ends without a change of its own.
LEMMA NameCallEnds ==
  ASSUME Tree(inode, nmFree, nmProc), NEW p \in NmProcs, Plain(nmProc[p]), NEW f \in NmHeld,
         f # NoInode => inode[f].mode # "free",
         Settle(inode, nmFree, [nmProc EXCEPT ![p] = [Idle EXCEPT !.file = f]])
  PROVE  Tree(inode', nmFree', nmProc')
<1>1. PICK q : q = [Idle EXCEPT !.file = f]
  OBVIOUS
<1>2. /\ q \in NmCallType /\ NameCallOK(q) /\ HoldsOK(inode, q) /\ ChangeOK(inode, q) /\ ~InChange(q) /\ Plain(q)
  BY <1>1, OutsideCall
<1>3. PICK Q2 : Q2 = [nmProc EXCEPT ![p] = q]
  OBVIOUS
<1>4. nmProc \in [NmProcs -> NmCallType]
  BY DEF Tree
<1>5. /\ Q2 \in [NmProcs -> NmCallType] /\ Q2[p] = q
      /\ \A r \in NmProcs \ {p} : Q2[r] = nmProc[r]
  BY <1>2, <1>3, <1>4
<1>6. Tree(inode, nmFree, Q2)
  BY <1>2, <1>5, MoveProc
<1>7. Settle(inode, nmFree, Q2)
  BY <1>1, <1>3
<1> QED
  BY <1>6, <1>7, SettleKeeps

LEMMA FailKeeps ==
  ASSUME Tree(inode, nmFree, nmProc), NEW p \in NmProcs, Plain(nmProc[p]), Fail(p)
  PROVE  Tree(inode', nmFree', nmProc')
<1>1. PICK f : f = nmProc[p].file
  OBVIOUS
<1>2. f \in NmHeld /\ (f # NoInode => inode[f].mode # "free") /\ nmProc \in [NmProcs -> NmCallType]
  BY <1>1, CallIs
<1>3. [nmProc EXCEPT ![p] = Done(@)] = [nmProc EXCEPT ![p] = [Idle EXCEPT !.file = f]]
  BY <1>1, <1>2 DEF Done
<1>4. Settle(inode, nmFree, [nmProc EXCEPT ![p] = [Idle EXCEPT !.file = f]])
  BY <1>3 DEF Fail, Return
<1> QED
  BY <1>2, <1>4, NameCallEnds

\* A call that goes on from one place to the next, and may put an inode.
LEMMA GoesOn ==
  ASSUME Tree(inode, nmFree, nmProc), NEW p \in NmProcs, Plain(nmProc[p]), NEW q,
         NameCallOK(q), HoldsOK(inode, q), ChangeOK(inode, q), Plain(q), InChange(q) => InChange(nmProc[p])
  PROVE  /\ [nmProc EXCEPT ![p] = q] \in [NmProcs -> NmCallType]
         /\ Tree(inode, nmFree, [nmProc EXCEPT ![p] = q])
<1>3. PICK Q2 : Q2 = [nmProc EXCEPT ![p] = q]
  OBVIOUS
<1>4. nmProc \in [NmProcs -> NmCallType] /\ q \in NmCallType
  BY DEF Tree, NameCallOK
<1>5. /\ Q2 \in [NmProcs -> NmCallType] /\ Q2[p] = q
      /\ \A r \in NmProcs \ {p} : Q2[r] = nmProc[r]
  BY <1>3, <1>4
<1>6. InChange(Q2[p]) => \A r \in NmProcs \ {p} : ~InChange(nmProc[r])
  BY <1>5 DEF Tree, OneChange
<1>7. Tree(inode, nmFree, Q2)
  BY <1>5, <1>6, MoveProc
<1> QED
  BY <1>3, <1>5, <1>7

LEMMA NmCallStep ==
  ASSUME Tree(inode, nmFree, nmProc), NEW p \in NmProcs, NEW c \in NmCalls, NmCall(p, c), ~nmOverlap'
  PROVE  Tree(inode', nmFree', nmProc')
<1>1. PICK q : q = [Done(nmProc[p]) EXCEPT !.pc = "walk", !.op = IF c.op = "link" THEN "old" ELSE c.op,
                       !.path = IF c.op = "link" THEN c.old ELSE c.path,
                       !.new = IF c.op = "link" THEN c.path ELSE <<>>, !.dir = ROOT_INO]
  OBVIOUS
<1>2. nmProc[p].pc = "idle" /\ inode' = inode /\ nmFree' = nmFree /\ nmProc' = [nmProc EXCEPT ![p] = q]
  BY <1>1, CallIs DEF NmCall, Runs
<1>3. nmProc[p].file \in NmHeld /\ (nmProc[p].file # NoInode => inode[nmProc[p].file].mode # "free")
  BY CallIs
<1>4. /\ c.op \in Changing \cup {"open"} /\ c.path \in Seq(STRING) /\ c.old \in Seq(STRING)
  BY NmAssumption
<1>5. q = [pc |-> "walk", op |-> IF c.op = "link" THEN "old" ELSE c.op,
           path |-> IF c.op = "link" THEN c.old ELSE c.path,
           new |-> IF c.op = "link" THEN c.path ELSE <<>>, dir |-> ROOT_INO,
           ino |-> NoInode, nr |-> NoInode, slot |-> 0, file |-> nmProc[p].file]
  BY <1>1 DEF Done, Idle
<1>6. q \in NmCallType
  <2>1. /\ "walk" \in NmPcs /\ (IF c.op = "link" THEN "old" ELSE c.op) \in NmOps
        /\ (IF c.op = "link" THEN c.old ELSE c.path) \in Seq(STRING)
        /\ (IF c.op = "link" THEN c.path ELSE <<>>) \in Seq(STRING)
        /\ NoInode \in NmHeld /\ ROOT_INO \in NmHeld /\ 0 \in Nat
    <3>1. <<>> \in Seq(STRING)
      OBVIOUS
    <3>2. "walk" \in NmPcs /\ (IF c.op = "link" THEN "old" ELSE c.op) \in NmOps
      BY <1>4 DEF NmPcs, NmOps
    <3>3. NoInode \in NmHeld /\ ROOT_INO \in NmHeld /\ 0 \in Nat
      BY NmAssumption DEF NmHeld
    <3> QED
      BY <1>4, <3>1, <3>2, <3>3
  <2>2. PICK op, path, new : /\ op = (IF c.op = "link" THEN "old" ELSE c.op)
                             /\ path = (IF c.op = "link" THEN c.old ELSE c.path)
                             /\ new = (IF c.op = "link" THEN c.path ELSE <<>>)
    OBVIOUS
  <2>3. q = [pc |-> "walk", op |-> op, path |-> path, new |-> new, dir |-> ROOT_INO,
             ino |-> NoInode, nr |-> NoInode, slot |-> 0, file |-> nmProc[p].file]
    BY <1>5, <2>2
  <2>4. op \in NmOps /\ path \in Seq(STRING) /\ new \in Seq(STRING)
    BY <2>1, <2>2
  <2> QED
    BY <1>3, <2>1, <2>3, <2>4, NmCallTyped
<1>7. /\ q.pc = "walk" /\ q.op = (IF c.op = "link" THEN "old" ELSE c.op) /\ q.dir = ROOT_INO
      /\ q.ino = NoInode /\ q.file = nmProc[p].file
  BY <1>5
<1>8. q.op # "link"
  BY <1>7
<1>9. ROOT_INO # NoInode /\ inode[ROOT_INO].mode = "dir"
  BY DEF Tree, ROOT_INO, NoInode
<1>10. NameCallOK(q) /\ Plain(q)
  BY <1>6, <1>7, <1>8, <1>9 DEF NameCallOK, Plain
<1>11. HoldsOK(inode, q) /\ ChangeOK(inode, q)
  BY <1>3, <1>7, <1>8, <1>9 DEF HoldsOK, ChangeOK
<1>12. InChange(q) => \A r \in NmProcs \ {p} : ~InChange(nmProc[r])
  <2>1. InChange(q) => c.op \in Changing
    BY <1>4, <1>7 DEF InChange, Changing
  <2> QED
    BY <2>1 DEF NmCall
<1>13. /\ nmProc' \in [NmProcs -> NmCallType] /\ nmProc'[p] = q
       /\ \A r \in NmProcs \ {p} : nmProc'[r] = nmProc[r]
  <2>1. nmProc \in [NmProcs -> NmCallType]
    BY DEF Tree
  <2> QED
    BY <1>2, <1>6, <2>1
<1>14. Plain(nmProc[p])
  BY <1>2 DEF Plain
<1>15. Tree(inode, nmFree, nmProc')
  BY <1>10, <1>11, <1>12, <1>13, <1>14, MoveProc
<1> QED
  BY <1>2, <1>15

LEMMA NmCloseStep ==
  ASSUME Tree(inode, nmFree, nmProc), NEW p \in NmProcs, NmClose(p)
  PROVE  Tree(inode', nmFree', nmProc')
<1>1. PICK f : f = NoInode
  OBVIOUS
<1>2. [Idle EXCEPT !.file = f] = Idle
  BY <1>1 DEF Idle
<1>3. Settle(inode, nmFree, [nmProc EXCEPT ![p] = [Idle EXCEPT !.file = f]]) /\ Plain(nmProc[p])
  BY <1>2 DEF NmClose, Runs, Plain
<1> QED
  BY <1>1, <1>3, NameCallEnds DEF NmHeld

\* find_entry() returns the place of an entry with the name.
LEMMA HitIs ==
  ASSUME Tree(inode, nmFree, nmProc), NEW d \in NmInodes, NEW name, Found(d, name) # {},
         NEW s, s = First(Found(d, name))
  PROVE  /\ s \in Found(d, name) /\ s \in DOMAIN inode[d].ents /\ s \in Nat
         /\ inode[d].ents[s].ino \in NmInodes /\ inode[d].ents[s].ino # NoInode
<1>1. Found(d, name) \subseteq DOMAIN inode[d].ents
  BY DEF Found
<1>2. DOMAIN inode[d].ents \subseteq Nat
  BY Capacity DEF Tree
<1>3. s \in Found(d, name)
  BY <1>1, <1>2, FirstIn
<1>4. s \in DOMAIN inode[d].ents /\ inode[d].ents[s].ino # NoInode
  BY <1>3 DEF Found
<1>5. inode[d].ents[s].ino \in NmHeld
  BY <1>4, Capacity DEF Tree
<1> QED
  BY <1>2, <1>3, <1>4, <1>5 DEF NmHeld

LEMMA GetDirStarts ==
  ASSUME Tree(inode, nmFree, nmProc), NEW p \in NmProcs, GetDir(p)
  PROVE  Tree(inode', nmFree', nmProc')
<1>1. PICK q, d, hits : q = nmProc[p] /\ d = q.dir /\ hits = Found(d, Head(q.path))
  OBVIOUS
<1>2. /\ q.pc = "walk" /\ Len(q.path) > 1 /\ Plain(q)
  BY <1>1 DEF GetDir, Runs, Plain
<1>3. /\ nmProc \in [NmProcs -> NmCallType] /\ q \in NmCallType
      /\ NameCallOK(q) /\ HoldsOK(inode, q) /\ ChangeOK(inode, q)
  BY <1>1, CallIs
<1>4. CASE ~MaySearch(d) \/ hits = {}
  BY <1>1, <1>2, <1>4, FailKeeps DEF GetDir
<1>5. CASE MaySearch(d) /\ hits # {}
  <2>1. PICK s, n : s = First(hits) /\ n = inode[d].ents[s].ino
    OBVIOUS
  <2>2. d \in NmInodes
    BY <1>1, <1>2, <1>3 DEF NameCallOK, NmCallType, NmHeld
  <2>4. n \in NmInodes
    BY <1>1, <1>5, <2>1, <2>2, HitIs
  <2>5. PICK q2 : q2 = [q EXCEPT !.pc = "step", !.path = Tail(@), !.dir = NoInode, !.nr = n]
    OBVIOUS
  <2>6. [nmProc EXCEPT ![p].pc = "step", ![p].path = Tail(@), ![p].dir = NoInode, ![p].nr = n]
          = [nmProc EXCEPT ![p] = q2]
    BY <1>1, <1>3, <2>5
  <2>7. Settle(inode, nmFree, [nmProc EXCEPT ![p] = q2])
    <3>1. Settle(inode, nmFree, [nmProc EXCEPT ![p].pc = "step", ![p].path = Tail(@),
                                               ![p].dir = NoInode, ![p].nr = n])
      BY <1>1, <1>5, <2>1 DEF GetDir
    <3> QED
      BY <3>1, <2>6
  <2>8. q2 \in NmCallType
    <3>1. Tail(q.path) \in Seq(STRING) /\ "step" \in NmPcs /\ NoInode \in NmHeld /\ n \in NmHeld
      <4>1. q.path \in Seq(STRING) /\ q.path # <<>>
        BY <1>2, <1>3 DEF NmCallType
      <4>2. Tail(q.path) \in Seq(STRING)
        BY <4>1, HeadTailProperties
      <4> QED
        BY <4>2, <2>4 DEF NmPcs, NmHeld
    <3> QED
      BY <1>3, <2>5, <3>1, ZenonT(30) DEF NmCallType
  <2>9. /\ q2.pc = "step" /\ q2.op = q.op /\ q2.dir = NoInode /\ q2.ino = q.ino /\ q2.nr = n /\ q2.file = q.file
    BY <1>3, <2>5 DEF NmCallType
  <2>10. n # NoInode
    BY <2>4, NmAssumption DEF NoInode
  <2>11. NameCallOK(q2) /\ Plain(q2)
    BY <1>2, <1>3, <2>8, <2>9, <2>10 DEF NameCallOK, Plain
  <2>12. HoldsOK(inode, q2) /\ ChangeOK(inode, q2)
    BY <1>2, <1>3, <2>9 DEF HoldsOK, ChangeOK
  <2>13. InChange(q2) => InChange(nmProc[p])
    BY <1>1, <1>2, <2>9 DEF InChange
  <2>14. Tree(inode, nmFree, [nmProc EXCEPT ![p] = q2])
    BY <1>1, <1>2, <2>11, <2>12, <2>13, GoesOn
  <2> QED
    BY <2>7, <2>14, SettleKeeps
<1> QED
  BY <1>4, <1>5

LEMMA GetDirGoesOn ==
  ASSUME Tree(inode, nmFree, nmProc), NEW p \in NmProcs, GetDirStep(p), ~nmStale'
  PROVE  Tree(inode', nmFree', nmProc')
<1>1. PICK q, n : q = nmProc[p] /\ n = q.nr
  OBVIOUS
<1>2. q.pc = "step" /\ Plain(q) /\ inode[n].mode # "free" /\ inode' = inode /\ nmFree' = nmFree
  BY <1>1 DEF GetDirStep, Runs, Plain, Iget
<1>3. /\ nmProc \in [NmProcs -> NmCallType] /\ q \in NmCallType
      /\ NameCallOK(q) /\ HoldsOK(inode, q) /\ ChangeOK(inode, q)
  BY <1>1, CallIs
<1>4. n # NoInode /\ n \in NmHeld
  BY <1>1, <1>2, <1>3 DEF NameCallOK, NmCallType
<1>5. PICK q2 : q2 = [q EXCEPT !.pc = "walk", !.dir = n, !.nr = NoInode]
  OBVIOUS
<1>6. nmProc' = [nmProc EXCEPT ![p] = q2]
  <2>1. nmProc' = [nmProc EXCEPT ![p].pc = "walk", ![p].dir = n, ![p].nr = NoInode]
    BY <1>1 DEF GetDirStep
  <2> QED
    BY <1>1, <1>3, <1>5, <2>1
<1>7. q2 \in NmCallType
  <2>1. "walk" \in NmPcs /\ NoInode \in NmHeld
    BY DEF NmPcs, NmHeld
  <2> QED
    BY <1>3, <1>4, <1>5, <2>1, ZenonT(30) DEF NmCallType
<1>8. /\ q2.pc = "walk" /\ q2.op = q.op /\ q2.dir = n /\ q2.ino = q.ino /\ q2.file = q.file
  BY <1>3, <1>5 DEF NmCallType
<1>9. NameCallOK(q2) /\ Plain(q2)
  BY <1>2, <1>3, <1>4, <1>7, <1>8 DEF NameCallOK, Plain
<1>10. HoldsOK(inode, q2) /\ ChangeOK(inode, q2)
  BY <1>2, <1>3, <1>8 DEF HoldsOK, ChangeOK
<1>11. InChange(q2) => InChange(nmProc[p])
  BY <1>1, <1>2, <1>8 DEF InChange
<1>12. Tree(inode, nmFree, [nmProc EXCEPT ![p] = q2])
  BY <1>1, <1>2, <1>9, <1>10, <1>11, GoesOn
<1> QED
  BY <1>2, <1>6, <1>12

LEMMA NameIsFound ==
  ASSUME Tree(inode, nmFree, nmProc), NEW p \in NmProcs, NameFound(p)
  PROVE  Tree(inode', nmFree', nmProc')
<1>1. PICK q, d, hits, s, n, keep :
        /\ q = nmProc[p] /\ d = q.dir /\ hits = Found(d, q.path[1]) /\ s = First(hits)
        /\ n = inode[d].ents[s].ino /\ keep = (q.op \in {"unlink", "rmdir"})
  OBVIOUS
<1>2. /\ q.pc = "walk" /\ Len(q.path) = 1 /\ Plain(q) /\ inode[d].mode = "dir" /\ hits # {}
  BY <1>1 DEF NameFound, Runs, Plain, MaySearch
<1>3. /\ nmProc \in [NmProcs -> NmCallType] /\ q \in NmCallType
      /\ NameCallOK(q) /\ HoldsOK(inode, q) /\ ChangeOK(inode, q)
  BY <1>1, CallIs
<1>4. CASE q.op \in {"excl", "mknod", "mkdir", "link"}
  BY <1>1, <1>2, <1>4, FailKeeps DEF NameFound
<1>5. CASE q.op \notin {"excl", "mknod", "mkdir", "link"}
  <2>1. q.op \in {"open", "creat", "old", "unlink", "rmdir"}
    BY <1>3, <1>5 DEF NmCallType, NmOps, Changing
  <2>2. d \in NmInodes /\ d # NoInode
    BY <1>1, <1>2, <1>3 DEF NameCallOK, NmCallType, NmHeld
  <2>3. s \in Nat /\ s \in DOMAIN inode[d].ents /\ n \in NmInodes /\ n # NoInode
    BY <1>1, <1>2, <2>2, HitIs
  <2>4. n \in NmInodes /\ n # NoInode
    BY <2>3
  <2>5. PICK q2 : q2 = [q EXCEPT !.pc = "got", !.nr = n, !.slot = IF keep THEN s ELSE 0,
                                 !.dir = IF keep THEN @ ELSE NoInode]
    OBVIOUS
  <2>6. Settle(inode, nmFree, [nmProc EXCEPT ![p] = q2])
    <3>1. Settle(inode, nmFree,
            [nmProc EXCEPT ![p].pc = "got", ![p].nr = n, ![p].slot = IF keep THEN s ELSE 0,
                           ![p].dir = IF keep THEN @ ELSE NoInode])
      BY <1>1, <1>5 DEF NameFound
    <3>2. [nmProc EXCEPT ![p].pc = "got", ![p].nr = n, ![p].slot = IF keep THEN s ELSE 0,
                         ![p].dir = IF keep THEN @ ELSE NoInode] = [nmProc EXCEPT ![p] = q2]
      BY <1>1, <1>3, <2>5
    <3> QED
      BY <3>1, <3>2
  <2>7. PICK sl, dr : sl = (IF keep THEN s ELSE 0) /\ dr = (IF keep THEN d ELSE NoInode)
    OBVIOUS
  <2>8. q2 \in NmCallType
    <3>1. "got" \in NmPcs /\ sl \in Nat /\ dr \in NmHeld /\ n \in NmHeld
      BY <2>2, <2>3, <2>4, <2>7 DEF NmPcs, NmHeld
    <3>2. q2 = [q EXCEPT !.pc = "got", !.nr = n, !.slot = sl, !.dir = dr]
      BY <1>1, <1>3, <2>5, <2>7 DEF NmCallType
    <3> QED
      BY <1>3, <3>1, <3>2, ZenonT(30) DEF NmCallType
  <2>9. /\ q2.pc = "got" /\ q2.op = q.op /\ q2.dir = dr /\ q2.ino = q.ino /\ q2.nr = n /\ q2.file = q.file
        /\ q2.slot = sl
    BY <1>1, <1>3, <2>5, <2>7 DEF NmCallType
  <2>10. NameCallOK(q2) /\ Plain(q2)
    BY <1>2, <1>3, <2>1, <2>4, <2>8, <2>9 DEF NameCallOK, Plain
  <2>11. HoldsOK(inode, q2)
    BY <1>1, <1>2, <1>3, <2>7, <2>9 DEF HoldsOK
  <2>12. ChangeOK(inode, q2)
    BY <1>1, <1>2, <1>3, <2>1, <2>2, <2>3, <2>7, <2>9 DEF ChangeOK
  <2>13. InChange(q2) => InChange(nmProc[p])
    BY <1>1, <1>2, <2>9 DEF InChange
  <2>14. Tree(inode, nmFree, [nmProc EXCEPT ![p] = q2])
    BY <1>1, <1>2, <2>10, <2>11, <2>12, <2>13, GoesOn
  <2> QED
    BY <2>6, <2>14, SettleKeeps
<1> QED
  BY <1>4, <1>5

LEMMA NameIsMissing ==
  ASSUME Tree(inode, nmFree, nmProc), NEW p \in NmProcs, NameMissing(p)
  PROVE  Tree(inode', nmFree', nmProc')
<1>1. PICK q, d : q = nmProc[p] /\ d = q.dir
  OBVIOUS
<1>2. /\ q.pc = "walk" /\ Len(q.path) = 1 /\ Plain(q)
  BY <1>1 DEF NameMissing, Runs, Plain
<1>3. /\ nmProc \in [NmProcs -> NmCallType] /\ q \in NmCallType
      /\ NameCallOK(q) /\ HoldsOK(inode, q) /\ ChangeOK(inode, q)
  BY <1>1, CallIs
<1>4. CASE Fail(p)
  BY <1>1, <1>2, <1>4, FailKeeps
<1>5. CASE ~Fail(p)
  <2>1. /\ MaySearch(d) /\ Found(d, q.path[1]) = {}
        /\ q.op \in {"creat", "excl", "mknod", "mkdir", "link"}
        /\ nmProc' = [nmProc EXCEPT ![p].pc = IF q.op = "link" THEN "add" ELSE "new"]
        /\ inode' = inode /\ nmFree' = nmFree
    BY <1>1, <1>5 DEF NameMissing
  <2>2. PICK pc, q2 : pc = (IF q.op = "link" THEN "add" ELSE "new") /\ q2 = [q EXCEPT !.pc = pc]
    OBVIOUS
  <2>3. nmProc' = [nmProc EXCEPT ![p] = q2]
    BY <1>1, <1>3, <2>1, <2>2
  <2>4. q2 \in NmCallType
    <3>1. pc \in NmPcs
      BY <2>2 DEF NmPcs
    <3> QED
      BY <1>3, <2>2, <3>1, ZenonT(30) DEF NmCallType
  <2>5. /\ q2.pc = pc /\ q2.op = q.op /\ q2.dir = q.dir /\ q2.ino = q.ino /\ q2.file = q.file
        /\ q2.path = q.path
    BY <1>3, <2>2 DEF NmCallType
  <2>6. inode[d].mode = "dir" /\ inode[d].nlinks # 0 /\ FoundIn(inode, d, q.path[1]) = {}
    BY <2>1 DEF MaySearch, MayUse, Found, FoundIn
  <2>7. q.op = "link" => inode[q.ino].mode = "reg" /\ q.ino # d /\ q.ino # NoInode
    BY <1>1, <1>2, <1>3, <2>6 DEF ChangeOK, NameCallOK
  <2>8. NameCallOK(q2) /\ Plain(q2)
    BY <1>1, <1>2, <1>3, <2>1, <2>2, <2>4, <2>5, <2>7 DEF NameCallOK, Plain, Makes
  <2>9. HoldsOK(inode, q2) /\ ChangeOK(inode, q2)
    BY <1>1, <1>2, <1>3, <2>1, <2>2, <2>5, <2>6, <2>7 DEF HoldsOK, ChangeOK
  <2>10. InChange(q2) => InChange(nmProc[p])
    BY <1>1, <1>2, <2>5 DEF InChange
  <2>11. Tree(inode, nmFree, [nmProc EXCEPT ![p] = q2])
    BY <1>1, <1>2, <2>8, <2>9, <2>10, GoesOn
  <2> QED
    BY <2>1, <2>3, <2>11
<1> QED
  BY <1>4, <1>5

LEMMA NameOpenEnds ==
  ASSUME Tree(inode, nmFree, nmProc), NEW p \in NmProcs, OpenGot(p), ~nmStale'
  PROVE  Tree(inode', nmFree', nmProc')
<1>1. PICK n, ok : /\ n = nmProc[p].nr
                   /\ ok = (MayUse(n) /\ ~(inode[n].mode = "dir" /\ nmProc[p].op = "creat"))
  OBVIOUS
<1>2. nmProc[p].pc = "got" /\ Plain(nmProc[p]) /\ inode[n].mode # "free"
  BY <1>1 DEF OpenGot, Runs, Plain, Iget
<1>3. n \in NmHeld
  BY <1>1, CallIs DEF NmCallType
<1>4. PICK f : f = IF ok THEN n ELSE NoInode
  OBVIOUS
<1>5. [Idle EXCEPT !.file = IF ok THEN n ELSE @] = [Idle EXCEPT !.file = f]
  BY <1>4 DEF Idle
<1>6. Settle(inode, nmFree, [nmProc EXCEPT ![p] = [Idle EXCEPT !.file = IF ok THEN n ELSE @]])
  BY <1>1 DEF OpenGot
<1>7. Settle(inode, nmFree, [nmProc EXCEPT ![p] = [Idle EXCEPT !.file = f]])
  BY <1>5, <1>6
<1>8. f \in NmHeld /\ (f # NoInode => inode[f].mode # "free")
  BY <1>2, <1>3, <1>4 DEF NmHeld
<1> QED
  BY <1>2, <1>7, <1>8, NameCallEnds

LEMMA LinkGoesOn ==
  ASSUME Tree(inode, nmFree, nmProc), NEW p \in NmProcs, LinkGot(p), ~nmStale'
  PROVE  Tree(inode', nmFree', nmProc')
<1>1. PICK q, n : q = nmProc[p] /\ n = q.nr
  OBVIOUS
<1>2. q.pc = "got" /\ q.op = "old" /\ Plain(q) /\ inode[n].mode # "free"
  BY <1>1 DEF LinkGot, Runs, Plain, Iget
<1>3. /\ nmProc \in [NmProcs -> NmCallType] /\ q \in NmCallType
      /\ NameCallOK(q) /\ HoldsOK(inode, q) /\ ChangeOK(inode, q)
  BY <1>1, CallIs
<1>4. n # NoInode /\ n \in NmHeld /\ n \in NmInodes
  BY <1>1, <1>2, <1>3 DEF NameCallOK, NmCallType, NmHeld
<1>5. CASE inode[n].mode = "dir"
  BY <1>1, <1>2, <1>5, FailKeeps DEF LinkGot
<1>6. CASE inode[n].mode # "dir"
  <2>1. inode[n].mode = "reg"
    <3>1. inode[n] \in NmInode
      BY <1>4 DEF Tree
    <3> QED
      BY <1>2, <1>6, <3>1 DEF NmInode
  <2>2. PICK q2 : q2 = [q EXCEPT !.pc = "walk", !.op = "link", !.path = q.new, !.new = <<>>,
                                 !.ino = n, !.nr = NoInode, !.dir = ROOT_INO]
    OBVIOUS
  <2>3. nmProc' = [nmProc EXCEPT ![p] = q2] /\ inode' = inode /\ nmFree' = nmFree
    <3>1. /\ nmProc' = [nmProc EXCEPT ![p] =
                     [@ EXCEPT !.pc = "walk", !.op = "link", !.path = nmProc[p].new, !.new = <<>>,
                               !.ino = n, !.nr = NoInode, !.dir = ROOT_INO]]
          /\ inode' = inode /\ nmFree' = nmFree
      BY <1>1, <1>6 DEF LinkGot
    <3> QED
      BY <1>1, <1>3, <2>2, <3>1
  <2>4. q2 \in NmCallType
    <3>1. PICK e : e = <<>>
      OBVIOUS
    <3>2. /\ "walk" \in NmPcs /\ "link" \in NmOps /\ NoInode \in NmHeld /\ ROOT_INO \in NmHeld
          /\ e \in Seq(STRING) /\ q.new \in Seq(STRING)
      BY <3>1, <1>3, NmAssumption DEF NmPcs, NmOps, Changing, NmHeld, NmCallType
    <3>3. q2 = [q EXCEPT !.pc = "walk", !.op = "link", !.path = q.new, !.new = e,
                         !.ino = n, !.nr = NoInode, !.dir = ROOT_INO]
      BY <2>2, <3>1
    <3> QED
      BY <1>3, <1>4, <3>2, <3>3, ZenonT(30) DEF NmCallType
  <2>5. /\ q2.pc = "walk" /\ q2.op = "link" /\ q2.dir = ROOT_INO /\ q2.ino = n /\ q2.file = q.file
    BY <1>3, <2>2 DEF NmCallType
  <2>6. ROOT_INO # NoInode /\ inode[ROOT_INO].mode = "dir"
    BY DEF Tree, ROOT_INO, NoInode
  <2>8. NameCallOK(q2) /\ Plain(q2)
    BY <1>4, <2>4, <2>5, <2>6 DEF NameCallOK, Plain
  <2>9. HoldsOK(inode, q2) /\ ChangeOK(inode, q2)
    BY <1>2, <1>3, <2>1, <2>5, <2>6 DEF HoldsOK, ChangeOK
  <2>10. InChange(q2) => InChange(nmProc[p])
    BY <1>1, <1>2 DEF InChange
  <2>11. Tree(inode, nmFree, [nmProc EXCEPT ![p] = q2])
    BY <1>1, <1>2, <2>8, <2>9, <2>10, GoesOn
  <2> QED
    BY <2>3, <2>11
<1> QED
  BY <1>5, <1>6

LEMMA RmdirGoesOn ==
  ASSUME Tree(inode, nmFree, nmProc), NEW p \in NmProcs, RmdirGot(p), ~nmStale'
  PROVE  Tree(inode', nmFree', nmProc')
<1>1. PICK q, n : q = nmProc[p] /\ n = q.nr
  OBVIOUS
<1>2. q.pc = "got" /\ q.op = "rmdir" /\ Plain(q) /\ inode[n].mode # "free"
  BY <1>1 DEF RmdirGot, Runs, Plain, Iget
<1>3. /\ nmProc \in [NmProcs -> NmCallType] /\ q \in NmCallType
      /\ NameCallOK(q) /\ HoldsOK(inode, q) /\ ChangeOK(inode, q)
  BY <1>1, CallIs
<1>4. n # NoInode /\ n \in NmHeld /\ n \in NmInodes
  BY <1>1, <1>2, <1>3 DEF NameCallOK, NmCallType, NmHeld
<1>5. CASE inode[n].mode # "dir" \/ InUse(n)
  BY <1>1, <1>2, <1>5, FailKeeps DEF RmdirGot
<1>6. CASE inode[n].mode = "dir" /\ ~InUse(n)
  <2>1. q.dir # n
    <3>1. Holds(nmProc, n) \in Nat /\ ~(Holds(nmProc, n) > 0)
      BY <1>6, HoldsNat DEF InUse
    <3>2. Holds(nmProc, n) = 0
      BY <3>1
    <3> QED
      BY <1>1, <1>3, <3>2, NobodyHolds
  <2>2. PICK q2 : q2 = [q EXCEPT !.pc = "empty", !.ino = n]
    OBVIOUS
  <2>3. nmProc' = [nmProc EXCEPT ![p] = q2] /\ inode' = inode /\ nmFree' = nmFree
    <3>1. nmProc' = [nmProc EXCEPT ![p].pc = "empty", ![p].ino = n] /\ inode' = inode /\ nmFree' = nmFree
      BY <1>1, <1>6 DEF RmdirGot
    <3> QED
      BY <1>1, <1>3, <2>2, <3>1
  <2>4. q2 \in NmCallType
    <3>1. "empty" \in NmPcs
      BY DEF NmPcs
    <3> QED
      BY <1>3, <1>4, <2>2, <3>1, ZenonT(30) DEF NmCallType
  <2>5. /\ q2.pc = "empty" /\ q2.op = "rmdir" /\ q2.dir = q.dir /\ q2.ino = n /\ q2.nr = n
        /\ q2.file = q.file /\ q2.slot = q.slot
    BY <1>1, <1>2, <1>3, <2>2 DEF NmCallType
  <2>8. NameCallOK(q2) /\ Plain(q2)
    BY <1>2, <1>3, <1>4, <2>1, <2>4, <2>5 DEF NameCallOK, ChangeOK, Plain
  <2>9. HoldsOK(inode, q2) /\ ChangeOK(inode, q2)
    BY <1>1, <1>2, <1>3, <1>6, <2>5 DEF HoldsOK, ChangeOK
  <2>10. InChange(q2) => InChange(nmProc[p])
    BY <1>1, <1>2, <2>5 DEF InChange
  <2>11. Tree(inode, nmFree, [nmProc EXCEPT ![p] = q2])
    BY <1>1, <1>2, <2>8, <2>9, <2>10, GoesOn
  <2> QED
    BY <2>3, <2>11
<1> QED
  BY <1>5, <1>6

-----------------------------------------------------------------------------
(* The calls that change names *)

\* the links that one call is about to write and the entries it has not counted
WriteOf(q, i) == IF q.pc = "add" /\ q.ino = i /\ q.op # "link" THEN 1 ELSE 0
CountOf(q, i) == IF q.pc = "linked" /\ q.ino = i THEN 1 ELSE 0

LEMMA OtherReaders ==
  ASSUME NEW I, NEW F, NEW Q, Tree(I, F, Q), NEW p \in NmProcs, InChange(Q[p]), NEW r \in NmProcs \ {p}
  PROVE  /\ ~InChange(Q[r]) /\ NameCallOK(Q[r])
         /\ Q[r].pc \notin {"empty", "new", "add", "linked"} /\ (Q[r].pc = "idle" \/ Q[r].op = "open")
<1>1. ~InChange(Q[r]) /\ NameCallOK(Q[r])
  BY DEF Tree, OneChange
<1>2. Q[r].op \in NmOps
  BY <1>1 DEF NameCallOK, NmCallType
<1>3. Q[r].pc = "idle" \/ Q[r].op = "open"
  BY <1>1, <1>2 DEF InChange, NmOps
<1> QED
  BY <1>1, <1>3 DEF NameCallOK, Makes

\* Among readers, one call decides how many links are on their way.
LEMMA RefsOf ==
  ASSUME NEW I, NEW Q, NEW p \in NmProcs, NEW i,
         \A r \in NmProcs \ {p} : Q[r].pc \notin {"empty", "new", "add", "linked"}
  PROVE  RefsIn(I, Q, i) = Cardinality(EntriesIn(I, i)) + WriteOf(Q[p], i) - CountOf(Q[p], i)
<1>1. WritersOf(Q, i) = IF Q[p].pc = "add" /\ Q[p].ino = i /\ Q[p].op # "link" THEN {p} ELSE {}
  BY DEF WritersOf
<1>2. CountersOf(Q, i) = IF Q[p].pc = "linked" /\ Q[p].ino = i THEN {p} ELSE {}
  BY DEF CountersOf
<1>3. Cardinality({p}) = 1 /\ Cardinality({}) = 0
  BY FS_Singleton, FS_EmptySet
<1>4. Cardinality(WritersOf(Q, i)) = WriteOf(Q[p], i)
  BY <1>1, <1>3 DEF WriteOf
<1>5. Cardinality(CountersOf(Q, i)) = CountOf(Q[p], i)
  BY <1>2, <1>3 DEF CountOf
<1> QED
  BY <1>4, <1>5 DEF RefsIn

\* The step of a call that changes names: the others only look.
LEMMA Assemble ==
  ASSUME NEW I, NEW F, NEW Q, Tree(I, F, Q), NEW p \in NmProcs, InChange(Q[p]),
         NEW I2, I2 \in [NmInodes -> NmInode], NEW Q2, Q2 \in [NmProcs -> NmCallType], NEW F2 \in Nat,
         \A r \in NmProcs \ {p} : Q2[r] = Q[r],
         \A i \in NmInodes : I[i].mode # "free" => I2[i].mode = I[i].mode,
         NameCallOK(Q2[p]), HoldsOK(I2, Q2[p]), ChangeOK(I2, Q2[p]),
         \A i \in NmInodes : Linked(I2, Q2, i) /\ Listed(I2[i]),
         F2 + Cardinality(BlocksOf(I2, NmInodes)) = NmBlocks
  PROVE  Tree(I2, F2, Q2)
<1>1. ASSUME NEW r \in NmProcs \ {p} PROVE NameCallOK(Q2[r]) /\ HoldsOK(I2, Q2[r]) /\ ChangeOK(I2, Q2[r])
  <2>1. /\ NameCallOK(Q[r]) /\ HoldsOK(I, Q[r]) /\ Q2[r] = Q[r]
        /\ Q[r].pc \notin {"empty", "new", "add", "linked"} /\ (Q[r].pc = "idle" \/ Q[r].op = "open")
    BY OtherReaders DEF Tree
  <2>2. Q[r].dir \in NmHeld /\ Q[r].ino \in NmHeld /\ Q[r].file \in NmHeld
    BY <2>1 DEF NameCallOK, NmCallType
  <2>3. HoldsOK(I2, Q[r])
    BY <2>1, <2>2 DEF HoldsOK, NmHeld
  <2>4. ChangeOK(I2, Q[r])
    BY <2>1 DEF ChangeOK
  <2> QED
    BY <2>1, <2>3, <2>4
<1>2. \A r \in NmProcs : NameCallOK(Q2[r]) /\ HoldsOK(I2, Q2[r]) /\ ChangeOK(I2, Q2[r])
  BY <1>1
<1>3. OneChange(Q2)
  <2>1. \A r \in NmProcs \ {p} : ~InChange(Q2[r])
    BY OtherReaders
  <2> QED
    BY <2>1 DEF OneChange
<1>4. I2[ROOT_INO].mode = "dir"
  BY NmAssumption DEF Tree
<1> QED
  BY <1>2, <1>3, <1>4 DEF Tree

\* the inodes but for their links
SameShape(I, I2) ==
  \A i \in NmInodes : /\ I2[i].mode = I[i].mode /\ I2[i].ents = I[i].ents
                      /\ I2[i].blocks = I[i].blocks

LEMMA ShapeKept ==
  ASSUME NEW I, I \in [NmInodes -> NmInode], \A i \in NmInodes : Listed(I[i]), NEW I2, SameShape(I, I2)
  PROVE  /\ \A i \in NmInodes : /\ EntriesIn(I2, i) = EntriesIn(I, i) /\ SubdirsIn(I2, i) = SubdirsIn(I, i)
                                /\ EmptyIn(I2, i) = EmptyIn(I, i) /\ Listed(I2[i])
         /\ BlocksOf(I2, NmInodes) = BlocksOf(I, NmInodes)
<1>1. ASSUME NEW i \in NmInodes PROVE EntriesIn(I2, i) = EntriesIn(I, i)
  BY DEF EntriesIn, SameShape
<1>2. ASSUME NEW i \in NmInodes PROVE SubdirsIn(I2, i) = SubdirsIn(I, i)
  <2>1. \A s \in DOMAIN I[i].ents : I[i].ents[s].ino \in NmHeld
    BY Capacity
  <2>2. \A s \in DOMAIN I[i].ents : I[i].ents[s].ino # NoInode => I[i].ents[s].ino \in NmInodes
    BY <2>1 DEF NmHeld
  <2> QED
    BY <2>2 DEF SubdirsIn, SameShape
<1>3. ASSUME NEW i \in NmInodes PROVE EmptyIn(I2, i) = EmptyIn(I, i)
  BY DEF EmptyIn, SameShape
<1>4. ASSUME NEW i \in NmInodes PROVE Listed(I2[i])
  <2>1. Listed(I[i]) /\ I2[i].mode = I[i].mode /\ I2[i].ents = I[i].ents /\ I2[i].blocks = I[i].blocks
    BY DEF SameShape
  <2> QED
    BY <2>1 DEF Listed, OnceNamed
<1>5. BlocksOf(I2, NmInodes) = BlocksOf(I, NmInodes)
  BY DEF BlocksOf, SameShape
<1> QED
  BY <1>1, <1>2, <1>3, <1>4, <1>5

WithLinks(I, n, k) == [I EXCEPT ![n].nlinks = k]
LinksSet(I, I2, n, k) ==
  /\ I2 \in [NmInodes -> NmInode] /\ SameShape(I, I2)
  /\ \A i \in NmInodes : I2[i].nlinks = IF i = n THEN k ELSE I[i].nlinks

LEMMA SetLinks ==
  ASSUME NEW I, I \in [NmInodes -> NmInode], NEW n \in NmInodes, NEW k \in Int,
         NEW I2, I2 = WithLinks(I, n, k)
  PROVE  LinksSet(I, I2, n, k)
<1>1. PICK x : x = [I[n] EXCEPT !.nlinks = k]
  OBVIOUS
<1>2. I[n] \in NmInode
  OBVIOUS
<1>3. /\ x \in NmInode /\ x.mode = I[n].mode /\ x.ents = I[n].ents /\ x.blocks = I[n].blocks
      /\ x.nlinks = k
  BY <1>1, <1>2 DEF NmInode
<1>4. I2 = [I EXCEPT ![n] = x]
  BY <1>1 DEF WithLinks
<1>5. I2 \in [NmInodes -> NmInode]
  BY <1>3, <1>4
<1>6. \A i \in NmInodes : I2[i] = IF i = n THEN x ELSE I[i]
  BY <1>4
<1>7. SameShape(I, I2)
  BY <1>3, <1>6 DEF SameShape
<1> QED
  BY <1>3, <1>5, <1>6, <1>7 DEF LinksSet

\* p's call has ended, and the others have not moved
Ended(I2, Q2, p) ==
  /\ Q2 \in [NmProcs -> NmCallType] /\ \A r \in NmProcs \ {p} : Q2[r] = nmProc[r]
  /\ NameCallOK(Q2[p]) /\ HoldsOK(I2, Q2[p]) /\ ChangeOK(I2, Q2[p]) /\ Q2[p].pc = "idle"
IdleWith(f) == [Idle EXCEPT !.file = f]

\* The end of a call that holds file f.
LEMMA Ending ==
  ASSUME Tree(inode, nmFree, nmProc), NEW p \in NmProcs, NEW f \in NmHeld, NEW I2,
         f # NoInode => I2[f].mode # "free",
         NEW q, q = IdleWith(f), NEW Q2, Q2 = [nmProc EXCEPT ![p] = q]
  PROVE  Ended(I2, Q2, p)
<1>2. /\ q \in NmCallType /\ NameCallOK(q) /\ HoldsOK(I2, q) /\ ChangeOK(I2, q)
  BY OutsideCall DEF IdleWith
<1>3. q.pc = "idle"
  BY DEF Idle, IdleWith
<1>4. nmProc \in [NmProcs -> NmCallType]
  BY DEF Tree
<1>5. /\ Q2 \in [NmProcs -> NmCallType] /\ Q2[p] = q /\ \A r \in NmProcs \ {p} : Q2[r] = nmProc[r]
  BY <1>2, <1>4
<1> QED
  BY <1>2, <1>3, <1>5 DEF Ended

\* Return() is such an end, with the file the process had.
LEMMA Returning ==
  ASSUME Tree(inode, nmFree, nmProc), NEW p \in NmProcs, NEW I2, NEW F2, Return(p, I2, F2),
         \A i \in NmInodes : inode[i].mode # "free" => I2[i].mode = inode[i].mode
  PROVE  \E Q2 : Settle(I2, F2, Q2) /\ Ended(I2, Q2, p)
<1>1. PICK f, q : f = nmProc[p].file /\ q = IdleWith(f)
  OBVIOUS
<1>2. f \in NmHeld /\ (f # NoInode => inode[f].mode # "free") /\ nmProc \in [NmProcs -> NmCallType]
  BY <1>1, CallIs
<1>3. f # NoInode => I2[f].mode # "free"
  BY <1>2 DEF NmHeld
<1>4. PICK Q2 : Q2 = [nmProc EXCEPT ![p] = q]
  OBVIOUS
<1>5. [nmProc EXCEPT ![p] = Done(@)] = Q2
  BY <1>1, <1>2, <1>4 DEF Done, IdleWith
<1>6. Settle(I2, F2, Q2)
  BY <1>5 DEF Return
<1>7. Ended(I2, Q2, p)
  BY <1>1, <1>2, <1>3, <1>4, Ending
<1> QED
  BY <1>6, <1>7

\* Links alone change at the end of a call: n gets as many as it has names.
LEMMA SetLinksEnds ==
  ASSUME Tree(inode, nmFree, nmProc), NEW p \in NmProcs, InChange(nmProc[p]), NEW n \in NmInodes,
         inode[n].mode = "reg", NEW k \in Int, k = Cardinality(EntriesIn(inode, n)),
         \A i \in NmInodes \ {n} : WriteOf(nmProc[p], i) = 0 /\ CountOf(nmProc[p], i) = 0,
         NEW I2, I2 = WithLinks(inode, n, k), Return(p, I2, nmFree)
  PROVE  Tree(inode', nmFree', nmProc')
<1>1. /\ inode \in [NmInodes -> NmInode] /\ \A i \in NmInodes : Listed(inode[i])
  BY DEF Tree
<1>2. /\ I2 \in [NmInodes -> NmInode] /\ SameShape(inode, I2)
      /\ \A i \in NmInodes : I2[i].nlinks = IF i = n THEN k ELSE inode[i].nlinks
  <2>1. LinksSet(inode, I2, n, k)
    BY <1>1, SetLinks
  <2> QED
    BY <2>1 DEF LinksSet
<1>3. \A i \in NmInodes : inode[i].mode # "free" => I2[i].mode = inode[i].mode
  BY <1>2 DEF SameShape
<1>4. PICK Q2 : Settle(I2, nmFree, Q2) /\ Ended(I2, Q2, p)
  BY <1>3, Returning
<1>5. \A r \in NmProcs \ {p} : nmProc[r].pc \notin {"empty", "new", "add", "linked"}
  BY OtherReaders
<1>6. ASSUME NEW i \in NmInodes PROVE Linked(I2, Q2, i) /\ Listed(I2[i])
  <2>1. Linked(inode, nmProc, i) /\ Cardinality(EntriesIn(inode, i)) \in Nat
    BY NameSets DEF Tree
  <2>2. /\ EntriesIn(I2, i) = EntriesIn(inode, i) /\ SubdirsIn(I2, i) = SubdirsIn(inode, i)
        /\ EmptyIn(I2, i) = EmptyIn(inode, i) /\ Listed(I2[i]) /\ I2[i].mode = inode[i].mode
    BY <1>1, <1>2, ShapeKept DEF SameShape
  <2>3. RefsIn(inode, nmProc, i) = Cardinality(EntriesIn(inode, i)) + WriteOf(nmProc[p], i) - CountOf(nmProc[p], i)
    BY <1>5, RefsOf
  <2>4. RefsIn(I2, Q2, i) = Cardinality(EntriesIn(inode, i)) + 0 - 0
    <3>1. WriteOf(Q2[p], i) = 0 /\ CountOf(Q2[p], i) = 0
      BY <1>4 DEF Ended, WriteOf, CountOf
    <3>2. \A r \in NmProcs \ {p} : Q2[r].pc \notin {"empty", "new", "add", "linked"}
      BY <1>4, <1>5 DEF Ended
    <3>3. RefsIn(I2, Q2, i) = Cardinality(EntriesIn(I2, i)) + WriteOf(Q2[p], i) - CountOf(Q2[p], i)
      BY <3>2, RefsOf
    <3> QED
      BY <2>2, <3>1, <3>3
  <2>5. RefsIn(I2, Q2, i) = Cardinality(EntriesIn(inode, i))
    BY <2>1, <2>4
  <2>7. CASE i = n
    BY <1>2, <2>2, <2>5, <2>7 DEF Linked
  <2>8. CASE i # n
    <3>1. I2[i].nlinks = inode[i].nlinks /\ RefsIn(I2, Q2, i) = RefsIn(inode, nmProc, i)
      BY <1>2, <2>1, <2>3, <2>4, <2>8
    <3> QED
      BY <2>1, <2>2, <3>1 DEF Linked
  <2> QED
    BY <2>7, <2>8
<1>7. nmFree \in Nat /\ nmFree + Cardinality(BlocksOf(I2, NmInodes)) = NmBlocks
  <2>1. BlocksOf(I2, NmInodes) = BlocksOf(inode, NmInodes)
    BY <1>1, <1>2, ShapeKept
  <2> QED
    BY <2>1 DEF Tree
<1>8. Tree(I2, nmFree, Q2)
  BY <1>2, <1>3, <1>4, <1>6, <1>7, Assemble DEF Ended
<1> QED
  BY <1>4, <1>8, SettleKeeps

\* sys_link() counts the link it has written.
LEMMA LinkIsCounted ==
  ASSUME Tree(inode, nmFree, nmProc), NEW p \in NmProcs, LinkCount(p)
  PROVE  Tree(inode', nmFree', nmProc')
<1>1. PICK q, n : q = nmProc[p] /\ n = q.ino
  OBVIOUS
<1>2. q.pc = "linked"
  BY <1>1 DEF LinkCount, Runs
<1>3. q \in NmCallType /\ NameCallOK(q) /\ ChangeOK(inode, q)
  BY <1>1, CallIs
<1>4. q.op = "link" /\ n \in NmInodes /\ inode[n].mode = "reg" /\ InChange(nmProc[p])
  BY <1>1, <1>2, <1>3 DEF NameCallOK, NmCallType, NmHeld, ChangeOK, InChange, Changing
<1>5. \A r \in NmProcs \ {p} : nmProc[r].pc \notin {"empty", "new", "add", "linked"}
  BY <1>4, OtherReaders
<1>6. PICK k, e : k = inode[n].nlinks + 1 /\ e = Cardinality(EntriesIn(inode, n))
  OBVIOUS
<1>7. RefsIn(inode, nmProc, n) = e + 0 - 1
  <2>1. WriteOf(q, n) = 0 /\ CountOf(q, n) = 1
    BY <1>1, <1>2 DEF WriteOf, CountOf
  <2> QED
    BY <1>1, <1>5, <1>6, <2>1, RefsOf
<1>8. k = e /\ k \in Int
  <2>1. e \in Nat /\ inode[n].nlinks = e + 0 - 1
    BY <1>4, <1>6, <1>7, NameSets DEF Tree, Linked
  <2> QED
    BY <1>6, <2>1
<1>9. Return(p, WithLinks(inode, n, k), nmFree)
  <2>1. Return(p, [inode EXCEPT ![n].nlinks = @ + 1], nmFree)
    BY <1>1 DEF LinkCount
  <2>2. [inode EXCEPT ![n].nlinks = @ + 1] = [inode EXCEPT ![n].nlinks = k]
    BY <1>4, <1>6 DEF Tree
  <2> QED
    BY <2>1, <2>2 DEF WithLinks
<1>10. \A i \in NmInodes \ {n} : WriteOf(nmProc[p], i) = 0 /\ CountOf(nmProc[p], i) = 0
  BY <1>1, <1>2 DEF WriteOf, CountOf
<1> QED
  BY <1>4, <1>6, <1>8, <1>9, <1>10, SetLinksEnds

\* Without room in the directory the new inode loses its link.
LEMMA AddingFails ==
  ASSUME Tree(inode, nmFree, nmProc), NEW p \in NmProcs, AddFails(p), ~nmPanic'
  PROVE  Tree(inode', nmFree', nmProc')
<1>1. PICK q, n : q = nmProc[p] /\ n = q.ino
  OBVIOUS
<1>2. q.pc = "add"
  BY <1>1 DEF AddFails, Runs
<1>3. CASE q.op = "link" /\ Fail(p)
  BY <1>1, <1>2, <1>3, FailKeeps DEF Plain
<1>4. CASE /\ q.op \in {"creat", "excl", "mknod"}
           /\ Return(p, [inode EXCEPT ![n].nlinks = 0], nmFree)
  <2>1. q \in NmCallType /\ NameCallOK(q) /\ ChangeOK(inode, q)
    BY <1>1, CallIs
  <2>2. n \in NmInodes /\ inode[n].mode = "reg" /\ EntriesIn(inode, n) = {} /\ InChange(nmProc[p])
    BY <1>1, <1>2, <1>4, <2>1 DEF NameCallOK, NmCallType, NmHeld, ChangeOK, InChange, Changing
  <2>3. 0 = Cardinality(EntriesIn(inode, n))
    BY <2>2, FS_EmptySet
  <2>4. \A i \in NmInodes \ {n} : WriteOf(nmProc[p], i) = 0 /\ CountOf(nmProc[p], i) = 0
    BY <1>1, <1>2 DEF WriteOf, CountOf
  <2>5. PICK k : k = 0
    OBVIOUS
  <2>6. k \in Int /\ k = Cardinality(EntriesIn(inode, n)) /\ Return(p, WithLinks(inode, n, k), nmFree)
    BY <1>4, <2>3, <2>5 DEF WithLinks
  <2> QED
    BY <2>2, <2>4, <2>6, SetLinksEnds
<1> QED
  BY <1>1, <1>3, <1>4 DEF AddFails

\* C is I without the name in entry s of d
Clears(I, C, d, s) ==
  /\ C \in [NmInodes -> NmInode]
  /\ \A i \in NmInodes : /\ C[i].mode = I[i].mode /\ C[i].nlinks = I[i].nlinks
                         /\ C[i].blocks = I[i].blocks /\ DOMAIN C[i].ents = DOMAIN I[i].ents
                         /\ Len(C[i].ents) = Len(I[i].ents)
  /\ \A i \in NmInodes \ {d} : C[i].ents = I[i].ents
  /\ C[d].ents[s].ino = NoInode
  /\ \A t \in DOMAIN I[d].ents \ {s} : C[d].ents[t] = I[d].ents[t]

LEMMA ClearedIs ==
  ASSUME Tree(inode, nmFree, nmProc), NEW d \in NmInodes, NEW s \in DOMAIN inode[d].ents
  PROVE  Clears(inode, Cleared(d, s), d, s)
<1>1. PICK e, x, y : /\ e = [inode[d].ents[s] EXCEPT !.ino = NoInode]
                     /\ x = [inode[d].ents EXCEPT ![s] = e] /\ y = [inode[d] EXCEPT !.ents = x]
  OBVIOUS
<1>2. inode \in [NmInodes -> NmInode] /\ inode[d] \in NmInode
  BY DEF Tree
<1>3. /\ inode[d].ents \in Seq(NmEntry) /\ inode[d].ents[s] \in NmEntry
      /\ DOMAIN inode[d].ents = 1 .. Len(inode[d].ents) /\ Len(inode[d].ents) \in Nat
  BY Capacity DEF Tree
<1>4. e \in NmEntry /\ e.ino = NoInode
  BY <1>1, <1>3 DEF NmEntry
<1>5. /\ x \in Seq(NmEntry) /\ Len(x) = Len(inode[d].ents) /\ DOMAIN x = DOMAIN inode[d].ents
      /\ x[s] = e /\ \A t \in DOMAIN inode[d].ents \ {s} : x[t] = inode[d].ents[t]
  <2>1. DOMAIN x = 1 .. Len(inode[d].ents)
    BY <1>1, <1>3
  <2>2. x[s] = e /\ \A t \in DOMAIN inode[d].ents \ {s} : x[t] = inode[d].ents[t]
    BY <1>1, <1>3
  <2>3. x \in Seq(NmEntry) /\ Len(x) = Len(inode[d].ents)
    BY <1>1, <1>3, <1>4, ExceptSeq
  <2> QED
    BY <1>3, <2>1, <2>2, <2>3
<1>6. y \in NmInode /\ y.mode = inode[d].mode /\ y.nlinks = inode[d].nlinks /\ y.blocks = inode[d].blocks
      /\ y.ents = x
  BY <1>1, <1>2, <1>5 DEF NmInode
<1>7. Cleared(d, s) = [inode EXCEPT ![d] = y]
  BY <1>1, <1>2 DEF Cleared
<1>8. PICK C : C = Cleared(d, s)
  OBVIOUS
<1>9. /\ C \in [NmInodes -> NmInode] /\ C[d] = y /\ \A i \in NmInodes \ {d} : C[i] = inode[i]
  BY <1>2, <1>6, <1>7, <1>8
<1>10. C[d].ents[s].ino = NoInode /\ \A t \in DOMAIN inode[d].ents \ {s} : C[d].ents[t] = inode[d].ents[t]
  BY <1>4, <1>5, <1>6, <1>9
<1>11. \A i \in NmInodes : /\ C[i].mode = inode[i].mode /\ C[i].nlinks = inode[i].nlinks
                           /\ C[i].blocks = inode[i].blocks /\ DOMAIN C[i].ents = DOMAIN inode[i].ents
                           /\ Len(C[i].ents) = Len(inode[i].ents)
  BY <1>5, <1>6, <1>9
<1> QED
  BY <1>8, <1>9, <1>10, <1>11 DEF Clears

\* The name is gone, everything else is there.
LEMMA ClearedNames ==
  ASSUME NEW I, I \in [NmInodes -> NmInode], \A i \in NmInodes : Listed(I[i]),
         NEW d \in NmInodes, NEW s \in DOMAIN I[d].ents, NEW C, Clears(I, C, d, s), NEW i \in NmInodes
  PROVE  /\ EntriesIn(C, i) = EntriesIn(I, i) \ {<<d, s>>}
         /\ EmptyIn(I, i) => EmptyIn(C, i)
         /\ SubdirsIn(C, i) = IF i = d THEN SubdirsIn(I, i) \ {s} ELSE SubdirsIn(I, i)
         /\ Listed(C[i])
<1>1. i # NoInode
  BY NmAssumption DEF NoInode
<1>2. EntriesIn(C, i) = EntriesIn(I, i) \ {<<d, s>>}
  <2>1. ASSUME NEW x \in NmInodes, NEW t \in 1 .. NmPerBlock * NmBlocks
        PROVE  <<x, t>> \in EntriesIn(C, i) <=> (<<x, t>> \in EntriesIn(I, i) /\ <<x, t>> # <<d, s>>)
    <3>1. <<x, t>> \in EntriesIn(C, i) <=> (t \in DOMAIN C[x].ents /\ C[x].ents[t].ino = i)
      BY DEF EntriesIn
    <3>2. <<x, t>> \in EntriesIn(I, i) <=> (t \in DOMAIN I[x].ents /\ I[x].ents[t].ino = i)
      BY DEF EntriesIn
    <3>3. CASE x = d
      BY <1>1, <3>1, <3>2, <3>3 DEF Clears
    <3>4. CASE x # d
      BY <3>1, <3>2, <3>4 DEF Clears
    <3> QED
      BY <3>3, <3>4
  <2>2. /\ EntriesIn(C, i) \subseteq NmInodes \X (1 .. NmPerBlock * NmBlocks)
        /\ EntriesIn(I, i) \subseteq NmInodes \X (1 .. NmPerBlock * NmBlocks)
    BY Zenon DEF EntriesIn
  <2>3. PICK P, A, B : P = 1 .. NmPerBlock * NmBlocks /\ A = EntriesIn(C, i) /\ B = EntriesIn(I, i)
    OBVIOUS
  <2>4. \A x \in NmInodes, t \in P : <<x, t>> \in A <=> (<<x, t>> \in B /\ <<x, t>> # <<d, s>>)
    BY <2>1, <2>3
  <2>5. A \subseteq NmInodes \X P /\ B \subseteq NmInodes \X P
    BY <2>2, <2>3
  <2>6. A = B \ {<<d, s>>}
    BY <2>4, <2>5
  <2> QED
    BY <2>3, <2>6
<1>3. EmptyIn(I, i) => EmptyIn(C, i)
  BY DEF EmptyIn, Clears
<1>4. SubdirsIn(C, i) = IF i = d THEN SubdirsIn(I, i) \ {s} ELSE SubdirsIn(I, i)
  <2>1. \A t \in DOMAIN I[i].ents : I[i].ents[t].ino # NoInode => I[i].ents[t].ino \in NmInodes
    BY Capacity DEF NmHeld
  <2>2. CASE i = d
    BY <2>1, <2>2 DEF SubdirsIn, Clears
  <2>3. CASE i # d
    BY <2>1, <2>3 DEF SubdirsIn, Clears
  <2> QED
    BY <2>2, <2>3
<1>5. Listed(C[i])
  <2>1. Listed(I[i]) /\ C[i].mode = I[i].mode /\ C[i].blocks = I[i].blocks /\ Len(C[i].ents) = Len(I[i].ents)
        /\ DOMAIN C[i].ents = DOMAIN I[i].ents
    BY DEF Clears
  <2>2. CASE i # d
    BY <2>1, <2>2 DEF Listed, OnceNamed, Clears
  <2>3. CASE i = d
    <3>1. OnceNamed(C[d])
      BY <2>1, <2>3 DEF Listed, OnceNamed, Clears
    <3>2. I[d].mode = "dir"
      <4>1. I[d].ents # <<>>
        OBVIOUS
      <4> QED
        BY <4>1, <2>1, <2>3 DEF Listed
    <3> QED
      BY <2>1, <2>3, <3>1, <3>2 DEF Listed
  <2> QED
    BY <2>2, <2>3
<1> QED
  BY <1>2, <1>3, <1>4, <1>5

LEMMA ClearedBlocks ==
  ASSUME NEW I, NEW d, NEW s, NEW C, Clears(I, C, d, s)
  PROVE  BlocksOf(C, NmInodes) = BlocksOf(I, NmInodes)
  BY DEF BlocksOf, Clears

\* what is left after the call that removed n's name from entry s of d
Removed(I2, Q2, d, s, n, i) ==
  /\ RefsIn(inode, nmProc, i) \in Nat /\ RefsIn(I2, Q2, i) \in Nat
  /\ RefsIn(I2, Q2, i) = IF i = n THEN RefsIn(inode, nmProc, i) - 1 ELSE RefsIn(inode, nmProc, i)
  /\ EntriesIn(inode, i) = {} => EntriesIn(I2, i) = {}
  /\ EmptyIn(inode, i) => EmptyIn(I2, i)
  /\ SubdirsIn(I2, i) = IF i = d THEN SubdirsIn(inode, i) \ {s} ELSE SubdirsIn(inode, i)
  /\ Listed(I2[i]) /\ I2[i].mode = inode[i].mode

LEMMA RemovedName ==
  ASSUME Tree(inode, nmFree, nmProc), NEW p \in NmProcs, InChange(nmProc[p]),
         nmProc[p].pc \notin {"add", "linked"},
         NEW d \in NmInodes, NEW s \in DOMAIN inode[d].ents, NEW n \in NmInodes, inode[d].ents[s].ino = n,
         NEW C, Clears(inode, C, d, s), NEW I2, SameShape(C, I2), NEW Q2, Ended(I2, Q2, p),
         NEW i \in NmInodes
  PROVE  Removed(I2, Q2, d, s, n, i)
<1>1. inode \in [NmInodes -> NmInode] /\ \A j \in NmInodes : Listed(inode[j])
  BY DEF Tree
<1>2. /\ EntriesIn(C, i) = EntriesIn(inode, i) \ {<<d, s>>}
      /\ EmptyIn(inode, i) => EmptyIn(C, i)
      /\ SubdirsIn(C, i) = IF i = d THEN SubdirsIn(inode, i) \ {s} ELSE SubdirsIn(inode, i)
  BY <1>1, ClearedNames
<1>3. C \in [NmInodes -> NmInode] /\ \A j \in NmInodes : Listed(C[j])
  <2>1. \A j \in NmInodes : Listed(C[j])
    BY <1>1, ClearedNames
  <2> QED
    BY <2>1 DEF Clears
<1>4. /\ EntriesIn(I2, i) = EntriesIn(C, i) /\ SubdirsIn(I2, i) = SubdirsIn(C, i)
      /\ EmptyIn(I2, i) = EmptyIn(C, i) /\ Listed(I2[i])
  BY <1>3, ShapeKept
<1>5. I2[i].mode = inode[i].mode
  BY DEF SameShape, Clears
<1>6. \A r \in NmProcs \ {p} : nmProc[r].pc \notin {"empty", "new", "add", "linked"}
  BY OtherReaders
<1>7. RefsIn(inode, nmProc, i) = Cardinality(EntriesIn(inode, i)) + 0 - 0
  <2>1. WriteOf(nmProc[p], i) = 0 /\ CountOf(nmProc[p], i) = 0
    BY DEF WriteOf, CountOf
  <2> QED
    BY <1>6, <2>1, RefsOf
<1>8. RefsIn(I2, Q2, i) = Cardinality(EntriesIn(I2, i)) + 0 - 0
  <2>1. WriteOf(Q2[p], i) = 0 /\ CountOf(Q2[p], i) = 0
    BY DEF Ended, WriteOf, CountOf
  <2>2. \A r \in NmProcs \ {p} : Q2[r].pc \notin {"empty", "new", "add", "linked"}
    BY <1>6 DEF Ended
  <2> QED
    BY <2>1, <2>2, RefsOf
<1>9. PICK a, b : a = Cardinality(EntriesIn(inode, i)) /\ b = Cardinality(EntriesIn(I2, i))
  OBVIOUS
<1>10. a \in Nat /\ b \in Nat /\ IsFiniteSet(EntriesIn(inode, i))
  BY <1>9, NameSets
<1>11. RefsIn(inode, nmProc, i) = a /\ RefsIn(I2, Q2, i) = b
  BY <1>7, <1>8, <1>9, <1>10
<1>12. <<d, s>> \in EntriesIn(inode, n)
  BY <1>1, EntryHere
<1>13. CASE i = n
  <2>1. b = a - 1
    <3>1. PICK E : E = EntriesIn(inode, i)
      OBVIOUS
    <3>2. IsFiniteSet(E) /\ <<d, s>> \in E
      BY <1>10, <1>12, <1>13, <3>1
    <3>3. Cardinality(E \ {<<d, s>>}) = Cardinality(E) - 1
      BY <3>2, FS_RemoveElement
    <3> QED
      BY <1>2, <1>4, <1>9, <3>1, <3>3
  <2> QED
    BY <1>2, <1>4, <1>5, <1>10, <1>11, <1>13, <2>1 DEF Removed
<1>14. CASE i # n
  <2>1. <<d, s>> \notin EntriesIn(inode, i)
    BY <1>14 DEF EntriesIn
  <2>2. EntriesIn(I2, i) = EntriesIn(inode, i)
    BY <1>2, <1>4, <2>1
  <2> QED
    BY <1>2, <1>4, <1>5, <1>9, <1>10, <1>11, <1>14, <2>2 DEF Removed
<1> QED
  BY <1>13, <1>14

LEMMA Unlinking ==
  ASSUME Tree(inode, nmFree, nmProc), NEW p \in NmProcs, UnlinkGot(p), ~nmStale'
  PROVE  Tree(inode', nmFree', nmProc')
<1>1. PICK q, n, d, s : q = nmProc[p] /\ n = q.nr /\ d = q.dir /\ s = q.slot
  OBVIOUS
<1>2. q.pc = "got" /\ q.op = "unlink" /\ Plain(q) /\ inode[n].mode # "free"
  BY <1>1 DEF UnlinkGot, Runs, Plain, Iget
<1>3. q \in NmCallType /\ NameCallOK(q) /\ ChangeOK(inode, q)
  BY <1>1, CallIs
<1>4. CASE inode[n].mode = "dir"
  BY <1>1, <1>2, <1>4, FailKeeps DEF UnlinkGot
<1>5. CASE inode[n].mode # "dir"
  <2>1. n \in NmInodes /\ InChange(nmProc[p]) /\ d \in NmInodes /\ inode[d].mode = "dir"
        /\ s \in DOMAIN inode[d].ents /\ inode[d].ents[s].ino = n
    BY <1>1, <1>2, <1>3 DEF NameCallOK, NmCallType, NmHeld, ChangeOK, InChange, Changing
  <2>2. inode \in [NmInodes -> NmInode] /\ inode[n] \in NmInode /\ \A i \in NmInodes : Listed(inode[i])
    BY <2>1 DEF Tree
  <2>3. inode[n].mode = "reg" /\ n # d /\ inode[n].nlinks \in Int
    BY <1>2, <1>5, <2>1, <2>2 DEF NmInode
  <2>4. PICK C, k : C = Cleared(d, s) /\ k = IF inode[n].nlinks = 0 THEN 0 ELSE inode[n].nlinks - 1
    OBVIOUS
  <2>5. Clears(inode, C, d, s) /\ C \in [NmInodes -> NmInode] /\ k \in Int
    BY <2>1, <2>3, <2>4, ClearedIs DEF Clears
  <2>6. PICK I2 : I2 = WithLinks(C, n, k)
    OBVIOUS
  <2>7. Return(p, I2, nmFree)
    <3>1. Return(p, [C EXCEPT ![n].nlinks = IF @ = 0 THEN 0 ELSE @ - 1], nmFree)
      BY <1>1, <1>5, <2>4 DEF UnlinkGot
    <3>2. C[n].nlinks = inode[n].nlinks
      BY <2>1, <2>5 DEF Clears
    <3>3. [C EXCEPT ![n].nlinks = IF @ = 0 THEN 0 ELSE @ - 1] = [C EXCEPT ![n].nlinks = k]
      BY <2>1, <2>4, <2>5, <3>2
    <3> QED
      BY <2>6, <3>1, <3>3 DEF WithLinks
  <2>8. LinksSet(C, I2, n, k)
    BY <2>1, <2>5, <2>6, SetLinks
  <2>9. /\ I2 \in [NmInodes -> NmInode] /\ SameShape(C, I2)
        /\ \A i \in NmInodes : I2[i].mode = inode[i].mode
        /\ \A i \in NmInodes : I2[i].nlinks = IF i = n THEN k ELSE inode[i].nlinks
    BY <2>5, <2>8 DEF LinksSet, SameShape, Clears
  <2>10. PICK Q2 : Settle(I2, nmFree, Q2) /\ Ended(I2, Q2, p)
    BY <2>7, <2>9, Returning
  <2>11. ASSUME NEW i \in NmInodes PROVE Linked(I2, Q2, i) /\ Listed(I2[i])
    <3>1. Removed(I2, Q2, d, s, n, i)
      BY <1>1, <1>2, <2>1, <2>5, <2>9, <2>10, RemovedName
    <3>2. Linked(inode, nmProc, i)
      BY DEF Tree
    <3>3. CASE i = n
      <4>1. PICK a : a = RefsIn(inode, nmProc, i)
        OBVIOUS
      <4>2. a \in Nat /\ a - 1 \in Nat /\ RefsIn(I2, Q2, i) = a - 1 /\ inode[n].nlinks = a
        BY <3>1, <3>2, <3>3, <4>1, <2>3 DEF Removed, Linked
      <4>3. k = a - 1
        BY <2>4, <4>2
      <4> QED
        BY <2>3, <2>9, <3>1, <3>3, <4>2, <4>3 DEF Removed, Linked
    <3>4. CASE i # n
      <4>1. SubdirsIn(I2, i) = SubdirsIn(inode, i)
        <5>1. s \notin SubdirsIn(inode, d)
          BY <1>5, <2>1 DEF SubdirsIn
        <5> QED
          BY <3>1, <5>1 DEF Removed
      <4>2. RefsIn(I2, Q2, i) = RefsIn(inode, nmProc, i) /\ I2[i].nlinks = inode[i].nlinks
        BY <2>9, <3>1, <3>4 DEF Removed
      <4> QED
        BY <2>9, <3>1, <3>2, <4>1, <4>2 DEF Removed, Linked
    <3> QED
      BY <3>3, <3>4
  <2>12. nmFree \in Nat /\ nmFree + Cardinality(BlocksOf(I2, NmInodes)) = NmBlocks
    <3>1. C \in [NmInodes -> NmInode] /\ \A j \in NmInodes : Listed(C[j])
      BY <2>1, <2>2, <2>5, ClearedNames
    <3>2. BlocksOf(I2, NmInodes) = BlocksOf(C, NmInodes)
      BY <2>9, <3>1, ShapeKept
    <3>3. BlocksOf(C, NmInodes) = BlocksOf(inode, NmInodes)
      BY <2>5, ClearedBlocks
    <3> QED
      BY <3>2, <3>3 DEF Tree
  <2>13. Tree(I2, nmFree, Q2)
    BY <2>1, <2>9, <2>10, <2>11, <2>12, Assemble DEF Ended
  <2> QED
    BY <2>10, <2>13, SettleKeeps
<1> QED
  BY <1>4, <1>5

LEMMA Removing ==
  ASSUME Tree(inode, nmFree, nmProc), NEW p \in NmProcs, Rmdir(p)
  PROVE  Tree(inode', nmFree', nmProc')
<1>1. PICK q, n, d, s : q = nmProc[p] /\ n = q.ino /\ d = q.dir /\ s = q.slot
  OBVIOUS
<1>2. q.pc = "empty" /\ Plain(q)
  BY <1>1 DEF Rmdir, Runs, Plain
<1>3. q \in NmCallType /\ NameCallOK(q) /\ ChangeOK(inode, q)
  BY <1>1, CallIs
<1>4. CASE ~EmptyDir(n)
  BY <1>1, <1>2, <1>4, FailKeeps DEF Rmdir
<1>5. CASE EmptyDir(n)
  <2>1. n \in NmInodes /\ InChange(nmProc[p]) /\ d \in NmInodes /\ inode[d].mode = "dir" /\ inode[n].mode = "dir"
        /\ s \in DOMAIN inode[d].ents /\ inode[d].ents[s].ino = n /\ n # d /\ n # NoInode
    BY <1>1, <1>2, <1>3 DEF NameCallOK, NmCallType, NmHeld, ChangeOK, InChange, Changing
  <2>2. inode \in [NmInodes -> NmInode] /\ inode[d] \in NmInode /\ \A i \in NmInodes : Listed(inode[i])
    BY <2>1 DEF Tree
  <2>3. PICK C, k, z : C = Cleared(d, s) /\ k = inode[d].nlinks - 1 /\ z = 0
    OBVIOUS
  <2>4. inode[d].nlinks \in Int
    BY <2>2 DEF NmInode
  <2>5. Clears(inode, C, d, s) /\ C \in [NmInodes -> NmInode] /\ k \in Int /\ z \in Int
    BY <2>1, <2>3, <2>4, ClearedIs DEF Clears
  <2>6. PICK I1, I2 : I1 = WithLinks(C, n, z) /\ I2 = WithLinks(I1, d, k)
    OBVIOUS
  <2>7. Return(p, I2, nmFree)
    <3>1. Return(p, [C EXCEPT ![n].nlinks = 0, ![d].nlinks = @ - 1], nmFree)
      BY <1>1, <1>5, <2>3 DEF Rmdir
    <3>2. C[d].nlinks = inode[d].nlinks
      BY <2>1, <2>5 DEF Clears
    <3>3. [C EXCEPT ![n].nlinks = 0, ![d].nlinks = @ - 1] = I2
      BY <2>1, <2>3, <2>5, <2>6, <3>2 DEF WithLinks
    <3> QED
      BY <3>1, <3>3
  <2>8. LinksSet(C, I1, n, z)
    BY <2>1, <2>5, <2>6, SetLinks
  <2>9. LinksSet(I1, I2, d, k)
    <3>1. I1 \in [NmInodes -> NmInode]
      BY <2>8 DEF LinksSet
    <3> QED
      BY <2>1, <2>5, <2>6, <3>1, SetLinks
  <2>10. /\ I2 \in [NmInodes -> NmInode] /\ SameShape(C, I2)
         /\ \A i \in NmInodes : I2[i].mode = inode[i].mode
         /\ I2[n].nlinks = 0 /\ I2[d].nlinks = k
         /\ \A i \in NmInodes \ {n, d} : I2[i].nlinks = inode[i].nlinks
    BY <2>1, <2>3, <2>5, <2>8, <2>9 DEF LinksSet, SameShape, Clears
  <2>11. PICK Q2 : Settle(I2, nmFree, Q2) /\ Ended(I2, Q2, p)
    BY <2>7, <2>10, Returning
  <2>12. ASSUME NEW i \in NmInodes PROVE Linked(I2, Q2, i) /\ Listed(I2[i])
    <3>1. Removed(I2, Q2, d, s, n, i)
      BY <1>1, <1>2, <2>1, <2>5, <2>10, <2>11, RemovedName
    <3>2. Linked(inode, nmProc, i)
      BY DEF Tree
    <3>3. CASE i = n
      <4>1. PICK a : a = RefsIn(inode, nmProc, i)
        OBVIOUS
      <4>2. a \in Nat /\ a - 1 \in Nat /\ RefsIn(I2, Q2, i) = a - 1 /\ (i # ROOT_INO => a = 1 \/ a = 0)
        BY <3>1, <3>2, <3>3, <4>1, <2>1 DEF Removed, Linked
      <4>3. i # ROOT_INO => RefsIn(I2, Q2, i) = 0
        BY <4>2
      <4>4. EmptyIn(I2, i)
        BY <1>5, <3>1, <3>3 DEF EmptyDir, EmptyIn, Removed
      <4> QED
        BY <2>1, <2>10, <3>1, <3>3, <4>3, <4>4 DEF Removed, Linked
    <3>4. CASE i = d
      <4>1. RefsIn(I2, Q2, i) = RefsIn(inode, nmProc, i)
        BY <2>1, <3>1, <3>4 DEF Removed
      <4>2. ~EmptyIn(inode, i)
        BY <2>1, <3>4 DEF EmptyIn
      <4>3. i # ROOT_INO => RefsIn(inode, nmProc, i) = 1 /\ inode[i].nlinks = 2 + Cardinality(SubdirsIn(inode, i))
        BY <2>1, <3>2, <3>4, <4>2 DEF Linked
      <4>4. /\ SubdirsIn(I2, i) = SubdirsIn(inode, i) \ {s} /\ s \in SubdirsIn(inode, i)
        BY <2>1, <3>1, <3>4 DEF Removed, SubdirsIn
      <4>5. IsFiniteSet(SubdirsIn(inode, i))
        BY <2>2, SubdirsFinite
      <4>6. /\ Cardinality(SubdirsIn(I2, i)) = Cardinality(SubdirsIn(inode, i)) - 1
            /\ Cardinality(SubdirsIn(inode, i)) \in Nat
        BY <4>4, <4>5, FS_RemoveElement, FS_CardinalityType
      <4>7. i # ROOT_INO => k = 2 + Cardinality(SubdirsIn(I2, i))
        BY <2>3, <3>4, <4>3, <4>6
      <4> QED
        BY <2>1, <2>10, <3>1, <3>4, <4>1, <4>3, <4>7 DEF Removed, Linked
    <3>5. CASE i # n /\ i # d
      <4>1. SubdirsIn(I2, i) = SubdirsIn(inode, i) /\ RefsIn(I2, Q2, i) = RefsIn(inode, nmProc, i)
            /\ I2[i].nlinks = inode[i].nlinks
        BY <2>10, <3>1, <3>5 DEF Removed
      <4> QED
        BY <2>10, <3>1, <3>2, <4>1 DEF Removed, Linked
    <3> QED
      BY <3>3, <3>4, <3>5
  <2>13. nmFree \in Nat /\ nmFree + Cardinality(BlocksOf(I2, NmInodes)) = NmBlocks
    <3>1. C \in [NmInodes -> NmInode] /\ \A j \in NmInodes : Listed(C[j])
      BY <2>1, <2>2, <2>5, ClearedNames
    <3>2. BlocksOf(I2, NmInodes) = BlocksOf(C, NmInodes)
      BY <2>10, <3>1, ShapeKept
    <3>3. BlocksOf(C, NmInodes) = BlocksOf(inode, NmInodes)
      BY <2>5, ClearedBlocks
    <3> QED
      BY <3>2, <3>3 DEF Tree
  <2>14. Tree(I2, nmFree, Q2)
    BY <2>1, <2>10, <2>11, <2>12, <2>13, Assemble DEF Ended
  <2> QED
    BY <2>11, <2>14, SettleKeeps
<1> QED
  BY <1>4, <1>5

\* A number that new_inode() takes has no names: the inode is filled in.
LEMMA NewMade ==
  ASSUME Tree(inode, nmFree, nmProc), NEW p \in NmProcs, nmProc[p].pc = "new",
         NEW n \in NmInodes, inode[n].mode = "free", NEW x \in NmInode, x.ents = <<>>,
         x.mode = (IF nmProc[p].op = "mkdir" THEN "dir" ELSE "reg"),
         x.nlinks = (IF nmProc[p].op = "mkdir" THEN 2 ELSE 1),
         x.blocks = (IF nmProc[p].op = "mkdir" THEN 1 ELSE 0),
         NEW F2 \in Nat, F2 + x.blocks = nmFree,
         inode' = [inode EXCEPT ![n] = x], nmFree' = F2,
         nmProc' = [nmProc EXCEPT ![p].pc = "add", ![p].ino = n]
  PROVE  Tree(inode', nmFree', nmProc')
<1>1. PICK q, q2, I2, Q2 : /\ q = nmProc[p] /\ q2 = [q EXCEPT !.pc = "add", !.ino = n]
                           /\ I2 = [inode EXCEPT ![n] = x] /\ Q2 = [nmProc EXCEPT ![p] = q2]
  OBVIOUS
<1>2. /\ nmProc \in [NmProcs -> NmCallType] /\ q \in NmCallType /\ q.pc = "new"
      /\ NameCallOK(q) /\ HoldsOK(inode, q) /\ ChangeOK(inode, q)
  BY <1>1, CallIs
<1>3. inode \in [NmInodes -> NmInode] /\ \A i \in NmInodes : Listed(inode[i])
  BY DEF Tree
<1>4. nmProc' = Q2 /\ inode' = I2
  BY <1>1, <1>2
<1>5. I2 \in [NmInodes -> NmInode] /\ \A i \in NmInodes : I2[i] = IF i = n THEN x ELSE inode[i]
  BY <1>1, <1>3
<1>6. inode[n].ents = <<>> /\ inode[n].blocks = 0 /\ EntriesIn(inode, n) = {}
  <2>1. Listed(inode[n]) /\ Linked(inode, nmProc, n)
    BY DEF Tree
  <2> QED
    BY <2>1 DEF Listed, Linked
<1>7. \A i \in NmInodes : I2[i].ents = inode[i].ents
  BY <1>5, <1>6
<1>8. n # ROOT_INO /\ n # NoInode
  BY NmAssumption DEF Tree, NoInode
<1>9. \A i \in NmInodes : EntriesIn(I2, i) = EntriesIn(inode, i)
  BY <1>7 DEF EntriesIn
<1>10. ASSUME NEW i \in NmInodes \ {n} PROVE SubdirsIn(I2, i) = SubdirsIn(inode, i)
  <2>1. ASSUME NEW s \in DOMAIN inode[i].ents, inode[i].ents[s].ino # NoInode
        PROVE  I2[inode[i].ents[s].ino].mode = inode[inode[i].ents[s].ino].mode
    <3>1. inode[i].ents[s].ino \in NmInodes
      BY <1>3, <2>1, Capacity DEF NmHeld
    <3>2. <<i, s>> \in EntriesIn(inode, inode[i].ents[s].ino)
      BY <1>3, EntryHere
    <3>3. inode[i].ents[s].ino # n
      BY <1>6, <3>2
    <3> QED
      BY <1>5, <3>1, <3>3
  <2> QED
    BY <1>7, <2>1 DEF SubdirsIn
<1>11. /\ q2 \in NmCallType /\ q2.pc = "add" /\ q2.ino = n /\ q2.op = q.op /\ q2.dir = q.dir
       /\ q2.file = q.file /\ q2.path = q.path
  <2>1. "add" \in NmPcs /\ n \in NmHeld
    BY DEF NmPcs, NmHeld
  <2>2. q2 \in NmCallType
    BY <1>1, <1>2, <2>1, ZenonT(30) DEF NmCallType
  <2> QED
    BY <1>1, <1>2, <2>2 DEF NmCallType
<1>12. Q2 \in [NmProcs -> NmCallType] /\ Q2[p] = q2 /\ \A r \in NmProcs \ {p} : Q2[r] = nmProc[r]
  BY <1>1, <1>2, <1>11
<1>13. /\ q.op \in Makes /\ q.dir # NoInode /\ q.dir \in NmInodes /\ inode[q.dir].mode = "dir" /\ inode[q.dir].nlinks # 0
       /\ FoundIn(inode, q.dir, q.path[1]) = {} /\ Len(q.path) = 1 /\ q.dir # n
  BY <1>2 DEF NameCallOK, ChangeOK, NmCallType, NmHeld
<1>14. NameCallOK(q2) /\ InChange(nmProc[p])
  BY <1>1, <1>2, <1>8, <1>11, <1>13 DEF NameCallOK, Makes, InChange, Changing
<1>15. x.mode # "free"
  OBVIOUS
<1>16. HoldsOK(I2, q2)
  <2>1. \A i \in {q2.dir, q2.ino, q2.file} \ {NoInode} : i \in NmInodes
    BY <1>11 DEF NmCallType, NmHeld
  <2>2. \A i \in {q2.dir, q2.ino, q2.file} \ {NoInode} : i # n => inode[i].mode # "free"
    BY <1>2, <1>11 DEF HoldsOK
  <2> QED
    BY <1>5, <1>15, <2>1, <2>2 DEF HoldsOK
<1>17. ChangeOK(I2, q2)
  <2>1. I2[q.dir] = inode[q.dir] /\ I2[n] = x /\ EntriesIn(I2, n) = {}
    BY <1>5, <1>6, <1>9, <1>13
  <2>2. FoundIn(I2, q.dir, q.path[1]) = {}
    BY <1>13, <2>1 DEF FoundIn
  <2>3. q.op # "link" /\ x.mode = (IF q.op = "mkdir" THEN "dir" ELSE "reg")
    BY <1>1, <1>13 DEF Makes
  <2> QED
    BY <1>8, <1>11, <1>13, <2>1, <2>2, <2>3 DEF ChangeOK
<1>18. \A r \in NmProcs \ {p} : nmProc[r].pc \notin {"empty", "new", "add", "linked"}
  BY <1>14, OtherReaders
<1>19. ASSUME NEW i \in NmInodes PROVE Linked(I2, Q2, i) /\ Listed(I2[i])
  <2>1. PICK e : e = Cardinality(EntriesIn(inode, i))
    OBVIOUS
  <2>2. e \in Nat
    BY <2>1, NameSets
  <2>3. RefsIn(inode, nmProc, i) = e
    <3>1. WriteOf(nmProc[p], i) = 0 /\ CountOf(nmProc[p], i) = 0
      BY DEF WriteOf, CountOf
    <3>2. RefsIn(inode, nmProc, i) = e + 0 - 0
      BY <1>18, <2>1, <3>1, RefsOf
    <3> QED
      BY <2>2, <3>2
  <2>4. RefsIn(I2, Q2, i) = e + (IF i = n THEN 1 ELSE 0)
    <3>1. WriteOf(q2, i) = (IF i = n THEN 1 ELSE 0) /\ CountOf(q2, i) = 0
      BY <1>11, <1>13 DEF WriteOf, CountOf, Makes
    <3>2. \A r \in NmProcs \ {p} : Q2[r].pc \notin {"empty", "new", "add", "linked"}
      BY <1>12, <1>18
    <3>3. RefsIn(I2, Q2, i) = e + (IF i = n THEN 1 ELSE 0) - 0
      BY <1>9, <1>12, <2>1, <3>1, <3>2, RefsOf
    <3> QED
      BY <2>2, <3>3
  <2>5. CASE i = n
    <3>1. e = 0
      BY <1>6, <2>1, <2>5, FS_EmptySet
    <3>2. RefsIn(I2, Q2, i) = 1
      BY <2>4, <2>5, <3>1
    <3>3. SubdirsIn(I2, n) = {} /\ Cardinality({}) = 0
      BY <1>5, FS_EmptySet DEF SubdirsIn
    <3>4. Linked(I2, Q2, i)
      BY <1>5, <1>15, <2>5, <3>2, <3>3 DEF Linked
    <3>5. Listed(x)
      <4>1. PICK b : b = x.blocks
        OBVIOUS
      <4>2. b \in Nat /\ Len(<<>>) <= NmPerBlock * b
        <5>1. b \in 0 .. NmBlocks
          BY <4>1 DEF NmInode
        <5>2. \A y, z \in Nat : 0 <= y * z
          OBVIOUS
        <5> QED
          BY <5>1, <5>2, NmAssumption
      <4> QED
        BY <4>1, <4>2 DEF Listed, OnceNamed
    <3> QED
      BY <1>5, <2>5, <3>4, <3>5
  <2>6. CASE i # n
    <3>1. I2[i] = inode[i] /\ SubdirsIn(I2, i) = SubdirsIn(inode, i) /\ RefsIn(I2, Q2, i) = RefsIn(inode, nmProc, i)
      BY <1>5, <1>10, <2>2, <2>3, <2>4, <2>6
    <3>2. EmptyIn(I2, i) = EmptyIn(inode, i)
      BY <3>1 DEF EmptyIn
    <3>3. Linked(inode, nmProc, i) /\ Listed(inode[i])
      BY DEF Tree
    <3> QED
      BY <1>9, <3>1, <3>2, <3>3 DEF Linked
  <2> QED
    BY <2>5, <2>6
<1>20. F2 + Cardinality(BlocksOf(I2, NmInodes)) = NmBlocks
  <2>1. PICK B : B = BlocksOf(inode, NmInodes)
    OBVIOUS
  <2>2. IsFiniteSet(B) /\ Cardinality(B) \in Nat /\ nmFree + Cardinality(B) = NmBlocks
    BY <2>1, NameSets DEF Tree
  <2>3. <<n, 1>> \notin B
    BY <1>6, <2>1 DEF BlocksOf
  <2>4. CASE x.blocks = 0
    <3>1. BlocksOf(I2, NmInodes) = B
      BY <1>5, <1>6, <2>1, <2>4 DEF BlocksOf
    <3> QED
      BY <2>2, <2>4, <3>1
  <2>5. CASE x.blocks = 1
    <3>1. BlocksOf(I2, NmInodes) = B \cup {<<n, 1>>}
      <4>1. ASSUME NEW i \in NmInodes, NEW b \in 1 .. NmBlocks
            PROVE  (b <= I2[i].blocks) <=> (b <= inode[i].blocks \/ (i = n /\ b = 1))
        BY <1>5, <1>6, <2>5, NmAssumption
      <4>2. 1 \in 1 .. NmBlocks
        BY NmAssumption
      <4> QED
        BY <2>1, <4>1, <4>2 DEF BlocksOf
    <3>2. Cardinality(B \cup {<<n, 1>>}) = Cardinality(B) + 1
      BY <2>2, <2>3, FS_AddElement
    <3> QED
      BY <2>2, <2>5, <3>1, <3>2
  <2> QED
    BY <2>4, <2>5
<1>21. \A i \in NmInodes : inode[i].mode # "free" => I2[i].mode = inode[i].mode
  BY <1>5
<1>22. Tree(I2, F2, Q2)
  BY <1>5, <1>12, <1>14, <1>16, <1>17, <1>19, <1>20, <1>21, Assemble
<1> QED
  BY <1>4, <1>22

LEMMA NewInodeStep ==
  ASSUME Tree(inode, nmFree, nmProc), NEW p \in NmProcs, NewInode(p)
  PROVE  Tree(inode', nmFree', nmProc')
<1>1. PICK free, n : free = {i \in NmInodes : inode[i].mode = "free"} /\ n = First(free)
  OBVIOUS
<1>2. nmProc[p].pc = "new" /\ nmProc[p].op # "mkdir" /\ Plain(nmProc[p])
  BY DEF NewInode, Runs, Plain
<1>3. CASE free = {}
  BY <1>1, <1>2, <1>3, FailKeeps DEF NewInode
<1>4. CASE free # {}
  <2>1. n \in NmInodes /\ inode[n].mode = "free"
    <3>1. free \subseteq Nat
      BY <1>1, NmAssumption
    <3>2. n \in free
      BY <1>1, <1>4, <3>1, FirstIn
    <3> QED
      BY <1>1, <3>2
  <2>2. PICK x : x = [FreeInode EXCEPT !.mode = "reg", !.nlinks = 1]
    OBVIOUS
  <2>3. inode' = [inode EXCEPT ![n] = x] /\ nmFree' = nmFree
        /\ nmProc' = [nmProc EXCEPT ![p].pc = "add", ![p].ino = n]
    BY <1>1, <1>4, <2>2 DEF NewInode
  <2>4. x.ents = <<>> /\ x.mode = "reg" /\ x.nlinks = 1 /\ x.blocks = 0
        /\ x = [mode |-> "reg", nlinks |-> 1, ents |-> <<>>, blocks |-> 0]
    BY <2>2 DEF FreeInode
  <2>5. x \in NmInode
    <3>1. PICK e : e = <<>>
      OBVIOUS
    <3>2. e \in Seq(NmEntry) /\ 0 \in 0 .. NmBlocks
      BY <3>1, NmAssumption
    <3>3. x = [mode |-> "reg", nlinks |-> 1, ents |-> e, blocks |-> 0]
      BY <2>4, <3>1
    <3> QED
      BY <3>2, <3>3 DEF NmInode
  <2>6. nmFree \in Nat /\ nmFree + x.blocks = nmFree
    BY <2>4 DEF Tree
  <2> QED
    BY <1>2, <2>1, <2>3, <2>4, <2>5, <2>6, NewMade
<1> QED
  BY <1>3, <1>4

LEMMA NewDirectoryStep ==
  ASSUME Tree(inode, nmFree, nmProc), NEW p \in NmProcs, NewDirectory(p)
  PROVE  Tree(inode', nmFree', nmProc')
<1>1. PICK free, n : free = {i \in NmInodes : inode[i].mode = "free"} /\ n = First(free)
  OBVIOUS
<1>2. nmProc[p].pc = "new" /\ nmProc[p].op = "mkdir" /\ Plain(nmProc[p])
  BY DEF NewDirectory, Runs, Plain
<1>3. CASE Fail(p)
  BY <1>2, <1>3, FailKeeps
<1>4. CASE ~Fail(p)
  <2>1. PICK x : x = [mode |-> "dir", nlinks |-> 2, ents |-> <<>>, blocks |-> 1]
    OBVIOUS
  <2>2. free # {} /\ nmFree > 0 /\ inode' = [inode EXCEPT ![n] = x] /\ nmFree' = nmFree - 1
        /\ nmProc' = [nmProc EXCEPT ![p].pc = "add", ![p].ino = n]
    BY <1>1, <1>4, <2>1 DEF NewDirectory
  <2>3. n \in NmInodes /\ inode[n].mode = "free"
    <3>1. free \subseteq Nat
      BY <1>1, NmAssumption
    <3>2. n \in free
      BY <1>1, <2>2, <3>1, FirstIn
    <3> QED
      BY <1>1, <3>2
  <2>4. x.ents = <<>> /\ x.mode = "dir" /\ x.nlinks = 2 /\ x.blocks = 1
    BY <2>1
  <2>5. x \in NmInode
    <3>1. PICK e : e = <<>>
      OBVIOUS
    <3>2. e \in Seq(NmEntry) /\ 1 \in 0 .. NmBlocks
      BY <3>1, NmAssumption
    <3>3. x = [mode |-> "dir", nlinks |-> 2, ents |-> e, blocks |-> 1]
      BY <2>1, <3>1
    <3> QED
      BY <3>2, <3>3 DEF NmInode
  <2>6. nmFree - 1 \in Nat /\ (nmFree - 1) + x.blocks = nmFree
    BY <2>2, <2>4 DEF Tree
  <2> QED
    BY <1>2, <2>2, <2>3, <2>4, <2>5, <2>6, NewMade
<1> QED
  BY <1>3, <1>4

\* W is I with a name for n in entry s of d, which was free or not there
Adds(I, W, d, s, name, n) ==
  /\ W \in [NmInodes -> NmInode] /\ \A i \in NmInodes \ {d} : W[i] = I[i]
  /\ W[d].mode = I[d].mode /\ W[d].nlinks = I[d].nlinks
  /\ s \in 1 .. NmPerBlock * NmBlocks /\ (s \in DOMAIN I[d].ents => I[d].ents[s].ino = NoInode)
  /\ DOMAIN W[d].ents = DOMAIN I[d].ents \cup {s}
  /\ W[d].ents[s].ino = n /\ W[d].ents[s].name = name
  /\ \A t \in DOMAIN I[d].ents \ {s} : W[d].ents[t] = I[d].ents[t]
  /\ Len(W[d].ents) <= NmPerBlock * W[d].blocks

\* A directory does not have more blocks than there are in use.
LEMMA BlocksBound ==
  ASSUME NEW I, I \in [NmInodes -> NmInode], NEW d \in NmInodes
  PROVE  I[d].blocks \in Nat /\ I[d].blocks <= Cardinality(BlocksOf(I, NmInodes))
<1>1. PICK b, B : b = I[d].blocks /\ B = BlocksOf(I, NmInodes)
  OBVIOUS
<1>2. b \in 0 .. NmBlocks
  <2>1. I[d] \in NmInode
    OBVIOUS
  <2> QED
    BY <1>1, <2>1 DEF NmInode
<1>3. IsFiniteSet(B) /\ Cardinality(B) \in Nat
  BY <1>1, NameSets
<1>4. IsFiniteSet(1 .. b) /\ Cardinality(1 .. b) = b /\ b \in Nat
  <2>1. b \in Int /\ b \in Nat /\ 1 \in Int
    BY <1>2, NmAssumption
  <2>2. IsFiniteSet(1 .. b) /\ Cardinality(1 .. b) = IF 1 > b THEN 0 ELSE b - 1 + 1
    BY <2>1, FS_Interval
  <2> QED
    BY <2>1, <2>2
<1>5. IsFiniteSet({d}) /\ Cardinality({d}) = 1
  BY FS_Singleton
<1>6. IsFiniteSet({d} \X (1 .. b)) /\ Cardinality({d} \X (1 .. b)) = 1 * b
  BY <1>4, <1>5, FS_Product
<1>7. {d} \X (1 .. b) \subseteq B
  <2>1. \A x \in 1 .. b : x \in 1 .. NmBlocks /\ x <= b
    BY <1>2, NmAssumption
  <2> QED
    BY <1>1, <2>1 DEF BlocksOf
<1>8. Cardinality({d} \X (1 .. b)) <= Cardinality(B)
  BY <1>3, <1>7, FS_Subset
<1> QED
  BY <1>1, <1>4, <1>6, <1>8

\* add_entry()
LEMMA WithEntryIs ==
  ASSUME Tree(inode, nmFree, nmProc), NEW d \in NmInodes, NEW n \in NmInodes, NEW name \in STRING,
         ~NoRoom(d), NEW W, W = WithEntry(d, name, n)
  PROVE  /\ \E s : Adds(inode, W, d, s, name, n)
         /\ FreeAfter(d) \in Nat /\ FreeAfter(d) + Cardinality(BlocksOf(W, NmInodes)) = NmBlocks
<1>1. PICK e, l, b, o : /\ e = [name |-> name, ino |-> n] /\ o = inode[d].ents /\ l = Len(o)
                        /\ b = inode[d].blocks
  OBVIOUS
<1>2. inode \in [NmInodes -> NmInode] /\ inode[d] \in NmInode /\ Listed(inode[d])
      /\ \A i \in NmInodes : Listed(inode[i])
  BY DEF Tree
<1>3. /\ o \in Seq(NmEntry) /\ DOMAIN o = 1 .. l /\ l \in Nat
      /\ \A s \in DOMAIN o : s \in 1 .. NmPerBlock * NmBlocks
  BY <1>1, <1>2, Capacity
<1>4. e \in NmEntry /\ e.ino = n /\ e.name = name
  BY <1>1 DEF NmEntry
<1>5. b \in Nat /\ b <= Cardinality(BlocksOf(inode, NmInodes))
  BY <1>1, <1>2, BlocksBound
<1>6. /\ nmFree \in Nat /\ nmFree + Cardinality(BlocksOf(inode, NmInodes)) = NmBlocks
      /\ Cardinality(BlocksOf(inode, NmInodes)) \in Nat /\ IsFiniteSet(BlocksOf(inode, NmInodes))
  BY NameSets DEF Tree
<1>7. PICK m : m = NmPerBlock * b
  OBVIOUS
<1>8. l <= m /\ m \in Nat
  <2>1. \A x, y \in Nat : x * y \in Nat
    OBVIOUS
  <2> QED
    BY <1>1, <1>2, <1>5, <1>7, <2>1, NmAssumption DEF Listed
<1>9. NeedsBlock(d) <=> (FreeSlots(d) = {} /\ l = m)
  BY <1>1, <1>7 DEF NeedsBlock
<1>10. PICK o2, b2, x, s :
         /\ o2 = (IF FreeSlots(d) # {} THEN [o EXCEPT ![First(FreeSlots(d))] = e] ELSE Append(o, e))
         /\ b2 = (IF NeedsBlock(d) THEN b + 1 ELSE b)
         /\ x = [inode[d] EXCEPT !.ents = o2, !.blocks = b2]
         /\ s = (IF FreeSlots(d) # {} THEN First(FreeSlots(d)) ELSE l + 1)
  OBVIOUS
<1>11. W = [inode EXCEPT ![d] = x]
  BY <1>1, <1>2, <1>10 DEF WithEntry, NmInode
<1>12. b2 \in 0 .. NmBlocks /\ FreeAfter(d) \in Nat
  <2>1. PICK B : B = Cardinality(BlocksOf(inode, NmInodes))
    OBVIOUS
  <2>2. CASE NeedsBlock(d)
    <3>1. nmFree # 0 /\ b2 = b + 1 /\ FreeAfter(d) = nmFree - 1
      BY <1>10, <2>2 DEF NoRoom, FreeAfter
    <3> QED
      BY <1>5, <1>6, <2>1, <3>1, NmAssumption
  <2>3. CASE ~NeedsBlock(d)
    <3>1. b2 = b /\ FreeAfter(d) = nmFree
      BY <1>10, <2>3 DEF FreeAfter
    <3> QED
      BY <1>5, <1>6, <2>1, <3>1, NmAssumption
  <2> QED
    BY <2>2, <2>3
<1>13. /\ o2 \in Seq(NmEntry) /\ DOMAIN o2 = DOMAIN o \cup {s} /\ o2[s] = e
       /\ \A t \in DOMAIN o \ {s} : o2[t] = o[t]
       /\ (s \in DOMAIN o => o[s].ino = NoInode) /\ Len(o2) <= NmPerBlock * b2
  <2>1. CASE FreeSlots(d) # {}
    <3>1. s \in DOMAIN o /\ o[s].ino = NoInode
      <4>1. FreeSlots(d) \subseteq Nat
        BY <1>1, <1>3 DEF FreeSlots
      <4>2. s \in FreeSlots(d)
        BY <1>10, <2>1, <4>1, FirstIn
      <4> QED
        BY <1>1, <4>2 DEF FreeSlots
    <3>2. o2 = [o EXCEPT ![s] = e] /\ b2 = b
      BY <1>9, <1>10, <2>1
    <3>3. o2 \in Seq(NmEntry) /\ Len(o2) = l
      BY <1>1, <1>3, <1>4, <3>1, <3>2, ExceptSeq
    <3>4. DOMAIN o2 = DOMAIN o /\ o2[s] = e /\ \A t \in DOMAIN o \ {s} : o2[t] = o[t]
      BY <1>3, <3>1, <3>2
    <3> QED
      BY <1>7, <1>8, <3>1, <3>2, <3>3, <3>4
  <2>2. CASE FreeSlots(d) = {}
    <3>1. o2 = Append(o, e) /\ s = l + 1
      BY <1>10, <2>2
    <3>2. /\ o2 \in Seq(NmEntry) /\ Len(o2) = l + 1 /\ DOMAIN o2 = 1 .. l + 1 /\ o2[l + 1] = e
          /\ \A t \in 1 .. l : o2[t] = o[t]
      BY <1>1, <1>3, <1>4, <3>1, AppendProperties, LenProperties
    <3>3. DOMAIN o2 = DOMAIN o \cup {s} /\ s \notin DOMAIN o
      BY <1>3, <3>1, <3>2
    <3>4. l + 1 <= NmPerBlock * b2
      <4>1. CASE l = m
        <5>1. b2 = b + 1
          BY <1>9, <1>10, <2>2, <4>1
        <5>2. NmPerBlock * b2 = m + NmPerBlock /\ NmPerBlock >= 1 /\ NmPerBlock \in Nat
          <6>1. \A y, z \in Nat : y * (z + 1) = y * z + y
            OBVIOUS
          <6> QED
            BY <1>5, <1>7, <5>1, <6>1, NmAssumption
        <5>3. PICK z : z = NmPerBlock * b2
          OBVIOUS
        <5> QED
          BY <1>3, <1>8, <4>1, <5>2, <5>3
      <4>2. CASE l # m
        <5>1. NmPerBlock * b2 = m
          BY <1>7, <1>9, <1>10, <4>2
        <5> QED
          BY <1>3, <1>8, <4>2, <5>1
      <4> QED
        BY <4>1, <4>2
    <3> QED
      BY <1>3, <3>1, <3>2, <3>3, <3>4
  <2> QED
    BY <2>1, <2>2
<1>14. x \in NmInode /\ x.ents = o2 /\ x.blocks = b2 /\ x.mode = inode[d].mode /\ x.nlinks = inode[d].nlinks
  BY <1>2, <1>10, <1>12, <1>13 DEF NmInode
<1>15. W \in [NmInodes -> NmInode] /\ W[d] = x /\ \A i \in NmInodes \ {d} : W[i] = inode[i]
  BY <1>2, <1>11, <1>14
<1>16. s \in 1 .. NmPerBlock * NmBlocks
  <2>1. \A y, z, v \in Nat : z <= v => y * z <= y * v
    OBVIOUS
  <2>2. NmPerBlock * b2 <= NmPerBlock * NmBlocks
    BY <1>12, <2>1, NmAssumption
  <2>3. PICK u, v, g : u = NmPerBlock * b2 /\ v = NmPerBlock * NmBlocks /\ g = Len(o2)
    OBVIOUS
  <2>4. u \in Int /\ v \in Int /\ u <= v /\ g <= u /\ g \in Nat
    BY <1>12, <1>13, <2>2, <2>3, NmAssumption, LenProperties
  <2>5. s \in 1 .. g
    BY <1>13, <2>3, LenProperties
  <2> QED
    BY <2>3, <2>4, <2>5
<1>17. Adds(inode, W, d, s, name, n)
  BY <1>1, <1>4, <1>13, <1>14, <1>15, <1>16 DEF Adds
<1>18. FreeAfter(d) + Cardinality(BlocksOf(W, NmInodes)) = NmBlocks
  <2>1. PICK B : B = BlocksOf(inode, NmInodes)
    OBVIOUS
  <2>2. CASE NeedsBlock(d)
    <3>1. b2 = b + 1 /\ FreeAfter(d) = nmFree - 1 /\ nmFree - 1 \in Nat
      BY <1>10, <1>12, <2>2 DEF FreeAfter
    <3>2. BlocksOf(W, NmInodes) = B \cup {<<d, b2>>}
      <4>1. ASSUME NEW i \in NmInodes, NEW y \in 1 .. NmBlocks
            PROVE  (y <= W[i].blocks) <=> (y <= inode[i].blocks \/ (i = d /\ y = b2))
        BY <1>1, <1>5, <1>14, <1>15, <3>1
      <4>2. b2 \in 1 .. NmBlocks
        BY <1>5, <1>12, <3>1
      <4> QED
        BY <2>1, <4>1, <4>2 DEF BlocksOf
    <3>3. <<d, b2>> \notin B
      BY <1>1, <1>5, <2>1, <3>1 DEF BlocksOf
    <3>4. Cardinality(B \cup {<<d, b2>>}) = Cardinality(B) + 1
      BY <1>6, <2>1, <3>3, FS_AddElement
    <3>5. PICK k : k = Cardinality(B)
      OBVIOUS
    <3> QED
      BY <1>6, <2>1, <3>1, <3>2, <3>4, <3>5
  <2>3. CASE ~NeedsBlock(d)
    <3>1. b2 = b /\ FreeAfter(d) = nmFree
      BY <1>10, <2>3 DEF FreeAfter
    <3>2. \A i \in NmInodes : W[i].blocks = inode[i].blocks
      BY <1>1, <1>14, <1>15, <3>1
    <3>3. BlocksOf(W, NmInodes) = B
      BY <2>1, <3>2 DEF BlocksOf
    <3> QED
      BY <1>6, <2>1, <3>1, <3>3
  <2> QED
    BY <2>2, <2>3
<1> QED
  BY <1>12, <1>17, <1>18

\* The new name is there, everything else as it was.
LEMMA AddedNames ==
  ASSUME NEW I, I \in [NmInodes -> NmInode], \A j \in NmInodes : Listed(I[j]),
         NEW d \in NmInodes, NEW n \in NmInodes, NEW s, NEW name, NEW W, Adds(I, W, d, s, name, n),
         I[d].mode = "dir", FoundIn(I, d, name) = {}, n # d, NEW i \in NmInodes
  PROVE  /\ EntriesIn(W, i) = IF i = n THEN EntriesIn(I, i) \cup {<<d, s>>} ELSE EntriesIn(I, i)
         /\ <<d, s>> \notin EntriesIn(I, i)
         /\ i # d => EmptyIn(W, i) = EmptyIn(I, i) /\ SubdirsIn(W, i) = SubdirsIn(I, i)
         /\ SubdirsIn(W, d) = IF I[n].mode = "dir" THEN SubdirsIn(I, d) \cup {s} ELSE SubdirsIn(I, d)
         /\ s \notin SubdirsIn(I, d)
         /\ Listed(W[i]) /\ W[i].mode = I[i].mode
<1>1. i # NoInode /\ n # NoInode
  BY NmAssumption DEF NoInode
<1>2. <<d, s>> \notin EntriesIn(I, i)
  BY <1>1 DEF EntriesIn, Adds
<1>3. EntriesIn(W, i) = IF i = n THEN EntriesIn(I, i) \cup {<<d, s>>} ELSE EntriesIn(I, i)
  <2>1. ASSUME NEW x \in NmInodes, NEW t \in 1 .. NmPerBlock * NmBlocks
        PROVE  <<x, t>> \in EntriesIn(W, i) <=>
                 (<<x, t>> \in EntriesIn(I, i) \/ (i = n /\ <<x, t>> = <<d, s>>))
    <3>1. <<x, t>> \in EntriesIn(W, i) <=> (t \in DOMAIN W[x].ents /\ W[x].ents[t].ino = i)
      BY DEF EntriesIn
    <3>2. <<x, t>> \in EntriesIn(I, i) <=> (t \in DOMAIN I[x].ents /\ I[x].ents[t].ino = i)
      BY DEF EntriesIn
    <3>3. CASE x = d
      BY <1>1, <3>1, <3>2, <3>3 DEF Adds
    <3>4. CASE x # d
      BY <3>1, <3>2, <3>4 DEF Adds
    <3> QED
      BY <3>3, <3>4
  <2>2. /\ EntriesIn(W, i) \subseteq NmInodes \X (1 .. NmPerBlock * NmBlocks)
        /\ EntriesIn(I, i) \subseteq NmInodes \X (1 .. NmPerBlock * NmBlocks)
    BY Zenon DEF EntriesIn
  <2>3. PICK P, A, B : P = 1 .. NmPerBlock * NmBlocks /\ A = EntriesIn(W, i) /\ B = EntriesIn(I, i)
    OBVIOUS
  <2>4. \A x \in NmInodes, t \in P : <<x, t>> \in A <=> (<<x, t>> \in B \/ (i = n /\ <<x, t>> = <<d, s>>))
    BY <2>1, <2>3
  <2>5. A \subseteq NmInodes \X P /\ B \subseteq NmInodes \X P /\ s \in P
    BY <2>2, <2>3 DEF Adds
  <2>6. A = IF i = n THEN B \cup {<<d, s>>} ELSE B
    <3>1. CASE i = n
      BY <2>4, <2>5, <3>1
    <3>2. CASE i # n
      BY <2>4, <2>5, <3>2
    <3> QED
      BY <3>1, <3>2
  <2> QED
    BY <2>3, <2>6
<1>4. \A j \in NmInodes : W[j].mode = I[j].mode
  BY DEF Adds
<1>5. ASSUME NEW j \in NmInodes, NEW t \in DOMAIN I[j].ents, I[j].ents[t].ino # NoInode
      PROVE  W[I[j].ents[t].ino].mode = I[I[j].ents[t].ino].mode
  BY <1>4, <1>5, Capacity DEF NmHeld
<1>6. i # d => EmptyIn(W, i) = EmptyIn(I, i) /\ SubdirsIn(W, i) = SubdirsIn(I, i)
  <2>1. i # d => W[i] = I[i]
    BY DEF Adds
  <2> QED
    BY <1>5, <2>1 DEF EmptyIn, SubdirsIn
<1>7. s \notin SubdirsIn(I, d)
  BY DEF SubdirsIn, Adds
<1>8. SubdirsIn(W, d) = IF I[n].mode = "dir" THEN SubdirsIn(I, d) \cup {s} ELSE SubdirsIn(I, d)
  <2>1. \A t : t \in SubdirsIn(W, d) <=> (t \in SubdirsIn(I, d) \/ (t = s /\ I[n].mode = "dir"))
    <3>1. ASSUME NEW t, t # s PROVE t \in SubdirsIn(W, d) <=> t \in SubdirsIn(I, d)
      BY <1>5, <3>1 DEF SubdirsIn, Adds
    <3>2. s \in SubdirsIn(W, d) <=> I[n].mode = "dir"
      BY <1>1, <1>4 DEF SubdirsIn, Adds
    <3> QED
      BY <1>7, <3>1, <3>2
  <2> QED
    BY <2>1
<1>9. Listed(W[i])
  <2>1. CASE i # d
    BY <2>1 DEF Adds
  <2>2. CASE i = d
    <3>1. \A t \in DOMAIN I[d].ents : I[d].ents[t].ino # NoInode => I[d].ents[t].name # name
      BY DEF FoundIn
    <3>2. OnceNamed(I[d])
      BY DEF Listed
    <3>3. OnceNamed(W[d])
      BY <3>1, <3>2 DEF OnceNamed, Adds
    <3> QED
      BY <2>2, <3>3, <1>4 DEF Listed, Adds
  <2> QED
    BY <2>1, <2>2
<1> QED
  BY <1>2, <1>3, <1>4, <1>6, <1>7, <1>8, <1>9

\* p's call q is about to write a name of n into d
CanAdd(p, q, d, n, name) ==
  /\ q = nmProc[p] /\ q.pc = "add" /\ d = q.dir /\ n = q.ino /\ name = q.path[1]
  /\ q \in NmCallType /\ InChange(q) /\ q.op \in Makes \cup {"link"}
  /\ d \in NmInodes /\ n \in NmInodes /\ n # d /\ n # NoInode /\ name \in STRING
  /\ inode[d].mode = "dir" /\ inode[d].nlinks # 0 /\ FoundIn(inode, d, name) = {}
  /\ inode[n].mode = (IF q.op = "mkdir" THEN "dir" ELSE "reg")

LEMMA Adding ==
  ASSUME Tree(inode, nmFree, nmProc), NEW p \in NmProcs, nmProc[p].pc = "add",
         NEW q, q = nmProc[p], NEW d, d = q.dir, NEW n, n = q.ino, NEW name, name = q.path[1]
  PROVE  CanAdd(p, q, d, n, name)
<1>1. q \in NmCallType /\ NameCallOK(q) /\ ChangeOK(inode, q)
  BY CallIs
<1>2. name \in STRING
  <2>1. q.path \in Seq(STRING) /\ Len(q.path) = 1
    BY <1>1 DEF NameCallOK, NmCallType
  <2> QED
    BY <2>1, ElementOfSeq
<1>3. /\ q.op \in Makes \cup {"link"} /\ d \in NmInodes /\ n \in NmInodes /\ n # d /\ n # NoInode
  BY <1>1 DEF NameCallOK, NmCallType, NmHeld
<1>4. InChange(q)
  BY <1>3 DEF InChange, Changing, Makes
<1>5. /\ inode[d].mode = "dir" /\ inode[d].nlinks # 0 /\ FoundIn(inode, d, name) = {}
      /\ inode[n].mode = (IF q.op = "mkdir" THEN "dir" ELSE "reg")
  BY <1>1 DEF ChangeOK
<1> QED
  BY <1>1, <1>2, <1>3, <1>4, <1>5 DEF CanAdd

\* the link of ".." is counted with the name, and the name is no longer to be written
DotDot(I2, d, op) ==
  \A i \in NmInodes : I2[i].nlinks = inode[i].nlinks + (IF i = d THEN DirLinks(op) ELSE 0)
OneWritten(q, q2, n) ==
  \A i \in NmInodes : WriteOf(q, i) - CountOf(q, i)
                        = (WriteOf(q2, i) - CountOf(q2, i)) + (IF i = n THEN 1 ELSE 0)

\* The name of n is written: I2 is W, but for the links of the directory.
LEMMA NameAdded ==
  ASSUME Tree(inode, nmFree, nmProc), NEW p \in NmProcs, NEW q, NEW d, NEW n, NEW name,
         CanAdd(p, q, d, n, name), NEW s, NEW W, Adds(inode, W, d, s, name, n),
         NEW I2, I2 \in [NmInodes -> NmInode], SameShape(W, I2), DotDot(I2, d, q.op),
         NEW F2 \in Nat, F2 + Cardinality(BlocksOf(W, NmInodes)) = NmBlocks,
         NEW Q2, Q2 \in [NmProcs -> NmCallType], \A r \in NmProcs \ {p} : Q2[r] = nmProc[r],
         NameCallOK(Q2[p]), HoldsOK(I2, Q2[p]), ChangeOK(I2, Q2[p]), OneWritten(q, Q2[p], n)
  PROVE  Tree(I2, F2, Q2)
<1>1. /\ InChange(nmProc[p]) /\ d \in NmInodes /\ n \in NmInodes /\ n # d /\ q = nmProc[p]
      /\ inode[d].mode = "dir" /\ inode[d].nlinks # 0 /\ FoundIn(inode, d, name) = {}
      /\ inode[n].mode = (IF q.op = "mkdir" THEN "dir" ELSE "reg")
  BY DEF CanAdd
<1>2. inode \in [NmInodes -> NmInode] /\ \A j \in NmInodes : Listed(inode[j])
  BY DEF Tree
<1>3. W \in [NmInodes -> NmInode] /\ \A j \in NmInodes : Listed(W[j]) /\ W[j].mode = inode[j].mode
  <2>1. ASSUME NEW j \in NmInodes PROVE Listed(W[j]) /\ W[j].mode = inode[j].mode
    <3>1. /\ <<d, s>> \notin EntriesIn(inode, j)
          /\ Listed(W[j]) /\ W[j].mode = inode[j].mode
      BY <1>1, <1>2, AddedNames
    <3> QED
      BY <3>1
  <2>2. W \in [NmInodes -> NmInode]
    BY DEF Adds
  <2> QED
    BY <2>1, <2>2
<1>4. \A r \in NmProcs \ {p} : nmProc[r].pc \notin {"empty", "new", "add", "linked"}
  BY <1>1, OtherReaders
<1>5. ASSUME NEW i \in NmInodes PROVE Linked(I2, Q2, i) /\ Listed(I2[i])
  <2>1. /\ EntriesIn(W, i) = IF i = n THEN EntriesIn(inode, i) \cup {<<d, s>>} ELSE EntriesIn(inode, i)
        /\ <<d, s>> \notin EntriesIn(inode, i)
        /\ i # d => EmptyIn(W, i) = EmptyIn(inode, i) /\ SubdirsIn(W, i) = SubdirsIn(inode, i)
        /\ SubdirsIn(W, d) = IF inode[n].mode = "dir" THEN SubdirsIn(inode, d) \cup {s} ELSE SubdirsIn(inode, d)
        /\ s \notin SubdirsIn(inode, d)
    BY <1>1, <1>2, AddedNames
  <2>2. /\ EntriesIn(I2, i) = EntriesIn(W, i) /\ SubdirsIn(I2, i) = SubdirsIn(W, i)
        /\ EmptyIn(I2, i) = EmptyIn(W, i) /\ Listed(I2[i])
    BY <1>3, ShapeKept
  <2>3. I2[i].mode = inode[i].mode
    BY <1>3 DEF SameShape
  <2>4. RefsIn(I2, Q2, i) = RefsIn(inode, nmProc, i)
    <3>1. PICK E, a, b, c, w, v : /\ E = EntriesIn(inode, i) /\ a = WriteOf(q, i) /\ b = CountOf(q, i)
                                  /\ c = Cardinality(E) /\ w = WriteOf(Q2[p], i) /\ v = CountOf(Q2[p], i)
      OBVIOUS
    <3>2. RefsIn(inode, nmProc, i) = c + a - b
      BY <1>1, <1>4, <3>1, RefsOf
    <3>3. RefsIn(I2, Q2, i) = Cardinality(EntriesIn(I2, i)) + w - v
      <4>1. \A r \in NmProcs \ {p} : Q2[r].pc \notin {"empty", "new", "add", "linked"}
        BY <1>4
      <4> QED
        BY <3>1, <4>1, RefsOf
    <3>4. /\ IsFiniteSet(E) /\ c \in Nat
      BY <3>1, NameSets
    <3>5. Cardinality(EntriesIn(I2, i)) = c + (IF i = n THEN 1 ELSE 0)
      <4>1. CASE i = n
        <5>1. EntriesIn(I2, i) = E \cup {<<d, s>>} /\ <<d, s>> \notin E
          BY <2>1, <2>2, <3>1, <4>1
        <5>2. Cardinality(E \cup {<<d, s>>}) = Cardinality(E) + 1
          BY <3>4, <5>1, FS_AddElement
        <5> QED
          BY <3>1, <4>1, <5>1, <5>2
      <4>2. CASE i # n
        BY <2>1, <2>2, <3>1, <3>4, <4>2
      <4> QED
        BY <4>1, <4>2
    <3>6. a \in Int /\ b \in Int /\ w \in Int /\ v \in Int
      BY <3>1 DEF WriteOf, CountOf
    <3>7. a - b = (w - v) + (IF i = n THEN 1 ELSE 0)
      BY <3>1 DEF OneWritten
    <3> QED
      BY <3>2, <3>3, <3>4, <3>5, <3>6, <3>7
  <2>5. Linked(inode, nmProc, i) /\ inode[i].nlinks \in Int
    BY <1>2 DEF Tree, NmInode
  <2>6. CASE i = d
    <3>1. i # ROOT_INO => RefsIn(inode, nmProc, i) = 1 /\ inode[i].nlinks = 2 + Cardinality(SubdirsIn(inode, i))
      BY <1>1, <2>5, <2>6 DEF Linked
    <3>2. PICK S, k : S = SubdirsIn(inode, d) /\ k = Cardinality(S)
      OBVIOUS
    <3>3. IsFiniteSet(S) /\ k \in Nat /\ s \notin S
      BY <1>1, <1>2, <2>1, <3>2, SubdirsFinite
    <3>4. Cardinality(SubdirsIn(I2, i)) = k + DirLinks(q.op)
      <4>1. CASE q.op = "mkdir"
        <5>1. SubdirsIn(I2, i) = S \cup {s} /\ DirLinks(q.op) = 1
          BY <1>1, <2>1, <2>2, <2>6, <3>2, <4>1 DEF DirLinks
        <5>2. Cardinality(S \cup {s}) = Cardinality(S) + 1
          BY <3>3, FS_AddElement
        <5> QED
          BY <3>2, <5>1, <5>2
      <4>2. CASE q.op # "mkdir"
        <5>1. SubdirsIn(I2, i) = S /\ DirLinks(q.op) = 0
          BY <1>1, <2>1, <2>2, <2>6, <3>2, <4>2 DEF DirLinks
        <5> QED
          BY <3>2, <3>3, <5>1
      <4> QED
        BY <4>1, <4>2
    <3>5. DirLinks(q.op) \in Int
      BY DEF DirLinks
    <3>6. I2[i].nlinks = inode[i].nlinks + DirLinks(q.op)
      BY <2>6 DEF DotDot
    <3>7. i # ROOT_INO => I2[i].nlinks = 2 + Cardinality(SubdirsIn(I2, i))
      BY <2>6, <3>1, <3>2, <3>3, <3>4, <3>5, <3>6
    <3> QED
      BY <1>1, <2>2, <2>3, <2>4, <2>6, <3>1, <3>7 DEF Linked
  <2>7. CASE i # d
    <3>1. I2[i].nlinks = inode[i].nlinks
      BY <2>5, <2>7 DEF DotDot
    <3>2. SubdirsIn(I2, i) = SubdirsIn(inode, i) /\ EmptyIn(I2, i) = EmptyIn(inode, i)
      BY <2>1, <2>2, <2>7
    <3>3. inode[i].mode = "free" => EntriesIn(I2, i) = EntriesIn(inode, i)
      BY <1>1, <2>1, <2>2
    <3> QED
      BY <2>2, <2>3, <2>4, <2>5, <3>1, <3>2, <3>3 DEF Linked
  <2> QED
    BY <2>6, <2>7
<1>6. F2 + Cardinality(BlocksOf(I2, NmInodes)) = NmBlocks
  <2>1. BlocksOf(I2, NmInodes) = BlocksOf(W, NmInodes)
    BY <1>3, ShapeKept
  <2> QED
    BY <2>1
<1>7. \A i \in NmInodes : inode[i].mode # "free" => I2[i].mode = inode[i].mode
  BY <1>3 DEF SameShape
<1> QED
  BY <1>1, <1>5, <1>6, <1>7, Assemble

LEMMA AddEntryStep ==
  ASSUME Tree(inode, nmFree, nmProc), NEW p \in NmProcs, AddEntry(p)
  PROVE  Tree(inode', nmFree', nmProc')
<1>1. PICK q, d, n, name : q = nmProc[p] /\ d = q.dir /\ n = q.ino /\ name = q.path[1]
  OBVIOUS
<1>2. q.pc = "add" /\ q.op # "link" /\ ~NoRoom(d)
  BY <1>1 DEF AddEntry, Runs
<1>0. CanAdd(p, q, d, n, name)
  BY <1>1, <1>2, Adding
<1>3. /\ nmProc \in [NmProcs -> NmCallType] /\ q \in NmCallType /\ HoldsOK(inode, q)
      /\ d \in NmInodes /\ n \in NmInodes /\ n # d /\ n # NoInode /\ name \in STRING
      /\ inode[d].mode = "dir" /\ inode[n].mode # "free" /\ FoundIn(inode, d, name) = {}
  BY <1>0, <1>1, <1>2, CallIs DEF CanAdd
<1>4. PICK W, F2 : W = WithEntry(d, name, n) /\ F2 = FreeAfter(d)
  OBVIOUS
<1>5. /\ \E s : Adds(inode, W, d, s, name, n)
      /\ F2 \in Nat /\ F2 + Cardinality(BlocksOf(W, NmInodes)) = NmBlocks
  BY <1>2, <1>3, <1>4, WithEntryIs
<1>6. PICK s : Adds(inode, W, d, s, name, n)
  BY <1>5
<1>7. PICK f, k, q2 : /\ f = (IF q.op \in {"creat", "excl"} THEN n ELSE q.file)
                      /\ k = W[d].nlinks + DirLinks(q.op) /\ q2 = IdleWith(f)
  OBVIOUS
<1>8. PICK I2, Q2 : I2 = WithLinks(W, d, k) /\ Q2 = [nmProc EXCEPT ![p] = q2]
  OBVIOUS
<1>9. W \in [NmInodes -> NmInode] /\ k \in Int /\ W[d].nlinks = inode[d].nlinks
  <2>1. W \in [NmInodes -> NmInode] /\ W[d].nlinks = inode[d].nlinks
    BY <1>6 DEF Adds
  <2>2. W[d].nlinks \in Int /\ DirLinks(q.op) \in Int
    BY <1>3, <2>1 DEF NmInode, DirLinks
  <2> QED
    BY <1>7, <2>1, <2>2
<1>10. Settle(I2, F2, Q2)
  <2>1. Settle([W EXCEPT ![d].nlinks = @ + DirLinks(q.op)], F2, [nmProc EXCEPT ![p] = [Idle EXCEPT !.file = f]])
    BY <1>1, <1>4, <1>7 DEF AddEntry
  <2>2. [W EXCEPT ![d].nlinks = @ + DirLinks(q.op)] = I2
    BY <1>3, <1>7, <1>8, <1>9 DEF WithLinks
  <2>3. [nmProc EXCEPT ![p] = [Idle EXCEPT !.file = f]] = Q2
    BY <1>7, <1>8 DEF IdleWith
  <2> QED
    BY <2>1, <2>2, <2>3
<1>11. LinksSet(W, I2, d, k)
  BY <1>3, <1>8, <1>9, SetLinks
<1>12. /\ I2 \in [NmInodes -> NmInode] /\ SameShape(W, I2)
       /\ DotDot(I2, d, q.op)
  <2>1. /\ I2 \in [NmInodes -> NmInode] /\ SameShape(W, I2)
        /\ \A i \in NmInodes : I2[i].nlinks = IF i = d THEN k ELSE W[i].nlinks
    BY <1>11 DEF LinksSet
  <2>2. \A i \in NmInodes \ {d} : W[i].nlinks = inode[i].nlinks
    BY <1>6 DEF Adds
  <2>3. \A i \in NmInodes : inode[i].nlinks \in Int
    BY DEF Tree, NmInode
  <2> QED
    BY <1>7, <1>9, <2>1, <2>2, <2>3 DEF DotDot
<1>13. \A i \in NmInodes : I2[i].mode = inode[i].mode
  BY <1>6, <1>12 DEF SameShape, Adds
<1>14. Ended(I2, Q2, p)
  <2>1. f \in NmHeld /\ (f # NoInode => inode[f].mode # "free")
    BY <1>1, <1>3, <1>7, CallIs DEF NmHeld
  <2>2. f # NoInode => I2[f].mode # "free"
    BY <1>13, <2>1 DEF NmHeld
  <2> QED
    BY <1>7, <1>8, <2>1, <2>2, Ending
<1>15. /\ Q2 \in [NmProcs -> NmCallType] /\ \A r \in NmProcs \ {p} : Q2[r] = nmProc[r]
       /\ NameCallOK(Q2[p]) /\ HoldsOK(I2, Q2[p]) /\ ChangeOK(I2, Q2[p]) /\ Q2[p].pc = "idle"
  BY <1>14 DEF Ended
<1>16. OneWritten(q, Q2[p], n)
  BY <1>1, <1>2, <1>15 DEF WriteOf, CountOf, OneWritten
<1>18. Tree(I2, F2, Q2)
  BY <1>0, <1>5, <1>6, <1>12, <1>15, <1>16, NameAdded
<1> QED
  BY <1>10, <1>18, SettleKeeps

LEMMA LinkEntryStep ==
  ASSUME Tree(inode, nmFree, nmProc), NEW p \in NmProcs, LinkEntry(p)
  PROVE  Tree(inode', nmFree', nmProc')
<1>1. PICK q, d, n, name : q = nmProc[p] /\ d = q.dir /\ n = q.ino /\ name = q.path[1]
  OBVIOUS
<1>2. q.pc = "add" /\ q.op = "link" /\ ~NoRoom(d)
  BY <1>1 DEF LinkEntry, Runs
<1>0. CanAdd(p, q, d, n, name)
  BY <1>1, <1>2, Adding
<1>3. /\ nmProc \in [NmProcs -> NmCallType] /\ q \in NmCallType /\ HoldsOK(inode, q)
      /\ d \in NmInodes /\ n \in NmInodes /\ n # d /\ n # NoInode /\ name \in STRING
      /\ inode[d].mode = "dir" /\ inode[n].mode = "reg" /\ FoundIn(inode, d, name) = {}
  BY <1>0, <1>1, <1>2, CallIs DEF CanAdd
<1>4. PICK W, F2 : W = WithEntry(d, name, n) /\ F2 = FreeAfter(d)
  OBVIOUS
<1>5. /\ \E s : Adds(inode, W, d, s, name, n)
      /\ F2 \in Nat /\ F2 + Cardinality(BlocksOf(W, NmInodes)) = NmBlocks
  BY <1>2, <1>3, <1>4, WithEntryIs
<1>6. PICK s : Adds(inode, W, d, s, name, n)
  BY <1>5
<1>7. PICK q2, Q2 : q2 = [q EXCEPT !.pc = "linked", !.dir = NoInode] /\ Q2 = [nmProc EXCEPT ![p] = q2]
  OBVIOUS
<1>8. Settle(W, F2, Q2)
  <2>1. Settle(W, F2, [nmProc EXCEPT ![p].pc = "linked", ![p].dir = NoInode])
    BY <1>1, <1>4 DEF LinkEntry
  <2>2. [nmProc EXCEPT ![p].pc = "linked", ![p].dir = NoInode] = Q2
    BY <1>1, <1>3, <1>7
  <2> QED
    BY <2>1, <2>2
<1>9. q2 \in NmCallType
  <2>1. "linked" \in NmPcs /\ NoInode \in NmHeld
    BY DEF NmPcs, NmHeld
  <2> QED
    BY <1>3, <1>7, <2>1, ZenonT(30) DEF NmCallType
<1>10. q2.pc = "linked" /\ q2.op = "link" /\ q2.dir = NoInode /\ q2.ino = n /\ q2.file = q.file
  BY <1>1, <1>2, <1>3, <1>7 DEF NmCallType
<1>11. /\ W \in [NmInodes -> NmInode] /\ SameShape(W, W) /\ \A i \in NmInodes : W[i].mode = inode[i].mode
       /\ \A i \in NmInodes : W[i].nlinks = inode[i].nlinks
  BY <1>6 DEF SameShape, Adds
<1>12. DotDot(W, d, q.op)
  <2>1. DirLinks(q.op) = 0
    BY <1>2 DEF DirLinks
  <2>2. \A i \in NmInodes : inode[i].nlinks \in Int
    BY DEF Tree, NmInode
  <2> QED
    BY <1>11, <2>1, <2>2 DEF DotDot
<1>13. NameCallOK(q2)
  BY <1>3, <1>9, <1>10 DEF NameCallOK
<1>14. HoldsOK(W, q2)
  <2>1. \A i \in {q2.dir, q2.ino, q2.file} \ {NoInode} : i \in NmInodes /\ inode[i].mode # "free"
    BY <1>1, <1>3, <1>9, <1>10 DEF NmCallType, NmHeld, HoldsOK
  <2> QED
    BY <1>11, <2>1 DEF HoldsOK
<1>15. ChangeOK(W, q2)
  BY <1>3, <1>10, <1>11 DEF ChangeOK
<1>16. Q2 \in [NmProcs -> NmCallType] /\ Q2[p] = q2 /\ \A r \in NmProcs \ {p} : Q2[r] = nmProc[r]
  BY <1>3, <1>7, <1>9
<1>17. OneWritten(q, Q2[p], n)
  BY <1>1, <1>2, <1>10, <1>16 DEF WriteOf, CountOf, OneWritten
<1>18. Tree(W, F2, Q2)
  BY <1>0, <1>5, <1>6, <1>11, <1>12, <1>13, <1>14, <1>15, <1>16, <1>17, NameAdded
<1> QED
  BY <1>8, <1>18, SettleKeeps

-----------------------------------------------------------------------------
LEMMA NameStart ==
  ASSUME NmInit
  PROVE  NameInv
<1>1. PICK x : x = [mode |-> "dir", nlinks |-> 2, ents |-> <<>>, blocks |-> 1]
  OBVIOUS
<1>2. /\ inode = [i \in NmInodes |-> IF i = ROOT_INO THEN x ELSE FreeInode]
      /\ nmFree = NmBlocks - 1 /\ nmProc = [p \in NmProcs |-> Idle]
  BY <1>1 DEF NmInit
<1>3. x \in NmInode /\ FreeInode \in NmInode
  <2>1. PICK e : e = <<>>
    OBVIOUS
  <2>2. e \in Seq(NmEntry) /\ 0 \in 0 .. NmBlocks /\ 1 \in 0 .. NmBlocks
    BY <2>1, NmAssumption
  <2>3. x = [mode |-> "dir", nlinks |-> 2, ents |-> e, blocks |-> 1]
    BY <1>1, <2>1
  <2>4. FreeInode = [mode |-> "free", nlinks |-> 0, ents |-> e, blocks |-> 0]
    BY <2>1 DEF FreeInode
  <2> QED
    BY <2>2, <2>3, <2>4 DEF NmInode
<1>4. /\ x.mode = "dir" /\ x.ents = <<>> /\ x.blocks = 1
      /\ FreeInode.mode = "free" /\ FreeInode.ents = <<>> /\ FreeInode.blocks = 0
  BY <1>1 DEF FreeInode
<1>5. ROOT_INO \in NmInodes /\ inode \in [NmInodes -> NmInode] /\ inode[ROOT_INO].mode = "dir"
      /\ \A i \in NmInodes : inode[i] = IF i = ROOT_INO THEN x ELSE FreeInode
  BY <1>2, <1>3, <1>4, NmAssumption
<1>6. /\ Idle \in NmCallType /\ NameCallOK(Idle) /\ HoldsOK(inode, Idle) /\ ChangeOK(inode, Idle)
      /\ ~InChange(Idle)
  <2>1. PICK f : f = NoInode
    OBVIOUS
  <2>2. Idle = [Idle EXCEPT !.file = f]
    BY <2>1 DEF Idle
  <2>3. f \in NmHeld /\ (f # NoInode => inode[f].mode # "free")
    BY <2>1 DEF NmHeld
  <2> QED
    BY <2>2, <2>3, OutsideCall
<1>7. nmProc \in [NmProcs -> NmCallType] /\ \A p \in NmProcs : nmProc[p] = Idle
  BY <1>2, <1>6
<1>8. \A i \in NmInodes : EntriesIn(inode, i) = {}
  BY <1>4, <1>5 DEF EntriesIn
<1>9. ASSUME NEW i \in NmInodes PROVE Linked(inode, nmProc, i)
  BY <1>4, <1>5, <1>8 DEF Linked
<1>10. ASSUME NEW i \in NmInodes PROVE Listed(inode[i])
  <2>1. Len(<<>>) <= NmPerBlock * 0 /\ Len(<<>>) <= NmPerBlock * 1
    BY NmAssumption
  <2> QED
    BY <1>4, <1>5, <2>1 DEF Listed, OnceNamed
<1>11. nmFree \in Nat /\ nmFree + Cardinality(BlocksOf(inode, NmInodes)) = NmBlocks
  <2>1. BlocksOf(inode, NmInodes) = {<<ROOT_INO, 1>>}
    <3>1. ASSUME NEW i \in NmInodes, NEW b \in 1 .. NmBlocks
          PROVE  (b <= inode[i].blocks) <=> (i = ROOT_INO /\ b = 1)
      BY <1>4, <1>5
    <3>2. 1 \in 1 .. NmBlocks
      BY NmAssumption
    <3> QED
      BY <1>5, <3>1, <3>2 DEF BlocksOf
  <2>2. Cardinality({<<ROOT_INO, 1>>}) = 1
    BY FS_Singleton
  <2>3. NmBlocks \in Nat \ {0}
    BY NmAssumption
  <2>4. PICK k : k = Cardinality(BlocksOf(inode, NmInodes))
    OBVIOUS
  <2>5. k = 1
    BY <2>1, <2>2, <2>4
  <2> QED
    BY <1>2, <2>3, <2>4, <2>5
<1>12. OneChange(nmProc)
  BY <1>6, <1>7 DEF OneChange
<1> QED
  BY <1>5, <1>6, <1>7, <1>9, <1>10, <1>11, <1>12 DEF NameInv, Tree

LEMMA NameNext ==
  ASSUME NameInv, [NmNext]_nmVars
  PROVE  NameInv'
<1>1. SUFFICES ASSUME ~nmOverlap', ~nmStale', ~nmPanic' PROVE Tree(inode', nmFree', nmProc')
  BY DEF NameInv, Tree, Linked, Listed, OneChange, NameCallOK, HoldsOK, ChangeOK
<1>2. CASE UNCHANGED nmVars
  BY <1>1, <1>2 DEF NameInv, nmVars
<1>3. CASE NmNext
  <2>1. PICK p \in NmProcs :
          \/ \E c \in NmCalls : NmCall(p, c)
          \/ NmClose(p) \/ GetDir(p) \/ GetDirStep(p) \/ NameFound(p) \/ NameMissing(p)
          \/ OpenGot(p) \/ LinkGot(p) \/ UnlinkGot(p) \/ RmdirGot(p) \/ Rmdir(p)
          \/ NewInode(p) \/ NewDirectory(p) \/ AddEntry(p) \/ LinkEntry(p) \/ LinkCount(p) \/ AddFails(p)
    BY <1>3 DEF NmNext
  <2>2. ~nmOverlap /\ ~nmStale /\ ~nmPanic
    <3>1. ASSUME NEW c \in NmCalls, NmCall(p, c) PROVE ~nmOverlap /\ ~nmStale /\ ~nmPanic
      BY <1>1, <3>1 DEF NmCall, Runs
    <3>2. CASE NmClose(p)
      BY <1>1, <3>2 DEF NmClose, Runs, Quiet
    <3>3. CASE GetDir(p)
      BY <1>1, <3>3 DEF GetDir, Runs, Quiet
    <3>4. CASE GetDirStep(p)
      BY <1>1, <3>4 DEF GetDirStep, Runs, Iget
    <3>5. CASE NameFound(p)
      BY <1>1, <3>5 DEF NameFound, Runs, Quiet
    <3>6. CASE NameMissing(p)
      BY <1>1, <3>6 DEF NameMissing, Runs, Quiet
    <3>7. CASE OpenGot(p)
      BY <1>1, <3>7 DEF OpenGot, Runs, Iget
    <3>8. CASE LinkGot(p)
      BY <1>1, <3>8 DEF LinkGot, Runs, Iget
    <3>9. CASE UnlinkGot(p)
      BY <1>1, <3>9 DEF UnlinkGot, Runs, Iget
    <3>10. CASE RmdirGot(p)
      BY <1>1, <3>10 DEF RmdirGot, Runs, Iget
    <3>11. CASE Rmdir(p)
      BY <1>1, <3>11 DEF Rmdir, Runs, Quiet
    <3>12. CASE NewInode(p)
      BY <1>1, <3>12 DEF NewInode, Runs, Quiet
    <3>13. CASE NewDirectory(p)
      BY <1>1, <3>13 DEF NewDirectory, Runs, Quiet
    <3>14. CASE AddEntry(p)
      BY <1>1, <3>14 DEF AddEntry, Runs, Quiet
    <3>15. CASE LinkEntry(p)
      BY <1>1, <3>15 DEF LinkEntry, Runs, Quiet
    <3>16. CASE LinkCount(p)
      BY <1>1, <3>16 DEF LinkCount, Runs, Quiet
    <3>17. CASE AddFails(p)
      BY <1>1, <3>17 DEF AddFails, Runs
    <3> QED
      BY <2>1, <3>1, <3>2, <3>3, <3>4, <3>5, <3>6, <3>7, <3>8, <3>9,
         <3>10, <3>11, <3>12, <3>13, <3>14, <3>15, <3>16, <3>17
  <2>3. Tree(inode, nmFree, nmProc)
    BY <2>2 DEF NameInv
  <2>4. ASSUME NEW c \in NmCalls, NmCall(p, c) PROVE Tree(inode', nmFree', nmProc')
    BY <1>1, <2>3, <2>4, NmCallStep
  <2>5. CASE NmClose(p)
    BY <2>3, <2>5, NmCloseStep
  <2>6. CASE GetDir(p)
    BY <2>3, <2>6, GetDirStarts
  <2>7. CASE GetDirStep(p)
    BY <1>1, <2>3, <2>7, GetDirGoesOn
  <2>8. CASE NameFound(p)
    BY <2>3, <2>8, NameIsFound
  <2>9. CASE NameMissing(p)
    BY <2>3, <2>9, NameIsMissing
  <2>10. CASE OpenGot(p)
    BY <1>1, <2>3, <2>10, NameOpenEnds
  <2>11. CASE LinkGot(p)
    BY <1>1, <2>3, <2>11, LinkGoesOn
  <2>12. CASE UnlinkGot(p)
    BY <1>1, <2>3, <2>12, Unlinking
  <2>13. CASE RmdirGot(p)
    BY <1>1, <2>3, <2>13, RmdirGoesOn
  <2>14. CASE Rmdir(p)
    BY <2>3, <2>14, Removing
  <2>15. CASE NewInode(p)
    BY <2>3, <2>15, NewInodeStep
  <2>16. CASE NewDirectory(p)
    BY <2>3, <2>16, NewDirectoryStep
  <2>17. CASE AddEntry(p)
    BY <2>3, <2>17, AddEntryStep
  <2>18. CASE LinkEntry(p)
    BY <2>3, <2>18, LinkEntryStep
  <2>19. CASE LinkCount(p)
    BY <2>3, <2>19, LinkIsCounted
  <2>20. CASE AddFails(p)
    BY <1>1, <2>3, <2>20, AddingFails
  <2> QED
    BY <2>1, <2>4, <2>5, <2>6, <2>7, <2>8, <2>9, <2>10, <2>11, <2>12, <2>13, <2>14, <2>15, <2>16,
       <2>17, <2>18, <2>19, <2>20
<1> QED
  BY <1>2, <1>3

LEMMA NameTree ==
  ASSUME NameInv
  PROVE  TreeConsistent
<1> SUFFICES ASSUME Tree(inode, nmFree, nmProc)
             PROVE  TreeConsistent
  BY DEF NameInv, TreeConsistent
<1>1. ASSUME NEW i \in NmInodes
      PROVE  /\ Entries(i) = EntriesIn(inode, i) /\ Subdirs(i) = SubdirsIn(inode, i)
             /\ EmptyDir(i) = EmptyIn(inode, i)
             /\ Cardinality(Entries(i)) + ToWrite(i) - ToCount(i) = RefsIn(inode, nmProc, i)
  <2>1. Entries(i) = EntriesIn(inode, i)
    BY DEF Entries, EntriesIn
  <2>2. ToWrite(i) = Cardinality(WritersOf(nmProc, i)) /\ ToCount(i) = Cardinality(CountersOf(nmProc, i))
    BY DEF ToWrite, ToCount, WritersOf, CountersOf
  <2>3. Subdirs(i) = SubdirsIn(inode, i) /\ EmptyDir(i) = EmptyIn(inode, i)
    BY DEF Subdirs, SubdirsIn, EmptyDir, EmptyIn
  <2> QED
    BY <2>1, <2>2, <2>3 DEF RefsIn
<1>2. ASSUME NEW i \in NmInodes
      PROVE  /\ Linked(inode, nmProc, i)
             /\ \A s, t \in DOMAIN inode[i].ents :
                 s # t /\ inode[i].ents[s].ino # NoInode /\ inode[i].ents[t].ino # NoInode =>
                   inode[i].ents[s].name # inode[i].ents[t].name
  BY DEF Tree, Listed, OnceNamed
<1>3. nmFree + Cardinality(BlocksOf(inode, NmInodes)) = NmBlocks
  BY DEF Tree
<1> QED
  BY <1>1, <1>2, <1>3 DEF TreeConsistent, Linked

\* While the calls that change names come one after the other, whatever calls that only
\* look overlap with them and wherever they sleep, and no inode is taken after it was
\* freed: the links of every inode are its names, every name is there once, a removed
\* directory is empty and no block is lost (fs/namei.c), for any number of processes,
\* inodes, blocks and calls.
THEOREM TreeStaysConsistent == NmSpec => []TreeConsistent
<1>1. NmInit => NameInv
  BY NameStart
<1>2. NameInv /\ [NmNext]_nmVars => NameInv'
  BY NameNext
<1>3. NameInv => TreeConsistent
  BY NameTree
<1> QED
  BY <1>1, <1>2, <1>3, PTL DEF NmSpec
===============================================================================
