-------------------------------- MODULE Memory --------------------------------
(***************************************************************************)
(* mm/memory.c: the reference counts of mem_map[], page tables, copy on    *)
(* write, and demand loading that shares the clean pages of a program      *)
(* between the processes that run it; with the writes to user memory that  *)
(* the kernel makes for a system call (verify_area() of kernel/fork.c).    *)
(*                                                                         *)
(* Addresses are of two kinds: Exec, below end_data, whose pages come from *)
(* the program, and Anon, whose pages start as zero; the last one is the   *)
(* top of the stack.  Each modelled page lies in a 4Mb block, and so in a  *)
(* page table, of its own.  All frames lie above LOW_MEM.                  *)
(* A process that runs in user mode may be preempted between a page fault  *)
(* and the instruction's restart, so faults and stores are separate steps; *)
(* loading a page from the program, a system call that has verified a      *)
(* buffer, and execve() when it closes files sleep, so each is two steps.  *)
(***************************************************************************)
EXTENDS Integers, FiniteSets, FiniteSetsExt

CONSTANTS
  NProc,     \* task slots; slot 1 runs first
  NFrames,   \* PAGING_PAGES
  NExec,     \* pages below end_data
  NAddr,     \* pages of a process
  Val        \* what a process can write to a page; 0 is a zero page

Proc == 1 .. NProc
Frame == 1 .. NFrames
Addr == 1 .. NAddr
Exec == 1 .. NExec
Anon == (NExec + 1) .. NAddr
Pte == [f : Frame, w : BOOLEAN, d : BOOLEAN]
NoPte == [f |-> 0, w |-> FALSE, d |-> FALSE]
Program == {"a", "b"}
Text(x) == IF x = "a" THEN -1 ELSE -2    \* what a page of program x holds

ASSUME MemoryAssumption ==
  /\ NProc \in Nat \ {0} /\ NFrames \in Nat /\ NFrames >= 3
  /\ NExec \in Nat /\ NAddr \in Nat /\ NExec < NAddr
  /\ 0 \in Val /\ Val \subseteq Nat

VARIABLES
  mem_map,   \* reference count of each frame
  content,   \* what each frame holds
  taskPage,  \* frame of the task structure, 0 for an empty slot
  dir,       \* frame of the page table for each address, 0 for none
  pte,       \* page-table entries
  exe,       \* the program a process runs, "none" once it is a zombie
  loading,   \* what do_no_page() sleeps for: [a, f], or NoLoad
  verified,  \* address the kernel is about to write to, or 0
  args,      \* frame of the arguments while do_execve() sleeps, or 0
  event      \* what a process has just asked for (history)

vars == <<mem_map, content, taskPage, dir, pte, exe, loading, verified, args, event>>
quiet == <<loading, verified, args>>

NoLoad == [a |-> 0, f |-> 0]
Event(what, p, q, v) == [op |-> what, p |-> p, q |-> q, v |-> v]
None == Event("none", 0, 0, 0)

\* A write counts as an event at the addresses outside the program.
Written(p, a, v) == IF a \in Anon THEN Event("write", p, a, v) ELSE None

TypeOK ==
  /\ mem_map \in [Frame -> Nat]
  /\ content \in [Frame -> Val \cup {Text(x) : x \in Program}]
  /\ taskPage \in [Proc -> Frame \cup {0}]
  /\ dir \in [Proc -> [Addr -> Frame \cup {0}]]
  /\ pte \in [Proc -> [Addr -> Pte \cup {NoPte}]]
  /\ exe \in [Proc -> Program \cup {"none"}]
  /\ loading \in [Proc -> [a : Exec, f : Frame] \cup {NoLoad}]
  /\ verified \in [Proc -> Addr \cup {0}]
  /\ args \in [Proc -> Frame \cup {0}]
  /\ event \in [op : {"none", "write", "fork", "exec", "exit"}, p : Proc \cup {0},
               q : Proc \cup Addr \cup {0}, v : Val]

NoTables == [a \in Addr |-> 0]
Empty == [a \in Addr |-> NoPte]

\* The first process has just been started by an execve(): it has a task
\* page, its stack page, and the table that maps the stack page.
Init ==
  /\ mem_map = [f \in Frame |-> IF f > NFrames - 3 THEN 1 ELSE 0]
  /\ content = [f \in Frame |-> 0]
  /\ taskPage = [p \in Proc |-> IF p = 1 THEN NFrames ELSE 0]
  /\ dir = [p \in Proc |-> IF p = 1 THEN [NoTables EXCEPT ![NAddr] = NFrames - 2]
                                    ELSE NoTables]
  /\ pte = [p \in Proc |->
             IF p = 1 THEN [Empty EXCEPT ![NAddr] = [f |-> NFrames - 1, w |-> TRUE, d |-> TRUE]]
                      ELSE Empty]
  /\ exe = [p \in Proc |-> IF p = 1 THEN "a" ELSE "none"]
  /\ loading = [p \in Proc |-> NoLoad]
  /\ verified = [p \in Proc |-> 0]
  /\ args = [p \in Proc |-> 0]
  /\ event = None

Lives(p) == exe[p] # "none" /\ loading[p] = NoLoad /\ args[p] = 0
InProgram(p) == Lives(p) /\ verified[p] = 0
Present(p, a) == pte[p][a] # NoPte
Tables(p) == {a \in Addr : dir[p][a] # 0}

-----------------------------------------------------------------------------
(* Frames *)

Free(mm) == {f \in Frame : mm[f] = 0}
HasFree(mm) == Free(mm) # {}

\* get_free_page() scans down from the last page: the n-th page it yields.
NthFree(mm, n) ==
  LET free == Free(mm) IN CHOOSE f \in free : Cardinality({g \in free : g >= f}) = n
LastFree(mm) == Max(Free(mm))

MutTake(mm, f) == mm

Take(mm, f) == [mm EXCEPT ![f] = 1]

MutZeroed(ct, f) == ct

\* ... and clears the page.
Zeroed(ct, f) == [ct EXCEPT ![f] = 0]

\* How often process p's tables refer to frame f.
Refs(p, f) == Cardinality({a \in Addr : pte[p][a].f = f})

MutFreed(mm, f) == mm

\* free_page()
Freed(mm, f) == [mm EXCEPT ![f] = @ - 1]

\* free_page_tables(): each page loses p's references, the tables are freed.
Unmapped(mm, p) ==
  [f \in Frame |-> mm[f] - Refs(p, f) - Cardinality({a \in Addr : dir[p][a] = f})]

\* do_exit(), of which oom() is a call: the task page stays until the father
\* waits.
DoExit(p, mm) ==
  /\ mem_map' = Unmapped(mm, p)
  /\ dir' = [dir EXCEPT ![p] = NoTables]
  /\ pte' = [pte EXCEPT ![p] = Empty]
  /\ exe' = [exe EXCEPT ![p] = "none"]
  /\ verified' = [verified EXCEPT ![p] = 0]
  /\ loading' = [loading EXCEPT ![p] = NoLoad]
  /\ event' = Event("exit", p, 0, 0)
  /\ UNCHANGED <<content, taskPage, args>>

Exit(p) == InProgram(p) /\ DoExit(p, mem_map)

\* release()
Reap(p) ==
  /\ taskPage[p] # 0 /\ exe[p] = "none"
  /\ mem_map' = Freed(mem_map, taskPage[p])
  /\ taskPage' = [taskPage EXCEPT ![p] = 0]
  /\ event' = None
  /\ UNCHANGED <<content, dir, pte, exe, quiet>>

\* do_execve() up to its last sleep: copy_strings() takes a page for the
\* arguments (when there is none the call fails and nothing changes), the
\* process now runs program x, and files that are closed on exec are closed,
\* while the pages of the old program are still there.
ExecCommits(p, x, v) ==
  LET f == LastFree(mem_map) IN
  /\ InProgram(p) /\ HasFree(mem_map)
  /\ mem_map' = Take(mem_map, f)
  /\ content' = [content EXCEPT ![f] = v]
  /\ args' = [args EXCEPT ![p] = f]
  /\ exe' = [exe EXCEPT ![p] = x]
  /\ event' = None
  /\ UNCHANGED <<taskPage, dir, pte, loading, verified>>

\* The rest: the old pages go, change_ldt() puts the argument page at the top
\* of the stack, where create_tables() writes to it.  The program's pages come
\* by page faults, the first perhaps when the kernel clears the rest of the
\* last data page.
DoExecve(p, pad) ==
  LET f == args[p]
      mm == Unmapped(mem_map, p)
      t == LastFree(mm)
  IN  /\ f # 0
      /\ mem_map' = Take(mm, t)
      /\ content' = Zeroed(content, t)
      /\ dir' = [dir EXCEPT ![p] = [NoTables EXCEPT ![NAddr] = t]]
      /\ pte' = [pte EXCEPT ![p] = [Empty EXCEPT ![NAddr] = [f |-> f, w |-> TRUE, d |-> TRUE]]]
      /\ args' = [args EXCEPT ![p] = 0]
      /\ verified' = [verified EXCEPT ![p] = pad]
      /\ event' = Event("exec", p, NAddr, content[f])
      /\ UNCHANGED <<taskPage, exe, loading>>

-----------------------------------------------------------------------------
(* fork *)

\* this_page &= ~2
Protected(e) == [e EXCEPT !.w = FALSE]

\* copy_process() takes the task page, copy_page_tables() one table after the
\* other: the frame it gets for address a, if there are so many.
TableFrame(p, a) == NthFree(mem_map, 1 + Cardinality({b \in Tables(p) : b <= a}))
Copied(p) == {a \in Tables(p) :
                1 + Cardinality({b \in Tables(p) : b <= a}) <= Cardinality(Free(mem_map))}
Protect(p) == [a \in Addr |-> IF a \in Copied(p) THEN Protected(pte[p][a]) ELSE pte[p][a]]

Fork(p, c) ==
  LET t == LastFree(mem_map)
      new == {t} \cup {TableFrame(p, a) : a \in Copied(p)}
  IN  /\ InProgram(p) /\ taskPage[c] = 0
      /\ HasFree(mem_map) /\ Copied(p) = Tables(p)
      /\ taskPage' = [taskPage EXCEPT ![c] = t]
      /\ exe' = [exe EXCEPT ![c] = exe[p]]
      /\ mem_map' = [f \in Frame |-> IF f \in new THEN 1 ELSE mem_map[f] + Refs(p, f)]
      /\ content' = [f \in Frame |-> IF f \in new THEN 0 ELSE content[f]]
      /\ dir' = [dir EXCEPT ![c] = [a \in Addr |-> IF a \in Copied(p) THEN TableFrame(p, a) ELSE 0]]
      /\ pte' = [pte EXCEPT ![c] = Protect(p), ![p] = Protect(p)]
      /\ event' = Event("fork", p, c, 0)
      /\ UNCHANGED quiet

\* A table is not to be had: copy_mem() frees what was copied, the caller's
\* pages stay protected.
ForkFails(p) ==
  /\ InProgram(p) /\ \E c \in Proc : taskPage[c] = 0
  /\ HasFree(mem_map) /\ Copied(p) # Tables(p)
  /\ content' = [f \in Frame |-> IF mem_map[f] = 0 THEN 0 ELSE content[f]]
  /\ pte' = [pte EXCEPT ![p] = Protect(p)]
  /\ event' = None
  /\ UNCHANGED <<mem_map, taskPage, dir, exe, quiet>>

-----------------------------------------------------------------------------
(* Page faults *)

\* put_page() of frame f, already counted in mm: a missing table is made; when
\* there is no memory for it, f is freed and the process ends.
PutPage(p, a, f, mm, ct) ==
  IF dir[p][a] = 0 /\ ~HasFree(mm)
    THEN DoExit(p, Freed(mm, f))
    ELSE LET t == LastFree(mm)
             need == dir[p][a] = 0
         IN  /\ pte' = [pte EXCEPT ![p][a] = [f |-> f, w |-> TRUE, d |-> FALSE]]
             /\ mem_map' = IF need THEN Take(mm, t) ELSE mm
             /\ content' = IF need THEN Zeroed(ct, t) ELSE ct
             /\ dir' = IF need THEN [dir EXCEPT ![p][a] = t] ELSE dir
             /\ loading' = [loading EXCEPT ![p] = NoLoad]
             /\ event' = None
             /\ UNCHANGED <<taskPage, exe, verified, args>>

\* A fault on a page that is not there comes from the program, or from the
\* kernel when it writes to the address it has verified.
NoPage(p, a) == Lives(p) /\ ~Present(p, a) /\ verified[p] \in {0, a}

\* get_empty_page()
GetEmptyPage(p, a) ==
  LET f == LastFree(mem_map) IN
  /\ NoPage(p, a) /\ a \in Anon
  /\ IF HasFree(mem_map) THEN PutPage(p, a, f, Take(mem_map, f), Zeroed(content, f))
                         ELSE DoExit(p, mem_map)

\* try_to_share(): the page is present and clean in another process that runs
\* the same program.
CanShare(p, q, a) ==
  /\ q # p /\ exe[q] = exe[p]
  /\ dir[q][a] # 0 /\ Present(q, a) /\ ~pte[q][a].d

\* share_page() asks the other processes from the last slot down.
SharePage(p, a) ==
  \E q \in Proc :
    /\ NoPage(p, a) /\ a \in Exec
    /\ CanShare(p, q, a) /\ \A r \in Proc : CanShare(p, r, a) => r <= q
    /\ IF dir[p][a] = 0 /\ ~HasFree(mem_map)
         THEN DoExit(p, mem_map)
         ELSE LET e == Protected(pte[q][a])
                  t == LastFree(mem_map)
                  need == dir[p][a] = 0
                  mm == IF need THEN Take(mem_map, t) ELSE mem_map
              IN  /\ pte' = [pte EXCEPT ![q][a] = e, ![p][a] = e]
                  /\ mem_map' = [mm EXCEPT ![e.f] = @ + 1]
                  /\ dir' = IF need THEN [dir EXCEPT ![p][a] = t] ELSE dir
                  /\ content' = IF need THEN Zeroed(content, t) ELSE content
                  /\ event' = None
                  /\ UNCHANGED <<taskPage, exe, quiet>>

\* Nobody to share with: do_no_page() takes a page and reads the program.
LoadPage(p, a) ==
  LET f == LastFree(mem_map) IN
  /\ NoPage(p, a) /\ a \in Exec
  /\ ~\E q \in Proc : CanShare(p, q, a)
  /\ IF ~HasFree(mem_map)
       THEN DoExit(p, mem_map)
       ELSE /\ mem_map' = Take(mem_map, f)
            /\ content' = Zeroed(content, f)
            /\ loading' = [loading EXCEPT ![p] = [a |-> a, f |-> f]]
            /\ event' = None
            /\ UNCHANGED <<taskPage, dir, pte, exe, verified, args>>

\* The page has been read and is mapped.
LoadEnds(p) ==
  LET l == loading[p] IN
  /\ l # NoLoad
  /\ PutPage(p, l.a, l.f, mem_map, [content EXCEPT ![l.f] = Text(exe[p])])

MutSoleOwner(f) == mem_map[f] <= 2

\* Whether un_wp_page() may hand over the page itself.
SoleOwner(f) == mem_map[f] = 1

\* un_wp_page(): the last owner gets the page itself, another owner a copy.
\* next is the address the kernel will write to afterwards, if any.
UnWpPage(p, a, next) ==
  LET old == pte[p][a].f
      new == LastFree(mem_map)
  IN  IF ~SoleOwner(old) /\ ~HasFree(mem_map)
        THEN DoExit(p, mem_map)
        ELSE /\ IF SoleOwner(old)
                  THEN /\ pte' = [pte EXCEPT ![p][a].w = TRUE]
                       /\ UNCHANGED <<mem_map, content>>
                  ELSE /\ mem_map' = Freed(Take(mem_map, new), old)
                       /\ content' = [content EXCEPT ![new] = content[old]]
                       /\ pte' = [pte EXCEPT ![p][a] = [f |-> new, w |-> TRUE, d |-> FALSE]]
             /\ verified' = [verified EXCEPT ![p] = next]
             /\ event' = None
             /\ UNCHANGED <<taskPage, dir, exe, loading, args>>

\* do_wp_page()
WpFault(p, a) ==
  /\ InProgram(p) /\ Present(p, a) /\ ~pte[p][a].w
  /\ UnWpPage(p, a, 0)

\* A store of the program: the processor checks the entry and sets D.
Store(p, a, v) ==
  /\ InProgram(p) /\ Present(p, a) /\ pte[p][a].w
  /\ content' = [content EXCEPT ![pte[p][a].f] = v]
  /\ pte' = [pte EXCEPT ![p][a].d = TRUE]
  /\ event' = Written(p, a, v)
  /\ UNCHANGED <<mem_map, taskPage, dir, exe, quiet>>

\* write_verify(): present and not writable
NeedsVerify(p, a) == Present(p, a) /\ ~pte[p][a].w

\* verify_area() for a system call that is going to write to address a.
VerifyArea(p, a) ==
  /\ InProgram(p)
  /\ IF NeedsVerify(p, a)
       THEN UnWpPage(p, a, a)
       ELSE /\ verified' = [verified EXCEPT ![p] = a]
            /\ event' = None
            /\ UNCHANGED <<mem_map, content, taskPage, dir, pte, exe, loading, args>>

\* put_fs_byte(): in supervisor mode the 386 ignores write protection.
KernelStore(p, v) ==
  LET a == verified[p] IN
  /\ Lives(p) /\ a # 0 /\ Present(p, a)
  /\ content' = [content EXCEPT ![pte[p][a].f] = v]
  /\ pte' = [pte EXCEPT ![p][a].d = TRUE]
  /\ verified' = [verified EXCEPT ![p] = 0]
  /\ event' = Written(p, a, v)
  /\ UNCHANGED <<mem_map, taskPage, dir, exe, loading, args>>

Next ==
  \E p \in Proc :
    \/ Exit(p) \/ Reap(p) \/ ForkFails(p) \/ LoadEnds(p)
    \/ \E x \in Program, v \in Val : ExecCommits(p, x, v)
    \/ \E pad \in Exec \cup {0} : DoExecve(p, pad)
    \/ \E c \in Proc : Fork(p, c)
    \/ \E a \in Addr : \/ GetEmptyPage(p, a) \/ SharePage(p, a) \/ LoadPage(p, a)
                       \/ WpFault(p, a) \/ VerifyArea(p, a)
    \/ \E a \in Addr, v \in Val : Store(p, a, v)
    \/ \E v \in Val : KernelStore(p, v)

Spec == Init /\ [][Next]_vars

-----------------------------------------------------------------------------
(* Properties *)

References(f) ==
  {x \in Proc \X {"page"} \X Addr : pte[x[1]][x[3]].f = f}
    \cup {x \in Proc \X {"table"} \X Addr : dir[x[1]][x[3]] = f}
    \cup {x \in Proc \X {"task"} \X {0} : taskPage[x[1]] = f}
    \cup {x \in Proc \X {"load"} \X {0} : loading[x[1]].f = f}
    \cup {x \in Proc \X {"args"} \X {0} : args[x[1]] = f}

\* mem_map[] counts exactly: no frame is leaked on any path that runs out of
\* memory half way, none is freed while somebody uses it, and free_page()
\* never panics with "trying to free free page".
CountsExact == \A f \in Frame : mem_map[f] = Cardinality(References(f))

\* A page that can be written without a fault has one owner.
WritableIsPrivate ==
  \A p \in Proc, a \in Addr : Present(p, a) /\ pte[p][a].w => mem_map[pte[p][a].f] = 1

\* What a process reads at its addresses outside the program.
Seen == [p \in Proc |-> [a \in Anon |-> IF Present(p, a) THEN content[pte[p][a].f] ELSE 0]]

\* There copy on write, the kernel's writes and the recycling of frames cannot
\* be told from private memory.
Private == INSTANCE PrivateMemory WITH Addr <- Anon, Zero <- 0, mem <- Seen
ImplementsPrivateMemory == Private!Spec

\* mm/memory.c:285 on try_to_share(): "to see if it exists, and if it is
\* clean".  A page that is about to be shared because its entry is clean holds
\* what the program file holds.
CleanIsUnmodified ==
  \A p, q \in Proc, a \in Exec :
    NoPage(p, a) /\ CanShare(p, q, a) => content[pte[q][a].f] = Text(exe[p])
=============================================================================
