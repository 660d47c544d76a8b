---------------------------- MODULE MemoryProofs ----------------------------
(***************************************************************************)
(* Paging for any number of processes, frames and pages: the counts of     *)
(* mem_map[] are exact, a page that can be written has one owner, and      *)
(* copy on write cannot be told from private memory.                       *)
(*                                                                         *)
(* What may refer to a frame is a use: an entry of a page table, of the    *)
(* page directory, a task slot, a page being loaded, the arguments of an   *)
(* execve().  Uses maps each use to its frame, and every action changes it *)
(* at a few places.  The invariant is that mem_map[] counts the uses       *)
(* (Counts); that two uses of a frame are entries for the same address in  *)
(* different processes, both write protected (Sharing); and that what a    *)
(* process is doing agrees with its tables (ProcOK).                       *)
(***************************************************************************)
EXTENDS Memory, FiniteSetTheorems, TLAPS

Kinds == {"page", "table", "task", "load", "args"}
PageOf(p, a) == <<p, "page", a>>
TableOf(p, a) == <<p, "table", a>>
TaskOf(p) == <<p, "task", 0>>
LoadOf(p) == <<p, "load", 0>>
ArgsOf(p) == <<p, "args", 0>>
Kind(x) == x[2]

Use == (Proc \X {"page", "table"} \X Addr) \cup (Proc \X {"task", "load", "args"} \X {0})

UsesOf(pt, dr, tk, ld, ar) ==
  [x \in Use |-> IF x[2] = "page" THEN pt[x[1]][x[3]].f
                 ELSE IF x[2] = "table" THEN dr[x[1]][x[3]]
                 ELSE IF x[2] = "task" THEN tk[x[1]]
                 ELSE IF x[2] = "load" THEN ld[x[1]].f
                 ELSE ar[x[1]]]
Uses == UsesOf(pte, dir, taskPage, loading, args)

Count(U, f) == Cardinality({x \in Use : U[x] = f})

\* mm is the count of the frames of U.
Counts(mm, U) ==
  /\ mm \in [Frame -> Nat] /\ U \in [Use -> Frame \cup {0}]
  /\ \A f \in Frame : mm[f] = Count(U, f)

\* Two uses of one frame are write-protected entries for one address.
Shared(U, pt) ==
  \A x, y \in Use : x # y /\ U[x] = U[y] /\ U[x] # 0 =>
    \E p, q \in Proc, a \in Addr : x = PageOf(p, a) /\ y = PageOf(q, a) /\ ~pt[p][a].w

Counted == Counts(mem_map, Uses)
Sharing == Shared(Uses, pte)

ProcOK(p) ==
  /\ \A a \in Addr : Present(p, a) => dir[p][a] # 0
  /\ exe[p] # "none" => taskPage[p] # 0 /\ Tables(p) # {}
  /\ exe[p] = "none" => /\ dir[p] = NoTables
                        /\ loading[p] = NoLoad /\ args[p] = 0 /\ verified[p] = 0
  /\ loading[p] # NoLoad => args[p] = 0 /\ ~Present(p, loading[p].a)
  /\ args[p] # 0 => content[args[p]] \in Val /\ verified[p] = 0
  /\ verified[p] \in Anon /\ Present(p, verified[p]) => pte[p][verified[p]].w
Procs == \A p \in Proc : ProcOK(p)

IInv == TypeOK /\ Counted /\ Sharing /\ Procs

-----------------------------------------------------------------------------
(* Uses *)

\* The constants, in the forms that are needed
LEMMA Bounds ==
  /\ Addr \subseteq Nat \ {0} /\ Proc \subseteq Nat \ {0} /\ Frame \subseteq Nat \ {0}
  /\ Exec \subseteq Addr /\ Anon \subseteq Addr /\ Exec \cap Anon = {}
  /\ \A a \in Addr : a \in Exec \/ a \in Anon
  /\ NAddr \in Anon /\ 1 \in Proc
  /\ NFrames \in Frame /\ NFrames - 1 \in Frame /\ NFrames - 2 \in Frame
  BY MemoryAssumption DEF Addr, Proc, Frame, Exec, Anon

\* The uses are of five kinds.
LEMMA UseForms ==
  /\ \A p \in Proc, a \in Addr : PageOf(p, a) \in Use /\ TableOf(p, a) \in Use
  /\ \A p \in Proc : TaskOf(p) \in Use /\ LoadOf(p) \in Use /\ ArgsOf(p) \in Use
  /\ \A x \in Use : \/ \E p \in Proc, a \in Addr : x = PageOf(p, a) \/ x = TableOf(p, a)
                    \/ \E p \in Proc : x = TaskOf(p) \/ x = LoadOf(p) \/ x = ArgsOf(p)
  BY DEF Use, PageOf, TableOf, TaskOf, LoadOf, ArgsOf

\* Uses of different kinds, processes or addresses are different.
LEMMA UseKinds ==
  /\ \A p, a : Kind(PageOf(p, a)) = "page" /\ Kind(TableOf(p, a)) = "table"
  /\ \A p : Kind(TaskOf(p)) = "task" /\ Kind(LoadOf(p)) = "load" /\ Kind(ArgsOf(p)) = "args"
  /\ \A p, a, q, b : PageOf(p, a) = PageOf(q, b) <=> p = q /\ a = b
  /\ \A p, a, q, b : TableOf(p, a) = TableOf(q, b) <=> p = q /\ a = b
  /\ \A p, q : TaskOf(p) = TaskOf(q) <=> p = q
  /\ \A p, q : LoadOf(p) = LoadOf(q) <=> p = q
  /\ \A p, q : ArgsOf(p) = ArgsOf(q) <=> p = q
  BY DEF Kind, PageOf, TableOf, TaskOf, LoadOf, ArgsOf

\* The frame of each use
LEMMA UsesAt ==
  ASSUME NEW pt, NEW dr, NEW tk, NEW ld, NEW ar
  PROVE  /\ UsesOf(pt, dr, tk, ld, ar) = [x \in Use |-> UsesOf(pt, dr, tk, ld, ar)[x]]
         /\ \A p \in Proc, a \in Addr :
              /\ UsesOf(pt, dr, tk, ld, ar)[PageOf(p, a)] = pt[p][a].f
              /\ UsesOf(pt, dr, tk, ld, ar)[TableOf(p, a)] = dr[p][a]
         /\ \A p \in Proc :
              /\ UsesOf(pt, dr, tk, ld, ar)[TaskOf(p)] = tk[p]
              /\ UsesOf(pt, dr, tk, ld, ar)[LoadOf(p)] = ld[p].f
              /\ UsesOf(pt, dr, tk, ld, ar)[ArgsOf(p)] = ar[p]
  BY UseForms DEF UsesOf, PageOf, TableOf, TaskOf, LoadOf, ArgsOf

\* There are finitely many uses.
LEMMA UseFinite == IsFiniteSet(Use)
  <1> DEFINE T == (Proc \X Kinds) \X (0 .. NAddr)
             F == [x \in Use |-> <<<<x[1], x[2]>>, x[3]>>]
  <1>1. IsFiniteSet(Proc) /\ IsFiniteSet(0 .. NAddr)
    BY MemoryAssumption, FS_Interval DEF Proc
  <1>2. IsFiniteSet(Kinds)
    <2>1. Kinds = ((({"page"} \cup {"table"}) \cup {"task"}) \cup {"load"}) \cup {"args"}
      BY DEF Kinds
    <2>2. IsFiniteSet({"page"})
      BY FS_Singleton
    <2>3. IsFiniteSet({"page"} \cup {"table"})
      BY <2>2, FS_AddElement
    <2>4. IsFiniteSet(({"page"} \cup {"table"}) \cup {"task"})
      BY <2>3, FS_AddElement
    <2>5. IsFiniteSet((({"page"} \cup {"table"}) \cup {"task"}) \cup {"load"})
      BY <2>4, FS_AddElement
    <2>6. IsFiniteSet(((({"page"} \cup {"table"}) \cup {"task"}) \cup {"load"}) \cup {"args"})
      BY <2>5, FS_AddElement
    <2> QED BY <2>1, <2>6
  <1>3. IsFiniteSet(T)
    BY <1>1, <1>2, FS_Product
  <1>4. \A x \in Use : x = <<x[1], x[2], x[3]>> /\ x[1] \in Proc /\ x[2] \in Kinds /\ x[3] \in 0 .. NAddr
    BY MemoryAssumption DEF Use, Kinds, Addr
  <1>5. F \in [Use -> T]
    BY <1>4
  <1>6. \A x, y \in Use : F[x] = F[y] => x = y
    BY <1>4
  <1>7. F \in Injection(Use, T)
    BY <1>5, <1>6 DEF Injection, IsInjective
  <1> QED BY <1>3, <1>7, FS_Injection

One(P) == IF P THEN 1 ELSE 0

\* A set that differs from another in one element at most
LEMMA OneElement ==
  ASSUME NEW S, NEW T, NEW x, IsFiniteSet(S), \A y : y # x => (y \in S <=> y \in T)
  PROVE  Cardinality(T) = Cardinality(S) + One(x \in T) - One(x \in S)
  <1>0. Cardinality(S) \in Nat
    BY FS_CardinalityType
  <1>1. CASE x \in T
    <2>1. T = S \cup {x}
      BY <1>1
    <2> QED BY <1>0, <1>1, <2>1, FS_AddElement DEF One
  <1>2. CASE x \notin T
    <2>1. T = S \ {x}
      BY <1>2
    <2> QED BY <1>0, <1>2, <2>1, FS_RemoveElement DEF One
  <1> QED BY <1>1, <1>2

\* The sets of uses are finite.
LEMMA CountNat ==
  ASSUME NEW U, NEW f
  PROVE  IsFiniteSet({x \in Use : U[x] = f}) /\ Count(U, f) \in Nat
  <1>1. {x \in Use : U[x] = f} \in SUBSET Use
    OBVIOUS
  <1>2. IsFiniteSet({x \in Use : U[x] = f})
    BY <1>1, UseFinite, FS_Subset
  <1> QED BY <1>2, FS_CardinalityType DEF Count

\* One use changes.
Put(U, x, f) == [U EXCEPT ![x] = f]

\* The others stay.
LEMMA PutAt ==
  ASSUME NEW U \in [Use -> Frame \cup {0}], NEW x \in Use, NEW f \in Frame \cup {0}
  PROVE  /\ Put(U, x, f) \in [Use -> Frame \cup {0}] /\ Put(U, x, f)[x] = f
         /\ \A y \in Use : y # x => Put(U, x, f)[y] = U[y]
  BY DEF Put

\* What that does to the counts
LEMMA CountMove ==
  ASSUME NEW U \in [Use -> Frame \cup {0}], NEW x \in Use, NEW h \in Frame \cup {0}, NEW f
  PROVE  Count(Put(U, x, h), f) = Count(U, f) + One(h = f) - One(U[x] = f)
  <1> DEFINE V == Put(U, x, h)
             A == {y \in Use : U[y] = f}
             B == {y \in Use : V[y] = f}
  <1>1. \A y : y # x => (y \in A <=> y \in B)
    BY PutAt
  <1>2. (x \in A <=> U[x] = f) /\ (x \in B <=> h = f)
    BY PutAt
  <1>3. IsFiniteSet(A)
    BY CountNat
  <1> HIDE DEF A, B
  <1>4. Cardinality(B) = Cardinality(A) + One(x \in B) - One(x \in A)
    BY <1>1, <1>3, OneElement
  <1> QED BY <1>2, <1>4 DEF Count, A, B, One

\* A frame with count 0 has no use; the use of a frame with count 1 is the only one.
LEMMA CountUses ==
  ASSUME NEW mm, NEW U, Counts(mm, U), NEW f \in Frame
  PROVE  /\ mm[f] = 0 <=> \A x \in Use : U[x] # f
         /\ mm[f] = 1 => \A x, y \in Use : U[x] = f /\ U[y] = f => x = y
         /\ \A x \in Use : U[x] = f /\ (\A y \in Use : U[y] = f => y = x) => mm[f] = 1
         /\ \A x \in Use : U[x] = f => mm[f] >= 1
  <1> DEFINE S == {x \in Use : U[x] = f}
  <1>1. IsFiniteSet(S) /\ mm[f] = Cardinality(S) /\ Cardinality(S) \in Nat
    <2>1. IsFiniteSet(S) /\ Count(U, f) \in Nat
      BY CountNat
    <2>2. mm[f] = Count(U, f)
      BY DEF Counts
    <2> QED BY <2>1, <2>2 DEF Count
  <1>2. \A x \in Use : x \in S <=> U[x] = f
    OBVIOUS
  <1>3. S \subseteq Use
    OBVIOUS
  <1> HIDE DEF S
  <1>4. mm[f] = 0 <=> S = {}
    BY <1>1, FS_EmptySet
  <1>5. mm[f] = 1 <=> \E x : S = {x}
    BY <1>1, FS_Singleton
  <1>6. \A x \in Use : U[x] = f => mm[f] >= 1
    BY <1>1, <1>2, <1>4
  <1>7. ASSUME NEW x \in Use, U[x] = f, \A y \in Use : U[y] = f => y = x PROVE mm[f] = 1
    <2>1. S = {x}
      BY <1>2, <1>3, <1>7
    <2> QED BY <1>5, <2>1
  <1>8. mm[f] = 0 <=> \A x \in Use : U[x] # f
    BY <1>2, <1>3, <1>4
  <1>9. mm[f] = 1 => \A x, y \in Use : U[x] = f /\ U[y] = f => x = y
    BY <1>2, <1>5
  <1> QED BY <1>6, <1>7, <1>8, <1>9

\* Two sets without a common element
LEMMA DisjointUnion ==
  ASSUME NEW S, NEW T, IsFiniteSet(S), IsFiniteSet(T), S \cap T = {}
  PROVE  IsFiniteSet(S \cup T) /\ Cardinality(S \cup T) = Cardinality(S) + Cardinality(T)
  <1>1. /\ IsFiniteSet(S \cup T)
        /\ Cardinality(S \cup T) = Cardinality(S) + Cardinality(T) - Cardinality(S \cap T)
    BY FS_Union
  <1>2. Cardinality(S \cap T) = 0 /\ Cardinality(S) \in Nat /\ Cardinality(T) \in Nat
    BY FS_EmptySet, FS_CardinalityType
  <1> QED BY <1>1, <1>2

\* As many entries of a process for frame f as addresses that have it
LEMMA EntryCount ==
  ASSUME NEW E, NEW p \in Proc, NEW T, IsFiniteSet(T),
         \A a \in T : PageOf(p, a) \in E, \A x \in E : \E a \in T : x = PageOf(p, a)
  PROVE  IsFiniteSet(E) /\ Cardinality(E) = Cardinality(T)
  <1> DEFINE F == [a \in T |-> PageOf(p, a)]
  <1>1. F \in [T -> E] /\ (\A a, b \in T : F[a] = F[b] => a = b) /\ \A x \in E : \E a \in T : F[a] = x
    BY UseKinds
  <1>2. F \in Bijection(T, E)
    BY <1>1 DEF Bijection, Injection, Surjection, IsInjective
  <1> QED BY <1>2, FS_Bijection DEF ExistsBijection

\* The same for page tables
LEMMA TableCount ==
  ASSUME NEW E, NEW p \in Proc, NEW T, IsFiniteSet(T),
         \A a \in T : TableOf(p, a) \in E, \A x \in E : \E a \in T : x = TableOf(p, a)
  PROVE  IsFiniteSet(E) /\ Cardinality(E) = Cardinality(T)
  <1> DEFINE F == [a \in T |-> TableOf(p, a)]
  <1>1. F \in [T -> E] /\ (\A a, b \in T : F[a] = F[b] => a = b) /\ \A x \in E : \E a \in T : F[a] = x
    BY UseKinds
  <1>2. F \in Bijection(T, E)
    BY <1>1 DEF Bijection, Injection, Surjection, IsInjective
  <1> QED BY <1>2, FS_Bijection DEF ExistsBijection

\* Sets of addresses and of frames are finite.
LEMMA FiniteAddr ==
  /\ \A S \in SUBSET Addr : IsFiniteSet(S) /\ Cardinality(S) \in Nat
  /\ \A S \in SUBSET Frame : IsFiniteSet(S) /\ Cardinality(S) \in Nat
  <1>1. IsFiniteSet(Addr) /\ IsFiniteSet(Frame)
    BY MemoryAssumption, FS_Interval DEF Addr, Frame
  <1> QED BY <1>1, FS_Subset, FS_CardinalityType

-----------------------------------------------------------------------------
(* What the operations on mem_map[] do to the counts *)

\* get_free_page()
LEMMA TakeCount ==
  ASSUME NEW mm, NEW U, Counts(mm, U), NEW x \in Use, U[x] = 0, NEW f \in Frame, mm[f] = 0
  PROVE  Counts(Take(mm, f), Put(U, x, f))
  <1>1. Take(mm, f) \in [Frame -> Nat] /\ U \in [Use -> Frame \cup {0}]
    BY DEF Counts, Take
  <1>2. Put(U, x, f) \in [Use -> Frame \cup {0}]
    BY <1>1, PutAt
  <1>3. \A g \in Frame : Count(Put(U, x, f), g) = Count(U, g) + One(f = g) - One(U[x] = g)
    BY <1>1, CountMove
  <1>4. \A g \in Frame : mm[g] = Count(U, g) /\ mm[g] \in Nat /\ g # 0
    BY Bounds DEF Counts
  <1>5. \A g \in Frame : Take(mm, f)[g] = IF g = f THEN 1 ELSE mm[g]
    BY DEF Take, Counts
  <1>6. \A g \in Frame : Take(mm, f)[g] = Count(Put(U, x, f), g)
    BY <1>3, <1>4, <1>5 DEF One
  <1> QED BY <1>1, <1>2, <1>6 DEF Counts

\* free_page()
LEMMA FreedCount ==
  ASSUME NEW mm, NEW U, Counts(mm, U), NEW x \in Use, NEW f \in Frame, U[x] = f
  PROVE  Counts(Freed(mm, f), Put(U, x, 0))
  <1>0. mm[f] \in Nat /\ mm[f] >= 1
    BY CountUses DEF Counts
  <1>1. Freed(mm, f) \in [Frame -> Nat] /\ U \in [Use -> Frame \cup {0}]
    BY <1>0 DEF Counts, Freed
  <1>2. Put(U, x, 0) \in [Use -> Frame \cup {0}]
    BY <1>1, PutAt
  <1>3. \A g \in Frame : Count(Put(U, x, 0), g) = Count(U, g) + One(0 = g) - One(U[x] = g)
    BY <1>1, CountMove
  <1>4. \A g \in Frame : mm[g] = Count(U, g) /\ mm[g] \in Nat /\ g # 0
    BY Bounds DEF Counts
  <1>5. \A g \in Frame : Freed(mm, f)[g] = IF g = f THEN mm[g] - 1 ELSE mm[g]
    BY DEF Freed, Counts
  <1>6. \A g \in Frame : Freed(mm, f)[g] = Count(Put(U, x, 0), g)
    BY <1>3, <1>4, <1>5 DEF One
  <1> QED BY <1>1, <1>2, <1>6 DEF Counts

\* mem_map[MAP_NR(..)]++
LEMMA AddCount ==
  ASSUME NEW mm, NEW U, Counts(mm, U), NEW x \in Use, U[x] = 0, NEW f \in Frame,
         NEW nn \in [Frame -> Nat], \A g \in Frame : nn[g] = IF g = f THEN mm[g] + 1 ELSE mm[g]
  PROVE  Counts(nn, Put(U, x, f))
  <1>1. U \in [Use -> Frame \cup {0}]
    BY DEF Counts
  <1>2. Put(U, x, f) \in [Use -> Frame \cup {0}]
    BY <1>1, PutAt
  <1>3. \A g \in Frame : Count(Put(U, x, f), g) = Count(U, g) + One(f = g) - One(U[x] = g)
    BY <1>1, CountMove
  <1>4. \A g \in Frame : mm[g] = Count(U, g) /\ mm[g] \in Nat /\ g # 0
    BY Bounds DEF Counts
  <1>5. \A g \in Frame : nn[g] = Count(Put(U, x, f), g)
    BY <1>3, <1>4 DEF One
  <1> QED BY <1>1, <1>2, <1>5 DEF Counts

\* A frame that goes from one use to another
LEMMA HandOver ==
  ASSUME NEW mm, NEW U, Counts(mm, U), NEW x \in Use, NEW y \in Use, x # y, U[y] = 0,
         NEW f \in Frame, U[x] = f
  PROVE  Counts(mm, Put(Put(U, x, 0), y, f))
  <1>1. Counts(Freed(mm, f), Put(U, x, 0))
    BY FreedCount
  <1>2. mm \in [Frame -> Nat] /\ U \in [Use -> Frame \cup {0}]
    BY DEF Counts
  <1>3. Put(U, x, 0)[y] = 0
    BY <1>2, PutAt
  <1>4. \A g \in Frame : mm[g] = IF g = f THEN Freed(mm, f)[g] + 1 ELSE Freed(mm, f)[g]
    BY <1>2 DEF Freed
  <1> QED BY <1>1, <1>2, <1>3, <1>4, AddCount

\* Uses without the pages and tables of a process
Unmap(U, p) == [x \in Use |-> IF \E a \in Addr : x = PageOf(p, a) \/ x = TableOf(p, a) THEN 0 ELSE U[x]]

\* free_page_tables()
LEMMA UnmapCount ==
  ASSUME NEW mm, NEW U, Counts(mm, U), NEW p \in Proc,
         \A a \in Addr : U[PageOf(p, a)] = pte[p][a].f /\ U[TableOf(p, a)] = dir[p][a]
  PROVE  Counts(Unmapped(mm, p), Unmap(U, p))
  <1> DEFINE V == Unmap(U, p)
  <1>1. V \in [Use -> Frame \cup {0}]
    BY DEF Counts, Unmap
  <1>2. ASSUME NEW f \in Frame
        PROVE  /\ Count(U, f) = Count(V, f) + Refs(p, f) + Cardinality({a \in Addr : dir[p][a] = f})
               /\ Count(V, f) \in Nat /\ Refs(p, f) \in Nat
               /\ Cardinality({a \in Addr : dir[p][a] = f}) \in Nat
    <2> DEFINE A == {x \in Use : U[x] = f}
               B == {x \in Use : V[x] = f}
               P == {x \in Use : (\E a \in Addr : x = PageOf(p, a)) /\ U[x] = f}
               D == {x \in Use : (\E a \in Addr : x = TableOf(p, a)) /\ U[x] = f}
               S == {a \in Addr : pte[p][a].f = f}
               T == {a \in Addr : dir[p][a] = f}
    <2>0. f # 0
      BY Bounds
    <2>1. IsFiniteSet(S) /\ IsFiniteSet(T) /\ Cardinality(S) \in Nat /\ Cardinality(T) \in Nat
      BY FiniteAddr
    <2>2. IsFiniteSet(P) /\ Cardinality(P) = Cardinality(S)
      <3>1. \A a \in S : PageOf(p, a) \in P
        BY UseForms
      <3>2. \A x \in P : \E a \in S : x = PageOf(p, a)
        OBVIOUS
      <3> HIDE DEF S, P
      <3> QED BY <2>1, <3>1, <3>2, EntryCount
    <2>3. IsFiniteSet(D) /\ Cardinality(D) = Cardinality(T)
      <3>1. \A a \in T : TableOf(p, a) \in D
        BY UseForms
      <3>2. \A x \in D : \E a \in T : x = TableOf(p, a)
        OBVIOUS
      <3> HIDE DEF T, D
      <3> QED BY <2>1, <3>1, <3>2, TableCount
    <2>4. IsFiniteSet(B) /\ Cardinality(B) \in Nat
      BY CountNat DEF Count
    <2>5. A = (B \cup P) \cup D
      <3>1. \A x \in Use : V[x] = IF \E a \in Addr : x = PageOf(p, a) \/ x = TableOf(p, a) THEN 0 ELSE U[x]
        BY DEF Unmap
      <3> HIDE DEF V
      <3> QED BY <2>0, <3>1
    <2>6. B \cap P = {} /\ (B \cup P) \cap D = {}
      <3>1. \A x \in Use : (\E a \in Addr : x = PageOf(p, a) \/ x = TableOf(p, a)) => V[x] = 0
        BY DEF Unmap
      <3>2. \A x \in Use : ~((\E a \in Addr : x = PageOf(p, a)) /\ (\E a \in Addr : x = TableOf(p, a)))
        BY UseKinds
      <3> HIDE DEF V
      <3> QED BY <2>0, <3>1, <3>2
    <2> HIDE DEF A, B, P, D, S, T
    <2>7. IsFiniteSet(B \cup P) /\ Cardinality(B \cup P) = Cardinality(B) + Cardinality(P)
      BY <2>2, <2>4, <2>6, DisjointUnion
    <2>8. Cardinality(A) = Cardinality(B \cup P) + Cardinality(D)
      BY <2>3, <2>5, <2>6, <2>7, DisjointUnion
    <2>9. Cardinality(A) = Cardinality(B) + Cardinality(S) + Cardinality(T)
      BY <2>1, <2>2, <2>3, <2>4, <2>7, <2>8
    <2> QED BY <2>1, <2>4, <2>9 DEF Count, Refs, A, B, S, T
  <1>3. \A f \in Frame : Unmapped(mm, p)[f] = Count(V, f) /\ Count(V, f) \in Nat
    <2> TAKE f \in Frame
    <2> DEFINE r == Refs(p, f)
               t == Cardinality({a \in Addr : dir[p][a] = f})
               v == Count(V, f)
    <2>1. Unmapped(mm, p)[f] = mm[f] - r - t
      BY DEF Unmapped
    <2>2. mm[f] = Count(U, f)
      BY DEF Counts
    <2>3. Count(U, f) = v + r + t /\ v \in Nat /\ r \in Nat /\ t \in Nat
      BY <1>2
    <2> HIDE DEF r, t, v
    <2>4. Unmapped(mm, p)[f] = v
      BY <2>1, <2>2, <2>3
    <2> QED BY <2>3, <2>4 DEF v
  <1>4. Unmapped(mm, p) \in [Frame -> Nat]
    <2>1. Unmapped(mm, p) = [f \in Frame |-> Unmapped(mm, p)[f]]
      BY DEF Unmapped
    <2> QED BY <1>3, <2>1
  <1> QED BY <1>1, <1>3, <1>4 DEF Counts

-----------------------------------------------------------------------------
(* Free frames *)

\* The greatest of some frames
LEMMA MaxFrame ==
  ASSUME NEW S \in SUBSET Frame, S # {}
  PROVE  Max(S) \in S /\ \A x \in S : x <= Max(S)
  <1> DEFINE R == OpToRel(<, Nat)
             T == {NFrames - x : x \in S}
  <1> HIDE DEF R
  <1>1. NFrames \in Nat /\ \A x \in S : x \in Nat /\ x <= NFrames
    BY MemoryAssumption DEF Frame
  <1>a. \A x \in S : NFrames - x \in Nat
    BY <1>1
  <1>2. T \subseteq Nat /\ T # {}
    BY <1>a
  <1> USE DEF R
  <1>3. PICK u \in T : \A v \in T : ~(<<v, u>> \in R)
    BY <1>2, NatLessThanWellFounded, WFMin
  <1>4. PICK z \in S : u = NFrames - z
    OBVIOUS
  <1>5. \A y \in S : z >= y
    <2> TAKE y \in S
    <2>1. NFrames - y \in T
      OBVIOUS
    <2>2. ~(NFrames - y < u)
      BY <1>2, <1>3, <2>1, Zenon DEF OpToRel
    <2> QED BY <1>1, <1>4, <2>2
  <1>6. \E z1 \in S : \A y \in S : z1 >= y
    BY <1>5
  <1>7. Max(S) \in S /\ \A y \in S : Max(S) >= y
    BY <1>6 DEF Max
  <1> QED BY <1>1, <1>7

\* get_free_page() yields a free frame.
LEMMA LastFreeFree ==
  ASSUME NEW mm, HasFree(mm)
  PROVE  /\ LastFree(mm) \in Frame /\ mm[LastFree(mm)] = 0
         /\ \A g \in Free(mm) : g <= LastFree(mm)
  <1>1. Free(mm) \in SUBSET Frame /\ Free(mm) # {}
    BY DEF Free, HasFree
  <1>2. Max(Free(mm)) \in Free(mm) /\ \A x \in Free(mm) : x <= Max(Free(mm))
    BY <1>1, MaxFrame
  <1> QED BY <1>2 DEF Free, LastFree

\* Counted from the last, a finite set of frames has an n-th element for each n
\* that is not more than its size.
LEMMA NthExists ==
  ASSUME NEW S \in SUBSET Frame, NEW n \in 1 .. Cardinality(S)
  PROVE  \E f \in S : Cardinality({g \in S : g >= f}) = n
  <1> DEFINE N == Cardinality(S)
             Up(f) == {g \in S : g >= f}
             F == [f \in S |-> Cardinality(Up(f))]
  <1>1. IsFiniteSet(S) /\ N \in Nat
    BY FiniteAddr
  <1>2. \A f \in S : f \in Up(f) /\ Up(f) \in SUBSET S
    BY Bounds
  <1>3. \A f \in S : IsFiniteSet(Up(f)) /\ Cardinality(Up(f)) <= N /\ Cardinality(Up(f)) \in Nat
    BY <1>1, <1>2, FS_Subset, FS_CardinalityType
  <1>4. \A f \in S : Cardinality(Up(f)) # 0
    BY <1>2, <1>3, FS_EmptySet
  <1>5. F \in [S -> 1 .. N]
    BY <1>1, <1>3, <1>4
  <1>6. ASSUME NEW f \in S, NEW h \in S, f < h PROVE Cardinality(Up(f)) # Cardinality(Up(h))
    <2>1. f \in Nat /\ h \in Nat /\ \A g \in S : g \in Nat
      BY Bounds
    <2>a. \A g \in S : g >= h => g >= f
      BY <1>6, <2>1
    <2>b. f >= f /\ ~(f >= h)
      BY <1>6, <2>1
    <2>2. Up(h) \in SUBSET Up(f) /\ f \in Up(f) /\ f \notin Up(h)
      BY <2>a, <2>b
    <2>3. Up(f) # Up(h)
      BY <2>2
    <2>4. IsFiniteSet(Up(f))
      BY <1>3
    <2> HIDE DEF Up
    <2> QED BY <2>2, <2>3, <2>4, FS_Subset
  <1>7. \A f, h \in S : F[f] = F[h] => f = h
    <2> SUFFICES ASSUME NEW f \in S, NEW h \in S, f # h PROVE F[f] # F[h]
      OBVIOUS
    <2>1. f < h \/ h < f
      BY Bounds
    <2> QED BY <1>6, <2>1
  <1>8. F \in Injection(S, 1 .. N)
    BY <1>5, <1>7 DEF Injection, IsInjective
  <1>9. IsFiniteSet(1 .. N) /\ Cardinality(1 .. N) = N
    BY <1>1, FS_Interval
  <1>10. F \in Surjection(S, 1 .. N)
    <2> HIDE DEF F
    <2> QED BY <1>8, <1>9, FS_Injection
  <1>11. PICK f \in S : F[f] = n
    BY <1>10 DEF Surjection
  <1> QED BY <1>11

\* copy_page_tables() gets another free frame for each table, and none of them is
\* the child's task page.
LEMMA TableFrames ==
  ASSUME NEW p \in Proc, HasFree(mem_map), Copied(p) = Tables(p), NEW a \in Tables(p)
  PROVE  /\ TableFrame(p, a) \in Frame /\ mem_map[TableFrame(p, a)] = 0
         /\ TableFrame(p, a) # LastFree(mem_map)
         /\ \A b \in Tables(p) : TableFrame(p, b) = TableFrame(p, a) => b = a
  <1> DEFINE S == Free(mem_map)
             Below(b) == {d \in Tables(p) : d <= b}
             rank(b) == 1 + Cardinality(Below(b))
             Up(f) == {g \in S : g >= f}
  <1>1. S \in SUBSET Frame /\ S # {} /\ Cardinality(S) \in Nat /\ Tables(p) \subseteq Addr
    BY FiniteAddr DEF Free, HasFree, Tables
  <1>2. \A b \in Tables(p) : /\ Below(b) \in SUBSET Addr /\ b \in Below(b) /\ IsFiniteSet(Below(b))
                             /\ Cardinality(Below(b)) \in Nat
    <2> TAKE b \in Tables(p)
    <2>1. b \in Nat
      BY <1>1, Bounds
    <2>2. b <= b
      BY <2>1
    <2>3. Below(b) \in SUBSET Addr /\ b \in Below(b)
      BY <1>1, <2>2
    <2> HIDE DEF Below
    <2> QED BY <2>3, FiniteAddr
  <1>3. \A b \in Tables(p) : Cardinality(Below(b)) # 0
    BY <1>2, FS_EmptySet
  <1>4. \A b \in Tables(p) : rank(b) <= Cardinality(S)
    BY DEF Copied
  <1>5. \A b \in Tables(p) : rank(b) \in 2 .. Cardinality(S)
    <2> TAKE b \in Tables(p)
    <2> DEFINE k == Cardinality(Below(b))
               n == Cardinality(S)
    <2>1. k \in Nat /\ k # 0 /\ n \in Nat /\ 1 + k <= n
      BY <1>1, <1>2, <1>3, <1>4
    <2> HIDE DEF k, n
    <2>2. 1 + k \in 2 .. n
      BY <2>1
    <2> QED BY <2>2 DEF k, n
  <1>6. \A b \in Tables(p) : TableFrame(p, b) \in S /\ Cardinality(Up(TableFrame(p, b))) = rank(b)
    <2> TAKE b \in Tables(p)
    <2>1. rank(b) \in 1 .. Cardinality(S)
      BY <1>1, <1>5
    <2>2. \E f \in S : Cardinality({g \in S : g >= f}) = rank(b)
      BY <1>1, <2>1, NthExists
    <2>3. TableFrame(p, b) = CHOOSE f \in S : Cardinality({g \in S : g >= f}) = rank(b)
      BY DEF TableFrame, NthFree
    <2> HIDE DEF S, rank
    <2> QED BY <2>2, <2>3
  <1>7. ASSUME NEW b \in Tables(p), NEW d \in Tables(p), b < d PROVE rank(b) # rank(d)
    <2>1. b \in Nat /\ d \in Nat /\ \A g \in Tables(p) : g \in Nat
      BY <1>1, Bounds
    <2>a. \A g \in Tables(p) : g <= b => g <= d
      BY <1>7, <2>1
    <2>b. d <= d /\ ~(d <= b)
      BY <1>7, <2>1
    <2>2. Below(b) \in SUBSET Below(d) /\ d \in Below(d) /\ d \notin Below(b)
      BY <2>a, <2>b
    <2>3. Cardinality(Below(b)) # Cardinality(Below(d))
      <3>1. IsFiniteSet(Below(d)) /\ Below(b) # Below(d)
        BY <1>2, <2>2
      <3> HIDE DEF Below
      <3> QED BY <2>2, <3>1, FS_Subset
    <2>4. Cardinality(Below(b)) \in Nat /\ Cardinality(Below(d)) \in Nat
      BY <1>2
    <2> QED BY <2>3, <2>4
  <1>8. \A b \in Tables(p) : b # a => rank(b) # rank(a)
    <2> TAKE b \in Tables(p)
    <2>0. b \in Nat /\ a \in Nat
      BY <1>1, Bounds
    <2>1. b # a => b < a \/ a < b
      BY <2>0
    <2> QED BY <1>7, <2>1
  <1>9. Cardinality(Up(LastFree(mem_map))) = 1
    <2>1. /\ LastFree(mem_map) \in S /\ \A g \in S : g <= LastFree(mem_map)
      BY LastFreeFree DEF Free
    <2>a. \A g \in S : g \in Nat
      BY <1>1, Bounds
    <2>b. \A g \in S : g >= LastFree(mem_map) <=> g = LastFree(mem_map)
      BY <2>1, <2>a
    <2> HIDE DEF S
    <2>2. Up(LastFree(mem_map)) = {LastFree(mem_map)}
      BY <2>1, <2>b
    <2> HIDE DEF Up
    <2> QED BY <2>2, FS_Singleton
  <1> HIDE DEF rank, Up
  <1>10. TableFrame(p, a) # LastFree(mem_map)
    <2>1. rank(a) # 1
      BY <1>1, <1>5
    <2> QED BY <1>6, <1>9, <2>1
  <1>11. \A b \in Tables(p) : TableFrame(p, b) = TableFrame(p, a) => b = a
    BY <1>6, <1>8
  <1> QED BY <1>6, <1>10, <1>11 DEF Free

-----------------------------------------------------------------------------
(* Fork, and what is shared *)

\* Two mappings that agree on every kind of use are the same.
LEMMA SameUses ==
  ASSUME NEW U \in [Use -> Frame \cup {0}], NEW V, V = [x \in Use |-> V[x]],
         \A p \in Proc, a \in Addr : U[PageOf(p, a)] = V[PageOf(p, a)] /\ U[TableOf(p, a)] = V[TableOf(p, a)],
         \A p \in Proc : U[TaskOf(p)] = V[TaskOf(p)] /\ U[LoadOf(p)] = V[LoadOf(p)] /\ U[ArgsOf(p)] = V[ArgsOf(p)]
  PROVE  U = V
  <1>1. \A x \in Use : U[x] = V[x]
    BY UseForms
  <1>2. U = [x \in Use |-> U[x]]
    OBVIOUS
  <1> QED BY <1>1, <1>2

\* The child's entries are those of its father.
Copy(U, p, c) == [x \in Use |-> IF \E a \in Addr : x = PageOf(c, a) THEN U[PageOf(p, x[3])] ELSE U[x]]

\* What Copy does
LEMMA CopyAt ==
  ASSUME NEW U \in [Use -> Frame \cup {0}], NEW p \in Proc, NEW c \in Proc
  PROVE  /\ Copy(U, p, c) \in [Use -> Frame \cup {0}]
         /\ \A a \in Addr : Copy(U, p, c)[PageOf(c, a)] = U[PageOf(p, a)]
         /\ \A x \in Use : (\A a \in Addr : x # PageOf(c, a)) => Copy(U, p, c)[x] = U[x]
  <1>1. \A a \in Addr : PageOf(c, a)[3] = a
    BY DEF PageOf
  <1>2. \A a \in Addr : PageOf(c, a) \in Use /\ PageOf(p, a) \in Use
    BY UseForms
  <1> QED BY <1>1, <1>2 DEF Copy

\* copy_page_tables() counts the pages once more.
LEMMA CopyCount ==
  ASSUME NEW mm, NEW U, Counts(mm, U), NEW p \in Proc, NEW c \in Proc, NEW nn,
         \A a \in Addr : U[PageOf(p, a)] = pte[p][a].f /\ U[PageOf(c, a)] = 0,
         nn = [f \in Frame |-> mm[f] + Refs(p, f)]
  PROVE  Counts(nn, Copy(U, p, c))
  <1> DEFINE V == Copy(U, p, c)
  <1>0. U \in [Use -> Frame \cup {0}] /\ mm \in [Frame -> Nat]
    BY DEF Counts
  <1>1. /\ V \in [Use -> Frame \cup {0}]
        /\ \A a \in Addr : V[PageOf(c, a)] = U[PageOf(p, a)]
        /\ \A x \in Use : (\A a \in Addr : x # PageOf(c, a)) => V[x] = U[x]
    BY <1>0, CopyAt
  <1> HIDE DEF V
  <1>2. ASSUME NEW f \in Frame
        PROVE  Count(V, f) = Count(U, f) + Refs(p, f) /\ Refs(p, f) \in Nat
    <2> DEFINE A == {x \in Use : U[x] = f}
               B == {x \in Use : V[x] = f}
               P == {x \in Use : (\E a \in Addr : x = PageOf(c, a)) /\ V[x] = f}
               S == {a \in Addr : pte[p][a].f = f}
    <2>0. f # 0
      BY Bounds
    <2>1. IsFiniteSet(S) /\ Cardinality(S) \in Nat
      BY FiniteAddr
    <2>2. IsFiniteSet(P) /\ Cardinality(P) = Cardinality(S)
      <3>1. \A a \in S : PageOf(c, a) \in P
        BY <1>1, UseForms
      <3>2. \A x \in P : \E a \in S : x = PageOf(c, a)
        BY <1>1
      <3> HIDE DEF S, P
      <3> QED BY <2>1, <3>1, <3>2, EntryCount
    <2>3. IsFiniteSet(A)
      BY CountNat
    <2>4. B = A \cup P /\ A \cap P = {}
      BY <1>1, <2>0
    <2> HIDE DEF A, B, P, S
    <2>5. Cardinality(B) = Cardinality(A) + Cardinality(S)
      BY <2>2, <2>3, <2>4, DisjointUnion
    <2> QED BY <2>1, <2>5 DEF Count, Refs, A, B, S
  <1>3. \A f \in Frame : nn[f] = Count(V, f) /\ nn[f] \in Nat
    <2> TAKE f \in Frame
    <2>1. nn[f] = mm[f] + Refs(p, f) /\ mm[f] \in Nat /\ mm[f] = Count(U, f)
      BY <1>0 DEF Counts
    <2> QED BY <1>2, <2>1
  <1>4. nn \in [Frame -> Nat]
    BY <1>3
  <1> QED BY <1>1, <1>3, <1>4 DEF Counts, V

\* Frames that were free get one use each.
LEMMA NewCount ==
  ASSUME NEW mm, NEW U, Counts(mm, U), NEW N \in SUBSET Frame, NEW V \in [Use -> Frame \cup {0}],
         NEW nn, nn = [f \in Frame |-> IF f \in N THEN 1 ELSE mm[f]],
         \A f \in N : \E x \in Use : V[x] = f /\ \A y \in Use : V[y] = f => y = x,
         \A f \in Frame \ N : \A x \in Use : V[x] = f <=> U[x] = f
  PROVE  Counts(nn, V)
  <1>1. ASSUME NEW f \in Frame PROVE nn[f] = Count(V, f)
    <2> DEFINE B == {x \in Use : V[x] = f}
    <2>1. CASE f \in N
      <3>1. PICK x \in Use : V[x] = f /\ \A y \in Use : V[y] = f => y = x
        BY <2>1
      <3>2. B = {x}
        BY <3>1
      <3>3. Cardinality(B) = 1
        BY <3>2, FS_Singleton
      <3> QED BY <2>1, <3>3 DEF Count
    <2>2. CASE f \notin N
      <3>1. B = {x \in Use : U[x] = f}
        BY <2>2
      <3> QED BY <2>2, <3>1 DEF Count, Counts
    <2> QED BY <2>1, <2>2
  <1>2. nn \in [Frame -> Nat]
    BY DEF Counts
  <1> QED BY <1>1, <1>2 DEF Counts

\* Uses that have a frame in common had it before, and no entry becomes writable
\* while its frame stays.
LEMMA SharedStays ==
  ASSUME NEW U, NEW pt, Shared(U, pt), NEW V, NEW qt,
         \A x, y \in Use : x # y /\ V[x] = V[y] /\ V[x] # 0 => U[x] = V[x] /\ U[y] = V[y],
         \A p \in Proc, a \in Addr : U[PageOf(p, a)] = V[PageOf(p, a)] /\ qt[p][a].w => pt[p][a].w
  PROVE  Shared(V, qt)
  BY DEF Shared

\* Entries become protected, or stay as they are.
LEMMA SharedSame ==
  ASSUME NEW U, NEW pt, Shared(U, pt), NEW qt, \A p \in Proc, a \in Addr : qt[p][a].w => pt[p][a].w
  PROVE  Shared(U, qt)
  BY DEF Shared

\* An entry may become writable when it is the only use of its frame.
LEMMA SharedSole ==
  ASSUME NEW U, NEW pt, Shared(U, pt), NEW qt, NEW p \in Proc, NEW a \in Addr,
         \A y \in Use : U[y] = U[PageOf(p, a)] => y = PageOf(p, a),
         \A q \in Proc, b \in Addr : PageOf(q, b) # PageOf(p, a) /\ qt[q][b].w => pt[q][b].w
  PROVE  Shared(U, qt)
  BY DEF Shared

\* An entry may join another for the same address when both are protected.
LEMMA SharedJoin ==
  ASSUME NEW U \in [Use -> Frame \cup {0}], NEW pt, Shared(U, pt), NEW qt,
         NEW p \in Proc, NEW q \in Proc, NEW a \in Addr, NEW f \in Frame,
         U[PageOf(p, a)] = 0, U[PageOf(q, a)] = f, ~qt[p][a].w, ~qt[q][a].w,
         \A r \in Proc, b \in Addr : qt[r][b].w => pt[r][b].w
  PROVE  Shared(Put(U, PageOf(p, a), f), qt)
  <1> DEFINE V == Put(U, PageOf(p, a), f)
  <1>0. PageOf(p, a) \in Use /\ PageOf(q, a) \in Use
    BY UseForms
  <1>1. V[PageOf(p, a)] = f /\ \A y \in Use : y # PageOf(p, a) => V[y] = U[y]
    BY <1>0, PutAt
  <1> HIDE DEF V
  <1>2. ASSUME NEW x \in Use, U[x] = f
        PROVE  \E r \in Proc : x = PageOf(r, a) /\ ~qt[r][a].w
    <2>1. CASE x = PageOf(q, a)
      BY <2>1
    <2>2. CASE x # PageOf(q, a)
      <3>1. f # 0
        BY Bounds
      <3>2. PICK r \in Proc, s \in Proc, b \in Addr :
              x = PageOf(r, b) /\ PageOf(q, a) = PageOf(s, b) /\ ~pt[r][b].w
        BY <1>0, <1>2, <2>2, <3>1 DEF Shared
      <3>3. b = a
        BY <3>2, UseKinds
      <3> QED BY <3>2, <3>3
    <2> QED BY <2>1, <2>2
  <1>3. ASSUME NEW x \in Use, NEW y \in Use, x # y, V[x] = V[y], V[x] # 0
        PROVE  \E r, s \in Proc, b \in Addr : x = PageOf(r, b) /\ y = PageOf(s, b) /\ ~qt[r][b].w
    <2>1. CASE x = PageOf(p, a)
      BY <1>1, <1>2, <1>3, <2>1
    <2>2. CASE y = PageOf(p, a)
      BY <1>1, <1>2, <1>3, <2>2
    <2>3. CASE x # PageOf(p, a) /\ y # PageOf(p, a)
      BY <1>1, <1>3, <2>3 DEF Shared
    <2> QED BY <2>1, <2>2, <2>3
  <1> QED BY <1>3 DEF Shared, V

\* The same for all entries of a child
LEMMA SharedCopy ==
  ASSUME NEW U \in [Use -> Frame \cup {0}], NEW pt, Shared(U, pt), NEW qt,
         NEW p \in Proc, NEW c \in Proc, p # c,
         \A a \in Addr : U[PageOf(c, a)] = 0,
         \A a \in Addr : U[PageOf(p, a)] # 0 => ~qt[p][a].w /\ ~qt[c][a].w,
         \A r \in Proc, b \in Addr : r # c /\ qt[r][b].w => pt[r][b].w
  PROVE  Shared(Copy(U, p, c), qt)
  <1> DEFINE V == Copy(U, p, c)
  <1>1. /\ \A a \in Addr : V[PageOf(c, a)] = U[PageOf(p, a)]
        /\ \A x \in Use : (\A a \in Addr : x # PageOf(c, a)) => V[x] = U[x]
    BY CopyAt
  <1> HIDE DEF V
  <1>2. ASSUME NEW x \in Use, NEW a \in Addr, U[x] = U[PageOf(p, a)], U[x] # 0
        PROVE  \E r \in Proc : x = PageOf(r, a) /\ ~qt[r][a].w
    <2>1. CASE x = PageOf(p, a)
      BY <1>2, <2>1
    <2>2. CASE x # PageOf(p, a)
      <3>2. PICK r \in Proc, s \in Proc, b \in Addr :
              x = PageOf(r, b) /\ PageOf(p, a) = PageOf(s, b) /\ ~pt[r][b].w
        BY <1>2, <2>2, UseForms DEF Shared
      <3>3. b = a
        BY <3>2, UseKinds
      <3>4. r # c
        BY <1>2, <3>2
      <3> QED BY <3>2, <3>3, <3>4
    <2> QED BY <2>1, <2>2
  <1>3. ASSUME NEW x \in Use, NEW y \in Use, x # y, V[x] = V[y], V[x] # 0
        PROVE  \E r, s \in Proc, b \in Addr : x = PageOf(r, b) /\ y = PageOf(s, b) /\ ~qt[r][b].w
    <2>1. CASE (\E a \in Addr : x = PageOf(c, a)) /\ (\E a \in Addr : y = PageOf(c, a))
      <3>1. PICK a \in Addr, b \in Addr : x = PageOf(c, a) /\ y = PageOf(c, b)
        BY <2>1
      <3>2. U[PageOf(p, a)] = U[PageOf(p, b)] /\ U[PageOf(p, a)] # 0
        BY <1>1, <1>3, <3>1
      <3>3. PICK r \in Proc : PageOf(p, a) = PageOf(r, b)
        BY <1>2, <3>2, UseForms
      <3>4. a = b
        BY <3>3, UseKinds
      <3> QED BY <1>3, <3>1, <3>4
    <2>2. CASE (\E a \in Addr : x = PageOf(c, a)) /\ ~(\E a \in Addr : y = PageOf(c, a))
      <3>1. PICK a \in Addr : x = PageOf(c, a)
        BY <2>2
      <3>2. U[y] = U[PageOf(p, a)] /\ U[y] # 0
        BY <1>1, <1>3, <2>2, <3>1
      <3>3. PICK r \in Proc : y = PageOf(r, a)
        BY <1>2, <3>2
      <3>4. ~qt[c][a].w
        BY <3>2
      <3> QED BY <3>1, <3>3, <3>4
    <2>3. CASE ~(\E a \in Addr : x = PageOf(c, a)) /\ (\E a \in Addr : y = PageOf(c, a))
      <3>1. PICK a \in Addr : y = PageOf(c, a)
        BY <2>3
      <3>2. U[x] = U[PageOf(p, a)] /\ U[x] # 0
        BY <1>1, <1>3, <2>3, <3>1
      <3> QED BY <1>2, <3>1, <3>2
    <2>4. CASE ~(\E a \in Addr : x = PageOf(c, a)) /\ ~(\E a \in Addr : y = PageOf(c, a))
      <3>1. U[x] = U[y] /\ U[x] # 0
        BY <1>1, <1>3, <2>4
      <3>2. PICK r \in Proc, s \in Proc, b \in Addr :
              x = PageOf(r, b) /\ y = PageOf(s, b) /\ ~pt[r][b].w
        BY <1>3, <3>1 DEF Shared
      <3>3. r # c
        BY <2>4, <3>2
      <3> QED BY <3>2, <3>3
    <2> QED BY <2>1, <2>2, <2>3, <2>4
  <1> QED BY <1>3 DEF Shared, V

-----------------------------------------------------------------------------
(* The invariant in each state *)

\* The frame of each use, now
LEMMA UsesNow ==
  /\ \A p \in Proc, a \in Addr : Uses[PageOf(p, a)] = pte[p][a].f /\ Uses[TableOf(p, a)] = dir[p][a]
  /\ \A p \in Proc : Uses[TaskOf(p)] = taskPage[p] /\ Uses[LoadOf(p)] = loading[p].f
                     /\ Uses[ArgsOf(p)] = args[p]
  BY UsesAt DEF Uses

\* ... and after a step
LEMMA UsesNext ==
  /\ \A p \in Proc, a \in Addr : Uses'[PageOf(p, a)] = pte'[p][a].f /\ Uses'[TableOf(p, a)] = dir'[p][a]
  /\ \A p \in Proc : Uses'[TaskOf(p)] = taskPage'[p] /\ Uses'[LoadOf(p)] = loading'[p].f
                     /\ Uses'[ArgsOf(p)] = args'[p]
  BY UsesAt DEF Uses

\* Uses is a function, also after a step.
LEMMA UsesFunction == Uses' = [x \in Use |-> Uses'[x]]
  BY UsesAt DEF Uses

\* Nothing refers to a free frame.
LEMMA FreeUnused ==
  ASSUME IInv, NEW g \in Frame, mem_map[g] = 0
  PROVE  /\ \A x \in Use : Uses[x] # g
         /\ \A p \in Proc : /\ \A a \in Addr : pte[p][a].f # g /\ dir[p][a] # g
                            /\ taskPage[p] # g /\ loading[p].f # g /\ args[p] # g
  <1>1. \A x \in Use : Uses[x] # g
    BY CountUses DEF IInv, Counted
  <1>2. ASSUME NEW p \in Proc, NEW a \in Addr PROVE pte[p][a].f # g /\ dir[p][a] # g
    <2>1. PageOf(p, a) \in Use /\ TableOf(p, a) \in Use
      BY UseForms
    <2>2. Uses[PageOf(p, a)] # g /\ Uses[TableOf(p, a)] # g
      BY <1>1, <2>1
    <2> QED BY <2>2, UsesNow
  <1>3. ASSUME NEW p \in Proc PROVE taskPage[p] # g /\ loading[p].f # g /\ args[p] # g
    <2>1. TaskOf(p) \in Use /\ LoadOf(p) \in Use /\ ArgsOf(p) \in Use
      BY UseForms
    <2>2. Uses[TaskOf(p)] # g /\ Uses[LoadOf(p)] # g /\ Uses[ArgsOf(p)] # g
      BY <1>1, <2>1
    <2> QED BY <2>2, UsesNow
  <1> QED BY <1>1, <1>2, <1>3

\* Only entries share a frame.
LEMMA OneUse ==
  ASSUME IInv, NEW x \in Use, Uses[x] # 0, Kind(x) # "page"
  PROVE  \A y \in Use : Uses[y] = Uses[x] => y = x
  <1> SUFFICES ASSUME NEW y \in Use, Uses[y] = Uses[x], y # x PROVE FALSE
    OBVIOUS
  <1>1. \E p, q \in Proc, a \in Addr : x = PageOf(p, a)
    BY DEF IInv, Sharing, Shared
  <1> QED BY <1>1, UseKinds

\* Entries that share a frame are for the same address.
LEMMA SameAddress ==
  ASSUME IInv, NEW p \in Proc, NEW a \in Addr, NEW q \in Proc, NEW b \in Addr,
         pte[p][a].f = pte[q][b].f, pte[p][a].f # 0, <<p, a>> # <<q, b>>
  PROVE  a = b /\ ~pte[p][a].w /\ ~pte[q][b].w
  <1>1. PageOf(p, a) \in Use /\ PageOf(q, b) \in Use /\ PageOf(p, a) # PageOf(q, b)
    BY UseForms, UseKinds
  <1>2. Uses[PageOf(p, a)] = Uses[PageOf(q, b)] /\ Uses[PageOf(p, a)] # 0
    BY UsesNow
  <1>3. PICK r \in Proc, s \in Proc, d \in Addr :
          PageOf(p, a) = PageOf(r, d) /\ PageOf(q, b) = PageOf(s, d) /\ ~pte[r][d].w
    BY <1>1, <1>2 DEF IInv, Sharing, Shared
  <1>4. PICK r1 \in Proc, s1 \in Proc, d1 \in Addr :
          PageOf(q, b) = PageOf(r1, d1) /\ PageOf(p, a) = PageOf(s1, d1) /\ ~pte[r1][d1].w
    BY <1>1, <1>2 DEF IInv, Sharing, Shared
  <1>5. r = p /\ d = a /\ s = q /\ d = b
    BY <1>3, UseKinds
  <1>6. r1 = q /\ d1 = b
    BY <1>4, UseKinds
  <1> QED BY <1>3, <1>4, <1>5, <1>6

\* An entry that is present has a frame.
LEMMA EntryFrame ==
  ASSUME NEW e \in Pte \cup {NoPte}
  PROVE  e # NoPte <=> e.f # 0
  <1>1. e \in Pte => e.f \in Frame
    BY DEF Pte
  <1>2. NoPte.f = 0 /\ \A f \in Frame : f # 0
    BY Bounds DEF NoPte
  <1> QED BY <1>1, <1>2

\* The entries of a process
LEMMA PresentFrame ==
  ASSUME TypeOK, NEW p \in Proc, NEW a \in Addr
  PROVE  /\ Present(p, a) => pte[p][a].f \in Frame /\ pte[p][a] \in Pte
         /\ ~Present(p, a) => pte[p][a] = NoPte /\ pte[p][a].f = 0
         /\ Present(p, a) <=> pte[p][a].f # 0
  <1>1. pte[p][a] \in Pte \cup {NoPte}
    BY DEF TypeOK
  <1>2. pte[p][a] \in Pte => pte[p][a].f \in Frame
    BY DEF Pte
  <1>3. NoPte.f = 0
    BY DEF NoPte
  <1>4. \A f \in Frame : f # 0
    BY Bounds
  <1> QED BY <1>1, <1>2, <1>3, <1>4, Zenon DEF Present

\* What may be stored in the fields
LEMMA Fields ==
  /\ 0 \in Val /\ \A x \in Program : Text(x) \in {Text(y) : y \in Program}
  /\ NoPte.f = 0 /\ NoPte.w = FALSE /\ NoPte.d = FALSE /\ NoLoad.f = 0 /\ NoLoad.a = 0
  /\ \A a \in Exec, f \in Frame : [a |-> a, f |-> f] # NoLoad
  /\ \A v \in Val, p \in Proc, q \in Proc \cup Addr \cup {0} :
       \A o \in {"none", "write", "fork", "exec", "exit"} :
         Event(o, p, q, v) \in [op : {"none", "write", "fork", "exec", "exit"}, p : Proc \cup {0},
                                q : Proc \cup Addr \cup {0}, v : Val]
  /\ None \in [op : {"none", "write", "fork", "exec", "exit"}, p : Proc \cup {0},
               q : Proc \cup Addr \cup {0}, v : Val]
  BY MemoryAssumption, Bounds DEF NoPte, NoLoad, Event, None

\* A process that a step does not touch
LEMMA SameProc ==
  ASSUME IInv, NEW q \in Proc,
         pte'[q] = pte[q], dir'[q] = dir[q], taskPage'[q] = taskPage[q], exe'[q] = exe[q],
         loading'[q] = loading[q], verified'[q] = verified[q], args'[q] = args[q],
         args[q] # 0 => content'[args[q]] = content[args[q]]
  PROVE  ProcOK(q)'
  <1>1. ProcOK(q)
    BY DEF IInv, Procs
  <1> QED BY <1>1 DEF ProcOK, Present, Tables

-----------------------------------------------------------------------------
(* Exit *)

\* Nothing changes when a process that loads nothing stops loading.
LEMMA NotLoading ==
  ASSUME IInv, NEW p \in Proc, loading[p] = NoLoad
  PROVE  Counts(mem_map, Put(Uses, LoadOf(p), 0))
  <1>1. Uses \in [Use -> Frame \cup {0}]
    BY DEF IInv, Counted, Counts
  <1>2. LoadOf(p) \in Use /\ Uses[LoadOf(p)] = 0
    BY UseForms, UsesNow, Fields
  <1>3. Put(Uses, LoadOf(p), 0) = Uses
    BY <1>1, <1>2 DEF Put
  <1> QED BY <1>3 DEF IInv, Counted

\* do_exit(), also from a page fault that finds no memory
LEMMA ExitKeeps ==
  ASSUME IInv, NEW p \in Proc, args[p] = 0, NEW mm, Counts(mm, Put(Uses, LoadOf(p), 0)), DoExit(p, mm)
  PROVE  IInv'
  <1> DEFINE V == Put(Uses, LoadOf(p), 0)
             X == Unmap(V, p)
  <1>0. Uses \in [Use -> Frame \cup {0}] /\ LoadOf(p) \in Use /\ 0 \in Frame \cup {0}
    BY UseForms DEF IInv, Counted, Counts
  <1>1. V[LoadOf(p)] = 0 /\ \A y \in Use : y # LoadOf(p) => V[y] = Uses[y]
    BY <1>0, PutAt
  <1>2. \A a \in Addr : V[PageOf(p, a)] = pte[p][a].f /\ V[TableOf(p, a)] = dir[p][a]
    <2> TAKE a \in Addr
    <2>1. PageOf(p, a) \in Use /\ TableOf(p, a) \in Use
      BY UseForms
    <2>2. PageOf(p, a) # LoadOf(p) /\ TableOf(p, a) # LoadOf(p)
      BY UseKinds
    <2> QED BY <1>1, <2>1, <2>2, UsesNow
  <1>3. Counts(Unmapped(mm, p), X)
    BY <1>2, UnmapCount
  <1>4. X \in [Use -> Frame \cup {0}]
    BY <1>3 DEF Counts
  <1>5. \A x \in Use : X[x] = IF \E a \in Addr : x = PageOf(p, a) \/ x = TableOf(p, a) THEN 0 ELSE V[x]
    BY DEF Unmap
  <1> HIDE DEF V, X
  <1>6. /\ pte' \in [Proc -> [Addr -> Pte \cup {NoPte}]] /\ dir' \in [Proc -> [Addr -> Frame \cup {0}]]
        /\ \A a \in Addr : pte'[p][a] = NoPte /\ dir'[p][a] = 0
        /\ \A q \in Proc : q # p => pte'[q] = pte[q] /\ dir'[q] = dir[q]
    BY DEF IInv, TypeOK, DoExit, Empty, NoTables
  <1>7. /\ loading' \in [Proc -> [a : Exec, f : Frame] \cup {NoLoad}] /\ loading'[p] = NoLoad
        /\ exe' \in [Proc -> Program \cup {"none"}] /\ exe'[p] = "none"
        /\ verified' \in [Proc -> Addr \cup {0}] /\ verified'[p] = 0
        /\ \A q \in Proc : q # p => loading'[q] = loading[q] /\ exe'[q] = exe[q] /\ verified'[q] = verified[q]
    BY DEF IInv, TypeOK, DoExit
  <1>8. taskPage' = taskPage /\ args' = args /\ content' = content /\ mem_map' = Unmapped(mm, p)
    BY DEF DoExit
  <1>9. Uses' = X
    <2>1. ASSUME NEW q \in Proc, NEW a \in Addr
          PROVE  X[PageOf(q, a)] = Uses'[PageOf(q, a)] /\ X[TableOf(q, a)] = Uses'[TableOf(q, a)]
      <3>0. Uses'[PageOf(q, a)] = pte'[q][a].f /\ Uses'[TableOf(q, a)] = dir'[q][a]
        BY UsesNext
      <3>1. PageOf(q, a) \in Use /\ TableOf(q, a) \in Use
        BY UseForms
      <3>2. PageOf(q, a) # LoadOf(p) /\ TableOf(q, a) # LoadOf(p)
        BY UseKinds
      <3>3. CASE q = p
        BY <1>5, <1>6, <3>0, <3>1, <3>3, Fields
      <3>4. CASE q # p
        <4>1. \A b \in Addr : /\ PageOf(q, a) # PageOf(p, b) /\ PageOf(q, a) # TableOf(p, b)
                              /\ TableOf(q, a) # PageOf(p, b) /\ TableOf(q, a) # TableOf(p, b)
          BY <3>4, UseKinds
        <4>2. X[PageOf(q, a)] = Uses[PageOf(q, a)] /\ X[TableOf(q, a)] = Uses[TableOf(q, a)]
          BY <1>1, <1>5, <3>1, <3>2, <4>1
        <4>3. Uses[PageOf(q, a)] = pte[q][a].f /\ Uses[TableOf(q, a)] = dir[q][a]
          BY UsesNow
        <4> QED BY <1>6, <3>0, <3>4, <4>2, <4>3
      <3> QED BY <3>3, <3>4
    <2>2. ASSUME NEW q \in Proc
          PROVE  /\ X[TaskOf(q)] = Uses'[TaskOf(q)] /\ X[LoadOf(q)] = Uses'[LoadOf(q)]
                 /\ X[ArgsOf(q)] = Uses'[ArgsOf(q)]
      <3>1. TaskOf(q) \in Use /\ LoadOf(q) \in Use /\ ArgsOf(q) \in Use
        BY UseForms
      <3>2. /\ TaskOf(q) # LoadOf(p) /\ ArgsOf(q) # LoadOf(p) /\ (q # p => LoadOf(q) # LoadOf(p))
            /\ \A b \in Addr : /\ TaskOf(q) # PageOf(p, b) /\ TaskOf(q) # TableOf(p, b)
                               /\ LoadOf(q) # PageOf(p, b) /\ LoadOf(q) # TableOf(p, b)
                               /\ ArgsOf(q) # PageOf(p, b) /\ ArgsOf(q) # TableOf(p, b)
        BY UseKinds
      <3>3. X[TaskOf(q)] = Uses[TaskOf(q)] /\ X[ArgsOf(q)] = Uses[ArgsOf(q)] /\ X[LoadOf(q)] = V[LoadOf(q)]
        BY <1>1, <1>5, <3>1, <3>2
      <3>4. X[LoadOf(q)] = loading'[q].f
        <4>1. Uses[LoadOf(q)] = loading[q].f
          BY UsesNow
        <4>2. CASE q = p
          BY <1>1, <1>7, <3>3, <4>2, Fields
        <4>3. CASE q # p
          BY <1>1, <1>7, <3>1, <3>2, <3>3, <4>1, <4>3
        <4> QED BY <4>2, <4>3
      <3> QED BY <1>8, <3>3, <3>4, UsesNow, UsesNext
    <2> QED BY <1>4, <2>1, <2>2, SameUses, UsesFunction
  <1>10. Counted'
    BY <1>3, <1>8, <1>9 DEF Counted
  <1>11. Sharing'
    <2>1. \A x \in Use : X[x] # 0 => Uses[x] = X[x]
      BY <1>1, <1>5
    <2>2. ASSUME NEW q \in Proc, NEW a \in Addr, Uses[PageOf(q, a)] = X[PageOf(q, a)], pte'[q][a].w
          PROVE  pte[q][a].w
      <3>1. q # p
        BY <1>6, <2>2, Fields
      <3> QED BY <1>6, <2>2, <3>1
    <2>3. Shared(X, pte')
      <3>1. Shared(Uses, pte)
        BY DEF IInv, Sharing
      <3> QED BY <2>1, <2>2, <3>1, SharedStays
    <2> QED BY <1>9, <2>3 DEF Sharing
  <1>12. TypeOK'
    <2>1. mem_map' \in [Frame -> Nat]
      BY <1>10 DEF Counted, Counts
    <2>2. event' \in [op : {"none", "write", "fork", "exec", "exit"}, p : Proc \cup {0},
                      q : Proc \cup Addr \cup {0}, v : Val]
      BY Fields DEF DoExit
    <2> QED BY <1>6, <1>7, <1>8, <2>1, <2>2 DEF IInv, TypeOK
  <1>13. ASSUME NEW q \in Proc PROVE ProcOK(q)'
    <2>1. CASE q = p
      <3>1. \A a \in Addr : ~Present(p, a)'
        BY <1>6 DEF Present
      <3>2. dir'[p] = NoTables
        BY <1>6 DEF IInv, TypeOK, DoExit
      <3> QED BY <1>7, <1>8, <2>1, <3>1, <3>2, Bounds DEF ProcOK
    <2>2. CASE q # p
      <3>1. /\ pte'[q] = pte[q] /\ dir'[q] = dir[q] /\ loading'[q] = loading[q] /\ exe'[q] = exe[q]
            /\ verified'[q] = verified[q] /\ taskPage'[q] = taskPage[q] /\ args'[q] = args[q]
            /\ content' = content
        BY <1>6, <1>7, <1>8, <2>2
      <3> QED BY <3>1, SameProc
    <2> QED BY <2>1, <2>2
  <1> QED BY <1>10, <1>11, <1>12, <1>13 DEF IInv, Procs

\* The mapping after a step, use by use
LEMMA NextUses ==
  ASSUME NEW X \in [Use -> Frame \cup {0}],
         \A q \in Proc, a \in Addr : X[PageOf(q, a)] = pte'[q][a].f /\ X[TableOf(q, a)] = dir'[q][a],
         \A q \in Proc : X[TaskOf(q)] = taskPage'[q] /\ X[LoadOf(q)] = loading'[q].f /\ X[ArgsOf(q)] = args'[q]
  PROVE  Uses' = X
  <1>1. \A q \in Proc, a \in Addr :
          X[PageOf(q, a)] = Uses'[PageOf(q, a)] /\ X[TableOf(q, a)] = Uses'[TableOf(q, a)]
    BY UsesNext
  <1>2. \A q \in Proc : /\ X[TaskOf(q)] = Uses'[TaskOf(q)] /\ X[LoadOf(q)] = Uses'[LoadOf(q)]
                        /\ X[ArgsOf(q)] = Uses'[ArgsOf(q)]
    BY UsesNext
  <1> QED BY <1>1, <1>2, SameUses, UsesFunction

\* One use changes: the uses of the other kinds, processes and addresses stay.
LEMMA PutUses ==
  ASSUME NEW U \in [Use -> Frame \cup {0}], NEW p \in Proc, NEW f \in Frame \cup {0}
  PROVE  /\ \A q \in Proc, b \in Addr : /\ Put(U, TaskOf(p), f)[PageOf(q, b)] = U[PageOf(q, b)]
                                        /\ Put(U, TaskOf(p), f)[TableOf(q, b)] = U[TableOf(q, b)]
                                        /\ Put(U, LoadOf(p), f)[PageOf(q, b)] = U[PageOf(q, b)]
                                        /\ Put(U, LoadOf(p), f)[TableOf(q, b)] = U[TableOf(q, b)]
                                        /\ Put(U, ArgsOf(p), f)[PageOf(q, b)] = U[PageOf(q, b)]
                                        /\ Put(U, ArgsOf(p), f)[TableOf(q, b)] = U[TableOf(q, b)]
         /\ \A q \in Proc : /\ Put(U, TaskOf(p), f)[TaskOf(q)] = IF q = p THEN f ELSE U[TaskOf(q)]
                            /\ Put(U, TaskOf(p), f)[LoadOf(q)] = U[LoadOf(q)]
                            /\ Put(U, TaskOf(p), f)[ArgsOf(q)] = U[ArgsOf(q)]
                            /\ Put(U, LoadOf(p), f)[TaskOf(q)] = U[TaskOf(q)]
                            /\ Put(U, LoadOf(p), f)[LoadOf(q)] = IF q = p THEN f ELSE U[LoadOf(q)]
                            /\ Put(U, LoadOf(p), f)[ArgsOf(q)] = U[ArgsOf(q)]
                            /\ Put(U, ArgsOf(p), f)[TaskOf(q)] = U[TaskOf(q)]
                            /\ Put(U, ArgsOf(p), f)[LoadOf(q)] = U[LoadOf(q)]
                            /\ Put(U, ArgsOf(p), f)[ArgsOf(q)] = IF q = p THEN f ELSE U[ArgsOf(q)]
  <1>1. \A x, y \in Use : /\ x = y => Put(U, x, f)[y] = f
                          /\ x # y => Put(U, x, f)[y] = U[y]
    BY PutAt
  <1>2. TaskOf(p) \in Use /\ LoadOf(p) \in Use /\ ArgsOf(p) \in Use
    BY UseForms
  <1>3. ASSUME NEW q \in Proc, NEW b \in Addr
        PROVE  /\ PageOf(q, b) \in Use /\ TableOf(q, b) \in Use
               /\ TaskOf(p) # PageOf(q, b) /\ TaskOf(p) # TableOf(q, b)
               /\ LoadOf(p) # PageOf(q, b) /\ LoadOf(p) # TableOf(q, b)
               /\ ArgsOf(p) # PageOf(q, b) /\ ArgsOf(p) # TableOf(q, b)
    BY UseForms, UseKinds
  <1>4. ASSUME NEW q \in Proc
        PROVE  /\ TaskOf(q) \in Use /\ LoadOf(q) \in Use /\ ArgsOf(q) \in Use
               /\ TaskOf(p) = TaskOf(q) <=> q = p
               /\ LoadOf(p) = LoadOf(q) <=> q = p
               /\ ArgsOf(p) = ArgsOf(q) <=> q = p
               /\ TaskOf(p) # LoadOf(q) /\ TaskOf(p) # ArgsOf(q) /\ LoadOf(p) # TaskOf(q)
               /\ LoadOf(p) # ArgsOf(q) /\ ArgsOf(p) # TaskOf(q) /\ ArgsOf(p) # LoadOf(q)
    BY UseForms, UseKinds
  <1>5. ASSUME NEW q \in Proc, NEW b \in Addr
        PROVE  /\ Put(U, TaskOf(p), f)[PageOf(q, b)] = U[PageOf(q, b)]
               /\ Put(U, TaskOf(p), f)[TableOf(q, b)] = U[TableOf(q, b)]
               /\ Put(U, LoadOf(p), f)[PageOf(q, b)] = U[PageOf(q, b)]
               /\ Put(U, LoadOf(p), f)[TableOf(q, b)] = U[TableOf(q, b)]
               /\ Put(U, ArgsOf(p), f)[PageOf(q, b)] = U[PageOf(q, b)]
               /\ Put(U, ArgsOf(p), f)[TableOf(q, b)] = U[TableOf(q, b)]
    BY <1>1, <1>2, <1>3
  <1>6. ASSUME NEW q \in Proc
        PROVE  /\ Put(U, TaskOf(p), f)[TaskOf(q)] = IF q = p THEN f ELSE U[TaskOf(q)]
               /\ Put(U, TaskOf(p), f)[LoadOf(q)] = U[LoadOf(q)]
               /\ Put(U, TaskOf(p), f)[ArgsOf(q)] = U[ArgsOf(q)]
               /\ Put(U, LoadOf(p), f)[TaskOf(q)] = U[TaskOf(q)]
               /\ Put(U, LoadOf(p), f)[LoadOf(q)] = IF q = p THEN f ELSE U[LoadOf(q)]
               /\ Put(U, LoadOf(p), f)[ArgsOf(q)] = U[ArgsOf(q)]
               /\ Put(U, ArgsOf(p), f)[TaskOf(q)] = U[TaskOf(q)]
               /\ Put(U, ArgsOf(p), f)[LoadOf(q)] = U[LoadOf(q)]
               /\ Put(U, ArgsOf(p), f)[ArgsOf(q)] = IF q = p THEN f ELSE U[ArgsOf(q)]
    BY <1>1, <1>2, <1>4
  <1> QED BY <1>5, <1>6

\* The same for entries and tables
LEMMA PutEntry ==
  ASSUME NEW U \in [Use -> Frame \cup {0}], NEW p \in Proc, NEW a \in Addr, NEW f \in Frame \cup {0}
  PROVE  /\ \A q \in Proc, b \in Addr :
              /\ Put(U, PageOf(p, a), f)[PageOf(q, b)] = IF q = p /\ b = a THEN f ELSE U[PageOf(q, b)]
              /\ Put(U, PageOf(p, a), f)[TableOf(q, b)] = U[TableOf(q, b)]
              /\ Put(U, TableOf(p, a), f)[TableOf(q, b)] = IF q = p /\ b = a THEN f ELSE U[TableOf(q, b)]
              /\ Put(U, TableOf(p, a), f)[PageOf(q, b)] = U[PageOf(q, b)]
         /\ \A q \in Proc : /\ Put(U, PageOf(p, a), f)[TaskOf(q)] = U[TaskOf(q)]
                            /\ Put(U, PageOf(p, a), f)[LoadOf(q)] = U[LoadOf(q)]
                            /\ Put(U, PageOf(p, a), f)[ArgsOf(q)] = U[ArgsOf(q)]
                            /\ Put(U, TableOf(p, a), f)[TaskOf(q)] = U[TaskOf(q)]
                            /\ Put(U, TableOf(p, a), f)[LoadOf(q)] = U[LoadOf(q)]
                            /\ Put(U, TableOf(p, a), f)[ArgsOf(q)] = U[ArgsOf(q)]
  <1>1. \A x, y \in Use : /\ x = y => Put(U, x, f)[y] = f
                          /\ x # y => Put(U, x, f)[y] = U[y]
    BY PutAt
  <1>2. PageOf(p, a) \in Use /\ TableOf(p, a) \in Use
    BY UseForms
  <1>3. ASSUME NEW q \in Proc, NEW b \in Addr
        PROVE  /\ PageOf(q, b) \in Use /\ TableOf(q, b) \in Use
               /\ PageOf(p, a) = PageOf(q, b) <=> q = p /\ b = a
               /\ TableOf(p, a) = TableOf(q, b) <=> q = p /\ b = a
               /\ PageOf(p, a) # TableOf(q, b) /\ TableOf(p, a) # PageOf(q, b)
    BY UseForms, UseKinds
  <1>4. ASSUME NEW q \in Proc
        PROVE  /\ TaskOf(q) \in Use /\ LoadOf(q) \in Use /\ ArgsOf(q) \in Use
               /\ PageOf(p, a) # TaskOf(q) /\ PageOf(p, a) # LoadOf(q) /\ PageOf(p, a) # ArgsOf(q)
               /\ TableOf(p, a) # TaskOf(q) /\ TableOf(p, a) # LoadOf(q) /\ TableOf(p, a) # ArgsOf(q)
    BY UseForms, UseKinds
  <1>5. ASSUME NEW q \in Proc, NEW b \in Addr
        PROVE  /\ Put(U, PageOf(p, a), f)[PageOf(q, b)] = IF q = p /\ b = a THEN f ELSE U[PageOf(q, b)]
               /\ Put(U, PageOf(p, a), f)[TableOf(q, b)] = U[TableOf(q, b)]
               /\ Put(U, TableOf(p, a), f)[TableOf(q, b)] = IF q = p /\ b = a THEN f ELSE U[TableOf(q, b)]
               /\ Put(U, TableOf(p, a), f)[PageOf(q, b)] = U[PageOf(q, b)]
    BY <1>1, <1>2, <1>3
  <1>6. ASSUME NEW q \in Proc
        PROVE  /\ Put(U, PageOf(p, a), f)[TaskOf(q)] = U[TaskOf(q)]
               /\ Put(U, PageOf(p, a), f)[LoadOf(q)] = U[LoadOf(q)]
               /\ Put(U, PageOf(p, a), f)[ArgsOf(q)] = U[ArgsOf(q)]
               /\ Put(U, TableOf(p, a), f)[TaskOf(q)] = U[TaskOf(q)]
               /\ Put(U, TableOf(p, a), f)[LoadOf(q)] = U[LoadOf(q)]
               /\ Put(U, TableOf(p, a), f)[ArgsOf(q)] = U[ArgsOf(q)]
    BY <1>1, <1>2, <1>4
  <1> QED BY <1>5, <1>6

\* A use of a free frame is added or one is dropped, while entries stay as they are.
LEMMA SharedPut ==
  ASSUME IInv, NEW x \in Use, NEW f \in Frame \cup {0}, \A y \in Use : y # x => Uses[y] # f \/ f = 0,
         \A q \in Proc, b \in Addr : PageOf(q, b) # x /\ pte'[q][b].w => pte[q][b].w
  PROVE  Shared(Put(Uses, x, f), pte')
  <1>1. Uses \in [Use -> Frame \cup {0}] /\ Shared(Uses, pte)
    BY DEF IInv, Counted, Counts, Sharing
  <1> DEFINE V == Put(Uses, x, f)
  <1>2. V[x] = f /\ \A y \in Use : y # x => V[y] = Uses[y]
    BY <1>1, PutAt
  <1> HIDE DEF V
  <1>3. ASSUME NEW y \in Use, NEW z \in Use, y # z, V[y] = V[z], V[y] # 0
        PROVE  y # x /\ z # x
    BY <1>2, <1>3
  <1>4. ASSUME NEW y \in Use, NEW z \in Use, y # z, V[y] = V[z], V[y] # 0
        PROVE  \E q, r \in Proc, b \in Addr : y = PageOf(q, b) /\ z = PageOf(r, b) /\ ~pte'[q][b].w
    <2>1. y # x /\ z # x
      BY <1>3, <1>4
    <2>2. PICK q \in Proc, r \in Proc, b \in Addr : y = PageOf(q, b) /\ z = PageOf(r, b) /\ ~pte[q][b].w
      BY <1>1, <1>2, <1>4, <2>1 DEF Shared
    <2> QED BY <2>1, <2>2
  <1> QED BY <1>4 DEF Shared, V

-----------------------------------------------------------------------------
(* Each action keeps the invariant *)

\* exit()
LEMMA ExitInv ==
  ASSUME IInv, NEW p \in Proc, Exit(p)
  PROVE  IInv'
  <1>1. loading[p] = NoLoad /\ args[p] = 0 /\ DoExit(p, mem_map)
    BY DEF Exit, InProgram, Lives
  <1>2. Counts(mem_map, Put(Uses, LoadOf(p), 0))
    BY <1>1, NotLoading
  <1> QED BY <1>1, <1>2, ExitKeeps

\* release()
LEMMA ReapInv ==
  ASSUME IInv, NEW p \in Proc, Reap(p)
  PROVE  IInv'
  <1> DEFINE f == taskPage[p]
             X == Put(Uses, TaskOf(p), 0)
  <1>0. /\ Uses \in [Use -> Frame \cup {0}] /\ TaskOf(p) \in Use /\ 0 \in Frame \cup {0}
        /\ f \in Frame /\ Uses[TaskOf(p)] = f
    BY UseForms, UsesNow DEF IInv, Counted, Counts, Reap, TypeOK
  <1>1. Counts(Freed(mem_map, f), X)
    BY <1>0, FreedCount DEF IInv, Counted
  <1>2. /\ taskPage' \in [Proc -> Frame \cup {0}] /\ taskPage'[p] = 0
        /\ \A q \in Proc : q # p => taskPage'[q] = taskPage[q]
        /\ pte' = pte /\ dir' = dir /\ loading' = loading /\ args' = args /\ exe' = exe
        /\ verified' = verified /\ content' = content /\ mem_map' = Freed(mem_map, f)
        /\ exe[p] = "none" /\ event' = None
    BY DEF IInv, TypeOK, Reap, quiet
  <1> HIDE DEF f, X
  <1>3. Uses' = X
    <2>1. X \in [Use -> Frame \cup {0}]
      BY <1>1 DEF Counts
    <2>2. \A q \in Proc, a \in Addr : X[PageOf(q, a)] = pte'[q][a].f /\ X[TableOf(q, a)] = dir'[q][a]
      BY <1>0, <1>2, PutUses, UsesNow DEF X
    <2>3. \A q \in Proc : X[TaskOf(q)] = taskPage'[q] /\ X[LoadOf(q)] = loading'[q].f /\ X[ArgsOf(q)] = args'[q]
      BY <1>0, <1>2, PutUses, UsesNow DEF X
    <2> QED BY <2>1, <2>2, <2>3, NextUses
  <1>4. Counted'
    BY <1>1, <1>2, <1>3 DEF Counted
  <1>5. Sharing'
    <2>1. Shared(X, pte')
      BY <1>0, <1>2, SharedPut DEF X
    <2> QED BY <1>3, <2>1 DEF Sharing
  <1>6. TypeOK'
    <2>1. mem_map' \in [Frame -> Nat]
      BY <1>4 DEF Counted, Counts
    <2> QED BY <1>2, <2>1, Fields DEF IInv, TypeOK
  <1>7. ASSUME NEW q \in Proc PROVE ProcOK(q)'
    <2>1. CASE q = p
      <3>1. ProcOK(p)
        BY DEF IInv, Procs
      <3> QED BY <1>2, <2>1, <3>1 DEF ProcOK, Present, Tables
    <2>2. CASE q # p
      BY <1>2, <2>2, SameProc
    <2> QED BY <2>1, <2>2
  <1> QED BY <1>4, <1>5, <1>6, <1>7 DEF IInv, Procs

\* do_execve() up to its last sleep
LEMMA ExecCommitsInv ==
  ASSUME IInv, NEW p \in Proc, NEW x \in Program, NEW v \in Val, ExecCommits(p, x, v)
  PROVE  IInv'
  <1>a. PICK f \in Frame : f = LastFree(mem_map) /\ mem_map[f] = 0
    BY LastFreeFree DEF ExecCommits
  <1> DEFINE X == Put(Uses, ArgsOf(p), f)
  <1>0. /\ Uses \in [Use -> Frame \cup {0}] /\ ArgsOf(p) \in Use /\ f \in Frame \cup {0}
        /\ Uses[ArgsOf(p)] = 0
    BY UseForms, UsesNow DEF IInv, Counted, Counts, ExecCommits, InProgram, Lives
  <1>1. Counts(Take(mem_map, f), X)
    BY <1>0, <1>a, TakeCount DEF IInv, Counted
  <1>2. /\ args' \in [Proc -> Frame \cup {0}] /\ args'[p] = f
        /\ \A q \in Proc : q # p => args'[q] = args[q] /\ exe'[q] = exe[q]
        /\ exe' \in [Proc -> Program \cup {"none"}] /\ exe'[p] = x /\ x # "none"
        /\ content' \in [Frame -> Val \cup {Text(y) : y \in Program}] /\ content'[f] = v
        /\ \A g \in Frame : g # f => content'[g] = content[g]
        /\ pte' = pte /\ dir' = dir /\ loading' = loading /\ taskPage' = taskPage
        /\ verified' = verified /\ mem_map' = Take(mem_map, f)
        /\ exe[p] # "none" /\ loading[p] = NoLoad /\ verified[p] = 0 /\ event' = None
    BY <1>a DEF IInv, TypeOK, ExecCommits, InProgram, Lives, Program
  <1> HIDE DEF X
  <1>3. Uses' = X
    <2>1. X \in [Use -> Frame \cup {0}]
      BY <1>1 DEF Counts
    <2>2. \A q \in Proc, a \in Addr : X[PageOf(q, a)] = pte'[q][a].f /\ X[TableOf(q, a)] = dir'[q][a]
      BY <1>0, <1>2, PutUses, UsesNow DEF X
    <2>3. \A q \in Proc : X[TaskOf(q)] = taskPage'[q] /\ X[LoadOf(q)] = loading'[q].f /\ X[ArgsOf(q)] = args'[q]
      BY <1>0, <1>2, PutUses, UsesNow DEF X
    <2> QED BY <2>1, <2>2, <2>3, NextUses
  <1>4. Counted'
    BY <1>1, <1>2, <1>3 DEF Counted
  <1>5. Sharing'
    <2>0. \A y \in Use : Uses[y] # f
      BY <1>a, FreeUnused
    <2>1. Shared(X, pte')
      BY <1>0, <1>2, <2>0, SharedPut DEF X
    <2> QED BY <1>3, <2>1 DEF Sharing
  <1>6. TypeOK'
    <2>1. mem_map' \in [Frame -> Nat]
      BY <1>4 DEF Counted, Counts
    <2> QED BY <1>2, <2>1, Fields DEF IInv, TypeOK
  <1>7. ASSUME NEW q \in Proc PROVE ProcOK(q)'
    <2>1. CASE q = p
      <3>1. ProcOK(p)
        BY DEF IInv, Procs
      <3>2. verified[p] \notin Anon
        BY <1>2, Bounds
      <3> QED BY <1>2, <2>1, <3>1, <3>2 DEF ProcOK, Present, Tables
    <2>2. CASE q # p
      <3>1. args[q] # f /\ args[q] \in Frame \cup {0}
        BY <1>a, FreeUnused DEF IInv, TypeOK
      <3> QED BY <1>2, <2>2, <3>1, SameProc
    <2> QED BY <2>1, <2>2
  <1> QED BY <1>4, <1>5, <1>6, <1>7 DEF IInv, Procs

\* do_no_page() takes a page and reads the program, or ends the process.
LEMMA LoadPageInv ==
  ASSUME IInv, NEW p \in Proc, NEW a \in Addr, LoadPage(p, a)
  PROVE  IInv'
  <1>0. /\ exe[p] # "none" /\ loading[p] = NoLoad /\ args[p] = 0 /\ ~Present(p, a) /\ a \in Exec
    BY DEF LoadPage, NoPage, Lives
  <1>1. CASE ~HasFree(mem_map)
    <2>1. DoExit(p, mem_map)
      BY <1>1 DEF LoadPage
    <2>2. Counts(mem_map, Put(Uses, LoadOf(p), 0))
      BY <1>0, NotLoading
    <2> QED BY <1>0, <2>1, <2>2, ExitKeeps
  <1>2. CASE HasFree(mem_map)
    <2>a. PICK f \in Frame : f = LastFree(mem_map) /\ mem_map[f] = 0
      BY <1>2, LastFreeFree
    <2> DEFINE X == Put(Uses, LoadOf(p), f)
    <2>0. /\ Uses \in [Use -> Frame \cup {0}] /\ LoadOf(p) \in Use /\ f \in Frame \cup {0}
          /\ Uses[LoadOf(p)] = 0
      BY <1>0, UseForms, UsesNow, Fields DEF IInv, Counted, Counts
    <2>1. Counts(Take(mem_map, f), X)
      BY <2>0, <2>a, TakeCount DEF IInv, Counted
    <2>2. /\ loading' \in [Proc -> [a : Exec, f : Frame] \cup {NoLoad}] /\ loading'[p] = [a |-> a, f |-> f]
          /\ \A q \in Proc : q # p => loading'[q] = loading[q]
          /\ content' \in [Frame -> Val \cup {Text(y) : y \in Program}]
          /\ \A g \in Frame : g # f => content'[g] = content[g]
      <3>1. content' = Zeroed(content, f) /\ loading' = [loading EXCEPT ![p] = [a |-> a, f |-> f]]
        BY <1>2, <2>a DEF LoadPage
      <3>2. /\ content \in [Frame -> Val \cup {Text(y) : y \in Program}]
            /\ loading \in [Proc -> [a : Exec, f : Frame] \cup {NoLoad}]
        BY DEF IInv, TypeOK
      <3>3. [a |-> a, f |-> f] \in [a : Exec, f : Frame]
        BY <1>0
      <3> QED BY <3>1, <3>2, <3>3, Fields DEF Zeroed
    <2>3. /\ pte' = pte /\ dir' = dir /\ args' = args /\ taskPage' = taskPage
          /\ verified' = verified /\ exe' = exe /\ mem_map' = Take(mem_map, f) /\ event' = None
      BY <1>2, <2>a DEF LoadPage
    <2> HIDE DEF X
    <2>4. Uses' = X
      <3>1. X \in [Use -> Frame \cup {0}]
        BY <2>1 DEF Counts
      <3>2. \A q \in Proc, b \in Addr : X[PageOf(q, b)] = pte'[q][b].f /\ X[TableOf(q, b)] = dir'[q][b]
        BY <2>0, <2>3, PutUses, UsesNow DEF X
      <3>3. \A q \in Proc : X[TaskOf(q)] = taskPage'[q] /\ X[LoadOf(q)] = loading'[q].f /\ X[ArgsOf(q)] = args'[q]
        BY <2>0, <2>2, <2>3, PutUses, UsesNow DEF X
      <3> QED BY <3>1, <3>2, <3>3, NextUses
    <2>5. Counted'
      BY <2>1, <2>3, <2>4 DEF Counted
    <2>6. Sharing'
      <3>0. \A y \in Use : Uses[y] # f
        BY <2>a, FreeUnused
      <3>1. Shared(X, pte')
        BY <2>0, <2>3, <3>0, SharedPut DEF X
      <3> QED BY <2>4, <3>1 DEF Sharing
    <2>7. TypeOK'
      <3>1. mem_map' \in [Frame -> Nat]
        BY <2>5 DEF Counted, Counts
      <3> QED BY <2>2, <2>3, <3>1, Fields DEF IInv, TypeOK
    <2>8. ASSUME NEW q \in Proc PROVE ProcOK(q)'
      <3>0. args[q] # f /\ args[q] \in Frame \cup {0}
        BY <2>a, FreeUnused DEF IInv, TypeOK
      <3>1. CASE q = p
        <4>1. ProcOK(p)
          BY DEF IInv, Procs
        <4>2. loading'[p].a = a
          BY <2>2
        <4>3. ~Present(p, a)'
          BY <1>0, <2>3 DEF Present
        <4>4. args'[p] = 0
          BY <1>0, <2>3
        <4> QED BY <1>0, <2>3, <3>1, <4>1, <4>2, <4>3, <4>4 DEF ProcOK, Present, Tables
      <3>2. CASE q # p
        BY <2>2, <2>3, <3>0, <3>2, SameProc
      <3> QED BY <3>1, <3>2
    <2> QED BY <2>5, <2>6, <2>7, <2>8 DEF IInv, Procs
  <1> QED BY <1>1, <1>2

\* put_page(): the frame f is taken, and counted as a page that is being loaded.
LEMMA PutPageKeeps ==
  ASSUME IInv, NEW p \in Proc, NEW a \in Addr, NEW f \in Frame, NEW mm, NEW ct,
         args[p] = 0, exe[p] # "none", ~Present(p, a),
         Counts(mm, Put(Uses, LoadOf(p), f)), \A x \in Use : x # LoadOf(p) => Uses[x] # f,
         ct \in [Frame -> Val \cup {Text(y) : y \in Program}], \A g \in Frame : g # f => ct[g] = content[g],
         PutPage(p, a, f, mm, ct)
  PROVE  IInv'
  <1> DEFINE V == Put(Uses, LoadOf(p), f)
  <1>0. /\ Uses \in [Use -> Frame \cup {0}] /\ LoadOf(p) \in Use
        /\ f \in Frame \cup {0} /\ 0 \in Frame \cup {0} /\ f # 0
    BY UseForms, Bounds DEF IInv, Counted, Counts
  <1>1. V \in [Use -> Frame \cup {0}] /\ V[LoadOf(p)] = f /\ \A y \in Use : y # LoadOf(p) => V[y] = Uses[y]
    BY <1>0, PutAt
  <1>2. CASE dir[p][a] = 0 /\ ~HasFree(mm)
    <2>1. DoExit(p, Freed(mm, f))
      BY <1>2 DEF PutPage
    <2>2. Counts(Freed(mm, f), Put(V, LoadOf(p), 0))
      BY <1>0, <1>1, FreedCount
    <2>3. Put(V, LoadOf(p), 0) = Put(Uses, LoadOf(p), 0)
      BY <1>0 DEF Put
    <2> QED BY <2>1, <2>2, <2>3, ExitKeeps
  <1>3. CASE ~(dir[p][a] = 0 /\ ~HasFree(mm))
    <2>0. /\ PageOf(p, a) \in Use /\ TableOf(p, a) \in Use
          /\ PageOf(p, a) # LoadOf(p) /\ TableOf(p, a) # LoadOf(p) /\ TableOf(p, a) # PageOf(p, a)
          /\ Uses[PageOf(p, a)] = 0 /\ Uses[TableOf(p, a)] = dir[p][a] /\ dir[p][a] \in Frame \cup {0}
      <3>1. pte[p][a].f = 0
        BY PresentFrame DEF IInv
      <3>2. dir[p][a] \in Frame \cup {0}
        BY DEF IInv, TypeOK
      <3> QED BY <3>1, <3>2, UseForms, UseKinds, UsesNow
    <2>1. /\ pte' = [pte EXCEPT ![p][a] = [f |-> f, w |-> TRUE, d |-> FALSE]]
          /\ loading' = [loading EXCEPT ![p] = NoLoad] /\ event' = None
          /\ taskPage' = taskPage /\ exe' = exe /\ verified' = verified /\ args' = args
      BY <1>3 DEF PutPage
    <2>2. \E h \in Frame : /\ Counts(mem_map', Put(V, TableOf(p, a), h))
                           /\ h = dir[p][a] \/ \A y \in Use : V[y] # h
                           /\ dir' = [dir EXCEPT ![p][a] = h]
                           /\ content' \in [Frame -> Val \cup {Text(y) : y \in Program}]
                           /\ \A g \in Frame : g # f /\ (\E y \in Use : V[y] = g) => content'[g] = content[g]
      <3>1. CASE dir[p][a] = 0
        <4>1. PICK t \in Frame : t = LastFree(mm) /\ mm[t] = 0
          BY <1>3, <3>1, LastFreeFree
        <4>2. mem_map' = Take(mm, t) /\ dir' = [dir EXCEPT ![p][a] = t] /\ content' = Zeroed(ct, t)
          BY <1>3, <3>1, <4>1 DEF PutPage
        <4>3. \A y \in Use : V[y] # t
          BY <4>1, CountUses
        <4>4. V[TableOf(p, a)] = 0
          BY <1>1, <2>0, <3>1
        <4>5. Counts(Take(mm, t), Put(V, TableOf(p, a), t))
          BY <2>0, <4>1, <4>4, TakeCount
        <4>6. content' \in [Frame -> Val \cup {Text(y) : y \in Program}]
          BY <4>2, Fields DEF Zeroed
        <4>7. \A g \in Frame : g # f /\ g # t => content'[g] = content[g]
          BY <4>2 DEF Zeroed
        <4> QED BY <4>2, <4>3, <4>5, <4>6, <4>7
      <3>2. CASE dir[p][a] # 0
        <4>1. mem_map' = mm /\ dir' = dir /\ content' = ct
          BY <1>3, <3>2 DEF PutPage
        <4>2. V[TableOf(p, a)] = dir[p][a]
          BY <1>1, <2>0
        <4>3. Put(V, TableOf(p, a), dir[p][a]) = V
          BY <1>1, <2>0, <4>2 DEF Put
        <4>4. dir' = [dir EXCEPT ![p][a] = dir[p][a]]
          BY <4>1 DEF IInv, TypeOK
        <4> HIDE DEF V
        <4> QED BY <2>0, <3>2, <4>1, <4>3, <4>4 DEF V
      <3> QED BY <3>1, <3>2
    <2>3. PICK h \in Frame : /\ Counts(mem_map', Put(V, TableOf(p, a), h))
                             /\ h = dir[p][a] \/ \A y \in Use : V[y] # h
                             /\ dir' = [dir EXCEPT ![p][a] = h]
                             /\ content' \in [Frame -> Val \cup {Text(y) : y \in Program}]
                             /\ \A g \in Frame : g # f /\ (\E y \in Use : V[y] = g) => content'[g] = content[g]
      BY <2>2
    <2> DEFINE W == Put(V, TableOf(p, a), h)
               Y == Put(W, LoadOf(p), 0)
               X == Put(Y, PageOf(p, a), f)
    <2> HIDE DEF V
    <2>4. W \in [Use -> Frame \cup {0}] /\ W[TableOf(p, a)] = h /\ \A y \in Use : y # TableOf(p, a) => W[y] = V[y]
      BY <1>1, <2>0, PutAt
    <2> HIDE DEF W
    <2>5. Y \in [Use -> Frame \cup {0}] /\ Y[LoadOf(p)] = 0 /\ \A y \in Use : y # LoadOf(p) => Y[y] = W[y]
      BY <1>0, <2>4, PutAt
    <2>6. Counts(mem_map', X)
      <3>1. W[LoadOf(p)] = f /\ W[PageOf(p, a)] = 0
        BY <1>0, <1>1, <2>0, <2>4
      <3> QED BY <1>0, <2>0, <2>3, <3>1, HandOver DEF W
    <2> HIDE DEF Y
    <2>7. X \in [Use -> Frame \cup {0}] /\ X[PageOf(p, a)] = f /\ \A y \in Use : y # PageOf(p, a) => X[y] = Y[y]
      BY <1>0, <2>0, <2>5, PutAt
    <2>8. /\ pte' \in [Proc -> [Addr -> Pte \cup {NoPte}]]
          /\ pte'[p][a] = [f |-> f, w |-> TRUE, d |-> FALSE]
          /\ \A q \in Proc, b \in Addr : <<q, b>> # <<p, a>> => pte'[q][b] = pte[q][b]
          /\ \A q \in Proc : q # p => pte'[q] = pte[q]
      BY <2>1 DEF IInv, TypeOK, Pte
    <2>9. /\ dir' \in [Proc -> [Addr -> Frame \cup {0}]] /\ dir'[p][a] = h
          /\ \A q \in Proc, b \in Addr : <<q, b>> # <<p, a>> => dir'[q][b] = dir[q][b]
          /\ \A q \in Proc : q # p => dir'[q] = dir[q]
      BY <2>3 DEF IInv, TypeOK
    <2>10. /\ loading' \in [Proc -> [a : Exec, f : Frame] \cup {NoLoad}] /\ loading'[p] = NoLoad
           /\ \A q \in Proc : q # p => loading'[q] = loading[q]
      BY <2>1 DEF IInv, TypeOK
    <2> HIDE DEF X
    <2>11. Uses' = X
      <3>1. \A q \in Proc, b \in Addr : /\ V[PageOf(q, b)] = pte[q][b].f /\ V[TableOf(q, b)] = dir[q][b]
                                        /\ V[TaskOf(q)] = taskPage[q] /\ V[ArgsOf(q)] = args[q]
                                        /\ q # p => V[LoadOf(q)] = loading[q].f
        BY <1>0, PutUses, UsesNow DEF V
      <3>2. ASSUME NEW q \in Proc, NEW b \in Addr
            PROVE  X[PageOf(q, b)] = pte'[q][b].f /\ X[TableOf(q, b)] = dir'[q][b]
        <4>1. X[PageOf(q, b)] = (IF q = p /\ b = a THEN f ELSE Y[PageOf(q, b)]) /\ X[TableOf(q, b)] = Y[TableOf(q, b)]
          BY <1>0, <2>5, PutEntry DEF X
        <4>2. Y[PageOf(q, b)] = W[PageOf(q, b)] /\ Y[TableOf(q, b)] = W[TableOf(q, b)]
          BY <1>0, <2>4, PutUses DEF Y
        <4>3. W[PageOf(q, b)] = V[PageOf(q, b)] /\ W[TableOf(q, b)] = IF q = p /\ b = a THEN h ELSE V[TableOf(q, b)]
          BY <1>1, PutEntry DEF W
        <4> QED BY <2>8, <2>9, <3>1, <4>1, <4>2, <4>3
      <3>3. ASSUME NEW q \in Proc
            PROVE  X[TaskOf(q)] = taskPage'[q] /\ X[LoadOf(q)] = loading'[q].f /\ X[ArgsOf(q)] = args'[q]
        <4>1. X[TaskOf(q)] = Y[TaskOf(q)] /\ X[LoadOf(q)] = Y[LoadOf(q)] /\ X[ArgsOf(q)] = Y[ArgsOf(q)]
          BY <1>0, <2>5, PutEntry DEF X
        <4>2. /\ Y[TaskOf(q)] = W[TaskOf(q)] /\ Y[ArgsOf(q)] = W[ArgsOf(q)]
              /\ Y[LoadOf(q)] = IF q = p THEN 0 ELSE W[LoadOf(q)]
          BY <1>0, <2>4, PutUses DEF Y
        <4>3. W[TaskOf(q)] = V[TaskOf(q)] /\ W[LoadOf(q)] = V[LoadOf(q)] /\ W[ArgsOf(q)] = V[ArgsOf(q)]
          BY <1>1, PutEntry DEF W
        <4>4. V[TaskOf(q)] = taskPage[q] /\ V[ArgsOf(q)] = args[q] /\ (q # p => V[LoadOf(q)] = loading[q].f)
          BY <3>1
        <4> QED BY <2>1, <2>10, <4>1, <4>2, <4>3, <4>4, Fields
      <3> QED BY <2>7, <3>2, <3>3, NextUses
    <2>12. Counted'
      BY <2>6, <2>11 DEF Counted
    <2>13. Sharing'
      <3>1. h # f /\ \A y \in Use : y # TableOf(p, a) /\ y # LoadOf(p) /\ Uses[y] = h => h = dir[p][a]
        <4>1. CASE h = dir[p][a]
          BY <2>0, <4>1
        <4>2. CASE \A y \in Use : V[y] # h
          BY <1>0, <1>1, <4>2
        <4> QED BY <2>3, <4>1, <4>2
      <3>2. \A y \in Use : /\ y # PageOf(p, a) /\ y # LoadOf(p) /\ y # TableOf(p, a) => X[y] = Uses[y]
                           /\ y = LoadOf(p) => X[y] = 0
                           /\ y = TableOf(p, a) => X[y] = h
                           /\ y = PageOf(p, a) => X[y] = f
        BY <1>1, <2>0, <2>4, <2>5, <2>7
      <3>3. ASSUME NEW x \in Use, NEW y \in Use, x # y, X[x] = X[y], X[x] # 0
            PROVE  Uses[x] = X[x]
        <4>1. x # LoadOf(p) /\ y # LoadOf(p)
          BY <3>2, <3>3
        <4>2. x # PageOf(p, a)
          BY <3>1, <3>2, <3>3, <4>1
        <4>3. y # PageOf(p, a)
          BY <3>1, <3>2, <3>3, <4>1
        <4>4. CASE x = TableOf(p, a)
          BY <2>0, <3>1, <3>2, <3>3, <4>1, <4>3, <4>4
        <4>5. CASE x # TableOf(p, a)
          BY <3>2, <4>1, <4>2, <4>5
        <4> QED BY <4>4, <4>5
      <3>4. \A x, y \in Use : x # y /\ X[x] = X[y] /\ X[x] # 0 => Uses[x] = X[x] /\ Uses[y] = X[y]
        BY <3>3
      <3>5. ASSUME NEW q \in Proc, NEW b \in Addr, Uses[PageOf(q, b)] = X[PageOf(q, b)], pte'[q][b].w
            PROVE  pte[q][b].w
        <4>1. <<q, b>> # <<p, a>>
          BY <1>0, <2>0, <2>7, <3>5
        <4> QED BY <2>8, <3>5, <4>1
      <3>6. Shared(Uses, pte)
        BY DEF IInv, Sharing
      <3>7. Shared(X, pte')
        BY <3>4, <3>5, <3>6, SharedStays
      <3> QED BY <2>11, <3>7 DEF Sharing
    <2>14. TypeOK'
      <3>1. mem_map' \in [Frame -> Nat]
        BY <2>6 DEF Counts
      <3> QED BY <2>1, <2>3, <2>8, <2>9, <2>10, <3>1, Fields DEF IInv, TypeOK
    <2>15. ASSUME NEW q \in Proc PROVE ProcOK(q)'
      <3>1. CASE q = p
        <4>1. ProcOK(p)
          BY DEF IInv, Procs
        <4>2. \A b \in Addr : Present(p, b)' => dir'[p][b] # 0
          <5> TAKE b \in Addr
          <5>1. CASE b = a
            BY <2>9, <5>1, Bounds
          <5>2. CASE b # a
            BY <2>8, <2>9, <4>1, <5>2 DEF ProcOK, Present
          <5> QED BY <5>1, <5>2
        <4>3. Tables(p)' # {}
          BY <2>9, Bounds DEF Tables
        <4>4. verified'[p] \in Anon /\ Present(p, verified[p])' => pte'[p][verified[p]].w
          <5>1. CASE verified[p] = a
            BY <2>8, <5>1
          <5>2. CASE verified[p] # a
            BY <2>1, <2>8, <4>1, <5>2, Bounds DEF ProcOK, Present
          <5> QED BY <5>1, <5>2
        <4>5. taskPage'[p] # 0 /\ loading'[p] = NoLoad /\ args'[p] = 0 /\ exe'[p] # "none" /\ verified'[p] = verified[p]
          BY <2>1, <2>10, <4>1 DEF ProcOK
        <4> QED BY <3>1, <4>2, <4>3, <4>4, <4>5 DEF ProcOK
      <3>2. CASE q # p
        <4>1. args[q] # 0 => content'[args[q]] = content[args[q]]
          <5>1. ArgsOf(q) \in Use /\ ArgsOf(q) # LoadOf(p) /\ Uses[ArgsOf(q)] = args[q]
            BY UseForms, UseKinds, UsesNow
          <5>2. args[q] # f /\ V[ArgsOf(q)] = args[q] /\ args[q] \in Frame \cup {0}
            BY <1>1, <5>1 DEF IInv, TypeOK
          <5> QED BY <2>3, <5>1, <5>2
        <4> QED BY <2>1, <2>8, <2>9, <2>10, <3>2, <4>1, SameProc
      <3> QED BY <3>1, <3>2
    <2> QED BY <2>12, <2>13, <2>14, <2>15 DEF IInv, Procs
  <1> QED BY <1>2, <1>3

\* get_empty_page()
LEMMA GetEmptyPageInv ==
  ASSUME IInv, NEW p \in Proc, NEW a \in Addr, GetEmptyPage(p, a)
  PROVE  IInv'
  <1>0. exe[p] # "none" /\ loading[p] = NoLoad /\ args[p] = 0 /\ ~Present(p, a)
    BY DEF GetEmptyPage, NoPage, Lives
  <1>1. CASE ~HasFree(mem_map)
    <2>1. DoExit(p, mem_map)
      BY <1>1 DEF GetEmptyPage
    <2>2. Counts(mem_map, Put(Uses, LoadOf(p), 0))
      BY <1>0, NotLoading
    <2> QED BY <1>0, <2>1, <2>2, ExitKeeps
  <1>2. CASE HasFree(mem_map)
    <2>1. PICK f \in Frame : f = LastFree(mem_map) /\ mem_map[f] = 0
      BY <1>2, LastFreeFree
    <2>2. PutPage(p, a, f, Take(mem_map, f), Zeroed(content, f))
      BY <1>2, <2>1 DEF GetEmptyPage
    <2>3. LoadOf(p) \in Use /\ Uses[LoadOf(p)] = 0
      BY <1>0, UseForms, UsesNow, Fields
    <2>4. Counts(Take(mem_map, f), Put(Uses, LoadOf(p), f))
      BY <2>1, <2>3, TakeCount DEF IInv, Counted
    <2>5. \A x \in Use : Uses[x] # f
      BY <2>1, FreeUnused
    <2>6. /\ Zeroed(content, f) \in [Frame -> Val \cup {Text(y) : y \in Program}]
          /\ \A g \in Frame : g # f => Zeroed(content, f)[g] = content[g]
      BY Fields DEF Zeroed, IInv, TypeOK
    <2> QED BY <1>0, <2>2, <2>4, <2>5, <2>6, PutPageKeeps
  <1> QED BY <1>1, <1>2

\* A process that loads a page has a frame for it that nobody else uses.
LEMMA LoadingFrame ==
  ASSUME IInv, NEW p \in Proc, loading[p] # NoLoad
  PROVE  /\ loading[p].f \in Frame /\ loading[p].a \in Exec /\ exe[p] # "none" /\ args[p] = 0
         /\ ~Present(p, loading[p].a)
         /\ \A x \in Use : x # LoadOf(p) => Uses[x] # loading[p].f
  <1>1. loading[p].f \in Frame /\ loading[p].a \in Exec
    BY DEF IInv, TypeOK
  <1>2. args[p] = 0 /\ ~Present(p, loading[p].a) /\ exe[p] # "none"
    BY DEF IInv, Procs, ProcOK
  <1>3. LoadOf(p) \in Use /\ Uses[LoadOf(p)] = loading[p].f /\ Kind(LoadOf(p)) # "page" /\ loading[p].f # 0
    BY <1>1, UseForms, UsesNow, UseKinds, Bounds
  <1> QED BY <1>1, <1>2, <1>3, OneUse

\* The page has been read.
LEMMA LoadEndsInv ==
  ASSUME IInv, NEW p \in Proc, LoadEnds(p)
  PROVE  IInv'
  <1>1. PICK f \in Frame, a \in Exec : f = loading[p].f /\ a = loading[p].a
    BY LoadingFrame DEF LoadEnds
  <1> DEFINE ct == [content EXCEPT ![f] = Text(exe[p])]
  <1>2. PutPage(p, a, f, mem_map, ct)
    BY <1>1 DEF LoadEnds
  <1>3. exe[p] # "none" /\ args[p] = 0 /\ ~Present(p, a) /\ \A x \in Use : x # LoadOf(p) => Uses[x] # f
    BY <1>1, LoadingFrame DEF LoadEnds
  <1>4. a \in Addr /\ exe[p] \in Program
    BY <1>3, Bounds DEF IInv, TypeOK
  <1>5. /\ ct \in [Frame -> Val \cup {Text(y) : y \in Program}]
        /\ \A g \in Frame : g # f => ct[g] = content[g]
    BY <1>4, Fields DEF IInv, TypeOK
  <1>6. Counts(mem_map, Put(Uses, LoadOf(p), f))
    <2>1. Uses \in [Use -> Frame \cup {0}] /\ LoadOf(p) \in Use /\ Uses[LoadOf(p)] = f
      BY <1>1, UseForms, UsesNow DEF IInv, Counted, Counts
    <2>2. Put(Uses, LoadOf(p), f) = Uses
      BY <2>1 DEF Put
    <2> QED BY <2>2 DEF IInv, Counted
  <1> HIDE DEF ct
  <1> QED BY <1>2, <1>3, <1>4, <1>5, <1>6, PutPageKeeps

\* A write to a page of a process
LEMMA WriteKeeps ==
  ASSUME IInv, NEW p \in Proc, NEW a \in Addr, NEW v \in Val, Present(p, a),
         content' = [content EXCEPT ![pte[p][a].f] = v],
         pte' = [pte EXCEPT ![p][a].d = TRUE],
         verified' = verified \/ verified' = [verified EXCEPT ![p] = 0],
         event' = Written(p, a, v),
         UNCHANGED <<mem_map, taskPage, dir, exe, loading, args>>
  PROVE  IInv'
  <1>1. pte[p][a].f \in Frame /\ pte[p][a] \in Pte
    BY PresentFrame DEF IInv
  <1>2. /\ content' \in [Frame -> Val \cup {Text(y) : y \in Program}]
        /\ \A g \in Frame : content'[g] = content[g] \/ content'[g] \in Val
    BY <1>1 DEF IInv, TypeOK
  <1>3. /\ pte' \in [Proc -> [Addr -> Pte \cup {NoPte}]]
        /\ \A q \in Proc, b \in Addr : <<q, b>> # <<p, a>> => pte'[q][b] = pte[q][b]
        /\ pte'[p][a] = [pte[p][a] EXCEPT !.d = TRUE]
    BY <1>1 DEF IInv, TypeOK, Pte
  <1>4. pte'[p][a].f = pte[p][a].f /\ pte'[p][a].w = pte[p][a].w /\ pte'[p][a].f # 0
    BY <1>1, <1>3, Bounds DEF Pte
  <1>5. \A q \in Proc, b \in Addr : pte'[q][b].f = pte[q][b].f /\ pte'[q][b].w = pte[q][b].w
    BY <1>3, <1>4
  <1>6. Uses' = Uses
    <2>1. Uses \in [Use -> Frame \cup {0}]
      BY DEF IInv, Counted, Counts
    <2> QED BY <1>5, <2>1, NextUses, UsesNow
  <1>7. Counted'
    BY <1>6 DEF IInv, Counted
  <1>8. Sharing'
    <2>1. Shared(Uses, pte)
      BY DEF IInv, Sharing
    <2>2. \A q \in Proc, b \in Addr : pte'[q][b].w => pte[q][b].w
      BY <1>5
    <2>3. Shared(Uses, pte')
      BY <2>1, <2>2, SharedSame
    <2> QED BY <1>6, <2>3 DEF Sharing
  <1>9. verified' \in [Proc -> Addr \cup {0}] /\ \A q \in Proc : verified'[q] = verified[q] \/ verified'[q] = 0
    BY DEF IInv, TypeOK
  <1>10. TypeOK'
    <2>1. event' \in [op : {"none", "write", "fork", "exec", "exit"}, p : Proc \cup {0},
                      q : Proc \cup Addr \cup {0}, v : Val]
      <3>1. Event("write", p, a, v) \in [op : {"none", "write", "fork", "exec", "exit"}, p : Proc \cup {0},
                                          q : Proc \cup Addr \cup {0}, v : Val]
        BY Fields
      <3> QED BY <3>1, Fields DEF Written
    <2> QED BY <1>2, <1>3, <1>9, <2>1 DEF IInv, TypeOK
  <1>11. ASSUME NEW q \in Proc PROVE ProcOK(q)'
    <2>1. ProcOK(q)
      BY DEF IInv, Procs
    <2>2. \A b \in Addr : Present(q, b)' <=> Present(q, b)
      <3> TAKE b \in Addr
      <3>0. pte[q][b] \in Pte \cup {NoPte} /\ pte'[q][b] \in Pte \cup {NoPte}
        BY <1>3 DEF IInv, TypeOK
      <3>1. pte[q][b] # NoPte <=> pte[q][b].f # 0
        BY <3>0, EntryFrame
      <3>2. pte'[q][b] # NoPte <=> pte'[q][b].f # 0
        BY <3>0, EntryFrame
      <3> QED BY <1>5, <3>1, <3>2 DEF Present
    <2>3. Tables(q)' = Tables(q)
      BY DEF Tables
    <2>4. args[q] # 0 => content'[args[q]] \in Val
      <3>1. args[q] \in Frame \cup {0}
        BY DEF IInv, TypeOK
      <3> QED BY <1>2, <2>1, <3>1 DEF ProcOK
    <2>5. (verified[q] \in Anon /\ Present(q, verified[q]) => pte[q][verified[q]].w)'
      <3>1. CASE verified'[q] = 0
        BY <3>1, Bounds
      <3>2. CASE verified'[q] = verified[q] /\ verified[q] \in Anon
        <4>1. PICK b \in Addr : b = verified[q]
          BY <3>2, Bounds
        <4>2. Present(q, b)' => Present(q, b)
          BY <2>2
        <4>3. b \in Anon /\ Present(q, b) => pte[q][b].w
          BY <2>1, <4>1 DEF ProcOK
        <4>4. pte'[q][b].w = pte[q][b].w
          BY <1>5
        <4>5. b \in Anon /\ Present(q, b)' => pte'[q][b].w
          BY <4>2, <4>3, <4>4
        <4> QED BY <3>2, <4>1, <4>5 DEF Present
      <3> QED BY <1>9, <3>1, <3>2
    <2>6. loading[q] # NoLoad => loading[q].a \in Addr
      BY Bounds DEF IInv, TypeOK
    <2>7. verified[q] = 0 => verified'[q] = 0
      BY <1>9
    <2>8. \A b \in Addr : Present(q, b)' => dir'[q][b] # 0
      BY <2>1, <2>2 DEF ProcOK
    <2>9. (loading[q] # NoLoad => args[q] = 0 /\ ~Present(q, loading[q].a))'
      <3>1. loading[q] # NoLoad => args[q] = 0 /\ ~Present(q, loading[q].a)
        BY <2>1 DEF ProcOK
      <3>2. CASE loading[q] # NoLoad
        <4>1. PICK b \in Addr : b = loading[q].a
          BY <2>6, <3>2
        <4>2. ~Present(q, b)'
          BY <2>2, <3>1, <3>2, <4>1
        <4> QED BY <3>1, <3>2, <4>1, <4>2 DEF Present
      <3> QED BY <3>2
    <2> HIDE DEF Present
    <2> QED BY <2>1, <2>3, <2>4, <2>5, <2>7, <2>8, <2>9 DEF ProcOK
  <1> QED BY <1>7, <1>8, <1>10, <1>11 DEF IInv, Procs

\* A store of the program
LEMMA StoreInv ==
  ASSUME IInv, NEW p \in Proc, NEW a \in Addr, NEW v \in Val, Store(p, a, v)
  PROVE  IInv'
  BY WriteKeeps DEF Store, quiet

\* put_fs_byte()
LEMMA KernelStoreInv ==
  ASSUME IInv, NEW p \in Proc, NEW v \in Val, KernelStore(p, v)
  PROVE  IInv'
  <1>1. PICK a \in Addr : a = verified[p]
    BY DEF KernelStore, IInv, TypeOK
  <1> QED BY <1>1, WriteKeeps DEF KernelStore

\* un_wp_page(): the only user gets the page itself, another one a copy.
LEMMA UnWpPageKeeps ==
  ASSUME IInv, NEW p \in Proc, NEW a \in Addr, NEW next \in {0, a},
         InProgram(p), Present(p, a), UnWpPage(p, a, next)
  PROVE  IInv'
  <1>0. exe[p] # "none" /\ loading[p] = NoLoad /\ args[p] = 0 /\ verified[p] = 0
    BY DEF InProgram, Lives
  <1>1. PICK old \in Frame : old = pte[p][a].f
    BY PresentFrame DEF IInv
  <1>2. PageOf(p, a) \in Use /\ Uses[PageOf(p, a)] = old /\ old # 0 /\ pte[p][a] \in Pte
    BY <1>1, UseForms, UsesNow, Bounds, PresentFrame DEF IInv
  <1>3. Uses \in [Use -> Frame \cup {0}] /\ Shared(Uses, pte) /\ Counts(mem_map, Uses)
    BY DEF IInv, Counted, Counts, Sharing
  <1>4. CASE ~SoleOwner(old) /\ ~HasFree(mem_map)
    <2>1. DoExit(p, mem_map)
      BY <1>1, <1>4 DEF UnWpPage
    <2>2. Counts(mem_map, Put(Uses, LoadOf(p), 0))
      BY <1>0, NotLoading
    <2> QED BY <1>0, <2>1, <2>2, ExitKeeps
  <1>5. CASE SoleOwner(old) \/ HasFree(mem_map)
    <2>1. /\ verified' = [verified EXCEPT ![p] = next] /\ event' = None
          /\ taskPage' = taskPage /\ dir' = dir /\ exe' = exe /\ loading' = loading /\ args' = args
      BY <1>1, <1>5 DEF UnWpPage
    <2>2. \E g \in Frame, e \in Pte :
             /\ pte' = [pte EXCEPT ![p][a] = e] /\ e.f = g /\ e.w = TRUE
             /\ Counts(mem_map', Put(Uses, PageOf(p, a), g))
             /\ \A y \in Use : y # PageOf(p, a) => Uses[y] # g
             /\ content' \in [Frame -> Val \cup {Text(y) : y \in Program}]
             /\ \A h \in Frame : h # g => content'[h] = content[h]
      <3>1. CASE SoleOwner(old)
        <4>1. pte' = [pte EXCEPT ![p][a].w = TRUE] /\ mem_map' = mem_map /\ content' = content
          BY <1>1, <3>1 DEF UnWpPage
        <4>2. PICK e : e = [pte[p][a] EXCEPT !.w = TRUE]
          OBVIOUS
        <4>3. e \in Pte /\ e.f = old /\ e.w = TRUE /\ pte' = [pte EXCEPT ![p][a] = e]
          BY <1>1, <1>2, <4>1, <4>2 DEF Pte
        <4>4. Put(Uses, PageOf(p, a), old) = Uses
          BY <1>2, <1>3 DEF Put
        <4>5. \A y \in Use : y # PageOf(p, a) => Uses[y] # old
          <5>1. mem_map[old] = 1
            BY <3>1 DEF SoleOwner
          <5>2. \A x, y \in Use : Uses[x] = old /\ Uses[y] = old => x = y
            BY <1>3, <5>1, CountUses
          <5> QED BY <1>2, <5>2
        <4>6. content \in [Frame -> Val \cup {Text(y) : y \in Program}]
          BY DEF IInv, TypeOK
        <4> QED BY <1>3, <4>1, <4>3, <4>4, <4>5, <4>6
      <3>2. CASE ~SoleOwner(old)
        <4>1. PICK new \in Frame : new = LastFree(mem_map) /\ mem_map[new] = 0
          BY <1>5, <3>2, LastFreeFree
        <4>2. /\ mem_map' = Freed(Take(mem_map, new), old)
              /\ content' = [content EXCEPT ![new] = content[old]]
              /\ pte' = [pte EXCEPT ![p][a] = [f |-> new, w |-> TRUE, d |-> FALSE]]
          BY <1>1, <1>5, <3>2, <4>1 DEF UnWpPage
        <4>a. PICK e : e = [f |-> new, w |-> TRUE, d |-> FALSE]
          OBVIOUS
        <4>b. e \in Pte /\ e.f = new /\ e.w = TRUE /\ pte' = [pte EXCEPT ![p][a] = e]
          BY <4>2, <4>a DEF Pte
        <4>3. \A y \in Use : Uses[y] # new
          BY <4>1, FreeUnused
        <4>4. new # old
          BY <1>2, <4>3
        <4>5. Counts(Freed(mem_map, old), Put(Uses, PageOf(p, a), 0))
          BY <1>2, <1>3, FreedCount
        <4>6. Freed(mem_map, old)[new] = 0 /\ Put(Uses, PageOf(p, a), 0)[PageOf(p, a)] = 0
          <5>1. mem_map \in [Frame -> Nat]
            BY DEF IInv, TypeOK
          <5> QED BY <1>2, <1>3, <4>1, <4>4, <5>1, PutAt DEF Freed
        <4>7. Counts(Take(Freed(mem_map, old), new), Put(Put(Uses, PageOf(p, a), 0), PageOf(p, a), new))
          BY <1>2, <4>5, <4>6, TakeCount
        <4>8. Take(Freed(mem_map, old), new) = Freed(Take(mem_map, new), old)
          BY <4>4 DEF Take, Freed, IInv, TypeOK
        <4>9. Put(Put(Uses, PageOf(p, a), 0), PageOf(p, a), new) = Put(Uses, PageOf(p, a), new)
          BY <1>2, <1>3 DEF Put
        <4>10. content' \in [Frame -> Val \cup {Text(y) : y \in Program}] /\ \A h \in Frame : h # new => content'[h] = content[h]
          BY <4>2 DEF IInv, TypeOK
        <4>11. Counts(mem_map', Put(Uses, PageOf(p, a), new))
          BY <4>2, <4>7, <4>8, <4>9
        <4> QED BY <4>3, <4>10, <4>11, <4>b
      <3> QED BY <3>1, <3>2
    <2>3. PICK g \in Frame, e \in Pte :
             /\ pte' = [pte EXCEPT ![p][a] = e] /\ e.f = g /\ e.w = TRUE
             /\ Counts(mem_map', Put(Uses, PageOf(p, a), g))
             /\ \A y \in Use : y # PageOf(p, a) => Uses[y] # g
             /\ content' \in [Frame -> Val \cup {Text(y) : y \in Program}]
             /\ \A h \in Frame : h # g => content'[h] = content[h]
      BY <2>2
    <2> DEFINE X == Put(Uses, PageOf(p, a), g)
    <2>4. /\ pte' \in [Proc -> [Addr -> Pte \cup {NoPte}]]
          /\ pte'[p][a].f = g /\ pte'[p][a].w = TRUE
          /\ \A q \in Proc, b \in Addr : <<q, b>> # <<p, a>> => pte'[q][b] = pte[q][b]
          /\ \A q \in Proc : q # p => pte'[q] = pte[q]
      BY <2>3 DEF IInv, TypeOK, Pte
    <2>5. /\ verified' \in [Proc -> Addr \cup {0}] /\ verified'[p] = next
          /\ \A q \in Proc : q # p => verified'[q] = verified[q]
      BY <2>1 DEF IInv, TypeOK
    <2> HIDE DEF X
    <2>6. Uses' = X
      <3>1. X \in [Use -> Frame \cup {0}]
        BY <2>3 DEF Counts, X
      <3>2. ASSUME NEW q \in Proc, NEW b \in Addr
            PROVE  X[PageOf(q, b)] = pte'[q][b].f /\ X[TableOf(q, b)] = dir'[q][b]
        <4>1. /\ X[PageOf(q, b)] = IF q = p /\ b = a THEN g ELSE Uses[PageOf(q, b)]
              /\ X[TableOf(q, b)] = Uses[TableOf(q, b)]
          BY <1>3, PutEntry DEF X
        <4>2. Uses[PageOf(q, b)] = pte[q][b].f /\ Uses[TableOf(q, b)] = dir[q][b]
          BY UsesNow
        <4> QED BY <2>1, <2>4, <4>1, <4>2
      <3>3. \A q \in Proc : X[TaskOf(q)] = taskPage'[q] /\ X[LoadOf(q)] = loading'[q].f /\ X[ArgsOf(q)] = args'[q]
        BY <1>3, <2>1, PutEntry, UsesNow DEF X
      <3> QED BY <3>1, <3>2, <3>3, NextUses
    <2>7. Counted'
      BY <2>3, <2>6 DEF Counted, X
    <2>8. Sharing'
      <3>1. \A q \in Proc, b \in Addr : PageOf(q, b) # PageOf(p, a) /\ pte'[q][b].w => pte[q][b].w
        BY <2>4
      <3>2. \A y \in Use : y # PageOf(p, a) => Uses[y] # g \/ g = 0
        BY <2>3
      <3>3. g \in Frame \cup {0}
        OBVIOUS
      <3>4. Shared(X, pte')
        BY <1>2, <3>1, <3>2, <3>3, SharedPut DEF X
      <3> QED BY <2>6, <3>4 DEF Sharing
    <2>9. TypeOK'
      <3>1. mem_map' \in [Frame -> Nat]
        BY <2>3 DEF Counts
      <3> QED BY <2>1, <2>3, <2>4, <2>5, <3>1, Fields DEF IInv, TypeOK
    <2>10. ASSUME NEW q \in Proc PROVE ProcOK(q)'
      <3>1. CASE q = p
        <4>1. ProcOK(p)
          BY DEF IInv, Procs
        <4>2. \A b \in Addr : Present(p, b)' => dir'[p][b] # 0
          <5> TAKE b \in Addr
          <5>1. CASE b = a
            BY <2>1, <4>1, <5>1 DEF ProcOK
          <5>2. CASE b # a
            BY <2>1, <2>4, <4>1, <5>2 DEF ProcOK, Present
          <5> QED BY <5>1, <5>2
        <4>3. Tables(p)' # {}
          BY <1>0, <2>1, <4>1 DEF ProcOK, Tables
        <4>4. (verified[p] \in Anon /\ Present(p, verified[p]) => pte[p][verified[p]].w)'
          BY <2>4, <2>5, Bounds
        <4>5. taskPage'[p] # 0 /\ loading'[p] = NoLoad /\ args'[p] = 0 /\ exe'[p] # "none"
          BY <1>0, <2>1, <4>1 DEF ProcOK
        <4> QED BY <3>1, <4>2, <4>3, <4>4, <4>5 DEF ProcOK
      <3>2. CASE q # p
        <4>1. args[q] # 0 => content'[args[q]] = content[args[q]]
          <5>1. ArgsOf(q) \in Use /\ ArgsOf(q) # PageOf(p, a) /\ Uses[ArgsOf(q)] = args[q]
            BY UseForms, UseKinds, UsesNow
          <5>2. args[q] # g /\ args[q] \in Frame \cup {0}
            BY <2>3, <5>1 DEF IInv, TypeOK
          <5> QED BY <2>3, <5>2
        <4> QED BY <2>1, <2>4, <2>5, <3>2, <4>1, SameProc
      <3> QED BY <3>1, <3>2
    <2> QED BY <2>7, <2>8, <2>9, <2>10 DEF IInv, Procs
  <1> QED BY <1>4, <1>5

\* do_wp_page()
LEMMA WpFaultInv ==
  ASSUME IInv, NEW p \in Proc, NEW a \in Addr, WpFault(p, a)
  PROVE  IInv'
  BY UnWpPageKeeps DEF WpFault

\* verify_area()
LEMMA VerifyAreaInv ==
  ASSUME IInv, NEW p \in Proc, NEW a \in Addr, VerifyArea(p, a)
  PROVE  IInv'
  <1>1. CASE NeedsVerify(p, a)
    BY <1>1, UnWpPageKeeps DEF VerifyArea, NeedsVerify
  <1>2. CASE ~NeedsVerify(p, a)
    <2>1. /\ verified' = [verified EXCEPT ![p] = a] /\ event' = None
          /\ mem_map' = mem_map /\ content' = content /\ taskPage' = taskPage /\ dir' = dir
          /\ pte' = pte /\ exe' = exe /\ loading' = loading /\ args' = args
      BY <1>2 DEF VerifyArea
    <2>2. /\ verified' \in [Proc -> Addr \cup {0}] /\ verified'[p] = a
          /\ \A q \in Proc : q # p => verified'[q] = verified[q]
      BY <2>1 DEF IInv, TypeOK
    <2>3. Uses' = Uses
      BY <2>1 DEF Uses
    <2>4. Counted' /\ Sharing'
      BY <2>1, <2>3 DEF IInv, Counted, Sharing
    <2>5. TypeOK'
      BY <2>1, <2>2, Fields DEF IInv, TypeOK
    <2>6. ASSUME NEW q \in Proc PROVE ProcOK(q)'
      <3>1. CASE q = p
        <4>1. ProcOK(p)
          BY DEF IInv, Procs
        <4>2. exe[p] # "none" /\ args[p] = 0 /\ loading[p] = NoLoad
          BY DEF VerifyArea, InProgram, Lives
        <4>3. Present(p, a) => pte[p][a].w
          BY <1>2 DEF NeedsVerify
        <4>4. (verified[p] \in Anon /\ Present(p, verified[p]) => pte[p][verified[p]].w)'
          BY <2>1, <2>2, <4>3 DEF Present
        <4>5. \A b \in Addr : Present(p, b)' => dir'[p][b] # 0
          BY <2>1, <4>1 DEF ProcOK, Present
        <4>6. Tables(p)' # {} /\ taskPage'[p] # 0
          BY <2>1, <4>1, <4>2 DEF ProcOK, Tables
        <4> QED BY <2>1, <3>1, <4>2, <4>4, <4>5, <4>6 DEF ProcOK
      <3>2. CASE q # p
        BY <2>1, <2>2, <3>2, SameProc
      <3> QED BY <3>1, <3>2
    <2> QED BY <2>4, <2>5, <2>6 DEF IInv, Procs
  <1> QED BY <1>1, <1>2

\* A protected entry is the same entry, and an absent one stays absent.
LEMMA ProtectedEntry ==
  ASSUME NEW e \in Pte \cup {NoPte}
  PROVE  /\ Protected(e) \in Pte \cup {NoPte} /\ Protected(e).f = e.f /\ Protected(e).w = FALSE
         /\ Protected(e).d = e.d
         /\ Protected(e) # NoPte <=> e # NoPte
  <1>1. CASE e \in Pte
    <2>1. Protected(e) \in Pte /\ Protected(e).f = e.f /\ Protected(e).w = FALSE /\ Protected(e).d = e.d
      BY <1>1 DEF Protected, Pte
    <2>2. e.f # 0 /\ NoPte.f = 0
      BY <1>1, Bounds DEF Pte, NoPte
    <2> QED BY <2>1, <2>2
  <1>2. CASE e = NoPte
    <2>1. NoPte \in [f : {0}, w : {FALSE}, d : {FALSE}]
      BY DEF NoPte
    <2>2. Protected(e) \in [f : {0}, w : {FALSE}, d : {FALSE}]
      BY <1>2, <2>1 DEF Protected
    <2>3. \A r \in [f : {0}, w : {FALSE}, d : {FALSE}] : r = [f |-> 0, w |-> FALSE, d |-> FALSE]
      <3>1. \A F, W, D : \A r \in [f : F, w : W, d : D] : r = [f |-> r.f, w |-> r.w, d |-> r.d]
        OBVIOUS
      <3>2. \A r \in [f : {0}, w : {FALSE}, d : {FALSE}] : r.f = 0 /\ r.w = FALSE /\ r.d = FALSE
        OBVIOUS
      <3> QED BY <3>1, <3>2
    <2>4. Protected(e) = NoPte
      BY <2>2, <2>3 DEF NoPte
    <2> QED BY <1>2, <2>4, Fields
  <1> QED BY <1>1, <1>2

\* What copy_page_tables() leaves in the tables it copies
LEMMA ProtectEntry ==
  ASSUME IInv, NEW p \in Proc
  PROVE  /\ Protect(p) \in [Addr -> Pte \cup {NoPte}]
         /\ \A a \in Addr : /\ Protect(p)[a].f = pte[p][a].f /\ (Protect(p)[a].w => pte[p][a].w)
                            /\ (Protect(p)[a] # NoPte <=> Present(p, a))
                            /\ (a \in Copied(p) => Protect(p)[a].w = FALSE)
  <1>1. \A a \in Addr : Protect(p)[a] = IF a \in Copied(p) THEN Protected(pte[p][a]) ELSE pte[p][a]
    BY DEF Protect
  <1>2. \A a \in Addr : pte[p][a] \in Pte \cup {NoPte}
    BY DEF IInv, TypeOK
  <1>3. ASSUME NEW a \in Addr
        PROVE  /\ Protect(p)[a] \in Pte \cup {NoPte}
               /\ Protect(p)[a].f = pte[p][a].f /\ (Protect(p)[a].w => pte[p][a].w)
               /\ (Protect(p)[a] # NoPte <=> Present(p, a))
               /\ (a \in Copied(p) => Protect(p)[a].w = FALSE)
    <2>1. CASE a \in Copied(p)
      <3>1. Protect(p)[a] = Protected(pte[p][a])
        BY <1>1, <2>1
      <3>2. /\ Protected(pte[p][a]) \in Pte \cup {NoPte} /\ Protected(pte[p][a]).f = pte[p][a].f
            /\ Protected(pte[p][a]).w = FALSE /\ (Protected(pte[p][a]) # NoPte <=> pte[p][a] # NoPte)
        BY <1>2, ProtectedEntry
      <3> QED BY <3>1, <3>2 DEF Present
    <2>2. CASE a \notin Copied(p)
      BY <1>1, <1>2, <2>2 DEF Present
    <2> QED BY <2>1, <2>2
  <1>4. Protect(p) = [a \in Addr |-> Protect(p)[a]]
    BY DEF Protect
  <1> QED BY <1>3, <1>4

\* A process whose entries change, but for the one the kernel is about to write to
LEMMA ProcKeeps ==
  ASSUME IInv, NEW q \in Proc,
         \A b \in Addr : Present(q, b)' => Present(q, b),
         verified[q] \in Anon => pte'[q][verified[q]] = pte[q][verified[q]],
         dir'[q] = dir[q], taskPage'[q] = taskPage[q], exe'[q] = exe[q],
         loading'[q] = loading[q], verified'[q] = verified[q], args'[q] = args[q],
         args[q] # 0 => content'[args[q]] \in Val
  PROVE  ProcOK(q)'
  <1>1. ProcOK(q)
    BY DEF IInv, Procs
  <1>2. \A b \in Addr : Present(q, b)' => dir'[q][b] # 0
    BY <1>1 DEF ProcOK
  <1>3. (loading[q] # NoLoad => args[q] = 0 /\ ~Present(q, loading[q].a))'
    <2>1. CASE loading[q] # NoLoad
      <3>1. args[q] = 0 /\ ~Present(q, loading[q].a) /\ loading[q].a \in Exec
        BY <1>1, <2>1 DEF ProcOK, IInv, TypeOK
      <3>2. PICK b \in Addr : b = loading[q].a
        BY <3>1, Bounds
      <3>3. ~Present(q, b)'
        BY <3>1, <3>2
      <3> QED BY <3>1, <3>2, <3>3 DEF Present
    <2> QED BY <2>1
  <1>4. (verified[q] \in Anon /\ Present(q, verified[q]) => pte[q][verified[q]].w)'
    BY <1>1 DEF ProcOK, Present
  <1>5. Tables(q)' = Tables(q)
    BY DEF Tables
  <1> QED BY <1>1, <1>2, <1>3, <1>4, <1>5 DEF ProcOK

\* fork() without the memory for the tables
LEMMA ForkFailsInv ==
  ASSUME IInv, NEW p \in Proc, ForkFails(p)
  PROVE  IInv'
  <1>1. /\ pte' = [pte EXCEPT ![p] = Protect(p)] /\ event' = None
        /\ content' = [f \in Frame |-> IF mem_map[f] = 0 THEN 0 ELSE content[f]]
        /\ mem_map' = mem_map /\ taskPage' = taskPage /\ dir' = dir /\ exe' = exe
        /\ loading' = loading /\ verified' = verified /\ args' = args /\ verified[p] = 0
    BY DEF ForkFails, InProgram, quiet
  <1>2. /\ Protect(p) \in [Addr -> Pte \cup {NoPte}]
        /\ \A a \in Addr : /\ Protect(p)[a].f = pte[p][a].f /\ (Protect(p)[a].w => pte[p][a].w)
                           /\ (Protect(p)[a] # NoPte <=> Present(p, a))
    BY ProtectEntry
  <1>3. /\ pte' \in [Proc -> [Addr -> Pte \cup {NoPte}]] /\ pte'[p] = Protect(p)
        /\ \A q \in Proc : q # p => pte'[q] = pte[q]
    BY <1>1, <1>2 DEF IInv, TypeOK
  <1>4. \A q \in Proc, b \in Addr : pte'[q][b].f = pte[q][b].f /\ (pte'[q][b].w => pte[q][b].w)
    BY <1>2, <1>3
  <1>5. Uses' = Uses
    <2>1. Uses \in [Use -> Frame \cup {0}]
      BY DEF IInv, Counted, Counts
    <2>2. \A q \in Proc, b \in Addr : Uses[PageOf(q, b)] = pte'[q][b].f /\ Uses[TableOf(q, b)] = dir'[q][b]
      BY <1>1, <1>4, UsesNow
    <2>3. \A q \in Proc : Uses[TaskOf(q)] = taskPage'[q] /\ Uses[LoadOf(q)] = loading'[q].f /\ Uses[ArgsOf(q)] = args'[q]
      BY <1>1, UsesNow
    <2> QED BY <2>1, <2>2, <2>3, NextUses
  <1>6. Counted'
    BY <1>1, <1>5 DEF IInv, Counted
  <1>7. Sharing'
    <2>1. Shared(Uses, pte)
      BY DEF IInv, Sharing
    <2>2. Shared(Uses, pte')
      BY <1>4, <2>1, SharedSame
    <2> QED BY <1>5, <2>2 DEF Sharing
  <1>8. /\ content' \in [Frame -> Val \cup {Text(x) : x \in Program}]
        /\ \A f \in Frame : content'[f] = content[f] \/ mem_map[f] = 0
    BY <1>1, Fields DEF IInv, TypeOK
  <1>9. TypeOK'
    BY <1>1, <1>3, <1>8, Fields DEF IInv, TypeOK
  <1>10. ASSUME NEW q \in Proc PROVE ProcOK(q)'
    <2>1. args[q] # 0 => content'[args[q]] = content[args[q]] /\ content[args[q]] \in Val
      <3>1. ProcOK(q) /\ args[q] \in Frame \cup {0}
        BY DEF IInv, Procs, TypeOK
      <3>2. args[q] # 0 => mem_map[args[q]] # 0
        BY <3>1, FreeUnused
      <3> QED BY <1>8, <3>1, <3>2 DEF ProcOK
    <2>2. CASE q = p
      <3>1. \A b \in Addr : Present(p, b)' => Present(p, b)
        BY <1>2, <1>3 DEF Present
      <3>2. verified[p] \notin Anon
        BY <1>1, Bounds
      <3> QED BY <1>1, <2>1, <2>2, <3>1, <3>2, ProcKeeps
    <2>3. CASE q # p
      BY <1>1, <1>3, <2>1, <2>3, SameProc
    <2> QED BY <2>2, <2>3
  <1> QED BY <1>6, <1>7, <1>9, <1>10 DEF IInv, Procs

\* share_page()
LEMMA SharePageInv ==
  ASSUME IInv, NEW p \in Proc, NEW a \in Addr, SharePage(p, a)
  PROVE  IInv'
  <1>0. exe[p] # "none" /\ loading[p] = NoLoad /\ args[p] = 0 /\ ~Present(p, a) /\ a \in Exec
    BY DEF SharePage, NoPage, Lives
  <1>1. CASE dir[p][a] = 0 /\ ~HasFree(mem_map)
    <2>1. DoExit(p, mem_map)
      BY <1>1 DEF SharePage
    <2>2. Counts(mem_map, Put(Uses, LoadOf(p), 0))
      BY <1>0, NotLoading
    <2> QED BY <1>0, <2>1, <2>2, ExitKeeps
  <1>2. CASE ~(dir[p][a] = 0 /\ ~HasFree(mem_map))
    <2>1. PICK q \in Proc :
            /\ CanShare(p, q, a)
            /\ LET e == Protected(pte[q][a])
                   t == LastFree(mem_map)
                   need == dir[p][a] = 0
                   mm == IF need THEN Take(mem_map, t) ELSE mem_map
               IN  /\ pte' = [pte EXCEPT ![q][a] = e, ![p][a] = e]
                   /\ mem_map' = [mm EXCEPT ![e.f] = @ + 1]
                   /\ dir' = IF need THEN [dir EXCEPT ![p][a] = t] ELSE dir
                   /\ content' = IF need THEN Zeroed(content, t) ELSE content
                   /\ event' = None
                   /\ UNCHANGED <<taskPage, exe, quiet>>
      BY <1>2 DEF SharePage
    <2>2. PICK e \in Pte, g \in Frame : e = Protected(pte[q][a]) /\ e.f = g /\ e.w = FALSE /\ pte[q][a].f = g
      <3>1. Present(q, a) /\ pte[q][a] \in Pte \cup {NoPte}
        BY <2>1 DEF CanShare, IInv, TypeOK
      <3>2. pte[q][a].f \in Frame
        BY <3>1, PresentFrame DEF IInv
      <3>3. /\ Protected(pte[q][a]) \in Pte \cup {NoPte} /\ Protected(pte[q][a]).f = pte[q][a].f
            /\ Protected(pte[q][a]).w = FALSE /\ Protected(pte[q][a]) # NoPte
        BY <3>1, ProtectedEntry DEF Present
      <3> QED BY <3>2, <3>3
    <2>3. q # p /\ Present(q, a) /\ dir[q][a] # 0
      BY <2>1 DEF CanShare
    <2>4. /\ Uses \in [Use -> Frame \cup {0}] /\ Counts(mem_map, Uses) /\ Shared(Uses, pte)
          /\ PageOf(p, a) \in Use /\ TableOf(p, a) \in Use /\ PageOf(q, a) \in Use
          /\ TableOf(p, a) # PageOf(p, a) /\ TableOf(p, a) # PageOf(q, a)
          /\ Uses[PageOf(p, a)] = 0 /\ Uses[PageOf(q, a)] = g /\ Uses[TableOf(p, a)] = dir[p][a]
          /\ dir[p][a] \in Frame \cup {0}
      <3>1. pte[p][a].f = 0
        BY <1>0, PresentFrame DEF IInv
      <3>2. dir[p][a] \in Frame \cup {0}
        BY DEF IInv, TypeOK
      <3>3. Uses \in [Use -> Frame \cup {0}] /\ Counts(mem_map, Uses) /\ Shared(Uses, pte)
        BY DEF IInv, Counted, Counts, Sharing
      <3> QED BY <2>2, <3>1, <3>2, <3>3, UseForms, UseKinds, UsesNow
    <2>5. /\ event' = None /\ taskPage' = taskPage /\ exe' = exe /\ loading' = loading
          /\ verified' = verified /\ args' = args /\ pte' = [pte EXCEPT ![q][a] = e, ![p][a] = e]
      BY <2>1, <2>2 DEF quiet
    <2>6. \E h \in Frame, mm \in [Frame -> Nat] :
             /\ Counts(mm, Put(Uses, TableOf(p, a), h)) /\ mem_map' = [mm EXCEPT ![g] = @ + 1]
             /\ h = dir[p][a] \/ \A y \in Use : Uses[y] # h
             /\ dir' = [dir EXCEPT ![p][a] = h]
             /\ content' \in [Frame -> Val \cup {Text(y) : y \in Program}]
             /\ \A k \in Frame : (\E y \in Use : Uses[y] = k) => content'[k] = content[k]
      <3>1. CASE dir[p][a] = 0
        <4>1. PICK t \in Frame : t = LastFree(mem_map) /\ mem_map[t] = 0
          BY <1>2, <3>1, LastFreeFree
        <4>2. /\ mem_map' = [Take(mem_map, t) EXCEPT ![g] = @ + 1]
              /\ dir' = [dir EXCEPT ![p][a] = t] /\ content' = Zeroed(content, t)
          BY <2>1, <2>2, <3>1, <4>1
        <4>3. \A y \in Use : Uses[y] # t
          BY <4>1, FreeUnused
        <4>4. Counts(Take(mem_map, t), Put(Uses, TableOf(p, a), t))
          BY <2>4, <3>1, <4>1, TakeCount
        <4>5. Take(mem_map, t) \in [Frame -> Nat]
          BY <4>4 DEF Counts
        <4>6. content' \in [Frame -> Val \cup {Text(y) : y \in Program}]
          BY <4>2, Fields DEF Zeroed, IInv, TypeOK
        <4>7. \A k \in Frame : k # t => content'[k] = content[k]
          BY <4>2 DEF Zeroed, IInv, TypeOK
        <4> QED BY <4>2, <4>3, <4>4, <4>5, <4>6, <4>7
      <3>2. CASE dir[p][a] # 0
        <4>1. mem_map' = [mem_map EXCEPT ![g] = @ + 1] /\ dir' = dir /\ content' = content
          BY <2>1, <2>2, <3>2
        <4>2. Put(Uses, TableOf(p, a), dir[p][a]) = Uses
          BY <2>4 DEF Put
        <4>3. dir' = [dir EXCEPT ![p][a] = dir[p][a]]
          BY <4>1 DEF IInv, TypeOK
        <4>4. mem_map \in [Frame -> Nat] /\ content \in [Frame -> Val \cup {Text(y) : y \in Program}]
          BY DEF IInv, TypeOK
        <4> QED BY <2>4, <3>2, <4>1, <4>2, <4>3, <4>4
      <3> QED BY <3>1, <3>2
    <2>7. PICK h \in Frame, mm \in [Frame -> Nat] :
             /\ Counts(mm, Put(Uses, TableOf(p, a), h)) /\ mem_map' = [mm EXCEPT ![g] = @ + 1]
             /\ h = dir[p][a] \/ \A y \in Use : Uses[y] # h
             /\ dir' = [dir EXCEPT ![p][a] = h]
             /\ content' \in [Frame -> Val \cup {Text(y) : y \in Program}]
             /\ \A k \in Frame : (\E y \in Use : Uses[y] = k) => content'[k] = content[k]
      BY <2>6
    <2> DEFINE W == Put(Uses, TableOf(p, a), h)
               X == Put(W, PageOf(p, a), g)
    <2>8. W \in [Use -> Frame \cup {0}] /\ W[TableOf(p, a)] = h /\ \A y \in Use : y # TableOf(p, a) => W[y] = Uses[y]
      BY <2>4, PutAt
    <2> HIDE DEF W
    <2>9. mem_map' \in [Frame -> Nat] /\ \A k \in Frame : mem_map'[k] = IF k = g THEN mm[k] + 1 ELSE mm[k]
      BY <2>7
    <2>10. Counts(mem_map', X)
      <3>1. Counts(mm, W)
        BY <2>7 DEF W
      <3>2. W[PageOf(p, a)] = 0
        BY <2>4, <2>8
      <3> QED BY <2>4, <2>9, <3>1, <3>2, AddCount
    <2>11. X \in [Use -> Frame \cup {0}]
      BY <2>10 DEF Counts
    <2> HIDE DEF X
    <2>12. /\ pte' \in [Proc -> [Addr -> Pte \cup {NoPte}]] /\ pte'[p][a] = e /\ pte'[q][a] = e
           /\ \A r \in Proc, b \in Addr : <<r, b>> # <<p, a>> /\ <<r, b>> # <<q, a>> => pte'[r][b] = pte[r][b]
           /\ \A r \in Proc : r # p /\ r # q => pte'[r] = pte[r]
      BY <2>3, <2>5 DEF IInv, TypeOK
    <2>13. /\ dir' \in [Proc -> [Addr -> Frame \cup {0}]] /\ dir'[p][a] = h
           /\ \A r \in Proc, b \in Addr : <<r, b>> # <<p, a>> => dir'[r][b] = dir[r][b]
           /\ \A r \in Proc : r # p => dir'[r] = dir[r]
      BY <2>7 DEF IInv, TypeOK
    <2>14. Uses' = X
      <3>1. ASSUME NEW r \in Proc, NEW b \in Addr
            PROVE  X[PageOf(r, b)] = pte'[r][b].f /\ X[TableOf(r, b)] = dir'[r][b]
        <4>1. X[PageOf(r, b)] = (IF r = p /\ b = a THEN g ELSE W[PageOf(r, b)]) /\ X[TableOf(r, b)] = W[TableOf(r, b)]
          BY <2>8, PutEntry DEF X
        <4>2. W[PageOf(r, b)] = Uses[PageOf(r, b)] /\ W[TableOf(r, b)] = IF r = p /\ b = a THEN h ELSE Uses[TableOf(r, b)]
          BY <2>4, PutEntry DEF W
        <4>3. Uses[PageOf(r, b)] = pte[r][b].f /\ Uses[TableOf(r, b)] = dir[r][b]
          BY UsesNow
        <4>4. X[TableOf(r, b)] = dir'[r][b]
          BY <2>13, <4>1, <4>2, <4>3
        <4>5. CASE r = p /\ b = a
          BY <2>2, <2>12, <4>1, <4>4, <4>5
        <4>6. CASE r = q /\ b = a
          BY <2>2, <2>3, <2>12, <4>1, <4>2, <4>3, <4>4, <4>6
        <4>7. CASE ~(r = p /\ b = a) /\ ~(r = q /\ b = a)
          BY <2>12, <4>1, <4>2, <4>3, <4>4, <4>7
        <4> QED BY <4>5, <4>6, <4>7
      <3>2. ASSUME NEW r \in Proc
            PROVE  X[TaskOf(r)] = taskPage'[r] /\ X[LoadOf(r)] = loading'[r].f /\ X[ArgsOf(r)] = args'[r]
        <4>1. X[TaskOf(r)] = W[TaskOf(r)] /\ X[LoadOf(r)] = W[LoadOf(r)] /\ X[ArgsOf(r)] = W[ArgsOf(r)]
          BY <2>8, PutEntry DEF X
        <4>2. W[TaskOf(r)] = Uses[TaskOf(r)] /\ W[LoadOf(r)] = Uses[LoadOf(r)] /\ W[ArgsOf(r)] = Uses[ArgsOf(r)]
          BY <2>4, PutEntry DEF W
        <4> QED BY <2>5, <4>1, <4>2, UsesNow
      <3> QED BY <2>11, <3>1, <3>2, NextUses
    <2>15. Counted'
      BY <2>10, <2>14 DEF Counted
    <2>16. Sharing'
      <3>1. \A x, y \in Use : x # y /\ W[x] = W[y] /\ W[x] # 0 => Uses[x] = W[x] /\ Uses[y] = W[y]
        <4>1. CASE h = dir[p][a]
          BY <2>4, <2>8, <4>1
        <4>2. CASE \A y \in Use : Uses[y] # h
          BY <2>8, <4>2
        <4> QED BY <2>7, <4>1, <4>2
      <3>2. \A r \in Proc, b \in Addr : Uses[PageOf(r, b)] = W[PageOf(r, b)] /\ pte[r][b].w => pte[r][b].w
        OBVIOUS
      <3>3. Shared(W, pte)
        BY <2>4, <3>1, <3>2, SharedStays
      <3>4. W[PageOf(p, a)] = 0 /\ W[PageOf(q, a)] = g
        BY <2>4, <2>8
      <3>5. \A r \in Proc, b \in Addr : pte'[r][b].w => pte[r][b].w
        BY <2>2, <2>12
      <3>6. ~pte'[p][a].w /\ ~pte'[q][a].w
        BY <2>2, <2>12
      <3>7. Shared(X, pte')
        BY <2>8, <3>3, <3>4, <3>5, <3>6, SharedJoin DEF X
      <3> QED BY <2>14, <3>7 DEF Sharing
    <2>17. TypeOK'
      BY <2>5, <2>7, <2>9, <2>12, <2>13, Fields DEF IInv, TypeOK
    <2>18. ASSUME NEW r \in Proc PROVE ProcOK(r)'
      <3>0. ProcOK(r)
        BY DEF IInv, Procs
      <3>1. args[r] # 0 => content'[args[r]] = content[args[r]]
        <4>1. ArgsOf(r) \in Use /\ Uses[ArgsOf(r)] = args[r] /\ args[r] \in Frame \cup {0}
          BY UseForms, UsesNow DEF IInv, TypeOK
        <4> QED BY <2>7, <4>1
      <3>2. CASE r = p
        <4>1. \A b \in Addr : Present(p, b)' => dir'[p][b] # 0
          <5> TAKE b \in Addr
          <5>1. CASE b = a
            BY <2>13, <5>1, Bounds
          <5>2. CASE b # a
            BY <2>12, <2>13, <3>0, <3>2, <5>2 DEF ProcOK, Present
          <5> QED BY <5>1, <5>2
        <4>2. Tables(p)' # {}
          BY <2>13, Bounds DEF Tables
        <4>3. verified[p] \notin Anon
          BY <1>0, Bounds DEF SharePage, NoPage
        <4> QED BY <1>0, <2>5, <3>0, <3>2, <4>1, <4>2, <4>3 DEF ProcOK
      <3>3. CASE r = q
        <4>1. \A b \in Addr : Present(q, b)' => Present(q, b)
          <5> TAKE b \in Addr
          <5>1. CASE b = a
            BY <2>3, <5>1
          <5>2. CASE b # a
            BY <2>12, <5>2 DEF Present
          <5> QED BY <5>1, <5>2
        <4>2. verified[q] \in Anon => pte'[q][verified[q]] = pte[q][verified[q]]
          BY <1>0, <2>12, Bounds
        <4>3. args[q] # 0 => content'[args[q]] \in Val
          BY <3>0, <3>1, <3>3 DEF ProcOK
        <4> QED BY <2>3, <2>5, <2>13, <3>3, <4>1, <4>2, <4>3, ProcKeeps
      <3>4. CASE r # p /\ r # q
        BY <2>5, <2>12, <2>13, <3>1, <3>4, SameProc
      <3> QED BY <3>2, <3>3, <3>4
    <2> QED BY <2>15, <2>16, <2>17, <2>18 DEF IInv, Procs
  <1> QED BY <1>1, <1>2

\* The rest of do_execve(): the page table it needs is to be had, because those of
\* the old program have just been freed.
LEMMA DoExecveInv ==
  ASSUME IInv, NEW p \in Proc, NEW pad \in Exec \cup {0}, DoExecve(p, pad)
  PROVE  IInv'
  <1>a. PICK f \in Frame : f = args[p]
    BY DEF DoExecve, IInv, TypeOK
  <1>b. /\ exe[p] # "none" /\ loading[p] = NoLoad /\ taskPage[p] # 0 /\ Tables(p) # {} /\ content[f] \in Val
    <2>1. ProcOK(p) /\ f # 0
      BY Bounds DEF IInv, Procs
    <2> QED BY <1>a, <2>1 DEF ProcOK
  <1> DEFINE mm == Unmapped(mem_map, p)
             V == Unmap(Uses, p)
  <1>0. /\ Uses \in [Use -> Frame \cup {0}] /\ Shared(Uses, pte) /\ Counts(mem_map, Uses)
        /\ f \in Frame \cup {0} /\ 0 \in Frame \cup {0} /\ f # 0 /\ NAddr \in Addr
    BY Bounds DEF IInv, Counted, Counts, Sharing
  <1>1. Counts(mm, V)
    BY <1>0, UnmapCount, UsesNow
  <1>2. V \in [Use -> Frame \cup {0}]
    BY <1>1 DEF Counts
  <1>3. \A x \in Use : V[x] = IF \E a \in Addr : x = PageOf(p, a) \/ x = TableOf(p, a) THEN 0 ELSE Uses[x]
    BY DEF Unmap
  <1> HIDE DEF V
  <1>4. HasFree(mm)
    <2>1. PICK b \in Addr : dir[p][b] # 0
      BY <1>b DEF Tables
    <2>2. PICK k \in Frame : k = dir[p][b]
      BY <2>1 DEF IInv, TypeOK
    <2>3. TableOf(p, b) \in Use /\ Uses[TableOf(p, b)] = k /\ Kind(TableOf(p, b)) # "page" /\ k # 0
      BY <2>1, <2>2, UseForms, UsesNow, UseKinds
    <2>4. \A y \in Use : Uses[y] = k => y = TableOf(p, b)
      BY <2>3, OneUse
    <2>5. \A y \in Use : V[y] # k
      BY <1>3, <2>3, <2>4
    <2>6. mm[k] = 0
      BY <1>1, <2>5, CountUses
    <2> QED BY <2>6 DEF HasFree, Free
  <1>5. PICK t \in Frame : t = LastFree(mm) /\ mm[t] = 0
    BY <1>4, LastFreeFree
  <1>6. \A y \in Use : V[y] # t
    BY <1>1, <1>5, CountUses
  <1>7. /\ mem_map' = Take(mm, t) /\ content' = Zeroed(content, t)
        /\ dir' = [dir EXCEPT ![p] = [NoTables EXCEPT ![NAddr] = t]]
        /\ pte' = [pte EXCEPT ![p] = [Empty EXCEPT ![NAddr] = [f |-> f, w |-> TRUE, d |-> TRUE]]]
        /\ args' = [args EXCEPT ![p] = 0] /\ verified' = [verified EXCEPT ![p] = pad]
        /\ event' = Event("exec", p, NAddr, content[f])
        /\ taskPage' = taskPage /\ exe' = exe /\ loading' = loading
    BY <1>5, <1>a DEF DoExecve
  <1> HIDE DEF mm
  <1> DEFINE W == Put(V, TableOf(p, NAddr), t)
             Y == Put(W, ArgsOf(p), 0)
             X == Put(Y, PageOf(p, NAddr), f)
  <1>8. /\ PageOf(p, NAddr) \in Use /\ TableOf(p, NAddr) \in Use /\ ArgsOf(p) \in Use
        /\ TableOf(p, NAddr) # PageOf(p, NAddr) /\ TableOf(p, NAddr) # ArgsOf(p) /\ PageOf(p, NAddr) # ArgsOf(p)
        /\ \A a \in Addr : ArgsOf(p) # PageOf(p, a) /\ ArgsOf(p) # TableOf(p, a)
        /\ Uses[ArgsOf(p)] = f /\ Kind(ArgsOf(p)) # "page"
    BY <1>0, <1>a, UseForms, UseKinds, UsesNow
  <1>9. V[PageOf(p, NAddr)] = 0 /\ V[TableOf(p, NAddr)] = 0 /\ V[ArgsOf(p)] = f
    BY <1>0, <1>3, <1>8
  <1>10. W \in [Use -> Frame \cup {0}] /\ W[TableOf(p, NAddr)] = t /\ \A y \in Use : y # TableOf(p, NAddr) => W[y] = V[y]
    BY <1>2, <1>8, PutAt
  <1>11. Counts(mem_map', W)
    BY <1>1, <1>5, <1>7, <1>8, <1>9, TakeCount
  <1> HIDE DEF W
  <1>12. Y \in [Use -> Frame \cup {0}] /\ Y[ArgsOf(p)] = 0 /\ \A y \in Use : y # ArgsOf(p) => Y[y] = W[y]
    BY <1>0, <1>8, <1>10, PutAt
  <1>13. Counts(mem_map', X)
    <2>1. W[ArgsOf(p)] = f /\ W[PageOf(p, NAddr)] = 0
      BY <1>8, <1>9, <1>10
    <2> QED BY <1>8, <1>11, <2>1, HandOver
  <1> HIDE DEF Y
  <1>14. X \in [Use -> Frame \cup {0}] /\ X[PageOf(p, NAddr)] = f /\ \A y \in Use : y # PageOf(p, NAddr) => X[y] = Y[y]
    BY <1>0, <1>8, <1>12, PutAt
  <1> HIDE DEF X
  <1>15. /\ dir' \in [Proc -> [Addr -> Frame \cup {0}]] /\ dir'[p][NAddr] = t
         /\ \A a \in Addr : a # NAddr => dir'[p][a] = 0
         /\ \A q \in Proc : q # p => dir'[q] = dir[q]
    BY <1>0, <1>7 DEF IInv, TypeOK, NoTables
  <1>16. /\ pte' \in [Proc -> [Addr -> Pte \cup {NoPte}]] /\ pte'[p][NAddr] = [f |-> f, w |-> TRUE, d |-> TRUE]
         /\ \A a \in Addr : a # NAddr => pte'[p][a] = NoPte
         /\ \A q \in Proc : q # p => pte'[q] = pte[q]
    BY <1>0, <1>7 DEF IInv, TypeOK, Empty, Pte
  <1>17. /\ args' \in [Proc -> Frame \cup {0}] /\ args'[p] = 0 /\ \A q \in Proc : q # p => args'[q] = args[q]
         /\ verified' \in [Proc -> Addr \cup {0}] /\ verified'[p] = pad
         /\ \A q \in Proc : q # p => verified'[q] = verified[q]
    BY <1>7, Bounds DEF IInv, TypeOK
  <1>18. /\ content' \in [Frame -> Val \cup {Text(y) : y \in Program}]
         /\ \A g \in Frame : g # t => content'[g] = content[g]
    BY <1>7, Fields DEF IInv, TypeOK, Zeroed
  <1>19. Uses' = X
    <2>1. ASSUME NEW q \in Proc, NEW b \in Addr
          PROVE  X[PageOf(q, b)] = pte'[q][b].f /\ X[TableOf(q, b)] = dir'[q][b]
      <3>1. /\ X[PageOf(q, b)] = IF q = p /\ b = NAddr THEN f ELSE Y[PageOf(q, b)]
            /\ X[TableOf(q, b)] = Y[TableOf(q, b)]
        BY <1>0, <1>12, PutEntry DEF X
      <3>2. Y[PageOf(q, b)] = W[PageOf(q, b)] /\ Y[TableOf(q, b)] = W[TableOf(q, b)]
        BY <1>0, <1>10, PutUses DEF Y
      <3>3. /\ W[PageOf(q, b)] = V[PageOf(q, b)]
            /\ W[TableOf(q, b)] = IF q = p /\ b = NAddr THEN t ELSE V[TableOf(q, b)]
        BY <1>0, <1>2, PutEntry DEF W
      <3>4. PageOf(q, b) \in Use /\ TableOf(q, b) \in Use
        BY UseForms
      <3>5. CASE q = p
        <4>1. V[PageOf(q, b)] = 0 /\ V[TableOf(q, b)] = 0
          BY <1>3, <3>4, <3>5
        <4>2. X[TableOf(q, b)] = dir'[q][b]
          BY <1>15, <3>1, <3>2, <3>3, <3>5, <4>1
        <4>3. CASE b = NAddr
          BY <1>16, <3>1, <3>5, <4>2, <4>3
        <4>4. CASE b # NAddr
          BY <1>16, <3>1, <3>2, <3>3, <3>5, <4>1, <4>2, <4>4, Fields
        <4> QED BY <4>3, <4>4
      <3>6. CASE q # p
        <4>1. \A a \in Addr : /\ PageOf(q, b) # PageOf(p, a) /\ PageOf(q, b) # TableOf(p, a)
                              /\ TableOf(q, b) # PageOf(p, a) /\ TableOf(q, b) # TableOf(p, a)
          BY <3>6, UseKinds
        <4>2. V[PageOf(q, b)] = Uses[PageOf(q, b)] /\ V[TableOf(q, b)] = Uses[TableOf(q, b)]
          BY <1>3, <3>4, <4>1
        <4>3. Uses[PageOf(q, b)] = pte[q][b].f /\ Uses[TableOf(q, b)] = dir[q][b]
          BY UsesNow
        <4> QED BY <1>15, <1>16, <3>1, <3>2, <3>3, <3>6, <4>2, <4>3
      <3> QED BY <3>5, <3>6
    <2>2. ASSUME NEW q \in Proc
          PROVE  X[TaskOf(q)] = taskPage'[q] /\ X[LoadOf(q)] = loading'[q].f /\ X[ArgsOf(q)] = args'[q]
      <3>1. X[TaskOf(q)] = Y[TaskOf(q)] /\ X[LoadOf(q)] = Y[LoadOf(q)] /\ X[ArgsOf(q)] = Y[ArgsOf(q)]
        BY <1>0, <1>12, PutEntry DEF X
      <3>2. /\ Y[TaskOf(q)] = W[TaskOf(q)] /\ Y[LoadOf(q)] = W[LoadOf(q)]
            /\ Y[ArgsOf(q)] = IF q = p THEN 0 ELSE W[ArgsOf(q)]
        BY <1>0, <1>10, PutUses DEF Y
      <3>3. W[TaskOf(q)] = V[TaskOf(q)] /\ W[LoadOf(q)] = V[LoadOf(q)] /\ W[ArgsOf(q)] = V[ArgsOf(q)]
        BY <1>0, <1>2, PutEntry DEF W
      <3>4. TaskOf(q) \in Use /\ LoadOf(q) \in Use /\ ArgsOf(q) \in Use
        BY UseForms
      <3>5. \A b \in Addr : /\ TaskOf(q) # PageOf(p, b) /\ TaskOf(q) # TableOf(p, b)
                            /\ LoadOf(q) # PageOf(p, b) /\ LoadOf(q) # TableOf(p, b)
                            /\ ArgsOf(q) # PageOf(p, b) /\ ArgsOf(q) # TableOf(p, b)
        BY UseKinds
      <3>6. V[TaskOf(q)] = Uses[TaskOf(q)] /\ V[LoadOf(q)] = Uses[LoadOf(q)] /\ V[ArgsOf(q)] = Uses[ArgsOf(q)]
        BY <1>3, <3>4, <3>5
      <3>7. Uses[TaskOf(q)] = taskPage[q] /\ Uses[LoadOf(q)] = loading[q].f /\ Uses[ArgsOf(q)] = args[q]
        BY UsesNow
      <3> QED BY <1>7, <1>17, <3>1, <3>2, <3>3, <3>6, <3>7
    <2> QED BY <1>14, <2>1, <2>2, NextUses
  <1>20. Counted'
    BY <1>13, <1>19 DEF Counted
  <1>21. Sharing'
    <2>1. \A y \in Use : Uses[y] = f => y = ArgsOf(p)
      BY <1>0, <1>8, OneUse
    <2>2. \A y \in Use : /\ y = PageOf(p, NAddr) => X[y] = f
                         /\ y = TableOf(p, NAddr) => X[y] = t
                         /\ y = ArgsOf(p) => X[y] = 0
                         /\ y # PageOf(p, NAddr) /\ y # TableOf(p, NAddr) /\ y # ArgsOf(p) => X[y] = V[y]
      BY <1>8, <1>10, <1>12, <1>14
    <2>3. \A y \in Use : V[y] = 0 \/ V[y] = Uses[y]
      BY <1>3
    <2>4. f # t
      BY <1>6, <1>8, <1>9
    <2>5. ASSUME NEW x \in Use, NEW y \in Use, x # y, X[x] = X[y], X[x] # 0
          PROVE  Uses[x] = X[x]
      <3>1. x # ArgsOf(p) /\ y # ArgsOf(p)
        BY <2>2, <2>5
      <3>2. x # PageOf(p, NAddr)
        BY <2>1, <2>2, <2>3, <2>4, <2>5, <3>1
      <3>3. x # TableOf(p, NAddr)
        BY <1>6, <2>2, <2>4, <2>5, <3>1
      <3> QED BY <2>2, <2>3, <2>5, <3>1, <3>2, <3>3
    <2>6. \A x, y \in Use : x # y /\ X[x] = X[y] /\ X[x] # 0 => Uses[x] = X[x] /\ Uses[y] = X[y]
      BY <2>5
    <2>7. ASSUME NEW q \in Proc, NEW b \in Addr, Uses[PageOf(q, b)] = X[PageOf(q, b)], pte'[q][b].w
          PROVE  pte[q][b].w
      <3>1. CASE q = p /\ b = NAddr
        BY <1>8, <2>1, <2>2, <2>7, <3>1
      <3>2. CASE q = p /\ b # NAddr
        BY <1>16, <2>7, <3>2, Fields
      <3>3. CASE q # p
        BY <1>16, <2>7, <3>3
      <3> QED BY <3>1, <3>2, <3>3
    <2>8. Shared(X, pte')
      BY <1>0, <2>6, <2>7, SharedStays
    <2> QED BY <1>19, <2>8 DEF Sharing
  <1>22. TypeOK'
    <2>1. mem_map' \in [Frame -> Nat]
      BY <1>13 DEF Counts
    <2>2. event' \in [op : {"none", "write", "fork", "exec", "exit"}, p : Proc \cup {0},
                      q : Proc \cup Addr \cup {0}, v : Val]
      BY <1>0, <1>7, <1>b, Fields
    <2> QED BY <1>7, <1>15, <1>16, <1>17, <1>18, <2>1, <2>2 DEF IInv, TypeOK
  <1>23. ASSUME NEW q \in Proc PROVE ProcOK(q)'
    <2>1. CASE q = p
      <3>1. \A b \in Addr : Present(p, b)' => dir'[p][b] # 0
        BY <1>15, <1>16, Bounds DEF Present
      <3>2. Tables(p)' # {}
        BY <1>0, <1>15, Bounds DEF Tables
      <3>3. pad \notin Anon
        BY Bounds
      <3> QED BY <1>7, <1>17, <1>b, <2>1, <3>1, <3>2, <3>3 DEF ProcOK
    <2>2. CASE q # p
      <3>1. args[q] # 0 => content'[args[q]] = content[args[q]]
        <4>1. ArgsOf(q) \in Use /\ Uses[ArgsOf(q)] = args[q] /\ args[q] \in Frame \cup {0}
          BY UseForms, UsesNow DEF IInv, TypeOK
        <4>2. \A b \in Addr : ArgsOf(q) # PageOf(p, b) /\ ArgsOf(q) # TableOf(p, b)
          BY UseKinds
        <4>3. V[ArgsOf(q)] = args[q]
          BY <1>3, <4>1, <4>2
        <4> QED BY <1>6, <1>18, <4>1, <4>3
      <3> QED BY <1>7, <1>15, <1>16, <1>17, <2>2, <3>1, SameProc
    <2> QED BY <2>1, <2>2
  <1> QED BY <1>20, <1>21, <1>22, <1>23 DEF IInv, Procs

\* The mapping after a step is of the right type when the variables are.
LEMMA UsesType ==
  ASSUME pte' \in [Proc -> [Addr -> Pte \cup {NoPte}]], dir' \in [Proc -> [Addr -> Frame \cup {0}]],
         taskPage' \in [Proc -> Frame \cup {0}], args' \in [Proc -> Frame \cup {0}],
         loading' \in [Proc -> [a : Exec, f : Frame] \cup {NoLoad}]
  PROVE  Uses' \in [Use -> Frame \cup {0}]
  <1>1. \A e \in Pte \cup {NoPte} : e.f \in Frame \cup {0}
    BY DEF Pte, NoPte
  <1>2. \A l \in [a : Exec, f : Frame] \cup {NoLoad} : l.f \in Frame \cup {0}
    BY DEF NoLoad
  <1>3. ASSUME NEW x \in Use PROVE Uses'[x] \in Frame \cup {0}
    <2>1. CASE \E p \in Proc, a \in Addr : x = PageOf(p, a) \/ x = TableOf(p, a)
      <3>1. PICK p \in Proc, a \in Addr : x = PageOf(p, a) \/ x = TableOf(p, a)
        BY <2>1
      <3>2. pte'[p][a] \in Pte \cup {NoPte} /\ dir'[p][a] \in Frame \cup {0}
        OBVIOUS
      <3>3. Uses'[PageOf(p, a)] = pte'[p][a].f /\ Uses'[TableOf(p, a)] = dir'[p][a]
        BY UsesNext
      <3>4. pte'[p][a].f \in Frame \cup {0}
        BY <1>1, <3>2
      <3> QED BY <3>1, <3>2, <3>3, <3>4
    <2>2. CASE \E p \in Proc : x = TaskOf(p) \/ x = LoadOf(p) \/ x = ArgsOf(p)
      <3>1. PICK p \in Proc : x = TaskOf(p) \/ x = LoadOf(p) \/ x = ArgsOf(p)
        BY <2>2
      <3>2. /\ taskPage'[p] \in Frame \cup {0} /\ args'[p] \in Frame \cup {0}
            /\ loading'[p] \in [a : Exec, f : Frame] \cup {NoLoad}
        OBVIOUS
      <3>3. Uses'[TaskOf(p)] = taskPage'[p] /\ Uses'[LoadOf(p)] = loading'[p].f /\ Uses'[ArgsOf(p)] = args'[p]
        BY UsesNext
      <3>4. loading'[p].f \in Frame \cup {0}
        BY <1>2, <3>2
      <3> QED BY <3>1, <3>2, <3>3, <3>4
    <2> QED BY <2>1, <2>2, UseForms
  <1> QED BY <1>3, UsesFunction

\* fork()
LEMMA ForkInv ==
  ASSUME IInv, NEW p \in Proc, NEW c \in Proc, Fork(p, c)
  PROVE  IInv'
  <1>1. /\ exe[p] # "none" /\ loading[p] = NoLoad /\ args[p] = 0 /\ verified[p] = 0
        /\ taskPage[c] = 0 /\ HasFree(mem_map) /\ Copied(p) = Tables(p)
    BY DEF Fork, InProgram, Lives
  <1>2. /\ exe[c] = "none" /\ dir[c] = NoTables /\ loading[c] = NoLoad /\ args[c] = 0 /\ verified[c] = 0
        /\ \A a \in Addr : dir[c][a] = 0 /\ ~Present(c, a) /\ pte[c][a].f = 0
    <2>1. ProcOK(c)
      BY DEF IInv, Procs
    <2>2. exe[c] = "none" /\ dir[c] = NoTables /\ loading[c] = NoLoad /\ args[c] = 0 /\ verified[c] = 0
      BY <1>1, <2>1 DEF ProcOK
    <2>3. \A a \in Addr : dir[c][a] = 0
      BY <2>2 DEF NoTables
    <2>4. \A a \in Addr : ~Present(c, a)
      BY <2>1, <2>3 DEF ProcOK
    <2>5. \A a \in Addr : pte[c][a].f = 0
      BY <2>4, PresentFrame DEF IInv
    <2> QED BY <2>2, <2>3, <2>4, <2>5
  <1>3. p # c
    BY <1>1, <1>2
  <1>4. ProcOK(p) /\ taskPage[p] # 0 /\ Tables(p) # {} /\ (\A a \in Addr : Present(p, a) => a \in Tables(p))
    <2>1. ProcOK(p)
      BY DEF IInv, Procs
    <2> QED BY <1>1, <2>1 DEF ProcOK, Tables
  <1>5. PICK t \in Frame : t = LastFree(mem_map) /\ mem_map[t] = 0
    BY <1>1, LastFreeFree
  <1>6. \A a \in Tables(p) : /\ TableFrame(p, a) \in Frame /\ mem_map[TableFrame(p, a)] = 0
                             /\ TableFrame(p, a) # t
                             /\ \A b \in Tables(p) : TableFrame(p, b) = TableFrame(p, a) => b = a
    BY <1>1, <1>5, TableFrames
  <1> DEFINE N == {t} \cup {TableFrame(p, a) : a \in Tables(p)}
             mm == [f \in Frame |-> mem_map[f] + Refs(p, f)]
             W == Copy(Uses, p, c)
  <1>7. N \in SUBSET Frame /\ \A f \in N : mem_map[f] = 0
    BY <1>5, <1>6
  <1>8. /\ taskPage' = [taskPage EXCEPT ![c] = t] /\ exe' = [exe EXCEPT ![c] = exe[p]]
        /\ mem_map' = [f \in Frame |-> IF f \in N THEN 1 ELSE mem_map[f] + Refs(p, f)]
        /\ content' = [f \in Frame |-> IF f \in N THEN 0 ELSE content[f]]
        /\ dir' = [dir EXCEPT ![c] = [a \in Addr |-> IF a \in Tables(p) THEN TableFrame(p, a) ELSE 0]]
        /\ pte' = [pte EXCEPT ![c] = Protect(p), ![p] = Protect(p)]
        /\ event' = Event("fork", p, c, 0)
        /\ loading' = loading /\ verified' = verified /\ args' = args
    BY <1>1, <1>5 DEF Fork, quiet
  <1> HIDE DEF N
  <1>9. /\ Protect(p) \in [Addr -> Pte \cup {NoPte}]
        /\ \A a \in Addr : /\ Protect(p)[a].f = pte[p][a].f /\ (Protect(p)[a].w => pte[p][a].w)
                           /\ (Protect(p)[a] # NoPte <=> Present(p, a))
                           /\ (a \in Tables(p) => Protect(p)[a].w = FALSE)
    BY <1>1, ProtectEntry
  <1>10. /\ pte' \in [Proc -> [Addr -> Pte \cup {NoPte}]] /\ pte'[p] = Protect(p) /\ pte'[c] = Protect(p)
         /\ \A q \in Proc : q # p /\ q # c => pte'[q] = pte[q]
    BY <1>3, <1>8, <1>9 DEF IInv, TypeOK
  <1>11. /\ dir' \in [Proc -> [Addr -> Frame \cup {0}]]
         /\ \A a \in Addr : dir'[c][a] = IF a \in Tables(p) THEN TableFrame(p, a) ELSE 0
         /\ \A q \in Proc : q # c => dir'[q] = dir[q]
    BY <1>6, <1>8 DEF IInv, TypeOK
  <1>12. /\ taskPage' \in [Proc -> Frame \cup {0}] /\ taskPage'[c] = t
         /\ exe' \in [Proc -> Program \cup {"none"}] /\ exe'[c] = exe[p]
         /\ \A q \in Proc : q # c => taskPage'[q] = taskPage[q] /\ exe'[q] = exe[q]
    BY <1>8 DEF IInv, TypeOK
  <1>13. /\ content' \in [Frame -> Val \cup {Text(y) : y \in Program}]
         /\ \A f \in Frame : mem_map[f] # 0 => content'[f] = content[f]
    BY <1>7, <1>8, Fields DEF IInv, TypeOK
  <1>14. Uses \in [Use -> Frame \cup {0}] /\ Counts(mem_map, Uses) /\ Shared(Uses, pte)
    BY DEF IInv, Counted, Counts, Sharing
  <1>15. Uses' \in [Use -> Frame \cup {0}]
    BY <1>8, <1>10, <1>11, <1>12, UsesType DEF IInv, TypeOK
  <1>16. Counts(mm, W)
    BY <1>2, <1>14, CopyCount, UsesNow
  <1>17. /\ \A a \in Addr : W[PageOf(c, a)] = Uses[PageOf(p, a)]
         /\ \A x \in Use : (\A a \in Addr : x # PageOf(c, a)) => W[x] = Uses[x]
    BY <1>14, CopyAt
  <1> HIDE DEF W, mm
  <1>18. \A f \in N : \A x \in Use : W[x] # f
    <2> TAKE f \in N
    <2> TAKE x \in Use
    <2>1. \A y \in Use : Uses[y] # f
      BY <1>7, FreeUnused
    <2>2. CASE \E a \in Addr : x = PageOf(c, a)
      BY <1>17, <2>1, <2>2, UseForms
    <2>3. CASE \A a \in Addr : x # PageOf(c, a)
      BY <1>17, <2>1, <2>3
    <2> QED BY <2>2, <2>3
  <1>19. /\ Uses'[TaskOf(c)] = t /\ W[TaskOf(c)] = 0
         /\ \A a \in Addr : W[TableOf(c, a)] = 0
         /\ \A a \in Addr : Uses'[TableOf(c, a)] = IF a \in Tables(p) THEN TableFrame(p, a) ELSE 0
    <2>1. TaskOf(c) \in Use /\ \A a \in Addr : TaskOf(c) # PageOf(c, a)
      BY UseForms, UseKinds
    <2>2. \A a \in Addr : TableOf(c, a) \in Use /\ \A b \in Addr : TableOf(c, a) # PageOf(c, b)
      BY UseForms, UseKinds
    <2>3. W[TaskOf(c)] = 0
      BY <1>1, <1>17, <2>1, UsesNow
    <2>4. \A a \in Addr : W[TableOf(c, a)] = 0
      BY <1>2, <1>17, <2>2, UsesNow
    <2> QED BY <1>11, <1>12, <2>3, <2>4, UsesNext
  <1>20. ASSUME NEW x \in Use, x # TaskOf(c), \A a \in Addr : x # TableOf(c, a)
         PROVE  Uses'[x] = W[x]
    <2>1. CASE \E q \in Proc, a \in Addr : x = PageOf(q, a)
      <3>1. PICK q \in Proc, a \in Addr : x = PageOf(q, a)
        BY <2>1
      <3>2. Uses'[x] = pte'[q][a].f /\ Uses[x] = pte[q][a].f /\ Uses[PageOf(p, a)] = pte[p][a].f
        BY <3>1, UsesNow, UsesNext
      <3>3. CASE q = c
        <4>1. W[x] = pte[p][a].f
          BY <1>17, <3>1, <3>2, <3>3
        <4> QED BY <1>9, <1>10, <3>2, <3>3, <4>1
      <3>4. CASE q # c
        <4>1. \A b \in Addr : x # PageOf(c, b)
          BY <3>1, <3>4, UseKinds
        <4>2. W[x] = Uses[x]
          BY <1>17, <4>1
        <4>3. pte'[q][a].f = pte[q][a].f
          BY <1>9, <1>10, <3>4
        <4> QED BY <3>2, <4>2, <4>3
      <3> QED BY <3>3, <3>4
    <2>2. CASE \E q \in Proc, a \in Addr : x = TableOf(q, a)
      <3>1. PICK q \in Proc, a \in Addr : x = TableOf(q, a)
        BY <2>2
      <3>2. Uses'[x] = dir'[q][a] /\ Uses[x] = dir[q][a]
        BY <3>1, UsesNow, UsesNext
      <3>3. q # c /\ \A b \in Addr : x # PageOf(c, b)
        BY <1>20, <3>1, UseKinds
      <3> QED BY <1>11, <1>17, <3>2, <3>3
    <2>3. CASE \E q \in Proc : x = TaskOf(q) \/ x = LoadOf(q) \/ x = ArgsOf(q)
      <3>1. PICK q \in Proc : x = TaskOf(q) \/ x = LoadOf(q) \/ x = ArgsOf(q)
        BY <2>3
      <3>2. /\ Uses'[TaskOf(q)] = taskPage'[q] /\ Uses'[LoadOf(q)] = loading'[q].f /\ Uses'[ArgsOf(q)] = args'[q]
            /\ Uses[TaskOf(q)] = taskPage[q] /\ Uses[LoadOf(q)] = loading[q].f /\ Uses[ArgsOf(q)] = args[q]
        BY UsesNow, UsesNext
      <3>3. \A b \in Addr : x # PageOf(c, b)
        BY <3>1, UseKinds
      <3>4. W[x] = Uses[x]
        BY <1>17, <3>3
      <3>5. x = TaskOf(q) => q # c
        BY <1>20
      <3> QED BY <1>8, <1>12, <3>1, <3>2, <3>4, <3>5
    <2> QED BY <2>1, <2>2, <2>3, UseForms
  <1>21. ASSUME NEW f \in N
         PROVE  \E x \in Use : Uses'[x] = f /\ \A y \in Use : Uses'[y] = f => y = x
    <2>0. ASSUME NEW y \in Use, Uses'[y] = f
          PROVE  y = TaskOf(c) \/ \E a \in Tables(p) : y = TableOf(c, a)
      <3>1. f # 0
        BY <1>7, Bounds
      <3>2. y = TaskOf(c) \/ \E a \in Addr : y = TableOf(c, a)
        BY <1>18, <1>20, <2>0
      <3> QED BY <1>19, <2>0, <3>1, <3>2
    <2>1. CASE f = t
      <3>1. \A a \in Tables(p) : Uses'[TableOf(c, a)] # f
        BY <1>6, <1>19, <2>1 DEF Tables
      <3>2. \A y \in Use : Uses'[y] = f => y = TaskOf(c)
        BY <2>0, <3>1
      <3> QED BY <1>19, <2>1, <3>2, UseForms
    <2>2. CASE f # t
      <3>1. PICK a \in Tables(p) : f = TableFrame(p, a)
        BY <2>2 DEF N
      <3>2. a \in Addr /\ TableOf(c, a) \in Use /\ Uses'[TableOf(c, a)] = f
        BY <1>19, <3>1, UseForms DEF Tables
      <3>3. \A b \in Tables(p) : Uses'[TableOf(c, b)] = f => b = a
        BY <1>6, <1>19, <3>1 DEF Tables
      <3>4. \A y \in Use : Uses'[y] = f => y = TableOf(c, a)
        BY <1>19, <2>0, <2>2, <3>3
      <3> QED BY <3>2, <3>4
    <2> QED BY <2>1, <2>2
  <1>22. \A f \in Frame \ N : \A x \in Use : Uses'[x] = f <=> W[x] = f
    <2> TAKE f \in Frame \ N
    <2> TAKE x \in Use
    <2>0. f # 0 /\ f # t /\ \A a \in Tables(p) : TableFrame(p, a) # f
      BY Bounds DEF N
    <2>1. CASE x = TaskOf(c)
      BY <1>19, <2>0, <2>1
    <2>2. CASE \E a \in Addr : x = TableOf(c, a)
      BY <1>19, <2>0, <2>2
    <2>3. CASE x # TaskOf(c) /\ \A a \in Addr : x # TableOf(c, a)
      BY <1>20, <2>3
    <2> QED BY <2>1, <2>2, <2>3
  <1>23. Counted'
    <2>1. mem_map' = [f \in Frame |-> IF f \in N THEN 1 ELSE mm[f]]
      BY <1>8 DEF mm
    <2>2. Counts(mem_map', Uses')
      BY <1>7, <1>15, <1>16, <1>21, <1>22, <2>1, NewCount
    <2> QED BY <2>2 DEF Counted
  <1>24. Sharing'
    <2>1. \A a \in Addr : Uses[PageOf(c, a)] = 0
      BY <1>2, UsesNow
    <2>2. \A a \in Addr : Uses[PageOf(p, a)] # 0 => ~pte'[p][a].w /\ ~pte'[c][a].w
      <3> TAKE a \in Addr
      <3>1. Uses[PageOf(p, a)] # 0 => Present(p, a)
        BY PresentFrame, UsesNow DEF IInv
      <3> QED BY <1>4, <1>9, <1>10, <3>1
    <2>3. \A r \in Proc, b \in Addr : r # c /\ pte'[r][b].w => pte[r][b].w
      BY <1>9, <1>10
    <2>4. Shared(W, pte')
      BY <1>3, <1>14, <2>1, <2>2, <2>3, SharedCopy DEF W
    <2>5. ASSUME NEW x \in Use, NEW y \in Use, x # y, Uses'[x] = Uses'[y], Uses'[x] # 0
          PROVE  Uses'[x] \notin N
      BY <1>21, <2>5
    <2>6. ASSUME NEW x \in Use, Uses'[x] # 0, Uses'[x] \notin N PROVE W[x] = Uses'[x]
      <3>1. Uses'[x] \in Frame
        BY <1>15, <2>6
      <3> QED BY <1>22, <2>6, <3>1
    <2>7. \A x, y \in Use : x # y /\ Uses'[x] = Uses'[y] /\ Uses'[x] # 0 => W[x] = Uses'[x] /\ W[y] = Uses'[y]
      BY <2>5, <2>6
    <2>8. \A r \in Proc, b \in Addr : W[PageOf(r, b)] = Uses'[PageOf(r, b)] /\ pte'[r][b].w => pte'[r][b].w
      OBVIOUS
    <2>9. Shared(Uses', pte')
      BY <2>4, <2>7, <2>8, SharedStays
    <2> QED BY <2>9 DEF Sharing
  <1>25. TypeOK'
    <2>1. mem_map' \in [Frame -> Nat]
      BY <1>23 DEF Counted, Counts
    <2> QED BY <1>8, <1>10, <1>11, <1>12, <1>13, <2>1, Fields DEF IInv, TypeOK
  <1>26. ASSUME NEW q \in Proc PROVE ProcOK(q)'
    <2>1. args[q] # 0 => content'[args[q]] = content[args[q]] /\ content[args[q]] \in Val
      <3>1. ProcOK(q) /\ args[q] \in Frame \cup {0}
        BY DEF IInv, Procs, TypeOK
      <3>2. args[q] # 0 => mem_map[args[q]] # 0
        BY <3>1, FreeUnused
      <3> QED BY <1>13, <3>1, <3>2 DEF ProcOK
    <2>2. CASE q = p
      <3>1. \A b \in Addr : Present(p, b)' => Present(p, b)
        BY <1>9, <1>10 DEF Present
      <3>2. verified[p] \notin Anon
        BY <1>1, Bounds
      <3> QED BY <1>3, <1>8, <1>11, <1>12, <2>1, <2>2, <3>1, <3>2, ProcKeeps
    <2>3. CASE q = c
      <3>1. \A b \in Addr : Present(c, b)' => dir'[c][b] # 0
        <4> TAKE b \in Addr
        <4>1. Present(c, b)' => b \in Tables(p)
          BY <1>4, <1>9, <1>10 DEF Present
        <4>2. b \in Tables(p) => dir'[c][b] # 0
          BY <1>6, <1>11, Bounds
        <4> QED BY <4>1, <4>2
      <3>2. Tables(c)' # {}
        <4>1. PICK b \in Addr : b \in Tables(p)
          BY <1>4 DEF Tables
        <4>2. dir'[c][b] # 0
          BY <1>6, <1>11, <4>1, Bounds
        <4> QED BY <4>2 DEF Tables
      <3>3. taskPage'[c] # 0 /\ exe'[c] # "none" /\ loading'[c] = NoLoad /\ args'[c] = 0 /\ verified'[c] = 0
        BY <1>1, <1>2, <1>8, <1>12, Bounds
      <3>4. verified'[c] \notin Anon
        BY <3>3, Bounds
      <3> QED BY <2>3, <3>1, <3>2, <3>3, <3>4 DEF ProcOK
    <2>4. CASE q # p /\ q # c
      BY <1>8, <1>10, <1>11, <1>12, <2>1, <2>4, SameProc
    <2> QED BY <2>2, <2>3, <2>4
  <1> QED BY <1>23, <1>24, <1>25, <1>26 DEF IInv, Procs

-----------------------------------------------------------------------------
(* The invariant holds *)

\* The first process has a task page, a table and a page.
LEMMA InitInv == Init => IInv
  <1> SUFFICES ASSUME Init PROVE IInv
    OBVIOUS
  <1>0. /\ NFrames \in Frame /\ NFrames - 1 \in Frame /\ NFrames - 2 \in Frame
        /\ NFrames # NFrames - 1 /\ NFrames # NFrames - 2 /\ NFrames - 1 # NFrames - 2
        /\ NFrames # 0 /\ NFrames - 1 # 0 /\ NFrames - 2 # 0
        /\ 1 \in Proc /\ NAddr \in Addr
    BY MemoryAssumption, Bounds
  <1>1. PICK f1 \in Frame, f2 \in Frame, f3 \in Frame : f1 = NFrames /\ f2 = NFrames - 1 /\ f3 = NFrames - 2
    BY <1>0
  <1>2. f1 # f2 /\ f1 # f3 /\ f2 # f3 /\ f1 # 0 /\ f2 # 0 /\ f3 # 0
    BY <1>0, <1>1
  <1>3. /\ dir \in [Proc -> [Addr -> Frame \cup {0}]] /\ dir[1][NAddr] = f3
        /\ \A a \in Addr : a # NAddr => dir[1][a] = 0
        /\ \A q \in Proc : q # 1 => dir[q] = NoTables
        /\ \A q \in Proc, a \in Addr : q # 1 => dir[q][a] = 0
    BY <1>0, <1>1 DEF Init, NoTables
  <1>4. /\ pte \in [Proc -> [Addr -> Pte \cup {NoPte}]] /\ pte[1][NAddr] = [f |-> f2, w |-> TRUE, d |-> TRUE]
        /\ \A a \in Addr : a # NAddr => pte[1][a] = NoPte
        /\ \A q \in Proc, a \in Addr : q # 1 => pte[q][a] = NoPte
    BY <1>0, <1>1 DEF Init, Empty, Pte
  <1>5. /\ taskPage \in [Proc -> Frame \cup {0}] /\ taskPage[1] = f1 /\ \A q \in Proc : q # 1 => taskPage[q] = 0
        /\ exe \in [Proc -> Program \cup {"none"}] /\ exe[1] # "none" /\ \A q \in Proc : q # 1 => exe[q] = "none"
    BY <1>0, <1>1 DEF Init, Program
  <1>6. /\ loading = [q \in Proc |-> NoLoad] /\ verified = [q \in Proc |-> 0] /\ args = [q \in Proc |-> 0]
        /\ event = None /\ content = [f \in Frame |-> 0]
    BY DEF Init
  <1>7. TypeOK
    <2>1. mem_map \in [Frame -> Nat]
      BY DEF Init
    <2> QED BY <1>3, <1>4, <1>5, <1>6, <2>1, Fields DEF TypeOK
  <1>8. /\ PageOf(1, NAddr) \in Use /\ TableOf(1, NAddr) \in Use /\ TaskOf(1) \in Use
        /\ Uses[PageOf(1, NAddr)] = f2 /\ Uses[TableOf(1, NAddr)] = f3 /\ Uses[TaskOf(1)] = f1
    <2>1. Uses[PageOf(1, NAddr)] = pte[1][NAddr].f /\ Uses[TableOf(1, NAddr)] = dir[1][NAddr] /\ Uses[TaskOf(1)] = taskPage[1]
      BY <1>0, UsesNow
    <2> QED BY <1>0, <1>3, <1>4, <1>5, <2>1, UseForms
  <1>9. ASSUME NEW x \in Use, x # PageOf(1, NAddr), x # TableOf(1, NAddr), x # TaskOf(1)
        PROVE  Uses[x] = 0
    <2>1. CASE \E q \in Proc, a \in Addr : x = PageOf(q, a)
      <3>1. PICK q \in Proc, a \in Addr : x = PageOf(q, a)
        BY <2>1
      <3>2. Uses[x] = pte[q][a].f
        BY <3>1, UsesNow
      <3>3. ~(q = 1 /\ a = NAddr)
        BY <1>9, <3>1
      <3> QED BY <1>4, <3>2, <3>3, Fields
    <2>2. CASE \E q \in Proc, a \in Addr : x = TableOf(q, a)
      <3>1. PICK q \in Proc, a \in Addr : x = TableOf(q, a)
        BY <2>2
      <3>2. Uses[x] = dir[q][a]
        BY <3>1, UsesNow
      <3>3. ~(q = 1 /\ a = NAddr)
        BY <1>9, <3>1
      <3> QED BY <1>3, <3>2, <3>3
    <2>3. CASE \E q \in Proc : x = TaskOf(q) \/ x = LoadOf(q) \/ x = ArgsOf(q)
      <3>1. PICK q \in Proc : x = TaskOf(q) \/ x = LoadOf(q) \/ x = ArgsOf(q)
        BY <2>3
      <3>2. Uses[TaskOf(q)] = taskPage[q] /\ Uses[LoadOf(q)] = loading[q].f /\ Uses[ArgsOf(q)] = args[q]
        BY UsesNow
      <3>3. loading[q].f = 0 /\ args[q] = 0
        BY <1>6, Fields
      <3>4. x = TaskOf(q) => q # 1
        BY <1>9
      <3> QED BY <1>5, <3>1, <3>2, <3>3, <3>4
    <2> QED BY <2>1, <2>2, <2>3, UseForms
  <1>10. Uses \in [Use -> Frame \cup {0}]
    <2>1. Uses = [x \in Use |-> Uses[x]]
      BY UsesAt DEF Uses
    <2>2. \A x \in Use : Uses[x] \in Frame \cup {0}
      BY <1>8, <1>9
    <2> QED BY <2>1, <2>2
  <1>11. /\ TaskOf(1) # PageOf(1, NAddr) /\ TaskOf(1) # TableOf(1, NAddr) /\ PageOf(1, NAddr) # TableOf(1, NAddr)
    BY UseKinds
  <1>12. Counted
    <2> DEFINE U == [x \in Use |-> 0]
               mm == [f \in Frame |-> 0]
               N == {f1, f2, f3}
    <2>1. Counts(mm, U)
      <3>1. mm \in [Frame -> Nat] /\ U \in [Use -> Frame \cup {0}]
        OBVIOUS
      <3>2. ASSUME NEW f \in Frame PROVE mm[f] = Count(U, f)
        <4>1. {x \in Use : U[x] = f} = {}
          BY Bounds
        <4>2. Count(U, f) = Cardinality({x \in Use : U[x] = f})
          BY DEF Count
        <4> QED BY <4>1, <4>2, FS_EmptySet
      <3> QED BY <3>1, <3>2 DEF Counts
    <2>2. mem_map = [f \in Frame |-> IF f \in N THEN 1 ELSE mm[f]]
      <3>1. mem_map = [f \in Frame |-> IF f > NFrames - 3 THEN 1 ELSE 0]
        BY DEF Init
      <3>2. ASSUME NEW f \in Frame PROVE f > NFrames - 3 <=> f \in N
        <4>1. f \in Nat /\ f <= NFrames /\ NFrames \in Nat
          BY MemoryAssumption DEF Frame
        <4>2. f > NFrames - 3 <=> f = NFrames \/ f = NFrames - 1 \/ f = NFrames - 2
          BY <4>1
        <4> QED BY <1>1, <4>2
      <3> HIDE DEF N
      <3> QED BY <3>1, <3>2
    <2>3. N \in SUBSET Frame
      OBVIOUS
    <2>4. \A f \in N : \E x \in Use : Uses[x] = f /\ \A y \in Use : Uses[y] = f => y = x
      <3>1. \A y \in Use : Uses[y] = f1 => y = TaskOf(1)
        BY <1>2, <1>8, <1>9
      <3>2. \A y \in Use : Uses[y] = f2 => y = PageOf(1, NAddr)
        BY <1>2, <1>8, <1>9
      <3>3. \A y \in Use : Uses[y] = f3 => y = TableOf(1, NAddr)
        BY <1>2, <1>8, <1>9
      <3> QED BY <1>8, <3>1, <3>2, <3>3
    <2>5. \A f \in Frame \ N : \A x \in Use : Uses[x] = f <=> U[x] = f
      BY <1>8, <1>9, Bounds
    <2> HIDE DEF U, mm, N
    <2> QED BY <1>10, <2>1, <2>2, <2>3, <2>4, <2>5, NewCount DEF Counted
  <1>13. Sharing
    <2>1. ASSUME NEW x \in Use, NEW y \in Use, Uses[x] = Uses[y], Uses[x] # 0 PROVE x = y
      BY <1>2, <1>8, <1>9, <2>1
    <2> QED BY <2>1 DEF Sharing, Shared
  <1>14. ASSUME NEW q \in Proc PROVE ProcOK(q)
    <2>1. \A a \in Addr : Present(q, a) => dir[q][a] # 0
      BY <1>2, <1>3, <1>4 DEF Present
    <2>2. q = 1 => Tables(q) # {}
      BY <1>0, <1>2, <1>3 DEF Tables
    <2>3. loading[q] = NoLoad /\ args[q] = 0 /\ verified[q] = 0 /\ verified[q] \notin Anon
      BY <1>6, Bounds
    <2>4. CASE q = 1
      BY <1>2, <1>5, <2>1, <2>2, <2>3, <2>4 DEF ProcOK
    <2>5. CASE q # 1
      BY <1>3, <1>5, <2>1, <2>3, <2>5 DEF ProcOK
    <2> QED BY <2>4, <2>5
  <1> QED BY <1>7, <1>12, <1>13, <1>14 DEF IInv, Procs

\* Every step keeps it.
LEMMA StepInv == IInv /\ [Next]_vars => IInv'
  <1> SUFFICES ASSUME IInv, [Next]_vars PROVE IInv'
    OBVIOUS
  <1>1. CASE Next
    <2>1. PICK p \in Proc :
            \/ Exit(p) \/ Reap(p) \/ ForkFails(p) \/ LoadEnds(p)
            \/ \E x \in Program, v \in Val : ExecCommits(p, x, v)
            \/ \E pad \in Exec \cup {0} : DoExecve(p, pad)
            \/ \E c \in Proc : Fork(p, c)
            \/ \E a \in Addr : \/ GetEmptyPage(p, a) \/ SharePage(p, a) \/ LoadPage(p, a)
                               \/ WpFault(p, a) \/ VerifyArea(p, a)
            \/ \E a \in Addr, v \in Val : Store(p, a, v)
            \/ \E v \in Val : KernelStore(p, v)
      BY <1>1 DEF Next
    <2>2. CASE Exit(p) \/ Reap(p) \/ ForkFails(p) \/ LoadEnds(p)
      BY <2>2, ExitInv, ReapInv, ForkFailsInv, LoadEndsInv
    <2>3. CASE \E x \in Program, v \in Val : ExecCommits(p, x, v)
      BY <2>3, ExecCommitsInv
    <2>4. CASE \E pad \in Exec \cup {0} : DoExecve(p, pad)
      BY <2>4, DoExecveInv
    <2>5. CASE \E c \in Proc : Fork(p, c)
      BY <2>5, ForkInv
    <2>6. CASE \E a \in Addr : \/ GetEmptyPage(p, a) \/ SharePage(p, a) \/ LoadPage(p, a)
                               \/ WpFault(p, a) \/ VerifyArea(p, a)
      BY <2>6, GetEmptyPageInv, SharePageInv, LoadPageInv, WpFaultInv, VerifyAreaInv
    <2>7. CASE \E a \in Addr, v \in Val : Store(p, a, v)
      BY <2>7, StoreInv
    <2>8. CASE \E v \in Val : KernelStore(p, v)
      BY <2>8, KernelStoreInv
    <2> QED BY <2>1, <2>2, <2>3, <2>4, <2>5, <2>6, <2>7, <2>8
  <1>2. CASE UNCHANGED vars
    <2>1. /\ mem_map' = mem_map /\ content' = content /\ taskPage' = taskPage /\ dir' = dir /\ pte' = pte
          /\ exe' = exe /\ loading' = loading /\ verified' = verified /\ args' = args /\ event' = event
      BY <1>2 DEF vars
    <2>2. Uses' = Uses
      BY <2>1 DEF Uses
    <2>3. TypeOK'
      BY <2>1 DEF IInv, TypeOK
    <2>4. Counted' /\ Sharing'
      BY <2>1, <2>2 DEF IInv, Counted, Sharing
    <2>5. Procs'
      BY <2>1, SameProc DEF Procs
    <2> QED BY <2>3, <2>4, <2>5 DEF IInv
  <1> QED BY <1>1, <1>2

\* So it holds in every state.
LEMMA InvHolds == Spec => []IInv
  BY InitInv, StepInv, PTL DEF Spec

-----------------------------------------------------------------------------
(* The properties *)

\* The variables of mm/memory.c keep their types: an entry names a frame or is
\* empty, a count is never negative.
THEOREM TypesHold == Spec => []TypeOK
  <1>1. IInv => TypeOK
    BY DEF IInv
  <1> QED BY <1>1, InvHolds, PTL

\* mem_map[] counts exactly the references there are to a frame, on every path, so
\* that no frame is leaked and none is freed while somebody uses it.
THEOREM CountsStayExact == Spec => []CountsExact
  <1>1. IInv => CountsExact
    <2> SUFFICES ASSUME IInv, NEW f \in Frame PROVE mem_map[f] = Cardinality(References(f))
      BY DEF CountsExact
    <2>1. mem_map[f] = Cardinality({x \in Use : Uses[x] = f})
      BY DEF IInv, Counted, Counts, Count
    <2>2. References(f) = {x \in Use : Uses[x] = f}
      <3>1. ASSUME NEW x \in Use PROVE x \in References(f) <=> Uses[x] = f
        BY DEF Uses, UsesOf, References, Use
      <3>2. References(f) \subseteq Use
        BY DEF References, Use
      <3> QED BY <3>1, <3>2
    <2> QED BY <2>1, <2>2
  <1> QED BY <1>1, InvHolds, PTL

\* A page that a process can write without a fault is counted once: un_wp_page(),
\* share_page() and fork() never leave a writable entry for a shared page.
THEOREM WritablePagesArePrivate == Spec => []WritableIsPrivate
  <1>1. IInv => WritableIsPrivate
    <2> SUFFICES ASSUME IInv, NEW p \in Proc, NEW a \in Addr, Present(p, a), pte[p][a].w
                 PROVE  mem_map[pte[p][a].f] = 1
      BY DEF WritableIsPrivate
    <2>1. PICK f \in Frame : f = pte[p][a].f
      BY PresentFrame DEF IInv
    <2>2. PageOf(p, a) \in Use /\ Uses[PageOf(p, a)] = f /\ f # 0
      BY <2>1, UseForms, UsesNow, Bounds
    <2>3. ASSUME NEW y \in Use, Uses[y] = f, y # PageOf(p, a) PROVE FALSE
      <3>1. PICK r \in Proc, s \in Proc, b \in Addr :
              PageOf(p, a) = PageOf(r, b) /\ y = PageOf(s, b) /\ ~pte[r][b].w
        BY <2>2, <2>3 DEF IInv, Sharing, Shared
      <3>2. r = p /\ b = a
        BY <3>1, UseKinds
      <3> QED BY <3>1, <3>2
    <2>4. Counts(mem_map, Uses)
      BY DEF IInv, Counted
    <2>5. mem_map[f] = 1
      BY <2>2, <2>3, <2>4, CountUses
    <2> QED BY <2>1, <2>5
  <1> QED BY <1>1, InvHolds, PTL

-----------------------------------------------------------------------------
(* Private memory *)

\* The frame of an entry is used for nothing else, and by another entry only when
\* both are protected and for the same address.
PagesApart ==
  \A q, r \in Proc, b, d \in Addr : pte[q][b].f # 0 =>
    /\ pte[q][b].f # dir[r][d] /\ pte[q][b].f # taskPage[r]
    /\ pte[q][b].f # loading[r].f /\ pte[q][b].f # args[r]
    /\ pte[q][b].f = pte[r][d].f /\ <<q, b>> # <<r, d>> => b = d /\ ~pte[r][d].w

\* That follows from the invariant,
LEMMA ApartNow == IInv => PagesApart
  <1> SUFFICES ASSUME IInv, NEW q \in Proc, NEW r \in Proc, NEW b \in Addr, NEW d \in Addr, pte[q][b].f # 0
               PROVE  /\ pte[q][b].f # dir[r][d] /\ pte[q][b].f # taskPage[r]
                      /\ pte[q][b].f # loading[r].f /\ pte[q][b].f # args[r]
                      /\ pte[q][b].f = pte[r][d].f /\ <<q, b>> # <<r, d>> => b = d /\ ~pte[r][d].w
    BY DEF PagesApart
  <1>1. /\ PageOf(q, b) \in Use /\ TableOf(r, d) \in Use /\ TaskOf(r) \in Use /\ LoadOf(r) \in Use /\ ArgsOf(r) \in Use
        /\ PageOf(q, b) # TableOf(r, d) /\ PageOf(q, b) # TaskOf(r) /\ PageOf(q, b) # LoadOf(r) /\ PageOf(q, b) # ArgsOf(r)
        /\ Kind(TableOf(r, d)) # "page" /\ Kind(TaskOf(r)) # "page" /\ Kind(LoadOf(r)) # "page" /\ Kind(ArgsOf(r)) # "page"
    BY UseForms, UseKinds
  <1>2. /\ Uses[PageOf(q, b)] = pte[q][b].f /\ Uses[TableOf(r, d)] = dir[r][d] /\ Uses[TaskOf(r)] = taskPage[r]
        /\ Uses[LoadOf(r)] = loading[r].f /\ Uses[ArgsOf(r)] = args[r]
    BY UsesNow
  <1>3. \A x \in Use : Kind(x) # "page" /\ PageOf(q, b) # x => Uses[PageOf(q, b)] # Uses[x]
    BY <1>1, <1>2, OneUse
  <1>4. pte[q][b].f # dir[r][d] /\ pte[q][b].f # taskPage[r] /\ pte[q][b].f # loading[r].f /\ pte[q][b].f # args[r]
    BY <1>1, <1>2, <1>3
  <1>5. pte[q][b].f = pte[r][d].f /\ <<q, b>> # <<r, d>> => b = d /\ ~pte[r][d].w
    BY SameAddress
  <1> QED BY <1>4, <1>5

\* also after a step.
LEMMA ApartNext == IInv' => PagesApart'
  BY ApartNow, PTL

\* What a process reads, now and after a step
LEMMA SeenAt ==
  /\ \A q \in Proc, b \in Anon : /\ Seen[q][b] = IF pte[q][b] # NoPte THEN content[pte[q][b].f] ELSE 0
                                 /\ Seen'[q][b] = IF pte'[q][b] # NoPte THEN content'[pte'[q][b].f] ELSE 0
  /\ Seen = [q \in Proc |-> [b \in Anon |-> Seen[q][b]]]
  /\ Seen' = [q \in Proc |-> [b \in Anon |-> Seen'[q][b]]]
  BY DEF Seen, Present

\* A step that nobody can see
LEMMA InternalStep ==
  ASSUME event' = None, \A q \in Proc, b \in Anon : Seen'[q][b] = Seen[q][b]
  PROVE  Private!Next
  <1>1. Seen' = Seen
    BY SeenAt
  <1> QED BY <1>1 DEF Private!Next, Private!Internal, Private!None, Private!Event, None, Event

\* The pages of one process change.
LEMMA SeenChange ==
  ASSUME NEW p \in Proc, NEW m, m = [b \in Anon |-> m[b]], \A b \in Anon : Seen'[p][b] = m[b],
         \A q \in Proc, b \in Anon : q # p => Seen'[q][b] = Seen[q][b]
  PROVE  Seen' = [Seen EXCEPT ![p] = m]
  <1>1. Seen = [q \in Proc |-> [b \in Anon |-> Seen[q][b]]] /\ Seen' = [q \in Proc |-> [b \in Anon |-> Seen'[q][b]]]
    BY SeenAt
  <1>2. \A q \in Proc : Seen[q] = [b \in Anon |-> Seen[q][b]]
    BY <1>1
  <1>3. \A q \in Proc : Seen'[q] = [b \in Anon |-> Seen'[q][b]]
    BY <1>1
  <1>4. Seen'[p] = m
    BY <1>3
  <1>5. \A q \in Proc : q # p => Seen'[q] = Seen[q]
    BY <1>2, <1>3
  <1>6. Seen = [q \in Proc |-> Seen[q]] /\ Seen' = [q \in Proc |-> Seen'[q]]
    BY <1>1
  <1> QED BY <1>4, <1>5, <1>6

\* An exit clears the memory of the process.
LEMMA ExitSeen ==
  ASSUME IInv, NEW p \in Proc, NEW mm, DoExit(p, mm)
  PROVE  Private!Next
  <1>1. /\ content' = content /\ \A a \in Addr : pte'[p][a] = NoPte
        /\ \A q \in Proc : q # p => pte'[q] = pte[q]
    BY DEF IInv, TypeOK, DoExit, Empty
  <1>2. \A b \in Anon : Seen'[p][b] = 0
    BY <1>1, SeenAt, Bounds
  <1>3. \A q \in Proc, b \in Anon : q # p => Seen'[q][b] = Seen[q][b]
    BY <1>1, SeenAt
  <1>4. Private!Blank = [b \in Anon |-> 0]
    BY DEF Private!Blank
  <1>5. Seen' = [Seen EXCEPT ![p] = Private!Blank]
    <2> DEFINE m == [b \in Anon |-> 0]
    <2>1. m = [b \in Anon |-> m[b]] /\ \A b \in Anon : Seen'[p][b] = m[b]
      BY <1>2
    <2> HIDE DEF m
    <2>2. Seen' = [Seen EXCEPT ![p] = m]
      BY <1>3, <2>1, SeenChange
    <2> QED BY <1>4, <2>2 DEF m
  <1>6. event' = Private!Event("exit", p, 0, 0)
    BY DEF DoExit, Event, Private!Event
  <1> QED BY <1>5, <1>6 DEF Private!Next, Private!Clear

\* The write of a value to an entry's frame is seen at that address, by a process
\* that has the page for itself, and at no address outside the program otherwise.
LEMMA WriteSeen ==
  ASSUME IInv, NEW p \in Proc, NEW a \in Addr, NEW v \in Val, Present(p, a),
         a \in Anon => pte[p][a].w,
         content' = [content EXCEPT ![pte[p][a].f] = v],
         pte' = [pte EXCEPT ![p][a].d = TRUE],
         event' = Written(p, a, v)
  PROVE  Private!Next
  <1>1. PICK g \in Frame : g = pte[p][a].f
    BY PresentFrame DEF IInv
  <1>2. g # 0 /\ pte[p][a] \in Pte
    BY <1>1, Bounds, PresentFrame DEF IInv
  <1>3. /\ \A q \in Proc, b \in Addr : <<q, b>> # <<p, a>> => pte'[q][b] = pte[q][b]
        /\ pte'[p][a] = [pte[p][a] EXCEPT !.d = TRUE]
    BY DEF IInv, TypeOK
  <1>4. pte'[p][a].f = g /\ pte'[p][a] # NoPte /\ pte[p][a] # NoPte
    <2>1. pte'[p][a].f = g
      BY <1>1, <1>2, <1>3 DEF Pte
    <2> QED BY <1>1, <1>2, <2>1, Fields
  <1>5. content'[g] = v /\ \A h \in Frame : h # g => content'[h] = content[h]
    BY <1>1 DEF IInv, TypeOK
  <1>6. ASSUME NEW q \in Proc, NEW b \in Anon, <<q, b>> # <<p, a>> PROVE Seen'[q][b] = Seen[q][b]
    <2>1. b \in Addr /\ pte'[q][b] = pte[q][b]
      BY <1>3, <1>6, Bounds
    <2>2. pte[q][b] # NoPte => pte[q][b].f # g /\ pte[q][b].f \in Frame
      <3>1. CASE pte[q][b] # NoPte /\ pte[q][b].f = g
        <4>1. PagesApart
          BY ApartNow
        <4>2. b = a /\ ~pte[p][a].w
          BY <1>1, <1>2, <1>6, <2>1, <3>1, <4>1 DEF PagesApart
        <4> QED BY <4>2
      <3>2. pte[q][b] # NoPte => pte[q][b].f \in Frame
        BY <2>1, PresentFrame DEF IInv, Present
      <3> QED BY <3>1, <3>2
    <2>3. /\ Seen[q][b] = IF pte[q][b] # NoPte THEN content[pte[q][b].f] ELSE 0
          /\ Seen'[q][b] = IF pte'[q][b] # NoPte THEN content'[pte'[q][b].f] ELSE 0
      BY SeenAt
    <2> QED BY <1>5, <2>1, <2>2, <2>3
  <1>7. CASE a \in Anon
    <2>1. Seen'[p][a] = v
      BY <1>4, <1>5, <1>7, SeenAt
    <2>2. Seen' = [Seen EXCEPT ![p] = [Seen[p] EXCEPT ![a] = v]]
      <3> DEFINE m == [Seen[p] EXCEPT ![a] = v]
      <3>1. Seen[p] = [b \in Anon |-> Seen[p][b]]
        BY SeenAt
      <3>2. m = [b \in Anon |-> m[b]] /\ \A b \in Anon : m[b] = IF b = a THEN v ELSE Seen[p][b]
        BY <3>1
      <3> HIDE DEF m
      <3>3. \A b \in Anon : Seen'[p][b] = m[b]
        BY <1>6, <2>1, <3>2
      <3>4. \A q \in Proc, b \in Anon : q # p => Seen'[q][b] = Seen[q][b]
        BY <1>6
      <3>5. Seen' = [Seen EXCEPT ![p] = m]
        BY <3>2, <3>3, <3>4, SeenChange
      <3> QED BY <3>5 DEF m
    <2>3. event' = Private!Event("write", p, a, v)
      BY <1>7 DEF Written, Event, Private!Event
    <2>4. Private!Write(p, a, v)
      BY <2>2, <2>3 DEF Private!Write
    <2> QED BY <1>7, <2>4 DEF Private!Next
  <1>8. CASE a \notin Anon
    <2>1. event' = None
      BY <1>8 DEF Written
    <2>2. \A q \in Proc, b \in Anon : Seen'[q][b] = Seen[q][b]
      BY <1>6, <1>8
    <2> QED BY <2>1, <2>2, InternalStep
  <1> QED BY <1>7, <1>8

\* An entry keeps its frame and the frame what it holds.
LEMMA SameSeen ==
  ASSUME NEW q \in Proc, NEW b \in Anon, pte'[q][b].f = pte[q][b].f,
         pte'[q][b] # NoPte <=> pte[q][b] # NoPte,
         pte[q][b] # NoPte => content'[pte[q][b].f] = content[pte[q][b].f]
  PROVE  Seen'[q][b] = Seen[q][b]
  <1>1. /\ Seen[q][b] = IF pte[q][b] # NoPte THEN content[pte[q][b].f] ELSE 0
        /\ Seen'[q][b] = IF pte'[q][b] # NoPte THEN content'[pte'[q][b].f] ELSE 0
    BY SeenAt
  <1> QED BY <1>1

\* Nobody sees a change of free frames.
LEMMA FreeSeen ==
  ASSUME IInv, \A h \in Frame : mem_map[h] # 0 => content'[h] = content[h],
         NEW q \in Proc, NEW b \in Anon, pte'[q][b].f = pte[q][b].f,
         pte'[q][b] # NoPte <=> pte[q][b] # NoPte
  PROVE  Seen'[q][b] = Seen[q][b]
  <1>1. pte[q][b] # NoPte => pte[q][b].f \in Frame
    BY Bounds, PresentFrame DEF IInv, Present
  <1>2. pte[q][b] # NoPte => mem_map[pte[q][b].f] # 0
    BY <1>1, FreeUnused, Bounds
  <1> QED BY <1>1, <1>2, SameSeen

\* A page is mapped: it reads zero, as before, or it is a page of the program.
LEMMA PutPageSeen ==
  ASSUME IInv, IInv', NEW p \in Proc, NEW a \in Addr, NEW f \in Frame, NEW mm, NEW ct,
         ~Present(p, a), \A x \in Use : x # LoadOf(p) => Uses[x] # f,
         ct \in [Frame -> Val \cup {Text(y) : y \in Program}],
         \A g \in Frame : g # f => ct[g] = content[g], a \in Anon => ct[f] = 0,
         PutPage(p, a, f, mm, ct)
  PROVE  Private!Next
  <1>1. CASE dir[p][a] = 0 /\ ~HasFree(mm)
    BY <1>1, ExitSeen DEF PutPage
  <1>2. CASE ~(dir[p][a] = 0 /\ ~HasFree(mm))
    <2>1. /\ pte' = [pte EXCEPT ![p][a] = [f |-> f, w |-> TRUE, d |-> FALSE]] /\ event' = None
      BY <1>2 DEF PutPage
    <2>2. /\ pte'[p][a].f = f
          /\ \A q \in Proc, b \in Addr : <<q, b>> # <<p, a>> => pte'[q][b] = pte[q][b]
      BY <2>1 DEF IInv, TypeOK
    <2>3. \A h \in Frame : h # dir'[p][a] => content'[h] = ct[h]
      <3>1. CASE dir[p][a] = 0
        <4>1. content' = Zeroed(ct, LastFree(mm)) /\ dir' = [dir EXCEPT ![p][a] = LastFree(mm)]
          BY <1>2, <3>1 DEF PutPage
        <4>2. dir'[p][a] = LastFree(mm)
          BY <4>1 DEF IInv, TypeOK
        <4> QED BY <4>1, <4>2 DEF Zeroed
      <3>2. CASE dir[p][a] # 0
        BY <1>2, <3>2 DEF PutPage
      <3> QED BY <3>1, <3>2
    <2>4. PagesApart'
      BY ApartNext
    <2>5. ASSUME NEW q \in Proc, NEW b \in Anon PROVE Seen'[q][b] = Seen[q][b]
      <3>0. b \in Addr
        BY Bounds
      <3>1. CASE <<q, b>> = <<p, a>>
        <4>1. f # 0 /\ f # dir'[p][a]
          BY <2>2, <2>4, Bounds DEF PagesApart
        <4>2. content'[f] = 0 /\ pte'[p][a] # NoPte /\ pte[p][a] = NoPte
          BY <2>2, <2>3, <3>1, <4>1, Fields DEF Present
        <4>3. /\ Seen[p][b] = IF pte[p][b] # NoPte THEN content[pte[p][b].f] ELSE 0
              /\ Seen'[p][b] = IF pte'[p][b] # NoPte THEN content'[pte'[p][b].f] ELSE 0
          BY SeenAt
        <4> QED BY <2>2, <3>1, <4>2, <4>3
      <3>2. CASE <<q, b>> # <<p, a>>
        <4>1. pte'[q][b] = pte[q][b]
          BY <2>2, <3>0, <3>2
        <4>2. pte[q][b] # NoPte => pte[q][b].f \in Frame /\ pte[q][b].f # 0
          BY <3>0, Bounds, PresentFrame DEF IInv, Present
        <4>3. pte[q][b].f # f
          <5>1. PageOf(q, b) \in Use /\ PageOf(q, b) # LoadOf(p) /\ Uses[PageOf(q, b)] = pte[q][b].f
            BY <3>0, UseForms, UseKinds, UsesNow
          <5> QED BY <5>1
        <4>4. pte[q][b] # NoPte => pte[q][b].f # dir'[p][a]
          BY <2>4, <3>0, <4>1, <4>2 DEF PagesApart
        <4>5. pte[q][b] # NoPte => content'[pte[q][b].f] = content[pte[q][b].f]
          BY <2>3, <4>2, <4>3, <4>4
        <4> QED BY <4>1, <4>5, SameSeen
      <3> QED BY <3>1, <3>2
    <2> QED BY <2>1, <2>5, InternalStep
  <1> QED BY <1>1, <1>2

\* The copy that un_wp_page() makes holds what the page held.
LEMMA UnWpPageSeen ==
  ASSUME IInv, NEW p \in Proc, NEW a \in Addr, NEW next, Present(p, a), UnWpPage(p, a, next)
  PROVE  Private!Next
  <1>1. PICK old \in Frame : old = pte[p][a].f
    BY PresentFrame DEF IInv
  <1>2. pte[p][a] \in Pte /\ pte[p][a] # NoPte /\ old # 0
    BY PresentFrame, Bounds DEF IInv, Present
  <1>3. CASE ~SoleOwner(old) /\ ~HasFree(mem_map)
    BY <1>1, <1>3, ExitSeen DEF UnWpPage
  <1>4. CASE SoleOwner(old)
    <2>1. pte' = [pte EXCEPT ![p][a].w = TRUE] /\ content' = content /\ event' = None
      BY <1>1, <1>4 DEF UnWpPage
    <2>2. /\ pte'[p][a] = [pte[p][a] EXCEPT !.w = TRUE]
          /\ \A q \in Proc, b \in Addr : <<q, b>> # <<p, a>> => pte'[q][b] = pte[q][b]
      BY <2>1 DEF IInv, TypeOK
    <2>3. pte'[p][a].f = pte[p][a].f
      BY <1>2, <2>2 DEF Pte
    <2>4. pte'[p][a] # NoPte
      BY <1>1, <1>2, <2>3, Fields
    <2>5. ASSUME NEW q \in Proc, NEW b \in Anon PROVE Seen'[q][b] = Seen[q][b]
      <3>1. pte'[q][b].f = pte[q][b].f /\ (pte'[q][b] # NoPte <=> pte[q][b] # NoPte)
        BY <1>2, <2>2, <2>3, <2>4, Bounds
      <3> QED BY <2>1, <3>1, SameSeen
    <2> QED BY <2>1, <2>5, InternalStep
  <1>5. CASE ~SoleOwner(old) /\ HasFree(mem_map)
    <2>1. PICK new \in Frame : new = LastFree(mem_map) /\ mem_map[new] = 0
      BY <1>5, LastFreeFree
    <2>2. /\ content' = [content EXCEPT ![new] = content[old]] /\ event' = None
          /\ pte' = [pte EXCEPT ![p][a] = [f |-> new, w |-> TRUE, d |-> FALSE]]
      BY <1>1, <1>5, <2>1 DEF UnWpPage
    <2>3. /\ pte'[p][a].f = new
          /\ \A q \in Proc, b \in Addr : <<q, b>> # <<p, a>> => pte'[q][b] = pte[q][b]
      BY <2>2 DEF IInv, TypeOK
    <2>4. content'[new] = content[old] /\ \A h \in Frame : mem_map[h] # 0 => content'[h] = content[h]
      BY <2>1, <2>2 DEF IInv, TypeOK
    <2>5. pte'[p][a] # NoPte
      BY <2>3, Fields, Bounds
    <2>6. ASSUME NEW q \in Proc, NEW b \in Anon PROVE Seen'[q][b] = Seen[q][b]
      <3>1. CASE <<q, b>> = <<p, a>>
        <4>1. /\ Seen[p][b] = IF pte[p][b] # NoPte THEN content[pte[p][b].f] ELSE 0
              /\ Seen'[p][b] = IF pte'[p][b] # NoPte THEN content'[pte'[p][b].f] ELSE 0
          BY SeenAt
        <4> QED BY <1>1, <1>2, <2>3, <2>4, <2>5, <3>1, <4>1
      <3>2. CASE <<q, b>> # <<p, a>>
        <4>1. pte'[q][b] = pte[q][b]
          BY <2>3, <3>2, Bounds
        <4> QED BY <2>4, <4>1, FreeSeen
      <3> QED BY <3>1, <3>2
    <2> QED BY <2>2, <2>6, InternalStep
  <1> QED BY <1>3, <1>4, <1>5

\* share_page() maps a page of the program.
LEMMA SharePageSeen ==
  ASSUME IInv, IInv', NEW p \in Proc, NEW a \in Addr, SharePage(p, a)
  PROVE  Private!Next
  <1>1. CASE dir[p][a] = 0 /\ ~HasFree(mem_map)
    BY <1>1, ExitSeen DEF SharePage
  <1>2. CASE ~(dir[p][a] = 0 /\ ~HasFree(mem_map))
    <2>1. PICK q \in Proc :
            LET e == Protected(pte[q][a])
                t == LastFree(mem_map)
                need == dir[p][a] = 0
            IN  /\ pte' = [pte EXCEPT ![q][a] = e, ![p][a] = e]
                /\ dir' = IF need THEN [dir EXCEPT ![p][a] = t] ELSE dir
                /\ content' = IF need THEN Zeroed(content, t) ELSE content
                /\ event' = None
      BY <1>2 DEF SharePage
    <2>2. a \notin Anon
      BY Bounds DEF SharePage
    <2>3. \A h \in Frame : h # dir'[p][a] => content'[h] = content[h]
      <3>1. CASE dir[p][a] = 0
        <4>1. content' = Zeroed(content, LastFree(mem_map)) /\ dir'[p][a] = LastFree(mem_map)
          BY <2>1, <3>1 DEF IInv, TypeOK
        <4> QED BY <4>1 DEF Zeroed, IInv, TypeOK
      <3>2. CASE dir[p][a] # 0
        BY <2>1, <3>2
      <3> QED BY <3>1, <3>2
    <2>4. ASSUME NEW r \in Proc, NEW b \in Anon PROVE Seen'[r][b] = Seen[r][b]
      <3>0. b \in Addr /\ b # a
        BY <2>2, Bounds
      <3>1. pte'[r][b] = pte[r][b]
        BY <2>1, <3>0 DEF IInv, TypeOK
      <3>2. pte[r][b] # NoPte => pte[r][b].f \in Frame /\ pte[r][b].f # 0
        BY <3>0, Bounds, PresentFrame DEF IInv, Present
      <3>3. PagesApart'
        BY ApartNext
      <3>4. pte[r][b] # NoPte => pte[r][b].f # dir'[p][a]
        BY <3>0, <3>1, <3>2, <3>3 DEF PagesApart
      <3>5. pte[r][b] # NoPte => content'[pte[r][b].f] = content[pte[r][b].f]
        BY <2>3, <3>2, <3>4
      <3> QED BY <3>1, <3>5, SameSeen
    <2>5. event' = None
      BY <2>1
    <2> QED BY <2>4, <2>5, InternalStep
  <1> QED BY <1>1, <1>2

\* After execve() a process sees its arguments and nothing else.
LEMMA DoExecveSeen ==
  ASSUME IInv, IInv', NEW p \in Proc, NEW pad \in Exec \cup {0}, DoExecve(p, pad)
  PROVE  Private!Next
  <1>1. PICK f \in Frame : f = args[p]
    BY DEF DoExecve, IInv, TypeOK
  <1>2. content[f] \in Val
    <2>1. ProcOK(p) /\ f # 0
      BY Bounds DEF IInv, Procs
    <2> QED BY <1>1, <2>1 DEF ProcOK
  <1>3. PICK t : t = LastFree(Unmapped(mem_map, p))
    OBVIOUS
  <1>4. /\ content' = Zeroed(content, t) /\ event' = Event("exec", p, NAddr, content[f])
        /\ dir' = [dir EXCEPT ![p] = [NoTables EXCEPT ![NAddr] = t]]
        /\ pte' = [pte EXCEPT ![p] = [Empty EXCEPT ![NAddr] = [f |-> f, w |-> TRUE, d |-> TRUE]]]
    BY <1>1, <1>3 DEF DoExecve
  <1>5. dir'[p][NAddr] = t /\ NAddr \in Addr /\ NAddr \in Anon
    BY <1>4, Bounds DEF IInv, TypeOK, NoTables
  <1>6. /\ pte'[p][NAddr].f = f
        /\ \A b \in Addr : b # NAddr => pte'[p][b] = NoPte
        /\ \A q \in Proc : q # p => pte'[q] = pte[q]
    BY <1>4, <1>5 DEF IInv, TypeOK, Empty
  <1>7. \A h \in Frame : h # t => content'[h] = content[h]
    BY <1>4 DEF Zeroed, IInv, TypeOK
  <1>8. PagesApart'
    BY ApartNext
  <1>9. f # 0 /\ f # t
    BY <1>5, <1>6, <1>8, Bounds DEF PagesApart
  <1>10. Seen'[p][NAddr] = content[f]
    <2>1. Seen'[p][NAddr] = IF pte'[p][NAddr] # NoPte THEN content'[pte'[p][NAddr].f] ELSE 0
      BY <1>5, SeenAt
    <2> QED BY <1>6, <1>7, <1>9, <2>1, Fields
  <1>11. ASSUME NEW b \in Anon, b # NAddr PROVE Seen'[p][b] = 0
    BY <1>6, <1>11, SeenAt, Bounds
  <1>12. ASSUME NEW q \in Proc, NEW b \in Anon, q # p PROVE Seen'[q][b] = Seen[q][b]
    <2>0. b \in Addr /\ pte'[q][b] = pte[q][b]
      BY <1>6, <1>12, Bounds
    <2>1. pte[q][b] # NoPte => pte[q][b].f \in Frame /\ pte[q][b].f # 0
      BY <2>0, Bounds, PresentFrame DEF IInv, Present
    <2>2. pte[q][b] # NoPte => pte[q][b].f # t
      BY <1>5, <1>8, <2>0, <2>1 DEF PagesApart
    <2>3. pte[q][b] # NoPte => content'[pte[q][b].f] = content[pte[q][b].f]
      BY <1>7, <2>1, <2>2
    <2> QED BY <2>0, <2>3, SameSeen
  <1>13. Seen' = [Seen EXCEPT ![p] = [Private!Blank EXCEPT ![NAddr] = content[f]]]
    <2> DEFINE m == [Private!Blank EXCEPT ![NAddr] = content[f]]
    <2>1. m = [b \in Anon |-> m[b]] /\ \A b \in Anon : m[b] = IF b = NAddr THEN content[f] ELSE 0
      BY DEF Private!Blank
    <2> HIDE DEF m
    <2>2. \A b \in Anon : Seen'[p][b] = m[b]
      BY <1>10, <1>11, <2>1
    <2>3. \A q \in Proc, b \in Anon : q # p => Seen'[q][b] = Seen[q][b]
      BY <1>12
    <2>4. Seen' = [Seen EXCEPT ![p] = m]
      BY <2>1, <2>2, <2>3, SeenChange
    <2> QED BY <2>4 DEF m
  <1>14. event' = Private!Event("exec", p, NAddr, content[f])
    BY <1>4 DEF Event, Private!Event
  <1>15. Private!Start(p, NAddr, content[f])
    BY <1>13, <1>14 DEF Private!Start
  <1> QED BY <1>2, <1>5, <1>15 DEF Private!Next

\* The child sees what its father sees.
LEMMA ForkSeen ==
  ASSUME IInv, NEW p \in Proc, NEW c \in Proc, Fork(p, c)
  PROVE  Private!Next
  <1>1. HasFree(mem_map) /\ Copied(p) = Tables(p) /\ exe[p] # "none" /\ taskPage[c] = 0
    BY DEF Fork, InProgram, Lives
  <1>2. p # c
    <2>1. ProcOK(p)
      BY DEF IInv, Procs
    <2> QED BY <1>1, <2>1 DEF ProcOK
  <1>3. /\ LastFree(mem_map) \in Frame /\ mem_map[LastFree(mem_map)] = 0
        /\ \A a \in Tables(p) : mem_map[TableFrame(p, a)] = 0
    BY <1>1, LastFreeFree, TableFrames
  <1>4. /\ pte' = [pte EXCEPT ![c] = Protect(p), ![p] = Protect(p)] /\ event' = Event("fork", p, c, 0)
        /\ content' = [f \in Frame |-> IF f \in {LastFree(mem_map)} \cup {TableFrame(p, a) : a \in Tables(p)}
                                       THEN 0 ELSE content[f]]
    BY <1>1 DEF Fork
  <1>5. \A h \in Frame : mem_map[h] # 0 => content'[h] = content[h]
    BY <1>3, <1>4
  <1>6. \A a \in Addr : Protect(p)[a].f = pte[p][a].f /\ (Protect(p)[a] # NoPte <=> pte[p][a] # NoPte)
    BY ProtectEntry DEF Present
  <1>7. pte'[p] = Protect(p) /\ pte'[c] = Protect(p) /\ \A q \in Proc : q # p /\ q # c => pte'[q] = pte[q]
    BY <1>2, <1>4 DEF IInv, TypeOK
  <1>8. ASSUME NEW q \in Proc, NEW b \in Anon, q # c PROVE Seen'[q][b] = Seen[q][b]
    <2>1. pte'[q][b].f = pte[q][b].f /\ (pte'[q][b] # NoPte <=> pte[q][b] # NoPte)
      BY <1>6, <1>7, <1>8, Bounds
    <2> QED BY <1>5, <2>1, FreeSeen
  <1>9. ASSUME NEW b \in Anon PROVE Seen'[c][b] = Seen[p][b]
    <2>1. /\ Seen'[c][b] = IF pte'[c][b] # NoPte THEN content'[pte'[c][b].f] ELSE 0
          /\ Seen'[p][b] = IF pte'[p][b] # NoPte THEN content'[pte'[p][b].f] ELSE 0
      BY SeenAt
    <2>2. Seen'[p][b] = Seen[p][b]
      BY <1>2, <1>8
    <2> QED BY <1>7, <2>1, <2>2
  <1>10. Seen' = [Seen EXCEPT ![c] = Seen[p]]
    <2>1. Seen[p] = [b \in Anon |-> Seen[p][b]]
      BY SeenAt
    <2> QED BY <1>8, <1>9, <2>1, SeenChange
  <1>11. event' = Private!Event("fork", p, c, 0)
    BY <1>4 DEF Event, Private!Event
  <1>12. Private!Copy(p, c)
    BY <1>10, <1>11 DEF Private!Copy
  <1> QED BY <1>12 DEF Private!Next

\* Every step is a step of the private memory, or is not seen.
LEMMA StepSeen == IInv /\ IInv' /\ [Next]_vars => [Private!Next]_Private!vars
  <1> SUFFICES ASSUME IInv, IInv', [Next]_vars PROVE Private!Next \/ UNCHANGED Private!vars
    OBVIOUS
  <1>1. ASSUME NEW p \in Proc, Exit(p) PROVE Private!Next
    BY <1>1, ExitSeen DEF Exit
  <1>2. ASSUME NEW p \in Proc, Reap(p) PROVE Private!Next
    <2>1. pte' = pte /\ content' = content /\ event' = None
      BY <1>2 DEF Reap
    <2> QED BY <2>1, FreeSeen, InternalStep
  <1>3. ASSUME NEW p \in Proc, ForkFails(p) PROVE Private!Next
    <2>1. /\ pte' = [pte EXCEPT ![p] = Protect(p)] /\ event' = None
          /\ content' = [f \in Frame |-> IF mem_map[f] = 0 THEN 0 ELSE content[f]]
      BY <1>3 DEF ForkFails
    <2>2. \A a \in Addr : Protect(p)[a].f = pte[p][a].f /\ (Protect(p)[a] # NoPte <=> pte[p][a] # NoPte)
      BY ProtectEntry DEF Present
    <2>3. pte'[p] = Protect(p) /\ \A q \in Proc : q # p => pte'[q] = pte[q]
      BY <2>1 DEF IInv, TypeOK
    <2>4. \A h \in Frame : mem_map[h] # 0 => content'[h] = content[h]
      BY <2>1
    <2>5. ASSUME NEW q \in Proc, NEW b \in Anon PROVE Seen'[q][b] = Seen[q][b]
      <3>1. pte'[q][b].f = pte[q][b].f /\ (pte'[q][b] # NoPte <=> pte[q][b] # NoPte)
        BY <2>2, <2>3, Bounds
      <3> QED BY <2>4, <3>1, FreeSeen
    <2> QED BY <2>1, <2>5, InternalStep
  <1>4. ASSUME NEW p \in Proc, LoadEnds(p) PROVE Private!Next
    <2>1. PICK f \in Frame, a \in Exec : f = loading[p].f /\ a = loading[p].a
      BY <1>4, LoadingFrame DEF LoadEnds
    <2> DEFINE ct == [content EXCEPT ![f] = Text(exe[p])]
    <2>2. PutPage(p, a, f, mem_map, ct)
      BY <1>4, <2>1 DEF LoadEnds
    <2>3. exe[p] # "none" /\ ~Present(p, a) /\ \A x \in Use : x # LoadOf(p) => Uses[x] # f
      BY <1>4, <2>1, LoadingFrame DEF LoadEnds
    <2>4. a \in Addr /\ a \notin Anon /\ exe[p] \in Program
      BY <2>3, Bounds DEF IInv, TypeOK
    <2>5. /\ ct \in [Frame -> Val \cup {Text(y) : y \in Program}]
          /\ \A g \in Frame : g # f => ct[g] = content[g]
      BY <2>4, Fields DEF IInv, TypeOK
    <2> HIDE DEF ct
    <2> QED BY <2>2, <2>3, <2>4, <2>5, PutPageSeen
  <1>5. ASSUME NEW p \in Proc, NEW x \in Program, NEW v \in Val, ExecCommits(p, x, v) PROVE Private!Next
    <2>1. PICK f \in Frame : f = LastFree(mem_map) /\ mem_map[f] = 0
      BY <1>5, LastFreeFree DEF ExecCommits
    <2>2. content' = [content EXCEPT ![f] = v] /\ pte' = pte /\ event' = None
      BY <1>5, <2>1 DEF ExecCommits
    <2>3. \A h \in Frame : mem_map[h] # 0 => content'[h] = content[h]
      BY <2>1, <2>2 DEF IInv, TypeOK
    <2> QED BY <2>2, <2>3, FreeSeen, InternalStep
  <1>6. ASSUME NEW p \in Proc, NEW a \in Addr, GetEmptyPage(p, a) PROVE Private!Next
    <2>1. CASE ~HasFree(mem_map)
      BY <1>6, <2>1, ExitSeen DEF GetEmptyPage
    <2>2. CASE HasFree(mem_map)
      <3>1. PICK f \in Frame : f = LastFree(mem_map) /\ mem_map[f] = 0
        BY <2>2, LastFreeFree
      <3>2. PutPage(p, a, f, Take(mem_map, f), Zeroed(content, f)) /\ ~Present(p, a)
        BY <1>6, <2>2, <3>1 DEF GetEmptyPage, NoPage
      <3>3. \A x \in Use : Uses[x] # f
        BY <3>1, FreeUnused
      <3>4. /\ Zeroed(content, f) \in [Frame -> Val \cup {Text(y) : y \in Program}]
            /\ Zeroed(content, f)[f] = 0
            /\ \A g \in Frame : g # f => Zeroed(content, f)[g] = content[g]
        BY Fields DEF Zeroed, IInv, TypeOK
      <3> QED BY <3>2, <3>3, <3>4, PutPageSeen
    <2> QED BY <2>1, <2>2
  <1>7. ASSUME NEW p \in Proc, NEW a \in Addr, LoadPage(p, a) PROVE Private!Next
    <2>1. CASE ~HasFree(mem_map)
      BY <1>7, <2>1, ExitSeen DEF LoadPage
    <2>2. CASE HasFree(mem_map)
      <3>1. PICK f \in Frame : f = LastFree(mem_map) /\ mem_map[f] = 0
        BY <2>2, LastFreeFree
      <3>2. content' = Zeroed(content, f) /\ pte' = pte /\ event' = None
        BY <1>7, <2>2, <3>1 DEF LoadPage
      <3>3. \A h \in Frame : mem_map[h] # 0 => content'[h] = content[h]
        BY <3>1, <3>2 DEF Zeroed, IInv, TypeOK
      <3> QED BY <3>2, <3>3, FreeSeen, InternalStep
    <2> QED BY <2>1, <2>2
  <1>8. ASSUME NEW p \in Proc, NEW a \in Addr, WpFault(p, a) PROVE Private!Next
    BY <1>8, UnWpPageSeen DEF WpFault
  <1>9. ASSUME NEW p \in Proc, NEW a \in Addr, VerifyArea(p, a) PROVE Private!Next
    <2>1. CASE NeedsVerify(p, a)
      BY <1>9, <2>1, UnWpPageSeen DEF VerifyArea, NeedsVerify
    <2>2. CASE ~NeedsVerify(p, a)
      <3>1. pte' = pte /\ content' = content /\ event' = None
        BY <1>9, <2>2 DEF VerifyArea
      <3> QED BY <3>1, FreeSeen, InternalStep
    <2> QED BY <2>1, <2>2
  <1>10. ASSUME NEW p \in Proc, NEW a \in Addr, NEW v \in Val, Store(p, a, v) PROVE Private!Next
    BY <1>10, WriteSeen DEF Store
  <1>11. ASSUME NEW p \in Proc, NEW v \in Val, KernelStore(p, v) PROVE Private!Next
    <2>1. PICK a \in Addr : a = verified[p]
      BY <1>11 DEF KernelStore, IInv, TypeOK
    <2>2. a \in Anon => pte[p][a].w
      <3>1. ProcOK(p) /\ Present(p, a)
        BY <1>11, <2>1 DEF KernelStore, IInv, Procs
      <3> QED BY <2>1, <3>1 DEF ProcOK
    <2> QED BY <1>11, <2>1, <2>2, WriteSeen DEF KernelStore
  <1>12. CASE UNCHANGED vars
    <2>1. Seen' = Seen /\ event' = event
      BY <1>12 DEF vars, Seen, Present
    <2> QED BY <2>1 DEF Private!vars
  <1>13. CASE Next
    <2>1. PICK p \in Proc :
            \/ Exit(p) \/ Reap(p) \/ ForkFails(p) \/ LoadEnds(p)
            \/ \E x \in Program, v \in Val : ExecCommits(p, x, v)
            \/ \E pad \in Exec \cup {0} : DoExecve(p, pad)
            \/ \E c \in Proc : Fork(p, c)
            \/ \E a \in Addr : \/ GetEmptyPage(p, a) \/ SharePage(p, a) \/ LoadPage(p, a)
                               \/ WpFault(p, a) \/ VerifyArea(p, a)
            \/ \E a \in Addr, v \in Val : Store(p, a, v)
            \/ \E v \in Val : KernelStore(p, v)
      BY <1>13 DEF Next
    <2>2. CASE \E pad \in Exec \cup {0} : DoExecve(p, pad)
      BY <2>2, DoExecveSeen
    <2>3. CASE \E c \in Proc : Fork(p, c)
      BY <2>3, ForkSeen
    <2>4. CASE \E a \in Addr : SharePage(p, a)
      BY <2>4, SharePageSeen
    <2> QED BY <1>1, <1>2, <1>3, <1>4, <1>5, <1>6, <1>7, <1>8, <1>9, <1>10, <1>11,
               <2>1, <2>2, <2>3, <2>4
  <1> QED BY <1>12, <1>13

\* Paging implements private memory: outside its program a process reads what it
\* wrote last, or what its father saw when it was forked, whatever the other
\* processes and the page-fault handlers do meanwhile.
THEOREM MemoryImplementsPrivateMemory == Spec => ImplementsPrivateMemory
  <1>1. Init => Private!Init
    <2> SUFFICES ASSUME Init PROVE Private!Init
      OBVIOUS
    <2>1. content = [f \in Frame |-> 0] /\ event = None
      BY DEF Init
    <2>2. IInv
      BY InitInv
    <2>3. ASSUME NEW q \in Proc, NEW b \in Anon PROVE Seen[q][b] = 0
      <3>1. pte[q][b] # NoPte => pte[q][b].f \in Frame
        BY <2>2, Bounds, PresentFrame DEF IInv, Present
      <3>2. Seen[q][b] = IF pte[q][b] # NoPte THEN content[pte[q][b].f] ELSE 0
        BY SeenAt
      <3> QED BY <2>1, <3>1, <3>2
    <2>4. Seen = [q \in Proc |-> [b \in Anon |-> Seen[q][b]]]
      BY SeenAt
    <2>5. Seen = [q \in Proc |-> Private!Blank]
      BY <2>3, <2>4 DEF Private!Blank
    <2> QED BY <2>1, <2>5 DEF Private!Init, Private!None, Private!Event, None, Event
  <1> QED BY <1>1, StepSeen, InvHolds, PTL DEF Spec, ImplementsPrivateMemory, Private!Spec
=============================================================================
