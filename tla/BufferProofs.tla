---------------------------- MODULE BufferProofs ----------------------------
(***************************************************************************)
(* The buffer cache for any number of processes, buffers, requests and     *)
(* blocks.  IInv holds in every reachable state: the properties of Buffer  *)
(* are its parts or follow from them, and it has a lemma for each of its   *)
(* parts, that a step keeps it.                                            *)
(*                                                                         *)
(* Control says what a process has in its locals wherever it is; with it,  *)
(* Counts and Blocks give that a buffer with count 0 is nobody's, which    *)
(* makes it safe for getblk() to take it.  Locks is why a buffer that is   *)
(* unlocked is in no request, and Contents needs all of them: what is      *)
(* being read is not up to date, what is being written is, and becomes     *)
(* dirty again when it changes, so that of a sound block the newest        *)
(* version is never in a buffer that can be given away.                    *)
(***************************************************************************)
EXTENDS Buffer, FiniteSetTheorems, SequenceTheorems, TLAPS

Labels == {"user", "copy", "repeat", "hashed", "sleeping", "victim", "sync",
           "found", "lock", "request", "nap", "waiting", "read"}
Req == [cmd : {"READ", "WRITE"}, b : Buf, old : BOOLEAN]

Queueing == {"request", "nap", "waiting"}    \* in make_request(), with the buffer locked
InGetblk(p) == pc[p] \in {"repeat", "hashed", "sleeping", "victim", "found", "sync"}
                 \/ rw[p] = "WRITE"

Types ==
  /\ b_blocknr \in [Buf -> Block \cup {0}]
  /\ b_count \in [Buf -> Nat]
  /\ b_dirt \in [Buf -> BOOLEAN] /\ b_lock \in [Buf -> BOOLEAN]
  /\ b_uptodate \in [Buf -> BOOLEAN]
  /\ fresh \in [Buf -> BOOLEAN] /\ disk \in [Block -> BOOLEAN]
  /\ failed \subseteq Block
  /\ request \in [Slot -> Req \cup {NoReq}]
  /\ pc \in [Proc -> Labels]
  /\ op \in [Proc -> {"none", "bread", "breada", "sync"}]
  /\ want \in [Proc -> Block \cup {0}] /\ ahead \in [Proc -> Block \cup {0}]
  /\ bh \in [Proc -> Buf \cup {0}] /\ got \in [Proc -> Buf \cup {0}]
  /\ rw \in [Proc -> {"READ", "WRITE"}]
  /\ at \in [Proc -> 0 .. NBuf + 1]

QueueOK ==
  /\ queue \in Seq(Slot) /\ IsInjective(queue)
  /\ Range(queue) = {s \in Slot : request[s] # NoReq}

\* Where a process is says which of its locals are set.
Ctl(p) ==
  /\ pc[p] \in {"lock", "request", "nap", "waiting"} => Target(p) \in Buf
  /\ pc[p] \in {"hashed", "victim", "found"} => bh[p] \in Buf
  /\ pc[p] \in {"sync", "lock", "request", "nap", "waiting"} /\ (pc[p] = "sync" \/ rw[p] = "WRITE")
       => op[p] = "sync" \/ bh[p] \in Buf
  /\ pc[p] \in {"copy", "read"} => got[p] \in Buf
  /\ pc[p] = "sync" => at[p] >= 1
  /\ rw[p] = "WRITE" => pc[p] \in {"sync", "lock", "request", "nap", "waiting"}
  /\ op[p] = "sync" => pc[p] = "sync" \/ rw[p] = "WRITE"
  /\ InGetblk(p) /\ got[p] # 0 => op[p] = "breada"
  /\ pc[p] \in {"user", "copy"} <=> op[p] = "none"
  /\ op[p] \in {"bread", "breada"} => want[p] \in Block
  /\ op[p] = "breada" /\ pc[p] # "read" => ahead[p] \in Block
Control == \A p \in Proc : Ctl(p)

\* no two buffers of a block
Single == \A b, c \in Buf : b_blocknr[b] = b_blocknr[c] /\ b_blocknr[b] # 0 => b = c

\* the block of a buffer that is pinned or held
Blocks ==
  \A p \in Proc :
    /\ pc[p] \in {"hashed", "found"} => b_blocknr[bh[p]] = want[p]
    /\ got[p] # 0 => b_blocknr[got[p]] = IF InGetblk(p) THEN ahead[p] ELSE want[p]

\* a buffer that is held, read or written has a block
Named ==
  /\ \A p \in Proc : got[p] # 0 => b_blocknr[got[p]] # 0
  /\ \A p \in Proc : rw[p] = "WRITE" /\ pc[p] # "sync" => b_blocknr[at[p]] # 0
  /\ \A s \in Slot : request[s] # NoReq => b_blocknr[request[s].b] # 0

\* a lock has one owner
Locks ==
  /\ \A s \in Slot : request[s] # NoReq => b_lock[request[s].b]
  /\ \A p \in Proc : pc[p] \in Queueing => b_lock[Target(p)]
  /\ \A s, t \in Slot : request[s].b = request[t].b /\ request[s] # NoReq => s = t
  /\ \A p, q \in Proc :
       pc[p] \in Queueing /\ pc[q] \in Queueing /\ Target(p) = Target(q) => p = q
  /\ \A s \in Slot, p \in Proc : pc[p] \in Queueing => request[s].b # Target(p)
  /\ \A b \in Buf : b_lock[b] => \/ \E s \in Slot : request[s].b = b
                                 \/ \E p \in Proc : pc[p] \in Queueing /\ Target(p) = b

Counts == \A b \in Buf : b_count[b] = Cardinality(Pinning(b)) + Cardinality(Holding(b))

Sound(b) == b_blocknr[b] \in Meta \ failed

\* Why the file system's blocks are coherent: a buffer that is read is not up to
\* date, one that is written is and, when it has changed since, is dirty again;
\* whoever may change a block holds it up to date.
BufOK(b) == Sound(b) => (b_uptodate[b] => fresh[b]) /\ (b_dirt[b] => b_uptodate[b])
ReqOK(s) ==
  /\ request[s].cmd = "READ" => ~b_uptodate[request[s].b]
  /\ request[s].cmd = "WRITE" /\ Sound(request[s].b) =>
       b_uptodate[request[s].b] /\ (request[s].old => b_dirt[request[s].b])
ProcOK(p) ==
  /\ pc[p] \in Queueing => IF rw[p] = "READ" THEN ~b_uptodate[got[p]] ELSE b_dirt[at[p]]
  /\ pc[p] = "user" /\ got[p] # 0 /\ Sound(got[p]) => b_uptodate[got[p]]
  /\ pc[p] = "copy" => b_blocknr[got[p]] \in File
Contents ==
  /\ \A b \in Buf : BufOK(b)
  /\ \A s \in Slot : ReqOK(s)
  /\ \A p \in Proc : ProcOK(p)
  /\ \A k \in Meta \ failed : Stored(k)

IInv == /\ Types /\ QueueOK /\ Control /\ Single /\ Blocks /\ Named /\ Locks /\ Counts
        /\ NoLostWakeup /\ Contents

-----------------------------------------------------------------------------
(* Numbers and sequences *)

\* A set of numbers that is bounded has a least and a greatest element.
LEMMA MinMax ==
  ASSUME NEW n \in Nat, NEW S, S \subseteq 0 .. n, S # {}
  PROVE  Min(S) \in S /\ Max(S) \in S
  <1> DEFINE R == OpToRel(<, Nat)
             T == {n - x : x \in S}
  <1>1. S \subseteq Nat /\ T \subseteq Nat /\ T # {}
    <2>1. \A x \in S : x \in Nat /\ n - x \in Nat
      OBVIOUS
    <2> QED BY <2>1
  <1>2. PICK x \in S : \A y \in S : ~(<<y, x>> \in R)
    BY <1>1, NatLessThanWellFounded, WFMin
  <1>3. PICK u \in T : \A v \in T : ~(<<v, u>> \in R)
    BY <1>1, NatLessThanWellFounded, WFMin
  <1>4. \A y \in S : x =< y
    <2>1. \A y \in S : ~(y < x)
      BY <1>1, <1>2, Zenon DEF OpToRel
    <2> QED BY <1>1, <2>1
  <1>5. PICK z \in S : u = n - z
    OBVIOUS
  <1>6. \A y \in S : z >= y
    <2> TAKE y \in S
    <2>1. n - y \in T
      OBVIOUS
    <2>2. ~(n - y < u)
      BY <1>1, <1>3, <2>1, Zenon DEF OpToRel
    <2> QED BY <1>1, <1>5, <2>2
  <1> QED BY <1>4, <1>6 DEF Min, Max

\* Putting a new element at the end or in the middle of a sequence without
\* repetitions, and taking the first away.
LEMMA AppendOne ==
  ASSUME NEW S, NEW q \in Seq(S), IsInjective(q), NEW s \in S, s \notin Range(q)
  PROVE  /\ Append(q, s) \in Seq(S) /\ IsInjective(Append(q, s))
         /\ Range(Append(q, s)) = Range(q) \cup {s}
  <1> DEFINE r == Append(q, s)
  <1>1. r \in Seq(S) /\ Len(r) = Len(q) + 1 /\ DOMAIN r = 1 .. Len(q) + 1 /\ Len(q) \in Nat
        /\ DOMAIN q = 1 .. Len(q)
    OBVIOUS
  <1>2. r[Len(q) + 1] = s /\ \A i \in 1 .. Len(q) : r[i] = q[i]
    OBVIOUS
  <1> HIDE DEF r
  <1>3. Range(r) = Range(q) \cup {s}
    BY <1>1, <1>2 DEF Range
  <1>4. IsInjective(r)
    BY <1>1, <1>2 DEF Range, IsInjective
  <1> QED BY <1>1, <1>3, <1>4 DEF r

\* The same for an element put before place i, as add_request() does
LEMMA InsertOne ==
  ASSUME NEW S, NEW q \in Seq(S), IsInjective(q), NEW s \in S, s \notin Range(q),
         NEW i \in 1 .. Len(q) + 1
  PROVE  /\ InsertAt(q, i, s) \in Seq(S) /\ IsInjective(InsertAt(q, i, s))
         /\ Range(InsertAt(q, i, s)) = Range(q) \cup {s}
  <1> DEFINE n == Len(q)
             a == SubSeq(q, 1, i - 1)
             c == a \o <<s>>
             b == SubSeq(q, i, n)
             r == c \o b
  <1>1. n \in Nat /\ DOMAIN q = 1 .. n /\ i \in Nat /\ 1 <= i /\ i <= n + 1
        /\ \A j \in 1 .. n : q[j] \in S
    OBVIOUS
  <1>2. a \in Seq(S) /\ Len(a) = i - 1 /\ \A j \in 1 .. i - 1 : a[j] = q[j]
    <2>1. \A j \in 1 .. i - 1 : q[j] \in S
      BY <1>1
    <2>2. a \in Seq(S) /\ Len(a) = (IF 1 <= i - 1 THEN (i - 1) - 1 + 1 ELSE 0)
          /\ \A j \in 1 .. (i - 1) - 1 + 1 : a[j] = q[1 + j - 1]
      BY <1>1, <2>1, SubSeqProperties
    <2> HIDE DEF a
    <2> QED BY <1>1, <2>2
  <1>3. b \in Seq(S) /\ Len(b) = n - i + 1 /\ \A j \in 1 .. n - i + 1 : b[j] = q[i + j - 1]
    <2>1. \A j \in i .. n : q[j] \in S
      BY <1>1
    <2>2. b \in Seq(S) /\ Len(b) = (IF i <= n THEN n - i + 1 ELSE 0)
          /\ \A j \in 1 .. n - i + 1 : b[j] = q[i + j - 1]
      BY <1>1, <2>1, SubSeqProperties
    <2> HIDE DEF b
    <2> QED BY <1>1, <2>2
  <1> HIDE DEF a, b, n
  <1>4. c \in Seq(S) /\ Len(c) = i /\ c[i] = s /\ \A j \in 1 .. i - 1 : c[j] = q[j]
    <2>1. c = Append(a, s)
      BY <1>2
    <2>2. /\ Append(a, s) \in Seq(S) /\ Len(Append(a, s)) = (i - 1) + 1
          /\ Append(a, s)[(i - 1) + 1] = s /\ \A j \in 1 .. i - 1 : Append(a, s)[j] = a[j]
      BY <1>2, AppendProperties
    <2> HIDE DEF c
    <2> QED BY <1>1, <1>2, <2>1, <2>2
  <1> HIDE DEF c
  <1>5. /\ r \in Seq(S) /\ Len(r) = n + 1 /\ DOMAIN r = 1 .. n + 1
        /\ \A j \in 1 .. n + 1 : r[j] = IF j <= i THEN c[j] ELSE b[j - i]
    <2>1. r \in Seq(S) /\ Len(r) = Len(c) + Len(b)
          /\ \A j \in 1 .. Len(c) + Len(b) : r[j] = IF j <= Len(c) THEN c[j] ELSE b[j - Len(c)]
      BY <1>3, <1>4, ConcatProperties
    <2>2. Len(c) + Len(b) = n + 1
      BY <1>1, <1>3, <1>4
    <2>3. DOMAIN r = 1 .. Len(r)
      BY <2>1
    <2> HIDE DEF r
    <2> QED BY <1>4, <2>1, <2>2, <2>3
  <1> HIDE DEF r
  <1>6. r[i] = s
    BY <1>1, <1>4, <1>5
  <1>7. \A j \in 1 .. n : j < i => r[j] = q[j]
    BY <1>1, <1>4, <1>5
  <1>8. \A j \in 1 .. n : j >= i => r[j + 1] = q[j]
    <2> SUFFICES ASSUME NEW j \in 1 .. n, j >= i PROVE r[j + 1] = q[j]
      OBVIOUS
    <2>1. j + 1 \in 1 .. n + 1 /\ ~(j + 1 <= i) /\ (j + 1) - i \in 1 .. n - i + 1
      BY <1>1
    <2>2. r[j + 1] = b[(j + 1) - i]
      BY <1>5, <2>1
    <2>3. b[(j + 1) - i] = q[i + ((j + 1) - i) - 1] /\ i + ((j + 1) - i) - 1 = j
      BY <1>1, <1>3, <2>1
    <2> QED BY <2>2, <2>3
  <1>9. \A m \in 1 .. n + 1 : m # i => \E j \in 1 .. n : r[m] = q[j] /\ m = IF j < i THEN j ELSE j + 1
    <2> SUFFICES ASSUME NEW m \in 1 .. n + 1, m # i
                 PROVE  \E j \in 1 .. n : r[m] = q[j] /\ m = IF j < i THEN j ELSE j + 1
      OBVIOUS
    <2>1. CASE m < i
      <3>1. m \in 1 .. n
        BY <1>1, <2>1
      <3> QED BY <1>7, <2>1, <3>1
    <2>2. CASE m > i
      <3>1. m - 1 \in 1 .. n /\ m - 1 >= i /\ ~(m - 1 < i) /\ m = (m - 1) + 1
        BY <1>1, <2>2
      <3>2. r[(m - 1) + 1] = q[m - 1]
        BY <1>8, <3>1
      <3> QED BY <3>1, <3>2
    <2> QED BY <1>1, <2>1, <2>2
  <1>10. Range(r) = Range(q) \cup {s}
    <2>1. \A x : x \in Range(r) <=> \E j \in 1 .. n + 1 : x = r[j]
      BY <1>5 DEF Range
    <2>2. \A x : x \in Range(q) <=> \E j \in 1 .. n : x = q[j]
      BY <1>1 DEF Range
    <2>3. \A j \in 1 .. n : j \in 1 .. n + 1 /\ j + 1 \in 1 .. n + 1 /\ (j < i \/ j >= i)
      BY <1>1
    <2>4. i \in 1 .. n + 1
      BY <1>1
    <2>5. \A j \in 1 .. n : q[j] \in Range(r)
      BY <1>7, <1>8, <2>1, <2>3
    <2>6. \A j \in 1 .. n + 1 : r[j] \in Range(q) \cup {s}
      BY <1>6, <1>9, <2>2
    <2>7. s \in Range(r)
      BY <1>6, <2>1, <2>4
    <2> QED BY <2>1, <2>2, <2>5, <2>6, <2>7
  <1>11. IsInjective(r)
    <2> SUFFICES ASSUME NEW j \in 1 .. n + 1, NEW k \in 1 .. n + 1, r[j] = r[k]
                 PROVE  j = k
      BY <1>5 DEF IsInjective
    <2>1. \A m \in 1 .. n : q[m] # s
      BY <1>1 DEF Range
    <2>2. CASE j = i \/ k = i
      BY <1>6, <1>9, <2>1, <2>2
    <2>3. CASE j # i /\ k # i
      <3>1. PICK u \in 1 .. n : r[j] = q[u] /\ j = IF u < i THEN u ELSE u + 1
        BY <1>9, <2>3
      <3>2. PICK v \in 1 .. n : r[k] = q[v] /\ k = IF v < i THEN v ELSE v + 1
        BY <1>9, <2>3
      <3>3. u = v
        BY <1>1, <3>1, <3>2 DEF IsInjective
      <3> QED BY <3>1, <3>2, <3>3
    <2> QED BY <2>2, <2>3
  <1> QED BY <1>5, <1>10, <1>11 DEF r, c, a, b, n, InsertAt

\* The first element of such a sequence is not in its tail.
LEMMA TailOne ==
  ASSUME NEW S, NEW q \in Seq(S), IsInjective(q), q # <<>>
  PROVE  /\ Head(q) \in Range(q) /\ Head(q) \in S
         /\ Tail(q) \in Seq(S) /\ IsInjective(Tail(q))
         /\ Range(Tail(q)) = Range(q) \ {Head(q)}
  <1> DEFINE r == Tail(q)
             n == Len(q)
  <1>1. /\ n \in Nat \ {0} /\ DOMAIN q = 1 .. n /\ Head(q) = q[1] /\ Head(q) \in S
        /\ r \in Seq(S) /\ DOMAIN r = 1 .. n - 1
        /\ \A i \in 1 .. n - 1 : r[i] = q[i + 1]
    OBVIOUS
  <1> HIDE DEF r, n
  <1>2. \A x : x \in Range(r) <=> \E j \in 1 .. n - 1 : x = r[j]
    BY <1>1 DEF Range
  <1>3. \A x : x \in Range(q) <=> \E j \in 1 .. n : x = q[j]
    BY <1>1 DEF Range
  <1>4. \A j \in 1 .. n - 1 : j + 1 \in 1 .. n /\ j + 1 # 1 /\ 1 \in 1 .. n
    BY <1>1
  <1>5. \A j \in 1 .. n - 1 : r[j] \in Range(q) /\ r[j] # q[1]
    BY <1>1, <1>3, <1>4 DEF IsInjective
  <1>6. \A j \in 1 .. n : j # 1 => q[j] \in Range(r)
    <2> SUFFICES ASSUME NEW j \in 1 .. n, j # 1 PROVE q[j] \in Range(r)
      OBVIOUS
    <2>1. j - 1 \in 1 .. n - 1 /\ (j - 1) + 1 = j
      BY <1>1
    <2>2. r[j - 1] = q[j]
      BY <1>1, <2>1
    <2> QED BY <1>2, <2>1, <2>2
  <1>7. Range(r) = Range(q) \ {q[1]}
    BY <1>2, <1>3, <1>5, <1>6
  <1>8. IsInjective(r)
    <2> SUFFICES ASSUME NEW j \in 1 .. n - 1, NEW k \in 1 .. n - 1, r[j] = r[k] PROVE j = k
      BY <1>1 DEF IsInjective
    <2>1. q[j + 1] = q[k + 1]
      BY <1>1
    <2>2. j + 1 = k + 1
      BY <1>1, <1>4, <2>1 DEF IsInjective
    <2> QED BY <2>2
  <1>9. q[1] \in Range(q)
    <2>1. 1 \in 1 .. n
      BY <1>1
    <2> QED BY <1>3, <2>1
  <1> QED BY <1>1, <1>7, <1>8, <1>9 DEF r

-----------------------------------------------------------------------------
(* The request table *)

\* What an entry of the table is; a free one is of no buffer.
LEMMA ReqFacts ==
  /\ \A r \in Req : /\ r # NoReq /\ r.b \in Buf /\ r.b # 0 /\ r.cmd \in {"READ", "WRITE"}
                     /\ r.old \in BOOLEAN
  /\ NoReq.b = 0 /\ NoReq.cmd = "NONE" /\ 0 \notin Buf
  BY DEF Req, NoReq, Buf

\* A change of a buffer marks its requests.
LEMMA Changed ==
  ASSUME Types, NEW b \in Buf, Change(b)
  PROVE  /\ request' \in [Slot -> Req \cup {NoReq}]
         /\ \A s \in Slot : /\ request'[s].b = request[s].b /\ request'[s].cmd = request[s].cmd
                            /\ request[s].b = b => request'[s].old
                            /\ request[s].b # b => request'[s] = request[s]
                            /\ request'[s] \in Req <=> request[s] \in Req
  <1>1. \A s \in Slot : request[s] \in Req \cup {NoReq}
    BY DEF Types
  <1>2. \A r \in Req : /\ [r EXCEPT !.old = TRUE] \in Req /\ [r EXCEPT !.old = TRUE].b = r.b
                       /\ [r EXCEPT !.old = TRUE].cmd = r.cmd /\ [r EXCEPT !.old = TRUE].old
    BY DEF Req
  <1>3. request' = [s \in Slot |-> IF request[s].b = b THEN [request[s] EXCEPT !.old = TRUE]
                                                     ELSE request[s]]
    BY DEF Change
  <1>4. \A s \in Slot : request[s].b = b => request[s] \in Req
    BY <1>1, ReqFacts
  <1>5. \A s \in Slot : request'[s] = IF request[s].b = b THEN [request[s] EXCEPT !.old = TRUE]
                                                        ELSE request[s]
    BY <1>3
  <1>6. \A s \in Slot : request'[s] \in Req \cup {NoReq}
    BY <1>1, <1>2, <1>4, <1>5
  <1>7. request' \in [Slot -> Req \cup {NoReq}]
    BY <1>3, <1>6
  <1> QED BY <1>2, <1>4, <1>5, <1>7

\* make_request() takes a free entry of the table.
LEMMA FreeSlot ==
  ASSUME NEW cmd, FreeSlots(cmd) # {}
  PROVE  Max(FreeSlots(cmd)) \in Slot /\ request[Max(FreeSlots(cmd))] = NoReq
  <1> DEFINE n == IF cmd = "READ" THEN NReq ELSE (NReq * 2) \div 3
  <1>1. n \in Nat /\ n <= NReq
    BY BufferAssumption
  <1>2. FreeSlots(cmd) = {s \in 1 .. n : request[s] = NoReq}
    BY DEF FreeSlots
  <1> HIDE DEF n
  <1>3. FreeSlots(cmd) \subseteq 0 .. n
    BY <1>2
  <1>4. Max(FreeSlots(cmd)) \in FreeSlots(cmd)
    BY <1>1, <1>3, MinMax
  <1> QED BY <1>1, <1>2, <1>4, BufferAssumption DEF Slot

\* add_request() puts it into the list, wherever the elevator wants it.
LEMMA QueuedOne ==
  ASSUME QueueOK, NEW s \in Slot, request[s] = NoReq, NEW r
  PROVE  /\ Queued(s, r) \in Seq(Slot) /\ IsInjective(Queued(s, r))
         /\ Range(Queued(s, r)) = Range(queue) \cup {s}
  <1> DEFINE q == [j \in 1 .. Len(queue) |-> request[queue[j]]]
             fits == {j \in 1 .. Len(queue) - 1 : /\ InOrder(q[j], r) \/ ~InOrder(q[j], q[j + 1])
                                                  /\ InOrder(r, q[j + 1])}
  <1>1. queue \in Seq(Slot) /\ IsInjective(queue) /\ s \notin Range(queue)
    BY DEF QueueOK
  <1>2. Queued(s, r) = IF fits = {} THEN Append(queue, s) ELSE InsertAt(queue, Min(fits) + 1, s)
    BY DEF Queued
  <1>3. Len(queue) \in Nat /\ fits \subseteq 1 .. Len(queue) - 1
    BY <1>1
  <1> HIDE DEF q, fits
  <1>4. CASE fits = {}
    BY <1>1, <1>2, <1>4, AppendOne
  <1>5. CASE fits # {}
    <2>1. fits \subseteq 0 .. Len(queue)
      BY <1>3
    <2>2. Min(fits) \in fits
      BY <1>3, <1>5, <2>1, MinMax
    <2>3. Min(fits) + 1 \in 1 .. Len(queue) + 1
      <3>1. \A m \in 1 .. Len(queue) - 1 : m + 1 \in 1 .. Len(queue) + 1
        BY <1>3
      <3> QED BY <1>3, <2>2, <3>1
    <2> QED BY <1>1, <1>2, <1>5, <2>3, InsertOne
  <1> QED BY <1>4, <1>5

\* What AddRequest() does to the table and the list
LEMMA Added ==
  ASSUME Types, QueueOK, NEW cmd \in {"READ", "WRITE"}, NEW b \in Buf, FreeSlots(cmd) # {},
         AddRequest(cmd, b)
  PROVE  /\ \E s \in Slot : /\ request[s] = NoReq
                            /\ request' = [request EXCEPT ![s] = [cmd |-> cmd, b |-> b, old |-> FALSE]]
         /\ request' \in [Slot -> Req \cup {NoReq}]
         /\ QueueOK'
         /\ b_dirt' = [b_dirt EXCEPT ![b] = FALSE]
  <1> DEFINE s == Max(FreeSlots(cmd))
             r == [cmd |-> cmd, b |-> b, old |-> FALSE]
  <1>1. s \in Slot /\ request[s] = NoReq
    BY FreeSlot
  <1>2. /\ request' = [request EXCEPT ![s] = r] /\ queue' = Queued(s, r)
        /\ b_dirt' = [b_dirt EXCEPT ![b] = FALSE]
    BY DEF AddRequest
  <1>3. r \in Req /\ r # NoReq
    BY DEF Req, NoReq
  <1> HIDE DEF s, r
  <1>4. /\ queue' \in Seq(Slot) /\ IsInjective(queue') /\ Range(queue') = Range(queue) \cup {s}
    BY <1>1, <1>2, QueuedOne
  <1>5. {t \in Slot : request'[t] # NoReq} = {t \in Slot : request[t] # NoReq} \cup {s}
    BY <1>1, <1>2, <1>3 DEF Types
  <1>6. QueueOK'
    BY <1>4, <1>5 DEF QueueOK
  <1>7. request' \in [Slot -> Req \cup {NoReq}]
    BY <1>1, <1>2, <1>3 DEF Types
  <1> QED BY <1>1, <1>2, <1>6, <1>7 DEF r

\* The first request of the list, and the table without it
LEMMA Served ==
  ASSUME Types, QueueOK, queue # <<>>
  PROVE  /\ Head(queue) \in Slot /\ request[Head(queue)] \in Req
         /\ request' = [request EXCEPT ![Head(queue)] = NoReq] /\ queue' = Tail(queue) => QueueOK'
  <1> DEFINE s == Head(queue)
  <1>1. queue \in Seq(Slot) /\ IsInjective(queue)
    BY DEF QueueOK
  <1>2. /\ s \in Slot /\ s \in Range(queue)
        /\ Tail(queue) \in Seq(Slot) /\ IsInjective(Tail(queue))
        /\ Range(Tail(queue)) = Range(queue) \ {s}
    BY <1>1, TailOne
  <1> HIDE DEF s
  <1>3. request[s] # NoReq
    BY <1>2 DEF QueueOK
  <1>4. request[s] \in Req
    BY <1>2, <1>3 DEF Types
  <1>5. ASSUME request' = [request EXCEPT ![s] = NoReq], queue' = Tail(queue) PROVE QueueOK'
    <2>1. {t \in Slot : request'[t] # NoReq} = {t \in Slot : request[t] # NoReq} \ {s}
      BY <1>2, <1>5 DEF Types
    <2> QED BY <1>2, <1>5, <2>1 DEF QueueOK
  <1> QED BY <1>2, <1>4, <1>5 DEF s

-----------------------------------------------------------------------------
(* Users of a buffer *)

\* The users of a buffer are finitely many.
LEMMA UsersFinite ==
  ASSUME NEW b
  PROVE  /\ IsFiniteSet(Pinning(b)) /\ IsFiniteSet(Holding(b))
         /\ Cardinality(Pinning(b)) \in Nat /\ Cardinality(Holding(b)) \in Nat
  <1>1. Pinning(b) \subseteq Proc /\ Holding(b) \subseteq Proc
    BY DEF Pinning, Holding
  <1>2. IsFiniteSet(Pinning(b)) /\ IsFiniteSet(Holding(b))
    BY <1>1, FS_Subset, BufferAssumption
  <1> QED BY <1>2, FS_CardinalityType

\* A buffer with a user has a positive count.
LEMMA Used ==
  ASSUME Counts, NEW b \in Buf, NEW p \in Pinning(b) \cup Holding(b)
  PROVE  b_count[b] >= 1
  <1>1. b_count[b] = Cardinality(Pinning(b)) + Cardinality(Holding(b))
    BY DEF Counts
  <1>2. Cardinality(Pinning(b)) # 0 \/ Cardinality(Holding(b)) # 0
    BY UsersFinite, FS_EmptySet
  <1> QED BY <1>1, <1>2, UsersFinite

-----------------------------------------------------------------------------
(* Types *)

\* A process that is about to lock or has locked a buffer knows which.
LEMMA TargetBuf ==
  ASSUME Control, NEW p \in Proc, pc[p] \in {"lock", "request", "nap", "waiting"}
  PROVE  Target(p) \in Buf
  BY DEF Control, Ctl

\* Where ll_rw_block() returns to
LEMMA ReturnTypes ==
  ASSUME Types, Control, NEW p \in Proc, Return(p),
         rw[p] = "WRITE" => pc[p] \in {"lock", "request", "nap", "waiting"}
  PROVE  /\ pc' \in [Proc -> Labels] /\ want' \in [Proc -> Block \cup {0}]
         /\ ahead' \in [Proc -> Block \cup {0}] /\ at' \in [Proc -> 0 .. NBuf + 1]
  <1>1. CASE rw[p] = "WRITE"
    <2>1. at[p] \in Buf
      BY <1>1, TargetBuf DEF Target
    <2>2. at[p] + 1 \in 0 .. NBuf + 1
      BY <2>1, BufferAssumption DEF Buf
    <2> QED BY <1>1, <2>2 DEF Return, Goto, Types, Labels
  <1>2. CASE rw[p] # "WRITE"
    BY <1>2 DEF Return, Goto, Types, Labels
  <1> QED BY <1>1, <1>2

\* Counts that go down were positive.
LEMMA Decrement ==
  ASSUME Types, Counts, NEW b \in Buf, NEW p \in Pinning(b) \cup Holding(b)
  PROVE  [b_count EXCEPT ![b] = @ - 1] \in [Buf -> Nat]
  <1>1. b_count[b] \in Nat /\ b_count[b] >= 1
    BY Used DEF Types
  <1>2. b_count[b] - 1 \in Nat
    BY <1>1
  <1> QED BY <1>2 DEF Types

\* A completed request s, of which the driver says that it went ok
Ended(s, ok, late) ==
  /\ request[s] \in Req
  /\ b_uptodate' = [b_uptodate EXCEPT ![request[s].b] = ok]
  /\ b_lock' = [b_lock EXCEPT ![request[s].b] = FALSE]
  /\ \/ /\ request[s].cmd = "READ"
        /\ fresh' = [fresh EXCEPT ![request[s].b] = ok /\ disk[b_blocknr[request[s].b]]]
        /\ UNCHANGED <<disk, failed>>
     \/ /\ request[s].cmd = "WRITE"
        /\ disk' = [disk EXCEPT ![b_blocknr[request[s].b]]
                                  = ok /\ fresh[request[s].b] /\ (request[s].old => late)]
        /\ failed' = (IF ok THEN failed ELSE failed \cup {b_blocknr[request[s].b]})
        /\ UNCHANGED fresh
  /\ request' = [request EXCEPT ![s] = NoReq]
  /\ pc' = [q \in Proc |-> IF pc[q] = "waiting" THEN "request" ELSE pc[q]]
  /\ UNCHANGED <<b_blocknr, b_count, b_dirt, op, want, ahead, bh, got, rw, at>>

\* end_request() completes the first request and takes it out of the list.
LEMMA EndFacts ==
  ASSUME Types, QueueOK, EndRequest
  PROVE  QueueOK' /\ \E s \in Slot, ok, late \in BOOLEAN : Ended(s, ok, late)
  <1> DEFINE s == Head(queue)
  <1>1. queue # <<>> /\ request' = [request EXCEPT ![s] = NoReq] /\ queue' = Tail(queue)
    BY DEF EndRequest
  <1>2. s \in Slot /\ request[s] \in Req /\ QueueOK'
    BY <1>1, Served
  <1>3. request[s].cmd \in {"READ", "WRITE"}
    BY <1>2 DEF Req
  <1>4. \E ok, late \in BOOLEAN : Ended(s, ok, late)
    BY <1>2, <1>3 DEF EndRequest, Ended
  <1> QED BY <1>2, <1>4

\* getblk() gives the buffer it has found to the block.
Taken(p) ==
  /\ pc[p] = "victim" /\ ~b_lock[bh[p]] /\ b_count[bh[p]] = 0 /\ ~b_dirt[bh[p]]
  /\ Buffers(want[p]) = {}
  /\ b_count' = [b_count EXCEPT ![bh[p]] = 1]
  /\ b_dirt' = [b_dirt EXCEPT ![bh[p]] = FALSE]
  /\ b_uptodate' = [b_uptodate EXCEPT ![bh[p]] = FALSE]
  /\ b_blocknr' = [b_blocknr EXCEPT ![bh[p]] = want[p]]
  /\ fresh' = [fresh EXCEPT ![bh[p]] = FALSE]
  /\ pc' = [pc EXCEPT ![p] = "found"]
  /\ UNCHANGED <<b_lock, at, bh>>

\* It does so, or has found that it must begin again or write buffers first.
LEMMA VictimTaken ==
  ASSUME Types, NEW p \in Proc, Victim(p)
  PROVE  \/ Taken(p)
         \/ /\ UNCHANGED <<head, fresh>>
            /\ \/ pc' = [pc EXCEPT ![p] = "repeat"] /\ bh' = [bh EXCEPT ![p] = 0] /\ at' = at
               \/ pc' = [pc EXCEPT ![p] = "sync"] /\ bh' = bh /\ at' = [at EXCEPT ![p] = 1]
  <1> DEFINE b == bh[p]
  <1>1. bh' = IF pc'[p] = "repeat" THEN [bh EXCEPT ![p] = 0] ELSE bh
    BY DEF Victim
  <1>2. \A l : [pc EXCEPT ![p] = l][p] = l
    BY DEF Types
  <1>3. CASE StillFree(b) /\ ~b_dirt[b] /\ ~AddedMeanwhile(want[p])
    BY <1>1, <1>2, <1>3 DEF Victim, Taken, Goto, StillFree, AddedMeanwhile
  <1>4. CASE ~(StillFree(b) /\ ~b_dirt[b] /\ ~AddedMeanwhile(want[p]))
    BY <1>1, <1>2, <1>4 DEF Victim, Goto
  <1> QED BY <1>3, <1>4

\* Every step keeps the types and the list of requests.
LEMMA TypesStep ==
  ASSUME Types, QueueOK, Control, Named, Counts, Next
  PROVE  Types' /\ QueueOK'
  <1> USE DEF Goto, head, data, io, locals
  <1>1. CASE EndRequest
    <2>1. PICK s \in Slot, ok \in BOOLEAN, late \in BOOLEAN : Ended(s, ok, late)
      BY <1>1, EndFacts
    <2>2. request[s].b \in Buf /\ b_blocknr[request[s].b] \in Block
      BY <2>1 DEF Ended, Req, NoReq, Types, Named
    <2>3. failed' \subseteq Block /\ fresh' \in [Buf -> BOOLEAN] /\ disk' \in [Block -> BOOLEAN]
      BY <2>1, <2>2 DEF Ended, Types
    <2>4. request' \in [Slot -> Req \cup {NoReq}] /\ pc' \in [Proc -> Labels]
      BY <2>1 DEF Ended, Types, Labels
    <2>5. Types'
      BY <2>1, <2>2, <2>3, <2>4 DEF Ended, Types
    <2> QED BY <1>1, <2>5, EndFacts
  <1>2. ASSUME NEW p \in Proc, Repeat(p) PROVE Types' /\ QueueOK'
    <2>1. b_count' \in [Buf -> Nat] /\ bh' \in [Proc -> Buf \cup {0}] /\ pc' \in [Proc -> Labels]
      BY <1>2 DEF Repeat, Types, Buffers, LeastBad, Unused, Labels, Pinned
    <2> QED BY <1>2, <2>1 DEF Repeat, Types, QueueOK
  <1>3. ASSUME NEW p \in Proc, Hashed(p) PROVE Types' /\ QueueOK'
    <2>1. bh[p] \in Buf /\ p \in Pinning(bh[p])
      BY <1>3 DEF Hashed, Control, Ctl, Pinning
    <2>2. b_count' \in [Buf -> Nat]
      BY <1>3, <2>1, Decrement DEF Hashed, Types
    <2>3. bh' \in [Proc -> Buf \cup {0}] /\ pc' \in [Proc -> Labels]
      BY <1>3 DEF Hashed, Types, Labels
    <2> QED BY <1>3, <2>2, <2>3 DEF Hashed, Types, QueueOK
  <1>4. ASSUME NEW p \in Proc, Victim(p) PROVE Types' /\ QueueOK'
    <2>1. /\ b_blocknr' \in [Buf -> Block \cup {0}] /\ b_count' \in [Buf -> Nat]
          /\ b_dirt' \in [Buf -> BOOLEAN] /\ b_uptodate' \in [Buf -> BOOLEAN]
          /\ fresh' \in [Buf -> BOOLEAN]
      <3>1. CASE Taken(p)
        BY <3>1 DEF Taken, Types
      <3>2. CASE UNCHANGED <<head, fresh>>
        BY <3>2 DEF Types
      <3> QED BY <1>4, <3>1, <3>2, VictimTaken
    <2>2. bh' \in [Proc -> Buf \cup {0}] /\ pc' \in [Proc -> Labels] /\ at' \in [Proc -> 0 .. NBuf + 1]
      BY <1>4, BufferAssumption DEF Victim, Types, Labels
    <2> QED BY <1>4, <2>1, <2>2 DEF Victim, Types, QueueOK
  <1>5. ASSUME NEW p \in Proc, Lock(p) PROVE Types' /\ QueueOK'
    <2>1. pc[p] = "lock"
      BY <1>5 DEF Lock
    <2>2. /\ pc' \in [Proc -> Labels] /\ want' \in [Proc -> Block \cup {0}]
          /\ ahead' \in [Proc -> Block \cup {0}] /\ at' \in [Proc -> 0 .. NBuf + 1]
      <3>1. CASE Return(p)
        BY <2>1, <3>1, ReturnTypes
      <3>2. CASE ~Return(p)
        BY <1>5, <3>2 DEF Lock, Types, Labels
      <3> QED BY <3>1, <3>2
    <2>3. b_lock' \in [Buf -> BOOLEAN]
      BY <1>5 DEF Lock, Types, AfterSkip
    <2> QED BY <1>5, <2>2, <2>3 DEF Lock, Types, QueueOK
  <1>6. ASSUME NEW p \in Proc, Request(p) PROVE Types' /\ QueueOK'
    <2>1. pc[p] = "request" /\ Target(p) \in Buf
      BY <1>6, TargetBuf DEF Request
    <2>2. CASE FreeSlots(rw[p]) # {}
      <3>1. AddRequest(rw[p], Target(p)) /\ Return(p)
        BY <1>6, <2>2 DEF Request
      <3>2. rw[p] \in {"READ", "WRITE"}
        BY DEF Types
      <3>3. /\ request' \in [Slot -> Req \cup {NoReq}] /\ QueueOK'
            /\ b_dirt' = [b_dirt EXCEPT ![Target(p)] = FALSE]
        BY <2>1, <2>2, <3>1, <3>2, Added
      <3>4. /\ pc' \in [Proc -> Labels] /\ want' \in [Proc -> Block \cup {0}]
            /\ ahead' \in [Proc -> Block \cup {0}] /\ at' \in [Proc -> 0 .. NBuf + 1]
        BY <2>1, <3>1, ReturnTypes
      <3>5. b_dirt' \in [Buf -> BOOLEAN]
        BY <2>1, <3>3 DEF Types
      <3> QED BY <1>6, <3>3, <3>4, <3>5 DEF Request, Types
    <2>3. CASE FreeSlots(rw[p]) = {}
      <3>1. pc' \in [Proc -> Labels]
        BY <1>6, <2>3 DEF Request, Types, Labels
      <3> QED BY <1>6, <2>3, <3>1 DEF Request, Types, QueueOK
    <2> QED BY <2>2, <2>3
  <1>7. ASSUME NEW p \in Proc, Nap(p) PROVE Types' /\ QueueOK'
    BY <1>7 DEF Nap, Types, QueueOK, Labels
  <1>8. ASSUME NEW p \in Proc, Sync(p) PROVE Types' /\ QueueOK'
    <2>1. at[p] \in 0 .. NBuf + 1 /\ NBuf \in Nat
      BY BufferAssumption DEF Types
    <2>2. at' \in [Proc -> 0 .. NBuf + 1]
      <3>1. CASE at[p] <= NBuf
        <4>1. at[p] + 1 \in 0 .. NBuf + 1
          BY <2>1, <3>1
        <4> QED BY <1>8, <2>1, <3>1, <4>1 DEF Sync, Types
      <3>2. CASE at[p] > NBuf
        BY <1>8, <2>1, <3>2 DEF Sync, Types
      <3> QED BY <2>1, <3>1, <3>2
    <2>3. /\ pc' \in [Proc -> Labels] /\ op' \in [Proc -> {"none", "bread", "breada", "sync"}]
          /\ rw' \in [Proc -> {"READ", "WRITE"}]
      BY <1>8 DEF Sync, Types, Labels
    <2> QED BY <1>8, <2>2, <2>3 DEF Sync, Types, QueueOK
  <1>9. ASSUME NEW p \in Proc, SysSync(p) PROVE Types' /\ QueueOK'
    BY <1>9, BufferAssumption DEF SysSync, Types, QueueOK, Labels
  <1>10. ASSUME NEW p \in Proc, NEW k \in Block, Bread(p, k) \/ Breada(p, k)
         PROVE  Types' /\ QueueOK'
    <2>1. /\ pc' \in [Proc -> Labels] /\ op' \in [Proc -> {"none", "bread", "breada", "sync"}]
          /\ want' \in [Proc -> Block \cup {0}] /\ ahead' \in [Proc -> Block \cup {0}]
      BY <1>10 DEF Bread, Breada, Types, Labels
    <2> QED BY <1>10, <2>1 DEF Bread, Breada, Types, QueueOK
  <1>11. ASSUME NEW p \in Proc, Found(p) PROVE Types' /\ QueueOK'
    <2>1. /\ pc' \in [Proc -> Labels] /\ want' \in [Proc -> Block \cup {0}]
          /\ ahead' \in [Proc -> Block \cup {0}] /\ at' \in [Proc -> 0 .. NBuf + 1]
      <3>1. CASE Return(p)
        <4>1. rw[p] # "WRITE"
          BY <1>11 DEF Found, Control, Ctl
        <4> QED BY <3>1, <4>1, ReturnTypes
      <3>2. CASE ~Return(p)
        BY <1>11, <3>2 DEF Found, Types, Labels
      <3> QED BY <3>1, <3>2
    <2>2. bh' \in [Proc -> Buf \cup {0}] /\ got' \in [Proc -> Buf \cup {0}]
      BY <1>11 DEF Found, Types
    <2> QED BY <1>11, <2>1, <2>2 DEF Found, Types, QueueOK
  <1>12. ASSUME NEW p \in Proc, FoundAhead(p) PROVE Types' /\ QueueOK'
    <2>1. bh[p] \in Buf /\ p \in Pinning(bh[p]) /\ got[p] \in Buf
      BY <1>12 DEF FoundAhead, Control, Ctl, Pinning, Types
    <2>2. b_count' \in [Buf -> Nat]
      BY <1>12, <2>1, Decrement DEF FoundAhead
    <2>3. /\ request' \in [Slot -> Req \cup {NoReq}] /\ QueueOK'
          /\ b_dirt' \in [Buf -> BOOLEAN] /\ b_lock' \in [Buf -> BOOLEAN]
      <3>1. CASE AddRequest("READ", got[p]) /\ FreeSlots("READ") # {}
                 /\ b_lock' = [b_lock EXCEPT ![got[p]] = TRUE]
        <4>1. /\ request' \in [Slot -> Req \cup {NoReq}] /\ QueueOK'
              /\ b_dirt' = [b_dirt EXCEPT ![got[p]] = FALSE]
          BY <2>1, <3>1, Added
        <4> QED BY <2>1, <3>1, <4>1 DEF Types
      <3>2. CASE UNCHANGED <<b_dirt, b_lock, io>>
        BY <3>2 DEF Types, QueueOK
      <3> QED BY <1>12, <3>1, <3>2 DEF FoundAhead
    <2>4. /\ pc' \in [Proc -> Labels] /\ want' \in [Proc -> Block \cup {0}]
          /\ ahead' \in [Proc -> Block \cup {0}] /\ bh' \in [Proc -> Buf \cup {0}]
      BY <1>12 DEF FoundAhead, Types, Labels
    <2> QED BY <1>12, <2>2, <2>3, <2>4 DEF FoundAhead, Types
  <1>13. ASSUME NEW p \in Proc, Read(p) \/ Brelse(p) PROVE Types' /\ QueueOK'
    <2>1. got[p] \in Buf /\ p \in Holding(got[p])
      BY <1>13 DEF Read, Brelse, Control, Ctl, Types, Holding
    <2>2. b_count' \in [Buf -> Nat]
      BY <1>13, <2>1, Decrement DEF Read, Brelse, Release, Types
    <2>3. /\ pc' \in [Proc -> Labels] /\ got' \in [Proc -> Buf \cup {0}]
          /\ want' \in [Proc -> Block \cup {0}]
      BY <1>13 DEF Read, Brelse, Release, Woken, Types, Labels
    <2>4. op' \in [Proc -> {"none", "bread", "breada", "sync"}]
      BY <1>13 DEF Read, Brelse, Types
    <2> QED BY <1>13, <2>2, <2>3, <2>4 DEF Read, Brelse, Types, QueueOK
  <1>14. ASSUME NEW p \in Proc, ChangeMeta(p) \/ FileWrite(p) \/ FileCopy(p)
         PROVE  Types' /\ QueueOK'
    <2>1. b_dirt' \in [Buf -> BOOLEAN] /\ pc' \in [Proc -> Labels]
      BY <1>14 DEF ChangeMeta, FileWrite, FileCopy, Types, Labels
    <2>2. fresh' \in [Buf -> BOOLEAN] /\ disk' \in [Block -> BOOLEAN]
      BY <1>14 DEF ChangeMeta, FileWrite, FileCopy, Change, Types
    <2>3. /\ request' \in [Slot -> Req \cup {NoReq}]
          /\ \A s \in Slot : request'[s] # NoReq <=> request[s] # NoReq
      <3>1. CASE Change(got[p])
        <4>1. got[p] \in Buf
          BY <1>14 DEF ChangeMeta, FileWrite, FileCopy, Control, Ctl, Types
        <4> QED BY <3>1, <4>1, Changed, ReqFacts
      <3>2. CASE UNCHANGED request
        BY <3>2 DEF Types
      <3> QED BY <1>14, <3>1, <3>2 DEF ChangeMeta, FileWrite, FileCopy
    <2> QED BY <1>14, <2>1, <2>2, <2>3 DEF ChangeMeta, FileWrite, FileCopy, Types, QueueOK
  <1> QED BY <1>1, <1>2, <1>3, <1>4, <1>5, <1>6, <1>7, <1>8, <1>9, <1>10, <1>11, <1>12, <1>13,
             <1>14 DEF Next

-----------------------------------------------------------------------------
(* Control *)

\* a step of process p
ByProc(p) ==
  \/ Repeat(p) \/ Hashed(p) \/ Victim(p) \/ Lock(p) \/ Request(p) \/ Nap(p)
  \/ Sync(p) \/ SysSync(p) \/ Found(p) \/ FoundAhead(p) \/ Read(p) \/ Brelse(p)
  \/ ChangeMeta(p) \/ FileWrite(p) \/ FileCopy(p)
  \/ \E k \in Block : Bread(p, k) \/ Breada(p, k)

LocalsKept(q) ==
  /\ op'[q] = op[q] /\ want'[q] = want[q] /\ ahead'[q] = ahead[q] /\ bh'[q] = bh[q]
  /\ got'[q] = got[q] /\ rw'[q] = rw[q] /\ at'[q] = at[q]

\* What the step of a process or an interrupt does to another process: it may
\* wake it up.
Kept(q) ==
  /\ LocalsKept(q)
  /\ \/ pc'[q] = pc[q]
     \/ pc[q] = "sleeping" /\ pc'[q] = "repeat"
     \/ pc[q] = "waiting" /\ pc'[q] = "request"

\* The step of a process leaves the others alone; only end_request() wakes one
\* that waits for a free request.
LEMMA OthersKept ==
  ASSUME Types, NEW p \in Proc, ByProc(p), NEW q \in Proc, q # p
  PROVE  Kept(q) /\ (pc[q] = "waiting" => pc'[q] = "waiting")
  <1> USE DEF Goto, locals, Return
  <1>1. LocalsKept(q)
    <2>1. CASE Repeat(p) \/ Hashed(p) \/ Victim(p)
      BY <2>1 DEF Repeat, Hashed, Victim, Types, LocalsKept
    <2>2. CASE Lock(p)
      BY <2>2 DEF Lock, Types, LocalsKept
    <2>3. CASE Request(p)
      BY <2>3 DEF Request, Types, LocalsKept
    <2>4. CASE Nap(p) \/ Sync(p) \/ SysSync(p)
      BY <2>4 DEF Nap, Sync, SysSync, Types, LocalsKept
    <2>5. CASE Found(p)
      BY <2>5 DEF Found, Types, LocalsKept
    <2>6. CASE FoundAhead(p)
      BY <2>6 DEF FoundAhead, Types, LocalsKept
    <2>7. CASE Read(p) \/ Brelse(p)
      BY <2>7 DEF Read, Brelse, Release, Types, LocalsKept
    <2>8. CASE ChangeMeta(p) \/ FileWrite(p) \/ FileCopy(p)
      BY <2>8 DEF ChangeMeta, FileWrite, FileCopy, Types, LocalsKept
    <2>9. CASE \E k \in Block : Bread(p, k) \/ Breada(p, k)
      BY <2>9 DEF Bread, Breada, Types, LocalsKept
    <2> QED BY <2>1, <2>2, <2>3, <2>4, <2>5, <2>6, <2>7, <2>8, <2>9 DEF ByProc
  <1>2. pc'[q] = pc[q] \/ (pc[q] = "sleeping" /\ pc'[q] = "repeat")
    <2>1. CASE Repeat(p) \/ Hashed(p) \/ Victim(p)
      BY <2>1 DEF Repeat, Hashed, Victim, Types
    <2>2. CASE Lock(p)
      BY <2>2 DEF Lock, Types
    <2>3. CASE Request(p)
      BY <2>3 DEF Request, Types
    <2>4. CASE Nap(p) \/ Sync(p) \/ SysSync(p)
      BY <2>4 DEF Nap, Sync, SysSync, Types
    <2>5. CASE Found(p)
      BY <2>5 DEF Found, Types
    <2>6. CASE FoundAhead(p)
      BY <2>6 DEF FoundAhead, Types
    <2>7. CASE Read(p) \/ Brelse(p)
      BY <2>7 DEF Read, Brelse, Release, Woken, Types
    <2>8. CASE ChangeMeta(p) \/ FileWrite(p) \/ FileCopy(p)
      BY <2>8 DEF ChangeMeta, FileWrite, FileCopy, Types
    <2>9. CASE \E k \in Block : Bread(p, k) \/ Breada(p, k)
      BY <2>9 DEF Bread, Breada, Types
    <2> QED BY <2>1, <2>2, <2>3, <2>4, <2>5, <2>6, <2>7, <2>8, <2>9 DEF ByProc
  <1> QED BY <1>1, <1>2 DEF Kept

\* end_request() moves no process but those it wakes.
LEMMA EndKept ==
  ASSUME Types, NEW s, NEW ok, NEW late, Ended(s, ok, late), NEW q \in Proc
  PROVE  Kept(q)
  BY DEF Ended, Types, Kept, LocalsKept

\* A process that is only woken keeps its place.
LEMMA KeptCtl ==
  ASSUME NEW q \in Proc, Ctl(q), Kept(q)
  PROVE  Ctl(q)'
  <1>1. Target(q)' = Target(q)
    BY DEF Target, Kept, LocalsKept
  <1>2. CASE pc'[q] = pc[q]
    BY <1>1, <1>2 DEF Ctl, Kept, LocalsKept, InGetblk
  <1>3. CASE pc'[q] # pc[q]
    BY <1>1, <1>3 DEF Ctl, Kept, LocalsKept, InGetblk
  <1> QED BY <1>2, <1>3

\* Where ll_rw_block() returns to
LEMMA ReturnCtl ==
  ASSUME Types, NEW p \in Proc, Ctl(p), Return(p), UNCHANGED <<rw, op, bh>>, Types',
         pc[p] \in {"lock", "request"}, UNCHANGED got
  PROVE  Ctl(p)'
  <1>1. CASE rw[p] = "WRITE"
    <2>1. pc'[p] = "sync" /\ at'[p] = at[p] + 1 /\ want'[p] = want[p] /\ ahead'[p] = ahead[p]
      BY <1>1 DEF Return, Goto, Types
    <2>2. at[p] \in Nat
      BY DEF Types
    <2> QED BY <1>1, <2>1, <2>2 DEF Ctl, InGetblk
  <1>2. CASE rw[p] # "WRITE"
    <2>1. /\ at'[p] = at[p]
          /\ \/ op[p] = "breada" /\ pc'[p] = "repeat" /\ want'[p] = ahead[p] /\ ahead'[p] = want[p]
             \/ op[p] # "breada" /\ pc'[p] = "read" /\ want'[p] = want[p] /\ ahead'[p] = ahead[p]
      BY <1>2 DEF Return, Goto, Types
    <2>2. got[p] \in Buf
      BY <1>2 DEF Ctl, Target
    <2> QED BY <1>2, <2>1, <2>2 DEF Ctl, InGetblk
  <1> QED BY <1>1, <1>2

\* Every step keeps the control information.
LEMMA ControlStep ==
  ASSUME Types, QueueOK, Control, Types', Next
  PROVE  Control'
  <1> SUFFICES ASSUME NEW q \in Proc PROVE Ctl(q)'
    BY DEF Control
  <1>0. Ctl(q) /\ NBuf \in Nat
    BY BufferAssumption DEF Control
  <1>1. CASE EndRequest
    BY <1>0, <1>1, EndFacts, EndKept, KeptCtl
  <1>2. ASSUME NEW p \in Proc, p # q, ByProc(p) PROVE Ctl(q)'
    BY <1>0, <1>2, OthersKept, KeptCtl
  <1>3. CASE ByProc(q)
    <2> USE DEF Goto, locals, InGetblk
    <2>1. CASE Repeat(q)
      <3>1. /\ op'[q] = op[q] /\ want'[q] = want[q] /\ ahead'[q] = ahead[q] /\ got'[q] = got[q]
            /\ rw'[q] = rw[q] /\ at'[q] = at[q]
            /\ pc[q] = "repeat" /\ pc'[q] \in {"hashed", "victim", "sleeping"}
            /\ pc'[q] \in {"hashed", "victim"} => bh'[q] \in Buf
        BY <2>1 DEF Repeat, Types, Buffers, LeastBad, Unused
      <3> QED BY <1>0, <3>1 DEF Ctl
    <2>2. CASE Hashed(q)
      <3>1. /\ op'[q] = op[q] /\ want'[q] = want[q] /\ ahead'[q] = ahead[q] /\ got'[q] = got[q]
            /\ rw'[q] = rw[q] /\ at'[q] = at[q]
            /\ pc[q] = "hashed"
            /\ (pc'[q] = "found" /\ bh'[q] = bh[q]) \/ pc'[q] = "repeat"
        BY <2>2 DEF Hashed, Types
      <3> QED BY <1>0, <3>1 DEF Ctl
    <2>3. CASE Victim(q)
      <3>1. op'[q] = op[q] /\ want'[q] = want[q] /\ ahead'[q] = ahead[q] /\ got'[q] = got[q]
            /\ rw'[q] = rw[q] /\ pc[q] = "victim"
        BY <2>3 DEF Victim
      <3>2. \/ pc'[q] = "found" /\ bh'[q] = bh[q] /\ at'[q] = at[q]
            \/ pc'[q] = "repeat"
            \/ pc'[q] = "sync" /\ bh'[q] = bh[q] /\ at'[q] = 1
        BY <2>3, VictimTaken DEF Taken, Types
      <3> QED BY <1>0, <3>1, <3>2 DEF Ctl
    <2>4. CASE Lock(q)
      <3>1. CASE Return(q)
        BY <1>0, <2>4, <3>1, ReturnCtl DEF Lock
      <3>2. CASE ~Return(q)
        <4>1. pc[q] = "lock" /\ pc'[q] = "request" /\ Target(q)' = Target(q) /\ LocalsKept(q)
          BY <2>4, <3>2 DEF Lock, Types, Target, LocalsKept
        <4> QED BY <1>0, <4>1 DEF Ctl, LocalsKept
      <3> QED BY <3>1, <3>2
    <2>5. CASE Request(q)
      <3>1. CASE Return(q)
        BY <1>0, <2>5, <3>1, ReturnCtl DEF Request
      <3>2. CASE ~Return(q)
        <4>1. pc[q] = "request" /\ pc'[q] = "nap" /\ Target(q)' = Target(q) /\ LocalsKept(q)
          BY <2>5, <3>2 DEF Request, Types, Target, LocalsKept
        <4> QED BY <1>0, <4>1 DEF Ctl, LocalsKept
      <3> QED BY <3>1, <3>2
    <2>6. CASE Nap(q)
      <3>1. pc[q] = "nap" /\ pc'[q] = "waiting" /\ Target(q)' = Target(q) /\ LocalsKept(q)
        BY <2>6 DEF Nap, Types, Target, LocalsKept
      <3> QED BY <1>0, <3>1 DEF Ctl, LocalsKept
    <2>7. CASE Sync(q)
      <3>1. /\ want'[q] = want[q] /\ ahead'[q] = ahead[q] /\ got'[q] = got[q] /\ bh'[q] = bh[q]
            /\ pc[q] = "sync" /\ at[q] \in Nat
        BY <2>7 DEF Sync, Types
      <3>2. CASE at[q] > NBuf
        <4>1. at'[q] = 0 /\ rw'[q] = "READ"
              /\ \/ op[q] = "sync" /\ pc'[q] = "user" /\ op'[q] = "none"
                 \/ op[q] # "sync" /\ pc'[q] = "victim" /\ op'[q] = op[q]
          BY <1>0, <2>7, <3>1, <3>2 DEF Sync, Types
        <4> QED BY <1>0, <3>1, <4>1 DEF Ctl
      <3>3. CASE ~(at[q] > NBuf)
        <4>1. /\ op'[q] = op[q]
              /\ \/ pc'[q] = "lock" /\ rw'[q] = "WRITE" /\ at'[q] = at[q]
                 \/ pc'[q] = "sync" /\ rw'[q] = rw[q] /\ at'[q] = at[q] + 1
          BY <2>7, <3>1, <3>3 DEF Sync, Types
        <4>2. at[q] \in Buf
          BY <1>0, <3>1, <3>3 DEF Ctl, Buf
        <4>3. rw'[q] = "WRITE" => Target(q)' = at'[q]
          BY DEF Target
        <4> QED BY <1>0, <3>1, <4>1, <4>2, <4>3 DEF Ctl
      <3> QED BY <3>2, <3>3
    <2>8. CASE SysSync(q)
      <3>1. /\ got'[q] = 0 /\ op'[q] = "sync" /\ at'[q] = 1 /\ pc'[q] = "sync"
        BY <2>8 DEF SysSync, Types
      <3> QED BY <3>1 DEF Ctl
    <2>9. ASSUME NEW k \in Block, Bread(q, k) \/ Breada(q, k) PROVE Ctl(q)'
      <3>1. /\ pc[q] = "user" /\ pc'[q] = "repeat" /\ rw'[q] = rw[q] /\ got'[q] = 0 /\ op'[q] \in {"bread", "breada"}
            /\ want'[q] = k /\ (op'[q] = "breada" => ahead'[q] \in Block)
        BY <2>9 DEF Bread, Breada, Types
      <3> QED BY <1>0, <3>1 DEF Ctl
    <2>10. CASE Found(q)
      <3>1. /\ pc[q] = "found" /\ got'[q] = bh[q] /\ rw'[q] = rw[q] /\ op'[q] = op[q] /\ bh[q] \in Buf
            /\ rw[q] = "READ"
        BY <1>0, <2>10 DEF Found, Types, Ctl
      <3>2. op[q] \in {"bread", "breada"}
        BY <1>0, <3>1 DEF Ctl, Types
      <3>3. \/ /\ pc'[q] = "read" /\ want'[q] = want[q] /\ op[q] = "bread"
            \/ pc'[q] = "lock" /\ want'[q] = want[q] /\ ahead'[q] = ahead[q]
            \/ pc'[q] = "repeat" /\ want'[q] = ahead[q] /\ ahead'[q] = want[q] /\ op[q] = "breada"
        BY <2>10, <3>1, <3>2 DEF Found, Return, Types
      <3>4. Target(q)' = got'[q]
        BY <3>1 DEF Target
      <3> QED BY <1>0, <3>1, <3>2, <3>3, <3>4 DEF Ctl
    <2>11. CASE FoundAhead(q)
      <3>1. /\ pc[q] = "found" /\ got'[q] = got[q] /\ got[q] # 0 /\ rw'[q] = rw[q]
            /\ op'[q] = op[q] /\ pc'[q] = "read" /\ want'[q] = ahead[q]
        BY <2>11 DEF FoundAhead, Types
      <3>2. got[q] \in Buf
        BY <3>1 DEF Types
      <3> QED BY <1>0, <3>1, <3>2 DEF Ctl
    <2>12. CASE Read(q)
      <3>1. pc[q] = "read" /\ pc'[q] = "user" /\ op'[q] = "none" /\ rw'[q] = rw[q]
        BY <2>12 DEF Read, Release, Types
      <3> QED BY <1>0, <3>1 DEF Ctl
    <2>13. CASE Brelse(q)
      <3>1. pc[q] = "user" /\ pc'[q] = "user" /\ op'[q] = op[q] /\ rw'[q] = rw[q]
        BY <2>13 DEF Brelse, Release, Types
      <3> QED BY <1>0, <3>1 DEF Ctl
    <2>14. CASE ChangeMeta(q)
      BY <1>0, <2>14 DEF ChangeMeta, Ctl
    <2>15. CASE FileWrite(q) \/ FileCopy(q)
      <3>1. /\ pc[q] \in {"user", "copy"} /\ pc'[q] \in {"user", "copy"} /\ LocalsKept(q)
            /\ pc'[q] = "copy" => got[q] \in Buf
        BY <2>15 DEF FileWrite, FileCopy, Types, LocalsKept
      <3> QED BY <1>0, <3>1 DEF Ctl, LocalsKept
    <2> QED BY <1>3, <2>1, <2>2, <2>3, <2>4, <2>5, <2>6, <2>7, <2>8, <2>9, <2>10, <2>11, <2>12,
               <2>13, <2>14, <2>15 DEF ByProc
  <1> QED BY <1>1, <1>2, <1>3 DEF Next, ByProc

-----------------------------------------------------------------------------
(* Blocks *)

\* Only getblk() gives a buffer to another block.
LEMMA BlockTaken ==
  ASSUME Types, NEW p \in Proc, ByProc(p)
  PROVE  UNCHANGED b_blocknr \/ (Victim(p) /\ Taken(p))
  <1>1. CASE Victim(p)
    BY <1>1, VictimTaken DEF head
  <1>2. CASE ~Victim(p)
    BY <1>2 DEF ByProc, Repeat, Hashed, Lock, Request, Nap, Sync, SysSync, Found, FoundAhead,
                Read, Brelse, ChangeMeta, FileWrite, FileCopy, Bread, Breada, head
  <1> QED BY <1>1, <1>2

\* Nobody uses a buffer whose count is zero.
LEMMA NoUser ==
  ASSUME Types, Counts, NEW b \in Buf, b_count[b] = 0, NEW q \in Proc
  PROVE  got[q] # b /\ (pc[q] \in {"hashed", "found"} => bh[q] # b)
  <1>1. q \notin Pinning(b) \cup Holding(b)
    BY Used
  <1> QED BY <1>1 DEF Pinning, Holding

\* A buffer that is taken was nobody's, and its block is one.
LEMMA TakenFacts ==
  ASSUME Types, Control, Counts, NEW p \in Proc, Taken(p)
  PROVE  /\ bh[p] \in Buf /\ want[p] \in Block /\ want[p] # 0 /\ Block \subseteq Nat \ {0}
         /\ b_blocknr'[bh[p]] = want[p]
         /\ \A b \in Buf : b # bh[p] => b_blocknr'[b] = b_blocknr[b]
         /\ \A q \in Proc : got[q] # bh[p] /\ (pc[q] \in {"hashed", "found"} => bh[q] # bh[p])
  <1>1. Ctl(p) /\ pc[p] = "victim"
    BY DEF Control, Taken
  <1>2. bh[p] \in Buf /\ op[p] \in {"bread", "breada"}
    BY <1>1 DEF Ctl, Types
  <1>3. want[p] \in Block /\ want[p] # 0 /\ Block \subseteq Nat \ {0}
    BY <1>1, <1>2, BufferAssumption DEF Ctl
  <1>4. \A q \in Proc : got[q] # bh[p] /\ (pc[q] \in {"hashed", "found"} => bh[q] # bh[p])
    BY <1>2, NoUser DEF Taken
  <1>5. /\ b_blocknr'[bh[p]] = want[p]
        /\ \A b \in Buf : b # bh[p] => b_blocknr'[b] = b_blocknr[b]
    BY <1>2 DEF Taken, Types
  <1> QED BY <1>2, <1>3, <1>4, <1>5

\* "Ok, this is it, at last": the block was in no other buffer.
LEMMA SingleStep ==
  ASSUME Types, QueueOK, Control, Counts, Single, Next
  PROVE  Single'
  <1>1. CASE UNCHANGED b_blocknr
    BY <1>1 DEF Single
  <1>2. ASSUME NEW p \in Proc, Taken(p) PROVE Single'
    <2>1. \A b \in Buf : b_blocknr[b] # want[p]
      BY <1>2 DEF Taken, Buffers
    <2> QED BY <1>2, <2>1, TakenFacts DEF Single
  <1>3. CASE EndRequest
    BY <1>1, <1>3 DEF EndRequest
  <1> QED BY <1>1, <1>2, <1>3, BlockTaken DEF Next, ByProc

\* The blocks of the buffers that a process pins or holds do not change while it
\* does not move.
LEMMA KeptBlocks ==
  ASSUME Types, NEW q \in Proc, Kept(q),
         pc[q] \in {"hashed", "found"} => b_blocknr'[bh[q]] = b_blocknr[bh[q]],
         got[q] # 0 => b_blocknr'[got[q]] = b_blocknr[got[q]],
         pc[q] \in {"hashed", "found"} => b_blocknr[bh[q]] = want[q],
         got[q] # 0 => b_blocknr[got[q]] = IF InGetblk(q) THEN ahead[q] ELSE want[q]
  PROVE  /\ pc'[q] \in {"hashed", "found"} => b_blocknr'[bh'[q]] = want'[q]
         /\ got'[q] # 0 => b_blocknr'[got'[q]] = IF InGetblk(q)' THEN ahead'[q] ELSE want'[q]
  BY DEF Kept, LocalsKept, InGetblk

\* Every step leaves the users of a buffer with the block they asked for.
LEMMA BlocksStep ==
  ASSUME Types, QueueOK, Control, Counts, Blocks, Next
  PROVE  Blocks'
  <1> DEFINE Pin(q) == pc[q] \in {"hashed", "found"} => b_blocknr[bh[q]] = want[q]
             Hold(q) == got[q] # 0 => b_blocknr[got[q]] = IF InGetblk(q) THEN ahead[q] ELSE want[q]
  <1> SUFFICES ASSUME NEW q \in Proc PROVE Pin(q)' /\ Hold(q)'
    BY DEF Blocks
  <1>0. Ctl(q) /\ Pin(q) /\ Hold(q)
    BY DEF Control, Blocks
  <1>1. CASE EndRequest
    <2>1. Kept(q) /\ UNCHANGED b_blocknr
      BY <1>1, EndFacts, EndKept DEF EndRequest
    <2> QED BY <1>0, <2>1, KeptBlocks
  <1>2. ASSUME NEW p \in Proc, p # q, ByProc(p) PROVE Pin(q)' /\ Hold(q)'
    <2>1. Kept(q)
      BY <1>2, OthersKept
    <2>2. bh[q] \in Buf \cup {0} /\ got[q] \in Buf \cup {0}
      BY DEF Types
    <2>3. pc[q] \in {"hashed", "found"} => bh[q] \in Buf
      BY <1>0 DEF Ctl
    <2>4. /\ pc[q] \in {"hashed", "found"} => b_blocknr'[bh[q]] = b_blocknr[bh[q]]
          /\ got[q] # 0 => b_blocknr'[got[q]] = b_blocknr[got[q]]
      BY <1>2, <2>2, <2>3, BlockTaken, TakenFacts
    <2> QED BY <1>0, <2>1, <2>4, KeptBlocks
  <1>3. CASE ByProc(q)
    <2> USE DEF Goto, locals, head, InGetblk
    <2>1. CASE Repeat(q)
      <3>1. /\ want'[q] = want[q] /\ ahead'[q] = ahead[q] /\ got'[q] = got[q] /\ rw'[q] = rw[q]
            /\ pc[q] = "repeat" /\ pc'[q] \in {"hashed", "victim", "sleeping"}
            /\ pc'[q] = "hashed" => b_blocknr[bh'[q]] = want[q]
            /\ b_blocknr' = b_blocknr
        BY <2>1 DEF Repeat, Types, Buffers
      <3> QED BY <1>0, <3>1
    <2>2. CASE Hashed(q)
      <3>1. /\ want'[q] = want[q] /\ ahead'[q] = ahead[q] /\ got'[q] = got[q] /\ rw'[q] = rw[q]
            /\ pc[q] = "hashed" /\ b_blocknr' = b_blocknr
            /\ \/ pc'[q] = "found" /\ bh'[q] = bh[q]
               \/ pc'[q] = "repeat"
        BY <2>2 DEF Hashed, Types
      <3> QED BY <1>0, <3>1
    <2>3. CASE Victim(q)
      <3>1. /\ want'[q] = want[q] /\ ahead'[q] = ahead[q] /\ got'[q] = got[q] /\ rw'[q] = rw[q]
            /\ pc[q] = "victim" /\ got[q] \in Buf \cup {0}
        BY <2>3 DEF Victim, Types
      <3>2. CASE Taken(q)
        <4>1. pc'[q] = "found" /\ bh'[q] = bh[q]
          BY <3>2 DEF Taken, Types
        <4> QED BY <1>0, <3>1, <3>2, <4>1, TakenFacts
      <3>3. CASE b_blocknr' = b_blocknr /\ pc'[q] \in {"repeat", "sync"}
        BY <1>0, <3>1, <3>3
      <3> QED BY <2>3, <3>2, <3>3, VictimTaken DEF Types
    <2>4. CASE Lock(q) \/ Request(q)
      <3>1. /\ b_blocknr' = b_blocknr /\ got'[q] = got[q] /\ rw'[q] = rw[q]
            /\ pc[q] \in {"lock", "request"}
        BY <2>4 DEF Lock, Request
      <3>2. CASE Return(q)
        <4>1. \/ rw[q] = "WRITE" /\ pc'[q] = "sync" /\ want'[q] = want[q] /\ ahead'[q] = ahead[q]
              \/ rw[q] # "WRITE" /\ pc'[q] = "repeat" /\ ahead'[q] = want[q]
              \/ rw[q] # "WRITE" /\ pc'[q] = "read" /\ want'[q] = want[q]
          BY <3>2 DEF Return, Types
        <4> QED BY <1>0, <3>1, <4>1
      <3>3. CASE ~Return(q)
        <4>1. want'[q] = want[q] /\ ahead'[q] = ahead[q] /\ pc'[q] \in {"request", "nap"}
          BY <2>4, <3>3 DEF Lock, Request, Types
        <4> QED BY <1>0, <3>1, <4>1
      <3> QED BY <3>2, <3>3
    <2>5. CASE Nap(q)
      <3>1. pc[q] = "nap" /\ pc'[q] = "waiting" /\ LocalsKept(q) /\ b_blocknr' = b_blocknr
        BY <2>5 DEF Nap, Types, LocalsKept
      <3> QED BY <1>0, <3>1 DEF LocalsKept
    <2>6. CASE Sync(q)
      <3>1. /\ want'[q] = want[q] /\ ahead'[q] = ahead[q] /\ got'[q] = got[q]
            /\ pc[q] = "sync" /\ b_blocknr' = b_blocknr
            /\ \/ op[q] = "sync" /\ pc'[q] = "user"
               \/ pc'[q] \in {"victim", "sync"}
               \/ pc'[q] = "lock" /\ rw'[q] = "WRITE"
        BY <2>6 DEF Sync, Types
      <3>2. op[q] = "sync" => got[q] = 0
        BY <1>0, <3>1 DEF Ctl
      <3> QED BY <1>0, <3>1, <3>2
    <2>7. ASSUME got'[q] = 0, pc'[q] \notin {"hashed", "found"} PROVE Pin(q)' /\ Hold(q)'
      BY <2>7
    <2>8. CASE SysSync(q) \/ \E k \in Block : Bread(q, k) \/ Breada(q, k)
      BY <2>7, <2>8 DEF SysSync, Bread, Breada, Types
    <2>9. CASE Found(q)
      <3>1. /\ pc[q] = "found" /\ got'[q] = bh[q] /\ rw'[q] = rw[q] /\ b_blocknr' = b_blocknr
            /\ rw[q] # "WRITE"
            /\ \/ pc'[q] \in {"read", "lock"} /\ want'[q] = want[q]
               \/ pc'[q] = "repeat" /\ ahead'[q] = want[q]
        BY <1>0, <2>9 DEF Found, Return, Types, Ctl
      <3> QED BY <1>0, <3>1
    <2>10. CASE FoundAhead(q)
      <3>1. /\ pc[q] = "found" /\ got'[q] = got[q] /\ rw'[q] = rw[q] /\ b_blocknr' = b_blocknr
            /\ rw[q] # "WRITE" /\ pc'[q] = "read" /\ want'[q] = ahead[q]
        BY <1>0, <2>10 DEF FoundAhead, Types, Ctl
      <3> QED BY <1>0, <3>1
    <2>11. CASE Read(q) \/ Brelse(q)
      <3>1. /\ pc[q] \in {"read", "user"} /\ pc'[q] = "user" /\ b_blocknr' = b_blocknr
            /\ rw'[q] = rw[q] /\ rw[q] # "WRITE"
            /\ got'[q] = 0 \/ (got'[q] = got[q] /\ want'[q] = want[q])
        BY <1>0, <2>11 DEF Read, Brelse, Release, Types, Ctl
      <3> QED BY <1>0, <3>1
    <2>12. CASE ChangeMeta(q) \/ FileWrite(q) \/ FileCopy(q)
      <3>1. /\ pc[q] \in {"copy", "user"} /\ pc'[q] \in {"copy", "user"} /\ b_blocknr' = b_blocknr
            /\ LocalsKept(q)
        BY <2>12 DEF ChangeMeta, FileWrite, FileCopy, Types, LocalsKept
      <3> QED BY <1>0, <3>1 DEF LocalsKept
    <2> QED BY <1>3, <2>1, <2>2, <2>3, <2>4, <2>5, <2>6, <2>8, <2>9, <2>10, <2>11, <2>12 DEF ByProc
  <1> QED BY <1>1, <1>2, <1>3 DEF Next, ByProc

-----------------------------------------------------------------------------
(* Requests *)

SameRequests ==
  \A s \in Slot : /\ request'[s].b = request[s].b /\ request'[s].cmd = request[s].cmd
                  /\ request'[s] # NoReq <=> request[s] # NoReq

AddedFor(cmd, b) ==
  /\ \E s \in Slot : /\ request[s] = NoReq
                     /\ request' = [request EXCEPT ![s] = [cmd |-> cmd, b |-> b, old |-> FALSE]]
  /\ b_dirt' = [b_dirt EXCEPT ![b] = FALSE]

\* A process adds a request in make_request(), or in FoundAhead, or none.
LEMMA RequestStep ==
  ASSUME Types, QueueOK, Control, NEW p \in Proc, ByProc(p)
  PROVE  \/ SameRequests
         \/ /\ Request(p) /\ pc[p] = "request" /\ Target(p) \in Buf /\ Return(p)
            /\ AddedFor(rw[p], Target(p))
         \/ /\ FoundAhead(p) /\ got[p] \in Buf /\ ~b_lock[got[p]] /\ ~b_uptodate[got[p]]
            /\ AddedFor("READ", got[p]) /\ b_lock' = [b_lock EXCEPT ![got[p]] = TRUE]
  <1>1. CASE UNCHANGED request
    BY <1>1 DEF SameRequests
  <1>2. CASE Request(p)
    <2>1. CASE FreeSlots(rw[p]) # {}
      <3>1. /\ AddRequest(rw[p], Target(p)) /\ pc[p] = "request" /\ rw[p] \in {"READ", "WRITE"}
            /\ Return(p)
        BY <1>2, <2>1 DEF Request, Types
      <3>2. Target(p) \in Buf
        BY <3>1, TargetBuf
      <3>3. AddedFor(rw[p], Target(p))
        BY <2>1, <3>1, <3>2, Added DEF AddedFor
      <3> QED BY <1>2, <3>1, <3>2, <3>3
    <2>2. CASE FreeSlots(rw[p]) = {}
      BY <1>1, <1>2, <2>2 DEF Request, io
    <2> QED BY <2>1, <2>2
  <1>3. CASE FoundAhead(p)
    <2>1. CASE /\ ~b_uptodate[bh[p]] /\ ~b_lock[got[p]] /\ ~NothingToDo("READ", got[p])
               /\ FreeSlots("READ") # {}
      <3>1. /\ AddRequest("READ", got[p]) /\ got[p] \in Buf /\ ~b_uptodate[got[p]]
            /\ b_lock' = [b_lock EXCEPT ![got[p]] = TRUE]
        BY <1>3, <2>1 DEF FoundAhead, Types, NothingToDo
      <3>2. AddedFor("READ", got[p])
        BY <2>1, <3>1, Added DEF AddedFor
      <3> QED BY <1>3, <2>1, <3>1, <3>2
    <2>2. CASE UNCHANGED io
      BY <1>1, <2>2 DEF io
    <2> QED BY <1>3, <2>1, <2>2 DEF FoundAhead
  <1>4. CASE ChangeMeta(p) \/ FileCopy(p)
    <2>1. got[p] \in Buf /\ Change(got[p])
      BY <1>4 DEF ChangeMeta, FileCopy, Types, Control, Ctl
    <2> QED BY <2>1, Changed, ReqFacts DEF SameRequests, Types
  <1>5. CASE ~Request(p) /\ ~FoundAhead(p) /\ ~ChangeMeta(p) /\ ~FileCopy(p)
    <2>1. UNCHANGED request
      BY <1>5 DEF ByProc, Repeat, Hashed, Victim, Lock, Nap, Sync, SysSync, Found, Read, Brelse,
                  FileWrite, Bread, Breada, io
    <2> QED BY <1>1, <2>1
  <1> QED BY <1>2, <1>3, <1>4, <1>5

\* What is held, read or written keeps having a block.
LEMMA NamedStep ==
  ASSUME Types, QueueOK, Control, Counts, Blocks, Named, Next
  PROVE  Named'
  <1>1. CASE EndRequest
    <2>1. PICK s \in Slot, ok \in BOOLEAN, late \in BOOLEAN : Ended(s, ok, late)
      BY <1>1, EndFacts
    <2>2. \A t \in Slot : request'[t] # NoReq => request'[t] = request[t]
      BY <2>1 DEF Ended, Types
    <2>3. \A q \in Proc : pc'[q] = "sync" <=> pc[q] = "sync"
      BY <2>1 DEF Ended, Types
    <2> QED BY <2>1, <2>2, <2>3 DEF Ended, Named
  <1>2. ASSUME NEW p \in Proc, ByProc(p) PROVE Named'
    <2>1. \A b \in Buf : b_blocknr[b] # 0 => b_blocknr'[b] # 0
      BY <1>2, BlockTaken, TakenFacts
    <2>2. \A q \in Proc : got'[q] # 0 => b_blocknr'[got'[q]] # 0
      <3> SUFFICES ASSUME NEW q \in Proc, got'[q] # 0 PROVE b_blocknr'[got'[q]] # 0
        OBVIOUS
      <3>1. CASE got'[q] = got[q]
        BY <2>1, <3>1 DEF Named, Types
      <3>2. CASE q = p /\ Found(p)
        <4>1. Ctl(p) /\ pc[p] = "found" /\ got'[p] = bh[p]
          BY <3>2 DEF Found, Types, Control
        <4>2. bh[p] \in Buf /\ want[p] \in Block
          BY <4>1 DEF Ctl, Types, InGetblk
        <4>3. b_blocknr[bh[p]] = want[p] /\ want[p] # 0
          BY <4>1, <4>2, BufferAssumption DEF Blocks
        <4> QED BY <2>1, <3>2, <4>1, <4>2, <4>3
      <3>3. q = p /\ ~Found(p) => got'[q] = got[q]
        <4>1. CASE Read(p) \/ Brelse(p)
          BY <4>1 DEF Read, Brelse, Release, Types
        <4>2. CASE ~(Read(p) \/ Brelse(p) \/ Found(p))
          BY <1>2, <4>2 DEF ByProc, Repeat, Hashed, Victim, Lock, Request, Nap, Sync, SysSync,
                     FoundAhead, ChangeMeta, FileWrite, FileCopy, Bread, Breada, locals
        <4> QED BY <4>1, <4>2
      <3>4. q # p => got'[q] = got[q]
        BY <1>2, OthersKept DEF Kept, LocalsKept
      <3> QED BY <3>1, <3>2, <3>3, <3>4
    <2>3. \A q \in Proc : rw'[q] = "WRITE" /\ pc'[q] # "sync" => b_blocknr'[at'[q]] # 0
      <3> SUFFICES ASSUME NEW q \in Proc, rw'[q] = "WRITE", pc'[q] # "sync"
                   PROVE  b_blocknr'[at'[q]] # 0
        OBVIOUS
      <3>0. Ctl(q)
        BY DEF Control
      <3>1. CASE rw[q] = "WRITE" /\ pc[q] # "sync" /\ at'[q] = at[q]
        <4>1. at[q] \in Buf
          BY <3>0, <3>1 DEF Ctl, Target
        <4> QED BY <2>1, <3>1, <4>1 DEF Named
      <3>2. CASE q # p
        <4>1. Kept(q)
          BY <1>2, <3>2, OthersKept
        <4> QED BY <3>1, <4>1 DEF Kept, LocalsKept
      <3>3. CASE q = p /\ Sync(p)
        <4>1. /\ pc[q] = "sync" /\ at[q] \in Nat /\ NBuf \in Nat /\ b_blocknr' = b_blocknr
              /\ at'[q] = at[q] /\ b_blocknr[at[q]] # 0
          BY <3>3, BufferAssumption DEF Sync, Types, Goto, head
        <4> QED BY <4>1
      <3>4. CASE q = p /\ (Lock(p) \/ Request(p) \/ Nap(p))
        <4>1. rw'[q] = rw[q] /\ pc[q] # "sync"
          BY <3>4 DEF Lock, Request, Nap
        <4>2. CASE Return(q)
          BY <4>1, <4>2 DEF Return, Goto, Types
        <4>3. CASE ~Return(q)
          BY <3>1, <3>4, <4>1, <4>3 DEF Lock, Request, Nap
        <4> QED BY <4>2, <4>3
      <3>5. CASE q = p /\ ~(Sync(p) \/ Lock(p) \/ Request(p) \/ Nap(p))
        <4>1. rw'[q] = rw[q]
          BY <1>2, <3>5 DEF ByProc, Repeat, Hashed, Victim, SysSync, Found, FoundAhead, Read, Brelse,
                     ChangeMeta, FileWrite, FileCopy, Bread, Breada, locals
        <4>2. pc[q] \notin {"sync", "lock", "request", "nap", "waiting"}
          BY <1>2, <3>5 DEF ByProc, Repeat, Hashed, Victim, SysSync, Found, FoundAhead, Read, Brelse,
                     ChangeMeta, FileWrite, FileCopy, Bread, Breada
        <4> QED BY <3>0, <4>1, <4>2 DEF Ctl
      <3> QED BY <3>2, <3>3, <3>4, <3>5
    <2>4. \A s \in Slot : request'[s] # NoReq => b_blocknr'[request'[s].b] # 0
      <3>0. \A s \in Slot : request[s] # NoReq => request[s].b \in Buf /\ b_blocknr[request[s].b] # 0
        BY ReqFacts DEF Types, Named
      <3>1. CASE SameRequests
        BY <2>1, <3>0, <3>1 DEF SameRequests
      <3>2. ASSUME NEW cmd, NEW b \in Buf, AddedFor(cmd, b), b_blocknr[b] # 0
            PROVE  \A s \in Slot : request'[s] # NoReq => b_blocknr'[request'[s].b] # 0
        BY <2>1, <3>0, <3>2 DEF AddedFor, Types
      <3>3. CASE Request(p) /\ pc[p] = "request" /\ Target(p) \in Buf /\ AddedFor(rw[p], Target(p))
        <4>1. b_blocknr[Target(p)] # 0
          BY <3>3, ReqFacts DEF Target, Named, Types
        <4> QED BY <3>2, <3>3, <4>1
      <3>4. CASE got[p] \in Buf /\ AddedFor("READ", got[p])
        <4>1. b_blocknr[got[p]] # 0
          BY <3>4, ReqFacts DEF Named
        <4> QED BY <3>2, <3>4, <4>1
      <3> QED BY <1>2, <3>1, <3>3, <3>4, RequestStep
    <2> QED BY <2>2, <2>3, <2>4 DEF Named
  <1> QED BY <1>1, <1>2 DEF Next, ByProc

-----------------------------------------------------------------------------
(* Counts *)

One(P) == IF P THEN 1 ELSE 0
Pins(p, b) == pc[p] \in {"hashed", "found"} /\ bh[p] = b

\* A set that differs from another in one element at most
LEMMA OneElement ==
  ASSUME NEW S, NEW T, NEW p, IsFiniteSet(S), \A q : q # p => (q \in S <=> q \in T)
  PROVE  Cardinality(T) = Cardinality(S) + One(p \in T) - One(p \in S)
  <1>0. Cardinality(S) \in Nat
    BY FS_CardinalityType
  <1>1. CASE p \in T
    <2>1. T = S \cup {p}
      BY <1>1
    <2> QED BY <1>0, <1>1, <2>1, FS_AddElement DEF One
  <1>2. CASE p \notin T
    <2>1. T = S \ {p}
      BY <1>2
    <2> QED BY <1>0, <1>2, <2>1, FS_RemoveElement DEF One
  <1> QED BY <1>1, <1>2

\* A step of p changes the users of a buffer by p alone.
LEMMA UsersStep ==
  ASSUME Types, Counts, NEW p \in Proc, ByProc(p), NEW b \in Buf,
         b_count'[b] = b_count[b] + One(Pins(p, b)') - One(Pins(p, b))
                         + One(got'[p] = b) - One(got[p] = b)
  PROVE  b_count'[b] = Cardinality(Pinning(b)') + Cardinality(Holding(b)')
  <1> DEFINE P == Pinning(b)
             H == Holding(b)
             PP == Pinning(b)'
             HH == Holding(b)'
  <1>1. \A q \in Proc : q # p => Kept(q)
    BY OthersKept
  <1>2. \A q \in Proc : q # p => /\ pc'[q] \in {"hashed", "found"} <=> pc[q] \in {"hashed", "found"}
                                 /\ bh'[q] = bh[q] /\ got'[q] = got[q]
    BY <1>1 DEF Kept, LocalsKept
  <1>3. \A q : q # p => (q \in P <=> q \in PP) /\ (q \in H <=> q \in HH)
    BY <1>2 DEF Pinning, Holding
  <1>4. /\ p \in P <=> Pins(p, b)
        /\ p \in PP <=> Pins(p, b)'
        /\ p \in H <=> got[p] = b
        /\ p \in HH <=> got'[p] = b
    BY DEF Pinning, Holding, Pins
  <1>5. /\ IsFiniteSet(P) /\ IsFiniteSet(H) /\ Cardinality(P) \in Nat /\ Cardinality(H) \in Nat
    BY UsersFinite
  <1>6. b_count[b] = Cardinality(P) + Cardinality(H)
    BY DEF Counts
  <1> HIDE DEF P, H, PP, HH
  <1>7. Cardinality(PP) = Cardinality(P) + One(p \in PP) - One(p \in P)
    BY <1>3, <1>5, OneElement
  <1>8. Cardinality(HH) = Cardinality(H) + One(p \in HH) - One(p \in H)
    BY <1>3, <1>5, OneElement
  <1>9. Cardinality(PP) = Cardinality(P) + One(Pins(p, b)') - One(Pins(p, b))
    BY <1>4, <1>7 DEF One
  <1>10. Cardinality(HH) = Cardinality(H) + One(got'[p] = b) - One(got[p] = b)
    BY <1>4, <1>8 DEF One
  <1>11. /\ One(Pins(p, b)') \in Int /\ One(Pins(p, b)) \in Int
         /\ One(got'[p] = b) \in Int /\ One(got[p] = b) \in Int
    BY DEF One
  <1>12. b_count'[b] = Cardinality(PP) + Cardinality(HH)
    BY <1>5, <1>6, <1>9, <1>10, <1>11
  <1> QED BY <1>12 DEF PP, HH

\* b_count stays the number of users.
LEMMA CountsStep ==
  ASSUME Types, QueueOK, Control, Blocks, Counts, Next
  PROVE  Counts'
  <1>1. CASE EndRequest
    <2>1. b_count' = b_count /\ bh' = bh /\ got' = got
          /\ \A q \in Proc : pc'[q] \in {"hashed", "found"} <=> pc[q] \in {"hashed", "found"}
      BY <1>1 DEF EndRequest, Types
    <2>2. \A b \in Buf : Pinning(b)' = Pinning(b) /\ Holding(b)' = Holding(b)
      BY <2>1 DEF Pinning, Holding
    <2> QED BY <2>1, <2>2 DEF Counts
  <1>2. ASSUME NEW p \in Proc, ByProc(p) PROVE Counts'
    <2> SUFFICES ASSUME NEW b \in Buf
                 PROVE  b_count'[b] = b_count[b] + One(Pins(p, b)') - One(Pins(p, b))
                                        + One(got'[p] = b) - One(got[p] = b)
      BY <1>2, UsersStep DEF Counts
    <2>0. Ctl(p) /\ b_count[b] \in Nat
      BY DEF Control, Types
    <2> DEFINE In == pc[p] \in {"hashed", "found"}
               Out == pc'[p] \in {"hashed", "found"}
    <2>1. ASSUME b_count' = b_count, got'[p] = got[p], ~In, ~Out
          PROVE  b_count'[b] = b_count[b] + One(Pins(p, b)') - One(Pins(p, b))
                                 + One(got'[p] = b) - One(got[p] = b)
      BY <2>0, <2>1 DEF One, Pins
    <2> USE DEF Goto, locals, head
    <2>2. CASE Repeat(p)
      <3>1. pc[p] = "repeat" /\ got'[p] = got[p]
        BY <2>2 DEF Repeat
      <3>2. CASE pc'[p] = "hashed"
        <4>1. PICK c \in Buf : b_count' = [b_count EXCEPT ![c] = @ + 1] /\ bh'[p] = c
          BY <2>2, <3>2 DEF Repeat, Types, Buffers, Pinned
        <4>2. b_count'[b] = b_count[b] + One(b = c)
          BY <2>0, <4>1 DEF One, Types
        <4> QED BY <2>0, <3>1, <3>2, <4>1, <4>2 DEF One, Pins
      <3>3. CASE pc'[p] # "hashed"
        <4>1. b_count' = b_count /\ pc'[p] \in {"victim", "sleeping"}
          BY <2>2, <3>3 DEF Repeat, Types
        <4> QED BY <2>1, <3>1, <4>1
      <3> QED BY <3>2, <3>3
    <2>3. CASE Hashed(p)
      <3>1. pc[p] = "hashed" /\ got'[p] = got[p] /\ b_blocknr[bh[p]] = want[p]
        BY <2>3 DEF Hashed, Blocks
      <3>2. pc'[p] = "found" /\ bh'[p] = bh[p] /\ b_count' = b_count
        BY <2>3, <3>1 DEF Hashed, Types
      <3> QED BY <2>0, <3>1, <3>2 DEF One, Pins
    <2>4. CASE Victim(p)
      <3>1. pc[p] = "victim" /\ got'[p] = got[p]
        BY <2>4 DEF Victim
      <3>2. CASE Taken(p)
        <4>1. /\ b_count[bh[p]] = 0 /\ b_count' = [b_count EXCEPT ![bh[p]] = 1]
              /\ pc'[p] = "found" /\ bh'[p] = bh[p] /\ bh[p] \in Buf
          BY <2>0, <3>1, <3>2 DEF Taken, Types, Ctl
        <4>2. b_count'[b] = b_count[b] + One(b = bh[p])
          BY <2>0, <4>1 DEF One, Types
        <4> QED BY <2>0, <3>1, <4>1, <4>2 DEF One, Pins
      <3>3. CASE b_count' = b_count /\ pc'[p] \in {"repeat", "sync"}
        BY <2>1, <3>1, <3>3
      <3> QED BY <2>4, <3>2, <3>3, VictimTaken DEF Types
    <2>5. CASE Found(p)
      <3>1. /\ pc[p] = "found" /\ got[p] = 0 /\ got'[p] = bh[p] /\ b_count' = b_count
            /\ pc'[p] \notin {"hashed", "found"} /\ bh[p] \in Buf
        BY <2>0, <2>5 DEF Found, Return, Types, Ctl
      <3> QED BY <2>0, <3>1, ReqFacts DEF One, Pins
    <2>6. CASE FoundAhead(p)
      <3>1. /\ pc[p] = "found" /\ got'[p] = got[p] /\ pc'[p] = "read" /\ bh[p] \in Buf
            /\ b_count' = [b_count EXCEPT ![bh[p]] = @ - 1]
        BY <2>0, <2>6 DEF FoundAhead, Types, Ctl
      <3>2. b_count'[b] = b_count[b] - One(b = bh[p])
        BY <2>0, <3>1 DEF One, Types
      <3> QED BY <2>0, <3>1, <3>2 DEF One, Pins
    <2>7. CASE Read(p) \/ Brelse(p)
      <3>1. pc[p] \in {"read", "user"} /\ pc'[p] = "user" /\ got[p] \in Buf
        BY <2>0, <2>7 DEF Read, Brelse, Release, Types, Ctl
      <3>2. CASE b_count' = [b_count EXCEPT ![got[p]] = @ - 1] /\ got'[p] = 0
        <4>1. b_count'[b] = b_count[b] - One(b = got[p])
          BY <2>0, <3>1, <3>2 DEF One, Types
        <4> QED BY <2>0, <3>1, <3>2, <4>1, ReqFacts DEF One, Pins
      <3>3. CASE b_count' = b_count /\ got'[p] = got[p]
        BY <2>1, <3>1, <3>3
      <3> QED BY <2>7, <3>2, <3>3 DEF Read, Brelse, Release, Types
    <2>8. CASE Lock(p) \/ Request(p)
      <3>1. b_count' = b_count /\ got'[p] = got[p] /\ pc[p] \in {"lock", "request"}
        BY <2>8 DEF Lock, Request
      <3>2. pc'[p] \notin {"hashed", "found"}
        BY <2>8 DEF Lock, Request, Return, Types
      <3> QED BY <2>1, <3>1, <3>2
    <2>9. CASE Nap(p) \/ Sync(p) \/ SysSync(p) \/ \E k \in Block : Bread(p, k) \/ Breada(p, k)
      <3>1. /\ b_count' = b_count /\ got'[p] = got[p]
            /\ pc[p] \in {"nap", "sync", "user"} /\ pc'[p] \notin {"hashed", "found"}
        BY <2>9 DEF Nap, Sync, SysSync, Bread, Breada, Types
      <3> QED BY <2>1, <3>1
    <2>10. CASE ChangeMeta(p) \/ FileWrite(p) \/ FileCopy(p)
      <3>1. /\ b_count' = b_count /\ got'[p] = got[p]
            /\ pc[p] \in {"copy", "user"} /\ pc'[p] \notin {"hashed", "found"}
        BY <2>10 DEF ChangeMeta, FileWrite, FileCopy, Types
      <3> QED BY <2>1, <3>1
    <2> QED BY <1>2, <2>2, <2>3, <2>4, <2>5, <2>6, <2>7, <2>8, <2>9, <2>10 DEF ByProc
  <1> QED BY <1>1, <1>2 DEF Next, ByProc

-----------------------------------------------------------------------------
(* buffer_wait *)

\* What a step of p does to the counts, in the terms of NoLostWakeup
LEMMA WakeStep ==
  ASSUME Types, QueueOK, Control, Blocks, NEW p \in Proc, ByProc(p)
  PROVE  \/ \A q \in Proc : pc'[q] # "sleeping"
         \/ pc'[p] # "sleeping" /\ got'[p] # 0
         \/ /\ Unused' \subseteq Unused
            /\ pc'[p] = "sleeping" => Unused' = {}
            /\ got[p] # 0 => got'[p] # 0
  <1> USE DEF Goto, locals, head
  <1>0. Ctl(p)
    BY DEF Control
  <1>1. ASSUME b_count' = b_count, pc'[p] # "sleeping", got[p] # 0 => got'[p] # 0
        PROVE  /\ Unused' \subseteq Unused
               /\ pc'[p] = "sleeping" => Unused' = {}
               /\ got[p] # 0 => got'[p] # 0
    BY <1>1 DEF Unused
  <1>2. CASE Repeat(p)
    <2>1. CASE \E b \in Buf : b_count' = [b_count EXCEPT ![b] = @ + 1] /\ pc'[p] = "hashed"
      <3>1. Unused' \subseteq Unused
        BY <2>1 DEF Unused, Types
      <3> QED BY <1>2, <2>1, <3>1 DEF Repeat
    <2>2. CASE b_count' = b_count /\ pc'[p] = "victim"
      BY <1>1, <1>2, <2>2 DEF Repeat
    <2>3. CASE Unused = {} /\ b_count' = b_count
      BY <1>2, <2>3 DEF Repeat, Unused
    <2> QED BY <1>2, <2>1, <2>2, <2>3 DEF Repeat, Types, Buffers, Pinned
  <1>3. CASE Hashed(p)
    <2>1. pc[p] = "hashed" /\ got' = got /\ b_blocknr[bh[p]] = want[p]
      BY <1>3 DEF Hashed, Blocks
    <2>2. pc'[p] = "found" /\ b_count' = b_count
      BY <1>3, <2>1 DEF Hashed, Types
    <2> QED BY <1>1, <2>1, <2>2
  <1>4. CASE Victim(p)
    <2>1. got' = got
      BY <1>4 DEF Victim
    <2>2. CASE Taken(p)
      <3>1. Unused' \subseteq Unused /\ pc'[p] = "found"
        BY <2>2 DEF Taken, Types, Unused
      <3> QED BY <2>1, <3>1
    <2>3. CASE b_count' = b_count /\ pc'[p] \in {"repeat", "sync"}
      BY <1>1, <2>1, <2>3
    <2> QED BY <1>4, <2>2, <2>3, VictimTaken DEF Types
  <1>5. CASE Found(p)
    <2>1. /\ b_count' = b_count /\ got'[p] # 0 /\ pc'[p] # "sleeping"
      BY <1>0, <1>5, ReqFacts DEF Found, Return, Types, Ctl
    <2> QED BY <2>1
  <1>6. CASE FoundAhead(p)
    <2>1. pc'[p] = "read" /\ got'[p] # 0
      BY <1>6 DEF FoundAhead, Types
    <2> QED BY <2>1
  <1>7. CASE Read(p) \/ Brelse(p)
    <2>1. CASE Release(p)
      BY <2>1 DEF Release, Woken
    <2>2. CASE ~Release(p)
      <3>1. b_count' = b_count /\ pc'[p] = "user" /\ got' = got
        BY <1>7, <2>2 DEF Read, Brelse, Types
      <3> QED BY <1>1, <3>1
    <2> QED BY <2>1, <2>2
  <1>8. CASE Lock(p) \/ Request(p)
    <2>1. b_count' = b_count /\ got' = got
      BY <1>8 DEF Lock, Request
    <2>2. pc'[p] # "sleeping"
      BY <1>8 DEF Lock, Request, Return, Types
    <2> QED BY <1>1, <2>1, <2>2
  <1>9. CASE Nap(p) \/ Sync(p) \/ SysSync(p) \/ \E k \in Block : Bread(p, k) \/ Breada(p, k)
    <2>1. b_count' = b_count /\ got' = got /\ pc'[p] # "sleeping"
      BY <1>9 DEF Nap, Sync, SysSync, Bread, Breada, Types
    <2> QED BY <1>1, <2>1
  <1>10. CASE ChangeMeta(p) \/ FileWrite(p) \/ FileCopy(p)
    <2>1. b_count' = b_count /\ got' = got /\ pc'[p] # "sleeping"
      BY <1>10 DEF ChangeMeta, FileWrite, FileCopy, Types
    <2> QED BY <1>1, <2>1
  <1> QED BY <1>2, <1>3, <1>4, <1>5, <1>6, <1>7, <1>8, <1>9, <1>10 DEF ByProc

\* A wake-up is never lost for good.
LEMMA WakeupStep ==
  ASSUME Types, QueueOK, Control, Blocks, NoLostWakeup, Next
  PROVE  NoLostWakeup'
  <1> SUFFICES ASSUME NEW r \in Proc, pc'[r] = "sleeping", Unused' # {}
               PROVE  \E q \in Proc : pc'[q] # "sleeping" /\ got'[q] # 0
    BY DEF NoLostWakeup
  <1>1. CASE EndRequest
    <2>1. /\ b_count' = b_count /\ got' = got
          /\ \A q \in Proc : pc'[q] = "sleeping" <=> pc[q] = "sleeping"
      BY <1>1 DEF EndRequest, Types
    <2>2. Unused' = Unused
      BY <2>1 DEF Unused
    <2> QED BY <2>1, <2>2 DEF NoLostWakeup
  <1>2. ASSUME NEW p \in Proc, ByProc(p)
        PROVE  \E q \in Proc : pc'[q] # "sleeping" /\ got'[q] # 0
    <2>1. CASE pc'[p] # "sleeping" /\ got'[p] # 0
      BY <2>1
    <2>2. CASE /\ Unused' \subseteq Unused
               /\ pc'[p] = "sleeping" => Unused' = {}
               /\ got[p] # 0 => got'[p] # 0
      <3>1. Unused # {} /\ pc'[p] # "sleeping" /\ r # p
        BY <2>2
      <3>2. \A q \in Proc : q # p => Kept(q)
        BY <1>2, OthersKept
      <3>3. pc[r] = "sleeping"
        BY <3>1, <3>2 DEF Kept
      <3>4. PICK q \in Proc : pc[q] # "sleeping" /\ got[q] # 0
        BY <3>1, <3>3 DEF NoLostWakeup
      <3>5. CASE q = p
        BY <2>2, <3>1, <3>4, <3>5
      <3>6. CASE q # p
        BY <3>2, <3>4, <3>6 DEF Kept, LocalsKept
      <3> QED BY <3>5, <3>6
    <2> QED BY <1>2, <2>1, <2>2, WakeStep
  <1> QED BY <1>1, <1>2 DEF Next, ByProc

-----------------------------------------------------------------------------
(* Locks *)

\* What a step of p does to locks and to the processes that hold one
LEMMA LockStep ==
  ASSUME Types, QueueOK, Control, NEW p \in Proc, ByProc(p)
  PROVE  /\ \A q \in Proc : q # p => /\ pc'[q] \in Queueing <=> pc[q] \in Queueing
                                     /\ Target(q)' = Target(q)
         /\ \/ /\ SameRequests /\ b_lock' = b_lock
               /\ pc'[p] \in Queueing <=> pc[p] \in Queueing
               /\ pc[p] \in Queueing => Target(p)' = Target(p)
            \/ /\ SameRequests /\ pc[p] = "lock" /\ ~b_lock[Target(p)]
               /\ b_lock' = [b_lock EXCEPT ![Target(p)] = TRUE]
               /\ pc'[p] \in Queueing /\ Target(p)' = Target(p)
            \/ /\ pc[p] = "request" /\ AddedFor(rw[p], Target(p)) /\ b_lock' = b_lock
               /\ pc'[p] \notin Queueing
            \/ /\ pc[p] \notin Queueing /\ pc'[p] \notin Queueing
               /\ got[p] \in Buf /\ ~b_lock[got[p]] /\ AddedFor("READ", got[p])
               /\ b_lock' = [b_lock EXCEPT ![got[p]] = TRUE]
  <1> USE DEF Goto, locals, head, io, Queueing
  <1>0. Ctl(p)
    BY DEF Control
  <1>1. \A q \in Proc : q # p => /\ pc'[q] \in Queueing <=> pc[q] \in Queueing
                                 /\ Target(q)' = Target(q)
    BY OthersKept DEF Kept, LocalsKept, Target
  <1>2. CASE Lock(p)
    <2>1. pc[p] = "lock" /\ ~b_lock[Target(p)] /\ UNCHANGED request /\ Target(p) \in Buf
      BY <1>0, <1>2 DEF Lock, Ctl
    <2>2. CASE NothingToDo(rw[p], Target(p))
      <3>1. b_lock' = [b_lock EXCEPT ![Target(p)] = FALSE]
        BY <1>2, <2>2 DEF Lock, AfterSkip
      <3>2. b_lock' = b_lock
        BY <2>1, <3>1 DEF Types
      <3>3. pc'[p] \notin Queueing
        BY <1>2, <2>2 DEF Lock, Return, Types
      <3> QED BY <1>1, <2>1, <3>2, <3>3 DEF SameRequests
    <2>3. CASE ~NothingToDo(rw[p], Target(p))
      <3>1. b_lock' = [b_lock EXCEPT ![Target(p)] = TRUE] /\ pc'[p] = "request"
        BY <1>2, <2>3 DEF Lock, Types
      <3>2. Target(p)' = Target(p)
        BY <1>2, <2>3 DEF Lock, Target
      <3> QED BY <1>1, <2>1, <3>1, <3>2 DEF SameRequests
    <2> QED BY <2>2, <2>3
  <1>3. CASE Request(p)
    <2>1. CASE FreeSlots(rw[p]) = {}
      <3>1. /\ pc[p] = "request" /\ UNCHANGED <<request, b_lock>> /\ pc'[p] = "nap"
            /\ Target(p)' = Target(p)
        BY <1>3, <2>1 DEF Request, Types, Target
      <3> QED BY <1>1, <3>1 DEF SameRequests
    <2>2. CASE FreeSlots(rw[p]) # {}
      <3>1. /\ AddRequest(rw[p], Target(p)) /\ pc[p] = "request" /\ rw[p] \in {"READ", "WRITE"}
            /\ Return(p) /\ b_lock' = b_lock
        BY <1>3, <2>2 DEF Request, Types
      <3>2. Target(p) \in Buf
        BY <3>1, TargetBuf
      <3>3. AddedFor(rw[p], Target(p))
        BY <2>2, <3>1, <3>2, Added DEF AddedFor
      <3>4. pc'[p] \notin Queueing
        BY <3>1 DEF Return, Types
      <3> QED BY <1>1, <3>1, <3>3, <3>4
    <2> QED BY <2>1, <2>2
  <1>4. CASE FoundAhead(p)
    <2>1. pc[p] = "found" /\ pc'[p] = "read"
      BY <1>4 DEF FoundAhead, Types
    <2>2. CASE UNCHANGED <<request, b_lock>>
      BY <1>1, <2>1, <2>2 DEF SameRequests
    <2>3. CASE ~UNCHANGED <<request, b_lock>>
      <3>1. /\ got[p] \in Buf /\ ~b_lock[got[p]] /\ AddRequest("READ", got[p])
            /\ FreeSlots("READ") # {} /\ b_lock' = [b_lock EXCEPT ![got[p]] = TRUE]
        BY <1>4, <2>3 DEF FoundAhead, Types
      <3>2. AddedFor("READ", got[p])
        BY <3>1, Added DEF AddedFor
      <3> QED BY <1>1, <2>1, <3>1, <3>2
    <2> QED BY <2>2, <2>3
  <1>5. CASE Nap(p)
    <2>1. pc[p] = "nap" /\ pc'[p] = "waiting" /\ Target(p)' = Target(p) /\ UNCHANGED <<request, b_lock>>
      BY <1>5 DEF Nap, Types, Target
    <2> QED BY <1>1, <2>1 DEF SameRequests
  <1>6. CASE ~(Lock(p) \/ Request(p) \/ FoundAhead(p) \/ Nap(p))
    <2>1. SameRequests
      BY <1>6, RequestStep
    <2>2. b_lock' = b_lock /\ pc[p] \notin Queueing /\ pc'[p] \notin Queueing
      <3>1. CASE Victim(p)
        BY <3>1, VictimTaken DEF Taken, Victim, Types
      <3>2. CASE Repeat(p) \/ Hashed(p)
        BY <3>2 DEF Repeat, Hashed, Types
      <3>3. CASE Sync(p) \/ SysSync(p) \/ \E k \in Block : Bread(p, k) \/ Breada(p, k)
        BY <3>3 DEF Sync, SysSync, Bread, Breada, Types
      <3>4. CASE Found(p)
        BY <3>4 DEF Found, Return, Types
      <3>5. CASE Read(p) \/ Brelse(p)
        BY <3>5 DEF Read, Brelse, Release, Types
      <3>6. CASE ChangeMeta(p) \/ FileWrite(p) \/ FileCopy(p)
        BY <3>6 DEF ChangeMeta, FileWrite, FileCopy, Types
      <3> QED BY <1>6, <3>1, <3>2, <3>3, <3>4, <3>5, <3>6 DEF ByProc
    <2> QED BY <1>1, <2>1, <2>2
  <1> QED BY <1>2, <1>3, <1>4, <1>5, <1>6

\* Every lock keeps its one owner.
LEMMA LocksStep ==
  ASSUME Types, QueueOK, Control, Locks, Next
  PROVE  Locks'
  <1>0. /\ \A s \in Slot : request[s] # NoReq => request[s].b \in Buf
        /\ \A s \in Slot : request[s].b \in Buf => request[s] # NoReq
        /\ NoReq.b \notin Buf
        /\ \A q \in Proc : pc[q] \in Queueing => Target(q) \in Buf
    BY ReqFacts, TargetBuf DEF Types, Queueing
  <1>1. CASE EndRequest
    <2>1. PICK s \in Slot, ok \in BOOLEAN, late \in BOOLEAN : Ended(s, ok, late)
      BY <1>1, EndFacts
    <2> DEFINE b == request[s].b
    <2>2. b \in Buf /\ request[s] # NoReq
      BY <2>1, ReqFacts DEF Ended
    <2>3. /\ request'[s] = NoReq
          /\ \A t \in Slot : t # s => request'[t] = request[t] /\ request[t].b # b
      BY <2>1, <2>2 DEF Ended, Types, Locks
    <2>4. ~b_lock'[b] /\ \A c \in Buf : c # b => b_lock'[c] = b_lock[c]
      BY <2>1, <2>2 DEF Ended, Types
    <2>5. \A q \in Proc : /\ pc'[q] \in Queueing <=> pc[q] \in Queueing
                          /\ Target(q)' = Target(q)
      BY <2>1 DEF Ended, Types, Queueing, Target
    <2>6. \A q \in Proc : pc[q] \in Queueing => Target(q) # b
      BY DEF Locks
    <2> HIDE DEF b
    <2>7. \A t \in Slot : request'[t] # NoReq => b_lock'[request'[t].b]
      BY <1>0, <2>3, <2>4 DEF Locks
    <2>8. \A q \in Proc : pc'[q] \in Queueing => b_lock'[Target(q)']
      BY <1>0, <2>4, <2>5, <2>6 DEF Locks
    <2>9. \A t, u \in Slot : request'[t].b = request'[u].b /\ request'[t] # NoReq => t = u
      BY <1>0, <2>3 DEF Locks
    <2>10. \A q, r \in Proc :
            pc'[q] \in Queueing /\ pc'[r] \in Queueing /\ Target(q)' = Target(r)' => q = r
      BY <2>5 DEF Locks
    <2>11. \A t \in Slot, q \in Proc : pc'[q] \in Queueing => request'[t].b # Target(q)'
      BY <1>0, <2>3, <2>5 DEF Locks
    <2>12. \A c \in Buf : b_lock'[c] => \/ \E t \in Slot : request'[t].b = c
                                        \/ \E q \in Proc : pc'[q] \in Queueing /\ Target(q)' = c
      BY <2>3, <2>4, <2>5 DEF Locks, b
    <2> QED BY <2>7, <2>8, <2>9, <2>10, <2>11, <2>12 DEF Locks
  <1>2. ASSUME NEW p \in Proc, ByProc(p) PROVE Locks'
    <2>1. \A q \in Proc : q # p => /\ pc'[q] \in Queueing <=> pc[q] \in Queueing
                                   /\ Target(q)' = Target(q)
      BY <1>2, LockStep
    <2>2. CASE /\ SameRequests /\ b_lock' = b_lock
               /\ pc'[p] \in Queueing <=> pc[p] \in Queueing
               /\ pc[p] \in Queueing => Target(p)' = Target(p)
      <3>1. \A q \in Proc : /\ pc'[q] \in Queueing <=> pc[q] \in Queueing
                            /\ pc[q] \in Queueing => Target(q)' = Target(q)
        BY <2>1, <2>2
      <3> QED BY <2>2, <3>1 DEF Locks, SameRequests
    <2>3. CASE /\ SameRequests /\ pc[p] = "lock" /\ ~b_lock[Target(p)]
               /\ b_lock' = [b_lock EXCEPT ![Target(p)] = TRUE]
               /\ pc'[p] \in Queueing /\ Target(p)' = Target(p)
      <3> DEFINE b == Target(p)
      <3>1. b \in Buf
        BY <2>3, TargetBuf
      <3>2. b_lock'[b] /\ \A c \in Buf : c # b => b_lock'[c] = b_lock[c]
        BY <2>3, <3>1 DEF Types
      <3>3. /\ \A s \in Slot : request[s].b # b
            /\ \A q \in Proc : pc[q] \in Queueing => Target(q) # b
        BY <1>0, <2>3, <3>1 DEF Locks
      <3>4. Target(p)' = b /\ pc'[p] \in Queueing /\ \A s \in Slot :
              request'[s].b = request[s].b /\ (request'[s] # NoReq <=> request[s] # NoReq)
        BY <2>3 DEF SameRequests
      <3>5. \A q \in Proc : pc'[q] \in Queueing => q = p \/ (pc[q] \in Queueing /\ Target(q)' = Target(q))
        BY <2>1
      <3>6. \A q \in Proc : pc[q] \in Queueing => q # p
        BY <2>3 DEF Queueing
      <3> HIDE DEF b
      <3>7. \A s \in Slot : request'[s] # NoReq => b_lock'[request'[s].b]
        BY <1>0, <3>2, <3>4 DEF Locks
      <3>8. \A q \in Proc : pc'[q] \in Queueing => b_lock'[Target(q)']
        BY <1>0, <3>2, <3>3, <3>4, <3>5 DEF Locks
      <3>9. \A s, t \in Slot : request'[s].b = request'[t].b /\ request'[s] # NoReq => s = t
        BY <3>4 DEF Locks
      <3>10. \A q, r \in Proc :
              pc'[q] \in Queueing /\ pc'[r] \in Queueing /\ Target(q)' = Target(r)' => q = r
        BY <3>3, <3>4, <3>5 DEF Locks
      <3>11. \A s \in Slot, q \in Proc : pc'[q] \in Queueing => request'[s].b # Target(q)'
        BY <3>3, <3>4, <3>5 DEF Locks
      <3>12. \A c \in Buf : b_lock'[c] => \/ \E s \in Slot : request'[s].b = c
                                          \/ \E q \in Proc : pc'[q] \in Queueing /\ Target(q)' = c
        BY <2>1, <3>2, <3>4, <3>6 DEF Locks
      <3> QED BY <3>7, <3>8, <3>9, <3>10, <3>11, <3>12 DEF Locks
    <2>4. CASE /\ pc[p] = "request" /\ AddedFor(rw[p], Target(p)) /\ b_lock' = b_lock
               /\ pc'[p] \notin Queueing
      <3> DEFINE b == Target(p)
      <3>1. b \in Buf /\ pc[p] \in Queueing
        BY <2>4, TargetBuf DEF Queueing
      <3>2. PICK s \in Slot : /\ request[s] = NoReq /\ request'[s].b = b
                              /\ \A t \in Slot : t # s => request'[t] = request[t]
        BY <2>4 DEF AddedFor, Types
      <3>3. /\ \A t \in Slot : request[t].b # b
            /\ \A q \in Proc : pc[q] \in Queueing => (Target(q) = b <=> q = p)
        BY <1>0, <3>1 DEF Locks
      <3>4. \A q \in Proc : pc'[q] \in Queueing =>
                              q # p /\ pc[q] \in Queueing /\ Target(q)' = Target(q)
        BY <2>1, <2>4
      <3>5. b_lock'[b] /\ b_lock' = b_lock
        BY <2>4, <3>1 DEF Locks
      <3> HIDE DEF b
      <3>7. \A t \in Slot : request'[t] # NoReq => b_lock'[request'[t].b]
        BY <3>2, <3>5 DEF Locks
      <3>8. \A q \in Proc : pc'[q] \in Queueing => b_lock'[Target(q)']
        BY <3>4, <3>5 DEF Locks
      <3>9. \A t, u \in Slot : request'[t].b = request'[u].b /\ request'[t] # NoReq => t = u
        BY <3>2, <3>3 DEF Locks
      <3>10. \A q, r \in Proc :
              pc'[q] \in Queueing /\ pc'[r] \in Queueing /\ Target(q)' = Target(r)' => q = r
        BY <3>4 DEF Locks
      <3>11. \A t \in Slot, q \in Proc : pc'[q] \in Queueing => request'[t].b # Target(q)'
        BY <3>2, <3>3, <3>4 DEF Locks
      <3>12. \A c \in Buf : b_lock'[c] => \/ \E t \in Slot : request'[t].b = c
                                          \/ \E q \in Proc : pc'[q] \in Queueing /\ Target(q)' = c
        <4> SUFFICES ASSUME NEW c \in Buf, b_lock[c], c # b
                     PROVE  \/ \E t \in Slot : request'[t].b = c
                            \/ \E q \in Proc : pc'[q] \in Queueing /\ Target(q)' = c
          BY <3>2, <3>5
        <4>1. CASE \E t \in Slot : request[t].b = c
          <5>1. PICK t \in Slot : request[t].b = c
            BY <4>1
          <5>2. t # s
            BY <1>0, <3>2, <5>1
          <5> QED BY <3>2, <5>1, <5>2
        <4>2. CASE \E q \in Proc : pc[q] \in Queueing /\ Target(q) = c
          BY <2>1, <3>3, <4>2 DEF b
        <4> QED BY <4>1, <4>2 DEF Locks
      <3> QED BY <3>7, <3>8, <3>9, <3>10, <3>11, <3>12 DEF Locks
    <2>5. CASE /\ pc[p] \notin Queueing /\ pc'[p] \notin Queueing
               /\ got[p] \in Buf /\ ~b_lock[got[p]] /\ AddedFor("READ", got[p])
               /\ b_lock' = [b_lock EXCEPT ![got[p]] = TRUE]
      <3> DEFINE b == got[p]
      <3>1. b \in Buf /\ ~b_lock[b]
        BY <2>5
      <3>2. PICK s \in Slot : /\ request[s] = NoReq /\ request'[s].b = b
                              /\ \A t \in Slot : t # s => request'[t] = request[t]
        BY <2>5 DEF AddedFor, Types
      <3>3. /\ \A t \in Slot : request[t].b # b
            /\ \A q \in Proc : pc[q] \in Queueing => Target(q) # b
        BY <1>0, <3>1 DEF Locks
      <3>4. \A q \in Proc : /\ pc'[q] \in Queueing <=> pc[q] \in Queueing
                            /\ pc[q] \in Queueing => Target(q)' = Target(q)
        BY <2>1, <2>5
      <3>5. b_lock'[b] /\ \A c \in Buf : c # b => b_lock'[c] = b_lock[c]
        BY <2>5, <3>1 DEF Types
      <3> HIDE DEF b
      <3>7. \A t \in Slot : request'[t] # NoReq => b_lock'[request'[t].b]
        BY <1>0, <3>2, <3>5 DEF Locks
      <3>8. \A q \in Proc : pc'[q] \in Queueing => b_lock'[Target(q)']
        BY <1>0, <3>3, <3>4, <3>5 DEF Locks
      <3>9. \A t, u \in Slot : request'[t].b = request'[u].b /\ request'[t] # NoReq => t = u
        BY <3>2, <3>3 DEF Locks
      <3>10. \A q, r \in Proc :
              pc'[q] \in Queueing /\ pc'[r] \in Queueing /\ Target(q)' = Target(r)' => q = r
        BY <3>4 DEF Locks
      <3>11. \A t \in Slot, q \in Proc : pc'[q] \in Queueing => request'[t].b # Target(q)'
        BY <3>2, <3>3, <3>4 DEF Locks
      <3>12. \A c \in Buf : b_lock'[c] => \/ \E t \in Slot : request'[t].b = c
                                          \/ \E q \in Proc : pc'[q] \in Queueing /\ Target(q)' = c
        <4> SUFFICES ASSUME NEW c \in Buf, b_lock[c], c # b
                     PROVE  \/ \E t \in Slot : request'[t].b = c
                            \/ \E q \in Proc : pc'[q] \in Queueing /\ Target(q)' = c
          BY <3>2, <3>5
        <4>1. CASE \E t \in Slot : request[t].b = c
          <5>1. PICK t \in Slot : request[t].b = c
            BY <4>1
          <5>2. t # s
            BY <1>0, <3>2, <5>1
          <5> QED BY <3>2, <5>1, <5>2
        <4>2. CASE \E q \in Proc : pc[q] \in Queueing /\ Target(q) = c
          BY <3>4, <4>2
        <4> QED BY <4>1, <4>2 DEF Locks
      <3> QED BY <3>7, <3>8, <3>9, <3>10, <3>11, <3>12 DEF Locks
    <2> QED BY <1>2, <2>2, <2>3, <2>4, <2>5, LockStep
  <1> QED BY <1>1, <1>2 DEF Next, ByProc

-----------------------------------------------------------------------------
(* Contents *)

\* A process that only may be woken, while its buffers and their state stay
LEMMA KeptProc ==
  ASSUME NEW q \in Proc, Kept(q), ProcOK(q), failed \subseteq failed',
         got[q] # 0 => b_blocknr'[got[q]] = b_blocknr[got[q]],
         pc[q] \in Queueing /\ rw[q] = "READ" => b_uptodate'[got[q]] = b_uptodate[got[q]],
         pc[q] = "user" /\ got[q] # 0 /\ b_blocknr'[got[q]] \in Meta \ failed'
           => b_uptodate'[got[q]] = b_uptodate[got[q]],
         pc[q] = "copy" => got[q] # 0,
         pc[q] \in Queueing /\ rw[q] # "READ" => b_dirt'[at[q]] = b_dirt[at[q]]
  PROVE  ProcOK(q)'
  <1>1. got'[q] = got[q] /\ rw'[q] = rw[q] /\ at'[q] = at[q]
    BY DEF Kept, LocalsKept
  <1>2. /\ pc'[q] \in Queueing <=> pc[q] \in Queueing
        /\ pc'[q] = "user" <=> pc[q] = "user"
        /\ pc'[q] = "copy" <=> pc[q] = "copy"
    BY DEF Kept, Queueing
  <1>3. pc'[q] \in Queueing => IF rw'[q] = "READ" THEN ~b_uptodate'[got'[q]] ELSE b_dirt'[at'[q]]
    BY <1>1, <1>2 DEF ProcOK
  <1>4. pc'[q] = "user" /\ got'[q] # 0 /\ b_blocknr'[got'[q]] \in Meta \ failed' => b_uptodate'[got'[q]]
    BY <1>1, <1>2 DEF ProcOK, Sound
  <1>5. pc'[q] = "copy" => b_blocknr'[got'[q]] \in File
    BY <1>1, <1>2 DEF ProcOK
  <1> QED BY <1>3, <1>4, <1>5 DEF ProcOK, Sound

\* Control information in the terms of KeptProc
LEMMA ProcFacts ==
  ASSUME Types, Control, NEW q \in Proc
  PROVE  /\ got[q] # 0 => got[q] \in Buf
         /\ pc[q] \in Queueing /\ rw[q] = "READ" => got[q] \in Buf /\ got[q] # 0 /\ got[q] = Target(q)
         /\ pc[q] = "copy" => got[q] \in Buf /\ got[q] # 0
         /\ pc[q] \in Queueing /\ rw[q] # "READ" => at[q] \in Buf /\ at[q] = Target(q)
  <1>1. Ctl(q) /\ rw[q] \in {"READ", "WRITE"} /\ got[q] \in Buf \cup {0} /\ 0 \notin Buf
    BY ReqFacts DEF Control, Types
  <1> QED BY <1>1 DEF Ctl, Target, Queueing

\* A block that is being read is not in a buffer that is newer than the disk.
LEMMA ReadFromDisk ==
  ASSUME Types, Single, Locks, Contents, NEW b \in Buf, Sound(b), ~b_uptodate[b],
         \A s \in Slot : request[s].b = b => request[s].cmd # "WRITE"
  PROVE  disk[b_blocknr[b]]
  <1>1. Stored(b_blocknr[b]) /\ b_blocknr[b] # 0
    BY BufferAssumption DEF Contents, Sound
  <1>2. \A c \in Buffers(b_blocknr[b]) : c = b
    BY <1>1 DEF Single, Buffers
  <1>3. ~b_dirt[b]
    BY DEF Contents, BufOK
  <1> QED BY <1>1, <1>2, <1>3 DEF Stored

\* end_request()
LEMMA EndContents ==
  ASSUME Types, Control, Single, Locks, Contents, NEW s \in Slot, NEW ok \in BOOLEAN,
         NEW late \in BOOLEAN, Ended(s, ok, late)
  PROVE  Contents'
  <1> PICK b \in Buf : b = request[s].b
    BY ReqFacts DEF Ended
  <1> PICK kb : kb = b_blocknr[b]
    OBVIOUS
  <1>1. request[s] # NoReq /\ request[s].cmd \in {"READ", "WRITE"}
    BY ReqFacts DEF Ended
  <1>2. /\ request'[s] = NoReq
        /\ \A t \in Slot : t # s => request'[t] = request[t] /\ request[t].b # b
    BY <1>1 DEF Ended, Types, Locks
  <1>3. b_uptodate'[b] = ok /\ \A c \in Buf : c # b => b_uptodate'[c] = b_uptodate[c]
    BY <1>1 DEF Ended, Types
  <1>4. b_blocknr' = b_blocknr /\ b_dirt' = b_dirt /\ failed \subseteq failed'
    BY DEF Ended
  <1>5. \A c \in Buf : c # b => fresh'[c] = fresh[c]
    BY <1>1 DEF Ended, Types
  <1>6. \A k \in Block : k # kb => disk'[k] = disk[k]
    BY DEF Ended, Types
  <1>7. ReqOK(s) /\ BufOK(b)
    BY <1>1 DEF Contents
  <1>8. CASE request[s].cmd = "READ"
    <2>1. disk' = disk /\ failed' = failed /\ fresh'[b] = (ok /\ disk[kb])
      BY <1>1, <1>8 DEF Ended, Types
    <2>2. ~b_uptodate[b]
      BY <1>7, <1>8 DEF ReqOK
    <2>3. \A t \in Slot : request[t].b = b => request[t].cmd # "WRITE"
      BY <1>2, <1>8
    <2>4. Sound(b) => disk[kb] /\ ~b_dirt[b]
      BY <1>1, <1>7, <2>2, <2>3, ReadFromDisk DEF BufOK
    <2> QED
      <3>1. \A c \in Buf : BufOK(c)'
        <4> TAKE c \in Buf
        <4>1. BufOK(c)
          BY DEF Contents
        <4>2. CASE c = b
          <5>1. Sound(b)' => Sound(b)
            BY <1>4, <2>1 DEF Sound
          <5> QED BY <1>3, <1>4, <2>1, <2>4, <4>2, <5>1 DEF BufOK
        <4>3. CASE c # b
          BY <1>3, <1>4, <1>5, <2>1, <4>1, <4>3 DEF BufOK, Sound
        <4> QED BY <4>2, <4>3
      <3>2. \A t \in Slot : ReqOK(t)'
        <4> TAKE t \in Slot
        <4>1. CASE t = s
          BY <1>2, <4>1, ReqFacts DEF ReqOK
        <4>2. CASE t # s
          <5>1. ReqOK(t) /\ request'[t] = request[t] /\ request[t].b # b
            BY <1>2, <4>2 DEF Contents
          <5>2. request[t] = NoReq \/ request[t].b \in Buf
            BY ReqFacts DEF Types
          <5> QED BY <1>3, <1>4, <2>1, <5>1, <5>2, ReqFacts DEF ReqOK, Sound
        <4> QED BY <4>1, <4>2
      <3>3. \A q \in Proc : ProcOK(q)'
        <4> TAKE q \in Proc
        <4>1. ProcOK(q) /\ Kept(q)
          BY EndKept DEF Contents
        <4>2. pc[q] \in Queueing => Target(q) # b
          BY DEF Locks
        <4>3. got[q] = b /\ pc[q] = "user" => ~Sound(b)
          BY <1>1, <2>2, <4>1, ReqFacts DEF ProcOK
        <4>5. /\ got[q] # 0 => b_blocknr'[got[q]] = b_blocknr[got[q]]
              /\ pc[q] \in Queueing /\ rw[q] # "READ" => b_dirt'[at[q]] = b_dirt[at[q]]
          BY <1>4
        <4>6. pc[q] \in Queueing /\ rw[q] = "READ" => b_uptodate'[got[q]] = b_uptodate[got[q]]
          BY <1>3, <4>2, ProcFacts
        <4>7. pc[q] = "user" /\ got[q] # 0 /\ b_blocknr'[got[q]] \in Meta \ failed'
                => b_uptodate'[got[q]] = b_uptodate[got[q]]
          <5>1. b_blocknr'[b] \in Meta \ failed' => Sound(b)
            BY <1>4, <2>1 DEF Sound
          <5> QED BY <1>3, <4>3, <5>1, ProcFacts
        <4>8. pc[q] = "copy" => got[q] # 0
          BY ProcFacts
        <4> QED BY <1>4, <4>1, <4>5, <4>6, <4>7, <4>8, KeptProc
      <3>4. \A k \in Meta \ failed' : Stored(k)'
        <4> TAKE k \in Meta \ failed'
        <4>1. Stored(k) /\ k \in Block
          BY <2>1, BufferAssumption DEF Contents
        <4>2. CASE k = kb
          <5>1. Sound(b)
            BY <2>1, <4>2 DEF Sound
          <5> QED BY <2>1, <2>4, <4>2, <5>1 DEF Stored
        <4>3. CASE k # kb
          <5>1. CASE disk[k]
            BY <2>1, <5>1 DEF Stored
          <5>2. CASE ~disk[k]
            <6>1. PICK c \in Buffers(k) :
                    fresh[c] /\ (b_dirt[c] \/ \E t \in Slot : request[t].b = c /\ request[t].cmd = "WRITE")
              BY <4>1, <5>2 DEF Stored
            <6>2. c \in Buf /\ c # b /\ c \in Buffers(k)'
              BY <1>4, <4>3 DEF Buffers
            <6>3. fresh'[c]
              BY <1>5, <6>1, <6>2
            <6>4. b_dirt'[c] \/ \E t \in Slot : request'[t].b = c /\ request'[t].cmd = "WRITE"
              BY <1>2, <1>4, <6>1, <6>2
            <6> QED BY <6>2, <6>3, <6>4 DEF Stored
          <5> QED BY <5>1, <5>2
        <4> QED BY <4>2, <4>3
      <3> QED BY <3>1, <3>2, <3>3, <3>4 DEF Contents
  <1>9. CASE request[s].cmd = "WRITE"
    <2>1. /\ fresh' = fresh /\ (~ok => kb \in failed')
          /\ kb \in Block => disk'[kb] = (ok /\ fresh[b] /\ (request[s].old => late))
      BY <1>1, <1>9 DEF Ended, Types
    <2>2. Sound(b)' => ok /\ Sound(b)
      BY <1>4, <2>1 DEF Sound
    <2>3. Sound(b) => fresh[b] /\ b_uptodate[b] /\ (request[s].old => b_dirt[b])
      BY <1>7, <1>9 DEF ReqOK, BufOK
    <2>4. \A c \in Buf : BufOK(c)'
      <3> TAKE c \in Buf
      <3>1. BufOK(c)
        BY DEF Contents
      <3>2. CASE c = b
        BY <1>3, <1>4, <2>1, <2>2, <2>3, <3>2 DEF BufOK
      <3>3. CASE c # b
        BY <1>3, <1>4, <2>1, <3>1, <3>3 DEF BufOK, Sound
      <3> QED BY <3>2, <3>3
    <2>5. \A t \in Slot : ReqOK(t)'
      <3> TAKE t \in Slot
      <3>1. CASE t = s
        BY <1>2, <3>1, ReqFacts DEF ReqOK
      <3>2. CASE t # s
        <4>1. ReqOK(t) /\ request'[t] = request[t] /\ request[t].b # b
          BY <1>2, <3>2 DEF Contents
        <4>2. request[t] = NoReq \/ request[t].b \in Buf
          BY ReqFacts DEF Types
        <4>3. Sound(request[t].b)' => Sound(request[t].b)
          BY <1>4, <4>1 DEF Sound
        <4> QED BY <1>3, <1>4, <4>1, <4>2, <4>3, ReqFacts DEF ReqOK
      <3> QED BY <3>1, <3>2
    <2>6. \A q \in Proc : ProcOK(q)'
      <3> TAKE q \in Proc
      <3>1. ProcOK(q) /\ Kept(q)
        BY EndKept DEF Contents
      <3>2. pc[q] \in Queueing => Target(q) # b
        BY DEF Locks
      <3>3. Sound(b)' => b_uptodate'[b] = b_uptodate[b]
        BY <1>3, <2>2, <2>3, <1>1 DEF Types
      <3>4. /\ got[q] # 0 => b_blocknr'[got[q]] = b_blocknr[got[q]]
            /\ pc[q] \in Queueing /\ rw[q] # "READ" => b_dirt'[at[q]] = b_dirt[at[q]]
        BY <1>4
      <3>5. pc[q] \in Queueing /\ rw[q] = "READ" => b_uptodate'[got[q]] = b_uptodate[got[q]]
        BY <1>3, <3>2, ProcFacts
      <3>6. pc[q] = "user" /\ got[q] # 0 /\ b_blocknr'[got[q]] \in Meta \ failed'
              => b_uptodate'[got[q]] = b_uptodate[got[q]]
        <4>1. b_blocknr'[b] \in Meta \ failed' => Sound(b)'
          BY DEF Sound
        <4> QED BY <1>3, <3>3, <4>1, ProcFacts
      <3>7. pc[q] = "copy" => got[q] # 0
        BY ProcFacts
      <3> QED BY <1>4, <3>1, <3>4, <3>5, <3>6, <3>7, KeptProc
    <2>7. \A k \in Meta \ failed' : Stored(k)'
      <3> TAKE k \in Meta \ failed'
      <3>1. Stored(k) /\ k \in Block
        BY <1>4, BufferAssumption DEF Contents
      <3>2. CASE k = kb
        <4>1. Sound(b)'
          BY <1>4, <3>2 DEF Sound
        <4>2. b \in Buffers(k)'
          BY <1>1, <1>4, <3>2 DEF Buffers
        <4> QED BY <1>4, <2>1, <2>2, <2>3, <3>1, <3>2, <4>1, <4>2 DEF Stored
      <3>3. CASE k # kb
        <4>1. CASE disk[k]
          BY <1>6, <3>1, <3>3, <4>1 DEF Stored
        <4>2. CASE ~disk[k]
          <5>1. PICK c \in Buffers(k) :
                  fresh[c] /\ (b_dirt[c] \/ \E t \in Slot : request[t].b = c /\ request[t].cmd = "WRITE")
            BY <3>1, <4>2 DEF Stored
          <5>2. c \in Buf /\ c # b /\ c \in Buffers(k)'
            BY <1>4, <3>3 DEF Buffers
          <5>3. b_dirt'[c] \/ \E t \in Slot : request'[t].b = c /\ request'[t].cmd = "WRITE"
            BY <1>2, <1>4, <5>1, <5>2
          <5> QED BY <2>1, <5>1, <5>2, <5>3 DEF Stored
        <4> QED BY <4>1, <4>2
      <3> QED BY <3>2, <3>3
    <2> QED BY <2>4, <2>5, <2>6, <2>7 DEF Contents
  <1> QED BY <1>1, <1>8, <1>9

\* The steps of a process that change no block, no mark and no request leave the
\* rest as it was.
LEMMA SameContents ==
  ASSUME Types, Control, Contents, NEW p \in Proc, ByProc(p), ProcOK(p)',
         UNCHANGED <<b_blocknr, b_dirt, b_uptodate, fresh, disk, failed, request>>
  PROVE  Contents'
  <1>1. \A b \in Buf : BufOK(b)'
    BY DEF Contents, BufOK, Sound
  <1>2. \A s \in Slot : ReqOK(s)'
    BY DEF Contents, ReqOK, Sound
  <1>3. \A q \in Proc : ProcOK(q)'
    <2> TAKE q \in Proc
    <2>1. CASE q = p
      BY <2>1
    <2>2. CASE q # p
      <3>1. Kept(q) /\ ProcOK(q)
        BY <2>2, OthersKept DEF Contents
      <3> QED BY <3>1, ProcFacts, KeptProc
    <2> QED BY <2>1, <2>2
  <1>4. \A k \in Meta \ failed' : Stored(k)'
    BY DEF Contents, Stored, Buffers
  <1> QED BY <1>1, <1>2, <1>3, <1>4 DEF Contents

\* getblk() takes a buffer that is clean and nobody's.
LEMMA TakenContents ==
  ASSUME Types, Control, Counts, Locks, Contents, NEW p \in Proc, ByProc(p), Taken(p),
         UNCHANGED <<disk, failed, request>>
  PROVE  Contents'
  <1> PICK b \in Buf : b = bh[p]
    BY TakenFacts
  <1>1. /\ ~b_lock[b] /\ ~b_dirt[b] /\ b_dirt' = [b_dirt EXCEPT ![b] = FALSE]
        /\ b_uptodate' = [b_uptodate EXCEPT ![b] = FALSE] /\ pc'[p] = "found"
    BY DEF Taken, Types
  <1>2. /\ ~b_uptodate'[b] /\ ~b_dirt'[b]
        /\ \A c \in Buf : c # b => b_uptodate'[c] = b_uptodate[c] /\ b_dirt'[c] = b_dirt[c]
    BY <1>1 DEF Types
  <1>3. \A c \in Buf : c # b => fresh'[c] = fresh[c] /\ b_blocknr'[c] = b_blocknr[c]
    BY TakenFacts DEF Taken, Types
  <1>4. /\ \A s \in Slot : request[s].b # b
        /\ \A q \in Proc : pc[q] \in Queueing => Target(q) # b
    <2>1. \A s \in Slot : request[s].b = b => request[s] # NoReq
      BY ReqFacts
    <2> QED BY <1>1, <2>1 DEF Locks
  <1>5. \A q \in Proc : got[q] # b
    BY TakenFacts
  <1>6. \A c \in Buf : BufOK(c)'
    BY <1>2, <1>3 DEF Contents, BufOK, Sound
  <1>7. \A s \in Slot : ReqOK(s)'
    <2> TAKE s \in Slot
    <2>1. ReqOK(s) /\ request'[s] = request[s] /\ request[s].b # b
      BY <1>4 DEF Contents
    <2>2. request[s] = NoReq \/ request[s].b \in Buf
      BY ReqFacts DEF Types
    <2> QED BY <1>2, <1>3, <2>1, <2>2, ReqFacts DEF ReqOK, Sound
  <1>8. \A q \in Proc : ProcOK(q)'
    <2> TAKE q \in Proc
    <2>1. CASE q = p
      BY <1>1, <2>1 DEF ProcOK, Queueing
    <2>2. CASE q # p
      <3>1. Kept(q) /\ ProcOK(q)
        BY <2>2, OthersKept DEF Contents
      <3>2. /\ got[q] # 0 => b_blocknr'[got[q]] = b_blocknr[got[q]]
                              /\ b_uptodate'[got[q]] = b_uptodate[got[q]]
            /\ pc[q] = "copy" => got[q] # 0
            /\ pc[q] \in Queueing /\ rw[q] = "READ" => got[q] # 0
        BY <1>2, <1>3, <1>5, ProcFacts
      <3>3. pc[q] \in Queueing /\ rw[q] # "READ" => b_dirt'[at[q]] = b_dirt[at[q]]
        BY <1>2, <1>4, ProcFacts
      <3> QED BY <3>1, <3>2, <3>3, KeptProc
    <2> QED BY <2>1, <2>2
  <1>9. \A k \in Meta \ failed' : Stored(k)'
    <2> TAKE k \in Meta \ failed'
    <2>1. Stored(k)
      BY DEF Contents
    <2>2. CASE disk[k]
      BY <2>2 DEF Stored
    <2>3. CASE ~disk[k]
      <3>1. PICK c \in Buffers(k) :
              fresh[c] /\ (b_dirt[c] \/ \E t \in Slot : request[t].b = c /\ request[t].cmd = "WRITE")
        BY <2>1, <2>3 DEF Stored
      <3>2. c \in Buf /\ c # b
        BY <1>1, <1>4, <3>1 DEF Buffers
      <3>3. c \in Buffers(k)'
        BY <1>3, <3>2 DEF Buffers
      <3> QED BY <1>2, <1>3, <3>1, <3>2, <3>3 DEF Stored
    <2> QED BY <2>2, <2>3
  <1> QED BY <1>6, <1>7, <1>8, <1>9 DEF Contents

\* A request that is added reads a buffer that is not up to date, or writes a
\* dirty one.
LEMMA AddedContents ==
  ASSUME Types, Control, Locks, Contents, NEW p \in Proc, ByProc(p),
         NEW cmd \in {"READ", "WRITE"}, NEW b \in Buf, AddedFor(cmd, b),
         \A s \in Slot : request[s].b # b,
         \A q \in Proc : q # p /\ pc[q] \in Queueing => Target(q) # b,
         cmd = "READ" => ~b_uptodate[b], cmd = "WRITE" => b_dirt[b], ProcOK(p)',
         UNCHANGED <<b_blocknr, b_uptodate, fresh, disk, failed>>
  PROVE  Contents'
  <1>1. ~b_dirt'[b] /\ \A c \in Buf : c # b => b_dirt'[c] = b_dirt[c]
    BY DEF AddedFor, Types
  <1>2. PICK s \in Slot : /\ request[s] = NoReq
                          /\ request' = [request EXCEPT ![s] = [cmd |-> cmd, b |-> b, old |-> FALSE]]
    BY DEF AddedFor
  <1>3. /\ request'[s].cmd = cmd /\ request'[s].b = b /\ ~request'[s].old
        /\ \A t \in Slot : t # s => request'[t] = request[t]
    BY <1>2 DEF Types
  <1>4. BufOK(b)
    BY DEF Contents
  <1>5. \A c \in Buf : BufOK(c)'
    BY <1>1 DEF Contents, BufOK, Sound
  <1>6. \A t \in Slot : ReqOK(t)'
    <2> TAKE t \in Slot
    <2>1. CASE t = s
      <3>1. Sound(b)' => Sound(b)
        BY DEF Sound
      <3>2. cmd = "WRITE" /\ Sound(b)' => b_uptodate'[b]
        BY <1>4, <3>1 DEF BufOK
      <3>3. cmd = "READ" => ~b_uptodate'[b]
        OBVIOUS
      <3> QED BY <1>3, <2>1, <3>2, <3>3 DEF ReqOK, Sound
    <2>2. CASE t # s
      <3>1. ReqOK(t) /\ request'[t] = request[t] /\ request[t].b # b
        BY <1>3, <2>2 DEF Contents
      <3>2. request[t] = NoReq \/ request[t].b \in Buf
        BY ReqFacts DEF Types
      <3> QED BY <1>1, <3>1, <3>2, ReqFacts DEF ReqOK, Sound
    <2> QED BY <2>1, <2>2
  <1>7. \A q \in Proc : ProcOK(q)'
    <2> TAKE q \in Proc
    <2>1. CASE q = p
      BY <2>1
    <2>2. CASE q # p
      <3>1. Kept(q) /\ ProcOK(q)
        BY <2>2, OthersKept DEF Contents
      <3>2. pc[q] \in Queueing /\ rw[q] # "READ" => b_dirt'[at[q]] = b_dirt[at[q]]
        BY <1>1, <2>2, ProcFacts
      <3>3. pc[q] = "copy" => got[q] # 0
        BY ProcFacts
      <3> QED BY <3>1, <3>2, <3>3, KeptProc
    <2> QED BY <2>1, <2>2
  <1>8. \A k \in Meta \ failed' : Stored(k)'
    <2> TAKE k \in Meta \ failed'
    <2>1. Stored(k)
      BY DEF Contents
    <2>2. CASE disk[k]
      BY <2>2 DEF Stored
    <2>3. CASE ~disk[k]
      <3>1. PICK c \in Buffers(k) :
              fresh[c] /\ (b_dirt[c] \/ \E t \in Slot : request[t].b = c /\ request[t].cmd = "WRITE")
        BY <2>1, <2>3 DEF Stored
      <3>2. c \in Buf /\ c \in Buffers(k)' /\ fresh'[c] /\ b_blocknr[c] = k
        BY <3>1 DEF Buffers
      <3>3. CASE c = b
        <4>1. b_dirt[b]
          BY <3>1, <3>3
        <4>2. Sound(b)
          BY <3>2, <3>3 DEF Sound
        <4>3. cmd = "WRITE"
          BY <1>4, <4>1, <4>2 DEF BufOK
        <4> QED BY <1>3, <3>2, <3>3, <4>3 DEF Stored
      <3>4. CASE c # b
        <4>1. \A t \in Slot : request[t].b = c => t # s
          BY <1>2, <3>2, ReqFacts
        <4>2. b_dirt'[c] \/ \E t \in Slot : request'[t].b = c /\ request'[t].cmd = "WRITE"
          BY <1>1, <1>3, <3>1, <3>2, <3>4, <4>1
        <4> QED BY <3>2, <4>2 DEF Stored
      <3> QED BY <3>3, <3>4
    <2> QED BY <2>2, <2>3
  <1> QED BY <1>5, <1>6, <1>7, <1>8 DEF Contents

\* Who changes a block of the file system holds it up to date and marks it.
LEMMA ChangeContents ==
  ASSUME Types, Control, Single, Contents, NEW p \in Proc, ByProc(p), NEW b \in Buf, Change(b),
         b_blocknr[b] # 0, Sound(b) => b_uptodate[b] /\ b_dirt'[b], b_dirt[b] => b_dirt'[b],
         b_dirt' \in [Buf -> BOOLEAN], \A c \in Buf : c # b => b_dirt'[c] = b_dirt[c],
         UNCHANGED <<b_blocknr, b_uptodate, failed>>, ProcOK(p)'
  PROVE  Contents'
  <1>1. /\ fresh'[b]
        /\ \A c \in Buf : b_blocknr[c] # b_blocknr[b] => fresh'[c] = fresh[c]
        /\ \A k \in Block : k # b_blocknr[b] => disk'[k] = disk[k]
    BY DEF Change, Types
  <1>2. \A c \in Buf : c # b => b_blocknr[c] # b_blocknr[b]
    BY DEF Single
  <1>3. \A s \in Slot : /\ request'[s].b = request[s].b /\ request'[s].cmd = request[s].cmd
                        /\ request[s].b # b => request'[s] = request[s]
    BY Changed
  <1>4. \A c \in Buf : BufOK(c)'
    BY <1>1, <1>2 DEF Contents, BufOK, Sound
  <1>5. \A s \in Slot : ReqOK(s)'
    <2> TAKE s \in Slot
    <2>1. ReqOK(s)
      BY DEF Contents
    <2>2. request[s] = NoReq \/ request[s].b \in Buf
      BY ReqFacts DEF Types
    <2>3. CASE request[s].b = b
      BY <1>3, <2>1, <2>3 DEF ReqOK, Sound
    <2>4. CASE request[s].b # b
      BY <1>3, <2>1, <2>2, <2>4, ReqFacts DEF ReqOK, Sound
    <2> QED BY <2>3, <2>4
  <1>6. \A q \in Proc : ProcOK(q)'
    <2> TAKE q \in Proc
    <2>1. CASE q = p
      BY <2>1
    <2>2. CASE q # p
      <3>1. Kept(q) /\ ProcOK(q)
        BY <2>2, OthersKept DEF Contents
      <3>2. pc[q] \in Queueing /\ rw[q] # "READ" => b_dirt[at[q]] /\ at[q] \in Buf
        BY <3>1, ProcFacts DEF ProcOK
      <3>3. pc[q] \in Queueing /\ rw[q] # "READ" => b_dirt'[at[q]] = b_dirt[at[q]]
        BY <3>2 DEF Types
      <3>4. pc[q] = "copy" => got[q] # 0
        BY ProcFacts
      <3> QED BY <3>1, <3>3, <3>4, KeptProc
    <2> QED BY <2>1, <2>2
  <1>7. \A k \in Meta \ failed' : Stored(k)'
    <2> TAKE k \in Meta \ failed'
    <2>1. Stored(k) /\ k \in Block
      BY BufferAssumption DEF Contents
    <2>2. CASE k = b_blocknr[b]
      <3>1. Sound(b) /\ b \in Buffers(k)'
        BY <2>2 DEF Sound, Buffers
      <3> QED BY <1>1, <3>1 DEF Stored
    <2>3. CASE k # b_blocknr[b]
      <3>1. CASE disk[k]
        BY <1>1, <2>1, <2>3, <3>1 DEF Stored
      <3>2. CASE ~disk[k]
        <4>1. PICK c \in Buffers(k) :
                fresh[c] /\ (b_dirt[c] \/ \E t \in Slot : request[t].b = c /\ request[t].cmd = "WRITE")
          BY <2>1, <3>2 DEF Stored
        <4>2. c \in Buf /\ c # b /\ c \in Buffers(k)' /\ b_blocknr[c] # b_blocknr[b]
          BY <2>3, <4>1 DEF Buffers
        <4>3. b_dirt'[c] \/ \E t \in Slot : request'[t].b = c /\ request'[t].cmd = "WRITE"
          BY <1>3, <4>1, <4>2
        <4> QED BY <1>1, <4>1, <4>2, <4>3 DEF Stored
      <3> QED BY <3>1, <3>2
    <2> QED BY <2>2, <2>3
  <1> QED BY <1>4, <1>5, <1>6, <1>7 DEF Contents

\* file_write() marks a block that is not one of the file system's.
LEMMA FileWriteContents ==
  ASSUME Types, Control, Contents, NEW p \in Proc, FileWrite(p)
  PROVE  Contents'
  <1> PICK b \in Buf : b = got[p]
    BY DEF FileWrite, Types
  <1>1. /\ b_blocknr[b] \in File /\ b_dirt' = [b_dirt EXCEPT ![b] = TRUE] /\ pc'[p] = "copy"
        /\ got' = got /\ UNCHANGED <<b_blocknr, b_uptodate, fresh, disk, failed, request>>
    BY DEF FileWrite, Goto, Types, data, io
  <1>2. b_dirt'[b] = TRUE /\ \A c \in Buf : c # b => b_dirt'[c] = b_dirt[c]
    BY <1>1 DEF Types
  <1>3. ~Sound(b)
    BY <1>1, BufferAssumption DEF Sound
  <1>4. \A c \in Buf : BufOK(c)'
    BY <1>1, <1>2, <1>3 DEF Contents, BufOK, Sound
  <1>5. \A s \in Slot : ReqOK(s)'
    <2> TAKE s \in Slot
    <2>1. ReqOK(s) /\ request'[s] = request[s]
      BY <1>1 DEF Contents
    <2>2. request[s] = NoReq \/ request[s].b \in Buf
      BY ReqFacts DEF Types
    <2> QED BY <1>1, <1>2, <1>3, <2>1, <2>2, ReqFacts DEF ReqOK, Sound
  <1>6. \A q \in Proc : ProcOK(q)'
    <2> TAKE q \in Proc
    <2>1. CASE q = p
      BY <1>1, <2>1 DEF ProcOK, Queueing
    <2>2. CASE q # p
      <3>1. Kept(q) /\ ProcOK(q)
        BY <2>2, OthersKept DEF Contents, ByProc
      <3>2. pc[q] \in Queueing /\ rw[q] # "READ" => b_dirt[at[q]] /\ at[q] \in Buf
        BY <3>1, ProcFacts DEF ProcOK
      <3>3. pc[q] \in Queueing /\ rw[q] # "READ" => b_dirt'[at[q]] = b_dirt[at[q]]
        <4>1. pc[q] \in Queueing /\ rw[q] # "READ" => b_dirt[at[q]] = TRUE
          BY <3>2 DEF Types
        <4> QED BY <1>2, <3>2, <4>1
      <3>4. pc[q] = "copy" => got[q] # 0
        BY ProcFacts
      <3> QED BY <1>1, <3>1, <3>3, <3>4, KeptProc
    <2> QED BY <2>1, <2>2
  <1>7. \A k \in Meta \ failed' : Stored(k)'
    BY <1>1, <1>2 DEF Contents, Stored, Buffers
  <1> QED BY <1>4, <1>5, <1>6, <1>7 DEF Contents

\* What a process finds when a step of its own ends
LEMMA OwnContents ==
  ASSUME Types, Control, Contents, NEW p \in Proc,
         \/ Repeat(p) \/ Hashed(p) \/ Victim(p) \/ Lock(p) \/ Request(p) \/ Nap(p)
         \/ Sync(p) \/ SysSync(p) \/ Found(p) \/ FoundAhead(p) \/ Read(p) \/ Brelse(p)
         \/ \E k \in Block : Bread(p, k) \/ Breada(p, k)
  PROVE  ProcOK(p)'
  <1>0. Ctl(p) /\ ProcOK(p)
    BY DEF Control, Contents
  <1>1. ASSUME pc'[p] \notin Queueing, pc'[p] # "user", pc'[p] # "copy" PROVE ProcOK(p)'
    BY <1>1 DEF ProcOK
  <1>2. ASSUME pc'[p] = "user", got'[p] # 0 => b_uptodate'[got'[p]] PROVE ProcOK(p)'
    BY <1>2 DEF ProcOK, Queueing
  <1>3. ASSUME pc[p] \in Queueing, pc'[p] \in Queueing,
               UNCHANGED <<rw, got, at, b_uptodate, b_dirt>>
        PROVE  ProcOK(p)'
    BY <1>0, <1>3 DEF ProcOK, Queueing
  <1>4. ASSUME Return(p) PROVE ProcOK(p)'
    <2>1. pc'[p] \in {"sync", "repeat", "read"}
      BY <1>4 DEF Return, Goto, Types
    <2> QED BY <1>1, <2>1 DEF Queueing
  <1>5. CASE Repeat(p) \/ Hashed(p) \/ SysSync(p) \/ \E k \in Block : Bread(p, k) \/ Breada(p, k)
    <2>1. pc'[p] \in {"hashed", "victim", "sleeping", "found", "repeat", "sync"}
      BY <1>5 DEF Repeat, Hashed, SysSync, Bread, Breada, Goto, Types
    <2> QED BY <1>1, <2>1 DEF Queueing
  <1>6. CASE Victim(p)
    <2>1. pc'[p] \in {"found", "repeat", "sync"}
      BY <1>6 DEF Victim, Goto, Types
    <2> QED BY <1>1, <2>1 DEF Queueing
  <1>7. CASE Lock(p)
    <2>1. CASE NothingToDo(rw[p], Target(p))
      BY <1>4, <1>7, <2>1 DEF Lock
    <2>2. CASE ~NothingToDo(rw[p], Target(p))
      <3>1. pc'[p] = "request" /\ UNCHANGED <<rw, got, at, b_uptodate, b_dirt>> /\ rw[p] \in {"READ", "WRITE"}
        BY <1>7, <2>2 DEF Lock, Goto, Types
      <3>2. IF rw[p] = "READ" THEN ~b_uptodate[got[p]] ELSE b_dirt[at[p]]
        BY <2>2, <3>1 DEF NothingToDo, Target
      <3> QED BY <3>1, <3>2 DEF ProcOK, Queueing
    <2> QED BY <2>1, <2>2
  <1>8. CASE Request(p)
    <2>1. CASE FreeSlots(rw[p]) # {}
      BY <1>4, <1>8, <2>1 DEF Request
    <2>2. CASE FreeSlots(rw[p]) = {}
      <3>1. pc[p] = "request" /\ pc'[p] = "nap" /\ UNCHANGED <<rw, got, at, b_uptodate, b_dirt>>
        BY <1>8, <2>2 DEF Request, Goto, Types
      <3> QED BY <1>3, <3>1 DEF Queueing
    <2> QED BY <2>1, <2>2
  <1>9. CASE Nap(p)
    <2>1. pc[p] = "nap" /\ pc'[p] = "waiting" /\ UNCHANGED <<rw, got, at, b_uptodate, b_dirt>>
      BY <1>9 DEF Nap, Goto, Types, head
    <2> QED BY <1>3, <2>1 DEF Queueing
  <1>10. CASE Sync(p)
    <2>1. pc[p] = "sync" /\ got' = got
      BY <1>10 DEF Sync
    <2>2. (pc'[p] = "user" /\ op[p] = "sync") \/ pc'[p] \in {"victim", "lock", "sync"}
      BY <1>10 DEF Sync, Goto, Types
    <2>3. op[p] = "sync" => got[p] = 0
      BY <1>0, <2>1 DEF Ctl, InGetblk
    <2> QED BY <1>1, <1>2, <2>1, <2>2, <2>3 DEF Queueing
  <1>11. CASE Found(p)
    <2>1. Return(p) \/ pc'[p] \in {"read", "lock"}
      BY <1>11 DEF Found, Goto, Types
    <2> QED BY <1>1, <1>4, <2>1 DEF Queueing
  <1>12. CASE FoundAhead(p)
    <2>1. pc'[p] = "read"
      BY <1>12 DEF FoundAhead, Goto, Types
    <2> QED BY <1>1, <2>1 DEF Queueing
  <1>13. CASE Read(p)
    <2>1. pc'[p] = "user" /\ b_uptodate' = b_uptodate
      BY <1>13 DEF Read, Release, Goto, Types
    <2>2. got'[p] = 0 \/ (got' = got /\ b_uptodate[got[p]])
      BY <1>13 DEF Read, Release, Types
    <2> QED BY <1>2, <2>1, <2>2
  <1>14. CASE Brelse(p)
    <2>1. pc'[p] = "user" /\ got'[p] = 0
      BY <1>14 DEF Brelse, Release, Types
    <2> QED BY <1>2, <2>1
  <1> QED BY <1>5, <1>6, <1>7, <1>8, <1>9, <1>10, <1>11, <1>12, <1>13, <1>14

\* Every step keeps the blocks of the file system coherent.
LEMMA ContentsStep ==
  ASSUME Types, QueueOK, Control, Single, Named, Locks, Counts, Contents, Types', Next
  PROVE  Contents'
  <1>1. CASE EndRequest
    BY <1>1, EndFacts, EndContents
  <1>2. ASSUME NEW p \in Proc, ByProc(p) PROVE Contents'
    <2>0. Ctl(p) /\ ProcOK(p)
      BY DEF Control, Contents
    <2>1. CASE Victim(p)
      <3>1. ProcOK(p)'
        BY <2>1, OwnContents
      <3>2. UNCHANGED <<disk, failed, request>>
        BY <2>1 DEF Victim, io
      <3>3. CASE Taken(p)
        BY <1>2, <3>2, <3>3, TakenContents
      <3>4. CASE UNCHANGED <<head, fresh>>
        BY <1>2, <3>1, <3>2, <3>4, SameContents DEF head
      <3> QED BY <2>1, <3>3, <3>4, VictimTaken
    <2>2. CASE Request(p)
      <3>1. ProcOK(p)' /\ pc[p] = "request" /\ pc[p] \in Queueing
        BY <2>2, OwnContents DEF Request, Queueing
      <3>2. UNCHANGED <<b_blocknr, b_uptodate, fresh, disk, failed>>
        BY <2>2 DEF Request, data
      <3>3. CASE FreeSlots(rw[p]) # {}
        <4>1. AddRequest(rw[p], Target(p)) /\ rw[p] \in {"READ", "WRITE"} /\ Target(p) \in Buf
          BY <2>2, <3>1, <3>3, TargetBuf DEF Request, Types
        <4>2. AddedFor(rw[p], Target(p))
          BY <3>3, <4>1, Added DEF AddedFor
        <4>3. /\ \A s \in Slot : request[s].b # Target(p)
              /\ \A q \in Proc : q # p /\ pc[q] \in Queueing => Target(q) # Target(p)
          BY <3>1 DEF Locks
        <4>4. /\ rw[p] = "READ" => ~b_uptodate[Target(p)]
              /\ rw[p] = "WRITE" => b_dirt[Target(p)]
          BY <2>0, <3>1 DEF ProcOK, Target
        <4> QED BY <1>2, <3>1, <3>2, <4>1, <4>2, <4>3, <4>4, AddedContents
      <3>4. CASE FreeSlots(rw[p]) = {}
        <4>1. UNCHANGED <<b_dirt, request>>
          BY <2>2, <3>4 DEF Request, io
        <4> QED BY <1>2, <3>1, <3>2, <4>1, SameContents
      <3> QED BY <3>3, <3>4
    <2>3. CASE FoundAhead(p)
      <3>1. ProcOK(p)' /\ pc[p] \notin Queueing /\ got[p] \in Buf
        BY <2>3, OwnContents DEF FoundAhead, Queueing, Types
      <3>2. UNCHANGED <<b_blocknr, b_uptodate, fresh, disk, failed>>
        BY <2>3 DEF FoundAhead, data
      <3>3. CASE /\ ~b_uptodate[bh[p]] /\ ~b_lock[got[p]] /\ ~NothingToDo("READ", got[p])
                 /\ FreeSlots("READ") # {}
        <4>1. AddRequest("READ", got[p]) /\ ~b_uptodate[got[p]]
          BY <2>3, <3>3 DEF FoundAhead, NothingToDo
        <4>2. AddedFor("READ", got[p])
          BY <3>1, <3>3, <4>1, Added DEF AddedFor
        <4>3. /\ \A s \in Slot : request[s].b # got[p]
              /\ \A q \in Proc : q # p /\ pc[q] \in Queueing => Target(q) # got[p]
          <5>1. \A s \in Slot : request[s].b = got[p] => request[s] # NoReq
            BY <3>1, ReqFacts
          <5> QED BY <3>3, <5>1 DEF Locks
        <4> QED BY <1>2, <3>1, <3>2, <4>1, <4>2, <4>3, AddedContents
      <3>4. CASE UNCHANGED <<b_dirt, b_lock, io>>
        <4>1. UNCHANGED <<b_dirt, request>>
          BY <3>4 DEF io
        <4> QED BY <1>2, <3>1, <3>2, <4>1, SameContents
      <3> QED BY <2>3, <3>3, <3>4 DEF FoundAhead
    <2>4. CASE ChangeMeta(p)
      <3> PICK b \in Buf : b = got[p]
        BY <2>4 DEF ChangeMeta, Types
      <3>1. /\ Change(b) /\ b_dirt' = [b_dirt EXCEPT ![b] = TRUE] /\ b_blocknr[b] \in Meta
            /\ UNCHANGED <<b_blocknr, b_uptodate, failed, pc, got>> /\ pc[p] = "user" /\ b # 0
        BY <2>4 DEF ChangeMeta, locals
      <3>2. /\ b_dirt'[b] /\ b_dirt' \in [Buf -> BOOLEAN]
            /\ \A c \in Buf : c # b => b_dirt'[c] = b_dirt[c]
        BY <3>1 DEF Types
      <3>3. b_blocknr[b] # 0
        BY <3>1, BufferAssumption
      <3>4. Sound(b) => b_uptodate[b]
        BY <2>0, <3>1 DEF ProcOK
      <3>5. ProcOK(p)'
        BY <2>0, <3>1 DEF ProcOK, Queueing, Sound
      <3> QED BY <1>2, <3>1, <3>2, <3>3, <3>4, <3>5, ChangeContents
    <2>5. CASE FileCopy(p)
      <3> PICK b \in Buf : b = got[p]
        BY <2>0, <2>5 DEF FileCopy, Ctl
      <3>1. /\ Change(b) /\ b_dirt' = b_dirt /\ pc[p] = "copy" /\ pc'[p] = "user"
            /\ UNCHANGED <<b_blocknr, b_uptodate, failed, got>>
        BY <2>5 DEF FileCopy, Goto, head, Types
      <3>2. b_blocknr[b] \in File /\ b_dirt' \in [Buf -> BOOLEAN]
        BY <2>0, <3>1 DEF ProcOK, Types
      <3>3. b_blocknr[b] # 0 /\ ~Sound(b)
        BY <3>2, BufferAssumption DEF Sound
      <3>4. ProcOK(p)'
        BY <3>1, <3>3 DEF ProcOK, Queueing, Sound
      <3> QED BY <1>2, <3>1, <3>2, <3>3, <3>4, ChangeContents
    <2>6. CASE FileWrite(p)
      BY <2>6, FileWriteContents
    <2>7. CASE \/ Repeat(p) \/ Hashed(p) \/ Lock(p) \/ Nap(p) \/ Sync(p) \/ SysSync(p) \/ Found(p)
               \/ Read(p) \/ Brelse(p) \/ \E k \in Block : Bread(p, k) \/ Breada(p, k)
      <3>1. ProcOK(p)'
        BY <2>7, OwnContents
      <3>2. UNCHANGED <<b_blocknr, b_dirt, b_uptodate, fresh, disk, failed, request>>
        BY <2>7 DEF Repeat, Hashed, Lock, Nap, Sync, SysSync, Found, Read, Brelse, Bread, Breada,
                    head, data, io
      <3> QED BY <1>2, <3>1, <3>2, SameContents
    <2> QED BY <1>2, <2>1, <2>2, <2>3, <2>4, <2>5, <2>6, <2>7 DEF ByProc
  <1> QED BY <1>1, <1>2 DEF Next, ByProc

-----------------------------------------------------------------------------
(* The invariant and what follows from it *)

\* buffer_init() and blk_dev_init() leave an empty cache and an empty queue.
LEMMA InitInv == Init => IInv
  <1> SUFFICES ASSUME Init PROVE IInv
    OBVIOUS
  <1>0. 0 \notin Buf /\ 0 \in 0 .. NBuf + 1 /\ Block \subseteq Nat \ {0}
    BY BufferAssumption DEF Buf
  <1>1. Types
    BY <1>0 DEF Init, Types, Labels
  <1>2. QueueOK
    BY DEF Init, QueueOK, IsInjective, Range
  <1>3. Control
    BY <1>0 DEF Init, Control, Ctl, InGetblk, Target
  <1>4. Single /\ Named
    BY DEF Init, Single, Named
  <1>5. Blocks
    BY DEF Init, Blocks
  <1>6. Locks
    BY ReqFacts DEF Init, Locks, Queueing
  <1>7. Counts
    <2> SUFFICES ASSUME NEW b \in Buf
                 PROVE  b_count[b] = Cardinality(Pinning(b)) + Cardinality(Holding(b))
      BY DEF Counts
    <2>1. Pinning(b) = {} /\ Holding(b) = {} /\ b_count[b] = 0
      BY <1>0 DEF Init, Pinning, Holding
    <2> QED BY <2>1, FS_EmptySet
  <1>8. NoLostWakeup
    BY DEF Init, NoLostWakeup
  <1>9. Contents
    <2>1. \A b \in Buf : BufOK(b)
      BY DEF Init, BufOK
    <2>2. \A s \in Slot : ReqOK(s)
      BY ReqFacts DEF Init, ReqOK
    <2>3. \A p \in Proc : ProcOK(p)
      BY DEF Init, ProcOK, Queueing
    <2>4. \A k \in Meta \ failed : Stored(k)
      BY BufferAssumption DEF Init, Stored
    <2> QED BY <2>1, <2>2, <2>3, <2>4 DEF Contents
  <1> QED BY <1>1, <1>2, <1>3, <1>4, <1>5, <1>6, <1>7, <1>8, <1>9 DEF IInv

\* Every step keeps all of it.
LEMMA StepInv == IInv /\ [Next]_vars => IInv'
  <1>1. ASSUME IInv, Next PROVE IInv'
    <2>1. Types /\ QueueOK /\ Control /\ Single /\ Blocks /\ Named /\ Locks /\ Counts
          /\ NoLostWakeup /\ Contents
      BY <1>1 DEF IInv
    <2>2. Types' /\ QueueOK'
      BY <1>1, <2>1, TypesStep
    <2>3. Control'
      BY <1>1, <2>1, <2>2, ControlStep
    <2>4. Single' /\ Blocks'
      BY <1>1, <2>1, SingleStep, BlocksStep
    <2>5. Named' /\ Counts'
      BY <1>1, <2>1, NamedStep, CountsStep
    <2>6. Locks'
      BY <1>1, <2>1, <2>2, LocksStep
    <2>7. NoLostWakeup'
      BY <1>1, <2>1, WakeupStep
    <2>8. Contents'
      BY <1>1, <2>1, <2>2, ContentsStep
    <2> QED BY <2>2, <2>3, <2>4, <2>5, <2>6, <2>7, <2>8 DEF IInv
  <1>2. ASSUME IInv, UNCHANGED vars PROVE IInv'
    <2> USE <1>2 DEF vars, head, data, io, locals
    <2>1. Types' /\ QueueOK'
      BY DEF IInv, Types, QueueOK
    <2>2. Control'
      BY DEF IInv, Control, Ctl, InGetblk, Target
    <2>3. Single' /\ Blocks' /\ Named'
      BY DEF IInv, Single, Blocks, Named, InGetblk
    <2>4. Locks'
      BY DEF IInv, Locks, Target
    <2>5. Counts' /\ NoLostWakeup'
      BY DEF IInv, Counts, NoLostWakeup, Unused, Pinning, Holding
    <2>6. Contents'
      BY DEF IInv, Contents, BufOK, ReqOK, ProcOK, Sound, Stored, Buffers
    <2> QED BY <2>1, <2>2, <2>3, <2>4, <2>5, <2>6 DEF IInv
  <1> QED BY <1>1, <1>2

\* The invariant in every reachable state
LEMMA InvHolds == Spec => []IInv
  BY InitInv, StepInv, PTL DEF Spec

\* Types; the request list holds each entry in use once.
THEOREM TypesHold == Spec => []TypeOK
  <1>1. IInv => TypeOK
    BY DEF IInv, Types, QueueOK, TypeOK, Labels, Req
  <1> QED BY <1>1, InvHolds, PTL

\* However the processes that want a block interleave in getblk(), no two
\* buffers hold it.
THEOREM BlocksStayUnique == Spec => []OneBufferPerBlock
  <1>1. ASSUME IInv PROVE OneBufferPerBlock
    <2> SUFFICES ASSUME NEW k \in Block PROVE Cardinality(Buffers(k)) <= 1
      BY DEF OneBufferPerBlock
    <2>1. k # 0 /\ \A b, c \in Buffers(k) : b = c
      BY <1>1, BufferAssumption DEF IInv, Single, Buffers
    <2>2. CASE Buffers(k) = {}
      BY <2>2, FS_EmptySet
    <2>3. CASE Buffers(k) # {}
      <3>1. PICK b : Buffers(k) = {b}
        BY <2>1, <2>3
      <3> QED BY <3>1, FS_Singleton
    <2> QED BY <2>2, <2>3
  <1> QED BY <1>1, InvHolds, PTL

\* b_count is the number of users of a buffer, and they keep their block.
THEOREM UsersHold == Spec => []UsersKeepTheirBlock
  <1>1. IInv => UsersKeepTheirBlock
    BY DEF IInv, Counts, Blocks, UsersKeepTheirBlock
  <1> QED BY <1>1, InvHolds, PTL

\* A locked buffer has one owner, a request or a process that will queue one.
THEOREM LocksAreOwned == Spec => []LockHasOneOwner
  <1>1. ASSUME IInv PROVE LockHasOneOwner
    <2> SUFFICES ASSUME NEW b \in Buf
                 PROVE  Cardinality({s \in Slot : request[s].b = b})
                          + Cardinality({p \in Proc : pc[p] \in Queueing /\ Target(p) = b})
                        = IF b_lock[b] THEN 1 ELSE 0
      BY DEF LockHasOneOwner, Queueing
    <2> DEFINE S == {s \in Slot : request[s].b = b}
               P == {p \in Proc : pc[p] \in Queueing /\ Target(p) = b}
    <2>0. Locks /\ b # 0 /\ \A s \in Slot : request[s].b = b => request[s] # NoReq
      BY <1>1, ReqFacts DEF IInv
    <2>1. CASE S # {}
      <3>1. PICK s \in Slot : S = {s} /\ request[s].b = b
        BY <2>0, <2>1 DEF Locks
      <3>2. P = {} /\ b_lock[b]
        BY <2>0, <3>1 DEF Locks
      <3> HIDE DEF S, P
      <3>3. Cardinality(S) = 1 /\ Cardinality(P) = 0
        BY <3>1, <3>2, FS_Singleton, FS_EmptySet
      <3> QED BY <3>2, <3>3 DEF S, P
    <2>2. CASE S = {} /\ P # {}
      <3>1. PICK p \in Proc : P = {p} /\ pc[p] \in Queueing /\ Target(p) = b
        BY <2>0, <2>2 DEF Locks
      <3>2. b_lock[b]
        BY <2>0, <3>1 DEF Locks
      <3> HIDE DEF S, P
      <3>3. Cardinality(S) = 0 /\ Cardinality(P) = 1
        BY <2>2, <3>1, FS_Singleton, FS_EmptySet
      <3> QED BY <3>2, <3>3 DEF S, P
    <2>3. CASE S = {} /\ P = {}
      <3>1. ~b_lock[b]
        BY <2>0, <2>3 DEF Locks
      <3> HIDE DEF S, P
      <3>2. Cardinality(S) = 0 /\ Cardinality(P) = 0
        BY <2>3, FS_EmptySet
      <3> QED BY <3>1, <3>2 DEF S, P
    <2> QED BY <2>1, <2>2, <2>3
  <1> QED BY <1>1, InvHolds, PTL

\* Nobody sleeps on buffer_wait beside an unused buffer, unless a process that
\* is awake has one to release.
THEOREM SleepersAreWoken == Spec => []NoLostWakeup
  <1>1. IInv => NoLostWakeup
    BY DEF IInv
  <1> QED BY <1>1, InvHolds, PTL

\* A reader of a block of the file system finds what was written last, unless a
\* write of the block has failed.
THEOREM MetaStaysCoherent == Spec => []MetaCoherent
  <1>1. IInv => MetaCoherent
    BY DEF IInv, Contents, BufOK, Sound, Buffers, MetaCoherent, Coherent
  <1> QED BY <1>1, InvHolds, PTL
=============================================================================
