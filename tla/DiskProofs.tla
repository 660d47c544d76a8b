------------------------------ MODULE DiskProofs ------------------------------
(***************************************************************************)
(* Proofs about the drivers of the hard disk and of the floppy drives and  *)
(* about the kernel timers, for any set of requests and drives, any number *)
(* of errors, any length of the timer list and any times.                  *)
(*                                                                         *)
(* HdOutcomeHonest is about the end of a request; what makes it inductive  *)
(* is what holds in the middle of one.  ReqOK says how far a request has   *)
(* come, and that its sector, its count and its buffer pointer moved       *)
(* together; InService, that only CURRENT has moved at all, and that it is *)
(* either the one the drive works for or has failed at least once; DriveOK,*)
(* that the drive's command is the one CURRENT waits for, at the sector    *)
(* CURRENT stands at, and that the armed handler is the one for it.        *)
(*                                                                         *)
(* The times of the timer list count from the entry before, so what        *)
(* add_timer() and a tick do to the sums (Expiry) is shown by induction    *)
(* along the list.  FdReady is about the moment the controller works; what *)
(* makes it inductive is a budget: from the moment do_fd_request() starts  *)
(* a drive, the ticks that its timers, a seek and a transfer may still     *)
(* take (Remaining) are covered by the time its motor has left (RunsOn),   *)
(* even when floppy_change() releases it in between.                       *)
(***************************************************************************)
EXTENDS MCDisks, SequenceTheorems, WellFoundedInduction, TLAPS

ReqType ==
  [state : {"new", "queued", "ok", "failed"}, cmd : {"READ", "WRITE"},
   start : HdSectors \cup {0}, sector : Nat, nr : 0 .. 2, buf : 0 .. 2,
   errors : 0 .. HdMaxErrors]
DataType == SUBSET (Nat \X (0 .. 1))
DriveType == [cmd : {"none", "READ", "WRITE", "SPECIFY", "RESTORE"}, sector : Nat,
              left : 0 .. 2, buf : 0 .. 2]

\* a request c of which the pairs d have been transferred
ReqOK(c, d) ==
  /\ c.sector = c.start + c.buf
  /\ \A t \in d : t[1] = c.start + t[2]
  /\ c.state = "new" => d = {} /\ c.buf = 0 /\ c.nr = 2 /\ c.errors = 0
  /\ c.state = "queued" =>
       /\ c.nr = 2 - c.buf /\ c.buf < 2 /\ c.errors < HdMaxErrors
       /\ c.buf = 1 => \E t \in d : t[2] = 0
  /\ c.state = "ok" => {t[2] : t \in d} = {0, 1}
  /\ c.state = "failed" =>
       \/ c.errors >= HdMaxErrors
       \/ c.start + 2 > HdNrSects
       \/ c.start + 2 = HdNrSects /\ c.buf = 1 /\ c.errors > 0

QueueOK(R, q, queued) ==
  /\ q \in Seq(R) /\ IsInjective(q) /\ Range(q) = queued

Queued == {r \in HdRequests : hdReq[r].state = "queued"}

InService ==
  \A r \in HdRequests : hdReq[r].state = "queued" /\ hdReq[r].buf = 1 =>
    /\ r = Head(hdQueue)
    /\ hdReq[r].errors > 0 \/ hdDrive.cmd = hdReq[r].cmd

Armed(cmd) ==
  IF cmd = "READ" THEN "read_intr" ELSE IF cmd = "WRITE" THEN "write_intr" ELSE "recal_intr"

DriveOK ==
  hdDrive.cmd # "none" =>
    /\ hdPc = "idle" /\ hdQueue # <<>> /\ doHd = Armed(hdDrive.cmd)
    /\ hdDrive.cmd \in {"READ", "WRITE"} =>
         LET c == hdReq[Head(hdQueue)]
         IN /\ hdDrive.cmd = c.cmd /\ hdDrive.sector = c.sector /\ hdDrive.left = c.nr
            /\ c.cmd = "WRITE" => hdDrive.buf = c.buf

Types ==
  /\ hdReq \in [HdRequests -> ReqType]
  /\ doHd \in {"none", "read_intr", "write_intr", "recal_intr"}
  /\ hdReset \in BOOLEAN /\ hdRecal \in BOOLEAN
  /\ hdDrive \in DriveType
  /\ hdData \in [HdRequests -> DataType]
  /\ hdPc \in {"idle", "request", "panic"}

HdInv ==
  /\ Types
  /\ QueueOK(HdRequests, hdQueue, Queued)
  /\ \A r \in HdRequests : ReqOK(hdReq[r], hdData[r])
  /\ InService
  /\ DriveOK

-----------------------------------------------------------------------------
(* The request list *)

\* The head of the list is one of its requests, and only an empty list has none.
LEMMA QueueHead ==
  ASSUME NEW R, NEW q, NEW S, QueueOK(R, q, S)
  PROVE  /\ q # <<>> => Head(q) \in S
         /\ q = <<>> <=> S = {}
         /\ S \subseteq R
<1>1. q \in [1 .. Len(q) -> R] /\ Len(q) \in Nat /\ DOMAIN q = 1 .. Len(q)
  BY LenProperties DEF QueueOK
<1>2. S = {q[i] : i \in 1 .. Len(q)}
  BY <1>1 DEF QueueOK, Range
<1>3. q # <<>> => Len(q) > 0 /\ Head(q) = q[1]
  BY <1>1, EmptySeq DEF QueueOK
<1>4. q # <<>> => Head(q) \in S
  BY <1>1, <1>2, <1>3
<1>5. q = <<>> => S = {}
  BY <1>1, <1>2, EmptySeq
<1>6. S \subseteq R
  BY <1>1, <1>2
<1> QED
  BY <1>4, <1>5, <1>6

\* end_request() takes CURRENT off the list and leaves the others on it.
LEMMA QueueTail ==
  ASSUME NEW R, NEW q, NEW S, QueueOK(R, q, S), q # <<>>
  PROVE  QueueOK(R, Tail(q), S \ {Head(q)})
<1>1. q \in [1 .. Len(q) -> R] /\ Len(q) \in Nat /\ DOMAIN q = 1 .. Len(q)
  BY LenProperties DEF QueueOK
<1>2. S = {q[i] : i \in 1 .. Len(q)}
  BY <1>1 DEF QueueOK, Range
<1>3. Len(q) > 0 /\ Head(q) = q[1]
  BY <1>1, EmptySeq DEF QueueOK
<1> DEFINE t == Tail(q)
<1>4. /\ t \in Seq(R) /\ Len(t) = Len(q) - 1
      /\ \A i \in 1 .. Len(t) : t[i] = q[i + 1]
  BY HeadTailProperties DEF QueueOK
<1>5. DOMAIN t = 1 .. Len(t)
  BY <1>4, LenProperties
<1> HIDE DEF t
<1>6. \A i, j \in 1 .. Len(q) : q[i] = q[j] => i = j
  BY <1>1 DEF QueueOK, IsInjective
<1>7. IsInjective(t)
  <2>1. ASSUME NEW i \in 1 .. Len(t), NEW j \in 1 .. Len(t), t[i] = t[j] PROVE i = j
    <3>1. i + 1 \in 1 .. Len(q) /\ j + 1 \in 1 .. Len(q)
      BY <1>1, <1>4
    <3>2. q[i + 1] = q[j + 1]
      BY <2>1, <1>4
    <3>3. i + 1 = j + 1
      BY <3>1, <3>2, <1>6
    <3> QED
      BY <3>3
  <2> QED
    BY <2>1, <1>5 DEF IsInjective
<1>8. Range(t) = {t[i] : i \in 1 .. Len(t)}
  BY <1>5 DEF Range
<1>9. ASSUME NEW x \in S, x # Head(q) PROVE x \in Range(t)
  <2>1. PICK i \in 1 .. Len(q) : x = q[i]
    BY <1>2
  <2>2. i # 1
    BY <2>1, <1>3, <1>9
  <2>3. i - 1 \in 1 .. Len(t) /\ (i - 1) + 1 = i
    BY <2>2, <1>4, <1>1
  <2>4. t[i - 1] = x
    BY <2>1, <2>3, <1>4
  <2> QED
    BY <2>3, <2>4, <1>8
<1>10. ASSUME NEW x \in Range(t) PROVE x \in S /\ x # Head(q)
  <2>1. PICK i \in 1 .. Len(t) : x = t[i]
    BY <1>8
  <2>2. i + 1 \in 1 .. Len(q) /\ i + 1 # 1 /\ 1 \in 1 .. Len(q) /\ x = q[i + 1]
    BY <2>1, <1>4, <1>1
  <2>3. x # q[1]
    BY <2>2, <1>6
  <2> QED
    BY <2>2, <2>3, <1>2, <1>3
<1>11. Range(t) = S \ {Head(q)}
  BY <1>9, <1>10
<1> QED
  BY <1>4, <1>7, <1>11 DEF QueueOK, t

\* add_request() on an empty list.
LEMMA QueueFirst ==
  ASSUME NEW R, NEW r \in R
  PROVE  QueueOK(R, <<r>>, {r}) /\ Head(<<r>>) = r /\ <<r>> # <<>>
BY DEF QueueOK, IsInjective, Range

\* InsertAt() moves what is behind the place by one.
LEMMA Inserted ==
  ASSUME NEW R, NEW q \in Seq(R), NEW r \in R, NEW i \in 1 .. Len(q) + 1
  PROVE  /\ InsertAt(q, i, r) \in Seq(R) /\ Len(InsertAt(q, i, r)) = Len(q) + 1
         /\ \A j \in 1 .. Len(q) + 1 :
              InsertAt(q, i, r)[j] = IF j < i THEN q[j] ELSE IF j = i THEN r ELSE q[j - 1]
<1>1. q \in [1 .. Len(q) -> R] /\ Len(q) \in Nat /\ DOMAIN q = 1 .. Len(q)
  BY LenProperties
<1> DEFINE a == SubSeq(q, 1, i - 1)
           b == SubSeq(q, i, Len(q))
           n == (a \o <<r>>) \o b
<1>5. /\ a \in Seq(R) /\ Len(a) = i - 1
      /\ \A j \in 1 .. i - 1 : a[j] = q[j]
  <2>1. i - 1 \in Int /\ i - 1 >= 0 /\ (i - 1) - 1 + 1 = i - 1
    BY <1>1
  <2>2. \A j \in 1 .. i - 1 : q[j] \in R
    BY <1>1
  <2>3. /\ a \in Seq(R) /\ Len(a) = IF 1 <= i - 1 THEN (i - 1) - 1 + 1 ELSE 0
        /\ \A j \in 1 .. (i - 1) - 1 + 1 : a[j] = q[1 + j - 1]
    BY <2>1, <2>2, SubSeqProperties, SMTT(30)
  <2> QED
    BY <2>1, <2>3
<1>6. /\ b \in Seq(R) /\ Len(b) = Len(q) - i + 1
      /\ \A j \in 1 .. Len(q) - i + 1 : b[j] = q[i + j - 1]
  <2>1. i \in Int /\ Len(q) \in Int
    BY <1>1
  <2>2. \A j \in i .. Len(q) : q[j] \in R
    BY <1>1
  <2>3. /\ b \in Seq(R) /\ Len(b) = IF i <= Len(q) THEN Len(q) - i + 1 ELSE 0
        /\ \A j \in 1 .. Len(q) - i + 1 : b[j] = q[i + j - 1]
    BY <2>1, <2>2, SubSeqProperties, SMTT(30)
  <2> QED
    BY <2>1, <2>3, <1>1
<1> HIDE DEF a, b
<1>7. /\ n \in Seq(R) /\ Len(n) = Len(q) + 1
      /\ \A j \in 1 .. Len(q) + 1 :
           n[j] = IF j < i THEN q[j] ELSE IF j = i THEN r ELSE q[j - 1]
  <2>1. <<r>> \in Seq(R) /\ Len(<<r>>) = 1 /\ <<r>>[1] = r
    OBVIOUS
  <2>2. PICK ar : ar = a \o <<r>>
    OBVIOUS
  <2>3. /\ ar \in Seq(R) /\ Len(ar) = i
        /\ \A j \in 1 .. i : ar[j] = IF j < i THEN q[j] ELSE r
    <3>1. /\ ar \in Seq(R) /\ Len(ar) = Len(a) + 1
          /\ \A j \in 1 .. Len(a) + 1 : ar[j] = IF j <= Len(a) THEN a[j] ELSE <<r>>[j - Len(a)]
      BY <2>1, <2>2, <1>5, ConcatProperties, SMTT(30)
    <3>2. Len(a) + 1 = i
      BY <1>5
    <3>3. ASSUME NEW j \in 1 .. i PROVE ar[j] = IF j < i THEN q[j] ELSE r
      <4>1. CASE j < i
        BY <4>1, <3>1, <3>2, <1>5
      <4>2. CASE j = i
        <5>1. j - Len(a) = 1 /\ ~(j <= Len(a)) /\ j \in 1 .. Len(a) + 1
          BY <4>2, <3>2, <1>5
        <5>2. ar[j] = <<r>>[1]
          BY <5>1, <3>1
        <5> QED
          BY <5>2, <2>1, <4>2
      <4> QED
        BY <4>1, <4>2
    <3> QED
      BY <3>1, <3>2, <3>3
  <2>4. /\ n \in Seq(R) /\ Len(n) = Len(ar) + Len(b)
        /\ \A j \in 1 .. Len(ar) + Len(b) :
             n[j] = IF j <= Len(ar) THEN ar[j] ELSE b[j - Len(ar)]
    <3>1. /\ ar \o b \in Seq(R) /\ Len(ar \o b) = Len(ar) + Len(b)
          /\ \A j \in 1 .. Len(ar) + Len(b) :
               (ar \o b)[j] = IF j <= Len(ar) THEN ar[j] ELSE b[j - Len(ar)]
      BY <2>3, <1>6, ConcatProperties
    <3>2. n = ar \o b
      BY <2>2
    <3> HIDE DEF n
    <3> QED
      BY <3>1, <3>2
  <2>5. Len(ar) + Len(b) = Len(q) + 1
    BY <2>3, <1>6, <1>1
  <2>6. ASSUME NEW j \in 1 .. Len(q) + 1, j > i PROVE b[j - i] = q[j - 1]
    <3>1. j - i \in 1 .. Len(q) - i + 1 /\ i + (j - i) - 1 = j - 1
      BY <2>6, <1>1
    <3> QED
      BY <3>1, <1>6
  <2> HIDE DEF n
  <2>7. ASSUME NEW j \in 1 .. Len(q) + 1
        PROVE  n[j] = IF j < i THEN q[j] ELSE IF j = i THEN r ELSE q[j - 1]
    <3>1. CASE j <= i
      BY <3>1, <2>3, <2>4, <2>5
    <3>2. CASE j > i
      <4>1. j \in 1 .. Len(ar) + Len(b) /\ ~(j <= Len(ar)) /\ Len(ar) = i
        BY <3>2, <2>3, <2>5, <1>1
      <4>2. n[j] = b[j - i]
        BY <4>1, <2>4
      <4> QED
        BY <4>2, <3>2, <2>6
    <3> QED
      BY <3>1, <3>2, <1>1
  <2> QED
    BY <2>4, <2>5, <2>7
<1>8. InsertAt(q, i, r) = n
  BY DEF InsertAt, a, b
<1> QED
  BY <1>7, <1>8

\* add_request() behind CURRENT: the list gains one request and keeps its head.
LEMMA QueueInsert ==
  ASSUME NEW R, NEW q, NEW S, QueueOK(R, q, S), q # <<>>,
         NEW r \in R, r \notin S, NEW i \in 2 .. Len(q) + 1
  PROVE  /\ QueueOK(R, InsertAt(q, i, r), S \cup {r})
         /\ Head(InsertAt(q, i, r)) = Head(q)
         /\ InsertAt(q, i, r) # <<>>
<1>1. q \in [1 .. Len(q) -> R] /\ Len(q) \in Nat /\ DOMAIN q = 1 .. Len(q)
  BY LenProperties DEF QueueOK
<1>2. S = {q[j] : j \in 1 .. Len(q)}
  BY <1>1 DEF QueueOK, Range
<1>3. Len(q) > 0 /\ Head(q) = q[1]
  BY <1>1, EmptySeq DEF QueueOK
<1>4. \A j, k \in 1 .. Len(q) : q[j] = q[k] => j = k
  BY <1>1 DEF QueueOK, IsInjective
<1> DEFINE n == InsertAt(q, i, r)
<1>7. /\ n \in Seq(R) /\ Len(n) = Len(q) + 1
      /\ \A j \in 1 .. Len(q) + 1 :
           n[j] = IF j < i THEN q[j] ELSE IF j = i THEN r ELSE q[j - 1]
  <2>1. q \in Seq(R) /\ i \in 1 .. Len(q) + 1
    BY <1>1 DEF QueueOK
  <2> QED
    BY <2>1, Inserted
<1> HIDE DEF n
<1>9. DOMAIN n = 1 .. Len(n)
  BY <1>7, LenProperties
<1>10. ASSUME NEW j \in 1 .. Len(q) + 1
       PROVE  n[j] \in S \cup {r} /\ (n[j] = r => j = i)
  <2>1. CASE j < i
    <3>1. j \in 1 .. Len(q) /\ n[j] = q[j]
      BY <2>1, <1>7, <1>1
    <3> QED
      BY <3>1, <2>1, <1>2
  <2>2. CASE j = i
    BY <2>2, <1>7
  <2>3. CASE j > i
    <3>1. j - 1 \in 1 .. Len(q)
      BY <2>3, <1>1
    <3> QED
      BY <3>1, <2>3, <1>7, <1>2
  <2> QED
    BY <2>1, <2>2, <2>3, <1>1
<1>11. IsInjective(n)
  <2>1. ASSUME NEW j \in 1 .. Len(n), NEW k \in 1 .. Len(n), n[j] = n[k] PROVE j = k
    <3>1. CASE j = i \/ k = i
      <4>1. j \in 1 .. Len(q) + 1 /\ k \in 1 .. Len(q) + 1
        BY <1>7
      <4>2. n[i] = r
        BY <1>7, <1>1
      <4>3. CASE j = i
        BY <4>1, <4>2, <4>3, <2>1, <1>10
      <4>4. CASE k = i
        BY <4>1, <4>2, <4>4, <2>1, <1>10
      <4> QED
        BY <3>1, <4>3, <4>4
    <3>2. CASE j # i /\ k # i
      <4> DEFINE Old(m) == IF m < i THEN m ELSE m - 1
      <4>1. Old(j) \in 1 .. Len(q) /\ Old(k) \in 1 .. Len(q)
        BY <3>2, <1>7, <1>1
      <4>2. n[j] = q[Old(j)] /\ n[k] = q[Old(k)]
        BY <3>2, <1>7, <1>1
      <4>3. Old(j) = Old(k)
        <5> HIDE DEF Old
        <5> QED
          BY <4>1, <4>2, <2>1, <1>4
      <4> QED
        BY <4>3, <3>2, <1>7, <1>1
    <3> QED
      BY <3>1, <3>2
  <2> QED
    BY <2>1, <1>9 DEF IsInjective
<1>12. Range(n) = {n[j] : j \in 1 .. Len(n)}
  BY <1>9 DEF Range
<1>13. ASSUME NEW x \in S PROVE x \in Range(n)
  <2>1. PICK j \in 1 .. Len(q) : x = q[j]
    BY <1>2
  <2>2. CASE j < i
    <3>1. j \in 1 .. Len(n) /\ n[j] = x
      BY <2>1, <2>2, <1>7, <1>1
    <3> QED
      BY <3>1, <1>12
  <2>3. CASE j >= i
    <3>1. j + 1 \in 1 .. Len(n) /\ j + 1 > i /\ (j + 1) - 1 = j
      BY <2>3, <1>7, <1>1
    <3>2. n[j + 1] = x
      BY <3>1, <2>1, <1>7
    <3> QED
      BY <3>1, <3>2, <1>12
  <2> QED
    BY <2>2, <2>3, <1>1
<1>14. r \in Range(n)
  <2>1. i \in 1 .. Len(n) /\ n[i] = r
    BY <1>7, <1>1
  <2> QED
    BY <2>1, <1>12
<1>15. Range(n) = S \cup {r}
  BY <1>7, <1>10, <1>12, <1>13, <1>14
<1>16. n # <<>> /\ Head(n) = Head(q)
  <2>1. Len(n) > 0 /\ n[1] = q[1]
    BY <1>7, <1>1, <1>3
  <2>2. n # <<>>
    BY <2>1, EmptySeq
  <2> QED
    BY <2>1, <2>2, <1>7, <1>3
<1> QED
  BY <1>7, <1>11, <1>15, <1>16 DEF QueueOK, n

-----------------------------------------------------------------------------
(* One request *)

\* What the fields of a request are.
LEMMA ReqFields ==
  ASSUME NEW c \in ReqType
  PROVE  /\ c.start \in Nat /\ c.sector \in Nat /\ c.nr \in 0 .. 2 /\ c.buf \in 0 .. 2
         /\ c.errors \in 0 .. HdMaxErrors /\ HdMaxErrors \in Nat \ {0} /\ HdNrSects \in Nat
<1>1. c.start \in HdSectors \cup {0}
  BY DEF ReqType
<1>2. c.start \in Nat
  <2>1. \A x \in HdSectors : x \in Nat
    BY HdAssumption, Zenon
  <2> QED
    BY <1>1, <2>1
<1> QED
  BY <1>2, HdAssumption DEF ReqType

\* A request that do_hd_request() finds outside the partition.
LEMMA RefusedReq ==
  ASSUME NEW c \in ReqType, NEW d \in DataType, ReqOK(c, d), c.state = "queued",
         c.sector + 2 > HdNrSects, c.buf = 1 => c.errors > 0
  PROVE  /\ [c EXCEPT !.state = "failed"] \in ReqType
         /\ [c EXCEPT !.state = "failed"].state = "failed"
         /\ ReqOK([c EXCEPT !.state = "failed"], d)
<1>1. PICK f : f = [c EXCEPT !.state = "failed"]
  OBVIOUS
<1>2. /\ f \in ReqType /\ f.state = "failed" /\ f.start = c.start /\ f.sector = c.sector
      /\ f.buf = c.buf /\ f.errors = c.errors
  BY <1>1 DEF ReqType
<1>3. c.buf \in {0, 1} /\ c.sector = c.start + c.buf /\ c.start \in Nat
  BY ReqFields DEF ReqOK
<1>4. \/ c.start + 2 > HdNrSects
      \/ c.start + 2 = HdNrSects /\ c.buf = 1 /\ c.errors > 0
  BY <1>3, HdAssumption
<1>5. ReqOK(f, d)
  BY <1>2, <1>4 DEF ReqOK
<1> QED
  BY <1>1, <1>2, <1>5

Erred(c, s) == [c EXCEPT !.errors = c.errors + 1, !.state = s]

\* bad_rw_intr() counts an error, and gives up at MAX_ERRORS.
LEMMA BadReq ==
  ASSUME NEW c \in ReqType, NEW d \in DataType, ReqOK(c, d), c.state = "queued",
         NEW s \in {"failed", "queued"}, s = "failed" <=> GivesUp(c.errors + 1),
         NEW f, f = Erred(c, s)
  PROVE  /\ f \in ReqType /\ ReqOK(f, d)
         /\ f.state = s /\ f.errors > 0 /\ f.buf = c.buf
<1>1. c.errors \in 0 .. HdMaxErrors /\ c.errors < HdMaxErrors /\ c.errors + 1 \in 0 .. HdMaxErrors
  BY HdAssumption DEF ReqType, ReqOK
<1>2. /\ f \in ReqType /\ f.state = s /\ f.start = c.start /\ f.sector = c.sector
      /\ f.buf = c.buf /\ f.errors = c.errors + 1 /\ f.nr = c.nr
  BY <1>1 DEF ReqType, Erred
<1>3. s = "failed" => f.errors >= HdMaxErrors
  BY <1>2 DEF GivesUp
<1>4. s = "queued" => f.errors < HdMaxErrors
  BY <1>1, <1>2, HdAssumption DEF GivesUp
<1>5. ReqOK(f, d)
  BY <1>2, <1>3, <1>4 DEF ReqOK
<1> QED
  BY <1>1, <1>2, <1>5

\* What the driver's globals say after a sector.
LEMMA NextFields ==
  ASSUME NEW st, NEW cm, NEW b, NEW s, NEW n, NEW u, NEW e
  PROVE  NextSector([state |-> st, cmd |-> cm, start |-> b, sector |-> s, nr |-> n,
                     buf |-> u, errors |-> e])
         = [state |-> st, cmd |-> cm, start |-> b, sector |-> s + 1, nr |-> n - 1,
            buf |-> u + 1, errors |-> e]
<1>1. PICK r : r = [state |-> st, cmd |-> cm, start |-> b, sector |-> s, nr |-> n,
                    buf |-> u, errors |-> e]
  OBVIOUS
<1>2. r \in [state : {st}, cmd : {cm}, start : {b}, sector : {s}, nr : {n}, buf : {u}, errors : {e}]
  BY <1>1
<1>3. PICK g : g = NextSector(r)
  OBVIOUS
<1>4. g \in [state : {st}, cmd : {cm}, start : {b}, sector : {s + 1}, nr : {n - 1},
             buf : {u + 1}, errors : {e}]
  BY <1>2, <1>3 DEF NextSector
<1>5. g = [state |-> st, cmd |-> cm, start |-> b, sector |-> s + 1, nr |-> n - 1,
           buf |-> u + 1, errors |-> e]
  BY <1>4
<1> QED
  BY <1>1, <1>3, <1>5

\* A sector of a request arrives; it is not the last one.
LEMMA NextReq ==
  ASSUME NEW c \in ReqType, NEW d \in DataType, ReqOK(c, d), c.state = "queued",
         c.nr > 1, NEW e \in {0, c.errors},
         NEW f, f = [state |-> c.state, cmd |-> c.cmd, start |-> c.start,
                     sector |-> c.sector + 1, nr |-> c.nr - 1, buf |-> c.buf + 1, errors |-> e]
  PROVE  /\ f \in ReqType /\ f.state = "queued"
         /\ d \cup {<<c.sector, c.buf>>} \in DataType
         /\ ReqOK(f, d \cup {<<c.sector, c.buf>>})
<1>1. c.nr = 2 /\ c.buf = 0 /\ c.sector = c.start /\ c.errors < HdMaxErrors
  BY ReqFields DEF ReqOK
<1>2. c.start \in Nat /\ c.sector \in Nat
  BY ReqFields
<1>3. e \in 0 .. HdMaxErrors /\ e < HdMaxErrors
  BY <1>1, HdAssumption DEF ReqType
<1>4. f \in ReqType
  BY <1>1, <1>2, <1>3 DEF ReqType
<1> DEFINE n == d \cup {<<c.sector, c.buf>>}
<1>5. n \in DataType
  BY <1>1, <1>2 DEF DataType
<1>6. \A t \in n : t[1] = c.start + t[2]
  BY <1>1, <1>2 DEF ReqOK
<1>7. \E t \in n : t[2] = 0
  <2>1. <<c.sector, c.buf>> \in n /\ <<c.sector, c.buf>>[2] = 0
    BY <1>1
  <2> QED
    BY <2>1
<1> HIDE DEF n
<1>8. ReqOK(f, n)
  BY <1>1, <1>2, <1>3, <1>6, <1>7 DEF ReqOK
<1> QED
  BY <1>4, <1>5, <1>8 DEF n

\* The last sector of a request arrives: both are there.
LEMMA LastReq ==
  ASSUME NEW c \in ReqType, NEW d \in DataType, ReqOK(c, d), c.state = "queued",
         c.nr = 1, NEW f \in ReqType, f.state = "ok", f.start = c.start,
         f.sector = f.start + f.buf
  PROVE  /\ d \cup {<<c.sector, c.buf>>} \in DataType
         /\ ReqOK(f, d \cup {<<c.sector, c.buf>>})
<1>1. c.buf = 1 /\ c.sector = c.start + 1 /\ \E t \in d : t[2] = 0
  BY DEF ReqOK, ReqType
<1>2. c.start \in Nat /\ c.sector \in Nat
  BY ReqFields
<1> DEFINE n == d \cup {<<c.sector, c.buf>>}
<1>3. n \in DataType
  BY <1>1, <1>2 DEF DataType
<1>4. \A t \in n : t[1] = c.start + t[2]
  BY <1>1, <1>2 DEF ReqOK
<1>5. <<c.sector, c.buf>> \in n /\ <<c.sector, c.buf>>[2] = 1
  BY <1>1
<1>6. \E t \in n : t[2] = 0
  BY <1>1
<1>7. \A t \in n : t[2] \in {0, 1}
  BY <1>3 DEF DataType
<1> HIDE DEF n
<1>8. {t[2] : t \in n} = {0, 1}
  BY <1>5, <1>6, <1>7
<1>9. ReqOK(f, n)
  BY <1>4, <1>8 DEF ReqOK
<1> QED
  BY <1>3, <1>9 DEF n

\* One request changes, with what was transferred of it: the others stay as they are.
LEMMA OneReq ==
  ASSUME HdInv, NEW h \in HdRequests, NEW f \in ReqType, NEW d \in DataType, ReqOK(f, d),
         hdReq' = [hdReq EXCEPT ![h] = f], hdData' = [hdData EXCEPT ![h] = d]
  PROVE  /\ hdReq' \in [HdRequests -> ReqType] /\ hdData' \in [HdRequests -> DataType]
         /\ hdReq'[h] = f /\ hdData'[h] = d
         /\ \A r \in HdRequests : r # h => hdReq'[r] = hdReq[r] /\ hdData'[r] = hdData[r]
         /\ \A r \in HdRequests : ReqOK(hdReq[r], hdData[r])'
         /\ f.state = "queued" => Queued' = Queued \cup {h}
         /\ f.state # "queued" => Queued' = Queued \ {h}
<1>1. hdReq \in [HdRequests -> ReqType] /\ hdData \in [HdRequests -> DataType]
  BY DEF HdInv, Types
<1>2. /\ hdReq' \in [HdRequests -> ReqType] /\ hdData' \in [HdRequests -> DataType]
      /\ hdReq'[h] = f /\ hdData'[h] = d
      /\ \A r \in HdRequests : r # h => hdReq'[r] = hdReq[r] /\ hdData'[r] = hdData[r]
  BY <1>1
<1>3. ASSUME NEW r \in HdRequests PROVE ReqOK(hdReq'[r], hdData'[r])
  <2>1. ReqOK(hdReq[r], hdData[r])
    BY DEF HdInv
  <2> QED
    BY <2>1, <1>2
<1>4. f.state = "queued" => Queued' = Queued \cup {h}
  BY <1>2 DEF Queued
<1>5. f.state # "queued" => Queued' = Queued \ {h}
  BY <1>2 DEF Queued
<1> QED
  BY <1>2, <1>3, <1>4, <1>5

-----------------------------------------------------------------------------
(* The steps *)

\* CURRENT, when there is one, is queued and well formed.
LEMMA CurrentReq ==
  ASSUME HdInv, hdQueue # <<>>
  PROVE  /\ CURRENT \in HdRequests /\ CURRENT \in Queued
         /\ hdReq[CURRENT] \in ReqType /\ hdData[CURRENT] \in DataType
         /\ hdReq[CURRENT].state = "queued" /\ ReqOK(hdReq[CURRENT], hdData[CURRENT])
<1>1. Head(hdQueue) \in Queued /\ Queued \subseteq HdRequests
  BY QueueHead DEF HdInv
<1> QED
  BY <1>1 DEF HdInv, Types, Queued, CURRENT

\* CURRENT leaves the list with an outcome, and the drive has nothing to do.
LEMMA EndStep ==
  ASSUME HdInv, hdQueue # <<>>, NEW f \in ReqType, NEW d \in DataType, ReqOK(f, d),
         f.state \in {"ok", "failed"},
         hdReq' = [hdReq EXCEPT ![CURRENT] = f], hdData' = [hdData EXCEPT ![CURRENT] = d],
         hdQueue' = Tail(hdQueue), hdDrive' = DriveIdle \/ UNCHANGED hdDrive,
         hdDrive'.cmd = "none",
         doHd' \in {"none", "read_intr", "write_intr", "recal_intr"},
         hdReset' \in BOOLEAN /\ hdRecal' \in BOOLEAN, hdPc' \in {"idle", "request", "panic"}
  PROVE  HdInv'
<1>1. CURRENT \in HdRequests
  BY CurrentReq
<1>2. /\ hdReq' \in [HdRequests -> ReqType] /\ hdData' \in [HdRequests -> DataType]
      /\ hdReq'[CURRENT] = f
      /\ \A r \in HdRequests : r # CURRENT => hdReq'[r] = hdReq[r]
      /\ \A r \in HdRequests : ReqOK(hdReq[r], hdData[r])'
      /\ Queued' = Queued \ {CURRENT}
  BY <1>1, OneReq
<1>3. QueueOK(HdRequests, hdQueue', Queued')
  BY <1>2, QueueTail DEF HdInv, CURRENT
<1>4. InService'
  <2>1. ASSUME NEW r \in HdRequests, hdReq'[r].state = "queued", hdReq'[r].buf = 1 PROVE FALSE
    <3>1. r # CURRENT /\ hdReq'[r] = hdReq[r]
      BY <2>1, <1>2
    <3> QED
      BY <3>1, <2>1 DEF HdInv, InService, CURRENT
  <2> QED
    BY <2>1 DEF InService
<1>5. hdDrive' \in DriveType
  BY DEF HdInv, Types, DriveType, DriveIdle
<1>6. Types'
  BY <1>2, <1>5 DEF Types
<1>7. DriveOK'
  BY DEF DriveOK
<1> QED
  BY <1>2, <1>3, <1>4, <1>6, <1>7 DEF HdInv

\* bad_rw_intr(), when the drive is then idle.
LEMMA BadStep ==
  ASSUME HdInv, hdQueue # <<>>, BadRwIntr, hdDrive' = DriveIdle,
         UNCHANGED <<hdRecal, hdData>>,
         doHd' \in {"none", "read_intr", "write_intr", "recal_intr"},
         hdPc' \in {"idle", "request", "panic"}
  PROVE  HdInv'
<1> DEFINE c == hdReq[CURRENT]
<1>1. /\ CURRENT \in HdRequests /\ c \in ReqType /\ hdData[CURRENT] \in DataType
      /\ c.state = "queued" /\ ReqOK(c, hdData[CURRENT])
  BY CurrentReq
<1>2. hdReq \in [HdRequests -> ReqType] /\ hdData \in [HdRequests -> DataType]
  BY DEF HdInv, Types
<1>3. hdData' = [hdData EXCEPT ![CURRENT] = hdData[CURRENT]]
  BY <1>1, <1>2
<1>4. hdReset' \in BOOLEAN /\ hdRecal' \in BOOLEAN
  BY DEF BadRwIntr, HdInv, Types
<1>5. hdDrive'.cmd = "none" /\ hdDrive' \in DriveType
  BY DEF DriveIdle, DriveType
<1>6. CASE GivesUp(c.errors + 1)
  <2>1. PICK f : f = Erred(c, "failed")
    OBVIOUS
  <2>2. f \in ReqType /\ ReqOK(f, hdData[CURRENT]) /\ f.state = "failed"
    <3> HIDE DEF c
    <3>1. "failed" \in {"failed", "queued"} /\ ("failed" = "failed" <=> GivesUp(c.errors + 1))
      BY <1>6
    <3> QED
      BY <1>1, <2>1, <3>1, BadReq
  <2>3. hdReq' = [hdReq EXCEPT ![CURRENT] = f] /\ hdQueue' = Tail(hdQueue)
    BY <1>1, <1>2, <1>6, <2>1 DEF BadRwIntr, HdEnd, Erred
  <2> QED
    BY <1>1, <1>3, <1>4, <1>5, <2>2, <2>3, EndStep
<1>7. CASE ~GivesUp(c.errors + 1)
  <2>1. PICK f : f = Erred(c, "queued")
    OBVIOUS
  <2>2. f \in ReqType /\ ReqOK(f, hdData[CURRENT]) /\ f.state = "queued" /\ f.errors > 0
    <3> HIDE DEF c
    <3>1. "queued" \in {"failed", "queued"} /\ ("queued" = "failed" <=> GivesUp(c.errors + 1))
      BY <1>7
    <3> QED
      BY <1>1, <2>1, <3>1, BadReq
  <2>3. f = [c EXCEPT !.errors = c.errors + 1]
    BY <1>1, <2>1 DEF ReqType, Erred
  <2>4. hdReq' = [hdReq EXCEPT ![CURRENT] = f] /\ hdQueue' = hdQueue
    BY <1>1, <1>2, <1>7, <2>3 DEF BadRwIntr
  <2>5. /\ hdReq' \in [HdRequests -> ReqType] /\ hdData' \in [HdRequests -> DataType]
        /\ hdReq'[CURRENT] = f
        /\ \A r \in HdRequests : r # CURRENT => hdReq'[r] = hdReq[r]
        /\ \A r \in HdRequests : ReqOK(hdReq[r], hdData[r])'
        /\ Queued' = Queued \cup {CURRENT}
    BY <1>1, <1>3, <2>2, <2>4, OneReq
  <2>6. Queued' = Queued
    BY <2>5, CurrentReq
  <2>7. InService'
    <3>1. ASSUME NEW r \in HdRequests, hdReq'[r].state = "queued", hdReq'[r].buf = 1
          PROVE  r = Head(hdQueue') /\ hdReq'[r].errors > 0
      <4>1. CASE r = CURRENT
        BY <4>1, <2>2, <2>4, <2>5 DEF CURRENT
      <4>2. CASE r # CURRENT
        BY <4>2, <3>1, <2>5 DEF HdInv, InService, CURRENT
      <4> QED
        BY <4>1, <4>2
    <3> QED
      BY <3>1 DEF InService
  <2> QED
    BY <1>4, <1>5, <2>4, <2>5, <2>6, <2>7 DEF HdInv, Types, DriveOK
<1> QED
  BY <1>6, <1>7

\* add_request()
LEMMA AddStep ==
  ASSUME HdInv, NEW r \in HdRequests, NEW cmd \in {"READ", "WRITE"}, NEW s \in HdSectors,
         HdAddRequest(r, cmd, s)
  PROVE  HdInv'
<1> DEFINE c == hdReq[r]
           f == [c EXCEPT !.state = "queued", !.cmd = cmd, !.start = s, !.sector = s]
<1>1. /\ c \in ReqType /\ hdData[r] \in DataType /\ c.state = "new" /\ ReqOK(c, hdData[r])
      /\ hdReq \in [HdRequests -> ReqType] /\ hdData \in [HdRequests -> DataType]
  BY DEF HdInv, Types, HdAddRequest
<1>2. s \in Nat /\ s + 0 = s
  <2>1. \A x \in HdSectors : x \in Nat
    BY HdAssumption, Zenon
  <2> QED
    BY <2>1
<1>3. /\ f \in ReqType /\ f.state = "queued" /\ f.start = s /\ f.sector = s
      /\ f.nr = c.nr /\ f.buf = c.buf /\ f.errors = c.errors
  BY <1>1, <1>2 DEF ReqType
<1>4. hdData[r] = {} /\ c.buf = 0 /\ c.nr = 2 /\ c.errors = 0
  BY <1>1 DEF ReqOK
<1>5. hdReq' = [hdReq EXCEPT ![r] = f]
  BY <1>1 DEF HdAddRequest
<1> HIDE DEF f
<1>6. ReqOK(f, hdData[r])
  <2>1. HdMaxErrors > 0
    BY HdAssumption
  <2> QED
    BY <1>2, <1>3, <1>4, <2>1 DEF ReqOK
<1>7. hdData' = [hdData EXCEPT ![r] = hdData[r]]
  BY <1>1 DEF HdAddRequest
<1>8. /\ hdReq' \in [HdRequests -> ReqType] /\ hdData' \in [HdRequests -> DataType]
      /\ hdReq'[r] = f
      /\ \A x \in HdRequests : x # r => hdReq'[x] = hdReq[x]
      /\ \A x \in HdRequests : ReqOK(hdReq[x], hdData[x])'
      /\ Queued' = Queued \cup {r}
  BY <1>1, <1>3, <1>5, <1>6, <1>7, OneReq
<1>9. r \notin Queued /\ QueueOK(HdRequests, hdQueue, Queued)
  BY <1>1 DEF Queued, HdInv
<1>10. /\ QueueOK(HdRequests, hdQueue', Queued') /\ hdQueue' # <<>>
       /\ hdQueue # <<>> => Head(hdQueue') = Head(hdQueue) /\ hdPc' = hdPc
       /\ hdPc' \in {"idle", "request", "panic"}
  <2>1. CASE hdQueue = <<>>
    <3>1. hdQueue' = <<r>> /\ hdPc' = "request"
      BY <2>1 DEF HdAddRequest
    <3>2. Queued' = {r}
      BY <2>1, <1>8, <1>9, QueueHead
    <3> QED
      BY <2>1, <3>1, <3>2, QueueFirst
  <2>2. CASE hdQueue # <<>>
    <3>1. PICK i \in 2 .. Len(hdQueue) + 1 : hdQueue' = InsertAt(hdQueue, i, r)
      BY <2>2 DEF HdAddRequest
    <3>2. hdPc' = hdPc /\ hdPc = "idle"
      BY <2>2 DEF HdAddRequest
    <3> QED
      BY <2>2, <3>1, <3>2, <1>8, <1>9, QueueInsert
  <2> QED
    BY <2>1, <2>2
<1>11. UNCHANGED <<doHd, hdReset, hdRecal, hdDrive>>
  BY DEF HdAddRequest
<1>12. Types'
  BY <1>8, <1>10, <1>11 DEF HdInv, Types
<1>13. hdQueue # <<>> => Head(hdQueue) \in HdRequests /\ Head(hdQueue) # r
  BY <1>9, QueueHead
<1>14. InService'
  <2>1. ASSUME NEW x \in HdRequests, hdReq'[x].state = "queued", hdReq'[x].buf = 1
        PROVE  /\ x = Head(hdQueue')
               /\ hdReq'[x].errors > 0 \/ hdDrive'.cmd = hdReq'[x].cmd
    <3>1. x # r
      BY <2>1, <1>3, <1>4, <1>8
    <3>2. hdReq'[x] = hdReq[x] /\ x \in Queued
      BY <3>1, <2>1, <1>8 DEF Queued
    <3>3. hdQueue # <<>>
      BY <3>2, <1>9, QueueHead
    <3> QED
      BY <2>1, <3>2, <3>3, <1>10, <1>11 DEF HdInv, InService
  <2> QED
    BY <2>1 DEF InService
<1>15. DriveOK'
  <2>1. SUFFICES ASSUME hdDrive'.cmd # "none" PROVE DriveOK'
    BY DEF DriveOK
  <2>2. hdQueue # <<>> /\ hdPc = "idle" /\ doHd = Armed(hdDrive.cmd)
    BY <2>1, <1>11 DEF HdInv, DriveOK
  <2>3. hdReq'[Head(hdQueue')] = hdReq[Head(hdQueue)]
    BY <2>2, <1>8, <1>10, <1>13
  <2> QED
    BY <2>1, <2>2, <2>3, <1>10, <1>11 DEF HdInv, DriveOK
<1> QED
  BY <1>8, <1>10, <1>12, <1>14, <1>15 DEF HdInv

\* While do_hd_request() has to run, the drive has no command.
LEMMA RequestIdle ==
  ASSUME HdInv, hdPc # "idle"
  PROVE  hdDrive.cmd = "none"
BY DEF HdInv, DriveOK

\* The steps that change no request and leave the list alone keep what is said of them.
LEMMA SameReqs ==
  ASSUME HdInv, UNCHANGED <<hdReq, hdQueue, hdData>>
  PROVE  /\ QueueOK(HdRequests, hdQueue, Queued)' /\ \A r \in HdRequests : ReqOK(hdReq[r], hdData[r])'
         /\ hdReq' \in [HdRequests -> ReqType] /\ hdData' \in [HdRequests -> DataType]
<1>1. Queued' = Queued
  BY DEF Queued
<1> QED
  BY <1>1 DEF HdInv, Types

\* hd_out() of a command that suits CURRENT.
LEMMA OutStep ==
  ASSUME HdInv, hdPc = "request", hdQueue # <<>>,
         NEW cmd \in {"READ", "WRITE", "SPECIFY", "RESTORE"}, NEW s \in Nat,
         NEW n \in 0 .. 2, NEW b \in 0 .. 2,
         HdOut(cmd, s, n, b, Armed(cmd)),
         UNCHANGED <<hdReq, hdQueue, hdData>>,
         hdReset' \in BOOLEAN /\ hdRecal' \in BOOLEAN,
         cmd \in {"READ", "WRITE"} =>
           /\ cmd = hdReq[CURRENT].cmd /\ s = hdReq[CURRENT].sector
           /\ n = hdReq[CURRENT].nr /\ b = hdReq[CURRENT].buf
  PROVE  HdInv'
<1>1. hdDrive.cmd = "none"
  BY RequestIdle
<1>2. /\ QueueOK(HdRequests, hdQueue, Queued)' /\ \A r \in HdRequests : ReqOK(hdReq[r], hdData[r])'
      /\ hdReq' \in [HdRequests -> ReqType] /\ hdData' \in [HdRequests -> DataType]
  BY SameReqs
<1>3. InService'
  <2>1. ASSUME NEW r \in HdRequests, hdReq[r].state = "queued", hdReq[r].buf = 1
        PROVE  r = Head(hdQueue) /\ hdReq[r].errors > 0
    <3>1. hdReq[r].cmd # "none"
      BY DEF HdInv, Types, ReqType
    <3> QED
      BY <2>1, <3>1, <1>1 DEF HdInv, InService
  <2> QED
    BY <2>1 DEF InService
<1>4. CASE hdPc' = "panic" /\ UNCHANGED <<doHd, hdDrive>>
  <2>1. Types'
    BY <1>2, <1>4 DEF HdInv, Types
  <2>2. DriveOK'
    BY <1>1, <1>4 DEF DriveOK
  <2> QED
    BY <1>2, <1>3, <2>1, <2>2 DEF HdInv
<1>5. CASE /\ hdPc' = "idle" /\ doHd' = Armed(cmd)
           /\ hdDrive' = [cmd |-> cmd, sector |-> s, left |-> n, buf |-> b]
  <2>1. hdDrive' \in DriveType
    BY <1>5 DEF DriveType
  <2>2. Types'
    BY <1>2, <1>5, <2>1 DEF Types, Armed
  <2>3. /\ hdDrive'.cmd = cmd /\ hdDrive'.sector = s /\ hdDrive'.left = n /\ hdDrive'.buf = b
    BY <1>5
  <2>4. DriveOK'
    BY <1>5, <2>3 DEF DriveOK, CURRENT
  <2> QED
    BY <1>2, <1>3, <2>2, <2>4 DEF HdInv
<1> QED
  BY <1>4, <1>5 DEF HdOut

\* do_hd_request()
LEMMA RequestStep ==
  ASSUME HdInv, DoHdRequest
  PROVE  HdInv'
<1>1. CASE RequestDone
  <2>1. hdDrive.cmd = "none"
    BY <1>1, RequestIdle DEF RequestDone
  <2>2. /\ QueueOK(HdRequests, hdQueue, Queued)' /\ \A r \in HdRequests : ReqOK(hdReq[r], hdData[r])'
        /\ hdReq' \in [HdRequests -> ReqType] /\ hdData' \in [HdRequests -> DataType]
    BY <1>1, SameReqs DEF RequestDone
  <2> QED
    BY <1>1, <2>1, <2>2 DEF RequestDone, HdInv, Types, InService, DriveOK
<1>2. CASE RequestRefused
  <2> DEFINE c == hdReq[CURRENT]
  <2>1. /\ CURRENT \in HdRequests /\ c \in ReqType /\ hdData[CURRENT] \in DataType
        /\ c.state = "queued" /\ ReqOK(c, hdData[CURRENT])
    BY <1>2, CurrentReq DEF RequestRefused
  <2>2. hdDrive.cmd = "none"
    BY <1>2, RequestIdle DEF RequestRefused
  <2>3. c.buf = 1 => c.errors > 0
    <3>1. c.cmd # "none"
      BY <2>1 DEF ReqType
    <3> QED
      BY <2>1, <2>2, <3>1 DEF HdInv, InService
  <2>4. c.sector + 2 > HdNrSects
    BY <1>2 DEF RequestRefused, OutOfRange
  <2>5. PICK f : f = [c EXCEPT !.state = "failed"]
    OBVIOUS
  <2>6. hdReq' = [hdReq EXCEPT ![CURRENT] = f]
    BY <1>2, <2>1, <2>5 DEF RequestRefused, HdEnd, HdInv, Types
  <2>7. f \in ReqType /\ f.state = "failed" /\ ReqOK(f, hdData[CURRENT])
    <3> HIDE DEF c
    <3> QED
      BY <2>1, <2>3, <2>4, <2>5, RefusedReq
  <2>8. hdData' = [hdData EXCEPT ![CURRENT] = hdData[CURRENT]]
    BY <1>2, <2>1 DEF RequestRefused, HdInv, Types
  <2>9. /\ hdQueue' = Tail(hdQueue) /\ UNCHANGED <<doHd, hdReset, hdRecal, hdDrive, hdPc>>
        /\ hdQueue # <<>>
    BY <1>2 DEF RequestRefused
  <2>10. /\ doHd' \in {"none", "read_intr", "write_intr", "recal_intr"}
         /\ hdReset' \in BOOLEAN /\ hdRecal' \in BOOLEAN /\ hdPc' \in {"idle", "request", "panic"}
    BY <2>9 DEF HdInv, Types
  <2> QED
    BY <2>1, <2>2, <2>6, <2>7, <2>8, <2>9, <2>10, EndStep
<1>3. CASE RequestReset
  <2>1. PICK cmd : cmd = IF hdReset THEN "SPECIFY" ELSE "RESTORE"
    OBVIOUS
  <2>2. HdOut(cmd, 0, 0, 0, Armed(cmd))
    BY <1>3, <2>1 DEF RequestReset, Armed
  <2>3. cmd \in {"READ", "WRITE", "SPECIFY", "RESTORE"} /\ cmd \notin {"READ", "WRITE"}
    BY <2>1
  <2>4. hdReset' \in BOOLEAN /\ hdRecal' \in BOOLEAN
    BY <1>3 DEF RequestReset, HdInv, Types
  <2>5. hdPc = "request" /\ hdQueue # <<>> /\ UNCHANGED <<hdReq, hdQueue, hdData>>
    BY <1>3 DEF RequestReset
  <2> QED
    BY <2>2, <2>3, <2>4, <2>5, OutStep
<1>4. CASE RequestTransfer
  <2> DEFINE c == hdReq[CURRENT]
  <2>1. c \in ReqType
    BY <1>4, CurrentReq DEF RequestTransfer
  <2>2. c.cmd \in {"READ", "WRITE"} /\ c.sector \in Nat /\ c.nr \in 0 .. 2 /\ c.buf \in 0 .. 2
    BY <2>1 DEF ReqType
  <2>3. HdOut(c.cmd, c.sector, c.nr, c.buf, Armed(c.cmd))
    BY <1>4, <2>2 DEF RequestTransfer, Armed
  <2>4. /\ hdPc = "request" /\ hdQueue # <<>> /\ UNCHANGED <<hdReq, hdQueue, hdData>>
        /\ hdReset' \in BOOLEAN /\ hdRecal' \in BOOLEAN
    BY <1>4 DEF RequestTransfer, HdInv, Types
  <2> QED
    BY <2>2, <2>3, <2>4, OutStep
<1>5. CASE RequestNoDrq
  <2>1. /\ hdQueue # <<>> /\ BadRwIntr /\ hdDrive' = DriveIdle /\ UNCHANGED <<hdRecal, hdData>>
        /\ doHd' \in {"none", "read_intr", "write_intr", "recal_intr"}
        /\ hdPc' \in {"idle", "request", "panic"}
    BY <1>5 DEF RequestNoDrq
  <2> QED
    BY <2>1, BadStep
<1> QED
  BY <1>1, <1>2, <1>3, <1>4, <1>5 DEF DoHdRequest

\* read_intr(), when the sector was read
LEMMA ReadStep ==
  ASSUME HdInv, ReadIntr
  PROVE  HdInv'
<1> DEFINE c == hdReq[CURRENT]
           p == hdData[CURRENT]
           n == p \cup {<<c.sector, c.buf>>}
           g == NextSector([c EXCEPT !.errors = 0])
<1>1. /\ hdDrive.cmd # "none" /\ doHd = "read_intr" /\ hdPc = "idle"
  BY DEF ReadIntr, HdIntr
<1>2. hdDrive \in DriveType
  BY DEF HdInv, Types
<1>3. /\ hdQueue # <<>> /\ hdDrive.cmd = "READ"
      /\ c.cmd = "READ" /\ hdDrive.sector = c.sector /\ hdDrive.left = c.nr
  <2>1. hdQueue # <<>> /\ doHd = Armed(hdDrive.cmd)
    BY <1>1 DEF HdInv, DriveOK
  <2>2. hdDrive.cmd = "READ"
    BY <2>1, <1>1, <1>2 DEF Armed, DriveType
  <2> QED
    BY <2>1, <2>2 DEF HdInv, DriveOK, CURRENT
<1>4. /\ CURRENT \in HdRequests /\ c \in ReqType /\ p \in DataType
      /\ c.state = "queued" /\ ReqOK(c, p) /\ CURRENT \in Queued
      /\ hdReq \in [HdRequests -> ReqType] /\ hdData \in [HdRequests -> DataType]
  BY <1>3, CurrentReq DEF HdInv, Types
<1>5. /\ c.buf \in {0, 1} /\ c.nr = 2 - c.buf /\ c.sector = c.start + c.buf /\ c.errors < HdMaxErrors
      /\ c.start \in Nat
  BY <1>4, ReqFields DEF ReqOK
<1>6. g = [state |-> c.state, cmd |-> c.cmd, start |-> c.start, sector |-> c.sector + 1,
           nr |-> c.nr - 1, buf |-> c.buf + 1, errors |-> 0]
  <2>1. PICK k : k = c
    OBVIOUS
  <2>2. k \in ReqType /\ k.nr > 0 /\ k.buf < 2 /\ 0 \in 0 .. HdMaxErrors
    BY <2>1, <1>4, <1>5, HdAssumption
  <2>3. [k EXCEPT !.errors = 0] = [state |-> k.state, cmd |-> k.cmd, start |-> k.start,
          sector |-> k.sector, nr |-> k.nr, buf |-> k.buf, errors |-> 0]
    BY <2>2 DEF ReqType
  <2> QED
    BY <2>1, <2>3, NextFields
<1>7. hdData' = [hdData EXCEPT ![CURRENT] = n]
  BY <1>3, <1>4 DEF ReadIntr
<1>8. hdRecal' \in BOOLEAN /\ hdReset' \in BOOLEAN
  BY DEF ReadIntr, HdInv, Types
<1>9. CASE c.nr = 2
  <2>1. g.nr > 0
    BY <1>6, <1>9
  <2>2. /\ hdReq' = [hdReq EXCEPT ![CURRENT] = g] /\ doHd' = "read_intr"
        /\ UNCHANGED <<hdQueue, hdPc>>
    BY <2>1 DEF ReadIntr
  <2>3. hdDrive' = [hdDrive EXCEPT !.sector = @ + 1, !.left = @ - 1]
    BY <1>3, <1>9 DEF ReadIntr
  <2>4. g \in ReqType /\ g.state = "queued" /\ n \in DataType /\ ReqOK(g, n)
    <3>1. c.nr > 1 /\ 0 \in {0, c.errors}
      BY <1>9
    <3>2. PICK f : f = g
      OBVIOUS
    <3> HIDE DEF c, p, g
    <3>3. f \in ReqType /\ f.state = "queued" /\ p \cup {<<c.sector, c.buf>>} \in DataType
          /\ ReqOK(f, p \cup {<<c.sector, c.buf>>})
      BY <1>4, <1>6, <3>1, <3>2, NextReq
    <3> QED
      BY <3>2, <3>3
  <2> HIDE DEF n
  <2>5. /\ hdReq' \in [HdRequests -> ReqType] /\ hdData' \in [HdRequests -> DataType]
        /\ hdReq'[CURRENT] = g
        /\ \A r \in HdRequests : r # CURRENT => hdReq'[r] = hdReq[r]
        /\ \A r \in HdRequests : ReqOK(hdReq[r], hdData[r])'
        /\ Queued' = Queued \cup {CURRENT}
    <3>1. PICK f : f = g
      OBVIOUS
    <3> HIDE DEF g
    <3> QED
      BY <1>4, <1>7, <2>2, <2>4, OneReq
  <2>6. QueueOK(HdRequests, hdQueue, Queued)'
    BY <2>2, <2>5, <1>4 DEF HdInv
  <2>7. /\ hdDrive' \in DriveType /\ hdDrive'.cmd = "READ" /\ hdDrive'.sector = c.sector + 1
        /\ hdDrive'.left = c.nr - 1
    <3>1. hdDrive.left = 2 /\ hdDrive.sector = c.sector /\ hdDrive.cmd = "READ"
      BY <1>3, <1>9
    <3>2. /\ hdDrive' \in DriveType /\ hdDrive'.cmd = hdDrive.cmd
          /\ hdDrive'.sector = hdDrive.sector + 1 /\ hdDrive'.left = hdDrive.left - 1
      <4>1. PICK d : d = hdDrive
        OBVIOUS
      <4>2. PICK e : e = [d EXCEPT !.sector = d.sector + 1, !.left = d.left - 1]
        OBVIOUS
      <4>3. /\ d.sector \in Nat /\ d.sector + 1 \in Nat /\ d.left = 2 /\ d.left - 1 \in 0 .. 2
        BY <1>2, <3>1, <4>1 DEF DriveType
      <4>4. /\ e \in DriveType /\ e.cmd = d.cmd /\ e.sector = d.sector + 1 /\ e.left = d.left - 1
        BY <1>2, <4>1, <4>2, <4>3 DEF DriveType
      <4>5. hdDrive' = e
        BY <2>3, <4>1, <4>2
      <4> QED
        BY <4>1, <4>4, <4>5
    <3> QED
      BY <3>1, <3>2, <1>9
  <2>8. /\ g.cmd = "READ" /\ g.sector = c.sector + 1 /\ g.nr = c.nr - 1
    BY <1>3, <1>6
  <2> HIDE DEF g
  <2>9. Types'
    BY <1>1, <1>8, <2>2, <2>5, <2>7 DEF Types
  <2>10. DriveOK'
    BY <1>1, <1>3, <2>2, <2>5, <2>7, <2>8 DEF DriveOK, Armed, CURRENT
  <2>11. InService'
    <3>1. ASSUME NEW r \in HdRequests, hdReq'[r].state = "queued", hdReq'[r].buf = 1
          PROVE  r = Head(hdQueue') /\ hdDrive'.cmd = hdReq'[r].cmd
      <4>1. CASE r = CURRENT
        BY <4>1, <2>2, <2>5, <2>7, <2>8 DEF CURRENT
      <4>2. CASE r # CURRENT
        BY <4>2, <3>1, <2>5 DEF HdInv, InService, CURRENT
      <4> QED
        BY <4>1, <4>2
    <3> QED
      BY <3>1 DEF InService
  <2> QED
    BY <2>5, <2>6, <2>9, <2>10, <2>11 DEF HdInv
<1>10. CASE c.nr = 1
  <2>1. ~(g.nr > 0)
    BY <1>6, <1>10
  <2>2. PICK f : f = [g EXCEPT !.state = "ok"]
    OBVIOUS
  <2>3. /\ hdReq' = [hdReq EXCEPT ![CURRENT] = f] /\ hdQueue' = Tail(hdQueue)
        /\ doHd' = "none" /\ hdPc' = "request"
    BY <2>1, <2>2, <1>4 DEF ReadIntr, HdEnd
  <2>4. hdDrive' = DriveIdle
    BY <1>3, <1>10 DEF ReadIntr
  <2>5. f = [state |-> "ok", cmd |-> c.cmd, start |-> c.start, sector |-> c.sector + 1,
             nr |-> c.nr - 1, buf |-> c.buf + 1, errors |-> 0]
    BY <1>6, <2>2
  <2>6. f \in ReqType /\ f.state = "ok" /\ f.start = c.start /\ f.sector = f.start + f.buf
    BY <1>4, <1>5, <1>10, <2>5, HdAssumption DEF ReqType
  <2>7. n \in DataType /\ ReqOK(f, n)
    <3> HIDE DEF c, p
    <3> QED
      BY <1>4, <1>10, <2>6, LastReq
  <2>8. hdDrive'.cmd = "none"
    BY <2>4 DEF DriveIdle
  <2> HIDE DEF n
  <2> QED
    BY <1>3, <1>7, <1>8, <2>3, <2>4, <2>6, <2>7, <2>8, EndStep
<1> QED
  BY <1>5, <1>9, <1>10

\* write_intr(), when the sector was written
LEMMA WriteStep ==
  ASSUME HdInv, WriteIntr
  PROVE  HdInv'
<1> DEFINE c == hdReq[CURRENT]
           p == hdData[CURRENT]
           n == p \cup {<<c.sector, c.buf>>}
           g == NextSector(c)
<1>1. /\ hdDrive.cmd # "none" /\ doHd = "write_intr" /\ hdPc = "idle"
  BY DEF WriteIntr, HdIntr
<1>2. hdDrive \in DriveType
  BY DEF HdInv, Types
<1>3. /\ hdQueue # <<>> /\ hdDrive.cmd = "WRITE"
      /\ c.cmd = "WRITE" /\ hdDrive.sector = c.sector /\ hdDrive.left = c.nr /\ hdDrive.buf = c.buf
  <2>1. hdQueue # <<>> /\ doHd = Armed(hdDrive.cmd)
    BY <1>1 DEF HdInv, DriveOK
  <2>2. hdDrive.cmd = "WRITE"
    BY <2>1, <1>1, <1>2 DEF Armed, DriveType
  <2> QED
    BY <2>1, <2>2 DEF HdInv, DriveOK, CURRENT
<1>4. /\ CURRENT \in HdRequests /\ c \in ReqType /\ p \in DataType
      /\ c.state = "queued" /\ ReqOK(c, p) /\ CURRENT \in Queued
      /\ hdReq \in [HdRequests -> ReqType] /\ hdData \in [HdRequests -> DataType]
  BY <1>3, CurrentReq DEF HdInv, Types
<1>5. /\ c.buf \in {0, 1} /\ c.nr = 2 - c.buf /\ c.sector = c.start + c.buf /\ c.errors < HdMaxErrors
      /\ c.start \in Nat
  BY <1>4, ReqFields DEF ReqOK
<1>6. g = [state |-> c.state, cmd |-> c.cmd, start |-> c.start, sector |-> c.sector + 1,
           nr |-> c.nr - 1, buf |-> c.buf + 1, errors |-> c.errors]
  <2>1. PICK k : k = c
    OBVIOUS
  <2>2. k = [state |-> k.state, cmd |-> k.cmd, start |-> k.start,
             sector |-> k.sector, nr |-> k.nr, buf |-> k.buf, errors |-> k.errors]
    BY <2>1, <1>4 DEF ReqType
  <2>3. PICK m : m = NextSector(k)
    OBVIOUS
  <2>4. m = [state |-> k.state, cmd |-> k.cmd, start |-> k.start, sector |-> k.sector + 1,
             nr |-> k.nr - 1, buf |-> k.buf + 1, errors |-> k.errors]
    <3>1. PICK st, cm, b, s, n0, u, e :
            /\ st = k.state /\ cm = k.cmd /\ b = k.start /\ s = k.sector
            /\ n0 = k.nr /\ u = k.buf /\ e = k.errors
      OBVIOUS
    <3>2. m = NextSector([state |-> st, cmd |-> cm, start |-> b, sector |-> s, nr |-> n0,
                          buf |-> u, errors |-> e])
      BY <2>2, <2>3, <3>1
    <3>3. m = [state |-> st, cmd |-> cm, start |-> b, sector |-> s + 1, nr |-> n0 - 1,
               buf |-> u + 1, errors |-> e]
      BY <3>2, NextFields
    <3> QED
      BY <3>1, <3>3
  <2> QED
    BY <2>1, <2>3, <2>4
<1>7. hdData' = [hdData EXCEPT ![CURRENT] = n]
  BY <1>3, <1>4 DEF WriteIntr, Transferred
<1>8. hdRecal' \in BOOLEAN /\ hdReset' \in BOOLEAN
  BY DEF WriteIntr, HdInv, Types
<1>9. CASE c.nr = 2
  <2>1. c.nr - 1 > 0
    BY <1>9
  <2>2. /\ hdReq' = [hdReq EXCEPT ![CURRENT] = g] /\ doHd' = "write_intr"
        /\ UNCHANGED <<hdQueue, hdPc>>
    BY <2>1 DEF WriteIntr
  <2>3. hdDrive' = [hdDrive EXCEPT !.sector = @ + 1, !.left = @ - 1, !.buf = c.buf + 1]
    BY <2>1 DEF WriteIntr
  <2>4. g \in ReqType /\ g.state = "queued" /\ n \in DataType /\ ReqOK(g, n)
    <3>1. c.nr > 1 /\ c.errors \in {0, c.errors}
      BY <1>9
    <3>2. PICK f : f = g
      OBVIOUS
    <3> HIDE DEF c, p, g
    <3>3. f \in ReqType /\ f.state = "queued" /\ p \cup {<<c.sector, c.buf>>} \in DataType
          /\ ReqOK(f, p \cup {<<c.sector, c.buf>>})
      BY <1>4, <1>6, <3>1, <3>2, NextReq
    <3> QED
      BY <3>2, <3>3
  <2> HIDE DEF n
  <2>5. /\ hdReq' \in [HdRequests -> ReqType] /\ hdData' \in [HdRequests -> DataType]
        /\ hdReq'[CURRENT] = g
        /\ \A r \in HdRequests : r # CURRENT => hdReq'[r] = hdReq[r]
        /\ \A r \in HdRequests : ReqOK(hdReq[r], hdData[r])'
        /\ Queued' = Queued \cup {CURRENT}
    <3> HIDE DEF g
    <3> QED
      BY <1>4, <1>7, <2>2, <2>4, OneReq
  <2>6. QueueOK(HdRequests, hdQueue, Queued)'
    BY <2>2, <2>5, <1>4 DEF HdInv
  <2>7. /\ hdDrive' \in DriveType /\ hdDrive'.cmd = "WRITE" /\ hdDrive'.sector = c.sector + 1
        /\ hdDrive'.left = c.nr - 1 /\ hdDrive'.buf = c.buf + 1
    <3>1. /\ hdDrive.left = 2 /\ hdDrive.sector = c.sector /\ hdDrive.cmd = "WRITE"
          /\ c.buf + 1 \in 0 .. 2
      BY <1>3, <1>5, <1>9
    <3>2. /\ hdDrive' \in DriveType /\ hdDrive'.cmd = hdDrive.cmd /\ hdDrive'.buf = c.buf + 1
          /\ hdDrive'.sector = hdDrive.sector + 1 /\ hdDrive'.left = hdDrive.left - 1
      <4>1. PICK d : d = hdDrive
        OBVIOUS
      <4>2. PICK b : b = c.buf + 1
        OBVIOUS
      <4>3. PICK e : e = [d EXCEPT !.sector = d.sector + 1, !.left = d.left - 1, !.buf = b]
        OBVIOUS
      <4>4. /\ d.sector \in Nat /\ d.sector + 1 \in Nat /\ d.left = 2 /\ d.left - 1 \in 0 .. 2
            /\ b \in 0 .. 2
        BY <1>2, <3>1, <4>1, <4>2 DEF DriveType
      <4>5. /\ e \in DriveType /\ e.cmd = d.cmd /\ e.sector = d.sector + 1 /\ e.left = d.left - 1
            /\ e.buf = b
        BY <1>2, <4>1, <4>3, <4>4 DEF DriveType
      <4>6. hdDrive' = e
        BY <2>3, <4>1, <4>2, <4>3
      <4> QED
        BY <4>1, <4>2, <4>5, <4>6
    <3> QED
      BY <3>1, <3>2, <1>9
  <2>8. /\ g.cmd = "WRITE" /\ g.sector = c.sector + 1 /\ g.nr = c.nr - 1 /\ g.buf = c.buf + 1
    BY <1>3, <1>6
  <2> HIDE DEF g
  <2>9. Types'
    BY <1>1, <1>8, <2>2, <2>5, <2>7 DEF Types
  <2>10. DriveOK'
    BY <1>1, <1>3, <2>2, <2>5, <2>7, <2>8 DEF DriveOK, Armed, CURRENT
  <2>11. InService'
    <3>1. ASSUME NEW r \in HdRequests, hdReq'[r].state = "queued", hdReq'[r].buf = 1
          PROVE  r = Head(hdQueue') /\ hdDrive'.cmd = hdReq'[r].cmd
      <4>1. CASE r = CURRENT
        BY <4>1, <2>2, <2>5, <2>7, <2>8 DEF CURRENT
      <4>2. CASE r # CURRENT
        BY <4>2, <3>1, <2>5 DEF HdInv, InService, CURRENT
      <4> QED
        BY <4>1, <4>2
    <3> QED
      BY <3>1 DEF InService
  <2> QED
    BY <2>5, <2>6, <2>9, <2>10, <2>11 DEF HdInv
<1>10. CASE c.nr = 1
  <2>1. ~(c.nr - 1 > 0)
    BY <1>10
  <2>2. PICK f : f = [c EXCEPT !.nr = 0, !.state = "ok"]
    OBVIOUS
  <2>3. /\ hdReq' = [hdReq EXCEPT ![CURRENT] = f] /\ hdQueue' = Tail(hdQueue)
        /\ doHd' = "none" /\ hdPc' = "request" /\ hdDrive' = DriveIdle
    BY <2>1, <2>2, <1>4 DEF WriteIntr, HdEnd
  <2>4. f \in ReqType /\ f.state = "ok" /\ f.start = c.start /\ f.sector = c.sector /\ f.buf = c.buf
    <3>1. PICK k : k = c
      OBVIOUS
    <3>2. k \in ReqType /\ f = [k EXCEPT !.nr = 0, !.state = "ok"]
      BY <1>4, <2>2, <3>1
    <3>3. PICK z : z = 0 /\ z \in 0 .. 2
      OBVIOUS
    <3>4. f = [k EXCEPT !.nr = z, !.state = "ok"]
      BY <3>2, <3>3
    <3>5. f \in ReqType
      BY <3>2, <3>3, <3>4 DEF ReqType
    <3>6. f.state = "ok" /\ f.start = k.start /\ f.sector = k.sector /\ f.buf = k.buf
      BY <3>2, <3>4 DEF ReqType
    <3> QED
      BY <3>1, <3>5, <3>6
  <2>5. f.sector = f.start + f.buf
    BY <1>5, <2>4
  <2>6. n \in DataType /\ ReqOK(f, n)
    <3> HIDE DEF c, p
    <3> QED
      BY <1>4, <1>10, <2>4, <2>5, LastReq
  <2>7. hdDrive'.cmd = "none"
    BY <2>3 DEF DriveIdle
  <2> HIDE DEF n
  <2> QED
    BY <1>3, <1>7, <1>8, <2>3, <2>4, <2>6, <2>7, EndStep
<1> QED
  BY <1>5, <1>9, <1>10

\* The interrupts
LEMMA InterruptStep ==
  ASSUME HdInv, HdInterrupt
  PROVE  HdInv'
<1>1. ASSUME NEW h, IntrError(h) PROVE HdInv'
  <2>1. hdQueue # <<>>
    BY <1>1 DEF IntrError, HdIntr, HdInv, DriveOK
  <2>2. /\ BadRwIntr /\ hdDrive' = DriveIdle /\ UNCHANGED <<hdRecal, hdData>>
        /\ doHd' \in {"none", "read_intr", "write_intr", "recal_intr"}
        /\ hdPc' \in {"idle", "request", "panic"}
    BY <1>1 DEF IntrError
  <2> QED
    BY <2>1, <2>2, BadStep
<1>2. CASE ReadIntr
  BY <1>2, ReadStep
<1>3. CASE WriteIntr
  BY <1>3, WriteStep
<1>4. ASSUME RecalIntr \/ HdUnexpected PROVE HdInv'
  <2>1. /\ UNCHANGED <<hdReq, hdQueue, hdData, hdReset, hdRecal>> /\ hdDrive' = DriveIdle
        /\ doHd' \in {"none", "read_intr", "write_intr", "recal_intr"}
        /\ hdPc' \in {"idle", "request", "panic"}
    BY <1>4 DEF RecalIntr, HdUnexpected
  <2>2. /\ QueueOK(HdRequests, hdQueue, Queued)' /\ \A r \in HdRequests : ReqOK(hdReq[r], hdData[r])'
        /\ hdReq' \in [HdRequests -> ReqType] /\ hdData' \in [HdRequests -> DataType]
    BY <2>1, SameReqs
  <2>3. hdDrive' \in DriveType /\ hdDrive'.cmd = "none"
    BY <2>1 DEF DriveIdle, DriveType
  <2>4. Types' /\ DriveOK'
    BY <2>1, <2>2, <2>3 DEF HdInv, Types, DriveOK
  <2>5. hdDrive.cmd \notin {"READ", "WRITE"}
    <3>1. doHd \in {"none", "recal_intr"}
      BY <1>4 DEF RecalIntr, HdUnexpected, HdIntr
    <3> QED
      BY <3>1 DEF HdInv, DriveOK, Armed
  <2>6. InService'
    <3>1. ASSUME NEW r \in HdRequests, hdReq[r].state = "queued", hdReq[r].buf = 1
          PROVE  r = Head(hdQueue) /\ hdReq[r].errors > 0
      <4>1. hdReq[r].cmd \in {"READ", "WRITE"}
        BY DEF HdInv, Types, ReqType
      <4> QED
        BY <3>1, <4>1, <2>5 DEF HdInv, InService
    <3> QED
      BY <3>1, <2>1 DEF InService
  <2> QED
    BY <2>2, <2>4, <2>6 DEF HdInv
<1> QED
  BY <1>1, <1>2, <1>3, <1>4 DEF HdInterrupt

-----------------------------------------------------------------------------
(* The theorems *)

\* HdInv holds at the start.
LEMMA HdInitInv == HdInit => HdInv
<1> SUFFICES ASSUME HdInit PROVE HdInv
  OBVIOUS
<1>1. NoRequest \in ReqType /\ {} \in DataType /\ DriveIdle \in DriveType
  BY HdAssumption DEF NoRequest, ReqType, DataType, DriveIdle, DriveType
<1>2. Types
  BY <1>1 DEF HdInit, Types
<1>3. \A r \in HdRequests : hdReq[r] = NoRequest /\ hdData[r] = {}
  BY DEF HdInit
<1>4. Queued = {}
  BY <1>3 DEF Queued, NoRequest
<1>5. QueueOK(HdRequests, hdQueue, Queued)
  <2>1. <<>> \in Seq(HdRequests) /\ DOMAIN <<>> = {}
    BY EmptySeq
  <2> QED
    BY <1>4, <2>1 DEF HdInit, QueueOK, IsInjective, Range
<1>6. ReqOK(NoRequest, {})
  BY DEF ReqOK, NoRequest
<1>7. InService
  BY <1>3 DEF InService, NoRequest
<1>8. DriveOK
  BY DEF HdInit, DriveOK, DriveIdle
<1> QED
  BY <1>2, <1>3, <1>5, <1>6, <1>7, <1>8 DEF HdInv

\* Every step of the driver, of the drive and of its callers keeps HdInv.
LEMMA HdStepInv == HdInv /\ [HdNext]_hdVars => HdInv'
<1> SUFFICES ASSUME HdInv, [HdNext]_hdVars PROVE HdInv'
  OBVIOUS
<1>1. CASE UNCHANGED hdVars
  <2>1. Queued' = Queued
    BY <1>1 DEF hdVars, Queued
  <2> QED
    BY <1>1, <2>1 DEF hdVars, HdInv, Types, InService, DriveOK
<1>2. CASE \E r \in HdRequests, cmd \in {"READ", "WRITE"}, s \in HdSectors :
             HdAddRequest(r, cmd, s)
  BY <1>2, AddStep
<1>3. CASE DoHdRequest
  BY <1>3, RequestStep
<1>4. CASE HdInterrupt
  BY <1>4, InterruptStep
<1> QED
  BY <1>1, <1>2, <1>3, <1>4 DEF HdNext

\* The driver's globals and requests have their types, and the list holds each
\* queued request once.
THEOREM HdTypesHold == HdSpec => []HdTypeOK
<1>1. HdInv => HdTypeOK
  BY DEF HdInv, Types, QueueOK, Queued, HdTypeOK, ReqType, DataType, DriveType
<1> QED
  BY <1>1, HdInitInv, HdStepInv, PTL DEF HdSpec

\* However often hd.c retries, resets and recalibrates, the outcome end_request()
\* reports is what happened: each sector went to its place in the buffer, a request
\* that succeeded moved both, and one that failed had MAX_ERRORS errors or reached
\* over the end of the partition.
THEOREM OutcomesAreHonest == HdSpec => []HdOutcomeHonest
<1>1. HdInv => HdOutcomeHonest
  BY DEF HdInv, ReqOK, HdOutcomeHonest
<1> QED
  BY <1>1, HdInitInv, HdStepInv, PTL DEF HdSpec

-----------------------------------------------------------------------------
(* The timers and the floppy driver: the invariant *)

TimerFns == TimerClients \cup {"floppy_on_interrupt", "transfer"}
Entry == [jiffies : Nat, fn : TimerFns, asked : Nat]

TimerInv ==
  /\ timerPc \in {"idle", "run", "panic"}
  /\ timers \in Seq(Entry)
  /\ timerPc # "run" /\ timers # <<>> => timers[1].jiffies > 0
  /\ TimersNeverEarly

\* add_timer() has been called for fn
Awaits(fn) == timers # <<>> /\ timers[1].fn = fn

\* CURRENT is being served: its drive is being started, or selected, or used
Serving ==
  \/ timers # <<>>
  \/ fd.pc \in {"floppy_on_interrupt", "transfer", "setup_rw"}
  \/ fdc.kind \in {"seek", "rw"}

\* its drive has been selected
OnDrive ==
  \/ Awaits("transfer")
  \/ fd.pc \in {"transfer", "setup_rw"}
  \/ fdc.kind \in {"seek", "rw"}

\* the ticks it may still take, and the one that do_floppy_timer() has not counted yet
Remaining ==
  IF Awaits("floppy_on_interrupt") THEN timers[1].jiffies + 2 + 2 * FdOpTicks
  ELSE IF fd.pc = "floppy_on_interrupt" THEN 2 + 2 * FdOpTicks
  ELSE IF Awaits("transfer") THEN timers[1].jiffies + 2 * FdOpTicks
  ELSE IF fd.pc = "transfer" THEN 2 * FdOpTicks
  ELSE IF fdc.kind = "seek" THEN 2 * FdOpTicks - fdc.age
  ELSE IF fd.pc = "setup_rw" THEN FdOpTicks
  ELSE FdOpTicks - fdc.age
InTick == IF timerPc = "run" THEN 1 ELSE 0

FdReqs == [FdRequests -> [state : {"new", "queued", "ok", "failed"}, drive : FdDrives,
                          track : FdTracks \cup {FdBad}, errors : 0 .. FdMaxErrors + 1]]
FdGlobals ==
  [reset : BOOLEAN, recal : BOOLEAN, seek : BOOLEAN, spec : BOOLEAN, drive : FdDrives,
   seek_track : FdTracks, current_track : FdTracks \cup {0, 255},
   do_floppy : {"none", "rw", "seek", "recal", "reset"},
   pc : {"idle", "do_fd_request", "repeat", "floppy_on_interrupt", "transfer", "setup_rw"}]
Motors ==
  [selected : BOOLEAN, sel : FdDrives, on : SUBSET FdDrives,
   mon : [FdDrives -> 0 .. FdSpinUp], moff : [FdDrives -> 0 .. Forever],
   spun : [FdDrives -> 0 .. FdSpinUp]]
Controllers == [kind : {"none", "rw", "seek", "recal", "reset"}, age : 0 .. FdOpTicks,
                faults : 0 .. FdFaults]
Changers == [pc : {"out", "on", "motor", "test", "nap", "asleep"}, nr : FdDrives,
             left : 0 .. FdChanges]

FdQueued == {r \in FdRequests : fdReq[r].state = "queued"}

FdTypes ==
  /\ fdReq \in FdReqs /\ fd \in FdGlobals /\ motor \in Motors
  /\ fdc \in Controllers /\ chg \in Changers

FdQueueOK ==
  /\ QueueOK(FdRequests, fdQueue, FdQueued)
  /\ \A r \in FdQueued : fdReq[r].errors <= FdMaxErrors

OneThing ==
  /\ Len(timers) <= 1
  /\ timers # <<>> => fd.pc = "idle" /\ fdc.kind = "none"
  /\ fdc.kind # "none" => fd.pc = "idle"
  /\ timers # <<>> => timers[1].fn \in {"floppy_on_interrupt", "transfer"}
  /\ Awaits("transfer") => timers[1].jiffies <= 2
  /\ timerPc # "panic"
  /\ timerPc = "run" => fd.pc # "repeat" /\ (fd.pc = "do_fd_request" => fd.reset)

\* a motor that is on will be at speed when its mon_timer has run down
Speed(m) == \A d \in m.on : m.spun[d] + m.mon[d] >= FdSpinUp

\* The motor of d stays on for rem ticks; it has been on long enough, or (if it is
\* being started) will have been in j ticks.
RunsOn(m, d, starting, j, rem, tick) ==
  /\ d \in m.on
  /\ IF starting THEN m.spun[d] + j >= FdSpinUp - tick /\ m.mon[d] >= j + tick
     ELSE m.spun[d] >= FdSpinUp - 1
  /\ m.moff[d] = Forever \/ m.mon[d] + m.moff[d] >= rem + tick

Served ==
  /\ fdQueue # <<>> /\ fd.drive = fdReq[FdCurrent].drive
  /\ RunsOn(motor, fd.drive, Awaits("floppy_on_interrupt"), timers[1].jiffies, Remaining, InTick)

FdInv ==
  /\ FdTypes
  /\ FdQueueOK
  /\ OneThing
  /\ Speed(motor)
  /\ Serving => Served
  /\ OnDrive => motor.selected /\ motor.sel = fd.drive

FdAtRest == FdTypes /\ fdQueue = <<>> /\ FdQueued = {} /\ fd.pc = "idle" /\ fdc.kind = "none"

DisksInv ==
  /\ HdInv
  /\ TimerInv
  /\ Len(timers) <= TIME_REQUESTS
  /\ IF subject = "timers" THEN FdAtRest ELSE FdInv

-----------------------------------------------------------------------------
(* Induction over the natural numbers, and sums along a list *)

\* The order of the natural numbers is well founded.
LEMMA NatOrder ==
  \E R : IsWellFoundedOn(R, Nat) /\ \A x, y \in Nat : y < x => <<y, x>> \in R
<1>1. \A x, y \in Nat : y < x => <<y, x>> \in OpToRel(<, Nat)
  BY DEF OpToRel
<1> QED
  BY <1>1, NatLessThanWellFounded, Zenon

\* A set of natural numbers has a least element.
LEMMA LeastNat ==
  ASSUME NEW T, T \subseteq Nat, T # {}
  PROVE  \E n \in T : \A m \in T : n <= m
<1>1. PICK R : IsWellFoundedOn(R, Nat) /\ \A x, y \in Nat : y < x => <<y, x>> \in R
  BY NatOrder
<1>2. PICK n \in T : \A m \in T : ~ (<<m, n>> \in R)
  BY <1>1, WFMin
<1>3. ASSUME NEW m \in T PROVE n <= m
  <2>1. n \in Nat /\ m \in Nat
    OBVIOUS
  <2>2. ~(m < n)
    BY <2>1, <1>1, <1>2
  <2> QED
    BY <2>1, <2>2
<1> QED
  BY <1>3

\* Induction, for a set instead of a predicate.
LEMMA Induct ==
  ASSUME NEW T, 0 \in T, \A n \in Nat : n \in T => n + 1 \in T
  PROVE  Nat \subseteq T
<1> DEFINE B == Nat \ T
<1>1. ASSUME B # {} PROVE FALSE
  <2>1. B \subseteq Nat
    OBVIOUS
  <2>2. PICK n \in B : \A m \in B : n <= m
    <3> HIDE DEF B
    <3> QED
      BY <1>1, <2>1, LeastNat
  <2>3. n # 0 /\ n \in Nat
    OBVIOUS
  <2>4. n - 1 \in Nat /\ n - 1 \notin B
    BY <2>2, <2>3
  <2>5. (n - 1) + 1 \in T
    BY <2>4
  <2> QED
    BY <2>5, <2>3
<1> QED
  BY <1>1

\* There is a function that adds up the times of a list.
LEMMA SumsExist ==
  ASSUME NEW N \in Nat, NEW list
  PROVE  \E g : g = [k \in 0 .. N |-> IF k = 0 THEN 0 ELSE g[k - 1] + list[k].jiffies]
<1> DEFINE P(n) == \E g : g = [k \in 0 .. n |-> IF k = 0 THEN 0 ELSE g[k - 1] + list[k].jiffies]
           T == {n \in Nat : P(n)}
<1>1. P(0)
  <2>1. 0 .. 0 = {0}
    OBVIOUS
  <2> DEFINE h == [k \in {0} |-> 0]
  <2>2. h = [k \in 0 .. 0 |-> IF k = 0 THEN 0 ELSE h[k - 1] + list[k].jiffies]
    BY <2>1
  <2> QED
    BY <2>2
<1>2. ASSUME NEW n \in Nat, P(n) PROVE P(n + 1)
  <2>1. PICK g : g = [k \in 0 .. n |-> IF k = 0 THEN 0 ELSE g[k - 1] + list[k].jiffies]
    BY <1>2
  <2> DEFINE h == [k \in 0 .. n + 1 |-> IF k = n + 1 THEN g[n] + list[k].jiffies ELSE g[k]]
  <2>2. ASSUME NEW k \in 0 .. n + 1
        PROVE  h[k] = IF k = 0 THEN 0 ELSE h[k - 1] + list[k].jiffies
    <3>1. CASE k = n + 1
      <4>1. h[k - 1] = g[n]
        BY <3>1
      <4> QED
        BY <4>1, <3>1
    <3>2. CASE k # n + 1 /\ k # 0
      <4>1. k \in 0 .. n /\ k - 1 \in 0 .. n
        BY <3>2
      <4>2. h[k - 1] = g[k - 1] /\ h[k] = g[k]
        BY <4>1
      <4> QED
        BY <4>1, <4>2, <2>1, <3>2
    <3>3. CASE k = 0
      <4>1. 0 \in 0 .. n /\ h[k] = g[k]
        BY <3>3
      <4> QED
        BY <4>1, <2>1, <3>3
    <3> QED
      BY <3>1, <3>2, <3>3
  <2>3. h = [k \in 0 .. n + 1 |-> IF k = 0 THEN 0 ELSE h[k - 1] + list[k].jiffies]
    BY <2>2
  <2> QED
    BY <2>3
<1> HIDE DEF P
<1>3. N \in T
  <2>1. 0 \in T
    BY <1>1
  <2>2. \A n \in Nat : n \in T => n + 1 \in T
    BY <1>2
  <2> HIDE DEF T
  <2> QED
    BY <2>1, <2>2, Induct
<1>4. P(N)
  BY <1>3
<1> QED
  BY <1>4 DEF P

\* An entry expires its jiffies after the one before.
LEMMA NextExpiry ==
  ASSUME NEW list \in Seq(Entry)
  PROVE  /\ Expiry(list, 0) = 0
         /\ \A i \in 1 .. Len(list) : Expiry(list, i) = Expiry(list, i - 1) + list[i].jiffies
<1> DEFINE F(g) == [k \in 0 .. Len(list) |-> IF k = 0 THEN 0 ELSE g[k - 1] + list[k].jiffies]
<1>1. PICK s : s = CHOOSE g : g = F(g)
  OBVIOUS
<1>2. \E g : g = F(g)
  BY SumsExist, LenProperties
<1>3. \A i : Expiry(list, i) = s[i]
  BY <1>1 DEF Expiry
<1>4. s = F(s)
  <2> HIDE DEF F
  <2> QED
    BY <1>1, <1>2
<1>5. Len(list) \in Nat
  BY LenProperties
<1>6. s[0] = 0
  <2>1. 0 \in 0 .. Len(list)
    BY <1>5
  <2> QED
    BY <2>1, <1>4
<1>7. ASSUME NEW i \in 1 .. Len(list) PROVE s[i] = s[i - 1] + list[i].jiffies
  <2>1. i \in 0 .. Len(list) /\ i # 0
    BY <1>5
  <2> QED
    BY <2>1, <1>4
<1> QED
  BY <1>3, <1>6, <1>7

\* It is a number of ticks, and the later entries expire later.
LEMMA ExpiryType ==
  ASSUME NEW list \in Seq(Entry)
  PROVE  \A i \in 0 .. Len(list) : Expiry(list, i) \in Nat
<1> DEFINE T == {n \in Nat : n <= Len(list) => Expiry(list, n) \in Nat}
<1>1. 0 \in T
  BY NextExpiry
<1>2. ASSUME NEW n \in Nat, n \in T PROVE n + 1 \in T
  <2>1. SUFFICES ASSUME n + 1 <= Len(list) PROVE Expiry(list, n + 1) \in Nat
    OBVIOUS
  <2>2. Len(list) \in Nat
    BY LenProperties
  <2>3. n + 1 \in 1 .. Len(list) /\ (n + 1) - 1 = n /\ n <= Len(list)
    BY <2>1, <2>2
  <2>4. Expiry(list, n + 1) = Expiry(list, (n + 1) - 1) + list[n + 1].jiffies
    BY <2>3, NextExpiry
  <2>5. list[n + 1] \in Entry
    BY <2>3, ElementOfSeq
  <2>6. list[n + 1].jiffies \in Nat /\ Expiry(list, n) \in Nat
    BY <2>5, <2>3, <1>2 DEF Entry
  <2> QED
    BY <2>3, <2>4, <2>6
<1>3. Nat \subseteq T
  <2> HIDE DEF T
  <2> QED
    BY <1>1, <1>2, Induct
<1> QED
  BY <1>3, LenProperties

\* Two lists that have the same times for a while have the same differences.
LEMMA SameExpiry ==
  ASSUME NEW l \in Seq(Entry), NEW m \in Seq(Entry),
         NEW a \in 0 .. Len(l), NEW b \in 0 .. Len(m), NEW N \in Nat,
         a + N <= Len(l), b + N <= Len(m),
         \A k \in 1 .. N : l[a + k].jiffies = m[b + k].jiffies
  PROVE  \A n \in 0 .. N : Expiry(m, b + n) = Expiry(l, a + n) + (Expiry(m, b) - Expiry(l, a))
<1>0. PICK d : d = Expiry(m, b) - Expiry(l, a)
  OBVIOUS
<1> DEFINE T == {n \in Nat : n <= N => Expiry(m, b + n) = Expiry(l, a + n) + d}
<1>1. Len(l) \in Nat /\ Len(m) \in Nat
  BY LenProperties
<1>2. /\ \A i \in 0 .. Len(l) : Expiry(l, i) \in Nat
      /\ \A i \in 0 .. Len(m) : Expiry(m, i) \in Nat
  BY ExpiryType
<1>3. Expiry(l, a) \in Nat /\ Expiry(m, b) \in Nat /\ d \in Int
  BY <1>0, <1>2
<1>4. 0 \in T
  <2>1. a + 0 = a /\ b + 0 = b
    BY <1>1
  <2> QED
    BY <2>1, <1>3, <1>0
<1>5. ASSUME NEW n \in Nat, n \in T PROVE n + 1 \in T
  <2>1. SUFFICES ASSUME n + 1 <= N PROVE Expiry(m, b + (n + 1)) = Expiry(l, a + (n + 1)) + d
    OBVIOUS
  <2>2. /\ a + (n + 1) \in 1 .. Len(l) /\ b + (n + 1) \in 1 .. Len(m)
        /\ (a + (n + 1)) - 1 = a + n /\ (b + (n + 1)) - 1 = b + n
        /\ a + n \in 0 .. Len(l) /\ b + n \in 0 .. Len(m)
        /\ n <= N /\ n + 1 \in 1 .. N
    BY <2>1, <1>1
  <2>3. /\ Expiry(l, a + (n + 1)) = Expiry(l, a + n) + l[a + (n + 1)].jiffies
        /\ Expiry(m, b + (n + 1)) = Expiry(m, b + n) + m[b + (n + 1)].jiffies
    BY <2>2, NextExpiry
  <2>4. l[a + (n + 1)] \in Entry
    BY <2>2, ElementOfSeq
  <2>5. l[a + (n + 1)].jiffies \in Nat /\ l[a + (n + 1)].jiffies = m[b + (n + 1)].jiffies
    BY <2>2, <2>4 DEF Entry
  <2>6. Expiry(m, b + n) = Expiry(l, a + n) + d
    BY <1>5, <2>2
  <2>7. Expiry(l, a + n) \in Nat
    BY <1>2, <2>2
  <2>8. PICK x : x = l[a + (n + 1)].jiffies
    OBVIOUS
  <2>9. PICK e : e = Expiry(l, a + n)
    OBVIOUS
  <2>10. x \in Int /\ e \in Int /\ (e + d) + x = (e + x) + d
    BY <2>5, <2>7, <2>8, <2>9, <1>3
  <2>11. Expiry(m, b + (n + 1)) = (e + d) + x /\ Expiry(l, a + (n + 1)) = e + x
    BY <2>3, <2>5, <2>6, <2>8, <2>9
  <2> QED
    BY <2>10, <2>11
<1>6. Nat \subseteq T
  <2> HIDE DEF T
  <2> QED
    BY <1>4, <1>5, Induct
<1> QED
  BY <1>0, <1>6

-----------------------------------------------------------------------------
(* add_timer() and the tick *)

\* add_timer() puts the entry where its time is left over and is not used up.
LEMMA Added ==
  ASSUME NEW list \in Seq(Entry), NEW j \in Nat \ {0}, NEW fn \in TimerFns
  PROVE  \E at \in 0 .. Len(list), left \in Nat \ {0} :
           /\ AddTimer(list, j, fn) = InsertAt(list, at + 1, [jiffies |-> left, fn |-> fn, asked |-> j])
           /\ left + Expiry(list, at) = j
<1> DEFINE Rest(k) == j - Expiry(list, k)
           Stops(k) == GoesBefore(list, k, Rest(k))
           Here(k) == Stops(k) /\ \A m \in 0 .. k - 1 : ~Stops(m)
           S == {k \in 0 .. Len(list) : Stops(k)}
<1>1. Len(list) \in Nat /\ \A i \in 0 .. Len(list) : Expiry(list, i) \in Nat
  BY LenProperties, ExpiryType
<1>2. \E k \in 0 .. Len(list) : Here(k)
  <2>1. Len(list) \in S /\ S \subseteq Nat
    BY <1>1 DEF GoesBefore
  <2> HIDE DEF Stops
  <2>2. PICK k \in S : \A m \in S : k <= m
    <3> HIDE DEF S
    <3> QED
      BY <2>1, LeastNat
  <2>3. ASSUME NEW m \in 0 .. k - 1 PROVE ~Stops(m)
    <3>1. m \in 0 .. Len(list) /\ ~(k <= m)
      BY <1>1
    <3> QED
      BY <3>1, <2>2
  <2> QED
    BY <2>3
<1>3. PICK at : at = CHOOSE k \in 0 .. Len(list) : Here(k)
  OBVIOUS
<1>4. at \in 0 .. Len(list) /\ Here(at)
  <2> HIDE DEF Here
  <2> QED
    BY <1>2, <1>3
<1>5. AddTimer(list, j, fn) = InsertAt(list, at + 1, [jiffies |-> Rest(at), fn |-> fn, asked |-> j])
  BY <1>3 DEF AddTimer
<1>6. Rest(at) \in Nat \ {0}
  <2>1. CASE at = 0
    BY <2>1, NextExpiry
  <2>2. CASE at # 0
    <3>1. at - 1 \in 0 .. Len(list) /\ at \in 1 .. Len(list) /\ at - 1 \in 0 .. at - 1
      BY <2>2, <1>4, <1>1
    <3>2. ~Stops(at - 1)
      BY <3>1, <1>4
    <3>3. ~(list[(at - 1) + 1].jiffies >= Rest(at - 1))
      BY <3>2 DEF GoesBefore
    <3>4. (at - 1) + 1 = at /\ list[at] \in Entry
      BY <3>1, ElementOfSeq
    <3>5. list[at].jiffies \in Nat /\ Expiry(list, at - 1) \in Nat /\ ~(list[at].jiffies >= Rest(at - 1))
      BY <3>1, <3>3, <3>4, <1>1 DEF Entry
    <3>6. Expiry(list, at) = Expiry(list, at - 1) + list[at].jiffies
      BY <3>1, NextExpiry
    <3> QED
      BY <3>5, <3>6
  <2> QED
    BY <2>1, <2>2
<1>7. Rest(at) + Expiry(list, at) = j
  BY <1>1, <1>4
<1> HIDE DEF Rest
<1> QED
  BY <1>4, <1>5, <1>6, <1>7

NeverEarly(list) == \A i \in DOMAIN list : Expiry(list, i) >= list[i].asked

\* It makes no entry expire too early, the new one and those behind it included.
LEMMA AddedEntries ==
  ASSUME NEW list \in Seq(Entry), NEW j \in Nat \ {0}, NEW fn \in TimerFns
  PROVE  /\ AddTimer(list, j, fn) \in Seq(Entry)
         /\ Len(AddTimer(list, j, fn)) = Len(list) + 1
         /\ NeverEarly(list) => NeverEarly(AddTimer(list, j, fn))
         /\ list = <<>> \/ list[1].jiffies > 0 => AddTimer(list, j, fn)[1].jiffies > 0
         /\ list = <<>> => AddTimer(list, j, fn)[1] = [jiffies |-> j, fn |-> fn, asked |-> j]
<1>1. PICK at \in 0 .. Len(list), left \in Nat \ {0} :
        /\ AddTimer(list, j, fn) = InsertAt(list, at + 1, [jiffies |-> left, fn |-> fn, asked |-> j])
        /\ left + Expiry(list, at) = j
  BY Added
<1>2. PICK e : e = [jiffies |-> left, fn |-> fn, asked |-> j]
  OBVIOUS
<1>3. e \in Entry /\ e.jiffies = left /\ e.asked = j
  BY <1>2 DEF Entry
<1>4. PICK n : n = AddTimer(list, j, fn)
  OBVIOUS
<1>5. Len(list) \in Nat /\ DOMAIN list = 1 .. Len(list)
  BY LenProperties
<1>6. /\ n \in Seq(Entry) /\ Len(n) = Len(list) + 1
      /\ \A i \in 1 .. Len(list) + 1 :
           n[i] = IF i < at + 1 THEN list[i] ELSE IF i = at + 1 THEN e ELSE list[i - 1]
  <2>1. PICK k : k = at + 1
    OBVIOUS
  <2>2. k \in 1 .. Len(list) + 1
    BY <1>5, <2>1
  <2>3. n = InsertAt(list, k, e)
    BY <1>1, <1>2, <1>4, <2>1
  <2>4. /\ n \in Seq(Entry) /\ Len(n) = Len(list) + 1
        /\ \A i \in 1 .. Len(list) + 1 :
             n[i] = IF i < k THEN list[i] ELSE IF i = k THEN e ELSE list[i - 1]
    BY <2>2, <2>3, <1>3, Inserted
  <2> QED
    BY <2>1, <2>4
<1>7. DOMAIN n = 1 .. Len(list) + 1
  BY <1>6, LenProperties
<1>8. /\ Expiry(n, 0) = 0 /\ Expiry(list, 0) = 0
      /\ \A i \in 0 .. Len(list) : Expiry(list, i) \in Nat
  BY <1>6, NextExpiry, ExpiryType
<1>9. \A i \in 0 .. at : Expiry(n, i) = Expiry(list, i)
  <2>1. \A k \in 1 .. at : list[0 + k].jiffies = n[0 + k].jiffies
    BY <1>5, <1>6
  <2>2. 0 \in 0 .. Len(list) /\ 0 \in 0 .. Len(n) /\ at \in Nat /\ 0 + at <= Len(list) /\ 0 + at <= Len(n)
    BY <1>5, <1>6
  <2>3. \A i \in 0 .. at :
          Expiry(n, 0 + i) = Expiry(list, 0 + i) + (Expiry(n, 0) - Expiry(list, 0))
    BY <2>1, <2>2, <1>6, SameExpiry
  <2>4. ASSUME NEW i \in 0 .. at PROVE Expiry(n, i) = Expiry(list, i)
    <3>1. 0 + i = i /\ i \in 0 .. Len(list)
      BY <1>5
    <3>2. Expiry(n, i) = Expiry(list, i) + (0 - 0)
      BY <2>3, <3>1, <1>8
    <3> QED
      BY <3>1, <3>2, <1>8
  <2> QED
    BY <2>4
<1>10. Expiry(n, at + 1) = j
  <2>1. at + 1 \in 1 .. Len(n) /\ (at + 1) - 1 = at /\ n[at + 1] = e
    BY <1>5, <1>6
  <2>2. Expiry(n, at + 1) = Expiry(n, at) + n[at + 1].jiffies
    BY <2>1, <1>6, NextExpiry
  <2>3. Expiry(n, at) = Expiry(list, at) /\ Expiry(list, at) \in Nat
    BY <1>8, <1>9
  <2> QED
    BY <2>1, <2>2, <2>3, <1>1, <1>3
<1>11. \A i \in 0 .. Len(list) - at : Expiry(n, (at + 1) + i) = Expiry(list, at + i) + left
  <2>1. ASSUME NEW k \in 1 .. Len(list) - at
        PROVE  list[at + k].jiffies = n[(at + 1) + k].jiffies
    <3>1. /\ (at + 1) + k \in 1 .. Len(list) + 1 /\ ~((at + 1) + k < at + 1) /\ (at + 1) + k # at + 1
          /\ ((at + 1) + k) - 1 = at + k
      BY <1>5
    <3> QED
      BY <3>1, <1>6
  <2>2. /\ at + 1 \in 0 .. Len(n) /\ Len(list) - at \in Nat
        /\ at + (Len(list) - at) <= Len(list) /\ (at + 1) + (Len(list) - at) <= Len(n)
    BY <1>5, <1>6
  <2>3. \A i \in 0 .. Len(list) - at :
          Expiry(n, (at + 1) + i) = Expiry(list, at + i) + (Expiry(n, at + 1) - Expiry(list, at))
    BY <2>1, <2>2, <1>6, SameExpiry
  <2>4. Expiry(n, at + 1) - Expiry(list, at) = left
    BY <1>1, <1>8, <1>10
  <2> QED
    BY <2>3, <2>4
<1>12. ASSUME NeverEarly(list) PROVE NeverEarly(n)
  <2>1. SUFFICES ASSUME NEW i \in 1 .. Len(list) + 1 PROVE Expiry(n, i) >= n[i].asked
    BY <1>7 DEF NeverEarly
  <2>2. CASE i < at + 1
    <3>1. i \in 0 .. at /\ i \in 1 .. Len(list) /\ n[i] = list[i]
      BY <2>2, <1>5, <1>6
    <3>2. Expiry(list, i) >= list[i].asked
      BY <3>1, <1>5, <1>12 DEF NeverEarly
    <3> QED
      BY <3>1, <3>2, <1>9
  <2>3. CASE i = at + 1
    <3>1. n[i] = e
      BY <2>3, <1>6, <1>5
    <3> QED
      BY <2>3, <3>1, <1>10, <1>3
  <2>4. CASE i > at + 1
    <3>1. /\ i - 1 \in 1 .. Len(list) /\ n[i] = list[i - 1]
          /\ (i - 1) - at \in 0 .. Len(list) - at
          /\ (at + 1) + ((i - 1) - at) = i /\ at + ((i - 1) - at) = i - 1
      BY <2>4, <1>5, <1>6
    <3>2. Expiry(list, i - 1) >= list[i - 1].asked
      BY <3>1, <1>5, <1>12 DEF NeverEarly
    <3>3. Expiry(n, (at + 1) + ((i - 1) - at)) = Expiry(list, at + ((i - 1) - at)) + left
      BY <3>1, <1>11
    <3>4. Expiry(n, i) = Expiry(list, i - 1) + left
      BY <3>1, <3>3
    <3>5. list[i - 1] \in Entry
      BY <3>1, ElementOfSeq
    <3>6. list[i - 1].asked \in Nat /\ Expiry(list, i - 1) \in Nat
      <4>1. list[i - 1].asked \in Nat
        BY <3>5, SMTT(30) DEF Entry
      <4>2. i - 1 \in 0 .. Len(list)
        BY <3>1, <1>5
      <4> HIDE DEF Entry
      <4> QED
        BY <4>1, <4>2, <1>8
    <3>7. \A x, y, z \in Nat : x >= y => x + z >= y
      OBVIOUS
    <3>8. Expiry(list, i - 1) + left >= list[i - 1].asked
      BY <3>2, <3>6, <3>7
    <3> QED
      BY <3>1, <3>4, <3>8
  <2> QED
    BY <2>2, <2>3, <2>4, <1>5
<1>13. ASSUME list = <<>> \/ list[1].jiffies > 0 PROVE n[1].jiffies > 0
  <2>1. CASE at = 0
    <3>1. n[1] = e
      BY <2>1, <1>5, <1>6
    <3> QED
      BY <3>1, <1>3
  <2>2. CASE at # 0
    <3>1. Len(list) > 0 /\ n[1] = list[1]
      BY <2>2, <1>5, <1>6
    <3>2. list # <<>>
      BY <3>1, EmptySeq
    <3> QED
      BY <3>1, <3>2, <1>13
  <2> QED
    BY <2>1, <2>2
<1>14. ASSUME list = <<>> PROVE n[1] = [jiffies |-> j, fn |-> fn, asked |-> j]
  <2>1. Len(list) = 0 /\ at = 0
    BY <1>14, EmptySeq
  <2>2. n[1] = e /\ left = j
    BY <2>1, <1>1, <1>6, <1>8
  <2> QED
    BY <2>2, <1>2
<1> QED
  BY <1>4, <1>6, <1>12, <1>13, <1>14

\* A tick brings every entry one tick nearer.
LEMMA TickTimers ==
  ASSUME TimerInv, Tick
  PROVE  /\ TimerInv'
         /\ Len(timers') = Len(timers) /\ timerPc' = "run" /\ timerPc = "idle"
         /\ (timers' = <<>>) <=> (timers = <<>>)
         /\ timers # <<>> => timers'[1].fn = timers[1].fn /\ timers'[1].jiffies = timers[1].jiffies - 1
                             /\ timers[1].jiffies \in Nat \ {0}
<1>1. timers \in Seq(Entry) /\ Len(timers) \in Nat /\ DOMAIN timers = 1 .. Len(timers)
  BY LenProperties DEF TimerInv
<1>2. PICK m : m = [i \in 1 .. Len(timers) |->
                      [timers[i] EXCEPT !.jiffies = IF i = 1 THEN @ - 1 ELSE @,
                                        !.asked = IF @ > 0 THEN @ - 1 ELSE 0]]
  OBVIOUS
<1>3. timers' = m /\ timerPc' = "run" /\ timerPc = "idle"
  BY <1>1, <1>2 DEF Tick
<1>4. ASSUME timers # <<>> PROVE Len(timers) >= 1 /\ timers[1].jiffies > 0
  <2>1. Len(timers) # 0
    BY <1>4, <1>1, EmptySeq
  <2> QED
    BY <2>1, <1>1, <1>3, <1>4 DEF TimerInv
<1>5. ASSUME NEW i \in 1 .. Len(timers)
      PROVE  /\ m[i] \in Entry /\ m[i].fn = timers[i].fn
             /\ m[i].jiffies = IF i = 1 THEN timers[i].jiffies - 1 ELSE timers[i].jiffies
             /\ m[i].asked = IF timers[i].asked > 0 THEN timers[i].asked - 1 ELSE 0
  <2>1. timers[i] \in Entry
    BY <1>1, ElementOfSeq
  <2>2. i = 1 => timers[i].jiffies > 0
    BY <1>1, <1>4, EmptySeq
  <2>3. PICK x : x = timers[i]
    OBVIOUS
  <2>4. PICK jf : jf = IF i = 1 THEN x.jiffies - 1 ELSE x.jiffies
    OBVIOUS
  <2>5. PICK as : as = IF x.asked > 0 THEN x.asked - 1 ELSE 0
    OBVIOUS
  <2>6. x \in Entry /\ (i = 1 => x.jiffies > 0)
    BY <2>1, <2>2, <2>3
  <2>7. jf \in Nat /\ as \in Nat
    BY <2>4, <2>5, <2>6 DEF Entry
  <2>8. m[i] = [x EXCEPT !.jiffies = jf, !.asked = as]
    BY <1>2, <2>3, <2>4, <2>5
  <2>9. m[i] \in Entry /\ m[i].fn = x.fn /\ m[i].jiffies = jf /\ m[i].asked = as
    BY <2>6, <2>7, <2>8 DEF Entry
  <2> QED
    BY <2>3, <2>4, <2>5, <2>9
<1>6. m \in Seq(Entry) /\ Len(m) = Len(timers)
  <2>1. m \in [1 .. Len(timers) -> Entry]
    BY <1>2, <1>5
  <2> QED
    BY <2>1, <1>1
<1>7. (m = <<>>) <=> (timers = <<>>)
  BY <1>1, <1>6, EmptySeq
<1>8. ASSUME timers # <<>>
      PROVE  /\ m[1].fn = timers[1].fn /\ m[1].jiffies = timers[1].jiffies - 1
             /\ timers[1].jiffies \in Nat \ {0}
  <2>1. 1 \in 1 .. Len(timers) /\ timers[1].jiffies > 0
    BY <1>4, <1>8, <1>1
  <2>2. timers[1] \in Entry
    BY <2>1, <1>1, ElementOfSeq
  <2>3. m[1].jiffies = timers[1].jiffies - 1 /\ m[1].fn = timers[1].fn
    BY <2>1, <1>5
  <2> QED
    BY <2>1, <2>2, <2>3 DEF Entry
<1>9. NeverEarly(m)
  <2>1. SUFFICES ASSUME NEW i \in 1 .. Len(timers) PROVE Expiry(m, i) >= m[i].asked
    BY <1>6, LenProperties DEF NeverEarly
  <2>2. timers # <<>> /\ 1 \in 1 .. Len(timers)
    BY <1>1, EmptySeq
  <2>3. Expiry(m, 1) = m[1].jiffies /\ Expiry(timers, 1) = timers[1].jiffies
    <3>1. 1 \in 1 .. Len(m) /\ 1 - 1 = 0
      BY <2>2, <1>6
    <3>2. /\ Expiry(m, 1) = Expiry(m, 0) + m[1].jiffies /\ Expiry(m, 0) = 0
          /\ Expiry(timers, 1) = Expiry(timers, 0) + timers[1].jiffies /\ Expiry(timers, 0) = 0
      BY <3>1, <2>2, <1>1, <1>6, NextExpiry
    <3>3. m[1] \in Entry /\ timers[1] \in Entry
      BY <2>2, <1>1, <1>5, ElementOfSeq
    <3> QED
      BY <3>2, <3>3 DEF Entry
  <2>4. \A n \in 0 .. Len(timers) - 1 :
          Expiry(m, 1 + n) = Expiry(timers, 1 + n) + (Expiry(m, 1) - Expiry(timers, 1))
    <3>1. ASSUME NEW k \in 1 .. Len(timers) - 1 PROVE timers[1 + k].jiffies = m[1 + k].jiffies
      <4>1. 1 + k \in 1 .. Len(timers) /\ 1 + k # 1
        BY <1>1
      <4> QED
        BY <4>1, <1>5
    <3>2. /\ 1 \in 0 .. Len(timers) /\ 1 \in 0 .. Len(m) /\ Len(timers) - 1 \in Nat
          /\ 1 + (Len(timers) - 1) <= Len(timers) /\ 1 + (Len(timers) - 1) <= Len(m)
      BY <2>2, <1>1, <1>6
    <3> QED
      BY <3>1, <3>2, <1>1, <1>6, SameExpiry
  <2>5. i - 1 \in 0 .. Len(timers) - 1 /\ 1 + (i - 1) = i
    BY <1>1
  <2>6. Expiry(m, i) = Expiry(timers, i) + (Expiry(m, 1) - Expiry(timers, 1))
    BY <2>4, <2>5
  <2>7. Expiry(m, 1) - Expiry(timers, 1) = 0 - 1
    BY <2>2, <2>3, <1>8
  <2>8. Expiry(timers, i) \in Nat /\ Expiry(m, i) \in Nat
    BY <1>1, <1>6, ExpiryType
  <2>9. Expiry(timers, i) >= timers[i].asked
    BY <1>1 DEF TimerInv, TimersNeverEarly
  <2>10. timers[i] \in Entry
    BY <1>1, ElementOfSeq
  <2>11. timers[i].asked \in Nat
    BY <2>10 DEF Entry
  <2>12. m[i].asked = IF timers[i].asked > 0 THEN timers[i].asked - 1 ELSE 0
    BY <1>5
  <2>13. Expiry(m, i) = Expiry(timers, i) - 1
    BY <2>6, <2>7, <2>8
  <2>14. \A x, a, y \in Nat : y = x - 1 /\ x >= a => y >= IF a > 0 THEN a - 1 ELSE 0
    OBVIOUS
  <2> QED
    BY <2>8, <2>9, <2>11, <2>12, <2>13, <2>14
<1>10. TimerInv'
  BY <1>3, <1>6, <1>9 DEF TimerInv, TimersNeverEarly, NeverEarly
<1> QED
  BY <1>3, <1>6, <1>7, <1>8, <1>10

\* The function at the head of the list is called when its time has come.
LEMMA ExpireTimers ==
  ASSUME TimerInv, NEW fn, Expire(fn)
  PROVE  /\ TimerInv'
         /\ timers # <<>> /\ timers[1].fn = fn /\ timers[1].jiffies = 0
         /\ Len(timers') = Len(timers) - 1 /\ timerPc = "run" /\ timerPc' = "run"
<1>1. timers \in Seq(Entry) /\ Len(timers) \in Nat /\ DOMAIN timers = 1 .. Len(timers)
  BY LenProperties DEF TimerInv
<1>2. PICK m : m = Tail(timers)
  OBVIOUS
<1>3. /\ timers' = m /\ timerPc' = "run" /\ timerPc = "run"
      /\ timers # <<>> /\ Head(timers).jiffies <= 0 /\ Head(timers).fn = fn
  BY <1>2 DEF Expire, Expired, TimerInv
<1>4. /\ m \in Seq(Entry) /\ Len(m) = Len(timers) - 1
      /\ \A i \in 1 .. Len(m) : m[i] = timers[i + 1]
  BY <1>1, <1>2, <1>3, HeadTailProperties
<1>5. Len(timers) > 0 /\ 1 \in 1 .. Len(timers) /\ Head(timers) = timers[1]
  BY <1>1, <1>3, EmptySeq
<1>6. timers[1] \in Entry
  BY <1>1, <1>5, ElementOfSeq
<1>7. timers[1].jiffies = 0 /\ timers[1].fn = fn
  BY <1>3, <1>5, <1>6 DEF Entry
<1>8. NeverEarly(m)
  <2>1. SUFFICES ASSUME NEW i \in 1 .. Len(m) PROVE Expiry(m, i) >= m[i].asked
    BY <1>4, LenProperties DEF NeverEarly
  <2>2. Expiry(timers, 1) = 0 /\ Expiry(m, 0) = 0
    <3>1. Expiry(timers, 1) = Expiry(timers, 1 - 1) + timers[1].jiffies /\ Expiry(timers, 0) = 0
      BY <1>1, <1>5, NextExpiry
    <3>2. 1 - 1 = 0 /\ Expiry(m, 0) = 0
      BY <1>4, NextExpiry
    <3> QED
      BY <3>1, <3>2, <1>7
  <2>3. \A n \in 0 .. Len(m) :
          Expiry(m, 0 + n) = Expiry(timers, 1 + n) + (Expiry(m, 0) - Expiry(timers, 1))
    <3>1. ASSUME NEW k \in 1 .. Len(m) PROVE timers[1 + k].jiffies = m[0 + k].jiffies
      <4>1. 0 + k = k /\ 1 + k = k + 1
        BY <1>4, <1>1
      <4> QED
        BY <4>1, <1>4
    <3>2. /\ 1 \in 0 .. Len(timers) /\ 0 \in 0 .. Len(m) /\ Len(m) \in Nat
          /\ 1 + Len(m) <= Len(timers) /\ 0 + Len(m) <= Len(m)
      BY <1>1, <1>4, <1>5
    <3> QED
      BY <3>1, <3>2, <1>1, <1>4, SameExpiry
  <2>4. i \in 0 .. Len(m) /\ 0 + i = i /\ 1 + i = i + 1 /\ i + 1 \in 1 .. Len(timers)
    BY <1>1, <1>4
  <2>5. Expiry(m, i) = Expiry(timers, i + 1) + (0 - 0)
    BY <2>2, <2>3, <2>4
  <2>6. Expiry(timers, i + 1) \in Nat
    BY <2>4, <1>1, ExpiryType
  <2>7. Expiry(timers, i + 1) >= timers[i + 1].asked
    BY <2>4, <1>1 DEF TimerInv, TimersNeverEarly
  <2> QED
    BY <2>5, <2>6, <2>7, <1>4
<1>9. TimerInv'
  BY <1>3, <1>4, <1>8 DEF TimerInv, TimersNeverEarly, NeverEarly
<1> QED
  BY <1>3, <1>4, <1>7, <1>9

\* do_timer()'s loop ends at an entry that has time left.
LEMMA DoneTimers ==
  ASSUME TimerInv, TickDone
  PROVE  TimerInv' /\ timers' = timers /\ timerPc = "run" /\ timerPc' = "idle"
<1>1. timers \in Seq(Entry) /\ Len(timers) \in Nat
  BY LenProperties DEF TimerInv
<1>2. ASSUME timers # <<>> PROVE timers[1].jiffies > 0
  <2>1. 1 \in 1 .. Len(timers) /\ Head(timers) = timers[1]
    BY <1>1, <1>2, EmptySeq
  <2>2. timers[1] \in Entry
    BY <1>1, <2>1, ElementOfSeq
  <2> QED
    BY <1>2, <2>1, <2>2 DEF TickDone, Expired, Entry
<1>3. timers' = timers /\ timerPc = "run" /\ timerPc' = "idle"
  BY DEF TickDone
<1>4. TimersNeverEarly'
  BY <1>3 DEF TimerInv, TimersNeverEarly
<1> QED
  BY <1>2, <1>3, <1>4 DEF TimerInv

\* An entry is added.
LEMMA AddTimers ==
  ASSUME TimerInv, NEW j \in Nat \ {0}, NEW fn \in TimerFns,
         timers' = AddTimer(timers, j, fn), timerPc' = timerPc
  PROVE  /\ TimerInv' /\ Len(timers') = Len(timers) + 1 /\ timers' # <<>>
         /\ timers = <<>> => timers'[1] = [jiffies |-> j, fn |-> fn, asked |-> j]
<1>1. timers \in Seq(Entry) /\ Len(timers) \in Nat
  BY LenProperties DEF TimerInv
<1>2. NeverEarly(timers)
  BY DEF TimerInv, TimersNeverEarly, NeverEarly
<1>3. PICK m : m = AddTimer(timers, j, fn)
  OBVIOUS
<1>4. /\ m \in Seq(Entry) /\ Len(m) = Len(timers) + 1 /\ NeverEarly(m)
      /\ timers = <<>> \/ timers[1].jiffies > 0 => m[1].jiffies > 0
      /\ timers = <<>> => m[1] = [jiffies |-> j, fn |-> fn, asked |-> j]
  BY <1>1, <1>2, <1>3, AddedEntries
<1>5. m # <<>>
  BY <1>1, <1>4, EmptySeq
<1>6. TimerInv'
  <2>1. timers' = m /\ timerPc' = timerPc
    BY <1>3
  <2>2. timerPc # "run" => m[1].jiffies > 0
    BY <1>4 DEF TimerInv
  <2>3. TimersNeverEarly'
    BY <2>1, <1>4 DEF TimersNeverEarly, NeverEarly
  <2> QED
    BY <2>1, <2>2, <2>3, <1>4 DEF TimerInv
<1> QED
  BY <1>3, <1>4, <1>5, <1>6

-----------------------------------------------------------------------------
(* The motors *)

\* The fields of the motors' state.
LEMMA MotorFields ==
  ASSUME NEW m \in Motors
  PROVE  /\ m.selected \in BOOLEAN /\ m.sel \in FdDrives /\ m.on \subseteq FdDrives
         /\ m.mon \in [FdDrives -> 0 .. FdSpinUp] /\ m.moff \in [FdDrives -> 0 .. Forever]
         /\ m.spun \in [FdDrives -> 0 .. FdSpinUp]
         /\ \A d \in FdDrives : m.mon[d] \in Nat /\ m.moff[d] \in Nat /\ m.spun[d] \in Nat
<1>1. FdSpinUp \in Nat /\ Forever \in Nat
  BY FdAssumption DEF Forever
<1> QED
  BY <1>1 DEF Motors

\* ticks_to_floppy_on() turns a motor on and keeps the others as they are.
LEMMA KeptMotor ==
  ASSUME motor \in Motors, NEW nr \in FdDrives, NEW m, m = TicksToFloppyOn(nr)
  PROVE  /\ m \in Motors /\ m.selected = motor.selected
         /\ motor.selected => m.sel = motor.sel
         /\ m.on = motor.on \cup {nr} /\ m.spun = motor.spun
         /\ \A d \in FdDrives : m.moff[d] = IF d = nr THEN Forever ELSE motor.moff[d]
         /\ \A d \in motor.on : m.mon[d] >= motor.mon[d]
         /\ nr \notin motor.on => m.mon[nr] = FdSpinUp
<1> DEFINE sel == IF motor.selected THEN motor.sel ELSE nr
           mon == IF nr \notin motor.on THEN FdSpinUp
                  ELSE IF sel # motor.sel /\ motor.mon[nr] < 2 THEN 2
                  ELSE motor.mon[nr]
<1>1. /\ motor.selected \in BOOLEAN /\ motor.sel \in FdDrives /\ motor.on \subseteq FdDrives
      /\ motor.mon \in [FdDrives -> 0 .. FdSpinUp] /\ motor.moff \in [FdDrives -> 0 .. Forever]
      /\ motor.spun \in [FdDrives -> 0 .. FdSpinUp]
      /\ \A d \in FdDrives : motor.mon[d] \in Nat
  BY MotorFields
<1>2. sel \in FdDrives /\ (motor.selected => sel = motor.sel)
  BY <1>1
<1>3. FdSpinUp \in Nat /\ FdSpinUp >= 2 /\ Forever \in Nat
  BY FdAssumption DEF Forever
<1>4. /\ mon \in 0 .. FdSpinUp
      /\ nr \in motor.on => mon >= motor.mon[nr]
      /\ nr \notin motor.on => mon = FdSpinUp
  BY <1>1, <1>3
<1>5. PICK s, n : s = sel /\ n = mon
  OBVIOUS
<1>6. m = [motor EXCEPT !.sel = s, !.on = motor.on \cup {nr},
                        !.mon = [motor.mon EXCEPT ![nr] = n],
                        !.moff = [motor.moff EXCEPT ![nr] = Forever]]
  BY <1>5 DEF TicksToFloppyOn, KeptOn, Motors
<1>7. /\ m.selected = motor.selected /\ m.sel = s /\ m.on = motor.on \cup {nr}
      /\ m.mon = [motor.mon EXCEPT ![nr] = n] /\ m.moff = [motor.moff EXCEPT ![nr] = Forever]
      /\ m.spun = motor.spun
  BY <1>6 DEF Motors
<1>8. m \in Motors
  <2>1. /\ s \in FdDrives /\ n \in 0 .. FdSpinUp /\ Forever \in 0 .. Forever
        /\ motor.on \cup {nr} \in SUBSET FdDrives
    BY <1>1, <1>2, <1>3, <1>4, <1>5
  <2>2. /\ [motor.mon EXCEPT ![nr] = n] \in [FdDrives -> 0 .. FdSpinUp]
        /\ [motor.moff EXCEPT ![nr] = Forever] \in [FdDrives -> 0 .. Forever]
    BY <1>1, <2>1
  <2> QED
    BY <1>6, <2>1, <2>2 DEF Motors
<1>9. \A d \in FdDrives : m.moff[d] = IF d = nr THEN Forever ELSE motor.moff[d]
  BY <1>7, <1>1
<1>10. ASSUME NEW d \in motor.on PROVE m.mon[d] >= motor.mon[d]
  <2>1. d \in FdDrives /\ motor.mon[d] \in Nat
    BY <1>1
  <2>2. CASE d = nr
    BY <2>1, <2>2, <1>1, <1>4, <1>5, <1>7
  <2>3. CASE d # nr
    BY <2>1, <2>3, <1>1, <1>7
  <2> QED
    BY <2>2, <2>3
<1>11. nr \notin motor.on => m.mon[nr] = FdSpinUp
  BY <1>1, <1>4, <1>5, <1>7
<1> QED
  BY <1>2, <1>5, <1>7, <1>8, <1>9, <1>10, <1>11

\* floppy_off() only sets the motor's time to run on.
LEMMA OffMotor ==
  ASSUME NEW k \in Motors, NEW nr \in FdDrives, NEW m, m = FloppyOff(k, nr)
  PROVE  /\ m \in Motors /\ m.selected = k.selected /\ m.sel = k.sel
         /\ m.on = k.on /\ m.spun = k.spun /\ m.mon = k.mon
         /\ \A d \in FdDrives : m.moff[d] = IF d = nr THEN FdOffDelay ELSE k.moff[d]
<1>1. k.moff \in [FdDrives -> 0 .. Forever] /\ FdOffDelay \in 0 .. Forever
  BY MotorFields, FdAssumption DEF Forever
<1>2. m = [k EXCEPT !.moff = [k.moff EXCEPT ![nr] = FdOffDelay]]
  BY DEF FloppyOff, Motors
<1>3. [k.moff EXCEPT ![nr] = FdOffDelay] \in [FdDrives -> 0 .. Forever]
  BY <1>1
<1>4. m \in Motors
  BY <1>2, <1>3 DEF Motors
<1> QED
  BY <1>1, <1>2, <1>4 DEF Motors

\* do_floppy_timer() counts down, and turns off a motor that has run on long enough.
LEMMA TimerMotor ==
  ASSUME motor \in Motors, NEW m, m = DoFloppyTimer
  PROVE  /\ m \in Motors /\ m.selected = motor.selected /\ m.sel = motor.sel
         /\ m.on = {d \in motor.on : ~(motor.mon[d] = 0 /\ motor.moff[d] = 0)}
         /\ \A d \in m.on :
              /\ m.spun[d] = IF motor.spun[d] < FdSpinUp THEN motor.spun[d] + 1 ELSE motor.spun[d]
              /\ m.mon[d] = IF motor.mon[d] > 0 THEN motor.mon[d] - 1 ELSE motor.mon[d]
              /\ m.moff[d] = IF motor.mon[d] = 0 /\ motor.moff[d] # Forever /\ motor.moff[d] > 0
                             THEN motor.moff[d] - 1 ELSE motor.moff[d]
<1> DEFINE off == {d \in motor.on : motor.mon[d] = 0 /\ motor.moff[d] = 0}
           Less(n, runs) == IF runs /\ n > 0 THEN n - 1 ELSE n
           mon == [d \in FdDrives |-> Less(motor.mon[d], d \in motor.on)]
           moff == [d \in FdDrives |->
                      Less(motor.moff[d], d \in motor.on /\ motor.mon[d] = 0 /\ motor.moff[d] # Forever)]
           spun == [d \in FdDrives |-> IF d \in off THEN 0
                                       ELSE IF d \in motor.on /\ motor.spun[d] < FdSpinUp
                                       THEN motor.spun[d] + 1 ELSE motor.spun[d]]
<1>1. /\ motor.on \subseteq FdDrives
      /\ motor.mon \in [FdDrives -> 0 .. FdSpinUp] /\ motor.moff \in [FdDrives -> 0 .. Forever]
      /\ motor.spun \in [FdDrives -> 0 .. FdSpinUp]
      /\ \A d \in FdDrives : motor.mon[d] \in Nat /\ motor.moff[d] \in Nat /\ motor.spun[d] \in Nat
  BY MotorFields
<1>2. FdSpinUp \in Nat /\ Forever \in Nat
  BY FdAssumption DEF Forever
<1>3. /\ mon \in [FdDrives -> 0 .. FdSpinUp] /\ moff \in [FdDrives -> 0 .. Forever]
      /\ spun \in [FdDrives -> 0 .. FdSpinUp]
  <2>1. ASSUME NEW d \in FdDrives PROVE mon[d] \in 0 .. FdSpinUp
    BY <1>1, <1>2
  <2>2. ASSUME NEW d \in FdDrives PROVE moff[d] \in 0 .. Forever
    BY <1>1, <1>2
  <2>3. ASSUME NEW d \in FdDrives PROVE spun[d] \in 0 .. FdSpinUp
    <3> HIDE DEF off
    <3> QED
      BY <1>1, <1>2
  <2> QED
    BY <2>1, <2>2, <2>3
<1>4. PICK a, b, c, o : a = mon /\ b = moff /\ c = spun /\ o = motor.on \ off
  OBVIOUS
<1>5. m = [motor EXCEPT !.on = o, !.mon = a, !.moff = b, !.spun = c]
  BY <1>4 DEF DoFloppyTimer
<1>6. /\ m.on = o /\ m.mon = a /\ m.moff = b /\ m.spun = c
      /\ m.selected = motor.selected /\ m.sel = motor.sel
  BY <1>5 DEF Motors
<1>7. m \in Motors
  <2>1. o \in SUBSET FdDrives
    BY <1>1, <1>4
  <2>2. /\ a \in [FdDrives -> 0 .. FdSpinUp] /\ b \in [FdDrives -> 0 .. Forever]
        /\ c \in [FdDrives -> 0 .. FdSpinUp]
    BY <1>3, <1>4
  <2> QED
    BY <1>5, <2>1, <2>2 DEF Motors
<1>8. m.on = {d \in motor.on : ~(motor.mon[d] = 0 /\ motor.moff[d] = 0)}
  BY <1>4, <1>6
<1>9. ASSUME NEW d \in m.on
      PROVE  /\ m.spun[d] = IF motor.spun[d] < FdSpinUp THEN motor.spun[d] + 1 ELSE motor.spun[d]
             /\ m.mon[d] = IF motor.mon[d] > 0 THEN motor.mon[d] - 1 ELSE motor.mon[d]
             /\ m.moff[d] = IF motor.mon[d] = 0 /\ motor.moff[d] # Forever /\ motor.moff[d] > 0
                            THEN motor.moff[d] - 1 ELSE motor.moff[d]
  <2>1. d \in motor.on /\ d \in FdDrives /\ d \notin off
    BY <1>1, <1>8
  <2>2. m.spun[d] = IF motor.spun[d] < FdSpinUp THEN motor.spun[d] + 1 ELSE motor.spun[d]
    <3> HIDE DEF off
    <3> QED
      BY <2>1, <1>4, <1>6
  <2>3. m.mon[d] = IF motor.mon[d] > 0 THEN motor.mon[d] - 1 ELSE motor.mon[d]
    BY <2>1, <1>4, <1>6
  <2>4. m.moff[d] = IF motor.mon[d] = 0 /\ motor.moff[d] # Forever /\ motor.moff[d] > 0
                    THEN motor.moff[d] - 1 ELSE motor.moff[d]
    BY <2>1, <1>4, <1>6
  <2> QED
    BY <2>2, <2>3, <2>4
<1> QED
  BY <1>6, <1>7, <1>8, <1>9

\* What a motor's speed is worth after each of them.
LEMMA KeptSpeed ==
  ASSUME motor \in Motors, Speed(motor), NEW nr \in FdDrives, NEW m, m = TicksToFloppyOn(nr)
  PROVE  Speed(m)
<1>1. /\ m \in Motors /\ m.on = motor.on \cup {nr} /\ m.spun = motor.spun
      /\ \A d \in motor.on : m.mon[d] >= motor.mon[d]
      /\ nr \notin motor.on => m.mon[nr] = FdSpinUp
  BY KeptMotor
<1>2. SUFFICES ASSUME NEW d \in m.on PROVE m.spun[d] + m.mon[d] >= FdSpinUp
  BY DEF Speed
<1>3. d \in FdDrives /\ m.spun[d] \in Nat /\ m.mon[d] \in Nat /\ motor.mon[d] \in Nat /\ FdSpinUp \in Nat
  BY <1>1, MotorFields, FdAssumption
<1>4. CASE d \in motor.on
  <2>1. motor.spun[d] + motor.mon[d] >= FdSpinUp /\ m.mon[d] >= motor.mon[d]
    BY <1>1, <1>4 DEF Speed
  <2> QED
    BY <2>1, <1>1, <1>3
<1>5. CASE d \notin motor.on
  BY <1>5, <1>1, <1>2, <1>3
<1> QED
  BY <1>4, <1>5

LEMMA TimerSpeed ==
  ASSUME motor \in Motors, Speed(motor), NEW m, m = DoFloppyTimer
  PROVE  Speed(m)
<1>1. SUFFICES ASSUME NEW d \in m.on PROVE m.spun[d] + m.mon[d] >= FdSpinUp
  BY DEF Speed
<1>2. /\ d \in motor.on
      /\ m.spun[d] = IF motor.spun[d] < FdSpinUp THEN motor.spun[d] + 1 ELSE motor.spun[d]
      /\ m.mon[d] = IF motor.mon[d] > 0 THEN motor.mon[d] - 1 ELSE motor.mon[d]
  BY TimerMotor
<1>3. motor.mon[d] \in Nat /\ motor.spun[d] \in Nat /\ FdSpinUp \in Nat
  BY <1>2, MotorFields, FdAssumption
<1>4. motor.spun[d] + motor.mon[d] >= FdSpinUp
  BY <1>2 DEF Speed
<1> QED
  BY <1>2, <1>3, <1>4

\* A motor that is needed stays on when some motor is turned on, ...
LEMMA RunsKept ==
  ASSUME motor \in Motors, NEW nr \in FdDrives, NEW m, m = TicksToFloppyOn(nr),
         NEW d \in FdDrives, NEW s \in BOOLEAN, NEW j, s => j \in Nat,
         NEW rem \in Nat, NEW tick \in 0 .. 1, RunsOn(motor, d, s, j, rem, tick)
  PROVE  RunsOn(m, d, s, j, rem, tick)
<1>1. /\ m \in Motors /\ m.on = motor.on \cup {nr} /\ m.spun = motor.spun
      /\ m.moff[d] = IF d = nr THEN Forever ELSE motor.moff[d]
      /\ d \in motor.on => m.mon[d] >= motor.mon[d]
  BY KeptMotor
<1>2. /\ motor.mon[d] \in Nat /\ motor.moff[d] \in Nat
      /\ m.mon[d] \in Nat /\ m.moff[d] \in Nat
  BY <1>1, MotorFields
<1>3. d \in motor.on
  BY DEF RunsOn
<1>4. s => m.spun[d] + j >= FdSpinUp - tick /\ m.mon[d] >= j + tick
  BY <1>1, <1>2, <1>3 DEF RunsOn
<1>5. ~s => m.spun[d] >= FdSpinUp - 1
  BY <1>1 DEF RunsOn
<1>6. m.moff[d] = Forever \/ m.mon[d] + m.moff[d] >= rem + tick
  BY <1>1, <1>2, <1>3 DEF RunsOn
<1> QED
  BY <1>1, <1>3, <1>4, <1>5, <1>6 DEF RunsOn

\* ... and when floppy_change() lets go of it: it runs on for long enough, ...
LEMMA RunsOff ==
  ASSUME motor \in Motors, NEW nr \in FdDrives, NEW m, m = FloppyOff(motor, nr),
         NEW d \in FdDrives, NEW s \in BOOLEAN, NEW j, s => j \in Nat,
         NEW rem \in Nat, rem <= (IF s THEN j ELSE 0) + 2 + 2 * FdOpTicks,
         RunsOn(motor, d, s, j, rem, 0)
  PROVE  RunsOn(m, d, s, j, rem, 0)
<1>1. /\ m \in Motors /\ m.on = motor.on /\ m.spun = motor.spun /\ m.mon = motor.mon
      /\ m.moff[d] = IF d = nr THEN FdOffDelay ELSE motor.moff[d]
  BY OffMotor
<1>2. motor.mon[d] \in Nat /\ FdOffDelay \in Nat /\ FdOpTicks \in Nat
      /\ FdOffDelay >= 2 + 2 * FdOpTicks
  BY MotorFields, FdAssumption
<1>3. m.moff[d] = Forever \/ m.mon[d] + m.moff[d] >= rem + 0
  <2>1. CASE d = nr
    <3>1. s => motor.mon[d] >= j
      BY DEF RunsOn
    <3>2. motor.mon[d] + FdOffDelay >= rem
      BY <3>1, <1>2
    <3> QED
      BY <2>1, <3>2, <1>1
  <2>2. CASE d # nr
    BY <2>2, <1>1 DEF RunsOn
  <2> QED
    BY <2>1, <2>2
<1> QED
  BY <1>1, <1>3 DEF RunsOn

\* ... when the clock ticks and has not been counted, ...
LEMMA RunsTick ==
  ASSUME motor \in Motors, NEW d \in FdDrives, NEW s \in BOOLEAN, NEW j, s => j \in Nat \ {0},
         NEW i, s => i = j - 1, NEW rem \in Nat \ {0}, RunsOn(motor, d, s, j, rem, 0)
  PROVE  RunsOn(motor, d, s, i, rem - 1, 1)
<1>1. motor.mon[d] \in Nat /\ motor.moff[d] \in Nat /\ motor.spun[d] \in Nat /\ FdSpinUp \in Nat
  BY MotorFields, FdAssumption
<1>2. s => motor.spun[d] + i >= FdSpinUp - 1 /\ motor.mon[d] >= i + 1
  BY <1>1 DEF RunsOn
<1>3. motor.moff[d] = Forever \/ motor.mon[d] + motor.moff[d] >= (rem - 1) + 1
  BY <1>1 DEF RunsOn
<1> QED
  BY <1>2, <1>3 DEF RunsOn

\* ... and when it has been.
LEMMA RunsDone ==
  ASSUME motor \in Motors, NEW m, m = DoFloppyTimer, NEW d \in FdDrives, NEW s \in BOOLEAN,
         NEW j, s => j \in Nat, NEW rem \in Nat, RunsOn(motor, d, s, j, rem, 1)
  PROVE  RunsOn(m, d, s, j, rem, 0)
<1>1. /\ motor.mon[d] \in Nat /\ motor.moff[d] \in Nat /\ motor.spun[d] \in Nat /\ FdSpinUp \in Nat
      /\ Forever \in Nat /\ Forever > 0 /\ motor.spun[d] \in 0 .. FdSpinUp
  BY MotorFields, FdAssumption DEF Forever
<1>2. d \in motor.on /\ (motor.moff[d] = Forever \/ motor.mon[d] + motor.moff[d] >= rem + 1)
  BY DEF RunsOn
<1>3. ~(motor.mon[d] = 0 /\ motor.moff[d] = 0)
  BY <1>1, <1>2
<1>4. d \in m.on
  BY <1>2, <1>3, TimerMotor
<1>5. /\ m.spun[d] = IF motor.spun[d] < FdSpinUp THEN motor.spun[d] + 1 ELSE motor.spun[d]
      /\ m.mon[d] = IF motor.mon[d] > 0 THEN motor.mon[d] - 1 ELSE motor.mon[d]
      /\ m.moff[d] = IF motor.mon[d] = 0 /\ motor.moff[d] # Forever /\ motor.moff[d] > 0
                     THEN motor.moff[d] - 1 ELSE motor.moff[d]
  BY <1>4, TimerMotor
<1>6. ASSUME s PROVE m.spun[d] + j >= FdSpinUp - 0 /\ m.mon[d] >= j + 0
  <2>1. motor.spun[d] + j >= FdSpinUp - 1 /\ motor.mon[d] >= j + 1
    BY <1>6 DEF RunsOn
  <2> QED
    BY <2>1, <1>1, <1>5, <1>6
<1>7. ASSUME ~s PROVE m.spun[d] >= FdSpinUp - 1
  <2>1. motor.spun[d] >= FdSpinUp - 1
    BY <1>7 DEF RunsOn
  <2> QED
    BY <2>1, <1>1, <1>5
<1>8. m.moff[d] = Forever \/ m.mon[d] + m.moff[d] >= rem + 0
  <2>1. CASE motor.moff[d] = Forever
    BY <2>1, <1>5
  <2>2. CASE motor.moff[d] # Forever
    <3>1. motor.mon[d] + motor.moff[d] >= rem + 1
      BY <2>2, <1>2
    <3>2. CASE motor.mon[d] > 0
      BY <3>1, <3>2, <1>1, <1>5
    <3>3. CASE motor.mon[d] = 0
      BY <2>2, <3>1, <3>3, <1>1, <1>5
    <3> QED
      BY <3>2, <3>3, <1>1
  <2> QED
    BY <2>1, <2>2
<1> QED
  BY <1>4, <1>6, <1>7, <1>8 DEF RunsOn

\* A motor that ticks_to_floppy_on() has turned on runs until it is released.
LEMMA RunsStart ==
  ASSUME motor \in Motors, Speed(motor), NEW nr \in FdDrives, NEW m, m = TicksToFloppyOn(nr),
         NEW rem \in Nat
  PROVE  /\ RunsOn(m, nr, TRUE, m.mon[nr], rem, 0)
         /\ m.mon[nr] = 0 => \A j : RunsOn(m, nr, FALSE, j, rem, 0)
<1>1. /\ m \in Motors /\ m.on = motor.on \cup {nr} /\ m.moff[nr] = Forever
  BY KeptMotor
<1>2. Speed(m)
  BY KeptSpeed
<1>3. m.mon[nr] \in Nat /\ m.spun[nr] \in Nat /\ FdSpinUp \in Nat
  BY <1>1, MotorFields, FdAssumption
<1>4. m.spun[nr] + m.mon[nr] >= FdSpinUp /\ nr \in m.on
  BY <1>1, <1>2 DEF Speed
<1> QED
  BY <1>1, <1>3, <1>4 DEF RunsOn

\* Its time has come: it is at speed, but for the tick that is being counted.
LEMMA RunsExpired ==
  ASSUME motor \in Motors, NEW d \in FdDrives, NEW rem \in Nat, RunsOn(motor, d, TRUE, 0, rem, 1)
  PROVE  \A j : RunsOn(motor, d, FALSE, j, rem, 1)
<1>1. motor.mon[d] \in Nat /\ motor.moff[d] \in Nat /\ motor.spun[d] \in Nat /\ FdSpinUp \in Nat
  BY MotorFields, FdAssumption
<1> QED
  BY <1>1 DEF RunsOn

\* A motor that stays on for a time stays on for a shorter one.
LEMMA RunsLess ==
  ASSUME motor \in Motors, NEW m, m.on = motor.on, m.mon = motor.mon, m.moff = motor.moff,
         m.spun = motor.spun, NEW d \in FdDrives, NEW i, NEW rem \in Nat, NEW tick \in 0 .. 1,
         RunsOn(motor, d, FALSE, i, rem, tick)
  PROVE  \A r \in Nat : \A j : r <= rem => RunsOn(m, d, FALSE, j, r, tick)
<1>1. motor.mon[d] \in Nat /\ motor.moff[d] \in Nat /\ motor.spun[d] \in Nat /\ FdSpinUp \in Nat
  BY MotorFields, FdAssumption
<1> QED
  BY <1>1 DEF RunsOn

-----------------------------------------------------------------------------
(* The steps of the floppy driver *)

\* What is known of the request that is being served.
LEMMA ServingFacts ==
  ASSUME FdTypes, OneThing, TimerInv, Serving
  PROVE  /\ fd.drive \in FdDrives /\ motor \in Motors
         /\ Awaits("floppy_on_interrupt") \in BOOLEAN
         /\ timers # <<>> => timers[1].jiffies \in Nat
         /\ Remaining \in Nat /\ InTick \in 0 .. 1
         /\ Remaining <= (IF Awaits("floppy_on_interrupt") THEN timers[1].jiffies ELSE 0)
                          + 2 + 2 * FdOpTicks
<1>1. fd.drive \in FdDrives /\ motor \in Motors /\ fdc.age \in 0 .. FdOpTicks /\ FdOpTicks \in Nat
  BY FdAssumption DEF FdTypes, FdGlobals, Controllers
<1>2. ASSUME timers # <<>> PROVE timers[1].jiffies \in Nat
  <2>1. timers \in Seq(Entry) /\ 1 \in 1 .. Len(timers)
    BY <1>2, EmptySeq, LenProperties DEF TimerInv
  <2>2. timers[1] \in Entry
    BY <2>1, ElementOfSeq
  <2> QED
    BY <2>2 DEF Entry
<1>3. InTick \in 0 .. 1 /\ Awaits("floppy_on_interrupt") \in BOOLEAN
  BY DEF InTick, Awaits
<1>4. Awaits("transfer") => timers[1].jiffies <= 2
  BY DEF OneThing
<1>5. Awaits("transfer") \/ Awaits("floppy_on_interrupt") => timers # <<>>
  BY DEF Awaits
<1>6. /\ Remaining \in Nat
      /\ Remaining <= (IF Awaits("floppy_on_interrupt") THEN timers[1].jiffies ELSE 0)
                          + 2 + 2 * FdOpTicks
  <2>1. PICK j, op, age : j = timers[1].jiffies /\ op = FdOpTicks /\ age = fdc.age
    OBVIOUS
  <2>2. /\ op \in Nat /\ age \in 0 .. op
        /\ Awaits("transfer") => j \in Nat /\ j <= 2
        /\ Awaits("floppy_on_interrupt") => j \in Nat
    BY <2>1, <1>1, <1>2, <1>4, <1>5
  <2> HIDE DEF Awaits
  <2> QED
    BY <2>1, <2>2 DEF Remaining
<1> QED
  BY <1>1, <1>2, <1>3, <1>6

\* A step that leaves what is being served where it is.
LEMMA StillServed ==
  ASSUME FdInv, TimerInv, FdTypes', FdQueueOK', Speed(motor)',
         timers' = timers, timerPc' = timerPc,
         fd'.pc = fd.pc, fd'.drive = fd.drive, fdc'.kind = fdc.kind,
         fdc.kind # "none" => fdc'.age = fdc.age,
         timerPc = "run" /\ fd.pc = "do_fd_request" => fd'.reset,
         motor'.selected = motor.selected, motor.selected => motor'.sel = motor.sel,
         fdQueue # <<>> => fdQueue' # <<>> /\ fdReq'[Head(fdQueue')].drive = fdReq[Head(fdQueue)].drive,
         Serving => RunsOn(motor', fd.drive, Awaits("floppy_on_interrupt"), timers[1].jiffies,
                           Remaining, InTick)
  PROVE  FdInv'
<1>1. OneThing'
  BY DEF FdInv, OneThing, Awaits
<1>2. (Serving' <=> Serving) /\ (OnDrive' <=> OnDrive)
  BY DEF Serving, OnDrive, Awaits
<1>3. /\ Awaits("floppy_on_interrupt")' = Awaits("floppy_on_interrupt")
      /\ InTick' = InTick
  BY DEF Awaits, InTick
<1>4. ASSUME Serving PROVE Remaining' = Remaining
  BY <1>4 DEF FdInv, OneThing, Remaining, Serving, Awaits
<1>5. Serving' => Served'
  BY <1>2, <1>3, <1>4 DEF FdInv, Served, FdCurrent
<1>6. OnDrive' => motor'.selected /\ motor'.sel = fd'.drive
  BY <1>2 DEF FdInv
<1> QED
  BY <1>1, <1>5, <1>6 DEF FdInv

\* A step after which nothing is being served.
LEMMA Rests ==
  ASSUME FdTypes', FdQueueOK', Speed(motor)', timers' = <<>>,
         fd'.pc \in {"idle", "do_fd_request", "repeat"},
         fdc'.kind \in {"none", "recal", "reset"}, fdc'.kind # "none" => fd'.pc = "idle",
         timerPc' # "panic",
         timerPc' = "run" => fd'.pc # "repeat" /\ (fd'.pc = "do_fd_request" => fd'.reset)
  PROVE  FdInv'
<1>1. ~Serving' /\ ~OnDrive'
  BY DEF Serving, OnDrive, Awaits
<1>2. Len(timers') = 0
  BY EmptySeq
<1>3. OneThing'
  BY <1>2 DEF OneThing, Awaits
<1> QED
  BY <1>1, <1>3 DEF FdInv

\* The queue stays as it is.
LEMMA SameQueue ==
  ASSUME FdInv, fdReq' = fdReq, fdQueue' = fdQueue
  PROVE  FdQueueOK' /\ fdReq' \in FdReqs
<1>1. FdQueued' = FdQueued
  BY DEF FdQueued
<1> QED
  BY <1>1 DEF FdInv, FdTypes, FdQueueOK

\* CURRENT is one of the queued requests.
LEMMA FdCurrentReq ==
  ASSUME FdInv, fdQueue # <<>>
  PROVE  /\ FdCurrent \in FdRequests /\ FdCurrent \in FdQueued /\ fdReq[FdCurrent].state = "queued"
         /\ fdReq[FdCurrent].drive \in FdDrives
         /\ fdReq[FdCurrent].track \in FdTracks \cup {FdBad}
         /\ fdReq[FdCurrent].errors \in 0 .. FdMaxErrors
<1>1. FdCurrent \in FdQueued
  BY QueueHead DEF FdInv, FdQueueOK, FdCurrent
<1>2. FdCurrent \in FdRequests /\ fdReq[FdCurrent].state = "queued" /\ fdReq \in FdReqs
  BY <1>1 DEF FdQueued, FdInv, FdTypes
<1>3. FdMaxErrors \in Nat /\ fdReq[FdCurrent].errors <= FdMaxErrors
  BY <1>1, FdAssumption DEF FdInv, FdQueueOK
<1>4. /\ fdReq[FdCurrent].drive \in FdDrives
      /\ fdReq[FdCurrent].track \in FdTracks \cup {FdBad}
      /\ fdReq[FdCurrent].errors \in 0 .. FdMaxErrors + 1
  BY <1>2 DEF FdReqs
<1> QED
  BY <1>1, <1>2, <1>3, <1>4

\* add_request()
LEMMA FdAddStep ==
  ASSUME FdInv, TimerInv, ~FdAnyTime, NEW r \in FdRequests, NEW d \in FdDrives,
         NEW t \in FdTracks \cup {FdBad}, FdAddRequest(r, d, t)
  PROVE  FdInv'
<1>1. PICK c : c = [state |-> "queued", drive |-> d, track |-> t, errors |-> 0]
  OBVIOUS
<1>2. /\ fdReq' = [fdReq EXCEPT ![r] = c] /\ fdReq[r].state = "new"
      /\ motor' = motor /\ fdc' = fdc /\ chg' = chg /\ timers' = timers /\ timerPc' = timerPc
      /\ fd.pc = "idle" /\ timerPc = "idle"
      /\ fdQueue # <<>> \/ fdc.kind = "none"
  BY <1>1 DEF FdAddRequest, ProcessRuns, timerVars
<1>3. fdReq \in FdReqs /\ FdMaxErrors \in Nat /\ fdReq \in [FdRequests -> {fdReq[x] : x \in FdRequests}]
  BY FdAssumption DEF FdInv, FdTypes, FdReqs
<1>4. fdReq' \in FdReqs /\ fdReq'[r] = c /\ \A x \in FdRequests : x # r => fdReq'[x] = fdReq[x]
  BY <1>1, <1>2, <1>3 DEF FdReqs
<1>5. r \notin FdQueued /\ FdQueued' = FdQueued \cup {r}
  BY <1>1, <1>2, <1>4 DEF FdQueued
<1>6. \A x \in FdQueued' : fdReq'[x].errors <= FdMaxErrors
  BY <1>1, <1>3, <1>4, <1>5 DEF FdInv, FdQueueOK, FdQueued
<1>7. Speed(motor)'
  BY <1>2 DEF FdInv, Speed
<1>8. CASE fdQueue = <<>>
  <2>1. fdQueue' = <<r>> /\ fd' = [fd EXCEPT !.pc = "do_fd_request"]
    BY <1>8 DEF FdAddRequest
  <2>2. FdQueued = {}
    BY <1>8, QueueHead DEF FdInv, FdQueueOK
  <2>3. FdQueueOK'
    BY <2>1, <2>2, <1>5, <1>6, QueueFirst DEF FdQueueOK
  <2>4. fd' \in FdGlobals /\ fd'.pc = "do_fd_request"
    BY <2>1 DEF FdInv, FdTypes, FdGlobals
  <2>5. FdTypes'
    BY <2>4, <1>2, <1>4 DEF FdInv, FdTypes
  <2>6. timers = <<>> /\ fdc.kind = "none"
    BY <1>8, <1>2 DEF FdInv, Serving, Served
  <2> QED
    BY <2>3, <2>4, <2>5, <2>6, <1>2, <1>7, Rests
<1>9. CASE fdQueue # <<>>
  <2>1. PICK i \in 2 .. Len(fdQueue) + 1 : fdQueue' = InsertAt(fdQueue, i, r)
    BY <1>9 DEF FdAddRequest
  <2>2. fd' = fd
    BY <1>9 DEF FdAddRequest
  <2>3. QueueOK(FdRequests, fdQueue', FdQueued \cup {r}) /\ Head(fdQueue') = Head(fdQueue) /\ fdQueue' # <<>>
    BY <2>1, <1>5, <1>9, QueueInsert DEF FdInv, FdQueueOK
  <2>4. FdQueueOK'
    BY <2>3, <1>5, <1>6 DEF FdQueueOK
  <2>5. FdTypes'
    BY <2>2, <1>2, <1>4 DEF FdInv, FdTypes
  <2>6. Head(fdQueue) \in FdRequests /\ Head(fdQueue) # r
    BY <1>2, <1>9, FdCurrentReq DEF FdCurrent
  <2>7. fdReq'[Head(fdQueue')].drive = fdReq[Head(fdQueue)].drive
    BY <2>3, <2>6, <1>4
  <2>8. Serving => RunsOn(motor', fd.drive, Awaits("floppy_on_interrupt"), timers[1].jiffies,
                          Remaining, InTick)
    BY <1>2 DEF FdInv, Served
  <2> QED
    BY <2>2, <2>3, <2>4, <2>5, <2>7, <2>8, <1>2, <1>7, StillServed
<1> QED
  BY <1>8, <1>9

\* floppy_change() and what it calls: the motor of the drive in use stays on.
LEMMA FdChangeStep ==
  ASSUME FdInv, TimerInv,
         (\E d \in FdDrives : FloppyChange(d)) \/ FloppyOn \/ ChangeTest \/ ChangeSleeps
  PROVE  FdInv'
<1>1. /\ fdReq' = fdReq /\ fdQueue' = fdQueue /\ fd' = fd /\ fdc' = fdc
      /\ timers' = timers /\ timerPc' = timerPc /\ fd.pc = "idle" /\ timerPc = "idle"
  BY DEF FloppyChange, FloppyOn, ChangeTest, ChangeSleeps, ProcessRuns, timerVars
<1>2. FdQueueOK' /\ fdReq' \in FdReqs
  BY <1>1, SameQueue
<1>3. chg \in Changers /\ motor \in Motors /\ FdChanges \in Nat /\ chg.nr \in FdDrives
  BY FdAssumption DEF FdInv, FdTypes, Changers
<1>4. chg' \in Changers
  <2>1. CASE \E d \in FdDrives : FloppyChange(d)
    BY <2>1, <1>3 DEF FloppyChange, Changers
  <2>2. CASE FloppyOn
    BY <2>2, <1>3 DEF FloppyOn, Changers
  <2>3. CASE ChangeTest
    BY <2>3, <1>3 DEF ChangeTest, Changers
  <2>4. CASE ChangeSleeps
    BY <2>4, <1>3 DEF ChangeSleeps, Changers
  <2> QED
    BY <2>1, <2>2, <2>3, <2>4
<1>5. /\ motor' \in Motors /\ Speed(motor') /\ motor'.selected = motor.selected
      /\ motor.selected => motor'.sel = motor.sel
      /\ Serving => RunsOn(motor', fd.drive, Awaits("floppy_on_interrupt"), timers[1].jiffies,
                           Remaining, InTick)
  <2>0. Speed(motor)
    BY DEF FdInv
  <2>1. ASSUME Serving
        PROVE  /\ fd.drive \in FdDrives /\ Awaits("floppy_on_interrupt") \in BOOLEAN
               /\ Awaits("floppy_on_interrupt") => timers[1].jiffies \in Nat
               /\ Remaining \in Nat /\ InTick = 0 /\ InTick \in 0 .. 1
               /\ Remaining <= (IF Awaits("floppy_on_interrupt") THEN timers[1].jiffies ELSE 0)
                                + 2 + 2 * FdOpTicks
               /\ RunsOn(motor, fd.drive, Awaits("floppy_on_interrupt"), timers[1].jiffies,
                         Remaining, InTick)
    <3>1. FdTypes /\ OneThing /\ Served
      BY <2>1 DEF FdInv
    <3>2. InTick = 0
      BY <1>1 DEF InTick
    <3>3. Awaits("floppy_on_interrupt") => timers # <<>>
      BY DEF Awaits
    <3> QED
      BY <3>1, <3>2, <3>3, <2>1, ServingFacts DEF Served
  <2>2. CASE motor' = motor
    BY <2>0, <2>1, <2>2, <1>3
  <2>3. CASE motor' = TicksToFloppyOn(chg.nr)
    <3>1. /\ motor' \in Motors /\ motor'.selected = motor.selected
          /\ motor.selected => motor'.sel = motor.sel
      BY <2>3, <1>3, KeptMotor
    <3>2. Speed(motor')
      BY <2>3, <1>3, <2>0, KeptSpeed
    <3>3. ASSUME Serving
          PROVE  RunsOn(motor', fd.drive, Awaits("floppy_on_interrupt"), timers[1].jiffies,
                        Remaining, InTick)
      BY <3>3, <2>1, <2>3, <1>3, RunsKept
    <3> QED
      BY <3>1, <3>2, <3>3
  <2>4. CASE motor' = FloppyOff(motor, chg.nr)
    <3>1. /\ motor' \in Motors /\ motor'.selected = motor.selected /\ motor'.sel = motor.sel
          /\ motor'.on = motor.on /\ motor'.spun = motor.spun /\ motor'.mon = motor.mon
      BY <2>4, <1>3, OffMotor
    <3>2. Speed(motor')
      BY <3>1, <2>0 DEF Speed
    <3>3. ASSUME Serving
          PROVE  RunsOn(motor', fd.drive, Awaits("floppy_on_interrupt"), timers[1].jiffies,
                        Remaining, InTick)
      <4>1. RunsOn(motor, fd.drive, Awaits("floppy_on_interrupt"), timers[1].jiffies, Remaining, 0)
        BY <3>3, <2>1
      <4>2. RunsOn(motor', fd.drive, Awaits("floppy_on_interrupt"), timers[1].jiffies, Remaining, 0)
        BY <4>1, <3>3, <2>1, <2>4, <1>3, RunsOff
      <4> QED
        BY <4>2, <3>3, <2>1
    <3> QED
      BY <3>1, <3>2, <3>3
  <2> QED
    BY <2>2, <2>3, <2>4 DEF FloppyChange, FloppyOn, ChangeTest, ChangeSleeps
<1>6. FdTypes'
  BY <1>1, <1>2, <1>4, <1>5 DEF FdInv, FdTypes
<1>7. Speed(motor)'
  BY <1>5 DEF Speed
<1> QED
  BY <1>1, <1>2, <1>5, <1>6, <1>7, StillServed

\* The driver has nothing to wait for while one of its functions is to be run.
LEMMA FdRunning ==
  ASSUME FdInv, TimerInv, fd.pc # "idle"
  PROVE  /\ timers = <<>> /\ fdc.kind = "none" /\ timerPc \in {"idle", "run"}
         /\ fd \in FdGlobals /\ fdc \in Controllers /\ motor \in Motors /\ chg \in Changers
         /\ Speed(motor) /\ FdFaults \in Nat /\ FdOpTicks \in Nat
         /\ Awaits("floppy_on_interrupt") = FALSE /\ Awaits("transfer") = FALSE
         /\ InTick \in 0 .. 1 /\ fd.drive \in FdDrives
BY FdAssumption DEF FdInv, FdTypes, OneThing, TimerInv, Awaits, InTick, FdGlobals

\* A command is out.
LEMMA Commanded ==
  ASSUME fdc \in Controllers, NEW kind \in {"none", "rw", "seek", "recal", "reset"}, NEW c,
         c = [fdc EXCEPT !.kind = kind, !.age = 0]
  PROVE  c \in Controllers /\ c.kind = kind /\ c.age = 0 /\ c.faults = fdc.faults
<1>1. 0 \in 0 .. FdOpTicks
  BY FdAssumption
<1>2. fdc.faults \in 0 .. FdFaults
  BY DEF Controllers
<1>3. c = [kind |-> kind, age |-> 0, faults |-> fdc.faults]
  BY DEF Controllers
<1> QED
  BY <1>1, <1>2, <1>3 DEF Controllers

\* output_byte(): the command is out, or the driver is to be reset.
LEMMA Sent ==
  ASSUME fdc \in Controllers, NEW kind \in {"rw", "seek", "recal", "reset"},
         NEW g \in FdGlobals, FdSend(kind, g)
  PROVE  /\ fd' \in FdGlobals /\ fdc' \in Controllers /\ fd'.drive = g.drive
         /\ \/ fd'.pc = "idle" /\ fdc'.kind = kind /\ fdc'.age = 0
            \/ fd'.pc = "do_fd_request" /\ fd'.reset /\ fdc'.kind = fdc.kind
<1>0. FdFaults \in Nat /\ FdOpTicks \in Nat
  BY FdAssumption
<1>1. CASE fd' = [g EXCEPT !.pc = "idle"] /\ fdc' = [fdc EXCEPT !.kind = kind, !.age = 0]
  <2>1. fd' \in FdGlobals /\ fd'.drive = g.drive /\ fd'.pc = "idle"
    BY <1>1 DEF FdGlobals
  <2>2. fdc' \in Controllers /\ fdc'.kind = kind /\ fdc'.age = 0
    BY <1>1, Commanded
  <2> QED
    BY <2>1, <2>2
<1>2. CASE /\ fdc.faults > 0 /\ fdc' = [fdc EXCEPT !.faults = @ - 1]
           /\ fd' = [g EXCEPT !.reset = TRUE, !.pc = "do_fd_request"]
  <2>1. fd' \in FdGlobals /\ fd'.drive = g.drive /\ fd'.pc = "do_fd_request" /\ fd'.reset
    BY <1>2 DEF FdGlobals
  <2>2. fdc' \in Controllers /\ fdc'.kind = fdc.kind
    BY <1>0, <1>2 DEF Controllers
  <2> QED
    BY <2>1, <2>2
<1> QED
  BY <1>1, <1>2 DEF FdSend

\* reset_floppy() and recalibrate_floppy()
LEMMA FdResetStep ==
  ASSUME FdInv, TimerInv, ResetFloppy \/ RecalibrateFloppy
  PROVE  FdInv'
<1>1. /\ fdReq' = fdReq /\ fdQueue' = fdQueue /\ motor' = motor /\ chg' = chg
      /\ timers' = timers /\ timerPc' = timerPc /\ fd.pc = "do_fd_request"
  BY DEF ResetFloppy, RecalibrateFloppy, timerVars
<1>2. FdQueueOK' /\ fdReq' \in FdReqs
  BY <1>1, SameQueue
<1>3. /\ timers = <<>> /\ timerPc \in {"idle", "run"} /\ fdc.kind = "none"
      /\ fd \in FdGlobals /\ fdc \in Controllers /\ FdFaults \in Nat /\ FdOpTicks \in Nat
      /\ motor \in Motors /\ chg \in Changers /\ Speed(motor)
  BY <1>1, FdRunning
<1>4. /\ fd' \in FdGlobals /\ fdc' \in Controllers
      /\ fdc'.kind \in {"none", "recal", "reset"} /\ fd'.pc \in {"idle", "do_fd_request"}
      /\ fdc'.kind # "none" => fd'.pc = "idle"
      /\ fd'.pc = "do_fd_request" => fd'.reset
  <2>1. CASE ResetFloppy
    <3>1. fd' \in FdGlobals /\ fd'.pc = "idle"
      <4>1. PICK no \in BOOLEAN, yes \in BOOLEAN : no = FALSE /\ yes = TRUE
        OBVIOUS
      <4>2. [fd EXCEPT !.reset = no, !.recal = yes, !.seek = no, !.spec = no,
                       !.do_floppy = "reset", !.pc = "idle"] \in FdGlobals
        <5>1. fd \in FdGlobals
          BY <1>3
        <5> QED
          BY <5>1, ZenonT(30) DEF FdGlobals
      <4>3. fd' = [fd EXCEPT !.reset = no, !.recal = yes, !.seek = no, !.spec = no,
                             !.do_floppy = "reset", !.pc = "idle"]
        BY <4>1, <2>1 DEF ResetFloppy
      <4>4. fd'.pc = "idle"
        BY <4>3, <1>3 DEF FdGlobals
      <4> QED
        BY <4>2, <4>3, <4>4
    <3>2. fdc' \in Controllers /\ fdc'.kind = "reset"
      BY <2>1, <1>3, Commanded DEF ResetFloppy
    <3> QED
      BY <3>1, <3>2
  <2>2. CASE RecalibrateFloppy
    <3>1. PICK g : g = [fd EXCEPT !.recal = FALSE, !.seek = FALSE, !.current_track = 0,
                                  !.do_floppy = "recal"]
      OBVIOUS
    <3>2. g \in FdGlobals
      <4>1. fd \in FdGlobals
        BY <1>3
      <4> QED
        BY <3>1, <4>1, ZenonT(30) DEF FdGlobals
    <3>3. FdSend("recal", g)
      BY <3>1, <2>2 DEF RecalibrateFloppy
    <3> QED
      BY <3>2, <3>3, <1>3, Sent
  <2> QED
    BY <2>1, <2>2
<1>5. FdTypes'
  BY <1>1, <1>2, <1>3, <1>4 DEF FdTypes
<1>6. Speed(motor)'
  BY <1>1, <1>3 DEF Speed
<1> QED
  BY <1>1, <1>2, <1>3, <1>4, <1>5, <1>6, Rests

\* do_fd_request() takes the next request only when it is not called by a timer.
LEMMA FdServing ==
  ASSUME FdInv, TimerInv, fd.pc \in {"do_fd_request", "repeat"}, ~fd.reset
  PROVE  timerPc = "idle" /\ InTick = 0 /\ fd.pc # "idle"
BY DEF FdInv, OneThing, TimerInv, InTick

\* end_request() takes CURRENT off the list, with all its other fields as req has them.
LEMMA FdEnded ==
  ASSUME FdInv, fdQueue # <<>>, NEW req \in FdReqs, NEW ok \in BOOLEAN,
         \A r \in FdRequests : r # FdCurrent => req[r] = fdReq[r],
         fdReq' = FdEnd(req, ok), fdQueue' = Tail(fdQueue)
  PROVE  FdQueueOK' /\ fdReq' \in FdReqs
<1>1. FdCurrent \in FdRequests /\ FdCurrent \in FdQueued
  BY FdCurrentReq
<1>2. PICK s : s = IF ok THEN "ok" ELSE "failed"
  OBVIOUS
<1>3. fdReq' = [req EXCEPT ![FdCurrent] = [req[FdCurrent] EXCEPT !.state = s]]
  BY <1>1, <1>2 DEF FdEnd, FdReqs
<1>4. PICK c : c = [req[FdCurrent] EXCEPT !.state = s]
  OBVIOUS
<1>5. /\ c \in [state : {"new", "queued", "ok", "failed"}, drive : FdDrives,
                track : FdTracks \cup {FdBad}, errors : 0 .. FdMaxErrors + 1]
      /\ c.state # "queued"
  BY <1>1, <1>2, <1>4 DEF FdReqs
<1>6. fdReq' = [req EXCEPT ![FdCurrent] = c]
  BY <1>3, <1>4
<1>7. /\ fdReq' \in FdReqs /\ fdReq'[FdCurrent] = c
      /\ \A r \in FdRequests : r # FdCurrent => fdReq'[r] = fdReq[r]
  BY <1>1, <1>5, <1>6 DEF FdReqs
<1>8. FdQueued' = FdQueued \ {FdCurrent}
  BY <1>5, <1>7, <1>1 DEF FdQueued
<1>9. QueueOK(FdRequests, fdQueue', FdQueued')
  BY <1>8, QueueTail DEF FdInv, FdQueueOK, FdCurrent
<1>10. \A r \in FdQueued' : fdReq'[r].errors <= FdMaxErrors
  BY <1>7, <1>8 DEF FdInv, FdQueueOK, FdQueued
<1> QED
  BY <1>7, <1>9, <1>10 DEF FdQueueOK

\* do_fd_request() without a request, or with one that is out of range
LEMMA FdRefuseStep ==
  ASSUME FdInv, TimerInv, FdNoRequest \/ FdRefuse
  PROVE  FdInv'
<1>1. /\ fd.pc \in {"do_fd_request", "repeat"} /\ ~fd.reset
      /\ fdc' = fdc /\ chg' = chg /\ timers' = timers /\ timerPc' = timerPc
  BY DEF FdNoRequest, FdRefuse, timerVars
<1>2. /\ timers = <<>> /\ fdc.kind = "none" /\ fd \in FdGlobals /\ fdc \in Controllers
      /\ motor \in Motors /\ chg \in Changers /\ Speed(motor)
  BY <1>1, FdRunning
<1>3. timerPc = "idle"
  BY <1>1, FdServing
<1>4. CASE FdNoRequest
  <2>1. FdQueueOK' /\ fdReq' \in FdReqs
    BY <1>4, SameQueue DEF FdNoRequest
  <2>2. fd' \in FdGlobals /\ fd'.pc = "idle" /\ motor' = motor
    BY <1>4, <1>2 DEF FdNoRequest, FdGlobals
  <2>3. FdTypes' /\ Speed(motor)'
    BY <2>1, <2>2, <1>1, <1>2 DEF FdTypes, Speed
  <2> QED
    BY <2>1, <2>2, <2>3, <1>1, <1>2, <1>3, Rests
<1>5. CASE FdRefuse
  <2>1. fdQueue # <<>> /\ fdReq' = FdEnd(fdReq, FALSE) /\ fdQueue' = Tail(fdQueue)
    BY <1>5 DEF FdRefuse
  <2>2. PICK d : d = fdReq[FdCurrent].drive
    OBVIOUS
  <2>3. d \in FdDrives /\ fdReq \in FdReqs
    BY <2>1, <2>2, FdCurrentReq DEF FdInv, FdTypes
  <2>4. FdQueueOK' /\ fdReq' \in FdReqs
    BY <2>1, <2>3, FdEnded
  <2>5. PICK s \in BOOLEAN : s = Moved(d)
    BY DEF Moved
  <2>6. fd' = [fd EXCEPT !.seek = s, !.drive = d, !.pc = "repeat"] /\ motor' = FloppyOff(motor, d)
    BY <1>5, <2>2, <2>5 DEF FdRefuse
  <2>7. fd' \in FdGlobals /\ fd'.pc = "repeat"
    <3>1. fd \in FdGlobals
      BY <1>2
    <3>2. [fd EXCEPT !.seek = s, !.drive = d, !.pc = "repeat"] \in FdGlobals
      BY <3>1, <2>3, ZenonT(30) DEF FdGlobals
    <3>3. fd'.pc = "repeat"
      BY <3>1, <2>6 DEF FdGlobals
    <3> QED
      BY <3>2, <3>3, <2>6
  <2>8. /\ motor' \in Motors /\ motor'.on = motor.on /\ motor'.spun = motor.spun
        /\ motor'.mon = motor.mon
    BY <2>3, <2>6, <1>2, OffMotor
  <2>9. Speed(motor)'
    BY <2>8, <1>2 DEF Speed
  <2>10. FdTypes'
    BY <2>4, <2>7, <2>8, <1>1, <1>2 DEF FdTypes
  <2> QED
    BY <2>4, <2>7, <2>9, <2>10, <1>1, <1>2, <1>3, Rests
<1> QED
  BY <1>4, <1>5

\* do_fd_request() starts the drive of the next request.
LEMMA FdServeStep ==
  ASSUME FdInv, TimerInv, FdServe
  PROVE  FdInv' /\ TimerInv'
<1>1. /\ fd.pc \in {"do_fd_request", "repeat"} /\ ~fd.reset /\ fdQueue # <<>>
      /\ fdReq' = fdReq /\ fdQueue' = fdQueue /\ fdc' = fdc /\ chg' = chg /\ timerPc' = timerPc
  BY DEF FdServe
<1>2. /\ timers = <<>> /\ fdc.kind = "none" /\ fd \in FdGlobals /\ fdc \in Controllers
      /\ motor \in Motors /\ chg \in Changers /\ Speed(motor)
  BY <1>1, FdRunning
<1>3. timerPc = "idle" /\ FdQueueOK' /\ fdReq' \in FdReqs
  BY <1>1, FdServing, SameQueue
<1>4. PICK d, t, s : /\ d = fdReq[FdCurrent].drive /\ t = fdReq[FdCurrent].track
                     /\ s = (Moved(d) \/ t # fd.current_track)
  OBVIOUS
<1>5. d \in FdDrives /\ t \in FdTracks \cup {FdBad} /\ t # FdBad /\ s \in BOOLEAN
  BY <1>1, <1>4, FdCurrentReq DEF FdServe
<1>6. PICK ticks : ticks = motor'.mon[d]
  OBVIOUS
<1>7. /\ motor' = TicksToFloppyOn(d)
      /\ fd' = [fd EXCEPT !.seek = s, !.drive = d, !.seek_track = t,
                          !.pc = IF ticks = 0 THEN "floppy_on_interrupt" ELSE "idle"]
      /\ timers' = IF ticks = 0 THEN timers ELSE AddTimer(timers, ticks, "floppy_on_interrupt")
  BY <1>4, <1>6 DEF FdServe
<1>8. motor' \in Motors
  BY <1>2, <1>5, <1>7, KeptMotor
<1>9. Speed(motor')
  BY <1>2, <1>5, <1>7, KeptSpeed
<1>10. ticks \in Nat
  BY <1>5, <1>6, <1>8, MotorFields
<1>11. /\ fd' \in FdGlobals /\ fd'.drive = d
       /\ fd'.pc = IF ticks = 0 THEN "floppy_on_interrupt" ELSE "idle"
  <2>1. PICK pc \in {"floppy_on_interrupt", "idle"} :
          pc = IF ticks = 0 THEN "floppy_on_interrupt" ELSE "idle"
    OBVIOUS
  <2>2. fd' = [fd EXCEPT !.seek = s, !.drive = d, !.seek_track = t, !.pc = pc]
    BY <2>1, <1>7
  <2>3. [fd EXCEPT !.seek = s, !.drive = d, !.seek_track = t, !.pc = pc] \in FdGlobals
    BY <1>2, <1>5 DEF FdGlobals
  <2>4. fd'.drive = d /\ fd'.pc = pc
    BY <2>2, <1>2 DEF FdGlobals
  <2> QED
    BY <2>1, <2>2, <2>3, <2>4
<1>12. FdTypes' /\ Speed(motor)' /\ InTick' = 0
  BY <1>1, <1>2, <1>3, <1>8, <1>9, <1>11 DEF FdTypes, Speed, InTick
<1>13. 2 + 2 * FdOpTicks \in Nat
  BY FdAssumption
<1>14. fd'.drive = fdReq'[Head(fdQueue')].drive /\ fdQueue' # <<>>
  BY <1>1, <1>4, <1>11 DEF FdCurrent
<1>15. CASE ticks = 0
  <2>1. timers' = <<>> /\ fd'.pc = "floppy_on_interrupt"
    BY <1>2, <1>7, <1>11, <1>15
  <2>2. \A j : RunsOn(motor', d, FALSE, j, 2 + 2 * FdOpTicks, 0)
    BY <1>2, <1>5, <1>6, <1>7, <1>13, <1>15, RunsStart
  <2>3. Awaits("floppy_on_interrupt")' = FALSE /\ Awaits("transfer")' = FALSE
    BY <2>1 DEF Awaits
  <2>4. Remaining' = 2 + 2 * FdOpTicks
    BY <2>1, <2>3 DEF Remaining
  <2>5. Served'
    BY <2>2, <2>3, <2>4, <1>11, <1>12, <1>14 DEF Served, FdCurrent
  <2>6. ~OnDrive'
    BY <2>1, <2>3, <1>1, <1>2 DEF OnDrive
  <2>7. OneThing'
    <3>1. Len(timers') = 0
      BY <2>1, EmptySeq
    <3> QED
      BY <3>1, <2>1, <2>3, <1>1, <1>2, <1>3 DEF OneThing
  <2>8. TimerInv'
    BY <2>1, <1>1, <1>2 DEF TimerInv, TimersNeverEarly
  <2> QED
    BY <2>5, <2>6, <2>7, <2>8, <1>3, <1>12 DEF FdInv
<1>16. CASE ticks # 0
  <2>1. timers' = AddTimer(timers, ticks, "floppy_on_interrupt") /\ fd'.pc = "idle"
    BY <1>7, <1>11, <1>16
  <2>2. ticks \in Nat \ {0} /\ "floppy_on_interrupt" \in TimerFns
    BY <1>10, <1>16 DEF TimerFns
  <2>3. /\ TimerInv' /\ Len(timers') = Len(timers) + 1 /\ timers' # <<>>
        /\ timers'[1] = [jiffies |-> ticks, fn |-> "floppy_on_interrupt", asked |-> ticks]
    BY <2>1, <2>2, <1>1, <1>2, AddTimers
  <2>4. Len(timers') = 1 /\ timers'[1].jiffies = ticks /\ timers'[1].fn = "floppy_on_interrupt"
    BY <2>3, <1>2, EmptySeq
  <2>5. Awaits("floppy_on_interrupt")' = TRUE /\ Awaits("transfer")' = FALSE
    BY <2>3, <2>4 DEF Awaits
  <2>6. Remaining' = ticks + 2 + 2 * FdOpTicks /\ Remaining' \in Nat
    BY <2>4, <2>5, <1>10, <1>13, FdAssumption DEF Remaining
  <2>7. RunsOn(motor', d, TRUE, ticks, Remaining', 0)
    BY <2>6, <1>2, <1>5, <1>6, <1>7, RunsStart
  <2>8. Served'
    BY <2>4, <2>5, <2>7, <1>11, <1>12, <1>14 DEF Served, FdCurrent
  <2>9. ~OnDrive'
    BY <2>1, <2>5, <1>1, <1>2 DEF OnDrive
  <2>10. OneThing'
    <3>1. fd'.pc = "idle" /\ fdc'.kind = "none" /\ timerPc' = "idle"
      BY <2>1, <1>1, <1>2, <1>3
    <3>2. Len(timers') <= 1 /\ timers'[1].fn = "floppy_on_interrupt" /\ ~Awaits("transfer")'
      BY <2>4, <2>5
    <3> QED
      BY <3>1, <3>2 DEF OneThing
  <2> QED
    BY <2>3, <2>8, <2>9, <2>10, <1>3, <1>12 DEF FdInv
<1> QED
  BY <1>15, <1>16

\* floppy_on_interrupt() selects the drive, which is at speed.
LEMMA FdSelectStep ==
  ASSUME FdInv, TimerInv, FloppyOnInterrupt
  PROVE  FdInv' /\ TimerInv'
<1>1. /\ fd.pc = "floppy_on_interrupt"
      /\ fdReq' = fdReq /\ fdQueue' = fdQueue /\ fdc' = fdc /\ chg' = chg /\ timerPc' = timerPc
      /\ motor' = [motor EXCEPT !.selected = TRUE, !.sel = fd.drive]
  BY DEF FloppyOnInterrupt
<1>2. /\ timers = <<>> /\ fdc.kind = "none" /\ fd \in FdGlobals /\ fdc \in Controllers
      /\ motor \in Motors /\ chg \in Changers /\ Speed(motor) /\ timerPc \in {"idle", "run"}
      /\ InTick \in 0 .. 1 /\ fd.drive \in FdDrives /\ FdOpTicks \in Nat
      /\ Awaits("floppy_on_interrupt") = FALSE /\ Awaits("transfer") = FALSE
  BY <1>1, FdRunning
<1>3. FdQueueOK' /\ fdReq' \in FdReqs /\ InTick' = InTick
  BY <1>1, SameQueue DEF InTick
<1>4. /\ motor' \in Motors /\ motor'.selected /\ motor'.sel = fd.drive /\ motor'.on = motor.on
      /\ motor'.mon = motor.mon /\ motor'.moff = motor.moff /\ motor'.spun = motor.spun
  BY <1>1, <1>2 DEF Motors
<1>5. Speed(motor)'
  BY <1>2, <1>4 DEF Speed
<1>6. Remaining = 2 + 2 * FdOpTicks /\ Remaining \in Nat /\ 2 * FdOpTicks \in Nat
  BY <1>1, <1>2 DEF Remaining
<1>7. Served
  BY <1>1 DEF FdInv, Serving
<1>8. RunsOn(motor, fd.drive, FALSE, timers[1].jiffies, Remaining, InTick)
  BY <1>2, <1>7 DEF Served
<1>9. \A r \in Nat : \A j : r <= Remaining => RunsOn(motor', fd.drive, FALSE, j, r, InTick)
  BY <1>2, <1>4, <1>6, <1>8, RunsLess
<1>10. CASE motor.sel # fd.drive
  <2>1. timers' = AddTimer(timers, 2, "transfer") /\ fd' = [fd EXCEPT !.pc = "idle"]
    BY <1>10 DEF FloppyOnInterrupt
  <2>2. 2 \in Nat \ {0} /\ "transfer" \in TimerFns
    BY DEF TimerFns
  <2>3. /\ TimerInv' /\ Len(timers') = Len(timers) + 1 /\ timers' # <<>>
        /\ timers'[1] = [jiffies |-> 2, fn |-> "transfer", asked |-> 2]
    BY <2>1, <2>2, <1>1, <1>2, AddTimers
  <2>4. Len(timers') = 1 /\ timers'[1].jiffies = 2 /\ timers'[1].fn = "transfer"
    BY <2>3, <1>2, EmptySeq
  <2>5. Awaits("floppy_on_interrupt")' = FALSE /\ Awaits("transfer")' = TRUE
    BY <2>3, <2>4 DEF Awaits
  <2>6. fd' \in FdGlobals /\ fd'.pc = "idle" /\ fd'.drive = fd.drive
    BY <2>1, <1>2 DEF FdGlobals
  <2>7. Remaining' = 2 + 2 * FdOpTicks /\ Remaining' <= Remaining
    BY <2>4, <2>5, <2>6, <1>6 DEF Remaining
  <2>8. RunsOn(motor', fd.drive, FALSE, timers'[1].jiffies, Remaining', InTick)
    BY <2>7, <1>6, <1>9
  <2>9. Served'
    BY <2>5, <2>6, <2>8, <1>1, <1>3, <1>7 DEF Served, FdCurrent
  <2>10. OneThing'
    BY <2>3, <2>4, <2>5, <2>6, <1>1, <1>2 DEF OneThing
  <2>11. FdTypes'
    BY <2>6, <1>1, <1>2, <1>3, <1>4 DEF FdTypes
  <2> QED
    BY <2>3, <2>6, <2>9, <2>10, <2>11, <1>3, <1>4, <1>5 DEF FdInv
<1>11. CASE motor.sel = fd.drive
  <2>1. timers' = <<>> /\ fd' = [fd EXCEPT !.pc = "transfer"]
    BY <1>2, <1>11 DEF FloppyOnInterrupt
  <2>2. Awaits("floppy_on_interrupt")' = FALSE /\ Awaits("transfer")' = FALSE /\ Len(timers') = 0
    BY <2>1, EmptySeq DEF Awaits
  <2>3. fd' \in FdGlobals /\ fd'.pc = "transfer" /\ fd'.drive = fd.drive
    BY <2>1, <1>2 DEF FdGlobals
  <2>4. Remaining' = 2 * FdOpTicks /\ Remaining' <= Remaining
    BY <2>2, <2>3, <1>2, <1>6 DEF Remaining
  <2>5. RunsOn(motor', fd.drive, FALSE, timers'[1].jiffies, Remaining', InTick)
    BY <2>4, <1>6, <1>9
  <2>6. Served'
    BY <2>2, <2>3, <2>5, <1>1, <1>3, <1>7 DEF Served, FdCurrent
  <2>7. OneThing'
    BY <2>1, <2>2, <2>3, <1>1, <1>2 DEF OneThing
  <2>8. FdTypes'
    BY <2>3, <1>1, <1>2, <1>3, <1>4 DEF FdTypes
  <2>9. TimerInv'
    BY <2>1, <1>1, <1>2 DEF TimerInv, TimersNeverEarly
  <2> QED
    BY <2>3, <2>6, <2>7, <2>8, <2>9, <1>3, <1>4, <1>5 DEF FdInv
<1> QED
  BY <1>10, <1>11

\* A step that goes on with the drive that is selected: nothing but the driver's
\* globals and the controller's command changes, and less time is needed.
LEMMA GoesOn ==
  ASSUME FdInv, TimerInv, OnDrive, FdTypes', fdReq' = fdReq, fdQueue' = fdQueue, motor' = motor,
         timers' = timers, timers = <<>>, timerPc' = timerPc, fd'.drive = fd.drive,
         fd'.pc \in {"setup_rw", "idle"}, fdc'.kind \in {"none", "seek", "rw"},
         fd'.pc = "setup_rw" <=> fdc'.kind = "none",
         Remaining' \in Nat, Remaining' <= Remaining
  PROVE  FdInv'
<1>1. FdQueueOK' /\ InTick' = InTick /\ Speed(motor)'
  BY SameQueue DEF InTick, FdInv, Speed
<1>2. /\ Awaits("floppy_on_interrupt") = FALSE /\ Awaits("transfer") = FALSE
      /\ Awaits("floppy_on_interrupt")' = FALSE /\ Awaits("transfer")' = FALSE
      /\ Len(timers') = 0 /\ timers' = <<>>
  BY EmptySeq DEF Awaits
<1>3. Serving
  BY DEF OnDrive, Serving, Awaits
<1>4. Served /\ motor.selected /\ motor.sel = fd.drive
  BY <1>3 DEF FdInv
<1>5. /\ fd.drive \in FdDrives /\ motor \in Motors /\ Remaining \in Nat /\ InTick \in 0 .. 1
  BY <1>3, ServingFacts DEF FdInv
<1>6. RunsOn(motor, fd.drive, FALSE, timers[1].jiffies, Remaining, InTick)
  BY <1>2, <1>4 DEF Served
<1>7. \A r \in Nat : \A j : r <= Remaining => RunsOn(motor', fd.drive, FALSE, j, r, InTick)
  BY <1>5, <1>6, RunsLess
<1>8. RunsOn(motor', fd.drive, FALSE, timers'[1].jiffies, Remaining', InTick)
  BY <1>7
<1>9. Served'
  BY <1>1, <1>2, <1>4, <1>8 DEF Served, FdCurrent
<1>10. OneThing'
  <2>1. timerPc' # "panic"
    BY DEF FdInv, OneThing
  <2> QED
    BY <2>1, <1>2 DEF OneThing
<1> QED
  BY <1>1, <1>4, <1>9, <1>10 DEF FdInv

\* transfer() and setup_rw_floppy(): the commands for the selected drive
LEMMA FdTransferStep ==
  ASSUME FdInv, TimerInv, Transfer \/ SetupRw
  PROVE  FdInv'
<1>1. /\ fd.pc \in {"transfer", "setup_rw"}
      /\ fdReq' = fdReq /\ fdQueue' = fdQueue /\ motor' = motor /\ chg' = chg
      /\ timers' = timers /\ timerPc' = timerPc
  BY DEF Transfer, SetupRw, timerVars
<1>2. /\ timers = <<>> /\ fdc.kind = "none" /\ fd \in FdGlobals /\ fdc \in Controllers
      /\ motor \in Motors /\ chg \in Changers /\ Speed(motor) /\ timerPc \in {"idle", "run"}
      /\ fd.drive \in FdDrives /\ FdOpTicks \in Nat /\ FdFaults \in Nat
      /\ Awaits("floppy_on_interrupt") = FALSE /\ Awaits("transfer") = FALSE
  BY <1>1, FdRunning
<1>3. FdQueueOK' /\ fdReq' \in FdReqs /\ Speed(motor)'
  BY <1>1, <1>2, SameQueue DEF Speed
<1>4. OnDrive
  BY <1>1 DEF OnDrive
<1>5. Awaits("floppy_on_interrupt")' = FALSE /\ Awaits("transfer")' = FALSE
  BY <1>1, <1>2 DEF Awaits
<1>6. ASSUME fd' \in FdGlobals, fdc' \in Controllers PROVE FdTypes'
  BY <1>1, <1>2, <1>3, <1>6 DEF FdTypes
<1>7. ASSUME fd' \in FdGlobals, fdc' \in Controllers, fd'.pc = "do_fd_request", fd'.reset,
             fdc'.kind = "none"
      PROVE  FdInv'
  BY <1>1, <1>2, <1>3, <1>6, <1>7, Rests
<1>8. CASE /\ fd.pc = "transfer" /\ ~fd.reset /\ fd.seek
           /\ FdSend("seek", [fd EXCEPT !.spec = TRUE, !.do_floppy = "seek"])
  <2>1. PICK g : g = [fd EXCEPT !.spec = TRUE, !.do_floppy = "seek"]
    OBVIOUS
  <2>2. g \in FdGlobals /\ g.drive = fd.drive /\ FdSend("seek", g)
    BY <2>1, <1>2, <1>8 DEF FdGlobals
  <2>3. /\ fd' \in FdGlobals /\ fdc' \in Controllers /\ fd'.drive = fd.drive
        /\ \/ fd'.pc = "idle" /\ fdc'.kind = "seek" /\ fdc'.age = 0
           \/ fd'.pc = "do_fd_request" /\ fd'.reset /\ fdc'.kind = "none"
    BY <2>2, <1>2, Sent
  <2>4. CASE fd'.pc = "idle" /\ fdc'.kind = "seek" /\ fdc'.age = 0
    <3>1. Remaining = 2 * FdOpTicks
      BY <1>2, <1>8 DEF Remaining
    <3>2. Remaining' = 2 * FdOpTicks - 0
      BY <1>5, <2>4 DEF Remaining
    <3>3. Remaining' \in Nat /\ Remaining' <= Remaining
      BY <3>1, <3>2, <1>2
    <3> QED
      BY <3>3, <2>3, <2>4, <1>1, <1>2, <1>4, <1>6, GoesOn
  <2> QED
    BY <2>3, <2>4, <1>7
<1>9. CASE /\ fd.pc = "transfer" /\ (fd.reset \/ ~fd.seek)
           /\ fd' = [fd EXCEPT !.spec = TRUE,
                               !.pc = IF fd.reset THEN "do_fd_request" ELSE "setup_rw"]
           /\ fdc' = fdc
  <2>1. /\ fd' \in FdGlobals /\ fd'.drive = fd.drive /\ fd'.reset = fd.reset
        /\ fd'.pc = IF fd.reset THEN "do_fd_request" ELSE "setup_rw"
    <3>1. PICK pc \in {"do_fd_request", "setup_rw"} :
            pc = IF fd.reset THEN "do_fd_request" ELSE "setup_rw"
      OBVIOUS
    <3>2. PICK yes \in BOOLEAN : yes = TRUE
      OBVIOUS
    <3>3. fd' = [fd EXCEPT !.spec = yes, !.pc = pc]
      BY <3>1, <3>2, <1>9
    <3>4. [fd EXCEPT !.spec = yes, !.pc = pc] \in FdGlobals
      BY <1>2 DEF FdGlobals
    <3>5. fd'.drive = fd.drive /\ fd'.reset = fd.reset /\ fd'.pc = pc
      BY <3>3, <1>2 DEF FdGlobals
    <3> QED
      BY <3>1, <3>3, <3>4, <3>5
  <2>2. CASE fd.reset
    BY <2>1, <2>2, <1>2, <1>7, <1>9
  <2>3. CASE ~fd.reset
    <3>1. fd'.pc = "setup_rw"
      BY <2>1, <2>3
    <3>2. Remaining = 2 * FdOpTicks
      BY <1>2, <1>9 DEF Remaining
    <3>3. Remaining' = FdOpTicks
      BY <1>2, <1>5, <1>9, <3>1 DEF Remaining
    <3>4. Remaining' \in Nat /\ Remaining' <= Remaining
      BY <3>2, <3>3, <1>2
    <3> QED
      BY <3>1, <3>4, <2>1, <1>1, <1>2, <1>4, <1>6, <1>9, GoesOn
  <2> QED
    BY <2>2, <2>3
<1>10. CASE /\ fd.pc = "transfer" /\ fdc.faults > 0 /\ fdc' = [fdc EXCEPT !.faults = @ - 1]
            /\ fd' = [fd EXCEPT !.spec = TRUE, !.reset = TRUE, !.pc = "do_fd_request"]
  <2>1. fd' \in FdGlobals /\ fd'.pc = "do_fd_request" /\ fd'.reset
    BY <1>2, <1>10 DEF FdGlobals
  <2>2. fdc' \in Controllers /\ fdc'.kind = "none"
    BY <1>2, <1>10 DEF Controllers
  <2> QED
    BY <2>1, <2>2, <1>7
<1>11. CASE fd.pc = "setup_rw" /\ FdSend("rw", [fd EXCEPT !.do_floppy = "rw"])
  <2>1. PICK g : g = [fd EXCEPT !.do_floppy = "rw"]
    OBVIOUS
  <2>2. g \in FdGlobals /\ g.drive = fd.drive /\ FdSend("rw", g)
    BY <2>1, <1>2, <1>11 DEF FdGlobals
  <2>3. /\ fd' \in FdGlobals /\ fdc' \in Controllers /\ fd'.drive = fd.drive
        /\ \/ fd'.pc = "idle" /\ fdc'.kind = "rw" /\ fdc'.age = 0
           \/ fd'.pc = "do_fd_request" /\ fd'.reset /\ fdc'.kind = "none"
    BY <2>2, <1>2, Sent
  <2>4. CASE fd'.pc = "idle" /\ fdc'.kind = "rw" /\ fdc'.age = 0
    <3>1. Remaining = FdOpTicks
      BY <1>2, <1>11 DEF Remaining
    <3>2. Remaining' = FdOpTicks - 0
      BY <1>5, <2>4 DEF Remaining
    <3>3. Remaining' \in Nat /\ Remaining' <= Remaining
      BY <3>1, <3>2, <1>2
    <3> QED
      BY <3>3, <2>3, <2>4, <1>1, <1>2, <1>4, <1>6, GoesOn
  <2> QED
    BY <2>3, <2>4, <1>7
<1> QED
  BY <1>8, <1>9, <1>10, <1>11 DEF Transfer, SetupRw

\* The armed handler is called.
LEMMA FdAnswer ==
  ASSUME FdInv, TimerInv, NEW h \in {"rw", "seek", "recal", "reset"}, FdIntr(h)
  PROVE  /\ fd.pc = "idle" /\ timerPc = "idle" /\ fdc.kind = h
         /\ timers' = timers /\ timerPc' = timerPc /\ timers = <<>>
         /\ fd \in FdGlobals /\ fdc \in Controllers /\ motor \in Motors /\ chg \in Changers
         /\ Speed(motor) /\ fdReq \in FdReqs
         /\ Called \in FdGlobals /\ Called.pc = "do_fd_request" /\ Called.drive = fd.drive
         /\ Answered \in Controllers /\ Answered.kind = "none"
         /\ fdc.faults > 0 => Silent \in Controllers /\ Silent.kind = "none"
         /\ h \in {"seek", "rw"} => OnDrive /\ Serving /\ Served
<1>1. /\ fd.pc = "idle" /\ timerPc = "idle" /\ fdc.kind = h
      /\ timers' = timers /\ timerPc' = timerPc
  BY DEF FdIntr, ProcessRuns, timerVars
<1>2. /\ timers = <<>> /\ fd \in FdGlobals /\ fdc \in Controllers /\ motor \in Motors
      /\ chg \in Changers /\ Speed(motor) /\ fdReq \in FdReqs /\ FdFaults \in Nat
  BY <1>1, FdAssumption DEF FdInv, FdTypes, OneThing
<1>3. Called \in FdGlobals /\ Called.pc = "do_fd_request" /\ Called.drive = fd.drive
  BY <1>2 DEF Called, FdGlobals
<1>4. Answered \in Controllers /\ Answered.kind = "none" /\ Answered.faults = fdc.faults
  BY <1>2, Commanded DEF Answered
<1>5. fdc.faults > 0 => Silent \in Controllers /\ Silent.kind = "none"
  BY <1>2, <1>4 DEF Silent, Controllers
<1>6. h \in {"seek", "rw"} => OnDrive /\ Serving
  BY <1>1 DEF OnDrive, Serving
<1>7. h \in {"seek", "rw"} => Served
  BY <1>6 DEF FdInv
<1> QED
  BY <1>1, <1>2, <1>3, <1>4, <1>5, <1>6, <1>7

\* end_request() after floppy_deselect(): the motor runs on for a while.
LEMMA FdFinished ==
  ASSUME FdInv, fdQueue # <<>>, NEW req \in FdReqs, NEW ok \in BOOLEAN,
         \A r \in FdRequests : r # FdCurrent => req[r] = fdReq[r], FdFinish(req, ok)
  PROVE  FdQueueOK' /\ fdReq' \in FdReqs /\ motor' \in Motors /\ Speed(motor') /\ chg' \in Changers
<1>1. FdQueueOK' /\ fdReq' \in FdReqs
  BY FdEnded DEF FdFinish
<1>2. PICK d : d = req[FdCurrent].drive
  OBVIOUS
<1>3. FdCurrent \in FdRequests
  BY FdCurrentReq
<1>4. d \in FdDrives
  BY <1>2, <1>3 DEF FdReqs
<1>5. motor \in Motors /\ Speed(motor) /\ chg \in Changers
  BY DEF FdInv, FdTypes
<1>6. PICK m : m = FloppyOff(motor, d)
  OBVIOUS
<1>7. m \in Motors /\ m.on = motor.on /\ m.spun = motor.spun /\ m.mon = motor.mon
  BY <1>4, <1>5, <1>6, OffMotor
<1>8. motor' = [m EXCEPT !.selected = FALSE]
  BY <1>2, <1>6 DEF FdFinish
<1>9. motor' \in Motors /\ motor'.on = m.on /\ motor'.spun = m.spun /\ motor'.mon = m.mon
  BY <1>7, <1>8 DEF Motors
<1>10. Speed(motor')
  BY <1>5, <1>7, <1>9 DEF Speed
<1>11. chg' \in Changers
  BY <1>5 DEF FdFinish, Changers
<1> QED
  BY <1>1, <1>9, <1>10, <1>11

\* bad_flp_intr(): the error is counted, and the request given up after too many.
LEMMA FdBadIntr ==
  ASSUME FdInv, fdQueue # <<>>, NEW g \in FdGlobals, BadFlpIntr(g)
  PROVE  /\ FdQueueOK' /\ fdReq' \in FdReqs /\ motor' \in Motors /\ Speed(motor')
         /\ chg' \in Changers /\ fd' \in FdGlobals /\ fd'.pc = g.pc
<1>1. /\ FdCurrent \in FdRequests /\ FdCurrent \in FdQueued
      /\ fdReq[FdCurrent].errors \in 0 .. FdMaxErrors
  BY FdCurrentReq
<1>2. PICK e : e = fdReq[FdCurrent].errors + 1
  OBVIOUS
<1>3. PICK req : req = [fdReq EXCEPT ![FdCurrent].errors = e]
  OBVIOUS
<1>4. e \in 0 .. FdMaxErrors + 1 /\ FdMaxErrors \in Nat
  BY <1>1, <1>2, FdAssumption
<1>5. fdReq \in FdReqs /\ motor \in Motors /\ Speed(motor) /\ chg \in Changers
  BY DEF FdInv, FdTypes
<1>6. /\ req \in FdReqs /\ \A r \in FdRequests : r # FdCurrent => req[r] = fdReq[r]
      /\ req[FdCurrent].state = fdReq[FdCurrent].state /\ req[FdCurrent].errors = e
  BY <1>1, <1>3, <1>4, <1>5 DEF FdReqs
<1>7. /\ FdQueueOK' /\ fdReq' \in FdReqs /\ motor' \in Motors /\ Speed(motor')
      /\ chg' \in Changers
  <2>1. CASE e > FdMaxErrors
    <3>1. FdFinish(req, FALSE)
      BY <2>1, <1>2, <1>3 DEF BadFlpIntr
    <3> QED
      BY <3>1, <1>6, FdFinished
  <2>2. CASE ~(e > FdMaxErrors)
    <3>1. fdReq' = req /\ fdQueue' = fdQueue /\ motor' = motor /\ chg' = chg
      BY <2>2, <1>2, <1>3 DEF BadFlpIntr
    <3>2. FdQueued' = FdQueued
      BY <3>1, <1>6 DEF FdQueued
    <3>3. \A r \in FdQueued' : fdReq'[r].errors <= FdMaxErrors
      <4>1. SUFFICES ASSUME NEW r \in FdQueued PROVE req[r].errors <= FdMaxErrors
        BY <3>1, <3>2
      <4>2. CASE r = FdCurrent
        BY <4>2, <2>2, <1>4, <1>6
      <4>3. CASE r # FdCurrent
        BY <4>3, <1>6 DEF FdInv, FdQueueOK, FdQueued
      <4> QED
        BY <4>2, <4>3
    <3>4. FdQueueOK'
      BY <3>1, <3>2, <3>3 DEF FdInv, FdQueueOK
    <3> QED
      BY <3>1, <3>4, <1>5, <1>6
  <2> QED
    BY <2>1, <2>2
<1>8. fd' \in FdGlobals /\ fd'.pc = g.pc
  <2>1. PICK a : fd' = [g EXCEPT !.reset = g.reset \/ a > FdMaxErrors \div 2,
                                 !.recal = g.recal \/ a <= FdMaxErrors \div 2]
    BY DEF BadFlpIntr
  <2>2. PICK x \in BOOLEAN, y \in BOOLEAN :
          x = (g.reset \/ a > FdMaxErrors \div 2) /\ y = (g.recal \/ a <= FdMaxErrors \div 2)
    OBVIOUS
  <2>3. fd' = [g EXCEPT !.reset = x, !.recal = y]
    BY <2>1, <2>2
  <2>4. [g EXCEPT !.reset = x, !.recal = y] \in FdGlobals
    BY DEF FdGlobals
  <2>5. fd'.pc = g.pc
    BY <2>3 DEF FdGlobals
  <2> QED
    BY <2>3, <2>4, <2>5
<1> QED
  BY <1>7, <1>8

\* seek_interrupt(), rw_interrupt(), recal_interrupt(), reset_interrupt()
LEMMA FdInterruptStep ==
  ASSUME FdInv, TimerInv, FdInterrupt
  PROVE  FdInv'
<1>1. ASSUME NEW h \in {"seek", "rw"}, FdIntr(h), FdStatusBad PROVE FdInv'
  <2>1. /\ timerPc = "idle" /\ timers' = timers /\ timerPc' = timerPc /\ timers = <<>>
        /\ Called \in FdGlobals /\ Called.pc = "do_fd_request"
        /\ Answered \in Controllers /\ Answered.kind = "none"
        /\ fdc.faults > 0 => Silent \in Controllers /\ Silent.kind = "none"
        /\ Served
    BY <1>1, FdAnswer
  <2>2. fdc' \in Controllers /\ fdc'.kind = "none"
    BY <2>1, <1>1 DEF FdStatusBad
  <2>3. fdQueue # <<>>
    BY <2>1 DEF Served
  <2>4. PICK g \in FdGlobals : BadFlpIntr(g) /\ g.pc = "do_fd_request"
    <3>1. CASE BadFlpIntr(Called)
      BY <3>1, <2>1
    <3>2. CASE BadFlpIntr([Called EXCEPT !.reset = TRUE])
      <4>1. [Called EXCEPT !.reset = TRUE] \in FdGlobals /\ [Called EXCEPT !.reset = TRUE].pc = "do_fd_request"
        BY <2>1 DEF FdGlobals
      <4> QED
        BY <4>1, <3>2
    <3> QED
      BY <3>1, <3>2, <1>1 DEF FdStatusBad
  <2>5. /\ FdQueueOK' /\ fdReq' \in FdReqs /\ motor' \in Motors /\ Speed(motor')
        /\ chg' \in Changers /\ fd' \in FdGlobals /\ fd'.pc = "do_fd_request"
    BY <2>3, <2>4, FdBadIntr
  <2>6. FdTypes' /\ Speed(motor)'
    BY <2>2, <2>5 DEF FdTypes, Speed
  <2> QED
    BY <2>1, <2>2, <2>5, <2>6, Rests
<1>2. CASE SeekInterrupt
  <2>1. CASE FdStatusBad
    BY <2>1, <1>1, <1>2 DEF SeekInterrupt
  <2>2. CASE /\ fd' = [Called EXCEPT !.current_track = fd.seek_track, !.pc = "setup_rw"]
             /\ fdc' = Answered /\ fdReq' = fdReq /\ fdQueue' = fdQueue /\ motor' = motor /\ chg' = chg
    <3>1. /\ fd.pc = "idle" /\ fdc.kind = "seek" /\ timers' = timers /\ timerPc' = timerPc /\ timers = <<>>
          /\ fd \in FdGlobals /\ fdc \in Controllers /\ motor \in Motors /\ chg \in Changers
          /\ fdReq \in FdReqs /\ Called \in FdGlobals /\ Called.drive = fd.drive
          /\ Answered \in Controllers /\ Answered.kind = "none" /\ OnDrive
      BY <1>2, FdAnswer DEF SeekInterrupt
    <3>2. fd' \in FdGlobals /\ fd'.drive = fd.drive /\ fd'.pc = "setup_rw"
      <4>1. fd.seek_track \in FdTracks \cup {0, 255}
        BY <3>1 DEF FdGlobals
      <4> QED
        BY <4>1, <3>1, <2>2 DEF FdGlobals
    <3>3. FdTypes'
      BY <3>1, <3>2, <2>2 DEF FdTypes
    <3>4. /\ Awaits("floppy_on_interrupt") = FALSE /\ Awaits("transfer") = FALSE
          /\ Awaits("floppy_on_interrupt")' = FALSE /\ Awaits("transfer")' = FALSE
      BY <3>1 DEF Awaits
    <3>5. Remaining = 2 * FdOpTicks - fdc.age
      BY <3>1, <3>4 DEF Remaining
    <3>6. Remaining' = FdOpTicks
      BY <3>1, <3>2, <3>4, <2>2 DEF Remaining
    <3>7. fdc.age \in 0 .. FdOpTicks /\ FdOpTicks \in Nat
      BY <3>1, FdAssumption DEF Controllers
    <3>8. Remaining' \in Nat /\ Remaining' <= Remaining
      BY <3>5, <3>6, <3>7
    <3> QED
      BY <3>1, <3>2, <3>3, <3>8, <2>2, GoesOn
  <2> QED
    BY <2>1, <2>2, <1>2 DEF SeekInterrupt
<1>3. CASE RwInterrupt
  <2>1. CASE FdStatusBad
    BY <2>1, <1>1, <1>3 DEF RwInterrupt
  <2>2. CASE fd' = Called /\ fdc' = Answered /\ \E ok \in BOOLEAN : FdFinish(fdReq, ok)
    <3>1. /\ timerPc = "idle" /\ timers' = timers /\ timerPc' = timerPc /\ timers = <<>>
          /\ fdReq \in FdReqs /\ Called \in FdGlobals /\ Called.pc = "do_fd_request"
          /\ Answered \in Controllers /\ Answered.kind = "none" /\ Served
      BY <1>3, FdAnswer DEF RwInterrupt
    <3>2. fdQueue # <<>>
      BY <3>1 DEF Served
    <3>3. /\ FdQueueOK' /\ fdReq' \in FdReqs /\ motor' \in Motors /\ Speed(motor')
          /\ chg' \in Changers
      BY <3>1, <3>2, <2>2, FdFinished
    <3>4. FdTypes' /\ Speed(motor)'
      BY <3>1, <3>3, <2>2 DEF FdTypes, Speed
    <3> QED
      BY <3>1, <3>3, <3>4, <2>2, Rests
  <2> QED
    BY <2>1, <2>2, <1>3 DEF RwInterrupt
<1>4. CASE RecalInterrupt
  <2>1. PICK h \in {"recal", "reset"} : FdIntr(h)
    BY <1>4 DEF RecalInterrupt
  <2>2. /\ timerPc = "idle" /\ timers' = timers /\ timerPc' = timerPc /\ timers = <<>>
        /\ motor \in Motors /\ chg \in Changers /\ Speed(motor)
        /\ Called \in FdGlobals /\ Called.pc = "do_fd_request"
        /\ Answered \in Controllers /\ Answered.kind = "none"
        /\ fdc.faults > 0 => Silent \in Controllers /\ Silent.kind = "none"
    BY <2>1, FdAnswer
  <2>3. fdc' \in Controllers /\ fdc'.kind = "none"
    BY <2>2, <1>4 DEF RecalInterrupt
  <2>4. fd' \in FdGlobals /\ fd'.pc = "do_fd_request"
    <3>1. CASE fd' = Called
      BY <3>1, <2>2
    <3>2. CASE fd' = [Called EXCEPT !.recal = FALSE]
      BY <3>2, <2>2 DEF FdGlobals
    <3>3. CASE fd' = [Called EXCEPT !.reset = TRUE]
      BY <3>3, <2>2 DEF FdGlobals
    <3> QED
      BY <3>1, <3>2, <3>3, <1>4 DEF RecalInterrupt
  <2>5. FdQueueOK' /\ fdReq' \in FdReqs /\ motor' = motor /\ chg' = chg
    BY <1>4, SameQueue DEF RecalInterrupt
  <2>6. FdTypes' /\ Speed(motor)'
    BY <2>2, <2>3, <2>4, <2>5 DEF FdTypes, Speed
  <2> QED
    BY <2>2, <2>3, <2>4, <2>5, <2>6, Rests
<1> QED
  BY <1>2, <1>3, <1>4 DEF FdInterrupt

\* unexpected_floppy_interrupt() leaves what is being served where it is.
LEMMA FdUnexpectedStep ==
  ASSUME FdInv, TimerInv, UnexpectedFloppy
  PROVE  FdInv'
<1>1. /\ fd.pc = "idle" /\ timerPc = "idle" /\ fdc.kind = "none" /\ fdc.faults > 0
      /\ fdc' = Silent /\ fdReq' = fdReq /\ fdQueue' = fdQueue /\ motor' = motor /\ chg' = chg
      /\ timers' = timers /\ timerPc' = timerPc
  BY DEF UnexpectedFloppy, ProcessRuns, timerVars
<1>2. fd \in FdGlobals /\ fdc \in Controllers /\ FdFaults \in Nat
  BY FdAssumption DEF FdInv, FdTypes
<1>3. fd' \in FdGlobals /\ fd'.pc = fd.pc /\ fd'.drive = fd.drive
  <2>1. CASE fd' = [fd EXCEPT !.reset = TRUE]
    BY <2>1, <1>2 DEF FdGlobals
  <2>2. CASE fd' = [fd EXCEPT !.recal = TRUE]
    BY <2>2, <1>2 DEF FdGlobals
  <2> QED
    BY <2>1, <2>2 DEF UnexpectedFloppy
<1>4. Answered \in Controllers /\ Answered.kind = "none" /\ Answered.faults = fdc.faults
  BY <1>2, Commanded DEF Answered
<1>5. fdc' \in Controllers /\ fdc'.kind = "none"
  BY <1>1, <1>2, <1>4 DEF Silent, Controllers
<1>6. FdQueueOK' /\ fdReq' \in FdReqs
  BY <1>1, SameQueue
<1>7. FdTypes' /\ Speed(motor)'
  BY <1>1, <1>3, <1>5, <1>6 DEF FdInv, FdTypes, Speed
<1>8. Serving => RunsOn(motor', fd.drive, Awaits("floppy_on_interrupt"), timers[1].jiffies,
                        Remaining, InTick)
  BY <1>1 DEF FdInv, Served
<1> QED
  BY <1>1, <1>3, <1>5, <1>6, <1>7, <1>8, StillServed

\* A tick: what is being served has one tick less to take.
LEMMA FdTickStep ==
  ASSUME FdInv, TimerInv, FdTick
  PROVE  FdInv' /\ TimerInv'
<1>1. /\ fd.pc = "idle" /\ fdc.age < FdOpTicks /\ Tick
      /\ fdReq' = fdReq /\ fdQueue' = fdQueue /\ fd' = fd /\ motor' = motor /\ chg' = chg
      /\ fdc' = IF fdc.kind = "none" THEN fdc ELSE [fdc EXCEPT !.age = @ + 1]
  BY DEF FdTick
<1>2. /\ TimerInv' /\ Len(timers') = Len(timers) /\ timerPc' = "run" /\ timerPc = "idle"
      /\ (timers' = <<>>) <=> (timers = <<>>)
      /\ timers # <<>> => timers'[1].fn = timers[1].fn /\ timers'[1].jiffies = timers[1].jiffies - 1
                          /\ timers[1].jiffies \in Nat \ {0}
  BY <1>1, TickTimers
<1>3. FdQueueOK' /\ fdReq' \in FdReqs /\ Speed(motor)'
  BY <1>1, SameQueue DEF FdInv, Speed
<1>4. fd \in FdGlobals /\ motor \in Motors /\ fdc \in Controllers /\ chg \in Changers /\ FdOpTicks \in Nat
  BY FdAssumption DEF FdInv, FdTypes
<1>5. /\ fdc' \in Controllers /\ fdc'.kind = fdc.kind
      /\ fdc.kind # "none" => fdc'.age = fdc.age + 1
  <2>1. CASE fdc.kind = "none"
    BY <2>1, <1>1, <1>4
  <2>2. CASE fdc.kind # "none"
    <3>1. PICK a : a = fdc.age + 1
      OBVIOUS
    <3>2. a \in 0 .. FdOpTicks
      BY <3>1, <1>1, <1>4 DEF Controllers
    <3>3. fdc' = [fdc EXCEPT !.age = a]
      BY <3>1, <2>2, <1>1
    <3> QED
      BY <3>1, <3>2, <3>3, <1>4 DEF Controllers
  <2> QED
    BY <2>1, <2>2
<1>6. FdTypes'
  BY <1>1, <1>3, <1>4, <1>5 DEF FdTypes
<1>7. \A fn : Awaits(fn)' = Awaits(fn)
  BY <1>2 DEF Awaits
<1>8. OneThing /\ FdTypes
  BY DEF FdInv
<1>9. OneThing'
  <2>1. Awaits("transfer")' => timers'[1].jiffies <= 2
    <3>1. SUFFICES ASSUME Awaits("transfer") PROVE timers'[1].jiffies <= 2
      BY <1>7
    <3>2. timers # <<>> /\ timers[1].jiffies <= 2
      BY <3>1, <1>8 DEF OneThing, Awaits
    <3> QED
      BY <3>2, <1>2
  <2> QED
    BY <2>1, <1>1, <1>2, <1>5, <1>8 DEF OneThing
<1>10. (Serving' <=> Serving) /\ (OnDrive' <=> OnDrive)
  BY <1>1, <1>2, <1>5, <1>7 DEF Serving, OnDrive
<1>11. ASSUME Serving PROVE Served'
  <2>1. /\ fd.drive \in FdDrives /\ Awaits("floppy_on_interrupt") \in BOOLEAN
        /\ Remaining \in Nat
    BY <1>8, <1>11, ServingFacts
  <2>2. Served
    BY <1>11 DEF FdInv
  <2>3. Awaits("floppy_on_interrupt") => timers # <<>>
    BY DEF Awaits
  <2>4. Remaining' = Remaining - 1 /\ Remaining \in Nat \ {0}
    <3>1. CASE Awaits("floppy_on_interrupt")
      <4>1. Remaining = timers[1].jiffies + 2 + 2 * FdOpTicks
        BY <3>1 DEF Remaining
      <4>2. Remaining' = timers'[1].jiffies + 2 + 2 * FdOpTicks
        BY <3>1, <1>7 DEF Remaining
      <4> QED
        <5>1. PICK x, y : x = timers[1].jiffies /\ y = timers'[1].jiffies
          OBVIOUS
        <5>2. x \in Nat \ {0} /\ y = x - 1
          BY <5>1, <3>1, <2>3, <1>2
        <5>3. Remaining = x + 2 + 2 * FdOpTicks /\ Remaining' = y + 2 + 2 * FdOpTicks
          BY <5>1, <4>1, <4>2
        <5> QED
          BY <5>2, <5>3, <1>4
    <3>2. CASE ~Awaits("floppy_on_interrupt") /\ Awaits("transfer")
      <4>1. Remaining = timers[1].jiffies + 2 * FdOpTicks
        BY <3>2, <1>1 DEF Remaining
      <4>2. Remaining' = timers'[1].jiffies + 2 * FdOpTicks
        BY <3>2, <1>1, <1>7 DEF Remaining
      <4>3. timers # <<>>
        BY <3>2 DEF Awaits
      <4> QED
        BY <4>1, <4>2, <4>3, <1>2, <1>4
    <3>3. CASE ~Awaits("floppy_on_interrupt") /\ ~Awaits("transfer")
      <4>1. fdc.kind \in {"seek", "rw"}
        BY <3>3, <1>1, <1>8, <1>11 DEF Serving, OneThing, Awaits
      <4>2. fdc'.age = fdc.age + 1 /\ fdc'.kind = fdc.kind /\ fdc.age \in Nat /\ fdc.age < FdOpTicks
        BY <4>1, <1>1, <1>4, <1>5 DEF Controllers
      <4>3. Remaining = IF fdc.kind = "seek" THEN 2 * FdOpTicks - fdc.age ELSE FdOpTicks - fdc.age
        BY <3>3, <1>1 DEF Remaining
      <4>4. Remaining' = IF fdc.kind = "seek" THEN 2 * FdOpTicks - (fdc.age + 1)
                         ELSE FdOpTicks - (fdc.age + 1)
        BY <3>3, <4>2, <1>1, <1>7 DEF Remaining
      <4> QED
        BY <4>2, <4>3, <4>4, <1>4
    <3> QED
      BY <3>1, <3>2, <3>3
  <2>5. InTick = 0 /\ InTick' = 1
    BY <1>2 DEF InTick
  <2>6. RunsOn(motor, fd.drive, Awaits("floppy_on_interrupt"), timers[1].jiffies, Remaining, 0)
    BY <2>2, <2>5 DEF Served
  <2>7. RunsOn(motor, fd.drive, Awaits("floppy_on_interrupt"), timers'[1].jiffies, Remaining - 1, 1)
    <3>1. PICK j, i : j = timers[1].jiffies /\ i = timers'[1].jiffies
      OBVIOUS
    <3>2. Awaits("floppy_on_interrupt") => j \in Nat \ {0} /\ i = j - 1
      BY <3>1, <2>3, <1>2
    <3>3. RunsOn(motor, fd.drive, Awaits("floppy_on_interrupt"), i, Remaining - 1, 1)
      BY <3>1, <3>2, <2>1, <2>4, <2>6, <1>4, RunsTick
    <3> QED
      BY <3>1, <3>3
  <2> QED
    BY <2>2, <2>4, <2>5, <2>7, <1>1, <1>7 DEF Served, FdCurrent
<1>12. OnDrive' => motor'.selected /\ motor'.sel = fd'.drive
  BY <1>1, <1>10 DEF FdInv
<1> QED
  BY <1>2, <1>3, <1>6, <1>9, <1>10, <1>11, <1>12 DEF FdInv

\* The end of the tick: the motors are counted.
LEMMA FdTickDoneStep ==
  ASSUME FdInv, TimerInv, FdTickDone
  PROVE  FdInv' /\ TimerInv'
<1>1. /\ fd.pc = "idle" /\ TickDone /\ motor' = DoFloppyTimer
      /\ fdReq' = fdReq /\ fdQueue' = fdQueue /\ fd' = fd /\ fdc' = fdc
      /\ chg' = IF chg.pc = "motor" /\ motor.mon[chg.nr] = 1 THEN [chg EXCEPT !.pc = "on"] ELSE chg
  BY DEF FdTickDone
<1>2. TimerInv' /\ timers' = timers /\ timerPc = "run" /\ timerPc' = "idle"
  BY <1>1, DoneTimers
<1>3. FdQueueOK' /\ fdReq' \in FdReqs
  BY <1>1, SameQueue
<1>4. /\ fd \in FdGlobals /\ motor \in Motors /\ fdc \in Controllers /\ chg \in Changers
      /\ Speed(motor) /\ FdTypes /\ OneThing
  BY DEF FdInv, FdTypes
<1>5. motor' \in Motors /\ motor'.selected = motor.selected /\ motor'.sel = motor.sel
  BY <1>1, <1>4, TimerMotor
<1>6. Speed(motor')
  BY <1>1, <1>4, TimerSpeed
<1>7. chg' \in Changers
  BY <1>1, <1>4 DEF Changers
<1>8. FdTypes' /\ Speed(motor)'
  BY <1>1, <1>3, <1>4, <1>5, <1>6, <1>7 DEF FdTypes, Speed
<1>9. \A fn : Awaits(fn)' = Awaits(fn)
  BY <1>2 DEF Awaits
<1>10. OneThing'
  BY <1>1, <1>2, <1>4 DEF OneThing, Awaits
<1>11. (Serving' <=> Serving) /\ (OnDrive' <=> OnDrive) /\ Remaining' = Remaining
  BY <1>1, <1>2, <1>9 DEF Serving, OnDrive, Remaining
<1>12. ASSUME Serving PROVE Served'
  <2>1. /\ fd.drive \in FdDrives /\ Awaits("floppy_on_interrupt") \in BOOLEAN
        /\ Remaining \in Nat /\ (timers # <<>> => timers[1].jiffies \in Nat)
    BY <1>4, <1>2, <1>12, ServingFacts
  <2>2. Served
    BY <1>12 DEF FdInv
  <2>3. Awaits("floppy_on_interrupt") => timers[1].jiffies \in Nat
    BY <2>1 DEF Awaits
  <2>4. InTick = 1 /\ InTick' = 0
    BY <1>2 DEF InTick
  <2>5. RunsOn(motor, fd.drive, Awaits("floppy_on_interrupt"), timers[1].jiffies, Remaining, 1)
    BY <2>2, <2>4 DEF Served
  <2>6. RunsOn(motor', fd.drive, Awaits("floppy_on_interrupt"), timers[1].jiffies, Remaining, 0)
    BY <2>1, <2>3, <2>5, <1>1, <1>4, RunsDone
  <2> QED
    BY <2>2, <2>4, <2>6, <1>1, <1>2, <1>9, <1>11 DEF Served, FdCurrent
<1>13. OnDrive' => motor'.selected /\ motor'.sel = fd'.drive
  BY <1>1, <1>5, <1>11 DEF FdInv
<1> QED
  BY <1>2, <1>3, <1>8, <1>10, <1>11, <1>12, <1>13 DEF FdInv

\* The driver's function is called by the timer it has set.
LEMMA FdExpireStep ==
  ASSUME FdInv, TimerInv, NEW fn \in {"floppy_on_interrupt", "transfer"}, FdExpire(fn)
  PROVE  FdInv' /\ TimerInv'
<1>1. /\ fd.pc = "idle" /\ Expire(fn) /\ fd' = [fd EXCEPT !.pc = fn]
      /\ fdReq' = fdReq /\ fdQueue' = fdQueue /\ motor' = motor /\ fdc' = fdc /\ chg' = chg
  BY DEF FdExpire
<1>2. /\ TimerInv' /\ timers # <<>> /\ timers[1].fn = fn /\ timers[1].jiffies = 0
      /\ Len(timers') = Len(timers) - 1 /\ timerPc = "run" /\ timerPc' = "run"
  BY <1>1, ExpireTimers
<1>3. FdQueueOK' /\ fdReq' \in FdReqs /\ Speed(motor)'
  BY <1>1, SameQueue DEF FdInv, Speed
<1>4. /\ fd \in FdGlobals /\ motor \in Motors /\ fdc \in Controllers /\ chg \in Changers
      /\ FdTypes /\ OneThing /\ FdOpTicks \in Nat
  BY FdAssumption DEF FdInv, FdTypes
<1>5. fd' \in FdGlobals /\ fd'.pc = fn /\ fd'.drive = fd.drive
  BY <1>1, <1>4 DEF FdGlobals
<1>6. timers' = <<>> /\ Len(timers') = 0 /\ fdc.kind = "none"
  <2>1. timers \in Seq(Entry) /\ timers' \in Seq(Entry)
    BY <1>2 DEF TimerInv
  <2>2. Len(timers) <= 1 /\ fdc.kind = "none" /\ Len(timers) \in Nat /\ Len(timers') \in Nat
    BY <2>1, <1>2, <1>4, LenProperties DEF OneThing
  <2> QED
    BY <2>1, <2>2, <1>2, EmptySeq
<1>7. Awaits("floppy_on_interrupt")' = FALSE /\ Awaits("transfer")' = FALSE
  BY <1>6 DEF Awaits
<1>8. /\ Awaits("floppy_on_interrupt") = (fn = "floppy_on_interrupt")
      /\ Awaits("transfer") = (fn = "transfer")
  BY <1>2 DEF Awaits
<1>9. InTick = 1 /\ InTick' = 1 /\ FdTypes'
  BY <1>1, <1>2, <1>3, <1>4, <1>5 DEF InTick, FdTypes
<1>10. OneThing'
  <2>1. Len(timers') <= 1
    BY <1>6
  <2>2. timers' = <<>> /\ fdc'.kind = "none" /\ timerPc' = "run" /\ ~Awaits("transfer")'
    BY <1>1, <1>2, <1>6, <1>7
  <2>3. fd'.pc \in {"floppy_on_interrupt", "transfer"}
    BY <1>5
  <2> QED
    BY <2>1, <2>2, <2>3 DEF OneThing
<1>11. Served
  BY <1>2 DEF FdInv, Serving
<1>12. fd.drive \in FdDrives
  BY <1>4 DEF FdGlobals
<1>13. Served'
  <2>1. CASE fn = "floppy_on_interrupt"
    <3>1. Remaining = 0 + 2 + 2 * FdOpTicks
      BY <2>1, <1>2, <1>8 DEF Remaining
    <3>2. Remaining' = 2 + 2 * FdOpTicks
      BY <2>1, <1>5, <1>7 DEF Remaining
    <3>3. Awaits("floppy_on_interrupt") = TRUE
      BY <2>1, <1>8
    <3>4. Remaining' = Remaining /\ Remaining \in Nat
      BY <3>1, <3>2, <1>4
    <3>5. RunsOn(motor, fd.drive, TRUE, 0, Remaining, 1)
      BY <3>3, <1>2, <1>9, <1>11 DEF Served
    <3>6. \A j : RunsOn(motor, fd.drive, FALSE, j, Remaining, 1)
      BY <3>4, <3>5, <1>4, <1>12, RunsExpired
    <3> QED
      BY <3>4, <3>6, <1>1, <1>5, <1>7, <1>9, <1>11 DEF Served, FdCurrent
  <2>2. CASE fn = "transfer"
    <3>1. Awaits("floppy_on_interrupt") = FALSE /\ Awaits("transfer") = TRUE
      BY <2>2, <1>8
    <3>2. Remaining = 0 + 2 * FdOpTicks
      BY <3>1, <1>1, <1>2 DEF Remaining
    <3>3. Remaining' = 2 * FdOpTicks
      BY <2>2, <1>5, <1>7 DEF Remaining
    <3>4. Remaining' = Remaining /\ Remaining \in Nat /\ Remaining' <= Remaining
      BY <3>2, <3>3, <1>4
    <3>5. RunsOn(motor, fd.drive, FALSE, timers[1].jiffies, Remaining, 1)
      BY <3>1, <1>9, <1>11 DEF Served
    <3>6. \A r \in Nat : \A j : r <= Remaining => RunsOn(motor, fd.drive, FALSE, j, r, 1)
      <4>1. 1 \in 0 .. 1
        OBVIOUS
      <4> QED
        BY <4>1, <3>4, <3>5, <1>4, <1>12, RunsLess
    <3>7. RunsOn(motor, fd.drive, FALSE, timers'[1].jiffies, Remaining', 1)
      BY <3>4, <3>6
    <3> QED
      BY <3>7, <1>1, <1>5, <1>7, <1>9, <1>11 DEF Served, FdCurrent
  <2> QED
    BY <2>1, <2>2
<1>14. ASSUME OnDrive' PROVE motor'.selected /\ motor'.sel = fd'.drive
  <2>1. fn = "transfer"
    BY <1>1, <1>5, <1>6, <1>7, <1>14 DEF OnDrive
  <2>2. OnDrive
    BY <2>1, <1>8 DEF OnDrive
  <2> QED
    BY <2>2, <1>1, <1>5 DEF FdInv
<1> QED
  BY <1>2, <1>3, <1>9, <1>10, <1>13, <1>14 DEF FdInv

\* A step that does not touch the timers.
LEMMA SameTimers ==
  ASSUME TimerInv, timers' = timers, timerPc' = timerPc
  PROVE  TimerInv'
BY DEF TimerInv, TimersNeverEarly

\* Every step of the floppy driver and of its callers keeps FdInv.
LEMMA FdStepInv ==
  ASSUME ~FdAnyTime, FdInv, TimerInv, [FdNext]_fdVars
  PROVE  FdInv' /\ TimerInv' /\ Len(timers') <= TIME_REQUESTS
<1>1. ASSUME FdInv', TimerInv' PROVE Len(timers') <= TIME_REQUESTS
  <2>1. Len(timers') <= 1 /\ timers' \in Seq(Entry)
    BY <1>1 DEF FdInv, OneThing, TimerInv
  <2>2. Len(timers') \in Nat /\ TIME_REQUESTS \in Nat \ {0}
    BY <2>1, LenProperties, TimerAssumption
  <2> QED
    BY <2>1, <2>2
<1>2. CASE UNCHANGED fdVars
  <2>1. /\ fdReq' = fdReq /\ fdQueue' = fdQueue /\ fd' = fd /\ motor' = motor /\ fdc' = fdc
        /\ chg' = chg /\ timers' = timers /\ timerPc' = timerPc
    BY <1>2 DEF fdVars, timerVars
  <2>2. FdQueueOK' /\ FdTypes' /\ Speed(motor)'
    BY <2>1, SameQueue DEF FdInv, FdTypes, Speed
  <2>3. Serving => RunsOn(motor', fd.drive, Awaits("floppy_on_interrupt"), timers[1].jiffies,
                          Remaining, InTick)
    BY <2>1 DEF FdInv, Served
  <2>4. timerPc = "run" /\ fd.pc = "do_fd_request" => fd'.reset
    BY <2>1 DEF FdInv, OneThing
  <2>5. FdInv'
    BY <2>1, <2>2, <2>3, <2>4, StillServed
  <2> QED
    BY <2>1, <2>5, <1>1, SameTimers
<1>3. CASE \E r \in FdRequests, d \in FdDrives, t \in FdTracks \cup {FdBad} : FdAddRequest(r, d, t)
  <2>1. FdInv'
    BY <1>3, FdAddStep
  <2>2. TimerInv'
    BY <1>3, SameTimers DEF FdAddRequest, timerVars
  <2> QED
    BY <2>1, <2>2, <1>1
<1>4. CASE (\E d \in FdDrives : FloppyChange(d)) \/ FloppyOn \/ ChangeTest \/ ChangeSleeps
  <2>1. FdInv'
    BY <1>4, FdChangeStep
  <2>2. TimerInv'
    BY <1>4, SameTimers DEF FloppyChange, FloppyOn, ChangeTest, ChangeSleeps, timerVars
  <2> QED
    BY <2>1, <2>2, <1>1
<1>5. CASE ResetFloppy \/ RecalibrateFloppy \/ FdNoRequest \/ FdRefuse \/ Transfer \/ SetupRw
  <2>1. FdInv'
    BY <1>5, FdResetStep, FdRefuseStep, FdTransferStep
  <2>2. TimerInv'
    BY <1>5, SameTimers
    DEF ResetFloppy, RecalibrateFloppy, FdNoRequest, FdRefuse, Transfer, SetupRw, timerVars
  <2> QED
    BY <2>1, <2>2, <1>1
<1>6. CASE FdServe \/ FloppyOnInterrupt
  BY <1>6, <1>1, FdServeStep, FdSelectStep
<1>7. CASE FdInterrupt
  <2>1. FdInv'
    BY <1>7, FdInterruptStep
  <2>2. TimerInv'
    BY <1>7, SameTimers DEF FdInterrupt, SeekInterrupt, RwInterrupt, RecalInterrupt, FdIntr, timerVars
  <2> QED
    BY <2>1, <2>2, <1>1
<1>8. CASE UnexpectedFloppy
  <2>1. FdInv'
    BY <1>8, FdUnexpectedStep
  <2>2. TimerInv'
    BY <1>8, SameTimers DEF UnexpectedFloppy, timerVars
  <2> QED
    BY <2>1, <2>2, <1>1
<1>9. CASE FdClock
  BY <1>9, <1>1, FdTickStep, FdTickDoneStep, FdExpireStep DEF FdClock
<1> QED
  BY <1>2, <1>3, <1>4, <1>5, <1>6, <1>7, <1>8, <1>9 DEF FdNext, FdRuns

\* Every step of the timers with other clients keeps what is known of them.
LEMMA TimerStepInv ==
  ASSUME TimerInv, Len(timers) <= TIME_REQUESTS, TimerNext
  PROVE  TimerInv' /\ Len(timers') <= TIME_REQUESTS
<1>1. Len(timers) \in Nat /\ TIME_REQUESTS \in Nat /\ TimerMax \in Nat
  BY LenProperties, TimerAssumption DEF TimerInv
<1>2. ASSUME NEW fn \in TimerClients, Expire(fn) PROVE TimerInv' /\ Len(timers') <= TIME_REQUESTS
  <2>1. TimerInv' /\ Len(timers') = Len(timers) - 1
    BY <1>2, ExpireTimers
  <2> QED
    BY <2>1, <1>1
<1>3. ASSUME NEW fn \in TimerClients, NEW j \in 1 .. TimerMax, ClientAdds(fn, j)
      PROVE  TimerInv' /\ Len(timers') <= TIME_REQUESTS
  <2>1. timerPc = "idle"
    BY <1>3 DEF ClientAdds
  <2>2. CASE Len(timers) >= TIME_REQUESTS
    <3>1. timers' = timers /\ timerPc' = "panic"
      BY <2>2, <1>3 DEF ClientAdds
    <3> QED
      BY <3>1, <2>1 DEF TimerInv, TimersNeverEarly
  <2>3. CASE ~(Len(timers) >= TIME_REQUESTS)
    <3>1. timers' = AddTimer(timers, j, fn) /\ timerPc' = timerPc
      BY <2>3, <1>3 DEF ClientAdds
    <3>2. j \in Nat \ {0} /\ fn \in TimerFns
      BY <1>1 DEF TimerFns
    <3>3. TimerInv' /\ Len(timers') = Len(timers) + 1
      BY <3>1, <3>2, AddTimers
    <3> QED
      BY <3>3, <2>3, <1>1
  <2> QED
    BY <2>2, <2>3
<1>4. CASE Tick
  <2>1. TimerInv' /\ Len(timers') = Len(timers)
    BY <1>4, TickTimers
  <2> QED
    BY <2>1
<1>5. CASE TickDone
  BY <1>5, DoneTimers
<1> QED
  BY <1>2, <1>3, <1>4, <1>5 DEF TimerNext

\* DisksInv holds at the start.
LEMMA DisksInitInv == Init => DisksInv
<1> SUFFICES ASSUME Init PROVE DisksInv
  OBVIOUS
<1>1. HdInv
  BY HdInitInv DEF Init
<1>2. timers = <<>> /\ timerPc = "idle" /\ Len(timers) = 0 /\ <<>> \in Seq(Entry)
  BY EmptySeq DEF Init, FdInit, TimerInit
<1>3. TimerInv
  BY <1>2 DEF TimerInv, TimersNeverEarly
<1>4. Len(timers) <= TIME_REQUESTS
  BY <1>2, TimerAssumption
<1>5. /\ AnyDrive \in FdDrives /\ (CHOOSE t \in FdTracks : TRUE) \in FdTracks
      /\ FdMaxErrors \in Nat /\ FdFaults \in Nat /\ FdChanges \in Nat /\ FdOpTicks \in Nat
      /\ FdSpinUp \in Nat /\ Forever \in Nat
  BY FdAssumption DEF AnyDrive, Forever
<1>6. fdReq \in FdReqs /\ \A r \in FdRequests : fdReq[r].state = "new"
  BY <1>5 DEF Init, FdInit, FdReqs
<1>7. fd \in FdGlobals /\ fd.pc = "idle"
  <2>1. PICK no \in BOOLEAN, t \in FdTracks : no = FALSE /\ t = CHOOSE x \in FdTracks : TRUE
    BY <1>5
  <2>2. fd = [reset |-> no, recal |-> no, seek |-> no, spec |-> no, drive |-> AnyDrive,
              seek_track |-> t, current_track |-> 255, do_floppy |-> "none", pc |-> "idle"]
    BY <2>1 DEF Init, FdInit
  <2> QED
    BY <2>2, <1>5 DEF FdGlobals
<1>8. motor \in Motors /\ motor.on = {}
  BY <1>5 DEF Init, FdInit, Motors
<1>9. fdc \in Controllers /\ fdc.kind = "none" /\ chg \in Changers
  BY <1>5 DEF Init, FdInit, Controllers, Changers
<1>10. FdTypes /\ FdQueued = {} /\ fdQueue = <<>>
  BY <1>6, <1>7, <1>8, <1>9 DEF FdTypes, FdQueued, Init, FdInit
<1>11. FdQueueOK
  <2>1. <<>> \in Seq(FdRequests) /\ DOMAIN <<>> = {}
    BY EmptySeq
  <2> QED
    BY <2>1, <1>10 DEF FdQueueOK, QueueOK, IsInjective, Range
<1>12. ~Serving /\ ~OnDrive
  BY <1>2, <1>7, <1>9 DEF Serving, OnDrive, Awaits
<1>13. OneThing
  BY <1>2, <1>7, <1>9 DEF OneThing, Awaits
<1>14. Speed(motor)
  BY <1>8 DEF Speed
<1>15. FdInv /\ FdAtRest
  BY <1>7, <1>9, <1>10, <1>11, <1>12, <1>13, <1>14 DEF FdInv, FdAtRest
<1> QED
  BY <1>1, <1>3, <1>4, <1>15 DEF DisksInv

\* Every step keeps it.
LEMMA DisksStepInv ==
  ASSUME ~FdAnyTime, DisksInv, [Next]_disksVars
  PROVE  DisksInv'
<1>1. HdInv /\ TimerInv /\ Len(timers) <= TIME_REQUESTS
  BY DEF DisksInv
<1>2. subject' = subject /\ (subject = "timers" => FdAtRest) /\ (subject # "timers" => FdInv)
  BY DEF DisksInv, Next, disksVars
<1>3. CASE subject = "timers"
  <2>1. /\ hdVars' = hdVars /\ fdReq' = fdReq /\ fdQueue' = fdQueue /\ fd' = fd /\ motor' = motor
        /\ fdc' = fdc /\ chg' = chg /\ (TimerNext \/ UNCHANGED timerVars)
    BY <1>3 DEF Next, disksVars, fdVars
  <2>2. HdInv'
    BY <2>1, <1>1, HdStepInv
  <2>3. TimerInv' /\ Len(timers') <= TIME_REQUESTS
    BY <2>1, <1>1, TimerStepInv, SameTimers DEF timerVars
  <2>4. FdAtRest'
    BY <2>1, <1>2, <1>3 DEF FdAtRest, FdTypes, FdQueued
  <2> QED
    BY <2>2, <2>3, <2>4, <1>2, <1>3 DEF DisksInv
<1>4. CASE subject # "timers"
  <2>1. [HdNext]_hdVars /\ [FdNext]_fdVars
    BY <1>4 DEF Next, disksVars
  <2>2. HdInv'
    BY <2>1, <1>1, HdStepInv
  <2>3. FdInv' /\ TimerInv' /\ Len(timers') <= TIME_REQUESTS
    BY <2>1, <1>1, <1>2, <1>4, FdStepInv
  <2> QED
    BY <2>2, <2>3, <1>2, <1>4 DEF DisksInv
<1> QED
  BY <1>3, <1>4

\* Requests, lists, globals and motors of both drivers, and the timer list within
\* TIME_REQUESTS, keep their types.
THEOREM DisksTypesHold ==
  ASSUME ~FdAnyTime
  PROVE  Spec => []DisksTypeOK
<1>1. DisksInv => DisksTypeOK
  <2> SUFFICES ASSUME DisksInv PROVE DisksTypeOK
    OBVIOUS
  <2>1. HdTypeOK
    BY DEF DisksInv, HdInv, Types, QueueOK, Queued, HdTypeOK, ReqType, DataType, DriveType
  <2>2. TimerTypeOK
    <3>1. timers \in Seq(Entry) /\ DOMAIN timers = 1 .. Len(timers)
      BY LenProperties DEF DisksInv, TimerInv
    <3>2. \A i \in DOMAIN timers : timers[i] \in Entry
      BY <3>1, ElementOfSeq
    <3> QED
      BY <3>2 DEF DisksInv, TimerInv, TimerTypeOK, Entry
  <2>3. FdTypes /\ Range(fdQueue) = FdQueued
    <3>1. CASE subject = "timers"
      <4>1. DOMAIN <<>> = {}
        BY EmptySeq
      <4> QED
        BY <4>1, <3>1 DEF DisksInv, FdAtRest, Range
    <3>2. CASE subject # "timers"
      BY <3>2 DEF DisksInv, FdInv, FdQueueOK, QueueOK
    <3> QED
      BY <3>1, <3>2
  <2>4. FdTypeOK
    BY <2>3 DEF FdTypes, FdReqs, FdGlobals, Motors, Controllers, Changers, FdQueued, FdTypeOK
  <2> QED
    BY <2>1, <2>2, <2>4 DEF DisksTypeOK
<1> QED
  BY <1>1, DisksInitInv, DisksStepInv, PTL DEF Spec

\* add_timer() and do_timer() call no function before its time.
THEOREM TimersAreNeverEarly ==
  ASSUME ~FdAnyTime
  PROVE  Spec => []TimersNeverEarly
<1>1. DisksInv => TimersNeverEarly
  BY DEF DisksInv, TimerInv
<1> QED
  BY <1>1, DisksInitInv, DisksStepInv, PTL DEF Spec

\* The floppy controller seeks and transfers on the drive of CURRENT, which is
\* selected and at speed, whatever floppy_change() does meanwhile.
THEOREM FloppyIsReady ==
  ASSUME ~FdAnyTime
  PROVE  Spec => []FdReady
<1>1. DisksInv => FdReady
  <2> SUFFICES ASSUME DisksInv, fdc.kind \in {"seek", "rw"} \/ fd.pc = "setup_rw"
               PROVE  /\ fdQueue # <<>> /\ fd.drive = fdReq[FdCurrent].drive
                      /\ motor.sel = fd.drive /\ fd.drive \in motor.on
                      /\ motor.spun[fd.drive] >= FdSpinUp - 1
    BY DEF FdReady
  <2>1. FdInv
    BY DEF DisksInv, FdAtRest
  <2>2. Serving /\ OnDrive
    BY DEF Serving, OnDrive
  <2>3. Served /\ motor.sel = fd.drive
    BY <2>1, <2>2 DEF FdInv
  <2>4. Awaits("floppy_on_interrupt") = FALSE
    BY <2>1 DEF FdInv, OneThing, Awaits
  <2>5. RunsOn(motor, fd.drive, FALSE, timers[1].jiffies, Remaining, InTick)
    BY <2>3, <2>4 DEF Served
  <2> QED
    BY <2>3, <2>5 DEF Served, RunsOn
<1> QED
  BY <1>1, DisksInitInv, DisksStepInv, PTL DEF Spec
=============================================================================
