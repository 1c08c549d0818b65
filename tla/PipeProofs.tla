----------------------------- MODULE PipeProofs -----------------------------
(***************************************************************************)
(* Proofs about the pipe, for every number of readers and writers, every   *)
(* PIPESIZE and every width of the counters: the arithmetic of nread and   *)
(* nwrite, and that the invariant of PipeInv is inductive.                 *)
(***************************************************************************)
EXTENDS PipeInv, TLAPS

-----------------------------------------------------------------------------
(* Arithmetic *)

\* Division with remainder.
LEMMA DivMod ==
    ASSUME NEW a \in Int, NEW m \in Nat \ {0}
    PROVE  a \div m \in Int /\ a % m \in 0..m - 1 /\ a = m * (a \div m) + (a % m)
OBVIOUS

\* A remainder is determined by its range.
LEMMA ModUnique ==
    ASSUME NEW a \in Int, NEW m \in Nat \ {0}, NEW q \in Int, NEW r \in 0..m - 1, a = m * q + r
    PROVE  a % m = r
<1> DEFINE t == a \div m
<1>1. t \in Int /\ a % m \in 0..m - 1 /\ a = m * t + (a % m)
  BY DivMod
<1>2. m * (t - q) = r - (a % m)
  BY <1>1
<1>3. CASE t - q >= 1
  <2>1. m * (t - q) >= m
    BY <1>1, <1>3
  <2> QED
    BY <1>1, <1>2, <2>1
<1>4. CASE t - q <= -1
  <2>1. m * (t - q) <= -m
    BY <1>1, <1>4
  <2> QED
    BY <1>1, <1>2, <2>1
<1>5. CASE t = q
  BY <1>1, <1>5
<1> QED
  BY <1>1, <1>3, <1>4, <1>5

USE EndsAssumption, SizeAssumption, ZenonT(10), SMTT(30)

\* nread and nwrite are c bytes apart when nwrite is c ahead, before or after it
\* has wrapped around.
LEMMA Distance ==
    ASSUME NEW r \in 0..UINT - 1, NEW w \in 0..UINT - 1, NEW c \in 0..UINT - 1
    PROVE  (w - r) % UINT = c <=> w = r + c \/ w = r + c - UINT
<1>1. CASE w >= r
  <2>1. w - r = UINT * 0 + (w - r) /\ w - r \in 0..UINT - 1
    BY <1>1
  <2>2. (w - r) % UINT = w - r
    BY <2>1, ModUnique
  <2> QED
    BY <1>1, <2>2
<1>2. CASE w < r
  <2>1. w - r = UINT * (-1) + (w - r + UINT) /\ w - r + UINT \in 0..UINT - 1
    BY <1>2
  <2>2. (w - r) % UINT = w - r + UINT
    BY <2>1, ModUnique
  <2> QED
    BY <1>2, <2>2
<1> QED
  BY <1>1, <1>2

\* The ++ of an unsigned counter.
LEMMA IncrementIs ==
    ASSUME NEW i \in 0..UINT - 1
    PROVE  /\ Increment(i) = (IF i = UINT - 1 THEN 0 ELSE i + 1)
           /\ Increment(i) \in 0..UINT - 1
<1>1. CASE i = UINT - 1
  <2>1. i + 1 = UINT * 1 + 0 /\ 0 \in 0..UINT - 1
    BY <1>1
  <2>2. (i + 1) % UINT = 0
    BY <2>1, ModUnique
  <2> QED
    BY <1>1, <2>1, <2>2 DEF Increment
<1>2. CASE i # UINT - 1
  <2>1. i + 1 = UINT * 0 + (i + 1) /\ i + 1 \in 0..UINT - 1
    BY <1>2
  <2>2. (i + 1) % UINT = i + 1
    BY <2>1, ModUnique
  <2> QED
    BY <1>2, <2>1, <2>2 DEF Increment
<1> QED
  BY <1>1, <1>2

\* The tests of pipewrite() and piperead() for a full and an empty pipe count its bytes.
LEMMA FullEmpty ==
    ASSUME TypeOK
    PROVE  /\ Bytes \in 0..UINT - 1
           /\ nwrite = nread + Bytes \/ nwrite = nread + Bytes - UINT
           /\ Full <=> Bytes = PIPESIZE
           /\ Empty <=> Bytes = 0
<1>1. nread \in 0..UINT - 1 /\ nwrite \in 0..UINT - 1
  BY DEF TypeOK
<1>2. Bytes \in 0..UINT - 1
  BY <1>1, DivMod DEF Bytes
<1>3. nwrite = nread + Bytes \/ nwrite = nread + Bytes - UINT
  BY <1>1, <1>2, Distance DEF Bytes
<1>4. Empty <=> Bytes = 0
  BY <1>1, <1>2, <1>3 DEF Empty
<1>5. Full <=> Bytes = PIPESIZE
  <2>1. CASE nread + PIPESIZE < UINT
    <3>1. nread + PIPESIZE = UINT * 0 + (nread + PIPESIZE) /\ nread + PIPESIZE \in 0..UINT - 1
      BY <1>1, <2>1
    <3>2. (nread + PIPESIZE) % UINT = nread + PIPESIZE
      BY <3>1, ModUnique
    <3> QED
      BY <1>1, <1>2, <1>3, <3>2 DEF Full
  <2>2. CASE nread + PIPESIZE >= UINT
    <3>1. /\ nread + PIPESIZE = UINT * 1 + (nread + PIPESIZE - UINT)
          /\ nread + PIPESIZE - UINT \in 0..UINT - 1
      BY <1>1, <2>2
    <3>2. (nread + PIPESIZE) % UINT = nread + PIPESIZE - UINT
      BY <3>1, ModUnique
    <3> QED
      BY <1>1, <1>2, <1>3, <3>2 DEF Full
  <2> QED
    BY <1>1, <2>1, <2>2
<1> QED
  BY <1>2, <1>3, <1>4, <1>5

\* A byte stored by pipewrite() is one more in the pipe.
LEMMA PutBytes ==
    ASSUME TypeOK, Bytes <= PIPESIZE, ~Full, nwrite' = Increment(nwrite), nread' = nread
    PROVE  Bytes < PIPESIZE /\ Bytes' = Bytes + 1
<1>1. nread \in 0..UINT - 1 /\ nwrite \in 0..UINT - 1
  BY DEF TypeOK
<1>2. /\ Bytes \in 0..PIPESIZE - 1 /\ Bytes + 1 \in 0..UINT - 1
      /\ nwrite = nread + Bytes \/ nwrite = nread + Bytes - UINT
  BY FullEmpty
<1>3. nwrite' = (IF nwrite = UINT - 1 THEN 0 ELSE nwrite + 1) /\ nwrite' \in 0..UINT - 1
  BY <1>1, IncrementIs
<1>4. nwrite' = nread' + (Bytes + 1) \/ nwrite' = nread' + (Bytes + 1) - UINT
  BY <1>1, <1>2, <1>3
<1>5. (nwrite' - nread') % UINT = Bytes + 1
  BY <1>1, <1>2, <1>3, <1>4, Distance
<1> QED
  BY <1>2, <1>5 DEF Bytes

\* A byte taken by piperead() is one less in the pipe.
LEMMA GetBytes ==
    ASSUME TypeOK, ~Empty, nread' = Increment(nread), nwrite' = nwrite
    PROVE  Bytes > 0 /\ Bytes' = Bytes - 1
<1>1. nread \in 0..UINT - 1 /\ nwrite \in 0..UINT - 1
  BY DEF TypeOK
<1>2. /\ Bytes \in 1..UINT - 1 /\ Bytes - 1 \in 0..UINT - 1
      /\ nwrite = nread + Bytes \/ nwrite = nread + Bytes - UINT
  BY FullEmpty
<1>3. nread' = (IF nread = UINT - 1 THEN 0 ELSE nread + 1) /\ nread' \in 0..UINT - 1
  BY <1>1, IncrementIs
<1>4. nwrite' = nread' + (Bytes - 1) \/ nwrite' = nread' + (Bytes - 1) - UINT
  BY <1>1, <1>2, <1>3
<1>5. (nwrite' - nread') % UINT = Bytes - 1
  BY <1>1, <1>2, <1>3, <1>4, Distance
<1> QED
  BY <1>2, <1>5 DEF Bytes

\* A counter modulo PIPESIZE is an index of the buffer.
LEMMA Slot ==
    ASSUME NEW i \in Nat
    PROVE  i % PIPESIZE \in 0..PIPESIZE - 1
BY DivMod

-----------------------------------------------------------------------------
(* The initial states *)

LEMMA InitInv == Init => IInv
<1> SUFFICES ASSUME Init PROVE IInv
  OBVIOUS
<1> USE DEF Init
<1>1. TypeOK
  <2>1. nread \in 0..UINT - 1 /\ nwrite \in 0..UINT - 1 /\ 0 \in 0..MAXN
    OBVIOUS
  <2>2. readopen \in BOOLEAN /\ writeopen \in BOOLEAN /\ freed \in BOOLEAN
    OBVIOUS
  <2>3. data \in [0..PIPESIZE - 1 -> Byte \cup {NoByte}] /\ lock \in Proc \cup {NoProc}
    OBVIOUS
  <2>4. pc \in [Proc -> Labels] /\ todo \in [Proc -> 0..MAXN]
    BY <2>1 DEF Labels
  <2>5. open \in [Proc -> BOOLEAN] /\ killed \in [Proc -> BOOLEAN]
    OBVIOUS
  <2> QED
    BY <2>1, <2>2, <2>3, <2>4, <2>5 DEF TypeOK
<1>2. LockInv
  BY DEF LockInv, Locked, Proc
<1>3. EndInv(Reader, readopen) /\ EndInv(Writer, writeopen)
  BY DEF EndInv, Proc
<1>4. SleepInv
  BY DEF SleepInv
<1>5. Bytes <= PIPESIZE
  BY <1>1, FullEmpty DEF Empty
<1> QED
  BY <1>1, <1>2, <1>3, <1>4, <1>5 DEF IInv

-----------------------------------------------------------------------------
(* The steps *)

\* Entering a call takes the lock.
LEMMA CallStep ==
    ASSUME IInv, NEW p \in Proc, NEW n \in 0..MAXN, Call(p, n)
    PROVE  IInv'
<1> USE DEF IInv, Call, Goto, pipeVars
<1>1. TypeOK'
  BY DEF TypeOK, Labels
<1>2. LockInv'
  BY DEF LockInv, Locked, TypeOK, Proc
<1>3. EndInv(Reader, readopen)' /\ EndInv(Writer, writeopen)'
  BY DEF EndInv, TypeOK, Proc
<1>4. SleepInv'
  BY DEF SleepInv, TypeOK, Proc, Full, Empty
<1>5. Bytes' <= PIPESIZE
  BY DEF Bytes
<1> QED
  BY <1>1, <1>2, <1>3, <1>4, <1>5

\* A step of pipewrite() keeps the promise to sleeping readers: it wakes them before
\* it gives up the lock, unless the writer has been killed.
LEMMA PipeWriteStep ==
    ASSUME IInv, NEW p \in Proc, PipeWrite(p)
    PROVE  IInv'
<1> USE DEF IInv
<1>0. /\ pc[p] = "write" /\ lock = p /\ p \in Writer /\ p \notin Reader /\ open[p] /\ writeopen
      /\ \A q \in Proc : q # p => pc[q] \notin Locked
      /\ UNCHANGED <<nread, readopen, writeopen, freed, open, killed>>
  BY DEF PipeWrite, LockInv, Locked, EndInv, Proc
<1>1. ASSUME lock' = NoProc, pc' = WakeReaders(p, "user"), todo' = [todo EXCEPT ![p] = 0],
             UNCHANGED <<data, nwrite>>
      PROVE  IInv'
  <2> USE <1>0, <1>1
  <2>0. \A q \in Proc : pc'[q] = IF q = p THEN "user"
                                 ELSE IF pc[q] = "read_asleep" THEN "read_woken" ELSE pc[q]
    BY DEF WakeReaders
  <2>1. TypeOK'
    BY DEF TypeOK, Labels, WakeReaders
  <2>2. LockInv'
    BY <2>0 DEF LockInv, Locked, Proc
  <2>3. EndInv(Reader, readopen)' /\ EndInv(Writer, writeopen)'
    BY <2>0 DEF EndInv, Proc
  <2>4. SleepInv'
    BY <2>0 DEF SleepInv, Locked, Proc, Full, Empty
  <2> QED
    BY <2>1, <2>2, <2>3, <2>4 DEF Bytes
<1>2. ASSUME ~readopen \/ killed[p],
             lock' = NoProc, pc' = [pc EXCEPT ![p] = "user"], todo' = [todo EXCEPT ![p] = 0],
             UNCHANGED <<data, nwrite>>
      PROVE  IInv'
  <2> USE <1>0, <1>2
  <2>0. \A q \in Proc : pc'[q] = IF q = p THEN "user" ELSE pc[q]
    BY DEF TypeOK
  <2>1. TypeOK'
    BY DEF TypeOK, Labels
  <2>2. LockInv'
    BY <2>0 DEF LockInv, Locked, Proc
  <2>3. EndInv(Reader, readopen)' /\ EndInv(Writer, writeopen)'
    BY <2>0 DEF EndInv, Proc
  <2>4. SleepInv'
    <3>1. \A q \in Proc : pc'[q] # "read_sleep" /\ pc'[q] # "write_sleep"
      BY <2>0 DEF Locked
    <3>2. ASSUME NEW q \in Proc, pc'[q] = "read_asleep"
          PROVE  writeopen /\ \E w \in Writer : killed[w]
      <4>1. q \in Reader /\ open[q]
        BY <2>0, <3>2 DEF LockInv, EndInv, Proc
      <4> QED
        BY <4>1 DEF EndInv
    <3>3. ASSUME NEW q \in Proc, pc'[q] = "write_asleep"
          PROVE  (Full /\ readopen) \/ \E r \in Reader : pc'[r] = "copy"
      BY <2>0, <3>3 DEF SleepInv, Proc
    <3> QED
      BY <3>1, <3>2, <3>3 DEF SleepInv, Full
  <2> QED
    BY <2>1, <2>2, <2>3, <2>4 DEF Bytes
<1>3. ASSUME readopen, Full, pc' = WakeReaders(p, "write_sleep"),
             UNCHANGED <<data, nwrite, lock, todo>>
      PROVE  IInv'
  <2> USE <1>0, <1>3
  <2>0. \A q \in Proc : pc'[q] = IF q = p THEN "write_sleep"
                                 ELSE IF pc[q] = "read_asleep" THEN "read_woken" ELSE pc[q]
    BY DEF WakeReaders
  <2>1. TypeOK'
    BY DEF TypeOK, Labels, WakeReaders
  <2>2. LockInv'
    BY <2>0 DEF LockInv, Locked, Proc
  <2>3. EndInv(Reader, readopen)' /\ EndInv(Writer, writeopen)'
    BY <2>0 DEF EndInv, Proc
  <2>4. SleepInv'
    BY <2>0 DEF SleepInv, Locked, Proc, Full, Empty
  <2> QED
    BY <2>1, <2>2, <2>3, <2>4 DEF Bytes
<1>4. ASSUME NEW b \in Byte, todo[p] > 0, ~Full,
             data' = [data EXCEPT ![nwrite % PIPESIZE] = b], nwrite' = Increment(nwrite),
             todo' = [todo EXCEPT ![p] = @ - 1], UNCHANGED <<lock, pc>>
      PROVE  IInv'
  <2> USE <1>0, <1>4
  <2>1. TypeOK'
    <3>1. nwrite' \in 0..UINT - 1
      BY IncrementIs DEF TypeOK
    <3>2. todo' \in [Proc -> 0..MAXN]
      <4>1. todo[p] - 1 \in 0..MAXN
        BY DEF TypeOK
      <4> QED
        BY <4>1 DEF TypeOK
    <3>3. data' \in [0..PIPESIZE - 1 -> Byte \cup {NoByte}]
      BY DEF TypeOK
    <3> QED
      BY <3>1, <3>2, <3>3 DEF TypeOK
  <2>2. LockInv'
    BY DEF LockInv
  <2>3. EndInv(Reader, readopen)' /\ EndInv(Writer, writeopen)'
    BY DEF EndInv
  <2>4. SleepInv'
    BY DEF SleepInv, Locked, Proc
  <2>5. Bytes' <= PIPESIZE
    <3>1. Bytes \in Int
      BY FullEmpty
    <3> QED
      BY <3>1, PutBytes
  <2> QED
    BY <2>1, <2>2, <2>3, <2>4, <2>5
<1> QED
  BY <1>1, <1>2, <1>3, <1>4 DEF PipeWrite, Return

\* The wait of piperead() preserves the invariant: it sleeps on an empty pipe only.
LEMMA PipeReadStep ==
    ASSUME IInv, NEW p \in Proc, PipeRead(p)
    PROVE  IInv'
<1> USE DEF IInv
<1>0. /\ pc[p] = "read" /\ lock = p /\ p \in Reader /\ p \notin Writer /\ open[p] /\ readopen
      /\ \A q \in Proc : q # p => pc[q] \notin Locked
      /\ UNCHANGED <<data, nread, nwrite, readopen, writeopen, freed, open, killed>>
  BY DEF PipeRead, LockInv, Locked, EndInv, Proc, pipeVars
<1>1. ASSUME NEW l \in {"user", "read_sleep", "copy"},
             pc' = [pc EXCEPT ![p] = l],
             lock' = IF l = "user" THEN NoProc ELSE p,
             todo' = IF l = "user" THEN [todo EXCEPT ![p] = 0] ELSE todo,
             l = "read_sleep" => Empty /\ writeopen
      PROVE  IInv'
  <2> USE <1>0, <1>1
  <2>0. \A q \in Proc : pc'[q] = IF q = p THEN l ELSE pc[q]
    BY DEF TypeOK
  <2>1. TypeOK'
    BY DEF TypeOK, Labels
  <2>2. LockInv'
    BY <2>0 DEF LockInv, Locked, Proc
  <2>3. EndInv(Reader, readopen)' /\ EndInv(Writer, writeopen)'
    BY <2>0 DEF EndInv, Proc
  <2>4. SleepInv'
    BY <2>0 DEF SleepInv, Locked, Proc, Full, Empty
  <2> QED
    BY <2>1, <2>2, <2>3, <2>4 DEF Bytes
<1>2. CASE Empty /\ writeopen /\ killed[p] /\ Return(p, [pc EXCEPT ![p] = "user"])
  BY <1>1, <1>2 DEF Return
<1>3. CASE Empty /\ writeopen /\ ~killed[p] /\ Goto(p, "read_sleep") /\ UNCHANGED <<lock, todo>>
  BY <1>0, <1>1, <1>3 DEF Goto
<1>4. CASE ~(Empty /\ writeopen) /\ Goto(p, "copy") /\ UNCHANGED <<lock, todo>>
  BY <1>0, <1>1, <1>4 DEF Goto
<1> QED
  BY <1>2, <1>3, <1>4 DEF PipeRead

\* The copy loop of piperead() keeps the promise to sleeping writers: it wakes them
\* before it gives up the lock.
LEMMA PipeCopyStep ==
    ASSUME IInv, NEW p \in Proc, PipeCopy(p)
    PROVE  IInv'
<1> USE DEF IInv
<1>0. /\ pc[p] = "copy" /\ lock = p /\ p \in Reader /\ p \notin Writer /\ open[p] /\ readopen
      /\ \A q \in Proc : q # p => pc[q] \notin Locked
      /\ UNCHANGED <<nwrite, readopen, writeopen, freed, open, killed>>
  BY DEF PipeCopy, LockInv, Locked, EndInv, Proc
<1>1. ASSUME TypeOK', Bytes' <= PIPESIZE, lock' = NoProc, pc' = WakeWriters(p, "user"),
             nread' = nread \/ ~Empty
      PROVE  IInv'
  <2> USE <1>0, <1>1
  <2>0. \A q \in Proc : pc'[q] = IF q = p THEN "user"
                                 ELSE IF pc[q] = "write_asleep" THEN "write_woken" ELSE pc[q]
    BY DEF WakeWriters
  <2>2. LockInv'
    BY <2>0 DEF LockInv, Locked, Proc
  <2>3. EndInv(Reader, readopen)' /\ EndInv(Writer, writeopen)'
    BY <2>0 DEF EndInv, Proc
  <2>4. SleepInv'
    BY <2>0 DEF SleepInv, Locked, Proc, Full, Empty
  <2> QED
    BY <2>2, <2>3, <2>4
<1>2. CASE todo[p] = 0 \/ Empty
  <2>0. Return(p, WakeWriters(p, "user")) /\ UNCHANGED <<data, nread>>
    BY <1>2 DEF PipeCopy
  <2>1. TypeOK'
    BY <1>0, <2>0 DEF TypeOK, Return, WakeWriters, Labels
  <2>2. Bytes' <= PIPESIZE
    BY <1>0, <2>0 DEF Bytes
  <2> QED
    BY <1>1, <2>0, <2>1, <2>2 DEF Return
<1>3. CASE ~(todo[p] = 0 \/ Empty)
  <2>0. nread' = Increment(nread) /\ data' = [data EXCEPT ![nread % PIPESIZE] = NoByte]
    BY <1>3 DEF PipeCopy
  <2>1. Bytes' <= PIPESIZE
    <3>1. Bytes \in Int
      BY FullEmpty
    <3> QED
      BY <1>0, <1>3, <2>0, <3>1, GetBytes
  <2>2. nread' \in 0..UINT - 1 /\ data' \in [0..PIPESIZE - 1 -> Byte \cup {NoByte}]
    BY <2>0, IncrementIs DEF TypeOK
  <2>3. CASE todo' = [todo EXCEPT ![p] = @ - 1] /\ UNCHANGED <<lock, pc>>
    <3> USE <1>0, <2>3
    <3>1. TypeOK'
      BY <1>3, <2>2 DEF TypeOK
    <3>2. LockInv'
      BY DEF LockInv
    <3>3. EndInv(Reader, readopen)' /\ EndInv(Writer, writeopen)'
      BY DEF EndInv
    <3>4. SleepInv'
      BY <1>3 DEF SleepInv, Locked, Proc, Empty
    <3> QED
      BY <2>1, <3>1, <3>2, <3>3, <3>4
  <2>4. CASE Return(p, WakeWriters(p, "user"))
    <3>1. TypeOK'
      BY <1>0, <2>2, <2>4 DEF TypeOK, Return, WakeWriters, Labels
    <3> QED
      BY <1>1, <1>3, <2>1, <2>4, <3>1 DEF Return
  <2> QED
    BY <1>3, <2>3, <2>4 DEF PipeCopy
<1> QED
  BY <1>2, <1>3

\* Falling asleep releases the lock with the reason to sleep still there.
LEMMA SleepStep ==
    ASSUME IInv, NEW p \in Proc, Sleep(p)
    PROVE  IInv'
<1> USE DEF IInv
<1>0. /\ lock = p /\ lock' = NoProc /\ open[p]
      /\ \A q \in Proc : q # p => pc[q] \notin Locked
      /\ UNCHANGED <<data, nread, nwrite, readopen, writeopen, freed, todo, open, killed>>
  BY DEF Sleep, LockInv, Locked, EndInv, Proc, pipeVars
<1>1. CASE pc[p] = "write_sleep" /\ Goto(p, "write_asleep")
  <2> USE <1>0, <1>1
  <2>0. \A q \in Proc : pc'[q] = IF q = p THEN "write_asleep" ELSE pc[q]
    BY DEF Goto, TypeOK
  <2>1. TypeOK'
    BY DEF TypeOK, Labels, Goto
  <2>2. LockInv'
    BY <2>0 DEF LockInv, Locked, Proc
  <2>3. EndInv(Reader, readopen)' /\ EndInv(Writer, writeopen)'
    BY <2>0 DEF EndInv, Proc
  <2>4. SleepInv'
    BY <2>0 DEF SleepInv, Locked, Proc, Full, Empty
  <2> QED
    BY <2>1, <2>2, <2>3, <2>4 DEF Bytes
<1>2. CASE pc[p] = "read_sleep" /\ Goto(p, "read_asleep")
  <2> USE <1>0, <1>2
  <2>0. \A q \in Proc : pc'[q] = IF q = p THEN "read_asleep" ELSE pc[q]
    BY DEF Goto, TypeOK
  <2>1. TypeOK'
    BY DEF TypeOK, Labels, Goto
  <2>2. LockInv'
    BY <2>0 DEF LockInv, Locked, Proc
  <2>3. EndInv(Reader, readopen)' /\ EndInv(Writer, writeopen)'
    BY <2>0 DEF EndInv, Proc
  <2>4. SleepInv'
    BY <2>0 DEF SleepInv, Locked, Proc, Full, Empty
  <2> QED
    BY <2>1, <2>2, <2>3, <2>4 DEF Bytes
<1> QED
  BY <1>1, <1>2 DEF Sleep

\* The end of sleep() takes the lock.
LEMMA RelockStep ==
    ASSUME IInv, NEW p \in Proc, Relock(p)
    PROVE  IInv'
<1> USE DEF IInv
<1>0. /\ lock = NoProc /\ lock' = p
      /\ \A q \in Proc : pc[q] \notin Locked
      /\ UNCHANGED <<data, nread, nwrite, readopen, writeopen, freed, todo, open, killed>>
  BY DEF Relock, LockInv, Proc, pipeVars
<1>1. PICK l \in {"write", "read"} :
          /\ pc' = [pc EXCEPT ![p] = l]
          /\ pc[p] = IF l = "write" THEN "write_woken" ELSE "read_woken"
  BY DEF Relock, Goto
<1> USE <1>0, <1>1
<1>2. \A q \in Proc : pc'[q] = IF q = p THEN l ELSE pc[q]
  BY DEF TypeOK
<1>3. TypeOK'
  BY DEF TypeOK, Labels
<1>4. LockInv'
  BY <1>2 DEF LockInv, Locked, Proc
<1>5. EndInv(Reader, readopen)' /\ EndInv(Writer, writeopen)'
  BY <1>2 DEF EndInv, Proc
<1>6. SleepInv'
  BY <1>2 DEF SleepInv, Locked, Proc, Full, Empty
<1> QED
  BY <1>3, <1>4, <1>5, <1>6 DEF Bytes

\* fileclose() of a descriptor: only the last one goes on to pipeclose().
LEMMA FileCloseStep ==
    ASSUME IInv, NEW p \in Proc, FileClose(p)
    PROVE  IInv'
<1> USE DEF IInv
<1> DEFINE end == IF p \in Writer THEN Writer ELSE Reader
<1>0. PICK l \in {"user", "close"} :
          /\ pc' = [pc EXCEPT ![p] = l]
          /\ l = "close" => \A q \in end \ {p} : ~open[q]
  BY DEF FileClose, Goto
<1>1. /\ pc[p] = "user" /\ open[p] /\ open' = [open EXCEPT ![p] = FALSE]
      /\ UNCHANGED <<data, nread, nwrite, readopen, writeopen, freed, lock, todo, killed>>
  BY DEF FileClose, pipeVars
<1> USE <1>0, <1>1
<1>2. \A q \in Proc : /\ pc'[q] = IF q = p THEN l ELSE pc[q]
                      /\ open'[q] = (open[q] /\ q # p)
  BY DEF TypeOK
<1>3. TypeOK'
  BY DEF TypeOK, Labels
<1>4. LockInv'
  BY <1>2 DEF LockInv, Locked, Proc, TypeOK
<1>5. EndInv(Reader, readopen)'
  <2>1. CASE p \in Reader
    <3>1. readopen
      BY <2>1 DEF EndInv
    <3>2. l = "close" => \A q \in Reader : ~open'[q]
      BY <1>2, <2>1 DEF Proc
    <3>3. \A q \in Reader : pc[q] # "close"
      BY <2>1 DEF EndInv
    <3>4. \A q \in Reader : pc'[q] = "close" => q = p /\ l = "close"
      BY <1>2, <3>3 DEF Proc
    <3>5. \A q \in Reader : pc'[q] \notin {"user", "close"} => open'[q]
      BY <1>2 DEF EndInv, Proc
    <3> QED
      BY <3>1, <3>2, <3>4, <3>5 DEF EndInv
  <2>2. CASE p \notin Reader
    BY <1>2, <2>2 DEF EndInv, Proc
  <2> QED
    BY <2>1, <2>2
<1>6. EndInv(Writer, writeopen)'
  <2>1. CASE p \in Writer
    <3>1. writeopen
      BY <2>1 DEF EndInv
    <3>2. l = "close" => \A q \in Writer : ~open'[q]
      BY <1>2, <2>1 DEF Proc
    <3>3. \A q \in Writer : pc[q] # "close"
      BY <2>1 DEF EndInv
    <3>4. \A q \in Writer : pc'[q] = "close" => q = p /\ l = "close"
      BY <1>2, <3>3 DEF Proc
    <3>5. \A q \in Writer : pc'[q] \notin {"user", "close"} => open'[q]
      BY <1>2 DEF EndInv, Proc
    <3> QED
      BY <3>1, <3>2, <3>4, <3>5 DEF EndInv
  <2>2. CASE p \notin Writer
    BY <1>2, <2>2 DEF EndInv, Proc
  <2> QED
    BY <2>1, <2>2
<1>7. SleepInv'
  BY <1>2 DEF SleepInv, Proc, Full, Empty
<1> QED
  BY <1>3, <1>4, <1>5, <1>6, <1>7 DEF Bytes

\* pipeclose() wakes whoever waits for the end it closes, and frees the page when
\* the other end is closed too.
LEMMA PipeCloseStep ==
    ASSUME IInv, NEW p \in Proc, PipeClose(p)
    PROVE  IInv'
<1> USE DEF IInv
<1>0. /\ pc[p] = "close" /\ lock = NoProc
      /\ \A q \in Proc : pc[q] \notin Locked
      /\ freed' = (~readopen' /\ ~writeopen')
      /\ UNCHANGED <<data, nread, nwrite, lock, todo, open, killed>>
  BY DEF PipeClose, BothClosed, LockInv, Proc
<1>1. CASE p \in Writer
  <2>0. writeopen' = FALSE /\ readopen' = readopen /\ pc' = WakeReaders(p, "user") /\ p \notin Reader
    BY <1>1 DEF PipeClose
  <2> USE <1>0, <1>1, <2>0
  <2>1. \A q \in Proc : pc'[q] = IF q = p THEN "user"
                                 ELSE IF pc[q] = "read_asleep" THEN "read_woken" ELSE pc[q]
    BY DEF WakeReaders
  <2>2. TypeOK'
    BY DEF TypeOK, Labels, WakeReaders
  <2>3. LockInv'
    BY <2>1 DEF LockInv, Locked, Proc
  <2>4. EndInv(Reader, readopen)'
    BY <2>1 DEF EndInv, Proc
  <2>5. EndInv(Writer, writeopen)'
    BY <2>1 DEF EndInv, Proc
  <2>6. SleepInv'
    BY <2>1 DEF SleepInv, Locked, Proc, Full, Empty
  <2> QED
    BY <2>2, <2>3, <2>4, <2>5, <2>6 DEF Bytes
<1>2. CASE p \notin Writer
  <2>0. readopen' = FALSE /\ writeopen' = writeopen /\ pc' = WakeWriters(p, "user") /\ p \in Reader
    BY <1>2 DEF PipeClose, Proc
  <2> USE <1>0, <1>2, <2>0
  <2>1. \A q \in Proc : pc'[q] = IF q = p THEN "user"
                                 ELSE IF pc[q] = "write_asleep" THEN "write_woken" ELSE pc[q]
    BY DEF WakeWriters
  <2>2. TypeOK'
    BY DEF TypeOK, Labels, WakeWriters
  <2>3. LockInv'
    BY <2>1 DEF LockInv, Locked, Proc
  <2>4. EndInv(Reader, readopen)'
    BY <2>1 DEF EndInv, Proc
  <2>5. EndInv(Writer, writeopen)'
    BY <2>1 DEF EndInv, Proc
  <2>6. SleepInv'
    BY <2>1 DEF SleepInv, Locked, Proc, Full, Empty
  <2> QED
    BY <2>2, <2>3, <2>4, <2>5, <2>6 DEF Bytes
<1> QED
  BY <1>1, <1>2

\* A kill wakes a sleeper and changes nothing else in the pipe.
LEMMA KillStep ==
    ASSUME IInv, NEW p \in Proc, Kill(p)
    PROVE  IInv'
<1> USE DEF IInv
<1>0. /\ killed' = [killed EXCEPT ![p] = TRUE]
      /\ UNCHANGED <<data, nread, nwrite, readopen, writeopen, freed, lock, todo, open>>
  BY DEF Kill, pipeVars
<1>1. /\ \A q \in Proc : q # p => pc'[q] = pc[q]
      /\ pc[p] = "write_asleep" => pc'[p] = "write_woken"
      /\ pc[p] = "read_asleep" => pc'[p] = "read_woken"
      /\ pc[p] \notin {"write_asleep", "read_asleep"} => pc'[p] = pc[p]
      /\ pc' \in [Proc -> Labels]
  BY DEF Kill, Goto, TypeOK, Labels
<1> USE <1>0, <1>1
<1>2. TypeOK'
  BY DEF TypeOK
<1>3. LockInv'
  BY DEF LockInv, Locked, Proc
<1>4. EndInv(Reader, readopen)' /\ EndInv(Writer, writeopen)'
  BY DEF EndInv, Proc
<1>5. SleepInv'
  <2>1. \A q \in Proc : killed[q] => killed'[q]
    BY DEF TypeOK
  <2> QED
    BY <2>1 DEF SleepInv, Proc, Full, Empty
<1> QED
  BY <1>2, <1>3, <1>4, <1>5 DEF Bytes

\* Every step preserves the invariant.
LEMMA NextInv == IInv /\ [Next]_vars => IInv'
<1> SUFFICES ASSUME IInv, [Next]_vars PROVE IInv'
  OBVIOUS
<1>1. CASE UNCHANGED vars
  BY <1>1 DEF IInv, TypeOK, LockInv, EndInv, SleepInv, Full, Empty, Bytes, vars, pipeVars
<1>2. ASSUME NEW p \in Proc, KernelStep(p)
      PROVE  IInv'
  BY <1>2, PipeWriteStep, PipeReadStep, PipeCopyStep, SleepStep, RelockStep, PipeCloseStep
     DEF KernelStep
<1>3. ASSUME NEW p \in Proc, NEW n \in 0..MAXN, Call(p, n)
      PROVE  IInv'
  BY <1>3, CallStep
<1>4. ASSUME NEW p \in Proc, FileClose(p) \/ Kill(p)
      PROVE  IInv'
  BY <1>4, FileCloseStep, KillStep
<1> QED
  BY <1>1, <1>2, <1>3, <1>4 DEF Next

-----------------------------------------------------------------------------
(* The theorems *)

\* The invariant of the pipe holds in every reachable state.
THEOREM InvariantThm == Spec => []IInv
BY InitInv, NextInv, PTL DEF Spec

\* No wakeup of pipewrite(), piperead() or pipeclose() is lost, with any number of
\* processes on each end.
THEOREM NoLostWakeupThm == Spec => []NoLostWakeup
<1>1. IInv => NoLostWakeup
  <2> SUFFICES ASSUME IInv PROVE NoLostWakeup
    OBVIOUS
  <2>1. /\ \A w \in Writer : pc[w] = "write" => lock \in Writer
        /\ \A r \in Reader : pc[r] = "copy" => lock \in Reader
    BY DEF IInv, LockInv, Locked, Proc
  <2> QED
    BY <2>1 DEF IInv, SleepInv, NoLostWakeup, Proc
<1> QED
  BY <1>1, InvariantThm, PTL

\* pipeclose() frees the page only when no process is in a call on the pipe or can
\* begin one.
THEOREM FreedUnusedThm == Spec => []FreedUnused
<1>1. IInv => FreedUnused
  <2> SUFFICES ASSUME IInv, freed, NEW p \in Proc
               PROVE  pc[p] = "user" /\ ~open[p]
    BY DEF FreedUnused
  <2>1. CASE p \in Reader
    BY <2>1 DEF IInv, EndInv
  <2>2. CASE p \in Writer
    BY <2>2 DEF IInv, EndInv
  <2> QED
    BY <2>1, <2>2 DEF Proc
<1> QED
  BY <1>1, InvariantThm, PTL
=============================================================================
