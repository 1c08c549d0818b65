--------------------------- MODULE PipeRefinement ---------------------------
(***************************************************************************)
(* The pipe implements Fifo, for every PIPESIZE and every width of the     *)
(* counters: storing a byte is Put, taking one is Get, and every other     *)
(* step but pipeclose() leaves the queue and its ends alone.               *)
(***************************************************************************)
EXTENDS PipeProofs, SequenceTheorems

\* Positions of the stream less than a buffer apart are in different slots.
LEMMA DifferentSlot ==
    ASSUME NEW i \in Nat, NEW m \in Nat \ {0}, NEW d \in 1..m - 1
    PROVE  (i + d) % m # i % m
<1> SUFFICES ASSUME (i + d) % m = i % m PROVE FALSE
  OBVIOUS
<1> DEFINE t == i \div m
<1> DEFINE u == (i + d) \div m
<1>1. t \in Int /\ i % m \in 0..m - 1 /\ i = m * t + (i % m)
  BY DivMod
<1>2. i + d \in Int
  OBVIOUS
<1>3. u \in Int /\ i + d = m * u + ((i + d) % m)
  BY <1>2, DivMod
<1>4. m * (u - t) = d
  BY <1>1, <1>3
<1>5. CASE u - t >= 1
  <2>1. m * (u - t) >= m
    BY <1>1, <1>3, <1>5
  <2> QED
    BY <1>4, <2>1
<1>6. CASE u - t <= 0
  <2>1. m * (u - t) <= 0
    BY <1>1, <1>3, <1>6
  <2> QED
    BY <1>4, <2>1
<1> QED
  BY <1>1, <1>3, <1>5, <1>6

\* Adding a multiple does not change the remainder.
LEMMA ModShift ==
    ASSUME NEW a \in Int, NEW m \in Nat \ {0}, NEW k \in Int
    PROVE  (a + m * k) % m = a % m
<1> DEFINE t == a \div m
<1>1. t \in Int /\ a % m \in 0..m - 1 /\ a = m * t + (a % m)
  BY DivMod
<1>2. t + k \in Int /\ a + m * k \in Int /\ a + m * k = m * (t + k) + (a % m)
  BY <1>1
<1> HIDE DEF t
<1> QED
  BY <1>1, <1>2, ModUnique

USE EndsAssumption, SizeAssumption, ZenonT(10), SMTT(30)

\* PIPESIZE divides 2^32, so a counter that has wrapped around is in the slot in
\* which it would be without.
LEMMA SameSlot ==
    ASSUME NEW i \in Int
    PROVE  (i - UINT) % PIPESIZE = i % PIPESIZE
<1> DEFINE k == UINT \div PIPESIZE
<1>1. k \in Int /\ UINT = PIPESIZE * k + (UINT % PIPESIZE)
  BY DivMod
<1>2. UINT = PIPESIZE * k
  BY <1>1
<1> HIDE DEF k
<1>3. i - UINT \in Int /\ (i - UINT) + PIPESIZE * k = i
  BY <1>1, <1>2
<1>4. ((i - UINT) + PIPESIZE * k) % PIPESIZE = (i - UINT) % PIPESIZE
  BY <1>1, <1>3, ModShift
<1> QED
  BY <1>3, <1>4

\* What the queue is.
LEMMA QueueIs ==
    TypeOK =>
        /\ Queue \in Seq(Byte \cup {NoByte})
        /\ Len(Queue) = Bytes
        /\ Bytes \in 0..UINT - 1
        /\ \A k \in 1..Bytes : Queue[k] = data[(nread + k - 1) % PIPESIZE]
<1> SUFFICES ASSUME TypeOK
             PROVE  /\ Queue \in Seq(Byte \cup {NoByte})
                    /\ Len(Queue) = Bytes
                    /\ Bytes \in 0..UINT - 1
                    /\ \A k \in 1..Bytes : Queue[k] = data[(nread + k - 1) % PIPESIZE]
  OBVIOUS
<1>1. Bytes \in 0..UINT - 1
  BY FullEmpty
<1>2. Queue = [k \in 1..Bytes |-> data[(nread + k - 1) % PIPESIZE]]
  BY DEF Queue, Bytes
<1> HIDE DEF Queue, Bytes
<1>3. ASSUME NEW k \in 1..Bytes
      PROVE  data[(nread + k - 1) % PIPESIZE] \in Byte \cup {NoByte}
  <2>1. nread + k - 1 \in Nat
    BY <1>1 DEF TypeOK
  <2>2. (nread + k - 1) % PIPESIZE \in 0..PIPESIZE - 1
    BY <2>1, Slot
  <2> QED
    BY <2>2 DEF TypeOK
<1>4. Queue \in [1..Bytes -> Byte \cup {NoByte}]
  BY <1>2, <1>3
<1>5. Queue \in Seq(Byte \cup {NoByte}) /\ Len(Queue) = Bytes
  BY <1>1, <1>4
<1> QED
  BY <1>1, <1>2, <1>5

\* The same of the state after a step.
LEMMA QueueIsAfter ==
    ASSUME TypeOK'
    PROVE  /\ Queue' \in Seq(Byte \cup {NoByte})
           /\ Len(Queue') = Bytes'
           /\ Bytes' \in 0..UINT - 1
           /\ \A k \in 1..Bytes' : Queue'[k] = data'[(nread' + k - 1) % PIPESIZE]
<1>1. (TypeOK => /\ Queue \in Seq(Byte \cup {NoByte})
                 /\ Len(Queue) = Bytes
                 /\ Bytes \in 0..UINT - 1
                 /\ \A k \in 1..Bytes : Queue[k] = data[(nread + k - 1) % PIPESIZE])'
  BY QueueIs, PTL
<1> QED
  BY <1>1

\* A byte that pipewrite() stores enters at the tail.
LEMMA PutIsAppend ==
    ASSUME TypeOK, TypeOK', Bytes <= PIPESIZE, ~Full, NEW b \in Byte,
           data' = [data EXCEPT ![nwrite % PIPESIZE] = b],
           nwrite' = Increment(nwrite), nread' = nread
    PROVE  Len(Queue) < PIPESIZE /\ Queue' = Append(Queue, b)
<1> DEFINE S == Byte \cup {NoByte}
<1> DEFINE n == Bytes
<1>1. /\ n \in 0..PIPESIZE - 1 /\ Bytes' = n + 1
      /\ nread \in 0..UINT - 1 /\ nwrite \in 0..UINT - 1
      /\ nwrite = nread + n \/ nwrite = nread + n - UINT
  BY FullEmpty, PutBytes DEF TypeOK
<1>2. /\ Queue \in Seq(S) /\ Len(Queue) = n
      /\ \A k \in 1..n : Queue[k] = data[(nread + k - 1) % PIPESIZE]
  BY QueueIs
<1>3. /\ Queue' \in Seq(S) /\ Len(Queue') = n + 1
      /\ \A k \in 1..n + 1 : Queue'[k] = data'[(nread + k - 1) % PIPESIZE]
  BY <1>1, QueueIsAfter
<1>4. /\ Append(Queue, b) \in Seq(S) /\ Len(Append(Queue, b)) = n + 1
      /\ \A k \in 1..n : Append(Queue, b)[k] = Queue[k]
      /\ Append(Queue, b)[n + 1] = b
  BY <1>2, AppendProperties
<1> HIDE DEF n
<1>5. nwrite % PIPESIZE = (nread + n) % PIPESIZE /\ nwrite % PIPESIZE \in 0..PIPESIZE - 1
  <2>1. nread + n \in Int /\ nwrite \in Nat
    BY <1>1
  <2>2. (nread + n - UINT) % PIPESIZE = (nread + n) % PIPESIZE
    <3>1. PICK i \in Int : i = nread + n
      BY <2>1
    <3>2. (i - UINT) % PIPESIZE = i % PIPESIZE
      BY SameSlot
    <3>3. i - UINT = nread + n - UINT
      BY <1>1, <3>1
    <3> QED
      BY <3>1, <3>2, <3>3, Zenon
  <2>3. nwrite % PIPESIZE \in 0..PIPESIZE - 1
    BY <2>1, Slot
  <2>4. CASE nwrite = nread + n
    BY <2>3, <2>4
  <2>5. CASE nwrite = nread + n - UINT
    BY <2>2, <2>3, <2>5
  <2> QED
    BY <1>1, <2>4, <2>5
<1>6. Queue'[n + 1] = b
  <2>1. n + 1 \in 1..n + 1 /\ nread + (n + 1) - 1 = nread + n
    BY <1>1
  <2>2. Queue'[n + 1] = data'[nwrite % PIPESIZE]
    BY <1>3, <1>5, <2>1
  <2> QED
    BY <1>5, <2>2 DEF TypeOK
<1>7. ASSUME NEW k \in 1..n
      PROVE  Queue'[k] = Queue[k]
  <2> DEFINE i == nread + k - 1
  <2>1. i \in Nat /\ n + 1 - k \in 1..PIPESIZE - 1 /\ i + (n + 1 - k) = nread + n /\ k \in 1..n + 1
    BY <1>1
  <2> HIDE DEF i
  <2>2. (nread + n) % PIPESIZE # i % PIPESIZE
    <3>1. PIPESIZE \in Nat \ {0}
      OBVIOUS
    <3> QED
      BY <2>1, <3>1, DifferentSlot
  <2>3. i % PIPESIZE \in 0..PIPESIZE - 1
    BY <2>1, Slot
  <2>4. data'[i % PIPESIZE] = data[i % PIPESIZE]
    BY <1>5, <2>2, <2>3 DEF TypeOK
  <2> QED
    BY <1>2, <1>3, <2>1, <2>4 DEF i
<1>8. \A k \in 1..n + 1 : Queue'[k] = Append(Queue, b)[k]
  <2> TAKE k \in 1..n + 1
  <2>1. CASE k \in 1..n
    BY <1>4, <1>7, <2>1
  <2>2. CASE k = n + 1
    BY <1>4, <1>6, <2>2
  <2> QED
    <3>1. k \in 1..n \/ k = n + 1
      BY <1>1
    <3> QED
      BY <2>1, <2>2, <3>1
<1>9. Queue' = Append(Queue, b)
  <2> HIDE DEF S
  <2>1. Len(Queue') = Len(Append(Queue, b)) /\ \A k \in 1..Len(Queue') : Queue'[k] = Append(Queue, b)[k]
    BY <1>3, <1>4, <1>8
  <2> QED
    BY <1>3, <1>4, <2>1, SeqEqual
<1> QED
  BY <1>1, <1>2, <1>9

\* A byte that piperead() takes leaves at the head.
LEMMA GetIsTail ==
    ASSUME TypeOK, TypeOK', Bytes <= PIPESIZE, ~Empty,
           data' = [data EXCEPT ![nread % PIPESIZE] = NoByte],
           nread' = Increment(nread), nwrite' = nwrite
    PROVE  Queue # <<>> /\ Queue' = Tail(Queue)
<1> DEFINE S == Byte \cup {NoByte}
<1> DEFINE n == Bytes
<1>1. n \in 1..PIPESIZE /\ Bytes' = n - 1 /\ nread \in 0..UINT - 1
  BY FullEmpty, GetBytes DEF TypeOK
<1>2. /\ Queue \in Seq(S) /\ Len(Queue) = n
      /\ \A k \in 1..n : Queue[k] = data[(nread + k - 1) % PIPESIZE]
  BY QueueIs
<1>3. /\ Queue' \in Seq(S) /\ Len(Queue') = n - 1
      /\ \A k \in 1..n - 1 : Queue'[k] = data'[(nread' + k - 1) % PIPESIZE]
  BY <1>1, QueueIsAfter
<1> HIDE DEF n
<1>4. Queue # <<>>
  BY <1>1, <1>2
<1>5. /\ Tail(Queue) \in Seq(S) /\ Len(Tail(Queue)) = n - 1
      /\ \A k \in 1..n - 1 : Tail(Queue)[k] = Queue[k + 1]
  BY <1>2, <1>4, HeadTailProperties
<1>6. ASSUME NEW k \in 1..n - 1
      PROVE  Queue'[k] = Queue[k + 1]
  <2>1. /\ nread + k \in Nat /\ nread + k \in Int /\ k + 1 \in 1..n /\ k \in 1..PIPESIZE - 1
        /\ nread + (k + 1) - 1 = nread + k /\ nread \in Nat
    BY <1>1
  <2>2. (nread' + k - 1) % PIPESIZE = (nread + k) % PIPESIZE
    <3>1. CASE nread = UINT - 1
      <4>1. nread' + k - 1 = nread + k - UINT
        BY <1>1, <3>1, IncrementIs
      <4>2. PICK i \in Int : i = nread + k
        BY <2>1
      <4>3. (i - UINT) % PIPESIZE = i % PIPESIZE
        BY SameSlot
      <4>4. i - UINT = nread' + k - 1
        BY <1>1, <4>1, <4>2
      <4> QED
        BY <4>2, <4>3, <4>4, Zenon
    <3>2. CASE nread # UINT - 1
      <4>1. nread' + k - 1 = nread + k
        BY <1>1, <3>2, IncrementIs
      <4> QED
        BY <4>1
    <3> QED
      BY <3>1, <3>2
  <2>3. (nread + k) % PIPESIZE # nread % PIPESIZE
    <3>1. PIPESIZE \in Nat \ {0}
      OBVIOUS
    <3> QED
      BY <2>1, <3>1, DifferentSlot
  <2>4. (nread + k) % PIPESIZE \in 0..PIPESIZE - 1
    BY <2>1, Slot
  <2>5. data'[(nread + k) % PIPESIZE] = data[(nread + k) % PIPESIZE]
    BY <2>3, <2>4 DEF TypeOK
  <2> QED
    BY <1>2, <1>3, <2>1, <2>2, <2>5
<1>7. Queue' = Tail(Queue)
  <2> HIDE DEF S
  <2>1. Len(Queue') = Len(Tail(Queue)) /\ \A k \in 1..Len(Queue') : Queue'[k] = Tail(Queue)[k]
    BY <1>3, <1>5, <1>6
  <2> QED
    BY <1>3, <1>5, <2>1, SeqEqual
<1> QED
  BY <1>4, <1>7

-----------------------------------------------------------------------------
\* A new pipe is an empty queue with both ends open.
LEMMA InitRefines == Init => FF!Init
<1> SUFFICES ASSUME Init PROVE FF!Init
  OBVIOUS
<1>1. TypeOK /\ Bytes = 0
  BY InitInv, FullEmpty DEF IInv, Init, Empty
<1>2. Queue = <<>>
  BY <1>1, QueueIs
<1> QED
  BY <1>2 DEF Init, FF!Init

\* Steps that touch neither the buffer nor the ends.
LEMMA SameQueue ==
    ASSUME UNCHANGED <<data, nread, nwrite, readopen, writeopen>>
    PROVE  UNCHANGED FF!vars
BY DEF FF!vars, Queue

\* A step of pipewrite() stores one byte or none.
LEMMA PipeWriteRefines ==
    ASSUME IInv, IInv', NEW p \in Proc, PipeWrite(p)
    PROVE  [FF!Next]_(FF!vars)
<1>0. p \in Writer /\ writeopen /\ UNCHANGED <<nread, readopen, writeopen>>
  BY DEF PipeWrite, IInv, LockInv, EndInv, Proc
<1>1. CASE UNCHANGED <<data, nwrite>>
  BY <1>0, <1>1, SameQueue
<1>2. ASSUME NEW b \in Byte, readopen, ~Full,
             data' = [data EXCEPT ![nwrite % PIPESIZE] = b], nwrite' = Increment(nwrite)
      PROVE  FF!Next
  <2>1. Len(Queue) < PIPESIZE /\ Queue' = Append(Queue, b)
    BY <1>0, <1>2, PutIsAppend DEF IInv
  <2>2. FF!Put(b)
    BY <1>0, <1>2, <2>1 DEF FF!Put
  <2> QED
    BY <2>2 DEF FF!Next
<1> QED
  BY <1>1, <1>2 DEF PipeWrite

\* A step of the copy loop of piperead() takes one byte or none.
LEMMA PipeCopyRefines ==
    ASSUME IInv, IInv', NEW p \in Proc, PipeCopy(p)
    PROVE  [FF!Next]_(FF!vars)
<1>0. p \in Reader /\ readopen /\ UNCHANGED <<nwrite, readopen, writeopen>>
  BY DEF PipeCopy, IInv, LockInv, EndInv, Proc
<1>1. CASE UNCHANGED <<data, nread>>
  BY <1>0, <1>1, SameQueue
<1>2. CASE ~(todo[p] = 0 \/ Empty)
  <2>0. nread' = Increment(nread) /\ data' = [data EXCEPT ![nread % PIPESIZE] = NoByte]
    BY <1>2 DEF PipeCopy
  <2>1. Queue # <<>> /\ Queue' = Tail(Queue)
    BY <1>0, <1>2, <2>0, GetIsTail DEF IInv
  <2>2. FF!Get
    BY <1>0, <2>1 DEF FF!Get
  <2> QED
    BY <2>2 DEF FF!Next
<1> QED
  BY <1>1, <1>2 DEF PipeCopy

\* pipeclose() closes an end that is open.
LEMMA PipeCloseRefines ==
    ASSUME IInv, NEW p \in Proc, PipeClose(p)
    PROVE  FF!Next
<1>0. pc[p] = "close" /\ Queue' = Queue
  BY DEF PipeClose, Queue
<1>1. CASE p \in Writer
  <2>1. writeopen /\ writeopen' = FALSE /\ readopen' = readopen
    BY <1>0, <1>1 DEF PipeClose, IInv, EndInv
  <2>2. FF!CloseWrite
    BY <1>0, <2>1 DEF FF!CloseWrite
  <2> QED
    BY <2>2 DEF FF!Next
<1>2. CASE p \notin Writer
  <2>1. readopen /\ readopen' = FALSE /\ writeopen' = writeopen
    BY <1>0, <1>2 DEF PipeClose, IInv, EndInv, Proc
  <2>2. FF!CloseRead
    BY <1>0, <2>1 DEF FF!CloseRead
  <2> QED
    BY <2>2 DEF FF!Next
<1> QED
  BY <1>1, <1>2

\* Every step is a step of the queue or leaves it alone.
LEMMA NextRefines == IInv /\ IInv' /\ [Next]_vars => [FF!Next]_(FF!vars)
<1> SUFFICES ASSUME IInv, IInv', [Next]_vars PROVE [FF!Next]_(FF!vars)
  OBVIOUS
<1>1. CASE UNCHANGED vars
  BY <1>1, SameQueue DEF vars, pipeVars
<1>2. ASSUME NEW p \in Proc, NEW n \in 0..MAXN, Call(p, n)
      PROVE  UNCHANGED FF!vars
  BY <1>2, SameQueue DEF Call, pipeVars
<1>3. ASSUME NEW p \in Proc,
             PipeRead(p) \/ Sleep(p) \/ Relock(p) \/ FileClose(p) \/ Kill(p)
      PROVE  UNCHANGED FF!vars
  BY <1>3, SameQueue DEF PipeRead, Sleep, Relock, FileClose, Kill, pipeVars
<1>4. ASSUME NEW p \in Proc, KernelStep(p)
      PROVE  [FF!Next]_(FF!vars)
  BY <1>3, <1>4, PipeWriteRefines, PipeCopyRefines, PipeCloseRefines DEF KernelStep
<1> QED
  BY <1>1, <1>2, <1>3, <1>4 DEF Next

\* The pipe is a bounded first-in first-out queue, whatever the size of its buffer and
\* the width of its counters, as long as the one divides the range of the other.
THEOREM PipeIsFifoThm == Spec => PipeIsFifo
<1>1. Init => FF!Init
  BY InitRefines
<1>2. IInv /\ IInv' /\ [Next]_vars => [FF!Next]_(FF!vars)
  BY NextRefines
<1>3. Spec => []IInv
  BY InvariantThm
<1> QED
  BY <1>1, <1>2, <1>3, PTL DEF Spec, FF!Spec, PipeIsFifo
=============================================================================
