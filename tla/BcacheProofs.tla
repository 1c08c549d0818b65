---------------------------- MODULE BcacheProofs ----------------------------
(***************************************************************************)
(* Proofs about the buffer cache, for every set of processes, buffers and  *)
(* blocks: the invariant of BcacheInv is inductive, and what follows.      *)
(***************************************************************************)
EXTENDS BcacheInv, FiniteSetTheorems, TLAPS

USE NothingAssumption, BufAssumption, ZenonT(10), SMTT(30)

\* A set of positions has a last one.
LEMMA LastOf ==
    ASSUME NEW n \in Nat, NEW S \in SUBSET (1..n), S # {}
    PROVE  \E i \in S : \A j \in S : j <= i
<1> DEFINE T == {n - i : i \in S}
<1> DEFINE R == OpToRel(<, Nat)
<1>0. \A i \in S : i \in Int /\ n - i \in Nat
  OBVIOUS
<1>1. T \subseteq Nat /\ T # {}
  <2>1. \A t \in T : t \in Nat
    BY <1>0
  <2> QED
    BY <2>1
<1>2. PICK x \in T : \A y \in T : ~(<<y, x>> \in R)
  <2> HIDE DEF T, R
  <2>1. IsWellFoundedOn(R, Nat)
    BY NatLessThanWellFounded DEF R
  <2> QED
    BY <1>1, <2>1, WFMin
<1>3. \A y \in T : ~(y < x)
  BY <1>1, <1>2 DEF OpToRel
<1>4. PICK i \in S : x = n - i
  OBVIOUS
<1>5. \A j \in S : j <= i
  <2> TAKE j \in S
  <2>1. n - j \in T /\ i \in Int /\ j \in Int
    BY <1>0
  <2>2. ~(n - j < n - i)
    BY <1>3, <1>4, <2>1
  <2> HIDE DEF T
  <2> QED
    BY <2>1, <2>2
<1> QED
  BY <1>5

\* The buffer that bget() recycles is one without references.
LEMMA LeastRecentIsFree ==
    ASSUME TypeOK, Free # {}
    PROVE  LeastRecent \in Free
<1> DEFINE S == {i \in DOMAIN lru : lru[i] \in Free}
<1>1. S \in SUBSET (1..Len(lru)) /\ Len(lru) \in Nat
  BY DEF TypeOK
<1>2. S # {}
  <2>1. PICK b \in Free : TRUE
    OBVIOUS
  <2>2. b \in Range(lru)
    BY <2>1 DEF TypeOK, Free
  <2> QED
    BY <2>1, <2>2 DEF Range
<1>3. \E i \in S : \A j \in S : j <= i
  BY <1>1, <1>2, LastOf
<1>4. \E i \in DOMAIN lru : lru[i] \in Free /\ \A j \in DOMAIN lru : lru[j] \in Free => j <= i
  BY <1>3
<1> QED
  BY <1>4 DEF LeastRecent

\* brelse() reorders the list and loses no buffer from it.
LEMMA MoveToFrontIsList ==
    ASSUME TypeOK, NEW b \in Buf
    PROVE  /\ MoveToFront(b) \in Seq(Buf)
           /\ IsInjective(MoveToFront(b))
           /\ Range(MoveToFront(b)) = Buf
<1> DEFINE k == CHOOSE i \in DOMAIN lru : lru[i] = b
<1> DEFINE s == [i \in DOMAIN lru |-> IF i = 1 THEN b ELSE IF i <= k THEN lru[i - 1] ELSE lru[i]]
<1>1. /\ lru \in [1..Len(lru) -> Buf] /\ DOMAIN lru = 1..Len(lru) /\ Len(lru) \in Nat
      /\ \A i, j \in 1..Len(lru) : lru[i] = lru[j] => i = j
      /\ \A c \in Buf : \E i \in 1..Len(lru) : lru[i] = c
  BY DEF TypeOK, IsInjective, Range
<1>2. k \in 1..Len(lru) /\ lru[k] = b
  BY <1>1
<1> HIDE DEF k
<1>3. s \in [1..Len(lru) -> Buf]
  BY <1>1, <1>2
<1>4. ASSUME NEW i \in 1..Len(lru), NEW j \in 1..Len(lru), s[i] = s[j]
      PROVE  i = j
  BY <1>1, <1>2, <1>4
<1>5. ASSUME NEW c \in Buf
      PROVE  \E i \in 1..Len(lru) : s[i] = c
  <2>1. PICK i \in 1..Len(lru) : lru[i] = c
    BY <1>1
  <2>2. CASE i = k
    BY <1>1, <1>2, <2>1, <2>2
  <2>3. CASE i < k
    <3>1. i + 1 \in 1..Len(lru) /\ i + 1 <= k /\ i + 1 # 1 /\ (i + 1) - 1 = i
      BY <1>1, <1>2, <2>3
    <3>2. s[i + 1] = c
      BY <1>1, <2>1, <3>1
    <3> QED
      BY <3>1, <3>2
  <2>4. CASE i > k
    <3>1. i # 1 /\ ~(i <= k)
      BY <1>1, <1>2, <2>4
    <3> QED
      BY <1>1, <2>1, <3>1
  <2> QED
    BY <1>1, <1>2, <2>2, <2>3, <2>4
<1>6. MoveToFront(b) = s
  BY DEF MoveToFront, k
<1> HIDE DEF s
<1>7. s \in Seq(Buf) /\ DOMAIN s = 1..Len(lru)
  BY <1>1, <1>3
<1> QED
  BY <1>3, <1>4, <1>5, <1>6, <1>7 DEF IsInjective, Range

\* The processes that refer to a buffer are finitely many.
LEMMA UsersFinite ==
    ASSUME NEW b
    PROVE  IsFiniteSet(Users(b)) /\ Cardinality(Users(b)) \in Nat
<1>1. Users(b) \in SUBSET Proc
  BY DEF Users
<1> QED
  BY <1>1, FS_Subset, FS_CardinalityType

\* A reference count of 0 means that nobody refers to the buffer.
LEMMA FreeIsUnused ==
    ASSUME IInv, NEW b \in Free
    PROVE  b \in Buf /\ b \notin pinned /\ (\A p \in Proc : mine[p] # b) /\ ~locked[b]
<1>1. b \in Buf /\ refcnt[b] = 0
  BY DEF Free
<1>2. 0 = Cardinality(Users(b)) + (IF b \in pinned THEN 1 ELSE 0)
  BY <1>1 DEF IInv, RefcntExact
<1>3. b \notin pinned /\ Cardinality(Users(b)) = 0
  BY <1>2, UsersFinite
<1>4. Users(b) = {}
  BY <1>3, UsersFinite, FS_EmptySet
<1>5. \A p \in Proc : mine[p] # b
  BY <1>4 DEF Users
<1> QED
  BY <1>1, <1>3, <1>5 DEF IInv, LockInv, InLock

\* The users of each buffer after process p has taken a reference to b.
LEMMA UsersAdd ==
    ASSUME TypeOK, NEW p \in Proc, NEW b \in Buf, mine[p] = NoBuf,
           mine' = [mine EXCEPT ![p] = b]
    PROVE  \A c \in Buf : Cardinality(Users(c)') = Cardinality(Users(c)) + (IF c = b THEN 1 ELSE 0)
<1> TAKE c \in Buf
<1>1. CASE c = b
  <2>1. Users(c)' = Users(c) \cup {p} /\ p \notin Users(c)
    BY <1>1 DEF Users, TypeOK
  <2> QED
    BY <1>1, <2>1, UsersFinite, FS_AddElement
<1>2. CASE c # b
  <2>1. Users(c)' = Users(c)
    BY <1>2 DEF Users, TypeOK
  <2> QED
    BY <1>2, <2>1, UsersFinite
<1> QED
  BY <1>1, <1>2

\* The users of each buffer after process p has dropped its reference to b.
LEMMA UsersRemove ==
    ASSUME TypeOK, NEW p \in Proc, NEW b \in Buf, mine[p] = b,
           mine' = [mine EXCEPT ![p] = NoBuf]
    PROVE  \A c \in Buf : Cardinality(Users(c)') = Cardinality(Users(c)) - (IF c = b THEN 1 ELSE 0)
<1> TAKE c \in Buf
<1>1. CASE c = b
  <2>1. Users(c)' = Users(c) \ {p} /\ p \in Users(c)
    BY <1>1 DEF Users, TypeOK
  <2>2. IsFiniteSet(Users(c)) /\ Cardinality(Users(c)) \in Nat
    BY UsersFinite
  <2>3. Cardinality(Users(c) \ {p}) = Cardinality(Users(c)) - 1
    BY <2>1, <2>2, FS_RemoveElement
  <2> QED
    BY <1>1, <2>1, <2>3
<1>2. CASE c # b
  <2>1. Users(c)' = Users(c)
    BY <1>2 DEF Users, TypeOK
  <2> QED
    BY <1>2, <2>1, UsersFinite
<1> QED
  BY <1>1, <1>2

\* Steps that touch neither references nor pins keep the counts exact.
LEMMA SameRefs ==
    ASSUME RefcntExact, UNCHANGED <<refcnt, mine, pinned>>
    PROVE  RefcntExact'
BY DEF RefcntExact, Users

-----------------------------------------------------------------------------
(* The initial states *)

LEMMA InitInv == Init => IInv
<1> SUFFICES ASSUME Init PROVE IInv
  OBVIOUS
<1> USE DEF Init
<1>1. TypeOK
  <2> DEFINE n == Cardinality(Buf)
  <2>1. n \in Nat /\ IsFiniteSet(1..n) /\ Cardinality(1..n) = n
    BY FS_CardinalityType, FS_Interval
  <2>2. lru \in Injection(1..n, Buf)
    BY DEF Injection
  <2>3. lru \in Surjection(1..n, Buf)
    BY <2>1, <2>2, FS_Injection
  <2>4. Range(lru) = Buf
    BY <2>3 DEF Range, Surjection
  <2>5. lru \in Seq(Buf)
    BY <2>1
  <2> QED
    BY <2>4, <2>5 DEF TypeOK
<1>2. RefcntExact
  <2> SUFFICES ASSUME NEW b \in Buf
               PROVE  refcnt[b] = Cardinality(Users(b)) + (IF b \in pinned THEN 1 ELSE 0)
    BY DEF RefcntExact
  <2>1. Users(b) = {}
    BY DEF Users
  <2> QED
    BY <2>1, FS_EmptySet
<1>3. OneBufferPerBlock /\ MineInv
  BY DEF OneBufferPerBlock, MineInv
<1>4. LockInv
  BY DEF LockInv, InLock
<1>5. DataInv
  BY DEF DataInv, Has
<1> QED
  BY <1>1, <1>2, <1>3, <1>4, <1>5 DEF IInv

-----------------------------------------------------------------------------
(* The steps *)

\* bget() preserves the invariant: it refers to the buffer that has the block, or
\* to one that nobody uses and that agrees with the disk.
LEMMA BgetStep ==
    ASSUME IInv, NEW p \in Proc, NEW n \in Block, Bget(p, n)
    PROVE  IInv'
<1> USE DEF IInv, lockVars
<1>0. mine[p] = NoBuf /\ pc[p] = "idle" /\ UNCHANGED <<disk, data, lru, locked, lockpid, pinned>>
  BY DEF Bget, MineInv
<1>1. ASSUME NEW b \in Cached(n),
             mine' = [mine EXCEPT ![p] = b], refcnt' = [refcnt EXCEPT ![b] = @ + 1],
             Goto(p, "lock"), UNCHANGED <<blockno, valid>>
      PROVE  IInv'
  <2> USE <1>0, <1>1 DEF Goto
  <2>0. b \in Buf /\ blockno[b] = n /\ want' = [want EXCEPT ![p] = n]
    BY DEF Cached, Bget
  <2>1. TypeOK'
    BY <2>0 DEF TypeOK
  <2>2. RefcntExact'
    <3>1. \A c \in Buf : Cardinality(Users(c)') = Cardinality(Users(c)) + (IF c = b THEN 1 ELSE 0)
      BY <2>0, UsersAdd
    <3>2. \A c \in Buf : refcnt'[c] = refcnt[c] + (IF c = b THEN 1 ELSE 0)
      BY <2>0 DEF TypeOK
    <3>3. \A c \in Buf : Cardinality(Users(c)) \in Nat
      BY UsersFinite
    <3> QED
      BY <3>1, <3>2, <3>3 DEF RefcntExact
  <2>3. OneBufferPerBlock'
    BY DEF OneBufferPerBlock
  <2>4. MineInv'
    BY <2>0 DEF MineInv, TypeOK
  <2>5. LockInv'
    BY <2>0 DEF LockInv, InLock, TypeOK, MineInv
  <2>6. DataInv'
    BY <2>0 DEF DataInv, Has, TypeOK, MineInv
  <2> QED
    BY <2>1, <2>2, <2>3, <2>4, <2>5, <2>6
<1>2. ASSUME NEW b \in Free, Cached(n) = {},
             mine' = [mine EXCEPT ![p] = b], blockno' = [blockno EXCEPT ![b] = n],
             valid' = Invalidate(b), refcnt' = [refcnt EXCEPT ![b] = 1], Goto(p, "lock")
      PROVE  IInv'
  <2> USE <1>0, <1>2 DEF Goto, Invalidate
  <2>0. /\ b \in Buf /\ refcnt[b] = 0 /\ b \notin pinned /\ ~locked[b]
        /\ \A q \in Proc : mine[q] # b
        /\ want' = [want EXCEPT ![p] = n]
        /\ \A c \in Buf : blockno[c] # n
    BY FreeIsUnused DEF Free, Bget, Cached
  <2>1. TypeOK'
    BY <2>0 DEF TypeOK
  <2>2. RefcntExact'
    <3>1. \A c \in Buf : Cardinality(Users(c)') = Cardinality(Users(c)) + (IF c = b THEN 1 ELSE 0)
      BY <2>0, UsersAdd
    <3>2. \A c \in Buf : refcnt'[c] = refcnt[c] + (IF c = b THEN 1 ELSE 0)
      BY <2>0 DEF TypeOK
    <3>3. \A c \in Buf : Cardinality(Users(c)) \in Nat
      BY UsersFinite
    <3> QED
      BY <3>1, <3>2, <3>3 DEF RefcntExact
  <2>3. OneBufferPerBlock'
    BY <2>0 DEF OneBufferPerBlock, TypeOK
  <2>4. MineInv'
    BY <2>0 DEF MineInv, TypeOK
  <2>5. LockInv'
    BY <2>0 DEF LockInv, InLock, TypeOK, MineInv
  <2>6. DataInv'
    BY <2>0 DEF DataInv, Has, TypeOK, MineInv
  <2> QED
    BY <2>1, <2>2, <2>3, <2>4, <2>5, <2>6
<1>3. ASSUME Goto(p, "panic"), UNCHANGED <<mine, blockno, valid, refcnt>>
      PROVE  IInv'
  <2> USE <1>0, <1>3 DEF Goto
  <2>0. want' = [want EXCEPT ![p] = n]
    BY DEF Bget
  <2>1. TypeOK'
    BY <2>0 DEF TypeOK
  <2>2. RefcntExact' /\ OneBufferPerBlock'
    BY SameRefs DEF OneBufferPerBlock
  <2>3. MineInv'
    BY <2>0 DEF MineInv, TypeOK
  <2>4. LockInv'
    BY DEF LockInv, InLock, TypeOK
  <2>5. DataInv'
    BY <2>0 DEF DataInv, Has, TypeOK, MineInv
  <2> QED
    BY <2>1, <2>2, <2>3, <2>4, <2>5
<1>4. CASE Cached(n) # {}
  BY <1>1, <1>4 DEF Bget
<1>5. CASE Cached(n) = {} /\ Free # {}
  BY <1>2, <1>5, LeastRecentIsFree DEF Bget
<1>6. CASE Cached(n) = {} /\ Free = {}
  BY <1>3, <1>6 DEF Bget
<1> QED
  BY <1>4, <1>5, <1>6

\* acquiresleep() preserves the invariant: it gets a free lock or sleeps on a held one.
LEMMA AcquireSleepStep ==
    ASSUME IInv, NEW p \in Proc, AcquireSleep(p)
    PROVE  IInv'
<1> DEFINE b == mine[p]
<1> USE DEF IInv
<1>0. b \in Buf /\ pc[p] = "lock" /\ locked[b] \in BOOLEAN
  BY DEF AcquireSleep, MineInv, TypeOK
<1>00. UNCHANGED <<disk, blockno, valid, data, refcnt, lru, pinned, mine, want>>
  BY DEF AcquireSleep, bufVars
<1>1. CASE locked[b]
  <2>0. pc' = [pc EXCEPT ![p] = "sleep"] /\ UNCHANGED <<locked, lockpid>>
    BY <1>1 DEF AcquireSleep, Goto, lockVars
  <2> USE <1>00, <2>0
  <2>1. TypeOK'
    BY DEF TypeOK
  <2>2. RefcntExact' /\ OneBufferPerBlock'
    BY SameRefs DEF OneBufferPerBlock
  <2>3. MineInv' /\ DataInv'
    BY <1>0 DEF MineInv, DataInv, Has, TypeOK
  <2>4. LockInv'
    BY <1>0, <1>1 DEF LockInv, InLock, TypeOK
  <2> QED
    BY <2>1, <2>2, <2>3, <2>4
<1>2. CASE ~locked[b]
  <2>0. /\ pc' = [pc EXCEPT ![p] = "got"]
        /\ locked' = [locked EXCEPT ![b] = TRUE] /\ lockpid' = [lockpid EXCEPT ![b] = p]
    BY <1>2 DEF AcquireSleep, Goto
  <2> USE <1>00, <2>0
  <2>1. TypeOK'
    BY <1>0 DEF TypeOK
  <2>2. RefcntExact' /\ OneBufferPerBlock'
    BY SameRefs DEF OneBufferPerBlock
  <2>3. MineInv' /\ DataInv'
    BY <1>0 DEF MineInv, DataInv, Has, TypeOK
  <2>4. LockInv'
    <3>1. \A q \in InLock : mine[q] # b
      BY <1>2 DEF LockInv
    <3>2. InLock' = InLock \cup {p}
      BY <1>0 DEF InLock, TypeOK
    <3>3. \A c \in Buf : c # b => locked'[c] = locked[c] /\ lockpid'[c] = lockpid[c]
      BY DEF TypeOK
    <3>4. locked'[b] /\ lockpid'[b] = p
      BY <1>0 DEF TypeOK
    <3>5. \A q \in InLock' : locked'[mine[q]] /\ lockpid'[mine[q]] = q
      BY <3>1, <3>2, <3>3, <3>4 DEF LockInv, InLock, MineInv, TypeOK
    <3>6. \A c \in Buf : locked'[c] => lockpid'[c] \in InLock' /\ mine[lockpid'[c]] = c
      BY <3>2, <3>3, <3>4 DEF LockInv
    <3>7. \A q \in Proc : pc'[q] = "sleep" => locked'[mine[q]]
      BY <1>0, <3>3, <3>4 DEF LockInv, MineInv, TypeOK
    <3> QED
      BY <3>5, <3>6, <3>7 DEF LockInv
  <2> QED
    BY <2>1, <2>2, <2>3, <2>4
<1> QED
  BY <1>0, <1>1, <1>2

\* A process woken by kill() looks at the lock again.
LEMMA KillWakeStep ==
    ASSUME IInv, NEW p \in Proc, KillWake(p)
    PROVE  IInv'
<1> USE DEF IInv, KillWake, Goto, bufVars, lockVars
<1>1. TypeOK'
  BY DEF TypeOK
<1>2. RefcntExact' /\ OneBufferPerBlock'
  BY SameRefs DEF OneBufferPerBlock
<1>3. MineInv'
  BY DEF MineInv, TypeOK
<1>4. LockInv'
  BY DEF LockInv, InLock, TypeOK
<1>5. DataInv'
  BY DEF DataInv, Has, TypeOK
<1> QED
  BY <1>1, <1>2, <1>3, <1>4, <1>5

\* Two processes inside the lock of one buffer are the same process.
LEMMA OneHolder ==
    ASSUME IInv, NEW p \in InLock, NEW q \in InLock, mine[p] = mine[q]
    PROVE  p = q
BY DEF IInv, LockInv

\* A process inside the lock has a buffer, of the block it asked for, and holds it.
LEMMA HolderFacts ==
    ASSUME IInv, NEW p \in InLock
    PROVE  /\ p \in Proc /\ mine[p] \in Buf /\ want[p] \in Block
           /\ blockno[mine[p]] = want[p] /\ HoldingSleep(p)
BY DEF IInv, InLock, MineInv, LockInv, TypeOK, HoldingSleep

\* bread() preserves the invariant: it reads into a buffer that only it can see.
LEMMA BreadStep ==
    ASSUME IInv, NEW p \in Proc, Bread(p)
    PROVE  IInv'
<1> DEFINE b == mine[p]
<1> USE DEF IInv, Bread, Goto, lockVars
<1>0. p \in InLock /\ b \in Buf /\ want[p] \in Block /\ blockno[b] = want[p]
  BY HolderFacts DEF InLock
<1>1. TypeOK'
  BY <1>0 DEF TypeOK
<1>2. RefcntExact' /\ OneBufferPerBlock'
  BY SameRefs DEF OneBufferPerBlock
<1>3. MineInv'
  BY DEF MineInv, TypeOK
<1>4. LockInv'
  BY DEF LockInv, InLock, TypeOK
<1>5. DataInv'
  <2>1. \A q \in Proc : q # p /\ Has(q) => mine[q] # b
    BY <1>0, OneHolder DEF Has, InLock
  <2>2. \A c \in Buf : c # b => valid'[c] = valid[c] /\ data'[c] = data[c]
    BY <1>0 DEF TypeOK
  <2>3. valid'[b] /\ (valid[b] => data'[b] = data[b]) /\ (~valid[b] => data'[b] = disk[blockno[b]])
    BY <1>0 DEF TypeOK
  <2>4. \A q \in Proc : pc'[q] = IF q = p THEN "held" ELSE pc[q]
    BY DEF TypeOK
  <2> QED
    BY <1>0, <2>1, <2>2, <2>3, <2>4 DEF DataInv, Has, TypeOK, MineInv
<1> QED
  BY <1>1, <1>2, <1>3, <1>4, <1>5

\* Changing b->data preserves the invariant: the buffer is its holder's.
LEMMA ModifyStep ==
    ASSUME IInv, NEW p \in Proc, NEW d \in Data, Modify(p, d)
    PROVE  IInv'
<1> DEFINE b == mine[p]
<1> USE DEF IInv, Modify, Goto, lockVars
<1>0. p \in InLock /\ b \in Buf /\ want[p] \in Block /\ blockno[b] = want[p]
  BY HolderFacts DEF InLock
<1>1. TypeOK'
  BY <1>0 DEF TypeOK
<1>2. RefcntExact' /\ OneBufferPerBlock'
  BY SameRefs DEF OneBufferPerBlock
<1>3. MineInv'
  BY DEF MineInv, TypeOK
<1>4. LockInv'
  BY DEF LockInv, InLock, TypeOK
<1>5. DataInv'
  <2>1. \A q \in Proc : q # p /\ Has(q) => mine[q] # b
    BY <1>0, OneHolder DEF Has, InLock
  <2>2. \A c \in Buf : c # b => data'[c] = data[c]
    BY <1>0 DEF TypeOK
  <2>3. \A q \in Proc : pc'[q] = IF q = p THEN "dirty" ELSE pc[q]
    BY DEF TypeOK
  <2> QED
    BY <1>0, <2>1, <2>2, <2>3 DEF DataInv, Has, TypeOK, MineInv
<1> QED
  BY <1>1, <1>2, <1>3, <1>4, <1>5

\* bwrite() preserves the invariant: the block is nobody else's.
LEMMA BwriteStep ==
    ASSUME IInv, NEW p \in Proc, Bwrite(p)
    PROVE  IInv'
<1> DEFINE b == mine[p]
<1> USE DEF IInv, Goto, bufVars, lockVars
<1>0. p \in InLock /\ b \in Buf /\ want[p] \in Block /\ blockno[b] = want[p] /\ HoldingSleep(p)
  BY HolderFacts DEF InLock, Bwrite
<1>00. /\ disk' = [disk EXCEPT ![want[p]] = data[b]] /\ pc' = [pc EXCEPT ![p] = "written"]
       /\ pc[p] \in {"held", "dirty"}
       /\ UNCHANGED <<blockno, valid, data, refcnt, lru, locked, lockpid, pinned, mine, want>>
  BY <1>0 DEF Bwrite
<1> USE <1>00
<1>1. TypeOK'
  BY <1>0 DEF TypeOK
<1>2. RefcntExact' /\ OneBufferPerBlock'
  BY SameRefs DEF OneBufferPerBlock
<1>3. MineInv'
  BY DEF MineInv, TypeOK
<1>4. LockInv'
  BY DEF LockInv, InLock, TypeOK
<1>5. DataInv'
  <2>1. \A q \in Proc : q # p /\ Has(q) => mine[q] # b /\ want[q] # want[p]
    BY <1>0, OneHolder DEF Has, InLock, MineInv, OneBufferPerBlock, TypeOK
  <2>2. \A n \in Block : disk'[n] = IF n = want[p] THEN data[b] ELSE disk[n]
    BY <1>0 DEF TypeOK
  <2>3. \A q \in Proc : pc'[q] = IF q = p THEN "written" ELSE pc[q]
    BY DEF TypeOK
  <2>4. \A c \in Buf : c # b => blockno[c] # want[p]
    BY <1>0 DEF OneBufferPerBlock, TypeOK
  <2> QED
    BY <1>0, <2>1, <2>2, <2>3, <2>4 DEF DataInv, Has, TypeOK, MineInv
<1> QED
  BY <1>1, <1>2, <1>3, <1>4, <1>5

\* The pin of log_write() preserves the invariant.
LEMMA BpinStep ==
    ASSUME IInv, NEW p \in Proc, Bpin(p)
    PROVE  IInv'
<1> DEFINE b == mine[p]
<1> USE DEF IInv, Bpin, Goto, PinRef, bufVars, lockVars
<1>0. p \in InLock /\ b \in Buf /\ want[p] \in Block /\ blockno[b] = want[p]
  BY HolderFacts DEF InLock
<1>1. TypeOK'
  BY <1>0 DEF TypeOK
<1>2. RefcntExact'
  <2>1. \A c \in Buf : refcnt'[c] = refcnt[c] + (IF c = b /\ b \notin pinned THEN 1 ELSE 0)
    BY <1>0 DEF TypeOK
  <2>2. \A c \in Buf : Users(c)' = Users(c) /\ Cardinality(Users(c)) \in Nat
    BY UsersFinite DEF Users
  <2> QED
    BY <1>0, <2>1, <2>2 DEF RefcntExact
<1>3. OneBufferPerBlock' /\ MineInv'
  BY DEF OneBufferPerBlock, MineInv, TypeOK
<1>4. LockInv'
  BY DEF LockInv, InLock, TypeOK
<1>5. DataInv'
  <2>1. \A q \in Proc : pc'[q] = IF q = p THEN "held" ELSE pc[q]
    BY DEF TypeOK
  <2> QED
    BY <1>0, <2>1 DEF DataInv, Has, TypeOK
<1> QED
  BY <1>1, <1>2, <1>3, <1>4, <1>5

\* The unpin of install_trans() preserves the invariant: the block is on the disk.
LEMMA BunpinStep ==
    ASSUME IInv, NEW p \in Proc, Bunpin(p)
    PROVE  IInv'
<1> DEFINE b == mine[p]
<1> USE DEF IInv, Bunpin, Goto, bufVars, lockVars
<1>0. p \in InLock /\ b \in Buf /\ want[p] \in Block /\ blockno[b] = want[p] /\ b \in pinned
  BY HolderFacts DEF InLock
<1>1. RefcntExact' /\ \A c \in Buf : refcnt'[c] \in Nat
  <2>1. \A c \in Buf : refcnt'[c] = refcnt[c] - (IF c = b THEN 1 ELSE 0)
    BY <1>0 DEF TypeOK
  <2>2. \A c \in Buf : Users(c)' = Users(c) /\ Cardinality(Users(c)) \in Nat
    BY UsersFinite DEF Users
  <2>3. \A c \in Buf : refcnt'[c] = Cardinality(Users(c)) + (IF c \in pinned' THEN 1 ELSE 0)
    BY <1>0, <2>1, <2>2 DEF RefcntExact
  <2> QED
    BY <2>2, <2>3 DEF RefcntExact
<1>2. TypeOK'
  BY <1>0, <1>1 DEF TypeOK
<1>3. OneBufferPerBlock' /\ MineInv'
  BY DEF OneBufferPerBlock, MineInv, TypeOK
<1>4. LockInv'
  BY DEF LockInv, InLock, TypeOK
<1>5. DataInv'
  <2>1. \A q \in Proc : pc'[q] = IF q = p THEN "held" ELSE pc[q]
    BY DEF TypeOK
  <2> QED
    BY <1>0, <2>1 DEF DataInv, Has, TypeOK
<1> QED
  BY <1>1, <1>2, <1>3, <1>4, <1>5

\* releasesleep() preserves the invariant: it wakes every sleeper of the buffer.
LEMMA ReleaseSleepStep ==
    ASSUME IInv, NEW p \in Proc, ReleaseSleep(p)
    PROVE  IInv'
<1> DEFINE b == mine[p]
<1> USE DEF IInv, bufVars
<1>0. p \in InLock /\ b \in Buf /\ want[p] \in Block /\ blockno[b] = want[p] /\ HoldingSleep(p)
  BY HolderFacts DEF InLock, ReleaseSleep
<1>00. /\ locked' = [locked EXCEPT ![b] = FALSE] /\ lockpid' = [lockpid EXCEPT ![b] = NoProc]
       /\ \A q \in Proc : pc'[q] = IF q = p THEN "unlocked"
                                   ELSE IF pc[q] = "sleep" /\ mine[q] = b THEN "lock" ELSE pc[q]
       /\ pc' = Wakeup(p, b) /\ pc[p] \in {"held", "written"}
       /\ UNCHANGED <<disk, blockno, valid, data, refcnt, lru, pinned, mine, want>>
  BY <1>0 DEF ReleaseSleep, Wakeup
<1> USE <1>00
<1>1. TypeOK'
  BY <1>0 DEF TypeOK, Wakeup
<1>2. RefcntExact' /\ OneBufferPerBlock'
  BY SameRefs DEF OneBufferPerBlock
<1>3. MineInv'
  BY DEF MineInv
<1>4. LockInv'
  <2>1. \A q \in InLock : q # p => mine[q] # b
    BY <1>0, OneHolder
  <2>2. \A c \in Buf : /\ locked'[c] = (locked[c] /\ c # b)
                       /\ c # b => lockpid'[c] = lockpid[c]
    BY <1>0 DEF TypeOK
  <2>3. InLock' = InLock \ {p}
    BY <1>0 DEF InLock
  <2>4. \A q \in InLock' : locked'[mine[q]] /\ lockpid'[mine[q]] = q
    BY <2>1, <2>2, <2>3 DEF LockInv, InLock, MineInv, TypeOK
  <2>5. \A c \in Buf : locked'[c] => lockpid'[c] \in InLock' /\ mine[lockpid'[c]] = c
    <3> SUFFICES ASSUME NEW c \in Buf, locked'[c]
                 PROVE  lockpid'[c] \in InLock' /\ mine[lockpid'[c]] = c
      OBVIOUS
    <3>1. c # b /\ locked[c] /\ lockpid'[c] = lockpid[c]
      BY <2>2
    <3>2. lockpid[c] \in InLock /\ mine[lockpid[c]] = c
      BY <3>1 DEF LockInv
    <3>3. lockpid[c] # p
      BY <3>1, <3>2
    <3> HIDE <1>00
    <3> QED
      BY <2>3, <3>1, <3>2, <3>3
  <2>6. \A q \in Proc : pc'[q] = "sleep" => locked'[mine[q]]
    BY <2>2 DEF LockInv, MineInv, TypeOK
  <2> QED
    BY <2>4, <2>5, <2>6 DEF LockInv
<1>5. DataInv'
  BY <1>0 DEF DataInv, Has
<1> QED
  BY <1>1, <1>2, <1>3, <1>4, <1>5

\* The end of brelse() preserves the invariant.
LEMMA BrelseStep ==
    ASSUME IInv, NEW p \in Proc, Brelse(p)
    PROVE  IInv'
<1> DEFINE b == mine[p]
<1> USE DEF IInv, Brelse, Goto, Unref, bufVars, lockVars
<1>0. b \in Buf /\ p \notin InLock
  BY DEF MineInv, TypeOK, InLock
<1>1. RefcntExact' /\ \A c \in Buf : refcnt'[c] \in Nat
  <2>1. \A c \in Buf : refcnt'[c] = refcnt[c] - (IF c = b THEN 1 ELSE 0)
    BY <1>0 DEF TypeOK
  <2>2. \A c \in Buf : Cardinality(Users(c)') = Cardinality(Users(c)) - (IF c = b THEN 1 ELSE 0)
    BY <1>0, UsersRemove
  <2>3. \A c \in Buf : Cardinality(Users(c)) \in Nat /\ Cardinality(Users(c)') \in Nat
    <3> TAKE c \in Buf
    <3>1. Users(c)' \in SUBSET Proc
      BY DEF Users
    <3> QED
      BY <3>1, UsersFinite, FS_Subset, FS_CardinalityType
  <2>4. \A c \in Buf : refcnt'[c] = Cardinality(Users(c)') + (IF c \in pinned THEN 1 ELSE 0)
    BY <2>1, <2>2, <2>3 DEF RefcntExact
  <2> QED
    BY <2>3, <2>4 DEF RefcntExact
<1>2. TypeOK'
  <2>1. lru' \in Seq(Buf) /\ IsInjective(lru') /\ Range(lru') = Buf
    BY <1>0, MoveToFrontIsList DEF TypeOK
  <2> QED
    BY <1>0, <1>1, <2>1 DEF TypeOK
<1>3. OneBufferPerBlock' /\ MineInv'
  BY DEF OneBufferPerBlock, MineInv, TypeOK
<1>4. LockInv'
  BY <1>0 DEF LockInv, InLock, TypeOK
<1>5. DataInv'
  BY DEF DataInv, Has, TypeOK
<1> QED
  BY <1>1, <1>2, <1>3, <1>4, <1>5

\* Every step of the cache preserves the invariant.
LEMMA NextInv == IInv /\ [Next]_vars => IInv'
<1> SUFFICES ASSUME IInv, [Next]_vars PROVE IInv'
  OBVIOUS
<1>1. CASE UNCHANGED vars
  BY <1>1 DEF IInv, TypeOK, RefcntExact, Users, OneBufferPerBlock, MineInv, LockInv, InLock, DataInv, Has,
              vars, bufVars, lockVars, procVars
<1>2. ASSUME NEW p \in Proc, Step(p)
      PROVE  IInv'
  BY <1>2, AcquireSleepStep, BreadStep, BwriteStep, BpinStep, BunpinStep, ReleaseSleepStep, BrelseStep
     DEF Step
<1>3. ASSUME NEW p \in Proc, KillWake(p)
      PROVE  IInv'
  BY <1>3, KillWakeStep
<1>4. ASSUME NEW p \in Proc, NEW n \in Block, Bget(p, n)
      PROVE  IInv'
  BY <1>4, BgetStep
<1>5. ASSUME NEW p \in Proc, NEW d \in Data, Modify(p, d)
      PROVE  IInv'
  BY <1>5, ModifyStep
<1> QED
  BY <1>1, <1>2, <1>3, <1>4, <1>5 DEF Next

-----------------------------------------------------------------------------
(* The theorems *)

\* The invariant of the cache holds in every reachable state.
THEOREM InvariantThm == Spec => []IInv
BY InitInv, NextInv, PTL DEF Spec

\* The reference counts of bget(), brelse(), bpin() and bunpin() are exact, whatever
\* processes race for the buffers.
THEOREM RefcntExactThm == Spec => []RefcntExact
<1>1. IInv => RefcntExact
  BY DEF IInv
<1> QED
  BY <1>1, InvariantThm, PTL

\* A process asleep in acquiresleep() waits for a process that holds the lock.
THEOREM WaiterHasHolderThm == Spec => []WaiterHasHolder
<1>1. IInv => WaiterHasHolder
  <2> SUFFICES ASSUME IInv, NEW p \in Proc, pc[p] = "sleep"
               PROVE  \E q \in Proc : /\ mine[q] = mine[p] /\ HoldingSleep(q)
                                      /\ pc[q] \in {"got", "held", "dirty", "written"}
    BY DEF WaiterHasHolder
  <2>1. mine[p] \in Buf /\ locked[mine[p]]
    BY DEF IInv, MineInv, LockInv, TypeOK
  <2>2. lockpid[mine[p]] \in InLock /\ mine[lockpid[mine[p]]] = mine[p]
    BY <2>1 DEF IInv, LockInv
  <2> QED
    BY <2>2, HolderFacts DEF InLock
<1> QED
  BY <1>1, InvariantThm, PTL

\* bget() panics only when every buffer is pinned or referred to by another process.
LEMMA BgetPanics ==
    ASSUME IInv, NEW p \in Proc, NEW n \in Block, Bget(p, n), pc'[p] = "panic"
    PROVE  Buf \subseteq pinned \cup {mine[q] : q \in Proc \ {p}}
<1>1. Free = {} /\ mine[p] = NoBuf
  BY DEF Bget, Goto, IInv, TypeOK, MineInv
<1>2. ASSUME NEW b \in Buf, b \notin pinned
      PROVE  \E q \in Proc \ {p} : mine[q] = b
  <2>1. refcnt[b] # 0 /\ refcnt[b] = Cardinality(Users(b))
    BY <1>1, <1>2, UsersFinite DEF Free, IInv, RefcntExact
  <2>2. Users(b) # {}
    BY <2>1, FS_EmptySet
  <2> QED
    BY <1>1, <2>2 DEF Users
<1> QED
  BY <1>2

\* The panics of bio.c: bget() runs out of buffers only when all are in use, and
\* bwrite() and brelse() always hold the lock.
THEOREM PanicsOnlyWhenFullThm == Spec => PanicsOnlyWhenFull
<1> DEFINE A == \A p \in Proc : pc[p] # "panic" /\ pc'[p] = "panic" =>
                    /\ pc[p] = "idle"
                    /\ Buf \subseteq pinned \cup {mine[q] : q \in Proc \ {p}}
<1>1. IInv /\ [Next]_vars => [A]_vars
  <2> SUFFICES ASSUME IInv, Next, NEW p \in Proc, pc[p] # "panic", pc'[p] = "panic"
               PROVE  pc[p] = "idle" /\ Buf \subseteq pinned \cup {mine[q] : q \in Proc \ {p}}
    OBVIOUS
  <2>1. PICK r \in Proc : Step(r) \/ KillWake(r) \/ (\E n \in Block : Bget(r, n))
                            \/ \E d \in Data : Modify(r, d)
    BY DEF Next
  <2>2. ~Step(r)
    <3>1. r \in InLock => HoldingSleep(r)
      BY HolderFacts
    <3>2. pc \in [Proc -> {"idle", "lock", "sleep", "got", "held", "dirty", "written",
                           "unlocked", "panic"}]
      BY DEF IInv, TypeOK
    <3>3. ~AcquireSleep(r) /\ ~Bread(r)
      BY <3>2 DEF AcquireSleep, Bread, Goto
    <3>4. ~Bwrite(r) /\ ~Bpin(r) /\ ~Bunpin(r)
      BY <3>1, <3>2 DEF Bwrite, Bpin, Bunpin, Goto, InLock
    <3>5. ~ReleaseSleep(r) /\ ~Brelse(r)
      BY <3>1, <3>2 DEF ReleaseSleep, Brelse, Goto, Wakeup, InLock
    <3> QED
      BY <3>3, <3>4, <3>5 DEF Step
  <2>3. ~KillWake(r) /\ ~\E d \in Data : Modify(r, d)
    BY DEF KillWake, Modify, Goto, IInv, TypeOK
  <2>4. PICK n \in Block : Bget(r, n)
    BY <2>1, <2>2, <2>3
  <2>5. r = p /\ pc[p] = "idle"
    BY <2>4 DEF Bget, Goto, IInv, TypeOK
  <2> QED
    BY <2>4, <2>5, BgetPanics
<1> QED
  BY <1>1, InvariantThm, PTL DEF Spec, PanicsOnlyWhenFull
=============================================================================
