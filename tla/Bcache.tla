------------------------------- MODULE Bcache -------------------------------
(***************************************************************************)
(* The buffer cache of kernel/bio.c with the sleep locks of                *)
(* kernel/sleeplock.c.                                                     *)
(*                                                                         *)
(* bcache.lock makes the search of bget(), the second half of brelse(),    *)
(* bpin() and bunpin() one step each; the spin lock inside a sleep lock    *)
(* does the same for acquiresleep() and releasesleep().  Between them other *)
(* processes run: after bget() has chosen a buffer and before it has the   *)
(* buffer's lock, and inside brelse() after the lock is free and before    *)
(* the reference is dropped.                                               *)
(*                                                                         *)
(* A process uses one buffer at a time, as the callers in fs.c do with the *)
(* data block of a file.  It changes the data only under the lock, and     *)
(* then either writes the block or has log_write() pin it.                 *)
(***************************************************************************)
EXTENDS Integers, Sequences, FiniteSets, Functions

CONSTANTS Proc, Buf, Block, Data,
          NoProc, NoBuf, NoBlock,
          MAXPIN   \* most buffers the log keeps pinned at once

ASSUME NothingAssumption == NoProc \notin Proc /\ NoBuf \notin Buf /\ NoBlock \notin Block
ASSUME BufAssumption == IsFiniteSet(Buf) /\ IsFiniteSet(Proc) /\ MAXPIN \in Nat

VARIABLES
    disk,     \* the blocks on the disk
    blockno,  \* the block a buffer caches; NoBlock before its first use
    valid,    \* has data been read from disk?
    data,     \* the buffer's copy of the block
    refcnt,   \* references: processes in bget()..brelse(), and the log's pin
    lru,      \* the buffers from bcache.head.next to bcache.head.prev
    locked,   \* the sleep lock: is it held, and by whom
    lockpid,
    pinned,   \* the buffers the log holds a reference to
    pc, mine, \* where each process is, and the buffer it refers to
    want      \* the block number it passed to bread()

bufVars == <<blockno, valid, data>>
lockVars == <<locked, lockpid>>
procVars == <<pc, mine, want>>
vars == <<disk, bufVars, refcnt, lru, lockVars, pinned, procVars>>

\* The types of struct buf, of the LRU list, which keeps every buffer of binit()
\* exactly once, and of what bget() and its callers hold.
TypeOK ==
    /\ disk \in [Block -> Data]
    /\ blockno \in [Buf -> Block \cup {NoBlock}]
    /\ valid \in [Buf -> BOOLEAN]
    /\ data \in [Buf -> Data]
    /\ refcnt \in [Buf -> Nat]
    /\ lru \in Seq(Buf) /\ IsInjective(lru) /\ Range(lru) = Buf
    /\ locked \in [Buf -> BOOLEAN] /\ lockpid \in [Buf -> Proc \cup {NoProc}]
    /\ pinned \subseteq Buf
    /\ pc \in [Proc -> {"idle", "lock", "sleep", "got", "held", "dirty", "written",
                        "unlocked", "panic"}]
    /\ mine \in [Proc -> Buf \cup {NoBuf}]
    /\ want \in [Proc -> Block \cup {NoBlock}]

Init ==
    /\ disk \in [Block -> Data]
    /\ blockno = [b \in Buf |-> NoBlock]
    /\ valid = [b \in Buf |-> FALSE]
    /\ \E d \in Data : data = [b \in Buf |-> d]
    /\ refcnt = [b \in Buf |-> 0]
    /\ lru \in [1..Cardinality(Buf) -> Buf] /\ IsInjective(lru)
    /\ locked = [b \in Buf |-> FALSE]
    /\ lockpid = [b \in Buf |-> NoProc]
    /\ pinned = {}
    /\ pc = [p \in Proc |-> "idle"]
    /\ mine = [p \in Proc |-> NoBuf]
    /\ want = [p \in Proc |-> NoBlock]

-----------------------------------------------------------------------------
Goto(p, l) == pc' = [pc EXCEPT ![p] = l]

\* The buffers that cache block n, those that may be recycled, and the least recently used of them.
Cached(n) == {b \in Buf : blockno[b] = n}
Free == {b \in Buf : refcnt[b] = 0}
LeastRecent == lru[CHOOSE i \in DOMAIN lru :
                      /\ lru[i] \in Free
                      /\ \A j \in DOMAIN lru : lru[j] \in Free => j <= i]

\* bget() clears valid in a buffer it recycles.
InvalidateMutant(b) == valid
Invalidate(b) == [valid EXCEPT ![b] = FALSE]

\* bget() up to its release of bcache.lock.
Bget(p, n) ==
    /\ pc[p] = "idle"
    /\ want' = [want EXCEPT ![p] = n]
    /\ IF Cached(n) # {}
       THEN \E b \in Cached(n) :
              /\ mine' = [mine EXCEPT ![p] = b]
              /\ refcnt' = [refcnt EXCEPT ![b] = @ + 1]
              /\ Goto(p, "lock")
              /\ UNCHANGED <<blockno, valid>>
       ELSE IF Free # {}
       THEN /\ mine' = [mine EXCEPT ![p] = LeastRecent]
            /\ blockno' = [blockno EXCEPT ![LeastRecent] = n]
            /\ valid' = Invalidate(LeastRecent)
            /\ refcnt' = [refcnt EXCEPT ![LeastRecent] = 1]
            /\ Goto(p, "lock")
       ELSE Goto(p, "panic") /\ UNCHANGED <<mine, blockno, valid, refcnt>>
    /\ UNCHANGED <<disk, data, lru, lockVars, pinned>>

\* acquiresleep(): one pass of its loop.
AcquireSleep(p) ==
    LET b == mine[p] IN
    /\ pc[p] = "lock"
    /\ IF locked[b]
       THEN Goto(p, "sleep") /\ UNCHANGED lockVars
       ELSE /\ locked' = [locked EXCEPT ![b] = TRUE]
            /\ lockpid' = [lockpid EXCEPT ![b] = p]
            /\ Goto(p, "got")
    /\ UNCHANGED <<disk, bufVars, refcnt, lru, pinned, mine, want>>

\* The rest of bread(): read the block unless the buffer is valid.
Bread(p) ==
    LET b == mine[p] IN
    /\ pc[p] = "got"
    /\ data' = IF valid[b] THEN data ELSE [data EXCEPT ![b] = disk[blockno[b]]]
    /\ valid' = [valid EXCEPT ![b] = TRUE]
    /\ Goto(p, "held")
    /\ UNCHANGED <<disk, blockno, refcnt, lru, lockVars, pinned, mine, want>>

\* The caller changes b->data.
Modify(p, d) ==
    /\ pc[p] \in {"held", "written"}
    /\ data' = [data EXCEPT ![mine[p]] = d]
    /\ Goto(p, "dirty")
    /\ UNCHANGED <<disk, blockno, valid, refcnt, lru, lockVars, pinned, mine, want>>

HoldingSleep(p) == locked[mine[p]] /\ lockpid[mine[p]] = p

\* bwrite().
Bwrite(p) ==
    /\ pc[p] \in {"held", "dirty"}
    /\ IF HoldingSleep(p)
       THEN /\ disk' = [disk EXCEPT ![blockno[mine[p]]] = data[mine[p]]]
            /\ Goto(p, "written")
       ELSE Goto(p, "panic") /\ UNCHANGED disk
    /\ UNCHANGED <<bufVars, refcnt, lru, lockVars, pinned, mine, want>>

\* refcnt after log_write(), and after the b->refcnt-- of brelse().
PinRefMutant(b) == [refcnt EXCEPT ![b] = @ + 1]
PinRef(b) == IF b \in pinned THEN refcnt ELSE [refcnt EXCEPT ![b] = @ + 1]
UnrefMutant(b) == refcnt
Unref(b) == [refcnt EXCEPT ![b] = @ - 1]

\* log_write(): bpin() unless the block is in the log already.
Bpin(p) ==
    LET b == mine[p] IN
    /\ pc[p] = "dirty"
    /\ b \in pinned \/ Cardinality(pinned) < MAXPIN
    /\ refcnt' = PinRef(b)
    /\ pinned' = pinned \cup {b}
    /\ Goto(p, "held")
    /\ UNCHANGED <<disk, bufVars, lru, lockVars, mine, want>>

\* bunpin() in install_trans(), after the bwrite() of the same buffer.
Bunpin(p) ==
    LET b == mine[p] IN
    /\ pc[p] = "written"
    /\ b \in pinned
    /\ refcnt' = [refcnt EXCEPT ![b] = @ - 1]
    /\ pinned' = pinned \ {b}
    /\ Goto(p, "held")
    /\ UNCHANGED <<disk, bufVars, lru, lockVars, mine, want>>

\* pc after releasesleep() of buffer b by p: wakeup() makes its sleepers retry.
WakeupMutant(p, b) == [pc EXCEPT ![p] = "unlocked"]
Wakeup(p, b) ==
    [q \in Proc |-> IF q = p THEN "unlocked"
                    ELSE IF pc[q] = "sleep" /\ mine[q] = b THEN "lock" ELSE pc[q]]

\* kkill() wakes a sleeping process whatever it sleeps on; the loop of
\* acquiresleep() looks at the lock again.
KillWake(p) ==
    /\ pc[p] = "sleep"
    /\ Goto(p, "lock")
    /\ UNCHANGED <<disk, bufVars, refcnt, lru, lockVars, pinned, mine, want>>

\* brelse() up to and including releasesleep().
ReleaseSleep(p) ==
    LET b == mine[p] IN
    /\ pc[p] \in {"held", "written"}
    /\ IF HoldingSleep(p)
       THEN /\ locked' = [locked EXCEPT ![b] = FALSE]
            /\ lockpid' = [lockpid EXCEPT ![b] = NoProc]
            /\ pc' = Wakeup(p, b)
       ELSE Goto(p, "panic") /\ UNCHANGED lockVars
    /\ UNCHANGED <<disk, bufVars, refcnt, lru, pinned, mine, want>>

\* A buffer without references moves to the head of the list.
MoveToFront(b) ==
    LET k == CHOOSE i \in DOMAIN lru : lru[i] = b IN
    [i \in DOMAIN lru |-> IF i = 1 THEN b ELSE IF i <= k THEN lru[i - 1] ELSE lru[i]]

\* brelse() from acquire(&bcache.lock) on.
Brelse(p) ==
    LET b == mine[p] IN
    /\ pc[p] = "unlocked"
    /\ refcnt' = Unref(b)
    /\ lru' = IF refcnt[b] = 1 THEN MoveToFront(b) ELSE lru
    /\ mine' = [mine EXCEPT ![p] = NoBuf]
    /\ want' = [want EXCEPT ![p] = NoBlock]
    /\ Goto(p, "idle")
    /\ UNCHANGED <<disk, bufVars, lockVars, pinned>>

Step(p) ==
    \/ AcquireSleep(p)
    \/ Bread(p)
    \/ Bwrite(p)
    \/ Bpin(p)
    \/ Bunpin(p)
    \/ ReleaseSleep(p)
    \/ Brelse(p)

Next ==
    \E p \in Proc :
        \/ Step(p)
        \/ KillWake(p)
        \/ \E n \in Block : Bget(p, n)
        \/ \E d \in Data : Modify(p, d)

Spec == Init /\ [][Next]_vars

-----------------------------------------------------------------------------
\* The processes that refer to buffer b.
Users(b) == {p \in Proc : mine[p] = b}

\* Reference counts are exact: one for every process in bget()..brelse() and one
\* for the log, so a buffer is never recycled in use and never leaked.
RefcntExact ==
    \A b \in Buf :
        refcnt[b] = Cardinality(Users(b)) + (IF b \in pinned THEN 1 ELSE 0)

\* bget() panics "no buffers" only when processes and the log's pins really take
\* every buffer, so NBUF buffers are enough for fewer of them than that; and
\* bwrite() and brelse() never find the lock in another process's hands.
PanicsOnlyWhenFull ==
    [][\A p \in Proc : pc[p] # "panic" /\ pc'[p] = "panic" =>
           /\ pc[p] = "idle"
           /\ Buf \subseteq pinned \cup {mine[q] : q \in Proc \ {p}}]_vars

\* The view of a block: its valid buffer, or else the disk.
View ==
    [n \in Block |->
        IF \E b \in Cached(n) : valid[b]
        THEN data[CHOOSE b \in Cached(n) : valid[b]] ELSE disk[n]]
Has(p) == pc[p] \in {"held", "dirty", "written"}
Holder ==
    [n \in Block |->
        IF \E p \in Proc : Has(p) /\ want[p] = n
        THEN CHOOSE p \in Proc : Has(p) /\ want[p] = n ELSE NoProc]

BC == INSTANCE BlockCells WITH contents <- View, holder <- Holder

\* The cache implements one locked cell per block: recycling, re-reading,
\* writing back and pinning never change what a block holds, and two processes
\* never have the same block.
CacheIsCells == BC!Spec

\* No wakeup is lost: a process asleep in acquiresleep() waits for a lock that
\* another process holds and will release.
WaiterHasHolder ==
    \A p \in Proc : pc[p] = "sleep" =>
        \E q \in Proc : mine[q] = mine[p] /\ HoldingSleep(q) /\ pc[q] \in {"got", "held", "dirty", "written"}
=============================================================================
