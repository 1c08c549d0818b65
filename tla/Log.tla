-------------------------------- MODULE Log --------------------------------
(***************************************************************************)
(* The write-ahead redo log of kernel/log.c: group commit of concurrent    *)
(* file system operations, log absorption, and recovery after a crash at   *)
(* any point, recovery included.                                           *)
(*                                                                         *)
(* The spin lock log.lock makes each critical section one step.  A block   *)
(* write is one step too: virtio_disk_rw returns when the device is done.  *)
(* The header (4 + 4*LOGBLOCKS bytes) fits in one block, so it is written  *)
(* whole or not at all.                                                    *)
(*                                                                         *)
(* Every loop over log.lh.block is one step per block, so that a crash can *)
(* fall between any two disk writes.                                       *)
(***************************************************************************)
EXTENDS Integers, Sequences, FiniteSets, Functions

CONSTANTS Proc,        \* processes
          InitProc,    \* the process whose forkret() runs fsinit()
          Block,       \* home blocks, outside the log area
          Data,        \* what a block can hold
          NoBuf,       \* "no buffer caches this block"
          NoBlock,     \* "this process holds no buffer"
          MAXOPBLOCKS, \* log blocks begin_op() reserves for an operation
          LOGBLOCKS,   \* data blocks in the on-disk log
          OPBLOCKS     \* most distinct blocks an operation logs

ASSUME ProcAssumption == IsFiniteSet(Proc) /\ InitProc \in Proc
ASSUME NoBufAssumption == NoBuf \notin Data
ASSUME NoBlockAssumption == NoBlock \notin Block
ASSUME SizeAssumption ==
    /\ MAXOPBLOCKS \in Nat \ {0}
    /\ LOGBLOCKS \in Nat
    /\ OPBLOCKS \in Nat

VARIABLES
    \* the disk: survives a crash
    home,         \* the home blocks
    logArea,      \* the data blocks of the on-disk log
    head,         \* the on-disk header: the blocks of a committed transaction
    \* memory: lost in a crash
    lh,           \* log.lh.block[0..n-1]
    outstanding,  \* log.outstanding
    committing,   \* log.committing
    buf,          \* the cached contents of each home block, or NoBuf
    pin,          \* the references bpin() has added to a block's buffer
    pc,           \* where each process is
    hold,         \* the buffer whose sleep lock a process holds
    wrote,        \* the blocks the process's operation has logged
    tail          \* the loop variable of write_log() and install_trans()

disk == <<home, logArea, head>>
logState == <<lh, outstanding, committing>>
bufState == <<buf, pin>>
procState == <<pc, hold, wrote, tail>>
vars == <<disk, logState, bufState, procState>>

InOp == {p \in Proc : pc[p] \in {"op", "dirty", "logged"}}
Committer == {p \in Proc : pc[p] \in {"commit", "write_log", "install", "finish"}}
Recovering == pc[InitProc] \in {"read_head", "recover"}

\* What bread() returns for a home block.
Contents(b) == IF buf[b] = NoBuf THEN home[b] ELSE buf[b]
Unlocked(b) == \A p \in Proc : hold[p] # b
Logged == Range(lh)

\* begin_op() may not start: a commit is running, or the log might overflow.
MustWaitMutant == committing \/ Len(lh) >= LOGBLOCKS
MustWait == committing \/ Len(lh) + (outstanding + 1) * MAXOPBLOCKS > LOGBLOCKS

\* pc after wakeup(&log).
WakeupMutant == pc
WakeupLog == [p \in Proc |-> IF pc[p] = "asleep" THEN "begin" ELSE pc[p]]

\* commit() tests log.lh.n > 0.
HasWritesMutant == Len(lh) > 1
HasWrites == Len(lh) > 0

\* bget() recycles only a buffer whose reference count is zero.
RecyclableMutant(b) == Unlocked(b)
Recyclable(b) == pin[b] = 0 /\ Unlocked(b)

\* The bunpin() of install_trans(): only for a transaction of this boot.
PinLeakMutant(p, b) == pin
Bunpin(p, b) == IF pc[p] = "install" THEN [pin EXCEPT ![b] = @ - 1] ELSE pin

\* The types of struct log, of the on-disk log and of the cached blocks.
TypeOK ==
    /\ home \in [Block -> Data]
    /\ logArea \in [1..LOGBLOCKS -> Data]
    /\ head \in Seq(Block) /\ lh \in Seq(Block)
    /\ outstanding \in Nat
    /\ committing \in BOOLEAN
    /\ buf \in [Block -> Data \cup {NoBuf}]
    /\ pin \in [Block -> Nat]
    /\ pc \in [Proc -> {"down", "read_head", "recover", "idle", "asleep", "begin",
                        "op", "dirty", "logged", "commit", "write_log", "install",
                        "finish", "panic"}]
    /\ hold \in [Proc -> Block \cup {NoBlock}]
    /\ wrote \in [Proc -> SUBSET Block]
    /\ tail \in [Proc -> Nat]

-----------------------------------------------------------------------------
\* Only InitProc exists after a boot, and it is about to run fsinit().
BootPc == [p \in Proc |-> IF p = InitProc THEN "read_head" ELSE "down"]

\* mkfs leaves an empty log; the log's data blocks are never read before written.
Init ==
    /\ home \in [Block -> Data]
    /\ \E d \in Data : logArea = [i \in 1..LOGBLOCKS |-> d]
    /\ head = <<>>
    /\ lh = <<>>
    /\ outstanding = 0
    /\ committing = FALSE
    /\ buf = [b \in Block |-> NoBuf]
    /\ pin = [b \in Block |-> 0]
    /\ pc = BootPc
    /\ hold = [p \in Proc |-> NoBlock]
    /\ wrote = [p \in Proc |-> {}]
    /\ tail = [p \in Proc |-> 0]

\* begin_op(): one pass of its loop.
BeginOp(p) ==
    /\ pc[p] \in {"idle", "begin"}
    /\ IF MustWait
       THEN /\ pc' = [pc EXCEPT ![p] = "asleep"]
            /\ UNCHANGED <<outstanding, wrote>>
       ELSE /\ outstanding' = outstanding + 1
            /\ wrote' = [wrote EXCEPT ![p] = {}]
            /\ pc' = [pc EXCEPT ![p] = "op"]
    /\ UNCHANGED <<disk, lh, committing, bufState, hold, tail>>

\* kkill() wakes a sleeping process whatever it sleeps on; the loop of begin_op()
\* looks at the log again.
KillWake(p) ==
    /\ pc[p] = "asleep"
    /\ pc' = [pc EXCEPT ![p] = "begin"]
    /\ UNCHANGED <<disk, logState, bufState, hold, wrote, tail>>

\* bread() of a block and a change to its contents, inside an operation.
ModifyBuf(p, b, d) ==
    /\ pc[p] = "op"
    /\ Unlocked(b)
    /\ Cardinality(wrote[p] \cup {b}) <= OPBLOCKS
    /\ buf' = [buf EXCEPT ![b] = d]
    /\ hold' = [hold EXCEPT ![p] = b]
    /\ pc' = [pc EXCEPT ![p] = "dirty"]
    /\ UNCHANGED <<disk, logState, pin, wrote, tail>>

\* log_write() of the buffer the process holds.
LogWrite(p) ==
    LET b == hold[p] IN
    /\ pc[p] = "dirty"
    /\ IF Len(lh) >= LOGBLOCKS \/ outstanding < 1
       THEN /\ pc' = [pc EXCEPT ![p] = "panic"]
            /\ UNCHANGED <<lh, pin, wrote>>
       ELSE /\ pc' = [pc EXCEPT ![p] = "logged"]
            /\ wrote' = [wrote EXCEPT ![p] = @ \cup {b}]
            /\ IF b \in Logged
               THEN UNCHANGED <<lh, pin>>
               ELSE /\ lh' = Append(lh, b)
                    /\ pin' = [pin EXCEPT ![b] = @ + 1]
    /\ UNCHANGED <<disk, outstanding, committing, buf, hold, tail>>

\* brelse() of the logged buffer.
Brelse(p) ==
    /\ pc[p] = "logged"
    /\ hold' = [hold EXCEPT ![p] = NoBlock]
    /\ pc' = [pc EXCEPT ![p] = "op"]
    /\ UNCHANGED <<disk, logState, bufState, wrote, tail>>

\* end_op() up to its first release(): the last operation becomes the committer.
EndOp(p) ==
    /\ pc[p] = "op"
    /\ outstanding' = outstanding - 1
    /\ IF committing
       THEN pc' = [pc EXCEPT ![p] = "panic"] /\ UNCHANGED committing
       ELSE IF outstanding = 1
       THEN pc' = [pc EXCEPT ![p] = "commit"] /\ committing' = TRUE
       ELSE pc' = [WakeupLog EXCEPT ![p] = "idle"] /\ UNCHANGED committing
    /\ UNCHANGED <<disk, lh, bufState, hold, wrote, tail>>

-----------------------------------------------------------------------------
\* commit() tests log.lh.n: a transaction without writes has nothing to do.
Commit(p) ==
    /\ pc[p] = "commit"
    /\ pc' = [pc EXCEPT ![p] = IF HasWrites THEN "write_log" ELSE "finish"]
    /\ tail' = [tail EXCEPT ![p] = 0]
    /\ UNCHANGED <<disk, logState, bufState, hold, wrote>>

\* write_log(): copy one cached block to the log.
WriteLog(p) ==
    LET i == tail[p] + 1 IN
    /\ pc[p] = "write_log"
    /\ tail[p] < Len(lh)
    /\ Unlocked(lh[i])
    /\ logArea' = [logArea EXCEPT ![i] = Contents(lh[i])]
    /\ buf' = [buf EXCEPT ![lh[i]] = Contents(lh[i])]
    /\ tail' = [tail EXCEPT ![p] = i]
    /\ UNCHANGED <<home, head, logState, pin, pc, hold, wrote>>

\* write_head() with log.lh.n > 0: the transaction commits here.
WriteHead(p) ==
    /\ pc[p] = "write_log"
    /\ tail[p] = Len(lh)
    /\ head' = lh
    /\ pc' = [pc EXCEPT ![p] = "install"]
    /\ tail' = [tail EXCEPT ![p] = 0]
    /\ UNCHANGED <<home, logArea, logState, bufState, hold, wrote>>

\* install_trans(): copy one log block to its home, in commit() and in recovery.
InstallTrans(p) ==
    LET i == tail[p] + 1
        b == lh[i] IN
    /\ pc[p] \in {"install", "recover"}
    /\ tail[p] < Len(lh)
    /\ Unlocked(b)
    /\ buf' = [buf EXCEPT ![b] = logArea[i]]
    /\ home' = [home EXCEPT ![b] = logArea[i]]
    /\ pin' = Bunpin(p, b)
    /\ tail' = [tail EXCEPT ![p] = i]
    /\ UNCHANGED <<logArea, head, logState, pc, hold, wrote>>

\* log.lh.n = 0 and write_head(): erase the transaction.  After recovery the
\* system is up and other processes may run.
ClearLog(p) ==
    /\ pc[p] \in {"install", "recover"}
    /\ tail[p] = Len(lh)
    /\ lh' = <<>>
    /\ head' = <<>>
    /\ pc' = IF pc[p] = "install" THEN [pc EXCEPT ![p] = "finish"]
             ELSE [q \in Proc |-> "idle"]
    /\ UNCHANGED <<home, logArea, outstanding, committing, bufState, hold, wrote, tail>>

\* end_op() after commit().
FinishCommit(p) ==
    /\ pc[p] = "finish"
    /\ committing' = FALSE
    /\ pc' = [WakeupLog EXCEPT ![p] = "idle"]
    /\ UNCHANGED <<disk, lh, outstanding, bufState, hold, wrote, tail>>

\* read_head(), the first step of recover_from_log().
ReadHead(p) ==
    /\ pc[p] = "read_head"
    /\ lh' = head
    /\ tail' = [tail EXCEPT ![p] = 0]
    /\ pc' = [pc EXCEPT ![p] = "recover"]
    /\ UNCHANGED <<disk, outstanding, committing, bufState, hold, wrote>>

-----------------------------------------------------------------------------
\* bread() of a block by a reader that needs no transaction.
Bread(b) ==
    /\ ~Recovering
    /\ buf[b] = NoBuf
    /\ buf' = [buf EXCEPT ![b] = home[b]]
    /\ UNCHANGED <<disk, logState, pin, procState>>

\* bget() recycles a buffer whose reference count is zero.
Evict(b) ==
    /\ buf[b] # NoBuf
    /\ Recyclable(b)
    /\ buf' = [buf EXCEPT ![b] = NoBuf]
    /\ UNCHANGED <<disk, logState, pin, procState>>

\* Power fails and the machine boots again.
Crash ==
    /\ pc[InitProc] # "read_head"
    /\ lh' = <<>>
    /\ outstanding' = 0
    /\ committing' = FALSE
    /\ buf' = [b \in Block |-> NoBuf]
    /\ pin' = [b \in Block |-> 0]
    /\ pc' = BootPc
    /\ hold' = [p \in Proc |-> NoBlock]
    /\ wrote' = [p \in Proc |-> {}]
    /\ tail' = [p \in Proc |-> 0]
    /\ UNCHANGED disk

Step(p) ==
    \/ BeginOp(p)
    \/ KillWake(p)
    \/ LogWrite(p)
    \/ Brelse(p)
    \/ EndOp(p)
    \/ Commit(p)
    \/ WriteLog(p)
    \/ WriteHead(p)
    \/ InstallTrans(p)
    \/ ClearLog(p)
    \/ FinishCommit(p)
    \/ ReadHead(p)

Next ==
    \/ \E p \in Proc : Step(p)
    \/ \E p \in Proc, b \in Block, d \in Data : ModifyBuf(p, b, d)
    \/ \E b \in Block : Bread(b) \/ Evict(b)
    \/ Crash

Spec == Init /\ [][Next]_vars

-----------------------------------------------------------------------------
\* None of the panics of log.c is reached: "too big a transaction" and
\* "log_write outside of trans" in log_write(), "log.committing" in end_op().
NoPanic == \A p \in Proc : pc[p] # "panic"

\* The commit protocol excludes operations: while a process is in commit() it is
\* the only one and no operation runs, so that write_log() copies no block a
\* system call is still changing (the claim of the comment at log.c:12-16).
CommitExcludesOps ==
    /\ committing <=> Committer # {}
    /\ Committer # {} => InOp = {}
    /\ \A p, q \in Committer : p = q
    /\ outstanding = Cardinality(InOp)

\* A block waiting to be written home has exactly one pin and every other block
\* none, at each step of commit() and of recovery: a missing pin would let bget()
\* drop the only copy of a committed change, an extra one leaks the buffer.
Uninstalled ==
    {b \in Block :
        /\ ~Recovering
        /\ \E i \in 1..Len(lh) :
               lh[i] = b /\ \A p \in Proc : pc[p] = "install" => i > tail[p]}
PinsBalanced == pin = [b \in Block |-> IF b \in Uninstalled THEN 1 ELSE 0]

\* A process sleeping in begin_op() is waiting for somebody: an operation or a
\* commit is running whose end will call wakeup(&log).
SleeperHasWaker == (\E p \in Proc : pc[p] = "asleep") => InOp \cup Committer # {}

\* The home blocks after the blocks of log area la are installed in the order of
\* header h, on top of home blocks hm.
Replay(h, la, hm) ==
    [b \in Block |->
        LET at == {i \in DOMAIN h : h[i] = b}
        IN  IF at = {} THEN hm[b] ELSE la[CHOOSE i \in at : \A j \in at : j <= i]]
\* The disk contents that recover_from_log() would leave.
Recovered == Replay(head, logArea, home)
\* The disk contents that file system code reads.
View == IF Recovering THEN Recovered ELSE [b \in Block |-> Contents(b)]

AD == INSTANCE AtomicDisk WITH stable <- Recovered, view <- View, active <- InOp

\* The log implements the atomic disk: whatever the interleaving of operations,
\* commits, evictions and crashes, what a crash leaves changes only by a whole
\* group of finished operations, at the write_head() of commit().
AtomicAcrossCrashes == AD!Spec

\* When the end_op() that commits returns, the changes of every finished
\* operation are durable: a crash right then loses nothing that was written.  An
\* end_op() that leaves other operations outstanding returns earlier, with nothing
\* durable yet.
DurableAtReturn ==
    [][\A p \in Proc : pc[p] = "finish" /\ pc'[p] = "idle" => Recovered' = View']_vars
=============================================================================
