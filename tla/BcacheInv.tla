----------------------------- MODULE BcacheInv -----------------------------
(***************************************************************************)
(* The inductive invariant of the buffer cache.  It says what each process *)
(* knows of its buffer between the steps of bread(), bwrite() and          *)
(* brelse(), and when a buffer may be thrown away.                         *)
(***************************************************************************)
EXTENDS Bcache

\* The processes inside acquiresleep()..releasesleep() of their buffer.
InLock == {p \in Proc : pc[p] \in {"got", "held", "dirty", "written"}}

\* A block is in at most one buffer.
OneBufferPerBlock ==
    \A b, c \in Buf : blockno[b] = blockno[c] /\ blockno[b] # NoBlock => b = c

\* A process between bget() and brelse() refers to a buffer of the block it asked
\* for: nothing recycles it while bget() waits for the lock.
MineInv ==
    \A p \in Proc :
        /\ mine[p] = NoBuf <=> pc[p] \in {"idle", "panic"}
        /\ mine[p] # NoBuf => want[p] \in Block /\ blockno[mine[p]] = want[p]

\* A sleep lock is held by the process it names, which is inside it, and only held
\* locks are slept on.
LockInv ==
    /\ \A p \in InLock : locked[mine[p]] /\ lockpid[mine[p]] = p
    /\ \A b \in Buf : locked[b] => lockpid[b] \in InLock /\ mine[lockpid[b]] = b
    /\ \A p \in Proc : pc[p] = "sleep" => locked[mine[p]]

\* Only a buffer that is pinned, or that its holder is changing, differs from the
\* disk; so a buffer without references can be recycled.
DataInv ==
    /\ \A p \in Proc : Has(p) => valid[mine[p]]
    /\ \A p \in Proc : pc[p] = "written" => data[mine[p]] = disk[want[p]]
    /\ \A b \in Buf : valid[b] => blockno[b] \in Block
    /\ \A b \in Buf : valid[b] /\ b \notin pinned /\ data[b] # disk[blockno[b]] =>
           \E p \in Proc : pc[p] = "dirty" /\ mine[p] = b

IInv == TypeOK /\ RefcntExact /\ OneBufferPerBlock /\ MineInv /\ LockInv /\ DataInv
=============================================================================
