------------------------------- MODULE LogInv -------------------------------
(***************************************************************************)
(* The inductive invariant behind the properties of Log: what is true of   *)
(* the log, the cache and the disk between any two steps of any process.   *)
(***************************************************************************)
EXTENDS Log

Installing == {p \in Proc : pc[p] = "install"}

\* While InitProc recovers, it is alone; afterwards nobody is in recovery.
BootInv ==
    IF Recovering
    THEN /\ \A p \in Proc : p # InitProc => pc[p] = "down"
         /\ outstanding = 0 /\ ~committing
         /\ pin = [b \in Block |-> 0]
    ELSE \A p \in Proc : pc[p] \notin {"down", "read_head", "recover"}

\* committing and outstanding count the committer and the running operations.
CountInv ==
    /\ committing <=> Committer # {}
    /\ Committer # {} => InOp = {}
    /\ \A p, q \in Committer : p = q
    /\ outstanding = Cardinality(InOp)

\* A buffer is locked by the one operation that is changing it.
HoldInv ==
    /\ \A p \in Proc : hold[p] # NoBlock <=> pc[p] \in {"dirty", "logged"}
    /\ \A p, q \in Proc : hold[p] = hold[q] /\ hold[p] # NoBlock => p = q

\* The in-memory header lists a block once, and every block of a running
\* operation; it is empty when nothing runs.
HeaderInv ==
    /\ IsInjective(lh) /\ Len(lh) <= LOGBLOCKS
    /\ \A p \in InOp : /\ wrote[p] \subseteq Logged
                       /\ IsFiniteSet(wrote[p])
                       /\ Cardinality(wrote[p]) <= OPBLOCKS
    /\ \A p \in Proc : pc[p] = "dirty" =>
           Cardinality(wrote[p] \cup {hold[p]}) <= OPBLOCKS
    /\ \A p \in Proc : pc[p] = "logged" => hold[p] \in wrote[p]
    /\ InOp \cup Committer = {} /\ ~Recovering => lh = <<>>
    /\ \A p \in Proc : pc[p] = "finish" => lh = <<>>
    /\ \A p \in Proc : pc[p] \in {"write_log", "install", "recover"} => tail[p] <= Len(lh)

\* The log blocks the running operations may still add.
Slots == {s \in InOp \X (1..OPBLOCKS) : s[2] > Cardinality(wrote[s[1]])}
\* They fit in the log, and each operation leaves one block to spare.
SpaceInv == Len(lh) + Cardinality(Slots) + Cardinality(InOp) <= LOGBLOCKS

\* The on-disk header is the in-memory one from the commit point to the end of
\* installation, and empty otherwise.
HeadInv ==
    /\ IsInjective(head) /\ Len(head) <= LOGBLOCKS
    /\ ~Recovering => head = IF Installing # {} THEN lh ELSE <<>>
    /\ pc[InitProc] = "recover" => head = lh
    /\ pc[InitProc] = "read_head" => lh = <<>>

\* The log holds what the cache holds of the blocks already copied to it, and a
\* home block holds what the log does once it is installed.
CopyInv ==
    /\ \A p \in Proc : pc[p] = "write_log" =>
           \A i \in 1..tail[p] : logArea[i] = buf[lh[i]]
    /\ \A p \in Proc : pc[p] = "install" =>
           \A i \in 1..Len(lh) : i > tail[p] => logArea[i] = buf[lh[i]]
    /\ \A p \in Proc : pc[p] \in {"install", "recover"} =>
           \A i \in 1..tail[p] : home[lh[i]] = logArea[i]

\* A cached block differs from the disk only while it is being changed or waits
\* for installation, and a block that does so is cached.
CacheInv ==
    \A b \in Block :
        IF b \in Uninstalled \/ ~Unlocked(b)
        THEN buf[b] # NoBuf
        ELSE buf[b] \in {NoBuf, home[b]}

\* The sizes for which the log is safe: an operation logs fewer blocks than
\* begin_op() reserves for it, and an empty log has room for one reservation.
Sized == OPBLOCKS < MAXOPBLOCKS /\ MAXOPBLOCKS <= LOGBLOCKS

IInv ==
    /\ TypeOK
    /\ NoPanic
    /\ BootInv
    /\ CountInv
    /\ HoldInv
    /\ HeaderInv
    /\ SpaceInv
    /\ SleeperHasWaker
    /\ HeadInv
    /\ PinsBalanced
    /\ CopyInv
    /\ CacheInv
=============================================================================
