------------------------------ MODULE PipeInv ------------------------------
(***************************************************************************)
(* The inductive invariant of the pipe.  It says who holds pi->lock, when  *)
(* an end may be closed, and what a sleeper is owed by whoever is inside.  *)
(***************************************************************************)
EXTENDS Pipe

\* The labels at which a process holds pi->lock.
Locked == {"write", "write_sleep", "read", "copy", "read_sleep"}

LockInv ==
    /\ \A p \in Proc : pc[p] \in Locked <=> lock = p
    /\ \A p \in Reader : pc[p] \notin {"write", "write_sleep", "write_asleep", "write_woken"}
    /\ \A p \in Writer : pc[p] \notin {"read", "copy", "read_sleep", "read_asleep", "read_woken"}

\* The processes end and the flag of one end: whoever is in a call has the end open,
\* one process goes on to pipeclose() after all have closed, and it does so once.
EndInv(end, flag) ==
    /\ \A p \in end : pc[p] \notin {"user", "close"} => open[p]
    /\ \A p, q \in end : pc[p] = "close" => ~open[q] /\ (pc[q] = "close" => q = p)
    /\ ~flag => \A p \in end : ~open[p] /\ pc[p] # "close"

\* A process about to sleep has the reason to, and one asleep still has it or will be
\* woken by the process inside the pipe.
SleepInv ==
    /\ \A p \in Proc : pc[p] = "read_sleep" => Empty /\ writeopen
    /\ \A p \in Proc : pc[p] = "write_sleep" =>
           Full /\ readopen /\ \A q \in Proc : pc[q] # "read_asleep"
    /\ \A p \in Proc : pc[p] = "read_asleep" =>
           \/ Empty /\ writeopen
           \/ \E w \in Writer : pc[w] = "write"
           \/ writeopen /\ \E w \in Writer : killed[w]
    /\ \A p \in Proc : pc[p] = "write_asleep" =>
           (Full /\ readopen) \/ \E r \in Reader : pc[r] = "copy"

\* The number of bytes in the pipe.
Bytes == (nwrite - nread) % UINT

IInv ==
    /\ TypeOK
    /\ LockInv
    /\ EndInv(Reader, readopen) /\ EndInv(Writer, writeopen)
    /\ freed = (~readopen /\ ~writeopen)
    /\ SleepInv
    /\ Bytes <= PIPESIZE
=============================================================================
