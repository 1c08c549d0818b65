-------------------------------- MODULE Pipe --------------------------------
(***************************************************************************)
(* kernel/pipe.c: processes that share the two ends of one pipe.           *)
(*                                                                         *)
(* pi->lock is held from the start of a call to its end, except in         *)
(* sleep(); one iteration of a loop is one step, so that a kill can fall   *)
(* anywhere.  nread and nwrite are unsigned integers that wrap around.  A  *)
(* byte of the buffer that was never written, or was read, is NoByte:      *)
(* reading it would show.                                                  *)
(* Each process holds one descriptor of one end; the last fileclose() of   *)
(* an end calls pipeclose().                                               *)
(***************************************************************************)
EXTENDS Integers, Sequences

CONSTANTS Reader, Writer,  \* the processes that hold the read and the write end
          Byte,
          PIPESIZE,        \* bytes of buffer
          UINT,            \* the counters count modulo UINT (2^32)
          MAXN,            \* the largest n of a read or write
          NoProc, NoByte

ASSUME EndsAssumption ==
    Reader \cap Writer = {} /\ NoProc \notin Reader \cup Writer /\ NoByte \notin Byte
\* PIPESIZE divides 2^32, and is smaller.
ASSUME SizeAssumption ==
    /\ PIPESIZE \in Nat \ {0} /\ MAXN \in Nat
    /\ UINT \in Nat /\ UINT > PIPESIZE /\ UINT % PIPESIZE = 0

Proc == Reader \cup Writer

VARIABLES data, nread, nwrite, readopen, writeopen,  \* struct pipe
          freed,    \* the page of the pipe is back with kfree()
          lock,     \* who holds pi->lock
          pc,       \* where a process is
          todo,     \* n - i of its call
          open,     \* it holds its descriptor
          killed    \* p->killed

pipeVars == <<data, nread, nwrite, readopen, writeopen, freed>>
vars == <<pipeVars, lock, pc, todo, open, killed>>

Labels == {"user", "write", "write_sleep", "write_asleep", "write_woken", "read", "copy",
           "read_sleep", "read_asleep", "read_woken", "close"}

\* The types of struct pipe: nread and nwrite stay unsigned integers of their width.
TypeOK ==
    /\ data \in [0..PIPESIZE - 1 -> Byte \cup {NoByte}]
    /\ nread \in 0..UINT - 1 /\ nwrite \in 0..UINT - 1
    /\ readopen \in BOOLEAN /\ writeopen \in BOOLEAN /\ freed \in BOOLEAN
    /\ lock \in Proc \cup {NoProc}
    /\ pc \in [Proc -> Labels]
    /\ todo \in [Proc -> 0..MAXN]
    /\ open \in [Proc -> BOOLEAN] /\ killed \in [Proc -> BOOLEAN]

\* pipealloc().
Init ==
    /\ data = [i \in 0..PIPESIZE - 1 |-> NoByte]
    /\ nread = 0 /\ nwrite = 0
    /\ readopen = TRUE /\ writeopen = TRUE /\ freed = FALSE
    /\ lock = NoProc
    /\ pc = [p \in Proc |-> "user"]
    /\ todo = [p \in Proc |-> 0]
    /\ open = [p \in Proc |-> TRUE]
    /\ killed = [p \in Proc |-> FALSE]

Increment(i) == (i + 1) % UINT
FullMutant == nwrite = (nread + PIPESIZE + 1) % UINT
Full == nwrite = (nread + PIPESIZE) % UINT
Empty == nread = nwrite

Goto(p, l) == pc' = [pc EXCEPT ![p] = l]

\* Where everyone is after p goes to l, having called wakeup(&pi->nread) or
\* wakeup(&pi->nwrite).
WakeReaders(p, l) ==
    [q \in Proc |-> IF q = p THEN l ELSE IF pc[q] = "read_asleep" THEN "read_woken" ELSE pc[q]]
WakeWritersMutant(p, l) == [pc EXCEPT ![p] = l]
WakeWriters(p, l) ==
    [q \in Proc |-> IF q = p THEN l ELSE IF pc[q] = "write_asleep" THEN "write_woken" ELSE pc[q]]

-----------------------------------------------------------------------------
\* read() or write() of n bytes, up to acquire(&pi->lock).
Call(p, n) ==
    /\ pc[p] = "user" /\ open[p] /\ ~killed[p]
    /\ lock = NoProc
    /\ lock' = p
    /\ todo' = [todo EXCEPT ![p] = n]
    /\ Goto(p, IF p \in Writer THEN "write" ELSE "read")
    /\ UNCHANGED <<pipeVars, open, killed>>

\* Release pi->lock and return to the user.
Return(p, pc1) ==
    /\ lock' = NoProc
    /\ pc' = pc1
    /\ todo' = [todo EXCEPT ![p] = 0]

\* One iteration of the loop of pipewrite(), or what follows the loop.
PipeWrite(p) ==
    /\ pc[p] = "write"
    /\ \/ /\ todo[p] = 0
          /\ Return(p, WakeReaders(p, "user"))
          /\ UNCHANGED <<data, nwrite>>
       \/ /\ todo[p] > 0 /\ (~readopen \/ killed[p])
          /\ Return(p, [pc EXCEPT ![p] = "user"])
          /\ UNCHANGED <<data, nwrite>>
       \/ /\ todo[p] > 0 /\ readopen /\ ~killed[p] /\ Full
          /\ pc' = WakeReaders(p, "write_sleep")
          /\ UNCHANGED <<data, nwrite, lock, todo>>
       \/ /\ todo[p] > 0 /\ readopen /\ ~killed[p] /\ ~Full
          /\ \/ \E b \in Byte :
                  /\ data' = [data EXCEPT ![nwrite % PIPESIZE] = b]
                  /\ nwrite' = Increment(nwrite)
                  /\ todo' = [todo EXCEPT ![p] = @ - 1]
                  /\ UNCHANGED <<lock, pc>>
             \/ Return(p, WakeReaders(p, "user")) /\ UNCHANGED <<data, nwrite>>  \* copyin() fails
    /\ UNCHANGED <<nread, readopen, writeopen, freed, open, killed>>

\* The first loop of piperead(): wait for bytes or for the end of the stream.
PipeRead(p) ==
    /\ pc[p] = "read"
    /\ \/ Empty /\ writeopen /\ killed[p] /\ Return(p, [pc EXCEPT ![p] = "user"])
       \/ Empty /\ writeopen /\ ~killed[p] /\ Goto(p, "read_sleep") /\ UNCHANGED <<lock, todo>>
       \/ ~(Empty /\ writeopen) /\ Goto(p, "copy") /\ UNCHANGED <<lock, todo>>
    /\ UNCHANGED <<pipeVars, open, killed>>

\* One iteration of the copy loop of piperead(), or what follows the loop.  The
\* byte is gone even if copyout() fails.
PipeCopy(p) ==
    /\ pc[p] = "copy"
    /\ IF todo[p] = 0 \/ Empty
       THEN Return(p, WakeWriters(p, "user")) /\ UNCHANGED <<data, nread>>
       ELSE /\ nread' = Increment(nread)
            /\ data' = [data EXCEPT ![nread % PIPESIZE] = NoByte]
            /\ \/ todo' = [todo EXCEPT ![p] = @ - 1] /\ UNCHANGED <<lock, pc>>
               \/ Return(p, WakeWriters(p, "user"))  \* copyout() fails
    /\ UNCHANGED <<nwrite, readopen, writeopen, freed, open, killed>>

\* sleep(&pi->nread or &pi->nwrite, &pi->lock): releases the lock, asleep.
Sleep(p) ==
    /\ \/ pc[p] = "write_sleep" /\ Goto(p, "write_asleep")
       \/ pc[p] = "read_sleep" /\ Goto(p, "read_asleep")
    /\ lock' = NoProc
    /\ UNCHANGED <<pipeVars, todo, open, killed>>

\* The end of sleep(): take the lock again.
Relock(p) ==
    /\ lock = NoProc
    /\ \/ pc[p] = "write_woken" /\ Goto(p, "write")
       \/ pc[p] = "read_woken" /\ Goto(p, "read")
    /\ lock' = p
    /\ UNCHANGED <<pipeVars, todo, open, killed>>

-----------------------------------------------------------------------------
\* fileclose(): the last descriptor of an end goes on to pipeclose().
FileClose(p) ==
    LET end == IF p \in Writer THEN Writer ELSE Reader IN
    /\ pc[p] = "user" /\ open[p]
    /\ open' = [open EXCEPT ![p] = FALSE]
    /\ Goto(p, IF \E q \in end \ {p} : open[q] THEN "user" ELSE "close")
    /\ UNCHANGED <<pipeVars, lock, todo, killed>>

\* pipeclose(), one critical section; the page is freed with the second end.
BothClosedMutant == ~writeopen'
BothClosed == ~readopen' /\ ~writeopen'
PipeClose(p) ==
    /\ pc[p] = "close"
    /\ lock = NoProc
    /\ IF p \in Writer
       THEN writeopen' = FALSE /\ UNCHANGED readopen /\ pc' = WakeReaders(p, "user")
       ELSE readopen' = FALSE /\ UNCHANGED writeopen /\ pc' = WakeWriters(p, "user")
    /\ freed' = BothClosed
    /\ UNCHANGED <<data, nread, nwrite, lock, todo, open, killed>>

\* kkill(): wakes the victim from sleep.
Kill(p) ==
    /\ ~killed[p]
    /\ killed' = [killed EXCEPT ![p] = TRUE]
    /\ Goto(p, CASE pc[p] = "write_asleep" -> "write_woken"
                 [] pc[p] = "read_asleep" -> "read_woken"
                 [] OTHER -> pc[p])
    /\ UNCHANGED <<pipeVars, lock, todo, open>>

KernelStep(p) ==
    PipeWrite(p) \/ PipeRead(p) \/ PipeCopy(p) \/ Sleep(p) \/ Relock(p) \/ PipeClose(p)

Next ==
    \E p \in Proc :
        \/ KernelStep(p)
        \/ \E n \in 0..MAXN : Call(p, n)
        \/ FileClose(p)
        \/ Kill(p)

Spec == Init /\ [][Next]_vars

\* A process inside the kernel goes on, and gets a spin lock that is free again
\* and again.
LiveSpec == Spec /\ \A p \in Proc : SF_vars(KernelStep(p))

-----------------------------------------------------------------------------
\* The bytes between the two counters, oldest first.
Queue == [k \in 1..(nwrite - nread) % UINT |-> data[(nread + k - 1) % PIPESIZE]]

FF == INSTANCE Fifo WITH queue <- Queue, Capacity <- PIPESIZE

\* The pipe is a bounded queue: no byte is overtaken, overwritten, read twice or
\* made up, across buffer and counter wraparound, partial calls and kills, and
\* nothing enters or leaves after the end concerned is closed.
PipeIsFifo == FF!Spec

\* No wakeup is lost: whoever is asleep still has the reason to sleep, or the
\* process that took it away holds pi->lock and has yet to call wakeup().  The one
\* exception: a writer killed in the middle of its bytes wakes nobody, so nothing is
\* said of sleeping readers once a writer is killed and the write end is still open.
NoLostWakeup ==
    /\ (\E p \in Reader : pc[p] = "read_asleep") =>
          (Empty /\ writeopen) \/ lock \in Writer \/ (writeopen /\ \E w \in Writer : killed[w])
    /\ (\E p \in Writer : pc[p] = "write_asleep") => (Full /\ readopen) \/ lock \in Reader

\* A reader sleeps in piperead() only on an empty pipe: when nobody is inside the
\* pipe, bytes in it and a sleeping reader exclude each other.  No run checks it: a
\* writer that is killed after it stored bytes returns without a wakeup().
ReaderSleepsOnEmpty == lock = NoProc /\ (\E p \in Reader : pc[p] = "read_asleep") => Empty

\* pipeclose() frees the page only when nobody is inside, or can come back to, a
\* call on the pipe.
FreedUnused ==
    freed => \A p \in Proc : pc[p] = "user" /\ ~open[p]

\* A reader inside piperead() returns once the last writer has closed, and a writer
\* inside pipewrite() once the last reader has.
PeerCloseUnblocks ==
    /\ \A p \in Reader : pc[p] # "user" /\ ~writeopen ~> pc[p] = "user"
    /\ \A p \in Writer : pc[p] # "user" /\ ~readopen ~> pc[p] = "user"
=============================================================================
