----------------------------- MODULE VirtioDisk -----------------------------
(***************************************************************************)
(* kernel/virtio_disk.c: the driver's descriptors and rings, its interrupt *)
(* handler, and the device at the other end of the rings.                  *)
(*                                                                         *)
(* A caller holds the sleep lock of the buffer it passes, so a buffer has  *)
(* at most one request and stands for its caller.  vdisk_lock is held      *)
(* across every step of the driver except while it sleeps; the interrupt   *)
(* handler races with the device, so its loop is one step per completion.  *)
(* Ring indices are 16-bit counters that wrap around.  A ring entry that   *)
(* its reader consumed becomes Stale: reading it twice would show.         *)
(***************************************************************************)
EXTENDS Integers, Sequences, FiniteSets

CONSTANTS Buf,     \* buffers with a caller
          Data,
          NUM,     \* descriptors, and entries of each ring
          UINT16,  \* the ring indices count modulo UINT16 (2^16)
          NoBuf, NoProc, Intr   \* a null pointer, nobody, the interrupt handler

ASSUME NullAssumption == NoBuf \notin Buf /\ Intr # NoProc
ASSUME RingAssumption == NUM \in Nat /\ NUM >= 3 /\ UINT16 \in Nat \ {0} /\ UINT16 % NUM = 0

Desc == 0..NUM - 1

VARIABLES
    contents,            \* the disk block that each buffer caches
    bdata, bdisk,        \* b->data and b->disk
    write,               \* the caller's argument
    free, desc, ops,     \* disk.free as a set, the descriptors, the request headers
    infoB, infoStatus,   \* disk.info[].b and .status
    avail, availIdx,     \* the ring to the device
    used, usedIdx,       \* the ring from the device, usedIdx its own index
    seenIdx,             \* disk.used_idx, how far the driver has looked
    irq,                 \* the device's interrupt is pending
    devIdx, taken,       \* the device: how far it has read avail, heads it works on
    lock,                \* who is inside vdisk_lock (only the handler stays)
    pc, head,            \* where a caller is, and its idx[0]
    panicked

ioVars == <<contents, bdata, write>>
ringVars == <<avail, availIdx, used, usedIdx>>
descVars == <<free, desc, ops>>
devVars == <<devIdx, taken>>
vars == <<ioVars, bdisk, descVars, infoB, infoStatus, ringVars, seenIdx, irq, devVars, lock,
          pc, head, panicked>>

Stale == NUM
Clear == [addr |-> NoBuf, next |-> 0, more |-> FALSE]
Labels == {"idle", "alloc", "free_asleep", "disk_asleep", "disk_woken"}

\* The types of the rings and of the descriptors: next links only descriptors.
TypeOK ==
    /\ contents \in [Buf -> Data] /\ bdata \in [Buf -> Data]
    /\ bdisk \in [Buf -> BOOLEAN] /\ write \in [Buf -> BOOLEAN]
    /\ free \subseteq Desc
    /\ desc \in [Desc -> [addr : Buf \cup {NoBuf}, next : Desc, more : BOOLEAN]]
    /\ ops \in [Desc -> BOOLEAN]
    /\ infoB \in [Desc -> Buf \cup {NoBuf}] /\ infoStatus \in [Desc -> {0, 255}]
    /\ avail \in [Desc -> 0..Stale] /\ used \in [Desc -> 0..Stale]
    /\ {availIdx, usedIdx, seenIdx, devIdx} \subseteq 0..UINT16 - 1
    /\ irq \in BOOLEAN /\ taken \subseteq Desc
    /\ lock \in {NoProc, Intr}
    /\ pc \in [Buf -> Labels] /\ head \in [Buf -> Desc]
    /\ panicked \in BOOLEAN

\* After virtio_disk_init().
Init ==
    /\ contents \in [Buf -> Data] /\ bdata \in [Buf -> Data]
    /\ bdisk = [b \in Buf |-> FALSE] /\ write = [b \in Buf |-> FALSE]
    /\ free = Desc
    /\ desc = [i \in Desc |-> Clear] /\ ops = [i \in Desc |-> FALSE]
    /\ infoB = [i \in Desc |-> NoBuf] /\ infoStatus = [i \in Desc |-> 0]
    /\ avail = [i \in Desc |-> Stale] /\ used = [i \in Desc |-> Stale]
    /\ availIdx = 0 /\ usedIdx = 0 /\ seenIdx = 0 /\ devIdx = 0
    /\ irq = FALSE /\ taken = {} /\ lock = NoProc
    /\ pc = [b \in Buf |-> "idle"] /\ head = [b \in Buf |-> 0]
    /\ panicked = FALSE

Increment(i) == (i + 1) % UINT16

\* Where everyone is after b goes to l, having called wakeup(&disk.free[0]).
WakeFreeMutant(b, l) == [pc EXCEPT ![b] = l]
WakeFree(b, l) ==
    [c \in Buf |-> IF c = b THEN l ELSE IF pc[c] = "free_asleep" THEN "alloc" ELSE pc[c]]

-----------------------------------------------------------------------------
\* bread() or bwrite() calls virtio_disk_rw(), before it has vdisk_lock.
Call(b, w, d) ==
    /\ pc[b] = "idle"
    /\ pc' = [pc EXCEPT ![b] = "alloc"]
    /\ write' = [write EXCEPT ![b] = w]
    /\ bdata' = [bdata EXCEPT ![b] = d]
    /\ UNCHANGED <<contents, bdisk, descVars, infoB, infoStatus, ringVars, seenIdx, irq, devVars,
                   lock, head, panicked>>

\* alloc3_desc(): the three lowest free descriptors.
Lowest(S) == CHOOSE i \in S : \A j \in S : i <= j
Alloc3 ==
    LET i == Lowest(free)
        j == Lowest(free \ {i}) IN
    <<i, j, Lowest(free \ {i, j})>>

\* alloc3_desc() fails: it frees what it got, which calls wakeup(), and b sleeps.
AllocFail(b) ==
    /\ Cardinality(free) < 3
    /\ pc' = IF free = {} THEN [pc EXCEPT ![b] = "free_asleep"] ELSE WakeFree(b, "free_asleep")
    /\ desc' = [i \in Desc |-> IF i \in free THEN Clear ELSE desc[i]]
    /\ UNCHANGED <<ioVars, bdisk, free, ops, infoB, infoStatus, ringVars, seenIdx, irq, devVars,
                   lock, head, panicked>>

\* The three descriptors of a request: its header, its data, its status.
Format(b, idx) ==
    [desc EXCEPT ![idx[1]] = [addr |-> NoBuf, next |-> idx[2], more |-> TRUE],
                 ![idx[2]] = [addr |-> b, next |-> idx[3], more |-> TRUE],
                 ![idx[3]] = [addr |-> NoBuf, next |-> 0, more |-> FALSE]]

\* The avail ring with i in its next slot.
OfferMutant(i) == [avail EXCEPT ![Increment(availIdx) % NUM] = i]
Offer(i) == [avail EXCEPT ![availIdx % NUM] = i]

\* Build the chain, offer its head to the device and sleep until b->disk is 0.
Submit(b) ==
    LET idx == Alloc3 IN
    /\ Cardinality(free) >= 3
    /\ free' = free \ {idx[1], idx[2], idx[3]}
    /\ ops' = [ops EXCEPT ![idx[1]] = write[b]]
    /\ desc' = Format(b, idx)
    /\ infoStatus' = [infoStatus EXCEPT ![idx[1]] = 255]
    /\ bdisk' = [bdisk EXCEPT ![b] = TRUE]
    /\ infoB' = [infoB EXCEPT ![idx[1]] = b]
    /\ avail' = Offer(idx[1])
    /\ availIdx' = Increment(availIdx)
    /\ head' = [head EXCEPT ![b] = idx[1]]
    /\ pc' = [pc EXCEPT ![b] = "disk_asleep"]
    /\ UNCHANGED <<ioVars, used, usedIdx, seenIdx, irq, devVars, lock, panicked>>

\* virtio_disk_rw() from acquire(&disk.vdisk_lock), or from the return of sleep()
\* on disk.free, to the next sleep().
Rw(b) ==
    /\ pc[b] = "alloc"
    /\ lock = NoProc
    /\ AllocFail(b) \/ Submit(b)

\* The descriptors free_chain(i) visits.
Chain(i) ==
    LET visit[n \in 0..NUM] ==
          IF n = 0 THEN <<i>>
          ELSE LET s == visit[n - 1]
                   last == desc[s[Len(s)]] IN
               IF last.more THEN Append(s, last.next) ELSE s
        s == visit[NUM] IN
    {s[k] : k \in DOMAIN s}

\* while(b->disk == 1) sleep(b): a caller that was woken too early sleeps again.
StillBusyMutant(b) == FALSE
StillBusy(b) == bdisk[b]
SleepAgain(b) ==
    /\ pc[b] = "disk_woken"
    /\ lock = NoProc
    /\ StillBusy(b)
    /\ pc' = [pc EXCEPT ![b] = "disk_asleep"]
    /\ UNCHANGED <<ioVars, bdisk, descVars, infoB, infoStatus, ringVars, seenIdx, irq, devVars,
                   lock, head, panicked>>

\* The end of virtio_disk_rw(): free the chain.  The request header and the
\* argument are dead.
Finish(b) ==
    /\ pc[b] = "disk_woken"
    /\ lock = NoProc
    /\ ~StillBusy(b)
    /\ infoB' = [infoB EXCEPT ![head[b]] = NoBuf]
    /\ IF Chain(head[b]) \cap free # {}
       THEN panicked' = TRUE /\ UNCHANGED <<free, desc, pc>>  \* panic("free_desc 2")
       ELSE /\ free' = free \cup Chain(head[b])
            /\ desc' = [i \in Desc |-> IF i \in Chain(head[b]) THEN Clear ELSE desc[i]]
            /\ pc' = WakeFree(b, "idle")
            /\ UNCHANGED panicked
    /\ head' = [head EXCEPT ![b] = 0]
    /\ ops' = [ops EXCEPT ![head[b]] = FALSE]
    /\ write' = [write EXCEPT ![b] = FALSE]
    /\ UNCHANGED <<contents, bdata, bdisk, infoStatus, ringVars, seenIdx, irq, devVars, lock>>

\* kkill() wakes a sleeping process whatever it sleeps on.
KillWake(b) ==
    /\ pc[b] \in {"free_asleep", "disk_asleep"}
    /\ pc' = [pc EXCEPT ![b] = IF @ = "free_asleep" THEN "alloc" ELSE "disk_woken"]
    /\ UNCHANGED <<ioVars, bdisk, descVars, infoB, infoStatus, ringVars, seenIdx, irq, devVars,
                   lock, head, panicked>>

-----------------------------------------------------------------------------
\* The device takes the next head from the avail ring.
DeviceTake ==
    /\ devIdx # availIdx
    /\ taken' = taken \cup {avail[devIdx % NUM]}
    /\ avail' = [avail EXCEPT ![devIdx % NUM] = Stale]
    /\ devIdx' = Increment(devIdx)
    /\ UNCHANGED <<ioVars, bdisk, descVars, infoB, infoStatus, availIdx, used, usedIdx, seenIdx,
                   irq, lock, pc, head, panicked>>

\* The device finishes any request it has taken: it follows the chain to the
\* buffer, moves the data, stores the status, adds the head to the used ring and
\* interrupts.
DeviceDone(h) ==
    LET b == desc[desc[h].next].addr IN
    /\ h \in taken
    /\ IF ops[h]
       THEN contents' = [contents EXCEPT ![b] = bdata[b]] /\ UNCHANGED bdata
       ELSE bdata' = [bdata EXCEPT ![b] = contents[b]] /\ UNCHANGED contents
    /\ infoStatus' = [infoStatus EXCEPT ![h] = 0]
    /\ used' = [used EXCEPT ![usedIdx % NUM] = h]
    /\ usedIdx' = Increment(usedIdx)
    /\ irq' = TRUE
    /\ taken' = taken \ {h}
    /\ UNCHANGED <<write, bdisk, descVars, infoB, avail, availIdx, seenIdx, devIdx, lock, pc, head,
                   panicked>>

-----------------------------------------------------------------------------
\* virtio_disk_intr(): take vdisk_lock and acknowledge the interrupt.
IntrStart ==
    /\ irq
    /\ lock = NoProc
    /\ lock' = Intr
    /\ irq' = FALSE
    /\ UNCHANGED <<ioVars, bdisk, descVars, infoB, infoStatus, ringVars, seenIdx, devVars, pc, head,
                   panicked>>

\* The handler goes round its loop while the device is ahead of it.
More == seenIdx # usedIdx

\* One iteration of the loop of virtio_disk_intr().
IntrStep ==
    LET id == used[seenIdx % NUM] IN
    /\ lock = Intr
    /\ More
    /\ IF id = Stale \/ infoStatus[id] # 0 \/ infoB[id] = NoBuf
       THEN panicked' = TRUE /\ UNCHANGED <<bdisk, pc, used, seenIdx>>
       ELSE /\ bdisk' = [bdisk EXCEPT ![infoB[id]] = FALSE]
            /\ pc' = [pc EXCEPT ![infoB[id]] = IF @ = "disk_asleep" THEN "disk_woken" ELSE @]
            /\ used' = [used EXCEPT ![seenIdx % NUM] = Stale]
            /\ seenIdx' = Increment(seenIdx)
            /\ UNCHANGED panicked
    /\ UNCHANGED <<ioVars, descVars, infoB, infoStatus, avail, availIdx, usedIdx, irq, devVars,
                   lock, head>>

\* The loop ends and the handler releases vdisk_lock.
IntrEnd ==
    /\ lock = Intr
    /\ ~More
    /\ lock' = NoProc
    /\ UNCHANGED <<ioVars, bdisk, descVars, infoB, infoStatus, ringVars, seenIdx, irq, devVars, pc,
                   head, panicked>>

-----------------------------------------------------------------------------
Device == DeviceTake \/ \E h \in Desc : DeviceDone(h)

Next ==
    /\ ~panicked
    /\ \/ \E b \in Buf :
            \/ \E w \in BOOLEAN, d \in Data : Call(b, w, d)
            \/ Rw(b)
            \/ SleepAgain(b)
            \/ Finish(b)
            \/ KillWake(b)
       \/ Device
       \/ IntrStart \/ IntrStep \/ IntrEnd

Spec == Init /\ [][Next]_vars

-----------------------------------------------------------------------------

\* No wakeup is lost: a caller asleep on its buffer has a request in flight, a
\* completion the handler has not seen has an interrupt or the handler at work on
\* it, and nobody waits for descriptors while three are free.
NoLostWakeup ==
    /\ \A b \in Buf : pc[b] = "disk_asleep" => bdisk[b]
    /\ seenIdx # usedIdx => irq \/ lock = Intr
    /\ (\E b \in Buf : pc[b] = "free_asleep") => Cardinality(free) < 3

\* The heads in the ring slots from index i up to index j.
Slots(ring, i, j) == {ring[(i + k) % NUM] : k \in 0..((j - i) % UINT16) - 1}

\* Every request that virtio_disk_rw() waits for is at exactly one stage of its
\* way: offered in the avail ring, with the device, or in the used ring where the
\* handler will still find it.  With NoLostWakeup this is what makes the call
\* return: no request is dropped, and none is answered twice.
RequestNotLost ==
    LET offered == Slots(avail, devIdx, availIdx)
        answered == Slots(used, seenIdx, usedIdx) IN
    \A b \in Buf : bdisk[b] =>
        /\ head[b] \in offered \cup taken \cup answered
        /\ head[b] \notin (offered \cap taken) \cup (offered \cap answered) \cup (taken \cap answered)

\* A request counts as performed once the device has moved its data.
Submitted(b) == pc[b] \in {"disk_asleep", "disk_woken"}
Stage(b) ==
    CASE pc[b] = "idle" -> "idle"
      [] Submitted(b) /\ infoStatus[head[b]] = 0 -> "done"
      [] OTHER -> "pending"

SD == INSTANCE SyncDisk WITH stage <- [b \in Buf |-> Stage(b)]

\* virtio_disk_rw() is a synchronous disk: each request is performed exactly once,
\* on its own buffer and block, before the call returns, in whatever order the
\* device completes them and however interrupts and completions overlap.
DiskIsSynchronous == SD!Spec
=============================================================================
