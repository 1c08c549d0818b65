------------------------------ MODULE SyncDisk ------------------------------
(***************************************************************************)
(* What virtio_disk_rw() promises its callers: each request is carried out *)
(* exactly once, on the caller's buffer, between the call and the return.  *)
(***************************************************************************)
CONSTANTS Buf, Data

VARIABLES contents,  \* the disk block that a buffer caches
          bdata,     \* b->data
          stage,     \* "idle", "pending" or "done"
          write      \* the direction of the request

vars == <<contents, bdata, stage, write>>

Init ==
    /\ contents \in [Buf -> Data] /\ bdata \in [Buf -> Data]
    /\ stage = [b \in Buf |-> "idle"]
    /\ write = [b \in Buf |-> FALSE]

Call(b, w, d) ==
    /\ stage[b] = "idle"
    /\ stage' = [stage EXCEPT ![b] = "pending"]
    /\ write' = [write EXCEPT ![b] = w]
    /\ bdata' = [bdata EXCEPT ![b] = d]
    /\ UNCHANGED contents

Perform(b) ==
    /\ stage[b] = "pending"
    /\ stage' = [stage EXCEPT ![b] = "done"]
    /\ IF write[b]
       THEN contents' = [contents EXCEPT ![b] = bdata[b]] /\ UNCHANGED bdata
       ELSE bdata' = [bdata EXCEPT ![b] = contents[b]] /\ UNCHANGED contents
    /\ UNCHANGED write

Return(b) ==
    /\ stage[b] = "done"
    /\ stage' = [stage EXCEPT ![b] = "idle"]
    /\ write' = [write EXCEPT ![b] = FALSE]
    /\ UNCHANGED <<contents, bdata>>

Next ==
    \E b \in Buf :
        \/ \E w \in BOOLEAN, d \in Data : Call(b, w, d)
        \/ Perform(b)
        \/ Return(b)

Spec == Init /\ [][Next]_vars
=============================================================================
