-------------------------------- MODULE Fifo --------------------------------
(***************************************************************************)
(* What a pipe promises: a bounded queue of bytes between two ends.        *)
(***************************************************************************)
EXTENDS Naturals, Sequences

CONSTANTS Byte, Capacity

VARIABLES queue, readopen, writeopen

vars == <<queue, readopen, writeopen>>

Init == queue = <<>> /\ readopen = TRUE /\ writeopen = TRUE

\* A byte enters at the tail while both ends are open.
Put(b) ==
    /\ readopen /\ writeopen
    /\ Len(queue) < Capacity
    /\ queue' = Append(queue, b)
    /\ UNCHANGED <<readopen, writeopen>>

\* The byte at the head leaves while the read end is open.
Get ==
    /\ readopen
    /\ queue # <<>>
    /\ queue' = Tail(queue)
    /\ UNCHANGED <<readopen, writeopen>>

\* An end is closed once, for good.
CloseRead == readopen /\ readopen' = FALSE /\ UNCHANGED <<queue, writeopen>>
CloseWrite == writeopen /\ writeopen' = FALSE /\ UNCHANGED <<queue, readopen>>

Next == (\E b \in Byte : Put(b)) \/ Get \/ CloseRead \/ CloseWrite

Spec == Init /\ [][Next]_vars
=============================================================================
