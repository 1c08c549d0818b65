----------------------------- MODULE BlockCells -----------------------------
(***************************************************************************)
(* What the buffer cache promises: each disk block is one cell, a process  *)
(* that has bread() it has it to itself until brelse(), and only such a    *)
(* process changes it.                                                     *)
(***************************************************************************)
CONSTANTS Proc, Block, Data, NoProc

VARIABLES contents, \* what a reader of each block sees
          holder    \* the process that has the block, or NoProc

vars == <<contents, holder>>

Init ==
    /\ contents \in [Block -> Data]
    /\ holder = [b \in Block |-> NoProc]

Acquire(p, b) ==
    /\ holder[b] = NoProc
    /\ holder' = [holder EXCEPT ![b] = p]
    /\ UNCHANGED contents

Change(p, b, d) ==
    /\ holder[b] = p
    /\ contents' = [contents EXCEPT ![b] = d]
    /\ UNCHANGED holder

Release(p, b) ==
    /\ holder[b] = p
    /\ holder' = [holder EXCEPT ![b] = NoProc]
    /\ UNCHANGED contents

Next ==
    \E p \in Proc, b \in Block :
        \/ Acquire(p, b)
        \/ Release(p, b)
        \/ \E d \in Data : Change(p, b, d)

Spec == Init /\ [][Next]_vars
=============================================================================
