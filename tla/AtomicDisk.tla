----------------------------- MODULE AtomicDisk -----------------------------
(***************************************************************************)
(* What the logging layer promises its callers: a disk on which the writes *)
(* of file system operations become durable in all-or-nothing groups, and  *)
(* only when no operation is half done.  A crash loses every write that is *)
(* not yet durable and nothing else.                                       *)
(***************************************************************************)
CONSTANTS Proc,   \* the processes that run file system operations
          Block,  \* the home blocks of the file system
          Data    \* what a block can hold

VARIABLES stable, \* the contents a crash leaves behind
          view,   \* the contents that reads return
          active  \* the processes inside an operation

vars == <<stable, view, active>>

\* What reads see and what a crash leaves are contents of every block.
TypeOK ==
    /\ stable \in [Block -> Data]
    /\ view \in [Block -> Data]
    /\ active \subseteq Proc

Init ==
    /\ stable \in [Block -> Data]
    /\ view = stable
    /\ active = {}

Begin(p) ==
    /\ p \notin active
    /\ active' = active \cup {p}
    /\ UNCHANGED <<stable, view>>

Write(p, b, d) ==
    /\ p \in active
    /\ view' = [view EXCEPT ![b] = d]
    /\ UNCHANGED <<stable, active>>

End(p) ==
    /\ p \in active
    /\ active' = active \ {p}
    /\ UNCHANGED <<stable, view>>

\* Everything written so far becomes durable at once, between operations.
Commit ==
    /\ active = {}
    /\ stable' = view
    /\ UNCHANGED <<view, active>>

Crash ==
    /\ view' = stable
    /\ active' = {}
    /\ UNCHANGED stable

Next ==
    \/ \E p \in Proc : Begin(p) \/ End(p)
    \/ \E p \in Proc, b \in Block, d \in Data : Write(p, b, d)
    \/ Commit
    \/ Crash

Spec == Init /\ [][Next]_vars
=============================================================================
