------------------------------- MODULE MCLog -------------------------------
(***************************************************************************)
(* Instances of Log for TLC.  Live is the state without what is overwritten *)
(* before it is read again: the block count of an operation that is over,  *)
(* the index of a loop that is over, and the log blocks that no header, on *)
(* disk or about to be written, covers.                                    *)
(***************************************************************************)
EXTENDS LogInv, TLC

LiveWrote == [p \in Proc |-> IF p \in InOp THEN wrote[p] ELSE {}]
LiveTail == [p \in Proc |-> IF pc[p] \in {"write_log", "install", "recover"} THEN tail[p] ELSE 0]
LiveLog ==
    {<<i, logArea[i]>> : i \in {j \in 1..LOGBLOCKS :
        \/ j <= Len(head)
        \/ \E p \in Proc : pc[p] = "write_log" /\ j <= tail[p]}}
Live == <<home, LiveLog, head, logState, bufState, pc, hold, LiveWrote, LiveTail>>

Symmetry == Permutations(Block) \cup Permutations(Data)
=============================================================================
