----------------------------- MODULE MCFileData -----------------------------
(* The instance of FileData that TLC checks: a write of several chunks, a   *)
(* short write to another file and a reader, on a disk that fills up.       *)
EXTENDS FileData
CONSTANTS f1, f2
MCIP == [g \in File |-> IF g = f1 THEN 2 ELSE 3]
MCWrites == {<<1, f1, 5>>, <<2, f2, 2>>}
MCReads == {<<2, f1, 1>>}
MCAppends == <<<<1, 1>>, <<2, 1>>>>
=============================================================================
