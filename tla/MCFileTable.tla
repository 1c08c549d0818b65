---------------------------- MODULE MCFileTable -----------------------------
(* The instance of FileTable that TLC checks. *)
EXTENDS FileTable
CONSTANTS p1, p2
=============================================================================
