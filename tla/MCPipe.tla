------------------------------- MODULE MCPipe -------------------------------
(***************************************************************************)
(* Small instances of Pipe.                                                *)
(***************************************************************************)
EXTENDS PipeInv, TLC

\* Processes of one end, and bytes, are interchangeable (safety only).
Symmetry == Permutations(Reader) \cup Permutations(Writer) \cup Permutations(Byte)
=============================================================================
