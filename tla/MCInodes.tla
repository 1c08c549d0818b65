------------------------------ MODULE MCInodes ------------------------------
(* The instance of Inodes that TLC checks: one process builds and removes a  *)
(* small tree while another removes and enters the same directories.        *)
EXTENDS Inodes, TLC
CONSTANTS p1, p2
MCCalls ==
    p1 :> {[op |-> "mkdir", path |-> <<"/", "a">>],
           [op |-> "creat", path |-> <<"/", "a", "b">>],
           [op |-> "link", path |-> <<"/", "a", "b">>, new |-> <<"/", "b">>],
           [op |-> "unlink", path |-> <<"/", "a">>],
           [op |-> "open", path |-> <<"/", "a", "b">>]} @@
    p2 :> {[op |-> "unlink", path |-> <<"/", "a">>],
           [op |-> "unlink", path |-> <<"b">>],
           [op |-> "mknod", path |-> <<"b">>],
           [op |-> "chdir", path |-> <<"/", "a">>]}
=============================================================================
