----------------------------- MODULE MCConsole ------------------------------
(* The instance of Console that TLC checks: four workloads, each with few   *)
(* actors, instead of one with all of them.                                 *)
EXTENDS Console
CONSTANTS r1, r2, w1, w2

Editing == {"a", "cr", "eof", "kill", "bs"}

MCWorkloads == {
    [readers |-> {r1}, writers |-> {}, keys |-> Editing, typed |-> 4, print |-> 0],
    [readers |-> {r1, r2}, writers |-> {}, keys |-> {"a", "eof"}, typed |-> 3, print |-> 0],
    [readers |-> {}, writers |-> {w1}, keys |-> {"a", "dump", "nul"}, typed |-> 1, print |-> 2],
    [readers |-> {}, writers |-> {w1, w2}, keys |-> {"a"}, typed |-> 1, print |-> 1]}
=============================================================================
