-------------------------------- MODULE MCVm --------------------------------
(* The instance of Vm that TLC checks. *)
EXTENDS Vm

CONSTANTS p1, p2

Text == [load |-> TRUE, vaddr |-> 0, memsz |-> 3, filesz |-> 3, w |-> FALSE,
         byte |-> 2, read |-> "ok"]
Data == [load |-> TRUE, vaddr |-> 4, memsz |-> 3, filesz |-> 1, w |-> TRUE,
         byte |-> 3, read |-> "ok"]
Note == [Data EXCEPT !.load = FALSE, !.vaddr = 1]
Program(seg) == [hdr |-> TRUE, seg |-> seg]

Call(prog, argv, uargv) == [prog |-> prog, argv |-> argv, uargv |-> uargv]

MCInitExec == Call(Program(<<Text>>), <<2>>, 0)

MCExecs == {
    Call(Program(<<Text, Note, Data>>), <<2>>, 18),
    Call(Program(<<Text, Data>>), <<3>>, 0),
    Call(Program(<<Text>>), <<>>, 95),
    Call(Program(<<Text>>), <<0>>, 0),
    Call(Program(<<Text>>), <<1, 1, 1>>, 0),
    Call(Program(<<Text, [Data EXCEPT !.read = "short"]>>), <<>>, 0),
    Call(Program(<<Text, [Data EXCEPT !.read = "none"]>>), <<>>, 0),
    Call(Program(<<[Text EXCEPT !.memsz = 2]>>), <<>>, 0),
    Call(Program(<<[Text EXCEPT !.vaddr = 1]>>), <<>>, 0),
    Call(Program(<<Text, [Data EXCEPT !.vaddr = 124, !.memsz = 10]>>), <<>>, 0),
    Call(Program(<<[Text EXCEPT !.memsz = 20]>>), <<>>, 0),
    Call([hdr |-> FALSE, seg |-> <<>>], <<>>, 0)}

MCIncrements == [lazy |-> {42}, eager |-> {6, -42}]

MCCalls ==
    p1 :> {"fork", "exec", "lazy", "store", "wait"} @@
    p2 :> {"eager", "lazy", "store", "copy", "exit"}

(* Two states that differ only in which physical pages play which part     *)
(* have the same future up to the same renaming of pages, so TLC explores  *)
(* one of them.  A state in which a page has two uses or none is kept      *)
(* apart from those in which every page has one.                           *)
UpToPageNames ==
    <<state, sz, panic, past, PagesOwnedOnce,
      [p \in Proc |-> <<DOMAIN pagetable[p].node, trapframe[p] # NULL,
                       [v \in DOMAIN pagetable[p].leaf |->
                          [pagetable[p].leaf[v] EXCEPT !.pa =
                             IF @ \in Page THEN mem[@] ELSE Zero]]>>]>>
=============================================================================
