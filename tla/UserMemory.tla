----------------------------- MODULE UserMemory -----------------------------
(***************************************************************************)
(* What the virtual-memory code of the kernel promises to user programs:   *)
(* every process has a private, flat memory, a sequence of pages.  There   *)
(* are no page tables, no physical pages, no lazy allocation and no free   *)
(* list here.  A page is a record of its bytes and of what user code may   *)
(* do with it.  An operation that runs out of memory changes nothing.      *)
(***************************************************************************)
EXTENDS Integers, Sequences, SequencesExt

CONSTANTS
    Proc,      \* the process slots
    PGSIZE,    \* bytes in a page
    Images     \* the sequences of pages exec() can load

VARIABLES
    alive,     \* the processes that exist
    memory     \* memory[p]: the pages of p

vars == <<alive, memory>>

ZeroPage == [data |-> [i \in 0 .. PGSIZE - 1 |-> 0], u |-> TRUE, w |-> TRUE]

Init ==
    /\ \E p \in Proc : alive = {p}
    /\ memory = [p \in Proc |-> <<>>]

\* fork(): the child starts with a copy of the parent's memory.
Fork(p, c) ==
    /\ p \in alive /\ c \notin alive
    /\ alive' = alive \cup {c}
    /\ memory' = [memory EXCEPT ![c] = memory[p]]

\* sbrk(): whole pages of zeros are added at the end, or pages are removed.
Grow(p) ==
    LET n == Len(memory'[p]) - Len(memory[p])
    IN  /\ p \in alive /\ UNCHANGED alive
        /\ n > 0
        /\ memory' = [memory EXCEPT ![p] = @ \o [i \in 1 .. n |-> ZeroPage]]

Shrink(p) ==
    /\ p \in alive /\ UNCHANGED alive
    /\ Len(memory'[p]) < Len(memory[p])
    /\ memory' = [memory EXCEPT ![p] = SubSeq(@, 1, Len(memory'[p]))]

\* A store by user code, or the bytes a system call copies out: only the
\* bytes of writable user pages change, and only those of p.
Write(p) ==
    /\ p \in alive /\ UNCHANGED alive
    /\ Len(memory'[p]) = Len(memory[p])
    /\ \A i \in 1 .. Len(memory[p]) :
          /\ memory'[p][i].u = memory[p][i].u
          /\ memory'[p][i].w = memory[p][i].w
          /\ memory'[p][i] # memory[p][i] => memory[p][i].u /\ memory[p][i].w
    /\ \A q \in Proc \ {p} : memory'[q] = memory[q]

\* exec(): the whole memory is replaced by a program's image.
Exec(p) ==
    /\ p \in alive /\ UNCHANGED alive
    /\ \E image \in Images : memory' = [memory EXCEPT ![p] = image]

\* wait() reaps a process.
Reap(p) ==
    /\ p \in alive
    /\ alive' = alive \ {p}
    /\ memory' = [memory EXCEPT ![p] = <<>>]

Next ==
    \E p \in Proc :
        \/ \E c \in Proc : Fork(p, c)
        \/ Grow(p)
        \/ Shrink(p)
        \/ Write(p)
        \/ Exec(p)
        \/ Reap(p)

Spec == Init /\ [][Next]_vars
=============================================================================
