----------------------------- MODULE FileTable ------------------------------
(***************************************************************************)
(* Open files: the file table of kernel/file.c, the descriptors of         *)
(* kernel/sysfile.c, pipealloc(), and what fork and exit do with files.    *)
(*                                                                         *)
(* A section under ftable.lock is a step.  Between two of them a process   *)
(* holds files in its locals: those it has just allocated, those it has    *)
(* still to close, and the copy of the file whose last reference it has    *)
(* dropped.  An inode is the number of references files have to it; a pipe *)
(* is its page and its two ends.  How they are used is in Inodes, FileData *)
(* and Pipe.                                                               *)
(***************************************************************************)
EXTENDS Integers, Sequences, FiniteSets, SequencesExt, FiniteSetsExt

CONSTANTS NFILE, NOFILE,  \* entries of the file table, descriptors of a process
          Proc, First,    \* processes, and the one that is there at first
          Pipe            \* pages that can become pipes

ASSUME FileTableAssumption ==
    NFILE \in Nat \ {0} /\ NOFILE \in Nat \ {0} /\ First \in Proc /\ Pipe \subseteq Nat \ {0}

File == 1..NFILE
Fd == 0..NOFILE - 1
None == [type |-> "FD_NONE", obj |-> 0, writable |-> FALSE]

VARIABLES
    ref, struct,   \* of every file: f->ref, and its type, object and writable
    ofile, alive,  \* of every process: p->ofile, 0 is a null pointer
    pipe,          \* the open ends of every pipe, {} when its page is free
    iref,          \* references to the inode, from files and from calls
    pc,            \* "user", or where a process is in a system call
    local,         \* files it has allocated
    todo,          \* files it has to fileclose()
    ff             \* fileclose(): the copy of the file, None outside

tableVars == <<ref, struct>>
vars == <<tableVars, ofile, alive, pipe, iref, pc, local, todo, ff>>

Structs == [type : {"FD_NONE", "FD_PIPE", "FD_INODE"}, obj : Pipe \cup {0}, writable : BOOLEAN]
Labels == {"user", "open", "pipe1", "pipe2", "closing", "open_bad", "exit"}
\* The types of ftable and of the descriptor tables: filealloc() and fdalloc() hand
\* out entries of their tables only.
TypeOK ==
    /\ ref \in [File -> Nat] /\ struct \in [File -> Structs]
    /\ ofile \in [Proc -> [Fd -> File \cup {0}]] /\ alive \subseteq Proc
    /\ pipe \in [Pipe -> SUBSET BOOLEAN] /\ iref \in Nat
    /\ pc \in [Proc -> Labels] /\ ff \in [Proc -> Structs]
    /\ \A p \in Proc : local[p] \in Seq(File) /\ todo[p] \in Seq(File)

\* init has opened the console, on one descriptor.
Init ==
    /\ ref = [g \in File |-> IF g = 1 THEN 1 ELSE 0]
    /\ struct = [g \in File |-> IF g = 1 THEN [None EXCEPT !.type = "FD_INODE"] ELSE None]
    /\ ofile = [p \in Proc |-> [d \in Fd |-> IF p = First /\ d = 0 THEN 1 ELSE 0]]
    /\ alive = {First}
    /\ pipe = [q \in Pipe |-> {}]
    /\ iref = 1
    /\ pc = [p \in Proc |-> "user"]
    /\ local = [p \in Proc |-> <<>>] /\ todo = [p \in Proc |-> <<>>]
    /\ ff = [p \in Proc |-> None]

-----------------------------------------------------------------------------
\* filealloc() and fdalloc() take the first free entry.
FreeFiles == {g \in File : ref[g] = 0}
FreeFds(p) == {d \in Fd : ofile[p][d] = 0}
Goto(p, l) == pc' = [pc EXCEPT ![p] = l]

\* filealloc(), the new file kept in a local.
Filealloc(p) ==
    /\ ref' = [ref EXCEPT ![Min(FreeFiles)] = 1]
    /\ local' = [local EXCEPT ![p] = Append(@, Min(FreeFiles))]

\* Call fileclose() for all of fs, then go on at l.
CloseAll(p, fs, l) ==
    /\ todo' = [todo EXCEPT ![p] = fs]
    /\ local' = [local EXCEPT ![p] = <<>>]
    /\ Goto(p, l)

\* sys_open(): with the inode in hand, allocate a file; then a descriptor.
Open(p) ==
    /\ pc[p] = "user" /\ p \in alive
    /\ FreeFiles # {}
    /\ iref' = iref + 1
    /\ Filealloc(p)
    /\ Goto(p, "open")
    /\ UNCHANGED <<struct, ofile, alive, pipe, todo, ff>>
OpenFd(p) ==
    LET g == local[p][1] IN
    /\ pc[p] = "open"
    /\ IF FreeFds(p) = {}
       THEN CloseAll(p, local[p], "open_bad") /\ UNCHANGED <<struct, ofile>>
       ELSE /\ ofile' = [ofile EXCEPT ![p][Min(FreeFds(p))] = g]
            /\ struct' = [struct EXCEPT ![g] = [type |-> "FD_INODE", obj |-> 0, writable |-> TRUE]]
            /\ CloseAll(p, <<>>, "user")
    /\ UNCHANGED <<ref, alive, pipe, iref, ff>>
\* sys_open() after a failure: iunlockput(ip).
OpenBad(p) ==
    /\ pc[p] = "open_bad" /\ todo[p] = <<>> /\ ff[p] = None
    /\ iref' = iref - 1
    /\ Goto(p, "user")
    /\ UNCHANGED <<tableVars, ofile, alive, pipe, local, todo, ff>>

\* sys_pipe() and pipealloc(): two files, a page, two descriptors, and copyout(), any
\* of which may fail.
PipeStart(p) ==
    /\ pc[p] = "user" /\ p \in alive
    /\ FreeFiles # {}
    /\ Filealloc(p)
    /\ Goto(p, "pipe1")
    /\ UNCHANGED <<struct, ofile, alive, pipe, iref, todo, ff>>
PipeSecond(p) ==
    /\ pc[p] = "pipe1"
    /\ IF FreeFiles = {} THEN CloseAll(p, local[p], "closing") /\ UNCHANGED ref
       ELSE Filealloc(p) /\ Goto(p, "pipe2") /\ UNCHANGED todo
    /\ UNCHANGED <<struct, ofile, alive, pipe, iref, ff>>
End(q, w) == [type |-> "FD_PIPE", obj |-> q, writable |-> w]
PipeFds(p) ==
    LET rf == local[p][1]
        wf == local[p][2]
        free == {q \in Pipe : pipe[q] = {}}
        q == Min(free)
        fd0 == Min(FreeFds(p))
        fd1 == Min(FreeFds(p) \ {fd0}) IN
    /\ pc[p] = "pipe2"
    /\ IF free = {} THEN CloseAll(p, local[p], "closing") /\ UNCHANGED <<struct, pipe, ofile>>
       ELSE /\ pipe' = [pipe EXCEPT ![q] = BOOLEAN]
            /\ struct' = [struct EXCEPT ![rf] = End(q, FALSE), ![wf] = End(q, TRUE)]
            /\ \/ CloseAll(p, local[p], "closing") /\ UNCHANGED ofile
               \/ /\ Cardinality(FreeFds(p)) >= 2
                  /\ ofile' = [ofile EXCEPT ![p][fd0] = rf, ![p][fd1] = wf]
                  /\ CloseAll(p, <<>>, "user")
    /\ UNCHANGED <<ref, alive, iref, ff>>

\* sys_dup(): fdalloc() and filedup().
Filedup(g) == [ref EXCEPT ![g] = @ + 1]
Dup(p, d) ==
    LET g == ofile[p][d] IN
    /\ pc[p] = "user" /\ p \in alive
    /\ g # 0 /\ FreeFds(p) # {}
    /\ ofile' = [ofile EXCEPT ![p][Min(FreeFds(p))] = g]
    /\ ref' = Filedup(g)
    /\ UNCHANGED <<struct, alive, pipe, iref, pc, local, todo, ff>>

\* sys_close(): the descriptor goes first.
Close(p, d) ==
    /\ pc[p] = "user" /\ p \in alive
    /\ ofile[p][d] # 0
    /\ ofile' = [ofile EXCEPT ![p][d] = 0]
    /\ CloseAll(p, <<ofile[p][d]>>, "closing")
    /\ UNCHANGED <<tableVars, alive, pipe, iref, ff>>

\* fileclose(): drop a reference; of the last one keep a copy and free the entry.
LastRef(g) == ref[g] = 1
Fileclose(p) ==
    LET g == Head(todo[p]) IN
    /\ todo[p] # <<>> /\ ff[p] = None
    /\ ref' = [ref EXCEPT ![g] = @ - 1]
    /\ IF LastRef(g)
       THEN /\ ff' = [ff EXCEPT ![p] = struct[g]]
            /\ struct' = [struct EXCEPT ![g].type = "FD_NONE", ![g].obj = 0, ![g].writable = FALSE]
       ELSE UNCHANGED <<ff, struct>>
    /\ todo' = [todo EXCEPT ![p] = Tail(@)]
    /\ UNCHANGED <<ofile, alive, pipe, iref, pc, local>>
\* ... and then close what the copy refers to: pipeclose() or iput().
\* Mutant: pipeclose() is told the wrong end.
FilecloseOtherEnd(p) ==
    /\ ff[p] # None
    /\ pipe' = IF ff[p].type = "FD_PIPE" THEN [pipe EXCEPT ![ff[p].obj] = @ \ {~ff[p].writable}] ELSE pipe
    /\ iref' = IF ff[p].type = "FD_INODE" THEN iref - 1 ELSE iref
    /\ ff' = [ff EXCEPT ![p] = None]
    /\ UNCHANGED <<tableVars, ofile, alive, pc, local, todo>>
FilecloseObject(p) ==
    /\ ff[p] # None
    /\ pipe' = IF ff[p].type = "FD_PIPE" THEN [pipe EXCEPT ![ff[p].obj] = @ \ {ff[p].writable}] ELSE pipe
    /\ iref' = IF ff[p].type = "FD_INODE" THEN iref - 1 ELSE iref
    /\ ff' = [ff EXCEPT ![p] = None]
    /\ UNCHANGED <<tableVars, ofile, alive, pc, local, todo>>
Closed(p) ==
    /\ pc[p] \in {"closing", "exit"} /\ todo[p] = <<>> /\ ff[p] = None
    /\ alive' = IF pc[p] = "exit" THEN alive \ {p} ELSE alive
    /\ Goto(p, "user")
    /\ UNCHANGED <<tableVars, ofile, pipe, iref, local, todo, ff>>

\* kfork(): the child shares every file.
Opened(p) == {d \in Fd : ofile[p][d] # 0}
Shares(p, g) == Cardinality({d \in Opened(p) : ofile[p][d] = g})
\* Mutant: one reference for a file on two descriptors.
ForkRefsOnce(p) == [g \in File |-> IF Shares(p, g) > 0 THEN ref[g] + 1 ELSE ref[g]]
ForkRefs(p) == [g \in File |-> ref[g] + Shares(p, g)]
Fork(p, c) ==
    /\ pc[p] = "user" /\ p \in alive /\ c \notin alive
    /\ ref' = ForkRefs(p)
    /\ ofile' = [ofile EXCEPT ![c] = ofile[p]]
    /\ alive' = alive \cup {c}
    /\ UNCHANGED <<struct, pipe, iref, pc, local, todo, ff>>

\* kexit(): close every descriptor in turn.
Exit(p) ==
    /\ pc[p] = "user" /\ p \in alive /\ p # First
    /\ CloseAll(p, SelectSeq([k \in 1..NOFILE |-> ofile[p][k - 1]], LAMBDA g : g # 0), "exit")
    /\ ofile' = [ofile EXCEPT ![p] = [d \in Fd |-> 0]]
    /\ UNCHANGED <<tableVars, alive, pipe, iref, ff>>

Next ==
    \E p \in Proc :
        \/ Open(p) \/ OpenFd(p) \/ OpenBad(p)
        \/ PipeStart(p) \/ PipeSecond(p) \/ PipeFds(p)
        \/ \E d \in Fd : Dup(p, d) \/ Close(p, d)
        \/ Fileclose(p) \/ FilecloseObject(p) \/ Closed(p)
        \/ \E c \in Proc : Fork(p, c)
        \/ Exit(p)
Spec == Init /\ [][Next]_vars

-----------------------------------------------------------------------------
\* f->ref is the number of pointers to f: descriptors of all processes, and the
\* locals of calls that are allocating or closing it.  So filedup() and fileclose()
\* never find a file without references (their panics), filealloc() never takes a
\* file that is in use, and no path of open(), pipe(), fork() or exit() loses one.
Count(s, g) == Cardinality({k \in DOMAIN s : s[k] = g})
Pointers(g) ==
    MapThenSumSet(LAMBDA p : Shares(p, g) + Count(local[p], g) + Count(todo[p], g), Proc)
RefExact == \A g \in File : ref[g] = Pointers(g)

\* An end of a pipe is open exactly while a file, or the copy in a fileclose(), refers
\* to it, and never twice: a reader sees the end of the pipe when the last writer has
\* closed it, and no failure path forgets an end or the page.
Refers(x, q, w) == x.type = "FD_PIPE" /\ x.obj = q /\ x.writable = w
PipeEndsExact ==
    \A q \in Pipe, w \in BOOLEAN :
        Cardinality({g \in File : Refers(struct[g], q, w)})
        + Cardinality({p \in Proc : Refers(ff[p], q, w)}) = IF w \in pipe[q] THEN 1 ELSE 0

=============================================================================
