------------------------------- MODULE Shell --------------------------------
(***************************************************************************)
(* The shell, user/sh.c: the recursive-descent parser, and the processes   *)
(* that runcmd() makes, with their file descriptors, pipes and waits.      *)
(*                                                                         *)
(* A command line is a sequence of tokens.  A process runs a list of       *)
(* instructions, one system call each.  The descriptors follow kernel      *)
(* rules: the lowest free one is used, fork() copies them, a pipe reads    *)
(* end of file when no process has its write end.  A pipe is named by the  *)
(* place in the command tree that made it.                                 *)
(***************************************************************************)
EXTENDS Integers, Sequences, FiniteSets, TLC, SequencesExt, FiniteSetsExt

CONSTANTS
    LineName,  \* LineName[n] marks what line n makes
    Word,      \* the words; a program is named by its first word
    Readers,   \* the programs that read their input to the end
    Missing,   \* the files that cannot be opened
    NPROC,     \* processes
    NOFILE,    \* descriptors of a process
    NPIPE,     \* pipes
    MAXARGS,   \* arguments of a command
    Scripts    \* the command lines typed, in order

ASSUME ShellAssumption ==
    /\ NPROC \in Nat \ {0} /\ NOFILE \in Nat /\ NOFILE >= 4
    /\ Readers \subseteq Word /\ Missing \subseteq Word

VARIABLES
    script,    \* the lines that are typed
    proc,      \* the processes; 1 is the shell
    failed     \* some fork() or pipe() failed

vars == <<script, proc, failed>>

-----------------------------------------------------------------------------
(* Commands *)

ExecCmd(argv) == [type |-> "EXEC", argv |-> argv]
RedirCmd(cmd, file, fd) == [type |-> "REDIR", cmd |-> cmd, file |-> file, fd |-> fd]
PipeCmd(left, right) == [type |-> "PIPE", left |-> left, right |-> right]
ListCmd(left, right) == [type |-> "LIST", left |-> left, right |-> right]
BackCmd(cmd) == [type |-> "BACK", cmd |-> cmd]

\* The parser's state: the tokens left, the command so far, and whether
\* panic() was called.
Panic == [ok |-> FALSE, cmd |-> ExecCmd(<<>>), rest |-> <<>>]
Parsed(cmd, rest) == [ok |-> TRUE, cmd |-> cmd, rest |-> rest]

Peek(ts, toks) == ts # <<>> /\ Head(ts) \in toks
RedirFd(tok) == IF tok = "<" THEN 0 ELSE 1

RECURSIVE ParseLine(_), ParseBackground(_), ParsePipe(_), ParseRedirs(_, _), ParseArgs(_, _, _)

\* The innermost execcmd, which parseexec() fills while redircmds are put
\* around it.
RECURSIVE WithArgs(_, _)
WithArgs(cmd, argv) ==
    IF cmd.type = "EXEC" THEN ExecCmd(argv) ELSE [cmd EXCEPT !.cmd = WithArgs(@, argv)]

ParseRedirs(cmd, ts) ==
    IF ~Peek(ts, {"<", ">", ">>"}) THEN Parsed(cmd, ts)
    ELSE IF Len(ts) < 2 \/ ts[2] \notin Word THEN Panic
    ELSE ParseRedirs(RedirCmd(cmd, ts[2], RedirFd(ts[1])), SubSeq(ts, 3, Len(ts)))

\* The loop of parseexec().
ParseArgs(ret, argv, ts) ==
    IF ts = <<>> \/ Peek(ts, {"|", ")", "&", ";"}) THEN Parsed(WithArgs(ret, argv), ts)
    ELSE IF Head(ts) \notin Word \/ Len(argv) + 1 >= MAXARGS THEN Panic
    ELSE LET s == ParseRedirs(ret, Tail(ts))
         IN  IF s.ok THEN ParseArgs(s.cmd, Append(argv, Head(ts)), s.rest) ELSE Panic

ParseBlock(ts) ==
    LET s == ParseLine(Tail(ts))
    IN  IF s.ok /\ Peek(s.rest, {")"}) THEN ParseRedirs(s.cmd, Tail(s.rest)) ELSE Panic

ParseExec(ts) ==
    LET s == ParseRedirs(ExecCmd(<<>>), ts)
    IN  IF Peek(ts, {"("}) THEN ParseBlock(ts)
        ELSE IF s.ok THEN ParseArgs(s.cmd, <<>>, s.rest) ELSE Panic

\* Mutant: the right side of "|" takes a whole line.
ParsePipeOfLine(ts) ==
    LET s == ParseExec(ts)
        r == ParseLine(Tail(s.rest))
    IN  IF ~s.ok \/ ~Peek(s.rest, {"|"}) THEN s
        ELSE IF r.ok THEN Parsed(PipeCmd(s.cmd, r.cmd), r.rest) ELSE Panic

ParsePipe(ts) ==
    LET s == ParseExec(ts)
        r == ParsePipe(Tail(s.rest))
    IN  IF ~s.ok \/ ~Peek(s.rest, {"|"}) THEN s
        ELSE IF r.ok THEN Parsed(PipeCmd(s.cmd, r.cmd), r.rest) ELSE Panic

ParseBackground(s) ==
    IF s.ok /\ Peek(s.rest, {"&"})
    THEN ParseBackground(Parsed(BackCmd(s.cmd), Tail(s.rest))) ELSE s

ParseLine(ts) ==
    LET s == ParseBackground(ParsePipe(ts))
        r == ParseLine(Tail(s.rest))
    IN  IF ~s.ok \/ ~Peek(s.rest, {";"}) THEN s
        ELSE IF r.ok THEN Parsed(ListCmd(s.cmd, r.cmd), r.rest) ELSE Panic

ParseCmd(ts) ==
    LET s == ParseLine(ts) IN IF s.ok /\ s.rest = <<>> THEN s ELSE Panic

\* The same as a function on the lines typed, which TLC evaluates once.
Parses == [ts \in UNION {Range(s) : s \in Scripts} |-> ParseCmd(ts)]

-----------------------------------------------------------------------------
(* Processes *)

Fd == 0 .. NOFILE - 1
Pid == 1 .. NPROC
NoObj == [kind |-> "none", id |-> <<>>]
Console == [kind |-> "console", id |-> <<>>]
FileObj(f) == [kind |-> "file", id |-> <<f>>]
ReadEnd(pos) == [kind |-> "r", id |-> pos]
WriteEnd(pos) == [kind |-> "w", id |-> pos]

\* What is left of a process that has been reaped.
NoProc == [st |-> "unused", code |-> <<>>, fds |-> [fd \in Fd |-> NoObj], parent |-> 0,
           line |-> 0, pos |-> <<>>, p |-> <<0, 0>>, argv |-> <<>>]

Op(op) == <<[op |-> op]>>
Close(fd) == <<[op |-> "close", fd |-> fd]>>
CloseEnd(i) == <<[op |-> "closep", end |-> i]>>
Dup(i) == <<[op |-> "dup", end |-> i]>>
Open(f) == <<[op |-> "open", file |-> f]>>
Fork(code, side) == <<[op |-> "fork", code |-> code, side |-> side]>>
Run(cmd) == <<[op |-> "run", cmd |-> cmd]>>
Into(side) == <<[op |-> "into", side |-> side]>>

\* The three parts of case PIPE; the ends of the pipe are p[1] and p[2].
PipeLeft(cmd) == Close(1) \o Dup(2) \o CloseEnd(1) \o CloseEnd(2) \o Run(cmd.left)
\* Mutant: the right child keeps the write end.
PipeRightKeepsEnd(cmd) == Close(0) \o Dup(1) \o CloseEnd(1) \o Run(cmd.right)
PipeRight(cmd) == Close(0) \o Dup(1) \o CloseEnd(1) \o CloseEnd(2) \o Run(cmd.right)
\* Mutant: the parent waits before it closes its ends.
PipeParentWaitsFirst == Op("wait") \o Op("wait") \o CloseEnd(1) \o CloseEnd(2)
\* Mutant: the parent waits for one child only.
PipeParentOneWait == CloseEnd(1) \o CloseEnd(2) \o Op("wait")
PipeParent == CloseEnd(1) \o CloseEnd(2) \o Op("wait") \o Op("wait")

\* runcmd(), up to the next command; a fork holds the whole of the child's
\* work.
RunCmd(cmd) ==
    CASE cmd.type = "EXEC" -> IF cmd.argv = <<>> THEN Op("exit")
                              ELSE <<[op |-> "exec", argv |-> cmd.argv]>>
      [] cmd.type = "REDIR" -> Close(cmd.fd) \o Open(cmd.file) \o Run(cmd.cmd)
      [] cmd.type = "LIST" -> Fork(Run(cmd.left), "l") \o Op("wait") \o Into("r") \o Run(cmd.right)
      [] cmd.type = "PIPE" ->
            Op("pipe") \o Fork(PipeLeft(cmd), "l") \o Fork(PipeRight(cmd), "r")
            \o PipeParent \o Op("exit")
      [] cmd.type = "BACK" -> Fork(Run(cmd.cmd), "b") \o Op("exit")

\* The loop of main(), for the next line: nothing is done for an empty one
\* and chdir() is done by the shell itself.  Blanks separate the tokens, so a
\* "cd" with something after it is the "cd " that main() looks for.
MainLoop(n) ==
    IF n > Len(script) THEN Op("exit")
    ELSE IF script[n] = <<>> THEN Op("main")
    ELSE IF script[n][1] = "cd" /\ Len(script[n]) > 1 THEN Op("chdir") \o Op("main")
    ELSE Fork(Op("parse"), LineName[n]) \o Op("wait") \o Op("main")

Init ==
    /\ script \in Scripts
    /\ failed = FALSE
    /\ \E k \in 0 .. 3 :
          proc = [i \in Pid |-> IF i = 1
                     THEN [NoProc EXCEPT !.st = "run", !.code = Op("console"),
                             !.fds = [fd \in Fd |-> IF fd < k THEN Console ELSE NoObj]]
                     ELSE NoProc]

At(i, op) == proc[i].st = "run" /\ Head(proc[i].code).op = op
Arg(i) == Head(proc[i].code)
Continue(i) == Tail(proc[i].code)
FreeFd(i) == Min({fd \in Fd : proc[i].fds[fd] = NoObj})
HasFreeFd(i, n) == Cardinality({fd \in Fd : proc[i].fds[fd] = NoObj}) >= n
Children(i) == {j \in Pid : proc[j].st # "unused" /\ proc[j].parent = i}
Held(obj) == \E i \in Pid, fd \in Fd : proc[i].fds[fd] = obj
Pipes == {proc[i].fds[fd].id : <<i, fd>> \in {x \in Pid \X Fd : proc[x[1]].fds[x[2]].kind \in {"r", "w"}}}

SetProc(i, new) == proc' = [proc EXCEPT ![i] = new] /\ UNCHANGED <<script, failed>>

\* exit(): the descriptors are closed, the children go to init, which reaps
\* them, and a parent finds a zombie.
Exited(i) ==
    [j \in Pid |->
        IF j = i THEN IF proc[i].parent = 0 THEN NoProc
                      ELSE [NoProc EXCEPT !.st = "zombie", !.parent = proc[i].parent]
        ELSE IF proc[j].parent # i \/ proc[j].st = "unused" THEN proc[j]
        ELSE IF proc[j].st = "zombie" THEN NoProc
        ELSE [proc[j] EXCEPT !.parent = 0]]

ExitCall(i) ==
    /\ At(i, "exit")
    /\ proc' = Exited(i)
    /\ UNCHANGED <<script, failed>>

\* panic() in the shell or a child, after a system call that failed.
Fail(i) == proc' = Exited(i) /\ failed' = TRUE /\ UNCHANGED script

\* while((fd = open("console", O_RDWR)) >= 0) if(fd >= 3) ...
OpenConsole(i) ==
    /\ At(i, "console")
    /\ IF FreeFd(i) >= 3
       THEN SetProc(i, [proc[i] EXCEPT !.code = Op("main")])
       ELSE SetProc(i, [proc[i] EXCEPT !.fds[FreeFd(i)] = Console])

MainStep(i) ==
    /\ At(i, "main")
    /\ SetProc(i, [proc[i] EXCEPT !.line = @ + 1, !.code = MainLoop(proc[i].line + 1)])

\* chdir() touches no descriptor.
Chdir(i) ==
    /\ At(i, "chdir")
    /\ SetProc(i, [proc[i] EXCEPT !.code = Continue(i)])

Parse(i) ==
    LET s == Parses[script[proc[i].line]]
    IN  /\ At(i, "parse")
        /\ SetProc(i, [proc[i] EXCEPT !.code = IF s.ok THEN Run(s.cmd) ELSE Op("exit")])

RunStep(i) ==
    /\ At(i, "run")
    /\ SetProc(i, [proc[i] EXCEPT !.code = RunCmd(Arg(i).cmd)])

IntoStep(i) ==
    /\ At(i, "into")
    /\ SetProc(i, [proc[i] EXCEPT !.code = Continue(i), !.pos = Append(@, Arg(i).side)])

CloseCall(i) ==
    \/ /\ At(i, "close")
       /\ SetProc(i, [proc[i] EXCEPT !.code = Continue(i), !.fds[Arg(i).fd] = NoObj])
    \/ /\ At(i, "closep")
       /\ SetProc(i, [proc[i] EXCEPT !.code = Continue(i), !.fds[proc[i].p[Arg(i).end]] = NoObj])

DupCall(i) ==
    /\ At(i, "dup")
    /\ SetProc(i, [proc[i] EXCEPT !.code = Continue(i),
                     !.fds[FreeFd(i)] = proc[i].fds[proc[i].p[Arg(i).end]]])

OpenCall(i) ==
    /\ At(i, "open")
    /\ IF Arg(i).file \in Missing
       THEN proc' = Exited(i) /\ UNCHANGED <<script, failed>>
       ELSE SetProc(i, [proc[i] EXCEPT !.code = Continue(i), !.fds[FreeFd(i)] = FileObj(Arg(i).file)])

PipeCall(i) ==
    /\ At(i, "pipe")
    /\ IF HasFreeFd(i, 2) /\ Cardinality(Pipes) < NPIPE
       THEN LET a == FreeFd(i)
                b == Min({fd \in Fd \ {a} : proc[i].fds[fd] = NoObj})
            IN  SetProc(i, [proc[i] EXCEPT !.code = Continue(i), !.p = <<a, b>>,
                              !.fds[a] = ReadEnd(proc[i].pos), !.fds[b] = WriteEnd(proc[i].pos)])
       ELSE Fail(i)

\* fork1()
ForkCall(i) ==
    LET free == {j \in Pid : proc[j].st = "unused"}
        child == [proc[i] EXCEPT !.code = Arg(i).code, !.parent = i, !.pos = Append(@, Arg(i).side)]
    IN  /\ At(i, "fork")
        /\ IF free = {} THEN Fail(i)
           ELSE /\ proc' = [proc EXCEPT ![i].code = Continue(i), ![Min(free)] = child]
                /\ UNCHANGED <<script, failed>>

\* wait(0) takes any zombie, returns at once without children, and blocks
\* otherwise.
WaitCall(i) ==
    /\ At(i, "wait")
    /\ \/ /\ Children(i) = {}
          /\ SetProc(i, [proc[i] EXCEPT !.code = Continue(i)])
       \/ \E j \in Children(i) :
             /\ proc[j].st = "zombie"
             /\ proc' = [proc EXCEPT ![i].code = Continue(i), ![j] = NoProc]
             /\ UNCHANGED <<script, failed>>

\* exec() starts the program, or fails and runcmd() falls through to exit().
ExecCall(i) ==
    /\ At(i, "exec")
    /\ IF Arg(i).argv[1] \in Missing
       THEN SetProc(i, [proc[i] EXCEPT !.code = Op("exit")])
       ELSE SetProc(i, [proc[i] EXCEPT !.st = "program", !.code = <<>>, !.argv = Arg(i).argv,
                          !.p = <<0, 0>>])

\* A program ends, one that reads its input only at end of file.
ProgramEnds(i) ==
    /\ proc[i].st = "program"
    /\ ~ /\ proc[i].argv[1] \in Readers
         /\ proc[i].fds[0].kind = "r"
         /\ Held(WriteEnd(proc[i].fds[0].id))
    /\ proc' = Exited(i)
    /\ UNCHANGED <<script, failed>>

Step(i) ==
    \/ ExitCall(i) \/ OpenConsole(i) \/ MainStep(i) \/ Chdir(i) \/ Parse(i) \/ RunStep(i) \/ IntoStep(i)
    \/ CloseCall(i) \/ DupCall(i) \/ OpenCall(i) \/ PipeCall(i) \/ ForkCall(i) \/ WaitCall(i)
    \/ ExecCall(i) \/ ProgramEnds(i)

Next == \E i \in Pid : Step(i)

Spec == Init /\ [][Next]_vars
LiveSpec == Spec /\ WF_vars(Next)

-----------------------------------------------------------------------------
(* Properties *)

\* The types of the processes and descriptors that runcmd() makes: pipe() fills two
\* free entries of the descriptor table.
TypeOK ==
    /\ \A i \in Pid : /\ proc[i].st \in {"unused", "run", "program", "zombie"}
                      /\ proc[i].parent \in 0 .. NPROC
                      /\ proc[i].p \in Fd \X Fd
    /\ failed \in BOOLEAN

\* The grammar of command lines: what each token sequence can mean.  It is
\* stated by splitting the sequence in all ways, without an order of tests.
RECURSIVE LineTrees(_), PipeTrees(_), ExecTrees(_), RedirTrees(_, _)
Cuts(ts, tok) == {k \in DOMAIN ts : ts[k] = tok}
Before(ts, k) == SubSeq(ts, 1, k - 1)
After(ts, k) == SubSeq(ts, k + 1, Len(ts))

RECURSIVE Backs(_, _)
Backs(cmd, n) == IF n = 0 THEN cmd ELSE BackCmd(Backs(cmd, n - 1))

\* cmd with the redirections ts around it, the last outermost.
RedirTrees(cmd, ts) ==
    IF ts = <<>> THEN {cmd}
    ELSE IF Len(ts) < 2 \/ ts[1] \notin {"<", ">", ">>"} \/ ts[2] \notin Word THEN {}
    ELSE RedirTrees(RedirCmd(cmd, ts[2], RedirFd(ts[1])), SubSeq(ts, 3, Len(ts)))

\* The positions of the words that are arguments, not files.
ArgAt(ts) == {k \in DOMAIN ts : ts[k] \in Word /\ (k > 1 => ts[k - 1] \notin {"<", ">", ">>"})}
Select(ts, S) == [n \in 1 .. Cardinality(S) |-> ts[CHOOSE k \in S : Cardinality({j \in S : j <= k}) = n]]

ExecTrees(ts) ==
    LET args == ArgAt(ts)
    IN  (IF Cardinality(args) < MAXARGS
         THEN RedirTrees(ExecCmd(Select(ts, args)), Select(ts, DOMAIN ts \ args)) ELSE {})
        \cup UNION {UNION {RedirTrees(cmd, After(ts, k)) : cmd \in LineTrees(SubSeq(ts, 2, k - 1))} :
                      k \in {k \in Cuts(ts, ")") : ts[1] = "("}}

PipeTrees(ts) ==
    ExecTrees(ts) \cup
    UNION {{PipeCmd(l, r) : l \in ExecTrees(Before(ts, k)), r \in PipeTrees(After(ts, k))} :
              k \in Cuts(ts, "|")}

\* A pipeline and n "&".
JobTrees(ts) ==
    UNION {{Backs(cmd, Len(ts) - k) : cmd \in PipeTrees(SubSeq(ts, 1, k))} :
              k \in {k \in 0 .. Len(ts) : \A j \in k + 1 .. Len(ts) : ts[j] = "&"}}

LineTrees(ts) ==
    JobTrees(ts) \cup
    UNION {{ListCmd(l, r) : l \in JobTrees(Before(ts, k)), r \in LineTrees(After(ts, k))} :
              k \in Cuts(ts, ";")}

\* The parser accepts exactly the lines of the grammar and gives each the one
\* command the grammar gives it: no token is lost, "|" binds tighter than "&"
\* and ";", and both "|" and ";" group to the right.
ParserIsGrammar ==
    \A i \in Pid : At(i, "parse") =>
        LET line == script[proc[i].line]
        IN  LineTrees(line) = IF Parses[line].ok THEN {Parses[line].cmd} ELSE {}

\* The programs a command starts, with their standard input and output.
RECURSIVE Wired(_, _, _, _)
Wired(cmd, pos, in, out) ==
    CASE cmd.type = "EXEC" -> {[argv |-> cmd.argv, in |-> in, out |-> out]}
      [] cmd.type = "REDIR" -> IF cmd.fd = 0 THEN Wired(cmd.cmd, pos, FileObj(cmd.file), out)
                               ELSE Wired(cmd.cmd, pos, in, FileObj(cmd.file))
      [] cmd.type = "LIST" -> Wired(cmd.left, Append(pos, "l"), in, out)
                              \cup Wired(cmd.right, Append(pos, "r"), in, out)
      [] cmd.type = "PIPE" -> Wired(cmd.left, Append(pos, "l"), in, WriteEnd(pos))
                              \cup Wired(cmd.right, Append(pos, "r"), ReadEnd(pos), out)
      [] cmd.type = "BACK" -> Wired(cmd.cmd, Append(pos, "b"), in, out)

\* Every program runs with the input and the output the command line gives
\* it, and holds no other pipe end: one that stayed open in a process that
\* does not use it would keep a reader waiting for end of file.
WiredAsParsed ==
    \A i \in Pid : proc[i].st = "program" =>
        /\ [argv |-> proc[i].argv, in |-> proc[i].fds[0], out |-> proc[i].fds[1]]
              \in Wired(Parses[script[proc[i].line]].cmd, <<LineName[proc[i].line]>>, Console, Console)
        /\ \A fd \in Fd \ {0, 1} : proc[i].fds[fd].kind \notin {"r", "w"}

\* The command at pos in a tree is a list.
RECURSIVE ListAt(_, _)
ListAt(cmd, pos) ==
    IF cmd.type = "REDIR" THEN ListAt(cmd.cmd, pos)
    ELSE IF pos = <<>> THEN cmd.type = "LIST"
    ELSE CASE Head(pos) = "l" -> ListAt(cmd.left, Tail(pos))
           [] Head(pos) = "r" -> ListAt(cmd.right, Tail(pos))
           [] Head(pos) = "b" -> ListAt(cmd.cmd, Tail(pos))

\* Process i works for the left and process j for the right side of a list.
ListSides(i, j) ==
    \E k \in 1 .. Len(proc[i].pos) :
        /\ k <= Len(proc[j].pos)
        /\ SubSeq(proc[i].pos, 1, k - 1) = SubSeq(proc[j].pos, 1, k - 1)
        /\ proc[i].pos[k] = "l" /\ proc[j].pos[k] = "r"
        /\ ListAt(Parses[script[proc[i].line]].cmd, SubSeq(proc[i].pos, 2, k - 1))

\* What comes later starts when what comes before it is over: in
\* "left ; right", and from one line to the next.  A program outlives the
\* command it is part of only in the background, or when the fork() or pipe()
\* after it failed: the two wait(0) of a pipeline and the one of the shell,
\* which take any child, never take the wrong one.
Sequential ==
    ~failed =>
    \A i, j \in Pid :
        /\ proc[i].st = "program"
        /\ proc[j].st \in {"run", "program"}
        /\ proc[i].line < proc[j].line \/ (proc[i].line = proc[j].line /\ ListSides(i, j))
        => "b" \in Range(proc[i].pos)

\* The shell comes back from every command, also when a fork(), a pipe(), an
\* open() or an exec() failed half-way, and every process it made ends: no
\* wait() waits for a process that is not there, and no program for an end of
\* file that a forgotten write end holds back.
ShellReturns == <>[](\A i \in Pid : proc[i].st = "unused")
=============================================================================
