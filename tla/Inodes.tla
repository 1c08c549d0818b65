------------------------------- MODULE Inodes -------------------------------
(***************************************************************************)
(* The inode table, directories and path names of kernel/fs.c, with the    *)
(* system calls of kernel/sysfile.c that use them, on a disk whose         *)
(* operations are atomic across crashes (Log implements AtomicDisk).       *)
(*                                                                         *)
(* A process runs a list of tasks, one critical section each.  A section   *)
(* that takes only ip->lock, or only itable.lock, is one step.  A sleep    *)
(* lock held into the next task is in "lock"; so are the three steps of    *)
(* an iput() that frees its inode.  Directories are sequences of entries,  *)
(* a free one has inum 0; file contents and blocks are in FileData, so     *)
(* here a disk that is full is any failing append to a directory.          *)
(***************************************************************************)
EXTENDS Integers, Sequences, FiniteSets, SequencesExt

CONSTANTS Proc,      \* processes
          NINODES,   \* sb.ninodes; inode 0 is not used
          NINODE,    \* entries of the inode table
          MAXGROUP,  \* bound: operations of one transaction
          Name,      \* names of files other than "." and ".."
          Calls      \* the system calls of a process, [op, path] or [op, path, new]

\* The table is large enough: iget() never panics "no inodes".
ASSUME InodesAssumption == NINODES \in Nat /\ NINODES > 1 /\ NINODE \in Nat /\ NINODE >= NINODES - 1

Inum == 1..NINODES - 1
Slot == 1..NINODE
ROOTINO == 1
Types == {"none", "T_DIR", "T_FILE", "T_DEVICE"}

VARIABLES
    dinode,       \* on disk, as the buffer cache shows it: type, nlink, entries
    committed,    \* the dinodes of the last committed transaction
    outstanding,  \* operations in progress
    group,        \* operations begun since the last commit
    itable,       \* inum, ref, valid, type and nlink of a table entry
    lock,         \* who holds ip->lock, or "free"
    cwd, file,    \* p->cwd, and the inode of p's open file or 0
    tasks, bad,   \* what p has left to do, and what instead once it fails
    cur, rest,    \* namex(): ip, and the path elements left
    ip, dp, name, \* locals of the system call
    boot,         \* ireclaim()'s inum, or 0 once the system is up
    panicked      \* panic()'s argument, or ""

locals == <<tasks, bad, cur, rest, ip, dp, name>>
vars == <<dinode, committed, outstanding, group, itable, lock, cwd, file, locals, boot, panicked>>

Dirent == [name : Name \cup {".", ".."}, inum : 0..NINODES - 1]
Empty == [inum |-> 0, ref |-> 0, valid |-> FALSE, type |-> "none", nlink |-> 0]
Free == [type |-> "none", nlink |-> 0, ents |-> <<>>]

\* The types of the dinodes, of itable and of what each system call holds:
\* ialloc() and ireclaim() name only inodes of the disk.
TypeOK ==
    /\ \A d \in {dinode, committed} : \A i \in Inum :
           d[i].type \in Types /\ d[i].nlink \in Nat /\ d[i].ents \in Seq(Dirent)
    /\ outstanding \in 0..group /\ group \in 0..MAXGROUP
    /\ \A s \in Slot : /\ itable[s].inum \in 0..NINODES - 1 /\ itable[s].ref \in Nat
                       /\ itable[s].type \in Types /\ itable[s].nlink \in Nat
    /\ lock \in [Slot -> Proc \cup {"free"}]
    /\ cwd \in [Proc -> Slot] /\ file \in [Proc -> 0..NINODE]
    /\ cur \in [Proc -> 0..NINODE] /\ ip \in [Proc -> 0..NINODE] /\ dp \in [Proc -> 0..NINODE]
    /\ boot \in 0..NINODES - 1

-----------------------------------------------------------------------------
\* iget(): the table after a reference to inode i is taken, and its entry.  An entry
\* without references keeps nothing that is read again, so it is Empty.
InTable(t, i) == {s \in Slot : t[s].ref > 0 /\ t[s].inum = i}
IgetSlot(t, i) ==
    IF InTable(t, i) # {} THEN CHOOSE s \in InTable(t, i) : TRUE
    ELSE CHOOSE s \in Slot : t[s].ref = 0 /\ \A u \in 1..s - 1 : t[u].ref > 0
Iget(t, i) ==
    [t EXCEPT ![IgetSlot(t, i)] = IF @.ref > 0 THEN [@ EXCEPT !.ref = @ + 1]
                                  ELSE [Empty EXCEPT !.inum = i, !.ref = 1]]
Idup(t, s) == [t EXCEPT ![s].ref = @ + 1]

\* ilock(): the entry as it is once the lock is held, read from disk if not valid.
Ilock(s) ==
    LET d == dinode[itable[s].inum] IN
    IF itable[s].valid THEN itable[s]
    ELSE [itable[s] EXCEPT !.valid = TRUE, !.type = d.type, !.nlink = d.nlink]
NoType(s) == ~itable[s].valid /\ dinode[itable[s].inum].type = "none"

\* iupdate(): the disk after the table's entry e is written back.
Iupdate(d, e) == [d EXCEPT ![e.inum].type = e.type, ![e.inum].nlink = e.nlink]

\* dirlookup(): the position of the entry with name n in directory inode i, or 0.
Lookup(d, i, n) ==
    LET S == {k \in DOMAIN d[i].ents : d[i].ents[k].inum # 0 /\ d[i].ents[k].name = n} IN
    IF S = {} THEN 0 ELSE CHOOSE k \in S : \A l \in S : k <= l
Entry(d, i, n) == d[i].ents[Lookup(d, i, n)].inum

\* dirlink(): the disk after entry (n, j) goes to the first free place of i, or to
\* the end.  full: the disk has no block for a longer directory.
FreeEntry(d, i) == SelectInSeq(d[i].ents, LAMBDA e : e.inum = 0)
LinkFails(d, i, n, full) == Lookup(d, i, n) # 0 \/ (full /\ FreeEntry(d, i) = 0)
Dirlink(d, i, n, j) ==
    LET e == [name |-> n, inum |-> j]
        k == FreeEntry(d, i) IN
    [d EXCEPT ![i].ents = IF k = 0 THEN Append(@, e) ELSE [@ EXCEPT ![k] = e]]

\* isdirempty()
IsDirEmpty(i) == \A k \in 3..Len(dinode[i].ents) : dinode[i].ents[k].inum = 0

\* mkfs leaves a root directory; userinit() sets init's cwd, which its descendants share.
BootTable == [s \in Slot |-> IF s = 1 THEN [Empty EXCEPT !.inum = ROOTINO, !.ref = Cardinality(Proc)]
                             ELSE Empty]
Root == [type |-> "T_DIR", nlink |-> 1,
         ents |-> <<[name |-> ".", inum |-> ROOTINO], [name |-> "..", inum |-> ROOTINO]>>]
Init ==
    /\ dinode = [i \in Inum |-> IF i = ROOTINO THEN Root ELSE Free]
    /\ committed = dinode
    /\ outstanding = 0 /\ group = 0
    /\ itable = BootTable
    /\ lock = [s \in Slot |-> "free"]
    /\ cwd = [p \in Proc |-> 1] /\ file = [p \in Proc |-> 0]
    /\ tasks = [p \in Proc |-> <<>>] /\ bad = [p \in Proc |-> <<>>]
    /\ cur = [p \in Proc |-> 0] /\ rest = [p \in Proc |-> <<>>]
    /\ ip = [p \in Proc |-> 0] /\ dp = [p \in Proc |-> 0] /\ name = [p \in Proc |-> "."]
    /\ boot = 0
    /\ panicked = ""

-----------------------------------------------------------------------------
Up == boot = 0 /\ panicked = ""
At(p, k) == Up /\ tasks[p] # <<>> /\ Head(tasks[p])[1] = k
Arg(p) == Head(tasks[p])[2]
Goto(p, ts) == tasks' = [tasks EXCEPT ![p] = ts]
Continue(p) == Goto(p, Tail(tasks[p]))
Then(p, ts) == Goto(p, ts \o Tail(tasks[p]))
Panic(msg) ==
    /\ panicked' = msg
    /\ UNCHANGED <<dinode, committed, outstanding, group, itable, lock, cwd, file, locals, boot>>
\* What nearly no step changes.
Rest == UNCHANGED <<committed, outstanding, group, cwd, file, boot, panicked>>
Walking == <<bad, cur, rest>>

\* begin_op() and the tasks of the calls; namex() starts at the root or at p->cwd.
StartPath(p, path, t) ==
    LET abs == Head(path) = "/" IN
    /\ itable' = IF abs THEN Iget(t, ROOTINO) ELSE Idup(t, cwd[p])
    /\ cur' = [cur EXCEPT ![p] = IF abs THEN IgetSlot(t, ROOTINO) ELSE cwd[p]]
    /\ rest' = [rest EXCEPT ![p] = IF abs THEN Tail(path) ELSE path]

EndOp == <<<<"end_op", 0>>>>
Program(c) ==
    CASE c.op = "open" -> <<<<"namei", 0>>, <<"openlock", 0>>, <<"openfile", 0>>>>
      [] c.op = "creat" -> <<<<"nameiparent", 0>>, <<"create", "T_FILE">>, <<"openfile", 0>>>>
      [] c.op = "mkdir" -> <<<<"nameiparent", 0>>, <<"create", "T_DIR">>, <<"iunlockput", 0>>>>
      [] c.op = "mknod" -> <<<<"nameiparent", 0>>, <<"create", "T_DEVICE">>, <<"iunlockput", 0>>>>
      [] c.op = "unlink" -> <<<<"nameiparent", 0>>, <<"unlink", 0>>>>
      [] c.op = "link" -> <<<<"namei", 0>>, <<"link", c.new>>, <<"nameiparent", 0>>, <<"linkdir", 0>>>>
      [] c.op = "chdir" -> <<<<"namei", 0>>, <<"chdir", 0>>>>

BeginOp == group < MAXGROUP /\ group' = group + 1 /\ outstanding' = outstanding + 1
Call(p, c) ==
    /\ Up /\ tasks[p] = <<>>
    /\ Goto(p, Program(c) \o EndOp)
    /\ bad' = [bad EXCEPT ![p] = EndOp]
    /\ StartPath(p, c.path, itable)
    /\ BeginOp
    /\ UNCHANGED <<dinode, committed, lock, cwd, file, ip, dp, name, boot, panicked>>

\* fileclose() of an inode whose last descriptor goes.
Close(p) ==
    /\ Up /\ tasks[p] = <<>> /\ file[p] # 0
    /\ Goto(p, <<<<"iput", file[p]>>>> \o EndOp)
    /\ file' = [file EXCEPT ![p] = 0]
    /\ BeginOp
    /\ UNCHANGED <<dinode, committed, itable, lock, cwd, bad, cur, rest, ip, dp, name, boot, panicked>>

\* end_op() commits when it ends the last operation.
EndOpStep(p) ==
    /\ At(p, "end_op")
    /\ outstanding' = outstanding - 1
    /\ committed' = IF outstanding = 1 THEN dinode ELSE committed
    /\ group' = IF outstanding = 1 THEN 0 ELSE group
    /\ Continue(p)
    /\ bad' = [bad EXCEPT ![p] = <<>>] /\ cur' = [cur EXCEPT ![p] = 0]
    /\ rest' = [rest EXCEPT ![p] = <<>>] /\ ip' = [ip EXCEPT ![p] = 0]
    /\ dp' = [dp EXCEPT ![p] = 0] /\ name' = [name EXCEPT ![p] = "."]
    /\ UNCHANGED <<dinode, itable, lock, cwd, file, boot, panicked>>

-----------------------------------------------------------------------------
\* One element of namex(), up to the iput() of the directory it leaves.
Namex(p) ==
    \E parent \in BOOLEAN :
    LET s == cur[p]
        e == Ilock(s)
        t == [itable EXCEPT ![s] = e]
        fails == <<<<"iput", s>>>> \o bad[p] IN
    /\ At(p, IF parent THEN "nameiparent" ELSE "namei")
    /\ rest[p] = <<>> \/ lock[s] = "free"
    /\ IF rest[p] = <<>>
       THEN /\ IF parent THEN Goto(p, fails) /\ UNCHANGED ip
               ELSE Continue(p) /\ ip' = [ip EXCEPT ![p] = s]
            /\ UNCHANGED <<dinode, itable, lock, Walking, dp, name>> /\ Rest
       ELSE IF NoType(s) THEN Panic("ilock: no type")
       ELSE /\ IF e.type = "T_DIR" /\ parent /\ Len(rest[p]) = 1
               THEN /\ itable' = t
                    /\ dp' = [dp EXCEPT ![p] = s] /\ name' = [name EXCEPT ![p] = rest[p][1]]
                    /\ Continue(p) /\ UNCHANGED <<cur, rest>>
               ELSE /\ IF e.type # "T_DIR" \/ Lookup(dinode, e.inum, rest[p][1]) = 0
                       THEN itable' = t /\ Goto(p, fails) /\ UNCHANGED <<cur, rest>>
                       ELSE LET i == Entry(dinode, e.inum, rest[p][1]) IN
                            /\ itable' = Iget(t, i)
                            /\ cur' = [cur EXCEPT ![p] = IgetSlot(t, i)]
                            /\ rest' = [rest EXCEPT ![p] = Tail(@)]
                            /\ Goto(p, <<<<"iput", s>>>> \o tasks[p])
                    /\ UNCHANGED <<dp, name>>
            /\ UNCHANGED <<dinode, lock, bad, ip>> /\ Rest

\* iput(): drop a reference; the last one to an inode without links frees it, in
\* steps: lock it; itrunc() and iupdate(); forget it and unlock; drop.
Drop(t, s) == [t EXCEPT ![s] = IF @.ref = 1 THEN Empty ELSE [@ EXCEPT !.ref = @ - 1]]
LastLink(s) == itable[s].ref = 1 /\ itable[s].valid /\ itable[s].nlink = 0
Iput(p) ==
    LET s == Arg(p) IN
    /\ At(p, "iput")
    /\ IF LastLink(s)
       THEN /\ lock[s] = "free"
            /\ lock' = [lock EXCEPT ![s] = p]
            /\ Then(p, <<<<"itrunc", s>>, <<"invalidate", s>>, <<"drop", s>>>>)
            /\ UNCHANGED itable
       ELSE itable' = Drop(itable, s) /\ Continue(p) /\ UNCHANGED lock
    /\ UNCHANGED <<dinode, Walking, ip, dp, name>> /\ Rest
Itrunc(p) ==
    /\ At(p, "itrunc")
    /\ itable' = [itable EXCEPT ![Arg(p)].type = "none"]
    /\ dinode' = [dinode EXCEPT ![itable[Arg(p)].inum] = Free]
    /\ Continue(p)
    /\ UNCHANGED <<lock, Walking, ip, dp, name>> /\ Rest
\* Mutant: without ip->valid = 0.
InvalidateNot(p) ==
    /\ At(p, "invalidate")
    /\ lock' = [lock EXCEPT ![Arg(p)] = "free"]
    /\ Continue(p)
    /\ UNCHANGED <<dinode, itable, Walking, ip, dp, name>> /\ Rest
Invalidate(p) ==
    /\ At(p, "invalidate")
    /\ itable' = [itable EXCEPT ![Arg(p)].valid = FALSE]
    /\ lock' = [lock EXCEPT ![Arg(p)] = "free"]
    /\ Continue(p)
    /\ UNCHANGED <<dinode, Walking, ip, dp, name>> /\ Rest
DropRef(p) ==
    /\ At(p, "drop")
    /\ itable' = Drop(itable, Arg(p))
    /\ Continue(p)
    /\ UNCHANGED <<dinode, lock, Walking, ip, dp, name>> /\ Rest

-----------------------------------------------------------------------------
\* A section that locks s, finds its inode good, sets entry e and disk d, and leaves
\* the lock with q ("free": iunlock).  A directory section also needs a directory.
Section(p, s, e, d, q) ==
    /\ itable' = [itable EXCEPT ![s] = e]
    /\ dinode' = d
    /\ lock' = [lock EXCEPT ![s] = q]
Put(s) == <<<<"iput", s>>>>

\* sys_link(): count the link first, then walk the new path, then write the entry.
Link(p) ==
    LET s == ip[p]
        e == Ilock(s)
        f == [e EXCEPT !.nlink = @ + 1] IN
    /\ At(p, "link") /\ lock[s] = "free"
    /\ IF NoType(s) THEN Panic("ilock: no type")
       ELSE /\ IF e.type = "T_DIR"
               THEN /\ itable' = [itable EXCEPT ![s] = e]
                    /\ Goto(p, Put(s) \o EndOp)
                    /\ UNCHANGED <<dinode, bad, cur, rest>>
               ELSE /\ StartPath(p, Arg(p), [itable EXCEPT ![s] = f])
                    /\ dinode' = Iupdate(dinode, f)
                    /\ bad' = [bad EXCEPT ![p] = <<<<"unlinkbad", 0>>>> \o Put(s) \o EndOp]
                    /\ Continue(p)
            /\ UNCHANGED <<lock, ip, dp, name>> /\ Rest
LinkDir(p) ==
    \E full \in BOOLEAN :
    LET s == dp[p]
        e == Ilock(s) IN
    /\ At(p, "linkdir") /\ lock[s] = "free"
    /\ IF NoType(s) \/ e.type # "T_DIR" THEN Panic(IF NoType(s) THEN "ilock: no type" ELSE "dirlookup not DIR")
       ELSE /\ itable' = [itable EXCEPT ![s] = e]
            /\ IF LinkFails(dinode, e.inum, name[p], full)
               THEN Goto(p, Put(s) \o bad[p]) /\ UNCHANGED dinode
               ELSE /\ dinode' = Dirlink(dinode, e.inum, name[p], itable[ip[p]].inum)
                    /\ Then(p, Put(s) \o Put(ip[p]))
            /\ UNCHANGED <<lock, Walking, ip, dp, name>> /\ Rest
LinkBad(p) ==
    LET f == [Ilock(ip[p]) EXCEPT !.nlink = @ - 1] IN
    /\ At(p, "unlinkbad") /\ lock[ip[p]] = "free"
    /\ IF NoType(ip[p]) THEN Panic("ilock: no type")
       ELSE /\ Section(p, ip[p], f, Iupdate(dinode, f), "free")
            /\ Continue(p)
            /\ UNCHANGED <<Walking, ip, dp, name>> /\ Rest

\* sys_unlink(): lock the directory and find the entry; lock its inode, clear the
\* entry and unlock the directory; after the iput() of the directory, uncount the link.
Unlink(p) ==
    LET s == dp[p]
        e == Ilock(s)
        t == [itable EXCEPT ![s] = e] IN
    /\ At(p, "unlink") /\ lock[s] = "free"
    /\ IF NoType(s) \/ e.type # "T_DIR" THEN Panic(IF NoType(s) THEN "ilock: no type" ELSE "dirlookup not DIR")
       ELSE /\ IF name[p] \in {".", ".."} \/ Lookup(dinode, e.inum, name[p]) = 0
               THEN itable' = t /\ Goto(p, Put(s) \o bad[p]) /\ UNCHANGED <<ip, lock>>
               ELSE LET i == Entry(dinode, e.inum, name[p]) IN
                    /\ itable' = Iget(t, i)
                    /\ ip' = [ip EXCEPT ![p] = IgetSlot(t, i)]
                    /\ lock' = [lock EXCEPT ![s] = p]
                    /\ Then(p, <<<<"unlink2", 0>>>>)
            /\ UNCHANGED <<dinode, Walking, dp, name>> /\ Rest
Unlink2(p) ==
    LET s == ip[p]
        e == Ilock(s)
        D == itable[dp[p]]
        isdir == e.type = "T_DIR"
        k == Lookup(dinode, D.inum, name[p])
        f == [D EXCEPT !.nlink = IF isdir THEN @ - 1 ELSE @]
        cleared == [dinode EXCEPT ![D.inum].ents[k] = [name |-> ".", inum |-> 0]] IN
    /\ At(p, "unlink2") /\ lock[s] = "free"
    /\ IF NoType(s) THEN Panic("ilock: no type")
       ELSE IF e.nlink < 1 THEN Panic("unlink: nlink < 1")
       ELSE /\ IF isdir /\ ~IsDirEmpty(e.inum)
               THEN /\ itable' = [itable EXCEPT ![s] = e]
                    /\ Goto(p, Put(s) \o <<<<"unlockdp", 0>>>> \o bad[p])
                    /\ UNCHANGED <<dinode, lock>>
               ELSE /\ itable' = [itable EXCEPT ![s] = e, ![dp[p]] = f]
                    /\ dinode' = Iupdate(cleared, f)
                    /\ lock' = [lock EXCEPT ![s] = p, ![dp[p]] = "free"]
                    /\ Then(p, Put(dp[p]) \o <<<<"unlink3", 0>>>>)
            /\ UNCHANGED <<Walking, ip, dp, name>> /\ Rest
Unlink3(p) ==
    LET f == [itable[ip[p]] EXCEPT !.nlink = @ - 1] IN
    /\ At(p, "unlink3")
    /\ Section(p, ip[p], f, Iupdate(dinode, f), "free")
    /\ Then(p, Put(ip[p]))
    /\ UNCHANGED <<Walking, ip, dp, name>> /\ Rest
\* Mutant: iput(dp) in place of iunlockput(dp).
UnlockDpNot(p) ==
    /\ At(p, "unlockdp")
    /\ Then(p, Put(dp[p]))
    /\ UNCHANGED <<dinode, itable, lock, Walking, ip, dp, name>> /\ Rest
UnlockDp(p) ==
    /\ At(p, "unlockdp")
    /\ lock' = [lock EXCEPT ![dp[p]] = "free"]
    /\ Then(p, Put(dp[p]))
    /\ UNCHANGED <<dinode, itable, Walking, ip, dp, name>> /\ Rest

-----------------------------------------------------------------------------
\* ialloc(): the first free inode on the disk, or 0; it is marked allocated by its type.
Ialloc(d) ==
    LET free == {i \in Inum : d[i].type = "none"} IN
    IF free = {} THEN 0 ELSE CHOOSE i \in free : \A j \in free : i <= j
MarkAllocated(d, i, type) == [d EXCEPT ![i] = [Free EXCEPT !.type = type]]

\* create(): with the directory locked, find the name, or allocate an inode; then
\* lock that inode and link it, or give it up.
Create(p) ==
    LET s == dp[p]
        e == Ilock(s)
        t == [itable EXCEPT ![s] = e]
        new == Ialloc(dinode) IN
    /\ At(p, "create") /\ lock[s] = "free"
    /\ IF NoType(s) \/ e.type # "T_DIR" THEN Panic(IF NoType(s) THEN "ilock: no type" ELSE "dirlookup not DIR")
       ELSE /\ IF Lookup(dinode, e.inum, name[p]) # 0
               THEN LET i == Entry(dinode, e.inum, name[p]) IN
                    /\ itable' = Iget(t, i)
                    /\ ip' = [ip EXCEPT ![p] = IgetSlot(t, i)]
                    /\ Then(p, Put(s) \o <<<<"exists", Arg(p)>>>>)
                    /\ UNCHANGED <<dinode, lock>>
               ELSE IF new = 0
               THEN itable' = t /\ Goto(p, Put(s) \o bad[p]) /\ UNCHANGED <<dinode, ip, lock>>
               ELSE /\ dinode' = MarkAllocated(dinode, new, Arg(p))
                    /\ itable' = Iget(t, new)
                    /\ ip' = [ip EXCEPT ![p] = IgetSlot(t, new)]
                    /\ lock' = [lock EXCEPT ![s] = p]
                    /\ Then(p, <<<<"create2", Arg(p)>>>>)
            /\ UNCHANGED <<Walking, dp, name>> /\ Rest
Exists(p) ==
    LET e == Ilock(ip[p])
        ok == Arg(p) = "T_FILE" /\ e.type \in {"T_FILE", "T_DEVICE"} IN
    /\ At(p, "exists") /\ lock[ip[p]] = "free"
    /\ IF NoType(ip[p]) THEN Panic("ilock: no type")
       ELSE /\ Section(p, ip[p], e, dinode, IF ok THEN p ELSE "free")
            /\ IF ok THEN Continue(p) ELSE Goto(p, Put(ip[p]) \o bad[p])
            /\ UNCHANGED <<Walking, ip, dp, name>> /\ Rest
\* Mutant: without ip->nlink = 1.
NewInodeNoLink(s) == Ilock(s)
NewInode(s) == [Ilock(s) EXCEPT !.nlink = 1]
Create2(p) ==
    \E fullI, fullD \in BOOLEAN :
    LET s == ip[p]
        e == NewInode(s)
        D == itable[dp[p]]
        isdir == Arg(p) = "T_DIR"
        f == [D EXCEPT !.nlink = IF isdir THEN @ + 1 ELSE @]
        made == Iupdate(dinode, e)
        dots == IF isdir THEN Dirlink(Dirlink(made, e.inum, ".", e.inum), e.inum, "..", D.inum)
                ELSE made
        fails == (isdir /\ fullI) \/ LinkFails(dots, D.inum, name[p], fullD) IN
    /\ At(p, "create2") /\ lock[s] = "free"
    /\ isdir \/ ~fullI
    /\ IF NoType(s) THEN Panic("ilock: no type")
       ELSE /\ IF fails
               THEN /\ itable' = [itable EXCEPT ![s] = [e EXCEPT !.nlink = 0]]
                    /\ dinode' = Iupdate(IF isdir /\ fullI THEN made ELSE dots, [e EXCEPT !.nlink = 0])
                    /\ Goto(p, Put(s) \o <<<<"unlockdp", 0>>>> \o bad[p])
                    /\ UNCHANGED lock
               ELSE /\ itable' = [itable EXCEPT ![s] = e, ![dp[p]] = f]
                    /\ dinode' = Iupdate(Dirlink(dots, D.inum, name[p], e.inum), f)
                    /\ lock' = [lock EXCEPT ![s] = p, ![dp[p]] = "free"]
                    /\ Then(p, Put(dp[p]))
            /\ UNCHANGED <<Walking, ip, dp, name>> /\ Rest

\* sys_mkdir() and sys_mknod() after create(): iunlockput(ip).
IunlockPut(p) ==
    /\ At(p, "iunlockput")
    /\ lock' = [lock EXCEPT ![ip[p]] = "free"]
    /\ Then(p, Put(ip[p]))
    /\ UNCHANGED <<dinode, itable, Walking, ip, dp, name>> /\ Rest

\* sys_open(): a directory only opens for reading; no file or descriptor left fails.
OpenLock(p) ==
    \E rdonly \in BOOLEAN :
    LET e == Ilock(ip[p])
        ok == e.type # "T_DIR" \/ rdonly IN
    /\ At(p, "openlock") /\ lock[ip[p]] = "free"
    /\ IF NoType(ip[p]) THEN Panic("ilock: no type")
       ELSE /\ Section(p, ip[p], e, dinode, IF ok THEN p ELSE "free")
            /\ IF ok THEN Continue(p) ELSE Goto(p, Put(ip[p]) \o bad[p])
            /\ UNCHANGED <<Walking, ip, dp, name>> /\ Rest
OpenFile(p) ==
    /\ At(p, "openfile")
    /\ lock' = [lock EXCEPT ![ip[p]] = "free"]
    /\ IF file[p] # 0 THEN Then(p, Put(ip[p])) /\ UNCHANGED file
       ELSE file' = [file EXCEPT ![p] = ip[p]] /\ Continue(p)
    /\ UNCHANGED <<dinode, committed, outstanding, group, itable, cwd, Walking, ip, dp, name, boot, panicked>>

\* sys_chdir(): p->cwd changes after end_op().
\* Mutant: the old directory is not put.
ChdirLeak(p) ==
    LET e == Ilock(ip[p]) IN
    /\ At(p, "chdir") /\ lock[ip[p]] = "free"
    /\ IF NoType(ip[p]) THEN Panic("ilock: no type")
       ELSE /\ itable' = [itable EXCEPT ![ip[p]] = e]
            /\ IF e.type # "T_DIR" THEN Goto(p, Put(ip[p]) \o bad[p])
               ELSE Goto(p, EndOp \o <<<<"setcwd", ip[p]>>>>)
            /\ UNCHANGED <<dinode, lock, Walking, ip, dp, name>> /\ Rest
Chdir(p) ==
    LET e == Ilock(ip[p]) IN
    /\ At(p, "chdir") /\ lock[ip[p]] = "free"
    /\ IF NoType(ip[p]) THEN Panic("ilock: no type")
       ELSE /\ itable' = [itable EXCEPT ![ip[p]] = e]
            /\ IF e.type # "T_DIR" THEN Goto(p, Put(ip[p]) \o bad[p])
               ELSE Goto(p, Put(cwd[p]) \o EndOp \o <<<<"setcwd", ip[p]>>>>)
            /\ UNCHANGED <<dinode, lock, Walking, ip, dp, name>> /\ Rest
SetCwd(p) ==
    /\ At(p, "setcwd")
    /\ cwd' = [cwd EXCEPT ![p] = Arg(p)]
    /\ Continue(p)
    /\ UNCHANGED <<dinode, committed, outstanding, group, itable, lock, file, Walking, ip, dp, name, boot,
                   panicked>>

-----------------------------------------------------------------------------
\* A crash keeps what was committed; ireclaim() then frees the orphans, one by one.
Crash ==
    /\ panicked = ""
    /\ dinode' = committed
    /\ outstanding' = 0 /\ group' = 0
    /\ itable' = BootTable
    /\ lock' = [s \in Slot |-> "free"]
    /\ cwd' = [p \in Proc |-> 1] /\ file' = [p \in Proc |-> 0]
    /\ tasks' = [p \in Proc |-> <<>>] /\ bad' = [p \in Proc |-> <<>>]
    /\ cur' = [p \in Proc |-> 0] /\ rest' = [p \in Proc |-> <<>>]
    /\ ip' = [p \in Proc |-> 0] /\ dp' = [p \in Proc |-> 0] /\ name' = [p \in Proc |-> "."]
    /\ boot' = 1
    /\ UNCHANGED <<committed, panicked>>
Orphan(d, i) == d[i].type # "none" /\ d[i].nlink = 0
\* The loop over inums: the next one, or 0 at the end.
\* Mutant: it stops one short.
NextInumShort(i) == IF i + 2 < NINODES THEN i + 1 ELSE 0
NextInum(i) == IF i + 1 < NINODES THEN i + 1 ELSE 0
Ireclaim ==
    /\ boot # 0
    /\ dinode' = IF Orphan(dinode, boot) THEN [dinode EXCEPT ![boot] = Free] ELSE dinode
    /\ committed' = dinode'
    /\ boot' = NextInum(boot)
    /\ UNCHANGED <<outstanding, group, itable, lock, cwd, file, locals, panicked>>

Kernel(p) ==
    \/ EndOpStep(p) \/ Namex(p) \/ Iput(p) \/ Itrunc(p) \/ Invalidate(p) \/ DropRef(p)
    \/ Link(p) \/ LinkDir(p) \/ LinkBad(p)
    \/ Unlink(p) \/ Unlink2(p) \/ Unlink3(p) \/ UnlockDp(p)
    \/ Create(p) \/ Exists(p) \/ Create2(p) \/ IunlockPut(p)
    \/ OpenLock(p) \/ OpenFile(p) \/ Chdir(p) \/ SetCwd(p)
Next ==
    \/ \E p \in Proc : Close(p) \/ Kernel(p) \/ \E c \in Calls[p] : Call(p, c)
    \/ Crash
    \/ Ireclaim
Spec == Init /\ [][Next]_vars

-----------------------------------------------------------------------------

\* Between calls, the references are those of current directories and open files:
\* every path of every call gives back what it took.
Holders(s) == Cardinality({p \in Proc : cwd[p] = s}) + Cardinality({p \in Proc : file[p] = s})
RefsBalanced ==
    (Up /\ \A p \in Proc : tasks[p] = <<>>) => \A s \in Slot : itable[s].ref = Holders(s)

\* An entry that is valid and not locked agrees with the disk, also when its inode
\* was freed and allocated again meanwhile.
TableIsCoherent ==
    \A s \in Slot : itable[s].valid /\ lock[s] = "free" =>
        LET d == dinode[itable[s].inum] IN itable[s].type = d.type /\ itable[s].nlink = d.nlink

\* The inode a process waits for.
Wanted(p) ==
    IF ~Up \/ tasks[p] = <<>> THEN 0
    ELSE CASE Head(tasks[p])[1] \in {"namei", "nameiparent"} -> IF rest[p] = <<>> THEN 0 ELSE cur[p]
           [] Head(tasks[p])[1] \in {"link", "unlinkbad", "unlink2", "exists", "create2", "openlock",
                                     "chdir"} -> ip[p]
           [] Head(tasks[p])[1] \in {"linkdir", "unlink", "create"} -> dp[p]
           [] OTHER -> 0
\* No circle of processes waits for each other's inode locks.
NoLockCycle ==
    \A S \in SUBSET Proc \ {{}} :
        \E p \in S : Wanted(p) = 0 \/ lock[Wanted(p)] \notin S

\* On disk, and in what a crash would leave there, a name leads to an allocated
\* inode, which counts at least the names that lead to it.
Names(d, i) ==
    {<<j, k>> \in Inum \X (1..4) : /\ d[j].type = "T_DIR" /\ k \in DOMAIN d[j].ents
                                   /\ d[j].ents[k].inum = i /\ d[j].ents[k].name \in Name}
NoDanglingNames ==
    \A d \in {dinode, committed} : \A i \in Inum :
        Names(d, i) # {} => d[i].type # "none" /\ d[i].nlink >= Cardinality(Names(d, i))

\* ireclaim() leaves no orphan, wherever the crash fell.
OrphansReclaimed == [][boot # 0 /\ boot' = 0 => \A i \in Inum : ~Orphan(dinode', i)]_vars

\* While the system is up an inode without links is in use, and the iput() of its last
\* user frees it.  The code does not keep this: an iput() that has freed an inode drops
\* its reference later, and by then create() may have allocated the inode again and
\* given it up with ref = 2.
OrphansHaveHolders ==
    Up => \A i \in Inum : Orphan(dinode, i) => InTable(itable, i) # {}

\* Between calls the link count of an inode is the number of its links: names, one
\* ".." per subdirectory, and one for the root.  No run checks it, since the code does
\* not keep it: create() does not look whether its directory was removed between
\* nameiparent() and ilock(), and the name is lost when that directory is freed.
Subdirs(i) == {k \in DOMAIN dinode[i].ents : /\ dinode[i].ents[k].name \in Name
                                             /\ dinode[i].ents[k].inum # 0
                                             /\ dinode[dinode[i].ents[k].inum].type = "T_DIR"}
LinkCountExact ==
    (Up /\ \A p \in Proc : tasks[p] = <<>>) =>
    \A i \in Inum : dinode[i].type # "none" =>
        dinode[i].nlink = Cardinality(Names(dinode, i)) + Cardinality(Subdirs(i))
                          + (IF i = ROOTINO THEN 1 ELSE 0)
=============================================================================
