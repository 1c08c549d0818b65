----------------------------- MODULE ProcTable -----------------------------
(***************************************************************************)
(* Processes and CPUs of kernel/proc.c: the scheduler, sleep and wakeup,   *)
(* fork, exit, wait and kill.                                              *)
(*                                                                         *)
(* The spin locks p->lock and wait_lock are modelled as they are held: a   *)
(* step that acquires a lock waits until it is free, and a critical        *)
(* section that takes no second lock is one step.  p->lock is handed       *)
(* between a process and the scheduler across swtch(), so it belongs to a  *)
(* CPU.  A process moves only while a CPU runs it.                         *)
(*                                                                         *)
(* wakeup() and kwait() visit the table one entry, and one p->lock, at a   *)
(* time.  User code is any sequence of fork, exit, wait and kill calls;    *)
(* init never exits, and nobody kills it (kexit() would panic "init        *)
(* exiting").                                                              *)
(***************************************************************************)
EXTENDS Integers, FiniteSets

CONSTANTS NPROC,  \* process table entries
          NCPU    \* CPUs

ASSUME TableAssumption == NPROC \in Nat \ {0} /\ NCPU \in Nat \ {0}

Proc == 1..NPROC
CPU == 1..NCPU
initproc == 1

VARIABLES
    state, parent, chan, killed,  \* struct proc, by table entry; 0 is a null pointer
    plock,      \* the CPU that holds p->lock, or 0
    waitlock,   \* the process that holds wait_lock, or 0
    running,    \* c->proc, or 0
    switched,   \* c has swtch()ed back to scheduler(), which still holds p->lock
    pc, ret,    \* where a process is, and where sched() returns to
    cur,        \* the loop variable of wakeup() and kwait(), 1 outside a loop
    havekids,   \* kwait()'s local variable
    child       \* kfork()'s np

procVars == <<state, parent, chan, killed>>
lockVars == <<plock, waitlock>>
cpuVars == <<running, switched>>
localVars == <<ret, cur, havekids, child>>
vars == <<procVars, lockVars, cpuVars, pc, localVars>>

States == {"UNUSED", "USED", "SLEEPING", "RUNNABLE", "RUNNING", "ZOMBIE"}
Labels == {"none", "user", "resume", "fork_parent", "fork_run", "reparent", "wk_init",
           "wk_parent", "zombie", "dead", "wait_spin", "wait_scan", "wait_check",
           "wait_sleep", "wait_relock"}

\* The types of struct proc and struct cpu: the loops of wakeup(), kwait() and
\* reparent() stay inside the process table.
TypeOK ==
    /\ state \in [Proc -> States]
    /\ parent \in [Proc -> 0..NPROC] /\ chan \in [Proc -> 0..NPROC]
    /\ killed \in [Proc -> BOOLEAN]
    /\ plock \in [Proc -> 0..NCPU] /\ waitlock \in 0..NPROC
    /\ running \in [CPU -> 0..NPROC] /\ switched \in [CPU -> BOOLEAN]
    /\ pc \in [Proc -> Labels] /\ ret \in [Proc -> Labels]
    /\ cur \in [Proc -> Proc]
    /\ havekids \in [Proc -> BOOLEAN] /\ child \in [Proc -> 0..NPROC]

\* After userinit(): init is runnable and will start in forkret().
Init ==
    /\ state = [p \in Proc |-> IF p = initproc THEN "RUNNABLE" ELSE "UNUSED"]
    /\ parent = [p \in Proc |-> 0]
    /\ chan = [p \in Proc |-> 0]
    /\ killed = [p \in Proc |-> FALSE]
    /\ plock = [p \in Proc |-> 0]
    /\ waitlock = 0
    /\ running = [c \in CPU |-> 0]
    /\ switched = [c \in CPU |-> FALSE]
    /\ pc = [p \in Proc |-> IF p = initproc THEN "resume" ELSE "none"]
    /\ ret = [p \in Proc |-> IF p = initproc THEN "user" ELSE "none"]
    /\ cur = [p \in Proc |-> 1]
    /\ havekids = [p \in Proc |-> FALSE]
    /\ child = [p \in Proc |-> 0]

On(p, c) == running[c] = p /\ ~switched[c]
\* The next entry of a loop over the table, the first one after the last.
NextEntry(q) == IF q < NPROC THEN q + 1 ELSE 1

Goto(p, l) == pc' = [pc EXCEPT ![p] = l]

-----------------------------------------------------------------------------
\* scheduler(): p is runnable, switch to it holding p->lock.
Schedule(c, p) ==
    /\ running[c] = 0
    /\ plock[p] = 0
    /\ state[p] = "RUNNABLE"
    /\ state' = [state EXCEPT ![p] = "RUNNING"]
    /\ running' = [running EXCEPT ![c] = p]
    /\ plock' = [plock EXCEPT ![p] = c]
    /\ UNCHANGED <<parent, chan, killed, waitlock, switched, pc, localVars>>

\* scheduler() after swtch() returns: c->proc = 0 and release(&p->lock).
SwitchBack(c) ==
    /\ switched[c]
    /\ plock' = [plock EXCEPT ![running[c]] = 0]
    /\ running' = [running EXCEPT ![c] = 0]
    /\ switched' = [switched EXCEPT ![c] = FALSE]
    /\ UNCHANGED <<procVars, waitlock, pc, localVars>>

\* sched(): the CPU holds p->lock when it switches to scheduler().
SchedMutant(p, c) ==
    /\ switched' = [switched EXCEPT ![c] = TRUE]
    /\ UNCHANGED <<plock, running>>
Sched(p, c) ==
    /\ plock' = [plock EXCEPT ![p] = c]
    /\ switched' = [switched EXCEPT ![c] = TRUE]
    /\ UNCHANGED running

\* forkret(), or the code after sched() in yield() and sleep(): release p->lock.
Resume(p, c) ==
    /\ On(p, c)
    /\ pc[p] = "resume"
    /\ plock' = [plock EXCEPT ![p] = 0]
    /\ chan' = IF ret[p] = "wait_relock" THEN [chan EXCEPT ![p] = 0] ELSE chan
    /\ Goto(p, ret[p])
    /\ ret' = [ret EXCEPT ![p] = "none"]
    /\ UNCHANGED <<state, parent, killed, waitlock, cpuVars, cur, havekids, child>>

\* A timer interrupt, possible wherever no spin lock is held: yield().  From user
\* mode usertrap() calls kexit() instead if the process is killed.
Yield(p, c) ==
    /\ On(p, c)
    /\ pc[p] \in {"user", "fork_parent", "fork_run", "wait_relock"}
    /\ pc[p] = "user" => ~killed[p]
    /\ plock[p] = 0
    /\ state' = [state EXCEPT ![p] = "RUNNABLE"]
    /\ Sched(p, c)
    /\ Goto(p, "resume")
    /\ ret' = [ret EXCEPT ![p] = pc[p]]
    /\ UNCHANGED <<parent, chan, killed, waitlock, cur, havekids, child>>

-----------------------------------------------------------------------------
\* kfork(): allocproc() and the copy of the parent, under np->lock.  When no
\* entry is free or memory runs out it returns with the table as it was.  The scan
\* for a free entry takes one lock at a time, so it need not find the lowest one.
AllocProc(p, c) ==
    /\ On(p, c)
    /\ pc[p] = "user" /\ ~killed[p]
    /\ \E np \in Proc :
         /\ plock[np] = 0
         /\ state[np] = "UNUSED"
         /\ state' = [state EXCEPT ![np] = "USED"]
         /\ child' = [child EXCEPT ![p] = np]
         /\ pc' = [pc EXCEPT ![p] = "fork_parent", ![np] = "resume"]
         /\ ret' = [ret EXCEPT ![np] = "user"]
    /\ UNCHANGED <<parent, chan, killed, lockVars, cpuVars, cur, havekids>>

\* kfork(): np->parent = p under wait_lock.
ForkParent(p, c) ==
    /\ On(p, c)
    /\ pc[p] = "fork_parent"
    /\ waitlock = 0
    /\ parent' = [parent EXCEPT ![child[p]] = p]
    /\ Goto(p, "fork_run")
    /\ UNCHANGED <<state, chan, killed, lockVars, cpuVars, localVars>>

\* kfork(): np->state = RUNNABLE under np->lock.
ForkRun(p, c) ==
    /\ On(p, c)
    /\ pc[p] = "fork_run"
    /\ plock[child[p]] = 0
    /\ state' = [state EXCEPT ![child[p]] = "RUNNABLE"]
    /\ child' = [child EXCEPT ![p] = 0]
    /\ Goto(p, "user")
    /\ UNCHANGED <<parent, chan, killed, lockVars, cpuVars, ret, cur, havekids>>

-----------------------------------------------------------------------------
\* kexit() up to acquire(&wait_lock): the process asked to, or was killed.
ExitStart(p, c) ==
    /\ On(p, c)
    /\ pc[p] = "user"
    /\ p # initproc
    /\ waitlock = 0
    /\ waitlock' = p
    /\ Goto(p, "reparent")
    /\ UNCHANGED <<procVars, plock, cpuVars, localVars>>

\* One entry of the loop of reparent(): a child goes to init, and init is woken.
\* With no child left, kexit() goes on to wake its parent.
Kids(p) == {q \in Proc : parent[q] = p}
Reparent(p, c) ==
    /\ On(p, c)
    /\ pc[p] = "reparent"
    /\ IF Kids(p) # {}
       THEN LET q == CHOOSE k \in Kids(p) : \A j \in Kids(p) : k <= j IN
            /\ parent' = [parent EXCEPT ![q] = initproc]
            /\ Goto(p, "wk_init")
       ELSE UNCHANGED parent /\ Goto(p, "wk_parent")
    /\ UNCHANGED <<state, chan, killed, lockVars, cpuVars, localVars>>

\* The channel of the wakeup() that p is in.
WakeTarget(p) == IF pc[p] = "wk_init" THEN initproc ELSE parent[p]

\* One entry of the loop of wakeup(), called by reparent() and kexit().
WakeupStep(p, c) ==
    LET q == cur[p] IN
    /\ On(p, c)
    /\ pc[p] \in {"wk_init", "wk_parent"}
    /\ q # p => plock[q] = 0
    /\ state' = IF q # p /\ state[q] = "SLEEPING" /\ chan[q] = WakeTarget(p)
                THEN [state EXCEPT ![q] = "RUNNABLE"] ELSE state
    /\ cur' = [cur EXCEPT ![p] = NextEntry(q)]
    /\ Goto(p, IF q < NPROC THEN pc[p]
               ELSE IF pc[p] = "wk_init" THEN "reparent" ELSE "zombie")
    /\ UNCHANGED <<parent, chan, killed, lockVars, cpuVars, ret, havekids, child>>

\* The end of kexit(): ZOMBIE under both locks, then never to run again.
Zombie(p, c) ==
    /\ On(p, c)
    /\ pc[p] = "zombie"
    /\ plock[p] = 0
    /\ state' = [state EXCEPT ![p] = "ZOMBIE"]
    /\ waitlock' = 0
    /\ Sched(p, c)
    /\ Goto(p, "dead")
    /\ UNCHANGED <<parent, chan, killed, localVars>>

-----------------------------------------------------------------------------
\* kwait() calls acquire(&wait_lock), on entry and after sleep(): interrupts are
\* off from here on, also while it spins.
WaitCall(p, c) ==
    /\ On(p, c)
    /\ pc[p] = "wait_relock" \/ (pc[p] = "user" /\ ~killed[p])
    /\ Goto(p, "wait_spin")
    /\ UNCHANGED <<procVars, lockVars, cpuVars, localVars>>

\* acquire() gets wait_lock: a scan starts.
WaitStart(p, c) ==
    /\ On(p, c)
    /\ pc[p] = "wait_spin"
    /\ waitlock = 0
    /\ waitlock' = p
    /\ Goto(p, "wait_scan")
    /\ UNCHANGED <<procVars, plock, cpuVars, localVars>>

\* kwait() takes pp->lock before it looks at a child.
ChildLockFreeMutant(q) == TRUE
ChildLockFree(q) == plock[q] = 0

\* kwait()'s scan is over after &proc[NPROC-1].
ScanOverMutant(q) == q >= NPROC - 1
ScanOver(q) == q = NPROC

\* One entry of the scan of kwait(): free a zombie child and return, or go on.
\* If copyout() fails kwait() returns and leaves the zombie; init calls wait(0),
\* which copies nothing out.
WaitScan(p, c) ==
    LET q == cur[p]
        kid == parent[q] = p IN
    /\ On(p, c)
    /\ pc[p] = "wait_scan"
    /\ kid => ChildLockFree(q)
    /\ IF kid /\ state[q] = "ZOMBIE"
       THEN /\ \/ /\ state' = [state EXCEPT ![q] = "UNUSED"]
                  /\ parent' = [parent EXCEPT ![q] = 0]
                  /\ chan' = [chan EXCEPT ![q] = 0]
                  /\ killed' = [killed EXCEPT ![q] = FALSE]
                  /\ pc' = [pc EXCEPT ![p] = "user", ![q] = "none"]
               \/ p # initproc /\ Goto(p, "user") /\ UNCHANGED procVars
            /\ waitlock' = 0
            /\ cur' = [cur EXCEPT ![p] = 1]
            /\ havekids' = [havekids EXCEPT ![p] = FALSE]
       ELSE /\ havekids' = [havekids EXCEPT ![p] = @ \/ kid]
            /\ cur' = [cur EXCEPT ![p] = IF ScanOver(q) THEN 1 ELSE NextEntry(q)]
            /\ Goto(p, IF ScanOver(q) THEN "wait_check" ELSE "wait_scan")
            /\ UNCHANGED <<procVars, waitlock>>
    /\ UNCHANGED <<plock, cpuVars, ret, child>>

\* kwait() after the scan: killed() takes p->lock for a moment.
\* wait_lock stays held when kwait() decides to sleep.
KeepWaitLockMutant == 0
KeepWaitLock == waitlock
WaitCheck(p, c) ==
    /\ On(p, c)
    /\ pc[p] = "wait_check"
    /\ plock[p] = 0
    /\ IF ~havekids[p] \/ killed[p]
       THEN waitlock' = 0 /\ Goto(p, "user")
       ELSE waitlock' = KeepWaitLock /\ Goto(p, "wait_sleep")
    /\ havekids' = [havekids EXCEPT ![p] = FALSE]
    /\ UNCHANGED <<procVars, plock, cpuVars, ret, cur, child>>

\* sleep(p, &wait_lock) up to sched().
Sleep(p, c) ==
    /\ On(p, c)
    /\ pc[p] = "wait_sleep"
    /\ plock[p] = 0
    /\ waitlock' = IF waitlock = p THEN 0 ELSE waitlock
    /\ chan' = [chan EXCEPT ![p] = p]
    /\ state' = [state EXCEPT ![p] = "SLEEPING"]
    /\ Sched(p, c)
    /\ Goto(p, "resume")
    /\ ret' = [ret EXCEPT ![p] = "wait_relock"]
    /\ UNCHANGED <<parent, killed, cur, havekids, child>>

-----------------------------------------------------------------------------
\* kkill() of the entry with the given pid, under its lock.  An UNUSED entry has
\* pid 0, which kkill() does not tell from a process.
Kill(p, c, q) ==
    /\ On(p, c)
    /\ pc[p] = "user" /\ ~killed[p]
    /\ q # initproc
    /\ plock[q] = 0
    /\ killed' = [killed EXCEPT ![q] = TRUE]
    /\ state' = IF state[q] = "SLEEPING" THEN [state EXCEPT ![q] = "RUNNABLE"] ELSE state
    /\ UNCHANGED <<parent, chan, lockVars, cpuVars, pc, localVars>>

\* The steps a process takes once it has entered the kernel.
KernelStep(p, c) ==
    \/ ForkParent(p, c) \/ ForkRun(p, c)
    \/ Reparent(p, c) \/ WakeupStep(p, c) \/ Zombie(p, c)
    \/ WaitStart(p, c) \/ WaitScan(p, c) \/ WaitCheck(p, c) \/ Sleep(p, c)
    \/ (pc[p] = "wait_relock" /\ WaitCall(p, c))

Next ==
    \/ \E c \in CPU : SwitchBack(c)
    \/ \E c \in CPU, p \in Proc :
         \/ Schedule(c, p)
         \/ Resume(p, c)
         \/ KernelStep(p, c)
         \/ Yield(p, c)
         \/ AllocProc(p, c)
         \/ ExitStart(p, c)
         \/ WaitCall(p, c)
         \/ \E q \in Proc : Kill(p, c, q)

Spec == Init /\ [][Next]_vars

\* Each CPU executes; the scheduler's loop visits every entry, so an entry that is
\* runnable again and again is chosen, by one CPU or another; spin locks are
\* eventually granted; user code is interrupted by the timer and yields, or exits
\* when it is killed; init calls wait for ever.
Fairness ==
    /\ \A c \in CPU : WF_vars(SwitchBack(c))
    /\ \A p \in Proc :
         /\ SF_vars(\E c \in CPU : Schedule(c, p) \/ Resume(p, c))
         /\ SF_vars(\E c \in CPU : KernelStep(p, c))
         /\ SF_vars(\E c \in CPU : Yield(p, c) \/ (killed[p] /\ ExitStart(p, c)))
    /\ SF_vars(\E c \in CPU : WaitCall(initproc, c))

LiveSpec == Spec /\ Fairness

-----------------------------------------------------------------------------
\* A process is on at most one CPU, it is RUNNING exactly when its code may run
\* there, and p->lock is held while a CPU switches to or from it.
OneCpuPerProcess ==
    /\ \A c, d \in CPU : running[c] = running[d] /\ running[c] # 0 => c = d
    /\ \A p \in Proc : state[p] = "RUNNING" <=> \E c \in CPU : On(p, c)
    /\ \A c \in CPU : switched[c] => plock[running[c]] = c

\* An entry that kwait() has freed, or that fork is filling, is on no CPU: nobody
\* still executes on the kernel stack that the next process will use.
FreedStackIdle ==
    \A p \in Proc : state[p] \in {"UNUSED", "USED"} => \A c \in CPU : running[c] # p

\* A parent is never asleep in wait() with a zombie child, except while the exiting
\* process that is passing it that child is still inside wakeup().
NoMissedExit ==
    \A p, q \in Proc :
        parent[q] = p /\ state[q] = "ZOMBIE" /\ state[p] = "SLEEPING" =>
            \E r \in Proc : pc[r] = "wk_init" /\ p = initproc

\* The zombies init inherits or forks do not pile up: init does not have a zombie
\* child for ever without reaping some child again and again.  (A particular zombie
\* may wait for ever: the scan of kwait() starts at the first entry every time.)
ZombiesReaped ==
    \/ []<>(\A p \in Proc : ~(state[p] = "ZOMBIE" /\ parent[p] = initproc))
    \/ []<><<\E p \in Proc : state[p] = "ZOMBIE" /\ state'[p] = "UNUSED"
                             /\ parent[p] = initproc>>_vars

\* kkill() wakes its victim from sleep(): a killed process is not left asleep in
\* wait(), where only the exit of a child would wake it.  No run checks it: kwait()
\* tests killed() before sleep() takes p->lock, and a kill between the two is missed.
KilledNotAsleep == \A p \in Proc : killed[p] => state[p] # "SLEEPING"

\* kkill() kills a process: an UNUSED entry is not marked, so that a process is
\* not killed before it exists.  No run checks it: an UNUSED entry has pid 0, and
\* kill(0) marks it.
UnusedNotKilled == \A p \in Proc : state[p] = "UNUSED" => ~killed[p]
=============================================================================
