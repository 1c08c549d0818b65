--------------------------------- MODULE Vm ---------------------------------
(***************************************************************************)
(* Physical pages, page tables and user memory: kalloc.c, vm.c, exec.c,    *)
(* sys_sbrk() and sys_exec(), and the parts of proc.c that make and free   *)
(* page tables (allocproc, freeproc, growproc, kfork, kwait).              *)
(*                                                                         *)
(* A page table is a tree: node maps the page-table pages of each level to *)
(* physical pages, leaf maps virtual page numbers to PTEs.  The kernel     *)
(* functions are operators on a record s, the machine state one kernel     *)
(* thread works on: the free list, the contents of memory, the page table  *)
(* it is building or freeing, the result of the last call and the panic    *)
(* it ran into.                                                            *)
(*                                                                         *)
(* Sizes and addresses are words of WORD bits.  Nothing in the kernel      *)
(* keeps p->sz below TRAPFRAME or below MAXVA, and nothing does here.      *)
(*                                                                         *)
(* Page tables are private to a process; only the free list is shared.     *)
(* Every operation below gives up at its first kalloc() that fails, so     *)
(* what the other processes do while it runs matters only through the      *)
(* number of kalloc() calls that succeed.  An operation is therefore one   *)
(* step that gets a budget, s.left, chosen freely: kalloc() fails when the *)
(* budget or the memory is exhausted.                                      *)
(***************************************************************************)
EXTENDS Integers, Sequences, FiniteSets, TLC, SequencesExt, FiniteSetsExt,
        Functions

CONSTANTS
    Proc,       \* the slots of proc[]
    initproc,   \* the first process
    NPAGE,      \* pages of physical memory, PHYSTOP
    PGSIZE,     \* bytes in a page
    FAN,        \* PTEs in a page-table page (512 in the code)
    LEVELS,     \* levels of the tree (3 in the code)
    USERSTACK,  \* stack pages
    MAXARG,     \* the most arguments of exec()
    PTRSIZE,    \* sizeof(uint64)
    ALIGN,      \* alignment of the user stack (16 in the code)
    WORD,       \* bits of an address
    InitExec,   \* the call that starts /init
    Execs,      \* the calls of exec(): a program, an argument vector, its address
    Calls,      \* Calls[p]: the operations p uses
    Budgets,    \* the numbers of kalloc() calls an operation may get
    Increments, \* Increments[t]: the arguments of sbrk() of type t
    Stores      \* the addresses user code stores to

\* There is less memory than user addresses: 2^15 pages against 2^26.
ASSUME VmAssumption ==
    /\ initproc \in Proc
    /\ {NPAGE, PGSIZE, FAN, LEVELS, USERSTACK, PTRSIZE, ALIGN} \subseteq Nat \ {0}
    /\ NPAGE <= FAN ^ LEVELS - 2
    /\ FAN ^ LEVELS * PGSIZE < 2 ^ WORD

VARIABLES
    free,       \* kmem.freelist: how often each page is on it
    mem,        \* the bytes of every physical page
    state,      \* p->state: "unused", "used" (before its first instruction),
                \* "running" or "zombie"
    pagetable,  \* p->pagetable
    sz,         \* p->sz
    trapframe,  \* p->trapframe
    panic,      \* the argument of panic(), or "none", and whether the kernel
                \* was working on an address space in past
    past        \* history: the processes whose size has been past TRAPFRAME
                \* since they have their page table

vars == <<free, mem, state, pagetable, sz, trapframe, panic, past>>

Page == 1 .. NPAGE
NULL == 0
Offset == 0 .. PGSIZE - 1
NVA == FAN ^ LEVELS                 \* MAXVA, in pages
TRAMPOLINE == NVA - 1
TRAPFRAME == NVA - 2
TrampolineCode == NPAGE + 1         \* a page of the kernel's text
Empty == [x \in {} |-> NULL]
NoTable == [node |-> Empty, leaf |-> Empty]
Root == <<LEVELS, 0>>

Zero == [i \in Offset |-> 0]
Fill(byte) == [i \in Offset |-> byte]
KallocJunk == 5
KfreeJunk == 1
UserByte == 7
ArgByte == 8
PtrByte == 9

Word(a) == a % 2 ^ WORD
PGROUNDUP(a) == (Word(a + PGSIZE - 1) \div PGSIZE) * PGSIZE
PGROUNDDOWN(a) == (a \div PGSIZE) * PGSIZE
\* The virtual page numbers of the pages that start in [from, to).
PagesIn(from, to) ==
    LET first == from \div PGSIZE
        last == (to + PGSIZE - 1) \div PGSIZE - 1
    IN  [i \in 1 .. (last - first + 1) |-> first + i - 1]

\* panic(): what the caller does afterwards no longer counts, see Commit.
Panic(s, why) ==
    [s EXCEPT !.ok = FALSE, !.panic = IF @.why = "none" THEN [why |-> why, past |-> s.past] ELSE @]

-----------------------------------------------------------------------------
(* kalloc.c *)

Kalloc(s) ==
    LET avail == {pg \in Page : s.free[pg] > 0}
    IN  IF s.left = 0 \/ avail = {}
        THEN [s EXCEPT !.got = NULL]
        ELSE LET r == Min(avail)
             IN  [s EXCEPT !.free[r] = @ - 1, !.mem[r] = Fill(KallocJunk),
                           !.left = @ - 1, !.got = r]

Kfree(s, pa) ==
    IF pa \notin Page
    THEN Panic(s, "kfree")
    ELSE [s EXCEPT !.free[pa] = @ + 1, !.mem[pa] = Fill(KfreeJunk)]

-----------------------------------------------------------------------------
(* vm.c: page tables *)

NodeOf(level, v) == <<level, v \div FAN ^ level>>

WalkLevel(s, level, v) ==
    LET nd == NodeOf(level, v)
        k == Kalloc(s)
    IN  IF ~s.ok \/ nd \in DOMAIN s.pt.node THEN s
        ELSE IF k.got = NULL THEN [k EXCEPT !.ok = FALSE]
        ELSE [k EXCEPT !.mem[k.got] = Zero,
                       !.pt.node = @ @@ (nd :> k.got)]

\* walk(pagetable, va, 1): the missing page-table pages on the way to the
\* PTE; those made before a failure stay in the tree.
Walk(s, v) ==
    IF v >= NVA
    THEN Panic(s, "walk")
    ELSE FoldLeft(LAMBDA t, level : WalkLevel(t, level, v), s,
                  [i \in 1 .. LEVELS - 1 |-> LEVELS - i])

\* walk(pagetable, va, 0) finds a PTE, and it is valid: ismapped().
IsMapped(pt, v) ==
    /\ \A level \in 1 .. LEVELS - 1 : NodeOf(level, v) \in DOMAIN pt.node
    /\ v \in DOMAIN pt.leaf

Walkaddr(pt, v) ==
    IF v < NVA /\ IsMapped(pt, v) /\ pt.leaf[v].u THEN pt.leaf[v].pa ELSE NULL

\* mappages() of one page, as every caller here uses it.
SetPte(s, v, pte) ==
    IF ~s.ok THEN s
    ELSE IF v \in DOMAIN s.pt.leaf
    THEN Panic(s, "mappages: remap")
    ELSE [s EXCEPT !.pt.leaf = @ @@ (v :> pte)]

Mappages(s, v, pte) == SetPte(Walk(s, v), v, pte)

Uvmcreate(s) ==
    LET k == Kalloc(s)
    IN  IF k.got = NULL
        THEN [k EXCEPT !.ok = FALSE]
        ELSE [k EXCEPT !.mem[k.got] = Zero,
                       !.pt = [node |-> (Root :> k.got), leaf |-> Empty]]

UnmapPage(s, v, do_free) ==
    LET t == IF do_free THEN Kfree(s, s.pt.leaf[v].pa) ELSE s
    IN  [t EXCEPT !.pt.leaf = Restrict(@, DOMAIN @ \ {v})]

\* The pages of a sequence that walk() finds mapped, and walk()'s panic at the
\* first one past MAXVA, after those before it have been worked on.
Mapped(pt, pages) == SelectSeq(pages, LAMBDA v : v < NVA /\ IsMapped(pt, v))
WalkPast(s, pages) ==
    IF \E v \in Range(pages) : v >= NVA THEN Panic(s, "walk") ELSE s

Uvmunmap(s, v, npages, do_free) ==
    LET pages == [i \in 1 .. npages |-> v + i - 1]
    IN  WalkPast(FoldLeft(LAMBDA t, x : UnmapPage(t, x, do_free), s, Mapped(s.pt, pages)), pages)

Uvmdealloc(s, oldsz, newsz) ==
    IF newsz >= oldsz
    THEN [s EXCEPT !.ret = oldsz]
    ELSE [Uvmunmap(s, PGROUNDUP(newsz) \div PGSIZE,
                   (PGROUNDUP(oldsz) - PGROUNDUP(newsz)) \div PGSIZE, TRUE)
          EXCEPT !.ret = newsz]

\* uvmalloc() fails at page v: everything from oldsz on is given back.
UvmallocFails(s, v, oldsz) ==
    [Uvmdealloc(s, v * PGSIZE, oldsz) EXCEPT !.ok = FALSE, !.ret = 0]

\* One page of uvmalloc(): kalloc(), then mappages(), whose result is s.
\* Mutant: the page is lost when mappages() fails.
AllocMappedLeak(s, pa, v, oldsz) == IF s.ok THEN s ELSE UvmallocFails(s, v, oldsz)
AllocMapped(s, pa, v, oldsz) == IF s.ok THEN s ELSE UvmallocFails(Kfree(s, pa), v, oldsz)

AllocPage(s, v, oldsz, w) ==
    LET k == Kalloc(s)
        z == [k EXCEPT !.mem[k.got] = Zero]
    IN  IF ~s.ok THEN s
        ELSE IF k.got = NULL THEN UvmallocFails(k, v, oldsz)
        ELSE AllocMapped(Mappages(z, v, [pa |-> k.got, u |-> TRUE, w |-> w]), k.got, v, oldsz)

\* Mutant: without oldsz = PGROUNDUP(oldsz).
UvmallocUnrounded(s, oldsz, newsz, w) ==
    IF newsz < oldsz
    THEN [s EXCEPT !.ret = oldsz]
    ELSE FoldLeft(LAMBDA t, v : AllocPage(t, v, oldsz, w),
                  [s EXCEPT !.ret = newsz], PagesIn(oldsz, newsz))

Uvmalloc(s, oldsz, newsz, w) ==
    IF newsz < oldsz
    THEN [s EXCEPT !.ret = oldsz]
    ELSE FoldLeft(LAMBDA t, v : AllocPage(t, v, PGROUNDUP(oldsz), w),
                  [s EXCEPT !.ret = newsz], PagesIn(PGROUNDUP(oldsz), newsz))

Freewalk(s) ==
    IF DOMAIN s.pt.leaf # {}
    THEN Panic(s, "freewalk: leaf")
    ELSE [FoldSet(LAMBDA nd, t : Kfree(t, s.pt.node[nd]), s, DOMAIN s.pt.node)
          EXCEPT !.pt = NoTable]

Uvmfree(s, size) ==
    Freewalk(IF size > 0 THEN Uvmunmap(s, 0, PGROUNDUP(size) \div PGSIZE, TRUE) ELSE s)

\* One page of uvmcopy(), from the table old to the one s builds: kalloc(), memmove()
\* and mappages(); on failure the pages before v are given back.
\* Mutant: without memmove().
MemmoveNot(s, pa, from) == s
Memmove(s, pa, from) == [s EXCEPT !.mem[pa] = s.mem[from]]

UvmcopyFails(s, v) == [Uvmunmap(s, 0, v, TRUE) EXCEPT !.ok = FALSE]
CopyMapped(s, pa, v) == IF s.ok THEN s ELSE UvmcopyFails(Kfree(s, pa), v)

CopyPage(s, old, v) ==
    LET k == Kalloc(s)
        pte == old.leaf[v]
    IN  IF ~s.ok THEN s
        ELSE IF k.got = NULL THEN UvmcopyFails(k, v)
        ELSE CopyMapped(Mappages(Memmove(k, k.got, pte.pa), v, [pte EXCEPT !.pa = k.got]), k.got, v)

Uvmcopy(s, old, size) ==
    LET pages == PagesIn(0, size)
        t == FoldLeft(LAMBDA x, v : CopyPage(x, old, v), s, Mapped(old, pages))
    IN  IF t.ok THEN WalkPast(t, pages) ELSE t

Uvmclear(s, v) ==
    IF ~IsMapped(s.pt, v)
    THEN Panic(s, "uvmclear")
    ELSE [s EXCEPT !.pt.leaf[v].u = FALSE]

-----------------------------------------------------------------------------
(* vm.c: user memory.  cur is p->sz of the running process.                *)

\* vmfault(): s.got is the new page, or NULL.  It looks va up in the table it
\* is given but maps the page in p->pagetable; the two differ in kexec(),
\* where s.own is FALSE.
Vmfault(s, va, cur) ==
    LET v == va \div PGSIZE
        k == Kalloc(s)
        z == [k EXCEPT !.mem[k.got] = Zero]
        mapped(t) == IF t.ok THEN [t EXCEPT !.got = k.got]
                     ELSE [Kfree(t, k.got) EXCEPT !.got = NULL, !.ok = TRUE]
    IN  IF va >= cur THEN [s EXCEPT !.got = NULL]
        ELSE IF v >= NVA THEN [Panic(s, "walk") EXCEPT !.got = NULL]
        ELSE IF IsMapped(s.pt, v) THEN [s EXCEPT !.got = NULL]
        ELSE IF k.got = NULL THEN k
        ELSE IF ~s.own THEN Panic(k, "vmfault: another page table")
        ELSE mapped(Mappages(z, v, [pa |-> k.got, u |-> TRUE, w |-> TRUE]))

\* One iteration of copyout(): the bytes of page v from the address a to
\* the address b, not included, once s.got is its physical page.
CopyBytes(s, v, a, b, byte) ==
    IF s.got = NULL \/ ~s.pt.leaf[v].w
    THEN [s EXCEPT !.ok = FALSE]
    ELSE [s EXCEPT !.mem[s.got] =
             [i \in Offset |-> IF v * PGSIZE + i \in a .. b - 1 THEN byte ELSE @[i]]]

CopyoutPage(s, v, a, b, byte, cur) ==
    LET pa0 == Walkaddr(s.pt, v)
    IN  IF ~s.ok THEN s
        ELSE IF v >= NVA THEN [s EXCEPT !.ok = FALSE]
        ELSE CopyBytes(IF pa0 = NULL THEN Vmfault(s, v * PGSIZE, cur) ELSE [s EXCEPT !.got = pa0],
                       v, a, b, byte)

Copyout(s, dstva, len, byte, cur) ==
    FoldLeft(LAMBDA t, v : CopyoutPage(t, v, dstva, dstva + len, byte, cur), s,
             IF len > 0 THEN PagesIn(PGROUNDDOWN(dstva), dstva + len) ELSE <<>>)

\* One iteration of copyin(): the page is made present, nothing is written.
CopyinPage(s, v, cur) ==
    LET present(t) == [t EXCEPT !.ok = @ /\ t.got # NULL]
    IN  IF ~s.ok \/ Walkaddr(s.pt, v) # NULL THEN s ELSE present(Vmfault(s, v * PGSIZE, cur))

Copyin(s, srcva, len, cur) ==
    FoldLeft(LAMBDA t, v : CopyinPage(t, v, cur), s,
             IF len > 0 THEN PagesIn(PGROUNDDOWN(srcva), srcva + len) ELSE <<>>)

-----------------------------------------------------------------------------
(* proc.c: the page table of a process *)

TrampolinePte == [pa |-> TrampolineCode, u |-> FALSE, w |-> FALSE]

ProcPagetable(s, tf) ==
    LET fails(t) == [Uvmfree(t, 0) EXCEPT !.ok = FALSE]
        mapped(t) == IF t.ok THEN t ELSE fails(Uvmunmap(t, TRAMPOLINE, 1, FALSE))
        trapframePage(t) ==
            IF t.ok THEN mapped(Mappages(t, TRAPFRAME, [pa |-> tf, u |-> FALSE, w |-> TRUE]))
            ELSE fails(t)
        trampolinePage(t) ==
            IF t.ok THEN trapframePage(Mappages(t, TRAMPOLINE, TrampolinePte)) ELSE t
    IN  trampolinePage(Uvmcreate(s))

ProcFreepagetable(s, size) ==
    Uvmfree(Uvmunmap(Uvmunmap(s, TRAMPOLINE, 1, FALSE), TRAPFRAME, 1, FALSE), size)

\* freeproc(): the trapframe page and, when there is one, the page table.
Freeproc(s, tf, size) ==
    LET t == IF tf # NULL THEN Kfree(s, tf) ELSE s
    IN  IF s.pt # NoTable THEN ProcFreepagetable(t, size) ELSE t

\* allocproc(): s.ret is the trapframe page of the new process.
Allocproc(s) ==
    LET k == Kalloc(s)
        made(t) == IF t.ok THEN [t EXCEPT !.ret = k.got] ELSE Freeproc(t, k.got, 0)
    IN  IF k.got = NULL
        THEN [Freeproc(k, NULL, 0) EXCEPT !.ok = FALSE]
        ELSE made(ProcPagetable(k, k.got))

-----------------------------------------------------------------------------
(* exec.c.  A program is a sequence of program headers; hdr is FALSE when  *)
(* the ELF header cannot be read or has the wrong magic number.  A segment *)
(* says whether it is to be loaded (ELF_PROG_LOAD), and whether its header *)
(* and its bytes can be read from the file.                                *)

Loadseg(s, seg) ==
    LET page(t, v) ==
            IF Walkaddr(t.pt, v) = NULL
            THEN Panic(t, "loadseg: address should exist")
            ELSE [t EXCEPT !.mem[Walkaddr(t.pt, v)] =
                    [i \in Offset |->
                        IF v * PGSIZE + i < seg.vaddr + seg.filesz THEN seg.byte ELSE @[i]]]
        t == FoldLeft(page, s, PagesIn(seg.vaddr, seg.vaddr + seg.filesz))
    IN  IF s.ok THEN [t EXCEPT !.ok = @ /\ seg.read = "ok"] ELSE s

\* kexec() takes the size that uvmalloc() returned; 0 is a failure.
Resized(s) == IF s.ret = 0 THEN [s EXCEPT !.ok = FALSE] ELSE [s EXCEPT !.sz = s.ret]

\* The body of the loop over the program headers; s.sz is kexec()'s sz.
LoadHeader(s, seg) ==
    LET bad == [s EXCEPT !.ok = FALSE]
        end == Word(seg.vaddr + seg.memsz)
    IN  IF ~s.ok THEN s
        ELSE IF seg.read = "none" THEN bad
        ELSE IF ~seg.load THEN s
        ELSE IF seg.memsz < seg.filesz \/ end < seg.vaddr \/ seg.vaddr % PGSIZE # 0 THEN bad
        ELSE Loadseg(Resized(Uvmalloc(s, s.sz, end, seg.w)), seg)

\* The guard page and the stack.
AllocStack(s) ==
    LET base == PGROUNDUP(s.sz)
        guard(t) == IF t.ok THEN [Uvmclear(t, base \div PGSIZE) EXCEPT !.sp = t.sz] ELSE t
    IN  IF ~s.ok THEN s
        ELSE guard(Resized(Uvmalloc([s EXCEPT !.sz = base], base,
                                    base + (USERSTACK + 1) * PGSIZE, TRUE)))

\* Push len bytes on the new stack.
Push(s, len, byte, cur) ==
    LET sp == s.sp - len
        aligned == sp - (sp % ALIGN)
        stackbase == s.sz - USERSTACK * PGSIZE
        c == Copyout([s EXCEPT !.sp = aligned], aligned, len, byte, cur)
    IN  IF ~s.ok THEN s
        ELSE IF aligned < stackbase THEN [s EXCEPT !.ok = FALSE]
        ELSE c

PushArgs(s, argv, cur) ==
    LET strings == FoldLeft(LAMBDA t, len : Push(t, len, ArgByte, cur), s, argv)
    IN  IF ~s.ok THEN s ELSE Push(strings, (Len(argv) + 1) * PTRSIZE, PtrByte, cur)

\* kexec() up to the commit: the new page table is s.pt, or NoTable after bad.
KexecEnd(s) == IF s.ok THEN s ELSE [ProcFreepagetable(s, s.sz) EXCEPT !.ok = FALSE]

KexecLoad(s, prog, argv, cur) ==
    IF ~s.ok THEN s
    ELSE KexecEnd(PushArgs(AllocStack(FoldLeft(LoadHeader, s, prog.seg)), argv, cur))

Kexec(s, prog, argv, tf, cur) ==
    IF ~prog.hdr THEN [s EXCEPT !.ok = FALSE, !.pt = NoTable]
    ELSE KexecLoad(ProcPagetable([s EXCEPT !.pt = NoTable, !.sz = 0, !.own = FALSE], tf),
                   prog, argv, cur)

\* fetchaddr(): the word of user memory at addr is made present.
Fetchaddr(s, addr, cur) ==
    IF addr >= cur \/ addr + PTRSIZE > cur
    THEN [s EXCEPT !.ok = FALSE]
    ELSE Copyin(s, addr, PTRSIZE, cur)

\* The body of sys_exec()'s loop fetches the next element of uargv[] and
\* copies the string it points to into a page of its own.  A string of length
\* 0 stands for one that cannot be fetched.
FetchArg(s, len, uargv, cur) ==
    LET string(k) == IF k.got = NULL THEN [k EXCEPT !.ok = FALSE]
                     ELSE [k EXCEPT !.argv = Append(@, k.got), !.ok = len # 0]
        fetched(f) == IF f.ok THEN string(Kalloc(f)) ELSE f
    IN  IF s.ok THEN fetched(Fetchaddr(s, uargv + PTRSIZE * Len(s.argv), cur)) ELSE s

\* The whole loop: MAXARG elements are too many, a null pointer ends it.
FetchArgs(s, argv, uargv, cur) ==
    LET end(t) == IF ~t.ok THEN t
                  ELSE IF Len(argv) >= MAXARG THEN [t EXCEPT !.ok = FALSE]
                  ELSE Fetchaddr(t, uargv + PTRSIZE * Len(argv), cur)
    IN  end(FoldLeft(LAMBDA t, len : FetchArg(t, len, uargv, cur), s,
                     SubSeq(argv, 1, Min({Len(argv), MAXARG}))))

FreeArgs(s) == FoldLeft(Kfree, s, s.argv)

-----------------------------------------------------------------------------
(* The system calls, faults and process life cycle, by process p. *)

Machine(p, budget) ==
    [free |-> free, mem |-> mem, pt |-> pagetable[p], left |-> budget, got |-> NULL,
     ok |-> TRUE, ret |-> 0, own |-> TRUE, sz |-> 0, sp |-> 0, argv |-> <<>>,
     panic |-> panic, past |-> p \in past]

\* An operation that ends in s, or that panicked: the machine stops and what
\* it had done by then is not recorded.
Process == <<state, pagetable, sz, trapframe, past>>
Ends(s, Effect) ==
    IF s.panic.why = "none" THEN Effect
    ELSE panic' = s.panic /\ UNCHANGED <<free, mem, Process>>

Commit(s) == free' = s.free /\ mem' = s.mem /\ panic' = s.panic
CommitTable(p, pt, s) == Commit(s) /\ pagetable' = [pagetable EXCEPT ![p] = pt]

NoPanicYet == [why |-> "none", past |-> FALSE]
Running(p) == state[p] = "running" /\ panic = NoPanicYet

\* kinit(): kfree() of every page.
Kinit ==
    [free |-> [pg \in Page |-> 1], mem |-> [pg \in Page |-> Fill(KfreeJunk)],
     pt |-> NoTable, left |-> NPAGE, got |-> NULL, ok |-> TRUE, ret |-> 0,
     panic |-> NoPanicYet, past |-> FALSE]

\* userinit(): the first process, with an empty address space.
Init ==
    LET only(x, y) == [q \in Proc |-> IF q = initproc THEN x ELSE y]
        first(s) == /\ free = s.free /\ mem = s.mem /\ panic = s.panic
                    /\ state = only("used", "unused")
                    /\ pagetable = only(s.pt, NoTable)
                    /\ sz = only(0, 0)
                    /\ trapframe = only(s.ret, NULL)
                    /\ past = {}
    IN  first(Allocproc(Kinit))

\* past, once p has size bytes.
PastTrapframe(size) == size > TRAPFRAME * PGSIZE
Passed(p, size) == IF PastTrapframe(size) THEN past \cup {p} ELSE past

\* kfork(): the child's size is set after uvmcopy(), so that freeproc() of a
\* child whose copy failed frees an empty address space.
KforkEnd(p, c, s, tf) ==
    \/ ~s.ok /\ Ends(s, Commit(Freeproc(s, tf, 0)) /\ UNCHANGED Process)
    \/ /\ s.ok
       /\ CommitTable(c, s.pt, s)
       /\ state' = [state EXCEPT ![c] = "running"]
       /\ sz' = [sz EXCEPT ![c] = sz[p]]
       /\ trapframe' = [trapframe EXCEPT ![c] = tf]
       /\ past' = Passed(c, sz[p])

KforkCopy(p, c, s) ==
    IF ~s.ok THEN Commit(s) /\ UNCHANGED Process
    ELSE KforkEnd(p, c, Uvmcopy(s, pagetable[p], sz[p]), s.ret)

Kfork(p, c, budget) ==
    /\ Running(p)
    /\ state[c] = "unused"
    /\ KforkCopy(p, c, Allocproc([Machine(p, budget) EXCEPT !.pt = NoTable]))

\* growproc(n), with the unsigned arithmetic of sz + n.
Growproc(s, size, n) ==
    IF n > 0 THEN Uvmalloc(s, size, Word(size + n), TRUE)
    ELSE IF n < 0 THEN Uvmdealloc(s, size, Word(size + n))
    ELSE [s EXCEPT !.ret = size]

\* The way back to user space, prepare_return() and userret: the kernel writes
\* to p->trapframe and reads it at TRAPFRAME.  Without that page the CPU does
\* not come back, and the free list the page is on is overwritten.
Userret(s) == IF TRAPFRAME \in DOMAIN s.pt.leaf THEN s ELSE Panic(s, "trapframe freed")

\* sys_sbrk() of type SBRK_EAGER, or with n < 0.
SbrkEager(p, n, budget) ==
    LET m == [Machine(p, budget) EXCEPT !.past = @ \/ PastTrapframe(sz[p] + n)]
        grow(s) == Ends(s, /\ CommitTable(p, s.pt, s)
                           /\ sz' = IF s.ok THEN [sz EXCEPT ![p] = s.ret] ELSE sz
                           /\ past' = Passed(p, sz'[p])
                           /\ UNCHANGED <<state, trapframe>>)
    IN  /\ Running(p)
        /\ grow(Userret(Growproc(m, sz[p], n)))

\* sys_sbrk() of type SBRK_LAZY; it returns -1 when addr + n < addr.
SbrkLazy(p, n) ==
    /\ Running(p)
    /\ n >= 0 /\ Word(sz[p] + n) >= sz[p]
    /\ sz' = [sz EXCEPT ![p] = Word(@ + n)]
    /\ past' = Passed(p, sz'[p])
    /\ UNCHANGED <<free, mem, state, pagetable, trapframe, panic>>

\* The new image s replaces the old one, and the table old is freed.
ExecCommit(p, s, f) ==
    Ends(f, /\ CommitTable(p, s.pt, f)
            /\ sz' = [sz EXCEPT ![p] = s.sz]
            /\ state' = [state EXCEPT ![p] = "running"]
            /\ past' = past \ {p}
            /\ UNCHANGED trapframe)

ExecEnd(p, old, s) ==
    \/ s.ok /\ ExecCommit(p, s, FreeArgs(ProcFreepagetable([s EXCEPT !.pt = old], sz[p])))
    \/ ~s.ok /\ Ends(s, CommitTable(p, old, FreeArgs(s)) /\ UNCHANGED <<state, sz, trapframe, past>>)

SysExec(p, e, budget) ==
    LET load(s) == IF s.ok THEN Kexec(s, e.prog, e.argv, trapframe[p], sz[p]) ELSE s
        exec(s) == ExecEnd(p, s.pt, load(s))
    IN  /\ Running(p)
        /\ exec(FetchArgs(Machine(p, budget), e.argv, e.uargv, sz[p]))

\* forkret() of the first process: kexec("/init"), with an argument vector of
\* the kernel.
Forkret(p, budget) ==
    LET started(s) == IF s.ok THEN s ELSE Panic(s, "exec")
    IN  /\ state[p] = "used" /\ panic = NoPanicYet
        /\ ExecEnd(p, pagetable[p],
                   started(Kexec(Machine(p, budget), InitExec.prog, InitExec.argv,
                                 trapframe[p], sz[p])))

\* The hardware lets user code store to page v.
Writable(pt, v) == Walkaddr(pt, v) # NULL /\ pt.leaf[v].w

\* User code stores to an address it may write.
Store(p, a) ==
    LET pa == Walkaddr(pagetable[p], a \div PGSIZE)
    IN  /\ Running(p)
        /\ Writable(pagetable[p], a \div PGSIZE)
        /\ mem' = [mem EXCEPT ![pa][a % PGSIZE] = UserByte]
        /\ UNCHANGED <<free, Process, panic>>

\* kexit(), called by exit() and by usertrap() for a killed process: memory
\* is freed only when the parent reaps the zombie.
Kexit(p) ==
    IF p = initproc
    THEN panic' = [why |-> "init exiting", past |-> p \in past] /\ UNCHANGED state
    ELSE state' = [state EXCEPT ![p] = "zombie"] /\ UNCHANGED panic

SysExit(p) ==
    /\ Running(p)
    /\ Kexit(p)
    /\ UNCHANGED <<free, mem, pagetable, sz, trapframe, past>>

\* usertrap() on a page fault: vmfault() makes the page present, or the
\* process is killed and exits.
PageFault(p, a, budget) ==
    LET faulted(s) == Ends(s, /\ free' = s.free /\ mem' = s.mem
                              /\ pagetable' = [pagetable EXCEPT ![p] = s.pt]
                              /\ IF s.got = NULL THEN Kexit(p) ELSE UNCHANGED <<state, panic>>
                              /\ UNCHANGED <<sz, trapframe, past>>)
    IN  /\ Running(p)
        /\ ~Writable(pagetable[p], a \div PGSIZE)
        /\ faulted(Vmfault(Machine(p, budget), a, sz[p]))

\* A system call copies len bytes to or from user memory at a.
Copied(p, s) == Ends(s, CommitTable(p, s.pt, s) /\ UNCHANGED <<state, sz, trapframe, past>>)

CopyOutTo(p, a, len, budget) ==
    Running(p) /\ Copied(p, Copyout(Machine(p, budget), a, len, UserByte, sz[p]))

CopyInFrom(p, a, len, budget) ==
    Running(p) /\ Copied(p, Copyin(Machine(p, budget), a, len, sz[p]))

\* kwait() by p, which asks for no exit status, reaps the zombie c.
Kwait(p, c) ==
    LET s == Freeproc(Machine(c, 0), trapframe[c], sz[c])
    IN  /\ Running(p)
        /\ state[c] = "zombie"
        /\ Ends(s, /\ CommitTable(c, NoTable, s)
                   /\ state' = [state EXCEPT ![c] = "unused"]
                   /\ sz' = [sz EXCEPT ![c] = 0]
                   /\ trapframe' = [trapframe EXCEPT ![c] = NULL]
                   /\ past' = past \ {c})

Step(p) ==
    \/ "wait" \in Calls[p] /\ \E c \in Proc : Kwait(p, c)
    \/ "lazy" \in Calls[p] /\ \E n \in Increments.lazy : SbrkLazy(p, n)
    \/ "store" \in Calls[p] /\ \E a \in Stores : Store(p, a)
    \/ "exit" \in Calls[p] /\ SysExit(p)
    \/ \E budget \in Budgets :
          \/ Forkret(p, budget)
          \/ "fork" \in Calls[p] /\ \E c \in Proc : Kfork(p, c, budget)
          \/ "eager" \in Calls[p] /\ \E n \in Increments.eager : SbrkEager(p, n, budget)
          \/ "exec" \in Calls[p] /\ \E e \in Execs : SysExec(p, e, budget)
          \/ "store" \in Calls[p] /\ \E a \in Stores : PageFault(p, a, budget)
          \/ "copy" \in Calls[p] /\ \E a \in Stores : \/ CopyOutTo(p, a, PGSIZE, budget)
                                                     \/ CopyInFrom(p, a, PGSIZE, budget)

Next == \E p \in Proc : Step(p)

Spec == Init /\ [][Next]_vars

-----------------------------------------------------------------------------
(* Properties *)

\* The types of the page tables, the free list and p->sz, which growproc() and
\* sys_sbrk() keep a word.
TypeOK ==
    /\ free \in [Page -> Nat]
    /\ \A pg \in Page : mem[pg] \in [Offset -> 0 .. 9]
    /\ state \in [Proc -> {"unused", "used", "running", "zombie"}]
    /\ \A p \in Proc :
          /\ DOMAIN pagetable[p].leaf \subseteq 0 .. NVA - 1
          /\ \A nd \in DOMAIN pagetable[p].node : pagetable[p].node[nd] \in Page
          /\ \A v \in DOMAIN pagetable[p].leaf :
                pagetable[p].leaf[v] \in [pa : Page \cup {TrampolineCode},
                                          u : BOOLEAN, w : BOOLEAN]
    /\ sz \in [Proc -> 0 .. 2 ^ WORD - 1]
    /\ trapframe \in [Proc -> Page \cup {NULL}]

\* The kernel panics, or frees the trapframe of a live process, only while it
\* works on an address space whose size has been past TRAPFRAME, or is to be
\* after the sbrk() it is in.  As long as sizes stay below, no sequence of
\* system calls, faults and failed allocations makes it panic: mappages()
\* never meets a valid PTE, freewalk() never meets a leaf, kfree() gets only
\* pages of RAM, loadseg() and uvmclear() find their pages, and vmfault() is
\* never called on a table that is not p->pagetable.  Sizes do pass TRAPFRAME,
\* since lazy sbrk() tests only for overflow, and then fork(), wait(), exec(),
\* sbrk(), copyin() and page faults do panic.
PanicsOnlyPastTrapframe == panic.why \notin {"none", "init exiting", "exec"} => panic.past

\* The PTEs below the trapframe: the user pages of p.
UserPages(p) == DOMAIN pagetable[p].leaf \ {TRAMPOLINE, TRAPFRAME}

\* How often a physical page is used as a page-table page, as a user page or
\* as a trapframe.
Uses(pg) ==
    SumFunction([p \in Proc |->
          Cardinality({nd \in DOMAIN pagetable[p].node : pagetable[p].node[nd] = pg})
        + Cardinality({v \in UserPages(p) : pagetable[p].leaf[v].pa = pg})
        + (IF trapframe[p] = pg THEN 1 ELSE 0)])

\* Every page of physical memory is on the free list exactly once or has
\* exactly one use, between any two system calls, up to a panic: whatever
\* failed half-way (fork, exec, sbrk, a fault) freed what it had allocated,
\* nothing is freed twice and no two processes share a page.  So too past
\* TRAPFRAME: what exec() and wait() free there without a panic is not the
\* trapframe.
PagesOwnedOnce == \A pg \in Page : free[pg] + Uses(pg) = 1

-----------------------------------------------------------------------------
(* Refinement: the memory each process sees. *)

LazyPage == [data |-> Zero, u |-> TRUE, w |-> TRUE]

\* Nothing is promised to a process in past.
View(p) ==
    [i \in 1 .. (IF p \in past THEN 0 ELSE PGROUNDUP(sz[p]) \div PGSIZE) |->
        IF IsMapped(pagetable[p], i - 1)
        THEN [data |-> mem[pagetable[p].leaf[i - 1].pa],
              u |-> pagetable[p].leaf[i - 1].u, w |-> pagetable[p].leaf[i - 1].w]
        ELSE LazyPage]

\* What a program should look like in memory, from its segments alone: the
\* file's bytes, zeros up to the end of the page, an inaccessible page, and a
\* stack with the argument strings above the array of pointers to them.
Top(seg, i) == Max({0} \cup {seg[j].vaddr + seg[j].memsz : j \in 1 .. i})

SegmentPage(seg, v) ==
    [data |-> [i \in Offset |->
        LET over == {j \in DOMAIN seg : v * PGSIZE + i \in
                        seg[j].vaddr .. seg[j].vaddr + seg[j].filesz - 1}
        IN  IF over = {} THEN 0 ELSE seg[Max(over)].byte],
     u |-> TRUE,
     w |-> seg[Min({j \in DOMAIN seg : Top(seg, j) > v * PGSIZE})].w]

AlignDown(a) == a - (a % ALIGN)

\* The addresses of the strings on a stack of n bytes that starts at 0.
StringAddrs(argv, n) ==
    FoldLeft(LAMBDA at, len : Append(at, AlignDown(Last(at) - len)), <<n>>, argv)

ArgArray(argv, n) == AlignDown(Last(StringAddrs(argv, n)) - (Len(argv) + 1) * PTRSIZE)

StackByte(argv, n, a) ==
    LET at == StringAddrs(argv, n)
    IN  IF \E j \in DOMAIN argv : a \in at[j + 1] .. at[j + 1] + argv[j] - 1 THEN ArgByte
        ELSE IF a \in ArgArray(argv, n) .. ArgArray(argv, n) + (Len(argv) + 1) * PTRSIZE - 1
        THEN PtrByte ELSE 0

ImageOf(seg, argv) ==
    [i \in 1 .. (PGROUNDUP(Top(seg, Len(seg))) \div PGSIZE) |-> SegmentPage(seg, i - 1)]
    \o <<[LazyPage EXCEPT !.u = FALSE]>>
    \o [i \in 1 .. USERSTACK |-> [LazyPage EXCEPT !.data =
           [j \in Offset |-> StackByte(argv, USERSTACK * PGSIZE, (i - 1) * PGSIZE + j)]]]

Loads(prog) == SelectSeq(prog.seg, LAMBDA seg : seg.load)

Loadable(prog) ==
    /\ prog.hdr
    /\ \A seg \in Range(prog.seg) : seg.read # "none"
    /\ \A seg \in Range(Loads(prog)) :
          /\ seg.read = "ok" /\ seg.filesz <= seg.memsz
          /\ seg.vaddr % PGSIZE = 0
          /\ seg.vaddr + seg.memsz < TRAPFRAME * PGSIZE

Images ==
    {ImageOf(Loads(e.prog), e.argv) :
        e \in {x \in Execs \cup {InitExec} : /\ Loadable(x.prog)
                             /\ Len(x.argv) < MAXARG
                             /\ \A j \in DOMAIN x.argv : x.argv[j] > 0
                             /\ ArgArray(x.argv, USERSTACK * PGSIZE) >= 0}}

Abstract == INSTANCE UserMemory WITH
    alive <- {p \in Proc : state[p] # "unused"},
    memory <- [p \in Proc |-> View(p)]

\* Page tables, lazily allocated pages, the copying of fork(), the loading of
\* exec() and the shared free list together give every process a private flat
\* memory, until its size passes TRAPFRAME: new pages read as zero, a child starts with its parent's bytes,
\* exec() either installs exactly the program's image or changes nothing, and
\* a write changes only writable user bytes of the process that wrote.
MemoryIsPrivate == Abstract!Spec
=============================================================================
