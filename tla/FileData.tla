------------------------------ MODULE FileData ------------------------------
(***************************************************************************)
(* The contents of files: the block bitmap, bmap(), itrunc(), readi() and  *)
(* writei() of kernel/fs.c under fileread() and filewrite() of             *)
(* kernel/file.c, on a file system made by mkfs/mkfs.c.                    *)
(*                                                                         *)
(* A block holds BSIZE cells.  A cell is a byte, or a block number of an   *)
(* indirect block; so a block that was not cleared before it becomes an    *)
(* indirect block would show.  Blocks below NMETA are the file system's    *)
(* own.  One iteration of the loop of writei() is a step: processes that   *)
(* write different files compete for blocks between two iterations.        *)
(***************************************************************************)
EXTENDS Integers, FiniteSets, Sequences, SequencesExt, FiniteSetsExt

CONSTANTS Proc,         \* processes, each writes bytes of its own: Proc \subseteq Nat
          File,         \* struct files
          Inum,         \* inodes, ROOTINO and those of files
          FSSIZE, NMETA, BSIZE, NDIRECT, NINDIRECT,
          MAXOPBLOCKS,
          MAXN,         \* bound: bytes of a system call
          Writes, Reads, \* bound: the calls of processes, <<p, f, n>>
          IP,           \* f->ip of every file
          Appends       \* mkfs: the iappend() calls, <<inum, bytes>>

ROOTINO == 1
MAXFILE == NDIRECT + NINDIRECT
MAXW == ((MAXOPBLOCKS - 1 - 1 - 2) \div 2) * BSIZE
Block == 0..FSSIZE - 1
Cell == 0..BSIZE - 1
BitmapBlock == -1
InodeBlock == -2

ASSUME FileAssumption ==
    /\ \A c \in {FSSIZE, NMETA, BSIZE, NDIRECT, NINDIRECT, MAXOPBLOCKS, MAXN} : c \in Nat \ {0}
    /\ NINDIRECT <= BSIZE /\ MAXW > 0
    /\ ROOTINO \in Inum /\ IP \in [File -> Inum \ {ROOTINO}]

VARIABLES
    used,         \* the bitmap, as a set of blocks
    data,         \* the cells of every block
    addrs, size,  \* of every inode; addrs[i][NDIRECT] is the indirect block
    lock,         \* who holds ip->lock, or 0
    off,          \* f->off
    pc,
    f, n, i,      \* filewrite(): file, bytes asked for, bytes done
    woff, left,   \* writei(): offset, bytes left of this chunk
    logged,       \* the blocks p's operation has passed to log_write()
    panicked

inodeVars == <<used, data, addrs, size>>
callVars == <<f, n, i, woff, left>>
vars == <<inodeVars, lock, off, pc, callVars, logged, panicked>>

\* The types of the dinodes, of the bitmap and of the locals of filewrite(): what
\* writei() writes stays inside the blocks that bmap() found.
TypeOK ==
    /\ used \subseteq Block
    /\ addrs \in [Inum -> [0..NDIRECT -> Block]] /\ size \in [Inum -> 0..MAXFILE * BSIZE]
    /\ lock \in [Inum -> Proc \cup {0}] /\ off \in [File -> 0..MAXFILE * BSIZE]
    /\ pc \in [Proc -> {"idle", "chunk", "writei"}]
    /\ f \in [Proc -> File] /\ n \in [Proc -> 0..MAXN] /\ i \in [Proc -> 0..MAXN]
    /\ woff \in [Proc -> 0..MAXFILE * BSIZE] /\ left \in [Proc -> 0..MAXN]

-----------------------------------------------------------------------------
(* A disk is a record of used, data, addrs and size, so that the functions *)
(* of fs.c and of mkfs.c compose.                                          *)
Disk == [used |-> used, data |-> data, addrs |-> addrs, size |-> size]
Zero == [c \in Cell |-> 0]

\* balloc(): the first free block, marked and cleared, or 0.
FirstFree(d) == IF Block \ d.used = {} THEN 0 ELSE Min(Block \ d.used)
\* Mutant: the block keeps its old contents.
BzeroNot(d, b) == d
Bzero(d, b) == [d EXCEPT !.data[b] = Zero]
Balloc(d) ==
    LET b == FirstFree(d) IN
    IF b = 0 THEN d ELSE Bzero([d EXCEPT !.used = @ \cup {b}], b)

\* bmap(): the address of block bn of inode ip, or 0 when it has none.
Lookup(d, ip, bn) ==
    IF bn < NDIRECT THEN d.addrs[ip][bn]
    ELSE IF d.addrs[ip][NDIRECT] = 0 THEN 0
    ELSE d.data[d.addrs[ip][NDIRECT]][bn - NDIRECT]
\* The disk after bmap() has allocated what block bn lacks, as far as blocks last.
BmapIndirect(d, ip) ==
    IF d.addrs[ip][NDIRECT] # 0 THEN d
    ELSE [Balloc(d) EXCEPT !.addrs[ip][NDIRECT] = FirstFree(d)]
Bmap(d, ip, bn) ==
    IF Lookup(d, ip, bn) # 0 THEN d
    ELSE IF bn < NDIRECT THEN [Balloc(d) EXCEPT !.addrs[ip][bn] = FirstFree(d)]
    ELSE LET e == BmapIndirect(d, ip)
             a == e.addrs[ip][NDIRECT] IN
         IF a = 0 THEN e ELSE [Balloc(e) EXCEPT !.data[a][bn - NDIRECT] = FirstFree(e)]

\* The blocks of an inode, with the indirect block.
Indirects(d, ip) ==
    IF d.addrs[ip][NDIRECT] = 0 THEN {}
    ELSE {d.data[d.addrs[ip][NDIRECT]][k] : k \in 0..NINDIRECT - 1} \ {0}
Direct(d, ip) == {d.addrs[ip][k] : k \in 0..NDIRECT} \ {0}
Blocks(d, ip) == Direct(d, ip) \cup Indirects(d, ip)
Bfree(d, B) == [d EXCEPT !.used = @ \ B]
\* Mutant: without ip->size = 0.
ItruncKeepsSize(d, ip) ==
    [Bfree(d, Blocks(d, ip)) EXCEPT !.addrs[ip] = [k \in 0..NDIRECT |-> 0]]
Itrunc(d, ip) ==
    [Bfree(d, Blocks(d, ip)) EXCEPT !.addrs[ip] = [k \in 0..NDIRECT |-> 0], !.size[ip] = 0]

\* Write m bytes w at offset o of a mapped block.
Patch(d, ip, o, m, w) ==
    [d EXCEPT !.data[Lookup(d, ip, o \div BSIZE)] =
        [c \in Cell |-> IF c \in (o % BSIZE)..(o % BSIZE) + m - 1 THEN w ELSE @[c]]]
Chunk(o, m) == Min({m, BSIZE - (o % BSIZE)})

-----------------------------------------------------------------------------
\* mkfs: iappend() takes blocks in order; balloc() marks them all.  The root
\* directory is rounded up to whole blocks.
\* The blocks mkfs has not used follow those it has, so that freeblock is the
\* first free one and iappend() finds a file's blocks as bmap() does.
MkBmap(d, ip, bn) == Bmap(d, ip, bn)
Iappend(d0, ip, m0) ==
    LET step[m \in 0..m0] ==
            IF m = 0 THEN d0
            ELSE LET d == step[m - 1]
                     e == MkBmap(d, ip, d.size[ip] \div BSIZE)
                 IN  [Patch(e, ip, d.size[ip], 1, ip) EXCEPT !.size[ip] = @ + 1]
    IN  step[m0]
FreshDisk == [used |-> 0..NMETA - 1, data |-> [b \in Block |-> Zero],
              addrs |-> [j \in Inum |-> [k \in 0..NDIRECT |-> 0]], size |-> [j \in Inum |-> 0]]
RoundUp(s) == (s \div BSIZE + 1) * BSIZE
Mkfs ==
    LET d == FoldLeft(LAMBDA e, a : Iappend(e, a[1], a[2]), FreshDisk, Appends) IN
    [d EXCEPT !.size[ROOTINO] = RoundUp(@)]

Init ==
    /\ used = Mkfs.used /\ data = Mkfs.data /\ addrs = Mkfs.addrs /\ size = Mkfs.size
    /\ lock = [ip \in Inum |-> 0]
    /\ off = [g \in File |-> 0]
    /\ pc = [p \in Proc |-> "idle"]
    /\ f \in [Proc -> {CHOOSE g \in File : TRUE}]
    /\ n = [p \in Proc |-> 0] /\ i = [p \in Proc |-> 0]
    /\ woff = [p \in Proc |-> 0] /\ left = [p \in Proc |-> 0]
    /\ logged = [p \in Proc |-> {}]
    /\ panicked = FALSE

SetDisk(d) == used' = d.used /\ data' = d.data /\ addrs' = d.addrs /\ size' = d.size
ip(p) == IP[f[p]]

\* filewrite() of m bytes.
FileWrite(p, g, m) ==
    /\ pc[p] = "idle"
    /\ pc' = [pc EXCEPT ![p] = "chunk"]
    /\ f' = [f EXCEPT ![p] = g] /\ n' = [n EXCEPT ![p] = m] /\ i' = [i EXCEPT ![p] = 0]
    /\ UNCHANGED <<inodeVars, lock, off, woff, left, logged, panicked>>

Return(p) ==
    /\ pc' = [pc EXCEPT ![p] = "idle"]
    /\ f' = [f EXCEPT ![p] = CHOOSE g \in File : TRUE]
    /\ n' = [n EXCEPT ![p] = 0] /\ i' = [i EXCEPT ![p] = 0]

\* The bytes of the next chunk of a write of which m bytes are left.
\* Mutant: the allocation blocks are not counted.
ChunkSizeTwice(m) == Min({m, (MAXOPBLOCKS - 1 - 1 - 2) * BSIZE})
ChunkSize(m) == Min({m, MAXW})

\* The tests of writei(): at most at the end of the file, and within MAXFILE.
BadRange(o, m, s) == o > s \/ o + m > MAXFILE * BSIZE

\* One chunk: begin_op(), ilock(), and the tests of writei(), whose failure ends the call.
StartChunk(p) ==
    LET n1 == ChunkSize(n[p] - i[p])
        o == off[f[p]] IN
    /\ pc[p] = "chunk"
    /\ lock[ip(p)] = 0
    /\ IF BadRange(o, n1, size[ip(p)])
       THEN Return(p) /\ UNCHANGED <<lock, woff, left>>
       ELSE /\ lock' = [lock EXCEPT ![ip(p)] = p]
            /\ pc' = [pc EXCEPT ![p] = "writei"]
            /\ woff' = [woff EXCEPT ![p] = o] /\ left' = [left EXCEPT ![p] = n1]
            /\ UNCHANGED <<f, n, i>>
    /\ UNCHANGED <<inodeVars, off, logged, panicked>>

\* The end of writei() and of the chunk, with disk d after the loop stopped at o with
\* l bytes left: iupdate(), f->off, iunlock(), end_op(); then the next chunk, or return.
NewSize(old, o, l) == Max({old, o})
Stops(done, m, l) == l > 0 \/ done = m
FinishChunk(p, d, o, l) ==
    LET done == i[p] + (o - off[f[p]]) IN
    /\ SetDisk([d EXCEPT !.size[ip(p)] = NewSize(@, o, l)])
    /\ off' = [off EXCEPT ![f[p]] = o]
    /\ lock' = [lock EXCEPT ![ip(p)] = 0]
    /\ logged' = [logged EXCEPT ![p] = {}]
    /\ woff' = [woff EXCEPT ![p] = 0] /\ left' = [left EXCEPT ![p] = 0]
    /\ IF Stops(done, n[p], l) THEN Return(p)
       ELSE pc' = [pc EXCEPT ![p] = "chunk"] /\ i' = [i EXCEPT ![p] = done] /\ UNCHANGED <<f, n>>
    /\ UNCHANGED panicked

\* What balloc(), bmap() and writei() log to get from disk d to disk e, with the inode.
Logs(d, e) ==
    {b \in Block : d.data[b] # e.data[b]} \cup (IF d.used # e.used THEN {BitmapBlock} ELSE {})

\* One iteration of writei()'s loop: a block is missing and there is none; or
\* copyin() fails; or the bytes are written.
WriteStep(p) ==
    LET o == woff[p]
        d == Bmap(Disk, ip(p), o \div BSIZE)
        m == Chunk(o, left[p])
        e == Patch(d, ip(p), o, m, p) IN
    /\ pc[p] = "writei" /\ left[p] > 0
    /\ \/ /\ Lookup(d, ip(p), o \div BSIZE) = 0
          /\ FinishChunk(p, d, o, left[p])
       \/ /\ Lookup(d, ip(p), o \div BSIZE) # 0
          /\ FinishChunk(p, d, o, left[p])
       \/ /\ Lookup(d, ip(p), o \div BSIZE) # 0
          /\ SetDisk(e)
          /\ logged' = [logged EXCEPT ![p] = @ \cup Logs(Disk, e) \cup {Lookup(d, ip(p), o \div BSIZE), InodeBlock}]
          /\ woff' = [woff EXCEPT ![p] = o + m] /\ left' = [left EXCEPT ![p] = @ - m]
          /\ UNCHANGED <<lock, off, pc, f, n, i, panicked>>
EndChunk(p) ==
    /\ pc[p] = "writei" /\ left[p] = 0
    /\ FinishChunk(p, Disk, woff[p], 0)

\* fileread(): readi() under ilock(), outside of a transaction: it must not meet a
\* block that bmap() would allocate.
ReadLen(o, m, s) == IF o > s THEN 0 ELSE Min({m, s - o})

\* readi() of r bytes at o asks bmap() for every block, which would allocate one
\* that is not there, outside any transaction, and log_write() panics then.
ReadiPanics(d, j, o, r) == \E k \in o..o + r - 1 : Lookup(d, j, k \div BSIZE) = 0
FileRead(p, g, m) ==
    LET o == off[g]
        r == ReadLen(o, m, size[IP[g]]) IN
    /\ pc[p] = "idle"
    /\ lock[IP[g]] = 0
    /\ panicked' = ReadiPanics(Disk, IP[g], o, r)
    /\ off' = [off EXCEPT ![g] = o + r]
    /\ UNCHANGED <<inodeVars, lock, pc, callVars, logged>>

\* itrunc(), from open() with O_TRUNC or from the last iput(): bfree() panics when a
\* block is free already.
Truncate(p, j) ==
    /\ pc[p] = "idle"
    /\ lock[j] = 0
    /\ panicked' = (~(Blocks(Disk, j) \subseteq used))
    /\ SetDisk(Itrunc(Disk, j))
    /\ UNCHANGED <<lock, off, pc, callVars, logged>>

\* A new open(): a struct file at offset 0.
Reopen(g) ==
    /\ off[g] # 0 /\ \A p \in Proc : pc[p] # "idle" => f[p] # g
    /\ off' = [off EXCEPT ![g] = 0]
    /\ UNCHANGED <<inodeVars, lock, pc, callVars, logged, panicked>>

Writei(p) == StartChunk(p) \/ WriteStep(p) \/ EndChunk(p)
Next ==
    \/ \E p \in Proc :
          \/ Writei(p)
          \/ \E g \in File, m \in 1..MAXN : <<p, g, m>> \in Writes /\ FileWrite(p, g, m)
          \/ \E g \in File, m \in 1..MAXN : <<p, g, m>> \in Reads /\ FileRead(p, g, m)
          \/ \E j \in Inum \ {ROOTINO} : Truncate(p, j)
    \/ \E g \in File : Reopen(g)

Spec == Init /\ [][~panicked /\ Next]_vars

-----------------------------------------------------------------------------
\* The bitmap marks exactly the meta blocks and the blocks of inodes, and no block
\* belongs to two inodes, or twice to one.
BlockRefs(j) ==
    Cardinality({k \in 0..NDIRECT : addrs[j][k] # 0})
    + (IF addrs[j][NDIRECT] = 0 THEN 0
       ELSE Cardinality({k \in 0..NINDIRECT - 1 : data[addrs[j][NDIRECT]][k] # 0}))
BitmapExact ==
    /\ used = 0..NMETA - 1 \cup UNION {Blocks(Disk, j) : j \in Inum}
    /\ Cardinality(used) = NMETA + MapThenSumSet(BlockRefs, Inum)

\* Every byte below the size has a block; only then is reading free of allocation.
NoHoles == \A j \in Inum : \A k \in 0..size[j] - 1 : Lookup(Disk, j, k \div BSIZE) # 0

\* A chunk of filewrite() logs fewer blocks than its begin_op() reserves; Log needs
\* this of its callers (OPBLOCKS).
WithinReservation == \A p \in Proc : Cardinality(logged[p]) < MAXOPBLOCKS

=============================================================================
