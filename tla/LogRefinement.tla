---------------------------- MODULE LogRefinement ----------------------------
(***************************************************************************)
(* The log implements AtomicDisk, for every value of the constants.  Each  *)
(* step of Log is a step of AtomicDisk or leaves its variables unchanged:  *)
(* write_head() of commit() is the only step that changes what a crash     *)
(* would leave.                                                            *)
(***************************************************************************)
EXTENDS LogProofs

USE ProcAssumption, NoBufAssumption, NoBlockAssumption, SizeAssumption, ZenonT(10), SMTT(30)

\* What recovery leaves in a block, by its place in the header.
LEMMA ReplayFacts ==
    ASSUME NEW h \in Seq(Block), IsInjective(h), NEW la, NEW hm
    PROVE  /\ \A i \in 1..Len(h) : Replay(h, la, hm)[h[i]] = la[i]
           /\ \A b \in Block : (\A i \in 1..Len(h) : h[i] # b) => Replay(h, la, hm)[b] = hm[b]
<1>1. ASSUME NEW i \in 1..Len(h)
      PROVE  Replay(h, la, hm)[h[i]] = la[i]
  <2> DEFINE at == {j \in DOMAIN h : h[j] = h[i]}
  <2>1. h[i] \in Block /\ i \in DOMAIN h
    OBVIOUS
  <2>2. at = {i}
    BY <2>1 DEF IsInjective
  <2>3. (CHOOSE k \in at : \A j \in at : j <= k) = i
    BY <2>2
  <2> QED
    BY <2>1, <2>2, <2>3 DEF Replay
<1>2. ASSUME NEW b \in Block, \A i \in 1..Len(h) : h[i] # b
      PROVE  Replay(h, la, hm)[b] = hm[b]
  BY <1>2 DEF Replay
<1> QED
  BY <1>1, <1>2

\* Recovery leaves some contents in every block.
LEMMA ReplayIsFunction ==
    ASSUME NEW h, NEW la, NEW hm
    PROVE  Replay(h, la, hm) = [b \in Block |-> Replay(h, la, hm)[b]]
BY DEF Replay

\* Recovery from an empty header changes nothing.
LEMMA ReplayEmpty ==
    ASSUME NEW la, NEW hm
    PROVE  \A b \in Block : Replay(<<>>, la, hm)[b] = hm[b]
BY DEF Replay

\* A step that leaves the disk alone leaves what recovery would restore alone.
LEMMA SameDisk ==
    ASSUME UNCHANGED disk
    PROVE  Recovered' = Recovered
BY DEF disk, Recovered, Replay

\* Reads see the cache when the system is up.
LEMMA SameView ==
    ASSUME ~Recovering, ~Recovering', UNCHANGED <<home, buf>>
    PROVE  View' = View
BY DEF View, Contents

\* The initial states of the log are initial states of the atomic disk.
LEMMA InitRefines == Init => AD!Init
<1> SUFFICES ASSUME Init PROVE AD!Init
  OBVIOUS
<1>1. IInv
  BY InitInv
<1>2. Recovered = home /\ home \in [Block -> Data]
  <2>1. \A b \in Block : Recovered[b] = home[b]
    BY ReplayEmpty DEF Init, Recovered
  <2> QED
    BY <2>1 DEF Init, Recovered, Replay
<1>3. View = Recovered /\ InOp = {}
  <2>1. Recovering
    BY DEF Init, BootPc, Recovering
  <2> QED
    BY <2>1 DEF Init, BootPc, View, InOp
<1> QED
  BY <1>2, <1>3 DEF AD!Init

\* Steps that change neither the disk nor what a read returns.
LEMMA MemoryStepRefines ==
    ASSUME IInv, IInv', NEW p \in Proc,
           BeginOp(p) \/ KillWake(p) \/ LogWrite(p) \/ Brelse(p) \/ EndOp(p) \/ Commit(p)
             \/ FinishCommit(p)
    PROVE  [AD!Next]_(AD!vars)
<1> USE DEF disk, logState, bufState, procState
<1>1. UNCHANGED <<home, logArea, head, buf>>
  BY DEF BeginOp, KillWake, LogWrite, Brelse, EndOp, Commit, FinishCommit
<1>2. pc[p] \notin {"down", "read_head", "recover"} /\ pc'[p] \notin {"down", "read_head", "recover"}
  BY DEF BeginOp, KillWake, LogWrite, Brelse, EndOp, Commit, FinishCommit, IInv, TypeOK, WakeupLog
<1>3. ~Recovering /\ ~Recovering'
  BY <1>2 DEF IInv, BootInv, Recovering
<1>4. Recovered' = Recovered /\ View' = View
  BY <1>1, <1>3, SameDisk, SameView
<1>5. CASE BeginOp(p)
  <2>1. InOp' = InOp \/ (p \notin InOp /\ InOp' = InOp \cup {p})
    BY <1>5 DEF BeginOp, InOp, IInv, TypeOK
  <2> QED
    BY <1>4, <2>1 DEF AD!Next, AD!Begin, AD!vars
<1>6. CASE EndOp(p)
  <2>1. p \in InOp /\ InOp' = InOp \ {p}
    BY <1>6 DEF EndOp, InOp, IInv, TypeOK, WakeupLog
  <2> QED
    BY <1>4, <2>1 DEF AD!Next, AD!End, AD!vars
<1>7. CASE KillWake(p) \/ LogWrite(p) \/ Brelse(p) \/ Commit(p) \/ FinishCommit(p)
  <2>1. pc'[p] # "panic"
    BY DEF IInv, NoPanic
  <2>2. InOp' = InOp
    <3>1. CASE LogWrite(p) \/ Brelse(p)
      BY <2>1, <3>1 DEF LogWrite, Brelse, InOp, IInv, TypeOK
    <3>2. CASE Commit(p)
      BY <3>2 DEF Commit, InOp, IInv, TypeOK
    <3>3. CASE FinishCommit(p)
      BY <3>3 DEF FinishCommit, WakeupLog, InOp, IInv, TypeOK
    <3>4. CASE KillWake(p)
      BY <3>4 DEF KillWake, InOp, IInv, TypeOK
    <3> QED
      BY <1>7, <3>1, <3>2, <3>3, <3>4
  <2> QED
    BY <1>4, <2>2 DEF AD!vars
<1> QED
  BY <1>5, <1>6, <1>7

\* Changing a locked buffer is a write to the atomic disk.
LEMMA ModifyBufRefines ==
    ASSUME IInv, IInv', NEW p \in Proc, NEW b \in Block, NEW d \in Data, ModifyBuf(p, b, d)
    PROVE  AD!Write(p, b, d)
<1> USE DEF ModifyBuf, disk, logState
<1>1. p \in InOp /\ InOp' = InOp
  BY DEF InOp, IInv, TypeOK
<1>2. ~Recovering /\ ~Recovering'
  BY <1>1, PhaseFacts DEF Recovering, IInv, TypeOK
<1>3. Recovered' = Recovered
  BY SameDisk
<1>4. View' = [View EXCEPT ![b] = d]
  <2>1. View = [c \in Block |-> Contents(c)] /\ View' = [c \in Block |-> Contents(c)']
    BY <1>2 DEF View
  <2>2. \A c \in Block : Contents(c)' = IF c = b THEN d ELSE Contents(c)
    <3> TAKE c \in Block
    <3>1. buf'[c] = IF c = b THEN d ELSE buf[c]
      BY DEF IInv, TypeOK
    <3>2. home' = home /\ d # NoBuf
      OBVIOUS
    <3> QED
      BY <3>1, <3>2 DEF Contents
  <2> QED
    BY <2>1, <2>2, Zenon
<1> QED
  BY <1>1, <1>3, <1>4 DEF AD!Write

\* Filling and recycling buffers changes nothing in the atomic disk.
LEMMA CacheStepRefines ==
    ASSUME IInv, IInv', NEW b \in Block, Bread(b) \/ Evict(b)
    PROVE  UNCHANGED AD!vars
<1> USE DEF Bread, Evict, disk, logState, procState
<1>1. InOp' = InOp /\ Recovering' = Recovering /\ Recovered' = Recovered /\ home' = home
  BY SameDisk DEF InOp, Recovering
<1>2. CASE Recovering
  BY <1>1, <1>2 DEF View, AD!vars
<1>3. CASE ~Recovering
  <2>1. Evict(b) => buf[b] = home[b]
    BY DEF IInv, CacheInv, PinsBalanced, Recyclable
  <2>2. home[b] # NoBuf
    BY DEF IInv, TypeOK
  <2>3. \A c \in Block : Contents(c)' = Contents(c)
    <3> TAKE c \in Block
    <3>1. CASE Bread(b)
      <4>1. buf'[c] = IF c = b THEN home[b] ELSE buf[c]
        BY <3>1 DEF IInv, TypeOK
      <4> QED
        BY <1>1, <2>2, <3>1, <4>1 DEF Contents
    <3>2. CASE Evict(b)
      <4>1. buf'[c] = IF c = b THEN NoBuf ELSE buf[c]
        BY <3>2 DEF IInv, TypeOK
      <4> QED
        BY <1>1, <2>1, <2>2, <3>2, <4>1 DEF Contents
    <3> QED
      BY <3>1, <3>2
  <2>4. View' = View
    BY <1>1, <1>3, <2>3 DEF View
  <2> QED
    BY <1>1, <2>4 DEF AD!vars
<1> QED
  BY <1>2, <1>3

\* Copying blocks to the log changes nothing in the atomic disk.
LEMMA WriteLogRefines ==
    ASSUME IInv, IInv', NEW p \in Proc, WriteLog(p)
    PROVE  UNCHANGED AD!vars
<1> USE DEF WriteLog, logState
<1>1. p \in Committer /\ Installing = {} /\ ~Recovering
  BY PhaseFacts DEF Committer, Installing
<1>2. InOp' = InOp /\ ~Recovering' /\ home' = home
  BY <1>1 DEF InOp, Recovering
<1>3. head = <<>> /\ head' = <<>>
  BY <1>1 DEF IInv, HeadInv
<1>4. Recovered' = Recovered
  BY <1>2, <1>3 DEF Recovered, Replay
<1>5. \A b \in Block : Contents(b)' = Contents(b)
  <2> TAKE b \in Block
  <2>1. buf'[b] = buf[b] \/ (buf[b] = NoBuf /\ buf'[b] = home[b]) \/ buf'[b] = Contents(b)
    BY DEF Contents, IInv, TypeOK
  <2> QED
    BY <1>2, <2>1 DEF Contents, IInv, TypeOK
<1>6. View' = View
  BY <1>1, <1>2, <1>5 DEF View
<1> QED
  BY <1>2, <1>4, <1>6 DEF AD!vars

\* The commit point: what a crash leaves becomes what reads see.
LEMMA WriteHeadRefines ==
    ASSUME IInv, IInv', NEW p \in Proc, WriteHead(p)
    PROVE  AD!Commit
<1> USE DEF WriteHead, logState, bufState
<1>0. /\ lh \in Seq(Block) /\ IsInjective(lh)
      /\ head' = lh /\ logArea' = logArea /\ home' = home
  BY DEF IInv, TypeOK, HeaderInv
<1>1. /\ p \in Committer /\ InOp = {} /\ Installing = {} /\ ~Recovering
      /\ \A q \in Proc : hold[q] = NoBlock
  BY PhaseFacts DEF Committer, Installing
<1>2. InOp' = {} /\ ~Recovering' /\ View' = View
  <2>1. InOp' = {} /\ ~Recovering'
    BY <1>1 DEF InOp, Recovering, IInv, TypeOK
  <2> QED
    BY <1>1, <2>1, SameView
<1>3. ASSUME NEW b \in Block
      PROVE  Recovered'[b] = Contents(b)
  <2>1. CASE \E i \in 1..Len(lh) : lh[i] = b
    <3>1. PICK i \in 1..Len(lh) : lh[i] = b
      BY <2>1
    <3>2. i \in 1..Len(head') /\ head'[i] = b /\ logArea' = logArea
      BY <3>1
    <3>3. Recovered'[b] = logArea[i]
      BY <1>0, <3>2, ReplayFacts DEF Recovered
    <3>4. tail[p] = Len(lh) /\ logArea[i] = buf[b]
      BY <3>1 DEF IInv, CopyInv
    <3>5. buf[b] # NoBuf
      BY <1>1, <3>1, UninstalledFacts DEF IInv, CacheInv
    <3> QED
      BY <3>3, <3>4, <3>5 DEF Contents
  <2>2. CASE \A i \in 1..Len(lh) : lh[i] # b
    <3>1. Recovered'[b] = home[b]
      BY <1>0, <2>2, ReplayFacts DEF Recovered
    <3>2. b \notin Uninstalled /\ Unlocked(b)
      BY <1>1, <2>2 DEF Uninstalled, Unlocked
    <3> QED
      BY <3>1, <3>2 DEF IInv, CacheInv, Contents
  <2> QED
    BY <2>1, <2>2
<1>4. Recovered' = View
  <2>1. View = [b \in Block |-> Contents(b)]
    BY <1>1 DEF View
  <2>2. Recovered' = [b \in Block |-> Recovered'[b]]
    BY ReplayIsFunction DEF Recovered
  <2> QED
    BY <1>3, <2>1, <2>2
<1> QED
  BY <1>1, <1>2, <1>4 DEF AD!Commit

\* Installing a block changes neither what recovery would leave nor what is read.
LEMMA InstallRefines ==
    ASSUME IInv, IInv', NEW p \in Proc, InstallTrans(p)
    PROVE  UNCHANGED AD!vars
<1> USE DEF InstallTrans, logState
<1> DEFINE i == tail[p] + 1
           b == lh[i]
<1>1. /\ InOp' = InOp /\ Recovering' = Recovering
      /\ head = lh /\ head' = lh /\ logArea' = logArea
  <2>1. pc[p] = "install" => Installing # {} /\ ~Recovering
    BY PhaseFacts DEF Installing
  <2>2. pc[p] = "recover" => p = InitProc
    BY PhaseFacts
  <2> QED
    BY <2>1, <2>2 DEF InOp, Recovering, IInv, HeadInv
<1>2. /\ lh \in Seq(Block) /\ IsInjective(lh) /\ i \in 1..Len(lh) /\ b \in Block
      /\ home \in [Block -> Data] /\ buf \in [Block -> Data \cup {NoBuf}] /\ logArea[i] \in Data
      /\ home' = [home EXCEPT ![b] = logArea[i]] /\ buf' = [buf EXCEPT ![b] = logArea[i]]
  BY DEF IInv, TypeOK, HeaderInv
<1> HIDE DEF InstallTrans
<1>3. Recovered' = Recovered
  <2>1. ASSUME NEW c \in Block
        PROVE  Recovered'[c] = Recovered[c]
    <3>1. CASE \E j \in 1..Len(lh) : lh[j] = c
      BY <1>1, <1>2, <3>1, ReplayFacts DEF Recovered
    <3>2. CASE \A j \in 1..Len(lh) : lh[j] # c
      <4>1. c # b
        BY <1>2, <3>2
      <4>2. Replay(lh, logArea, home')[c] = home'[c] /\ Replay(lh, logArea, home)[c] = home[c]
        <5>1. lh \in Seq(Block) /\ IsInjective(lh)
          BY <1>2
        <5>2. Replay(lh, logArea, home)[c] = home[c]
          BY ONLY <5>1, <3>2, ReplayFacts, c \in Block
        <5>3. Replay(lh, logArea, home')[c] = home'[c]
          BY ONLY <5>1, <3>2, ReplayFacts, c \in Block
        <5> QED
          BY <5>2, <5>3
      <4> QED
        BY <1>1, <1>2, <4>1, <4>2 DEF Recovered
    <3> QED
      BY <3>1, <3>2
  <2>2. /\ Recovered' = [c \in Block |-> Recovered'[c]]
        /\ Recovered = [c \in Block |-> Recovered[c]]
    BY ReplayIsFunction DEF Recovered
  <2> QED
    BY <2>1, <2>2
<1>4. View' = View
  <2>1. CASE Recovering
    BY <1>1, <1>3, <2>1 DEF View
  <2>2. CASE ~Recovering
    <3>1. pc[p] = "install"
      BY <2>2, PhaseFacts DEF InstallTrans
    <3>2. buf[b] = logArea[i]
      <4>1. i > tail[p]
        BY DEF IInv, TypeOK
      <4> QED
        BY <1>2, <3>1, <4>1 DEF IInv, CopyInv
    <3>3. buf' = buf
      BY <1>2, <3>2
    <3>4. \A c \in Block : Contents(c)' = Contents(c)
      <4> TAKE c \in Block
      <4>1. CASE c = b
        BY <1>2, <3>2, <3>3, <4>1 DEF Contents
      <4>2. CASE c # b
        BY <1>2, <3>3, <4>2 DEF Contents
      <4> QED
        BY <4>1, <4>2
    <3> QED
      BY <1>1, <2>2, <3>4 DEF View
  <2> QED
    BY <2>1, <2>2
<1> QED
  BY <1>1, <1>3, <1>4 DEF AD!vars

\* Erasing a fully installed transaction changes nothing, and what recovery
\* restored is what the file system then reads.
LEMMA ClearLogRefines ==
    ASSUME IInv, IInv', NEW p \in Proc, ClearLog(p)
    PROVE  UNCHANGED AD!vars
<1> USE DEF ClearLog
<1>1. /\ InOp = {} /\ InOp' = {} /\ head = lh /\ head' = <<>> /\ ~Recovering'
      /\ \A q \in Proc : hold[q] = NoBlock
      /\ home' = home /\ buf' = buf /\ tail[p] = Len(lh)
      /\ pc[p] = "recover" => Recovering
      /\ pc[p] = "install" => ~Recovering
  <2>1. /\ pc[p] = "install" => p \in Installing /\ ~Recovering
        /\ pc[p] = "recover" => p = InitProc /\ Recovering
        /\ InOp = {}
        /\ \A q \in Proc : hold[q] = NoBlock
    BY PhaseFacts DEF Installing
  <2>2. head = lh
    BY <2>1 DEF IInv, HeadInv
  <2>3. InOp' = {}
    <3>1. CASE pc[p] = "install"
      BY <2>1, <3>1 DEF InOp, IInv, TypeOK
    <3>2. CASE pc[p] = "recover"
      BY <3>2 DEF InOp
    <3> QED
      BY <3>1, <3>2
  <2>4. ~Recovering'
    <3>1. CASE pc[p] = "install"
      BY <2>1, <3>1 DEF Recovering, IInv, TypeOK
    <3>2. CASE pc[p] = "recover"
      BY <3>2 DEF Recovering
    <3> QED
      BY <3>1, <3>2
  <2> QED
    BY <2>1, <2>2, <2>3, <2>4 DEF bufState
<1>2. lh \in Seq(Block) /\ IsInjective(lh) /\ home \in [Block -> Data]
  BY DEF IInv, TypeOK, HeaderInv
<1>3. \A j \in 1..Len(lh) : home[lh[j]] = logArea[j]
  <2>1. pc[p] \in {"install", "recover"}
    OBVIOUS
  <2> HIDE DEF ClearLog
  <2> QED
    BY <1>1, <2>1 DEF IInv, CopyInv
<1>4. Recovered = home /\ Recovered' = home
  <2>1. ASSUME NEW b \in Block
        PROVE  Recovered[b] = home[b] /\ Recovered'[b] = home[b]
    <3>1. Recovered'[b] = home[b]
      BY <1>1, ReplayEmpty DEF Recovered
    <3>2. CASE \E j \in 1..Len(lh) : lh[j] = b
      BY <1>1, <1>2, <1>3, <3>1, <3>2, ReplayFacts DEF Recovered
    <3>3. CASE \A j \in 1..Len(lh) : lh[j] # b
      BY <1>1, <1>2, <3>1, <3>3, ReplayFacts DEF Recovered
    <3> QED
      BY <3>2, <3>3
  <2>2. /\ Recovered' = [b \in Block |-> Recovered'[b]]
        /\ Recovered = [b \in Block |-> Recovered[b]]
    BY ReplayIsFunction DEF Recovered
  <2> QED
    BY <1>2, <2>1, <2>2
<1>5. View' = View
  <2>1. CASE pc[p] = "install"
    BY <1>1, <2>1, SameView
  <2>2. CASE pc[p] = "recover"
    <3>1. Uninstalled = {}
      BY <1>1, <2>2 DEF Uninstalled
    <3>2. \A b \in Block : Unlocked(b)
      BY <1>1 DEF Unlocked
    <3>3. \A b \in Block : Contents(b)' = home[b]
      BY <1>1, <3>1, <3>2 DEF IInv, CacheInv, Contents
    <3>4. View' = [b \in Block |-> home[b]]
      BY <1>1, <3>3 DEF View
    <3> QED
      BY <1>1, <1>2, <1>4, <2>2, <3>4 DEF View
  <2> QED
    BY <2>1, <2>2
<1> QED
  BY <1>1, <1>4, <1>5 DEF AD!vars

\* Reading the header at boot changes nothing in the atomic disk.
LEMMA ReadHeadRefines ==
    ASSUME IInv, IInv', NEW p \in Proc, ReadHead(p)
    PROVE  UNCHANGED AD!vars
<1>1. p = InitProc /\ Recovering /\ InOp = {}
  BY PhaseFacts DEF ReadHead
<1>2. Recovering' /\ InOp' = {}
  BY <1>1 DEF ReadHead, Recovering, InOp, IInv, TypeOK
<1>3. Recovered' = Recovered
  BY SameDisk DEF ReadHead
<1> QED
  BY <1>1, <1>2, <1>3 DEF View, AD!vars

\* A crash of the log is a crash of the atomic disk.
LEMMA CrashRefines ==
    ASSUME Crash
    PROVE  AD!Crash
<1>1. Recovering' /\ InOp' = {}
  BY DEF Crash, BootPc, Recovering, InOp
<1>2. Recovered' = Recovered
  BY SameDisk DEF Crash
<1> QED
  BY <1>1, <1>2 DEF View, AD!Crash

\* Every step of the log is a step of the atomic disk or changes nothing in it.
LEMMA NextRefines ==
    ASSUME IInv, IInv', [Next]_vars
    PROVE  [AD!Next]_(AD!vars)
<1>1. ASSUME NEW p \in Proc, Step(p) PROVE [AD!Next]_(AD!vars)
  <2>1. CASE BeginOp(p) \/ KillWake(p) \/ LogWrite(p) \/ Brelse(p) \/ EndOp(p) \/ Commit(p)
               \/ FinishCommit(p)
    BY <2>1, MemoryStepRefines
  <2>2. CASE WriteHead(p)
    BY <2>2, WriteHeadRefines DEF AD!Next
  <2>3. CASE WriteLog(p) \/ InstallTrans(p) \/ ClearLog(p) \/ ReadHead(p)
    BY <2>3, WriteLogRefines, InstallRefines, ClearLogRefines, ReadHeadRefines
  <2> QED
    BY <1>1, <2>1, <2>2, <2>3 DEF Step
<1>2. ASSUME NEW p \in Proc, NEW b \in Block, NEW d \in Data, ModifyBuf(p, b, d)
      PROVE  AD!Next
  BY <1>2, ModifyBufRefines DEF AD!Next
<1>3. ASSUME NEW b \in Block, Bread(b) \/ Evict(b) PROVE UNCHANGED AD!vars
  BY <1>3, CacheStepRefines
<1>4. ASSUME UNCHANGED vars PROVE UNCHANGED AD!vars
  <2>1. Recovered' = Recovered
    BY <1>4, SameDisk DEF vars
  <2>2. Recovering' = Recovering /\ InOp' = InOp
    BY <1>4 DEF vars, procState, Recovering, InOp
  <2>3. View' = View
    BY <1>4, <2>1, <2>2 DEF View, Contents, vars, disk, bufState
  <2> QED
    BY <2>1, <2>2, <2>3 DEF AD!vars
<1>5. ASSUME Crash PROVE AD!Next
  BY <1>5, CrashRefines DEF AD!Next
<1> QED
  BY <1>1, <1>2, <1>3, <1>4, <1>5 DEF Next

\* The log implements the atomic disk: groups of whole operations become durable
\* at once, at the header write of commit(), and a crash at any step of an
\* operation, of commit() or of recovery loses only what was not yet durable.
THEOREM AtomicAcrossCrashesThm ==
    ASSUME Sized
    PROVE  Spec => AtomicAcrossCrashes
<1>1. Init => AD!Init
  BY InitRefines
<1>2. IInv /\ IInv' /\ [Next]_vars => [AD!Next]_(AD!vars)
  BY NextRefines
<1>3. Spec => []IInv
  BY InvariantThm
<1> QED
  BY <1>1, <1>2, <1>3, PTL DEF Spec, AD!Spec, AtomicAcrossCrashes

\* When a committing end_op() returns, a crash loses nothing that was written.
THEOREM DurableAtReturnThm ==
    ASSUME Sized
    PROVE  Spec => DurableAtReturn
<1> DEFINE A == \A p \in Proc : pc[p] = "finish" /\ pc'[p] = "idle" => Recovered' = View'
<1>1. ASSUME IInv, IInv', [Next]_vars PROVE [A]_vars
  <2> SUFFICES ASSUME NEW p \in Proc, pc[p] = "finish", pc'[p] = "idle"
               PROVE  Recovered' = View'
    OBVIOUS
  <2>1. /\ p \in Committer /\ InOp = {} /\ Installing = {} /\ ~Recovering /\ lh = <<>> /\ head = <<>>
        /\ \A q \in Proc : hold[q] = NoBlock
    BY <1>1, PhaseFacts DEF Committer, Installing, IInv, HeaderInv, HeadInv
  <2>2. Recovered = View
    <3>1. \A b \in Block : b \notin Uninstalled /\ Unlocked(b)
      BY <2>1 DEF Uninstalled, Unlocked
    <3>2. \A b \in Block : Contents(b) = home[b]
      BY <1>1, <3>1 DEF IInv, CacheInv, Contents
    <3>3. View = [b \in Block |-> home[b]]
      BY <2>1, <3>2 DEF View
    <3>4. \A b \in Block : Recovered[b] = home[b]
      BY <2>1, ReplayEmpty DEF Recovered
    <3>5. Recovered = [b \in Block |-> Recovered[b]]
      BY ReplayIsFunction DEF Recovered
    <3> QED
      BY <3>3, <3>4, <3>5
  <2>3. ~Recovering'
    BY <1>1 DEF IInv, BootInv, Recovering
  <2>4. CASE FinishCommit(p)
    <3>1. Recovered' = Recovered /\ View' = View
      BY <2>1, <2>3, <2>4, SameDisk, SameView DEF FinishCommit, disk, bufState
    <3> QED
      BY <2>2, <3>1
  <2>5. CASE ~FinishCommit(p)
    <3>1. ASSUME NEW q \in Proc, Step(q) PROVE FALSE
      <4>1. CASE q = p
        BY <2>5, <3>1, <4>1 DEF Step, BeginOp, KillWake, LogWrite, Brelse, EndOp, Commit, WriteLog,
              WriteHead, InstallTrans, ClearLog, ReadHead
      <4>2. CASE q # p
        <5>1. pc[q] # "recover" /\ TypeOK
          BY <1>1, <2>1, PhaseFacts DEF IInv
        <5>2. pc'[p] = pc[p]
          BY <3>1, <4>2, <5>1 DEF Step, BeginOp, KillWake, LogWrite, Brelse, EndOp, Commit, WriteLog,
                WriteHead, InstallTrans, ClearLog, ReadHead, FinishCommit, WakeupLog, procState,
                TypeOK
        <5> QED
          BY <5>2
      <4> QED
        BY <4>1, <4>2
    <3>2. ASSUME NEW q \in Proc, NEW b \in Block, NEW d \in Data, ModifyBuf(q, b, d) PROVE FALSE
      BY <1>1, <3>2 DEF ModifyBuf, IInv, TypeOK
    <3>3. ~Crash /\ ~UNCHANGED vars
      BY DEF Crash, BootPc, vars, procState
    <3>4. ASSUME NEW b \in Block, Bread(b) \/ Evict(b) PROVE FALSE
      BY <3>4 DEF Bread, Evict, procState
    <3> QED
      BY <1>1, <3>1, <3>2, <3>3, <3>4 DEF Next
  <2> QED
    BY <2>4, <2>5
<1> QED
  BY <1>1, InvariantThm, PTL DEF Spec, DurableAtReturn
=============================================================================
