-------------------------- MODULE BcacheRefinement --------------------------
(***************************************************************************)
(* The buffer cache implements BlockCells, for every value of the          *)
(* constants.  The end of bread() acquires a cell, a change of b->data     *)
(* changes it and releasesleep() releases it; every other step, recycling  *)
(* and writing back among them, leaves all the cells alone.                *)
(***************************************************************************)
EXTENDS BcacheProofs

USE NothingAssumption, BufAssumption, ZenonT(10), SMTT(30)

\* A valid buffer is what readers of its block see.
LEMMA ViewInBuffer ==
    IInv => \A b \in Buf : valid[b] => blockno[b] \in Block /\ View[blockno[b]] = data[b]
<1> SUFFICES ASSUME IInv, NEW b \in Buf, valid[b]
             PROVE  blockno[b] \in Block /\ View[blockno[b]] = data[b]
  OBVIOUS
<1>1. blockno[b] \in Block
  BY DEF IInv, DataInv
<1>2. b \in Cached(blockno[b])
  BY DEF Cached
<1>3. \A c \in Cached(blockno[b]) : c = b
  BY <1>1 DEF IInv, OneBufferPerBlock, Cached
<1>4. (CHOOSE c \in Cached(blockno[b]) : valid[c]) = b
  BY <1>2, <1>3
<1> QED
  BY <1>1, <1>2, <1>4 DEF View

\* A block that no valid buffer caches is what the disk holds.
LEMMA ViewOnDisk ==
    \A n \in Block : (\A b \in Buf : blockno[b] = n => ~valid[b]) => View[n] = disk[n]
BY DEF View, Cached

\* The process that has read a block holds its cell.
LEMMA HolderHas ==
    IInv => \A p \in Proc : Has(p) => want[p] \in Block /\ Holder[want[p]] = p
<1> SUFFICES ASSUME IInv, NEW p \in Proc, Has(p)
             PROVE  want[p] \in Block /\ Holder[want[p]] = p
  OBVIOUS
<1>1. p \in InLock /\ want[p] \in Block /\ mine[p] \in Buf /\ blockno[mine[p]] = want[p]
  BY HolderFacts DEF InLock, Has
<1>2. ASSUME NEW q \in Proc, Has(q), want[q] = want[p]
      PROVE  q = p
  <2>1. q \in InLock /\ mine[q] \in Buf /\ blockno[mine[q]] = want[q]
    BY <1>2, HolderFacts DEF InLock, Has
  <2>2. mine[q] = mine[p]
    BY <1>1, <1>2, <2>1 DEF IInv, OneBufferPerBlock
  <2> QED
    BY <1>1, <2>1, <2>2, OneHolder
<1>3. (CHOOSE q \in Proc : Has(q) /\ want[q] = want[p]) = p
  BY <1>2
<1> QED
  BY <1>1, <1>3 DEF Holder

\* A block that no process has read has no holder.
LEMMA HolderNone ==
    \A n \in Block : (\A p \in Proc : Has(p) => want[p] # n) => Holder[n] = NoProc
BY DEF Holder

\* Both are functions of the block number.
LEMMA CellsAreFunctions ==
    View = [n \in Block |-> View[n]] /\ Holder = [n \in Block |-> Holder[n]]
BY DEF View, Holder

\* The same facts of the state after a step.
LEMMA AfterStep ==
    ASSUME IInv'
    PROVE  /\ \A b \in Buf : valid'[b] => blockno'[b] \in Block /\ View'[blockno'[b]] = data'[b]
           /\ \A n \in Block : (\A b \in Buf : blockno'[b] = n => ~valid'[b]) => View'[n] = disk'[n]
           /\ \A p \in Proc : Has(p)' => want'[p] \in Block /\ Holder'[want'[p]] = p
           /\ \A n \in Block : (\A p \in Proc : Has(p)' => want'[p] # n) => Holder'[n] = NoProc
           /\ View' = [n \in Block |-> View'[n]]
           /\ Holder' = [n \in Block |-> Holder'[n]]
<1>1. (IInv => \A b \in Buf : valid[b] => blockno[b] \in Block /\ View[blockno[b]] = data[b])'
  BY ViewInBuffer, PTL
<1>2. (\A n \in Block : (\A b \in Buf : blockno[b] = n => ~valid[b]) => View[n] = disk[n])'
  BY ViewOnDisk, PTL
<1>3. (IInv => \A p \in Proc : Has(p) => want[p] \in Block /\ Holder[want[p]] = p)'
  BY HolderHas, PTL
<1>4. (\A n \in Block : (\A p \in Proc : Has(p) => want[p] # n) => Holder[n] = NoProc)'
  BY HolderNone, PTL
<1>5. (View = [n \in Block |-> View[n]] /\ Holder = [n \in Block |-> Holder[n]])'
  BY CellsAreFunctions, PTL
<1> QED
  BY <1>1, <1>2, <1>3, <1>4, <1>5

\* Steps by which no process starts or stops having its block.
LEMMA SameHolders ==
    ASSUME IInv, IInv',
           \A q \in Proc : (Has(q)' <=> Has(q)) /\ (Has(q) => want'[q] = want[q])
    PROVE  Holder' = Holder
<1>1. ASSUME NEW n \in Block
      PROVE  Holder'[n] = Holder[n]
  <2>1. CASE \E q \in Proc : Has(q) /\ want[q] = n
    <3>1. PICK q \in Proc : Has(q) /\ want[q] = n
      BY <2>1
    <3>2. Holder[n] = q
      BY <3>1, HolderHas
    <3>3. Holder'[n] = q
      BY <3>1, AfterStep
    <3> QED
      BY <3>2, <3>3
  <2>2. CASE \A q \in Proc : Has(q) => want[q] # n
    <3>1. Holder[n] = NoProc
      BY <2>2, HolderNone
    <3>2. Holder'[n] = NoProc
      BY <2>2, AfterStep
    <3> QED
      BY <3>1, <3>2
  <2> QED
    BY <2>1, <2>2
<1> QED
  BY <1>1, AfterStep, CellsAreFunctions

\* Steps that touch neither the buffers nor the disk.
LEMMA SameView ==
    ASSUME UNCHANGED <<disk, blockno, valid, data>>
    PROVE  View' = View
BY DEF View, Cached

-----------------------------------------------------------------------------
(* The initial states *)

\* At boot every read sees the disk and no process has a block.
LEMMA InitRefines == Init => BC!Init
<1> SUFFICES ASSUME Init PROVE BC!Init
  OBVIOUS
<1>1. \A n \in Block : View[n] = disk[n] /\ Holder[n] = NoProc
  BY ViewOnDisk, HolderNone DEF Init, Has
<1> QED
  BY <1>1, CellsAreFunctions DEF Init, BC!Init

-----------------------------------------------------------------------------
(* The steps *)

\* bget() changes no cell: a buffer it recycles agrees with the disk.
LEMMA BgetRefines ==
    ASSUME IInv, IInv', NEW p \in Proc, NEW n \in Block, Bget(p, n)
    PROVE  UNCHANGED BC!vars
<1>1. Holder' = Holder
  <2>1. \A q \in Proc : (Has(q)' <=> Has(q)) /\ (Has(q) => want'[q] = want[q])
    <3>1. pc[p] = "idle" /\ pc'[p] \in {"lock", "panic"}
      BY DEF Bget, Goto, IInv, TypeOK
    <3>2. \A q \in Proc : q # p => pc'[q] = pc[q] /\ want'[q] = want[q]
      BY DEF Bget, Goto, IInv, TypeOK
    <3> QED
      BY <3>1, <3>2 DEF Has
  <2> QED
    BY <2>1, SameHolders
<1>2. View' = View
  <2>1. CASE Cached(n) # {} \/ Free = {}
    <3>1. UNCHANGED <<disk, blockno, valid, data>>
      BY <2>1 DEF Bget
    <3> QED
      BY <3>1, SameView
  <2>2. CASE Cached(n) = {} /\ Free # {}
    <3> DEFINE b == LeastRecent
    <3>0. b \in Free
      BY <2>2, LeastRecentIsFree DEF IInv
    <3>1. /\ blockno' = [blockno EXCEPT ![b] = n] /\ valid' = [valid EXCEPT ![b] = FALSE]
          /\ UNCHANGED <<disk, data>>
      BY <2>2 DEF Bget, Invalidate
    <3> HIDE DEF b
    <3>2. b \in Buf /\ b \notin pinned /\ \A q \in Proc : mine[q] # b
      BY <3>0, FreeIsUnused
    <3>3. valid[b] => data[b] = disk[blockno[b]]
      BY <3>2 DEF IInv, DataInv
    <3>4. ~valid'[b] /\ \A c \in Buf : c # b => blockno'[c] = blockno[c] /\ valid'[c] = valid[c]
      BY <3>1, <3>2 DEF IInv, TypeOK
    <3>5. ASSUME NEW m \in Block
          PROVE  View'[m] = View[m]
      <4>1. CASE \E c \in Buf : c # b /\ blockno[c] = m /\ valid[c]
        <5>1. PICK c \in Buf : c # b /\ blockno[c] = m /\ valid[c]
          BY <4>1
        <5>2. View[m] = data[c]
          BY <5>1, ViewInBuffer
        <5>3. View'[m] = data'[c]
          BY <3>4, <5>1, AfterStep
        <5> QED
          BY <3>1, <5>2, <5>3
      <4>2. CASE \A c \in Buf : c # b /\ blockno[c] = m => ~valid[c]
        <5>1. View'[m] = disk[m]
          BY <3>1, <3>4, <4>2, AfterStep
        <5>2. CASE valid[b] /\ blockno[b] = m
          BY <3>2, <3>3, <5>1, <5>2, ViewInBuffer
        <5>3. CASE ~(valid[b] /\ blockno[b] = m)
          BY <4>2, <5>1, <5>3, ViewOnDisk
        <5> QED
          BY <5>2, <5>3
      <4> QED
        BY <4>1, <4>2
    <3> QED
      BY <3>5, AfterStep, CellsAreFunctions
  <2> QED
    BY <2>1, <2>2
<1> QED
  BY <1>1, <1>2 DEF BC!vars

\* Waiting for the lock, pinning, unpinning and dropping a reference change no cell.
LEMMA QuietRefines ==
    ASSUME IInv, IInv', NEW p \in Proc,
           AcquireSleep(p) \/ KillWake(p) \/ Bpin(p) \/ Bunpin(p) \/ Brelse(p)
    PROVE  UNCHANGED BC!vars
<1>1. UNCHANGED <<disk, blockno, valid, data>>
  BY DEF AcquireSleep, KillWake, Bpin, Bunpin, Brelse, bufVars
<1>2. \A q \in Proc : (Has(q)' <=> Has(q)) /\ (Has(q) => want'[q] = want[q])
  <2>1. \A q \in Proc : q # p => pc'[q] = pc[q] /\ want'[q] = want[q]
    BY DEF AcquireSleep, KillWake, Bpin, Bunpin, Brelse, Goto, IInv, TypeOK
  <2>2. (Has(p)' <=> Has(p)) /\ (Has(p) => want'[p] = want[p])
    BY DEF AcquireSleep, KillWake, Bpin, Bunpin, Brelse, Goto, Has, IInv, TypeOK
  <2> QED
    BY <2>1, <2>2 DEF Has
<1> QED
  BY <1>1, <1>2, SameView, SameHolders DEF BC!vars

\* The end of bread() gives its caller the cell, and reads into the buffer what
\* the cell already held.
LEMMA BreadRefines ==
    ASSUME IInv, IInv', NEW p \in Proc, Bread(p)
    PROVE  want[p] \in Block /\ BC!Acquire(p, want[p])
<1> DEFINE b == mine[p]
<1>0. p \in InLock /\ b \in Buf /\ want[p] \in Block /\ blockno[b] = want[p]
  BY HolderFacts DEF InLock, Bread
<1>1. /\ pc[p] = "got" /\ pc' = [pc EXCEPT ![p] = "held"]
      /\ valid' = [valid EXCEPT ![b] = TRUE]
      /\ data' = IF valid[b] THEN data ELSE [data EXCEPT ![b] = disk[blockno[b]]]
      /\ UNCHANGED <<disk, blockno, mine, want>>
  BY DEF Bread, Goto
<1> HIDE DEF b
<1>2. Has(p)' /\ ~Has(p) /\ \A q \in Proc : q # p => (Has(q)' <=> Has(q))
  BY <1>1 DEF Has, IInv, TypeOK
<1>3. Holder'[want[p]] = p
  BY <1>1, <1>2, AfterStep
<1>4. \A q \in Proc : Has(q) => want[q] # want[p]
  <2> SUFFICES ASSUME NEW q \in Proc, Has(q), want[q] = want[p]
               PROVE  FALSE
    OBVIOUS
  <2>1. q \in Proc /\ q # p /\ Has(q)'
    BY <1>2
  <2>2. Holder'[want'[q]] = q
    BY <2>1, AfterStep
  <2> QED
    BY <1>1, <1>3, <2>1, <2>2
<1>5. Holder[want[p]] = NoProc
  BY <1>0, <1>4, HolderNone
<1>6. ASSUME NEW m \in Block, m # want[p]
      PROVE  Holder'[m] = Holder[m]
  <2>1. CASE \E q \in Proc : Has(q) /\ want[q] = m
    <3>1. PICK q \in Proc : Has(q) /\ want[q] = m
      BY <2>1
    <3>2. Holder[m] = q
      BY <3>1, HolderHas
    <3>3. Has(q)' /\ want'[q] = m
      BY <1>1, <1>2, <3>1
    <3> QED
      BY <3>2, <3>3, AfterStep
  <2>2. CASE \A q \in Proc : Has(q) => want[q] # m
    <3>1. \A q \in Proc : Has(q)' => want'[q] # m
      BY <1>1, <1>2, <1>6, <2>2
    <3> QED
      BY <2>2, <3>1, HolderNone, AfterStep
  <2> QED
    BY <2>1, <2>2
<1>7. Holder' = [Holder EXCEPT ![want[p]] = p]
  BY <1>0, <1>3, <1>6, AfterStep, CellsAreFunctions
<1>8. ASSUME NEW m \in Block
      PROVE  View'[m] = View[m]
  <2>0. /\ valid'[b]
        /\ data'[b] = IF valid[b] THEN data[b] ELSE disk[blockno[b]]
        /\ \A c \in Buf : c # b => valid'[c] = valid[c] /\ data'[c] = data[c]
    BY <1>0, <1>1 DEF IInv, TypeOK
  <2>1. CASE m = want[p]
    <3>1. View'[m] = data'[b]
      BY <1>0, <1>1, <2>0, <2>1, AfterStep
    <3>2. CASE valid[b]
      BY <1>0, <2>0, <2>1, <3>1, <3>2, ViewInBuffer
    <3>3. CASE ~valid[b]
      <4>1. \A c \in Buf : blockno[c] = m => c = b
        BY <1>0, <2>1 DEF IInv, OneBufferPerBlock
      <4>2. View[m] = disk[m]
        BY <3>3, <4>1, ViewOnDisk
      <4> QED
        BY <1>0, <2>0, <2>1, <3>1, <3>3, <4>2
    <3> QED
      BY <3>2, <3>3
  <2>2. CASE m # want[p]
    <3>1. CASE \E c \in Buf : blockno[c] = m /\ valid[c]
      <4>1. PICK c \in Buf : blockno[c] = m /\ valid[c]
        BY <3>1
      <4>2. c # b
        BY <1>0, <2>2, <4>1
      <4>3. View[m] = data[c]
        BY <4>1, ViewInBuffer
      <4>4. View'[m] = data'[c]
        BY <1>1, <2>0, <4>1, <4>2, AfterStep
      <4> QED
        BY <2>0, <4>2, <4>3, <4>4
    <3>2. CASE \A c \in Buf : blockno[c] = m => ~valid[c]
      <4>1. \A c \in Buf : blockno'[c] = m => ~valid'[c]
        BY <1>0, <1>1, <2>0, <2>2, <3>2
      <4> QED
        BY <1>1, <3>2, <4>1, ViewOnDisk, AfterStep
    <3> QED
      BY <3>1, <3>2
  <2> QED
    BY <2>1, <2>2
<1>9. View' = View
  BY <1>8, AfterStep, CellsAreFunctions
<1> QED
  BY <1>0, <1>5, <1>7, <1>9 DEF BC!Acquire

\* A change of b->data changes the cell its process holds and no other.
LEMMA ModifyRefines ==
    ASSUME IInv, IInv', NEW p \in Proc, NEW d \in Data, Modify(p, d)
    PROVE  want[p] \in Block /\ BC!Change(p, want[p], d)
<1> DEFINE b == mine[p]
<1>0. /\ p \in InLock /\ b \in Buf /\ want[p] \in Block /\ blockno[b] = want[p]
      /\ Has(p) /\ Has(p)'
  BY HolderFacts DEF InLock, Modify, Has, Goto, IInv, TypeOK
<1>1. /\ pc' = [pc EXCEPT ![p] = "dirty"] /\ data' = [data EXCEPT ![b] = d]
      /\ UNCHANGED <<disk, blockno, valid, mine, want>>
  BY DEF Modify, Goto
<1> HIDE DEF b
<1>2. Holder' = Holder /\ Holder[want[p]] = p
  <2>1. \A q \in Proc : (Has(q)' <=> Has(q)) /\ (Has(q) => want'[q] = want[q])
    BY <1>0, <1>1 DEF Has, IInv, TypeOK
  <2> QED
    BY <1>0, <2>1, SameHolders, HolderHas
<1>3. valid[b] /\ data'[b] = d /\ \A c \in Buf : c # b => data'[c] = data[c]
  BY <1>0, <1>1 DEF IInv, DataInv, TypeOK, b
<1>4. View'[want[p]] = d
  BY <1>0, <1>1, <1>3, AfterStep
<1>5. ASSUME NEW m \in Block, m # want[p]
      PROVE  View'[m] = View[m]
  <2>1. CASE \E c \in Buf : blockno[c] = m /\ valid[c]
    <3>1. PICK c \in Buf : blockno[c] = m /\ valid[c]
      BY <2>1
    <3>2. c # b
      BY <1>0, <1>5, <3>1
    <3>3. View[m] = data[c]
      BY <3>1, ViewInBuffer
    <3>4. View'[m] = data'[c]
      BY <1>1, <3>1, AfterStep
    <3> QED
      BY <1>3, <3>2, <3>3, <3>4
  <2>2. CASE \A c \in Buf : blockno[c] = m => ~valid[c]
    BY <1>1, <2>2, ViewOnDisk, AfterStep
  <2> QED
    BY <2>1, <2>2
<1>6. View' = [View EXCEPT ![want[p]] = d]
  BY <1>0, <1>4, <1>5, AfterStep, CellsAreFunctions
<1> QED
  BY <1>0, <1>2, <1>6 DEF BC!Change

\* bwrite() changes no cell: readers saw the buffer, and the disk catches up.
LEMMA BwriteRefines ==
    ASSUME IInv, IInv', NEW p \in Proc, Bwrite(p)
    PROVE  UNCHANGED BC!vars
<1> DEFINE b == mine[p]
<1>0. /\ p \in InLock /\ b \in Buf /\ want[p] \in Block /\ blockno[b] = want[p] /\ HoldingSleep(p)
      /\ Has(p)
  BY HolderFacts DEF InLock, Bwrite, Has
<1>1. /\ disk' = [disk EXCEPT ![want[p]] = data[b]] /\ pc' = [pc EXCEPT ![p] = "written"]
      /\ UNCHANGED <<blockno, valid, data, mine, want>>
  BY <1>0 DEF Bwrite, Goto, bufVars
<1>2. valid[b]
  BY <1>0 DEF IInv, DataInv
<1> HIDE DEF b
<1>3. Holder' = Holder
  <2>1. \A q \in Proc : (Has(q)' <=> Has(q)) /\ (Has(q) => want'[q] = want[q])
    BY <1>0, <1>1 DEF Has, IInv, TypeOK
  <2> QED
    BY <2>1, SameHolders
<1>4. ASSUME NEW m \in Block
      PROVE  View'[m] = View[m]
  <2>1. CASE \E c \in Buf : blockno[c] = m /\ valid[c]
    <3>1. PICK c \in Buf : blockno[c] = m /\ valid[c]
      BY <2>1
    <3>2. View[m] = data[c]
      BY <3>1, ViewInBuffer
    <3>3. View'[m] = data'[c]
      BY <1>1, <3>1, AfterStep
    <3> QED
      BY <1>1, <3>2, <3>3
  <2>2. CASE \A c \in Buf : blockno[c] = m => ~valid[c]
    <3>1. m # want[p]
      BY <1>0, <1>2, <2>2
    <3>2. disk'[m] = disk[m]
      BY <1>1, <3>1 DEF IInv, TypeOK
    <3> QED
      BY <1>1, <2>2, <3>2, ViewOnDisk, AfterStep
  <2> QED
    BY <2>1, <2>2
<1>5. View' = View
  BY <1>4, AfterStep, CellsAreFunctions
<1> QED
  BY <1>3, <1>5 DEF BC!vars

\* releasesleep() gives the cell back.
LEMMA ReleaseRefines ==
    ASSUME IInv, IInv', NEW p \in Proc, ReleaseSleep(p)
    PROVE  want[p] \in Block /\ BC!Release(p, want[p])
<1>0. p \in InLock /\ want[p] \in Block /\ HoldingSleep(p) /\ Has(p)
  BY HolderFacts DEF InLock, ReleaseSleep, Has
<1>1. /\ \A q \in Proc : pc'[q] = IF q = p THEN "unlocked"
                                  ELSE IF pc[q] = "sleep" /\ mine[q] = mine[p] THEN "lock" ELSE pc[q]
      /\ UNCHANGED <<disk, blockno, valid, data, want>>
  BY <1>0 DEF ReleaseSleep, Wakeup, bufVars
<1>2. ~Has(p)' /\ \A q \in Proc : q # p => (Has(q)' <=> Has(q))
  BY <1>1 DEF Has
<1>3. Holder[want[p]] = p
  BY <1>0, HolderHas
<1>4. Holder'[want[p]] = NoProc
  <2>1. \A q \in Proc : Has(q)' => want'[q] # want[p]
    <3> SUFFICES ASSUME NEW q \in Proc, Has(q)', want'[q] = want[p]
                 PROVE  FALSE
      OBVIOUS
    <3>1. q # p /\ Has(q) /\ want[q] = want[p]
      BY <1>1, <1>2
    <3>2. Holder[want[q]] = q
      BY <3>1, HolderHas
    <3> QED
      BY <1>3, <3>1, <3>2
  <2> QED
    BY <1>0, <2>1, AfterStep
<1>5. ASSUME NEW m \in Block, m # want[p]
      PROVE  Holder'[m] = Holder[m]
  <2>1. CASE \E q \in Proc : Has(q) /\ want[q] = m
    <3>1. PICK q \in Proc : Has(q) /\ want[q] = m
      BY <2>1
    <3>2. Holder[m] = q
      BY <3>1, HolderHas
    <3>3. Has(q)' /\ want'[q] = m
      BY <1>1, <1>2, <1>5, <3>1
    <3> QED
      BY <3>2, <3>3, AfterStep
  <2>2. CASE \A q \in Proc : Has(q) => want[q] # m
    <3>1. \A q \in Proc : Has(q)' => want'[q] # m
      BY <1>1, <1>2, <2>2
    <3> QED
      BY <2>2, <3>1, HolderNone, AfterStep
  <2> QED
    BY <2>1, <2>2
<1>6. Holder' = [Holder EXCEPT ![want[p]] = NoProc]
  BY <1>0, <1>4, <1>5, AfterStep, CellsAreFunctions
<1>7. View' = View
  BY <1>1, SameView
<1> QED
  BY <1>0, <1>3, <1>6, <1>7 DEF BC!Release

\* Every step of the cache is a step of the cells or changes none of them.
LEMMA NextRefines == IInv /\ IInv' /\ [Next]_vars => [BC!Next]_(BC!vars)
<1> SUFFICES ASSUME IInv, IInv', [Next]_vars PROVE [BC!Next]_(BC!vars)
  OBVIOUS
<1>1. CASE UNCHANGED vars
  <2>1. View' = View
    BY <1>1, SameView DEF vars, bufVars
  <2>2. Holder' = Holder
    BY <1>1 DEF Holder, Has, vars, procVars
  <2> QED
    BY <2>1, <2>2 DEF BC!vars
<1>2. ASSUME NEW p \in Proc, NEW n \in Block, Bget(p, n)
      PROVE  UNCHANGED BC!vars
  BY <1>2, BgetRefines
<1>3. ASSUME NEW p \in Proc, NEW d \in Data, Modify(p, d)
      PROVE  BC!Next
  BY <1>3, ModifyRefines DEF BC!Next
<1>4. ASSUME NEW p \in Proc, Step(p) \/ KillWake(p)
      PROVE  [BC!Next]_(BC!vars)
  <2>1. CASE AcquireSleep(p) \/ KillWake(p) \/ Bpin(p) \/ Bunpin(p) \/ Brelse(p)
    BY <2>1, QuietRefines
  <2>2. CASE Bwrite(p)
    BY <2>2, BwriteRefines
  <2>3. CASE Bread(p)
    BY <2>3, BreadRefines DEF BC!Next
  <2>4. CASE ReleaseSleep(p)
    BY <2>4, ReleaseRefines DEF BC!Next
  <2> QED
    BY <1>4, <2>1, <2>2, <2>3, <2>4 DEF Step
<1> QED
  BY <1>1, <1>2, <1>3, <1>4 DEF Next

\* The cache implements one cell per block, held by one process at a time: bget()
\* may recycle any free buffer, and bread() read it again, without a reader
\* seeing anything but the last change made under the lock.
THEOREM CacheIsCellsThm == Spec => CacheIsCells
<1>1. Init => BC!Init
  BY InitRefines
<1>2. IInv /\ IInv' /\ [Next]_vars => [BC!Next]_(BC!vars)
  BY NextRefines
<1>3. Spec => []IInv
  BY InvariantThm
<1> QED
  BY <1>1, <1>2, <1>3, PTL DEF Spec, BC!Spec, CacheIsCells
=============================================================================
