-------------------------- MODULE LogCommitProofs ---------------------------
(***************************************************************************)
(* The steps of commit() and of recovery preserve the invariant of LogInv. *)
(***************************************************************************)
EXTENDS LogCacheProofs

USE ProcAssumption, NoBufAssumption, NoBlockAssumption, SizeAssumption, ZenonT(10), SMTT(30)

\* Entering commit() preserves the invariant.
LEMMA CommitStep ==
    ASSUME IInv, NEW p \in Proc, Commit(p)
    PROVE  IInv'
<1> USE DEF IInv, Commit, HasWrites, disk, logState, bufState, procState
<1>1. /\ InOp' = InOp /\ Committer' = Committer /\ Installing' = Installing
      /\ Recovering' = Recovering /\ Uninstalled' = Uninstalled /\ Slots' = Slots
  <2>1. InOp' = InOp /\ Installing' = Installing /\ Recovering' = Recovering
    BY DEF InOp, Installing, Recovering, TypeOK
  <2>2. Committer' = Committer
    BY DEF Committer, TypeOK
  <2>3. Uninstalled' = Uninstalled
    <3>1. \A q \in Proc : pc[q] = "install" <=> pc'[q] = "install"
      BY DEF TypeOK
    <3>2. \A q \in Proc : pc[q] = "install" => tail'[q] = tail[q]
      BY DEF TypeOK
    <3> QED
      BY <2>1, <3>1, <3>2 DEF Uninstalled
  <2> QED
    BY <2>1, <2>2, <2>3 DEF Slots
<1>2. TypeOK'
  BY <1>1 DEF TypeOK
<1>3. NoPanic'
  BY <1>1 DEF NoPanic, TypeOK
<1>4. BootInv'
  BY <1>1 DEF BootInv, TypeOK
<1>5. CountInv'
  BY <1>1 DEF CountInv, TypeOK
<1>6. HoldInv'
  BY <1>1 DEF HoldInv, TypeOK
<1>7. HeaderInv'
  BY <1>1 DEF HeaderInv, TypeOK, Logged
<1>8. SpaceInv'
  BY <1>1 DEF SpaceInv, TypeOK
<1>9. SleeperHasWaker'
  BY <1>1 DEF SleeperHasWaker, TypeOK
<1>10. HeadInv'
  BY <1>1 DEF HeadInv, TypeOK
<1>11. PinsBalanced'
  BY <1>1 DEF PinsBalanced, TypeOK
<1>12. CopyInv'
  <2>1. /\ \A q \in Proc : q # p => pc'[q] = pc[q] /\ tail'[q] = tail[q]
        /\ tail'[p] = 0 /\ pc'[p] \in {"write_log", "finish"}
    BY DEF TypeOK
  <2>2. logArea' = logArea /\ buf' = buf /\ lh' = lh /\ home' = home
    OBVIOUS
  <2> QED
    BY <2>1, <2>2 DEF CopyInv
<1>13. CacheInv'
  BY <1>1 DEF CacheInv, TypeOK, Unlocked
<1> QED
  BY <1>2, <1>3, <1>4, <1>5, <1>6, <1>7, <1>8, <1>9, <1>10, <1>11, <1>12, <1>13

\* Copying one block to the log preserves the invariant.
LEMMA WriteLogStep ==
    ASSUME IInv, NEW p \in Proc, WriteLog(p)
    PROVE  IInv'
<1> USE DEF IInv, WriteLog, Contents, disk, logState, bufState, procState
<1> DEFINE i == tail[p] + 1
<1>0. /\ p \in Committer /\ Installing = {} /\ ~Recovering
      /\ i \in 1..Len(lh) /\ i \in 1..LOGBLOCKS
      /\ lh[i] \in Block /\ buf[lh[i]] # NoBuf /\ buf' = buf
  <2>1. p \in Committer /\ Installing = {} /\ ~Recovering
    BY PhaseFacts DEF Committer, Installing
  <2>2. i \in 1..Len(lh) /\ i \in 1..LOGBLOCKS
    BY DEF TypeOK, HeaderInv
  <2>3. lh[i] \in Block /\ buf[lh[i]] # NoBuf
    BY <2>1, <2>2, UninstalledFacts DEF CacheInv
  <2> QED
    BY <2>1, <2>2, <2>3 DEF TypeOK
<1>1. /\ InOp' = InOp /\ Committer' = Committer /\ Installing' = Installing
      /\ Recovering' = Recovering /\ Uninstalled' = Uninstalled /\ Slots' = Slots
  BY <1>0 DEF InOp, Committer, Installing, Recovering, Uninstalled, Slots, TypeOK
<1>2. TypeOK'
  BY <1>0 DEF TypeOK
<1>3. NoPanic'
  BY <1>1 DEF NoPanic, TypeOK
<1>4. BootInv'
  BY <1>1 DEF BootInv, TypeOK
<1>5. CountInv'
  BY <1>1 DEF CountInv, TypeOK
<1>6. HoldInv'
  BY <1>1 DEF HoldInv, TypeOK
<1>7. HeaderInv'
  BY <1>1 DEF HeaderInv, TypeOK, Logged
<1>8. SpaceInv'
  BY <1>1 DEF SpaceInv, TypeOK
<1>9. SleeperHasWaker'
  BY <1>1 DEF SleeperHasWaker, TypeOK
<1>10. HeadInv'
  BY <1>1 DEF HeadInv, TypeOK
<1>11. PinsBalanced'
  BY <1>1 DEF PinsBalanced, TypeOK
<1>12. CopyInv'
  <2>1. \A q \in Proc : pc[q] \in {"write_log", "install"} => q = p
    BY <1>0, PhaseFacts DEF Committer
  <2>2. pc[p] = "write_log" /\ pc' = pc /\ lh' = lh
    OBVIOUS
  <2>3. ASSUME NEW j \in 1..tail'[p]
        PROVE  logArea'[j] = buf'[lh'[j]]
    <3>1. CASE j = i
      BY <1>0, <3>1 DEF TypeOK
    <3>2. CASE j # i
      <4>1. j \in 1..tail[p]
        BY <3>2 DEF TypeOK
      <4> QED
        BY <1>0, <3>2, <4>1 DEF CopyInv, TypeOK
    <3> QED
      BY <3>1, <3>2
  <2>4. \A q \in Proc : pc[q] # "recover"
    BY <1>0, PhaseFacts
  <2> QED
    BY <2>1, <2>2, <2>3, <2>4 DEF CopyInv
<1>13. CacheInv'
  BY <1>0, <1>1 DEF CacheInv, TypeOK, Unlocked
<1> QED
  BY <1>2, <1>3, <1>4, <1>5, <1>6, <1>7, <1>8, <1>9, <1>10, <1>11, <1>12, <1>13

\* Writing the header, the commit point, preserves the invariant.
LEMMA WriteHeadStep ==
    ASSUME IInv, NEW p \in Proc, WriteHead(p)
    PROVE  IInv'
<1> USE DEF IInv, WriteHead, disk, logState, bufState, procState
<1>0. p \in Committer /\ Installing = {} /\ ~Recovering
  BY PhaseFacts DEF Committer, Installing
<1>1. /\ InOp' = InOp /\ Committer' = Committer /\ Installing' = {p}
      /\ Recovering' = Recovering /\ Uninstalled' = Uninstalled /\ Slots' = Slots
  <2>1. InOp' = InOp /\ Committer' = Committer /\ Recovering' = Recovering /\ Installing' = {p}
    BY <1>0 DEF InOp, Committer, Recovering, Installing, TypeOK
  <2>2. \A q \in Proc : pc[q] # "install"
    BY <1>0 DEF Installing
  <2>3. \A q \in Proc : pc'[q] = "install" => tail'[q] = 0
    BY <2>2 DEF TypeOK
  <2>4. Uninstalled' = Uninstalled
    BY <2>1, <2>2, <2>3 DEF Uninstalled
  <2> QED
    BY <2>1, <2>4 DEF Slots
<1>2. TypeOK'
  BY <1>1 DEF TypeOK
<1>3. NoPanic'
  BY <1>1 DEF NoPanic, TypeOK
<1>4. BootInv'
  BY <1>1 DEF BootInv, TypeOK
<1>5. CountInv'
  BY <1>1 DEF CountInv, TypeOK
<1>6. HoldInv'
  BY <1>1 DEF HoldInv, TypeOK
<1>7. HeaderInv'
  BY <1>1 DEF HeaderInv, TypeOK, Logged
<1>8. SpaceInv'
  BY <1>1 DEF SpaceInv, TypeOK
<1>9. SleeperHasWaker'
  BY <1>1 DEF SleeperHasWaker, TypeOK
<1>10. HeadInv'
  <2>1. pc'[InitProc] # "recover" /\ pc'[InitProc] # "read_head"
    BY <1>0, <1>1 DEF Recovering
  <2> QED
    BY <1>0, <1>1, <2>1 DEF HeadInv, HeaderInv, TypeOK
<1>11. PinsBalanced'
  BY <1>1 DEF PinsBalanced, TypeOK
<1>12. CopyInv'
  <2>1. \A q \in Proc : pc[q] \in {"write_log", "install"} => q = p
    BY <1>0, PhaseFacts DEF Committer
  <2>2. \A q \in Proc : pc[q] # "recover"
    BY <1>0, PhaseFacts
  <2> QED
    BY <2>1, <2>2 DEF CopyInv, TypeOK
<1>13. CacheInv'
  BY <1>1 DEF CacheInv, TypeOK, Unlocked
<1> QED
  BY <1>2, <1>3, <1>4, <1>5, <1>6, <1>7, <1>8, <1>9, <1>10, <1>11, <1>12, <1>13

\* Installing one block preserves the invariant.
LEMMA InstallTransStep ==
    ASSUME IInv, NEW p \in Proc, InstallTrans(p)
    PROVE  IInv'
<1> USE DEF IInv, InstallTrans, Bunpin, disk, logState, bufState, procState
<1> DEFINE i == tail[p] + 1
           b == lh[i]
<1>0. /\ i \in 1..Len(lh) /\ i \in 1..LOGBLOCKS /\ b \in Block /\ logArea[i] \in Data
      /\ \A j \in 1..Len(lh) : lh[j] = b => j = i
      /\ \A q \in Proc : pc[q] \in {"install", "recover"} => q = p
      /\ pc[p] = "install" => p \in Installing /\ ~Recovering /\ b \in Uninstalled
      /\ pc[p] = "recover" => p = InitProc /\ Recovering /\ Installing = {}
  <2>1. i \in 1..Len(lh) /\ i \in 1..LOGBLOCKS
    BY DEF TypeOK, HeaderInv
  <2>2. b \in Block /\ logArea[i] \in Data /\ \A j \in 1..Len(lh) : lh[j] = b => j = i
    BY <2>1 DEF TypeOK, HeaderInv, IsInjective
  <2>3. \A q \in Proc : pc[q] \in {"install", "recover"} => q = p
    BY PhaseFacts DEF Committer
  <2>4. pc[p] = "install" => p \in Installing /\ ~Recovering /\ b \in Uninstalled
    BY <2>1, PhaseFacts, UninstalledFacts DEF Installing, TypeOK
  <2>5. pc[p] = "recover" => p = InitProc /\ Recovering /\ Installing = {}
    BY PhaseFacts DEF Installing
  <2> QED
    BY <2>1, <2>2, <2>3, <2>4, <2>5
<1>1. /\ InOp' = InOp /\ Committer' = Committer /\ Installing' = Installing
      /\ Recovering' = Recovering /\ Slots' = Slots /\ Uninstalled' = Uninstalled \ {b}
  <2>1. /\ InOp' = InOp /\ Committer' = Committer /\ Installing' = Installing
        /\ Recovering' = Recovering /\ Slots' = Slots
    BY DEF InOp, Committer, Installing, Recovering, Slots
  <2>2. CASE pc[p] = "install"
    <3>1. \A q \in Proc : pc'[q] = "install" <=> q = p
      BY <1>0, <2>2
    <3>2. tail'[p] = i /\ tail[p] \in Nat
      BY DEF TypeOK
    <3>3. \A j \in 1..Len(lh) : j > i <=> j > tail[p] /\ lh[j] # b
      BY <1>0, <3>2
    <3> QED
      BY <1>0, <2>1, <2>2, <3>1, <3>2, <3>3 DEF Uninstalled
  <2>3. CASE pc[p] = "recover"
    BY <1>0, <2>1, <2>3 DEF Uninstalled
  <2> QED
    BY <2>1, <2>2, <2>3
<1>2. TypeOK'
  <2>1. pin' \in [Block -> Nat]
    BY <1>0 DEF TypeOK, PinsBalanced
  <2> QED
    BY <1>0, <2>1 DEF TypeOK
<1>3. NoPanic'
  BY <1>1 DEF NoPanic, TypeOK
<1>4. BootInv'
  BY <1>0, <1>1 DEF BootInv
<1>5. CountInv'
  BY <1>1 DEF CountInv, TypeOK
<1>6. HoldInv'
  BY <1>1 DEF HoldInv, TypeOK
<1>7. HeaderInv'
  BY <1>0, <1>1 DEF HeaderInv, TypeOK, Logged
<1>8. SpaceInv'
  BY <1>1 DEF SpaceInv, TypeOK
<1>9. SleeperHasWaker'
  BY <1>1 DEF SleeperHasWaker, TypeOK
<1>10. HeadInv'
  BY <1>1 DEF HeadInv, TypeOK
<1>11. PinsBalanced'
  <2>1. CASE pc[p] = "install"
    <3>1. pin' = [pin EXCEPT ![b] = pin[b] - 1] /\ pin[b] = 1
      BY <1>0, <2>1 DEF PinsBalanced
    <3> QED
      BY <1>0, <1>1, <3>1 DEF PinsBalanced
  <2>2. CASE pc[p] = "recover"
    <3>1. Uninstalled = {}
      BY <1>0, <2>2, PhaseFacts
    <3> QED
      BY <1>1, <2>2, <3>1 DEF PinsBalanced, TypeOK
  <2> QED
    BY <2>1, <2>2
<1>12. CopyInv'
  <2>1. /\ pc' = pc /\ lh' = lh /\ logArea' = logArea
        /\ \A q \in Proc : pc[q] # "write_log"
    BY PhaseFacts DEF Committer
  <2>2. /\ tail'[p] = i
        /\ \A j \in 1..Len(lh) : j > i => j > tail[p] /\ buf'[lh[j]] = buf[lh[j]]
    BY <1>0, UninstalledFacts DEF TypeOK
  <2>3. ASSUME NEW j \in 1..tail'[p]
        PROVE  home'[lh[j]] = logArea[j]
    <3>1. CASE j = i
      BY <1>0, <3>1 DEF TypeOK
    <3>2. CASE j # i
      <4>1. j \in 1..tail[p] /\ j \in 1..Len(lh)
        BY <1>0, <2>2, <3>2 DEF TypeOK
      <4> QED
        BY <1>0, <3>2, <4>1, UninstalledFacts DEF CopyInv, TypeOK
    <3> QED
      BY <3>1, <3>2
  <2> QED
    BY <1>0, <2>1, <2>2, <2>3 DEF CopyInv
<1>13. CacheInv'
  BY <1>0, <1>1 DEF CacheInv, TypeOK, Unlocked
<1> QED
  BY <1>2, <1>3, <1>4, <1>5, <1>6, <1>7, <1>8, <1>9, <1>10, <1>11, <1>12, <1>13

\* Erasing the log preserves the invariant.
LEMMA ClearLogStep ==
    ASSUME IInv, NEW p \in Proc, ClearLog(p)
    PROVE  IInv'
<1> USE DEF IInv, ClearLog, disk, logState, bufState, procState
<1>0. /\ InOp = {} /\ Uninstalled = {} /\ \A q \in Proc : hold[q] = NoBlock
      /\ pc[p] = "install" => Committer = {p} /\ ~Recovering
      /\ pc[p] = "recover" => p = InitProc /\ Committer = {} /\ Recovering
  <2>1. /\ InOp = {} /\ \A q \in Proc : hold[q] = NoBlock
        /\ pc[p] = "install" => Committer = {p} /\ ~Recovering
        /\ pc[p] = "recover" => p = InitProc /\ Committer = {} /\ Recovering
    BY PhaseFacts DEF Committer
  <2>2. Uninstalled = {}
    <3>1. CASE pc[p] = "install"
      BY <3>1, UninstalledFacts DEF Installing, Uninstalled, TypeOK
    <3>2. CASE pc[p] = "recover"
      BY <2>1, <3>2 DEF Uninstalled
    <3> QED
      BY <3>1, <3>2
  <2> QED
    BY <2>1, <2>2
<1>1. /\ InOp' = {} /\ Committer' = Committer /\ Installing' = {}
      /\ ~Recovering' /\ Uninstalled' = {} /\ Slots' = {}
  <2>1. CASE pc[p] = "install"
    BY <1>0, <2>1 DEF InOp, Committer, Installing, Recovering, TypeOK, Uninstalled, Slots
  <2>2. CASE pc[p] = "recover"
    BY <1>0, <2>2 DEF InOp, Committer, Installing, Recovering, TypeOK, Uninstalled, Slots
  <2> QED
    BY <2>1, <2>2
<1>a. \A q \in Proc : \/ pc'[q] = pc[q] /\ q # p /\ pc[p] = "install"
                      \/ pc'[q] = "finish" /\ q = p /\ pc[p] = "install"
                      \/ pc'[q] = "idle" /\ pc[p] = "recover"
  BY DEF TypeOK
<1>2. TypeOK'
  BY <1>1 DEF TypeOK
<1>3. NoPanic'
  BY <1>a DEF NoPanic
<1>4. BootInv'
  BY <1>0, <1>1, <1>a DEF BootInv
<1>5. CountInv'
  BY <1>0, <1>1 DEF CountInv, BootInv
<1>6. HoldInv'
  BY <1>0, <1>1 DEF HoldInv, InOp
<1>7. HeaderInv'
  <2>1. IsInjective(lh') /\ Len(lh') = 0
    BY DEF IsInjective
  <2>2. \A q \in Proc : pc'[q] \notin {"dirty", "logged", "write_log", "install", "recover"}
    BY <1>0, <1>1, <1>a, PhaseFacts DEF Committer, InOp
  <2> QED
    BY <1>1, <2>1, <2>2 DEF HeaderInv
<1>8. SpaceInv'
  BY <1>1, FS_EmptySet DEF SpaceInv
<1>9. SleeperHasWaker'
  BY <1>0, <1>1, <1>a DEF SleeperHasWaker, TypeOK
<1>10. HeadInv'
  <2>1. pc'[InitProc] \notin {"recover", "read_head"}
    BY <1>1 DEF Recovering
  <2> QED
    BY <1>1, <2>1 DEF HeadInv, IsInjective
<1>11. PinsBalanced'
  BY <1>0, <1>1 DEF PinsBalanced
<1>12. CopyInv'
  <2>1. \A q \in Proc : pc'[q] \notin {"write_log", "install", "recover"}
    BY <1>0, <1>1, <1>a, PhaseFacts DEF Committer
  <2> QED
    BY <2>1 DEF CopyInv
<1>13. CacheInv'
  BY <1>0, <1>1 DEF CacheInv, Unlocked
<1> QED
  BY <1>2, <1>3, <1>4, <1>5, <1>6, <1>7, <1>8, <1>9, <1>10, <1>11, <1>12, <1>13

\* The end of end_op() after a commit preserves the invariant.
LEMMA FinishCommitStep ==
    ASSUME IInv, NEW p \in Proc, FinishCommit(p)
    PROVE  IInv'
<1> USE DEF IInv, FinishCommit, WakeupLog, disk, logState, bufState, procState
<1>0. /\ Committer = {p} /\ InOp = {} /\ ~Recovering /\ Installing = {} /\ lh = <<>>
      /\ \A q \in Proc : hold[q] = NoBlock
  BY PhaseFacts DEF Committer, Installing, HeaderInv
<1>a. \A q \in Proc : \/ pc'[q] = "idle" /\ q = p
                      \/ pc'[q] = "begin" /\ pc[q] = "asleep" /\ q # p
                      \/ pc'[q] = pc[q] /\ q # p /\ pc[q] # "asleep"
  BY DEF TypeOK
<1>1. /\ InOp' = {} /\ Committer' = {} /\ Installing' = {}
      /\ ~Recovering' /\ Uninstalled' = Uninstalled /\ Slots' = Slots
  <2>1. InOp' = {} /\ Committer' = {} /\ Installing' = {} /\ ~Recovering'
    BY <1>0, <1>a DEF InOp, Committer, Installing, Recovering
  <2>2. Uninstalled' = {} /\ Uninstalled = {}
    BY <1>0 DEF Uninstalled
  <2> QED
    BY <1>0, <2>1, <2>2 DEF Slots
<1>2. TypeOK'
  BY <1>a DEF TypeOK
<1>3. NoPanic'
  BY <1>a DEF NoPanic
<1>4. BootInv'
  BY <1>0, <1>1, <1>a DEF BootInv
<1>5. CountInv'
  BY <1>0, <1>1 DEF CountInv
<1>6. HoldInv'
  BY <1>0, <1>1 DEF HoldInv, InOp
<1>7. HeaderInv'
  <2>1. \A q \in Proc : pc'[q] \notin {"dirty", "logged", "write_log", "install", "recover"}
    BY <1>0, <1>1, <1>a, PhaseFacts DEF Committer, InOp
  <2> QED
    BY <1>0, <1>1, <2>1 DEF HeaderInv
<1>8. SpaceInv'
  BY <1>0, <1>1 DEF SpaceInv
<1>9. SleeperHasWaker'
  BY <1>a DEF SleeperHasWaker
<1>10. HeadInv'
  <2>1. pc'[InitProc] \notin {"recover", "read_head"}
    BY <1>1 DEF Recovering
  <2> QED
    BY <1>0, <1>1, <2>1 DEF HeadInv
<1>11. PinsBalanced'
  BY <1>0, <1>1 DEF PinsBalanced
<1>12. CopyInv'
  <2>1. \A q \in Proc : pc'[q] \notin {"write_log", "install", "recover"}
    BY <1>0, <1>1, <1>a, PhaseFacts DEF Committer
  <2> QED
    BY <2>1 DEF CopyInv
<1>13. CacheInv'
  BY <1>0, <1>1 DEF CacheInv, Unlocked
<1> QED
  BY <1>2, <1>3, <1>4, <1>5, <1>6, <1>7, <1>8, <1>9, <1>10, <1>11, <1>12, <1>13

\* Reading the header at boot preserves the invariant.
LEMMA ReadHeadStep ==
    ASSUME IInv, NEW p \in Proc, ReadHead(p)
    PROVE  IInv'
<1> USE DEF IInv, ReadHead, disk, logState, bufState, procState
<1>0. p = InitProc /\ Recovering /\ InOp = {} /\ Committer = {} /\ Uninstalled = {}
  BY PhaseFacts
<1>1. /\ InOp' = {} /\ Committer' = {} /\ Installing' = {}
      /\ Recovering' /\ Uninstalled' = {} /\ Slots' = {}
  <2>1. InOp' = {} /\ Committer' = {} /\ Installing' = {} /\ Recovering'
    BY <1>0 DEF InOp, Committer, Installing, Recovering, BootInv, TypeOK
  <2> QED
    BY <2>1 DEF Slots, Uninstalled
<1>2. TypeOK'
  BY <1>1 DEF TypeOK
<1>3. NoPanic'
  BY <1>1 DEF NoPanic, TypeOK
<1>4. BootInv'
  BY <1>0, <1>1 DEF BootInv, TypeOK
<1>5. CountInv'
  BY <1>0, <1>1, FS_EmptySet DEF CountInv, BootInv
<1>6. HoldInv'
  BY <1>1 DEF HoldInv, TypeOK
<1>7. HeaderInv'
  <2>1. \A q \in Proc : pc'[q] \in {"down", "recover"} /\ (pc'[q] = "recover" => q = p)
    BY <1>0 DEF BootInv, TypeOK
  <2>2. tail'[p] = 0 /\ Len(lh') \in Nat
    BY DEF TypeOK
  <2>3. IsInjective(lh') /\ Len(lh') <= LOGBLOCKS
    BY DEF HeadInv
  <2> QED
    BY <1>1, <2>1, <2>2, <2>3 DEF HeaderInv
<1>8. SpaceInv'
  BY <1>1, FS_EmptySet DEF SpaceInv, HeadInv
<1>9. SleeperHasWaker'
  BY <1>0, <1>1 DEF SleeperHasWaker, BootInv, TypeOK
<1>10. HeadInv'
  BY <1>0, <1>1 DEF HeadInv, TypeOK
<1>11. PinsBalanced'
  BY <1>0, <1>1 DEF PinsBalanced
<1>12. CopyInv'
  <2>1. \A q \in Proc : pc'[q] \in {"down", "recover"} /\ (pc'[q] = "recover" => q = p)
    BY <1>0 DEF BootInv, TypeOK
  <2> QED
    BY <2>1 DEF CopyInv, TypeOK
<1>13. CacheInv'
  BY <1>0, <1>1 DEF CacheInv, Unlocked
<1> QED
  BY <1>2, <1>3, <1>4, <1>5, <1>6, <1>7, <1>8, <1>9, <1>10, <1>11, <1>12, <1>13
=============================================================================
