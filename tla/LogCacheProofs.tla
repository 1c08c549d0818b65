--------------------------- MODULE LogCacheProofs ---------------------------
(***************************************************************************)
(* The steps of Log that change no more than the cache, wake a process or  *)
(* crash preserve the invariant of LogInv.                                 *)
(***************************************************************************)
EXTENDS LogInv, FiniteSetTheorems, TLAPS

USE ProcAssumption, NoBufAssumption, NoBlockAssumption, SizeAssumption, ZenonT(10), SMTT(30)

\* What the phases exclude: a committer is alone, and no operation runs beside
\* it or during recovery.
LEMMA PhaseFacts ==
    ASSUME IInv
    PROVE  /\ \A p \in Committer : InOp = {} /\ ~Recovering /\ Committer = {p}
           /\ InOp # {} => Committer = {} /\ Installing = {} /\ ~Recovering
           /\ Installing \subseteq Committer
           /\ Recovering => InOp = {} /\ Committer = {} /\ Uninstalled = {}
           /\ \A p \in Proc : pc[p] \in {"read_head", "recover"} => p = InitProc /\ Recovering
           /\ \A p \in Proc : p \notin InOp => hold[p] = NoBlock
<1> USE DEF IInv
<1>1. Installing \subseteq Committer
  BY DEF Installing, Committer
<1>2. \A p \in InOp \cup Committer : ~Recovering
  BY DEF TypeOK, BootInv, InOp, Committer, Recovering
<1>3. \A p \in Committer : InOp = {} /\ Committer = {p}
  BY DEF CountInv
<1>4. \A p \in Proc : pc[p] \in {"read_head", "recover"} => p = InitProc /\ Recovering
  BY DEF BootInv, Recovering
<1>5. \A p \in Proc : p \notin InOp => hold[p] = NoBlock
  BY DEF HoldInv, InOp
<1>6. Uninstalled \subseteq {b \in Block : ~Recovering}
  BY DEF Uninstalled
<1> QED
  BY <1>1, <1>2, <1>3, <1>4, <1>5, <1>6

\* Which blocks of the header still wait for installation.
LEMMA UninstalledFacts ==
    ASSUME IInv
    PROVE  /\ \A i \in 1..Len(lh) : lh[i] \in Block
           /\ Installing = {} /\ ~Recovering => \A i \in 1..Len(lh) : lh[i] \in Uninstalled
           /\ \A p \in Installing : \A i \in 1..Len(lh) :
                  lh[i] \in Uninstalled <=> i > tail[p]
<1>1. \A i \in 1..Len(lh) : lh[i] \in Block
  BY DEF IInv, TypeOK
<1>2. Installing = {} /\ ~Recovering => \A i \in 1..Len(lh) : lh[i] \in Uninstalled
  BY <1>1 DEF Installing, Uninstalled
<1>3. ASSUME NEW p \in Installing, NEW i \in 1..Len(lh)
      PROVE  lh[i] \in Uninstalled <=> i > tail[p]
  <2>1. ~Recovering /\ Installing = {p}
    BY PhaseFacts, <1>3
  <2>2. lh \in Seq(Block) /\ IsInjective(lh)
    BY DEF IInv, TypeOK, HeaderInv
  <2> QED
    BY <1>1, <2>1, <2>2 DEF Uninstalled, Installing, IsInjective
<1> QED
  BY <1>1, <1>2, <1>3

\* Releasing a buffer preserves the invariant.
LEMMA BrelseStep ==
    ASSUME IInv, NEW p \in Proc, Brelse(p)
    PROVE  IInv'
<1> USE DEF IInv, Brelse, disk, logState, bufState, procState
<1>1. /\ InOp' = InOp /\ Committer' = Committer /\ Installing' = Installing
      /\ Recovering' = Recovering /\ Uninstalled' = Uninstalled /\ Slots' = Slots
  BY DEF InOp, Committer, Installing, Recovering, Uninstalled, Slots, TypeOK
<1>2. TypeOK'
  BY <1>1 DEF TypeOK
<1>3. NoPanic'
  BY <1>1 DEF NoPanic, TypeOK
<1>4. BootInv'
  BY <1>1 DEF BootInv, TypeOK
<1>5. CountInv'
  BY <1>1 DEF CountInv, TypeOK
<1>6. HoldInv'
  BY <1>1 DEF HoldInv, TypeOK
<1>7. HeaderInv'
  BY <1>1 DEF HeaderInv, TypeOK, Logged
<1>8. SpaceInv'
  BY <1>1 DEF SpaceInv, TypeOK
<1>9. SleeperHasWaker'
  BY <1>1 DEF SleeperHasWaker, TypeOK
<1>10. HeadInv'
  BY <1>1 DEF HeadInv, TypeOK
<1>11. PinsBalanced'
  BY <1>1 DEF PinsBalanced, TypeOK
<1>12. CopyInv'
  BY <1>1 DEF CopyInv, TypeOK
<1>13. CacheInv'
  <2>1. hold[p] \in Uninstalled
    BY PhaseFacts, UninstalledFacts DEF HeaderInv, Logged, Range, InOp, TypeOK
  <2> QED
    BY <1>1, <2>1 DEF CacheInv, TypeOK, Unlocked
<1> QED
  BY <1>2, <1>3, <1>4, <1>5, <1>6, <1>7, <1>8, <1>9, <1>10, <1>11, <1>12, <1>13

\* Changing a locked buffer preserves the invariant.
LEMMA ModifyBufStep ==
    ASSUME IInv, NEW p \in Proc, NEW b \in Block, NEW d \in Data, ModifyBuf(p, b, d)
    PROVE  IInv'
<1> USE DEF IInv, ModifyBuf, disk, logState, bufState, procState
<1>1. /\ InOp' = InOp /\ Committer' = Committer /\ Installing' = Installing
      /\ Recovering' = Recovering /\ Uninstalled' = Uninstalled /\ Slots' = Slots
  BY DEF InOp, Committer, Installing, Recovering, Uninstalled, Slots, TypeOK
<1>2. TypeOK'
  BY <1>1 DEF TypeOK
<1>3. NoPanic'
  BY <1>1 DEF NoPanic, TypeOK
<1>4. BootInv'
  BY <1>1 DEF BootInv, TypeOK
<1>5. CountInv'
  BY <1>1 DEF CountInv, TypeOK
<1>6. HoldInv'
  BY DEF HoldInv, TypeOK, Unlocked
<1>7. HeaderInv'
  BY <1>1 DEF HeaderInv, TypeOK, Logged
<1>8. SpaceInv'
  BY <1>1 DEF SpaceInv, TypeOK
<1>9. SleeperHasWaker'
  BY <1>1 DEF SleeperHasWaker, TypeOK
<1>10. HeadInv'
  BY <1>1 DEF HeadInv, TypeOK
<1>11. PinsBalanced'
  BY <1>1 DEF PinsBalanced, TypeOK
<1>12. CopyInv'
  BY PhaseFacts DEF CopyInv, TypeOK, InOp, Committer
<1>13. CacheInv'
  BY <1>1 DEF CacheInv, TypeOK, Unlocked, HoldInv
<1> QED
  BY <1>2, <1>3, <1>4, <1>5, <1>6, <1>7, <1>8, <1>9, <1>10, <1>11, <1>12, <1>13

\* Filling a buffer from the disk preserves the invariant.
LEMMA BreadStep ==
    ASSUME IInv, NEW b \in Block, Bread(b)
    PROVE  IInv'
<1> USE DEF IInv, Bread, disk, logState, bufState, procState
<1>1. /\ InOp' = InOp /\ Committer' = Committer /\ Installing' = Installing
      /\ Recovering' = Recovering /\ Uninstalled' = Uninstalled /\ Slots' = Slots
  BY DEF InOp, Committer, Installing, Recovering, Uninstalled, Slots, TypeOK
<1>2. TypeOK'
  BY <1>1 DEF TypeOK
<1>3. NoPanic'
  BY <1>1 DEF NoPanic, TypeOK
<1>4. BootInv'
  BY <1>1 DEF BootInv, TypeOK
<1>5. CountInv'
  BY <1>1 DEF CountInv, TypeOK
<1>6. HoldInv'
  BY <1>1 DEF HoldInv, TypeOK
<1>7. HeaderInv'
  BY <1>1 DEF HeaderInv, TypeOK, Logged
<1>8. SpaceInv'
  BY <1>1 DEF SpaceInv, TypeOK
<1>9. SleeperHasWaker'
  BY <1>1 DEF SleeperHasWaker, TypeOK
<1>10. HeadInv'
  BY <1>1 DEF HeadInv, TypeOK
<1>11. PinsBalanced'
  BY <1>1 DEF PinsBalanced, TypeOK
<1>12. CopyInv'
  <2>1. b \notin Uninstalled
    BY DEF CacheInv
  <2>2. \A q \in Proc : pc[q] = "write_log" => \A i \in 1..Len(lh) : lh[i] # b
    BY <2>1, PhaseFacts, UninstalledFacts DEF Committer, Installing
  <2>3. \A q \in Proc : pc[q] = "install" => \A i \in 1..Len(lh) : i > tail[q] => lh[i] # b
    BY <2>1, UninstalledFacts DEF Installing
  <2> QED
    BY <2>2, <2>3 DEF CopyInv, HeaderInv, TypeOK
<1>13. CacheInv'
  BY <1>1 DEF CacheInv, TypeOK, Unlocked
<1> QED
  BY <1>2, <1>3, <1>4, <1>5, <1>6, <1>7, <1>8, <1>9, <1>10, <1>11, <1>12, <1>13

\* Recycling an unpinned buffer preserves the invariant.
LEMMA EvictStep ==
    ASSUME IInv, NEW b \in Block, Evict(b)
    PROVE  IInv'
<1> USE DEF IInv, Evict, Recyclable, disk, logState, bufState, procState
<1>1. /\ InOp' = InOp /\ Committer' = Committer /\ Installing' = Installing
      /\ Recovering' = Recovering /\ Uninstalled' = Uninstalled /\ Slots' = Slots
  BY DEF InOp, Committer, Installing, Recovering, Uninstalled, Slots, TypeOK
<1>2. TypeOK'
  BY <1>1 DEF TypeOK
<1>3. NoPanic'
  BY <1>1 DEF NoPanic, TypeOK
<1>4. BootInv'
  BY <1>1 DEF BootInv, TypeOK
<1>5. CountInv'
  BY <1>1 DEF CountInv, TypeOK
<1>6. HoldInv'
  BY <1>1 DEF HoldInv, TypeOK
<1>7. HeaderInv'
  BY <1>1 DEF HeaderInv, TypeOK, Logged
<1>8. SpaceInv'
  BY <1>1 DEF SpaceInv, TypeOK
<1>9. SleeperHasWaker'
  BY <1>1 DEF SleeperHasWaker, TypeOK
<1>10. HeadInv'
  BY <1>1 DEF HeadInv, TypeOK
<1>11. PinsBalanced'
  BY <1>1 DEF PinsBalanced, TypeOK
<1>12. CopyInv'
  <2>1. b \notin Uninstalled
    BY DEF PinsBalanced
  <2>2. \A q \in Proc : pc[q] = "write_log" => \A i \in 1..Len(lh) : lh[i] # b
    BY <2>1, PhaseFacts, UninstalledFacts DEF Committer, Installing
  <2>3. \A q \in Proc : pc[q] = "install" => \A i \in 1..Len(lh) : i > tail[q] => lh[i] # b
    BY <2>1, UninstalledFacts DEF Installing
  <2> QED
    BY <2>2, <2>3 DEF CopyInv, HeaderInv, TypeOK
<1>13. CacheInv'
  <2>1. b \notin Uninstalled
    BY DEF PinsBalanced
  <2> QED
    BY <1>1, <2>1 DEF CacheInv, TypeOK, Unlocked
<1> QED
  BY <1>2, <1>3, <1>4, <1>5, <1>6, <1>7, <1>8, <1>9, <1>10, <1>11, <1>12, <1>13

\* Waking a sleeper of begin_op() early preserves the invariant.
LEMMA KillWakeStep ==
    ASSUME IInv, NEW p \in Proc, KillWake(p)
    PROVE  IInv'
<1> USE DEF IInv, KillWake, disk, logState, bufState, procState
<1>0. ~Recovering /\ p \notin InOp /\ p \notin Committer
  BY DEF InOp, Committer, BootInv, Recovering
<1>1. /\ InOp' = InOp /\ Committer' = Committer /\ Installing' = Installing
      /\ ~Recovering' /\ Uninstalled' = Uninstalled /\ Slots' = Slots
  BY <1>0 DEF InOp, Committer, Installing, Recovering, Uninstalled, Slots, TypeOK
<1>2. TypeOK' /\ NoPanic'
  BY DEF TypeOK, NoPanic
<1>3. BootInv' /\ CountInv'
  BY <1>0, <1>1 DEF BootInv, CountInv, TypeOK
<1>4. HoldInv' /\ SpaceInv' /\ PinsBalanced'
  BY <1>1 DEF HoldInv, SpaceInv, PinsBalanced, TypeOK
<1>5. HeaderInv'
  BY <1>0, <1>1 DEF HeaderInv, TypeOK, Logged
<1>6. SleeperHasWaker'
  BY <1>1 DEF SleeperHasWaker, TypeOK
<1>7. HeadInv'
  BY <1>0, <1>1 DEF HeadInv, TypeOK, Recovering
<1>8. CopyInv'
  BY DEF CopyInv, TypeOK
<1>9. CacheInv'
  BY <1>1 DEF CacheInv, TypeOK, Unlocked
<1> QED
  BY <1>2, <1>3, <1>4, <1>5, <1>6, <1>7, <1>8, <1>9

\* A crash preserves the invariant.
LEMMA CrashStep ==
    ASSUME IInv, Crash
    PROVE  IInv'
<1> USE DEF IInv, Crash, BootPc, disk, logState, bufState, procState
<1>1. /\ InOp' = {} /\ Committer' = {} /\ Installing' = {}
      /\ Recovering' /\ Uninstalled' = {} /\ Slots' = {}
  BY DEF InOp, Committer, Installing, Recovering, Uninstalled, Slots
<1>0. pc'[InitProc] = "read_head" /\ \A q \in Proc : q # InitProc => pc'[q] = "down"
  OBVIOUS
<1>2. TypeOK'
  <2>1. lh' \in Seq(Block)
    OBVIOUS
  <2> QED
    BY <2>1 DEF TypeOK
<1>3. NoPanic'
  BY <1>0 DEF NoPanic
<1>4. BootInv'
  BY <1>0, <1>1 DEF BootInv
<1>5. CountInv'
  BY <1>1, FS_EmptySet DEF CountInv
<1>6. HoldInv'
  BY <1>0 DEF HoldInv
<1>7. HeaderInv'
  BY <1>0, <1>1 DEF HeaderInv, IsInjective
<1>8. SpaceInv'
  BY <1>1, FS_EmptySet DEF SpaceInv
<1>9. SleeperHasWaker'
  BY <1>0 DEF SleeperHasWaker
<1>10. HeadInv'
  BY <1>0, <1>1 DEF HeadInv
<1>11. PinsBalanced'
  BY <1>1 DEF PinsBalanced, TypeOK
<1>12. CopyInv'
  BY <1>0 DEF CopyInv
<1>13. CacheInv'
  BY <1>1 DEF CacheInv, TypeOK, Unlocked
<1> QED
  BY <1>2, <1>3, <1>4, <1>5, <1>6, <1>7, <1>8, <1>9, <1>10, <1>11, <1>12, <1>13
=============================================================================
