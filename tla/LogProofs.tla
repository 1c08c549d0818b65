----------------------------- MODULE LogProofs ------------------------------
(***************************************************************************)
(* Proofs about the write-ahead log, for every number of processes, blocks *)
(* and log slots: the steps of an operation preserve the invariant of      *)
(* LogInv, and what follows from it.                                       *)
(***************************************************************************)
EXTENDS LogCommitProofs

USE ProcAssumption, NoBufAssumption, NoBlockAssumption, SizeAssumption, ZenonT(10), SMTT(30)

\* Multiplication by a natural number is monotonic.
LEMMA MulMono ==
    ASSUME NEW a \in Nat, NEW x \in Nat, NEW y \in Nat, x + 1 <= y
    PROVE  a * x + a <= a * y
<1> DEFINE k == y - x - 1
<1>1. k \in Nat /\ y = x + 1 + k
  OBVIOUS
<1>2. a * k \in Nat
  BY <1>1
<1>3. a * y = a * x + a + a * k
  BY <1>1
<1> QED
  BY <1>2, <1>3

\* The pairs of a member of S and one of the OPBLOCKS blocks of an operation.
LEMMA PairFacts ==
    ASSUME NEW S, IsFiniteSet(S)
    PROVE  /\ IsFiniteSet(S \X (1..OPBLOCKS))
           /\ Cardinality(S \X (1..OPBLOCKS)) = Cardinality(S) * OPBLOCKS
<1>1. 1 \in Int /\ OPBLOCKS \in Int
  OBVIOUS
<1>2. IsFiniteSet(1..OPBLOCKS) /\ Cardinality(1..OPBLOCKS) = OPBLOCKS
  BY <1>1, FS_Interval
<1> QED
  BY <1>2, FS_Product

\* The reservations of the running operations are finitely many.
LEMMA SlotFacts ==
    ASSUME IInv
    PROVE  /\ IsFiniteSet(InOp) /\ Cardinality(InOp) \in Nat
           /\ IsFiniteSet(Slots) /\ Cardinality(Slots) \in Nat
<1>1. IsFiniteSet(InOp)
  BY FS_Subset DEF InOp
<1>2. IsFiniteSet(InOp \X (1..OPBLOCKS))
  BY <1>1, PairFacts
<1>3. Slots \subseteq InOp \X (1..OPBLOCKS)
  BY DEF Slots
<1> QED
  BY <1>1, <1>2, <1>3, FS_Subset, FS_CardinalityType

\* begin_op() preserves the invariant: its reservation still fits.
LEMMA BeginOpStep ==
    ASSUME IInv, Sized, NEW p \in Proc, BeginOp(p)
    PROVE  IInv'
<1> USE DEF IInv, BeginOp, disk, logState, bufState, procState
<1>0. ~Recovering /\ p \notin InOp /\ p \notin Committer /\ hold[p] = NoBlock
  <2>1. ~Recovering /\ p \notin InOp /\ p \notin Committer
    BY DEF InOp, Committer, BootInv, Recovering
  <2> QED
    BY <2>1, PhaseFacts
<1>s. CASE MustWait
  <2>0. pc' = [pc EXCEPT ![p] = "asleep"] /\ outstanding' = outstanding /\ wrote' = wrote
    BY <1>s
  <2>1. /\ InOp' = InOp /\ Committer' = Committer /\ Installing' = Installing
        /\ ~Recovering' /\ Uninstalled' = Uninstalled /\ Slots' = Slots
    BY <1>0, <2>0 DEF InOp, Committer, Installing, Recovering, Uninstalled, Slots, TypeOK
  <2>2. TypeOK' /\ NoPanic'
    BY <2>0 DEF TypeOK, NoPanic
  <2>3. BootInv' /\ CountInv'
    BY <1>0, <2>0, <2>1 DEF BootInv, CountInv, TypeOK
  <2>4. HoldInv' /\ SpaceInv' /\ PinsBalanced'
    BY <2>0, <2>1 DEF HoldInv, SpaceInv, PinsBalanced, TypeOK
  <2>5. HeaderInv'
    BY <1>0, <2>0, <2>1 DEF HeaderInv, TypeOK, Logged
  <2>6. SleeperHasWaker'
    <3>1. CASE committing
      BY <2>1, <3>1 DEF CountInv, SleeperHasWaker
    <3>2. CASE InOp # {}
      BY <2>1, <3>2 DEF SleeperHasWaker
    <3>3. ASSUME ~committing, InOp = {} PROVE FALSE
      <4>1. Len(lh) = 0 /\ outstanding = 0
        BY <1>0, <3>3, FS_EmptySet DEF HeaderInv, CountInv
      <4> QED
        BY <1>s, <3>3, <4>1 DEF MustWait, Sized
    <3> QED
      BY <3>1, <3>2, <3>3
  <2>7. HeadInv'
    BY <1>0, <2>0, <2>1 DEF HeadInv, TypeOK, Recovering
  <2>8. CopyInv'
    BY <2>0 DEF CopyInv, TypeOK
  <2>9. CacheInv'
    BY <2>0, <2>1 DEF CacheInv, TypeOK, Unlocked
  <2> QED
    BY <2>2, <2>3, <2>4, <2>5, <2>6, <2>7, <2>8, <2>9
<1>t. CASE ~MustWait
  <2>0. /\ pc' = [pc EXCEPT ![p] = "op"] /\ outstanding' = outstanding + 1
        /\ wrote' = [wrote EXCEPT ![p] = {}]
    BY <1>t
  <2>1. /\ InOp' = InOp \cup {p} /\ Committer = {} /\ Committer' = {} /\ Installing' = Installing
        /\ ~Recovering' /\ Uninstalled' = Uninstalled
    <3>1. Committer = {}
      BY <1>t DEF MustWait, CountInv
    <3> QED
      BY <1>0, <2>0, <3>1 DEF InOp, Committer, Installing, Recovering, Uninstalled, TypeOK
  <2>2. TypeOK' /\ NoPanic'
    BY <2>0 DEF TypeOK, NoPanic
  <2>3. BootInv'
    BY <1>0, <2>0, <2>1 DEF BootInv, TypeOK
  <2>4. Cardinality(InOp') = Cardinality(InOp) + 1
    BY <1>0, <2>1, SlotFacts, FS_AddElement
  <2>5. CountInv'
    BY <1>t, <2>0, <2>1, <2>4 DEF CountInv, MustWait
  <2>6. HoldInv' /\ PinsBalanced'
    BY <2>0, <2>1 DEF HoldInv, PinsBalanced, TypeOK
  <2>7. HeaderInv'
    <3>1. IsFiniteSet(wrote'[p]) /\ Cardinality(wrote'[p]) = 0 /\ wrote'[p] = {}
      BY <2>0, FS_EmptySet DEF TypeOK
    <3>2. \A q \in Proc : q # p => pc'[q] = pc[q] /\ wrote'[q] = wrote[q]
      BY <2>0 DEF TypeOK
    <3>3. pc'[p] = "op"
      BY <2>0 DEF TypeOK
    <3>4. \A q \in InOp' : /\ wrote'[q] \subseteq Logged'
                           /\ IsFiniteSet(wrote'[q])
                           /\ Cardinality(wrote'[q]) <= OPBLOCKS
      <4>1. InOp \subseteq Proc
        BY DEF InOp
      <4>2. Logged' = Logged /\ Cardinality(wrote'[p]) <= OPBLOCKS
        BY <3>1 DEF Logged
      <4> QED
        BY <1>0, <2>1, <3>1, <3>2, <4>1, <4>2 DEF HeaderInv
    <3> QED
      BY <2>1, <3>2, <3>3, <3>4 DEF HeaderInv
  <2>8. SpaceInv'
    <3>1. IsFiniteSet(InOp')
      BY <2>1, SlotFacts, FS_AddElement
    <3>2. /\ IsFiniteSet(InOp' \X (1..OPBLOCKS))
          /\ Cardinality(InOp' \X (1..OPBLOCKS)) = (outstanding + 1) * OPBLOCKS
      BY <2>4, <3>1, PairFacts DEF CountInv
    <3>3. Slots' \subseteq InOp' \X (1..OPBLOCKS)
      BY DEF Slots
    <3>4. IsFiniteSet(Slots') /\ Cardinality(Slots') <= (outstanding + 1) * OPBLOCKS
          /\ Cardinality(Slots') \in Nat
      BY <3>2, <3>3, FS_Subset, FS_CardinalityType
    <3>5. Len(lh) + (outstanding + 1) * MAXOPBLOCKS <= LOGBLOCKS
      BY <1>t DEF MustWait, TypeOK
    <3>6. (outstanding + 1) * OPBLOCKS + (outstanding + 1) <= (outstanding + 1) * MAXOPBLOCKS
      <4>1. outstanding + 1 \in Nat /\ OPBLOCKS + 1 <= MAXOPBLOCKS
        BY DEF Sized, TypeOK
      <4> QED
        BY <4>1, MulMono
    <3>7. Cardinality(InOp') = outstanding + 1 /\ Len(lh) \in Nat /\ lh' = lh
      BY <2>4 DEF CountInv, TypeOK
    <3> HIDE DEF IInv, BeginOp
    <3>8. (outstanding + 1) * OPBLOCKS \in Int /\ (outstanding + 1) * MAXOPBLOCKS \in Int
          /\ outstanding \in Nat
      BY DEF IInv, TypeOK
    <3> QED
      BY <3>4, <3>5, <3>6, <3>7, <3>8 DEF SpaceInv
  <2>9. SleeperHasWaker'
    BY <2>1 DEF SleeperHasWaker
  <2>10. HeadInv'
    BY <1>0, <2>0, <2>1 DEF HeadInv, TypeOK, Recovering
  <2>11. CopyInv' /\ CacheInv'
    BY <2>0, <2>1 DEF CopyInv, CacheInv, TypeOK, Unlocked
  <2> QED
    BY <2>2, <2>3, <2>5, <2>6, <2>7, <2>8, <2>9, <2>10, <2>11
<1> QED
  BY <1>s, <1>t

\* Appending a new block keeps a header free of duplicates.
LEMMA AppendFacts ==
    ASSUME NEW s \in Seq(Block), IsInjective(s), NEW b \in Block, b \notin Range(s)
    PROVE  IsInjective(Append(s, b)) /\ Range(Append(s, b)) = Range(s) \cup {b}
<1> DEFINE t == Append(s, b)
<1>1. /\ DOMAIN t = 1..(Len(s) + 1) /\ DOMAIN s = 1..Len(s) /\ Len(s) \in Nat
      /\ t[Len(s) + 1] = b
      /\ \A i \in 1..Len(s) : t[i] = s[i]
  OBVIOUS
<1>2. \A i \in 1..Len(s) : s[i] # b
  BY <1>1 DEF Range
<1> HIDE DEF t
<1>3. IsInjective(t)
  BY <1>1, <1>2 DEF IsInjective
<1>4. Range(t) = Range(s) \cup {b}
  BY <1>1 DEF Range
<1> QED
  BY <1>3, <1>4 DEF t

\* log_write() preserves the invariant: it uses up a reserved block or absorbs.
LEMMA LogWriteStep ==
    ASSUME IInv, NEW p \in Proc, LogWrite(p)
    PROVE  IInv'
<1> USE DEF IInv, LogWrite, disk, logState, bufState, procState
<1> DEFINE b == hold[p]
<1>0. /\ p \in InOp /\ Committer = {} /\ Installing = {} /\ ~Recovering
      /\ b \in Block /\ lh \in Seq(Block) /\ pc[p] = "dirty"
  <2>1. p \in InOp /\ b \in Block
    BY DEF InOp, HoldInv, TypeOK
  <2> QED
    BY <2>1, PhaseFacts DEF TypeOK
<1>1. /\ Cardinality(InOp) >= 1 /\ outstanding >= 1 /\ Len(lh) < LOGBLOCKS
  <2>1. Cardinality(InOp) # 0
    BY <1>0, SlotFacts, FS_EmptySet
  <2> QED
    BY <1>0, <2>1, SlotFacts DEF SpaceInv, CountInv
<1>2. /\ pc' = [pc EXCEPT ![p] = "logged"]
      /\ wrote' = [wrote EXCEPT ![p] = @ \cup {b}]
      /\ b \in Logged => lh' = lh /\ pin' = pin
      /\ b \notin Logged => lh' = Append(lh, b) /\ pin' = [pin EXCEPT ![b] = @ + 1]
      /\ UNCHANGED <<home, logArea, head, outstanding, committing, buf, hold, tail>>
  BY <1>0, <1>1 DEF TypeOK
<1> HIDE DEF LogWrite
<1>3. /\ lh' \in Seq(Block) /\ Len(lh') <= LOGBLOCKS
      /\ Len(lh') = IF b \in Logged THEN Len(lh) ELSE Len(lh) + 1
      /\ \A i \in 1..Len(lh) : lh'[i] = lh[i]
      /\ b \notin Logged => lh'[Len(lh) + 1] = b
      /\ Logged' = Logged \cup {b} /\ IsInjective(lh')
  <2>1. CASE b \in Logged
    BY <1>0, <1>1, <1>2, <2>1 DEF HeaderInv, Logged, Range
  <2>2. CASE b \notin Logged
    <3>1. lh' = Append(lh, b)
      BY <1>2, <2>2
    <3>2. /\ lh' \in Seq(Block) /\ Len(lh') = Len(lh) + 1 /\ lh'[Len(lh) + 1] = b
          /\ \A i \in 1..Len(lh) : lh'[i] = lh[i]
      BY <1>0, <3>1
    <3>3. IsInjective(lh') /\ Logged' = Logged \cup {b}
      BY <1>0, <2>2, <3>1, AppendFacts DEF Logged, HeaderInv
    <3> QED
      BY <1>0, <1>1, <2>2, <3>2, <3>3
  <2> QED
    BY <2>1, <2>2
<1>4. /\ InOp' = InOp /\ Committer' = Committer /\ Installing' = {} /\ ~Recovering'
      /\ Uninstalled' = Uninstalled \cup {b}
  <2>1. /\ InOp' = InOp /\ Committer' = Committer /\ Installing' = {} /\ ~Recovering'
    BY <1>0, <1>2 DEF InOp, Committer, Installing, Recovering, TypeOK
  <2>2. Uninstalled = Logged
    BY <1>0 DEF Uninstalled, Installing, Logged, Range
  <2>3. Uninstalled' = Logged'
    BY <1>0, <1>3, <2>1 DEF Uninstalled, Installing, Logged, Range
  <2> QED
    BY <1>3, <2>1, <2>2, <2>3
<1>5. TypeOK'
  <2>1. pin' \in [Block -> Nat]
    <3>1. pin \in [Block -> Nat] /\ pin[b] + 1 \in Nat
      BY <1>0 DEF TypeOK
    <3>2. pin' = pin \/ pin' = [pin EXCEPT ![b] = pin[b] + 1]
      BY <1>2
    <3> QED
      BY <3>1, <3>2
  <2>2. pc' \in [Proc -> {"down", "read_head", "recover", "idle", "asleep", "begin",
                          "op", "dirty", "logged", "commit", "write_log", "install",
                          "finish", "panic"}]
    BY <1>2 DEF TypeOK
  <2>3. wrote' \in [Proc -> SUBSET Block]
    BY <1>0, <1>2 DEF TypeOK
  <2> QED
    BY <1>2, <1>3, <2>1, <2>2, <2>3 DEF TypeOK
<1>6. NoPanic' /\ HoldInv'
  BY <1>0, <1>2 DEF NoPanic, HoldInv, TypeOK
<1>7. BootInv'
  BY <1>0, <1>2, <1>4 DEF BootInv, TypeOK
<1>8. CountInv'
  BY <1>0, <1>2, <1>4 DEF CountInv
<1>w. /\ IsFiniteSet(wrote[p]) /\ IsFiniteSet(wrote'[p])
      /\ wrote'[p] = wrote[p] \cup {b}
      /\ Cardinality(wrote[p]) \in Nat /\ Cardinality(wrote'[p]) \in Nat
      /\ Cardinality(wrote'[p]) <= OPBLOCKS
      /\ Cardinality(wrote[p]) <= Cardinality(wrote'[p])
      /\ b \notin Logged => Cardinality(wrote'[p]) = Cardinality(wrote[p]) + 1
  <2>1. IsFiniteSet(wrote[p]) /\ wrote'[p] = wrote[p] \cup {b} /\ wrote[p] \subseteq Logged
    BY <1>0, <1>2 DEF HeaderInv, TypeOK
  <2>2. IsFiniteSet(wrote'[p]) /\ Cardinality(wrote[p]) \in Nat /\ Cardinality(wrote'[p]) \in Nat
    <3>1. IsFiniteSet(wrote[p] \cup {b})
      BY <2>1, FS_AddElement
    <3> QED
      BY <2>1, <3>1, FS_CardinalityType
  <2>3. Cardinality(wrote[p]) <= Cardinality(wrote'[p])
    BY <2>1, <2>2, FS_Subset
  <2>4. b \notin Logged => Cardinality(wrote'[p]) = Cardinality(wrote[p]) + 1
    BY <2>1, FS_AddElement
  <2> QED
    BY <1>0, <2>1, <2>2, <2>3, <2>4 DEF HeaderInv
<1>9. HeaderInv'
  <2>1. \A q \in Proc : q # p => pc'[q] = pc[q] /\ wrote'[q] = wrote[q]
    BY <1>2 DEF TypeOK
  <2>2. pc'[p] = "logged" /\ InOp \subseteq Proc
    BY <1>2 DEF TypeOK, InOp
  <2>3. \A q \in InOp' : /\ wrote'[q] \subseteq Logged'
                         /\ IsFiniteSet(wrote'[q])
                         /\ Cardinality(wrote'[q]) <= OPBLOCKS
    BY <1>3, <1>4, <1>w, <2>1, <2>2, <1>0 DEF HeaderInv
  <2>4. \A q \in Proc : pc'[q] \notin {"write_log", "install", "recover", "finish"}
    BY <1>0, <2>1, <2>2, PhaseFacts DEF Committer
  <2> QED
    BY <1>0, <1>2, <1>3, <1>4, <1>w, <2>1, <2>2, <2>3, <2>4 DEF HeaderInv
<1>10. SpaceInv'
  <2>1. Slots' \subseteq Slots
    BY <1>2, <1>4, <1>w DEF Slots, TypeOK, InOp
  <2>2. IsFiniteSet(Slots') /\ Cardinality(Slots') \in Nat /\ Cardinality(Slots') <= Cardinality(Slots)
    BY <2>1, SlotFacts, FS_Subset, FS_CardinalityType
  <2>3. CASE b \in Logged
    BY <1>3, <1>4, <2>2, <2>3, SlotFacts DEF SpaceInv
  <2>4. CASE b \notin Logged
    <3> DEFINE s == <<p, Cardinality(wrote[p]) + 1>>
    <3>1. s \in Slots
      BY <1>0, <1>w, <2>4 DEF Slots
    <3>2. s \notin Slots'
      <4>1. s[1] = p /\ s[2] = Cardinality(wrote[p]) + 1
        OBVIOUS
      <4>2. ~(Cardinality(wrote[p]) + 1 > Cardinality(wrote'[p]))
        BY <1>w, <2>4
      <4> HIDE DEF s
      <4>3. ~(s[2] > Cardinality(wrote'[s[1]]))
        BY <4>1, <4>2
      <4> QED
        BY <4>3 DEF Slots
    <3>3. Slots' \subseteq Slots \ {s}
      BY <2>1, <3>2
    <3>4. Cardinality(Slots \ {s}) = Cardinality(Slots) - 1 /\ IsFiniteSet(Slots \ {s})
      BY <3>1, SlotFacts, FS_RemoveElement
    <3>5. Cardinality(Slots') <= Cardinality(Slots) - 1
      BY <3>3, <3>4, FS_Subset
    <3> QED
      BY <1>0, <1>3, <1>4, <2>2, <2>4, <3>5, SlotFacts DEF SpaceInv
  <2> QED
    BY <2>3, <2>4
<1>11. SleeperHasWaker'
  BY <1>0, <1>4 DEF SleeperHasWaker
<1>12. HeadInv'
  BY <1>0, <1>2, <1>4 DEF HeadInv, Recovering
<1>13. PinsBalanced'
  <2>1. b \in Uninstalled <=> b \in Logged
    BY <1>0 DEF Uninstalled, Installing, Logged, Range
  <2> QED
    BY <1>0, <1>2, <1>4, <2>1 DEF PinsBalanced, TypeOK
<1>14. CopyInv'
  <2>1. \A q \in Proc : pc'[q] \notin {"write_log", "install", "recover"}
    BY <1>0, <1>2, PhaseFacts DEF Committer, TypeOK
  <2> QED
    BY <2>1 DEF CopyInv
<1>15. CacheInv'
  BY <1>0, <1>2, <1>4 DEF CacheInv, Unlocked
<1> QED
  BY <1>5, <1>6, <1>7, <1>8, <1>9, <1>10, <1>11, <1>12, <1>13, <1>14, <1>15

\* end_op() up to the decision to commit preserves the invariant.
LEMMA EndOpStep ==
    ASSUME IInv, NEW p \in Proc, EndOp(p)
    PROVE  IInv'
<1> USE DEF IInv, EndOp, WakeupLog, disk, logState, bufState, procState
<1>0. /\ p \in InOp /\ Committer = {} /\ Installing = {} /\ ~Recovering
      /\ ~committing /\ hold[p] = NoBlock
  <2>1. p \in InOp
    BY DEF InOp
  <2> QED
    BY <2>1, PhaseFacts DEF CountInv, HoldInv
<1>1. \A q \in Proc : \/ q = p /\ pc'[q] = "idle" /\ outstanding # 1
                      \/ q = p /\ pc'[q] = "commit" /\ outstanding = 1
                      \/ q # p /\ pc'[q] = pc[q] /\ (outstanding # 1 => pc[q] # "asleep")
                      \/ q # p /\ pc'[q] = "begin" /\ pc[q] = "asleep" /\ outstanding # 1
  BY <1>0 DEF TypeOK
<1>2. /\ InOp' = InOp \ {p} /\ Installing' = {} /\ ~Recovering' /\ Uninstalled' = Uninstalled
      /\ Committer' = IF outstanding = 1 THEN {p} ELSE {}
  <2>1. InOp' = InOp \ {p}
    BY <1>1 DEF InOp
  <2>2. Installing' = {} /\ Committer' = IF outstanding = 1 THEN {p} ELSE {}
    BY <1>0, <1>1 DEF Installing, Committer
  <2>3. ~Recovering'
    BY <1>0, <1>1 DEF Recovering
  <2>4. Uninstalled' = Uninstalled
    BY <1>0, <2>2, <2>3 DEF Uninstalled, Installing
  <2> QED
    BY <2>1, <2>2, <2>3, <2>4
<1>3. /\ Cardinality(InOp') = Cardinality(InOp) - 1 /\ Cardinality(InOp') \in Nat
      /\ IsFiniteSet(InOp')
  <2>1. IsFiniteSet(InOp') /\ Cardinality(InOp') = Cardinality(InOp) - 1
    BY <1>0, <1>2, SlotFacts, FS_RemoveElement
  <2> QED
    BY <2>1, FS_CardinalityType
<1>4. TypeOK'
  <2>1. outstanding' \in Nat
    BY <1>3 DEF CountInv
  <2>2. committing' \in BOOLEAN
    BY <1>0 DEF TypeOK
  <2> QED
    BY <1>0, <2>1, <2>2 DEF TypeOK
<1>5. NoPanic'
  BY <1>1 DEF NoPanic
<1>6. BootInv'
  BY <1>0, <1>1, <1>2 DEF BootInv
<1>7. CountInv'
  <2>1. outstanding = 1 => InOp' = {}
    BY <1>3, FS_EmptySet DEF CountInv
  <2>2. outstanding' = Cardinality(InOp')
    BY <1>3 DEF CountInv
  <2>3. committing' <=> outstanding = 1
    BY <1>0
  <2> QED
    BY <1>2, <2>1, <2>2, <2>3 DEF CountInv
<1>8. HoldInv'
  BY <1>0, <1>1 DEF HoldInv
<1>9. HeaderInv'
  <2>1. /\ IsInjective(lh') /\ Len(lh') <= LOGBLOCKS
        /\ \A q \in InOp' : /\ wrote'[q] \subseteq Logged'
                            /\ IsFiniteSet(wrote'[q])
                            /\ Cardinality(wrote'[q]) <= OPBLOCKS
    BY <1>2 DEF HeaderInv, Logged
  <2>2. InOp' \cup Committer' # {}
    <3>1. CASE outstanding = 1
      BY <1>2, <3>1
    <3>2. CASE outstanding # 1
      <4>1. Cardinality(InOp') # 0
        BY <1>3, <3>2, SlotFacts DEF CountInv
      <4> QED
        BY <1>3, <4>1, FS_EmptySet
    <3> QED
      BY <3>1, <3>2
  <2>3. \A q \in Proc : pc'[q] \notin {"write_log", "install", "recover", "finish"}
    BY <1>0, <1>1, PhaseFacts DEF Committer
  <2>4. \A q \in Proc : pc'[q] \in {"dirty", "logged"} => pc'[q] = pc[q]
    BY <1>1
  <2> QED
    BY <2>1, <2>2, <2>3, <2>4 DEF HeaderInv
<1>10. SpaceInv'
  <2>1. Slots' \subseteq Slots
    BY <1>2 DEF Slots
  <2>2. Cardinality(Slots') <= Cardinality(Slots) /\ Cardinality(Slots') \in Nat
    BY <2>1, SlotFacts, FS_Subset, FS_CardinalityType
  <2>3. Len(lh) \in Nat
    BY DEF TypeOK
  <2> QED
    BY <1>3, <2>2, <2>3, SlotFacts DEF SpaceInv
<1>11. SleeperHasWaker'
  BY <1>1, <1>2 DEF SleeperHasWaker
<1>12. HeadInv'
  <2>1. pc'[InitProc] \notin {"recover", "read_head"}
    BY <1>2 DEF Recovering
  <2> QED
    BY <1>0, <1>2, <2>1 DEF HeadInv
<1>13. PinsBalanced'
  BY <1>2 DEF PinsBalanced
<1>14. CopyInv'
  <2>1. \A q \in Proc : pc'[q] \notin {"write_log", "install", "recover"}
    BY <1>0, <1>1, PhaseFacts DEF Committer
  <2> QED
    BY <2>1 DEF CopyInv
<1>15. CacheInv'
  BY <1>2 DEF CacheInv, Unlocked
<1> QED
  BY <1>4, <1>5, <1>6, <1>7, <1>8, <1>9, <1>10, <1>11, <1>12, <1>13, <1>14, <1>15

\* A step that changes nothing preserves the invariant.
LEMMA StutterStep ==
    ASSUME IInv, UNCHANGED vars
    PROVE  IInv'
<1> USE DEF vars, disk, logState, bufState, procState
<1>1. /\ InOp' = InOp /\ Committer' = Committer /\ Installing' = Installing
      /\ Recovering' = Recovering /\ Uninstalled' = Uninstalled /\ Slots' = Slots
  BY DEF InOp, Committer, Installing, Recovering, Uninstalled, Slots
<1>2. TypeOK' /\ NoPanic' /\ BootInv' /\ CountInv' /\ HoldInv'
  BY <1>1 DEF IInv, TypeOK, NoPanic, BootInv, CountInv, HoldInv
<1>3. HeaderInv' /\ SpaceInv' /\ SleeperHasWaker' /\ HeadInv' /\ PinsBalanced'
  BY <1>1 DEF IInv, HeaderInv, SpaceInv, SleeperHasWaker, HeadInv, PinsBalanced, Logged
<1>4. CopyInv' /\ CacheInv'
  BY <1>1 DEF IInv, CopyInv, CacheInv, Unlocked
<1> QED
  BY <1>2, <1>3, <1>4 DEF IInv

\* The invariant holds on the disk that mkfs leaves.
LEMMA InitInv == Init => IInv
<1> SUFFICES ASSUME Init PROVE IInv
  OBVIOUS
<1> USE DEF Init, BootPc
<1>1. /\ InOp = {} /\ Committer = {} /\ Installing = {}
      /\ Recovering /\ Uninstalled = {} /\ Slots = {}
  BY DEF InOp, Committer, Installing, Recovering, Uninstalled, Slots
<1>2. pc[InitProc] = "read_head" /\ \A q \in Proc : q # InitProc => pc[q] = "down"
  OBVIOUS
<1>3. TypeOK
  <2>1. lh \in Seq(Block) /\ head \in Seq(Block)
    OBVIOUS
  <2> QED
    BY <2>1 DEF TypeOK
<1>4. NoPanic /\ BootInv /\ HoldInv /\ CopyInv /\ SleeperHasWaker
  BY <1>1, <1>2 DEF NoPanic, BootInv, HoldInv, CopyInv, SleeperHasWaker
<1>5. CountInv /\ SpaceInv
  BY <1>1, FS_EmptySet DEF CountInv, SpaceInv
<1>6. HeaderInv /\ HeadInv
  BY <1>1, <1>2 DEF HeaderInv, HeadInv, IsInjective
<1>7. PinsBalanced /\ CacheInv
  BY <1>1 DEF PinsBalanced, CacheInv, Unlocked
<1> QED
  BY <1>3, <1>4, <1>5, <1>6, <1>7 DEF IInv

\* Every step preserves the invariant.
LEMMA NextInv ==
    ASSUME Sized, IInv, [Next]_vars
    PROVE  IInv'
<1>1. ASSUME NEW p \in Proc, Step(p) PROVE IInv'
  BY <1>1, BeginOpStep, KillWakeStep, LogWriteStep, BrelseStep, EndOpStep, CommitStep, WriteLogStep,
     WriteHeadStep, InstallTransStep, ClearLogStep, FinishCommitStep, ReadHeadStep DEF Step
<1>2. ASSUME NEW p \in Proc, NEW b \in Block, NEW d \in Data, ModifyBuf(p, b, d) PROVE IInv'
  BY <1>2, ModifyBufStep
<1>3. ASSUME NEW b \in Block, Bread(b) \/ Evict(b) PROVE IInv'
  BY <1>3, BreadStep, EvictStep
<1> QED
  BY <1>1, <1>2, <1>3, CrashStep, StutterStep DEF Next

\* The inductive invariant holds in every reachable state when the sizes fit.
THEOREM InvariantThm ==
    ASSUME Sized
    PROVE  Spec => []IInv
BY InitInv, NextInv, PTL DEF Spec

\* Every variable of the log has its type.
THEOREM TypeThm ==
    ASSUME Sized
    PROVE  Spec => []TypeOK
<1>1. IInv => TypeOK
  BY DEF IInv
<1> QED
  BY <1>1, InvariantThm, PTL

\* No panic of log.c is reached, by any number of concurrent system calls and
\* whatever crashes, if operations log fewer than MAXOPBLOCKS distinct blocks.
THEOREM NoPanicThm ==
    ASSUME Sized
    PROVE  Spec => []NoPanic
<1>1. IInv => NoPanic
  BY DEF IInv
<1> QED
  BY <1>1, InvariantThm, PTL

\* commit() runs alone: one committer, and no operation beside it.
THEOREM CommitExcludesOpsThm ==
    ASSUME Sized
    PROVE  Spec => []CommitExcludesOps
<1>1. IInv => CommitExcludesOps
  BY DEF IInv, CountInv, CommitExcludesOps
<1> QED
  BY <1>1, InvariantThm, PTL

\* The pins of log_write() and install_trans() balance at every step.
THEOREM PinsBalancedThm ==
    ASSUME Sized
    PROVE  Spec => []PinsBalanced
<1>1. IInv => PinsBalanced
  BY DEF IInv
<1> QED
  BY <1>1, InvariantThm, PTL

\* A sleeper of begin_op() always has somebody who will wake it.
THEOREM SleeperHasWakerThm ==
    ASSUME Sized
    PROVE  Spec => []SleeperHasWaker
<1>1. IInv => SleeperHasWaker
  BY DEF IInv
<1> QED
  BY <1>1, InvariantThm, PTL
=============================================================================
