---------------------------- MODULE MCVirtioDisk ----------------------------
(***************************************************************************)
(* A small instance of VirtioDisk.  With UINT16 = NUM the two rings may be *)
(* turned: only the distance of their two indices and the entries seen     *)
(* from the reader's index matter.  UpToRotation is the state up to that.  *)
(***************************************************************************)
EXTENDS VirtioDisk, TLC

ASSUME RingsTurn == UINT16 = NUM

From(ring, i) == [k \in Desc |-> ring[(i + k) % NUM]]
UpToRotation ==
    <<ioVars, bdisk, descVars, infoB, infoStatus, irq, taken, lock, pc, head, panicked,
      From(avail, devIdx), (availIdx - devIdx) % UINT16,
      From(used, seenIdx), (usedIdx - seenIdx) % UINT16>>

\* Buffers, with their callers, and data are interchangeable.
Symmetry == Permutations(Buf) \cup Permutations(Data)
=============================================================================
