------------------------- MODULE CacheServiceProofs -------------------------
(***************************************************************************)
(* Nothing that the memory of the device is managed with is lost, shared   *)
(* or left behind, and the controller never runs an URB on the data of     *)
(* another one, for any number of blocks, write contexts, isochronous URBs *)
(* and faults.                                                             *)
(***************************************************************************)
EXTENDS CacheInvariant

USE CacheAssumption

-----------------------------------------------------------------------------
(* The steps.                                                                *)

(* Every block an URB has is used, and goes back to the free list.           *)
LEMMA UrbFreed ==
  ASSUME FreeInv, OwnerInv, NEW u \in Isoc, FreeByUrb(u), UNCHANGED segment
  PROVE  /\ FreeInv' /\ OwnerInv' /\ uBlocks'[u] = <<>>
         /\ \A v \in Isoc : v # u => uBlocks'[v] = uBlocks[v]
<1>1. /\ uBlocks \in [Isoc -> Seq(Blocks)] /\ uBlocks[u] \in Seq(Blocks) /\ NoRepeats(uBlocks[u])
  BY DEF OwnerInv
<1>2. Owned(u) \subseteq Blocks
  BY <1>1, InRange DEF Owned
<1>3. Owned(u) \subseteq usedBlocks
  BY <1>2 DEF OwnerInv
<1>4. FreeInv' /\ usedBlocks' = usedBlocks \ Owned(u)
  BY <1>1, <1>3, GiveBlocks DEF FreeByUrb, Owned
<1>5. /\ uBlocks' \in [Isoc -> Seq(Blocks)] /\ uBlocks'[u] = <<>>
      /\ \A v \in Isoc : v # u => uBlocks'[v] = uBlocks[v]
  BY <1>1 DEF FreeByUrb
<1>6. Owned(u)' = {} /\ \A v \in Isoc : v # u => Owned(v)' = Owned(v)
  <2>1. Range(<<>>) = {}
    BY DEF Range
  <2> QED BY <1>5, <2>1 DEF Owned
<1>7. \A v \in Isoc : NoRepeats(uBlocks'[v])
  <2>1. NoRepeats(<<>>)
    BY DEF NoRepeats
  <2> QED BY <1>5, <2>1, Zenon DEF OwnerInv
<1>8. /\ segment \in [block : 0 .. NumBlocks, asked : Nat]
      /\ \A b \in Blocks : b \in usedBlocks <=>
                             b = segment.block \/ \E v \in Isoc : b \in Owned(v)
      /\ \A v \in Isoc : /\ segment.block \notin Owned(v)
                         /\ \A x \in Isoc \ {v} : Owned(v) \cap Owned(x) = {}
  BY DEF OwnerInv
<1>9. \A b \in Blocks : b \in usedBlocks' <=>
                          b = segment.block \/ \E v \in Isoc : b \in Range(uBlocks'[v])
  BY <1>4, <1>6, <1>8 DEF Owned
<1>10. \A v \in Isoc : /\ segment.block \notin Range(uBlocks'[v])
                       /\ \A x \in Isoc \ {v} : Range(uBlocks'[v]) \cap Range(uBlocks'[x]) = {}
  BY <1>6, <1>8 DEF Owned
<1>11. OwnerInv'
  BY <1>5, <1>7, <1>8, <1>9, <1>10 DEF OwnerInv, Owned
<1> QED BY <1>4, <1>5, <1>11

(* One URB goes to another phase.                                            *)
LEMMA PhaseChanges ==
  ASSUME PhaseInv, NEW u \in Isoc, NEW p \in Phases, uPhase' = [uPhase EXCEPT ![u] = p],
         uNext' \in [Isoc -> Nat], \A v \in Isoc : v # u => uNext'[v] = uNext[v],
         \A v \in Isoc : v # u => uBlocks'[v] = uBlocks[v],
         PhaseFits(p, uBlocks'[u], uNext'[u], Needs[u]), lost' \in Nat
  PROVE  /\ PhaseInv' /\ uPhase'[u] = p /\ \A v \in Isoc : v # u => UrbSame(v)
         /\ p \in {"queued", "returned"} \/ uPhase[u] \notin {"queued", "returned"}
              => Accepted \subseteq Accepted'
<1>1. /\ uPhase \in [Isoc -> Phases] /\ uPhase' \in [Isoc -> Phases] /\ uPhase'[u] = p
      /\ \A v \in Isoc : v # u => uPhase'[v] = uPhase[v]
  BY DEF PhaseInv
<1>2. \A v \in Isoc : v # u => UrbSame(v)
  BY <1>1 DEF UrbSame
<1>3. \A v \in Isoc : PhaseFits(uPhase'[v], uBlocks'[v], uNext'[v], Needs[v])
  BY <1>1, <1>2 DEF PhaseInv, UrbSame
<1>4. PhaseInv'
  BY <1>1, <1>3 DEF PhaseInv
<1> QED BY <1>1, <1>2, <1>4 DEF Accepted

(* What was accepted stays accepted.                                         *)
LEMMA AcceptedKept ==
  ASSUME AcceptedInv, UNCHANGED <<cacheMemory, landed>>, Accepted \subseteq Accepted',
         \/ PipeSame
         \/ \E w : PipeGrows(w) /\ (w.block = 0 => w.content[1] \in Accepted')
  PROVE  AcceptedInv'
<1>1. CASE PipeSame
  BY <1>1 DEF AcceptedInv, PipeSame
<1>2. ASSUME NEW w, PipeGrows(w), w.block = 0 => w.content[1] \in Accepted' PROVE AcceptedInv'
  <2> DEFINE n == Len(cachePipe)
  <2>1. /\ n \in Nat /\ Len(cachePipe') = n + 1 /\ Pending'[n + 1] = w
        /\ \A t \in 1 .. n : Pending'[t] = Pending[t]
    BY <1>2 DEF PipeGrows
  <2>2. \A t \in 1 .. n + 1 : t \in 1 .. n \/ t = n + 1
    BY <2>1
  <2>3. \A t \in 1 .. n : Pending[t].block = 0 => Pending[t].content[1] \in Accepted
    BY DEF AcceptedInv
  <2> HIDE DEF n
  <2>4. \A t \in 1 .. n + 1 : Pending'[t].block = 0 => Pending'[t].content[1] \in Accepted'
    BY <1>2, <2>1, <2>2, <2>3
  <2> QED BY <2>1, <2>4 DEF AcceptedInv
<1> QED BY <1>1, <1>2

(* Nothing was destroyed yet.                                                *)
LEMMA NotFreed == ASSUME ~freed.done, UNCHANGED freed PROVE FreedInv'
  BY DEF FreedInv

MayLeave(u, p) ==
  \/ uPhase[u] = "data" /\ p = "failed"
  \/ uPhase[u] \in {"failed", "queued"} /\ p = "returned"

(* A failed submission, an URB that is given back, and a write that failed:  *)
(* the URB's blocks are freed, and it is not used any more.                  *)
LEMMA UrbLeaves ==
  ASSUME CacheInv, NEW u \in Isoc, NEW p \in {"failed", "returned"},
         MayLeave(u, p), FreeByUrb(u), uPhase' = [uPhase EXCEPT ![u] = p],
         UNCHANGED <<uNext, segment, freed, cacheMemory, landed>>,
         ContextInv', PipeSame, lost' \in Nat, lost' = 0 => lost = 0, dead => dead'
  PROVE  CacheInv'
<1> /\ FreeInv /\ OwnerInv /\ ContextInv /\ PhaseInv /\ AcceptedInv /\ FreedInv
    /\ DataInv /\ RunsItsOwnData
  BY DEF CacheInv
<1> SUFFICES /\ FreeInv' /\ OwnerInv' /\ ContextInv' /\ PhaseInv' /\ AcceptedInv' /\ FreedInv'
             /\ DataInv' /\ RunsItsOwnData'
  BY DEF CacheInv
<1> USE DEF MayLeave
<1>1. /\ FreeInv' /\ OwnerInv' /\ uBlocks'[u] = <<>>
      /\ \A v \in Isoc : v # u => uBlocks'[v] = uBlocks[v]
  BY UrbFreed
<1>2. PhaseFits(p, uBlocks'[u], uNext'[u], Needs[u]) /\ p \in Phases /\ uNext' \in [Isoc -> Nat]
  BY <1>1 DEF PhaseFits, PhaseInv, Phases
<1>3. /\ PhaseInv' /\ uPhase'[u] = p /\ \A v \in Isoc : v # u => UrbSame(v)
      /\ Accepted \subseteq Accepted'
  BY <1>1, <1>2, PhaseChanges, Zenon
<1>4. \A v \in Isoc : UrbSame(v) \/ UrbAccepted(v) \/ UrbOutside(v)
  BY <1>3 DEF UrbOutside
<1>5. DataInv' /\ RunsItsOwnData'
  BY <1>4, DataKept
<1>6. AcceptedInv'
  BY <1>3, AcceptedKept
<1>7. ~freed.done
  BY DEF FreedInv
<1> QED BY <1>1, <1>3, <1>5, <1>6, <1>7, NotFreed

(* A step that neither writes nor changes blocks or URBs.                    *)
LEMMA OthersKept ==
  ASSUME CacheInv, UNCHANGED <<blockVars, uBlocks, uNext, uPhase, segment>>,
         UNCHANGED <<cacheMemory, landed>>, ContextInv', PipeSame, FreedInv',
         lost' \in Nat, lost' = 0 => lost = 0, dead => dead'
  PROVE  CacheInv'
<1> /\ FreeInv /\ OwnerInv /\ ContextInv /\ PhaseInv /\ AcceptedInv /\ FreedInv
    /\ DataInv /\ RunsItsOwnData
  BY DEF CacheInv
<1> SUFFICES /\ FreeInv' /\ OwnerInv' /\ ContextInv' /\ PhaseInv' /\ AcceptedInv' /\ FreedInv'
             /\ DataInv' /\ RunsItsOwnData'
  BY DEF CacheInv
<1>1. FreeInv' /\ OwnerInv' /\ PhaseInv'
  BY DEF FreeInv, OwnerInv, PhaseInv, Owned, blockVars
<1>2. \A v \in Isoc : UrbSame(v)
  BY DEF UrbSame
<1>3. Accepted' = Accepted
  BY DEF Accepted
<1>4. DataInv' /\ RunsItsOwnData'
  BY <1>2, DataKept
<1>5. AcceptedInv'
  BY <1>3, AcceptedKept
<1> QED BY <1>1, <1>4, <1>5

(* The contexts and the pipe are left alone.                                 *)
LEMMA ContextsSame ==
  ASSUME ContextInv, UNCHANGED <<made, freeCtx, usedCtx, returning, write, cachePipe>>
  PROVE  ContextInv' /\ PipeSame
  BY DEF ContextInv, ContextsConserved, PipeSame, Pending

(* ehub_xhci_cache_block_allocate_urb, the first half.                       *)
LEMMA AllocatesUrb ==
  ASSUME CacheInv, NEW u \in Isoc, AllocateUrb(u)
  PROVE  CacheInv'
<1> /\ FreeInv /\ OwnerInv /\ ContextInv /\ PhaseInv /\ AcceptedInv /\ FreedInv
    /\ DataInv /\ RunsItsOwnData
  BY DEF CacheInv
<1> SUFFICES /\ FreeInv' /\ OwnerInv' /\ ContextInv' /\ PhaseInv' /\ AcceptedInv' /\ FreedInv'
             /\ DataInv' /\ RunsItsOwnData'
  BY DEF CacheInv
<1>1. /\ uPhase[u] = "new" /\ ~freed.done
      /\ UNCHANGED <<uNext, segment, ctxVars, deviceVars, dead, lost, freed>>
  BY DEF AllocateUrb
<1>2. FreedInv' /\ ContextInv' /\ PipeSame /\ lost' \in Nat /\ uNext' \in [Isoc -> Nat]
  BY <1>1, NotFreed, ContextsSame DEF ctxVars, PhaseInv
<1>3. /\ uBlocks \in [Isoc -> Seq(Blocks)] /\ uBlocks[u] = <<>> /\ uNext[u] = 1 /\ Needs[u] \in Nat \ {0}
  BY <1>1 DEF OwnerInv, PhaseInv, PhaseFits
<1>4. CASE counts.free < Needs[u]
  <2>1. /\ UNCHANGED <<freeBlocks, usedBlocks, counts, uBlocks>>
        /\ uPhase' = [uPhase EXCEPT ![u] = "failed"]
    BY <1>4 DEF AllocateUrb
  <2>2. FreeInv' /\ OwnerInv'
    BY <1>1, <2>1, Zenon DEF FreeInv, OwnerInv, Owned
  <2>3. PhaseFits("failed", uBlocks'[u], uNext'[u], Needs[u]) /\ "failed" \in Phases
    BY <1>3, <2>1 DEF PhaseFits, Phases
  <2>4. /\ PhaseInv' /\ uPhase'[u] = "failed" /\ \A v \in Isoc : v # u => UrbSame(v)
        /\ Accepted \subseteq Accepted'
    BY <1>1, <1>2, <2>1, <2>3, PhaseChanges, Zenon
  <2>5. \A v \in Isoc : UrbSame(v) \/ UrbAccepted(v) \/ UrbOutside(v)
    BY <2>4, Zenon DEF UrbOutside
  <2>6. DataInv' /\ RunsItsOwnData' /\ AcceptedInv'
    BY <1>1, <1>2, <2>4, <2>5, DataKept, AcceptedKept DEF deviceVars
  <2> QED BY <1>2, <2>2, <2>4, <2>6
<1>5. CASE ~(counts.free < Needs[u])
  <2> DEFINE k == Needs[u]
             f == First(k)
  <2>1. /\ Take(k) /\ uBlocks' = [uBlocks EXCEPT ![u] = f]
        /\ uPhase' = [uPhase EXCEPT ![u] = "data"]
    BY <1>5 DEF AllocateUrb
  <2>2. k \in 0 .. Len(freeBlocks)
    <3>1. counts.free = Len(freeBlocks) /\ Len(freeBlocks) \in Nat
      BY DEF FreeInv
    <3> QED BY <1>3, <1>5, <3>1
  <2>3. /\ FreeInv' /\ usedBlocks' = usedBlocks \cup Range(f)
        /\ f \in Seq(Blocks) /\ Len(f) = k /\ NoRepeats(f)
        /\ Range(f) \subseteq Blocks /\ Range(f) \cap usedBlocks = {}
    BY <2>1, <2>2, TakeBlocks
  <2> HIDE DEF f
  <2>4. /\ uBlocks' \in [Isoc -> Seq(Blocks)] /\ uBlocks'[u] = f
        /\ \A v \in Isoc : v # u => uBlocks'[v] = uBlocks[v]
    BY <1>3, <2>1, <2>3
  <2>5. Owned(u) = {} /\ \A v \in Isoc : v # u => Range(uBlocks'[v]) = Owned(v)
    <3>1. Range(<<>>) = {}
      BY DEF Range
    <3> QED BY <1>3, <2>4, <3>1 DEF Owned
  <2>6. /\ segment \in [block : 0 .. NumBlocks, asked : Nat]
        /\ \A b \in Blocks : b \in usedBlocks <=>
                               b = segment.block \/ \E v \in Isoc : b \in Owned(v)
        /\ \A v \in Isoc : segment.block \notin Owned(v)
        /\ \A v \in Isoc : \A x \in Isoc \ {v} : Owned(v) \cap Owned(x) = {}
    BY DEF OwnerInv
  <2>7. \A v \in Isoc : Owned(v) \subseteq Blocks /\ Owned(v) \subseteq usedBlocks
    <3>1. \A v \in Isoc : Owned(v) \subseteq Blocks
      BY <1>3, InRange DEF Owned
    <3> QED BY <2>6, <3>1
  <2>8. segment.block \in usedBlocks \/ segment.block = 0
    BY <2>6 DEF Blocks
  <2>9. segment.block \notin Range(f)
    BY <2>3, <2>8 DEF Blocks
  <2>10. \A b \in Blocks : b \in usedBlocks' <=>
                           b = segment.block \/ \E v \in Isoc : b \in Range(uBlocks'[v])
    <3> SUFFICES ASSUME NEW b \in Blocks
                 PROVE  b \in usedBlocks' <=>
                          b = segment.block \/ \E v \in Isoc : b \in Range(uBlocks'[v])
      OBVIOUS
    <3>1. (\E v \in Isoc : b \in Range(uBlocks'[v])) <=>
            b \in Range(f) \/ \E v \in Isoc : b \in Owned(v)
      BY <2>4, <2>5, Zenon
    <3> QED BY <2>3, <2>6, <3>1
  <2>11. /\ \A v \in Isoc : segment.block \notin Range(uBlocks'[v])
         /\ \A v \in Isoc : \A x \in Isoc \ {v} : Range(uBlocks'[v]) \cap Range(uBlocks'[x]) = {}
    <3>1. \A v \in Isoc : segment.block \notin Range(uBlocks'[v])
      BY <2>4, <2>5, <2>6, <2>9
    <3>2. ASSUME NEW v \in Isoc, NEW x \in Isoc \ {v}
          PROVE  Range(uBlocks'[v]) \cap Range(uBlocks'[x]) = {}
      <4>1. CASE v = u
        BY <2>3, <2>4, <2>5, <2>7, <4>1, Zenon
      <4>2. CASE x = u
        BY <2>3, <2>4, <2>5, <2>7, <4>2
      <4>3. CASE v # u /\ x # u
        BY <2>5, <2>6, <4>3
      <4> QED BY <4>1, <4>2, <4>3
    <3> QED BY <3>1, <3>2
  <2>12. \A v \in Isoc : NoRepeats(uBlocks'[v])
    BY <2>3, <2>4, Zenon DEF OwnerInv
  <2>13. OwnerInv'
    BY <1>1, <2>4, <2>6, <2>10, <2>11, <2>12 DEF OwnerInv, Owned
  <2>14. PhaseFits("data", uBlocks'[u], uNext'[u], k) /\ "data" \in Phases
    BY <1>1, <1>3, <2>3, <2>4 DEF PhaseFits, Phases
  <2>15. /\ PhaseInv' /\ uPhase'[u] = "data" /\ \A v \in Isoc : v # u => UrbSame(v)
         /\ Accepted \subseteq Accepted'
    BY <1>1, <1>2, <2>1, <2>4, <2>14, PhaseChanges, Zenon
  <2>16. \A v \in Isoc : UrbSame(v) \/ UrbAccepted(v) \/ UrbOutside(v)
    BY <1>1, <1>3, <2>15, Zenon DEF UrbOutside
  <2>17. DataInv' /\ RunsItsOwnData' /\ AcceptedInv'
    BY <1>1, <1>2, <2>15, <2>16, DataKept, AcceptedKept DEF deviceVars
  <2> QED BY <1>2, <2>3, <2>13, <2>15, <2>17
<1> QED BY <1>4, <1>5

(* The second half: a block is written, or all of them are freed.            *)
LEMMA WritesData ==
  ASSUME CacheInv, NEW u \in Isoc, WriteData(u)
  PROVE  CacheInv'
<1> /\ FreeInv /\ OwnerInv /\ ContextInv /\ PhaseInv /\ AcceptedInv /\ FreedInv
    /\ DataInv /\ RunsItsOwnData
  BY DEF CacheInv
<1> SUFFICES /\ FreeInv' /\ OwnerInv' /\ ContextInv' /\ PhaseInv' /\ AcceptedInv' /\ FreedInv'
             /\ DataInv' /\ RunsItsOwnData'
  BY DEF CacheInv
<1> DEFINE n == uNext[u]
           w == DataWrite(u)
<1>1. /\ uPhase[u] = "data" /\ UNCHANGED <<segment, deviceVars, freed>>
  BY DEF WriteData
<1>2. /\ uBlocks[u] \in Seq(Blocks) /\ NoRepeats(uBlocks[u]) /\ uNext \in [Isoc -> Nat]
      /\ Needs[u] \in Nat \ {0} /\ n \in 1 .. Needs[u] /\ Len(uBlocks[u]) = Needs[u]
  BY <1>1 DEF OwnerInv, PhaseInv, PhaseFits
<1>3. /\ uBlocks[u][n] \in Blocks /\ uBlocks[u][n] \in Owned(u)
      /\ \A i \in 1 .. n - 1 : uBlocks[u][n] # uBlocks[u][i]
  <2>1. Owned(u) = Image(uBlocks[u], Len(uBlocks[u])) /\ Owned(u) \subseteq Blocks
    BY <1>2, InRange DEF Owned
  <2>2. uBlocks[u][n] \in Owned(u)
    BY <1>2, <2>1 DEF Image
  <2>3. \A i \in 1 .. n - 1 : i \in 1 .. Needs[u] /\ i # n
    BY <1>2
  <2> QED BY <1>2, <2>1, <2>2, <2>3 DEF NoRepeats
<1>4. w \in Writes /\ w.block = uBlocks[u][n] /\ w.content = <<u, n>>
  <2>1. uBlocks[u][n] \in 0 .. NumBlocks /\ <<u, n>> \in Contents
    BY <1>2, <1>3, SMTT(30) DEF Blocks, Contents
  <2> QED BY <2>1 DEF DataWrite, Writes
<1>5. ~freed.done
  BY <1>1 DEF FreedInv
<1> HIDE DEF w
<1>6. CASE QueueCacheWrite(w, "ok") /\ UNCHANGED <<blockVars, uBlocks>>
           /\ uNext' = [uNext EXCEPT ![u] = @ + 1]
           /\ uPhase' = [uPhase EXCEPT ![u] = IF uNext[u] = Needs[u] THEN "trbs" ELSE "data"]
  <2> DEFINE p == IF uNext[u] = Needs[u] THEN "trbs" ELSE "data"
  <2>1. ContextInv' /\ lost' \in Nat /\ UNCHANGED <<dead, lost>> /\ PipeGrows(w)
    BY <1>4, <1>6, WriteQueued DEF PhaseInv
  <2>2. FreeInv' /\ OwnerInv'
    BY <1>1, <1>6, Zenon DEF FreeInv, OwnerInv, Owned, blockVars
  <2>3. /\ uNext' \in [Isoc -> Nat] /\ uNext'[u] = n + 1
        /\ \A v \in Isoc : v # u => uNext'[v] = uNext[v]
    <3>1. uNext[u] + 1 \in Nat
      BY <1>2
    <3> QED BY <1>2, <1>6, <3>1
  <2>4. p \in {"data", "trbs"} /\ p \in Phases /\ PhaseFits(p, uBlocks'[u], uNext'[u], Needs[u])
    BY <1>2, <1>6, <2>3 DEF Phases, PhaseFits
  <2> HIDE DEF p
  <2>5. uPhase' = [uPhase EXCEPT ![u] = p]
    BY <1>6 DEF p
  <2>6. /\ PhaseInv' /\ uPhase'[u] = p /\ \A v \in Isoc : v # u => UrbSame(v)
        /\ Accepted \subseteq Accepted'
    BY <1>1, <1>6, <2>1, <2>3, <2>4, <2>5, PhaseChanges, Zenon
  <2>7. UrbWrites(u, w)
    <3>1. uNext[u] \in Nat \ {0}
      BY <1>2
    <3> HIDE DEF n
    <3> QED BY <1>1, <1>3, <1>4, <1>6, <2>3, <2>4, <2>6, <3>1 DEF UrbWrites, n
  <2>8. \A v \in Isoc : v # u => w.block \notin Owned(v)
    BY <1>3, <1>4, Zenon DEF OwnerInv
  <2>9. DataInv' /\ RunsItsOwnData'
    BY <1>1, <2>1, <2>6, <2>7, <2>8, DataGrows, Zenon DEF deviceVars
  <2>10. w.block # 0
    <3>1. \A b \in Blocks : b # 0
      BY DEF Blocks
    <3> QED BY <1>3, <1>4, <3>1
  <2>11. AcceptedInv'
    BY <1>1, <2>1, <2>6, <2>10, AcceptedKept DEF deviceVars
  <2> QED BY <1>1, <1>5, <2>1, <2>2, <2>6, <2>9, <2>11, NotFreed
<1>7. CASE QueueCacheWrite(w, "error") /\ FreeByUrb(u) /\ UNCHANGED uNext
           /\ uPhase' = [uPhase EXCEPT ![u] = "failed"]
  <2>1. ContextInv' /\ lost' \in Nat /\ PipeSame /\ (dead => dead') /\ (lost' = 0 => lost = 0)
    BY <1>4, <1>7, WriteQueued DEF PhaseInv
  <2>2. /\ MayLeave(u, "failed") /\ UNCHANGED <<uNext, segment, freed, cacheMemory, landed>>
    BY <1>1, <1>7 DEF deviceVars, MayLeave
  <2>3. CacheInv'
    BY <1>7, <2>1, <2>2, UrbLeaves, Zenon
  <2> QED BY <2>3, Zenon DEF CacheInv
<1> QED BY <1>6, <1>7 DEF WriteData, w

(* ehub_xhci_cache_copy_from_ring for the URB's TRBs.                        *)
LEMMA WritesTrbs ==
  ASSUME CacheInv, NEW u \in Isoc, WriteTrbs(u)
  PROVE  CacheInv'
<1> /\ FreeInv /\ OwnerInv /\ ContextInv /\ PhaseInv /\ AcceptedInv /\ FreedInv
    /\ DataInv /\ RunsItsOwnData
  BY DEF CacheInv
<1> SUFFICES /\ FreeInv' /\ OwnerInv' /\ ContextInv' /\ PhaseInv' /\ AcceptedInv' /\ FreedInv'
             /\ DataInv' /\ RunsItsOwnData'
  BY DEF CacheInv
<1> DEFINE w == TrbWrite(u)
<1>1. /\ uPhase[u] = "trbs" /\ uPhase' = [uPhase EXCEPT ![u] = "queued"]
      /\ UNCHANGED <<blockVars, uBlocks, uNext, segment, deviceVars, freed>>
  BY DEF WriteTrbs
<1>2. PICK status \in {"ok", "error"} : QueueCacheWrite(w, status)
  BY DEF WriteTrbs
<1>3. w \in Writes /\ w.block = 0 /\ w.content[1] = u
  BY DEF TrbWrite, Writes, Contents
<1> HIDE DEF w
<1>4. /\ ContextInv' /\ lost' \in Nat /\ (dead => dead') /\ (lost' = 0 => lost = 0)
      /\ status = "ok" => UNCHANGED <<dead, lost>> /\ PipeGrows(w)
      /\ status = "error" => PipeSame
  BY <1>2, <1>3, WriteQueued DEF PhaseInv
<1>5. FreeInv' /\ OwnerInv' /\ ~freed.done /\ uNext' \in [Isoc -> Nat]
  BY <1>1, Zenon DEF FreeInv, OwnerInv, Owned, blockVars, FreedInv, PhaseInv
<1>6. PhaseFits("queued", uBlocks'[u], uNext'[u], Needs[u]) /\ "queued" \in Phases
  BY <1>1 DEF PhaseFits, Phases, PhaseInv
<1>7. /\ PhaseInv' /\ uPhase'[u] = "queued" /\ \A v \in Isoc : v # u => UrbSame(v)
      /\ Accepted \subseteq Accepted'
  BY <1>1, <1>4, <1>5, <1>6, PhaseChanges, Zenon
<1>8. UrbAccepted(u) /\ u \in Accepted'
  BY <1>1, <1>7, Zenon DEF UrbAccepted, Accepted
<1>9. UNCHANGED <<cacheMemory, landed>> /\ FreedInv'
  BY <1>1, <1>5, NotFreed DEF deviceVars
<1>10. CASE status = "ok"
  <2>1. \A v \in Isoc : 0 \notin Owned(v)
    <3>1. \A v \in Isoc : Owned(v) \subseteq Blocks
      BY InRange, Zenon DEF Owned, OwnerInv
    <3> QED BY <3>1 DEF Blocks
  <2>2. DataInv' /\ RunsItsOwnData'
    BY <1>3, <1>4, <1>7, <1>8, <1>9, <1>10, <2>1, DataGrows, Zenon
  <2>3. AcceptedInv'
    BY <1>3, <1>4, <1>7, <1>8, <1>9, <1>10, AcceptedKept, Zenon
  <2> QED BY <1>4, <1>5, <1>7, <1>9, <2>2, <2>3
<1>11. CASE status = "error"
  <2>1. \A v \in Isoc : UrbSame(v) \/ UrbAccepted(v) \/ UrbOutside(v)
    BY <1>7, <1>8
  <2>2. DataInv' /\ RunsItsOwnData' /\ AcceptedInv'
    BY <1>4, <1>7, <1>9, <1>11, <2>1, DataKept, AcceptedKept
  <2> QED BY <1>4, <1>5, <1>7, <1>9, <2>2
<1> QED BY <1>10, <1>11

(* ehub_xhci_urb_free_priv, and the worker that gives an URB back.           *)
LEMMA UrbReturns ==
  ASSUME CacheInv, NEW u \in Isoc, SubmitFails(u) \/ GiveBack(u)
  PROVE  CacheInv'
<1>1. /\ MayLeave(u, "returned") /\ FreeByUrb(u) /\ uPhase' = [uPhase EXCEPT ![u] = "returned"]
      /\ UNCHANGED <<uNext, segment, ctxVars, deviceVars, dead, lost, freed>>
  BY Zenon DEF SubmitFails, GiveBack, MayLeave
<1>2. ContextInv' /\ PipeSame
  BY <1>1, ContextsSame DEF CacheInv, ctxVars
<1>3. /\ lost' \in Nat /\ (lost' = 0 => lost = 0) /\ (dead => dead')
      /\ UNCHANGED <<uNext, segment, freed, cacheMemory, landed>>
  BY <1>1 DEF deviceVars, CacheInv, PhaseInv
<1> QED BY <1>1, <1>2, <1>3, UrbLeaves, Zenon

(* ehub_xhci_cache_block_allocate_segment.                                   *)
LEMMA AllocatesSegment ==
  ASSUME CacheInv, AllocateSegment
  PROVE  CacheInv'
<1> /\ FreeInv /\ OwnerInv /\ ContextInv /\ PhaseInv /\ AcceptedInv /\ FreedInv
    /\ DataInv /\ RunsItsOwnData
  BY DEF CacheInv
<1> SUFFICES /\ FreeInv' /\ OwnerInv' /\ ContextInv' /\ PhaseInv' /\ AcceptedInv' /\ FreedInv'
             /\ DataInv' /\ RunsItsOwnData'
  BY DEF CacheInv
<1> DEFINE b == Head(freeBlocks)
           w == [block |-> b, content |-> <<"segment", 0>>, bell |-> FALSE]
<1>1. /\ segment.block = 0 /\ freeBlocks # <<>> /\ ~freed.done
      /\ UNCHANGED <<uBlocks, uNext, uPhase, deviceVars, freed>>
  BY DEF AllocateSegment
<1>2. /\ freeBlocks \in Seq(Blocks) /\ Len(freeBlocks) \in Nat \ {0} /\ b = freeBlocks[1]
      /\ b \in Blocks /\ b \in Range(freeBlocks) /\ b \notin usedBlocks
  <2>1. /\ freeBlocks \in Seq(Blocks) /\ usedBlocks = Blocks \ Range(freeBlocks)
    BY DEF FreeInv
  <2>2. Range(freeBlocks) = Image(freeBlocks, Len(freeBlocks)) /\ Range(freeBlocks) \subseteq Blocks
    BY <2>1, InRange
  <2>3. Len(freeBlocks) \in Nat \ {0} /\ b = freeBlocks[1] /\ 1 \in 1 .. Len(freeBlocks)
    BY <1>1, <2>1
  <2> QED BY <2>1, <2>2, <2>3 DEF Image
<1>3. w \in Writes /\ w.block = b /\ b # 0
  BY <1>2 DEF Writes, Contents, Blocks
<1>4. \A v \in Isoc : b \notin Owned(v) /\ UrbSame(v)
  BY <1>1, <1>2 DEF OwnerInv, UrbSame
<1>5. Accepted' = Accepted /\ FreedInv' /\ UNCHANGED <<cacheMemory, landed>>
  BY <1>1, NotFreed DEF Accepted, deviceVars
<1>6. segment \in [block : 0 .. NumBlocks, asked : Nat] /\ segment.asked + 1 \in Nat
  BY DEF OwnerInv
<1>7. CASE /\ QueueCacheWrite(w, "ok") /\ Take(1)
           /\ segment' = [block |-> b, asked |-> segment.asked + 1]
  <2> HIDE DEF w, b
  <2>1. ContextInv' /\ lost' \in Nat /\ UNCHANGED <<dead, lost>> /\ PipeGrows(w)
    BY <1>3, <1>7, WriteQueued DEF PhaseInv
  <2>2. /\ FreeInv' /\ usedBlocks' = usedBlocks \cup Range(First(1))
        /\ First(1) \in Seq(Blocks) /\ Len(First(1)) = 1
    <3>1. 1 \in 0 .. Len(freeBlocks)
      BY <1>2
    <3> QED BY <1>7, <3>1, TakeBlocks, Zenon
  <2>3. Range(First(1)) = {b}
    <3>1. First(1)[1] = b
      <4>1. \A i \in 1 .. 1 : freeBlocks[i] \in Blocks
        BY <1>2
      <4>2. \A i \in 1 .. 1 - 1 + 1 : SubSeq(freeBlocks, 1, 1)[i] = freeBlocks[1 + i - 1]
        BY <4>1
      <4> QED BY <1>2, <4>2 DEF First
    <3>2. Range(First(1)) = Image(First(1), 1)
      BY <2>2, InRange, Zenon
    <3> QED BY <3>1, <3>2 DEF Image
  <2>4. segment' \in [block : 0 .. NumBlocks, asked : Nat] /\ segment'.block = b
    BY <1>2, <1>6, <1>7 DEF Blocks
  <2>5. \A x \in Blocks : x \in usedBlocks <=> \E v \in Isoc : x \in Owned(v)
    BY <1>1 DEF OwnerInv, Blocks
  <2>6. OwnerInv'
    <3>1. \A x \in Blocks : x \in usedBlocks' <=> x = b \/ \E v \in Isoc : x \in Owned(v)
      BY <2>2, <2>3, <2>5
    <3>2. \A v \in Isoc : b \notin Owned(v) /\ \A x \in Isoc \ {v} : Owned(v) \cap Owned(x) = {}
      BY <1>4 DEF OwnerInv
    <3>3. uBlocks \in [Isoc -> Seq(Blocks)] /\ \A v \in Isoc : NoRepeats(uBlocks[v])
      BY DEF OwnerInv
    <3> QED BY <1>1, <2>4, <3>1, <3>2, <3>3, Zenon DEF OwnerInv, Owned
  <2>7. PhaseInv'
    BY <1>1, <2>1 DEF PhaseInv
  <2>8. DataInv' /\ RunsItsOwnData'
    BY <1>3, <1>4, <1>5, <2>1, DataGrows
  <2>9. AcceptedInv'
    BY <1>3, <1>5, <2>1, AcceptedKept
  <2> QED BY <1>5, <2>1, <2>2, <2>6, <2>7, <2>8, <2>9, Zenon
<1>8. CASE /\ QueueCacheWrite(w, "error") /\ segment' = [segment EXCEPT !.asked = @ + 1]
           /\ freeBlocks' = Append(Tail(freeBlocks), b) /\ UNCHANGED <<usedBlocks, counts>>
  <2>1. FreeInv'
    BY <1>1, <1>8, BlockRotates
  <2> HIDE DEF w, b
  <2>2. /\ ContextInv' /\ lost' \in Nat /\ PipeSame /\ (dead => dead') /\ (lost' = 0 => lost = 0)
    BY <1>3, <1>8, WriteQueued DEF PhaseInv
  <2>3. segment' \in [block : 0 .. NumBlocks, asked : Nat] /\ segment'.block = segment.block
    BY <1>6, <1>8
  <2>4. OwnerInv' /\ PhaseInv'
    BY <1>1, <1>8, <2>2, <2>3, Zenon DEF OwnerInv, Owned, PhaseInv
  <2>5. DataInv' /\ RunsItsOwnData' /\ AcceptedInv'
    BY <1>4, <1>5, <2>2, DataKept, AcceptedKept
  <2> QED BY <1>5, <2>1, <2>2, <2>4, <2>5
<1> QED BY <1>7, <1>8, Zenon DEF AllocateSegment

(* ehub_xhci_cache_block_free.                                               *)
LEMMA FreesSegment ==
  ASSUME CacheInv, FreeSegment
  PROVE  CacheInv'
<1> /\ FreeInv /\ OwnerInv /\ ContextInv /\ PhaseInv /\ AcceptedInv /\ FreedInv
    /\ DataInv /\ RunsItsOwnData
  BY DEF CacheInv
<1> SUFFICES /\ FreeInv' /\ OwnerInv' /\ ContextInv' /\ PhaseInv' /\ AcceptedInv' /\ FreedInv'
             /\ DataInv' /\ RunsItsOwnData'
  BY DEF CacheInv
<1> DEFINE b == segment.block
           s == <<b>>
<1>1. /\ b # 0 /\ Give(s) /\ segment' = [segment EXCEPT !.block = 0]
      /\ UNCHANGED <<uBlocks, uNext, uPhase, ctxVars, deviceVars, dead, lost, freed>>
  BY DEF FreeSegment
<1>2. /\ segment \in [block : 0 .. NumBlocks, asked : Nat] /\ b \in Blocks /\ b \in usedBlocks
  BY <1>1 DEF OwnerInv, Blocks
<1>3. s \in Seq(Blocks) /\ Range(s) = {b} /\ NoRepeats(s)
  <2>1. s \in Seq(Blocks) /\ Len(s) = 1 /\ s[1] = b
    BY <1>2
  <2>2. Range(s) = Image(s, 1)
    BY <2>1, InRange, Zenon
  <2> QED BY <2>1, <2>2 DEF Image, NoRepeats
<1> HIDE DEF s
<1>4. FreeInv' /\ usedBlocks' = usedBlocks \ {b}
  BY <1>1, <1>2, <1>3, GiveBlocks
<1>5. segment' \in [block : 0 .. NumBlocks, asked : Nat] /\ segment'.block = 0
  BY <1>1, <1>2
<1>6. \A v \in Isoc : Owned(v) \subseteq Blocks /\ b \notin Owned(v) /\ 0 \notin Owned(v)
  <2>1. \A v \in Isoc : Owned(v) \subseteq Blocks
    BY InRange DEF Owned, OwnerInv
  <2> QED BY <2>1 DEF OwnerInv, Blocks
<1>7. \A x \in Blocks : x \in usedBlocks' <=> x = 0 \/ \E v \in Isoc : x \in Owned(v)
  <2>1. \A x \in Blocks : x # 0 /\ (x \in usedBlocks <=> x = b \/ \E v \in Isoc : x \in Owned(v))
    BY DEF OwnerInv, Blocks
  <2> QED BY <1>4, <1>6, <2>1
<1>8. OwnerInv'
  <2>1. /\ uBlocks \in [Isoc -> Seq(Blocks)] /\ \A v \in Isoc : NoRepeats(uBlocks[v])
        /\ \A v \in Isoc : \A x \in Isoc \ {v} : Owned(v) \cap Owned(x) = {}
    BY DEF OwnerInv
  <2> QED BY <1>1, <1>5, <1>6, <1>7, <2>1 DEF OwnerInv, Owned
<1>9. ContextInv' /\ PipeSame /\ PhaseInv'
  BY <1>1, ContextsSame DEF ctxVars, PhaseInv
<1>10. FreedInv'
  BY <1>1, NotFreed DEF FreedInv
<1>11. DataInv' /\ RunsItsOwnData' /\ AcceptedInv'
  <2>1. (\A v \in Isoc : UrbSame(v)) /\ Accepted' = Accepted /\ UNCHANGED <<cacheMemory, landed>>
    BY <1>1, Zenon DEF UrbSame, Accepted, deviceVars
  <2> QED BY <1>1, <1>9, <2>1, DataKept, AcceptedKept
<1> QED BY <1>4, <1>8, <1>9, <1>10, <1>11

(* URB_CompletionRoutine_Cache up to the doorbell.                           *)
LEMMA WriteCompletes ==
  ASSUME CacheInv, CompleteWrite
  PROVE  CacheInv'
<1> /\ FreeInv /\ OwnerInv /\ ContextInv /\ PhaseInv /\ AcceptedInv /\ FreedInv
    /\ DataInv /\ RunsItsOwnData
  BY DEF CacheInv
<1> SUFFICES /\ FreeInv' /\ OwnerInv' /\ ContextInv' /\ PhaseInv' /\ AcceptedInv' /\ FreedInv'
             /\ DataInv' /\ RunsItsOwnData'
  BY DEF CacheInv
<1> DEFINE c == Head(cachePipe)
           n == Len(cachePipe)
<1>1. /\ cachePipe # <<>> /\ cachePipe' = Tail(cachePipe)
      /\ UNCHANGED <<blockVars, uBlocks, uPhase, uNext, segment, freeCtx, made, write, dead, freed>>
      /\ \/ ~dead /\ Store(write[c]) /\ lost' = lost
         \/ MayFail /\ lost' = lost + 1 /\ UNCHANGED <<cacheMemory, landed>>
         \/ dead /\ UNCHANGED <<cacheMemory, landed, lost>>
      /\ \/ UNCHANGED <<usedCtx, returning>>
         \/ usedCtx' = usedCtx \ {c} /\ returning' = returning \cup {c}
  BY Zenon DEF CompleteWrite
<1>2. /\ cachePipe \in Seq(Contexts) /\ NoRepeats(cachePipe) /\ write \in [Contexts -> Writes]
      /\ n \in Nat \ {0} /\ c = cachePipe[1] /\ c \in Contexts /\ 1 \in 1 .. n
      /\ cachePipe' \in Seq(Contexts) /\ Len(cachePipe') = n - 1
      /\ \A t \in 1 .. n - 1 : cachePipe'[t] = cachePipe[t + 1] /\ t + 1 \in 1 .. n
  <2>1. cachePipe \in Seq(Contexts) /\ NoRepeats(cachePipe) /\ write \in [Contexts -> Writes]
    BY Zenon DEF ContextInv
  <2>2. /\ c \in Contexts /\ Tail(cachePipe) \in Seq(Contexts) /\ Len(Tail(cachePipe)) = n - 1
        /\ \A t \in 1 .. Len(Tail(cachePipe)) : Tail(cachePipe)[t] = cachePipe[t + 1]
    BY <1>1, <2>1, HeadAndTail
  <2>3. n \in Nat \ {0} /\ c = cachePipe[1]
    BY <1>1, <2>1
  <2>4. 1 \in 1 .. n /\ \A t \in 1 .. n - 1 : t + 1 \in 1 .. n
    BY <2>3
  <2> QED BY <1>1, <2>1, <2>2, <2>3, <2>4
<1> HIDE DEF c, n
<1>3. Range(cachePipe) = Image(cachePipe, n) /\ Range(cachePipe') = Image(cachePipe', n - 1)
  BY <1>2, InRange DEF n
<1>4. \A t \in 1 .. n - 1 : cachePipe'[t] \in usedCtx /\ cachePipe'[t] # c
  <2>1. \A t \in 1 .. n : cachePipe[t] \in usedCtx
    BY <1>3 DEF ContextInv, ContextsConserved, Image
  <2>2. \A t \in 1 .. n : cachePipe[t] = c => t = 1
    BY <1>2 DEF NoRepeats, n
  <2>3. \A t \in 1 .. n - 1 : t + 1 # 1
    BY <1>2
  <2> QED BY <1>2, <2>1, <2>2, <2>3, Zenon
<1>5. ContextInv'
  <2>1. NoRepeats(cachePipe')
    <3> SUFFICES ASSUME NEW i \in 1 .. n - 1, NEW j \in 1 .. n - 1, cachePipe'[i] = cachePipe'[j]
                 PROVE  i = j
      BY <1>2 DEF NoRepeats
    <3>1. i + 1 = j + 1
      BY <1>2, SMTT(30) DEF NoRepeats, n
    <3> QED BY <3>1
  <2>2. Range(cachePipe') \subseteq usedCtx \ {c}
    BY <1>3, <1>4 DEF Image
  <2>3. c \in usedCtx
    BY <1>2, <1>3, Zenon DEF ContextInv, ContextsConserved, Image
  <2>4. ContextsConserved'
    BY <1>1, <2>2, <2>3, Zenon DEF ContextInv, ContextsConserved
  <2> QED BY <1>1, <1>2, <2>1, <2>4 DEF ContextInv
<1>6. FreeInv' /\ OwnerInv' /\ FreedInv'
  <2>1. ~freed.done
    BY <1>1, Zenon DEF FreedInv
  <2> QED BY <1>1, <2>1, NotFreed, Zenon DEF FreeInv, OwnerInv, Owned, blockVars
<1>7. lost \in Nat /\ lost' \in Nat /\ PhaseInv'
  <2>1. lost \in Nat
    BY Zenon DEF PhaseInv
  <2>2. lost' \in Nat
    <3>1. lost' = lost \/ lost' = lost + 1
      BY <1>1, Zenon
    <3> QED BY <2>1, <3>1
  <2> QED BY <1>1, <2>1, <2>2 DEF PhaseInv
<1>8. /\ \A t \in 1 .. n - 1 : Pending'[t] = Pending[t + 1]
      /\ Pending[1] = write[c] /\ write[c] \in Writes
  BY <1>1, <1>2, Zenon DEF Pending, n
<1>9. ASSUME UNCHANGED <<cacheMemory, landed>> PROVE AcceptedInv'
  <2>1. Accepted' = Accepted
    BY <1>1, Zenon DEF Accepted
  <2>2. \A t \in 1 .. n : Pending[t].block = 0 => Pending[t].content[1] \in Accepted
    BY DEF AcceptedInv, n
  <2>3. \A t \in 1 .. n - 1 : Pending'[t].block = 0 => Pending'[t].content[1] \in Accepted
    BY <1>2, <1>8, <2>2, Zenon
  <2> QED BY <1>2, <1>9, <2>1, <2>3, Zenon DEF AcceptedInv
<1>10. CASE ~dead /\ Store(write[c]) /\ lost' = lost
  <2>1. AcceptedInv' /\ DataInv' /\ RunsItsOwnData'
    <3>1. UNCHANGED <<uBlocks, uNext, uPhase, dead, lost, segment, usedBlocks>>
      BY <1>1, <1>10, Zenon DEF blockVars
    <3> QED BY <1>2, <1>8, <1>10, <3>1, DataArrives DEF n
  <2> QED BY <1>5, <1>6, <1>7, <2>1, Zenon
<1>11. CASE MayFail /\ lost' = lost + 1 /\ UNCHANGED <<cacheMemory, landed>>
  <2>1. lost' # 0
    BY <1>7, <1>11
  <2>2. DataInv' /\ RunsItsOwnData'
    BY <2>1, Zenon DEF DataInv, RunsItsOwnData
  <2> QED BY <1>5, <1>6, <1>7, <1>9, <1>11, <2>2
<1>12. CASE dead /\ UNCHANGED <<cacheMemory, landed, lost>>
  <2>1. DataInv' /\ RunsItsOwnData'
    BY <1>1, <1>12, Zenon DEF DataInv, RunsItsOwnData
  <2> QED BY <1>5, <1>6, <1>7, <1>9, <1>12, <2>1
<1> QED BY <1>1, <1>10, <1>11, <1>12

(* The end of the routine, ...                                               *)
LEMMA ContextReturns ==
  ASSUME CacheInv, NEW c \in Contexts, ReturnContext(c)
  PROVE  CacheInv'
<1>1. /\ c \in returning /\ returning' = returning \ {c} /\ freeCtx' = freeCtx \cup {c}
      /\ write' = [write EXCEPT ![c] = NoWrite]
      /\ UNCHANGED <<blockVars, uBlocks, uPhase, uNext, segment, usedCtx, made, cachePipe,
                     deviceVars, freed>>
  BY DEF ReturnContext
<1>2. lost \in Nat /\ \/ UNCHANGED <<dead, lost>>
                      \/ dead' = TRUE /\ lost' = lost + 1
  BY DEF ReturnContext, RingDoorbell, CacheInv, PhaseInv
<1>3. lost' \in Nat /\ (lost' = 0 => lost = 0) /\ (dead => dead')
  BY <1>2
<1>4. NoWrite \in Writes
  BY DEF NoWrite, Writes, Contents
<1>5. /\ cachePipe \in Seq(Contexts) /\ write \in [Contexts -> Writes] /\ c \notin Range(cachePipe)
  BY <1>1 DEF CacheInv, ContextInv, ContextsConserved
<1>6. \A t \in 1 .. Len(cachePipe) : cachePipe[t] # c /\ cachePipe[t] \in Contexts
  BY <1>5 DEF Range
<1>7. /\ write' \in [Contexts -> Writes] /\ \A d \in Contexts : d # c => write'[d] = write[d]
  BY <1>1, <1>4, <1>5, Zenon
<1>8. PipeSame
  BY <1>1, <1>6, <1>7, Zenon DEF PipeSame, Pending
<1>9. ContextInv'
  <2>1. ContextsConserved'
    BY <1>1, Zenon DEF CacheInv, ContextInv, ContextsConserved
  <2> QED BY <1>1, <1>7, <2>1, Zenon DEF CacheInv, ContextInv
<1>10. FreedInv'
  BY <1>1, NotFreed, Zenon DEF CacheInv, FreedInv
<1> QED BY <1>1, <1>3, <1>8, <1>9, <1>10, OthersKept, Zenon DEF deviceVars

(* ... and the steps that touch neither blocks nor contexts.                 *)
LEMMA OtherSteps ==
  ASSUME CacheInv,
         \/ CompleteDoorbell \/ Gone \/ Destroy \/ UNCHANGED cacheVars
         \/ \E u \in Isoc : Execute(u)
  PROVE  CacheInv'
<1>1. /\ UNCHANGED <<blockVars, uBlocks, uNext, uPhase, segment>> /\ UNCHANGED <<cacheMemory, landed>>
      /\ UNCHANGED <<made, freeCtx, usedCtx, returning, write, cachePipe>> /\ (dead => dead')
  BY SMTT(30) DEF CompleteDoorbell, Gone, Destroy, Execute, cacheVars, ctxVars, deviceVars
<1>2. ContextInv' /\ PipeSame
  BY <1>1, ContextsSame DEF CacheInv
<1>3. lost \in Nat /\ (lost' = lost \/ lost' = lost + 1)
  BY DEF CompleteDoorbell, Gone, Destroy, Execute, cacheVars, CacheInv, PhaseInv
<1>4. lost' \in Nat /\ (lost' = 0 => lost = 0)
  BY <1>3
<1>5. FreedInv'
  <2>1. CASE UNCHANGED freed
    BY <1>1, <2>1, Zenon DEF CacheInv, FreedInv, NothingLeaks
  <2>2. CASE Destroy
    <3>1. /\ dead' /\ cachePipe' = <<>> /\ returning' = {} /\ segment'.block = 0
          /\ \A u \in Isoc : uPhase'[u] \in {"new", "returned"}
      BY <1>1, <2>2 DEF Destroy
    <3>2. freed' = [done |-> TRUE, blocks |-> Range(freeBlocks) \cup usedBlocks,
                    ctxs |-> freeCtx \cup usedCtx]
      BY <2>2, Zenon DEF Destroy
    <3>3. Range(freeBlocks) \cup usedBlocks = Blocks
      <4>1. freeBlocks \in Seq(Blocks) /\ usedBlocks = Blocks \ Range(freeBlocks)
        BY Zenon DEF CacheInv, FreeInv
      <4>2. Range(freeBlocks) \subseteq Blocks
        BY <4>1, InRange, Zenon
      <4> QED BY <4>1, <4>2, Zenon
    <3>4. freeCtx \cup usedCtx = 1 .. made
      BY <2>2 DEF Destroy, CacheInv, ContextInv, ContextsConserved
    <3> QED BY <1>1, <3>1, <3>2, <3>3, <3>4, Zenon DEF FreedInv, NothingLeaks
  <2> QED BY <2>1, <2>2, Zenon DEF CompleteDoorbell, Gone, Execute, cacheVars
<1> QED BY <1>1, <1>2, <1>4, <1>5, OthersKept

(* ehub_xhci_cache_create.                                                   *)
LEMMA CacheInitially == CacheInit => CacheInv
<1> SUFFICES ASSUME CacheInit PROVE CacheInv
  BY Zenon
<1>1. /\ freeBlocks = [b \in Blocks |-> b] /\ usedBlocks = {}
      /\ counts = [free |-> NumBlocks, used |-> 0]
      /\ segment \in [block : {0}, asked : {0, MaxSegments}]
      /\ uBlocks = [u \in Isoc |-> <<>>] /\ uPhase \in [Isoc -> {"new", "returned"}]
      /\ uNext = [u \in Isoc |-> 1] /\ lost = 0
  BY Zenon DEF CacheInit
<1>2. /\ made = FirstContexts /\ freeCtx = 1 .. FirstContexts /\ usedCtx = {} /\ returning = {}
      /\ cachePipe = <<>>
      /\ write = [c \in Contexts |-> NoWrite]
      /\ cacheMemory = [b \in Blocks |-> <<"none", 0>>] /\ landed = {}
      /\ freed.done = FALSE
  BY DEF CacheInit
<1>3. FreeInv
  <2>1. /\ freeBlocks \in Seq(Blocks) /\ Len(freeBlocks) = NumBlocks
        /\ \A i \in 1 .. NumBlocks : freeBlocks[i] = i
    BY <1>1 DEF Blocks
  <2>2. Range(freeBlocks) = Image(freeBlocks, NumBlocks)
    BY <2>1, InRange
  <2>3. Range(freeBlocks) = Blocks
    BY <2>1, <2>2 DEF Image, Blocks
  <2>4. NoRepeats(freeBlocks)
    BY <2>1 DEF NoRepeats
  <2>5. NumBlocks - Len(freeBlocks) = 0
    BY <2>1
  <2> QED BY <1>1, <2>1, <2>3, <2>4, <2>5, Zenon DEF FreeInv
<1>4. \A u \in Isoc : uBlocks[u] = <<>> /\ Owned(u) = {} /\ NoRepeats(uBlocks[u])
  <2>1. Range(<<>>) = {} /\ NoRepeats(<<>>)
    BY DEF Range, NoRepeats
  <2> QED BY <1>1, <2>1 DEF Owned
<1>5. OwnerInv
  <2>1. segment.block = 0 /\ segment \in [block : 0 .. NumBlocks, asked : Nat]
    BY <1>1
  <2>2. uBlocks \in [Isoc -> Seq(Blocks)]
    BY <1>1
  <2>3. \A b \in Blocks : b # 0
    BY DEF Blocks
  <2> QED BY <1>1, <1>4, <2>1, <2>2, <2>3, Zenon DEF OwnerInv
<1>6. ContextInv
  <2>1. write \in [Contexts -> Writes]
    BY <1>2 DEF NoWrite, Writes, Contents
  <2>2. cachePipe \in Seq(Contexts) /\ NoRepeats(cachePipe) /\ Range(cachePipe) = {}
    BY <1>2 DEF NoRepeats, Range
  <2>3. made \in 0 .. MaxContexts /\ freeCtx = 1 .. made
    BY <1>2
  <2>4. ContextsConserved
    BY <1>2, <2>2, <2>3, Zenon DEF ContextsConserved
  <2> QED BY <2>1, <2>2, <2>3, <2>4, Zenon DEF ContextInv
<1>7. PhaseInv
  BY <1>1, Zenon DEF PhaseInv, PhaseFits, Phases
<1>8. AcceptedInv
  <2>1. cacheMemory \in [Blocks -> Contents]
    BY <1>2 DEF Contents
  <2>2. 1 .. Len(cachePipe) = {}
    BY <1>2
  <2> QED BY <1>2, <2>1, <2>2, Zenon DEF AcceptedInv
<1>9. FreedInv
  BY <1>2 DEF FreedInv
<1>10. RunsItsOwnData
  BY <1>2, Zenon DEF RunsItsOwnData
<1>11. DataInv
  BY <1>1, Zenon DEF DataInv
<1> QED BY <1>3, <1>5, <1>6, <1>7, <1>8, <1>9, <1>10, <1>11 DEF CacheInv

(* The lists, the pipe and the contents of the blocks belong together.       *)
THEOREM CacheInvariance == CacheSpec => []CacheInv
<1>1. CacheInv /\ [CacheNext]_cacheVars => CacheInv'
  <2> SUFFICES ASSUME CacheInv, [CacheNext]_cacheVars PROVE CacheInv'
    BY Zenon
  <2>1. ASSUME NEW u \in Isoc, Submission(u) \/ Execute(u) \/ GiveBack(u) PROVE CacheInv'
    BY <2>1, AllocatesUrb, WritesData, UrbReturns, WritesTrbs, OtherSteps, Zenon DEF Submission
  <2>2. CASE Completions
    BY <2>2, WriteCompletes, ContextReturns, OtherSteps DEF Completions
  <2> QED BY <2>1, <2>2, AllocatesSegment, FreesSegment, OtherSteps, Zenon DEF CacheNext
<1> QED BY <1>1, CacheInitially, PTL DEF CacheSpec

(* The controller finds an URB's own data in the blocks its TRBs point to,   *)
(* whatever was freed, taken again and written in between.                   *)
THEOREM RunsItsOwnDataHolds == CacheSpec => []RunsItsOwnData
<1>1. CacheInv => RunsItsOwnData
  BY Zenon DEF CacheInv
<1> QED BY <1>1, CacheInvariance, PTL

-----------------------------------------------------------------------------
(* How many blocks there are.                                                *)
INSTANCE FiniteSetTheorems

(* A sequence without repetition is as long as the set of its elements.      *)
LEMMA Counted ==
  ASSUME NEW S, NEW s \in Seq(S), NoRepeats(s)
  PROVE  IsFiniteSet(Range(s)) /\ Cardinality(Range(s)) = Len(s)
<1>1. Len(s) \in Nat /\ s \in [1 .. Len(s) -> S]
  OBVIOUS
<1>2. IsFiniteSet(1 .. Len(s)) /\ Cardinality(1 .. Len(s)) = Len(s)
  <2>0. 1 \in Int /\ Len(s) \in Int
    BY <1>1
  <2>1. /\ IsFiniteSet(1 .. Len(s))
        /\ Cardinality(1 .. Len(s)) = IF 1 > Len(s) THEN 0 ELSE Len(s) - 1 + 1
    BY <2>0, FS_Interval, Zenon
  <2> QED BY <1>1, <2>1
<1>3. s \in Bijection(1 .. Len(s), Range(s))
  BY <1>1 DEF Bijection, Injection, Surjection, IsInjective, Range, NoRepeats
<1>4. ExistsBijection(1 .. Len(s), Range(s))
  BY <1>3, Zenon DEF ExistsBijection
<1> QED BY <1>2, <1>4, FS_Bijection, Zenon

(* What FreeInv and OwnerInv say about the lists of blocks.                  *)
LEMMA BlocksAreConserved ==
  ASSUME FreeInv, OwnerInv
  PROVE  BlocksConserved
<1>1. /\ freeBlocks \in Seq(Blocks) /\ NoRepeats(freeBlocks) /\ Len(freeBlocks) \in Nat
      /\ usedBlocks = Blocks \ Range(freeBlocks)
  BY DEF FreeInv
<1>2. Range(freeBlocks) \subseteq Blocks
  BY <1>1, InRange, Zenon
<1>3. IsFiniteSet(Range(freeBlocks)) /\ Cardinality(Range(freeBlocks)) = Len(freeBlocks)
  BY <1>1, Counted
<1>4. IsFiniteSet(Blocks) /\ Cardinality(Blocks) = NumBlocks
  <2>0. 1 \in Int /\ NumBlocks \in Int /\ NumBlocks \in Nat
    OBVIOUS
  <2>1. /\ IsFiniteSet(1 .. NumBlocks)
        /\ Cardinality(1 .. NumBlocks) = IF 1 > NumBlocks THEN 0 ELSE NumBlocks - 1 + 1
    BY <2>0, FS_Interval, Zenon
  <2> QED BY <2>0, <2>1 DEF Blocks
<1>5. Cardinality(usedBlocks) = NumBlocks - Len(freeBlocks)
  <2>1. Blocks \cap Range(freeBlocks) = Range(freeBlocks)
    BY <1>2
  <2>2. Cardinality(usedBlocks) = Cardinality(Blocks) - Cardinality(Blocks \cap Range(freeBlocks))
    BY <1>1, <1>4, FS_Difference, Zenon
  <2> QED BY <1>3, <1>4, <2>1, <2>2, Zenon
<1>6. usedBlocks = (UNION {Owned(u) : u \in Isoc}) \cup ({segment.block} \ {0})
  <2>1. \A u \in Isoc : Owned(u) \subseteq Blocks
    BY InRange, Zenon DEF OwnerInv, Owned
  <2>2. segment.block \in 0 .. NumBlocks /\ 0 \notin Blocks /\ usedBlocks \subseteq Blocks
    BY <1>1 DEF OwnerInv, Blocks
  <2>3. segment.block # 0 => segment.block \in Blocks
    BY DEF OwnerInv, Blocks
  <2>4. \A b \in Blocks : b \in usedBlocks <=>
                            b = segment.block \/ \E u \in Isoc : b \in Owned(u)
    BY DEF OwnerInv
  <2>a. PICK A : A = UNION {Owned(u) : u \in Isoc}
    BY Zenon
  <2>5. \A b : b \in A <=> \E u \in Isoc : b \in Owned(u)
    BY <2>a, Zenon
  <2>6. A \subseteq Blocks
    BY <2>1, <2>5, Zenon
  <2>7. \A b \in Blocks : b \in usedBlocks <=> b \in A \cup ({segment.block} \ {0})
    BY <2>2, <2>4, <2>5, Zenon
  <2>8. A \cup ({segment.block} \ {0}) \subseteq Blocks
    BY <2>3, <2>6, Zenon
  <2>9. usedBlocks = A \cup ({segment.block} \ {0})
    BY <2>2, <2>7, <2>8, Zenon
  <2> QED BY <2>a, <2>9, Zenon
<1>7. counts = [free |-> Len(freeBlocks), used |-> Cardinality(usedBlocks)]
  BY <1>5 DEF FreeInv
<1>8. Range(freeBlocks) = Blocks \ usedBlocks
  BY <1>1, <1>2, Zenon
<1> QED BY <1>6, <1>7, <1>8, Zenon DEF BlocksConserved, OwnerInv

-----------------------------------------------------------------------------
(* Every block and every write context is on one list or with one owner,     *)
(* the counters are right, and ehub_xhci_cache_destroy frees all of them,    *)
(* for every number of blocks, contexts, URBs and faults.                    *)
THEOREM CacheConservedHolds == CacheSpec => []CacheConserved
<1>1. CacheInv => CacheConserved
  <2> SUFFICES ASSUME CacheInv PROVE CacheConserved
    OBVIOUS
  <2>1. BlocksConserved
    BY BlocksAreConserved DEF CacheInv
  <2>2. ContextsConserved
    BY DEF CacheInv, ContextInv
  <2>3. NothingLeaks
    BY DEF CacheInv, FreedInv, NothingLeaks
  <2> QED BY <2>1, <2>2, <2>3 DEF CacheConserved
<1> QED BY <1>1, CacheInvariance, PTL
=============================================================================
