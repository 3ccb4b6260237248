---------------------------- MODULE EndpointProofs --------------------------
(***************************************************************************)
(* Proofs about the rings of an endpoint.                                  *)
(*                                                                         *)
(* The bookkeeping of one ring is right for segments and rings of every    *)
(* size.  RingInv is inductive when every URB fits a new ring and inc_deq  *)
(* does not overlap with the queueing of an URB.  Without the first        *)
(* assumption ExpandRing may put segments in front of the dequeue pointer  *)
(* of an empty ring; without the second IncDeqStore may undo a decrement.  *)
(*                                                                         *)
(* The driver, the device and the USB core agree on which endpoints have a *)
(* ring, for any set of endpoints, any sequence of configuration changes   *)
(* and any of the faults.                                                  *)
(***************************************************************************)
EXTENDS RingAccounting, EndpointConfig, TLAPS

USE RingAssumption

(* A new ring has at least one TRB in each of two segments.                  *)
LEMMA RingSize == InitSegs * PerSeg \in Nat /\ InitSegs * PerSeg >= 2 * PerSeg
<1>1. PICK k \in Nat : InitSegs = 2 + k
  <2>1. InitSegs - 2 \in Nat /\ InitSegs = 2 + (InitSegs - 2)
    OBVIOUS
  <2> QED BY <2>1
<1>2. InitSegs * PerSeg = 2 * PerSeg + k * PerSeg
  BY <1>1
<1>3. k * PerSeg \in Nat
  BY <1>1
<1> QED BY <1>2, <1>3

(* ehub_xhci_ring_expansion adds at least what num_trbs_needed asks for: the *)
(* division of the TRBs by the size of a segment rounds up.                  *)
LEMMA Enough ==
  ASSUME NEW n \in Nat, total \in Nat
  PROVE  NewTrbs(n) \in Nat /\ NewTrbs(n) >= n
<1> DEFINE a == n + PerSeg - 1
           q == a \div PerSeg
           r == a % PerSeg
<1>1. a \in Nat
  OBVIOUS
<1>2. q \in Nat /\ r \in 0..(PerSeg - 1)
  BY <1>1
<1>3. a = PerSeg * q + r
  BY <1>1
<1>4. q * PerSeg \in Nat /\ q * PerSeg = PerSeg * q
  BY <1>2
<1>5. q * PerSeg >= n
  <2> HIDE DEF q, r
  <2>1. a = n + PerSeg - 1
    OBVIOUS
  <2> HIDE DEF a
  <2> DEFINE w == q * PerSeg
  <2>2. w \in Nat /\ w = PerSeg * q
    BY <1>4
  <2>3. a = w + r
    BY <1>3, <2>2
  <2> HIDE DEF w
  <2>4. w >= n
    BY <1>2, <2>1, <2>2, <2>3
  <2> QED BY <2>4 DEF w
<1>6. NewTrbs(n) = IF total > q * PerSeg THEN total ELSE q * PerSeg
  BY DEF NewTrbs
<1> QED
  <2> DEFINE w == q * PerSeg
  <2>1. w \in Nat /\ w >= n /\ NewTrbs(n) = IF total > w THEN total ELSE w
    BY <1>4, <1>5, <1>6
  <2> HIDE DEF w
  <2> QED BY <2>1

(* What num_trbs_needed computes.                                            *)
LEMMA Needed ==
  ASSUME NEW n \in Nat, free \in Nat, deq \in Nat
  PROVE  /\ TrbsNeeded(n) \in Nat
         /\ TrbsNeeded(n) = 0 <=> free >= n + deq
BY DEF TrbsNeeded

-----------------------------------------------------------------------------
(* A new ring satisfies the invariant.                                       *)
LEMMA InitRing == Init => RingInv
<1> SUFFICES ASSUME Init PROVE RingInv
  OBVIOUS
<1> DEFINE size == InitSegs * PerSeg
<1>1. size \in Nat /\ size >= 2
  BY RingSize
<1>2. total = size /\ free = size - 1
  BY DEF Init
<1>3. enq = 0 /\ enqOff = 0 /\ deq = 0 /\ ask = 0 /\ todo = 0 /\ loaded = -1
  BY DEF Init
<1>4. total >= InitSegs * PerSeg
  BY <1>1, <1>2
<1> HIDE DEF size
<1>5. RingTypeOK
  BY <1>1, <1>2, <1>3 DEF RingTypeOK
<1>6. FreeCount /\ free >= deq + todo
  BY <1>1, <1>2, <1>3 DEF FreeCount
<1> QED BY <1>3, <1>4, <1>5, <1>6 DEF RingInv

(* An expansion, where an URB that fits a new ring never meets an empty one. *)
LEMMA ExpandInv ==
  ASSUME RingInv, ExpandRing, UrbsFitNewRing, loaded = -1
  PROVE  RingInv'
<1> DEFINE n == TrbsNeeded(ask)
           new == NewTrbs(n)
           size == InitSegs * PerSeg
<1>0. RingTypeOK
  BY DEF RingInv
<1>1. /\ total \in Nat /\ enq \in Nat /\ deq \in Nat /\ free \in Nat
      /\ ask \in Nat /\ ask <= MaxUrb /\ deq < PerSeg
  BY <1>0 DEF RingTypeOK
<1>2. n \in Nat /\ (n = 0 <=> free >= ask + deq)
  BY <1>1, Needed
<1>3. new \in Nat
  BY <1>1, <1>2, Enough
<1>4. /\ total' = total + new /\ free' = free + new
      /\ enq' = IF enqOff = PerSeg /\ enq = 0 THEN total ELSE enq
      /\ enqOff' = enqOff /\ deq' = deq /\ ask' = ask /\ todo' = todo
      /\ loaded' = loaded /\ n > 0 /\ ask > 0
  BY DEF ExpandRing
<1>5. /\ enq >= deq /\ total >= size /\ free + (enq - deq) + 1 = total
      /\ free >= deq + todo /\ todo = 0
  BY <1>4 DEF RingInv, FreeCount
<1>6. size \in Nat /\ MaxUrb < size
  BY RingSize DEF UrbsFitNewRing
<1> HIDE DEF n, new
<1>7. enq # 0
  <2> HIDE DEF size
  <2> QED BY <1>1, <1>2, <1>4, <1>5, <1>6
<1>8. enq' = enq
  BY <1>4, <1>7
<1> QED
  <2>1. RingTypeOK'
    BY <1>0, <1>1, <1>3, <1>4, <1>8 DEF RingTypeOK
  <2>2. FreeCount' /\ (enq >= deq)' /\ (free >= deq + todo)'
    BY <1>1, <1>3, <1>4, <1>5, <1>8 DEF FreeCount
  <2>3. (total >= InitSegs * PerSeg)'
    <3>1. total' >= size
      <4> HIDE DEF size
      <4> QED BY <1>1, <1>3, <1>4, <1>5, <1>6
    <3> QED BY <3>1
  <2>4. (loaded # -1 => loaded = free /\ enq > deq)'
    BY <1>4
  <2>5. (ask > 0 => todo = 0)'
    BY <1>4, <1>5
  <2> QED BY <2>1, <2>2, <2>3, <2>4, <2>5 DEF RingInv

(* The other steps of the thread that queues an URB.                         *)
LEMMA QueueInv ==
  ASSUME RingInv, loaded = -1,
         \/ \E n \in 1..MaxUrb : PrepareRing(n)
         \/ ExpandFails \/ RoomFound \/ NextTd
         \/ \E last \in BOOLEAN : QueueTrb(last)
  PROVE  RingInv'
<1>0. RingTypeOK
  BY DEF RingInv
<1>1. /\ total \in Nat /\ enq \in Nat /\ deq \in Nat /\ free \in Nat
      /\ ask \in 0..MaxUrb /\ todo \in 0..MaxUrb /\ enqOff \in 0..PerSeg
  BY <1>0 DEF RingTypeOK
<1>2. /\ enq >= deq /\ free + (enq - deq) + 1 = total
      /\ free >= deq + todo /\ (ask > 0 => todo = 0)
  BY DEF RingInv, FreeCount
<1>3. total' = total /\ deq' = deq /\ loaded' = -1
  BY DEF PrepareRing, ExpandFails, RoomFound, NextTd, QueueTrb
<1>4. (total >= InitSegs * PerSeg)'
  BY <1>3 DEF RingInv
<1>5. /\ RingTypeOK'
      /\ enq' >= deq /\ free' + (enq' - deq) + 1 = total
      /\ free' >= deq + todo' /\ (ask' > 0 => todo' = 0)
  <2>1. CASE \E n \in 1..MaxUrb : PrepareRing(n)
    BY <1>0, <1>1, <1>2, <2>1 DEF PrepareRing, RingTypeOK
  <2>2. CASE ExpandFails
    BY <1>0, <1>1, <1>2, <2>2 DEF ExpandFails, RingTypeOK
  <2>3. CASE RoomFound
    <3>1. free >= ask + deq
      BY <1>1, <2>3, Needed DEF RoomFound
    <3>2. /\ ask' = 0 /\ todo' = ask /\ enq' = enq /\ free' = free
          /\ enqOff' \in 0..PerSeg
      BY <1>1, <2>3 DEF RoomFound
    <3>3. RingTypeOK'
      BY <1>0, <1>1, <1>3, <3>2 DEF RingTypeOK
    <3> QED BY <1>1, <1>2, <3>1, <3>2, <3>3
  <2>4. CASE NextTd
    BY <1>0, <1>1, <1>2, <2>4 DEF NextTd, RingTypeOK
  <2>5. CASE \E last \in BOOLEAN : QueueTrb(last)
    <3>1. /\ todo > 0 /\ todo' = todo - 1 /\ enq' = enq + 1
          /\ free' = free - 1 /\ ask' = ask /\ enqOff' \in 0..PerSeg
      BY <1>1, <2>5 DEF QueueTrb
    <3>2. RingTypeOK'
      BY <1>0, <1>1, <1>2, <1>3, <3>1 DEF RingTypeOK
    <3> QED BY <1>1, <1>2, <3>1, <3>2
  <2> QED BY <2>1, <2>2, <2>3, <2>4, <2>5
<1>6. FreeCount' /\ (enq >= deq)' /\ (free >= deq + todo)'
  BY <1>3, <1>5 DEF FreeCount
<1> QED BY <1>3, <1>4, <1>5, <1>6 DEF RingInv

(* inc_deq gives back one TRB, and the segment it may leave behind is then   *)
(* free as a whole.                                                          *)
LEMMA DequeueInv ==
  ASSUME RingInv, IncDeqLoad \/ IncDeqStore
  PROVE  RingInv'
<1>0. RingTypeOK
  BY DEF RingInv
<1>1. /\ total \in Nat /\ enq \in Nat /\ deq \in 0..(PerSeg - 1)
      /\ free \in Nat /\ todo \in Nat /\ loaded \in Nat \cup {-1}
  BY <1>0 DEF RingTypeOK
<1>2. /\ enq >= deq /\ free + (enq - deq) + 1 = total
      /\ free >= deq + todo
  BY DEF RingInv, FreeCount
<1>3. total' = total /\ enqOff' = enqOff /\ ask' = ask /\ todo' = todo
  BY DEF IncDeqLoad, IncDeqStore
<1>4. (total >= InitSegs * PerSeg)' /\ (ask > 0 => todo = 0)'
  BY <1>3 DEF RingInv
<1>5. CASE IncDeqLoad
  <2>1. enq' = enq /\ deq' = deq /\ free' = free /\ loaded' = free /\ enq > deq
    BY <1>5 DEF IncDeqLoad
  <2>2. RingTypeOK' /\ FreeCount'
    BY <1>0, <1>1, <1>2, <1>3, <2>1 DEF RingTypeOK, FreeCount
  <2> QED BY <1>2, <1>3, <1>4, <2>1, <2>2 DEF RingInv
<1>6. CASE IncDeqStore
  <2>1. loaded = free /\ enq > deq
    BY <1>6 DEF RingInv, IncDeqStore
  <2>2. free' = free + 1 /\ loaded' = -1
    BY <1>6, <2>1 DEF IncDeqStore
  <2>3. \/ deq + 1 = PerSeg /\ deq' = 0 /\ enq' = enq - PerSeg
        \/ deq + 1 < PerSeg /\ deq' = deq + 1 /\ enq' = enq
    <3>1. deq' = (deq + 1) % PerSeg
      BY <1>6 DEF IncDeqStore
    <3>2. enq' = IF deq + 1 = PerSeg THEN enq - PerSeg ELSE enq
      BY <1>6 DEF IncDeqStore
    <3>3. CASE deq + 1 = PerSeg
      BY <3>1, <3>2, <3>3
    <3>4. CASE deq + 1 < PerSeg
      BY <1>1, <3>1, <3>2, <3>4
    <3> QED BY <1>1, <3>3, <3>4
  <2>4. RingTypeOK'
    BY <1>0, <1>1, <1>2, <1>3, <2>1, <2>2, <2>3 DEF RingTypeOK
  <2>5. FreeCount' /\ (enq >= deq)' /\ (free >= deq + todo)'
    BY <1>1, <1>2, <1>3, <2>1, <2>2, <2>3 DEF FreeCount
  <2> QED BY <1>4, <2>2, <2>4, <2>5 DEF RingInv
<1> QED BY <1>5, <1>6

-----------------------------------------------------------------------------
(* When every URB fits a new ring and inc_deq is not disturbed, every        *)
(* reachable state of a ring of any size satisfies RingInv.                  *)
THEOREM RingInvariance ==
  ASSUME UrbsFitNewRing, ~Smp
  PROVE  Spec => []RingInv
<1>1. RingInv /\ [Next]_vars => RingInv'
  <2> SUFFICES ASSUME RingInv, [Next]_vars PROVE RingInv'
    OBVIOUS
  <2>1. CASE QueueStep /\ loaded = -1
    BY <2>1, QueueInv, ExpandInv DEF QueueStep
  <2>2. CASE IncDeqLoad \/ IncDeqStore
    BY <2>2, DequeueInv
  <2>3. CASE UNCHANGED vars
    BY <2>3 DEF vars, RingInv, RingTypeOK, FreeCount
  <2> QED BY <2>1, <2>2, <2>3 DEF Next
<1> QED BY <1>1, InitRing, PTL DEF Spec

(* num_trbs_free is exact.                                                   *)
THEOREM FreeCountExact ==
  ASSUME UrbsFitNewRing, ~Smp
  PROVE  Spec => []FreeCount
<1>1. RingInv => FreeCount
  BY DEF RingInv
<1> QED BY <1>1, RingInvariance, PTL

(* The enqueue pointer stays out of the dequeue segment.                     *)
THEOREM NeverOvertakes ==
  ASSUME UrbsFitNewRing, ~Smp
  PROVE  Spec => []StaysOutOfDequeueSegment
<1>1. RingInv => StaysOutOfDequeueSegment
  BY DEF RingInv, RingTypeOK, FreeCount, StaysOutOfDequeueSegment
<1> QED BY <1>1, RingInvariance, PTL

(* The room found for an URB is there until its last TRB is queued.          *)
THEOREM RoomIsKept ==
  ASSUME UrbsFitNewRing, ~Smp
  PROVE  Spec => []RoomKept
<1>1. RingInv => RoomKept
  <2> SUFFICES ASSUME RingInv PROVE RoomKept
    OBVIOUS
  <2>1. free \in Nat /\ deq \in Nat /\ todo \in Nat /\ free >= deq + todo
    BY DEF RingInv, RingTypeOK
  <2> QED BY <2>1, Needed DEF RoomKept
<1> QED BY <1>1, RingInvariance, PTL

-----------------------------------------------------------------------------
(* The rings of all endpoints of a device.                                   *)
INSTANCE FiniteSetTheorems

USE CfgAssumption

RingIds == 1..(2 * Cardinality(Eps))

CtxTypeOK ==
  /\ ring \in [Eps -> RingIds \cup {0}] /\ newRing \in [Eps -> RingIds \cup {0}]
  /\ input \in [Eps -> RingIds \cup {0}]
  /\ addFlags \subseteq Eps /\ dropFlags \subseteq Eps

CoreTypeOK ==
  /\ host \in {"up", "gone", "dying"}
  /\ core \in [pc : {"idle", "dropping", "adding", "checking", "command", "failed",
                     "asleep", "freed"},
               active : SUBSET Eps, drops : SUBSET Eps, adds : SUBSET Eps,
               wanted : SUBSET Eps, disable : BOOLEAN, dirty : BOOLEAN,
               changes : Nat]

(* No ring belongs to two endpoints, or to one of them twice.                *)
Distinct ==
  /\ \A e, f \in Eps : ring[e] # 0 /\ ring[e] = ring[f] => e = f
  /\ \A e, f \in Eps : newRing[e] # 0 /\ newRing[e] = newRing[f] => e = f
  /\ \A e, f \in Eps : ring[e] # 0 => ring[e] # newRing[f]

(* The flags and the input context say which rings are new.                  *)
InputAgrees ==
  /\ \A e \in Eps : newRing[e] # 0 <=> e \in addFlags
  /\ \A e \in addFlags : input[e] = newRing[e]

(* How far a change has come, in terms of the flags and of what the USB core *)
(* believes.                                                                 *)
Progress ==
  /\ core.pc \in {"idle", "dropping", "asleep", "freed"} => addFlags = {}
  /\ core.pc \in {"adding", "checking", "command"} =>
       core.adds \subseteq core.wanted /\ addFlags = core.wanted \ core.adds
  /\ core.pc \in {"checking", "command"} => core.adds = {}
  /\ core.pc = "dropping" => core.adds = core.wanted
  /\ core.disable => core.wanted = {}

Agreement ==
  host = "up" =>
    /\ core.active \subseteq Enabled
    /\ ~core.dirty =>
         /\ core.pc # "freed" => core.active = Enabled
         /\ core.pc \in {"idle", "asleep"} => dropFlags = {}
         /\ core.pc = "dropping" => Enabled \ dropFlags \subseteq core.drops
         /\ core.pc \in {"adding", "checking", "command"} => Enabled \subseteq dropFlags

(* The rings of driver and device.                                           *)
ContextInv ==
  /\ CtxTypeOK
  /\ ring = device
  /\ live = Rings(ring) \cup Rings(newRing)
  /\ Distinct /\ InputAgrees

(* The change that is being made.                                            *)
ChangeInv == CoreTypeOK /\ Progress /\ Agreement /\ EntriesRight

(* The inductive invariant.                                                  *)
CfgInv == ContextInv /\ ChangeInv

-----------------------------------------------------------------------------
(* A non-empty set of numbers has a least one.                               *)
LEMMA LeastNatural ==
  ASSUME NEW S \in SUBSET Nat, S # {}
  PROVE  Min(S) \in S /\ \A y \in S : Min(S) <= y
<1> DEFINE R == {ss \in Nat \X Nat : ss[1] < ss[2]}
<1>1. IsWellFoundedOn(R, Nat)
  BY NatLessThanWellFounded, Zenon DEF OpToRel
<1>2. PICK x \in S : \A y \in S : ~ (<<y, x>> \in R)
  <2> HIDE DEF R
  <2> QED BY <1>1, WFMin, Zenon
<1>3. ASSUME NEW y \in S PROVE x <= y
  <2>1. <<y, x>> \in Nat \X Nat /\ <<y, x>>[1] = y /\ <<y, x>>[2] = x
    OBVIOUS
  <2>2. ~ (y < x)
    BY <1>2, <2>1
  <2> QED BY <2>2
<1> QED BY <1>3, Zenon DEF Min

(* As many rings as endpoints that have one.                                 *)
LEMMA RingsCounted ==
  ASSUME NEW f \in [Eps -> RingIds \cup {0}],
         \A d, e \in Eps : f[d] # 0 /\ f[d] = f[e] => d = e
  PROVE  /\ IsFiniteSet(Rings(f))
         /\ Cardinality(Rings(f)) = Cardinality({e \in Eps : f[e] # 0})
         /\ Cardinality(Rings(f)) \in 0..Cardinality(Eps)
<1> DEFINE D == {e \in Eps : f[e] # 0}
           g == [e \in D |-> f[e]]
<1>1. IsFiniteSet(D) /\ Cardinality(D) <= Cardinality(Eps)
  BY FS_Subset
<1>2. g \in Bijection(D, Rings(f))
  BY DEF Bijection, Injection, Surjection, IsInjective, Rings
<1>3. ExistsBijection(D, Rings(f))
  BY <1>2 DEF ExistsBijection
<1>4. IsFiniteSet(Rings(f)) /\ Cardinality(Rings(f)) = Cardinality(D)
  BY <1>1, <1>3, FS_Bijection
<1>5. Cardinality(Rings(f)) \in Nat /\ Cardinality(Eps) \in Nat
  BY <1>4, FS_CardinalityType
<1> QED BY <1>1, <1>4, <1>5

(* The rings of the endpoints and the new ones, counted together.            *)
LEMMA LiveCounted ==
  ASSUME CtxTypeOK, Distinct, live = Rings(ring) \cup Rings(newRing)
  PROVE  /\ IsFiniteSet(live)
         /\ Cardinality(live) = Cardinality({e \in Eps : ring[e] # 0}) +
                                Cardinality({e \in Eps : newRing[e] # 0})
<1>1. /\ IsFiniteSet(Rings(ring)) /\ IsFiniteSet(Rings(newRing))
      /\ Cardinality(Rings(ring)) = Cardinality({e \in Eps : ring[e] # 0})
      /\ Cardinality(Rings(newRing)) = Cardinality({e \in Eps : newRing[e] # 0})
      /\ Cardinality(Rings(ring)) \in Nat /\ Cardinality(Rings(newRing)) \in Nat
  BY RingsCounted DEF CtxTypeOK, Distinct
<1>2. Rings(ring) \cap Rings(newRing) = {}
  <2> SUFFICES ASSUME NEW r, r \in Rings(ring), r \in Rings(newRing) PROVE FALSE
    OBVIOUS
  <2>1. PICK e \in Eps : ring[e] = r
    BY DEF Rings
  <2>2. PICK f \in Eps : newRing[f] = r
    BY DEF Rings
  <2>3. r # 0
    BY DEF Rings
  <2> QED BY <2>1, <2>2, <2>3 DEF Distinct
<1>3. Cardinality(Rings(ring) \cap Rings(newRing)) = 0
  BY <1>2, FS_EmptySet
<1>4. /\ IsFiniteSet(live)
      /\ Cardinality(live) = Cardinality(Rings(ring)) + Cardinality(Rings(newRing))
                               - Cardinality(Rings(ring) \cap Rings(newRing))
  BY <1>1, FS_Union
<1> QED BY <1>1, <1>3, <1>4

(* Memory for one more ring is another piece of memory: an endpoint has at   *)
(* most two rings.                                                           *)
LEMMA FreshRing ==
  ASSUME CtxTypeOK, Distinct, live = Rings(ring) \cup Rings(newRing),
         NEW e \in Eps, newRing[e] = 0
  PROVE  NewRing \in RingIds /\ NewRing \notin live
<1> DEFINE N == Cardinality(Eps)
           A == {d \in Eps : ring[d] # 0}
           B == {d \in Eps : newRing[d] # 0}
<1>1. N \in Nat
  BY FS_CardinalityType
<1>2. Cardinality(A) \in Nat /\ Cardinality(A) <= N
  BY FS_Subset, FS_CardinalityType
<1>3. Cardinality(B) \in Nat /\ Cardinality(B) < N
  <2>1. B \in SUBSET Eps /\ B # Eps
    OBVIOUS
  <2>2. IsFiniteSet(B) /\ Cardinality(B) <= N /\ Cardinality(B) # N
    BY <2>1, FS_Subset
  <2>3. Cardinality(B) \in Nat
    BY <2>2, FS_CardinalityType
  <2> QED BY <1>1, <2>2, <2>3
<1>4. Cardinality(live) = Cardinality(A) + Cardinality(B)
  BY LiveCounted
<1>5. Cardinality(RingIds) = 2 * N
  BY <1>1, FS_Interval DEF RingIds
<1>6. RingIds \ live # {}
  <2>1. ASSUME RingIds \ live = {} PROVE FALSE
    <3>1. RingIds \subseteq live
      BY <2>1
    <3>2. IsFiniteSet(live)
      BY LiveCounted
    <3>3. Cardinality(RingIds) <= Cardinality(live)
      BY <3>1, <3>2, FS_Subset
    <3> HIDE DEF N, A, B
    <3> QED BY <1>1, <1>2, <1>3, <1>4, <1>5, <3>3
  <2> QED BY <2>1
<1>7. RingIds \ live \in SUBSET Nat
  BY <1>1 DEF RingIds
<1>8. NewRing \in RingIds \ live
  <2>1. NewRing = Min(RingIds \ live)
    BY DEF NewRing, RingIds
  <2> QED BY <1>6, <1>7, <2>1, LeastNatural
<1> QED BY <1>8
-----------------------------------------------------------------------------
(* A step that leaves the contexts alone keeps what is said of them.         *)
LEMMA ContextsUnchanged ==
  ASSUME ContextInv, UNCHANGED contexts
  PROVE  ContextInv' /\ Enabled' = Enabled
BY DEF contexts, ContextInv, CtxTypeOK, Distinct, InputAgrees, Rings, Enabled

(* The calls of the USB core that only note what to do next.                 *)
LEMMA ChangeStarts ==
  ASSUME CfgInv, ChangeConfig
  PROVE  CfgInv'
<1>1. PICK new \in SUBSET Eps, disable \in BOOLEAN :
       /\ disable => new = {}
       /\ core' = [core EXCEPT !.pc = "dropping", !.drops = core.active,
                               !.adds = new, !.wanted = new,
                               !.disable = disable, !.changes = @ + 1]
  BY Zenon DEF ChangeConfig
<1>2. /\ core.pc = "idle" /\ UNCHANGED <<host, contexts>>
      /\ addFlags' = addFlags /\ dropFlags' = dropFlags
  BY DEF ChangeConfig, contexts
<1>3. ContextInv' /\ Enabled' = Enabled
  BY <1>2, ContextsUnchanged DEF CfgInv
<1>4. CoreTypeOK'
  <2>1. core.active \in SUBSET Eps /\ core.changes + 1 \in Nat
    BY DEF CfgInv, ChangeInv, CoreTypeOK
  <2>2. host' \in {"up", "gone", "dying"}
    BY <1>2 DEF CfgInv, ChangeInv, CoreTypeOK
  <2>3. core' = [core EXCEPT !.pc = "dropping", !.drops = core.active,
                             !.adds = new, !.wanted = new,
                             !.disable = disable, !.changes = core.changes + 1]
    BY <1>1 DEF CfgInv, ChangeInv, CoreTypeOK
  <2> QED BY <2>1, <2>2, <2>3, Zenon DEF CfgInv, ChangeInv, CoreTypeOK
<1>5. /\ core'.pc = "dropping" /\ core'.drops = core.active /\ core'.adds = new
      /\ core'.wanted = new /\ core'.disable = disable /\ core'.active = core.active
      /\ core'.dirty = core.dirty
  BY <1>1 DEF CfgInv, ChangeInv, CoreTypeOK
<1>6. Progress' /\ Agreement' /\ EntriesRight'
  BY <1>1, <1>2, <1>3, <1>5 DEF CfgInv, ChangeInv, Progress, Agreement, EntriesRight
<1> QED BY <1>3, <1>4, <1>6 DEF CfgInv, ChangeInv

(* A call that failed leaves the flags as they are, and the reset of the     *)
(* bandwidth or the next change deals with them.                             *)
LEMMA CallFails ==
  ASSUME CfgInv, CallFailed, UNCHANGED <<host, contexts>>,
         core.pc \in {"dropping", "adding", "checking", "command"}
  PROVE  CfgInv'
<1>1. ContextInv' /\ Enabled' = Enabled /\ addFlags' = addFlags /\ dropFlags' = dropFlags
  BY ContextsUnchanged DEF CfgInv, contexts
<1>2. CoreTypeOK'
  BY Zenon DEF CallFailed, CfgInv, ChangeInv, CoreTypeOK
<1>3. CASE core.disable
  <2>1. /\ core'.pc = "idle" /\ core'.active = {} /\ core'.dirty
        /\ core'.disable = core.disable /\ core'.wanted = core.wanted
    BY <1>3, Zenon DEF CallFailed, CfgInv, ChangeInv, CoreTypeOK
  <2>2. addFlags = {}
    BY <1>3 DEF CfgInv, ChangeInv, Progress
  <2> QED BY <1>1, <1>2, <1>3, <2>1, <2>2 DEF CfgInv, ChangeInv, Progress, Agreement,
                                             EntriesRight
<1>4. CASE ~core.disable
  <2>1. core'.pc = "failed" /\ core'.active = core.active /\ core'.dirty = core.dirty
        /\ core'.disable = core.disable /\ core'.wanted = core.wanted
    BY <1>4 DEF CallFailed, CfgInv, ChangeInv, CoreTypeOK
  <2> QED BY <1>1, <1>2, <1>4, <2>1 DEF CfgInv, ChangeInv, Progress, Agreement,
                                       EntriesRight
<1> QED BY <1>3, <1>4

(* xhci_drop_endpoint, called for each endpoint of the old alternate         *)
(* setting, keeps the invariant.                                             *)
LEMMA Drops ==
  ASSUME CfgInv, DropEndpoint
  PROVE  CfgInv'
<1> USE DEF CfgInv, ChangeInv
<1>1. CASE core.drops = {}
  <2>1. /\ core.pc = "dropping" /\ core' = [core EXCEPT !.pc = "adding"]
        /\ UNCHANGED <<host, contexts>> /\ addFlags' = addFlags
        /\ dropFlags' = dropFlags
    BY <1>1 DEF DropEndpoint, contexts
  <2>2. ContextInv' /\ Enabled' = Enabled
    BY <2>1, ContextsUnchanged
  <2> QED BY <1>1, <2>1, <2>2 DEF CoreTypeOK, Progress, Agreement, EntriesRight
<1>2. CASE core.drops # {} /\ host = "dying"
  BY <1>2, CallFails DEF DropEndpoint
<1>3. CASE core.drops # {} /\ host # "dying"
  <2> DEFINE e == Min(core.drops)
  <2>1. e \in core.drops /\ core.drops \in SUBSET Eps
    <3>1. core.drops \in SUBSET Eps /\ core.drops \in SUBSET Nat
      BY Zenon DEF CoreTypeOK
    <3> QED BY <1>3, <3>1, LeastNatural
  <2>2. /\ core.pc = "dropping" /\ core' = [core EXCEPT !.drops = @ \ {e}]
        /\ host' = host
    BY <1>3 DEF DropEndpoint
  <2>3. CoreTypeOK'
    BY <2>1, <2>2 DEF CoreTypeOK
  <2>4. CASE host = "gone" \/ device[e] = 0 \/ e \in dropFlags
    <3>1. UNCHANGED contexts /\ addFlags' = addFlags /\ dropFlags' = dropFlags
      BY <1>3, <2>4 DEF DropEndpoint, contexts
    <3>2. ContextInv' /\ Enabled' = Enabled
      BY <3>1, ContextsUnchanged
    <3> HIDE DEF e
    <3> QED BY <2>1, <2>2, <2>3, <2>4, <3>1, <3>2
            DEF CoreTypeOK, Progress, Agreement, EntriesRight, Enabled
  <2>5. CASE ~(host = "gone" \/ device[e] = 0 \/ e \in dropFlags)
    <3>1. /\ UNCHANGED <<device, ring, newRing, live>>
          /\ addFlags' = addFlags \ {e} /\ dropFlags' = dropFlags \cup {e}
          /\ input' = [input EXCEPT ![e] = 0]
      BY <1>3, <2>5 DEF DropEndpoint, EndpointZero
    <3>2. addFlags = {}
      BY <2>2 DEF Progress
    <3> HIDE DEF e
    <3>3. ContextInv' /\ Enabled' = Enabled
      <4>1. CtxTypeOK'
        BY <2>1, <3>1, <3>2, Zenon DEF ContextInv, CtxTypeOK
      <4>2. Rings(ring)' = Rings(ring) /\ Rings(newRing)' = Rings(newRing)
        BY <3>1 DEF Rings
      <4>3. Distinct' /\ InputAgrees'
        BY <3>1, <3>2 DEF ContextInv, Distinct, InputAgrees
      <4> QED BY <3>1, <4>1, <4>2, <4>3 DEF ContextInv, Enabled
    <3> QED BY <2>1, <2>2, <2>3, <2>5, <3>1, <3>2, <3>3
            DEF CoreTypeOK, Progress, Agreement, EntriesRight, Enabled
  <2> QED BY <2>4, <2>5
<1> QED BY <1>1, <1>2, <1>3

(* A ring is added for an endpoint that has no new one.                      *)
LEMMA RingAdded ==
  ASSUME ContextInv, NEW e \in Eps, e \notin addFlags,
         newRing' = [newRing EXCEPT ![e] = NewRing],
         input' = [input EXCEPT ![e] = NewRing],
         live' = live \cup {NewRing}, addFlags' = addFlags \cup {e},
         UNCHANGED <<device, ring, dropFlags>>
  PROVE  ContextInv' /\ Enabled' = Enabled
<1> DEFINE r == NewRing
<1>1. newRing[e] = 0
  BY DEF ContextInv, InputAgrees
<1>2. r \in RingIds /\ r \notin live /\ r # 0
  <2>1. r \in RingIds /\ r \notin live
    BY <1>1, FreshRing DEF ContextInv
  <2>2. 0 \notin RingIds
    BY FS_CardinalityType DEF RingIds
  <2> QED BY <2>1, <2>2
<1> HIDE DEF r
<1>3. CtxTypeOK'
  BY <1>2 DEF ContextInv, CtxTypeOK, r
<1>4. Rings(newRing)' = Rings(newRing) \cup {r} /\ Rings(ring)' = Rings(ring)
  BY <1>1, <1>2 DEF Rings, ContextInv, CtxTypeOK, r
<1>5. \A d \in Eps : newRing'[d] = IF d = e THEN r ELSE newRing[d]
  BY DEF ContextInv, CtxTypeOK, r
<1>6. \A d \in Eps : ring[d] # r /\ newRing[d] # r
  BY <1>2 DEF ContextInv, Rings
<1>7. Distinct'
  BY <1>5, <1>6 DEF ContextInv, Distinct
<1>8. InputAgrees'
  <2>1. \A d \in Eps : input'[d] = IF d = e THEN r ELSE input[d]
    BY DEF ContextInv, CtxTypeOK, r
  <2>2. addFlags' \subseteq Eps
    BY <1>3 DEF CtxTypeOK
  <2> QED BY <1>2, <1>5, <2>1, <2>2 DEF ContextInv, InputAgrees
<1> QED BY <1>3, <1>4, <1>7, <1>8, Zenon DEF ContextInv, Enabled, r

(* xhci_add_endpoint, called for each endpoint of the new one, keeps it.     *)
LEMMA Adds ==
  ASSUME CfgInv, AddEndpoint
  PROVE  CfgInv'
<1> USE DEF CfgInv, ChangeInv
<1>1. CASE core.adds = {}
  <2>1. /\ core.pc = "adding" /\ core' = [core EXCEPT !.pc = "checking"]
        /\ UNCHANGED <<host, contexts>> /\ addFlags' = addFlags
        /\ dropFlags' = dropFlags
    BY <1>1 DEF AddEndpoint, contexts
  <2>2. ContextInv' /\ Enabled' = Enabled
    BY <2>1, ContextsUnchanged
  <2> QED BY <1>1, <2>1, <2>2 DEF CoreTypeOK, Progress, Agreement, EntriesRight
<1>2. CASE core.adds # {}
  <2> DEFINE e == Min(core.adds)
  <2>1. e \in core.adds /\ core.adds \in SUBSET Eps
    <3>1. core.adds \in SUBSET Eps /\ core.adds \in SUBSET Nat
      BY Zenon DEF CoreTypeOK
    <3> QED BY <1>2, <3>1, LeastNatural
  <2>2. core.pc = "adding" /\ host' = host
    BY DEF AddEndpoint
  <2>3. e \notin addFlags
    BY <2>1, <2>2 DEF Progress
  <2>4. CASE UNCHANGED contexts /\ CallFailed
    BY <2>2, <2>4, CallFails
  <2>5. CASE /\ newRing' = [newRing EXCEPT ![e] = NewRing]
             /\ input' = [input EXCEPT ![e] = NewRing]
             /\ live' = live \cup {NewRing}
             /\ addFlags' = addFlags \cup {e}
             /\ core' = [core EXCEPT !.adds = @ \ {e}]
             /\ UNCHANGED <<device, ring, dropFlags>>
    <3> HIDE DEF e
    <3>1. ContextInv' /\ Enabled' = Enabled
      BY <2>1, <2>3, <2>5, RingAdded, Zenon
    <3>2. CoreTypeOK'
      BY <2>1, <2>2, <2>5 DEF CoreTypeOK
    <3>3. /\ core'.pc = "adding" /\ core'.adds = core.adds \ {e}
          /\ core'.wanted = core.wanted /\ core'.disable = core.disable
          /\ core'.active = core.active /\ core'.dirty = core.dirty
      BY <2>2, <2>5 DEF CoreTypeOK
    <3>4. Progress' /\ Agreement' /\ EntriesRight'
      BY <2>1, <2>2, <2>5, <3>1, <3>3 DEF Progress, Agreement, EntriesRight
    <3> QED BY <3>1, <3>2, <3>4
  <2>6. (UNCHANGED contexts /\ CallFailed) \/ EndpointInit(e)
    BY <1>2, <2>3 DEF AddEndpoint
  <2> QED BY <2>4, <2>5, <2>6 DEF EndpointInit
<1> QED BY <1>1, <1>2

-----------------------------------------------------------------------------
(* The endpoints of the device after the change, when it succeeds.           *)
LEMMA ChangeSucceeds ==
  ASSUME ChangeInv, core.pc \in {"checking", "command"}, core' = Changed,
         host' = host, addFlags' = {}, dropFlags' = {},
         Enabled' = (Enabled \ dropFlags) \cup addFlags
  PROVE  ChangeInv'
<1> USE DEF ChangeInv
<1>1. CoreTypeOK'
  BY Zenon DEF CoreTypeOK, Changed
<1>2. /\ core'.pc = "idle" /\ core'.active = core.wanted /\ core'.dirty = core.dirty
      /\ core'.disable = core.disable /\ core'.wanted = core.wanted
  BY DEF CoreTypeOK, Changed
<1>3. addFlags = core.wanted
  BY DEF Progress
<1> QED BY <1>1, <1>2, <1>3 DEF Progress, Agreement, EntriesRight

(* xhci_check_bandwidth keeps it, whether the configure endpoint command is  *)
(* refused or done.                                                          *)
LEMMA Checks ==
  ASSUME CfgInv, CheckBandwidth
  PROVE  CfgInv'
<1> USE DEF CfgInv, ChangeInv
<1>1. /\ core.pc = "checking"
      /\ UNCHANGED <<host, device, ring, newRing, input, addFlags, dropFlags, live>>
  BY DEF CheckBandwidth
<1>2. CASE CallFailed /\ UNCHANGED entries
  BY <1>1, <1>2, CallFails DEF contexts
<1>3. CASE addFlags = {} /\ dropFlags = {} /\ core' = Changed /\ UNCHANGED entries
  <2>1. ContextInv' /\ Enabled' = Enabled
    BY <1>1, <1>3, ContextsUnchanged DEF contexts
  <2> QED BY <1>1, <1>3, <2>1, ChangeSucceeds
<1>4. CASE entries' = LastContext /\ core' = [core EXCEPT !.pc = "command"]
  <2>1. ContextInv' /\ Enabled' = Enabled
    BY <1>1 DEF ContextInv, CtxTypeOK, Distinct, InputAgrees, Rings, Enabled
  <2>2. CoreTypeOK'
    BY <1>1, <1>4 DEF CoreTypeOK
  <2>3. /\ core'.pc = "command" /\ core'.adds = core.adds
        /\ core'.wanted = core.wanted /\ core'.disable = core.disable
        /\ core'.active = core.active /\ core'.dirty = core.dirty
    BY <1>4 DEF CoreTypeOK
  <2>4. Progress' /\ Agreement'
    BY <1>1, <2>1, <2>3 DEF Progress, Agreement
  <2>5. EntriesRight'
    <3>1. addFlags \cup {f \in Eps : ring[f] # 0 /\ f \notin dropFlags}
            = (Enabled' \ dropFlags') \cup addFlags'
      BY <1>1, <2>1 DEF ContextInv, CtxTypeOK, Enabled
    <3> QED BY <1>4, <3>1, Zenon DEF LastContext, EntriesRight
  <2> QED BY <2>1, <2>2, <2>4, <2>5
<1> QED BY <1>2, <1>3, <1>4 DEF CheckBandwidth

(* The new rings are installed and the old ones freed, at the device and in  *)
(* the driver.                                                               *)
LEMMA Installs ==
  ASSUME CfgInv, Configured
  PROVE  CfgInv'
<1> DEFINE dropped == dropFlags \ addFlags
           replaced == {e \in Eps : newRing[e] # 0}
           old == {ring[e] : e \in dropped \cup replaced}
<1>1. /\ ring' = [e \in Eps |-> IF newRing[e] # 0 THEN newRing[e]
                                ELSE IF e \in dropped THEN 0 ELSE ring[e]]
      /\ device' = [e \in Eps |-> IF e \in addFlags THEN input[e]
                                  ELSE IF e \in dropFlags THEN 0 ELSE device[e]]
      /\ live' = live \ old
      /\ newRing' = None /\ input' = None
      /\ addFlags' = {} /\ dropFlags' = {}
      /\ core.pc = "command" /\ core' = Changed /\ host' = host
  BY DEF Configured, InstallRings, ZeroInCtx
<1>2. replaced = addFlags
  BY Zenon DEF CfgInv, ContextInv, CtxTypeOK, InputAgrees
<1>3. \A e \in Eps : /\ ring'[e] = IF e \in addFlags THEN newRing[e]
                                    ELSE IF e \in dropFlags THEN 0 ELSE ring[e]
                     /\ newRing'[e] = 0
  BY <1>1, <1>2 DEF None
<1>4. ring' = device'
  BY <1>1, <1>2 DEF CfgInv, ContextInv, CtxTypeOK, InputAgrees
<1>5. CtxTypeOK'
  BY <1>1 DEF CfgInv, ContextInv, CtxTypeOK, None
<1>6. Distinct' /\ InputAgrees'
  <2>1. Distinct'
    BY <1>3 DEF CfgInv, ContextInv, Distinct
  <2> QED BY <1>1, <1>3, <2>1, Zenon DEF InputAgrees
<1>7. live' = Rings(ring)' \cup Rings(newRing)'
  <2>1. Rings(newRing)' = {}
    BY <1>3 DEF Rings
  <2>2. ASSUME NEW r \in live' PROVE r \in Rings(ring)'
    <3>1. r \in live /\ r # 0 /\ \A e \in dropFlags \cup addFlags : ring[e] # r
      BY <1>1, <1>2, <2>2 DEF CfgInv, ContextInv, Rings
    <3>2. CASE r \in Rings(newRing)
      <4>1. PICK e \in Eps : newRing[e] = r
        BY <3>2 DEF Rings
      <4>2. e \in addFlags
        BY <1>2, <3>1, <4>1
      <4> QED BY <1>3, <3>1, <4>1, <4>2 DEF Rings
    <3>3. CASE r \in Rings(ring)
      <4>1. PICK e \in Eps : ring[e] = r
        BY <3>3 DEF Rings
      <4> QED BY <1>3, <3>1, <4>1 DEF Rings
    <3> QED BY <3>1, <3>2, <3>3 DEF CfgInv, ContextInv
  <2>3. ASSUME NEW r \in Rings(ring)' PROVE r \in live'
    <3>1. PICK e \in Eps : ring'[e] = r /\ r # 0
      BY <2>3 DEF Rings
    <3>2. CASE e \in addFlags
      <4>1. newRing[e] = r /\ r \in live
        BY <1>3, <3>1, <3>2, Zenon DEF CfgInv, ContextInv, Rings
      <4>2. \A d \in Eps : ring[d] # r
        BY <3>1, <4>1 DEF CfgInv, ContextInv, Distinct
      <4> QED BY <1>1, <1>2, <4>1, <4>2 DEF CfgInv, ContextInv, CtxTypeOK
    <3>3. CASE e \notin addFlags
      <4>1. e \notin dropFlags /\ ring[e] = r /\ r \in live
        BY <1>3, <3>1, <3>3, Zenon DEF CfgInv, ContextInv, Rings
      <4>2. \A d \in Eps : ring[d] = r => d = e
        BY <3>1, <4>1 DEF CfgInv, ContextInv, Distinct
      <4> QED BY <1>1, <1>2, <3>3, <4>1, <4>2 DEF CfgInv, ContextInv, CtxTypeOK
    <3> QED BY <3>2, <3>3
  <2> QED BY <2>1, <2>2, <2>3, Zenon
<1>8. Enabled' = (Enabled \ dropFlags) \cup addFlags
  <2>1. \A e \in Eps : e \in addFlags <=> newRing[e] # 0
    BY DEF CfgInv, ContextInv, InputAgrees
  <2> QED BY <1>3, <1>4, <2>1, ZenonT(60) DEF CfgInv, ContextInv, CtxTypeOK, Enabled
<1>9. ChangeInv'
  BY <1>1, <1>8, ChangeSucceeds DEF CfgInv
<1> QED BY <1>4, <1>5, <1>6, <1>7, <1>9, SMTT(30) DEF CfgInv, ContextInv

(* ehub_xhci_reset_bandwidth takes the change back.                          *)
LEMMA TakesBack ==
  ASSUME CfgInv, ResetBandwidth
  PROVE  CfgInv'
<1>1. /\ core.pc = "failed" /\ core' = [core EXCEPT !.pc = "idle"]
      /\ live' = live \ Rings(newRing) /\ newRing' = None /\ input' = None
      /\ addFlags' = {} /\ dropFlags' = {} /\ UNCHANGED <<host, device, ring>>
  BY DEF ResetBandwidth, ZeroInCtx
<1>2. CtxTypeOK' /\ Distinct' /\ InputAgrees'
  BY <1>1 DEF CfgInv, ContextInv, CtxTypeOK, None, Distinct, InputAgrees
<1>3. Rings(newRing)' = {} /\ Rings(ring)' = Rings(ring)
  BY <1>1 DEF Rings, None
<1>4. Rings(ring) \cap Rings(newRing) = {}
  BY DEF CfgInv, ContextInv, Rings, Distinct
<1>5. ContextInv'
  BY <1>1, <1>2, <1>3, <1>4 DEF CfgInv, ContextInv
<1>6. Enabled' = Enabled
  BY <1>1 DEF Enabled
<1>7. ChangeInv'
  BY <1>1, <1>6 DEF CfgInv, ChangeInv, CoreTypeOK, Progress, Agreement, EntriesRight
<1> QED BY <1>5, <1>7 DEF CfgInv

(* The device is reset or released: all its rings are freed.                 *)
LEMMA AllRingsFreed ==
  ASSUME ContextInv, device' = None, ring' = None, live' = live \ Rings(ring),
         UNCHANGED <<newRing, input, addFlags, dropFlags>>
  PROVE  ContextInv' /\ Enabled' = {}
<1>1. CtxTypeOK' /\ Distinct' /\ InputAgrees'
  BY DEF ContextInv, CtxTypeOK, None, Distinct, InputAgrees
<1>2. Rings(ring)' = {} /\ Rings(newRing)' = Rings(newRing)
  BY DEF Rings, None
<1>3. Rings(ring) \cap Rings(newRing) = {}
  BY DEF ContextInv, Rings, Distinct
<1>4. Enabled' = {}
  BY DEF Enabled, None
<1> QED BY <1>1, <1>2, <1>3, <1>4 DEF ContextInv

(* Resetting and freeing the device keep it: no endpoint and no ring is      *)
(* left.                                                                     *)
LEMMA Releases ==
  ASSUME CfgInv, ResetDevice \/ FreeDev
  PROVE  CfgInv'
<1>1. ContextInv' /\ Enabled' = {}
  BY AllRingsFreed DEF CfgInv, ResetDevice, FreeDev
<1>2. CASE ResetDevice
  <2>1. /\ core.pc = "idle" /\ UNCHANGED <<host, addFlags, dropFlags>>
        /\ core' = [core EXCEPT !.pc = "dropping", !.drops = core.active,
                          !.adds = core.active, !.wanted = core.active,
                          !.active = {}, !.disable = FALSE, !.changes = @ + 1]
    BY <1>2 DEF ResetDevice
  <2>2. core.active \in SUBSET Eps /\ core.changes + 1 \in Nat
    BY DEF CfgInv, ChangeInv, CoreTypeOK
  <2>3. core' = [core EXCEPT !.pc = "dropping", !.drops = core.active,
                   !.adds = core.active, !.wanted = core.active,
                   !.active = {}, !.disable = FALSE, !.changes = core.changes + 1]
    BY <2>1 DEF CfgInv, ChangeInv, CoreTypeOK
  <2>4. CoreTypeOK'
    BY <2>1, <2>2, <2>3, ZenonT(60) DEF CfgInv, ChangeInv, CoreTypeOK
  <2>5. /\ core'.pc = "dropping" /\ core'.adds = core'.wanted /\ core'.active = {}
        /\ ~core'.disable
    BY <2>3 DEF CfgInv, ChangeInv, CoreTypeOK
  <2> QED BY <1>1, <2>1, <2>4, <2>5
          DEF CfgInv, ChangeInv, Progress, Agreement, EntriesRight
<1>3. CASE FreeDev
  <2>1. /\ core.pc = "idle" /\ UNCHANGED <<host, addFlags, dropFlags>>
        /\ core' = [core EXCEPT !.pc = "freed", !.active = {}]
    BY <1>3 DEF FreeDev
  <2>2. CoreTypeOK'
    BY <2>1, Zenon DEF CfgInv, ChangeInv, CoreTypeOK
  <2>3. /\ core'.pc = "freed" /\ core'.active = {}
        /\ core'.disable = core.disable /\ core'.wanted = core.wanted
    BY <2>1 DEF CfgInv, ChangeInv, CoreTypeOK
  <2> QED BY <1>1, <2>1, <2>2, <2>3
          DEF CfgInv, ChangeInv, Progress, Agreement, EntriesRight
<1> QED BY <1>2, <1>3

(* The steps that leave the contexts alone.                                  *)
LEMMA Others ==
  ASSUME CfgInv,
         \/ NotConfigured \/ StopLoopBegin \/ StopLoopEnd \/ LinkSuspend
         \/ LinkResume \/ HostFails \/ UNCHANGED cfgVars
  PROVE  CfgInv'
<1>1. UNCHANGED contexts /\ addFlags' = addFlags /\ dropFlags' = dropFlags
      /\ entries' = entries
  BY DEF NotConfigured, StopLoopBegin, StopLoopEnd, LinkSuspend, LinkResume, HostFails,
         cfgVars, contexts
<1>2. ContextInv' /\ Enabled' = Enabled
  BY <1>1, ContextsUnchanged DEF CfgInv
<1>3. CASE NotConfigured
  BY <1>1, <1>3, CallFails DEF NotConfigured
<1>4. CASE StopLoopBegin \/ StopLoopEnd \/ UNCHANGED cfgVars
  <2>1. host' = host /\ core' = core
    BY <1>4 DEF StopLoopBegin, StopLoopEnd, cfgVars
  <2> QED BY <1>1, <1>2, <2>1 DEF CfgInv, ChangeInv, CoreTypeOK, Progress, Agreement,
                                  EntriesRight
<1>5. CASE LinkSuspend
  <2>1. core.pc = "idle" /\ host' = host /\ core.changes + 1 \in Nat
        /\ core' = [core EXCEPT !.pc = "asleep", !.changes = core.changes + 1]
    BY <1>5 DEF LinkSuspend, CfgInv, ChangeInv, CoreTypeOK
  <2>2. CoreTypeOK'
    BY <2>1, Zenon DEF CfgInv, ChangeInv, CoreTypeOK
  <2>3. /\ core'.pc = "asleep" /\ core'.active = core.active /\ core'.dirty = core.dirty
        /\ core'.disable = core.disable /\ core'.wanted = core.wanted
    BY <2>1 DEF CfgInv, ChangeInv, CoreTypeOK
  <2> QED BY <1>1, <1>2, <2>1, <2>2, <2>3
          DEF CfgInv, ChangeInv, Progress, Agreement, EntriesRight
<1>6. CASE LinkResume
  <2>1. core.pc = "asleep" /\ host' = host /\ core' = [core EXCEPT !.pc = "idle"]
    BY <1>6 DEF LinkResume
  <2> QED BY <1>1, <1>2, <2>1 DEF CfgInv, ChangeInv, CoreTypeOK, Progress, Agreement,
                                  EntriesRight
<1>7. CASE HostFails
  <2>1. host' \in {"gone", "dying"} /\ core' = core
    BY <1>7 DEF HostFails
  <2> QED BY <1>1, <1>2, <2>1 DEF CfgInv, ChangeInv, CoreTypeOK, Progress, Agreement,
                                  EntriesRight
<1> QED BY <1>3, <1>4, <1>5, <1>6, <1>7

-----------------------------------------------------------------------------
(* The invariant holds of the endpoints of a device, whatever calls fail.    *)
THEOREM CfgInvariance == CfgSpec => []CfgInv
<1>1. CfgInit => CfgInv
  <2> SUFFICES ASSUME CfgInit PROVE CfgInv
    OBVIOUS
  <2>1. ContextInv
    BY DEF CfgInit, ContextInv, CtxTypeOK, None, Rings, Distinct, InputAgrees
  <2>2. Enabled = {}
    BY DEF CfgInit, Enabled, None
  <2> QED BY <2>1, <2>2 DEF CfgInit, CfgInv, ChangeInv, CoreTypeOK, Progress, Agreement,
                           EntriesRight, Idle
<1>2. CfgInv /\ [CfgNext]_cfgVars => CfgInv'
  BY ChangeStarts, Drops, Adds, Checks, Installs, TakesBack, Releases, Others
     DEF CfgNext
<1> QED BY <1>1, <1>2, PTL DEF CfgSpec

(* Whatever fails between ehub_xhci_add_endpoint and the answer of the       *)
(* device, no ring leaks, is freed twice or is left in the device's context  *)
(* after it was freed; driver, device and USB core agree between changes;    *)
(* and Context Entries is right.                                             *)
THEOREM EndpointsRightHolds == CfgSpec => []EndpointsRight
<1>1. CfgInv => EndpointsRight
  <2> SUFFICES ASSUME CfgInv PROVE EndpointsRight
    OBVIOUS
  <2>1. RingsOwned
    BY LiveCounted DEF CfgInv, ContextInv, RingsOwned
  <2>2. DeviceRingsLive
    BY DEF CfgInv, ContextInv, DeviceRingsLive
  <2>3. ConfigAgrees
    <3>1. core.pc = "idle" => addFlags = {}
      BY DEF CfgInv, ChangeInv, Progress
    <3>2. core.pc = "idle" => newRing = None
      BY <3>1 DEF CfgInv, ContextInv, CtxTypeOK, InputAgrees, None
    <3> QED BY <3>1, <3>2 DEF CfgInv, ContextInv, ChangeInv, Agreement, ConfigAgrees
  <2>4. EntriesRight
    BY DEF CfgInv, ChangeInv
  <2> QED BY <2>1, <2>2, <2>3, <2>4 DEF EndpointsRight
<1> QED BY <1>1, CfgInvariance, PTL
=============================================================================
