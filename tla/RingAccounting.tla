--------------------------- MODULE RingAccounting ---------------------------
(***************************************************************************)
(* The bookkeeping of a transfer ring: enqueue and dequeue pointers,       *)
(* num_trbs_free, and ring expansion.                                      *)
(*                                                                         *)
(* A ring is a cycle of segments, each with PerSeg usable TRBs and a link  *)
(* TRB.  Positions are counted in usable TRBs from the start of the        *)
(* dequeue segment: the dequeue pointer is at deq < PerSeg, the enqueue    *)
(* pointer at enq >= deq.  When the dequeue pointer enters the next        *)
(* segment both are counted from there.  enqOff is the offset of the       *)
(* enqueue pointer in its own segment.                                     *)
(*                                                                         *)
(* URBs are queued under xhci->lock; the worker that handles transfer      *)
(* events calls inc_deq without it.                                        *)
(***************************************************************************)
EXTENDS Integers

CONSTANTS
  PerSeg,    \* TRBS_PER_SEGMENT - 1
  InitSegs,  \* segments of a new ring
  MaxUrb,    \* the largest number of TRBs asked for at once
  MaxTotal,  \* bound: a ring with more usable TRBs is not expanded again
  Smp        \* whether an URB may be queued while inc_deq runs

ASSUME RingAssumption ==
  /\ PerSeg \in Nat \ {0}
  /\ InitSegs \in Nat \ {0, 1}
  /\ MaxUrb \in Nat \ {0}
  /\ MaxTotal \in Nat
  /\ Smp \in BOOLEAN

VARIABLES
  total,   \* usable TRBs of all segments
  enq,     \* the enqueue pointer
  enqOff,  \* its offset in enq_seg; PerSeg when it is on the link TRB
  deq,     \* the dequeue pointer
  free,    \* num_trbs_free
  ask,     \* TRBs the running prepare_ring was asked for
  todo,    \* TRBs of the URB that are yet to be queued
  loaded   \* what inc_deq has read from num_trbs_free, or -1

vars == <<total, enq, enqOff, deq, free, ask, todo, loaded>>

(* xhci_initialize_ring_info: one TRB is left over for accounting.           *)
Init ==
  /\ total = InitSegs * PerSeg
  /\ enq = 0 /\ enqOff = 0 /\ deq = 0
  /\ free = InitSegs * PerSeg - 1
  /\ ask = 0 /\ todo = 0 /\ loaded = -1

-----------------------------------------------------------------------------
(* The definitions named Faulty... are variants of the one that follows,     *)
(* each with a mistake the properties below must notice.                     *)

(* Faulty: the TRBs in front of the dequeue pointer are not kept free.       *)
FaultyTrbsNeeded(n) == IF free < n THEN n - free ELSE 0

(* num_trbs_needed: the TRBs that are missing for n TRBs to fit and for the  *)
(* enqueue pointer to stay out of the dequeue segment.                       *)

TrbsNeeded(n) ==
  IF free < n THEN n - free
  ELSE IF free < n + deq THEN n + deq - free
  ELSE 0

(* ehub_xhci_ring_expansion: double the ring, or add what is needed if that  *)
(* is more, in whole segments.                                               *)
NewTrbs(n) ==
  LET needed == ((n + PerSeg - 1) \div PerSeg) * PerSeg
  IN  IF total > needed THEN total ELSE needed

(* An URB of n TRBs is to be queued: prepare_ring is entered.                *)
PrepareRing(n) ==
  /\ ask = 0 /\ todo = 0
  /\ ask' = n
  /\ UNCHANGED <<total, enq, enqOff, deq, free, todo, loaded>>

(* One round of the loop of prepare_ring.  xhci_link_rings puts the new      *)
(* segments after enq_seg.  When the ring is empty and the enqueue pointer   *)
(* rests on the link TRB in front of the dequeue segment, that is between    *)
(* the enqueue and the dequeue pointer.                                      *)
ExpandRing ==
  /\ ask > 0 /\ TrbsNeeded(ask) > 0 /\ total <= MaxTotal
  /\ total' = total + NewTrbs(TrbsNeeded(ask))
  /\ free' = free + NewTrbs(TrbsNeeded(ask))
  /\ enq' = IF enqOff = PerSeg /\ enq = 0 THEN total ELSE enq
  /\ UNCHANGED <<enqOff, deq, ask, todo, loaded>>

(* No memory or no cache block for new segments: the URB is refused.         *)
ExpandFails ==
  /\ ask > 0 /\ TrbsNeeded(ask) > 0
  /\ ask' = 0
  /\ UNCHANGED <<total, enq, enqOff, deq, free, todo, loaded>>

(* Faulty: one TRB too many is accepted.                                     *)
FaultyRoomFound ==
  /\ ask > 0 /\ TrbsNeeded(ask) <= 1
  /\ ask' = 0 /\ todo' = ask
  /\ enqOff' = IF enqOff = PerSeg THEN 0 ELSE enqOff
  /\ UNCHANGED <<total, enq, deq, free, loaded>>

(* There is room; prepare_ring steps over a link TRB and returns.            *)
RoomFound ==
  /\ ask > 0 /\ TrbsNeeded(ask) = 0
  /\ ask' = 0 /\ todo' = ask
  /\ enqOff' = IF enqOff = PerSeg THEN 0 ELSE enqOff
  /\ UNCHANGED <<total, enq, deq, free, loaded>>

(* Faulty: the last TRB of a TD is not counted.                              *)
FaultyQueueTrb(last) ==
  /\ todo > 0 /\ enqOff < PerSeg
  /\ todo = 1 => last
  /\ todo' = todo - 1
  /\ enq' = enq + 1
  /\ free' = IF last THEN free ELSE free - 1
  /\ enqOff' = IF enqOff + 1 = PerSeg /\ ~last THEN 0 ELSE enqOff + 1
  /\ UNCHANGED <<total, deq, ask, loaded>>

(* queue_trb and inc_enq.  Behind the last TRB of a TD the enqueue pointer   *)
(* stays on the link TRB, otherwise it steps over it.  An isochronous URB    *)
(* has several TDs.                                                          *)
QueueTrb(last) ==
  /\ todo > 0 /\ enqOff < PerSeg
  /\ todo = 1 => last
  /\ todo' = todo - 1
  /\ enq' = enq + 1
  /\ free' = free - 1
  /\ enqOff' = IF enqOff + 1 = PerSeg /\ ~last THEN 0 ELSE enqOff + 1
  /\ UNCHANGED <<total, deq, ask, loaded>>

(* The prepare_transfer of the next TD of an isochronous URB: prepare_ring   *)
(* has room (see RoomKept) and steps over the link TRB.                      *)
NextTd ==
  /\ todo > 0 /\ enqOff = PerSeg
  /\ enqOff' = 0
  /\ UNCHANGED <<total, enq, deq, free, ask, todo, loaded>>

-----------------------------------------------------------------------------
(* inc_deq for one TRB of a TD that is complete: num_trbs_free is read, ...  *)
IncDeqLoad ==
  /\ loaded = -1
  /\ enq > deq
  /\ loaded' = free
  /\ UNCHANGED <<total, enq, enqOff, deq, free, ask, todo>>

(* ... written back, and the dequeue pointer moves, over the link TRB too.   *)
IncDeqStore ==
  /\ loaded # -1
  /\ loaded' = -1
  /\ free' = loaded + 1
  /\ deq' = (deq + 1) % PerSeg
  /\ enq' = IF deq + 1 = PerSeg THEN enq - PerSeg ELSE enq
  /\ UNCHANGED <<total, enqOff, ask, todo>>

(* The steps of the thread that queues an URB.                               *)
QueueStep ==
  \/ \E n \in 1..MaxUrb : PrepareRing(n)
  \/ ExpandRing
  \/ ExpandFails
  \/ RoomFound
  \/ \E last \in BOOLEAN : QueueTrb(last)
  \/ NextTd

Next ==
  \/ QueueStep /\ (Smp \/ loaded = -1)
  \/ IncDeqLoad
  \/ IncDeqStore

Spec == Init /\ [][Next]_vars

-----------------------------------------------------------------------------
(* Types of the state of a ring (struct xhci_ring).                          *)
RingTypeOK ==
  /\ total \in Nat /\ enq \in Nat /\ enqOff \in 0..PerSeg
  /\ deq \in 0..(PerSeg - 1) /\ free \in Nat
  /\ ask \in 0..MaxUrb /\ todo \in 0..MaxUrb /\ loaded \in Nat \cup {-1}

(* num_trbs_free is exact: all TRBs but those between the dequeue and the    *)
(* enqueue pointer and the one that is never used.  inc_enq, inc_deq and     *)
(* xhci_link_rings each maintain a part of it.                               *)
FreeCount == free + (enq - deq) + 1 = total

(* The enqueue pointer never comes around into the segment the dequeue       *)
(* pointer is in, however URBs, expansions and completions follow each       *)
(* other: what room_on_ring and num_trbs_needed are for.                     *)
StaysOutOfDequeueSegment == enq < total

(* The room that was found for an URB remains until it is queued, so that    *)
(* the later prepare_ring calls of an isochronous URB never fail or expand.  *)
RoomKept == TrbsNeeded(todo) = 0

(* The largest URB fits a new ring.                                          *)
UrbsFitNewRing == MaxUrb < InitSegs * PerSeg

(* The inductive invariant.                                                  *)
RingInv ==
  /\ RingTypeOK
  /\ enq >= deq
  /\ total >= InitSegs * PerSeg
  /\ FreeCount
  /\ free >= deq + todo
  /\ ask > 0 => todo = 0
  /\ loaded # -1 => loaded = free /\ enq > deq
=============================================================================
