------------------------------ MODULE RingWalk ------------------------------
(***************************************************************************)
(* The walks along a transfer ring: segments, link TRBs and cycle bits.    *)
(*                                                                         *)
(* A ring has Segs segments of PerSeg TRBs, the last of each a link TRB to *)
(* the next segment; the link of the last segment toggles the cycle bit.   *)
(* Positions are numbered along the ring.  A segment lies in a block of    *)
(* the device's cache at any address.                                      *)
(*                                                                         *)
(* One behaviour takes one TD that was stopped or has halted the endpoint  *)
(* through the search for the new dequeue pointer, and, once the command   *)
(* is done, through the update of the driver's dequeue pointer.            *)
(***************************************************************************)
EXTENDS Naturals, FiniteSets, FiniteSetsExt

CONSTANTS
  Segs,     \* segments of the ring
  WalkPerSeg    \* TRBs of a segment, the link TRB included

ASSUME WalkAssumption == Segs \in Nat \ {0} /\ WalkPerSeg \in Nat /\ WalkPerSeg > 1

N == Segs * WalkPerSeg
Pos == 0..(N - 1)

VARIABLES
  block,      \* which block of the cache holds each segment
  walkDeq,        \* the driver's dequeue pointer when the walk begins
  span,       \* TRBs from there to the last TRB of the TD
  hw,         \* the device's dequeue pointer, in the endpoint context
  hwCycle,    \* its cycle state
  pc,
  cur,        \* new_deq
  cycle,      \* new_cycle_state
  cycleFound, \* cycle_found
  lastFound,  \* td_last_trb_found
  dequeue,    \* the driver's dequeue pointer as it is updated
  freed       \* what is added to num_trbs_free

ring == <<block, walkDeq, span, hw, hwCycle>>
walkVars == <<ring, pc, cur, cycle, cycleFound, lastFound, dequeue, freed>>

SegOf(p) == p \div WalkPerSeg
IsLink(p) == p % WalkPerSeg = WalkPerSeg - 1      \* last_trb
Toggles(p) == p = N - 1                   \* LINK_TOGGLE
Distance(p, q) == (q + N - p) % N         \* TRBs from p to q along the ring
last == (walkDeq + span) % N                  \* last_trb of the TD

(* next_trb: the next TRB, which may be a link TRB.                          *)
NextTrb(p) == IF IsLink(p) THEN ((SegOf(p) + 1) % Segs) * WalkPerSeg ELSE p + 1

(* The enqueue pointer does not advance into the dequeue segment             *)
(* (room_on_ring), and the last TRB of a TD is no link TRB.                  *)
WalkInit ==
  /\ block \in {b \in [0..(Segs - 1) -> 0..(Segs - 1)] :
                  \A i, j \in 0..(Segs - 1) : b[i] = b[j] => i = j}
  /\ walkDeq \in Pos /\ span \in 0..(N - 1)
  /\ ~IsLink((walkDeq + span) % N)
  /\ SegOf((walkDeq + span) % N) # SegOf(walkDeq) \/ span < WalkPerSeg
  /\ hw \in Pos /\ hwCycle \in {0, 1}
  /\ SegOf(hw) # SegOf(walkDeq) \/ walkDeq <= hw
  /\ pc = "find" /\ cur = walkDeq /\ cycle = hwCycle
  /\ cycleFound = FALSE /\ lastFound = FALSE
  /\ dequeue = walkDeq /\ freed = 0

-----------------------------------------------------------------------------
(* ehub_xhci_find_new_dequeue_state: one turn of the loop.                   *)
FaultyFindNewDequeue ==
  LET found == cycleFound \/ cur = hw
      atEnd == lastFound \/ cur = last
  IN
  /\ pc = "find"
  /\ cycleFound' = found /\ lastFound' = atEnd
  /\ cycle' = IF found /\ Toggles(cur) THEN 1 - cycle ELSE cycle
  /\ cur' = NextTrb(cur)
  /\ pc' = IF cur' = walkDeq THEN "failed"
           ELSE IF found /\ atEnd THEN "found" ELSE "find"
  /\ UNCHANGED <<ring, dequeue, freed>>

FindNewDequeue ==
  LET found == cycleFound \/ cur = hw
      atEnd == lastFound \/ cur = last
  IN
  /\ pc = "find"
  /\ cycleFound' = found
  /\ IF ~cycleFound /\ found /\ lastFound
     THEN pc' = "found" /\ UNCHANGED <<cur, cycle, lastFound>>
     ELSE /\ lastFound' = atEnd
          /\ cycle' = IF found /\ Toggles(cur) THEN 1 - cycle ELSE cycle
          /\ cur' = NextTrb(cur)
          /\ pc' = IF cur' = walkDeq THEN "failed"
                   ELSE IF found /\ atEnd THEN "found" ELSE "find"
  /\ UNCHANGED <<ring, dequeue, freed>>

(* update_ring_for_set_deq_completion: a dequeue pointer that was left on a  *)
(* link TRB moves to the next segment first.                                 *)
FaultyStepOffLink ==
  /\ pc = "found"
  /\ pc' = "update"
  /\ UNCHANGED <<ring, cur, cycle, cycleFound, lastFound, dequeue, freed>>

StepOffLink ==
  /\ pc = "found"
  /\ dequeue' = IF IsLink(dequeue) THEN NextTrb(dequeue) ELSE dequeue
  /\ pc' = "update"
  /\ UNCHANGED <<ring, cur, cycle, cycleFound, lastFound, freed>>

(* One turn of the loop that follows.                                        *)
UpdateDequeue ==
  LET next == dequeue + 1
      hop == IF IsLink(next) /\ next # cur THEN NextTrb(next) ELSE next
  IN
  /\ pc = "update"
  /\ IF dequeue = cur
     THEN pc' = "done" /\ UNCHANGED <<dequeue, freed>>
     ELSE /\ dequeue' = hop
          /\ IF hop = walkDeq /\ hop # cur
             THEN pc' = "reverted" /\ freed' = 0
             ELSE pc' = "update" /\ freed' = freed + 1
  /\ UNCHANGED <<ring, cur, cycle, cycleFound, lastFound>>

WalkNext == FindNewDequeue \/ StepOffLink \/ UpdateDequeue

WalkSpec == WalkInit /\ [][WalkNext]_walkVars

-----------------------------------------------------------------------------
(* ehub_trb_in_td.  The loop goes through the segments from the one with the *)
(* dequeue pointer until it meets the segment of the TD's last TRB.          *)
Dma(p) == block[SegOf(p)] * WalkPerSeg + (p % WalkPerSeg) + 1

Segment(k) == (SegOf(walkDeq) + k) % Segs
SegFirst(k) == Segment(k) * WalkPerSeg
SegEnd(k) == SegFirst(k) + WalkPerSeg - 1
StartDma(k) == IF k = 0 THEN Dma(walkDeq) ELSE Dma(SegFirst(k))
EndsAt == Min({k \in 0..(Segs - 1) : Segment(k) = SegOf(last)})

FaultyTrbInTd(p) ==
  \E k \in 0..EndsAt : StartDma(k) <= Dma(p) /\ Dma(p) <= Dma(SegEnd(k))

TrbInTd(p) ==
  \/ \E k \in 0..(EndsAt - 1) :
       StartDma(k) <= Dma(p) /\ Dma(p) <= Dma(SegEnd(k))
  \/ IF StartDma(EndsAt) <= Dma(last)
     THEN StartDma(EndsAt) <= Dma(p) /\ Dma(p) <= Dma(last)
     ELSE \/ StartDma(EndsAt) <= Dma(p) /\ Dma(p) <= Dma(SegEnd(EndsAt))
          \/ Dma(SegFirst(EndsAt)) <= Dma(p) /\ Dma(p) <= Dma(last)

-----------------------------------------------------------------------------
(* A partly queued isochronous transfer is taken back: the TRBs from the     *)
(* dequeue pointer's TD up to the enqueue pointer.  queue_trb writes a TRB   *)
(* with the ring's cycle state, the first one with the opposite; inc_enq     *)
(* flips the cycle bit of a link TRB, and the ring's after the last segment. *)
PassedToggle(p) == \E d \in 0..(Distance(walkDeq, p) - 1) : Toggles((walkDeq + d) % N)
RingCycle(p) == IF PassedToggle(p) THEN 1 - hwCycle ELSE hwCycle
Before(p) == 1 - RingCycle(p)     \* a TRB that belongs to the driver
CycleBit(p) ==
  IF Distance(walkDeq, p) >= span \/ p = walkDeq THEN Before(p) ELSE RingCycle(p)

(* td_to_noop with flip_cycle, from the first TRB to the enqueue pointer.    *)
FaultyTdToNoop(p) == IF p = last THEN CycleBit(p) ELSE 1 - CycleBit(p)

TdToNoop(p) == IF p \in {walkDeq, last} THEN CycleBit(p) ELSE 1 - CycleBit(p)

-----------------------------------------------------------------------------
WalkTypeOK ==
  /\ pc \in {"find", "found", "failed", "update", "done", "reverted"}
  /\ cur \in Pos /\ dequeue \in Pos /\ cycle \in {0, 1} /\ freed \in 0..N

(* The new dequeue pointer is behind the TD, or where the device is if that  *)
(* is further on, and comes with the cycle state of that turn of the ring.   *)
FoundIsRight ==
  pc \in {"found", "update", "done"} =>
    LET end == (last + 1) % N
        new == IF Distance(walkDeq, end) < Distance(walkDeq, hw) THEN hw ELSE end
        toggled == \E d \in 0..(Distance(hw, new) - 1) : Toggles((hw + d) % N)
    IN cur = new /\ cycle = IF toggled THEN 1 - hwCycle ELSE hwCycle

(* When the command is done the driver's dequeue pointer is where the        *)
(* device's is, and every TRB passed over counts as free, link TRBs do not.  *)
UpdateIsRight ==
  pc = "done" =>
    /\ dequeue = cur
    /\ freed = Cardinality({d \in 0..(Distance(walkDeq, cur) - 1) :
                              ~IsLink((walkDeq + d) % N)})

(* "If the suspect DMA address is a TRB in this TD, this function returns    *)
(* that TRB's segment. Otherwise it returns 0.", wherever the segments lie.  *)
TrbInTdIsRight ==
  pc = "find" => \A p \in Pos : TrbInTd(p) <=> Distance(walkDeq, p) <= span

(* "That way the hardware won't accidentally start executing bogus TDs":     *)
(* every TRB of a transfer that was taken back belongs to the driver.        *)
TakenBack ==
  pc = "find" /\ ~IsLink(walkDeq) =>
    \A p \in Pos : Distance(walkDeq, p) <= span => TdToNoop(p) = Before(p)

(* Together: each walk along the ring ends with what it looks for, however   *)
(* TD, device and driver lie in the segments, and no loop goes round.        *)
WalksAreRight ==
  /\ WalkTypeOK /\ pc \notin {"failed", "reverted"}
  /\ FoundIsRight /\ UpdateIsRight /\ TrbInTdIsRight /\ TakenBack
=============================================================================
