---------------------------- MODULE TransferRing ----------------------------
(***************************************************************************)
(* A transfer ring in host memory and its copy in the cache of the device. *)
(*                                                                         *)
(* The embedded controller reads TRBs from its own memory.  The driver     *)
(* builds an URB's TRBs in a ring in host memory, hands the first one over *)
(* by its cycle bit, and copies what is new, segment by segment, to the    *)
(* device in cache write URBs; the completion of the last one rings the    *)
(* doorbell.  Link TRBs are also sent when prepare_ring steps over them    *)
(* and when the ring is expanded.                                          *)
(*                                                                         *)
(* URBs are queued under xhci->lock in small steps, in between the worker  *)
(* that handles transfer events, which does not take it, may run.  A TRB   *)
(* is abstracted to its number in the order of queueing, its cycle bit and *)
(* whether it is the last of its TD (TRB_IOC instead of TRB_CHAIN).        *)
(***************************************************************************)
EXTENDS Integers, Sequences, FiniteSets, TLC

CONSTANTS
  PerSeg,     \* TRBS_PER_SEGMENT - 1
  InitSegs,   \* segments of a new ring
  CacheBlocks,\* blocks of device memory, one for each segment
  UrbShapes,  \* possible URBs: the TRBs of each of its TDs
  MaxTrbs     \* bound: TRBs queued in all

UrbSize(u) == LET sum[i \in 0..Len(u)] == IF i = 0 THEN 0 ELSE sum[i - 1] + u[i]
              IN  sum[Len(u)]

MaxUrb == CHOOSE n \in {UrbSize(u) : u \in UrbShapes} :
            \A u \in UrbShapes : UrbSize(u) <= n

ASSUME TransferRingAssumption ==
  /\ PerSeg \in Nat \ {0} /\ InitSegs \in Nat \ {0, 1}
  /\ CacheBlocks \in Nat /\ CacheBlocks >= InitSegs
  /\ \A u \in UrbShapes : u # <<>> /\ \A i \in DOMAIN u : u[i] > 0

Segs == 1..CacheBlocks
LinkOff == PerSeg               \* LINK_TRB_INDEX
Slots == Segs \X (0..LinkOff)

VARIABLES
  host,      \* the TRBs in host memory
  segs,      \* num_segs
  lastSeg,   \* last_seg
  enq,       \* enq_seg and enqueue
  deq,       \* deq_seg and dequeue
  cached,    \* cache_enq_seg and cache_enqueue
  cycle,     \* cycle_state
  free,      \* num_trbs_free
  tds,       \* td_list: the last TRB of each TD, and whether it ends its URB
  urb,       \* the URB being queued: what is left of each TD
  ask,       \* TRBs the running prepare_ring was asked for
  first,     \* start_trb, its number, and start_cycle of the URB being queued
  pipe,      \* cache writes submitted and not completed, in order
  bells,     \* doorbell writes that are on their way
  dev,       \* the TRBs in the device's memory
  at,        \* the device's dequeue pointer and its cycle state
  events,    \* transfer events the worker has not handled
  target,    \* the last TRB of the TD that finish_td is completing
  loaded,    \* what inc_deq has read from num_trbs_free, or -1
  queued,    \* TRBs queued so far
  executed,  \* TRBs the device has executed
  given,     \* URBs given back
  urbs       \* URBs submitted

ringVars == <<segs, lastSeg, cached>>
queueVars == <<tds, urb, ask, first>>
deviceVars == <<dev, at, events>>
counters == <<queued, executed, given, urbs>>

vars == <<host, segs, lastSeg, enq, deq, cached, cycle, free, tds, urb, ask,
          first, pipe, bells, dev, at, events, target, loaded, queued,
          executed, given, urbs>>

(* One TRB; next is 0 in all but link TRBs.                                  *)
Trb(c, n, l) == [cyc |-> c, num |-> n, last |-> l, next |-> 0, toggle |-> FALSE]
Link(c, s, t) == [cyc |-> c, num |-> 0, last |-> FALSE, next |-> s, toggle |-> t]

NoSlot == <<0, 0>>
NoTrb == [slot |-> NoSlot, cyc |-> 0, num |-> 0]

(* Faulty: the cycle bit is 0 whatever the cycle state of the ring is.       *)
FaultyNewSegments(f, l, c, s) ==
  [x \in (f..l) \X (0..LinkOff) |->
     IF x[2] < LinkOff THEN Trb(0, 0, FALSE)
     ELSE Link(0, IF x[1] < l THEN x[1] + 1 ELSE s, FALSE)]

(* The TRBs of new segments f..l that are linked in a row: xhci_segment_alloc *)
(* and xhci_link_segments.  The last one links to s.                         *)
NewSegments(f, l, c, s) ==
  [x \in (f..l) \X (0..LinkOff) |->
     IF x[2] < LinkOff THEN Trb(1 - c, 0, FALSE)
     ELSE Link(1 - c, IF x[1] < l THEN x[1] + 1 ELSE s, FALSE)]

(* xhci_ring_alloc.  LINK_TOGGLE is set in the last link TRB after it was    *)
(* copied to the device.                                                     *)
Init ==
  /\ dev = NewSegments(1, InitSegs, 1, 1)
  /\ host = [dev EXCEPT ![<<InitSegs, LinkOff>>].toggle = TRUE]
  /\ segs = InitSegs /\ lastSeg = InitSegs
  /\ enq = <<1, 0>> /\ deq = <<1, 0>> /\ cached = <<1, 0>>
  /\ cycle = 1 /\ free = InitSegs * PerSeg - 1
  /\ tds = <<>> /\ urb = <<>> /\ ask = 0
  /\ first = NoTrb
  /\ pipe = <<>> /\ bells = 0
  /\ at = [slot |-> <<1, 0>>, cyc |-> 1, run |-> FALSE]
  /\ events = <<>> /\ target = NoSlot /\ loaded = -1
  /\ queued = 0 /\ executed = 0 /\ given = 0 /\ urbs = 0

-----------------------------------------------------------------------------
(* ehub_queue_cache_write: slots of the host ring, as they are now.          *)
CacheWrite(ring, slots, bell) ==
  [data |-> [x \in slots |-> ring[x]], bell |-> bell]

(* Faulty: the TRBs in front of the dequeue pointer and the one that is left *)
(* over are not counted.                                                     *)
FaultyTrbsNeeded(n) == IF free + 1 < n THEN n - free ELSE 0

(* num_trbs_needed.                                                          *)
TrbsNeeded(n) ==
  IF free < n THEN n - free
  ELSE IF free < n + deq[2] THEN n + deq[2] - free
  ELSE 0

(* An URB is submitted: prepare_ring is asked for all its TRBs.              *)
Enqueue(u) ==
  /\ urb = <<>> /\ queued + UrbSize(u) <= MaxTrbs
  /\ urb' = u /\ ask' = UrbSize(u)
  /\ UNCHANGED <<host, ringVars, enq, deq, cycle, free, tds, first, pipe,
                 bells, deviceVars, target, loaded, counters>>

(* ehub_xhci_ring_expansion: the ring is doubled, or more if that is needed; *)
(* xhci_link_rings links the new segments after enq_seg and moves            *)
(* LINK_TOGGLE after it has sent the link TRBs.  The writes are one entry of *)
(* the pipe: the device has no link to the new segments yet.                 *)
ExpandBy(gain) ==
  LET new == LET k == (TrbsNeeded(ask) + PerSeg - 1) \div PerSeg
             IN  IF segs > k THEN segs ELSE k
      fst == segs + 1
      lst == segs + new
      lnk == <<enq[1], LinkOff>>
      linked == [host EXCEPT ![lnk].next = fst]
                  @@ NewSegments(fst, lst, cycle, host[lnk].next)
  IN  /\ ask > 0 /\ TrbsNeeded(ask) > 0 /\ lst <= CacheBlocks
      /\ pipe' = Append(pipe, CacheWrite(linked, (fst..lst) \X (0..LinkOff) \cup {lnk}, FALSE))
      /\ host' = IF enq[1] = lastSeg
                 THEN [linked EXCEPT ![lnk].toggle = FALSE, ![<<lst, LinkOff>>].toggle = TRUE]
                 ELSE linked
      /\ lastSeg' = IF enq[1] = lastSeg THEN lst ELSE lastSeg
      /\ segs' = lst
      /\ free' = free + new * gain
      /\ UNCHANGED <<enq, deq, cached, cycle, queueVars, bells, deviceVars,
                     target, loaded, counters>>

(* Faulty: the link TRBs of the new segments are counted as free.            *)
FaultyExpandRing == ExpandBy(PerSeg + 1)

ExpandRing == ExpandBy(PerSeg)

(* No memory, or no cache block is left: the URB is refused.                 *)
ExpandFails ==
  /\ ask > 0 /\ TrbsNeeded(ask) > 0
  /\ urb' = <<>> /\ ask' = 0
  /\ UNCHANGED <<host, ringVars, enq, deq, cycle, free, tds, first, pipe,
                 bells, deviceVars, target, loaded, counters>>

(* The end of prepare_ring: if the enqueue pointer is on a link TRB, hand it *)
(* over, send it to the device and go on in the next segment.                *)
StepOverLink ==
  IF enq[2] < LinkOff
  THEN UNCHANGED <<host, enq, cycle, pipe>>
  ELSE /\ host' = [host EXCEPT ![enq].cyc = 1 - @]
       /\ cycle' = IF host[enq].toggle THEN 1 - cycle ELSE cycle
       /\ pipe' = Append(pipe, CacheWrite(host', {enq}, FALSE))
       /\ enq' = <<host[enq].next, 0>>

RoomFound ==
  /\ ask > 0 /\ TrbsNeeded(ask) = 0
  /\ StepOverLink
  /\ first' = [slot |-> enq', cyc |-> cycle', num |-> queued + 1]
  /\ ask' = 0 /\ urbs' = urbs + 1
  /\ UNCHANGED <<ringVars, deq, free, tds, urb, bells, deviceVars, target,
                 loaded, queued, executed, given>>

(* The prepare_transfer of a later TD of an isochronous URB.                 *)
NextTd ==
  /\ ask = 0 /\ urb # <<>> /\ Head(urb) > 0 /\ enq[2] = LinkOff
  /\ StepOverLink
  /\ UNCHANGED <<ringVars, deq, free, queueVars, bells, deviceVars, target,
                 loaded, counters>>

(* queue_trb and inc_enq.  The first TRB of the URB gets the wrong cycle     *)
(* bit.  In the middle of a TD a link TRB is handed over, in host memory.    *)
QueueTrb ==
  LET last == Head(urb) = 1
      c    == IF enq = first.slot THEN 1 - first.cyc ELSE cycle
      lnk  == <<enq[1], LinkOff>>
      over == enq[2] + 1 = LinkOff /\ ~last
      put  == [host EXCEPT ![enq] = Trb(c, queued + 1, last)]
  IN  /\ ask = 0 /\ urb # <<>> /\ Head(urb) > 0 /\ enq[2] < LinkOff
      /\ host' = IF over THEN [put EXCEPT ![lnk].cyc = 1 - @] ELSE put
      /\ cycle' = IF over /\ host[lnk].toggle THEN 1 - cycle ELSE cycle
      /\ enq' = IF over THEN <<host[lnk].next, 0>> ELSE <<enq[1], enq[2] + 1>>
      /\ free' = free - 1
      /\ queued' = queued + 1
      /\ urb' = IF ~last THEN [urb EXCEPT ![1] = @ - 1]
                ELSE IF Len(urb) = 1 THEN <<0>> ELSE Tail(urb)
      /\ tds' = IF last THEN Append(tds, [slot |-> enq, end |-> Len(urb) = 1]) ELSE tds
      /\ UNCHANGED <<ringVars, deq, ask, first, pipe, bells, deviceVars,
                     target, loaded, executed, given, urbs>>

(* ehub_find_prev_trb.                                                       *)
PrevTrb(x) ==
  IF x[2] > 0 THEN <<x[1], x[2] - 1>>
  ELSE <<CHOOSE s \in 1..segs : host[<<s, LinkOff>>].next = x[1], LinkOff>>

(* ehub_xhci_cache_copy_from_ring: one write for each segment from           *)
(* cache_enqueue to the TRB before enqueue; the last one has the doorbell.   *)
CacheCopies(ring) ==
  LET end == PrevTrb(enq)
      seg[k \in 0..segs] ==
        IF k = 0 THEN cached[1] ELSE ring[<<seg[k - 1], LinkOff>>].next
      from(k) == IF k = 0 THEN cached[2] ELSE 0
      isLast(k) == seg[k] = end[1] /\ from(k) <= end[2]
      n == CHOOSE k \in 0..segs : isLast(k) /\ \A j \in 0..(k - 1) : ~isLast(j)
  IN  [i \in 1..(n + 1) |->
         CacheWrite(ring,
                    {seg[i - 1]} \X (from(i - 1)..(IF i = n + 1 THEN end[2] ELSE LinkOff)),
                    i = n + 1)]

(* giveback_first_trb: the first TRB gets its cycle bit, then the copy.      *)
HandOver(copied) ==
  /\ ask = 0 /\ urb = <<0>>
  /\ host' = [host EXCEPT ![first.slot].cyc = first.cyc]
  /\ pipe' = pipe \o CacheCopies(copied)
  /\ cached' = enq
  /\ urb' = <<>>
  /\ first' = NoTrb
  /\ UNCHANGED <<segs, lastSeg, enq, deq, cycle, free, tds, ask, bells,
                 deviceVars, target, loaded, counters>>

(* Faulty: the copy is made before the first TRB gets its cycle bit.         *)
FaultyGiveback == HandOver(host)

Giveback == HandOver([host EXCEPT ![first.slot].cyc = first.cyc])

-----------------------------------------------------------------------------
(* URB_CompletionRoutine_Cache: the write is done; the last one of a copy    *)
(* rings the doorbell.                                                       *)
CacheWriteCompletes ==
  /\ pipe # <<>>
  /\ pipe' = Tail(pipe)
  /\ dev' = Head(pipe).data @@ dev
  /\ bells' = IF Head(pipe).bell THEN bells + 1 ELSE bells
  /\ UNCHANGED <<host, ringVars, enq, deq, cycle, free, queueVars, at, events,
                 target, loaded, counters>>

(* The doorbell reaches the device.                                          *)
Doorbell ==
  /\ bells > 0
  /\ bells' = bells - 1
  /\ at' = [at EXCEPT !.run = TRUE]
  /\ UNCHANGED <<host, ringVars, enq, deq, cycle, free, queueVars, pipe, dev,
                 events, target, loaded, counters>>

(* The device owns the TRB at its dequeue pointer.                           *)
Owned == dev[at.slot].cyc = at.cyc

(* The device follows a link TRB, executes a TRB and reports the end of a    *)
(* TD, or stops where it owns nothing.                                       *)
DeviceLink ==
  /\ at.run /\ Owned /\ at.slot[2] = LinkOff
  /\ at' = [at EXCEPT !.slot = <<dev[at.slot].next, 0>>,
                      !.cyc = IF dev[at.slot].toggle THEN 1 - @ ELSE @]
  /\ UNCHANGED <<host, ringVars, enq, deq, cycle, free, queueVars, pipe, bells,
                 dev, events, target, loaded, counters>>

DeviceTrb ==
  /\ at.run /\ Owned /\ at.slot[2] < LinkOff
  /\ executed' = executed + 1
  /\ at' = [at EXCEPT !.slot[2] = @ + 1]
  /\ events' = IF dev[at.slot].last THEN Append(events, at.slot) ELSE events
  /\ UNCHANGED <<host, ringVars, enq, deq, cycle, free, queueVars, pipe, bells,
                 dev, target, loaded, queued, given, urbs>>

DeviceStops ==
  /\ at.run /\ ~Owned
  /\ at' = [at EXCEPT !.run = FALSE]
  /\ UNCHANGED <<host, ringVars, enq, deq, cycle, free, queueVars, pipe, bells,
                 dev, events, target, loaded, counters>>

-----------------------------------------------------------------------------
(* handle_tx_event finds the TD the event belongs to and calls finish_td.    *)
TransferEvent ==
  /\ events # <<>> /\ target = NoSlot
  /\ tds # <<>> /\ Head(tds).slot = Head(events)
  /\ target' = Head(events) /\ events' = Tail(events)
  /\ UNCHANGED <<host, ringVars, enq, deq, cycle, free, queueVars, pipe, bells,
                 dev, at, loaded, counters>>

(* inc_deq reads num_trbs_free ...                                           *)
IncDeqLoad ==
  /\ target # NoSlot /\ loaded = -1
  /\ loaded' = free
  /\ UNCHANGED <<host, ringVars, enq, deq, cycle, free, queueVars, pipe, bells,
                 deviceVars, target, counters>>

(* ... and writes it back; the dequeue pointer steps over a link TRB.  After *)
(* the last TRB finish_td unlinks the TD and gives back a complete URB.      *)
IncDeqBy(gain, unlinked) ==
  /\ loaded # -1
  /\ loaded' = -1
  /\ free' = loaded + gain
  /\ deq' = IF deq[2] + 1 = LinkOff THEN <<host[<<deq[1], LinkOff>>].next, 0>>
                                    ELSE <<deq[1], deq[2] + 1>>
  /\ IF deq = target
     THEN /\ target' = NoSlot /\ tds' = unlinked
          /\ given' = IF Head(tds).end THEN given + 1 ELSE given
     ELSE UNCHANGED <<target, tds, given>>
  /\ UNCHANGED <<host, ringVars, enq, cycle, urb, ask, first, pipe, bells,
                 deviceVars, queued, executed, urbs>>

(* Faulty: the TD is not unlinked.                                           *)
FaultyIncDeqKeep == IncDeqBy(1, tds)

IncDeqStore == IncDeqBy(1, Tail(tds))

-----------------------------------------------------------------------------
QueueStep == ExpandRing \/ RoomFound \/ NextTd \/ QueueTrb \/ Giveback

DeviceStep == DeviceLink \/ DeviceTrb \/ DeviceStops

WorkerStep == TransferEvent \/ IncDeqLoad \/ IncDeqStore

(* inc_deq is taken not to overlap with the queueing of an URB.              *)
Next ==
  \/ loaded = -1 /\ (QueueStep \/ ExpandFails \/ \E u \in UrbShapes : Enqueue(u))
  \/ CacheWriteCompletes
  \/ Doorbell
  \/ DeviceStep
  \/ WorkerStep

Spec == Init /\ [][Next]_vars

(* The thread that queues an URB goes on, the USB stack completes URBs, the  *)
(* device works and the worker handles events.                               *)
Fairness ==
  /\ WF_vars(loaded = -1 /\ (QueueStep \/ ExpandFails))
  /\ WF_vars(CacheWriteCompletes)
  /\ WF_vars(Doorbell)
  /\ WF_vars(DeviceStep)
  /\ WF_vars(WorkerStep)

FairSpec == Spec /\ Fairness

-----------------------------------------------------------------------------
(* Types of the state.                                                       *)
Trbs == [cyc : {0, 1}, num : 0..MaxTrbs, last : BOOLEAN, next : 0..CacheBlocks,
         toggle : BOOLEAN]

TransferTypeOK ==
  /\ segs \in Segs /\ lastSeg \in 1..segs
  /\ host \in [(1..segs) \X (0..LinkOff) -> Trbs]
  /\ DOMAIN dev \subseteq DOMAIN host /\ \A x \in DOMAIN dev : dev[x] \in Trbs
  /\ {enq, deq, cached, at.slot} \subseteq Slots
  /\ cycle \in {0, 1} /\ at.cyc \in {0, 1}
  /\ free \in Nat
  /\ \A i \in DOMAIN pipe : DOMAIN pipe[i].data \subseteq DOMAIN host

(* A TRB the device owns is the next one to be executed, and was handed over *)
(* by giveback_first_trb: no stale TRB of an earlier round, none that is     *)
(* half built, none left out, whatever segments the ring was expanded by.    *)
(* A link TRB it owns leads to a segment the device knows.                   *)
ExecutesInOrder ==
  Owned => IF at.slot[2] = LinkOff THEN <<dev[at.slot].next, 0>> \in DOMAIN dev
           ELSE /\ dev[at.slot].num = executed + 1
                /\ first # NoTrb => executed + 1 < first.num

(* A TRB the device has yet to execute is not overwritten.                   *)
NothingOverwritten ==
  \A n \in (executed + 1)..queued : \E x \in DOMAIN host : host[x].num = n

(* An event belongs to the oldest TD: trb_in_td finds it at once.            *)
EventsMatchTds ==
  target = NoSlot /\ events # <<>> => tds # <<>> /\ Head(tds).slot = Head(events)

(* Every URB that was queued is executed and given back: no doorbell is lost *)
(* and the device waits at no TRB that was handed over.  (URBs are given     *)
(* back in order, and MaxTrbs bounds their number.)                          *)
UrbsComplete == []<>(given = urbs)

(* The counters of RingAccounting: positions from the start of deq_seg.      *)
Hops ==
  LET seg[k \in 0..segs] ==
        IF k = 0 THEN deq[1] ELSE host[<<seg[k - 1], LinkOff>>].next
  IN  CHOOSE k \in 0..segs : seg[k] = enq[1] /\ \A j \in 0..(k - 1) : seg[j] # enq[1]

Accounting == INSTANCE RingAccounting WITH
  MaxTotal <- CacheBlocks * PerSeg,
  Smp      <- FALSE,
  total    <- segs * PerSeg,
  enq      <- (Hops * PerSeg + enq[2]) % (segs * PerSeg),
  enqOff   <- enq[2],
  deq      <- deq[2],
  todo     <- IF ask > 0 THEN 0 ELSE UrbSize(urb)

(* The ring in memory, with its segments and link TRBs, implements the       *)
(* bookkeeping of RingAccounting.                                            *)
ImplementsAccounting == Accounting!Spec

(* Together: the driver's ring and the device's copy of it belong together.  *)
RingsAgree == TransferTypeOK /\ NothingOverwritten /\ EventsMatchTds
=============================================================================
