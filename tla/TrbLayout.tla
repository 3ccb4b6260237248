----------------------------- MODULE TrbLayout -----------------------------
(***************************************************************************)
(* How a transfer is cut into TRBs: ehub_xhci_queue_bulk_tx (also used for *)
(* interrupt transfers), queue_bulk_sg_tx, ehub_xhci_queue_ctrl_tx and the *)
(* loop over one packet in xhci_queue_isoc_tx.  Each first counts the TRBs *)
(* it is going to need, then fills one per turn of a loop; the count says  *)
(* which TRB is the last one.                                              *)
(*                                                                         *)
(* Addresses are byte offsets from a boundary.  Boundary stands for        *)
(* TRB_MAX_BUFF_SIZE, Block for EHUB_CACHE_BLOCK_SIZE (the buffers of an   *)
(* isochronous OUT endpoint are copied to blocks of the device's memory).  *)
(***************************************************************************)
EXTENDS Integers, Sequences, FiniteSetsExt

CONSTANTS
  Boundary,   \* TRB_MAX_BUFF_SIZE
  Block,      \* EHUB_CACHE_BLOCK_SIZE
  MaxPacket,  \* wMaxPacketSize
  SizeCap,    \* 31: the largest TD size
  Unit,       \* 1024: unit of the TD size before xHCI 1.0
  MaxBytes,   \* bound: length of a transfer
  MaxStart,   \* bound: first address of a buffer
  Misaligned  \* how far a buffer in the device cache may be off a block

ASSUME LayoutAssumption ==
  /\ {Boundary, Block, MaxPacket, Unit} \subseteq Nat \ {0}
  /\ {SizeCap, MaxBytes, MaxStart, Misaligned} \subseteq Nat

VARIABLES
  urbKind,     \* the queueing function
  request,  \* the buffer's entries <<address, length>>, the length, the packet's
            \* offset, max_buffer_size, and hci_version >= 0x100
  left,     \* num_trbs (trbs_per_td - j for isochronous transfers)
  urbBytes,    \* running_total
  entry,    \* index of the scatter-gather entry
  addr,     \* addr
  entryLeft,\* this_sg_len
  trbs,     \* the TRBs filled so far
  outcome   \* "counting", "filling", "queued" or "refused"

layoutVars == <<urbKind, request, left, urbBytes, entry, addr, entryLeft, trbs, outcome>>

CeilDiv(a, b) == (a + b - 1) \div b
FaultyToBoundary(a, size) == size
ToBoundary(a, size) == size - (a % size)
Least(a, b) == IF a < b THEN a ELSE b

Entries(n) == [1 .. n -> (0 .. MaxStart) \X (1 .. MaxBytes)]
EntryBytes(bufs) == IF Len(bufs) = 1 THEN bufs[1][2]
                                 ELSE bufs[1][2] + bufs[2][2]

LayoutInit ==
  /\ urbKind \in {"bulk", "sg", "ctrl", "isoc"}
  /\ \E bufs \in CASE urbKind = "sg" -> Entries(1) \cup Entries(2)
                   [] urbKind = "isoc" -> [1 .. 1 -> (0 .. Misaligned) \X {MaxBytes}]
                   [] OTHER -> [1 .. 1 -> (0 .. MaxStart) \X {MaxBytes}],
        length \in 0 .. MaxBytes, offset \in 0 .. MaxBytes,
        size \in IF urbKind = "isoc" THEN {Block, Boundary} ELSE {Boundary},
        v1 \in BOOLEAN :
       /\ length <= EntryBytes(bufs)
       /\ urbKind = "sg" => length > 0
       /\ urbKind # "isoc" => offset = 0
       /\ urbKind = "isoc" => offset + length <= MaxBytes
       /\ request = [bufs |-> bufs, length |-> length, offset |-> offset,
                     size |-> size, v1 |-> v1]
       /\ addr = bufs[1][1] + offset
       /\ entryLeft = bufs[1][2]
  /\ left = 0 /\ urbBytes = 0 /\ entry = 1 /\ trbs = <<>>
  /\ outcome = "counting"

-----------------------------------------------------------------------------
(* The number of TRBs.                                                       *)
Chunks(start, bytes) ==
  LET first == ToBoundary(start, Boundary) % Boundary
      more == IF first < bytes THEN CeilDiv(bytes - first, Boundary) ELSE 0
  IN (IF first # 0 THEN 1 ELSE 0) + more

CountBulk == Chunks(addr, request.length) +
             (IF request.length = 0 /\ addr % Boundary = 0 THEN 1 ELSE 0)

(* count_sg_trbs_needed: stop at the entry that holds the last byte.         *)
FaultyCountSg ==
  LET b == request.bufs IN
  Chunks(b[1][1], b[1][2]) + (IF Len(b) = 2 THEN Chunks(b[2][1], b[2][2]) ELSE 0)

CountSg ==
  LET b == request.bufs
      rest == request.length - b[1][2]
  IN Chunks(b[1][1], Least(b[1][2], request.length)) +
     (IF Len(b) = 2 /\ rest > 0 THEN Chunks(b[2][1], Least(b[2][2], rest)) ELSE 0)

CountCtrl == IF request.length > 0 THEN 3 ELSE 2

(* count_isoc_trbs_needed; the handle has the alignment of the buffer.       *)
CountIsoc == Max({1, CeilDiv(request.length + (addr % request.size), request.size)})

CountTrbs ==
  /\ outcome = "counting" /\ outcome' = "filling"
  /\ left' = CASE urbKind = "bulk" -> CountBulk
               [] urbKind = "sg" -> CountSg
               [] urbKind = "ctrl" -> CountCtrl
               [] urbKind = "isoc" -> CountIsoc
  /\ UNCHANGED <<urbKind, request, urbBytes, entry, addr, entryLeft, trbs>>

-----------------------------------------------------------------------------
(* xhci_td_remainder: kilobytes that remain, this TRB included, at most 31.  *)
TdRemainder(bytes) == Least(SizeCap, bytes \div Unit)

(* xhci_v1_0_td_remainder: packets that remain after this TRB, at most 31.   *)
FaultyTdSize(bytes) ==
  IF ~request.v1 THEN TdRemainder(request.length - urbBytes)
  ELSE IF urbBytes = 0 /\ bytes = 0 THEN 0
  ELSE Least(SizeCap, CeilDiv(request.length, MaxPacket) -
                      (urbBytes + bytes) \div MaxPacket + 1)

TdSize(bytes) ==
  IF ~request.v1 THEN TdRemainder(request.length - urbBytes)
  ELSE IF left = 1 \/ (urbBytes = 0 /\ bytes = 0) THEN 0
  ELSE Least(SizeCap, CeilDiv(request.length, MaxPacket) -
                      (urbBytes + bytes) \div MaxPacket)

(* queue_trb for the next TRB: chained unless it is the last one.            *)
Trb(type, at, bytes, size) ==
  [type |-> type, addr |-> at, len |-> bytes, size |-> size,
   chain |-> (left > 1 /\ urbKind # "ctrl"), ioc |-> (left = 1)]

Fill(type, at, bytes, size) ==
  /\ trbs' = Append(trbs, Trb(type, at, bytes, size))
  /\ left' = left - 1

FaultyFinished(now) == now + 1 >= request.length
Finished(now) == now >= request.length

(* One turn of the loop of ehub_xhci_queue_bulk_tx: only the first TRB can   *)
(* end at a boundary that is nearer than TRB_MAX_BUFF_SIZE.                  *)
QueueBulk ==
  /\ urbKind = "bulk" /\ outcome = "filling"
  /\ LET room == IF urbBytes = 0 THEN ToBoundary(addr, Boundary) ELSE Boundary
         bytes == Least(room, request.length - urbBytes)
     IN /\ Fill("normal", addr, bytes, TdSize(bytes))
        /\ urbBytes' = urbBytes + bytes
        /\ addr' = addr + bytes
        /\ outcome' = IF Finished(urbBytes + bytes) THEN "queued" ELSE "filling"
  /\ UNCHANGED <<urbKind, request, entry, entryLeft>>

(* One turn of the loop of queue_bulk_sg_tx.                                 *)
QueueSg ==
  /\ urbKind = "sg" /\ outcome = "filling"
  /\ LET bytes == Min({ToBoundary(addr, Boundary), entryLeft,
                       request.length - urbBytes})
         next == entryLeft = bytes
         more == entry < Len(request.bufs)
     IN /\ Fill("normal", addr, bytes, TdSize(bytes))
        /\ urbBytes' = urbBytes + bytes
        /\ entry' = IF next /\ more THEN entry + 1 ELSE entry
        /\ addr' = IF next /\ more THEN request.bufs[entry + 1][1] ELSE addr + bytes
        /\ entryLeft' = IF next /\ more THEN request.bufs[entry + 1][2]
                        ELSE entryLeft - bytes
        /\ outcome' = IF (next /\ ~more) \/ Finished(urbBytes + bytes)
                      THEN "queued" ELSE "filling"
  /\ UNCHANGED <<urbKind, request>>

(* Setup, data (when there is some) and status, each a TD stage of its own.  *)
QueueCtrl ==
  /\ urbKind = "ctrl" /\ outcome = "filling"
  /\ LET stage == IF trbs = <<>> THEN "setup"
                  ELSE IF left > 1 THEN "data" ELSE "status"
         bytes == IF stage = "data" THEN request.length ELSE 0
     IN /\ Fill(stage, addr, bytes, IF stage = "data" THEN TdRemainder(bytes) ELSE 0)
        /\ urbBytes' = urbBytes + bytes
        /\ outcome' = IF stage = "status" THEN "queued" ELSE "filling"
  /\ UNCHANGED <<urbKind, request, entry, addr, entryLeft>>

(* One turn of the inner loop of xhci_queue_isoc_tx; it runs as often as the *)
(* TRBs were counted, and the length is compared afterwards.                 *)
QueueIsoc ==
  /\ urbKind = "isoc" /\ outcome = "filling"
  /\ LET bytes == Least(ToBoundary(addr, request.size), request.length - urbBytes)
     IN /\ Fill(IF trbs = <<>> THEN "isoc" ELSE "normal", addr, bytes,
                TdSize(bytes))
        /\ urbBytes' = urbBytes + bytes
        /\ addr' = addr + bytes
        /\ outcome' = IF left > 1 THEN "filling"
                      ELSE IF urbBytes + bytes = request.length THEN "queued"
                      ELSE "refused"
  /\ UNCHANGED <<urbKind, request, entry, entryLeft>>

LayoutNext == CountTrbs \/ QueueBulk \/ QueueSg \/ QueueCtrl \/ QueueIsoc
LayoutSpec == LayoutInit /\ [][LayoutNext]_layoutVars

-----------------------------------------------------------------------------
(* ehub_xhci_get_data_buffer_addr: the byte of the device's blocks that byte *)
(* i of a TRB is taken from; ehub_xhci_cache_block_allocate_urb has copied   *)
(* byte k of the buffer to byte k of the blocks, in order.                   *)
FaultyCachePlace(trb, i) ==
  LET base == request.bufs[1][1]
  IN ((trb.addr - base) \div Block) * Block + i

CachePlace(trb, i) ==
  LET base == request.bufs[1][1]
  IN ((trb.addr - base) \div Block) * Block + (trb.addr % Block) + i

-----------------------------------------------------------------------------
Queued == outcome = "queued"
DataTrbs == SelectSeq(trbs, LAMBDA t : t.type \notin {"setup", "status"})

(* The count made before the loop is the number of TRBs the loop fills:      *)
(* check_trb_math has nothing to report, the isochronous length check does   *)
(* not fail, and the last TRB, and no other, interrupts and ends the chain.  *)
CountIsRight ==
  /\ outcome # "refused"
  /\ left >= 0
  /\ Queued => /\ left = 0 /\ urbBytes = request.length
               /\ \A i \in DOMAIN trbs :
                    /\ trbs[i].ioc <=> i = Len(trbs)
                    /\ trbs[i].chain <=> i < Len(trbs) /\ urbKind # "ctrl"

(* The bytes of the request, in order, each once.                            *)
Bytes(t) == [i \in 1 .. t.len |-> t.addr + i - 1]
RequestBytes ==
  LET b == request.bufs
      ofEntry(k, from, n) == [i \in 1 .. n |-> b[k][1] + from + i - 1]
      first == Least(b[1][2] - request.offset, request.length)
  IN ofEntry(1, request.offset, first) \o
     (IF Len(b) = 2 THEN ofEntry(2, 0, request.length - first) ELSE <<>>)

RECURSIVE AllBytes(_)
AllBytes(s) == IF s = <<>> THEN <<>> ELSE Bytes(Head(s)) \o AllBytes(Tail(s))

(* The TRBs of a transfer cover its buffer, entry by entry.                  *)
CoversBuffer == Queued => AllBytes(DataTrbs) = RequestBytes

(* "TRBs buffers can't cross 64KB boundaries" (queue_bulk_sg_tx); those of   *)
(* the device cache do not cross a block.                                    *)
WithinBoundary ==
  urbKind # "ctrl" => \A i \in DOMAIN trbs :
                     (trbs[i].addr % request.size) + trbs[i].len <= request.size

(* "The last TRB in a TD must have the TD size set to zero"; before it, the  *)
(* TD size is positive as long as a packet is outstanding and never grows    *)
(* (xhci_v1_0_td_remainder).                                                 *)
TdSizeFalls ==
  urbKind # "ctrl" /\ Queued =>
    /\ request.v1 => trbs[Len(trbs)].size = 0
    /\ \A i \in 1 .. Len(trbs) - 1 :
         /\ trbs[i].size >= trbs[i + 1].size
         /\ request.v1 => trbs[i].size > 0

(* What the controller reads from the device's blocks for byte i of a TRB    *)
(* is the byte of the buffer that the TRB stands for.                        *)
DataInPlace ==
  urbKind = "isoc" /\ request.size = Block =>
    \A k \in DOMAIN trbs : \A i \in 0 .. trbs[k].len - 1 :
      CachePlace(trbs[k], i) = trbs[k].addr + i - request.bufs[1][1]

(* Together: the TRBs of an URB are as many as were counted, describe the    *)
(* whole buffer and nothing else, and can be executed.                       *)
LayoutIsRight ==
  CountIsRight /\ CoversBuffer /\ WithinBoundary /\ TdSizeFalls /\ DataInPlace
=============================================================================
