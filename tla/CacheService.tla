---------------------------- MODULE CacheService ----------------------------
(***************************************************************************)
(* The memory of the device and the writes into it (xhci-ehub.c).  Blocks  *)
(* of that memory hold the segments of transfer rings and the data of      *)
(* isochronous OUT URBs.  A write takes a write context (an URB with a     *)
(* buffer) from a list, copies the data into it and submits it; the        *)
(* completion routine rings the doorbell when the write was the last one   *)
(* of a TD and puts the context back.  Doorbells are URBs of their own.    *)
(*                                                                         *)
(* Actors: URB submission (under xhci->lock, one at a time), a thread that *)
(* allocates and frees a ring segment, the completion routines, the        *)
(* controller, and the worker that gives URBs back.  The free blocks are a *)
(* queue.  The other lists are the sets of their members: write contexts   *)
(* are all alike, so that one of the free ones stands for any.             *)
(***************************************************************************)
EXTENDS Integers, Sequences, FiniteSets, Functions

CONSTANTS
  NumBlocks,     \* EHUB_CACHE_NUMBER_OF_BLOCKS
  Isoc,          \* isochronous URBs, each submitted once
  Needs,         \* Needs[u]: the blocks URB u needs
  FirstContexts, \* EHUB_CACHE_QUEUE_ENTRIES
  GrowBy,        \* entries added by ehub_xhci_cache_work_expand
  MaxContexts,   \* bound: write contexts
  MaxSegments,   \* bound: allocations of a segment
  MaxFaults      \* bound: transfers, submissions and allocations that fail

ASSUME CacheAssumption ==
  /\ Needs \in [Isoc -> Nat \ {0}]
  /\ {NumBlocks, FirstContexts, GrowBy, MaxContexts, MaxSegments, MaxFaults} \subseteq Nat
  /\ FirstContexts <= MaxContexts

VARIABLES
  freeBlocks,  \* cache_list_free
  usedBlocks,  \* cache_list_used
  counts,      \* number_of_caches_free and number_of_caches_used
  cacheLock,   \* cache_list_lock is held by a call that has returned
  uBlocks,     \* urb_priv->EhubDataCacheBlock, cache_block_cnt of them
  uNext,       \* next block to write (i + 1 of the loop)
  uPhase,      \* where the submission of an URB stands
  segment,     \* the segment's block, or 0, and how many were asked for
  made,        \* contexts created so far
  freeCtx,     \* cache_queue_free
  usedCtx,     \* cache_queue_used
  returning,   \* contexts whose completion routine is running
  write,       \* what a context writes: block, content, ring_doorbell
  cachePipe,   \* submitted writes, oldest first
  bells,       \* doorbell_list_free (a number) and doorbells on their way
  cacheMemory, \* contents of the device's blocks
  landed,      \* URBs whose TRBs are in the device's copy of the ring
  executing,   \* the endpoint's doorbell was rung
  executed,    \* URBs the controller has executed
  dead,        \* DEVICECONTEXT_ErrorCheck fails
  lost,        \* failed transfers so far
  starved,     \* failed allocations so far
  freed        \* what ehub_xhci_cache_destroy freed

blockVars == <<freeBlocks, usedBlocks, counts, cacheLock>>
ctxVars == <<made, freeCtx, usedCtx, returning, write, cachePipe, starved>>
deviceVars == <<cacheMemory, landed, executing, executed>>
cacheVars == <<blockVars, uBlocks, uNext, uPhase, segment, ctxVars, bells, deviceVars,
               dead, lost, freed>>

Blocks == 1 .. NumBlocks
Contexts == 1 .. MaxContexts
MayFail == ~dead /\ lost + starved < MaxFaults
NoWrite == [block |-> 0, content |-> <<"none", 0>>, bell |-> FALSE]

(* ehub_xhci_cache_create; the budgets of the actors may be spent already.   *)
CacheInit ==
  /\ freeBlocks = [b \in Blocks |-> b] /\ usedBlocks = {}
  /\ counts = [free |-> NumBlocks, used |-> 0]
  /\ cacheLock = FALSE
  /\ uBlocks = [u \in Isoc |-> <<>>] /\ uPhase \in [Isoc -> {"new", "returned"}]
  /\ segment \in [block : {0}, asked : {0, MaxSegments}]
  /\ uNext = [u \in Isoc |-> 1] /\ made = FirstContexts
  /\ freeCtx = 1 .. FirstContexts /\ usedCtx = {} /\ returning = {}
  /\ write = [c \in Contexts |-> NoWrite] /\ cachePipe = <<>>
  /\ bells = [free |-> 0, busy |-> 0, sent |-> 0]
  /\ cacheMemory = [b \in Blocks |-> <<"none", 0>>] /\ landed = {} /\ executing = FALSE
  /\ executed = {} /\ dead = FALSE /\ lost = 0 /\ starved = 0
  /\ freed = [done |-> FALSE, blocks |-> {}, ctxs |-> {}]

-----------------------------------------------------------------------------
(* Writing to the device.                                                    *)

(* ehub_xhci_cache_work_expand: as many new entries as memory allows.        *)
Grown(n) == freeCtx \cup (made + 1 .. made + n)
GrowSizes ==
  IF freeCtx # {} THEN {0}
  ELSE {n \in 0 .. GrowBy : /\ made + n <= MaxContexts
                            /\ n < GrowBy => MayFail}

(* ehub_queue_cache_write with ehub_get_cache_work_context: the free list is *)
(* extended when it is empty; -ENOBUFS when nothing could be added.          *)
NoContext(n) == freeCtx = {} /\ n = 0

(* The entry at the head of the free list; entries are interchangeable, so   *)
(* the order of that list is left out.                                       *)
Taken(n) == CHOOSE c \in Grown(n) : TRUE

FaultyTakeContext(n, w) ==
  /\ made' = made + n
  /\ freeCtx' = Grown(n)
  /\ usedCtx' = usedCtx \cup {Taken(n)}
  /\ write' = [write EXCEPT ![Taken(n)] = w]

TakeContext(n, w) ==
  /\ made' = made + n
  /\ freeCtx' = Grown(n) \ {Taken(n)}
  /\ usedCtx' = usedCtx \cup {Taken(n)}
  /\ write' = [write EXCEPT ![Taken(n)] = w]

(* EMBEDDED_CACHE_Write copies the data and submits the URB.  A submission   *)
(* that fails sets EmbeddedCacheWriteError, and the context stays where it   *)
(* is.  The result is the status that the caller sees.                       *)
QueueCacheWrite(w, status) ==
  \/ /\ dead /\ status = "error"
     /\ UNCHANGED <<ctxVars, dead, lost>>
  \/ /\ ~dead
     /\ \E n \in GrowSizes :
          /\ starved' = IF freeCtx = {} /\ n < GrowBy THEN starved + 1 ELSE starved
          /\ IF NoContext(n)
             THEN /\ status = "error"
                  /\ UNCHANGED <<made, freeCtx, usedCtx, write, cachePipe, dead, lost>>
             ELSE /\ TakeContext(n, w)
                  /\ \/ /\ status = "ok"
                        /\ cachePipe' = Append(cachePipe, Taken(n))
                        /\ UNCHANGED <<dead, lost>>
                     \/ /\ status = "error" /\ MayFail
                        /\ dead' = TRUE /\ lost' = lost + 1
                        /\ UNCHANGED cachePipe
     /\ UNCHANGED returning

-----------------------------------------------------------------------------
(* Blocks.                                                                   *)
First(k) == SubSeq(freeBlocks, 1, k)

Take(k) ==
  /\ freeBlocks' = SubSeq(freeBlocks, k + 1, Len(freeBlocks))
  /\ usedBlocks' = usedBlocks \cup Range(First(k))
  /\ counts' = [free |-> counts.free - k, used |-> counts.used + k]

Give(blocks) ==
  /\ freeBlocks' = freeBlocks \o blocks
  /\ usedBlocks' = usedBlocks \ Range(blocks)
  /\ counts' = [free |-> counts.free + Len(blocks), used |-> counts.used - Len(blocks)]

(* ehub_xhci_cache_block_allocate_segment: nothing when no block is free;    *)
(* the block goes back to the end of the list when its contents cannot be    *)
(* written.                                                                  *)
AllocateSegment ==
  /\ segment.block = 0 /\ segment.asked < MaxSegments
  /\ ~cacheLock /\ ~freed.done /\ freeBlocks # <<>>
  /\ LET b == Head(freeBlocks)
         w == [block |-> b, content |-> <<"segment", 0>>, bell |-> FALSE]
     IN \/ /\ QueueCacheWrite(w, "ok")
           /\ Take(1) /\ segment' = [block |-> b, asked |-> segment.asked + 1]
        \/ /\ QueueCacheWrite(w, "error")
           /\ segment' = [segment EXCEPT !.asked = @ + 1]
           /\ freeBlocks' = Append(Tail(freeBlocks), b)
           /\ UNCHANGED <<usedBlocks, counts>>
  /\ UNCHANGED <<cacheLock, uBlocks, uNext, uPhase, bells, deviceVars, freed>>

(* ehub_xhci_cache_block_free, when the ring is freed.                       *)
FreeSegment ==
  /\ segment.block # 0 /\ ~cacheLock
  /\ Give(<<segment.block>>) /\ segment' = [segment EXCEPT !.block = 0]
  /\ UNCHANGED <<cacheLock, uBlocks, uNext, uPhase, ctxVars, bells, deviceVars, dead,
                 lost, freed>>

(* xhci->lock admits one submission at a time.                               *)
Submitting(u) == uPhase[u] \notin {"new", "queued", "returned"}

(* The first half of ehub_xhci_cache_block_allocate_urb.  When too few       *)
(* blocks are free it leaves without releasing cache_list_lock.              *)
FaultyAllocateUrb(u) ==
  /\ uPhase[u] = "new" /\ ~cacheLock /\ ~freed.done
  /\ \A v \in Isoc : ~Submitting(v)
  /\ IF counts.free <= Needs[u]
     THEN /\ cacheLock' = TRUE
          /\ uPhase' = [uPhase EXCEPT ![u] = "failed"]
          /\ UNCHANGED <<freeBlocks, usedBlocks, counts, uBlocks>>
     ELSE /\ Take(Needs[u])
          /\ uBlocks' = [uBlocks EXCEPT ![u] = First(Needs[u])]
          /\ uPhase' = [uPhase EXCEPT ![u] = "data"]
          /\ UNCHANGED cacheLock
  /\ UNCHANGED <<uNext, segment, ctxVars, bells, deviceVars, dead, lost, freed>>

AllocateUrb(u) ==
  /\ uPhase[u] = "new" /\ ~cacheLock /\ ~freed.done
  /\ \A v \in Isoc : ~Submitting(v)
  /\ IF counts.free < Needs[u]
     THEN /\ cacheLock' = TRUE
          /\ uPhase' = [uPhase EXCEPT ![u] = "failed"]
          /\ UNCHANGED <<freeBlocks, usedBlocks, counts, uBlocks>>
     ELSE /\ Take(Needs[u])
          /\ uBlocks' = [uBlocks EXCEPT ![u] = First(Needs[u])]
          /\ uPhase' = [uPhase EXCEPT ![u] = "data"]
          /\ UNCHANGED cacheLock
  /\ UNCHANGED <<uNext, segment, ctxVars, bells, deviceVars, dead, lost, freed>>

(* ehub_xhci_cache_block_free_by_urb.                                        *)
FaultyFreeByUrb(u) ==
  Give(uBlocks[u]) /\ UNCHANGED <<cacheLock, uBlocks>>

FreeByUrb(u) ==
  /\ Give(uBlocks[u])
  /\ uBlocks' = [uBlocks EXCEPT ![u] = <<>>]
  /\ UNCHANGED cacheLock

(* The second half: one write per block.  An error frees all of them, and    *)
(* ehub_xhci_urb_enqueue frees the URB's private data.                       *)
DataWrite(u) == [block |-> uBlocks[u][uNext[u]], content |-> <<u, uNext[u]>>,
                 bell |-> FALSE]

WriteData(u) ==
  /\ uPhase[u] = "data" /\ ~cacheLock
  /\ \/ /\ QueueCacheWrite(DataWrite(u), "ok")
        /\ uNext' = [uNext EXCEPT ![u] = @ + 1]
        /\ uPhase' = [uPhase EXCEPT ![u] = IF uNext[u] = Needs[u] THEN "trbs" ELSE "data"]
        /\ UNCHANGED <<blockVars, uBlocks>>
     \/ /\ QueueCacheWrite(DataWrite(u), "error")
        /\ FreeByUrb(u)
        /\ uPhase' = [uPhase EXCEPT ![u] = "failed"]
        /\ UNCHANGED uNext
  /\ UNCHANGED <<segment, bells, deviceVars, freed>>

(* ehub_xhci_urb_free_priv after an error.                                   *)
SubmitFails(u) ==
  /\ uPhase[u] = "failed" /\ ~cacheLock
  /\ FreeByUrb(u)
  /\ uPhase' = [uPhase EXCEPT ![u] = "returned"]
  /\ UNCHANGED <<uNext, segment, ctxVars, bells, deviceVars, dead, lost, freed>>

(* ehub_xhci_cache_copy_from_ring for the URB's TRBs; the URB is accepted    *)
(* whether the write could be queued or not.                                 *)
TrbWrite(u) == [block |-> 0, content |-> <<u, 0>>, bell |-> TRUE]

FaultyWriteTrbs(u) ==
  /\ uPhase[u] \in {"data", "trbs"} /\ ~cacheLock
  /\ \E status \in {"ok", "error"} : QueueCacheWrite(TrbWrite(u), status)
  /\ uPhase' = [uPhase EXCEPT ![u] = "queued"]
  /\ UNCHANGED <<blockVars, uBlocks, uNext, segment, bells, deviceVars, freed>>

WriteTrbs(u) ==
  /\ uPhase[u] = "trbs" /\ ~cacheLock
  /\ \E status \in {"ok", "error"} : QueueCacheWrite(TrbWrite(u), status)
  /\ uPhase' = [uPhase EXCEPT ![u] = "queued"]
  /\ UNCHANGED <<blockVars, uBlocks, uNext, segment, bells, deviceVars, freed>>

-----------------------------------------------------------------------------
(* Completions.                                                              *)

(* EMBEDDED_REGISTER_Write_Doorbell: take an URB of the free list, which is  *)
(* extended when it is empty, and submit it.                                 *)
RingDoorbell ==
  \/ /\ bells' = [free |-> (IF bells.free = 0 THEN GrowBy ELSE bells.free) - 1,
                  busy |-> bells.busy + 1, sent |-> bells.sent + 1]
     /\ UNCHANGED <<dead, lost, starved>>
  \/ /\ bells.free = 0 /\ MayFail
     /\ starved' = starved + 1
     /\ UNCHANGED <<bells, dead, lost>>
  \/ /\ MayFail /\ lost' = lost + 1 /\ dead' = TRUE
     /\ bells' = [bells EXCEPT !.free = (IF @ = 0 THEN GrowBy ELSE @) - 1,
                               !.busy = @ + 1]
     /\ UNCHANGED starved

(* What a write leaves in the device.                                        *)
Store(w) ==
  IF w.block = 0 THEN landed' = landed \cup {w.content[1]} /\ UNCHANGED cacheMemory
  ELSE cacheMemory' = [cacheMemory EXCEPT ![w.block] = w.content] /\ UNCHANGED landed

(* URB_CompletionRoutine_Cache up to the doorbell.  The status of the        *)
(* transfer is not looked at.  The routines of one pipe run one after the    *)
(* other.  What still reaches a device in error is not followed further.     *)
CompleteWrite ==
  /\ cachePipe # <<>> /\ returning = {}
  /\ LET c == Head(cachePipe) IN
       /\ cachePipe' = Tail(cachePipe)
       /\ \/ ~dead /\ Store(write[c]) /\ lost' = lost
          \/ MayFail /\ lost' = lost + 1 /\ UNCHANGED <<cacheMemory, landed>>
          \/ dead /\ UNCHANGED <<cacheMemory, landed, lost>>
       /\ IF dead
          THEN UNCHANGED <<usedCtx, returning>>
          ELSE /\ ~cacheLock
               /\ usedCtx' = usedCtx \ {c} /\ returning' = returning \cup {c}
  /\ UNCHANGED <<blockVars, uBlocks, uPhase, uNext, segment, freeCtx, made, write, bells,
                 executing, executed, dead, starved, freed>>

(* The doorbell, and the end of the routine.                                 *)
FaultyReturnContext(c) ==
  /\ c \in returning /\ ~cacheLock
  /\ returning' = returning \ {c} /\ freeCtx' = freeCtx \cup {c}
  /\ write' = [write EXCEPT ![c] = NoWrite]
  /\ UNCHANGED <<blockVars, uBlocks, uPhase, uNext, segment, usedCtx, made, cachePipe,
                 bells, dead, lost, starved, deviceVars, freed>>

ReturnContext(c) ==
  /\ c \in returning /\ ~cacheLock
  /\ returning' = returning \ {c} /\ freeCtx' = freeCtx \cup {c}
  /\ write' = [write EXCEPT ![c] = NoWrite]
  /\ IF write[c].bell THEN RingDoorbell ELSE UNCHANGED <<bells, dead, lost, starved>>
  /\ UNCHANGED <<blockVars, uBlocks, uPhase, uNext, segment, usedCtx, made, cachePipe,
                 deviceVars, freed>>

(* URB_CompletionRoutine_Doorbell: once the device is in error, the URB      *)
(* stays on the busy list.                                                   *)
CompleteDoorbell ==
  /\ bells.sent > 0
  /\ \/ ~dead /\ executing' = TRUE /\ UNCHANGED lost
     \/ MayFail /\ lost' = lost + 1 /\ UNCHANGED executing
     \/ dead /\ UNCHANGED <<executing, lost>>
  /\ bells' = IF dead THEN [bells EXCEPT !.sent = @ - 1]
              ELSE [free |-> bells.free + 1, busy |-> bells.busy - 1,
                    sent |-> bells.sent - 1]
  /\ UNCHANGED <<blockVars, uBlocks, uPhase, uNext, segment, ctxVars, cacheMemory, landed,
                 executed, dead, freed>>

(* The controller executes what it finds in its copy of the ring.            *)
Execute(u) ==
  /\ executing /\ ~dead /\ u \in landed \ executed
  /\ executed' = executed \cup {u}
  /\ UNCHANGED <<blockVars, uBlocks, uPhase, uNext, segment, ctxVars, bells, cacheMemory,
                 landed, executing, dead, lost, freed>>

(* The worker gives an URB back: after its transfer event, or when the host  *)
(* is dead.                                                                  *)
GiveBack(u) ==
  /\ uPhase[u] = "queued" /\ ~cacheLock /\ (u \in executed \/ dead)
  /\ FreeByUrb(u)
  /\ uPhase' = [uPhase EXCEPT ![u] = "returned"]
  /\ UNCHANGED <<uNext, segment, ctxVars, bells, deviceVars, dead, lost, freed>>

(* The device is unplugged.                                                  *)
Gone ==
  /\ ~dead /\ dead' = TRUE
  /\ UNCHANGED <<blockVars, uBlocks, uPhase, uNext, segment, ctxVars, bells, deviceVars,
                 lost, freed>>

(* ehub_xhci_cache_destroy frees what is on the four lists.  It runs after   *)
(* usb_remove_hcd, when every URB and ring is gone.  The writes and          *)
(* doorbells are URBs of another interface than the one being disconnected;  *)
(* that they have come back by then is an assumption on the USB core.        *)
FaultyDestroy ==
  /\ dead /\ ~freed.done
  /\ freed' = [done |-> TRUE, blocks |-> Range(freeBlocks) \cup usedBlocks,
               ctxs |-> freeCtx]
  /\ cachePipe = <<>> /\ returning = {} /\ bells.sent = 0 /\ segment.block = 0
  /\ \A u \in Isoc : uPhase[u] \in {"new", "returned"}
  /\ UNCHANGED <<blockVars, uBlocks, uPhase, uNext, segment, ctxVars, bells, deviceVars,
                 dead, lost>>

Destroy ==
  /\ dead /\ ~freed.done
  /\ cachePipe = <<>> /\ returning = {} /\ bells.sent = 0 /\ segment.block = 0
  /\ \A u \in Isoc : uPhase[u] \in {"new", "returned"}
  /\ freed' = [done |-> TRUE, blocks |-> Range(freeBlocks) \cup usedBlocks,
               ctxs |-> freeCtx \cup usedCtx]
  /\ UNCHANGED <<blockVars, uBlocks, uPhase, uNext, segment, ctxVars, bells, deviceVars,
                 dead, lost>>

-----------------------------------------------------------------------------
Submission(u) == AllocateUrb(u) \/ WriteData(u) \/ SubmitFails(u) \/ WriteTrbs(u)
Completions == CompleteWrite \/ CompleteDoorbell \/ \E c \in Contexts : ReturnContext(c)

CacheNext ==
  \/ \E u \in Isoc : Submission(u) \/ Execute(u) \/ GiveBack(u)
  \/ AllocateSegment \/ FreeSegment
  \/ Completions
  \/ Gone \/ Destroy

CacheSpec == CacheInit /\ [][CacheNext]_cacheVars

(* A call that was made goes on; the host controller completes URBs; the     *)
(* device executes what its doorbell announced; the worker runs.             *)
CacheFair ==
  /\ \A u \in Isoc : /\ WF_cacheVars(uPhase[u] # "new" /\ Submission(u))
                     /\ WF_cacheVars(Execute(u)) /\ WF_cacheVars(GiveBack(u))
  /\ WF_cacheVars(CompleteWrite) /\ WF_cacheVars(CompleteDoorbell)
  /\ \A c \in Contexts : WF_cacheVars(ReturnContext(c))

CacheFairSpec == CacheSpec /\ CacheFair

-----------------------------------------------------------------------------
(* A block is on one of the two lists, the counters that                     *)
(* ehub_xhci_cache_block_allocate_urb relies on are the lengths of the       *)
(* lists, and a used block has exactly one owner: the segment or one URB.    *)
Owned(u) == Range(uBlocks[u])
BlocksConserved ==
  /\ Range(freeBlocks) = Blocks \ usedBlocks
  /\ counts = [free |-> Len(freeBlocks), used |-> Cardinality(usedBlocks)]
  /\ usedBlocks = (UNION {Owned(u) : u \in Isoc}) \cup ({segment.block} \ {0})
  /\ \A u \in Isoc : /\ segment.block \notin Owned(u)
                     /\ \A v \in Isoc \ {u} : Owned(u) \cap Owned(v) = {}

(* A write context is on one list, or its completion routine has it; it is   *)
(* not handed out again while its URB is with the USB core.                  *)
ContextsConserved ==
  /\ freeCtx \cap (usedCtx \cup returning) = {} /\ usedCtx \cap returning = {}
  /\ freeCtx \cup usedCtx \cup returning = 1 .. made
  /\ Range(cachePipe) \subseteq usedCtx

(* When the controller can see an URB's TRBs, the blocks they point to hold  *)
(* that URB's data: data goes first, on the same pipe, and a block changes   *)
(* hands only after the URB was given back.  (A transfer that failed is not  *)
(* noticed: then nothing is claimed.)                                        *)
RunsItsOwnData ==
  \A u \in landed : uPhase[u] = "queued" /\ lost = 0 =>
    \A i \in 1 .. Needs[u] : cacheMemory[uBlocks[u][i]] = <<u, i>>

(* Every submission comes to an end: no call waits for cache_list_lock for   *)
(* good.  Each URB is submitted once, so "again and again" is "from then on".*)
SubmitsReturn == []<>(\A u \in Isoc : ~Submitting(u))

(* An URB that was accepted is executed and given back, unless a transfer or *)
(* an allocation of the cache failed.                                        *)
AcceptedReturns ==
  []<>(\A u \in Isoc : uPhase[u] = "queued" => lost > 0 \/ starved > 0)

(* ehub_xhci_cache_destroy frees every block and every context, those whose  *)
(* completion routine gave up early included.                                *)
NothingLeaks ==
  freed.done => freed.blocks = Blocks /\ freed.ctxs = 1 .. made

(* Together: nothing the device's memory is managed with is lost, shared or  *)
(* left behind.                                                              *)
CacheConserved == BlocksConserved /\ ContextsConserved /\ NothingLeaks

(* Together: every call returns and every URB that was accepted comes back.  *)
IsocUrbsServed == SubmitsReturn /\ AcceptedReturns
=============================================================================
