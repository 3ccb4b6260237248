---------------------------- MODULE CacheInvariant --------------------------
(***************************************************************************)
(* What belongs together in the management of the device's memory, and     *)
(* what is left of it when a block is taken or given back, a write context *)
(* is taken, a write joins the pipe, and a write arrives.                  *)
(***************************************************************************)
EXTENDS CacheService, SequenceFacts

USE CacheAssumption

Phases == {"new", "data", "trbs", "failed", "queued", "returned"}
Contents == (Isoc \cup {"segment", "none"}) \X Nat
Writes == [block : 0 .. NumBlocks, content : Contents, bell : BOOLEAN]

(* The free list has every block that nobody owns, once.                     *)
FreeInv ==
  /\ freeBlocks \in Seq(Blocks) /\ NoRepeats(freeBlocks)
  /\ counts = [free |-> Len(freeBlocks), used |-> NumBlocks - Len(freeBlocks)]
  /\ usedBlocks = Blocks \ Range(freeBlocks)

(* A used block has one owner, the segment or one place in one URB.          *)
OwnerInv ==
  /\ uBlocks \in [Isoc -> Seq(Blocks)] /\ \A u \in Isoc : NoRepeats(uBlocks[u])
  /\ segment \in [block : 0 .. NumBlocks, asked : Nat]
  /\ \A b \in Blocks : b \in usedBlocks <=>
                         b = segment.block \/ \E u \in Isoc : b \in Owned(u)
  /\ \A u \in Isoc : /\ segment.block \notin Owned(u)
                     /\ \A v \in Isoc \ {u} : Owned(u) \cap Owned(v) = {}

(* The write contexts: the pipe has some of those in use, each once.         *)
ContextInv ==
  /\ made \in 0 .. MaxContexts /\ ContextsConserved
  /\ write \in [Contexts -> Writes]
  /\ cachePipe \in Seq(Contexts) /\ NoRepeats(cachePipe)

(* How far the submission of an URB has come.                                *)
PhaseFits(phase, blocks, next, needs) ==
  /\ phase = "new" => blocks = <<>> /\ next = 1
  /\ phase = "data" => Len(blocks) = needs /\ next \in 1 .. needs
  /\ phase \in {"trbs", "queued"} => Len(blocks) = needs /\ next = needs + 1
  /\ phase \in {"failed", "returned"} => blocks = <<>>
PhaseInv ==
  /\ uPhase \in [Isoc -> Phases] /\ uNext \in [Isoc -> Nat] /\ lost \in Nat
  /\ \A u \in Isoc : PhaseFits(uPhase[u], uBlocks[u], uNext[u], Needs[u])

(* What is in the device, and on its way: TRBs are written for URBs that     *)
(* were accepted.                                                            *)
Accepted == {u \in Isoc : uPhase[u] \in {"queued", "returned"}}
Pending == [t \in 1 .. Len(cachePipe) |-> write[cachePipe[t]]]
AcceptedInv ==
  /\ cacheMemory \in [Blocks -> Contents]
  /\ landed \subseteq Accepted
  /\ \A t \in 1 .. Len(cachePipe) : Pending[t].block = 0 => Pending[t].content[1] \in Accepted

(* After ehub_xhci_cache_destroy nothing moves any more.                     *)
FreedInv ==
  freed.done => /\ dead /\ cachePipe = <<>> /\ returning = {} /\ segment.block = 0
                /\ \A u \in Isoc : uPhase[u] \in {"new", "returned"}
                /\ NothingLeaks

(* Memory m, and n writes q on their way to it: block b will hold x in the   *)
(* end; the data of an URB that was written so far will be in its blocks;    *)
(* its TRBs come after its data; no write to its blocks is left.             *)
Comes(m, q, n, b, x) ==
  \/ m[b] = x /\ \A t \in 1 .. n : q[t].block # b
  \/ \E t \in 1 .. n : /\ q[t].block = b /\ q[t].content = x
                       /\ \A s \in t + 1 .. n : q[s].block # b
Written(m, q, n, u, blocks, next) ==
  \A i \in 1 .. next - 1 : Comes(m, q, n, blocks[i], <<u, i>>)
TrbsLast(q, n, u, own) ==
  \A t \in 1 .. n : q[t].block = 0 /\ q[t].content[1] = u =>
    \A s \in t + 1 .. n : q[s].block \notin own
Clear(q, n, own) == \A t \in 1 .. n : q[t].block \notin own

(* As long as nothing was lost, all of this holds.                           *)
DataInv ==
  ~dead /\ lost = 0 => \A u \in Isoc :
    /\ uPhase[u] \in {"data", "trbs", "queued"} =>
         Written(cacheMemory, Pending, Len(cachePipe), u, uBlocks[u], uNext[u])
    /\ uPhase[u] = "queued" => TrbsLast(Pending, Len(cachePipe), u, Owned(u))
    /\ uPhase[u] = "queued" /\ u \in landed => Clear(Pending, Len(cachePipe), Owned(u))

CacheInv ==
  /\ FreeInv /\ OwnerInv /\ ContextInv /\ PhaseInv /\ AcceptedInv /\ FreedInv
  /\ DataInv /\ RunsItsOwnData

-----------------------------------------------------------------------------
(* The lists of blocks.                                                      *)

(* Blocks taken from the free list are nobody else's, ...                    *)
LEMMA TakeBlocks ==
  ASSUME FreeInv, NEW k \in 0 .. Len(freeBlocks), Take(k)
  PROVE  /\ FreeInv' /\ usedBlocks' = usedBlocks \cup Range(First(k))
         /\ First(k) \in Seq(Blocks) /\ Len(First(k)) = k /\ NoRepeats(First(k))
         /\ Range(First(k)) \subseteq Blocks /\ Range(First(k)) \cap usedBlocks = {}
<1> DEFINE t == SubSeq(freeBlocks, 1, k)
           r == SubSeq(freeBlocks, k + 1, Len(freeBlocks))
<1>1. /\ freeBlocks \in Seq(Blocks) /\ NoRepeats(freeBlocks) /\ Len(freeBlocks) \in Nat
      /\ usedBlocks = Blocks \ Range(freeBlocks)
  BY DEF FreeInv
<1>2. /\ t \in Seq(Blocks) /\ Len(t) = k /\ NoRepeats(t)
      /\ r \in Seq(Blocks) /\ Len(r) = Len(freeBlocks) - k /\ NoRepeats(r)
      /\ Range(t) \cup Range(r) = Range(freeBlocks) /\ Range(t) \cap Range(r) = {}
  BY <1>1, Cut, Zenon
<1>3. Range(freeBlocks) \subseteq Blocks
  BY <1>1, InRange
<1>4. freeBlocks' = r /\ usedBlocks' = usedBlocks \cup Range(t) /\ First(k) = t
  BY Zenon DEF Take, First
<1>5. counts' = [free |-> counts.free - k, used |-> counts.used + k]
  BY DEF Take
<1> HIDE DEF t, r
<1>6. usedBlocks' = Blocks \ Range(freeBlocks')
  BY <1>1, <1>2, <1>3, <1>4
<1>7. counts' = [free |-> Len(freeBlocks'), used |-> NumBlocks - Len(freeBlocks')]
  <2>1. counts = [free |-> Len(freeBlocks), used |-> NumBlocks - Len(freeBlocks)]
    BY DEF FreeInv
  <2>2. Len(freeBlocks') = Len(freeBlocks) - k
    BY <1>2, <1>4
  <2>3. counts.free = Len(freeBlocks) /\ counts.used = NumBlocks - Len(freeBlocks)
    BY <2>1
  <2>4. /\ counts.free - k = Len(freeBlocks')
        /\ counts.used + k = NumBlocks - Len(freeBlocks')
    BY <1>1, <2>2, <2>3
  <2> QED BY <1>5, <2>4
<1>8. FreeInv'
  BY <1>2, <1>4, <1>6, <1>7, Zenon DEF FreeInv
<1> QED BY <1>1, <1>2, <1>3, <1>4, <1>8

(* ... and used blocks that are given back are free again.                   *)
LEMMA GiveBlocks ==
  ASSUME FreeInv, NEW s \in Seq(Blocks), NoRepeats(s), Range(s) \subseteq usedBlocks, Give(s)
  PROVE  FreeInv' /\ usedBlocks' = usedBlocks \ Range(s)
<1> DEFINE w == freeBlocks \o s
<1>1. /\ freeBlocks \in Seq(Blocks) /\ NoRepeats(freeBlocks) /\ Len(freeBlocks) \in Nat
      /\ usedBlocks = Blocks \ Range(freeBlocks) /\ Len(s) \in Nat
      /\ Range(freeBlocks) \cap Range(s) = {}
  BY DEF FreeInv
<1>2. /\ w \in Seq(Blocks) /\ Len(w) = Len(freeBlocks) + Len(s) /\ NoRepeats(w)
      /\ Range(w) = Range(freeBlocks) \cup Range(s)
  BY <1>1, Joined
<1>3. freeBlocks' = w /\ usedBlocks' = usedBlocks \ Range(s)
  BY Zenon DEF Give
<1>4. counts' = [free |-> counts.free + Len(s), used |-> counts.used - Len(s)]
  BY DEF Give
<1> HIDE DEF w
<1>5. usedBlocks' = Blocks \ Range(freeBlocks')
  BY <1>1, <1>2, <1>3
<1>6. counts' = [free |-> Len(freeBlocks'), used |-> NumBlocks - Len(freeBlocks')]
  <2>1. counts = [free |-> Len(freeBlocks), used |-> NumBlocks - Len(freeBlocks)]
    BY DEF FreeInv
  <2>2. Len(freeBlocks') = Len(freeBlocks) + Len(s)
    BY <1>2, <1>3
  <2>3. counts.free = Len(freeBlocks) /\ counts.used = NumBlocks - Len(freeBlocks)
    BY <2>1
  <2>4. /\ counts.free + Len(s) = Len(freeBlocks')
        /\ counts.used - Len(s) = NumBlocks - Len(freeBlocks')
    BY <1>1, <2>2, <2>3
  <2> QED BY <1>4, <2>4
<1>7. FreeInv'
  BY <1>2, <1>3, <1>5, <1>6, Zenon DEF FreeInv
<1> QED BY <1>3, <1>7

(* A block that could not be written goes to the end of the free list.       *)
LEMMA BlockRotates ==
  ASSUME FreeInv, freeBlocks # <<>>, UNCHANGED <<usedBlocks, counts>>,
         freeBlocks' = Append(Tail(freeBlocks), Head(freeBlocks))
  PROVE  FreeInv'
<1> DEFINE w == Append(Tail(freeBlocks), Head(freeBlocks))
<1>1. freeBlocks \in Seq(Blocks) /\ NoRepeats(freeBlocks)
  BY DEF FreeInv
<1>2. /\ w \in Seq(Blocks) /\ Len(w) = Len(freeBlocks) /\ NoRepeats(w)
      /\ Range(w) = Range(freeBlocks)
  BY <1>1, Rotated, Zenon
<1> HIDE DEF w
<1>3. freeBlocks' = w
  BY DEF w
<1> QED BY <1>2, <1>3, Zenon DEF FreeInv

(* The write contexts.                                                       *)

(* How the submitted writes change: not at all, or one more at the end.      *)
PipeSame == Len(cachePipe') = Len(cachePipe) /\ Pending' = Pending
PipeGrows(w) ==
  /\ Len(cachePipe) \in Nat /\ Len(cachePipe') = Len(cachePipe) + 1
  /\ \A t \in 1 .. Len(cachePipe) : Pending'[t] = Pending[t]
  /\ Pending'[Len(cachePipe) + 1] = w

(* The context that ehub_queue_cache_write takes was on the free list, or is *)
(* new; it is not on its way.                                                *)
LEMMA ContextTaken ==
  ASSUME ContextInv, NEW n \in GrowSizes, ~NoContext(n), NEW w \in Writes,
         TakeContext(n, w), UNCHANGED returning
  PROVE  /\ Taken(n) \in Contexts /\ Taken(n) \in usedCtx'
         /\ Taken(n) \notin usedCtx
         /\ made' \in 0 .. MaxContexts
         /\ freeCtx' \cap (usedCtx' \cup returning') = {} /\ usedCtx' \cap returning' = {}
         /\ freeCtx' \cup usedCtx' \cup returning' = 1 .. made'
         /\ usedCtx \subseteq usedCtx'
         /\ write' \in [Contexts -> Writes] /\ write'[Taken(n)] = w
         /\ \A c \in Contexts : c # Taken(n) => write'[c] = write[c]
<1> DEFINE c == Taken(n)
<1>1. /\ made \in 0 .. MaxContexts /\ write \in [Contexts -> Writes]
      /\ freeCtx \cap (usedCtx \cup returning) = {} /\ usedCtx \cap returning = {}
      /\ freeCtx \cup usedCtx \cup returning = 1 .. made
  BY DEF ContextInv, ContextsConserved
<1>2. n \in Nat /\ made + n <= MaxContexts /\ (freeCtx # {} => n = 0) /\ (freeCtx = {} => n # 0)
  BY <1>1 DEF GrowSizes, NoContext
<1>3. Grown(n) \in SUBSET Nat /\ Grown(n) # {} /\ Grown(n) \subseteq Contexts
  <2>1. freeCtx \subseteq 1 .. made
    BY <1>1
  <2>2. freeCtx = {} => made + 1 \in made + 1 .. made + n
    BY <1>1, <1>2
  <2>3. /\ freeCtx \subseteq Contexts /\ (made + 1 .. made + n) \subseteq Contexts
        /\ Contexts \subseteq Nat
    BY <1>1, <1>2, <2>1 DEF Contexts
  <2> QED BY <2>2, <2>3, Zenon DEF Grown
<1>4. c \in Grown(n)
  BY <1>3 DEF Taken
<1>5. /\ made' = made + n /\ freeCtx' = Grown(n) \ {c} /\ usedCtx' = usedCtx \cup {c}
      /\ write' = [write EXCEPT ![c] = w]
  BY DEF TakeContext
<1> HIDE DEF c
<1>6. Grown(n) \cap (usedCtx \cup returning) = {} /\ Grown(n) \cup usedCtx \cup returning = 1 .. made + n
  <2>1. \A x \in made + 1 .. made + n : x \notin 1 .. made /\ x \in 1 .. made + n
    BY <1>1, <1>2
  <2>2. \A x \in 1 .. made + n : x \in 1 .. made \/ x \in made + 1 .. made + n
    BY <1>1, <1>2
  <2>3. \A x \in 1 .. made : x \in 1 .. made + n
    BY <1>1, <1>2
  <2> QED BY <1>1, <2>1, <2>2, <2>3 DEF Grown
<1>7. c \in Contexts /\ c \notin usedCtx /\ c \notin returning
  BY <1>3, <1>4, <1>6
<1>8. made' \in 0 .. MaxContexts
  BY <1>1, <1>2, <1>5
<1>9. /\ freeCtx' \cap (usedCtx' \cup returning') = {} /\ usedCtx' \cap returning' = {}
      /\ freeCtx' \cup usedCtx' \cup returning' = 1 .. made'
  BY <1>1, <1>4, <1>5, <1>6, <1>7
<1>10. /\ write' \in [Contexts -> Writes] /\ write'[c] = w
       /\ \A d \in Contexts : d # c => write'[d] = write[d]
  BY <1>1, <1>5, <1>7
<1> QED BY <1>5, <1>7, <1>8, <1>9, <1>10 DEF c

(* ehub_queue_cache_write: the write is at the end of the pipe, or an error  *)
(* is reported and the pipe is as it was.                                    *)
LEMMA WriteQueued ==
  ASSUME ContextInv, lost \in Nat, NEW w \in Writes, NEW status, QueueCacheWrite(w, status)
  PROVE  /\ ContextInv' /\ lost' \in Nat /\ UNCHANGED returning
         /\ status = "ok" => ~dead /\ UNCHANGED <<dead, lost>> /\ PipeGrows(w)
         /\ status = "error" => PipeSame /\ (dead => dead') /\ (~dead' => UNCHANGED lost)
                                /\ (lost' = 0 => lost = 0)
         /\ status \in {"ok", "error"}
         /\ dead => UNCHANGED <<ctxVars, dead, lost>>
<1>1. CASE dead
  BY <1>1 DEF QueueCacheWrite, ContextInv, ContextsConserved, PipeSame, Pending, ctxVars
<1>2. CASE ~dead
  <2>1. /\ cachePipe \in Seq(Contexts) /\ Len(cachePipe) \in Nat /\ NoRepeats(cachePipe)
        /\ Range(cachePipe) \subseteq usedCtx
        /\ \A t \in 1 .. Len(cachePipe) : cachePipe[t] \in usedCtx /\ cachePipe[t] \in Contexts
    <3>1. cachePipe \in Seq(Contexts) /\ NoRepeats(cachePipe) /\ Range(cachePipe) \subseteq usedCtx
      BY DEF ContextInv, ContextsConserved
    <3>2. Range(cachePipe) = Image(cachePipe, Len(cachePipe)) /\ Len(cachePipe) \in Nat
      BY <3>1, InRange
    <3> QED BY <3>1, <3>2 DEF Image
  <2>2. PICK n \in GrowSizes :
          IF NoContext(n)
          THEN /\ status = "error"
               /\ UNCHANGED <<made, freeCtx, usedCtx, write, cachePipe, dead, lost>>
          ELSE /\ TakeContext(n, w)
               /\ \/ /\ status = "ok"
                     /\ cachePipe' = Append(cachePipe, Taken(n))
                     /\ UNCHANGED <<dead, lost>>
                  \/ /\ status = "error" /\ MayFail
                     /\ dead' = TRUE /\ lost' = lost + 1
                     /\ UNCHANGED cachePipe
    BY <1>2 DEF QueueCacheWrite
  <2>3. UNCHANGED returning
    BY <1>2 DEF QueueCacheWrite
  <2>4. CASE NoContext(n)
    BY <1>2, <2>2, <2>3, <2>4 DEF ContextInv, ContextsConserved, PipeSame, Pending
  <2>5. CASE ~NoContext(n)
    <3> DEFINE c == Taken(n)
    <3>1. /\ c \in Contexts /\ c \in usedCtx' /\ c \notin usedCtx
          /\ made' \in 0 .. MaxContexts
          /\ freeCtx' \cap (usedCtx' \cup returning') = {} /\ usedCtx' \cap returning' = {}
          /\ freeCtx' \cup usedCtx' \cup returning' = 1 .. made'
          /\ usedCtx \subseteq usedCtx'
          /\ write' \in [Contexts -> Writes] /\ write'[c] = w
          /\ \A d \in Contexts : d # c => write'[d] = write[d]
      BY <2>2, <2>3, <2>5, ContextTaken
    <3> HIDE DEF c
    <3>2. \A t \in 1 .. Len(cachePipe) : cachePipe[t] # c /\ write'[cachePipe[t]] = Pending[t]
      BY <2>1, <3>1 DEF Pending
    <3>3. CASE status = "ok"
      <4>1. cachePipe' = Append(cachePipe, c) /\ UNCHANGED <<dead, lost>>
        BY <2>2, <2>5, <3>3 DEF c
      <4>2. /\ cachePipe' \in Seq(Contexts) /\ Len(cachePipe') = Len(cachePipe) + 1
            /\ \A t \in 1 .. Len(cachePipe) : cachePipe'[t] = cachePipe[t]
            /\ cachePipe'[Len(cachePipe) + 1] = c
        BY <2>1, <3>1, <4>1
      <4>3. PipeGrows(w)
        BY <2>1, <3>1, <3>2, <4>2 DEF PipeGrows, Pending
      <4>4. \A t \in 1 .. Len(cachePipe') : t \in 1 .. Len(cachePipe) \/ t = Len(cachePipe) + 1
        BY <2>1, <4>2
      <4>5. NoRepeats(cachePipe')
        <5>1. \A i, j \in 1 .. Len(cachePipe) : cachePipe'[i] = cachePipe'[j] => i = j
          BY <2>1, <4>2 DEF NoRepeats
        <5>2. \A i \in 1 .. Len(cachePipe) : cachePipe'[i] # cachePipe'[Len(cachePipe) + 1]
          BY <3>2, <4>2
        <5> QED BY <4>4, <5>1, <5>2 DEF NoRepeats
      <4>6. Range(cachePipe') \subseteq usedCtx'
        <5>1. Range(cachePipe') = Image(cachePipe', Len(cachePipe'))
          BY <4>2, InRange
        <5>2. \A t \in 1 .. Len(cachePipe') : cachePipe'[t] \in usedCtx'
          BY <2>1, <3>1, <4>2, <4>4, Zenon
        <5> QED BY <5>1, <5>2 DEF Image
      <4> QED BY <1>2, <2>3, <3>1, <3>3, <4>1, <4>2, <4>3, <4>5, <4>6 DEF ContextInv, ContextsConserved
    <3>4. CASE status = "error"
      <4>1. UNCHANGED cachePipe /\ dead' /\ lost' = lost + 1
        BY <2>2, <2>5, <3>4
      <4>2. PipeSame
        BY <3>2, <4>1, Zenon DEF PipeSame, Pending
      <4>3. ContextInv'
        BY <2>1, <3>1, <4>1 DEF ContextInv, ContextsConserved
      <4>4. lost' \in Nat /\ lost' # 0
        BY <4>1
      <4> QED BY <1>2, <2>3, <3>4, <4>1, <4>2, <4>3, <4>4, Zenon
    <3> QED BY <2>2, <2>5, <3>3, <3>4
  <2> QED BY <2>4, <2>5
<1> QED BY <1>1, <1>2

-----------------------------------------------------------------------------
(* What the writes on their way leave in the blocks.                         *)

(* One more write, to a block that is not looked at, changes nothing, ...    *)
LEMMA ComesGrows ==
  ASSUME NEW m, NEW q, NEW r, NEW n \in Nat, NEW b, NEW x, Comes(m, q, n, b, x),
         \A t \in 1 .. n : r[t] = q[t], r[n + 1].block # b
  PROVE  Comes(m, r, n + 1, b, x)
<1>1. \A t \in 1 .. n + 1 : t \in 1 .. n \/ t = n + 1
  OBVIOUS
<1>2. CASE m[b] = x /\ \A t \in 1 .. n : q[t].block # b
  BY <1>1, <1>2 DEF Comes
<1>3. ASSUME NEW t \in 1 .. n, q[t].block = b, q[t].content = x,
             \A s \in t + 1 .. n : q[s].block # b
      PROVE  Comes(m, r, n + 1, b, x)
  <2>1. t \in 1 .. n + 1 /\ \A s \in t + 1 .. n + 1 : s \in t + 1 .. n \/ s = n + 1
    OBVIOUS
  <2>2. \A s \in t + 1 .. n : r[s].block # b
    BY <1>3
  <2>3. r[t].block = b /\ r[t].content = x
    BY <1>3
  <2> QED BY <2>1, <2>2, <2>3 DEF Comes
<1> QED BY <1>2, <1>3 DEF Comes

(* ... a write to the block decides what will be there, ...                  *)
LEMMA ComesNew ==
  ASSUME NEW m, NEW r, NEW n \in Nat, NEW b, NEW x, r[n + 1].block = b, r[n + 1].content = x
  PROVE  Comes(m, r, n + 1, b, x)
<1>1. n + 1 \in 1 .. n + 1 /\ \A s \in (n + 1) + 1 .. n + 1 : FALSE
  OBVIOUS
<1> QED BY <1>1 DEF Comes

(* ... and the write w that arrives, in a memory that was m and becomes k,   *)
(* leaves behind what it was to leave.                                       *)
Leaves(m, k, w, b) ==
  (w.block = b => k[b] = w.content) /\ (w.block # b => k[b] = m[b])

(* What is still to come to a block when the first write of the queue has    *)
(* arrived.                                                                  *)
LEMMA ComesArrives ==
  ASSUME NEW m, NEW k, NEW q, NEW r, NEW n \in Nat \ {0}, NEW b, NEW x, Comes(m, q, n, b, x),
         \A t \in 1 .. n - 1 : r[t] = q[t + 1],
         Leaves(m, k, q[1], b)
  PROVE  Comes(k, r, n - 1, b, x)
<1> USE DEF Leaves
<1>0. 1 \in 1 .. n /\ \A t \in 1 .. n - 1 : t + 1 \in 1 .. n /\ t + 1 \in 1 + 1 .. n
  OBVIOUS
<1>1. CASE m[b] = x /\ \A t \in 1 .. n : q[t].block # b
  BY <1>0, <1>1 DEF Comes
<1>2. ASSUME NEW t \in 1 .. n, q[t].block = b, q[t].content = x,
             \A s \in t + 1 .. n : q[s].block # b
      PROVE  Comes(k, r, n - 1, b, x)
  <2>1. CASE t = 1
    <3>1. \A s \in 1 .. n - 1 : r[s].block # b
      BY <1>0, <1>2, <2>1
    <3> QED BY <1>2, <2>1, <3>1 DEF Comes
  <2>2. CASE t # 1
    <3>1. t - 1 \in 1 .. n - 1 /\ r[t - 1] = q[t]
      BY <2>2
    <3>2. \A s \in (t - 1) + 1 .. n - 1 : r[s] = q[s + 1] /\ s + 1 \in t + 1 .. n
      BY <2>2
    <3> QED BY <1>2, <3>1, <3>2 DEF Comes
  <2> QED BY <2>1, <2>2
<1> QED BY <1>1, <1>2 DEF Comes

(* The same for all the blocks of an URB, and for the writes after its TRBs. *)
LEMMA UrbGrows ==
  ASSUME NEW m, NEW q, NEW r, NEW n \in Nat, \A t \in 1 .. n : r[t] = q[t],
         NEW u, NEW blocks, NEW next, NEW own
  PROVE  /\ Written(m, q, n, u, blocks, next) /\ (\A i \in 1 .. next - 1 : r[n + 1].block # blocks[i])
              => Written(m, r, n + 1, u, blocks, next)
         /\ TrbsLast(q, n, u, own) /\ r[n + 1].block \notin own => TrbsLast(r, n + 1, u, own)
         /\ Clear(q, n, own) /\ r[n + 1].block \notin own => Clear(r, n + 1, own)
<1>1. \A t \in 1 .. n + 1 : t \in 1 .. n \/ t = n + 1
  OBVIOUS
<1>2. ASSUME Written(m, q, n, u, blocks, next), \A i \in 1 .. next - 1 : r[n + 1].block # blocks[i]
      PROVE  Written(m, r, n + 1, u, blocks, next)
  BY <1>2, ComesGrows, Zenon DEF Written
<1>3. ASSUME TrbsLast(q, n, u, own), r[n + 1].block \notin own PROVE TrbsLast(r, n + 1, u, own)
  <2> SUFFICES ASSUME NEW t \in 1 .. n + 1, r[t].block = 0, r[t].content[1] = u,
                      NEW s \in t + 1 .. n + 1
               PROVE  r[s].block \notin own
    BY DEF TrbsLast
  <2>1. CASE s = n + 1
    BY <1>3, <2>1
  <2>2. CASE s # n + 1
    <3>1. t \in 1 .. n /\ s \in t + 1 .. n /\ s \in 1 .. n
      BY <2>2
    <3> QED BY <1>3, <3>1 DEF TrbsLast
  <2> QED BY <2>1, <2>2
<1>4. ASSUME Clear(q, n, own), r[n + 1].block \notin own PROVE Clear(r, n + 1, own)
  BY <1>1, <1>4 DEF Clear
<1> QED BY <1>2, <1>3, <1>4

(* What is still to come of an URB when the first write of the queue has     *)
(* arrived.                                                                  *)
LEMMA UrbArrives ==
  ASSUME NEW m, NEW k, NEW q, NEW r, NEW n \in Nat \ {0}, \A t \in 1 .. n - 1 : r[t] = q[t + 1],
         NEW u, NEW blocks, NEW next, NEW own
  PROVE  /\ Written(m, q, n, u, blocks, next)
              /\ (\A i \in 1 .. next - 1 : Leaves(m, k, q[1], blocks[i]))
              => Written(k, r, n - 1, u, blocks, next)
         /\ TrbsLast(q, n, u, own) => TrbsLast(r, n - 1, u, own)
         /\ Clear(q, n, own) => Clear(r, n - 1, own)
         /\ TrbsLast(q, n, u, own) /\ q[1].block = 0 /\ q[1].content[1] = u => Clear(r, n - 1, own)
<1>0. 1 \in 1 .. n /\ \A t \in 1 .. n - 1 : t + 1 \in 1 .. n /\ t + 1 \in 1 + 1 .. n
  OBVIOUS
<1>1. ASSUME Written(m, q, n, u, blocks, next),
             \A i \in 1 .. next - 1 : Leaves(m, k, q[1], blocks[i])
      PROVE  Written(k, r, n - 1, u, blocks, next)
  <2> SUFFICES ASSUME NEW i \in 1 .. next - 1 PROVE Comes(k, r, n - 1, blocks[i], <<u, i>>)
    BY DEF Written
  <2>1. Comes(m, q, n, blocks[i], <<u, i>>) /\ Leaves(m, k, q[1], blocks[i])
    BY <1>1 DEF Written
  <2> QED BY <2>1, ComesArrives
<1>2. ASSUME TrbsLast(q, n, u, own) PROVE TrbsLast(r, n - 1, u, own)
  <2> SUFFICES ASSUME NEW t \in 1 .. n - 1, r[t].block = 0, r[t].content[1] = u,
                      NEW s \in t + 1 .. n - 1
               PROVE  r[s].block \notin own
    BY DEF TrbsLast
  <2>1. t + 1 \in 1 .. n /\ s + 1 \in (t + 1) + 1 .. n /\ s \in 1 .. n - 1
    OBVIOUS
  <2> QED BY <1>2, <2>1 DEF TrbsLast
<1>3. ASSUME Clear(q, n, own) PROVE Clear(r, n - 1, own)
  BY <1>0, <1>3 DEF Clear
<1>4. ASSUME TrbsLast(q, n, u, own), q[1].block = 0, q[1].content[1] = u PROVE Clear(r, n - 1, own)
  BY <1>0, <1>4 DEF TrbsLast, Clear
<1> QED BY <1>1, <1>2, <1>3, <1>4

-----------------------------------------------------------------------------
(* What a step may do to an URB: nothing; accept it; have it outside of the  *)
(* calls that write for it, or at their beginning; write its next block.     *)
UrbSame(u) ==
  uBlocks'[u] = uBlocks[u] /\ uNext'[u] = uNext[u] /\ uPhase'[u] = uPhase[u]
UrbAccepted(u) ==
  /\ uBlocks'[u] = uBlocks[u] /\ uNext'[u] = uNext[u]
  /\ uPhase[u] = "trbs" /\ uPhase'[u] = "queued"
UrbOutside(u) ==
  uPhase'[u] \notin {"data", "trbs", "queued"} \/ (uPhase'[u] = "data" /\ uNext'[u] = 1)
UrbWrites(u, w) ==
  /\ uPhase[u] = "data" /\ uPhase'[u] \in {"data", "trbs"} /\ uBlocks'[u] = uBlocks[u]
  /\ uNext[u] \in Nat \ {0} /\ uNext'[u] = uNext[u] + 1
  /\ w.block = uBlocks[u][uNext[u]] /\ w.content = <<u, uNext[u]>>
  /\ \A i \in 1 .. uNext[u] - 1 : w.block # uBlocks[u][i]

(* The blocks an URB wrote are its own.                                      *)
LEMMA WroteItsOwn ==
  ASSUME OwnerInv, PhaseInv, NEW u \in Isoc, uPhase[u] \in {"data", "trbs", "queued"}
  PROVE  \A i \in 1 .. uNext[u] - 1 : uBlocks[u][i] \in Owned(u) /\ uBlocks[u][i] \in Blocks
<1>1. uBlocks[u] \in Seq(Blocks)
  BY DEF OwnerInv
<1>2. Owned(u) = Image(uBlocks[u], Len(uBlocks[u])) /\ Owned(u) \subseteq Blocks
  BY <1>1, InRange DEF Owned
<1>3. /\ Needs[u] \in Nat /\ uNext[u] \in Nat /\ Len(uBlocks[u]) = Needs[u]
      /\ uNext[u] - 1 <= Needs[u]
  BY DEF PhaseInv, PhaseFits
<1>4. \A i \in 1 .. uNext[u] - 1 : i \in 1 .. Len(uBlocks[u])
  BY <1>3
<1> QED BY <1>2, <1>4, Zenon DEF Image

(* With no write to its blocks left, an URB's data is where it belongs.      *)
LEMMA ClearMeansThere ==
  OwnerInv /\ PhaseInv /\ AcceptedInv /\ DataInv /\ ~dead => RunsItsOwnData
<1> SUFFICES ASSUME OwnerInv, PhaseInv, AcceptedInv, DataInv, ~dead PROVE RunsItsOwnData
  OBVIOUS
<1> SUFFICES ASSUME NEW u \in landed, uPhase[u] = "queued", lost = 0, NEW i \in 1 .. Needs[u]
             PROVE  cacheMemory[uBlocks[u][i]] = <<u, i>>
  BY Zenon DEF RunsItsOwnData
<1>1. u \in Isoc
  BY DEF AcceptedInv, Accepted
<1>2. Needs[u] \in Nat /\ uNext[u] = Needs[u] + 1
  BY <1>1 DEF PhaseInv, PhaseFits
<1>3. i \in 1 .. uNext[u] - 1
  BY <1>2
<1>4. Comes(cacheMemory, Pending, Len(cachePipe), uBlocks[u][i], <<u, i>>)
  BY <1>1, <1>3 DEF DataInv, Written
<1>5. \A t \in 1 .. Len(cachePipe) : Pending[t].block # uBlocks[u][i]
  <2>1. uBlocks[u][i] \in Owned(u)
    BY <1>1, <1>3, WroteItsOwn
  <2>2. Clear(Pending, Len(cachePipe), Owned(u))
    BY <1>1 DEF DataInv
  <2> QED BY <2>1, <2>2 DEF Clear
<1> QED BY <1>4, <1>5 DEF Comes

(* A step that submits and completes no write.                               *)
LEMMA DataKept ==
  ASSUME AcceptedInv, DataInv, RunsItsOwnData, PipeSame, UNCHANGED <<cacheMemory, landed>>,
         lost' = 0 => lost = 0, dead => dead',
         \A u \in Isoc : UrbSame(u) \/ UrbAccepted(u) \/ UrbOutside(u)
  PROVE  DataInv' /\ RunsItsOwnData'
<1>1. landed \subseteq Isoc /\ \A u \in Isoc : UrbAccepted(u) => u \notin landed
  BY DEF AcceptedInv, Accepted, UrbAccepted
<1>2. RunsItsOwnData'
  <2> SUFFICES ASSUME NEW u \in landed, uPhase'[u] = "queued", lost' = 0,
                      NEW i \in 1 .. Needs[u]
               PROVE  cacheMemory[uBlocks'[u][i]] = <<u, i>>
    BY Zenon DEF RunsItsOwnData
  <2>1. UrbSame(u)
    BY <1>1, Zenon DEF UrbOutside
  <2> QED BY <2>1, Zenon DEF UrbSame, RunsItsOwnData
<1>3. ASSUME ~dead', lost' = 0, NEW u \in Isoc
      PROVE  /\ uPhase'[u] \in {"data", "trbs", "queued"} =>
                  Written(cacheMemory, Pending, Len(cachePipe), u, uBlocks'[u], uNext'[u])
             /\ uPhase'[u] = "queued" => TrbsLast(Pending, Len(cachePipe), u, Range(uBlocks'[u]))
             /\ uPhase'[u] = "queued" /\ u \in landed =>
                  Clear(Pending, Len(cachePipe), Range(uBlocks'[u]))
  <2>0. ~dead /\ lost = 0
    BY <1>3, Zenon
  <2>1. CASE UrbSame(u)
    BY <2>0, <2>1, Zenon DEF DataInv, UrbSame, Owned
  <2>2. CASE UrbAccepted(u)
    <3>1. TrbsLast(Pending, Len(cachePipe), u, Range(uBlocks'[u]))
      <4>1. u \notin Accepted
        BY <2>2, Zenon DEF UrbAccepted, Accepted
      <4> QED BY <4>1 DEF AcceptedInv, TrbsLast
    <3> QED BY <1>1, <2>0, <2>2, <3>1 DEF DataInv, UrbAccepted
  <2>3. CASE UrbOutside(u)
    <3>1. Written(cacheMemory, Pending, Len(cachePipe), u, uBlocks'[u], 1)
      BY SMTT(30) DEF Written
    <3> QED BY <2>3, <3>1 DEF UrbOutside
  <2> QED BY <2>1, <2>2, <2>3
<1>4. DataInv'
  BY <1>3 DEF DataInv, PipeSame, Owned
<1> QED BY <1>2, <1>4

(* A step that submits write w.                                              *)
LEMMA DataGrows ==
  ASSUME OwnerInv, PhaseInv, AcceptedInv, DataInv, RunsItsOwnData, NEW w, PipeGrows(w),
         UNCHANGED <<cacheMemory, landed, dead, lost>>,
         \A u \in Isoc : \/ (UrbSame(u) \/ UrbAccepted(u)) /\ w.block \notin Owned(u)
                         \/ UrbWrites(u, w)
  PROVE  DataInv' /\ RunsItsOwnData'
<1> DEFINE n == Len(cachePipe)
<1>1. landed \subseteq Isoc /\ \A u \in Isoc : UrbAccepted(u) => u \notin landed
  BY Zenon DEF AcceptedInv, Accepted, UrbAccepted
<1>2. RunsItsOwnData'
  <2> SUFFICES ASSUME NEW u \in landed, uPhase'[u] = "queued", lost = 0,
                      NEW i \in 1 .. Needs[u]
               PROVE  cacheMemory[uBlocks'[u][i]] = <<u, i>>
    BY Zenon DEF RunsItsOwnData
  <2>1. UrbSame(u)
    BY <1>1 DEF UrbWrites
  <2> QED BY <2>1, Zenon DEF UrbSame, RunsItsOwnData
<1>3. /\ n \in Nat /\ Len(cachePipe') = n + 1 /\ \A t \in 1 .. n : Pending'[t] = Pending[t]
      /\ Pending'[n + 1] = w
  BY DEF PipeGrows
<1> HIDE DEF n
<1>4. ASSUME ~dead, lost = 0, NEW u \in Isoc
      PROVE  /\ uPhase'[u] \in {"data", "trbs", "queued"} =>
                  Written(cacheMemory, Pending', n + 1, u, uBlocks'[u], uNext'[u])
             /\ uPhase'[u] = "queued" => TrbsLast(Pending', n + 1, u, Range(uBlocks'[u]))
             /\ uPhase'[u] = "queued" /\ u \in landed => Clear(Pending', n + 1, Range(uBlocks'[u]))
  <2>0. /\ uPhase[u] \in {"data", "trbs", "queued"} =>
             Written(cacheMemory, Pending, n, u, uBlocks[u], uNext[u])
        /\ uPhase[u] = "queued" => TrbsLast(Pending, n, u, Owned(u))
        /\ uPhase[u] = "queued" /\ u \in landed => Clear(Pending, n, Owned(u))
    BY <1>4 DEF DataInv, n
  <2>1. /\ Written(cacheMemory, Pending, n, u, uBlocks[u], uNext[u])
             /\ (\A i \in 1 .. uNext[u] - 1 : w.block # uBlocks[u][i])
             => Written(cacheMemory, Pending', n + 1, u, uBlocks[u], uNext[u])
        /\ TrbsLast(Pending, n, u, Owned(u)) /\ w.block \notin Owned(u)
             => TrbsLast(Pending', n + 1, u, Owned(u))
        /\ Clear(Pending, n, Owned(u)) /\ w.block \notin Owned(u) => Clear(Pending', n + 1, Owned(u))
    BY <1>3, UrbGrows, Zenon
  <2>2. ASSUME UrbSame(u) \/ UrbAccepted(u), w.block \notin Owned(u),
               uPhase[u] \in {"data", "trbs", "queued"}
        PROVE  Written(cacheMemory, Pending', n + 1, u, uBlocks[u], uNext[u])
    BY <2>0, <2>1, <2>2, WroteItsOwn, Zenon
  <2>3. CASE UrbSame(u) /\ w.block \notin Owned(u)
    BY <2>0, <2>1, <2>2, <2>3, Zenon DEF UrbSame, Owned
  <2>4. CASE UrbAccepted(u) /\ w.block \notin Owned(u)
    <3>1. TrbsLast(Pending, n, u, Owned(u))
      <4>1. u \notin Accepted
        BY <2>4, Zenon DEF UrbAccepted, Accepted
      <4> QED BY <4>1 DEF AcceptedInv, TrbsLast, n
    <3> QED BY <1>1, <2>1, <2>2, <2>4, <3>1, Zenon DEF UrbAccepted, Owned
  <2>5. CASE UrbWrites(u, w)
    <3>1. Written(cacheMemory, Pending', n + 1, u, uBlocks[u], uNext[u])
      BY <2>0, <2>1, <2>5, Zenon DEF UrbWrites
    <3>2. Comes(cacheMemory, Pending', n + 1, uBlocks[u][uNext[u]], <<u, uNext[u]>>)
      BY <1>3, <2>5, ComesNew, Zenon DEF UrbWrites
    <3>3. uNext[u] \in Nat /\ uNext'[u] = uNext[u] + 1 /\ uBlocks'[u] = uBlocks[u]
          /\ uPhase'[u] # "queued"
      BY <2>5, Zenon DEF UrbWrites
    <3>4. \A i \in 1 .. uNext'[u] - 1 : i \in 1 .. uNext[u] - 1 \/ i = uNext[u]
      BY <3>3
    <3>5. Written(cacheMemory, Pending', n + 1, u, uBlocks'[u], uNext'[u])
      BY <3>1, <3>2, <3>3, <3>4, Zenon DEF Written
    <3> QED BY <3>3, <3>5
  <2> QED BY <2>3, <2>4, <2>5, Zenon
<1>5. DataInv'
  BY <1>3, <1>4, Zenon DEF DataInv, Owned
<1> QED BY <1>2, <1>5, Zenon

(* The oldest write arrives.                                                 *)
LEMMA DataArrives ==
  ASSUME OwnerInv, PhaseInv, AcceptedInv, DataInv, ~dead,
         Len(cachePipe) \in Nat \ {0}, Len(cachePipe') = Len(cachePipe) - 1,
         \A t \in 1 .. Len(cachePipe) - 1 : Pending'[t] = Pending[t + 1],
         NEW w \in Writes, w = Pending[1], Store(w),
         UNCHANGED <<uBlocks, uNext, uPhase, dead, lost, segment, usedBlocks>>
  PROVE  AcceptedInv' /\ DataInv' /\ RunsItsOwnData'
<1> DEFINE n == Len(cachePipe)
<1>1. /\ n \in Nat \ {0} /\ Len(cachePipe') = n - 1 /\ 1 \in 1 .. n
      /\ \A t \in 1 .. n - 1 : Pending'[t] = Pending[t + 1] /\ t + 1 \in 1 .. n
  OBVIOUS
<1>2. w.block \in 0 .. NumBlocks /\ w.content \in Contents /\ cacheMemory \in [Blocks -> Contents]
  BY DEF Writes, AcceptedInv
<1>3. /\ cacheMemory' \in [Blocks -> Contents]
      /\ \A b \in Blocks : Leaves(cacheMemory, cacheMemory', w, b)
      /\ landed' = landed \/ (w.block = 0 /\ landed' = landed \cup {w.content[1]})
  <2>1. CASE w.block = 0
    <3>1. UNCHANGED cacheMemory /\ landed' = landed \cup {w.content[1]}
      BY <2>1 DEF Store
    <3>2. \A b \in Blocks : w.block # b
      BY <2>1 DEF Blocks
    <3> QED BY <1>2, <2>1, <3>1, <3>2 DEF Leaves
  <2>2. CASE w.block # 0
    <3>1. cacheMemory' = [cacheMemory EXCEPT ![w.block] = w.content] /\ landed' = landed
      BY <2>2 DEF Store
    <3>2. w.block \in Blocks
      BY <1>2, <2>2 DEF Blocks
    <3> QED BY <1>2, <3>1, <3>2 DEF Leaves
  <2> QED BY <2>1, <2>2
<1>4. w.block = 0 => w.content[1] \in Accepted
  BY <1>1, Zenon DEF AcceptedInv
<1>5. AcceptedInv'
  <2>1. Accepted' = Accepted
    BY DEF Accepted
  <2>2. landed' \subseteq Accepted
    BY <1>3, <1>4 DEF AcceptedInv
  <2>3. \A t \in 1 .. n - 1 : Pending'[t].block = 0 => Pending'[t].content[1] \in Accepted
    BY <1>1 DEF AcceptedInv
  <2> QED BY <1>1, <1>3, <2>1, <2>2, <2>3 DEF AcceptedInv
<1> HIDE DEF n
<1>6. ASSUME lost = 0, NEW u \in Isoc
      PROVE  /\ uPhase[u] \in {"data", "trbs", "queued"} =>
                  Written(cacheMemory', Pending', n - 1, u, uBlocks[u], uNext[u])
             /\ uPhase[u] = "queued" => TrbsLast(Pending', n - 1, u, Owned(u))
             /\ uPhase[u] = "queued" /\ u \in landed' => Clear(Pending', n - 1, Owned(u))
  <2>1. /\ uPhase[u] \in {"data", "trbs", "queued"} =>
             Written(cacheMemory, Pending, n, u, uBlocks[u], uNext[u])
        /\ uPhase[u] = "queued" => TrbsLast(Pending, n, u, Owned(u))
        /\ uPhase[u] = "queued" /\ u \in landed => Clear(Pending, n, Owned(u))
    BY <1>6, Zenon DEF DataInv, n
  <2>2. /\ Written(cacheMemory, Pending, n, u, uBlocks[u], uNext[u])
             /\ (\A i \in 1 .. uNext[u] - 1 : Leaves(cacheMemory, cacheMemory', Pending[1], uBlocks[u][i]))
             => Written(cacheMemory', Pending', n - 1, u, uBlocks[u], uNext[u])
        /\ TrbsLast(Pending, n, u, Owned(u)) => TrbsLast(Pending', n - 1, u, Owned(u))
        /\ Clear(Pending, n, Owned(u)) => Clear(Pending', n - 1, Owned(u))
        /\ TrbsLast(Pending, n, u, Owned(u)) /\ Pending[1].block = 0 /\ Pending[1].content[1] = u
             => Clear(Pending', n - 1, Owned(u))
    BY <1>1, UrbArrives, Zenon
  <2>3. uPhase[u] \in {"data", "trbs", "queued"} =>
          \A i \in 1 .. uNext[u] - 1 : Leaves(cacheMemory, cacheMemory', Pending[1], uBlocks[u][i])
    BY <1>3, WroteItsOwn, Zenon
  <2>4. u \in landed' /\ u \notin landed => Pending[1].block = 0 /\ Pending[1].content[1] = u
    BY <1>3, SMTT(30)
  <2> QED BY <2>1, <2>2, <2>3, <2>4, Zenon
<1>7. DataInv'
  BY <1>1, <1>6, Zenon DEF DataInv, Owned
<1>8. OwnerInv' /\ PhaseInv'
  BY DEF OwnerInv, PhaseInv, Owned
<1>9. RunsItsOwnData'
  <2>1. ~dead'
    OBVIOUS
  <2>2. (OwnerInv /\ PhaseInv /\ AcceptedInv /\ DataInv /\ ~dead => RunsItsOwnData)'
    BY ClearMeansThere, PTL
  <2> QED BY <1>5, <1>7, <1>8, <2>1, <2>2
<1> QED BY <1>5, <1>7, <1>9
=============================================================================
