--------------------------- MODULE LifecycleProofs --------------------------
(***************************************************************************)
(* Proofs about Lifecycle, for any number of receive URBs, messages and    *)
(* suspends, wherever allocations fail.                                    *)
(***************************************************************************)
EXTENDS Lifecycle, TLAPS

(* The steps of the thread between the moment the host is ready and the      *)
(* moment it is taken down.                                                  *)
Serving ==
  \/ call = "connect" /\ at \in {"run", "isoch"}
  \/ call = "rest" /\ at \in {"up", "suspended"}
  \/ call \in {"suspend", "resume"}
  \/ call = "disconnect" /\ at = "remove hcd"

(* The memory of the host at each step of the thread.                        *)
MemoryInv ==
  /\ \A k \in 1 .. 15 : At("memory", MemInit[k]) =>
       \A j \in 1 .. (k - 1) : MemInit[j] \in held \cup Untested
  /\ Serving \/ At("connect", "ready") => HostMemory \subseteq held
  /\ \A k \in 1 .. 15 : At("cleanup", MemCleanup[k]) =>
       \A j \in 1 .. (k - 1) : MemCleanup[j] \notin held
  /\ PoolsOutlive

(* The host is there when it is used, and events are handled only then.      *)
ServingInv ==
  /\ Serving \/ At("connect", "ready") \/ call = "memory" => xhci = "live"
  /\ At("disconnect", "remove hcd") => condition = "unbinding"
  /\ condition \in {"bound", "binding"} /\ initReady => Serving
  /\ worker = "handling" => Serving

(* ehub_xhci_mem_init allocates fifteen structures, each of them once.       *)
LEMMA MemInitFacts ==
  /\ Len(MemInit) = 15
  /\ \A i, j \in 1 .. 15 : MemInit[i] = MemInit[j] => i = j
  /\ ToSet(MemInit) = {MemInit[k] : k \in 1 .. 15}
  /\ MemInit[1] = "page_pool"
  BY DEF MemInit, ToSet

(* ehub_xhci_mem_cleanup frees fifteen structures, each of them once.        *)
LEMMA MemCleanupFacts ==
  /\ Len(MemCleanup) = 15
  /\ \A i, j \in 1 .. 15 : MemCleanup[i] = MemCleanup[j] => i = j
  /\ MemCleanup[1] = "erst"
  BY DEF MemCleanup

(* A structure has one place in the order of ehub_xhci_mem_init ...          *)
LEMMA InitPlace ==
  ASSUME NEW i \in 1 .. 15, NEW j \in 1 .. 15, MemInit[i] = MemInit[j]
  PROVE  i = j
  BY MemInitFacts

(* ... and one in the order of ehub_xhci_mem_cleanup.                        *)
LEMMA CleanupPlace ==
  ASSUME NEW i \in 1 .. 15, NEW j \in 1 .. 15, MemCleanup[i] = MemCleanup[j]
  PROVE  i = j
  BY MemCleanupFacts

(* What comes after a structure in the order of ehub_xhci_mem_init ...       *)
LEMMA AdvanceInit ==
  ASSUME NEW k \in 1 .. 15, NEW ACTION end, Advance(MemInit, MemInit[k], end)
  PROVE  IF k = 15 THEN end ELSE Goto(call, MemInit[k + 1])
<1>1. (CHOOSE i \in 1 .. 15 : MemInit[i] = MemInit[k]) = k
  BY MemInitFacts
<1> QED
  BY <1>1, MemInitFacts DEF Advance

(* ... and in that of ehub_xhci_mem_cleanup.                                 *)
LEMMA AdvanceCleanup ==
  ASSUME NEW k \in 1 .. 15, NEW ACTION end, Advance(MemCleanup, MemCleanup[k], end)
  PROVE  IF k = 15 THEN end ELSE Goto(call, MemCleanup[k + 1])
<1>1. (CHOOSE i \in 1 .. 15 : MemCleanup[i] = MemCleanup[k]) = k
  BY MemCleanupFacts
<1> QED
  BY <1>1, MemCleanupFacts DEF Advance

(* Nothing serves the device before it is connected.                         *)
LEMMA ServingInvInit == LifeInit => ServingInv
  BY DEF LifeInit, ServingInv, Serving, At

(* No step of the life of the device breaks the invariant on who serves it.  *)
LEMMA ServingInvStep ==
  ASSUME "run" \notin Fails, EventOutlasts = FALSE, ServingInv, [LifeNext]_lifeVars
  PROVE  ServingInv'
<1> USE DEF At, Goto, hostVars, workVars, threadVars, ServingInv, Serving
<1>1. ASSUME NEW k \in 1 .. 15, AllocateMemory(MemInit[k]) PROVE ServingInv'
  <2>1. call' = "memory" \/ (call' = "connect" /\ at' = "ready") \/ call' = "cleanup"
    BY <1>1, AdvanceInit, Zenon DEF AllocateMemory
  <2> QED BY <1>1, <2>1, Zenon DEF AllocateMemory
<1>2. ASSUME NEW k \in 1 .. 15, CleanUp(MemCleanup[k]) PROVE ServingInv'
  <2>1. \/ call' = "cleanup"
        \/ call' = "connect" /\ at' = "free host"
        \/ call' = "disconnect" /\ at' = "put host"
    <3> DEFINE end == IF condition = "unbinding" THEN Goto("disconnect", "put host")
                      ELSE Goto("connect", "free host")
    <3>1. Advance(MemCleanup, MemCleanup[k], end)
      BY <1>2, Zenon DEF CleanUp
    <3>2. IF k = 15 THEN end ELSE Goto(call, MemCleanup[k + 1])
      BY <3>1, AdvanceCleanup, Zenon
    <3>3. CASE k = 15
      BY <3>2, <3>3, Zenon
    <3>4. CASE k # 15
      <4>1. call = "cleanup"
        BY <1>2, Zenon DEF CleanUp
      <4>2. Goto(call, MemCleanup[k + 1])
        BY <3>2, <3>4, Zenon
      <4> QED BY <4>1, <4>2
    <3> QED BY <3>3, <3>4, Zenon
  <2> QED BY <1>2, <2>1, Zenon DEF CleanUp
<1>3. CASE CreateContext
  BY <1>3 DEF CreateContext
<1>4. CASE Configure
  BY <1>4, Zenon DEF Configure
<1>5. CASE CreateUrbs
  BY <1>5 DEF CreateUrbs
<1>6. CASE CreateHost
  BY <1>6 DEF CreateHost
<1>7. CASE HostReady
  BY <1>7 DEF HostReady
<1>8. CASE RunHost
  BY <1>8, Zenon DEF RunHost
<1>9. CASE CreateIsoch
  BY <1>9, Zenon DEF CreateIsoch
<1>10. CASE FreeHost
  BY <1>10, Zenon DEF FreeHost
<1>11. CASE Refuse
  BY <1>11 DEF Refuse
<1>12. CASE Suspend
  BY <1>12 DEF Suspend
<1>13. CASE SuspendInterrupt
  BY <1>13 DEF SuspendInterrupt
<1>14. CASE Resume
  BY <1>14, Zenon DEF Resume, ErrorCheck
<1>15. CASE Unbind
  BY <1>15, Zenon DEF Unbind
<1>16. CASE RemoveHcd
  BY <1>16, Zenon DEF RemoveHcd
<1>17. CASE PutHost
  BY <1>17, Zenon DEF PutHost
<1>18. CASE Drain
  BY <1>18, Zenon DEF Drain
<1>19. CASE DestroyContext
  BY <1>19, Zenon DEF DestroyContext
<1>20. CASE ParseEvent
  BY <1>20, Zenon DEF ParseEvent, ErrorCheck, Gate
<1>21. CASE EventHandled
  BY <1>21, Zenon DEF EventHandled
<1>22. CASE Unplug
  BY <1>22, Zenon DEF Unplug
<1>23. CASE ConnectLoop("bulk", "interrupt") \/ ConnectLoop("interrupt", "host")
  <2>1. /\ call = "connect" /\ at \in {"bulk", "interrupt"}
        /\ call' = "connect" /\ at' \in {"bulk", "interrupt", "host", "refuse"}
    BY <1>23, Zenon DEF ConnectLoop, StartLoop
  <2> QED BY <1>23, <2>1 DEF ConnectLoop
<1>24. CASE \/ ResumeLoop("bulk", Goto("resume", "interrupt"))
           \/ ResumeLoop("interrupt", Goto("rest", "up"))
  BY <1>24, Zenon DEF ResumeLoop, StartLoop
<1>25. CASE \/ DestroyLoop("bulk", Goto("stop", "interrupt"))
           \/ DestroyLoop("interrupt", Goto("disconnect", "free context"))
  <2>1. /\ call = "stop"
        /\ call' = "stop" \/ (call' = "disconnect" /\ at' = "free context")
    BY <1>25, Zenon DEF DestroyLoop
  <2>2. UNCHANGED <<condition, xhci, initReady, worker>>
    BY <1>25, Zenon DEF DestroyLoop
  <2> QED BY <2>1, <2>2, Zenon
<1>26. ASSUME NEW l \in Loops, NEW k \in 1 .. LoopUrbs, ReceiveLife(l, k)
       PROVE  ServingInv'
  BY <1>26, Zenon DEF ReceiveLife
<1>27. CASE UNCHANGED lifeVars
  BY <1>27, Zenon DEF lifeVars
<1> QED
  BY MemInitFacts, MemCleanupFacts, <1>1, <1>2, <1>3, <1>4, <1>5, <1>6, <1>7, <1>8, <1>9, <1>10, <1>11, <1>12, <1>13, <1>14, <1>15, <1>16, <1>17, <1>18, <1>19, <1>20, <1>21, <1>22, <1>23, <1>24, <1>25, <1>26, <1>27, Zenon DEF LifeNext

Memory == ToSet(MemInit)

(* The structures by name; the pool of a structure is one of them.           *)
LEMMA MemoryFacts ==
  /\ Memory = {"page_pool", "dcbaa", "small_streams_pool", "medium_streams_pool",
               "segment_pool", "device_pool", "cmd_ring", "lpm_command", "event_ring",
               "erst", "scratchpad", "port_array", "rh_bw", "ext_caps", "usb2_ports"}
  /\ \A r \in Memory : Pool(r) \in Memory
  /\ \A r : r \notin Memory => Pool(r) = r
<1>1. Memory = {"page_pool", "dcbaa", "small_streams_pool", "medium_streams_pool",
               "segment_pool", "device_pool", "cmd_ring", "lpm_command", "event_ring",
               "erst", "scratchpad", "port_array", "rh_bw", "ext_caps", "usb2_ports"}
  BY DEF Memory, MemInit, ToSet
<1> QED
  BY <1>1 DEF Pool

(* A pool is made before what is allocated from it ...                       *)
LEMMA PoolBefore ==
  ASSUME NEW k \in 1 .. 15, Pool(MemInit[k]) # MemInit[k]
  PROVE  \E j \in 1 .. (k - 1) : MemInit[j] = Pool(MemInit[k]) /\ MemInit[j] \notin Untested
  BY DEF MemInit, Pool, Untested

(* ... and destroyed after it was released.                                  *)
LEMMA PoolAfter ==
  ASSUME NEW k \in 1 .. 15, NEW r, Pool(r) = MemCleanup[k], r # MemCleanup[k]
  PROVE  \E j \in 1 .. (k - 1) : MemCleanup[j] = r
  BY DEF MemCleanup, Pool

(* A step that touches no structure of the host.                             *)
LEMMA PoolsKept ==
  ASSUME PoolsOutlive, held' \cap Memory = held \cap Memory
  PROVE  PoolsOutlive'
  BY MemoryFacts DEF PoolsOutlive

(* No structure is held in the first state.                                  *)
LEMMA MemoryInvInit == LifeInit => MemoryInv
  BY DEF LifeInit, MemoryInv, Serving, At, PoolsOutlive

(* A step outside ehub_xhci_mem_init and ehub_xhci_mem_cleanup.              *)
LEMMA MemoryInvKept ==
  ASSUME MemoryInv, held' \cap Memory = held \cap Memory,
         call' \notin {"memory", "cleanup"},
         Serving' => Serving \/ At("connect", "ready"), ~At("connect", "ready")'
  PROVE  MemoryInv'
<1>1. PoolsOutlive'
  BY PoolsKept DEF MemoryInv
<1>2. HostMemory \subseteq held => HostMemory \subseteq held'
  BY DEF HostMemory, Memory
<1> QED
  BY <1>1, <1>2 DEF MemoryInv, At

(* No step breaks the invariant on the structures and the pools they are     *)
(* taken from.                                                               *)
LEMMA MemoryInvStep ==
  ASSUME MemoryInv, [LifeNext]_lifeVars
  PROVE  MemoryInv'
<1> USE DEF At, Goto, threadVars
<1>1. ASSUME NEW k \in 1 .. 15, AllocateMemory(MemInit[k]) PROVE MemoryInv'
  <2>1. /\ call = "memory" /\ at = MemInit[k]
        /\ \A j \in 1 .. (k - 1) : MemInit[j] \in held \cup Untested
    BY <1>1 DEF AllocateMemory, MemoryInv
  <2>2. ASSUME Advance(MemInit, MemInit[k], Goto("connect", "ready")),
               \/ held' = held \cup {MemInit[k]}
               \/ held' = held /\ MemInit[k] \in Untested
        PROVE  MemoryInv'
    <3>1. \A j \in 1 .. k : MemInit[j] \in held' \cup Untested
      BY <2>1, <2>2, SMTT(30)
    <3>2. PoolsOutlive'
      <4>1. MemInit[k] \in held' => Pool(MemInit[k]) \in held'
        BY <3>1, PoolBefore
      <4> QED BY <4>1, <2>2, SMTT(30) DEF PoolsOutlive, MemoryInv
    <3>3. CASE k = 15
      <4>1. call' = "connect" /\ at' = "ready"
        BY <2>2, <3>3, AdvanceInit, Zenon
      <4>2. HostMemory \subseteq held'
        BY <3>1, <3>3, MemInitFacts DEF HostMemory
      <4> QED BY <3>2, <4>1, <4>2, Zenon DEF MemoryInv, Serving
    <3>4. CASE k # 15
      <4>1. Goto(call, MemInit[k + 1])
        BY <2>2, <3>4, AdvanceInit
      <4>2. call' = "memory" /\ at' = MemInit[k + 1]
        BY <2>1, <4>1
      <4>3. ASSUME NEW i \in 1 .. 15, at' = MemInit[i]
            PROVE  \A j \in 1 .. (i - 1) : MemInit[j] \in held' \cup Untested
        <5>1. k + 1 \in 1 .. 15 /\ MemInit[i] = MemInit[k + 1]
          BY <4>2, <4>3, <3>4, SMTT(30)
        <5>2. i = k + 1
          BY <5>1, InitPlace
        <5> QED BY <5>2, <3>1
      <4> QED BY <3>2, <4>2, <4>3, Zenon DEF MemoryInv, Serving
    <3> QED BY <3>3, <3>4
  <2>3. ASSUME NEW made \in SUBSET TestedWith(MemInit[k]), held' = held \cup made,
               MemInit[k] \notin Untested, Goto("cleanup", MemCleanup[1])
        PROVE  MemoryInv'
    <3>1. ASSUME NEW i \in 1 .. 15, at' = MemCleanup[i]
          PROVE  \A j \in 1 .. (i - 1) : MemCleanup[j] \notin held'
      <4>1. 1 \in 1 .. 15 /\ MemCleanup[i] = MemCleanup[1]
        BY <2>3, <3>1
      <4>2. i = 1
        BY ONLY <4>1, CleanupPlace, i \in 1 .. 15
      <4> QED BY <4>2
    <3>2. PoolsOutlive'
      <4>1. Pool(MemInit[k]) = MemInit[k] \/ Pool(MemInit[k]) \in held
        BY <2>1, PoolBefore
      <4>2. \A r \in made : r = MemInit[k] \/ Pool(r) = r
        BY <2>3 DEF TestedWith, Pool
      <4>3. \A r \in made : Pool(r) \in held'
        BY <2>3, <4>1, <4>2
      <4> QED BY <2>3, <4>3 DEF MemoryInv, PoolsOutlive
    <3> QED BY <2>3, <3>1, <3>2, Zenon DEF MemoryInv, Serving
  <2> QED
    BY <1>1, <2>2, <2>3 DEF AllocateMemory, Allocate
<1>2. ASSUME NEW k \in 1 .. 15, CleanUp(MemCleanup[k]) PROVE MemoryInv'
  <2> DEFINE end == IF condition = "unbinding" THEN Goto("disconnect", "put host")
                    ELSE Goto("connect", "free host")
  <2>1. /\ call = "cleanup" /\ at = MemCleanup[k] /\ held' = held \ {MemCleanup[k]}
    BY <1>2, Zenon DEF CleanUp, Release
  <2>2. \A j \in 1 .. k : MemCleanup[j] \notin held'
    BY <2>1 DEF MemoryInv
  <2>3. PoolsOutlive'
    BY <2>1, <2>2, PoolAfter DEF PoolsOutlive, MemoryInv
  <2>4. IF k = 15 THEN end ELSE Goto(call, MemCleanup[k + 1])
    BY <1>2, AdvanceCleanup, Zenon DEF CleanUp
  <2>5. CASE k = 15
    BY <2>3, <2>4, <2>5, Zenon DEF MemoryInv, Serving
  <2>6. CASE k # 15
    <3>1. Goto(call, MemCleanup[k + 1])
      BY <2>4, <2>6
    <3>2. call' = "cleanup" /\ at' = MemCleanup[k + 1]
      BY <2>1, <3>1
    <3>3. ASSUME NEW i \in 1 .. 15, at' = MemCleanup[i]
          PROVE  \A j \in 1 .. (i - 1) : MemCleanup[j] \notin held'
      <4>1. k + 1 \in 1 .. 15 /\ MemCleanup[i] = MemCleanup[k + 1]
        BY <3>2, <3>3, <2>6, SMTT(30)
      <4>2. i = k + 1
        BY <4>1, CleanupPlace
      <4> QED BY <4>2, <2>2
    <3> QED BY <2>3, <3>2, <3>3, Zenon DEF MemoryInv, Serving
  <2> QED BY <2>5, <2>6
<1>3. CASE CreateHost
  <2>1. \A i \in 1 .. 15 : at' = MemInit[i] => i = 1
    BY <1>3, MemInitFacts DEF CreateHost
  <2>2. held' \cap Memory = held \cap Memory
    BY <1>3, MemoryFacts DEF CreateHost
  <2>3. PoolsOutlive'
    BY <2>2, PoolsKept DEF MemoryInv
  <2> QED BY <1>3, <2>1, <2>3 DEF CreateHost, MemoryInv, Serving
<1>4. CASE RemoveHcd
  <2>1. ASSUME NEW i \in 1 .. 15, at' = MemCleanup[i]
        PROVE  \A j \in 1 .. (i - 1) : MemCleanup[j] \notin held'
    <3>1. MemCleanup[1] = "erst" /\ at' = "erst"
      BY <1>4, MemCleanupFacts, Zenon DEF RemoveHcd
    <3>2. 1 \in 1 .. 15 /\ MemCleanup[i] = MemCleanup[1]
      BY <2>1, <3>1
    <3>3. i = 1
      BY ONLY <3>2, CleanupPlace, i \in 1 .. 15
    <3> QED BY <3>3
  <2>2. PoolsOutlive'
    BY <1>4, Zenon DEF RemoveHcd, MemoryInv, PoolsOutlive
  <2> QED BY <1>4, <2>1, <2>2, Zenon DEF RemoveHcd, MemoryInv, Serving
<1>5. CASE CreateContext
  <2>1. held' \cap Memory = held \cap Memory
    BY <1>5, MemoryFacts DEF CreateContext, Allocate, Release
  <2> QED BY <1>5, <2>1, MemoryInvKept DEF CreateContext, Serving
<1>6. CASE Configure
  <2>1. held' \cap Memory = held \cap Memory
    BY <1>6, MemoryFacts DEF Configure, Allocate, Release
  <2> QED BY <1>6, <2>1, MemoryInvKept, Zenon DEF Configure, Serving
<1>7. CASE CreateUrbs
  <2>1. held' \cap Memory = held \cap Memory
    BY <1>7, MemoryFacts DEF CreateUrbs, Allocate, Release
  <2> QED BY <1>7, <2>1, MemoryInvKept DEF CreateUrbs, Serving
<1>8. CASE RunHost
  <2>1. held' \cap Memory = held \cap Memory
    BY <1>8, MemoryFacts, Zenon DEF RunHost, Allocate, Release
  <2> QED BY <1>8, <2>1, MemoryInvKept, Zenon DEF RunHost, Serving
<1>9. CASE CreateIsoch
  <2>1. held' \cap Memory = held \cap Memory
    BY <1>9, MemoryFacts, Zenon DEF CreateIsoch, Allocate, Release
  <2> QED BY <1>9, <2>1, MemoryInvKept, Zenon DEF CreateIsoch, Serving
<1>10. CASE FreeHost
  <2>1. held' \cap Memory = held \cap Memory
    BY <1>10, MemoryFacts, Zenon DEF FreeHost, Allocate, Release
  <2> QED BY <1>10, <2>1, MemoryInvKept, Zenon DEF FreeHost, Serving
<1>11. CASE Refuse
  <2>1. held' \cap Memory = held \cap Memory
    BY <1>11, MemoryFacts DEF Refuse, Allocate, Release
  <2> QED BY <1>11, <2>1, MemoryInvKept DEF Refuse, Serving
<1>12. CASE Suspend
  <2>1. held' \cap Memory = held \cap Memory
    BY <1>12, MemoryFacts DEF Suspend, Allocate, Release
  <2> QED BY <1>12, <2>1, MemoryInvKept DEF Suspend, Serving
<1>13. CASE SuspendInterrupt
  <2>1. held' \cap Memory = held \cap Memory
    BY <1>13, MemoryFacts DEF SuspendInterrupt, Allocate, Release
  <2> QED BY <1>13, <2>1, MemoryInvKept DEF SuspendInterrupt, Serving
<1>14. CASE Resume
  <2>1. held' \cap Memory = held \cap Memory
    BY <1>14, MemoryFacts DEF Resume, Allocate, Release
  <2> QED BY <1>14, <2>1, MemoryInvKept, Zenon DEF Resume, Serving
<1>15. CASE Unbind
  <2>1. held' \cap Memory = held \cap Memory
    BY <1>15, MemoryFacts, Zenon DEF Unbind, Allocate, Release
  <2> QED BY <1>15, <2>1, MemoryInvKept, Zenon DEF Unbind, Serving
<1>16. CASE PutHost
  <2>1. held' \cap Memory = held \cap Memory
    BY <1>16, MemoryFacts, Zenon DEF PutHost, Allocate, Release
  <2> QED BY <1>16, <2>1, MemoryInvKept, Zenon DEF PutHost, Serving
<1>17. CASE Drain
  <2>1. held' \cap Memory = held \cap Memory
    BY <1>17, MemoryFacts, Zenon DEF Drain, Allocate, Release
  <2> QED BY <1>17, <2>1, MemoryInvKept, Zenon DEF Drain, Serving
<1>18. CASE DestroyContext
  <2>1. held' \cap Memory = held \cap Memory
    BY <1>18, MemoryFacts, Zenon DEF DestroyContext, Allocate, Release
  <2> QED BY <1>18, <2>1, MemoryInvKept, Zenon DEF DestroyContext, Serving
<1>19. CASE HostReady
  BY <1>19, MemoryInvKept DEF HostReady, Serving
<1>20. CASE ConnectLoop("bulk", "interrupt") \/ ConnectLoop("interrupt", "host")
  <2>1. /\ call' = "connect" /\ at' \in {"bulk", "interrupt", "host", "refuse"}
        /\ UNCHANGED held
    BY <1>20, Zenon DEF ConnectLoop, StartLoop
  <2> QED BY <2>1, MemoryInvKept, Zenon DEF Serving
<1>21. CASE \/ ResumeLoop("bulk", Goto("resume", "interrupt"))
           \/ ResumeLoop("interrupt", Goto("rest", "up"))
  BY <1>21, MemoryInvKept, Zenon DEF ResumeLoop, StartLoop, Serving
<1>22. CASE \/ DestroyLoop("bulk", Goto("stop", "interrupt"))
           \/ DestroyLoop("interrupt", Goto("disconnect", "free context"))
  <2>1. /\ call' = "stop" \/ (call' = "disconnect" /\ at' = "free context")
        /\ UNCHANGED held
    BY <1>22, Zenon DEF DestroyLoop
  <2> QED BY <2>1, MemoryInvKept, Zenon DEF Serving
<1>23. CASE UNCHANGED <<call, at, held>>
  BY <1>23, Zenon DEF MemoryInv, Serving, PoolsOutlive
<1>24. ASSUME NEW l \in Loops, NEW k \in 1 .. LoopUrbs, ReceiveLife(l, k)
       PROVE  UNCHANGED <<call, at, held>>
  BY <1>24 DEF ReceiveLife
<1>25. ParseEvent \/ EventHandled \/ Unplug \/ UNCHANGED lifeVars => UNCHANGED <<call, at, held>>
  BY DEF ParseEvent, EventHandled, Unplug, lifeVars
<1> QED
  BY MemInitFacts, MemCleanupFacts, <1>1, <1>2, <1>3, <1>4, <1>5, <1>6, <1>7, <1>8, <1>9, <1>10, <1>11, <1>12, <1>13, <1>14, <1>15, <1>16, <1>17, <1>18, <1>19, <1>20, <1>21, <1>22, <1>23, <1>24, <1>25, Zenon DEF LifeNext

-----------------------------------------------------------------------------
(* The receive URBs: none that was destroyed stays in an array.              *)
LoopInv ==
  /\ loop \in [Loops -> [1 .. LoopUrbs -> {"none", "flying", "spent"}]]
  /\ ~twice

(* No URB of a loop flies in the first state.                                *)
LEMMA LoopInvInit == LifeInit => LoopInv
  BY DEF LifeInit, LoopInv, NoLoop

(* An entry of a loop that changes leaves the loops well formed.             *)
LEMMA LoopEntry ==
  ASSUME LoopInv, NEW l \in Loops, NEW k, NEW v \in {"flying", "spent"}
  PROVE  [loop EXCEPT ![l][k] = v] \in [Loops -> [1 .. LoopUrbs -> {"none", "flying", "spent"}]]
<1>1. loop[l] \in [1 .. LoopUrbs -> {"none", "flying", "spent"}]
  BY DEF LoopInv
<1>2. [loop[l] EXCEPT ![k] = v] \in [1 .. LoopUrbs -> {"none", "flying", "spent"}]
  BY <1>1, Zenon
<1> QED BY <1>2 DEF LoopInv

(* Starting a loop leaves the loops well formed.                             *)
LEMMA StartLoopKeeps ==
  ASSUME "submit" \notin Fails, NEW l \in Loops, NEW ACTION started, NEW ACTION failed,
         LoopInv, StartLoop(l, started, failed)
  PROVE  loop' \in [Loops -> [1 .. LoopUrbs -> {"none", "flying", "spent"}]]
<1> DEFINE m == Min({k \in 1 .. LoopUrbs : loop[l][k] = "none"})
<1>1. loop' = loop \/ loop' = [loop EXCEPT ![l][m] = "flying"]
  BY DEF StartLoop
<1>2. [loop EXCEPT ![l][m] = "flying"] \in [Loops -> [1 .. LoopUrbs -> {"none", "flying", "spent"}]]
  <2> HIDE DEF m
  <2> QED BY LoopEntry, Zenon
<1>3. loop \in [Loops -> [1 .. LoopUrbs -> {"none", "flying", "spent"}]]
  BY DEF LoopInv
<1> HIDE DEF m
<1> QED BY <1>1, <1>2, <1>3, Zenon

(* Stopping a loop leaves the loops well formed and that loop empty.         *)
LEMMA StopLoopKeeps ==
  ASSUME NEW l \in Loops, LoopInv, StopLoop(l)
  PROVE  LoopInv' /\ loop'[l] = NoLoop
  BY Zenon DEF LoopInv, StopLoop, Emptied, NoLoop

(* No step breaks the invariant on the URBs of the loops.                    *)
LEMMA LoopInvStep ==
  ASSUME "submit" \notin Fails, LoopInv, [LifeNext]_lifeVars
  PROVE  LoopInv'
<1> USE DEF Loops
<1>1. ASSUME NEW l \in Loops, NEW next, ConnectLoop(l, next) PROVE LoopInv'
  BY <1>1, StartLoopKeeps DEF ConnectLoop, LoopInv
<1>2. ASSUME NEW l \in Loops, NEW ACTION next, ResumeLoop(l, next) PROVE LoopInv'
  BY <1>2, StartLoopKeeps DEF ResumeLoop, LoopInv
<1>3. ASSUME NEW l \in Loops, NEW ACTION next, DestroyLoop(l, next) PROVE LoopInv'
  BY <1>3, StopLoopKeeps DEF DestroyLoop
<1>4. CASE Suspend \/ SuspendInterrupt
  BY <1>4, StopLoopKeeps, Zenon DEF Suspend, SuspendInterrupt
<1>5. CASE Unbind
  BY <1>5, Zenon DEF Unbind, LoopInv
<1>6. ASSUME NEW l \in Loops, NEW k \in 1 .. LoopUrbs, ReceiveLife(l, k)
      PROVE  LoopInv'
  <2>1. UNCHANGED twice /\ (loop' = loop \/ loop' = [loop EXCEPT ![l][k] = "spent"])
    BY <1>6 DEF ReceiveLife
  <2>2. [loop EXCEPT ![l][k] = "spent"] \in [Loops -> [1 .. LoopUrbs -> {"none", "flying", "spent"}]]
    BY LoopEntry, Zenon
  <2> QED BY <2>1, <2>2, Zenon DEF LoopInv
<1>7. CASE UNCHANGED <<loop, twice>>
  BY <1>7 DEF LoopInv
<1>8. CASE CreateContext \/ Configure \/ CreateUrbs \/ CreateHost \/ HostReady \/ RunHost
           \/ CreateIsoch \/ FreeHost \/ Refuse \/ Resume
  BY <1>7, <1>8, Zenon DEF CreateContext, Configure, CreateUrbs, CreateHost, HostReady, RunHost,
     CreateIsoch, FreeHost, Refuse, Resume
<1>9. CASE RemoveHcd \/ PutHost \/ Drain \/ DestroyContext \/ ParseEvent \/ EventHandled
           \/ Unplug \/ UNCHANGED lifeVars
  BY <1>7, <1>9, Zenon DEF RemoveHcd, PutHost, Drain, DestroyContext, ParseEvent, EventHandled,
     Unplug, lifeVars
<1>10. ASSUME NEW r, AllocateMemory(r) \/ CleanUp(r) PROVE LoopInv'
  BY <1>7, <1>10, Zenon DEF AllocateMemory, CleanUp
<1> QED
  BY <1>1, <1>2, <1>3, <1>4, <1>5, <1>6, <1>8, <1>9, <1>10, Zenon DEF LifeNext

-----------------------------------------------------------------------------
(* Whatever happens to its URBs, each loop keeps its array.                  *)
LoopShape == loop = [l \in Loops |-> loop[l]]

(* The loops are a function in the first state ...                           *)
LEMMA LoopShapeInit == LifeInit => LoopShape
  BY DEF LifeInit, LoopShape

(* ... and stay one.                                                         *)
LEMMA LoopShapeStep ==
  ASSUME LoopShape, [LifeNext]_lifeVars
  PROVE  LoopShape'
<1> USE DEF LoopShape
<1>1. ASSUME NEW l, NEW v, loop' = [loop EXCEPT ![l] = v] PROVE LoopShape'
  BY <1>1
<1>2. CASE UNCHANGED loop
  BY <1>2
<1>3. ASSUME NEW l, NEW ACTION started, NEW ACTION failed, StartLoop(l, started, failed)
      PROVE  LoopShape'
  BY <1>3, <1>1, <1>2 DEF StartLoop
<1>4. ASSUME NEW l, StopLoop(l) PROVE LoopShape'
  BY <1>4, <1>1 DEF StopLoop
<1>5. ASSUME NEW l, NEW next, ConnectLoop(l, next) PROVE LoopShape'
  BY <1>5, <1>3 DEF ConnectLoop
<1>6. ASSUME NEW l, NEW ACTION next, ResumeLoop(l, next) PROVE LoopShape'
  BY <1>6, <1>3 DEF ResumeLoop
<1>7. ASSUME NEW l, NEW ACTION next, DestroyLoop(l, next) PROVE LoopShape'
  BY <1>7, <1>4 DEF DestroyLoop
<1>8. CASE Suspend \/ SuspendInterrupt
  BY <1>8, <1>4, Zenon DEF Suspend, SuspendInterrupt
<1>9. CASE Unbind
  BY <1>9, Zenon DEF Unbind
<1>10. ASSUME NEW l, NEW k, ReceiveLife(l, k) PROVE LoopShape'
  BY <1>10, <1>1, <1>2 DEF ReceiveLife
<1>11. CASE CreateContext \/ Configure \/ CreateUrbs \/ CreateHost \/ HostReady \/ RunHost
            \/ CreateIsoch \/ FreeHost \/ Refuse \/ Resume
  BY <1>2, <1>11, Zenon DEF CreateContext, Configure, CreateUrbs, CreateHost, HostReady, RunHost,
     CreateIsoch, FreeHost, Refuse, Resume
<1>12. CASE RemoveHcd \/ PutHost \/ Drain \/ DestroyContext \/ ParseEvent \/ EventHandled
            \/ Unplug \/ UNCHANGED lifeVars
  BY <1>2, <1>12, Zenon DEF RemoveHcd, PutHost, Drain, DestroyContext, ParseEvent, EventHandled,
     Unplug, lifeVars
<1>13. ASSUME NEW r, AllocateMemory(r) \/ CleanUp(r) PROVE LoopShape'
  BY <1>2, <1>13, Zenon DEF AllocateMemory, CleanUp
<1> QED
  BY <1>5, <1>6, <1>7, <1>8, <1>9, <1>10, <1>11, <1>12, <1>13, Zenon DEF LifeNext

(* Stopping a loop empties that loop and no other.                           *)
LEMMA StopLoopEmpties ==
  ASSUME NEW l \in Loops, LoopShape, StopLoop(l)
  PROVE  loop'[l] = NoLoop /\ \A m \in Loops : m # l => loop'[m] = loop[m]
<1>1. DOMAIN loop = Loops
  BY DEF LoopShape
<1> QED BY <1>1 DEF StopLoop, Emptied

Others == {"context", "urbs", "hcd", "cache", "isoch urbs"}

(* The steps of a disconnect after the clean-up, the latest first.           *)
Gone == At("rest", "gone")
LoopsGone == Gone \/ At("disconnect", "free context")
Drained == LoopsGone \/ call = "stop"
Put == Drained \/ At("disconnect", "drain")
CleanedUp == Put \/ At("disconnect", "put host") \/ At("connect", "free host")

(* What is left of the driver's structures at each of them.                  *)
ReleaseInv ==
  /\ held \subseteq Memory \cup Others
  /\ CleanedUp => held \cap Memory = {}
  /\ Put => held \cap {"hcd", "cache"} = {}
  /\ Drained => "isoch urbs" \notin held
  /\ call = "stop" => at \in Loops
  /\ ~At("connect", "start failed")
  /\ LoopsGone \/ At("stop", "interrupt") => loop["bulk"] = NoLoop
  /\ LoopsGone => loop["interrupt"] = NoLoop
  /\ Gone => held = {}

(* Nothing is released in the first state.                                   *)
LEMMA ReleaseInvInit == LifeInit => ReleaseInv
  BY DEF LifeInit, ReleaseInv, CleanedUp, Put, Drained, LoopsGone, Gone, At

(* The last step of ehub_xhci_mem_cleanup leaves none of the structures.     *)
LEMMA MemoryReleased ==
  ASSUME MemoryInv, CleanUp(MemCleanup[15])
  PROVE  held' \cap Memory = {}
<1>1. \A j \in 1 .. 15 : MemCleanup[j] \notin held'
  <2>1. At("cleanup", MemCleanup[15]) /\ held' = held \ {MemCleanup[15]}
    BY Zenon DEF CleanUp, Release
  <2>2. \A j \in 1 .. (15 - 1) : MemCleanup[j] \notin held
    <3>1. 15 \in 1 .. 15
      OBVIOUS
    <3> QED BY <2>1, <3>1 DEF MemoryInv
  <2>3. \A j \in 1 .. 15 : j = 15 \/ j \in 1 .. (15 - 1)
    OBVIOUS
  <2> QED BY <2>1, <2>2, <2>3
<1>2. Memory = {MemCleanup[j] : j \in 1 .. 15}
  BY MemoryFacts DEF MemCleanup
<1> QED BY <1>1, <1>2

(* No step breaks the invariant on what is released when.                    *)
LEMMA ReleaseInvStep ==
  ASSUME "run" \notin Fails, MemoryInv, LoopShape, ReleaseInv, [LifeNext]_lifeVars
  PROVE  ReleaseInv'
<1> USE DEF At, Goto, threadVars, ReleaseInv, CleanedUp, Put, Drained, LoopsGone, Gone
<1>1. ASSUME NEW k \in 1 .. 15, AllocateMemory(MemInit[k]) PROVE ReleaseInv'
  <2>1. call' = "memory" \/ (call' = "connect" /\ at' = "ready") \/ call' = "cleanup"
    BY <1>1, AdvanceInit, Zenon DEF AllocateMemory
  <2>2. MemInit[k] \in Memory
    BY MemInitFacts, Zenon DEF Memory
  <2>3. TestedWith(MemInit[k]) \subseteq Memory
    BY <2>2, MemoryFacts, Zenon DEF TestedWith
  <2>4. held' \subseteq Memory \cup Others
    BY <1>1, <2>2, <2>3 DEF AllocateMemory, Allocate
  <2> QED BY <2>1, <2>4, Zenon
<1>2. ASSUME NEW k \in 1 .. 15, CleanUp(MemCleanup[k]) PROVE ReleaseInv'
  <2> DEFINE end == IF condition = "unbinding" THEN Goto("disconnect", "put host")
                    ELSE Goto("connect", "free host")
  <2>1. held' \subseteq Memory \cup Others
    BY <1>2, Zenon DEF CleanUp, Release
  <2>2. IF k = 15 THEN end ELSE Goto(call, MemCleanup[k + 1])
    BY <1>2, AdvanceCleanup, Zenon DEF CleanUp
  <2>3. CASE k = 15
    <3>1. held' \cap Memory = {}
      BY <1>2, <2>3, MemoryReleased, Zenon
    <3> QED BY <2>1, <2>2, <2>3, <3>1, Zenon
  <2>4. CASE k # 15
    <3>1. call' = "cleanup"
      <4>1. call = "cleanup"
        BY <1>2, Zenon DEF CleanUp
      <4>2. Goto(call, MemCleanup[k + 1])
        BY <2>2, <2>4, Zenon
      <4> QED BY <4>1, <4>2
    <3> QED BY <2>1, <3>1, Zenon
  <2> QED BY <2>3, <2>4, Zenon
<1>3. CASE CreateContext
  BY <1>3, Zenon DEF CreateContext, Allocate, Others
<1>4. CASE Configure
  BY <1>4, Zenon DEF Configure
<1>5. CASE CreateUrbs
  BY <1>5, Zenon DEF CreateUrbs, Allocate, Others
<1>6. CASE CreateHost
  BY <1>6, Zenon DEF CreateHost, Others
<1>7. CASE HostReady
  BY <1>7 DEF HostReady
<1>8. CASE RunHost
  BY <1>8, Zenon DEF RunHost
<1>9. CASE CreateIsoch
  BY <1>9, Zenon DEF CreateIsoch, Allocate, Others
<1>10. CASE FreeHost
  BY <1>10, Zenon DEF FreeHost
<1>11. CASE Refuse
  BY <1>11 DEF Refuse, Release
<1>12. CASE Suspend \/ SuspendInterrupt \/ Resume
  BY <1>12, Zenon DEF Suspend, SuspendInterrupt, Resume
<1>13. CASE Unbind
  BY <1>13, Zenon DEF Unbind
<1>14. CASE RemoveHcd
  BY <1>14, Zenon DEF RemoveHcd
<1>15. CASE PutHost
  BY <1>15, Zenon DEF PutHost
<1>16. CASE Drain
  BY <1>16, Zenon DEF Drain, Release, Loops
<1>17. CASE DestroyLoop("bulk", Goto("stop", "interrupt"))
  <2>1. call = "stop" /\ Goto("stop", "interrupt") /\ UNCHANGED held /\ StopLoop("bulk")
    BY <1>17, Zenon DEF DestroyLoop
  <2>2. loop'["bulk"] = NoLoop
    BY <2>1, StopLoopEmpties, Zenon DEF Loops
  <2> QED BY <2>1, <2>2, Zenon DEF Loops
<1>18. CASE DestroyLoop("interrupt", Goto("disconnect", "free context"))
  <2>1. /\ At("stop", "interrupt") /\ Goto("disconnect", "free context")
        /\ UNCHANGED held /\ StopLoop("interrupt")
    BY <1>18, Zenon DEF DestroyLoop
  <2>2. loop'["interrupt"] = NoLoop
    BY <2>1, StopLoopEmpties, Zenon DEF Loops
  <2>3. loop'["bulk"] = loop["bulk"]
    BY <2>1, StopLoopEmpties, Zenon DEF Loops
  <2> QED BY <2>1, <2>2, <2>3, Zenon
<1>19. CASE DestroyContext
  BY <1>19, Zenon DEF DestroyContext, Others
<1>20. ASSUME NEW l \in Loops, NEW k \in 1 .. LoopUrbs, ReceiveLife(l, k)
       PROVE  ReleaseInv'
  <2>1. loop[l] # NoLoop
    BY <1>20, Zenon DEF ReceiveLife, NoLoop
  <2>2. \A m \in Loops : m # l => loop'[m] = loop[m]
    BY <1>20, Zenon DEF ReceiveLife, LoopShape
  <2>3. UNCHANGED <<call, at, held>>
    BY <1>20, Zenon DEF ReceiveLife
  <2> QED BY <2>1, <2>2, <2>3, Zenon DEF Loops
<1>21. CASE ParseEvent \/ EventHandled \/ Unplug \/ UNCHANGED lifeVars
  BY <1>21, Zenon DEF ParseEvent, EventHandled, Unplug, lifeVars
<1>22. CASE ConnectLoop("bulk", "interrupt") \/ ConnectLoop("interrupt", "host")
  <2>1. /\ call' = "connect" /\ at' \in {"bulk", "interrupt", "host", "refuse"}
        /\ UNCHANGED held
    BY <1>22, Zenon DEF ConnectLoop, StartLoop
  <2> QED BY <2>1, Zenon
<1>23. CASE \/ ResumeLoop("bulk", Goto("resume", "interrupt"))
           \/ ResumeLoop("interrupt", Goto("rest", "up"))
  <2>1. /\ call' = "resume" \/ (call' = "rest" /\ at' = "up")
        /\ UNCHANGED held
    BY <1>23, Zenon DEF ResumeLoop, StartLoop
  <2> QED BY <2>1, Zenon
<1> QED
  BY MemInitFacts, MemCleanupFacts, <1>1, <1>2, <1>3, <1>4, <1>5, <1>6, <1>7, <1>8, <1>9, <1>10, <1>11, <1>12, <1>13, <1>14, <1>15, <1>16, <1>17, <1>18, <1>19, <1>20, <1>21, <1>22, <1>23, Zenon DEF LifeNext

-----------------------------------------------------------------------------
(* Every receive URB is destroyed once, if none fails to be submitted.       *)
THEOREM DestroyedOnceHolds ==
  ASSUME "submit" \notin Fails
  PROVE  LifeSpec => []DestroyedOnce
<1>1. LoopInv /\ [LifeNext]_lifeVars => LoopInv'
  BY LoopInvStep
<1>2. LoopInv => DestroyedOnce
  BY DEF LoopInv, DestroyedOnce
<1> QED
  BY <1>1, <1>2, LoopInvInit, PTL DEF LifeSpec

(* No pool of the host is destroyed before what was allocated from it,       *)
(* wherever the set-up fails.                                                *)
THEOREM PoolsOutliveHolds == LifeSpec => []PoolsOutlive
<1>1. MemoryInv /\ [LifeNext]_lifeVars => MemoryInv'
  BY MemoryInvStep
<1>2. MemoryInv => PoolsOutlive
  BY DEF MemoryInv
<1> QED
  BY <1>1, <1>2, MemoryInvInit, PTL DEF LifeSpec

(* An event is handled only while its host and all memory of the host are    *)
(* there, if usb_remove_hcd waits for the handler and ehub_xhci_run does not *)
(* fail.                                                                     *)
THEOREM EventsFindHostHolds ==
  ASSUME "run" \notin Fails, EventOutlasts = FALSE
  PROVE  LifeSpec => []EventsFindHost
<1>1. MemoryInv /\ [LifeNext]_lifeVars => MemoryInv'
  BY MemoryInvStep
<1>2. ServingInv /\ [LifeNext]_lifeVars => ServingInv'
  BY ServingInvStep, Zenon
<1>3. MemoryInv /\ ServingInv => EventsFindHost
  BY Zenon DEF MemoryInv, ServingInv, EventsFindHost
<1> QED
  BY <1>1, <1>2, <1>3, MemoryInvInit, ServingInvInit, PTL DEF LifeSpec

(* A set-up that fails gives back the memory of the host, and a disconnect   *)
(* leaves neither memory nor receive URBs, if ehub_xhci_run does not fail.   *)
THEOREM NothingLeftHolds ==
  ASSUME "run" \notin Fails
  PROVE  LifeSpec => []NothingLeft
<1>1. MemoryInv /\ [LifeNext]_lifeVars => MemoryInv'
  BY MemoryInvStep
<1>2. LoopShape /\ [LifeNext]_lifeVars => LoopShape'
  BY LoopShapeStep
<1>3. MemoryInv /\ LoopShape /\ ReleaseInv /\ [LifeNext]_lifeVars => ReleaseInv'
  BY ReleaseInvStep
<1>4. ReleaseInv => NothingLeft
  BY Zenon DEF ReleaseInv, NothingLeft, CleanedUp, Put, Drained, LoopsGone, Gone, Memory, Loops, At
<1> QED
  BY <1>1, <1>2, <1>3, <1>4, MemoryInvInit, LoopShapeInit, ReleaseInvInit, PTL DEF LifeSpec
=============================================================================
