----------------------------- MODULE Lifecycle ------------------------------
(***************************************************************************)
(* The life of the driver on one device: connect, suspend and resume,      *)
(* unplug, disconnect.  One thread of the USB core runs them; meanwhile    *)
(* receive URBs complete, their completion routine queues work items, and  *)
(* the ordered work queue handles the events they carry.                   *)
(*                                                                         *)
(* Every structure the driver allocates is a member of held from its       *)
(* allocation to its release.  The isochronous receive loop is created and *)
(* freed here; EndpointConfig starts and stops it.                         *)
(***************************************************************************)
EXTENDS Integers, Sequences, SequencesExt, FiniteSetsExt

CONSTANTS
  LoopUrbs,     \* NUMBER_OF_MESSAGE_BULK and NUMBER_OF_MESSAGE_INTERRUPT
  Fails,        \* the steps that may fail
  EventOutlasts, \* BOOLEAN: an event handler may outlast usb_remove_hcd
  MaxMessages,  \* bound: messages of the device
  MaxDeviceSuspends   \* bound: suspends

ASSUME LifecycleAssumption ==
  /\ LoopUrbs \in Nat \ {0} /\ {MaxMessages, MaxDeviceSuspends} \subseteq Nat
  /\ Fails \subseteq {"configure", "memory", "run", "alloc", "submit"}
  /\ EventOutlasts \in BOOLEAN

VARIABLES
  call,       \* the function the USB core's thread is in
  at,         \* what it does next there
  condition,  \* condition of the interface
  attached,   \* the device is plugged in
  held,       \* structures allocated and not released
  xhciSet,    \* UsbContext.xhci_hcd is not NULL
  xhci,       \* struct xhci_hcd: "none", "live" or "freed"
  initReady,  \* ControlFlags.IsEhubXhciInitReady
  loop,       \* the receive URBs: "none", "flying", "spent" or "dangling"
  twice,      \* a URB was destroyed twice
  work,       \* work items waiting
  worker,     \* "idle" or "handling" an event
  messages,   \* messages sent by the device
  suspends    \* suspends so far

hostVars == <<xhciSet, xhci, initReady>>
workVars == <<work, worker, messages>>
threadVars == <<call, at>>
lifeVars == <<threadVars, condition, attached, held, hostVars, loop, twice, workVars,
              suspends>>

Loops == {"bulk", "interrupt"}
NoLoop == [k \in 1 .. LoopUrbs |-> "none"]

LifeInit ==
  /\ call = "connect" /\ at = "create" /\ condition = "binding" /\ attached = TRUE
  /\ held = {}
  /\ xhciSet = FALSE /\ xhci = "none" /\ initReady = FALSE
  /\ loop = [l \in Loops |-> NoLoop] /\ twice = FALSE
  /\ work = 0 /\ worker = "idle" /\ messages = 0 /\ suspends = 0

At(c, a) == call = c /\ at = a
Goto(c, a) == call' = c /\ at' = a
Allocate(r) == held' = held \cup {r}
Release(r) == held' = held \ {r}

(* DEVICECONTEXT_ErrorCheck, as far as it depends on this module.  A host    *)
(* that was freed may read as dying or as alive; IsUsbHcdInvalid is set only *)
(* when the interface is unbound already.                                    *)
ErrorCheck(alive) ==
  /\ condition \in {"bound", "binding"}
  /\ xhciSet
  /\ xhci = "freed" => alive
  /\ attached

-----------------------------------------------------------------------------
(* MODULE_UsbInterfaceConnect                                                *)

(* DEVICECONTEXT_Create, with its work queue.                                *)
CreateContext ==
  /\ At("connect", "create")
  /\ Allocate("context") /\ Goto("connect", "configure")
  /\ UNCHANGED <<condition, attached, hostVars, loop, twice, workVars, suspends>>

(* The configuration is read, and set to 1 when it is 0; this is the only    *)
(* failure after which nothing but the context has to be taken back.         *)
Configure ==
  /\ At("connect", "configure")
  /\ \/ Goto("connect", "urbs")
     \/ "configure" \in Fails /\ Goto("connect", "refuse")
  /\ UNCHANGED <<condition, attached, held, hostVars, loop, twice, workVars, suspends>>

(* The URBs of register accesses, doorbells and memory reads.                *)
CreateUrbs ==
  /\ At("connect", "urbs")
  /\ Allocate("urbs") /\ Goto("connect", "bulk")
  /\ UNCHANGED <<condition, attached, hostVars, loop, twice, workVars, suspends>>

(* MESSAGE_StartLoopBulk and MESSAGE_StartLoopInterrupt: the URBs are made   *)
(* and submitted one after the other.  A failure leaves the loop there; the  *)
(* URB that could not be submitted is destroyed, and stays in the array.     *)
StartLoop(l, started, failed) ==
  LET empty == {k \in 1 .. LoopUrbs : loop[l][k] = "none"} IN
  IF empty = {}
  THEN started /\ UNCHANGED loop
  ELSE \/ loop' = [loop EXCEPT ![l][Min(empty)] = "flying"] /\ UNCHANGED threadVars
       \/ \E f \in Fails \cap {"alloc", "submit"} :
            /\ failed
            /\ loop' = IF f = "alloc" THEN loop
                       ELSE [loop EXCEPT ![l][Min(empty)] = "dangling"]

ConnectLoop(l, next) ==
  /\ At("connect", l)
  /\ StartLoop(l, Goto("connect", next), Goto("connect", "refuse"))
  /\ UNCHANGED <<condition, attached, held, hostVars, twice, workVars, suspends>>

(* ehub_xhci_add up to usb_add_hcd.                                          *)
CreateHost ==
  /\ At("connect", "host")
  /\ xhci' = "live" /\ xhciSet' = TRUE /\ UNCHANGED initReady
  /\ held' = held \cup {"hcd", "cache"}
  /\ Goto("memory", "page_pool")
  /\ UNCHANGED <<condition, attached, loop, twice, workVars, suspends>>

(* ehub_xhci_mem_init: what it allocates, in its order.                      *)
MemInit == <<"page_pool", "dcbaa", "small_streams_pool", "medium_streams_pool",
             "segment_pool", "device_pool", "cmd_ring", "lpm_command", "event_ring",
             "erst", "scratchpad", "port_array", "rh_bw", "ext_caps", "usb2_ports">>

(* The pool that a structure is allocated from.                              *)
Pool(r) ==
  CASE r = "dcbaa" -> "page_pool"
    [] r \in {"cmd_ring", "event_ring"} -> "segment_pool"
    [] r = "lpm_command" -> "device_pool"
    [] OTHER -> r

(* ehub_xhci_mem_cleanup: what it releases, in its order.                    *)
FaultyMemCleanup == <<"erst", "event_ring", "lpm_command", "segment_pool", "cmd_ring",
                "device_pool", "small_streams_pool", "medium_streams_pool", "dcbaa",
                "scratchpad", "page_pool", "usb2_ports", "port_array", "rh_bw",
                "ext_caps">>
MemCleanup == <<"erst", "event_ring", "lpm_command", "cmd_ring", "segment_pool",
                "device_pool", "small_streams_pool", "medium_streams_pool", "dcbaa",
                "scratchpad", "page_pool", "usb2_ports", "port_array", "rh_bw",
                "ext_caps">>

(* The function goes on with what comes after r, or ends.                    *)
Advance(seq, r, end) ==
  LET k == CHOOSE i \in 1 .. Len(seq) : seq[i] = r
  IN IF k = Len(seq) THEN end ELSE Goto(call, seq[k + 1])

(* The two stream pools are not tested.  A failure of anything else, or of   *)
(* the register accesses in between, leads to the clean-up; segment_pool and *)
(* device_pool are tested together, after both.                              *)
Untested == {"small_streams_pool", "medium_streams_pool"}
TestedWith(r) == IF r = "segment_pool" THEN {r, "device_pool"} ELSE {r}

AllocateMemory(r) ==
  /\ At("memory", r)
  /\ \/ /\ \/ Allocate(r)
           \/ "memory" \in Fails /\ r \in Untested /\ UNCHANGED held
        /\ Advance(MemInit, r, Goto("connect", "ready"))
     \/ /\ "memory" \in Fails /\ r \notin Untested
        /\ \E made \in SUBSET TestedWith(r) : held' = held \cup made
        /\ Goto("cleanup", MemCleanup[1])
  /\ UNCHANGED <<condition, attached, hostVars, loop, twice, workVars, suspends>>

(* The end of ehub_xhci_reset_device.                                        *)
HostReady ==
  /\ At("connect", "ready")
  /\ initReady' = TRUE /\ UNCHANGED <<xhciSet, xhci>>
  /\ Goto("connect", "run")
  /\ UNCHANGED <<condition, attached, held, loop, twice, workVars, suspends>>

(* ehub_xhci_run.  When it fails usb_add_hcd gives up without calling stop.  *)
RunHost ==
  /\ At("connect", "run")
  /\ \E result \in {"isoch"} \cup {"start failed" : f \in Fails \cap {"run"}} :
       Goto("connect", result)
  /\ UNCHANGED <<condition, attached, held, hostVars, loop, twice, workVars, suspends>>

CreateIsoch ==
  /\ At("connect", "isoch")
  /\ Allocate("isoch urbs") /\ Goto("rest", "up") /\ condition' = "bound"
  /\ UNCHANGED <<attached, hostVars, loop, twice, workVars, suspends>>

CleanUp(r) ==
  /\ At("cleanup", r)
  /\ Release(r)
  /\ Advance(MemCleanup, r, IF condition = "unbinding" THEN Goto("disconnect", "put host")
                            ELSE Goto("connect", "free host"))
  /\ UNCHANGED <<condition, attached, hostVars, loop, twice, workVars, suspends>>

(* The end of ehub_xhci_add when usb_add_hcd failed; the pointer stays.      *)
FreeHost ==
  /\ call = "connect" /\ at \in {"free host", "start failed"}
  /\ xhci' = "freed" /\ UNCHANGED <<xhciSet, initReady>>
  /\ held' = held \ {"cache"}
  /\ Goto("connect", "refuse")
  /\ UNCHANGED <<condition, attached, loop, twice, workVars, suspends>>

(* A connect that fails destroys the context, once its work queue is empty.  *)
Refuse ==
  /\ At("connect", "refuse") /\ work = 0 /\ worker = "idle"
  /\ Release("context") /\ Goto("rest", "refused") /\ condition' = "unbound"
  /\ UNCHANGED <<attached, hostVars, loop, twice, workVars, suspends>>

-----------------------------------------------------------------------------
(* Suspend, resume and disconnect                                            *)

(* MESSAGE_StopLoopBulk and MESSAGE_StopLoopInterrupt: every URB still in    *)
(* the array is killed and destroyed, and the array emptied.                 *)
FaultyEmptied(l) == [k \in 1 .. LoopUrbs |->
                       IF loop[l][k] = "none" THEN "none" ELSE "dangling"]
Emptied(l) == NoLoop
StopLoop(l) ==
  /\ loop' = [loop EXCEPT ![l] = Emptied(l)]
  /\ twice' = (twice \/ \E k \in 1 .. LoopUrbs : loop[l][k] = "dangling")

Suspend ==
  /\ At("rest", "up") /\ suspends < MaxDeviceSuspends
  /\ ErrorCheck(TRUE)
  /\ StopLoop("bulk")
  /\ suspends' = suspends + 1 /\ Goto("suspend", "interrupt")
  /\ UNCHANGED <<condition, attached, held, hostVars, workVars>>

SuspendInterrupt ==
  /\ At("suspend", "interrupt")
  /\ StopLoop("interrupt") /\ Goto("rest", "suspended")
  /\ UNCHANGED <<condition, attached, held, hostVars, workVars, suspends>>

(* MODULE_Resume and MODULE_ResetResume: a loop that cannot be restarted     *)
(* ends the resume.                                                          *)
Resume ==
  /\ At("rest", "suspended")
  /\ IF ErrorCheck(TRUE) THEN Goto("resume", "bulk") ELSE Goto("rest", "up")
  /\ UNCHANGED <<condition, attached, held, hostVars, loop, twice, workVars, suspends>>

ResumeLoop(l, next) ==
  /\ At("resume", l)
  /\ StartLoop(l, next, Goto("rest", "up"))
  /\ UNCHANGED <<condition, attached, held, hostVars, twice, workVars, suspends>>

(* The USB core unbinds the driver: it flushes the endpoints of the bulk     *)
(* interface, then calls MODULE_UsbInterfaceDisconnect.                      *)
Unbind ==
  /\ call = "rest" /\ at \in {"up", "suspended"}
  /\ condition' = "unbinding" /\ Goto("disconnect", "remove hcd")
  /\ loop' = [loop EXCEPT !["bulk"] = [k \in 1 .. LoopUrbs |->
                IF @[k] = "flying" THEN "spent" ELSE @[k]]]
  /\ UNCHANGED <<attached, held, hostVars, twice, workVars, suspends>>

(* usb_remove_hcd, which calls ehub_xhci_stop and so the clean-up.           *)
RemoveHcd ==
  /\ At("disconnect", "remove hcd")
  /\ EventOutlasts \/ worker # "handling"
  /\ Goto("cleanup", "erst")
  /\ UNCHANGED <<condition, attached, held, hostVars, loop, twice, workVars, suspends>>

(* The rest of ehub_xhci_remove.                                             *)
PutHost ==
  /\ At("disconnect", "put host")
  /\ xhci' = "freed" /\ UNCHANGED <<xhciSet, initReady>>
  /\ held' = held \ {"hcd", "cache"}
  /\ Goto("disconnect", "drain")
  /\ UNCHANGED <<condition, attached, loop, twice, workVars, suspends>>

(* destroy_workqueue waits for the work items; then the loops are stopped.   *)
Drain ==
  /\ At("disconnect", "drain") /\ work = 0 /\ worker = "idle"
  /\ Release("isoch urbs") /\ Goto("stop", "bulk")
  /\ UNCHANGED <<condition, attached, hostVars, loop, twice, workVars, suspends>>

FaultyDestroyLoop(l, next) ==
  /\ At("stop", l)
  /\ (IF ErrorCheck(TRUE) THEN StopLoop(l) ELSE UNCHANGED <<loop, twice>>)
  /\ next
  /\ UNCHANGED <<condition, attached, held, hostVars, workVars, suspends>>
DestroyLoop(l, next) ==
  /\ At("stop", l)
  /\ StopLoop(l) /\ next
  /\ UNCHANGED <<condition, attached, held, hostVars, workVars, suspends>>

DestroyContext ==
  /\ At("disconnect", "free context")
  /\ held' = held \ {"urbs", "context"}
  /\ Goto("rest", "gone") /\ condition' = "unbound"
  /\ UNCHANGED <<attached, hostVars, loop, twice, workVars, suspends>>

-----------------------------------------------------------------------------
(* Messages, work items and the cable                                        *)

(* URB_CompletionRoutine_GetMessage: the error check comes before all else,  *)
(* and a URB whose message fails it is not submitted again.                  *)
ReceiveLife(l, k) ==
  /\ loop[l][k] = "flying" /\ messages < MaxMessages
  /\ messages' = messages + 1
  /\ \E alive \in BOOLEAN :
       IF ErrorCheck(alive)
       THEN work' = work + 1 /\ UNCHANGED loop
       ELSE loop' = [loop EXCEPT ![l][k] = "spent"] /\ UNCHANGED work
  /\ UNCHANGED <<threadVars, condition, attached, held, hostVars, twice, worker, suspends>>

(* MESSAGE_Parsing checks, and MESSAGE_HandleMessage_EMBEDDED_EVENT_TRB lets *)
(* the event through once the host is initialised.                           *)
FaultyGate == TRUE
Gate == initReady
ParseEvent ==
  /\ worker = "idle" /\ work > 0
  /\ work' = work - 1
  /\ \E alive \in BOOLEAN :
       worker' = IF ErrorCheck(alive) /\ Gate THEN "handling" ELSE "idle"
  /\ UNCHANGED <<threadVars, condition, attached, held, hostVars, loop, twice, messages,
                 suspends>>

EventHandled ==
  /\ worker = "handling"
  /\ worker' = "idle"
  /\ UNCHANGED <<threadVars, condition, attached, held, hostVars, loop, twice, work,
                 messages, suspends>>

Unplug ==
  /\ attached
  /\ attached' = FALSE
  /\ UNCHANGED <<threadVars, condition, held, hostVars, loop, twice, workVars, suspends>>

LifeNext ==
  \/ CreateContext \/ Configure \/ CreateUrbs
  \/ ConnectLoop("bulk", "interrupt") \/ ConnectLoop("interrupt", "host")
  \/ CreateHost \/ HostReady \/ RunHost \/ CreateIsoch
  \/ \E k \in 1 .. Len(MemInit) : AllocateMemory(MemInit[k])
  \/ \E k \in 1 .. Len(MemCleanup) : CleanUp(MemCleanup[k])
  \/ FreeHost \/ Refuse
  \/ Suspend \/ SuspendInterrupt \/ Resume
  \/ ResumeLoop("bulk", Goto("resume", "interrupt"))
  \/ ResumeLoop("interrupt", Goto("rest", "up"))
  \/ Unbind \/ RemoveHcd \/ PutHost \/ Drain
  \/ DestroyLoop("bulk", Goto("stop", "interrupt"))
  \/ DestroyLoop("interrupt", Goto("disconnect", "free context"))
  \/ DestroyContext
  \/ \E l \in Loops, k \in 1 .. LoopUrbs : ReceiveLife(l, k)
  \/ ParseEvent \/ EventHandled
  \/ Unplug

LifeSpec == LifeInit /\ [][LifeNext]_lifeVars

-----------------------------------------------------------------------------
HostMemory == ToSet(MemInit) \ Untested

(* While an event is handled the host it belongs to is alive and all of its  *)
(* rings and tables are there: events that come while the host is set up are *)
(* bypassed, and those that come once the driver is being unbound fail the   *)
(* error check.                                                              *)
EventsFindHost == worker = "handling" => xhci = "live" /\ HostMemory \subseteq held

(* No pool is destroyed while something allocated from it is in use: the     *)
(* order of ehub_xhci_mem_cleanup, wherever ehub_xhci_mem_init gave up.      *)
PoolsOutlive == \A r \in held : Pool(r) \in held

(* Setup that fails gives back all memory of the host, and a disconnect      *)
(* leaves neither memory nor a receive URB behind.                           *)
NothingLeft ==
  /\ call = "connect" /\ at \in {"free host", "start failed"} =>
       held \cap ToSet(MemInit) = {}
  /\ At("rest", "gone") => held = {} /\ \A l \in Loops : loop[l] = NoLoop

(* No receive URB is destroyed a second time, however suspends, resumes that *)
(* fail half way and a disconnect follow each other.                         *)
DestroyedOnce == ~twice
=============================================================================
