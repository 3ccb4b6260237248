--------------------------- MODULE EndpointConfig ---------------------------
(***************************************************************************)
(* The endpoints of one USB device: ehub_xhci_drop_endpoint,               *)
(* ehub_xhci_add_endpoint, ehub_xhci_check_bandwidth,                      *)
(* ehub_xhci_reset_bandwidth, the reset and the release of the device, and *)
(* the isochronous message loop that runs while an isochronous endpoint is *)
(* configured.                                                             *)
(*                                                                         *)
(* The USB core changes a configuration by dropping the endpoints of the   *)
(* old one, adding those of the new one and asking for the bandwidth; if a *)
(* call fails it asks for a reset of the bandwidth.  The driver notes the  *)
(* changes in the input context, and the device applies them when it       *)
(* executes the Configure Endpoint command.  The endpoint ring of the      *)
(* device's context, of the driver, and the new one the driver is about to *)
(* install are three pointers that must agree.                             *)
(***************************************************************************)
EXTENDS Integers, FiniteSets, FiniteSetsExt

CONSTANTS
  Eps,         \* endpoint indices; endpoint 0 is not one of them
  IsocEps,     \* the isochronous ones
  MaxChanges,  \* bound: configuration changes
  Faults       \* what may go wrong: "memory", "refused", "reset", "death"

ASSUME CfgAssumption ==
  /\ Eps \subseteq Nat \ {0} /\ IsFiniteSet(Eps) /\ IsocEps \subseteq Eps
  /\ MaxChanges \in Nat
  /\ Faults \subseteq {"memory", "refused", "reset", "death"}

VARIABLES
  host,        \* "up", "gone" (the hub was unplugged) or "dying"
  device,      \* the ring of each endpoint in the device's context; 0: disabled
  ring,        \* eps[i].ring; 0: NULL
  newRing,     \* eps[i].new_ring
  input,       \* the ring in the input context of each endpoint
  addFlags,    \* endpoints with the add flag in the input control context
  dropFlags,   \* those with the drop flag
  entries,     \* LAST_CTX of the input slot context
  live,        \* the rings that are allocated
  core,        \* what the USB core is doing
  isocCount,   \* num_active_isoc_eps
  running,     \* isoch_in_running
  stopPending, \* stop_isoch_work waits for its delay
  stopping,    \* stop_isoch_work is in MESSAGE_StopLoopIsoch
  asserted     \* ASSERT(xhci->isoch_in_running == 0) has failed

contexts == <<device, ring, newRing, input, addFlags, dropFlags, entries, live>>
isoc == <<isocCount, running, stopPending, stopping, asserted>>
cfgVars == <<host, contexts, core, isoc>>

None == [e \in Eps |-> 0]
Rings(f) == {f[e] : e \in Eps} \ {0}
Enabled == {e \in Eps : device[e] # 0}

(* The USB core: what it does next, the endpoints of the current             *)
(* configuration, the calls left of the change it is making (`disable`: one  *)
(* that takes all endpoints away), and whether such a change once failed.    *)
Idle == [pc |-> "idle", active |-> {}, drops |-> {}, adds |-> {}, wanted |-> {},
         disable |-> FALSE, dirty |-> FALSE, changes |-> 0]

CfgInit ==
  /\ host = "up"
  /\ device = None /\ ring = None /\ newRing = None /\ input = None
  /\ addFlags = {} /\ dropFlags = {} /\ entries = 1
  /\ live = {}
  /\ core = Idle
  /\ isocCount = 0 /\ running = FALSE /\ stopPending = FALSE
  /\ stopping = FALSE /\ asserted = FALSE

-----------------------------------------------------------------------------
(* usb_hcd_alloc_bandwidth, called under the bandwidth mutex.  A plain       *)
(* disable ignores failures and does not reset the bandwidth.                *)
ChangeConfig ==
  /\ core.pc = "idle" /\ core.changes < MaxChanges
  /\ \E new \in SUBSET Eps, disable \in BOOLEAN :
       /\ disable => new = {}
       /\ core' = [core EXCEPT !.pc = "dropping", !.drops = core.active,
                               !.adds = new, !.wanted = new,
                               !.disable = disable, !.changes = @ + 1]
  /\ UNCHANGED <<host, contexts, isoc>>

CallFailed ==
  core' = IF core.disable
          THEN [core EXCEPT !.pc = "idle", !.active = {}, !.dirty = TRUE]
          ELSE [core EXCEPT !.pc = "failed"]

(* ehub_xhci_endpoint_zero: the ring is kept until the change succeeds.      *)
FaultyEndpointZero(e) ==
  /\ input' = [input EXCEPT ![e] = 0]
  /\ isocCount' = IF e \in IsocEps THEN isocCount - 1 ELSE isocCount
  /\ ring' = [ring EXCEPT ![e] = 0]
  /\ live' = live \ {ring[e]}

EndpointZero(e) ==
  /\ input' = [input EXCEPT ![e] = 0]
  /\ isocCount' = IF e \in IsocEps THEN isocCount - 1 ELSE isocCount
  /\ UNCHANGED <<ring, live>>

(* ehub_xhci_drop_endpoint.                                                  *)
DropEndpoint ==
  /\ core.pc = "dropping"
  /\ IF core.drops = {}
     THEN /\ core' = [core EXCEPT !.pc = "adding"]
          /\ UNCHANGED <<contexts, isoc>>
     ELSE LET e == Min(core.drops) IN
          IF host = "dying"
          THEN CallFailed /\ UNCHANGED <<contexts, isoc>>
          ELSE
          /\ core' = [core EXCEPT !.drops = @ \ {e}]
          /\ IF host = "gone" \/ device[e] = 0 \/ e \in dropFlags
             THEN UNCHANGED <<contexts, isoc>>
             ELSE /\ dropFlags' = dropFlags \cup {e}
                  /\ addFlags' = addFlags \ {e}
                  /\ EndpointZero(e)
                  /\ UNCHANGED <<device, newRing, entries, running,
                                 stopPending, stopping, asserted>>
  /\ UNCHANGED host

-----------------------------------------------------------------------------
(* MESSAGE_StartLoopIsoch, called for the first isochronous endpoint: a stop *)
(* that waits is cancelled, one that has begun is not noticed.               *)
StartLoopIsoch ==
  /\ ~(stopPending /\ stopping)     \* cancel_delayed_work_sync waits
  /\ stopPending' = FALSE
  /\ running' \in IF "memory" \in Faults THEN {TRUE, running} ELSE {TRUE}
  /\ UNCHANGED stopping

CountIsoc(e) ==
  IF e \in IsocEps
  THEN /\ isocCount' = isocCount + 1
       /\ IF isocCount + 1 = 1
          THEN StartLoopIsoch /\ asserted' = (asserted \/ running)
          ELSE UNCHANGED <<running, stopPending, stopping, asserted>>
  ELSE UNCHANGED isoc

NewRing == Min((1..(2 * Cardinality(Eps))) \ live)

(* ehub_xhci_endpoint_init.  The endpoint is counted before its ring is      *)
(* allocated.                                                                *)
EndpointInit(e) ==
  /\ CountIsoc(e)
  /\ \/ /\ newRing' = [newRing EXCEPT ![e] = NewRing]
        /\ input' = [input EXCEPT ![e] = NewRing]
        /\ live' = live \cup {NewRing}
        /\ addFlags' = addFlags \cup {e}
        /\ core' = [core EXCEPT !.adds = @ \ {e}]
        /\ UNCHANGED <<device, ring, dropFlags, entries>>
     \/ /\ "memory" \in Faults
        /\ CallFailed /\ UNCHANGED contexts

(* ehub_xhci_add_endpoint.                                                   *)
AddEndpoint ==
  /\ core.pc = "adding"
  /\ IF core.adds = {}
     THEN core' = [core EXCEPT !.pc = "checking"] /\ UNCHANGED <<contexts, isoc>>
     ELSE LET e == Min(core.adds) IN
          IF host = "dying" \/ (ring[e] # 0 /\ e \notin dropFlags)
          THEN CallFailed /\ UNCHANGED <<contexts, isoc>>
          ELSE IF e \in addFlags
          THEN /\ core' = [core EXCEPT !.adds = @ \ {e}]
               /\ UNCHANGED <<contexts, isoc>>
          ELSE EndpointInit(e)
  /\ UNCHANGED host

-----------------------------------------------------------------------------
(* xhci_zero_in_ctx.                                                         *)
ZeroInCtx ==
  /\ addFlags' = {} /\ dropFlags' = {} /\ entries' = 1 /\ input' = None

(* The Context Entries field: the last context that stays or is added.       *)
FaultyLastContext ==
  Max({1} \cup {e + 1 : e \in addFlags \cup {f \in Eps : ring[f] # 0}})

LastContext ==
  Max({1} \cup {e + 1 : e \in addFlags \cup
                              {f \in Eps : ring[f] # 0 /\ f \notin dropFlags}})

Changed == [core EXCEPT !.pc = "idle", !.active = core.wanted]

(* ehub_xhci_check_bandwidth up to the wait for the command.                 *)
CheckBandwidth ==
  /\ core.pc = "checking"
  /\ \/ /\ host = "dying" \/ "memory" \in Faults
        /\ CallFailed /\ UNCHANGED entries
     \/ /\ host # "dying"
        /\ IF addFlags = {} /\ dropFlags = {}
           THEN core' = Changed /\ UNCHANGED entries
           ELSE entries' = LastContext /\ core' = [core EXCEPT !.pc = "command"]
  /\ UNCHANGED <<host, device, ring, newRing, input, addFlags, dropFlags, live,
                 isoc>>

(* xhci_configure_endpoint stops the loop when no isochronous endpoint is    *)
(* left, after a delay.                                                      *)
QueueStopLoopIsoch ==
  /\ stopPending' = (stopPending \/ (running /\ isocCount = 0))
  /\ UNCHANGED <<isocCount, running, stopping, asserted>>

(* The rest of ehub_xhci_check_bandwidth after a successful command: the     *)
(* rings that were dropped are freed, the new ones are installed.            *)
FaultyInstallRings ==
  /\ ring' = [e \in Eps |-> IF newRing[e] # 0 THEN newRing[e] ELSE ring[e]]
  /\ live' = live \ {ring[e] : e \in {f \in Eps : newRing[f] # 0}}
  /\ newRing' = None
  /\ ZeroInCtx

InstallRings ==
  LET dropped == dropFlags \ addFlags
      replaced == {e \in Eps : newRing[e] # 0}
  IN
  /\ ring' = [e \in Eps |-> IF newRing[e] # 0 THEN newRing[e]
                            ELSE IF e \in dropped THEN 0 ELSE ring[e]]
  /\ live' = live \ {ring[e] : e \in dropped \cup replaced}
  /\ newRing' = None
  /\ ZeroInCtx

(* The Configure Endpoint command completes.                                 *)
Configured ==
  /\ core.pc = "command" /\ host # "dying"
  /\ device' = [e \in Eps |-> IF e \in addFlags THEN input[e]
                              ELSE IF e \in dropFlags THEN 0 ELSE device[e]]
  /\ InstallRings
  /\ QueueStopLoopIsoch
  /\ core' = Changed
  /\ UNCHANGED host

(* The device refuses it, or the command queue is cleaned up.                *)
NotConfigured ==
  /\ core.pc = "command"
  /\ "refused" \in Faults \/ host = "dying"
  /\ QueueStopLoopIsoch
  /\ CallFailed
  /\ UNCHANGED <<host, contexts>>

(* ehub_xhci_reset_bandwidth.                                                *)
FaultyResetBandwidth ==
  /\ core.pc = "failed"
  /\ newRing' = None
  /\ ZeroInCtx
  /\ core' = [core EXCEPT !.pc = "idle"]
  /\ UNCHANGED <<host, device, ring, live, isoc>>

ResetBandwidth ==
  /\ core.pc = "failed"
  /\ live' = live \ Rings(newRing)
  /\ newRing' = None
  /\ ZeroInCtx
  /\ core' = [core EXCEPT !.pc = "idle"]
  /\ UNCHANGED <<host, device, ring, isoc>>

-----------------------------------------------------------------------------
(* ehub_xhci_discover_or_reset_device: the device has disabled all endpoints *)
(* but endpoint 0, and their rings are freed.  The core then installs the    *)
(* configuration again.                                                      *)
ResetDevice ==
  /\ "reset" \in Faults
  /\ core.pc = "idle" /\ host # "dying" /\ core.changes < MaxChanges
  /\ device' = None /\ ring' = None
  /\ live' = live \ Rings(ring)
  /\ core' = [core EXCEPT !.pc = "dropping", !.drops = core.active,
                          !.adds = core.active, !.wanted = core.active,
                          !.active = {}, !.disable = FALSE, !.changes = @ + 1]
  /\ UNCHANGED <<host, newRing, input, addFlags, dropFlags, entries, isoc>>

(* ehub_xhci_free_dev, after the core has disabled the device: the slot is   *)
(* disabled, or the host is dead, and ehub_xhci_free_virt_device frees the   *)
(* rings.                                                                    *)
FreeDev ==
  /\ core.pc = "idle" /\ (core.active = {} \/ host # "up")
  /\ core' = [core EXCEPT !.pc = "freed", !.active = {}]
  /\ device' = None /\ ring' = None
  /\ live' = live \ Rings(ring)
  /\ UNCHANGED <<host, newRing, input, addFlags, dropFlags, entries, isoc>>

-----------------------------------------------------------------------------
(* MESSAGE_delayed_StopLoopIsoch: the URBs are killed, which takes a while,  *)
(* before the flag is cleared.                                               *)
StopLoopBegin ==
  /\ stopPending /\ ~stopping
  /\ stopPending' = FALSE
  /\ stopping' = running
  /\ UNCHANGED <<host, contexts, core, isocCount, running, asserted>>

StopLoopEnd ==
  /\ stopping
  /\ stopping' = FALSE
  /\ running' = FALSE
  /\ UNCHANGED <<host, contexts, core, isocCount, stopPending, asserted>>

(* USB_InterfaceSuspendIsoch and USB_InterfaceResumeIsoch: the hub itself    *)
(* sleeps, with its devices.                                                 *)
LinkSuspend ==
  /\ core.pc = "idle" /\ host = "up" /\ core.changes < MaxChanges
  /\ core' = [core EXCEPT !.pc = "asleep", !.changes = @ + 1]
  /\ running' = FALSE
  /\ UNCHANGED <<host, contexts, isocCount, stopPending, stopping, asserted>>

LinkResume ==
  /\ core.pc = "asleep"
  /\ core' = [core EXCEPT !.pc = "idle"]
  /\ IF isocCount # 0 THEN StartLoopIsoch
                      ELSE UNCHANGED <<running, stopPending, stopping>>
  /\ UNCHANGED <<host, contexts, isocCount, asserted>>

HostFails ==
  /\ "death" \in Faults /\ host = "up"
  /\ host' \in {"gone", "dying"}
  /\ UNCHANGED <<contexts, core, isoc>>

CfgNext ==
  \/ ChangeConfig \/ DropEndpoint \/ AddEndpoint \/ CheckBandwidth
  \/ Configured \/ NotConfigured \/ ResetBandwidth
  \/ ResetDevice \/ FreeDev
  \/ StopLoopBegin \/ StopLoopEnd \/ LinkSuspend \/ LinkResume \/ HostFails

CfgSpec == CfgInit /\ [][CfgNext]_cfgVars

-----------------------------------------------------------------------------
(* Every allocated ring is one endpoint's ring or new ring, and no ring is   *)
(* two: none leaks and none is freed twice, whichever call fails.            *)
RingsOwned ==
  /\ live = Rings(ring) \cup Rings(newRing)
  /\ Cardinality(live) = Cardinality({e \in Eps : ring[e] # 0}) +
                         Cardinality({e \in Eps : newRing[e] # 0})

(* The device has no pointer to a ring that was freed, at any moment of a    *)
(* configuration change.                                                     *)
DeviceRingsLive == host # "dying" => Rings(device) \subseteq live

(* Between two changes the driver, the device and the USB core agree on the  *)
(* endpoints, also after a change that failed half way.  (After a disable    *)
(* that failed the core goes on as if it had not.)                           *)
ConfigAgrees ==
  core.pc = "idle" /\ host = "up" =>
    /\ ring = device /\ newRing = None /\ addFlags = {}
    /\ core.active \subseteq Enabled
    /\ ~core.dirty => dropFlags = {} /\ core.active = Enabled

(* Context Entries of the command is the last context that will be valid.    *)
EntriesRight ==
  core.pc = "command" /\ host = "up" =>
    entries = Max({1} \cup {e + 1 : e \in (Enabled \ dropFlags) \cup addFlags})

-----------------------------------------------------------------------------
(* "Wait 100ms before stopping in case we need to start again"               *)
(* (ehub_message.c): with an isochronous endpoint configured, and no stop    *)
(* under way, the isochronous message loop runs.                             *)
(* It does not hold: see README.md.                                          *)
IsocServed ==
  core.pc = "idle" /\ ~stopPending /\ ~stopping /\ core.active \cap IsocEps # {} =>
    running

(* ASSERT(xhci->isoch_in_running == 0) in ehub_xhci_endpoint_init.           *)
(* It does not hold: see README.md.                                          *)
NotRunningAtStart == ~asserted

(* Together: whatever fails between add_endpoint and the answer of the       *)
(* device, the rings and the contexts of driver and device stay consistent.  *)
EndpointsRight == RingsOwned /\ DeviceRingsLive /\ ConfigAgrees /\ EntriesRight
=============================================================================
