---------------------------- MODULE DeviceSlots ----------------------------
(***************************************************************************)
(* Device slots: ehub_xhci_alloc_dev, xhci_setup_device,                   *)
(* ehub_xhci_discover_or_reset_device and ehub_xhci_free_dev, with the     *)
(* commands they send and the handlers of their completion events.         *)
(*                                                                         *)
(* Enable Slot and Address Device report through one completion            *)
(* (xhci->addr_dev) and one variable (xhci->slot_id).  A hub thread that    *)
(* waits on the completion takes whichever complete() comes first, so what *)
(* it reads is its own answer only if no other thread waits with it.       *)
(***************************************************************************)
EXTENDS Integers, Sequences, FiniteSets, FiniteSetsExt, SequencesExt

CONSTANTS
  Hubs,          \* threads of the USB core, each with one device at a time
  MaxSlots,      \* HCS_MAX_SLOTS
  MaxDevices,    \* bound: devices enumerated
  MaxFailures,   \* bound: failed allocations, refused addresses, resets
  Serial         \* one thread at a time enables a slot or addresses a device

ASSUME SlotsAssumption ==
  /\ IsFiniteSet(Hubs)
  /\ {MaxSlots, MaxDevices, MaxFailures} \subseteq Nat
  /\ Serial \in BOOLEAN

VARIABLES
  alive,      \* ~XHCI_STATE_DYING
  thread,     \* what each hub thread does
  udevSlot,   \* udev->slot_id of its device
  answer,     \* status of the command it waits for
  mutexOwner, \* xhci->mutex
  addrDev,    \* xhci->addr_dev: completions not yet consumed
  slotId,     \* xhci->slot_id
  devs,       \* xhci->devs[]: the thread whose device owns it, or NoHub
  commands,   \* the command queue; the device executes it in order
  events,     \* completion events on their way to the worker
  slotState,  \* the device's slot contexts
  left,       \* devices still to be enumerated
  faultsLeft, \* failures still allowed
  leaked      \* slots enabled for a thread that could not use them

waiting == <<thread, udevSlot, answer, mutexOwner, addrDev, slotId>>
slotVars == <<alive, waiting, devs, commands, events, slotState, left,
              faultsLeft, leaked>>

Slots == 1..MaxSlots
NoHub == "no device"
Waits == {"enabling", "setting context", "addressing", "resetting"}
Shared == {"enabling", "setting context", "addressing"}   \* wait on addr_dev
Busy == {h \in Hubs : thread[h] \in Shared}

SlotsInit ==
  /\ alive = TRUE
  /\ thread = [h \in Hubs |-> "idle"]
  /\ udevSlot = [h \in Hubs |-> 0]
  /\ answer = [h \in Hubs |-> "none"]
  /\ mutexOwner = NoHub
  /\ addrDev = 0 /\ slotId = 0
  /\ devs = [s \in Slots |-> NoHub]
  /\ commands = <<>> /\ events = <<>>
  /\ slotState = [s \in Slots |-> "disabled"]
  /\ left = MaxDevices /\ faultsLeft = MaxFailures
  /\ leaked = {}

-----------------------------------------------------------------------------
(* Queueing a command fails once the host is dying (queue_command).          *)
Command(type, s, h) == [type |-> type, slot |-> s, by |-> h]

Send(h, type, s, next) ==
  /\ commands' = Append(commands, Command(type, s, h))
  /\ thread' = [thread EXCEPT ![h] = next]
  /\ answer' = [answer EXCEPT ![h] = "none"]

MaySend == Serial => Busy = {}

(* ehub_xhci_alloc_dev up to its wait.                                       *)
AllocDev(h) ==
  /\ thread[h] = "idle" /\ left > 0 /\ alive /\ MaySend
  /\ left' = left - 1
  /\ Send(h, "enable slot", 0, "enabling")
  /\ UNCHANGED <<alive, udevSlot, mutexOwner, addrDev, slotId, devs, events,
                 slotState, faultsLeft, leaked>>

(* The rest of it: the slot is the one of xhci->slot_id, whoever enabled it. *)
(* On an error the command is freed; when ehub_xhci_alloc_virt_device fails  *)
(* the slot to disable is udev->slot_id, which is not set yet.               *)
AllocDevWoken(h) ==
  /\ thread[h] = "enabling" /\ addrDev > 0
  /\ addrDev' = addrDev - 1
  /\ IF slotId = 0 \/ answer[h] # "success"
     THEN /\ thread' = [thread EXCEPT ![h] = "idle"]
          /\ UNCHANGED <<udevSlot, devs, commands, faultsLeft, leaked>>
     ELSE \/ /\ devs[slotId] = NoHub
             /\ devs' = [devs EXCEPT ![slotId] = h]
             /\ udevSlot' = [udevSlot EXCEPT ![h] = slotId]
             /\ thread' = [thread EXCEPT ![h] = "allocated"]
             /\ UNCHANGED <<commands, faultsLeft, leaked>>
          \/ /\ IF devs[slotId] = NoHub
                THEN faultsLeft > 0 /\ faultsLeft' = faultsLeft - 1
                ELSE UNCHANGED faultsLeft
             /\ leaked' = leaked \cup {slotId}
             /\ commands' = IF alive
                            THEN Append(commands, Command("disable slot",
                                                          udevSlot[h], NoHub))
                            ELSE commands
             /\ thread' = [thread EXCEPT ![h] = "idle"]
             /\ UNCHANGED <<devs, udevSlot>>
  /\ UNCHANGED <<alive, answer, mutexOwner, slotId, events, slotState, left>>

-----------------------------------------------------------------------------
(* xhci_setup_device(SETUP_CONTEXT_ONLY), called by ehub_xhci_enable_device, *)
(* and xhci_setup_device(SETUP_CONTEXT_ADDRESS).                             *)
SetupDevice(h, type, next) ==
  IF alive
  THEN Send(h, type, udevSlot[h], next) /\ mutexOwner' = h
  ELSE /\ thread' = [thread EXCEPT ![h] = "failed"]
       /\ UNCHANGED <<commands, answer, mutexOwner>>

SetupContext(h) ==
  /\ thread[h] = "allocated" /\ mutexOwner = NoHub /\ MaySend
  /\ IF slotState[udevSlot[h]] = "default"
     THEN /\ thread' = [thread EXCEPT ![h] = "default"]
          /\ UNCHANGED <<commands, answer, mutexOwner>>
     ELSE SetupDevice(h, "set context", "setting context")
  /\ UNCHANGED <<alive, udevSlot, addrDev, slotId, devs, events, slotState, left,
                 faultsLeft, leaked>>

AddressDevice(h) ==
  /\ thread[h] = "default" /\ mutexOwner = NoHub /\ MaySend
  /\ SetupDevice(h, "address device", "addressing")
  /\ UNCHANGED <<alive, udevSlot, addrDev, slotId, devs, events, slotState, left,
                 faultsLeft, leaked>>

FaultySetupWoken(h) ==
  /\ thread[h] \in {"setting context", "addressing"} /\ addrDev > 0
  /\ addrDev' = addrDev - 1
  /\ mutexOwner' = NoHub
  /\ thread' = [thread EXCEPT ![h] =
                  IF @ = "addressing" THEN "ready" ELSE "default"]
  /\ UNCHANGED <<alive, udevSlot, answer, slotId, devs, commands, events,
                 slotState, left, faultsLeft, leaked>>

SetupWoken(h) ==
  /\ thread[h] \in {"setting context", "addressing"} /\ addrDev > 0
  /\ addrDev' = addrDev - 1
  /\ mutexOwner' = NoHub
  /\ thread' = [thread EXCEPT ![h] =
                  IF answer[h] # "success" THEN "failed"
                  ELSE IF @ = "addressing" THEN "ready" ELSE "default"]
  /\ UNCHANGED <<alive, udevSlot, answer, slotId, devs, commands, events,
                 slotState, left, faultsLeft, leaked>>

(* ehub_xhci_discover_or_reset_device: a command with a completion of its    *)
(* own.  The core then sets the device up again.                             *)
ResetSlot(h) ==
  /\ thread[h] = "ready" /\ alive /\ faultsLeft > 0
  /\ faultsLeft' = faultsLeft - 1
  /\ Send(h, "reset device", udevSlot[h], "resetting")
  /\ UNCHANGED <<alive, udevSlot, mutexOwner, addrDev, slotId, devs, events,
                 slotState, left, leaked>>

ResetWoken(h) ==
  /\ thread[h] = "resetting" /\ answer[h] # "none"
  /\ thread' = [thread EXCEPT ![h] =
                  IF answer[h] = "aborted" THEN "failed" ELSE "allocated"]
  /\ UNCHANGED <<alive, udevSlot, answer, mutexOwner, addrDev, slotId, devs,
                 commands, events, slotState, left, faultsLeft, leaked>>

(* ehub_xhci_free_dev: nothing waits for the Disable Slot command.  When the *)
(* host is dead, the device structures are freed at once.                    *)
FaultyFreeSlot(h) ==
  /\ thread[h] \in {"allocated", "default", "ready", "failed"}
  /\ thread' = [thread EXCEPT ![h] = "idle"]
  /\ udevSlot' = [udevSlot EXCEPT ![h] = 0]
  /\ IF alive
     THEN /\ commands' = IF thread[h] = "failed" THEN commands
                         ELSE Append(commands, Command("disable slot", udevSlot[h], NoHub))
          /\ UNCHANGED devs
     ELSE /\ devs' = [devs EXCEPT ![udevSlot[h]] = NoHub]
          /\ UNCHANGED commands
  /\ UNCHANGED <<alive, answer, mutexOwner, addrDev, slotId, events, slotState,
                 left, faultsLeft, leaked>>

FreeSlot(h) ==
  /\ thread[h] \in {"allocated", "default", "ready", "failed"}
  /\ thread' = [thread EXCEPT ![h] = "idle"]
  /\ udevSlot' = [udevSlot EXCEPT ![h] = 0]
  /\ IF alive
     THEN /\ commands' = Append(commands, Command("disable slot", udevSlot[h], NoHub))
          /\ UNCHANGED devs
     ELSE /\ devs' = [devs EXCEPT ![udevSlot[h]] = NoHub]
          /\ UNCHANGED commands
  /\ UNCHANGED <<alive, answer, mutexOwner, addrDev, slotId, events, slotState,
                 left, faultsLeft, leaked>>

-----------------------------------------------------------------------------
(* The device executes the first command without an event (external).        *)
Completion(s, code) == [slot |-> s, code |-> code]
Respond(s, code) == events' = Append(events, Completion(s, code))

ExecuteCommand ==
  /\ alive /\ Len(events) < Len(commands)
  /\ LET c == commands[Len(events) + 1]
         free == {s \in Slots : slotState[s] = "disabled"}
         refuse == Respond(c.slot, "error") /\ UNCHANGED slotState
         set(s, state) == slotState' = [slotState EXCEPT ![s] = state]
     IN CASE c.type = "enable slot" ->
               IF free = {} THEN Respond(0, "error") /\ UNCHANGED <<slotState, faultsLeft>>
               ELSE /\ set(Min(free), "enabled") /\ Respond(Min(free), "success")
                    /\ UNCHANGED faultsLeft
          [] c.slot = 0 \/ c.slot \in free -> refuse /\ UNCHANGED faultsLeft
          [] c.type = "disable slot" ->
               /\ set(c.slot, "disabled") /\ Respond(c.slot, "success")
               /\ UNCHANGED faultsLeft
          [] c.type = "set context" ->
               /\ set(c.slot, "default") /\ Respond(c.slot, "success")
               /\ UNCHANGED faultsLeft
          [] c.type = "address device" ->
               \/ /\ set(c.slot, "addressed") /\ Respond(c.slot, "success")
                  /\ UNCHANGED faultsLeft
               \/ /\ faultsLeft > 0 /\ faultsLeft' = faultsLeft - 1
                  /\ refuse
          [] c.type = "reset device" ->
               /\ IF slotState[c.slot] = "addressed"
                  THEN set(c.slot, "default") /\ Respond(0, "success")
                  ELSE refuse
               /\ UNCHANGED faultsLeft
  /\ UNCHANGED <<alive, waiting, devs, commands, left, leaked>>

(* complete(): the waiters on addr_dev share its count; a Reset Device       *)
(* command has its own.                                                      *)
FaultyComplete(c, code) ==
  /\ answer' = IF c.by = NoHub THEN answer ELSE [answer EXCEPT ![c.by] = code]
  /\ addrDev' = IF c.by # NoHub THEN addrDev + 1 ELSE addrDev

Complete(c, code) ==
  /\ answer' = IF c.by = NoHub THEN answer ELSE [answer EXCEPT ![c.by] = code]
  /\ addrDev' = IF c.by # NoHub /\ c.type # "reset device" THEN addrDev + 1
                                                          ELSE addrDev

(* xhci_handle_cmd_disable_slot: the device structures that are freed.       *)
FaultyDisabledSlot(e) == slotId

DisabledSlot(e) == e.slot

(* handle_cmd_completion with xhci_handle_cmd_enable_slot.                   *)
HandleCompletion ==
  /\ alive /\ events # <<>>
  /\ LET c == Head(commands)
         e == Head(events)
     IN /\ slotId' = IF c.type = "enable slot"
                     THEN IF e.code = "success" THEN e.slot ELSE 0
                     ELSE slotId
        /\ devs' = IF c.type = "disable slot" /\ DisabledSlot(e) # 0
                   THEN [devs EXCEPT ![DisabledSlot(e)] = NoHub] ELSE devs
        /\ Complete(c, e.code)
  /\ commands' = Tail(commands) /\ events' = Tail(events)
  /\ UNCHANGED <<alive, thread, udevSlot, mutexOwner, slotState, left, faultsLeft,
                 leaked>>

(* The host dies: ehub_xhci_cleanup_command_queue completes every command.   *)
FaultyAbortCommands ==
  /\ alive
  /\ alive' = FALSE
  /\ addrDev' = addrDev
  /\ answer' = answer
  /\ commands' = <<>> /\ events' = <<>>
  /\ UNCHANGED <<thread, udevSlot, mutexOwner, slotId, devs, slotState, left,
                 faultsLeft, leaked>>

AbortCommands ==
  /\ alive
  /\ alive' = FALSE
  /\ LET waiters == {commands[i].by : i \in DOMAIN commands} \ {NoHub}
         onAddrDev == SelectSeq(commands, LAMBDA c : c.by # NoHub /\
                                                     c.type # "reset device")
     IN /\ answer' = [h \in Hubs |-> IF h \in waiters THEN "aborted" ELSE answer[h]]
        /\ addrDev' = addrDev + Len(onAddrDev)
  /\ commands' = <<>> /\ events' = <<>>
  /\ UNCHANGED <<thread, udevSlot, mutexOwner, slotId, devs, slotState, left,
                 faultsLeft, leaked>>

Wakes(h) == AllocDevWoken(h) \/ SetupWoken(h) \/ ResetWoken(h)

SlotsNext ==
  \/ \E h \in Hubs : AllocDev(h) \/ SetupContext(h) \/ AddressDevice(h) \/
                     ResetSlot(h) \/ FreeSlot(h) \/ Wakes(h)
  \/ ExecuteCommand \/ HandleCompletion \/ AbortCommands

SlotsSpec == SlotsInit /\ [][SlotsNext]_slotVars

(* A thread that was woken runs, the worker handles its events, and a device *)
(* that no longer executes commands is declared dead by the command timer.   *)
SlotsFairness ==
  /\ \A h \in Hubs : WF_slotVars(Wakes(h))
  /\ WF_slotVars(HandleCompletion)
  /\ WF_slotVars(commands # <<>> /\ (ExecuteCommand \/ AbortCommands))

SlotsFairSpec == SlotsSpec /\ SlotsFairness

-----------------------------------------------------------------------------
(* A device whose slot is allocated has its own slot, enabled in the host    *)
(* controller, and the driver's structures for it: no answer went to another *)
(* thread, and no late Disable Slot completion freed them.                   *)
OwnsItsSlot ==
  \A h \in Hubs :
    alive /\ thread[h] \notin {"idle", "enabling"} =>
      /\ devs[udevSlot[h]] = h
      /\ slotState[udevSlot[h]] # "disabled"

(* A command stays allocated while it is queued: the thread that owns it     *)
(* still waits ("these are not thread safe so use mutex", xhci.h).           *)
QueuedIsOwned ==
  \A i \in DOMAIN commands :
    commands[i].by # NoHub => thread[commands[i].by] \in Waits

(* A device the core may use has been addressed.                             *)
ReadyIsAddressed ==
  \A h \in Hubs : thread[h] = "ready" /\ alive =>
    slotState[udevSlot[h]] = "addressed"

(* With no command outstanding, the slots that are enabled are those of the  *)
(* devices, but for those lost when alloc_dev ran out of memory.             *)
NoOtherLeak ==
  alive /\ commands = <<>> /\ Busy = {} =>
    {s \in Slots : slotState[s] # "disabled"} \ leaked
      \subseteq {udevSlot[h] : h \in Hubs}

(* Every call that waits for a command returns, whether the device answers,  *)
(* refuses or dies; so xhci->mutex is always released.                       *)
SlotCallsReturn ==
  \A h \in Hubs : thread[h] \in Waits ~> thread[h] \notin Waits

(* "Disable slot, if we can do it without mem alloc" (xhci.c, alloc_dev):    *)
(* a slot that cannot be used is given back.                                 *)
(* It does not hold: see README.md.                                          *)
FailedSlotDisabled ==
  alive /\ commands = <<>> /\ Busy = {} =>
    \A s \in leaked : slotState[s] = "disabled" \/ devs[s] # NoHub

(* Together: driver and device agree on who has which slot.                  *)
SlotsRight == OwnsItsSlot /\ QueuedIsOwned /\ ReadyIsAddressed /\ NoOtherLeak
=============================================================================
