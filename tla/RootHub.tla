------------------------------ MODULE RootHub ------------------------------
(***************************************************************************)
(* The USB 2.0 root hub: ehub_xhci_hub_control, ehub_xhci_hub_status_data, *)
(* ehub_xhci_bus_suspend, ehub_xhci_bus_resume, and handle_port_status,    *)
(* which runs from a delayed work item, beside the hub thread of the USB   *)
(* core that calls the others.                                             *)
(*                                                                         *)
(* The port registers belong to the device.  It sends one port status      *)
(* change event when the first change bit of a port is set, and none while *)
(* one stays set.  A suspended port is resumed by the host, or by a device *)
(* that wakes up: then the driver signals resume for a while, moves the    *)
(* port to U0 and waits until it left the Resume state (RExit).            *)
(***************************************************************************)
EXTENDS Integers, FiniteSets

CONSTANTS
  Ports,
  MaxPlugs,     \* bound: connections and disconnections
  MaxSuspends,  \* bound: suspends of a port or of the bus
  MaxWakes,     \* bound: remote wakeups
  MaxSlow,      \* bound: resumes that outlast XHCI_MAX_REXIT_TIMEOUT
  Overlap       \* a port may change again before the last change was served

ASSUME HubAssumption ==
  /\ IsFiniteSet(Ports)
  /\ {MaxPlugs, MaxSuspends, MaxWakes, MaxSlow} \subseteq Nat
  /\ Overlap \in BOOLEAN

VARIABLES
  portsc,      \* the port registers
  portEvents,  \* port status change events not handled yet, per port
  handling,    \* ports whose event handler is about to report the status
  suspended,   \* bus_state->suspended_ports
  busSuspended,\* bus_state->bus_suspended
  resumeDone,  \* bus_state->resume_done: "none", "later" or "due"
  rexit,       \* bus_state->rexit_ports
  rexitDone,   \* bus_state->rexit_done: completions not consumed
  cSuspend,    \* bus_state->port_c_suspend
  rhTimer,     \* hcd->rh_timer is armed
  busState,    \* "running", "suspended" (HC_STATE_SUSPENDED) or "waking"
  hub,         \* the hub thread
  changed,     \* hub->event_bits: ports the hub thread will look at
  hasDevice,   \* ports with an enumerated device (a slot)
  fed,         \* those whose endpoints run (doorbells rung since the last stop)
  budget       \* what is left of the bounds

registers == <<portsc, portEvents, budget>>
bus == <<suspended, busSuspended, resumeDone, rexit, rexitDone, cSuspend, rhTimer,
         busState>>
hubVars == <<registers, handling, bus, hub, changed, hasDevice, fed>>

Disconnected == [conn |-> FALSE, pe |-> FALSE, reset |-> FALSE,
                 pls |-> "RxDetect", exiting |-> FALSE, changes |-> {}]

AtRest == [pc |-> "idle", port |-> CHOOSE p \in Ports : TRUE, seen |-> {},
           todo |-> {}, raw |-> Disconnected]

HubInit ==
  /\ portsc = [p \in Ports |-> Disconnected]
  /\ portEvents = [p \in Ports |-> 0]
  /\ handling = {}
  /\ suspended = {} /\ busSuspended = {} /\ rexit = {} /\ cSuspend = {}
  /\ resumeDone = [p \in Ports |-> "none"]
  /\ rexitDone = [p \in Ports |-> 0]
  /\ rhTimer = FALSE /\ busState = "running"
  /\ hub = AtRest
  /\ changed = {} /\ hasDevice = {} /\ fed = {}
  /\ budget = [plug |-> MaxPlugs, suspend |-> MaxSuspends, wake |-> MaxWakes,
               slow |-> MaxSlow]

-----------------------------------------------------------------------------
(* The device (external).                                                    *)

(* A new register value; its first change bit sends an event.                *)
SetPort(p, new) ==
  /\ portsc' = [portsc EXCEPT ![p] = new]
  /\ portEvents' = IF portsc[p].changes = {} /\ new.changes # {}
                   THEN [portEvents EXCEPT ![p] = @ + 1] ELSE portEvents

Quiet(p) == portsc[p].changes = {} /\ portEvents[p] = 0 /\ p \notin changed /\
            p \notin handling /\ (hub.pc = "idle" \/ hub.port # p)

MayChange(p) == Overlap \/ Quiet(p)
Spend(what) == budget[what] > 0 /\ budget' = [budget EXCEPT ![what] = @ - 1]
NoDriverStep == UNCHANGED <<handling, bus, hub, changed, hasDevice, fed>>

Plug(p) ==
  /\ MayChange(p) /\ Spend("plug")
  /\ SetPort(p, IF portsc[p].conn
                THEN [Disconnected EXCEPT !.changes = portsc[p].changes \cup {"CSC"}]
                ELSE [portsc[p] EXCEPT !.conn = TRUE, !.changes = @ \cup {"CSC"}])
  /\ NoDriverStep

ResetEnds(p) ==
  /\ portsc[p].reset
  /\ SetPort(p, [portsc[p] EXCEPT !.reset = FALSE, !.pe = portsc[p].conn,
                   !.pls = IF portsc[p].conn THEN "U0" ELSE @,
                   !.changes = @ \cup {"RC"}])
  /\ UNCHANGED budget /\ NoDriverStep

RemoteWake(p) ==
  /\ MayChange(p) /\ portsc[p].pls = "U3" /\ Spend("wake")
  /\ SetPort(p, [portsc[p] EXCEPT !.pls = "Resume", !.changes = @ \cup {"PLC"}])
  /\ NoDriverStep

(* The host has written U0 to a port in Resume; it gets there.               *)
EnterU0(p) ==
  /\ portsc[p].exiting
  /\ SetPort(p, [portsc[p] EXCEPT !.exiting = FALSE, !.pls = "U0",
                                  !.changes = @ \cup {"PLC"}])
  /\ UNCHANGED budget /\ NoDriverStep

(* Writes: ehub_xhci_port_state_to_neutral keeps every other field.          *)
WriteLink(r, pls) ==
  IF ~r.pe THEN r
  ELSE IF pls = "U0" THEN [r EXCEPT !.exiting = (r.pls = "Resume")]
  ELSE [r EXCEPT !.pls = pls, !.exiting = FALSE]

Disable(r) == IF r.pe THEN [r EXCEPT !.pe = FALSE, !.pls = "Disabled"] ELSE r
ClearBits(r, bits) == [r EXCEPT !.changes = @ \ bits]

-----------------------------------------------------------------------------
(* ehub_xhci_hub_status_data: the ports with something to report.  PORT_RC   *)
(* is not in the mask.                                                       *)
FaultyStatusMask == {"PEC", "PLC"}
StatusMask == {"CSC", "PEC", "PLC"}
StatusData == {p \in Ports : \/ portsc[p].changes \cap StatusMask # {}
                             \/ p \in cSuspend \/ resumeDone[p] = "due"}

(* The completed status URB wakes the hub thread and is submitted again.     *)
ReportStatus == changed' = changed \cup StatusData

FaultyArmed(waking) == rhTimer
Armed(waking) == rhTimer \/ waking

(* handle_port_status up to the status report.                               *)
PortEvent(p) ==
  /\ portEvents[p] > 0
  /\ LET r == portsc[p]
         waking == "PLC" \in r.changes /\ r.pls = "Resume"
     IN /\ resumeDone' = IF waking THEN [resumeDone EXCEPT ![p] = "later"]
                                   ELSE resumeDone
        /\ rhTimer' = Armed(waking)
        /\ IF p \in rexit
           THEN /\ rexit' = rexit \ {p}
                /\ rexitDone' = [rexitDone EXCEPT ![p] = @ + 1]
                /\ UNCHANGED <<handling, portsc>>
           ELSE /\ portsc' = [portsc EXCEPT ![p] = ClearBits(r, {"PLC"})]
                /\ handling' = handling \cup {p}
                /\ UNCHANGED <<rexit, rexitDone>>
  /\ portEvents' = [portEvents EXCEPT ![p] = @ - 1]
  /\ busState' = IF busState = "suspended" THEN "waking" ELSE busState
  /\ UNCHANGED <<suspended, busSuspended, cSuspend, hub, changed, hasDevice, fed,
                 budget>>

PortEventReports(p) ==
  /\ p \in handling
  /\ handling' = handling \ {p}
  /\ ReportStatus
  /\ UNCHANGED <<registers, bus, hub, hasDevice, fed>>

(* USB_RESUME_TIMEOUT passes; rh_timer polls the status once.                *)
ResumeDue(p) ==
  /\ resumeDone[p] = "later"
  /\ resumeDone' = [resumeDone EXCEPT ![p] = "due"]
  /\ UNCHANGED <<registers, handling, suspended, busSuspended, rexit, rexitDone,
                 cSuspend, rhTimer, busState, hub, changed, hasDevice, fed>>

TimerPolls ==
  /\ rhTimer /\ \A p \in Ports : resumeDone[p] # "later"
  /\ rhTimer' = FALSE
  /\ ReportStatus
  /\ UNCHANGED <<registers, handling, suspended, busSuspended, resumeDone, rexit,
                 rexitDone, cSuspend, busState, hub, hasDevice, fed>>

-----------------------------------------------------------------------------
(* The hub thread.  It takes up a port that changed, or the one it resumed,  *)
(* and reads its status; GetPortStatus works from the value it read.         *)
Go(pc) == hub' = [hub EXCEPT !.pc = pc]
HubIdle == hub.pc = "idle" /\ busState = "running"

TakePort(p) ==
  /\ HubIdle /\ p \in changed
  /\ changed' = changed \ {p}
  /\ hub' = [AtRest EXCEPT !.pc = "status", !.port = p]
  /\ UNCHANGED <<registers, handling, bus, hasDevice, fed>>

Timed(p) == resumeDone[p] = "later"

GetPortStatus ==
  /\ hub.pc = "status"
  /\ LET r == portsc[hub.port]
         next == IF r.pls # "Resume" THEN "report"
                 ELSE IF r.reset \/ ~r.pe THEN "idle"
                 ELSE IF Timed(hub.port) THEN "report" ELSE "rexit"
     IN hub' = [hub EXCEPT !.pc = next, !.raw = r]
  /\ UNCHANGED <<registers, handling, bus, changed, hasDevice, fed>>

(* The resume was signalled long enough (or was never timed: resume_done is  *)
(* 0): move the port to U0 and wait for the event handler.                   *)
BeginRexit ==
  /\ hub.pc = "rexit" /\ Go("wait")
  /\ LET p == hub.port IN
     /\ resumeDone' = [resumeDone EXCEPT ![p] = "none"]
     /\ rexit' = rexit \cup {p}
     /\ portsc' = [portsc EXCEPT ![p] = WriteLink(portsc[p], "U0")]
  /\ UNCHANGED <<portEvents, budget, handling, suspended, busSuspended, rexitDone,
                 cSuspend, rhTimer, busState, changed, hasDevice, fed>>

ResumeEnds(p) ==
  /\ cSuspend' = cSuspend \cup {p}
  /\ suspended' = suspended \ {p}

FaultyRexitDone ==
  /\ hub.pc = "wait" /\ rexitDone[hub.port] > 0
  /\ rexitDone' = [rexitDone EXCEPT ![hub.port] = @ - 1]
  /\ ResumeEnds(hub.port) /\ Go("report")
  /\ UNCHANGED <<registers, handling, busSuspended, resumeDone, rexit, rhTimer,
                 busState, changed, hasDevice, fed>>

RexitDone ==
  /\ hub.pc = "wait" /\ rexitDone[hub.port] > 0
  /\ rexitDone' = [rexitDone EXCEPT ![hub.port] = @ - 1]
  /\ IF hub.port \in hasDevice
     THEN /\ fed' = fed \cup {hub.port}
          /\ ResumeEnds(hub.port) /\ Go("report")
     ELSE Go("idle") /\ UNCHANGED <<fed, cSuspend, suspended>>
  /\ UNCHANGED <<registers, handling, busSuspended, resumeDone, rexit, rhTimer,
                 busState, changed, hasDevice>>

(* The wait times out; the port status is read before rexit is cleared.      *)
RexitTimeout ==
  /\ hub.pc = "wait" /\ rexitDone[hub.port] = 0 /\ Spend("slow")
  /\ Go("slow")
  /\ UNCHANGED <<portsc, portEvents, handling, bus, changed, hasDevice, fed>>

RexitGivesUp ==
  /\ hub.pc = "slow"
  /\ rexit' = rexit \ {hub.port}
  /\ ResumeEnds(hub.port) /\ Go("report")
  /\ UNCHANGED <<registers, handling, busSuspended, resumeDone, rexitDone, rhTimer,
                 busState, changed, hasDevice, fed>>

(* The status word: the changes of the value read, and C_SUSPEND.  A port    *)
(* found in U0 is no longer suspended.                                       *)
PortStatus ==
  /\ hub.pc = "report"
  /\ LET p == hub.port
         woken == hub.raw.pls = "U0" /\ p \in suspended
         sus == IF woken THEN cSuspend \cup {p} ELSE cSuspend
         reported == (hub.raw.changes \cap {"CSC", "PEC", "RC"}) \cup
                     (IF p \in sus THEN {"C_SUSPEND"} ELSE {})
     IN /\ suspended' = IF woken THEN suspended \ {p} ELSE suspended
        /\ cSuspend' = sus
        /\ hub' = [hub EXCEPT !.pc = "clear", !.seen = reported, !.todo = reported]
  /\ UNCHANGED <<registers, handling, busSuspended, resumeDone, rexit, rexitDone,
                 rhTimer, busState, changed, hasDevice, fed>>

(* ClearPortFeature of each change that was reported.  C_SUSPEND falls       *)
(* through to the register write, where it stands for PORT_PLC.              *)
ClearPortFeature ==
  /\ hub.pc = "clear" /\ hub.todo # {}
  /\ \E c \in hub.todo :
       LET p == hub.port IN
       /\ hub' = [hub EXCEPT !.todo = @ \ {c}]
       /\ cSuspend' = IF c = "C_SUSPEND" THEN cSuspend \ {p} ELSE cSuspend
       /\ portsc' = [portsc EXCEPT ![p] =
                       ClearBits(@, IF c = "C_SUSPEND" THEN {"PLC"} ELSE {c})]
  /\ UNCHANGED <<portEvents, budget, handling, suspended, busSuspended, resumeDone,
                 rexit, rexitDone, rhTimer, busState, changed, hasDevice, fed>>

(* The hub thread acts on a connection change: the device that was there is  *)
(* freed, one that is there is reset (SetPortFeature(RESET)) and enumerated. *)
ActOnStatus ==
  /\ hub.pc = "clear" /\ hub.todo = {}
  /\ LET p == hub.port
         connection == "CSC" \in hub.seen
     IN /\ hasDevice' = IF connection THEN hasDevice \ {p} ELSE hasDevice
        /\ fed' = IF connection THEN fed \ {p} ELSE fed
        /\ IF connection /\ portsc[p].conn
           THEN /\ portsc' = [portsc EXCEPT ![p].reset = TRUE, ![p].pe = FALSE,
                                            ![p].exiting = FALSE]
                /\ Go("resetting")
           ELSE Go("idle") /\ UNCHANGED portsc
  /\ UNCHANGED <<portEvents, budget, handling, bus, changed>>

(* A device that cannot be enumerated has its port disabled.                 *)
PortReset ==
  /\ hub.pc = "resetting" /\ ~portsc[hub.port].reset
  /\ \E enumerated \in BOOLEAN :
       LET p == hub.port
           r == ClearBits(portsc[p], {"RC"})
           new == IF enumerated /\ r.pe THEN {p} ELSE {}
       IN /\ portsc' = [portsc EXCEPT ![p] = IF enumerated THEN r ELSE Disable(r)]
          /\ hasDevice' = hasDevice \cup new
          /\ fed' = fed \cup new
  /\ Go("idle")
  /\ UNCHANGED <<portEvents, budget, handling, bus, changed>>

-----------------------------------------------------------------------------
(* SetPortFeature(SUSPEND): a port that is not in U0 is moved there first.   *)
(* xhci_stop_device waits for the Stop Endpoint commands with the register   *)
(* lock released, then the link goes to U3.                                  *)
Sleeps(r) == r.pls # "U0"

SuspendPort(p) ==
  /\ HubIdle /\ p \in hasDevice \ suspended /\ Spend("suspend")
  /\ hub' = [AtRest EXCEPT !.pc = "suspend", !.port = p]
  /\ portsc' = IF Sleeps(portsc[p]) THEN [portsc EXCEPT ![p] = WriteLink(@, "U0")]
               ELSE portsc
  /\ UNCHANGED <<portEvents, handling, bus, changed, hasDevice, fed>>

FaultySuspendStops ==
  /\ hub.pc = "suspend"
  /\ LET r == portsc[hub.port] IN
     IF r.pe /\ ~r.reset /\ ~Sleeps(r) THEN Go("u3") ELSE Go("idle")
  /\ UNCHANGED <<registers, handling, bus, changed, hasDevice, fed>>

SuspendStops ==
  /\ hub.pc = "suspend"
  /\ LET r == portsc[hub.port] IN
     IF r.pe /\ ~r.reset /\ ~Sleeps(r)
     THEN Go("u3") /\ fed' = fed \ {hub.port}
     ELSE Go("idle") /\ UNCHANGED fed
  /\ UNCHANGED <<registers, handling, bus, changed, hasDevice>>

PortSuspended ==
  /\ hub.pc = "u3" /\ Go("idle")
  /\ portsc' = [portsc EXCEPT ![hub.port] = WriteLink(@, "U3")]
  /\ suspended' = suspended \cup {hub.port}
  /\ UNCHANGED <<portEvents, budget, handling, busSuspended, resumeDone, rexit,
                 rexitDone, cSuspend, rhTimer, busState, changed, hasDevice, fed>>

(* ClearPortFeature(SUSPEND): resume is signalled for 20 ms with the lock    *)
(* released, then the port is moved to U0 and the doorbells are rung; the    *)
(* core then reads the port's status.                                        *)
ResumePort(p) ==
  /\ HubIdle /\ p \in suspended \cap hasDevice
  /\ LET r == portsc[p] IN
     IF r.reset \/ (r.pls = "U3" /\ ~r.pe)
     THEN UNCHANGED <<hub, portsc>>
     ELSE /\ hub' = [AtRest EXCEPT !.pc = "resuming", !.port = p, !.raw = r]
          /\ portsc' = IF r.pls = "U3"
                       THEN [portsc EXCEPT ![p] = WriteLink(r, "Resume")]
                       ELSE portsc
  /\ UNCHANGED <<portEvents, budget, handling, bus, changed, hasDevice, fed>>

PortResumed ==
  /\ hub.pc = "resuming" /\ Go("status")
  /\ LET p == hub.port IN
     /\ portsc' = IF hub.raw.pls = "U3"
                  THEN [portsc EXCEPT ![p] = WriteLink(@, "U0")] ELSE portsc
     /\ cSuspend' = cSuspend \cup {p}
     /\ fed' = IF p \in hasDevice THEN fed \cup {p} ELSE fed
  /\ UNCHANGED <<portEvents, budget, handling, suspended, busSuspended, resumeDone,
                 rexit, rexitDone, rhTimer, busState, changed, hasDevice>>

(* ehub_xhci_bus_suspend and ehub_xhci_bus_resume, one port at a time.  The  *)
(* suspend decides from the value it read before it stopped the device.      *)
Resuming == {p \in Ports : resumeDone[p] # "none"}

BusSuspend ==
  /\ HubIdle /\ Spend("suspend")
  /\ IF Resuming # {}
     THEN UNCHANGED <<hub, busSuspended>>
     ELSE /\ hub' = [AtRest EXCEPT !.pc = "bus suspend", !.todo = Ports]
          /\ busSuspended' = {}
  /\ UNCHANGED <<portsc, portEvents, handling, suspended, resumeDone, rexit,
                 rexitDone, cSuspend, rhTimer, busState, changed, hasDevice, fed>>

BusStopPort ==
  /\ hub.pc = "bus suspend" /\ hub.todo # {}
  /\ \E p \in hub.todo :
       IF portsc[p].pe /\ ~Sleeps(portsc[p])
       THEN /\ hub' = [hub EXCEPT !.todo = @ \ {p}, !.pc = "bus u3", !.port = p]
            /\ fed' = fed \ {p}
       ELSE hub' = [hub EXCEPT !.todo = @ \ {p}] /\ UNCHANGED fed
  /\ UNCHANGED <<registers, handling, bus, changed, hasDevice>>

BusSuspendPort ==
  /\ hub.pc = "bus u3" /\ Go("bus suspend")
  /\ portsc' = [portsc EXCEPT ![hub.port] = WriteLink(@, "U3")]
  /\ busSuspended' = busSuspended \cup {hub.port}
  /\ UNCHANGED <<portEvents, budget, handling, suspended, resumeDone, rexit,
                 rexitDone, cSuspend, rhTimer, busState, changed, hasDevice, fed>>

(* The core then asks for the status once more, and wakes the bus again if   *)
(* there is one to report or a port is resuming.                             *)
BusSuspended ==
  /\ hub.pc = "bus suspend" /\ hub.todo = {} /\ Go("idle")
  /\ busState' = IF StatusData = {} /\ Resuming = {} THEN "suspended" ELSE "waking"
  /\ UNCHANGED <<registers, handling, suspended, busSuspended, resumeDone, rexit,
                 rexitDone, cSuspend, rhTimer, changed, hasDevice, fed>>

WakeBus ==
  /\ busState = "suspended" /\ busState' = "waking"
  /\ UNCHANGED <<registers, handling, suspended, busSuspended, resumeDone, rexit,
                 rexitDone, cSuspend, rhTimer, hub, changed, hasDevice, fed>>

BusResume ==
  /\ hub.pc = "idle" /\ busState = "waking"
  /\ hub' = [AtRest EXCEPT !.pc = "bus resume", !.todo = Ports]
  /\ UNCHANGED <<registers, handling, bus, changed, hasDevice, fed>>

(* A port the bus suspend put to sleep is woken; every other one has its     *)
(* register written back with the change bits masked out.                    *)
BusResumePort ==
  /\ hub.pc = "bus resume" /\ hub.todo # {}
  /\ \E p \in hub.todo :
       IF p \in busSuspended /\ Sleeps(portsc[p])
       THEN /\ hub' = [hub EXCEPT !.pc = "bus resuming", !.port = p, !.todo = @ \ {p}]
            /\ portsc' = [portsc EXCEPT ![p] = WriteLink(@, "Resume")]
       ELSE /\ hub' = [hub EXCEPT !.todo = @ \ {p}]
            /\ UNCHANGED portsc
  /\ UNCHANGED <<portEvents, budget, handling, bus, changed, hasDevice, fed>>

BusResumeToU0 ==
  /\ hub.pc = "bus resuming" /\ Go("bus u0")
  /\ portsc' = [portsc EXCEPT ![hub.port] = WriteLink(@, "U0")]
  /\ UNCHANGED <<portEvents, budget, handling, bus, changed, hasDevice, fed>>

BusResumeRings ==
  /\ hub.pc = "bus u0" /\ Go("bus resume")
  /\ portsc' = [portsc EXCEPT ![hub.port] = ClearBits(@, {"PLC"})]
  /\ fed' = IF hub.port \in hasDevice THEN fed \cup {hub.port} ELSE fed
  /\ UNCHANGED <<portEvents, budget, handling, bus, changed, hasDevice>>

BusResumed ==
  /\ hub.pc = "bus resume" /\ hub.todo = {} /\ Go("idle")
  /\ busState' = "running"
  /\ UNCHANGED <<registers, handling, suspended, busSuspended, resumeDone, rexit,
                 rexitDone, cSuspend, rhTimer, changed, hasDevice, fed>>

-----------------------------------------------------------------------------
HubThread ==
  \/ \E p \in Ports : TakePort(p)
  \/ GetPortStatus \/ BeginRexit \/ RexitDone \/ RexitGivesUp
  \/ PortStatus \/ ClearPortFeature \/ ActOnStatus \/ PortReset
  \/ SuspendStops \/ PortSuspended \/ PortResumed
  \/ BusStopPort \/ BusSuspendPort \/ BusSuspended
  \/ BusResume \/ BusResumePort \/ BusResumeToU0 \/ BusResumeRings \/ BusResumed

Works == (\E p \in Ports : PortEvent(p) \/ PortEventReports(p) \/ ResumeDue(p)) \/
         TimerPolls
Hardware == \E p \in Ports : ResetEnds(p) \/ EnterU0(p)

HubNext ==
  \/ HubThread \/ Works \/ Hardware \/ RexitTimeout
  \/ \E p \in Ports : Plug(p) \/ RemoteWake(p) \/ SuspendPort(p) \/ ResumePort(p)
  \/ BusSuspend \/ WakeBus

HubSpec == HubInit /\ [][HubNext]_hubVars

(* The hub thread and the work items run, timers expire, a port reset and    *)
(* a resume come to an end.                                                  *)
HubFairness ==
  /\ WF_hubVars(HubThread)
  /\ \A p \in Ports : /\ WF_hubVars(PortEvent(p)) /\ WF_hubVars(PortEventReports(p))
                      /\ WF_hubVars(ResumeDue(p))
                      /\ WF_hubVars(ResetEnds(p)) /\ WF_hubVars(EnterU0(p))
  /\ WF_hubVars(TimerPolls)

HubFairSpec == HubSpec /\ HubFairness

-----------------------------------------------------------------------------
(* A connection change is noticed by the hub thread, when the port does not  *)
(* change again before the last change was served: the work item, the status *)
(* URB and the hub thread lose none, unless a wait for RExit was given up.   *)
GaveUp == budget.slow < MaxSlow

ChangesServed ==
  \A p \in Ports :
    "CSC" \in portsc[p].changes ~> GaveUp \/ "CSC" \notin portsc[p].changes

(* Every connection change is noticed, whenever it happens ("When an event   *)
(* occurs, switch over to polling to avoid losing status changes",           *)
(* handle_port_status). It does not hold: see README.md.                     *)
NoChangeLost ==
  \A p \in Ports : "CSC" \in portsc[p].changes ~> "CSC" \notin portsc[p].changes

(* A port that signals resume does not stay in that state: the work item,    *)
(* the timer and the hub thread between them bring it to U0.                 *)
ResumeServed ==
  \A p \in Ports : portsc[p].pls = "Resume" ~> portsc[p].pls # "Resume"

(* A port in U3 has its endpoints stopped, whoever put it there.             *)
StoppedInU3 ==
  \A p \in Ports : portsc[p].pls = "U3" => p \notin fed

Settled ==
  /\ hub.pc = "idle" /\ changed = {} /\ handling = {} /\ busState = "running"
  /\ \A p \in Ports : portEvents[p] = 0 /\ portsc[p].changes = {}

(* When everything is at rest, a device whose port is in U0 has had its      *)
(* doorbells rung again, whether the host, the device or the bus resumed it  *)
(* (unless the wait for RExit was given up).                                 *)
RestartedInU0 ==
  Settled /\ ~GaveUp
    => \A p \in hasDevice : portsc[p].pls = "U0" => p \in fed

(* resuming_ports names only ports that are resuming ("Inform the usbcore    *)
(* about resume-in-progress", ehub_xhci_hub_status_data): while it is not    *)
(* empty the bus cannot be suspended. It does not hold: see README.md.       *)
ResumingIsReal ==
  Settled /\ ~rhTimer => \A p \in Resuming : portsc[p].pls = "Resume"

(* Together: the endpoints of a device run when its port can move data.      *)
FedWithPort == StoppedInU3 /\ RestartedInU0

(* Together: whatever a port reports is acted on.                            *)
PortsServed == ChangesServed /\ ResumeServed
=============================================================================
