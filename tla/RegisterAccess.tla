--------------------------- MODULE RegisterAccess ---------------------------
(***************************************************************************)
(* Register reads and writes of the embedded xHCI host.                    *)
(*                                                                         *)
(* The controller sits behind a USB link.  A register access is a command  *)
(* sent in an OUT URB; the answer to a read comes back in one of a pool of *)
(* receive URBs, whose completion routine hands it to a work item of ONE   *)
(* ordered work queue.  Threads (Clients) take the semaphore               *)
(* EmbeddedRegisterLock, submit the command, wait for the URB and, for a   *)
(* read, for CompletionEventEmbeddedRegisterRead; every wait has a         *)
(* timeout, and a failure latches ErrorFlags.EmbeddedRegisterError.        *)
(*                                                                         *)
(* Data is abstracted to its origin: every call has a number, a command    *)
(* carries the number of its call and an answer the number of the command  *)
(* it answers.                                                             *)
(***************************************************************************)
EXTENDS Naturals, Sequences, FiniteSets

CONSTANTS
  Clients,         \* threads that call ehub_xhci_readl / ehub_xhci_writel
  PortWorker,      \* the client that runs deferred port status work
  Interruptible,   \* clients whose sleeps a signal may interrupt
  RxUrbs,          \* receive URBs posted (NUMBER_OF_MESSAGE_BULK + _INTERRUPT)
  MaxCalls,        \* bound: calls made by clients other than PortWorker
  MaxEvents,       \* bound: port status events the device sends
  Unreliable,      \* BOOLEAN: URBs may fail, the device may be unplugged
  TimeoutsHappen   \* BOOLEAN: a wait may last longer than its timeout

ASSUME RegisterAssumption ==
  /\ PortWorker \in Clients
  /\ Interruptible \subseteq Clients
  /\ RxUrbs \in Nat /\ MaxCalls \in Nat /\ MaxEvents \in Nat
  /\ Unreliable \in BOOLEAN /\ TimeoutsHappen \in BOOLEAN

VARIABLES
  pc,        \* where each client is in EMBEDDED_REGISTER_Read / _Write
  op,        \* which of the two it executes
  req,       \* the number of its latest call
  res,       \* what its latest call returned
  sem,       \* count of EmbeddedRegisterLock
  semq,      \* clients asleep in down_interruptible, in order
  errors,    \* conditions DEVICECONTEXT_ErrorCheck finds, see Errors
  urb,       \* the two register URB contexts, with their completion Event
  regEvent,  \* CompletionEventEmbeddedRegisterRead
  data,      \* DataEmbeddedRegisterRead
  wire,      \* messages the device has sent and no receive URB has taken
  workq,     \* WorkItemProcessingQueue
  wk,        \* the message the ordered work queue is handling
  rx,        \* receive URBs currently submitted
  portWork,  \* port status work scheduled on the system work queue
  issued,    \* calls made so far
  events     \* port status events sent so far

vars == <<pc, op, req, res, sem, semq, errors, urb, regEvent, data, wire,
          workq, wk, rx, portWork, issued, events>>

clientVars == <<op, req, res, issued>>
deviceVars == <<wire, workq, wk, rx, portWork, events, data>>

Ops == {"read", "write"}

(* ErrorFlags.EmbeddedRegisterError, and everything else that makes          *)
(* DEVICECONTEXT_ErrorCheck fail (unbound, unplugged, host dying).           *)
Errors == {"register", "gone"}

Inside == {"submit", "check1", "wait1", "check2", "wait2", "copy", "done", "fail"}

Locations == {"idle", "down", "blocked"} \cup Inside

NoMessage == [type |-> "none", num |-> 0]

Messages == [type : {"answer", "event"}, num : Nat]

(* What the code returns: nothing yet, an error (all ones for a read), a    *)
(* successful write, or the number found in DataEmbeddedRegisterRead.       *)
Results == [kind : {"none", "fail", "ok"}, num : Nat]

NoResult == [kind |-> "none", num |-> 0]
Failed == [kind |-> "fail", num |-> 0]

Init ==
  /\ pc = [c \in Clients |-> "idle"]
  /\ op = [c \in Clients |-> "read"]
  /\ req = [c \in Clients |-> 0]
  /\ res = [c \in Clients |-> NoResult]
  /\ sem = 1 /\ semq = <<>>
  /\ errors = {}
  /\ urb = [k \in Ops |-> [state |-> "idle", num |-> 0, event |-> 0]]
  /\ regEvent = 0 /\ data = 0
  /\ wire = {} /\ workq = <<>> /\ wk = NoMessage
  /\ rx = RxUrbs /\ portWork = 0
  /\ issued = 0 /\ events = 0

-----------------------------------------------------------------------------
(* DEVICECONTEXT_ErrorCheck: TRUE when it returns 0.                        *)
ErrorCheck == errors = {}

(* The definitions named Faulty... are variants of the one that follows,     *)
(* each with a mistake the properties below must notice.                     *)

(* ehub_xhci_readl / ehub_xhci_writel up to the call of EMBEDDED_REGISTER_*. *)
(* The port worker runs only when port status work is scheduled, and reads.  *)
Call(c, k) ==
  /\ pc[c] = "idle"
  /\ IF c = PortWorker THEN k = "read" /\ portWork > 0 ELSE issued < MaxCalls
  /\ portWork' = IF c = PortWorker THEN portWork - 1 ELSE portWork
  /\ issued' = issued + 1
  /\ op' = [op EXCEPT ![c] = k]
  /\ req' = [req EXCEPT ![c] = issued + 1]
  /\ \/ ErrorCheck /\ pc' = [pc EXCEPT ![c] = "down"]
                   /\ res' = [res EXCEPT ![c] = NoResult]
     \/ ~ErrorCheck /\ res' = [res EXCEPT ![c] = Failed] /\ pc' = pc
  /\ UNCHANGED <<sem, semq, errors, urb, regEvent, data, wire, workq,
                 wk, rx, events>>

(* down_interruptible(&EmbeddedRegisterLock): a Linux semaphore is FIFO.     *)
Down(c) ==
  /\ pc[c] = "down"
  /\ \/ sem > 0 /\ sem' = sem - 1 /\ pc' = [pc EXCEPT ![c] = "submit"]
                /\ semq' = semq
     \/ sem = 0 /\ semq' = Append(semq, c)
                /\ pc' = [pc EXCEPT ![c] = "blocked"] /\ sem' = sem
  /\ UNCHANGED <<clientVars, errors, urb, regEvent, deviceVars>>

(* A signal ends the sleep; the failure is only ASSERTed, and the function   *)
(* continues without the lock.                                              *)
DownInterrupted(c) ==
  /\ pc[c] = "blocked" /\ c \in Interruptible
  /\ \E i \in 1..Len(semq) :
       semq[i] = c /\ semq' = SubSeq(semq, 1, i - 1) \o SubSeq(semq, i + 1, Len(semq))
  /\ pc' = [pc EXCEPT ![c] = "submit"]
  /\ UNCHANGED <<clientVars, sem, errors, urb, regEvent, deviceVars>>

(* Faulty: the count is incremented although a sleeper was woken.            *)
FaultyUp(c) ==
  /\ sem' = sem + 1
  /\ semq' = IF semq = <<>> THEN semq ELSE Tail(semq)
  /\ pc' = IF semq = <<>> THEN [pc EXCEPT ![c] = "idle"]
                          ELSE [pc EXCEPT ![c] = "idle", ![Head(semq)] = "submit"]

(* up() wakes the first sleeper, or increments the count.                    *)
Up(c) ==
  IF semq = <<>>
  THEN /\ sem' = sem + 1 /\ semq' = semq
       /\ pc' = [pc EXCEPT ![c] = "idle"]
  ELSE /\ sem' = sem /\ semq' = Tail(semq)
       /\ pc' = [pc EXCEPT ![c] = "idle", ![Head(semq)] = "submit"]

(* Fill the command buffer, reset the events, URB_Submit.  usb_submit_urb    *)
(* refuses an URB that is still in flight, after the buffer was rewritten.   *)
Submit(c) ==
  /\ pc[c] = "submit"
  /\ regEvent' = IF op[c] = "read" THEN 0 ELSE regEvent
  /\ \/ /\ urb[op[c]].state = "idle" /\ "gone" \notin errors
        /\ urb' = [urb EXCEPT ![op[c]] = [state |-> "flight", num |-> req[c], event |-> 0]]
        /\ pc' = [pc EXCEPT ![c] = "check1"]
     \/ /\ urb[op[c]].state = "flight" \/ Unreliable
        /\ urb' = [urb EXCEPT ![op[c]].num = req[c], ![op[c]].event = 0]
        /\ pc' = [pc EXCEPT ![c] = "fail"]
  /\ UNCHANGED <<clientVars, sem, semq, errors, deviceVars>>

(* Faulty: a write does not wait for its URB.                                *)
FaultyWaitCheck(c) ==
  /\ pc[c] \in {"check1", "check2"}
  /\ pc' = [pc EXCEPT ![c] = IF op[c] = "write" THEN "done"
                             ELSE IF pc[c] = "check1" THEN "wait1" ELSE "wait2"]
  /\ UNCHANGED <<clientVars, sem, semq, errors, urb, regEvent, deviceVars>>

(* NOTIFICATION_Wait begins with DEVICECONTEXT_ErrorCheck ...                *)
WaitCheck(c) ==
  /\ pc[c] \in {"check1", "check2"}
  /\ pc' = [pc EXCEPT ![c] = IF ~ErrorCheck THEN "fail"
                             ELSE IF pc[c] = "check1" THEN "wait1" ELSE "wait2"]
  /\ UNCHANGED <<clientVars, sem, semq, errors, urb, regEvent, deviceVars>>

(* ... and then sleeps until the completion is signalled ...                 *)
UrbEventWakes(c) ==
  /\ pc[c] = "wait1" /\ urb[op[c]].event > 0
  /\ urb' = [urb EXCEPT ![op[c]].event = @ - 1]
  /\ pc' = [pc EXCEPT ![c] = IF op[c] = "read" THEN "check2" ELSE "done"]
  /\ UNCHANGED <<clientVars, sem, semq, errors, regEvent, deviceVars>>

ReadEventWakes(c) ==
  /\ pc[c] = "wait2" /\ regEvent > 0
  /\ regEvent' = regEvent - 1
  /\ pc' = [pc EXCEPT ![c] = "copy"]
  /\ UNCHANGED <<clientVars, sem, semq, errors, urb, deviceVars>>

(* ... or the time is over, or a signal arrives.                             *)
WaitFails(c) ==
  /\ TimeoutsHappen \/ c \in Interruptible
  /\ \/ pc[c] = "wait1" /\ urb[op[c]].event = 0
     \/ pc[c] = "wait2" /\ regEvent = 0
  /\ pc' = [pc EXCEPT ![c] = "fail"]
  /\ UNCHANGED <<clientVars, sem, semq, errors, urb, regEvent, deviceVars>>

(* The successful and the failing exit of EMBEDDED_REGISTER_Read / _Write.   *)
Return(c) ==
  /\ pc[c] \in {"copy", "done"}
  /\ res' = [res EXCEPT ![c] =
               [kind |-> "ok", num |-> IF pc[c] = "copy" THEN data ELSE 0]]
  /\ Up(c)
  /\ UNCHANGED <<op, req, issued, errors, urb, regEvent, deviceVars>>

(* Faulty: the error is not latched, or the lock is not released.            *)
FaultyFailUnlatched(c) ==
  /\ pc[c] = "fail"
  /\ res' = [res EXCEPT ![c] = Failed]
  /\ Up(c)
  /\ UNCHANGED <<op, req, issued, errors, urb, regEvent, deviceVars>>

FaultyFailLocked(c) ==
  /\ pc[c] = "fail"
  /\ errors' = errors \cup {"register"}
  /\ res' = [res EXCEPT ![c] = Failed]
  /\ pc' = [pc EXCEPT ![c] = "idle"]
  /\ UNCHANGED <<op, req, issued, sem, semq, urb, regEvent, deviceVars>>

Fail(c) ==
  /\ pc[c] = "fail"
  /\ errors' = errors \cup {"register"}
  /\ res' = [res EXCEPT ![c] = Failed]
  /\ Up(c)
  /\ UNCHANGED <<op, req, issued, urb, regEvent, deviceVars>>

-----------------------------------------------------------------------------
(* The OUT URB completes: URB_CompletionRoutine_Simple.  When it carried the *)
(* command to the device, a read is answered.  The completion status is      *)
(* recorded but an error still signals Event; -ESHUTDOWN does not.           *)
UrbCompletes(k) ==
  /\ urb[k].state = "flight"
  /\ \E sent \in BOOLEAN :
       /\ sent => "gone" \notin errors
       /\ ~sent => Unreliable
       /\ wire' = IF sent /\ k = "read"
                  THEN wire \cup {[type |-> "answer", num |-> urb[k].num]}
                  ELSE wire
  /\ urb' = [urb EXCEPT ![k].state = "idle",
                        ![k].event = IF ErrorCheck THEN @ + 1 ELSE @]
  /\ UNCHANGED <<pc, clientVars, sem, semq, errors, regEvent, data,
                 workq, wk, rx, portWork, events>>

(* The embedded host reports a port change.                                  *)
DeviceSendsEvent ==
  /\ events < MaxEvents /\ "gone" \notin errors
  /\ events' = events + 1
  /\ wire' = wire \cup {[type |-> "event", num |-> events + 1]}
  /\ UNCHANGED <<pc, clientVars, sem, semq, errors, urb, regEvent, data,
                 workq, wk, rx, portWork>>

(* Faulty: the receive URB is not submitted again.                           *)
FaultyGetMessage(m) ==
  /\ m \in wire /\ rx > 0
  /\ wire' = wire \ {m}
  /\ workq' = Append(workq, m) /\ rx' = rx - 1
  /\ UNCHANGED <<pc, clientVars, sem, semq, errors, urb, regEvent, data,
                 wk, portWork, events>>

(* URB_CompletionRoutine_GetMessage: copy the message into a work item and   *)
(* submit the URB again, which may fail or, after an error, is left out;     *)
(* neither is done once DEVICECONTEXT_ErrorCheck fails.                      *)
GetMessage(m) ==
  /\ m \in wire /\ rx > 0
  /\ wire' = wire \ {m}
  /\ IF ErrorCheck
     THEN workq' = Append(workq, m) /\ (rx' = rx \/ (Unreliable /\ rx' = rx - 1))
     ELSE workq' = workq /\ rx' = rx - 1
  /\ UNCHANGED <<pc, clientVars, sem, semq, errors, urb, regEvent, data,
                 wk, portWork, events>>

(* A receive URB completes with an error and no data: it is not resubmitted. *)
GetMessageFails(m) ==
  /\ Unreliable /\ m \in wire /\ rx > 0
  /\ wire' = wire \ {m}
  /\ rx' = rx - 1
  /\ UNCHANGED <<pc, clientVars, sem, semq, errors, urb, regEvent, data,
                 workq, wk, portWork, events>>

(* The ordered work queue: MESSAGE_Parsing checks, then handles.             *)
Parsing ==
  /\ wk = NoMessage /\ workq # <<>>
  /\ workq' = Tail(workq)
  /\ wk' = IF ErrorCheck THEN Head(workq) ELSE NoMessage
  /\ UNCHANGED <<pc, clientVars, sem, semq, errors, urb, regEvent, data,
                 wire, rx, portWork, events>>

(* Faulty: the reader is notified but the data is not stored.                *)
FaultyStoreAnswer ==
  /\ wk.type = "answer"
  /\ wk' = [wk EXCEPT !.type = "notify"]
  /\ UNCHANGED <<pc, clientVars, sem, semq, errors, urb, regEvent, data, wire,
                 workq, rx, portWork, events>>

(* REGISTER_READ_COMPLETION: store the data, then notify the reader.         *)
StoreAnswer ==
  /\ wk.type = "answer"
  /\ data' = wk.num
  /\ wk' = [wk EXCEPT !.type = "notify"]
  /\ UNCHANGED <<pc, clientVars, sem, semq, errors, urb, regEvent, wire,
                 workq, rx, portWork, events>>

NotifyReader ==
  /\ wk.type = "notify"
  /\ regEvent' = regEvent + 1
  /\ wk' = NoMessage
  /\ UNCHANGED <<pc, clientVars, sem, semq, errors, urb, data, wire,
                 workq, rx, portWork, events>>

(* A port status event is not handled here: handle_port_status reads         *)
(* registers, so ehub_xhci_queue_port_status_event hands it to the system    *)
(* work queue.                                                               *)
HandleEvent ==
  /\ wk.type = "event"
  /\ portWork' = portWork + 1
  /\ wk' = NoMessage
  /\ UNCHANGED <<pc, clientVars, sem, semq, errors, urb, regEvent, data,
                 wire, workq, rx, events>>

(* EMBEDDED_REGISTER_Write_Doorbell shares the error flag, not the lock.     *)
DoorbellFails ==
  /\ Unreliable
  /\ errors' = errors \cup {"register"}
  /\ UNCHANGED <<pc, clientVars, sem, semq, urb, regEvent, deviceVars>>

(* Unplug, unbind, or the host controller is marked dying.                   *)
Unplug ==
  /\ Unreliable
  /\ errors' = errors \cup {"gone"}
  /\ UNCHANGED <<pc, clientVars, sem, semq, urb, regEvent, deviceVars>>

-----------------------------------------------------------------------------
ClientStep(c) ==
  \/ Down(c) \/ Submit(c) \/ WaitCheck(c) \/ UrbEventWakes(c)
  \/ ReadEventWakes(c) \/ WaitFails(c) \/ Return(c) \/ Fail(c)

BusStep ==
  \/ \E k \in Ops : UrbCompletes(k)
  \/ \E m \in wire : GetMessage(m)

WorkerStep == Parsing \/ StoreAnswer \/ NotifyReader \/ HandleEvent

Next ==
  \/ \E c \in Clients, k \in Ops : Call(c, k)
  \/ \E c \in Clients : ClientStep(c) \/ DownInterrupted(c)
  \/ BusStep
  \/ DeviceSendsEvent
  \/ \E m \in wire : GetMessageFails(m)
  \/ WorkerStep
  \/ DoorbellFails
  \/ Unplug

Spec == Init /\ [][Next]_vars

(* Every thread that can run is run, the timeouts expire, the host's USB     *)
(* stack completes URBs and the work queues run their items.                 *)
Fairness ==
  /\ \A c \in Clients : WF_vars(ClientStep(c))
  /\ WF_vars(Call(PortWorker, "read"))
  /\ \A k \in Ops : WF_vars(UrbCompletes(k))
  /\ \A n \in 1..(MaxCalls + MaxEvents), t \in {"answer", "event"} :
       WF_vars(GetMessage([type |-> t, num |-> n]))
  /\ WF_vars(WorkerStep)

FairSpec == Spec /\ Fairness

-----------------------------------------------------------------------------
(* Types of the state.                                                       *)
TypeOK ==
  /\ pc \in [Clients -> Locations]
  /\ op \in [Clients -> Ops]
  /\ req \in [Clients -> Nat]
  /\ res \in [Clients -> Results]
  /\ sem \in Nat /\ semq \in Seq(Clients)
  /\ errors \subseteq Errors
  /\ urb \in [Ops -> [state : {"idle", "flight"}, num : Nat, event : Nat]]
  /\ regEvent \in Nat /\ data \in Nat
  /\ wire \subseteq Messages /\ workq \in Seq(Messages)
  /\ wk \in [type : {"none", "answer", "notify", "event"}, num : Nat]
  /\ rx \in Nat /\ portWork \in Nat /\ issued \in Nat /\ events \in Nat

(* Between down and up of EmbeddedRegisterLock there is at most one thread:  *)
(* the register URBs, their buffers and both events belong to it.  It is     *)
(* what the ASSERT(false) after a failed down_interruptible relies on.       *)
LockedByOne ==
  \A c, d \in Clients : pc[c] \in Inside /\ pc[d] \in Inside => c = d

(* A read that succeeds returns the answer to its own command: never the     *)
(* late answer to a read that timed out, nor one that another thread's read  *)
(* left behind, although answers carry no tag and share one variable and one *)
(* completion.                                                               *)
ReadReturnsOwnAnswer ==
  \A c \in Clients :
    res[c].kind = "ok" /\ op[c] = "read" => res[c].num = req[c]

(* Messages of a register read that nobody has consumed yet.                 *)
AnswersUnderway ==
  {m \in wire : m.type = "answer"}
    \cup {workq[i] : i \in {j \in DOMAIN workq : workq[j].type = "answer"}}
    \cup (IF wk.type \in {"answer", "notify"} THEN {wk} ELSE {})

(* While no error is latched, whoever takes the lock finds a quiet link: no  *)
(* register URB in flight, no answer underway and no stale notification.     *)
QuietWhenUnlocked ==
  (\A c \in Clients : pc[c] \notin Inside) /\ "register" \notin errors =>
    /\ \A k \in Ops : urb[k].state = "idle"
    /\ AnswersUnderway = {}
    /\ regEvent = 0

-----------------------------------------------------------------------------
(* The inductive invariant behind the three properties above.                *)

(* The semaphore: its sleepers are distinct and asleep, its count is 0 while *)
(* somebody holds it, and each kind of access stays on its own path.         *)
LockInv ==
  /\ sem \in {0, 1}
  /\ \A i \in 1..Len(semq) : pc[semq[i]] = "blocked"
  /\ \A i, j \in 1..Len(semq) : semq[i] = semq[j] => i = j
  /\ \A c \in Clients : pc[c] \in Inside => sem = 0
  /\ \A c \in Clients : pc[c] \in {"check2", "wait2", "copy"} => op[c] = "read"
  /\ \A c \in Clients : pc[c] = "done" => op[c] = "write"
  /\ LockedByOne

(* A read command is in one place at a time: its URB, the link, the work     *)
(* queue, the handler, or signalled to the reader.                           *)
InUrb == urb["read"].state = "flight"
InWire == \E m \in wire : m.type = "answer"
InQueue == \E i \in 1..Len(workq) : workq[i].type = "answer"
InHandler == wk.type \in {"answer", "notify"}
InEvent == regEvent > 0

OnePlace ==
  /\ InUrb => ~InWire /\ ~InQueue /\ ~InHandler /\ ~InEvent
  /\ InWire => ~InQueue /\ ~InHandler /\ ~InEvent
  /\ InQueue => ~InHandler /\ ~InEvent
  /\ InHandler => ~InEvent
  /\ \A m, n \in wire : m.type = "answer" /\ n.type = "answer" => m = n
  /\ \A i, j \in 1..Len(workq) :
       workq[i].type = "answer" /\ workq[j].type = "answer" => i = j
  /\ regEvent <= 1

(* A thread whose command may be somewhere.                                  *)
Reading(c) ==
  op[c] = "read" /\ pc[c] \in {"check1", "wait1", "check2", "wait2", "fail"}
Writing(c) == op[c] = "write" /\ pc[c] \in {"check1", "wait1", "fail"}

(* While no error is latched, commands exist only for the thread inside, and *)
(* have left the URB once its completion was seen.                           *)
LinkInv ==
  /\ \A k \in Ops : urb[k].event > 0 => urb[k].state = "idle"
  /\ "register" \notin errors =>
       /\ OnePlace
       /\ (\A c \in Clients : ~Reading(c)) =>
            ~InUrb /\ ~InWire /\ ~InQueue /\ ~InHandler /\ ~InEvent
       /\ (\A c \in Clients : ~Writing(c)) => urb["write"].state = "idle"
       /\ \A c \in Clients : pc[c] \in {"check2", "wait2"} => ~InUrb

(* Everything underway belongs to call n.                                    *)
OnlyFor(n) ==
  /\ InUrb => urb["read"].num = n
  /\ \A m \in wire : m.type = "answer" => m.num = n
  /\ \A i \in 1..Len(workq) : workq[i].type = "answer" => workq[i].num = n
  /\ InHandler => wk.num = n
  /\ wk.type = "notify" \/ InEvent => data = n

(* A reader that passed the check after its own Submit has the link for      *)
(* itself, even when an error is latched later; before that check, it has    *)
(* unless an error is latched already.                                       *)
ReaderInv ==
  \A c \in Clients :
    /\ op[c] = "read" /\ pc[c] \in {"wait1", "check2", "wait2", "copy"} => OnlyFor(req[c])
    /\ op[c] = "read" /\ pc[c] = "check1" /\ "register" \notin errors => OnlyFor(req[c])
    /\ pc[c] = "copy" => data = req[c]

IndInv == TypeOK /\ LockInv /\ LinkInv /\ ReaderInv /\ ReadReturnsOwnAnswer

-----------------------------------------------------------------------------
(* A register access never hangs its caller.                                 *)
CallsReturn == \A c \in Clients : pc[c] # "idle" ~> pc[c] = "idle"

(* On a link that loses nothing no access fails, even though answers wait    *)
(* behind port status events in the one work queue.                          *)
NoSpuriousFailure == \A c \in Clients : res[c].kind # "fail"

(* A port status event that is on its way to handle_port_status.             *)
EventPending ==
  \/ portWork > 0
  \/ wk.type = "event"
  \/ \E m \in wire : m.type = "event"
  \/ \E i \in DOMAIN workq : workq[i].type = "event"

(* Every port change the device reported reaches the port worker, which is   *)
(* not held up by the readers it competes with for the register lock.        *)
PortEventsServed == EventPending ~> ~EventPending
=============================================================================
