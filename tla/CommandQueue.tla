---------------------------- MODULE CommandQueue ----------------------------
(***************************************************************************)
(* The xHCI command queue: cmd_list, the command ring and its timer.       *)
(*                                                                         *)
(* Threads queue commands under xhci->lock and most of them wait for the   *)
(* completion.  The worker handles command completion events, without the  *)
(* lock.  One timer, cmd_timer, watches the command at the head of the     *)
(* list; when it expires the host is marked as dying and every queued      *)
(* command is completed.  A stop endpoint command, which nobody waits for, *)
(* has a watchdog timer of its own.                                        *)
(*                                                                         *)
(* A device that lives answers every command, in time or late; a dead one  *)
(* does not answer.  One endpoint stands for the endpoints that are        *)
(* stopped.  The host never asks the device to abort the ring, so that     *)
(* completions with the codes COMP_CMD_STOP and COMP_CMD_ABORT do not      *)
(* occur.                                                                  *)
(***************************************************************************)
EXTENDS Naturals, Sequences, FiniteSets

CONSTANTS
  Clients,    \* threads that queue commands
  None,       \* no thread
  Room,       \* commands the ring has room for besides the reserved ones
  MaxCmds,    \* bound: commands queued in all
  Kinds,      \* what is queued: "sync" commands a thread waits for, "stop"
              \* and "reset" endpoint commands
  Smp         \* whether threads or timers overlap with the worker: another
              \* processor, preemption or an interrupt

ASSUME CommandAssumption ==
  /\ None \notin Clients
  /\ Room \in Nat /\ MaxCmds \in Nat
  /\ Kinds \subseteq {"sync", "stop", "reset"}
  /\ Smp \in BOOLEAN

VARIABLES
  pc,        \* what each client is doing
  mine,      \* its latest command
  lock,      \* who holds xhci->lock
  list,      \* cmd_list
  ring,      \* commands between the dequeue and enqueue pointer of cmd_ring
  timer,     \* cmd_timer: the command current_cmd it watches, or 0
  state,     \* cmd_ring_state
  dying,     \* "no", or the handler that set XHCI_STATE_DYING
  worker,    \* the completion handler: its next step and its command
  cleanup,   \* ehub_xhci_cleanup_command_queue is running
  stop,      \* the stop endpoint command the watchdog waits for, or 0
  done,      \* how often each command was completed
  devq,      \* commands the device has yet to execute
  events,    \* completion events for the worker
  dead,      \* the device does not answer any more
  issued     \* commands queued so far

vars == <<pc, mine, lock, list, ring, timer, state, dying, worker, cleanup,
          stop, done, devq, events, dead, issued>>

deviceVars == <<devq, events, dead>>

Idle == [pc |-> "idle", cmd |-> 0]

(* The first command of a list, or 0.                                        *)
First(s) == IF s = <<>> THEN 0 ELSE s[1]

(* The watchdog waits for a stop endpoint command that was not queued.       *)
Unqueued == MaxCmds + 1

Init ==
  /\ pc = [c \in Clients |-> "idle"] /\ mine = [c \in Clients |-> 0]
  /\ lock = None
  /\ list = <<>> /\ ring = <<>> /\ timer = 0
  /\ state = "running" /\ dying = "no"
  /\ worker = Idle /\ cleanup = "no" /\ stop = 0
  /\ done = [n \in 1..MaxCmds |-> 0]
  /\ devq = <<>> /\ events = <<>> /\ dead = "no"
  /\ issued = 0

-----------------------------------------------------------------------------
(* queue_command, under the lock: the command is added to the list.          *)
(* ehub_xhci_urb_dequeue queues a stop endpoint command unless there is one. *)
AddCommand(c, k) ==
  /\ pc[c] = "idle" /\ lock = None /\ issued < MaxCmds
  /\ k = "stop" => stop = 0
  /\ dying = "no"
  /\ lock' = c
  /\ issued' = issued + 1
  /\ mine' = [mine EXCEPT ![c] = issued + 1]
  /\ list' = Append(list, issued + 1)
  /\ pc' = [pc EXCEPT ![c] = "queued"]
  /\ stop' = IF k = "stop" THEN issued + 1 ELSE stop
  /\ UNCHANGED <<ring, timer, state, dying, worker, cleanup, done, deviceVars>>

(* Faulty: it is not checked whether the ring has room.                      *)
FaultyQueueCommand(c, k) == AddCommand(c, k)

QueueCommand(c, k) == Len(ring) < Room /\ AddCommand(c, k)

(* There is no room on the ring.  ehub_xhci_urb_dequeue has started the      *)
(* watchdog by then, and ignores the error.                                  *)
StopRefused(c) ==
  /\ pc[c] = "idle" /\ lock = None /\ "stop" \in Kinds
  /\ stop = 0 /\ dying = "no" /\ Len(ring) >= Room
  /\ stop' = Unqueued
  /\ UNCHANGED <<pc, mine, lock, list, ring, timer, state, dying, worker,
                 cleanup, done, deviceVars, issued>>

(* "if there are no other commands queued we start the timeout timer"        *)
StartTimer(c) ==
  /\ pc[c] = "queued"
  /\ timer' = IF Head(list) = mine[c] /\ timer = 0 THEN mine[c] ELSE timer
  /\ pc' = [pc EXCEPT ![c] = "timed"]
  /\ UNCHANGED <<mine, lock, list, ring, state, dying, worker, cleanup, stop,
                 done, deviceVars, issued>>

(* queue_trb, ehub_xhci_ring_cmd_db, and the lock is released.  Only a stop  *)
(* endpoint command is not waited for.                                       *)
RingDoorbell(c) ==
  /\ pc[c] = "timed"
  /\ ring' = Append(ring, mine[c])
  /\ devq' = IF state = "running" THEN Append(devq, mine[c]) ELSE devq
  /\ lock' = None
  /\ pc' = [pc EXCEPT ![c] = IF stop = mine[c] THEN "idle" ELSE "wait"]
  /\ UNCHANGED <<mine, list, timer, state, dying, worker, cleanup, stop, done,
                 events, dead, issued>>

(* wait_for_completion returns.                                              *)
Return(c) ==
  /\ pc[c] = "wait" /\ done[mine[c]] > 0
  /\ pc' = [pc EXCEPT ![c] = "idle"]
  /\ UNCHANGED <<mine, lock, list, ring, timer, state, dying, worker, cleanup,
                 stop, done, deviceVars, issued>>

-----------------------------------------------------------------------------
(* The device executes a command, or stops answering.                        *)
Execute ==
  /\ devq # <<>> /\ dead = "no"
  /\ devq' = Tail(devq) /\ events' = Append(events, Head(devq))
  /\ UNCHANGED <<pc, mine, lock, list, ring, timer, state, dying, worker,
                 cleanup, stop, done, dead, issued>>

Dies ==
  /\ dead = "no"
  /\ dead' = "yes"
  /\ UNCHANGED <<pc, mine, lock, list, ring, timer, state, dying, worker,
                 cleanup, stop, done, devq, events, issued>>

-----------------------------------------------------------------------------
(* handle_cmd_completion: the event must match the dequeue pointer and the   *)
(* first command of the list.  Events are dropped once the host is dying.    *)
Completion ==
  /\ worker = Idle /\ events # <<>>
  /\ events' = Tail(events)
  /\ worker' = IF /\ dying = "no"
                  /\ ring # <<>> /\ Head(ring) = Head(events)
                  /\ list # <<>> /\ Head(list) = Head(events)
               THEN [pc |-> "matched", cmd |-> Head(events)] ELSE Idle
  /\ UNCHANGED <<pc, mine, lock, list, ring, timer, state, dying, cleanup,
                 stop, done, devq, dead, issued>>

DeleteTimer ==
  /\ worker.pc = "matched"
  /\ timer' = 0
  /\ worker' = [worker EXCEPT !.pc = "deleted"]
  /\ UNCHANGED <<pc, mine, lock, list, ring, state, dying, cleanup, stop,
                 done, deviceVars, issued>>

(* queue_command and the doorbell in the worker, without the lock.           *)
WorkerQueues ==
  /\ issued < MaxCmds /\ dying = "no" /\ Len(ring) < Room
  /\ issued' = issued + 1
  /\ list' = Append(list, issued + 1)
  /\ timer' = IF list = <<>> /\ timer = 0 THEN issued + 1 ELSE timer
  /\ ring' = Append(ring, issued + 1)
  /\ devq' = IF state = "running" THEN Append(devq, issued + 1) ELSE devq

(* The command is handled.  xhci_handle_cmd_stop_ep ends the watchdog, and   *)
(* queues a set dequeue pointer command if the endpoint stopped on a         *)
(* cancelled TD.                                                             *)
HandleCommand ==
  /\ worker.pc = "deleted"
  /\ IF stop = worker.cmd
     THEN stop' = 0 /\ (WorkerQueues \/ UNCHANGED <<issued, list, timer, ring, devq>>)
     ELSE UNCHANGED <<stop, issued, list, timer, ring, devq>>
  /\ worker' = [worker EXCEPT !.pc = "handled"]
  /\ UNCHANGED <<pc, mine, lock, state, dying, cleanup, done, events, dead>>

(* xhci_cleanup_halted_endpoint, for a transfer event on a stalled endpoint. *)
HaltedEndpoint ==
  /\ worker = Idle /\ "reset" \in Kinds /\ dead = "no"
  /\ WorkerQueues
  /\ UNCHANGED <<pc, mine, lock, state, dying, worker, cleanup, stop, done,
                 events, dead>>

(* Faulty: the timer is not restarted for the next command.                  *)
FaultyRestartTimer ==
  /\ worker.pc = "handled"
  /\ worker' = [worker EXCEPT !.pc = "checked"]
  /\ UNCHANGED <<pc, mine, lock, list, ring, timer, state, dying, cleanup,
                 stop, done, deviceVars, issued>>

(* "restart timer if this wasn't the last command"                           *)
RestartTimer ==
  /\ worker.pc = "handled"
  /\ timer' = IF Len(list) > 1 THEN list[2] ELSE timer
  /\ worker' = [worker EXCEPT !.pc = "checked"]
  /\ UNCHANGED <<pc, mine, lock, list, ring, state, dying, cleanup, stop, done,
                 deviceVars, issued>>

(* xhci_complete_del_and_free_cmd: it does not see whether the command is    *)
(* still in the list ...                                                     *)
CompleteCommand ==
  /\ worker.pc = "checked"
  /\ list' = IF First(list) = worker.cmd THEN Tail(list) ELSE list
  /\ done' = [done EXCEPT ![worker.cmd] = @ + 1]
  /\ worker' = [worker EXCEPT !.pc = "completed"]
  /\ UNCHANGED <<pc, mine, lock, ring, timer, state, dying, cleanup, stop,
                 deviceVars, issued>>

(* Faulty: the dequeue pointer of the command ring is not moved.             *)
FaultyIncDeq ==
  /\ worker.pc = "completed"
  /\ worker' = Idle
  /\ UNCHANGED <<pc, mine, lock, list, ring, timer, state, dying, cleanup,
                 stop, done, deviceVars, issued>>

(* ... and inc_deq.                                                          *)
IncDeq ==
  /\ worker.pc = "completed"
  /\ ring' = Tail(ring)
  /\ worker' = Idle
  /\ UNCHANGED <<pc, mine, lock, list, timer, state, dying, cleanup, stop,
                 done, deviceVars, issued>>

-----------------------------------------------------------------------------
(* The time of a timer may be over: the answer may be missing, on its way or *)
(* about to be handled.  The handlers take the lock, which does not keep     *)
(* them away from the worker.                                                *)
TimeOver == lock = None /\ (Smp \/ worker = Idle)

(* ehub_xhci_handle_command_timeout on a running ring: the host is marked as *)
(* dying under the lock; the commands are completed after it is released.    *)
CommandTimeout ==
  /\ timer # 0 /\ TimeOver /\ state = "running"
  /\ timer' = 0 /\ dying' = "timeout" /\ state' = "aborted"
  /\ cleanup' = "yes"
  /\ UNCHANGED <<pc, mine, lock, list, ring, worker, stop, done, deviceVars,
                 issued>>

(* Faulty: only the first command is completed.                              *)
FaultyCleanupCommand ==
  /\ cleanup = "yes"
  /\ IF list = <<>> THEN UNCHANGED <<list, done>>
     ELSE list' = Tail(list) /\ done' = [done EXCEPT ![Head(list)] = @ + 1]
  /\ cleanup' = "no"
  /\ UNCHANGED <<pc, mine, lock, ring, timer, state, dying, worker, stop,
                 deviceVars, issued>>

(* Faulty: the command stays in the list.                                    *)
FaultyCleanupKeeps ==
  /\ cleanup = "yes" /\ list # <<>> /\ done[Head(list)] < 2
  /\ done' = [done EXCEPT ![Head(list)] = @ + 1]
  /\ UNCHANGED <<pc, mine, lock, list, ring, timer, state, dying, worker,
                 cleanup, stop, deviceVars, issued>>

(* ehub_xhci_cleanup_command_queue, one command at a time.                   *)
CleanupCommand ==
  /\ cleanup = "yes"
  /\ IF list = <<>> THEN cleanup' = "no" /\ UNCHANGED <<list, done>>
     ELSE /\ list' = Tail(list) /\ done' = [done EXCEPT ![Head(list)] = @ + 1]
          /\ cleanup' = cleanup
  /\ UNCHANGED <<pc, mine, lock, ring, timer, state, dying, worker, stop,
                 deviceVars, issued>>

(* ehub_xhci_handle_command_timeout on a stopped ring, and                   *)
(* xhci_handle_stopped_cmd_ring: as the host is dying, neither the timer nor *)
(* the ring is started again.                                                *)
TimeoutOnStoppedRing ==
  /\ timer # 0 /\ TimeOver /\ state = "stopped"
  /\ timer' = 0 /\ state' = "running"
  /\ UNCHANGED <<pc, mine, lock, list, ring, dying, worker, cleanup, stop,
                 done, deviceVars, issued>>

(* ehub_xhci_stop_endpoint_command_watchdog: it completes URBs, not commands. *)
Watchdog ==
  /\ stop # 0 /\ TimeOver
  /\ stop' = 0
  /\ IF dying = "no" THEN dying' = "watchdog" /\ state' = "stopped"
                     ELSE UNCHANGED <<dying, state>>
  /\ UNCHANGED <<pc, mine, lock, list, ring, timer, worker, cleanup, done,
                 deviceVars, issued>>

-----------------------------------------------------------------------------
Queueing(c) == StartTimer(c) \/ RingDoorbell(c)

WorkerStep ==
  Completion \/ DeleteTimer \/ HandleCommand \/ RestartTimer \/ CompleteCommand
  \/ IncDeq

TimerStep == CommandTimeout \/ CleanupCommand \/ TimeoutOnStoppedRing \/ Watchdog

(* Without Smp the worker overlaps neither with the threads that queue       *)
(* commands nor with the timers: neither sleeps on its way.                  *)
Next ==
  \/ \E c \in Clients :
       \/ (Smp \/ worker = Idle) /\ \E k \in Kinds \ {"reset"} : QueueCommand(c, k)
       \/ StopRefused(c)
       \/ Queueing(c)
       \/ Return(c)
  \/ Execute
  \/ Dies
  \/ (Smp \/ lock = None) /\ (WorkerStep \/ HaltedEndpoint)
  \/ TimerStep

Spec == Init /\ [][Next]_vars

(* No answer will come any more: everything the device sent was handled, or  *)
(* will be dropped.                                                          *)
Silent == (dead = "yes" \/ dying # "no") /\ events = <<>>

(* What happens for sure: a timer expires when nothing stops it.             *)
DueStep ==
  \/ Silent /\ TimerStep
  \/ stop = Unqueued /\ Watchdog
  \/ CleanupCommand

(* A live device executes commands; threads, worker and timers run.          *)
Fairness ==
  /\ \A c \in Clients : WF_vars(Queueing(c) \/ Return(c))
  /\ WF_vars(Execute)
  /\ WF_vars((Smp \/ lock = None) /\ WorkerStep)
  /\ WF_vars(DueStep)

FairSpec == Spec /\ Fairness

-----------------------------------------------------------------------------
(* Types of the state; the ring is never overrun.                            *)
CommandTypeOK ==
  /\ pc \in [Clients -> {"idle", "queued", "timed", "wait"}]
  /\ mine \in [Clients -> 0..MaxCmds]
  /\ lock \in Clients \cup {None}
  /\ list \in Seq(1..MaxCmds)
  /\ ring \in Seq(1..MaxCmds) /\ Len(ring) <= Room
  /\ timer \in 0..MaxCmds /\ stop \in 0..Unqueued
  /\ state \in {"running", "aborted", "stopped"}
  /\ dying \in {"no", "timeout", "watchdog"}
  /\ worker \in [pc : {"idle", "matched", "deleted", "handled", "checked",
                       "completed"},
                 cmd : 0..MaxCmds]
  /\ cleanup \in {"no", "yes"} /\ dead \in {"no", "yes"}
  /\ done \in [1..MaxCmds -> Nat]
  /\ devq \in Seq(1..MaxCmds) /\ events \in Seq(1..MaxCmds)
  /\ issued \in 0..MaxCmds

(* Nobody is in the middle of queueing or completing a command.              *)
Settled == lock = None /\ worker = Idle /\ cleanup = "no"

(* While commands are queued the timer watches the first one, although it is *)
(* started by the thread that queues a command and deleted and restarted by  *)
(* the worker: the comments at both places promise it.                       *)
TimerCoversHead == Settled /\ dying = "no" /\ list # <<>> => timer = Head(list)

(* The inductive invariant behind TimerCoversHead when threads and worker do *)
(* not overlap: the list holds commands in the order they were issued, ...   *)
ListInv ==
  /\ list \in Seq(Nat) /\ issued \in Nat
  /\ \A i \in 1..Len(list) : list[i] \in 1..issued
  /\ \A i, j \in 1..Len(list) : i < j => list[i] < list[j]

(* ... a thread that queues a command has the lock, the worker is idle then  *)
(* and handles a command that is still in the list, ...                      *)
StepInv ==
  /\ pc \in [Clients -> {"idle", "queued", "timed", "wait"}]
  /\ mine \in [Clients -> Nat]
  /\ \A c \in Clients : pc[c] \in {"queued", "timed"} => lock = c
  /\ worker \in [pc : {"idle", "matched", "deleted", "handled", "checked",
                       "completed"},
                 cmd : Nat]
  /\ lock # None => worker.pc = "idle"
  /\ worker.pc # "idle" => cleanup = "no"
  /\ worker.pc \in {"matched", "deleted", "handled", "checked"} =>
       list # <<>> /\ First(list) = worker.cmd
  /\ dying = "no" => state = "running" /\ cleanup = "no"

(* ... and at each step of either it is known which command the timer is for. *)
TimerInv ==
  dying = "no" =>
    /\ lock = None /\ worker.pc \in {"idle", "matched", "completed"} => timer = First(list)
    /\ worker.pc \in {"deleted", "handled"} => timer = 0
    /\ worker.pc = "checked" => timer = IF Len(list) = 1 THEN 0 ELSE list[2]
    /\ \A c \in Clients : pc[c] = "queued" =>
         /\ list # <<>> /\ list[Len(list)] = mine[c]
         /\ timer = IF Len(list) = 1 THEN 0 ELSE list[1]
    /\ \A c \in Clients : pc[c] = "timed" => timer = First(list)

CommandInv == ListInv /\ StepInv /\ TimerInv

(* No completion event of a live host is ignored: the event, the dequeue     *)
(* pointer and the list agree on the command.                                *)
EventsMatchCommands ==
  Settled /\ dying = "no" =>
    /\ list = ring
    /\ events \o devq = ring

(* A command is completed once; its owner frees it afterwards.               *)
CompletedOnce == \A n \in 1..MaxCmds : done[n] <= 1

(* A thread that waits for its command gets an answer, from the device or    *)
(* from the command timeout, unless the watchdog gave up the host.           *)
CommandsAnswered ==
  \A c \in Clients : pc[c] = "wait" ~> pc[c] # "wait" \/ dying = "watchdog"

(* The comment in xhci_handle_stopped_cmd_ring promises an answer in any     *)
(* case: "caller waiting for completion is called".                          *)
CommandsReturn == \A c \in Clients : pc[c] = "wait" ~> pc[c] # "wait"

(* Together: list, ring and events belong together, command by command.      *)
CommandsMatch == CommandTypeOK /\ EventsMatchCommands /\ CompletedOnce

(* The inductive invariant behind CommandsMatch, under the same condition as *)
(* CommandInv: nobody is in the middle of a step when a timer handler gives  *)
(* up the host, and a thread that queues a command still has room for it;    *)
(* ...                                                                       *)
LiveInv ==
  /\ lock # None \/ worker.pc # "idle" => dying = "no"
  /\ \A c \in Clients : pc[c] \in {"queued", "timed"} =>
       Len(ring) < Room /\ mine[c] \in 1..MaxCmds

(* ... until then the list, the ring and the commands that are with the      *)
(* device or on their way back differ only by the command that is handled,   *)
(* ...                                                                       *)
MatchInv ==
  dying = "no" =>
    /\ worker.pc = "idle" => events \o devq = ring
    /\ worker.pc # "idle" => ring # <<>> /\ events \o devq = Tail(ring)
    /\ lock = None /\ worker.pc # "completed" => list = ring
    /\ worker.pc \in {"matched", "deleted", "handled", "checked"} => Head(ring) = worker.cmd
    /\ worker.pc = "completed" => list = Tail(ring)
    /\ \A c \in Clients : pc[c] \in {"queued", "timed"} => list = Append(ring, mine[c])

(* ... and no command of the list, or yet to be issued, was completed.       *)
DoneInv ==
  /\ \A n \in 1..MaxCmds : done[n] <= 1
  /\ \A i \in 1..Len(list) : done[list[i]] = 0
  /\ \A n \in 1..MaxCmds : n > issued => done[n] = 0

CommandsInv == CommandInv /\ CommandTypeOK /\ LiveInv /\ MatchInv /\ DoneInv
=============================================================================
