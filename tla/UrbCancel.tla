----------------------------- MODULE UrbCancel -----------------------------
(***************************************************************************)
(* Cancelling URBs and recovering a halted endpoint.                       *)
(*                                                                         *)
(* A thread cancels an URB: its transfer descriptors (TDs) are put on the  *)
(* cancelled list and a stop endpoint command is queued, watched by a      *)
(* timer.  The worker handles the completion: it takes the cancelled TDs   *)
(* off the ring, moves the dequeue pointer of the endpoint past the TD the *)
(* device stopped on with a set dequeue pointer command, and gives the     *)
(* URBs back.  A TD that halts the endpoint is recovered by a reset        *)
(* endpoint and a set dequeue pointer command.  If the stop is not         *)
(* answered, the watchdog gives up the host.                               *)
(*                                                                         *)
(* One endpoint.  Every URB has TdsPerUrb TDs of one TRB each, and the     *)
(* position of a TRB on the ring is the number of its TD: RingWalk has the *)
(* arithmetic of segments, link TRBs and cycle bits.  The device executes  *)
(* the copy of the ring in its embedded cache, the first "cached" TDs.     *)
(***************************************************************************)
EXTENDS Naturals, Sequences, FiniteSets, SequencesExt

CONSTANTS
  MaxUrbs,    \* bound: URBs submitted in all
  TdsPerUrb,  \* TDs of each URB: more than one for isochronous URBs
  MaxStalls,  \* bound: TDs that halt the endpoint
  MaxMissed,  \* bound: isochronous TDs the device misses
  EventsOverlap         \* whether threads and the worker overlap

ASSUME CancelAssumption ==
  /\ MaxUrbs \in Nat /\ TdsPerUrb \in Nat \ {0} /\ MaxStalls \in Nat
  /\ MaxMissed \in Nat /\ (MaxMissed = 0 \/ MaxStalls = 0)
  /\ EventsOverlap \in BOOLEAN

VARIABLES
  enq,        \* TDs queued: enqueue
  cached,     \* TDs the device has in its cache
  deq,        \* where the driver's dequeue pointer is
  tds,        \* td_list
  cancelled,  \* cancelled_td_list
  noop,       \* TDs that td_to_noop rewrote, in host memory
  flags,      \* ep_state
  stopped,    \* stopped_td, or 0
  skip,       \* skip: TDs were missed by the device
  queued,     \* queued_deq_ptr, or 0
  pending,    \* stop_cmds_pending
  stopTimer,      \* stop_cmd_timer: the stop it was started for, 0 if inactive
  fired,      \* the stop for which the timer ran out and the watchdog has
              \* yet to take the lock, or 0
  stops,      \* stop endpoint commands queued so far
  hostDying,      \* XHCI_STATE_DYING, set with XHCI_STATE_HALTED by the watchdog
  attached,   \* the USB device is not in USB_STATE_NOTATTACHED
  eventWorker,     \* the stop completion handler: next step, last_unlinked_td and
              \* the dequeue pointer to set
  tdcnt,      \* td_cnt of each URB
  returned,   \* how often each URB was given back
  unlinked,   \* URBs that were cancelled
  promised,   \* those for which ehub_xhci_urb_dequeue returned 0
  success,    \* TDs the driver completed without an error
  dev,        \* the endpoint in the device: state, doorbell, dequeue pointer
  cmds,       \* endpoint commands on the command ring
  transferEvents,     \* transfer and command completion events
  ran,        \* TDs the device executed to their end
  stalls,     \* TDs that halted the endpoint
  missed      \* TDs the device had to leave out

hostVars == <<enq, tds, cancelled, noop, flags, stopped, skip, queued, pending,
              stopTimer, fired, stops, hostDying, attached, eventWorker, tdcnt, returned,
              unlinked, promised, success, deq>>
controllerVars == <<cached, dev, cmds, transferEvents, ran, stalls, missed>>
cancelVars == <<hostVars, controllerVars>>

Urbs == 1..MaxUrbs
Tds == 1..(MaxUrbs * TdsPerUrb)
UrbOf(t) == (t - 1) \div TdsPerUrb + 1
TdsOf(u) == {t \in Tds : UrbOf(t) = u}

CancelIdle == [pc |-> "idle", last |-> 0, deq |-> 0]

(* Threads and timers run between the steps of a handler only if they        *)
(* overlap with the worker, which does not hold xhci->lock.                  *)
Quiet == EventsOverlap \/ eventWorker = CancelIdle

CancelInit ==
  /\ enq = 0 /\ cached = 0 /\ deq = 1
  /\ tds = <<>> /\ cancelled = <<>> /\ noop = {}
  /\ flags = {} /\ stopped = 0 /\ skip = FALSE /\ queued = 0
  /\ pending = 0 /\ stopTimer = 0 /\ fired = 0 /\ stops = 0
  /\ hostDying = FALSE /\ attached = TRUE /\ eventWorker = CancelIdle
  /\ tdcnt = [u \in Urbs |-> 0] /\ returned = [u \in Urbs |-> 0]
  /\ unlinked = {} /\ promised = {} /\ success = {}
  /\ dev = [state |-> "running", bell |-> FALSE, hw |-> 1]
  /\ cmds = <<>> /\ transferEvents = <<>> /\ ran = {} /\ stalls = {} /\ missed = {}

-----------------------------------------------------------------------------
(* ring_ep_doorbell does nothing while the endpoint is being stopped, moved  *)
(* or recovered.  The device ignores the doorbell of a halted endpoint.      *)
FaultyDoorbell(f, d) ==
  IF f \cap {"HALT_PENDING", "HALTED"} = {} /\ d.state # "halted"
  THEN [d EXCEPT !.state = "running", !.bell = TRUE]
  ELSE d

Doorbell(f, d) ==
  IF f \cap {"HALT_PENDING", "SET_DEQ_PENDING", "HALTED"} = {}
       /\ d.state # "halted"
  THEN [d EXCEPT !.state = "running", !.bell = TRUE]
  ELSE d

(* ring_doorbell_for_active_rings: only if there are TDs.                    *)
DoorbellIfActive(f, list, d) == IF list = <<>> THEN d ELSE Doorbell(f, d)

Without(list, T) == SelectSeq(list, LAMBDA t : t \notin T)

(* TDs of URBs are finished: the URB is given back with its last TD.         *)
Counted(T) == [u \in Urbs |-> tdcnt[u] + Cardinality(T \cap TdsOf(u))]
GivenBack(T) ==
  [u \in Urbs |-> IF T \cap TdsOf(u) # {} /\ Counted(T)[u] = TdsPerUrb
                  THEN returned[u] + 1 ELSE returned[u]]

-----------------------------------------------------------------------------
(* ehub_xhci_urb_enqueue: refused once the host is dying.                    *)
Enqueue ==
  /\ Quiet /\ ~hostDying /\ attached
  /\ enq < MaxUrbs * TdsPerUrb
  /\ enq' = enq + TdsPerUrb
  /\ tds' = tds \o [i \in 1..TdsPerUrb |-> enq + i]
  /\ UNCHANGED <<deq, cancelled, noop, flags, stopped, skip, queued, pending, stopTimer,
                 fired, stops, hostDying, attached, eventWorker, tdcnt, returned,
                 unlinked, promised, success, controllerVars>>

(* The write of the TDs of an URB to the device's cache completes, and the   *)
(* doorbell is rung.                                                         *)
CacheWritten ==
  /\ Quiet /\ ~hostDying /\ cached < enq
  /\ cached' = cached + TdsPerUrb
  /\ dev' = Doorbell(flags, dev)
  /\ UNCHANGED <<hostVars, cmds, transferEvents, ran, stalls, missed>>

-----------------------------------------------------------------------------
(* ehub_xhci_urb_dequeue for an URB that is neither finished nor cancelled.  *)
Cancellable(u) ==
  /\ Quiet /\ u \notin unlinked
  /\ TdsOf(u) \subseteq 1..enq /\ returned[u] = 0

(* The TDs of the URB from td_cnt on.                                        *)
Unfinished(u) ==
  [i \in 1..(TdsPerUrb - tdcnt[u]) |-> (u - 1) * TdsPerUrb + tdcnt[u] + i]

(* "HW died, freeing TD.": the device is gone or the host has halted.        *)
DequeueGone(u) ==
  /\ Cancellable(u) /\ (~attached \/ hostDying)
  /\ unlinked' = unlinked \cup {u}
  /\ tds' = Without(tds, Range(Unfinished(u)))
  /\ cancelled' = Without(cancelled, Range(Unfinished(u)))
  /\ returned' = [returned EXCEPT ![u] = @ + 1]
  /\ UNCHANGED <<enq, deq, noop, flags, stopped, skip, queued, pending, stopTimer, fired,
                 stops, hostDying, attached, eventWorker, tdcnt, promised, success,
                 controllerVars>>

(* "Queue a stop endpoint command, but only if this is the first             *)
(* cancellation to be handled."                                              *)
FaultyFirstCancellation == cancelled = <<>>

FirstCancellation == "HALT_PENDING" \notin flags

(* Memory for the command is exhausted: the TDs stay on the cancelled list   *)
(* and the caller is told that the URB was not cancelled.                    *)
DequeueNoMemory(u) ==
  /\ Cancellable(u) /\ attached /\ ~hostDying
  /\ FirstCancellation
  /\ unlinked' = unlinked \cup {u}
  /\ cancelled' = cancelled \o Unfinished(u)
  /\ UNCHANGED <<enq, deq, tds, noop, flags, stopped, skip, queued, pending, stopTimer,
                 fired, stops, hostDying, attached, eventWorker, tdcnt, returned,
                 promised, success, controllerVars>>

(* The TDs are put on the cancelled list; the first cancellation queues a    *)
(* stop endpoint command and starts the watchdog's timer.                    *)
Dequeue(u) ==
  /\ Cancellable(u) /\ attached /\ ~hostDying
  /\ unlinked' = unlinked \cup {u} /\ promised' = promised \cup {u}
  /\ cancelled' = cancelled \o Unfinished(u)
  /\ IF FirstCancellation
     THEN /\ flags' = flags \cup {"HALT_PENDING"}
          /\ pending' = pending + 1
          /\ stops' = stops + 1 /\ stopTimer' = stops + 1
          /\ cmds' = Append(cmds, [type |-> "stop", pos |-> 0])
     ELSE UNCHANGED <<flags, stopTimer, pending, stops, cmds>>
  /\ UNCHANGED <<enq, deq, tds, noop, stopped, skip, queued, fired, hostDying, attached,
                 eventWorker, tdcnt, returned, success, cached, dev, transferEvents, ran,
                 stalls, missed>>

(* The USB core marks the device as gone.                                    *)
Detach ==
  /\ attached /\ attached' = FALSE
  /\ UNCHANGED <<enq, deq, tds, cancelled, noop, flags, stopped, skip, queued,
                 pending, stopTimer, fired, stops, hostDying, eventWorker, tdcnt, returned,
                 unlinked, promised, success, controllerVars>>

-----------------------------------------------------------------------------
(* The endpoint in the device: it executes a TD, halts on it, or finds       *)
(* nothing to do.                                                            *)
Ready == dev.state = "running" /\ dev.bell /\ dev.hw <= cached

Event(code, pos) == [code |-> code, pos |-> pos]

ExecuteTd ==
  /\ Ready /\ attached
  /\ ran' = ran \cup {dev.hw}
  /\ dev' = [dev EXCEPT !.hw = @ + 1]
  /\ transferEvents' = Append(transferEvents, Event("success", dev.hw))
  /\ UNCHANGED <<hostVars, cached, cmds, stalls, missed>>

Stall ==
  /\ Ready /\ Cardinality(stalls) < MaxStalls
  /\ stalls' = stalls \cup {dev.hw}
  /\ dev' = [dev EXCEPT !.state = "halted", !.bell = FALSE]
  /\ transferEvents' = Append(transferEvents, Event("stall", dev.hw))
  /\ UNCHANGED <<hostVars, cached, cmds, ran, missed>>

Starve ==
  /\ dev.state = "running" /\ dev.bell /\ dev.hw > cached
  /\ dev' = [dev EXCEPT !.bell = FALSE]
  /\ UNCHANGED <<hostVars, cached, cmds, transferEvents, ran, stalls, missed>>

(* A service interval of an isochronous endpoint is missed.                  *)
Miss ==
  /\ Ready /\ Cardinality(missed) < MaxMissed
  /\ missed' = missed \cup {dev.hw}
  /\ dev' = [dev EXCEPT !.hw = @ + 1]
  /\ transferEvents' = Append(transferEvents, Event("missed", 0))
  /\ UNCHANGED <<hostVars, cached, cmds, ran, stalls>>

(* The events of a running endpoint that is stopped: none, one for the TD    *)
(* that is being executed, or a forced one for the TD before.                *)
StopEvents ==
  {<<>>} \cup (IF Ready THEN {<<Event("stopped", dev.hw)>>} ELSE {})
         \cup (IF dev.hw > 1 THEN {<<Event("stopped", dev.hw - 1)>>} ELSE {})

(* The device executes an endpoint command.                                  *)
DeviceCommand ==
  /\ cmds # <<>> /\ cmds' = Tail(cmds)
  /\ LET c == Head(cmds) IN
     \/ /\ c.type = "stop" /\ dev.state = "running"
        /\ \E s \in StopEvents :
             transferEvents' = transferEvents \o s \o <<Event("stop done", 0)>>
        /\ dev' = [dev EXCEPT !.state = "stopped", !.bell = FALSE]
     \/ /\ c.type = "stop" /\ dev.state # "running"
        /\ transferEvents' = Append(transferEvents, Event("stop done", 0))
        /\ UNCHANGED dev
     \/ /\ c.type = "reset"
        /\ transferEvents' = Append(transferEvents, Event("reset done", 0))
        /\ dev' = IF dev.state = "halted" THEN [dev EXCEPT !.state = "stopped"]
                                          ELSE dev
     \/ /\ c.type = "setdeq"
        /\ IF dev.state = "stopped"
           THEN /\ transferEvents' = Append(transferEvents, Event("setdeq done", c.pos))
                /\ dev' = [dev EXCEPT !.hw = c.pos]
           ELSE /\ transferEvents' = Append(transferEvents, Event("setdeq failed", c.pos))
                /\ UNCHANGED dev
  /\ UNCHANGED <<hostVars, cached, ran, stalls, missed>>

-----------------------------------------------------------------------------
(* The worker takes the next event.  Events are dropped once the host is     *)
(* dying.                                                                    *)
TakeEvent(codes) ==
  /\ eventWorker = CancelIdle /\ transferEvents # <<>> /\ Head(transferEvents).code \in codes
  /\ transferEvents' = Tail(transferEvents)

DropEvent ==
  /\ hostDying /\ eventWorker = CancelIdle /\ transferEvents # <<>> /\ transferEvents' = Tail(transferEvents)
  /\ UNCHANGED <<hostVars, cached, dev, cmds, ran, stalls, missed>>

(* ehub_trb_in_td: the TRB lies between the dequeue pointer and the end of   *)
(* the first TD.                                                             *)
InTd(pos, list) == list # <<>> /\ deq <= pos /\ pos <= Head(list)

(* "If event_trb is a no-op TRB, it means the corresponding TD has been      *)
(* cancelled."                                                               *)
FaultyIsNoop(pos) == FALSE

IsNoop(pos) == pos \in noop

(* "Was this TD slated to be cancelled but completed anyway?"                *)
FaultyUncancel(t) == cancelled

Uncancel(t) == Without(cancelled, {t})

(* An event no TD is found for, or for a TD that was cancelled.  A stall has *)
(* been noted in ep_state by then.                                           *)
IgnoreEvent ==
  LET e == Head(transferEvents) IN
  /\ TakeEvent({"success", "stall", "stopped"}) /\ ~hostDying /\ ~skip
  /\ ~InTd(e.pos, tds) \/ IsNoop(e.pos)
  /\ flags' = IF e.code = "stall" THEN flags \cup {"HALTED"} ELSE flags
  /\ UNCHANGED <<enq, deq, tds, cancelled, noop, stopped, skip, queued, pending,
                 stopTimer, fired, stops, hostDying, attached, eventWorker, tdcnt, returned,
                 unlinked, promised, success, cached, dev, cmds, ran, stalls,
                 missed>>

(* finish_td for a TD the endpoint was stopped on: it may be restarted.      *)
StoppedEvent ==
  LET e == Head(transferEvents) IN
  /\ TakeEvent({"stopped"}) /\ ~hostDying /\ ~skip
  /\ InTd(e.pos, tds) /\ ~IsNoop(e.pos)
  /\ stopped' = Head(tds)
  /\ UNCHANGED <<enq, deq, tds, cancelled, noop, flags, skip, queued, pending,
                 stopTimer, fired, stops, hostDying, attached, eventWorker, tdcnt, returned,
                 unlinked, promised, success, cached, dev, cmds, ran, stalls,
                 missed>>

(* finish_td for a TD that is done: the dequeue pointer moves behind it.     *)
SuccessEvent ==
  LET e == Head(transferEvents) t == Head(tds) IN
  /\ TakeEvent({"success"}) /\ ~hostDying /\ ~skip
  /\ InTd(e.pos, tds) /\ ~IsNoop(e.pos)
  /\ deq' = t + 1
  /\ tds' = Tail(tds) /\ cancelled' = Uncancel(t)
  /\ tdcnt' = Counted({t}) /\ returned' = GivenBack({t})
  /\ success' = success \cup {t}
  /\ UNCHANGED <<enq, noop, flags, stopped, skip, queued, pending, stopTimer, fired,
                 stops, hostDying, attached, eventWorker, unlinked, promised, cached,
                 dev, cmds, ran, stalls, missed>>

(* ehub_xhci_find_new_dequeue_state: behind the TD, or where the device is   *)
(* if that is further; 0 if the walk from the dequeue pointer fails.         *)
FaultyNewDequeue(t) == IF dev.hw > t THEN dev.hw ELSE t

NewDequeue(t) ==
  IF dev.hw < deq \/ t < deq THEN 0
  ELSE IF dev.hw > t THEN dev.hw ELSE t + 1

(* ehub_xhci_queue_new_dequeue_state                                         *)
QueueSetDeq(pos, cs, f) ==
  IF pos = 0 \/ "SET_DEQ_PENDING" \in f
  THEN cmds' = cs /\ flags' = f /\ UNCHANGED queued
  ELSE /\ cmds' = Append(cs, [type |-> "setdeq", pos |-> pos])
       /\ flags' = f \cup {"SET_DEQ_PENDING"}
       /\ queued' = pos

(* finish_td for a TD that halted the endpoint: reset endpoint, then set     *)
(* dequeue pointer; the TD is finished at once.                              *)
StallEvent ==
  LET e == Head(transferEvents) t == Head(tds) IN
  /\ TakeEvent({"stall"}) /\ ~hostDying /\ ~skip
  /\ InTd(e.pos, tds) /\ ~IsNoop(e.pos)
  /\ QueueSetDeq(NewDequeue(t), Append(cmds, [type |-> "reset", pos |-> 0]),
                 flags \cup {"HALTED"})
  /\ tds' = Tail(tds) /\ cancelled' = Uncancel(t)
  /\ tdcnt' = Counted({t}) /\ returned' = GivenBack({t})
  /\ UNCHANGED <<enq, deq, noop, stopped, skip, pending, stopTimer, fired, stops,
                 hostDying, attached, eventWorker, unlinked, promised, success, cached,
                 dev, ran, stalls, missed>>

(* xhci_handle_cmd_reset_ep                                                  *)
ResetDone ==
  /\ TakeEvent({"reset done"}) /\ ~hostDying
  /\ flags' = flags \ {"HALTED"}
  /\ UNCHANGED <<enq, deq, tds, cancelled, noop, stopped, skip, queued, pending,
                 stopTimer, fired, stops, hostDying, attached, eventWorker, tdcnt, returned,
                 unlinked, promised, success, cached, dev, cmds, ran, stalls,
                 missed>>

(* update_ring_for_set_deq_completion, if the command took effect.           *)
FaultyUpdateRing == IF queued = dev.hw THEN queued + 1 ELSE deq

UpdateRing == IF queued = dev.hw THEN queued ELSE deq

(* xhci_handle_cmd_set_deq: the driver's dequeue pointer follows.            *)
SetDeqDone ==
  /\ TakeEvent({"setdeq done", "setdeq failed"}) /\ ~hostDying
  /\ deq' = IF Head(transferEvents).code = "setdeq done" THEN UpdateRing ELSE deq
  /\ flags' = flags \ {"SET_DEQ_PENDING"} /\ queued' = 0
  /\ dev' = DoorbellIfActive(flags', tds, dev)
  /\ UNCHANGED <<enq, tds, cancelled, noop, stopped, skip, pending, stopTimer, fired,
                 stops, hostDying, attached, eventWorker, tdcnt, returned, unlinked,
                 promised, success, cached, cmds, ran, stalls, missed>>

-----------------------------------------------------------------------------
(* xhci_handle_cmd_stop_ep, first part: the cancelled TDs leave the ring.    *)
(* The TD the device stopped on is passed over with a new dequeue pointer,   *)
(* the others become no-ops in host memory.                                  *)
StopDone ==
  LET C == Range(cancelled) IN
  /\ TakeEvent({"stop done"}) /\ ~hostDying
  /\ noop' = noop \cup (C \ {stopped})
  /\ tds' = Without(tds, C)
  /\ eventWorker' = [pc |-> "unlinked",
                last |-> IF cancelled = <<>> THEN 0 ELSE Last(cancelled),
                deq |-> IF stopped \in C THEN NewDequeue(stopped) ELSE 0]
  /\ UNCHANGED <<enq, deq, cancelled, flags, stopped, skip, queued, pending,
                 stopTimer, fired, stops, hostDying, attached, tdcnt, returned,
                 unlinked, promised, success, cached, dev, cmds, ran, stalls,
                 missed>>

(* xhci_stop_watchdog_timer_in_irq: the watchdog counts down for itself if   *)
(* it is too late to delete the timer.                                       *)
FaultyPendingAfterStop == pending - 1

PendingAfterStop == IF stopTimer = 0 THEN pending ELSE pending - 1

(* The watchdog is stopped, and the endpoint restarted with a set dequeue    *)
(* pointer command or the doorbell.                                          *)
RestartEndpoint ==
  LET f == flags \ {"HALT_PENDING"} IN
  /\ eventWorker.pc = "unlinked"
  /\ stopTimer' = 0 /\ pending' = PendingAfterStop
  /\ QueueSetDeq(eventWorker.deq, cmds, f)
  /\ dev' = IF eventWorker.deq = 0 THEN DoorbellIfActive(f, tds, dev) ELSE dev
  /\ stopped' = 0
  /\ eventWorker' = IF eventWorker.last = 0 THEN CancelIdle
               ELSE [eventWorker EXCEPT !.pc = "giveback"]
  /\ UNCHANGED <<enq, deq, tds, cancelled, noop, skip, fired, stops, hostDying,
                 attached, tdcnt, returned, unlinked, promised, success, cached,
                 transferEvents, ran, stalls, missed>>

(* The URBs of the cancelled TDs are given back, up to the last TD that left *)
(* the ring, or until the host is dying.                                     *)
GiveBackCancelled ==
  LET t == Head(cancelled) IN
  /\ eventWorker.pc = "giveback" /\ cancelled # <<>>
  /\ cancelled' = Tail(cancelled)
  /\ tdcnt' = Counted({t}) /\ returned' = GivenBack({t})
  /\ eventWorker' = IF t = eventWorker.last \/ hostDying THEN CancelIdle ELSE eventWorker
  /\ UNCHANGED <<enq, deq, tds, noop, flags, stopped, skip, queued, pending,
                 stopTimer, fired, stops, hostDying, attached, unlinked, promised,
                 success, cached, dev, cmds, transferEvents, ran, stalls, missed>>

-----------------------------------------------------------------------------
(* The stop endpoint command was not answered for XHCI_STOP_EP_CMD_TIMEOUT.  *)
TimerFires ==
  /\ stopTimer # 0 /\ fired = 0
  /\ fired' = stopTimer /\ stopTimer' = 0
  /\ UNCHANGED <<enq, deq, tds, cancelled, noop, flags, stopped, skip, queued,
                 pending, stops, hostDying, attached, eventWorker, tdcnt, returned,
                 unlinked, promised, success, controllerVars>>

(* ehub_xhci_stop_endpoint_command_watchdog: the command was answered in the *)
(* meantime, or the watchdog has run before.                                 *)
WatchdogLate ==
  /\ Quiet /\ fired # 0
  /\ fired' = 0 /\ pending' = pending - 1
  /\ hostDying \/ pending' # 0 \/ "HALT_PENDING" \notin flags
  /\ UNCHANGED <<enq, deq, tds, cancelled, noop, flags, stopped, skip, queued,
                 stopTimer, stops, hostDying, attached, eventWorker, tdcnt, returned,
                 unlinked, promised, success, controllerVars>>

(* Otherwise the host is dying and all URBs are given back.                  *)
StopWatchdog ==
  LET T == Range(tds) \cup Range(cancelled) IN
  /\ Quiet /\ fired # 0
  /\ fired' = 0 /\ pending' = pending - 1
  /\ ~hostDying /\ pending' = 0 /\ "HALT_PENDING" \in flags
  /\ hostDying' = TRUE
  /\ tds' = <<>> /\ cancelled' = <<>>
  /\ tdcnt' = Counted(T) /\ returned' = GivenBack(T)
  /\ UNCHANGED <<enq, deq, noop, flags, stopped, skip, queued, stopTimer, stops,
                 attached, eventWorker, unlinked, promised, success, controllerVars>>

-----------------------------------------------------------------------------
(* Missed service intervals, on isochronous endpoints.  The event sets skip; *)
(* the next one completes the TDs before its own as missed.                  *)
MissedEvent ==
  /\ TakeEvent({"missed"}) /\ ~hostDying
  /\ skip' = TRUE
  /\ UNCHANGED <<enq, deq, tds, cancelled, noop, flags, stopped, queued,
                 pending, stopTimer, fired, stops, hostDying, attached, eventWorker, tdcnt,
                 returned, unlinked, promised, success, cached, dev, cmds, ran,
                 stalls, missed>>

(* A stop that is not for the first TD uses up td_num without skipping.      *)
SkipAtStop ==
  LET e == Head(transferEvents) IN
  /\ TakeEvent({"stopped"}) /\ ~hostDying /\ skip
  /\ skip' = FALSE
  /\ stopped' = IF InTd(e.pos, tds) /\ ~IsNoop(e.pos) THEN Head(tds)
                                                         ELSE stopped
  /\ UNCHANGED <<enq, deq, tds, cancelled, noop, flags, queued, pending,
                 stopTimer, fired, stops, hostDying, attached, eventWorker, tdcnt, returned,
                 unlinked, promised, success, cached, dev, cmds, ran, stalls,
                 missed>>

(* skip_isoc_td for the TDs before the event's TRB, then the TD the TRB is   *)
(* in, if there is one.  If the TRB is a no-op the loop leaves with the      *)
(* result "ret" of the TD it skipped last, and gives back the URB of the     *)
(* current one.                                                              *)
SkipTds ==
  LET e == Head(transferEvents)
      S == {t \in Range(tds) : e.pos < deq \/ t < e.pos}
      left == Without(tds, S)
      ret == S # {} /\ Counted(S)[UrbOf(Max(S))] = TdsPerUrb
  IN
  /\ TakeEvent({"success"}) /\ ~hostDying /\ skip
  /\ skip' = FALSE
  /\ IF left = <<>> \/ IsNoop(e.pos)
     THEN /\ tds' = left /\ cancelled' = Without(cancelled, S)
          /\ deq' = IF S = {} THEN deq ELSE Max(S) + 1
          /\ tdcnt' = Counted(S)
          /\ returned' = IF left # <<>> /\ ret
                         THEN [GivenBack(S) EXCEPT ![UrbOf(Head(left))] = @ + 1]
                         ELSE GivenBack(S)
          /\ UNCHANGED success
     ELSE LET t == Head(left) IN
          /\ tds' = Tail(left) /\ cancelled' = Without(cancelled, S \cup {t})
          /\ deq' = t + 1
          /\ tdcnt' = Counted(S \cup {t}) /\ returned' = GivenBack(S \cup {t})
          /\ success' = success \cup {t}
  /\ UNCHANGED <<enq, noop, flags, stopped, queued, pending, stopTimer, fired,
                 stops, hostDying, attached, eventWorker, unlinked, promised, cached,
                 dev, cmds, ran, stalls, missed>>

-----------------------------------------------------------------------------
Device == ExecuteTd \/ Stall \/ Starve \/ DeviceCommand

Worker ==
  \/ DropEvent \/ IgnoreEvent \/ StoppedEvent \/ SuccessEvent \/ StallEvent
  \/ ResetDone \/ SetDeqDone \/ StopDone \/ RestartEndpoint
  \/ GiveBackCancelled

CancelNext ==
  \/ Enqueue \/ CacheWritten \/ Detach
  \/ \E u \in Urbs : Dequeue(u) \/ DequeueGone(u) \/ DequeueNoMemory(u)
  \/ Device \/ Worker
  \/ TimerFires \/ WatchdogLate \/ StopWatchdog

(* With missed service intervals.                                            *)
MissedNext == CancelNext \/ Miss \/ MissedEvent \/ SkipAtStop \/ SkipTds

CancelSpec == CancelInit /\ [][CancelNext]_cancelVars

MissedSpec == CancelInit /\ [][MissedNext]_cancelVars

(* The worker is scheduled, and timers that are not deleted run out.         *)
(* Nothing is assumed of the device: it may have no data, or be dead.        *)
CancelFairness ==
  /\ WF_cancelVars(Worker) /\ WF_cancelVars(TimerFires)
  /\ WF_cancelVars(WatchdogLate \/ StopWatchdog)

CancelFairSpec == CancelSpec /\ CancelFairness

-----------------------------------------------------------------------------
CancelTypeOK ==
  /\ enq \in 0..(MaxUrbs * TdsPerUrb) /\ cached \in 0..enq
  /\ deq \in 1..(enq + 1) /\ dev.hw \in 1..(enq + 1)
  /\ dev.state \in {"running", "stopped", "halted"} /\ dev.bell \in BOOLEAN
  /\ tds \in Seq(1..enq) /\ cancelled \in Seq(1..enq) /\ noop \subseteq 1..enq
  /\ flags \subseteq {"HALT_PENDING", "SET_DEQ_PENDING", "HALTED"}
  /\ stopped \in 0..enq /\ queued \in 0..(enq + 1)
  /\ pending \in Nat /\ stopTimer \in 0..stops /\ fired \in 0..stops
  /\ eventWorker.pc \in {"idle", "unlinked", "giveback"}

(* "Giveback the urb when all the tds are completed": every URB is given     *)
(* back once, whether it completes, halts the endpoint, is cancelled, loses  *)
(* its device or its host, and in whatever order these meet.                 *)
ReturnedOnce ==
  \A u \in Urbs : returned[u] <= 1 /\ tdcnt[u] <= TdsPerUrb

(* Every TD on the cancelled list of an URB whose cancellation was accepted  *)
(* is in the hands of a stop endpoint command, or of the handler of its      *)
(* completion: the list is never left to itself.                             *)
StopInFlight ==
  \/ \E i \in DOMAIN cmds : cmds[i].type = "stop"
  \/ \E i \in DOMAIN transferEvents : transferEvents[i].code = "stop done"
  \/ eventWorker.pc = "unlinked"

CancelCovered ==
  ~hostDying =>
    /\ "HALT_PENDING" \in flags => StopInFlight
    /\ \A i \in DOMAIN cancelled :
         UrbOf(cancelled[i]) \in promised =>
           \/ "HALT_PENDING" \in flags
           \/ /\ eventWorker.pc = "giveback"
              /\ \E j \in i..Len(cancelled) : cancelled[j] = eventWorker.last

(* "If this is the last stop command pending": the watchdog gives up the     *)
(* host only when its timer ran out for the stop endpoint command that is    *)
(* pending, not for an earlier one that was answered as the timer fired.     *)
WatchdogNotEarly == [][hostDying' /\ ~hostDying => fired = stops]_cancelVars

(* As long as the USB device is there, the driver's dequeue pointer is at or *)
(* before the device's, and before every TD on the list: the walks along the *)
(* ring that look for a TD from the dequeue pointer end.                     *)
WalksEnd ==
  attached =>
    /\ deq <= dev.hw
    /\ \A i \in DOMAIN tds : deq <= tds[i]

(* A TD that is completed without an error was executed by the device: its   *)
(* completion is not another TD's.                                           *)
SuccessIsReal == attached => success \subseteq ran

(* The device accepts every set dequeue pointer command: "we should never    *)
(* get to this point if the synchronization between queueing, and endpoint   *)
(* state are correct."                                                       *)
SetDeqAccepted ==
  \A i \in DOMAIN transferEvents : transferEvents[i].code # "setdeq failed"

(* A TD that halted the endpoint is not started again: "We need to move the  *)
(* HW's dequeue pointer past this TD, or it will attempt to resend it on the *)
(* next doorbell ring."                                                      *)
NotResent == attached => stalls \cap ran = {}

(* "we turn all the TRBs in the TD into No-op TRBs [...] so that the HW will *)
(* skip over them": the device does not execute a TD whose URB was cancelled *)
(* and given back, on a host that works. It does not hold: see README.md.    *)
CancelledSkipped ==
  [][\A t \in ran' \ ran : hostDying \/ returned[UrbOf(t)] = 0]_cancelVars

(* Every accepted cancellation ends: the URB is given back.                  *)
CancelReturns == []<>(\A u \in promised : returned[u] > 0)

(* Together: cancelling and recovering leave the driver and the device with  *)
(* the same idea of where the ring stands.                                   *)
RecoveryIsRight ==
  CancelTypeOK /\ WalksEnd /\ SuccessIsReal /\ NotResent /\ SetDeqAccepted
=============================================================================
