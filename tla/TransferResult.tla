--------------------------- MODULE TransferResult ---------------------------
(***************************************************************************)
(* What a transfer descriptor (TD) reports: process_ctrl_td,               *)
(* process_isoc_td, process_bulk_intr_td and the checks around them.       *)
(*                                                                         *)
(* One behaviour takes one TD through the events the device may report for *)
(* it.  The device knows how many bytes it has moved; the driver finds out *)
(* from the TRB the event points at, the completion code and the number of *)
(* bytes left of that TRB.  Sizes are a few bytes, and word stands for     *)
(* 2^32 in the unsigned arithmetic.                                        *)
(***************************************************************************)
EXTENDS Integers, Sequences, Functions

CONSTANTS
  MaxTrbs,   \* bound: TRBs of a bulk or isochronous TD
  MaxLen,    \* bound: bytes of a TRB
  MaxNoops,  \* bound: TRBs of cancelled TDs between the dequeue pointer and
             \* the TD
  CtrlNoops  \* the same for a control TD

ASSUME ResultAssumption ==
  MaxTrbs \in Nat \ {0} /\ MaxLen \in Nat \ {0} 
  /\ MaxNoops \in Nat /\ CtrlNoops \in Nat

word == 4096

VARIABLES
  kind,       \* "ctrl", "isoc" or "bulk", which includes interrupt endpoints
  len,        \* bytes of each TRB of the TD; of the data stage, for "ctrl"
  noops,      \* no-op TRBs the dequeue pointer stands before
  strict,     \* URB_SHORT_NOT_OK
  moved,      \* bytes the device has moved
  phase,      \* what the device and the driver do next
  event,      \* the transfer event
  status,     \* status of the URB, or of its frame
  actual,     \* actual_length
  lengthSet   \* urb_length_set

resultVars == <<kind, len, noops, strict, moved, phase, event, status, actual,
                lengthSet>>

Last == Len(len)
Total == SumFunction(len)                 \* transfer_buffer_length
Upto(i) == SumFunctionOnSet(len, 1..i)
AtDequeue(i) == i = 1 /\ noops = 0
Minus(a, b) == (a - b) % word             \* unsigned

NoEvent == [trb |-> 0, code |-> "none", left |-> 0]

Lengths == {<<0>>} \cup UNION {[1..n -> 1..MaxLen] : n \in 1..MaxTrbs}

(* A control TD has a setup TRB, a data TRB if there is data, and a status   *)
(* TRB; only the data TRB counts for the length.                             *)
ControlLengths == {<<0, 0>>} \cup {<<0, d, 0>> : d \in 1..MaxLen}

ResultInit ==
  /\ kind \in {"ctrl", "isoc", "bulk"}
  /\ len \in IF kind = "ctrl" THEN ControlLengths ELSE Lengths
  /\ noops \in 0..(IF kind = "ctrl" THEN CtrlNoops ELSE MaxNoops)
  /\ strict \in BOOLEAN
  /\ moved = 0 /\ phase = "device" /\ event = NoEvent
  /\ status = "inprogress" /\ actual = 0 /\ lengthSet = FALSE

-----------------------------------------------------------------------------
(* The device reports an event for a TRB of which some bytes are left.  The  *)
(* code decides the first value of the status (ehub_handle_tx_event).        *)
StatusOf(code) ==
  CASE code = "stall" -> "EPIPE"
    [] code = "txerr" -> "EPROTO"
    [] code = "babble" -> "EOVERFLOW"
    [] OTHER -> "inprogress"

Report(i, code, left, bytes) ==
  /\ event' = [trb |-> i, code |-> code, left |-> left]
  /\ status' = StatusOf(code)
  /\ moved' = bytes
  /\ phase' = "driver"
  /\ UNCHANGED <<kind, len, noops, strict, actual, lengthSet>>

(* Everything was moved.  Some devices report a short transfer that way too. *)
Completes ==
  /\ phase = "device"
  /\ \/ Report(Last, "success", 0, Total)
     \/ /\ kind = "bulk"
        /\ \E r \in 1..len[Last] : Report(Last, "success", r, Total - r)

(* A short packet ends a TD; a control transfer goes on to its status stage. *)
Short ==
  /\ phase = "device"
  /\ \E i \in 1..Last : \E r \in 1..len[i] : Report(i, "short", r, Upto(i) - r)

StatusStage ==
  /\ phase = "status stage"
  /\ Report(Last, "success", 0, moved)

(* An error.  Of a setup TRB any number of its own bytes may be left.  A     *)
(* control endpoint is halted by it.                                         *)
Errors == {"stall", "txerr", "babble"}

Fails ==
  /\ phase = "device"
  /\ \E i \in 1..Last, code \in Errors :
       IF kind = "ctrl" /\ i = 1
       THEN \E r \in 0..MaxLen : Report(1, code, r, 0)
       ELSE \E r \in 0..len[i] : Report(i, code, r, Upto(i) - r)

(* The rest of an isochronous TD after an error in the middle.               *)
FailsAtEnd ==
  /\ phase = "frame end"
  /\ Report(Last, "txerr", len[Last], moved)

(* The endpoint is stopped in a TRB, or on a link TRB before it.             *)
Stops ==
  /\ phase = "device"
  /\ \E i \in 1..Last :
       \/ \E r \in 0..len[i] : Report(i, "stop", r, Upto(i) - r)
       \/ i > 1 /\ \E r \in 0..MaxLen : Report(i, "stop inval", r, Upto(i - 1))

-----------------------------------------------------------------------------
ShortStatus == IF strict THEN "EREMOTEIO" ELSE "ok"

(* finish_td, "one last check of the actual transfer length".  A TD that was *)
(* stopped is not finished.                                                  *)
Finish(st, length) ==
  IF event.code \in {"stop", "stop inval"}
  THEN actual' = length /\ status' = st /\ phase' = "stopped"
  ELSE /\ actual' = IF length > Total THEN 0 ELSE length
       /\ status' = IF length > Total THEN ShortStatus ELSE st
       /\ phase' = "done"

Static == UNCHANGED <<kind, len, noops, strict, moved, event>>

(* process_ctrl_td.  The first TRB is told by the dequeue pointer, the event *)
(* for the data stage makes the driver wait for the status stage.            *)
CtrlStatus ==
  CASE event.code = "success" ->
         IF AtDequeue(event.trb) \/ event.trb # Last THEN "ESHUTDOWN" ELSE "ok"
    [] event.code = "short" -> ShortStatus
    [] OTHER -> status

CtrlMiddle == ~AtDequeue(event.trb) /\ event.trb # Last

FaultyCtrlStatusStage ==
  Finish(CtrlStatus, IF lengthSet THEN actual ELSE Total)

CtrlStatusStage ==
  IF lengthSet
  THEN Finish(IF strict /\ CtrlStatus = "ok" THEN "EREMOTEIO" ELSE CtrlStatus,
              actual)
  ELSE Finish(CtrlStatus, Total)

ProcessCtrl ==
  /\ phase = "driver" /\ kind = "ctrl"
  /\ CASE event.code \in {"stop", "stop inval"} ->
            Finish(status, actual) /\ UNCHANGED lengthSet
       [] event.code \in Errors ->
            /\ Finish(status, IF CtrlMiddle THEN Minus(Total, event.left) ELSE 0)
            /\ UNCHANGED lengthSet
       [] event.code \in {"success", "short"} /\ CtrlMiddle ->
            /\ lengthSet' = TRUE /\ actual' = Minus(Total, event.left)
            /\ status' = CtrlStatus /\ phase' = "status stage"
       [] event.code \in {"success", "short"} /\ ~CtrlMiddle ->
            CtrlStatusStage /\ UNCHANGED lengthSet
  /\ Static

(* The walk from the dequeue pointer to the event's TRB: the no-ops of       *)
(* cancelled TDs and the link TRBs count for nothing.                        *)
FaultyWalked == Upto(event.trb)

Walked == Upto(event.trb - 1)

(* process_isoc_td: the frame of the TD.                                     *)
IsocStatus ==
  CASE event.code = "success" -> "ok"
    [] event.code = "short" -> ShortStatus
    [] event.code = "babble" -> "EOVERFLOW"
    [] event.code \in {"stall", "txerr"} -> "EPROTO"
    [] OTHER -> status

ProcessIsoc ==
  /\ phase = "driver" /\ kind = "isoc"
  /\ CASE event.code = "txerr" /\ event.trb # Last ->
            status' = IsocStatus /\ phase' = "frame end" /\ UNCHANGED actual
       [] event.code = "txerr" /\ event.trb = Last -> Finish(IsocStatus, Total)
       [] event.code \in {"success", "stall", "babble"} ->
            Finish(IsocStatus, Total)
       [] event.code = "stop inval" -> Finish(IsocStatus, actual)
       [] event.code \in {"short", "stop"} ->
            Finish(IsocStatus, Walked + Minus(len[event.trb], event.left))
  /\ UNCHANGED lengthSet /\ Static

(* process_bulk_intr_td.                                                     *)
BulkStatus ==
  CASE event.code = "success" ->
         IF event.trb # Last \/ event.left # 0 THEN ShortStatus ELSE "ok"
    [] event.code = "short" -> ShortStatus
    [] OTHER -> status

(* The fast path: the event is for the last TRB.                             *)
BulkFast ==
  IF event.left # 0
  THEN Finish(IF BulkStatus = "inprogress" \/ Minus(Total, event.left) > Total
              THEN ShortStatus ELSE BulkStatus,
              IF Minus(Total, event.left) > Total THEN 0
              ELSE Minus(Total, event.left))
  ELSE Finish(IF BulkStatus = "EREMOTEIO" THEN "ok" ELSE BulkStatus, Total)

BulkSlow ==
  Finish(BulkStatus,
         IF event.code = "stop inval" THEN Walked
         ELSE Walked + Minus(len[event.trb], event.left))

ProcessBulk ==
  /\ phase = "driver" /\ kind = "bulk"
  /\ IF event.trb = Last THEN BulkFast ELSE BulkSlow
  /\ UNCHANGED lengthSet /\ Static

ResultNext ==
  \/ Completes \/ Short \/ StatusStage \/ Fails \/ FailsAtEnd \/ Stops
  \/ ProcessCtrl \/ ProcessIsoc \/ ProcessBulk

ResultSpec == ResultInit /\ [][ResultNext]_resultVars

-----------------------------------------------------------------------------
(* The actual length of a finished transfer is what the device moved, for    *)
(* every way a bulk or interrupt transfer can end, and for control and       *)
(* isochronous transfers that end well.                                      *)
LengthIsRight ==
  phase = "done" /\ (kind = "bulk" \/ status \in {"ok", "EREMOTEIO"}) =>
    actual = moved

(* A transfer that failed or, with URB_SHORT_NOT_OK, was short does not      *)
(* report success, and one that was complete reports nothing else: also when *)
(* the short data stage and the status stage are two events.                 *)
StatusIsRight ==
  phase = "done" =>
    (status = "ok" <=>
       event.code \notin Errors /\ (moved = Total \/ ~strict))

(* Together: what an URB reports is what the device did.                     *)
ResultIsRight == LengthIsRight /\ StatusIsRight
=============================================================================
