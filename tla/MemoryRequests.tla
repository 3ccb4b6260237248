--------------------------- MODULE MemoryRequests ---------------------------
(***************************************************************************)
(* The device's access to the memory of the host.  The controller has no   *)
(* bus mastering: data it received goes to the host in memory write        *)
(* messages, data it needs is asked for in memory read messages and sent   *)
(* back in an OUT URB, and its events are messages too.  Receive URBs turn *)
(* into work items of one ordered work queue; a read takes the next URB of *)
(* an array used in turn.                                                  *)
(*                                                                         *)
(* Data is abstracted to its origin: transfers and read requests have      *)
(* numbers.  Losses and the end of the device are in RegisterAccess and    *)
(* Lifecycle.                                                              *)
(***************************************************************************)
EXTENDS Integers, Sequences, Functions

CONSTANTS
  ReplyUrbs,    \* NUMBER_OF_MESSAGE_BULK
  Outstanding,  \* read requests the device sends without an answer
  MaxLag,       \* reply URBs read by the device and not given back yet
  EventPipe,    \* the pipe that carries events; data is on "bulk"
  MaxReads,     \* bound: read requests
  MaxTransfers  \* bound: transfers of data to the host

ASSUME RequestsAssumption ==
  /\ ReplyUrbs \in Nat \ {0} /\ {Outstanding, MaxLag, MaxReads, MaxTransfers} \subseteq Nat
  /\ EventPipe \in {"bulk", "interrupt"}

Pipes == {"bulk", "interrupt"}
ReplyIndexes == 0 .. (ReplyUrbs - 1)

VARIABLES
  pipe,       \* messages the device has sent on each pipe
  workQueue,  \* WorkItemProcessingQueue
  memory,     \* transfers whose data is in the host's memory
  early,      \* transfers whose event was handled before their data was there
  current,    \* CurrentEmbeddedMemoryReadCompletionUrbContextIndex
  buffer,     \* the request in the data buffer of each reply URB
  flight,     \* reply URBs submitted, in the order of the OUT pipe
  leaving,    \* reply URBs the device has read, not given back yet, in that order
  asked,      \* read requests sent
  answers,    \* the requests that the answers received by the device are for
  moved       \* transfers sent

requestVars == <<pipe, workQueue, memory, early, current, buffer, flight, leaving, asked,
                 answers, moved>>

RequestsInit ==
  /\ pipe = [p \in Pipes |-> <<>>]
  /\ workQueue = <<>> /\ memory = {} /\ early = {}
  /\ current = 0 /\ buffer = [i \in ReplyIndexes |-> 0]
  /\ flight = <<>> /\ leaving = <<>>
  /\ asked = 0 /\ answers = <<>> /\ moved = 0

(* The device: it writes the data of a transfer, then the event; the two     *)
(* messages are on their way in that order.                                  *)
SendTransfer ==
  /\ moved < MaxTransfers
  /\ moved' = moved + 1
  /\ LET data == [type |-> "write", id |-> moved']
         event == [type |-> "event", id |-> moved']
     IN pipe' = IF EventPipe = "bulk"
                THEN [pipe EXCEPT !["bulk"] = @ \o <<data, event>>]
                ELSE [pipe EXCEPT !["bulk"] = Append(@, data),
                                  ![EventPipe] = Append(@, event)]
  /\ UNCHANGED <<workQueue, memory, early, current, buffer, flight, leaving, asked, answers>>

SendRead ==
  /\ asked < MaxReads /\ asked - Len(answers) < Outstanding
  /\ asked' = asked + 1
  /\ pipe' = [pipe EXCEPT !["bulk"] = Append(@, [type |-> "read", id |-> asked'])]
  /\ UNCHANGED <<workQueue, memory, early, current, buffer, flight, leaving, answers, moved>>

(* URB_CompletionRoutine_GetMessage: the message becomes a work item and the *)
(* URB goes back to its pipe.                                                *)
FaultySubmitWork(item) == <<item>> \o workQueue
SubmitWork(item) == Append(workQueue, item)
ReceiveMessage(p) ==
  /\ pipe[p] # <<>>
  /\ pipe' = [pipe EXCEPT ![p] = Tail(@)]
  /\ workQueue' = SubmitWork(Head(pipe[p]))
  /\ UNCHANGED <<memory, early, current, buffer, flight, leaving, asked, answers, moved>>

Handling(type) == workQueue # <<>> /\ Head(workQueue).type = type

HandleMemoryWrite ==
  /\ Handling("write")
  /\ memory' = memory \cup {Head(workQueue).id}
  /\ workQueue' = Tail(workQueue)
  /\ UNCHANGED <<pipe, early, current, buffer, flight, leaving, asked, answers, moved>>

HandleEventTrb ==
  /\ Handling("event")
  /\ early' = IF Head(workQueue).id \in memory THEN early
              ELSE early \cup {Head(workQueue).id}
  /\ workQueue' = Tail(workQueue)
  /\ UNCHANGED <<pipe, memory, current, buffer, flight, leaving, asked, answers, moved>>

(* MESSAGE_HandleMessage_EMBEDDED_MEMORY_READ_COMPLETION: the data goes into *)
(* the buffer of the next URB whether or not that URB is still in flight;    *)
(* submitting it again fails while it is.                                    *)
FaultyNextReply(i) == i
NextReply(i) == (i + 1) % ReplyUrbs
HandleMemoryRead ==
  /\ Handling("read")
  /\ workQueue' = Tail(workQueue)
  /\ current' = NextReply(current)
  /\ buffer' = [buffer EXCEPT ![current] = Head(workQueue).id]
  /\ flight' = IF current \in Range(flight) \cup Range(leaving) THEN flight
               ELSE Append(flight, current)
  /\ UNCHANGED <<pipe, memory, early, leaving, asked, answers, moved>>

(* The OUT pipe: the device reads the buffer of the first URB; the USB core  *)
(* of the host gives the URBs of the pipe back in order, a while later.      *)
TakeAnswer ==
  /\ flight # <<>> /\ Len(leaving) < MaxLag
  /\ answers' = Append(answers, buffer[Head(flight)])
  /\ leaving' = Append(leaving, Head(flight))
  /\ flight' = Tail(flight)
  /\ UNCHANGED <<pipe, workQueue, memory, early, current, buffer, asked, moved>>

ReplyDone ==
  /\ leaving # <<>>
  /\ leaving' = Tail(leaving)
  /\ UNCHANGED <<pipe, workQueue, memory, early, current, buffer, flight, asked, answers,
                 moved>>

RequestsNext ==
  \/ SendTransfer
  \/ SendRead
  \/ \E p \in Pipes : ReceiveMessage(p)
  \/ HandleMemoryWrite
  \/ HandleEventTrb
  \/ HandleMemoryRead
  \/ TakeAnswer
  \/ ReplyDone

(* Both pipes move, the work queue runs, and URBs are given back.            *)
RequestsFair ==
  /\ \A p \in Pipes : WF_requestVars(ReceiveMessage(p))
  /\ WF_requestVars(HandleMemoryWrite \/ HandleEventTrb \/ HandleMemoryRead)
  /\ WF_requestVars(TakeAnswer)
  /\ WF_requestVars(ReplyDone)

RequestsSpec == RequestsInit /\ [][RequestsNext]_requestVars

RequestsFairSpec == RequestsSpec /\ RequestsFair

-----------------------------------------------------------------------------
(* When the event of a transfer is handled, and the URB given back to its    *)
(* driver, the data of the transfer is in memory: one pipe, one ordered work *)
(* queue.                                                                    *)
DataBeforeEvent == early = {}

(* The device gets the data it asked for, request by request, although the   *)
(* reply URBs are taken in turn without asking whether they are free: with   *)
(* Outstanding + MaxLag no more than ReplyUrbs the next one always is.       *)
AnswersRight == \A k \in 1 .. Len(answers) : answers[k] = k

(* Every read request of the device is answered: once it stops asking, it    *)
(* has as many answers as it sent requests.                                  *)
ReadsAnswered == []<>(Len(answers) = asked)

(* Together: the device and the drivers see the memory they are told of.     *)
RequestsRight == AnswersRight /\ DataBeforeEvent
=============================================================================
