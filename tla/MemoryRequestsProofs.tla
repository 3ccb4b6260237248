------------------------ MODULE MemoryRequestsProofs ------------------------
(***************************************************************************)
(* The device gets the data it asked for, and its events find their data   *)
(* in memory, for any number of reply URBs, requests and transfers, when   *)
(* events share the pipe of the data and the device keeps its outstanding  *)
(* requests within the reply URBs.                                         *)
(***************************************************************************)
EXTENDS MemoryRequests, SequenceFacts

Message == [type : {"write", "event", "read"}, id : Nat]

(* What the device has sent on the bulk pipe and the host not handled yet.   *)
Sent == workQueue \o pipe["bulk"]

(* The reads among the first L messages of s are those after number n up to  *)
(* number k, in order, and none is missing.                                  *)
ReadsIn(s, L, n, k) ==
  /\ \A i \in 1 .. L : s[i].type = "read" => s[i].id \in (n + 1) .. k
  /\ \A i, j \in 1 .. L :
       i < j /\ s[i].type = "read" /\ s[j].type = "read" => s[i].id < s[j].id
  /\ \A r \in (n + 1) .. k : \E i \in 1 .. L : s[i].type = "read" /\ s[i].id = r

(* The data of every event is in memory, or on its way before the event.     *)
DataIn(s, L, mem) ==
  \A i \in 1 .. L : s[i].type = "event" =>
    s[i].id \in mem \/ \E j \in 1 .. (i - 1) : s[j].type = "write" /\ s[j].id = s[i].id

(* The reply URB that is taken d places before i.                            *)
Before(i, d) == IF d <= i THEN i - d ELSE i - d + ReplyUrbs

RequestsTypeOK ==
  /\ pipe \in [Pipes -> Seq(Message)] /\ pipe["interrupt"] = <<>>
  /\ workQueue \in Seq(Message)
  /\ current \in ReplyIndexes /\ buffer \in [ReplyIndexes -> Nat]
  /\ flight \in Seq(ReplyIndexes) /\ leaving \in Seq(ReplyIndexes)
  /\ asked \in Nat /\ answers \in Seq(Nat) /\ moved \in Nat

(* The requests not handled are on their way, no more than the device may    *)
(* have outstanding.                                                         *)
ReadsInv ==
  /\ Len(answers) + Len(flight) <= asked /\ asked - Len(answers) <= Outstanding
  /\ ReadsIn(Sent, Len(Sent), Len(answers) + Len(flight), asked)

(* The URBs in flight, and before them those that are leaving, are the ones  *)
(* taken last.                                                               *)
WindowInv ==
  /\ Len(leaving) <= MaxLag
  /\ \A j \in 1 .. Len(flight) : flight[j] = Before(current, Len(flight) + 1 - j)
  /\ \A j \in 1 .. Len(leaving) : leaving[j] = Before(current, Len(flight) + Len(leaving) + 1 - j)

(* The answers so far, and the buffers in flight, are for the requests in    *)
(* order.                                                                    *)
AnswersInv ==
  /\ AnswersRight
  /\ \A j \in 1 .. Len(flight) : buffer[flight[j]] = Len(answers) + j

DataInv == DataBeforeEvent /\ DataIn(Sent, Len(Sent), memory)

RequestsInv == RequestsTypeOK /\ ReadsInv /\ WindowInv /\ AnswersInv /\ DataInv

-----------------------------------------------------------------------------
(* A message is sent: what that does to the reads on their way.              *)
LEMMA ReadsAppend ==
  ASSUME NEW s, NEW t, NEW L \in Nat, NEW n \in Nat, NEW k \in Nat, n <= k,
         \A i \in 1 .. L : t[i] = s[i] /\ s[i].id \in Nat, t[L + 1].id \in Nat,
         ReadsIn(s, L, n, k)
  PROVE  /\ t[L + 1].type # "read" => ReadsIn(t, L + 1, n, k)
         /\ t[L + 1].type = "read" /\ t[L + 1].id = k + 1 => ReadsIn(t, L + 1, n, k + 1)
<1>1. ASSUME t[L + 1].type # "read" PROVE ReadsIn(t, L + 1, n, k)
  BY <1>1 DEF ReadsIn
<1>3. ASSUME t[L + 1].type = "read", t[L + 1].id = k + 1 PROVE ReadsIn(t, L + 1, n, k + 1)
  <2>1. ASSUME NEW i \in 1 .. (L + 1), t[i].type = "read" PROVE t[i].id \in (n + 1) .. (k + 1)
    BY <1>3, <2>1 DEF ReadsIn
  <2>2. ASSUME NEW i \in 1 .. (L + 1), NEW j \in 1 .. (L + 1),
               i < j, t[i].type = "read", t[j].type = "read"
        PROVE  t[i].id < t[j].id
    <3>1. i \in 1 .. L /\ t[i] = s[i] /\ s[i].id \in (n + 1) .. k
      BY <2>2 DEF ReadsIn
    <3> QED BY <1>3, <2>2, <3>1 DEF ReadsIn
  <2>3. ASSUME NEW r \in (n + 1) .. (k + 1)
        PROVE  \E i \in 1 .. (L + 1) : t[i].type = "read" /\ t[i].id = r
    BY <1>3 DEF ReadsIn
  <2> QED BY <2>1, <2>2, <2>3 DEF ReadsIn
<1> QED BY <1>1, <1>3

(* The first of them is handled.                                             *)
LEMMA ReadsTail ==
  ASSUME NEW s, NEW t, NEW L \in Nat, NEW n \in Nat, NEW k \in Nat,
         \A i \in 1 .. (L + 1) : s[i].id \in Nat, \A i \in 1 .. L : t[i] = s[i + 1],
         ReadsIn(s, L + 1, n, k)
  PROVE  /\ s[1].type # "read" => ReadsIn(t, L, n, k)
         /\ s[1].type = "read" => s[1].id = n + 1 /\ n < k /\ ReadsIn(t, L, n + 1, k)
<1>1. /\ \A i \in 2 .. (L + 1) : i - 1 \in 1 .. L /\ t[i - 1] = s[i]
      /\ \A i \in 1 .. L : i + 1 \in 2 .. (L + 1) /\ t[i].id \in Nat
  OBVIOUS
<1>2. ASSUME NEW l \in Nat, \A i \in 1 .. L : t[i].type = "read" => t[i].id \in (l + 1) .. k,
             \A r \in (l + 1) .. k : \E i \in 2 .. (L + 1) : s[i].type = "read" /\ s[i].id = r
      PROVE  ReadsIn(t, L, l, k)
  <2>1. ASSUME NEW i \in 1 .. L, NEW j \in 1 .. L,
               i < j, t[i].type = "read", t[j].type = "read"
        PROVE  t[i].id < t[j].id
    <3>1. /\ i + 1 \in 1 .. (L + 1) /\ j + 1 \in 1 .. (L + 1) /\ i + 1 < j + 1
          /\ t[i] = s[i + 1] /\ t[j] = s[j + 1]
      BY <2>1
    <3> QED BY <2>1, <3>1 DEF ReadsIn
  <2>2. ASSUME NEW r \in (l + 1) .. k
        PROVE  \E i \in 1 .. L : t[i].type = "read" /\ t[i].id = r
    <3>1. PICK i \in 2 .. (L + 1) : s[i].type = "read" /\ s[i].id = r
      BY <1>2
    <3> QED BY <1>1, <3>1
  <2> QED BY <1>2, <2>1, <2>2 DEF ReadsIn
<1>3. ASSUME s[1].type # "read" PROVE ReadsIn(t, L, n, k)
  <2>1. \A i \in 1 .. L : t[i].type = "read" => t[i].id \in (n + 1) .. k
    BY DEF ReadsIn
  <2>2. ASSUME NEW r \in (n + 1) .. k
        PROVE  \E i \in 2 .. (L + 1) : s[i].type = "read" /\ s[i].id = r
    BY <1>3 DEF ReadsIn
  <2> QED BY <1>2, <2>1, <2>2
<1>4. ASSUME s[1].type = "read" PROVE s[1].id = n + 1 /\ n < k /\ ReadsIn(t, L, n + 1, k)
  <2>1. 1 \in 1 .. (L + 1) /\ s[1].id \in (n + 1) .. k /\ n < k
    BY <1>4 DEF ReadsIn
  <2>2. \A i \in 2 .. (L + 1) : s[i].type = "read" => s[1].id < s[i].id /\ s[i].id <= k
    BY <1>4, <2>1 DEF ReadsIn
  <2>3. PICK i \in 1 .. (L + 1) : s[i].type = "read" /\ s[i].id = n + 1
    BY <2>1 DEF ReadsIn
  <2>4. s[1].id = n + 1
    BY <2>1, <2>2, <2>3
  <2>5. \A j \in 1 .. L : t[j].type = "read" => t[j].id \in (n + 1 + 1) .. k
    BY <1>1, <2>2, <2>4
  <2>6. ASSUME NEW r \in (n + 1 + 1) .. k
        PROVE  \E j \in 2 .. (L + 1) : s[j].type = "read" /\ s[j].id = r
    <3>1. PICK j \in 1 .. (L + 1) : s[j].type = "read" /\ s[j].id = r
      BY DEF ReadsIn
    <3> QED BY <2>4, <3>1
  <2> QED BY <1>2, <2>1, <2>4, <2>5, <2>6
<1> QED BY <1>3, <1>4

(* The same for the data before its event.                                   *)
LEMMA DataAppend ==
  ASSUME NEW s, NEW t, NEW L \in Nat, NEW mem, \A i \in 1 .. L : t[i] = s[i],
         DataIn(s, L, mem),
         t[L + 1].type # "event" \/ \E j \in 1 .. L : s[j].type = "write" /\ s[j].id = t[L + 1].id
  PROVE  DataIn(t, L + 1, mem)
<1> SUFFICES ASSUME NEW i \in 1 .. (L + 1), t[i].type = "event"
             PROVE  \/ t[i].id \in mem
                    \/ \E j \in 1 .. (i - 1) : t[j].type = "write" /\ t[j].id = t[i].id
  BY DEF DataIn
<1>2. CASE i = L + 1
  BY <1>2
<1>3. CASE i # L + 1
  BY <1>3 DEF DataIn
<1> QED BY <1>2, <1>3

(* The first message is handled; memory only grows.                          *)
LEMMA DataTail ==
  ASSUME NEW s, NEW t, NEW L \in Nat, NEW mem, NEW new, \A i \in 1 .. L : t[i] = s[i + 1],
         DataIn(s, L + 1, mem),
         mem \subseteq new, s[1].type = "write" => s[1].id \in new
  PROVE  DataIn(t, L, new) /\ (s[1].type = "event" => s[1].id \in mem)
<1>1. s[1].type = "event" => s[1].id \in mem
  BY DEF DataIn
<1>2. ASSUME NEW i \in 1 .. L, t[i].type = "event", t[i].id \notin new
      PROVE  \E j \in 1 .. (i - 1) : t[j].type = "write" /\ t[j].id = t[i].id
  <2>1. i + 1 \in 1 .. (L + 1) /\ t[i] = s[i + 1] /\ s[i + 1].id \notin mem
    BY <1>2
  <2>2. PICK j \in 1 .. i : s[j].type = "write" /\ s[j].id = s[i + 1].id
    BY <1>2, <2>1 DEF DataIn
  <2>3. j # 1
    BY <1>2, <2>1, <2>2
  <2>4. j - 1 \in 1 .. (i - 1) /\ t[j - 1] = s[j]
    BY <2>2, <2>3
  <2> QED BY <2>1, <2>2, <2>4
<1>3. DataIn(t, L, new)
  BY <1>2 DEF DataIn
<1> QED BY <1>1, <1>3

-----------------------------------------------------------------------------
USE RequestsAssumption DEF RequestsAssumption

(* The next reply URB, without the remainder.                                *)
LEMMA NextReplyIs ==
  ASSUME NEW i \in ReplyIndexes
  PROVE  NextReply(i) = IF i + 1 = ReplyUrbs THEN 0 ELSE i + 1
  BY DEF NextReply, ReplyIndexes

(* The types of what is on its way.                                          *)
LEMMA SentTyped ==
  ASSUME RequestsTypeOK
  PROVE  /\ pipe["bulk"] \in Seq(Message) /\ workQueue \in Seq(Message)
         /\ Sent \in Seq(Message) /\ Len(Sent) \in Nat
         /\ \A i \in 1 .. Len(Sent) : Sent[i].id \in Nat
         /\ asked \in Nat /\ Len(answers) + Len(flight) \in Nat
         /\ Len(answers) \in Nat /\ Len(flight) \in Nat /\ Len(leaving) \in Nat
<1>1. pipe["bulk"] \in Seq(Message) /\ workQueue \in Seq(Message)
  BY DEF RequestsTypeOK, Pipes
<1>2. Sent \in Seq(Message)
  BY <1>1 DEF Sent
<1>3. Len(Sent) \in Nat /\ \A i \in 1 .. Len(Sent) : Sent[i].id \in Nat
  <2>1. Len(Sent) \in Nat /\ \A i \in 1 .. Len(Sent) : Sent[i] \in Message
    BY <1>2
  <2>2. \A m \in Message : m.id \in Nat
    BY DEF Message
  <2> QED BY <2>1, <2>2
<1>4. /\ asked \in Nat /\ Len(answers) \in Nat /\ Len(flight) \in Nat
      /\ Len(leaving) \in Nat
  BY DEF RequestsTypeOK
<1> QED BY <1>1, <1>2, <1>3, <1>4

(* Going round the reply URBs.                                               *)
LEMMA BeforeNext ==
  ASSUME NEW i \in ReplyIndexes
  PROVE  /\ NextReply(i) \in ReplyIndexes /\ Before(NextReply(i), 1) = i
         /\ \A d \in 1 .. (ReplyUrbs - 1) : /\ Before(i, d) # i
                                           /\ Before(NextReply(i), d + 1) = Before(i, d)
<1>1. i \in Int /\ 0 <= i /\ i < ReplyUrbs /\ ReplyUrbs \in Int
  BY DEF ReplyIndexes
<1>2. NextReply(i) = IF i + 1 = ReplyUrbs THEN 0 ELSE i + 1
  BY NextReplyIs
<1> QED BY <1>1, <1>2 DEF Before, ReplyIndexes

(* The device sends a message on the bulk pipe: it is the last of those not  *)
(* handled.                                                                  *)
LEMMA Appended ==
  ASSUME NEW s \in Seq(Message), NEW m \in Message
  PROVE  LET t == Append(s, m)
         IN /\ t \in Seq(Message) /\ Len(t) = Len(s) + 1 /\ t[Len(s) + 1] = m
            /\ \A i \in 1 .. Len(s) : t[i] = s[i]
  OBVIOUS

(* A message put on the bulk pipe is the last of those sent.                 *)
LEMMA SentGrows ==
  ASSUME RequestsTypeOK, NEW m \in Message, workQueue' = workQueue,
         pipe' = [pipe EXCEPT !["bulk"] = Append(@, m)]
  PROVE  /\ Sent' = Append(Sent, m)
         /\ pipe' \in [Pipes -> Seq(Message)] /\ pipe'["interrupt"] = pipe["interrupt"]
<1>1. pipe'["bulk"] = Append(pipe["bulk"], m)
  BY DEF RequestsTypeOK, Pipes
<1>2. Sent' = workQueue \o Append(pipe["bulk"], m)
  BY <1>1, Zenon DEF Sent
<1>3. Sent' = Append(Sent, m)
  <2>1. pipe["bulk"] \in Seq(Message) /\ workQueue \in Seq(Message)
    BY SentTyped
  <2>2. \A s, t \in Seq(Message) : s \o Append(t, m) = Append(s \o t, m)
    BY AppendRight
  <2> QED BY <1>2, <2>1, <2>2, Zenon DEF Sent
<1>4. Append(pipe["bulk"], m) \in Seq(Message)
  BY SentTyped
<1> DEFINE b == Append(pipe["bulk"], m)
           M == Seq(Message)
<1>5. b \in M /\ pipe \in [Pipes -> M] /\ pipe' = [pipe EXCEPT !["bulk"] = b]
  BY <1>4 DEF RequestsTypeOK
<1> HIDE DEF b, M
<1>6. pipe' \in [Pipes -> M] /\ pipe'["interrupt"] = pipe["interrupt"]
  BY <1>5, Zenon DEF Pipes
<1> QED BY <1>3, <1>6 DEF M

(* The worker handles the first message.                                     *)
LEMMA SentShrinks ==
  ASSUME RequestsTypeOK, workQueue # <<>>, workQueue' = Tail(workQueue), pipe' = pipe
  PROVE  /\ workQueue' \in Seq(Message)
         /\ Len(Sent') \in Nat /\ Len(Sent) = Len(Sent') + 1 /\ Sent[1] = Head(workQueue)
         /\ \A i \in 1 .. Len(Sent') : Sent'[i] = Sent[i + 1]
<1>1. workQueue' \in Seq(Message)
  BY SentTyped, HeadAndTail
<1>2. Sent # <<>> /\ Head(Sent) = Head(workQueue) /\ Sent' = Tail(Sent)
  BY SentTyped, TailLeft, Zenon DEF Sent
<1>3. /\ Len(Sent) \in Nat \ {0} /\ Len(Sent') = Len(Sent) - 1
      /\ \A i \in 1 .. Len(Sent') : Sent'[i] = Sent[i + 1]
  BY <1>2, SentTyped, HeadAndTail
<1>4. Sent[1] = Head(Sent)
  BY <1>2, SentTyped
<1> QED BY <1>1, <1>2, <1>3, <1>4

(* Nothing happens to the reply URBs.                                        *)
LEMMA RepliesSame ==
  ASSUME WindowInv, AnswersInv, UNCHANGED <<current, buffer, flight, leaving, answers>>
  PROVE  WindowInv' /\ AnswersInv'
  BY DEF WindowInv, AnswersInv, AnswersRight, Before

(* Nothing is sent or answered in the first state.                           *)
LEMMA InitRequests == RequestsInit => RequestsInv
<1> SUFFICES ASSUME RequestsInit PROVE RequestsInv
  OBVIOUS
<1>1. RequestsTypeOK
  BY DEF RequestsInit, RequestsTypeOK, Pipes, ReplyIndexes
<1>2. Len(Sent) = 0
  <2>1. workQueue = <<>> /\ pipe["bulk"] = <<>>
    BY DEF RequestsInit, Pipes
  <2> QED BY <2>1 DEF Sent
<1>3. Len(flight) = 0 /\ Len(leaving) = 0 /\ Len(answers) = 0 /\ asked = 0
  BY DEF RequestsInit
<1>4. ReadsInv /\ DataInv
  BY <1>2, <1>3 DEF RequestsInit, ReadsInv, ReadsIn, DataInv, DataIn, DataBeforeEvent
<1>5. WindowInv /\ AnswersInv
  BY <1>3 DEF WindowInv, AnswersInv, AnswersRight
<1> QED BY <1>1, <1>4, <1>5 DEF RequestsInv

-----------------------------------------------------------------------------
(* The device sends the data and the event of a transfer, ...                *)
LEMMA TransferInv ==
  ASSUME EventPipe = "bulk", RequestsInv, SendTransfer
  PROVE  RequestsInv'
<1> DEFINE data == [type |-> "write", id |-> moved + 1]
           event == [type |-> "event", id |-> moved + 1]
           bulk == pipe["bulk"]
           M == Seq(Message)
           mid == Append(Sent, data)
           n == Len(answers) + Len(flight)
<1>1. RequestsTypeOK /\ ReadsInv /\ WindowInv /\ AnswersInv /\ DataInv
  BY DEF RequestsInv
<1>2. data \in Message /\ event \in Message /\ bulk \in M /\ workQueue \in M /\ Sent \in M
  BY <1>1, SentTyped DEF RequestsTypeOK, Message
<1>3. pipe' = [pipe EXCEPT !["bulk"] = bulk \o <<data, event>>] /\ moved' = moved + 1
  BY DEF SendTransfer
<1>4. /\ data.type = "write" /\ event.type = "event" /\ data.id = event.id
      /\ data.id \in Nat /\ event.id \in Nat
  BY <1>1 DEF RequestsTypeOK
<1> HIDE DEF data, event
<1>5. bulk \o <<data, event>> = Append(Append(bulk, data), event) /\ bulk \o <<data, event>> \in M
  <2> DEFINE x == bulk \o <<data, event>>
             y == Append(Append(bulk, data), event)
  <2>1. x \in Seq(Message) /\ y \in Seq(Message) /\ Len(x) = Len(y)
    BY <1>2
  <2>2. \A i \in 1 .. Len(x) : x[i] = y[i]
    BY <1>2
  <2> QED BY <2>1, <2>2, SameSequence, Zenon
<1>6. /\ pipe' \in [Pipes -> M] /\ pipe'["interrupt"] = pipe["interrupt"]
      /\ pipe'["bulk"] = Append(Append(bulk, data), event)
  <2> DEFINE z == bulk \o <<data, event>>
  <2>1. z \in M /\ pipe' = [pipe EXCEPT !["bulk"] = z] /\ pipe \in [Pipes -> M]
    BY <1>1, <1>3, <1>5 DEF RequestsTypeOK
  <2> HIDE DEF z, M
  <2>2. /\ pipe' \in [Pipes -> M] /\ pipe'["interrupt"] = pipe["interrupt"]
        /\ pipe'["bulk"] = z
    BY <2>1 DEF Pipes
  <2> QED BY <2>2, <1>5, Zenon DEF z
<1>7. Sent' = Append(mid, event)
  <2>1. \A s, t \in M, m \in Message : s \o Append(t, m) = Append(s \o t, m)
    BY AppendRight, SMTT(20)
  <2>2. Append(bulk, data) \in M
    BY <1>2
  <2>3. Sent' = workQueue \o Append(Append(bulk, data), event)
    BY <1>6, Zenon DEF SendTransfer, Sent
  <2>4. workQueue \o Append(Append(bulk, data), event)
        = Append(workQueue \o Append(bulk, data), event)
    BY <1>2, <2>1, <2>2, Zenon
  <2>5. workQueue \o Append(bulk, data) = Append(workQueue \o bulk, data)
    BY <1>2, <2>1, Zenon
  <2> QED BY <2>3, <2>4, <2>5, Zenon DEF Sent
<1>8. RequestsTypeOK'
  BY <1>1, <1>3, <1>6, SMTT(20) DEF RequestsTypeOK, SendTransfer
<1>9. /\ mid \in M /\ Len(mid) = Len(Sent) + 1 /\ mid[Len(Sent) + 1] = data
      /\ \A i \in 1 .. Len(Sent) : mid[i] = Sent[i]
  BY <1>2, Appended
<1> HIDE DEF mid
<1>10. /\ Len(Sent') = Len(mid) + 1 /\ Sent'[Len(mid) + 1] = event
       /\ \A i \in 1 .. Len(mid) : Sent'[i] = mid[i]
  BY <1>2, <1>7, <1>9, Appended
<1>11. /\ Len(Sent) \in Nat /\ n \in Nat /\ asked \in Nat /\ n <= asked
       /\ \A i \in 1 .. Len(Sent) : Sent[i].id \in Nat
       /\ ReadsIn(Sent, Len(Sent), n, asked) /\ DataIn(Sent, Len(Sent), memory)
  BY <1>1, SentTyped DEF ReadsInv, DataInv
<1> HIDE DEF n, M
<1>12. ReadsIn(mid, Len(mid), n, asked) /\ DataIn(mid, Len(mid), memory)
  <2>1. ReadsIn(mid, Len(Sent) + 1, n, asked)
    BY <1>4, <1>9, <1>11, ReadsAppend, Zenon
  <2>2. DataIn(mid, Len(Sent) + 1, memory)
    BY <1>4, <1>9, <1>11, DataAppend, Zenon
  <2> QED BY <1>9, <2>1, <2>2
<1>13. ReadsIn(Sent', Len(Sent'), n, asked)
  <2>1. Len(mid) \in Nat /\ \A i \in 1 .. Len(mid) : mid[i].id \in Nat
    <3>1. Len(mid) \in Nat
      BY <1>9, <1>11
    <3>2. \A i \in 1 .. Len(mid) : i = Len(Sent) + 1 \/ i \in 1 .. Len(Sent)
      BY <1>9, <1>11
    <3>3. ASSUME NEW i \in 1 .. Len(mid) PROVE mid[i].id \in Nat
      <4>1. CASE i = Len(Sent) + 1
        BY <1>4, <1>9, <4>1, Zenon
      <4>2. CASE i \in 1 .. Len(Sent)
        BY <1>9, <1>11, <4>2, Zenon
      <4> QED BY <3>2, <4>1, <4>2
    <3> QED BY <3>1, <3>3, Zenon
  <2>2. ReadsIn(Sent', Len(mid) + 1, n, asked)
    BY <1>4, <1>10, <1>11, <1>12, <2>1, ReadsAppend, Zenon
  <2> QED BY <1>10, <2>2
<1>14. DataIn(Sent', Len(Sent'), memory)
  <2>1. Len(mid) \in Nat /\ \E j \in 1 .. Len(mid) : mid[j].type = "write" /\ mid[j].id = event.id
    BY <1>4, <1>9, <1>11
  <2>2. DataIn(Sent', Len(mid) + 1, memory)
    BY <1>10, <1>12, <2>1, DataAppend, Zenon
  <2> QED BY <1>10, <2>2
<1>15. ReadsInv' /\ DataInv'
  BY <1>1, <1>13, <1>14 DEF n, ReadsInv, DataInv, DataBeforeEvent, SendTransfer
<1> QED BY <1>1, <1>8, <1>15, RepliesSame DEF RequestsInv, SendTransfer

(* ... or a request.                                                         *)
LEMMA ReadInv ==
  ASSUME RequestsInv, SendRead
  PROVE  RequestsInv'
<1> DEFINE m == [type |-> "read", id |-> asked + 1]
           n == Len(answers) + Len(flight)
<1>1. RequestsTypeOK /\ ReadsInv /\ WindowInv /\ AnswersInv /\ DataInv
  BY DEF RequestsInv
<1>2. m \in Message /\ m.type = "read" /\ m.id = asked + 1 /\ asked \in Nat
  BY <1>1 DEF RequestsTypeOK, Message
<1>3. pipe' = [pipe EXCEPT !["bulk"] = Append(@, m)]
  BY DEF SendRead
<1> HIDE DEF m
<1>4. /\ Sent' = Append(Sent, m)
      /\ pipe' \in [Pipes -> Seq(Message)] /\ pipe'["interrupt"] = pipe["interrupt"]
  BY <1>1, <1>2, <1>3, SentGrows, Zenon DEF SendRead
<1>5. RequestsTypeOK'
  <2>1. asked' \in Nat
    BY <1>2 DEF SendRead
  <2> QED BY <1>1, <1>4, <2>1, Zenon DEF RequestsTypeOK, SendRead
<1>6. /\ Len(Sent') = Len(Sent) + 1 /\ Sent'[Len(Sent) + 1] = m
      /\ \A i \in 1 .. Len(Sent) : Sent'[i] = Sent[i]
  BY <1>1, <1>2, <1>4, SentTyped, Appended
<1>7. /\ Len(Sent) \in Nat /\ n \in Nat /\ n <= asked
      /\ \A i \in 1 .. Len(Sent) : Sent[i].id \in Nat
      /\ ReadsIn(Sent, Len(Sent), n, asked) /\ DataIn(Sent, Len(Sent), memory)
  BY <1>1, SentTyped DEF ReadsInv, DataInv
<1> HIDE DEF n
<1>8. ReadsIn(Sent', Len(Sent) + 1, n, asked + 1)
  <2>1. /\ Sent'[Len(Sent) + 1].type = "read" /\ Sent'[Len(Sent) + 1].id = asked + 1
        /\ Sent'[Len(Sent) + 1].id \in Nat
    BY <1>2, <1>6
  <2> QED BY <1>2, <1>6, <1>7, <2>1, ReadsAppend, Zenon
<1>9. DataIn(Sent', Len(Sent) + 1, memory)
  BY <1>2, <1>6, <1>7, DataAppend, Zenon
<1>10. ReadsInv'
  <2>1. asked' = asked + 1 /\ asked' - Len(answers) <= Outstanding /\ n <= asked'
    BY <1>1, <1>2, <1>7, SentTyped, SMTT(20) DEF SendRead
  <2> QED BY <1>6, <1>8, <2>1 DEF n, ReadsInv, SendRead
<1>11. DataInv'
  BY <1>1, <1>6, <1>9 DEF DataInv, DataBeforeEvent, SendRead
<1> QED BY <1>1, <1>5, <1>10, <1>11, RepliesSame DEF RequestsInv, SendRead

(* A message becomes a work item: nothing overtakes anything.                *)
LEMMA ReceiveInv ==
  ASSUME RequestsInv, NEW p \in Pipes, ReceiveMessage(p)
  PROVE  RequestsInv'
<1> DEFINE bulk == pipe["bulk"]
           M == Seq(Message)
<1>1. RequestsTypeOK /\ ReadsInv /\ WindowInv /\ AnswersInv /\ DataInv
  BY DEF RequestsInv
<1>2. p = "bulk" /\ bulk # <<>>
  BY <1>1 DEF RequestsTypeOK, ReceiveMessage, Pipes
<1>3. bulk \in M /\ workQueue \in M /\ Tail(bulk) \in M /\ Head(bulk) \in Message
  BY <1>1, <1>2, SentTyped, HeadAndTail
<1>4. workQueue' = Append(workQueue, Head(bulk)) /\ workQueue' \in M
  BY <1>2, <1>3 DEF ReceiveMessage, SubmitWork
<1>5. /\ pipe' \in [Pipes -> M] /\ pipe'["interrupt"] = pipe["interrupt"]
      /\ pipe'["bulk"] = Tail(bulk)
  <2> DEFINE z == Tail(bulk)
  <2>1. z \in M /\ pipe' = [pipe EXCEPT !["bulk"] = z] /\ pipe \in [Pipes -> M]
    BY <1>1, <1>2, <1>3 DEF RequestsTypeOK, ReceiveMessage
  <2> HIDE DEF z, M
  <2>2. /\ pipe' \in [Pipes -> M] /\ pipe'["interrupt"] = pipe["interrupt"]
        /\ pipe'["bulk"] = z
    BY <2>1 DEF Pipes
  <2> QED BY <2>2 DEF z
<1>6. Sent' = Sent
  <2>1. \A s, t \in M : t # <<>> => Append(s, Head(t)) \o Tail(t) = s \o t
    BY Moved, Zenon
  <2> QED BY <1>2, <1>3, <1>4, <1>5, <2>1, ZenonT(30) DEF Sent
<1>7. RequestsTypeOK'
  BY <1>1, <1>4, <1>5, Zenon DEF RequestsTypeOK, ReceiveMessage
<1>8. ReadsInv' /\ DataInv'
  BY <1>1, <1>6 DEF ReadsInv, DataInv, DataBeforeEvent, ReceiveMessage
<1> QED BY <1>1, <1>7, <1>8, RepliesSame DEF RequestsInv, ReceiveMessage

(* The worker takes a work item: if it is a request, it is the next one.     *)
LEMMA Handles ==
  ASSUME RequestsInv, workQueue # <<>>, workQueue' = Tail(workQueue), pipe' = pipe,
         NEW new, memory \subseteq new,
         Head(workQueue).type = "write" => Head(workQueue).id \in new
  PROVE  LET n == Len(answers) + Len(flight)
             item == Head(workQueue)
         IN /\ workQueue' \in Seq(Message)
            /\ DataIn(Sent', Len(Sent'), new)
            /\ item.type = "event" => item.id \in memory
            /\ item.type # "read" => ReadsIn(Sent', Len(Sent'), n, asked)
            /\ item.type = "read" => /\ item.id = n + 1 /\ n < asked
                                     /\ ReadsIn(Sent', Len(Sent'), n + 1, asked)
<1> DEFINE n == Len(answers) + Len(flight)
           L == Len(Sent')
<1>1. RequestsTypeOK /\ ReadsInv /\ DataInv
  BY DEF RequestsInv
<1>2. /\ workQueue' \in Seq(Message)
      /\ L \in Nat /\ Len(Sent) = L + 1 /\ Sent[1] = Head(workQueue)
      /\ \A i \in 1 .. L : Sent'[i] = Sent[i + 1]
  BY <1>1, SentShrinks
<1>3. /\ n \in Nat /\ asked \in Nat /\ \A i \in 1 .. (L + 1) : Sent[i].id \in Nat
      /\ ReadsIn(Sent, L + 1, n, asked) /\ DataIn(Sent, L + 1, memory)
  BY <1>1, <1>2, SentTyped DEF ReadsInv, DataInv
<1> HIDE DEF n, L
<1>4. /\ Sent[1].type # "read" => ReadsIn(Sent', L, n, asked)
      /\ Sent[1].type = "read" => Sent[1].id = n + 1 /\ n < asked /\ ReadsIn(Sent', L, n + 1, asked)
  BY <1>2, <1>3, ReadsTail, Zenon
<1>5. DataIn(Sent', L, new) /\ (Sent[1].type = "event" => Sent[1].id \in memory)
  BY <1>2, <1>3, DataTail, Zenon
<1> QED BY <1>2, <1>4, <1>5 DEF n, L

(* A memory write taken off the work queue keeps the invariant.              *)
LEMMA HandleWriteInv ==
  ASSUME RequestsInv, HandleMemoryWrite
  PROVE  RequestsInv'
<1>1. RequestsTypeOK /\ ReadsInv /\ WindowInv /\ AnswersInv /\ DataInv
  BY DEF RequestsInv
<1>2. /\ workQueue # <<>> /\ Head(workQueue).type = "write"
      /\ memory' = memory \cup {Head(workQueue).id}
      /\ workQueue' = Tail(workQueue) /\ pipe' = pipe
  BY DEF HandleMemoryWrite, Handling
<1>3. /\ workQueue' \in Seq(Message) /\ DataIn(Sent', Len(Sent'), memory')
      /\ ReadsIn(Sent', Len(Sent'), Len(answers) + Len(flight), asked)
  <2> DEFINE new == memory'
  <2>1. memory \subseteq new /\ Head(workQueue).id \in new
    BY <1>2
  <2> HIDE DEF new
  <2>2. /\ workQueue' \in Seq(Message) /\ DataIn(Sent', Len(Sent'), new)
        /\ ReadsIn(Sent', Len(Sent'), Len(answers) + Len(flight), asked)
    BY <1>2, <2>1, Handles
  <2> QED BY <2>2 DEF new
<1>4. RequestsTypeOK'
  BY <1>1, <1>3 DEF RequestsTypeOK, HandleMemoryWrite
<1>5. ReadsInv' /\ DataInv'
  BY <1>1, <1>3 DEF ReadsInv, DataInv, DataBeforeEvent, HandleMemoryWrite
<1> QED BY <1>1, <1>4, <1>5, RepliesSame DEF RequestsInv, HandleMemoryWrite

(* An event TRB taken off the work queue keeps the invariant.                *)
LEMMA HandleEventInv ==
  ASSUME RequestsInv, HandleEventTrb
  PROVE  RequestsInv'
<1>1. RequestsTypeOK /\ ReadsInv /\ WindowInv /\ AnswersInv /\ DataInv
  BY DEF RequestsInv
<1>2. /\ workQueue # <<>> /\ Head(workQueue).type = "event"
      /\ workQueue' = Tail(workQueue) /\ pipe' = pipe
  BY DEF HandleEventTrb, Handling
<1>3. /\ workQueue' \in Seq(Message) /\ DataIn(Sent', Len(Sent'), memory)
      /\ Head(workQueue).id \in memory
      /\ ReadsIn(Sent', Len(Sent'), Len(answers) + Len(flight), asked)
  BY <1>2, Handles, Zenon
<1>4. RequestsTypeOK'
  BY <1>1, <1>3 DEF RequestsTypeOK, HandleEventTrb
<1>5. ReadsInv' /\ DataInv'
  BY <1>1, <1>3 DEF ReadsInv, DataInv, DataBeforeEvent, HandleEventTrb
<1> QED BY <1>1, <1>4, <1>5, RepliesSame DEF RequestsInv, HandleEventTrb

(* The next reply URB is free when a request is handled.                     *)
LEMMA HandleReadInv ==
  ASSUME Outstanding + MaxLag <= ReplyUrbs, RequestsInv, HandleMemoryRead
  PROVE  RequestsInv'
<1> DEFINE f == Len(flight)
           l == Len(leaving)
           n == Len(answers) + f
<1>1. RequestsTypeOK /\ ReadsInv /\ WindowInv /\ AnswersInv /\ DataInv
  BY DEF RequestsInv
<1>2. /\ workQueue # <<>> /\ Head(workQueue).type = "read"
      /\ workQueue' = Tail(workQueue) /\ pipe' = pipe
  BY DEF HandleMemoryRead, Handling
<1>3. /\ workQueue' \in Seq(Message) /\ DataIn(Sent', Len(Sent'), memory)
      /\ Head(workQueue).id = n + 1 /\ n < asked
      /\ ReadsIn(Sent', Len(Sent'), n + 1, asked)
  BY <1>2, Handles, Zenon
<1>4. /\ f \in Nat /\ l \in Nat /\ Len(answers) \in Nat /\ asked \in Nat
      /\ current \in ReplyIndexes /\ buffer \in [ReplyIndexes -> Nat]
      /\ f + l <= ReplyUrbs - 1
  <2>1. f \in Nat /\ l \in Nat /\ Len(answers) \in Nat /\ asked \in Nat
    BY <1>1, SentTyped
  <2>2. asked - Len(answers) <= Outstanding /\ l <= MaxLag
    BY <1>1 DEF ReadsInv, WindowInv
  <2>3. f + l <= ReplyUrbs - 1
    BY <1>3, <2>1, <2>2, SMTT(20)
  <2> QED BY <1>1, <2>1, <2>3 DEF RequestsTypeOK
<1>5. /\ \A j \in 1 .. f : flight[j] = Before(current, f + 1 - j)
      /\ \A j \in 1 .. l : leaving[j] = Before(current, f + l + 1 - j)
      /\ \A j \in 1 .. f : buffer[flight[j]] = Len(answers) + j
  BY <1>1, Zenon DEF WindowInv, AnswersInv
<1>6. /\ \A j \in 1 .. f : flight[j] # current /\ f + 1 - j \in 1 .. (ReplyUrbs - 1)
      /\ \A j \in 1 .. l : leaving[j] # current /\ f + l + 1 - j \in 1 .. (ReplyUrbs - 1)
  <2>1. /\ \A j \in 1 .. f : f + 1 - j \in 1 .. (ReplyUrbs - 1)
        /\ \A j \in 1 .. l : f + l + 1 - j \in 1 .. (ReplyUrbs - 1)
    <3>1. f \in Nat /\ l \in Nat /\ f + l <= ReplyUrbs - 1
      BY <1>4
    <3> HIDE DEF f, l
    <3> QED BY <3>1
  <2>2. \A d \in 1 .. (ReplyUrbs - 1) : Before(current, d) # current
    BY <1>4, BeforeNext, Zenon
  <2>3. ASSUME NEW j \in 1 .. f PROVE flight[j] # current
    <3>1. flight[j] = Before(current, f + 1 - j) /\ f + 1 - j \in 1 .. (ReplyUrbs - 1)
      BY <1>5, <2>1
    <3> QED BY <2>2, <3>1
  <2>4. ASSUME NEW j \in 1 .. l PROVE leaving[j] # current
    <3>1. leaving[j] = Before(current, f + l + 1 - j) /\ f + l + 1 - j \in 1 .. (ReplyUrbs - 1)
      BY <1>5, <2>1
    <3> QED BY <2>2, <3>1
  <2> QED BY <2>1, <2>3, <2>4, Zenon
<1>7. /\ flight' = Append(flight, current)
      /\ current' = NextReply(current) /\ leaving' = leaving /\ answers' = answers
      /\ buffer' = [buffer EXCEPT ![current] = n + 1] /\ asked' = asked
  <2>1. flight \in Seq(ReplyIndexes) /\ leaving \in Seq(ReplyIndexes)
    BY <1>1 DEF RequestsTypeOK
  <2>2. DOMAIN flight = 1 .. f /\ DOMAIN leaving = 1 .. l
    BY <2>1
  <2>3. current \notin Range(flight) \cup Range(leaving)
    BY <1>6, <2>2 DEF Range
  <2> QED BY <1>3, <2>3, Zenon DEF HandleMemoryRead
<1>8. /\ flight' \in Seq(ReplyIndexes) /\ Len(flight') = f + 1 /\ flight'[f + 1] = current
      /\ \A j \in 1 .. f : flight'[j] = flight[j]
  BY <1>1, <1>4, <1>7 DEF RequestsTypeOK
<1>9. \A j \in 1 .. f : flight[j] \in ReplyIndexes
  BY <1>1 DEF RequestsTypeOK
<1> HIDE DEF f, l
<1>10. buffer' \in [ReplyIndexes -> Nat] /\ current' \in ReplyIndexes
  BY <1>4, <1>7, BeforeNext
<1>11. RequestsTypeOK'
  BY <1>1, <1>3, <1>8, <1>10, Zenon DEF RequestsTypeOK, HandleMemoryRead
<1>12. ReadsInv'
  <2>1. Len(answers') + Len(flight') = n + 1
    BY <1>4, <1>7, <1>8
  <2>2. n + 1 <= asked
    BY <1>3, <1>4
  <2> QED BY <1>1, <1>3, <1>7, <2>1, <2>2 DEF ReadsInv
<1>13. WindowInv'
  <2>1. ASSUME NEW j \in 1 .. (f + 1) PROVE flight'[j] = Before(current', f + 1 + 1 - j)
    <3>1. CASE j = f + 1
      <4>1. f + 1 + 1 - j = 1
        BY <1>4, <3>1
      <4> QED BY <1>4, <1>7, <1>8, <3>1, <4>1, BeforeNext
    <3>2. CASE j # f + 1
      <4>1. j \in 1 .. f /\ f + 1 + 1 - j = (f + 1 - j) + 1
        BY <1>4, <3>2
      <4> QED BY <1>4, <1>5, <1>6, <1>7, <1>8, <4>1, BeforeNext
    <3> QED BY <3>1, <3>2
  <2>2. ASSUME NEW j \in 1 .. l PROVE leaving'[j] = Before(current', f + 1 + l + 1 - j)
    <3>1. f + 1 + l + 1 - j = (f + l + 1 - j) + 1
      BY <1>4
    <3>2. leaving'[j] = Before(current, f + l + 1 - j) /\ f + l + 1 - j \in 1 .. (ReplyUrbs - 1)
      BY <1>5, <1>6, <1>7
    <3> QED BY <1>4, <1>7, <3>1, <3>2, BeforeNext
  <2>3. Len(leaving') = l /\ l <= MaxLag
    BY <1>1, <1>7 DEF WindowInv, l
  <2> QED BY <1>8, <2>1, <2>2, <2>3 DEF WindowInv
<1>14. AnswersInv'
  <2>1. ASSUME NEW j \in 1 .. (f + 1) PROVE buffer'[flight'[j]] = Len(answers) + j
    <3>1. CASE j = f + 1
      BY <1>4, <1>7, <1>8, <3>1
    <3>2. CASE j # f + 1
      <4>1. j \in 1 .. f
        BY <1>4, <3>2
      <4>2. flight'[j] = flight[j] /\ flight[j] # current /\ flight[j] \in ReplyIndexes
        BY <1>6, <1>8, <1>9, <4>1
      <4>3. buffer'[flight[j]] = buffer[flight[j]]
        BY <1>4, <1>7, <4>2
      <4> QED BY <1>5, <4>1, <4>2, <4>3
    <3> QED BY <3>1, <3>2
  <2> QED BY <1>1, <1>7, <1>8, <2>1 DEF AnswersInv, AnswersRight
<1>15. DataInv'
  BY <1>1, <1>3 DEF DataInv, DataBeforeEvent, HandleMemoryRead
<1> QED BY <1>11, <1>12, <1>13, <1>14, <1>15 DEF RequestsInv

(* The device reads the answer to its first request, ...                     *)
LEMMA TakeAnswerInv ==
  ASSUME RequestsInv, TakeAnswer
  PROVE  RequestsInv'
<1> DEFINE f == Len(flight)
           l == Len(leaving)
           a == Len(answers)
<1>1. RequestsTypeOK /\ ReadsInv /\ WindowInv /\ AnswersInv /\ DataInv
  BY DEF RequestsInv
<1>2. /\ flight \in Seq(ReplyIndexes) /\ flight # <<>>
      /\ leaving \in Seq(ReplyIndexes) /\ answers \in Seq(Nat)
      /\ buffer \in [ReplyIndexes -> Nat]
      /\ l \in Nat /\ a \in Nat /\ asked \in Nat
  <2>1. l \in Nat /\ a \in Nat /\ asked \in Nat
    BY <1>1, SentTyped
  <2> QED BY <1>1, <2>1 DEF RequestsTypeOK, TakeAnswer
<1>3. /\ flight' \in Seq(ReplyIndexes) /\ f \in Nat \ {0} /\ Len(flight') = f - 1
      /\ \A j \in 1 .. Len(flight') : flight'[j] = flight[j + 1]
      /\ Head(flight) = flight[1] /\ flight[1] \in ReplyIndexes
  BY <1>2, HeadAndTail DEF TakeAnswer
<1>4. /\ \A j \in 1 .. f : flight[j] = Before(current, f + 1 - j)
      /\ \A j \in 1 .. l : leaving[j] = Before(current, f + l + 1 - j)
      /\ \A j \in 1 .. f : buffer[flight[j]] = a + j
      /\ \A j \in 1 .. a : answers[j] = j
  BY <1>1 DEF WindowInv, AnswersInv, AnswersRight
<1>5. 1 \in 1 .. f /\ buffer[flight[1]] = a + 1
  BY <1>3, <1>4
<1>6. /\ answers' = Append(answers, a + 1) /\ leaving' = Append(leaving, flight[1])
      /\ l < MaxLag /\ UNCHANGED <<pipe, workQueue, memory, early, current, buffer, asked, moved>>
  BY <1>3, <1>5 DEF TakeAnswer
<1>7. /\ answers' \in Seq(Nat) /\ Len(answers') = a + 1 /\ answers'[a + 1] = a + 1
      /\ \A j \in 1 .. a : answers'[j] = answers[j]
  BY <1>2, <1>6
<1>8. /\ leaving' \in Seq(ReplyIndexes) /\ Len(leaving') = l + 1 /\ leaving'[l + 1] = flight[1]
      /\ \A j \in 1 .. l : leaving'[j] = leaving[j]
  BY <1>2, <1>3, <1>6
<1> HIDE DEF f, l, a
<1>9. RequestsTypeOK'
  BY <1>1, <1>3, <1>6, <1>7, <1>8, Zenon DEF RequestsTypeOK
<1>10. ReadsInv' /\ DataInv'
  <2>1. Sent' = Sent
    BY <1>6 DEF Sent
  <2>2. Len(answers') + Len(flight') = a + f /\ asked - Len(answers') <= asked - a
    BY <1>2, <1>3, <1>7
  <2>3. ReadsIn(Sent, Len(Sent), a + f, asked) /\ a + f <= asked /\ asked - a <= Outstanding
    BY <1>1 DEF ReadsInv, a, f
  <2>4. asked - Len(answers') <= Outstanding
    BY <1>2, <1>7, <2>2, <2>3
  <2> QED BY <1>1, <1>6, <2>1, <2>2, <2>3, <2>4 DEF ReadsInv, DataInv, DataBeforeEvent
<1>11. WindowInv'
  <2>1. ASSUME NEW j \in 1 .. Len(flight')
        PROVE  flight'[j] = Before(current, Len(flight') + 1 - j)
    <3>1. j + 1 \in 1 .. f /\ Len(flight') + 1 - j = f + 1 - (j + 1)
      BY <1>3
    <3> QED BY <1>3, <1>4, <3>1, Zenon
  <2>2. ASSUME NEW j \in 1 .. (l + 1)
        PROVE  leaving'[j] = Before(current, Len(flight') + (l + 1) + 1 - j)
    <3>1. Len(flight') + (l + 1) + 1 - j = f + l + 1 - j
      BY <1>2, <1>3
    <3>2. CASE j = l + 1
      <4>1. f + l + 1 - j = f + 1 - 1
        BY <1>2, <1>3, <3>2
      <4> QED BY <1>4, <1>5, <1>8, <3>1, <3>2, <4>1
    <3>3. CASE j # l + 1
      <4>1. j \in 1 .. l
        BY <1>2, <3>3
      <4> QED BY <1>4, <1>8, <3>1, <4>1
    <3> QED BY <3>2, <3>3
  <2>3. l + 1 <= MaxLag
    BY <1>2, <1>6
  <2> QED BY <1>6, <1>8, <2>1, <2>2, <2>3, SMTT(30) DEF WindowInv
<1>12. AnswersInv'
  <2>1. ASSUME NEW j \in 1 .. (a + 1) PROVE answers'[j] = j
    <3>1. CASE j = a + 1
      BY <1>7, <3>1
    <3>2. CASE j # a + 1
      <4>1. j \in 1 .. a
        BY <1>2, <3>2
      <4> QED BY <1>4, <1>7, <4>1
    <3> QED BY <3>1, <3>2
  <2>2. ASSUME NEW j \in 1 .. Len(flight') PROVE buffer[flight'[j]] = a + 1 + j
    <3>1. j + 1 \in 1 .. f /\ a + (j + 1) = a + 1 + j
      BY <1>2, <1>3
    <3> QED BY <1>3, <1>4, <3>1, Zenon
  <2> QED BY <1>6, <1>7, <2>1, <2>2, Zenon DEF AnswersInv, AnswersRight
<1> QED BY <1>9, <1>10, <1>11, <1>12 DEF RequestsInv

(* ... and the USB core gives the URB back.                                  *)
LEMMA ReplyDoneInv ==
  ASSUME RequestsInv, ReplyDone
  PROVE  RequestsInv'
<1> DEFINE f == Len(flight)
           l == Len(leaving)
<1>1. RequestsTypeOK /\ ReadsInv /\ WindowInv /\ AnswersInv /\ DataInv
  BY DEF RequestsInv
<1>2. /\ leaving' \in Seq(ReplyIndexes) /\ l \in Nat \ {0} /\ Len(leaving') = l - 1
      /\ \A j \in 1 .. Len(leaving') : leaving'[j] = leaving[j + 1]
  BY <1>1, HeadAndTail DEF RequestsTypeOK, ReplyDone
<1>3. UNCHANGED <<pipe, workQueue, memory, early, current, buffer, flight, asked, answers, moved>>
  BY DEF ReplyDone
<1>4. f \in Nat
  BY <1>1 DEF RequestsTypeOK
<1>5. /\ \A j \in 1 .. l : leaving[j] = Before(current, f + l + 1 - j) /\ l <= MaxLag
      /\ \A j \in 1 .. f : flight[j] = Before(current, f + 1 - j)
  BY <1>1, Zenon DEF WindowInv
<1> HIDE DEF f, l
<1>6. ASSUME NEW j \in 1 .. Len(leaving')
      PROVE  leaving'[j] = Before(current, f + Len(leaving') + 1 - j)
  <2>1. j + 1 \in 1 .. l /\ f + Len(leaving') + 1 - j = f + l + 1 - (j + 1)
    BY <1>2, <1>4
  <2> QED BY <1>2, <1>5, <2>1, Zenon
<1>7. Len(leaving') <= MaxLag
  BY <1>2, <1>5
<1>8. WindowInv'
  BY <1>3, <1>5, <1>6, <1>7 DEF WindowInv, f
<1>9. RequestsTypeOK' /\ ReadsInv' /\ AnswersInv' /\ DataInv'
  BY <1>1, <1>2, <1>3, SMTT(30) DEF RequestsTypeOK, ReadsInv, AnswersInv, AnswersRight, DataInv,
                          DataBeforeEvent, Sent
<1> QED BY <1>8, <1>9 DEF RequestsInv

(* The inductive invariant.                                                  *)
THEOREM RequestsInvariance ==
  ASSUME Outstanding + MaxLag <= ReplyUrbs, EventPipe = "bulk"
  PROVE  RequestsSpec => []RequestsInv
<1>1. RequestsInv /\ [RequestsNext]_requestVars => RequestsInv'
  <2> SUFFICES ASSUME RequestsInv, [RequestsNext]_requestVars PROVE RequestsInv'
    OBVIOUS
  <2>1. CASE UNCHANGED requestVars
    BY <2>1, SMTT(30) DEF requestVars, RequestsInv, RequestsTypeOK, ReadsInv, WindowInv, AnswersInv,
                AnswersRight, DataInv, DataBeforeEvent, Sent
  <2> QED BY <2>1, TransferInv, ReadInv, ReceiveInv, HandleWriteInv, HandleEventInv,
             HandleReadInv, TakeAnswerInv, ReplyDoneInv DEF RequestsNext
<1> QED BY <1>1, InitRequests, PTL DEF RequestsSpec

(* Every answer the device gets is for the request it belongs to, and the    *)
(* data of a transfer is in memory when its event is handled.  The handler   *)
(* MESSAGE_HandleMessage_EMBEDDED_MEMORY_READ_COMPLETION may take the reply  *)
(* URBs in turn without a look whether they are free as long as the requests *)
(* outstanding and the URBs on their way back are no more than there are     *)
(* URBs; the one work queue keeps data before events as long as they come on *)
(* one pipe.                                                                 *)
THEOREM RequestsRightHolds ==
  ASSUME Outstanding + MaxLag <= ReplyUrbs, EventPipe = "bulk"
  PROVE  RequestsSpec => []RequestsRight
<1>1. RequestsInv => RequestsRight
  BY DEF RequestsInv, AnswersInv, DataInv, RequestsRight
<1> QED BY <1>1, RequestsInvariance, PTL
=============================================================================
