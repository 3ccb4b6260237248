------------------------ MODULE RegisterAccessProofs ------------------------
(***************************************************************************)
(* Proofs about RegisterAccess, for any number of clients and calls.       *)
(***************************************************************************)
EXTENDS RegisterAccess, SequenceTheorems, TLAPS

(* The state has its types initially ...                                     *)
LEMMA InitType == Init => TypeOK
BY RegisterAssumption
DEF RegisterAssumption, Init, TypeOK, Locations, Inside, Ops, Results, NoResult, NoMessage, Messages, Errors

UrbContexts == [state : {"idle", "flight"}, num : Nat, event : Nat]

(* ... and up() keeps the types of what it changes.                          *)
LEMMA UpType ==
  ASSUME TypeOK, NEW c \in Clients, Up(c)
  PROVE  pc' \in [Clients -> Locations] /\ sem' \in Nat /\ semq' \in Seq(Clients)
<1>1. /\ pc \in [Clients -> Locations] /\ sem \in Nat /\ semq \in Seq(Clients)
      /\ "idle" \in Locations /\ "submit" \in Locations
  BY DEF TypeOK, Locations, Inside
<1>2. CASE semq = <<>>
  BY <1>1, <1>2 DEF Up
<1>3. CASE semq # <<>>
  <2>1. Head(semq) \in Clients /\ Tail(semq) \in Seq(Clients)
    BY <1>1, <1>3
  <2> QED BY <1>1, <1>3, <2>1 DEF Up
<1> QED BY <1>2, <1>3

(* Every step of the register path keeps the types.                          *)
LEMMA NextType == TypeOK /\ [Next]_vars => TypeOK'
<1> SUFFICES ASSUME TypeOK, [Next]_vars PROVE TypeOK'
  OBVIOUS
<1> USE RegisterAssumption DEF RegisterAssumption
<1>s. semq \in Seq(Clients) /\ workq \in Seq(Messages)
  BY DEF TypeOK
<1>u. urb \in [Ops -> UrbContexts]
  BY DEF TypeOK, UrbContexts
<1>r. NoResult \in Results /\ Failed \in Results
  BY DEF NoResult, Failed, Results
<1>1. ASSUME NEW c \in Clients, NEW k \in Ops, Call(c, k) PROVE TypeOK'
  <2>1. res' \in [Clients -> Results]
    <3>1. res \in [Clients -> Results]
      BY DEF TypeOK
    <3> QED BY <1>1, <1>r, <3>1 DEF Call
  <2>2. portWork' \in Nat
    BY <1>1 DEF TypeOK, Call
  <2>3. pc' \in [Clients -> Locations]
    BY <1>1, Zenon DEF TypeOK, Call, Locations
  <2>4. op' \in [Clients -> Ops] /\ req' \in [Clients -> Nat] /\ issued' \in Nat
    BY <1>1 DEF TypeOK, Call
  <2> QED BY <1>1, <2>1, <2>2, <2>3, <2>4, SMTT(30) DEF TypeOK, Call
<1>2. ASSUME NEW c \in Clients, Down(c) PROVE TypeOK'
  <2>1. Append(semq, c) \in Seq(Clients)
    BY <1>s
  <2>2. semq' \in Seq(Clients)
    BY <1>2, <1>s, <2>1, SMTT(30) DEF Down
  <2>3. sem' \in Nat
    BY <1>2 DEF Down, TypeOK
  <2> QED BY <1>2, <2>2, <2>3, Zenon DEF TypeOK, Down, clientVars, deviceVars, Locations, Inside
<1>3. ASSUME NEW c \in Clients, DownInterrupted(c) PROVE TypeOK'
  <2>1. PICK i \in 1..Len(semq) :
          semq' = SubSeq(semq, 1, i - 1) \o SubSeq(semq, i + 1, Len(semq))
    BY <1>3, Zenon DEF DownInterrupted
  <2>2. /\ SubSeq(semq, 1, i - 1) \in Seq(Clients)
        /\ SubSeq(semq, i + 1, Len(semq)) \in Seq(Clients)
    BY <1>s
  <2>3. semq' \in Seq(Clients)
    BY <2>1, <2>2
  <2> QED BY <1>3, <2>3, Zenon DEF TypeOK, DownInterrupted, clientVars, deviceVars, Locations, Inside
<1>4. ASSUME NEW c \in Clients, Submit(c) PROVE TypeOK'
  <2>1. op[c] \in Ops /\ req[c] \in Nat
    BY DEF TypeOK
  <2>4. urb' \in [Ops -> UrbContexts]
    <3>1. CASE urb' = [urb EXCEPT ![op[c]] = [state |-> "flight", num |-> req[c], event |-> 0]]
      BY <1>u, <2>1, <3>1 DEF UrbContexts
    <3>2. CASE urb' = [urb EXCEPT ![op[c]].num = req[c], ![op[c]].event = 0]
      BY <1>u, <2>1, <3>2 DEF UrbContexts
    <3> QED BY <1>4, <3>1, <3>2 DEF Submit
  <2>5. pc' \in [Clients -> Locations] /\ regEvent' \in Nat
    BY <1>4, Zenon DEF TypeOK, Submit, Locations, Inside
  <2> QED BY <1>4, <2>4, <2>5, Zenon DEF TypeOK, Submit, clientVars, deviceVars, UrbContexts
<1>5. ASSUME NEW c \in Clients, WaitCheck(c) PROVE TypeOK'
  BY <1>5 DEF TypeOK, WaitCheck, clientVars, deviceVars, Locations, Inside
<1>6. ASSUME NEW c \in Clients, UrbEventWakes(c) PROVE TypeOK'
  <2>1. op[c] \in Ops
    BY DEF TypeOK
  <2>2. urb' \in [Ops -> UrbContexts]
    BY <1>6, <1>u, <2>1 DEF UrbEventWakes, UrbContexts
  <2>3. pc' \in [Clients -> Locations]
    BY <1>6 DEF TypeOK, UrbEventWakes, Locations, Inside
  <2> QED BY <1>6, <2>2, <2>3, Zenon DEF TypeOK, UrbEventWakes, clientVars, deviceVars, UrbContexts
<1>7. ASSUME NEW c \in Clients, ReadEventWakes(c) PROVE TypeOK'
  BY <1>7 DEF TypeOK, ReadEventWakes, clientVars, deviceVars, Locations, Inside
<1>8. ASSUME NEW c \in Clients, WaitFails(c) PROVE TypeOK'
  BY <1>8 DEF TypeOK, WaitFails, clientVars, deviceVars, Locations, Inside
<1>9. ASSUME NEW c \in Clients, Return(c) PROVE TypeOK'
  BY <1>9, UpType, Zenon DEF TypeOK, Return, deviceVars, Results
<1>10. ASSUME NEW c \in Clients, Fail(c) PROVE TypeOK'
  BY <1>10, UpType, Zenon DEF TypeOK, Fail, deviceVars, Results, Failed, Errors
<1>11. ASSUME NEW k \in Ops, UrbCompletes(k) PROVE TypeOK'
  <2>1. urb' \in [Ops -> UrbContexts]
    <3>1. urb[k] \in UrbContexts
      BY <1>u
    <3>2. CASE ErrorCheck
      <4>0. urb[k].event + 1 \in Nat /\ urb[k].num \in Nat
        BY <3>1 DEF UrbContexts
      <4>1. [urb[k] EXCEPT !.state = "idle", !.event = @ + 1] \in UrbContexts
        BY <3>1, <4>0, Zenon DEF UrbContexts
      <4>2. urb' = [urb EXCEPT ![k] = [urb[k] EXCEPT !.state = "idle", !.event = @ + 1]]
        BY <1>11, <1>u, <3>2, Zenon DEF UrbCompletes
      <4> QED BY <1>u, <4>1, <4>2
    <3>3. CASE ~ErrorCheck
      <4>1. [urb[k] EXCEPT !.state = "idle", !.event = @] \in UrbContexts
        BY <3>1, Zenon DEF UrbContexts
      <4>2. urb' = [urb EXCEPT ![k] = [urb[k] EXCEPT !.state = "idle", !.event = @]]
        BY <1>11, <1>u, <3>3, Zenon DEF UrbCompletes
      <4> QED BY <1>u, <4>1, <4>2
    <3> QED BY <3>2, <3>3
  <2>2. [type |-> "answer", num |-> urb[k].num] \in Messages
    BY <1>u DEF UrbContexts, Messages
  <2>3. wire' \subseteq Messages
    BY <1>11, <2>2 DEF TypeOK, UrbCompletes
  <2> QED BY <1>11, <2>1, <2>3, Zenon DEF TypeOK, UrbCompletes, clientVars, UrbContexts
<1>12. CASE DeviceSendsEvent
  BY <1>12 DEF TypeOK, DeviceSendsEvent, clientVars, Messages, Errors
<1>13. ASSUME NEW m \in wire, GetMessage(m) PROVE TypeOK'
  <2>1. m \in Messages /\ wire' \subseteq Messages
    BY <1>13 DEF TypeOK, GetMessage
  <2>2. Append(workq, m) \in Seq(Messages)
    BY <1>s, <2>1
  <2>3. workq' \in Seq(Messages)
    BY <1>13, <1>s, <2>2, SMTT(30) DEF GetMessage
  <2>4. rx' \in Nat
    BY <1>13 DEF TypeOK, GetMessage
  <2> QED BY <1>13, <2>1, <2>3, <2>4 DEF TypeOK, GetMessage, clientVars
<1>14. ASSUME NEW m \in wire, GetMessageFails(m) PROVE TypeOK'
  BY <1>14 DEF TypeOK, GetMessageFails, clientVars
<1>15. CASE Parsing
  <2>1. Head(workq) \in Messages /\ Tail(workq) \in Seq(Messages)
    BY <1>15 DEF Parsing, TypeOK
  <2> QED BY <1>15, <2>1, Zenon DEF TypeOK, Parsing, clientVars, Messages, NoMessage
<1>16. CASE StoreAnswer
  BY <1>16, Zenon DEF TypeOK, StoreAnswer, clientVars
<1>17. CASE NotifyReader
  BY <1>17 DEF TypeOK, NotifyReader, clientVars, NoMessage
<1>18. CASE HandleEvent
  BY <1>18 DEF TypeOK, HandleEvent, clientVars, NoMessage
<1>19. CASE DoorbellFails
  BY <1>19 DEF TypeOK, DoorbellFails, clientVars, deviceVars, Errors
<1>20. CASE Unplug
  BY <1>20 DEF TypeOK, Unplug, clientVars, deviceVars, Errors
<1>21. CASE UNCHANGED vars
  BY <1>21 DEF TypeOK, vars
<1> QED
  BY <1>1, <1>2, <1>3, <1>4, <1>5, <1>6, <1>7, <1>8, <1>9, <1>10, <1>11,
     <1>12, <1>13, <1>14, <1>15, <1>16, <1>17, <1>18, <1>19, <1>20, <1>21
  DEF Next, ClientStep, BusStep, WorkerStep

(* Type correctness of the register access path.                             *)
THEOREM TypeCorrect == Spec => []TypeOK
BY InitType, NextType, PTL DEF Spec

-----------------------------------------------------------------------------
(* Without signals, the semaphore is a lock.                                 *)

(* up() hands the lock to the first sleeper, or leaves it free.              *)
LEMMA UpLock ==
  ASSUME TypeOK, LockInv, NEW c \in Clients, pc[c] \in {"copy", "done", "fail"},
         Up(c), op' = op
  PROVE  LockInv'
<1>1. /\ pc \in [Clients -> Locations] /\ semq \in Seq(Clients) /\ pc[c] \in Inside
      /\ \A d \in Clients : pc[d] \in Inside => d = c
  BY DEF TypeOK, LockInv, LockedByOne, Inside
<1>2. CASE semq = <<>>
  <2>1. pc' = [pc EXCEPT ![c] = "idle"] /\ sem' = sem + 1 /\ semq' = semq
    BY <1>2 DEF Up
  <2>2. sem = 0
    BY <1>1 DEF LockInv
  <2>3. \A d \in Clients : pc'[d] \notin Inside
    BY <1>1, <2>1 DEF Inside
  <2> QED BY <1>2, <2>1, <2>2, <2>3 DEF LockInv, LockedByOne, Inside
<1>3. CASE semq # <<>>
  <2> DEFINE h == Head(semq)
  <2>1. /\ sem' = sem /\ semq' = Tail(semq)
        /\ pc' = [pc EXCEPT ![c] = "idle", ![h] = "submit"]
    BY <1>3 DEF Up
  <2>2. h \in Clients /\ h = semq[1] /\ 1 \in 1..Len(semq)
    BY <1>1, <1>3
  <2>3. pc[h] = "blocked" /\ h # c
    BY <1>1, <2>2 DEF LockInv, Inside
  <2>4. /\ Len(semq') = Len(semq) - 1
        /\ \A i \in 1..Len(semq') : semq'[i] = semq[i + 1] /\ i + 1 \in 1..Len(semq)
    BY <1>1, <1>3, <2>1
  <2>5. \A i \in 1..Len(semq') : semq'[i] # h /\ semq'[i] # c /\ semq'[i] \in Clients
    BY <1>1, <2>2, <2>3, <2>4 DEF LockInv, Inside
  <2>6. \A i \in 1..Len(semq') : pc'[semq'[i]] = "blocked"
    BY <1>1, <2>1, <2>4, <2>5 DEF LockInv
  <2>7. \A i, j \in 1..Len(semq') : semq'[i] = semq'[j] => i = j
    <3> TAKE i \in 1..Len(semq'), j \in 1..Len(semq')
    <3> HAVE semq'[i] = semq'[j]
    <3>1. i + 1 = j + 1
      BY <2>4 DEF LockInv
    <3>2. i \in Int /\ j \in Int
      OBVIOUS
    <3> QED BY <3>1, <3>2
  <2>8. pc'[h] = "submit" /\ \A d \in Clients : d # h => pc'[d] \notin Inside
    BY <1>1, <2>1, <2>2, <2>3 DEF Inside
  <2>9. sem' = 0
    BY <1>1, <2>1 DEF LockInv
  <2> QED BY <2>2, <2>6, <2>7, <2>8, <2>9 DEF LockInv, LockedByOne, Inside
<1> QED BY <1>2, <1>3

(* A step of one thread that neither enters nor leaves the locked region.    *)
LEMMA InsideLock ==
  ASSUME TypeOK, LockInv, NEW c \in Clients, NEW l \in Inside,
         pc[c] \in Inside, pc' = [pc EXCEPT ![c] = l], UNCHANGED <<op, sem, semq>>,
         l \in {"check2", "wait2", "copy"} => op[c] = "read",
         l = "done" => op[c] = "write"
  PROVE  LockInv'
<1>1. /\ pc \in [Clients -> Locations] /\ semq \in Seq(Clients)
      /\ \A i \in 1..Len(semq) : semq[i] \in Clients
  <2>1. pc \in [Clients -> Locations] /\ semq \in Seq(Clients)
    BY DEF TypeOK
  <2> QED BY <2>1, ElementOfSeq
<1>2. \A d \in Clients : pc'[d] = IF d = c THEN l ELSE pc[d]
  BY <1>1
<1>3. \A i \in 1..Len(semq) : semq[i] # c
  BY <1>1 DEF LockInv, Inside
<1> QED BY <1>1, <1>2, <1>3 DEF LockInv, LockedByOne, Inside

(* No step breaks the invariant on the semaphore of a register access.       *)
LEMMA NextLock ==
  ASSUME Interruptible = {}, TypeOK, LockInv, [Next]_vars
  PROVE  LockInv'
<1>1. /\ pc \in [Clients -> Locations] /\ semq \in Seq(Clients) /\ sem \in Nat
      /\ op \in [Clients -> Ops]
      /\ \A i \in 1..Len(semq) : semq[i] \in Clients
  BY DEF TypeOK
<1>2. ASSUME NEW c \in Clients, NEW k \in Ops, Call(c, k) PROVE LockInv'
  <2>1. pc[c] = "idle" /\ (pc' = pc \/ pc' = [pc EXCEPT ![c] = "down"])
        /\ op' = [op EXCEPT ![c] = k] /\ UNCHANGED <<sem, semq>>
    BY <1>2 DEF Call
  <2>2. \A i \in 1..Len(semq) : semq[i] # c
    BY <2>1 DEF LockInv
  <2> QED BY <1>1, <2>1, <2>2 DEF LockInv, LockedByOne, Inside
<1>3. ASSUME NEW c \in Clients, Down(c) PROVE LockInv'
  <2>1. CASE sem > 0
    <3>1. sem = 1 /\ sem' = 0 /\ semq' = semq /\ pc' = [pc EXCEPT ![c] = "submit"]
          /\ op' = op /\ pc[c] = "down"
      BY <1>3, <2>1 DEF Down, LockInv, clientVars
    <3>2. \A d \in Clients : pc[d] \notin Inside
      BY <3>1 DEF LockInv
    <3>3. \A i \in 1..Len(semq) : semq[i] # c
      BY <3>1 DEF LockInv
    <3> QED BY <1>1, <3>1, <3>2, <3>3 DEF LockInv, LockedByOne, Inside
  <2>2. CASE sem = 0
    <3>1. sem' = sem /\ semq' = Append(semq, c) /\ pc' = [pc EXCEPT ![c] = "blocked"]
          /\ op' = op /\ pc[c] = "down"
      BY <1>3, <2>2 DEF Down, clientVars
    <3>2. \A i \in 1..Len(semq) : semq[i] # c
      BY <3>1 DEF LockInv
    <3>3. /\ Len(semq') = Len(semq) + 1 /\ semq'[Len(semq) + 1] = c
          /\ \A i \in 1..Len(semq) : semq'[i] = semq[i]
      BY <1>1, <3>1
    <3>4. \A i \in 1..Len(semq') : pc'[semq'[i]] = "blocked"
      BY <1>1, <3>1, <3>2, <3>3 DEF LockInv
    <3>5. \A i, j \in 1..Len(semq') : semq'[i] = semq'[j] => i = j
      BY <1>1, <3>2, <3>3 DEF LockInv
    <3> QED BY <1>1, <2>2, <3>1, <3>4, <3>5 DEF LockInv, LockedByOne, Inside
  <2> QED BY <1>3, <2>1, <2>2 DEF Down
<1>4. ASSUME NEW c \in Clients, Submit(c) PROVE LockInv'
  BY <1>4, InsideLock DEF Submit, clientVars, Inside
<1>5. ASSUME NEW c \in Clients, WaitCheck(c) PROVE LockInv'
  <2>1. PICK l \in {"fail", "wait1", "wait2"} :
          pc' = [pc EXCEPT ![c] = l] /\ (l = "wait2" => pc[c] = "check2")
    BY <1>5, Zenon DEF WaitCheck
  <2> QED BY <1>5, <2>1, InsideLock, Zenon DEF WaitCheck, clientVars, Inside, LockInv
<1>6. ASSUME NEW c \in Clients, UrbEventWakes(c) PROVE LockInv'
  <2>1. CASE op[c] = "read"
    BY <1>6, <2>1, InsideLock, Zenon DEF UrbEventWakes, clientVars, Inside
  <2>2. CASE op[c] = "write"
    BY <1>6, <2>2, InsideLock, Zenon DEF UrbEventWakes, clientVars, Inside
  <2> QED BY <1>1, <2>1, <2>2 DEF Ops
<1>7. ASSUME NEW c \in Clients, ReadEventWakes(c) PROVE LockInv'
  BY <1>7, InsideLock, Zenon DEF ReadEventWakes, clientVars, Inside, LockInv
<1>8. ASSUME NEW c \in Clients, WaitFails(c) PROVE LockInv'
  BY <1>8, InsideLock, Zenon DEF WaitFails, clientVars, Inside
<1>9. ASSUME NEW c \in Clients, Return(c) \/ Fail(c) PROVE LockInv'
  BY <1>9, UpLock DEF Return, Fail
<1>10. CASE UNCHANGED <<pc, op, sem, semq>>
  BY <1>10 DEF LockInv, LockedByOne
<1> QED
  BY <1>2, <1>3, <1>4, <1>5, <1>6, <1>7, <1>8, <1>9, <1>10, Zenon
  DEF Next, ClientStep, BusStep, WorkerStep, DownInterrupted, UrbCompletes,
      GetMessage, DeviceSendsEvent, GetMessageFails, Parsing, StoreAnswer,
      NotifyReader, HandleEvent, DoorbellFails, Unplug, clientVars, vars

-----------------------------------------------------------------------------
(* A read command is in one place, and exists only for the thread inside.    *)

(* No trace of a read command anywhere.                                      *)
Quiet == ~InUrb /\ ~InWire /\ ~InQueue /\ ~InHandler /\ ~InEvent

Link ==
  /\ OnePlace
  /\ (\A c \in Clients : ~Reading(c)) => Quiet
  /\ (\A c \in Clients : ~Writing(c)) => urb["write"].state = "idle"
  /\ \A c \in Clients : pc[c] \in {"check2", "wait2"} => ~InUrb

(* What a thread that has the lock and has not submitted yet may rely on.    *)
LEMMA SubmitterAlone ==
  ASSUME LockInv, Link, NEW c \in Clients, pc[c] \in {"submit", "copy", "done"}
  PROVE  Quiet /\ (urb["write"].state = "idle") /\ \A d \in Clients : d # c => pc[d] \notin Inside
<1>1. \A d \in Clients : d # c => pc[d] \notin Inside
  BY DEF LockInv, LockedByOne, Inside
<1>2. \A d \in Clients : ~Reading(d) /\ ~Writing(d)
  BY <1>1 DEF Reading, Writing, Inside
<1> QED BY <1>1, <1>2 DEF Link

(* Steps of the threads ...                                                  *)
LEMMA ClientLink ==
  ASSUME TypeOK, LockInv, LinkInv, NEW c \in Clients, ClientStep(c),
         "register" \notin errors'
  PROVE  Link'
<1>1. /\ pc \in [Clients -> Locations] /\ op \in [Clients -> Ops] /\ c \in Clients
      /\ urb \in [Ops -> UrbContexts] /\ regEvent \in Nat
      /\ op[c] \in Ops /\ "read" \in Ops /\ "write" \in Ops
  BY DEF TypeOK, UrbContexts, Ops
<1>2. "register" \notin errors
  BY DEF ClientStep, Down, Submit, WaitCheck, UrbEventWakes, ReadEventWakes, WaitFails, Return, Fail
<1>3. Link
  BY <1>2 DEF LinkInv, Link, Quiet
<1>4. CASE Down(c)
  <2>1. /\ UNCHANGED <<op, urb, regEvent, wire, workq, wk>> /\ pc[c] = "down"
        /\ pc' = [pc EXCEPT ![c] = "submit"] \/ pc' = [pc EXCEPT ![c] = "blocked"]
    BY <1>4 DEF Down, clientVars, deviceVars
  <2> QED BY <1>1, <1>3, <2>1 DEF Link, OnePlace, Reading, Writing, Quiet, InUrb, InWire, InQueue, InHandler, InEvent
<1>5. CASE Submit(c)
  <2>1. UNCHANGED <<op, wire, workq, wk>> /\ pc[c] = "submit"
    BY <1>5 DEF Submit, clientVars, deviceVars
  <2>2. Quiet /\ urb["write"].state = "idle" /\ urb["read"].state = "idle"
    BY <1>1, <1>3, <2>1, SubmitterAlone DEF Quiet, InUrb, UrbContexts
  <2>3. regEvent' = regEvent \/ regEvent' = 0
    BY <1>5 DEF Submit
  <2>4. /\ pc' = [pc EXCEPT ![c] = "check1"] \/ pc' = [pc EXCEPT ![c] = "fail"]
        /\ \A k \in Ops : k # op[c] => urb'[k] = urb[k]
    BY <1>1, <1>5 DEF Submit
  <2>5. OnePlace'
    BY <1>1, <2>1, <2>2, <2>3 DEF OnePlace, Quiet, InUrb, InWire, InQueue, InHandler, InEvent
  <2>6. op[c] = "read" => Reading(c)'
    BY <1>1, <2>1, <2>4 DEF Reading
  <2>7. op[c] = "write" => Writing(c)'
    BY <1>1, <2>1, <2>4 DEF Writing
  <2>8. op[c] = "write" => Quiet'
    BY <1>1, <2>1, <2>2, <2>3, <2>4 DEF Quiet, InUrb, InWire, InQueue, InHandler, InEvent
  <2>9. op[c] = "read" => urb'["write"].state = "idle"
    BY <1>1, <2>2, <2>4
  <2>10. \A d \in Clients : pc'[d] \notin {"check2", "wait2"}
    BY <1>1, <1>3, <2>1, <2>4, SubmitterAlone, SMTT(30) DEF Inside
  <2> QED BY <1>1, <2>5, <2>6, <2>7, <2>8, <2>9, <2>10 DEF Link, Ops
<1>6. CASE WaitCheck(c)
  <2>1. /\ UNCHANGED <<op, urb, regEvent, wire, workq, wk>>
        /\ \/ pc[c] = "check1" /\ pc' = [pc EXCEPT ![c] = "wait1"]
           \/ pc[c] = "check2" /\ pc' = [pc EXCEPT ![c] = "wait2"]
           \/ pc[c] \in {"check1", "check2"} /\ pc' = [pc EXCEPT ![c] = "fail"]
    BY <1>6, Zenon DEF WaitCheck, clientVars, deviceVars
  <2>2. pc[c] = "check2" => op[c] = "read"
    BY SMTT(30) DEF LockInv
  <2> QED BY <1>1, <1>3, <2>1, <2>2 DEF Link, OnePlace, Reading, Writing, Quiet, InUrb, InWire, InQueue, InHandler, InEvent
<1>7. CASE UrbEventWakes(c)
  <2>1. /\ UNCHANGED <<op, regEvent, wire, workq, wk>> /\ pc[c] = "wait1"
        /\ pc' = [pc EXCEPT ![c] = IF op[c] = "read" THEN "check2" ELSE "done"]
        /\ urb[op[c]].event > 0
    BY <1>7 DEF UrbEventWakes, clientVars, deviceVars
  <2>2. urb[op[c]].state = "idle"
    BY <1>1, <2>1 DEF LinkInv
  <2>3. \A k \in Ops : urb'[k].state = urb[k].state
    BY <1>1, <1>7, SMTT(30) DEF UrbEventWakes, UrbContexts
  <2>4. OnePlace' /\ (Quiet => Quiet') /\ (InUrb' <=> InUrb)
    BY <1>1, <1>3, <2>1, <2>3 DEF Link, OnePlace, Quiet, InUrb, InWire, InQueue, InHandler, InEvent
  <2>5. \A d \in Clients : (Reading(d) <=> Reading(d)') /\ (d # c => (Writing(d) <=> Writing(d)'))
    BY <1>1, <2>1 DEF Reading, Writing
  <2>6. op[c] = "write" => ~Writing(c)' /\ urb'["write"].state = "idle"
    BY <1>1, <2>1, <2>2, <2>3 DEF Writing
  <2>7. op[c] = "read" => ~Writing(c) /\ ~Writing(c)' /\ ~InUrb
    BY <1>1, <2>1, <2>2 DEF Writing, InUrb
  <2>8. \A d \in Clients : pc'[d] \in {"check2", "wait2"} => ~InUrb'
    BY <1>1, <1>3, <2>1, <2>4, <2>7 DEF Link
  <2>9. (\A d \in Clients : ~Writing(d)') => urb'["write"].state = "idle"
    BY <1>1, <1>3, <2>3, <2>5, <2>6, <2>7 DEF Link, Ops
  <2> QED BY <1>3, <2>4, <2>5, <2>8, <2>9 DEF Link
<1>8. CASE ReadEventWakes(c)
  <2>1. /\ UNCHANGED <<op, urb, wire, workq, wk>> /\ pc[c] = "wait2"
        /\ pc' = [pc EXCEPT ![c] = "copy"] /\ regEvent > 0 /\ regEvent' = regEvent - 1
    BY <1>8 DEF ReadEventWakes, clientVars, deviceVars
  <2>2. Quiet' /\ OnePlace'
    BY <1>1, <1>3, <2>1 DEF Link, OnePlace, Quiet, InUrb, InWire, InQueue, InHandler, InEvent
  <2>3. \A d \in Clients : Writing(d)' <=> Writing(d)
    BY <1>1, <2>1 DEF Writing
  <2> QED BY <1>1, <1>3, <2>1, <2>2, <2>3 DEF Link, Quiet
<1>9. CASE WaitFails(c)
  <2>1. /\ UNCHANGED <<op, urb, regEvent, wire, workq, wk>> /\ pc[c] \in {"wait1", "wait2"}
        /\ pc' = [pc EXCEPT ![c] = "fail"]
    BY <1>9 DEF WaitFails, clientVars, deviceVars
  <2>2. pc[c] = "wait2" => op[c] = "read"
    BY DEF LockInv
  <2> QED BY <1>1, <1>3, <2>1, <2>2 DEF Link, OnePlace, Reading, Writing, Quiet, InUrb, InWire, InQueue, InHandler, InEvent
<1>10. CASE Return(c)
  <2>1. /\ UNCHANGED <<op, urb, regEvent, wire, workq, wk>> /\ pc[c] \in {"copy", "done"} /\ Up(c)
    BY <1>10 DEF Return, deviceVars
  <2>2. Quiet /\ urb["write"].state = "idle" /\ \A d \in Clients : d # c => pc[d] \notin Inside
    BY <1>3, <2>1, SubmitterAlone
  <2>3. \A d \in Clients : pc'[d] \notin {"check2", "wait2"}
    <3>0. \A d \in Clients : d # c => pc[d] \notin {"check2", "wait2"}
      BY <2>2 DEF Inside
    <3>1. pc' = [pc EXCEPT ![c] = "idle"] \/ pc' = [pc EXCEPT ![c] = "idle", ![Head(semq)] = "submit"]
      BY <2>1 DEF Up
    <3> QED BY <1>1, <3>0, <3>1
  <2> QED BY <1>3, <2>1, <2>2, <2>3 DEF Link, OnePlace, Quiet, InUrb, InWire, InQueue, InHandler, InEvent
<1>11. CASE Fail(c)
  BY <1>11 DEF Fail
<1> QED BY <1>4, <1>5, <1>6, <1>7, <1>8, <1>9, <1>10, <1>11 DEF ClientStep

(* ... of the link and the work queue ...                                    *)
LinkStep ==
  BusStep \/ WorkerStep \/ DeviceSendsEvent \/ \E m \in wire : GetMessageFails(m)

(* What the bus, the worker and the device do keeps the link from a request  *)
(* to its answer.                                                            *)
LEMMA DeviceLink ==
  ASSUME TypeOK, LockInv, LinkInv, "register" \notin errors',
         LinkStep
  PROVE  Link'
<1>1. /\ urb \in [Ops -> UrbContexts] /\ regEvent \in Nat /\ wire \subseteq Messages
      /\ workq \in Seq(Messages) /\ "read" \in Ops /\ "write" \in Ops
  BY DEF TypeOK, UrbContexts, Ops
<1>2. /\ UNCHANGED <<pc, op>> /\ "register" \notin errors
  BY Zenon DEF LinkStep, BusStep, WorkerStep, DeviceSendsEvent, GetMessageFails, UrbCompletes,
         GetMessage, Parsing, StoreAnswer, NotifyReader, HandleEvent, clientVars
<1>3. Link
  BY <1>2 DEF LinkInv, Link, Quiet
<1>4. (\A c \in Clients : Reading(c)' <=> Reading(c)) /\ (\A c \in Clients : Writing(c)' <=> Writing(c))
  BY <1>2 DEF Reading, Writing
<1> DEFINE Kept == /\ OnePlace' /\ (Quiet => Quiet') /\ (InUrb' => InUrb)
                   /\ urb'["write"].state = "idle" \/ urb'["write"] = urb["write"]
<1>5. SUFFICES Kept
  BY <1>1, <1>2, <1>3, <1>4 DEF Link
<1> USE DEF Quiet, InUrb, InWire, InQueue, InHandler, InEvent
<1>6. ASSUME NEW k \in Ops, UrbCompletes(k) PROVE Kept
  <2>1. /\ UNCHANGED <<regEvent, workq, wk>> /\ urb[k].state = "flight" /\ urb'[k].state = "idle"
        /\ \A j \in Ops : j # k => urb'[j] = urb[j]
    BY <1>1, <1>6 DEF UrbCompletes, UrbContexts
  <2>2. wire' = wire \/ (k = "read" /\ wire' = wire \cup {[type |-> "answer", num |-> urb[k].num]})
    BY <1>6 DEF UrbCompletes
  <2>3. CASE k = "read"
    BY <1>1, <1>3, <2>1, <2>2, <2>3, SMTT(30) DEF Link, OnePlace
  <2>4. CASE k # "read"
    BY <1>1, <1>3, <2>1, <2>2, <2>4 DEF Link, OnePlace, Ops
  <2> QED BY <2>3, <2>4
<1>7. ASSUME NEW m \in wire, GetMessage(m) PROVE Kept
  <2>1. /\ UNCHANGED <<regEvent, urb, wk>> /\ wire' = wire \ {m}
        /\ workq' = Append(workq, m) \/ workq' = workq
    BY <1>7 DEF GetMessage
  <2>2. CASE workq' = workq
    BY <1>3, <2>1, <2>2 DEF Link, OnePlace
  <2>3. CASE workq' = Append(workq, m)
    <3>1. /\ Len(workq') = Len(workq) + 1 /\ workq'[Len(workq) + 1] = m
          /\ Len(workq) \in Nat
          /\ \A i \in 1..Len(workq) : workq'[i] = workq[i]
      BY <1>1, <2>3
    <3>2. InQueue' <=> InQueue \/ m.type = "answer"
      BY <3>1
    <3>3. InWire' => InWire /\ m.type # "answer"
      BY <1>3, <2>1 DEF Link, OnePlace
    <3>4. \A i, j \in 1..Len(workq') :
            workq'[i].type = "answer" /\ workq'[j].type = "answer" => i = j
      BY <1>3, <3>1 DEF Link, OnePlace
    <3>5. OnePlace'
      BY <1>3, <2>1, <3>2, <3>3, <3>4 DEF Link, OnePlace
    <3>6. Quiet => Quiet'
      BY <2>1, <3>2, <3>3
    <3> QED BY <2>1, <3>5, <3>6
  <2> QED BY <2>1, <2>2, <2>3
<1>8. ASSUME NEW m \in wire, GetMessageFails(m) PROVE Kept
  BY <1>3, <1>8, Zenon DEF GetMessageFails, Link, OnePlace
<1>9. CASE DeviceSendsEvent
  <2>1. /\ UNCHANGED <<regEvent, urb, wk, workq>>
        /\ \A m \in wire' : m.type = "answer" => m \in wire
        /\ wire \subseteq wire'
    BY <1>9 DEF DeviceSendsEvent
  <2> QED BY <1>3, <2>1 DEF Link, OnePlace
<1>10. CASE Parsing
  <2>1. /\ UNCHANGED <<regEvent, urb, wire>> /\ workq' = Tail(workq) /\ workq # <<>>
        /\ wk = NoMessage /\ (wk' = Head(workq) \/ wk' = NoMessage)
    BY <1>10 DEF Parsing
  <2>2. /\ Len(workq') = Len(workq) - 1 /\ Len(workq) \in Nat \ {0}
        /\ \A i \in 1..Len(workq') : workq'[i] = workq[i + 1] /\ i + 1 \in 1..Len(workq)
        /\ Head(workq) = workq[1] /\ 1 \in 1..Len(workq) /\ workq[1].type # "notify"
    <3>1. /\ Len(workq') = Len(workq) - 1 /\ Len(workq) \in Nat \ {0}
          /\ \A i \in 1..Len(workq') : workq'[i] = workq[i + 1] /\ i + 1 \in 1..Len(workq)
          /\ Head(workq) = workq[1] /\ 1 \in 1..Len(workq) /\ workq[1] \in Messages
      BY <1>1, <2>1
    <3>2. workq[1].type # "notify"
      BY <3>1 DEF Messages
    <3> QED BY <3>1, <3>2
  <2>3. (InHandler' => workq[1].type = "answer") /\ ~InHandler
    BY <2>1, <2>2 DEF NoMessage
  <2>4. InQueue' => InQueue /\ workq[1].type # "answer"
    BY <1>3, <2>2, SMTT(30) DEF Link, OnePlace
  <2>5. \A i, j \in 1..Len(workq') :
          workq'[i].type = "answer" /\ workq'[j].type = "answer" => i = j
    <3> TAKE i \in 1..Len(workq'), j \in 1..Len(workq')
    <3> HAVE workq'[i].type = "answer" /\ workq'[j].type = "answer"
    <3>0. \A a, b \in 1..Len(workq) :
            workq[a].type = "answer" /\ workq[b].type = "answer" => a = b
      BY <1>3 DEF Link, OnePlace
    <3>1. /\ workq'[i] = workq[i + 1] /\ i + 1 \in 1..Len(workq)
          /\ workq'[j] = workq[j + 1] /\ j + 1 \in 1..Len(workq)
      BY <2>2, Zenon
    <3>2. i + 1 = j + 1
      BY <3>0, <3>1, Zenon
    <3> QED BY <3>2
  <2>6. (InHandler' => InQueue) /\ (InWire' <=> InWire) /\ (InEvent' <=> InEvent) /\ (InUrb' <=> InUrb)
    BY <2>1, <2>2, <2>3
  <2>7. OnePlace'
    <3> HIDE DEF InUrb, InWire, InQueue, InHandler, InEvent
    <3> QED BY <1>3, <2>1, <2>3, <2>4, <2>5, <2>6 DEF Link, OnePlace
  <2>8. Quiet => Quiet'
    <3> HIDE DEF InUrb, InWire, InQueue, InHandler, InEvent
    <3> QED BY <2>3, <2>4, <2>6
  <2> QED BY <2>1, <2>7, <2>8
<1>11. CASE StoreAnswer
  <2>1. wk \in [type : {"none", "answer", "notify", "event"}, num : Nat]
    BY DEF TypeOK
  <2>2. /\ UNCHANGED <<regEvent, urb, wire, workq>> /\ wk.type = "answer"
        /\ wk' = [wk EXCEPT !.type = "notify"]
    BY <1>11 DEF StoreAnswer
  <2>3. wk'.type = "notify"
    BY <2>1, <2>2
  <2> QED BY <1>3, <2>2, <2>3 DEF Link, OnePlace
<1>12. CASE NotifyReader
  BY <1>1, <1>3, <1>12 DEF NotifyReader, Link, OnePlace, NoMessage
<1>13. CASE HandleEvent
  BY <1>3, <1>13 DEF HandleEvent, Link, OnePlace, NoMessage
<1> QED BY <1>6, <1>7, <1>8, <1>9, <1>10, <1>11, <1>12, <1>13, Zenon DEF LinkStep, BusStep, WorkerStep

(* ... and all the others.                                                   *)
LEMMA NextLink ==
  ASSUME Interruptible = {}, TypeOK, LockInv, LinkInv, [Next]_vars
  PROVE  LinkInv'
<1> DEFINE EventMeansIdle == \A k \in Ops : urb[k].event > 0 => urb[k].state = "idle"
<1>1. EventMeansIdle'
  <2>1. urb \in [Ops -> UrbContexts] /\ op \in [Clients -> Ops] /\ EventMeansIdle
    BY DEF TypeOK, UrbContexts, LinkInv
  <2>2. ASSUME NEW c \in Clients, Submit(c) PROVE EventMeansIdle'
    <3>1. op[c] \in Ops
      BY <2>1
    <3>2. urb'[op[c]].event = 0 /\ \A k \in Ops : k # op[c] => urb'[k] = urb[k]
      BY <2>1, <2>2, <3>1 DEF Submit, UrbContexts
    <3> QED BY <2>1, <3>2
  <2>3. ASSUME NEW c \in Clients, UrbEventWakes(c) PROVE EventMeansIdle'
    <3>1. op[c] \in Ops
      BY <2>1
    <3>2. /\ urb[op[c]].event > 0 /\ urb'[op[c]].state = urb[op[c]].state
          /\ \A k \in Ops : k # op[c] => urb'[k] = urb[k]
      BY <2>1, <2>3, <3>1 DEF UrbEventWakes, UrbContexts
    <3> QED BY <2>1, <3>1, <3>2
  <2>4. ASSUME NEW k \in Ops, UrbCompletes(k) PROVE EventMeansIdle'
    <3>1. urb'[k].state = "idle" /\ \A j \in Ops : j # k => urb'[j] = urb[j]
      BY <2>1, <2>4 DEF UrbCompletes, UrbContexts
    <3> QED BY <2>1, <3>1
  <2>5. CASE UNCHANGED urb
    BY <2>1, <2>5
  <2> QED
    BY <2>2, <2>3, <2>4, <2>5
    DEF Next, ClientStep, BusStep, WorkerStep, Call, Down, DownInterrupted, WaitCheck,
        ReadEventWakes, WaitFails, Return, Fail, GetMessage, DeviceSendsEvent,
        GetMessageFails, Parsing, StoreAnswer, NotifyReader, HandleEvent,
        DoorbellFails, Unplug, vars
<1>2. ASSUME "register" \notin errors' PROVE Link'
  <2>1. ASSUME NEW c \in Clients, NEW k \in Ops, Call(c, k) PROVE Link'
    <3>1. /\ UNCHANGED <<errors, urb, regEvent, wire, workq, wk>> /\ pc[c] = "idle"
          /\ pc' = pc \/ pc' = [pc EXCEPT ![c] = "down"]
          /\ op' = [op EXCEPT ![c] = k]
      BY <2>1, SMTT(30) DEF Call
    <3>2. Link
      BY <1>2, <3>1 DEF LinkInv, Link, Quiet
    <3>3. pc \in [Clients -> Locations] /\ op \in [Clients -> Ops]
      BY DEF TypeOK
    <3>4. \A d \in Clients : /\ Reading(d)' <=> Reading(d)
                             /\ Writing(d)' <=> Writing(d)
                             /\ pc'[d] \in {"check2", "wait2"} => pc[d] \in {"check2", "wait2"}
      BY <3>1, <3>3 DEF Reading, Writing
    <3> QED BY <3>1, <3>2, <3>4 DEF Link, OnePlace, Quiet, InUrb, InWire, InQueue, InHandler, InEvent
  <2>2. CASE UNCHANGED <<pc, op, urb, regEvent, wire, workq, wk>> /\ (errors \subseteq errors')
    <3>1. Link
      BY <1>2, <2>2 DEF LinkInv, Link, Quiet
    <3> QED BY <2>2, <3>1 DEF Link, OnePlace, Quiet, Reading, Writing, InUrb, InWire, InQueue, InHandler, InEvent
  <2>3. CASE DoorbellFails \/ Unplug \/ UNCHANGED vars
    BY <2>2, <2>3, SMTT(30) DEF DoorbellFails, Unplug, vars, clientVars, deviceVars
  <2> QED BY <1>2, <2>1, <2>3, ClientLink, DeviceLink, SMTT(30) DEF Next, LinkStep, DownInterrupted
<1> QED BY <1>1, <1>2, Zenon DEF LinkInv, Link, Quiet

-----------------------------------------------------------------------------
(* What is underway belongs to the reader.                                   *)

(* The link and the work queue move a command and its answer, and do not     *)
(* change whose it is.                                                       *)
LEMMA OnlyForKept ==
  ASSUME TypeOK, NEW n, OnlyFor(n), LinkStep
  PROVE  OnlyFor(n)'
<1>1. /\ urb \in [Ops -> UrbContexts] /\ regEvent \in Nat
      /\ workq \in Seq(Messages) /\ "read" \in Ops
      /\ wk \in [type : {"none", "answer", "notify", "event"}, num : Nat]
  BY DEF TypeOK, UrbContexts, Ops
<1> USE DEF OnlyFor, InUrb, InHandler, InEvent
<1>2. ASSUME NEW k \in Ops, UrbCompletes(k) PROVE OnlyFor(n)'
  <2>1. /\ UNCHANGED <<regEvent, data, workq, wk>> /\ urb[k].state = "flight" /\ urb'[k].state = "idle"
        /\ \A j \in Ops : j # k => urb'[j] = urb[j]
    BY <1>1, <1>2 DEF UrbCompletes, UrbContexts
  <2>2. wire' = wire \/ (k = "read" /\ wire' = wire \cup {[type |-> "answer", num |-> urb[k].num]})
    BY <1>2 DEF UrbCompletes
  <2> QED BY <1>1, <2>1, <2>2
<1>3. ASSUME NEW m \in wire, GetMessage(m) PROVE OnlyFor(n)'
  <2>1. /\ UNCHANGED <<regEvent, data, urb, wk>> /\ wire' = wire \ {m}
        /\ workq' = Append(workq, m) \/ workq' = workq
    BY <1>3, Zenon DEF GetMessage
  <2>2. \A i \in 1..Len(workq') : workq'[i].type = "answer" => workq'[i].num = n
    <3>1. CASE workq' = workq
      BY <3>1
    <3>2. CASE workq' = Append(workq, m)
      <4>1. /\ Len(workq') = Len(workq) + 1 /\ workq'[Len(workq) + 1] = m
            /\ Len(workq) \in Nat
            /\ \A i \in 1..Len(workq) : workq'[i] = workq[i]
        BY <1>1, <3>2
      <4> QED BY <4>1
    <3> QED BY <2>1, <3>1, <3>2
  <2> QED BY <2>1, <2>2, ZenonT(60)
<1>4. ASSUME NEW m \in wire, GetMessageFails(m) PROVE OnlyFor(n)'
  BY <1>4 DEF GetMessageFails
<1>5. CASE DeviceSendsEvent
  <2>1. /\ UNCHANGED <<regEvent, data, urb, wk, workq>>
        /\ \A m \in wire' : m.type = "answer" => m \in wire
    BY <1>5 DEF DeviceSendsEvent
  <2> QED BY <2>1
<1>6. CASE Parsing
  <2>1. /\ UNCHANGED <<regEvent, data, urb, wire>> /\ workq' = Tail(workq) /\ workq # <<>>
        /\ wk' = Head(workq) \/ wk' = NoMessage
    BY <1>6 DEF Parsing
  <2>2. /\ \A i \in 1..Len(workq') : workq'[i] = workq[i + 1] /\ i + 1 \in 1..Len(workq)
        /\ Head(workq) = workq[1] /\ 1 \in 1..Len(workq) /\ workq[1] \in Messages
    BY <1>1, <2>1
  <2>3. workq[1].type \in {"answer", "event"}
    BY <2>2 DEF Messages
  <2>4. (InHandler' => wk'.num = n) /\ wk'.type # "notify"
    BY <2>1, <2>2, <2>3 DEF NoMessage
  <2> QED BY <2>1, <2>2, <2>4
<1>7. CASE StoreAnswer
  <2>1. /\ UNCHANGED <<regEvent, urb, wire, workq>> /\ wk.type = "answer" /\ data' = wk.num
        /\ wk' = [wk EXCEPT !.type = "notify"]
    BY <1>7 DEF StoreAnswer
  <2>2. wk'.type = "notify" /\ wk'.num = wk.num
    BY <1>1, <2>1
  <2> QED BY <2>1, <2>2
<1>8. CASE NotifyReader
  BY <1>8 DEF NotifyReader, NoMessage
<1>9. CASE HandleEvent
  BY <1>9 DEF HandleEvent, NoMessage
<1> QED BY <1>2, <1>3, <1>4, <1>5, <1>6, <1>7, <1>8, <1>9 DEF LinkStep, BusStep, WorkerStep

(* With a quiet link nothing belongs to somebody else.                       *)
LEMMA QuietIsForAll ==
  ASSUME Quiet, NEW n PROVE OnlyFor(n)
BY DEF Quiet, OnlyFor, InUrb, InWire, InQueue, InHandler, InEvent

(* No step breaks the invariant on what a reader waits for and is given.     *)
LEMMA NextReader ==
  ASSUME Interruptible = {}, TypeOK, LockInv, LinkInv, ReaderInv, [Next]_vars
  PROVE  ReaderInv'
<1>1. /\ pc \in [Clients -> Locations] /\ op \in [Clients -> Ops] /\ req \in [Clients -> Nat]
      /\ urb \in [Ops -> UrbContexts] /\ regEvent \in Nat /\ "read" \in Ops
  BY DEF TypeOK, UrbContexts, Ops
<1> DEFINE ReaderOK(c) ==
      /\ op[c] = "read" /\ pc[c] \in {"wait1", "check2", "wait2", "copy"} => OnlyFor(req[c])
      /\ op[c] = "read" /\ pc[c] = "check1" /\ "register" \notin errors => OnlyFor(req[c])
      /\ pc[c] = "copy" => data = req[c]
<1>2. ASSUME NEW c \in Clients, ClientStep(c), pc[c] \in Inside, NEW d \in Clients, d # c
      PROVE  ReaderOK(d)'
  <2>1. pc[d] \notin Inside
    BY <1>2 DEF LockInv, LockedByOne
  <2>2. pc'[d] = pc[d] \/ pc'[d] = "submit"
    <3>1. CASE Return(c) \/ Fail(c)
      BY <1>1, <1>2, <3>1 DEF Return, Fail, Up
    <3> QED
      BY <1>1, <1>2, <3>1 DEF ClientStep, Down, Submit, WaitCheck, UrbEventWakes, ReadEventWakes, WaitFails
  <2> QED BY <2>1, <2>2 DEF Inside
<1>3. ASSUME NEW c \in Clients, Down(c) PROVE ReaderInv'
  <2>1. /\ UNCHANGED <<op, req, errors, urb, regEvent, data, wire, workq, wk>>
        /\ \A d \in Clients : pc'[d] = pc[d] \/ pc'[d] \in {"submit", "blocked"}
    BY <1>1, <1>3 DEF Down, clientVars, deviceVars
  <2>2. \A n : OnlyFor(n)' <=> OnlyFor(n)
    BY <2>1 DEF OnlyFor, InUrb, InHandler, InEvent
  <2> QED BY <2>1, <2>2 DEF ReaderInv
<1>4. ASSUME NEW c \in Clients, NEW k \in Ops, Call(c, k) PROVE ReaderInv'
  <2>1. /\ UNCHANGED <<errors, urb, regEvent, data, wire, workq, wk>>
        /\ pc[c] = "idle" /\ pc'[c] \in {"idle", "down"}
        /\ \A d \in Clients : d # c => pc'[d] = pc[d] /\ op'[d] = op[d] /\ req'[d] = req[d]
    BY <1>1, <1>4 DEF Call
  <2>2. \A n : OnlyFor(n)' <=> OnlyFor(n)
    BY <2>1 DEF OnlyFor, InUrb, InHandler, InEvent
  <2> QED BY <2>1, <2>2 DEF ReaderInv
<1>5. ASSUME NEW c \in Clients, Submit(c) PROVE ReaderOK(c)'
  <2>1. /\ UNCHANGED <<op, req, errors, wire, workq, wk, data>> /\ pc[c] = "submit"
        /\ pc'[c] \in {"check1", "fail"}
        /\ pc'[c] = "check1" =>
             urb' = [urb EXCEPT ![op[c]] = [state |-> "flight", num |-> req[c], event |-> 0]]
        /\ op[c] = "read" => regEvent' = 0
    BY <1>1, <1>5, SMTT(30) DEF Submit, clientVars, deviceVars
  <2>2. "register" \notin errors => Quiet
    BY <2>1, SubmitterAlone DEF LinkInv, Link, Quiet
  <2>3. ASSUME op[c] = "read", pc'[c] = "check1", Quiet PROVE OnlyFor(req[c])'
    <3>1. urb'["read"].num = req[c]
      BY <1>1, <2>1, <2>3
    <3> QED BY <2>1, <2>3, <3>1 DEF OnlyFor, Quiet, InUrb, InWire, InQueue, InHandler, InEvent
  <2> QED BY <2>1, <2>2, <2>3
<1>6. ASSUME NEW c \in Clients, WaitCheck(c) PROVE ReaderOK(c)'
  <2>1. /\ UNCHANGED <<op, req, errors, urb, regEvent, data, wire, workq, wk>>
        /\ pc[c] \in {"check1", "check2"} /\ pc'[c] \in {"wait1", "wait2", "fail"}
        /\ pc'[c] # "fail" => errors = {}
    BY <1>1, <1>6 DEF WaitCheck, ErrorCheck, clientVars, deviceVars
  <2>2. OnlyFor(req[c])' <=> OnlyFor(req[c])
    BY <2>1 DEF OnlyFor, InUrb, InHandler, InEvent
  <2> QED BY <2>1, <2>2 DEF ReaderInv
<1>7. ASSUME NEW c \in Clients, UrbEventWakes(c) PROVE ReaderOK(c)'
  <2>1. /\ UNCHANGED <<op, req, errors, regEvent, data, wire, workq, wk>>
        /\ pc[c] = "wait1" /\ pc'[c] \in {"check2", "done"} /\ op[c] \in Ops
        /\ urb' = [urb EXCEPT ![op[c]].event = @ - 1]
    BY <1>1, <1>7 DEF UrbEventWakes, clientVars, deviceVars
  <2>2. urb'["read"].state = urb["read"].state /\ urb'["read"].num = urb["read"].num
    BY <1>1, <2>1 DEF UrbContexts
  <2>3. OnlyFor(req[c])' <=> OnlyFor(req[c])
    BY <2>1, <2>2 DEF OnlyFor, InUrb, InHandler, InEvent
  <2> QED BY <2>1, <2>3 DEF ReaderInv
<1>8. ASSUME NEW c \in Clients, ReadEventWakes(c) PROVE ReaderOK(c)'
  <2>1. /\ UNCHANGED <<op, req, errors, urb, data, wire, workq, wk>> /\ pc[c] = "wait2"
        /\ pc'[c] = "copy" /\ regEvent > 0 /\ regEvent' = regEvent - 1 /\ op[c] = "read"
    BY <1>1, <1>8 DEF ReadEventWakes, clientVars, deviceVars, LockInv
  <2>2. OnlyFor(req[c]) /\ data = req[c]
    BY <2>1, ZenonT(60) DEF ReaderInv, OnlyFor, InEvent
  <2>3. OnlyFor(req[c])'
    BY <2>1, <2>2, Zenon DEF OnlyFor, InUrb, InHandler, InEvent
  <2> QED BY <2>1, <2>2, <2>3
<1>9. ASSUME NEW c \in Clients, WaitFails(c) PROVE ReaderOK(c)'
  BY <1>1, <1>9 DEF WaitFails
<1>10. ASSUME NEW c \in Clients, Return(c) \/ Fail(c) PROVE ReaderOK(c)'
  <2>1. pc'[c] \in {"idle", "submit"}
    BY <1>1, <1>10 DEF Return, Fail, Up
  <2> QED BY <2>1
<1>11. ASSUME NEW c \in Clients, ClientStep(c) PROVE ReaderInv'
  <2>1. CASE Down(c)
    BY <1>3, <2>1
  <2>2. CASE ~Down(c)
    <3>1. pc[c] \in Inside
      BY <1>11, <2>2 DEF ClientStep, Submit, WaitCheck, UrbEventWakes, ReadEventWakes,
                         WaitFails, Return, Fail, Inside
    <3>2. ReaderOK(c)'
      BY <1>5, <1>6, <1>7, <1>8, <1>9, <1>10, <1>11, <2>2, Zenon DEF ClientStep
    <3>3. \A d \in Clients : ReaderOK(d)'
      BY <1>2, <1>11, <3>1, <3>2, Zenon
    <3> QED BY <3>3 DEF ReaderInv
  <2> QED BY <2>1, <2>2
<1>12. CASE LinkStep
  <2>1. UNCHANGED <<pc, op, req, errors>>
    BY <1>12, Zenon DEF LinkStep, BusStep, WorkerStep, DeviceSendsEvent, GetMessageFails, UrbCompletes,
         GetMessage, Parsing, StoreAnswer, NotifyReader, HandleEvent, clientVars
  <2>2. \A c \in Clients : OnlyFor(req[c]) => OnlyFor(req[c])'
    BY <1>12, <2>1, OnlyForKept
  <2>3. ASSUME NEW c \in Clients, pc[c] = "copy" PROVE data' = req[c]
    <3>1. data = req[c] /\ OnlyFor(req[c])
      BY <2>3 DEF ReaderInv, LockInv
    <3>2. CASE StoreAnswer
      BY <3>1, <3>2 DEF StoreAnswer, OnlyFor, InHandler
    <3>3. CASE data' = data
      BY <3>1, <3>3
    <3> QED
      BY <1>12, <3>2, <3>3, Zenon DEF LinkStep, BusStep, WorkerStep, DeviceSendsEvent, GetMessageFails,
         UrbCompletes, GetMessage, Parsing, NotifyReader, HandleEvent
  <2> QED BY <2>1, <2>2, <2>3 DEF ReaderInv
<1>13. CASE DoorbellFails \/ Unplug \/ UNCHANGED vars
  <2>1. UNCHANGED <<pc, op, req, urb, regEvent, data, wire, workq, wk>> /\ (errors \subseteq errors')
    BY <1>13, SMTT(30) DEF DoorbellFails, Unplug, vars, clientVars, deviceVars
  <2>2. \A n : OnlyFor(n)' <=> OnlyFor(n)
    BY <2>1 DEF OnlyFor, InUrb, InHandler, InEvent
  <2> QED BY <2>1, <2>2 DEF ReaderInv
<1> QED BY <1>4, <1>11, <1>12, <1>13 DEF Next, LinkStep, DownInterrupted

-----------------------------------------------------------------------------
(* What a read returns.                                                      *)
LEMMA NextAnswer ==
  ASSUME Interruptible = {}, TypeOK, LockInv, ReaderInv, ReadReturnsOwnAnswer, [Next]_vars
  PROVE  ReadReturnsOwnAnswer'
<1>1. /\ res \in [Clients -> Results] /\ op \in [Clients -> Ops] /\ req \in [Clients -> Nat]
  BY DEF TypeOK
<1>2. ASSUME NEW c \in Clients, Return(c) PROVE ReadReturnsOwnAnswer'
  <2>1. /\ UNCHANGED <<op, req>> /\ pc[c] \in {"copy", "done"}
        /\ \A d \in Clients : d # c => res'[d] = res[d]
        /\ res'[c].num = IF pc[c] = "copy" THEN data ELSE 0
    BY <1>1, <1>2, SMTT(30) DEF Return
  <2>2. op[c] = "read" => res'[c].num = req[c]
    BY <2>1, SMTT(30) DEF LockInv, ReaderInv
  <2> QED BY <2>1, <2>2 DEF ReadReturnsOwnAnswer
<1>3. ASSUME NEW c \in Clients, Fail(c) PROVE ReadReturnsOwnAnswer'
  <2>1. /\ UNCHANGED <<op, req>> /\ res'[c].kind = "fail"
        /\ \A d \in Clients : d # c => res'[d] = res[d]
    BY <1>1, <1>3 DEF Fail, Failed
  <2> QED BY <2>1 DEF ReadReturnsOwnAnswer
<1>4. ASSUME NEW c \in Clients, NEW k \in Ops, Call(c, k) PROVE ReadReturnsOwnAnswer'
  <2>1. /\ res'[c] = NoResult \/ res'[c] = Failed
        /\ \A d \in Clients : d # c => res'[d] = res[d] /\ op'[d] = op[d] /\ req'[d] = req[d]
    BY <1>1, <1>4 DEF Call
  <2>2. res'[c].kind # "ok"
    BY <2>1 DEF NoResult, Failed
  <2> QED BY <2>1, <2>2 DEF ReadReturnsOwnAnswer
<1>5. CASE UNCHANGED <<op, req, res>>
  BY <1>5 DEF ReadReturnsOwnAnswer
<1> QED
  BY <1>2, <1>3, <1>4, <1>5, Zenon
  DEF Next, ClientStep, BusStep, WorkerStep, Down, DownInterrupted, Submit, WaitCheck,
      UrbEventWakes, ReadEventWakes, WaitFails, UrbCompletes, GetMessage,
      DeviceSendsEvent, GetMessageFails, Parsing, StoreAnswer, NotifyReader,
      HandleEvent, DoorbellFails, Unplug, clientVars, vars

(* The invariant holds initially.                                            *)
LEMMA InitInv == Init => IndInv
<1> SUFFICES ASSUME Init PROVE IndInv
  OBVIOUS
<1>1. Quiet /\ \A k \in Ops : urb[k].state = "idle"
  BY DEF Init, Quiet, InUrb, InWire, InQueue, InHandler, InEvent, NoMessage, Ops
<1>2. LockInv
  BY DEF Init, LockInv, LockedByOne, Inside
<1>3. LinkInv
  <2>1. OnePlace
    BY <1>1 DEF Init, OnePlace, Quiet
  <2>2. \A c \in Clients : pc[c] = "idle"
    BY DEF Init
  <2> QED BY <1>1, <2>1, <2>2 DEF LinkInv, Quiet, Ops
<1>4. ReaderInv
  BY <1>1, QuietIsForAll DEF Init, ReaderInv
<1>5. ReadReturnsOwnAnswer
  BY DEF Init, ReadReturnsOwnAnswer, NoResult
<1> QED BY <1>2, <1>3, <1>4, <1>5, InitType DEF IndInv

(* Where signals cannot interrupt a thread that waits for the register lock, *)
(* the invariant is inductive, for any number of threads, calls, events and  *)
(* receive URBs.                                                             *)
THEOREM Invariance == ASSUME Interruptible = {} PROVE Spec => []IndInv
<1>1. IndInv /\ [Next]_vars => IndInv'
  BY NextType, NextLock, NextLink, NextReader, NextAnswer DEF IndInv
<1> QED BY <1>1, InitInv, PTL DEF Spec

(* EmbeddedRegisterLock excludes, see LockedByOne.                           *)
THEOREM MutualExclusion == ASSUME Interruptible = {} PROVE Spec => []LockedByOne
<1>1. IndInv => LockedByOne
  BY DEF IndInv, LockInv
<1> QED BY <1>1, Invariance, PTL

(* A successful EMBEDDED_REGISTER_Read returns the answer to its own command, *)
(* whatever URBs fail, whatever waits time out and however late an answer    *)
(* arrives.                                                                  *)
THEOREM OwnAnswer == ASSUME Interruptible = {} PROVE Spec => []ReadReturnsOwnAnswer
<1>1. IndInv => ReadReturnsOwnAnswer
  BY DEF IndInv
<1> QED BY <1>1, Invariance, PTL

(* Until the first register error is latched, the lock is released only when *)
(* nothing of the access remains underway.                                   *)
THEOREM LeavesNothingBehind == ASSUME Interruptible = {} PROVE Spec => []QuietWhenUnlocked
<1>1. ASSUME IndInv PROVE QuietWhenUnlocked
  <2> SUFFICES ASSUME \A c \in Clients : pc[c] \notin Inside, "register" \notin errors
               PROVE  /\ \A k \in Ops : urb[k].state = "idle"
                      /\ AnswersUnderway = {}
                      /\ regEvent = 0
    BY DEF QuietWhenUnlocked
  <2>1. urb \in [Ops -> UrbContexts] /\ regEvent \in Nat /\ workq \in Seq(Messages)
    BY <1>1 DEF IndInv, TypeOK, UrbContexts
  <2>2. \A c \in Clients : ~Reading(c) /\ ~Writing(c)
    BY DEF Reading, Writing, Inside
  <2>3. Quiet /\ urb["write"].state = "idle"
    BY <1>1, <2>2 DEF IndInv, LinkInv, Quiet
  <2>4. \A k \in Ops : urb[k].state = "idle"
    BY <2>1, <2>3 DEF Quiet, InUrb, Ops, UrbContexts
  <2>5. DOMAIN workq = 1..Len(workq)
    BY <2>1
  <2>6. AnswersUnderway = {}
    BY <2>3, <2>5 DEF AnswersUnderway, Quiet, InWire, InQueue, InHandler
  <2> QED BY <2>1, <2>3, <2>4, <2>6 DEF Quiet, InEvent
<1> QED BY <1>1, Invariance, PTL
=============================================================================
