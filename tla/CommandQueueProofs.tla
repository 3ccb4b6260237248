------------------------- MODULE CommandQueueProofs -------------------------
(***************************************************************************)
(* The timer of the command queue always watches the first command; the    *)
(* list of commands, the command ring and the events of the device belong  *)
(* together, and every command is completed at most once.  All of this for *)
(* any number of threads and commands, wherever the device dies or a timer *)
(* runs out, when threads that queue commands and the worker that          *)
(* completes them do not overlap.                                          *)
(***************************************************************************)
EXTENDS CommandQueue, SequenceFacts

USE CommandAssumption

(* A new command goes to the end of the list, which stays in order.          *)
LEMMA ListGrows ==
  ASSUME ListInv, list' = Append(list, issued + 1), issued' = issued + 1
  PROVE  /\ ListInv'
         /\ Len(list') = Len(list) + 1 /\ list' # <<>>
         /\ list'[Len(list')] = issued + 1
         /\ list # <<>> => list'[1] = list[1]
         /\ list = <<>> => list'[1] = issued + 1
  BY DEF ListInv

(* Removing the first command keeps the order.                               *)
LEMMA ListShrinks ==
  ASSUME ListInv, list # <<>>, list' = Tail(list), issued' = issued
  PROVE  /\ ListInv'
         /\ Len(list) # 1 => list' # <<>> /\ list'[1] = list[2]
         /\ Len(list) = 1 => list' = <<>>
<1>1. /\ list' \in Seq(Nat) /\ Len(list') = Len(list) - 1
      /\ \A i \in 1..Len(list') : list'[i] = list[i + 1]
  BY DEF ListInv
<1>2. Len(list) \in Nat \ {0}
  BY DEF ListInv
<1>3. ListInv'
  BY <1>1, <1>2 DEF ListInv
<1>4. Len(list) = 1 => list' = <<>>
  BY <1>1
<1>5. ASSUME Len(list) # 1 PROVE list' # <<>> /\ list'[1] = list[2]
  <2>1. Len(list') > 0 /\ 1 \in 1..Len(list')
    BY <1>1, <1>2, <1>5
  <2>2. list'[1] = list[1 + 1]
    BY <1>1, <2>1
  <2> QED BY <2>1, <2>2
<1> QED BY <1>3, <1>4, <1>5

(* The empty list of commands satisfies the invariant of the list and its    *)
(* timer.                                                                    *)
LEMMA InitCommand == Init => CommandInv
  BY DEF Init, CommandInv, ListInv, StepInv, TimerInv, Idle, First

(* What a thread does.                                                       *)
LEMMA ClientInv ==
  ASSUME CommandInv, NEW c \in Clients,
         \/ worker = Idle /\ \E k \in Kinds \ {"reset"} : QueueCommand(c, k)
         \/ StopRefused(c) \/ Queueing(c) \/ Return(c)
  PROVE  CommandInv'
<1> USE DEF CommandInv
<1>1. CASE worker = Idle /\ \E k \in Kinds \ {"reset"} : QueueCommand(c, k)
  <2> PICK k \in Kinds : AddCommand(c, k)
    BY <1>1 DEF QueueCommand
  <2>1. ListInv'
    BY ListGrows DEF AddCommand
  <2>2. StepInv'
    BY <1>1, ListGrows DEF AddCommand, StepInv, ListInv, Idle
  <2>3. TimerInv'
    BY <1>1, ListGrows DEF AddCommand, StepInv, ListInv, TimerInv, Idle, First
  <2> QED BY <2>1, <2>2, <2>3
<1>2. CASE StopRefused(c)
  BY <1>2 DEF StopRefused, ListInv, StepInv, TimerInv, First
<1>3. CASE StartTimer(c)
  <2>1. ListInv' /\ StepInv'
    BY <1>3 DEF StartTimer, ListInv, StepInv
  <2>2. TimerInv'
    BY <1>3 DEF StartTimer, ListInv, StepInv, TimerInv, First
  <2> QED BY <2>1, <2>2
<1>4. CASE RingDoorbell(c)
  <2>1. ListInv' /\ StepInv'
    BY <1>4 DEF RingDoorbell, ListInv, StepInv
  <2>2. TimerInv'
    BY <1>4 DEF RingDoorbell, ListInv, StepInv, TimerInv, First
  <2> QED BY <2>1, <2>2
<1>5. CASE Return(c)
  BY <1>5 DEF Return, ListInv, StepInv, TimerInv, First
<1> QED BY <1>1, <1>2, <1>3, <1>4, <1>5 DEF Queueing

(* What the worker does while nobody holds the lock.                         *)
LEMMA WorkerInv ==
  ASSUME CommandInv, lock = None, WorkerStep \/ HaltedEndpoint
  PROVE  CommandInv'
<1> USE DEF CommandInv
<1>1. CASE Completion
  <2>1. ListInv'
    BY <1>1 DEF Completion, ListInv
  <2>2. worker' = Idle \/ (/\ dying = "no" /\ list # <<>> /\ worker'.pc = "matched"
                           /\ worker'.cmd = list[1])
    BY <1>1 DEF Completion, ListInv
  <2>3. StepInv'
    BY <1>1, <2>2 DEF Completion, ListInv, StepInv, Idle, First
  <2>4. TimerInv'
    BY <1>1, <2>2 DEF Completion, ListInv, StepInv, TimerInv, Idle, First
  <2> QED BY <2>1, <2>3, <2>4
<1>2. CASE DeleteTimer
  BY <1>2 DEF DeleteTimer, ListInv, StepInv, TimerInv, First
<1>3. CASE HandleCommand
  <2>1. CASE WorkerQueues
    <3>1. ListInv'
      BY <2>1, ListGrows DEF WorkerQueues
    <3>2. StepInv'
      BY <1>3, <2>1, ListGrows, Zenon DEF HandleCommand, WorkerQueues, StepInv, First
    <3>3. TimerInv'
      BY <1>3, <2>1, ListGrows DEF HandleCommand, WorkerQueues, StepInv, TimerInv, First
    <3> QED BY <3>1, <3>2, <3>3
  <2>2. CASE UNCHANGED <<issued, list, timer, ring, devq>>
    BY <1>3, <2>2 DEF HandleCommand, ListInv, StepInv, TimerInv, First
  <2> QED BY <1>3, <2>1, <2>2 DEF HandleCommand
<1>4. CASE HaltedEndpoint
  <2>1. ListInv'
    BY <1>4, ListGrows DEF HaltedEndpoint, WorkerQueues
  <2>2. StepInv'
    BY <1>4, ListGrows DEF HaltedEndpoint, WorkerQueues, StepInv, Idle
  <2>3. TimerInv'
    BY <1>4, ListGrows, Zenon DEF HaltedEndpoint, WorkerQueues, ListInv, StepInv, TimerInv, First, Idle
  <2> QED BY <2>1, <2>2, <2>3
<1>5. CASE RestartTimer
  <2>1. ListInv' /\ StepInv'
    BY <1>5 DEF RestartTimer, ListInv, StepInv
  <2>2. Len(list) \in Nat \ {0}
    BY <1>5 DEF RestartTimer, ListInv, StepInv
  <2>3. dying = "no" => timer' = IF Len(list) = 1 THEN 0 ELSE list[2]
    <3>1. dying = "no" => timer = 0
      BY <1>5 DEF RestartTimer, TimerInv
    <3>2. CASE Len(list) = 1
      BY <1>5, <3>1, <3>2 DEF RestartTimer
    <3>3. CASE Len(list) # 1
      <4>1. Len(list) > 1
        BY <2>2, <3>3
      <4> QED BY <1>5, <3>3, <4>1 DEF RestartTimer
    <3> QED BY <3>2, <3>3
  <2>4. worker'.pc = "checked" /\ \A c \in Clients : pc[c] \notin {"queued", "timed"}
    BY <1>5 DEF RestartTimer, StepInv
  <2>5. TimerInv'
    BY <1>5, <2>3, <2>4 DEF RestartTimer, TimerInv
  <2> QED BY <2>1, <2>5
<1>6. CASE CompleteCommand
  <2>0. list # <<>> /\ list' = Tail(list)
    BY <1>6 DEF CompleteCommand, StepInv
  <2>1. ListInv'
    BY <1>6, <2>0, ListShrinks DEF CompleteCommand
  <2>2. StepInv'
    BY <1>6 DEF CompleteCommand, StepInv
  <2>3. dying = "no" => timer = First(list')
    BY <1>6, <2>0, ListShrinks DEF CompleteCommand, TimerInv, First
  <2>4. TimerInv'
    BY <1>6, <2>3 DEF CompleteCommand, StepInv, TimerInv, First
  <2> QED BY <2>1, <2>2, <2>4
<1>7. CASE IncDeq
  BY <1>7 DEF IncDeq, ListInv, StepInv, TimerInv, First, Idle
<1> QED BY <1>1, <1>2, <1>3, <1>4, <1>5, <1>6, <1>7 DEF WorkerStep

(* What the two timers and the clean-up do.                                  *)
LEMMA TimeoutInv ==
  ASSUME ~Smp, CommandInv, TimerStep
  PROVE  CommandInv'
<1> USE DEF CommandInv
<1>1. CASE CommandTimeout
  BY <1>1 DEF CommandTimeout, TimeOver, ListInv, StepInv, TimerInv, Idle
<1>2. CASE CleanupCommand
  <2>1. ListInv'
    BY <1>2, ListShrinks DEF CleanupCommand, ListInv
  <2>2. StepInv' /\ TimerInv'
    BY <1>2 DEF CleanupCommand, StepInv, TimerInv
  <2> QED BY <2>1, <2>2
<1>3. CASE TimeoutOnStoppedRing
  BY <1>3 DEF TimeoutOnStoppedRing, ListInv, StepInv, TimerInv
<1>4. CASE Watchdog
  BY <1>4 DEF Watchdog, ListInv, StepInv, TimerInv
<1> QED BY <1>1, <1>2, <1>3, <1>4 DEF TimerStep

(* CommandInv is an invariant of queueing, completion and timeouts when      *)
(* threads and worker do not overlap.                                        *)
THEOREM CommandInvariance == ASSUME ~Smp PROVE Spec => []CommandInv
<1>1. CommandInv /\ [Next]_vars => CommandInv'
  <2> SUFFICES ASSUME CommandInv, [Next]_vars PROVE CommandInv'
    OBVIOUS
  <2>1. CASE UNCHANGED vars
    BY <2>1 DEF vars, deviceVars, CommandInv, ListInv, StepInv, TimerInv, First
  <2>2. CASE Execute \/ Dies
    BY <2>2 DEF Execute, Dies, CommandInv, ListInv, StepInv, TimerInv, First
  <2> QED BY <2>1, <2>2, ClientInv, WorkerInv, TimeoutInv DEF Next
<1> QED BY <1>1, InitCommand, PTL DEF Spec

(* Without overlap the command timer watches the first command whenever      *)
(* commands are queued: what the comments in queue_command and               *)
(* handle_cmd_completion promise.                                            *)
THEOREM TimerCovers == ASSUME ~Smp PROVE Spec => []TimerCoversHead
<1>1. CommandInv => TimerCoversHead
  BY DEF CommandInv, ListInv, StepInv, TimerInv, TimerCoversHead, Settled, Idle, First
<1> QED BY <1>1, CommandInvariance, PTL

-----------------------------------------------------------------------------
(* The list, the ring and the events.                                        *)

Cmds == 1..MaxCmds

(* The worker goes to its next step with the command it handles.             *)
LEMMA WorkerMoves ==
  ASSUME CommandTypeOK,
         NEW p \in {"idle", "matched", "deleted", "handled", "checked", "completed"},
         worker' = [worker EXCEPT !.pc = p]
  PROVE  /\ worker' \in [pc : {"idle", "matched", "deleted", "handled", "checked",
                               "completed"},
                         cmd : 0..MaxCmds]
         /\ worker'.pc = p /\ worker'.cmd = worker.cmd
<1>1. worker \in [pc : {"idle", "matched", "deleted", "handled", "checked",
                       "completed"},
                 cmd : 0..MaxCmds]
  BY DEF CommandTypeOK
<1> QED BY <1>1

(* A new command was never completed.                                        *)
LEMMA DoneGrows ==
  ASSUME CommandTypeOK, DoneInv, issued < MaxCmds, issued' = issued + 1,
         list' = Append(list, issued + 1), done' = done
  PROVE  DoneInv'
<1>1. list \in Seq(1..MaxCmds) /\ issued \in 0..MaxCmds /\ issued + 1 \in 1..MaxCmds
  BY DEF CommandTypeOK
<1>2. /\ Len(list') = Len(list) + 1
      /\ \A i \in 1..Len(list) : list'[i] = list[i]
      /\ list'[Len(list) + 1] = issued + 1
  BY <1>1
<1>3. ASSUME NEW i \in 1..Len(list') PROVE done[list'[i]] = 0
  <2>1. CASE i \in 1..Len(list)
    BY <1>2, <2>1 DEF DoneInv
  <2>2. CASE i = Len(list) + 1
    BY <1>1, <1>2, <2>2 DEF DoneInv
  <2> QED BY <1>1, <1>2, <2>1, <2>2
<1>4. \A n \in 1..MaxCmds : n > issued' => done'[n] = 0
  BY <1>1 DEF DoneInv
<1> QED BY <1>3, <1>4 DEF DoneInv

(* The first command is completed and leaves the list, in which it is only   *)
(* once.                                                                     *)
LEMMA DoneShrinks ==
  ASSUME CommandTypeOK, ListInv, DoneInv, list # <<>>, list' = Tail(list),
         done' = [done EXCEPT ![list[1]] = @ + 1], issued' = issued
  PROVE  DoneInv' /\ done' \in [1..MaxCmds -> Nat]
<1>1. /\ Len(list) \in Nat \ {0} /\ Len(list') = Len(list) - 1
      /\ \A i \in 1..Len(list') : list'[i] = list[i + 1]
  BY HeadAndTail DEF CommandTypeOK
<1>2. list[1] \in 1..MaxCmds /\ done[list[1]] = 0 /\ list[1] <= issued
  <2>1. 1 \in 1..Len(list)
    BY <1>1
  <2>2. list \in Seq(1..MaxCmds)
    BY DEF CommandTypeOK
  <2>3. list[1] \in 1..MaxCmds
    BY <2>1, <2>2, AtPlace
  <2>4. done[list[1]] = 0
    BY <2>1 DEF DoneInv
  <2>5. list[1] \in 1..issued /\ issued \in Nat
    BY <2>1 DEF ListInv
  <2> QED BY <2>3, <2>4, <2>5
<1>3. done' \in [1..MaxCmds -> Nat]
  BY <1>2 DEF CommandTypeOK
<1>4. \A n \in 1..MaxCmds : done'[n] = IF n = list[1] THEN 1 ELSE done[n]
  BY <1>2 DEF CommandTypeOK
<1>5. ASSUME NEW i \in 1..Len(list') PROVE done'[list'[i]] = 0
  <2>1. i + 1 \in 1..Len(list) /\ 1 \in 1..Len(list) /\ 1 < i + 1
    BY <1>1
  <2>2. list[1] < list[i + 1]
    BY <2>1 DEF ListInv
  <2>3. list'[i] = list[i + 1] /\ list[i + 1] \in 1..MaxCmds
    <3>1. list \in Seq(1..MaxCmds)
      BY DEF CommandTypeOK
    <3> QED BY <1>1, <2>1, <3>1, AtPlace
  <2>4. done[list[i + 1]] = 0
    BY <2>1 DEF DoneInv
  <2> QED BY <1>2, <1>4, <2>2, <2>3, <2>4
<1>6. \A n \in 1..MaxCmds : done'[n] <= 1 /\ (n > issued' => done'[n] = 0)
  <2>1. issued \in Nat /\ list[1] \in Nat /\ issued' = issued
    BY <1>2 DEF ListInv
  <2> QED BY <1>2, <1>4, <2>1 DEF DoneInv
<1> QED BY <1>3, <1>5, <1>6 DEF DoneInv

(* ... and the invariants on completions, for no command is on the ring.     *)
LEMMA InitMatch == Init => CommandTypeOK /\ LiveInv /\ MatchInv /\ DoneInv
<1> SUFFICES ASSUME Init PROVE CommandTypeOK /\ LiveInv /\ MatchInv /\ DoneInv
  OBVIOUS
<1>1. CommandTypeOK
  BY DEF Init, CommandTypeOK, Idle, Unqueued
<1>2. LiveInv /\ DoneInv
  BY DEF Init, LiveInv, DoneInv, Idle
<1>3. <<>> \o <<>> = <<>>
  OBVIOUS
<1>4. MatchInv
  BY <1>3 DEF Init, MatchInv, Idle
<1> QED BY <1>1, <1>2, <1>4

(* What a thread does.                                                       *)
LEMMA ClientMatch ==
  ASSUME CommandsInv, NEW c \in Clients,
         \/ worker = Idle /\ \E k \in Kinds \ {"reset"} : QueueCommand(c, k)
         \/ StopRefused(c) \/ Queueing(c) \/ Return(c)
  PROVE  CommandTypeOK' /\ LiveInv' /\ MatchInv' /\ DoneInv'
<1> USE DEF CommandsInv, CommandInv
<1>1. CASE worker = Idle /\ \E k \in Kinds \ {"reset"} : QueueCommand(c, k)
  <2> PICK k \in Kinds : QueueCommand(c, k)
    BY <1>1
  <2>1. DoneInv'
    BY DoneGrows DEF QueueCommand, AddCommand
  <2>2. CommandTypeOK'
    BY DEF QueueCommand, AddCommand, CommandTypeOK, Unqueued, deviceVars
  <2>3. \A d \in Clients : d # c => pc'[d] \notin {"queued", "timed"}
    BY DEF QueueCommand, AddCommand, StepInv
  <2>4. LiveInv'
    BY <2>3 DEF QueueCommand, AddCommand, StepInv, LiveInv, CommandTypeOK
  <2>5. list = ring /\ events \o devq = ring
    BY <1>1 DEF QueueCommand, AddCommand, MatchInv, Idle
  <2>6. MatchInv'
    BY <1>1, <2>3, <2>5 DEF QueueCommand, AddCommand, StepInv, MatchInv, Idle, deviceVars
  <2> QED BY <2>1, <2>2, <2>4, <2>6
<1>2. CASE StopRefused(c)
  <2>1. CommandTypeOK'
    BY <1>2 DEF StopRefused, CommandTypeOK, Unqueued, deviceVars
  <2> QED BY <1>2, <2>1 DEF StopRefused, LiveInv, MatchInv, DoneInv, deviceVars
<1>3. CASE StartTimer(c)
  <2>1. list # <<>> /\ Head(list) \in 0..MaxCmds
    <3>1. /\ list = Append(ring, mine[c]) /\ list \in Seq(1..MaxCmds)
          /\ ring \in Seq(1..MaxCmds) /\ mine[c] \in 1..MaxCmds
      BY <1>3, Zenon DEF StartTimer, MatchInv, LiveInv, StepInv, CommandTypeOK
    <3>2. list # <<>>
      BY <3>1
    <3> QED BY <3>1, <3>2, HeadAndTail
  <2>2. CommandTypeOK'
    BY <1>3, <2>1, SMTT(20) DEF StartTimer, CommandTypeOK, deviceVars
  <2>3. LiveInv' /\ DoneInv'
    BY <1>3 DEF StartTimer, LiveInv, DoneInv, CommandTypeOK
  <2>4. MatchInv'
    BY <1>3, Zenon DEF StartTimer, MatchInv, CommandTypeOK, deviceVars
  <2> QED BY <2>2, <2>3, <2>4
<1>4. CASE RingDoorbell(c)
  <2>1. /\ lock = c /\ dying = "no" /\ state = "running" /\ worker.pc = "idle"
        /\ mine[c] \in 1..MaxCmds /\ Len(ring) < Room
        /\ list = Append(ring, mine[c]) /\ events \o devq = ring
    BY <1>4 DEF RingDoorbell, StepInv, LiveInv, MatchInv
  <2>2. CommandTypeOK'
    <3>1. pc' \in [Clients -> {"idle", "queued", "timed", "wait"}]
      BY <1>4 DEF RingDoorbell, CommandTypeOK
    <3>2. ring' \in Seq(1..MaxCmds) /\ Len(ring') <= Room
      <4>1. ring \in Seq(1..MaxCmds) /\ ring' = Append(ring, mine[c])
        BY <1>4 DEF RingDoorbell, CommandTypeOK
      <4> QED BY <2>1, <4>1
    <3>3. devq' \in Seq(1..MaxCmds)
      <4>1. devq \in Seq(1..MaxCmds) /\ devq' = Append(devq, mine[c])
        BY <1>4, <2>1 DEF RingDoorbell, CommandTypeOK
      <4> QED BY <2>1, <4>1
    <3> QED BY <1>4, <3>1, <3>2, <3>3, SMTT(30) DEF RingDoorbell, CommandTypeOK
  <2>3. \A d \in Clients : pc'[d] \notin {"queued", "timed"}
    BY <1>4, <2>1 DEF RingDoorbell, StepInv
  <2>4. LiveInv' /\ DoneInv'
    BY <1>4, <2>1, <2>3 DEF RingDoorbell, LiveInv, DoneInv
  <2>5. events' \o devq' = ring'
    <3>1. events \in Seq(Cmds) /\ devq \in Seq(Cmds) /\ mine[c] \in Cmds
      BY <2>1 DEF CommandTypeOK, Cmds
    <3>2. events \o Append(devq, mine[c]) = Append(events \o devq, mine[c])
      BY <3>1, AppendRight
    <3> QED BY <1>4, <2>1, <3>2, SMTT(30) DEF RingDoorbell
  <2>6. MatchInv'
    BY <1>4, <2>1, <2>3, <2>5, SMTT(30) DEF RingDoorbell, MatchInv
  <2> QED BY <2>2, <2>4, <2>6
<1>5. CASE Return(c)
  <2>1. CommandTypeOK'
    BY <1>5 DEF Return, CommandTypeOK, deviceVars
  <2> QED BY <1>5, <2>1, Zenon DEF Return, LiveInv, MatchInv, DoneInv, CommandTypeOK, deviceVars
<1> QED BY <1>1, <1>2, <1>3, <1>4, <1>5 DEF Queueing

-----------------------------------------------------------------------------
(* The worker queues a command itself: list, ring and device get the same    *)
(* one.                                                                      *)
LEMMA QueuesMatch ==
  ASSUME CommandsInv, lock = None, worker.pc \in {"idle", "deleted"}, WorkerQueues,
         done' = done, events' = events
  PROVE  /\ list' \in Seq(1..MaxCmds) /\ ring' \in Seq(1..MaxCmds)
         /\ devq' \in Seq(1..MaxCmds) /\ Len(ring') <= Room
         /\ timer' \in 0..MaxCmds /\ issued' \in 0..MaxCmds
         /\ DoneInv' /\ list' = ring'
         /\ worker.pc = "idle" => events' \o devq' = ring'
         /\ worker.pc = "deleted" =>
              /\ ring' # <<>> /\ Head(ring') = worker.cmd
              /\ events' \o devq' = Tail(ring')
<1> DEFINE n == issued + 1
<1>1. /\ list \in Seq(Cmds) /\ ring \in Seq(Cmds) /\ devq \in Seq(Cmds)
      /\ events \in Seq(Cmds) /\ issued \in 0..MaxCmds /\ timer \in 0..MaxCmds
  BY DEF CommandsInv, CommandTypeOK, Cmds
<1>2. /\ n \in 1..MaxCmds /\ issued' = n /\ Len(ring) < Room
      /\ list' = Append(list, n) /\ ring' = Append(ring, n)
      /\ dying = "no" /\ state = "running" /\ devq' = Append(devq, n)
      /\ timer' \in {timer, n}
  BY <1>1 DEF WorkerQueues, CommandsInv, CommandInv, StepInv
<1>3. DoneInv'
  BY <1>2, DoneGrows DEF CommandsInv, WorkerQueues
<1>4. list = ring
  BY <1>2 DEF CommandsInv, MatchInv
<1>5. n \in Cmds
  BY <1>2 DEF Cmds
<1> HIDE DEF n
<1>6. /\ list' \in Seq(Cmds) /\ ring' \in Seq(Cmds) /\ devq' \in Seq(Cmds)
      /\ Len(ring') <= Room
  <2>1. \A s \in Seq(Cmds) : Append(s, n) \in Seq(Cmds) /\ Len(Append(s, n)) = Len(s) + 1
    BY <1>5
  <2>2. Len(ring) + 1 <= Room
    BY <1>1, <1>2
  <2> QED BY <1>1, <1>2, <2>1, <2>2
<1>7. events' \o devq' = Append(events \o devq, n)
  <2>1. \A s, t \in Seq(Cmds) : s \o Append(t, n) = Append(s \o t, n)
    BY <1>5, AppendRight
  <2>2. events' = events /\ devq' = Append(devq, n)
    BY <1>2
  <2> QED BY <1>1, <2>1, <2>2, Zenon
<1>8. ASSUME worker.pc = "deleted"
      PROVE  ring' # <<>> /\ Head(ring') = worker.cmd /\ events' \o devq' = Tail(ring')
  <2>1. ring # <<>> /\ Head(ring) = worker.cmd /\ events \o devq = Tail(ring)
    BY <1>2, <1>8 DEF CommandsInv, MatchInv
  <2>2. \A s \in Seq(Cmds) : s # <<>> => /\ Append(s, n) # <<>> /\ Head(Append(s, n)) = Head(s)
                                        /\ Tail(Append(s, n)) = Append(Tail(s), n)
    BY <1>5, TailAppend
  <2>3. ring \in Seq(Cmds) /\ ring' = Append(ring, n)
    BY <1>1, <1>2
  <2> QED BY <1>7, <2>1, <2>2, <2>3, Zenon
<1>9. worker.pc = "idle" => events' \o devq' = ring'
  BY <1>2, <1>7 DEF CommandsInv, MatchInv
<1>10. timer' \in 0..MaxCmds /\ issued' \in 0..MaxCmds
  BY <1>1, <1>2
<1> QED BY <1>2, <1>3, <1>4, <1>6, <1>8, <1>9, <1>10, Zenon DEF Cmds

(* What the worker does.                                                     *)
LEMMA WorkerMatch ==
  ASSUME CommandsInv, lock = None, WorkerStep \/ HaltedEndpoint
  PROVE  CommandTypeOK' /\ LiveInv' /\ MatchInv' /\ DoneInv'
<1> USE DEF CommandsInv, CommandInv
<1>0. /\ list \in Seq(1..MaxCmds) /\ ring \in Seq(1..MaxCmds)
      /\ devq \in Seq(1..MaxCmds) /\ events \in Seq(1..MaxCmds)
  BY DEF CommandTypeOK
<1>1. \A c \in Clients : pc[c] \notin {"queued", "timed"}
  BY DEF StepInv
<1>2. CASE Completion
  <2>1. Head(events) \in 1..MaxCmds /\ Tail(events) \in Seq(1..MaxCmds)
    BY <1>0, <1>2, HeadAndTail DEF Completion
  <2>2. CommandTypeOK'
    <3>1. worker' \in [pc : {"idle", "matched", "deleted", "handled", "checked",
                            "completed"},
                      cmd : 0..MaxCmds]
      BY <1>2, <2>1 DEF Completion, Idle
    <3> QED BY <1>2, <2>1, <3>1, Zenon DEF Completion, CommandTypeOK
  <2>3. LiveInv' /\ DoneInv'
    BY <1>1, <1>2 DEF Completion, LiveInv, DoneInv, Idle
  <2>4. ASSUME dying = "no" PROVE worker'.pc = "matched" /\ worker'.cmd = Head(ring)
                                   /\ ring # <<>> /\ list = ring
                                   /\ events' \o devq' = Tail(ring)
    <3>1. list = ring /\ events \o devq = ring
      BY <1>2, <2>4 DEF Completion, MatchInv, Idle
    <3>2. ring # <<>> /\ Head(ring) = Head(events) /\ Tail(events) \o devq = Tail(ring)
      BY <1>0, <1>2, <3>1, TailLeft, Zenon DEF Completion
    <3> QED BY <1>2, <2>4, <3>1, <3>2 DEF Completion
  <2>5. MatchInv'
    BY <1>1, <1>2, <2>4 DEF Completion, MatchInv
  <2> QED BY <2>2, <2>3, <2>5
<1>3. CASE DeleteTimer
  <2>1. CommandTypeOK'
    BY <1>3, WorkerMoves DEF DeleteTimer, CommandTypeOK, deviceVars
  <2>2. LiveInv' /\ DoneInv'
    BY <1>1, <1>3 DEF DeleteTimer, LiveInv, DoneInv
  <2>3. worker'.pc = "deleted" /\ worker'.cmd = worker.cmd
    BY <1>3 DEF DeleteTimer, StepInv
  <2>4. MatchInv'
    BY <1>1, <1>3, <2>3 DEF DeleteTimer, MatchInv, deviceVars
  <2> QED BY <2>1, <2>2, <2>4
<1>4. CASE HandleCommand
  <2>1. worker'.pc = "handled" /\ worker'.cmd = worker.cmd /\ dying = "no" /\ dying' = "no"
        /\ lock' = lock /\ pc' = pc
    BY <1>4, WorkerMoves DEF HandleCommand, StepInv, LiveInv
  <2>2. CASE WorkerQueues
    <3>1. CommandTypeOK'
      <4>1. worker' \in [pc : {"idle", "matched", "deleted", "handled", "checked",
                            "completed"},
                      cmd : 0..MaxCmds]
        BY <1>4, WorkerMoves DEF HandleCommand
      <4>2. /\ list' \in Seq(1..MaxCmds) /\ ring' \in Seq(1..MaxCmds)
            /\ devq' \in Seq(1..MaxCmds) /\ Len(ring') <= Room
            /\ timer' \in 0..MaxCmds /\ issued' \in 0..MaxCmds
        BY <1>4, <2>2, QueuesMatch DEF HandleCommand
      <4>3. stop' \in 0..Unqueued
        BY <1>4 DEF HandleCommand, CommandTypeOK, Unqueued
      <4> QED BY <1>4, <4>1, <4>2, <4>3, SMTT(30) DEF HandleCommand, CommandTypeOK
    <3>2. LiveInv' /\ DoneInv'
      BY <1>1, <1>4, <2>1, <2>2, QueuesMatch DEF HandleCommand, LiveInv
    <3>3. MatchInv'
      BY <1>1, <1>4, <2>1, <2>2, QueuesMatch, Zenon DEF HandleCommand, MatchInv
    <3> QED BY <3>1, <3>2, <3>3
  <2>3. CASE UNCHANGED <<issued, list, timer, ring, devq>>
    <3>1. CommandTypeOK'
      <4>1. worker' \in [pc : {"idle", "matched", "deleted", "handled", "checked",
                            "completed"},
                      cmd : 0..MaxCmds]
        BY <1>4, WorkerMoves DEF HandleCommand
      <4>2. stop' \in 0..Unqueued
        BY <1>4 DEF HandleCommand, CommandTypeOK, Unqueued
      <4> QED BY <1>4, <2>3, <4>1, <4>2 DEF HandleCommand, CommandTypeOK
    <3>2. LiveInv' /\ DoneInv'
      BY <1>1, <1>4, <2>1, <2>3 DEF HandleCommand, LiveInv, DoneInv
    <3>3. MatchInv'
      BY <1>1, <1>4, <2>1, <2>3 DEF HandleCommand, MatchInv
    <3> QED BY <3>1, <3>2, <3>3
  <2> QED BY <1>4, <2>2, <2>3 DEF HandleCommand
<1>5. CASE RestartTimer
  <2>1. Len(list) > 1 => list[2] \in 1..MaxCmds
    BY <1>0, AtPlace
  <2>2. CommandTypeOK'
    <3>1. worker' \in [pc : {"idle", "matched", "deleted", "handled", "checked",
                            "completed"},
                      cmd : 0..MaxCmds]
      BY <1>5, WorkerMoves DEF RestartTimer
    <3>2. timer' \in 0..MaxCmds
      BY <1>5, <2>1 DEF RestartTimer, CommandTypeOK
    <3> QED BY <1>5, <3>1, <3>2 DEF RestartTimer, CommandTypeOK, deviceVars
  <2>3. LiveInv' /\ DoneInv'
    BY <1>1, <1>5 DEF RestartTimer, LiveInv, DoneInv
  <2>4. worker'.pc = "checked" /\ worker'.cmd = worker.cmd
    BY <1>5 DEF RestartTimer, StepInv
  <2>5. MatchInv'
    BY <1>1, <1>5, <2>4 DEF RestartTimer, MatchInv, deviceVars
  <2> QED BY <2>2, <2>3, <2>5
<1>6. CASE CompleteCommand
  <2>1. /\ dying = "no" /\ list = ring /\ ring # <<>> /\ worker.cmd = Head(list)
        /\ events \o devq = Tail(ring)
    BY <1>6 DEF CompleteCommand, LiveInv, MatchInv
  <2>2. list' = Tail(list) /\ list' \in Seq(1..MaxCmds) /\ Head(list) = list[1]
    BY <1>0, <1>6, <2>1, HeadAndTail DEF CompleteCommand, First
  <2>3. DoneInv' /\ done' \in [1..MaxCmds -> Nat]
    BY <1>6, <2>1, <2>2, DoneShrinks DEF CompleteCommand
  <2>4. CommandTypeOK'
    BY <1>6, <2>2, <2>3, WorkerMoves, Zenon DEF CompleteCommand, CommandTypeOK, deviceVars
  <2>5. worker'.pc = "completed"
    BY <1>6 DEF CompleteCommand, StepInv
  <2>6. LiveInv' /\ MatchInv'
    BY <1>1, <1>6, <2>1, <2>2, <2>5 DEF CompleteCommand, LiveInv, MatchInv, deviceVars
  <2> QED BY <2>3, <2>4, <2>6
<1>7. CASE IncDeq
  <2>1. dying = "no" /\ ring # <<>> /\ list = Tail(ring) /\ events \o devq = Tail(ring)
    BY <1>7 DEF IncDeq, LiveInv, MatchInv
  <2>2. ring' = Tail(ring) /\ ring' \in Seq(1..MaxCmds) /\ Len(ring') <= Room
    BY <1>0, <1>7, <2>1, HeadAndTail DEF IncDeq, CommandTypeOK
  <2>3. CommandTypeOK'
    BY <1>7, <2>2, SMTT(20) DEF IncDeq, CommandTypeOK, Idle, deviceVars
  <2>4. LiveInv' /\ DoneInv'
    BY <1>1, <1>7 DEF IncDeq, LiveInv, DoneInv, Idle
  <2>5. MatchInv'
    BY <1>1, <1>7, <2>1, <2>2 DEF IncDeq, MatchInv, Idle, deviceVars
  <2> QED BY <2>3, <2>4, <2>5
<1>8. CASE HaltedEndpoint
  <2>1. worker.pc = "idle" /\ dying = "no" /\ WorkerQueues
    BY <1>8 DEF HaltedEndpoint, WorkerQueues, Idle
  <2>2. CommandTypeOK'
    BY <1>8, <2>1, QueuesMatch, Zenon DEF HaltedEndpoint, CommandTypeOK
  <2>3. LiveInv' /\ DoneInv'
    BY <1>1, <1>8, <2>1, QueuesMatch DEF HaltedEndpoint, LiveInv
  <2>4. MatchInv'
    BY <1>1, <1>8, <2>1, QueuesMatch, SMTT(30) DEF HaltedEndpoint, MatchInv
  <2> QED BY <2>2, <2>3, <2>4
<1> QED BY <1>2, <1>3, <1>4, <1>5, <1>6, <1>7, <1>8 DEF WorkerStep

(* What the timers and the clean-up do.                                      *)
LEMMA TimeoutMatch ==
  ASSUME ~Smp, CommandsInv, TimerStep
  PROVE  CommandTypeOK' /\ LiveInv' /\ MatchInv' /\ DoneInv'
<1> USE DEF CommandsInv, CommandInv
<1>1. ASSUME TimeOver PROVE \A c \in Clients : pc[c] \notin {"queued", "timed"}
  BY <1>1 DEF TimeOver, StepInv
<1>2. CASE CommandTimeout
  <2>1. CommandTypeOK'
    BY <1>2 DEF CommandTimeout, CommandTypeOK, deviceVars
  <2> QED BY <1>1, <1>2, <2>1 DEF CommandTimeout, TimeOver, LiveInv, MatchInv, DoneInv, Idle
<1>3. CASE TimeoutOnStoppedRing
  <2>1. CommandTypeOK'
    BY <1>3 DEF TimeoutOnStoppedRing, CommandTypeOK, deviceVars
  <2>2. dying # "no"
    BY <1>3 DEF TimeoutOnStoppedRing, StepInv
  <2> QED BY <1>1, <1>3, <2>1, <2>2 DEF TimeoutOnStoppedRing, LiveInv, MatchInv, DoneInv
<1>4. CASE Watchdog
  <2>1. CommandTypeOK'
    BY <1>4, SMTT(30) DEF Watchdog, CommandTypeOK, Unqueued, deviceVars
  <2>2. dying' # "no"
    BY <1>4 DEF Watchdog
  <2> QED BY <1>1, <1>4, <2>1, <2>2 DEF Watchdog, TimeOver, LiveInv, MatchInv, DoneInv, Idle
<1>5. CASE CleanupCommand
  <2>1. dying # "no" /\ dying' = dying
    BY <1>5 DEF CleanupCommand, StepInv
  <2>2. CASE list = <<>>
    <3>1. CommandTypeOK'
      BY <1>5, <2>2, SMTT(30) DEF CleanupCommand, CommandTypeOK, deviceVars
    <3> QED BY <1>5, <2>1, <2>2, <3>1 DEF CleanupCommand, LiveInv, MatchInv, DoneInv
  <2>3. CASE list # <<>>
    <3>1. list \in Seq(Cmds)
      BY DEF CommandTypeOK, Cmds
    <3>2. list' = Tail(list) /\ list' \in Seq(Cmds) /\ Head(list) = list[1]
      BY <1>5, <2>3, <3>1, HeadAndTail DEF CleanupCommand
    <3>3. DoneInv' /\ done' \in [1..MaxCmds -> Nat]
      BY <1>5, <2>3, <3>2, DoneShrinks DEF CleanupCommand
    <3>4. CommandTypeOK'
      BY <1>5, <2>3, <3>2, <3>3, Zenon DEF CleanupCommand, CommandTypeOK, deviceVars, Cmds
    <3>5. LiveInv' /\ MatchInv'
      BY <1>5, <2>1 DEF CleanupCommand, LiveInv, MatchInv
    <3> QED BY <3>3, <3>4, <3>5
  <2> QED BY <2>2, <2>3
<1> QED BY <1>2, <1>3, <1>4, <1>5 DEF TimerStep

(* What the device does.                                                     *)
LEMMA DeviceMatch ==
  ASSUME CommandsInv, Execute \/ Dies
  PROVE  CommandTypeOK' /\ LiveInv' /\ MatchInv' /\ DoneInv'
<1> USE DEF CommandsInv, CommandInv
<1>1. CASE Execute
  <2>1. events \in Seq(Cmds) /\ devq \in Seq(Cmds) /\ devq # <<>>
    BY <1>1 DEF Execute, CommandTypeOK, Cmds
  <2>2. Head(devq) \in Cmds /\ Tail(devq) \in Seq(Cmds)
    BY <2>1, HeadAndTail
  <2>3. events' \in Seq(Cmds) /\ devq' \in Seq(Cmds)
    BY <1>1, <2>1, <2>2 DEF Execute
  <2>4. CommandTypeOK'
    BY <1>1, <2>3, Zenon DEF Execute, CommandTypeOK, Cmds
  <2>5. events' \o devq' = events \o devq
    BY <1>1, <2>1, Moved, SMTT(30) DEF Execute
  <2> QED BY <1>1, <2>4, <2>5, Zenon DEF Execute, LiveInv, MatchInv, DoneInv
<1>2. CASE Dies
  <2>1. CommandTypeOK'
    BY <1>2 DEF Dies, CommandTypeOK
  <2> QED BY <1>2, <2>1 DEF Dies, LiveInv, MatchInv, DoneInv
<1> QED BY <1>1, <1>2

(* List, ring and events agree on every command of a live host, and no       *)
(* command is completed twice, whether the device answers in time, late or   *)
(* never: CommandsMatch, for any number of threads and commands, when        *)
(* threads and worker do not overlap.                                        *)
THEOREM CommandsMatchHolds == ASSUME ~Smp PROVE Spec => []CommandsMatch
<1> DEFINE MInv == CommandTypeOK /\ LiveInv /\ MatchInv /\ DoneInv
<1>1. CommandInv /\ MInv /\ [Next]_vars => MInv'
  <2> SUFFICES ASSUME CommandsInv, [Next]_vars
               PROVE  CommandTypeOK' /\ LiveInv' /\ MatchInv' /\ DoneInv'
    BY DEF CommandsInv
  <2>1. CASE UNCHANGED vars
    <3> USE <2>1 DEF vars, deviceVars, CommandsInv
    <3>1. CommandTypeOK'
      BY DEF CommandTypeOK
    <3>2. LiveInv'
      BY DEF LiveInv
    <3>3. MatchInv'
      BY DEF MatchInv
    <3>4. DoneInv'
      BY DEF DoneInv
    <3> QED BY <3>1, <3>2, <3>3, <3>4
  <2> QED BY <2>1, ClientMatch, WorkerMatch, TimeoutMatch, DeviceMatch DEF Next
<1>2. MInv => CommandsMatch
  <2> SUFFICES ASSUME MInv PROVE EventsMatchCommands /\ CompletedOnce
    BY DEF CommandsMatch
  <2>1. EventsMatchCommands
    BY DEF EventsMatchCommands, Settled, MatchInv, Idle
  <2> QED BY <2>1 DEF CompletedOnce, DoneInv
<1>3. Init => MInv
  BY InitMatch
<1> HIDE DEF MInv
<1> QED BY <1>1, <1>2, <1>3, CommandInvariance, PTL DEF Spec
=============================================================================
