----------------------------- MODULE MCCommands -----------------------------
(* The command queue and the cancellation of URBs for model checking.  Each  *)
(* behaviour explores one: UrbCancel sees of the command queue only that its *)
(* commands are executed in order.                                           *)
EXTENDS CommandQueue, UrbCancel

VARIABLE part   \* the one that is explored

MCInit == part \in {"commands", "cancel"} /\ Init /\ CancelInit

Commands == part = "commands" /\ Next /\ UNCHANGED <<part, cancelVars>>
Cancel == part = "cancel" /\ CancelNext /\ UNCHANGED <<part, vars>>

(* No action that fairness is assumed of is enabled in an initial state: the *)
(* fairness of the one that is not explored says nothing.                    *)
MCFairSpec ==
  /\ MCInit /\ [][Commands \/ Cancel]_<<part, vars, cancelVars>>
  /\ Fairness /\ CancelFairness
=============================================================================
