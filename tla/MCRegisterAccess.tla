-------------------------- MODULE MCRegisterAccess --------------------------
(* Instances of RegisterAccess for TLC.                                      *)
EXTENDS RegisterAccess

(* The clients have used up their calls: the bounded system may rest.  That  *)
(* nobody is left waiting then is CallsReturn.                               *)
AtRest == issued >= MaxCalls /\ UNCHANGED vars

MCNext == Next \/ AtRest

MCSpec == Init /\ [][MCNext]_vars

MCFairSpec == MCSpec /\ Fairness
=============================================================================
