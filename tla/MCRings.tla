------------------------------- MODULE MCRings ------------------------------
(* The bookkeeping and the computations of the driver that share no state,   *)
(* for model checking: each behaviour explores one of them.                  *)
EXTENDS RingAccounting, RingWalk, TransferResult, TrbLayout, PortArrays, EndpointParams

VARIABLE part   \* the one that is explored

MCInit ==
  /\ part \in {"accounting", "walk", "result", "layout", "ports", "params"}
  /\ Init
  /\ part # "walk" => /\ block = [i \in 0..(Segs - 1) |-> i]
                      /\ walkDeq = 0 /\ span = 0 /\ hw = 0 /\ hwCycle = 0
  /\ WalkInit
  /\ part # "result" => kind = "ctrl" /\ len = <<0, 0>> /\ noops = 0 /\ strict = FALSE
  /\ ResultInit
  /\ IF part = "layout" THEN LayoutInit
     ELSE /\ urbKind = "bulk" /\ left = 0 /\ urbBytes = 0 /\ entry = 1 /\ addr = 0
          /\ request = [bufs |-> <<<<0, 1>>>>, length |-> 1, offset |-> 0,
                        size |-> Boundary, v1 |-> TRUE]
          /\ entryLeft = 1 /\ trbs = <<>> /\ outcome = "counting"
  /\ part # "ports" => nonRemovable = {}
  /\ PortsInit
  /\ IF part = "params" THEN ParamsInit
     ELSE /\ desc = [speed |-> "high", type |-> "bulk", bInterval |-> 0,
                     number |-> 1, in |-> FALSE, maxp |-> 1, mult |-> 0]
          /\ ep_ctx = NoContext

Account == /\ part = "accounting" /\ Next
           /\ UNCHANGED <<part, walkVars, resultVars, layoutVars, portVars, paramVars>>
Walk == /\ part = "walk" /\ WalkNext
        /\ UNCHANGED <<part, vars, resultVars, layoutVars, portVars, paramVars>>
Result == /\ part = "result" /\ ResultNext
          /\ UNCHANGED <<part, vars, walkVars, layoutVars, portVars, paramVars>>
Layout == /\ part = "layout" /\ LayoutNext
          /\ UNCHANGED <<part, vars, walkVars, resultVars, portVars, paramVars>>
SetupPorts == /\ part = "ports" /\ PortsNext
              /\ UNCHANGED <<part, vars, walkVars, resultVars, layoutVars, paramVars>>
Params == /\ part = "params" /\ ParamsNext
          /\ UNCHANGED <<part, vars, walkVars, resultVars, layoutVars, portVars>>

mcVars == <<part, vars, walkVars, resultVars, layoutVars, portVars, paramVars>>

MCSpec ==
  MCInit /\ [][Account \/ Walk \/ Result \/ Layout \/ SetupPorts \/ Params]_mcVars
=============================================================================
