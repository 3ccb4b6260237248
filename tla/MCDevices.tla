------------------------------ MODULE MCDevices -----------------------------
(* The services around the rings that share no state, for model checking:    *)
(* each behaviour explores one of them.                                      *)
EXTENDS DeviceSlots, EndpointConfig, RootHub, CacheService, MemoryRequests, Lifecycle

VARIABLE part   \* the one that is explored

(* The actors of the cache never ask for more than its three blocks: either  *)
(* both URBs, or the larger one and a ring segment.  README.md says what     *)
(* happens when too few are free.                                            *)
(* One URB that fills two blocks of the cache, and one that fills one.       *)
MCNeeds == [u \in Isoc |-> IF u = "u1" THEN 2 ELSE 1]

MCInit ==
  /\ part \in {"slots", "endpoints", "hub", "cache", "requests", "life"}
  /\ SlotsInit /\ CfgInit /\ HubInit /\ CacheInit /\ RequestsInit /\ LifeInit
  /\ IF part = "cache" THEN segment.asked < MaxSegments => uPhase["u2"] = "returned"
     ELSE segment.asked = 0 /\ \A u \in Isoc : uPhase[u] = "returned"

SlotsPart == /\ part = "slots" /\ SlotsNext
           /\ UNCHANGED <<part, cfgVars, hubVars, cacheVars, requestVars, lifeVars>>
EndpointsPart == /\ part = "endpoints" /\ CfgNext
              /\ UNCHANGED <<part, slotVars, hubVars, cacheVars, requestVars, lifeVars>>
HubPart == /\ part = "hub" /\ HubNext
          /\ UNCHANGED <<part, slotVars, cfgVars, cacheVars, requestVars, lifeVars>>
CachePart == /\ part = "cache" /\ CacheNext
          /\ UNCHANGED <<part, slotVars, cfgVars, hubVars, requestVars, lifeVars>>
RequestsPart == /\ part = "requests" /\ RequestsNext
             /\ UNCHANGED <<part, slotVars, cfgVars, hubVars, cacheVars, lifeVars>>
LifePart == /\ part = "life" /\ LifeNext
         /\ UNCHANGED <<part, slotVars, cfgVars, hubVars, cacheVars, requestVars>>

mcVars == <<part, slotVars, cfgVars, hubVars, cacheVars, requestVars, lifeVars>>

(* No action that fairness is assumed of is enabled in an initial state: the *)
(* fairness of the parts that are not explored says nothing.                 *)
MCFairSpec ==
  /\ MCInit
  /\ [][SlotsPart \/ EndpointsPart \/ HubPart \/ CachePart \/ RequestsPart \/ LifePart]_mcVars
  /\ SlotsFairness /\ HubFairness /\ CacheFair /\ RequestsFair
=============================================================================
