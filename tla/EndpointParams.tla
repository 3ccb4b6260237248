--------------------------- MODULE EndpointParams ---------------------------
(***************************************************************************)
(* What ehub_xhci_endpoint_init puts into an endpoint context: the service *)
(* interval, packet size, burst and payload that the controller schedules  *)
(* the endpoint by, computed from the endpoint's descriptor, and the index *)
(* of the context.                                                         *)
(*                                                                         *)
(* The root hub is a USB 2 hub, so devices are of high, full or low speed. *)
(* Unsigned int is Width bits wide.                                        *)
(***************************************************************************)
EXTENDS Integers, FiniteSetsExt

CONSTANTS
  Width,      \* bits of an unsigned int
  Numbers,    \* endpoint numbers
  Sizes       \* packet sizes of descriptors

ASSUME ParamsAssumption ==
  Width \in 9 .. 30 /\ Numbers \subseteq 1 .. 15 /\ Sizes \subseteq 1 .. 1024

VARIABLES
  desc,     \* the endpoint's descriptor and the speed of its device
  ep_ctx    \* the endpoint context, empty until it is made

paramVars == <<desc, ep_ctx>>

NoContext == [made |-> FALSE]

(* The range of bInterval that the USB core lets through when it parses a    *)
(* configuration.                                                            *)
Intervals(speed, type) ==
  CASE type = "isoc" -> 1 .. 16
    [] type = "int" -> IF speed = "high" THEN 1 .. 16 ELSE 1 .. 255
    [] OTHER -> 0 .. 255

Periodic(d) == d.type \in {"int", "isoc"}

(* mult is bits 11 and 12 of wMaxPacketSize, the additional transactions per *)
(* microframe of a high speed endpoint.                                      *)
ParamsInit ==
  /\ \E speed \in {"high", "full", "low"}, type \in {"ctrl", "bulk", "isoc", "int"} :
     \E b \in Intervals(speed, type), n \in Numbers, in \in BOOLEAN,
        size \in Sizes,
        mult \in IF speed = "high" /\ type \in {"isoc", "int"} THEN 0 .. 2 ELSE {0} :
       /\ speed = "low" => type \in {"ctrl", "int"}
       /\ desc = [speed |-> speed, type |-> type, bInterval |-> b,
                  number |-> IF type = "ctrl" THEN 0 ELSE n, in |-> in,
                  maxp |-> size, mult |-> mult]
  /\ ep_ctx = NoContext

(* The position of the highest bit set, from 1; 0 when there is none.        *)
Fls(n) == IF n = 0 THEN 0 ELSE Max({k \in 1 .. Width : 2^(k - 1) <= n})

Clamp(n, low, high) == IF n < low THEN low ELSE IF n > high THEN high ELSE n

(* xhci_microframes_to_exponent                                              *)
FaultyMicroframesToExponent(asked, low, high) == Clamp(Fls(asked) % 2^Width, low, high)
MicroframesToExponent(asked, low, high) == Clamp((Fls(asked) - 1) % 2^Width, low, high)

(* xhci_parse_exponent_interval                                              *)
ParseExponentInterval(d) ==
  Clamp(d.bInterval, 1, 16) - 1 + (IF d.speed = "full" THEN 3 ELSE 0)

(* xhci_parse_microframe_interval                                            *)
ParseMicroframeInterval(d) ==
  IF d.bInterval = 0 THEN 0 ELSE MicroframesToExponent(d.bInterval, 0, 15)

(* xhci_parse_frame_interval                                                 *)
ParseFrameInterval(d) == MicroframesToExponent(d.bInterval * 8, 3, 10)

(* xhci_get_endpoint_interval                                                *)
EndpointInterval(d) ==
  CASE d.speed = "high" /\ ~Periodic(d) -> ParseMicroframeInterval(d)
    [] d.speed = "high" /\ Periodic(d) -> ParseExponentInterval(d)
    [] d.speed = "full" /\ d.type = "isoc" -> ParseExponentInterval(d)
    [] d.speed # "high" /\ d.type = "int" -> ParseFrameInterval(d)
    [] OTHER -> 0

(* xhci_get_max_esit_payload                                                 *)
MaxEsitPayload(d) == IF Periodic(d) THEN d.maxp * (d.mult + 1) ELSE 0

(* The burst that ehub_xhci_endpoint_init takes from the descriptor.         *)
FaultyMaxBurst(d) == IF d.type = "isoc" THEN d.mult ELSE 0
MaxBurst(d) == IF d.speed = "high" /\ Periodic(d) THEN d.mult ELSE 0

(* "Some devices get this wrong": a bulk endpoint of high speed has 512.     *)
ContextPacket(d) == IF d.speed = "high" /\ d.type = "bulk" THEN 512 ELSE d.maxp

(* ehub_xhci_get_endpoint_index                                              *)
FaultyEndpointIndex(d) ==
  IF d.type = "ctrl" THEN 2 * d.number ELSE 2 * d.number + (IF d.in THEN 1 ELSE 0)
EndpointIndex(d) ==
  IF d.type = "ctrl" THEN 2 * d.number ELSE 2 * d.number + (IF d.in THEN 1 ELSE 0) - 1

(* ehub_xhci_get_endpoint_address                                            *)
EndpointAddress(index) ==
  [number |-> (index + 1) \div 2, in |-> index % 2 = 0]

EndpointContext ==
  /\ ~ep_ctx.made
  /\ ep_ctx' = [made |-> TRUE, index |-> EndpointIndex(desc),
                interval |-> EndpointInterval(desc) % 256,
                cerr |-> IF desc.type = "isoc" THEN 0 ELSE 3,
                maxPacket |-> ContextPacket(desc), maxBurst |-> MaxBurst(desc),
                esit |-> MaxEsitPayload(desc)]
  /\ UNCHANGED desc

ParamsNext == EndpointContext

ParamsSpec == ParamsInit /\ [][ParamsNext]_paramVars

-----------------------------------------------------------------------------
(* The time between two services that the descriptor asks for, in            *)
(* microframes, as the USB specification defines bInterval; 0 when the       *)
(* endpoint asks for none.                                                   *)
Asked(d) ==
  CASE d.type = "isoc" \/ (d.type = "int" /\ d.speed = "high") ->
         2^(d.bInterval - 1) * (IF d.speed = "full" THEN 8 ELSE 1)
    [] d.type = "int" /\ d.speed # "high" -> 8 * d.bInterval
    [] d.speed = "high" /\ ~Periodic(d) -> d.bInterval
    [] OTHER -> 0

(* "rounded down to nearest power of 2": the controller serves an endpoint   *)
(* at least as often as it asks, and not twice as often.                     *)
IntervalKept ==
  ep_ctx.made /\ Asked(desc) > 0 =>
    2^ep_ctx.interval <= Asked(desc) /\ Asked(desc) < 2 * 2^ep_ctx.interval

(* The payload that bandwidth is reserved for is what the controller may     *)
(* move in one interval under the packet size and burst of the same context, *)
(* though the two are computed apart.                                        *)
PayloadIsMovable ==
  ep_ctx.made /\ Periodic(desc) => ep_ctx.esit = ep_ctx.maxPacket * (ep_ctx.maxBurst + 1)

(* The index of a context leads back to the endpoint: an event carries the   *)
(* index, the endpoint's rings and flags are found by it.                    *)
IndexLeadsBack ==
  ep_ctx.made /\ desc.type # "ctrl" =>
    EndpointAddress(ep_ctx.index) = [number |-> desc.number, in |-> desc.in]

(* Together: an endpoint context says what its descriptor says.              *)
ParamsRight == IntervalKept /\ PayloadIsMovable /\ IndexLeadsBack
=============================================================================
