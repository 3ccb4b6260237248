--------------------------- MODULE MCTransferRing ---------------------------
(* Instances of TransferRing for TLC.                                        *)
EXTENDS TransferRing

(* Bulk URBs of one TD, and isochronous ones of two.                         *)
MixedUrbs == {<<1>>, <<3>>, <<1, 2>>}
LongUrbs == {<<1>>, <<3>>}

(* The device is not on the link TRB of enq_seg waiting to follow it from an *)
(* earlier round of the ring.                                                *)
DeviceKeepsUp == at.slot = <<enq[1], LinkOff>> => executed = queued

(* The ring is expanded only while the device keeps up.                      *)
KeepsUpNext == Next /\ (segs' # segs => DeviceKeepsUp)

KeepsUpSpec == Init /\ [][KeepsUpNext]_vars

FairKeepsUpSpec == KeepsUpSpec /\ Fairness
=============================================================================
