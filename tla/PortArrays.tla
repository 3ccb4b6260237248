----------------------------- MODULE PortArrays -----------------------------
(***************************************************************************)
(* Which hardware port is which port of the root hub.  When the host is    *)
(* set up, xhci_setup_port_arrays walks the controller's extended          *)
(* capabilities; each protocol capability names a range of ports and the   *)
(* revision they speak, and xhci_add_in_port enters them in port_array.    *)
(* The USB 2 ports and the USB 3 ports are then listed apart.  A port      *)
(* status event carries the hardware number of a port and the hub's        *)
(* requests carry its place in the list, so the driver translates both     *)
(* ways for as long as it runs.                                            *)
(*                                                                         *)
(* Ports are numbered from 1 here; port_array and the lists start at 0.    *)
(***************************************************************************)
EXTENDS Integers, Sequences, FiniteSetsExt

CONSTANTS
  NumPorts,   \* HCS_MAX_PORTS
  MaxUsb2,    \* USB_MAXCHILDREN, the most ports of the USB 2 root hub
  MaxUsb3,    \* 15, the most ports of the USB 3 root hub
  MaxCaps     \* bound: protocol capabilities of the controller

ASSUME PortsAssumption ==
  NumPorts \in Nat \ {0} /\ {MaxUsb2, MaxUsb3, MaxCaps} \subseteq Nat

HwPorts == 1 .. NumPorts

DUPLICATE_ENTRY == 255

VARIABLES
  port_array,    \* revision of each hardware port, 0 when unknown
  num_usb2_ports,
  num_usb3_ports,
  usb2_ports,    \* the hardware ports under the USB 2 root hub
  usb3_ports,
  ext_caps,      \* capabilities whose lpm bits were kept
  capsRead,      \* capabilities read so far
  nonRemovable,  \* DEV_REMOVE in the ports' registers
  usb2_port_removable,
  setup          \* "scan", "list2", "list3", "ready" or "failed"

portVars == <<port_array, num_usb2_ports, num_usb3_ports, usb2_ports, usb3_ports,
              ext_caps, capsRead, nonRemovable, usb2_port_removable, setup>>

PortsInit ==
  /\ port_array = [p \in HwPorts |-> 0]
  /\ num_usb2_ports = 0 /\ num_usb3_ports = 0
  /\ usb2_ports = <<>> /\ usb3_ports = <<>>
  /\ ext_caps = 0 /\ capsRead = 0
  /\ nonRemovable \in SUBSET HwPorts
  /\ usb2_port_removable = [p \in HwPorts |-> FALSE]
  /\ setup = "scan"

(* Every register read of the setup gives it up when the device is gone.     *)
SetupFails ==
  /\ setup = "scan"
  /\ setup' = "failed"
  /\ UNCHANGED <<port_array, num_usb2_ports, num_usb3_ports, usb2_ports, usb3_ports,
                 ext_caps, capsRead, nonRemovable, usb2_port_removable>>

(* A range that says nothing: an unknown revision, or ports that the         *)
(* controller does not have.                                                 *)
Ignored(major, offset, count) ==
  major > 3 \/ offset = 0 \/ offset + count - 1 > NumPorts

(* The entry of a port inside a range.                                       *)
Entered(p, major) ==
  CASE port_array[p] = 0 -> major
    [] port_array[p] \notin {0, major, DUPLICATE_ENTRY} -> DUPLICATE_ENTRY
    [] OTHER -> port_array[p]

(* What entering the range adds to the count of the ports of revision major, *)
(* and what it takes from the count of the others.                           *)
Gained(ports) == Quantify(ports, LAMBDA p : port_array[p] = 0)
FaultyLost(ports, major, usb3) ==
  Quantify(ports, LAMBDA p : port_array[p] \notin {0, major}
                             /\ (port_array[p] = 3) = usb3)
Lost(ports, major, usb3) ==
  Quantify(ports, LAMBDA p : port_array[p] \notin {0, major, DUPLICATE_ENTRY}
                             /\ (port_array[p] = 3) = usb3)

AddInPort(major, offset, count) ==
  LET ports == offset .. (offset + count - 1) IN
  /\ setup = "scan" /\ capsRead < MaxCaps
  /\ num_usb2_ports + num_usb3_ports # NumPorts
  /\ capsRead' = capsRead + 1
  /\ IF Ignored(major, offset, count)
     THEN UNCHANGED <<port_array, num_usb2_ports, num_usb3_ports, ext_caps>>
     ELSE /\ port_array' = [p \in HwPorts |->
                 IF p \in ports THEN Entered(p, major) ELSE port_array[p]]
          /\ num_usb2_ports' = num_usb2_ports - Lost(ports, major, FALSE)
                               + (IF major = 3 THEN 0 ELSE Gained(ports))
          /\ num_usb3_ports' = num_usb3_ports - Lost(ports, major, TRUE)
                               + (IF major = 3 THEN Gained(ports) ELSE 0)
          /\ ext_caps' = IF major < 3 THEN ext_caps + 1 ELSE ext_caps
  /\ UNCHANGED <<usb2_ports, usb3_ports, nonRemovable, usb2_port_removable, setup>>

Atmost(n, limit) == IF n > limit THEN limit ELSE n

(* The walk ends at the last capability, or when every port is known; a hub  *)
(* without ports is refused, and a hub with too many is cut.                 *)
EndScan ==
  /\ setup = "scan"
  /\ IF num_usb2_ports = 0 /\ num_usb3_ports = 0
     THEN /\ setup' = "failed"
          /\ UNCHANGED <<num_usb2_ports, num_usb3_ports>>
     ELSE /\ setup' = "list2"
          /\ num_usb2_ports' = Atmost(num_usb2_ports, MaxUsb2)
          /\ num_usb3_ports' = Atmost(num_usb3_ports, MaxUsb3)
  /\ UNCHANGED <<port_array, usb2_ports, usb3_ports, ext_caps, capsRead, nonRemovable,
                 usb2_port_removable>>

IsUsb2(p) == port_array[p] \notin {0, 3, DUPLICATE_ENTRY}
IsUsb3(p) == port_array[p] = 3

(* The first n of the ports, in the order of their hardware numbers.         *)
FaultyListed(ports, n) ==
  [k \in 1 .. n |-> CHOOSE p \in HwPorts :
      Quantify(HwPorts, LAMBDA q : q < p) = k - 1]
Listed(ports, n) ==
  [k \in 1 .. n |-> CHOOSE p \in ports :
      Quantify(ports, LAMBDA q : q < p) = k - 1]

(* The flag of a port is read through the entry of the list that has its     *)
(* hardware number.  Unless that is its own place the entry is not filled in *)
(* yet, and what is read is whatever the fresh memory points to.             *)
ListUsb2 ==
  LET ports == {p \in HwPorts : IsUsb2(p)}
      list == Listed(ports, num_usb2_ports)
      own == {k \in DOMAIN list : list[k] = k}
      others == {list[k] : k \in DOMAIN list \ own}
  IN
  /\ setup = "list2"
  /\ setup' = "list3"
  /\ usb2_ports' = list
  /\ \E garbage \in [others -> BOOLEAN] :
       usb2_port_removable' = [p \in HwPorts |->
          IF p \in own THEN p \in nonRemovable
          ELSE IF p \in others THEN garbage[p]
          ELSE usb2_port_removable[p]]
  /\ UNCHANGED <<port_array, num_usb2_ports, num_usb3_ports, usb3_ports, ext_caps,
                 capsRead, nonRemovable>>

ListUsb3 ==
  /\ setup = "list3"
  /\ setup' = "ready"
  /\ usb3_ports' = Listed({p \in HwPorts : IsUsb3(p)}, num_usb3_ports)
  /\ UNCHANGED <<port_array, num_usb2_ports, num_usb3_ports, usb2_ports, ext_caps,
                 capsRead, nonRemovable, usb2_port_removable>>

PortsNext ==
  \/ SetupFails
  \/ \E major \in 2 .. 4, offset \in 0 .. NumPorts, count \in 0 .. NumPorts :
        AddInPort(major, offset, count)
  \/ EndScan
  \/ ListUsb2
  \/ ListUsb3

PortsSpec == PortsInit /\ [][PortsNext]_portVars

-----------------------------------------------------------------------------
(* find_faked_portnum_from_hw_portnum on the USB 2 root hub: the place of a  *)
(* hardware port in the list.                                                *)
FakedPortnum(port_id) ==
  1 + Quantify(1 .. (port_id - 1), LAMBDA p : port_array[p] \notin {0, DUPLICATE_ENTRY}
                                           /\ port_array[p] # 3)

(* ehub_xhci_find_raw_port_number on the USB 2 root hub.                     *)
RawPortNumber(port1) == usb2_ports[port1]

(* The bit of a port in the hub descriptor that xhci_usb2_hub_descriptor     *)
(* makes.                                                                    *)
DeviceRemovable(port1) == usb2_port_removable[port1]

(* However the ranges overlap, xhci_add_in_port counts every port of one     *)
(* revision once, and none that two revisions claim: the counts size the     *)
(* lists and end the walk over the capabilities.                             *)
PortCountsRight ==
  setup = "scan" =>
    /\ num_usb2_ports = Quantify(HwPorts, IsUsb2)
    /\ num_usb3_ports = Quantify(HwPorts, IsUsb3)

(* A port status event for a port of the USB 2 root hub reads the register   *)
(* of that port: the event's number leads to a place in the list and the     *)
(* place leads back to the number.                                           *)
PortsTranslate ==
  setup = "ready" =>
    /\ \A p \in HwPorts : IsUsb2(p) /\ FakedPortnum(p) <= num_usb2_ports
                            => RawPortNumber(FakedPortnum(p)) = p
    /\ \A k \in 1 .. num_usb2_ports :
         IsUsb2(RawPortNumber(k)) /\ FakedPortnum(RawPortNumber(k)) = k

(* The hub descriptor gives every port of the hub the removable bit of its   *)
(* own register, which is what "Used cached version of removable flag" in    *)
(* xhci_usb2_hub_descriptor says. It does not hold: see README.md.           *)
RemovableRight ==
  setup = "ready" =>
    \A k \in 1 .. num_usb2_ports :
       DeviceRemovable(k) = (RawPortNumber(k) \in nonRemovable)

(* Together: the lists of ports agree with the capabilities and with the     *)
(* numbers usbcore uses.                                                     *)
PortsRight == PortCountsRight /\ PortsTranslate
=============================================================================
