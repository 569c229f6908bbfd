------------------------------ MODULE UsbDevice ------------------------------
(***************************************************************************)
(* The devices of dwusb (UsbDevice.c): how a device gets its address, and  *)
(* whether host and device agree on the data toggle of an endpoint.        *)
(*                                                                         *)
(* A member of Devices is one attachment: a plug that comes back gets a    *)
(* new object.  The hub driver and the devices are external.  The hub      *)
(* driver enumerates one device at a time, as it must: a device whose port *)
(* was reset listens at address 0, and so would a second one.              *)
(*                                                                         *)
(* How transfers share channels and translator ports is in DwUsbTransfer;  *)
(* here a transaction is one step.  Each device has, beside its default    *)
(* endpoint, one endpoint that carries data.                               *)
(***************************************************************************)
EXTENDS Integers

CONSTANTS
    Devices,
    USB_MAX_ADDRESS_COUNT, \* bits of the address map, 127 in the code
    MaxPackets,            \* bound: packets of a data transfer
    PatientHub,            \* the hub driver does not enumerate the next device
                           \* before the address request of one that left has ended
    None

ASSUME DeviceAssumption ==
    /\ USB_MAX_ADDRESS_COUNT \in Nat \ {0} /\ MaxPackets \in Nat \ {0}
    /\ PatientHub \in BOOLEAN /\ None \notin Devices \union Nat

VARIABLES
    \* CONTROLLER_DATA
    UsbAddressInit,
    UsbAddressList,  \* the bits that are set
    \* USBDEVICE_DATA
    Address,
    \* ENDPOINT_DATA of the endpoint that carries data
    Type, Direction, InToggle, OutToggle,
    \* TR_DATA
    StateMachine,    \* of the default endpoint: address requests
    TrPid,           \* of the other endpoint: the toggle of the transfer under way
    Length,          \* of that transfer, in packets
    setupPacket,     \* static in TR_RunChSm: the address in it
    \* the hub driver
    stage,           \* of the enumeration of each device
    \* the devices
    listens,         \* the address each port that is enabled listens at
    told,            \* the address it will take when the request ends
    toggle,          \* of the endpoint that carries data
    packets,         \* left of its transfer
    \* history
    owner,           \* the device each address was allocated for
    disturbed        \* a data transfer has ended in a way only the device knows,
                     \* or a reset of the endpoint has changed its toggle

hostVars == <<UsbAddressInit, UsbAddressList, Address, setupPacket>>
endpointVars == <<Type, Direction, InToggle, OutToggle, TrPid, Length, toggle, packets,
                  disturbed>>
busVars == <<listens, told>>
vars == <<hostVars, StateMachine, endpointVars, stage, busVars, owner>>

Addresses == 0..(USB_MAX_ADDRESS_COUNT - 1)
Stages == {"absent", "default", "addressed", "configured", "gone"}
ChStates == {"Idle", "AddressSetup", "AddressSetupWait", "AddressStatusWait"}
IdleChSm == [State |-> "Idle", Address |-> 0]

TypeOK ==
    /\ UsbAddressInit \in BOOLEAN /\ UsbAddressList \subseteq Addresses
    /\ Address \in [Devices -> Addresses] /\ setupPacket \in Addresses
    /\ Type \in [Devices -> {"None", "Bulk", "Interrupt"}]
    /\ Direction \in [Devices -> {"In", "Out"}]
    /\ InToggle \in [Devices -> {0, 1}] /\ OutToggle \in [Devices -> {0, 1}]
    /\ StateMachine \in [Devices -> [State : ChStates, Address : Addresses]]
    /\ TrPid \in [Devices -> {0, 1}] /\ Length \in [Devices -> 0..MaxPackets]
    /\ stage \in [Devices -> Stages]
    /\ listens \in [Devices -> Addresses \union {None}]
    /\ told \in [Devices -> Addresses]
    /\ toggle \in [Devices -> {0, 1}]
    /\ packets \in [Devices -> 0..MaxPackets] /\ \A d \in Devices : packets[d] <= Length[d]
    /\ owner \in [Addresses -> Devices \union {None}]
    /\ disturbed \subseteq Devices

Enumerating ==
    {d \in Devices : \/ stage[d] \in {"default", "addressed"}
                     \/ PatientHub /\ StateMachine[d].State # "Idle"}
\* The devices that hear what is sent to an address.
Listeners(a) == {e \in Devices : listens[e] = a}

Init ==
    /\ UsbAddressInit = FALSE /\ UsbAddressList = {}
    /\ Address = [d \in Devices |-> 0] /\ setupPacket = 0
    /\ Type = [d \in Devices |-> "None"] /\ Direction = [d \in Devices |-> "In"]
    /\ InToggle = [d \in Devices |-> 0] /\ OutToggle = [d \in Devices |-> 0]
    /\ StateMachine = [d \in Devices |-> IdleChSm]
    /\ TrPid = [d \in Devices |-> 0] /\ Length = [d \in Devices |-> 0]
    /\ stage = [d \in Devices |-> "absent"]
    /\ listens = [d \in Devices |-> None] /\ told = [d \in Devices |-> 0]
    /\ toggle = [d \in Devices |-> 0] /\ packets = [d \in Devices |-> 0]
    /\ owner = [a \in Addresses |-> None]
    /\ disturbed = {}

-----------------------------------------------------------------------------
(* Enumeration                                                              *)

DefaultEndpointAdd(d) == StateMachine' = [StateMachine EXCEPT ![d] = IdleChSm]

\* The hub driver has reset the port of a new device: the device object and its
\* default endpoint are created.
UcxEvtDeviceAdd(d) ==
    /\ Enumerating = {} /\ stage[d] = "absent"
    /\ stage' = [stage EXCEPT ![d] = "default"]
    /\ listens' = [listens EXCEPT ![d] = 0]
    /\ Address' = [Address EXCEPT ![d] = 0]
    /\ DefaultEndpointAdd(d)
    /\ UNCHANGED <<UsbAddressInit, UsbAddressList, setupPacket, endpointVars, told, owner>>

\* It resets the port of a device again, after a request failed or while the
\* device is in use.  UsbDevice_UcxEvtReset completes its request, and keeps Address.
UcxEvtReset(d) ==
    /\ Enumerating \subseteq {d} /\ stage[d] \in {"default", "addressed", "configured"}
    /\ StateMachine[d].State = "Idle" /\ packets[d] = 0
    /\ stage' = [stage EXCEPT ![d] = "default"]
    /\ listens' = [listens EXCEPT ![d] = 0]
    /\ toggle' = [toggle EXCEPT ![d] = 0]
    /\ disturbed' = disturbed \union {d}
    /\ UNCHANGED <<hostVars, StateMachine, Type, Direction, InToggle, OutToggle, TrPid,
                   Length, packets, told, owner>>

\* The device leaves, or the hub driver disables its port.
Leave(d) ==
    /\ stage[d] \in {"default", "addressed", "configured"}
    /\ stage' = [stage EXCEPT ![d] = "gone"]
    /\ listens' = [listens EXCEPT ![d] = None]
    /\ UNCHANGED <<hostVars, StateMachine, endpointVars, told, owner>>

\* Mutants: UsbAddressInit is never set; the last address is one too high.
TakenAnew == {0}
ClearOneMore == {a \in 1..USB_MAX_ADDRESS_COUNT : a \notin UsbAddressList}

Taken == IF UsbAddressInit THEN UsbAddressList ELSE {0}
Clear == {a \in 1..(USB_MAX_ADDRESS_COUNT - 1) : a \notin Taken}

\* The map is cleared when it is first used; bit 0 is reserved.  Nothing ever
\* clears a bit.
AllocateUsbAddress(d, bit) ==
    /\ bit \in Clear /\ \A other \in Clear : bit <= other
    /\ UsbAddressList' = Taken \union {bit}
    /\ owner' = [owner EXCEPT ![bit] = d]

\* Without a clear bit, and without a free channel, the request fails; in the
\* second case the address is lost.
UcxEvtAddress(d) ==
    /\ stage[d] = "default" /\ StateMachine[d].State = "Idle"
    /\ UsbAddressInit' = TRUE
    /\ \/ Clear = {} /\ UsbAddressList' = Taken /\ UNCHANGED <<owner, StateMachine>>
       \/ \E bit \in Clear :
            /\ AllocateUsbAddress(d, bit)
            /\ \/ StateMachine' = [StateMachine EXCEPT
                                    ![d] = [State |-> "AddressSetup", Address |-> bit]]
               \/ UNCHANGED StateMachine
    /\ UNCHANGED <<Address, setupPacket, endpointVars, stage, busVars>>

\* Mutant: the static packet is filled in once.
AddressSetupOnce(d) ==
    /\ StateMachine[d].State = "AddressSetup"
    /\ setupPacket' = IF setupPacket = 0 THEN StateMachine[d].Address ELSE setupPacket
    /\ StateMachine' = [StateMachine EXCEPT ![d].State = "AddressSetupWait"]
    /\ UNCHANGED <<UsbAddressInit, UsbAddressList, Address, endpointVars, stage, busVars, owner>>

\* The setup packet is static: every address request writes the same one.
AddressSetup(d) ==
    /\ StateMachine[d].State = "AddressSetup"
    /\ setupPacket' = StateMachine[d].Address
    /\ StateMachine' = [StateMachine EXCEPT ![d].State = "AddressSetupWait"]
    /\ UNCHANGED <<UsbAddressInit, UsbAddressList, Address, endpointVars, stage, busVars, owner>>

\* The packet is read when it is sent, to the address the host has for the
\* device.  Without one that answers the request fails.
AddressSetupDone(d) ==
    /\ StateMachine[d].State = "AddressSetupWait" /\ Listeners(Address[d]) # {}
    /\ told' = [e \in Devices |-> IF listens[e] = Address[d] THEN setupPacket ELSE told[e]]
    /\ StateMachine' = [StateMachine EXCEPT ![d].State = "AddressStatusWait"]
    /\ UNCHANGED <<hostVars, endpointVars, stage, listens, owner>>

\* A device takes its address when the status stage ends, and then the host
\* keeps it.
AddressStatusDone(d) ==
    /\ StateMachine[d].State = "AddressStatusWait" /\ Listeners(Address[d]) # {}
    /\ listens' = [e \in Devices |-> IF listens[e] = Address[d] THEN told[e] ELSE listens[e]]
    /\ Address' = [Address EXCEPT ![d] = StateMachine[d].Address]
    /\ StateMachine' = [StateMachine EXCEPT ![d] = IdleChSm]
    /\ stage' = [stage EXCEPT ![d] = IF @ = "default" THEN "addressed" ELSE @]
    /\ UNCHANGED <<UsbAddressInit, UsbAddressList, setupPacket, endpointVars, told, owner>>

\* A stage stalls or fails; in the status stage the device, behind a translator
\* port, may yet have done its part.
AddressFails(d) ==
    /\ StateMachine[d].State \in {"AddressSetupWait", "AddressStatusWait"}
    /\ StateMachine' = [StateMachine EXCEPT ![d] = IdleChSm]
    /\ \/ UNCHANGED listens
       \/ /\ StateMachine[d].State = "AddressStatusWait"
          /\ listens' = [e \in Devices |->
                           IF listens[e] = Address[d] THEN told[e] ELSE listens[e]]
    /\ UNCHANGED <<hostVars, endpointVars, stage, told, owner>>

\* Endpoint_Create: an isochronous endpoint is refused, others start with DATA0.
\* The device is configured, and has all its toggles at DATA0 too.
UcxEvtEndpointAdd(d, type, direction) ==
    /\ stage[d] = "addressed"
    /\ IF type = "Isoch"
       THEN UNCHANGED <<stage, endpointVars>>
       ELSE /\ stage' = [stage EXCEPT ![d] = "configured"]
            /\ Type' = [Type EXCEPT ![d] = type]
            /\ Direction' = [Direction EXCEPT ![d] = direction]
            /\ InToggle' = [InToggle EXCEPT ![d] = 0]
            /\ OutToggle' = [OutToggle EXCEPT ![d] = 0]
            /\ toggle' = [toggle EXCEPT ![d] = 0]
            /\ disturbed' = disturbed \ {d}
            /\ UNCHANGED <<TrPid, Length, packets>>
    /\ UNCHANGED <<hostVars, StateMachine, busVars, owner>>

-----------------------------------------------------------------------------
(* Data transfers                                                           *)

\* Endpoint and device of a transfer that hears what is sent to it.
Answers(d) == Listeners(Address[d]) = {d}
Flip(bit) == 1 - bit

Idle(d) ==
    /\ packets' = [packets EXCEPT ![d] = 0] /\ Length' = [Length EXCEPT ![d] = 0]
    /\ TrPid' = [TrPid EXCEPT ![d] = 0]

InterruptOrBulkData(d, length) ==
    /\ stage[d] = "configured" /\ Type[d] # "None" /\ packets[d] = 0
    /\ Length' = [Length EXCEPT ![d] = length]
    /\ packets' = [packets EXCEPT ![d] = length]
    /\ TrPid' = [TrPid EXCEPT ![d] = IF Direction[d] = "In" THEN InToggle[d] ELSE OutToggle[d]]
    /\ UNCHANGED <<hostVars, StateMachine, Type, Direction, InToggle, OutToggle, toggle,
                   disturbed, stage, busVars, owner>>

\* The controller counts the toggle on with each packet, and the driver reads it
\* back.  A device takes a packet sent with the wrong toggle for one it has seen,
\* and acknowledges it.
PacketOut(d) ==
    /\ packets[d] > 1 /\ Direction[d] = "Out" /\ Answers(d)
    /\ packets' = [packets EXCEPT ![d] = @ - 1]
    /\ TrPid' = [TrPid EXCEPT ![d] = Flip(@)]
    /\ toggle' = [toggle EXCEPT ![d] = IF @ = TrPid[d] THEN Flip(@) ELSE @]
    /\ UNCHANGED <<hostVars, StateMachine, Type, Direction, InToggle, OutToggle, Length,
                   disturbed, stage, busVars, owner>>

\* A packet in with the wrong toggle is dropped; the transfer then ends in an error.
PacketIn(d) ==
    /\ packets[d] > 1 /\ Direction[d] = "In" /\ Answers(d) /\ toggle[d] = TrPid[d]
    /\ packets' = [packets EXCEPT ![d] = @ - 1]
    /\ TrPid' = [TrPid EXCEPT ![d] = Flip(@)]
    /\ toggle' = [toggle EXCEPT ![d] = Flip(@)]
    /\ UNCHANGED <<hostVars, StateMachine, Type, Direction, InToggle, OutToggle, Length,
                   disturbed, stage, busVars, owner>>

\* Mutant: the toggle the transfer began with counts on by one.
InterruptOrBulkDataDoneOnce(d) ==
    /\ packets[d] > 0 /\ Answers(d)
    /\ Direction[d] = "In" => toggle[d] = TrPid[d]
    /\ toggle' = [toggle EXCEPT ![d] = IF @ = TrPid[d] THEN Flip(@) ELSE @]
    /\ IF Direction[d] = "In"
       THEN InToggle' = [InToggle EXCEPT ![d] = Flip(@)] /\ UNCHANGED OutToggle
       ELSE OutToggle' = [OutToggle EXCEPT ![d] = Flip(@)] /\ UNCHANGED InToggle
    /\ Idle(d)
    /\ UNCHANGED <<hostVars, StateMachine, Type, Direction, disturbed, stage, busVars, owner>>

\* The last packet, or a short one, ends the transfer: the endpoint keeps the toggle.
InterruptOrBulkDataDone(d) ==
    /\ packets[d] > 0 /\ Answers(d)
    /\ Direction[d] = "In" => toggle[d] = TrPid[d]
    /\ toggle' = [toggle EXCEPT ![d] = IF @ = TrPid[d] THEN Flip(@) ELSE @]
    /\ IF Direction[d] = "In"
       THEN InToggle' = [InToggle EXCEPT ![d] = Flip(TrPid[d])] /\ UNCHANGED OutToggle
       ELSE OutToggle' = [OutToggle EXCEPT ![d] = Flip(TrPid[d])] /\ UNCHANGED InToggle
    /\ Idle(d)
    /\ UNCHANGED <<hostVars, StateMachine, Type, Direction, disturbed, stage, busVars, owner>>

\* A transfer that starts over sends its whole buffer again, with the toggle it
\* has: after a nak ...
StartOver(d) == packets' = [packets EXCEPT ![d] = Length[d]]

Nak(d) ==
    /\ packets[d] > 0 /\ Answers(d)
    /\ StartOver(d)
    /\ UNCHANGED <<hostVars, StateMachine, Type, Direction, InToggle, OutToggle, TrPid,
                   Length, toggle, disturbed, stage, busVars, owner>>

\* ... and when a complete split times out.  The device may have taken the packet;
\* one in is then lost.
SplitTimesOut(d) ==
    /\ packets[d] > 0 /\ Answers(d) /\ toggle[d] = TrPid[d]
    /\ StartOver(d)
    /\ toggle' = [toggle EXCEPT ![d] = Flip(@)]
    /\ disturbed' = disturbed \union (IF Direction[d] = "In" THEN {d} ELSE {})
    /\ UNCHANGED <<hostVars, StateMachine, Type, Direction, InToggle, OutToggle, TrPid,
                   Length, stage, busVars, owner>>

\* A stall or an error ends the transfer and the endpoint keeps the toggle it
\* began with, however many packets have moved.
TransferFails(d) ==
    /\ packets[d] > 0
    /\ Idle(d)
    /\ disturbed' = disturbed \union {d}
    /\ UNCHANGED <<hostVars, StateMachine, Type, Direction, InToggle, OutToggle, toggle,
                   stage, busVars, owner>>

\* The hub driver resets an endpoint, whether it has failed or not: the device
\* goes back to DATA0, and Endpoint_UcxEvtEndpointReset only completes its request.
UcxEvtEndpointReset(d) ==
    /\ stage[d] = "configured" /\ packets[d] = 0
    /\ toggle' = [toggle EXCEPT ![d] = 0]
    /\ disturbed' = disturbed \union (IF toggle[d] = 0 THEN {} ELSE {d})
    /\ UNCHANGED <<hostVars, StateMachine, Type, Direction, InToggle, OutToggle, TrPid,
                   Length, packets, stage, busVars, owner>>

Enumerate(d) ==
    \/ UcxEvtDeviceAdd(d) \/ UcxEvtReset(d) \/ Leave(d)
    \/ UcxEvtAddress(d)
    \/ AddressSetup(d) \/ AddressSetupDone(d) \/ AddressStatusDone(d) \/ AddressFails(d)
    \/ \E type \in {"Isoch", "Bulk", "Interrupt"}, direction \in {"In", "Out"} :
         UcxEvtEndpointAdd(d, type, direction)

Transfer(d) ==
    \/ \E length \in 1..MaxPackets : InterruptOrBulkData(d, length)
    \/ PacketOut(d) \/ PacketIn(d) \/ InterruptOrBulkDataDone(d)
    \/ Nak(d) \/ SplitTimesOut(d) \/ TransferFails(d)
    \/ UcxEvtEndpointReset(d)

Next == \E d \in Devices : Enumerate(d) \/ Transfer(d)

Spec == Init /\ [][Next]_vars

-----------------------------------------------------------------------------
(* Properties                                                               *)

\* No two devices ever listen at the same address, whichever address requests
\* have failed on the host, on the device or on both, and whichever devices
\* have left: an address a device may have taken is not given to another.
OneDevicePerAddress ==
    \A d, e \in Devices : listens[d] = listens[e] /\ listens[d] # None => d = e

\* What the host sends to a device it has addressed reaches that device, and no
\* other.
TransfersReachTheirDevice ==
    \A d \in Devices : stage[d] \in {"addressed", "configured"} => Listeners(Address[d]) = {d}

\* Between transfers host and device agree on the toggle of an endpoint, however
\* often the transfers were sent again (UsbDevice.c:513), until one ends in a way
\* only the device knows (936, 1107) or a reset of the endpoint takes the device,
\* and not the host, back to DATA0 (1578).
TogglesAgree ==
    \A d \in Devices :
        stage[d] = "configured" /\ packets[d] = 0 /\ d \notin disturbed
          => toggle[d] = (IF Direction[d] = "In" THEN InToggle[d] ELSE OutToggle[d])
=============================================================================
