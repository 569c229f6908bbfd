--------------------------- MODULE UsbDeviceProofs ---------------------------
(***************************************************************************)
(* Proofs about UsbDevice, for any number of devices, addresses and        *)
(* packets.  That two devices never share an address is not inductive: a   *)
(* device listens where it was told to, it was told what the static packet *)
(* held, and the packet held what the map gave out.  DeviceInv says of     *)
(* every one of these places whose address it holds, and that one device   *)
(* at most, the one under enumeration, listens at address 0.               *)
(***************************************************************************)
EXTENDS UsbDevice, TLAPS

\* An address that is owned is set in the map, and 0 is never owned.
MapInv ==
    /\ ~UsbAddressInit => \A a \in Addresses : owner[a] = None
    /\ UsbAddressInit => 0 \in UsbAddressList
    /\ \A a \in Addresses : owner[a] # None => a \in UsbAddressList
    /\ owner[0] = None

Owns(d, a) == a \in Addresses /\ owner[a] = d

\* Every address that is not 0 belongs to the device it is held for.
OwnInv ==
    \A d \in Devices :
        /\ Address[d] = 0 \/ Owns(d, Address[d])
        /\ listens[d] \in {None, 0} \/ Owns(d, listens[d])
        /\ told[d] = 0 \/ Owns(d, told[d])
        /\ StateMachine[d].State # "Idle" => Owns(d, StateMachine[d].Address)
        /\ StateMachine[d].State \in {"AddressSetupWait", "AddressStatusWait"}
             => setupPacket = StateMachine[d].Address

\* How far a device has come.
StageInv ==
    \A d \in Devices :
        /\ StateMachine[d].State # "Idle" => stage[d] \in {"default", "gone"}
        /\ listens[d] = 0 => stage[d] = "default"
        /\ stage[d] \in {"absent", "gone"} => listens[d] = None
        /\ stage[d] \in {"addressed", "configured"}
             => listens[d] = Address[d] /\ Address[d] # 0
        /\ StateMachine[d].State = "AddressStatusWait" /\ listens[d] = Address[d]
             => told[d] = StateMachine[d].Address

OneAtATime == \A d, e \in Enumerating : d = e

DeviceInv == MapInv /\ OwnInv /\ StageInv /\ OneAtATime

-----------------------------------------------------------------------------
(* Types                                                                    *)

LEMMA Reserved == 0 \in Addresses /\ None \notin Addresses /\ None \notin Devices
BY DeviceAssumption DEF Addresses

LEMMA FreeBits == \A a \in Clear : a \in Addresses /\ a # 0 /\ a \notin Taken
BY DeviceAssumption DEF Clear, Addresses

LEMMA InitTypes == Init => TypeOK
<1> SUFFICES ASSUME Init PROVE TypeOK
  OBVIOUS
<1>1. UsbAddressInit \in BOOLEAN
  BY Zenon DEF Init
<1>2. IdleChSm \in [State : ChStates, Address : Addresses]
  BY Reserved DEF IdleChSm, ChStates
<1>3. StateMachine \in [Devices -> [State : ChStates, Address : Addresses]]
  BY <1>2 DEF Init
<1>4. /\ packets \in [Devices -> 0..MaxPackets] /\ Length \in [Devices -> 0..MaxPackets]
      /\ \A d \in Devices : packets[d] <= Length[d]
  BY DeviceAssumption DEF Init
<1> QED BY <1>1, <1>3, <1>4, Reserved DEF Init, TypeOK, Stages

\* The next state is one of these steps of one device.
LEMMA Steps ==
    ASSUME Next
    PROVE  \E d \in Devices :
             \/ UcxEvtDeviceAdd(d) \/ UcxEvtReset(d) \/ Leave(d) \/ UcxEvtAddress(d)
             \/ AddressSetup(d) \/ AddressSetupDone(d) \/ AddressStatusDone(d)
             \/ AddressFails(d)
             \/ \E type \in {"Isoch", "Bulk", "Interrupt"}, direction \in {"In", "Out"} :
                  UcxEvtEndpointAdd(d, type, direction)
             \/ Transfer(d)
BY DEF Next, Enumerate

LEMMA EnumerationTypes ==
    ASSUME TypeOK, NEW d \in Devices,
           \/ UcxEvtDeviceAdd(d) \/ UcxEvtReset(d) \/ Leave(d) \/ UcxEvtAddress(d)
           \/ AddressSetup(d) \/ AddressSetupDone(d) \/ AddressStatusDone(d)
           \/ AddressFails(d)
    PROVE  TypeOK'
<1>1. CASE UcxEvtDeviceAdd(d)
  BY <1>1, Reserved DEF UcxEvtDeviceAdd, DefaultEndpointAdd, TypeOK, endpointVars, IdleChSm,
                        ChStates, Stages
<1>2. CASE UcxEvtReset(d)
  BY <1>2, Reserved DEF UcxEvtReset, TypeOK, hostVars, Stages
<1>3. CASE Leave(d)
  BY <1>3 DEF Leave, TypeOK, hostVars, endpointVars, Stages
<1>4. CASE UcxEvtAddress(d)
  <2>1. Taken \subseteq Addresses
    BY Reserved DEF Taken, TypeOK
  <2>2. UsbAddressList' \subseteq Addresses /\ owner' \in [Addresses -> Devices \union {None}]
    BY <1>4, <2>1, FreeBits DEF UcxEvtAddress, AllocateUsbAddress, TypeOK
  <2>3. StateMachine' \in [Devices -> [State : ChStates, Address : Addresses]]
    BY <1>4, FreeBits DEF UcxEvtAddress, TypeOK, ChStates
  <2> QED BY <1>4, <2>2, <2>3 DEF UcxEvtAddress, TypeOK, endpointVars, busVars
<1>5. CASE AddressSetup(d)
  BY <1>5 DEF AddressSetup, TypeOK, endpointVars, busVars, ChStates
<1>6. CASE AddressSetupDone(d)
  BY <1>6 DEF AddressSetupDone, TypeOK, hostVars, endpointVars, ChStates
<1>7. CASE AddressStatusDone(d)
  BY <1>7, Reserved DEF AddressStatusDone, TypeOK, endpointVars, ChStates, IdleChSm, Stages
<1>8. CASE AddressFails(d)
  BY <1>8, Reserved DEF AddressFails, TypeOK, hostVars, endpointVars, ChStates, IdleChSm
<1> QED BY <1>1, <1>2, <1>3, <1>4, <1>5, <1>6, <1>7, <1>8

LEMMA TransferTypes ==
    ASSUME TypeOK, NEW d \in Devices, Transfer(d)
    PROVE  TypeOK'
<1> USE DEF TypeOK, hostVars, busVars
<1>1. ASSUME NEW length \in 1..MaxPackets, InterruptOrBulkData(d, length) PROVE TypeOK'
  BY <1>1, DeviceAssumption DEF InterruptOrBulkData
<1>2. CASE PacketOut(d)
  BY <1>2, DeviceAssumption DEF PacketOut, Flip
<1>3. CASE PacketIn(d)
  BY <1>3, DeviceAssumption DEF PacketIn, Flip
<1>4. CASE InterruptOrBulkDataDone(d)
  <2>1. Flip(TrPid[d]) \in {0, 1} /\ Flip(toggle[d]) \in {0, 1}
    BY DEF Flip
  <2>2. InToggle' \in [Devices -> {0, 1}] /\ OutToggle' \in [Devices -> {0, 1}]
    BY <1>4, <2>1 DEF InterruptOrBulkDataDone
  <2>3. toggle' \in [Devices -> {0, 1}]
    BY <1>4, <2>1 DEF InterruptOrBulkDataDone
  <2>4. packets' \in [Devices -> 0..MaxPackets] /\ TrPid' \in [Devices -> {0, 1}]
    BY <1>4, DeviceAssumption DEF InterruptOrBulkDataDone, Idle
  <2>5. /\ Length' \in [Devices -> 0..MaxPackets]
        /\ \A e \in Devices : packets'[e] <= Length'[e]
    BY <1>4, DeviceAssumption DEF InterruptOrBulkDataDone, Idle
  <2> QED BY <1>4, <2>2, <2>3, <2>4, <2>5 DEF InterruptOrBulkDataDone
<1>5. CASE SplitTimesOut(d)
  BY <1>5, DeviceAssumption DEF SplitTimesOut, StartOver, Flip
<1>6. CASE TransferFails(d)
  BY <1>6, DeviceAssumption DEF TransferFails, Idle
<1>7. CASE UcxEvtEndpointReset(d)
  BY <1>7 DEF UcxEvtEndpointReset
<1>8. CASE Nak(d)
  BY <1>8, DeviceAssumption DEF Nak, StartOver
<1> QED BY <1>1, <1>2, <1>3, <1>4, <1>5, <1>6, <1>7, <1>8 DEF Transfer

LEMMA StepTypes == TypeOK /\ [Next]_vars => TypeOK'
<1> SUFFICES ASSUME TypeOK, [Next]_vars PROVE TypeOK'
  OBVIOUS
<1>1. CASE Next
  <2>1. ASSUME NEW d \in Devices, NEW type \in {"Isoch", "Bulk", "Interrupt"},
               NEW direction \in {"In", "Out"}, UcxEvtEndpointAdd(d, type, direction)
        PROVE  TypeOK'
    <3>1. CASE type = "Isoch"
      BY <2>1, <3>1 DEF UcxEvtEndpointAdd, TypeOK, hostVars, endpointVars, busVars
    <3>2. CASE type \in {"Bulk", "Interrupt"}
      <4>1. type # "Isoch"
        BY <3>2
      <4>2. /\ stage' \in [Devices -> Stages] /\ Direction' \in [Devices -> {"In", "Out"}]
            /\ Type' \in [Devices -> {"None", "Bulk", "Interrupt"}]
        <5>1. /\ stage' = [stage EXCEPT ![d] = "configured"]
              /\ Type' = [Type EXCEPT ![d] = type]
              /\ Direction' = [Direction EXCEPT ![d] = direction]
          BY <2>1, <4>1 DEF UcxEvtEndpointAdd
        <5>2. type \in {"None", "Bulk", "Interrupt"}
          BY <3>2
        <5> QED BY <5>1, <5>2 DEF TypeOK, Stages
      <4>3. /\ InToggle' \in [Devices -> {0, 1}] /\ OutToggle' \in [Devices -> {0, 1}]
            /\ toggle' \in [Devices -> {0, 1}] /\ disturbed' \subseteq Devices
        BY <2>1, <4>1 DEF UcxEvtEndpointAdd, TypeOK
      <4>4. UNCHANGED <<hostVars, StateMachine, TrPid, Length, packets, busVars, owner>>
        BY <2>1, <4>1 DEF UcxEvtEndpointAdd
      <4> QED BY <4>2, <4>3, <4>4 DEF TypeOK, hostVars, busVars
    <3> QED BY <3>1, <3>2
  <2> QED BY <1>1, <2>1, Steps, EnumerationTypes, TransferTypes
<1>2. CASE UNCHANGED vars
  BY <1>2 DEF vars, TypeOK, hostVars, endpointVars, busVars
<1> QED BY <1>1, <1>2

\* Every variable keeps its type: an address the map gives out is one the
\* device can be told (UsbDevice.c:1975-2010), and a toggle is a bit
\* (UsbDevice.c:588-605).
THEOREM DeviceTypeCorrect == Spec => []TypeOK
<1>1. TypeOK /\ [Next]_vars => TypeOK'
  BY StepTypes
<1> QED BY InitTypes, <1>1, PTL DEF Spec

-----------------------------------------------------------------------------
(* Addresses                                                                *)

\* Who is under enumeration changes only with stage and StateMachine.
LEMMA FewerEnumerated ==
    ASSUME OneAtATime, Enumerating' \subseteq Enumerating
    PROVE  OneAtATime'
BY DEF OneAtATime

\* The device an address request is for is the only one that may hear it.
LEMMA OnlyItHears ==
    ASSUME PatientHub, TypeOK, DeviceInv, NEW d \in Devices, StateMachine[d].State # "Idle",
           NEW e \in Devices, listens[e] = Address[d]
    PROVE  e = d
<1>1. d \in Enumerating
  BY DEF Enumerating
<1>2. CASE Address[d] = 0
  <2>1. e \in Enumerating
    BY <1>2 DEF DeviceInv, StageInv, Enumerating
  <2> QED BY <1>1, <2>1 DEF DeviceInv, OneAtATime
<1>3. CASE Address[d] # 0
  <2>1. owner[Address[d]] = d /\ Address[d] \in Addresses
    BY <1>3 DEF DeviceInv, OwnInv, Owns
  <2>2. listens[e] \notin {None, 0}
    BY <1>3, <2>1, Reserved
  <2>3. owner[listens[e]] = e
    BY <2>2 DEF DeviceInv, OwnInv, Owns
  <2> QED BY <2>1, <2>3
<1> QED BY <1>2, <1>3

\* An address that is owned is not 0, nor None.
LEMMA Owned ==
    ASSUME MapInv, NEW d \in Devices, NEW a, Owns(d, a)
    PROVE  a # 0 /\ a # None /\ a \in Addresses
BY Reserved DEF MapInv, Owns

LEMMA InitApart == Init => DeviceInv
<1> SUFFICES ASSUME Init PROVE DeviceInv
  OBVIOUS
<1>1. MapInv
  BY Reserved DEF Init, MapInv
<1>2. \A d \in Devices : StateMachine[d].State = "Idle" /\ stage[d] = "absent"
  BY DEF Init, IdleChSm
<1>3. OwnInv
  BY <1>2 DEF Init, OwnInv
<1>4. StageInv
  BY <1>2, Reserved DEF Init, StageInv
<1>5. OneAtATime
  BY <1>2 DEF OneAtATime, Enumerating
<1> QED BY <1>1, <1>3, <1>4, <1>5 DEF DeviceInv

LEMMA HubApart ==
    ASSUME PatientHub, TypeOK, DeviceInv, NEW d \in Devices,
           \/ UcxEvtDeviceAdd(d) \/ UcxEvtReset(d) \/ Leave(d)
           \/ \E type \in {"Isoch", "Bulk", "Interrupt"}, direction \in {"In", "Out"} :
                UcxEvtEndpointAdd(d, type, direction)
    PROVE  DeviceInv'
<1>1. CASE UcxEvtDeviceAdd(d)
  <2>1. /\ Enumerating = {} /\ stage' = [stage EXCEPT ![d] = "default"]
        /\ listens' = [listens EXCEPT ![d] = 0]
        /\ Address' = [Address EXCEPT ![d] = 0]
        /\ StateMachine' = [StateMachine EXCEPT ![d] = IdleChSm]
        /\ UNCHANGED <<UsbAddressInit, UsbAddressList, setupPacket, told, owner>>
    BY <1>1 DEF UcxEvtDeviceAdd, DefaultEndpointAdd
  <2>2. MapInv'
    BY <2>1 DEF DeviceInv, MapInv
  <2>3. StateMachine'[d].State = "Idle"
    BY <2>1 DEF TypeOK, IdleChSm
  <2>4. ASSUME NEW e \in Devices, e # d
        PROVE  /\ Address'[e] = Address[e] /\ listens'[e] = listens[e]
               /\ StateMachine'[e] = StateMachine[e] /\ stage'[e] = stage[e]
    BY <2>1, <2>4 DEF TypeOK
  <2>5. Address'[d] = 0 /\ listens'[d] = 0 /\ stage'[d] = "default"
    BY <2>1 DEF TypeOK
  <2>6. OwnInv'
    BY <2>1, <2>3, <2>4, <2>5 DEF DeviceInv, OwnInv, Owns
  <2>7. StageInv'
    BY <2>1, <2>3, <2>4, <2>5, Reserved DEF DeviceInv, StageInv
  <2>8. OneAtATime'
    BY <2>1, <2>3, <2>4, <2>5 DEF OneAtATime, Enumerating
  <2> QED BY <2>2, <2>6, <2>7, <2>8 DEF DeviceInv
<1>2. CASE UcxEvtReset(d)
  <2>1. /\ Enumerating \subseteq {d} /\ stage' = [stage EXCEPT ![d] = "default"]
        /\ StateMachine[d].State = "Idle"
        /\ listens' = [listens EXCEPT ![d] = 0]
        /\ UNCHANGED <<UsbAddressInit, UsbAddressList, Address, setupPacket, StateMachine,
                       told, owner>>
    BY <1>2 DEF UcxEvtReset, hostVars
  <2>2. MapInv'
    BY <2>1 DEF DeviceInv, MapInv
  <2>3. ASSUME NEW e \in Devices, e # d
        PROVE  listens'[e] = listens[e] /\ stage'[e] = stage[e]
    BY <2>1, <2>3 DEF TypeOK
  <2>4. listens'[d] = 0 /\ stage'[d] = "default"
    BY <2>1 DEF TypeOK
  <2>5. OwnInv'
    BY <2>1, <2>3, <2>4 DEF DeviceInv, OwnInv, Owns
  <2>6. StageInv'
    BY <2>1, <2>3, <2>4, Reserved DEF DeviceInv, StageInv
  <2>7. OneAtATime'
    BY <2>1, <2>3, <2>4 DEF OneAtATime, Enumerating
  <2> QED BY <2>2, <2>5, <2>6, <2>7 DEF DeviceInv
<1>3. CASE Leave(d)
  <2>1. /\ stage[d] \in {"default", "addressed", "configured"}
        /\ stage' = [stage EXCEPT ![d] = "gone"]
        /\ listens' = [listens EXCEPT ![d] = None]
        /\ UNCHANGED <<UsbAddressInit, UsbAddressList, Address, setupPacket, StateMachine,
                       told, owner>>
    BY <1>3 DEF Leave, hostVars
  <2>2. MapInv'
    BY <2>1 DEF DeviceInv, MapInv
  <2>3. ASSUME NEW e \in Devices, e # d
        PROVE  listens'[e] = listens[e] /\ stage'[e] = stage[e]
    BY <2>1, <2>3 DEF TypeOK
  <2>4. listens'[d] = None /\ stage'[d] = "gone"
    BY <2>1 DEF TypeOK
  <2>5. OwnInv'
    BY <2>1, <2>3, <2>4 DEF DeviceInv, OwnInv, Owns
  <2>6. Address[d] \in Addresses
    BY DEF TypeOK
  <2>7. StageInv'
    BY <2>1, <2>3, <2>4, <2>6, Reserved DEF DeviceInv, StageInv
  <2>8. Enumerating' \subseteq Enumerating
    BY <2>1, <2>3, <2>4 DEF Enumerating
  <2> QED BY <2>2, <2>5, <2>7, <2>8, FewerEnumerated DEF DeviceInv
<1>4. ASSUME NEW type \in {"Isoch", "Bulk", "Interrupt"}, NEW direction \in {"In", "Out"},
             UcxEvtEndpointAdd(d, type, direction)
      PROVE  DeviceInv'
  <2>1. /\ stage[d] = "addressed"
        /\ stage' = stage \/ stage' = [stage EXCEPT ![d] = "configured"]
        /\ UNCHANGED <<UsbAddressInit, UsbAddressList, Address, setupPacket, StateMachine,
                       listens, told, owner>>
    BY <1>4 DEF UcxEvtEndpointAdd, hostVars, busVars
  <2>2. ASSUME NEW e \in Devices
        PROVE  \/ stage'[e] = stage[e]
               \/ stage[e] = "addressed" /\ stage'[e] = "configured"
    BY <2>1 DEF TypeOK
  <2>3. MapInv' /\ OwnInv'
    BY <2>1 DEF DeviceInv, MapInv, OwnInv, Owns
  <2>4. StageInv'
    BY <2>1, <2>2 DEF DeviceInv, StageInv
  <2>5. Enumerating' \subseteq Enumerating
    BY <2>1, <2>2 DEF Enumerating
  <2> QED BY <2>3, <2>4, <2>5, FewerEnumerated DEF DeviceInv
<1> QED BY <1>1, <1>2, <1>3, <1>4

\* Nothing that is owned is given away.
LEMMA OwnersStay ==
    ASSUME TypeOK, MapInv, NEW d \in Devices, UcxEvtAddress(d)
    PROVE  /\ MapInv'
           /\ \A e \in Devices : \A a : Owns(e, a) => Owns(e, a)'
           /\ \/ UNCHANGED StateMachine
              \/ \E bit \in Addresses :
                   /\ StateMachine' = [StateMachine EXCEPT
                                         ![d] = [State |-> "AddressSetup", Address |-> bit]]
                   /\ owner'[bit] = d
<1>1. 0 \in Taken /\ \A a \in Addresses : owner[a] # None => a \in Taken
  BY DEF MapInv, Taken
<1>2. UsbAddressInit'
  BY DEF UcxEvtAddress
<1>3. CASE UsbAddressList' = Taken /\ UNCHANGED <<owner, StateMachine>>
  BY <1>1, <1>2, <1>3 DEF MapInv, Owns
<1>4. ASSUME NEW bit \in Clear, AllocateUsbAddress(d, bit),
             \/ StateMachine' = [StateMachine EXCEPT
                                   ![d] = [State |-> "AddressSetup", Address |-> bit]]
             \/ UNCHANGED StateMachine
      PROVE  /\ MapInv'
             /\ \A e \in Devices : \A a : Owns(e, a) => Owns(e, a)'
             /\ \/ UNCHANGED StateMachine
                \/ \E b \in Addresses :
                     /\ StateMachine' = [StateMachine EXCEPT
                                           ![d] = [State |-> "AddressSetup", Address |-> b]]
                     /\ owner'[b] = d
  <2>1. bit \in Addresses /\ bit # 0 /\ bit \notin Taken
    BY FreeBits
  <2>2. UsbAddressList' = Taken \union {bit} /\ owner' = [owner EXCEPT ![bit] = d]
    BY <1>4 DEF AllocateUsbAddress
  <2>3. owner'[bit] = d /\ \A a \in Addresses : a # bit => owner'[a] = owner[a]
    BY <2>1, <2>2 DEF TypeOK
  <2>4. MapInv'
    BY <1>1, <1>2, <2>1, <2>2, <2>3, Reserved DEF MapInv
  <2>5. owner[bit] = None
    BY <1>1, <2>1
  <2>6. \A e \in Devices : \A a : Owns(e, a) => Owns(e, a)'
    BY <2>3, <2>5, Reserved DEF Owns, Addresses
  <2> QED BY <1>4, <2>1, <2>3, <2>4, <2>6
<1> QED BY <1>3, <1>4 DEF UcxEvtAddress

LEMMA AddressApart ==
    ASSUME PatientHub, TypeOK, DeviceInv, NEW d \in Devices,
           \/ UcxEvtAddress(d) \/ AddressSetup(d) \/ AddressSetupDone(d)
           \/ AddressStatusDone(d) \/ AddressFails(d)
    PROVE  DeviceInv'
<1>a. MapInv /\ OwnInv /\ StageInv /\ OneAtATime
  BY DEF DeviceInv
<1>1. CASE UcxEvtAddress(d)
  <2>1. /\ stage[d] = "default" /\ StateMachine[d].State = "Idle"
        /\ UNCHANGED <<Address, setupPacket, stage, listens, told>>
    BY <1>1 DEF UcxEvtAddress, busVars
  <2>2. /\ MapInv'
        /\ \A e \in Devices : \A a : Owns(e, a) => Owns(e, a)'
    BY <1>1, <1>a, OwnersStay
  <2>3. ASSUME NEW e \in Devices
        PROVE  \/ StateMachine'[e] = StateMachine[e]
               \/ /\ e = d /\ StateMachine'[e].State = "AddressSetup"
                  /\ Owns(e, StateMachine[e].Address)'
    <3>1. CASE UNCHANGED StateMachine
      BY <3>1
    <3>2. ASSUME NEW bit \in Addresses,
                 StateMachine' = [StateMachine EXCEPT
                                    ![d] = [State |-> "AddressSetup", Address |-> bit]],
                 owner'[bit] = d
          PROVE  \/ StateMachine'[e] = StateMachine[e]
                 \/ /\ e = d /\ StateMachine'[e].State = "AddressSetup"
                    /\ Owns(e, StateMachine[e].Address)'
      <4>1. CASE e = d
        <5>1. StateMachine'[e] = [State |-> "AddressSetup", Address |-> bit]
          BY <3>2, <4>1 DEF TypeOK
        <5> QED BY <3>2, <4>1, <5>1 DEF Owns, Addresses
      <4>2. CASE e # d
        BY <3>2, <4>2 DEF TypeOK
      <4> QED BY <4>1, <4>2
    <3> QED BY <1>1, <1>a, <3>1, <3>2, OwnersStay
  <2>4. OwnInv'
    <3> SUFFICES ASSUME NEW e \in Devices
                 PROVE  /\ Address'[e] = 0 \/ Owns(e, Address[e])'
                        /\ listens'[e] \in {None, 0} \/ Owns(e, listens[e])'
                        /\ told'[e] = 0 \/ Owns(e, told[e])'
                        /\ StateMachine'[e].State # "Idle" => Owns(e, StateMachine[e].Address)'
                        /\ StateMachine'[e].State \in {"AddressSetupWait", "AddressStatusWait"}
                             => setupPacket' = StateMachine'[e].Address
      BY DEF OwnInv
    <3>1. Address'[e] = 0 \/ Owns(e, Address[e])'
      BY <1>a, <2>1, <2>2 DEF OwnInv, Owns
    <3>2. listens'[e] \in {None, 0} \/ Owns(e, listens[e])'
      BY <1>a, <2>1, <2>2 DEF OwnInv, Owns
    <3>3. told'[e] = 0 \/ Owns(e, told[e])'
      BY <1>a, <2>1, <2>2 DEF OwnInv, Owns
    <3>4. StateMachine'[e].State # "Idle" => Owns(e, StateMachine[e].Address)'
      BY <1>a, <2>2, <2>3 DEF OwnInv, Owns
    <3>5. StateMachine'[e].State \in {"AddressSetupWait", "AddressStatusWait"}
            => setupPacket' = StateMachine'[e].Address
      BY <1>a, <2>1, <2>3 DEF OwnInv
    <3> QED BY <3>1, <3>2, <3>3, <3>4, <3>5
  <2>5. StageInv'
    BY <1>a, <2>1, <2>3 DEF StageInv
  <2>6. Enumerating' \subseteq Enumerating
    BY <2>1, <2>3 DEF Enumerating
  <2> QED BY <1>a, <2>2, <2>4, <2>5, <2>6, FewerEnumerated DEF DeviceInv
<1>2. CASE AddressSetup(d)
  <2>1. /\ StateMachine[d].State = "AddressSetup" /\ setupPacket' = StateMachine[d].Address
        /\ StateMachine' = [StateMachine EXCEPT ![d].State = "AddressSetupWait"]
        /\ UNCHANGED <<UsbAddressInit, UsbAddressList, Address, stage, listens, told, owner>>
    BY <1>2 DEF AddressSetup, busVars
  <2>2. /\ StateMachine'[d].State = "AddressSetupWait"
        /\ StateMachine'[d].Address = StateMachine[d].Address
    BY <2>1 DEF TypeOK
  <2>3. \A e \in Devices : e # d => StateMachine'[e] = StateMachine[e]
    BY <2>1 DEF TypeOK
  <2>4. \A e \in Devices : e # d => StateMachine[e].State = "Idle"
    BY <1>a, <2>1 DEF OneAtATime, Enumerating
  <2>5. MapInv'
    BY <1>a, <2>1 DEF MapInv
  <2>6. OwnInv'
    BY <1>a, <2>1, <2>2, <2>3, <2>4 DEF OwnInv, Owns
  <2>7. StageInv'
    BY <1>a, <2>1, <2>2, <2>3 DEF StageInv
  <2>8. Enumerating' \subseteq Enumerating
    BY <2>1, <2>2, <2>3 DEF Enumerating
  <2> QED BY <1>a, <2>5, <2>6, <2>7, <2>8, FewerEnumerated DEF DeviceInv
<1>3. CASE AddressSetupDone(d)
  <2>1. /\ StateMachine[d].State = "AddressSetupWait"
        /\ told' = [e \in Devices |-> IF listens[e] = Address[d] THEN setupPacket ELSE told[e]]
        /\ StateMachine' = [StateMachine EXCEPT ![d].State = "AddressStatusWait"]
        /\ UNCHANGED <<UsbAddressInit, UsbAddressList, Address, setupPacket, stage, listens,
                       owner>>
    BY <1>3 DEF AddressSetupDone, hostVars
  <2>2. /\ StateMachine'[d].State = "AddressStatusWait"
        /\ StateMachine'[d].Address = StateMachine[d].Address
    BY <2>1 DEF TypeOK
  <2>3. \A e \in Devices : e # d => StateMachine'[e] = StateMachine[e]
    BY <2>1 DEF TypeOK
  <2>4. ASSUME NEW e \in Devices
        PROVE  told'[e] = told[e] \/ (e = d /\ told'[e] = setupPacket)
    <3>1. listens[e] = Address[d] => e = d
      BY <2>1, OnlyItHears
    <3> QED BY <2>1, <3>1
  <2>5. setupPacket = StateMachine[d].Address /\ Owns(d, setupPacket)
    BY <1>a, <2>1 DEF OwnInv
  <2>6. listens[d] = Address[d] => told'[d] = setupPacket
    BY <2>1
  <2>7. \A e \in Devices : e # d => StateMachine[e].State = "Idle"
    BY <1>a, <2>1 DEF OneAtATime, Enumerating
  <2>8. MapInv'
    BY <1>a, <2>1 DEF MapInv
  <2>9. OwnInv'
    BY <1>a, <2>1, <2>2, <2>3, <2>4, <2>5 DEF OwnInv, Owns
  <2>10. StageInv'
    BY <1>a, <2>1, <2>2, <2>3, <2>5, <2>6, <2>7 DEF StageInv
  <2>11. Enumerating' \subseteq Enumerating
    BY <2>1, <2>2, <2>3 DEF Enumerating
  <2> QED BY <1>a, <2>8, <2>9, <2>10, <2>11, FewerEnumerated DEF DeviceInv
<1>4. CASE AddressStatusDone(d)
  <2>1. /\ StateMachine[d].State = "AddressStatusWait" /\ Listeners(Address[d]) # {}
        /\ listens' = [e \in Devices |-> IF listens[e] = Address[d] THEN told[e] ELSE listens[e]]
        /\ Address' = [Address EXCEPT ![d] = StateMachine[d].Address]
        /\ StateMachine' = [StateMachine EXCEPT ![d] = IdleChSm]
        /\ stage' = [stage EXCEPT ![d] = IF @ = "default" THEN "addressed" ELSE @]
        /\ UNCHANGED <<UsbAddressInit, UsbAddressList, setupPacket, told, owner>>
    BY <1>4 DEF AddressStatusDone
  <2>2. listens[d] = Address[d]
    BY <2>1, OnlyItHears DEF Listeners
  <2>3. told[d] = StateMachine[d].Address /\ Owns(d, told[d]) /\ told[d] # 0 /\ told[d] # None
    BY <1>a, <2>1, <2>2, Owned DEF StageInv, OwnInv
  <2>4. stage[d] = "default"
    <3>1. Address[d] # None
      BY Reserved DEF TypeOK
    <3> QED BY <1>a, <2>1, <2>2, <3>1 DEF StageInv
  <2>5. /\ StateMachine'[d].State = "Idle" /\ stage'[d] = "addressed"
        /\ Address'[d] = told[d] /\ listens'[d] = told[d]
    BY <2>1, <2>2, <2>3, <2>4 DEF TypeOK, IdleChSm
  <2>6. ASSUME NEW e \in Devices, e # d
        PROVE  /\ StateMachine'[e] = StateMachine[e] /\ stage'[e] = stage[e]
               /\ Address'[e] = Address[e] /\ listens'[e] = listens[e]
    <3>1. listens[e] # Address[d]
      BY <2>1, <2>6, OnlyItHears
    <3> QED BY <2>1, <2>6, <3>1 DEF TypeOK
  <2>7. MapInv'
    BY <1>a, <2>1 DEF MapInv
  <2>8. OwnInv'
    BY <1>a, <2>1, <2>3, <2>5, <2>6 DEF OwnInv, Owns
  <2>9. StageInv'
    BY <1>a, <2>3, <2>5, <2>6, <2>1 DEF StageInv
  <2>10. Enumerating' \subseteq Enumerating
    BY <2>4, <2>5, <2>6 DEF Enumerating
  <2> QED BY <1>a, <2>7, <2>8, <2>9, <2>10, FewerEnumerated DEF DeviceInv
<1>5. CASE AddressFails(d)
  <2>1. /\ StateMachine[d].State \in {"AddressSetupWait", "AddressStatusWait"}
        /\ StateMachine' = [StateMachine EXCEPT ![d] = IdleChSm]
        /\ \/ UNCHANGED listens
           \/ /\ StateMachine[d].State = "AddressStatusWait"
              /\ listens' = [e \in Devices |->
                               IF listens[e] = Address[d] THEN told[e] ELSE listens[e]]
        /\ UNCHANGED <<UsbAddressInit, UsbAddressList, Address, setupPacket, stage, told, owner>>
    BY <1>5 DEF AddressFails, hostVars
  <2>2. StateMachine'[d].State = "Idle"
    BY <2>1 DEF TypeOK, IdleChSm
  <2>3. \A e \in Devices : e # d => StateMachine'[e] = StateMachine[e]
    BY <2>1 DEF TypeOK
  <2>4. \A e \in Devices : e # d => listens'[e] = listens[e]
    BY <2>1, OnlyItHears
  <2>5. \/ listens'[d] = listens[d]
        \/ /\ listens[d] = Address[d] /\ listens'[d] = told[d] /\ Owns(d, told[d])
           /\ told[d] # 0 /\ told[d] # None
    BY <1>a, <2>1, Owned DEF StageInv, OwnInv
  <2>6. Address[d] # None /\ stage[d] \in {"default", "gone"}
    BY <1>a, <2>1, Reserved DEF TypeOK, StageInv
  <2>7. MapInv'
    BY <1>a, <2>1 DEF MapInv
  <2>8. OwnInv'
    BY <1>a, <2>1, <2>2, <2>3, <2>4, <2>5 DEF OwnInv, Owns
  <2>9. StageInv'
    BY <1>a, <2>1, <2>2, <2>3, <2>4, <2>5, <2>6 DEF StageInv
  <2>10. Enumerating' \subseteq Enumerating
    BY <2>1, <2>2, <2>3 DEF Enumerating
  <2> QED BY <1>a, <2>7, <2>8, <2>9, <2>10, FewerEnumerated DEF DeviceInv
<1> QED BY <1>1, <1>2, <1>3, <1>4, <1>5

LEMMA StepApart ==
    ASSUME PatientHub
    PROVE  TypeOK /\ DeviceInv /\ [Next]_vars => DeviceInv'
<1> SUFFICES ASSUME TypeOK, DeviceInv, [Next]_vars PROVE DeviceInv'
  OBVIOUS
<1>1. ASSUME UNCHANGED <<hostVars, StateMachine, stage, busVars, owner>> PROVE DeviceInv'
  <2>1. UNCHANGED <<UsbAddressInit, UsbAddressList, Address, setupPacket, StateMachine,
                    stage, listens, told, owner>>
    BY <1>1 DEF hostVars, busVars
  <2>2. MapInv' /\ OwnInv' /\ StageInv'
    BY <2>1 DEF DeviceInv, MapInv, OwnInv, StageInv, Owns
  <2>3. Enumerating' \subseteq Enumerating
    BY <2>1 DEF Enumerating
  <2> QED BY <2>2, <2>3, FewerEnumerated DEF DeviceInv
<1>2. ASSUME NEW d \in Devices, Transfer(d) PROVE DeviceInv'
  <2>1. UNCHANGED <<hostVars, StateMachine, stage, busVars, owner>>
    BY <1>2 DEF Transfer, InterruptOrBulkData, PacketOut, PacketIn, InterruptOrBulkDataDone,
                Nak, SplitTimesOut, TransferFails, UcxEvtEndpointReset
  <2> QED BY <1>1, <2>1
<1>3. CASE Next
  BY <1>2, <1>3, Steps, HubApart, AddressApart
<1>4. CASE UNCHANGED vars
  BY <1>1, <1>4 DEF vars
<1> QED BY <1>3, <1>4

THEOREM DeviceInvariant ==
    ASSUME PatientHub
    PROVE  Spec => [](TypeOK /\ DeviceInv)
<1>1. Init => TypeOK /\ DeviceInv
  BY InitTypes, InitApart
<1>2. (TypeOK /\ DeviceInv) /\ [Next]_vars => (TypeOK /\ DeviceInv)'
  BY StepTypes, StepApart
<1> QED BY <1>1, <1>2, PTL DEF Spec

\* A hub driver that lets an address request end before it enumerates the next
\* device never has two devices at one address, for any number of either:
\* UsbDevice_UcxEvtAddress (UsbDevice.c:1967) gives no address away twice, and
\* the static packet of TR_RunChSm (UsbDevice.c:1160) holds that of the request
\* it is sent for.
THEOREM DevicesStayApart ==
    ASSUME PatientHub
    PROVE  Spec => []OneDevicePerAddress
<1>1. TypeOK /\ DeviceInv => OneDevicePerAddress
  <2> SUFFICES ASSUME TypeOK, DeviceInv, NEW d \in Devices, NEW e \in Devices,
                      listens[d] = listens[e], listens[d] # None
               PROVE  d = e
    BY DEF OneDevicePerAddress
  <2>1. CASE listens[d] = 0
    BY <2>1 DEF DeviceInv, StageInv, OneAtATime, Enumerating
  <2>2. CASE listens[d] # 0
    BY <2>2 DEF DeviceInv, OwnInv, Owns
  <2> QED BY <2>1, <2>2
<1> QED BY <1>1, DeviceInvariant, PTL

\* And what the host sends to a device that it has addressed reaches that one.
THEOREM TransfersArrive ==
    ASSUME PatientHub
    PROVE  Spec => []TransfersReachTheirDevice
<1>1. TypeOK /\ DeviceInv => TransfersReachTheirDevice
  <2> SUFFICES ASSUME TypeOK, DeviceInv, NEW d \in Devices,
                      stage[d] \in {"addressed", "configured"}
               PROVE  Listeners(Address[d]) = {d}
    BY DEF TransfersReachTheirDevice
  <2>1. listens[d] = Address[d] /\ Owns(d, Address[d])
    BY DEF DeviceInv, StageInv, OwnInv
  <2>2. Address[d] # 0 /\ Address[d] # None
    BY <2>1, Owned DEF DeviceInv
  <2>3. \A e \in Devices : listens[e] = Address[d] => e = d
    BY <2>1, <2>2 DEF DeviceInv, OwnInv, Owns
  <2> QED BY <2>1, <2>3 DEF Listeners
<1> QED BY <1>1, DeviceInvariant, PTL

-----------------------------------------------------------------------------
(* Toggles                                                                  *)

\* A transfer out ends with host and device at the toggle after its last packet,
\* whether the device took that packet or had it already; a transfer in ends only
\* if the device sent what the host waited for.
LEMMA DoneAgrees ==
    ASSUME TypeOK, NEW d \in Devices, InterruptOrBulkDataDone(d)
    PROVE  toggle'[d] = (IF Direction[d] = "In" THEN InToggle'[d] ELSE OutToggle'[d])
<1>1. toggle'[d] = IF toggle[d] = TrPid[d] THEN Flip(toggle[d]) ELSE toggle[d]
  BY DEF InterruptOrBulkDataDone, TypeOK
<1>2. toggle'[d] = Flip(TrPid[d])
  BY <1>1 DEF Flip, TypeOK
<1>3. CASE Direction[d] = "In"
  BY <1>2, <1>3 DEF InterruptOrBulkDataDone, TypeOK
<1>4. CASE Direction[d] # "In"
  BY <1>2, <1>4 DEF InterruptOrBulkDataDone, TypeOK
<1> QED BY <1>3, <1>4

LEMMA TransferAgrees ==
    ASSUME TypeOK, TogglesAgree, NEW d \in Devices, Transfer(d)
    PROVE  TogglesAgree'
<1> SUFFICES ASSUME NEW e \in Devices, stage'[e] = "configured", packets'[e] = 0,
                    e \notin disturbed'
             PROVE  toggle'[e] = (IF Direction'[e] = "In" THEN InToggle'[e] ELSE OutToggle'[e])
  BY DEF TogglesAgree
<1>1. UNCHANGED <<stage, Direction>>
  BY DEF Transfer, InterruptOrBulkData, PacketOut, PacketIn, InterruptOrBulkDataDone,
         Nak, SplitTimesOut, TransferFails, UcxEvtEndpointReset
<1>2. CASE e = d
  <2>1. ASSUME NEW length \in 1..MaxPackets PROVE ~InterruptOrBulkData(d, length)
    BY <1>2, DeviceAssumption DEF InterruptOrBulkData, TypeOK
  <2>2. ~PacketOut(d) /\ ~PacketIn(d)
    BY <1>2, DeviceAssumption DEF PacketOut, PacketIn, TypeOK
  <2>3. ~Nak(d) /\ ~SplitTimesOut(d)
    BY <1>2 DEF Nak, SplitTimesOut, StartOver, TypeOK
  <2>4. ~TransferFails(d)
    BY <1>2 DEF TransferFails
  <2>5. CASE UcxEvtEndpointReset(d)
    <3>1. toggle[d] = 0
      BY <1>2, <2>5 DEF UcxEvtEndpointReset
    <3> QED BY <1>2, <2>5, <3>1 DEF UcxEvtEndpointReset, TogglesAgree, TypeOK
  <2>6. CASE InterruptOrBulkDataDone(d)
    BY <1>1, <1>2, <2>6, DoneAgrees
  <2> QED BY <2>1, <2>2, <2>3, <2>4, <2>5, <2>6 DEF Transfer
<1>3. CASE e # d
  <2>1. packets'[e] = packets[e] /\ toggle'[e] = toggle[e]
    BY <1>3 DEF Transfer, InterruptOrBulkData, PacketOut, PacketIn, InterruptOrBulkDataDone,
                Nak, SplitTimesOut, TransferFails, UcxEvtEndpointReset, StartOver,
                Idle, TypeOK
  <2>2. InToggle'[e] = InToggle[e] /\ OutToggle'[e] = OutToggle[e]
    BY <1>3 DEF Transfer, InterruptOrBulkData, PacketOut, PacketIn, InterruptOrBulkDataDone,
                Nak, SplitTimesOut, TransferFails, UcxEvtEndpointReset, StartOver,
                Idle, TypeOK
  <2>3. disturbed \subseteq disturbed'
    BY DEF Transfer, InterruptOrBulkData, PacketOut, PacketIn, InterruptOrBulkDataDone,
           Nak, SplitTimesOut, TransferFails, UcxEvtEndpointReset
  <2> QED BY <1>1, <2>1, <2>2, <2>3 DEF TogglesAgree
<1> QED BY <1>2, <1>3

LEMMA EnumerationAgrees ==
    ASSUME TypeOK, TogglesAgree, NEW d \in Devices, Enumerate(d)
    PROVE  TogglesAgree'
<1>1. CASE UcxEvtReset(d)
  BY <1>1 DEF UcxEvtReset, TogglesAgree, TypeOK
<1>2. ASSUME NEW type \in {"Isoch", "Bulk", "Interrupt"}, NEW direction \in {"In", "Out"},
             UcxEvtEndpointAdd(d, type, direction)
      PROVE  TogglesAgree'
  <2>1. CASE type = "Isoch"
    BY <1>2, <2>1 DEF UcxEvtEndpointAdd, TogglesAgree, endpointVars
  <2>2. CASE type # "Isoch"
    <3>1. toggle'[d] = 0 /\ InToggle'[d] = 0 /\ OutToggle'[d] = 0
      BY <1>2, <2>2 DEF UcxEvtEndpointAdd, TypeOK
    <3>2. ASSUME NEW e \in Devices, e # d
          PROVE  /\ toggle'[e] = toggle[e] /\ InToggle'[e] = InToggle[e]
                 /\ OutToggle'[e] = OutToggle[e] /\ stage'[e] = stage[e]
                 /\ Direction'[e] = Direction[e] /\ packets'[e] = packets[e]
                 /\ e \in disturbed' <=> e \in disturbed
      BY <1>2, <2>2, <3>2 DEF UcxEvtEndpointAdd, TypeOK
    <3> QED BY <3>1, <3>2 DEF TogglesAgree
  <2> QED BY <2>1, <2>2
<1>3. ASSUME UNCHANGED endpointVars,
             \A e \in Devices : stage'[e] = "configured" => stage[e] = "configured"
      PROVE  TogglesAgree'
  BY <1>3 DEF TogglesAgree, endpointVars
<1>4. CASE UcxEvtDeviceAdd(d) \/ Leave(d)
  <2>1. UNCHANGED endpointVars
    BY <1>4 DEF UcxEvtDeviceAdd, Leave
  <2>2. \A e \in Devices : stage'[e] = "configured" => stage[e] = "configured"
    BY <1>4 DEF UcxEvtDeviceAdd, Leave, TypeOK
  <2> QED BY <1>3, <2>1, <2>2
<1>5. CASE \/ UcxEvtAddress(d) \/ AddressSetup(d) \/ AddressSetupDone(d) \/ AddressFails(d)
           \/ AddressStatusDone(d)
  <2>1. UNCHANGED endpointVars
    BY <1>5 DEF UcxEvtAddress, AddressSetup, AddressSetupDone, AddressFails, AddressStatusDone
  <2>2. \A e \in Devices : stage'[e] = "configured" => stage[e] = "configured"
    BY <1>5 DEF UcxEvtAddress, AddressSetup, AddressSetupDone, AddressFails,
                AddressStatusDone, TypeOK
  <2> QED BY <1>3, <2>1, <2>2
<1> QED BY <1>1, <1>2, <1>4, <1>5 DEF Enumerate

\* Whatever transfers of whatever length do, and however often they start over,
\* host and device start the next one with the same toggle (UsbDevice.c:513), until
\* one fails or loses a packet, or a reset takes an endpoint back to DATA0 on the
\* device alone (1578): no reset of an endpoint that is at DATA0 harms it.
THEOREM TogglesStayInStep == Spec => []TogglesAgree
<1>1. Init => TogglesAgree
  BY DEF Init, TogglesAgree
<1>2. (TypeOK /\ TogglesAgree) /\ [Next]_vars => TogglesAgree'
  <2> SUFFICES ASSUME TypeOK, TogglesAgree, [Next]_vars PROVE TogglesAgree'
    OBVIOUS
  <2>1. CASE Next
    BY <2>1, TransferAgrees, EnumerationAgrees DEF Next
  <2>2. CASE UNCHANGED vars
    BY <2>2 DEF vars, endpointVars, TogglesAgree
  <2> QED BY <2>1, <2>2
<1> QED BY <1>1, <1>2, DeviceTypeCorrect, PTL DEF Spec
=============================================================================
