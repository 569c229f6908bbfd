------------------------ MODULE SdhcMiniportProofs ------------------------
(***************************************************************************)
(* Theorems about the request engine, for every set of requests sdport may *)
(* issue, every set of errors the hardware may raise and every setting of  *)
(* the switches.                                                           *)
(***************************************************************************)
EXTENDS SdhcMiniport, SdhcRequestProofs

(***************************************************************************)
(* The operators that change a request return a request.                   *)
(***************************************************************************)
LEMMA EventsToWaitForType ==
    ASSUME NEW r \in SDPORT_REQUEST
    PROVE  EventsToWaitFor(r) \subseteq CommandEvent
BY DEF EventsToWaitFor, ReadyEvent, CommandEvent, SDPORT_REQUEST

LEMMA SentType ==
    ASSUME NEW r \in SDPORT_REQUEST
    PROVE  Sent(r) \in SDPORT_REQUEST
BY EventsToWaitForType DEF Sent, SDPORT_REQUEST

LEMMA ReadyEventType ==
    ASSUME NEW r
    PROVE  ReadyEvent(r) \in {"ReadReady", "WriteReady"}
BY DEF ReadyEvent

LEMMA PioStartedType ==
    ASSUME NEW r \in SDPORT_REQUEST, NEW seen
    PROVE  PioStarted(r, seen) \in SDPORT_REQUEST
<1> DEFINE left == UShort(r.BlockCount - 1)
           more == r.RequiredEvents \cup {ReadyEvent(r)}
           last == IF "TransferComplete" \in seen THEN r.RequiredEvents
                   ELSE r.RequiredEvents \cup {"TransferComplete"}
<1>1. left \in Nat
  <2>1. r.BlockCount - 1 \in Int
    BY DEF SDPORT_REQUEST
  <2> QED
    BY <2>1, UShortType
<1>2. more \in SUBSET CommandEvent /\ last \in SUBSET CommandEvent
  BY ReadyEventType DEF CommandEvent, SDPORT_REQUEST
<1>3. r.DataBuffer + r.BlockSize \in Nat
  BY DEF SDPORT_REQUEST
<1>4. PioStarted(r, seen) =
        IF left >= 1
        THEN [[r EXCEPT !.BlockCount = left] EXCEPT
                 !.DataBuffer = r.DataBuffer + r.BlockSize,
                 !.RequiredEvents = more, !.Status = "MORE_PROCESSING_REQUIRED"]
        ELSE [[r EXCEPT !.BlockCount = left] EXCEPT
                 !.RequiredEvents = last, !.Status = "SUCCESS"]
  BY DEF PioStarted, SDPORT_REQUEST
<1> HIDE DEF left, more, last
<1>5. [r EXCEPT !.BlockCount = left] \in SDPORT_REQUEST
  BY <1>1 DEF SDPORT_REQUEST
<1>6. CASE left >= 1
  <2> DEFINE sent == [r EXCEPT !.BlockCount = left]
  <2> HIDE DEF sent
  <2>1. [sent EXCEPT !.DataBuffer = r.DataBuffer + r.BlockSize,
                     !.RequiredEvents = more, !.Status = "MORE_PROCESSING_REQUIRED"]
          \in SDPORT_REQUEST
    BY <1>2, <1>3, <1>5 DEF sent, SDPORT_REQUEST, RequestStatus
  <2> QED
    BY <1>4, <1>6, <2>1 DEF sent
<1>7. CASE ~(left >= 1)
  <2> DEFINE sent == [r EXCEPT !.BlockCount = left]
  <2> HIDE DEF sent
  <2>1. [sent EXCEPT !.RequiredEvents = last, !.Status = "SUCCESS"] \in SDPORT_REQUEST
    BY <1>2, <1>5 DEF sent, SDPORT_REQUEST, RequestStatus
  <2> QED
    BY <1>4, <1>7, <2>1 DEF sent
<1> QED
  BY <1>6, <1>7

LEMMA ToStartType ==
    ASSUME NEW r \in SDPORT_REQUEST
    PROVE  ToStart(r) \in [cmd : {"none", "sent", "answered"}, left : Int,
                           ready : BOOLEAN, owes : BOOLEAN,
                           event : {"ReadReady", "WriteReady"}]
<1>1. r.BlockCount \in Int
  BY DEF SDPORT_REQUEST
<1>2. (r.Data \/ r.Response = "busy") \in BOOLEAN
  BY Zenon DEF SDPORT_REQUEST
<1> QED
  BY <1>1, <1>2, ReadyEventType DEF ToStart
-----------------------------------------------------------------------------
(***************************************************************************)
(* Type correctness.  SdhcSetTransferMode divides by the block size of the *)
(* internal request when it is sent, so the internal request that is ready *)
(* must not be of size zero: this is the strengthening.                    *)
(***************************************************************************)
TrailingSized == UnalignedReqState = "Ready" => UnalignedRequest.BlockSize # 0

TypeInv == TypeOK /\ TrailingSized

EngineType == [cmd : {"none", "sent", "answered"}, left : Int, ready : BOOLEAN,
               owes : BOOLEAN, event : {"ReadReady", "WriteReady"}]

LEMMA StoppedType ==
    ASSUME NEW e \in EngineType
    PROVE  [e EXCEPT !.left = 0, !.ready = FALSE, !.owes = FALSE] \in EngineType
<1>1. ASSUME NEW n \in Int
      PROVE  [e EXCEPT !.left = n, !.ready = FALSE, !.owes = FALSE] \in EngineType
  BY DEF EngineType
<1>2. 0 \in Int
  OBVIOUS
<1> QED
  BY <1>1, <1>2

LEMMA InitType == Init => TypeInv
<1>1. ZeroRequest \in SDPORT_REQUEST
  BY DEF ZeroRequest, SDPORT_REQUEST, RequestStatus
<1>2. IdleEngine \in EngineType
  BY DEF IdleEngine, EngineType
<1> SUFFICES ASSUME Init PROVE TypeInv
  OBVIOUS
<1>3. TypeOK
  BY <1>1, <1>2 DEF Init, TypeOK, EngineType, IdleIsr, IdleDpc, PortPhase,
                    UnalignedState
<1>4. TrailingSized
  BY DEF Init, TrailingSized
<1> QED
  BY <1>3, <1>4 DEF TypeInv

\* The answer sdport takes is a phase.
LEMMA PortCompleteType ==
    ASSUME TypeOK, NEW result, PortCompleteRequest(result)
    PROVE  port' \in PortPhase /\ spurious' \in BOOLEAN
BY DEF TypeOK, PortCompleteRequest, PortPhase, Waiting

LEMMA CompleteType ==
    ASSUME TypeOK, NEW r, NEW result, CompleteRequest(r, result)
    PROVE  /\ OutstandingRequest' \in {NULL, REQUEST}
           /\ port' \in PortPhase /\ spurious' \in BOOLEAN
BY PortCompleteType DEF TypeOK, CompleteRequest

LEMMA MoveBlockType ==
    ASSUME TypeOK, NEW r \in SDPORT_REQUEST, MoveBlock(r)
    PROVE  /\ CurrentEvents' = {}
           /\ engine' \in EngineType
           /\ moved' \subseteq Int
           /\ unready' \in BOOLEAN
<1>1. r.DataBuffer \in Nat /\ r.BlockSize \in Nat
  BY DEF SDPORT_REQUEST
<1>2. engine \in EngineType /\ moved \subseteq Int /\ unready \in BOOLEAN
  BY DEF TypeOK, EngineType
<1>3. CASE engine.ready
  <2>1. /\ CurrentEvents' = {}
        /\ engine' = [engine EXCEPT !.ready = FALSE, !.left = engine.left - 1]
        /\ moved' = moved \cup r.DataBuffer .. r.DataBuffer + r.BlockSize - 1
        /\ unready' = unready
    BY <1>2, <1>3 DEF MoveBlock, EngineType
  <2>2. r.DataBuffer .. r.DataBuffer + r.BlockSize - 1 \subseteq Int
    BY <1>1
  <2>3. engine' \in EngineType
    <3> DEFINE left == engine.left - 1
    <3>1. left \in Int
      BY <1>2 DEF EngineType
    <3>2. engine' = [engine EXCEPT !.ready = FALSE, !.left = left]
      BY <2>1
    <3> HIDE DEF left
    <3> QED
      BY <1>2, <3>1, <3>2 DEF EngineType
  <2> QED
    BY <1>2, <2>1, <2>2, <2>3
<1>4. CASE ~engine.ready
  BY <1>2, <1>4 DEF MoveBlock
<1> QED
  BY <1>3, <1>4

LEMMA HardwareType ==
    ASSUME TypeInv, Hardware
    PROVE  TypeInv'
<1> USE DEF TypeInv, TypeOK, TrailingSized, extension, history
<1>1. CASE HwCommandComplete
  BY <1>1 DEF HwCommandComplete, Raise, NormalEvent, CommandEvent
<1>2. CASE HwBufferReady
  BY <1>2 DEF HwBufferReady, Raise, NormalEvent, CommandEvent
<1>3. CASE HwTransferComplete
  BY <1>3 DEF HwTransferComplete, Raise, NormalEvent, CommandEvent
<1>4. CASE HwError
  <2>1. errors' \subseteq ErrorBit
    BY <1>4, HwErrorsAssumption DEF HwError
  <2>2. engine' \in EngineType
    <3> DEFINE left == IF engine.ready THEN 1 ELSE 0
    <3>1. left \in Int /\ engine \in EngineType
      BY DEF EngineType
    <3>2. \/ engine' = [engine EXCEPT !.cmd = "none", !.owes = FALSE, !.left = left]
          \/ engine' = engine
      BY <1>4 DEF HwError, Halted
    <3> HIDE DEF left
    <3> QED
      BY <3>1, <3>2 DEF EngineType
  <2> QED
    BY <1>4, <2>1, <2>2 DEF HwError, EngineType
<1>5. CASE HwCardEvent
  BY <1>5 DEF HwCardEvent, Raise, NormalEvent
<1> QED
  BY <1>1, <1>2, <1>3, <1>4, <1>5 DEF Hardware

LEMMA SlotInterruptType ==
    ASSUME TypeInv, SlotInterrupt
    PROVE  TypeInv'
<1> USE DEF TypeInv, TypeOK, TrailingSized, extension, history, hardware
<1>1. CASE IsrReadStatus
  BY <1>1 DEF IsrReadStatus, InterruptStatus, Event
<1>2. CASE IsrReadErrors
  BY <1>2 DEF IsrReadErrors
<1>3. CASE IsrAckErrors
  BY <1>3 DEF IsrAckErrors, ErrorsLeft
<1>4. CASE IsrAckEvents
  BY <1>4 DEF IsrAckEvents, EventsForDpc, IdleIsr
<1> QED
  BY <1>1, <1>2, <1>3, <1>4 DEF SlotInterrupt

\* The DPC leaves a request a request when it takes the events off it.
LEMMA FinishedType ==
    ASSUME TypeOK
    PROVE  /\ Arrived \in SDPORT_REQUEST
           /\ Finished \in SDPORT_REQUEST
           /\ Seen \subseteq Event \ CardEvent
           /\ [Request EXCEPT !.RequiredEvents = {}] \in SDPORT_REQUEST
<1>1. Request \in SDPORT_REQUEST
  BY DEF TypeOK
<1>2. Request.RequiredEvents \in SUBSET CommandEvent
  BY <1>1 DEF SDPORT_REQUEST
<1>3. Awaited \in SUBSET CommandEvent
  BY <1>2 DEF Awaited
<1>4. Arrived \in SDPORT_REQUEST
  BY <1>1, <1>3 DEF Arrived, SDPORT_REQUEST
<1>5. Finished \in SDPORT_REQUEST
  BY <1>4 DEF Finished, SDPORT_REQUEST, RequestStatus
<1>6. Seen \subseteq Event \ CardEvent
  BY DEF TypeOK, Seen
<1>7. [Request EXCEPT !.RequiredEvents = {}] \in SDPORT_REQUEST
  BY <1>1 DEF SDPORT_REQUEST
<1> QED
  BY <1>4, <1>5, <1>6, <1>7

\* What taking the events leaves as it was.
LEMMA TakeEventsType ==
    ASSUME TypeOK, TakeEvents
    PROVE  /\ dpc' \in [queued : BOOLEAN, events : SUBSET (Event \ CardEvent),
                        errors : SUBSET ErrorBit]
           /\ UNCHANGED <<isr, status, errors, enabled>>
BY DEF TakeEvents, IdleDpc, latches

LEMMA TrailingCommandType ==
    ASSUME TypeInv, UnalignedReqState = "Ready"
    PROVE  SetArgument(SizeInBlocks(UnalignedRequest)) \in SDPORT_REQUEST
<1>1. UnalignedRequest \in SDPORT_REQUEST /\ UnalignedRequest.BlockSize # 0
  BY DEF TypeInv, TypeOK, TrailingSized
<1>2. SizeInBlocks(UnalignedRequest) \in SDPORT_REQUEST
  BY <1>1, SizedType
<1> QED
  BY <1>2, ArgumentType

LEMMA RequestDpcType ==
    ASSUME TypeInv, RequestDpc
    PROVE  TypeInv'
<1> USE DEF TypeInv, TypeOK, TrailingSized, history
<1>1. CASE DpcNothing
  BY <1>1, TakeEventsType DEF DpcNothing, extension
<1>2. CASE DpcNotIssued
  BY <1>2, TakeEventsType, FinishedType DEF DpcNotIssued
<1>3. CASE DpcError
  <2>1. /\ OutstandingRequest' \in {NULL, REQUEST}
        /\ port' \in PortPhase /\ spurious' \in BOOLEAN
    BY <1>3, CompleteType DEF DpcError
  <2> QED
    BY <1>3, <2>1, TakeEventsType, FinishedType DEF DpcError, UnalignedState
<1>4. CASE DpcStillWaiting
  BY <1>4, TakeEventsType, FinishedType DEF DpcStillWaiting
<1>5. CASE DpcComplete
  <2>1. /\ OutstandingRequest' \in {NULL, REQUEST}
        /\ port' \in PortPhase /\ spurious' \in BOOLEAN
    BY <1>5, CompleteType DEF DpcComplete
  <2>2. TakeEvents
    BY <1>5 DEF DpcComplete, DpcAllArrived
  <2> QED
    BY <1>5, <2>1, <2>2, TakeEventsType, FinishedType DEF DpcComplete, UnalignedState
<1>6. CASE DpcSendTrailing
  <2> DEFINE internal == SetArgument(SizeInBlocks(UnalignedRequest))
  <2>1. internal \in SDPORT_REQUEST
    BY <1>6, TrailingCommandType DEF DpcSendTrailing
  <2>2. /\ UnalignedRequest' = Sent(internal)
        /\ CurrentEvents' = {} /\ engine' = ToStart(internal)
        /\ UnalignedReqState' = "SendCommand"
        /\ Request' = Finished
        /\ UNCHANGED <<OutstandingRequest, port, moved, unready, spurious>>
        /\ TakeEvents
    BY <1>6 DEF DpcSendTrailing, DpcAllArrived, StartCommand
  <2> HIDE DEF internal
  <2>3. UnalignedRequest' \in SDPORT_REQUEST
    BY <2>1, <2>2, SentType
  <2>4. engine' \in EngineType
    BY <2>1, <2>2, ToStartType DEF EngineType
  <2> QED
    BY <2>2, <2>3, <2>4, TakeEventsType, FinishedType DEF EngineType, UnalignedState
<1>7. CASE DpcMoveTrailing
  <2>1. TakeEvents /\ MoveBlock(UnalignedRequest) /\ Request' = Finished
    BY <1>7 DEF DpcMoveTrailing, DpcAllArrived
  <2>2. UnalignedRequest' \in SDPORT_REQUEST
    BY <1>7, PioStartedType DEF DpcMoveTrailing
  <2>3. /\ CurrentEvents' = {} /\ engine' \in EngineType
        /\ moved' \subseteq Int /\ unready' \in BOOLEAN
    BY <2>1, MoveBlockType
  <2>4. /\ OutstandingRequest' \in {NULL, REQUEST}
        /\ port' \in PortPhase /\ spurious' \in BOOLEAN
        /\ UnalignedReqState' \in {"Idle", "StartTransfer"}
    BY <1>7, CompleteType DEF DpcMoveTrailing
  <2> QED
    BY <2>1, <2>2, <2>3, <2>4, TakeEventsType, FinishedType
    DEF EngineType, UnalignedState
<1> QED
  BY <1>1, <1>2, <1>3, <1>4, <1>5, <1>6, <1>7 DEF RequestDpc

LEMMA SdPortType ==
    ASSUME TypeInv, SdPort
    PROVE  TypeInv'
<1> USE DEF TypeInv, TypeOK, TrailingSized, history
<1>1. CASE IssueCommand
  <2>1. PICK c \in Commands :
          LET sized == IF BuildsTransfer(c) THEN SizeInBlocks(c) ELSE c
              built == IF BuildsTransfer(c) THEN SetArgument(sized) ELSE c
          IN  /\ StartUnaligned(sized)
              /\ IF IsAccepted(c)
                 THEN /\ Request' = Sent(built)
                      /\ StartCommand(built)
                      /\ port' = "command"
                 ELSE /\ Request' = built
                      /\ port' = "error"
                      /\ UNCHANGED <<CurrentEvents, engine>>
    BY <1>1 DEF IssueCommand
  <2> DEFINE sized == IF BuildsTransfer(c) THEN SizeInBlocks(c) ELSE c
             built == IF BuildsTransfer(c) THEN SetArgument(sized) ELSE c
  <2>2. c \in FreshRequest /\ c \in SDPORT_REQUEST
    BY CommandsAssumption DEF FreshRequest
  <2>3. BuildsTransfer(c) => c.Data
    BY Zenon DEF BuildsTransfer
  <2>4. sized \in SDPORT_REQUEST
    BY <2>2, <2>3, SizedFresh
  <2>5. built \in SDPORT_REQUEST
    BY <2>2, <2>4, ArgumentType
  <2>6. BuildsTransfer(sized) /\ ~BuildsTransfer(c) => FALSE
    OBVIOUS
  <2>7. /\ UnalignedReqState' \in UnalignedState
        /\ UnalignedRequest' \in SDPORT_REQUEST
        /\ TrailingSized'
    <3>1. CASE ~BuildsTransfer(sized)
      BY <2>1, <3>1 DEF StartUnaligned
    <3>2. CASE BuildsTransfer(sized) /\ HasTrailingBytes(sized)
      <4>1. UnalignedReqState' = "Ready" /\ UnalignedRequest' = InternalRequest(sized)
        BY <2>1, <3>2 DEF StartUnaligned
      <4>2. c.Data /\ sized = SizeInBlocks(c)
        BY <2>3, <2>6, <3>2
      <4>3. /\ InternalRequest(sized) \in SDPORT_REQUEST
            /\ InternalRequest(sized).Length \in 1 .. sized.BlockSize - 1
            /\ InternalRequest(sized).BlockSize = InternalRequest(sized).Length
        BY <2>2, <3>2, <4>2, TrailingBytesTile
      <4>4. \A n, m \in Int : n \in 1 .. m => n # 0
        OBVIOUS
      <4> HIDE DEF sized
      <4>5. InternalRequest(sized).BlockSize # 0
        BY <2>4, <4>3 DEF SDPORT_REQUEST
      <4> QED
        BY <4>1, <4>3, <4>5 DEF UnalignedState
    <3>3. CASE BuildsTransfer(sized) /\ ~HasTrailingBytes(sized)
      BY <2>1, <3>3 DEF StartUnaligned, UnalignedState
    <3> QED
      BY <3>1, <3>2, <3>3
  <2>8. /\ Request' \in SDPORT_REQUEST
        /\ CurrentEvents' \subseteq Event \ CardEvent
        /\ engine' \in EngineType
        /\ port' \in PortPhase
    <3> HIDE DEF sized, built
    <3>1. Sent(built) \in SDPORT_REQUEST /\ ToStart(built) \in EngineType
      BY <2>5, SentType, ToStartType DEF EngineType
    <3>2. engine \in EngineType
      BY DEF EngineType
    <3> QED
      BY <2>1, <2>5, <3>1, <3>2 DEF StartCommand, PortPhase, Waiting, sized, built
  <2>9. /\ OutstandingRequest' = REQUEST /\ moved' = {}
        /\ UNCHANGED <<isr, dpc, status, errors, enabled, unready, spurious>>
    BY <1>1 DEF IssueCommand, latches
  <2> QED
    BY <2>7, <2>8, <2>9 DEF EngineType
<1>2. CASE IssueStartTransfer
  <2>1. Request' \in SDPORT_REQUEST
    BY <1>2, PioStartedType DEF IssueStartTransfer
  <2>2. /\ CurrentEvents' = {} /\ engine' \in EngineType
        /\ moved' \subseteq Int /\ unready' \in BOOLEAN
    BY <1>2, MoveBlockType DEF IssueStartTransfer
  <2>3. OutstandingRequest' \in {NULL, REQUEST} /\ port' \in PortPhase
    BY <1>2 DEF IssueStartTransfer, PortPhase, Waiting
  <2> QED
    BY <1>2, <2>1, <2>2, <2>3 DEF IssueStartTransfer, EngineType, latches
<1>3. CASE ResetHost
  <2>1. /\ engine' \in EngineType /\ status' \subseteq NormalEvent
        /\ errors' \subseteq ErrorBit /\ enabled' \subseteq Event
        /\ port' \in PortPhase
    <3>1. CASE UNCHANGED hardware /\ port' = "error"
      BY <3>1 DEF hardware, EngineType, PortPhase
    <3>2. ASSUME NEW type \in {"All", "Cmd", "Dat"}, HwReset(type),
                 enabled' = {}, port' = "reset"
          PROVE  /\ engine' \in EngineType /\ status' \subseteq NormalEvent
                 /\ errors' \subseteq ErrorBit /\ enabled' \subseteq Event
                 /\ port' \in PortPhase
      <4>1. engine \in EngineType /\ IdleEngine \in EngineType
        BY DEF EngineType, IdleEngine
      <4>2. engine' \in EngineType
        <5>1. [engine EXCEPT !.cmd = "none"] \in EngineType
          BY <4>1 DEF EngineType
        <5>2. [engine EXCEPT !.left = 0, !.ready = FALSE, !.owes = FALSE]
                \in EngineType
          BY <4>1, StoppedType
        <5> QED
          BY <3>2, <4>1, <5>1, <5>2 DEF HwReset
      <4>3. status' \subseteq status /\ errors' \subseteq errors
        BY <3>2 DEF HwReset
      <4> QED
        BY <3>2, <4>2, <4>3 DEF PortPhase
    <3>3. \/ UNCHANGED hardware /\ port' = "error"
          \/ /\ \E type \in {"All", "Cmd", "Dat"} : HwReset(type)
             /\ enabled' = {}
             /\ port' = "reset"
      BY <1>3 DEF ResetHost
    <3> QED
      BY <3>1, <3>2, <3>3
  <2> QED
    BY <1>3, <2>1 DEF ResetHost, ForgetRequest, EngineType, UnalignedState
<1>4. CASE ClearEvents
  BY <1>4 DEF ClearEvents, extension
<1>5. CASE EnableAllEvents
  BY <1>5 DEF EnableAllEvents, EnableInterrupt, extension, latches, Event, PortPhase
<1>6. CASE MaskCardInterrupt
  BY <1>6 DEF MaskCardInterrupt, DisableInterrupt, extension, latches
<1>7. CASE UnmaskCardInterrupt
  BY <1>7 DEF UnmaskCardInterrupt, EnableInterrupt, extension, latches, Event,
              NormalEvent, CardEvent
<1> QED
  BY <1>1, <1>2, <1>3, <1>4, <1>5, <1>6, <1>7 DEF SdPort

LEMMA StepType == TypeInv /\ [Next]_vars => TypeInv'
<1> SUFFICES ASSUME TypeInv, [Next]_vars PROVE TypeInv'
  OBVIOUS
<1>1. CASE UNCHANGED vars
  BY <1>1 DEF vars, extension, hardware, history, TypeInv, TypeOK, TrailingSized
<1> QED
  BY <1>1, HardwareType, SlotInterruptType, RequestDpcType, SdPortType DEF Next

(***************************************************************************)
(* Type correctness of the request engine: every field of the extension,   *)
(* of the requests and of the hardware always holds a value of its type.   *)
(***************************************************************************)
THEOREM TypeCorrect == Spec => []TypeOK
<1>1. TypeInv => TypeOK
  BY DEF TypeInv
<1> QED
  BY <1>1, InitType, StepType, PTL DEF Spec
-----------------------------------------------------------------------------
(***************************************************************************)
(* Who has the request: RequestOwned and SettledStaysSettled, for every    *)
(* set of requests, with or without trailing bytes, for hardware that goes *)
(* on after errors, an sdport that takes its time between the phases, and  *)
(* a request timer that expires at any moment.                             *)
(***************************************************************************)

(***************************************************************************)
(* RequestOwned alone is not inductive.  SdhcCompleteRequest forgets the   *)
(* request when it has no data or no block left, while sdport goes by the  *)
(* status it is given.  The two agree because only requests with data are  *)
(* transferred, because a command phase never leaves the status that asks  *)
(* for more, and because a transfer phase without that status was the last.*)
(***************************************************************************)
TransferHasData   == port \in {"reissue", "transfer"} => Request.Data
CommandAsksNoMore == port = "command" => Request.Status # "MORE_PROCESSING_REQUIRED"
LastBlockCounted  ==
    port = "transfer" /\ Request.Status # "MORE_PROCESSING_REQUIRED"
        => Request.BlockCount = 0

OwnedInv == RequestOwned /\ TransferHasData /\ CommandAsksNoMore /\ LastBlockCounted

Inv == TypeInv /\ OwnedInv

LEMMA InitOwned == Init => Inv
<1> SUFFICES ASSUME Init PROVE OwnedInv
  BY InitType DEF Inv
<1> QED
  BY DEF Init, OwnedInv, RequestOwned, TransferHasData, CommandAsksNoMore,
         LastBlockCounted, Waiting

(***************************************************************************)
(* What the DPC makes of the request: events and status change, the data   *)
(* does not.                                                               *)
(***************************************************************************)
LEMMA ArrivedFields ==
    ASSUME TypeOK
    PROVE  /\ Arrived.Data = Request.Data
           /\ Arrived.BlockCount = Request.BlockCount
           /\ Arrived.Status = Request.Status
BY DEF TypeOK, Arrived, SDPORT_REQUEST

LEMMA FinishedFields ==
    ASSUME TypeOK
    PROVE  /\ Finished.Data = Request.Data
           /\ Finished.BlockCount = Request.BlockCount
           /\ Request.Status = "MORE_PROCESSING_REQUIRED"
                => Finished.Status = "MORE_PROCESSING_REQUIRED"
           /\ Request.Status # "MORE_PROCESSING_REQUIRED"
                => Finished.Status = "SUCCESS"
<1>1. Arrived \in SDPORT_REQUEST
  BY FinishedType
<1> QED
  BY <1>1, ArrivedFields DEF Finished, SDPORT_REQUEST

LEMMA ErrorIsFailure ==
    ASSUME NEW errs, errs # {}
    PROVE  ConvertErrorToStatus(errs) \notin {"SUCCESS", "MORE_PROCESSING_REQUIRED"}
BY DEF ConvertErrorToStatus
-----------------------------------------------------------------------------
(***************************************************************************)
(* Completing the outstanding request with its own status keeps OwnedInv.  *)
(***************************************************************************)
LEMMA FinishedOwned ==
    ASSUME Inv, OutstandingRequest # NULL, Request' = Finished,
           CompleteRequest(Finished, Finished.Status)
    PROVE  OwnedInv'
<1>1. /\ Request'.Data = Request.Data
      /\ Request'.BlockCount = Request.BlockCount
      /\ Request'.Status \in {"SUCCESS", "MORE_PROCESSING_REQUIRED"}
      /\ Request'.Status = "SUCCESS" <=> Request.Status # "MORE_PROCESSING_REQUIRED"
  BY FinishedFields DEF Inv, TypeInv
<1>2. Request.Data \in BOOLEAN
  BY DEF Inv, TypeInv, TypeOK, SDPORT_REQUEST
<1>3. OutstandingRequest' = IF (Request.Data => Request.BlockCount = 0) THEN NULL
                            ELSE OutstandingRequest
  BY <1>1 DEF CompleteRequest, IsCommandCompleted
<1>4. PortCompleteRequest(Request'.Status)
  BY DEF CompleteRequest
<1>5. port \notin {"idle", "done", "reset"}
  BY DEF Inv, OwnedInv, RequestOwned
<1>6. CASE port \notin Waiting
  BY <1>1, <1>4, <1>5, <1>6 DEF Inv, OwnedInv, RequestOwned, TransferHasData,
     CommandAsksNoMore, LastBlockCounted, PortCompleteRequest, Waiting
<1>7. CASE port = "command"
  <2>1. Request'.Status = "SUCCESS"
    BY <1>1, <1>7 DEF Inv, OwnedInv, CommandAsksNoMore
  <2>2. port' = IF Request.Data THEN "reissue" ELSE "done"
    BY <1>4, <1>7, <2>1 DEF PortCompleteRequest, Waiting
  <2> QED
    BY <1>1, <1>2, <1>3, <2>2 DEF OwnedInv, RequestOwned, TransferHasData,
       CommandAsksNoMore, LastBlockCounted, Waiting
<1>8. CASE port = "transfer"
  <2>1. Request.Data
    BY <1>8 DEF Inv, OwnedInv, TransferHasData
  <2>2. CASE Request'.Status = "SUCCESS"
    <3>1. port' = "done"
      BY <1>4, <1>8, <2>2 DEF PortCompleteRequest, Waiting
    <3>2. Request.BlockCount = 0
      BY <1>1, <1>8, <2>2 DEF Inv, OwnedInv, LastBlockCounted
    <3> QED
      BY <1>3, <3>1, <3>2 DEF OwnedInv, RequestOwned, TransferHasData,
         CommandAsksNoMore, LastBlockCounted, Waiting
  <2>3. CASE Request'.Status = "MORE_PROCESSING_REQUIRED"
    <3>1. port' = "reissue"
      BY <1>4, <1>8, <2>3 DEF PortCompleteRequest, Waiting
    <3> QED
      BY <1>1, <2>1, <3>1 DEF OwnedInv, RequestOwned, TransferHasData,
         CommandAsksNoMore, LastBlockCounted, Waiting
  <2> QED
    BY <1>1, <2>2, <2>3
<1> QED
  BY <1>6, <1>7, <1>8 DEF Waiting

LEMMA DpcOwned ==
    ASSUME Inv, RequestDpc
    PROVE  OwnedInv'
<1> USE DEF OwnedInv, RequestOwned, TransferHasData, CommandAsksNoMore,
            LastBlockCounted
<1>1. CASE DpcNothing
  BY <1>1 DEF DpcNothing, extension, Inv
<1>2. CASE DpcNotIssued
  BY <1>2 DEF DpcNotIssued, Inv
<1>3. CASE DpcError
  <2>1. port \notin {"idle", "done", "reset"}
    BY <1>3 DEF DpcError, Inv
  <2>2. /\ Request'.Data = Request.Data
        /\ Request'.BlockCount = Request.BlockCount
        /\ Request'.Status = Request.Status
    BY <1>3 DEF DpcError, Inv, TypeInv, TypeOK, SDPORT_REQUEST
  <2>3. port' = IF port \in Waiting THEN "error" ELSE port
    BY <1>3, ErrorIsFailure DEF DpcError, CompleteRequest, PortCompleteRequest
  <2> QED
    BY <2>1, <2>2, <2>3 DEF Inv, Waiting
<1>4. CASE DpcStillWaiting
  <2>1. Request' = Arrived /\ UNCHANGED <<OutstandingRequest, port>>
    BY <1>4 DEF DpcStillWaiting
  <2> QED
    BY <2>1, ArrivedFields DEF Inv, TypeInv
<1>5. CASE DpcComplete
  BY <1>5, FinishedOwned DEF DpcComplete, DpcAllArrived
<1>6. ASSUME Request' = Finished, UNCHANGED <<OutstandingRequest, port>>
      PROVE  OwnedInv'
  BY <1>6, FinishedFields DEF Inv, TypeInv
<1>7. CASE DpcSendTrailing
  BY <1>6, <1>7 DEF DpcSendTrailing
<1>8. CASE DpcMoveTrailing
  <2>1. Request' = Finished /\ OutstandingRequest # NULL
    BY <1>8 DEF DpcMoveTrailing, DpcAllArrived
  <2>2. \/ CompleteRequest(Finished, Finished.Status)
        \/ UNCHANGED <<OutstandingRequest, port>>
    BY <1>8 DEF DpcMoveTrailing
  <2> QED
    BY <1>6, <2>1, <2>2, FinishedOwned
<1> QED
  BY <1>1, <1>2, <1>3, <1>4, <1>5, <1>7, <1>8 DEF RequestDpc
-----------------------------------------------------------------------------
(***************************************************************************)
(* An accepted command starts without a status, and a transfer that does   *)
(* not ask for more has counted its last block.                            *)
(***************************************************************************)
LEMMA CommandStatus ==
    ASSUME NEW c \in FreshRequest
    PROVE  /\ Sent(c).Status = "PENDING"
           /\ Sent(SetArgument(SizeInBlocks(c))).Status = "PENDING"
<1>1. c \in SDPORT_REQUEST /\ c.Status = "PENDING" /\ c.BlockSize # 0
  BY DEF FreshRequest
<1>2. Sent(c).Status = "PENDING"
  BY <1>1 DEF Sent, SDPORT_REQUEST
<1>3. SizeInBlocks(c) \in SDPORT_REQUEST
  BY <1>1, SizedType
<1>4. SizeInBlocks(c).Status = "PENDING"
  <2> DEFINE count == UShort(c.Length \div c.BlockSize)
             size  == UShort(c.Length)
  <2>1. SizeInBlocks(c) = IF count = 0
                          THEN [c EXCEPT !.BlockCount = 1, !.BlockSize = size]
                          ELSE [c EXCEPT !.BlockCount = count]
    BY DEF SizeInBlocks
  <2> HIDE DEF count, size
  <2> QED
    BY <1>1, <2>1 DEF SDPORT_REQUEST
<1>5. ASSUME NEW r \in SDPORT_REQUEST
      PROVE  SetArgument(r).Status = r.Status /\ Sent(r).Status = r.Status
  BY DEF SetArgument, Sent, SDPORT_REQUEST
<1>6. SetArgument(SizeInBlocks(c)) \in SDPORT_REQUEST
  BY <1>3, ArgumentType
<1> QED
  BY <1>2, <1>3, <1>4, <1>5, <1>6

LEMMA PioStartedFields ==
    ASSUME NEW r \in SDPORT_REQUEST, NEW seen
    PROVE  /\ PioStarted(r, seen).Data = r.Data
           /\ \/ PioStarted(r, seen).Status = "MORE_PROCESSING_REQUIRED"
              \/ PioStarted(r, seen).BlockCount = 0
<1> DEFINE left == UShort(r.BlockCount - 1)
           sent == [r EXCEPT !.BlockCount = left]
           more == r.RequiredEvents \cup {ReadyEvent(r)}
           last == IF "TransferComplete" \in seen THEN r.RequiredEvents
                   ELSE r.RequiredEvents \cup {"TransferComplete"}
           next == r.DataBuffer + r.BlockSize
<1>1. left \in Nat
  <2>1. r.BlockCount - 1 \in Int
    BY DEF SDPORT_REQUEST
  <2> QED
    BY <2>1, UShortType
<1>2. PioStarted(r, seen) =
        IF left >= 1
        THEN [sent EXCEPT !.DataBuffer = next, !.RequiredEvents = more,
                          !.Status = "MORE_PROCESSING_REQUIRED"]
        ELSE [sent EXCEPT !.RequiredEvents = last, !.Status = "SUCCESS"]
  BY DEF PioStarted, SDPORT_REQUEST
<1> HIDE DEF left, more, last, next
<1>3. sent \in SDPORT_REQUEST /\ sent.Data = r.Data /\ sent.BlockCount = left
  BY <1>1 DEF SDPORT_REQUEST
<1> HIDE DEF sent
<1> QED
  BY <1>1, <1>2, <1>3 DEF SDPORT_REQUEST

LEMMA SdPortOwned ==
    ASSUME Inv, SdPort
    PROVE  OwnedInv'
<1> USE DEF OwnedInv, RequestOwned, TransferHasData, CommandAsksNoMore,
            LastBlockCounted, Waiting
<1>1. CASE IssueCommand
  <2>1. OutstandingRequest' = REQUEST /\ port' \in {"command", "error"}
    BY <1>1 DEF IssueCommand
  <2>2. port' = "command" => Request'.Status = "PENDING"
    BY <1>1, CommandStatus, CommandsAssumption DEF IssueCommand
  <2> QED
    BY <2>1, <2>2
<1>2. CASE IssueStartTransfer
  <2>1. Request.Data /\ Request \in SDPORT_REQUEST
    BY <1>2 DEF IssueStartTransfer, Inv, TypeInv, TypeOK
  <2>2. /\ Request'.Data
        /\ \/ Request'.Status = "MORE_PROCESSING_REQUIRED"
           \/ Request'.BlockCount = 0
    BY <1>2, <2>1, PioStartedFields DEF IssueStartTransfer
  <2>3. \/ OutstandingRequest' = NULL /\ port' = "done"
        \/ OutstandingRequest' = REQUEST /\ port' = "transfer"
    BY <1>2 DEF IssueStartTransfer
  <2> QED
    BY <2>2, <2>3
<1>3. CASE ResetHost
  BY <1>3 DEF ResetHost, ForgetRequest
<1>4. CASE ClearEvents
  BY <1>4 DEF ClearEvents, extension, Inv
<1>5. CASE EnableAllEvents
  BY <1>5 DEF EnableAllEvents, extension, Inv
<1>6. CASE MaskCardInterrupt
  BY <1>6 DEF MaskCardInterrupt, extension, Inv
<1>7. CASE UnmaskCardInterrupt
  BY <1>7 DEF UnmaskCardInterrupt, extension, Inv
<1> QED
  BY <1>1, <1>2, <1>3, <1>4, <1>5, <1>6, <1>7 DEF SdPort

LEMMA StepOwned == Inv /\ [Next]_vars => Inv'
<1> SUFFICES ASSUME Inv, [Next]_vars PROVE OwnedInv'
  BY StepType DEF Inv
<1>1. ASSUME UNCHANGED <<OutstandingRequest, Request, port>>
      PROVE  OwnedInv'
  BY <1>1 DEF Inv, OwnedInv, RequestOwned, TransferHasData, CommandAsksNoMore,
              LastBlockCounted
<1>2. CASE UNCHANGED vars
  BY <1>1, <1>2 DEF vars, extension
<1>3. CASE Hardware
  BY <1>1, <1>3 DEF Hardware, HwCommandComplete, HwBufferReady, HwTransferComplete,
     HwError, HwCardEvent, extension
<1>4. CASE SlotInterrupt
  BY <1>1, <1>4 DEF SlotInterrupt, IsrReadStatus, IsrReadErrors, IsrAckErrors,
     IsrAckEvents, extension
<1> QED
  BY <1>2, <1>3, <1>4, DpcOwned, SdPortOwned DEF Next
-----------------------------------------------------------------------------
(***************************************************************************)
(* Whatever the hardware and the timer do, the driver has the request      *)
(* exactly as long as sdport waits for it: OutstandingRequest is set in    *)
(* every phase and clear once the answer is final or the host reset.       *)
(***************************************************************************)
THEOREM DriverOwnsRequest == Spec => []RequestOwned
<1>1. Inv => RequestOwned
  BY DEF Inv, OwnedInv
<1> QED
  BY <1>1, InitOwned, StepOwned, PTL DEF Spec

(***************************************************************************)
(* Events that come after the final answer or after a reset complete       *)
(* nothing: SdhcRequestDpc finds no outstanding request.                   *)
(***************************************************************************)
THEOREM LateEventsCompleteNothing == Spec => SettledStaysSettled
<1>1. ASSUME Inv, [Next]_vars, port \in {"idle", "done", "reset"}
      PROVE  UNCHANGED spurious
  <2>1. OutstandingRequest = NULL
    BY <1>1 DEF Inv, OwnedInv, RequestOwned
  <2>2. CASE UNCHANGED vars
    BY <2>2 DEF vars, history
  <2>3. CASE Hardware
    BY <2>3 DEF Hardware, HwCommandComplete, HwBufferReady, HwTransferComplete,
       HwError, HwCardEvent, history
  <2>4. CASE SlotInterrupt
    BY <2>4 DEF SlotInterrupt, IsrReadStatus, IsrReadErrors, IsrAckErrors,
       IsrAckEvents, history
  <2>5. CASE RequestDpc
    BY <2>1, <2>5 DEF RequestDpc, DpcNothing, DpcNotIssued, DpcError,
       DpcStillWaiting, DpcComplete, DpcSendTrailing, DpcMoveTrailing,
       DpcAllArrived, history
  <2>6. CASE SdPort
    BY <2>6 DEF SdPort, IssueCommand, IssueStartTransfer, ResetHost, ClearEvents,
       EnableAllEvents, MaskCardInterrupt, UnmaskCardInterrupt, history
  <2> QED
    BY <1>1, <2>2, <2>3, <2>4, <2>5, <2>6 DEF Next
<1>2. Inv /\ [Next]_vars => [(port \in {"idle", "done", "reset"}) => UNCHANGED spurious]_vars
  BY <1>1
<1> QED
  BY <1>2, InitOwned, StepOwned, PTL DEF Spec, SettledStaysSettled
=============================================================================
