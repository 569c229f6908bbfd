---------------------------- MODULE SdhcMiniport ----------------------------
(***************************************************************************)
(* The request engine of the bcm2836sdhc miniport between its two          *)
(* neighbours, neither of which is in the repository:                      *)
(*                                                                         *)
(*   sdport.sys, the port driver.  It hands the miniport one request at a  *)
(*   time, first as a command, then as one StartTransfer per data block,   *)
(*   runs its interrupt routine and its slot DPC, masks and unmasks        *)
(*   events, and resets the host after a failure or a timeout.             *)
(*                                                                         *)
(*   the Arasan host controller with its card: an engine that answers the  *)
(*   command, fills or empties a one-block buffer, and raises the bits of  *)
(*   the interrupt status register, concurrently with everything else.     *)
(*                                                                         *)
(* The interrupt routine takes one step per access to the status register; *)
(* it runs while the hardware raises bits and while the DPC or the issue   *)
(* path runs on another processor.  It touches no software state but the   *)
(* events it leaves for the DPC.  The DPC and the issue path, which share  *)
(* the SDHC_EXTENSION, are called by sdport one at a time and are one      *)
(* atomic step each; between the two the hardware is touched once at most. *)
(***************************************************************************)
EXTENDS SdhcRequest

CONSTANTS
    Commands,        \* the requests sdport may issue, as it issues them
    HwErrors,        \* the sets of error bits the hardware may raise at once
    MayTimeOut,      \* sdport's request timer may expire
    SdioClient,      \* sdport masks the card interrupt while it is serviced
    HaltOnError,     \* the hardware raises nothing more after an error
    InlineReissue,   \* sdport issues the next StartTransfer from within
                     \* SdPortCompleteRequest, before it runs another DPC
    SlowInterrupts   \* the interrupt routine only gets to run when the
                     \* hardware has raised all it can without the host

ASSUME CommandsAssumption == Commands \subseteq FreshRequest
ASSUME HwErrorsAssumption == HwErrors \subseteq (SUBSET ErrorBit) \ {{}}
ASSUME SwitchesAssumption ==
    {MayTimeOut, SdioClient, HaltOnError, InlineReissue, SlowInterrupts}
        \subseteq BOOLEAN

VARIABLES
    \* SDHC_EXTENSION, and the SDPORT_REQUEST sdport passes in
    OutstandingRequest, CurrentEvents, UnalignedReqState, UnalignedRequest,
    Request,
    \* the interrupt routine, and what it has left for the DPC
    isr, dpc,
    \* the hardware: status and error latches, status enable register, engine
    status, errors, enabled, engine,
    \* sdport: where it is with the request
    port,
    \* history: the bytes of the buffer moved through the data port, and
    \* whether the data port or sdport was ever called out of turn
    moved, unready, spurious

extension == <<OutstandingRequest, CurrentEvents, UnalignedReqState,
               UnalignedRequest, Request>>
latches   == <<status, errors>>
hardware  == <<status, errors, enabled, engine>>
history   == <<moved, unready, spurious>>
vars      == <<extension, isr, dpc, hardware, port, history>>

NULL      == "NULL"
REQUEST   == "REQUEST"       \* the address of Request

UnalignedState == {"Idle", "Ready", "SendCommand", "StartTransfer"}

\* sdport waits for SdPortCompleteRequest in a "command" or "transfer" phase.
Waiting   == {"command", "transfer"}
PortPhase == Waiting \cup {"idle", "reissue", "done", "error", "reset"}

IdleEngine == [cmd |-> "none", left |-> 0, ready |-> FALSE, owes |-> FALSE,
               event |-> "ReadReady"]
IdleIsr    == [pc |-> "idle", status |-> {}, errors |-> {}]
IdleDpc    == [queued |-> FALSE, events |-> {}, errors |-> {}]
-----------------------------------------------------------------------------
(***************************************************************************)
(* The hardware.  cmd is the state of the command on the CMD line, left    *)
(* the blocks of the transfer the host has not moved yet, ready whether    *)
(* the one-block buffer can be read or written, owes whether a transfer    *)
(* complete interrupt is still to come (end of data, or of the busy phase).*)
(* A bit that is not enabled is not reflected in the status register.      *)
(***************************************************************************)
ToStart(r) ==
    [cmd |-> "sent", left |-> IF r.Data THEN r.BlockCount ELSE 0,
     ready |-> FALSE, owes |-> r.Data \/ r.Response = "busy",
     event |-> ReadyEvent(r)]

Raise(e) == status' = status \cup ({e} \cap enabled)

HwCommandComplete ==
    /\ engine.cmd = "sent"
    /\ engine' = [engine EXCEPT !.cmd = "answered"]
    /\ Raise("CmdComplete")
    /\ UNCHANGED <<extension, isr, dpc, errors, enabled, port, history>>

\* Read data may arrive before the response, write data is asked for after it.
HwBufferReady ==
    /\ engine.left > 0 /\ ~engine.ready
    /\ \/ engine.cmd = "answered"
       \/ engine.cmd = "sent" /\ engine.event = "ReadReady"
    /\ engine' = [engine EXCEPT !.ready = TRUE]
    /\ Raise(engine.event)
    /\ UNCHANGED <<extension, isr, dpc, errors, enabled, port, history>>

\* The card is done when the last block is in the buffer (read), when the
\* host has filled the last block (write), or when it is no longer busy.
HwTransferComplete ==
    /\ engine.owes
    /\ \/ engine.left = 0 /\ engine.cmd = "answered"
       \/ engine.left = 1 /\ engine.ready /\ engine.event = "ReadReady"
    /\ engine' = [engine EXCEPT !.owes = FALSE]
    /\ Raise("TransferComplete")
    /\ UNCHANGED <<extension, isr, dpc, errors, enabled, port, history>>

\* An error ends the command and the transfer; a block already in the buffer
\* stays there.
Halted == [engine EXCEPT !.cmd = "none", !.owes = FALSE,
                         !.left = IF engine.ready THEN 1 ELSE 0]

HwError ==
    /\ engine.cmd = "sent" \/ engine.owes
    /\ \E errs \in HwErrors :
          errors' = IF "Error" \in enabled THEN errors \cup errs ELSE errors
    /\ \/ engine' = Halted
       \/ ~HaltOnError /\ engine' = engine
    /\ UNCHANGED <<extension, isr, dpc, status, enabled, port, history>>

CanRaiseMore ==
    \/ engine.cmd = "sent"
    \/ engine.left > 0 /\ ~engine.ready
    \/ engine.owes /\ engine.left = 0
    \/ engine.owes /\ engine.left = 1 /\ engine.event = "ReadReady"

HwCardEvent ==
    /\ \E e \in CardEvent : Raise(e)
    /\ UNCHANGED <<extension, isr, dpc, errors, enabled, engine, port, history>>

Hardware == HwCommandComplete \/ HwBufferReady \/ HwTransferComplete
            \/ HwError \/ HwCardEvent
-----------------------------------------------------------------------------
(***************************************************************************)
(* SdhcSlotInterrupt, one step per access to the status register: read the *)
(* status; read the errors, in a second read and only if the status has    *)
(* the error bit; acknowledge all errors, under the same condition;        *)
(* acknowledge the events that were read and hand them to sdport, without  *)
(* those that go to sdport by other ways.  A card detect alone is ignored. *)
(***************************************************************************)
InterruptStatus == status \cup (IF errors # {} THEN {"Error"} ELSE {})

IsrReadStatus ==
    /\ isr.pc = "idle"
    /\ InterruptStatus # {}
    /\ SlowInterrupts => ~CanRaiseMore
    /\ isr' = [pc |-> "read", status |-> InterruptStatus, errors |-> {}]
    /\ UNCHANGED <<extension, dpc, hardware, port, history>>

IsrReadErrors ==
    /\ isr.pc = "read"
    /\ isr' = [isr EXCEPT !.pc = "ackErrors",
                          !.errors = IF "Error" \in isr.status THEN errors ELSE {}]
    /\ UNCHANGED <<extension, dpc, hardware, port, history>>

\* Mutant: the error register is read and never acknowledged.
ErrorsNotAcked == errors

ErrorsLeft == IF "Error" \in isr.status THEN {} ELSE errors

IsrAckErrors ==
    /\ isr.pc = "ackErrors"
    /\ isr' = [isr EXCEPT !.pc = "ackEvents"]
    /\ errors' = ErrorsLeft
    /\ UNCHANGED <<extension, dpc, status, enabled, engine, port, history>>

\* Mutant: card events are handed to the request DPC with the others.
EventsForDpcWithCard == isr.status

EventsForDpc == isr.status \ CardEvent

IsrAckEvents ==
    /\ isr.pc = "ackEvents"
    /\ status' = status \ isr.status
    /\ isr' = IdleIsr
    /\ dpc' = IF isr.status \ {"CardDetect"} = {} THEN dpc
              ELSE [queued |-> TRUE,
                    events |-> dpc.events \cup EventsForDpc,
                    errors |-> dpc.errors \cup isr.errors]
    /\ UNCHANGED <<extension, errors, enabled, engine, port, history>>

SlotInterrupt == IsrReadStatus \/ IsrReadErrors \/ IsrAckErrors \/ IsrAckEvents
-----------------------------------------------------------------------------
(***************************************************************************)
(* SdPortCompleteRequest as sdport takes it: the answer to the phase it is *)
(* waiting for.  A command with data goes on with a StartTransfer, and so  *)
(* does a transfer with more to do.                                        *)
(***************************************************************************)
PortCompleteRequest(result) ==
    IF port \notin Waiting
    THEN /\ spurious' = TRUE
         /\ port' = port
    ELSE /\ spurious' = spurious
         /\ port' = IF result = "MORE_PROCESSING_REQUIRED" THEN "reissue"
                    ELSE IF result # "SUCCESS" THEN "error"
                    ELSE IF port = "command" /\ Request.Data THEN "reissue"
                    ELSE "done"

CompleteRequest(r, result) ==
    /\ OutstandingRequest' = IF IsCommandCompleted(r) THEN NULL
                             ELSE OutstandingRequest
    /\ PortCompleteRequest(result)

(***************************************************************************)
(* SdhcSendCommand: CurrentEvents is cleared, the request is given the     *)
(* events to wait for, and the command register is written.  An internal   *)
(* command is always accepted: it is a copy of an accepted one.            *)
(***************************************************************************)
Sent(r) == [r EXCEPT !.RequiredEvents = EventsToWaitFor(r)]

StartCommand(r) ==
    /\ CurrentEvents' = {}
    /\ engine' = ToStart(r)

(***************************************************************************)
(* SdhcStartPioTransfer: move one block and count it; wait for the next    *)
(* one, or for the end of the transfer unless it has been seen already.    *)
(* With `seen' the events saved so far, PioStarted is the request it leaves *)
(* and PioDone whether the transfer is over.                               *)
(***************************************************************************)
PioStarted(r, seen) ==
    LET left == UShort(r.BlockCount - 1)
        sent == [r EXCEPT !.BlockCount = left]
    IN  IF left >= 1
        THEN [sent EXCEPT !.DataBuffer = @ + r.BlockSize,
                          !.RequiredEvents = @ \cup {ReadyEvent(r)},
                          !.Status = "MORE_PROCESSING_REQUIRED"]
        ELSE [sent EXCEPT !.RequiredEvents =
                              IF "TransferComplete" \in seen THEN @
                              ELSE @ \cup {"TransferComplete"},
                          !.Status = "SUCCESS"]

PioDone(r, seen) == UShort(r.BlockCount - 1) = 0 /\ "TransferComplete" \in seen

\* SdhcReadDataPort, SdhcWriteDataPort: the block the engine has, if it has one.
MoveBlock(r) ==
    /\ CurrentEvents' = {}
    /\ IF engine.ready
       THEN /\ engine' = [engine EXCEPT !.ready = FALSE, !.left = @ - 1]
            /\ moved' = moved \cup r.DataBuffer .. r.DataBuffer + r.BlockSize - 1
            /\ unready' = unready
       ELSE /\ unready' = TRUE
            /\ UNCHANGED <<engine, moved>>
-----------------------------------------------------------------------------
(***************************************************************************)
(* SdhcSlotIssueRequest with a command, from sdport when the slot is free. *)
(* A CMD53 with trailing bytes prepares the internal request; a command    *)
(* that is not CMD53 resets the trailing byte state machine, but only if   *)
(* it has data.                                                            *)
(***************************************************************************)
StartUnaligned(r) ==
    IF ~BuildsTransfer(r)
    THEN UNCHANGED <<UnalignedReqState, UnalignedRequest>>
    ELSE IF HasTrailingBytes(r)
    THEN /\ UnalignedReqState' = "Ready"
         /\ UnalignedRequest' = InternalRequest(r)
    ELSE /\ UnalignedReqState' = IF r.Index = "CMD53" THEN UnalignedReqState ELSE "Idle"
         /\ UNCHANGED UnalignedRequest

IssueCommand ==
    /\ port \in {"idle", "done"}
    /\ \E c \in Commands :
          LET sized == IF BuildsTransfer(c) THEN SizeInBlocks(c) ELSE c
              built == IF BuildsTransfer(c) THEN SetArgument(sized) ELSE c
          IN  /\ StartUnaligned(sized)
              /\ IF IsAccepted(c)
                 THEN /\ Request' = Sent(built)
                      /\ StartCommand(built)
                      /\ port' = "command"
                 ELSE /\ Request' = built
                      /\ port' = "error"
                      /\ UNCHANGED <<CurrentEvents, engine>>
    /\ OutstandingRequest' = REQUEST
    /\ moved' = {}
    /\ UNCHANGED <<isr, dpc, latches, enabled, unready, spurious>>

(***************************************************************************)
(* SdhcSlotIssueRequest with StartTransfer, for the next block.            *)
(***************************************************************************)
IssueStartTransfer ==
    /\ port = "reissue"
    /\ Request' = PioStarted(Request, CurrentEvents)
    /\ MoveBlock(Request)
    /\ IF PioDone(Request, CurrentEvents)
       THEN OutstandingRequest' = NULL /\ port' = "done"
       ELSE OutstandingRequest' = REQUEST /\ port' = "transfer"
    /\ UNCHANGED <<UnalignedReqState, UnalignedRequest, isr, dpc, latches, enabled,
                   spurious>>
-----------------------------------------------------------------------------
\* Mutants: earlier events are not saved, arrived events not ticked off, and
\* the status that asks for more is overwritten.
SeenNow        == dpc.events
AwaitedAll     == Request.RequiredEvents
FinishedAlways == [Request EXCEPT !.RequiredEvents = @ \ dpc.events,
                                  !.Status = "SUCCESS"]

(***************************************************************************)
(* SdhcRequestDpc, with the events and errors gathered since the last one. *)
(* Each of its ways out is an action.                                      *)
(***************************************************************************)
Seen     == CurrentEvents \cup dpc.events
Awaited  == Request.RequiredEvents \ dpc.events
Arrived  == [Request EXCEPT !.RequiredEvents = Awaited]
Finished == [Arrived EXCEPT
    !.Status = IF @ = "MORE_PROCESSING_REQUIRED" THEN @ ELSE "SUCCESS"]

TakeEvents ==
    /\ dpc.queued
    /\ InlineReissue => port # "reissue"
    /\ dpc' = IdleDpc
    /\ UNCHANGED <<isr, latches, enabled>>

HasWork == dpc.events \cap CommandEvent # {} \/ dpc.errors # {}

DpcNothing ==
    /\ TakeEvents
    /\ ~HasWork
    /\ UNCHANGED <<extension, engine, port, history>>

\* Events that come when nothing has been issued are saved and dropped.
DpcNotIssued ==
    /\ TakeEvents
    /\ HasWork /\ OutstandingRequest = NULL
    /\ CurrentEvents' = Seen
    /\ UNCHANGED <<OutstandingRequest, UnalignedReqState, UnalignedRequest,
                   Request, engine, port, history>>

DpcError ==
    /\ TakeEvents
    /\ OutstandingRequest # NULL /\ dpc.errors # {}
    /\ UnalignedReqState' = "Idle"
    /\ Request' = [Request EXCEPT !.RequiredEvents = {}]
    /\ CurrentEvents' = {}
    /\ CompleteRequest(Request, ConvertErrorToStatus(dpc.errors))
    /\ UNCHANGED <<UnalignedRequest, engine, moved, unready>>

DpcStillWaiting ==
    /\ TakeEvents
    /\ HasWork /\ OutstandingRequest # NULL /\ dpc.errors = {}
    /\ Awaited # {}
    /\ CurrentEvents' = Seen
    /\ Request' = Arrived
    /\ UNCHANGED <<OutstandingRequest, UnalignedReqState, UnalignedRequest,
                   engine, port, history>>

(***************************************************************************)
(* Nothing is awaited any more: SdhcNonBlockSizeAlignedRequestSM decides   *)
(* whether the trailing bytes come first.                                  *)
(***************************************************************************)
DpcAllArrived ==
    /\ TakeEvents
    /\ HasWork /\ OutstandingRequest # NULL /\ dpc.errors = {}
    /\ Awaited = {}

DpcComplete ==
    /\ DpcAllArrived
    /\ \/ UnalignedReqState \in {"Idle", "StartTransfer"}
       \/ UnalignedReqState = "Ready" /\ Request.BlockCount # 0
    /\ UnalignedReqState' = IF UnalignedReqState = "StartTransfer" THEN "Idle"
                            ELSE UnalignedReqState
    /\ CurrentEvents' = Seen
    /\ Request' = Finished
    /\ CompleteRequest(Finished, Finished.Status)
    /\ UNCHANGED <<UnalignedRequest, engine, moved, unready>>

DpcSendTrailing ==
    /\ DpcAllArrived
    /\ UnalignedReqState = "Ready" /\ Request.BlockCount = 0
    /\ UnalignedReqState' = "SendCommand"
    /\ LET internal == SetArgument(SizeInBlocks(UnalignedRequest))
       IN  UnalignedRequest' = Sent(internal) /\ StartCommand(internal)
    /\ Request' = Finished
    /\ UNCHANGED <<OutstandingRequest, port, history>>

\* The internal request is moved whatever events it was itself waiting for.
DpcMoveTrailing ==
    /\ DpcAllArrived
    /\ UnalignedReqState = "SendCommand"
    /\ UnalignedRequest' = PioStarted(UnalignedRequest, Seen)
    /\ MoveBlock(UnalignedRequest)
    /\ Request' = Finished
    /\ IF PioDone(UnalignedRequest, Seen)
       THEN /\ UnalignedReqState' = "Idle"
            /\ CompleteRequest(Finished, Finished.Status)
       ELSE /\ UnalignedReqState' = "StartTransfer"
            /\ UNCHANGED <<OutstandingRequest, port, spurious>>

RequestDpc == \/ DpcNothing \/ DpcNotIssued \/ DpcError \/ DpcStillWaiting
              \/ DpcComplete \/ DpcSendTrailing \/ DpcMoveTrailing
-----------------------------------------------------------------------------
\* Mutant: the reset leaves the outstanding request in place.
KeepRequest == UNCHANGED OutstandingRequest /\ UnalignedReqState' = "Idle"

(***************************************************************************)
(* SdhcResetHost, after a failure or when the request timer has expired.   *)
(* The request is forgotten first; if the controller does not come out of  *)
(* reset, the events stay enabled and sdport has to try again.             *)
(***************************************************************************)
HwReset(type) ==
    CASE type = "All" -> engine' = IdleEngine /\ status' = {} /\ errors' = {}
      [] type = "Cmd" -> /\ engine' = [engine EXCEPT !.cmd = "none"]
                         /\ status' = status \ {"CmdComplete"}
                         /\ errors' = errors
      [] type = "Dat" -> /\ engine' = [engine EXCEPT !.left = 0, !.ready = FALSE,
                                                     !.owes = FALSE]
                         /\ status' = status \ (CommandEvent \ {"CmdComplete"})
                         /\ errors' = errors

ForgetRequest == OutstandingRequest' = NULL /\ UnalignedReqState' = "Idle"

ResetHost ==
    /\ \/ port \in {"error", "reset"}
       \/ MayTimeOut /\ port \in Waiting
    /\ ForgetRequest
    /\ \/ /\ \E type \in {"All", "Cmd", "Dat"} : HwReset(type)
          /\ enabled' = {}
          /\ port' = "reset"
       \/ UNCHANGED hardware /\ port' = "error"
    /\ UNCHANGED <<CurrentEvents, UnalignedRequest, Request, isr, dpc, history>>

\* Mutant: the enable register is written without being read first.
EnableOnly(mask) == enabled' = mask \cup {"Error"}

EnableInterrupt(mask)  == enabled' = enabled \cup mask \cup {"Error"}
DisableInterrupt(mask) == enabled' = (enabled \ mask) \ {"Error"}

\* SdhcSlotClearEvents with every event, the error bit among them.
ClearEvents ==
    /\ port = "reset"
    /\ status' = {} /\ errors' = {}
    /\ UNCHANGED <<extension, isr, dpc, enabled, engine, port, history>>

(***************************************************************************)
(* SdhcSlotToggleEvents.  After a reset sdport enables everything, once    *)
(* both halves of the host are idle and what they raised before has been   *)
(* cleared or run through the DPC.                                         *)
(***************************************************************************)
Quiet == /\ engine.cmd = "none" /\ engine.left = 0 /\ ~engine.owes
         /\ status \cap CommandEvent = {} /\ errors = {}
         /\ isr.pc = "idle" /\ ~dpc.queued

EnableAllEvents ==
    /\ port = "reset"
    /\ Quiet
    /\ EnableInterrupt(NormalEvent)
    /\ port' = "idle"
    /\ UNCHANGED <<extension, isr, dpc, latches, engine, history>>

MaskCardInterrupt ==
    /\ SdioClient /\ "CardInterrupt" \in enabled
    /\ DisableInterrupt({"CardInterrupt"})
    /\ UNCHANGED <<extension, isr, dpc, latches, engine, port, history>>

UnmaskCardInterrupt ==
    /\ SdioClient /\ "CardInterrupt" \notin enabled
    /\ port # "reset"
    /\ EnableInterrupt({"CardInterrupt"})
    /\ UNCHANGED <<extension, isr, dpc, latches, engine, port, history>>

SdPort == \/ IssueCommand \/ IssueStartTransfer \/ ResetHost \/ ClearEvents
          \/ EnableAllEvents \/ MaskCardInterrupt \/ UnmaskCardInterrupt
-----------------------------------------------------------------------------
\* The extension is zeroed memory, and the host has just been reset.
ZeroRequest ==
    [Index |-> "OTHER", Data |-> FALSE, Response |-> "plain", Method |-> "Pio",
     Direction |-> "Read", Length |-> 0, BlockSize |-> 0, BlockCount |-> 0,
     DataBuffer |-> 0, OpCode |-> FALSE, Address |-> 0, BlockMode |-> FALSE,
     Count |-> 0, RequiredEvents |-> {}, Status |-> "PENDING"]

Init ==
    /\ OutstandingRequest = NULL
    /\ CurrentEvents = {}
    /\ UnalignedReqState = "Idle"
    /\ UnalignedRequest = ZeroRequest
    /\ Request = ZeroRequest
    /\ isr = IdleIsr /\ dpc = IdleDpc
    /\ status = {} /\ errors = {} /\ enabled = {} /\ engine = IdleEngine
    /\ port = "reset"
    /\ moved = {} /\ unready = FALSE /\ spurious = FALSE

Next == Hardware \/ SlotInterrupt \/ RequestDpc \/ SdPort

Spec == Init /\ [][Next]_vars

(***************************************************************************)
(* The hardware finishes what it has started, an asserted interrupt line   *)
(* runs the interrupt routine, a queued DPC runs, and sdport goes on with  *)
(* a request that has more data.  Nothing makes errors, card events, the   *)
(* timer or new requests happen.                                           *)
(***************************************************************************)
Fairness ==
    /\ WF_vars(HwCommandComplete) /\ WF_vars(HwBufferReady)
    /\ WF_vars(HwTransferComplete)
    /\ WF_vars(SlotInterrupt) /\ WF_vars(RequestDpc)
    /\ WF_vars(IssueStartTransfer)

FairSpec == Spec /\ Fairness
-----------------------------------------------------------------------------
(***************************************************************************)
(* Every field holds a value of its type, and a pointer is NULL or points  *)
(* to sdport's request.                                                    *)
(***************************************************************************)
TypeOK ==
    /\ OutstandingRequest \in {NULL, REQUEST}
    /\ CurrentEvents \subseteq Event \ CardEvent
    /\ UnalignedReqState \in UnalignedState
    /\ UnalignedRequest \in SDPORT_REQUEST
    /\ Request \in SDPORT_REQUEST
    /\ isr \in [pc : {"idle", "read", "ackErrors", "ackEvents"},
                status : SUBSET Event, errors : SUBSET ErrorBit]
    /\ dpc \in [queued : BOOLEAN, events : SUBSET (Event \ CardEvent),
                errors : SUBSET ErrorBit]
    /\ status \subseteq NormalEvent
    /\ errors \subseteq ErrorBit
    /\ enabled \subseteq Event
    /\ engine \in [cmd : {"none", "sent", "answered"}, left : Int,
                   ready : BOOLEAN, owes : BOOLEAN,
                   event : {"ReadReady", "WriteReady"}]
    /\ port \in PortPhase
    /\ moved \subseteq Int
    /\ unready \in BOOLEAN
    /\ spurious \in BOOLEAN

(***************************************************************************)
(* The driver and sdport agree on who has the request: while sdport waits  *)
(* the driver has it outstanding, so that the DPC does not drop its events *)
(* as not issued; once sdport has the final answer, or has reset the host, *)
(* the driver has let go of it.                                            *)
(***************************************************************************)
RequestOwned ==
    /\ port \in Waiting => OutstandingRequest = REQUEST
    /\ port \in {"idle", "done", "reset"} => OutstandingRequest = NULL

(***************************************************************************)
(* SdPortCompleteRequest answers a phase sdport is waiting for, and once:  *)
(* no event that comes late, early or in one interrupt with others makes   *)
(* SdhcRequestDpc or SdhcStartPioTransfer complete the request again.      *)
(***************************************************************************)
CompletedOnce == ~spurious

(***************************************************************************)
(* A request that has been answered for good, or that a reset has taken    *)
(* away, is never completed again, whatever the hardware still raises: the *)
(* late events find no outstanding request.                                *)
(***************************************************************************)
SettledStaysSettled ==
    [][(port \in {"idle", "done", "reset"}) => UNCHANGED spurious]_vars

(***************************************************************************)
(* SdhcReadDataPort and SdhcWriteDataPort are only reached when the host   *)
(* buffer holds a block to read or has room for one.                       *)
(***************************************************************************)
DataPortReady == ~unready

(***************************************************************************)
(* A data request that sdport sees succeed has had every byte of its       *)
(* buffer moved through the data port, the trailing bytes included.        *)
(***************************************************************************)
SuccessMovedEverything ==
    port = "done" /\ Request.Data => moved = 0 .. Request.Length - 1

(***************************************************************************)
(* No phase is answered before the hardware has finished it: the data of a *)
(* command is not asked for before the card has responded, and a request   *)
(* has not succeeded while a block or the end of its transfer, or of the   *)
(* card's busy signal, is still to come.                                   *)
(***************************************************************************)
AnswerIsEarned ==
    /\ port \in {"reissue", "done"} => engine.cmd # "sent"
    /\ port = "done" => engine.left = 0 /\ ~engine.owes

(***************************************************************************)
(* No wakeup is lost: what the request still waits for is yet to be raised *)
(* by the hardware, or latched, or in the hands of the interrupt routine,  *)
(* or queued for the DPC; or an error is, which will end the request.      *)
(* While trailing bytes are under way the request waits for nothing itself *)
(* and any event moves it on, so one has to be on its way.                 *)
(***************************************************************************)
ToCome ==
    (IF engine.cmd = "sent" THEN {"CmdComplete"} ELSE {})
      \cup (IF engine.left > (IF engine.ready THEN 1 ELSE 0)
            THEN {engine.event} ELSE {})
      \cup (IF engine.owes THEN {"TransferComplete"} ELSE {})

OnItsWay == (ToCome \cup status \cup isr.status \cup dpc.events) \cap CommandEvent

ErrorOnItsWay == errors \cup isr.errors \cup dpc.errors # {}

InTrailing == UnalignedReqState \in {"SendCommand", "StartTransfer"}

NoLostWakeup ==
    port \in Waiting /\ ~ErrorOnItsWay =>
        /\ Request.RequiredEvents \subseteq OnItsWay
        /\ Request.RequiredEvents = {} => InTrailing /\ OnItsWay # {}

(***************************************************************************)
(* The CMD53 argument tells the card to transfer as many bytes as the      *)
(* block size and count registers tell the host, up to the last counts its *)
(* nine bits can tell: 511 blocks, or 512 bytes, which it tells by zero.   *)
(***************************************************************************)
CardBytes(r) == IF r.BlockMode THEN r.Count * r.BlockSize
                ELSE IF r.Count = 0 THEN 512 ELSE r.Count

FitsArgument(r) == IF r.BlockCount > 1 THEN r.BlockCount < 512 ELSE r.Length <= 512

ArgumentMatchesTransfer ==
    port = "command" /\ Request.Data /\ Request.Index = "CMD53" /\ FitsArgument(Request)
        => CardBytes(Request) = Request.BlockCount * Request.BlockSize

(***************************************************************************)
(* A request that sdport has issued ends, and without the request timer:   *)
(* every phase is answered and the last one is a success or an error.      *)
(***************************************************************************)
RequestSettles == port = "command" ~> port \in {"done", "error"}

(***************************************************************************)
(* The miniport keeps the promise of SdSlot: in every step, not only at    *)
(* the end, a request that has been issued is answered once, and with      *)
(* success only in the step that moves its last byte or later.             *)
(***************************************************************************)
Promise == INSTANCE SdSlot WITH
    Lengths <- {IF c.Data THEN c.Length ELSE 0 : c \in Commands},
    phase   <- CASE port \in {"idle", "done"}           -> "free"
                 [] port \in Waiting \cup {"reissue"}    -> "busy"
                 [] port \in {"error", "reset"}         -> "failed",
    owed    <- (IF Request.Data THEN 0 .. Request.Length - 1 ELSE {}) \ moved

KeepsPromise == Promise!Slot
=============================================================================
