------------------------- MODULE SdhcPromiseProofs -------------------------
(***************************************************************************)
(* What the request engine promises an ordinary client: no wakeup is lost, *)
(* no phase is answered before the hardware has earned it, the data port   *)
(* is ready when a block is moved, a request is answered once, and with    *)
(* success only when its last byte has been moved.  SdhcMiniport thereby   *)
(* implements the promise of SdSlot.                                       *)
(***************************************************************************)
EXTENDS SdhcMiniportProofs
-----------------------------------------------------------------------------
(***************************************************************************)
(* The engine serves an ordinary client: it halts on an error, sdport asks *)
(* for the next block before it runs another DPC, the card interrupt is    *)
(* not masked while events are under way, and the data of a request is a   *)
(* whole number of blocks, so that no trailing bytes follow it.  Responses,*)
(* lengths, block sizes, errors, the request timer and the pace of the     *)
(* interrupt routine are arbitrary.                                        *)
(***************************************************************************)
Ordinary ==
    /\ ~SdioClient /\ HaltOnError /\ InlineReissue
    /\ \A c \in Commands : BuildsTransfer(c) =>
          SizeInBlocks(c).BlockCount * SizeInBlocks(c).BlockSize = c.Length

(***************************************************************************)
(* The inductive invariant.  Where sdport is: a request is under way, has  *)
(* been answered for good, or has failed and the driver has not let go of  *)
(* it; otherwise a reset is due or done and nothing is known of what the   *)
(* hardware has left behind.                                               *)
(***************************************************************************)
Served  == port \in Waiting \cup {"reissue"}
Settled == port \in {"idle", "done"}
Failed  == port = "error" /\ OutstandingRequest # NULL
Trusted == Served \/ Settled \/ Failed

\* The command events raised and not taken by the DPC yet.
Latched == (status \cup isr.status \cup dpc.events) \cap CommandEvent

\* The engine has nothing more to raise.
Silent ==
    /\ engine.cmd # "sent" /\ ~engine.owes
    /\ engine.left = IF engine.ready THEN 1 ELSE 0

Resting ==
    /\ UnalignedReqState = "Idle"
    /\ isr.pc = "idle" => isr = IdleIsr
    /\ ~dpc.queued => dpc = IdleDpc
    /\ engine.left >= 0
    /\ engine.ready => engine.left > 0

\* What is latched is handed on once, and an error brings along all that was
\* raised before it.
HandedOn ==
    /\ dpc.events \cap (status \cup isr.status) \cap CommandEvent = {}
    /\ "Error" \in isr.status =>
         /\ status \cap CommandEvent \subseteq isr.status
         /\ isr.pc = "read" => errors # {}
         /\ isr.pc # "read" => isr.errors # {}
         /\ isr.pc = "ackEvents" => errors = {}
    /\ "Error" \notin isr.status => isr.errors = {}
    /\ dpc.errors # {} =>
         /\ errors = {} /\ "Error" \notin isr.status
         /\ (status \cup isr.status) \cap CommandEvent = {}

\* The engine raises each event once, and nothing after an error.
RaisedOnce ==
    /\ engine.cmd = "sent" => "CmdComplete" \notin Latched
    /\ \A e \in {"ReadReady", "WriteReady"} :
          e \in Latched => engine.ready /\ e = engine.event
    /\ engine.owes => "TransferComplete" \notin Latched
    /\ ErrorOnItsWay => engine.cmd = "none" /\ Silent

\* Nothing is raised any more, and nothing is on its way.
AtRest == Silent /\ Latched = {} /\ ~ErrorOnItsWay

Required   == Request.RequiredEvents
BlocksLeft == IF Request.Data THEN Request.BlockCount ELSE 0

\* The command itself: its response, and the end of its data or busy phase.
Answering ==
    /\ engine.cmd = "sent" => "CmdComplete" \in Required
    /\ "CmdComplete" \in Required =>
         engine.cmd # "answered" \/ "CmdComplete" \in Latched
    /\ engine.owes /\ ~Request.Data => "TransferComplete" \in Required
    /\ "TransferComplete" \in Required =>
         engine.owes \/ engine.cmd = "none" \/ "TransferComplete" \in Latched
    /\ "TransferComplete" \in CurrentEvents =>
         ~engine.owes /\ "TransferComplete" \notin Latched

\* A dead engine has left an error behind, and the request can not complete
\* before the error is found.
Dying ==
    engine.cmd = "none" =>
      /\ ErrorOnItsWay
      /\ \/ "CmdComplete" \in Required \ Latched
         \/ /\ "TransferComplete" \notin Latched \cup CurrentEvents
            /\ Request.Data \/ "TransferComplete" \in Required

\* The phase sdport is in goes with what the request waits for.
Phases ==
    /\ port = "reissue" <=> Required = {}
    /\ port # "command" => Request.Data
    /\ Request.Data /\ port # "transfer" => Request.BlockCount > 0
    /\ port = "transfer" =>
         /\ Required = {IF Request.BlockCount = 0 THEN "TransferComplete" ELSE engine.event}
         /\ Request.Status = "MORE_PROCESSING_REQUIRED" <=> Request.BlockCount > 0

\* The blocks left, here and in the engine, and the events they raise.
Blocks ==
    /\ engine.cmd # "none" => engine.left = BlocksLeft
    /\ Required \subseteq {"CmdComplete", "TransferComplete"}
                            \cup (IF Request.Data THEN {engine.event} ELSE {})
    /\ Latched \subseteq Required
                           \cup (IF BlocksLeft > 0 THEN {"TransferComplete"} ELSE {})
    /\ Request.Data =>
         /\ engine.event = ReadyEvent(Request)
         /\ Request.BlockCount < UShortRange
         /\ Request.BlockCount > 0 /\ engine.event \notin Required => engine.ready
         /\ engine.ready /\ engine.event \in Required => engine.event \in Latched
         /\ engine.cmd # "none" =>
              \/ engine.owes
              \/ /\ Request.BlockCount <= 1
                 /\ "TransferComplete" \in Latched \cup CurrentEvents

\* The bytes moved are the ones before the blocks left.
BytesLeft == Request.BlockCount * Request.BlockSize
Bytes ==
    Request.Data =>
      /\ BytesLeft <= Request.Length
      /\ moved = 0 .. Request.Length - BytesLeft - 1
      /\ Request.BlockCount > 0 => Request.DataBuffer = Request.Length - BytesLeft

Serving == Answering /\ Dying /\ Phases /\ Blocks

PromiseInv ==
    /\ Resting
    /\ Served \/ Settled => enabled = Event
    /\ Trusted => HandedOn /\ RaisedOnce
    /\ Settled \/ Failed => AtRest
    /\ Settled => engine.left = 0
    /\ Served => Serving /\ Bytes
    /\ SuccessMovedEverything /\ ArgumentMatchesTransfer
    /\ DataPortReady /\ CompletedOnce

LEMMA InitPromise == Init => PromiseInv
<1> SUFFICES ASSUME Init PROVE PromiseInv
  OBVIOUS
<1>1. ~Served /\ ~Settled /\ ~Failed /\ ~Trusted
  BY DEF Init, Served, Settled, Failed, Trusted, Waiting
<1>2. Resting
  BY DEF Init, Resting, IdleEngine
<1>3. SuccessMovedEverything /\ ArgumentMatchesTransfer /\ DataPortReady /\ CompletedOnce
  BY DEF Init, SuccessMovedEverything, ArgumentMatchesTransfer, DataPortReady, CompletedOnce
<1> QED
  BY <1>1, <1>2, <1>3 DEF PromiseInv
-----------------------------------------------------------------------------
(***************************************************************************)
(* The pipeline from the status register to the DPC.  The interrupt        *)
(* routine moves what is latched and loses nothing of it.                  *)
(***************************************************************************)
LEMMA EventSorts ==
    /\ CommandEvent \cap CardEvent = {}
    /\ "Error" \notin NormalEvent
    /\ CommandEvent \subseteq NormalEvent
BY DEF CommandEvent, CardEvent, NormalEvent

\* No error is in the pipeline, in the words of the interrupt routine.
LEMMA NoErrorFlag ==
    ASSUME HandedOn, ~ErrorOnItsWay
    PROVE  /\ "Error" \notin isr.status
           /\ errors = {} /\ isr.errors = {} /\ dpc.errors = {}
BY DEF HandedOn, ErrorOnItsWay

LEMMA IsrReadKeeps ==
    ASSUME TypeOK, Resting, HandedOn, IsrReadStatus
    PROVE  HandedOn' /\ Resting' /\ Latched' = Latched /\ (ErrorOnItsWay' <=> ErrorOnItsWay)
<1>1. /\ isr.pc = "idle" /\ isr = IdleIsr
      /\ isr' = [pc |-> "read", status |-> InterruptStatus, errors |-> {}]
      /\ UNCHANGED <<UnalignedReqState, dpc, status, errors, engine>>
  BY DEF IsrReadStatus, Resting, extension, hardware
<1>2. isr.status = {} /\ isr.errors = {}
  BY <1>1 DEF IdleIsr
<1>3. isr'.pc = "read" /\ isr'.status = InterruptStatus /\ isr'.errors = {}
  BY <1>1
<1>4. "Error" \notin status /\ status \subseteq NormalEvent
  BY EventSorts DEF TypeOK
<1>5. /\ status \subseteq InterruptStatus
      /\ InterruptStatus \cap CommandEvent = status \cap CommandEvent
      /\ "Error" \in InterruptStatus <=> errors # {}
  BY <1>4, EventSorts DEF InterruptStatus
<1>6. Latched' = Latched
  BY <1>1, <1>2, <1>3, <1>5 DEF Latched
<1>7. ErrorOnItsWay' <=> ErrorOnItsWay
  BY <1>1, <1>2, <1>3 DEF ErrorOnItsWay
<1>8. Resting'
  BY <1>1, <1>3 DEF Resting
<1>9. HandedOn'
  <2>1. dpc.events \cap (status \cup InterruptStatus) \cap CommandEvent = {}
    BY <1>2, <1>5 DEF HandedOn
  <2>2. dpc.errors # {} =>
           /\ errors = {} /\ "Error" \notin InterruptStatus
           /\ (status \cup InterruptStatus) \cap CommandEvent = {}
    BY <1>2, <1>5 DEF HandedOn
  <2> QED
    BY <1>1, <1>3, <1>5, <2>1, <2>2 DEF HandedOn
<1> QED
  BY <1>6, <1>7, <1>8, <1>9

LEMMA IsrErrorsKeep ==
    ASSUME TypeOK, Resting, HandedOn, IsrReadErrors \/ IsrAckErrors
    PROVE  HandedOn' /\ Resting' /\ Latched' = Latched /\ (ErrorOnItsWay' <=> ErrorOnItsWay)
<1>1. isr \in [pc : {"idle", "read", "ackErrors", "ackEvents"},
               status : SUBSET Event, errors : SUBSET ErrorBit]
  BY DEF TypeOK
<1>2. CASE IsrReadErrors
  <2>1. /\ isr.pc = "read" /\ isr'.pc = "ackErrors" /\ isr'.status = isr.status
        /\ isr'.errors = IF "Error" \in isr.status THEN errors ELSE {}
        /\ UNCHANGED <<UnalignedReqState, dpc, status, errors, engine>>
    BY <1>1, <1>2 DEF IsrReadErrors, extension, hardware
  <2>2. Latched' = Latched
    BY <2>1 DEF Latched
  <2>3. ErrorOnItsWay' <=> ErrorOnItsWay
    BY <2>1 DEF ErrorOnItsWay, HandedOn
  <2>4. Resting'
    BY <2>1 DEF Resting
  <2>5. HandedOn'
    BY <2>1 DEF HandedOn
  <2> QED
    BY <2>2, <2>3, <2>4, <2>5
<1>3. CASE IsrAckErrors
  <2>1. /\ isr.pc = "ackErrors" /\ isr'.pc = "ackEvents" /\ isr'.status = isr.status
        /\ isr'.errors = isr.errors
        /\ errors' = IF "Error" \in isr.status THEN {} ELSE errors
        /\ UNCHANGED <<UnalignedReqState, dpc, status, engine>>
    BY <1>1, <1>3 DEF IsrAckErrors, ErrorsLeft, extension
  <2>2. Latched' = Latched
    BY <2>1 DEF Latched
  <2>3. ErrorOnItsWay' <=> ErrorOnItsWay
    BY <2>1 DEF ErrorOnItsWay, HandedOn
  <2>4. Resting'
    BY <2>1 DEF Resting
  <2>5. HandedOn'
    BY <2>1 DEF HandedOn
  <2> QED
    BY <2>2, <2>3, <2>4, <2>5
<1> QED
  BY <1>2, <1>3

LEMMA IsrAckKeeps ==
    ASSUME TypeOK, Resting, HandedOn, IsrAckEvents
    PROVE  HandedOn' /\ Resting' /\ Latched' = Latched /\ (ErrorOnItsWay' <=> ErrorOnItsWay)
<1>1. /\ isr.pc = "ackEvents" /\ isr' = IdleIsr /\ status' = status \ isr.status
      /\ isr'.pc = "idle" /\ isr'.status = {} /\ isr'.errors = {}
      /\ UNCHANGED <<UnalignedReqState, errors, engine>>
  BY DEF IsrAckEvents, extension, IdleIsr
<1>2. /\ dpc.events \subseteq Event \ CardEvent
      /\ isr.status \subseteq Event
  BY DEF TypeOK
<1>3. /\ dpc'.events \cap CommandEvent = (dpc.events \cup isr.status) \cap CommandEvent
      /\ dpc'.errors = dpc.errors \cup isr.errors
      /\ dpc'.queued \/ dpc' = dpc
  <2>1. CASE isr.status \ {"CardDetect"} = {}
    <3>1. dpc' = dpc
      BY <2>1 DEF IsrAckEvents
    <3>2. isr.status \cap CommandEvent = {} /\ "Error" \notin isr.status
      BY <2>1 DEF CommandEvent
    <3>3. isr.errors = {}
      BY <3>2 DEF HandedOn
    <3> QED
      BY <3>1, <3>2, <3>3
  <2>2. CASE isr.status \ {"CardDetect"} # {}
    <3>1. dpc' = [queued |-> TRUE, events |-> dpc.events \cup EventsForDpc,
                  errors |-> dpc.errors \cup isr.errors]
      BY <2>2 DEF IsrAckEvents
    <3>2. /\ dpc'.queued /\ dpc'.events = dpc.events \cup EventsForDpc
          /\ dpc'.errors = dpc.errors \cup isr.errors
      BY <3>1
    <3> QED
      BY <3>2, EventSorts DEF EventsForDpc
  <2> QED
    BY <2>1, <2>2
<1>4. Latched' = Latched
  BY <1>1, <1>3 DEF Latched
<1>5. ErrorOnItsWay' <=> ErrorOnItsWay
  BY <1>1, <1>3 DEF ErrorOnItsWay
<1>6. Resting'
  BY <1>1, <1>3 DEF Resting
<1>7. HandedOn'
  <2>1. dpc'.events \cap (status' \cup isr'.status) \cap CommandEvent = {}
    BY <1>1, <1>3 DEF HandedOn
  <2>2. dpc'.errors # {} => errors' = {}
    BY <1>1, <1>3 DEF HandedOn
  <2>3. dpc'.errors # {} => (status' \cup isr'.status) \cap CommandEvent = {}
    BY <1>1, <1>3 DEF HandedOn
  <2> QED
    BY <1>1, <2>1, <2>2, <2>3 DEF HandedOn
<1> QED
  BY <1>4, <1>5, <1>6, <1>7

LEMMA SlotInterruptKeeps ==
    ASSUME TypeOK, Resting, HandedOn, SlotInterrupt
    PROVE  HandedOn' /\ Resting' /\ Latched' = Latched /\ (ErrorOnItsWay' <=> ErrorOnItsWay)
BY IsrReadKeeps, IsrErrorsKeep, IsrAckKeeps DEF SlotInterrupt

LEMMA SlotInterruptRests ==
    ASSUME TypeOK, Resting, SlotInterrupt
    PROVE  Resting'
<1>1. UNCHANGED <<UnalignedReqState, engine>>
  BY DEF SlotInterrupt, IsrReadStatus, IsrReadErrors, IsrAckErrors, IsrAckEvents,
         extension, hardware
<1>2. isr'.pc = "idle" => isr' = IdleIsr
  <2>1. CASE IsrReadStatus
    BY <2>1 DEF IsrReadStatus
  <2>2. CASE IsrReadErrors
    BY <2>2 DEF IsrReadErrors, TypeOK
  <2>3. CASE IsrAckErrors
    BY <2>3 DEF IsrAckErrors, TypeOK
  <2>4. CASE IsrAckEvents
    BY <2>4 DEF IsrAckEvents
  <2> QED
    BY <2>1, <2>2, <2>3, <2>4 DEF SlotInterrupt
<1>3. ~dpc'.queued => dpc' = IdleDpc
  <2>1. CASE UNCHANGED dpc
    BY <2>1 DEF Resting
  <2>2. CASE dpc' = [queued |-> TRUE, events |-> dpc.events \cup EventsForDpc,
                     errors |-> dpc.errors \cup isr.errors]
    BY <2>2
  <2> QED
    BY <2>1, <2>2 DEF SlotInterrupt, IsrReadStatus, IsrReadErrors, IsrAckErrors,
       IsrAckEvents, hardware
<1> QED
  BY <1>1, <1>2, <1>3 DEF Resting

\* Where nothing is trusted, only the resting places and the history count.
LEMMA Untrusted ==
    ASSUME Resting', port' \in {"error", "reset"},
           port' = "error" => OutstandingRequest' = NULL,
           DataPortReady', CompletedOnce'
    PROVE  PromiseInv'
BY DEF PromiseInv, Served, Settled, Failed, Trusted, Waiting, SuccessMovedEverything,
       ArgumentMatchesTransfer

\* A step that leaves the request, the engine and the answer alone.
software == <<OutstandingRequest, CurrentEvents, Request, enabled, engine, port, history>>

LEMMA Unmoved ==
    ASSUME PromiseInv, UNCHANGED software, Resting',
           Trusted => HandedOn' /\ Latched' = Latched /\ (ErrorOnItsWay' <=> ErrorOnItsWay)
    PROVE  PromiseInv'
<1> USE DEF software, history
<1>1. /\ Served' = Served /\ Settled' = Settled /\ Failed' = Failed /\ Trusted' = Trusted
      /\ Silent' = Silent
  BY DEF Served, Settled, Failed, Trusted, Silent
<1>2. ASSUME Trusted PROVE RaisedOnce'
  BY <1>1, <1>2 DEF PromiseInv, RaisedOnce
<1>3. ASSUME Settled \/ Failed PROVE AtRest'
  BY <1>1, <1>3 DEF PromiseInv, AtRest, Trusted
<1>4. ASSUME Served PROVE Serving' /\ Bytes'
  <2>1. Serving /\ Bytes /\ Latched' = Latched /\ (ErrorOnItsWay' <=> ErrorOnItsWay)
    BY <1>4 DEF PromiseInv, Trusted
  <2>2. Answering'
    BY <2>1 DEF Serving, Answering, Required
  <2>3. Dying'
    BY <2>1 DEF Serving, Dying, Required
  <2>4. Phases'
    BY <2>1 DEF Serving, Phases, Required
  <2>5. Blocks'
    BY <2>1 DEF Serving, Blocks, Required, BlocksLeft, ReadyEvent
  <2>6. Bytes'
    BY <2>1 DEF Bytes, BytesLeft
  <2> QED
    BY <2>2, <2>3, <2>4, <2>5, <2>6 DEF Serving
<1>5. /\ SuccessMovedEverything' /\ ArgumentMatchesTransfer'
      /\ DataPortReady' /\ CompletedOnce'
  BY DEF PromiseInv, SuccessMovedEverything, ArgumentMatchesTransfer, CardBytes, FitsArgument,
         DataPortReady, CompletedOnce
<1> QED
  BY <1>1, <1>2, <1>3, <1>4, <1>5 DEF PromiseInv

LEMMA SlotInterruptPromise ==
    ASSUME Inv, PromiseInv, SlotInterrupt
    PROVE  PromiseInv'
<1>1. TypeOK /\ Resting /\ (Trusted => HandedOn)
  BY DEF Inv, TypeInv, PromiseInv
<1>2. UNCHANGED software
  BY DEF SlotInterrupt, IsrReadStatus, IsrReadErrors, IsrAckErrors, IsrAckEvents,
         software, extension, hardware
<1> QED
  BY <1>1, <1>2, SlotInterruptKeeps, SlotInterruptRests, Unmoved
-----------------------------------------------------------------------------
(***************************************************************************)
(* The hardware.  While no error is on its way, an event it raises is      *)
(* latched; only a request that is being served has events to raise.       *)
(***************************************************************************)
LEMMA CardEventPromise ==
    ASSUME Inv, PromiseInv, HwCardEvent
    PROVE  PromiseInv'
<1>1. PICK e \in CardEvent : status' = status \cup ({e} \cap enabled)
  BY DEF HwCardEvent, Raise
<1>2. UNCHANGED software /\ UNCHANGED <<UnalignedReqState, isr, dpc, errors>>
  BY DEF HwCardEvent, software, extension
<1>3. status' \cap CommandEvent = status \cap CommandEvent
  BY <1>1, EventSorts
<1>4. Resting'
  BY <1>2 DEF PromiseInv, Resting, software
<1>5. Latched' = Latched
  BY <1>2, <1>3 DEF Latched
<1>6. ErrorOnItsWay' <=> ErrorOnItsWay
  BY <1>2 DEF ErrorOnItsWay
<1>7. ASSUME HandedOn PROVE HandedOn'
  BY <1>2, <1>3, <1>7 DEF HandedOn
<1> QED
  BY <1>2, <1>4, <1>5, <1>6, <1>7, Unmoved DEF PromiseInv

LEMMA Latches ==
    ASSUME HandedOn, ~ErrorOnItsWay, enabled = Event,
           NEW e \in CommandEvent, e \notin Latched,
           Raise(e), UNCHANGED <<isr, dpc, errors>>
    PROVE  /\ Latched' = Latched \cup {e}
           /\ ~ErrorOnItsWay'
           /\ HandedOn'
<1>1. status' = status \cup {e}
  BY EventSorts DEF Raise, Event
<1>2. Latched' = Latched \cup {e}
  BY <1>1 DEF Latched
<1>3. ~ErrorOnItsWay'
  BY DEF ErrorOnItsWay
<1>4. HandedOn'
  BY <1>1, NoErrorFlag DEF HandedOn, Latched
<1> QED
  BY <1>2, <1>3, <1>4

\* Only a request that is being served has events or errors to raise.
LEMMA OnlyServedRaises ==
    ASSUME Inv, PromiseInv, Trusted,
           engine.cmd = "sent" \/ engine.owes \/ (engine.left > 0 /\ ~engine.ready)
    PROVE  /\ Served /\ enabled = Event /\ ~ErrorOnItsWay /\ HandedOn /\ RaisedOnce
           /\ engine.cmd # "none"
<1>1. ~Silent
  BY DEF Silent
<1>2. Served /\ HandedOn /\ RaisedOnce /\ enabled = Event
  BY <1>1 DEF PromiseInv, Trusted, AtRest
<1>3. ~ErrorOnItsWay
  BY <1>1, <1>2 DEF RaisedOnce
<1>4. engine.cmd # "none"
  BY <1>2, <1>3 DEF PromiseInv, Serving, Dying
<1> QED
  BY <1>2, <1>3, <1>4

\* What a step of the engine leaves alone.
LEMMA EngineSteps ==
    ASSUME PromiseInv, Served,
           UNCHANGED <<extension, isr, dpc, enabled, port, history>>,
           engine'.left >= 0, engine'.ready => engine'.left > 0,
           HandedOn', RaisedOnce', Serving'
    PROVE  PromiseInv'
<1> USE DEF extension, history
<1>1. /\ Served' = Served /\ Settled' = Settled /\ Failed' = Failed /\ Trusted' = Trusted
      /\ ~Settled /\ ~Failed
  BY DEF Served, Settled, Failed, Trusted, Waiting
<1>2. Resting'
  BY DEF PromiseInv, Resting
<1>3. Bytes'
  BY DEF PromiseInv, Bytes, BytesLeft
<1>4. /\ SuccessMovedEverything' /\ ArgumentMatchesTransfer'
      /\ DataPortReady' /\ CompletedOnce'
  BY DEF PromiseInv, SuccessMovedEverything, ArgumentMatchesTransfer, CardBytes, FitsArgument,
         DataPortReady, CompletedOnce
<1>5. enabled' = Event
  BY DEF PromiseInv
<1> QED
  BY <1>1, <1>2, <1>3, <1>4, <1>5 DEF PromiseInv

\* An engine that is not trusted may do anything.
LEMMA UntrustedEngine ==
    ASSUME Inv, PromiseInv, ~Trusted,
           UNCHANGED <<extension, isr, dpc, port, history>>,
           engine'.left >= 0, engine'.ready => engine'.left > 0
    PROVE  PromiseInv'
<1>1. port \in {"error", "reset"} /\ (port = "error" => OutstandingRequest = NULL)
  BY DEF Inv, TypeInv, TypeOK, PortPhase, Trusted, Served, Settled, Failed, Waiting
<1>2. Resting'
  BY DEF PromiseInv, Resting, extension
<1>3. DataPortReady' /\ CompletedOnce'
  BY DEF PromiseInv, DataPortReady, CompletedOnce, history
<1> QED
  BY <1>1, <1>2, <1>3, Untrusted DEF extension

LEMMA CommandCompletePromise ==
    ASSUME Inv, PromiseInv, HwCommandComplete
    PROVE  PromiseInv'
<1>1. /\ engine.cmd = "sent" /\ engine' = [engine EXCEPT !.cmd = "answered"]
      /\ Raise("CmdComplete")
      /\ UNCHANGED <<extension, isr, dpc, errors, enabled, port, history>>
  BY DEF HwCommandComplete
<1>2. engine \in EngineType
  BY DEF Inv, TypeInv, TypeOK, EngineType
<1>3. /\ engine'.cmd = "answered" /\ engine'.left = engine.left
      /\ engine'.ready = engine.ready /\ engine'.owes = engine.owes
      /\ engine'.event = engine.event
  BY <1>1, <1>2 DEF EngineType
<1>4. engine'.left >= 0 /\ (engine'.ready => engine'.left > 0)
  BY <1>3 DEF PromiseInv, Resting
<1>5. CASE ~Trusted
  BY <1>1, <1>4, <1>5, UntrustedEngine
<1>6. CASE Trusted
  <2>1. /\ Served /\ enabled = Event /\ ~ErrorOnItsWay /\ HandedOn /\ RaisedOnce
    BY <1>1, <1>6, OnlyServedRaises
  <2>2. Serving
    BY <2>1 DEF PromiseInv
  <2>3. Latched' = Latched \cup {"CmdComplete"} /\ ~ErrorOnItsWay' /\ HandedOn'
    <3>1. "CmdComplete" \in CommandEvent /\ "CmdComplete" \notin Latched
      BY <1>1, <2>1 DEF CommandEvent, RaisedOnce
    <3> QED
      BY <1>1, <2>1, <3>1, Latches
  <2>4. RaisedOnce'
    BY <1>3, <2>1, <2>3 DEF RaisedOnce
  <2>5. Required' = Required /\ BlocksLeft' = BlocksLeft
    BY <1>1 DEF Required, BlocksLeft, extension
  <2>6. UNCHANGED <<CurrentEvents, Request, port>>
    BY <1>1 DEF extension
  <2>7. Answering'
    BY <1>1, <1>3, <2>2, <2>3, <2>5, <2>6 DEF Serving, Answering
  <2>8. Dying'
    BY <1>3 DEF Dying
  <2>9. Phases'
    BY <1>3, <2>2, <2>5, <2>6 DEF Serving, Phases
  <2>10. Blocks'
    <3>1. "CmdComplete" \in Required
      BY <1>1, <2>2 DEF Serving, Answering
    <3> QED
      BY <1>1, <1>3, <2>2, <2>3, <2>5, <2>6, <3>1 DEF Serving, Blocks, ReadyEvent
  <2> QED
    BY <1>1, <1>4, <2>1, <2>3, <2>4, <2>7, <2>8, <2>9, <2>10, EngineSteps DEF Serving
<1> QED
  BY <1>5, <1>6

LEMMA BufferReadyPromise ==
    ASSUME Inv, PromiseInv, HwBufferReady
    PROVE  PromiseInv'
<1>1. /\ engine.left > 0 /\ ~engine.ready
      /\ engine' = [engine EXCEPT !.ready = TRUE]
      /\ Raise(engine.event)
      /\ UNCHANGED <<extension, isr, dpc, errors, enabled, port, history>>
  BY DEF HwBufferReady
<1>2. engine \in EngineType
  BY DEF Inv, TypeInv, TypeOK, EngineType
<1>3. /\ engine'.cmd = engine.cmd /\ engine'.left = engine.left
      /\ engine'.ready /\ engine'.owes = engine.owes
      /\ engine'.event = engine.event
  BY <1>1, <1>2 DEF EngineType
<1>4. engine'.left >= 0 /\ (engine'.ready => engine'.left > 0)
  BY <1>1, <1>3 DEF PromiseInv, Resting
<1>5. CASE ~Trusted
  BY <1>1, <1>4, <1>5, UntrustedEngine
<1>6. CASE Trusted
  <2> DEFINE e == engine.event
  <2>1. /\ Served /\ enabled = Event /\ ~ErrorOnItsWay /\ HandedOn /\ RaisedOnce
        /\ engine.cmd # "none"
    BY <1>1, <1>6, OnlyServedRaises
  <2>2. Serving
    BY <2>1 DEF PromiseInv
  <2>3. /\ e \in {"ReadReady", "WriteReady"} /\ e \in CommandEvent /\ e \notin Latched
        /\ \A f \in {"ReadReady", "WriteReady"} : f \notin Latched
    BY <1>1, <1>2, <2>1 DEF CommandEvent, RaisedOnce, EngineType
  <2>4. Latched' = Latched \cup {e} /\ ~ErrorOnItsWay' /\ HandedOn'
    BY <1>1, <2>1, <2>3, Latches
  <2>5. UNCHANGED <<CurrentEvents, Request, port>> /\ Required' = Required
        /\ BlocksLeft' = BlocksLeft
    BY <1>1 DEF extension, Required, BlocksLeft
  <2>6. RaisedOnce'
    BY <1>1, <1>3, <2>1, <2>3, <2>4 DEF RaisedOnce
  <2>7. Request.Data /\ Request.BlockCount > 0 /\ BlocksLeft > 0 /\ e \in Required
    BY <1>1, <2>1, <2>2 DEF Serving, Blocks, BlocksLeft
  <2>8. Answering'
    BY <1>3, <2>2, <2>3, <2>4, <2>5 DEF Serving, Answering
  <2>9. Dying'
    BY <1>3, <2>1 DEF Dying
  <2>10. Phases'
    BY <1>3, <2>2, <2>5 DEF Serving, Phases
  <2>11. Blocks'
    BY <1>3, <2>2, <2>4, <2>5, <2>7 DEF Serving, Blocks, ReadyEvent
  <2> QED
    BY <1>1, <1>4, <2>1, <2>4, <2>6, <2>8, <2>9, <2>10, <2>11, EngineSteps DEF Serving
<1> QED
  BY <1>5, <1>6

LEMMA TransferCompletePromise ==
    ASSUME Inv, PromiseInv, HwTransferComplete
    PROVE  PromiseInv'
<1>1. /\ engine.owes
      /\ \/ engine.left = 0 /\ engine.cmd = "answered"
         \/ engine.left = 1
      /\ engine' = [engine EXCEPT !.owes = FALSE]
      /\ Raise("TransferComplete")
      /\ UNCHANGED <<extension, isr, dpc, errors, enabled, port, history>>
  BY DEF HwTransferComplete
<1>2. engine \in EngineType
  BY DEF Inv, TypeInv, TypeOK, EngineType
<1>3. /\ engine'.cmd = engine.cmd /\ engine'.left = engine.left
      /\ engine'.ready = engine.ready /\ ~engine'.owes
      /\ engine'.event = engine.event
  BY <1>1, <1>2 DEF EngineType
<1>4. engine'.left >= 0 /\ (engine'.ready => engine'.left > 0)
  BY <1>3 DEF PromiseInv, Resting
<1>5. CASE ~Trusted
  BY <1>1, <1>4, <1>5, UntrustedEngine
<1>6. CASE Trusted
  <2>1. /\ Served /\ enabled = Event /\ ~ErrorOnItsWay /\ HandedOn /\ RaisedOnce
        /\ engine.cmd # "none"
    BY <1>1, <1>6, OnlyServedRaises
  <2>2. Serving
    BY <2>1 DEF PromiseInv
  <2>3. "TransferComplete" \in CommandEvent /\ "TransferComplete" \notin Latched
    BY <1>1, <2>1 DEF CommandEvent, RaisedOnce
  <2>4. Latched' = Latched \cup {"TransferComplete"} /\ ~ErrorOnItsWay' /\ HandedOn'
    BY <1>1, <2>1, <2>3, Latches
  <2>5. UNCHANGED <<CurrentEvents, Request, port>> /\ Required' = Required
        /\ BlocksLeft' = BlocksLeft
    BY <1>1 DEF extension, Required, BlocksLeft
  <2>6. RaisedOnce'
    BY <1>3, <2>1, <2>4 DEF RaisedOnce
  <2>7. "TransferComplete" \in Required \/ BlocksLeft > 0
    <3>1. CASE ~Request.Data
      BY <1>1, <2>2, <3>1 DEF Serving, Answering
    <3>2. CASE Request.Data /\ Request.BlockCount = 0
      BY <2>1, <2>2, <3>2 DEF Serving, Phases, Served, Waiting
    <3>3. CASE Request.Data /\ Request.BlockCount # 0
      BY <3>3 DEF BlocksLeft, Inv, TypeInv, TypeOK, SDPORT_REQUEST
    <3> QED
      BY <3>1, <3>2, <3>3
  <2>8. Answering'
    BY <1>1, <1>3, <2>2, <2>4, <2>5 DEF Serving, Answering
  <2>9. Dying'
    BY <1>3, <2>1 DEF Dying
  <2>10. Phases'
    BY <1>3, <2>2, <2>5 DEF Serving, Phases
  <2>11. Request.Data => Request.BlockCount <= 1
    BY <1>1, <2>1, <2>2 DEF Serving, Blocks, BlocksLeft
  <2>12. Blocks'
    BY <1>3, <2>2, <2>4, <2>5, <2>7, <2>11 DEF Serving, Blocks, ReadyEvent
  <2> QED
    BY <1>1, <1>4, <2>1, <2>4, <2>6, <2>8, <2>9, <2>10, <2>12, EngineSteps DEF Serving
<1> QED
  BY <1>5, <1>6

\* With the error bit enabled an error is latched, and the engine is dead.
LEMMA ErrorPromise ==
    ASSUME Ordinary, Inv, PromiseInv, HwError
    PROVE  PromiseInv'
<1>1. /\ engine.cmd = "sent" \/ engine.owes
      /\ engine' = [engine EXCEPT !.cmd = "none", !.owes = FALSE,
                                  !.left = IF engine.ready THEN 1 ELSE 0]
      /\ UNCHANGED <<extension, isr, dpc, status, enabled, port, history>>
  BY DEF HwError, Halted, Ordinary
<1>2. engine \in EngineType
  BY DEF Inv, TypeInv, TypeOK, EngineType
<1>3. /\ engine'.cmd = "none" /\ engine'.left = IF engine.ready THEN 1 ELSE 0
      /\ engine'.ready = engine.ready /\ ~engine'.owes
      /\ engine'.event = engine.event
  <2> DEFINE left == IF engine.ready THEN 1 ELSE 0
  <2>1. engine' = [engine EXCEPT !.cmd = "none", !.owes = FALSE, !.left = left]
    BY <1>1
  <2> HIDE DEF left
  <2>2. /\ engine'.cmd = "none" /\ engine'.left = left
        /\ engine'.ready = engine.ready /\ engine'.owes = FALSE
        /\ engine'.event = engine.event
    BY <1>2, <2>1 DEF EngineType
  <2> QED
    BY <2>2 DEF left
<1>4. engine'.left >= 0 /\ (engine'.ready => engine'.left > 0)
  BY <1>3
<1>5. CASE ~Trusted
  BY <1>1, <1>4, <1>5, UntrustedEngine
<1>6. CASE Trusted
  <2>1. /\ Served /\ enabled = Event /\ ~ErrorOnItsWay /\ HandedOn /\ RaisedOnce
        /\ engine.cmd # "none"
    BY <1>1, <1>6, OnlyServedRaises
  <2>2. Serving
    BY <2>1 DEF PromiseInv
  <2>3. Latched' = Latched
    BY <1>1 DEF Latched
  <2>4. ErrorOnItsWay'
    <3>1. PICK errs \in HwErrors : errors' = errors \cup errs
      BY <2>1 DEF HwError, Event
    <3>2. errs # {}
      BY <3>1, HwErrorsAssumption
    <3> QED
      BY <3>1, <3>2 DEF ErrorOnItsWay
  <2>5. HandedOn'
    BY <1>1, <2>1, NoErrorFlag DEF HandedOn
  <2>6. UNCHANGED <<CurrentEvents, Request, port>> /\ Required' = Required
        /\ BlocksLeft' = BlocksLeft
    BY <1>1 DEF extension, Required, BlocksLeft
  <2>7. RaisedOnce'
    BY <1>3, <2>1, <2>3 DEF RaisedOnce, Silent
  <2>8. Answering'
    BY <1>3, <2>2, <2>3, <2>6 DEF Serving, Answering
  <2>9. Dying'
    <3>1. CASE engine.cmd = "sent"
      <4>1. "CmdComplete" \in Required \ Latched
        BY <2>1, <2>2, <3>1 DEF Serving, Answering, RaisedOnce
      <4> QED
        BY <2>3, <2>4, <2>6, <4>1 DEF Dying
    <3>2. CASE engine.owes
      <4>1. "TransferComplete" \notin Latched \cup CurrentEvents
        BY <2>1, <2>2, <3>2 DEF Serving, Answering, RaisedOnce
      <4>2. Request.Data \/ "TransferComplete" \in Required
        BY <2>2, <3>2 DEF Serving, Answering
      <4> QED
        BY <2>3, <2>4, <2>6, <4>1, <4>2 DEF Dying
    <3> QED
      BY <1>1, <3>1, <3>2
  <2>10. Phases'
    BY <1>3, <2>2, <2>6 DEF Serving, Phases
  <2>11. Blocks'
    BY <1>3, <2>2, <2>3, <2>6 DEF Serving, Blocks, ReadyEvent
  <2> QED
    BY <1>1, <1>4, <2>1, <2>5, <2>7, <2>8, <2>9, <2>10, <2>11, EngineSteps DEF Serving
<1> QED
  BY <1>5, <1>6

LEMMA HardwarePromise ==
    ASSUME Ordinary, Inv, PromiseInv, Hardware
    PROVE  PromiseInv'
BY CommandCompletePromise, BufferReadyPromise, TransferCompletePromise, ErrorPromise,
   CardEventPromise DEF Hardware
-----------------------------------------------------------------------------
(***************************************************************************)
(* The DPC takes the events it finds off the pipeline.                     *)
(***************************************************************************)
LEMMA TakesOff ==
    ASSUME TypeOK, TakeEvents, HandedOn
    PROVE  /\ Latched' = Latched \ dpc.events
           /\ dpc.events \cap CommandEvent \subseteq Latched
           /\ HandedOn'
           /\ dpc.errors = {} => (ErrorOnItsWay' <=> ErrorOnItsWay)
<1>1. /\ dpc'.events = {} /\ dpc'.errors = {}
      /\ UNCHANGED <<isr, status, errors>>
  BY DEF TakeEvents, IdleDpc, latches
<1>2. Latched' = Latched \ dpc.events
  BY <1>1 DEF Latched, HandedOn
<1>3. dpc.events \cap CommandEvent \subseteq Latched
  BY DEF Latched
<1>4. HandedOn'
  BY <1>1 DEF HandedOn
<1>5. dpc.errors = {} => (ErrorOnItsWay' <=> ErrorOnItsWay)
  BY <1>1 DEF ErrorOnItsWay
<1> QED
  BY <1>2, <1>3, <1>4, <1>5

\* A DPC with work to do on a request finds sdport waiting.
LEMMA WorkIsAwaited ==
    ASSUME Ordinary, Inv, PromiseInv, TakeEvents, HasWork, OutstandingRequest # NULL
    PROVE  Served /\ port \in Waiting /\ UnalignedReqState = "Idle"
<1>1. Trusted /\ ~Settled
  BY DEF Inv, TypeInv, TypeOK, PortPhase, OwnedInv, RequestOwned, Trusted, Served,
         Settled, Failed, Waiting
<1>2. ~AtRest
  BY DEF HasWork, AtRest, Latched, ErrorOnItsWay
<1>3. Served
  BY <1>1, <1>2 DEF PromiseInv, Trusted
<1>4. port # "reissue"
  BY DEF TakeEvents, Ordinary
<1> QED
  BY <1>3, <1>4 DEF Served, PromiseInv, Resting

LEMMA DpcRests ==
    ASSUME PromiseInv, TakeEvents, UNCHANGED <<UnalignedReqState, engine>>
    PROVE  Resting'
BY DEF PromiseInv, Resting, TakeEvents, IdleDpc

LEMMA DpcNothingPromise ==
    ASSUME Ordinary, Inv, PromiseInv, DpcNothing
    PROVE  PromiseInv'
<1>1. /\ TakeEvents /\ dpc.events \cap CommandEvent = {} /\ dpc.errors = {}
      /\ UNCHANGED <<extension, engine, port, history>>
  BY DEF DpcNothing, HasWork
<1>2. UNCHANGED software
  BY <1>1 DEF software, extension, TakeEvents
<1>3. Resting'
  BY <1>1, DpcRests DEF extension
<1>4. Latched \ dpc.events = Latched
  BY <1>1 DEF Latched
<1>5. ASSUME Trusted
      PROVE  HandedOn' /\ Latched' = Latched /\ (ErrorOnItsWay' <=> ErrorOnItsWay)
  BY <1>1, <1>4, <1>5, TakesOff DEF PromiseInv, Inv, TypeInv
<1> QED
  BY <1>2, <1>3, <1>5, Unmoved

LEMMA DpcNotIssuedPromise ==
    ASSUME Ordinary, Inv, PromiseInv, DpcNotIssued
    PROVE  PromiseInv'
<1>1. /\ TakeEvents /\ HasWork /\ OutstandingRequest = NULL
      /\ UNCHANGED <<OutstandingRequest, UnalignedReqState, engine, port, history>>
  BY DEF DpcNotIssued
<1>2. ~AtRest
  BY <1>1 DEF HasWork, AtRest, Latched, ErrorOnItsWay
<1>3. ~Settled /\ port \notin Waiting /\ port # "reissue"
  BY <1>1, <1>2 DEF PromiseInv, Inv, OwnedInv, RequestOwned, TakeEvents, Ordinary,
     NULL, REQUEST
<1>4. port \in {"error", "reset"}
  BY <1>3 DEF Inv, TypeInv, TypeOK, PortPhase, Settled
<1>5. Resting'
  BY <1>1, DpcRests
<1> QED
  BY <1>1, <1>4, <1>5, Untrusted DEF PromiseInv, DataPortReady, CompletedOnce, history

\* The last that a dead engine has raised is taken, and nothing is left.
LEMMA DpcErrorPromise ==
    ASSUME Ordinary, Inv, PromiseInv, DpcError
    PROVE  PromiseInv'
<1>1. /\ TakeEvents /\ OutstandingRequest # NULL /\ dpc.errors # {}
      /\ UnalignedReqState' = "Idle"
      /\ CompleteRequest(Request, ConvertErrorToStatus(dpc.errors))
      /\ UNCHANGED <<engine, moved, unready>>
  BY DEF DpcError
<1>2. Served /\ port \in Waiting /\ UnalignedReqState = "Idle"
  BY <1>1, WorkIsAwaited DEF HasWork
<1>3. HandedOn /\ RaisedOnce
  BY <1>2 DEF PromiseInv, Trusted
<1>4. port' = "error" /\ spurious' = spurious
  BY <1>1, <1>2, ErrorIsFailure DEF CompleteRequest, PortCompleteRequest
<1>5. Resting'
  BY <1>1, <1>2, DpcRests
<1>6. /\ dpc'.events = {} /\ dpc'.errors = {} /\ UNCHANGED <<isr, status, errors>>
  BY <1>1 DEF TakeEvents, IdleDpc, latches
<1>7. /\ errors = {} /\ isr.errors = {}
      /\ (status \cup isr.status) \cap CommandEvent = {}
  BY <1>1, <1>3 DEF HandedOn
<1>8. Latched' = {} /\ ~ErrorOnItsWay'
  BY <1>6, <1>7 DEF Latched, ErrorOnItsWay
<1>9. engine.cmd = "none" /\ Silent
  BY <1>1, <1>3 DEF RaisedOnce, ErrorOnItsWay
<1>10. AtRest' /\ RaisedOnce'
  BY <1>1, <1>8, <1>9 DEF AtRest, Silent, RaisedOnce
<1>11. HandedOn'
  BY <1>1, <1>3, TakesOff DEF Inv, TypeInv
<1>12. ~Served' /\ ~Settled'
  BY <1>4 DEF Served, Settled, Waiting
<1>13. SuccessMovedEverything' /\ ArgumentMatchesTransfer' /\ DataPortReady' /\ CompletedOnce'
  BY <1>1, <1>4 DEF PromiseInv, SuccessMovedEverything, ArgumentMatchesTransfer,
     DataPortReady, CompletedOnce
<1> QED
  BY <1>5, <1>10, <1>11, <1>12, <1>13 DEF PromiseInv

\* The request still waits: what has come is ticked off and remembered.
LEMMA DpcStillWaitingPromise ==
    ASSUME Ordinary, Inv, PromiseInv, DpcStillWaiting
    PROVE  PromiseInv'
<1>1. /\ TakeEvents /\ HasWork /\ OutstandingRequest # NULL /\ dpc.errors = {}
      /\ Awaited # {}
      /\ CurrentEvents' = CurrentEvents \cup dpc.events
      /\ Request' = Arrived
      /\ UNCHANGED <<OutstandingRequest, UnalignedReqState, engine, port, history, enabled>>
  BY DEF DpcStillWaiting, Seen, TakeEvents
<1>2. Served /\ port \in Waiting
  BY <1>1, WorkIsAwaited
<1>3. HandedOn /\ RaisedOnce /\ Serving /\ Bytes
  BY <1>2 DEF PromiseInv, Trusted
<1> DEFINE E == dpc.events \cap CommandEvent
<1>4. /\ Latched' = Latched \ E /\ E \subseteq Latched
      /\ (ErrorOnItsWay' <=> ErrorOnItsWay) /\ HandedOn'
  <2>1. Latched \ dpc.events = Latched \ E
    BY DEF Latched
  <2> QED
    BY <1>1, <1>3, <2>1, TakesOff DEF Inv, TypeInv
<1>5. /\ Request'.Data = Request.Data /\ Request'.BlockCount = Request.BlockCount
      /\ Request'.Status = Request.Status /\ Request'.BlockSize = Request.BlockSize
      /\ Request'.Length = Request.Length /\ Request'.DataBuffer = Request.DataBuffer
      /\ Request'.Direction = Request.Direction /\ Request'.Index = Request.Index
      /\ Request'.BlockMode = Request.BlockMode /\ Request'.Count = Request.Count
      /\ Required' = Required \ E
  <2>1. Request \in SDPORT_REQUEST
    BY DEF Inv, TypeInv, TypeOK
  <2>2. Request' = [Request EXCEPT !.RequiredEvents = Awaited]
    BY <1>1 DEF Arrived
  <2>3. Awaited = Required \ E
    BY <2>1 DEF Awaited, Required, SDPORT_REQUEST
  <2> QED
    BY <2>1, <2>2, <2>3 DEF Required, SDPORT_REQUEST
<1>6. Required \ E # {} /\ CurrentEvents \cup dpc.events \subseteq CurrentEvents'
  BY <1>1 DEF Awaited, Required
<1>7. \A e \in CommandEvent : e \in CurrentEvents' <=> e \in CurrentEvents \/ e \in E
  BY <1>1
<1> HIDE DEF E
<1>8. BlocksLeft' = BlocksLeft
  BY <1>5 DEF BlocksLeft
<1>9. RaisedOnce'
  BY <1>1, <1>3, <1>4 DEF RaisedOnce, Silent
<1>10. "TransferComplete" \in CommandEvent
  BY DEF CommandEvent
<1>11. Answering'
  <2>1. engine.cmd = "sent" => "CmdComplete" \in Required'
    BY <1>3, <1>4, <1>5 DEF Serving, Answering, RaisedOnce
  <2>2. "CmdComplete" \in Required' => engine.cmd # "answered" \/ "CmdComplete" \in Latched'
    BY <1>3, <1>4, <1>5 DEF Serving, Answering
  <2>3. engine.owes /\ ~Request.Data => "TransferComplete" \in Required'
    BY <1>3, <1>4, <1>5 DEF Serving, Answering, RaisedOnce
  <2>4. "TransferComplete" \in Required' =>
           engine.owes \/ engine.cmd = "none" \/ "TransferComplete" \in Latched'
    BY <1>3, <1>4, <1>5 DEF Serving, Answering
  <2>5. "TransferComplete" \in CurrentEvents' =>
           ~engine.owes /\ "TransferComplete" \notin Latched'
    BY <1>3, <1>4, <1>7, <1>10 DEF Serving, Answering, RaisedOnce
  <2> QED
    BY <1>1, <1>5, <2>1, <2>2, <2>3, <2>4, <2>5 DEF Answering
<1>12. Dying'
  <2>1. "CmdComplete" \in Required \ Latched => "CmdComplete" \in Required' \ Latched'
    BY <1>4, <1>5
  <2>2. "TransferComplete" \notin Latched \cup CurrentEvents =>
           /\ "TransferComplete" \notin Latched' \cup CurrentEvents'
           /\ "TransferComplete" \in Required => "TransferComplete" \in Required'
    BY <1>4, <1>5, <1>7, <1>10
  <2> QED
    BY <1>1, <1>3, <1>4, <1>5, <2>1, <2>2 DEF Serving, Dying
<1>13. Phases'
  <2>1. Required' # {} /\ port # "reissue"
    BY <1>2, <1>5, <1>6 DEF Waiting
  <2>2. port = "transfer" => Required' = Required
    BY <1>3, <1>5, <2>1 DEF Serving, Phases
  <2> QED
    BY <1>1, <1>3, <1>5, <2>1, <2>2 DEF Serving, Phases
<1>14. Blocks'
  <2>1. ReadyEvent(Request)' = ReadyEvent(Request)
    BY <1>5 DEF ReadyEvent
  <2>2. Required' \subseteq {"CmdComplete", "TransferComplete"}
                            \cup (IF Request.Data THEN {engine.event} ELSE {})
    BY <1>3, <1>5 DEF Serving, Blocks
  <2>3. Latched' \subseteq Required'
                           \cup (IF BlocksLeft > 0 THEN {"TransferComplete"} ELSE {})
    BY <1>3, <1>4, <1>5 DEF Serving, Blocks
  <2>4. ASSUME Request.Data
        PROVE  /\ Request.BlockCount > 0 /\ engine.event \notin Required' => engine.ready
               /\ engine.ready /\ engine.event \in Required' => engine.event \in Latched'
    <3>1. engine.event \in {"ReadReady", "WriteReady"}
      BY DEF Inv, TypeInv, TypeOK
    <3> QED
      BY <1>3, <1>4, <1>5, <2>4, <3>1 DEF Serving, Blocks, RaisedOnce
  <2>5. "TransferComplete" \in Latched \cup CurrentEvents
           => "TransferComplete" \in Latched' \cup CurrentEvents'
    BY <1>4, <1>7, <1>10
  <2> QED
    BY <1>1, <1>3, <1>5, <1>8, <2>1, <2>2, <2>3, <2>4, <2>5 DEF Serving, Blocks
<1>15. Bytes'
  BY <1>1, <1>3, <1>5 DEF Bytes, BytesLeft, history
<1>16. SuccessMovedEverything' /\ ArgumentMatchesTransfer' /\ DataPortReady' /\ CompletedOnce'
  BY <1>1, <1>5 DEF PromiseInv, SuccessMovedEverything, ArgumentMatchesTransfer,
     CardBytes, FitsArgument, DataPortReady, CompletedOnce, history
<1>17. Resting'
  BY <1>1, DpcRests
<1>18. Served' /\ ~Settled' /\ ~Failed' /\ enabled' = Event
  BY <1>1, <1>2 DEF Served, Settled, Failed, Waiting, PromiseInv
<1> QED
  BY <1>4, <1>9, <1>11, <1>12, <1>13, <1>14, <1>15, <1>16, <1>17, <1>18
  DEF PromiseInv, Serving

(***************************************************************************)
(* All that was awaited has come.  The engine is then alive, or has died   *)
(* with a transfer before it that can not be taken for complete.           *)
(***************************************************************************)
LEMMA AllTaken ==
    ASSUME Inv, PromiseInv, Served, Required \subseteq Latched
    PROVE  /\ engine.cmd # "sent"
           /\ engine.cmd = "none" =>
                Request.Data /\ "TransferComplete" \notin Latched \cup CurrentEvents
           /\ engine.cmd # "none" => ~ErrorOnItsWay
<1>1. RaisedOnce /\ Serving
  BY DEF PromiseInv, Trusted
<1>2. engine.cmd # "sent"
  BY <1>1 DEF Serving, Answering, RaisedOnce
<1>3. engine.cmd = "none" =>
         Request.Data /\ "TransferComplete" \notin Latched \cup CurrentEvents
  BY <1>1 DEF Serving, Dying
<1>4. engine.cmd # "none" => ~ErrorOnItsWay
  BY <1>1 DEF RaisedOnce
<1> QED
  BY <1>2, <1>3, <1>4

LEMMA DpcCompletePromise ==
    ASSUME Ordinary, Inv, PromiseInv, DpcComplete
    PROVE  PromiseInv'
<1>1. /\ TakeEvents /\ HasWork /\ OutstandingRequest # NULL /\ dpc.errors = {}
      /\ Awaited = {}
      /\ CurrentEvents' = CurrentEvents \cup dpc.events
      /\ Request' = Finished
      /\ CompleteRequest(Finished, Finished.Status)
      /\ UNCHANGED <<engine, moved, unready, enabled>>
  BY DEF DpcComplete, DpcAllArrived, Seen, TakeEvents
<1>2. Served /\ port \in Waiting /\ UnalignedReqState = "Idle"
  BY <1>1, WorkIsAwaited
<1>3. UnalignedReqState' = "Idle"
  BY <1>2 DEF DpcComplete
<1>4. HandedOn /\ RaisedOnce /\ Serving /\ Bytes /\ enabled = Event
  BY <1>2 DEF PromiseInv, Trusted
<1> DEFINE E == dpc.events \cap CommandEvent
<1>5. /\ Latched' = Latched \ E /\ E \subseteq Latched
      /\ (ErrorOnItsWay' <=> ErrorOnItsWay) /\ HandedOn'
  <2>1. Latched \ dpc.events = Latched \ E
    BY DEF Latched
  <2> QED
    BY <1>1, <1>4, <2>1, TakesOff DEF Inv, TypeInv
<1>6. Request \in SDPORT_REQUEST /\ Arrived \in SDPORT_REQUEST
  BY FinishedType DEF Inv, TypeInv, TypeOK
<1>7. /\ Request'.Data = Request.Data /\ Request'.BlockCount = Request.BlockCount
      /\ Request'.BlockSize = Request.BlockSize
      /\ Request'.Length = Request.Length /\ Request'.DataBuffer = Request.DataBuffer
      /\ Request'.Direction = Request.Direction
      /\ Required' = {} /\ Required \subseteq E
  <2>1. Arrived = [Request EXCEPT !.RequiredEvents = {}]
    BY <1>1 DEF Arrived
  <2>2. /\ Arrived.Data = Request.Data /\ Arrived.BlockCount = Request.BlockCount
        /\ Arrived.BlockSize = Request.BlockSize
        /\ Arrived.Length = Request.Length /\ Arrived.DataBuffer = Request.DataBuffer
        /\ Arrived.Direction = Request.Direction
        /\ Arrived.RequiredEvents = {}
    BY <1>6, <2>1 DEF SDPORT_REQUEST
  <2>3. Request' = [Arrived EXCEPT !.Status = IF Arrived.Status = "MORE_PROCESSING_REQUIRED"
                                              THEN Arrived.Status ELSE "SUCCESS"]
    BY <1>1, <1>6 DEF Finished, SDPORT_REQUEST
  <2>4. Required \subseteq E
    BY <1>1, <1>6 DEF Awaited, Required, SDPORT_REQUEST
  <2> QED
    BY <1>6, <2>2, <2>3, <2>4 DEF Required, SDPORT_REQUEST
<1>8. \A e \in CommandEvent : e \in CurrentEvents' <=> e \in CurrentEvents \/ e \in E
  BY <1>1
<1> HIDE DEF E
<1>9. /\ engine.cmd # "sent"
      /\ engine.cmd = "none" =>
           Request.Data /\ "TransferComplete" \notin Latched \cup CurrentEvents
      /\ engine.cmd # "none" => ~ErrorOnItsWay
  BY <1>2, <1>5, <1>7, AllTaken
<1>10. RaisedOnce'
  BY <1>1, <1>4, <1>5 DEF RaisedOnce, Silent
<1>11. /\ DataPortReady' /\ CompletedOnce' /\ Resting'
       /\ port' = IF Finished.Status = "MORE_PROCESSING_REQUIRED" THEN "reissue"
                  ELSE IF Finished.Status # "SUCCESS" THEN "error"
                  ELSE IF port = "command" /\ Request.Data THEN "reissue" ELSE "done"
  <2>1. Resting'
    BY <1>1, <1>2, <1>3, DpcRests
  <2> QED
    BY <1>1, <1>2, <2>1 DEF CompleteRequest, PortCompleteRequest, PromiseInv,
       DataPortReady, CompletedOnce
<1>12. Request.BlockCount \in Nat /\ Request.Data \in BOOLEAN /\ Request.Length \in Nat
       /\ Request.BlockSize \in Nat
  BY <1>6 DEF SDPORT_REQUEST
<1>13. /\ engine \in EngineType
       /\ "TransferComplete" \in CommandEvent
  BY DEF Inv, TypeInv, TypeOK, EngineType, CommandEvent
\* The last answer: the engine has raised all it has to raise.
<1>14. ASSUME port' = "done", BlocksLeft = 0, engine.cmd # "none",
              Latched \subseteq E, ~engine.owes
       PROVE  PromiseInv'
  <2>1. engine.left = 0
    BY <1>4, <1>14 DEF Serving, Blocks
  <2>2. ~engine.ready
    BY <2>1 DEF PromiseInv, Resting
  <2>3. Silent' /\ engine'.left = 0
    BY <1>1, <1>9, <1>14, <2>1, <2>2 DEF Silent
  <2>4. AtRest'
    BY <1>5, <1>9, <1>14, <2>3 DEF AtRest
  <2>5. Request.Data => moved = 0 .. Request.Length - 1
    <3>1. ASSUME Request.Data PROVE BytesLeft = 0
      <4>1. Request.BlockCount = 0
        BY <1>14, <3>1 DEF BlocksLeft
      <4> QED
        BY <1>12, <4>1 DEF BytesLeft
    <3> QED
      BY <1>4, <1>12, <3>1 DEF Bytes
  <2>6. SuccessMovedEverything' /\ ArgumentMatchesTransfer'
    BY <1>1, <1>7, <1>14, <2>5 DEF SuccessMovedEverything, ArgumentMatchesTransfer
  <2>7. ~Served'
    BY <1>14 DEF Served, Waiting
  <2> QED
    BY <1>1, <1>4, <1>5, <1>10, <1>11, <2>3, <2>4, <2>6, <2>7 DEF PromiseInv
\* More blocks to move: the engine has one in its buffer.
<1>15. ASSUME port' = "reissue", Request.Data, Request.BlockCount > 0
       PROVE  PromiseInv'
  <2>1. BlocksLeft' = BlocksLeft /\ BlocksLeft > 0
    BY <1>7, <1>15 DEF BlocksLeft
  <2>2. Answering'
    <3>1. "TransferComplete" \in CurrentEvents' =>
             ~engine.owes /\ "TransferComplete" \notin Latched'
      BY <1>4, <1>5, <1>8, <1>13 DEF Serving, Answering, RaisedOnce
    <3> QED
      BY <1>1, <1>7, <1>9, <1>15, <3>1 DEF Answering
  <2>3. Dying'
    <3>1. ASSUME engine.cmd = "none"
          PROVE  "TransferComplete" \notin Latched' \cup CurrentEvents'
      BY <1>5, <1>8, <1>9, <1>13, <3>1
    <3> QED
      BY <1>1, <1>4, <1>5, <1>7, <1>15, <3>1 DEF Serving, Dying
  <2>4. Phases'
    BY <1>7, <1>15 DEF Phases
  <2>5. engine.event \in Required => engine.ready
    <3>1. engine.event \in {"ReadReady", "WriteReady"}
      BY <1>13 DEF EngineType
    <3> QED
      BY <1>4, <1>5, <1>7, <3>1 DEF RaisedOnce
  <2>6. Blocks'
    <3>1. engine.event = ReadyEvent(Request)'
      BY <1>4, <1>7, <1>15 DEF ReadyEvent, Serving, Blocks
    <3>2. Latched' \subseteq Required' \cup {"TransferComplete"}
      BY <1>4, <1>5, <1>7, <2>1 DEF Serving, Blocks
    <3>3. "TransferComplete" \in Latched \cup CurrentEvents
           => "TransferComplete" \in Latched' \cup CurrentEvents'
      BY <1>5, <1>8, <1>13
    <3>4. engine.ready
      BY <1>4, <1>15, <2>5 DEF Serving, Blocks
    <3> QED
      BY <1>1, <1>4, <1>7, <1>15, <2>1, <3>1, <3>2, <3>3, <3>4 DEF Serving, Blocks
  <2>7. Bytes'
    BY <1>1, <1>4, <1>7 DEF Bytes, BytesLeft
  <2>8. SuccessMovedEverything' /\ ArgumentMatchesTransfer'
    BY <1>15 DEF SuccessMovedEverything, ArgumentMatchesTransfer
  <2>9. Served' /\ ~Settled' /\ ~Failed'
    BY <1>15 DEF Served, Settled, Failed
  <2> QED
    BY <1>1, <1>4, <1>5, <1>10, <1>11, <2>2, <2>3, <2>4, <2>6, <2>7, <2>8, <2>9
    DEF PromiseInv, Serving
<1>16. CASE port = "command"
  <2>1. Finished.Status = "SUCCESS"
    BY <1>16, FinishedFields DEF Inv, TypeInv, OwnedInv, CommandAsksNoMore
  <2>2. port' = IF Request.Data THEN "reissue" ELSE "done"
    BY <1>11, <1>16, <2>1
  <2>3. CASE Request.Data
    <3>1. Request.BlockCount > 0
      BY <1>4, <1>16, <2>3 DEF Serving, Phases
    <3> QED
      BY <1>15, <2>2, <2>3, <3>1
  <2>4. CASE ~Request.Data
    <3>1. BlocksLeft = 0 /\ engine.cmd # "none"
      BY <1>9, <2>4 DEF BlocksLeft
    <3>2. Latched \subseteq E
      BY <1>4, <1>7, <3>1 DEF Serving, Blocks
    <3>3. ~engine.owes
      BY <1>4, <1>5, <1>7, <2>4 DEF Serving, Answering, RaisedOnce
    <3> QED
      BY <1>14, <2>2, <2>4, <3>1, <3>2, <3>3
  <2> QED
    BY <1>12, <2>3, <2>4
<1>17. CASE port = "transfer"
  <2>1. Request.Data
    BY <1>4, <1>17 DEF Serving, Phases
  <2>2. CASE Request.BlockCount = 0
    <3>1. Request.Status # "MORE_PROCESSING_REQUIRED" /\ Required = {"TransferComplete"}
      BY <1>4, <1>17, <2>2 DEF Serving, Phases
    <3>2. port' = "done"
      BY <1>11, <1>17, <3>1, FinishedFields DEF Inv, TypeInv
    <3>3. "TransferComplete" \in Latched /\ "TransferComplete" \in E
      BY <1>5, <1>7, <3>1
    <3>4. BlocksLeft = 0
      BY <2>2 DEF BlocksLeft
    <3>5. Latched \subseteq E
      BY <1>4, <1>7, <3>4 DEF Serving, Blocks
    <3>6. ~engine.owes
      BY <1>4, <3>3 DEF RaisedOnce
    <3> QED
      BY <1>9, <1>14, <3>2, <3>3, <3>4, <3>5, <3>6
  <2>3. CASE Request.BlockCount # 0
    <3>1. Request.BlockCount > 0
      BY <1>12, <2>3
    <3>2. Request.Status = "MORE_PROCESSING_REQUIRED"
      BY <1>4, <1>17, <3>1 DEF Serving, Phases
    <3>3. port' = "reissue"
      BY <1>11, <3>2, FinishedFields DEF Inv, TypeInv
    <3> QED
      BY <1>15, <2>1, <3>1, <3>3
  <2> QED
    BY <2>2, <2>3
<1> QED
  BY <1>2, <1>16, <1>17 DEF Waiting

LEMMA DpcPromise ==
    ASSUME Ordinary, Inv, PromiseInv, RequestDpc
    PROVE  PromiseInv'
<1>1. UnalignedReqState = "Idle"
  BY DEF PromiseInv, Resting
<1>2. ~DpcSendTrailing /\ ~DpcMoveTrailing
  BY <1>1 DEF DpcSendTrailing, DpcMoveTrailing
<1> QED
  BY <1>2, DpcNothingPromise, DpcNotIssuedPromise, DpcErrorPromise,
     DpcStillWaitingPromise, DpcCompletePromise DEF RequestDpc
-----------------------------------------------------------------------------
(***************************************************************************)
(* sdport.  A data command is built with its blocks and its argument; a    *)
(* command is sent with the events to wait for.                            *)
(***************************************************************************)
LEMMA BuiltFields ==
    ASSUME NEW c \in FreshRequest, c.Data
    PROVE  LET s == SizeInBlocks(c)
               b == SetArgument(s)
           IN  /\ s \in SDPORT_REQUEST /\ b \in SDPORT_REQUEST
               /\ s.Length = c.Length /\ s.BlockCount \in 1 .. UShortRange - 1
               /\ b.Data /\ b.Length = c.Length /\ b.DataBuffer = 0
               /\ b.BlockCount = s.BlockCount /\ b.BlockSize = s.BlockSize
               /\ b.Response = c.Response
               /\ b.Index = "CMD53" =>
                    (b.BlockMode <=> b.BlockCount > 1)
                      /\ b.Count = CountField(IF b.BlockCount > 1 THEN b.BlockCount ELSE b.Length)
<1> DEFINE s == SizeInBlocks(c)
           b == SetArgument(s)
           count == UShort(c.Length \div c.BlockSize)
           size  == UShort(c.Length)
<1>1. /\ c \in SDPORT_REQUEST /\ c.Length \div c.BlockSize < UShortRange
      /\ c.BlockSize # 0
  BY FreshType
<1>2. /\ s \in SDPORT_REQUEST /\ s.Length = c.Length /\ s.DataBuffer = 0
      /\ \/ s.BlockCount = 1
         \/ s.BlockCount = c.Length \div c.BlockSize /\ s.BlockCount > 0
  BY SizedFresh
<1>3. s = IF count = 0 THEN [c EXCEPT !.BlockCount = 1, !.BlockSize = size]
          ELSE [c EXCEPT !.BlockCount = count]
  BY DEF SizeInBlocks
<1> HIDE DEF count, size
<1>4. s.Data /\ s.Response = c.Response
  BY <1>1, <1>3 DEF SDPORT_REQUEST
<1> HIDE DEF s
<1>5. s.BlockCount \in 1 .. UShortRange - 1
  <2>1. s.BlockCount \in Nat /\ 1 < UShortRange /\ UShortRange \in Nat
    BY <1>2, UShortRangeAssumption DEF SDPORT_REQUEST, MaxBlockSize
  <2>2. s.BlockCount > 0 /\ s.BlockCount < UShortRange
    <3>1. CASE s.BlockCount = 1
      BY <2>1, <3>1
    <3>2. CASE s.BlockCount = c.Length \div c.BlockSize /\ s.BlockCount > 0
      BY <1>1, <3>2
    <3> QED
      BY <1>2, <3>1, <3>2
  <2> QED
    BY <2>1, <2>2
<1>6. /\ b \in SDPORT_REQUEST /\ b.Data = s.Data /\ b.Length = s.Length
      /\ b.DataBuffer = s.DataBuffer /\ b.Response = s.Response
      /\ b.BlockCount = s.BlockCount /\ b.BlockSize = s.BlockSize
      /\ b.Index = "CMD53" =>
           (b.BlockMode <=> s.BlockCount > 1)
             /\ b.Count = CountField(IF s.BlockCount > 1 THEN s.BlockCount ELSE s.Length)
  <2>1. CASE s.Index # "CMD53"
    BY <1>2, <2>1 DEF SetArgument
  <2>2. CASE s.Index = "CMD53" /\ s.BlockCount > 1
    <3> DEFINE n == CountField(s.BlockCount)
    <3>1. b = [s EXCEPT !.BlockMode = TRUE, !.Count = n]
      BY <2>2 DEF SetArgument
    <3>2. n \in Nat
      BY <1>2, FieldTypes DEF SDPORT_REQUEST
    <3>3. n = CountField(IF s.BlockCount > 1 THEN s.BlockCount ELSE s.Length)
      BY <2>2
    <3> HIDE DEF n
    <3>4. /\ b \in SDPORT_REQUEST /\ b.Data = s.Data /\ b.Length = s.Length
          /\ b.DataBuffer = s.DataBuffer /\ b.Response = s.Response
          /\ b.BlockCount = s.BlockCount /\ b.BlockSize = s.BlockSize
          /\ (b.BlockMode <=> s.BlockCount > 1) /\ b.Count = n
      BY <1>2, <2>2, <3>1, <3>2 DEF SDPORT_REQUEST
    <3> QED
      BY <3>3, <3>4
  <2>3. CASE s.Index = "CMD53" /\ ~(s.BlockCount > 1)
    <3> DEFINE n == CountField(s.Length)
    <3>1. b = [s EXCEPT !.BlockMode = FALSE, !.Count = n]
      BY <2>3 DEF SetArgument
    <3>2. n \in Nat
      BY <1>2, FieldTypes DEF SDPORT_REQUEST
    <3>3. n = CountField(IF s.BlockCount > 1 THEN s.BlockCount ELSE s.Length)
      BY <2>3
    <3> HIDE DEF n
    <3>4. /\ b \in SDPORT_REQUEST /\ b.Data = s.Data /\ b.Length = s.Length
          /\ b.DataBuffer = s.DataBuffer /\ b.Response = s.Response
          /\ b.BlockCount = s.BlockCount /\ b.BlockSize = s.BlockSize
          /\ (b.BlockMode <=> s.BlockCount > 1) /\ b.Count = n
      BY <1>2, <2>3, <3>1, <3>2 DEF SDPORT_REQUEST
    <3> QED
      BY <3>3, <3>4
  <2> QED
    BY <2>1, <2>2, <2>3
<1> HIDE DEF b
<1>7. /\ s \in SDPORT_REQUEST /\ b \in SDPORT_REQUEST
      /\ s.Length = c.Length /\ s.BlockCount \in 1 .. UShortRange - 1
      /\ b.Data /\ b.Length = c.Length /\ b.DataBuffer = 0
      /\ b.BlockCount = s.BlockCount /\ b.BlockSize = s.BlockSize
      /\ b.Response = c.Response
      /\ b.Index = "CMD53" =>
           (b.BlockMode <=> b.BlockCount > 1)
             /\ b.Count = CountField(IF b.BlockCount > 1 THEN b.BlockCount ELSE b.Length)
  BY <1>2, <1>4, <1>5, <1>6
<1> QED
  BY <1>7 DEF s, b

LEMMA SentFields ==
    ASSUME NEW r \in SDPORT_REQUEST
    PROVE  /\ Sent(r).Data = r.Data /\ Sent(r).Length = r.Length
           /\ Sent(r).BlockCount = r.BlockCount /\ Sent(r).BlockSize = r.BlockSize
           /\ Sent(r).DataBuffer = r.DataBuffer /\ Sent(r).Index = r.Index
           /\ Sent(r).BlockMode = r.BlockMode /\ Sent(r).Count = r.Count
           /\ Sent(r).Direction = r.Direction
           /\ Sent(r).RequiredEvents = EventsToWaitFor(r)
BY DEF Sent, SDPORT_REQUEST

\* An answer to a refused command is an error, and the engine is left alone.
LEMMA RefusedPromise ==
    ASSUME Inv, PromiseInv, Settled, port' = "error", OutstandingRequest' = REQUEST,
           UnalignedReqState' = "Idle",
           UNCHANGED <<isr, dpc, latches, enabled, engine, unready, spurious>>
    PROVE  PromiseInv'
<1> USE DEF latches
<1>1. HandedOn /\ RaisedOnce /\ AtRest
  BY DEF PromiseInv, Trusted
<1>2. Latched' = Latched /\ (ErrorOnItsWay' <=> ErrorOnItsWay)
  BY DEF Latched, ErrorOnItsWay
<1>3. HandedOn'
  BY <1>1 DEF HandedOn
<1>4. RaisedOnce' /\ AtRest'
  BY <1>1, <1>2 DEF RaisedOnce, AtRest, Silent
<1>5. Resting'
  BY DEF PromiseInv, Resting
<1>6. ~Served' /\ ~Settled'
  BY DEF Served, Settled, Waiting
<1>7. SuccessMovedEverything' /\ ArgumentMatchesTransfer' /\ DataPortReady' /\ CompletedOnce'
  BY DEF PromiseInv, SuccessMovedEverything, ArgumentMatchesTransfer, DataPortReady,
         CompletedOnce
<1> QED
  BY <1>3, <1>4, <1>5, <1>6, <1>7 DEF PromiseInv

\* The engine starts on a request that waits for all it will raise first.
LEMMA AcceptedPromise ==
    ASSUME Inv, PromiseInv, Settled, NEW r \in SDPORT_REQUEST,
           r.Data => /\ r.BlockCount \in 1 .. UShortRange - 1
                     /\ r.BlockCount * r.BlockSize = r.Length
                     /\ r.DataBuffer = 0
                     /\ r.Index = "CMD53" /\ FitsArgument(r) =>
                          CardBytes(r) = r.BlockCount * r.BlockSize,
           Request' = Sent(r), CurrentEvents' = {}, engine' = ToStart(r),
           port' = "command", moved' = {}, UnalignedReqState' = "Idle",
           UNCHANGED <<isr, dpc, latches, enabled, unready, spurious>>
    PROVE  PromiseInv'
<1> USE DEF latches
<1>1. HandedOn /\ AtRest /\ enabled = Event
  BY DEF PromiseInv, Trusted
<1>2. Latched' = Latched /\ (ErrorOnItsWay' <=> ErrorOnItsWay)
  BY DEF Latched, ErrorOnItsWay
<1>3. Latched' = {} /\ ~ErrorOnItsWay'
  BY <1>1, <1>2 DEF AtRest
<1>4. HandedOn'
  BY <1>1 DEF HandedOn
<1>5. /\ Request'.Data = r.Data /\ Request'.Length = r.Length
      /\ Request'.BlockCount = r.BlockCount /\ Request'.BlockSize = r.BlockSize
      /\ Request'.DataBuffer = r.DataBuffer /\ Request'.Index = r.Index
      /\ Request'.BlockMode = r.BlockMode /\ Request'.Count = r.Count
      /\ Request'.Direction = r.Direction
      /\ Required' = EventsToWaitFor(r)
  BY SentFields DEF Required
<1>6. /\ engine'.cmd = "sent" /\ ~engine'.ready
      /\ engine'.left = (IF r.Data THEN r.BlockCount ELSE 0)
      /\ engine'.owes = (r.Data \/ r.Response = "busy")
      /\ engine'.event = ReadyEvent(r)
  BY DEF ToStart
<1>7. /\ r.Data \in BOOLEAN /\ r.BlockCount \in Nat /\ r.BlockSize \in Nat
      /\ r.Length \in Nat
  BY DEF SDPORT_REQUEST
<1>8. /\ "CmdComplete" \in Required'
      /\ r.Data => ReadyEvent(r) \in Required'
      /\ r.Response = "busy" => "TransferComplete" \in Required'
      /\ "TransferComplete" \in Required' => r.Response = "busy"
      /\ Required' \subseteq {"CmdComplete", "TransferComplete"}
                               \cup (IF r.Data THEN {ReadyEvent(r)} ELSE {})
  BY <1>5 DEF EventsToWaitFor, ReadyEvent
<1>9. RaisedOnce'
  BY <1>3 DEF RaisedOnce
<1>10. Answering'
  <2>1. engine'.owes /\ ~Request'.Data => "TransferComplete" \in Required'
    BY <1>5, <1>6, <1>7, <1>8
  <2>2. "TransferComplete" \in Required' => engine'.owes
    BY <1>6, <1>8
  <2> QED
    BY <1>6, <1>8, <2>1, <2>2 DEF Answering
<1>11. Dying'
  BY <1>6 DEF Dying
<1>12. Phases'
  BY <1>5, <1>8 DEF Phases
<1>13. Blocks'
  <2>1. engine'.left = BlocksLeft'
    BY <1>5, <1>6 DEF BlocksLeft
  <2>2. ReadyEvent(Request)' = ReadyEvent(r)
    BY <1>5 DEF ReadyEvent
  <2>3. r.Data => engine'.owes
    BY <1>6
  <2>4. Request'.Data => Request'.BlockCount < UShortRange
    BY <1>5, <1>7, UShortRangeAssumption
  <2> QED
    BY <1>3, <1>5, <1>6, <1>8, <2>1, <2>2, <2>3, <2>4 DEF Blocks
<1>14. Bytes'
  <2>1. BytesLeft' = r.BlockCount * r.BlockSize
    BY <1>5 DEF BytesLeft
  <2>2. ASSUME r.Data PROVE BytesLeft' = r.Length /\ moved' = 0 .. r.Length - r.Length - 1
    BY <1>7, <2>1, <2>2
  <2> QED
    BY <1>5, <1>7, <2>2 DEF Bytes
<1>15. Resting'
  BY <1>6, <1>7 DEF PromiseInv, Resting
<1>16. ArgumentMatchesTransfer'
  BY <1>5 DEF ArgumentMatchesTransfer, CardBytes, FitsArgument, FitsArgument
<1>17. SuccessMovedEverything' /\ DataPortReady' /\ CompletedOnce'
  BY DEF PromiseInv, SuccessMovedEverything, DataPortReady, CompletedOnce
<1>18. Served' /\ ~Settled' /\ ~Failed'
  BY DEF Served, Settled, Failed, Waiting
<1> QED
  BY <1>1, <1>4, <1>9, <1>10, <1>11, <1>12, <1>13, <1>14, <1>15, <1>16, <1>17, <1>18
  DEF PromiseInv, Serving

LEMMA IssueCommandPromise ==
    ASSUME Ordinary, Inv, PromiseInv, IssueCommand
    PROVE  PromiseInv'
<1> DEFINE sized(c) == IF BuildsTransfer(c) THEN SizeInBlocks(c) ELSE c
           built(c) == IF BuildsTransfer(c) THEN SetArgument(sized(c)) ELSE c
<1>1. PICK c \in Commands :
         /\ StartUnaligned(sized(c))
         /\ IF IsAccepted(c)
            THEN /\ Request' = Sent(built(c)) /\ StartCommand(built(c))
                 /\ port' = "command"
            ELSE /\ Request' = built(c) /\ port' = "error"
                 /\ UNCHANGED <<CurrentEvents, engine>>
  BY DEF IssueCommand
<1>2. /\ Settled /\ OutstandingRequest' = REQUEST /\ moved' = {}
      /\ UNCHANGED <<isr, dpc, latches, enabled, unready, spurious>>
  BY DEF IssueCommand, Settled
<1>3. c \in FreshRequest /\ c \in SDPORT_REQUEST
  BY CommandsAssumption DEF FreshRequest
<1>4. BuildsTransfer(c) =>
         SizeInBlocks(c).BlockCount * SizeInBlocks(c).BlockSize = c.Length
  BY DEF Ordinary
<1>5. UnalignedReqState' = "Idle"
  <2>1. UnalignedReqState = "Idle"
    BY DEF PromiseInv, Resting
  <2>2. CASE ~BuildsTransfer(sized(c))
    BY <1>1, <2>1, <2>2 DEF StartUnaligned
  <2>3. CASE BuildsTransfer(sized(c)) /\ ~BuildsTransfer(c)
    BY <2>3
  <2>4. CASE BuildsTransfer(c) /\ BuildsTransfer(sized(c))
    <3>1. ~HasTrailingBytes(sized(c))
      <4>1. c.Data /\ sized(c) = SizeInBlocks(c)
        BY <2>4 DEF BuildsTransfer
      <4>2. sized(c).Length = c.Length /\ c.Length \in Nat
        BY <1>3, <4>1, BuiltFields DEF SDPORT_REQUEST
      <4>3. sized(c).BlockCount * sized(c).BlockSize = c.Length
        BY <1>4, <2>4, <4>1
      <4> HIDE DEF sized
      <4> QED
        BY <4>2, <4>3 DEF HasTrailingBytes
    <3> QED
      BY <1>1, <2>1, <2>4, <3>1 DEF StartUnaligned
  <2> QED
    BY <2>2, <2>3, <2>4
<1>6. CASE ~IsAccepted(c)
  BY <1>1, <1>2, <1>5, <1>6, RefusedPromise
<1>7. CASE IsAccepted(c) /\ ~BuildsTransfer(c)
  <2>1. built(c) = c /\ ~c.Data
    BY <1>7 DEF IsAccepted
  <2>2. /\ Request' = Sent(c) /\ CurrentEvents' = {} /\ engine' = ToStart(c)
        /\ port' = "command"
    BY <1>1, <1>7, <2>1 DEF StartCommand
  <2> QED
    BY <1>2, <1>3, <1>5, <2>1, <2>2, AcceptedPromise
<1>8. CASE IsAccepted(c) /\ BuildsTransfer(c)
  <2> DEFINE b == SetArgument(SizeInBlocks(c))
  <2>1. built(c) = b /\ c.Data
    BY <1>8 DEF BuildsTransfer
  <2>2. /\ Request' = Sent(b) /\ CurrentEvents' = {} /\ engine' = ToStart(b)
        /\ port' = "command"
    BY <1>1, <1>8, <2>1 DEF StartCommand
  <2>3. /\ b \in SDPORT_REQUEST /\ b.BlockCount \in 1 .. UShortRange - 1
        /\ b.BlockCount * b.BlockSize = b.Length /\ b.DataBuffer = 0
        /\ b.Index = "CMD53" =>
             (b.BlockMode <=> b.BlockCount > 1)
               /\ b.Count = CountField(IF b.BlockCount > 1 THEN b.BlockCount ELSE b.Length)
    BY <1>3, <1>4, <1>8, <2>1, BuiltFields
  <2>5. b.Length > 0
    <3>1. c.Length > 0 /\ b.Length = c.Length
      BY <1>3, <2>1, BuiltFields, FreshType
    <3> QED
      BY <3>1
  <2> HIDE DEF b
  <2>4. b.Index = "CMD53" /\ FitsArgument(b) => CardBytes(b) = b.BlockCount * b.BlockSize
    <3> SUFFICES ASSUME b.Index = "CMD53", FitsArgument(b)
                 PROVE  CardBytes(b) = b.BlockCount * b.BlockSize
      OBVIOUS
    <3>1. b.BlockCount \in Nat /\ b.Length \in Nat /\ b.BlockSize \in Nat
      BY <2>3 DEF SDPORT_REQUEST
    <3>2. CASE b.BlockCount > 1
      BY <2>3, <3>1, <3>2, FieldTypes DEF CardBytes, FitsArgument
    <3>3. CASE ~(b.BlockCount > 1)
      <4>1. b.BlockCount * b.BlockSize = b.Length /\ b.Length <= 512
        BY <2>3, <3>3 DEF FitsArgument
      <4>2. ~b.BlockMode /\ b.Count = CountField(b.Length) /\ b.Length # 0
        BY <1>8, <2>3, <2>5, <3>3
      <4>3. CASE b.Length < 512
        BY <3>1, <4>1, <4>2, <4>3, FieldTypes DEF CardBytes
      <4>4. CASE b.Length = 512
        BY <3>1, <4>1, <4>2, <4>4, FieldTypes DEF CardBytes
      <4> QED
        BY <3>1, <4>1, <4>3, <4>4
    <3> QED
      BY <3>2, <3>3
  <2> QED
    BY <1>2, <1>5, <2>2, <2>3, <2>4, AcceptedPromise
<1> QED
  BY <1>6, <1>7, <1>8

(***************************************************************************)
(* One block is moved: the bytes that were first among those left.         *)
(***************************************************************************)
LEMMA MovedBytes ==
    ASSUME NEW length \in Nat, NEW count \in Nat \ {0}, NEW size \in Nat,
           count * size <= length
    PROVE  LET from == length - count * size
               next == length - (count - 1) * size
           IN  /\ (count - 1) * size <= length
               /\ next = from + size
               /\ (0 .. from - 1) \cup (from .. from + size - 1) = 0 .. next - 1
<1> DEFINE all  == count * size
           rest == (count - 1) * size
<1>1. all = rest + size /\ all \in Nat /\ rest \in Nat
  OBVIOUS
<1>2. all <= length
  OBVIOUS
<1> HIDE DEF all, rest
<1>3. rest <= length /\ length - rest = (length - all) + size
  BY <1>1, <1>2
<1>4. (0 .. (length - all) - 1) \cup (length - all .. (length - all) + size - 1)
         = 0 .. (length - rest) - 1
  BY <1>1, <1>2
<1> QED
  BY <1>3, <1>4 DEF all, rest

\* What SdhcStartPioTransfer leaves of the request.
LEMMA PioFields ==
    ASSUME NEW r \in SDPORT_REQUEST, NEW seen,
           r.BlockCount > 0, r.BlockCount < UShortRange, r.RequiredEvents = {}
    PROVE  LET p == PioStarted(r, seen) IN
           /\ p.Data = r.Data /\ p.Direction = r.Direction
           /\ p.Length = r.Length /\ p.BlockSize = r.BlockSize
           /\ p.BlockCount = r.BlockCount - 1
           /\ r.BlockCount > 1 =>
                /\ p.RequiredEvents = {ReadyEvent(r)}
                /\ p.Status = "MORE_PROCESSING_REQUIRED"
                /\ p.DataBuffer = r.DataBuffer + r.BlockSize
           /\ r.BlockCount = 1 =>
                /\ p.RequiredEvents =
                     IF "TransferComplete" \in seen THEN {} ELSE {"TransferComplete"}
                /\ p.Status = "SUCCESS"
           /\ PioDone(r, seen) <=> r.BlockCount = 1 /\ "TransferComplete" \in seen
<1> DEFINE left == r.BlockCount - 1
           p    == PioStarted(r, seen)
           sent == [r EXCEPT !.BlockCount = left]
           last == IF "TransferComplete" \in seen THEN {} ELSE {"TransferComplete"}
           next == r.DataBuffer + r.BlockSize
<1>1. left \in Nat /\ UShort(r.BlockCount - 1) = left
  <2>1. left \in Nat /\ left < UShortRange
    BY UShortRangeAssumption DEF SDPORT_REQUEST
  <2> QED
    BY <2>1, UShortKeeps
<1>2. p = IF left >= 1
          THEN [sent EXCEPT !.DataBuffer = next, !.RequiredEvents = {ReadyEvent(r)},
                            !.Status = "MORE_PROCESSING_REQUIRED"]
          ELSE [sent EXCEPT !.RequiredEvents = last, !.Status = "SUCCESS"]
  BY <1>1 DEF PioStarted, SDPORT_REQUEST
<1>3. PioDone(r, seen) <=> left = 0 /\ "TransferComplete" \in seen
  BY <1>1 DEF PioDone
<1>4. /\ left >= 1 <=> r.BlockCount > 1
      /\ left = 0 <=> r.BlockCount = 1
      /\ left >= 1 \/ left = 0
  BY <1>1 DEF SDPORT_REQUEST
<1> HIDE DEF left, last, next
<1>5. /\ sent \in SDPORT_REQUEST /\ sent.BlockCount = left
      /\ sent.Data = r.Data /\ sent.Direction = r.Direction
      /\ sent.Length = r.Length /\ sent.BlockSize = r.BlockSize
  BY <1>1 DEF SDPORT_REQUEST
<1> HIDE DEF sent, p
<1>6. /\ p.BlockCount = left
      /\ p.Data = r.Data /\ p.Direction = r.Direction
      /\ p.Length = r.Length /\ p.BlockSize = r.BlockSize
      /\ left >= 1 => /\ p.RequiredEvents = {ReadyEvent(r)}
                      /\ p.Status = "MORE_PROCESSING_REQUIRED"
                      /\ p.DataBuffer = next
      /\ ~(left >= 1) => p.RequiredEvents = last /\ p.Status = "SUCCESS"
  BY <1>2, <1>5 DEF SDPORT_REQUEST
<1> QED
  BY <1>1, <1>3, <1>4, <1>6 DEF left, last, next, p

LEMMA IssueStartTransferPromise ==
    ASSUME Ordinary, Inv, PromiseInv, IssueStartTransfer
    PROVE  PromiseInv'
<1>1. /\ port = "reissue" /\ Request' = PioStarted(Request, CurrentEvents)
      /\ MoveBlock(Request)
      /\ IF PioDone(Request, CurrentEvents)
         THEN OutstandingRequest' = NULL /\ port' = "done"
         ELSE OutstandingRequest' = REQUEST /\ port' = "transfer"
      /\ UNCHANGED <<UnalignedReqState, isr, dpc, status, errors, enabled, spurious>>
  BY DEF IssueStartTransfer, latches
<1>2. Served /\ Trusted
  BY <1>1 DEF Served, Trusted
<1>3. HandedOn /\ RaisedOnce /\ Serving /\ Bytes /\ enabled = Event
  BY <1>2 DEF PromiseInv
<1>4. Request \in SDPORT_REQUEST /\ engine \in EngineType
  BY DEF Inv, TypeInv, TypeOK, EngineType
<1>5. /\ Request.Data /\ Request.BlockCount > 0 /\ Request.BlockCount < UShortRange
      /\ Required = {} /\ engine.ready
      /\ Request.RequiredEvents = {}
  BY <1>1, <1>3 DEF Serving, Phases, Blocks, Required
<1>6. /\ Request.BlockCount \in Nat \ {0} /\ Request.BlockSize \in Nat
      /\ Request.Length \in Nat
  BY <1>4, <1>5 DEF SDPORT_REQUEST
<1>7. /\ Request'.Data /\ Request'.Direction = Request.Direction
      /\ Request'.Length = Request.Length /\ Request'.BlockSize = Request.BlockSize
      /\ Request'.BlockCount = Request.BlockCount - 1
      /\ Request.BlockCount > 1 =>
           /\ Required' = {ReadyEvent(Request)}
           /\ Request'.Status = "MORE_PROCESSING_REQUIRED"
           /\ Request'.DataBuffer = Request.DataBuffer + Request.BlockSize
      /\ Request.BlockCount = 1 =>
           /\ Required' = IF "TransferComplete" \in CurrentEvents THEN {}
                          ELSE {"TransferComplete"}
           /\ Request'.Status = "SUCCESS"
      /\ PioDone(Request, CurrentEvents)
           <=> Request.BlockCount = 1 /\ "TransferComplete" \in CurrentEvents
  BY <1>1, <1>4, <1>5, PioFields DEF Required
<1>8. /\ CurrentEvents' = {}
      /\ engine' = [engine EXCEPT !.ready = FALSE, !.left = engine.left - 1]
      /\ moved' = moved \cup Request.DataBuffer .. Request.DataBuffer + Request.BlockSize - 1
      /\ unready' = unready
  BY <1>1, <1>4, <1>5 DEF MoveBlock, EngineType
<1>9. /\ engine'.cmd = engine.cmd /\ engine'.left = engine.left - 1 /\ ~engine'.ready
      /\ engine'.owes = engine.owes /\ engine'.event = engine.event
  <2> DEFINE left == engine.left - 1
  <2>1. left \in Int /\ engine' = [engine EXCEPT !.ready = FALSE, !.left = left]
    BY <1>4, <1>8 DEF EngineType
  <2> HIDE DEF left
  <2>2. /\ engine'.cmd = engine.cmd /\ engine'.left = left /\ engine'.ready = FALSE
        /\ engine'.owes = engine.owes /\ engine'.event = engine.event
    BY <1>4, <2>1 DEF EngineType
  <2> QED
    BY <2>2 DEF left
<1>10. engine.left \in Int /\ engine.left > 0 /\ engine'.left >= 0
  <2>1. engine.left \in Int /\ engine.left > 0
    BY <1>4, <1>5 DEF PromiseInv, Resting, EngineType
  <2> QED
    BY <1>9, <2>1
<1>11. Latched' = Latched /\ (ErrorOnItsWay' <=> ErrorOnItsWay) /\ HandedOn'
  BY <1>1, <1>3 DEF Latched, ErrorOnItsWay, HandedOn
\* What the command has raised so far has been taken, its end perhaps excepted.
<1>12. /\ Latched \subseteq {"TransferComplete"}
       /\ engine.cmd # "sent"
       /\ engine.cmd = "none" =>
            ErrorOnItsWay /\ "TransferComplete" \notin Latched \cup CurrentEvents
       /\ engine.cmd # "none" =>
            /\ ~ErrorOnItsWay
            /\ engine.left = Request.BlockCount
            /\ \/ engine.owes
               \/ /\ Request.BlockCount <= 1
                  /\ "TransferComplete" \in Latched \cup CurrentEvents
       /\ engine.owes => "TransferComplete" \notin Latched
       /\ "TransferComplete" \in CurrentEvents =>
            ~engine.owes /\ "TransferComplete" \notin Latched
  BY <1>3, <1>5 DEF Serving, Answering, Dying, Blocks, BlocksLeft, RaisedOnce
<1>13. RaisedOnce'
  <2>1. ErrorOnItsWay => engine.cmd = "none" /\ ~engine.owes /\ engine.left = 1
    BY <1>3, <1>5 DEF RaisedOnce, Silent
  <2> QED
    BY <1>9, <1>10, <1>11, <1>12, <2>1 DEF RaisedOnce, Silent
<1>14. Resting'
  BY <1>1, <1>9, <1>10 DEF PromiseInv, Resting
<1>15. /\ BytesLeft' <= Request.Length
       /\ moved' = 0 .. Request.Length - BytesLeft' - 1
       /\ Request.BlockCount > 1 => Request'.DataBuffer = Request.Length - BytesLeft'
  <2>1. /\ Request.BlockCount * Request.BlockSize <= Request.Length
        /\ moved = 0 .. Request.Length - Request.BlockCount * Request.BlockSize - 1
        /\ Request.DataBuffer = Request.Length - Request.BlockCount * Request.BlockSize
    BY <1>3, <1>5 DEF Bytes, BytesLeft
  <2>2. BytesLeft' = (Request.BlockCount - 1) * Request.BlockSize
    BY <1>7 DEF BytesLeft
  <2> DEFINE from == Request.Length - Request.BlockCount * Request.BlockSize
             next == Request.Length - (Request.BlockCount - 1) * Request.BlockSize
  <2>3. /\ (Request.BlockCount - 1) * Request.BlockSize <= Request.Length
        /\ next = from + Request.BlockSize
        /\ (0 .. from - 1) \cup (from .. from + Request.BlockSize - 1) = 0 .. next - 1
    BY <1>6, <2>1, MovedBytes
  <2>4. moved' = 0 .. next - 1
    BY <1>8, <2>1, <2>3
  <2> QED
    BY <1>7, <2>1, <2>2, <2>3, <2>4
<1>16. DataPortReady' /\ CompletedOnce' /\ ArgumentMatchesTransfer'
  BY <1>1, <1>8 DEF PromiseInv, DataPortReady, CompletedOnce, ArgumentMatchesTransfer
<1>17. Request.BlockCount = 1 => BytesLeft' = 0
  BY <1>6, <1>7 DEF BytesLeft
\* The last block, and the end of the transfer has been seen.
<1>18. CASE Request.BlockCount = 1 /\ "TransferComplete" \in CurrentEvents
  <2>1. port' = "done"
    BY <1>1, <1>7, <1>18
  <2>2. /\ engine.cmd # "none" /\ ~engine.owes /\ engine'.left = 0 /\ Latched = {}
        /\ ~ErrorOnItsWay
    BY <1>9, <1>12, <1>18
  <2>3. AtRest'
    BY <1>9, <1>11, <1>12, <2>2 DEF AtRest, Silent
  <2>4. moved' = 0 .. Request'.Length - 1
    BY <1>6, <1>7, <1>15, <1>17, <1>18
  <2>5. SuccessMovedEverything'
    BY <2>4 DEF SuccessMovedEverything
  <2>6. ~Served' /\ ~Failed' /\ enabled' = Event
    BY <1>1, <1>3, <2>1 DEF Served, Failed, Waiting
  <2> QED
    BY <1>11, <1>13, <1>14, <1>16, <2>2, <2>3, <2>5, <2>6 DEF PromiseInv
\* More to come: the next block, or the end of the transfer.
<1>19. CASE ~(Request.BlockCount = 1 /\ "TransferComplete" \in CurrentEvents)
  <2>1. port' = "transfer"
    BY <1>1, <1>7, <1>19
  <2>2. /\ Served' /\ ~Settled' /\ ~Failed' /\ enabled' = Event
        /\ SuccessMovedEverything'
    BY <1>1, <1>3, <2>1 DEF Served, Settled, Failed, Waiting, SuccessMovedEverything
  <2>3. engine.event = ReadyEvent(Request) /\ engine.event \in {"ReadReady", "WriteReady"}
    BY <1>3, <1>4, <1>5 DEF Serving, Blocks, EngineType
  <2>4. ReadyEvent(Request)' = engine.event
    BY <1>7, <2>3 DEF ReadyEvent
  <2>5. Bytes'
    BY <1>6, <1>7, <1>15 DEF Bytes
  <2>6. Required' = {IF Request'.BlockCount = 0 THEN "TransferComplete" ELSE engine.event}
    BY <1>6, <1>7, <1>19, <2>3
  <2>7. Phases'
    <3>1. Request'.Status = "MORE_PROCESSING_REQUIRED" <=> Request'.BlockCount > 0
      BY <1>6, <1>7
    <3> QED
      BY <1>7, <1>9, <2>1, <2>6, <3>1 DEF Phases
  <2>8. Request.BlockCount > 1 => Latched = {}
    BY <1>6, <1>12
  <2>9. Answering'
    <3>1. "TransferComplete" \in Required' =>
             engine.owes \/ engine.cmd = "none" \/ "TransferComplete" \in Latched
      <4>1. "TransferComplete" \in Required' => Request.BlockCount = 1
        BY <1>6, <1>7, <2>3, <2>6
      <4> QED
        BY <1>12, <1>19, <4>1
    <3>2. "CmdComplete" \notin Required'
      BY <2>3, <2>6
    <3> QED
      BY <1>7, <1>8, <1>9, <1>11, <1>12, <3>1, <3>2 DEF Answering
  <2>10. Dying'
    BY <1>7, <1>8, <1>9, <1>11, <1>12 DEF Dying
  <2>11. Blocks'
    <3>1. engine'.cmd # "none" => engine'.left = BlocksLeft'
      BY <1>7, <1>9, <1>12 DEF BlocksLeft
    <3>2. Latched' \subseteq Required'
      <4>1. CASE Request.BlockCount > 1
        BY <1>11, <2>8, <4>1
      <4>2. CASE Request.BlockCount = 1
        BY <1>7, <1>11, <1>12, <1>19, <4>2
      <4> QED
        BY <1>6, <4>1, <4>2
    <3>3. Request'.BlockCount > 0 => engine.event \in Required'
      BY <2>6
    <3>4. Request'.BlockCount < UShortRange
      BY <1>5, <1>6, <1>7, UShortRangeAssumption
    <3>5. engine'.cmd # "none" =>
             \/ engine'.owes
             \/ /\ Request'.BlockCount <= 1
                /\ "TransferComplete" \in Latched' \cup CurrentEvents'
      <4>1. ASSUME engine.cmd # "none", ~engine.owes
            PROVE  Request.BlockCount = 1 /\ "TransferComplete" \in Latched
        <5>1. Request.BlockCount = 1
          BY <1>6, <1>12, <4>1
        <5> QED
          BY <1>12, <1>19, <4>1, <5>1
      <4> QED
        BY <1>7, <1>9, <1>11, <4>1
    <3>6. Required' \subseteq {"CmdComplete", "TransferComplete"} \cup {engine'.event}
      BY <1>9, <2>6
    <3> QED
      BY <1>7, <1>9, <2>4, <3>1, <3>2, <3>3, <3>4, <3>5, <3>6 DEF Blocks
  <2> QED
    BY <1>11, <1>13, <1>14, <1>16, <2>2, <2>5, <2>7, <2>9, <2>10, <2>11
    DEF PromiseInv, Serving
<1> QED
  BY <1>18, <1>19

\* A reset takes the request away, whether or not the controller obeys.
LEMMA ResetHostPromise ==
    ASSUME Inv, PromiseInv, ResetHost
    PROVE  PromiseInv'
<1>1. /\ OutstandingRequest' = NULL /\ UnalignedReqState' = "Idle"
      /\ port' \in {"error", "reset"}
      /\ UNCHANGED <<isr, dpc, history>>
      /\ (\E type \in {"All", "Cmd", "Dat"} : HwReset(type)) \/ UNCHANGED engine
  BY DEF ResetHost, ForgetRequest, hardware
<1>2. engine \in EngineType /\ engine.left >= 0 /\ (engine.ready => engine.left > 0)
  BY DEF PromiseInv, Resting, Inv, TypeInv, TypeOK, EngineType
<1>3. engine'.left >= 0 /\ (engine'.ready => engine'.left > 0)
  <2>1. CASE UNCHANGED engine
    BY <1>2, <2>1
  <2>2. CASE HwReset("All")
    BY <2>2 DEF HwReset, IdleEngine
  <2>3. CASE HwReset("Cmd")
    <3>1. engine' = [engine EXCEPT !.cmd = "none"]
      BY <2>3 DEF HwReset
    <3> QED
      BY <1>2, <3>1 DEF EngineType
  <2>4. CASE HwReset("Dat")
    <3>1. engine' = [engine EXCEPT !.left = 0, !.ready = FALSE, !.owes = FALSE]
      BY <2>4 DEF HwReset
    <3> QED
      BY <1>2, <3>1 DEF EngineType
  <2> QED
    BY <1>1, <2>1, <2>2, <2>3, <2>4
<1>4. Resting'
  BY <1>1, <1>3 DEF PromiseInv, Resting
<1> QED
  BY <1>1, <1>4, Untrusted DEF PromiseInv, DataPortReady, CompletedOnce, history

LEMMA ClearEventsPromise ==
    ASSUME Inv, PromiseInv, ClearEvents
    PROVE  PromiseInv'
<1>1. port = "reset" /\ UNCHANGED <<extension, isr, dpc, engine, port, history>>
  BY DEF ClearEvents
<1>2. Resting'
  BY <1>1 DEF PromiseInv, Resting, extension
<1> QED
  BY <1>1, <1>2, Untrusted DEF PromiseInv, DataPortReady, CompletedOnce, history

\* Once both halves are idle and everything has been cleared, sdport is free.
LEMMA EnableAllPromise ==
    ASSUME Inv, PromiseInv, EnableAllEvents
    PROVE  PromiseInv'
<1>1. /\ Quiet /\ port' = "idle" /\ enabled' = enabled \cup NormalEvent \cup {"Error"}
      /\ UNCHANGED <<extension, isr, dpc, latches, engine, history>>
  BY DEF EnableAllEvents, EnableInterrupt
<1>2. enabled' = Event
  BY <1>1 DEF Inv, TypeInv, TypeOK, Event
<1>3. /\ isr.pc = "idle" /\ isr.status = {} /\ isr.errors = {}
      /\ dpc.events = {} /\ dpc.errors = {}
      /\ status \cap CommandEvent = {} /\ errors = {}
  BY <1>1 DEF Quiet, PromiseInv, Resting, IdleIsr, IdleDpc
<1>4. /\ isr'.pc = "idle" /\ isr'.status = {} /\ isr'.errors = {}
      /\ dpc'.events = {} /\ dpc'.errors = {}
      /\ status' \cap CommandEvent = {} /\ errors' = {}
  BY <1>1, <1>3 DEF latches
<1>5. Latched' = {} /\ ~ErrorOnItsWay' /\ HandedOn'
  BY <1>4 DEF Latched, ErrorOnItsWay, HandedOn
<1>6. /\ engine'.cmd = "none" /\ engine'.left = 0 /\ ~engine'.owes /\ ~engine'.ready
  BY <1>1 DEF Quiet, PromiseInv, Resting
<1>7. AtRest' /\ RaisedOnce'
  BY <1>5, <1>6 DEF AtRest, RaisedOnce, Silent
<1>8. Resting'
  BY <1>1 DEF PromiseInv, Resting, extension
<1>9. ~Served' /\ ~Failed'
  BY <1>1 DEF Served, Failed, Waiting
<1>10. SuccessMovedEverything' /\ ArgumentMatchesTransfer' /\ DataPortReady' /\ CompletedOnce'
  BY <1>1 DEF PromiseInv, SuccessMovedEverything, ArgumentMatchesTransfer, DataPortReady,
     CompletedOnce, history
<1> QED
  BY <1>2, <1>5, <1>6, <1>7, <1>8, <1>9, <1>10 DEF PromiseInv

LEMMA SdPortPromise ==
    ASSUME Ordinary, Inv, PromiseInv, SdPort
    PROVE  PromiseInv'
<1>1. ~MaskCardInterrupt /\ ~UnmaskCardInterrupt
  BY DEF MaskCardInterrupt, UnmaskCardInterrupt, Ordinary
<1> QED
  BY <1>1, IssueCommandPromise, IssueStartTransferPromise, ResetHostPromise,
     ClearEventsPromise, EnableAllPromise DEF SdPort
-----------------------------------------------------------------------------
(***************************************************************************)
(* The invariant holds, and what it says of an answer.                     *)
(***************************************************************************)
LEMMA StepPromise ==
    ASSUME Ordinary
    PROVE  Inv /\ PromiseInv /\ [Next]_vars => Inv' /\ PromiseInv'
<1> SUFFICES ASSUME Inv, PromiseInv, [Next]_vars PROVE PromiseInv'
  BY StepOwned
<1>1. CASE UNCHANGED vars
  <2>1. /\ UNCHANGED software /\ UNCHANGED <<UnalignedReqState, isr, dpc, status, errors>>
    BY <1>1 DEF vars, software, extension, hardware
  <2>2. Resting' /\ (HandedOn => HandedOn')
    BY <2>1 DEF PromiseInv, Resting, HandedOn, software
  <2>3. Latched' = Latched /\ (ErrorOnItsWay' <=> ErrorOnItsWay)
    BY <2>1 DEF Latched, ErrorOnItsWay
  <2> QED
    BY <2>1, <2>2, <2>3, Unmoved DEF PromiseInv
<1> QED
  BY <1>1, HardwarePromise, SlotInterruptPromise, DpcPromise, SdPortPromise DEF Next

LEMMA PromiseInvariant ==
    ASSUME Ordinary
    PROVE  Spec => [](Inv /\ PromiseInv)
BY InitOwned, InitPromise, StepPromise, PTL DEF Spec

(***************************************************************************)
(* SdPortCompleteRequest is called once for each phase, whatever order the *)
(* events of a request, its errors and its timeout come in.                *)
(***************************************************************************)
THEOREM AnsweredOnce == ASSUME Ordinary PROVE Spec => []CompletedOnce
<1>1. PromiseInv => CompletedOnce
  BY DEF PromiseInv
<1> QED
  BY <1>1, PromiseInvariant, PTL

(***************************************************************************)
(* SdhcReadDataPort and SdhcWriteDataPort find a block, or room for one,   *)
(* whenever sdport asks for a transfer: the buffer ready event was awaited *)
(* and is still true when it is acted on.                                  *)
(***************************************************************************)
THEOREM BufferIsReady == ASSUME Ordinary PROVE Spec => []DataPortReady
<1>1. PromiseInv => DataPortReady
  BY DEF PromiseInv
<1> QED
  BY <1>1, PromiseInvariant, PTL

(***************************************************************************)
(* A data request succeeds only with every byte of its buffer moved, for   *)
(* every length and block size, and whatever the order in which the end of *)
(* the transfer and the last block were seen.                              *)
(***************************************************************************)
THEOREM SuccessIsComplete == ASSUME Ordinary PROVE Spec => []SuccessMovedEverything
<1>1. PromiseInv => SuccessMovedEverything
  BY DEF PromiseInv
<1> QED
  BY <1>1, PromiseInvariant, PTL

(***************************************************************************)
(* The CMD53 argument counts the bytes that the block registers count,     *)
(* from the command until its answer, for every count that its nine bits   *)
(* can tell: less than 512 blocks, or at most 512 bytes.                   *)
(***************************************************************************)
THEOREM ArgumentIsRight == ASSUME Ordinary PROVE Spec => []ArgumentMatchesTransfer
<1>1. PromiseInv => ArgumentMatchesTransfer
  BY DEF PromiseInv
<1> QED
  BY <1>1, PromiseInvariant, PTL

(***************************************************************************)
(* No answer runs ahead of the hardware: the response is there before data *)
(* is asked for, and a success comes after the last block and the end of   *)
(* the transfer or of the card's busy phase.                               *)
(***************************************************************************)
THEOREM AnswersAreEarned == ASSUME Ordinary PROVE Spec => []AnswerIsEarned
<1>1. ASSUME PromiseInv PROVE AnswerIsEarned
  <2>1. port = "reissue" => engine.cmd # "sent"
    BY <1>1 DEF PromiseInv, Served, Serving, Answering, Phases
  <2>2. port = "done" => engine.cmd # "sent" /\ engine.left = 0 /\ ~engine.owes
    BY <1>1 DEF PromiseInv, Settled, AtRest, Silent
  <2> QED
    BY <2>1, <2>2 DEF AnswerIsEarned
<1> QED
  BY <1>1, PromiseInvariant, PTL

(***************************************************************************)
(* No wakeup is lost between the status register, the interrupt routine,   *)
(* the DPC and the issue path: while sdport waits, each event the request  *)
(* still waits for is latched or yet to be raised, or an error is coming.  *)
(***************************************************************************)
THEOREM WakeupsArrive == ASSUME Ordinary PROVE Spec => []NoLostWakeup
<1>1. ASSUME Inv, PromiseInv, port \in Waiting, ~ErrorOnItsWay
      PROVE  Required # {} /\ Required \subseteq OnItsWay
  <2>1. Serving /\ RaisedOnce
    BY <1>1 DEF PromiseInv, Served, Trusted
  <2>2. engine.cmd \in {"sent", "answered"}
    BY <1>1, <2>1 DEF Serving, Dying, Inv, TypeInv, TypeOK
  <2>3. Required # {}
    BY <1>1, <2>1 DEF Serving, Phases, Waiting
  <2>4. OnItsWay = Latched \cup (ToCome \cap CommandEvent)
    BY DEF OnItsWay, Latched
  <2>5. engine.event \in CommandEvent /\ "CmdComplete" \in CommandEvent
        /\ "TransferComplete" \in CommandEvent
    BY <1>1 DEF Inv, TypeInv, TypeOK, CommandEvent
  <2>6. "CmdComplete" \in Required => "CmdComplete" \in OnItsWay
    BY <2>1, <2>2, <2>4, <2>5 DEF Serving, Answering, ToCome
  <2>7. "TransferComplete" \in Required => "TransferComplete" \in OnItsWay
    BY <2>1, <2>2, <2>4, <2>5 DEF Serving, Answering, ToCome
  <2>8. Request.Data /\ engine.event \in Required => engine.event \in OnItsWay
    <3>1. CASE engine.ready
      BY <2>1, <2>4, <3>1 DEF Serving, Blocks
    <3>2. CASE ~engine.ready
      <4>1. ASSUME Request.Data, engine.event \in Required
            PROVE  engine.left > 0
        <5>1. engine.left = Request.BlockCount
          BY <2>1, <2>2, <4>1 DEF Serving, Blocks, BlocksLeft
        <5>2. engine.event # "TransferComplete"
          BY <1>1 DEF Inv, TypeInv, TypeOK
        <5>3. Request.BlockCount # 0
          BY <1>1, <2>1, <2>2, <4>1, <5>2 DEF Serving, Phases, Waiting
        <5> QED
          BY <1>1, <5>1, <5>3 DEF PromiseInv, Resting, Inv, TypeInv, TypeOK
      <4> QED
        BY <2>4, <2>5, <3>2, <4>1 DEF ToCome
    <3> QED
      BY <3>1, <3>2
  <2>9. Required \subseteq {"CmdComplete", "TransferComplete"}
                            \cup (IF Request.Data THEN {engine.event} ELSE {})
    BY <2>1 DEF Serving, Blocks
  <2> QED
    BY <2>3, <2>6, <2>7, <2>8, <2>9
<1>2. Inv /\ PromiseInv => NoLostWakeup
  BY <1>1 DEF NoLostWakeup, Required
<1> QED
  BY <1>2, PromiseInvariant, PTL
-----------------------------------------------------------------------------
(***************************************************************************)
(* The refinement of SdSlot: its phase and the bytes it owes.              *)
(***************************************************************************)
Phase == CASE port \in {"idle", "done"}        -> "free"
           [] port \in Waiting \cup {"reissue"} -> "busy"
           [] port \in {"error", "reset"}      -> "failed"
Owed  == (IF Request.Data THEN 0 .. Request.Length - 1 ELSE {}) \ moved

LEMMA PhaseIs ==
    /\ Settled => Phase = "free"
    /\ Served => Phase = "busy"
    /\ port \in {"error", "reset"} => Phase = "failed"
BY DEF Phase, Settled, Served, Waiting

LEMMA StepsOfPromise ==
    /\ Promise!Issue <=>
         /\ Phase = "free"
         /\ \E n \in {IF c.Data THEN c.Length ELSE 0 : c \in Commands} :
               Owed' = 0 .. n - 1
         /\ Phase' \in {"busy", "failed"}
    /\ Promise!Move <=> Phase = "busy" /\ Owed' \subseteq Owed /\ Phase' = Phase
    /\ Promise!Succeed <=> Phase = "busy" /\ Owed' = {} /\ Phase' = "free"
    /\ Promise!Fail <=> Phase = "busy" /\ Phase' = "failed" /\ Owed' = Owed
    /\ Promise!Recover <=> Phase = "failed" /\ Phase' = "free" /\ Owed' = Owed
    /\ (UNCHANGED Promise!slot) <=> UNCHANGED <<Phase, Owed>>
    /\ Promise!Start <=> Phase = "failed" /\ Owed = {}
BY DEF Phase, Owed, Promise!Issue, Promise!Move, Promise!Succeed, Promise!Fail,
       Promise!Recover, Promise!slot, Promise!Start

LEMMA OwedKept ==
    ASSUME Request'.Data = Request.Data, Request'.Length = Request.Length, moved' = moved
    PROVE  Owed' = Owed
BY DEF Owed

\* What is issued is owed in full.
LEMMA IssueOwes ==
    ASSUME IssueCommand
    PROVE  \E n \in {IF c.Data THEN c.Length ELSE 0 : c \in Commands} : Owed' = 0 .. n - 1
<1> DEFINE sized(c) == IF BuildsTransfer(c) THEN SizeInBlocks(c) ELSE c
           built(c) == IF BuildsTransfer(c) THEN SetArgument(sized(c)) ELSE c
<1>1. PICK c \in Commands :
         IF IsAccepted(c) THEN Request' = Sent(built(c)) ELSE Request' = built(c)
  BY DEF IssueCommand
<1>2. moved' = {}
  BY DEF IssueCommand
<1>3. c \in FreshRequest /\ c \in SDPORT_REQUEST
  BY CommandsAssumption DEF FreshRequest
<1>4. built(c) \in SDPORT_REQUEST /\ built(c).Data = c.Data /\ built(c).Length = c.Length
  <2>1. CASE BuildsTransfer(c)
    <3> DEFINE b == SetArgument(SizeInBlocks(c))
    <3>1. built(c) = b /\ c.Data
      BY <2>1 DEF BuildsTransfer
    <3>2. b \in SDPORT_REQUEST /\ b.Data /\ b.Length = c.Length
      BY <1>3, <3>1, BuiltFields
    <3> HIDE DEF b
    <3>3. b.Data = c.Data
      BY <1>3, <3>1, <3>2 DEF SDPORT_REQUEST
    <3> QED
      BY <3>1, <3>2, <3>3
  <2>2. CASE ~BuildsTransfer(c)
    BY <1>3, <2>2
  <2> QED
    BY <2>1, <2>2
<1> HIDE DEF built
<1>5. Request'.Data = c.Data /\ Request'.Length = c.Length
  BY <1>1, <1>4, SentFields
<1> DEFINE n == IF c.Data THEN c.Length ELSE 0
<1>6. Owed' = 0 .. n - 1
  <2>1. Owed' = IF c.Data THEN 0 .. c.Length - 1 ELSE {}
    BY <1>2, <1>5 DEF Owed
  <2> QED
    BY <2>1
<1> QED
  BY <1>6

\* Every way out of the DPC answers, or leaves the slot as it was.
LEMMA DpcKeepsPromise ==
    ASSUME Ordinary, Inv, PromiseInv, Inv', PromiseInv', RequestDpc
    PROVE  Promise!Step \/ UNCHANGED Promise!slot
<1>1. CASE DpcNothing \/ DpcNotIssued
  <2>1. UNCHANGED <<Request, port, moved>>
    BY <1>1 DEF DpcNothing, DpcNotIssued, extension, history
  <2> QED
    BY <2>1, OwedKept, StepsOfPromise DEF Phase
<1>2. CASE DpcError
  <2>1. /\ Served /\ port \in Waiting
        /\ CompleteRequest(Request, ConvertErrorToStatus(dpc.errors))
        /\ dpc.errors # {} /\ moved' = moved
        /\ Request' = [Request EXCEPT !.RequiredEvents = {}]
    BY <1>2, WorkIsAwaited DEF DpcError, HasWork
  <2>2. port' = "error"
    BY <2>1, ErrorIsFailure DEF CompleteRequest, PortCompleteRequest
  <2>3. Request'.Data = Request.Data /\ Request'.Length = Request.Length
    BY <2>1 DEF Inv, TypeInv, TypeOK, SDPORT_REQUEST
  <2>4. Phase = "busy" /\ Phase' = "failed"
    BY <2>1, <2>2, PhaseIs DEF Phase, Waiting
  <2> QED
    BY <2>1, <2>3, <2>4, OwedKept, StepsOfPromise DEF Promise!Step
<1>3. CASE DpcStillWaiting
  <2>1. Request' = Arrived /\ UNCHANGED <<port, moved>>
    BY <1>3 DEF DpcStillWaiting, history
  <2>2. Request'.Data = Request.Data /\ Request'.Length = Request.Length
    BY <2>1 DEF Inv, TypeInv, TypeOK, Arrived, SDPORT_REQUEST
  <2> QED
    BY <2>1, <2>2, OwedKept, StepsOfPromise DEF Phase
<1>4. CASE DpcComplete
  <2>1. /\ Served /\ port \in Waiting /\ moved' = moved /\ Request' = Finished
        /\ CompleteRequest(Finished, Finished.Status)
    BY <1>4, WorkIsAwaited DEF DpcComplete, DpcAllArrived
  <2>2. Request'.Data = Request.Data /\ Request'.Length = Request.Length
    <3>1. Request \in SDPORT_REQUEST /\ Arrived \in SDPORT_REQUEST
      BY FinishedType DEF Inv, TypeInv, TypeOK
    <3>2. Arrived.Data = Request.Data /\ Arrived.Length = Request.Length
      BY <3>1 DEF Arrived, SDPORT_REQUEST
    <3> QED
      BY <2>1, <3>1, <3>2 DEF Finished, SDPORT_REQUEST
  <2>3. Finished.Status \in {"SUCCESS", "MORE_PROCESSING_REQUIRED"}
    BY FinishedFields DEF Inv, TypeInv
  <2>4. port' \in {"reissue", "done"}
    BY <2>1, <2>3 DEF CompleteRequest, PortCompleteRequest
  <2>5. Phase = "busy" /\ Owed' = Owed
    BY <2>1, <2>2, PhaseIs, OwedKept
  <2>6. CASE port' = "reissue"
    <3>1. Phase' = "busy"
      BY <2>6 DEF Phase, Waiting
    <3> QED
      BY <2>5, <3>1, StepsOfPromise
  <2>7. CASE port' = "done"
    <3>1. Phase' = "free"
      BY <2>7 DEF Phase, Waiting
    <3>2. Owed' = {}
      BY <2>7 DEF PromiseInv, SuccessMovedEverything, Owed
    <3> QED
      BY <2>5, <3>1, <3>2, StepsOfPromise DEF Promise!Step
  <2> QED
    BY <2>4, <2>6, <2>7
<1>5. UnalignedReqState = "Idle"
  BY DEF PromiseInv, Resting
<1>6. ~DpcSendTrailing /\ ~DpcMoveTrailing
  BY <1>5 DEF DpcSendTrailing, DpcMoveTrailing
<1> QED
  BY <1>1, <1>2, <1>3, <1>4, <1>6 DEF RequestDpc

LEMMA SdPortKeepsPromise ==
    ASSUME Ordinary, Inv, PromiseInv, Inv', PromiseInv', SdPort
    PROVE  Promise!Step \/ UNCHANGED Promise!slot
<1>1. CASE IssueCommand
  <2>1. port \in {"idle", "done"} /\ port' \in {"command", "error"}
    BY <1>1 DEF IssueCommand
  <2>2. Phase = "free" /\ Phase' \in {"busy", "failed"}
    BY <2>1 DEF Phase, Waiting
  <2> QED
    BY <1>1, <2>2, IssueOwes, StepsOfPromise DEF Promise!Step
<1>2. CASE IssueStartTransfer
  <2>1. /\ port = "reissue" /\ port' \in {"done", "transfer"}
        /\ Request' = PioStarted(Request, CurrentEvents)
        /\ MoveBlock(Request)
    BY <1>2 DEF IssueStartTransfer
  <2>2. Request'.Data = Request.Data /\ Request'.Length = Request.Length
    <3>1. /\ Request \in SDPORT_REQUEST /\ Request.BlockCount > 0
          /\ Request.BlockCount < UShortRange /\ Request.RequiredEvents = {}
      BY <2>1 DEF Inv, TypeInv, TypeOK, PromiseInv, Served, Serving, Phases, Blocks,
         Required
    <3> QED
      BY <2>1, <3>1, PioFields
  <2>3. moved \subseteq moved'
    BY <2>1 DEF MoveBlock
  <2>4. Owed' \subseteq Owed
    BY <2>2, <2>3 DEF Owed
  <2>5. Phase = "busy"
    BY <2>1 DEF Phase, Waiting
  <2>6. CASE port' = "done"
    <3>1. Phase' = "free"
      BY <2>6 DEF Phase, Waiting
    <3>2. Owed' = {}
      BY <2>6 DEF PromiseInv, SuccessMovedEverything, Owed
    <3> QED
      BY <2>5, <3>1, <3>2, StepsOfPromise DEF Promise!Step
  <2>7. CASE port' = "transfer"
    <3>1. Phase' = "busy"
      BY <2>7 DEF Phase, Waiting
    <3> QED
      BY <2>4, <2>5, <3>1, StepsOfPromise DEF Promise!Step
  <2> QED
    BY <2>1, <2>6, <2>7
<1>3. CASE ResetHost
  <2>1. /\ port \in {"error", "reset"} \cup Waiting /\ port' \in {"error", "reset"}
        /\ UNCHANGED <<Request, moved>>
    BY <1>3 DEF ResetHost, history
  <2>2. Owed' = Owed /\ Phase' = "failed"
    BY <2>1, OwedKept DEF Phase, Waiting
  <2>3. Phase \in {"busy", "failed"}
    BY <2>1 DEF Phase, Waiting
  <2> QED
    BY <2>2, <2>3, StepsOfPromise DEF Promise!Step
<1>4. CASE ClearEvents
  <2>1. UNCHANGED <<Request, port, moved>>
    BY <1>4 DEF ClearEvents, extension, history
  <2> QED
    BY <2>1, OwedKept, StepsOfPromise DEF Phase
<1>5. CASE EnableAllEvents
  <2>1. port = "reset" /\ port' = "idle" /\ UNCHANGED <<Request, moved>>
    BY <1>5 DEF EnableAllEvents, extension, history
  <2>2. Phase = "failed" /\ Phase' = "free" /\ Owed' = Owed
    BY <2>1, OwedKept DEF Phase, Waiting
  <2> QED
    BY <2>2, StepsOfPromise DEF Promise!Step
<1>6. ~MaskCardInterrupt /\ ~UnmaskCardInterrupt
  BY DEF MaskCardInterrupt, UnmaskCardInterrupt, Ordinary
<1> QED
  BY <1>1, <1>2, <1>3, <1>4, <1>5, <1>6 DEF SdPort

LEMMA StepKeepsPromise ==
    ASSUME Ordinary, Inv, PromiseInv, Inv', PromiseInv', [Next]_vars
    PROVE  [Promise!Step]_Promise!slot
<1>1. CASE UNCHANGED <<Request, port, moved>>
  BY <1>1, OwedKept, StepsOfPromise DEF Phase
<1>2. CASE UNCHANGED vars
  BY <1>1, <1>2 DEF vars, extension, history
<1>3. CASE Hardware
  BY <1>1, <1>3 DEF Hardware, HwCommandComplete, HwBufferReady, HwTransferComplete,
     HwError, HwCardEvent, extension, history
<1>4. CASE SlotInterrupt
  BY <1>1, <1>4 DEF SlotInterrupt, IsrReadStatus, IsrReadErrors, IsrAckErrors,
     IsrAckEvents, extension, history
<1> QED
  BY <1>2, <1>3, <1>4, DpcKeepsPromise, SdPortKeepsPromise DEF Next

(***************************************************************************)
(* The miniport implements SdSlot: a request that has been issued is moved *)
(* byte by byte, answered once, and succeeds only in the step that moves   *)
(* its last byte or later; a failed slot is recovered before the next.     *)
(***************************************************************************)
THEOREM PromiseKept == ASSUME Ordinary PROVE Spec => KeepsPromise
<1>1. Init => Promise!Start
  <2> SUFFICES ASSUME Init PROVE Phase = "failed" /\ Owed = {}
    BY StepsOfPromise
  <2> QED
    BY DEF Init, Phase, Owed, ZeroRequest, Waiting
<1>2. Inv /\ PromiseInv /\ [Next]_vars /\ (Inv /\ PromiseInv)'
        => [Promise!Step]_Promise!slot
  BY StepKeepsPromise
<1> QED
  BY <1>1, <1>2, PromiseInvariant, PTL DEF Spec, KeepsPromise, Promise!Slot
=============================================================================
