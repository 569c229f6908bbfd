---------------------------- MODULE SdhcRequest ----------------------------
(***************************************************************************)
(* The data part of the bcm2836sdhc miniport: the events and errors of the *)
(* Arasan SD host controller, the fields of an SDPORT_REQUEST the driver   *)
(* reads and writes, and the pure functions the request engine applies to  *)
(* them.  Nothing here has state; SdhcMiniport is the engine.              *)
(*                                                                         *)
(* A request is a record.  Register images, responses and traces are not   *)
(* in it; a buffer pointer is the offset, from the start of the caller's   *)
(* buffer, of the next byte to move.                                       *)
(***************************************************************************)
EXTENDS Integers

CONSTANT UShortRange      \* number of values of a USHORT: 65536 in the code

MaxBlockSize == 2048      \* the largest block size the driver accepts

\* A block size fits in a USHORT.
ASSUME UShortRangeAssumption == UShortRange \in Nat /\ UShortRange > MaxBlockSize

UShort(n) == n % UShortRange

\* The fields of SD_RW_EXTENDED_ARGUMENT (sddef.h): 9 bits count, 17 address.
CountField(n)   == n % 512
AddressField(n) == n % 131072

(***************************************************************************)
(* Interrupt status bits.  "Error" is the summary bit the hardware derives *)
(* from the error half of the register.                                    *)
(***************************************************************************)
CommandEvent == {"CmdComplete", "TransferComplete", "WriteReady", "ReadReady"}
CardEvent    == {"CardDetect", "CardInterrupt"}
NormalEvent  == CommandEvent \cup CardEvent
Event        == NormalEvent \cup {"Error"}

ErrorBit == {"CmdTimeout", "CmdCrc", "CmdEndBit", "CmdIndex",
             "DataTimeout", "DataCrc", "DataEndBit", "BusPower",
             "AutoCmd12", "Adma", "BadDataSpaceAccess"}

(***************************************************************************)
(* SdhcConvertErrorToStatus.  The tests are made in this order, the first  *)
(* class of error present decides.                                         *)
(***************************************************************************)
ConvertErrorToStatus(errs) ==
    LET Any(bits) == errs \cap bits # {} IN
    IF errs = {}                               THEN "SUCCESS"
    ELSE IF Any({"CmdTimeout", "DataTimeout"}) THEN "IO_TIMEOUT"
    ELSE IF Any({"CmdCrc", "DataCrc"})         THEN "CRC_ERROR"
    ELSE IF Any({"CmdEndBit", "DataEndBit"})   THEN "DEVICE_DATA_ERROR"
    ELSE IF Any({"CmdIndex"})                  THEN "DEVICE_PROTOCOL_ERROR"
    ELSE IF Any({"BusPower"})                  THEN "DEVICE_POWER_FAILURE"
    ELSE "IO_DEVICE_ERROR"

(***************************************************************************)
(* Requests.  Data is TransferType # None; Response is what the response   *)
(* type decides: no busy phase, a busy phase (R1B, R5B), or a type the     *)
(* driver does not know.                                                   *)
(***************************************************************************)
RequestStatus == {"PENDING", "SUCCESS", "MORE_PROCESSING_REQUIRED"}

SDPORT_REQUEST ==
           [Index : {"CMD53", "OTHER"}, Data : BOOLEAN,
            Response : {"plain", "busy", "invalid"}, Method : {"Pio", "SgDma"},
            Direction : {"Read", "Write"},
            Length : Nat, BlockSize : Nat, BlockCount : Nat, DataBuffer : Nat,
            OpCode : BOOLEAN, Address : Nat, BlockMode : BOOLEAN, Count : Nat,
            RequiredEvents : SUBSET CommandEvent, Status : RequestStatus]

\* What sdport may ask for.  A data command has data, and no more whole blocks
\* than MaximumBlockCount, which the driver declares to be the largest USHORT;
\* its block size is the one SdhcSetTransferMode asserts.  Nothing has started.
FreshRequest == {r \in SDPORT_REQUEST : /\ r.BlockSize \in 1 .. MaxBlockSize
                                        /\ r.Data => r.Length > 0
                                        /\ r.Length \div r.BlockSize < UShortRange
                                        /\ r.BlockCount = 0
                                        /\ r.DataBuffer = 0
                                        /\ r.RequiredEvents = {}
                                        /\ r.Status = "PENDING"}

ReadyEvent(r) == IF r.Direction = "Read" THEN "ReadReady" ELSE "WriteReady"

\* Mutant: a short block keeps the full block size.
SizeKeepingBlockSize(r) ==
    LET count == UShort(r.Length \div r.BlockSize)
    IN  [r EXCEPT !.BlockCount = IF count = 0 THEN 1 ELSE count]

(***************************************************************************)
(* SdhcSetTransferMode: whole blocks, or one short block; then the CMD53   *)
(* argument.  Both counts are USHORTs; the argument has fewer bits.        *)
(***************************************************************************)
SizeInBlocks(r) ==
    LET count == UShort(r.Length \div r.BlockSize)
    IN  IF count = 0
        THEN [r EXCEPT !.BlockCount = 1, !.BlockSize = UShort(r.Length)]
        ELSE [r EXCEPT !.BlockCount = count]

\* Mutant: a block mode argument counts bytes.
SetArgumentBytes(r) ==
    IF r.Index # "CMD53" THEN r
    ELSE [r EXCEPT !.BlockMode = r.BlockCount > 1, !.Count = CountField(r.Length)]

SetArgument(r) ==
    IF r.Index # "CMD53" THEN r
    ELSE IF r.BlockCount > 1
    THEN [r EXCEPT !.BlockMode = TRUE, !.Count = CountField(r.BlockCount)]
    ELSE [r EXCEPT !.BlockMode = FALSE, !.Count = CountField(r.Length)]

\* SdhcStartNonBlockSizeAlignedRequest: only a CMD53 longer than its whole
\* blocks has trailing bytes to send in a command of their own.
HasTrailingBytes(r) ==
    r.Index = "CMD53" /\ r.Length > r.BlockCount * r.BlockSize

\* Mutant: the internal request starts at the caller's buffer.
InternalRequestAtStart(r) ==
    LET rest == r.Length % r.BlockSize
    IN  [r EXCEPT !.Length = rest, !.BlockCount = 1, !.BlockSize = UShort(rest)]

\* SdhcPrepareInternalRequest: one block with the rest of the data.
InternalRequest(r) ==
    LET rest == r.Length % r.BlockSize
        done == r.BlockSize * r.BlockCount
    IN  [r EXCEPT !.Length = rest, !.BlockCount = 1, !.BlockSize = UShort(rest),
                  !.DataBuffer = @ + done,
                  !.Address = IF r.OpCode THEN AddressField(@ + done) ELSE @]

\* SdhcBuildTransfer refuses DMA and SdhcSetTransferMode oversized blocks;
\* SdhcSendCommand then refuses the response types it does not know.
BuildsTransfer(r) == r.Data /\ r.Method = "Pio" /\ r.BlockSize <= MaxBlockSize
IsAccepted(r)     == (r.Data => BuildsTransfer(r)) /\ r.Response # "invalid"

\* Mutants: a data command does not wait for the buffer; a busy response is
\* not waited for.
EventsWithoutReady(r) ==
    {"CmdComplete"} \cup (IF r.Response = "busy" THEN {"TransferComplete"} ELSE {})
EventsWithoutBusy(r) ==
    {"CmdComplete"} \cup (IF r.Data THEN {ReadyEvent(r)} ELSE {})

\* The events SdhcSendCommand makes the request wait for.
EventsToWaitFor(r) ==
    {"CmdComplete"}
      \cup (IF r.Response = "busy" THEN {"TransferComplete"} ELSE {})
      \cup (IF r.Data THEN {ReadyEvent(r)} ELSE {})

\* Mutant: the last block of a data command does not complete it.
IsCompletedWithoutData(r) == ~r.Data

\* SdhcCompleteRequest: a data command is done when no block is left.
IsCommandCompleted(r) == r.Data => r.BlockCount = 0
=============================================================================
