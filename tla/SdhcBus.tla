------------------------------- MODULE SdhcBus -------------------------------
(***************************************************************************)
(* The bus operations of bcm2836sdhc: what sdport asks of the host between *)
(* commands (SdhcSlotIssueBusOperation), on the three control registers.   *)
(*                                                                         *)
(* sdport issues one operation at a time.  Between the register accesses   *)
(* of one, the host finishes a reset or its clock becomes stable, or never *)
(* does, and the interrupt routine acknowledges an error, which writes     *)
(* CONTROL_2.  A register is a set of bits, beside the divisor of CONTROL_1*)
(* and the mode of CONTROL_2; the data timeout counter is one bit, MAX.    *)
(*                                                                         *)
(* The request that a reset drops is in SdhcMiniport.  sdport is external: *)
(* it may ask for every operation in any order.                            *)
(***************************************************************************)
EXTENDS Integers

CONSTANTS
    BaseClockFrequencyKhz, \* of Capabilities, 250000
    SpecVersion,           \* of the host; the Arasan reports SDHC_SPEC_VERSION_3
    Frequencies,           \* in kHz, that sdport asks for
    ResetTypes, Widths, Speeds,  \* that sdport asks for
    CrashdumpMode,
    Retries                \* bound: reads of a register that is polled, 99 in the code

SDHC_SPEC_VERSION_3 == 2
SDHC_MAX_CLOCK_DIVISOR == 256
SDHC_MAX_CLOCK_DIVISOR_SPEC_3 == 2046

MaxDivider ==
    IF SpecVersion > SDHC_SPEC_VERSION_3 THEN SDHC_MAX_CLOCK_DIVISOR
                                         ELSE SDHC_MAX_CLOCK_DIVISOR_SPEC_3

\* The frequencies are ones the divider reaches: the code divides by zero for
\* 0, and runs the card too fast below the lowest.
ASSUME BusAssumption ==
    /\ BaseClockFrequencyKhz \in Nat \ {0} /\ SpecVersion \in Nat
    /\ Frequencies \subseteq Nat \ {0}
    /\ \A f \in Frequencies : BaseClockFrequencyKhz <= f * MaxDivider
    /\ ResetTypes \subseteq {"RESET_ALL", "RESET_CMD", "RESET_DAT"}
    /\ Widths \subseteq {1, 4, 8}
    /\ CrashdumpMode \in BOOLEAN /\ Retries \in Nat \ {0}

VARIABLES
    control0,  \* SDHC_CONTROL_0: bus width and speed
    control1,  \* SDHC_CONTROL_1: clock, timeout, resets
    control2,  \* SDHC_CONTROL_2: UHS mode and tuning
    stable,    \* SDHC_CC_CLOCK_STABLE
    signals,   \* SDHC_INTERRUPT_ERROR_SIGNAL_ENABLE has all events
    events,    \* SDHC_INTERRUPT_ERROR_STATUS_ENABLE has the error events
    op,        \* the operation under way
    step,      \* and how far it has come
    read1, read2,  \* CONTROL_1 and CONTROL_2 as it has read them
    left,      \* reads before it gives up
    Status,    \* of the last operation
    asked,     \* history: the last frequency of SdhcSetClock, 0 before the first
    clocked,   \* history: that SdhcSetClock has succeeded
    resetLate  \* history: a reset has taken longer than the code waits

registers == <<control0, control1, control2, stable, signals, events>>
locals == <<op, step, read1, read2, left, Status>>
history == <<asked, clocked, resetLate>>
vars == <<registers, locals, history>>

ResetBits == {"RESET_ALL", "RESET_CMD", "RESET_DAT"}
ClockBits == {"CLOCK_ENABLE", "INTERNAL_CLOCK_ENABLE"}
Control1Bits == ResetBits \union ClockBits \union {"MAX_DATA_TIMEOUT"}
HostModes == {"SDR12", "SDR25", "SDR50"}
Steps == {"idle", "resetPoll", "resetWrite", "divide", "clockPoll", "clockEnable",
          "mode", "modeClock", "tune"}
Operations == {"none", "ResetHost", "SetClock", "SetUhsMode", "ExecuteTuning", "other"}

Control1 == [bits : SUBSET Control1Bits, divisor : Nat]
Control2 == [mode : HostModes, tuning : BOOLEAN]
Zero1 == [bits |-> {}, divisor |-> 0]
Zero2 == [mode |-> "SDR12", tuning |-> FALSE]

TypeOK ==
    /\ control0 \in SUBSET {"4BIT", "8BIT", "HIGH_SPEED"}
    /\ control1 \in Control1 /\ read1 \in Control1
    /\ control2 \in Control2 /\ read2 \in Control2
    /\ stable \in BOOLEAN /\ signals \in BOOLEAN /\ events \in BOOLEAN
    /\ op \in [type : Operations, bit : ResetBits \union {"none"}, mode : HostModes]
    /\ step \in Steps /\ left \in 0..Retries
    /\ Status \in {"SUCCESS", "TIMEOUT", "INVALID_PARAMETER"}
    /\ asked \in Frequencies \union {0} /\ clocked \in BOOLEAN /\ resetLate \in BOOLEAN

Idle == [type |-> "none", bit |-> "none", mode |-> "SDR12"]

-----------------------------------------------------------------------------
(* The divisor (SdhcCalcClockFrequency)                                     *)

\* Hosts of version 3.0: the clock is the base clock over twice the divisor.
TenBitDivisor(f) ==
    LET halved == (BaseClockFrequencyKhz \div f) \div 2
        up == IF f < BaseClockFrequencyKhz /\ f * 2 * halved # BaseClockFrequencyKhz
              THEN halved + 1 ELSE halved
    IN  IF up > SDHC_MAX_CLOCK_DIVISOR_SPEC_3 \div 2
        THEN SDHC_MAX_CLOCK_DIVISOR_SPEC_3 \div 2 ELSE up

\* The register holds the low eight bits and, apart from them, the next two.
TenBitField(d) == (d % 256) + 256 * ((d \div 256) % 4)

\* Newer ones: the first power of two that brings the clock, in whole kHz,
\* down to f, or the last.
PowersOfTwo == {1, 2, 4, 8, 16, 32, 64, 128, 256}
SlowEnough(p, f) == p = SDHC_MAX_CLOCK_DIVISOR \/ BaseClockFrequencyKhz \div p <= f
ShiftedDivisor(f) ==
    (CHOOSE p \in PowersOfTwo :
        SlowEnough(p, f) /\ \A q \in PowersOfTwo : SlowEnough(q, f) => p <= q) \div 2

CalcClockFrequency(f) ==
    IF SpecVersion > SDHC_SPEC_VERSION_3 THEN ShiftedDivisor(f)
                                         ELSE TenBitField(TenBitDivisor(f))

-----------------------------------------------------------------------------
(* Operations                                                               *)

\* SdhcSlotInitialize: no event is enabled, every event may be signalled.  The
\* firmware has left the clock off or running.
Init ==
    /\ control0 \in {{}, {"4BIT"}} /\ control2 = Zero2
    /\ \/ control1 = Zero1 /\ stable = FALSE
       \/ control1 = [bits |-> ClockBits, divisor |-> 1] /\ stable = TRUE
    /\ signals = TRUE /\ events = FALSE
    /\ op = Idle /\ step = "idle" /\ read1 = Zero1 /\ read2 = Zero2
    /\ left = 0 /\ Status = "SUCCESS"
    /\ asked = 0 /\ clocked = FALSE /\ resetLate = FALSE

\* The clock loses its lock when it is stopped or divided differently.
WriteControl1(value) ==
    /\ control1' = value
    /\ stable' = /\ stable /\ "INTERNAL_CLOCK_ENABLE" \in control1.bits \intersect value.bits
                 /\ value.divisor = control1.divisor

With(reg, bits) == [reg EXCEPT !.bits = @ \union bits]
Without(reg, bits) == [reg EXCEPT !.bits = @ \ bits]

\* What an operation has read is forgotten with it.
Return(status) ==
    /\ op' = Idle /\ step' = "idle" /\ Status' = status
    /\ read1' = Zero1 /\ read2' = Zero2 /\ left' = 0

\* Mutants: the register is read after the bit is set; one read too many.
ResetHostReadsBack(bit) ==
    /\ op = Idle
    /\ op' = [Idle EXCEPT !.type = "ResetHost", !.bit = bit]
    /\ WriteControl1(With(control1, {bit}))
    /\ read1' = control1'
    /\ left' = Retries /\ step' = "resetPoll"
    /\ UNCHANGED <<control0, control2, signals, events, read2, Status, history>>

ResetHostOneMore(bit) ==
    /\ op = Idle
    /\ op' = [Idle EXCEPT !.type = "ResetHost", !.bit = bit]
    /\ read1' = control1
    /\ WriteControl1(With(control1, {bit}))
    /\ left' = Retries + 1 /\ step' = "resetPoll"
    /\ UNCHANGED <<control0, control2, signals, events, read2, Status, history>>

ResetHost(bit) ==
    /\ op = Idle
    /\ op' = [Idle EXCEPT !.type = "ResetHost", !.bit = bit]
    /\ read1' = control1
    /\ WriteControl1(With(control1, {bit}))
    /\ left' = Retries /\ step' = "resetPoll"
    /\ UNCHANGED <<control0, control2, signals, events, read2, Status, history>>

ResetPoll ==
    /\ step = "resetPoll"
    /\ IF left = 0
       THEN /\ Return("TIMEOUT") /\ resetLate' = TRUE
            /\ UNCHANGED <<registers, asked, clocked>>
       ELSE /\ left' = left - 1
            /\ step' = IF op.bit \in control1.bits THEN "resetPoll" ELSE "resetWrite"
            /\ UNCHANGED <<registers, op, read1, read2, Status, history>>

\* Mutant: only the timeout is set again.
ResetWriteForgets ==
    /\ step = "resetWrite"
    /\ WriteControl1(With(control1, {"MAX_DATA_TIMEOUT"}))
    /\ events' = FALSE /\ signals' = TRUE
    /\ Return("SUCCESS")
    /\ UNCHANGED <<control0, control2, history>>

\* What CONTROL_1 held before the reset comes back, with the longest timeout;
\* every event is masked.
ResetWrite ==
    /\ step = "resetWrite"
    /\ WriteControl1(With(read1, {"MAX_DATA_TIMEOUT"}))
    /\ events' = FALSE /\ signals' = TRUE
    /\ Return("SUCCESS")
    /\ UNCHANGED <<control0, control2, history>>

\* Mutant: only the clock to the card is stopped.
SetClockRunning(frequency) ==
    /\ op = Idle
    /\ op' = [Idle EXCEPT !.type = "SetClock"]
    /\ read1' = Without(control1, {"CLOCK_ENABLE"})
    /\ WriteControl1(read1')
    /\ asked' = frequency /\ clocked' = FALSE
    /\ step' = "divide"
    /\ UNCHANGED <<control0, control2, signals, events, read2, left, Status, resetLate>>

SetClock(frequency) ==
    /\ op = Idle
    /\ op' = [Idle EXCEPT !.type = "SetClock"]
    /\ read1' = Without(control1, ClockBits)
    /\ WriteControl1(read1')
    /\ asked' = frequency /\ clocked' = FALSE
    /\ step' = "divide"
    /\ UNCHANGED <<control0, control2, signals, events, read2, left, Status, resetLate>>

Divide ==
    /\ step = "divide"
    /\ WriteControl1(With([read1 EXCEPT !.divisor = CalcClockFrequency(asked)],
                          {"INTERNAL_CLOCK_ENABLE"}))
    /\ left' = Retries /\ step' = "clockPoll" /\ read1' = Zero1
    /\ UNCHANGED <<control0, control2, signals, events, op, read2, Status, history>>

\* Mutant: the reads are not counted.
ClockPollForever ==
    /\ step = "clockPoll"
    /\ \/ stable /\ step' = "clockEnable" /\ left' = 0 /\ read1' = control1
       \/ ~stable /\ UNCHANGED <<step, left, read1>>
    /\ UNCHANGED <<registers, op, read2, Status, history>>

ClockPoll ==
    /\ step = "clockPoll"
    /\ IF left = 0
       THEN Return("TIMEOUT")
       ELSE /\ \/ /\ stable /\ read1' = control1
                  /\ step' = "clockEnable" /\ left' = 0
               \/ ~stable /\ left' = left - 1 /\ UNCHANGED <<step, read1>>
            /\ UNCHANGED <<op, read2, Status>>
    /\ UNCHANGED <<registers, history>>

ClockEnable ==
    /\ step = "clockEnable"
    /\ WriteControl1(With(read1, {"CLOCK_ENABLE"}))
    /\ clocked' = TRUE
    /\ Return("SUCCESS")
    /\ UNCHANGED <<control0, control2, signals, events, asked, resetLate>>

SetBusWidth(width) ==
    /\ op = Idle
    /\ control0' = (control0 \ {"4BIT", "8BIT"})
                     \union {b \in {"4BIT", "8BIT"} : width = (IF b = "4BIT" THEN 4 ELSE 8)}
    /\ Return("SUCCESS")
    /\ UNCHANGED <<control1, control2, stable, signals, events, history>>

SetHighSpeed(speed) ==
    /\ op = Idle /\ speed \in {"Normal", "High"}
    /\ control0' = IF speed = "High" THEN control0 \union {"HIGH_SPEED"}
                                     ELSE control0 \ {"HIGH_SPEED"}
    /\ Return("SUCCESS")
    /\ UNCHANGED <<control1, control2, stable, signals, events, history>>

\* The host has no mode of its own for the two fastest; the eMMC speeds, which
\* an assertion excludes, are 0, that is SDR12.
GetHwUhsMode(speed) ==
    CASE speed = "SDR25" -> "SDR25"
      [] speed \in {"SDR50", "DDR50", "SDR104"} -> "SDR50"
      [] OTHER -> "SDR12"

SetUhsMode(speed) ==
    /\ op = Idle /\ speed \notin {"Normal", "High"}
    /\ IF control2.mode = GetHwUhsMode(speed)
       THEN Return("SUCCESS") /\ UNCHANGED <<control1, stable>>
       ELSE /\ op' = [Idle EXCEPT !.type = "SetUhsMode", !.mode = GetHwUhsMode(speed)]
            /\ read2' = control2
            /\ WriteControl1(Without(control1, {"CLOCK_ENABLE"}))
            /\ step' = "mode"
            /\ UNCHANGED <<read1, left, Status>>
    /\ UNCHANGED <<control0, control2, signals, events, history>>

UhsMode ==
    /\ step = "mode"
    /\ control2' = [read2 EXCEPT !.mode = op.mode]
    /\ step' = "modeClock" /\ read2' = Zero2
    /\ UNCHANGED <<control0, control1, stable, signals, events, op, read1, left, Status,
                   history>>

UhsModeClock ==
    /\ step = "modeClock"
    /\ WriteControl1(With(control1, {"CLOCK_ENABLE"}))
    /\ Return("SUCCESS")
    /\ UNCHANGED <<control0, control2, signals, events, history>>

SetSpeed(speed) == SetHighSpeed(speed) \/ SetUhsMode(speed)

\* The tuning command is put together and never issued.
ExecuteTuning ==
    /\ op = Idle
    /\ op' = [Idle EXCEPT !.type = "ExecuteTuning"]
    /\ read2' = control2
    /\ step' = "tune"
    /\ UNCHANGED <<registers, read1, left, Status, history>>

Tune ==
    /\ step = "tune"
    /\ control2' = IF read2.tuning THEN control2 ELSE [read2 EXCEPT !.tuning = TRUE]
    /\ Return("SUCCESS")
    /\ UNCHANGED <<control0, control1, stable, signals, events, history>>

\* What the host does not support is accepted; driver strength and type, and
\* what the switch does not know, are refused.
Ignore(status) == op = Idle /\ Return(status) /\ UNCHANGED <<registers, history>>
SetVoltage == Ignore("SUCCESS")
SetSignaling == Ignore("SUCCESS")
SetPresetValue == Ignore("SUCCESS")
OtherOperation == Ignore("INVALID_PARAMETER")

-----------------------------------------------------------------------------
(* Between the operations, and under them                                   *)

\* Commands enable events, except in a crash dump.
EnableInterrupt ==
    /\ op = Idle /\ ~CrashdumpMode
    /\ events' = TRUE
    /\ UNCHANGED <<control0, control1, control2, stable, signals, locals, history>>

\* The interrupt routine clears an error with writes of 0xFFFF and 0 to the
\* lower half of CONTROL_2, as 32 bits: the upper half becomes 0.
AcknowledgeError ==
    /\ events /\ signals
    /\ control2' = Zero2
    /\ UNCHANGED <<control0, control1, stable, signals, events, locals, history>>

HostStable ==
    /\ "INTERNAL_CLOCK_ENABLE" \in control1.bits /\ ~stable
    /\ stable' = TRUE
    /\ UNCHANGED <<control0, control1, control2, signals, events, locals, history>>

HostResets(bit) ==
    /\ bit \in control1.bits
    /\ IF bit = "RESET_ALL"
       THEN /\ control0' = {} /\ control1' = Zero1 /\ control2' = Zero2
            /\ stable' = FALSE /\ signals' = FALSE /\ events' = FALSE
       ELSE /\ control1' = Without(control1, {bit})
            /\ UNCHANGED <<control0, control2, stable, signals, events>>
    /\ UNCHANGED <<locals, history>>

SlotIssueBusOperation ==
    \/ \E bit \in ResetTypes : ResetHost(bit)
    \/ \E frequency \in Frequencies : SetClock(frequency)
    \/ \E width \in Widths : SetBusWidth(width)
    \/ \E speed \in Speeds : SetSpeed(speed)
    \/ ExecuteTuning
    \/ SetVoltage \/ SetSignaling \/ SetPresetValue \/ OtherOperation

OperationStep ==
    \/ ResetPoll \/ ResetWrite
    \/ Divide \/ ClockPoll \/ ClockEnable
    \/ UhsMode \/ UhsModeClock
    \/ Tune

Host == HostStable \/ \E bit \in ResetBits : HostResets(bit)

Next ==
    \/ SlotIssueBusOperation
    \/ OperationStep
    \/ EnableInterrupt
    \/ AcknowledgeError
    \/ Host

\* The thread that issued an operation goes on with it; the host may never answer.
Spec == Init /\ [][Next]_vars /\ WF_vars(OperationStep)

-----------------------------------------------------------------------------
(* Properties                                                               *)

\* Divided by d the card is not clocked faster than f asks for.
NotAbove(d, f) ==
    IF d = 0 THEN BaseClockFrequencyKhz <= f
    ELSE IF SpecVersion > SDHC_SPEC_VERSION_3 THEN BaseClockFrequencyKhz \div (2 * d) <= f
    ELSE BaseClockFrequencyKhz <= 2 * d * f

\* The card is never clocked faster than the last SdhcSetClock asked for, also
\* while it runs, after resets and mode changes write the register back, and
\* after operations that timed out.
ClockNeverTooFast ==
    asked # 0 /\ "INTERNAL_CLOCK_ENABLE" \in control1.bits => NotAbove(control1.divisor, asked)

\* After a SdhcSetClock that succeeded the clock is on, at the setting for the
\* frequency it was asked, whatever resets, mode changes and failures to tune
\* come after it, unless a reset has outlasted the wait for it.
ClockSurvives ==
    clocked /\ ~resetLate /\ op = Idle
      => ClockBits \subseteq control1.bits /\ control1.divisor = CalcClockFrequency(asked)

\* Unless a reset has outlasted the wait for it, the host is out of reset when
\* an operation returns, and signals its interrupts.
ResetsAreOver ==
    ~resetLate /\ op = Idle => control1.bits \intersect ResetBits = {} /\ signals

\* A bus operation returns whatever the host does: every wait is bounded.
OperationReturns == op # Idle ~> op = Idle
=============================================================================
