---------------------------- MODULE SdhcBusProofs ----------------------------
(* The card clock of bcm2836sdhc is never faster than asked for, for every   *)
(* base clock, host version and set of frequencies its divider reaches.      *)
EXTENDS SdhcBus, TLAPS

-----------------------------------------------------------------------------
(* The divisor                                                              *)

\* A quotient that is rounded down, halved, is less than one short of the half.
LEMMA HalvedQuotient ==
    ASSUME NEW b \in Nat, NEW f \in Nat \ {0}
    PROVE  /\ (b \div f) \div 2 \in Nat
           /\ b < f * (2 * ((b \div f) \div 2) + 2)
<1> DEFINE q == b \div f
           h == q \div 2
<1>1. /\ q \in Nat /\ b < f * (q + 1)
  OBVIOUS
<1>2. h \in Nat /\ q + 1 <= 2 * h + 2
  BY <1>1
<1>3. f * (q + 1) <= f * (2 * h + 2)
  <2> HIDE DEF h, q
  <2>1. ASSUME NEW x \in Nat, NEW y \in Nat, x <= y PROVE f * x <= f * y
    BY <2>1
  <2> QED BY <2>1, <1>1, <1>2
<1>4. f * (q + 1) \in Int /\ f * (2 * h + 2) \in Int
  BY <1>1, <1>2
<1> HIDE DEF h, q
<1>5. b < f * (2 * h + 2)
  BY <1>1, <1>3, <1>4
<1> QED BY <1>2, <1>5 DEF h, q

\* The ten bit divisor of a frequency the divider reaches (TenBitDivisor): it
\* fits the register and brings the clock down to the frequency.
LEMMA TenBitsSuffice ==
    ASSUME NEW f \in Frequencies, SpecVersion <= SDHC_SPEC_VERSION_3
    PROVE  /\ TenBitDivisor(f) \in 0..1023
           /\ NotAbove(TenBitDivisor(f), f)
<1> DEFINE b == BaseClockFrequencyKhz
           h == (b \div f) \div 2
           up == IF f < b /\ f * 2 * h # b THEN h + 1 ELSE h
<1>1. /\ b \in Nat \ {0} /\ f \in Nat \ {0} /\ SpecVersion \in Nat
      /\ b <= f * 2046 /\ ~(SpecVersion > SDHC_SPEC_VERSION_3)
  BY BusAssumption DEF MaxDivider, SDHC_SPEC_VERSION_3, SDHC_MAX_CLOCK_DIVISOR_SPEC_3
<1>2. h \in Nat /\ b < f * (2 * h + 2)
  BY <1>1, HalvedQuotient
<1>3. b <= f => h = 0
  BY <1>1
<1>4. TenBitDivisor(f) = IF up > 1023 THEN 1023 ELSE up
  BY DEF TenBitDivisor, SDHC_MAX_CLOCK_DIVISOR_SPEC_3
<1> HIDE DEF b, h
<1>5. up \in Nat
  BY <1>2
<1>6. up # 0 => b <= 2 * up * f
  <2>1. CASE f < b /\ f * 2 * h # b
    <3>1. up = h + 1
      BY <2>1
    <3>2. f * (2 * h + 2) = 2 * (h + 1) * f
      BY <1>1, <1>2
    <3> QED BY <3>1, <3>2, <1>1, <1>2
  <2>2. CASE f < b /\ f * 2 * h = b
    <3>1. up = h /\ f * 2 * h = 2 * h * f
      BY <2>2, <1>1, <1>2
    <3> QED BY <3>1, <2>2, <1>1, <1>2
  <2>3. CASE ~(f < b)
    BY <2>3, <1>1, <1>3
  <2> QED BY <2>1, <2>2, <2>3
<1>7. up = 0 => b <= f
  <2>1. SUFFICES ASSUME up = 0, f < b PROVE FALSE
    BY <1>1
  <2>2. h = 0 /\ f * 2 * h = b
    BY <2>1, <1>2
  <2> QED BY <2>2, <1>1
<1> HIDE DEF up
<1>8. CASE up > 1023
  <2>1. TenBitDivisor(f) = 1023 /\ b <= 2 * 1023 * f
    BY <1>8, <1>4, <1>1
  <2> QED BY <2>1, <1>1 DEF NotAbove, b
<1>9. CASE ~(up > 1023)
  <2>1. TenBitDivisor(f) = up
    BY <1>9, <1>4
  <2> QED BY <2>1, <1>9, <1>1, <1>5, <1>6, <1>7 DEF NotAbove, b
<1> QED BY <1>8, <1>9

\* Two parts of the register hold ten bits without loss (TenBitField).
LEMMA FieldHoldsTenBits == \A d \in 0..1023 : TenBitField(d) = d
  BY DEF TenBitField

\* Newer hosts: the search ends at a power of two that is slow enough
\* (ShiftedDivisor), half of which the register holds.
LEMMA ShiftsSuffice ==
    ASSUME NEW f \in Frequencies, SpecVersion > SDHC_SPEC_VERSION_3
    PROVE  ShiftedDivisor(f) \in Nat /\ NotAbove(ShiftedDivisor(f), f)
<1>1. /\ BaseClockFrequencyKhz \in Nat \ {0} /\ f \in Nat \ {0}
      /\ BaseClockFrequencyKhz <= f * 256
  BY BusAssumption DEF MaxDivider, SDHC_MAX_CLOCK_DIVISOR
<1> DEFINE Least(p) == SlowEnough(p, f) /\ \A q \in PowersOfTwo : SlowEnough(q, f) => p <= q
<1>2. SlowEnough(256, f)
  BY DEF SlowEnough, SDHC_MAX_CLOCK_DIVISOR
<1>3. \E p \in PowersOfTwo : Least(p)
  BY <1>2 DEF PowersOfTwo
<1>4. PICK p \in PowersOfTwo : p = (CHOOSE x \in PowersOfTwo : Least(x)) /\ Least(p)
  BY <1>3
<1>5. ShiftedDivisor(f) = p \div 2
  BY <1>4 DEF ShiftedDivisor
<1>6. BaseClockFrequencyKhz \div p <= f
  <2>1. CASE p = 256
    BY <2>1, <1>1
  <2>2. CASE p # 256
    BY <2>2, <1>4 DEF SlowEnough, SDHC_MAX_CLOCK_DIVISOR
  <2> QED BY <2>1, <2>2
<1>7. p = 1 \/ (p \div 2 \in Nat \ {0} /\ 2 * (p \div 2) = p)
  BY DEF PowersOfTwo
<1>8. CASE p = 1
  BY <1>8, <1>5, <1>6, <1>1 DEF NotAbove
<1>9. CASE p \div 2 \in Nat \ {0} /\ 2 * (p \div 2) = p
  BY <1>9, <1>5, <1>6 DEF NotAbove
<1> QED BY <1>7, <1>8, <1>9

\* What is written to CONTROL_1 for a frequency (SdhcCalcClockFrequency).
LEMMA DivisorSuffices ==
    ASSUME NEW f \in Frequencies
    PROVE  CalcClockFrequency(f) \in Nat /\ NotAbove(CalcClockFrequency(f), f)
<1>1. CASE SpecVersion > SDHC_SPEC_VERSION_3
  BY <1>1, ShiftsSuffice DEF CalcClockFrequency
<1>2. CASE ~(SpecVersion > SDHC_SPEC_VERSION_3)
  <2>1. SpecVersion <= SDHC_SPEC_VERSION_3
    BY <1>2, BusAssumption DEF SDHC_SPEC_VERSION_3
  <2>2. CalcClockFrequency(f) = TenBitDivisor(f)
    BY <1>2, <2>1, TenBitsSuffice, FieldHoldsTenBits DEF CalcClockFrequency
  <2> QED BY <2>1, <2>2, TenBitsSuffice
<1> QED BY <1>1, <1>2
-----------------------------------------------------------------------------
(* The clock                                                                *)

\* A register value with the clock running divides it enough.
Slow(r) == asked # 0 /\ "INTERNAL_CLOCK_ENABLE" \in r.bits => NotAbove(r.divisor, asked)

\* Inductive: also what an operation has read may be written, and between
\* stopping the clock and dividing it anew what was read does not run it.
ClockInv ==
    /\ Slow(control1) /\ Slow(read1)
    /\ step = "divide" => asked # 0 /\ "INTERNAL_CLOCK_ENABLE" \notin read1.bits

BusInv == TypeOK /\ ClockInv

\* The values the actions write are values of the register.
LEMMA Registers ==
    /\ Zero1 \in Control1 /\ Zero2 \in Control2
    /\ \A r \in Control1, b \in SUBSET Control1Bits :
          /\ With(r, b) \in Control1 /\ Without(r, b) \in Control1
          /\ With(r, b).divisor = r.divisor /\ Without(r, b).divisor = r.divisor
          /\ With(r, b).bits = r.bits \union b /\ Without(r, b).bits = r.bits \ b
<1>1. Zero1 \in Control1 /\ Zero2 \in Control2
  BY DEF Zero1, Zero2, Control1, Control2, HostModes
<1>2. ASSUME NEW r \in Control1, NEW b \in SUBSET Control1Bits
      PROVE  /\ With(r, b) \in Control1 /\ Without(r, b) \in Control1
             /\ With(r, b).divisor = r.divisor /\ Without(r, b).divisor = r.divisor
             /\ With(r, b).bits = r.bits \union b /\ Without(r, b).bits = r.bits \ b
  BY <1>2 DEF With, Without, Control1
<1> QED BY <1>1, <1>2

LEMMA BitSets ==
    /\ ClockBits \in SUBSET Control1Bits /\ {"MAX_DATA_TIMEOUT"} \in SUBSET Control1Bits
    /\ {"CLOCK_ENABLE"} \in SUBSET Control1Bits
    /\ {"INTERNAL_CLOCK_ENABLE"} \in SUBSET Control1Bits
    /\ \A bit \in ResetBits : {bit} \in SUBSET Control1Bits
    /\ "INTERNAL_CLOCK_ENABLE" \notin ResetBits
    /\ ResetTypes \subseteq ResetBits
  BY BusAssumption DEF Control1Bits, ClockBits, ResetBits

LEMMA Ops ==
    LET O == [type : Operations, bit : ResetBits \union {"none"}, mode : HostModes]
    IN  /\ Idle \in O
        /\ \A b \in ResetBits : [Idle EXCEPT !.type = "ResetHost", !.bit = b] \in O
        /\ [Idle EXCEPT !.type = "SetClock"] \in O
        /\ [Idle EXCEPT !.type = "ExecuteTuning"] \in O
        /\ \A m \in HostModes : [Idle EXCEPT !.type = "SetUhsMode", !.mode = m] \in O
  BY DEF Idle, Operations, HostModes, ResetBits

\* Every value of the clock register that is written with fewer bits, or with
\* bits that do not run the clock, is as slow.
LEMMA SlowStays ==
    ASSUME NEW r \in Control1, NEW b \in SUBSET Control1Bits, Slow(r)
    PROVE  /\ Slow(Without(r, b))
           /\ "INTERNAL_CLOCK_ENABLE" \notin b => Slow(With(r, b))
           /\ Slow(Zero1)
  BY Registers DEF Slow, Zero1

LEMMA InitClock == Init => BusInv
<1> SUFFICES ASSUME Init PROVE BusInv
  OBVIOUS
<1>1. control1 \in Control1 /\ read1 \in Control1 /\ control2 \in Control2 /\ read2 \in Control2
  BY Registers DEF Init, Control1, Control1Bits
<1>2. 0 \in 0..Retries
  BY BusAssumption
<1>3. op \in [type : Operations, bit : ResetBits \union {"none"}, mode : HostModes]
  BY Ops DEF Init
<1>4. control0 \in SUBSET {"4BIT", "8BIT", "HIGH_SPEED"}
  BY DEF Init
<1>5. TypeOK
  BY <1>1, <1>2, <1>3, <1>4 DEF Init, TypeOK, Steps
<1> QED BY <1>5 DEF Init, BusInv, ClockInv, Slow

\* What WriteControl1 and Return leave behind.
LEMMA Written ==
    ASSUME TypeOK, NEW v \in Control1, WriteControl1(v)
    PROVE  control1' = v /\ stable' \in BOOLEAN
  BY DEF WriteControl1, TypeOK

LEMMA Returned ==
    ASSUME NEW s \in {"SUCCESS", "TIMEOUT", "INVALID_PARAMETER"}, Return(s)
    PROVE  /\ op' \in [type : Operations, bit : ResetBits \union {"none"}, mode : HostModes]
           /\ step' = "idle" /\ step' \in Steps /\ Status' = s
           /\ read1' = Zero1 /\ read1' \in Control1 /\ read2' \in Control2
           /\ left' \in 0..Retries
<1>1. op' \in [type : Operations, bit : ResetBits \union {"none"}, mode : HostModes]
  BY Ops DEF Return
<1>2. 0 \in 0..Retries
  BY BusAssumption
<1>3. left' = 0 /\ step' = "idle" /\ Status' = s /\ read1' = Zero1 /\ read2' = Zero2
  BY DEF Return
<1> QED BY <1>1, <1>2, <1>3, Registers DEF Steps

LEMMA StepClock == BusInv /\ [Next]_vars => BusInv'
<1> SUFFICES ASSUME BusInv, [Next]_vars PROVE BusInv'
  OBVIOUS
<1> USE DEF BusInv
<1>0. TypeOK /\ ClockInv
  OBVIOUS
<1>a. Retries \in Nat \ {0} /\ 0 \notin Frequencies
  BY BusAssumption
<1>b. Slow(control1) /\ Slow(read1) /\ control1 \in Control1 /\ read1 \in Control1
  BY DEF TypeOK, ClockInv
<1>1. ASSUME NEW bit \in ResetTypes, ResetHost(bit) PROVE BusInv'
  <2>1. bit \in ResetBits /\ With(control1, {bit}) \in Control1
        /\ Slow(With(control1, {bit}))
    BY <1>b, Registers, BitSets, SlowStays
  <2>2. control1' = With(control1, {bit}) /\ stable' \in BOOLEAN
    BY <1>1, <2>1, Written DEF ResetHost
  <2>3. op' \in [type : Operations, bit : ResetBits \union {"none"}, mode : HostModes]
    BY <1>1, <2>1, Ops DEF ResetHost
  <2>4. TypeOK'
    BY <1>1, <2>1, <2>2, <2>3, <1>a, <1>b DEF ResetHost, TypeOK, Steps, history
  <2>5. ClockInv'
    BY <1>1, <2>1, <2>2, <1>b DEF ResetHost, ClockInv, Slow, history
  <2> QED BY <2>4, <2>5
<1>2. ASSUME ResetPoll PROVE BusInv'
  <2>1. CASE left = 0
    <3>1. Return("TIMEOUT") /\ UNCHANGED <<registers, asked, clocked>> /\ resetLate' = TRUE
      BY <1>2, <2>1 DEF ResetPoll
    <3>2. TypeOK'
      BY <3>1, Returned DEF TypeOK, registers
    <3>3. ClockInv'
      BY <3>1, <1>b, Returned DEF ClockInv, Slow, Zero1, registers
    <3> QED BY <3>2, <3>3
  <2>2. CASE left # 0
    <3>1. /\ left' = left - 1 /\ step' \in {"resetPoll", "resetWrite"}
          /\ UNCHANGED <<registers, op, read1, read2, Status, history>>
      BY <1>2, <2>2 DEF ResetPoll
    <3>2. left' \in 0..Retries
      BY <3>1, <2>2, <1>a DEF TypeOK
    <3>3. TypeOK'
      BY <3>1, <3>2 DEF TypeOK, Steps, registers, history
    <3>4. ClockInv'
      BY <3>1, <1>b DEF ClockInv, Slow, registers, history
    <3> QED BY <3>3, <3>4
  <2> QED BY <2>1, <2>2
<1>3. ASSUME ResetWrite PROVE BusInv'
  <2>1. With(read1, {"MAX_DATA_TIMEOUT"}) \in Control1
        /\ Slow(With(read1, {"MAX_DATA_TIMEOUT"}))
    BY <1>b, Registers, BitSets, SlowStays
  <2>2. control1' = With(read1, {"MAX_DATA_TIMEOUT"}) /\ stable' \in BOOLEAN
    BY <1>3, <2>1, Written DEF ResetWrite
  <2>3. Return("SUCCESS") /\ events' = FALSE /\ signals' = TRUE
        /\ UNCHANGED <<control0, control2, history>>
    BY <1>3 DEF ResetWrite
  <2>4. TypeOK'
    BY <2>1, <2>2, <2>3, Returned DEF TypeOK, history
  <2>5. ClockInv'
    BY <2>1, <2>2, <2>3, Returned DEF ClockInv, Slow, Zero1, history
  <2> QED BY <2>4, <2>5
<1>4. ASSUME NEW f \in Frequencies, SetClock(f) PROVE BusInv'
  <2>1. /\ Without(control1, ClockBits) \in Control1
        /\ "INTERNAL_CLOCK_ENABLE" \notin Without(control1, ClockBits).bits
    BY <1>b, Registers, BitSets DEF ClockBits
  <2>2. read1' = Without(control1, ClockBits) /\ WriteControl1(Without(control1, ClockBits))
    BY <1>4 DEF SetClock, WriteControl1
  <2>3. control1' = Without(control1, ClockBits) /\ stable' \in BOOLEAN
    BY <2>1, <2>2, Written
  <2>4. op' \in [type : Operations, bit : ResetBits \union {"none"}, mode : HostModes]
    BY <1>4, Ops DEF SetClock
  <2>5. TypeOK'
    BY <1>4, <2>1, <2>2, <2>3, <2>4 DEF SetClock, TypeOK, Steps
  <2>6. ClockInv'
    BY <1>4, <2>1, <2>2, <2>3, <1>a DEF SetClock, ClockInv, Slow
  <2> QED BY <2>5, <2>6
<1>5. ASSUME Divide PROVE BusInv'
  <2> DEFINE d == CalcClockFrequency(asked)
             divided == [read1 EXCEPT !.divisor = d]
             running == With(divided, {"INTERNAL_CLOCK_ENABLE"})
  <2>1. asked \in Frequencies
    BY <1>5 DEF Divide, ClockInv, TypeOK
  <2>2. d \in Nat /\ NotAbove(d, asked)
    BY <2>1, DivisorSuffices
  <2>3. divided \in Control1 /\ divided.divisor = d
    BY <2>2, <1>b DEF Control1
  <2>4. running \in Control1 /\ running.divisor = d
    BY <2>3, Registers, BitSets
  <2>5. WriteControl1(running)
    BY <1>5 DEF Divide
  <2> HIDE DEF running, divided, d
  <2>6. control1' = running /\ stable' \in BOOLEAN
    BY <2>4, <2>5, Written
  <2>7. TypeOK'
    BY <1>5, <1>a, <2>4, <2>6, Registers DEF Divide, TypeOK, Steps, history
  <2>8. Slow(control1)'
    <3>1. asked' = asked /\ control1'.divisor = d
      BY <1>5, <2>4, <2>6 DEF Divide, history
    <3>2. NotAbove(control1'.divisor, asked')
      BY <3>1, <2>2
    <3> QED BY <3>2 DEF Slow, NotAbove
  <2>9. ClockInv'
    BY <1>5, <2>8 DEF Divide, ClockInv, Slow, Zero1
  <2> QED BY <2>7, <2>9
<1>6. ASSUME ClockPoll PROVE BusInv'
  <2>1. CASE left = 0
    <3>1. Return("TIMEOUT") /\ UNCHANGED <<registers, history>>
      BY <1>6, <2>1 DEF ClockPoll
    <3>2. TypeOK'
      BY <3>1, Returned DEF TypeOK, registers, history
    <3>3. ClockInv'
      BY <3>1, <1>b, Returned DEF ClockInv, Slow, Zero1, registers, history
    <3> QED BY <3>2, <3>3
  <2>2. CASE left # 0 /\ stable
    <3>1. /\ left' = 0 /\ step' = "clockEnable" /\ read1' = control1
          /\ UNCHANGED <<registers, op, read2, Status, history>>
      BY <1>6, <2>2 DEF ClockPoll
    <3>2. TypeOK'
      BY <3>1, <1>a DEF TypeOK, Steps, registers, history
    <3>3. ClockInv'
      BY <3>1, <1>b DEF ClockInv, Slow, registers, history
    <3> QED BY <3>2, <3>3
  <2>3. CASE left # 0 /\ ~stable
    <3>1. left' = left - 1 /\ UNCHANGED <<registers, step, read1, op, read2, Status, history>>
      BY <1>6, <2>3 DEF ClockPoll
    <3>2. left' \in 0..Retries
      BY <3>1, <2>3, <1>a DEF TypeOK
    <3>3. TypeOK'
      BY <3>1, <3>2 DEF TypeOK, Steps, registers, history
    <3>4. ClockInv'
      BY <3>1, <1>0 DEF ClockInv, Slow, registers, history
    <3> QED BY <3>3, <3>4
  <2> QED BY <2>1, <2>2, <2>3
<1>7. ASSUME ClockEnable PROVE BusInv'
  <2>1. With(read1, {"CLOCK_ENABLE"}) \in Control1 /\ Slow(With(read1, {"CLOCK_ENABLE"}))
    BY <1>b, Registers, BitSets, SlowStays
  <2>2. control1' = With(read1, {"CLOCK_ENABLE"}) /\ stable' \in BOOLEAN
    BY <1>7, <2>1, Written DEF ClockEnable
  <2>3. /\ Return("SUCCESS") /\ clocked' = TRUE
        /\ UNCHANGED <<control0, control2, signals, events, asked, resetLate>>
    BY <1>7 DEF ClockEnable
  <2>4. TypeOK'
    BY <2>1, <2>2, <2>3, Returned DEF TypeOK
  <2>5. ClockInv'
    BY <2>1, <2>2, <2>3, Returned DEF ClockInv, Slow, Zero1
  <2> QED BY <2>4, <2>5
<1>8. ASSUME NEW width \in Widths, SetBusWidth(width) PROVE BusInv'
  <2>1. control0' \in SUBSET {"4BIT", "8BIT", "HIGH_SPEED"}
    BY <1>8 DEF SetBusWidth, TypeOK
  <2>2. /\ Return("SUCCESS")
        /\ UNCHANGED <<control1, control2, stable, signals, events, history>>
    BY <1>8 DEF SetBusWidth
  <2>3. TypeOK'
    BY <2>1, <2>2, Returned DEF TypeOK, history
  <2>4. ClockInv'
    BY <2>2, <1>b, Returned DEF ClockInv, Slow, Zero1, history
  <2> QED BY <2>3, <2>4
<1>9. ASSUME NEW speed \in Speeds, SetHighSpeed(speed) PROVE BusInv'
  <2>1. control0' \in SUBSET {"4BIT", "8BIT", "HIGH_SPEED"}
    BY <1>9 DEF SetHighSpeed, TypeOK
  <2>2. /\ Return("SUCCESS")
        /\ UNCHANGED <<control1, control2, stable, signals, events, history>>
    BY <1>9 DEF SetHighSpeed
  <2>3. TypeOK'
    BY <2>1, <2>2, Returned DEF TypeOK, history
  <2>4. ClockInv'
    BY <2>2, <1>b, Returned DEF ClockInv, Slow, Zero1, history
  <2> QED BY <2>3, <2>4
<1>10. ASSUME NEW speed \in Speeds, SetUhsMode(speed) PROVE BusInv'
  <2>1. GetHwUhsMode(speed) \in HostModes
    BY DEF GetHwUhsMode, HostModes
  <2>2. CASE control2.mode = GetHwUhsMode(speed)
    <3>1. /\ Return("SUCCESS")
          /\ UNCHANGED <<control0, control1, control2, stable, signals, events, history>>
      BY <1>10, <2>2 DEF SetUhsMode
    <3>2. TypeOK'
      BY <3>1, Returned DEF TypeOK, history
    <3>3. ClockInv'
      BY <3>1, <1>b, Returned DEF ClockInv, Slow, Zero1, history
    <3> QED BY <3>2, <3>3
  <2>3. CASE control2.mode # GetHwUhsMode(speed)
    <3>1. /\ Without(control1, {"CLOCK_ENABLE"}) \in Control1
          /\ Slow(Without(control1, {"CLOCK_ENABLE"}))
      BY <1>b, Registers, BitSets, SlowStays
    <3>2. /\ WriteControl1(Without(control1, {"CLOCK_ENABLE"}))
          /\ op' = [Idle EXCEPT !.type = "SetUhsMode", !.mode = GetHwUhsMode(speed)]
          /\ read2' = control2 /\ step' = "mode"
          /\ UNCHANGED <<control0, control2, signals, events, history, read1, left, Status>>
      BY <1>10, <2>3 DEF SetUhsMode
    <3>3. control1' = Without(control1, {"CLOCK_ENABLE"}) /\ stable' \in BOOLEAN
      BY <3>1, <3>2, Written
    <3>4. op' \in [type : Operations, bit : ResetBits \union {"none"}, mode : HostModes]
      BY <3>2, <2>1, Ops
    <3>5. TypeOK'
      BY <3>1, <3>2, <3>3, <3>4 DEF TypeOK, Steps, history
    <3>6. ClockInv'
      BY <3>1, <3>2, <3>3, <1>b DEF ClockInv, Slow, history
    <3> QED BY <3>5, <3>6
  <2> QED BY <2>2, <2>3
<1>11. ASSUME UhsMode PROVE BusInv'
  <2>1. control2' \in Control2 /\ read2' \in Control2
    BY <1>11, Registers DEF UhsMode, TypeOK, Control2, HostModes
  <2>2. op.mode \in HostModes
    BY DEF TypeOK
  <2>3. TypeOK'
    BY <1>11, <2>1 DEF UhsMode, TypeOK, Steps, history
  <2>4. ClockInv'
    BY <1>11, <1>b DEF UhsMode, ClockInv, Slow, history
  <2> QED BY <2>3, <2>4
<1>12. ASSUME UhsModeClock PROVE BusInv'
  <2>1. With(control1, {"CLOCK_ENABLE"}) \in Control1 /\ Slow(With(control1, {"CLOCK_ENABLE"}))
    BY <1>b, Registers, BitSets, SlowStays
  <2>2. control1' = With(control1, {"CLOCK_ENABLE"}) /\ stable' \in BOOLEAN
    BY <1>12, <2>1, Written DEF UhsModeClock
  <2>3. Return("SUCCESS") /\ UNCHANGED <<control0, control2, signals, events, history>>
    BY <1>12 DEF UhsModeClock
  <2>4. TypeOK'
    BY <2>1, <2>2, <2>3, Returned DEF TypeOK, history
  <2>5. ClockInv'
    BY <2>1, <2>2, <2>3, Returned DEF ClockInv, Slow, Zero1, history
  <2> QED BY <2>4, <2>5
<1>13. ASSUME ExecuteTuning PROVE BusInv'
  <2>1. op' \in [type : Operations, bit : ResetBits \union {"none"}, mode : HostModes]
    BY <1>13, Ops DEF ExecuteTuning
  <2>2. TypeOK'
    BY <1>13, <2>1 DEF ExecuteTuning, TypeOK, Steps, registers, history
  <2>3. ClockInv'
    BY <1>13, <1>b DEF ExecuteTuning, ClockInv, Slow, registers, history
  <2> QED BY <2>2, <2>3
<1>14. ASSUME Tune PROVE BusInv'
  <2>1. control2' \in Control2
    BY <1>14 DEF Tune, TypeOK, Control2
  <2>2. Return("SUCCESS") /\ UNCHANGED <<control0, control1, stable, signals, events, history>>
    BY <1>14 DEF Tune
  <2>3. TypeOK'
    BY <2>1, <2>2, Returned DEF TypeOK, history
  <2>4. ClockInv'
    BY <2>2, <1>b, Returned DEF ClockInv, Slow, Zero1, history
  <2> QED BY <2>3, <2>4
<1>15. ASSUME NEW s \in {"SUCCESS", "INVALID_PARAMETER"}, Ignore(s) PROVE BusInv'
  <2>1. Return(s) /\ UNCHANGED <<registers, history>>
    BY <1>15 DEF Ignore
  <2>2. TypeOK'
    BY <2>1, Returned DEF TypeOK, registers, history
  <2>3. ClockInv'
    BY <2>1, <1>b, Returned DEF ClockInv, Slow, Zero1, registers, history
  <2> QED BY <2>2, <2>3
<1>16. ASSUME EnableInterrupt PROVE BusInv'
  BY <1>16, <1>0 DEF EnableInterrupt, TypeOK, ClockInv, Slow, locals, history
<1>17. ASSUME AcknowledgeError PROVE BusInv'
  BY <1>17, <1>0, Registers DEF AcknowledgeError, TypeOK, ClockInv, Slow, locals, history
<1>18. ASSUME HostStable PROVE BusInv'
  BY <1>18, <1>0 DEF HostStable, TypeOK, ClockInv, Slow, locals, history
<1>19. ASSUME NEW bit \in ResetBits, HostResets(bit) PROVE BusInv'
  <2>1. control1' \in Control1 /\ Slow(control1')
    BY <1>19, <1>b, Registers, BitSets, SlowStays DEF HostResets
  <2>2. TypeOK'
    BY <1>19, <2>1, Registers DEF HostResets, TypeOK, locals, history
  <2>3. ClockInv'
    BY <1>19, <1>0, <2>1 DEF HostResets, ClockInv, Slow, locals, history
  <2> QED BY <2>2, <2>3
<1>20. ASSUME UNCHANGED vars PROVE BusInv'
  BY <1>20, <1>0 DEF vars, registers, locals, history, TypeOK, ClockInv, Slow
<1> QED
  <2>1. SlotIssueBusOperation => BusInv'
    BY <1>1, <1>4, <1>8, <1>9, <1>10, <1>13, <1>15
       DEF SlotIssueBusOperation, SetSpeed, SetVoltage, SetSignaling, SetPresetValue,
           OtherOperation
  <2>2. OperationStep => BusInv'
    BY <1>2, <1>3, <1>5, <1>6, <1>7, <1>11, <1>12, <1>14 DEF OperationStep
  <2>3. Host => BusInv'
    BY <1>18, <1>19 DEF Host
  <2> QED BY <2>1, <2>2, <2>3, <1>16, <1>17, <1>20 DEF Next

-----------------------------------------------------------------------------
(* What the clock survives                                                  *)

Divided(r) == "INTERNAL_CLOCK_ENABLE" \in r.bits /\ r.divisor = CalcClockFrequency(asked)
Runs(r) == "CLOCK_ENABLE" \in r.bits /\ Divided(r)

\* Where the setting of the clock is while an operation is under way.
Settled ==
    /\ clocked /\ step \in {"idle", "tune"} => Runs(control1)
    /\ clocked /\ step \in {"resetPoll", "resetWrite"} => Runs(read1)
    /\ clocked /\ step \in {"mode", "modeClock"} => Divided(control1)
    /\ step \in {"divide", "clockPoll", "clockEnable"} => ~clocked
    /\ step = "clockPoll" => Divided(control1)
    /\ step = "clockEnable" => Divided(read1)

\* Only the operation that resets has its bit in the register, and none has
\* read one.
NoStrayReset ==
    /\ \A b \in ResetBits : b \in control1.bits => step = "resetPoll" /\ b = op.bit
    /\ \A b \in ResetBits : b \notin read1.bits
    /\ signals \/ step \in {"resetPoll", "resetWrite"}

SurvivalInv ==
    /\ op = Idle <=> step = "idle"
    /\ ~resetLate => NoStrayReset /\ Settled

LEMMA InitSurvives == Init => SurvivalInv
<1> SUFFICES ASSUME Init PROVE SurvivalInv
  OBVIOUS
<1>1. \A b \in ResetBits : b \notin control1.bits /\ b \notin read1.bits
  BY DEF Init, Zero1, ResetBits, ClockBits
<1> QED BY <1>1 DEF Init, SurvivalInv, NoStrayReset, Settled

\* An operation that goes on is under way.
LEMMA Begun ==
    /\ \A b \in ResetBits : /\ [Idle EXCEPT !.type = "ResetHost", !.bit = b] # Idle
                            /\ [Idle EXCEPT !.type = "ResetHost", !.bit = b].bit = b
    /\ [Idle EXCEPT !.type = "SetClock"] # Idle
    /\ [Idle EXCEPT !.type = "ExecuteTuning"] # Idle
    /\ \A m \in HostModes : [Idle EXCEPT !.type = "SetUhsMode", !.mode = m] # Idle
<1>1. ASSUME NEW b \in ResetBits
      PROVE  /\ [Idle EXCEPT !.type = "ResetHost", !.bit = b] # Idle
             /\ [Idle EXCEPT !.type = "ResetHost", !.bit = b].bit = b
  BY DEF Idle
<1>2. [Idle EXCEPT !.type = "SetClock"] # Idle /\ [Idle EXCEPT !.type = "ExecuteTuning"] # Idle
  BY DEF Idle
<1>3. ASSUME NEW m \in HostModes PROVE [Idle EXCEPT !.type = "SetUhsMode", !.mode = m] # Idle
  BY DEF Idle
<1> QED BY <1>1, <1>2, <1>3

LEMMA StepSurvives == TypeOK /\ ClockInv /\ SurvivalInv /\ [Next]_vars => SurvivalInv'
<1> SUFFICES ASSUME TypeOK, ClockInv, SurvivalInv, [Next]_vars PROVE SurvivalInv'
  OBVIOUS
<1>a. control1 \in Control1 /\ read1 \in Control1
  BY DEF TypeOK
<1>b. "CLOCK_ENABLE" \notin ResetBits /\ "INTERNAL_CLOCK_ENABLE" \notin ResetBits
      /\ "MAX_DATA_TIMEOUT" \notin ResetBits
  BY DEF ResetBits
<1>c. op = Idle <=> step = "idle"
  BY DEF SurvivalInv
<1>d. ~resetLate => NoStrayReset /\ Settled
  BY DEF SurvivalInv
<1>1. ASSUME NEW bit \in ResetTypes, ResetHost(bit) PROVE SurvivalInv'
  <2> DEFINE w == With(control1, {bit})
  <2>1. bit \in ResetBits /\ w \in Control1 /\ w.bits = control1.bits \union {bit}
    BY <1>a, Registers, BitSets
  <2>2. control1' = w
    BY <1>1, <2>1, Written DEF ResetHost
  <2>3. op' # Idle /\ op'.bit = bit
    BY <1>1, <2>1, Begun DEF ResetHost
  <2>4. /\ step' = "resetPoll" /\ read1' = control1 /\ step = "idle"
        /\ UNCHANGED <<signals, asked, clocked, resetLate>>
    BY <1>1, <1>c DEF ResetHost, history
  <2> HIDE DEF w
  <2>5. ~resetLate' => NoStrayReset'
    BY <2>1, <2>2, <2>3, <2>4, <1>d DEF NoStrayReset
  <2>6. ~resetLate' => Settled'
    BY <2>4, <1>d DEF Settled, Runs, Divided
  <2> QED BY <2>3, <2>4, <2>5, <2>6 DEF SurvivalInv
<1>2. ASSUME ResetPoll PROVE SurvivalInv'
  <2>1. CASE left = 0
    <3>1. Return("TIMEOUT") /\ resetLate' = TRUE
      BY <1>2, <2>1 DEF ResetPoll
    <3> QED BY <3>1 DEF SurvivalInv, Return
  <2>2. CASE left # 0
    <3>1. /\ step = "resetPoll" /\ step' \in {"resetPoll", "resetWrite"}
          /\ step' = "resetWrite" => op.bit \notin control1.bits
          /\ UNCHANGED <<registers, op, read1, history>>
      BY <1>2, <2>2 DEF ResetPoll
    <3>2. ~resetLate' => NoStrayReset'
      BY <3>1, <1>d DEF NoStrayReset, registers, history
    <3>3. ~resetLate' => Settled'
      BY <3>1, <1>d DEF Settled, Runs, Divided, registers, history
    <3> QED BY <3>1, <3>2, <3>3, <1>c DEF SurvivalInv
  <2> QED BY <2>1, <2>2
<1>3. ASSUME ResetWrite PROVE SurvivalInv'
  <2> DEFINE w == With(read1, {"MAX_DATA_TIMEOUT"})
  <2>1. /\ w \in Control1 /\ w.divisor = read1.divisor
        /\ w.bits = read1.bits \union {"MAX_DATA_TIMEOUT"}
    BY <1>a, Registers, BitSets
  <2>2. control1' = w
    BY <1>3, <2>1, Written DEF ResetWrite
  <2>3. /\ step = "resetWrite" /\ step' = "idle" /\ op' = Idle /\ read1' = Zero1
        /\ signals' = TRUE /\ UNCHANGED <<asked, clocked, resetLate>>
    BY <1>3 DEF ResetWrite, Return, history
  <2> HIDE DEF w
  <2>4. ~resetLate' => NoStrayReset'
    BY <2>1, <2>2, <2>3, <1>b, <1>d DEF NoStrayReset, Zero1
  <2>5. ~resetLate' => Settled'
    BY <2>1, <2>2, <2>3, <1>d DEF Settled, Runs, Divided
  <2> QED BY <2>3, <2>4, <2>5 DEF SurvivalInv
<1>4. ASSUME NEW f \in Frequencies, SetClock(f) PROVE SurvivalInv'
  <2> DEFINE w == Without(control1, ClockBits)
  <2>1. w \in Control1 /\ w.bits = control1.bits \ ClockBits
    BY <1>a, Registers, BitSets
  <2>2. read1' = w /\ WriteControl1(w)
    BY <1>4 DEF SetClock, WriteControl1
  <2>3. control1' = w
    BY <2>1, <2>2, Written
  <2>4. op' # Idle
    BY <1>4, Begun DEF SetClock
  <2>5. /\ step = "idle" /\ step' = "divide" /\ clocked' = FALSE
        /\ UNCHANGED <<signals, resetLate>>
    BY <1>4, <1>c DEF SetClock
  <2> HIDE DEF w
  <2>6. ~resetLate' => NoStrayReset'
    BY <2>1, <2>2, <2>3, <2>5, <1>d DEF NoStrayReset
  <2>7. ~resetLate' => Settled'
    BY <2>5 DEF Settled
  <2> QED BY <2>4, <2>5, <2>6, <2>7 DEF SurvivalInv
<1>5. ASSUME Divide PROVE SurvivalInv'
  <2> DEFINE d == CalcClockFrequency(asked)
             divided == [read1 EXCEPT !.divisor = d]
             w == With(divided, {"INTERNAL_CLOCK_ENABLE"})
  <2>1. d \in Nat
    BY <1>5, DivisorSuffices DEF Divide, ClockInv, TypeOK
  <2>2. divided \in Control1 /\ divided.divisor = d /\ divided.bits = read1.bits
    BY <2>1, <1>a DEF Control1
  <2> HIDE DEF d, divided
  <2>3. /\ w \in Control1 /\ w.divisor = d
        /\ w.bits = read1.bits \union {"INTERNAL_CLOCK_ENABLE"}
    BY <2>2, Registers, BitSets
  <2>4. WriteControl1(w)
    BY <1>5 DEF Divide, d, divided
  <2> HIDE DEF w
  <2>5. control1' = w
    BY <2>3, <2>4, Written
  <2>6. /\ step = "divide" /\ step' = "clockPoll" /\ read1' = Zero1
        /\ UNCHANGED <<op, signals, asked, clocked, resetLate>>
    BY <1>5 DEF Divide, history
  <2>7. ~resetLate' => NoStrayReset'
    BY <2>3, <2>5, <2>6, <1>b, <1>d DEF NoStrayReset, Zero1
  <2>8. CalcClockFrequency(asked)' = d
    BY <2>6 DEF d, CalcClockFrequency, ShiftedDivisor, SlowEnough, TenBitField, TenBitDivisor
  <2>9. ~resetLate' => Settled'
    BY <2>3, <2>5, <2>6, <2>8, <1>d DEF Settled, Runs, Divided
  <2> QED BY <2>6, <2>7, <2>9, <1>c DEF SurvivalInv
<1>6. ASSUME ClockPoll PROVE SurvivalInv'
  <2>1. step = "clockPoll" /\ UNCHANGED <<registers, history>>
    BY <1>6 DEF ClockPoll
  <2>2. CASE left = 0
    <3>1. op' = Idle /\ step' = "idle" /\ read1' = Zero1
      BY <1>6, <2>2 DEF ClockPoll, Return
    <3>2. ~resetLate' => NoStrayReset'
      BY <3>1, <2>1, <1>d DEF NoStrayReset, Zero1, registers, history
    <3>3. ~resetLate' => Settled'
      BY <3>1, <2>1, <1>d DEF Settled, registers, history
    <3> QED BY <3>1, <3>2, <3>3 DEF SurvivalInv
  <2>3. CASE left # 0
    <3>1. /\ op' = op
          /\ \/ step' = "clockEnable" /\ read1' = control1
             \/ UNCHANGED <<step, read1>>
      BY <1>6, <2>3 DEF ClockPoll
    <3>2. ~resetLate' => NoStrayReset'
      BY <3>1, <2>1, <1>d DEF NoStrayReset, registers, history
    <3>3. ~resetLate' => Settled'
      BY <3>1, <2>1, <1>d DEF Settled, Runs, Divided, registers, history
    <3> QED BY <3>1, <3>2, <3>3, <2>1, <1>c DEF SurvivalInv
  <2> QED BY <2>2, <2>3
<1>7. ASSUME ClockEnable PROVE SurvivalInv'
  <2> DEFINE w == With(read1, {"CLOCK_ENABLE"})
  <2>1. /\ w \in Control1 /\ w.divisor = read1.divisor
        /\ w.bits = read1.bits \union {"CLOCK_ENABLE"}
    BY <1>a, Registers, BitSets
  <2>2. control1' = w
    BY <1>7, <2>1, Written DEF ClockEnable
  <2>3. /\ step = "clockEnable" /\ step' = "idle" /\ op' = Idle /\ read1' = Zero1
        /\ UNCHANGED <<signals, asked, resetLate>>
    BY <1>7 DEF ClockEnable, Return
  <2> HIDE DEF w
  <2>4. ~resetLate' => NoStrayReset'
    BY <2>1, <2>2, <2>3, <1>b, <1>d DEF NoStrayReset, Zero1
  <2>5. ~resetLate' => Settled'
    BY <2>1, <2>2, <2>3, <1>d DEF Settled, Runs, Divided
  <2> QED BY <2>3, <2>4, <2>5 DEF SurvivalInv
<1>8. ASSUME op = Idle, Return("SUCCESS") \/ Return("INVALID_PARAMETER"),
             UNCHANGED <<control1, signals, history>>
      PROVE  SurvivalInv'
  <2>1. step = "idle" /\ step' = "idle" /\ op' = Idle /\ read1' = Zero1
    BY <1>8, <1>c DEF Return
  <2>2. ~resetLate' => NoStrayReset'
    BY <2>1, <1>8, <1>d DEF NoStrayReset, Zero1, history
  <2>3. ~resetLate' => Settled'
    BY <2>1, <1>8, <1>d DEF Settled, Runs, Divided, history
  <2> QED BY <2>1, <2>2, <2>3 DEF SurvivalInv
<1>9. ASSUME NEW width \in Widths, SetBusWidth(width) PROVE SurvivalInv'
  BY <1>9, <1>8 DEF SetBusWidth
<1>10. ASSUME NEW speed \in Speeds, SetHighSpeed(speed) PROVE SurvivalInv'
  BY <1>10, <1>8 DEF SetHighSpeed
<1>11. ASSUME NEW speed \in Speeds, SetUhsMode(speed) PROVE SurvivalInv'
  <2>1. CASE control2.mode = GetHwUhsMode(speed)
    BY <1>11, <2>1, <1>8 DEF SetUhsMode
  <2>2. CASE control2.mode # GetHwUhsMode(speed)
    <3> DEFINE w == Without(control1, {"CLOCK_ENABLE"})
    <3>1. /\ w \in Control1 /\ w.divisor = control1.divisor
          /\ w.bits = control1.bits \ {"CLOCK_ENABLE"}
      BY <1>a, Registers, BitSets
    <3>2. WriteControl1(w)
      BY <1>11, <2>2 DEF SetUhsMode
    <3> HIDE DEF w
    <3>3. control1' = w
      BY <3>1, <3>2, Written
    <3>4. GetHwUhsMode(speed) \in HostModes
      BY DEF GetHwUhsMode, HostModes
    <3>5. op' # Idle
      BY <1>11, <2>2, <3>4, Begun DEF SetUhsMode
    <3>6. /\ step = "idle" /\ step' = "mode"
          /\ UNCHANGED <<read1, signals, asked, clocked, resetLate>>
      BY <1>11, <2>2, <1>c DEF SetUhsMode, history
    <3>7. ~resetLate' => NoStrayReset'
      BY <3>1, <3>3, <3>6, <1>d DEF NoStrayReset
    <3>8. ~resetLate' => Settled'
      BY <3>1, <3>3, <3>6, <1>d DEF Settled, Runs, Divided
    <3> QED BY <3>5, <3>6, <3>7, <3>8 DEF SurvivalInv
  <2> QED BY <2>1, <2>2
<1>12. ASSUME UhsMode PROVE SurvivalInv'
  <2>1. /\ step = "mode" /\ step' = "modeClock"
        /\ UNCHANGED <<control1, op, read1, signals, asked, clocked, resetLate>>
    BY <1>12 DEF UhsMode, history
  <2>2. ~resetLate' => NoStrayReset'
    BY <2>1, <1>d DEF NoStrayReset
  <2>3. ~resetLate' => Settled'
    BY <2>1, <1>d DEF Settled, Runs, Divided
  <2> QED BY <2>1, <2>2, <2>3, <1>c DEF SurvivalInv
<1>13. ASSUME UhsModeClock PROVE SurvivalInv'
  <2> DEFINE w == With(control1, {"CLOCK_ENABLE"})
  <2>1. /\ w \in Control1 /\ w.divisor = control1.divisor
        /\ w.bits = control1.bits \union {"CLOCK_ENABLE"}
    BY <1>a, Registers, BitSets
  <2>2. control1' = w
    BY <1>13, <2>1, Written DEF UhsModeClock
  <2>3. /\ step = "modeClock" /\ step' = "idle" /\ op' = Idle /\ read1' = Zero1
        /\ UNCHANGED <<signals, asked, clocked, resetLate>>
    BY <1>13 DEF UhsModeClock, Return, history
  <2> HIDE DEF w
  <2>4. ~resetLate' => NoStrayReset'
    BY <2>1, <2>2, <2>3, <1>b, <1>d DEF NoStrayReset, Zero1
  <2>5. ~resetLate' => Settled'
    BY <2>1, <2>2, <2>3, <1>d DEF Settled, Runs, Divided
  <2> QED BY <2>3, <2>4, <2>5 DEF SurvivalInv
<1>14. ASSUME ExecuteTuning PROVE SurvivalInv'
  <2>1. /\ step = "idle" /\ step' = "tune" /\ op' # Idle
        /\ UNCHANGED <<control1, read1, signals, asked, clocked, resetLate>>
    BY <1>14, <1>c, Begun DEF ExecuteTuning, registers, history
  <2>2. ~resetLate' => NoStrayReset'
    BY <2>1, <1>d DEF NoStrayReset
  <2>3. ~resetLate' => Settled'
    BY <2>1, <1>d DEF Settled, Runs, Divided
  <2> QED BY <2>1, <2>2, <2>3 DEF SurvivalInv
<1>15. ASSUME Tune PROVE SurvivalInv'
  <2>1. /\ step = "tune" /\ step' = "idle" /\ op' = Idle /\ read1' = Zero1
        /\ UNCHANGED <<control1, signals, asked, clocked, resetLate>>
    BY <1>15 DEF Tune, Return, history
  <2>2. ~resetLate' => NoStrayReset'
    BY <2>1, <1>d DEF NoStrayReset, Zero1
  <2>3. ~resetLate' => Settled'
    BY <2>1, <1>d DEF Settled, Runs, Divided
  <2> QED BY <2>1, <2>2, <2>3 DEF SurvivalInv
<1>16. ASSUME NEW s \in {"SUCCESS", "INVALID_PARAMETER"}, Ignore(s) PROVE SurvivalInv'
  BY <1>16, <1>8 DEF Ignore, registers
<1>17. ASSUME UNCHANGED <<control1, signals, op, step, read1, history>> PROVE SurvivalInv'
  <2>1. ~resetLate' => NoStrayReset'
    BY <1>17, <1>d DEF NoStrayReset, history
  <2>2. ~resetLate' => Settled'
    BY <1>17, <1>d DEF Settled, Runs, Divided, history
  <2> QED BY <1>17, <2>1, <2>2, <1>c DEF SurvivalInv, history
<1>18. ASSUME NEW bit \in ResetBits, HostResets(bit) PROVE SurvivalInv'
  <2>1. bit \in control1.bits /\ UNCHANGED <<op, step, read1, asked, clocked, resetLate>>
    BY <1>18 DEF HostResets, locals, history
  <2>2. ~resetLate => step = "resetPoll"
    BY <2>1, <1>d DEF NoStrayReset
  <2>3. control1'.bits \subseteq control1.bits
    BY <1>18, <1>a, Registers, BitSets DEF HostResets, Zero1
  <2>4. ~resetLate' => NoStrayReset'
    BY <2>1, <2>2, <2>3, <1>d DEF NoStrayReset
  <2>5. ~resetLate' => Settled'
    BY <2>1, <2>2, <1>d DEF Settled, Runs, Divided
  <2> QED BY <2>1, <2>4, <2>5, <1>c DEF SurvivalInv
<1> QED
  <2>1. SlotIssueBusOperation => SurvivalInv'
    BY <1>1, <1>4, <1>9, <1>10, <1>11, <1>14, <1>16
       DEF SlotIssueBusOperation, SetSpeed, SetVoltage, SetSignaling, SetPresetValue,
           OtherOperation
  <2>2. OperationStep => SurvivalInv'
    BY <1>2, <1>3, <1>5, <1>6, <1>7, <1>12, <1>13, <1>15 DEF OperationStep
  <2>3. Host => SurvivalInv'
    BY <1>17, <1>18 DEF Host, HostStable, locals
  <2>4. EnableInterrupt \/ AcknowledgeError => SurvivalInv'
    BY <1>17 DEF EnableInterrupt, AcknowledgeError, locals
  <2>5. UNCHANGED vars => SurvivalInv'
    BY <1>17 DEF vars, registers, locals
  <2> QED BY <2>1, <2>2, <2>3, <2>4, <2>5 DEF Next

-----------------------------------------------------------------------------

THEOREM BusInvariant == Spec => []BusInv
<1>1. Init => BusInv
  BY InitClock
<1>2. BusInv /\ [Next]_vars => BusInv'
  BY StepClock
<1> QED BY <1>1, <1>2, PTL DEF Spec

\* Every register and every local of a bus operation keeps its type, the
\* divisor included.
THEOREM BusTypeCorrect == Spec => []TypeOK
<1>1. BusInv => TypeOK
  BY DEF BusInv
<1> QED BY <1>1, BusInvariant, PTL

\* The card is never clocked faster than SdhcSetClock was last asked for,
\* whatever operations follow, time out or are disturbed by the host.
THEOREM ClockIsNeverTooFast == Spec => []ClockNeverTooFast
<1>1. BusInv => ClockNeverTooFast
  BY DEF BusInv, ClockInv, Slow, ClockNeverTooFast
<1> QED BY <1>1, BusInvariant, PTL

LEMMA SurvivalInvariant == Spec => []SurvivalInv
<1>1. Init => SurvivalInv
  BY InitSurvives
<1>2. TypeOK /\ ClockInv /\ SurvivalInv /\ [Next]_vars => SurvivalInv'
  BY StepSurvives
<1>3. BusInv => TypeOK /\ ClockInv
  BY DEF BusInv
<1> QED BY <1>1, <1>2, <1>3, BusInvariant, PTL DEF Spec

\* After a SdhcSetClock that succeeded the clock runs at the setting it chose,
\* whatever operations follow, unless a reset outlasts the wait for it.
THEOREM ClockIsKept == Spec => []ClockSurvives
<1>1. SurvivalInv => ClockSurvives
  BY DEF SurvivalInv, Settled, Runs, Divided, ClockSurvives, ClockBits
<1> QED BY <1>1, SurvivalInvariant, PTL

\* No operation returns with the host in reset or its interrupts off, unless a
\* reset outlasts the wait for it.
THEOREM NoResetIsLeft == Spec => []ResetsAreOver
<1>1. SurvivalInv => ResetsAreOver
  BY DEF SurvivalInv, NoStrayReset, ResetsAreOver
<1> QED BY <1>1, SurvivalInvariant, PTL
=============================================================================
