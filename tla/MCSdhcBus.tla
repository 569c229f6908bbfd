------------------------------ MODULE MCSdhcBus ------------------------------
(* The Arasan host of the Raspberry Pi, and a host of a later version whose  *)
(* divisors are only computed.                                               *)
EXTENDS SdhcBus

\* Identification, default speed, more than the base clock.
CardFrequencies == {400, 25000, 300000}
SomeSpeeds == {"High", "DDR50", "HS200"}

Later == INSTANCE SdhcBus WITH SpecVersion <- 3, BaseClockFrequencyKhz <- 50000

\* The shifted divisor is not above the frequency in whole kHz, and the next
\* smaller one is.
ASSUME LaterDivisors ==
    \A f \in 196..600 \union {12499, 12500, 25000, 49999, 50000, 60000} :
        LET d == Later!CalcClockFrequency(f)
        IN  /\ Later!NotAbove(d, f)
            /\ d > 0 => ~Later!NotAbove(d \div 2, f)

\* The ten bit divisor is the least of all the register can hold.
ASSUME LeastDivisors ==
    \A f \in 123..700 \union {12500, 25000, 41666, 41667, 125000, 249999, 250000, 300000} :
        LET d == CalcClockFrequency(f)
        IN  /\ NotAbove(d, f)
            /\ d > 0 => ~NotAbove(d - 1, f)
=============================================================================
