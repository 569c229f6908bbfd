---------------------------- MODULE RootHubProofs ----------------------------
(* Theorems about the root hub port.                                        *)
EXTENDS RootHub, TLAPS

\* What is written is a value of the register, and never Idle.
LEMMA Values ==
    /\ Idle \notin Hprt0
    /\ \A r \in AllRequests \ {ClearFeature("C_PORT_RESET")}, h \in Hprt0 :
          RequestValue(r, h) \in Hprt0
    /\ \A h \in Hprt0 : ResetCompleteValue(h) \in Hprt0 /\ ResumeCompleteValue(h) \in Hprt0
  <1>1. Idle \notin Hprt0
    BY RequestsAssumption
  <1>2. ASSUME NEW r \in AllRequests \ {ClearFeature("C_PORT_RESET")}, NEW h \in Hprt0
        PROVE  RequestValue(r, h) \in Hprt0
    <2>1. Masked(h) \in Hprt0
      BY DEF Masked, Hprt0, Bits
    <2>2. /\ [Masked(h) EXCEPT !.prtres = TRUE] \in Hprt0
          /\ [Masked(h) EXCEPT !.prtpwr = FALSE] \in Hprt0
          /\ [Masked(h) EXCEPT !.prtrst = TRUE] \in Hprt0
          /\ [Masked(h) EXCEPT !.prtsusp = TRUE] \in Hprt0
          /\ [Masked(h) EXCEPT !.prtpwr = TRUE] \in Hprt0
      BY <2>1 DEF Hprt0, Bits
    <2>3. /\ [h EXCEPT !.prtconndet = TRUE] \in Hprt0
          /\ [h EXCEPT !.prtenchng = TRUE, !.prtena = FALSE] \in Hprt0
          /\ [h EXCEPT !.prtovrcurrchng = TRUE] \in Hprt0
      BY DEF Hprt0, Bits
    <2> QED BY <2>1, <2>2, <2>3 DEF RequestValue, SetFeatureValue, AllRequests, Acknowledgements,
                                    PortRequests, ClearFeature, SetFeature
  <1>3. ASSUME NEW h \in Hprt0
        PROVE  ResetCompleteValue(h) \in Hprt0 /\ ResumeCompleteValue(h) \in Hprt0
    BY DEF ResetCompleteValue, ResumeCompleteValue, Hprt0, Bits
  <1> QED BY <1>1, <1>2, <1>3

\* Writing a value leaves a value in the register.
LEMMA WriteTyped ==
    ASSUME hprt0 \in Hprt0, enabling \in BOOLEAN, NEW w \in Hprt0, Write(w)
    PROVE  hprt0' \in Hprt0 /\ enabling' \in BOOLEAN
  <1>1. Stored(w) \in Hprt0
    BY DEF Stored, Off, Hprt0, Bits, ChangeBits
  <1> QED BY <1>1 DEF Write

\* The request under way is one that writes: C_PORT_RESET is over at once.
Writing == request # ClearFeature("C_PORT_RESET")
TypeInv == TypeOK /\ Writing

LEMMA InitTyped == Init => TypeInv
  <1> SUFFICES ASSUME Init PROVE TypeInv
    OBVIOUS
  <1>1. hprt0 \in Hprt0
    BY DEF Init, Off, Hprt0, Bits
  <1>2. request # ClearFeature("C_PORT_RESET")
    BY RequestsAssumption DEF Init, AllRequests, Acknowledgements
  <1> QED BY <1>1, <1>2 DEF Init, TypeInv, TypeOK, Writing, Writers

LEMMA StepTyped == TypeInv /\ [Next]_vars => TypeInv'
  <1> SUFFICES ASSUME TypeInv, [Next]_vars PROVE TypeInv'
    OBVIOUS
  <1> USE DEF TypeInv, Writing
  <1>0. UNCHANGED vars => TypeInv'
    BY DEF vars, TypeOK
  <1>1. HwConnect => TypeInv'
    BY DEF HwConnect, TypeOK, Hprt0, Bits
  <1>2. HwDisconnect => TypeInv'
    <2> SUFFICES ASSUME HwDisconnect PROVE TypeInv'
      OBVIOUS
    <2>1. hprt0' \in Hprt0
      BY DEF HwDisconnect, TypeOK, Hprt0, Bits
    <2> QED BY <2>1 DEF HwDisconnect, TypeOK
  <1>3. HwEnable => TypeInv'
    BY DEF HwEnable, TypeOK, Hprt0, Bits
  <1>4. HwOverCurrent => TypeInv'
    BY DEF HwOverCurrent, TypeOK, Hprt0, Bits
  <1>5. ASSUME NEW r \in Requests, ReadForRequest(r) PROVE TypeInv'
    <2>1. r # Idle /\ hprt0 # Idle
      BY RequestsAssumption DEF TypeOK
    <2>2. copy'["hub"] = hprt0 /\ copy' \in [Writers -> Hprt0 \union {Idle}]
      BY <1>5 DEF ReadForRequest, TypeOK, Writers
    <2> QED BY <1>5, <2>1, <2>2 DEF ReadForRequest, TypeOK
  <1>6. ASSUME NEW r \in Requests, ClearCPortReset(r) PROVE TypeInv'
    BY <1>6 DEF ClearCPortReset, TypeOK
  <1>7. WriteForRequest => TypeInv'
    <2> SUFFICES ASSUME WriteForRequest PROVE TypeInv'
      OBVIOUS
    <2>1. /\ request \in AllRequests \ {ClearFeature("C_PORT_RESET")}
          /\ copy["hub"] \in Hprt0
      BY RequestsAssumption DEF WriteForRequest, TypeOK, Writers
    <2>2. RequestValue(request, copy["hub"]) \in Hprt0
      BY <2>1, Values
    <2>3. hprt0' \in Hprt0 /\ enabling' \in BOOLEAN
      BY <2>2, WriteTyped DEF WriteForRequest, TypeOK
    <2>4. timers' \subseteq Timers /\ ResetState' \in BOOLEAN /\ resetOwed' \in BOOLEAN
      BY DEF WriteForRequest, TypeOK, Timers
    <2>5. /\ copy' \in [Writers -> Hprt0 \union {Idle}] /\ copy'["hub"] = Idle
          /\ request' = Idle /\ notice' = notice
      BY DEF WriteForRequest, Complete, TypeOK, Writers
    <2>6. Idle # ClearFeature("C_PORT_RESET")
      BY RequestsAssumption DEF AllRequests, Acknowledgements
    <2> QED BY <2>3, <2>4, <2>5, <2>6 DEF TypeOK
  <1>8. InterruptTransfer => TypeInv'
    BY DEF InterruptTransfer, TypeOK
  <1>9. ASSUME NEW t \in WritingTimers, TimerReads(t) PROVE TypeInv'
    <2>1. /\ copy' \in [Writers -> Hprt0 \union {Idle}] /\ copy'["hub"] = copy["hub"]
          /\ timers' \subseteq Timers
      BY <1>9 DEF TimerReads, TypeOK, Writers, WritingTimers
    <2> QED BY <1>9, <2>1 DEF TimerReads, TypeOK
  <1>10. ResetComplete => TypeInv'
    <2> SUFFICES ASSUME ResetComplete PROVE TypeInv'
      OBVIOUS
    <2>1. copy["ResetComplete"] \in Hprt0
      BY DEF ResetComplete, TypeOK, Writers, WritingTimers
    <2>2. hprt0' \in Hprt0 /\ enabling' \in BOOLEAN
      BY <2>1, Values, WriteTyped DEF ResetComplete, TypeOK
    <2>3. /\ copy' \in [Writers -> Hprt0 \union {Idle}] /\ copy'["hub"] = copy["hub"]
          /\ timers' \subseteq Timers
      BY DEF ResetComplete, TypeOK, Writers, Timers
    <2> QED BY <2>2, <2>3 DEF ResetComplete, TypeOK
  <1>11. ResumeComplete => TypeInv'
    <2> SUFFICES ASSUME ResumeComplete PROVE TypeInv'
      OBVIOUS
    <2>1. copy["ResumeComplete"] \in Hprt0
      BY DEF ResumeComplete, TypeOK, Writers, WritingTimers
    <2>2. hprt0' \in Hprt0 /\ enabling' \in BOOLEAN
      BY <2>1, Values, WriteTyped DEF ResumeComplete, TypeOK
    <2>3. copy' \in [Writers -> Hprt0 \union {Idle}] /\ copy'["hub"] = copy["hub"]
      BY DEF ResumeComplete, TypeOK, Writers
    <2> QED BY <2>2, <2>3 DEF ResumeComplete, TypeOK
  <1>12. ResetSafeComplete => TypeInv'
    BY DEF ResetSafeComplete, SetAgain, TypeOK
  <1>13. PortInterruptDpc => TypeInv'
    BY DEF PortInterruptDpc, TypeOK
  <1> QED BY <1>0, <1>1, <1>2, <1>3, <1>4, <1>5, <1>6, <1>7, <1>8, <1>9, <1>10,
             <1>11, <1>12, <1>13 DEF Next, Hardware, Hub, Callbacks

\* The types of the port's state are right (Device.c:20-41).
THEOREM PortTyped == Spec => []TypeOK
  <1>1. Spec => []TypeInv
    BY InitTyped, StepTyped, PTL DEF Spec
  <1>2. TypeInv => TypeOK
    BY DEF TypeInv
  <1> QED BY <1>1, <1>2, PTL

-----------------------------------------------------------------------------
\* A reset that has not been notified has a timer or a callback working on it,
\* whatever the hub driver asks for and however requests and timers interleave
\* (Device.c:773, 1210, 1244).
THEOREM ResetAlwaysInHand == Spec => []ResetInHand
  <1>1. Init => ResetInHand
    BY DEF Init, ResetInHand
  <1>2. TypeInv /\ ResetInHand /\ [Next]_vars => ResetInHand'
    <2> SUFFICES ASSUME TypeInv, ResetInHand, [Next]_vars PROVE ResetInHand'
      OBVIOUS
    <2> USE DEF ResetInHand, InProgress
    <2>0. UNCHANGED <<timers, copy, resetOwed>> => ResetInHand'
      OBVIOUS
    <2>1. ASSUME NEW r \in Requests, ReadForRequest(r) PROVE ResetInHand'
      BY <2>1 DEF ReadForRequest, TypeInv, TypeOK, Writers, WritingTimers
    <2>2. WriteForRequest => ResetInHand'
      <3> SUFFICES ASSUME WriteForRequest PROVE ResetInHand'
        OBVIOUS
      <3>1. copy'["ResetComplete"] = copy["ResetComplete"] /\ timers \subseteq timers'
        BY DEF WriteForRequest, TypeInv, TypeOK, Writers, WritingTimers
      <3>2. resetOwed' => resetOwed \/ "ResetComplete" \in timers'
        BY DEF WriteForRequest
      <3> QED BY <3>1, <3>2
    <2>3. ASSUME NEW t \in WritingTimers, TimerReads(t) PROVE ResetInHand'
      <3>1. hprt0 # Idle
        BY Values DEF TypeInv, TypeOK
      <3>2. CASE t = "ResetComplete"
        BY <2>3, <3>1, <3>2 DEF TimerReads, TypeInv, TypeOK, Writers, WritingTimers
      <3>3. CASE t = "ResumeComplete"
        BY <2>3, <3>3 DEF TimerReads, TypeInv, TypeOK, Writers, WritingTimers
      <3> QED BY <3>2, <3>3 DEF WritingTimers
    <2>4. ResetComplete => ResetInHand'
      BY DEF ResetComplete
    <2>5. ResumeComplete => ResetInHand'
      BY DEF ResumeComplete, TypeInv, TypeOK, Writers, WritingTimers
    <2>6. ResetSafeComplete => ResetInHand'
      BY DEF ResetSafeComplete, SetAgain
    <2> QED BY <2>0, <2>1, <2>2, <2>3, <2>4, <2>5, <2>6
            DEF Next, Hardware, Hub, Callbacks, vars, HwConnect, HwDisconnect, HwEnable,
                HwOverCurrent, ClearCPortReset, InterruptTransfer, PortInterruptDpc
  <1>3. Spec => []TypeInv
    BY InitTyped, StepTyped, PTL DEF Spec
  <1> QED BY <1>1, <1>2, <1>3, PTL DEF Spec

-----------------------------------------------------------------------------
(* A hub driver that waits: at most one of the request, the reset and the   *)
(* resume is under way, so no copy of the register carries a reset or a     *)
(* resume bit that another writer has to take back.                         *)

AloneInv ==
    /\ request # Idle => ~resetOwed /\ ~Resuming
    /\ Resuming => ~resetOwed
    /\ InProgress("ResetComplete") => resetOwed
    /\ "ResetSafeComplete" \in timers => resetOwed /\ ~InProgress("ResetComplete")
    /\ \A t \in WritingTimers : copy[t] # Idle => t \notin timers

CopyInv ==
    /\ request # Idle => ~copy["hub"].prtrst /\ ~copy["hub"].prtres
    /\ copy["ResetComplete"] # Idle => ~copy["ResetComplete"].prtres
    /\ copy["ResumeComplete"] # Idle => ~copy["ResumeComplete"].prtrst

EndInv == AloneInv /\ CopyInv /\ ResetEnds /\ ResumeEnds

\* What each writer leaves of the two signals.
LEMMA RequestSignals ==
    ASSUME NEW h \in Hprt0, NEW r \in AllRequests \ {ClearFeature("C_PORT_RESET")}
    PROVE  /\ RequestValue(r, h).prtrst => h.prtrst \/ r = SetFeature("PORT_RESET")
           /\ RequestValue(r, h).prtres => h.prtres \/ r = ClearFeature("PORT_SUSPEND")
  <1>1. /\ Masked(h).prtrst = h.prtrst /\ Masked(h).prtres = h.prtres
        /\ Masked(h) \in Hprt0
    BY DEF Masked, Hprt0, Bits
  <1>2. CASE r.op = "Set"
    <2>1. r \in {SetFeature(f) : f \in {"PORT_RESET", "PORT_SUSPEND", "PORT_POWER"}}
      BY <1>2 DEF AllRequests, Acknowledgements, PortRequests, ClearFeature, SetFeature
    <2>2. RequestValue(r, h) = SetFeatureValue(r, h)
      BY <2>1 DEF RequestValue, ClearFeature, SetFeature
    <2> QED BY <1>1, <2>1, <2>2 DEF SetFeatureValue, SetFeature, Hprt0, Bits
  <1>3. CASE r.op # "Set"
    <2>1. r \in {ClearFeature(f) : f \in {"PORT_ENABLE", "PORT_SUSPEND", "PORT_POWER",
                 "C_PORT_CONNECTION", "C_PORT_ENABLE", "C_PORT_OVER_CURRENT"}}
      BY <1>3 DEF AllRequests, Acknowledgements, PortRequests, ClearFeature, SetFeature
    <2> QED BY <1>1, <2>1 DEF RequestValue, ClearFeature, Hprt0, Bits
  <1> QED BY <1>2, <1>3

LEMMA CallbackSignals ==
    ASSUME NEW h \in Hprt0
    PROVE  /\ ~ResetCompleteValue(h).prtrst
           /\ ResetCompleteValue(h).prtres => h.prtres
           /\ ~ResumeCompleteValue(h).prtres
           /\ ResumeCompleteValue(h).prtrst => h.prtrst
  BY DEF ResetCompleteValue, ResumeCompleteValue, Hprt0, Bits

LEMMA WrittenSignals ==
    ASSUME NEW w \in Hprt0, Write(w)
    PROVE  (hprt0'.prtrst => w.prtrst) /\ (hprt0'.prtres => w.prtres)
  <1>1. (Stored(w).prtrst => w.prtrst) /\ (Stored(w).prtres => w.prtres)
    BY DEF Stored, Off, ChangeBits, Bits, Hprt0
  <1> QED BY <1>1 DEF Write

LEMMA EndStep ==
    ASSUME HubWaits = TRUE, TypeInv, EndInv, [Next]_vars
    PROVE  EndInv'
  <1> USE DEF EndInv, AloneInv, CopyInv, ResetEnds, ResumeEnds, Resuming, InProgress
  <1>t. /\ hprt0 # Idle /\ hprt0 \in Hprt0 /\ copy \in [Writers -> Hprt0 \union {Idle}]
        /\ Writers = {"hub", "ResetComplete", "ResumeComplete"}
        /\ WritingTimers = {"ResetComplete", "ResumeComplete"}
        /\ (request = Idle <=> copy["hub"] = Idle)
        /\ request # Idle => request \in AllRequests \ {ClearFeature("C_PORT_RESET")}
    BY Values, RequestsAssumption DEF TypeInv, Writing, TypeOK, Writers, WritingTimers
  <1>0. ASSUME UNCHANGED <<request, copy, timers, resetOwed>>,
               hprt0'.prtrst => hprt0.prtrst, hprt0'.prtres => hprt0.prtres
        PROVE  EndInv'
    BY <1>0
  <1>1. HwConnect \/ HwDisconnect \/ HwEnable \/ HwOverCurrent => EndInv'
    <2> SUFFICES ASSUME HwConnect \/ HwDisconnect \/ HwEnable \/ HwOverCurrent
                 PROVE  EndInv'
      OBVIOUS
    <2>1. hprt0'.prtrst = hprt0.prtrst /\ hprt0'.prtres = hprt0.prtres
      BY <1>t DEF HwConnect, HwDisconnect, HwEnable, HwOverCurrent, Hprt0, Bits
    <2>2. UNCHANGED <<request, copy, timers, resetOwed>>
      BY DEF HwConnect, HwDisconnect, HwEnable, HwOverCurrent
    <2> QED BY <1>0, <2>1, <2>2
  <1>2. ASSUME NEW r \in Requests, ReadForRequest(r) PROVE EndInv'
    <2>1. /\ ~resetOwed /\ ~Resuming /\ request = Idle
          /\ UNCHANGED <<timers, resetOwed, hprt0>>
      BY <1>2 DEF ReadForRequest, HubMayAsk
    <2>2. /\ copy'["hub"] = hprt0
          /\ copy'["ResetComplete"] = copy["ResetComplete"]
          /\ copy'["ResumeComplete"] = copy["ResumeComplete"]
      BY <1>2, <1>t DEF ReadForRequest
    <2> QED BY <1>t, <2>1, <2>2
  <1>3. WriteForRequest => EndInv'
    <2> SUFFICES ASSUME WriteForRequest PROVE EndInv'
      OBVIOUS
    <2>1. /\ request # Idle /\ ~resetOwed /\ ~Resuming /\ ~InProgress("ResetComplete")
          /\ "ResetSafeComplete" \notin timers
          /\ request' = Idle
      BY DEF WriteForRequest, Complete
    <2>2. /\ copy'["ResetComplete"] = Idle /\ copy'["ResumeComplete"] = Idle
      BY <1>t, <2>1 DEF WriteForRequest
    <2>3. copy["hub"] \in Hprt0
      BY <1>t, <2>1
    <2>4. RequestValue(request, copy["hub"]) \in Hprt0
      BY <1>t, <2>1, <2>3, Values
    <2>5. /\ hprt0'.prtrst => request = SetFeature("PORT_RESET")
          /\ hprt0'.prtres => request = ClearFeature("PORT_SUSPEND")
      BY <1>t, <2>1, <2>3, <2>4, WrittenSignals, RequestSignals DEF WriteForRequest
    <2>6. CASE request = SetFeature("PORT_RESET")
      <3>1. request # ClearFeature("PORT_SUSPEND")
        BY <2>6 DEF SetFeature, ClearFeature
      <3>2. timers' = timers \union {"ResetComplete"} /\ resetOwed'
        BY <2>6 DEF WriteForRequest
      <3> QED BY <1>t, <2>1, <2>2, <2>5, <3>1, <3>2
    <2>7. CASE request = ClearFeature("PORT_SUSPEND")
      <3>1. request # SetFeature("PORT_RESET")
        BY <2>7 DEF SetFeature, ClearFeature
      <3>2. timers' = timers \union {"ResumeComplete"} /\ ~resetOwed'
        BY <2>1, <2>7, <3>1 DEF WriteForRequest
      <3> QED BY <1>t, <2>1, <2>2, <2>5, <3>1, <3>2
    <2>8. CASE request \notin {SetFeature("PORT_RESET"), ClearFeature("PORT_SUSPEND")}
      <3>1. timers' = timers /\ ~resetOwed'
        BY <2>1, <2>8 DEF WriteForRequest
      <3> QED BY <1>t, <2>1, <2>2, <2>5, <2>8, <3>1
    <2> QED BY <2>6, <2>7, <2>8
  <1>4. TimerReads("ResetComplete") => EndInv'
    <2> SUFFICES ASSUME TimerReads("ResetComplete") PROVE EndInv'
      OBVIOUS
    <2>1. /\ copy'["hub"] = copy["hub"] /\ copy'["ResetComplete"] = hprt0
          /\ copy'["ResumeComplete"] = copy["ResumeComplete"]
      BY <1>t DEF TimerReads
    <2>2. /\ timers' = timers \ {"ResetComplete"} /\ "ResetComplete" \in timers
          /\ UNCHANGED <<hprt0, request, resetOwed>>
      BY DEF TimerReads
    <2> QED BY <1>t, <2>1, <2>2
  <1>5. TimerReads("ResumeComplete") => EndInv'
    <2> SUFFICES ASSUME TimerReads("ResumeComplete") PROVE EndInv'
      OBVIOUS
    <2>1. /\ copy'["hub"] = copy["hub"] /\ copy'["ResumeComplete"] = hprt0
          /\ copy'["ResetComplete"] = copy["ResetComplete"]
      BY <1>t DEF TimerReads
    <2>2. /\ timers' = timers \ {"ResumeComplete"} /\ "ResumeComplete" \in timers
          /\ UNCHANGED <<hprt0, request, resetOwed>>
      BY DEF TimerReads
    <2> QED BY <1>t, <2>1, <2>2
  <1>6. ResetComplete => EndInv'
    <2> SUFFICES ASSUME ResetComplete PROVE EndInv'
      OBVIOUS
    <2>1. /\ copy'["hub"] = copy["hub"] /\ copy'["ResetComplete"] = Idle
          /\ copy'["ResumeComplete"] = copy["ResumeComplete"]
          /\ copy["ResetComplete"] \in Hprt0 /\ copy["ResetComplete"] # Idle
      BY <1>t DEF ResetComplete
    <2>2. ~hprt0'.prtrst /\ ~hprt0'.prtres
      <3>1. ResetCompleteValue(copy["ResetComplete"]) \in Hprt0
        BY <2>1, Values
      <3>2. ~copy["ResetComplete"].prtres
        BY <2>1
      <3> QED BY <2>1, <3>1, <3>2, CallbackSignals, WrittenSignals DEF ResetComplete
    <2>3. /\ timers' = timers \union {"ResetSafeComplete"}
          /\ UNCHANGED <<request, resetOwed>>
      BY DEF ResetComplete
    <2> QED BY <1>t, <2>1, <2>2, <2>3
  <1>7. ResumeComplete => EndInv'
    <2> SUFFICES ASSUME ResumeComplete PROVE EndInv'
      OBVIOUS
    <2>1. /\ copy'["hub"] = copy["hub"] /\ copy'["ResumeComplete"] = Idle
          /\ copy'["ResetComplete"] = copy["ResetComplete"]
          /\ copy["ResumeComplete"] \in Hprt0 /\ copy["ResumeComplete"] # Idle
      BY <1>t DEF ResumeComplete
    <2>2. ~hprt0'.prtrst /\ ~hprt0'.prtres
      <3>1. ResumeCompleteValue(copy["ResumeComplete"]) \in Hprt0
        BY <2>1, Values
      <3>2. ~copy["ResumeComplete"].prtrst
        BY <2>1
      <3> QED BY <2>1, <3>1, <3>2, CallbackSignals, WrittenSignals DEF ResumeComplete
    <2>3. UNCHANGED <<timers, request, resetOwed>>
      BY DEF ResumeComplete
    <2> QED BY <1>t, <2>1, <2>2, <2>3
  <1>8. ResetSafeComplete => EndInv'
    <2> SUFFICES ASSUME ResetSafeComplete PROVE EndInv'
      OBVIOUS
    <2>1. UNCHANGED <<hprt0, request, copy>>
      BY DEF ResetSafeComplete
    <2>2. CASE Changed(hprt0)
      <3>1. timers' = timers \ {"ResetSafeComplete"} /\ ~resetOwed'
        BY <2>2 DEF ResetSafeComplete, PortIsSafe
      <3>2. "ResetSafeComplete" \in timers
        BY DEF ResetSafeComplete
      <3> QED BY <1>t, <2>1, <3>1, <3>2
    <2>3. CASE ~Changed(hprt0)
      BY <1>0, <2>1, <2>3 DEF ResetSafeComplete, PortIsSafe, SetAgain
    <2> QED BY <2>2, <2>3
  <1>9. (\E r \in Requests : ClearCPortReset(r)) \/ InterruptTransfer \/ PortInterruptDpc
        \/ UNCHANGED vars => EndInv'
    BY <1>0 DEF ClearCPortReset, InterruptTransfer, PortInterruptDpc, vars
  <1> QED BY <1>1, <1>2, <1>3, <1>4, <1>5, <1>6, <1>7, <1>8, <1>9
          DEF Next, Hardware, Hub, Callbacks, WritingTimers

LEMMA EndInvariant ==
    ASSUME HubWaits = TRUE
    PROVE  Spec => [](TypeInv /\ EndInv)
  <1>1. Init => EndInv
    <2> SUFFICES ASSUME Init PROVE EndInv
      OBVIOUS
    <2>1. ~hprt0.prtrst /\ ~hprt0.prtres
      BY DEF Init, Off, Bits
    <2> QED BY <2>1 DEF Init, EndInv, AloneInv, CopyInv, ResetEnds, ResumeEnds, Resuming,
                        InProgress, Writers, WritingTimers
  <1>2. (TypeInv /\ EndInv) /\ [Next]_vars => (TypeInv /\ EndInv)'
    BY StepTyped, EndStep
  <1> QED BY InitTyped, <1>1, <1>2, PTL DEF Spec

\* Under a hub driver that waits for the end of a reset and of a resume, no reset
\* signal outlasts its timer (Device.c:765-776, 1201).
THEOREM ResetSignalsEnd ==
    ASSUME HubWaits = TRUE
    PROVE  Spec => []ResetEnds
  <1>1. EndInv => ResetEnds
    BY DEF EndInv
  <1> QED BY <1>1, EndInvariant, PTL

\* Nor does a resume signal (Device.c:581-591, 1275).
THEOREM ResumeSignalsEnd ==
    ASSUME HubWaits = TRUE
    PROVE  Spec => []ResumeEnds
  <1>1. EndInv => ResumeEnds
    BY DEF EndInv
  <1> QED BY <1>1, EndInvariant, PTL

-----------------------------------------------------------------------------
\* When the end of a reset has been notified nobody is left to write the register.
NoticeInv ==
    notice = "reset" => /\ Changed(hprt0) /\ request = Idle
                        /\ ~resetOwed /\ ~Resuming

LEMMA NoticeStep ==
    ASSUME HubWaits = TRUE, TypeInv, EndInv, NoticeInv, [Next]_vars
    PROVE  NoticeInv'
  <1> SUFFICES ASSUME notice' = "reset" PROVE NoticeInv'
    BY DEF NoticeInv
  <1>1. CASE notice = "reset"
    <2>1. Changed(hprt0) /\ request = Idle /\ ~resetOwed /\ ~Resuming
      BY <1>1 DEF NoticeInv
    <2>2. ~InProgress("ResetComplete") /\ "ResetSafeComplete" \notin timers
      BY <2>1 DEF EndInv, AloneInv
    <2>3. /\ \A r \in Requests : ~ReadForRequest(r) /\ ~ClearCPortReset(r)
          /\ ~WriteForRequest /\ ~InterruptTransfer /\ ~PortInterruptDpc
      BY <1>1, <2>1 DEF ReadForRequest, ClearCPortReset, HubMayAsk, WriteForRequest,
                        InterruptTransfer, PortInterruptDpc
    <2>4. /\ \A t \in WritingTimers : ~TimerReads(t)
          /\ ~ResetComplete /\ ~ResumeComplete /\ ~ResetSafeComplete
      BY <2>1, <2>2 DEF Resuming, InProgress, WritingTimers, TimerReads, ResetComplete,
                        ResumeComplete, ResetSafeComplete
    <2>5. Hardware \/ UNCHANGED vars
      BY <2>3, <2>4 DEF Next, Hub, Callbacks
    <2>6. UNCHANGED <<request, copy, timers, resetOwed>>
      BY <2>5 DEF Hardware, HwConnect, HwDisconnect, HwEnable, HwOverCurrent, vars
    <2>7. \A b \in ChangeBits : hprt0[b] => hprt0'[b]
      BY <2>5 DEF Hardware, HwConnect, HwDisconnect, HwEnable, HwOverCurrent, vars,
                  ChangeBits, TypeInv, TypeOK, Hprt0, Bits
    <2> QED BY <2>1, <2>6, <2>7 DEF NoticeInv, Changed, Resuming
  <1>2. CASE notice # "reset"
    <2>1. ResetSafeComplete /\ PortIsSafe
      BY <1>2 DEF Next, Hardware, Hub, Callbacks, HwConnect, HwDisconnect, HwEnable,
                  HwOverCurrent, ReadForRequest, ClearCPortReset, WriteForRequest,
                  InterruptTransfer, TimerReads, ResetComplete, ResumeComplete,
                  ResetSafeComplete, PortInterruptDpc, vars
    <2>2. /\ "ResetSafeComplete" \in timers /\ Changed(hprt0) /\ ~resetOwed'
          /\ timers' = timers \ {"ResetSafeComplete"}
          /\ UNCHANGED <<hprt0, request, copy>>
      BY <2>1 DEF ResetSafeComplete, PortIsSafe
    <2>3. request = Idle /\ ~Resuming
      BY <2>2 DEF EndInv, AloneInv
    <2> QED BY <2>2, <2>3 DEF NoticeInv, Changed, Resuming
  <1> QED BY <1>1, <1>2

\* Under a hub driver that waits, the interrupt transfer that follows the end of a
\* reset has a change to report (Device.c:1238, 371).
THEOREM NoticesAreTrue ==
    ASSUME HubWaits = TRUE
    PROVE  Spec => []NoticeFindsChange
  <1>1. Init => NoticeInv
    BY DEF Init, NoticeInv
  <1>2. TypeInv /\ EndInv /\ NoticeInv /\ [Next]_vars => NoticeInv'
    BY NoticeStep
  <1>3. NoticeInv => NoticeFindsChange
    BY DEF NoticeInv, NoticeFindsChange
  <1> QED BY <1>1, <1>2, <1>3, EndInvariant, PTL DEF Spec

-----------------------------------------------------------------------------
\* What a port feature request writes is a one to no change bit.
LEMMA RequestsMask ==
    ASSUME NEW h \in Hprt0, NEW r \in PortRequests, NEW b \in ChangeBits
    PROVE  ~RequestValue(r, h)[b]
  <1>1. Masked(h) \in Hprt0 /\ ~Masked(h)[b]
    BY DEF Masked, Hprt0, Bits, ChangeBits
  <1> QED BY <1>1 DEF RequestValue, SetFeatureValue, PortRequests, ClearFeature, SetFeature,
                      Hprt0, Bits, ChangeBits

\* A port feature request keeps every change that arrives before it writes, for
\* every set of requests and a hub driver that does not wait as well
\* (Device.c:560-563 and the like).
THEOREM RequestsKeepChanges == Spec => PortFeaturesKeepChanges
  <1>1. TypeInv /\ [Next]_vars =>
          [WriteForRequest /\ request \in PortRequests /\ hprt0'.prtpwr
             => \A b \in ChangeBits : hprt0[b] => hprt0'[b]]_vars
    <2> SUFFICES ASSUME TypeInv, WriteForRequest, request \in PortRequests, hprt0'.prtpwr,
                        NEW b \in ChangeBits, hprt0[b]
                 PROVE  hprt0'[b]
      OBVIOUS
    <2> DEFINE w == RequestValue(request, copy["hub"])
    <2>1. copy["hub"] \in Hprt0
      BY DEF TypeInv, TypeOK, WriteForRequest, Writers
    <2>2. ~w[b]
      BY <2>1, RequestsMask
    <2>3. hprt0' = Stored(w)
      BY DEF WriteForRequest, Write
    <2> HIDE DEF w
    <2>4. w.prtpwr
      BY <2>3 DEF Stored, Off, Bits
    <2> QED BY <2>2, <2>3, <2>4 DEF Stored, ChangeBits, Bits
  <1>2. Spec => []TypeInv
    BY InitTyped, StepTyped, PTL DEF Spec
  <1> QED BY <1>1, <1>2, PTL DEF Spec, PortFeaturesKeepChanges
=============================================================================
