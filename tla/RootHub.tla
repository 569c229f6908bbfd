------------------------------- MODULE RootHub -------------------------------
(***************************************************************************)
(* The single root hub port of dwusb (Device.c): the port register hprt0,  *)
(* which is shared by the port feature requests of the hub driver and by   *)
(* the timers that end a reset and a resume.  Each of them reads the       *)
(* register, changes the copy and writes it back, and nothing keeps one    *)
(* from running between the two halves of another.                         *)
(*                                                                         *)
(* Four bits of hprt0 are cleared by writing a one: the three change bits  *)
(* and prtena, for which it means that the port is disabled.  Line state,  *)
(* speed, test mode and the over-current level are left out.               *)
(***************************************************************************)
EXTENDS FiniteSets

CONSTANTS
    Requests,  \* the port feature requests the hub driver makes
    HubWaits,  \* it makes none while a reset or a resume is under way
    Idle       \* no request, no copy

Bits == {"prtconnsts", "prtconndet", "prtena", "prtenchng", "prtovrcurrchng",
         "prtres", "prtsusp", "prtrst", "prtpwr"}
Hprt0 == [Bits -> BOOLEAN]

\* The bits that interrupt the host and that an interrupt transfer reports.
ChangeBits == {"prtconndet", "prtenchng", "prtovrcurrchng"}

ClearFeature(f) == [op |-> "Clear", feature |-> f]
SetFeature(f) == [op |-> "Set", feature |-> f]

\* The features whose requests touch hprt0 or ResetState.  The others only
\* succeed, or stall.
Acknowledgements == {ClearFeature(f) : f \in {"C_PORT_CONNECTION",
                        "C_PORT_RESET", "C_PORT_ENABLE", "C_PORT_OVER_CURRENT"}}
PortRequests == {ClearFeature(f) : f \in {"PORT_ENABLE", "PORT_SUSPEND", "PORT_POWER"}}
                \union {SetFeature(f) : f \in {"PORT_RESET", "PORT_SUSPEND", "PORT_POWER"}}
AllRequests == Acknowledgements \union PortRequests

ASSUME RequestsAssumption ==
    /\ Requests \subseteq AllRequests
    /\ HubWaits \in BOOLEAN
    /\ Idle \notin AllRequests \union Hprt0

Timers == {"ResetComplete", "ResumeComplete", "ResetSafeComplete"}
\* The timers whose callbacks write hprt0.
WritingTimers == {"ResetComplete", "ResumeComplete"}

VARIABLES
    hprt0,       \* the register
    enabling,    \* the core is about to enable the port: a reset has ended
    ResetState,  \* reported as the reset change of the port
    request,     \* the request under way, or Idle
    copy,        \* the copy of hprt0 each writer holds, or Idle
    timers,      \* the timers that are set
    notice,      \* UcxRootHubPortChanged was called, and by whom
    resetOwed    \* history: the end of a reset has not been notified yet

vars == <<hprt0, enabling, ResetState, request, copy, timers, notice, resetOwed>>

Writers == {"hub"} \union WritingTimers

TypeOK ==
    /\ hprt0 \in Hprt0
    /\ enabling \in BOOLEAN /\ ResetState \in BOOLEAN /\ resetOwed \in BOOLEAN
    /\ request \in Requests \union {Idle}
    /\ copy \in [Writers -> Hprt0 \union {Idle}]
    /\ timers \subseteq Timers
    /\ notice \in {"none", "port", "reset"}
    /\ request = Idle <=> copy["hub"] = Idle

\* The port interrupt of the core, and what an interrupt transfer reports.
Changed(h) == \E b \in ChangeBits : h[b]

-----------------------------------------------------------------------------
(* The core                                                                 *)

\* A register from which power, and with it everything else, is gone.
Off == [b \in Bits |-> FALSE]

\* hprt0 after the value w is written to it.
Stored(w) ==
    IF ~w.prtpwr THEN Off
    ELSE [b \in Bits |->
            IF b = "prtconnsts" THEN hprt0[b]
            ELSE IF b \in ChangeBits \union {"prtena"} THEN hprt0[b] /\ ~w[b]
            ELSE w[b]]

\* The core enables the port after the reset signal ends.
Write(w) ==
    /\ hprt0' = Stored(w)
    /\ enabling' = /\ Stored(w).prtconnsts
                   /\ ~Stored(w).prtrst
                   /\ hprt0.prtrst \/ enabling

HwConnect ==
    /\ hprt0.prtpwr /\ ~hprt0.prtconnsts
    /\ hprt0' = [hprt0 EXCEPT !.prtconnsts = TRUE, !.prtconndet = TRUE]
    /\ UNCHANGED <<enabling, ResetState, request, copy, timers, notice, resetOwed>>

HwDisconnect ==
    /\ hprt0.prtconnsts
    /\ hprt0' = [hprt0 EXCEPT !.prtconnsts = FALSE, !.prtena = FALSE,
                              !.prtenchng = @ \/ hprt0.prtena]
    /\ enabling' = FALSE
    /\ UNCHANGED <<ResetState, request, copy, timers, notice, resetOwed>>

HwEnable ==
    /\ enabling
    /\ hprt0' = [hprt0 EXCEPT !.prtena = TRUE, !.prtenchng = TRUE]
    /\ enabling' = FALSE
    /\ UNCHANGED <<ResetState, request, copy, timers, notice, resetOwed>>

HwOverCurrent ==
    /\ hprt0.prtpwr /\ ~hprt0.prtovrcurrchng
    /\ hprt0' = [hprt0 EXCEPT !.prtovrcurrchng = TRUE]
    /\ UNCHANGED <<enabling, ResetState, request, copy, timers, notice, resetOwed>>

-----------------------------------------------------------------------------
(* Requests                                                                 *)

\* Mutant: only prtena is masked, the changes are written back.
MaskedEnableOnly(h) == [h EXCEPT !.prtena = FALSE]

\* The copy of hprt0 with the bits that a one would clear set to zero.
Masked(h) == [h EXCEPT !.prtconndet = FALSE, !.prtena = FALSE,
                       !.prtenchng = FALSE, !.prtovrcurrchng = FALSE]

\* What a request writes, having read h.  C_PORT_RESET writes nothing.
SetFeatureValue(r, h) ==
    CASE r.feature = "PORT_RESET" -> [Masked(h) EXCEPT !.prtrst = TRUE]
      [] r.feature = "PORT_SUSPEND" -> [Masked(h) EXCEPT !.prtsusp = TRUE]
      [] r.feature = "PORT_POWER" -> [Masked(h) EXCEPT !.prtpwr = TRUE]
RequestValue(r, h) ==
    CASE r = ClearFeature("PORT_ENABLE") -> Masked(h)
      [] r = ClearFeature("PORT_SUSPEND") -> [Masked(h) EXCEPT !.prtres = TRUE]
      [] r = ClearFeature("PORT_POWER") -> [Masked(h) EXCEPT !.prtpwr = FALSE]
      [] r = ClearFeature("C_PORT_CONNECTION") -> [h EXCEPT !.prtconndet = TRUE]
      [] r = ClearFeature("C_PORT_ENABLE") ->
            [h EXCEPT !.prtenchng = TRUE, !.prtena = FALSE]
      [] r = ClearFeature("C_PORT_OVER_CURRENT") -> [h EXCEPT !.prtovrcurrchng = TRUE]
      [] r.op = "Set" -> SetFeatureValue(r, h)

Resuming == "ResumeComplete" \in timers \/ copy["ResumeComplete"] # Idle

\* The hub driver makes one request at a time, resets a port with a device,
\* resumes a port it has suspended, and first looks at the port when told to.
HubMayAsk(r) ==
    /\ request = Idle
    /\ notice = "none"
    /\ r.feature = "PORT_RESET" => hprt0.prtconnsts
    /\ r.feature = "PORT_SUSPEND" => hprt0.prtena /\ (r.op = "Clear" <=> hprt0.prtsusp)
    /\ HubWaits => ~resetOwed /\ ~Resuming

ReadForRequest(r) ==
    /\ HubMayAsk(r)
    /\ r # ClearFeature("C_PORT_RESET")
    /\ request' = r
    /\ copy' = [copy EXCEPT !["hub"] = hprt0]
    /\ UNCHANGED <<hprt0, enabling, ResetState, timers, notice, resetOwed>>

ClearCPortReset(r) ==
    /\ HubMayAsk(r)
    /\ r = ClearFeature("C_PORT_RESET")
    /\ ResetState' = FALSE
    /\ UNCHANGED <<hprt0, enabling, request, copy, timers, notice, resetOwed>>

\* Mutant: an exit that forgets to complete the request.
ForgetToComplete == UNCHANGED request
Complete == request' = Idle

\* The second half of a request: the register, the reset state, the timer.
WriteForRequest ==
    /\ request # Idle
    /\ Write(RequestValue(request, copy["hub"]))
    /\ IF request = SetFeature("PORT_RESET")
       THEN /\ ResetState' = TRUE
            /\ timers' = timers \union {"ResetComplete"}
            /\ resetOwed' = TRUE
       ELSE /\ timers' = IF request = ClearFeature("PORT_SUSPEND")
                         THEN timers \union {"ResumeComplete"} ELSE timers
            /\ UNCHANGED <<ResetState, resetOwed>>
    /\ Complete
    /\ copy' = [copy EXCEPT !["hub"] = Idle]
    /\ UNCHANGED notice

\* RootHub_UcxEvtInterruptTransfer: the hub driver looks at the changes.
InterruptTransfer ==
    /\ request = Idle /\ notice # "none"
    /\ notice' = "none"
    /\ UNCHANGED <<hprt0, enabling, ResetState, request, copy, timers, resetOwed>>

-----------------------------------------------------------------------------
(* Timers and the interrupt                                                 *)

\* A timer of WritingTimers expires and its callback reads the register.
TimerReads(t) ==
    /\ t \in timers /\ copy[t] = Idle
    /\ timers' = timers \ {t}
    /\ copy' = [copy EXCEPT ![t] = hprt0]
    /\ UNCHANGED <<hprt0, enabling, ResetState, request, notice, resetOwed>>

\* Mutants: a bit that is not taken back.
ResetGoesOn(h) == h
ResumeGoesOn(h) == [h EXCEPT !.prtsusp = FALSE]
ResetCompleteValue(h) == [h EXCEPT !.prtrst = FALSE]
ResumeCompleteValue(h) == [h EXCEPT !.prtsusp = FALSE, !.prtres = FALSE]

ResetComplete ==
    /\ copy["ResetComplete"] # Idle
    /\ Write(ResetCompleteValue(copy["ResetComplete"]))
    /\ copy' = [copy EXCEPT !["ResetComplete"] = Idle]
    /\ timers' = timers \union {"ResetSafeComplete"}
    /\ UNCHANGED <<ResetState, request, notice, resetOwed>>

ResumeComplete ==
    /\ copy["ResumeComplete"] # Idle
    /\ Write(ResumeCompleteValue(copy["ResumeComplete"]))
    /\ copy' = [copy EXCEPT !["ResumeComplete"] = Idle]
    /\ UNCHANGED <<ResetState, request, timers, notice, resetOwed>>

\* Mutant: notify without looking.
SafeAtOnce == TRUE
PortIsSafe == Changed(hprt0)

\* Mutant: the timer is not set again.
SetOnce == timers \ {"ResetSafeComplete"}
SetAgain == timers

\* Notify when there is something to report, otherwise look again later.
ResetSafeComplete ==
    /\ "ResetSafeComplete" \in timers
    /\ IF PortIsSafe
       THEN /\ timers' = timers \ {"ResetSafeComplete"}
            /\ notice' = "reset"
            /\ resetOwed' = FALSE
       ELSE /\ timers' = SetAgain
            /\ UNCHANGED <<notice, resetOwed>>
    /\ UNCHANGED <<hprt0, enabling, ResetState, request, copy>>

\* OnInterruptDpc, queued for a channel that has been served meanwhile: port
\* interrupts themselves are not enabled.
PortInterruptDpc ==
    /\ Changed(hprt0) /\ notice = "none"
    /\ notice' = "port"
    /\ UNCHANGED <<hprt0, enabling, ResetState, request, copy, timers, resetOwed>>

-----------------------------------------------------------------------------

\* RootHubCreate: the port has power, and perhaps a device.
Init ==
    /\ \E attached \in BOOLEAN :
         hprt0 = [Off EXCEPT !.prtpwr = TRUE, !.prtconnsts = attached,
                             !.prtconndet = attached]
    /\ enabling = FALSE /\ ResetState = FALSE /\ resetOwed = FALSE
    /\ request = Idle
    /\ copy = [w \in Writers |-> Idle]
    /\ timers = {}
    /\ notice = "none"

Hardware == HwConnect \/ HwDisconnect \/ HwEnable \/ HwOverCurrent
Hub == \/ \E r \in Requests : ReadForRequest(r) \/ ClearCPortReset(r)
       \/ WriteForRequest
       \/ InterruptTransfer
Callbacks == \/ \E t \in WritingTimers : TimerReads(t)
             \/ ResetComplete \/ ResumeComplete \/ ResetSafeComplete
             \/ PortInterruptDpc

Next == Hardware \/ Hub \/ Callbacks

Spec == Init /\ [][Next]_vars

\* A core that has ended a reset enables the port, a request that has begun
\* ends, the hub driver looks when told, and a timer that is set expires.
Fairness ==
    /\ WF_vars(HwEnable)
    /\ WF_vars(WriteForRequest) /\ WF_vars(InterruptTransfer)
    /\ \A t \in WritingTimers : WF_vars(TimerReads(t))
    /\ WF_vars(ResetComplete) /\ WF_vars(ResumeComplete)
    /\ WF_vars(ResetSafeComplete)

FairSpec == Spec /\ Fairness

-----------------------------------------------------------------------------
(* Properties                                                               *)

InProgress(t) == t \in timers \/ copy[t] # Idle

\* A reset signal never outlasts the timer that ends it (Device.c:765-776,
\* 1201): no writer puts a stale prtrst back.
ResetEnds == hprt0.prtrst => InProgress("ResetComplete")

\* Nor does a resume signal (Device.c:581-591, 1275): "After TDRSMDN is
\* complete, software shall write a '0'".
ResumeEnds == hprt0.prtres => InProgress("ResumeComplete")

\* After a reset has been notified the interrupt transfer that follows has a
\* change to report (Device.c:1239, 371): the timer does not cry wolf, and
\* nothing clears the change in between.
NoticeFindsChange == notice = "reset" => Changed(hprt0)

\* As long as the end of a reset is owed somebody is working on it (the two
\* timers of Device.c:773 and 1210 hand it over).
ResetInHand == resetOwed => InProgress("ResetComplete") \/ "ResetSafeComplete" \in timers

\* A request that is not an acknowledgement keeps every change, also those
\* that arrive between its read and its write (Device.c:560-563 and the like),
\* unless it takes the power away.
PortFeaturesKeepChanges ==
    [][WriteForRequest /\ request \in PortRequests /\ hprt0'.prtpwr
         => \A b \in ChangeBits : hprt0[b] => hprt0'[b]]_vars

\* Acknowledging a change does not disable the port: "prtena MUST be 0 to not
\* instantly disable the port" (Device.c:634).
AckKeepsPortEnabled ==
    [][WriteForRequest /\ request \in Acknowledgements /\ hprt0.prtena
         => hprt0'.prtena]_vars

\* A reset of a port whose device stays is notified to UCX, however late the
\* core enables the port (Device.c:1210, 1244).
ResetAnswered == resetOwed ~> (~resetOwed \/ ~hprt0.prtconnsts)
=============================================================================
