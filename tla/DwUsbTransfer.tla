---------------------------- MODULE DwUsbTransfer ----------------------------
(***************************************************************************)
(* The transfers of dwusb (UsbDevice.c, and the interrupt of Device.c):    *)
(* requests of the endpoint queues share the host channels and the ports   *)
(* of the transaction translators.                                         *)
(*                                                                         *)
(* Every endpoint has one TR_DATA: two nested state machines, a copy that  *)
(* a DPC puts in place of the outer one, and a spin lock.  TR_RunChSm runs *)
(* with the lock held, from the DPC of a channel or from the interrupt     *)
(* DPC; a run is a sequence of steps here, so that runs of different       *)
(* transfers interleave where they share arrays and registers.             *)
(*                                                                         *)
(* Data is counted in packets, and only an answer that completes or ends   *)
(* short moves any.  Left out: data toggles, packet counts, addresses and  *)
(* frame numbers.  An address request is a control request without data, and*)
(* a frame overrun is answered like nak.  ChTtHubs and ChTtPorts are one   *)
(* array, in which -1 and 0 (no hub has either address) are both None.     *)
(***************************************************************************)
EXTENDS Integers, FiniteSets

CONSTANTS
    Transfers,     \* the TR_DATAs
    Channels,      \* the host channels, 0..7 in the code
    Kind,          \* of the endpoint of each transfer
    TtPort,        \* its transaction translator port, None without a split
    Lengths,       \* of the data its requests carry
    Outcomes,      \* what devices may answer beside acknowledging
    MaxRequests,   \* bound: requests of each transfer
    MaxMoved,      \* bound: packets a device moves in a stage
    Purges,        \* bound: the endpoints that may be purged
    Processors,    \* that run DPCs and timer callbacks at a time
    None

Kinds == {"Control", "InterruptOrBulk"}
AllOutcomes == {"ack", "xfercomp", "short", "nak", "nyet", "stall", "error"}

ASSUME TransferAssumption ==
    /\ Channels \subseteq Nat /\ 0 \in Channels  \* they are numbered from 0
    /\ IsFiniteSet(Channels) /\ IsFiniteSet(Transfers)
    /\ Kind \in [Transfers -> Kinds]
    /\ Lengths \in [Transfers -> SUBSET Nat]
    /\ Outcomes \subseteq AllOutcomes /\ Purges \subseteq Transfers
    /\ MaxRequests \in Nat /\ MaxMoved \in Nat /\ Processors \in Nat \ {0}
    /\ None \notin Transfers \union Channels

Split(t) == TtPort[t] # None
Least(S) == CHOOSE c \in S : \A d \in S : c <= d

VARIABLES
    \* CONTROLLER_DATA
    ChannelMask,       \* the channels that are taken
    ChannelCallbacks,  \* the transfer each channel interrupt runs
    ChTrDatas,         \* the transfer each channel works for
    ChTt,              \* the translator port each channel has claimed
    ChResumeContexts,  \* the transfer each resume timer resumes
    ChResumeTimers,    \* the resume timers that are set
    ChSmDpc,           \* the transfer each queued channel DPC is for
    \* TR_DATA
    StateMachine, NextStateMachine, TrStateMachine,
    run,               \* how far the run that holds the lock has come
    mask,              \* haintmsk as that run has read it
    \* requests
    found,             \* the free channel a queue callback has found
    answers,           \* how often the last request was completed
    left,              \* requests still to come
    queue,             \* of the endpoint: started or being purged
    \* processors
    spinning,          \* transfers whose DPC is about to take the lock
    interruptDpc,      \* OnInterruptDpc is queued
    toServe,           \* channels it has yet to serve
    serving,           \* the transfer it runs
    \* the core
    hc,                \* the state of each channel
    haintmsk,          \* the channels that may interrupt
    moved              \* history: packets of this stage the device has moved

chVars == <<ChannelMask, ChannelCallbacks, ChTrDatas, ChTt>>
resumeVars == <<ChResumeContexts, ChResumeTimers, ChSmDpc>>
smVars == <<StateMachine, NextStateMachine, TrStateMachine>>
requestVars == <<found, answers, left, queue>>
cpuVars == <<spinning, interruptDpc, toServe, serving>>
hwVars == <<hc, haintmsk, moved>>
vars == <<chVars, resumeVars, smVars, run, mask, requestVars, cpuVars, hwVars>>

ChStates == {"Idle", "ControlSetup", "ControlSetupWait", "ControlData",
             "ControlDataWait", "ControlStatus", "ControlStatusWait",
             "InterruptOrBulkData", "InterruptOrBulkDataWait"}
WaitStates == {"ControlSetupWait", "ControlDataWait", "ControlStatusWait",
               "InterruptOrBulkDataWait"}
TrStates == {"Init", "CheckFreePort", "Transferring", "TransferWaiting",
             "TransferHalted", "Done"}
RunStates == {"off", "on", "claim", "unmask", "revive", "reviveAndWait", "advance"}
Halts == AllOutcomes

TypeOK ==
    /\ ChannelMask \subseteq Channels
    /\ ChannelCallbacks \in [Channels -> Transfers \union {None}]
    /\ ChTrDatas \in [Channels -> Transfers \union {None}]
    /\ ChTt \in [Channels -> {TtPort[t] : t \in Transfers} \union {None}]
    /\ ChResumeContexts \in [Channels -> Transfers \union {None}]
    /\ ChResumeTimers \subseteq Channels
    /\ ChSmDpc \in [Channels -> Transfers \union {None}]
    /\ \A t \in Transfers :
         /\ StateMachine[t].State \in ChStates /\ NextStateMachine[t].State \in ChStates
         /\ TrStateMachine[t].State \in TrStates
         /\ TrStateMachine[t].Done \in 0..TrStateMachine[t].Length
         /\ run[t] # "off" => StateMachine[t].Channel \in Channels
    /\ run \in [Transfers -> RunStates]
    /\ mask \in [Transfers -> SUBSET Channels]
    /\ found \in [Transfers -> Channels \union {None}]
    /\ answers \in [Transfers -> 0..2] /\ left \in [Transfers -> 0..MaxRequests]
    /\ queue \in [Transfers -> {"started", "purging"}]
    /\ spinning \subseteq Transfers /\ interruptDpc \in BOOLEAN
    /\ toServe \subseteq Channels /\ serving \in Transfers \union {None}
    /\ hc \in [Channels -> {"off", "on"} \union Halts]
    /\ haintmsk \subseteq Channels
    /\ moved \in [Transfers -> Nat]

Running == {t \in Transfers : run[t] # "off"}
Serving == toServe # {} \/ serving # None
ProcessorFree == Cardinality((Running \ {serving}) \union spinning)
                 + (IF Serving THEN 1 ELSE 0) < Processors

-----------------------------------------------------------------------------
(* Requests                                                                 *)

Free == Channels \ ChannelMask

\* The queues dispatch sequentially: the last request has been completed.
\* Controller_AllocateChannel looks for a channel ...
FindChannel(t) ==
    /\ queue[t] = "started" /\ left[t] > 0 /\ answers[t] > 0 /\ found[t] = None
    /\ left' = [left EXCEPT ![t] = @ - 1]
    /\ IF Free # {}
       THEN /\ found' = [found EXCEPT ![t] = Least(Free)]
            /\ answers' = [answers EXCEPT ![t] = 0]
       ELSE /\ answers' = [answers EXCEPT ![t] = 1]
            /\ UNCHANGED found
    /\ UNCHANGED <<chVars, resumeVars, smVars, run, mask, queue, cpuVars, hwVars>>

\* KeInsertQueueDpc does nothing when the DPC of the channel is queued.
InvokeTrSm(t, c) == ChSmDpc' = [ChSmDpc EXCEPT ![c] = IF @ = None THEN t ELSE @]

\* ... and takes it; the state machine is left for the DPC of the channel.
Submit(t, length) ==
    /\ found[t] # None
    /\ ChannelMask' = ChannelMask \union {found[t]}
    /\ NextStateMachine' = [NextStateMachine EXCEPT ![t] =
            [State |-> IF Kind[t] = "Control" THEN "ControlSetup" ELSE "InterruptOrBulkData",
             Channel |-> found[t], Length |-> length]]
    /\ ChannelCallbacks' = [ChannelCallbacks EXCEPT ![found[t]] = t]
    /\ InvokeTrSm(t, found[t])
    /\ found' = [found EXCEPT ![t] = None]
    /\ UNCHANGED <<ChTrDatas, ChTt, ChResumeContexts, ChResumeTimers, StateMachine,
                   TrStateMachine, run, mask, answers, left, queue, cpuVars, hwVars>>

\* Endpoint_UcxEvtEndpointPurge and Abort: no new requests, and it is over
\* when the driver has none; Endpoint_UcxEvtEndpointStart.
Purge(t) ==
    /\ t \in Purges /\ queue[t] = "started"
    /\ queue' = [queue EXCEPT ![t] = "purging"]
    /\ UNCHANGED <<chVars, resumeVars, smVars, run, mask, found, answers, left,
                   cpuVars, hwVars>>

PurgeCompleteAndStart(t) ==
    /\ queue[t] = "purging" /\ answers[t] > 0
    /\ queue' = [queue EXCEPT ![t] = "started"]
    /\ UNCHANGED <<chVars, resumeVars, smVars, run, mask, found, answers, left,
                   cpuVars, hwVars>>

-----------------------------------------------------------------------------
(* Who runs the state machine                                               *)

\* RunSmDpc puts the copy in place before TR_RunChSm takes the lock.
RunSmDpc(c) ==
    LET t == ChSmDpc[c] IN
    /\ t # None /\ ProcessorFree /\ t \notin spinning
    /\ ChSmDpc' = [ChSmDpc EXCEPT ![c] = None]
    /\ StateMachine' = [StateMachine EXCEPT ![t] = NextStateMachine[t]]
    /\ spinning' = spinning \union {t}
    /\ UNCHANGED <<chVars, ChResumeContexts, ChResumeTimers, NextStateMachine,
                   TrStateMachine, run, mask, requestVars, interruptDpc, toServe,
                   serving, hwVars>>

AcquireLock(t) ==
    /\ t \in spinning /\ run[t] = "off"
    /\ spinning' = spinning \ {t}
    /\ run' = [run EXCEPT ![t] = "on"]
    /\ UNCHANGED <<chVars, resumeVars, smVars, mask, requestVars, interruptDpc,
                   toServe, serving, hwVars>>

\* Controller_ResumeCh.
ResumeCh(c) ==
    LET t == ChResumeContexts[c] IN
    /\ c \in ChResumeTimers /\ ProcessorFree
    /\ ChResumeTimers' = ChResumeTimers \ {c}
    /\ NextStateMachine' = [NextStateMachine EXCEPT ![t] = StateMachine[t]]
    /\ InvokeTrSm(t, StateMachine[t].Channel)
    /\ UNCHANGED <<chVars, ChResumeContexts, StateMachine, TrStateMachine, run, mask,
                   requestVars, cpuVars, hwVars>>

\* OnInterruptIsr masks the channels that have halted - and no other.
Halted == {c \in Channels : hc[c] \in Halts}
MaskAfterIsr == Channels \ Halted

OnInterruptIsr ==
    /\ Halted \cap haintmsk # {}
    /\ haintmsk' = MaskAfterIsr
    /\ interruptDpc' = TRUE
    /\ UNCHANGED <<chVars, resumeVars, smVars, run, mask, requestVars, spinning,
                   toServe, serving, hc, moved>>

\* OnInterruptDpc reads haint once and serves the channels it finds, in order.
OnInterruptDpc ==
    /\ interruptDpc /\ ~Serving /\ ProcessorFree
    /\ interruptDpc' = FALSE
    /\ toServe' = Halted
    /\ UNCHANGED <<chVars, resumeVars, smVars, run, mask, requestVars, spinning,
                   serving, hwVars>>

ServeChannel ==
    LET c == Least(toServe)
        t == ChannelCallbacks[c]
    IN
    /\ toServe # {} /\ serving = None
    /\ toServe' = toServe \ {c}
    /\ IF t = None THEN UNCHANGED <<run, serving>>
       ELSE /\ run[t] = "off"
            /\ run' = [run EXCEPT ![t] = "on"]
            /\ serving' = t
    /\ UNCHANGED <<chVars, resumeVars, smVars, mask, requestVars, spinning,
                   interruptDpc, hwVars>>

\* The end of a run: the lock is released.
Return(t) ==
    /\ run' = [run EXCEPT ![t] = "off"]
    /\ serving' = IF serving = t THEN None ELSE serving
    /\ UNCHANGED <<spinning, interruptDpc, toServe>>

Continue(t, at) == run' = [run EXCEPT ![t] = at] /\ UNCHANGED cpuVars

-----------------------------------------------------------------------------
(* TR_RunChSm                                                               *)

Chan(t) == TrStateMachine[t].Channel

RunIdle(t) ==
    /\ run[t] = "on" /\ StateMachine[t].State = "Idle"
    /\ Return(t)
    /\ UNCHANGED <<chVars, resumeVars, smVars, mask, requestVars, hwVars>>

\* A stage and the state in which it is waited for.
StageLength(t) ==
    CASE StateMachine[t].State = "ControlSetup" -> 1
      [] StateMachine[t].State = "ControlStatus" -> 0
      [] OTHER -> StateMachine[t].Length
WaitState(s) ==
    CASE s = "ControlSetup" -> "ControlSetupWait"
      [] s = "ControlData" -> "ControlDataWait"
      [] s = "ControlStatus" -> "ControlStatusWait"
      [] s = "InterruptOrBulkData" -> "InterruptOrBulkDataWait"

BeginStage(t) ==
    /\ run[t] = "on" /\ StateMachine[t].State \in ChStates \ (WaitStates \union {"Idle"})
    /\ TrStateMachine' = [TrStateMachine EXCEPT ![t] =
            [@ EXCEPT !.State = "Init", !.Buffer = 0, !.Length = StageLength(t),
                      !.Done = 0, !.Channel = StateMachine[t].Channel]]
    /\ StateMachine' = [StateMachine EXCEPT ![t].State = WaitState(@)]
    /\ moved' = [moved EXCEPT ![t] = 0]
    /\ UNCHANGED <<chVars, resumeVars, NextStateMachine, run, mask, requestVars,
                   cpuVars, hc, haintmsk>>

\* WdfRequestComplete, as far as the driver can tell.
Complete(t) == answers' = [answers EXCEPT ![t] = IF @ < 2 THEN @ + 1 ELSE @]

\* Mutant: the channel is kept.
Kept(t) == ChannelMask
\* Controller_ReleaseChannel.
Released(t) == ChannelMask \ {StateMachine[t].Channel}

NextStage(t) ==
    CASE StateMachine[t].State = "ControlSetupWait" /\ StateMachine[t].Length > 0 -> "ControlData"
      [] StateMachine[t].State = "ControlSetupWait" /\ StateMachine[t].Length = 0 -> "ControlStatus"
      [] StateMachine[t].State = "ControlDataWait" -> "ControlStatus"
      [] OTHER -> "Idle"

\* A stage is done: the next one, or the end of the request.
Advance(t) ==
    /\ run[t] = "advance"
    /\ StateMachine' = [StateMachine EXCEPT ![t].State = NextStage(t)]
    /\ IF NextStage(t) # "Idle"
       THEN Continue(t, "on") /\ UNCHANGED <<ChannelMask, answers>>
       ELSE ChannelMask' = Released(t) /\ Complete(t) /\ Return(t)
    /\ UNCHANGED <<ChannelCallbacks, ChTrDatas, ChTt, resumeVars, NextStateMachine,
                   TrStateMachine, mask, found, left, queue, hwVars>>

-----------------------------------------------------------------------------
(* TR_RunTrSm                                                               *)

At(t, s) ==
    /\ run[t] = "on" /\ StateMachine[t].State \in WaitStates
    /\ TrStateMachine[t].State = s

TrInit(t) ==
    /\ At(t, "Init")
    /\ ChTrDatas' = [ChTrDatas EXCEPT ![Chan(t)] = t]
    /\ TrStateMachine' = [TrStateMachine EXCEPT ![t] =
            [@ EXCEPT !.State = IF Split(t) THEN "CheckFreePort" ELSE "Transferring",
                      !.Done = 0, !.CompleteSplit = FALSE]]
    /\ UNCHANGED <<ChannelMask, ChannelCallbacks, ChTt, resumeVars, StateMachine,
                   NextStateMachine, run, mask, requestVars, cpuVars, hwVars>>

PortTaken(t) == \E c \in Channels : ChTt[c] = TtPort[t]

CheckFreePort(t) ==
    /\ At(t, "CheckFreePort")
    /\ IF PortTaken(t) THEN Return(t) ELSE Continue(t, "claim")
    /\ UNCHANGED <<chVars, resumeVars, smVars, mask, requestVars, hwVars>>

ClaimPort(t) ==
    /\ run[t] = "claim"
    /\ ChTt' = [ChTt EXCEPT ![Chan(t)] = TtPort[t]]
    /\ TrStateMachine' = [TrStateMachine EXCEPT ![t].State = "Transferring"]
    /\ Continue(t, "on")
    /\ UNCHANGED <<ChannelMask, ChannelCallbacks, ChTrDatas, resumeVars, StateMachine,
                   NextStateMachine, mask, requestVars, hwVars>>

\* The channel is set up; haintmsk is read ...
Transferring(t) ==
    /\ At(t, "Transferring")
    /\ hc' = [hc EXCEPT ![Chan(t)] = "off"]
    /\ mask' = [mask EXCEPT ![t] = haintmsk]
    /\ Continue(t, "unmask")
    /\ UNCHANGED <<chVars, resumeVars, smVars, requestVars, haintmsk, moved>>

\* Mutant: the channel is left masked.
NotUnmasked(t) == mask[t]
Unmasked(t) == mask[t] \union {Chan(t)}

\* ... and written, and the channel is enabled.
EnableChannel(t) ==
    /\ run[t] = "unmask"
    /\ haintmsk' = Unmasked(t)
    /\ mask' = [mask EXCEPT ![t] = {}]
    /\ hc' = [hc EXCEPT ![Chan(t)] = "on"]
    /\ TrStateMachine' = [TrStateMachine EXCEPT ![t].State = "TransferWaiting"]
    /\ Continue(t, "on")
    /\ UNCHANGED <<chVars, resumeVars, StateMachine, NextStateMachine, requestVars, moved>>

TransferWaiting(t) ==
    /\ At(t, "TransferWaiting")
    /\ IF hc[Chan(t)] \in Halts
       THEN /\ TrStateMachine' = [TrStateMachine EXCEPT ![t].State = "TransferHalted"]
            /\ UNCHANGED <<run, cpuVars>>
       ELSE Return(t) /\ UNCHANGED TrStateMachine
    /\ UNCHANGED <<chVars, resumeVars, StateMachine, NextStateMachine, mask,
                   requestVars, hwVars>>

\* Mutant: a split moves a packet, also when none is left.
APacket(t) ==
    IF Split(t) THEN 1 ELSE TrStateMachine[t].Length - TrStateMachine[t].Done
\* What is transferred at once: a packet of a split, all that is left otherwise.
\* Left out: of more than 511 packets or 64 KB only so much is transferred
\* before the next round (UsbDevice.c:597-605, 758-761).
XferLen(t) ==
    LET rest == TrStateMachine[t].Length - TrStateMachine[t].Done
    IN  IF Split(t) /\ rest > 1 THEN 1 ELSE rest
Packets(t, outcome) ==
    CASE outcome = "xfercomp" -> XferLen(t)
      [] outcome = "short" /\ XferLen(t) > 0 -> XferLen(t) - 1
      [] OTHER -> 0

HaltedWith(t, outcomes) ==
    /\ At(t, "TransferHalted")
    /\ hc[Chan(t)] \in outcomes
    /\ hc' = [hc EXCEPT ![Chan(t)] = "off"]
    /\ UNCHANGED <<haintmsk, moved, mask>>

\* xfercomp, ack of a start split, nyet of a complete split that is repeated.
HaltedDone(t) ==
    LET outcome == hc[Chan(t)]
        done == TrStateMachine[t].Done + Packets(t, outcome)
        complete == outcome \in {"ack", "nyet"}
        short == Packets(t, outcome) < XferLen(t)
    IN
    /\ HaltedWith(t, {"xfercomp", "short", "ack", "nyet"})
    /\ TrStateMachine' = [TrStateMachine EXCEPT ![t] =
            [@ EXCEPT !.Done = done, !.CompleteSplit = complete,
                      !.State = IF ~complete /\ (short \/ done >= TrStateMachine[t].Length)
                                THEN "Done" ELSE "Transferring"]]
    /\ UNCHANGED <<chVars, resumeVars, StateMachine, NextStateMachine, run,
                   requestVars, cpuVars>>

\* Mutant: the port stays claimed.
StillClaimed(t) == ChTt
\* The first half of ReviveTrSm: the translator port is given up.
Unclaimed(t) == [ChTt EXCEPT ![Chan(t)] = None]

\* A complete split has been answered with nyet for too long.
HaltedNyetTimeout(t) ==
    /\ HaltedWith(t, {"nyet"})
    /\ TrStateMachine' = [TrStateMachine EXCEPT ![t].State = "Init"]
    /\ ChTt' = Unclaimed(t)
    /\ Continue(t, "revive")
    /\ UNCHANGED <<ChannelMask, ChannelCallbacks, ChTrDatas, resumeVars, StateMachine,
                   NextStateMachine, requestVars>>

\* Mutant: a retry of a control transfer starts at the beginning.
FromStart(t) == [TrStateMachine[t] EXCEPT !.State = "Init", !.CompleteSplit = FALSE]
\* nak: a control transfer tries the rest at once, the others wait.
AfterNak(t) ==
    IF Kind[t] = "Control"
    THEN [TrStateMachine[t] EXCEPT !.State = "Init", !.CompleteSplit = FALSE,
             !.Buffer = @ + TrStateMachine[t].Done, !.Length = @ - TrStateMachine[t].Done,
             !.Done = 0]
    ELSE [TrStateMachine[t] EXCEPT !.State = "Init", !.CompleteSplit = FALSE]

HaltedNak(t) ==
    /\ HaltedWith(t, {"nak"})
    /\ TrStateMachine' = [TrStateMachine EXCEPT ![t] = AfterNak(t)]
    /\ ChTt' = Unclaimed(t)
    /\ Continue(t, IF Kind[t] = "Control" THEN "revive" ELSE "reviveAndWait")
    /\ UNCHANGED <<ChannelMask, ChannelCallbacks, ChTrDatas, resumeVars, StateMachine,
                   NextStateMachine, requestVars>>

\* Mutant: the channel still names its transfer.
Remembered(t) == ChTrDatas
Forgotten(t) == [ChTrDatas EXCEPT ![Chan(t)] = None]

\* stall, errors and anything unknown: all is given up, without ReviveTrSm.
HaltedFailure(t) ==
    /\ HaltedWith(t, {"stall", "error"})
    /\ StateMachine' = [StateMachine EXCEPT ![t].State = "Idle"]
    /\ ChTt' = Unclaimed(t)
    /\ ChTrDatas' = Forgotten(t)
    /\ ChannelMask' = Released(t)
    /\ Complete(t)
    /\ Return(t)
    /\ UNCHANGED <<ChannelCallbacks, resumeVars, NextStateMachine, TrStateMachine,
                   found, left, queue>>

TrDone(t) ==
    /\ At(t, "Done")
    /\ hc' = [hc EXCEPT ![Chan(t)] = "off"]
    /\ ChTt' = Unclaimed(t)
    /\ Continue(t, "revive")
    /\ UNCHANGED <<ChannelMask, ChannelCallbacks, ChTrDatas, resumeVars, smVars, mask,
                   requestVars, haintmsk, moved>>

\* The second half of ReviveTrSm: the first waiter gets its timer.
Waiters(t) ==
    {c \in Channels : /\ ChTrDatas[c] # None
                      /\ TrStateMachine[ChTrDatas[c]].State = "CheckFreePort"
                      /\ TtPort[ChTrDatas[c]] = TtPort[t]}
\* Mutant: no waiter is revived.
Nobody(t) == {}
ToRevive(t) == IF Waiters(t) = {} THEN {} ELSE {Least(Waiters(t))}

\* The timers set with the contexts they resume; a transfer that waits after
\* nak sets its own.
SetTimers(t, channels) ==
    /\ ChResumeTimers' = ChResumeTimers \union channels
    /\ ChResumeContexts' = [c \in Channels |->
          IF c \notin channels THEN ChResumeContexts[c]
          ELSE IF c \in ToRevive(t) THEN ChTrDatas[c] ELSE t]
    /\ UNCHANGED ChSmDpc

Revive(t) ==
    /\ run[t] = "revive"
    /\ SetTimers(t, ToRevive(t))
    /\ IF TrStateMachine[t].State = "Done"
       THEN ChTrDatas' = Forgotten(t) /\ Continue(t, "advance")
       ELSE Continue(t, "on") /\ UNCHANGED ChTrDatas
    /\ UNCHANGED <<ChannelMask, ChannelCallbacks, ChTt, smVars, mask, requestVars, hwVars>>

\* Mutant: the wait after nak has no timer.
NoTimer(t) == {}
NakTimer(t) == {Chan(t)}

\* Mutant: the transfer is tried again before its timer expires.
ReviveAndGoOn(t) ==
    /\ run[t] = "reviveAndWait"
    /\ SetTimers(t, ToRevive(t) \union NakTimer(t))
    /\ Continue(t, "on")
    /\ UNCHANGED <<chVars, smVars, mask, requestVars, hwVars>>

ReviveAndWait(t) ==
    /\ run[t] = "reviveAndWait"
    /\ SetTimers(t, ToRevive(t) \union NakTimer(t))
    /\ Return(t)
    /\ UNCHANGED <<chVars, smVars, mask, requestVars, hwVars>>

-----------------------------------------------------------------------------
(* The core and the devices                                                 *)

\* What a channel may halt with: a start split, a complete split, neither.
Answers(t) ==
    LET start == Split(t) /\ ~TrStateMachine[t].CompleteSplit
    IN  (IF start THEN {"ack"} ELSE {"xfercomp"})
        \union (Outcomes \cap ({"nak", "error"}
                  \union (IF start THEN {} ELSE {"stall"})
                  \union (IF TrStateMachine[t].CompleteSplit THEN {"nyet"} ELSE {})
                  \union (IF ~start /\ XferLen(t) > 0 THEN {"short"} ELSE {})))

HwHalt(c, outcome) ==
    LET t == ChannelCallbacks[c] IN
    /\ hc[c] = "on"
    /\ outcome \in Answers(t)
    /\ hc' = [hc EXCEPT ![c] = outcome]
    /\ moved[t] + Packets(t, outcome) <= MaxMoved
    /\ moved' = [moved EXCEPT ![t] = @ + Packets(t, outcome)]
    /\ UNCHANGED <<chVars, resumeVars, smVars, run, mask, requestVars, cpuVars, haintmsk>>

-----------------------------------------------------------------------------

Init ==
    /\ ChannelMask = {}
    /\ ChannelCallbacks = [c \in Channels |-> None]
    /\ ChTrDatas = [c \in Channels |-> None]
    /\ ChTt = [c \in Channels |-> None]
    /\ ChResumeContexts = [c \in Channels |-> None]
    /\ ChResumeTimers = {}
    /\ ChSmDpc = [c \in Channels |-> None]
    /\ StateMachine = [t \in Transfers |-> [State |-> "Idle", Channel |-> 0, Length |-> 0]]
    /\ NextStateMachine = StateMachine
    /\ TrStateMachine = [t \in Transfers |-> [State |-> "Init", Channel |-> 0, Buffer |-> 0,
                            Length |-> 0, Done |-> 0, CompleteSplit |-> FALSE]]
    /\ run = [t \in Transfers |-> "off"]
    /\ mask = [t \in Transfers |-> {}]
    /\ found = [t \in Transfers |-> None]
    /\ answers = [t \in Transfers |-> 1]
    /\ left = [t \in Transfers |-> MaxRequests]
    /\ queue = [t \in Transfers |-> "started"]
    /\ spinning = {} /\ interruptDpc = FALSE /\ toServe = {} /\ serving = None
    /\ hc = [c \in Channels |-> "off"]
    /\ haintmsk = Channels \cap {0}
    /\ moved = [t \in Transfers |-> 0]

Step(t) ==
    \/ AcquireLock(t) \/ RunIdle(t) \/ BeginStage(t) \/ Advance(t)
    \/ TrInit(t) \/ CheckFreePort(t) \/ ClaimPort(t)
    \/ Transferring(t) \/ EnableChannel(t) \/ TransferWaiting(t)
    \/ HaltedDone(t) \/ HaltedNyetTimeout(t) \/ HaltedNak(t) \/ HaltedFailure(t)
    \/ TrDone(t) \/ Revive(t) \/ ReviveAndWait(t)

Ask(t) == FindChannel(t) \/ Purge(t) \/ PurgeCompleteAndStart(t)
          \/ \E l \in Lengths[t] : Submit(t, l)

Next ==
    \/ \E t \in Transfers : Ask(t) \/ Step(t)
    \/ \E c \in Channels : \/ RunSmDpc(c) \/ ResumeCh(c)
                           \/ \E o \in AllOutcomes : HwHalt(c, o)
    \/ OnInterruptIsr \/ OnInterruptDpc \/ ServeChannel

Spec == Init /\ [][Next]_vars

-----------------------------------------------------------------------------
(***************************************************************************)
(* Races.  Five windows in which the code acts on what it has read from    *)
(* state that another processor may have changed.  Each is a real fault of *)
(* the code on more than one processor; the properties below hold of what  *)
(* happens as long as nothing runs into the windows.                       *)
(***************************************************************************)
\* The transfer runs, or something that is queued will run it.
WillRun(t) == \/ run[t] # "off" \/ t \in spinning
              \/ \E c \in Channels : \/ ChSmDpc[c] = t
                                     \/ c \in ChResumeTimers /\ ChResumeContexts[c] = t

\* Two queue callbacks find the same channel before either takes it
\* (UsbDevice.c:190-192).
FindsApart ==
    \A t, u \in Transfers : t # u /\ found[t] # None => found[t] # found[u]

\* A transfer is revived that is about to run anyway; its second run may put
\* the copy of a state machine back that has gone on (UsbDevice.c:556, 2067).
RevivedOnce ==
    \A t \in Transfers : run[t] \in {"revive", "reviveAndWait"} =>
        \A c \in ToRevive(t) : ~WillRun(ChTrDatas[c])

\* Another run takes a halt that the interrupt DPC has found, which then runs
\* whatever the channel does next (Device.c:1578, 1585).
ServedOnce ==
    \A c \in toServe : hc[c] \in Halts
                      /\ \A t \in Transfers : ChannelCallbacks[c] = t => run[t] = "off"

\* Two runs have read haintmsk and write it back (UsbDevice.c:848).
MasksApart == \A t, u \in Transfers : t # u /\ run[t] = "unmask" => run[u] # "unmask"

\* Two runs find the same translator port free (UsbDevice.c:703-715).
ClaimsApart ==
    \A t, u \in Transfers : t # u /\ run[t] = "claim" /\ run[u] = "claim" =>
        TtPort[t] # TtPort[u]

RunsApart == FindsApart /\ RevivedOnce /\ ServedOnce
Calm == RunsApart /\ MasksApart
CalmNext == Next /\ Calm'
CalmSpec == Init /\ [][CalmNext]_vars

\* For liveness, which the last window only makes larger to check.
Undisturbed == Calm /\ ClaimsApart
UndisturbedNext == Next /\ Undisturbed'

\* What is begun goes on: runs, queued DPCs, timers, interrupts, and a channel
\* that is enabled halts.  Requests and purges are never forced.
Fairness ==
    /\ \A t \in Transfers :
         /\ WF_vars(Step(t) /\ Undisturbed')
         /\ WF_vars((\E l \in Lengths[t] : Submit(t, l)) /\ Undisturbed')
         /\ WF_vars(PurgeCompleteAndStart(t) /\ Undisturbed')
    /\ \A c \in Channels :
         /\ WF_vars(RunSmDpc(c) /\ Undisturbed')
         /\ WF_vars(ResumeCh(c) /\ Undisturbed')
         /\ WF_vars((\E o \in AllOutcomes : HwHalt(c, o)) /\ Undisturbed')
    /\ WF_vars(OnInterruptIsr /\ Undisturbed')
    /\ WF_vars(OnInterruptDpc /\ Undisturbed')
    /\ WF_vars(ServeChannel /\ Undisturbed')

FairSpec == Init /\ [][UndisturbedNext]_vars /\ Fairness

\* A device that is asked again and again answers at last.
DevicesAnswer == \A c \in Channels : /\ SF_vars(HwHalt(c, "ack") /\ Undisturbed')
                                     /\ SF_vars(HwHalt(c, "xfercomp") /\ Undisturbed')

FairDeviceSpec == FairSpec /\ DevicesAnswer

-----------------------------------------------------------------------------
(* Properties                                                               *)

\* The transfers whose request is under way on a channel.
Active == {t \in Transfers : answers[t] = 0 /\ found[t] = None}
ChannelOf(t) == NextStateMachine[t].Channel

\* Two transfers never have the same channel, and exactly the channels of
\* active transfers are taken: none is leaked, none is free while in use
\* (UsbDevice.c:190-192, 215).
ChannelsAccounted ==
    /\ \A t, u \in Active : t # u => ChannelOf(t) # ChannelOf(u)
    /\ ChannelMask = {ChannelOf(t) : t \in Active}

\* A request is completed once (UsbDevice.c:368, 464, 524, 1129, 1151): no DPC
\* that is queued, and no timer that is set, runs a finished one again.
CompletedOnce == \A t \in Transfers : answers[t] <= 1

\* A claim belongs to an active transfer of that port: none is left behind by
\* a retry, a failure or the end of a request (UsbDevice.c:545, 1123, 1145).
ClaimsAreLive ==
    \A c \in Channels : ChTt[c] # None =>
        \E t \in Active : /\ ChannelOf(t) = c /\ TtPort[t] = ChTt[c]
                          /\ TrStateMachine[t].State \notin {"Init", "CheckFreePort"}

\* A channel that is free works for nobody: whoever gets it finds no claim, no
\* transfer that a revival would pick up, and no running transaction
\* (UsbDevice.c:1123-1126, 1172).
FreeChannelsAreClean ==
    \A c \in Free : ChTt[c] = None /\ ChTrDatas[c] = None /\ hc[c] # "on"

\* Transfers that wait for a port are woken: the port has an owner, or is just
\* being given up, or one of them is about to look again (UsbDevice.c:548-572).
Waiting(t) == t \in Active /\ TrStateMachine[t].State = "CheckFreePort"
              /\ StateMachine[t].State \in WaitStates
WaitersAreWoken ==
    \A t \in Transfers : Waiting(t) =>
        \/ PortTaken(t)
        \/ \E u \in Transfers : /\ TtPort[u] = TtPort[t]
                                /\ \/ run[u] \in {"revive", "reviveAndWait"}
                                   \/ Waiting(u) /\ WillRun(u)

\* A channel that has halted is unmasked, or its interrupt is being served: no
\* other channel's read and write of haintmsk loses it (UsbDevice.c:848,
\* Device.c:1537).
HaltIsNoticed ==
    \A c \in Halted : \/ c \in haintmsk \/ interruptDpc \/ c \in toServe
                      \/ run[ChannelCallbacks[c]] # "off"

\* What the driver transfers next is never beyond what the device sends or takes
\* next: no retry skips data.  The retry of a control transfer repeats none
\* either, unless a complete split timed out; the retry of another begins the
\* buffer again (UsbDevice.c:936, 1015, 1047, 1085).
DataInPlace ==
    \A t \in Active : TrStateMachine[t].State \in {"Transferring", "Done"}
                      /\ StateMachine[t].State \in WaitStates =>
        LET at == TrStateMachine[t].Buffer + TrStateMachine[t].Done
        IN  at <= moved[t] /\ (Kind[t] = "Control" /\ "nyet" \notin Outcomes => at = moved[t])

\* Every request is completed (all of UsbDevice.c:223-1178).
TransferSettles == \A t \in Transfers : answers[t] = 0 ~> answers[t] > 0

\* "Usbhub3 and UCX guarantee cancellation of this traffic" (UsbDevice.c:1367):
\* an endpoint that is purged gets rid of its request.
PurgeEnds == \A t \in Transfers : queue[t] = "purging" ~> queue[t] = "started"
=============================================================================
