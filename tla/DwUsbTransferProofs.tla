------------------------- MODULE DwUsbTransferProofs -------------------------
(***************************************************************************)
(* Proofs about DwUsbTransfer, for any number of endpoints, channels,      *)
(* translator ports and requests.                                          *)
(*                                                                         *)
(* Here is what holds on any number of processors, whatever the runs read  *)
(* too early: every variable keeps its type, and a translator port works   *)
(* for at most as many channels as there are processors.                   *)
(***************************************************************************)
EXTENDS DwUsbTransfer, FiniteSetTheorems, WellFoundedInduction, TLAPS

BeginStates == ChStates \ (WaitStates \union {"Idle"})
ChSm == [State : ChStates, Channel : Channels, Length : Nat]
TrSm == [State : TrStates, Channel : Channels, Buffer : Int, Length : Int, Done : Int,
         CompleteSplit : BOOLEAN]

\* The types of all but the history.
Types ==
    /\ ChannelMask \subseteq Channels
    /\ ChannelCallbacks \in [Channels -> Transfers \union {None}]
    /\ ChTrDatas \in [Channels -> Transfers \union {None}]
    /\ ChTt \in [Channels -> {TtPort[t] : t \in Transfers} \union {None}]
    /\ ChResumeContexts \in [Channels -> Transfers \union {None}]
    /\ ChResumeTimers \subseteq Channels
    /\ ChSmDpc \in [Channels -> Transfers \union {None}]
    /\ StateMachine \in [Transfers -> ChSm]
    /\ NextStateMachine \in [Transfers -> ChSm]
    /\ TrStateMachine \in [Transfers -> TrSm]
    /\ run \in [Transfers -> RunStates]
    /\ mask \in [Transfers -> SUBSET Channels]
    /\ found \in [Transfers -> Channels \union {None}]
    /\ answers \in [Transfers -> 0..2]
    /\ left \in [Transfers -> 0..MaxRequests]
    /\ queue \in [Transfers -> {"started", "purging"}]
    /\ spinning \subseteq Transfers
    /\ interruptDpc \in BOOLEAN
    /\ toServe \subseteq Channels
    /\ serving \in Transfers \union {None}
    /\ hc \in [Channels -> {"off", "on"} \union Halts]
    /\ haintmsk \subseteq Channels

-----------------------------------------------------------------------------
(* The operators                                                            *)

LEMMA LeastOf ==
    ASSUME NEW S, S \subseteq Nat, S # {}
    PROVE  Least(S) \in S
<1> DEFINE Less == {p \in Nat \X Nat : p[1] < p[2]}
<1>1. IsWellFoundedOn(Less, Nat)
  BY NatLessThanWellFounded DEF OpToRel
<1>2. \E x \in S : \A y \in S : ~ (<<y, x>> \in Less)
  <2> HIDE DEF Less
  <2> QED BY <1>1, WFMin
<1>3. \A x, y \in Nat : y < x => <<y, x>> \in Less
  OBVIOUS
<1>4. PICK x \in S : \A y \in S : ~ (<<y, x>> \in Less)
  BY <1>2
<1>5. \A y \in S : ~(y < x)
  <2> HIDE DEF Less
  <2> QED BY <1>3, <1>4, Zenon
<1>6. \A y \in S : x <= y
  BY <1>5
<1> QED BY <1>6 DEF Least

LEMMA NoneApart == None \notin Transfers /\ None \notin Channels /\ 0 \in Channels
BY TransferAssumption

LEMMA StateFacts ==
    /\ WaitStates \subseteq ChStates /\ BeginStates \subseteq ChStates
    /\ "Idle" \notin WaitStates \union BeginStates /\ WaitStates \cap BeginStates = {}
    /\ \A s \in ChStates : s = "Idle" \/ s \in WaitStates \/ s \in BeginStates
BY DEF WaitStates, BeginStates, ChStates

LEMMA WaitFor == \A s \in BeginStates : WaitState(s) \in WaitStates
BY DEF BeginStates, ChStates, WaitStates, WaitState

LEMMA FreeChannel ==
    ASSUME Free # {}
    PROVE  Least(Free) \in Channels \ ChannelMask
BY LeastOf, TransferAssumption DEF Free

\* The run of the state machine takes and keeps the type.
LEMMA StageTypes ==
    ASSUME Types, NEW t \in Transfers
    PROVE  /\ StageLength(t) \in Nat
           /\ NextStage(t) \in ChStates
           /\ XferLen(t) \in Int
           /\ \A outcome : Packets(t, outcome) \in Int
           /\ AfterNak(t) \in TrSm
<1>1. StateMachine[t] \in ChSm /\ TrStateMachine[t] \in TrSm
  BY DEF Types
<1>2. StageLength(t) \in Nat
  BY <1>1 DEF StageLength, ChSm
<1>3. NextStage(t) \in ChStates
  BY DEF NextStage, ChStates
<1>4. XferLen(t) \in Int
  BY <1>1 DEF XferLen, TrSm
<1>5. \A outcome : Packets(t, outcome) \in Int
  BY <1>4 DEF Packets
<1>6. AfterNak(t) \in TrSm
  <2> DEFINE m == TrStateMachine[t]
  <2>1. m \in TrSm /\ "Init" \in TrStates
    BY <1>1 DEF TrStates
  <2>2. m.Buffer + m.Done \in Int /\ m.Length - m.Done \in Int
    BY <2>1 DEF TrSm
  <2>3. CASE Kind[t] = "Control"
    <3>1. AfterNak(t) = [State |-> "Init", Channel |-> m.Channel, Buffer |-> m.Buffer + m.Done,
                         Length |-> m.Length - m.Done, Done |-> 0, CompleteSplit |-> FALSE]
      BY <2>1, <2>3 DEF AfterNak, TrSm
    <3> QED BY <2>1, <2>2, <3>1 DEF TrSm
  <2>4. CASE Kind[t] # "Control"
    BY <2>1, <2>4 DEF AfterNak, TrSm
  <2> QED BY <2>3, <2>4
<1> QED BY <1>2, <1>3, <1>4, <1>5, <1>6

LEMMA PortTypes ==
    ASSUME Types, NEW t \in Transfers
    PROVE  /\ Unclaimed(t) \in [Channels -> {TtPort[u] : u \in Transfers} \union {None}]
           /\ Forgotten(t) \in [Channels -> Transfers \union {None}]
           /\ Released(t) \subseteq Channels
           /\ Waiters(t) \subseteq Channels /\ ToRevive(t) \subseteq Waiters(t)
<1>1. Waiters(t) \subseteq Channels
  BY DEF Waiters
<1>2. ToRevive(t) \subseteq Waiters(t)
  BY <1>1, LeastOf, TransferAssumption DEF ToRevive
<1> QED BY <1>1, <1>2 DEF Types, Unclaimed, Forgotten, Released

-----------------------------------------------------------------------------
(* Types                                                                    *)

LEMMA InitTypes == Init => Types
<1> SUFFICES ASSUME Init PROVE Types
  OBVIOUS
<1>1. [State |-> "Idle", Channel |-> 0, Length |-> 0] \in ChSm
  BY NoneApart DEF ChSm, ChStates
<1>2. [State |-> "Init", Channel |-> 0, Buffer |-> 0, Length |-> 0, Done |-> 0,
       CompleteSplit |-> FALSE] \in TrSm
  BY NoneApart DEF TrSm, TrStates
<1>3. /\ StateMachine \in [Transfers -> ChSm] /\ NextStateMachine \in [Transfers -> ChSm]
      /\ TrStateMachine \in [Transfers -> TrSm]
  BY <1>1, <1>2 DEF Init
<1>4. run \in [Transfers -> RunStates] /\ answers \in [Transfers -> 0..2]
      /\ left \in [Transfers -> 0..MaxRequests]
  BY TransferAssumption DEF Init, RunStates
<1>5. interruptDpc \in BOOLEAN
  BY Zenon DEF Init
<1> QED BY <1>3, <1>4, <1>5 DEF Init, Types

LEMMA RequestTypes ==
    ASSUME Types, NEW t \in Transfers, Ask(t)
    PROVE  Types'
<1>1. CASE FindChannel(t)
  <2>1. left[t] \in 0..MaxRequests /\ left[t] > 0 /\ MaxRequests \in Nat
    BY <1>1, TransferAssumption DEF FindChannel, Types
  <2>2. left' \in [Transfers -> 0..MaxRequests]
    BY <1>1, <2>1 DEF FindChannel, Types
  <2>3. found' \in [Transfers -> Channels \union {None}] /\ answers' \in [Transfers -> 0..2]
    BY <1>1, FreeChannel DEF FindChannel, Types
  <2> QED BY <1>1, <2>2, <2>3
          DEF FindChannel, Types, chVars, resumeVars, smVars, cpuVars, hwVars
<1>2. ASSUME NEW l \in Lengths[t], Submit(t, l) PROVE Types'
  <2>1. l \in Nat
    BY TransferAssumption
  <2>2. found[t] \in Channels
    BY <1>2 DEF Submit, Types
  <2>3. NextStateMachine' \in [Transfers -> ChSm]
    BY <1>2, <2>1, <2>2 DEF Submit, Types, ChSm, ChStates
  <2> QED BY <1>2, <2>2, <2>3 DEF Submit, InvokeTrSm, Types, cpuVars, hwVars
<1>3. CASE Purge(t) \/ PurgeCompleteAndStart(t)
  BY <1>3 DEF Purge, PurgeCompleteAndStart, Types, chVars, resumeVars, smVars, cpuVars, hwVars
<1> QED BY <1>1, <1>2, <1>3 DEF Ask

LEMMA WhoRunsTypes ==
    ASSUME Types, \/ \E c \in Channels : RunSmDpc(c) \/ ResumeCh(c)
                  \/ \E c \in Channels, o \in AllOutcomes : HwHalt(c, o)
                  \/ OnInterruptIsr \/ OnInterruptDpc \/ ServeChannel
    PROVE  Types'
<1>1. ASSUME NEW c \in Channels, RunSmDpc(c) PROVE Types'
  <2>1. ChSmDpc[c] \in Transfers
    BY <1>1 DEF RunSmDpc, Types
  <2> QED BY <1>1, <2>1 DEF RunSmDpc, Types, chVars, requestVars, hwVars
<1>2. ASSUME NEW c \in Channels, ResumeCh(c) PROVE Types'
  <2>1. ChSmDpc' \in [Channels -> Transfers \union {None}]
    BY <1>2 DEF ResumeCh, InvokeTrSm, Types
  <2>2. NextStateMachine' \in [Transfers -> ChSm]
    BY <1>2 DEF ResumeCh, Types
  <2> QED BY <1>2, <2>1, <2>2 DEF ResumeCh, Types, chVars, requestVars, cpuVars, hwVars
<1>3. ASSUME NEW c \in Channels, NEW o \in AllOutcomes, HwHalt(c, o) PROVE Types'
  BY <1>3 DEF HwHalt, Types, chVars, resumeVars, smVars, requestVars, cpuVars, Halts
<1>4. CASE OnInterruptIsr
  BY <1>4 DEF OnInterruptIsr, MaskAfterIsr, Types, chVars, resumeVars, smVars, requestVars
<1>5. CASE OnInterruptDpc
  BY <1>5 DEF OnInterruptDpc, Halted, Types, chVars, resumeVars, smVars, requestVars, hwVars
<1>6. CASE ServeChannel
  <2>1. Least(toServe) \in Channels
    BY <1>6, LeastOf, TransferAssumption DEF ServeChannel, Types
  <2>2. ChannelCallbacks[Least(toServe)] \in Transfers \union {None}
    BY <2>1 DEF Types
  <2>3. run' \in [Transfers -> RunStates] /\ serving' \in Transfers \union {None}
    BY <1>6, <2>2 DEF ServeChannel, Types, RunStates
  <2> QED BY <1>6, <2>3 DEF ServeChannel, Types, chVars, resumeVars, smVars, requestVars, hwVars
<1> QED BY <1>1, <1>2, <1>3, <1>4, <1>5, <1>6

\* The records as they are updated.
LEMMA ChSmUpdate ==
    ASSUME NEW f \in [Transfers -> ChSm], NEW t \in Transfers, NEW s \in ChStates
    PROVE  [f EXCEPT ![t].State = s] \in [Transfers -> ChSm]
BY DEF ChSm

LEMMA TrSmState ==
    ASSUME NEW f \in [Transfers -> TrSm], NEW t \in Transfers, NEW s \in TrStates
    PROVE  [f EXCEPT ![t].State = s] \in [Transfers -> TrSm]
BY DEF TrSm

LEMMA TrSmFields ==
    ASSUME NEW m \in TrSm, NEW s \in TrStates, NEW d \in Int, NEW b \in BOOLEAN
    PROVE  /\ [m EXCEPT !.State = s, !.Done = d, !.CompleteSplit = b] \in TrSm
           /\ [m EXCEPT !.Done = d, !.CompleteSplit = b, !.State = s] \in TrSm
BY DEF TrSm

LEMMA TrSmStage ==
    ASSUME NEW m \in TrSm, NEW s \in TrStates, NEW n \in Int, NEW c \in Channels
    PROVE  [m EXCEPT !.State = s, !.Buffer = 0, !.Length = n, !.Done = 0, !.Channel = c] \in TrSm
<1> DEFINE m1 == [m EXCEPT !.State = s]
           m2 == [m1 EXCEPT !.Buffer = 0]
           m3 == [m2 EXCEPT !.Length = n]
           m4 == [m3 EXCEPT !.Done = 0]
           m5 == [m4 EXCEPT !.Channel = c]
<1>1. m1 \in TrSm
  BY DEF TrSm
<1>2. m2 \in TrSm
  <2> HIDE DEF m1
  <2> QED BY <1>1 DEF TrSm
<1>3. m3 \in TrSm
  <2> HIDE DEF m2
  <2> QED BY <1>2 DEF TrSm
<1>4. m4 \in TrSm
  <2> HIDE DEF m3
  <2> QED BY <1>3 DEF TrSm
<1>5. m5 \in TrSm
  <2> HIDE DEF m4
  <2> QED BY <1>4 DEF TrSm
<1> QED BY <1>5, Zenon

LEMMA StageStepTypes ==
    ASSUME Types, NEW t \in Transfers,
           AcquireLock(t) \/ RunIdle(t) \/ BeginStage(t) \/ Advance(t)
    PROVE  Types'
<1>1. CASE AcquireLock(t)
  BY <1>1 DEF AcquireLock, Types, RunStates, chVars, resumeVars, smVars, requestVars, hwVars
<1>2. CASE RunIdle(t)
  BY <1>2 DEF RunIdle, Return, Types, RunStates, chVars, resumeVars, smVars, requestVars, hwVars
<1>3. CASE BeginStage(t)
  <2>1. StateMachine' \in [Transfers -> ChSm]
    <3>1. WaitState(StateMachine[t].State) \in ChStates
      BY <1>3, WaitFor, StateFacts DEF BeginStage, BeginStates
    <3> QED BY <1>3, <3>1, ChSmUpdate DEF BeginStage, Types
  <2>2. StageLength(t) \in Nat /\ StateMachine[t].Channel \in Channels /\ "Init" \in TrStates
    BY StageTypes DEF Types, ChSm, TrStates
  <2>3. StageLength(t) \in Int
    BY <2>2
  <2>4. TrStateMachine' \in [Transfers -> TrSm]
    <3> DEFINE m == [TrStateMachine[t] EXCEPT !.State = "Init", !.Buffer = 0,
                       !.Length = StageLength(t), !.Done = 0,
                       !.Channel = StateMachine[t].Channel]
    <3>1. m \in TrSm
      <4>1. TrStateMachine[t] \in TrSm
        BY DEF Types
      <4> QED BY <2>2, <2>3, <4>1, TrSmStage, Zenon
    <3>2. TrStateMachine' = [TrStateMachine EXCEPT ![t] = m]
      BY <1>3 DEF BeginStage
    <3> QED BY <3>1, <3>2 DEF Types
  <2> QED BY <1>3, <2>1, <2>4
          DEF BeginStage, Types, chVars, resumeVars, requestVars, cpuVars
<1>4. CASE Advance(t)
  <2>1. StateMachine' \in [Transfers -> ChSm]
    BY <1>4, StageTypes, ChSmUpdate DEF Advance, Types
  <2>2. run' \in [Transfers -> RunStates] /\ answers' \in [Transfers -> 0..2]
        /\ ChannelMask' \subseteq Channels /\ serving' \in Transfers \union {None}
    <3>1. CASE NextStage(t) # "Idle"
      BY <1>4, <3>1 DEF Advance, Continue, Types, RunStates, cpuVars
    <3>2. CASE NextStage(t) = "Idle"
      <4>1. ChannelMask' \subseteq Channels
        BY <1>4, <3>2, PortTypes DEF Advance
      <4>2. answers' \in [Transfers -> 0..2]
        BY <1>4, <3>2 DEF Advance, Complete, Types
      <4>3. run' \in [Transfers -> RunStates] /\ serving' \in Transfers \union {None}
        BY <1>4, <3>2 DEF Advance, Return, Types, RunStates
      <4> QED BY <4>1, <4>2, <4>3
    <3> QED BY <3>1, <3>2
  <2>3. UNCHANGED <<spinning, interruptDpc, toServe>>
    BY <1>4 DEF Advance, Return, Continue, cpuVars
  <2> QED BY <1>4, <2>1, <2>2, <2>3 DEF Advance, Types, resumeVars, hwVars
<1> QED BY <1>1, <1>2, <1>3, <1>4

LEMMA PortStepTypes ==
    ASSUME Types, NEW t \in Transfers,
           \/ TrInit(t) \/ CheckFreePort(t) \/ ClaimPort(t)
           \/ Transferring(t) \/ EnableChannel(t) \/ TransferWaiting(t)
    PROVE  Types'
<1> USE DEF Types
<1>1. CASE TrInit(t)
  <2>1. TrStateMachine' \in [Transfers -> TrSm]
    <3> DEFINE s == IF Split(t) THEN "CheckFreePort" ELSE "Transferring"
               m == [TrStateMachine[t] EXCEPT !.State = s, !.Done = 0, !.CompleteSplit = FALSE]
    <3>1. s \in TrStates
      BY DEF TrStates
    <3>2. m \in TrSm
      <4>1. TrStateMachine[t] \in TrSm /\ 0 \in Int /\ FALSE \in BOOLEAN
        OBVIOUS
      <4> HIDE DEF s
      <4> QED BY <3>1, <4>1, TrSmFields, Zenon
    <3>3. TrStateMachine' = [TrStateMachine EXCEPT ![t] = m]
      BY <1>1 DEF TrInit
    <3> QED BY <3>2, <3>3
  <2> QED BY <1>1, <2>1 DEF TrInit, resumeVars, requestVars, cpuVars, hwVars
<1>2. CASE CheckFreePort(t)
  BY <1>2 DEF CheckFreePort, Return, Continue, RunStates, chVars, resumeVars, smVars,
              requestVars, cpuVars, hwVars
<1>3. CASE ClaimPort(t)
  <2>1. TrStateMachine' \in [Transfers -> TrSm]
    BY <1>3, TrSmState DEF ClaimPort, TrStates
  <2> QED BY <1>3, <2>1 DEF ClaimPort, Continue, RunStates, resumeVars, requestVars, cpuVars,
                            hwVars
<1>4. CASE Transferring(t)
  BY <1>4 DEF Transferring, Continue, RunStates, chVars, resumeVars, smVars, requestVars,
              cpuVars
<1>5. CASE EnableChannel(t)
  <2>1. TrStateMachine' \in [Transfers -> TrSm]
    BY <1>5, TrSmState DEF EnableChannel, TrStates
  <2>2. Unmasked(t) \subseteq Channels
    BY DEF Unmasked, Chan, TrSm
  <2> QED BY <1>5, <2>1, <2>2 DEF EnableChannel, Continue, RunStates, chVars, resumeVars,
                                  requestVars, cpuVars
<1>6. CASE TransferWaiting(t)
  <2>1. TrStateMachine' \in [Transfers -> TrSm]
    <3>1. "TransferHalted" \in TrStates
      BY DEF TrStates
    <3>2. [TrStateMachine EXCEPT ![t].State = "TransferHalted"] \in [Transfers -> TrSm]
      BY <3>1, TrSmState
    <3> QED BY <1>6, <3>2 DEF TransferWaiting
  <2>2. run' \in [Transfers -> RunStates] /\ serving' \in Transfers \union {None}
        /\ UNCHANGED <<spinning, interruptDpc, toServe>>
    BY <1>6 DEF TransferWaiting, Return, RunStates, cpuVars
  <2> QED BY <1>6, <2>1, <2>2 DEF TransferWaiting, chVars, resumeVars, requestVars, hwVars
<1> QED BY <1>1, <1>2, <1>3, <1>4, <1>5, <1>6

LEMMA HaltStepTypes ==
    ASSUME Types, NEW t \in Transfers,
           \/ HaltedDone(t) \/ HaltedNyetTimeout(t) \/ HaltedNak(t) \/ HaltedFailure(t)
           \/ TrDone(t)
    PROVE  Types'
<1> USE DEF Types
<1>1. CASE HaltedDone(t)
  <2> DEFINE outcome == hc[Chan(t)]
             done == TrStateMachine[t].Done + Packets(t, outcome)
             complete == outcome \in {"ack", "nyet"}
             s == IF ~complete /\ (\/ Packets(t, outcome) < XferLen(t)
                                  \/ done >= TrStateMachine[t].Length)
                  THEN "Done" ELSE "Transferring"
             m == [TrStateMachine[t] EXCEPT !.Done = done, !.CompleteSplit = complete, !.State = s]
  <2>1. done \in Int /\ complete \in BOOLEAN /\ s \in TrStates
    BY StageTypes DEF TrSm, TrStates
  <2>2. TrStateMachine' \in [Transfers -> TrSm]
    <3>1. TrStateMachine' = [TrStateMachine EXCEPT ![t] = m]
      BY <1>1 DEF HaltedDone
    <3>2. m \in TrSm
      <4> HIDE DEF done, complete, s
      <4> QED BY <2>1, TrSmFields
    <3> QED BY <3>1, <3>2
  <2> QED BY <1>1, <2>2 DEF HaltedDone, HaltedWith, chVars, resumeVars, requestVars, cpuVars
<1>2. CASE HaltedNyetTimeout(t)
  <2>1. TrStateMachine' \in [Transfers -> TrSm]
    BY <1>2, TrSmState DEF HaltedNyetTimeout, TrStates
  <2> QED BY <1>2, <2>1, PortTypes DEF HaltedNyetTimeout, HaltedWith, Continue, RunStates,
                                       resumeVars, requestVars, cpuVars
<1>3. CASE HaltedNak(t)
  BY <1>3, StageTypes, PortTypes DEF HaltedNak, HaltedWith, Continue, RunStates,
                                     resumeVars, requestVars, cpuVars
<1>4. CASE HaltedFailure(t)
  <2>1. StateMachine' \in [Transfers -> ChSm]
    BY <1>4, ChSmUpdate DEF HaltedFailure, ChStates
  <2>2. run' \in [Transfers -> RunStates] /\ answers' \in [Transfers -> 0..2]
        /\ serving' \in Transfers \union {None}
    BY <1>4 DEF HaltedFailure, Return, Complete, RunStates
  <2> QED BY <1>4, <2>1, <2>2, PortTypes DEF HaltedFailure, HaltedWith, Return, resumeVars
<1>5. CASE TrDone(t)
  BY <1>5, PortTypes DEF TrDone, Continue, RunStates, resumeVars, smVars, requestVars, cpuVars
<1> QED BY <1>1, <1>2, <1>3, <1>4, <1>5

LEMMA ReviveStepTypes ==
    ASSUME Types, NEW t \in Transfers, Revive(t) \/ ReviveAndWait(t)
    PROVE  Types'
<1>1. Waiters(t) \subseteq Channels /\ ToRevive(t) \subseteq Channels
  BY PortTypes
<1>2. ASSUME NEW channels, SetTimers(t, ToRevive(t) \union channels)
      PROVE  /\ ChResumeContexts' \in [Channels -> Transfers \union {None}]
             /\ ChResumeTimers' = ChResumeTimers \union ToRevive(t) \union channels
             /\ UNCHANGED ChSmDpc
  BY <1>1, <1>2 DEF SetTimers, Types
<1>3. CASE Revive(t)
  <2>1. SetTimers(t, ToRevive(t) \union {})
    BY <1>3 DEF Revive
  <2>2. /\ ChResumeContexts' \in [Channels -> Transfers \union {None}]
        /\ ChResumeTimers' = ChResumeTimers \union ToRevive(t) /\ UNCHANGED ChSmDpc
    BY <1>2, <2>1
  <2> QED BY <1>1, <1>3, <2>2, PortTypes
          DEF Revive, Continue, Types, RunStates, smVars, requestVars, cpuVars, hwVars
<1>4. CASE ReviveAndWait(t)
  <2>1. NakTimer(t) \subseteq Channels
    BY DEF NakTimer, Chan, Types, TrSm
  <2>2. SetTimers(t, ToRevive(t) \union NakTimer(t))
    BY <1>4 DEF ReviveAndWait
  <2>3. ChResumeTimers' \subseteq Channels
    BY <1>1, <1>2, <2>1, <2>2 DEF Types
  <2> QED BY <1>2, <1>4, <2>2, <2>3
          DEF ReviveAndWait, Return, Types, RunStates, chVars, smVars, requestVars, hwVars
<1> QED BY <1>3, <1>4

\* The steps of Next, one by one.
LEMMA Steps ==
    ASSUME Next
    PROVE  \/ \E t \in Transfers : Ask(t) \/ Step(t)
           \/ \E c \in Channels : RunSmDpc(c) \/ ResumeCh(c)
           \/ \E c \in Channels, o \in AllOutcomes : HwHalt(c, o)
           \/ OnInterruptIsr \/ OnInterruptDpc \/ ServeChannel
BY DEF Next

LEMMA StepTypes == Types /\ [Next]_vars => Types'
<1> SUFFICES ASSUME Types, [Next]_vars PROVE Types'
  OBVIOUS
<1>1. ASSUME NEW t \in Transfers, Step(t) PROVE Types'
  BY <1>1, StageStepTypes, PortStepTypes, HaltStepTypes, ReviveStepTypes DEF Step
<1>2. CASE UNCHANGED vars
  BY <1>2 DEF vars, chVars, resumeVars, smVars, requestVars, cpuVars, hwVars, Types
<1> QED BY <1>1, <1>2, Steps, RequestTypes, WhoRunsTypes

-----------------------------------------------------------------------------
(* Counts                                                                   *)

\* What has been transferred of a stage stays within it.
Ranges ==
    /\ moved \in [Transfers -> Nat]
    /\ \A t \in Transfers : TrStateMachine[t].Done \in 0..TrStateMachine[t].Length

LEMMA PacketsFit ==
    ASSUME Types, Ranges, NEW t \in Transfers, NEW outcome
    PROVE  /\ TrStateMachine[t].Length \in Nat /\ TrStateMachine[t].Done \in Nat
           /\ TrStateMachine[t].Done <= TrStateMachine[t].Length
           /\ XferLen(t) \in Nat
           /\ XferLen(t) <= TrStateMachine[t].Length - TrStateMachine[t].Done
           /\ Packets(t, outcome) \in 0..XferLen(t)
<1>1. /\ TrStateMachine[t].Length \in Nat /\ TrStateMachine[t].Done \in Nat
      /\ TrStateMachine[t].Done <= TrStateMachine[t].Length
  <2>1. TrStateMachine[t].Length \in Int /\ TrStateMachine[t].Done \in 0..TrStateMachine[t].Length
    BY DEF Types, TrSm, Ranges
  <2> QED BY <2>1
<1>2. XferLen(t) \in Nat /\ XferLen(t) <= TrStateMachine[t].Length - TrStateMachine[t].Done
  BY <1>1 DEF XferLen
<1>3. Packets(t, outcome) \in 0..XferLen(t)
  BY <1>2 DEF Packets
<1> QED BY <1>1, <1>2, <1>3

\* A step that leaves the counts of every stage alone.
LEMMA SameRanges ==
    ASSUME Ranges, UNCHANGED moved,
           \A t \in Transfers : /\ TrStateMachine'[t].Done = TrStateMachine[t].Done
                                /\ TrStateMachine'[t].Length = TrStateMachine[t].Length
    PROVE  Ranges'
BY DEF Ranges

\* A step that leaves the counts of all other stages alone.
LEMMA OneRange ==
    ASSUME Ranges, NEW t \in Transfers, moved' \in [Transfers -> Nat],
           TrStateMachine'[t].Done \in 0..TrStateMachine'[t].Length,
           \A u \in Transfers \ {t} : TrStateMachine'[u] = TrStateMachine[u]
    PROVE  Ranges'
BY DEF Ranges

LEMMA StageRanges ==
    ASSUME Types, Ranges, NEW t \in Transfers,
           AcquireLock(t) \/ RunIdle(t) \/ BeginStage(t) \/ Advance(t) \/ TrInit(t)
    PROVE  Ranges'
<1>1. CASE AcquireLock(t) \/ RunIdle(t) \/ Advance(t)
  BY <1>1, SameRanges DEF AcquireLock, RunIdle, Advance, smVars, hwVars
<1>2. CASE BeginStage(t)
  <2>1. StageLength(t) \in Nat /\ TrStateMachine[t] \in TrSm
    BY StageTypes DEF Types
  <2>2. TrStateMachine'[t].Done = 0 /\ TrStateMachine'[t].Length = StageLength(t)
    BY <1>2, <2>1 DEF BeginStage, Types, TrSm
  <2>3. moved' \in [Transfers -> Nat]
    BY <1>2 DEF BeginStage, Ranges
  <2>4. \A u \in Transfers \ {t} : TrStateMachine'[u] = TrStateMachine[u]
    BY <1>2 DEF BeginStage, Types
  <2>5. TrStateMachine'[t].Done \in 0..TrStateMachine'[t].Length
    BY <2>1, <2>2
  <2> QED BY <2>3, <2>4, <2>5, OneRange
<1>3. CASE TrInit(t)
  <2>1. TrStateMachine[t] \in TrSm /\ TrStateMachine[t].Length \in Nat
    BY PacketsFit DEF Types
  <2>2. TrStateMachine'[t].Done = 0 /\ TrStateMachine'[t].Length = TrStateMachine[t].Length
    BY <1>3, <2>1 DEF TrInit, Types, TrSm
  <2>3. UNCHANGED moved /\ \A u \in Transfers \ {t} : TrStateMachine'[u] = TrStateMachine[u]
    BY <1>3 DEF TrInit, hwVars, Types
  <2>4. TrStateMachine'[t].Done \in 0..TrStateMachine'[t].Length
    BY <2>1, <2>2
  <2> QED BY <2>3, <2>4, OneRange DEF Ranges
<1> QED BY <1>1, <1>2, <1>3

LEMMA PortRanges ==
    ASSUME Types, Ranges, NEW t \in Transfers,
           \/ CheckFreePort(t) \/ ClaimPort(t) \/ Transferring(t) \/ EnableChannel(t)
           \/ TransferWaiting(t) \/ HaltedNyetTimeout(t)
    PROVE  Ranges'
<1>1. CASE CheckFreePort(t) \/ Transferring(t)
  BY <1>1, SameRanges DEF CheckFreePort, Transferring, smVars, hwVars
<1>2. ASSUME NEW s, TrStateMachine' = [TrStateMachine EXCEPT ![t].State = s], UNCHANGED moved
      PROVE  Ranges'
  BY <1>2, SameRanges DEF Types, TrSm
<1>3. CASE ClaimPort(t) \/ EnableChannel(t)
  BY <1>2, <1>3 DEF ClaimPort, EnableChannel, hwVars
<1>4. CASE TransferWaiting(t)
  <2>1. CASE UNCHANGED TrStateMachine
    BY <1>4, <2>1, SameRanges DEF TransferWaiting, hwVars
  <2>2. CASE TrStateMachine' = [TrStateMachine EXCEPT ![t].State = "TransferHalted"]
    BY <1>2, <1>4, <2>2 DEF TransferWaiting, hwVars
  <2> QED BY <1>4, <2>1, <2>2 DEF TransferWaiting
<1>5. CASE HaltedNyetTimeout(t)
  BY <1>2, <1>5 DEF HaltedNyetTimeout, HaltedWith
<1> QED BY <1>1, <1>3, <1>4, <1>5

LEMMA HaltRanges ==
    ASSUME Types, Ranges, NEW t \in Transfers,
           \/ HaltedDone(t) \/ HaltedNak(t) \/ HaltedFailure(t) \/ TrDone(t)
           \/ Revive(t) \/ ReviveAndWait(t)
    PROVE  Ranges'
<1>0. /\ TrStateMachine[t] \in TrSm
      /\ TrStateMachine[t].Length \in Nat /\ TrStateMachine[t].Done \in Nat
      /\ TrStateMachine[t].Done <= TrStateMachine[t].Length
  BY PacketsFit DEF Types
<1>1. CASE HaltedDone(t)
  <2>1. /\ TrStateMachine'[t].Done = TrStateMachine[t].Done + Packets(t, hc[Chan(t)])
        /\ TrStateMachine'[t].Length = TrStateMachine[t].Length
    BY <1>0, <1>1 DEF HaltedDone, Types, TrSm
  <2>2. UNCHANGED moved /\ \A u \in Transfers \ {t} : TrStateMachine'[u] = TrStateMachine[u]
    BY <1>1 DEF HaltedDone, HaltedWith, Types
  <2>3. TrStateMachine'[t].Done \in 0..TrStateMachine'[t].Length
    BY <1>0, <2>1, PacketsFit
  <2> QED BY <2>2, <2>3, OneRange DEF Ranges
<1>2. CASE HaltedNak(t)
  <2>1. TrStateMachine'[t] = AfterNak(t)
    BY <1>2 DEF HaltedNak, Types
  <2>2. UNCHANGED moved /\ \A u \in Transfers \ {t} : TrStateMachine'[u] = TrStateMachine[u]
    BY <1>2 DEF HaltedNak, HaltedWith, Types
  <2>3. AfterNak(t).Done \in 0..AfterNak(t).Length
    <3>1. CASE Kind[t] = "Control"
      <4>1. /\ AfterNak(t).Done = 0
            /\ AfterNak(t).Length = TrStateMachine[t].Length - TrStateMachine[t].Done
        BY <1>0, <3>1 DEF AfterNak, TrSm
      <4> QED BY <1>0, <4>1
    <3>2. CASE Kind[t] # "Control"
      <4>1. /\ AfterNak(t).Done = TrStateMachine[t].Done
            /\ AfterNak(t).Length = TrStateMachine[t].Length
        BY <1>0, <3>2 DEF AfterNak, TrSm
      <4> QED BY <1>0, <4>1
    <3> QED BY <3>1, <3>2
  <2> QED BY <2>1, <2>2, <2>3, OneRange DEF Ranges
<1>3. CASE HaltedFailure(t)
  BY <1>3, SameRanges DEF HaltedFailure, HaltedWith
<1>4. CASE TrDone(t) \/ Revive(t) \/ ReviveAndWait(t)
  BY <1>4, SameRanges DEF TrDone, Revive, ReviveAndWait, smVars, hwVars
<1> QED BY <1>1, <1>2, <1>3, <1>4

LEMMA StepRanges == Types /\ Ranges /\ [Next]_vars => Ranges'
<1> SUFFICES ASSUME Types, Ranges, [Next]_vars PROVE Ranges'
  OBVIOUS
<1>1. ASSUME NEW t \in Transfers, Step(t) PROVE Ranges'
  BY <1>1, StageRanges, PortRanges, HaltRanges DEF Step
<1>2. ASSUME NEW t \in Transfers, Ask(t) PROVE Ranges'
  BY <1>2, SameRanges
     DEF Ask, FindChannel, Submit, Purge, PurgeCompleteAndStart, smVars, hwVars
<1>3. ASSUME NEW c \in Channels, RunSmDpc(c) \/ ResumeCh(c) PROVE Ranges'
  BY <1>3, SameRanges DEF RunSmDpc, ResumeCh, hwVars
<1>4. ASSUME NEW c \in Channels, NEW o \in AllOutcomes, HwHalt(c, o) PROVE Ranges'
  <2> DEFINE t == ChannelCallbacks[c]
  <2>1. CASE t \in Transfers
    <3>1. Packets(t, o) \in Nat
      BY <2>1, PacketsFit
    <3>2. moved' \in [Transfers -> Nat]
      <4>1. moved' = [moved EXCEPT ![t] = @ + Packets(t, o)]
        BY <1>4 DEF HwHalt
      <4> HIDE DEF t
      <4> QED BY <2>1, <3>1, <4>1 DEF Ranges
    <3> QED BY <1>4, <3>2 DEF HwHalt, smVars, Ranges
  <2>2. CASE t \notin Transfers
    <3>1. UNCHANGED moved
      <4>1. moved' = [moved EXCEPT ![t] = @ + Packets(t, o)]
        BY <1>4 DEF HwHalt
      <4> HIDE DEF t
      <4> QED BY <2>2, <4>1 DEF Ranges
    <3> QED BY <1>4, <3>1, SameRanges DEF HwHalt, smVars
  <2> QED BY <2>1, <2>2
<1>5. CASE OnInterruptIsr \/ OnInterruptDpc \/ ServeChannel
  BY <1>5, SameRanges DEF OnInterruptIsr, OnInterruptDpc, ServeChannel, smVars, hwVars
<1>6. CASE UNCHANGED vars
  BY <1>6, SameRanges DEF vars, smVars, hwVars
<1> QED BY <1>1, <1>2, <1>3, <1>4, <1>5, <1>6, Steps

\* Whatever the processors do at the same time, every variable keeps its type:
\* what a transfer has done stays within its length, also when a retry of a
\* control transfer moves both (UsbDevice.c:1015, 1047).
THEOREM TransfersTyped == Spec => []TypeOK
<1>1. Init => Ranges
  BY DEF Init, Ranges
<1>2. (Types /\ Ranges) /\ [Next]_vars => (Types /\ Ranges)'
  BY StepTypes, StepRanges
<1>3. Types /\ Ranges => TypeOK
  <2> SUFFICES ASSUME Types, Ranges PROVE TypeOK
    OBVIOUS
  <2>1. ASSUME NEW t \in Transfers
        PROVE  /\ StateMachine[t].State \in ChStates /\ NextStateMachine[t].State \in ChStates
               /\ TrStateMachine[t].State \in TrStates
               /\ StateMachine[t].Channel \in Channels
    BY DEF Types, ChSm, TrSm
  <2> QED BY <2>1 DEF Types, Ranges, TypeOK
<1> QED BY <1>1, <1>2, <1>3, InitTypes, PTL DEF Spec

-----------------------------------------------------------------------------
(* Runs and processors                                                      *)

Busy(t) == run[t] # "off" \/ t \in spinning

\* What a run of t does to the processors.
Runs(t) ==
    /\ run[t] # "off"
    /\ \A u \in Transfers \ {t} : run'[u] = run[u]
    /\ UNCHANGED <<spinning, interruptDpc, toServe>>
    /\ serving' = IF run'[t] = "off" /\ serving = t THEN None ELSE serving

LEMMA StepRuns ==
    ASSUME Types, NEW t \in Transfers, Step(t), ~AcquireLock(t)
    PROVE  Runs(t)
<1> USE DEF Types
<1>1. CASE RunIdle(t) \/ BeginStage(t) \/ Advance(t)
  BY <1>1 DEF RunIdle, BeginStage, Advance, Return, Continue, Runs, cpuVars
<1>2. CASE TrInit(t) \/ CheckFreePort(t) \/ ClaimPort(t)
  BY <1>2 DEF TrInit, CheckFreePort, ClaimPort, At, Return, Continue, Runs, cpuVars
<1>3. CASE Transferring(t) \/ EnableChannel(t) \/ TransferWaiting(t)
  BY <1>3 DEF Transferring, EnableChannel, TransferWaiting, At, Return, Continue, Runs, cpuVars
<1>4. CASE HaltedDone(t) \/ HaltedNyetTimeout(t) \/ HaltedNak(t) \/ HaltedFailure(t)
  BY <1>4 DEF HaltedDone, HaltedNyetTimeout, HaltedNak, HaltedFailure, HaltedWith, At, Return,
              Continue, Runs, cpuVars
<1>5. CASE TrDone(t) \/ Revive(t) \/ ReviveAndWait(t)
  BY <1>5 DEF TrDone, Revive, ReviveAndWait, At, Return, Continue, Runs, cpuVars
<1> QED BY <1>1, <1>2, <1>3, <1>4, <1>5 DEF Step

-----------------------------------------------------------------------------
(* Translator ports                                                         *)

\* The runs and DPCs that are under way fit on the processors.
RunBound ==
    /\ Cardinality((Running \ {serving}) \union spinning) + (IF Serving THEN 1 ELSE 0)
         <= Processors
    /\ serving # None => run[serving] # "off"

\* The channels that have claimed a port, and the runs about to claim it.
Users(p) == {c \in Channels : ChTt[c] = p}
Claimers(p) == {t \in Transfers : run[t] = "claim" /\ TtPort[t] = p}
Sharing == \A p : p # None =>
              Cardinality(Users(p)) + Cardinality(Claimers(p)) <= Processors

LEMMA Finite ==
    ASSUME NEW S, S \subseteq Channels \/ S \subseteq Transfers
    PROVE  IsFiniteSet(S) /\ Cardinality(S) \in Nat
<1>1. IsFiniteSet(S)
  BY TransferAssumption, FS_Subset
<1> QED BY <1>1, FS_CardinalityType

LEMMA Fewer ==
    ASSUME NEW S, NEW T, T \subseteq S, S \subseteq Channels \/ S \subseteq Transfers
    PROVE  Cardinality(T) <= Cardinality(S)
BY Finite, FS_Subset

LEMMA OneMore ==
    ASSUME NEW S, NEW T, NEW x, T \subseteq S \union {x},
           \/ S \subseteq Channels /\ x \in Channels
           \/ S \subseteq Transfers /\ x \in Transfers
    PROVE  Cardinality(T) <= Cardinality(S) + 1
<1>1. IsFiniteSet(S) /\ IsFiniteSet(S \union {x}) /\ Cardinality(S) \in Nat
      /\ Cardinality(S \union {x}) \in Nat
  <2>1. S \union {x} \subseteq Channels \/ S \union {x} \subseteq Transfers
    OBVIOUS
  <2> QED BY <2>1, Finite
<1>2. Cardinality(S \union {x}) <= Cardinality(S) + 1
  BY <1>1, FS_AddElement
<1>3. Cardinality(T) <= Cardinality(S \union {x}) /\ Cardinality(T) \in Nat
  BY <1>1, FS_Subset, FS_CardinalityType
<1> QED BY <1>1, <1>2, <1>3

LEMMA OneLess ==
    ASSUME NEW S, NEW T, NEW x \in S, T \subseteq S \ {x}, S \subseteq Transfers
    PROVE  Cardinality(T) + 1 <= Cardinality(S)
<1>1. IsFiniteSet(S) /\ IsFiniteSet(S \ {x})
  BY Finite
<1>2. Cardinality(S \ {x}) = Cardinality(S) - 1 /\ Cardinality(S) \in Nat
  BY <1>1, FS_RemoveElement, FS_CardinalityType
<1>3. Cardinality(T) <= Cardinality(S \ {x}) /\ Cardinality(T) \in Nat
  BY <1>1, FS_Subset, FS_CardinalityType
<1> QED BY <1>2, <1>3

LEMMA RunBoundKept ==
    ASSUME Types, RunBound,
           (Running' \ {serving'}) \union spinning' \subseteq (Running \ {serving}) \union spinning,
           Serving' => Serving,
           serving' # None => run'[serving'] # "off"
    PROVE  RunBound'
<1> DEFINE B == (Running \ {serving}) \union spinning
           D == (Running' \ {serving'}) \union spinning'
<1>1. B \subseteq Transfers
  BY DEF Types, Running
<1>2. Cardinality(B) \in Nat /\ Cardinality(D) \in Nat /\ Cardinality(D) <= Cardinality(B)
  <2>1. D \subseteq B
    OBVIOUS
  <2> HIDE DEF B, D
  <2> QED BY <1>1, <2>1, Finite, Fewer
<1>3. Cardinality(B) + (IF Serving THEN 1 ELSE 0) <= Processors
  BY DEF RunBound
<1>4. Cardinality(D) + (IF Serving' THEN 1 ELSE 0) <= Processors
  <2> HIDE DEF B, D
  <2> QED BY <1>2, <1>3, TransferAssumption
<1> QED BY <1>4 DEF RunBound

LEMMA StepRunBound == Types /\ RunBound /\ [Next]_vars => RunBound'
<1> SUFFICES ASSUME Types, RunBound, [Next]_vars PROVE RunBound'
  OBVIOUS
<1> DEFINE B == (Running \ {serving}) \union spinning
           D == (Running' \ {serving'}) \union spinning'
<1>0. serving # None => run[serving] # "off" /\ serving \in Transfers
  BY DEF RunBound, Types
<1>1. ASSUME NEW t \in Transfers, Runs(t) PROVE RunBound'
  <2>1. D \subseteq B
    BY <1>1 DEF Runs, Running, Types
  <2>2. Serving' => Serving
    BY <1>1, NoneApart DEF Runs, Serving
  <2>3. serving' # None => run'[serving'] # "off"
    BY <1>0, <1>1 DEF Runs
  <2> QED BY <2>1, <2>2, <2>3, RunBoundKept
<1>2. ASSUME NEW t \in Transfers, AcquireLock(t) PROVE RunBound'
  <2>1. D \subseteq B
    BY <1>2 DEF AcquireLock, Running, Types
  <2> QED BY <1>0, <1>2, <2>1, RunBoundKept DEF AcquireLock, Types, Serving
<1>3. ASSUME UNCHANGED <<run, spinning, serving, toServe>> PROVE RunBound'
  BY <1>3, RunBoundKept, <1>0 DEF Serving, Running
<1>4. ASSUME NEW t \in Transfers, Ask(t) PROVE RunBound'
  BY <1>3, <1>4 DEF Ask, FindChannel, Purge, PurgeCompleteAndStart, Submit, cpuVars
<1>5. ASSUME NEW c \in Channels, RunSmDpc(c) PROVE RunBound'
  <2>1. PICK t \in Transfers : spinning' = spinning \union {t}
    BY <1>5 DEF RunSmDpc, Types
  <2>2. UNCHANGED <<run, serving, toServe>>
    BY <1>5 DEF RunSmDpc
  <2>3. B \subseteq Transfers /\ D \subseteq B \union {t}
    BY <2>1, <2>2 DEF Types, Running
  <2>4. Cardinality(B) + (IF Serving THEN 1 ELSE 0) < Processors
    BY <1>5 DEF RunSmDpc, ProcessorFree
  <2>5. Cardinality(B) \in Nat /\ Cardinality(D) \in Nat
        /\ Cardinality(D) <= Cardinality(B) + 1
    <3> HIDE DEF B, D
    <3>1. D \subseteq Transfers
      BY <2>3
    <3> QED BY <2>3, <3>1, Finite, OneMore
  <2>6. Cardinality(D) + (IF Serving' THEN 1 ELSE 0) <= Processors
    <3>1. Serving' <=> Serving
      BY <2>2 DEF Serving
    <3> HIDE DEF B, D
    <3> QED BY <2>4, <2>5, <3>1, TransferAssumption
  <2> QED BY <1>0, <2>2, <2>6 DEF RunBound
<1>6. ASSUME NEW c \in Channels, ResumeCh(c) PROVE RunBound'
  BY <1>3, <1>6 DEF ResumeCh, cpuVars
<1>7. ASSUME NEW c \in Channels, NEW o \in AllOutcomes, HwHalt(c, o) PROVE RunBound'
  BY <1>3, <1>7 DEF HwHalt, cpuVars
<1>8. CASE OnInterruptIsr
  BY <1>3, <1>8 DEF OnInterruptIsr
<1>9. CASE OnInterruptDpc
  <2>1. Cardinality(B) + (IF Serving THEN 1 ELSE 0) < Processors /\ ~Serving
    BY <1>9 DEF OnInterruptDpc, ProcessorFree
  <2>2. UNCHANGED <<run, serving, spinning>> /\ D = B
    BY <1>9 DEF OnInterruptDpc, Running
  <2>3. Cardinality(B) \in Nat
    <3>1. B \subseteq Transfers
      BY DEF Types, Running
    <3> HIDE DEF B
    <3> QED BY <3>1, Finite
  <2>4. Cardinality(D) + (IF Serving' THEN 1 ELSE 0) <= Processors
    <3> HIDE DEF B, D
    <3> QED BY <2>1, <2>2, <2>3, TransferAssumption
  <2> QED BY <1>0, <2>2, <2>4 DEF RunBound
<1>10. CASE ServeChannel
  <2>1. Least(toServe) \in Channels /\ Serving /\ serving = None
    BY <1>10, LeastOf, TransferAssumption DEF ServeChannel, Serving, Types
  <2>2. CASE ChannelCallbacks[Least(toServe)] = None
    <3>1. D = B /\ UNCHANGED <<run, serving>>
      BY <1>10, <2>2 DEF ServeChannel, Running
    <3> QED BY <1>0, <2>1, <3>1, RunBoundKept
  <2>3. CASE ChannelCallbacks[Least(toServe)] # None
    <3>1. PICK t \in Transfers : run' = [run EXCEPT ![t] = "on"] /\ serving' = t
      BY <1>10, <2>1, <2>3 DEF ServeChannel, Types
    <3>2. UNCHANGED spinning
      BY <1>10 DEF ServeChannel
    <3>3. D \subseteq B
      BY <2>1, <3>1, <3>2, NoneApart DEF Running, Types
    <3>4. run'[serving'] # "off"
      BY <3>1 DEF Types
    <3> QED BY <2>1, <3>3, <3>4, RunBoundKept
  <2> QED BY <2>2, <2>3
<1>11. CASE UNCHANGED vars
  BY <1>3, <1>11 DEF vars, cpuVars
<1>12. ASSUME NEW t \in Transfers, Step(t) PROVE RunBound'
  BY <1>1, <1>2, <1>12, StepRuns
<1> QED BY <1>4, <1>5, <1>6, <1>7, <1>8, <1>9, <1>10, <1>11, <1>12, Steps

\* Only the steps of a run that has looked claim a port, and the others give up
\* at most their own.
LEMMA PortSteps ==
    ASSUME Types, NEW t \in Transfers, Step(t)
    PROVE  \/ /\ UNCHANGED ChTt
              /\ \A u \in Transfers : run'[u] = "claim" => run[u] = "claim"
           \/ CheckFreePort(t)
           \/ ClaimPort(t)
           \/ ChTt' = Unclaimed(t) /\ run[t] # "off" /\ run'[t] # "claim"
                /\ \A u \in Transfers \ {t} : run'[u] = run[u]
<1> USE DEF Types
<1>1. CASE AcquireLock(t) \/ RunIdle(t) \/ BeginStage(t) \/ Advance(t)
  BY <1>1 DEF AcquireLock, RunIdle, BeginStage, Advance, Return, Continue, cpuVars, chVars
<1>2. CASE TrInit(t) \/ Transferring(t) \/ EnableChannel(t) \/ TransferWaiting(t)
  BY <1>2 DEF TrInit, Transferring, EnableChannel, TransferWaiting, Return, Continue,
              cpuVars, chVars
<1>3. CASE HaltedDone(t)
  BY <1>3 DEF HaltedDone, chVars
<1>4. CASE HaltedNyetTimeout(t) \/ HaltedNak(t)
  BY <1>4 DEF HaltedNyetTimeout, HaltedNak, HaltedWith, At, Continue, cpuVars
<1>5. CASE HaltedFailure(t) \/ TrDone(t)
  BY <1>5 DEF HaltedFailure, HaltedWith, TrDone, At, Return, Continue, cpuVars
<1>6. CASE Revive(t) \/ ReviveAndWait(t)
  BY <1>6 DEF Revive, ReviveAndWait, Return, Continue, cpuVars, chVars
<1> QED BY <1>1, <1>2, <1>3, <1>4, <1>5, <1>6 DEF Step

LEMMA FewerShare ==
    ASSUME Types, Sharing, NEW p, p # None,
           Users(p)' \subseteq Users(p), Claimers(p)' \subseteq Claimers(p)
    PROVE  Cardinality(Users(p)') + Cardinality(Claimers(p)') <= Processors
<1>1. Users(p) \subseteq Channels /\ Claimers(p) \subseteq Transfers
  BY DEF Users, Claimers
<1>2. /\ Cardinality(Users(p)') <= Cardinality(Users(p)) /\ Cardinality(Users(p)) \in Nat
      /\ Cardinality(Claimers(p)') <= Cardinality(Claimers(p))
      /\ Cardinality(Claimers(p)) \in Nat
      /\ Cardinality(Users(p)') \in Nat /\ Cardinality(Claimers(p)') \in Nat
  BY <1>1, Fewer, Finite
<1> QED BY <1>2, TransferAssumption DEF Sharing

LEMMA StepSharing == Types /\ RunBound /\ Sharing /\ [Next]_vars => Sharing'
<1> SUFFICES ASSUME Types, RunBound, Sharing, [Next]_vars, NEW p, p # None
             PROVE  Cardinality(Users(p)') + Cardinality(Claimers(p)') <= Processors
  BY DEF Sharing
<1> DEFINE Goal == Cardinality(Users(p)') + Cardinality(Claimers(p)') <= Processors
<1>1. ASSUME UNCHANGED ChTt, \A u \in Transfers : run'[u] = "claim" => run[u] = "claim"
      PROVE  Goal
  <2>1. Users(p)' \subseteq Users(p) /\ Claimers(p)' \subseteq Claimers(p)
    BY <1>1 DEF Users, Claimers
  <2> QED BY <2>1, FewerShare
<1>2. ASSUME NEW t \in Transfers, CheckFreePort(t) PROVE Goal
  <2>1. UNCHANGED ChTt /\ (run'[t] = "claim" => ~PortTaken(t))
    BY <1>2 DEF CheckFreePort, Return, Continue, chVars, Types
  <2>2. run[t] = "on" /\ \A u \in Transfers \ {t} : run'[u] = run[u]
    <3>1. run[t] = "on"
      BY <1>2 DEF CheckFreePort, At
    <3>2. PICK r : run' = [run EXCEPT ![t] = r]
      BY <1>2 DEF CheckFreePort, Return, Continue
    <3> QED BY <3>1, <3>2 DEF Types
  <2>3. CASE Claimers(p)' \subseteq Claimers(p)
    <3>1. Users(p)' \subseteq Users(p)
      BY <2>1 DEF Users
    <3> QED BY <2>3, <3>1, FewerShare
  <2>4. CASE ~(Claimers(p)' \subseteq Claimers(p))
    <3>1. run'[t] = "claim" /\ TtPort[t] = p
      BY <2>2, <2>4 DEF Claimers
    <3>2. Users(p)' = {}
      BY <2>1, <3>1 DEF Users, PortTaken
    <3>3. Claimers(p)' \subseteq Running
      BY <2>2 DEF Claimers, Running
    <3>4. Cardinality(Running) <= Processors /\ Cardinality(Running) \in Nat
      <4> DEFINE B == (Running \ {serving}) \union spinning
      <4>1. B \subseteq Transfers /\ Running \subseteq Transfers
            /\ Cardinality(B) + (IF Serving THEN 1 ELSE 0) <= Processors
        BY DEF Types, Running, RunBound
      <4>2. Cardinality(B) \in Nat /\ Cardinality(Running) \in Nat
        <5> HIDE DEF B
        <5> QED BY <4>1, Finite
      <4>3. CASE serving = None
        <5>1. Running \subseteq B
          BY <4>1, <4>3, NoneApart
        <5>2. Cardinality(Running) <= Cardinality(B)
          <6> HIDE DEF B
          <6> QED BY <4>1, <5>1, Fewer
        <5> HIDE DEF B
        <5> QED BY <4>1, <4>2, <5>2, TransferAssumption
      <4>4. CASE serving # None
        <5>1. Running \subseteq B \union {serving} /\ Serving /\ serving \in Transfers
          BY <4>4 DEF Serving, Types
        <5>2. Cardinality(Running) <= Cardinality(B) + 1
          <6> HIDE DEF B
          <6> QED BY <4>1, <5>1, OneMore
        <5> HIDE DEF B
        <5> QED BY <4>1, <4>2, <5>1, <5>2, TransferAssumption
      <4> QED BY <4>3, <4>4
    <3>5. Cardinality(Claimers(p)') <= Cardinality(Running)
          /\ Cardinality(Claimers(p)') \in Nat
      <4>1. Running \subseteq Transfers /\ Claimers(p)' \subseteq Transfers
        BY <3>3 DEF Running
      <4> QED BY <3>3, <4>1, Fewer, Finite
    <3>6. Cardinality(Users(p)') = 0
      BY <3>2, FS_EmptySet
    <3> QED BY <3>4, <3>5, <3>6, TransferAssumption
  <2> QED BY <2>3, <2>4
<1>3. ASSUME NEW t \in Transfers, ClaimPort(t) PROVE Goal
  <2>1. run[t] = "claim" /\ run'[t] = "on" /\ \A u \in Transfers \ {t} : run'[u] = run[u]
    BY <1>3 DEF ClaimPort, Continue, Types
  <2>2. Chan(t) \in Channels
        /\ \A c \in Channels : ChTt'[c] = IF c = Chan(t) THEN TtPort[t] ELSE ChTt[c]
    BY <1>3 DEF ClaimPort, Types, Chan, TrSm
  <2>3. CASE TtPort[t] # p
    <3>1. Users(p)' \subseteq Users(p) /\ Claimers(p)' \subseteq Claimers(p)
      BY <2>1, <2>2, <2>3 DEF Users, Claimers
    <3> QED BY <3>1, FewerShare
  <2>4. CASE TtPort[t] = p
    <3>1. /\ Users(p) \subseteq Channels /\ Users(p)' \subseteq Users(p) \union {Chan(t)}
          /\ Users(p)' \subseteq Channels
      BY <2>2 DEF Users
    <3>2. /\ Claimers(p) \subseteq Transfers /\ t \in Claimers(p)
          /\ Claimers(p)' \subseteq Claimers(p) \ {t} /\ Claimers(p)' \subseteq Transfers
      BY <2>1, <2>4 DEF Claimers
    <3>3. Cardinality(Users(p)') <= Cardinality(Users(p)) + 1
      BY <2>2, <3>1, OneMore
    <3>4. Cardinality(Claimers(p)') + 1 <= Cardinality(Claimers(p))
      BY <3>2, OneLess
    <3>5. /\ Cardinality(Users(p)) \in Nat /\ Cardinality(Users(p)') \in Nat
          /\ Cardinality(Claimers(p)) \in Nat /\ Cardinality(Claimers(p)') \in Nat
      BY <3>1, <3>2, Finite
    <3>6. Cardinality(Users(p)) + Cardinality(Claimers(p)) <= Processors
      BY DEF Sharing
    <3> QED BY <3>3, <3>4, <3>5, <3>6, TransferAssumption
  <2> QED BY <2>3, <2>4
<1>4. ASSUME NEW t \in Transfers, ChTt' = Unclaimed(t), run'[t] # "claim",
             \A u \in Transfers \ {t} : run'[u] = run[u]
      PROVE  Goal
  <2>1. Users(p)' \subseteq Users(p)
    BY <1>4 DEF Users, Unclaimed, Types
  <2>2. Claimers(p)' \subseteq Claimers(p)
    BY <1>4 DEF Claimers
  <2> QED BY <2>1, <2>2, FewerShare
<1>5. ASSUME NEW t \in Transfers, Step(t) PROVE Goal
  BY <1>1, <1>2, <1>3, <1>4, <1>5, PortSteps
<1>6. ASSUME NEW t \in Transfers, Ask(t) PROVE Goal
  BY <1>1, <1>6 DEF Ask, FindChannel, Purge, PurgeCompleteAndStart, Submit, chVars
<1>7. ASSUME NEW c \in Channels, RunSmDpc(c) \/ ResumeCh(c) PROVE Goal
  BY <1>1, <1>7 DEF RunSmDpc, ResumeCh, chVars
<1>8. ASSUME NEW c \in Channels, NEW o \in AllOutcomes, HwHalt(c, o) PROVE Goal
  BY <1>1, <1>8 DEF HwHalt, chVars
<1>9. CASE OnInterruptIsr \/ OnInterruptDpc
  BY <1>1, <1>9 DEF OnInterruptIsr, OnInterruptDpc, chVars
<1>10. CASE ServeChannel
  <2>1. \A u \in Transfers : run'[u] = "claim" => run[u] = "claim"
    BY <1>10 DEF ServeChannel, Types
  <2> QED BY <1>1, <1>10, <2>1 DEF ServeChannel, chVars
<1>11. CASE UNCHANGED vars
  BY <1>1, <1>11 DEF vars, chVars
<1> QED BY <1>5, <1>6, <1>7, <1>8, <1>9, <1>10, <1>11, Steps

\* A translator port works for one channel at a time, the code means to see to
\* (UsbDevice.c:703-715), but looks and claims in two steps.  However late the
\* claims come, a port never works for more channels than there are processors
\* that may have looked: for one channel on one processor, and for four on the
\* four of the Raspberry Pi 3.
THEOREM PortSharing ==
    Spec => [](\A p : p # None => Cardinality({c \in Channels : ChTt[c] = p}) <= Processors)
<1> DEFINE Shared == \A p : p # None => Cardinality({c \in Channels : ChTt[c] = p}) <= Processors
<1>1. Init => RunBound /\ Sharing
  <2> SUFFICES ASSUME Init PROVE RunBound /\ Sharing
    OBVIOUS
  <2>1. (Running \ {serving}) \union spinning = {} /\ ~Serving /\ serving = None
    BY DEF Init, Running, Serving
  <2>2. \A p : p # None => Users(p) = {} /\ Claimers(p) = {}
    BY DEF Init, Users, Claimers
  <2>3. Cardinality({}) = 0
    BY FS_EmptySet
  <2>4. Processors \in Nat /\ 0 + 0 <= Processors
    BY TransferAssumption
  <2>5. RunBound
    <3>1. Cardinality((Running \ {serving}) \union spinning) = 0
      BY <2>1, <2>3, Zenon
    <3> QED BY <2>1, <2>4, <3>1 DEF RunBound
  <2>6. ASSUME NEW p, p # None
        PROVE  Cardinality(Users(p)) + Cardinality(Claimers(p)) <= Processors
    <3>1. Cardinality(Users(p)) = 0 /\ Cardinality(Claimers(p)) = 0
      BY <2>2, <2>3, <2>6, Zenon
    <3> QED BY <2>4, <3>1
  <2>7. Sharing
    BY <2>6 DEF Sharing
  <2> QED BY <2>5, <2>7
<1>2. (Types /\ RunBound /\ Sharing) /\ [Next]_vars => (Types /\ RunBound /\ Sharing)'
  BY StepTypes, StepRunBound, StepSharing
<1>3. Types /\ Sharing => Shared
  <2> SUFFICES ASSUME Types, Sharing, NEW p, p # None PROVE Cardinality(Users(p)) <= Processors
    BY DEF Users
  <2>1. Cardinality(Users(p)) \in Nat /\ Cardinality(Claimers(p)) \in Nat
    BY Finite DEF Users, Claimers
  <2>2. Cardinality(Users(p)) + Cardinality(Claimers(p)) <= Processors
    BY DEF Sharing
  <2> QED BY <2>1, <2>2, TransferAssumption
<1> QED BY <1>1, <1>2, <1>3, InitTypes, PTL DEF Spec
=============================================================================
