------------------------ MODULE DwUsbOwnershipProofs ------------------------
(***************************************************************************)
(* Who works for whom in DwUsbTransfer: a channel belongs to one request,  *)
(* a request is completed once, a claim is that of a transfer under way.   *)
(* What follows from it: no halt goes unnoticed, retries skip no data, and *)
(* who waits for a port is woken.                                          *)
(*                                                                         *)
(* None of them is inductive.  A queued DPC, a timer that is set, a DPC    *)
(* that spins, a run and a halt of a channel each run a transfer when      *)
(* their time comes, and if two of them existed for one transfer, or one   *)
(* for a request that is over, the second would complete it again and give *)
(* up a channel that is another's.  OwnInv says that at most one exists,   *)
(* that it belongs to a request under way on that channel, and what the    *)
(* channel shows of it.                                                    *)
(*                                                                         *)
(* The code keeps OwnInv on any number of processors except in the three   *)
(* windows of RunsApart (two queue callbacks that find one channel, a      *)
(* second revival, a halt that another run takes first).  The theorems are *)
(* about the behaviours that do not run into them, and say so: each has    *)
(* []RunsApart as a hypothesis, the last two one window more each.         *)
(***************************************************************************)
EXTENDS DwUsbTransferProofs

Works(c, t) == t \in Active /\ ChannelOf(t) = c

\* The channels that are taken, those of active transfers and the callbacks
\* agree; a queue callback has found a channel that is free.
Owners ==
    /\ \A t \in Transfers : answers[t] <= 1
    /\ \A t \in Transfers : found[t] # None => answers[t] = 0 /\ found[t] \notin ChannelMask
    /\ \A c \in ChannelMask : ChannelCallbacks[c] # None /\ Works(c, ChannelCallbacks[c])
    /\ \A t \in Active : ChannelOf(t) \in ChannelMask /\ ChannelCallbacks[ChannelOf(t)] = t

\* What is queued, set, spinning or running works for an active transfer on its
\* channel, and is the only one to do so.
OneAtATime ==
    /\ \A c \in Channels : ChSmDpc[c] # None =>
         /\ Works(c, ChSmDpc[c]) /\ ~Busy(ChSmDpc[c]) /\ c \notin ChResumeTimers
    /\ \A c \in ChResumeTimers :
         /\ ChResumeContexts[c] # None
         /\ Works(c, ChResumeContexts[c]) /\ ~Busy(ChResumeContexts[c])
    /\ \A t \in Transfers : Busy(t) => t \in Active
    /\ \A t \in Transfers : run[t] # "off" => t \notin spinning

Resumed(t) == \/ t \in spinning
              \/ ChSmDpc[ChannelOf(t)] # None
              \/ ChannelOf(t) \in ChResumeTimers

\* The DPC of a new request has not put the state machine in place yet.
Fresh(t) == ChSmDpc[ChannelOf(t)] # None /\ NextStateMachine[t].State \in BeginStates
Begins(t) == ~Fresh(t) /\ StateMachine[t].State \in BeginStates
Waits(t) == ~Fresh(t) /\ StateMachine[t].State \in WaitStates

\* The copies of the state machine of an active transfer agree.
Placed(t) ==
    /\ ~Fresh(t) => StateMachine[t].Channel = ChannelOf(t) /\ StateMachine[t].State # "Idle"
    /\ ~Fresh(t) /\ (ChSmDpc[ChannelOf(t)] # None \/ t \in spinning)
         => NextStateMachine[t] = StateMachine[t]
    /\ Begins(t) => t \in spinning \/ run[t] = "on"
    /\ Waits(t) => Chan(t) = ChannelOf(t)

\* How far the inner state machine is, by how far the run has come.
Progress(t) ==
    /\ run[t] = "off" =>
         TrStateMachine[t].State \in {"Init", "CheckFreePort", "TransferWaiting"}
    /\ Resumed(t) => TrStateMachine[t].State \in {"Init", "CheckFreePort"}
    /\ run[t] = "claim" => TrStateMachine[t].State = "CheckFreePort"
    /\ run[t] = "unmask" => TrStateMachine[t].State = "Transferring"
    /\ run[t] = "revive" => TrStateMachine[t].State \in {"Init", "Done"}
    /\ run[t] = "reviveAndWait" => TrStateMachine[t].State = "Init"
    /\ run[t] = "advance" => TrStateMachine[t].State = "Done"
    /\ TrStateMachine[t].State = "CheckFreePort" => Split(t)

\* What its channel shows of a transfer: its claim, the core, its name.
HoldsPort(t) ==
    /\ Waits(t)
    /\ \/ TrStateMachine[t].State \in {"Transferring", "TransferWaiting", "TransferHalted"}
       \/ TrStateMachine[t].State = "Done" /\ run[t] = "on"
OnBus(t) == Waits(t) /\ TrStateMachine[t].State \in {"TransferWaiting", "TransferHalted"}
Shown(t) ==
    /\ ChTt[ChannelOf(t)] = IF HoldsPort(t) THEN TtPort[t] ELSE None
    /\ hc[ChannelOf(t)] = "off" <=> ~OnBus(t)
    /\ Waits(t) /\ TrStateMachine[t].State = "TransferHalted" => hc[ChannelOf(t)] # "on"
    /\ ChTrDatas[ChannelOf(t)] \in {None, t}
    /\ ChTrDatas[ChannelOf(t)] = t => Waits(t) /\ run[t] # "advance"
    /\ Waits(t) /\ TrStateMachine[t].State # "Init" /\ run[t] # "advance"
         => ChTrDatas[ChannelOf(t)] = t

Fits(t) == Placed(t) /\ (Waits(t) => Progress(t)) /\ Shown(t)

GivesUp(t) == run[t] \in {"revive", "reviveAndWait"}
WaitsForPort(t) == Waits(t) /\ TrStateMachine[t].State = "CheckFreePort"

\* A channel that is free shows nothing of whoever had it.
FreeInv == \A c \in Free : ChTt[c] = None /\ ChTrDatas[c] = None /\ hc[c] = "off"

OwnInv == Owners /\ OneAtATime /\ (\A t \in Active : Fits(t)) /\ FreeInv

Known == Types /\ OwnInv /\ RunsApart

-----------------------------------------------------------------------------
(* A transfer that a step does not touch fits as before                     *)

Untouched(t) ==
    /\ answers'[t] = answers[t] /\ found'[t] = found[t] /\ run'[t] = run[t]
    /\ StateMachine'[t] = StateMachine[t] /\ NextStateMachine'[t] = NextStateMachine[t]
    /\ TrStateMachine'[t] = TrStateMachine[t]
    /\ t \in spinning' <=> t \in spinning
    /\ ChSmDpc'[ChannelOf(t)] = ChSmDpc[ChannelOf(t)]
    /\ ChannelOf(t) \in ChResumeTimers' <=> ChannelOf(t) \in ChResumeTimers
    /\ ChTt'[ChannelOf(t)] = ChTt[ChannelOf(t)]
    /\ hc'[ChannelOf(t)] = hc[ChannelOf(t)]
    /\ ChTrDatas'[ChannelOf(t)] = ChTrDatas[ChannelOf(t)]

LEMMA Frame ==
    ASSUME NEW t \in Transfers, Untouched(t)
    PROVE  /\ (t \in Active)' <=> t \in Active
           /\ ChannelOf(t)' = ChannelOf(t)
           /\ Fits(t) => Fits(t)'
           /\ Waits(t)' <=> Waits(t)
           /\ WaitsForPort(t)' <=> WaitsForPort(t)
           /\ Resumed(t)' <=> Resumed(t)
           /\ GivesUp(t)' <=> GivesUp(t)
<1>1. (t \in Active)' <=> t \in Active
  BY DEF Untouched, Active
<1>2. ChannelOf(t)' = ChannelOf(t)
  BY DEF Untouched, ChannelOf
<1>3. Fresh(t)' <=> Fresh(t)
  BY <1>2 DEF Untouched, Fresh
<1>4. (Begins(t)' <=> Begins(t)) /\ (Waits(t)' <=> Waits(t))
  BY <1>3 DEF Untouched, Begins, Waits
<1>5. Resumed(t)' <=> Resumed(t)
  BY <1>2 DEF Untouched, Resumed
<1>6. (HoldsPort(t)' <=> HoldsPort(t)) /\ (OnBus(t)' <=> OnBus(t))
  BY <1>4 DEF Untouched, HoldsPort, OnBus
<1>7. Placed(t) => Placed(t)'
  BY <1>2, <1>3, <1>4 DEF Untouched, Placed, Chan
<1>8. Progress(t) => Progress(t)'
  BY <1>5 DEF Untouched, Progress
<1>9. Shown(t) => Shown(t)'
  BY <1>2, <1>4, <1>6 DEF Untouched, Shown
<1>10. (WaitsForPort(t)' <=> WaitsForPort(t)) /\ (GivesUp(t)' <=> GivesUp(t))
  BY <1>4 DEF Untouched, WaitsForPort, GivesUp
<1> QED BY <1>1, <1>2, <1>4, <1>5, <1>7, <1>8, <1>9, <1>10 DEF Fits

-----------------------------------------------------------------------------
(* What OwnInv says of one transfer                                         *)

LEMMA Apart ==
    ASSUME Known
    PROVE  /\ \A t \in Transfers : ChannelOf(t) \in Channels
           /\ \A t, u \in Active : ChannelOf(t) = ChannelOf(u) => t = u
           /\ \A c \in Channels : ChSmDpc[c] # None \/ c \in ChResumeTimers => c \in ChannelMask
           /\ Active \subseteq Transfers
<1>1. \A t \in Transfers : ChannelOf(t) \in Channels
  BY DEF Known, Types, ChannelOf, ChSm
<1>2. \A t, u \in Active : ChannelOf(t) = ChannelOf(u) => t = u
  BY DEF Known, OwnInv, Owners
<1>3. \A c \in Channels : ChSmDpc[c] # None \/ c \in ChResumeTimers => c \in ChannelMask
  BY DEF Known, OwnInv, Owners, OneAtATime, Works
<1> QED BY <1>1, <1>2, <1>3 DEF Active

LEMMA BusyFacts ==
    ASSUME Known, NEW t \in Transfers, Busy(t)
    PROVE  /\ t \in Active /\ ChannelOf(t) \in Channels
           /\ ChSmDpc[ChannelOf(t)] = None /\ ChannelOf(t) \notin ChResumeTimers
           /\ ~Fresh(t) /\ StateMachine[t].Channel = ChannelOf(t)
           /\ StateMachine[t].State # "Idle"
           /\ Fits(t)
           /\ run[t] # "off" => ~Resumed(t)
<1>1. t \in Active /\ ChannelOf(t) \in Channels /\ Fits(t)
  BY Apart DEF Known, OwnInv, OneAtATime
<1>2. ChSmDpc[ChannelOf(t)] = None
  BY <1>1, Apart DEF Known, OwnInv, OneAtATime, Works
<1>3. ChannelOf(t) \notin ChResumeTimers
  BY <1>1, Apart DEF Known, OwnInv, OneAtATime, Works
<1>4. ~Fresh(t)
  BY <1>2 DEF Fresh
<1>5. run[t] # "off" => t \notin spinning
  BY DEF Known, OwnInv, OneAtATime
<1> QED BY <1>1, <1>2, <1>3, <1>4, <1>5 DEF Fits, Placed, Resumed

-----------------------------------------------------------------------------
(* Steps of a run                                                           *)

\* Most steps of a run keep the channel, and change what is the transfer's own.
Moves(t) ==
    /\ Runs(t)
    /\ UNCHANGED <<ChannelMask, ChannelCallbacks, resumeVars, NextStateMachine, answers, found>>
    /\ \A u \in Transfers \ {t} :
         StateMachine'[u] = StateMachine[u] /\ TrStateMachine'[u] = TrStateMachine[u]
    /\ \A c \in Channels \ {ChannelOf(t)} :
         ChTt'[c] = ChTt[c] /\ hc'[c] = hc[c] /\ ChTrDatas'[c] = ChTrDatas[c]

LEMMA MovesFrame ==
    ASSUME Known, NEW t \in Transfers, Moves(t)
    PROVE  /\ Active' = Active /\ ChannelOf(t)' = ChannelOf(t) /\ Fresh(t)' = FALSE
           /\ Resumed(t)' = FALSE
           /\ \A u \in Active \ {t} : Untouched(u)
<1>1. t \in Active /\ Busy(t) /\ ~Resumed(t) /\ ~Fresh(t)
  BY BusyFacts DEF Moves, Runs, Busy
<1>2. Active' = Active
  BY DEF Moves, Active
<1>3. \A u \in Transfers : ChannelOf(u)' = ChannelOf(u)
  BY DEF Moves, ChannelOf
<1>4. Fresh(t)' = FALSE /\ Resumed(t)' = FALSE
  BY <1>1, <1>3 DEF Fresh, Resumed, Moves, Runs, resumeVars
<1>5. ASSUME NEW u \in Active \ {t} PROVE Untouched(u)
  <2>1. ChannelOf(u) \in Channels \ {ChannelOf(t)} /\ u \in Transfers \ {t}
    BY <1>1, Apart
  <2> QED BY <2>1 DEF Untouched, Moves, Runs, resumeVars
<1> QED BY <1>2, <1>3, <1>4, <1>5

LEMMA MovesKeep ==
    ASSUME Known, NEW t \in Transfers, Moves(t), Fits(t)'
    PROVE  OwnInv'
<1>1. t \in Active /\ ~Resumed(t) /\ ChannelOf(t) \in Channels
  BY BusyFacts DEF Moves, Runs, Busy
<1>2. Active' = Active /\ \A u \in Transfers : ChannelOf(u)' = ChannelOf(u)
  BY MovesFrame DEF Moves, ChannelOf
<1>3. \A u \in Active \ {t} : Untouched(u)
  BY MovesFrame
<1>4. Owners'
  BY DEF Moves, Known, OwnInv, Owners, Works, ChannelOf, Active
<1>5. \A u \in Transfers : Busy(u)' => Busy(u)
  BY DEF Moves, Runs, Busy
<1>6. OneAtATime'
  <2>1. \A u \in Transfers : run'[u] # "off" => u \notin spinning'
    BY DEF Moves, Runs, Known, OwnInv, OneAtATime
  <2> QED BY <1>2, <1>5, <2>1 DEF Moves, resumeVars, Known, Types, OwnInv, OneAtATime, Works
<1>7. \A u \in Active : Fits(u)'
  BY <1>3, Frame, Apart DEF Known, OwnInv
<1>8. FreeInv'
  <2>1. \A c \in Free : c \in Channels \ {ChannelOf(t)}
    BY <1>1 DEF Free, Known, OwnInv, Owners
  <2> QED BY <2>1 DEF Moves, Known, OwnInv, FreeInv, Free
<1> QED BY <1>2, <1>4, <1>6, <1>7, <1>8 DEF OwnInv

\* What a transfer that waits has to show after a step: where the run is (r), how
\* far the inner state machine (s).
LEMMA WaitsFit ==
    ASSUME Known, NEW t \in Transfers, Moves(t), NEW r \in RunStates, NEW s \in TrStates,
           run'[t] = r, TrStateMachine'[t].State = s,
           StateMachine'[t].State \in WaitStates, StateMachine'[t].Channel = ChannelOf(t),
           TrStateMachine'[t].Channel = ChannelOf(t),
           r = "off" => s \in {"Init", "CheckFreePort", "TransferWaiting"},
           r = "claim" => s = "CheckFreePort", r = "unmask" => s = "Transferring",
           r = "revive" => s \in {"Init", "Done"}, r = "reviveAndWait" => s = "Init",
           r = "advance" => s = "Done", s = "CheckFreePort" => Split(t),
           ChTt'[ChannelOf(t)] =
             IF \/ s \in {"Transferring", "TransferWaiting", "TransferHalted"}
                \/ s = "Done" /\ r = "on"
             THEN TtPort[t] ELSE None,
           hc'[ChannelOf(t)] = "off" <=> s \notin {"TransferWaiting", "TransferHalted"},
           s = "TransferHalted" => hc'[ChannelOf(t)] # "on",
           ChTrDatas'[ChannelOf(t)] \in {None, t},
           ChTrDatas'[ChannelOf(t)] = t => r # "advance",
           s # "Init" /\ r # "advance" => ChTrDatas'[ChannelOf(t)] = t
    PROVE  Fits(t)' /\ Waits(t)'
<1>1. ChannelOf(t)' = ChannelOf(t) /\ Fresh(t)' = FALSE /\ Resumed(t)' = FALSE
  BY MovesFrame
<1>2. Waits(t)' /\ ~Begins(t)'
  BY <1>1, StateFacts DEF Waits, Begins
<1>3. t \notin spinning' /\ ChSmDpc'[ChannelOf(t)] = None
  BY BusyFacts DEF Moves, Runs, Busy, Resumed, resumeVars
<1>4. Placed(t)'
  BY <1>1, <1>2, <1>3, StateFacts DEF Placed, Chan
<1>5. Progress(t)'
  BY <1>1 DEF Progress, Split
<1>6. (HoldsPort(t)' <=> \/ s \in {"Transferring", "TransferWaiting", "TransferHalted"}
                         \/ s = "Done" /\ r = "on")
      /\ (OnBus(t)' <=> s \in {"TransferWaiting", "TransferHalted"})
  BY <1>2 DEF HoldsPort, OnBus
<1>7. ChTt'[ChannelOf(t)] = IF HoldsPort(t)' THEN TtPort[t] ELSE None
  BY <1>6
<1>8. hc'[ChannelOf(t)] = "off" <=> ~OnBus(t)'
  BY <1>6
<1>9. Shown(t)'
  BY <1>1, <1>2, <1>7, <1>8 DEF Shown
<1> QED BY <1>2, <1>4, <1>5, <1>9 DEF Fits

\* What is known of a transfer that runs a wait state.
LEMMA AtFacts ==
    ASSUME Known, NEW t \in Transfers, run[t] # "off", StateMachine[t].State \in WaitStates
    PROVE  /\ t \in Active /\ ChannelOf(t) \in Channels
           /\ StateMachine[t].Channel = ChannelOf(t) /\ Chan(t) = ChannelOf(t)
           /\ Waits(t) /\ Progress(t) /\ Shown(t)
           /\ TrStateMachine[t] \in TrSm
BY BusyFacts DEF Busy, Waits, Fits, Placed, Known, Types

LEMMA BeginStageOwn ==
    ASSUME Known, NEW t \in Transfers, BeginStage(t)
    PROVE  OwnInv'
<1> DEFINE c == ChannelOf(t)
<1>1. run[t] = "on" /\ Runs(t)
  BY DEF BeginStage, Runs, cpuVars
<1>2. StateMachine[t].State \in BeginStates
  BY <1>1 DEF BeginStage, BeginStates
<1>3. t \in Active /\ c \in Channels /\ StateMachine[t].Channel = c /\ Fits(t) /\ ~Fresh(t)
  BY <1>1, BusyFacts DEF Busy
<1>4. Begins(t) /\ ~Waits(t)
  BY <1>2, <1>3, StateFacts DEF Begins, Waits
<1>5. Moves(t)
  BY <1>1 DEF BeginStage, Moves, chVars, resumeVars, requestVars, Known, Types
<1>6. /\ run'[t] = "on" /\ UNCHANGED <<ChTt, hc, ChTrDatas>>
      /\ StateMachine'[t].State \in WaitStates /\ StateMachine'[t].Channel = c
      /\ TrStateMachine'[t].State = "Init" /\ TrStateMachine'[t].Channel = c
  <2>1. WaitState(StateMachine[t].State) \in WaitStates
    BY <1>2, WaitFor
  <2> QED BY <1>1, <1>3, <2>1
          DEF BeginStage, chVars, resumeVars, requestVars, cpuVars, Known, Types, ChSm, TrSm
<1>7. ChTt[c] = None /\ hc[c] = "off" /\ ChTrDatas[c] = None
  BY <1>3, <1>4, NoneApart DEF Fits, Shown, HoldsPort, OnBus
<1> HIDE DEF c
<1>8. Fits(t)' /\ Waits(t)'
  BY <1>5, <1>6, <1>7, NoneApart, WaitsFit DEF c, RunStates, TrStates
<1> QED BY <1>5, <1>8, MovesKeep

\* Between its steps a run that is not on waits for nothing but itself.
LEMMA MidFacts ==
    ASSUME Known, NEW t \in Transfers, run[t] \notin {"off", "on"}
    PROVE  StateMachine[t].State \in WaitStates
<1>1. Busy(t) /\ t \notin spinning
  BY DEF Busy, Known, OwnInv, OneAtATime
<1>2. ~Begins(t) /\ ~Fresh(t) /\ StateMachine[t].State # "Idle"
  BY <1>1, BusyFacts DEF Fits, Placed
<1> QED BY <1>2, StateFacts DEF Begins, Known, Types, ChSm

LEMMA TrInitOwn ==
    ASSUME Known, NEW t \in Transfers, TrInit(t)
    PROVE  OwnInv'
<1> DEFINE c == ChannelOf(t)
<1>1. run[t] = "on" /\ Runs(t) /\ StateMachine[t].State \in WaitStates
      /\ TrStateMachine[t].State = "Init"
  BY DEF TrInit, At, Runs, cpuVars
<1>2. /\ t \in Active /\ c \in Channels /\ StateMachine[t].Channel = c /\ Chan(t) = c
      /\ Waits(t) /\ Progress(t) /\ Shown(t) /\ TrStateMachine[t] \in TrSm
  BY <1>1, AtFacts
<1>3. Moves(t)
  BY <1>1, <1>2 DEF TrInit, Moves, resumeVars, requestVars, cpuVars, hwVars, Known, Types
<1>4. /\ run'[t] = "on" /\ UNCHANGED <<ChTt, hc>> /\ ChTrDatas'[c] = t
      /\ StateMachine'[t].State \in WaitStates /\ StateMachine'[t].Channel = c
      /\ TrStateMachine'[t].Channel = c
      /\ TrStateMachine'[t].State = IF Split(t) THEN "CheckFreePort" ELSE "Transferring"
  <2>1. /\ run'[t] = "on" /\ UNCHANGED <<ChTt, hc>> /\ ChTrDatas'[c] = t
    BY <1>1, <1>2 DEF TrInit, resumeVars, requestVars, cpuVars, hwVars, Known, Types
  <2>2. StateMachine' = StateMachine
    BY DEF TrInit, smVars
  <2>3. /\ TrStateMachine'[t].Channel = c
        /\ TrStateMachine'[t].State = IF Split(t) THEN "CheckFreePort" ELSE "Transferring"
    BY <1>1, <1>2 DEF TrInit, resumeVars, requestVars, cpuVars, hwVars, Chan, Known, Types, TrSm
  <2> QED BY <1>1, <1>2, <2>1, <2>2, <2>3
<1>5. ChTt[c] = None /\ hc[c] = "off"
  BY <1>1, <1>2, NoneApart DEF Shown, HoldsPort, OnBus
<1> HIDE DEF c
<1>6. Fits(t)' /\ Waits(t)'
  BY <1>1, <1>2, <1>3, <1>4, <1>5, NoneApart, WaitsFit DEF c, RunStates, TrStates, Split
<1> QED BY <1>3, <1>6, MovesKeep

LEMMA CheckFreePortOwn ==
    ASSUME Known, NEW t \in Transfers, CheckFreePort(t)
    PROVE  OwnInv'
<1> DEFINE c == ChannelOf(t)
<1>1. run[t] = "on" /\ Runs(t) /\ StateMachine[t].State \in WaitStates
      /\ TrStateMachine[t].State = "CheckFreePort"
  BY DEF CheckFreePort, At, Runs, cpuVars, Return, Continue, Known, Types
<1>2. /\ t \in Active /\ c \in Channels /\ StateMachine[t].Channel = c /\ Chan(t) = c
      /\ Waits(t) /\ Progress(t) /\ Shown(t) /\ TrStateMachine[t] \in TrSm
  BY <1>1, AtFacts
<1>3. Moves(t)
  BY <1>1, <1>2
     DEF CheckFreePort, Moves, chVars, resumeVars, smVars, requestVars, cpuVars, hwVars, Return,
         Continue, Known, Types
<1>4. /\ run'[t] \in {"off", "claim"} /\ UNCHANGED <<ChTt, hc, ChTrDatas>>
      /\ StateMachine'[t].State \in WaitStates /\ StateMachine'[t].Channel = c
      /\ TrStateMachine'[t].Channel = c
      /\ TrStateMachine'[t].State = "CheckFreePort"
  <2>1. /\ run'[t] \in {"off", "claim"} /\ UNCHANGED <<ChTt, hc, ChTrDatas>>
    BY <1>1, <1>2
       DEF CheckFreePort, chVars, resumeVars, smVars, requestVars, cpuVars, hwVars, Return,
           Continue, Known, Types
  <2>2. StateMachine' = StateMachine
    BY DEF CheckFreePort, smVars
  <2>3. /\ TrStateMachine'[t].Channel = c
        /\ TrStateMachine'[t].State = "CheckFreePort"
    BY <1>1, <1>2
       DEF CheckFreePort, chVars, resumeVars, smVars, requestVars, cpuVars, hwVars, Return,
           Continue, Chan, Known, Types, TrSm
  <2> QED BY <1>1, <1>2, <2>1, <2>2, <2>3
<1>5. ChTt[c] = None /\ hc[c] = "off" /\ ChTrDatas[c] = t /\ Split(t)
  BY <1>1, <1>2, NoneApart DEF Shown, HoldsPort, OnBus, Progress
<1> HIDE DEF c
<1>6. Fits(t)' /\ Waits(t)'
  BY <1>1, <1>2, <1>3, <1>4, <1>5, NoneApart, WaitsFit DEF c, RunStates, TrStates
<1> QED BY <1>3, <1>6, MovesKeep

LEMMA ClaimPortOwn ==
    ASSUME Known, NEW t \in Transfers, ClaimPort(t)
    PROVE  OwnInv'
<1> DEFINE c == ChannelOf(t)
<1>1. run[t] = "claim" /\ Runs(t) /\ StateMachine[t].State \in WaitStates
  BY MidFacts DEF ClaimPort, Runs, Continue, cpuVars, Known, Types
<1>2. /\ t \in Active /\ c \in Channels /\ StateMachine[t].Channel = c /\ Chan(t) = c
      /\ Waits(t) /\ Progress(t) /\ Shown(t) /\ TrStateMachine[t] \in TrSm
  BY <1>1, AtFacts
<1>3. Moves(t)
  BY <1>1, <1>2
     DEF ClaimPort, Moves, resumeVars, requestVars, cpuVars, hwVars, Continue, Known, Types
<1>4. /\ run'[t] = "on" /\ UNCHANGED <<hc, ChTrDatas>> /\ ChTt'[c] = TtPort[t]
      /\ StateMachine'[t].State \in WaitStates /\ StateMachine'[t].Channel = c
      /\ TrStateMachine'[t].Channel = c
      /\ TrStateMachine'[t].State = "Transferring"
  <2>1. /\ run'[t] = "on" /\ UNCHANGED <<hc, ChTrDatas>> /\ ChTt'[c] = TtPort[t]
    BY <1>1, <1>2 DEF ClaimPort, resumeVars, requestVars, cpuVars, hwVars, Continue, Known, Types
  <2>2. StateMachine' = StateMachine
    BY DEF ClaimPort, smVars
  <2>3. /\ TrStateMachine'[t].Channel = c
        /\ TrStateMachine'[t].State = "Transferring"
    BY <1>1, <1>2
       DEF ClaimPort, resumeVars, requestVars, cpuVars, hwVars, Continue, Chan, Known, Types,
           TrSm
  <2> QED BY <1>1, <1>2, <2>1, <2>2, <2>3
<1>5. TrStateMachine[t].State = "CheckFreePort" /\ hc[c] = "off" /\ ChTrDatas[c] = t
  BY <1>1, <1>2 DEF Shown, OnBus, Progress
<1> HIDE DEF c
<1>6. Fits(t)' /\ Waits(t)'
  BY <1>1, <1>2, <1>3, <1>4, <1>5, NoneApart, WaitsFit DEF c, RunStates, TrStates
<1> QED BY <1>3, <1>6, MovesKeep

LEMMA TransferringOwn ==
    ASSUME Known, NEW t \in Transfers, Transferring(t)
    PROVE  OwnInv'
<1> DEFINE c == ChannelOf(t)
<1>1. run[t] = "on" /\ Runs(t) /\ StateMachine[t].State \in WaitStates
      /\ TrStateMachine[t].State = "Transferring"
  BY DEF Transferring, At, Runs, cpuVars, Continue, Known, Types
<1>2. /\ t \in Active /\ c \in Channels /\ StateMachine[t].Channel = c /\ Chan(t) = c
      /\ Waits(t) /\ Progress(t) /\ Shown(t) /\ TrStateMachine[t] \in TrSm
  BY <1>1, AtFacts
<1>3. Moves(t)
  BY <1>1, <1>2
     DEF Transferring, Moves, chVars, resumeVars, smVars, requestVars, cpuVars, Continue, Known,
         Types
<1>4. /\ run'[t] = "unmask" /\ UNCHANGED <<ChTt, ChTrDatas>> /\ hc'[c] = "off"
      /\ StateMachine'[t].State \in WaitStates /\ StateMachine'[t].Channel = c
      /\ TrStateMachine'[t].Channel = c
      /\ TrStateMachine'[t].State = "Transferring"
  <2>1. /\ run'[t] = "unmask" /\ UNCHANGED <<ChTt, ChTrDatas>> /\ hc'[c] = "off"
    BY <1>1, <1>2
       DEF Transferring, chVars, resumeVars, smVars, requestVars, cpuVars, Continue, Known,
           Types
  <2>2. StateMachine' = StateMachine
    BY DEF Transferring, smVars
  <2>3. /\ TrStateMachine'[t].Channel = c
        /\ TrStateMachine'[t].State = "Transferring"
    BY <1>1, <1>2
       DEF Transferring, chVars, resumeVars, smVars, requestVars, cpuVars, Continue, Chan,
           Known, Types, TrSm
  <2> QED BY <1>1, <1>2, <2>1, <2>2, <2>3
<1>5. ChTt[c] = TtPort[t] /\ ChTrDatas[c] = t
  BY <1>1, <1>2 DEF Shown, HoldsPort
<1> HIDE DEF c
<1>6. Fits(t)' /\ Waits(t)'
  BY <1>1, <1>2, <1>3, <1>4, <1>5, NoneApart, WaitsFit DEF c, RunStates, TrStates
<1> QED BY <1>3, <1>6, MovesKeep

LEMMA EnableChannelOwn ==
    ASSUME Known, NEW t \in Transfers, EnableChannel(t)
    PROVE  OwnInv'
<1> DEFINE c == ChannelOf(t)
<1>1. run[t] = "unmask" /\ Runs(t) /\ StateMachine[t].State \in WaitStates
  BY MidFacts DEF EnableChannel, Runs, Continue, cpuVars, Known, Types
<1>2. /\ t \in Active /\ c \in Channels /\ StateMachine[t].Channel = c /\ Chan(t) = c
      /\ Waits(t) /\ Progress(t) /\ Shown(t) /\ TrStateMachine[t] \in TrSm
  BY <1>1, AtFacts
<1>3. Moves(t)
  BY <1>1, <1>2
     DEF EnableChannel, Moves, chVars, resumeVars, requestVars, cpuVars, Continue, Known, Types
<1>4. /\ run'[t] = "on" /\ UNCHANGED <<ChTt, ChTrDatas>> /\ hc'[c] = "on"
      /\ StateMachine'[t].State \in WaitStates /\ StateMachine'[t].Channel = c
      /\ TrStateMachine'[t].Channel = c
      /\ TrStateMachine'[t].State = "TransferWaiting"
  <2>1. /\ run'[t] = "on" /\ UNCHANGED <<ChTt, ChTrDatas>> /\ hc'[c] = "on"
    BY <1>1, <1>2
       DEF EnableChannel, chVars, resumeVars, requestVars, cpuVars, Continue, Known, Types
  <2>2. StateMachine' = StateMachine
    BY DEF EnableChannel, smVars
  <2>3. /\ TrStateMachine'[t].Channel = c
        /\ TrStateMachine'[t].State = "TransferWaiting"
    BY <1>1, <1>2
       DEF EnableChannel, chVars, resumeVars, requestVars, cpuVars, Continue, Chan, Known,
           Types, TrSm
  <2> QED BY <1>1, <1>2, <2>1, <2>2, <2>3
<1>5. ChTt[c] = TtPort[t] /\ ChTrDatas[c] = t
  BY <1>1, <1>2 DEF Shown, HoldsPort, Progress
<1> HIDE DEF c
<1>6. Fits(t)' /\ Waits(t)'
  BY <1>1, <1>2, <1>3, <1>4, <1>5, NoneApart, WaitsFit DEF c, RunStates, TrStates
<1> QED BY <1>3, <1>6, MovesKeep

LEMMA TransferWaitingOwn ==
    ASSUME Known, NEW t \in Transfers, TransferWaiting(t)
    PROVE  OwnInv'
<1> DEFINE c == ChannelOf(t)
<1>1. run[t] = "on" /\ Runs(t) /\ StateMachine[t].State \in WaitStates
      /\ TrStateMachine[t].State = "TransferWaiting"
  BY DEF TransferWaiting, At, Runs, cpuVars, Return, Known, Types
<1>2. /\ t \in Active /\ c \in Channels /\ StateMachine[t].Channel = c /\ Chan(t) = c
      /\ Waits(t) /\ Progress(t) /\ Shown(t) /\ TrStateMachine[t] \in TrSm
  BY <1>1, AtFacts
<1>3. Moves(t)
  BY <1>1, <1>2
     DEF TransferWaiting, Moves, chVars, resumeVars, requestVars, cpuVars, hwVars, Return,
         Known, Types
<1>4. /\ UNCHANGED <<ChTt, hc, ChTrDatas>> /\ StateMachine'[t].State \in WaitStates
      /\ StateMachine'[t].Channel = c
      /\ TrStateMachine'[t].Channel = c
      /\ \/ /\ run'[t] = "on" /\ hc[c] \in Halts
            /\ TrStateMachine'[t].State = "TransferHalted"
         \/ /\ run'[t] = "off" /\ hc[c] \notin Halts
            /\ TrStateMachine'[t].State = "TransferWaiting"
  <2>1. UNCHANGED <<ChTt, hc, ChTrDatas>>
    BY <1>1, <1>2
       DEF TransferWaiting, chVars, resumeVars, requestVars, cpuVars, hwVars, Return, Known,
           Types
  <2>2. StateMachine' = StateMachine
    BY DEF TransferWaiting, smVars
  <2>3. /\ TrStateMachine'[t].Channel = c
        /\ \/ /\ run'[t] = "on" /\ hc[c] \in Halts
              /\ TrStateMachine'[t].State = "TransferHalted"
           \/ /\ run'[t] = "off" /\ hc[c] \notin Halts
              /\ TrStateMachine'[t].State = "TransferWaiting"
    BY <1>1, <1>2
       DEF TransferWaiting, chVars, resumeVars, requestVars, cpuVars, hwVars, Return, Chan,
           Known, Types, TrSm
  <2> QED BY <1>1, <1>2, <2>1, <2>2, <2>3
<1>5. /\ ChTt[c] = TtPort[t] /\ ChTrDatas[c] = t /\ hc[c] # "off"
      /\ hc[c] \in Halts => hc[c] # "on"
  BY <1>1, <1>2 DEF Shown, HoldsPort, OnBus, Halts, AllOutcomes
<1> HIDE DEF c
<1>6. Fits(t)' /\ Waits(t)'
  BY <1>1, <1>2, <1>3, <1>4, <1>5, NoneApart, WaitsFit DEF c, RunStates, TrStates
<1> QED BY <1>3, <1>6, MovesKeep

LEMMA HaltedDoneOwn ==
    ASSUME Known, NEW t \in Transfers, HaltedDone(t)
    PROVE  OwnInv'
<1> DEFINE c == ChannelOf(t)
<1>1. run[t] = "on" /\ Runs(t) /\ StateMachine[t].State \in WaitStates
  BY DEF HaltedDone, HaltedWith, At, Runs, Continue, cpuVars, Known, Types
<1>2. /\ t \in Active /\ c \in Channels /\ StateMachine[t].Channel = c /\ Chan(t) = c
      /\ Waits(t) /\ Progress(t) /\ Shown(t) /\ TrStateMachine[t] \in TrSm
  BY <1>1, AtFacts
<1>3. Moves(t)
  BY <1>1, <1>2
     DEF HaltedDone, Moves, HaltedWith, chVars, resumeVars, requestVars, cpuVars, Known, Types
<1>4. /\ run'[t] = "on" /\ UNCHANGED <<ChTt, ChTrDatas>> /\ hc'[c] = "off"
      /\ StateMachine'[t].State \in WaitStates /\ StateMachine'[t].Channel = c
      /\ TrStateMachine'[t].Channel = c
      /\ TrStateMachine'[t].State \in {"Done", "Transferring"}
  <2>1. /\ run'[t] = "on" /\ UNCHANGED <<ChTt, ChTrDatas>> /\ hc'[c] = "off"
    BY <1>1, <1>2 DEF HaltedDone, HaltedWith, chVars, resumeVars, requestVars, cpuVars, Known, Types
  <2>2. StateMachine' = StateMachine
    BY DEF HaltedDone, smVars
  <2>3. /\ TrStateMachine'[t].Channel = c
        /\ TrStateMachine'[t].State \in {"Done", "Transferring"}
    BY <1>1, <1>2
       DEF HaltedDone, HaltedWith, chVars, resumeVars, requestVars, cpuVars, Chan, Known, Types,
           TrSm
  <2> QED BY <1>1, <1>2, <2>1, <2>2, <2>3
<1>5. /\ HoldsPort(t) /\ ChTt[c] = TtPort[t] /\ ChTrDatas[c] = t
      /\ TrStateMachine[t].State = "TransferHalted"
  BY <1>1, <1>2 DEF Shown, HoldsPort, HaltedWith, At, HaltedDone, Halts, AllOutcomes
<1> HIDE DEF c
<1>6. Fits(t)' /\ Waits(t)'
  BY <1>1, <1>2, <1>3, <1>4, <1>5, NoneApart, WaitsFit DEF c, RunStates, TrStates
<1> QED BY <1>3, <1>6, MovesKeep

LEMMA HaltedNyetTimeoutOwn ==
    ASSUME Known, NEW t \in Transfers, HaltedNyetTimeout(t)
    PROVE  OwnInv'
<1> DEFINE c == ChannelOf(t)
<1>1. run[t] = "on" /\ Runs(t) /\ StateMachine[t].State \in WaitStates
  BY DEF HaltedNyetTimeout, HaltedWith, At, Runs, Continue, cpuVars, Known, Types
<1>2. /\ t \in Active /\ c \in Channels /\ StateMachine[t].Channel = c /\ Chan(t) = c
      /\ Waits(t) /\ Progress(t) /\ Shown(t) /\ TrStateMachine[t] \in TrSm
  BY <1>1, AtFacts
<1>3. Moves(t)
  BY <1>1, <1>2
     DEF HaltedNyetTimeout, Moves, HaltedWith, resumeVars, requestVars, cpuVars, Continue,
         Unclaimed, Known, Types
<1>4. /\ run'[t] \in {"revive", "reviveAndWait"} /\ UNCHANGED ChTrDatas
      /\ ChTt'[c] = None /\ hc'[c] = "off" /\ StateMachine'[t].State \in WaitStates
      /\ StateMachine'[t].Channel = c
      /\ TrStateMachine'[t].Channel = c
      /\ TrStateMachine'[t].State = "Init"
  <2>1. /\ run'[t] \in {"revive", "reviveAndWait"} /\ UNCHANGED ChTrDatas
        /\ ChTt'[c] = None /\ hc'[c] = "off"
    BY <1>1, <1>2
       DEF HaltedNyetTimeout, HaltedWith, resumeVars, requestVars, cpuVars, Continue, Unclaimed,
           Known, Types
  <2>2. StateMachine' = StateMachine
    BY DEF HaltedNyetTimeout, smVars
  <2>3. /\ TrStateMachine'[t].Channel = c
        /\ TrStateMachine'[t].State = "Init"
    BY <1>1, <1>2
       DEF HaltedNyetTimeout, HaltedWith, resumeVars, requestVars, cpuVars, Continue, Unclaimed,
           Chan, Known, Types, TrSm
  <2> QED BY <1>1, <1>2, <2>1, <2>2, <2>3
<1>5. /\ HoldsPort(t) /\ ChTt[c] = TtPort[t] /\ ChTrDatas[c] = t
      /\ TrStateMachine[t].State = "TransferHalted"
  BY <1>1, <1>2 DEF Shown, HoldsPort, HaltedWith, At, HaltedNyetTimeout, Halts, AllOutcomes
<1> HIDE DEF c
<1>6. Fits(t)' /\ Waits(t)'
  BY <1>1, <1>2, <1>3, <1>4, <1>5, NoneApart, WaitsFit DEF c, RunStates, TrStates
<1> QED BY <1>3, <1>6, MovesKeep

LEMMA HaltedNakOwn ==
    ASSUME Known, NEW t \in Transfers, HaltedNak(t)
    PROVE  OwnInv'
<1> DEFINE c == ChannelOf(t)
<1>1. run[t] = "on" /\ Runs(t) /\ StateMachine[t].State \in WaitStates
  BY DEF HaltedNak, HaltedWith, At, Runs, Continue, cpuVars, Known, Types
<1>2. /\ t \in Active /\ c \in Channels /\ StateMachine[t].Channel = c /\ Chan(t) = c
      /\ Waits(t) /\ Progress(t) /\ Shown(t) /\ TrStateMachine[t] \in TrSm
  BY <1>1, AtFacts
<1>3. Moves(t)
  BY <1>1, <1>2
     DEF HaltedNak, Moves, HaltedWith, resumeVars, requestVars, cpuVars, Continue, Unclaimed,
         AfterNak, Known, Types
<1>4. /\ run'[t] \in {"revive", "reviveAndWait"} /\ UNCHANGED ChTrDatas
      /\ ChTt'[c] = None /\ hc'[c] = "off" /\ StateMachine'[t].State \in WaitStates
      /\ StateMachine'[t].Channel = c
      /\ TrStateMachine'[t].Channel = c
      /\ TrStateMachine'[t].State = "Init"
  <2>1. /\ run'[t] \in {"revive", "reviveAndWait"} /\ UNCHANGED ChTrDatas
        /\ ChTt'[c] = None /\ hc'[c] = "off"
    BY <1>1, <1>2
       DEF HaltedNak, HaltedWith, resumeVars, requestVars, cpuVars, Continue, Unclaimed,
           AfterNak, Known, Types
  <2>2. StateMachine' = StateMachine
    BY DEF HaltedNak, smVars
  <2>3. /\ TrStateMachine'[t].Channel = c
        /\ TrStateMachine'[t].State = "Init"
    BY <1>1, <1>2
       DEF HaltedNak, HaltedWith, resumeVars, requestVars, cpuVars, Continue, Unclaimed,
           AfterNak, Chan, Known, Types, TrSm
  <2> QED BY <1>1, <1>2, <2>1, <2>2, <2>3
<1>5. /\ HoldsPort(t) /\ ChTt[c] = TtPort[t] /\ ChTrDatas[c] = t
      /\ TrStateMachine[t].State = "TransferHalted"
  BY <1>1, <1>2 DEF Shown, HoldsPort, HaltedWith, At, HaltedNak, Halts, AllOutcomes
<1> HIDE DEF c
<1>6. Fits(t)' /\ Waits(t)'
  BY <1>1, <1>2, <1>3, <1>4, <1>5, NoneApart, WaitsFit DEF c, RunStates, TrStates
<1> QED BY <1>3, <1>6, MovesKeep

LEMMA TrDoneOwn ==
    ASSUME Known, NEW t \in Transfers, TrDone(t)
    PROVE  OwnInv'
<1> DEFINE c == ChannelOf(t)
<1>1. run[t] = "on" /\ Runs(t) /\ StateMachine[t].State \in WaitStates
      /\ TrStateMachine[t].State = "Done"
  BY DEF TrDone, At, Runs, cpuVars, Continue, Known, Types
<1>2. /\ t \in Active /\ c \in Channels /\ StateMachine[t].Channel = c /\ Chan(t) = c
      /\ Waits(t) /\ Progress(t) /\ Shown(t) /\ TrStateMachine[t] \in TrSm
  BY <1>1, AtFacts
<1>3. Moves(t)
  BY <1>1, <1>2
     DEF TrDone, Moves, resumeVars, smVars, requestVars, cpuVars, Continue, Unclaimed, Known,
         Types
<1>4. /\ run'[t] = "revive" /\ UNCHANGED ChTrDatas /\ ChTt'[c] = None /\ hc'[c] = "off"
      /\ StateMachine'[t].State \in WaitStates /\ StateMachine'[t].Channel = c
      /\ TrStateMachine'[t].Channel = c
      /\ TrStateMachine'[t].State = "Done"
  <2>1. /\ run'[t] = "revive" /\ UNCHANGED ChTrDatas /\ ChTt'[c] = None /\ hc'[c] = "off"
    BY <1>1, <1>2
       DEF TrDone, resumeVars, smVars, requestVars, cpuVars, Continue, Unclaimed, Known, Types
  <2>2. StateMachine' = StateMachine
    BY DEF TrDone, smVars
  <2>3. /\ TrStateMachine'[t].Channel = c
        /\ TrStateMachine'[t].State = "Done"
    BY <1>1, <1>2
       DEF TrDone, resumeVars, smVars, requestVars, cpuVars, Continue, Unclaimed, Chan, Known,
           Types, TrSm
  <2> QED BY <1>1, <1>2, <2>1, <2>2, <2>3
<1>5. HoldsPort(t) /\ ChTt[c] = TtPort[t] /\ ChTrDatas[c] = t
  BY <1>1, <1>2 DEF Shown, HoldsPort
<1> HIDE DEF c
<1>6. Fits(t)' /\ Waits(t)'
  BY <1>1, <1>2, <1>3, <1>4, <1>5, NoneApart, WaitsFit DEF c, RunStates, TrStates
<1> QED BY <1>3, <1>6, MovesKeep

-----------------------------------------------------------------------------
(* The end of a stage, of a request, and revivals                           *)

LEMMA AdvanceOn ==
    ASSUME Known, NEW t \in Transfers, Advance(t), NextStage(t) # "Idle"
    PROVE  OwnInv'
<1> DEFINE c == ChannelOf(t)
<1>1. run[t] = "advance" /\ Runs(t) /\ StateMachine[t].State \in WaitStates
  BY MidFacts DEF Advance, Continue, Runs, cpuVars, Known, Types
<1>2. /\ t \in Active /\ c \in Channels /\ StateMachine[t].Channel = c
      /\ Waits(t) /\ Progress(t) /\ Shown(t)
  BY <1>1, AtFacts
<1>3. Moves(t)
  BY <1>1, <1>2 DEF Advance, Continue, Moves, resumeVars, hwVars, Known, Types
<1>4. /\ run'[t] = "on" /\ UNCHANGED <<ChTt, hc, ChTrDatas>>
      /\ StateMachine'[t].State \in BeginStates /\ StateMachine'[t].Channel = c
  <2>1. NextStage(t) \in BeginStates
    BY DEF NextStage, BeginStates, ChStates, WaitStates, Advance
  <2> QED BY <1>1, <1>2, <2>1 DEF Advance, Continue, hwVars, Known, Types, ChSm
<1>5. ChTt[c] = None /\ hc[c] = "off" /\ ChTrDatas[c] = None
  BY <1>1, <1>2 DEF Progress, Shown, HoldsPort, OnBus
<1> HIDE DEF c
<1>6. ChannelOf(t)' = c /\ Fresh(t)' = FALSE /\ Resumed(t)' = FALSE
  BY <1>3, MovesFrame DEF c
<1>7. Begins(t)' /\ ~Waits(t)'
  BY <1>4, <1>6, StateFacts DEF Begins, Waits
<1>8. t \notin spinning' /\ ChSmDpc'[c] = None
  BY <1>1, <1>3, BusyFacts DEF Moves, Runs, Busy, Resumed, resumeVars, c
<1>9. Fits(t)'
  <2>1. Placed(t)'
    BY <1>4, <1>6, <1>7, <1>8, StateFacts DEF Placed
  <2>2. Shown(t)'
    BY <1>2, <1>4, <1>5, <1>6, <1>7, NoneApart DEF Shown, HoldsPort, OnBus
  <2> QED BY <1>7, <2>1, <2>2 DEF Fits
<1> QED BY <1>3, <1>9, MovesKeep

\* A run that completes its request lets go of everything.
Releases(t) ==
    /\ Runs(t) /\ run'[t] = "off"
    /\ UNCHANGED <<ChannelCallbacks, resumeVars, NextStateMachine, TrStateMachine, found>>
    /\ ChannelMask' = ChannelMask \ {ChannelOf(t)}
    /\ answers' = [answers EXCEPT ![t] = 1]
    /\ \A u \in Transfers \ {t} : StateMachine'[u] = StateMachine[u]
    /\ \A c \in Channels :
         /\ ChTt'[c] = IF c = ChannelOf(t) THEN None ELSE ChTt[c]
         /\ ChTrDatas'[c] = IF c = ChannelOf(t) THEN None ELSE ChTrDatas[c]
         /\ hc'[c] = IF c = ChannelOf(t) THEN "off" ELSE hc[c]

LEMMA ReleasesFrame ==
    ASSUME Known, NEW t \in Transfers, Releases(t)
    PROVE  /\ t \in Active /\ Active' = Active \ {t}
           /\ \A u \in Active \ {t} : Untouched(u)
<1>1. t \in Active /\ ChannelOf(t) \in Channels
  BY BusyFacts DEF Releases, Runs, Busy
<1>2. Active' = Active \ {t}
  BY <1>1 DEF Releases, Active, Known, Types
<1>3. ASSUME NEW u \in Active \ {t} PROVE Untouched(u)
  <2>1. ChannelOf(u) # ChannelOf(t) /\ u \in Transfers \ {t} /\ ChannelOf(u) \in Channels
    BY <1>1, Apart
  <2> QED BY <2>1 DEF Untouched, Releases, Runs, resumeVars, Known, Types
<1> QED BY <1>1, <1>2, <1>3

LEMMA ReleasesKeep ==
    ASSUME Known, NEW t \in Transfers, Releases(t)
    PROVE  OwnInv'
<1>1. /\ t \in Active /\ Busy(t) /\ ChannelOf(t) \in Channels /\ t \notin spinning
      /\ ChSmDpc[ChannelOf(t)] = None /\ ChannelOf(t) \notin ChResumeTimers
  BY BusyFacts DEF Releases, Runs, Busy, Resumed
<1>2. \A u \in Transfers : ChannelOf(u)' = ChannelOf(u)
  BY DEF Releases, ChannelOf
<1>3. Active' = Active \ {t}
  BY ReleasesFrame
<1>4. ~Busy(t)' /\ \A u \in Transfers \ {t} : Busy(u)' <=> Busy(u)
  BY <1>1 DEF Releases, Runs, Busy
<1>5. \A u \in Active \ {t} : Untouched(u)
  BY ReleasesFrame
<1>6. Owners'
  <2>1. \A u \in Transfers : answers'[u] <= 1
    BY DEF Releases, Known, Types, OwnInv, Owners
  <2>2. \A u \in Transfers : found'[u] # None => answers'[u] = 0 /\ found'[u] \notin ChannelMask'
    BY <1>1 DEF Releases, Known, Types, OwnInv, Owners, Active
  <2>3. ASSUME NEW c \in ChannelMask'
        PROVE  ChannelCallbacks'[c] # None /\ Works(c, ChannelCallbacks[c])'
    <3>1. c \in ChannelMask /\ c # ChannelOf(t)
      BY <2>3 DEF Releases
    <3>2. ChannelCallbacks[c] # None /\ Works(c, ChannelCallbacks[c])
      BY <3>1 DEF Known, OwnInv, Owners
    <3> QED BY <1>3, <3>1, <3>2 DEF Works, Releases, ChannelOf
  <2>4. \A u \in Active' : ChannelOf(u)' \in ChannelMask' /\ ChannelCallbacks'[ChannelOf(u)'] = u
    BY <1>1, <1>2, <1>3, Apart DEF Releases, Known, OwnInv, Owners
  <2> QED BY <2>1, <2>2, <2>3, <2>4 DEF Owners
<1>7. OneAtATime'
  <2>1. \A c \in Channels : ChSmDpc[c] # None => ChSmDpc[c] \in Active \ {t}
    BY <1>1 DEF Known, OwnInv, OneAtATime, Works
  <2>2. \A c \in ChResumeTimers : ChResumeContexts[c] \in Active \ {t}
    BY <1>1 DEF Known, OwnInv, OneAtATime, Works
  <2>3. ASSUME NEW c \in Channels, ChSmDpc'[c] # None
        PROVE  Works(c, ChSmDpc[c])' /\ ~Busy(ChSmDpc[c])' /\ c \notin ChResumeTimers'
    <3>1. /\ Works(c, ChSmDpc[c]) /\ c \notin ChResumeTimers /\ ~Busy(ChSmDpc[c])
          /\ UNCHANGED <<ChSmDpc, ChResumeTimers>>
      BY <2>3 DEF Known, OwnInv, OneAtATime, Releases, resumeVars
    <3>2. PICK u \in Active \ {t} : u = ChSmDpc[c] /\ u \in Transfers
      BY <2>1, <2>3, <3>1, Apart
    <3> QED BY <1>2, <1>3, <1>4, <3>1, <3>2 DEF Works
  <2>4. ASSUME NEW c \in ChResumeTimers'
        PROVE  /\ ChResumeContexts'[c] # None
               /\ Works(c, ChResumeContexts[c])' /\ ~Busy(ChResumeContexts[c])'
    <3>1. /\ UNCHANGED <<ChResumeContexts, ChResumeTimers>>
          /\ ChResumeContexts[c] # None /\ Works(c, ChResumeContexts[c])
          /\ ~Busy(ChResumeContexts[c])
      BY <2>4 DEF Known, OwnInv, OneAtATime, Releases, resumeVars
    <3>2. PICK u \in Active \ {t} : u = ChResumeContexts[c] /\ u \in Transfers
      BY <2>2, <2>4, <3>1, Apart
    <3> QED BY <1>2, <1>3, <1>4, <3>1, <3>2 DEF Works
  <2>5. /\ \A u \in Transfers : Busy(u)' => u \in Active'
        /\ \A u \in Transfers : run'[u] # "off" => u \notin spinning'
    BY <1>3, <1>4 DEF Known, OwnInv, OneAtATime, Releases, Runs
  <2> QED BY <2>3, <2>4, <2>5 DEF OneAtATime
<1>8. \A u \in Active' : Fits(u)'
  BY <1>3, <1>5, Frame, Apart DEF Known, OwnInv
<1>9. FreeInv'
  BY <1>1 DEF FreeInv, Free, Releases, Known, OwnInv
<1> QED BY <1>6, <1>7, <1>8, <1>9 DEF OwnInv

LEMMA AdvanceOwn ==
    ASSUME Known, NEW t \in Transfers, Advance(t)
    PROVE  OwnInv'
<1>1. CASE NextStage(t) # "Idle"
  BY <1>1, AdvanceOn
<1>2. CASE NextStage(t) = "Idle"
  <2> DEFINE c == ChannelOf(t)
  <2>1. run[t] = "advance" /\ Runs(t) /\ run'[t] = "off" /\ StateMachine[t].State \in WaitStates
    BY <1>2, MidFacts DEF Advance, Return, Runs, Known, Types
  <2>2. /\ t \in Active /\ c \in Channels /\ StateMachine[t].Channel = c
        /\ Waits(t) /\ Progress(t) /\ Shown(t)
    BY <2>1, AtFacts
  <2>3. ChTt[c] = None /\ hc[c] = "off" /\ ChTrDatas[c] = None
    BY <2>1, <2>2 DEF Progress, Shown, HoldsPort, OnBus
  <2>4. answers' = [answers EXCEPT ![t] = 1] /\ ChannelMask' = ChannelMask \ {c}
    BY <1>2, <2>2 DEF Advance, Complete, Released, Active
  <2>5. Releases(t)
    BY <1>2, <2>1, <2>2, <2>3, <2>4 DEF Advance, Releases, resumeVars, hwVars, Known, Types
  <2> QED BY <2>5, ReleasesKeep
<1> QED BY <1>1, <1>2

LEMMA HaltedFailureReleases ==
    ASSUME Known, NEW t \in Transfers, HaltedFailure(t)
    PROVE  Releases(t) /\ StateMachine'[t].State = "Idle"
<1> DEFINE c == ChannelOf(t)
<1>1. run[t] = "on" /\ Runs(t) /\ run'[t] = "off" /\ StateMachine[t].State \in WaitStates
  BY DEF HaltedFailure, HaltedWith, At, Return, Runs, Known, Types
<1>2. t \in Active /\ c \in Channels /\ StateMachine[t].Channel = c /\ Chan(t) = c
  BY <1>1, AtFacts
<1>3. answers' = [answers EXCEPT ![t] = 1] /\ ChannelMask' = ChannelMask \ {c}
  <2>1. answers[t] = 0
    BY <1>2 DEF Active
  <2>2. Complete(t) /\ ChannelMask' = Released(t)
    BY DEF HaltedFailure
  <2> QED BY <1>2, <2>1, <2>2 DEF Complete, Released
<1>4. Releases(t)
  BY <1>1, <1>2, <1>3
     DEF HaltedFailure, HaltedWith, Unclaimed, Forgotten, Releases, resumeVars, Known, Types
<1>5. StateMachine'[t].State = "Idle"
  BY DEF HaltedFailure, Known, Types, ChSm
<1> QED BY <1>4, <1>5

LEMMA HaltedFailureOwn ==
    ASSUME Known, NEW t \in Transfers, HaltedFailure(t)
    PROVE  OwnInv'
BY HaltedFailureReleases, ReleasesKeep

\* Whom a revival wakes: a transfer that waits for the port and is not yet resumed.
LEMMA Revived ==
    ASSUME Known, NEW t \in Active, GivesUp(t), NEW d \in ToRevive(t)
    PROVE  /\ d \in Channels /\ d # ChannelOf(t)
           /\ ChTrDatas[d] \in Active \ {t} /\ ChannelOf(ChTrDatas[d]) = d
           /\ WaitsForPort(ChTrDatas[d]) /\ TtPort[ChTrDatas[d]] = TtPort[t]
           /\ ~Resumed(ChTrDatas[d]) /\ ~Busy(ChTrDatas[d])
           /\ Split(t) /\ Fits(ChTrDatas[d])
<1> DEFINE w == ChTrDatas[d]
<1>1. t \in Transfers /\ Busy(t)
  BY Apart, NoneApart DEF Busy, GivesUp
<1>2. d \in Channels /\ w # None /\ TrStateMachine[w].State = "CheckFreePort"
      /\ TtPort[w] = TtPort[t]
  BY <1>1, PortTypes DEF Waiters, Known
<1>3. d \in ChannelMask
  BY <1>2 DEF Known, OwnInv, FreeInv, Free
<1>4. PICK u \in Active : ChannelOf(u) = d
  BY <1>3 DEF Known, OwnInv, Owners, Works
<1>5. w = u /\ Fits(u) /\ Waits(u)
  BY <1>2, <1>4 DEF Known, OwnInv, Fits, Shown
<1>6. Fits(t) /\ Waits(t)
  <2>1. run[t] \notin {"off", "on"}
    BY DEF GivesUp
  <2> QED BY <1>1, <2>1, MidFacts, AtFacts, BusyFacts
<1>7. TrStateMachine[t].State \in {"Init", "Done"}
  BY <1>6 DEF Fits, Progress, GivesUp
<1>8. w # t /\ d # ChannelOf(t)
  BY <1>2, <1>4, <1>5, <1>7, Apart
<1>9. Split(t)
  BY <1>2, <1>5 DEF Fits, Progress, Split
<1>10. WaitsForPort(w)
  BY <1>2, <1>5 DEF WaitsForPort
<1>11. ~WillRun(w)
  BY <1>1 DEF Known, RunsApart, RevivedOnce, GivesUp
<1>12. ~Resumed(w) /\ ~Busy(w)
  <2>1. w \in Transfers /\ ChannelOf(w) = d
    BY <1>4, <1>5, Apart
  <2>2. ChSmDpc[d] # None => ChSmDpc[d] = w
    BY <1>2, <2>1, <1>4, <1>5, Apart DEF Known, OwnInv, OneAtATime, Works
  <2>3. d \in ChResumeTimers => ChResumeContexts[d] = w
    BY <1>2, <2>1, <1>4, <1>5, Apart DEF Known, OwnInv, OneAtATime, Works
  <2> QED BY <1>2, <1>11, <2>1, <2>2, <2>3, NoneApart DEF WillRun, Resumed, Busy
<1> QED BY <1>2, <1>4, <1>5, <1>8, <1>9, <1>10, <1>12

\* A revival: the timers of those woken, and of the transfer itself after nak.
Revives(t, channels) ==
    /\ Runs(t) /\ GivesUp(t)
    /\ channels \subseteq {ChannelOf(t)}
    /\ SetTimers(t, ToRevive(t) \union channels)
    /\ run'[t] = "off" \/ channels = {}
    /\ UNCHANGED <<ChannelMask, ChannelCallbacks, ChTt, hc, smVars, answers, found>>
    /\ \A c \in Channels \ {ChannelOf(t)} : ChTrDatas'[c] = ChTrDatas[c]

LEMMA RevivesKeep ==
    ASSUME Known, NEW t \in Transfers, NEW channels, Revives(t, channels),
           Fits(t)'
    PROVE  OwnInv'
<1>1. /\ t \in Active /\ Busy(t) /\ ChannelOf(t) \in Channels /\ t \notin spinning
      /\ ChSmDpc[ChannelOf(t)] = None /\ ChannelOf(t) \notin ChResumeTimers
  BY BusyFacts DEF Revives, Runs, Busy, Resumed
<1>2. /\ ChSmDpc' = ChSmDpc
      /\ ChResumeTimers' = ChResumeTimers \union ToRevive(t) \union channels
      /\ \A c \in Channels : ChResumeContexts'[c] =
            IF c \in ToRevive(t) THEN ChTrDatas[c]
            ELSE IF c \in channels THEN t ELSE ChResumeContexts[c]
  BY DEF Revives, SetTimers
<1>3. Active' = Active /\ \A u \in Transfers : ChannelOf(u)' = ChannelOf(u)
  BY DEF Revives, smVars, Active, ChannelOf
<1>4. /\ \A u \in Transfers \ {t} : Busy(u)' <=> Busy(u)
      /\ run'[t] = "off" => ~Busy(t)'
  BY <1>1 DEF Revives, Runs, Busy
<1>5. \A d \in ToRevive(t) :
          /\ d \in Channels /\ d # ChannelOf(t) /\ ChTrDatas[d] \in Active \ {t}
          /\ ChannelOf(ChTrDatas[d]) = d /\ ~Resumed(ChTrDatas[d]) /\ ~Busy(ChTrDatas[d])
          /\ WaitsForPort(ChTrDatas[d]) /\ TtPort[ChTrDatas[d]] = TtPort[t] /\ Split(t)
  BY <1>1, Revived DEF Revives
<1>6. Owners'
  BY DEF Revives, smVars, Known, OwnInv, Owners, Works, ChannelOf, Active
<1>7. OneAtATime'
  <2>1. ASSUME NEW c \in Channels, ChSmDpc[c] # None
        PROVE  Works(c, ChSmDpc[c])' /\ ~Busy(ChSmDpc[c])' /\ c \notin ChResumeTimers'
    <3>1. Works(c, ChSmDpc[c]) /\ ~Busy(ChSmDpc[c]) /\ c \notin ChResumeTimers
      BY <2>1 DEF Known, OwnInv, OneAtATime
    <3>2. PICK u \in Active : u = ChSmDpc[c] /\ ChannelOf(u) = c /\ u # t /\ u \in Transfers
      BY <1>1, <2>1, <3>1, Apart DEF Works
    <3>3. c \notin ToRevive(t)
      BY <1>5, <2>1, <3>2, Apart DEF Resumed
    <3>4. c \notin channels
      BY <1>1, <2>1 DEF Revives
    <3> QED BY <1>2, <1>3, <1>4, <3>1, <3>2, <3>3, <3>4 DEF Works
  <2>2. ASSUME NEW c \in ChResumeTimers'
        PROVE  /\ ChResumeContexts'[c] # None
               /\ Works(c, ChResumeContexts[c])' /\ ~Busy(ChResumeContexts[c])'
    <3>1. c \in Channels
      BY <1>1, <1>2, <1>5, <2>2 DEF Revives, Known, Types
    <3>2. CASE c \in ToRevive(t)
      <4>1. PICK u \in Active \ {t} : u = ChTrDatas[c] /\ ChannelOf(u) = c /\ u \in Transfers
                                      /\ ~Busy(u)
        BY <1>5, <3>2, Apart
      <4>2. ChResumeContexts'[c] = u
        BY <1>2, <3>1, <3>2, <4>1
      <4> QED BY <1>3, <1>4, <4>1, <4>2, NoneApart DEF Works
    <3>3. CASE c \notin ToRevive(t) /\ c \in channels
      <4>1. c = ChannelOf(t) /\ run'[t] = "off" /\ ChResumeContexts'[c] = t
        BY <1>2, <3>1, <3>3 DEF Revives
      <4> QED BY <1>1, <1>3, <1>4, <4>1, NoneApart DEF Works
    <3>4. CASE c \notin ToRevive(t) /\ c \notin channels
      <4>1. c \in ChResumeTimers /\ ChResumeContexts'[c] = ChResumeContexts[c]
        BY <1>2, <2>2, <3>1, <3>4
      <4>2. ChResumeContexts[c] # None /\ Works(c, ChResumeContexts[c])
            /\ ~Busy(ChResumeContexts[c])
        BY <4>1 DEF Known, OwnInv, OneAtATime
      <4>3. PICK u \in Active \ {t} : u = ChResumeContexts[c] /\ ChannelOf(u) = c
                                      /\ u \in Transfers /\ ~Busy(u)
        BY <1>1, <4>1, <4>2, Apart DEF Works
      <4> QED BY <1>3, <1>4, <4>1, <4>2, <4>3 DEF Works
    <3> QED BY <3>2, <3>3, <3>4
  <2>3. /\ \A u \in Transfers : Busy(u)' => u \in Active'
        /\ \A u \in Transfers : run'[u] # "off" => u \notin spinning'
    BY <1>1, <1>3, <1>4 DEF Known, OwnInv, OneAtATime, Revives, Runs
  <2> QED BY <1>2, <2>1, <2>2, <2>3 DEF OneAtATime
<1>8. ASSUME NEW u \in Active \ {t}, ChannelOf(u) \notin ToRevive(t)
      PROVE  Untouched(u)
  <2>1. ChannelOf(u) # ChannelOf(t) /\ u \in Transfers \ {t} /\ ChannelOf(u) \in Channels
    BY <1>1, Apart
  <2> QED BY <1>2, <1>8, <2>1 DEF Untouched, Revives, Runs, smVars
<1>9. ASSUME NEW u \in Active \ {t}, ChannelOf(u) \in ToRevive(t)
      PROVE  Fits(u)'
  <2>1. /\ ChTrDatas[ChannelOf(u)] = u /\ WaitsForPort(u) /\ ~Resumed(u) /\ ~Busy(u)
        /\ Fits(u) /\ u \in Transfers /\ TtPort[u] = TtPort[t] /\ Split(t)
    BY <1>1, <1>9, Revived, Apart DEF Revives
  <2>2. /\ UNCHANGED <<ChSmDpc, StateMachine, NextStateMachine, TrStateMachine, ChTt, hc, spinning>>
        /\ run'[u] = run[u] /\ ChTrDatas'[ChannelOf(u)] = ChTrDatas[ChannelOf(u)]
        /\ ChannelOf(u)' = ChannelOf(u)
    BY <1>1, <1>2, <1>3, <1>5, <1>9, <2>1, Apart DEF Revives, Runs, smVars
  <2>3. Fresh(u)' = Fresh(u)
    BY <2>2 DEF Fresh
  <2>4. (Begins(u)' <=> Begins(u)) /\ (Waits(u)' <=> Waits(u))
    BY <2>2, <2>3 DEF Begins, Waits
  <2>5. Placed(u)'
    BY <2>1, <2>2, <2>3, <2>4 DEF Fits, Placed, Chan
  <2>6. Progress(u)'
    BY <2>1, <2>2, <2>4 DEF Fits, Progress, WaitsForPort
  <2>7. (HoldsPort(u)' <=> HoldsPort(u)) /\ (OnBus(u)' <=> OnBus(u))
    BY <2>2, <2>4 DEF HoldsPort, OnBus
  <2>8. Shown(u)'
    BY <2>1, <2>2, <2>4, <2>7 DEF Fits, Shown
  <2> QED BY <2>5, <2>6, <2>8 DEF Fits
<1>10. \A u \in Active : Fits(u)'
  BY <1>8, <1>9, Frame, Apart DEF Known, OwnInv
<1>11. FreeInv'
  <2>1. \A c \in Free : c \in Channels \ {ChannelOf(t)}
    BY <1>1 DEF Free, Known, OwnInv, Owners
  <2> QED BY <2>1 DEF FreeInv, Free, Revives, Known, OwnInv
<1> QED BY <1>3, <1>6, <1>7, <1>10, <1>11 DEF OwnInv

\* A transfer that gives up its port, and after it has woken the others.
LEMMA GivesUpFits ==
    ASSUME Known, NEW t \in Transfers, GivesUp(t), NEW channels, Revives(t, channels),
           NEW r \in {"off", "on", "advance"}, run'[t] = r,
           r = "off" => run[t] = "reviveAndWait",
           r = "advance" <=> TrStateMachine[t].State = "Done",
           ChTrDatas'[ChannelOf(t)] =
             IF r = "advance" THEN None ELSE ChTrDatas[ChannelOf(t)]
    PROVE  Fits(t)'
<1> DEFINE c == ChannelOf(t)
<1>1. StateMachine[t].State \in WaitStates /\ run[t] # "off" /\ t \notin spinning
  BY MidFacts DEF GivesUp, Known, OwnInv, OneAtATime
<1>2. /\ t \in Active /\ c \in Channels /\ StateMachine[t].Channel = c /\ Chan(t) = c
      /\ Waits(t) /\ Progress(t) /\ Shown(t) /\ ChSmDpc[c] = None /\ c \notin ChResumeTimers
  BY <1>1, AtFacts, BusyFacts DEF Busy
<1>3. TrStateMachine[t].State \in {"Init", "Done"} /\ ~HoldsPort(t) /\ ~OnBus(t)
  BY <1>2 DEF Progress, GivesUp, HoldsPort, OnBus
<1>4. ChTt[c] = None /\ hc[c] = "off"
  BY <1>2, <1>3 DEF Shown
<1>5. /\ UNCHANGED <<ChTt, hc, ChSmDpc, StateMachine, NextStateMachine, TrStateMachine, spinning>>
      /\ ChResumeTimers' = ChResumeTimers \union ToRevive(t) \union channels
      /\ c' = c
  BY DEF Revives, SetTimers, smVars, Runs, ChannelOf
<1>6. c \notin ToRevive(t)
  BY <1>2, Revived
<1>7. ~Fresh(t)' /\ Waits(t)' /\ ~Begins(t)'
  BY <1>1, <1>2, <1>5, StateFacts DEF Fresh, Waits, Begins
<1>8. Placed(t)'
  BY <1>1, <1>2, <1>5, <1>7, StateFacts DEF Placed, Chan
<1>9. TrStateMachine[t].State = "Init" \/ ~Resumed(t)'
  BY <1>1, <1>2, <1>3, <1>5, <1>6 DEF Resumed, Revives, Progress, GivesUp
<1>10. Progress(t)'
  BY <1>2, <1>3, <1>5, <1>9 DEF Progress, GivesUp
<1>11. ~HoldsPort(t)' /\ ~OnBus(t)'
  BY <1>3, <1>5 DEF HoldsPort, OnBus
<1>12. Shown(t)'
  BY <1>2, <1>3, <1>4, <1>5, <1>7, <1>11, NoneApart DEF Shown, GivesUp
<1> QED BY <1>8, <1>10, <1>12 DEF Fits

LEMMA ReviveOwn ==
    ASSUME Known, NEW t \in Transfers, Revive(t)
    PROVE  OwnInv'
<1>1. run[t] = "revive" /\ GivesUp(t) /\ Runs(t)
  BY DEF Revive, Continue, Runs, cpuVars, GivesUp, Known, Types
<1>2. StateMachine[t].State \in WaitStates /\ ChannelOf(t) \in Channels /\ Chan(t) = ChannelOf(t)
  BY <1>1, MidFacts, AtFacts
<1>3. run'[t] = IF TrStateMachine[t].State = "Done" THEN "advance" ELSE "on"
  BY DEF Revive, Continue, Known, Types
<1>4. \A c \in Channels : ChTrDatas'[c] =
        IF c = ChannelOf(t) /\ TrStateMachine[t].State = "Done" THEN None ELSE ChTrDatas[c]
  BY <1>2 DEF Revive, Forgotten, Known, Types
<1>5. Revives(t, {})
  <2>1. SetTimers(t, ToRevive(t) \union {})
    BY DEF Revive
  <2>2. UNCHANGED <<ChannelMask, ChannelCallbacks, ChTt, hc, smVars, answers, found>>
    BY DEF Revive, requestVars, hwVars
  <2> QED BY <1>1, <1>2, <1>4, <2>1, <2>2 DEF Revives
<1>6. Fits(t)'
  BY <1>1, <1>2, <1>3, <1>4, <1>5, GivesUpFits
<1> QED BY <1>5, <1>6, RevivesKeep

LEMMA ReviveAndWaitOwn ==
    ASSUME Known, NEW t \in Transfers, ReviveAndWait(t)
    PROVE  OwnInv'
<1>1. run[t] = "reviveAndWait" /\ GivesUp(t) /\ Runs(t) /\ run'[t] = "off"
  BY DEF ReviveAndWait, Return, Runs, GivesUp, Known, Types
<1>2. /\ StateMachine[t].State \in WaitStates /\ ChannelOf(t) \in Channels
      /\ Chan(t) = ChannelOf(t) /\ TrStateMachine[t].State = "Init"
  BY <1>1, MidFacts, AtFacts DEF Progress
<1>3. Revives(t, {ChannelOf(t)})
  <2>1. SetTimers(t, ToRevive(t) \union {ChannelOf(t)})
    BY <1>2 DEF ReviveAndWait, NakTimer
  <2>2. UNCHANGED <<ChannelMask, ChannelCallbacks, ChTt, hc, smVars, answers, found, ChTrDatas>>
    BY DEF ReviveAndWait, chVars, requestVars, hwVars
  <2> QED BY <1>1, <1>2, <2>1, <2>2 DEF Revives
<1>4. ChTrDatas' = ChTrDatas
  BY DEF ReviveAndWait, chVars
<1>5. Fits(t)'
  BY <1>1, <1>2, <1>3, <1>4, GivesUpFits
<1> QED BY <1>3, <1>5, RevivesKeep

-----------------------------------------------------------------------------
(* Who runs whom                                                            *)

\* What decides whether a transfer fits, stays: so does OwnInv.
LEMMA SameOwn ==
    ASSUME OwnInv, UNCHANGED <<ChannelMask, ChannelCallbacks, ChTrDatas, ChTt, resumeVars, smVars,
                               run, spinning, answers, found, hc>>
    PROVE  OwnInv'
<1>1. Active' = Active /\ \A t \in Transfers : ChannelOf(t)' = ChannelOf(t)
  BY DEF Active, ChannelOf, smVars
<1>2. \A t \in Transfers : Untouched(t)
  BY DEF Untouched, resumeVars, smVars
<1>3. Owners' /\ FreeInv'
  BY <1>1 DEF OwnInv, Owners, FreeInv, Free, Works, ChannelOf, smVars
<1>4. OneAtATime'
  BY DEF OwnInv, OneAtATime, Works, Busy, Active, ChannelOf, smVars, resumeVars
<1>5. \A t \in Active : Fits(t)'
  BY <1>2, Frame DEF OwnInv, Active
<1> QED BY <1>1, <1>3, <1>4, <1>5 DEF OwnInv

\* A channel that is not off is that of a transfer on the bus.
LEMMA OnChannel ==
    ASSUME Known, NEW c \in Channels, hc[c] # "off"
    PROVE  /\ ChannelCallbacks[c] \in Active /\ ChannelOf(ChannelCallbacks[c]) = c
           /\ OnBus(ChannelCallbacks[c]) /\ Fits(ChannelCallbacks[c])
<1>1. c \in ChannelMask
  BY DEF Known, OwnInv, FreeInv, Free
<1>2. ChannelCallbacks[c] \in Active /\ ChannelOf(ChannelCallbacks[c]) = c
  BY <1>1 DEF Known, OwnInv, Owners, Works
<1> QED BY <1>2 DEF Known, OwnInv, Fits, Shown

LEMMA AcquireLockOwn ==
    ASSUME Known, NEW t \in Transfers, AcquireLock(t)
    PROVE  OwnInv'
<1> DEFINE c == ChannelOf(t)
<1>1. t \in spinning /\ run[t] = "off" /\ run'[t] = "on" /\ t \notin spinning'
      /\ \A u \in Transfers \ {t} : run'[u] = run[u] /\ (u \in spinning' <=> u \in spinning)
  BY DEF AcquireLock, Known, Types
<1>2. /\ UNCHANGED <<ChannelMask, ChannelCallbacks, ChTrDatas, ChTt, resumeVars, smVars,
                     answers, found, hc>>
  BY DEF AcquireLock, chVars, requestVars, hwVars
<1>3. /\ t \in Active /\ c \in Channels /\ ChSmDpc[c] = None /\ c \notin ChResumeTimers
      /\ ~Fresh(t) /\ Fits(t) /\ Resumed(t)
  BY <1>1, BusyFacts DEF Busy, Resumed
<1>4. Active' = Active /\ \A u \in Transfers : ChannelOf(u)' = ChannelOf(u)
  BY <1>2 DEF Active, ChannelOf, smVars
<1>5. \A u \in Transfers : Busy(u)' <=> Busy(u)
  BY <1>1 DEF Busy
<1>6. \A u \in Active \ {t} : Untouched(u)
  BY <1>1, <1>2, Apart DEF Untouched, resumeVars, smVars
<1>7. Owners' /\ FreeInv'
  BY <1>2, <1>4 DEF Known, OwnInv, Owners, FreeInv, Free, Works, ChannelOf, smVars
<1>8. OneAtATime'
  BY <1>1, <1>2, <1>5
     DEF Known, Types, OwnInv, OneAtATime, Works, Active, ChannelOf, smVars, resumeVars
<1>9. ~Fresh(t)' /\ ~Resumed(t)' /\ (Waits(t)' <=> Waits(t)) /\ (Begins(t)' <=> Begins(t))
  BY <1>1, <1>2, <1>3, <1>4 DEF Fresh, Resumed, Waits, Begins, smVars, resumeVars
<1>10. Waits(t) => TrStateMachine[t].State \in {"Init", "CheckFreePort"}
  BY <1>3 DEF Fits, Progress
<1>11. Placed(t)' /\ (Waits(t)' => Progress(t)')
  BY <1>1, <1>2, <1>3, <1>4, <1>9, <1>10
     DEF Fits, Placed, Progress, Chan, smVars, resumeVars, Split
<1>12. ~HoldsPort(t) /\ ~HoldsPort(t)' /\ ~OnBus(t) /\ ~OnBus(t)'
  BY <1>2, <1>9, <1>10 DEF HoldsPort, OnBus, smVars
<1>13. Fits(t)'
  BY <1>1, <1>2, <1>3, <1>4, <1>9, <1>11, <1>12 DEF Fits, Shown, smVars
<1>14. \A u \in Active : Fits(u)'
  BY <1>6, <1>13, Frame, Apart DEF Known, OwnInv
<1> QED BY <1>4, <1>7, <1>8, <1>14 DEF OwnInv

LEMMA ServeChannelOwn ==
    ASSUME Known, ServeChannel
    PROVE  OwnInv'
<1>1. PICK c \in Channels : c = Least(toServe) /\ c \in toServe /\ hc[c] \in Halts /\ hc[c] # "off"
  <2>1. Least(toServe) \in toServe
    BY LeastOf, TransferAssumption DEF ServeChannel, Known, Types
  <2> QED BY <2>1 DEF Known, Types, RunsApart, ServedOnce, Halts, AllOutcomes
<1>2. PICK t \in Transfers : /\ t = ChannelCallbacks[c] /\ t # None
                             /\ t \in Active /\ ChannelOf(t) = c /\ OnBus(t) /\ Fits(t)
  BY <1>1, OnChannel, Apart, NoneApart
<1>3. run'[t] = "on" /\ run[t] = "off" /\ \A u \in Transfers \ {t} : run'[u] = run[u]
  BY <1>1, <1>2 DEF ServeChannel, Known, Types
<1>4. /\ UNCHANGED <<ChannelMask, ChannelCallbacks, ChTrDatas, ChTt, resumeVars, smVars,
                     answers, found, hc, spinning>>
  BY DEF ServeChannel, chVars, requestVars, hwVars
<1>5. TrStateMachine[t].State = "TransferWaiting" /\ Waits(t) /\ ~Resumed(t) /\ ~Fresh(t)
  BY <1>2, <1>3 DEF OnBus, Fits, Progress, Waits
<1>6. t \notin spinning /\ ChSmDpc[c] = None /\ c \notin ChResumeTimers
  BY <1>2, <1>5 DEF Resumed
<1>7. Active' = Active /\ \A u \in Transfers : ChannelOf(u)' = ChannelOf(u)
  BY <1>4 DEF Active, ChannelOf, smVars
<1>8. \A u \in Transfers \ {t} : Busy(u)' <=> Busy(u)
  BY <1>3, <1>4 DEF Busy
<1>9. \A u \in Active \ {t} : Untouched(u)
  BY <1>3, <1>4, Apart DEF Untouched, resumeVars, smVars
<1>10. Owners' /\ FreeInv'
  BY <1>4, <1>7 DEF Known, OwnInv, Owners, FreeInv, Free, Works, ChannelOf, smVars
<1>11. OneAtATime'
  <2>1. ASSUME NEW d \in Channels, ChSmDpc'[d] # None
        PROVE  Works(d, ChSmDpc[d])' /\ ~Busy(ChSmDpc[d])' /\ d \notin ChResumeTimers'
    <3>1. PICK u \in Transfers \ {t} : u = ChSmDpc[d] /\ u \in Active /\ ChannelOf(u) = d
                                     /\ ~Busy(u) /\ d \notin ChResumeTimers
      BY <1>2, <1>4, <1>6, <2>1, Apart DEF Known, OwnInv, OneAtATime, Works, resumeVars
    <3> QED BY <1>4, <1>7, <1>8, <3>1 DEF Works, resumeVars
  <2>2. ASSUME NEW d \in ChResumeTimers'
        PROVE  /\ ChResumeContexts'[d] # None
               /\ Works(d, ChResumeContexts[d])' /\ ~Busy(ChResumeContexts[d])'
    <3>1. PICK u \in Transfers \ {t} : u = ChResumeContexts[d] /\ u \in Active /\ ChannelOf(u) = d
                                     /\ ~Busy(u) /\ u # None
      BY <1>2, <1>4, <1>6, <2>2, Apart DEF Known, OwnInv, OneAtATime, Works, resumeVars
    <3> QED BY <1>4, <1>7, <1>8, <3>1 DEF Works, resumeVars
  <2>3. /\ \A u \in Transfers : Busy(u)' => u \in Active'
        /\ \A u \in Transfers : run'[u] # "off" => u \notin spinning'
    BY <1>2, <1>3, <1>4, <1>6, <1>7, <1>8 DEF Known, OwnInv, OneAtATime
  <2> QED BY <2>1, <2>2, <2>3 DEF OneAtATime
<1>12. ~Fresh(t)' /\ ~Resumed(t)' /\ Waits(t)' /\ ~Begins(t)' /\ ~Begins(t)
  BY <1>2, <1>4, <1>5, <1>6, <1>7, StateFacts
     DEF Fresh, Resumed, Waits, Begins, smVars, resumeVars
<1>13. Placed(t)' /\ Progress(t)'
  BY <1>2, <1>3, <1>4, <1>5, <1>6, <1>7, <1>12
     DEF Fits, Placed, Progress, Chan, smVars, resumeVars
<1>14. Shown(t)'
  BY <1>2, <1>3, <1>4, <1>5, <1>7, <1>12 DEF Fits, Shown, HoldsPort, OnBus, smVars
<1>15. \A u \in Active : Fits(u)'
  BY <1>9, <1>13, <1>14, Frame, Apart DEF Known, OwnInv, Fits
<1> QED BY <1>7, <1>10, <1>11, <1>15 DEF OwnInv

LEMMA InterruptOwn ==
    ASSUME Known, OnInterruptIsr \/ OnInterruptDpc
    PROVE  OwnInv'
BY SameOwn DEF OnInterruptIsr, OnInterruptDpc, Known, chVars, requestVars, hwVars

LEMMA RunSmDpcOwn ==
    ASSUME Known, NEW c \in Channels, RunSmDpc(c)
    PROVE  OwnInv'
<1>1. PICK t \in Transfers : /\ t = ChSmDpc[c] /\ t # None /\ t \in Active /\ ChannelOf(t) = c
                             /\ Fits(t) /\ Resumed(t) /\ c \notin ChResumeTimers
  BY Apart DEF RunSmDpc, Known, Types, OwnInv, OneAtATime, Works, Resumed
<1>2. ~Busy(t)
  BY <1>1 DEF RunSmDpc, Known, OwnInv, OneAtATime
<1>3. /\ UNCHANGED <<ChannelMask, ChannelCallbacks, ChTrDatas, ChTt, ChResumeContexts,
                     ChResumeTimers, NextStateMachine, TrStateMachine, run, answers, found,
                     hc>>
      /\ spinning' = spinning \union {t}
      /\ \A d \in Channels : ChSmDpc'[d] = IF d = c THEN None ELSE ChSmDpc[d]
      /\ \A u \in Transfers : StateMachine'[u] =
            IF u = t THEN NextStateMachine[u] ELSE StateMachine[u]
  BY <1>1 DEF RunSmDpc, chVars, requestVars, hwVars, Known, Types
<1>4. Active' = Active /\ \A u \in Transfers : ChannelOf(u)' = ChannelOf(u)
  BY <1>3 DEF Active, ChannelOf
<1>5. \A u \in Transfers \ {t} : Busy(u)' <=> Busy(u)
  BY <1>3 DEF Busy
<1>6. \A u \in Active \ {t} : Untouched(u)
  BY <1>1, <1>3, Apart DEF Untouched
<1>7. Owners' /\ FreeInv'
  BY <1>3, <1>4 DEF Known, OwnInv, Owners, FreeInv, Free, Works, ChannelOf
<1>8. OneAtATime'
  <2>1. ASSUME NEW d \in Channels, ChSmDpc'[d] # None
        PROVE  Works(d, ChSmDpc[d])' /\ ~Busy(ChSmDpc[d])' /\ d \notin ChResumeTimers'
    <3>1. d # c /\ ChSmDpc'[d] = ChSmDpc[d]
      BY <1>3, <2>1
    <3>2. PICK u \in Transfers : u = ChSmDpc[d] /\ u # t /\ u \in Active /\ ChannelOf(u) = d
                                 /\ d \notin ChResumeTimers /\ ~Busy(u)
      BY <1>1, <2>1, <3>1, Apart DEF Known, OwnInv, OneAtATime, Works
    <3> QED BY <1>3, <1>4, <1>5, <3>1, <3>2 DEF Works
  <2>2. ASSUME NEW d \in ChResumeTimers'
        PROVE  /\ ChResumeContexts'[d] # None
               /\ Works(d, ChResumeContexts[d])' /\ ~Busy(ChResumeContexts[d])'
    <3>1. PICK u \in Transfers : u = ChResumeContexts[d] /\ u \in Active /\ ChannelOf(u) = d
                                 /\ u # None /\ u # t /\ ~Busy(u)
      BY <1>1, <1>3, <2>2, Apart DEF Known, OwnInv, OneAtATime, Works
    <3> QED BY <1>3, <1>4, <1>5, <3>1 DEF Works
  <2>3. /\ \A u \in Transfers : Busy(u)' => u \in Active'
        /\ \A u \in Transfers : run'[u] # "off" => u \notin spinning'
    BY <1>1, <1>2, <1>3, <1>4, <1>5 DEF Known, OwnInv, OneAtATime, Busy
  <2> QED BY <2>1, <2>2, <2>3 DEF OneAtATime
<1>9. t \in spinning' /\ ChSmDpc'[c] = None /\ run'[t] = "off" /\ run[t] = "off"
  BY <1>2, <1>3 DEF Busy
<1>10. ~Fresh(t)' /\ Resumed(t)' /\ StateMachine'[t] = NextStateMachine[t]
  BY <1>1, <1>3, <1>4, <1>9 DEF Fresh, Resumed
<1>11. StateMachine'[t].Channel = ChannelOf(t)
  BY <1>10 DEF ChannelOf
<1>12. Placed(t)' /\ (Waits(t)' <=> Waits(t))
  <2>1. CASE Fresh(t)
    <3>1. StateMachine'[t].State \in BeginStates
      BY <1>10, <2>1 DEF Fresh
    <3>2. Begins(t)' /\ ~Waits(t)' /\ ~Waits(t) /\ StateMachine'[t].State # "Idle"
      BY <1>10, <2>1, <3>1, StateFacts DEF Begins, Waits
    <3> QED BY <1>1, <1>3, <1>4, <1>9, <1>10, <1>11, <3>2 DEF Placed
  <2>2. CASE ~Fresh(t)
    <3>1. StateMachine[t] = NextStateMachine[t]
      BY <1>1, <2>2 DEF Fits, Placed
    <3>2. StateMachine'[t] = StateMachine[t] /\ (Begins(t)' <=> Begins(t))
          /\ (Waits(t)' <=> Waits(t))
      BY <1>10, <2>2, <3>1 DEF Begins, Waits
    <3> QED BY <1>1, <1>3, <1>4, <1>9, <1>10, <1>11, <2>2, <3>1, <3>2 DEF Fits, Placed, Chan
  <2> QED BY <2>1, <2>2
<1>13. Waits(t)' => Progress(t)'
  BY <1>1, <1>3, <1>9, <1>12 DEF Fits, Progress
<1>14. (HoldsPort(t)' <=> HoldsPort(t)) /\ (OnBus(t)' <=> OnBus(t))
  BY <1>3, <1>12 DEF HoldsPort, OnBus
<1>15. Shown(t)'
  BY <1>1, <1>3, <1>4, <1>12, <1>14 DEF Fits, Shown
<1>16. \A u \in Active : Fits(u)'
  BY <1>6, <1>12, <1>13, <1>15, Frame, Apart DEF Known, OwnInv, Fits
<1> QED BY <1>4, <1>7, <1>8, <1>16 DEF OwnInv

LEMMA ResumeChOwn ==
    ASSUME Known, NEW c \in Channels, ResumeCh(c)
    PROVE  OwnInv'
<1>1. PICK t \in Transfers : /\ t = ChResumeContexts[c] /\ t # None /\ t \in Active
                             /\ ChannelOf(t) = c /\ Fits(t) /\ Resumed(t)
                             /\ c \in ChResumeTimers /\ ChSmDpc[c] = None
  BY Apart DEF ResumeCh, Known, OwnInv, OneAtATime, Works, Resumed
<1>2. ~Busy(t)
  BY <1>1 DEF Known, OwnInv, OneAtATime
<1>3. ~Fresh(t) /\ StateMachine[t].Channel = c /\ ~Begins(t) /\ run[t] = "off"
      /\ StateMachine[t].State \notin BeginStates /\ t \notin spinning
  BY <1>1, <1>2 DEF Fresh, Fits, Placed, Begins, Busy
<1>4. /\ UNCHANGED <<ChannelMask, ChannelCallbacks, ChTrDatas, ChTt, ChResumeContexts,
                     StateMachine, TrStateMachine, run, spinning, answers, found, hc>>
      /\ ChResumeTimers' = ChResumeTimers \ {c}
      /\ \A d \in Channels : ChSmDpc'[d] = IF d = c THEN t ELSE ChSmDpc[d]
      /\ \A u \in Transfers : NextStateMachine'[u] =
            IF u = t THEN StateMachine[u] ELSE NextStateMachine[u]
  BY <1>1, <1>3 DEF ResumeCh, InvokeTrSm, chVars, requestVars, cpuVars, hwVars, Known, Types
<1>5. \A u \in Transfers : ChannelOf(u)' = ChannelOf(u)
  BY <1>1, <1>3, <1>4 DEF ChannelOf
<1>6. Active' = Active
  BY <1>4 DEF Active
<1>7. \A u \in Transfers : Busy(u)' <=> Busy(u)
  BY <1>4 DEF Busy
<1>8. \A u \in Active \ {t} : Untouched(u)
  BY <1>1, <1>4, Apart DEF Untouched
<1>9. Owners' /\ FreeInv'
  <2>1. ASSUME NEW d \in ChannelMask'
        PROVE  ChannelCallbacks'[d] # None /\ Works(d, ChannelCallbacks[d])'
    <3>1. PICK u \in Transfers : u = ChannelCallbacks[d] /\ u \in Active /\ ChannelOf(u) = d
                                 /\ u # None
      BY <1>4, <2>1, Apart DEF Known, OwnInv, Owners, Works
    <3> QED BY <1>4, <1>5, <1>6, <3>1 DEF Works
  <2>2. \A u \in Active' : ChannelOf(u)' \in ChannelMask' /\ ChannelCallbacks'[ChannelOf(u)'] = u
    BY <1>4, <1>5, <1>6, Apart DEF Known, OwnInv, Owners
  <2>3. FreeInv'
    BY <1>4 DEF Known, OwnInv, FreeInv, Free
  <2> QED BY <1>4, <2>1, <2>2, <2>3 DEF Known, OwnInv, Owners
<1>10. OneAtATime'
  <2>1. ASSUME NEW d \in Channels, ChSmDpc'[d] # None
        PROVE  Works(d, ChSmDpc[d])' /\ ~Busy(ChSmDpc[d])' /\ d \notin ChResumeTimers'
    <3>1. PICK u \in Transfers : u = ChSmDpc'[d] /\ u \in Active /\ ChannelOf(u) = d
                                 /\ d \notin ChResumeTimers' /\ ~Busy(u)
      BY <1>1, <1>2, <1>4, <2>1, Apart DEF Known, OwnInv, OneAtATime, Works
    <3> QED BY <1>5, <1>6, <1>7, <3>1 DEF Works
  <2>2. ASSUME NEW d \in ChResumeTimers'
        PROVE  /\ ChResumeContexts'[d] # None
               /\ Works(d, ChResumeContexts[d])' /\ ~Busy(ChResumeContexts[d])'
    <3>1. PICK u \in Transfers : u = ChResumeContexts[d] /\ u \in Active /\ ChannelOf(u) = d
                                 /\ u # None /\ ~Busy(u)
      BY <1>4, <2>2, Apart DEF Known, OwnInv, OneAtATime, Works
    <3> QED BY <1>4, <1>5, <1>6, <1>7, <3>1 DEF Works
  <2>3. /\ \A u \in Transfers : Busy(u)' => u \in Active'
        /\ \A u \in Transfers : run'[u] # "off" => u \notin spinning'
    BY <1>4, <1>6, <1>7 DEF Known, OwnInv, OneAtATime
  <2> QED BY <2>1, <2>2, <2>3 DEF OneAtATime
<1>11. ~Fresh(t)' /\ ~Begins(t)' /\ (Waits(t)' <=> Waits(t)) /\ Resumed(t)'
       /\ ChSmDpc'[c] = t /\ NextStateMachine'[t] = StateMachine[t]
  BY <1>1, <1>3, <1>4, <1>5 DEF Fresh, Begins, Waits, Resumed
<1>12. Placed(t)' /\ (Waits(t)' => Progress(t)')
  BY <1>1, <1>3, <1>4, <1>5, <1>11 DEF Fits, Placed, Progress, Chan
<1>13. (HoldsPort(t)' <=> HoldsPort(t)) /\ (OnBus(t)' <=> OnBus(t))
  BY <1>4, <1>11 DEF HoldsPort, OnBus
<1>14. Shown(t)'
  BY <1>1, <1>4, <1>5, <1>11, <1>13 DEF Fits, Shown
<1>15. \A u \in Active : Fits(u)'
  BY <1>8, <1>12, <1>14, Frame, Apart DEF Known, OwnInv, Fits
<1> QED BY <1>6, <1>9, <1>10, <1>15 DEF OwnInv

LEMMA HwHaltOwn ==
    ASSUME Known, NEW c \in Channels, NEW o \in AllOutcomes, HwHalt(c, o)
    PROVE  OwnInv'
<1>1. PICK t \in Transfers : /\ t = ChannelCallbacks[c] /\ t \in Active /\ ChannelOf(t) = c
                             /\ OnBus(t) /\ Fits(t) /\ hc[c] = "on"
  BY OnChannel, Apart DEF HwHalt
<1>2. /\ UNCHANGED <<ChannelMask, ChannelCallbacks, ChTrDatas, ChTt, resumeVars, smVars,
                     run, spinning, answers, found>>
      /\ \A d \in Channels : hc'[d] = IF d = c THEN o ELSE hc[d]
  BY DEF HwHalt, chVars, requestVars, cpuVars, Known, Types
<1>3. o \in Halts /\ o \notin {"on", "off"}
  BY DEF Halts, AllOutcomes
<1>4. Active' = Active /\ \A u \in Transfers : ChannelOf(u)' = ChannelOf(u)
  BY <1>2 DEF Active, ChannelOf, smVars
<1>5. \A u \in Active \ {t} : Untouched(u)
  BY <1>1, <1>2, Apart DEF Untouched, resumeVars, smVars
<1>6. Owners' /\ OneAtATime'
  BY <1>2 DEF Known, OwnInv, Owners, OneAtATime, Works, Busy, Active, ChannelOf,
              smVars, resumeVars
<1>7. FreeInv'
  <2>1. c \notin Free
    BY <1>1 DEF Known, OwnInv, FreeInv
  <2> QED BY <1>2, <2>1 DEF Known, OwnInv, FreeInv, Free
<1>8. /\ Fresh(t)' <=> Fresh(t)
      /\ Begins(t)' <=> Begins(t)
      /\ Waits(t)' <=> Waits(t)
      /\ Resumed(t)' <=> Resumed(t)
      /\ HoldsPort(t)' <=> HoldsPort(t)
      /\ OnBus(t)' <=> OnBus(t)
  BY <1>2 DEF Fresh, Begins, Waits, Resumed, HoldsPort, OnBus, ChannelOf, resumeVars, smVars
<1>9. Placed(t)' /\ (Waits(t)' => Progress(t)')
  BY <1>1, <1>2, <1>4, <1>8 DEF Fits, Placed, Progress, Chan, resumeVars, smVars
<1>10. Shown(t)'
  BY <1>1, <1>2, <1>3, <1>4, <1>8 DEF Fits, Shown, smVars
<1>11. \A u \in Active : Fits(u)'
  BY <1>5, <1>9, <1>10, Frame, Apart DEF Known, OwnInv, Fits
<1> QED BY <1>4, <1>6, <1>7, <1>11 DEF OwnInv

-----------------------------------------------------------------------------
(* Requests                                                                 *)

LEMMA FindChannelOwn ==
    ASSUME Known, NEW t \in Transfers, FindChannel(t)
    PROVE  OwnInv'
<1>1. /\ UNCHANGED <<ChannelMask, ChannelCallbacks, ChTrDatas, ChTt, resumeVars, smVars,
                     run, spinning, hc>>
      /\ found[t] = None
      /\ \A u \in Transfers \ {t} : answers'[u] = answers[u] /\ found'[u] = found[u]
      /\ answers[t] > 0
  BY DEF FindChannel, chVars, cpuVars, hwVars, Known, Types
<1>2. \/ found'[t] \in Channels \ ChannelMask /\ answers'[t] = 0
      \/ found'[t] = None /\ answers'[t] = 1
  BY <1>1, FreeChannel DEF FindChannel, Known, Types
<1>3. t \notin Active /\ Active' = Active
  BY <1>1, <1>2, NoneApart DEF Active
<1>4. \A u \in Transfers : ChannelOf(u)' = ChannelOf(u)
  BY <1>1 DEF ChannelOf, smVars
<1>5. \A u \in Active : Untouched(u)
  BY <1>1, <1>3, Apart DEF Untouched, resumeVars, smVars
<1>6. Owners'
  <2>1. /\ \A u \in Transfers : answers'[u] <= 1
        /\ \A u \in Transfers : found'[u] # None =>
              answers'[u] = 0 /\ found'[u] \notin ChannelMask'
    BY <1>1, <1>2 DEF Known, OwnInv, Owners
  <2> QED BY <1>1, <1>3, <1>4, <2>1 DEF Known, OwnInv, Owners, Works, ChannelOf, smVars
<1>7. OneAtATime' /\ FreeInv'
  BY <1>1, <1>3 DEF Known, OwnInv, OneAtATime, FreeInv, Free, Works, Busy, ChannelOf,
                    smVars, resumeVars
<1>8. \A u \in Active : Fits(u)'
  BY <1>5, Frame, Apart DEF Known, OwnInv
<1> QED BY <1>3, <1>6, <1>7, <1>8 DEF OwnInv

LEMMA SubmitOwn ==
    ASSUME Known, NEW t \in Transfers, NEW l \in Nat, Submit(t, l)
    PROVE  OwnInv'
<1>1. PICK c \in Channels : c = found[t] /\ c \notin ChannelMask /\ c # None /\ answers[t] = 0
  BY DEF Submit, Known, Types, OwnInv, Owners
<1>2. t \notin Active /\ ~Busy(t)
  BY <1>1 DEF Active, Known, OwnInv, OneAtATime
<1>3. ChSmDpc[c] = None /\ c \notin ChResumeTimers /\ ChTt[c] = None /\ ChTrDatas[c] = None
      /\ hc[c] = "off"
  BY <1>1, Apart DEF Known, OwnInv, FreeInv, Free
<1>4. /\ UNCHANGED <<ChTrDatas, ChTt, ChResumeContexts, ChResumeTimers, StateMachine,
                     TrStateMachine, run, spinning, answers, hc>>
      /\ ChannelMask' = ChannelMask \union {c}
      /\ \A d \in Channels : /\ ChannelCallbacks'[d] = IF d = c THEN t ELSE ChannelCallbacks[d]
                             /\ ChSmDpc'[d] = IF d = c THEN t ELSE ChSmDpc[d]
      /\ \A u \in Transfers \ {t} :
            NextStateMachine'[u] = NextStateMachine[u] /\ found'[u] = found[u]
      /\ found'[t] = None
      /\ NextStateMachine'[t].State \in BeginStates /\ NextStateMachine'[t].Channel = c
  <2>1. NextStateMachine'[t] =
            [State |-> IF Kind[t] = "Control" THEN "ControlSetup" ELSE "InterruptOrBulkData",
             Channel |-> c, Length |-> l]
    BY <1>1 DEF Submit, Known, Types
  <2>2. NextStateMachine'[t].State \in BeginStates /\ NextStateMachine'[t].Channel = c
    BY <2>1 DEF BeginStates, ChStates, WaitStates
  <2> QED BY <1>1, <1>3, <2>2 DEF Submit, InvokeTrSm, cpuVars, hwVars, Known, Types
<1>5. Active' = Active \union {t}
  BY <1>1, <1>4 DEF Active
<1>6. ChannelOf(t)' = c /\ \A u \in Transfers \ {t} : ChannelOf(u)' = ChannelOf(u)
  BY <1>4 DEF ChannelOf
<1>7. \A u \in Active : ChannelOf(u) # c /\ u # t
  BY <1>1, <1>2 DEF Known, OwnInv, Owners
<1>8. \A u \in Active : Untouched(u)
  BY <1>4, <1>7, Apart DEF Untouched
<1>9. \A u \in Transfers : Busy(u)' <=> Busy(u)
  BY <1>4 DEF Busy
<1>10. Owners'
  <2>1. \A u \in Transfers : answers'[u] <= 1
    BY <1>4 DEF Known, OwnInv, Owners
  <2>2. \A u \in Transfers : found'[u] # None =>
            answers'[u] = 0 /\ found'[u] \notin ChannelMask'
    <3>1. \A u \in Transfers \ {t} : found[u] # c
      BY <1>1 DEF Known, RunsApart, FindsApart
    <3> QED BY <1>4, <3>1 DEF Known, OwnInv, Owners
  <2>3. ASSUME NEW d \in ChannelMask'
        PROVE  ChannelCallbacks'[d] # None /\ Works(d, ChannelCallbacks[d])'
    <3>1. CASE d = c
      BY <1>4, <1>5, <1>6, <3>1, NoneApart DEF Works
    <3>2. CASE d # c
      <4>1. PICK u \in Transfers : u = ChannelCallbacks[d] /\ u \in Active /\ ChannelOf(u) = d
                                   /\ u # None /\ d \in Channels
        BY <1>4, <2>3, <3>2, Apart DEF Known, Types, OwnInv, Owners, Works
      <4> QED BY <1>4, <1>5, <1>6, <1>7, <3>2, <4>1 DEF Works
    <3> QED BY <3>1, <3>2
  <2>4. ASSUME NEW u \in Active'
        PROVE  ChannelOf(u)' \in ChannelMask' /\ ChannelCallbacks'[ChannelOf(u)'] = u
    BY <1>4, <1>5, <1>6, <1>7, Apart DEF Known, OwnInv, Owners
  <2> QED BY <2>1, <2>2, <2>3, <2>4 DEF Owners
<1>11. OneAtATime'
  <2>1. ASSUME NEW d \in Channels, ChSmDpc'[d] # None
        PROVE  Works(d, ChSmDpc[d])' /\ ~Busy(ChSmDpc[d])' /\ d \notin ChResumeTimers'
    <3>1. CASE d = c
      BY <1>2, <1>3, <1>4, <1>5, <1>6, <1>9, <3>1 DEF Works
    <3>2. CASE d # c
      <4>1. PICK u \in Transfers : u = ChSmDpc[d] /\ u \in Active /\ ChannelOf(u) = d
                                   /\ ~Busy(u) /\ d \notin ChResumeTimers
        BY <1>4, <2>1, <3>2, Apart DEF Known, OwnInv, OneAtATime, Works
      <4> QED BY <1>4, <1>5, <1>6, <1>7, <1>9, <3>2, <4>1 DEF Works
    <3> QED BY <3>1, <3>2
  <2>2. ASSUME NEW d \in ChResumeTimers'
        PROVE  /\ ChResumeContexts'[d] # None
               /\ Works(d, ChResumeContexts[d])' /\ ~Busy(ChResumeContexts[d])'
    <3>1. PICK u \in Transfers : u = ChResumeContexts[d] /\ u \in Active /\ ChannelOf(u) = d
                                 /\ ~Busy(u) /\ u # None
      BY <1>4, <2>2, Apart DEF Known, OwnInv, OneAtATime, Works
    <3> QED BY <1>4, <1>5, <1>6, <1>7, <1>9, <3>1 DEF Works
  <2>3. /\ \A u \in Transfers : Busy(u)' => u \in Active'
        /\ \A u \in Transfers : run'[u] # "off" => u \notin spinning'
    BY <1>4, <1>5, <1>9 DEF Known, OwnInv, OneAtATime
  <2> QED BY <2>1, <2>2, <2>3 DEF OneAtATime
<1>12. Fresh(t)' /\ ~Waits(t)' /\ ~Begins(t)'
  BY <1>1, <1>4, <1>6, NoneApart DEF Fresh, Waits, Begins
<1>13. Fits(t)'
  <2>1. Placed(t)'
    BY <1>12 DEF Placed
  <2>2. Shown(t)'
    BY <1>3, <1>4, <1>6, <1>12, NoneApart DEF Shown, HoldsPort, OnBus
  <2> QED BY <1>12, <2>1, <2>2 DEF Fits
<1>14. \A u \in Active' : Fits(u)'
  BY <1>5, <1>8, <1>13, Frame, Apart DEF Known, OwnInv
<1>15. FreeInv'
  BY <1>4 DEF FreeInv, Free, Known, OwnInv
<1> QED BY <1>10, <1>11, <1>14, <1>15 DEF OwnInv

LEMMA AskOwn ==
    ASSUME Known, NEW t \in Transfers, Ask(t)
    PROVE  OwnInv'
<1>1. ASSUME NEW l \in Lengths[t], Submit(t, l) PROVE OwnInv'
  <2>1. l \in Nat
    BY TransferAssumption
  <2> QED BY <1>1, <2>1, SubmitOwn
<1>2. CASE Purge(t) \/ PurgeCompleteAndStart(t)
  BY <1>2, SameOwn DEF Purge, PurgeCompleteAndStart, chVars, cpuVars, hwVars, Known
<1> QED BY <1>1, <1>2, FindChannelOwn DEF Ask

-----------------------------------------------------------------------------
(* The invariant, and what it says                                          *)

LEMMA InitOwn == Init => OwnInv
<1> SUFFICES ASSUME Init PROVE OwnInv
  OBVIOUS
<1>1. Active = {}
  BY DEF Init, Active
<1>2. Owners
  BY <1>1 DEF Init, Owners
<1>3. OneAtATime
  BY DEF Init, OneAtATime, Busy
<1>4. FreeInv
  BY DEF Init, FreeInv, Free
<1> QED BY <1>1, <1>2, <1>3, <1>4 DEF OwnInv

LEMMA StepOwn == Known /\ [Next]_vars => OwnInv'
<1> SUFFICES ASSUME Known, [Next]_vars PROVE OwnInv'
  OBVIOUS
<1>1. ASSUME NEW t \in Transfers, Step(t) PROVE OwnInv'
  <2>1. ~RunIdle(t)
    BY BusyFacts DEF RunIdle, Busy
  <2> QED BY <1>1, <2>1, AcquireLockOwn, BeginStageOwn, AdvanceOwn, TrInitOwn, CheckFreePortOwn,
             ClaimPortOwn, TransferringOwn, EnableChannelOwn, TransferWaitingOwn, HaltedDoneOwn,
             HaltedNyetTimeoutOwn, HaltedNakOwn, HaltedFailureOwn, TrDoneOwn, ReviveOwn,
             ReviveAndWaitOwn DEF Step
<1>2. ASSUME NEW c \in Channels, RunSmDpc(c) \/ ResumeCh(c) PROVE OwnInv'
  BY <1>2, RunSmDpcOwn, ResumeChOwn
<1>3. ASSUME NEW c \in Channels, NEW o \in AllOutcomes, HwHalt(c, o) PROVE OwnInv'
  BY <1>3, HwHaltOwn
<1>4. CASE UNCHANGED vars
  BY <1>4, SameOwn DEF vars, chVars, requestVars, cpuVars, hwVars, Known
<1> QED BY <1>1, <1>2, <1>3, <1>4, Steps, AskOwn, ServeChannelOwn, InterruptOwn

LEMMA OwnInvariant == Spec /\ []RunsApart => []Known
<1>1. (Types /\ OwnInv) /\ RunsApart /\ [Next]_vars => (Types /\ OwnInv)'
  BY StepTypes, StepOwn DEF Known
<1>2. Known <=> Types /\ OwnInv /\ RunsApart
  BY DEF Known
<1> QED BY <1>1, <1>2, InitTypes, InitOwn, PTL DEF Spec

\* No two requests ever have the same channel, and a channel is taken exactly
\* while a request has it (UsbDevice.c:190-192, 215): whoever gives up a
\* channel is the one it was allocated to - where no run enters a window of
\* RunsApart, above all that of two callbacks that find one channel.
THEOREM ChannelsAreAccounted == Spec /\ []RunsApart => []ChannelsAccounted
<1>1. Known => ChannelsAccounted
  <2> SUFFICES ASSUME Known PROVE ChannelsAccounted
    OBVIOUS
  <2>1. ChannelMask = {ChannelOf(t) : t \in Active}
    BY DEF Known, OwnInv, Owners, Works
  <2> QED BY <2>1, Apart DEF ChannelsAccounted
<1> QED BY <1>1, OwnInvariant, PTL

\* A request is completed once (UsbDevice.c:368, 464, 524, 1129, 1151): nothing
\* that could run its transfer again is left when it is over - where no transfer is
\* revived that is about to run, and no halt is served that another run took
\* (RunsApart; UsbDevice.c:2067, Device.c:1578 are how the code violates it).
THEOREM RequestsCompleteOnce == Spec /\ []RunsApart => []CompletedOnce
<1>1. Known => CompletedOnce
  BY DEF Known, OwnInv, Owners, CompletedOnce
<1> QED BY <1>1, OwnInvariant, PTL

\* A claim of a translator port is that of a request under way that uses it: no
\* retry, failure or end of a request leaves one behind (UsbDevice.c:545, 1123,
\* 1145), where no run enters a window of RunsApart.
THEOREM ClaimsBelong == Spec /\ []RunsApart => []ClaimsAreLive
<1>1. ASSUME Known, NEW c \in Channels, ChTt[c] # None
      PROVE  \E t \in Active : /\ ChannelOf(t) = c /\ TtPort[t] = ChTt[c]
                               /\ TrStateMachine[t].State \notin {"Init", "CheckFreePort"}
  <2>1. c \in ChannelMask
    BY <1>1 DEF Known, OwnInv, FreeInv, Free
  <2>2. PICK t \in Active : ChannelOf(t) = c
    BY <1>1, <2>1 DEF Known, OwnInv, Owners, Works
  <2>3. Shown(t)
    BY <1>1 DEF Known, OwnInv, Fits
  <2> QED BY <1>1, <2>2, <2>3 DEF Shown, HoldsPort
<1>2. Known => ClaimsAreLive
  BY <1>1 DEF ClaimsAreLive
<1> QED BY <1>2, OwnInvariant, PTL

\* Whoever gets a channel finds no claim, no transfer that a revival would pick
\* up and no transaction of the one who had it (UsbDevice.c:1123-1126, 1172),
\* where no run enters a window of RunsApart.
THEOREM FreeChannelsStayClean == Spec /\ []RunsApart => []FreeChannelsAreClean
<1>1. Known => FreeChannelsAreClean
  BY DEF Known, OwnInv, FreeInv, FreeChannelsAreClean
<1> QED BY <1>1, OwnInvariant, PTL

-----------------------------------------------------------------------------
(* Interrupts: haintmsk is read and written in two steps, the interrupt     *)
(* routine writes it in between, and masks exactly what has halted.         *)

\* The halt of a channel is seen by an interrupt under this mask, or is served.
Noticed(c, m) ==
    c \in m \/ interruptDpc \/ c \in toServe \/ run[ChannelCallbacks[c]] # "off"

\* What a run has read of haintmsk is what it may write back.
MaskInv ==
    /\ \A c \in Channels : hc[c] = "on" => c \in haintmsk
    /\ \A t \in Transfers : run[t] = "unmask" =>
         \A c \in Channels : /\ hc[c] = "on" => c \in mask[t]
                             /\ hc[c] \in Halts => Noticed(c, mask[t])
    /\ \A c \in Channels : hc[c] \in Halts => Noticed(c, haintmsk)

\* A run that neither reads nor writes haintmsk may halt its channel, and does
\* not end with a halt it has not looked at.
LEMMA MaskKeep ==
    ASSUME Known, MaskInv, NEW t \in Transfers, Runs(t), run'[t] # "unmask",
           UNCHANGED <<haintmsk, ChannelCallbacks>>,
           \A u \in Transfers \ {t} : mask'[u] = mask[u],
           \A c \in Channels \ {ChannelOf(t)} : hc'[c] = hc[c],
           hc'[ChannelOf(t)] \in {hc[ChannelOf(t)], "off"},
           run'[t] = "off" => hc'[ChannelOf(t)] \notin Halts
    PROVE  MaskInv'
<1>1. ChannelOf(t) \in Channels /\ \A u \in Transfers \ {t} : run'[u] = run[u]
  BY BusyFacts DEF Runs, Busy
<1>2. \A c \in Channels : hc'[c] = hc[c] \/ hc'[c] = "off"
  BY <1>1
<1>3. ASSUME NEW c \in Channels, hc'[c] \in Halts, NEW m, Noticed(c, m)
      PROVE  Noticed(c, m)'
  <2>1. hc[c] \in Halts /\ hc[c] # "off"
    BY <1>2, <1>3 DEF Halts, AllOutcomes
  <2>2. PICK u \in Transfers : u = ChannelCallbacks[c] /\ ChannelOf(u) = c
    BY <2>1, OnChannel, Apart
  <2>3. \/ c \in m \/ interruptDpc \/ c \in toServe \/ run[u] # "off"
    BY <1>3, <2>2 DEF Noticed
  <2>4. run[u] # "off" => run'[u] # "off"
    BY <1>1, <1>3, <2>2
  <2> QED BY <2>2, <2>3, <2>4 DEF Runs, Noticed
<1> QED BY <1>1, <1>2, <1>3 DEF MaskInv, Halts, AllOutcomes

LEMMA OffBus ==
    ASSUME Known, NEW t \in Transfers, run[t] # "off", StateMachine[t].State \in WaitStates,
           TrStateMachine[t].State \notin {"TransferWaiting", "TransferHalted"}
    PROVE  hc[ChannelOf(t)] = "off"
BY AtFacts DEF Shown, OnBus

LEMMA StageMask ==
    ASSUME Known, MaskInv, NEW t \in Transfers,
           \/ BeginStage(t) \/ Advance(t) \/ TrInit(t) \/ CheckFreePort(t) \/ ClaimPort(t)
           \/ TransferWaiting(t) \/ Revive(t) \/ ReviveAndWait(t)
    PROVE  MaskInv'
<1>1. Runs(t) /\ run[t] # "off"
  <2>1. ~AcquireLock(t)
    BY DEF BeginStage, Advance, TrInit, CheckFreePort, ClaimPort, TransferWaiting, Revive,
           ReviveAndWait, At, AcquireLock
  <2>2. Runs(t)
    BY <2>1, StepRuns DEF Step, Known
  <2> QED BY <2>2 DEF Runs
<1>2. UNCHANGED <<haintmsk, ChannelCallbacks, hc, mask>> /\ run'[t] # "unmask"
  BY <1>1 DEF BeginStage, Advance, TrInit, CheckFreePort, ClaimPort, TransferWaiting, Revive,
              ReviveAndWait, Return, Continue, At, chVars, hwVars, cpuVars, Known, Types
<1>3. run'[t] = "off" => hc[ChannelOf(t)] \notin Halts
  <2>1. CASE BeginStage(t) \/ TrInit(t) \/ ClaimPort(t) \/ Revive(t)
    BY <1>1, <2>1 DEF BeginStage, TrInit, ClaimPort, Revive, Continue, At, cpuVars, Known, Types
  <2>2. CASE Advance(t) \/ ReviveAndWait(t)
    <3>1. StateMachine[t].State \in WaitStates /\ run[t] \in {"advance", "reviveAndWait"}
      BY <2>2, MidFacts DEF Advance, ReviveAndWait
    <3>2. TrStateMachine[t].State \in {"Done", "Init"}
      BY <1>1, <3>1, AtFacts DEF Progress
    <3> QED BY <1>1, <3>1, <3>2, OffBus DEF Halts, AllOutcomes
  <2>3. CASE CheckFreePort(t)
    BY <1>1, <2>3, OffBus DEF CheckFreePort, At, Halts, AllOutcomes
  <2>4. CASE TransferWaiting(t)
    BY <1>1, <2>4, AtFacts DEF TransferWaiting, At
  <2> QED BY <2>1, <2>2, <2>3, <2>4
<1> QED BY <1>1, <1>2, <1>3, MaskKeep

LEMMA HaltMask ==
    ASSUME Known, MaskInv, NEW t \in Transfers,
           \/ HaltedDone(t) \/ HaltedNyetTimeout(t) \/ HaltedNak(t) \/ HaltedFailure(t)
           \/ TrDone(t)
    PROVE  MaskInv'
<1>1. run[t] = "on" /\ StateMachine[t].State \in WaitStates
  BY DEF HaltedDone, HaltedNyetTimeout, HaltedNak, HaltedFailure, HaltedWith, TrDone, At
<1>2. Runs(t)
  <2>1. ~AcquireLock(t)
    BY <1>1 DEF AcquireLock
  <2> QED BY <2>1, StepRuns DEF Step, Known
<1>3. Chan(t) = ChannelOf(t) /\ ChannelOf(t) \in Channels
  BY <1>1, AtFacts
<1>4. /\ UNCHANGED <<haintmsk, ChannelCallbacks, mask>> /\ hc' = [hc EXCEPT ![Chan(t)] = "off"]
      /\ run'[t] # "unmask"
  BY <1>1 DEF HaltedDone, HaltedNyetTimeout, HaltedNak, HaltedFailure, HaltedWith, TrDone,
              Return, Continue, chVars, cpuVars, Known, Types
<1> QED BY <1>2, <1>3, <1>4, MaskKeep DEF Known, Types, Halts, AllOutcomes

LEMMA TransferringMask ==
    ASSUME Known, MasksApart', MaskInv, NEW t \in Transfers, Transferring(t)
    PROVE  MaskInv'
<1>1. /\ run[t] = "on" /\ StateMachine[t].State \in WaitStates
      /\ TrStateMachine[t].State = "Transferring"
  BY DEF Transferring, At
<1>2. Chan(t) = ChannelOf(t) /\ ChannelOf(t) \in Channels /\ hc[ChannelOf(t)] = "off"
  BY <1>1, AtFacts, OffBus
<1>3. /\ hc' = hc /\ mask'[t] = haintmsk /\ run'[t] = "unmask"
      /\ \A u \in Transfers \ {t} : run'[u] = run[u]
      /\ UNCHANGED <<haintmsk, interruptDpc, toServe, ChannelCallbacks>>
  BY <1>2 DEF Transferring, Continue, chVars, cpuVars, Known, Types
<1>4. \A u \in Transfers : run'[u] = "unmask" => u = t
  BY <1>3 DEF MasksApart
<1>5. ASSUME NEW c \in Channels, hc[c] \in Halts
      PROVE  Noticed(c, haintmsk)'
  <2>1. PICK u \in Transfers : u = ChannelCallbacks[c]
    BY <1>5, OnChannel, Apart DEF Halts, AllOutcomes
  <2>2. run[u] # "off" => run'[u] # "off"
    BY <1>3
  <2> QED BY <1>3, <1>5, <2>1, <2>2 DEF MaskInv, Noticed
<1>6. \A c \in Channels : hc[c] \in Halts => Noticed(c, mask[t])'
  BY <1>3, <1>5 DEF Noticed
<1> QED BY <1>3, <1>4, <1>5, <1>6 DEF MaskInv

LEMMA EnableChannelMask ==
    ASSUME Known, MasksApart, MaskInv, NEW t \in Transfers, EnableChannel(t)
    PROVE  MaskInv'
<1>1. run[t] = "unmask" /\ StateMachine[t].State \in WaitStates
  BY MidFacts DEF EnableChannel
<1>2. Chan(t) = ChannelOf(t) /\ ChannelOf(t) \in Channels
  BY <1>1, AtFacts
<1>3. /\ \A c \in Channels : hc'[c] = IF c = ChannelOf(t) THEN "on" ELSE hc[c]
      /\ haintmsk' = mask[t] \union {ChannelOf(t)} /\ run'[t] = "on"
      /\ \A u \in Transfers \ {t} : run'[u] = run[u]
      /\ UNCHANGED <<interruptDpc, toServe, ChannelCallbacks>>
  BY <1>2 DEF EnableChannel, Unmasked, Continue, chVars, cpuVars, Known, Types
<1>4. \A u \in Transfers : run'[u] # "unmask"
  BY <1>1, <1>3 DEF MasksApart
<1>5. ASSUME NEW c \in Channels, hc'[c] \in Halts
      PROVE  Noticed(c, haintmsk)'
  <2>1. hc[c] \in Halts
    BY <1>3, <1>5 DEF Halts, AllOutcomes
  <2>2. PICK u \in Transfers : u = ChannelCallbacks[c]
    BY <2>1, OnChannel, Apart DEF Halts, AllOutcomes
  <2>3. run[u] # "off" => run'[u] # "off"
    BY <1>3
  <2> QED BY <1>1, <1>3, <2>1, <2>2, <2>3 DEF MaskInv, Noticed
<1> QED BY <1>1, <1>3, <1>4, <1>5 DEF MaskInv

LEMMA InterruptMask ==
    ASSUME Known, MaskInv, OnInterruptIsr \/ OnInterruptDpc \/ ServeChannel
    PROVE  MaskInv'
<1>1. CASE OnInterruptIsr
  <2>1. interruptDpc' /\ UNCHANGED <<hc, run, mask>>
        /\ \A c \in Channels : hc[c] = "on" => c \in haintmsk'
    BY <1>1 DEF OnInterruptIsr, MaskAfterIsr, Halted, Halts, AllOutcomes
  <2> QED BY <2>1 DEF MaskInv, Noticed
<1>2. CASE OnInterruptDpc
  <2>1. toServe' = Halted /\ UNCHANGED <<hc, run, mask, haintmsk>>
    BY <1>2 DEF OnInterruptDpc, hwVars
  <2> QED BY <2>1 DEF MaskInv, Noticed, Halted
<1>3. CASE ServeChannel
  <2>1. PICK c \in Channels : c = Least(toServe) /\ c \in toServe /\ hc[c] # "off"
    <3>1. Least(toServe) \in toServe
      BY <1>3, LeastOf, TransferAssumption DEF ServeChannel, Known, Types
    <3> QED BY <3>1 DEF Known, Types, RunsApart, ServedOnce, Halts, AllOutcomes
  <2>2. PICK t \in Transfers : t = ChannelCallbacks[c] /\ t # None
    BY <2>1, OnChannel, Apart, NoneApart
  <2>3. /\ run'[t] = "on" /\ (\A u \in Transfers \ {t} : run'[u] = run[u])
        /\ toServe' = toServe \ {c}
        /\ UNCHANGED <<hc, haintmsk, mask, interruptDpc, ChannelCallbacks>>
    BY <1>3, <2>1, <2>2 DEF ServeChannel, chVars, hwVars, Known, Types
  <2>4. ASSUME NEW d \in Channels, hc[d] \in Halts, NEW m, Noticed(d, m)
        PROVE  Noticed(d, m)'
    <3>1. PICK u \in Transfers : u = ChannelCallbacks[d]
      BY <2>4, OnChannel, Apart DEF Halts, AllOutcomes
    <3>2. run[u] # "off" => run'[u] # "off"
      BY <2>3
    <3> QED BY <2>2, <2>3, <2>4, <3>1, <3>2 DEF Noticed
  <2> QED BY <2>3, <2>4 DEF MaskInv
<1> QED BY <1>1, <1>2, <1>3

LEMMA SubmitMask ==
    ASSUME Known, MaskInv, NEW t \in Transfers, NEW l, Submit(t, l)
    PROVE  MaskInv'
<1>1. /\ UNCHANGED <<hc, haintmsk, mask, run, interruptDpc, toServe>>
      /\ ChannelCallbacks' = [ChannelCallbacks EXCEPT ![found[t]] = t]
      /\ found[t] \in Channels \ ChannelMask
  BY DEF Submit, cpuVars, hwVars, Known, Types, OwnInv, Owners
<1>2. hc[found[t]] = "off"
  BY <1>1 DEF Known, OwnInv, FreeInv, Free
<1>3. \A c \in Channels : hc[c] \in Halts => ChannelCallbacks'[c] = ChannelCallbacks[c]
  BY <1>1, <1>2 DEF Known, Types, Halts, AllOutcomes
<1> QED BY <1>1, <1>3 DEF MaskInv, Noticed

LEMMA StepMask ==
    ASSUME Known, MasksApart, MasksApart', MaskInv, [Next]_vars
    PROVE  MaskInv'
<1>1. ASSUME UNCHANGED <<hc, haintmsk, mask, run, interruptDpc, toServe, ChannelCallbacks>>
      PROVE  MaskInv'
  BY <1>1 DEF MaskInv, Noticed
<1>2. ASSUME NEW t \in Transfers, AcquireLock(t) PROVE MaskInv'
  <2>1. /\ run[t] = "off" /\ run'[t] = "on" /\ \A u \in Transfers \ {t} : run'[u] = run[u]
        /\ UNCHANGED <<hc, haintmsk, mask, interruptDpc, toServe, ChannelCallbacks>>
    BY <1>2 DEF AcquireLock, chVars, hwVars, Known, Types
  <2>2. ASSUME NEW c \in Channels, hc[c] \in Halts, NEW m, Noticed(c, m)
        PROVE  Noticed(c, m)'
    <3>1. PICK u \in Transfers : u = ChannelCallbacks[c]
      BY <2>2, OnChannel, Apart DEF Halts, AllOutcomes
    <3>2. run[u] # "off" => run'[u] # "off"
      BY <2>1
    <3> QED BY <2>1, <2>2, <3>1, <3>2 DEF Noticed
  <2> QED BY <2>1, <2>2 DEF MaskInv
<1>3. ASSUME NEW t \in Transfers, Step(t) PROVE MaskInv'
  <2>1. ~RunIdle(t)
    BY BusyFacts DEF RunIdle, Busy
  <2> QED BY <1>2, <1>3, <2>1, StageMask, HaltMask, TransferringMask, EnableChannelMask DEF Step
<1>4. ASSUME NEW t \in Transfers, Ask(t) PROVE MaskInv'
  <2>1. CASE FindChannel(t) \/ Purge(t) \/ PurgeCompleteAndStart(t)
    BY <1>1, <2>1 DEF FindChannel, Purge, PurgeCompleteAndStart, chVars, cpuVars, hwVars
  <2> QED BY <1>4, <2>1, SubmitMask DEF Ask
<1>5. ASSUME NEW c \in Channels, RunSmDpc(c) \/ ResumeCh(c) PROVE MaskInv'
  BY <1>1, <1>5 DEF RunSmDpc, ResumeCh, chVars, cpuVars, hwVars
<1>6. ASSUME NEW c \in Channels, NEW o \in AllOutcomes, HwHalt(c, o) PROVE MaskInv'
  <2>1. /\ hc[c] = "on" /\ \A d \in Channels : hc'[d] = IF d = c THEN o ELSE hc[d]
        /\ UNCHANGED <<haintmsk, mask, run, interruptDpc, toServe, ChannelCallbacks>>
        /\ o # "on"
    BY <1>6 DEF HwHalt, chVars, cpuVars, AllOutcomes, Known, Types
  <2> QED BY <2>1 DEF MaskInv, Noticed
<1>7. CASE UNCHANGED vars
  BY <1>1, <1>7 DEF vars, chVars, cpuVars, hwVars
<1> QED BY <1>3, <1>4, <1>5, <1>6, <1>7, Steps, InterruptMask

\* The interrupt of a channel that halts is not lost, whichever channels are
\* set up meanwhile and whenever the interrupt routine writes haintmsk, unless
\* two runs have both read it to write it back, MasksApart, or a run enters a
\* window of RunsApart (UsbDevice.c:848, Device.c:1537).
THEOREM HaltsAreNoticed == Spec /\ []RunsApart /\ []MasksApart => []HaltIsNoticed
<1>1. Init => MaskInv
  BY DEF Init, MaskInv, Halts, AllOutcomes
<1>2. Known /\ MasksApart /\ MasksApart' /\ MaskInv /\ [Next]_vars => MaskInv'
  BY StepMask
<1>3. MaskInv => HaltIsNoticed
  BY DEF MaskInv, Noticed, HaltIsNoticed, Halted
<1> QED BY <1>1, <1>2, <1>3, OwnInvariant, PTL DEF Spec

-----------------------------------------------------------------------------
(* Data: what has moved and what is transferred next                        *)

\* A step of t that leaves the data alone, and its channel as it is, off or on.
KeepsData(t) ==
    /\ UNCHANGED <<moved, ChannelCallbacks>>
    /\ \A u \in Transfers \ {t} : TrStateMachine'[u] = TrStateMachine[u]
    /\ TrStateMachine'[t].Buffer = TrStateMachine[t].Buffer
    /\ TrStateMachine'[t].Length = TrStateMachine[t].Length
    /\ TrStateMachine'[t].Done = TrStateMachine[t].Done
    /\ TrStateMachine'[t].CompleteSplit = TrStateMachine[t].CompleteSplit
    /\ \A c \in Channels \ {ChannelOf(t)} : hc'[c] = hc[c]

\* The steps of a run that leave the data alone.
StillSteps(t) ==
    \/ Advance(t) \/ CheckFreePort(t) \/ ClaimPort(t) \/ Transferring(t) \/ EnableChannel(t)
    \/ TransferWaiting(t) \/ HaltedNyetTimeout(t) \/ HaltedFailure(t) \/ TrDone(t)
    \/ Revive(t) \/ ReviveAndWait(t)

LEMMA StillKeeps ==
    ASSUME Known, NEW t \in Transfers, StillSteps(t)
    PROVE  /\ t \in Active /\ StateMachine[t].State \in WaitStates /\ run[t] # "off"
           /\ KeepsData(t)
           /\ hc'[ChannelOf(t)] \in {hc[ChannelOf(t)], "off", "on"}
<1>1. run[t] # "off" /\ StateMachine[t].State \in WaitStates
  BY MidFacts DEF StillSteps, Advance, CheckFreePort, ClaimPort, Transferring, EnableChannel,
                  TransferWaiting, HaltedNyetTimeout, HaltedFailure, HaltedWith, TrDone, Revive,
                  ReviveAndWait, At
<1>2. t \in Active /\ ChannelOf(t) \in Channels /\ Chan(t) = ChannelOf(t)
      /\ TrStateMachine[t] \in TrSm
  BY <1>1, AtFacts
<1>3. UNCHANGED <<moved, ChannelCallbacks>>
  BY DEF StillSteps, Advance, CheckFreePort, ClaimPort, Transferring, EnableChannel,
         TransferWaiting, HaltedNyetTimeout, HaltedFailure, HaltedWith, TrDone, Revive,
         ReviveAndWait, chVars, hwVars
<1>4. \/ TrStateMachine' = TrStateMachine
      \/ \E s : TrStateMachine' = [TrStateMachine EXCEPT ![t].State = s]
  BY DEF StillSteps, Advance, CheckFreePort, ClaimPort, Transferring, EnableChannel,
         TransferWaiting, HaltedNyetTimeout, HaltedFailure, TrDone, Revive, ReviveAndWait, smVars
<1>5. hc' = hc \/ \E h \in {"off", "on"} : hc' = [hc EXCEPT ![ChannelOf(t)] = h]
  BY <1>2 DEF StillSteps, Advance, CheckFreePort, ClaimPort, Transferring, EnableChannel,
         TransferWaiting, HaltedNyetTimeout, HaltedFailure, HaltedWith, TrDone, Revive,
         ReviveAndWait, hwVars
<1>6. /\ \A u \in Transfers \ {t} : TrStateMachine'[u] = TrStateMachine[u]
      /\ TrStateMachine'[t].Buffer = TrStateMachine[t].Buffer
      /\ TrStateMachine'[t].Length = TrStateMachine[t].Length
      /\ TrStateMachine'[t].Done = TrStateMachine[t].Done
      /\ TrStateMachine'[t].CompleteSplit = TrStateMachine[t].CompleteSplit
  BY <1>2, <1>4 DEF Known, Types, TrSm
<1>7. /\ \A c \in Channels \ {ChannelOf(t)} : hc'[c] = hc[c]
      /\ hc'[ChannelOf(t)] \in {hc[ChannelOf(t)], "off", "on"}
  BY <1>2, <1>5 DEF Known, Types
<1> QED BY <1>1, <1>2, <1>3, <1>6, <1>7 DEF KeepsData

\* What the other steps make of it.
LEMMA BeginStageData ==
    ASSUME Known, NEW t \in Transfers, BeginStage(t)
    PROVE  /\ t \in Active /\ ~Waits(t) /\ StateMachine[t].State \in BeginStates
           /\ hc[ChannelOf(t)] = "off" /\ hc' = hc
           /\ ChannelCallbacks' = ChannelCallbacks
           /\ \A u \in Transfers \ {t} :
                 TrStateMachine'[u] = TrStateMachine[u] /\ moved'[u] = moved[u]
           /\ TrStateMachine'[t].State = "Init" /\ TrStateMachine'[t].Buffer = 0
           /\ TrStateMachine'[t].Length = StageLength(t) /\ StageLength(t) \in Nat
           /\ TrStateMachine'[t].Done = 0
           /\ TrStateMachine'[t].CompleteSplit = TrStateMachine[t].CompleteSplit
           /\ moved' = [moved EXCEPT ![t] = 0]
<1>1. StateMachine[t].State \in BeginStates
  BY DEF BeginStage, BeginStates
<1>2. t \in Active /\ ~Fresh(t) /\ Fits(t)
  BY BusyFacts DEF BeginStage, Busy
<1>3. ~Waits(t)
  BY <1>1, StateFacts DEF Waits
<1>4. hc[ChannelOf(t)] = "off"
  BY <1>2, <1>3 DEF Fits, Shown, OnBus
<1>5. TrStateMachine[t] \in TrSm /\ StageLength(t) \in Nat
  BY StageTypes DEF Known, Types
<1>6. TrStateMachine' = [TrStateMachine EXCEPT ![t] =
            [@ EXCEPT !.State = "Init", !.Buffer = 0, !.Length = StageLength(t),
                      !.Done = 0, !.Channel = StateMachine[t].Channel]]
  BY DEF BeginStage
<1>7. /\ \A u \in Transfers \ {t} : TrStateMachine'[u] = TrStateMachine[u]
      /\ TrStateMachine'[t].State = "Init" /\ TrStateMachine'[t].Buffer = 0
      /\ TrStateMachine'[t].Length = StageLength(t) /\ TrStateMachine'[t].Done = 0
      /\ TrStateMachine'[t].CompleteSplit = TrStateMachine[t].CompleteSplit
  BY <1>5, <1>6 DEF Known, Types, TrSm
<1>8. UNCHANGED <<hc, ChannelCallbacks>> /\ moved' = [moved EXCEPT ![t] = 0]
  BY DEF BeginStage, chVars
<1>9. \A u \in Transfers \ {t} : moved'[u] = moved[u]
  BY <1>8
<1> QED BY <1>1, <1>2, <1>3, <1>4, <1>5, <1>7, <1>8, <1>9

LEMMA TrInitData ==
    ASSUME Known, NEW t \in Transfers, TrInit(t)
    PROVE  /\ t \in Active /\ Waits(t) /\ TrStateMachine[t].State = "Init"
           /\ hc[ChannelOf(t)] = "off" /\ UNCHANGED <<hc, moved, ChannelCallbacks>>
           /\ \A u \in Transfers \ {t} : TrStateMachine'[u] = TrStateMachine[u]
           /\ TrStateMachine'[t].State = IF Split(t) THEN "CheckFreePort" ELSE "Transferring"
           /\ TrStateMachine'[t].Buffer = TrStateMachine[t].Buffer
           /\ TrStateMachine'[t].Length = TrStateMachine[t].Length
           /\ TrStateMachine'[t].Done = 0
           /\ TrStateMachine'[t].CompleteSplit = FALSE
<1>1. run[t] = "on" /\ StateMachine[t].State \in WaitStates /\ TrStateMachine[t].State = "Init"
  BY DEF TrInit, At
<1>2. t \in Active /\ Waits(t) /\ TrStateMachine[t] \in TrSm /\ hc[ChannelOf(t)] = "off"
  BY <1>1, AtFacts, OffBus
<1>3. UNCHANGED <<hc, moved, ChannelCallbacks>>
  BY DEF TrInit, hwVars
<1>4. TrStateMachine' = [TrStateMachine EXCEPT ![t] =
            [@ EXCEPT !.State = IF Split(t) THEN "CheckFreePort" ELSE "Transferring",
                      !.Done = 0, !.CompleteSplit = FALSE]]
  BY DEF TrInit
<1> QED BY <1>1, <1>2, <1>3, <1>4 DEF Known, Types, TrSm

LEMMA HaltedDoneData ==
    ASSUME Known, NEW t \in Transfers, NEW o, o = hc[ChannelOf(t)], HaltedDone(t)
    PROVE  /\ t \in Active /\ Waits(t) /\ TrStateMachine[t].State = "TransferHalted"
           /\ o \in {"xfercomp", "short", "ack", "nyet"} /\ UNCHANGED <<moved, ChannelCallbacks>>
           /\ \A c \in Channels : hc'[c] = IF c = ChannelOf(t) THEN "off" ELSE hc[c]
           /\ \A u \in Transfers \ {t} : TrStateMachine'[u] = TrStateMachine[u]
           /\ TrStateMachine'[t].State =
                 IF /\ o \notin {"ack", "nyet"}
                    /\ \/ Packets(t, o) < XferLen(t)
                       \/ TrStateMachine[t].Done + Packets(t, o) >= TrStateMachine[t].Length
                 THEN "Done" ELSE "Transferring"
           /\ TrStateMachine'[t].Buffer = TrStateMachine[t].Buffer
           /\ TrStateMachine'[t].Length = TrStateMachine[t].Length
           /\ TrStateMachine'[t].Done = TrStateMachine[t].Done + Packets(t, o)
           /\ TrStateMachine'[t].CompleteSplit = (o \in {"ack", "nyet"})
<1>1. /\ run[t] = "on" /\ StateMachine[t].State \in WaitStates
      /\ TrStateMachine[t].State = "TransferHalted"
  BY DEF HaltedDone, HaltedWith, At
<1>2. /\ t \in Active /\ Waits(t) /\ TrStateMachine[t] \in TrSm
      /\ Chan(t) = ChannelOf(t) /\ ChannelOf(t) \in Channels
  BY <1>1, AtFacts
<1>3. /\ o \in {"xfercomp", "short", "ack", "nyet"} /\ UNCHANGED <<moved, ChannelCallbacks>>
      /\ \A c \in Channels : hc'[c] = IF c = ChannelOf(t) THEN "off" ELSE hc[c]
  BY <1>2 DEF HaltedDone, HaltedWith, chVars, Known, Types
<1> DEFINE done == TrStateMachine[t].Done + Packets(t, o)
           complete == o \in {"ack", "nyet"}
           s == IF ~complete /\ (\/ Packets(t, o) < XferLen(t)
                                \/ done >= TrStateMachine[t].Length)
                THEN "Done" ELSE "Transferring"
<1>4. TrStateMachine' = [TrStateMachine EXCEPT ![t] =
            [@ EXCEPT !.Done = done, !.CompleteSplit = complete, !.State = s]]
  BY <1>2 DEF HaltedDone
<1>5. /\ \A u \in Transfers \ {t} : TrStateMachine'[u] = TrStateMachine[u]
      /\ TrStateMachine'[t].State = s
      /\ TrStateMachine'[t].Buffer = TrStateMachine[t].Buffer
      /\ TrStateMachine'[t].Length = TrStateMachine[t].Length
      /\ TrStateMachine'[t].Done = done
      /\ TrStateMachine'[t].CompleteSplit = complete
  <2> HIDE DEF done, complete, s
  <2> QED BY <1>2, <1>4 DEF Known, Types, TrSm
<1> QED BY <1>1, <1>2, <1>3, <1>5

LEMMA HaltedNakData ==
    ASSUME Known, NEW t \in Transfers, HaltedNak(t)
    PROVE  /\ t \in Active /\ Waits(t) /\ TrStateMachine[t].State = "TransferHalted"
           /\ hc[ChannelOf(t)] = "nak" /\ UNCHANGED <<moved, ChannelCallbacks>>
           /\ \A c \in Channels : hc'[c] = IF c = ChannelOf(t) THEN "off" ELSE hc[c]
           /\ \A u \in Transfers \ {t} : TrStateMachine'[u] = TrStateMachine[u]
           /\ TrStateMachine'[t].State = "Init" /\ TrStateMachine'[t].CompleteSplit = FALSE
           /\ IF Kind[t] = "Control"
              THEN /\ TrStateMachine'[t].Buffer = TrStateMachine[t].Buffer + TrStateMachine[t].Done
                   /\ TrStateMachine'[t].Length = TrStateMachine[t].Length - TrStateMachine[t].Done
                   /\ TrStateMachine'[t].Done = 0
              ELSE /\ TrStateMachine'[t].Buffer = TrStateMachine[t].Buffer
                   /\ TrStateMachine'[t].Length = TrStateMachine[t].Length
                   /\ TrStateMachine'[t].Done = TrStateMachine[t].Done
<1>1. /\ run[t] = "on" /\ StateMachine[t].State \in WaitStates
      /\ TrStateMachine[t].State = "TransferHalted"
  BY DEF HaltedNak, HaltedWith, At
<1>2. /\ t \in Active /\ Waits(t) /\ TrStateMachine[t] \in TrSm
      /\ Chan(t) = ChannelOf(t) /\ ChannelOf(t) \in Channels
  BY <1>1, AtFacts
<1>3. /\ hc[ChannelOf(t)] = "nak" /\ UNCHANGED <<moved, ChannelCallbacks>>
      /\ \A c \in Channels : hc'[c] = IF c = ChannelOf(t) THEN "off" ELSE hc[c]
  BY <1>2 DEF HaltedNak, HaltedWith, Known, Types
<1>4. TrStateMachine' = [TrStateMachine EXCEPT ![t] = AfterNak(t)]
  BY DEF HaltedNak
<1>5. TrStateMachine'[t] = AfterNak(t)
      /\ \A u \in Transfers \ {t} : TrStateMachine'[u] = TrStateMachine[u]
  BY <1>4 DEF Known, Types
<1>6. /\ AfterNak(t).State = "Init" /\ AfterNak(t).CompleteSplit = FALSE
      /\ IF Kind[t] = "Control"
         THEN /\ AfterNak(t).Buffer = TrStateMachine[t].Buffer + TrStateMachine[t].Done
              /\ AfterNak(t).Length = TrStateMachine[t].Length - TrStateMachine[t].Done
              /\ AfterNak(t).Done = 0
         ELSE /\ AfterNak(t).Buffer = TrStateMachine[t].Buffer
              /\ AfterNak(t).Length = TrStateMachine[t].Length
              /\ AfterNak(t).Done = TrStateMachine[t].Done
  BY <1>2 DEF AfterNak, TrSm
<1> QED BY <1>1, <1>2, <1>3, <1>5, <1>6

\* The transfers whose retries lose nothing: those of control endpoints, as long
\* as no complete split times out.
Keeps(t) == Kind[t] = "Control" /\ "nyet" \notin Outcomes

\* The next packet is not beyond what the device has moved, where nothing is to
\* be repeated it is the next.
Exact(t) ==
    LET at == TrStateMachine[t].Buffer + TrStateMachine[t].Done
              + Packets(t, hc[ChannelOf(t)])
    IN  /\ at <= moved[t]
        /\ Keeps(t) =>
             /\ at = moved[t]
             /\ TrStateMachine[t].State \in {"Init", "CheckFreePort"} =>
                  TrStateMachine[t].Done = 0

\* A transfer without a request, or whose DPC has yet to begin it, is idle.
Idles(t) == t \notin Active \/ Fresh(t) => StateMachine[t].State = "Idle"
InPlace(t) == Idles(t) /\ (t \in Active /\ Waits(t) => Exact(t))
PlaceInv == \A t \in Transfers : InPlace(t)

\* No channel halts with nyet unless devices answer so.
Nyets == \A c \in Channels : hc[c] = "nyet" => "nyet" \in Outcomes

LEMMA PlaceKeep ==
    ASSUME Known, PlaceInv, NEW t \in Transfers, NEW c \in Channels,
           \A u \in Active \ {t} : ChannelOf(u) # c,
           \A u \in Transfers \ {t} :
              /\ answers'[u] = answers[u] /\ found'[u] = found[u] /\ moved'[u] = moved[u]
              /\ StateMachine'[u] = StateMachine[u] /\ NextStateMachine'[u] = NextStateMachine[u]
              /\ TrStateMachine'[u] = TrStateMachine[u],
           \A d \in Channels \ {c} : ChSmDpc'[d] = ChSmDpc[d] /\ hc'[d] = hc[d],
           InPlace(t)'
    PROVE  PlaceInv'
<1>1. ASSUME NEW u \in Transfers \ {t} PROVE InPlace(u)'
  <2>1. (u \in Active)' <=> u \in Active
    BY DEF Active
  <2>2. CASE u \notin Active
    BY <2>1, <2>2 DEF PlaceInv, InPlace, Idles
  <2>3. CASE u \in Active
    <3>1. ChannelOf(u)' = ChannelOf(u) /\ ChannelOf(u) \in Channels \ {c}
      BY <2>3, Apart DEF ChannelOf
    <3>2. (Fresh(u)' <=> Fresh(u)) /\ (Waits(u)' <=> Waits(u))
      BY <3>1 DEF Fresh, Waits
    <3>3. Exact(u) => Exact(u)'
      BY <3>1 DEF Exact, Keeps, Packets, XferLen, Split
    <3> QED BY <2>1, <2>3, <3>2, <3>3 DEF PlaceInv, InPlace, Idles
  <2> QED BY <2>2, <2>3
<1> QED BY <1>1 DEF PlaceInv

\* No step of a run queues a DPC or touches what is another's.
LEMMA StepCalm ==
    ASSUME Known, NEW t \in Transfers, Step(t)
    PROVE  /\ UNCHANGED <<NextStateMachine, ChSmDpc, found>>
           /\ \A u \in Transfers \ {t} :
                 answers'[u] = answers[u] /\ StateMachine'[u] = StateMachine[u]
           /\ t \in Active /\ ~Fresh(t) /\ ~Fresh(t)'
<1>1. /\ UNCHANGED <<NextStateMachine, ChSmDpc, found>>
      /\ \A u \in Transfers \ {t} :
            answers'[u] = answers[u] /\ StateMachine'[u] = StateMachine[u]
  <2>1. CASE AcquireLock(t) \/ RunIdle(t) \/ BeginStage(t)
    BY <2>1 DEF AcquireLock, RunIdle, BeginStage, smVars, resumeVars, requestVars, Known, Types
  <2>2. CASE Advance(t)
    BY <2>2 DEF Advance, Complete, resumeVars, Known, Types
  <2>3. CASE TrInit(t) \/ CheckFreePort(t) \/ ClaimPort(t) \/ Transferring(t) \/ EnableChannel(t)
             \/ TransferWaiting(t)
    BY <2>3 DEF TrInit, CheckFreePort, ClaimPort, Transferring, EnableChannel, TransferWaiting,
                smVars, resumeVars, requestVars
  <2>4. CASE HaltedDone(t) \/ HaltedNyetTimeout(t) \/ HaltedNak(t) \/ TrDone(t)
    BY <2>4 DEF HaltedDone, HaltedNyetTimeout, HaltedNak, TrDone, smVars, resumeVars, requestVars
  <2>5. CASE HaltedFailure(t)
    BY <2>5 DEF HaltedFailure, Complete, resumeVars, Known, Types
  <2>6. CASE Revive(t) \/ ReviveAndWait(t)
    BY <2>6 DEF Revive, ReviveAndWait, SetTimers, smVars, requestVars
  <2> QED BY <2>1, <2>2, <2>3, <2>4, <2>5, <2>6 DEF Step
<1>2. Busy(t)
  <2>1. AcquireLock(t) \/ Runs(t)
    BY StepRuns DEF Known
  <2> QED BY <2>1 DEF AcquireLock, Runs, Busy
<1>3. t \in Active /\ ~Fresh(t)
  BY <1>2, BusyFacts
<1>4. ~Fresh(t)'
  BY <1>1, <1>3 DEF Fresh, ChannelOf
<1> QED BY <1>1, <1>3, <1>4

\* What a step of a run has to show of its transfer.
LEMMA RunKeepsPlace ==
    ASSUME Known, PlaceInv, NEW t \in Transfers, Step(t),
           \A u \in Transfers \ {t} :
              TrStateMachine'[u] = TrStateMachine[u] /\ moved'[u] = moved[u],
           \A d \in Channels \ {ChannelOf(t)} : hc'[d] = hc[d],
           (t \in Active)' \/ StateMachine'[t].State = "Idle",
           Waits(t)' => Exact(t)'
    PROVE  PlaceInv'
<1>1. PICK c \in Channels : c = ChannelOf(t)
  BY Apart
<1>2. \A u \in Active \ {t} : ChannelOf(u) # c
  BY <1>1, StepCalm, Apart
<1>3. Idles(t)'
  BY StepCalm DEF Idles
<1>4. InPlace(t)'
  BY <1>3 DEF InPlace
<1> QED BY <1>1, <1>2, <1>4, StepCalm, PlaceKeep

LEMMA StillPlace ==
    ASSUME Known, Ranges, Nyets, PlaceInv, NEW t \in Transfers, StillSteps(t)
    PROVE  PlaceInv'
<1> DEFINE c == ChannelOf(t)
<1>1. /\ t \in Active /\ StateMachine[t].State \in WaitStates /\ run[t] # "off"
      /\ KeepsData(t) /\ Step(t)
  BY StillKeeps DEF StillSteps, Step
<1>2. /\ c \in Channels /\ StateMachine[t].Channel = c /\ Chan(t) = c /\ Waits(t)
      /\ Progress(t) /\ Shown(t) /\ TrStateMachine[t] \in TrSm
  BY <1>1, AtFacts
<1>3. InPlace(t) /\ Exact(t)
  BY <1>1, <1>2 DEF PlaceInv, InPlace
<1>4. c' = c
  BY StepCalm, <1>1 DEF ChannelOf
<1>5. (t \in Active)' \/ StateMachine'[t].State = "Idle"
  <2>1. CASE Advance(t)
    BY <1>1, <2>1 DEF Advance, Active, Known, Types, ChSm
  <2>2. CASE HaltedFailure(t)
    BY <2>2 DEF HaltedFailure, Known, Types, ChSm
  <2>3. CASE \/ CheckFreePort(t) \/ ClaimPort(t) \/ Transferring(t) \/ EnableChannel(t)
             \/ TransferWaiting(t) \/ HaltedNyetTimeout(t) \/ TrDone(t)
             \/ Revive(t) \/ ReviveAndWait(t)
    <3>1. UNCHANGED <<StateMachine, answers, found>>
      BY <2>3 DEF CheckFreePort, ClaimPort, Transferring, EnableChannel, TransferWaiting,
                  HaltedNyetTimeout, TrDone, Revive, ReviveAndWait, smVars, requestVars
    <3> QED BY <1>1, <3>1 DEF Active
  <2> QED BY <2>1, <2>2, <2>3 DEF StillSteps
<1> HIDE DEF c
<1>6. ASSUME Packets(t, hc'[c]) = Packets(t, hc[c]),
             \/ TrStateMachine'[t].State \notin {"Init", "CheckFreePort"} \/ ~Keeps(t)
             \/ TrStateMachine'[t].State = TrStateMachine[t].State
      PROVE  Exact(t)'
  <2>1. Packets(t, hc[c])' = Packets(t, hc'[c])
    BY <1>1, <1>4 DEF Packets, XferLen, Split, KeepsData
  <2> QED BY <1>1, <1>3, <1>4, <1>6, <2>1 DEF Exact, Keeps, KeepsData, c
<1>7. Waits(t)' => Exact(t)'
  <2>1. CASE Advance(t) \/ HaltedFailure(t)
    <3>1. StateMachine'[t].State \notin WaitStates
      <4>1. CASE Advance(t)
        BY <4>1 DEF Advance, NextStage, WaitStates, Known, Types, ChSm
      <4>2. CASE HaltedFailure(t)
        BY <4>2 DEF HaltedFailure, WaitStates, Known, Types, ChSm
      <4> QED BY <2>1, <4>1, <4>2
    <3> QED BY <3>1 DEF Waits
  <2>2. CASE CheckFreePort(t) \/ Revive(t) \/ ReviveAndWait(t)
    <3>1. UNCHANGED <<TrStateMachine, hc>>
      BY <2>2 DEF CheckFreePort, Revive, ReviveAndWait, smVars, hwVars
    <3> QED BY <1>3, <1>6, <3>1 DEF Exact
  <2>3. CASE ClaimPort(t)
    <3>1. hc' = hc /\ TrStateMachine'[t].State = "Transferring" /\ run[t] = "claim"
      BY <1>2, <2>3 DEF ClaimPort, hwVars, Known, Types, TrSm
    <3> QED BY <1>2, <1>6, <3>1 DEF Progress
  <2>4. CASE Transferring(t) \/ TrDone(t)
    <3>1. /\ TrStateMachine' = TrStateMachine /\ hc' = [hc EXCEPT ![c] = "off"]
          /\ TrStateMachine[t].State \in {"Transferring", "Done"}
      BY <1>2, <2>4 DEF Transferring, TrDone, At, smVars
    <3>2. hc[c] = "off"
      BY <1>1, <3>1, OffBus DEF c
    <3> QED BY <1>2, <1>3, <1>6, <3>1, <3>2 DEF Known, Types, Exact
  <2>5. CASE EnableChannel(t)
    <3>1. /\ hc'[c] = "on" /\ TrStateMachine'[t].State = "TransferWaiting"
          /\ run[t] = "unmask"
      BY <1>2, <2>5 DEF EnableChannel, Known, Types, TrSm
    <3>2. TrStateMachine[t].State = "Transferring"
      BY <1>2, <3>1 DEF Progress
    <3>3. hc[c] = "off"
      BY <1>1, <3>2, OffBus DEF c
    <3>4. Packets(t, "on") = 0 /\ Packets(t, "off") = 0
      BY DEF Packets
    <3> QED BY <1>6, <3>1, <3>2, <3>3, <3>4
  <2>6. CASE TransferWaiting(t)
    <3>1. /\ hc' = hc /\ TrStateMachine'[t].State \in {"TransferWaiting", "TransferHalted"}
          /\ TrStateMachine[t].State = "TransferWaiting"
      BY <1>2, <2>6 DEF TransferWaiting, At, hwVars, Known, Types, TrSm
    <3> QED BY <1>6, <3>1
  <2>7. CASE HaltedNyetTimeout(t)
    <3>1. /\ hc[c] = "nyet" /\ hc'[c] = "off" /\ TrStateMachine'[t].State = "Init"
          /\ TrStateMachine[t].State = "TransferHalted"
      BY <1>2, <2>7 DEF HaltedNyetTimeout, HaltedWith, At, Known, Types, TrSm
    <3>2. ~Keeps(t)
      BY <1>2, <3>1 DEF Nyets, Keeps
    <3>3. Packets(t, "nyet") = 0 /\ Packets(t, "off") = 0
      BY DEF Packets
    <3> QED BY <1>6, <3>1, <3>2, <3>3
  <2> QED BY <2>1, <2>2, <2>3, <2>4, <2>5, <2>6, <2>7 DEF StillSteps
<1> QED BY <1>1, <1>5, <1>7, RunKeepsPlace DEF KeepsData, c

LEMMA BeginStagePlace ==
    ASSUME Known, Ranges, PlaceInv, NEW t \in Transfers, BeginStage(t)
    PROVE  PlaceInv'
<1>1. t \in Active /\ Step(t) /\ UNCHANGED <<answers, found>>
  BY BeginStageData DEF BeginStage, Step, requestVars
<1>2. ChannelOf(t)' = ChannelOf(t)
  BY <1>1, StepCalm DEF ChannelOf
<1>3. moved'[t] = 0
  BY BeginStageData DEF Ranges
<1>4. Packets(t, hc[ChannelOf(t)])' = 0
  BY <1>2, BeginStageData DEF Packets
<1>5. Exact(t)'
  BY <1>3, <1>4, BeginStageData DEF Exact
<1> QED BY <1>1, <1>5, BeginStageData, RunKeepsPlace DEF Active

LEMMA TrInitPlace ==
    ASSUME Known, Ranges, PlaceInv, NEW t \in Transfers, TrInit(t)
    PROVE  PlaceInv'
<1> DEFINE m == TrStateMachine[t]
<1>1. t \in Active /\ Step(t) /\ UNCHANGED <<answers, found, StateMachine>>
  BY TrInitData DEF TrInit, Step, requestVars, smVars
<1>2. ChannelOf(t)' = ChannelOf(t) /\ Exact(t)
  BY <1>1, StepCalm, TrInitData DEF ChannelOf, PlaceInv, InPlace
<1>3. Packets(t, hc[ChannelOf(t)]) = 0 /\ Packets(t, hc[ChannelOf(t)])' = 0
  BY <1>2, TrInitData DEF Packets
<1>4. m.Done \in Nat /\ m.Buffer \in Int /\ moved[t] \in Nat
  BY PacketsFit DEF Known, Types, TrSm, Ranges
<1>5. /\ TrStateMachine'[t].Buffer = m.Buffer /\ TrStateMachine'[t].Done = 0
      /\ moved'[t] = moved[t] /\ m.State = "Init"
  BY TrInitData
<1>6. /\ m.Buffer + m.Done <= moved[t]
      /\ Keeps(t) => m.Buffer + m.Done = moved[t] /\ m.Done = 0
  BY <1>2, <1>3, <1>4, <1>5 DEF Exact
<1>7. Exact(t)'
  BY <1>3, <1>4, <1>5, <1>6 DEF Exact, Keeps
<1> QED BY <1>1, <1>7, TrInitData, RunKeepsPlace DEF Active

LEMMA HaltedDonePlace ==
    ASSUME Known, Ranges, PlaceInv, NEW t \in Transfers, HaltedDone(t)
    PROVE  PlaceInv'
<1> DEFINE m == TrStateMachine[t]
<1>1. PICK o : o = hc[ChannelOf(t)]
  OBVIOUS
<1>2. t \in Active /\ Step(t) /\ UNCHANGED <<answers, found, StateMachine>>
  BY <1>1, HaltedDoneData DEF HaltedDone, Step, requestVars, smVars
<1>3. ChannelOf(t)' = ChannelOf(t) /\ Exact(t) /\ ChannelOf(t) \in Channels
  BY <1>1, <1>2, StepCalm, HaltedDoneData, Apart DEF ChannelOf, PlaceInv, InPlace
<1>4. /\ m.Done \in Nat /\ m.Buffer \in Int /\ moved[t] \in Nat
      /\ Packets(t, o) \in Nat
  <2>1. m.Done \in Nat /\ XferLen(t) \in Nat /\ Packets(t, o) \in 0..XferLen(t)
    BY PacketsFit DEF Known
  <2> QED BY <2>1 DEF Known, Types, TrSm, Ranges
<1>5. Packets(t, hc[ChannelOf(t)])' = 0
  <2>1. hc'[ChannelOf(t)'] = "off"
    BY <1>1, <1>3, HaltedDoneData
  <2> QED BY <2>1 DEF Packets
<1>6. /\ TrStateMachine'[t].Buffer = m.Buffer
      /\ TrStateMachine'[t].Done = m.Done + Packets(t, o) /\ moved' = moved
      /\ TrStateMachine'[t].State \in {"Done", "Transferring"}
  BY <1>1, HaltedDoneData
<1>7. /\ m.Buffer + m.Done + Packets(t, o) <= moved[t]
      /\ Keeps(t) => m.Buffer + m.Done + Packets(t, o) = moved[t]
  BY <1>1, <1>3 DEF Exact
<1>8. m.Buffer + (m.Done + Packets(t, o)) + 0 = m.Buffer + m.Done + Packets(t, o)
  BY <1>4
<1>9. Exact(t)'
  BY <1>5, <1>6, <1>7, <1>8 DEF Exact, Keeps
<1>10. /\ \A u \in Transfers \ {t} : TrStateMachine'[u] = TrStateMachine[u] /\ moved'[u] = moved[u]
       /\ \A d \in Channels \ {ChannelOf(t)} : hc'[d] = hc[d]
  BY <1>1, HaltedDoneData
<1> QED BY <1>2, <1>9, <1>10, RunKeepsPlace DEF Active

LEMMA HaltedNakPlace ==
    ASSUME Known, Ranges, PlaceInv, NEW t \in Transfers, HaltedNak(t)
    PROVE  PlaceInv'
<1> DEFINE m == TrStateMachine[t]
<1>1. t \in Active /\ Waits(t) /\ Step(t) /\ UNCHANGED <<answers, found, StateMachine>>
  BY HaltedNakData DEF HaltedNak, Step, requestVars, smVars
<1>2. ChannelOf(t)' = ChannelOf(t) /\ ChannelOf(t) \in Channels /\ Exact(t)
  BY <1>1, StepCalm, Apart DEF ChannelOf, PlaceInv, InPlace
<1>3. m.Done \in Nat /\ m.Buffer \in Int /\ moved[t] \in Nat
  BY PacketsFit DEF Known, Types, TrSm, Ranges
<1>4. Packets(t, hc[ChannelOf(t)])' = 0
  <2>1. hc'[ChannelOf(t)'] = "off"
    BY <1>2, HaltedNakData
  <2> QED BY <2>1 DEF Packets
<1>5. m.Buffer + m.Done <= moved[t] /\ (Keeps(t) => m.Buffer + m.Done = moved[t])
  <2>1. Packets(t, hc[ChannelOf(t)]) = 0
    BY HaltedNakData DEF Packets
  <2> QED BY <1>2, <1>3, <2>1 DEF Exact
<1>6. moved' = moved
  BY HaltedNakData
<1>7. CASE Kind[t] = "Control"
  <2>1. TrStateMachine'[t].Buffer = m.Buffer + m.Done /\ TrStateMachine'[t].Done = 0
    BY <1>7, HaltedNakData
  <2>2. Exact(t)'
    BY <1>3, <1>4, <1>5, <1>6, <2>1 DEF Exact, Keeps
  <2> QED BY <1>1, <2>2, HaltedNakData, RunKeepsPlace DEF Active
<1>8. CASE Kind[t] # "Control"
  <2>1. TrStateMachine'[t].Buffer = m.Buffer /\ TrStateMachine'[t].Done = m.Done
    BY <1>8, HaltedNakData
  <2>2. Exact(t)'
    BY <1>3, <1>4, <1>5, <1>6, <1>8, <2>1 DEF Exact, Keeps
  <2> QED BY <1>1, <2>2, HaltedNakData, RunKeepsPlace DEF Active
<1> QED BY <1>7, <1>8

LEMMA WhoRunsPlace ==
    ASSUME Known, Ranges, PlaceInv,
           \E c \in Channels : RunSmDpc(c) \/ ResumeCh(c) \/ \E o \in AllOutcomes : HwHalt(c, o)
    PROVE  PlaceInv'
<1>1. ASSUME NEW c \in Channels, RunSmDpc(c) PROVE PlaceInv'
  <2>1. PICK t \in Transfers : /\ t = ChSmDpc[c] /\ t # None /\ t \in Active
                               /\ ChannelOf(t) = c /\ Fits(t)
    BY <1>1, Apart DEF RunSmDpc, Known, Types, OwnInv, OneAtATime, Works
  <2>2. /\ UNCHANGED <<answers, found, moved, NextStateMachine, TrStateMachine, hc>>
        /\ \A d \in Channels : ChSmDpc'[d] = IF d = c THEN None ELSE ChSmDpc[d]
        /\ \A u \in Transfers : StateMachine'[u] =
              IF u = t THEN NextStateMachine[u] ELSE StateMachine[u]
    BY <1>1, <2>1 DEF RunSmDpc, chVars, requestVars, hwVars, Known, Types
  <2>3. ~Fresh(t)' /\ (t \in Active)' /\ ChannelOf(t)' = c
    BY <2>1, <2>2 DEF Fresh, ChannelOf, Active
  <2>4. Waits(t)' => Waits(t)
    BY <2>1, <2>2, <2>3, StateFacts DEF Waits, Fits, Placed, Fresh
  <2>5. Exact(t) => Exact(t)'
    BY <2>1, <2>2, <2>3 DEF Exact, Keeps, Packets, XferLen, Split
  <2>6. InPlace(t)'
    BY <2>1, <2>2, <2>3, <2>4, <2>5 DEF PlaceInv, InPlace, Idles
  <2> QED BY <2>1, <2>2, <2>6, Apart, PlaceKeep
<1>2. ASSUME NEW c \in Channels, ResumeCh(c) PROVE PlaceInv'
  <2>1. PICK t \in Transfers : /\ t = ChResumeContexts[c] /\ t # None /\ t \in Active
                               /\ ChannelOf(t) = c /\ Fits(t) /\ ~Busy(t) /\ ChSmDpc[c] = None
    BY <1>2, Apart DEF ResumeCh, Known, OwnInv, OneAtATime, Works
  <2>2. ~Fresh(t) /\ StateMachine[t].Channel = c /\ StateMachine[t].State \notin BeginStates
    BY <2>1 DEF Fresh, Fits, Placed, Begins, Busy
  <2>3. /\ UNCHANGED <<answers, found, moved, StateMachine, TrStateMachine, hc>>
        /\ \A d \in Channels : ChSmDpc'[d] = IF d = c THEN t ELSE ChSmDpc[d]
        /\ \A u \in Transfers : NextStateMachine'[u] =
              IF u = t THEN StateMachine[u] ELSE NextStateMachine[u]
    BY <1>2, <2>1, <2>2 DEF ResumeCh, InvokeTrSm, chVars, requestVars, cpuVars, hwVars,
                            Known, Types
  <2>4. ~Fresh(t)' /\ (t \in Active)' /\ ChannelOf(t)' = c /\ (Waits(t)' => Waits(t))
    BY <2>1, <2>2, <2>3 DEF Fresh, ChannelOf, Active, Waits
  <2>5. Exact(t) => Exact(t)'
    BY <2>1, <2>3, <2>4 DEF Exact, Keeps, Packets, XferLen, Split
  <2>6. InPlace(t)'
    BY <2>1, <2>3, <2>4, <2>5 DEF PlaceInv, InPlace, Idles
  <2> QED BY <2>1, <2>3, <2>6, Apart, PlaceKeep
<1>3. ASSUME NEW c \in Channels, NEW o \in AllOutcomes, HwHalt(c, o) PROVE PlaceInv'
  <2>1. PICK t \in Transfers : /\ t = ChannelCallbacks[c] /\ t \in Active /\ ChannelOf(t) = c
                               /\ OnBus(t) /\ hc[c] = "on"
    BY <1>3, OnChannel, Apart DEF HwHalt
  <2>2. /\ UNCHANGED <<answers, found, StateMachine, NextStateMachine, TrStateMachine, ChSmDpc>>
        /\ \A d \in Channels : hc'[d] = IF d = c THEN o ELSE hc[d]
        /\ moved' = [moved EXCEPT ![t] = @ + Packets(t, o)]
        /\ o \in Answers(t)
    BY <1>3, <2>1 DEF HwHalt, smVars, resumeVars, requestVars, Known, Types
  <2>3. moved'[t] = moved[t] + Packets(t, o) /\ \A u \in Transfers \ {t} : moved'[u] = moved[u]
    BY <2>2 DEF Ranges
  <2>4. ChannelOf(t)' = c /\ (Fresh(t)' <=> Fresh(t)) /\ ((t \in Active)' <=> t \in Active)
        /\ (Waits(t)' <=> Waits(t))
    BY <2>1, <2>2 DEF ChannelOf, Fresh, Active, Waits
  <2>5. Exact(t)
    BY <2>1 DEF PlaceInv, InPlace, OnBus
  <2>6. /\ TrStateMachine[t].Done \in Int /\ TrStateMachine[t].Buffer \in Int
        /\ Packets(t, o) \in Int /\ moved[t] \in Nat
    BY StageTypes DEF Known, Types, TrSm, Ranges
  <2>7. /\ TrStateMachine[t].Buffer + TrStateMachine[t].Done <= moved[t]
        /\ Keeps(t) => TrStateMachine[t].Buffer + TrStateMachine[t].Done = moved[t]
    <3>1. Packets(t, hc[ChannelOf(t)]) = 0
      BY <2>1 DEF Packets
    <3> QED BY <2>5, <2>6, <3>1 DEF Exact
  <2>8. Packets(t, hc[ChannelOf(t)])' = Packets(t, o)
    BY <2>1, <2>2, <2>4 DEF Packets, XferLen, Split
  <2>9. LET at == TrStateMachine'[t].Buffer + TrStateMachine'[t].Done + Packets(t, o)
        IN  at <= moved'[t] /\ (Keeps(t) => at = moved'[t])
    BY <2>2, <2>3, <2>6, <2>7
  <2>10. Exact(t)'
    BY <2>2, <2>5, <2>8, <2>9 DEF Exact, Keeps
  <2>11. InPlace(t)'
    BY <2>2, <2>4, <2>10 DEF PlaceInv, InPlace, Idles
  <2> QED BY <2>1, <2>2, <2>3, <2>11, Apart, PlaceKeep
<1> QED BY <1>1, <1>2, <1>3

LEMMA AskPlace ==
    ASSUME Known, PlaceInv, NEW t \in Transfers, Ask(t)
    PROVE  PlaceInv'
<1>1. CASE FindChannel(t)
  <2>1. /\ UNCHANGED <<moved, StateMachine, NextStateMachine, TrStateMachine, ChSmDpc, hc>>
        /\ \A u \in Transfers \ {t} : answers'[u] = answers[u] /\ found'[u] = found[u]
        /\ answers[t] > 0
    BY <1>1 DEF FindChannel, smVars, resumeVars, hwVars, Known, Types
  <2>2. found'[t] # None \/ answers'[t] = 1
    BY <1>1, FreeChannel, NoneApart DEF FindChannel, Known, Types
  <2>3. t \notin Active /\ (t \notin Active)'
    BY <2>1, <2>2 DEF Active
  <2>4. InPlace(t)'
    BY <2>1, <2>3 DEF PlaceInv, InPlace, Idles
  <2>5. \A u \in Transfers \ {t} : InPlace(u)'
    <3> TAKE u \in Transfers \ {t}
    <3>1. /\ (u \in Active)' <=> u \in Active
          /\ Fresh(u)' <=> Fresh(u)
          /\ Waits(u)' <=> Waits(u)
          /\ Exact(u)' <=> Exact(u)
      BY <2>1 DEF Active, Fresh, Waits, ChannelOf, Exact, Keeps, Packets, XferLen, Split
    <3> QED BY <2>1, <3>1 DEF PlaceInv, InPlace, Idles
  <2> QED BY <2>4, <2>5 DEF PlaceInv
<1>2. ASSUME NEW l \in Lengths[t], Submit(t, l) PROVE PlaceInv'
  <2>1. PICK c \in Channels : c = found[t] /\ c \notin ChannelMask /\ c # None
    BY <1>2 DEF Submit, Known, Types, OwnInv, Owners
  <2>2. t \notin Active /\ \A u \in Active : ChannelOf(u) # c
    BY <2>1 DEF Active, Known, OwnInv, Owners
  <2>3. ChSmDpc[c] = None
    BY <2>1, Apart
  <2>4. NextStateMachine'[t] =
            [State |-> IF Kind[t] = "Control" THEN "ControlSetup" ELSE "InterruptOrBulkData",
             Channel |-> c, Length |-> l]
    BY <1>2, <2>1 DEF Submit, Known, Types
  <2>5. NextStateMachine'[t].State \in BeginStates /\ NextStateMachine'[t].Length = l
        /\ ChannelOf(t)' = c
    BY <2>4 DEF BeginStates, ChStates, WaitStates, ChannelOf
  <2>6. /\ UNCHANGED <<answers, moved, StateMachine, TrStateMachine, hc>>
        /\ \A d \in Channels : ChSmDpc'[d] = IF d = c THEN t ELSE ChSmDpc[d]
        /\ \A u \in Transfers \ {t} :
              NextStateMachine'[u] = NextStateMachine[u] /\ found'[u] = found[u]
    BY <1>2, <2>1, <2>3 DEF Submit, InvokeTrSm, hwVars, Known, Types
  <2>7. Fresh(t)' /\ ~Waits(t)'
    BY <2>1, <2>5, <2>6, NoneApart DEF Fresh, Waits
  <2>8. StateMachine[t].State = "Idle"
    BY <2>2 DEF PlaceInv, InPlace, Idles
  <2>9. InPlace(t)'
    BY <2>5, <2>6, <2>7, <2>8 DEF PlaceInv, InPlace, Idles
  <2> QED BY <2>2, <2>6, <2>9, PlaceKeep
<1>3. CASE Purge(t) \/ PurgeCompleteAndStart(t)
  <2>1. UNCHANGED <<answers, found, moved, smVars, ChSmDpc, hc>>
    BY <1>3 DEF Purge, PurgeCompleteAndStart, resumeVars, hwVars
  <2> QED BY <2>1 DEF PlaceInv, InPlace, Idles, Active, Fresh, Waits, Exact, Keeps,
                      ChannelOf, Packets, XferLen, Split, smVars
<1> QED BY <1>1, <1>2, <1>3 DEF Ask

LEMMA StepPlace == Known /\ Ranges /\ Nyets /\ PlaceInv /\ [Next]_vars => PlaceInv'
<1> SUFFICES ASSUME Known, Ranges, Nyets, PlaceInv, [Next]_vars PROVE PlaceInv'
  OBVIOUS
<1>1. ASSUME UNCHANGED <<answers, found, moved, smVars, ChSmDpc, hc>> PROVE PlaceInv'
  BY <1>1 DEF PlaceInv, InPlace, Idles, Active, Fresh, Waits, Exact, Keeps,
              ChannelOf, Packets, XferLen, Split, smVars
<1>2. ASSUME NEW t \in Transfers, Step(t) PROVE PlaceInv'
  <2>1. ~RunIdle(t)
    BY BusyFacts DEF RunIdle, Busy
  <2>2. CASE AcquireLock(t)
    BY <1>1, <2>2 DEF AcquireLock, requestVars, resumeVars, hwVars
  <2> QED BY <1>2, <2>1, <2>2, StillPlace, BeginStagePlace, TrInitPlace, HaltedDonePlace,
             HaltedNakPlace DEF Step, StillSteps
<1>3. CASE OnInterruptIsr \/ OnInterruptDpc \/ ServeChannel
  BY <1>1, <1>3 DEF OnInterruptIsr, OnInterruptDpc, ServeChannel, requestVars, resumeVars, hwVars
<1>4. CASE UNCHANGED vars
  BY <1>1, <1>4 DEF vars, requestVars, resumeVars, hwVars
<1> QED BY <1>2, <1>3, <1>4, Steps, AskPlace, WhoRunsPlace

LEMMA StepNyets == Known /\ Nyets /\ [Next]_vars => Nyets'
<1> SUFFICES ASSUME Known, Nyets, [Next]_vars PROVE Nyets'
  OBVIOUS
<1>1. ASSUME UNCHANGED hc PROVE Nyets'
  BY <1>1 DEF Nyets
<1>2. ASSUME NEW t \in Transfers, Step(t) PROVE Nyets'
  <2>1. ~RunIdle(t)
    BY BusyFacts DEF RunIdle, Busy
  <2>2. CASE StillSteps(t)
    BY <2>2, StillKeeps DEF KeepsData, Nyets
  <2>3. CASE HaltedDone(t) \/ HaltedNak(t)
    BY <2>3, HaltedDoneData, HaltedNakData DEF Nyets
  <2>4. CASE AcquireLock(t) \/ BeginStage(t) \/ TrInit(t)
    BY <1>1, <2>4, BeginStageData, TrInitData DEF AcquireLock, hwVars
  <2> QED BY <1>2, <2>1, <2>2, <2>3, <2>4 DEF Step, StillSteps
<1>3. ASSUME NEW t \in Transfers, Ask(t) PROVE Nyets'
  BY <1>1, <1>3 DEF Ask, FindChannel, Submit, Purge, PurgeCompleteAndStart, hwVars
<1>4. ASSUME NEW c \in Channels, RunSmDpc(c) \/ ResumeCh(c) PROVE Nyets'
  BY <1>1, <1>4 DEF RunSmDpc, ResumeCh, hwVars
<1>5. ASSUME NEW c \in Channels, NEW o \in AllOutcomes, HwHalt(c, o) PROVE Nyets'
  BY <1>5 DEF HwHalt, Answers, Nyets, Known, Types
<1>6. CASE OnInterruptIsr \/ OnInterruptDpc \/ ServeChannel \/ UNCHANGED vars
  BY <1>1, <1>6 DEF OnInterruptIsr, OnInterruptDpc, ServeChannel, vars, hwVars
<1> QED BY <1>2, <1>3, <1>4, <1>5, <1>6, Steps

\* No retry skips data: what the driver transfers next is never beyond what the
\* device has moved, whatever naks, short packets, timeouts and restarts come
\* between; and a control transfer none of whose complete splits times out
\* repeats none either (UsbDevice.c:936, 1015, 1047, 1085).  RunsApart: where no
\* run of a request that is over meets the next.
THEOREM RetriesSkipNothing == Spec /\ []RunsApart => []DataInPlace
<1>1. Init => PlaceInv /\ Nyets /\ Ranges
  <2> SUFFICES ASSUME Init PROVE PlaceInv /\ Nyets /\ Ranges
    OBVIOUS
  <2>1. \A t \in Transfers : InPlace(t)
    BY DEF Init, InPlace, Idles, Active
  <2> QED BY <2>1 DEF PlaceInv, Nyets, Ranges, Init
<1>2. Known /\ (Ranges /\ Nyets /\ PlaceInv) /\ [Next]_vars => (Ranges /\ Nyets /\ PlaceInv)'
  BY StepPlace, StepNyets, StepRanges DEF Known
<1>3. ASSUME Known, Ranges, PlaceInv PROVE DataInPlace
  <2> SUFFICES ASSUME NEW t \in Active,
                      TrStateMachine[t].State \in {"Transferring", "Done"},
                      StateMachine[t].State \in WaitStates
               PROVE  LET at == TrStateMachine[t].Buffer + TrStateMachine[t].Done
                      IN  at <= moved[t] /\ (Keeps(t) => at = moved[t])
    BY DEF DataInPlace, Keeps
  <2>1. t \in Transfers /\ ~Fresh(t)
    BY <1>3, Apart, StateFacts DEF PlaceInv, InPlace, Idles
  <2>2. Waits(t) /\ Exact(t) /\ Fits(t)
    BY <1>3, <2>1 DEF Waits, PlaceInv, InPlace, Known, OwnInv
  <2>3. Packets(t, hc[ChannelOf(t)]) = 0
    BY <2>2 DEF Fits, Shown, OnBus, Packets
  <2>4. TrStateMachine[t].Buffer \in Int /\ TrStateMachine[t].Done \in Int
    BY <1>3, <2>1 DEF Known, Types, TrSm
  <2> QED BY <2>2, <2>3, <2>4 DEF Exact
<1> QED BY <1>1, <1>2, <1>3, OwnInvariant, PTL DEF Spec

-----------------------------------------------------------------------------
(* Transfers that wait for a port are woken                                 *)

\* A device that stalls or fails ends its transfer without a revival
\* (UsbDevice.c:1123): whoever waits for its port then sleeps for ever.
FailsAlone ==
    \A t, u \in Transfers : HaltedFailure(t) /\ Waiting(u) => TtPort[u] # TtPort[t]

\* Of the port p: it is taken, or being given up, or a waiter will look at it.
WillLook(t) == WaitsForPort(t) /\ (Busy(t) \/ Resumed(t))
Tended(p) ==
    \/ \E c \in Channels : ChTt[c] = p
    \/ \E u \in Active : TtPort[u] = p /\ (GivesUp(u) \/ WillLook(u))

WakeInv ==
    /\ \A t \in Transfers : Idles(t)
    /\ \A t \in Active : WaitsForPort(t) => Tended(TtPort[t])

\* Whoever tended a port before a step does so after it, or somebody else.
LEMMA WakeKeep ==
    ASSUME WakeInv, \A u \in Transfers : Idles(u)',
           \A u \in Active' : WaitsForPort(u)' => u \in Active /\ WaitsForPort(u),
           \A c \in Channels : ChTt'[c] = ChTt[c],
           \A u \in Active : GivesUp(u) => u \in Active' /\ GivesUp(u)',
           \A u \in Active : WillLook(u) => u \in Active' /\ WillLook(u)'
    PROVE  WakeInv'
<1>1. \A p : Tended(p) => Tended(p)'
  BY DEF Tended
<1>2. \A u \in Active' : WaitsForPort(u)' => Tended(TtPort[u])'
  BY <1>1 DEF WakeInv
<1> QED BY <1>2 DEF WakeInv

\* The same when the waiters see no difference.
LEMMA WakeSame ==
    ASSUME WakeInv, UNCHANGED <<answers, found, smVars, ChSmDpc, ChResumeTimers, ChTt>>,
           \A u \in Transfers : /\ Busy(u) => Busy(u)'
                                /\ GivesUp(u) => GivesUp(u)'
    PROVE  WakeInv'
<1>1. Active' = Active /\ \A u \in Transfers : ChannelOf(u)' = ChannelOf(u)
  BY DEF Active, ChannelOf, smVars
<1>2. \A u \in Transfers : /\ Idles(u) => Idles(u)'
                           /\ WaitsForPort(u)' <=> WaitsForPort(u)
                           /\ Resumed(u) => Busy(u) \/ Resumed(u)'
  BY <1>1 DEF Idles, Fresh, WaitsForPort, Waits, Resumed, Busy, smVars
<1>3. Active \subseteq Transfers
  BY DEF Active
<1> QED BY <1>1, <1>2, <1>3, WakeKeep DEF WillLook, WakeInv

\* A step of a run that does not revive: what has to be shown of its transfer.
LEMMA MovesWake ==
    ASSUME Known, WakeInv, NEW t \in Transfers, Moves(t), Step(t), ~GivesUp(t),
           WaitsForPort(t)' => WaitsForPort(t) \/ Busy(t)',
           WaitsForPort(t) => PortTaken(t)' \/ (WaitsForPort(t)' /\ Busy(t)'),
           \/ ChTt'[ChannelOf(t)] = ChTt[ChannelOf(t)]
           \/ WaitsForPort(t)
           \/ ChTt'[ChannelOf(t)] = None /\ GivesUp(t)'
    PROVE  WakeInv'
<1>1. /\ t \in Active /\ Fits(t) /\ Active' = Active /\ ChannelOf(t) \in Channels
      /\ \A u \in Active \ {t} : Untouched(u)
  BY BusyFacts, MovesFrame DEF Moves, Runs, Busy
<1>2. \A u \in Transfers : Idles(u)'
  <2>1. ASSUME NEW u \in Transfers PROVE Idles(u)'
    <3>1. CASE u = t
      BY <1>1, <3>1, StepCalm DEF Idles
    <3>2. CASE u # t
      <4>1. StateMachine'[u] = StateMachine[u] /\ (Fresh(u)' <=> Fresh(u))
        BY <3>2, StepCalm DEF Fresh, ChannelOf
      <4> QED BY <1>1, <4>1 DEF Idles, WakeInv
    <3> QED BY <3>1, <3>2
  <2> QED BY <2>1
<1>3. \A u \in Active \ {t} : /\ WaitsForPort(u)' <=> WaitsForPort(u)
                              /\ WillLook(u) => WillLook(u)'
                              /\ GivesUp(u) => GivesUp(u)'
  <2> TAKE u \in Active \ {t}
  <2>1. u \in Transfers /\ Untouched(u)
    BY <1>1, Apart
  <2>2. Busy(u)' <=> Busy(u)
    BY <2>1 DEF Untouched, Busy
  <2> QED BY <2>1, <2>2, Frame DEF WillLook
<1>4. ASSUME NEW w \in Active, WaitsForPort(w) PROVE Tended(TtPort[w])'
  <2>1. Tended(TtPort[w]) /\ TtPort[w] # None
    BY <1>4 DEF WakeInv, Known, OwnInv, Fits, Progress, WaitsForPort, Split
  <2>2. ASSUME NEW c \in Channels, ChTt[c] = TtPort[w] PROVE Tended(TtPort[w])'
    <3>1. CASE c # ChannelOf(t)
      BY <2>2, <3>1 DEF Moves, Tended
    <3>2. CASE c = ChannelOf(t)
      <4>1. HoldsPort(t) /\ TtPort[t] = TtPort[w]
        BY <1>1, <2>1, <2>2, <3>2 DEF Fits, Shown
      <4>2. ~WaitsForPort(t)
        BY <4>1 DEF HoldsPort, WaitsForPort
      <4> QED BY <1>1, <2>2, <3>2, <4>1, <4>2 DEF Tended
    <3> QED BY <3>1, <3>2
  <2>3. ASSUME NEW u \in Active, TtPort[u] = TtPort[w], GivesUp(u) \/ WillLook(u)
        PROVE  Tended(TtPort[w])'
    <3>1. CASE u # t
      BY <1>1, <1>3, <2>3, <3>1 DEF Tended
    <3>2. CASE u = t
      <4>1. PortTaken(t)' \/ WillLook(t)'
        BY <2>3, <3>2 DEF WillLook
      <4> QED BY <1>1, <2>3, <3>2, <4>1 DEF Tended, PortTaken
    <3> QED BY <3>1, <3>2
  <2> QED BY <2>1, <2>2, <2>3 DEF Tended
<1>5. ASSUME NEW w \in Active, WaitsForPort(w)' PROVE Tended(TtPort[w])'
  <2>1. CASE WaitsForPort(w)
    BY <1>4, <2>1
  <2>2. CASE ~WaitsForPort(w)
    <3>1. w = t /\ WillLook(t)'
      BY <1>1, <1>3, <1>5, <2>2 DEF WillLook
    <3> QED BY <1>1, <3>1 DEF Tended
  <2> QED BY <2>1, <2>2
<1> QED BY <1>1, <1>2, <1>5 DEF WakeInv

LEMMA StageWake ==
    ASSUME Known, WakeInv, NEW t \in Transfers,
           \/ BeginStage(t) \/ TrInit(t) \/ CheckFreePort(t) \/ ClaimPort(t)
           \/ Transferring(t) \/ EnableChannel(t) \/ TransferWaiting(t)
    PROVE  WakeInv'
<1>1. Step(t) /\ run[t] # "off" /\ ~GivesUp(t)
  BY DEF Step, BeginStage, TrInit, CheckFreePort, ClaimPort, Transferring, EnableChannel,
         TransferWaiting, At, GivesUp
<1>2. Runs(t) /\ t \in Active /\ ChannelOf(t) \in Channels /\ Fits(t)
      /\ StateMachine[t].Channel = ChannelOf(t) /\ TrStateMachine[t] \in TrSm
  BY <1>1, StepRuns, BusyFacts DEF Busy, AcquireLock, Known, Types
<1>3. StateMachine[t].State \in WaitStates => Waits(t) /\ Chan(t) = ChannelOf(t)
  BY <1>1, AtFacts
<1>4. ASSUME Moves(t), ChTt'[ChannelOf(t)] = ChTt[ChannelOf(t)], run'[t] # "off",
             ~WaitsForPort(t)
      PROVE  WakeInv'
  BY <1>1, <1>4, MovesWake DEF Busy
<1>5. CASE BeginStage(t)
  <2>1. Moves(t) /\ ChTt' = ChTt /\ run'[t] # "off"
    BY <1>1, <1>2, <1>5 DEF BeginStage, Moves, chVars, resumeVars,
       requestVars, cpuVars, Known, Types
  <2>2. ~WaitsForPort(t)
    BY <1>5 DEF BeginStage, WaitsForPort, Waits
  <2> QED BY <1>4, <2>1, <2>2
<1>6. CASE TrInit(t)
  <2>1. Moves(t) /\ ChTt' = ChTt /\ run'[t] # "off"
    BY <1>1, <1>2, <1>3, <1>6
       DEF TrInit, At, Moves, resumeVars, requestVars, cpuVars, hwVars, Known, Types
  <2>2. ~WaitsForPort(t)
    BY <1>6 DEF TrInit, At, WaitsForPort
  <2> QED BY <1>4, <2>1, <2>2
<1>7. CASE CheckFreePort(t)
  <2>1. Moves(t) /\ ChTt' = ChTt /\ UNCHANGED smVars
    BY <1>2, <1>7 DEF CheckFreePort, Moves, chVars, resumeVars, smVars, requestVars, hwVars
  <2>2. Fresh(t)' = FALSE /\ ~Fresh(t)
    BY <1>1, <2>1, MovesFrame, BusyFacts DEF Busy
  <2>3. WaitsForPort(t)' <=> WaitsForPort(t)
    BY <2>1, <2>2 DEF WaitsForPort, Waits, smVars
  <2>4. PortTaken(t) => PortTaken(t)'
    BY <2>1 DEF PortTaken
  <2>5. PortTaken(t) \/ Busy(t)'
    BY <1>7 DEF CheckFreePort, Continue, Busy, Known, Types
  <2> QED BY <1>1, <2>1, <2>3, <2>4, <2>5, MovesWake DEF WaitsForPort, PortTaken, Busy
<1>8. CASE ClaimPort(t)
  <2>1. StateMachine[t].State \in WaitStates
    BY <1>8, MidFacts DEF ClaimPort
  <2>2. Moves(t) /\ run'[t] # "off" /\ ChTt'[ChannelOf(t)] = TtPort[t]
    BY <1>1, <1>2, <1>3, <1>8, <2>1
       DEF ClaimPort, Continue, Moves, resumeVars, requestVars, hwVars, Known, Types
  <2>3. PortTaken(t)' /\ WaitsForPort(t)
    BY <1>2, <1>3, <1>8, <2>1, <2>2 DEF PortTaken, ClaimPort, Fits, Progress, WaitsForPort
  <2> QED BY <1>1, <2>2, <2>3, MovesWake DEF WaitsForPort, PortTaken, Busy
<1>9. CASE Transferring(t) \/ EnableChannel(t)
  <2>1. StateMachine[t].State \in WaitStates
    BY <1>9, MidFacts DEF Transferring, EnableChannel, At
  <2>2. Moves(t) /\ ChTt' = ChTt /\ run'[t] # "off"
    BY <1>1, <1>2, <1>3, <1>9, <2>1
       DEF Transferring, EnableChannel, Continue, Moves, chVars, resumeVars, smVars, requestVars,
           Known, Types
  <2>3. ~WaitsForPort(t)
    BY <1>2, <1>3, <1>9, <2>1 DEF Transferring, EnableChannel, At, Fits, Progress, WaitsForPort
  <2> QED BY <1>4, <2>1, <2>2, <2>3
<1>10. CASE TransferWaiting(t)
  <2>1. Moves(t) /\ ChTt' = ChTt
    BY <1>2, <1>10
       DEF TransferWaiting, Moves, chVars, resumeVars, requestVars, hwVars, Known, Types
  <2>2. TrStateMachine[t].State # "CheckFreePort" /\ TrStateMachine'[t].State # "CheckFreePort"
    BY <1>2, <1>10 DEF TransferWaiting, At, Known, Types, TrSm
  <2> QED BY <1>1, <2>1, <2>2, MovesWake DEF WaitsForPort
<1> QED BY <1>5, <1>6, <1>7, <1>8, <1>9, <1>10

\* The steps that give up the port are those that go on to revive.
LEMMA HaltWake ==
    ASSUME Known, WakeInv, NEW t \in Transfers,
           HaltedDone(t) \/ HaltedNyetTimeout(t) \/ HaltedNak(t) \/ TrDone(t)
    PROVE  WakeInv'
<1>1. /\ Step(t) /\ run[t] = "on" /\ ~GivesUp(t) /\ StateMachine[t].State \in WaitStates
      /\ TrStateMachine[t].State \in {"TransferHalted", "Done"}
  BY DEF Step, HaltedDone, HaltedNyetTimeout, HaltedNak, TrDone, HaltedWith, At, GivesUp
<1>2. Runs(t) /\ t \in Active /\ ChannelOf(t) \in Channels /\ Chan(t) = ChannelOf(t)
      /\ TrStateMachine[t] \in TrSm
  BY <1>1, StepRuns, AtFacts DEF AcquireLock, Known, Types
<1>3. ~WaitsForPort(t)
  BY <1>1 DEF WaitsForPort
<1>4. CASE HaltedDone(t)
  <2>1. Moves(t) /\ ChTt' = ChTt /\ run'[t] = "on"
    BY <1>1, <1>2, <1>4
       DEF HaltedDone, HaltedWith, Moves, chVars, resumeVars, requestVars, cpuVars, Known, Types
  <2> QED BY <1>1, <1>3, <2>1, MovesWake DEF Busy
<1>5. CASE HaltedNyetTimeout(t) \/ HaltedNak(t) \/ TrDone(t)
  <2>1. /\ UNCHANGED <<ChannelMask, ChannelCallbacks, ChTrDatas, resumeVars, StateMachine,
                       NextStateMachine, answers, found>>
        /\ \A u \in Transfers \ {t} : TrStateMachine'[u] = TrStateMachine[u]
        /\ ChTt' = Unclaimed(t) /\ hc' = [hc EXCEPT ![Chan(t)] = "off"]
        /\ run'[t] \in {"revive", "reviveAndWait"}
    BY <1>5 DEF HaltedNyetTimeout, HaltedNak, TrDone, HaltedWith, Continue, resumeVars, smVars,
                requestVars, Known, Types
  <2>2. Moves(t) /\ ChTt'[ChannelOf(t)] = None
    BY <1>2, <2>1 DEF Moves, Unclaimed, Known, Types
  <2>3. GivesUp(t)' /\ Busy(t)'
    BY <2>1 DEF GivesUp, Busy
  <2> QED BY <1>1, <1>3, <2>2, <2>3, MovesWake
<1> QED BY <1>4, <1>5

LEMMA AdvanceWake ==
    ASSUME Known, WakeInv, NEW t \in Transfers, Advance(t)
    PROVE  WakeInv'
<1>1. run[t] = "advance" /\ Busy(t) /\ Step(t)
  BY DEF Advance, Busy, Step
<1>2. /\ t \in Active /\ StateMachine[t].State \in WaitStates /\ Fits(t) /\ ~Fresh(t)
  BY <1>1, MidFacts, BusyFacts
<1>3. TrStateMachine[t].State = "Done"
  BY <1>1, <1>2 DEF Fits, Progress, Waits
<1>4. /\ UNCHANGED <<ChTt, resumeVars, NextStateMachine, TrStateMachine, found, spinning>>
      /\ \A u \in Transfers \ {t} :
           answers'[u] = answers[u] /\ StateMachine'[u] = StateMachine[u] /\ run'[u] = run[u]
      /\ answers'[t] = answers[t] \/ StateMachine'[t].State = "Idle"
  BY DEF Advance, Continue, Return, Complete, cpuVars, Known, Types, ChSm
<1>5. \A u \in Transfers : /\ ChannelOf(u)' = ChannelOf(u) /\ (Fresh(u)' <=> Fresh(u))
                           /\ Resumed(u)' <=> Resumed(u)
  BY <1>4 DEF ChannelOf, Fresh, Resumed, resumeVars
<1>6. \A u \in Transfers \ {t} : /\ (u \in Active)' <=> u \in Active
                                 /\ WaitsForPort(u)' <=> WaitsForPort(u)
                                 /\ Idles(u)' /\ (GivesUp(u)' <=> GivesUp(u))
                                 /\ Busy(u)' <=> Busy(u)
  BY <1>2, <1>4, <1>5 DEF Active, WaitsForPort, Waits, Idles, WakeInv, GivesUp, Busy
<1>7. Idles(t)' /\ ~WaitsForPort(t) /\ ~WaitsForPort(t)' /\ ~GivesUp(t)
  BY <1>1, <1>2, <1>3, <1>4, <1>5 DEF Idles, WaitsForPort, GivesUp, Active
<1>8. Active \subseteq Transfers /\ Active' \subseteq Transfers
  BY DEF Active
<1> QED BY <1>4, <1>5, <1>6, <1>7, <1>8, WakeKeep DEF WillLook

\* A failure leaves the other ports alone.
LEMMA FailureWake ==
    ASSUME Known, FailsAlone, WakeInv, NEW t \in Transfers, HaltedFailure(t)
    PROVE  WakeInv'
<1>1. /\ Releases(t) /\ StateMachine'[t].State = "Idle"
      /\ t \in Active /\ ChannelOf(t) \in Channels /\ Fits(t) /\ ~GivesUp(t)
  <2>1. run[t] = "on"
    BY DEF HaltedFailure, HaltedWith, At
  <2> QED BY <2>1, HaltedFailureReleases, BusyFacts DEF Busy, GivesUp
<1>2. Active' = Active \ {t} /\ \A u \in Active \ {t} : Untouched(u)
  BY <1>1, ReleasesFrame
<1>3. ASSUME NEW u \in Transfers PROVE Idles(u)'
  <2>1. CASE u = t
    BY <1>1, <2>1 DEF Idles
  <2>2. CASE u # t
    <3>1. StateMachine'[u] = StateMachine[u] /\ (Fresh(u)' <=> Fresh(u))
      BY <1>1, <2>2 DEF Releases, resumeVars, Fresh, ChannelOf
    <3> QED BY <1>2, <2>2, <3>1 DEF Idles, WakeInv
  <2> QED BY <2>1, <2>2
<1>4. ASSUME NEW u \in Active \ {t}
      PROVE  /\ WaitsForPort(u)' <=> WaitsForPort(u)
             /\ WillLook(u) => WillLook(u)'
             /\ GivesUp(u) => GivesUp(u)'
  <2>1. u \in Transfers /\ Untouched(u)
    BY <1>2, Apart
  <2>2. Busy(u)' <=> Busy(u)
    BY <2>1 DEF Untouched, Busy
  <2> QED BY <2>1, <2>2, Frame DEF WillLook
<1>5. ASSUME NEW w \in Active', WaitsForPort(w)' PROVE Tended(TtPort[w])'
  <2>1. w \in Active \ {t} /\ w \in Transfers /\ WaitsForPort(w) /\ Fits(w)
    BY <1>2, <1>4, <1>5, Apart DEF Known, OwnInv
  <2>2. TtPort[w] # TtPort[t]
    BY <2>1 DEF FailsAlone, Waiting, WaitsForPort, Waits
  <2>3. Tended(TtPort[w]) /\ TtPort[w] # None
    BY <2>1 DEF WakeInv, Fits, Progress, WaitsForPort, Split
  <2>4. ASSUME NEW c \in Channels, ChTt[c] = TtPort[w] PROVE Tended(TtPort[w])'
    <3>1. ChTt[ChannelOf(t)] \in {TtPort[t], None}
      BY <1>1 DEF Fits, Shown
    <3>2. ChTt'[c] = ChTt[c]
      BY <1>1, <2>2, <2>3, <2>4, <3>1 DEF Releases
    <3> QED BY <2>4, <3>2 DEF Tended
  <2>5. ASSUME NEW u \in Active, TtPort[u] = TtPort[w], GivesUp(u) \/ WillLook(u)
        PROVE  Tended(TtPort[w])'
    BY <1>2, <1>4, <2>2, <2>5 DEF Tended
  <2> QED BY <2>3, <2>4, <2>5 DEF Tended
<1> QED BY <1>3, <1>5 DEF WakeInv

\* The first waiter of the port gets a timer.
LEMMA ReviveWake ==
    ASSUME Known, WakeInv, NEW t \in Transfers, Revive(t) \/ ReviveAndWait(t)
    PROVE  WakeInv'
<1>1. GivesUp(t) /\ Busy(t) /\ Step(t)
  BY DEF Revive, ReviveAndWait, GivesUp, Busy, Step
<1>2. t \in Active
  BY <1>1, BusyFacts
<1>3. /\ UNCHANGED <<ChTt, ChSmDpc, smVars, answers, found, spinning>>
      /\ ToRevive(t) \subseteq ChResumeTimers' /\ ChResumeTimers \subseteq ChResumeTimers'
      /\ \A u \in Transfers \ {t} : run'[u] = run[u]
  BY DEF Revive, ReviveAndWait, SetTimers, chVars, requestVars, Continue, Return, cpuVars,
         Known, Types
<1>4. Active' = Active /\ \A u \in Transfers : ChannelOf(u)' = ChannelOf(u)
  BY <1>3 DEF Active, ChannelOf, smVars
<1>5. \A u \in Transfers : /\ Idles(u)'
                           /\ WaitsForPort(u)' <=> WaitsForPort(u)
                           /\ Resumed(u) => Resumed(u)'
  BY <1>3, <1>4 DEF Idles, Fresh, WaitsForPort, Waits, Resumed, smVars, WakeInv
<1>6. Active \subseteq Transfers
  BY DEF Active
<1>7. ASSUME NEW w \in Active, WaitsForPort(w) PROVE Tended(TtPort[w])'
  <2>1. CASE TtPort[w] = TtPort[t]
    <3>1. Fits(w) /\ Waits(w) /\ TrStateMachine[w].State = "CheckFreePort"
          /\ ChannelOf(w) \in Channels
      BY <1>7, Apart DEF Known, OwnInv, WaitsForPort
    <3>2. w \in Transfers /\ run[w] # "advance"
      BY <1>6, <3>1 DEF Fits, Progress
    <3>3. ChTrDatas[ChannelOf(w)] = w
      BY <3>1, <3>2 DEF Fits, Shown
    <3>4. ChannelOf(w) \in Waiters(t)
      BY <2>1, <3>1, <3>2, <3>3, NoneApart DEF Waiters
    <3>5. Waiters(t) \subseteq Nat /\ Waiters(t) # {}
      BY <3>4, TransferAssumption DEF Waiters
    <3>6. PICK d \in ToRevive(t) : TRUE
      BY <3>5 DEF ToRevive
    <3>7. PICK u \in Active : /\ u = ChTrDatas[d] /\ ChannelOf(u) = d
                              /\ WaitsForPort(u) /\ TtPort[u] = TtPort[t]
      BY <1>1, <1>2, <3>6, Revived
    <3>8. Resumed(u)' /\ WaitsForPort(u)'
      BY <1>3, <1>4, <1>5, <1>6, <3>6, <3>7 DEF Resumed
    <3> QED BY <1>4, <2>1, <3>7, <3>8 DEF Tended, WillLook
  <2>2. CASE TtPort[w] # TtPort[t]
    <3>1. Tended(TtPort[w])
      BY <1>7 DEF WakeInv
    <3>2. ASSUME NEW c \in Channels, ChTt[c] = TtPort[w] PROVE Tended(TtPort[w])'
      BY <1>3, <3>2 DEF Tended
    <3>3. ASSUME NEW u \in Active, TtPort[u] = TtPort[w], GivesUp(u) \/ WillLook(u)
          PROVE  Tended(TtPort[w])'
      <4>1. u \in Transfers \ {t}
        BY <1>6, <2>2, <3>3
      <4>2. (GivesUp(u)' <=> GivesUp(u)) /\ (Busy(u)' <=> Busy(u))
        BY <1>3, <4>1 DEF GivesUp, Busy
      <4>3. GivesUp(u)' \/ WillLook(u)'
        BY <1>5, <3>3, <4>1, <4>2 DEF WillLook
      <4> QED BY <1>4, <3>3, <4>3 DEF Tended
    <3> QED BY <3>1, <3>2, <3>3 DEF Tended
  <2> QED BY <2>1, <2>2
<1> QED BY <1>4, <1>5, <1>6, <1>7 DEF WakeInv

\* A resumption on its way to a run goes on looking.
LEMMA WhoRunsWake ==
    ASSUME Known, WakeInv, NEW c \in Channels, RunSmDpc(c) \/ ResumeCh(c)
    PROVE  WakeInv'
<1>1. CASE RunSmDpc(c)
  <2>1. PICK t \in Transfers : /\ t = ChSmDpc[c] /\ t # None /\ t \in Active
                               /\ ChannelOf(t) = c /\ Fits(t)
    BY <1>1, Apart DEF RunSmDpc, Known, Types, OwnInv, OneAtATime, Works
  <2>2. /\ UNCHANGED <<answers, found, NextStateMachine, TrStateMachine, ChTt, ChResumeTimers, run>>
        /\ \A d \in Channels : ChSmDpc'[d] = IF d = c THEN None ELSE ChSmDpc[d]
        /\ \A u \in Transfers : StateMachine'[u] =
              IF u = t THEN NextStateMachine[u] ELSE StateMachine[u]
        /\ spinning' = spinning \union {t}
    BY <1>1, <2>1 DEF RunSmDpc, chVars, requestVars, Known, Types
  <2>3. Active' = Active /\ \A u \in Transfers : ChannelOf(u)' = ChannelOf(u)
    BY <2>2 DEF Active, ChannelOf
  <2>4. ASSUME NEW u \in Active \ {t}
        PROVE  /\ Idles(u)' /\ (WaitsForPort(u)' <=> WaitsForPort(u))
               /\ (Resumed(u)' <=> Resumed(u))
    <3>1. ChannelOf(u) \in Channels \ {c} /\ u \in Transfers \ {t}
      BY <2>1, Apart
    <3> QED BY <2>2, <2>3, <3>1
            DEF Idles, Fresh, WaitsForPort, Waits, Resumed, WakeInv
  <2>5. \A u \in Transfers \ Active : Idles(u)'
    BY <2>1, <2>2, <2>3 DEF Idles, WakeInv
  <2>6. ~Fresh(t)' /\ Idles(t)' /\ Busy(t)'
    BY <2>1, <2>2, <2>3 DEF Fresh, Idles, Busy
  <2>7. WaitsForPort(t)' <=> WaitsForPort(t)
    <3>1. CASE Fresh(t)
      BY <2>1, <2>2, <2>6, <3>1, StateFacts DEF Fresh, WaitsForPort, Waits
    <3>2. CASE ~Fresh(t)
      <4>1. NextStateMachine[t] = StateMachine[t]
        BY <2>1, <3>2 DEF Fits, Placed
      <4> QED BY <2>2, <2>6, <3>2, <4>1 DEF WaitsForPort, Waits
    <3> QED BY <3>1, <3>2
  <2>8. \A u \in Transfers : (GivesUp(u)' <=> GivesUp(u)) /\ (Busy(u) => Busy(u)')
    BY <2>2 DEF GivesUp, Busy
  <2>9. Active \subseteq Transfers
    BY DEF Active
  <2>10. \A u \in Transfers : Idles(u)'
    BY <2>4, <2>5, <2>6
  <2> QED BY <2>2, <2>3, <2>4, <2>6, <2>7, <2>8, <2>9, <2>10, WakeKeep DEF WillLook
<1>2. CASE ResumeCh(c)
  <2>1. PICK t \in Transfers : /\ t = ChResumeContexts[c] /\ t # None /\ t \in Active
                               /\ ChannelOf(t) = c /\ Fits(t) /\ ~Busy(t) /\ ChSmDpc[c] = None
    BY <1>2, Apart DEF ResumeCh, Known, OwnInv, OneAtATime, Works
  <2>2. ~Fresh(t) /\ StateMachine[t].Channel = c /\ StateMachine[t].State \notin BeginStates
    BY <2>1 DEF Fresh, Fits, Placed, Begins, Busy
  <2>3. /\ UNCHANGED <<answers, found, StateMachine, TrStateMachine, ChTt, run, spinning>>
        /\ \A d \in Channels : /\ ChSmDpc'[d] = IF d = c THEN t ELSE ChSmDpc[d]
                               /\ d # c => (d \in ChResumeTimers' <=> d \in ChResumeTimers)
        /\ \A u \in Transfers : NextStateMachine'[u] =
              IF u = t THEN StateMachine[u] ELSE NextStateMachine[u]
    BY <1>2, <2>1, <2>2 DEF ResumeCh, InvokeTrSm, chVars, requestVars, cpuVars, Known, Types
  <2>4. Active' = Active /\ \A u \in Transfers : ChannelOf(u)' = ChannelOf(u)
    BY <2>1, <2>2, <2>3 DEF Active, ChannelOf
  <2>5. ASSUME NEW u \in Active \ {t}
        PROVE  /\ Idles(u)' /\ (WaitsForPort(u)' <=> WaitsForPort(u))
               /\ (Resumed(u)' <=> Resumed(u))
    <3>1. ChannelOf(u) \in Channels \ {c} /\ u \in Transfers \ {t}
      BY <2>1, Apart
    <3> QED BY <2>3, <2>4, <3>1
            DEF Idles, Fresh, WaitsForPort, Waits, Resumed, WakeInv
  <2>6. \A u \in Transfers \ Active : Idles(u)'
    BY <2>3, <2>4 DEF Idles, WakeInv
  <2>7. ~Fresh(t)' /\ Idles(t)' /\ Resumed(t)' /\ (WaitsForPort(t)' <=> WaitsForPort(t))
    BY <2>1, <2>2, <2>3, <2>4, NoneApart DEF Fresh, Idles, Resumed, WaitsForPort, Waits
  <2>8. \A u \in Transfers : (GivesUp(u)' <=> GivesUp(u)) /\ (Busy(u)' <=> Busy(u))
    BY <2>3 DEF GivesUp, Busy
  <2>9. \A u \in Transfers : Idles(u)'
    BY <2>5, <2>6, <2>7
  <2>10. Active \subseteq Transfers
    BY DEF Active
  <2> QED BY <2>3, <2>4, <2>5, <2>7, <2>8, <2>9, <2>10, WakeKeep DEF WillLook
<1> QED BY <1>1, <1>2

LEMMA AskWake ==
    ASSUME Known, WakeInv, NEW t \in Transfers, Ask(t)
    PROVE  WakeInv'
<1>1. CASE FindChannel(t)
  <2>1. /\ UNCHANGED <<smVars, ChSmDpc, ChResumeTimers, ChTt, run, spinning>>
        /\ \A u \in Transfers \ {t} : answers'[u] = answers[u] /\ found'[u] = found[u]
        /\ answers[t] > 0
    BY <1>1 DEF FindChannel, chVars, resumeVars, cpuVars, Known, Types
  <2>2. found'[t] # None \/ answers'[t] = 1
    BY <1>1, FreeChannel, NoneApart DEF FindChannel, Known, Types
  <2>3. Active' = Active /\ \A u \in Transfers : ChannelOf(u)' = ChannelOf(u)
    BY <2>1, <2>2 DEF Active, ChannelOf, smVars
  <2>4. \A u \in Transfers : /\ Idles(u)' /\ (WaitsForPort(u)' <=> WaitsForPort(u))
                             /\ (WillLook(u) => WillLook(u)') /\ (GivesUp(u) => GivesUp(u)')
    BY <2>1, <2>3 DEF Idles, Fresh, WaitsForPort, Waits, WillLook, Resumed, GivesUp, Busy, smVars,
                      WakeInv
  <2>5. Active \subseteq Transfers
    BY DEF Active
  <2> QED BY <2>1, <2>3, <2>4, <2>5, WakeKeep
<1>2. ASSUME NEW l \in Lengths[t], Submit(t, l) PROVE WakeInv'
  <2>1. PICK c \in Channels : c = found[t] /\ c \notin ChannelMask /\ c # None
    BY <1>2 DEF Submit, Known, Types, OwnInv, Owners
  <2>2. t \notin Active /\ \A u \in Active : ChannelOf(u) # c
    BY <2>1 DEF Active, Known, OwnInv, Owners
  <2>3. ChSmDpc[c] = None
    BY <2>1, Apart
  <2>4. NextStateMachine'[t] =
            [State |-> IF Kind[t] = "Control" THEN "ControlSetup" ELSE "InterruptOrBulkData",
             Channel |-> c, Length |-> l]
    BY <1>2, <2>1 DEF Submit, Known, Types
  <2>5. NextStateMachine'[t].State \in BeginStates /\ ChannelOf(t)' = c
    BY <2>4 DEF BeginStates, ChStates, WaitStates, ChannelOf
  <2>6. /\ UNCHANGED <<answers, StateMachine, TrStateMachine, ChTt, ChResumeTimers, run, spinning>>
        /\ \A d \in Channels : ChSmDpc'[d] = IF d = c THEN t ELSE ChSmDpc[d]
        /\ \A u \in Transfers \ {t} :
              NextStateMachine'[u] = NextStateMachine[u] /\ found'[u] = found[u]
    BY <1>2, <2>1, <2>3 DEF Submit, InvokeTrSm, cpuVars, Known, Types
  <2>7. Fresh(t)' /\ ~WaitsForPort(t)'
    BY <2>1, <2>5, <2>6, NoneApart DEF Fresh, WaitsForPort, Waits
  <2>8. Idles(t)'
    BY <2>2, <2>6 DEF Idles, WakeInv
  <2>9. ASSUME NEW u \in Transfers \ {t}
        PROVE  /\ (u \in Active)' <=> u \in Active
               /\ Idles(u)'
               /\ u \in Active => /\ WaitsForPort(u)' <=> WaitsForPort(u)
                                  /\ WillLook(u) => WillLook(u)'
               /\ GivesUp(u) => GivesUp(u)'
    <3>1. ChannelOf(u)' = ChannelOf(u) /\ ((u \in Active)' <=> u \in Active)
          /\ (GivesUp(u) => GivesUp(u)')
      BY <2>6 DEF ChannelOf, Active, GivesUp
    <3>2. CASE u \notin Active
      BY <2>6, <3>1, <3>2 DEF Idles, WakeInv
    <3>3. CASE u \in Active
      <4>1. ChannelOf(u) \in Channels \ {c}
        BY <2>2, <3>3, Apart
      <4>2. (Fresh(u)' <=> Fresh(u)) /\ (Resumed(u)' <=> Resumed(u)) /\ (Busy(u)' <=> Busy(u))
        BY <2>6, <3>1, <4>1 DEF Fresh, Resumed, Busy
      <4> QED BY <2>6, <3>1, <3>3, <4>2 DEF Idles, WaitsForPort, Waits, WillLook, WakeInv
    <3> QED BY <3>1, <3>2, <3>3
  <2>10. Active \subseteq Transfers /\ Active' \subseteq Transfers
    BY DEF Active
  <2>11. \A u \in Active : u \in Transfers \ {t} /\ u \in Active'
    BY <2>2, <2>9, <2>10
  <2> QED BY <2>6, <2>7, <2>8, <2>9, <2>10, <2>11, WakeKeep
<1>3. CASE Purge(t) \/ PurgeCompleteAndStart(t)
  <2>1. UNCHANGED <<answers, found, smVars, ChSmDpc, ChResumeTimers, ChTt, run, spinning>>
    BY <1>3 DEF Purge, PurgeCompleteAndStart, chVars, resumeVars, cpuVars
  <2> QED BY <2>1, WakeSame DEF Busy, GivesUp
<1> QED BY <1>1, <1>2, <1>3 DEF Ask

LEMMA StepWake ==
    Known /\ WakeInv /\ [Next]_vars /\ [FailsAlone]_vars => WakeInv'
<1> SUFFICES ASSUME Known, WakeInv, [Next]_vars, [FailsAlone]_vars PROVE WakeInv'
  OBVIOUS
<1>1. ASSUME UNCHANGED vars PROVE WakeInv'
  BY <1>1, WakeSame DEF vars, chVars, requestVars, resumeVars, cpuVars, Busy, GivesUp
<1>2. ASSUME NEW t \in Transfers, Step(t) PROVE WakeInv'
  <2>1. ~RunIdle(t)
    BY BusyFacts DEF RunIdle, Busy
  <2>2. CASE HaltedFailure(t)
    BY <1>1, <2>2, FailureWake
  <2>3. CASE AcquireLock(t)
    <3>1. UNCHANGED <<answers, found, smVars, ChSmDpc, ChResumeTimers, ChTt>>
      BY <2>3 DEF AcquireLock, chVars, requestVars, resumeVars
    <3>2. \A u \in Transfers : (Busy(u) => Busy(u)') /\ (GivesUp(u) => GivesUp(u)')
      BY <2>3 DEF AcquireLock, Busy, GivesUp, Known, Types
    <3> QED BY <3>1, <3>2, WakeSame
  <2> QED BY <1>2, <2>1, <2>2, <2>3, StageWake, HaltWake, AdvanceWake, ReviveWake DEF Step
<1>3. ASSUME NEW c \in Channels, NEW o \in AllOutcomes, HwHalt(c, o) PROVE WakeInv'
  BY <1>3, WakeSame DEF HwHalt, chVars, requestVars, resumeVars, cpuVars, Busy, GivesUp
<1>4. CASE OnInterruptIsr \/ OnInterruptDpc
  BY <1>4, WakeSame DEF OnInterruptIsr, OnInterruptDpc, chVars, requestVars, resumeVars, Busy,
                        GivesUp
<1>5. CASE ServeChannel
  <2>1. UNCHANGED <<answers, found, smVars, ChSmDpc, ChResumeTimers, ChTt, spinning>>
    BY <1>5 DEF ServeChannel, chVars, requestVars, resumeVars
  <2>2. \A u \in Transfers : run[u] = "off" \/ run'[u] = run[u]
    BY <1>5 DEF ServeChannel, Known, Types
  <2> QED BY <2>1, <2>2, WakeSame DEF Busy, GivesUp
<1> QED BY <1>1, <1>2, <1>3, <1>4, <1>5, Steps, AskWake, WhoRunsWake

\* Transfers that wait for a port are woken (UsbDevice.c:548-572): while one
\* waits, the port has an owner, or is being given up, or a waiter will look at
\* it again - where no transfer of that port fails under it, FailsAlone, which
\* would end it without a revival, and no run enters a window of RunsApart.
THEOREM WaitersWake ==
    Spec /\ []RunsApart /\ [][FailsAlone]_vars => []WaitersAreWoken
<1>1. Init => WakeInv
  <2>1. Init => Active = {}
    BY DEF Init, Active
  <2> QED BY <2>1 DEF Init, WakeInv, Idles
<1>2. Known /\ WakeInv /\ [Next]_vars /\ [FailsAlone]_vars => WakeInv'
  BY StepWake
<1>3. ASSUME Known, WakeInv PROVE WaitersAreWoken
  <2> SUFFICES ASSUME NEW t \in Transfers, Waiting(t), ~PortTaken(t)
               PROVE  \E u \in Transfers : /\ TtPort[u] = TtPort[t]
                                           /\ \/ run[u] \in {"revive", "reviveAndWait"}
                                              \/ Waiting(u) /\ WillRun(u)
    BY DEF WaitersAreWoken
  <2>1. t \in Active /\ WaitsForPort(t)
    BY <1>3, StateFacts DEF Waiting, WakeInv, Idles, WaitsForPort, Waits
  <2>2. PICK u \in Active : TtPort[u] = TtPort[t] /\ (GivesUp(u) \/ WillLook(u))
    BY <1>3, <2>1 DEF WakeInv, Tended, PortTaken
  <2>3. u \in Transfers /\ ChannelOf(u) \in Channels
    BY <1>3, Apart
  <2>4. CASE GivesUp(u)
    BY <2>2, <2>3, <2>4 DEF GivesUp
  <2>5. CASE WillLook(u)
    <3>1. Waiting(u)
      BY <2>5 DEF WillLook, WaitsForPort, Waits, Waiting
    <3>2. ChSmDpc[ChannelOf(u)] # None => ChSmDpc[ChannelOf(u)] = u
      BY <1>3, <2>3, Apart DEF Known, OwnInv, OneAtATime, Works
    <3>3. ChannelOf(u) \in ChResumeTimers => ChResumeContexts[ChannelOf(u)] = u
      BY <1>3, <2>3, Apart DEF Known, OwnInv, OneAtATime, Works
    <3>4. WillRun(u)
      BY <2>3, <2>5, <3>2, <3>3 DEF WillLook, Busy, Resumed, WillRun
    <3> QED BY <2>2, <2>3, <3>1, <3>4
  <2> QED BY <2>2, <2>4, <2>5
<1> QED BY <1>1, <1>2, <1>3, OwnInvariant, PTL DEF Spec
=============================================================================
