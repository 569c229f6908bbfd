------------------------------- MODULE SdSlot -------------------------------
(***************************************************************************)
(* What a miniport promises the port driver about one slot: a request that *)
(* has been issued owes some bytes, the bytes are moved, and the answer    *)
(* comes once: a success only when nothing is owed any more, or a failure, *)
(* after which the slot has to be recovered before the next request.       *)
(***************************************************************************)
EXTENDS Integers

CONSTANT Lengths           \* how many bytes a request may be for

VARIABLES phase,           \* "free", "busy" or "failed"
          owed             \* the bytes of the request not moved yet

slot == <<phase, owed>>

Start == phase = "failed" /\ owed = {}

Issue ==
    /\ phase = "free"
    /\ \E n \in Lengths : owed' = 0 .. n - 1
    /\ phase' \in {"busy", "failed"}

Move ==
    /\ phase = "busy"
    /\ owed' \subseteq owed
    /\ phase' = phase

\* The last bytes may be moved in the step that answers.
Succeed ==
    /\ phase = "busy"
    /\ owed' = {}
    /\ phase' = "free"

Fail ==
    /\ phase = "busy"
    /\ phase' = "failed"
    /\ owed' = owed

Recover ==
    /\ phase = "failed"
    /\ phase' = "free"
    /\ owed' = owed

Step == Issue \/ Move \/ Succeed \/ Fail \/ Recover

Slot == Start /\ [][Step]_slot
=============================================================================
