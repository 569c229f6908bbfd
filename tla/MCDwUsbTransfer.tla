--------------------------- MODULE MCDwUsbTransfer ---------------------------
(* Small sets of endpoints for the runs of DwUsbTransfer.                    *)
EXTENDS DwUsbTransfer, TLC

CONSTANTS control, bulk, port

ControlAndBulk == {control, bulk}
BulkOnly == {bulk}
TwoChannels == {0, 1}
OneChannel == {0}

MixedKinds == [t \in Transfers |-> IF t = control THEN "Control" ELSE "InterruptOrBulk"]

\* All behind one translator port, or none behind any.
OnePort == [t \in Transfers |-> port]
NoPort == [t \in Transfers |-> None]

\* What requests carry: nothing for the control pipe and a packet for the other, or
\* several lengths.
ZeroOrOnePacket == [t \in Transfers |-> IF t = control THEN {0} ELSE {1}]
MixedPackets == [t \in Transfers |-> IF t = control THEN {0, 2} ELSE {1, 2}]
=============================================================================
