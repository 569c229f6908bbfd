----------------------------- MODULE MCUsbDevice -----------------------------
(* Two attachments and three addresses, which requests that fail and devices *)
(* that are reset and addressed again use up.  The attachments are           *)
(* interchangeable.                                                          *)
EXTENDS UsbDevice, TLC

Symmetry == Permutations(Devices)
=============================================================================
