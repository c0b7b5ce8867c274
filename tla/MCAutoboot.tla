----------------------------- MODULE MCAutoboot -----------------------------
(* Instances of Autoboot for TLC: more keys than the buffers hold, a       *)
(* trigger level that one key does not reach, and a transmit FIFO that the *)
(* handler can fill.                                                       *)
EXTENDS Autoboot
=============================================================================
