------------------------------ MODULE MCSdHost ------------------------------
(* Instances of SdHost for TLC: sectors longer than one word, a FIFO that  *)
(* can hold words of two sectors, and cards of four sectors, each of which *)
(* gives its size in its own way; sectors have so many bytes that a field  *)
(* of the size fills three bytes of the register, and all bits around the  *)
(* fields that count are set.                                              *)
EXTENDS SdHost

AllSet == [n \in 0..15 |-> 255]

\* The version; the multiplier 0 and the length of a block; the size.
V1 == [AllSet EXCEPT ![15] = 63, ![5] = 127, ![6] = 252]

MCRegister ==
  [k \in Kinds |->
     CASE k = "v1" -> [V1 EXCEPT ![10] = 240, ![9] = 253]
       [] k = "v2" -> [V1 EXCEPT ![10] = 241, ![9] = 252]
       [] k = "hc" -> [AllSet EXCEPT ![15] = 127, ![7] = 7, ![8] = 192]]
=============================================================================
