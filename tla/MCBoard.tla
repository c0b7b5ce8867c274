------------------------------ MODULE MCBoard --------------------------------
(* An instance of Board for TLC. *)
EXTENDS Board

MCLists  == {<<0, 1>>}
MCFuses  == {[a \in OtpAddrs |-> {1 - a}]}
MCWrites == {{0}, {0, 1}}

MCSdPins   == <<3, 4>>
MCTests    == <<2, 5>>
MCModes    == {<<1, 3>>, <<2, 1>>, <<5, 1>>, <<7, 1>>}
MCOutputs  == {<<2, TRUE>>, <<5, FALSE>>, <<14, TRUE>>}
MCTransfers == {<<3, 0>>, <<0, 3>>, <<2, 1>>, <<0, 0>>}
=============================================================================
