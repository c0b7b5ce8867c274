------------------------------ MODULE MCXmodem ------------------------------
(* Instance of Xmodem for TLC: block numbers wrap within the file (M < N). *)
EXTENDS Xmodem
=============================================================================
