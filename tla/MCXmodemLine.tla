---------------------------- MODULE MCXmodemLine ----------------------------
(* Instances of XmodemLine for TLC.  The file is long enough to have a     *)
(* block with the number 4, and holds the byte 4 as well.                  *)
EXTENDS XmodemLine

ShortFile == <<4, 2, 5, 4, 3>>
=============================================================================
