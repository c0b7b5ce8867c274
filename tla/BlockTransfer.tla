---------------------------- MODULE BlockTransfer ----------------------------
(***************************************************************************)
(* What stage1's xmodem mode promises the host that uploads an image: the  *)
(* blocks of the file arrive in the buffer one at a time, each exactly     *)
(* once and in file order, and the transfer is declared finished only when *)
(* the buffer holds the whole file.                                        *)
(*                                                                         *)
(* A block is identified by its position in the file, so the file itself   *)
(* is the sequence 1, 2, ..., N.                                           *)
(***************************************************************************)
EXTENDS Naturals, Sequences

CONSTANT N  (* blocks in the file *)

VARIABLES
  image,     (* the blocks held by the receiver, in buffer order *)
  finished   (* has the receiver declared the end of the file?   *)

vars == <<image, finished>>

Init == image = <<>> /\ finished = FALSE

Deliver ==
  /\ ~finished
  /\ Len(image) < N
  /\ image' = Append(image, Len(image) + 1)
  /\ UNCHANGED finished

Finish ==
  /\ ~finished
  /\ Len(image) = N
  /\ finished' = TRUE
  /\ UNCHANGED image

Next == Deliver \/ Finish

Spec == Init /\ [][Next]_vars
=============================================================================
