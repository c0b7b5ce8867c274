--------------------------- MODULE MCDisplayList ----------------------------
(* An instance of DisplayList for TLC: planes of two words, in a memory    *)
(* that has room for short lists side by side, for one of the longer ones, *)
(* and not for the list of all sprites.                                    *)
EXTENDS HvsDump
=============================================================================
