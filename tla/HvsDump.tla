------------------------------- MODULE HvsDump --------------------------------
(***************************************************************************)
(* The command hvs_dump (platform/bcm28xx/hvs/hvs.c) beside the updates of *)
(* DisplayList: it reads DISPLIST1 once and walks the list from there,     *)
(* word by word, printing each.  Printing is slow and interrupts are on,   *)
(* so that the handler may write and publish lists meanwhile.  The dump of *)
(* the other registers is left out.                                        *)
(***************************************************************************)
EXTENDS DisplayList

CONSTANT DumpWords   (* the walk ends that far behind its start: 64 *)

ASSUME DumpAssumption == DumpWords \in Nat \ {0}

VARIABLE dump   (* on: does it walk? list1 and i: its locals; moved: history,
                   has the list that it began with been replaced, or
                   had a list to be written over it, since? *)

dumpVars == <<vars, dump>>

-----------------------------------------------------------------------------
DumpBegin ==
  /\ Runs("console") /\ cmd = "none" /\ typed < MaxCommands
  /\ typed' = typed + 1 /\ cmd' = "dump"
  /\ dump' = [on |-> TRUE, list1 |-> displist, i |-> displist, moved |-> clash # "none"]
  /\ UNCHANGED <<listVars, upd, spriteVars, hvsVars, pending>>

(* What a word can be read as.  A word from within a plane can be anything,*)
(* and the end of the memory is not the end of the walk.                   *)
ReadAs(i) == IF i \in Slots /\ mem[i] # Body THEN {mem[i]} ELSE Word

(* Mutant: the loop's own step is forgotten, the words counted in full.    *)
NextWordFull(i, w) == IF w \in Nat /\ w > 1 THEN i + w + 1 ELSE i + 1

(* The loop's step, which the words of a plane but one come before.        *)
NextWord(i, w) == IF w \in Nat /\ w > 1 THEN i + w ELSE i + 1

DumpStep ==
  /\ Runs("console") /\ dump.on
  /\ \E w \in ReadAs(dump.i) :
       LET goes == w # End /\ NextWord(dump.i, w) < dump.list1 + DumpWords
       IN  /\ dump' = [dump EXCEPT !.on = goes, !.i = IF goes THEN NextWord(@, w) ELSE @]
           /\ cmd' = IF goes THEN "dump" ELSE "none"
  /\ UNCHANGED <<listVars, upd, spriteVars, typed, hvsVars, pending>>

Beside ==
  /\ Next
  /\ dump' = [dump EXCEPT !.moved = @ \/ (dump.on /\ (displist' # displist \/ clash' # "none"))]

-----------------------------------------------------------------------------
DumpInit == Init /\ dump = [on |-> FALSE, list1 |-> displist, i |-> displist, moved |-> FALSE]

DumpNext == DumpBegin \/ DumpStep \/ Beside

DumpSpec == DumpInit /\ [][DumpNext]_dumpVars

-----------------------------------------------------------------------------
(* Where the planes of a list begin, and its end.                          *)
Heads[w \in Slots] == {w} \cup IF IsPlane(w) THEN Heads[w + mem[w]] ELSE {}

(* As long as DISPLIST1 still points to the list that the dump began with, *)
(* and there was room beside it for the lists begun since, every word that *)
(* the dump takes for the first of a plane, or for the end, is one.        *)
(* (After that, the list may be overwritten, and the dump print anything.) *)
DumpFollowsList == dump.on /\ ~dump.moved => dump.i \in Heads[dump.list1]
=============================================================================
