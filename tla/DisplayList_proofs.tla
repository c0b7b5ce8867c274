------------------------- MODULE DisplayList_proofs --------------------------
(***************************************************************************)
(* Proofs about DisplayList, for every limit that is typed and with the    *)
(* command "u": the cursor stays inside the list memory, or has left it by *)
(* no more than a list that does not fit, or one that others were written  *)
(* within, has too many words; the sprites stay on the screen; and as long *)
(* as there was room beside the list that is shown, what is shown is a     *)
(* list, and no word of it is changed while it is scanned.                 *)
(* About HvsDump: the dump follows the planes of that list.                *)
(* About Video, which begins with the bring-up: it hands over to the       *)
(* updates a ring of lists, a cursor with room behind it and a sprite on a *)
(* screen of known size, and shows nothing but lists on the way; and the   *)
(* pixel that moves over the DPI's screen leaves no trail.                 *)
(*                                                                         *)
(* InMemory is not inductive: an update checks for room once, and then     *)
(* writes.  The invariant RoomInv counts the words at every step of it.    *)
(* Of an update of the console that the interrupt's were made within the   *)
(* count is lost, but it goes on from a cursor before High (NestInv).      *)
(* InBox is not either: a sprite beyond the right edge must have come from *)
(* inside it, or it would turn away from the edge again (SpriteInv).  And  *)
(* of the bring-up it must be known where each step leaves the cursor, and *)
(* that no interrupt comes before the last one (ComingUp).                 *)
(*                                                                         *)
(* That a list is shown (Shown) holds from one update to the next only     *)
(* because the new list is written where the one that is shown is not:     *)
(* RingInv keeps the two apart and says how far the new one has come.      *)
(* That they are apart follows, when an update begins, from there being    *)
(* any place for the new list at all, since the cursor is where the list   *)
(* that is shown has left it (RoomIsClear).  A list is given there by the  *)
(* first words of its planes; that the functions that follow it (IsList,   *)
(* ListWords, Heads) do so is an induction over the words of the memory,   *)
(* from its end (WordInduction), in which a set stands for the induction's *)
(* predicate.                                                              *)
(***************************************************************************)
EXTENDS Video, HvsDump, FiniteSetTheorems, TLAPS

(* What an update with n planes still to write needs. *)
Need(n) == n * ScaledWords + 1

(* A list of as many planes as the limit l says fits into the memory.      *)
Fits(l) == Need(l) <= Size

Updates == [pc : {"idle", "planes", "plane", "publish"}, start : Nat, plane : Nat, i : Nat]

(* Nobody but this caller makes an update. *)
Alone(who) == \A v \in Callers : v # who => upd[v].pc = "idle"

(* The update u was given words inside the memory, or its list does not    *)
(* fit by itself, and goes to 0.                                           *)
Placed(u) == u.start + Need(limit) <= Size \/ (u.start = 0 /\ ~Fits(limit))

(* The cursor, and what is still to be written, are at the end of them.    *)
Counted(u) ==
  CASE u.pc = "planes"  -> /\ u.i <= limit /\ u.start <= slot
                           /\ slot + Need(limit - u.i) = u.start + Need(limit)
    [] u.pc = "plane"   -> /\ u.i < limit /\ u.start <= u.plane /\ slot = u.plane + 1
                           /\ u.plane + Need(limit - u.i) = u.start + Need(limit)
    [] u.pc = "publish" -> slot = u.start + Need(limit)
    [] OTHER            -> slot <= Size

Counters == limit \in Nat /\ slot \in Nat /\ upd \in [Callers -> Updates]

(* The update that this caller makes has the room it needs.                *)
RoomInv(who) ==
  /\ Counters
  /\ upd[who].pc # "idle" => Placed(upd[who])
  /\ Counted(upd[who])

(* The types of the variables; and the console makes an update only in its *)
(* command "u".                                                            *)
TypeInv ==
  /\ Counters
  /\ mem \in [Slots -> Int] /\ displist \in Nat
  /\ clash \in {"none", "list", "update"}
  /\ upd["console"].pc # "idle" => cmd = "update"

(* The inductive invariant: as long as no update has begun within another, *)
(* there is one caller that makes one, with the room that it needs.        *)
IInv == TypeInv /\ (clash # "update" => \E who \in Callers : Alone(who) /\ RoomInv(who))

-----------------------------------------------------------------------------
(* The limits and the sizes are numbers. *)
LEMMA Numbers ==
  /\ ScaledWords \in Nat /\ ScaledWords >= 1
  /\ Size \in Nat /\ High \in Nat /\ High <= Size
  /\ UnityWords \in Nat /\ 2 * UnityWords + ScaledWords + 2 <= High
  /\ WordsField \in Nat /\ WordsField >= 1
BY DisplayAssumption DEF DisplayAssumption

(* One plane less needs as many words less. *)
LEMMA NeedLess ==
  ASSUME NEW n \in Nat, n >= 1
  PROVE  Need(n) = Need(n - 1) + ScaledWords
<1>1. n * ScaledWords = (n - 1) * ScaledWords + ScaledWords
  BY Numbers
<1> QED
  BY <1>1, Numbers DEF Need

(* Whatever is still to be written needs a word at least. *)
LEMMA NeedSome ==
  ASSUME NEW n \in Nat
  PROVE  Need(n) \in Nat /\ Need(n) >= 1
<1>1. n * ScaledWords \in Nat
  BY Numbers
<1> QED
  BY <1>1 DEF Need

(* Where a new list goes: it has the room it needs, or goes to 0.          *)
LEMMA RoomForList ==
  ASSUME NEW s \in Nat, limit \in Nat
  PROVE  /\ Room(s) \in {0, s}
         /\ Room(s) + Need(limit) <= Size \/ (Room(s) = 0 /\ ~Fits(limit))
<1>1. limit * ScaledWords \in Nat
  BY Numbers
<1> QED
  BY <1>1, Numbers DEF Room, Need, Fits

(* What is written is written, and what is not is kept.                    *)
LEMMA FilledIs ==
  ASSUME NEW m \in [Slots -> Int], NEW first \in Int, NEW n \in Int, NEW v \in Int
  PROVE  /\ Filled(m, first, n, v) \in [Slots -> Int]
         /\ \A w \in Slots : w \in first..(first + n - 1) => Filled(m, first, n, v)[w] = v
         /\ \A w \in Slots : w \notin first..(first + n - 1) => Filled(m, first, n, v)[w] = m[w]
BY DEF Filled

-----------------------------------------------------------------------------
(* What the steps of an update leave alone, and the types of what they do  *)
(* not.                                                                    *)

(* The state of an update, as a step of it changes it.                     *)
LEMMA UpdateTypes ==
  ASSUME Counters, NEW who \in Callers, UpdateStep(who)
  PROVE  /\ Counters' /\ limit' = limit /\ delay' = delay
         /\ \A v \in Callers : v # who => upd'[v] = upd[v]
         /\ Runs(who) /\ upd[who].pc # "idle" /\ upd[who] \in Updates
         /\ sprite' \in {sprite, Moved(sprite)}
         /\ clash' \in {clash, "none"} /\ (clash = "update" => clash' = clash)
         /\ displist' \in {displist, upd[who].start}
<1> USE DEF Counters
<1>1. upd[who] \in Updates
  OBVIOUS
<1>2. upd[who].start \in Nat /\ upd[who].i \in Nat /\ upd[who].plane \in Nat
  BY <1>1 DEF Updates
<1>3. CASE PlaneOpen(who)
  <2>1. upd' = [upd EXCEPT ![who].pc = "plane", ![who].plane = slot]
    BY <1>3 DEF PlaneOpen
  <2>2. upd' \in [Callers -> Updates] /\ \A v \in Callers : v # who => upd'[v] = upd[v]
    BY <1>2, <2>1 DEF Updates
  <2> QED
    BY <1>1, <1>3, <2>2 DEF PlaneOpen
<1>4. CASE PlaneClose(who)
  <2>1. upd' = [upd EXCEPT ![who].pc = "planes", ![who].i = @ + 1]
    BY <1>4 DEF PlaneClose
  <2>2. upd' \in [Callers -> Updates] /\ \A v \in Callers : v # who => upd'[v] = upd[v]
    BY <1>2, <2>1 DEF Updates
  <2>3. slot' \in Nat
    BY <1>4, Numbers DEF PlaneClose
  <2> QED
    BY <1>1, <1>4, <2>2, <2>3 DEF PlaneClose, spriteVars
<1>5. CASE TerminateList(who)
  <2>1. upd' = [upd EXCEPT ![who].pc = "publish"]
    BY <1>5 DEF TerminateList
  <2>2. upd' \in [Callers -> Updates] /\ \A v \in Callers : v # who => upd'[v] = upd[v]
    BY <1>2, <2>1 DEF Updates
  <2> QED
    BY <1>1, <1>5, <2>2 DEF TerminateList, spriteVars
<1>6. CASE Overflow(who)
  <2>1. Room(0) = 0
    BY DEF Room
  <2>2. upd' = [upd EXCEPT ![who] = [pc |-> "planes", start |-> 0, plane |-> 0, i |-> 0]]
        /\ slot' = 0
    BY <1>6, <2>1 DEF Overflow, StartList
  <2>3. upd' \in [Callers -> Updates] /\ \A v \in Callers : v # who => upd'[v] = upd[v]
    BY <2>2 DEF Updates
  <2> QED
    BY <1>1, <1>6, <2>2, <2>3 DEF Overflow, spriteVars
<1>7. CASE Publish(who)
  <2>1. upd' = [upd EXCEPT ![who] = Idle]
    BY <1>7 DEF Publish
  <2>2. upd' \in [Callers -> Updates] /\ \A v \in Callers : v # who => upd'[v] = upd[v]
    BY <2>1 DEF Updates, Idle
  <2>3. slot' \in Nat
    BY <1>7 DEF Publish, Wrapped
  <2> QED
    BY <1>1, <1>7, <2>2, <2>3 DEF Publish, spriteVars
<1> QED
  BY <1>3, <1>4, <1>5, <1>6, <1>7 DEF UpdateStep

(* The list memory, as a step of an update changes it.                     *)
LEMMA UpdateWrites ==
  ASSUME Counters, mem \in [Slots -> Int], NEW who \in Callers, UpdateStep(who)
  PROVE  mem' \in [Slots -> Int]
<1>1. upd[who].plane \in Nat /\ slot \in Nat
  BY DEF Counters, Updates
<1>2. CASE PlaneOpen(who)
  BY <1>2 DEF PlaneOpen, Filled, Body
<1>3. CASE PlaneClose(who)
  <2>1. PICK v \in Int :
          mem' = Filled(Filled(mem, slot, ScaledWords - 1, Body), upd[who].plane, 1, v)
    BY <1>1, <1>3, Numbers DEF PlaneClose
  <2> QED
    BY <2>1 DEF Filled, Body
<1>4. CASE TerminateList(who)
  BY <1>4 DEF TerminateList, Filled, End
<1>5. CASE Overflow(who) \/ Publish(who)
  BY <1>5 DEF Overflow, Publish
<1> QED
  BY <1>2, <1>3, <1>4, <1>5 DEF UpdateStep

(* An update that begins, or is not due. *)
LEMMA BeginTypes ==
  ASSUME Counters, NEW who \in Callers, NEW f, UpdateBegin(who, f)
  PROVE  /\ Counters' /\ UNCHANGED <<mem, displist, limit, delay, sprite>>
         /\ \A v \in Callers : v # who => upd'[v] = upd[v]
         /\ Runs(who) /\ upd[who].pc = "idle"
         /\ clash' \in {clash, "none", "list", "update"}
         /\ clash = "update" => clash' = "update"
         /\ \/ UNCHANGED <<slot, upd, clash>>
            \/ /\ slot' = Room(slot) /\ clash' = NextClash
               /\ upd'[who] = [pc |-> "planes", start |-> Room(slot), plane |-> Room(slot), i |-> 0]
<1> USE DEF Counters, UpdateBegin
<1>1. UNCHANGED <<mem, displist, limit, delay, sprite>> /\ Runs(who) /\ upd[who].pc = "idle"
  BY DEF spriteVars
<1>2. CASE Due(f)
  <2>1. Room(slot) \in Nat
    BY RoomForList
  <2>2. slot' = Room(slot) /\ clash' = NextClash
    BY <1>2 DEF StartList
  <2>3. upd' = [upd EXCEPT ![who] = [pc |-> "planes", start |-> Room(slot),
                                     plane |-> Room(slot), i |-> 0]]
    BY <1>2 DEF StartList
  <2>4. upd' \in [Callers -> Updates]
    BY <2>1, <2>3 DEF Updates
  <2>5. clash' \in {"none", "list", "update"} /\ (clash = "update" => clash' = "update")
    BY <2>2 DEF NextClash
  <2> QED
    BY <1>1, <2>1, <2>2, <2>3, <2>4, <2>5
<1>3. CASE ~Due(f)
  BY <1>1, <1>3
<1> QED
  BY <1>2, <1>3

(* Every step keeps the types.                                             *)
LEMMA NextTypes ==
  ASSUME TypeInv, [Next]_vars
  PROVE  TypeInv'
<1> USE DEF TypeInv
<1>1. "irq" \in Callers /\ "console" \in Callers /\ "irq" # "console"
  BY DEF Callers
<1>2. ASSUME NEW who \in Callers, UpdateStep(who)
      PROVE  /\ Counters' /\ mem' \in [Slots -> Int] /\ displist' \in Nat
             /\ clash' \in {"none", "list", "update"}
  <2>1. upd[who].start \in Nat
    BY DEF Counters, Updates
  <2> QED
    BY <1>2, <2>1, UpdateTypes, UpdateWrites
<1>3. CASE PvIrq
  <2>1. UpdateBegin("irq", frame) /\ cmd' = cmd
    BY <1>3 DEF PvIrq, cmdVars
  <2> QED
    BY <1>1, <2>1, BeginTypes
<1>4. CASE IrqStep
  <2>1. UpdateStep("irq") /\ cmd' = cmd
    BY <1>4 DEF IrqStep, cmdVars
  <2> QED
    BY <1>1, <1>2, <2>1, UpdateTypes
<1>5. CASE UpdateCommand
  <2>1. UpdateBegin("console", 0) /\ (upd'["console"].pc # "idle" => cmd' = "update")
    BY <1>5 DEF UpdateCommand
  <2> QED
    BY <1>1, <2>1, BeginTypes
<1>6. CASE UpdateCommandStep
  <2>1. UpdateStep("console") /\ (upd'["console"].pc # "idle" => cmd' = "update")
    BY <1>6 DEF UpdateCommandStep
  <2> QED
    BY <1>1, <1>2, <2>1
<1>7. CASE LimitStore \/ LimitClamp \/ SetDelay \/ ScramblePlace \/ ScrambleSpeed \/ ScrambleEdge
  <2>1. cmd # "update" /\ UNCHANGED <<mem, slot, displist, clash, upd>>
    BY <1>7 DEF LimitStore, LimitClamp, SetDelay, ScramblePlace, ScrambleSpeed, ScrambleEdge,
                Typing, Command, listVars
  <2>2. limit' \in {limit, Items} \cup Typed
    BY <1>7 DEF LimitStore, LimitClamp, SetDelay, ScramblePlace, ScrambleSpeed, ScrambleEdge
  <2>3. limit' \in Nat
    BY <2>2, DisplayAssumption DEF DisplayAssumption, Counters
  <2> QED
    BY <2>1, <2>3 DEF Counters
<1>8. CASE FrameStart \/ FrameShown \/ UNCHANGED vars
  BY <1>8 DEF FrameStart, FrameShown, vars, listVars, spriteVars, cmdVars, Counters
<1> QED
  BY <1>3, <1>4, <1>5, <1>6, <1>7, <1>8 DEF Next, Console

LEMMA InitTypes ==
  ASSUME Init
  PROVE  TypeInv
<1>1. mem \in [Slots -> Int]
  BY Numbers DEF Init, End, Body
<1>2. Counters /\ displist \in Nat /\ upd["console"].pc = "idle"
  BY Numbers DEF Init, Counters, Idle, Updates, Callers
<1> QED
  BY <1>1, <1>2 DEF Init, TypeInv

-----------------------------------------------------------------------------
(* One lemma per action of an update: what it does to the count, the limit *)
(* being the same afterwards.                                              *)

(* Nobody else begins to make an update.                                   *)
LEMMA AloneStays ==
  ASSUME NEW who \in Callers, Counters, Alone(who),
         UpdateStep(who) \/ \E f \in {0, frame} : UpdateBegin(who, f)
  PROVE  Alone(who)'
BY UpdateTypes, BeginTypes DEF Alone

(* What is known before a step of an update.                               *)
LEMMA StepFacts ==
  ASSUME NEW who \in Callers, RoomInv(who), UpdateStep(who)
  PROVE  /\ Counters' /\ limit' = limit
         /\ upd[who] \in Updates /\ Placed(upd[who]) /\ Counted(upd[who])
         /\ upd[who].start \in Nat /\ upd[who].plane \in Nat /\ upd[who].i \in Nat
         /\ limit \in Nat /\ slot \in Nat /\ Need(limit) \in Nat
BY UpdateTypes, NeedSome DEF RoomInv, Counters, Updates

(* An update that begins has the room it needs, or goes to 0, wherever the *)
(* cursor was.                                                             *)
LEMMA StartHasRoom ==
  ASSUME Counters, NEW who \in Callers, Counters', limit' = limit, slot' = Room(slot),
         upd'[who] = [pc |-> "planes", start |-> Room(slot), plane |-> Room(slot), i |-> 0]
  PROVE  RoomInv(who)'
<1>1. PICK r \in Nat : r = Room(slot)
  BY RoomForList DEF Counters
<1>2. r + Need(limit) <= Size \/ (r = 0 /\ ~Fits(limit))
  BY <1>1, RoomForList DEF Counters
<1>3. slot' = r /\ upd'[who].pc = "planes" /\ upd'[who].start = r /\ upd'[who].i = 0
  BY <1>1
<1>4. Placed(upd[who])'
  BY <1>2, <1>3 DEF Placed, Need, Fits
<1>5. limit' - upd'[who].i = limit' /\ limit' \in Nat
  BY <1>3 DEF Counters
<1>6. Counted(upd[who])'
  BY <1>1, <1>3, <1>5 DEF Counted
<1> QED
  BY <1>4, <1>6 DEF RoomInv

LEMMA BeginKeeps ==
  ASSUME NEW who \in Callers, RoomInv(who), NEW f, UpdateBegin(who, f)
  PROVE  RoomInv(who)'
<1>1. Counters /\ Counters' /\ limit' = limit
  BY BeginTypes DEF RoomInv
<1>2. CASE UNCHANGED <<slot, upd, clash>>
  BY <1>1, <1>2 DEF RoomInv, Placed, Counted, Need, Fits
<1> QED
  BY <1>1, <1>2, BeginTypes, StartHasRoom

(* The first word of a plane. *)
LEMMA OpenKeeps ==
  ASSUME NEW who \in Callers, RoomInv(who), PlaneOpen(who)
  PROVE  /\ RoomInv(who)' /\ limit' = limit /\ slot' = slot + 1 /\ slot \in Nat
         /\ upd'[who].pc = "plane" /\ upd'[who].plane = slot
         /\ upd'[who].i = upd[who].i /\ upd'[who].start = upd[who].start
<1> DEFINE u == upd[who]
<1>1. /\ Counters' /\ limit' = limit
      /\ u \in Updates /\ Placed(u) /\ Counted(u) /\ u.start \in Nat /\ u.i \in Nat
      /\ limit \in Nat /\ slot \in Nat /\ Need(limit) \in Nat
  BY StepFacts DEF UpdateStep
<1>2. slot' = slot + 1 /\ u.pc = "planes" /\ u.i < limit
  BY DEF PlaneOpen
<1>3. /\ upd'[who].pc = "plane" /\ upd'[who].plane = slot
      /\ upd'[who].i = u.i /\ upd'[who].start = u.start
  BY <1>1 DEF PlaneOpen, RoomInv, Counters, Updates
<1>4. u.start <= slot /\ slot + Need(limit - u.i) = u.start + Need(limit)
  BY <1>1, <1>2 DEF Counted
<1> HIDE DEF u
<1>5. Counted(upd[who])'
  BY <1>1, <1>2, <1>3, <1>4 DEF Counted, Need
<1>6. Placed(upd[who])'
  BY <1>1, <1>3 DEF Placed, Need, Fits
<1> QED
  BY <1>1, <1>2, <1>3, <1>5, <1>6 DEF RoomInv, u

(* The other words of the plane: a plane less is needed. *)
LEMMA CloseKeeps ==
  ASSUME NEW who \in Callers, RoomInv(who), PlaneClose(who)
  PROVE  /\ RoomInv(who)' /\ limit' = limit /\ slot' = upd[who].plane + ScaledWords
         /\ upd'[who].pc = "planes" /\ upd'[who].start = upd[who].start
<1> DEFINE u == upd[who]
           n == limit - u.i
<1>1. /\ Counters' /\ limit' = limit
      /\ u \in Updates /\ Placed(u) /\ Counted(u)
      /\ u.start \in Nat /\ u.i \in Nat /\ u.plane \in Nat
      /\ limit \in Nat /\ slot \in Nat /\ Need(limit) \in Nat
  BY StepFacts DEF UpdateStep
<1>2. u.pc = "plane" /\ slot' = slot + ScaledWords - 1
  BY DEF PlaneClose
<1>3. u.i < limit /\ u.start <= u.plane /\ slot = u.plane + 1
      /\ u.plane + Need(n) = u.start + Need(limit)
  BY <1>1, <1>2 DEF Counted
<1>4. /\ upd'[who].pc = "planes" /\ upd'[who].i = u.i + 1 /\ upd'[who].start = u.start
  <2>1. upd' = [upd EXCEPT ![who].pc = "planes", ![who].i = @ + 1]
    BY DEF PlaneClose
  <2> QED
    BY <2>1, <1>1 DEF RoomInv, Counters, Updates
<1> HIDE DEF u
<1>5. n \in Nat /\ n >= 1 /\ limit' - upd'[who].i = n - 1
  BY <1>1, <1>3, <1>4
<1> HIDE DEF n
<1>6. Need(n) = Need(n - 1) + ScaledWords /\ Need(n - 1) \in Nat
  BY <1>5, NeedLess, NeedSome
<1>7. /\ slot' = u.plane + ScaledWords /\ upd'[who].start <= slot'
      /\ slot' + Need(n - 1) = u.start + Need(limit)
  BY <1>1, <1>2, <1>3, <1>4, <1>6, Numbers
<1>8. upd'[who].i <= limit'
  BY <1>1, <1>3, <1>4
<1>9. Counted(upd[who])'
  BY <1>1, <1>4, <1>5, <1>7, <1>8 DEF Counted, Need
<1>10. Placed(upd[who])'
  BY <1>1, <1>4 DEF Placed, Need, Fits
<1> QED
  BY <1>1, <1>4, <1>7, <1>9, <1>10 DEF RoomInv, u

(* The end word takes the last word that was needed. *)
LEMMA TerminateKeeps ==
  ASSUME NEW who \in Callers, RoomInv(who), TerminateList(who)
  PROVE  /\ RoomInv(who)' /\ limit' = limit /\ slot' = slot + 1 /\ slot \in Nat
         /\ slot + 1 = upd[who].start + Need(limit)
         /\ upd'[who].pc = "publish" /\ upd'[who].start = upd[who].start
<1> DEFINE u == upd[who]
<1>1. /\ Counters' /\ limit' = limit
      /\ u \in Updates /\ Placed(u) /\ Counted(u) /\ u.start \in Nat /\ u.i \in Nat
      /\ limit \in Nat /\ slot \in Nat /\ Need(limit) \in Nat
  BY StepFacts DEF UpdateStep
<1>2. slot' = slot + 1 /\ u.pc = "planes" /\ u.i >= limit
  BY DEF TerminateList
<1>3. upd'[who].pc = "publish" /\ upd'[who].start = u.start
  BY <1>1 DEF TerminateList, RoomInv, Counters, Updates
<1>4. u.i <= limit /\ slot + Need(limit - u.i) = u.start + Need(limit)
  BY <1>1, <1>2 DEF Counted
<1> HIDE DEF u
<1>5. limit - u.i = 0 /\ Need(0) = 1
  BY <1>1, <1>2, <1>4, Numbers DEF Need
<1>6. slot + 1 = u.start + Need(limit)
  BY <1>1, <1>4, <1>5
<1>7. Counted(upd[who])'
  BY <1>1, <1>2, <1>3, <1>6 DEF Counted, Need
<1>8. Placed(upd[who])'
  BY <1>1, <1>3 DEF Placed, Need, Fits
<1> QED
  BY <1>1, <1>2, <1>3, <1>6, <1>7, <1>8 DEF RoomInv, u

(* A list that fits is published, ... *)
LEMMA PublishKeeps ==
  ASSUME NEW who \in Callers, RoomInv(who), Publish(who)
  PROVE  /\ RoomInv(who)' /\ limit' = limit /\ Fits(limit)
         /\ slot = upd[who].start + Need(limit) /\ upd'[who].pc = "idle"
<1>1. /\ Counters' /\ limit' = limit
      /\ Placed(upd[who]) /\ Counted(upd[who]) /\ upd[who].start \in Nat
      /\ limit \in Nat /\ slot \in Nat /\ Need(limit) \in Nat
  BY StepFacts DEF UpdateStep
<1>2. upd[who].pc = "publish" /\ slot' = Wrapped(slot) /\ slot <= Size
  BY DEF Publish
<1>3. slot = upd[who].start + Need(limit)
  BY <1>1, <1>2 DEF Counted
<1>4. Fits(limit)
  BY <1>1, <1>2, <1>3, Numbers DEF Fits
<1>5. upd'[who].pc = "idle"
  BY DEF Publish, Idle, RoomInv, Counters
<1>6. slot' <= Size
  BY <1>1, <1>2, Numbers DEF Wrapped
<1> QED
  BY <1>1, <1>3, <1>4, <1>5, <1>6 DEF RoomInv, Counted

(* ... and one that does not is written again from 0.                      *)
LEMMA OverflowKeeps ==
  ASSUME NEW who \in Callers, RoomInv(who), Overflow(who)
  PROVE  /\ RoomInv(who)' /\ limit' = limit /\ ~Fits(limit)
         /\ slot' = 0 /\ upd'[who].pc = "planes" /\ upd'[who].start = 0
<1>1. /\ Counters' /\ limit' = limit
      /\ Placed(upd[who]) /\ Counted(upd[who]) /\ upd[who].start \in Nat
      /\ limit \in Nat /\ slot \in Nat /\ Need(limit) \in Nat
  BY StepFacts DEF UpdateStep
<1>2. upd[who].pc = "publish" /\ slot > Size
  BY DEF Overflow
<1>3. slot = upd[who].start + Need(limit)
  BY <1>1, <1>2 DEF Counted
<1>4. ~Fits(limit)
  BY <1>1, <1>2, <1>3, Numbers DEF Placed
<1>5. Room(0) = 0
  BY DEF Room
<1>6. slot' = 0 /\ upd'[who] = [pc |-> "planes", start |-> 0, plane |-> 0, i |-> 0]
  BY <1>5 DEF Overflow, StartList, RoomInv, Counters
<1>7. upd'[who].pc = "planes" /\ upd'[who].start = 0 /\ upd'[who].i = 0
  BY <1>6
<1>8. Placed(upd[who])'
  BY <1>1, <1>4, <1>7 DEF Placed, Need, Fits
<1>9. limit' - upd'[who].i = limit'
  BY <1>1, <1>7
<1>10. Counted(upd[who])'
  BY <1>1, <1>6, <1>7, <1>9 DEF Counted
<1> QED
  BY <1>1, <1>4, <1>6, <1>7, <1>8, <1>10 DEF RoomInv

(* Every step of an update. *)
LEMMA StepKeepsRoom ==
  ASSUME NEW who \in Callers, RoomInv(who), UpdateStep(who)
  PROVE  RoomInv(who)'
BY OpenKeeps, CloseKeeps, TerminateKeeps, PublishKeeps, OverflowKeeps DEF UpdateStep

(* Between two updates it is all the same who made the last one; and as    *)
(* long as no update begins within another, who makes a step makes the     *)
(* update.                                                                 *)
LEMMA WhoIsAlone ==
  ASSUME NEW v \in Callers, RoomInv(v), NEW who \in Callers,
         Alone(v), upd[who].pc # "idle" \/ upd[v].pc = "idle"
  PROVE  Alone(who) /\ RoomInv(who)
<1>1. CASE who = v
  BY <1>1
<1>2. CASE who # v
  BY <1>2 DEF RoomInv, Alone, Counted
<1> QED
  BY <1>1, <1>2

(* An update that is noted to begin alone does so. *)
LEMMA BeginsAlone ==
  ASSUME clash' # "update", NEW who \in Callers, clash' = NextClash
  PROVE  \A v \in Callers : upd[v].pc = "idle"
BY DEF NextClash

(* A step that changes no count. *)
LEMMA CountStays ==
  ASSUME NEW who \in Callers, RoomInv(who), UNCHANGED <<slot, upd>>, limit' \in Nat,
         limit' = limit \/ upd[who].pc = "idle"
  PROVE  RoomInv(who)'
BY DEF RoomInv, Counters, Placed, Counted, Need, Fits

(* A command but "u" runs only while no update is made, so that the limit  *)
(* is not changed under one.                                               *)
LEMMA CommandIsApart ==
  ASSUME TypeInv,
         LimitStore \/ LimitClamp \/ SetDelay \/ ScramblePlace \/ ScrambleSpeed \/ ScrambleEdge
  PROVE  /\ \A who \in Callers : upd[who].pc = "idle"
         /\ UNCHANGED <<mem, slot, displist, clash, upd, hvsVars, pending>>
BY DEF LimitStore, LimitClamp, SetDelay, ScramblePlace, ScrambleSpeed, ScrambleEdge, Typing,
       Command, Runs, listVars, TypeInv, Callers

-----------------------------------------------------------------------------
(* A step of Next is one of an update, the beginning of one, a command     *)
(* between two updates, or one that leaves the lists alone.                *)
Otherwise ==
  /\ UNCHANGED <<mem, slot, displist, clash, upd>>
  /\ limit' = limit \/ \A who \in Callers : upd[who].pc = "idle"

LEMMA NextCases ==
  ASSUME TypeInv, [Next]_vars
  PROVE  \/ \E who \in Callers : UpdateStep(who)
         \/ \E who \in Callers, f \in {0, frame} : UpdateBegin(who, f)
         \/ Otherwise
<1>1. CASE PvIrq \/ UpdateCommand
  BY <1>1 DEF PvIrq, UpdateCommand, Callers
<1>2. CASE IrqStep \/ UpdateCommandStep
  BY <1>2 DEF IrqStep, UpdateCommandStep, Callers
<1>3. CASE LimitStore \/ LimitClamp \/ SetDelay \/ ScramblePlace \/ ScrambleSpeed \/ ScrambleEdge
  BY <1>3, CommandIsApart DEF Otherwise
<1>4. CASE FrameStart \/ FrameShown \/ UNCHANGED vars
  BY <1>4 DEF FrameStart, FrameShown, vars, listVars, spriteVars, Otherwise
<1> QED
  BY <1>1, <1>2, <1>3, <1>4 DEF Next, Console

(* dance.c 51-127: the count of the words holds in every behaviour, under  *)
(* every limit, until an update begins within another one.                 *)
THEOREM UpdatesHaveRoom ==
  Spec => []IInv
<1>1. Init => IInv
  <2> SUFFICES ASSUME Init
               PROVE  IInv
    OBVIOUS
  <2>1. TypeInv
    BY InitTypes
  <2>2. slot <= Size /\ \A who \in Callers : upd[who].pc = "idle"
    BY Numbers DEF Init, Idle
  <2>3. Alone("irq") /\ RoomInv("irq") /\ "irq" \in Callers
    BY <2>1, <2>2 DEF TypeInv, RoomInv, Alone, Counted, Callers
  <2> QED
    BY <2>1, <2>3 DEF IInv
<1>2. IInv /\ [Next]_vars => IInv'
  <2> SUFFICES ASSUME IInv, [Next]_vars, clash' # "update"
               PROVE  \E who \in Callers : Alone(who)' /\ RoomInv(who)'
    BY NextTypes DEF IInv
  <2>1. TypeInv /\ TypeInv' /\ Counters /\ limit' \in Nat
    BY NextTypes DEF IInv, TypeInv, Counters
  <2>2. ASSUME NEW who \in Callers, UpdateStep(who)
        PROVE  Alone(who)' /\ RoomInv(who)'
    <3>1. clash # "update" /\ upd[who].pc # "idle"
      BY <2>1, <2>2, UpdateTypes
    <3>2. Alone(who) /\ RoomInv(who)
      BY <3>1, WhoIsAlone DEF IInv
    <3> QED
      BY <2>1, <2>2, <3>2, AloneStays, StepKeepsRoom
  <2>3. ASSUME NEW who \in Callers, NEW f \in {0, frame}, UpdateBegin(who, f)
        PROVE  \E v \in Callers : Alone(v)' /\ RoomInv(v)'
    <3>1. clash # "update" /\ limit' = limit
      BY <2>1, <2>3, BeginTypes
    <3>2. PICK v \in Callers : Alone(v) /\ RoomInv(v)
      BY <3>1 DEF IInv
    <3>3. CASE UNCHANGED <<slot, upd, clash>>
      BY <2>1, <3>1, <3>2, <3>3, CountStays DEF Alone
    <3>4. CASE clash' = NextClash
      <4>1. \A c \in Callers : upd[c].pc = "idle"
        BY <3>4, BeginsAlone
      <4>2. Alone(who) /\ RoomInv(who)
        BY <3>2, <4>1, WhoIsAlone
      <4> QED
        BY <2>1, <2>3, <4>2, AloneStays, BeginKeeps
    <3> QED
      BY <2>1, <2>3, <3>3, <3>4, BeginTypes
  <2>4. CASE Otherwise
    <3>1. PICK v \in Callers : Alone(v) /\ RoomInv(v)
      BY <2>4 DEF IInv, Otherwise
    <3> QED
      BY <2>1, <2>4, <3>1, CountStays DEF Otherwise, Alone
  <2> QED
    BY <2>1, <2>2, <2>3, <2>4, NextCases
<1> QED
  BY <1>1, <1>2, PTL DEF Spec

(* What is counted is inside the memory, or is of a list that does not     *)
(* fit.                                                                    *)
LEMMA RoomIsInside ==
  ASSUME NEW who \in Callers, RoomInv(who)
  PROVE  slot <= Size \/ (slot <= Need(limit) /\ ~Fits(limit))
<1> DEFINE u == upd[who]
           n == limit - u.i
<1>1. /\ u \in Updates /\ limit \in Nat /\ slot \in Nat /\ Need(limit) \in Nat
      /\ u.start \in Nat /\ u.i \in Nat /\ u.plane \in Nat
  BY NeedSome DEF RoomInv, Counters, Updates
<1>2. Counted(u) /\ (u.pc # "idle" => Placed(u))
  BY DEF RoomInv
<1>3. CASE u.pc \in {"planes", "plane"}
  <2>1. n \in Nat /\ slot + Need(n) <= u.start + Need(limit) + 1
    <3>1. n \in Nat
      BY <1>1, <1>2, <1>3 DEF Counted
    <3>2. Need(n) \in Nat
      BY <3>1, NeedSome
    <3>3. slot + Need(n) = u.start + Need(limit)
          \/ (slot = u.plane + 1 /\ u.plane + Need(n) = u.start + Need(limit))
      BY <1>2, <1>3 DEF Counted
    <3> HIDE DEF u, n
    <3> QED
      BY <1>1, <3>1, <3>2, <3>3
  <2>2. Need(n) \in Nat /\ Need(n) >= 1
    BY <2>1, NeedSome
  <2>3. Placed(u)
    BY <1>2, <1>3
  <2> HIDE DEF u, n
  <2> QED
    BY <1>1, <2>1, <2>2, <2>3, Numbers DEF Placed
<1>4. CASE u.pc = "publish"
  <2>1. slot = u.start + Need(limit) /\ Placed(u)
    BY <1>2, <1>4 DEF Counted
  <2> HIDE DEF u
  <2> QED
    BY <1>1, <2>1, Numbers DEF Placed
<1>5. CASE u.pc = "idle"
  BY <1>2, <1>5 DEF Counted
<1> QED
  BY <1>1, <1>3, <1>4, <1>5 DEF Updates

-----------------------------------------------------------------------------
(* Updates within others. *)

(* An update has no more planes than the limit says.                       *)
Planes(u) == (u.pc = "planes" => u.i <= limit) /\ (u.pc = "plane" => u.i < limit)

(* An update that others have been made within goes on where the last of   *)
(* them has left the cursor, which is before High; between two updates it  *)
(* is there as well.                                                       *)
Behind(u) ==
  CASE u.pc = "planes"  -> slot + Need(limit - u.i) <= High + Need(limit)
    [] u.pc = "plane"   -> slot + Need(limit - u.i) <= High + Need(limit) + 1
    [] u.pc = "publish" -> slot <= High + Need(limit)
    [] OTHER            -> slot <= High

(* The interrupt's update runs to its end, and has its room; the console's *)
(* goes on after it.                                                       *)
NestInv ==
  /\ TypeInv
  /\ Planes(upd["console"])
  /\ upd["irq"].pc # "idle" => RoomInv("irq")
  /\ upd["irq"].pc = "idle" => Behind(upd["console"])

(* As many planes less need no more words.                                 *)
LEMMA NeedNoMore ==
  ASSUME NEW l \in Nat, NEW i \in Nat, i <= l
  PROVE  Need(l - i) \in Nat /\ Need(l - i) <= Need(l)
<1>1. PICK n \in Nat : n = l - i /\ l = n + i
  OBVIOUS
<1>2. l * ScaledWords = n * ScaledWords + i * ScaledWords
  BY <1>1, Numbers
<1>3. n * ScaledWords \in Nat /\ i * ScaledWords \in Nat
  BY Numbers
<1> QED
  BY <1>1, <1>2, <1>3 DEF Need

(* The console's update begins or goes on.                                 *)
LEMMA BehindStays ==
  ASSUME NestInv, UpdateStep("console")
  PROVE  Planes(upd["console"])' /\ Behind(upd["console"])'
<1> DEFINE u == upd["console"]
<1>1. /\ "console" \in Callers /\ Counters /\ Counters' /\ limit' = limit /\ Behind(u) /\ Planes(u)
      /\ u \in Updates /\ u.i \in Nat /\ u.plane \in Nat /\ limit \in Nat /\ slot \in Nat
      /\ slot' \in Nat /\ Need(limit) \in Nat /\ Need(limit) >= 1
  BY UpdateTypes, NeedSome DEF NestInv, TypeInv, Runs, Callers, Counters, Updates
<1>2. CASE PlaneOpen("console")
  <2>1. /\ u.pc = "planes" /\ u.i < limit /\ slot' = slot + 1
        /\ upd'["console"].pc = "plane" /\ upd'["console"].i = u.i
    BY <1>1, <1>2 DEF PlaneOpen, Counters, Updates
  <2>2. Need(limit - u.i) \in Nat
    <3>1. limit - u.i \in Nat
      BY <1>1, <2>1
    <3> QED
      BY <3>1, NeedSome
  <2> HIDE DEF u
  <2> QED
    BY <1>1, <2>1, <2>2, Numbers DEF Behind, Planes, Need
<1>3. CASE PlaneClose("console")
  <2>1. /\ u.pc = "plane" /\ slot' = slot + ScaledWords - 1
        /\ upd'["console"].pc = "planes" /\ upd'["console"].i = u.i + 1
    <3>1. upd' = [upd EXCEPT !["console"].pc = "planes", !["console"].i = @ + 1]
      BY <1>3 DEF PlaneClose
    <3> QED
      BY <1>1, <1>3, <3>1 DEF PlaneClose, Counters, Updates
  <2>2. u.i < limit /\ slot + Need(limit - u.i) <= High + Need(limit) + 1
    BY <1>1, <2>1 DEF Behind, Planes
  <2> HIDE DEF u
  <2>3. PICK n \in Nat : n = limit - u.i /\ n >= 1 /\ limit' - upd'["console"].i = n - 1
    BY <1>1, <2>1, <2>2
  <2>4. Need(n) = Need(n - 1) + ScaledWords /\ Need(n - 1) \in Nat
    BY <2>3, NeedLess, NeedSome
  <2>5. slot' + Need(n - 1) <= High + Need(limit)
    BY <1>1, <2>1, <2>2, <2>3, <2>4, Numbers
  <2>6. upd'["console"].i <= limit'
    BY <1>1, <2>1, <2>2
  <2> QED
    BY <1>1, <2>1, <2>3, <2>5, <2>6 DEF Behind, Planes, Need
<1>4. CASE TerminateList("console")
  <2>1. u.pc = "planes" /\ u.i >= limit /\ slot' = slot + 1 /\ upd'["console"].pc = "publish"
    BY <1>1, <1>4 DEF TerminateList, Counters, Updates
  <2> HIDE DEF u
  <2>2. limit - u.i = 0 /\ Need(0) = 1
    BY <1>1, <2>1, Numbers DEF Planes, Need
  <2>3. slot + Need(limit - u.i) <= High + Need(limit)
    BY <1>1, <2>1 DEF Behind
  <2>4. slot' <= High + Need(limit)
    BY <2>1, <2>2, <2>3
  <2> QED
    BY <1>1, <2>1, <2>4 DEF Behind, Planes, Need
<1>5. CASE Overflow("console")
  <2>1. Room(0) = 0
    BY DEF Room
  <2>2. slot' = 0 /\ upd'["console"] = [pc |-> "planes", start |-> 0, plane |-> 0, i |-> 0]
    BY <1>1, <1>5, <2>1 DEF Overflow, StartList, Counters
  <2>3. Planes(upd["console"])'
    BY <1>1, <2>2 DEF Planes
  <2>4. upd'["console"].pc = "planes" /\ limit' - upd'["console"].i = limit'
    BY <1>1, <2>2
  <2> QED
    BY <1>1, <2>2, <2>3, <2>4, Numbers DEF Behind, Need
<1>6. CASE Publish("console")
  <2>1. slot' = Wrapped(slot) /\ upd'["console"].pc = "idle"
    BY <1>1, <1>6 DEF Publish, Idle, Counters
  <2> QED
    BY <1>1, <2>1, Numbers DEF Wrapped, Behind, Planes
<1> QED
  BY <1>2, <1>3, <1>4, <1>5, <1>6 DEF UpdateStep

(* The interrupt's update goes on; at its end the cursor is before High,   *)
(* and so before anything that the console's may have come to.             *)
LEMMA NestedKeeps ==
  ASSUME NestInv, TypeInv', UpdateStep("irq")
  PROVE  NestInv'
<1>1. /\ "irq" \in Callers /\ "console" \in Callers /\ "irq" # "console" /\ Counters
      /\ RoomInv("irq")
  BY UpdateTypes DEF NestInv, TypeInv, Callers
<1>2. /\ RoomInv("irq")' /\ Counters' /\ limit' = limit /\ upd'["console"] = upd["console"]
  BY <1>1, StepKeepsRoom, UpdateTypes
<1>3. Planes(upd["console"])'
  BY <1>2 DEF NestInv, Planes
<1>4. ASSUME upd'["irq"].pc = "idle"
      PROVE  Behind(upd["console"])'
  <2> DEFINE u == upd["console"]
  <2>1. Publish("irq")
    BY <1>1, <1>4, OpenKeeps, CloseKeeps, TerminateKeeps, OverflowKeeps DEF UpdateStep
  <2>2. slot' <= High /\ slot' \in Nat /\ limit \in Nat
    BY <1>1, <1>2, <2>1, Numbers DEF Publish, Wrapped, Counters
  <2>3. u \in Updates /\ u.i \in Nat /\ Planes(u) /\ Need(limit) \in Nat
    BY <1>1, <2>2, NeedSome DEF NestInv, Counters, Updates
  <2>4. u.pc \in {"planes", "plane"} => Need(limit - u.i) \in Nat /\ Need(limit - u.i) <= Need(limit)
    <3> SUFFICES ASSUME u.pc \in {"planes", "plane"}
                 PROVE  Need(limit - u.i) \in Nat /\ Need(limit - u.i) <= Need(limit)
      OBVIOUS
    <3>1. u.i <= limit
      BY <2>2, <2>3 DEF Planes
    <3> HIDE DEF u
    <3> QED
      BY <2>2, <2>3, <3>1, NeedNoMore
  <2>5. upd'["console"] = u
    BY <1>2
  <2> HIDE DEF u
  <2>6. /\ slot' + Need(limit - u.i) <= High + Need(limit) \/ u.pc \notin {"planes", "plane"}
        /\ slot' <= High + Need(limit)
        /\ High \in Nat
    BY <2>2, <2>3, <2>4, Numbers
  <2>7. CASE u.pc \in {"planes", "plane"}
    <3>1. Need(limit - u.i) \in Nat
      BY <2>4, <2>7
    <3>2. slot' + Need(limit - u.i) <= High + Need(limit) + 1
      BY <2>2, <2>3, <2>6, <2>7, <3>1
    <3> QED
      BY <1>2, <2>5, <2>6, <2>7, <3>2 DEF Behind, Need
  <2>8. CASE u.pc \notin {"planes", "plane"}
    BY <1>2, <2>2, <2>5, <2>6, <2>8 DEF Behind, Need
  <2> QED
    BY <2>7, <2>8
<1> QED
  BY <1>2, <1>3, <1>4 DEF NestInv

(* An update begins; the console's does so where the cursor is before      *)
(* High, and the interrupt's has its room wherever it is.                  *)
LEMMA NestedBegins ==
  ASSUME NestInv, TypeInv', NEW who \in Callers, NEW f, UpdateBegin(who, f)
  PROVE  NestInv'
<1>1. /\ "irq" \in Callers /\ "console" \in Callers /\ "irq" # "console" /\ Callers = {"irq", "console"}
      /\ Counters /\ Counters' /\ limit' = limit /\ upd[who].pc = "idle" /\ Runs(who)
      /\ limit \in Nat /\ slot \in Nat /\ Need(limit) \in Nat
  BY BeginTypes, NeedSome DEF NestInv, TypeInv, Callers, Counters
<1>2. CASE UNCHANGED <<slot, upd, clash>>
  BY <1>1, <1>2 DEF NestInv, Planes, Behind, RoomInv, Placed, Counted, Need, Fits
<1>3. CASE who = "irq" /\ slot' = Room(slot)
           /\ upd'[who] = [pc |-> "planes", start |-> Room(slot), plane |-> Room(slot), i |-> 0]
  <2>1. RoomInv("irq")' /\ upd'["irq"].pc # "idle"
    BY <1>1, <1>3, StartHasRoom
  <2>2. upd'["console"] = upd["console"]
    BY <1>1, <1>3, BeginTypes
  <2> QED
    BY <1>1, <2>1, <2>2 DEF NestInv, Planes
<1>4. CASE who = "console" /\ slot' = Room(slot)
           /\ upd'[who] = [pc |-> "planes", start |-> Room(slot), plane |-> Room(slot), i |-> 0]
  <2>1. upd["irq"].pc = "idle" /\ upd'["irq"].pc = "idle"
    BY <1>1, <1>4, BeginTypes DEF Runs
  <2>2. slot <= High
    BY <1>1, <1>4, <2>1 DEF NestInv, Behind
  <2>3. PICK r \in Nat : r = Room(slot) /\ r <= High
    BY <1>1, <2>2, RoomForList, Numbers
  <2>4. slot' = r /\ upd'["console"].pc = "planes" /\ upd'["console"].i = 0
    BY <1>4, <2>3
  <2>5. limit' - upd'["console"].i = limit
    BY <1>1, <2>4
  <2>6. r + Need(limit) <= High + Need(limit)
    BY <1>1, <2>3, Numbers
  <2> QED
    BY <1>1, <2>1, <2>4, <2>5, <2>6 DEF NestInv, Planes, Behind, Need
<1> QED
  BY <1>1, <1>2, <1>3, <1>4, BeginTypes

(* dance.c 55-58, 123-126: what the console's update writes, however many  *)
(* updates the interrupt makes within it, ends no further behind High than *)
(* its list is long.                                                       *)
LEMMA UpdatesNest ==
  Spec => []NestInv
<1>1. Init => NestInv
  <2> SUFFICES ASSUME Init
               PROVE  NestInv
    OBVIOUS
  <2>1. TypeInv
    BY InitTypes
  <2>2. slot <= High /\ \A who \in Callers : upd[who].pc = "idle"
    BY Numbers DEF Init, Idle
  <2> QED
    BY <2>1, <2>2 DEF NestInv, Planes, Behind, Callers
<1>2. NestInv /\ [Next]_vars => NestInv'
  <2> SUFFICES ASSUME NestInv, [Next]_vars
               PROVE  NestInv'
    OBVIOUS
  <2>1. TypeInv /\ TypeInv' /\ Counters /\ limit' \in Nat
        /\ "irq" \in Callers /\ "console" \in Callers
    BY NextTypes DEF NestInv, TypeInv, Counters, Callers
  <2>2. CASE UpdateStep("irq")
    BY <2>1, <2>2, NestedKeeps
  <2>3. CASE UpdateStep("console")
    <3>1. Planes(upd["console"])' /\ Behind(upd["console"])'
      BY <2>3, BehindStays
    <3>2. upd'["irq"] = upd["irq"] /\ upd["irq"].pc = "idle"
      BY <2>1, <2>3, UpdateTypes DEF Runs, Callers
    <3> QED
      BY <2>1, <3>1, <3>2 DEF NestInv
  <2>4. ASSUME NEW who \in Callers, NEW f \in {0, frame}, UpdateBegin(who, f)
        PROVE  NestInv'
    BY <2>1, <2>4, NestedBegins
  <2>5. CASE Otherwise
    <3>1. RoomInv("irq") /\ upd["irq"].pc # "idle" => RoomInv("irq")'
      BY <2>1, <2>5, CountStays DEF Otherwise
    <3>2. UNCHANGED <<slot, upd>> /\ (limit' = limit \/ upd["console"].pc = "idle")
      BY <2>1, <2>5 DEF Otherwise
    <3>3. Planes(upd["console"])' /\ (Behind(upd["console"]) => Behind(upd["console"])')
      BY <3>2 DEF NestInv, Planes, Behind, Need
    <3> QED
      BY <2>1, <3>1, <3>2, <3>3 DEF NestInv
  <2> QED
    BY <2>1, <2>2, <2>3, <2>4, <2>5, NextCases DEF Callers
<1> QED
  BY <1>1, <1>2, PTL DEF Spec

(* dance.c 55-58, 114-118, 123-126: the cursor stays inside the list       *)
(* memory under every limit for which a list fits, leaves it by no more    *)
(* than the words the list has too many under one for which it does not,   *)
(* and with updates within updates ends no further behind High than a list *)
(* is long; for every memory, plane size and number of sprites, with every *)
(* limit that is typed and the command "u".                                *)
THEOREM CursorInMemory ==
  Spec => []InMemory
<1>1. IInv /\ NestInv => InMemory
  <2> SUFFICES ASSUME IInv, NestInv
               PROVE  InMemory
    OBVIOUS
  <2> DEFINE u == upd["console"]
  <2>1. /\ limit \in Nat /\ slot \in Nat /\ u \in Updates /\ u.i \in Nat
        /\ Need(limit) \in Nat /\ Need(limit) >= 1 /\ "irq" \in Callers
    BY NeedSome DEF NestInv, TypeInv, Counters, Updates, Callers
  <2>2. CASE upd["irq"].pc = "idle" /\ clash = "update"
    <3>1. Behind(u) /\ Planes(u)
      BY <2>2 DEF NestInv
    <3>2. u.pc \in {"planes", "plane"} => Need(limit - u.i) \in Nat /\ Need(limit - u.i) >= 1
      <4> SUFFICES ASSUME u.pc \in {"planes", "plane"}
                   PROVE  Need(limit - u.i) \in Nat /\ Need(limit - u.i) >= 1
        OBVIOUS
      <4>1. limit - u.i \in Nat
        BY <2>1, <3>1 DEF Planes
      <4> HIDE DEF u
      <4> QED
        BY <4>1, NeedSome
    <3> HIDE DEF u
    <3>3. slot <= High + Need(limit)
      <4>1. CASE u.pc \in {"planes", "plane"}
        <5>1. slot + Need(limit - u.i) <= High + Need(limit) + 1
          BY <2>1, <3>1, <3>2, <4>1, Numbers DEF Behind
        <5> QED
          BY <2>1, <3>2, <4>1, <5>1, Numbers
      <4>2. CASE u.pc \notin {"planes", "plane"}
        BY <2>1, <3>1, <4>2, Numbers DEF Behind
      <4> QED
        BY <4>1, <4>2
    <3>4. limit * ScaledWords \in Nat
      BY <2>1, Numbers
    <3> QED
      BY <2>1, <2>2, <3>3, <3>4, Numbers DEF InMemory, Need
  <2>3. CASE upd["irq"].pc # "idle" \/ clash # "update"
    <3>1. PICK who \in Callers : RoomInv(who)
      BY <2>1, <2>3 DEF IInv, NestInv
    <3>2. slot <= Size \/ slot <= Need(limit)
      BY <3>1, RoomIsInside
    <3>3. limit * ScaledWords \in Nat
      BY <2>1, Numbers
    <3> QED
      BY <2>1, <3>2, <3>3, Numbers DEF InMemory, Need
  <2> QED
    BY <2>2, <2>3
<1> QED
  BY <1>1, UpdatesHaveRoom, UpdatesNest, PTL

-----------------------------------------------------------------------------
(* The sprite. *)

Edge == Width - SpriteWidth

Sprites == [x : 0..Width, xd : (-MaxSpeed)..MaxSpeed]

(* Beyond the edge, a sprite moves outwards, and came from inside.         *)
Calm(s) == s.x > Edge => s.xd > 0 /\ s.x - s.xd <= Edge

SpriteInv ==
  /\ sprite \in Sprites
  /\ cmd \notin {"speed", "edge"} => Calm(sprite)

LEMMA Lengths ==
  /\ Width \in Nat /\ SpriteWidth \in Nat /\ LogoWidth \in Nat /\ MaxSpeed \in Nat
  /\ MaxSpeed >= 1 /\ SpriteWidth <= LogoWidth /\ LogoWidth <= Width
  /\ MaxSpeed < Edge /\ Edge \in Nat /\ Edge <= Width /\ Width - LogoWidth \in 0..Edge
BY DisplayAssumption DEF DisplayAssumption, Edge

(* A step keeps a sprite on the screen, and calm if it was. *)
LEMMA MovedKeeps ==
  ASSUME NEW s \in Sprites
  PROVE  Moved(s) \in Sprites /\ (Calm(s) => Calm(Moved(s)))
<1> DEFINE turned == IF s.x > Edge THEN -s.xd ELSE s.xd
           moved  == [x |-> s.x + turned, xd |-> turned]
           inside == IF moved.x < 0 THEN [x |-> -moved.x, xd |-> -moved.xd] ELSE moved
           last   == IF inside.x > Width
                     THEN [x |-> inside.x - Width, xd |-> -inside.xd] ELSE inside
<1>1. Moved(s) = last
  BY DEF Moved, Edge
<1>2. s.x \in 0..Width /\ s.xd \in (-MaxSpeed)..MaxSpeed
  BY DEF Sprites
<1>3. turned \in (-MaxSpeed)..MaxSpeed
  BY <1>2, Lengths
<1>4. moved.x = s.x + turned /\ moved.xd = turned
  OBVIOUS
<1> HIDE DEF turned, moved
<1>5. /\ moved.x \in Int /\ moved.xd \in (-MaxSpeed)..MaxSpeed
      /\ -MaxSpeed <= moved.x /\ moved.x <= Width + MaxSpeed
  BY <1>2, <1>3, <1>4, Lengths
<1>6. /\ moved.x < 0 => inside.x = -moved.x /\ inside.xd = -moved.xd
      /\ ~(moved.x < 0) => inside.x = moved.x /\ inside.xd = moved.xd
  OBVIOUS
<1> HIDE DEF inside
<1>7. /\ inside.x > Width => last = [x |-> inside.x - Width, xd |-> -inside.xd]
      /\ ~(inside.x > Width) => last.x = inside.x /\ last.xd = inside.xd
  OBVIOUS
<1>8. /\ inside.x \in 0..(Width + MaxSpeed) /\ inside.xd \in (-MaxSpeed)..MaxSpeed
  BY <1>5, <1>6, Lengths
<1>9. last.x \in 0..Width /\ last.xd \in (-MaxSpeed)..MaxSpeed
  BY <1>7, <1>8, Lengths
<1>10. last \in Sprites
  <2>1. CASE inside.x > Width
    BY <2>1, <1>7, <1>9 DEF Sprites
  <2>2. CASE ~(inside.x > Width)
    <3>1. last = inside /\ (inside = moved \/ inside = [x |-> -moved.x, xd |-> -moved.xd])
      BY <2>2 DEF inside
    <3>2. moved = [x |-> s.x + turned, xd |-> turned]
      BY DEF moved
    <3> QED
      BY <3>1, <3>2, <1>9 DEF Sprites
  <2> QED
    BY <2>1, <2>2
<1>11. ASSUME Calm(s)
       PROVE  Calm(last)
  <2>1. CASE s.x > Edge
    <3>1. s.xd > 0 /\ s.x - s.xd <= Edge /\ turned = -s.xd
      BY <1>11, <2>1 DEF Calm, turned
    <3>2. moved.x <= Edge /\ moved.x >= 0
      BY <3>1, <2>1, <1>2, <1>4, Lengths
    <3> QED
      BY <3>2, <1>5, <1>6, <1>7, Lengths DEF Calm
  <2>2. CASE s.x <= Edge
    <3>1. turned = s.xd
      BY <2>2, <1>2, Lengths DEF turned
    <3>2. CASE moved.x < 0
      BY <3>2, <1>5, <1>6, <1>7, Lengths DEF Calm
    <3>3. CASE moved.x \in 0..Edge
      BY <3>3, <1>5, <1>6, <1>7, Lengths DEF Calm
    <3>4. CASE moved.x > Edge
      <4>1. inside.x = moved.x /\ inside.xd = moved.xd
        BY <3>4, <1>5, <1>6, Lengths
      <4>2. moved.xd > 0 /\ moved.x - moved.xd = s.x
        BY <3>1, <3>4, <2>2, <1>2, <1>4, Lengths
      <4>3. CASE inside.x > Width
        BY <4>1, <4>3, <1>5, <1>7, <1>8, Lengths DEF Calm
      <4>4. CASE ~(inside.x > Width)
        BY <4>1, <4>2, <4>4, <2>2, <1>5, <1>7, Lengths DEF Calm
      <4> QED
        BY <4>3, <4>4
    <3> QED
      BY <3>2, <3>3, <3>4, <1>5, Lengths
  <2> QED
    BY <2>1, <2>2, <1>2, Lengths
<1> QED
  BY <1>1, <1>10, <1>11

(* dance.c 72-94, 208-238: a sprite stays on the screen, and by the right  *)
(* edge but for one step, whatever interrupt comes into a "dance" command, *)
(* or into an update.                                                      *)
THEOREM SpritesStay ==
  Spec => []InBox
<1>1. Init => TypeInv /\ SpriteInv
  <2> SUFFICES ASSUME Init
               PROVE  SpriteInv
    BY InitTypes
  <2>1. PICK x0 \in 0..Edge, d0 \in 1..MaxSpeed : sprite = [x |-> x0, xd |-> d0]
    BY DEF Init, Edge
  <2> QED
    BY <2>1, Lengths DEF SpriteInv, Sprites, Calm
<1>2. TypeInv /\ SpriteInv /\ [Next]_vars => TypeInv' /\ SpriteInv'
  <2> SUFFICES ASSUME TypeInv, SpriteInv, [Next]_vars
               PROVE  SpriteInv'
    BY NextTypes
  <2>1. CASE IrqStep \/ UpdateCommandStep
    <3>1. PICK who \in Callers :
            /\ UpdateStep(who)
            /\ cmd' = cmd \/ (cmd = "update" /\ cmd' \in {"none", "update"})
      <4>1. CASE IrqStep
        BY <4>1 DEF IrqStep, cmdVars, Callers
      <4>2. CASE UpdateCommandStep
        <5>1. UpdateStep("console") /\ "console" \in Callers /\ cmd' \in {"none", "update"}
          BY <4>2 DEF UpdateCommandStep, Callers
        <5>2. cmd = "update"
          BY <5>1, UpdateTypes DEF TypeInv
        <5> QED
          BY <5>1, <5>2
      <4> QED
        BY <2>1, <4>1, <4>2
    <3>2. sprite' \in {sprite, Moved(sprite)}
      BY <3>1, UpdateTypes DEF TypeInv
    <3> QED
      BY <3>1, <3>2, MovedKeeps DEF SpriteInv
  <2>2. CASE ScramblePlace
    <3>1. PICK x0 \in 0..(Width - 1) : sprite' = [sprite EXCEPT !.x = x0]
      BY <2>2 DEF ScramblePlace
    <3>2. cmd' = "speed"
      BY <2>2 DEF ScramblePlace, Typing, Command
    <3> QED
      BY <3>1, <3>2, Lengths DEF SpriteInv, Sprites
  <2>3. CASE ScrambleSpeed
    <3>1. PICK d0 \in 1..MaxSpeed : sprite' = [sprite EXCEPT !.xd = d0]
      BY <2>3 DEF ScrambleSpeed
    <3>2. cmd' = "edge"
      BY <2>3 DEF ScrambleSpeed, Command
    <3> QED
      BY <3>1, <3>2, Lengths DEF SpriteInv, Sprites
  <2>4. CASE ScrambleEdge
    <3>1. CASE sprite.x > Edge
      <4>1. sprite' = [sprite EXCEPT !.x = Width - LogoWidth]
        BY <2>4, <3>1 DEF ScrambleEdge, Edge
      <4> QED
        BY <4>1, Lengths DEF SpriteInv, Sprites, Calm
    <3>2. CASE ~(sprite.x > Edge)
      BY <2>4, <3>2 DEF ScrambleEdge, Edge, SpriteInv, Calm
    <3> QED
      BY <3>1, <3>2
  <2>5. CASE LimitStore \/ LimitClamp \/ SetDelay
    <3>1. sprite' = sprite /\ cmd \in {"none", "clamp"}
      BY <2>5 DEF LimitStore, LimitClamp, SetDelay, Typing, Command
    <3> QED
      BY <3>1 DEF SpriteInv
  <2>6. CASE PvIrq \/ FrameStart \/ FrameShown \/ UNCHANGED vars
    BY <2>6 DEF PvIrq, UpdateBegin, FrameStart, FrameShown, vars, spriteVars, cmdVars, SpriteInv
  <2>7. CASE UpdateCommand
    BY <2>7 DEF UpdateCommand, UpdateBegin, spriteVars, SpriteInv
  <2> QED
    BY <2>1, <2>2, <2>3, <2>4, <2>5, <2>6, <2>7 DEF Next, Console
<1>3. SpriteInv => InBox
  BY Lengths DEF SpriteInv, Sprites, Calm, InBox, Edge
<1> QED
  BY <1>1, <1>2, <1>3, PTL DEF Spec

-----------------------------------------------------------------------------
(* Walks through the list memory: induction over its words. *)

(* The list memory's words are numbers.                                    *)
LEMMA Memory ==
  /\ Size \in Nat /\ Size >= 1 /\ High \in Nat /\ High <= Size
  /\ Slots \subseteq Nat
BY DisplayAssumption DEF DisplayAssumption, Slots

(* Every set of numbers has a least one: the initial segments below its    *)
(* members are finite sets, ordered by inclusion.                          *)
LEMMA LeastNumber ==
  ASSUME NEW T \in SUBSET Nat, T # {}
  PROVE  \E x \in T : \A y \in T : x <= y
<1> DEFINE Below == {0..t : t \in T}
<1>1. Below \subseteq FiniteSubsetsOf(Nat)
  <2>1. \A t \in T : IsFiniteSet(0..t) /\ 0..t \subseteq Nat
    BY FS_Interval
  <2> QED
    BY <2>1 DEF FiniteSubsetsOf
<1>2. \E x \in Below : \A y \in Below : <<y, x>> \notin StrictSubsetOrdering(Nat)
  <2>1. Below # {}
    OBVIOUS
  <2> HIDE DEF Below
  <2> QED
    BY <1>1, <2>1, FS_StrictSubsetOrderingWellFounded, WFMin
<1>3. PICK a \in T : \A b \in T : <<0..b, 0..a>> \notin StrictSubsetOrdering(Nat)
  BY <1>2
<1>4. ASSUME NEW b \in T, b < a
      PROVE  <<0..b, 0..a>> \in StrictSubsetOrdering(Nat)
  <2>1. 0..b \in SUBSET Nat /\ 0..a \in SUBSET Nat /\ 0..b \subseteq 0..a
    BY <1>4
  <2>2. a \in 0..a /\ a \notin 0..b
    BY <1>4
  <2> QED
    BY <2>1, <2>2 DEF StrictSubsetOrdering
<1>5. \A b \in T : a <= b
  <2> SUFFICES ASSUME NEW b \in T, b < a
               PROVE  FALSE
    OBVIOUS
  <2>1. <<0..b, 0..a>> \in StrictSubsetOrdering(Nat)
    BY <1>4
  <2>2. <<0..b, 0..a>> \notin StrictSubsetOrdering(Nat)
    BY <1>3
  <2> QED
    BY <2>1, <2>2
<1> QED
  BY <1>5

(* A walk along a list goes towards the end of the memory (dance.c, hvs.c: *)
(* a plane's first word counts the words to the next). So what is true of  *)
(* a word whenever it is true of all words behind it is true of every      *)
(* word; the set S stands for the words it is true of.                     *)
LEMMA WordInduction ==
  ASSUME NEW S, \A w \in Slots : (\A v \in Slots : v > w => v \in S) => w \in S
  PROVE  Slots \subseteq S
<1> SUFFICES ASSUME NEW w0 \in Slots, w0 \notin S
             PROVE  FALSE
  OBVIOUS
<1> DEFINE T == {t \in Nat : \E w \in Slots : w \notin S /\ t = Size - w}
<1>1. T \in SUBSET Nat /\ T # {}
  <2>1. Size - w0 \in T
    BY Memory DEF Slots
  <2> QED
    BY <2>1
<1>2. PICK x \in T : \A y \in T : x <= y
  <2> HIDE DEF T
  <2> QED
    BY <1>1, LeastNumber
<1>3. PICK w \in Slots : w \notin S /\ x = Size - w
  BY <1>2
<1>4. PICK v \in Slots : v > w /\ v \notin S
  BY <1>3
<1>5. Size - v \in T
  BY <1>4, Memory DEF Slots
<1> QED
  BY <1>2, <1>3, <1>4, <1>5, Memory DEF Slots

(* F is computed by a walk along the planes of the memory m: with G from   *)
(* what it is at the next plane, and where there is none it is d.          *)
Walks(F, m, d, G) ==
  \A w \in Slots : F[w] = IF m[w] \in 1..(Size - 1 - w) THEN G[<<w, F[w + m[w]]>>] ELSE d[w]

(* Such a function exists for every memory, whatever is in it.             *)
LEMMA Walk ==
  ASSUME NEW m \in [Slots -> Int], NEW V, NEW d \in [Slots -> V], NEW G \in [Slots \X V -> V]
  PROVE  \E F \in [Slots -> V] : Walks(F, m, d, G)
<1> DEFINE Value(F, w) == IF m[w] \in 1..(Size - 1 - w) THEN G[<<w, F[w + m[w]]>>] ELSE d[w]
           Solves(F, k) == \A w \in Slots : w >= k => F[w] = Value(F, w)
           S == {k \in Slots : \E F \in [Slots -> V] : Solves(F, k)}
<1>1. \A F \in [Slots -> V], w \in Slots : Value(F, w) \in V
  BY Memory DEF Slots
<1>2. ASSUME NEW k \in Slots, \A v \in Slots : v > k => v \in S
      PROVE  k \in S
  <2>1. PICK F \in [Slots -> V] : \A w \in Slots : w > k => F[w] = Value(F, w)
    <3>1. CASE k + 1 \in Slots
      <4>1. PICK F \in [Slots -> V] : Solves(F, k + 1)
        BY <1>2, <3>1, Memory
      <4>2. \A w \in Slots : w > k => w >= k + 1
        BY Memory
      <4> QED
        BY <4>1, <4>2
    <3>2. CASE k + 1 \notin Slots
      <4>1. \A w \in Slots : ~(w > k)
        BY <3>2, Memory DEF Slots
      <4> QED
        BY <4>1
    <3> QED
      BY <3>1, <3>2
  <2> DEFINE H == [F EXCEPT ![k] = Value(F, k)]
  <2>2. H \in [Slots -> V]
    BY <1>1
  <2>3. \A w \in Slots : w >= k => Value(H, w) = Value(F, w)
    <3>1. \A v \in Slots : v > k => H[v] = F[v]
      BY Memory
    <3>2. \A w \in Slots : w >= k /\ m[w] \in 1..(Size - 1 - w)
                          => w + m[w] \in Slots /\ w + m[w] > k
      BY Memory DEF Slots
    <3> HIDE DEF H
    <3> QED
      BY <3>1, <3>2
  <2>4. \A w \in Slots : w >= k => H[w] = Value(F, w)
    BY <2>1, Memory
  <2>5. Solves(H, k)
    <3> HIDE DEF H, Value
    <3> QED BY <2>3, <2>4
  <2> HIDE DEF H, Solves
  <2> QED
    BY <2>2, <2>5
<1>3. Slots \subseteq S
  <2> HIDE DEF S
  <2> QED
    BY <1>2, WordInduction
<1>4. PICK F \in [Slots -> V] : Solves(F, 0)
  <2>1. 0 \in S
    <3>1. 0 \in Slots
      BY Memory DEF Slots
    <3> QED
      BY <1>3, <3>1
  <2> HIDE DEF Solves
  <2> QED
    BY <2>1
<1> QED
  BY <1>4, Memory DEF Walks

(* So the recursive functions of the model are what their equations say.   *)
(* IsList: the HVS comes to an end word.                                   *)
LEMMA IsListEquation ==
  ASSUME mem \in [Slots -> Int]
  PROVE  IsList = [w \in Slots |-> mem[w] = End \/ (IsPlane(w) /\ IsList[w + mem[w]])]
<1> DEFINE V == BOOLEAN
           d == [w \in Slots |-> mem[w] = End]
           G == [p \in Slots \X V |-> p[2]]
<1>1. d \in [Slots -> V] /\ G \in [Slots \X V -> V]
  OBVIOUS
<1>2. PICK F \in [Slots -> V] : Walks(F, mem, d, G)
  <2> HIDE DEF V, d, G
  <2> QED BY <1>1, Walk
<1>3. \A w \in Slots : IsPlane(w) => w + mem[w] \in Slots /\ mem[w] # End
  BY Memory DEF Slots, IsPlane, End
<1>4. \A w \in Slots : F[w] = (mem[w] = End \/ (IsPlane(w) /\ F[w + mem[w]]))
  BY <1>2, <1>3 DEF IsPlane, Walks
<1>5. F = [w \in Slots |-> mem[w] = End \/ (IsPlane(w) /\ F[w + mem[w]])]
  BY <1>4
<1> QED
  BY <1>5 DEF IsList

(* ListWords: the words that the HVS reads.                                *)
LEMMA ListWordsEquation ==
  ASSUME mem \in [Slots -> Int]
  PROVE  ListWords = [w \in Slots |->
                        IF IsPlane(w) THEN w..(w + mem[w] - 1) \cup ListWords[w + mem[w]] ELSE {w}]
<1> DEFINE V == SUBSET Slots
           d == [w \in Slots |-> {w}]
           G == [p \in Slots \X V |->
                  IF IsPlane(p[1]) THEN p[1]..(p[1] + mem[p[1]] - 1) \cup p[2] ELSE p[2]]
<1>1. d \in [Slots -> V] /\ G \in [Slots \X V -> V]
  <2>1. \A w \in Slots : IsPlane(w) => w..(w + mem[w] - 1) \subseteq Slots
    BY Memory DEF Slots, IsPlane
  <2> QED
    BY <2>1
<1>2. PICK F \in [Slots -> V] : Walks(F, mem, d, G)
  <2> HIDE DEF V, d, G
  <2> QED
    BY <1>1, Walk
<1>3. \A w \in Slots : IsPlane(w) => w + mem[w] \in Slots
  BY Memory DEF Slots, IsPlane
<1>4. \A w \in Slots : F[w] = IF IsPlane(w) THEN w..(w + mem[w] - 1) \cup F[w + mem[w]] ELSE {w}
  <2> SUFFICES ASSUME NEW w \in Slots
               PROVE  F[w] = IF IsPlane(w) THEN w..(w + mem[w] - 1) \cup F[w + mem[w]] ELSE {w}
    OBVIOUS
  <2>1. CASE IsPlane(w)
    BY <1>2, <1>3, <2>1 DEF IsPlane, Walks
  <2>2. CASE ~IsPlane(w)
    BY <1>2, <1>3, <2>2 DEF IsPlane, Walks
  <2> QED
    BY <2>1, <2>2
<1>5. F = [w \in Slots |-> IF IsPlane(w) THEN w..(w + mem[w] - 1) \cup F[w + mem[w]] ELSE {w}]
  BY <1>4
<1> QED
  BY <1>5 DEF ListWords

(* Heads: the words at which hvs_dump looks (hvs.c 290-342).               *)
LEMMA HeadsEquation ==
  ASSUME mem \in [Slots -> Int]
  PROVE  Heads = [w \in Slots |-> {w} \cup IF IsPlane(w) THEN Heads[w + mem[w]] ELSE {}]
<1> DEFINE V == SUBSET Slots
           d == [w \in Slots |-> {w}]
           G == [p \in Slots \X V |-> {p[1]} \cup p[2]]
<1>1. d \in [Slots -> V] /\ G \in [Slots \X V -> V]
  OBVIOUS
<1>2. PICK F \in [Slots -> V] : Walks(F, mem, d, G)
  <2> HIDE DEF V, d, G
  <2> QED
    BY <1>1, Walk
<1>3. \A w \in Slots : IsPlane(w) => w + mem[w] \in Slots
  BY Memory DEF Slots, IsPlane
<1>4. \A w \in Slots : F[w] = {w} \cup IF IsPlane(w) THEN F[w + mem[w]] ELSE {}
  <2> SUFFICES ASSUME NEW w \in Slots
               PROVE  F[w] = {w} \cup IF IsPlane(w) THEN F[w + mem[w]] ELSE {}
    OBVIOUS
  <2>1. CASE IsPlane(w)
    BY <1>2, <1>3, <2>1 DEF IsPlane, Walks
  <2>2. CASE ~IsPlane(w)
    BY <1>2, <1>3, <2>2 DEF IsPlane, Walks
  <2> QED
    BY <2>1, <2>2
<1>5. F = [w \in Slots |-> {w} \cup IF IsPlane(w) THEN F[w + mem[w]] ELSE {}]
  BY <1>4
<1> QED
  BY <1>5 DEF Heads

-----------------------------------------------------------------------------
(* H has the first words of the planes that lead from a to e, and e.       *)
LinkedTo(H, a, e) ==
  /\ a \in H /\ H \subseteq a..e
  /\ \A w \in H \ {e} : mem[w] >= 1 /\ w + mem[w] \in H

(* They make a list from a to its end word e.                              *)
ListAt(H, a, e) == LinkedTo(H, a, e) /\ a \in Slots /\ e \in Slots /\ mem[e] = End

(* Its words but the last are planes.                                      *)
LEMMA ListPlanes ==
  ASSUME mem \in [Slots -> Int], NEW H, NEW a, NEW e, ListAt(H, a, e), NEW w \in H
  PROVE  /\ w \in Slots /\ w \in a..e
         /\ w = e => ~IsPlane(w) /\ mem[w] = End
         /\ w # e => IsPlane(w) /\ w + mem[w] \in H /\ w + mem[w] \in Slots
                     /\ mem[w] \in Int /\ w + mem[w] > w /\ w + mem[w] <= e
<1>1. w \in a..e /\ a \in 0..(Size - 1) /\ e \in 0..(Size - 1) /\ Size \in Nat
  BY Memory DEF ListAt, LinkedTo, Slots
<1>2. w \in Slots /\ mem[w] \in Int
  BY <1>1 DEF Slots
<1>3. w = e => ~IsPlane(w) /\ mem[w] = End
  BY <1>1 DEF ListAt, IsPlane, End
<1>4. ASSUME w # e
      PROVE  mem[w] >= 1 /\ w + mem[w] \in H /\ w + mem[w] \in a..e
  BY <1>4 DEF ListAt, LinkedTo
<1> QED
  BY <1>1, <1>2, <1>3, <1>4 DEF IsPlane, Slots

(* The HVS, which follows the planes of such a list, comes to its end.     *)
LEMMA ListIsOne ==
  ASSUME mem \in [Slots -> Int], NEW H, NEW a, NEW e, ListAt(H, a, e)
  PROVE  IsList[a]
<1> DEFINE S == {w \in Slots : w \in H => IsList[w]}
<1>1. ASSUME NEW w \in Slots, \A v \in Slots : v > w => v \in S
      PROVE  w \in S
  <2> SUFFICES ASSUME w \in H
               PROVE  IsList[w]
    OBVIOUS
  <2>1. IsList[w] = (mem[w] = End \/ (IsPlane(w) /\ IsList[w + mem[w]]))
    BY IsListEquation
  <2>2. CASE w = e
    BY <2>1, <2>2, ListPlanes
  <2>3. CASE w # e
    <3>1. IsPlane(w) /\ w + mem[w] \in H /\ w + mem[w] \in Slots /\ w + mem[w] > w
      BY <2>3, ListPlanes
    <3>2. IsList[w + mem[w]]
      BY <1>1, <3>1
    <3> QED
      BY <2>1, <3>1, <3>2
  <2> QED
    BY <2>2, <2>3
<1>2. Slots \subseteq S
  <2> HIDE DEF S
  <2> QED
    BY <1>1, WordInduction
<1>3. a \in H /\ a \in Slots
  BY DEF ListAt, LinkedTo
<1> QED
  BY <1>2, <1>3

(* It reads all the words from the list's first to its end word, and no    *)
(* other.                                                                  *)
LEMMA ListIsWithin ==
  ASSUME mem \in [Slots -> Int], NEW H, NEW a, NEW e, ListAt(H, a, e)
  PROVE  ListWords[a] = a..e
<1> DEFINE S == {w \in Slots : w \in H => ListWords[w] = w..e}
<1>1. ASSUME NEW w \in Slots, \A v \in Slots : v > w => v \in S
      PROVE  w \in S
  <2> SUFFICES ASSUME w \in H
               PROVE  ListWords[w] = w..e
    OBVIOUS
  <2>1. ListWords[w] = IF IsPlane(w) THEN w..(w + mem[w] - 1) \cup ListWords[w + mem[w]] ELSE {w}
    BY ListWordsEquation
  <2>2. w \in Int /\ e \in Int
    BY Memory DEF ListAt
  <2>3. CASE w = e
    <3>1. ListWords[w] = {w}
      BY <2>1, <2>3, ListPlanes
    <3> QED
      BY <2>2, <2>3, <3>1
  <2>4. CASE w # e
    <3>1. /\ IsPlane(w) /\ w + mem[w] \in H /\ w + mem[w] \in Slots /\ w + mem[w] > w
          /\ w + mem[w] <= e /\ mem[w] \in Int
      BY <2>4, ListPlanes
    <3>2. ListWords[w + mem[w]] = (w + mem[w])..e
      BY <1>1, <3>1
    <3>3. w..(w + mem[w] - 1) \cup (w + mem[w])..e = w..e
      BY <2>2, <3>1
    <3> QED
      BY <2>1, <3>1, <3>2, <3>3
  <2> QED
    BY <2>3, <2>4
<1>2. Slots \subseteq S
  <2> HIDE DEF S
  <2> QED
    BY <1>1, WordInduction
<1>3. a \in H /\ a \in Slots
  BY DEF ListAt, LinkedTo
<1> QED
  BY <1>2, <1>3

(* The first words of a list's planes are those that the walk comes to:    *)
(* with the first word of a plane there is the word behind the plane.      *)
LEMMA HeadsGoOn ==
  ASSUME mem \in [Slots -> Int], NEW a \in Slots
  PROVE  /\ a \in Heads[a]
         /\ \A w \in Heads[a] : w \in Slots /\ (IsPlane(w) => w + mem[w] \in Heads[a])
<1> DEFINE S == {k \in Slots : k \in Heads[k] /\ \A w \in Heads[k] :
                                 w \in Slots /\ (IsPlane(w) => w + mem[w] \in Heads[k])}
<1>1. ASSUME NEW k \in Slots, \A v \in Slots : v > k => v \in S
      PROVE  k \in S
  <2>1. Heads[k] = {k} \cup IF IsPlane(k) THEN Heads[k + mem[k]] ELSE {}
    BY HeadsEquation
  <2>2. CASE ~IsPlane(k)
    BY <2>1, <2>2
  <2>3. CASE IsPlane(k)
    <3>1. k + mem[k] \in Slots /\ k + mem[k] > k
      BY <2>3, Memory DEF IsPlane, Slots
    <3>2. k + mem[k] \in S
      BY <1>1, <3>1
    <3> QED
      BY <2>1, <2>3, <3>2
  <2> QED
    BY <2>2, <2>3
<1>2. Slots \subseteq S
  <2> HIDE DEF S
  <2> QED
    BY <1>1, WordInduction
<1> QED
  BY <1>2

(* A list stays a list as long as the first words of its planes ...        *)
LEMMA LinksStay ==
  ASSUME NEW H, NEW a, NEW e, LinkedTo(H, a, e), \A w \in H \ {e} : mem'[w] = mem[w]
  PROVE  LinkedTo(H, a, e)'
BY DEF LinkedTo

(* ... and its end word, or all its words, are not changed.                *)
LEMMA ListStays ==
  ASSUME NEW H, NEW a \in Int, NEW e \in Int, ListAt(H, a, e), a <= e,
         \A w \in a..e : mem'[w] = mem[w]
  PROVE  ListAt(H, a, e)'
<1>1. e \in a..e /\ H \subseteq a..e
  BY DEF ListAt, LinkedTo
<1> QED
  BY <1>1, LinksStay DEF ListAt

-----------------------------------------------------------------------------
(* The ring of lists. *)

(* The words that the update u was given are behind the word e, or before  *)
(* the list that is shown.                                                 *)
Clear(u, e) == u.start > e \/ u.start + Need(limit) - 1 < displist

(* What DISPLIST1 points to is a list, and it is kept apart from the list  *)
(* that is being written: between two updates the cursor is where its end  *)
(* word has left it, during an update the words for the new list are       *)
(* elsewhere.                                                              *)
Apart(who) ==
  \E e \in Slots, H \in SUBSET Slots :
    /\ ListAt(H, displist, e)
    /\ upd[who].pc = "idle" => slot = Wrapped(e + 1)
    /\ upd[who].pc # "idle" => Fits(limit) /\ Clear(upd[who], e)

(* How far the new list has come: its planes so far lead from its first    *)
(* word to the cursor, or to the plane that is open.                       *)
Written(u) ==
  CASE u.pc = "planes"  -> \E G \in SUBSET Nat : slot \in G /\ LinkedTo(G, u.start, slot)
    [] u.pc = "plane"   -> \E G \in SUBSET Nat : u.plane \in G /\ LinkedTo(G, u.start, u.plane)
    [] u.pc = "publish" -> \E G \in SUBSET Nat : ListAt(G, u.start, slot - 1)
    [] OTHER            -> TRUE

(* The update has its room, and the list memory is used as a ring of       *)
(* lists; unless this update had to write over the list that is shown.     *)
RingInv(who) ==
  /\ RoomInv(who)
  /\ mem \in [Slots -> Int]
  /\ Fits(limit) => Written(upd[who])
  /\ clash = "none" => Apart(who)
  /\ clash = "list" => upd[who].pc # "idle"

(* The inductive invariant. *)
ListInv == TypeInv /\ (clash # "update" => \E who \in Callers : Alone(who) /\ RingInv(who))

(* dance.c 55-58, 123-126: if there is any room for a new list beside the  *)
(* one that is shown, then there is where the new list goes: behind it, or *)
(* at 0.                                                                   *)
LEMMA RoomIsClear ==
  ASSUME limit \in Nat, NEW e \in Slots, displist \in Slots, displist <= e,
         ListWords[displist] = displist..e, slot = Wrapped(e + 1), HasRoom
  PROVE  Fits(limit) /\ (Room(slot) > e \/ Room(slot) + Need(limit) - 1 < displist)
<1> DEFINE n == limit * ScaledWords
<1>1. n \in Nat /\ Need(limit) = n + 1
  BY Numbers DEF Need
<1>2. e \in Nat /\ displist \in Nat /\ e < Size /\ High \in Nat /\ Size \in Nat
  BY Memory DEF Slots
<1>3. PICK first \in 0..High :
        first + n < Size /\ (first..(first + n)) \cap (displist..e) = {}
  BY DEF HasRoom
<1>4. Room(slot) = IF slot + n + 1 > Size THEN 0 ELSE slot
  BY DEF Room
<1> HIDE DEF n
<1>5. first \in Nat /\ first <= High
  BY <1>2, <1>3
<1>6. first > e \/ first + n < displist
  <2> SUFFICES ASSUME first <= e, displist <= first + n
               PROVE  FALSE
    BY <1>1, <1>2, <1>5
  <2>1. CASE first >= displist
    <3>1. first \in first..(first + n) /\ first \in displist..e
      BY <2>1, <1>1, <1>2, <1>5
    <3> QED
      BY <3>1, <1>3
  <2>2. CASE ~(first >= displist)
    <3>1. displist \in first..(first + n) /\ displist \in displist..e
      BY <2>2, <1>1, <1>2, <1>5
    <3> QED
      BY <3>1, <1>3
  <2> QED
    BY <2>1, <2>2
<1>7. Fits(limit)
  BY <1>1, <1>2, <1>3, <1>5 DEF Fits
<1>8. CASE e + 1 > High
  <2>1. slot = 0 /\ Room(slot) = 0
    BY <1>4, <1>8 DEF Wrapped
  <2> QED
    BY <2>1, <1>1, <1>2, <1>5, <1>6, <1>7, <1>8
<1>9. CASE ~(e + 1 > High)
  <2>1. slot = e + 1
    BY <1>9 DEF Wrapped
  <2> QED
    BY <2>1, <1>1, <1>2, <1>3, <1>4, <1>5, <1>6, <1>7
<1> QED
  BY <1>8, <1>9

(* The words that the next step of the update u writes.                    *)
Touched(u) ==
  CASE u.pc = "planes"  -> {slot}
    [] u.pc = "plane"   -> u.plane..(u.plane + ScaledWords - 1)
    [] OTHER            -> {}

(* They are words that the update was given.                               *)
LEMMA TouchesItsOwn ==
  ASSUME NEW who \in Callers, RoomInv(who), upd[who].pc \in {"planes", "plane"}
  PROVE  /\ Touched(upd[who]) \subseteq upd[who].start..(upd[who].start + Need(limit) - 1)
         /\ upd[who].start \in Nat /\ Need(limit) \in Nat
<1> DEFINE u == upd[who]
           n == limit - u.i
<1>1. /\ limit \in Nat /\ slot \in Nat /\ Need(limit) \in Nat /\ Counted(u)
      /\ u.start \in Nat /\ u.i \in Nat /\ u.plane \in Nat
  BY NeedSome DEF RoomInv, Counters, Updates
<1>2. CASE u.pc = "planes"
  <2>1. n \in Nat /\ u.start <= slot /\ slot + Need(n) = u.start + Need(limit)
    BY <1>1, <1>2 DEF Counted
  <2>2. Need(n) \in Nat /\ Need(n) >= 1
    BY <2>1, NeedSome
  <2>3. Touched(u) = {slot}
    BY <1>2 DEF Touched
  <2> HIDE DEF n, u
  <2> QED
    BY <1>1, <2>1, <2>2, <2>3 DEF u
<1>3. CASE u.pc = "plane"
  <2>1. n \in Nat /\ n >= 1 /\ u.start <= u.plane /\ u.plane + Need(n) = u.start + Need(limit)
    BY <1>1, <1>3 DEF Counted
  <2>2. Need(n) = Need(n - 1) + ScaledWords /\ Need(n - 1) \in Nat /\ Need(n - 1) >= 1
    BY <2>1, NeedSome, NeedLess
  <2>3. Touched(u) = u.plane..(u.plane + ScaledWords - 1)
    BY <1>3 DEF Touched
  <2> HIDE DEF n, u
  <2>4. u.plane + ScaledWords - 1 <= u.start + Need(limit) - 1
    BY <1>1, <2>1, <2>2, Numbers
  <2>5. Touched(u) \subseteq u.start..(u.start + Need(limit) - 1)
    BY <1>1, <2>1, <2>3, <2>4, Numbers
  <2> QED
    BY <1>1, <2>5 DEF u
<1> QED
  BY <1>2, <1>3

-----------------------------------------------------------------------------
(* A step that writes only such words leaves the list that is shown alone. *)
LEMMA ApartStays ==
  ASSUME NEW who \in Callers, RingInv(who), upd[who].pc \in {"planes", "plane"},
         \A w \in Slots : w \notin Touched(upd[who]) => mem'[w] = mem[w],
         upd'[who].pc # "idle", upd'[who].start = upd[who].start,
         UNCHANGED <<displist, clash, limit>>
  PROVE  clash' = "none" => Apart(who)'
<1> SUFFICES ASSUME clash = "none"
             PROVE  Apart(who)'
  OBVIOUS
<1> DEFINE u == upd[who]
<1>1. PICK e \in Slots, H \in SUBSET Slots :
        ListAt(H, displist, e) /\ Fits(limit) /\ Clear(u, e)
  BY DEF RingInv, Apart
<1>2. Touched(u) \subseteq u.start..(u.start + Need(limit) - 1) /\ u.start \in Nat
      /\ Need(limit) \in Nat
  BY TouchesItsOwn DEF RingInv
<1>3. displist \in Slots /\ displist \in Int /\ e \in Int /\ displist <= e /\ 0 <= displist
      /\ e <= Size - 1
  BY <1>1, Memory DEF ListAt, LinkedTo, Slots
<1>4. \A w \in displist..e : w \in Slots /\ w \notin Touched(u)
  BY <1>1, <1>2, <1>3, Memory DEF Clear, Slots
<1>5. ListAt(H, displist, e)'
  BY <1>1, <1>3, <1>4, ListStays DEF ListAt
<1>6. Clear(upd[who], e)' /\ Fits(limit)'
  BY <1>1 DEF Clear, Need, Fits
<1> QED
  BY <1>1, <1>5, <1>6 DEF Apart

(* hvs.c 96-103: the first word of a plane is written, not valid yet.      *)
LEMMA OpenKeepsRing ==
  ASSUME NEW who \in Callers, RingInv(who), PlaneOpen(who)
  PROVE  /\ RingInv(who)'
         /\ \A w \in Slots : w \notin Touched(upd[who]) => mem'[w] = mem[w]
<1> DEFINE u == upd[who]
<1>1. /\ RoomInv(who) /\ mem \in [Slots -> Int] /\ u.pc = "planes" /\ u.start \in Nat
      /\ limit \in Nat
  BY DEF RingInv, RoomInv, Counters, Updates, PlaneOpen
<1>2. /\ RoomInv(who)' /\ limit' = limit /\ slot' = slot + 1 /\ slot \in Nat
      /\ upd'[who].pc = "plane" /\ upd'[who].plane = slot /\ upd'[who].start = u.start
  BY <1>1, OpenKeeps
<1>3. mem' = Filled(mem, slot, 1, Body) /\ UNCHANGED <<displist, clash>>
  BY DEF PlaneOpen
<1>4. mem' \in [Slots -> Int] /\ \A w \in Slots : w # slot => mem'[w] = mem[w]
  <2>1. Body \in Int /\ slot..(slot + 1 - 1) = {slot}
    BY <1>2 DEF Body
  <2> QED
    BY <1>1, <1>2, <1>3, <2>1, FilledIs
<1>5. \A w \in Slots : w \notin Touched(u) => mem'[w] = mem[w]
  BY <1>1, <1>4 DEF Touched
<1>6. clash' = "none" => Apart(who)'
  BY <1>1, <1>2, <1>3, <1>5, ApartStays
<1>7. ASSUME Fits(limit)
      PROVE  Written(upd[who])'
  <2>1. PICK G \in SUBSET Nat : slot \in G /\ LinkedTo(G, u.start, slot)
    BY <1>1, <1>7 DEF RingInv, Written
  <2>2. slot < Size
    <3>1. u.start + Need(limit) <= Size \/ u.start = 0
      BY <1>1 DEF RoomInv, Placed
    <3>2. slot \in Touched(u) /\ Need(limit) \in Nat
          /\ Touched(u) \subseteq u.start..(u.start + Need(limit) - 1)
      BY <1>1, TouchesItsOwn DEF Touched
    <3> HIDE DEF u
    <3> QED
      BY <3>1, <3>2, <1>1, <1>2, <1>7, Memory DEF Fits
  <2>3. \A w \in G \ {slot} : w \in Slots /\ w # slot
    <3> HIDE DEF u
    <3> QED
      BY <2>1, <2>2, <1>1, <1>2, Memory DEF Slots, LinkedTo
  <2>4. PICK a \in Nat, b \in Nat : a = u.start /\ b = slot
    BY <1>1, <1>2
  <2>5. LinkedTo(G, a, b)'
    BY <2>1, <2>3, <2>4, <1>4, LinksStay
  <2>6. upd'[who].plane = b /\ upd'[who].start = a
    BY <1>2, <2>4
  <2> HIDE DEF u
  <2> QED
    BY <2>1, <2>4, <2>5, <2>6, <1>2 DEF Written
<1>8. Fits(limit)' = Fits(limit)
  BY <1>2 DEF Fits, Need
<1> QED
  BY <1>2, <1>4, <1>5, <1>6, <1>7, <1>8 DEF RingInv

(* hvs.c 104-151: the other words of the plane are written, and its first  *)
(* word again, which now leads to the word behind them.                    *)
LEMMA CloseKeepsRing ==
  ASSUME NEW who \in Callers, RingInv(who), PlaneClose(who)
  PROVE  /\ RingInv(who)'
         /\ \A w \in Slots : w \notin Touched(upd[who]) => mem'[w] = mem[w]
<1> DEFINE u == upd[who]
<1>1. /\ RoomInv(who) /\ mem \in [Slots -> Int] /\ u.pc = "plane" /\ limit \in Nat
  BY DEF RingInv, RoomInv, Counters, PlaneClose
<1>2. PICK a \in Nat, p \in Nat : a = u.start /\ p = u.plane
  BY <1>1 DEF RoomInv, Counters, Updates
<1>3. /\ RoomInv(who)' /\ limit' = limit /\ slot' = p + ScaledWords
      /\ upd'[who].pc = "planes" /\ upd'[who].start = a
  BY <1>1, <1>2, CloseKeeps
<1>4. slot = p + 1 /\ a <= p
  BY <1>1, <1>2 DEF RoomInv, Counted
<1>5. ScaledWords \in Nat /\ ScaledWords >= 1 /\ ScaledWords % WordsField = ScaledWords
  BY DisplayAssumption DEF DisplayAssumption
<1>6. UNCHANGED <<displist, clash>>
  BY DEF PlaneClose
<1>7. mem' = Filled(Filled(mem, p + 1, ScaledWords - 1, Body), p, 1, ScaledWords)
  <2>1. (slot + ScaledWords - 1 - p) % WordsField = ScaledWords
    BY <1>4, <1>5
  <2>2. mem' = Filled(Filled(mem, slot, ScaledWords - 1, Body), p, 1,
                      (slot + ScaledWords - 1 - p) % WordsField)
    BY <1>2, <1>4, <1>5, Numbers DEF PlaneClose
  <2> QED
    BY <2>1, <2>2, <1>4
<1>8. /\ mem' \in [Slots -> Int]
      /\ \A w \in Slots : w \notin p..(p + ScaledWords - 1) => mem'[w] = mem[w]
      /\ p \in Slots => mem'[p] = ScaledWords
  <2> DEFINE m == Filled(mem, p + 1, ScaledWords - 1, Body)
  <2>1. /\ m \in [Slots -> Int]
        /\ \A w \in Slots : w \notin (p + 1)..(p + 1 + (ScaledWords - 1) - 1) => m[w] = mem[w]
    BY <1>1, <1>5, FilledIs DEF Body
  <2>2. mem' = Filled(m, p, 1, ScaledWords)
    BY <1>7
  <2> HIDE DEF m
  <2>3. /\ Filled(m, p, 1, ScaledWords) \in [Slots -> Int]
        /\ \A w \in Slots : w \in p..(p + 1 - 1) => Filled(m, p, 1, ScaledWords)[w] = ScaledWords
        /\ \A w \in Slots : w \notin p..(p + 1 - 1) => Filled(m, p, 1, ScaledWords)[w] = m[w]
    BY <2>1, <1>5, FilledIs
  <2>4. p \in p..(p + 1 - 1)
    OBVIOUS
  <2>5. \A w \in Slots : w \notin p..(p + ScaledWords - 1)
                         => w \notin p..(p + 1 - 1)
                         /\ w \notin (p + 1)..(p + 1 + (ScaledWords - 1) - 1)
    BY <1>5, Memory
  <2> QED
    BY <2>1, <2>2, <2>3, <2>4, <2>5
<1>9. \A w \in Slots : w \notin Touched(u) => mem'[w] = mem[w]
  BY <1>1, <1>2, <1>8 DEF Touched
<1>10. clash' = "none" => Apart(who)'
  BY <1>1, <1>2, <1>3, <1>6, <1>9, ApartStays
<1>11. ASSUME Fits(limit)
       PROVE  Written(upd[who])'
  <2>1. PICK G \in SUBSET Nat : p \in G /\ LinkedTo(G, a, p)
    BY <1>1, <1>2, <1>11 DEF RingInv, Written
  <2>2. PICK b \in Nat : b = p + ScaledWords
    BY <1>5
  <2> DEFINE K == G \cup {b}
  <2>3. p \in Slots /\ G \subseteq a..p
    <3>1. a + Need(limit) <= Size \/ a = 0
      BY <1>1, <1>2 DEF RoomInv, Placed
    <3>2. Touched(u) = p..(p + ScaledWords - 1) /\ Need(limit) \in Nat
          /\ Touched(u) \subseteq a..(a + Need(limit) - 1)
      BY <1>1, <1>2, TouchesItsOwn DEF Touched
    <3>3. p \in a..(a + Need(limit) - 1)
      BY <3>2, <1>5
    <3> HIDE DEF u
    <3> QED
      BY <2>1, <3>1, <3>2, <3>3, <1>11, Memory DEF Slots, LinkedTo, Fits
  <2>4. \A w \in G \ {p} : w \in Slots /\ w \notin p..(p + ScaledWords - 1)
    BY <2>3, Memory DEF Slots
  <2>5. K \in SUBSET Nat /\ b \in K /\ K \subseteq a..b /\ a \in K
    BY <2>1, <2>2, <2>3, <1>5 DEF LinkedTo
  <2>6. \A w \in K \ {b} : mem'[w] >= 1 /\ w + mem'[w] \in K
    <3>1. mem'[p] = ScaledWords
      BY <1>8, <2>3
    <3>2. \A w \in G \ {p} : mem'[w] = mem[w]
      BY <1>8, <2>4
    <3>3. \A w \in G \ {p} : mem'[w] >= 1 /\ w + mem'[w] \in K
      BY <2>1, <3>2 DEF LinkedTo
    <3> QED
      BY <2>2, <3>1, <3>3, <1>5
  <2>7. LinkedTo(K, a, b)'
    BY <2>5, <2>6 DEF LinkedTo
  <2>8. slot' = b
    BY <1>3, <2>2
  <2> HIDE DEF K, u
  <2> QED
    BY <2>5, <2>7, <2>8, <1>3 DEF Written
<1>12. Fits(limit)' = Fits(limit)
  BY <1>3 DEF Fits, Need
<1> QED
  BY <1>3, <1>8, <1>9, <1>10, <1>11, <1>12 DEF RingInv

(* hvs.c 154-157: the end word makes a list of the planes.                 *)
LEMMA TerminateKeepsRing ==
  ASSUME NEW who \in Callers, RingInv(who), TerminateList(who)
  PROVE  /\ RingInv(who)'
         /\ \A w \in Slots : w \notin Touched(upd[who]) => mem'[w] = mem[w]
<1> DEFINE u == upd[who]
<1>1. /\ RoomInv(who) /\ mem \in [Slots -> Int] /\ u.pc = "planes" /\ u.start \in Nat
      /\ limit \in Nat /\ slot \in Nat
  BY DEF RingInv, RoomInv, Counters, Updates, TerminateList
<1>2. PICK a \in Nat, b \in Nat : a = u.start /\ b = slot
  BY <1>1
<1>3. /\ RoomInv(who)' /\ limit' = limit /\ slot' = b + 1 /\ b + 1 = a + Need(limit)
      /\ upd'[who].pc = "publish" /\ upd'[who].start = a
  BY <1>1, <1>2, TerminateKeeps
<1>4. mem' = Filled(mem, b, 1, End) /\ UNCHANGED <<displist, clash>>
  BY <1>2 DEF TerminateList
<1>5. /\ mem' \in [Slots -> Int] /\ (b \in Slots => mem'[b] = End)
      /\ \A w \in Slots : w # b => mem'[w] = mem[w]
  <2>1. End \in Int /\ b..(b + 1 - 1) = {b}
    BY DEF End
  <2> QED
    BY <1>1, <1>4, <2>1, FilledIs
<1>6. \A w \in Slots : w \notin Touched(u) => mem'[w] = mem[w]
  BY <1>1, <1>2, <1>5 DEF Touched
<1>7. clash' = "none" => Apart(who)'
  BY <1>1, <1>2, <1>3, <1>4, <1>6, ApartStays
<1>8. ASSUME Fits(limit)
      PROVE  Written(upd[who])'
  <2>1. PICK G \in SUBSET Nat : b \in G /\ LinkedTo(G, a, b)
    BY <1>1, <1>2, <1>8 DEF RingInv, Written
  <2>2. b \in Slots
    <3>1. a + Need(limit) <= Size \/ a = 0
      BY <1>1, <1>2 DEF RoomInv, Placed
    <3>2. Need(limit) \in Nat
      BY <1>1, NeedSome
    <3> HIDE DEF u
    <3> QED
      BY <3>1, <3>2, <1>3, <1>8, Memory DEF Slots, Fits
  <2>3. \A w \in G \ {b} : w \in Slots /\ w # b
    BY <2>1, <2>2, Memory DEF LinkedTo, Slots
  <2>4. LinkedTo(G, a, b)'
    BY <2>1, <2>3, <1>5, LinksStay
  <2>5. a \in Slots
    <3>1. a \in a..b
      BY <2>1 DEF LinkedTo
    <3> QED
      BY <3>1, <2>2, Memory DEF Slots
  <2>6. ListAt(G, a, b)'
    BY <2>4, <2>5, <2>2, <1>5 DEF ListAt
  <2>7. slot' - 1 = b
    BY <1>3
  <2>8. \E K \in SUBSET Nat : ListAt(K, upd[who].start, slot - 1)'
    BY <2>6, <2>7, <1>3
  <2> QED
    BY <2>8, <1>3 DEF Written
<1>9. Fits(limit)' = Fits(limit)
  BY <1>3 DEF Fits, Need
<1> QED
  BY <1>3, <1>5, <1>6, <1>7, <1>8, <1>9 DEF RingInv

(* dance.c 114-126: the list that was written is the one that is shown     *)
(* now, whatever it was written over.                                      *)
LEMMA PublishKeepsRing ==
  ASSUME NEW who \in Callers, RingInv(who), Publish(who)
  PROVE  /\ RingInv(who)' /\ mem' = mem
         /\ \E e \in Slots, H \in SUBSET Slots :
              ListAt(H, displist, e)' /\ e = displist' + limit * ScaledWords
<1> DEFINE u == upd[who]
<1>1. /\ RoomInv(who) /\ mem \in [Slots -> Int] /\ u.pc = "publish" /\ u.start \in Nat
      /\ limit \in Nat /\ slot \in Nat
  BY DEF RingInv, RoomInv, Counters, Updates, Publish
<1>2. RoomInv(who)' /\ limit' = limit /\ Fits(limit) /\ slot = u.start + Need(limit)
      /\ upd'[who].pc = "idle"
  BY <1>1, PublishKeeps
<1>3. mem' = mem /\ displist' = u.start /\ slot' = Wrapped(slot) /\ clash' # "list"
  BY DEF Publish
<1>4. PICK a \in Nat, e \in Int : a = u.start /\ e = slot - 1
  BY <1>1
<1>5. PICK G \in SUBSET Nat : ListAt(G, a, e)
  BY <1>1, <1>2, <1>4 DEF RingInv, Written
<1>6. e \in Slots /\ G \in SUBSET Slots
  BY <1>5, Memory DEF ListAt, LinkedTo, Slots
<1>7. ListAt(G, displist, e)'
  BY <1>3, <1>4, <1>5 DEF ListAt, LinkedTo
<1>8. slot' = Wrapped(e + 1)
  BY <1>1, <1>3, <1>4
<1>9. Apart(who)'
  BY <1>2, <1>6, <1>7, <1>8 DEF Apart, Wrapped
<1>10. Written(upd[who])'
  BY <1>2 DEF Written
<1>11. e = displist' + limit * ScaledWords
  <2>1. limit * ScaledWords \in Nat
    BY <1>1, Numbers
  <2> QED
    BY <1>1, <1>2, <1>3, <1>4, <2>1 DEF Need
<1> QED
  BY <1>1, <1>2, <1>3, <1>6, <1>7, <1>9, <1>10, <1>11 DEF RingInv

(* dance.c 114-121: one that has not become a list is begun again.         *)
LEMMA OverflowKeepsRing ==
  ASSUME NEW who \in Callers, RingInv(who), Overflow(who)
  PROVE  RingInv(who)' /\ mem' = mem
<1>1. RoomInv(who)' /\ limit' = limit /\ ~Fits(limit) /\ upd'[who].pc = "planes"
  BY OverflowKeeps DEF RingInv
<1>2. UNCHANGED <<mem, displist, clash>> /\ upd[who].pc # "idle"
  BY DEF Overflow
<1>3. clash # "none"
  BY <1>1, <1>2 DEF RingInv, Apart
<1>4. ~Fits(limit)'
  BY <1>1 DEF Fits, Need
<1> QED
  BY <1>1, <1>2, <1>3, <1>4 DEF RingInv

(* Every step of an update. *)
LEMMA UpdateKeepsRing ==
  ASSUME NEW who \in Callers, RingInv(who), UpdateStep(who)
  PROVE  /\ RingInv(who)'
         /\ \A w \in Slots : w \notin Touched(upd[who]) => mem'[w] = mem[w]
BY OpenKeepsRing, CloseKeepsRing, TerminateKeepsRing, PublishKeepsRing, OverflowKeepsRing
DEF UpdateStep

(* Between two updates it is all the same who made the last one.           *)
LEMMA RingIsAnyones ==
  ASSUME NEW v \in Callers, RingInv(v), NEW who \in Callers,
         Alone(v), upd[who].pc # "idle" \/ upd[v].pc = "idle"
  PROVE  Alone(who) /\ RingInv(who)
<1>1. CASE who = v
  BY <1>1
<1>2. CASE who # v
  <2>1. upd[who].pc = "idle" /\ upd[v].pc = "idle"
    BY <1>2 DEF Alone
  <2>2. Alone(who) /\ RoomInv(who)
    BY <2>1, WhoIsAlone DEF RingInv
  <2>3. Written(upd[who])
    BY <2>1 DEF Written
  <2>4. clash = "none" => Apart(who)
    BY <2>1 DEF RingInv, Apart
  <2> QED
    BY <2>1, <2>2, <2>3, <2>4 DEF RingInv
<1> QED
  BY <1>1, <1>2

(* dance.c 51-71: an update that begins, if there is any room, finds a     *)
(* place that is clear of the list that is shown.                          *)
LEMMA BeginKeepsRing ==
  ASSUME NEW who \in Callers, RingInv(who), NEW f, UpdateBegin(who, f), TypeInv,
         clash # "update", clash' # "update"
  PROVE  RingInv(who)' /\ mem' = mem
<1>1. /\ RoomInv(who) /\ Counters /\ mem \in [Slots -> Int] /\ upd[who].pc = "idle"
      /\ slot \in Nat /\ limit \in Nat
  BY DEF RingInv, RoomInv, Counters, UpdateBegin
<1>2. RoomInv(who)' /\ UNCHANGED <<mem, displist, limit>> /\ clash # "list"
  BY <1>1, BeginKeeps, BeginTypes DEF RingInv
<1>3. Fits(limit)' = Fits(limit)
  BY <1>2 DEF Fits, Need
<1>4. CASE UNCHANGED <<slot, upd, clash>>
  <2>1. Apart(who)' = Apart(who)
    BY <1>1, <1>2, <1>4 DEF Apart, ListAt, LinkedTo, Wrapped
  <2>2. Written(upd[who])'
    BY <1>1, <1>4 DEF Written
  <2> QED
    BY <1>2, <1>3, <1>4, <2>1, <2>2 DEF RingInv
<1>5. CASE ~UNCHANGED <<slot, upd, clash>>
  <2>1. /\ slot' = Room(slot) /\ clash' = NextClash
        /\ upd'[who] = [pc |-> "planes", start |-> Room(slot), plane |-> Room(slot), i |-> 0]
    BY <1>1, <1>5, BeginTypes DEF UpdateBegin, StartList, Counters
  <2>2. PICK r \in Nat : r = Room(slot)
    BY <1>1, RoomForList
  <2>3. Written(upd[who])'
    <3>1. LinkedTo({r}, r, r)'
      BY DEF LinkedTo
    <3>2. slot' = r /\ upd'[who].start = r /\ upd'[who].pc = "planes"
      BY <2>1, <2>2
    <3>3. {r} \in SUBSET Nat /\ slot' \in {r}
      BY <3>2
    <3>4. \E G \in SUBSET Nat : slot' \in G /\ LinkedTo(G, upd[who].start, slot)'
      BY <3>1, <3>2, <3>3
    <3> QED
      BY <3>2, <3>4 DEF Written
  <2>4. ASSUME clash' = "none"
        PROVE  Apart(who)'
    <3>1. HasRoom /\ clash = "none"
      BY <1>2, <2>1, <2>4 DEF NextClash, TypeInv
    <3>2. PICK e \in Slots, H \in SUBSET Slots : ListAt(H, displist, e) /\ slot = Wrapped(e + 1)
      BY <1>1, <3>1 DEF RingInv, Apart
    <3>3. /\ displist \in Slots /\ displist <= e /\ ListWords[displist] = displist..e
          /\ displist \in Nat
      <4>1. displist \in Slots /\ displist \in displist..e
        BY <3>2 DEF ListAt, LinkedTo
      <4>2. ListWords[displist] = displist..e
        BY <1>1, <3>2, ListIsWithin
      <4> QED
        BY <4>1, <4>2, Memory
    <3>4. Fits(limit) /\ (r > e \/ r + Need(limit) - 1 < displist)
      BY <1>1, <2>2, <3>1, <3>2, <3>3, RoomIsClear
    <3>5. Clear(upd[who], e)'
      BY <1>2, <2>1, <2>2, <3>4 DEF Clear, Need
    <3>6. ListAt(H, displist, e)'
      BY <1>2, <3>2 DEF ListAt, LinkedTo
    <3> QED
      BY <1>3, <2>1, <3>2, <3>4, <3>5, <3>6 DEF Apart
  <2> QED
    BY <1>1, <1>2, <2>1, <2>3, <2>4 DEF RingInv
<1> QED
  BY <1>4, <1>5

(* A step that writes nothing. *)
LEMMA RingStays ==
  ASSUME NEW who \in Callers, RingInv(who), UNCHANGED <<mem, slot, displist, clash, upd>>,
         limit' \in Nat, limit' = limit \/ upd[who].pc = "idle"
  PROVE  RingInv(who)'
<1>1. RoomInv(who)'
  BY CountStays DEF RingInv
<1>2. Written(upd[who])' = Written(upd[who]) /\ (upd[who].pc = "idle" => Written(upd[who]))
  BY DEF Written, LinkedTo, ListAt
<1>3. limit' = limit => Fits(limit)' = Fits(limit) /\ Apart(who)' = Apart(who)
  BY DEF Fits, Need, Apart, ListAt, LinkedTo, Wrapped, Clear
<1>4. upd[who].pc = "idle" => Apart(who)' = Apart(who)
  BY DEF Apart, ListAt, LinkedTo, Wrapped
<1> QED
  BY <1>1, <1>2, <1>3, <1>4 DEF RingInv

(* Every step keeps the invariant, and none but an update's writes.        *)
LEMMA NextKeepsRing ==
  ASSUME ListInv, [Next]_vars
  PROVE  ListInv' /\ (mem' = mem \/ \E who \in Callers : UpdateStep(who))
<1>1. TypeInv /\ TypeInv' /\ Counters /\ limit' \in Nat
  BY NextTypes DEF ListInv, TypeInv, Counters
<1>2. mem' = mem \/ \E who \in Callers : UpdateStep(who)
  BY <1>1, NextCases, BeginTypes DEF Otherwise
<1>3. ASSUME clash' # "update"
      PROVE  \E v \in Callers : Alone(v)' /\ RingInv(v)'
  <2>1. ASSUME NEW who \in Callers, UpdateStep(who)
        PROVE  Alone(who)' /\ RingInv(who)'
    <3>1. clash # "update" /\ upd[who].pc # "idle"
      BY <1>1, <1>3, <2>1, UpdateTypes
    <3>2. Alone(who) /\ RingInv(who)
      BY <3>1, RingIsAnyones DEF ListInv
    <3> QED
      BY <1>1, <2>1, <3>2, UpdateKeepsRing, AloneStays
  <2>2. ASSUME NEW who \in Callers, NEW f \in {0, frame}, UpdateBegin(who, f)
        PROVE  \E v \in Callers : Alone(v)' /\ RingInv(v)'
    <3>1. clash # "update" /\ UNCHANGED <<mem, displist, limit>>
      BY <1>1, <1>3, <2>2, BeginTypes
    <3>2. PICK v \in Callers : Alone(v) /\ RingInv(v)
      BY <3>1 DEF ListInv
    <3>3. CASE UNCHANGED <<slot, upd, clash>>
      BY <1>1, <3>1, <3>2, <3>3, RingStays DEF Alone
    <3>4. CASE clash' = NextClash
      <4>1. \A c \in Callers : upd[c].pc = "idle"
        BY <1>3, <3>4, BeginsAlone
      <4>2. Alone(who) /\ RingInv(who)
        BY <3>2, <4>1, RingIsAnyones
      <4> QED
        BY <1>1, <1>3, <2>2, <3>1, <4>2, BeginKeepsRing, AloneStays
    <3> QED
      BY <1>1, <2>2, <3>3, <3>4, BeginTypes
  <2>3. CASE Otherwise
    <3>1. PICK v \in Callers : Alone(v) /\ RingInv(v)
      BY <1>3, <2>3 DEF ListInv, Otherwise
    <3> QED
      BY <1>1, <2>3, <3>1, RingStays DEF Otherwise, Alone
  <2> QED
    BY <1>1, <2>1, <2>2, <2>3, NextCases
<1> QED
  BY <1>1, <1>2, <1>3 DEF ListInv

(* While an update is made, its next step does not write to the list that  *)
(* is shown.                                                               *)
LEMMA UpdateSparesList ==
  ASSUME NEW who \in Callers, RingInv(who), clash = "none", UpdateStep(who)
  PROVE  \E e \in Slots, H \in SUBSET Slots :
           /\ ListAt(H, displist, e)
           /\ \A w \in displist..e : mem'[w] = mem[w]
<1>1. upd[who].pc # "idle"
  BY DEF UpdateStep, PlaneOpen, PlaneClose, TerminateList, Overflow, Publish
<1>2. PICK e \in Slots, H \in SUBSET Slots : ListAt(H, displist, e) /\ Clear(upd[who], e)
  BY <1>1 DEF RingInv, Apart
<1>3. displist \in Int /\ e \in Int /\ displist..e \subseteq Slots
  BY <1>2, Memory DEF ListAt, Slots
<1>4. CASE upd[who].pc \in {"planes", "plane"}
  <2>1. /\ Touched(upd[who]) \subseteq upd[who].start..(upd[who].start + Need(limit) - 1)
        /\ upd[who].start \in Nat /\ Need(limit) \in Nat
    BY <1>4, TouchesItsOwn DEF RingInv
  <2>2. \A w \in displist..e : w \notin Touched(upd[who])
    BY <1>2, <1>3, <2>1 DEF Clear
  <2> QED
    BY <1>2, <1>3, <2>2, UpdateKeepsRing
<1>5. CASE upd[who].pc \notin {"planes", "plane"}
  <2>1. Touched(upd[who]) = {}
    BY <1>5 DEF Touched
  <2> QED
    BY <1>2, <1>3, <2>1, UpdateKeepsRing
<1> QED
  BY <1>4, <1>5

(* And so no word of that list is changed, whoever makes the step.         *)
LEMMA NextSparesList ==
  ASSUME ListInv, clash = "none", [Next]_vars
  PROVE  \E e \in Slots, H \in SUBSET Slots :
           /\ ListAt(H, displist, e)
           /\ \A w \in displist..e : mem'[w] = mem[w]
<1>1. PICK v \in Callers : Alone(v) /\ RingInv(v)
  BY DEF ListInv
<1>2. CASE mem' = mem
  BY <1>1, <1>2 DEF RingInv, Apart
<1>3. ASSUME NEW who \in Callers, UpdateStep(who)
      PROVE  \E e \in Slots, H \in SUBSET Slots :
               /\ ListAt(H, displist, e)
               /\ \A w \in displist..e : mem'[w] = mem[w]
  <2>1. upd[who].pc # "idle"
    BY <1>3 DEF UpdateStep, PlaneOpen, PlaneClose, TerminateList, Overflow, Publish
  <2>2. RingInv(who)
    BY <1>1, <2>1, RingIsAnyones
  <2> QED
    BY <1>3, <2>2, UpdateSparesList
<1> QED
  BY <1>2, <1>3, NextKeepsRing

(* vec.c 114-130: the two lists of the bring-up are where the invariant    *)
(* has the first ones.                                                     *)
LEMMA BeginsApart ==
  ASSUME Init
  PROVE  ListInv /\ clash = "none"
<1> DEFINE a == UnityWords + 1
           p == a + UnityWords
           e == p + ScaledWords
<1>1. /\ UnityWords \in Nat /\ ScaledWords \in Nat /\ UnityWords >= 1 /\ ScaledWords >= 1
      /\ e + 1 <= High /\ High <= Size /\ Size \in Nat /\ High \in Nat
  BY DisplayAssumption DEF DisplayAssumption
<1>2. a \in Slots /\ p \in Slots /\ e \in Slots /\ a < p /\ p < e /\ UnityWords < a /\ a \in Nat
      /\ e \in Nat
  BY <1>1 DEF Slots
<1>3. slot = e + 1 /\ displist = a /\ clash = "none" /\ \A who \in Callers : upd[who].pc = "idle"
  BY DEF Init, Idle
<1>4. mem = [w \in Slots |->
              CASE w \in {0, a} -> UnityWords
                [] w = p -> ScaledWords
                [] w = UnityWords \/ w >= e -> End
                [] OTHER -> Body]
  <2>1. slot - 1 = e
    BY <1>2, <1>3
  <2> QED
    BY <2>1 DEF Init
<1>5. TypeInv
  BY InitTypes
<1> HIDE DEF e
<1>6. mem[a] = UnityWords /\ mem[p] = ScaledWords /\ mem[e] = End
  <2>1. a # 0 /\ p # 0 /\ e # 0 /\ p # a /\ e # a /\ e # p /\ a # UnityWords /\ p # UnityWords
        /\ ~(a >= e) /\ ~(p >= e) /\ e >= e
    BY <1>1, <1>2, Memory DEF Slots
  <2> HIDE DEF a, p
  <2> QED
    BY <2>1, <1>2, <1>4
<1>7. LinkedTo({a, p, e}, a, e)
  BY <1>1, <1>2, <1>6 DEF LinkedTo, e
<1>8. ListAt({a, p, e}, displist, e)
  BY <1>2, <1>3, <1>6, <1>7 DEF ListAt
<1>9. slot = Wrapped(e + 1)
  BY <1>1, <1>2, <1>3 DEF Wrapped, e
<1>10. Apart("irq")
  <2>1. {a, p, e} \in SUBSET Slots
    BY <1>2
  <2>2. upd["irq"].pc = "idle"
    BY <1>3 DEF Callers
  <2> QED
    BY <2>1, <2>2, <1>2, <1>8, <1>9 DEF Apart
<1>11. "irq" \in Callers /\ Alone("irq") /\ RoomInv("irq")
  <2>1. slot <= Size
    BY <1>1, <1>2, <1>3
  <2> QED
    BY <2>1, <1>3, <1>5 DEF TypeInv, RoomInv, Alone, Counted, Callers
<1>12. RingInv("irq")
  BY <1>3, <1>5, <1>10, <1>11 DEF RingInv, Written, TypeInv
<1> QED
  BY <1>3, <1>5, <1>11, <1>12 DEF ListInv

(* The invariant holds in every behaviour.                                 *)
LEMMA RingStaysForEver ==
  Spec => []ListInv
<1>1. Init => ListInv
  BY BeginsApart
<1>2. ListInv /\ [Next]_vars => ListInv'
  BY NextKeepsRing
<1> QED
  BY <1>1, <1>2, PTL DEF Spec

(* dance.c 51-127, hvs.c 72-157: what DISPLIST1 points to is a list at     *)
(* every moment, wherever the cursor has gone back to, for every limit and *)
(* every caller: as long as no update begins within another, and but for   *)
(* the time of an update for which there was no room beside that list.     *)
THEOREM ListsAreShown ==
  Spec => [](clash = "none" => Shown)
<1>1. ListInv => (clash = "none" => Shown)
  BY ListIsOne DEF ListInv, RingInv, Apart, Shown
<1> QED
  BY <1>1, RingStaysForEver, PTL

(* dance.c 51-127, 144-206: no step changes a word of the list that is     *)
(* shown while the HVS scans it, even if the interrupt is served so late   *)
(* that the next frame has begun: wherever there is room in the memory     *)
(* beside that list, the cursor finds it.                                  *)
THEOREM NeverTorn ==
  Spec => Untorn
<1>1. ListInv /\ [Next]_vars =>
        [scanning /\ clash = "none" /\ active = ListWords[displist] =>
           \A w \in active : mem'[w] = mem[w]]_vars
  <2> SUFFICES ASSUME ListInv, [Next]_vars, clash = "none", active = ListWords[displist],
                      NEW w \in active
               PROVE  mem'[w] = mem[w]
    OBVIOUS
  <2>1. PICK e \in Slots, H \in SUBSET Slots :
          ListAt(H, displist, e) /\ \A v \in displist..e : mem'[v] = mem[v]
    BY NextSparesList
  <2>2. active = displist..e
    BY <2>1, ListIsWithin DEF ListInv, TypeInv
  <2> QED
    BY <2>1, <2>2
<1> QED
  BY <1>1, RingStaysForEver, PTL DEF Spec, Untorn

-----------------------------------------------------------------------------
(* hvs_dump beside the updates. *)

(* A set of words that the walk along the planes does not lead out of.     *)
Closed(K) == \A w \in K : IsPlane(w) => w + mem[w] \in K

(* Every such set with the first word of the list that is shown has i: the *)
(* walk comes to i.                                                        *)
Reached(i) == \A K \in SUBSET Slots : displist \in K /\ Closed(K) => i \in K

Dumps == [on : BOOLEAN, list1 : Nat, i : Int, moved : BOOLEAN]

(* The dump is a command of its own; and as long as DISPLIST1 is what it   *)
(* was when it began, and there was room beside that list, the dump is at  *)
(* a word that a walk along the list that is shown comes to.               *)
DumpInv ==
  /\ ListInv
  /\ dump \in Dumps
  /\ dump.on => cmd = "dump"
  /\ dump.on /\ ~dump.moved => clash = "none" /\ dump.list1 = displist /\ Reached(dump.i)

(* That word is the end, or the first one of a plane, and then the walk    *)
(* comes to the next plane.                                                *)
LEMMA ReachedIsInList ==
  ASSUME ListInv, clash = "none", NEW i, Reached(i)
  PROVE  /\ i \in Slots
         /\ \/ mem[i] = End
            \/ IsPlane(i) /\ mem[i] \in Nat \ {0} /\ Reached(i + mem[i])
<1>1. PICK e \in Slots, H \in SUBSET Slots : ListAt(H, displist, e)
  BY DEF ListInv, RingInv, Apart
<1>2. Closed(H) /\ displist \in H
  BY <1>1, ListPlanes DEF Closed, ListAt, LinkedTo, ListInv, TypeInv
<1>3. i \in H
  BY <1>2 DEF Reached
<1>4. mem[i] = End \/ (IsPlane(i) /\ mem[i] \in Nat \ {0})
  BY <1>1, <1>3, ListPlanes DEF ListInv, TypeInv, IsPlane
<1>5. IsPlane(i) => Reached(i + mem[i])
  BY DEF Reached, Closed
<1> QED
  BY <1>3, <1>4, <1>5

(* A step of the dump leaves the lists alone.                              *)
LEMMA ListsStay ==
  ASSUME ListInv, UNCHANGED <<mem, slot, displist, clash, upd, limit>>,
         upd["console"].pc = "idle" \/ cmd' = cmd
  PROVE  ListInv'
<1>1. TypeInv'
  BY DEF ListInv, TypeInv, Counters
<1>2. \A v \in Callers : Alone(v) /\ RingInv(v) => Alone(v)' /\ RingInv(v)'
  BY RingStays DEF ListInv, TypeInv, Counters, Alone
<1> QED
  BY <1>1, <1>2 DEF ListInv

(* hvs.c 290-342: hvs_dump goes from there to the next plane.              *)
LEMMA DumpStepKeeps ==
  ASSUME DumpInv, DumpStep
  PROVE  DumpInv'
<1>1. UNCHANGED <<mem, slot, displist, clash, upd, limit>> /\ dump.on
  BY DEF DumpStep, listVars, spriteVars
<1>2. ListInv'
  BY <1>1, ListsStay DEF DumpInv, ListInv, TypeInv
<1>3. PICK w \in ReadAs(dump.i) :
        /\ dump' = [dump EXCEPT !.on = w # End /\ NextWord(dump.i, w) < dump.list1 + DumpWords,
                                !.i = IF w # End /\ NextWord(dump.i, w) < dump.list1 + DumpWords
                                      THEN NextWord(dump.i, w) ELSE dump.i]
        /\ cmd' = IF w # End /\ NextWord(dump.i, w) < dump.list1 + DumpWords
                  THEN "dump" ELSE "none"
  BY DEF DumpStep, DumpInv, Dumps
<1>4. w \in Int /\ dump.i \in Int
  BY DisplayAssumption
  DEF ReadAs, Word, End, Body, DumpInv, Dumps, ListInv, TypeInv, DisplayAssumption
<1>5. NextWord(dump.i, w) \in Int
  BY <1>4 DEF NextWord
<1>6. dump' \in Dumps /\ dump'.list1 = dump.list1 /\ dump'.moved = dump.moved
      /\ (dump'.on => w # End /\ dump'.i = NextWord(dump.i, w) /\ cmd' = "dump")
  BY <1>3, <1>4, <1>5 DEF DumpInv, Dumps
<1>7. ASSUME dump'.on, ~dump'.moved
      PROVE  clash' = "none" /\ dump'.list1 = displist' /\ Reached(dump.i)'
  <2>1. dump.on /\ ~dump.moved
    BY <1>1, <1>6, <1>7
  <2>2. clash = "none" /\ dump.list1 = displist /\ Reached(dump.i)
    BY <2>1 DEF DumpInv
  <2>3. /\ dump.i \in Slots
        /\ \/ mem[dump.i] = End
           \/ IsPlane(dump.i) /\ mem[dump.i] \in Nat \ {0} /\ Reached(dump.i + mem[dump.i])
    BY <2>2, ReachedIsInList DEF DumpInv
  <2>4. w = mem[dump.i]
    BY <2>3 DEF ReadAs, End, Body
  <2>5. dump'.i = dump.i + mem[dump.i] /\ Reached(dump'.i)
    BY <2>3, <2>4, <1>4, <1>6, <1>7 DEF NextWord
  <2>6. Reached(dump.i)'
    BY <2>5, <1>1 DEF Reached, Closed, IsPlane
  <2> QED
    BY <2>2, <2>6, <1>1, <1>6
<1> QED
  BY <1>2, <1>6, <1>7 DEF DumpInv

(* No other command runs beside it.                                        *)
LEMMA DumpGoesOn ==
  ASSUME TypeInv, [Next]_vars, cmd = "dump"
  PROVE  cmd' = "dump"
<1>1. ~UpdateStep("console") /\ "console" \in Callers
  BY DEF TypeInv, UpdateStep, PlaneOpen, PlaneClose, TerminateList, Overflow, Publish, Callers
<1> QED
  BY <1>1 DEF Next, Console, PvIrq, IrqStep, FrameStart, FrameShown, LimitStore, LimitClamp,
       SetDelay, ScramblePlace, ScrambleSpeed, ScrambleEdge, Typing, Command, UpdateCommand,
       UpdateCommandStep, cmdVars, vars

(* An update meanwhile does not change the list that is shown.             *)
LEMMA BesideKeeps ==
  ASSUME DumpInv, [Next]_vars, dump' \in Dumps, dump'.on = dump.on, dump'.i = dump.i,
         dump'.list1 = dump.list1,
         dump.on /\ ~dump'.moved => ~dump.moved /\ (clash' = "none" \/ UNCHANGED clash)
                                    /\ displist' = displist
  PROVE  DumpInv'
<1>1. ListInv'
  BY NextKeepsRing DEF DumpInv
<1>2. ASSUME dump'.on, ~dump'.moved
      PROVE  clash' = "none" /\ dump'.list1 = displist' /\ Reached(dump.i)'
  <2>1. dump.list1 = displist /\ Reached(dump.i) /\ displist' = displist /\ clash = "none"
        /\ clash' = "none"
    BY <1>2 DEF DumpInv
  <2>2. PICK e \in Slots, H \in SUBSET Slots :
          ListAt(H, displist, e) /\ \A w \in displist..e : mem'[w] = mem[w]
    BY <2>1, NextSparesList DEF DumpInv
  <2>3. H \subseteq displist..e /\ Closed(H) /\ displist \in H
    BY <2>2, ListPlanes DEF Closed, ListAt, LinkedTo, DumpInv, ListInv, TypeInv
  <2>4. ASSUME NEW K \in SUBSET Slots, displist \in K, \A w \in K : IsPlane(w)' => w + mem'[w] \in K
        PROVE  dump.i \in K
    <3>1. Closed(H \cap K) /\ displist \in H \cap K
      BY <2>2, <2>3, <2>4 DEF Closed, IsPlane
    <3> QED
      BY <2>1, <3>1 DEF Reached
  <2>5. Reached(dump.i)'
    BY <2>1, <2>4 DEF Reached, Closed
  <2> QED
    BY <2>1, <2>5
<1>3. dump'.on => cmd' = "dump"
  BY DumpGoesOn DEF DumpInv, ListInv
<1> QED
  BY <1>1, <1>2, <1>3 DEF DumpInv

(* hvs.c 271, 290: it begins with the first word of that list.             *)
LEMMA DumpBeginKeeps ==
  ASSUME DumpInv, DumpBegin
  PROVE  DumpInv'
<1>1. UNCHANGED <<mem, slot, displist, clash, upd, limit>> /\ cmd = "none" /\ cmd' = "dump"
  BY DEF DumpBegin, listVars, spriteVars
<1>2. upd["console"].pc = "idle" /\ displist \in Nat
  BY <1>1 DEF DumpInv, ListInv, TypeInv
<1>3. ListInv'
  BY <1>1, <1>2, ListsStay DEF DumpInv
<1>4. dump' = [on |-> TRUE, list1 |-> displist, i |-> displist, moved |-> clash # "none"]
  BY DEF DumpBegin
<1>5. dump' \in Dumps
  BY <1>2, <1>4 DEF Dumps
<1>6. Reached(dump.i)'
  BY <1>1, <1>4 DEF Reached
<1> QED
  BY <1>1, <1>3, <1>4, <1>5, <1>6 DEF DumpInv

(* hvs.c 266-346: as long as DISPLIST1 still points to the list that       *)
(* hvs_dump began with, and there was room beside it for the lists begun   *)
(* since, every word it takes for the first of a plane, or for the end, is *)
(* one, whatever updates the interrupt makes between the words printed.    *)
THEOREM DumpWalksList ==
  DumpSpec => []DumpFollowsList
<1>1. DumpInit => DumpInv
  <2> SUFFICES ASSUME DumpInit
               PROVE  DumpInv
    OBVIOUS
  <2>1. ListInv
    BY BeginsApart DEF DumpInit
  <2>2. displist \in Nat
    BY <2>1 DEF ListInv, TypeInv
  <2>3. dump = [on |-> FALSE, list1 |-> displist, i |-> displist, moved |-> FALSE]
    BY DEF DumpInit
  <2> QED
    BY <2>1, <2>2, <2>3 DEF DumpInv, Dumps
<1>2. DumpInv /\ [DumpNext]_dumpVars => DumpInv'
  <2> SUFFICES ASSUME DumpInv, [DumpNext]_dumpVars
               PROVE  DumpInv'
    OBVIOUS
  <2>1. CASE Beside
    <3>1. /\ dump' \in Dumps /\ dump'.on = dump.on /\ dump'.i = dump.i /\ dump'.list1 = dump.list1
          /\ dump.on /\ ~dump'.moved => ~dump.moved /\ clash' = "none" /\ displist' = displist
      BY <2>1 DEF Beside, DumpInv, Dumps
    <3> QED
      BY <2>1, <3>1, BesideKeeps DEF Beside
  <2>2. CASE UNCHANGED dumpVars
    <3>1. UNCHANGED vars /\ UNCHANGED <<dump, displist, clash>>
      BY <2>2 DEF dumpVars, vars, listVars
    <3> QED
      BY <3>1, BesideKeeps DEF DumpInv
  <2> QED
    BY <2>1, <2>2, DumpBeginKeeps, DumpStepKeeps DEF DumpNext
<1>3. DumpInv => DumpFollowsList
  <2> SUFFICES ASSUME DumpInv, dump.on, ~dump.moved
               PROVE  dump.i \in Heads[dump.list1]
    BY DEF DumpFollowsList
  <2>1. dump.list1 = displist /\ Reached(dump.i) /\ clash = "none"
    BY DEF DumpInv
  <2>2. displist \in Slots
    BY <2>1 DEF DumpInv, ListInv, RingInv, Apart, ListAt
  <2>3. Heads[displist] \in SUBSET Slots /\ displist \in Heads[displist] /\ Closed(Heads[displist])
    BY <2>2, HeadsGoOn DEF DumpInv, ListInv, TypeInv, Closed
  <2> QED
    BY <2>1, <2>3 DEF Reached
<1> QED
  BY <1>1, <1>2, <1>3, PTL DEF DumpSpec

-----------------------------------------------------------------------------
(* The bring-up. *)

(* vec_init and dance_start have come to their end.                        *)
HandedOver == output = "vec" /\ bring > 18

(* Where display_slot is at each place of the bring-up. *)
Cursor ==
  IF output = "vec"
    THEN CASE bring < 7        -> 0
           [] bring = 7        -> UnityWords
           [] bring \in 8..10 -> UnityWords + 1
           [] bring = 11       -> 2 * UnityWords + 1
           [] bring = 12       -> 2 * UnityWords + 1 + ScaledWords
           [] OTHER            -> 2 * UnityWords + 2 + ScaledWords
    ELSE CASE bring < 8 -> 0 [] bring = 8 -> UnityWords [] OTHER -> UnityWords + 1

(* Until the first command: no interrupt before the list is there that the *)
(* updates go on from; then the updates have their room.  The sprite is    *)
(* placed on a screen whose size is known.                                 *)
ComingUp ==
  /\ output \in {"vec", "dpi"} /\ bring \in 1..(IF output = "vec" THEN 19 ELSE 15)
  /\ cmd = "none" /\ limit = 2
  /\ upd \in [Callers -> Updates] /\ upd["console"].pc = "idle"
  /\ clash # "update"
  /\ ~HandedOver => /\ slot = Cursor /\ upd["irq"].pc = "idle" /\ clash = "none"
                    /\ ~pending /\ intOn = FALSE
  /\ HandedOver => RoomInv("irq")
  /\ output = "vec" /\ bring > 9 => size = Width
  /\ output = "vec" /\ bring > 15 => screen = Width
  /\ sprite \in Sprites /\ Calm(sprite)

UpInv == typed \in Nat /\ (typed = 0 => ComingUp)

(* Is the step the next one of either program? *)
VecAt(step) == bring <= 18 /\ VecProgram[bring] = step
DpiAt(step) == bring <= 14 /\ DpiProgram[bring] = step
UpAt(step)  == IF output = "vec" THEN VecAt(step) ELSE DpiAt(step)

(* Nothing but the next step is made. *)
LEMMA UpIsAt ==
  ASSUME NEW step, ~IsUp, Program[bring] = step, bring \in Nat
  PROVE  UpAt(step) /\ bring <= (IF output = "vec" THEN 18 ELSE 14)
<1>1. Len(VecProgram) = 18 /\ Len(DpiProgram) = 14
  BY DEF VecProgram, DpiProgram
<1>2. CASE output = "vec"
  <2>1. Program = VecProgram
    BY <1>2 DEF Program
  <2>2. VecProgram[bring] = step
    BY <2>1
  <2>3. bring <= 18
    <3>1. Len(Program) = 18
      BY <1>1, <2>1
    <3> QED
      BY <3>1 DEF IsUp
  <2> QED
    BY <1>2, <2>2, <2>3 DEF UpAt, VecAt
<1>3. CASE output # "vec"
  <2>1. Program = DpiProgram
    BY <1>3 DEF Program
  <2>2. DpiProgram[bring] = step
    BY <2>1
  <2>3. bring <= 14
    <3>1. Len(Program) = 14
      BY <1>1, <2>1
    <3> QED
      BY <3>1 DEF IsUp
  <2> QED
    BY <1>3, <2>2, <2>3 DEF UpAt, DpiAt
<1> QED
  BY <1>2, <1>3

(* Where each step is in the programs. *)
LEMMA VecPlaces ==
  ASSUME bring \in 1..19
  PROVE  /\ VecAt("hvsOff") => bring = 1
         /\ VecAt("hvsOn") => bring = 2
         /\ VecAt("channelsOff") => bring = 3
         /\ VecAt("wipe") => bring = 4
         /\ VecAt("pixelValve") => bring = 5
         /\ VecAt("plane") => bring \in {6, 10}
         /\ VecAt("end") => bring \in {7, 12}
         /\ VecAt("publish") => bring \in {8, 13}
         /\ VecAt("channel") => bring = 9
         /\ VecAt("scaled") => bring = 11
         /\ VecAt("background") => bring = 14
         /\ VecAt("screen") => bring = 15
         /\ VecAt("scramble") => bring = 16
         /\ VecAt("quiet") => bring = 17
         /\ VecAt("interrupt") => bring = 18
         /\ ~VecAt("paint") /\ ~VecAt("killClock") /\ ~VecAt("enableClock")
         /\ ~VecAt("clockSet") /\ ~VecAt("pins")
  BY DEF VecAt, VecProgram

LEMMA DpiPlaces ==
  ASSUME bring \in 1..15
  PROVE  /\ DpiAt("hvsOff") => bring = 1
         /\ DpiAt("hvsOn") => bring = 2
         /\ DpiAt("channelsOff") => bring = 3
         /\ DpiAt("wipe") => bring = 4
         /\ DpiAt("plane") => bring = 7
         /\ DpiAt("end") => bring = 8
         /\ DpiAt("publish") => bring = 9
         /\ DpiAt("paint") => bring = 5
         /\ DpiAt("channel") => bring = 6
         /\ DpiAt("killClock") => bring = 10
         /\ DpiAt("enableClock") => bring = 11
         /\ DpiAt("clockSet") => bring = 12
         /\ DpiAt("pixelValve") => bring = 13
         /\ DpiAt("pins") => bring = 14
         /\ ~DpiAt("scaled") /\ ~DpiAt("background") /\ ~DpiAt("screen") /\ ~DpiAt("scramble")
         /\ ~DpiAt("quiet") /\ ~DpiAt("interrupt")
  BY DEF DpiAt, DpiProgram

(* A step that changes neither the cursor nor what the updates need. *)
LEMMA StepKeeps ==
  ASSUME ComingUp, ~HandedOver, bring' = bring + 1, output' = output,
         UNCHANGED <<cmd, limit, upd, clash, pending, intOn>>,
         IF output = "vec" THEN bring < 18 ELSE bring < 15,
         slot' = Cursor', sprite' \in Sprites, Calm(sprite'),
         output = "vec" /\ bring >= 9 => size' = Width,
         output = "vec" /\ bring >= 15 => screen' = Width
  PROVE  ComingUp'
<1>1. ~HandedOver'
  BY DEF HandedOver, ComingUp
<1>2. bring' \in 1..(IF output' = "vec" THEN 19 ELSE 15)
  BY DEF ComingUp
<1> QED
  BY <1>1, <1>2 DEF ComingUp

(* Each step of the bring-up. *)
LEMMA BringUpKeeps ==
  ASSUME ComingUp, BringUp
  PROVE  ComingUp'
<1> DEFINE Same == UNCHANGED <<cmd, limit, upd, clash>> /\ output' = output /\ bring' = bring + 1
<1>1. ~IsUp /\ Same
  BY DEF BringUp, HvsOff, HvsOn, ChannelsOff, WipeDisplaylist, SetupPixelvalve, ConfigureChannel,
     AddPlane, End1, PublishList, SetBackground, ReadScreen, Scramble, QuietPv, EnableInterrupt,
     DpiStart, Paint, SetClock, ClockSet, GivePins, DoVideo, DoDpi, Do, vars, listVars, cmdVars,
     spriteVars
<1>2. /\ output \in {"vec", "dpi"} /\ bring \in 1..(IF output = "vec" THEN 19 ELSE 15)
      /\ output = "vec" => bring < 19
      /\ output = "dpi" => bring < 15
  BY <1>1, UpIsAt DEF ComingUp
<1>3. ~HandedOver /\ slot = Cursor /\ sprite \in Sprites /\ Calm(sprite)
  BY <1>2, Lengths DEF HandedOver, ComingUp
<1>4. \A step : Do(step) => UpAt(step)
  BY <1>2, UpIsAt DEF Do
<1>5. UnityWords \in Nat /\ ScaledWords \in Nat
  BY Numbers
<1>6. CASE HvsOff \/ HvsOn \/ ChannelsOff
  <2>1. bring < 4 /\ slot' = slot /\ sprite' = sprite /\ UNCHANGED <<pending, intOn>>
    BY <1>2, <1>4, <1>6, VecPlaces, DpiPlaces DEF UpAt, HvsOff, HvsOn, ChannelsOff, DoVideo, vars,
       listVars, spriteVars
  <2>2. slot' = Cursor'
    BY <1>1, <1>2, <1>3, <2>1 DEF Cursor
  <2> QED
    BY <1>1, <1>2, <1>3, <2>1, <2>2, StepKeeps
<1>7. CASE WipeDisplaylist
  <2>1. bring = 4 /\ slot' = 0 /\ sprite' = sprite /\ UNCHANGED <<pending, intOn>>
    BY <1>2, <1>4, <1>7, VecPlaces, DpiPlaces DEF UpAt, WipeDisplaylist, DoVideo, spriteVars
  <2>2. slot' = Cursor'
    BY <1>1, <1>2, <1>3, <2>1 DEF Cursor
  <2> QED
    BY <1>1, <1>2, <1>3, <2>1, <2>2, StepKeeps
<1>8. CASE SetupPixelvalve \/ PublishList \/ SetBackground \/ QuietPv \/ DpiStart
  <2>1. /\ slot' = slot /\ sprite' = sprite /\ pending' = pending /\ size' = size
           /\ screen' = screen
        /\ intOn' \in {intOn, FALSE}
    BY <1>8 DEF SetupPixelvalve, PublishList, SetBackground, QuietPv, DpiStart, Paint, SetClock,
       ClockSet, GivePins, DoVideo, DoDpi, Do, vars, listVars, spriteVars
  <2>2. UpAt("pixelValve") \/ UpAt("publish") \/ UpAt("background") \/ UpAt("quiet")
        \/ UpAt("paint") \/ UpAt("killClock") \/ UpAt("enableClock") \/ UpAt("clockSet")
        \/ UpAt("pins")
    BY <1>4, <1>8 DEF SetupPixelvalve, PublishList, SetBackground, QuietPv, DpiStart, Paint,
       SetClock,
       ClockSet, GivePins, DoVideo, DoDpi
  <2>3. IF output = "vec" THEN bring \in {5, 8, 13, 14, 17}
                          ELSE bring \in {5} \cup 9..14
    BY <1>2, <2>2, VecPlaces, DpiPlaces DEF UpAt
  <2>4. slot' = Cursor'
    <3>1. output' = output /\ bring' = bring + 1 /\ slot' = Cursor
      BY <1>1, <1>3, <2>1
    <3>2. CASE output = "vec"
      BY <2>3, <3>1, <3>2 DEF Cursor
    <3>3. CASE output # "vec"
      BY <2>3, <3>1, <3>3 DEF Cursor
    <3> QED
      BY <3>2, <3>3
  <2>5. intOn' = intOn
    BY <1>3, <2>1 DEF ComingUp
  <2>6. /\ output = "vec" /\ bring >= 9 => size' = Width
        /\ output = "vec" /\ bring >= 15 => screen' = Width
    BY <2>1, <2>3 DEF ComingUp
  <2> QED
    BY <1>1, <1>2, <1>3, <2>1, <2>3, <2>4, <2>5, <2>6, StepKeeps
<1>9. CASE ConfigureChannel
  <2>1. /\ IF output = "vec" THEN bring = 9 ELSE bring = 6
        /\ slot' = slot /\ sprite' = sprite /\ UNCHANGED <<pending, intOn>> /\ size' = Width
    BY <1>2, <1>4, <1>9, VecPlaces, DpiPlaces DEF UpAt, ConfigureChannel, DoVideo, listVars,
       spriteVars
  <2>2. slot' = Cursor'
    BY <1>1, <1>2, <1>3, <2>1 DEF Cursor
  <2> QED
    BY <1>1, <1>2, <1>3, <2>1, <2>2, StepKeeps
<1>10. CASE AddPlane("plane", UnityWords) \/ AddPlane("scaled", ScaledWords) \/ End1
  <2>1. sprite' = sprite /\ UNCHANGED <<pending, intOn, size, screen>>
    BY <1>10 DEF AddPlane, End1, DoVideo, Do, spriteVars
  <2>2. \/ slot' = slot + UnityWords /\ IF output = "vec" THEN bring \in {6, 10} ELSE bring = 7
        \/ slot' = slot + ScaledWords /\ output = "vec" /\ bring = 11
        \/ slot' = slot + 1 /\ IF output = "vec" THEN bring \in {7, 12} ELSE bring = 8
    BY <1>2, <1>4, <1>10, VecPlaces, DpiPlaces DEF UpAt, AddPlane, End1, DoVideo
  <2>3. slot' = Cursor'
    BY <1>1, <1>2, <1>3, <1>5, <2>2 DEF Cursor
  <2>4. output = "vec" /\ bring >= 9 => size' = Width
    BY <2>1, <2>2 DEF ComingUp
  <2>5. bring < 15
    BY <1>2, <2>2
  <2> QED
    BY <1>1, <1>2, <1>3, <2>1, <2>3, <2>4, <2>5, StepKeeps
<1>11. CASE ReadScreen
  <2>1. output = "vec" /\ bring = 15 /\ slot' = slot /\ sprite' = sprite
    BY <1>2, <1>4, <1>11, VecPlaces, DpiPlaces DEF UpAt, ReadScreen, DoVideo, vars, listVars,
       spriteVars
  <2>2. UNCHANGED <<pending, intOn, size>> /\ screen' = size /\ size = Width
    BY <1>11, <2>1 DEF ReadScreen, vars, ComingUp
  <2>3. slot' = Cursor'
    BY <1>1, <1>3, <2>1 DEF Cursor
  <2> QED
    BY <1>1, <1>2, <1>3, <2>1, <2>2, <2>3, StepKeeps
<1>12. CASE Scramble
  <2>1. output = "vec" /\ bring = 16
    BY <1>2, <1>4, <1>12, VecPlaces, DpiPlaces DEF UpAt, Scramble, DoVideo
  <2>2. UNCHANGED <<pending, intOn, size, screen, slot>> /\ size = Width /\ screen = Width
    BY <1>12, <2>1 DEF Scramble, listVars, ComingUp
  <2>3. sprite' \in Sprites /\ Calm(sprite')
    <3>1. PICK x \in 0..(screen - 1), xd \in 1..MaxSpeed :
            sprite' = [x |-> IF x > screen - SpriteWidth THEN screen - LogoWidth ELSE x, xd |-> xd]
      BY <1>12 DEF Scramble
    <3>2. sprite'.x \in 0..Edge /\ xd \in (-MaxSpeed)..MaxSpeed
      BY <2>2, <3>1, Lengths DEF Edge
    <3>3. sprite' = [x |-> sprite'.x, xd |-> xd]
      BY <3>1
    <3>4. sprite'.x \in 0..Width
      BY <3>2, Lengths
    <3> QED
      BY <3>2, <3>3, <3>4, Lengths DEF Sprites, Calm
  <2>4. slot' = Cursor'
    BY <1>1, <1>3, <2>1, <2>2 DEF Cursor
  <2> QED
    BY <1>1, <1>2, <1>3, <2>1, <2>2, <2>3, <2>4, StepKeeps
<1>13. CASE EnableInterrupt
  <2>1. output = "vec" /\ bring = 18 /\ slot' = slot
    BY <1>2, <1>4, <1>13, VecPlaces, DpiPlaces DEF UpAt, EnableInterrupt, DoVideo, listVars
  <2>2. sprite' = sprite /\ UNCHANGED <<size, screen>>
    BY <1>13 DEF EnableInterrupt, spriteVars
  <2>3. slot = 2 * UnityWords + 2 + ScaledWords /\ slot <= Size /\ slot \in Nat
    BY <1>3, <2>1, Numbers DEF Cursor
  <2>4. HandedOver'
    BY <1>1, <2>1 DEF HandedOver
  <2>5. /\ limit' = 2 /\ upd' = upd /\ upd \in [Callers -> Updates]
        /\ \A who \in Callers : upd[who].pc = "idle"
    BY <1>1, <1>3 DEF ComingUp, Callers
  <2>6. RoomInv("irq")'
    BY <2>1, <2>3, <2>5 DEF RoomInv, Counters, Alone, Counted, Callers
  <2>7. bring' = 19 /\ size' = Width /\ screen' = Width
    BY <1>1, <2>1, <2>2 DEF ComingUp
  <2> QED
    BY <1>1, <2>1, <2>2, <2>4, <2>6, <2>7 DEF ComingUp
<1> QED
  BY <1>6, <1>7, <1>8, <1>9, <1>10, <1>11, <1>12, <1>13 DEF BringUp

(* The command counts, and the other steps leave the count alone. *)
LEMMA CommandsCount ==
  ASSUME [VideoNext]_allVars, typed \in Nat
  PROVE  /\ typed' \in {typed, typed + 1}
         /\ DpiCommand \/ DpiAgain \/ UpdateCommand => typed' = typed + 1
<1>1. DpiCommand \/ DpiAgain \/ UpdateCommand => typed' = typed + 1
  BY DEF DpiCommand, DpiAgain, UpdateCommand
<1>2. BringUp => typed' = typed
  BY DEF BringUp, HvsOff, HvsOn, ChannelsOff, WipeDisplaylist, SetupPixelvalve, ConfigureChannel,
     AddPlane, End1, PublishList, SetBackground, ReadScreen, Scramble, QuietPv, EnableInterrupt,
     DpiStart, Paint, SetClock, ClockSet, GivePins, DoDpi, vars, cmdVars
<1>3. VideoFrame \/ VideoFrameShown \/ VideoIrq \/ VideoUpdate \/ UpdateCommandStep \/ Stage2Moves
      \/ DpiTimer \/ ClockSettles \/ UNCHANGED allVars => typed' = typed
  BY DEF VideoFrame, FrameStart, VideoFrameShown, VideoIrq, PvIrq, VideoUpdate, IrqStep,
     UpdateCommandStep, Stage2Moves, DpiTimer, Mover, Updater, Fires, ClockSettles, allVars, vars,
     cmdVars
<1> QED
  BY <1>1, <1>2, <1>3 DEF VideoNext, VideoConsole

(* Until the first command only the bring-up and the interrupt's updates,  *)
(* which follow it, change anything of that.                               *)
LEMMA UpKeeps ==
  ASSUME UpInv, [VideoNext]_allVars
  PROVE  UpInv'
<1>1. typed \in Nat /\ typed' \in Nat
      /\ (typed' = 0 => typed = 0 /\ ~DpiCommand /\ ~DpiAgain /\ ~UpdateCommand)
  BY CommandsCount DEF UpInv
<1> SUFFICES ASSUME ComingUp, ~DpiCommand, ~DpiAgain, ~UpdateCommand
               PROVE  ComingUp'
  BY <1>1 DEF UpInv
<1>2. CASE BringUp
  BY <1>2, BringUpKeeps
<1>3. CASE VideoFrame \/ Stage2Moves \/ DpiTimer \/ ClockSettles \/ UNCHANGED allVars
  <2>1. UNCHANGED <<output, bring, cmd, limit, upd, slot, clash, pending, intOn, size, screen,
                    sprite>>
    BY <1>3 DEF VideoFrame, FrameStart, Stage2Moves, SetUpdater, DpiTimer, Mover, Updater, Fires,
       ClockSettles, allVars, vars, upVars, dpiVars, listVars, spriteVars, cmdVars
  <2> QED
    BY <2>1, CountStays DEF ComingUp, HandedOver, Cursor, Callers
<1>4. CASE VideoFrameShown
  <2>1. UNCHANGED <<output, bring, cmd, limit, upd, slot, clash, intOn, size, screen, sprite>>
    BY <1>4 DEF VideoFrameShown, dpiVars, listVars, spriteVars, cmdVars
  <2>2. pending' = intOn
    BY <1>4 DEF VideoFrameShown
  <2> QED
    BY <2>1, <2>2, CountStays DEF ComingUp, HandedOver, Cursor, Callers
<1>5. CASE VideoIrq \/ VideoUpdate
  <2>1. UNCHANGED <<output, bring, cmd, intOn, size, screen>>
    BY <1>5 DEF VideoIrq, PvIrq, VideoUpdate, IrqStep, upVars, dpiVars, cmdVars
  <2>2. HandedOver
    BY <1>5 DEF VideoIrq, PvIrq, VideoUpdate, IrqStep, UpdateStep, PlaneOpen, PlaneClose,
       TerminateList, Overflow, Publish, ComingUp
  <2>3. RoomInv("irq") /\ Counters /\ "irq" \in Callers
    BY <2>2 DEF ComingUp, RoomInv, Callers
  <2>4. CASE PvIrq
    <3>1. UpdateBegin("irq", frame)
      BY <2>4 DEF PvIrq
    <3>2. RoomInv("irq")' /\ UNCHANGED <<limit, sprite>> /\ upd'["console"] = upd["console"]
      BY <2>3, <3>1, BeginKeeps, BeginTypes DEF Callers
    <3>3. clash' # "update"
      BY <3>1 DEF UpdateBegin, NextClash, ComingUp, Callers
    <3> QED
      BY <2>1, <2>2, <3>2, <3>3 DEF ComingUp, HandedOver, RoomInv, Counters
  <2>5. CASE IrqStep
    <3>1. UpdateStep("irq")
      BY <2>5 DEF IrqStep
    <3>2. /\ RoomInv("irq")' /\ limit' = limit /\ sprite' \in {sprite, Moved(sprite)}
          /\ upd'["console"] = upd["console"] /\ clash' \in {clash, "none"}
      BY <2>3, <3>1, StepKeepsRoom, UpdateTypes DEF Callers
    <3>3. sprite' \in Sprites /\ Calm(sprite')
      BY <3>2, MovedKeeps DEF ComingUp
    <3> QED
      BY <2>1, <2>2, <3>2, <3>3 DEF ComingUp, HandedOver, RoomInv, Counters
  <2> QED
    BY <1>5, <2>4, <2>5 DEF VideoIrq, VideoUpdate
<1>6. CASE VideoConsole
  <2>1. UpdateCommandStep
    BY <1>6 DEF VideoConsole
  <2>2. upd["console"].pc # "idle"
    BY <2>1 DEF UpdateCommandStep, UpdateStep, PlaneOpen, PlaneClose, TerminateList, Overflow,
       Publish
  <2> QED
    BY <2>2 DEF ComingUp
<1> QED
  BY <1>2, <1>3, <1>4, <1>5, <1>6 DEF VideoNext

(* The bring-up begins like that. *)
LEMMA UpBegins ==
  ASSUME VideoInit
  PROVE  UpInv
<1>1. typed = 0 /\ bring = 1 /\ output \in {"vec", "dpi"} /\ slot = 0 /\ cmd = "none" /\ limit = 2
      /\ ~pending /\ intOn = FALSE /\ clash = "none" /\ upd = [who \in Callers |-> Idle]
      /\ sprite = [x |-> 0, xd |-> 0]
  BY DEF VideoInit
<1>2. sprite \in Sprites /\ Calm(sprite)
  BY <1>1, Lengths DEF Sprites, Calm
<1>3. upd \in [Callers -> Updates] /\ upd["console"].pc = "idle" /\ upd["irq"].pc = "idle"
  BY <1>1 DEF Idle, Callers, Updates
<1> QED
  BY <1>1, <1>2, <1>3 DEF UpInv, ComingUp, HandedOver, Cursor

(* Whatever an earlier image left on the scaler: until the first command   *)
(* the cursor is in the list memory at every step of the bring-up and of   *)
(* the updates that follow it, a sprite is on the screen, and none is      *)
(* placed, by rand() % screen_width, before that width is known; and no    *)
(* update begins within another (vec.c vec_init, dance.c dance_start).     *)
THEOREM PictureComesUp ==
  VideoSpec => [](typed = 0 =>
                    clash # "update" /\ InMemory /\ InBox /\ (UpAt("scramble") => screen # 0))
<1>1. VideoInit => UpInv
  BY UpBegins
<1>2. UpInv /\ [VideoNext]_allVars => UpInv'
  BY UpKeeps
<1>3. UpInv => (typed = 0 =>
                  clash # "update" /\ InMemory /\ InBox /\ (UpAt("scramble") => screen # 0))
  <2> SUFFICES ASSUME ComingUp
               PROVE  InMemory /\ InBox /\ (UpAt("scramble") => screen # 0)
    BY DEF UpInv, ComingUp
  <2>1. InMemory
    <3>1. CASE HandedOver
      <4>1. "irq" \in Callers /\ RoomInv("irq")
        BY <3>1 DEF ComingUp, Callers
      <4>2. limit = 2 /\ slot \in Nat /\ (slot <= Size \/ slot <= Need(2))
        BY <4>1, RoomIsInside DEF ComingUp, RoomInv, Counters
      <4> QED
        BY <4>2, Numbers DEF InMemory, Need
    <3>2. CASE ~HandedOver
      <4>1. slot = Cursor
        BY <3>2 DEF ComingUp
      <4>2. Cursor <= 2 * UnityWords + ScaledWords + 2
        BY Numbers DEF Cursor
      <4>3. Cursor \in Nat
        BY Numbers DEF Cursor
      <4> QED
        BY <4>1, <4>2, <4>3, Numbers DEF InMemory
    <3> QED
      BY <3>1, <3>2
  <2>2. InBox
    BY Lengths DEF ComingUp, InBox, Sprites, Calm, Edge
  <2>3. UpAt("scramble") => screen # 0
    BY VecPlaces, DpiPlaces, Lengths DEF UpAt, ComingUp
  <2> QED
    BY <2>1, <2>2, <2>3
<1> QED
  BY <1>1, <1>2, <1>3, PTL DEF VideoSpec

-----------------------------------------------------------------------------
(* Each command of the DPI leaves the pixel where the one before has it,   *)
(* and so the timer, whatever it calls, blackens the pixel it left white:  *)
(* on a screen of any size, and however often dpi_start comes in between.  *)
THEOREM NeverATrail ==
  VideoSpec => []NoTrail
<1>1. VideoInit => NoTrail
  BY DEF VideoInit, NoTrail
<1>2. NoTrail /\ [VideoNext]_allVars => NoTrail'
  <2> SUFFICES ASSUME NoTrail, [VideoNext]_allVars
               PROVE  NoTrail'
    OBVIOUS
  <2>1. CASE Paint
    BY <2>1 DEF Paint, NoTrail
  <2>2. CASE Mover
    BY <2>2 DEF Mover, NoTrail
  <2>3. CASE Updater
    BY <2>3 DEF Updater, NoTrail
  <2>4. CASE SetClock("killClock", FALSE) \/ SetClock("enableClock", TRUE) \/ ClockSet \/ GivePins
    BY <2>4 DEF SetClock, ClockSet, GivePins, NoTrail
  <2>5. CASE Stage2Moves \/ DpiCommand \/ DpiAgain \/ ClockSettles
    BY <2>5 DEF Stage2Moves, DpiCommand, DpiAgain, ClockSettles, SetUpdater, dpiVars, NoTrail
  <2>6. CASE BringUp /\ ~DpiStart
    BY <2>6 DEF BringUp, HvsOff, HvsOn, ChannelsOff, WipeDisplaylist, SetupPixelvalve,
       ConfigureChannel, AddPlane, End1, PublishList, SetBackground, ReadScreen, Scramble,
       QuietPv, EnableInterrupt, DoVideo, dpiVars, NoTrail
  <2>7. CASE VideoFrame \/ VideoFrameShown \/ VideoIrq \/ VideoUpdate \/ VideoConsole
    BY <2>7 DEF VideoFrame, VideoFrameShown, VideoIrq, VideoUpdate, VideoConsole, dpiVars, NoTrail
  <2>8. CASE UNCHANGED allVars
    BY <2>8 DEF allVars, dpiVars, NoTrail
  <2> QED
    BY <2>1, <2>2, <2>3, <2>4, <2>5, <2>6, <2>7, <2>8 DEF VideoNext, BringUp, DpiStart, DpiTimer
<1> QED
  BY <1>1, <1>2, PTL DEF VideoSpec

-----------------------------------------------------------------------------
(* The lists of the bring-up. *)

(* vec.c 114-130: the two lists of the bring-up. The first is at 0; this   *)
(* is where the second is, and its scaled plane, and its end word.         *)
Second == UnityWords + 1
Scaled == Second + UnityWords
Last   == Scaled + ScaledWords

(* What the bring-up has written at each place of it, and that what is     *)
(* shown meanwhile is the list that is there.                              *)
ListsComeUp ==
  /\ mem \in [Slots -> Int] /\ displist \in Slots
  /\ output = "vec" /\ ~HandedOver =>
       /\ bring \in 4..9 => size = 0 /\ ~scanning
       /\ bring >= 7 => mem[0] = UnityWords
       /\ bring >= 8 => mem[UnityWords] = End
       /\ bring >= 11 => mem[Second] = UnityWords
       /\ bring >= 12 => mem[Scaled] = ScaledWords
       /\ bring >= 13 => mem[Last] = End
       /\ bring \in 9..13 => displist = 0
       /\ bring \in 14..18 => displist = Second
       /\ bring \in 10..13 /\ scanning => active \subseteq 0..UnityWords
       /\ bring = 18 /\ latched /\ scanning => active \subseteq Second..Last
  /\ output = "dpi" =>
       /\ bring <= 13 => ~pvOn /\ ~scanning
       /\ bring >= 8 => mem[0] = UnityWords
       /\ bring >= 9 => mem[UnityWords] = End
       /\ bring >= 10 => displist = 0

(* The list of two planes that the bring-up leaves, and those of two       *)
(* sprites that the updates write after it, have no more than `longest'    *)
(* words and an end word, which fit twice before the place from which the  *)
(* cursor goes back to 0, and three times into the memory.  In the code    *)
(* these are 28 words, of 4096.                                            *)
ThreeFit(longest) ==
  /\ longest \in Nat /\ 2 * ScaledWords <= longest /\ UnityWords + ScaledWords <= longest
  /\ 2 * longest < High /\ 3 * longest + 1 < Size

(* After the bring-up the lists are those, and are kept apart; and if the  *)
(* HVS is scanning a list while an update is made, or is due, it is the    *)
(* one that is shown.                                                      *)
UpRing(longest) ==
  /\ RingInv("irq") /\ clash = "none"
  /\ pending => upd["irq"].pc = "idle"
  /\ \E e \in Slots, H \in SUBSET Slots :
       /\ ListAt(H, displist, e) /\ e - displist <= longest
       /\ scanning /\ (pending \/ upd["irq"].pc # "idle") => active \subseteq displist..e

(* The inductive invariant of the bring-up and of the updates after it,    *)
(* which the first command ends.                                           *)
VideoInv(longest) ==
  UpInv /\ (typed = 0 => ListsComeUp /\ (HandedOver => UpRing(longest)))

(* The two lists fit into the memory.                                      *)
LEMMA ListWordsFit ==
  /\ UnityWords \in Nat /\ ScaledWords \in Nat /\ UnityWords >= 1 /\ ScaledWords >= 1
  /\ Second \in Nat /\ Scaled \in Nat /\ Last \in Nat
  /\ Second = UnityWords + 1 /\ Scaled = Second + UnityWords /\ Last = Scaled + ScaledWords
  /\ Last + 1 <= High /\ High <= Size /\ Size \in Nat /\ High \in Nat
  /\ {0, UnityWords, Second, Scaled, Last} \subseteq Slots
BY DisplayAssumption DEF DisplayAssumption, Slots, Second, Scaled, Last

(* The first list of vec_init, and the only one of dpi.c, ...              *)
LEMMA FirstList ==
  ASSUME mem \in [Slots -> Int], mem[0] = UnityWords, mem[UnityWords] = End
  PROVE  ListAt({0, UnityWords}, 0, UnityWords)
BY ListWordsFit DEF ListAt, LinkedTo

(* ... and the second one are lists.                                       *)
LEMMA SecondList ==
  ASSUME mem \in [Slots -> Int], mem[Second] = UnityWords, mem[Scaled] = ScaledWords,
         mem[Last] = End
  PROVE  ListAt({Second, Scaled, Last}, Second, Last)
BY ListWordsFit DEF ListAt, LinkedTo

(* dance.c 256-275: what the interrupt is handed over is a ring of lists.  *)
LEMMA HandsOver ==
  ASSUME NEW longest, ThreeFit(longest), RoomInv("irq")', mem \in [Slots -> Int],
         displist = Second, slot = Last + 1, clash = "none",
         mem[Second] = UnityWords, mem[Scaled] = ScaledWords, mem[Last] = End,
         upd["irq"].pc = "idle",
         UNCHANGED <<mem, slot, displist, clash, upd, scanning, active>>,
         scanning /\ pending' => active \subseteq Second..Last
  PROVE  UpRing(longest)'
<1>1. ListAt({Second, Scaled, Last}, displist, Last) /\ {Second, Scaled, Last} \in SUBSET Slots
  BY SecondList, ListWordsFit
<1>2. ListAt({Second, Scaled, Last}, displist, Last)'
  BY <1>1 DEF ListAt, LinkedTo
<1>3. Last - displist <= longest /\ slot = Wrapped(Last + 1) /\ Last \in Slots
  BY ListWordsFit DEF ThreeFit, Wrapped
<1>4. Apart("irq")'
  BY <1>1, <1>2, <1>3 DEF Apart, Wrapped
<1>5. RingInv("irq")'
  BY <1>4 DEF RingInv, Written
<1> QED
  BY <1>1, <1>2, <1>3, <1>5 DEF UpRing

(* What is known of the ring is what the lemmas on the updates need.       *)
LEMMA UpRingTypes ==
  ASSUME NEW longest, UpRing(longest), ComingUp
  PROVE  TypeInv /\ RoomInv("irq") /\ "irq" \in Callers
BY Memory DEF UpRing, RingInv, RoomInv, Apart, ListAt, TypeInv, ComingUp, Callers

(* dance.c 55-58, 123-126: an update that begins has room.                 *)
LEMMA UpHasRoom ==
  ASSUME NEW longest, ThreeFit(longest), UpRing(longest), limit = 2
  PROVE  HasRoom
<1> DEFINE n == limit * ScaledWords
<1>1. PICK e \in Slots, H \in SUBSET Slots : ListAt(H, displist, e) /\ e - displist <= longest
  BY DEF UpRing
<1>2. ListWords[displist] = displist..e
  BY <1>1, ListIsWithin DEF UpRing, RingInv
<1>3. displist \in Slots /\ displist \in Nat /\ e \in Nat
  BY <1>1, Memory DEF ListAt
<1>4. n \in Nat /\ n <= longest /\ longest \in Nat /\ 2 * longest < High /\ 3 * longest + 1 < Size
      /\ High \in Nat /\ Size \in Nat
  BY Numbers DEF ThreeFit
<1> HIDE DEF n
<1>5. CASE displist > n
  <2>1. 0 \in 0..High /\ 0 + n < Size /\ (0..(0 + n)) \cap (displist..e) = {}
    BY <1>3, <1>4, <1>5
  <2> QED
    BY <1>2, <2>1 DEF HasRoom, n
<1>6. CASE ~(displist > n)
  <2>1. e + 1 \in 0..High /\ e + 1 + n < Size /\ ((e + 1)..(e + 1 + n)) \cap (displist..e) = {}
    BY <1>1, <1>3, <1>4, <1>6
  <2> QED
    BY <1>2, <2>1 DEF HasRoom, n
<1> QED
  BY <1>5, <1>6

(* dance.c 51-71: an update begins.                                        *)
LEMMA UpBeginKeepsRing ==
  ASSUME NEW longest, ThreeFit(longest), UpRing(longest), ComingUp, HandedOver, PvIrq
  PROVE  UpRing(longest)' /\ mem' = mem
<1>1. TypeInv /\ RoomInv("irq") /\ "irq" \in Callers /\ limit = 2 /\ clash = "none"
  BY UpRingTypes DEF ComingUp, UpRing
<1>2. UpdateBegin("irq", frame) /\ pending /\ ~pending' /\ UNCHANGED <<scanning, active>>
  BY DEF PvIrq, hvsVars
<1>3. clash' = "none"
  <2>1. \A who \in Callers : upd[who].pc = "idle"
    BY <1>2 DEF UpdateBegin, ComingUp, Callers
  <2>2. HasRoom
    BY <1>1, UpHasRoom
  <2> QED
    BY <1>1, <1>2, <2>1, <2>2 DEF UpdateBegin, NextClash
<1>4. RingInv("irq")' /\ UNCHANGED <<mem, displist>>
  BY <1>1, <1>2, <1>3, BeginKeepsRing DEF UpRing, UpdateBegin
<1>5. PICK e \in Slots, H \in SUBSET Slots :
        /\ ListAt(H, displist, e) /\ e - displist <= longest
        /\ scanning => active \subseteq displist..e
  BY <1>2 DEF UpRing
<1>6. ListAt(H, displist, e)'
  BY <1>4, <1>5 DEF ListAt, LinkedTo
<1> QED
  BY <1>2, <1>3, <1>4, <1>5, <1>6 DEF UpRing

(* dance.c 72-127: it goes on, and another list of two sprites is shown at *)
(* its end.                                                                *)
LEMMA UpStepKeepsRing ==
  ASSUME NEW longest, ThreeFit(longest), UpRing(longest), ComingUp, IrqStep
  PROVE  UpRing(longest)' /\ (scanning => \A w \in active : mem'[w] = mem[w])
<1>1. RingInv("irq") /\ clash = "none" /\ limit = 2 /\ "irq" \in Callers /\ mem \in [Slots -> Int]
  BY DEF ComingUp, UpRing, RingInv, Callers
<1>2. UpdateStep("irq") /\ UNCHANGED <<scanning, active, pending>>
  BY DEF IrqStep, hvsVars
<1>3. RingInv("irq")'
  BY <1>1, <1>2, UpdateKeepsRing
<1>4. upd["irq"].pc # "idle" /\ ~pending /\ clash' = "none"
  BY <1>1, <1>2, UpdateTypes DEF UpRing, RingInv, RoomInv
<1>5. PICK e \in Slots, H \in SUBSET Slots :
        /\ ListAt(H, displist, e) /\ e - displist <= longest
        /\ scanning => active \subseteq displist..e
  BY <1>4 DEF UpRing
<1>6. \A w \in displist..e : mem'[w] = mem[w]
  <2>1. PICK c \in Slots, K \in SUBSET Slots :
          ListAt(K, displist, c) /\ \A w \in displist..c : mem'[w] = mem[w]
    BY <1>1, <1>2, UpdateSparesList
  <2>2. displist..e = displist..c
    BY <1>1, <1>5, <2>1, ListIsWithin
  <2> QED
    BY <2>1, <2>2
<1>7. scanning => \A w \in active : mem'[w] = mem[w]
  BY <1>5, <1>6
<1>8. CASE Publish("irq")
  <2>1. PICK c \in Slots, K \in SUBSET Slots :
          ListAt(K, displist, c)' /\ c = displist' + limit * ScaledWords
    BY <1>1, <1>8, PublishKeepsRing
  <2>2. displist' \in Nat /\ limit * ScaledWords <= longest
    BY <1>1, <2>1, Numbers, Memory DEF ListAt, ThreeFit
  <2>3. c - displist' <= longest
    <3>1. PICK n \in Nat : n = limit * ScaledWords
      BY <1>1, Numbers
    <3> QED
      BY <2>1, <2>2, <3>1 DEF ThreeFit
  <2> QED
    BY <1>2, <1>3, <1>4, <1>7, <1>8, <2>1, <2>3 DEF UpRing, RingInv, RoomInv, Counters, Publish, Idle
<1>9. CASE ~Publish("irq")
  <2>1. displist' = displist
    BY <1>2, <1>9 DEF UpdateStep, PlaneOpen, PlaneClose, TerminateList, Overflow
  <2>2. displist \in Int /\ e \in Int /\ displist <= e
    BY <1>5, Memory DEF ListAt, LinkedTo
  <2>3. ListAt(H, displist, e)'
    BY <1>5, <1>6, <2>1, <2>2, ListStays DEF ListAt
  <2> QED
    BY <1>2, <1>3, <1>4, <1>5, <1>7, <2>1, <2>3 DEF UpRing
<1> QED
  BY <1>8, <1>9

(* A frame that begins shows the list, ...                                 *)
LEMMA FrameKeepsRing ==
  ASSUME NEW longest, UpRing(longest), ComingUp, FrameStart
  PROVE  UpRing(longest)' /\ mem' = mem
<1>1. /\ UNCHANGED <<mem, slot, displist, clash, upd, limit, pending>>
      /\ active' = ListWords[displist]
  BY DEF FrameStart, listVars, spriteVars
<1>2. "irq" \in Callers /\ limit \in Nat
  BY DEF ComingUp, Callers
<1>3. RingInv("irq")'
  BY <1>1, <1>2, RingStays DEF UpRing
<1>4. PICK e \in Slots, H \in SUBSET Slots : ListAt(H, displist, e) /\ e - displist <= longest
  BY DEF UpRing
<1>5. active' = displist..e
  BY <1>1, <1>4, ListIsWithin DEF UpRing, RingInv
<1>6. ListAt(H, displist, e)'
  BY <1>1, <1>4 DEF ListAt, LinkedTo
<1> QED
  BY <1>1, <1>3, <1>4, <1>5, <1>6 DEF UpRing

(* ... and a step that changes no list keeps all of this.                  *)
LEMMA ShownKeepsRing ==
  ASSUME NEW longest, UpRing(longest), ComingUp, UNCHANGED <<listVars, upd, limit>>,
         (scanning' = FALSE /\ upd["irq"].pc = "idle") \/ UNCHANGED <<scanning, active, pending>>
  PROVE  UpRing(longest)' /\ mem' = mem
<1>1. UNCHANGED <<mem, slot, displist, clash, upd, limit>>
  BY DEF listVars
<1>2. "irq" \in Callers /\ limit \in Nat
  BY DEF ComingUp, Callers
<1>3. RingInv("irq")'
  BY <1>1, <1>2, RingStays DEF UpRing
<1>4. PICK e \in Slots, H \in SUBSET Slots :
        /\ ListAt(H, displist, e) /\ e - displist <= longest
        /\ scanning /\ (pending \/ upd["irq"].pc # "idle") => active \subseteq displist..e
  BY DEF UpRing
<1>5. ListAt(H, displist, e)'
  BY <1>1, <1>4 DEF ListAt, LinkedTo
<1> QED
  BY <1>1, <1>3, <1>4, <1>5 DEF UpRing

(* A step that writes no word of the memory: of vec_init and dance_start,  *)
(* ...                                                                     *)
LEMMA VecQuietKeeps ==
  ASSUME ListsComeUp, ComingUp, output = "vec", output' = output, bring' = bring + 1,
         bring \in {1, 2, 3, 5, 8, 9} \cup 13..17, mem' = mem,
         bring \notin {8, 13} => displist' = displist,
         bring = 8 => displist' = 0,
         bring = 13 => displist' = Second,
         bring \in {3, 9} => ~scanning',
         scanning' => scanning /\ active' = active,
         bring \in {3, 5, 8} => size' = 0,
         bring = 17 => latched' = FALSE
  PROVE  ListsComeUp'
<1>1. ~HandedOver /\ ~HandedOver'
  BY DEF HandedOver
<1>2. displist' \in Slots
  BY ListWordsFit DEF ListsComeUp
<1> QED
  BY <1>1, <1>2 DEF ListsComeUp

(* ... and of cmd_dpi_start.                                               *)
LEMMA DpiQuietKeeps ==
  ASSUME ListsComeUp, ComingUp, output = "dpi", output' = output, bring' = bring + 1,
         bring \in {1, 2, 3, 5, 6} \cup 9..14, mem' = mem,
         bring # 9 => displist' = displist,
         bring = 9 => displist' = 0,
         scanning' => scanning,
         bring < 13 => ~pvOn'
  PROVE  ListsComeUp'
<1>1. displist' \in Slots
  BY ListWordsFit DEF ListsComeUp
<1> QED
  BY <1>1 DEF ListsComeUp

-----------------------------------------------------------------------------
(* A step of the bring-up that writes at the cursor, and changes nothing   *)
(* before it, where the list is that may be shown.                         *)
LEMMA WriteStepKeeps ==
  ASSUME ListsComeUp, ComingUp, ~HandedOver, bring' = bring + 1, output' = output,
         UNCHANGED <<displist, scanning, active, size, pvOn, latched>>,
         mem' \in [Slots -> Int],
         \A w \in Slots : w < slot => mem'[w] = mem[w],
         output = "vec" => bring \in {4, 6, 7, 10, 11, 12},
         output = "dpi" => bring \in {4, 7, 8},
         output = "vec" /\ bring \in {6, 10} => mem'[slot] = UnityWords,
         output = "vec" /\ bring = 11 => mem'[slot] = ScaledWords,
         output = "vec" /\ bring \in {7, 12} => mem'[slot] = End,
         output = "dpi" /\ bring = 7 => mem'[slot] = UnityWords,
         output = "dpi" /\ bring = 8 => mem'[slot] = End
  PROVE  ListsComeUp' /\ (scanning => \A w \in active : mem'[w] = mem[w])
<1>1. bring \in Nat /\ output \in {"vec", "dpi"} /\ slot = Cursor
  BY DEF ComingUp
<1>2. ~HandedOver'
  BY DEF HandedOver, ComingUp
<1>3. CASE output = "vec"
  <2>1. /\ bring \in {4, 6} => slot = 0
        /\ bring = 7 => slot = UnityWords
        /\ bring = 10 => slot = Second
        /\ bring = 11 => slot = Scaled
        /\ bring = 12 => slot = Last
    BY <1>1, <1>3, ListWordsFit DEF Cursor
  <2>2. scanning => bring \in {10, 11, 12} /\ active \subseteq 0..UnityWords
    BY <1>1, <1>3 DEF ListsComeUp
  <2>3. bring \in {10, 11, 12} => \A w \in 0..UnityWords : w \in Slots /\ w < slot
    BY <2>1, ListWordsFit, Memory DEF Slots
  <2>4. scanning => \A w \in active : mem'[w] = mem[w]
    BY <2>2, <2>3
  <2>5. /\ bring >= 7 => mem[0] = UnityWords
        /\ bring >= 8 => mem[UnityWords] = End
        /\ bring >= 11 => mem[Second] = UnityWords
        /\ bring >= 12 => mem[Scaled] = ScaledWords
    BY <1>3 DEF ListsComeUp
  <2>6. /\ bring >= 6 => mem'[0] = UnityWords
        /\ bring >= 7 => mem'[UnityWords] = End
        /\ bring >= 10 => mem'[Second] = UnityWords
        /\ bring >= 11 => mem'[Scaled] = ScaledWords
        /\ bring >= 12 => mem'[Last] = End
    BY <1>1, <1>3, <2>1, <2>5, ListWordsFit
  <2>7. ListsComeUp'
    BY <1>1, <1>2, <1>3, <2>6 DEF ListsComeUp
  <2> QED
    BY <2>4, <2>7
<1>4. CASE output = "dpi"
  <2>1. /\ bring \in {4, 7} => slot = 0
        /\ bring = 8 => slot = UnityWords
    BY <1>1, <1>4, ListWordsFit DEF Cursor
  <2>2. ~scanning
    BY <1>1, <1>4 DEF ListsComeUp
  <2>3. /\ bring >= 7 => mem'[0] = UnityWords
        /\ bring >= 8 => mem'[UnityWords] = End
    BY <1>1, <1>4, <2>1, ListWordsFit DEF ListsComeUp
  <2>4. ListsComeUp'
    BY <1>1, <1>2, <1>4, <2>3 DEF ListsComeUp
  <2> QED
    BY <2>2, <2>4
<1> QED
  BY <1>1, <1>3, <1>4

(* What is written at a place, with n words from there on.                 *)
LEMMA WritesAt ==
  ASSUME NEW s \in Nat, NEW n \in Nat, NEW v \in Int, mem \in [Slots -> Int]
  PROVE  /\ Filled(mem, s, n, v) \in [Slots -> Int]
         /\ \A w \in Slots : w < s => Filled(mem, s, n, v)[w] = mem[w]
         /\ n >= 1 /\ s \in Slots => Filled(mem, s, n, v)[s] = v
BY Memory DEF Filled, Slots

(* hvs.c 164-227, vec.c 31-131, dance.c 256-275, dpi.c 33-197, pv.c 41-93: *)
(* each step of the bring-up.                                              *)
LEMMA BringUpKeepsLists ==
  ASSUME NEW longest, ThreeFit(longest), ListsComeUp, ComingUp, ComingUp', BringUp
  PROVE  /\ ListsComeUp' /\ (HandedOver' => UpRing(longest)')
         /\ scanning => \A w \in active : mem'[w] = mem[w]
<1>1. ~IsUp /\ output' = output /\ bring' = bring + 1
  BY DEF BringUp, HvsOff, HvsOn, ChannelsOff, WipeDisplaylist, SetupPixelvalve, ConfigureChannel,
     AddPlane, End1, PublishList, SetBackground, ReadScreen, Scramble, QuietPv, EnableInterrupt,
     DpiStart, Paint, SetClock, ClockSet, GivePins, DoVideo, DoDpi, Do
<1>2. /\ output \in {"vec", "dpi"} /\ bring \in 1..(IF output = "vec" THEN 18 ELSE 14)
      /\ bring \in Nat
  BY <1>1, UpIsAt DEF ComingUp
<1>3. ~HandedOver /\ slot = Cursor
  BY <1>2 DEF HandedOver, ComingUp
<1>4. \A step : Do(step) => UpAt(step)
  BY <1>2, UpIsAt DEF Do
<1>5. /\ \A step : output = "vec" => (UpAt(step) <=> VecAt(step))
      /\ \A step : output = "dpi" => (UpAt(step) <=> DpiAt(step))
  BY DEF UpAt
<1>6. output = "vec" => bring \in 1..19
  BY <1>2
<1>7. output = "dpi" => bring \in 1..15
  BY <1>2
<1>8. slot \in Nat
  BY <1>3, ListWordsFit DEF Cursor
<1>9. ~HandedOver' \/ EnableInterrupt
  <2>1. CASE HandedOver'
    <3>1. output = "vec" /\ bring = 18
      BY <1>1, <1>2, <2>1 DEF HandedOver
    <3>2. UpAt("hvsOff") \/ UpAt("hvsOn") \/ UpAt("channelsOff") \/ UpAt("wipe")
          \/ UpAt("pixelValve")
          \/ UpAt("channel") \/ UpAt("plane") \/ UpAt("scaled") \/ UpAt("end") \/ UpAt("publish")
          \/ UpAt("background") \/ UpAt("screen") \/ UpAt("scramble") \/ UpAt("quiet")
          \/ UpAt("paint") \/ UpAt("killClock") \/ UpAt("enableClock") \/ UpAt("clockSet")
          \/ UpAt("pins") \/ EnableInterrupt
      BY <1>4 DEF BringUp, HvsOff, HvsOn, ChannelsOff, WipeDisplaylist, SetupPixelvalve,
         ConfigureChannel,
        AddPlane, End1, PublishList, SetBackground, ReadScreen, Scramble, QuietPv,
        DpiStart, Paint, SetClock, ClockSet, GivePins, DoVideo, DoDpi
    <3> QED
      BY <3>1, <3>2, <1>5, <1>6, VecPlaces
  <2> QED
    BY <2>1
<1>10. CASE HvsOff \/ HvsOn \/ ChannelsOff
  <2>1. UpAt("hvsOff") \/ UpAt("hvsOn") \/ UpAt("channelsOff")
    BY <1>4, <1>10 DEF HvsOff, HvsOn, ChannelsOff, DoVideo
  <2>2. bring \in {1, 2, 3} /\ (bring = 3 => ChannelsOff)
    BY <1>2, <1>4, <1>5, <1>6, <1>7, <1>10, <2>1, VecPlaces, DpiPlaces
      DEF HvsOff, HvsOn, ChannelsOff, DoVideo
  <2>3. /\ UNCHANGED <<mem, displist, pvOn, latched>>
        /\ scanning' => scanning /\ active' = active
        /\ ChannelsOff => size' = 0 /\ ~scanning'
    BY <1>10 DEF HvsOff, HvsOn, ChannelsOff, vars, listVars, hvsVars
  <2>4. /\ bring \in {1, 2, 3} /\ bring \notin {13, 8} /\ bring # 17
        /\ bring \in {3, 9} => ~scanning'
        /\ bring \in {3, 5, 8} => size' = 0
    BY <2>2, <2>3
  <2>5. output = "vec" => ListsComeUp'
    BY <1>1, <2>3, <2>4, VecQuietKeeps
  <2>6. output = "dpi" => ~pvOn'
    BY <2>2, <2>3 DEF ListsComeUp
  <2>7. output = "dpi" => ListsComeUp'
    BY <1>1, <2>2, <2>3, <2>6, DpiQuietKeeps
  <2>8. ~HandedOver'
    BY <1>1, <2>2 DEF HandedOver
  <2> QED
    BY <1>2, <2>3, <2>5, <2>7, <2>8
<1>11. CASE WipeDisplaylist
  <2>1. bring = 4
    BY <1>2, <1>4, <1>5, <1>6, <1>7, <1>11, VecPlaces, DpiPlaces DEF WipeDisplaylist, DoVideo
  <2>2. slot = 0 /\ mem \in [Slots -> Int]
    BY <1>3, <2>1 DEF Cursor, ListsComeUp
  <2>3. mem' = Filled(mem, slot, Wiped, End) /\ Wiped \in Nat /\ End \in Int
    BY <1>11, <2>2, VideoAssumption, Memory DEF WipeDisplaylist, VideoAssumption, End
  <2>4. mem' \in [Slots -> Int] /\ \A w \in Slots : w < slot => mem'[w] = mem[w]
    BY <1>8, <2>2, <2>3, WritesAt
  <2>5. UNCHANGED <<displist, scanning, active, size, pvOn, latched>>
    BY <1>11 DEF WipeDisplaylist, hvsVars
  <2> QED
    BY <1>1, <1>2, <1>3, <1>9, <2>1, <2>4, <2>5, WriteStepKeeps, <1>11
      DEF HandedOver
<1>12. CASE AddPlane("plane", UnityWords) \/ AddPlane("scaled", ScaledWords)
  <2>1. PICK words \in {UnityWords, ScaledWords} :
          /\ mem' = Filled(Filled(mem, slot, words, Body), slot, 1, words)
          /\ (words = UnityWords /\ UpAt("plane")) \/ (words = ScaledWords /\ UpAt("scaled"))
          /\ UNCHANGED <<displist, scanning, active, size, pvOn, latched>>
    BY <1>4, <1>12 DEF AddPlane, DoVideo, hvsVars
  <2>2. /\ output = "vec" => (words = UnityWords /\ bring \in {6, 10})
           \/ (words = ScaledWords /\ bring = 11)
        /\ output = "dpi" => words = UnityWords /\ bring = 7
    BY <1>5, <1>6, <1>7, <2>1, VecPlaces, DpiPlaces
  <2>3. words \in Nat /\ words >= 1 /\ mem \in [Slots -> Int] /\ Body \in Int
    BY ListWordsFit DEF ListsComeUp, Body
  <2>4. slot \in Slots
    BY <1>2, <1>3, <2>2, ListWordsFit DEF Cursor, Slots
  <2>5. /\ mem' \in [Slots -> Int] /\ mem'[slot] = words
        /\ \A w \in Slots : w < slot => mem'[w] = mem[w]
    BY <1>8, <2>1, <2>3, <2>4 DEF Filled, Slots
  <2>6. ~HandedOver'
    BY <1>1, <2>2 DEF HandedOver
  <2> QED
    BY <1>1, <1>2, <1>3, <2>1, <2>2, <2>5, <2>6, WriteStepKeeps
<1>13. CASE End1
  <2>1. UpAt("end") /\ mem' = Filled(mem, slot, 1, End)
        /\ UNCHANGED <<displist, scanning, active, size, pvOn, latched>>
    BY <1>4, <1>13 DEF End1, DoVideo, hvsVars
  <2>2. /\ output = "vec" => bring \in {7, 12}
        /\ output = "dpi" => bring = 8
    BY <1>5, <1>6, <1>7, <2>1, VecPlaces, DpiPlaces
  <2>3. mem \in [Slots -> Int] /\ End \in Int
    BY DEF ListsComeUp, End
  <2>4. slot \in Slots
    BY <1>2, <1>3, <2>2, ListWordsFit DEF Cursor, Slots
  <2>5. /\ mem' \in [Slots -> Int] /\ mem'[slot] = End
        /\ \A w \in Slots : w < slot => mem'[w] = mem[w]
    BY <1>8, <2>1, <2>3, <2>4, WritesAt
  <2>6. ~HandedOver'
    BY <1>1, <2>2 DEF HandedOver
  <2> QED
    BY <1>1, <1>2, <1>3, <2>1, <2>2, <2>5, <2>6, WriteStepKeeps
<1>14. CASE SetupPixelvalve
  <2>1. UpAt("pixelValve") /\ UNCHANGED <<mem, displist, scanning, active, size, latched>>
    BY <1>4, <1>14 DEF SetupPixelvalve, DoVideo, vars, listVars, hvsVars
  <2>2. /\ output = "vec" => bring = 5
        /\ output = "dpi" => bring = 13
    BY <1>5, <1>6, <1>7, <2>1, VecPlaces, DpiPlaces
  <2>3. output = "vec" => size' = 0
    BY <1>3, <2>1, <2>2 DEF ListsComeUp
  <2>4. output = "vec" => ListsComeUp'
    BY <1>1, <1>2, <2>1, <2>2, <2>3, VecQuietKeeps
  <2>5. output = "dpi" => ListsComeUp'
    BY <1>1, <2>1, <2>2, DpiQuietKeeps
  <2>6. ~HandedOver'
    BY <1>1, <1>2, <2>2 DEF HandedOver
  <2> QED
    BY <1>2, <2>1, <2>4, <2>5, <2>6
<1>15. CASE PublishList
  <2>1. /\ UpAt("publish") /\ UNCHANGED <<mem, scanning, active, size, pvOn, latched>>
        /\ displist' = ListStart
    BY <1>4, <1>15 DEF PublishList, DoVideo, vars, listVars, hvsVars
  <2>2. /\ output = "vec" => bring \in {8, 13}
        /\ output = "dpi" => bring = 9
    BY <1>5, <1>6, <1>7, <2>1, VecPlaces, DpiPlaces
  <2>3. /\ output = "vec" /\ bring = 8 => size = 0 /\ displist' = 0
        /\ output = "vec" /\ bring = 13 => displist' = Second
    <3>1. output = "vec" /\ bring = 8 => size = 0
      BY <1>3 DEF ListsComeUp
    <3>2. output = "vec" /\ bring = 13 => size # 0
      BY Lengths DEF ComingUp
    <3> QED
      BY <2>1, <3>1, <3>2 DEF ListStart, Second
  <2>4. ASSUME output = "vec"
        PROVE  ListsComeUp'
    <3>1. CASE bring = 8
      <4>1. displist' = 0 /\ size' = 0
        BY <2>1, <2>3, <2>4, <3>1
      <4> QED
        BY <1>1, <2>1, <2>4, <3>1, <4>1, VecQuietKeeps
    <3>2. CASE bring = 13
      BY <1>1, <2>1, <2>3, <2>4, <3>2, VecQuietKeeps
    <3> QED
      BY <2>2, <2>4, <3>1, <3>2
  <2>5. output = "vec" => ListsComeUp'
    BY <2>4
  <2>6. output = "dpi" => ~pvOn' /\ displist' = 0
    BY <2>1, <2>2 DEF ListsComeUp, ListStart
  <2>7. output = "dpi" => ListsComeUp'
    BY <1>1, <2>1, <2>2, <2>6, DpiQuietKeeps
  <2>8. ~HandedOver'
    BY <1>1, <1>2, <2>2 DEF HandedOver
  <2> QED
    BY <1>2, <2>1, <2>5, <2>7, <2>8
<1>16. CASE ConfigureChannel
  <2>1. UpAt("channel") /\ UNCHANGED <<mem, displist, pvOn, latched>> /\ ~scanning'
    BY <1>4, <1>16 DEF ConfigureChannel, DoVideo, listVars
  <2>2. /\ output = "vec" => bring = 9
        /\ output = "dpi" => bring = 6
    BY <1>5, <1>6, <1>7, <2>1, VecPlaces, DpiPlaces
  <2>3. output = "vec" => ListsComeUp'
    BY <1>1, <2>1, <2>2, VecQuietKeeps
  <2>4. output = "dpi" => ~pvOn'
    BY <2>1, <2>2 DEF ListsComeUp
  <2>5. output = "dpi" => ListsComeUp'
    BY <1>1, <2>1, <2>2, <2>4, DpiQuietKeeps
  <2>6. ~HandedOver'
    BY <1>1, <1>2, <2>2 DEF HandedOver
  <2> QED
    BY <1>2, <2>1, <2>3, <2>5, <2>6
<1>17. CASE SetBackground \/ ReadScreen \/ Scramble \/ QuietPv
  <2>1. /\ UNCHANGED <<mem, displist, scanning, active, size, pvOn>>
        /\ QuietPv => latched' = FALSE
    BY <1>17 DEF SetBackground, ReadScreen, Scramble, QuietPv, vars, listVars, hvsVars
  <2>2. UpAt("background") \/ UpAt("screen") \/ UpAt("scramble") \/ (UpAt("quiet") /\ QuietPv)
    BY <1>4, <1>17 DEF SetBackground, ReadScreen, Scramble, QuietPv, DoVideo
  <2>3. output = "vec" /\ bring \in {14, 15, 16, 17} /\ (bring = 17 => QuietPv)
    <3>1. CASE output = "vec"
      BY <3>1, <1>5, <1>6, <2>2, VecPlaces
    <3>2. CASE output = "dpi"
      BY <3>2, <1>5, <1>7, <2>2, DpiPlaces
    <3> QED
      BY <3>1, <3>2, <1>2
  <2>4. bring \in 13..17 /\ bring \notin {13, 8} /\ bring \notin {3, 9} /\ bring \notin {3, 5, 8}
    BY <2>3
  <2>5. bring = 17 => latched' = FALSE
    BY <2>1, <2>3
  <2>6. ListsComeUp'
    BY <1>1, <2>1, <2>3, <2>4, <2>5, VecQuietKeeps
  <2>7. ~HandedOver'
    BY <1>1, <2>3 DEF HandedOver
  <2> QED
    BY <2>1, <2>6, <2>7
<1>18. CASE DpiStart
  <2>1. /\ UpAt("paint") \/ UpAt("killClock") \/ UpAt("enableClock") \/ UpAt("clockSet")
           \/ UpAt("pins")
        /\ UNCHANGED <<mem, displist, scanning, active, size, pvOn, latched>>
    BY <1>4, <1>18 DEF DpiStart, Paint, SetClock, ClockSet, GivePins, DoDpi, vars, listVars, hvsVars
  <2>2. output = "dpi" /\ bring \in {5, 10, 11, 12, 14}
    <3>1. CASE output = "vec"
      BY <3>1, <1>5, <1>6, <2>1, VecPlaces
    <3>2. CASE output = "dpi"
      BY <3>2, <1>5, <1>7, <2>1, DpiPlaces
    <3> QED
      BY <3>1, <3>2, <1>2
  <2>3. bring < 13 => ~pvOn'
    BY <2>1, <2>2 DEF ListsComeUp
  <2>4. ListsComeUp'
    BY <1>1, <2>1, <2>2, <2>3, DpiQuietKeeps
  <2>5. ~HandedOver'
    BY <1>1, <2>2 DEF HandedOver
  <2> QED
    BY <2>1, <2>4, <2>5
<1>19. CASE EnableInterrupt
  <2>1. UpAt("interrupt") /\ UNCHANGED <<mem, slot, displist, clash, upd, scanning, active>>
        /\ pending' = latched
    BY <1>4, <1>19 DEF EnableInterrupt, DoVideo, listVars, hvsVars
  <2>2. output = "vec" /\ bring = 18
    <3>1. CASE output = "vec"
      BY <3>1, <1>5, <1>6, <2>1, VecPlaces
    <3>2. CASE output = "dpi"
      BY <3>2, <1>5, <1>7, <2>1, DpiPlaces
    <3> QED
      BY <3>1, <3>2, <1>2
  <2>3. HandedOver' /\ RoomInv("irq")'
    BY <1>1, <2>2 DEF HandedOver, ComingUp
  <2>4. slot = Last + 1 /\ upd["irq"].pc = "idle" /\ clash = "none"
    BY <1>3, <2>2, ListWordsFit DEF Cursor, ComingUp
  <2>5. /\ mem \in [Slots -> Int] /\ displist = Second
        /\ mem[Second] = UnityWords /\ mem[Scaled] = ScaledWords /\ mem[Last] = End
        /\ latched /\ scanning => active \subseteq Second..Last
    BY <1>3, <2>2 DEF ListsComeUp
  <2>6. UpRing(longest)'
    BY <2>1, <2>3, <2>4, <2>5, HandsOver
  <2>7. ListsComeUp'
    BY <1>1, <2>1, <2>2, <2>3 DEF ListsComeUp
  <2> QED
    BY <2>1, <2>6, <2>7
<1> QED
  BY <1>10, <1>11, <1>12, <1>13, <1>14, <1>15, <1>16, <1>17, <1>18, <1>19 DEF BringUp

-----------------------------------------------------------------------------
(* What is shown once everything has been turned off is a list.            *)
LEMMA UpShowsList ==
  ASSUME NEW longest, ListsComeUp, ComingUp, HandedOver => UpRing(longest), Shows, bring > 3
  PROVE  \E e \in Slots, H \in SUBSET Slots :
           /\ ListAt(H, displist, e)
           /\ (output = "vec" /\ bring \in 10..13) => displist = 0 /\ e = UnityWords
           /\ (output = "vec" /\ bring = 18) => displist = Second /\ e = Last
<1>1. bring \in Nat /\ output \in {"vec", "dpi"} /\ (output = "vec" => bring <= 19)
  BY DEF ComingUp
<1>2. hvsOn /\ size # 0 /\ pvOn
  BY DEF Shows
<1>3. mem \in [Slots -> Int]
  BY DEF ListsComeUp
<1>4. CASE HandedOver
  <2>1. PICK e \in Slots, H \in SUBSET Slots : ListAt(H, displist, e)
    BY <1>4 DEF UpRing
  <2>2. bring > 18
    BY <1>4 DEF HandedOver
  <2> QED
    BY <1>1, <2>1, <2>2
<1>5. CASE output = "vec" /\ bring \in 10..13
  <2>1. displist = 0 /\ mem[0] = UnityWords /\ mem[UnityWords] = End
    BY <1>5 DEF ListsComeUp, HandedOver
  <2>2. ListAt({0, UnityWords}, displist, UnityWords) /\ UnityWords \in Slots
        /\ {0, UnityWords} \in SUBSET Slots
    BY <1>3, <2>1, FirstList, ListWordsFit
  <2> QED
    BY <1>5, <2>1, <2>2
<1>6. CASE output = "vec" /\ bring \in 14..18
  <2>1. displist = Second /\ mem[Second] = UnityWords /\ mem[Scaled] = ScaledWords
        /\ mem[Last] = End
    BY <1>6 DEF ListsComeUp, HandedOver
  <2>2. ListAt({Second, Scaled, Last}, displist, Last) /\ Last \in Slots
        /\ {Second, Scaled, Last} \in SUBSET Slots
    BY <1>3, <2>1, SecondList, ListWordsFit
  <2> QED
    BY <1>6, <2>1, <2>2
<1>7. CASE output = "dpi"
  <2>1. ~(bring <= 13)
    BY <1>2, <1>7 DEF ListsComeUp
  <2>2. displist = 0 /\ mem[0] = UnityWords /\ mem[UnityWords] = End
    BY <1>1, <1>7, <2>1 DEF ListsComeUp
  <2>3. ListAt({0, UnityWords}, displist, UnityWords) /\ UnityWords \in Slots
        /\ {0, UnityWords} \in SUBSET Slots
    BY <1>3, <2>2, FirstList, ListWordsFit
  <2> QED
    BY <1>7, <2>2, <2>3
<1>8. ~(output = "vec" /\ bring \in 4..9)
  BY <1>2 DEF ListsComeUp, HandedOver
<1> QED
  BY <1>1, <1>4, <1>5, <1>6, <1>7, <1>8 DEF HandedOver

(* A frame that begins shows it.                                           *)
LEMMA VideoFrameKeeps ==
  ASSUME NEW longest, ListsComeUp, ComingUp, HandedOver => UpRing(longest), VideoFrame
  PROVE  ListsComeUp' /\ (HandedOver' => UpRing(longest)')
<1>1. /\ UNCHANGED <<mem, displist, bring, output, size, pvOn, latched>>
      /\ Shows /\ FrameStart /\ active' = ListWords[displist]
  BY DEF VideoFrame, FrameStart, listVars, upVars, dpiVars
<1>2. HandedOver' = HandedOver
  BY <1>1 DEF HandedOver
<1>3. HandedOver' => UpRing(longest)'
  BY <1>1, <1>2, FrameKeepsRing
<1>4. bring \in Nat /\ output \in {"vec", "dpi"} /\ mem \in [Slots -> Int]
  BY DEF ComingUp, ListsComeUp
<1>5. size # 0 /\ pvOn
  BY <1>1 DEF Shows
<1>6. CASE output = "vec"
  <2>1. bring \in 10..13 => active' \subseteq 0..UnityWords
    <3>1. SUFFICES ASSUME bring \in 10..13
                   PROVE  ListWords[displist] \subseteq 0..UnityWords
      BY <1>1
    <3>2. bring > 3
      BY <3>1
    <3>3. PICK e \in Slots, H \in SUBSET Slots :
            ListAt(H, displist, e) /\ displist = 0 /\ e = UnityWords
      BY <1>1, <1>6, <3>1, <3>2, UpShowsList
    <3> QED
      BY <1>4, <3>3, ListIsWithin
  <2>2. bring = 18 => active' \subseteq Second..Last
    <3>1. SUFFICES ASSUME bring = 18
                   PROVE  ListWords[displist] \subseteq Second..Last
      BY <1>1
    <3>2. bring > 3
      BY <3>1
    <3>3. PICK e \in Slots, H \in SUBSET Slots :
            ListAt(H, displist, e) /\ displist = Second /\ e = Last
      BY <1>1, <1>6, <3>1, <3>2, UpShowsList
    <3> QED
      BY <1>4, <3>3, ListIsWithin
  <2>3. ~HandedOver => ~(bring \in 4..9)
    BY <1>5, <1>6 DEF ListsComeUp
  <2> QED
    BY <1>1, <1>2, <1>3, <1>6, <2>1, <2>2, <2>3 DEF ListsComeUp
<1>7. CASE output = "dpi"
  <2>1. ~(bring <= 13)
    BY <1>5, <1>7 DEF ListsComeUp
  <2> QED
    BY <1>1, <1>3, <1>7, <2>1 DEF ListsComeUp
<1> QED
  BY <1>4, <1>6, <1>7

(* A frame that ends changes no word.                                      *)
LEMMA VideoShownKeeps ==
  ASSUME NEW longest, ListsComeUp, ComingUp, HandedOver => UpRing(longest), VideoFrameShown
  PROVE  ListsComeUp' /\ (HandedOver' => UpRing(longest)') /\ mem' = mem
<1>1. /\ UNCHANGED <<listVars, upd, limit, mem, displist, bring, output, size, pvOn>>
      /\ scanning' = FALSE /\ upd["irq"].pc = "idle"
  BY DEF VideoFrameShown, listVars, spriteVars, dpiVars
<1>2. HandedOver' = HandedOver
  BY <1>1 DEF HandedOver
<1>3. HandedOver' => UpRing(longest)'
  BY <1>1, <1>2, ShownKeepsRing
<1>4. ListsComeUp'
  BY <1>1, <1>2 DEF ListsComeUp
<1> QED
  BY <1>1, <1>3, <1>4

(* Nor does stage2, or the timer of the DPI, ...                           *)
LEMMA ElseKeepsLists ==
  ASSUME NEW longest, ListsComeUp, ComingUp, HandedOver => UpRing(longest),
         Stage2Moves \/ DpiTimer \/ ClockSettles \/ UNCHANGED allVars
  PROVE  ListsComeUp' /\ (HandedOver' => UpRing(longest)') /\ mem' = mem
<1>1. /\ UNCHANGED <<mem, slot, displist, clash, upd, limit, scanning, active, pending>>
      /\ UNCHANGED <<bring, output, size, pvOn, latched>>
  BY DEF Stage2Moves, SetUpdater, DpiTimer, Mover, Updater, Fires, ClockSettles, allVars, vars,
     upVars, dpiVars, listVars, spriteVars, hvsVars
<1>2. HandedOver' = HandedOver
  BY <1>1 DEF HandedOver
<1>3. HandedOver' => UpRing(longest)'
  BY <1>1, <1>2, ShownKeepsRing DEF listVars
<1>4. ListsComeUp'
  BY <1>1, <1>2 DEF ListsComeUp
<1> QED
  BY <1>1, <1>3, <1>4

(* ... while the updates change no word that is shown.                     *)
LEMMA VideoUpdatesKeep ==
  ASSUME NEW longest, ThreeFit(longest), ListsComeUp, ComingUp, HandedOver => UpRing(longest),
         VideoIrq \/ VideoUpdate
  PROVE  /\ ListsComeUp' /\ (HandedOver' => UpRing(longest)')
         /\ scanning => \A w \in active : mem'[w] = mem[w]
<1>1. PvIrq \/ IrqStep
  BY DEF VideoIrq, VideoUpdate
<1>2. HandedOver
  BY <1>1 DEF PvIrq, IrqStep, UpdateStep, PlaneOpen, PlaneClose, TerminateList, Overflow, Publish,
     ComingUp
<1>3. HandedOver' /\ output' = "vec"
  BY <1>2 DEF VideoIrq, VideoUpdate, upVars, dpiVars, HandedOver
<1>4. UpRing(longest)' /\ (scanning => \A w \in active : mem'[w] = mem[w])
  <2>1. CASE PvIrq
    BY <1>2, <2>1, UpBeginKeepsRing
  <2>2. CASE IrqStep
    BY <1>2, <2>2, UpStepKeepsRing
  <2> QED
    BY <1>1, <2>1, <2>2
<1>5. mem' \in [Slots -> Int] /\ displist' \in Slots
  BY <1>4 DEF UpRing, RingInv, ListAt
<1> QED
  BY <1>3, <1>4, <1>5 DEF ListsComeUp

(* So every step keeps the invariant, and changes no word that is shown.   *)
LEMMA VideoStepKeeps ==
  ASSUME NEW longest, ThreeFit(longest), VideoInv(longest), [VideoNext]_allVars
  PROVE  /\ VideoInv(longest)'
         /\ scanning /\ scanning' /\ typed' = 0 => \A w \in active : mem'[w] = mem[w]
<1>2. UpInv'
  BY UpKeeps DEF VideoInv
<1> SUFFICES ASSUME typed' = 0
             PROVE  /\ ListsComeUp' /\ (HandedOver' => UpRing(longest)')
                    /\ scanning /\ scanning' => \A w \in active : mem'[w] = mem[w]
  BY <1>2 DEF VideoInv
<1>3. typed = 0 /\ ~DpiCommand /\ ~DpiAgain /\ ~UpdateCommand
  BY CommandsCount DEF VideoInv, UpInv
<1>4. ComingUp /\ ListsComeUp /\ (HandedOver => UpRing(longest)) /\ ComingUp'
  BY <1>2, <1>3 DEF VideoInv, UpInv
<1>5. CASE BringUp
  BY <1>4, <1>5, BringUpKeepsLists
<1>6. CASE VideoFrame
  <2>1. ~scanning
    BY <1>6 DEF VideoFrame, FrameStart
  <2> QED
    BY <1>4, <1>6, <2>1, VideoFrameKeeps
<1>7. CASE VideoFrameShown
  BY <1>4, <1>7, VideoShownKeeps
<1>8. CASE VideoIrq \/ VideoUpdate
  BY <1>4, <1>8, VideoUpdatesKeep
<1>9. CASE Stage2Moves \/ DpiTimer \/ ClockSettles \/ UNCHANGED allVars
  BY <1>4, <1>9, ElseKeepsLists
<1>10. CASE VideoConsole
  <2>1. UpdateCommandStep
    BY <1>3, <1>10 DEF VideoConsole
  <2>2. upd["console"].pc # "idle"
    BY <2>1 DEF UpdateCommandStep, UpdateStep, PlaneOpen, PlaneClose, TerminateList, Overflow,
       Publish
  <2> QED
    BY <1>4, <2>2 DEF ComingUp
<1> QED
  BY <1>3, <1>5, <1>6, <1>7, <1>8, <1>9, <1>10 DEF VideoNext

(* Nothing is known of the memory that an earlier image leaves.            *)
LEMMA VideoBegins ==
  ASSUME NEW longest, VideoInit
  PROVE  VideoInv(longest)
<1>1. UpInv
  BY UpBegins
<1>2. ~HandedOver
  BY DEF VideoInit, HandedOver
<1>3. mem \in [Slots -> Int] /\ displist \in Slots
  BY DEF VideoInit, End, Body
<1>4. ListsComeUp
  BY <1>2, <1>3 DEF VideoInit, ListsComeUp
<1> QED
  BY <1>1, <1>2, <1>4 DEF VideoInv

(* vec.c 31-131, dance.c 51-127, 256-275, dpi.c 33-197: once the bring-up  *)
(* has turned off what was on, the scaler shows nothing but lists,         *)
(* whatever an earlier image left in it and in its memory: until the first *)
(* command; as long as three lists of two sprites fit.                     *)
THEOREM OnShowsLists ==
  ASSUME NEW longest, ThreeFit(longest)
  PROVE  VideoSpec => []ShownOnceOn
<1>1. VideoInit => VideoInv(longest)
  BY VideoBegins
<1>2. VideoInv(longest) /\ [VideoNext]_allVars => VideoInv(longest)'
  BY VideoStepKeeps
<1>3. VideoInv(longest) => ShownOnceOn
  <2> SUFFICES ASSUME VideoInv(longest), Shows, bring > 3, typed = 0
               PROVE  IsList[displist]
    BY DEF ShownOnceOn
  <2>1. ListsComeUp /\ ComingUp /\ (HandedOver => UpRing(longest))
    BY DEF VideoInv, UpInv
  <2>2. PICK e \in Slots, H \in SUBSET Slots : ListAt(H, displist, e)
    BY <2>1, UpShowsList
  <2> QED
    BY <2>1, <2>2, ListIsOne DEF ListsComeUp
<1> QED
  BY <1>1, <1>2, <1>3, PTL DEF VideoSpec

(* From the start on, until the first command, no word is changed of a     *)
(* list that is being shown: not by the wipe (hvs.c 222-227), nor by the   *)
(* lists of vec_init (vec.c 114-130), nor by the updates after them.       *)
THEOREM NeverTornFromStart ==
  ASSUME NEW longest, ThreeFit(longest)
  PROVE  VideoSpec => UntornFromStart
<1>1. VideoInit => VideoInv(longest)
  BY VideoBegins
<1>2. VideoInv(longest) /\ [VideoNext]_allVars => VideoInv(longest)'
  BY VideoStepKeeps
<1>3. VideoInv(longest) /\ [VideoNext]_allVars
        => [scanning /\ scanning' /\ typed' = 0 => \A w \in active : mem'[w] = mem[w]]_allVars
  BY VideoStepKeeps
<1> QED
  BY <1>1, <1>2, <1>3, PTL DEF VideoSpec, UntornFromStart
=============================================================================
