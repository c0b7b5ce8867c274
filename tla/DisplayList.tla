----------------------------- MODULE DisplayList -----------------------------
(***************************************************************************)
(* The sprite demo: do_frame_update and its callers (hvs-dance/dance.c),   *)
(* the display list they write (hvs/hvs.c), and the video scaler (HVS)     *)
(* that scans it (all below platform/bcm28xx).                             *)
(*                                                                         *)
(* A display list is a row of planes in the list memory with an end word   *)
(* behind it.  Every update writes a new list behind the last one, from    *)
(* the cursor display_slot, publishes it in DISPLIST1, and lets the cursor *)
(* go back to 0 near the end of the memory.  The pixel valve interrupts    *)
(* when a frame has been shown, and the interrupt handler makes an update. *)
(* It runs to completion; the console's commands run when it does not.     *)
(*                                                                         *)
(* The HVS and the pixel valve are hardware, modelled from how the code    *)
(* uses them: at the start of a frame the HVS latches DISPLIST1, and it    *)
(* reads that list until the frame is shown.                               *)
(***************************************************************************)
EXTENDS Integers

CONSTANTS
  Size,         (* words of list memory: 4096                               *)
  High,         (* behind this word the cursor goes back to 0: 4000         *)
  UnityWords,   (* words of an unscaled plane: 7                            *)
  ScaledWords,  (* words of a scaled plane: 14                              *)
  WordsField,   (* a plane's first word counts its words modulo this: 64    *)
  Items,        (* sprites there are: 580                                   *)
  Typed,        (* bound: the limits somebody types                         *)
  Delays,       (* bound: the delays somebody types, and 0                  *)
  Frames,       (* the frame counter of the HVS wraps here: 64              *)
  Width,        (* the width of the screen                                  *)
  SpriteWidth,  (* the width of a sprite: 100                               *)
  LogoWidth,    (* the width of its image before it is scaled down          *)
  MaxSpeed,     (* the fastest a sprite is sent off: 5                      *)
  MaxCommands   (* bound: commands typed                                    *)

ASSUME DisplayAssumption ==
  /\ Size \in Nat /\ High \in 0..Size
  /\ UnityWords \in Nat \ {0} /\ ScaledWords \in Nat \ {0} /\ WordsField \in Nat
  /\ UnityWords < WordsField /\ ScaledWords < WordsField
  /\ 2 * UnityWords + ScaledWords + 2 <= High
  /\ Items \in Nat \ {0, 1} /\ Typed \subseteq Nat /\ Delays \subseteq Nat
  /\ 0 \in Delays /\ Frames \in Nat \ {0}
  /\ SpriteWidth \in Nat /\ LogoWidth \in Nat /\ Width \in Nat /\ MaxSpeed \in Nat \ {0}
  /\ SpriteWidth <= LogoWidth /\ LogoWidth <= Width /\ MaxSpeed < Width - SpriteWidth
  /\ MaxCommands \in Nat

VARIABLES
  mem,       (* the list memory *)
  slot,      (* display_slot *)
  displist,  (* SCALER_DISPLIST1 *)
  clash,     (* history: what the list being written may write over: "none",
                "list": the one shown, "update": the other caller's *)
  upd,       (* do_frame_update, as called by the interrupt and by the console *)
  limit,     (* sprite_limit *)
  delay,
  sprite,    (* items[1]: its x and xd *)
  cmd,       (* the command that is running: "none", or its next step *)
  typed,     (* commands typed so far, for the bound *)
  frame,     (* the frame number the HVS counts in its status register *)
  active,    (* the words of the list being scanned *)
  scanning,  (* is the HVS scanning a frame? *)
  pending    (* is a pixel valve interrupt pending? *)

listVars   == <<mem, slot, displist, clash>>
spriteVars == <<limit, delay, sprite>>
cmdVars    == <<cmd, typed>>
hvsVars    == <<frame, active, scanning>>
vars       == <<listVars, upd, spriteVars, cmdVars, hvsVars, pending>>

Slots   == 0..(Size - 1)
Callers == {"irq", "console"}

-----------------------------------------------------------------------------
(* The words of the list memory: the end word, a plane's first word (with  *)
(* the number of words of the plane), and everything else.                 *)
End  == -1
Body == -2

Word == {End, Body} \cup (0..(WordsField - 1))

(* The memory m with value v in the n words from the first; words written  *)
(* beyond the memory are not kept.                                         *)
Filled(m, first, n, v) ==
  [w \in Slots |-> IF w \in first..(first + n - 1) THEN v ELSE m[w]]

(* The HVS walks a list from plane to plane. *)
IsPlane(w) == mem[w] \in 1..(Size - 1 - w)

IsList[w \in Slots] == mem[w] = End \/ (IsPlane(w) /\ IsList[w + mem[w]])

ListWords[w \in Slots] ==
  IF IsPlane(w) THEN w..(w + mem[w] - 1) \cup ListWords[w + mem[w]] ELSE {w}

-----------------------------------------------------------------------------

(* Mutant: a sprite turns at the edge of the screen, not a width before.   *)
MovedToTheEdge(s) ==
  LET turned == IF s.x >= Width THEN -s.xd ELSE s.xd
      moved  == [x |-> s.x + turned, xd |-> turned]
      inside == IF moved.x < 0 THEN [x |-> -moved.x, xd |-> -moved.xd] ELSE moved
  IN  IF inside.x > Width THEN [x |-> inside.x - Width, xd |-> -inside.xd] ELSE inside

(* The sprite bounces off the left edge and off the right one, which       *)
(* begins a sprite's width inside the screen; the last test is for one     *)
(* that has left the screen all the same.                                  *)
Moved(s) ==
  LET turned == IF s.x > Width - SpriteWidth THEN -s.xd ELSE s.xd
      moved  == [x |-> s.x + turned, xd |-> turned]
      inside == IF moved.x < 0 THEN [x |-> -moved.x, xd |-> -moved.xd] ELSE moved
  IN  IF inside.x > Width THEN [x |-> inside.x - Width, xd |-> -inside.xd] ELSE inside

-----------------------------------------------------------------------------
(* do_frame_update.  The interrupt handler is not interrupted. *)

Idle == [pc |-> "idle", start |-> 0, plane |-> 0, i |-> 0]

Runs(who) == who = "console" => upd["irq"].pc = "idle"

(* With a delay, most frames are left alone. *)
Due(f) == delay = 0 \/ f % delay = 0

(* Mutant: no early check. *)
RoomUnchecked(s) == s

(* The early check: where a list of as many planes as the limit says goes. *)
Room(s) == IF s + limit * ScaledWords + 1 > Size THEN 0 ELSE s

StartList(who, s) ==
  /\ slot' = s
  /\ upd' = [upd EXCEPT ![who] = [pc |-> "planes", start |-> s, plane |-> s, i |-> 0]]

(* What the clash is noted against: is there any place at all, from a word *)
(* on that the cursor does not go back from, where the list fits beside    *)
(* the one that is shown?                                                  *)
HasRoom ==
  \E first \in 0..High :
    LET last == first + limit * ScaledWords
    IN  last < Size /\ (first..last) \cap ListWords[displist] = {}

NextClash ==
  IF clash = "update" \/ \E who \in Callers : upd[who].pc # "idle" THEN "update"
  ELSE IF HasRoom THEN "none" ELSE "list"

UpdateBegin(who, f) ==
  /\ Runs(who) /\ upd[who].pc = "idle"
  /\ IF Due(f) THEN StartList(who, Room(slot)) /\ clash' = NextClash
     ELSE UNCHANGED <<slot, upd, clash>>
  /\ UNCHANGED <<mem, displist, spriteVars>>

(* One sprite moves, and the first word of its plane is written, not valid *)
(* yet. *)
PlaneOpen(who) ==
  /\ Runs(who) /\ upd[who].pc = "planes" /\ upd[who].i < limit
  /\ sprite' = IF upd[who].i = 1 THEN Moved(sprite) ELSE sprite
  /\ mem' = Filled(mem, slot, 1, Body)
  /\ slot' = slot + 1
  /\ upd' = [upd EXCEPT ![who].pc = "plane", ![who].plane = slot]
  /\ UNCHANGED <<displist, clash, limit, delay>>

(* Mutant: the first word counts the words behind it, without itself.      *)
PlaneCloseShort(who) ==
  LET behind == slot + ScaledWords - 1
      plane  == upd[who].plane
  IN  /\ Runs(who) /\ upd[who].pc = "plane"
      /\ mem' = Filled(Filled(mem, slot, ScaledWords - 1, Body), plane, 1, ScaledWords - 1)
      /\ slot' = behind
      /\ upd' = [upd EXCEPT ![who].pc = "planes", ![who].i = @ + 1]
      /\ UNCHANGED <<displist, clash, spriteVars>>

(* The other words; then the first word is made valid, with the number of  *)
(* words that the cursor has moved.                                        *)
PlaneClose(who) ==
  LET behind == slot + ScaledWords - 1
      plane  == upd[who].plane
  IN  /\ Runs(who) /\ upd[who].pc = "plane"
      /\ mem' = Filled(Filled(mem, slot, ScaledWords - 1, Body), plane, 1,
                       (behind - plane) % WordsField)
      /\ slot' = behind
      /\ upd' = [upd EXCEPT ![who].pc = "planes", ![who].i = @ + 1]
      /\ UNCHANGED <<displist, clash, spriteVars>>

TerminateList(who) ==
  /\ Runs(who) /\ upd[who].pc = "planes" /\ upd[who].i >= limit
  /\ mem' = Filled(mem, slot, 1, End)
  /\ slot' = slot + 1
  /\ upd' = [upd EXCEPT ![who].pc = "publish"]
  /\ UNCHANGED <<displist, clash, spriteVars>>

(* A list that has run over the end of the memory is written again from 0. *)
Overflow(who) ==
  /\ Runs(who) /\ upd[who].pc = "publish" /\ slot > Size
  /\ StartList(who, Room(0))
  /\ UNCHANGED <<mem, displist, clash, spriteVars>>

(* Mutant: every list is written at 0. *)
WrappedAlways(s) == 0

(* The late check, behind the list. *)
Wrapped(s) == IF s > High THEN 0 ELSE s

Publish(who) ==
  /\ Runs(who) /\ upd[who].pc = "publish" /\ slot <= Size
  /\ displist' = upd[who].start
  /\ slot' = Wrapped(slot)
  /\ upd' = [upd EXCEPT ![who] = Idle]
  /\ clash' = IF clash = "list" THEN "none" ELSE clash
  /\ UNCHANGED <<mem, spriteVars>>

UpdateStep(who) ==
  PlaneOpen(who) \/ PlaneClose(who) \/ TerminateList(who) \/ Overflow(who) \/ Publish(who)

(* pv_irq: the interrupt is acknowledged when the update is made. *)
PvIrq ==
  /\ pending
  /\ pending' = FALSE
  /\ UpdateBegin("irq", frame)
  /\ UNCHANGED <<cmdVars, hvsVars>>

IrqStep == UpdateStep("irq") /\ UNCHANGED <<cmdVars, hvsVars, pending>>

-----------------------------------------------------------------------------
(* The console's commands, which the interrupt may come between. *)

Command(first, next) ==
  /\ Runs("console") /\ cmd = first
  /\ cmd' = next
  /\ UNCHANGED <<listVars, upd, hvsVars, pending>>

Typing(next) ==
  /\ typed < MaxCommands
  /\ typed' = typed + 1
  /\ Command("none", next)

(* "l": the number is stored, and then limited. *)
LimitStore ==
  /\ Typing("clamp")
  /\ limit' \in Typed
  /\ UNCHANGED <<delay, sprite>>

LimitClamp ==
  /\ Command("clamp", "none")
  /\ limit' = IF limit > Items THEN Items ELSE limit
  /\ UNCHANGED <<delay, sprite, typed>>

(* "d" *)
SetDelay ==
  /\ Typing("none")
  /\ delay' \in Delays
  /\ UNCHANGED <<limit, sprite>>

(* "dance": a new place and a new speed; a place too far right is moved.   *)
ScramblePlace ==
  /\ Typing("speed")
  /\ \E x \in 0..(Width - 1) : sprite' = [sprite EXCEPT !.x = x]
  /\ UNCHANGED <<limit, delay>>

ScrambleSpeed ==
  /\ Command("speed", "edge")
  /\ \E xd \in 1..MaxSpeed : sprite' = [sprite EXCEPT !.xd = xd]
  /\ UNCHANGED <<limit, delay, typed>>

ScrambleEdge ==
  /\ Command("edge", "none")
  /\ sprite' = IF sprite.x > Width - SpriteWidth
               THEN [sprite EXCEPT !.x = Width - LogoWidth] ELSE sprite
  /\ UNCHANGED <<limit, delay, typed>>

(* "u": an update from the console, as if for frame 0. *)
UpdateCommand ==
  /\ typed < MaxCommands /\ cmd = "none"
  /\ typed' = typed + 1
  /\ UpdateBegin("console", 0)
  /\ cmd' = IF upd'["console"].pc = "idle" THEN "none" ELSE "update"
  /\ UNCHANGED <<hvsVars, pending>>

UpdateCommandStep ==
  /\ UpdateStep("console")
  /\ cmd' = IF upd'["console"].pc = "idle" THEN "none" ELSE "update"
  /\ UNCHANGED <<typed, hvsVars, pending>>

Console ==
  \/ LimitStore \/ LimitClamp \/ SetDelay
  \/ ScramblePlace \/ ScrambleSpeed \/ ScrambleEdge
  \/ UpdateCommand \/ UpdateCommandStep

-----------------------------------------------------------------------------
(* The HVS and the pixel valve.  A frame may begin before the update for   *)
(* the last one is done, and takes longer than an update.                  *)

FrameStart ==
  /\ ~scanning
  /\ scanning' = TRUE
  /\ active' = ListWords[displist]
  /\ frame' = (frame + 1) % Frames
  /\ UNCHANGED <<listVars, upd, spriteVars, cmdVars, pending>>

FrameShown ==
  /\ scanning /\ ~pending /\ upd["irq"].pc = "idle"
  /\ scanning' = FALSE
  /\ active' = {}
  /\ pending' = TRUE
  /\ UNCHANGED <<listVars, upd, spriteVars, cmdVars, frame>>

-----------------------------------------------------------------------------
(* What vec_init leaves: a list of an unscaled plane, and behind it one of *)
(* an unscaled and a scaled plane, which is shown.  The words behind stand *)
(* as hvs_wipe_displaylist leaves them (in the code, the first 1024).  The *)
(* sprite is placed before the interrupt is enabled.                       *)
Init ==
  /\ LET second == UnityWords + 1
         scaled == second + UnityWords
     IN  /\ slot = scaled + ScaledWords + 1
         /\ displist = second
         /\ mem = [w \in Slots |->
                     CASE w \in {0, second}                -> UnityWords
                       [] w = scaled                       -> ScaledWords
                       [] w = UnityWords \/ w >= slot - 1 -> End
                       [] OTHER                            -> Body]
  /\ upd = [who \in Callers |-> Idle] /\ clash = "none"
  /\ limit = 2 /\ delay = 0
  /\ sprite \in [x : 0..(Width - SpriteWidth), xd : 1..MaxSpeed]
  /\ cmd = "none" /\ typed = 0
  /\ frame = 0 /\ active = {} /\ scanning = FALSE /\ pending = FALSE

Next == PvIrq \/ IrqStep \/ Console \/ FrameStart \/ FrameShown

(* The interrupt is taken and its handler ends; frames go on.              *)
Fairness == WF_vars(PvIrq) /\ WF_vars(IrqStep) /\ WF_vars(FrameStart) /\ WF_vars(FrameShown)

Spec == Init /\ [][Next]_vars /\ Fairness

-----------------------------------------------------------------------------
TypeOK ==
  /\ mem \in [Slots -> Word]
  /\ slot \in Nat /\ displist \in Slots /\ clash \in {"none", "list", "update"}
  /\ upd \in [Callers -> [pc : {"idle", "planes", "plane", "publish"},
                          start : Nat, plane : Nat, i : Nat]]
  /\ limit \in Nat /\ delay \in Delays
  /\ sprite \in [x : 0..Width, xd : (-MaxSpeed)..MaxSpeed]
  /\ cmd \in {"none", "clamp", "speed", "edge", "update"} /\ typed \in 0..MaxCommands
  /\ frame \in 0..(Frames - 1)
  /\ active \subseteq Slots /\ scanning \in BOOLEAN /\ pending \in BOOLEAN

(* The early check (55-58) and the late one (123-126) keep the cursor,     *)
(* which is behind the last word that was written, within the memory, for  *)
(* every list that fits it, wherever the last one ended: "dlist            *)
(* overflow!!!" (115) is not printed.  A list that does not fit, the limit *)
(* of the command "l" being no more than the sprites there are, goes to 0  *)
(* and leaves the memory with the words that it has too many.  An update   *)
(* that others begin within goes on where they end, which is before High.  *)
InMemory ==
  slot <= Size \/ slot <= (IF clash = "update" THEN High ELSE 0) + limit * ScaledWords + 1

(* What DISPLIST1 points to is a list. *)
Shown == IsList[displist]

(* Outside a "dance" command, a sprite stays on the screen, and does not   *)
(* run past the right edge, where it turns, by more than one step.         *)
InBox ==
  /\ sprite.x \in 0..Width
  /\ cmd \notin {"speed", "edge"} => sprite.x <= Width - SpriteWidth + MaxSpeed

(* No step changes a word of the list that the HVS is scanning, even if    *)
(* the interrupt is served so late that the next frame has begun, as long  *)
(* as there was any room in the memory beside the list that is shown when  *)
(* the update began, no update began within another, and the list that is  *)
(* scanned is the one that is shown still: of all the places for a list,   *)
(* the cursor has found one that is free.                                  *)
Untorn ==
  [][scanning /\ clash = "none" /\ active = ListWords[displist] =>
       \A w \in active : mem'[w] = mem[w]]_vars

(* The command "u" may spoil the list that is shown (its words and the     *)
(* interrupt's share a cursor), but not for good: once nobody types any    *)
(* more, the interrupt's updates show lists again.                         *)
Recovers == <>[]Shown

=============================================================================
