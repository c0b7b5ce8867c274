------------------------------- MODULE Video ---------------------------------
(***************************************************************************)
(* How the picture comes up: vec_init (vec/vec.c) sets the video scaler    *)
(* (hvs/hvs.c), the composite encoder and the pixel valve (pixelvalve/)    *)
(* up, shows a first list and a second, and dance_start (hvs-dance/) lets  *)
(* the interrupt begin the updates of DisplayList; or how stage2 does it   *)
(* (app/vc4-stage2): cmd_dpi_start shows one list on the pins of the DPI   *)
(* (dpi/dpi.c), and a timer paints its frame (all below platform/bcm28xx). *)
(*                                                                         *)
(* It begins on what ran before: a scaler that may be showing a list, and  *)
(* a list memory of which only the first part is wiped.  The scaler reads  *)
(* lists from the moment that it, its channel and the pixel valve are on.  *)
(***************************************************************************)
EXTENDS DisplayList, Sequences

CONSTANTS
  Wiped,     (* the words hvs_wipe_displaylist clears: 1024 *)
  DpiWidth,  (* the frame of the DPI: 480 pixels wide, ... *)
  DpiHeight, (* ... and 800 high *)
  MaxMoves   (* bound: how often its timer fires *)

ASSUME VideoAssumption ==
  Wiped \in 0..Size /\ {DpiWidth, DpiHeight} \subseteq Nat \ {0} /\ MaxMoves \in Nat

VARIABLES
  output,      (* which one comes up: "vec" or "dpi" *)
  bring,       (* the step of it that comes next *)
  hvsOn,       (* SCALER_DISPCTRL: is the scaler enabled? *)
  size,        (* the width in DISPCTRL1; 0 while the channel is off *)
  pvOn,        (* does the pixel valve ask for pictures? *)
  screen,      (* screen_width *)
  background,  (* is there a background callback? *)
  latched,     (* int_status of the pixel valve *)
  intOn,       (* int_enable, and the handler registered and unmasked *)
  dpiClock,    (* CM_DPICTL: is the clock enabled, and does it still change? *)
  pinsOn,      (* DPI_C, and the pins given to the DPI *)
  updater,     (* what the timer calls: "none", "count" or "move" *)
  count2,      (* the pixel that the timer has come to *)
  lit,         (* the pixels that it has left white *)
  moves        (* how often the timer has fired, for the bound *)

upVars  == <<bring, hvsOn, size, pvOn, screen, background, latched, intOn>>
dpiVars == <<output, dpiClock, pinsOn, updater, count2, lit, moves>>
allVars == <<vars, upVars, dpiVars>>

(* Mutant: the pixel valve of the DPI is set up before there is a list.    *)
DpiProgramValveFirst ==
  <<"hvsOff", "hvsOn", "channelsOff", "wipe", "paint", "channel", "pixelValve", "plane", "end",
    "publish", "killClock", "enableClock", "clockSet", "pins">>

(* Mutant: the memory is wiped under a scaler that is on. *)
ProgramWipeFirst ==
  <<"wipe", "hvsOff", "hvsOn", "channelsOff", "pixelValve", "plane", "end", "publish", "channel",
    "plane", "scaled", "end", "publish", "background", "screen", "scramble", "quiet", "interrupt">>
(* The steps of vec_init and dance_start in their order.  The clock and    *)
(* the registers of the encoder, between the wipe and the pixel valve,     *)
(* change nothing here.                                                    *)
VecProgram ==
  <<"hvsOff", "hvsOn", "channelsOff", "wipe", "pixelValve", "plane", "end", "publish", "channel",
    "plane", "scaled", "end", "publish", "background", "screen", "scramble", "quiet", "interrupt">>

(* Those of cmd_dpi_start. *)
DpiProgram ==
  <<"hvsOff", "hvsOn", "channelsOff", "wipe", "paint", "channel", "plane", "end", "publish",
    "killClock", "enableClock", "clockSet", "pixelValve", "pins">>

Program == IF output = "vec" THEN VecProgram ELSE DpiProgram

IsUp == bring > Len(Program)

Do(step) == ~IsUp /\ Program[bring] = step /\ bring' = bring + 1 /\ UNCHANGED output

DoVideo(step) == Do(step) /\ UNCHANGED dpiVars

-----------------------------------------------------------------------------
(* hvs_initialize. *)

HvsOff ==
  /\ DoVideo("hvsOff")
  /\ hvsOn' = FALSE /\ scanning' = FALSE /\ active' = {}
  /\ UNCHANGED <<listVars, upd, spriteVars, cmdVars, frame, pending, size, pvOn, screen, background,
                 latched, intOn>>

HvsOn ==
  /\ DoVideo("hvsOn")
  /\ hvsOn' = TRUE
  /\ UNCHANGED <<vars, size, pvOn, screen, background, latched, intOn>>

ChannelsOff ==
  /\ DoVideo("channelsOff")
  /\ size' = 0 /\ scanning' = FALSE /\ active' = {}
  /\ UNCHANGED <<listVars, upd, spriteVars, cmdVars, frame, pending, hvsOn, pvOn, screen, background,
                 latched, intOn>>

WipeDisplaylist ==
  /\ DoVideo("wipe")
  /\ mem' = Filled(mem, 0, Wiped, End)
  /\ slot' = 0
  /\ UNCHANGED <<displist, clash, upd, spriteVars, cmdVars, hvsVars, pending, hvsOn, size, pvOn, screen,
                 background, latched, intOn>>

(* setup_pixelvalve: it is stopped, and started with its timings.          *)
SetupPixelvalve ==
  /\ DoVideo("pixelValve")
  /\ pvOn' = TRUE
  /\ UNCHANGED <<vars, hvsOn, size, screen, background, latched, intOn>>

(* hvs_configure_channel: the channel is reset, and enabled with its size. *)
ConfigureChannel ==
  /\ DoVideo("channel")
  /\ size' = Width
  /\ scanning' = FALSE /\ active' = {}
  /\ UNCHANGED <<listVars, upd, spriteVars, cmdVars, frame, pending, hvsOn, pvOn, screen, background,
                 latched, intOn>>

-----------------------------------------------------------------------------
(* The two lists: hvs_add_plane, hvs_add_plane_scaled, hvs_terminate_list  *)
(* and the store that publishes a list.                                    *)

(* A plane's first word has its length; only its order among the others    *)
(* would tell the two functions apart, and nothing is shown in between.    *)
AddPlane(step, words) ==
  /\ DoVideo(step)
  /\ mem' = Filled(Filled(mem, slot, words, Body), slot, 1, words)
  /\ slot' = slot + words
  /\ UNCHANGED <<displist, clash, upd, spriteVars, cmdVars, hvsVars, pending, hvsOn, size, pvOn, screen,
                 background, latched, intOn>>

End1 ==
  /\ DoVideo("end")
  /\ mem' = Filled(mem, slot, 1, End)
  /\ slot' = slot + 1
  /\ UNCHANGED <<displist, clash, upd, spriteVars, cmdVars, hvsVars, pending, hvsOn, size, pvOn, screen,
                 background, latched, intOn>>

(* list_start, where the cursor was before the list's first plane.         *)
ListStart == IF output = "dpi" \/ size = 0 THEN 0 ELSE UnityWords + 1

PublishList ==
  /\ DoVideo("publish")
  /\ displist' = ListStart
  /\ UNCHANGED <<mem, slot, clash, upd, spriteVars, cmdVars, hvsVars, pending, hvsOn, size, pvOn, screen,
                 background, latched, intOn>>

-----------------------------------------------------------------------------
(* dance_start. *)

SetBackground ==
  /\ DoVideo("background")
  /\ background' = TRUE
  /\ UNCHANGED <<vars, hvsOn, size, pvOn, screen, latched, intOn>>

(* The size of the screen is read back from the channel.                   *)
ReadScreen ==
  /\ DoVideo("screen")
  /\ screen' = size
  /\ UNCHANGED <<vars, hvsOn, size, pvOn, background, latched, intOn>>

(* dance_scramble; rand() % screen_width is a division by zero before the  *)
(* screen is known.                                                        *)
Scramble ==
  /\ DoVideo("scramble") /\ screen # 0
  /\ \E x \in 0..(screen - 1), xd \in 1..MaxSpeed :
       sprite' = [x |-> IF x > screen - SpriteWidth THEN screen - LogoWidth ELSE x, xd |-> xd]
  /\ UNCHANGED <<listVars, upd, limit, delay, cmdVars, hvsVars, pending, hvsOn, size, pvOn, screen,
                 background, latched, intOn>>

(* The interrupt is disabled and what is pending acknowledged.             *)
QuietPv ==
  /\ DoVideo("quiet")
  /\ intOn' = FALSE /\ latched' = FALSE
  /\ UNCHANGED <<vars, hvsOn, size, pvOn, screen, background>>

(* setup_pv_interrupt, and the enable bit.                                 *)
EnableInterrupt ==
  /\ DoVideo("interrupt")
  /\ intOn' = TRUE /\ pending' = latched
  /\ UNCHANGED <<listVars, upd, spriteVars, cmdVars, hvsVars, hvsOn, size, pvOn, screen, background,
                 latched>>

-----------------------------------------------------------------------------
(* cmd_dpi_start has these steps of its own. *)

DoDpi(step) == Do(step) /\ UNCHANGED <<vars, hvsOn, size, pvOn, screen, background, latched, intOn>>

(* The rows and columns of the gradient are exchanged: of a frame that is  *)
(* higher than wide, the rows behind its width are not painted.            *)
Paint ==
  /\ DoDpi("paint")
  /\ lit' = {p \in lit : p \div DpiWidth >= DpiWidth}
  /\ UNCHANGED <<dpiClock, pinsOn, updater, count2, moves>>

(* The clock is killed, and enabled; each is waited for.                   *)
SetClock(step, on) ==
  /\ DoDpi(step)
  /\ ~dpiClock.busy
  /\ dpiClock' = [on |-> on, busy |-> TRUE]
  /\ UNCHANGED <<pinsOn, updater, count2, lit, moves>>

ClockSet ==
  /\ DoDpi("clockSet")
  /\ ~dpiClock.busy
  /\ UNCHANGED <<dpiClock, pinsOn, updater, count2, lit, moves>>

(* The control word; then one pin after the other is given to the DPI.     *)
GivePins ==
  /\ DoDpi("pins")
  /\ pinsOn' = TRUE
  /\ UNCHANGED <<dpiClock, updater, count2, lit, moves>>

DpiStart == Paint \/ SetClock("killClock", FALSE) \/ SetClock("enableClock", TRUE) \/ ClockSet \/ GivePins

BringUp ==
  \/ HvsOff \/ HvsOn \/ ChannelsOff \/ WipeDisplaylist \/ SetupPixelvalve \/ ConfigureChannel
  \/ AddPlane("plane", UnityWords) \/ AddPlane("scaled", ScaledWords) \/ End1 \/ PublishList
  \/ SetBackground \/ ReadScreen \/ Scramble \/ QuietPv \/ EnableInterrupt
  \/ DpiStart

-----------------------------------------------------------------------------
(* The timer that paints the frame of the DPI, and its commands. *)

(* A timer that runs is set up anew, with the function it calls now.       *)
SetUpdater(what) ==
  /\ output = "dpi" /\ IsUp
  /\ updater' = what
  /\ UNCHANGED <<listVars, upd, spriteVars, cmd, hvsVars, pending, upVars, output, dpiClock, pinsOn,
                 count2, lit, moves>>

(* stage2_entry calls cmd_dpi_move behind cmd_dpi_start.                   *)
Stage2Moves == updater = "none" /\ typed = 0 /\ SetUpdater("move") /\ UNCHANGED typed

(* dpi_move and dpi_count are typed, or dpi_start again. *)
DpiCommand ==
  /\ typed < MaxCommands /\ typed' = typed + 1
  /\ SetUpdater("move") \/ SetUpdater("count")

DpiAgain ==
  /\ output = "dpi" /\ IsUp
  /\ typed < MaxCommands /\ typed' = typed + 1
  /\ bring' = 1
  /\ UNCHANGED <<listVars, upd, spriteVars, cmd, hvsVars, pending, hvsOn, size, pvOn, screen, background,
                 latched, intOn, dpiVars>>

Fires(what) ==
  /\ updater = what
  /\ moves < MaxMoves /\ moves' = moves + 1
  /\ UNCHANGED <<vars, upVars, output, dpiClock, pinsOn, updater>>

(* Mutant: the pixel goes on and stays white behind it. *)
MoverLeavesTrail ==
  /\ Fires("move")
  /\ count2' = (count2 + 1) % (DpiWidth * DpiHeight)
  /\ lit' = lit \cup {count2'}

(* The pixel is painted black, and the next one white. *)
Mover ==
  /\ Fires("move")
  /\ count2' = (count2 + 1) % (DpiWidth * DpiHeight)
  /\ lit' = (lit \ {count2}) \cup {count2'}

(* All pixels get one colour. *)
Updater ==
  /\ Fires("count")
  /\ lit' = {}
  /\ UNCHANGED count2

DpiTimer == Mover \/ Updater

ClockSettles ==
  /\ dpiClock.busy
  /\ dpiClock' = [dpiClock EXCEPT !.busy = FALSE]
  /\ UNCHANGED <<vars, upVars, output, pinsOn, updater, count2, lit, moves>>

-----------------------------------------------------------------------------
(* The hardware, and what follows. *)

Shows == hvsOn /\ size # 0 /\ pvOn

VideoFrame == Shows /\ FrameStart /\ UNCHANGED <<upVars, dpiVars>>

(* The frame's end is latched; it is an interrupt if that is enabled.      *)
VideoFrameShown ==
  /\ scanning /\ ~pending /\ upd["irq"].pc = "idle"
  /\ scanning' = FALSE /\ active' = {}
  /\ latched' = TRUE /\ pending' = intOn
  /\ UNCHANGED <<listVars, upd, spriteVars, cmdVars, frame, bring, hvsOn, size, pvOn, screen,
                 background, intOn, dpiVars>>

VideoIrq ==
  /\ PvIrq
  /\ latched' = FALSE
  /\ UNCHANGED <<bring, hvsOn, size, pvOn, screen, background, intOn, dpiVars>>

VideoUpdate == IrqStep /\ UNCHANGED <<upVars, dpiVars>>

(* "u" is typed to a shell that starts after the init hooks.               *)
VideoConsole ==
  /\ output = "vec" /\ IsUp
  /\ UpdateCommand \/ UpdateCommandStep
  /\ UNCHANGED <<upVars, dpiVars>>

(* An earlier image may have left the scaler showing a list of its own,    *)
(* and any list's address.  None before stage2 uses the valve of the DPI.  *)
VideoInit ==
  /\ mem \in {[w \in Slots |-> End], [w \in Slots |-> Body]}
  /\ slot = 0 /\ displist \in Slots
  /\ upd = [who \in Callers |-> Idle] /\ clash = "none"
  /\ limit = 2 /\ delay = 0 /\ sprite = [x |-> 0, xd |-> 0]
  /\ cmd = "none" /\ typed = 0
  /\ frame = 0 /\ active = {} /\ scanning = FALSE /\ pending = FALSE
  /\ output \in {"vec", "dpi"}
  /\ bring = 1 /\ hvsOn \in BOOLEAN /\ size \in {0, Width}
  /\ pvOn \in BOOLEAN /\ latched \in BOOLEAN /\ (output = "dpi" => ~pvOn /\ ~latched)
  /\ screen = 0 /\ background = FALSE /\ intOn = FALSE
  /\ dpiClock = [on |-> FALSE, busy |-> FALSE] /\ pinsOn = FALSE
  /\ updater = "none" /\ count2 = 0 /\ lit = {} /\ moves = 0

VideoNext ==
  \/ BringUp \/ VideoFrame \/ VideoFrameShown \/ VideoIrq \/ VideoUpdate \/ VideoConsole
  \/ Stage2Moves \/ DpiCommand \/ DpiAgain \/ DpiTimer \/ ClockSettles

(* vec_init or cmd_dpi_start is called and returns; interrupts are taken;  *)
(* frames go on, and the clock settles.                                    *)
VideoFairness ==
  /\ WF_allVars(BringUp) /\ WF_allVars(ClockSettles) /\ WF_allVars(VideoIrq) /\ WF_allVars(VideoUpdate)
  /\ WF_allVars(VideoFrame) /\ WF_allVars(VideoFrameShown)

VideoSpec == VideoInit /\ [][VideoNext]_allVars /\ VideoFairness

-----------------------------------------------------------------------------
(* Once the bring-up has turned off what was on, the scaler, its channel   *)
(* and the pixel valve are all on only while what the channel shows is a   *)
(* list, whatever it and the memory held before: until the first command,  *)
(* which may spoil the list.                                               *)
ShownOnceOn == Shows /\ bring > 3 /\ typed = 0 => IsList[displist]

(* No word is changed of a list that is being shown: not by the wipe       *)
(* either, nor by the lists of the bring-up.                               *)
UntornFromStart ==
  [][scanning /\ scanning' /\ typed' = 0 => \A w \in active : mem'[w] = mem[w]]_allVars

(* The moving pixel leaves nothing behind, whichever of its commands come  *)
(* in between, one after the other.                                        *)
NoTrail == lit \subseteq {count2}
=============================================================================
