------------------------------- MODULE Sdram ---------------------------------
(***************************************************************************)
(* Bringing up the LPDDR2 memory: sdram_init and what it calls             *)
(* (platform/bcm28xx/rpi-ddr2/sdram.c), and the hook that runs it and then *)
(* gives the memory to the allocator (rpi-ddr2/autoram/autoram.c).         *)
(*                                                                         *)
(* It is one straight program: the controller is brought up on the slow    *)
(* crystal clock to calibrate and to ask the memory for its size, taken    *)
(* down, and brought up again on the DDR PLL with timings for that size.   *)
(* Program names its steps in their order; most wait for some hardware,    *)
(* and none of these waits gives up.                                       *)
(*                                                                         *)
(* The hardware (the clock manager's SDC clock, the controller SDC, the    *)
(* PHY with its DLLs, the DDR PLL, the memory's mode registers) is         *)
(* modelled from how the driver uses it: each unit answers some time after *)
(* it has been asked.                                                      *)
(***************************************************************************)
EXTENDS Naturals, Sequences

CONSTANTS
  Chips,        (* the memories there may be: their sizes in MB *)
  MaxTimeouts   (* bound: mode register commands the memory does not answer *)

ASSUME SdramAssumption ==
  /\ Chips \subseteq Nat \ {0} /\ MaxTimeouts \in Nat

VARIABLES
  sdPc,     (* sdram_init's place in Program; Len(Program) + 1 when it is done *)
  sdPanic,  (* has it panicked? *)
  mrPc,     (* the place in MrProgram *)
  sdSize,   (* g_RAMSize: in MB, 0 for unknown *)
  timing,   (* what the timing registers hold: see Geometry *)
  tested,   (* the places that the self test has tested, in MB *)
  arena,    (* the memory the allocator has got, in MB: from and up to *)
  cm,       (* CM_SDCCTL: the fields UPDATE, ACCPT, CTRL, SRC, ENAB, BUSY *)
  sdc,      (* SD_CS: is the controller to run, and is it up (SDUP)? *)
  phy,      (* the PHY: its owner, are the DLLs in reset, are they locked? *)
  ddr,      (* the DDR PLL: is it in reset, is its divider, is it locked? *)
  mr,       (* SD_MR: the command that was given, DONE and TIMEOUT *)
  mrt,      (* SD_MRT: the time mode register commands are given *)
  chip,     (* the memory that is there: its size in MB *)
  timeouts  (* commands not answered so far *)

sdDriver == <<sdPc, sdPanic, mrPc, sdSize, timing, tested, arena>>
sdHard   == <<cm, sdc, phy, ddr, mr, mrt>>
sdVars   == <<sdDriver, sdHard, chip, timeouts>>

(* sdram_init, with its calls to init_clkman, reset_phy, reset_with_timing *)
(* and reset_phy_dll written out, and behind it the hook.                  *)
Program ==
  <<"source", "busy", "begin", "ctrl0", "end",
    "dllReset", "dllLock", "dllOwn", "start", "up", "modes", "size",
    "standby", "down", "begin", "disable", "end",
    "pllStart", "pllLock", "begin", "ctrl4", "end",
    "timing", "dllReset", "dllLock", "addrLock", "dllOwn", "restart", "test", "arena">>

SdStep(s) ==
  /\ ~sdPanic /\ sdPc <= Len(Program) /\ Program[sdPc] = s
  /\ UNCHANGED <<chip, timeouts>>

Forth == sdPc' = sdPc + 1 /\ UNCHANGED <<sdPanic, mrPc, sdSize, timing, tested, arena>>

Panic == sdPanic' = TRUE /\ UNCHANGED <<sdPc, mrPc, sdSize, timing, tested, arena>>

(* A step that only waits. *)
Await(s, ready) == SdStep(s) /\ ready /\ Forth /\ UNCHANGED sdHard

-----------------------------------------------------------------------------
(* The clock. *)

(* switch_to_cprman_clock: source and divider, then ENAB.                  *)
SdSource ==
  /\ SdStep("source") /\ Forth
  /\ cm' = [cm EXCEPT !.src = "osc", !.enab = TRUE]
  /\ UNCHANGED <<sdc, phy, ddr, mr, mrt>>

SdBusy == Await("busy", cm.busy)

(* clkman_update_begin: UPDATE is set, and ACCPT must follow ...           *)
UpdateBegin ==
  /\ SdStep("begin")
  /\ IF cm.update
     THEN cm.accpt /\ Forth /\ UNCHANGED cm
     ELSE cm' = [cm EXCEPT !.update = TRUE] /\ UNCHANGED sdDriver
  /\ UNCHANGED <<sdc, phy, ddr, mr, mrt>>

(* ... and clkman_update_end: both are cleared again.                      *)
UpdateEnd ==
  /\ SdStep("end")
  /\ IF cm.update
     THEN cm' = [cm EXCEPT !.update = FALSE] /\ UNCHANGED sdDriver
     ELSE ~cm.accpt /\ Forth /\ UNCHANGED cm
  /\ UNCHANGED <<sdc, phy, ddr, mr, mrt>>

(* CTRL selects what drives the memory: 0 with the crystal (init_clkman),  *)
(* 4 with the DDR PLL.                                                     *)
SdCtrl(s, value) ==
  /\ SdStep(s) /\ Forth
  /\ cm' = [cm EXCEPT !.ctrl = value]
  /\ UNCHANGED <<sdc, phy, ddr, mr, mrt>>

InitClkman == SdCtrl("ctrl0", 0)

CtrlDdr == SdCtrl("ctrl4", 4)

SdDisable ==
  /\ SdStep("disable") /\ Forth
  /\ cm' = [cm EXCEPT !.ctrl = 0, !.enab = FALSE]
  /\ UNCHANGED <<sdc, phy, ddr, mr, mrt>>

(* The DDR PLL is set up, and taken out of reset; when it has locked, its  *)
(* divider is too.                                                         *)
DdrStart ==
  /\ SdStep("pllStart") /\ Forth
  /\ ddr' = [reset |-> FALSE, divider |-> FALSE, lock |-> FALSE]
  /\ UNCHANGED <<cm, sdc, phy, mr, mrt>>

DdrLocked ==
  /\ SdStep("pllLock") /\ ddr.lock /\ Forth
  /\ ddr' = [ddr EXCEPT !.divider = TRUE]
  /\ UNCHANGED <<cm, sdc, phy, mr, mrt>>

-----------------------------------------------------------------------------
(* The PHY. *)

(* reset_phy and reset_phy_dll: the address lines are taken from the       *)
(* controller, and the DLLs go through a reset.                            *)
DllReset ==
  /\ SdStep("dllReset") /\ Forth
  /\ phy' = [owner |-> "driver", data |-> FALSE, addr |-> FALSE]
  /\ UNCHANGED <<cm, sdc, ddr, mr, mrt>>

DllLocked == Await("dllLock", phy.data)

AddrLocked == Await("addrLock", phy.addr)

(* The lines go back to the controller. *)
DllDone ==
  /\ SdStep("dllOwn") /\ Forth
  /\ phy' = [phy EXCEPT !.owner = "controller"]
  /\ UNCHANGED <<cm, sdc, ddr, mr, mrt>>

-----------------------------------------------------------------------------
(* The controller. *)

NoTiming    == <<>>
MagicTiming == <<0, 0, 0>>

(* The first timings, and the controller is enabled. *)
SdStart ==
  /\ SdStep("start")
  /\ timing' = MagicTiming /\ mrt' = "short"
  /\ sdc' = [sdc EXCEPT !.run = TRUE]
  /\ sdPc' = sdPc + 1
  /\ UNCHANGED <<sdPanic, mrPc, sdSize, tested, arena, cm, phy, ddr, mr>>

SdUp == Await("up", sdc.up)

SdStandby ==
  /\ SdStep("standby") /\ Forth
  /\ sdc' = [sdc EXCEPT !.run = FALSE]
  /\ UNCHANGED <<cm, phy, ddr, mr, mrt>>

(* Mutant: the clock goes while the controller is still up.                *)
SdDownAtOnce == Await("down", TRUE)

SdDown == Await("down", ~sdc.up)

(* The geometry that sdram_init puts into g_InitSdramParameters: colbits,  *)
(* rowbits, banklow.                                                       *)
Geometry(size) ==
  CASE size = 1024 -> <<3, 3, 3>>
    [] size = 512  -> <<2, 2, 2>>
    [] OTHER       -> <<1, 2, 2>>

(* The timing registers of reset_with_timing. *)
SdTiming ==
  /\ SdStep("timing")
  /\ timing' = Geometry(sdSize) /\ mrt' = "short"
  /\ sdPc' = sdPc + 1
  /\ UNCHANGED <<sdPanic, mrPc, sdSize, tested, arena, cm, sdc, phy, ddr, mr>>

(* The controller starts again; nobody waits for it to come up.            *)
SdRestart ==
  /\ SdStep("restart") /\ Forth
  /\ sdc' = [sdc EXCEPT !.run = TRUE]
  /\ UNCHANGED <<cm, phy, ddr, mr, mrt>>

-----------------------------------------------------------------------------
(* The mode registers.  A command may be given when the last is done; some *)
(* are waited for, and of these some must have been answered.              *)

ModeCommand(what, wait, must) == [what |-> what, wait |-> wait, must |-> must]

(* The commands of sdram_init and calibrate_pvt_early; "phy" stands for    *)
(* the calibration of the PHY between them.                                *)
MrProgram ==
  <<ModeCommand("feature2", FALSE, FALSE), ModeCommand("unknown", TRUE, TRUE),
    ModeCommand("feature2", TRUE, TRUE), ModeCommand("phy", TRUE, FALSE),
    ModeCommand("calibrate", TRUE, FALSE), ModeCommand("config", FALSE, FALSE), ModeCommand("vendor", TRUE, TRUE),
    ModeCommand("metrics", TRUE, TRUE)>>

Command == MrProgram[mrPc]

(* Has the command been given that is at mrPc? *)
Given == mr.at = mrPc

MrIdle == mr.done

(* The command is given.  The one for calibration gets a time of its own,  *)
(* and does not wait.                                                      *)
MrGive ==
  /\ SdStep("modes") /\ mrPc <= Len(MrProgram) /\ ~Given /\ Command.what # "phy"
  /\ Command.what = "calibrate" \/ MrIdle
  /\ mr' = [at |-> mrPc, done |-> FALSE, timeout |-> FALSE]
  /\ mrt' = IF Command.what = "calibrate" THEN "long" ELSE mrt
  /\ UNCHANGED <<sdDriver, cm, sdc, phy, ddr>>

(* write_mr, read_mr: the next command, or a panic without an answer.      *)
MrNext ==
  /\ SdStep("modes") /\ mrPc <= Len(MrProgram) /\ Given
  /\ Command.wait => mr.done
  /\ IF Command.wait /\ Command.must /\ mr.timeout
     THEN Panic
     ELSE mrPc' = mrPc + 1 /\ UNCHANGED <<sdPc, sdPanic, sdSize, timing, tested, arena>>
  /\ mrt' = IF Command.what = "calibrate" THEN "short" ELSE mrt
  /\ UNCHANGED <<cm, sdc, phy, ddr, mr>>

(* The PHY is taken for its calibration, and given back when it is over.   *)
PhyCalibrate ==
  /\ SdStep("modes") /\ mrPc <= Len(MrProgram) /\ Command.what = "phy"
  /\ IF phy.owner = "controller"
     THEN phy' = [phy EXCEPT !.owner = "calibration"] /\ UNCHANGED sdDriver
     ELSE /\ phy.owner = "calibrated"
          /\ phy' = [phy EXCEPT !.owner = "controller"]
          /\ mrPc' = mrPc + 1
          /\ UNCHANGED <<sdPc, sdPanic, sdSize, timing, tested, arena>>
  /\ UNCHANGED <<cm, sdc, ddr, mr, mrt>>

MrEnd ==
  /\ SdStep("modes") /\ mrPc > Len(MrProgram) /\ Forth
  /\ UNCHANGED sdHard

(* Mutant: the test for 512 MB stands for 1024 MB. *)
SizeDoubled(mb) == IF mb = 512 THEN 1024 ELSE IF mb \in {1024, 256, 128} THEN mb ELSE 0

(* lpddr2_size knows four answers. *)
KnownSize(mb) == IF mb \in {1024, 512, 256, 128} THEN mb ELSE 0

SdSize ==
  /\ SdStep("size")
  /\ sdSize' = KnownSize(chip)
  /\ IF sdSize' = 0
     THEN sdPanic' = TRUE /\ UNCHANGED sdPc
     ELSE sdPc' = sdPc + 1 /\ UNCHANGED sdPanic
  /\ UNCHANGED <<mrPc, timing, tested, arena, sdHard>>

-----------------------------------------------------------------------------
(* The self test.  An access waits on the bus until the controller is up.  *)

(* The places that selftest tests, its cases falling through.              *)
Places(size) ==
  (IF size = 1024 THEN <<1023, 767>> ELSE <<>>)
    \o (IF size >= 512 THEN <<511>> ELSE <<>>)
    \o (IF size >= 256 THEN <<255>> ELSE <<>>)
    \o <<0>>

TestOne ==
  /\ SdStep("test") /\ Len(tested) < Len(Places(sdSize)) /\ sdc.up
  /\ tested' = Append(tested, Places(sdSize)[Len(tested) + 1])
  /\ sdPanic' \in BOOLEAN
  /\ UNCHANGED <<sdPc, mrPc, sdSize, timing, arena, sdHard>>

TestEnd == Await("test", Len(tested) = Len(Places(sdSize)))

(* autoram_dram_init: ten megabytes from the first one on.                 *)
AddArena ==
  /\ SdStep("arena")
  /\ arena' = [from |-> 1, upto |-> 11]
  /\ sdPc' = sdPc + 1
  /\ UNCHANGED <<sdPanic, mrPc, sdSize, timing, tested, sdHard>>

-----------------------------------------------------------------------------
(* The hardware. *)

Answers(units) == UNCHANGED <<sdDriver, chip, units>>

CmAnswers ==
  /\ \/ cm.accpt # cm.update /\ cm' = [cm EXCEPT !.accpt = cm.update]
     \/ cm.busy # cm.enab /\ cm' = [cm EXCEPT !.busy = cm.enab]
  /\ Answers(<<sdc, phy, ddr, mr, mrt, timeouts>>)

SdcAnswers ==
  /\ sdc.up # sdc.run /\ sdc' = [sdc EXCEPT !.up = sdc.run]
  /\ Answers(<<cm, phy, ddr, mr, mrt, timeouts>>)

DllsLock ==
  /\ phy.owner = "driver"
  /\ \/ ~phy.data /\ phy' = [phy EXCEPT !.data = TRUE]
     \/ ~phy.addr /\ phy' = [phy EXCEPT !.addr = TRUE]
  /\ Answers(<<cm, sdc, ddr, mr, mrt, timeouts>>)

PhyCalibrated ==
  /\ phy.owner = "calibration" /\ phy' = [phy EXCEPT !.owner = "calibrated"]
  /\ Answers(<<cm, sdc, ddr, mr, mrt, timeouts>>)

DdrLocks ==
  /\ ~ddr.reset /\ ~ddr.lock /\ ddr' = [ddr EXCEPT !.lock = TRUE]
  /\ Answers(<<cm, sdc, phy, mr, mrt, timeouts>>)

MrAnswers ==
  /\ ~mr.done
  /\ \/ mr' = [mr EXCEPT !.done = TRUE] /\ UNCHANGED timeouts
     \/ /\ timeouts < MaxTimeouts /\ timeouts' = timeouts + 1
        /\ mr' = [mr EXCEPT !.done = TRUE, !.timeout = TRUE]
  /\ Answers(<<cm, sdc, phy, ddr, mrt>>)

-----------------------------------------------------------------------------
SdInit ==
  /\ sdPc = 1 /\ sdPanic = FALSE /\ mrPc = 1 /\ sdSize = 0 /\ timing = NoTiming
  /\ tested = <<>> /\ arena = [from |-> 0, upto |-> 0]
  /\ cm \in {[update |-> FALSE, accpt |-> FALSE, ctrl |-> c, src |-> "gnd",
              enab |-> FALSE, busy |-> FALSE] : c \in {0, 4}}
  /\ sdc = [run |-> FALSE, up |-> FALSE]
  /\ phy = [owner |-> "controller", data |-> FALSE, addr |-> FALSE]
  /\ ddr = [reset |-> TRUE, divider |-> FALSE, lock |-> FALSE]
  /\ mr = [at |-> 0, done |-> TRUE, timeout |-> FALSE] /\ mrt = "short"
  /\ chip \in Chips /\ timeouts = 0

SdDriver ==
  \/ SdSource \/ SdBusy \/ UpdateBegin \/ UpdateEnd \/ InitClkman \/ CtrlDdr \/ SdDisable
  \/ DdrStart \/ DdrLocked \/ DllReset \/ DllLocked \/ AddrLocked \/ DllDone
  \/ SdStart \/ SdUp \/ SdStandby \/ SdDown \/ SdTiming \/ SdRestart
  \/ MrGive \/ MrNext \/ PhyCalibrate \/ MrEnd \/ SdSize \/ TestOne \/ TestEnd \/ AddArena

SdHardware == CmAnswers \/ SdcAnswers \/ DllsLock \/ PhyCalibrated \/ DdrLocks \/ MrAnswers

SdNext == SdDriver \/ SdHardware

SdSpec == SdInit /\ [][SdNext]_sdVars

-----------------------------------------------------------------------------
(* The bits of CM_SDCCTL, of SD_CS, of the resets and locks in the PHY and  *)
(* of the DDR PLL's registers, and of SD_MR that the driver sets or reads. *)
SdClock == [update : BOOLEAN, accpt : BOOLEAN, ctrl : {0, 4}, src : {"gnd", "osc"},
            enab : BOOLEAN, busy : BOOLEAN]

SdControl == [run : BOOLEAN, up : BOOLEAN]

SdPhy == [owner : {"driver", "controller", "calibration", "calibrated"}, data : BOOLEAN, addr : BOOLEAN]

DdrPll == [reset : BOOLEAN, divider : BOOLEAN, lock : BOOLEAN]

ModeRegister == [at : 0..Len(MrProgram), done : BOOLEAN, timeout : BOOLEAN]

(* lpddr2_timings_t: what differs between the memories.                    *)
Timings == {NoTiming, MagicTiming} \cup {Geometry(s) : s \in {128, 512, 1024}}

SdTypeOK ==
  /\ sdPc \in 1..(Len(Program) + 1) /\ sdPanic \in BOOLEAN
  /\ mrPc \in 1..(Len(MrProgram) + 1)
  /\ sdSize \in {0, 128, 256, 512, 1024}
  /\ timing \in Timings
  /\ tested \in Seq(Nat) /\ arena \in [from : Nat, upto : Nat]
  /\ cm \in SdClock /\ sdc \in SdControl /\ phy \in SdPhy /\ ddr \in DdrPll
  /\ mr \in ModeRegister /\ mrt \in {"short", "long"}
  /\ chip \in Chips /\ timeouts \in 0..MaxTimeouts

(* Nothing changes under a unit at work: CTRL changes only with the clock  *)
(* manager's consent; CTRL, the source and the DDR PLL's reset only while  *)
(* the controller is down; and a mode register command, the time for one,  *)
(* and who has the address lines, only when the last command is done.      *)
QuietChanges ==
  [][ /\ cm'.ctrl # cm.ctrl => cm.update /\ cm.accpt
      /\ <<cm'.ctrl, cm'.src, cm'.enab, ddr'.reset>> # <<cm.ctrl, cm.src, cm.enab, ddr.reset>>
           => ~sdc.up
      /\ mr'.at # mr.at \/ mrt' # mrt \/ phy'.owner # phy.owner => mr.done ]_sdVars

(* The memory is accessed with the DDR PLL and the DLLs locked, CTRL on    *)
(* the PLL, and the timings for its size; no place is tested, and none is  *)
(* given to the allocator, that the memory there does not have.            *)
RamIsReady ==
  tested # <<>> =>
    /\ ddr.lock /\ ddr.divider /\ cm.ctrl = 4
    /\ phy = [owner |-> "controller", data |-> TRUE, addr |-> TRUE]
    /\ timing = Geometry(chip)
    /\ \A i \in 1..Len(tested) : tested[i] < chip
    /\ arena.upto <= chip
=============================================================================
