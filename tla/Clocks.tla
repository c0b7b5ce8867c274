------------------------------- MODULE Clocks --------------------------------
(***************************************************************************)
(* The clocks of the VPU: switch_vpu_to_pllc (platform/bcm28xx/platform.c),*)
(* with which every image of the firmware begins, and the driver for the   *)
(* PLLs under it (platform/bcm28xx/pll), in the variant for boards before  *)
(* the Raspberry Pi 4.                                                     *)
(*                                                                         *)
(* A PLL multiplies the crystal's frequency by a fixed point number; a     *)
(* prescaler before its divider doubles it.  The VPU takes its clock from  *)
(* the crystal or from PLLC.  Images are loaded one by the other, so PLLC  *)
(* may be running, and the VPU on it, when it is set up.                   *)
(*                                                                         *)
(* The PLLs and the switch are hardware, modelled from how the code uses   *)
(* them: the switch takes some time to follow its register, and a PLL some *)
(* time to lock, and any new setting loses the lock.                       *)
(***************************************************************************)
EXTENDS Integers

CONSTANTS
  Xtal,        (* xtal_freq: 19200000 *)
  FracUnit,    (* the fixed point of the multiplier: 2^20 *)
  Limit,       (* a PLL above it needs the prescaler: 1750 MHz *)
  PllcFreq,    (* what PLLC is set to: 1728 MHz *)
  PllbDiv,     (* the multiplier PLLB has when the ARM is started *)
  Freqs,       (* bound: the frequencies somebody asks for, 0 for off *)
  NumClocks,   (* clocks that measure_clocks goes through: 43 *)
  MaxSets,     (* bound: such requests, and for measurements *)
  MaxNoLock,   (* bound: how often a PLL does not lock in time *)
  MaxImages    (* bound: images loaded *)

ASSUME ClocksAssumption ==
  /\ Xtal \in Nat \ {0} /\ FracUnit \in Nat \ {0} /\ Limit \in Nat
  /\ PllcFreq \in Nat /\ PllbDiv \in Nat /\ Freqs \subseteq Nat
  /\ NumClocks \in Nat \ {0} /\ MaxSets \in Nat /\ MaxNoLock \in Nat /\ MaxImages \in Nat

VARIABLES
  clkPc,    (* switch_vpu_to_pllc: "idle", or its next step *)
  setPc,    (* set_pll_freq: "idle", or its next step *)
  set,      (* its local variables *)
  setResult,(* what it returned last *)
  pllB,     (* the registers of PLLB and the PLL behind them *)
  pllC,
  vpu,      (* CM_VPUCTL, and the source that the VPU's clock has *)
  tcnt,     (* the counter that measures clocks: what it counts, if it does,
               and the clocks still to be measured *)
  images,   (* images so far, for the bound *)
  sets,     (* requests so far, for the bound *)
  noLocks   (* how often a PLL has not locked in time so far *)

clockVars == <<clkPc, setPc, set, setResult, pllB, pllC, vpu, tcnt, images, sets, noLocks>>

(* The taps of PLLC, and the one of PLLB. *)
PllcTaps == {"core0", "core1", "core2", "per"}
Taps     == PllcTaps \cup {"arm"}

Pll == [power : BOOLEAN, reset : BOOLEAN, started : BOOLEAN, prescaled : BOOLEAN,
        div : Nat, held : SUBSET Taps, loaded : SUBSET Taps, lock : BOOLEAN]

(* CM_VPUCTL: the source that is selected, and the one the clock has.      *)
VpuClock == [ctl : {"osc", "pllc"}, src : {"osc", "pllc"}, enabled : BOOLEAN]

(* The clocks that clock_names has, and room for the others between them.  *)
MeasuredClocks == 0..(NumClocks - 1)

PllOff == [power |-> FALSE, reset |-> TRUE, started |-> FALSE, prescaled |-> FALSE,
           div |-> 0, held |-> {}, loaded |-> {}, lock |-> FALSE]

-----------------------------------------------------------------------------
(* setup_pllc and its caller. *)

(* A step of switch_vpu_to_pllc. *)
Step(from, to) == clkPc = from /\ clkPc' = to /\ UNCHANGED <<setPc, set, setResult, pllB, sets, noLocks>>

(* CM_VPUCTL has a new source, and is busy until the clock has it too.     *)
Select(src) == vpu' = [vpu EXCEPT !.ctl = src]
Busy        == vpu.ctl # vpu.src

(* An image begins.  switch_vpu_to_src: the VPU goes to the crystal ...    *)
ToOsc ==
  /\ setPc = "idle" /\ images < MaxImages /\ images' = images + 1
  /\ Step("idle", "toOsc")
  /\ Select("osc")
  /\ UNCHANGED <<pllC, tcnt>>

(* Mutant: nobody waits. *)
OnOscAtOnce ==
  /\ Step("toOsc", "reset")
  /\ UNCHANGED <<vpu, pllC, tcnt, images>>

(* ... and setup_pllc begins when it is there. *)
OnOsc ==
  /\ Step("toOsc", "reset")
  /\ ~Busy
  /\ UNCHANGED <<vpu, pllC, tcnt, images>>

ResetPllc ==
  /\ Step("reset", "multiply")
  /\ pllC' = [pllC EXCEPT !.reset = TRUE, !.held = {}, !.lock = FALSE]
  /\ UNCHANGED <<vpu, tcnt, images>>

(* The multiplier for half the frequency, rounded down; the prescaler is   *)
(* always on.                                                              *)
PllcDiv == ((PllcFreq \div 2) * FracUnit) \div Xtal

MultiplyPllc ==
  /\ Step("multiply", "hold")
  /\ pllC' = [pllC EXCEPT !.power = TRUE, !.started = FALSE, !.prescaled = TRUE,
                          !.div = PllcDiv, !.lock = FALSE]
  /\ UNCHANGED <<vpu, tcnt, images>>

(* Out of reset, with all taps held, the digital part is started.          *)
HoldPllc ==
  /\ Step("hold", "load")
  /\ pllC' = [pllC EXCEPT !.reset = FALSE, !.held = PllcTaps, !.started = TRUE]
  /\ UNCHANGED <<vpu, tcnt, images>>

(* The dividers of two taps are written; that of CORE0 is loaded.          *)
LoadPllc ==
  /\ Step("load", "release")
  /\ pllC' = [pllC EXCEPT !.loaded = @ \cup {"core0"}]
  /\ UNCHANGED <<vpu, tcnt, images>>

ReleasePllc ==
  /\ Step("release", "lock")
  /\ pllC' = [pllC EXCEPT !.held = {"core1", "core2"}]
  /\ UNCHANGED <<vpu, tcnt, images>>

(* The wait for the lock has no end of its own.  Behind it the fraction is *)
(* written again, with the value that it has.                              *)
Locked ==
  /\ Step("lock", "gate")
  /\ pllC.lock
  /\ UNCHANGED <<vpu, pllC, tcnt, images>>

(* The VPU's clock gets its divider, then its source, then it is enabled.  *)
GateVpu ==
  /\ Step("gate", "source")
  /\ vpu' = [vpu EXCEPT !.ctl = "osc", !.enabled = FALSE]
  /\ UNCHANGED <<pllC, tcnt, images>>

SourceVpu ==
  /\ Step("source", "enable")
  /\ Select("pllc")
  /\ UNCHANGED <<pllC, tcnt, images>>

EnableVpu ==
  /\ Step("enable", "measure")
  /\ vpu' = [vpu EXCEPT !.enabled = TRUE]
  /\ UNCHANGED <<pllC, tcnt, images>>

(* measure_clock: the counter is killed, and counts the VPU's clock; then  *)
(* the two waits.                                                          *)
Counts(clock, more) == tcnt' = [mux |-> clock, counting |-> TRUE, more |-> more]

MeasureVpu ==
  /\ Step("measure", "counted")
  /\ Counts("vpu", 0)
  /\ UNCHANGED <<vpu, pllC, images>>

(* measure_clocks goes on to the next. *)
Measured ==
  /\ ~tcnt.counting
  /\ IF tcnt.more = 0 THEN Step("counted", "idle") /\ UNCHANGED tcnt
                      ELSE Step("counted", "counted") /\ Counts(tcnt.mux, tcnt.more - 1)
  /\ UNCHANGED <<vpu, pllC, images>>

(* dump_uart_state asks for the UART's clock twice: to print it, and to    *)
(* print the divisor.                                                      *)
UartDump == 2

(* The commands: measure_clock one clock, measure_clocks all of them.      *)
Measurements == {1, UartDump, NumClocks}

MeasureCommand ==
  /\ clkPc = "idle" /\ setPc = "idle" /\ clkPc' = "counted"
  /\ sets < MaxSets /\ sets' = sets + 1
  /\ \E n \in Measurements : Counts("typed", n - 1)
  /\ UNCHANGED <<setPc, set, setResult, pllB, pllC, vpu, images, noLocks>>

(* get_pll_chan_freq: the table of the PLLs' channels is compiled with no  *)
(* entries, so that it finds no divider.                                   *)
PllChanFreq == 0

(* clk_get_input_freq, for the two sources the VPU's clock may have.       *)
ClkInputFreq == IF vpu.ctl = "osc" THEN Xtal ELSE PllChanFreq

(* CM_VPUDIV, as switch_vpu_to_pllc has written it, in units of 2^-12.     *)
VpuDiv == 4096

(* clk_get_freq, and so get_vpu_per_freq; the divisor is not zero.         *)
ClkFreq == (ClkInputFreq * 4096) \div VpuDiv

SwitchVpu ==
  \/ ToOsc \/ OnOsc \/ ResetPllc \/ MultiplyPllc \/ HoldPllc \/ LoadPllc \/ ReleasePllc
  \/ Locked \/ GateVpu \/ SourceVpu \/ EnableVpu \/ MeasureVpu \/ Measured

-----------------------------------------------------------------------------
(* set_pll_freq for PLLB, the one PLL whose registers pll_def has. *)

Setting(from, to) == setPc = from /\ setPc' = to /\ UNCHANGED <<clkPc, pllC, vpu, tcnt, images>>

(* The multiplier for a frequency, rounded, and halved when the prescaler  *)
(* is to be used.                                                          *)
Multiplier(f) ==
  LET div == (f * FracUnit + Xtal \div 2) \div Xtal
  IN  IF f > Limit THEN (div + 1) \div 2 ELSE div

(* get_pll_freq, with the predivider 1. *)
Frequency(pll) == ((IF pll.prescaled THEN 2 * pll.div ELSE pll.div) * Xtal) \div FracUnit

(* Frequency 0 resets the PLL and takes its power. *)
SetOff ==
  /\ Setting("idle", "idle") /\ clkPc = "idle"
  /\ 0 \in Freqs /\ sets < MaxSets /\ sets' = sets + 1
  /\ set' = [set EXCEPT !.freq = 0]
  /\ setResult' = "ok"
  /\ pllB' = [pllB EXCEPT !.reset = TRUE, !.power = FALSE, !.started = FALSE,
                          !.div = 0, !.held = {}, !.lock = FALSE]
  /\ UNCHANGED noLocks

(* Mutant: a PLL counts as off when it has no power. *)
WasUnpowered == ~pllB.power

WasOff == ~pllB.started

SetBegin ==
  /\ Setting("idle", "prescale") /\ clkPc = "idle"
  /\ sets < MaxSets /\ sets' = sets + 1
  /\ \E f \in Freqs \ {0} :
       set' = [freq |-> f, off |-> WasOff, was |-> pllB.prescaled,
               is |-> f > Limit, div |-> Multiplier(f)]
  /\ UNCHANGED <<setResult, pllB, noLocks>>

(* The prescaler is to be turned on before the new multiplier is written.  *)
(* The word for ANA1 has its bit, but is then masked with KI_MASK, where   *)
(* all bits but those are meant: what is written always turns it off.      *)
SetPrescaler ==
  /\ Setting("prescale", "multiply")
  /\ pllB' = IF ~set.was \/ set.is
             THEN [pllB EXCEPT !.prescaled = FALSE, !.lock = FALSE] ELSE pllB
  /\ UNCHANGED <<set, setResult, sets, noLocks>>

SetMultiplier ==
  /\ Setting("multiply", "unscale")
  /\ pllB' = [pllB EXCEPT !.power = TRUE, !.div = set.div, !.lock = FALSE]
  /\ UNCHANGED <<set, setResult, sets, noLocks>>

(* It is turned off behind it.                                             *)
SetUnscaled ==
  /\ Setting("unscale", "lock")
  /\ pllB' = [pllB EXCEPT !.reset = FALSE,
                          !.prescaled = @ /\ ~(set.was /\ ~set.is),
                          !.lock = @ /\ ~(set.was /\ ~set.is)]
  /\ UNCHANGED <<set, setResult, sets, noLocks>>

(* A PLL that was off is started: pll_start. *)
SetLocked ==
  /\ Setting("lock", "idle")
  /\ pllB.lock
  /\ pllB' = IF set.off THEN [pllB EXCEPT !.started = TRUE, !.held = {"arm"}] ELSE pllB
  /\ setResult' = "ok"
  /\ UNCHANGED <<set, sets, noLocks>>

SetNotLocked ==
  /\ Setting("lock", "idle")
  /\ ~pllB.lock /\ noLocks < MaxNoLock /\ noLocks' = noLocks + 1
  /\ setResult' = "failed"
  /\ UNCHANGED <<set, sets, pllB>>

SetPll == SetOff \/ SetBegin \/ SetPrescaler \/ SetMultiplier \/ SetUnscaled \/ SetLocked \/ SetNotLocked

-----------------------------------------------------------------------------
(* The hardware. *)

CanLock(pll) == pll.power /\ ~pll.reset /\ pll.div > 0

LockB ==
  /\ CanLock(pllB) /\ ~pllB.lock
  /\ pllB' = [pllB EXCEPT !.lock = TRUE]
  /\ UNCHANGED <<clkPc, setPc, set, setResult, pllC, vpu, tcnt, images, sets, noLocks>>

LockC ==
  /\ CanLock(pllC) /\ ~pllC.lock
  /\ pllC' = [pllC EXCEPT !.lock = TRUE]
  /\ UNCHANGED <<clkPc, setPc, set, setResult, pllB, vpu, tcnt, images, sets, noLocks>>

FollowSource ==
  /\ Busy
  /\ vpu' = [vpu EXCEPT !.src = vpu.ctl]
  /\ UNCHANGED <<clkPc, setPc, set, setResult, pllB, pllC, tcnt, images, sets, noLocks>>

Counted ==
  /\ tcnt.counting
  /\ tcnt' = [tcnt EXCEPT !.counting = FALSE]
  /\ UNCHANGED <<clkPc, setPc, set, setResult, pllB, pllC, vpu, images, sets, noLocks>>

ClockHardware == LockB \/ LockC \/ FollowSource \/ Counted

-----------------------------------------------------------------------------
ClockInit ==
  /\ clkPc = "idle" /\ setPc = "idle" /\ setResult = "none"
  /\ set = [freq |-> 0, off |-> TRUE, was |-> FALSE, is |-> FALSE, div |-> 0]
  /\ pllB \in {[PllOff EXCEPT !.prescaled = p] : p \in BOOLEAN} /\ pllC = PllOff
  /\ vpu = [ctl |-> "osc", src |-> "osc", enabled |-> TRUE]
  /\ tcnt = [mux |-> "none", counting |-> FALSE, more |-> 0]
  /\ images = 0 /\ sets = 0 /\ noLocks = 0

ClockNext == SwitchVpu \/ SetPll \/ MeasureCommand \/ ClockHardware

ClockSpec == ClockInit /\ [][ClockNext]_clockVars

-----------------------------------------------------------------------------
ClockTypeOK ==
  /\ clkPc \in {"idle", "toOsc", "reset", "multiply", "hold", "load", "release", "lock",
                "gate", "source", "enable", "measure", "counted"}
  /\ setPc \in {"idle", "prescale", "multiply", "unscale", "lock"}
  /\ set \in [freq : Nat, off : BOOLEAN, was : BOOLEAN, is : BOOLEAN, div : Nat]
  /\ setResult \in {"none", "ok", "failed"}
  /\ pllB \in Pll /\ pllC \in Pll
  /\ vpu \in VpuClock
  /\ tcnt \in [mux : {"none", "vpu", "typed"}, counting : BOOLEAN, more : MeasuredClocks]
  /\ images \in 0..MaxImages /\ sets \in 0..MaxSets /\ noLocks \in 0..MaxNoLock

(* While the VPU's clock comes from PLLC, or is about to, PLLC is locked,  *)
(* and its tap CORE0 is loaded and not held: also when an image sets PLLC  *)
(* up again that the one before runs on.                                   *)
VpuOnLockedClock ==
  "pllc" \in {vpu.src, vpu.ctl} =>
    pllC.lock /\ "core0" \in pllC.loaded /\ "core0" \notin pllC.held

Near(a, b, d) == a - b \in (-d)..d

(* What a frequency comes to: above Limit the multiplier is halved, and    *)
(* there is no prescaler to make up for it.                                *)
Reached(f) == IF f > Limit THEN f \div 2 ELSE f

(* When set_pll_freq returns 0, the PLL is running, locked and started,    *)
(* also if an earlier try has left it half set up or with the prescaler    *)
(* on; and get_pll_freq reads, but for the rounding, the frequency that    *)
(* was asked for up to Limit, and the half of it above.                    *)
SetKeepsItsWord ==
  [][setPc = "lock" /\ setPc' = "idle" /\ setResult' = "ok" =>
       /\ pllB'.power /\ ~pllB'.reset /\ pllB'.started /\ pllB'.lock
       /\ Near(Frequency(pllB'), Reached(set.freq), (2 * Xtal) \div FracUnit + 1)]_clockVars
=============================================================================
