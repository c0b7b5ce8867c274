-------------------------------- MODULE Gpio ---------------------------------
(***************************************************************************)
(* The pins (platform/bcm28xx/gpio.c) and who asks for what: the reset     *)
(* code of every image, the two functions that set the console's PL011 up, *)
(* the SD card's driver, the console's commands, and the ARM, whose own    *)
(* image sets the same registers up with no lock between the two.          *)
(*                                                                         *)
(* The function of several pins shares a register, which gpio_config reads *)
(* and writes back.  A pull is latched in the pad: the value is put in     *)
(* GPPUD, the pads are clocked and given time, and both are withdrawn.     *)
(*                                                                         *)
(* Pins, registers and banks are scaled down; no pin is connected outside. *)
(***************************************************************************)
EXTENDS Naturals, Sequences, SequencesExt

CONSTANTS
  NumPins,     (* pins: 54 *)
  PinsPerReg,  (* pins whose function is in one register: 10 *)
  PinsPerBank, (* pins that one set, clear or level register holds: 32 *)
  SerialTx,    (* the pin of the console's output: 14; its input is the next *)
  LedPin,      (* 16, of the serial pins' register *)
  SdPins,      (* the SD card's: 48 to 53 *)
  TestPins,    (* the ones gpio_test goes through *)
  JitterPin,   (* 18 *)
  ModeCalls,   (* <<pin, function>>: what gpio_mode is typed with *)
  WriteCalls,  (* <<pin, on>>: what gpio_write is typed with *)
  MaxGpio      (* bound: commands *)

Pins == 0..(NumPins - 1)

(* enum BCM2708PinmuxSetting: what a pin may be configured for.            *)
Functions == 0..7

(* enum pull_mode, and struct gpio_pull_batch. *)
Pulls   == 0..2
Batches == [Pulls -> SUBSET Pins]

ASSUME GpioAssumption ==
  /\ NumPins \in Nat \ {0} /\ PinsPerReg \in Nat \ {0} /\ PinsPerBank \in Nat \ {0}
  /\ {SerialTx, SerialTx + 1, LedPin, JitterPin} \subseteq Pins
  /\ SdPins \in Seq(Pins) /\ TestPins \in Seq(Pins) /\ TestPins # <<>>
  /\ ModeCalls \subseteq Nat \X Functions /\ WriteCalls \subseteq Nat \X BOOLEAN
  /\ MaxGpio \in Nat

SerialRx == SerialTx + 1
PullOff  == 0
PullDown == 1
PullUp   == 2
Input    == 0
Output   == 1
Alt0     == 4
Sharers(p) == {q \in Pins : q \div PinsPerReg = p \div PinsPerReg}
Cpus     == {"vpu", "arm"}

VARIABLES
  fsel,    (* GPFSEL: the function of each pin *)
  outp,    (* the output latch of each *)
  pull,    (* the pull latched in each pad *)
  pud,     (* GPPUD *)
  clk,     (* GPPUDCLK: the pads that are clocked *)
  latched, (* have they been clocked for long enough? *)
  cfg,     (* of each CPU: the gpio_config calls to come, <<pin, function>> *)
  held,    (* of each: the register it has read and not written yet, as
              functions of pins; empty when there is none *)
  batch,   (* gpio_apply_batch: the pins to pull each way *)
  mode,    (* which way it is at: 3 is done *)
  phase,   (* where in it: "pud", "clock", "unclock", "clear" *)
  testing, (* gpio_test: the pulls still to try, <<pin, pull>> *)
  told,    (* the level it printed last, of an input: <<pull, level>> *)
  gpioPc,  (* how often the images so far have set pins up: odd from an
              image's reset code to its uart_init *)
  jitter,  (* is the command "jitter" at its loop? *)
  asked,   (* history: the function each pin was last configured for *)
  wanted,  (* history: the pull each was last asked for *)
  stale,   (* history: of each CPU, was its register written since it read it? *)
  spoiled, (* history: pins whose register was then written back *)
  gpios    (* commands so far, for the bound *)

padVars  == <<pull, pud, clk, latched, batch, mode, phase, testing, told, wanted>>
cfgVars  == <<fsel, cfg, held, asked, stale, spoiled>>
gpioVars == <<padVars, cfgVars, outp, gpioPc, jitter, gpios>>

-----------------------------------------------------------------------------
(* gpio_config. *)

ConfigRead(c) ==
  /\ cfg[c] # <<>> /\ held[c] = <<>>
  /\ held' = [held EXCEPT ![c] = [q \in Sharers(cfg[c][1][1]) |-> fsel[q]]]
  /\ stale' = [stale EXCEPT ![c] = FALSE]
  /\ UNCHANGED <<padVars, fsel, cfg, asked, spoiled, outp, gpioPc, jitter, gpios>>

(* Mutant: the old function is not masked out (a three-bit OR). *)
BitOr(a, b) == LET bit(x, i) == (x \div (2 ^ i)) % 2
                   either(i) == IF bit(a, i) + bit(b, i) > 0 THEN 2 ^ i ELSE 0
               IN  either(0) + either(1) + either(2)

(* The register with one pin's field exchanged. *)
Field(register, p, function) == [register EXCEPT ![p] = function]

(* Another CPU that has read the register will write back what it read.    *)
MarkStale(c, p) ==
  stale' = [o \in Cpus |-> \/ stale[o]
                           \/ o # c /\ held[o] # <<>> /\ p \in DOMAIN held[o]]

ConfigWrite(c) ==
  /\ held[c] # <<>>
  /\ LET p == cfg[c][1][1]
         f == cfg[c][1][2]
         new == Field(held[c], p, f)
     IN  /\ fsel' = [q \in Pins |-> IF q \in DOMAIN new THEN new[q] ELSE fsel[q]]
         /\ asked' = [asked EXCEPT ![p] = f]
         /\ spoiled' = IF stale[c] THEN spoiled \cup DOMAIN new ELSE spoiled
         /\ MarkStale(c, p)
  /\ cfg' = [cfg EXCEPT ![c] = Tail(@)]
  /\ held' = [held EXCEPT ![c] = <<>>]
  /\ UNCHANGED <<padVars, outp, gpioPc, jitter, gpios>>

-----------------------------------------------------------------------------
(* gpio_apply_batch, one way after the other. *)

NoPulls == [m \in Pulls |-> {}]
NoBatch == mode = 3

SetPud ==
  /\ mode < 3 /\ phase = "pud" /\ cfg["vpu"] = <<>>
  /\ IF batch[mode] # {} THEN pud' = mode /\ phase' = "clock" /\ UNCHANGED mode
                         ELSE mode' = mode + 1 /\ UNCHANGED <<pud, phase>>
  /\ UNCHANGED <<cfgVars, pull, clk, latched, batch, testing, told, wanted, outp, gpioPc, jitter, gpios>>

ClockPads ==
  /\ phase = "clock"
  /\ clk' = batch[mode]
  /\ latched' = FALSE
  /\ phase' = "unclock"
  /\ UNCHANGED <<cfgVars, pull, pud, batch, mode, testing, told, wanted, outp, gpioPc, jitter, gpios>>

(* The pads take the value some time while they are clocked.               *)
Latch ==
  /\ clk # {}
  /\ pull' = [p \in Pins |-> IF p \in clk THEN pud ELSE pull[p]]
  /\ latched' = TRUE
  /\ UNCHANGED <<cfgVars, pud, clk, batch, mode, phase, testing, told, wanted, outp, gpioPc, jitter, gpios>>

(* Mutant: without the second delay. *)
ClockedNotLong == TRUE

(* The second delay is long enough for the pads. *)
ClockedLong == latched

UnclockPads ==
  /\ phase = "unclock" /\ ClockedLong
  /\ clk' = {}
  /\ phase' = "clear"
  /\ UNCHANGED <<cfgVars, pull, pud, latched, batch, mode, testing, told, wanted, outp, gpioPc, jitter, gpios>>

ClearPud ==
  /\ phase = "clear"
  /\ pud' = PullOff
  /\ mode' = mode + 1
  /\ phase' = "pud"
  /\ UNCHANGED <<cfgVars, pull, clk, latched, batch, testing, told, wanted, outp, gpioPc, jitter, gpios>>

(* A caller fills a batch and gives it to gpio_apply_batch.                *)
Apply(pins, way) ==
  /\ batch' = [NoPulls EXCEPT ![way] = pins]
  /\ wanted' = [p \in Pins |-> IF p \in pins THEN way ELSE wanted[p]]
  /\ mode' = 0

-----------------------------------------------------------------------------
(* The callers. *)

GpioIdle == cfg["vpu"] = <<>> /\ NoBatch /\ testing = <<>> /\ ~jitter

Configure(c, calls) == cfg' = [cfg EXCEPT ![c] = calls]

(* The reset code writes the serial pins' whole register: the console's    *)
(* output works, all else in the register is an input.  uart_init_early    *)
(* then configures the same pin.                                           *)
GpioReset ==
  /\ gpioPc % 2 = 0 /\ GpioIdle
  /\ LET reset(q) == IF q = SerialTx THEN Alt0 ELSE Input
         new(g) == [q \in Pins |-> IF q \in Sharers(SerialTx) THEN reset(q) ELSE g[q]]
     IN  fsel' = new(fsel) /\ asked' = new(asked)
  /\ MarkStale("vpu", SerialTx)
  /\ spoiled' = spoiled \ Sharers(SerialTx)
  /\ Configure("vpu", <<<<SerialTx, Alt0>>>>)
  /\ gpioPc' = gpioPc + 1
  /\ UNCHANGED <<padVars, held, outp, jitter, gpios>>

(* platform_init calls uart_init. *)
GpioInit ==
  /\ gpioPc % 2 = 1 /\ GpioIdle
  /\ Configure("vpu", <<<<SerialTx, Alt0>>, <<SerialRx, Alt0>>>>)
  /\ gpioPc' = gpioPc + 1
  /\ UNCHANGED <<padVars, fsel, held, asked, stale, spoiled, outp, jitter, gpios>>

PinCommand == gpioPc > 0 /\ gpioPc % 2 = 0 /\ GpioIdle /\ gpios < MaxGpio /\ gpios' = gpios + 1

(* The SD card's driver: configure_pinmux. *)
Pinmux ==
  /\ PinCommand
  /\ Configure("vpu", [i \in DOMAIN SdPins |-> <<SdPins[i], Alt0>>])
  /\ Apply(ToSet(SdPins), PullUp)
  /\ UNCHANGED <<fsel, held, asked, stale, spoiled, outp, gpioPc, jitter, pull, pud, clk, latched, phase, testing, told>>

(* gpio_mode prints "done" for a pin that gpio_config refuses, too.        *)
PinModeCommand ==
  /\ PinCommand
  /\ \E call \in ModeCalls :
       Configure("vpu", IF call[1] < NumPins THEN <<call>> ELSE <<>>)
  /\ UNCHANGED <<padVars, fsel, held, asked, stale, spoiled, outp, gpioPc, jitter>>

(* gpio_set: GPSET0, GPSET1, one more register, GPCLR0, GPCLR1.  Nothing   *)
(* bounds the pin: from 96 on, "on" reaches the registers that clear.  The *)
(* registers behind these, which later pins reach, are left out.           *)
SetPin(nr, on) ==
  LET r == (nr \div PinsPerBank) + (IF on THEN 0 ELSE 3)
      p == (r % 3) * PinsPerBank + (nr % PinsPerBank)
  IN  [q \in Pins |-> IF q = p /\ r < 6 THEN r < 3 ELSE outp[q]]

WriteCommand ==
  /\ PinCommand
  /\ \E call \in WriteCalls : outp' = SetPin(call[1], call[2])
  /\ UNCHANGED <<padVars, cfgVars, gpioPc, jitter>>

TestBegin ==
  /\ PinCommand
  /\ testing' = [i \in 1..(2 * Len(TestPins)) |->
                  <<TestPins[(i + 1) \div 2], IF i % 2 = 1 THEN PullDown ELSE PullUp>>]
  /\ told' = <<>>
  /\ Apply({TestPins[1]}, PullDown)
  /\ UNCHANGED <<cfgVars, outp, gpioPc, jitter, pull, pud, clk, latched, phase>>

(* The levels an unconnected pin may read.  Any, where nothing pulls it.   *)
Levels(p) ==
  IF fsel[p] = Output THEN {outp[p]}
  ELSE IF pull[p] = PullOff THEN BOOLEAN ELSE {pull[p] = PullUp}

(* A pull is applied: the level is read, and the next one begins.  The     *)
(* pull the pin had before is not put back.                                *)
TestNext ==
  /\ testing # <<>> /\ NoBatch
  /\ \E l \in Levels(testing[1][1]) :
       told' = IF fsel[testing[1][1]] = Output THEN <<>> ELSE <<testing[1][2], l>>
  /\ testing' = Tail(testing)
  /\ IF Len(testing) > 1 THEN Apply({testing[2][1]}, testing[2][2])
                         ELSE UNCHANGED <<batch, wanted, mode>>
  /\ UNCHANGED <<cfgVars, outp, gpioPc, jitter, pull, pud, clk, latched, phase, gpios>>

(* jitter (arch/vpu/arch.c): from high to low and back, 10^15 times, which *)
(* is as good as for ever.                                                 *)
JitterCommand ==
  /\ PinCommand
  /\ Configure("vpu", <<<<JitterPin, Output>>>>)
  /\ jitter' = TRUE
  /\ UNCHANGED <<padVars, fsel, held, asked, stale, spoiled, outp, gpioPc>>

Toggle18 ==
  /\ jitter /\ cfg["vpu"] = <<>>
  /\ outp' = [outp EXCEPT ![JitterPin] = ~@]
  /\ UNCHANGED <<padVars, cfgVars, gpioPc, jitter, gpios>>

(* The ARM's image, a Raspberry Pi 1's: platform_init.                     *)
GpioArm ==
  /\ Configure("arm", <<<<LedPin, Output>>, <<SerialTx, Alt0>>, <<SerialRx, Alt0>>>>)
  /\ UNCHANGED <<padVars, fsel, held, asked, stale, spoiled, outp, gpioPc, jitter, gpios>>

-----------------------------------------------------------------------------
GpioStart ==
  /\ fsel = [p \in Pins |-> Input] /\ asked = fsel
  /\ outp = [p \in Pins |-> FALSE]
  /\ pull = [p \in Pins |-> PullOff] /\ wanted = pull
  /\ pud = PullOff /\ clk = {} /\ latched = FALSE
  /\ cfg = [c \in Cpus |-> <<>>] /\ held = [c \in Cpus |-> <<>>]
  /\ stale = [c \in Cpus |-> FALSE] /\ spoiled = {}
  /\ batch = NoPulls /\ mode = 3 /\ phase = "pud"
  /\ testing = <<>> /\ told = <<>>
  /\ gpioPc = 0 /\ jitter = FALSE /\ gpios = 0

GpioSetUp     == ConfigRead("vpu") \/ ConfigWrite("vpu")
GpioCommands  == Pinmux \/ PinModeCommand \/ WriteCommand \/ TestBegin \/ JitterCommand
GpioPulls     == SetPud \/ ClockPads \/ UnclockPads \/ ClearPud \/ TestNext \/ Toggle18
GpioByArm     == ConfigRead("arm") \/ ConfigWrite("arm")

GpioTypeOK ==
  /\ fsel \in [Pins -> Functions] /\ asked \in [Pins -> Functions]
  /\ outp \in [Pins -> BOOLEAN] /\ spoiled \subseteq Pins /\ stale \in [Cpus -> BOOLEAN]
  /\ cfg \in [Cpus -> Seq(Pins \X Functions)]
  /\ \A c \in Cpus : held[c] # <<>> => \E p \in Pins : held[c] \in [Sharers(p) -> Functions]
  /\ pull \in [Pins -> Pulls] /\ wanted \in [Pins -> Pulls] /\ pud \in Pulls
  /\ batch \in Batches /\ clk \subseteq Pins /\ latched \in BOOLEAN
  /\ mode \in 0..3 /\ phase \in {"pud", "clock", "unclock", "clear"}
  /\ testing \in Seq(Pins \X Pulls) /\ (told # <<>> => told \in Pulls \X BOOLEAN)
  /\ gpioPc \in Nat /\ jitter \in BOOLEAN /\ gpios \in 0..MaxGpio

(* Where no two CPUs were in gpio_config for one register at once, each    *)
(* pin has the function it was last asked for, whatever its neighbours     *)
(* were; and when no batch is under way each pad has the pull it was last  *)
(* asked for (gpio.c:43, 74-86).  A test of an input thus prints low for   *)
(* the pull down and high for the pull up (gpio.c:181-190).                *)
PinsAsAsked ==
  /\ \A p \in Pins \ spoiled : fsel[p] = asked[p]
  /\ NoBatch => pull = wanted
  /\ told # <<>> => told[2] = (told[1] = PullUp)
=============================================================================
