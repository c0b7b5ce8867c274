------------------------------ MODULE ArmStart -------------------------------
(***************************************************************************)
(* Power domains, and the start of the ARM: power_domain_on and its        *)
(* callers (platform/bcm28xx/power/power.c), arm_init and what it calls    *)
(* (platform/bcm28xx/arm/arm.c).                                           *)
(*                                                                         *)
(* The ARM is powered, gets its payload, the map from its addresses to the *)
(* bus and its clock, PLLB, and is let out of reset behind an asynchronous *)
(* bridge.  The domain of the cameras, the codec and USB is powered by a   *)
(* console command, and by the driver of the video encoder.                *)
(*                                                                         *)
(* A domain is hardware, modelled from how the code uses it: it answers    *)
(* some time after it is asked for power, and for its memory's repair.     *)
(* The firmware before may have left a domain on.                          *)
(***************************************************************************)
EXTENDS Clocks, Sequences

CONSTANTS
  MaxUsb   (* bound: how often USB is powered up *)

ASSUME ArmAssumption == MaxUsb \in Nat

VARIABLES
  armPc,   (* arm_init: 0 before it, then its place in ArmProgram *)
  arm,     (* the ARM: its payload, map, control registers, clock, reset, bridge *)
  usbPc,   (* power_up_usb: 0, or its place in UsbProgram *)
  usb,     (* PM_USB, CM_PERIICTL's gate, PM_V3DRSTN *)
  pwr,     (* power_domain_on: "idle", or what it waits for *)
  domain,  (* PM_PROC and PM_IMAGE *)
  usbs     (* how often USB was powered up so far, for the bound *)

armVars == <<armPc, arm, usbPc, usb, pwr, domain, usbs>>

Domains == {"proc", "image"}

(* The bits of a domain's register that power_domain_on sets or waits for. *)
Domain == [up : BOOLEAN, ok : BOOLEAN, ispow : BOOLEAN,
           memrep : BOOLEAN, mrdone : BOOLEAN, isfunc : BOOLEAN]

(* The registers of the ARM, and its memory: which of its 64 map registers *)
(* are written, the peripherals in ARM_CONTROL0, ARMRSTN and REQSTOP.      *)
Arm == [payload : BOOLEAN, map : SUBSET (0..63), peri : BOOLEAN, clock : BOOLEAN,
        running : BOOLEAN, bridge : BOOLEAN]

DomainOff == [up |-> FALSE, ok |-> FALSE, ispow |-> FALSE, memrep |-> FALSE,
              mrdone |-> FALSE, isfunc |-> FALSE]
DomainOn  == [up |-> TRUE, ok |-> TRUE, ispow |-> TRUE, memrep |-> TRUE,
              mrdone |-> TRUE, isfunc |-> TRUE]

-----------------------------------------------------------------------------
(* power_domain_on, which a program calls at one of its steps; it goes on  *)
(* to the next when the function returns.                                  *)

(* A domain that is on stays as it is. *)
AlreadyOn(d) ==
  /\ pwr = "idle" /\ domain[d].up
  /\ UNCHANGED <<pwr, domain>>

PowerUp(d) ==
  /\ pwr = "idle" /\ ~domain[d].up
  /\ domain' = [domain EXCEPT ![d].up = TRUE]
  /\ pwr' = "power"

(* With the power there, the electrical isolation is lifted, and the       *)
(* repair of the memory begins.                                            *)
Isolation(d) ==
  /\ pwr = "power" /\ domain[d].ok
  /\ domain' = [domain EXCEPT ![d].ispow = TRUE, ![d].memrep = TRUE]
  /\ pwr' = "repair"

(* The functional isolation is lifted. *)
Repaired(d) ==
  /\ pwr = "repair" /\ domain[d].mrdone
  /\ domain' = [domain EXCEPT ![d].isfunc = TRUE]
  /\ pwr' = "idle"

(* The steps of the function, and those with which it returns. *)
DomainStep(d)    == PowerUp(d) \/ Isolation(d)
DomainReturns(d) == AlreadyOn(d) \/ Repaired(d)

-----------------------------------------------------------------------------
(* arm_init, with setupClock and bridgeStart written out. *)

(* Mutant: the ARM is let go before it has its clock. *)
ArmProgramEarly ==
  <<"power", "payload", "map", "control", "release", "multiply", "reset", "hold", "start",
    "load", "unhold", "clock", "power", "bresp", "release", "bridge">>

ArmProgram ==
  <<"power", "payload", "map", "control", "multiply", "reset", "hold", "start",
    "load", "unhold", "clock", "power", "release", "bresp", "release", "bridge">>

ArmAt(s) == armPc \in 1..Len(ArmProgram) /\ ArmProgram[armPc] = s

ArmForth == armPc' = armPc + 1 /\ UNCHANGED <<usbPc, usb, usbs>>

ArmBegin ==
  /\ armPc = 0 /\ clkPc = "idle" /\ setPc = "idle" /\ usbPc = 0 /\ images > 0
  /\ armPc' = 1
  /\ UNCHANGED <<clockVars, arm, usbPc, usb, pwr, domain, usbs>>

(* power_arm_start. *)
ArmPower ==
  /\ ArmAt("power")
  /\ \/ DomainStep("proc") /\ UNCHANGED <<armPc, usbPc, usb, usbs>>
     \/ DomainReturns("proc") /\ ArmForth
  /\ UNCHANGED <<clockVars, arm>>

(* A step that changes the ARM's own state. *)
ArmStep(s, new) ==
  /\ ArmAt(s) /\ ArmForth
  /\ arm' = new
  /\ UNCHANGED <<clockVars, pwr, domain>>

CopyPayload == ArmStep("payload", [arm EXCEPT !.payload = TRUE])

(* mapBusToArm, for the memory and for the peripherals: places in the      *)
(* table, of 16 MB each.                                                   *)
MapBusToArm == ArmStep("map", [arm EXCEPT !.map = {0, 32}])

ArmControl == ArmStep("control", [arm EXCEPT !.peri = TRUE])

(* A step of setupClock: a write to PLLB's registers. *)
PllbStep(s, new) ==
  /\ ArmAt(s) /\ ArmForth
  /\ pllB' = new
  /\ UNCHANGED <<clkPc, setPc, set, setResult, pllC, vpu, tcnt, images, sets, noLocks,
                 arm, pwr, domain>>

MultiplyPllb ==
  PllbStep("multiply", [pllB EXCEPT !.power = TRUE, !.started = FALSE, !.div = PllbDiv,
                                    !.lock = FALSE])

(* In reset, with the tap for the ARM held; the prescaler is off. *)
ResetPllb ==
  PllbStep("reset", [pllB EXCEPT !.reset = TRUE, !.held = {"arm"}, !.prescaled = FALSE,
                                 !.lock = FALSE])

(* All taps are held, which ends the reset; then the digital part starts.  *)
HoldPllb == PllbStep("hold", [pllB EXCEPT !.reset = FALSE])

StartPllb == PllbStep("start", [pllB EXCEPT !.started = TRUE])

(* In reset again, the tap's divider is loaded; then all is let go.        *)
LoadPllb ==
  PllbStep("load", [pllB EXCEPT !.reset = TRUE, !.loaded = @ \cup {"arm"}, !.lock = FALSE])

UnholdPllb == PllbStep("unhold", [pllB EXCEPT !.reset = FALSE, !.held = {}])

ArmClock == ArmStep("clock", [arm EXCEPT !.clock = TRUE])

(* bridgeStart: out of reset, bresp bits and again; then the bridge goes.  *)
ReleaseArm == ArmStep("release", [arm EXCEPT !.running = TRUE])

CycleBresp == ArmStep("bresp", arm)

StartBridge == ArmStep("bridge", [arm EXCEPT !.bridge = TRUE])

ArmInit ==
  \/ ArmBegin \/ ArmPower \/ CopyPayload \/ MapBusToArm \/ ArmControl
  \/ MultiplyPllb \/ ResetPllb \/ HoldPllb \/ StartPllb \/ LoadPllb \/ UnholdPllb
  \/ ArmClock \/ ReleaseArm \/ CycleBresp \/ StartBridge

-----------------------------------------------------------------------------
(* power_up_usb, and power_up_image in it. *)

UsbProgram == <<"domain", "power", "clockOff", "v3d">>

UsbAt(s) == usbPc \in 1..Len(UsbProgram) /\ UsbProgram[usbPc] = s

UsbForth ==
  /\ usbPc' = IF usbPc = Len(UsbProgram) THEN 0 ELSE usbPc + 1
  /\ UNCHANGED <<armPc, usbs>>

(* power_up_image takes the V3D out of reset before its domain has power.  *)
UsbBegin ==
  /\ usbPc = 0 /\ clkPc = "idle" /\ setPc = "idle" /\ armPc = 0
  /\ usbs < MaxUsb /\ usbs' = usbs + 1
  /\ usbPc' = 1
  /\ usb' = [usb EXCEPT !.v3d = TRUE]
  /\ UNCHANGED <<clockVars, armPc, arm, pwr, domain>>

PowerUpImage ==
  /\ UsbAt("domain")
  /\ \/ DomainStep("image") /\ UNCHANGED <<usbPc, armPc, usbs>>
     \/ DomainReturns("image") /\ UsbForth
  /\ UNCHANGED <<clockVars, arm, usb>>

UsbStep(s, new) ==
  /\ UsbAt(s) /\ UsbForth
  /\ usb' = new
  /\ UNCHANGED <<clockVars, arm, pwr, domain>>

UsbPower == UsbStep("power", [usb EXCEPT !.power = TRUE])

(* The gate of the peripherals' clock is closed for the switch ... *)
UsbClockOff == UsbStep("clockOff", [usb EXCEPT !.gate = FALSE])

(* ... and opened again, with the V3D's reset bit set once more. *)
UsbClockOn == UsbStep("v3d", [usb EXCEPT !.gate = TRUE, !.v3d = TRUE])

UsbInit == UsbBegin \/ PowerUpImage \/ UsbPower \/ UsbClockOff \/ UsbClockOn

-----------------------------------------------------------------------------
(* The hardware. *)

DomainAnswers ==
  \E d \in Domains :
    /\ \/ domain[d].up /\ ~domain[d].ok /\ domain' = [domain EXCEPT ![d].ok = TRUE]
       \/ /\ domain[d].memrep /\ ~domain[d].mrdone
          /\ domain' = [domain EXCEPT ![d].mrdone = TRUE]
    /\ UNCHANGED <<clockVars, armPc, arm, usbPc, usb, pwr, usbs>>

-----------------------------------------------------------------------------
ArmStateInit ==
  /\ armPc = 0 /\ usbPc = 0 /\ pwr = "idle" /\ usbs = 0
  /\ arm = [payload |-> FALSE, map |-> {}, peri |-> FALSE, clock |-> FALSE,
            running |-> FALSE, bridge |-> FALSE]
  /\ usb = [power |-> FALSE, gate |-> FALSE, v3d |-> FALSE]
  /\ domain \in [Domains -> {DomainOff, DomainOn}]

ArmNext == ArmInit \/ UsbInit \/ DomainAnswers

-----------------------------------------------------------------------------
ArmTypeOK ==
  /\ armPc \in 0..(Len(ArmProgram) + 1) /\ usbPc \in 0..Len(UsbProgram)
  /\ arm \in Arm
  /\ usb \in [power : BOOLEAN, gate : BOOLEAN, v3d : BOOLEAN]
  /\ pwr \in {"idle", "power", "repair"}
  /\ domain \in [Domains -> Domain]
  /\ usbs \in 0..MaxUsb

(* A domain is connected only when it has power and its memory is          *)
(* repaired; and the ARM leaves its reset only in a connected domain, with *)
(* its payload, its map and its clock: PLLB started, out of reset, and its *)
(* tap loaded and not held.                                                *)
ArmStartsReady ==
  /\ \A d \in Domains : domain[d].isfunc => domain[d].ok /\ domain[d].ispow /\ domain[d].mrdone
  /\ arm.running =>
       /\ domain["proc"].isfunc
       /\ arm.payload /\ arm.map = {0, 32} /\ arm.peri /\ arm.clock
       /\ pllB.started /\ ~pllB.reset /\ "arm" \in pllB.loaded /\ "arm" \notin pllB.held
=============================================================================
