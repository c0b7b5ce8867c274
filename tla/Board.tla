-------------------------------- MODULE Board --------------------------------
(***************************************************************************)
(* The work of the VPU's one boot thread, from power-on to the ARM: every  *)
(* image of the firmware sets the clocks up (Clocks), the first one then   *)
(* the memory (Sdram), each serves its console (the commands of Clocks,    *)
(* ArmStart and Otp), and one of them starts the ARM (ArmStart).           *)
(*                                                                         *)
(* Each sets the console's pins up before and after that (Gpio), and its   *)
(* console has commands about pins and for I2C (I2c).                      *)
(*                                                                         *)
(* The parts share the thread: one begins only when no other is at work.   *)
(* The hardware of each goes on meanwhile, and so does the ARM when it has *)
(* started, whose image sets pins up too.                                  *)
(***************************************************************************)
EXTENDS ArmStart, Sdram, Otp, Gpio, I2c

CONSTANTS
  MaxCommands  (* bound: console commands, and the start of the ARM *)

ASSUME BoardAssumption == MaxCommands \in Nat

boardVars == <<clockVars, armVars, sdVars, otpVars, gpioVars, i2cVars>>

(* The bound: how often something has been begun. *)
Commands == sets + usbs + otpCalls + (IF armPc > 0 THEN 1 ELSE 0)

(* ... where commands about pins, I2C or fuses do not mix with others.     *)
Bounded ==
  /\ Commands' <= MaxCommands
  /\ gpios' + i2cs' > 0 => sets' + usbs' + otpCalls' = 0
  /\ otpCalls' > 0 => sets' + usbs' = 0
  /\ i2cs' > 0 => gpios' = 0 /\ armPc' = 0

Quiet == UNCHANGED <<sdVars, otpVars, gpioVars, i2cVars>>

(* platform_early_init comes before the hooks and the console. *)
ClocksAreUp == images > 0 /\ clkPc = "idle"

SdramDone == sdPc > Len(Program)

ArmStarted == armPc > Len(ArmProgram)

ConsoleIdle == ClocksAreUp /\ setPc = "idle" /\ usbPc = 0 /\ armPc = 0

(* Nothing is at work. *)
ThreadIdle ==
  /\ clkPc = "idle" /\ setPc = "idle" /\ usbPc = 0 /\ otpPc = "idle" /\ i2cPc = "idle"
  /\ armPc = 0 \/ ArmStarted
  /\ images = 0 \/ SdramDone

(* Both calls of each image so far have set the pins up. *)
PinsUp == gpioPc = 2 * images /\ GpioIdle /\ i2cPc = "idle"

(* A step of the clocks: an image, when nothing else is at work; or a      *)
(* command, which the image's console takes when it is there.              *)
BoardClocks ==
  /\ clkPc = "idle" /\ setPc = "idle" =>
       /\ otpPc = "idle" /\ usbPc = 0 /\ armPc = 0
       /\ images = 0 \/ SdramDone
       /\ GpioIdle
  /\ \/ SwitchVpu /\ (clkPc = "idle" => gpioPc = 2 * images + 1)
     \/ (SetPll \/ MeasureCommand) /\ PinsUp
  /\ UNCHANGED armVars /\ Quiet
  /\ Bounded

BoardClockHardware == ClockHardware /\ UNCHANGED armVars /\ Quiet

(* The memory is set up by the first image: by autoram's hook, or stage1's *)
(* own, which do the same at different addresses.                          *)
BoardSdram ==
  /\ ClocksAreUp /\ images = 1
  /\ SdDriver
  /\ UNCHANGED <<clockVars, armVars, otpVars, gpioVars, i2cVars>>

BoardSdramHardware == SdHardware /\ UNCHANGED <<clockVars, armVars, otpVars, gpioVars, i2cVars>>

(* A later image starts the ARM, and another one's console the USB.        *)
BoardArm ==
  /\ ClocksAreUp /\ images > 1 /\ SdramDone /\ otpPc = "idle"
  /\ PinsUp
  /\ ArmInit
  /\ IF ArmStarted' THEN GpioArm ELSE UNCHANGED gpioVars
  /\ UNCHANGED <<sdVars, otpVars, i2cVars>>
  /\ Bounded

BoardUsb ==
  /\ ClocksAreUp /\ SdramDone /\ otpPc = "idle" /\ PinsUp
  /\ UsbInit
  /\ Quiet
  /\ Bounded

BoardDomains == DomainAnswers /\ Quiet

BoardOtp ==
  /\ ConsoleIdle /\ SdramDone /\ PinsUp
  /\ ReadCall \/ WriteCall \/ OtpWriteCommand \/ OtpDriver
  /\ UNCHANGED <<clockVars, armVars, sdVars, gpioVars, i2cVars>>
  /\ Bounded

BoardOtpHardware == (HwCommand \/ HwUnlock) /\ UNCHANGED <<clockVars, armVars, sdVars, gpioVars, i2cVars>>

(* The pins: reset code and uart_init_early come before the clocks,        *)
(* uart_init after the memory, the commands when all that is done.         *)
BoardPins ==
  /\ ThreadIdle
  /\ \/ GpioReset /\ images < MaxImages /\ armPc = 0 /\ (images > 0 => PinsUp)
     \/ GpioInit /\ gpioPc = 2 * images - 1
     \/ GpioCommands
     \/ GpioSetUp \/ GpioPulls
  /\ UNCHANGED <<clockVars, armVars, sdVars, otpVars, i2cVars>>
  /\ Bounded

BoardPinHardware == Latch /\ UNCHANGED <<clockVars, armVars, sdVars, otpVars, i2cVars>>

BoardPinsByArm == GpioByArm /\ UNCHANGED <<clockVars, armVars, sdVars, otpVars, i2cVars>>

BoardI2c ==
  /\ ConsoleIdle /\ SdramDone /\ otpPc = "idle" /\ gpioPc = 2 * images /\ GpioIdle
  /\ Xfer \/ SetRate(ClkFreq) \/ I2cDriver
  /\ UNCHANGED <<clockVars, armVars, sdVars, otpVars, gpioVars>>
  /\ Bounded

BoardI2cHardware == Controller /\ UNCHANGED <<clockVars, armVars, sdVars, otpVars, gpioVars>>

Init == ClockInit /\ ArmStateInit /\ SdInit /\ OtpInit /\ GpioStart /\ I2cInit

Next ==
  \/ BoardClocks \/ BoardClockHardware \/ BoardSdram \/ BoardSdramHardware
  \/ BoardArm \/ BoardUsb \/ BoardDomains \/ BoardOtp \/ BoardOtpHardware
  \/ BoardPins \/ BoardPinHardware \/ BoardPinsByArm \/ BoardI2c \/ BoardI2cHardware

Spec == Init /\ [][Next]_boardVars

TypeOK == ClockTypeOK /\ ArmTypeOK /\ SdTypeOK /\ OtpTypeOK /\ GpioTypeOK /\ I2cTypeOK
=============================================================================
