# A verification development for metalpi

metalpi is bare-metal firmware for the Raspberry Pi, most of it an overlay on the LK kernel
(`src/bootcode/`). On the VPU of a VC4 board it replaces `bootcode.bin`: it brings up clocks
and SDRAM, and loads the next stage from the SD card or over the serial line. The same overlay
builds LK for the ARM cores, and demos for the display hardware. LK itself is a submodule and
not part of the repository; where code under `src/` relies on it, the models say what they
assume and the map marks it external.

This directory holds TLA+ models of that code, TLC configurations that check them on small
instances, and TLAPS proofs of properties that hold for every instance.

## 1. The system

| Component | Source (below `src/bootcode/`) | State | Operations | Modules |
|---|---|---|---|---|
| xmodem upload | `app/vc4-stage1/stage1.c` 93-177 | buffer, `blockNr`, packet | read, check, ACK/NAK, store, end | `BlockTransfer`, `Xmodem`, `XmodemLine` |
| prompt and boot | `stage1.c` 22-91, 184-207, `arch/vpu/arch.c`, `start.S` | wait queue, waker, result | prompt, block, wake, time out, load, jump, reboot | `Autoboot` |
| PL011 console | `platform/bcm28xx/uart.c` | FIFOs, ring buffer, masks | set up, interrupt, get, put, flush | `Uart`, in `Autoboot` |
| SD card | `platform/bcm28xx/sdhost/` | controller registers, card state | reset, identify, read, stop | `SdHost` |
| VPU port of LK | `arch/vpu/` | saved registers, interrupt enable, masks, handlers | start, switch, lock, atomic add, dispatch, preempt | `VpuCore` |
| system timer | `dev/timer/vc4/timer.c` | callback, compare registers, shared status | set, stop, interrupt | `SysTimer`, in `VpuCore` and `ArmCore` |
| ARM interrupts | `platform/bcm28xx/intc.c`, `platform.c` | handler tables, masks, per-processor lines | mask, register, dispatch | `ArmCore` (Pi 1), `Pi3` |
| ARM start-up, Pi 3 | `platform.c`, `miniuart.c`, `mailbox.c` | spin table, device tree, ring buffer, `fb_desc` | start processors, add memory, IPIs, framebuffer | `Pi3`, `FbMailbox`, `ArmMemory` |
| clocks | `pll/`, `platform.c` 147-272 | PLL and clock registers | set frequency, switch source, measure | `Clocks`, in `Board` |
| SDRAM | `rpi-ddr2/` | controller, PHY, mode registers | reset, calibrate, ask size, time, test | `Sdram`, in `Board` |
| power, ARM start | `power/`, `arm/` | domains, bridge | domain on, map, clock, release | `ArmStart`, in `Board` |
| OTP | `otp/otp.c` | fuses, programming enable | read, enable, burn, verify, disable | `Otp`, in `Board` |
| pins | `gpio.c` and its callers | function and pull registers | set up, pull, commands | `Gpio`, in `Board` |
| I2C | `i2c.c` | FIFO, status bits | transfer, set rate | `I2c`, in `Board` |
| display | `hvs/`, `hvs-dance/`, `vec/`, `dpi/`, `pixelvalve/` | list memory, cursor, sprites, frame | bring up, add plane, end list, update, dump | `DisplayList`, `HvsDump`, `Video` |

How they interact. On the VPU one thread brings everything up, image after image: each sets clocks,
pins and console up on what the one before left, the first also the memory, stage1 then prompts,
reads the card or the line, and jumps to the image it has loaded. Interrupts (timer, PL011, pixel
valve) come in between. The ARM runs beside the VPU once it is started, and shares the system timer's
status register and the pins' registers with it. VideoCore answers the ARM's framebuffer request.

What is hard in this code, and what must be true of each part:

* **xmodem.** The line loses, damages and repeats. Every block must be stored once and in its place,
  the end must be the end of the file, numbers that repeat after 256 blocks must not be mistaken, no
  fault of the line may carry the receiver over the end of its buffer, the transfer must not get stuck.
* **prompt and console.** Two threads, a handler that prints itself, a timer, a second core. One
  outcome, decided by the first key; what is printed must reach the line.
* **SD card.** Commands are not waited for, errors are sticky, the card keeps sending behind the
  driver, and a second image finds the card as the first left it.
* **VPU and ARM cores.** A lock nobody tests; preemption out of a handler; sources left unmasked by
  the image before; a compare register and a clock that wrap; acknowledging for the other processor.
* **Pi 3.** Processors with their caches off, interrupts sent while another is served, a cache line
  shared with VideoCore.
* **board.** The order of many steps on hardware that answers later; registers of neighbours; fuses
  that cannot be unburned.
* **display.** The list being scanned must not be overwritten where there is room beside it; the cursor
  leaves the memory only with a list that does not fit; handler and console share that cursor.

`PROJECT.json` lists the components with their status, and the hazards at their lines.

## 2. The modules

Every module's header says what it models, and of which hardware it only takes what the code uses.
Each action is one handler or one step of the code up to the next point at which something else can
come in between; "Mutant:" in a comment marks a changed form of the definition below it, which shows
that a property notices the change.

**BlockTransfer, Xmodem, XmodemLine.** `BlockTransfer` is the abstract specification: the receiver
holds a prefix of the file; `Deliver` appends the next block, `Finish` is possible only with the whole
file. `Xmodem` is `xmodem_receive` against the stop-and-wait host it is written for: one action
per outcome of the loop body, `StoreBlock` (144-148), the same behind the end of the buffer (`Overrun`,
of whose outcome no more is said), `ReAck` (149-150), `Reject` (151-159),
`ReceiveEot` (127-131), the entry with its single NAK and the exit `BootImage`. `SenderHurry` is a
host's timeout that comes too early. `XmodemLine` is the same code reading bytes: the first byte is
tested for EOT, `read_repeat` collects the rest without a timeout. Both implement `BlockTransfer`.

**Uart, Autoboot.** `Uart` has the PL011, `uart_irq`, the ring buffer, `uart_putc` (look for room,
then write, without a lock), the two flushes and the two set-up functions. `Autoboot` puts the
threads of stage1 on it, from the start code on, and goes on with the image it jumps to, the
reboot and the second core. A wait queue wakes only threads blocked on it at that moment.

**SdHost.** Two images each reset the controller, identify one of three kinds of card, work the size
out of the bytes of a 128-bit register (`Field` takes them one by one as `__bitfield` does), make three reads nobody wants, and read sectors. A command runs
some time after it was written; a card that is sending goes on until its stop command runs; a bad
checksum or a refused command sets a sticky error bit. The result of `real_read_block` is
`~HstsErr`, which is always true: see the findings.

**SysTimer, VpuCore, ArmCore.** `SysTimer` is the driver and the timer for a set of processors; clocks
and compare registers are numbers modulo `W`. `VpuCore` puts the VPU's threads, lock, interrupt
controller and entry code on it, and a chain load that leaves sources unmasked; `ArmCore` puts LK on a
Raspberry Pi 1's ARM beside the VPU's steps on the timer.

**FbMailbox, ArmMemory, Pi3.** The ARM of a Raspberry Pi 3: device tree and memory, spin table, local interrupts,
interrupts between processors, mini UART, and the framebuffer request with the cache line that
`fb_desc` shares.

**Clocks, Sdram, ArmStart, Otp, Gpio, I2c, Board.** Each is a driver with its hardware: registers that
answer some time later, waits that give up or do not. `Sdram` and `ArmStart` are straight programs
(`Program`, `ArmProgram`) whose steps run when what they wait for is there. `Board` composes them:
one thread, the order in which each image calls them, a console command or two, hardware that goes on
meanwhile, and the ARM's own image on the pins.

**DisplayList, HvsDump, Video.** `DisplayList` is `do_frame_update`, once for the interrupt and once for
the console: the early check, planes in two steps (the first word is made valid last), the end word,
the publication with the late check, or the overflow; and the commands of the sprite demo, `u` among them.
The history variable `clash` notes when an update finds no room beside the list that is shown, and when
one begins within another. `HvsDump` walks the published list beside it. `Video` brings the picture up on a scaler that may be showing
something else, by `vec_init` and `dance_start` or by the DPI commands of stage2.

## 3. The runs

| Run | Bounds | Shows |
|---|---|---|
| `xmodem` | 7 blocks, numbers modulo 6, buffers of 4, 7 and 8, 2 frames and 2 replies under way, 3 faults | what the loader gets, `Window`, `AckedIsStored`, implements `BlockTransfer`, ends |
| `xmodem_line` | 5 blocks, bytes below 6, 5 faults | implements `BlockTransfer` byte by byte, ends |
| `autoboot` | keys X and y, bad characters, 3 typed; receive FIFO, trigger and ring of 2, transmit FIFO of 1, prompt of 2 | the first key decides, output reaches the line, an X is heard |
| `sdhost` | 2 images, 3 kinds of card, 4 sectors of 2 words and 2048 bytes, FIFO of 3, 3 wasted and 3 wanted reads, 2 faults | the card's size, right words, breaking off only on a fault of its own, reads return, the card comes up |
| `sdhost_error` | 1 image, 1 kind of card, sectors of 2 bytes, 1 wanted read, 1 fault; otherwise the same | violation: an error reported as success |
| `displaylist` | 12 words, the cursor goes back behind 10, planes of 1 and 2, 2 to 7 sprites of which there are 6, 2 commands, a dump of 6 words | `InMemory`, lists not torn where there is room, sprites in their box, the dump follows its list |
| `video` | 15 words of which 9 are wiped, 1 command; DPI of 1 by 2 pixels, 3 moves | only lists are shown from the start, no trail, recovery after `u` |
| `board` | 2 images, memory of 64 or 512, 2 commands, 1 lock that fails, 6 pins, 2 late fuse commands, 2 I2C calls with 1 fault | `VpuOnLockedClock`, `SetKeepsItsWord`, `RamIsReady`, `QuietChanges`, `ArmStartsReady`, `WriteKeepsItsWord`, `OnlyAsked`, `PinsAsAsked`, `XferMovesAll` |
| `vpu` | 3 threads, 2 additions, clock modulo 3 | the lock works, nothing panics across a chain load |
| `arm` | both processors, clock modulo 5, intervals 1 and 3, 3 timers | nothing panics, no one-shot timer is missed |
| `timer_ack` | the same | violation: an acknowledgement takes the other processor's event |
| `pi3` | 2 processors, 4 units of memory, 4 device trees, 3 events, 3 attempts | memory kept apart, all start, a thread is seen |

Why the bounds are enough. `xmodem`: the file is longer than a round of block numbers, and there is a buffer that it overruns, one
that it fills, and one with a block to spare; `M = 2 * LineCap + 2` is the smallest that `XmodemAssumption` allows; three faults lose a block, its
repetition and the ACK in a row. `xmodem_line`: the file contains the byte 4 and has a block 4, so
that payload, checksum and number can all look like an EOT. `autoboot`: FIFO and ring hold fewer
characters than can be typed, so both overrun; the trigger is above one; one slot of transmit FIFO
makes every printer wait for every other. `sdhost`: the FIFO is longer than a sector, so words of two
sectors meet in it, and there is a last sector behind which the card falls silent. Its sectors have so many bytes that the two fields of
the size have bits in three bytes of the register. `displaylist`: in 12 words three lists of two sprites
do not fit but two do, one of three sprites finds room beside the shown list in some places only, and that
of six, which the limit 7 comes to, does not fit at all; so do 97, 146 and 293 sprites in the code, with 14
words a plane and 4096 in all. Both checks turn the cursor round, and a `u` and an interrupt come into each
other. `board`: two images are what it
takes for PLLC to be set up while the VPU runs on it; the real pins per register (10) and per
bank (32) are scaled to 3 and 4 so that six pins have neighbours in both; to keep the run short,
commands about pins, I2C and fuses are not mixed with those about clocks and power, with which they
share no register. `vpu`: with three threads one is switched out while two others hold and want the lock. `arm`:
the clock wraps several times. `pi3`: a third and fourth processor would add only copies of the
second, because processor 0 starts them one by one and nobody else refers to them.

Every property of a passing run has a mutant in `PROJECT.json`: a change of the modelled code
(a check dropped, a wrong answer, an order swapped) that violates it.

Fairness. `Xmodem`, `XmodemLine`: the receiver, a loop that is the only thread of its application, and
the sender, whose timeout is a clock; nothing is asked of the line but a bound on its faults.
`Autoboot`: the two threads (LK schedules ready threads of equal priority in turn), the interrupt, the
line that sends, and the line's being quiet, which is the receive timeout; nobody has to type, and
nothing is asked of the ten seconds. `SdHost`: the driver, whose loops count down, the controller
running a command, the card sending a word and, once asked often enough, starting. `DisplayList`,
`Video`: the bring-up, interrupt and handler, clock and frames; not the console. `Pi3`: every processor
runs, the boot, the handlers and the firmware's loop included. `VpuCore`, `ArmCore` and `Board` claim no
liveness: LK's scheduler decides there, or waits have no end.

### Findings

* `sdhost_error`: `hsts_err` is declared again inside the loop (`sdhost_impl.cpp` 388), so the error
  return at 412 is never taken, and the timeout's `break` does not set it at all.
* `timer_ack`: `timer0_irq` writes back all of the status register it has read (`timer.c` 59), so a match
  of the other processor's channel in the same moment is cleared, and its timer never comes.

Seen while modelling, and kept out of the properties where they would be violated:

* stage1: an X answered before the application has blocked wakes nobody (187-194). A lost byte shifts
  the stream, so that block 4's number may be taken for the EOT or no packet is found any more. The
  loader is told one block more than was received (166), which it has not if the file fills the buffer;
  and nothing compares the file with the buffer (144-148): one of more than 2 MB is written over its end.
  `ImageInBuffer` says that only such a file does this. When `elf_load` fails, the jump is made to
  an undefined entry (57).
* display: `u` updates from a thread and shares `display_slot` with the interrupt, so the list may be
  spoilt until the next update. From 293 sprites on (580 are accepted, 247) a list is longer than the
  memory (`dance.c` 55): it is written over the end of it, then again from 0 (114-118), and so on, and the
  handler never returns. Where no place in the memory is free beside the list that is shown, from about
  146 sprites on, the new one overwrites it. A number that is typed reaches the handler before it is
  limited (246). A `u` that interrupts have come into goes on behind their lists without asking for
  room again. The loops of the DPI's gradient are swapped; `dpi_move` before `dpi_start`
  divides by zero; both commands initialise a timer that is armed.
* Pi 3: what `init_framebuffer` returns is dropped, so LK may draw at address 0. Without a readable
  tree the allocator gets the first gigabyte, VideoCore's memory and the peripherals in it
  (`platform.c` 136); the node must be named exactly `memory` and have 16 bytes. The comment about the
  "first 64k" does not agree with the kernel's address. The mailbox's timeout in microseconds is
  added to a time in milliseconds.
* timer: `current_time` of the VPU returns microseconds where LK asks for milliseconds.
* clocks: where the multiplier is halved, above 1750 MHz, `set_pll_freq` prepares the prescaler's bit in ANA1
  (307) and then masks it away (338): `KI_MASK` stands where its complement is meant, as in the
  comment at 347-350. The PLL runs at half the frequency, and 0 is returned; `SetKeepsItsWord` says so
  (`Reached`).
* pins: `gpio_set` does not check its pin (the model has the registers up to GPCLR1 and not those behind), `gpio_mode` says "done" of a pin it has refused, `gpio_test`
  leaves its pins pulled up, and VPU and ARM write the same registers without a lock.
* I2C: a receive does not look at CLKT and hangs on it; the DONE of a send makes the wait at the end
  of a transfer that also receives vacuous; the table of PLL channels is compiled empty, so
  `i2c_set_rate` always writes 0, as `get_pll_chan_freq` (`pll_read.c` 51) reads 0. That the bus is free
  when a transfer begins is left to the caller, in the code and in the model. `jitter` runs for some 10^15 toggles.
* SD: the size of a card of 1 TB or more overflows: `SD_CSD_V2_CAPACITY` (`sd_proto.hpp` 286) shifts a
  32-bit int by ten.

## 4. The proofs

Every theorem is about all values of the constants that the modules' named assumptions allow; TLC
evaluates those assumptions for the runs' values. None of the properties proved is inductive as it
stands but `NoTrail`; each proof module has an invariant of several named conjuncts (`IInv`, and in
`Board_proofs` one for each part), a lemma per action or per group of variables, and theorems.

| Module | Theorems | What the invariant adds |
|---|---|---|
| `Xmodem_proofs` | `Invariance`, `TypeCorrect`, `WindowBounded`, `LoaderInput`, `AckMeansStored`, `Refinement` | what may be on the line |
| `Xmodem_proofs`, bytes | `StreamRefinement` | that the bytes on the line and those read make up one packet, with at most one of them wrong |
| `DisplayList_proofs` | `UpdatesHaveRoom`, `CursorInMemory`, `SpritesStay`, `PictureComesUp`, `NeverATrail` | the room each step of an update still needs; where each step of the bring-up leaves the cursor |
| `DisplayList_proofs`, lists | `ListsAreShown`, `NeverTorn`, `DumpWalksList`, `OnShowsLists`, `NeverTornFromStart` | that the list shown and the one being written are kept apart, how far the new one has come, where the dump is |
| `SysTimer_proofs` | lemmas for the next two | how far ahead the compare register is |
| `ArmCore_proofs` | `ArmInvariance`, `ArmNeverPanics`, `ArmTimerKept` | what is enabled has a handler |
| `ArmCore_proofs`, Pi 3 | `MemoryAlwaysKeptApart` | what cache line and memory have of `fb_desc` between request and answer |
| `VpuCore_proofs` | `VpuInvariance`, `VpuLockWorks`, `VpuNeverPanics`, `VpuTimerKept` | what each thread has put away |
| `Autoboot_proofs` | `ConsoleInvariance`, `FirstKeyAlwaysDecides`, `OutputAlwaysKept` | keys on their way in, characters on their way out |
| `SdHost_proofs` | `SdHostInvariance`, `AlwaysRightWords`, `AlwaysBreaksOnlyOnFault`, `AlwaysKnowsSize` | where a stop command is still on its way, how the FIFO follows on what is stored, what the card has been asked |
| `Board_proofs`, fuses | `OtpInvariance`, `WriteAlwaysKeepsItsWord`, `BurnsOnlyAsked` | what a command that was given up may still do |
| `Board_proofs`, clocks | `VpuAlwaysOnLockedClock`, `SetAlwaysKeepsItsWord` | where the VPU is while PLLC is set up; what is written of what was decided |
| `Board_proofs`, ARM | `ArmAlwaysStartsReady` | how far each domain and the start have come |
| `Board_proofs`, memory | `AlwaysQuietChanges`, `RamAlwaysIsReady` | what each unit has come to at each place of `Program` |
| `Board_proofs`, I2C | `XferAlwaysMovesAll` | where each byte is, and whose the status bits are |
| `Board_proofs`, pins | `PinsAlwaysAsAsked` | what a CPU holds of a register it has not written back yet |

* **Xmodem.** `InFlight` (undamaged packets carry blocks from the one before `blockNr` up to the
  sender's position, in file order; an EOT is there only after the last block), `Window` (each step the
  sender takes past the receiver uses up an ACK that is or will be in a queue), `StopAndWait`,
  `Stored` and `Phases`. The heart is `HeadNumber`: the packet at the head is within `M - 1` blocks of
  `blockNr`, so that equal numbers modulo `M` mean equal blocks. In the code `M` is 256 and the buffer
  has 16384 blocks. `LoaderInput` is about files and buffers of any size.
  *Bytes*: `XmodemLine` has names in common with `Xmodem` and is an instance there (`Stream`). The two
  sides take turns (`Turns`); what has been read of a packet and what is still on the line are together the
  sender's packet but for one byte (`InStep`), so that a packet that is sound is the sender's, whichever
  byte is wrong (`SoundIsSenders`), its number tells the block that is due from the one before, and the
  only 4 that comes first is the sender's EOT. The hypothesis is `XmodemLine`'s own assumption.
* **DisplayList.** None of the theorems about the updates has a hypothesis: they are about every limit that is
  typed, lists that do not fit included, and about updates of the console. `IInv` counts, at each step of an
  update, the words still to be written against those left, or against those that the list has too many
  (`RoomInv`). It ends when an update begins within another. `NestInv` goes on from there: the inner
  update, the interrupt's, is counted as before, and the outer one goes on from a place before `High`. A sprite beyond the right edge must
  be known to be on its way out of it (`SpriteInv`). `PictureComesUp` joins the bring-up of `Video` to
  these: with an invariant for each of its steps (`ComingUp`) it shows that what `vec_init` and `dance_start`
  leave is a state from which the updates keep their promise; it ends with the first command.
  *Lists*: `RingInv` keeps the list that is shown apart from the words of the new one (`Apart`) and says that
  the planes written so far lead to the cursor (`Writing`). That they are apart holds while `clash` is
  `"none"`, which means only that the new list, when it was begun, would have fitted beside the one shown
  *somewhere*; that the checks of the code then find such a place is what is proved (`RoomIsClear`): the shown
  list ends where the cursor is or was turned round, so there is room behind it or before it.
  What the recursive functions `IsList`,
  `ListWords` and `Heads` compute is proved by an induction from the end of the memory, `WordInduction`, in
  which a set stands for the predicate that the prover cannot take as a parameter; `Walk` shows that
  such functions exist. `DumpInv` adds that the dump is where a walk along the list shown comes to
  (`Reached`); `ListsComeUp` what each step of the bring-up has written, and `VideoInv` joins it to `RingInv`.
  Only these two theorems (`OnShowsLists`, `NeverTornFromStart`) have a premise, `ThreeFit`: three lists of
  the two sprites that the demo begins with fit into the memory. They have 28 words, of 4096.
* **SysTimer, ArmCore.** `CompareAhead`: the register, or the value about to be written to it, is as
  many ticks ahead of the time, modulo `W`, as LK still has to wait. `Served`, `Dispatching`: from the
  end of `intc_init` on what is enabled has a handler.
* **Pi3.** An instance in `ArmCore_proofs` (`Pi`), with `ArmMemory`'s variables, for any number of processors. Unless the neighbour in the
  cache line is written meanwhile, the memory has the request when it is posted and the answer before the driver sees
  one (`Exchange`), and there is only one request (`OneRequest`). That the allocator gets only its own
  has the hypothesis `NoneCountsMore`: the last node called `memory` wins in the code, so none may count more than
  one before it; a tree with one such node satisfies this.
* **VpuCore.** A call remembers whether interrupts were on (`Remembers`), a stack keeps a place that can
  be interrupted (`Frames`), a thread that is switched out is inside a call or has not begun
  (`Waiting`), and what is unmasked has its handler and callback (`Serving`).
* **Autoboot.** Until the waker has a key, the first that came through is in front of all others
  (`InFront`); where a chain load or a reboot can spoil characters, none of the main thread's are
  left (`MainIsOut`); and nobody is about to print into a full FIFO who still trusts what he saw
  (`RoomIsThere`).
* **SdHost.** The words in the FIFO, and the one the card sends next, follow on those that are stored
  (`InOrder`), because the FIFO was empty and the card quiet when the read was sent (`Drained`). Between
  two reads a stop command is on its way or has run (`StopIsSent`); before the first, the card said that
  it had started (`Said`), which it does only in a state in which it does not send, and gave the unit it
  is addressed in (`RightUnit`). A failed command that nobody looks at (`unseen`) voids all of this.
  A read breaks off only on an error bit, a refusal or a card that fell silent; `AlwaysBreaksOnlyOnFault` shows
  for each place where that is looked at that nothing but a fault since the read began can have
  caused it. The identification needs to be followed for this command by command: the card is in the state
  in which it takes the next one (`Asking`). `AlwaysKnowsSize` and it have one
  hypothesis, `RegistersTell`: the card's register has its numbers (how many blocks, the multiplier and the
  length of a block, or how many large units) in the bits where the SD standard has them, and they make up the
  card's size. That the loop over the bytes and the driver's formulas find them there, whatever the bits around
  them are, is proved (`VersionTaken` to `RegistersAreRead`).
* **Board.** A step of Board is one of the part or leaves its variables alone (the lemmas `...OrNot`), and
  so each part has an invariant of its own.
  *Fuses*, `OtpInv`: the controller runs what
  the driver gave on the registers it set (`Commanded`), so that an answer is about the fuse that is
  worked on (`Answered`), and the bits left to do are all that are missing (`Progress`); commands
  given up run on and may do only what was asked (`Asked`), and nothing that enables programming
  is left after a write that succeeded (`Closed`).
  *Clocks*, `ClkInv`: from the wait for the crystal to the switch back the VPU is on the crystal
  (`OnCrystal`), and each step that PLLC needs is done before the VPU goes there (`PllcIsUp`), also when an
  image does so that was itself running from PLLC. `SetInv`: what `set_pll_freq` decided on at its start
  still fits PLLB at every later step (`SetPlan`), and PLLB has what was written so far (`SetWritten`); that
  the frequency is then the one asked for, or above `Limit` its half, but for two roundings, is arithmetic
  (`MultiplierIsNear`).
  *ARM*, `ArmInv`: only one domain is gone through at a time (`OneAtATime`), each step of it is there
  before the next (`StepByStep`), and at every place of `ArmProgram` is done what comes before (`ArmHas`).
  *Memory*, `SdInv`: the same for `Program`: consent is given when CTRL is written, the controller is down
  wherever its clock is changed (`ControllerDown`), a mode register command has ended before the next
  (`ModeDone`), and the size the timings are for is the one the chip reported (`SizeIsKnown`).
  *I2C*, `I2cInv`: a byte that is sent is with the caller, in the FIFO or at the device, in order (`Sending`,
  `Receiving`, `InOrder`), and the DONE that the driver waits for is of this transfer and not of one that
  failed before; only behind a send may a receive still find that one's (`DoneIsNew`).
  *Pins*, `FunctionInv`: what a CPU has read of a function register is still in it when it writes it back, unless
  the other CPU has written it in between, and then the pins it spoils are known (`Holding`). `PullInv`: every pad has the pull it was last asked
  for, or a batch still to come gives it that (`Pulled`), and the pads are clocked with that pull
  (`Clocking`).
  These invariants hold what the argument needs of the types; `TypeOK` of Board is a definition for the
  reader, no property of a run.

Every invariant and action property that a passing run checks, and both refinements, are the subject of a theorem.
Model-checked only is all liveness (`Completes`, `XIsHeard`, `ReadsReturn`, `ComesUp`, `Recovers`, `AllStart`,
`ThreadIsSeen`): fairness and ENABLED are beyond the prover. The theorems hold under the
hypotheses named above; what happens outside of them is said in section 3.

## 5. Not modelled

Of the parts that are modelled:

* the text that is printed, and LK's own code: scheduler, heap (`malloc` succeeds), partitions, ext2, ELF;
* VPU exceptions and software interrupts, after which the VPU prints and stops; that `thread_asm.S`
  and the entry code agree on the stack word by word; the second core beyond its printing;
* `mask_interrupt` on the ARM, `configure_pll_b` and `BCM2708SDHost::stop`, which nothing calls, and
  `check_sdram_usage`, whose timer is never set; `pll_chan_def`, which is compiled out; the PLLs that
  `pll_def` has no registers for;
* the mini UART's `uart_putc`, which is that of `uart.c` again; its FIFO-clearing functions;
* register set-up without control flow (video modes, baud rate), and dumps that only print.

Not modelled at all: `genet.c` (prints one register), `start4/`, `app/vc4-stage2` beyond what `Video` and
`Board` take from it, `app/gpgpud`, `app/gpiod` (stubs), `unused.c` (not built), the register headers, the
logo, and the Raspberry Pi 4 variants. `i2c.c` is modelled although it is not in the build.

What further work could add: a line in `XmodemLine` that loses bytes, once the code resynchronises, and
proofs of the liveness properties.

## 6. Running

    tlc -workers 2 -config MCBoard.cfg MCBoard
    tlapm Board_proofs.tla

and likewise for the other MC modules, their `.cfg` files, and the `_proofs` modules. The violation runs
(`MCSdHostError.cfg`, `MCArmCoreAck.cfg`) stop with a counterexample; all others finish without an error.
