------------------------------ MODULE Autoboot ------------------------------
(***************************************************************************)
(* stage1 at its console (app/vc4-stage1/stage1.c, on the PL011 of Uart):  *)
(* its start code (arch/vpu/start.S) and the driver set the console up, it *)
(* prompts (stage2_entry, waker_entry), loads an image from the card or    *)
(* from the line, and jumps to it (arch/vpu/arch.c); the image sets the    *)
(* console up again, and when it is told to it starts the VPU's second     *)
(* core, or reboots the board (platform/bcm28xx/platform.c).               *)
(*                                                                         *)
(* The application's thread prints the prompt, starts the thread "waker",  *)
(* which waits for one key, and blocks on a wait queue for ten seconds.    *)
(* Threads, the wait queue and the timer are LK's and outside this         *)
(* repository; what is used of them here is that wait_queue_wake_all wakes *)
(* the threads that are blocked at that moment and hands them its last     *)
(* argument, and that a thread whose time is up is handed an error.  Both  *)
(* happen under the thread lock, and so do the calls in stage1: each is    *)
(* one step.  Between steps any thread that can run may run: an interrupt  *)
(* asks for a reschedule, and so does thread_resume.                       *)
(*                                                                         *)
(* A message is one character here, and the prompt Prompt of them.         *)
(***************************************************************************)
EXTENDS Uart

CONSTANTS
  Prompt,    (* the prompt's characters *)
  MaxTyped   (* bound: characters that arrive from the line *)

ASSUME AutobootAssumption ==
  /\ Prompt \in Nat /\ MaxTyped \in Nat
  /\ "X" \in Keys /\ Keys \cap {"none", "timeout"} = {}
  /\ Threads = {"start", "main", "waker", "core2"}

VARIABLES
  image,    (* stage1, or "next": the image that it starts *)
  main,     (* where the image's own thread is *)
  entry,    (* where arch_chain_load will jump to, or "watchdog" *)
  unmasked, (* does the UART interrupt the VPU? *)
  result,   (* what wait_queue_block returned: "none" yet, a key or "timeout" *)
  waker,    (* where waker_entry is *)
  key,      (* the waker's character; "none" until it has read one *)
  typed,    (* characters so far, for the bound *)
  first     (* history: the first key that came without an error *)

keyVars  == <<result, waker, key, typed, first>>
bootVars == <<image, main, entry, unmasked>>
vars     == <<uartVars, bootVars, keyVars>>

(* Threads run outside the handler, until the VPU is lost or stopped.      *)
Ended    == {"stray", "halted", "spin", "down"}
InThread == irqPc = "none" /\ main \notin Ended

(* The main thread's next step, once it has printed what it had to.        *)
Goes(from, to) == InThread /\ Printed("main") /\ main = from /\ main' = to

Tells(from, to) ==
  /\ Goes(from, to) /\ Say("main", 1)
  /\ UNCHANGED <<rxVars, control, image, entry, unmasked, keyVars>>

-----------------------------------------------------------------------------
(* The start code, uart_init_early and uart_init, in either image.         *)

(* manual_uart_cfg sets the PL011 up without stopping it ...               *)
ManualUartCfg ==
  /\ Goes("entered", "set up")
  /\ Configure("start", {"rx", "tx"})
  /\ UNCHANGED <<rxVars, image, entry, unmasked, keyVars>>

(* ... and prints without looking for room. *)
ManualU ==
  /\ Goes("set up", "reset")
  /\ IF HasRoom THEN tx' = Append(tx, "start") /\ UNCHANGED lost
                ELSE lost' = Lost("full", "start", "stale") /\ UNCHANGED tx
  /\ UNCHANGED <<rxVars, sending, left, putc, control, image, entry, unmasked, keyVars>>

EarlyShutdown ==
  /\ Goes("reset", "early off")
  /\ Shutdown
  /\ UNCHANGED <<image, entry, unmasked, keyVars>>

EarlyConfigure ==
  /\ Goes("early off", "early")
  /\ Configure("early", {"tx"})
  /\ UNCHANGED <<rxVars, image, entry, unmasked, keyVars>>

(* What LK prints before and in platform_init. *)
Banner == Tells("early", "flush")

UartFlush ==
  /\ Goes("flush", "off") /\ HasRoom
  /\ Shutdown
  /\ UNCHANGED <<image, entry, unmasked, keyVars>>

(* With a new ring buffer, old interrupts cleared, and the new unmasked.   *)
UartOn ==
  /\ Goes("off", IF image = "stage1" THEN "start" ELSE "shell")
  /\ Configure("init", {"rx", "tx"})
  /\ rxbuf' = <<>> /\ idle' = FALSE /\ unmasked' = TRUE
  /\ UNCHANGED <<fifo, over, irqPc, image, entry, keyVars>>

-----------------------------------------------------------------------------
(* stage2_entry. *)

(* The prompt is on its way, and the wait queue is initialised.            *)
PrintPrompt ==
  /\ Goes("start", "prompted") /\ Say("main", Prompt)
  /\ UNCHANGED <<rxVars, control, image, entry, unmasked, keyVars>>

(* thread_create and thread_resume. *)
StartWaker ==
  /\ Goes("prompted", "started")
  /\ waker' = "getc"
  /\ UNCHANGED <<uartVars, image, entry, unmasked, result, key, typed, first>>

(* wait_queue_block(&waiter, 10000) *)
Block ==
  /\ Goes("started", "blocked")
  /\ UNCHANGED <<uartVars, image, entry, unmasked, keyVars>>

(* LK's timer: ten seconds have gone by.                                   *)
TimeUp ==
  /\ InThread /\ main = "blocked" /\ main' = "woken"
  /\ result' = "timeout"
  /\ UNCHANGED <<uartVars, image, entry, unmasked, waker, key, typed, first>>

PrintResult == Tells("woken", "told")

(* Mutant: a test of the result that takes an error for a key.             *)
AnyResult ==
  /\ Goes("told", IF result # "none" THEN "xmodem" ELSE "autoboot")
  /\ UNCHANGED <<uartVars, image, entry, unmasked, keyVars>>

(* if (ret == 'X'): xmodem_receive, otherwise load_stage2.                 *)
Decide ==
  /\ Goes("told", IF result = "X" THEN "xmodem" ELSE "autoboot")
  /\ UNCHANGED <<uartVars, image, entry, unmasked, keyVars>>

-----------------------------------------------------------------------------
(* xmodem_receive (Xmodem has its protocol) and load_stage2. *)

(* An image is loaded.  load_and_run_elf returns its entry, and nothing in *)
(* particular if elf_load has failed.                                      *)
Loaded ==
  /\ \E from \in {"xmodem", "autoboot"} : Goes(from, "load")
  /\ entry' \in {"next", "undefined"}
  /\ UNCHANGED <<uartVars, image, unmasked, keyVars>>

(* There is no image: the function returns, and stage1 with it.            *)
NotLoaded == \E from \in {"xmodem", "autoboot"} : Tells(from, "returned")

(* The card's driver panics: platform_halt with HALT_ACTION_HALT.          *)
Panic == Tells("autoboot", "panic")

Halt ==
  /\ Goes("panic", "halted")
  /\ unmasked' = FALSE
  /\ UNCHANGED <<uartVars, image, entry, keyVars>>

-----------------------------------------------------------------------------
(* arch_chain_load, and platform_halt with HALT_ACTION_REBOOT: each prints *)
(* a line, waits for the PL011 to have sent it, and leaves.  Interrupts    *)
(* are on up to there.                                                     *)

ChainLoad == Tells("load", "drain")

(* cmd_boot_other_core: its output goes on while the second core's begins. *)
BootOtherCore ==
  /\ Goes("shell", "two cores")
  /\ left' = [left EXCEPT !["main"] = 1, !["core2"] = 1]
  /\ UNCHANGED <<rxVars, tx, sending, putc, lost, control, image, entry, unmasked, keyVars>>

Reboot ==
  /\ \E from \in {"shell", "two cores"} : Goes(from, "drain")
  /\ Say("main", 1)
  /\ entry' = "watchdog"
  /\ UNCHANGED <<rxVars, control, image, unmasked, keyVars>>

UartFlushTx ==
  /\ \/ Goes("drain", "busy") /\ TxEmpty
     \/ Goes("busy", "leave") /\ NotBusy
  /\ UNCHANGED <<uartVars, image, entry, unmasked, keyVars>>

(* The image that is jumped to knows nothing of this one's threads.        *)
Jump ==
  /\ entry # "watchdog"
  /\ Goes("leave", IF entry = "next" THEN "entered" ELSE "stray")
  /\ image' = (IF entry = "next" THEN "next" ELSE image) /\ unmasked' = FALSE
  /\ waker' = "none"
  /\ left' = [p \in Printers |-> 0] /\ putc' = [p \in Printers |-> "idle"]
  /\ UNCHANGED <<rxVars, tx, sending, lost, control, entry, result, key, typed, first>>

StartWatchdog ==
  /\ entry = "watchdog" /\ Goes("leave", "spin")
  /\ unmasked' = FALSE
  /\ UNCHANGED <<uartVars, image, entry, keyVars>>

(* The board resets, with what the PL011 has not sent.                     *)
Unsent == {p \in Printers : p = sending \/ \E i \in 1..Len(tx) : tx[i] = p}

WatchdogFires ==
  /\ main = "spin" /\ main' = "down"
  /\ lost' \in (IF Unsent = {} THEN {lost} ELSE {Lost("reset", p, "room") : p \in Unsent})
  /\ UNCHANGED <<rxVars, tx, sending, left, putc, control, image, entry, unmasked, keyVars>>

MainPrints ==
  /\ InThread /\ Putc("main")
  /\ UNCHANGED <<rxVars, control, bootVars, keyVars>>

(* core2_start and core2_entry, beside whatever this core does: the same   *)
(* uart_putc, and then a loop without an end.                              *)
OtherCorePrints ==
  /\ main # "down" /\ Putc("core2")
  /\ UNCHANGED <<rxVars, control, bootVars, keyVars>>

-----------------------------------------------------------------------------
(* The waker. *)

WakerReads ==
  /\ InThread /\ waker = "getc" /\ waker' = "got"
  /\ \E c \in Keys : Getc(c) /\ key' = c /\ Say("waker", IF c = "X" THEN 1 ELSE 0)
  /\ UNCHANGED <<control, bootVars, result, typed, first>>

WakerPrints ==
  /\ InThread /\ Putc("waker")
  /\ UNCHANGED <<rxVars, control, bootVars, keyVars>>

(* wait_queue_wake_all(waiter, false, c) *)
WakeAll(c) ==
  IF main = "blocked" THEN main' = "woken" /\ result' = c
                      ELSE UNCHANGED <<main, result>>

(* The waker wakes the application for an X, and ends after any key.       *)
WakerAnswers ==
  /\ InThread /\ waker = "got" /\ Printed("waker") /\ waker' = "done"
  /\ IF key = "X" THEN WakeAll(key) ELSE UNCHANGED <<main, result>>
  /\ UNCHANGED <<uartVars, image, entry, unmasked, key, typed, first>>

-----------------------------------------------------------------------------
(* The interrupt, the user and the line. *)

Irq ==
  /\ \/ unmasked /\ main \notin Ended /\ EnterIrq
     \/ ReadDr
     \/ IrqDone
     \/ irqPc = "loop" /\ Putc("irq") /\ UNCHANGED <<rxVars, control>>
  /\ UNCHANGED <<bootVars, keyVars>>

Type ==
  /\ typed < MaxTyped /\ typed' = typed + 1
  /\ \E c \in Keys \cup {"bad"} :
       /\ Arrive(c)
       /\ first' = IF first = "none" /\ c # "bad" /\ Len(fifo) < FifoSize THEN c ELSE first
  /\ UNCHANGED <<bootVars, result, waker, key>>

LineIsQuiet == Silence /\ UNCHANGED <<bootVars, keyVars>>

LineSends == Transmit /\ UNCHANGED <<bootVars, keyVars>>

-----------------------------------------------------------------------------
Init ==
  /\ UartInit
  /\ image = "stage1" /\ main = "entered" /\ entry = "none" /\ unmasked = FALSE
  /\ result = "none" /\ waker = "none" /\ key = "none"
  /\ typed = 0 /\ first = "none"

Main ==
  \/ ManualUartCfg \/ ManualU \/ EarlyShutdown \/ EarlyConfigure \/ Banner \/ UartFlush \/ UartOn
  \/ PrintPrompt \/ StartWaker \/ Block \/ PrintResult \/ Decide
  \/ Loaded \/ NotLoaded \/ Panic \/ Halt \/ ChainLoad \/ UartFlushTx \/ Jump \/ StartWatchdog
  \/ MainPrints

Waker == WakerReads \/ WakerPrints \/ WakerAnswers

Next ==
  \/ Main \/ TimeUp \/ BootOtherCore \/ Reboot \/ WatchdogFires \/ OtherCorePrints \/ Waker
  \/ Irq \/ Type \/ LineIsQuiet \/ LineSends

(* Ready threads get to run, and the PL011 sends, and raises its           *)
(* interrupts.  Nobody has to type, and the ten seconds may be long.       *)
Spec ==
  /\ Init /\ [][Next]_vars
  /\ WF_vars(Main) /\ WF_vars(Waker) /\ WF_vars(Irq) /\ WF_vars(LineIsQuiet) /\ WF_vars(LineSends)

-----------------------------------------------------------------------------
(* Properties. *)

TypeOK ==
  /\ UartTypeOK
  /\ image \in {"stage1", "next"} /\ entry \in {"none", "next", "undefined", "watchdog"}
  /\ main \in {"entered", "set up", "reset", "early off", "early", "flush", "off", "start", "prompted", "started",
               "blocked", "woken", "told", "xmodem", "autoboot", "load", "returned", "panic",
               "shell", "two cores", "drain", "busy", "leave"} \cup Ended
  /\ unmasked \in BOOLEAN
  /\ result \in {"none", "timeout", "X"}
  /\ waker \in {"none", "getc", "got", "done"}
  /\ key \in Keys \cup {"none"} /\ first \in Keys \cup {"none"}
  /\ typed \in 0..MaxTyped

(* Only an X can keep stage1 from booting from the card, and it is the     *)
(* first key that comes through, past breaks, framing errors and overruns  *)
(* of the FIFO and of the ring buffer.                                     *)
FirstKeyDecides ==
  /\ key # "none" => key = first
  /\ main = "xmodem" => first = "X"

(* An X that is the first key to arrive while stage2_entry is blocked      *)
(* reaches the waker, though a single key does not fill the FIFO to its    *)
(* trigger level, and leads to xmodem mode unless the ten seconds end      *)
(* before that.                                                            *)
XIsHeard ==
  (main = "blocked" /\ first = "X" /\ waker # "done")
    ~> (main = "xmodem" \/ result = "timeout")

(* What the main thread prints reaches the line, also across a chain load  *)
(* and a reboot, which uart_flush_tx waits for.  Two things can lose it:   *)
(* uart_init, before which there need only be room (uart.c:104), and       *)
(* another printer that takes the room uart_putc has found.                *)
OutputKept ==
  \/ lost = NoneLost
  \/ lost.where = "init"
  \/ lost.where = "full" /\ lost.state = "stale"
  \/ lost.where \in {"start", "early", "reset"} /\ lost.who # "main"
=============================================================================
