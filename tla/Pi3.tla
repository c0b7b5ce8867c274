-------------------------------- MODULE Pi3 ---------------------------------
(***************************************************************************)
(* LK on the four ARM processors of a Raspberry Pi 3 (BCM2837):            *)
(* platform_early_init and platform_init (platform/bcm28xx/platform.c)     *)
(* start them and set the interrupts (intc.c), the mini UART (miniuart.c)  *)
(* and the framebuffer (FbMailbox) up.                                     *)
(*                                                                         *)
(* Processor 0 boots; the others wait in the firmware's loop for their     *)
(* entry in the spin table, which they read from memory with their caches  *)
(* off.  Every processor has a timer and a mailbox of its own, whose bits  *)
(* are interrupts from the others; the mini UART interrupts processor 0.   *)
(*                                                                         *)
(* LK's scheduler is outside this repository.  What is used of it: it has  *)
(* a processor told, holding the thread lock with interrupts off, when it  *)
(* has made a thread ready there, and INT_RESCHEDULE makes the processor   *)
(* look for its threads when the interrupt returns.                        *)
(***************************************************************************)
EXTENDS ArmMemory

CONSTANTS
  NCpus,    (* the processors: 4 *)
  MuFifo,   (* characters the mini UART holds: 8 *)
  MuBuf,    (* RXBUF_SIZE, 16: the ring buffer holds one character less *)
  MaxEvents (* bound: threads made ready, timers, characters, answers of
               VideoCore on other channels and writes next to fb_desc *)

ASSUME Pi3Assumption ==
  /\ NCpus \in Nat /\ NCpus > 1 /\ MuFifo \in Nat \ {0} /\ MuBuf \in Nat /\ MuBuf > 1
  /\ MaxEvents \in Nat

Cpus        == 0..(NCpus - 1)
Nobody      == NCpus
Secondaries == Cpus \ {0}

VARIABLES
  bootPc,       (* processor 0: where it is in platform_early_init and after *)
  next,         (* the loop's processor while it fills the spin table in *)
  cpu,          (* the others: "wfe", "awake", or "runs" *)
  event,        (* of each: has there been a sev since its last wfe? *)
  spinCache,    (* the spin table's entries that processor 0 has written ... *)
  spinMemory,   (* ... and those that have reached the memory *)
  enabled,      (* are the mini UART's interrupts passed on? *)
  handlerTable, (* int_handler_table: the sources with a handler *)
  timerControl, (* the processors whose timer's interrupt is on *)
  mboxControl,  (* the processors whose mailbox's interrupt is on *)
  timerLine,    (* the processors whose timer asks for an interrupt *)
  mbox,         (* the processors with the reschedule bit in their mailbox *)
  irqPc,        (* platform_irq on each processor *)
  pend,         (* of each: was the bit in the mailbox it has read? *)
  sender,       (* the processor that holds the thread lock, or Nobody, ... *)
  toSend,       (* ... and those it has still to tell *)
  want,         (* history: the processors with a thread they have not looked for *)
  muFifo,       (* the mini UART: how many characters it holds *)
  muOn,         (* does it ask for interrupts? *)
  muBuf,        (* characters in the ring buffer *)
  typed, made, fired, (* for the bounds *)
  panicked

bootVars == <<bootPc, next, cpu, event, spinCache, spinMemory, lent>>
intcVars == <<enabled, handlerTable, timerControl, mboxControl>>
irqVars  == <<timerLine, mbox, irqPc, pend, fired, panicked>>
lkVars   == <<sender, toSend, want, made>>
muVars   == <<muFifo, muOn, muBuf, typed>>
vars     == <<bootVars, intcVars, irqVars, lkVars, muVars, mailboxVars>>

InBound == made + fired + typed + others + writes < MaxEvents

Goes(from, to) == bootPc = from /\ bootPc' = to /\ UNCHANGED <<next, cpu, event, spinCache, spinMemory, lent>>

KernelUp == bootPc \notin {"reset", "timer", "timer2", "memory", "write", "clean", "sev"}

(* Does a processor run a thread, with interrupts on?                      *)
InThread(c) ==
  /\ ~panicked /\ irqPc[c] = "none" /\ sender # c
  /\ IF c = 0 THEN KernelUp ELSE cpu[c] = "runs"

-----------------------------------------------------------------------------
(* platform_early_init; processor 0's interrupts are off. *)

(* intc_init *)
IntcInit ==
  /\ Goes("reset", "timer")
  /\ enabled' = FALSE /\ mboxControl' = Cpus
  /\ UNCHANGED <<handlerTable, timerControl, irqVars, lkVars, muVars, mailboxVars>>

(* arm_generic_timer_init: register_int_handler, unmask_interrupt.         *)
TimerRegister ==
  /\ Goes("timer", "timer2")
  /\ handlerTable' = handlerTable \cup {"timer"}
  /\ UNCHANGED <<enabled, timerControl, mboxControl, irqVars, lkVars, muVars, mailboxVars>>

TimerUnmask ==
  /\ Goes("timer2", "memory")
  /\ timerControl' = Cpus
  /\ UNCHANGED <<enabled, handlerTable, mboxControl, irqVars, lkVars, muVars, mailboxVars>>

(* The walk through the tree, pmm_add_arena and pmm_alloc_range.           *)
AddMemory ==
  /\ bootPc = "memory" /\ bootPc' = "write"
  /\ AddArena
  /\ UNCHANGED <<next, cpu, event, spinCache, spinMemory, intcVars, irqVars, lkVars, muVars, mailboxVars>>

SpinWrite ==
  /\ bootPc = "write"
  /\ spinCache' = spinCache \cup {next}
  /\ bootPc' = "clean"
  /\ UNCHANGED <<next, cpu, event, spinMemory, lent, intcVars, irqVars, lkVars, muVars, mailboxVars>>

(* Mutant: the event is sent first. *)
SpinSevFirst ==
  /\ bootPc = "clean"
  /\ event' = Secondaries
  /\ bootPc' = "sev"
  /\ UNCHANGED <<next, cpu, spinCache, spinMemory, lent, intcVars, irqVars, lkVars, muVars, mailboxVars>>

SpinClean ==
  /\ bootPc = "clean"
  /\ spinMemory' = spinCache
  /\ bootPc' = "sev"
  /\ UNCHANGED <<next, cpu, event, spinCache, lent, intcVars, irqVars, lkVars, muVars, mailboxVars>>

(* sev reaches all; then the next processor's turn, or LK's kernel starts. *)
SpinSev ==
  /\ bootPc = "sev"
  /\ event' = Secondaries
  /\ next' = (IF next < NCpus - 1 THEN next + 1 ELSE next)
  /\ bootPc' = (IF next < NCpus - 1 THEN "write" ELSE "kernel")
  /\ UNCHANGED <<cpu, spinCache, spinMemory, lent, intcVars, irqVars, lkVars, muVars, mailboxVars>>

(* The firmware's loop: wfe, and a look at the table. *)
Wake(c) ==
  /\ cpu[c] = "wfe" /\ c \in event
  /\ event' = event \ {c}
  /\ cpu' = [cpu EXCEPT ![c] = "awake"]
  /\ UNCHANGED <<bootPc, next, spinCache, spinMemory, lent, intcVars, irqVars, lkVars, muVars, mailboxVars>>

Look(c) ==
  /\ cpu[c] = "awake"
  /\ cpu' = [cpu EXCEPT ![c] = IF c \in spinMemory THEN "runs" ELSE "wfe"]
  /\ UNCHANGED <<bootPc, next, event, spinCache, spinMemory, lent, intcVars, irqVars, lkVars, muVars, mailboxVars>>

-----------------------------------------------------------------------------
(* platform_init, in a thread: uart_init and init_framebuffer. *)

(* cbuf_initialize and register_int_handler *)
UartRegister ==
  /\ InThread(0) /\ Goes("kernel", "unmask")
  /\ muBuf' = 0 /\ handlerTable' = handlerTable \cup {"uart"}
  /\ UNCHANGED <<enabled, timerControl, mboxControl, irqVars, lkVars, muFifo, muOn, typed, mailboxVars>>

UartUnmask ==
  /\ InThread(0) /\ Goes("unmask", "clear")
  /\ enabled' = TRUE
  /\ UNCHANGED <<handlerTable, timerControl, mboxControl, irqVars, lkVars, muVars, mailboxVars>>

UartClear ==
  /\ InThread(0) /\ Goes("clear", "enable")
  /\ muFifo' = 0
  /\ UNCHANGED <<intcVars, irqVars, lkVars, muOn, muBuf, typed, mailboxVars>>

UartEnable ==
  /\ InThread(0) /\ Goes("enable", "framebuffer")
  /\ muOn' = TRUE
  /\ UNCHANGED <<intcVars, irqVars, lkVars, muFifo, muBuf, typed, mailboxVars>>

Framebuffer ==
  /\ InThread(0) /\ bootPc = "framebuffer"
  /\ \/ FillIn \/ Clean \/ MailboxWrite \/ MailboxRead \/ MailboxReadTimesOut \/ Invalidate
     \/ GetFramebuffer
  /\ UNCHANGED <<bootVars, intcVars, irqVars, lkVars, muVars>>

(* uart_getc, and so platform_dgetc: LK's console takes a character.       *)
UartGetc(c) ==
  /\ InThread(c) /\ bootPc \notin {"kernel", "unmask", "clear"} /\ muBuf > 0
  /\ muBuf' = muBuf - 1
  /\ UNCHANGED <<bootVars, intcVars, irqVars, lkVars, muFifo, muOn, typed, mailboxVars>>

-----------------------------------------------------------------------------
(* platform_irq. *)

UartAsks == muOn /\ muFifo > 0

LocalPend(c) ==
  (IF c \in timerLine \cap timerControl THEN {"timer"} ELSE {})
    \cup (IF c \in mbox \cap mboxControl THEN {"mailbox"} ELSE {})

Irq(c, from, to) == irqPc[c] = from /\ ~panicked /\ irqPc' = [irqPc EXCEPT ![c] = to]

Interrupt(c) ==
  /\ InThread(c)
  /\ LocalPend(c) # {} \/ (c = 0 /\ enabled /\ UartAsks)
  /\ Irq(c, "none", "local")
  /\ UNCHANGED <<bootVars, intcVars, timerLine, mbox, pend, fired, panicked, lkVars, muVars, mailboxVars>>

(* The local sources come first, the timer before the mailbox; then the    *)
(* banks, where no source but the mini UART's is enabled.                  *)
Decode(c) ==
  /\ LET local  == LocalPend(c)
         vector == IF "timer" \in local THEN "timer"
                   ELSE IF "mailbox" \in local THEN "mailbox"
                   ELSE IF enabled /\ UartAsks THEN "uart" ELSE "nothing"
     IN /\ Irq(c, "local", IF vector = "nothing" THEN "return" ELSE vector)
        /\ panicked' = (vector \in {"timer", "uart"} \ handlerTable)
  /\ UNCHANGED <<bootVars, intcVars, timerLine, mbox, pend, fired, lkVars, muVars, mailboxVars>>

(* LK's timer handler. *)
TimerIrq(c) ==
  /\ Irq(c, "timer", "return") /\ timerLine' = timerLine \ {c}
  /\ UNCHANGED <<bootVars, intcVars, mbox, pend, fired, panicked, lkVars, muVars, mailboxVars>>

(* Mutant: the mailbox is cleared, then read.                              *)
MailboxClearFirst(c) ==
  /\ Irq(c, "mailbox", "ack")
  /\ mbox' = mbox \ {c} /\ pend' = [pend EXCEPT ![c] = c \in mbox']
  /\ UNCHANGED <<bootVars, intcVars, timerLine, fired, panicked, lkVars, muVars, mailboxVars>>

MailboxPend(c) ==
  /\ Irq(c, "mailbox", "ack")
  /\ pend' = [pend EXCEPT ![c] = c \in mbox]
  /\ UNCHANGED <<bootVars, intcVars, timerLine, mbox, fired, panicked, lkVars, muVars, mailboxVars>>

(* What was read is acknowledged; mp_mbx_reschedule_irq asks LK to look.   *)
MailboxAck(c) ==
  /\ Irq(c, "ack", IF pend[c] THEN "reschedule" ELSE "return")
  /\ mbox' = (IF pend[c] THEN mbox \ {c} ELSE mbox)
  /\ pend' = [pend EXCEPT ![c] = FALSE]
  /\ UNCHANGED <<bootVars, intcVars, timerLine, fired, panicked, lkVars, muVars, mailboxVars>>

(* aux_irq: one character at a time into the ring buffer, which drops what *)
(* does not fit.                                                           *)
AuxIrq ==
  /\ irqPc[0] = "uart" /\ ~panicked
  /\ IF UartAsks
       THEN /\ muFifo' = muFifo - 1
            /\ muBuf' = (IF muBuf + 1 < MuBuf THEN muBuf + 1 ELSE muBuf)
            /\ UNCHANGED irqPc
       ELSE irqPc' = [irqPc EXCEPT ![0] = "reschedule"] /\ UNCHANGED <<muFifo, muBuf>>
  /\ UNCHANGED <<bootVars, intcVars, timerLine, mbox, pend, fired, panicked, lkVars, muOn, typed, mailboxVars>>

(* INT_NO_RESCHEDULE, or INT_RESCHEDULE: LK takes the thread lock.         *)
Return(c) ==
  /\ \/ Irq(c, "return", "none") /\ UNCHANGED want
     \/ sender = Nobody /\ Irq(c, "reschedule", "none") /\ want' = want \ {c}
  /\ UNCHANGED <<bootVars, intcVars, timerLine, mbox, pend, fired, panicked, sender, toSend, made, muVars, mailboxVars>>

-----------------------------------------------------------------------------
(* LK's scheduler and bcm28xx_send_ipi. *)

MakeReady(c) ==
  /\ InThread(c) /\ sender = Nobody /\ InBound /\ made' = made + 1
  /\ sender' = c
  /\ toSend' \in SUBSET (Cpus \ {c})
  /\ want' = want \cup toSend'
  /\ UNCHANGED <<bootVars, intcVars, irqVars, muVars, mailboxVars>>

(* The loop over the processors in the mask. *)
SendIpi ==
  /\ sender # Nobody
  /\ IF toSend = {} THEN sender' = Nobody /\ UNCHANGED <<mbox, toSend>>
       ELSE LET i == CHOOSE i \in toSend : \A j \in toSend : i <= j
            IN mbox' = mbox \cup {i} /\ toSend' = toSend \ {i} /\ UNCHANGED sender
  /\ UNCHANGED <<bootVars, intcVars, timerLine, irqPc, pend, fired, panicked, want, made, muVars, mailboxVars>>

-----------------------------------------------------------------------------
(* The hardware, and the user. *)

TimerFires(c) ==
  /\ KernelUp /\ InBound /\ fired' = fired + 1
  /\ timerLine' = timerLine \cup {c}
  /\ UNCHANGED <<bootVars, intcVars, mbox, irqPc, pend, panicked, lkVars, muVars, mailboxVars>>

Type ==
  /\ InBound /\ typed' = typed + 1
  /\ muFifo' = (IF muFifo < MuFifo THEN muFifo + 1 ELSE muFifo)
  /\ UNCHANGED <<bootVars, intcVars, irqVars, lkVars, muOn, muBuf, mailboxVars>>

(* Bound: while it matters to the framebuffer. *)
Outside ==
  /\ fbPc # "idle" /\ screen = "none"
  /\ MakeRoom \/ Answer \/ Evict \/ (InBound /\ (AnswerOther \/ WriteNeighbour))
  /\ UNCHANGED <<bootVars, intcVars, irqVars, lkVars, muVars>>

-----------------------------------------------------------------------------
(* The firmware may have used the mini UART, with interrupts.              *)
Init ==
  /\ bootPc = "reset" /\ next = 1
  /\ cpu = [c \in Secondaries |-> "wfe"] /\ event = {} /\ spinCache = {} /\ spinMemory = {} /\ lent = FALSE
  /\ enabled \in BOOLEAN /\ handlerTable = {} /\ timerControl = {} /\ mboxControl = {}
  /\ timerLine = {} /\ mbox = {} /\ irqPc = [c \in Cpus |-> "none"] /\ pend = [c \in Cpus |-> FALSE]
  /\ sender = Nobody /\ toSend = {} /\ want = {}
  /\ muFifo = 0 /\ muOn \in BOOLEAN /\ muBuf = 0
  /\ typed = 0 /\ made = 0 /\ fired = 0 /\ panicked = FALSE
  /\ MailboxInit

Boot ==
  \/ IntcInit \/ TimerRegister \/ TimerUnmask \/ AddMemory \/ SpinWrite \/ SpinClean \/ SpinSev
  \/ UartRegister \/ UartUnmask \/ UartClear \/ UartEnable \/ Framebuffer

Cpu(c) ==
  \/ Interrupt(c) \/ Decode(c) \/ TimerIrq(c) \/ MailboxPend(c) \/ MailboxAck(c) \/ Return(c)

Next ==
  \/ Boot \/ AuxIrq \/ SendIpi \/ Type \/ Outside
  \/ \E c \in Secondaries : Wake(c) \/ Look(c)
  \/ \E c \in Cpus : Cpu(c) \/ MakeReady(c) \/ TimerFires(c) \/ UartGetc(c)

(* Each processor runs; the firmware's loop does, too. *)
Spec ==
  /\ Init /\ [][Next]_vars
  /\ WF_vars(Boot) /\ WF_vars(SendIpi) /\ WF_vars(AuxIrq)
  /\ \A c \in Cpus : WF_vars(Cpu(c))
  /\ \A c \in Secondaries : WF_vars(Wake(c)) /\ WF_vars(Look(c))

-----------------------------------------------------------------------------
(* Properties. *)

(* Every processor that the spin table has an entry for starts: no sev is  *)
(* sent before the entry can be seen.                                      *)
AllStart == <>(\A c \in Secondaries : cpu[c] = "runs")

(* A processor that another has told to look for a thread, and that runs,  *)
(* does look, however the interrupt comes between the other's, its own     *)
(* timer's and the handler's steps.                                        *)
ThreadIsSeen == \A c \in Cpus : c \in want ~> c \notin want
=============================================================================
