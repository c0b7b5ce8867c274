------------------------------ MODULE ArmCore -------------------------------
(***************************************************************************)
(* LK on the ARM of a Raspberry Pi 1 and its interrupt controller          *)
(* (platform/bcm28xx/intc.c), beside the VPU whose firmware has started    *)
(* it.  The two share the system timer (SysTimer), each with a driver and  *)
(* a channel of its own.  The UART's interrupt is the ARM's alone: the     *)
(* firmware that starts it is built to transmit only.                      *)
(*                                                                         *)
(* LK is one thread here; interrupts come between its steps.  Of the VPU,  *)
(* which VpuCore has in detail, there are the steps of its timer driver.   *)
(***************************************************************************)
EXTENDS SysTimer

ASSUME ArmAssumption == {"vpu", "arm"} \subseteq Procs

VARIABLES
  enabled,      (* the sources the controller passes on *)
  handlerTable, (* int_handler_table: the sources with a handler *)
  uartLine,     (* does the UART ask for an interrupt? *)
  armBoot,      (* how far LK has come *)
  irqPc,        (* platform_irq: "none", or the step it is at *)
  vpuIn,        (* is the VPU in its timer's interrupt? *)
  panicked

armVars == <<enabled, handlerTable, uartLine, armBoot, irqPc, vpuIn, panicked>>
vars == <<armVars, timerVars>>

Pending == enabled \cap ((IF uartLine THEN {"uart"} ELSE {}) \cup (IF "arm" \in cs THEN {"timer"} ELSE {}))

InThread == irqPc = "none" /\ ~panicked

KernelUp == armBoot # "start"

-----------------------------------------------------------------------------
(* platform_early_init, platform_init and the timer's init hook.           *)

(* Mutant: the first bank's sources stay enabled.                          *)
IntcInitBank2 ==
  /\ armBoot = "start"
  /\ enabled' = enabled \cap {"timer"} /\ armBoot' = "kernel"
  /\ UNCHANGED <<handlerTable, uartLine, irqPc, vpuIn, panicked, timerVars>>

(* intc_init disables every source.                                        *)
IntcInit ==
  /\ armBoot = "start"
  /\ enabled' = {} /\ armBoot' = "kernel"
  /\ UNCHANGED <<handlerTable, uartLine, irqPc, vpuIn, panicked, timerVars>>

(* register_int_handler and unmask_interrupt, each under a lock that keeps *)
(* interrupts off: first for the UART, then for the timer.                 *)
Register(source) ==
  /\ InThread /\ armBoot = (IF source = "uart" THEN "kernel" ELSE "timer")
  /\ handlerTable' = handlerTable \cup {source}
  /\ armBoot' = (IF source = "uart" THEN "uart" ELSE "timer2")
  /\ UNCHANGED <<enabled, uartLine, irqPc, vpuIn, panicked, timerVars>>

(* LK has set its preemption timer before the hooks.                       *)
Unmask(source) ==
  /\ InThread /\ armBoot = (IF source = "uart" THEN "uart" ELSE "timer2")
  /\ callback["arm"]
  /\ enabled' = enabled \cup {source}
  /\ armBoot' = (IF source = "uart" THEN "timer" ELSE "up")
  /\ UNCHANGED <<handlerTable, uartLine, irqPc, vpuIn, panicked, timerVars>>

(* LK sets the timer, in a thread or in the timer's callback.              *)
ArmSetTimer ==
  /\ KernelUp /\ ~panicked /\ irqPc \in {"none", "handled"}
  /\ SetOneshot("arm") \/ WriteCompare("arm")
  /\ UNCHANGED armVars

-----------------------------------------------------------------------------
(* platform_irq.  It reads the first bank of pending sources, then the     *)
(* second, and serves one source.                                          *)

(* Interrupts are off while the timer is being set.                        *)
Interrupt ==
  /\ InThread /\ KernelUp /\ TimerIdle("arm") /\ Pending # {}
  /\ irqPc' = "pend1"
  /\ UNCHANGED <<enabled, handlerTable, uartLine, armBoot, vpuIn, panicked, timerVars>>

Pend1 ==
  /\ irqPc = "pend1"
  /\ IF "timer" \in Pending
       THEN /\ panicked' = ("timer" \notin handlerTable)
            /\ TimerEnter("arm") /\ irqPc' = "timer"
       ELSE UNCHANGED <<panicked, timerVars>> /\ irqPc' = "pend2"
  /\ UNCHANGED <<enabled, handlerTable, uartLine, armBoot, vpuIn>>

(* Nothing pending any more is no error: the VPU may have acknowledged it. *)
Pend2 ==
  /\ irqPc = "pend2"
  /\ panicked' = ("uart" \in Pending \ handlerTable)
  /\ uartLine' = (uartLine /\ "uart" \notin Pending)
  /\ irqPc' = "handled"
  /\ UNCHANGED <<enabled, handlerTable, armBoot, vpuIn, timerVars>>

TimerIrq ==
  /\ irqPc = "timer" /\ ~panicked
  /\ \/ ReadStatus("arm") /\ UNCHANGED <<irqPc, panicked>>
     \/ AckStatus("arm") /\ UNCHANGED <<irqPc, panicked>>
     \/ CallBack("arm") /\ irqPc' = "handled" /\ panicked' = ~callback["arm"]
  /\ UNCHANGED <<enabled, handlerTable, uartLine, armBoot, vpuIn>>

Return ==
  /\ irqPc = "handled" /\ ~panicked /\ TimerIdle("arm")
  /\ irqPc' = "none"
  /\ UNCHANGED <<enabled, handlerTable, uartLine, armBoot, vpuIn, panicked, timerVars>>

-----------------------------------------------------------------------------
(* The VPU, and the line of the UART. *)

VpuTimer ==
  /\ \/ /\ timerPc["vpu"] = "idle" /\ "vpu" \in cs /\ ~vpuIn
        /\ TimerEnter("vpu") /\ vpuIn' = TRUE
     \/ (ReadStatus("vpu") \/ AckStatus("vpu") \/ CallBack("vpu")) /\ UNCHANGED vpuIn
     \/ (SetOneshot("vpu") \/ WriteCompare("vpu")) /\ UNCHANGED vpuIn
     \/ TimerIdle("vpu") /\ vpuIn /\ vpuIn' = FALSE /\ UNCHANGED timerVars
  /\ UNCHANGED <<enabled, handlerTable, uartLine, armBoot, irqPc, panicked>>

UartAsks ==
  /\ ~uartLine
  /\ uartLine' = TRUE
  /\ UNCHANGED <<enabled, handlerTable, armBoot, irqPc, vpuIn, panicked, timerVars>>

-----------------------------------------------------------------------------
(* What is enabled is unknown: intc_init relies on nothing.                *)
Init ==
  /\ enabled \in SUBSET {"timer", "uart"} /\ handlerTable = {} /\ uartLine \in BOOLEAN
  /\ armBoot = "start" /\ irqPc = "none" /\ vpuIn = FALSE /\ panicked = FALSE
  /\ TimerInit

Next ==
  \/ IntcInit \/ ArmSetTimer
  \/ \E source \in {"timer", "uart"} : Register(source) \/ Unmask(source)
  \/ Interrupt \/ Pend1 \/ Pend2 \/ TimerIrq \/ Return
  \/ VpuTimer \/ UartAsks
  \/ Tick /\ UNCHANGED armVars

Spec == Init /\ [][Next]_vars

-----------------------------------------------------------------------------
(* Every variable has its type.                                            *)
TypeOK ==
  /\ TimerTypeOK
  /\ enabled \subseteq {"timer", "uart"} /\ handlerTable \subseteq {"timer", "uart"}
  /\ uartLine \in BOOLEAN /\ vpuIn \in BOOLEAN /\ panicked \in BOOLEAN
  /\ armBoot \in {"start", "kernel", "uart", "timer", "timer2", "up"}
  /\ irqPc \in {"none", "pend1", "pend2", "timer", "handled"}

(* No interrupt ends in platform_irq's or timer0_irq's panic: none comes   *)
(* before its handler and its callback are there, whatever what ran before *)
(* has left enabled or matched; and one that the VPU has acknowledged      *)
(* meanwhile is none.                                                      *)
NoPanic == ~panicked
=============================================================================
