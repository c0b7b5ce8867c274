------------------------------ MODULE VpuCore -------------------------------
(***************************************************************************)
(* The VPU's port of LK: the start of an image (start.S), the interrupt    *)
(* controller and its dispatch (arch/vpu/intc.c, interrupt.S), the threads *)
(* (thread.c, thread_asm.S), the lock of a processor that has no other     *)
(* beside it (spinlock.h) and the atomic addition built on it (arch.c).    *)
(*                                                                         *)
(* A lock here is a variable nobody tests: what excludes the others is     *)
(* that interrupts are off while it is held.  So everything rests on the   *)
(* interrupt-enable bit of the status register SR, which interrupts, the   *)
(* context switch and the first function of a thread all change.           *)
(*                                                                         *)
(* LK itself is outside this repository; it is modelled from how the port  *)
(* serves it: it switches threads and sets its preemption timer under      *)
(* thread_lock, and has set the timer before it runs any init hook.  The   *)
(* console loader is an image of its own; it jumps to the firmware.        *)
(***************************************************************************)
EXTENDS SysTimer, Sequences, SequencesExt

CONSTANTS
  Threads,    (* the threads of the image *)
  Boot,       (* the one LK begins on, and which becomes its idle thread *)
  Init2,      (* the one it makes first, which calls the init hooks *)
  MaxAdds     (* bound: the atomic additions *)

ASSUME VpuAssumption ==
  /\ "vpu" \in Procs /\ Boot \in Threads /\ Init2 \in Threads /\ Boot # Init2
  /\ MaxAdds \in Nat

Sources == {"timer", "uart", "other"}

VARIABLES
  ie,        (* the interrupt-enable bit of SR *)
  unmasked,  (* the mask registers of the controller *)
  handlers,  (* irq_handlers *)
  lines,     (* the devices but the timer that ask for an interrupt *)
  cur,       (* the current thread, r29 *)
  th,        (* each thread's place: the step it is at, what for, and locals *)
  frame,     (* what each thread's stack keeps of it when it is interrupted *)
  sr,        (* arch.sr of each thread that is not running *)
  lock,      (* thread_lock *)
  counter,   (* an integer the threads add to *)
  adds,      (* history: additions done *)
  boot,      (* how far the image has come *)
  image,     (* "loader" or "firmware" *)
  panicked   (* has a handler given up? *)

coreVars == <<ie, unmasked, handlers, lines, cur, th, frame, sr, lock, counter, adds, boot, image,
              panicked>>
vars == <<coreVars, timerVars>>

At(pc) == ~panicked /\ th[cur].pc = pc
Go(pc) == th' = [th EXCEPT ![cur].pc = pc]

Pending == lines \cup (IF "vpu" \in cs THEN {"timer"} ELSE {})

Idling == [pc |-> "run", use |-> "none", restore |-> FALSE, old |-> 0]

-----------------------------------------------------------------------------
(* spinlock.h: arch_interrupt_save, spin_lock, spin_unlock and             *)
(* arch_interrupt_restore, and what threads use them for.                  *)

(* The threads at an addition, for the bound. *)
Adding == {t \in Threads : th[t].use = "add" \/ \E f \in Range(frame[t]) : f.place.use = "add"}

(* A thread calls atomic_add, or LK to let another thread run.             *)
Call ==
  /\ At("run") /\ boot # "start"
  /\ \E use \in {"add", "yield"} :
       /\ use = "add" => adds + Cardinality(Adding) < MaxAdds
       /\ th' = [th EXCEPT ![cur].pc = "save", ![cur].use = use]
  /\ UNCHANGED <<ie, unmasked, handlers, lines, cur, frame, sr, lock, counter, adds, boot, image,
                 panicked, timerVars>>

InsideCall(use) == IF use = "yield" THEN "lock" ELSE "read"

(* The bit is tested ...                                                   *)
TestInts ==
  /\ At("save")
  /\ th' = [th EXCEPT ![cur].pc = IF ie THEN "di" ELSE InsideCall(th[cur].use),
                      ![cur].restore = ie]
  /\ UNCHANGED <<ie, unmasked, handlers, lines, cur, frame, sr, lock, counter, adds, boot, image,
                 panicked, timerVars>>

(* ... and cleared if it was set.                                          *)
DisableInts ==
  /\ At("di")
  /\ ie' = FALSE
  /\ Go(InsideCall(th[cur].use))
  /\ UNCHANGED <<unmasked, handlers, lines, cur, frame, sr, lock, counter, adds, boot, image,
                 panicked, timerVars>>

(* __atomic_fetch_add_4 reads the integer and writes it.                   *)
ReadCounter ==
  /\ At("read")
  /\ th' = [th EXCEPT ![cur].pc = "write", ![cur].old = counter]
  /\ UNCHANGED <<ie, unmasked, handlers, lines, cur, frame, sr, lock, counter, adds, boot, image,
                 panicked, timerVars>>

WriteCounter ==
  /\ At("write")
  /\ counter' = th[cur].old + 1 /\ adds' = adds + 1
  /\ th' = [th EXCEPT ![cur].pc = "restore", ![cur].old = 0]
  /\ UNCHANGED <<ie, unmasked, handlers, lines, cur, frame, sr, lock, boot, image, panicked, timerVars>>

SpinLock ==
  /\ At("lock")
  /\ lock' = 1
  /\ Go("resched")
  /\ UNCHANGED <<ie, unmasked, handlers, lines, cur, frame, sr, counter, adds, boot, image, panicked,
                 timerVars>>

SpinUnlock ==
  /\ At("switched") \/ (At("resched") /\ TimerIdle("vpu"))  \* LK may stay on the thread
  /\ lock' = 0
  /\ Go("restore")
  /\ UNCHANGED <<ie, unmasked, handlers, lines, cur, frame, sr, counter, adds, boot, image, panicked,
                 timerVars>>

(* Where a call ends: in the handler that interrupted, or in the thread.   *)
Over == IF frame[cur] = <<>> THEN "run" ELSE "rti"

Done(t) == [t EXCEPT !.pc = Over, !.use = "none", !.restore = FALSE]

Restore ==
  /\ At("restore")
  /\ ie' = (ie \/ th[cur].restore)
  /\ th' = [th EXCEPT ![cur] = Done(@)]
  /\ UNCHANGED <<unmasked, handlers, lines, cur, frame, sr, lock, counter, adds, boot, image,
                 panicked, timerVars>>

-----------------------------------------------------------------------------
(* thread.c and thread_asm.S. *)

(* Mutant: a thread inherits its maker's interrupts.                       *)
NewSrAsMine == ie

(* arch_thread_initialize: interrupts are off where a thread begins.       *)
NewSr == FALSE

(* LK makes a thread: Init2 before interrupts are ever on, the others as   *)
(* the init hooks are done.                                                *)
ThreadCreate(n) ==
  /\ At("run") /\ th[n].pc = "none"
  /\ IF boot = "kernel" THEN n = Init2 ELSE boot = "up" /\ cur = Init2
  /\ th' = [th EXCEPT ![n] = [Idling EXCEPT !.pc = "new"]]
  /\ sr' = [sr EXCEPT ![n] = NewSr]
  /\ UNCHANGED <<ie, unmasked, handlers, lines, cur, frame, lock, counter, adds, boot, image,
                 panicked, timerVars>>

(* The first thread becomes the idle thread, which turns interrupts on.    *)
BecomeIdle ==
  /\ At("run") /\ boot = "kernel" /\ th[Init2].pc = "new"
  /\ ie' = TRUE /\ boot' = "hooks"
  /\ UNCHANGED <<unmasked, handlers, lines, cur, th, frame, sr, lock, counter, adds, image, panicked,
                 timerVars>>

(* vc4_context_switch: SR goes with the thread.  A thread that has not run *)
(* yet begins in initial_thread_func, any other where it was.  LK leaves   *)
(* its idle thread only with the preemption timer set.                     *)
ContextSwitch(n) ==
  /\ At("resched") /\ TimerIdle("vpu") /\ n # cur /\ th[n].pc \in {"new", "out"}
  /\ cur = Boot => callback["vpu"]
  /\ th' = [th EXCEPT ![cur].pc = "out", ![n].pc = IF @ = "new" THEN "start" ELSE "switched"]
  /\ sr' = [sr EXCEPT ![cur] = ie, ![n] = FALSE]
  /\ ie' = sr[n]
  /\ cur' = n
  /\ UNCHANGED <<unmasked, handlers, lines, frame, lock, counter, adds, boot, image, panicked,
                 timerVars>>

(* initial_thread_func: the lock that the switch was made under is         *)
(* released, and interrupts are turned on.                                 *)
FirstUnlock ==
  /\ At("start")
  /\ lock' = 0
  /\ Go("enable")
  /\ UNCHANGED <<ie, unmasked, handlers, lines, cur, frame, sr, counter, adds, boot, image, panicked,
                 timerVars>>

FirstEnable ==
  /\ At("enable")
  /\ ie' = TRUE
  /\ Go("run")
  /\ UNCHANGED <<unmasked, handlers, lines, cur, frame, sr, lock, counter, adds, boot, image,
                 panicked, timerVars>>

-----------------------------------------------------------------------------
(* interrupt.S and sleh_irq. *)

(* The processor keeps SR and goes on with interrupts off; the registers   *)
(* are saved, and sleh_irq reads the source.                               *)
Interrupt ==
  /\ ie /\ ~panicked
  /\ \E s \in Pending \cap unmasked :
       th' = [th EXCEPT ![cur] = [Idling EXCEPT !.pc = "irq", !.use = s]]
  /\ frame' = [frame EXCEPT ![cur] = Append(@, [place |-> th[cur], ie |-> ie])]
  /\ ie' = FALSE
  /\ UNCHANGED <<unmasked, handlers, lines, cur, sr, lock, counter, adds, boot, image, panicked,
                 timerVars>>

(* A source that is not one of those named, or has no handler, is the end. *)
(* uart_irq empties the FIFO.                                              *)
Dispatch ==
  /\ At("irq")
  /\ LET s == th[cur].use
     IN  /\ panicked' = (s = "other" \/ s \notin handlers)
         /\ lines' = lines \ (IF s = "uart" THEN {s} ELSE {})
         /\ IF s = "timer" THEN TimerEnter("vpu") ELSE UNCHANGED timerVars
         /\ Go(IF s = "timer" THEN "timer" ELSE "handled")
  /\ UNCHANGED <<ie, unmasked, handlers, cur, frame, sr, lock, counter, adds, boot, image>>

(* timer0_irq, which asserts that there is a callback.                     *)
TimerIrq ==
  /\ At("timer")
  /\ \/ ReadStatus("vpu") /\ UNCHANGED <<th, panicked>>
     \/ AckStatus("vpu") /\ UNCHANGED <<th, panicked>>
     \/ CallBack("vpu") /\ Go("handled") /\ panicked' = ~callback["vpu"]
  /\ UNCHANGED <<ie, unmasked, handlers, lines, cur, frame, sr, lock, counter, adds, boot, image>>

(* LK sets the timer: as it schedules, and in the timer's callback.        *)
VpuSetTimer ==
  /\ At("resched") \/ (At("handled") /\ th[cur].use = "timer")
  /\ SetOneshot("vpu") \/ WriteCompare("vpu")
  /\ UNCHANGED coreVars

(* INT_RESCHEDULE, and thread_preempt; or not.                             *)
Handled ==
  /\ At("handled") /\ TimerIdle("vpu")
  /\ \/ th' = [th EXCEPT ![cur].pc = "save", ![cur].use = "yield"]
     \/ th' = [th EXCEPT ![cur].pc = "rti", ![cur].use = "none"]
  /\ UNCHANGED <<ie, unmasked, handlers, lines, cur, frame, sr, lock, counter, adds, boot, image,
                 panicked, timerVars>>

Rti ==
  /\ At("rti")
  /\ th' = [th EXCEPT ![cur] = Last(frame[cur]).place]
  /\ ie' = Last(frame[cur]).ie
  /\ frame' = [frame EXCEPT ![cur] = Front(@)]
  /\ UNCHANGED <<unmasked, handlers, lines, cur, sr, lock, counter, adds, boot, image, panicked,
                 timerVars>>

-----------------------------------------------------------------------------
(* An image begins, and its init hooks. *)

Fresh == [t \in Threads |-> IF t = Boot THEN Idling ELSE [Idling EXCEPT !.pc = "none"]]

(* The loader jumps to the firmware, which begins with interrupts off and  *)
(* clears its variables.  What was unmasked stays so, and the timer set.   *)
ChainLoad ==
  /\ At("run") /\ boot = "up" /\ image = "loader" /\ TimerIdle("vpu")
  /\ image' = "firmware" /\ boot' = "start" /\ ie' = FALSE
  /\ handlers' = {} /\ lock' = 0 /\ counter' = 0 /\ adds' = 0
  /\ cur' = Boot /\ th' = Fresh
  /\ frame' = [t \in Threads |-> <<>>] /\ sr' = [t \in Threads |-> FALSE]
  /\ TimerReset("vpu")
  /\ UNCHANGED <<unmasked, lines, panicked>>

(* Mutant: what is unmasked stays so.                                      *)
IntcInitKeeping ==
  /\ At("run") /\ boot = "start"
  /\ boot' = "kernel"
  /\ UNCHANGED <<ie, unmasked, handlers, lines, cur, th, frame, sr, lock, counter, adds, image,
                 panicked, timerVars>>

(* intc_init, from platform_early_init: every source is masked.            *)
IntcInit ==
  /\ At("run") /\ boot = "start"
  /\ unmasked' = {} /\ boot' = "kernel"
  /\ UNCHANGED <<ie, handlers, lines, cur, th, frame, sr, lock, counter, adds, image, panicked,
                 timerVars>>

(* platform_init: uart_init registers its handler, clears what is pending  *)
(* and then unmasks.  The firmware is built to transmit only.              *)
UartInit ==
  /\ At("run") /\ cur = Init2 /\ boot = "hooks"
  /\ lines' = lines \ {"uart"}
  /\ IF image = "loader"
       THEN handlers' = handlers \cup {"uart"} /\ boot' = "uart"
       ELSE UNCHANGED handlers /\ boot' = "timer"
  /\ UNCHANGED <<ie, unmasked, cur, th, frame, sr, lock, counter, adds, image, panicked, timerVars>>

UartUnmask ==
  /\ At("run") /\ cur = Init2 /\ boot = "uart"
  /\ unmasked' = unmasked \cup {"uart"} /\ boot' = "timer"
  /\ UNCHANGED <<ie, handlers, lines, cur, th, frame, sr, lock, counter, adds, image, panicked,
                 timerVars>>

(* vc4_timer_init. *)
TimerRegister ==
  /\ At("run") /\ cur = Init2 /\ boot = "timer"
  /\ handlers' = handlers \cup {"timer"} /\ boot' = "timer2"
  /\ UNCHANGED <<ie, unmasked, lines, cur, th, frame, sr, lock, counter, adds, image, panicked,
                 timerVars>>

TimerUnmask ==
  /\ At("run") /\ cur = Init2 /\ boot = "timer2"
  /\ unmasked' = unmasked \cup {"timer"} /\ boot' = "up"
  /\ UNCHANGED <<ie, handlers, lines, cur, th, frame, sr, lock, counter, adds, image, panicked,
                 timerVars>>

(* A character arrives. *)
UartAsks ==
  /\ "uart" \notin lines
  /\ lines' = lines \cup {"uart"}
  /\ UNCHANGED <<ie, unmasked, handlers, cur, th, frame, sr, lock, counter, adds, boot, image,
                 panicked, timerVars>>

-----------------------------------------------------------------------------
Init ==
  /\ ie = FALSE /\ unmasked \in {{}, Sources} /\ handlers = {}
  /\ lines = {"other"}
  /\ cur = Boot /\ th = Fresh /\ frame = [t \in Threads |-> <<>>] /\ sr = [t \in Threads |-> FALSE]
  /\ lock = 0 /\ counter = 0 /\ adds = 0 /\ boot = "start" /\ image \in {"loader", "firmware"}
  /\ panicked = FALSE
  /\ TimerInit

Next ==
  \/ Call \/ TestInts \/ DisableInts \/ ReadCounter \/ WriteCounter
  \/ SpinLock \/ SpinUnlock \/ Restore
  \/ \E n \in Threads : ThreadCreate(n) \/ ContextSwitch(n)
  \/ BecomeIdle \/ FirstUnlock \/ FirstEnable
  \/ Interrupt \/ Dispatch \/ TimerIrq \/ VpuSetTimer \/ Handled \/ Rti
  \/ ChainLoad \/ IntcInit \/ UartInit \/ UartUnmask \/ TimerRegister \/ TimerUnmask
  \/ UartAsks
  \/ Tick /\ UNCHANGED coreVars

Spec == Init /\ [][Next]_vars

-----------------------------------------------------------------------------
Pcs == {"none", "new", "out", "start", "enable", "run", "save", "di", "read", "write", "lock",
        "resched", "switched", "restore", "irq", "timer", "handled", "rti"}

Places == [pc : Pcs, use : {"none", "add", "yield"} \cup Sources, restore : BOOLEAN,
           old : 0..MaxAdds]

(* Every variable has its type.                                            *)
TypeOK ==
  /\ TimerTypeOK
  /\ ie \in BOOLEAN /\ unmasked \subseteq Sources /\ handlers \subseteq {"timer", "uart"}
  /\ lines \subseteq {"uart", "other"}
  /\ cur \in Threads /\ th \in [Threads -> Places]
  /\ \A t \in Threads : Len(frame[t]) < 2
  /\ sr \in [Threads -> BOOLEAN]
  /\ lock \in {0, 1} /\ counter \in 0..MaxAdds /\ adds \in 0..MaxAdds
  /\ boot \in {"start", "kernel", "hooks", "uart", "timer", "timer2", "up"}
  /\ image \in {"loader", "firmware"} /\ panicked \in BOOLEAN

(* The lock nobody tests is one: it is never taken while it is held, and   *)
(* whoever holds it has interrupts off, through every switch and in every  *)
(* new thread; so has a handler.  A thread that is in no call has them on  *)
(* again, so that nothing keeps the processor for itself.  And an addition *)
(* is never lost, whatever comes between its read and its write.           *)
LockWorks ==
  /\ lock = 1 => ~ie
  /\ th[cur].pc = "lock" => lock = 0
  /\ frame[cur] # <<>> => ~ie
  /\ th[cur].pc = "run" /\ boot \notin {"start", "kernel"} => ie
  /\ counter = adds

(* No interrupt comes that sleh_irq or timer0_irq gives up at: none comes  *)
(* before its handler and its callback are there, whatever what ran before *)
(* has left unmasked, pending or matched.                                  *)
NoPanic == ~panicked
=============================================================================
