---------------------------- MODULE ArmCore_proofs ----------------------------
(***************************************************************************)
(* Proofs about LK on the ARM.                                             *)
(*                                                                         *)
(* About ArmCore, one processor: no interrupt ends in a panic, and every   *)
(* one-shot timer's interrupt comes that the other processor does not take *)
(* away; whatever was enabled and matched before, for every width of the   *)
(* clock and every interval.  NoPanic is not inductive: what is enabled    *)
(* must have a handler from the moment intc_init is done (Served), and a   *)
(* dispatch that has begun means that it is.  TimerKept rests on the       *)
(* lemmas about the timer.                                                 *)
(*                                                                         *)
(* About Pi3, any number of processors: LK draws where VideoCore shows,    *)
(* and its allocator has what is its own.  MemoryKeptApart is not          *)
(* inductive: what is in the cache line and in the memory must be followed *)
(* from the request to the answer (Exchange), and there is one request     *)
(* (OneRequest).                                                           *)
(***************************************************************************)
EXTENDS ArmCore, ArmMemory, SysTimer_proofs, WellFoundedInduction, FiniteSetTheorems

(* The sources that have been registered when LK has come this far.        *)
Registered ==
  CASE armBoot \in {"start", "kernel"} -> {}
    [] armBoot \in {"uart", "timer"}   -> {"uart"}
    [] OTHER                           -> {"uart", "timer"}

(* Once LK is up, what is enabled has a handler, and the timer a callback. *)
Served ==
  /\ handlerTable = Registered
  /\ KernelUp => enabled \subseteq handlerTable
  /\ KernelUp /\ enabled # {} => callback["arm"]

(* The dispatch runs in LK, and calls timer0_irq for an enabled timer.     *)
Dispatching ==
  /\ irqPc # "none" => KernelUp
  /\ irqPc = "timer" => callback["arm"]

CoreTypeOK ==
  /\ enabled \subseteq {"timer", "uart"}
  /\ uartLine \in BOOLEAN /\ vpuIn \in BOOLEAN /\ panicked \in BOOLEAN
  /\ armBoot \in {"start", "kernel", "uart", "timer", "timer2", "up"}
  /\ irqPc \in {"none", "pend1", "pend2", "timer", "handled"}

CoreInv == CoreTypeOK /\ Served /\ Dispatching /\ NoPanic

IInv == TimerInv /\ CoreInv

-----------------------------------------------------------------------------
(* The timer: every step of ArmCore is one of the timer's, or none. *)
LEMMA TimerPart ==
  ASSUME TimerInv, [Next]_vars
  PROVE  TimerInv'
<1>1. "vpu" \in Procs /\ "arm" \in Procs
  BY ArmAssumption DEF ArmAssumption
<1>2. Tick \/ (\E p \in Procs : DriverStep(p)) \/ UNCHANGED timerVars
  <2>1. CASE ArmSetTimer \/ Pend1 \/ TimerIrq
    BY <2>1, <1>1 DEF ArmSetTimer, Pend1, TimerIrq, DriverStep
  <2>2. CASE VpuTimer
    BY <2>2, <1>1 DEF VpuTimer, DriverStep
  <2>3. CASE IntcInit \/ (\E source \in {"timer", "uart"} : Register(source) \/ Unmask(source))
             \/ Interrupt \/ Pend2 \/ Return \/ UartAsks \/ UNCHANGED vars
    BY <2>3 DEF IntcInit, Register, Unmask, Interrupt, Pend2, Return, UartAsks, vars
  <2>4. CASE Tick /\ UNCHANGED armVars
    BY <2>4
  <2> QED
    BY <2>1, <2>2, <2>3, <2>4 DEF Next
<1>3. CASE UNCHANGED timerVars
  BY <1>3 DEF timerVars, TimerInv, TimerTypeOK, TimerKept, CompareAhead, Missed
<1> QED
  BY <1>2, <1>3, TimerKeeps

(* Nothing takes a callback away. *)
LEMMA CallbackStays ==
  ASSUME TimerInv, [Next]_vars, callback["arm"]
  PROVE  callback'["arm"]
<1>1. "vpu" \in Procs /\ "arm" \in Procs
  BY ArmAssumption DEF ArmAssumption
<1>2. (\E p \in Procs : callback' = [callback EXCEPT ![p] = TRUE]) \/ callback' = callback
  <2>1. CASE ArmSetTimer \/ Pend1 \/ TimerIrq \/ VpuTimer
    BY <2>1, <1>1 DEF ArmSetTimer, Pend1, TimerIrq, VpuTimer, SetOneshot, WriteCompare, TimerEnter,
       ReadStatus, AckStatus, CallBack, timerVars
  <2>2. CASE IntcInit \/ (\E source \in {"timer", "uart"} : Register(source) \/ Unmask(source))
             \/ Interrupt \/ Pend2 \/ Return \/ UartAsks \/ UNCHANGED vars
    BY <2>2 DEF IntcInit, Register, Unmask, Interrupt, Pend2, Return, UartAsks, vars, timerVars
  <2>3. CASE Tick /\ UNCHANGED armVars
    BY <2>3 DEF Tick
  <2> QED
    BY <2>1, <2>2, <2>3 DEF Next
<1> QED
  BY <1>1, <1>2 DEF TimerInv, TimerTypeOK

-----------------------------------------------------------------------------
LEMMA Begins == Init => IInv
BY TimerBegins DEF Init, IInv, CoreInv, CoreTypeOK, Served, Registered, Dispatching, NoPanic, KernelUp

(* Every step keeps the handlers in front of what is enabled.              *)
LEMMA CorePart ==
  ASSUME IInv, [Next]_vars
  PROVE  CoreInv'
<1> USE DEF IInv, CoreInv, CoreTypeOK, Served, Registered, Dispatching, NoPanic, KernelUp
<1>1. CASE IntcInit
  BY <1>1 DEF IntcInit
<1>2. CASE ArmSetTimer
  BY <1>2, CallbackStays DEF ArmSetTimer, armVars
<1>3. ASSUME NEW source \in {"timer", "uart"}, Register(source)
      PROVE  CoreInv'
  BY <1>3 DEF Register, timerVars, InThread
<1>4. ASSUME NEW source \in {"timer", "uart"}, Unmask(source)
      PROVE  CoreInv'
  BY <1>4 DEF Unmask, timerVars, InThread
<1>5. CASE Interrupt
  BY <1>5 DEF Interrupt, timerVars, InThread
<1>6. CASE Pend1
  <2>1. callback["arm"] => callback'["arm"]
    BY <1>6, CallbackStays DEF Next
  <2>2. "timer" \in Pending => "timer" \in handlerTable /\ callback["arm"]
    BY <1>6 DEF Pend1, Pending
  <2> QED
    BY <1>6, <2>1, <2>2 DEF Pend1, InThread
<1>7. CASE Pend2
  <2>1. "uart" \notin Pending \ handlerTable
    BY <1>7 DEF Pend2, Pending
  <2> QED
    BY <1>7, <2>1 DEF Pend2, timerVars
<1>8. CASE TimerIrq
  BY <1>8, CallbackStays DEF TimerIrq, Next
<1>9. CASE Return
  BY <1>9 DEF Return, timerVars
<1>10. CASE VpuTimer
  BY <1>10, CallbackStays DEF VpuTimer, Next
<1>11. CASE UartAsks
  BY <1>11 DEF UartAsks, timerVars
<1>12. CASE Tick /\ UNCHANGED armVars
  BY <1>12 DEF Tick, armVars
<1>13. CASE UNCHANGED vars
  BY <1>13 DEF vars, armVars, timerVars
<1> QED
  BY <1>1, <1>2, <1>3, <1>4, <1>5, <1>6, <1>7, <1>8, <1>9, <1>10, <1>11, <1>12, <1>13 DEF Next

LEMMA Keeps == IInv /\ [Next]_vars => IInv'
BY TimerPart, CorePart DEF IInv

(* The inductive invariant holds, for the interrupt controller and the     *)
(* timer together.                                                         *)
THEOREM ArmInvariance == Spec => []IInv
BY Begins, Keeps, PTL DEF Spec

(* Whatever was enabled before, and whatever the VPU acknowledges under    *)
(* the ARM's dispatch, no interrupt ends in platform_irq's or timer0_irq's *)
(* panic.                                                                  *)
THEOREM ArmNeverPanics == Spec => []NoPanic
<1>1. IInv => NoPanic
  BY DEF IInv, CoreInv
<1> QED
  BY <1>1, ArmInvariance, PTL

(* A one-shot timer's interrupt is not missed, for every width of the      *)
(* clock and every interval, unless the other processor has cleared it.    *)
THEOREM ArmTimerKept == Spec => []TimerKept
<1>1. IInv => TimerKept
  BY DEF IInv, TimerInv
<1> QED
  BY <1>1, ArmInvariance, PTL

-----------------------------------------------------------------------------
(* Pi3 has the same names for some variables, and for Init and Next; its   *)
(* part of the memory, ArmMemory, has not.                                 *)

CONSTANTS NCpus, MuFifo, MuBuf, MaxEvents

VARIABLES
  bootPc, next, cpu, event, spinCache, spinMemory, piEnabled, piHandlers, timerControl, mboxControl,
  timerLine, mbox, piIrqPc, pend, sender, toSend, want, muFifo, muOn, muBuf, typed, made, fired, piPanicked

Pi == INSTANCE Pi3 WITH
  enabled <- piEnabled, handlerTable <- piHandlers, irqPc <- piIrqPc, panicked <- piPanicked

(* What the mailbox's driver and the tree give: it fails a late answer, and *)
(* no node that counts the memory counts more than one before it.          *)
Attempted == ErrAttempts \in Nat /\ MaxAttempts \in Nat /\ ErrAttempts <= MaxAttempts

NoneCountsMore ==
  /\ \A tree \in Trees : tree \in Seq([memory : BOOLEAN, wide : BOOLEAN, len : Nat])
  /\ \A tree \in Trees : \A i, j \in Counts(tree) : i <= j => tree[j].len <= tree[i].len

Lines == [desc : Descs, neighbour : Nat, dirty : BOOLEAN]

(* What the invariant needs of the types. *)
FbTypes ==
  /\ memory \in [desc : Descs, neighbour : Nat]
  /\ line = NoLine \/ line \in Lines
  /\ posted \in BOOLEAN /\ spoilt \in BOOLEAN
  /\ answers \in Seq(Channels)
  /\ fbPc \in {"idle", "filled", "write", "read", "invalidate", "done"}
  /\ attempts \in Nat /\ writes \in Nat

Answered == \E i \in DOMAIN answers : answers[i] = "framebuffer"

(* The request is out from the moment it is posted to the answer to it.    *)
OneRequest ==
  /\ fbPc \in {"idle", "filled", "write"} => ~posted /\ ~Answered
  /\ posted => ~Answered

(* The line in the cache holds nothing that could overwrite the memory.    *)
LineIsClean == line = NoLine \/ ~line.dirty

(* Unless the neighbour is written: the request is in the cache, or in the *)
(* memory already; it is in the memory when it is posted, and VideoCore's  *)
(* part follows it there before the answer comes.                          *)
Exchange ==
  /\ fbPc = "filled" => /\ line = NoLine => memory.desc = "request"
                        /\ line # NoLine => line.desc = "request" /\ (line.dirty \/ memory.desc = "request")
  /\ fbPc \in {"write", "read", "invalidate"} => LineIsClean
  /\ fbPc = "write" => memory.desc = "request"
  /\ fbPc = "read" /\ posted => memory.desc = "request"
  /\ fbPc = "read" /\ Answered => memory.desc = "answer"
  /\ fbPc = "invalidate" => memory.desc = "answer"
  /\ fbPc = "done" /\ fbStatus = "ok" =>
       memory.desc = "answer" /\ (line # NoLine => line.desc = "answer")

Drawn ==
  /\ screen # "none" => fbPc = "done"
  /\ fbStatus = "ok" => fbPc = "done"

FbInv ==
  /\ FbTypes /\ OneRequest /\ Drawn
  /\ ~spoilt => Exchange /\ DrawsOnScreen

(* What the ARM finds of fb_desc: in the line, or where the line would be  *)
(* fetched from.                                                           *)
LEMMA CachedLine ==
  ASSUME FbTypes
  PROVE  /\ Cached \in Lines
         /\ NoLine.dirty = FALSE /\ NoLine \notin Lines
         /\ Cached.desc = (IF line = NoLine THEN memory.desc ELSE line.desc)
         /\ Cached.neighbour \in Nat
<1>1. NoLine.dirty = FALSE /\ NoLine \notin Lines
  BY DEF NoLine, Lines, Descs
<1>2. CASE line = NoLine
  BY <1>1, <1>2 DEF FbTypes, Cached, Lines, Descs
<1>3. CASE line # NoLine
  BY <1>1, <1>3 DEF FbTypes, Cached, Lines, Descs
<1> QED
  BY <1>1, <1>2, <1>3

(* A line that is not dirty leaves the memory as it is.                    *)
LEMMA WrittenBackLine ==
  ASSUME FbTypes
  PROVE  /\ WrittenBack \in [desc : Descs, neighbour : Nat]
         /\ LineIsClean => WrittenBack = memory
         /\ line # NoLine /\ line.dirty => WrittenBack.desc = line.desc
BY CachedLine DEF FbTypes, WrittenBack, Lines, LineIsClean

(* init_framebuffer's steps, the cache's and VideoCore's keep FbInv.  Here *)
(* the request is put into the cache.                                      *)
LEMMA FillInKeeps ==
  ASSUME FbInv, FillIn
  PROVE  FbInv'
<1>1. line' \in Lines /\ line'.desc = "request" /\ line'.dirty
  <2>1. Cached \in Lines
    BY CachedLine DEF FbInv
  <2> QED
    BY <2>1 DEF FillIn, Lines, Descs
<1> QED
  BY <1>1, CachedLine DEF FbInv, FbTypes, OneRequest, Answered, Drawn, Exchange, FillIn, Fb, DrawsOnScreen

(* Nothing is dirty when the request is posted, and the memory has it.     *)
LEMMA CleanKeeps ==
  ASSUME FbInv, Clean
  PROVE  FbInv'
<1>1. memory' = WrittenBack /\ fbPc = "filled" /\ fbPc' = "write"
  BY DEF Clean, Fb
<1>2. FbTypes /\ memory' \in [desc : Descs, neighbour : Nat]
  BY <1>1, WrittenBackLine DEF FbInv
<1>3. ~spoilt => memory'.desc = "request"
  BY <1>1, <1>2, CachedLine, WrittenBackLine DEF FbInv, Exchange, LineIsClean
<1>4. (line' = NoLine \/ line' \in Lines) /\ ~line'.dirty
  <2>1. line' = [line EXCEPT !.dirty = FALSE]
    BY DEF Clean
  <2>2. CASE line = NoLine
    BY <2>1, <2>2 DEF NoLine
  <2>3. CASE line \in Lines
    BY <2>1, <2>3 DEF Lines
  <2> QED
    BY <1>2, <2>2, <2>3 DEF FbTypes
<1> QED
  BY <1>1, <1>2, <1>3, <1>4 DEF FbInv, FbTypes, OneRequest, Answered, Drawn, Exchange, LineIsClean, Clean,
     DrawsOnScreen

(* The request is posted once.                                             *)
LEMMA MailboxWriteKeeps ==
  ASSUME FbInv, MailboxWrite
  PROVE  FbInv'
BY DEF FbInv, FbTypes, OneRequest, Answered, Drawn, Exchange, LineIsClean, MailboxWrite, Fb, DrawsOnScreen

(* Only our channel's answer, and one that is not late, ends in success.   *)
LEMMA MailboxReadKeeps ==
  ASSUME Attempted, FbInv, MailboxRead
  PROVE  FbInv'
<1>1. answers \in Seq(Channels) /\ answers # <<>> /\ answers' = Tail(answers) /\ fbPc = "read"
  BY DEF FbInv, FbTypes, MailboxRead, Fb
<1>2. answers' \in Seq(Channels) /\ Head(answers) = answers[1] /\ 1 \in DOMAIN answers
  BY <1>1
<1>3. Answered' => Answered
  <2>1. \A i \in DOMAIN answers' : i + 1 \in DOMAIN answers /\ answers'[i] = answers[i + 1]
    BY <1>1
  <2> QED
    BY <2>1 DEF Answered
<1>4. Head(answers) = "framebuffer" => Answered
  BY <1>2 DEF Answered
<1>5. attempts' \in Nat /\ fbPc' \in {"read", "invalidate", "done"} /\ fbStatus' # "ok"
  BY <1>1 DEF FbInv, FbTypes, Drawn, MailboxRead, Fb
<1>6. fbPc' = "invalidate" => Head(answers) = "framebuffer"
  BY <1>1 DEF FbInv, FbTypes, Attempted, MailboxRead, Fb
<1> QED
  BY <1>1, <1>2, <1>3, <1>4, <1>5, <1>6 DEF FbInv, FbTypes, OneRequest, Drawn, Exchange, LineIsClean,
     MailboxRead, DrawsOnScreen

(* A timeout is no success.                                                *)
LEMMA TimesOutKeeps ==
  ASSUME FbInv, MailboxReadTimesOut
  PROVE  FbInv'
BY DEF FbInv, FbTypes, OneRequest, Answered, Drawn, Exchange, LineIsClean, MailboxReadTimesOut, Fb,
   DrawsOnScreen

(* The line that held the request is dropped.                              *)
LEMMA InvalidateKeeps ==
  ASSUME FbInv, Invalidate
  PROVE  FbInv'
BY DEF FbInv, FbTypes, OneRequest, Answered, Drawn, Exchange, LineIsClean, Invalidate, Fb, DrawsOnScreen

(* fb_desc is fetched from the memory again, where the answer is.          *)
LEMMA GetFramebufferKeeps ==
  ASSUME FbInv, GetFramebuffer
  PROVE  FbInv'
BY CachedLine DEF FbInv, FbTypes, OneRequest, Answered, Drawn, Exchange, LineIsClean, GetFramebuffer,
   DrawsOnScreen

(* VideoCore takes an earlier program's message.                           *)
LEMMA MakeRoomKeeps ==
  ASSUME FbInv, MakeRoom
  PROVE  FbInv'
BY DEF FbInv, FbTypes, OneRequest, Answered, Drawn, Exchange, LineIsClean, MakeRoom, DrawsOnScreen

(* A message more in the mailbox.                                          *)
LEMMA Appended ==
  ASSUME FbTypes, NEW channel \in Channels, answers' = Append(answers, channel)
  PROVE  answers' \in Seq(Channels) /\ (Answered' <=> Answered \/ channel = "framebuffer")
<1>1. answers \in Seq(Channels)
  BY DEF FbTypes
<1>2. answers' \in Seq(Channels) /\ DOMAIN answers' = 1..(Len(answers) + 1) /\ Len(answers) \in Nat
  BY <1>1
<1>3. DOMAIN answers = 1..Len(answers)
  BY <1>1
<1>4. answers'[Len(answers) + 1] = channel /\ Len(answers) + 1 \in DOMAIN answers'
  BY <1>1, <1>2
<1>5. \A i \in DOMAIN answers : i \in DOMAIN answers' /\ answers'[i] = answers[i]
  BY <1>1, <1>2, <1>3
<1>6. \A i \in DOMAIN answers' : i = Len(answers) + 1 \/ i \in DOMAIN answers
  BY <1>2, <1>3
<1> QED
  BY <1>2, <1>4, <1>5, <1>6 DEF Answered

(* VideoCore finds the request, as the memory has it.                      *)
LEMMA AnswerKeeps ==
  ASSUME FbInv, Answer
  PROVE  FbInv'
<1>1. answers' \in Seq(Channels) /\ Answered'
  <2>1. "framebuffer" \in Channels /\ answers' = Append(answers, "framebuffer") /\ FbTypes
    BY DEF FbInv, Answer, Channels
  <2> QED
    BY <2>1, Appended
<1>2. /\ memory' \in [desc : Descs, neighbour : Nat]
      /\ memory'.desc = (IF memory.desc = "request" THEN "answer" ELSE memory.desc)
  BY DEF FbInv, FbTypes, Answer, Descs
<1> QED
  BY <1>1, <1>2 DEF FbInv, FbTypes, OneRequest, Drawn, Exchange, LineIsClean, Answer, DrawsOnScreen

(* A message on another channel is no answer.                              *)
LEMMA AnswerOtherKeeps ==
  ASSUME FbInv, AnswerOther
  PROVE  FbInv'
<1>1. answers' \in Seq(Channels) /\ (Answered' <=> Answered)
  <2>1. "other" \in Channels /\ answers' = Append(answers, "other") /\ FbTypes
    BY DEF FbInv, AnswerOther, Channels
  <2> QED
    BY <2>1, Appended
<1> QED
  BY <1>1 DEF FbInv, FbTypes, OneRequest, Drawn, Exchange, LineIsClean, AnswerOther, DrawsOnScreen

(* A write to the neighbour while the request is out counts as spoiling    *)
(* it.                                                                     *)
LEMMA WriteNeighbourKeeps ==
  ASSUME FbInv, WriteNeighbour
  PROVE  FbInv'
<1>1. writes' \in Nat /\ spoilt' \in BOOLEAN
  BY DEF FbInv, FbTypes, WriteNeighbour
<1>2. line' \in Lines /\ line'.desc = Cached.desc /\ line'.dirty
  <2>1. Cached \in Lines
    BY CachedLine DEF FbInv
  <2> QED
    BY <1>1, <2>1 DEF WriteNeighbour, Lines
<1> QED
  BY <1>1, <1>2, CachedLine DEF FbInv, FbTypes, OneRequest, Answered, Drawn, Exchange, LineIsClean,
     WriteNeighbour, DrawsOnScreen

(* What the cache writes back is in the memory already, or awaited there.  *)
LEMMA EvictKeeps ==
  ASSUME FbInv, Evict
  PROVE  FbInv'
<1>1. memory' = WrittenBack /\ line' = NoLine /\ line # NoLine
  BY DEF Evict
<1>2. FbTypes /\ memory' \in [desc : Descs, neighbour : Nat]
  BY <1>1, WrittenBackLine DEF FbInv
<1>3. /\ LineIsClean => memory'.desc = memory.desc
      /\ ~LineIsClean => memory'.desc = line.desc
  BY <1>1, <1>2, WrittenBackLine DEF LineIsClean
<1> QED
  BY <1>1, <1>2, <1>3 DEF FbInv, FbTypes, OneRequest, Answered, Drawn, Exchange, LineIsClean, Evict,
     DrawsOnScreen

(* At the start nothing is asked.                                          *)
LEMMA FbBegins ==
  ASSUME MailboxInit
  PROVE  FbInv
<1>1. answers \in Seq(Channels) /\ ~Answered
  <2>1. answers = <<>>
    BY DEF MailboxInit
  <2> QED
    BY <2>1 DEF Answered
<1>2. memory \in [desc : Descs, neighbour : Nat]
  BY DEF MailboxInit, Descs
<1> QED
  BY <1>1, <1>2 DEF MailboxInit, FbInv, FbTypes, OneRequest, Drawn, Exchange, LineIsClean, DrawsOnScreen

(* The rest of the system leaves it alone.                                 *)
LEMMA FbStutters ==
  ASSUME FbInv, UNCHANGED mailboxVars
  PROVE  FbInv'
BY DEF mailboxVars, FbInv, FbTypes, OneRequest, Answered, Drawn, Exchange, LineIsClean, DrawsOnScreen

-----------------------------------------------------------------------------
(* Every step of Pi3 is one of the framebuffer's, or none. *)

FbStep ==
  \/ FillIn \/ Clean \/ MailboxWrite \/ MailboxRead \/ MailboxReadTimesOut \/ Invalidate
  \/ GetFramebuffer \/ MakeRoom \/ Answer \/ Evict \/ AnswerOther \/ WriteNeighbour

(* All of them together.                                                   *)
LEMMA FbKeeps ==
  ASSUME Attempted, FbInv, FbStep
  PROVE  FbInv'
BY FillInKeeps, CleanKeeps, MailboxWriteKeeps, MailboxReadKeeps, TimesOutKeeps, InvalidateKeeps,
   GetFramebufferKeeps, MakeRoomKeeps, AnswerKeeps, EvictKeeps, AnswerOtherKeeps, WriteNeighbourKeeps DEF FbStep

(* Pi3's framebuffer is the one of this module, as its memory is.          *)
LEMMA SameMailbox ==
  /\ UNCHANGED Pi!mailboxVars => UNCHANGED mailboxVars
  /\ Pi!FillIn => FillIn
  /\ Pi!Clean => Clean
  /\ Pi!MailboxWrite => MailboxWrite
  /\ Pi!MailboxRead => MailboxRead
  /\ Pi!MailboxReadTimesOut => MailboxReadTimesOut
  /\ Pi!Invalidate => Invalidate
  /\ Pi!GetFramebuffer => GetFramebuffer
  /\ Pi!MakeRoom => MakeRoom
  /\ Pi!Answer => Answer
  /\ Pi!Evict => Evict
  /\ Pi!AnswerOther => AnswerOther
  /\ Pi!WriteNeighbour => WriteNeighbour
<1>1. UNCHANGED Pi!mailboxVars => UNCHANGED mailboxVars
  BY DEF mailboxVars, Pi!mailboxVars
<1> USE DEF Fb, Pi!Fb, Cached, Pi!Cached, NoLine, Pi!NoLine, WrittenBack, Pi!WrittenBack
<1>2. Pi!FillIn => FillIn
  BY DEF FillIn, Pi!FillIn
<1>3. Pi!Clean => Clean
  BY DEF Clean, Pi!Clean
<1>4. Pi!MailboxWrite => MailboxWrite
  BY DEF MailboxWrite, Pi!MailboxWrite
<1>5. Pi!MailboxRead => MailboxRead
  BY DEF MailboxRead, Pi!MailboxRead
<1>6. Pi!MailboxReadTimesOut => MailboxReadTimesOut
  BY DEF MailboxReadTimesOut, Pi!MailboxReadTimesOut
<1>7. Pi!Invalidate => Invalidate
  BY DEF Invalidate, Pi!Invalidate
<1>8. Pi!GetFramebuffer => GetFramebuffer
  BY DEF GetFramebuffer, Pi!GetFramebuffer
<1>9. Pi!MakeRoom => MakeRoom
  BY DEF MakeRoom, Pi!MakeRoom
<1>10. Pi!Answer => Answer
  BY DEF Answer, Pi!Answer
<1>11. Pi!Evict => Evict
  BY DEF Evict, Pi!Evict
<1>12. Pi!AnswerOther => AnswerOther
  BY DEF AnswerOther, Pi!AnswerOther
<1>13. Pi!WriteNeighbour => WriteNeighbour
  BY DEF WriteNeighbour, Pi!WriteNeighbour
<1> QED
  BY <1>1, <1>2, <1>3, <1>4, <1>5, <1>6, <1>7, <1>8, <1>9, <1>10, <1>11, <1>12, <1>13

(* Only AddMemory gives the allocator something.                           *)
LEMMA FbOrNot ==
  ASSUME [Pi!Next]_Pi!vars
  PROVE  /\ FbStep \/ UNCHANGED mailboxVars
         /\ Pi!AddMemory \/ UNCHANGED lent
<1>1. CASE Pi!IntcInit \/ Pi!TimerRegister \/ Pi!TimerUnmask \/ Pi!UartRegister \/ Pi!UartUnmask \/ Pi!UartClear
             \/ Pi!UartEnable
  BY <1>1, SameMailbox DEF Pi!IntcInit, Pi!TimerRegister, Pi!TimerUnmask, Pi!UartRegister, Pi!UartUnmask, Pi!UartClear,
     Pi!UartEnable, Pi!Goes
<1>2. CASE Pi!AddMemory \/ Pi!SpinWrite \/ Pi!SpinClean \/ Pi!SpinSev
  BY <1>2, SameMailbox DEF Pi!AddMemory, Pi!SpinWrite, Pi!SpinClean, Pi!SpinSev
<1>3. CASE Pi!Framebuffer \/ Pi!Outside
  BY <1>3, SameMailbox DEF Pi!Framebuffer, Pi!Outside, Pi!bootVars, FbStep
<1>4. CASE Pi!AuxIrq \/ Pi!SendIpi \/ Pi!Type
  BY <1>4, SameMailbox DEF Pi!AuxIrq, Pi!SendIpi, Pi!Type, Pi!bootVars
<1>5. CASE \E c \in Pi!Secondaries : Pi!Wake(c) \/ Pi!Look(c)
  BY <1>5, SameMailbox DEF Pi!Wake, Pi!Look
<1>6. ASSUME NEW c \in Pi!Cpus, Pi!Cpu(c) \/ Pi!MakeReady(c) \/ Pi!TimerFires(c) \/ Pi!UartGetc(c)
      PROVE  UNCHANGED mailboxVars /\ UNCHANGED lent
  BY <1>6, SameMailbox DEF Pi!Cpu, Pi!Interrupt, Pi!Decode, Pi!TimerIrq, Pi!MailboxPend, Pi!MailboxAck, Pi!Return,
     Pi!MakeReady, Pi!TimerFires, Pi!UartGetc, Pi!bootVars
<1>7. CASE UNCHANGED Pi!vars
  BY <1>7, SameMailbox DEF Pi!vars, Pi!bootVars
<1> QED
  BY <1>1, <1>2, <1>3, <1>4, <1>5, <1>6, <1>7 DEF Pi!Next, Pi!Boot

(* There is a last node among those that count the memory.                 *)
LEMMA LastCounts ==
  ASSUME NEW n \in Nat, NEW T \in SUBSET (1..n), T # {}
  PROVE  \E i \in T : \A j \in T : j <= i
<1> DEFINE Above == {(i + 1)..n : i \in T}
<1>1. Above \subseteq FiniteSubsetsOf(Nat)
  <2>1. \A i \in T : IsFiniteSet((i + 1)..n) /\ (i + 1)..n \subseteq Nat
    BY FS_Interval
  <2> QED
    BY <2>1 DEF FiniteSubsetsOf
<1>2. \E x \in Above : \A y \in Above : <<y, x>> \notin StrictSubsetOrdering(Nat)
  <2>1. Above # {}
    OBVIOUS
  <2> HIDE DEF Above
  <2> QED
    BY <1>1, <2>1, FS_StrictSubsetOrderingWellFounded, WFMin
<1>3. PICK i \in T : \A j \in T : <<(j + 1)..n, (i + 1)..n>> \notin StrictSubsetOrdering(Nat)
  BY <1>2
<1>4. ASSUME NEW j \in T, i < j
      PROVE  <<(j + 1)..n, (i + 1)..n>> \in StrictSubsetOrdering(Nat)
  <2>1. (j + 1)..n \in SUBSET Nat /\ (i + 1)..n \in SUBSET Nat /\ (j + 1)..n \subseteq (i + 1)..n
    BY <1>4
  <2>2. j \in (i + 1)..n /\ j \notin (j + 1)..n
    BY <1>4
  <2> QED
    BY <2>1, <2>2 DEF StrictSubsetOrdering
<1>5. \A j \in T : j <= i
  <2> SUFFICES ASSUME NEW j \in T, i < j
               PROVE  FALSE
    OBVIOUS
  <2> QED
    BY <1>3, <1>4
<1> QED
  BY <1>5

(* What a sequence consists of.                                            *)
LEMMA Elements ==
  ASSUME NEW R, NEW s \in Seq(R)
  PROVE  \A k \in 1..Len(s) : s[k] \in R
OBVIOUS

(* No node that counts the memory has its end in what the allocator gets.  *)
LEMMA AddMemoryKeeps ==
  ASSUME NoneCountsMore, Pi!AddMemory
  PROVE  ~lent'
<1>1. PICK tree \in Trees :
        lent' = LET given == (0..(ArenaSize(tree) - 1)) \ Reserved
                IN  0 \in given \/ \E i \in Counts(tree) : tree[i].len \in given
  BY DEF Pi!AddMemory, Pi!AddArena, Pi!ArenaSize, Pi!Counts, Pi!Reserved, ArenaSize, Counts, Reserved
<1>2. tree \in Seq([memory : BOOLEAN, wide : BOOLEAN, len : Nat])
  BY DEF NoneCountsMore
<1>3. Len(tree) \in Nat /\ Counts(tree) \in SUBSET (1..Len(tree))
  BY <1>2 DEF Counts
<1>4. ASSUME NEW i \in Counts(tree)
      PROVE  tree[i].len \notin 0..(ArenaSize(tree) - 1)
  <2>1. \E l \in Counts(tree) : \A j \in Counts(tree) : j <= l
    BY <1>3, <1>4, LastCounts
  <2> DEFINE l == CHOOSE k \in Counts(tree) : \A j \in Counts(tree) : j <= k
  <2>2. l \in Counts(tree) /\ (\A j \in Counts(tree) : j <= l) /\ ArenaSize(tree) = tree[l].len
    <3>1. l \in Counts(tree) /\ \A j \in Counts(tree) : j <= l
      BY <2>1
    <3>2. ArenaSize(tree) = tree[l].len
      BY <1>4 DEF ArenaSize
    <3> QED
      BY <3>1, <3>2
  <2> HIDE DEF l
  <2>3. tree[l].len <= tree[i].len
    BY <2>2, <1>4 DEF NoneCountsMore
  <2>4. tree[l].len \in Nat /\ tree[i].len \in Nat
    <3>1. \A k \in 1..Len(tree) : tree[k] \in [memory : BOOLEAN, wide : BOOLEAN, len : Nat]
      BY <1>2, Elements
    <3>2. i \in 1..Len(tree) /\ l \in 1..Len(tree)
      BY <1>3, <1>4, <2>2
    <3> QED
      BY <3>1, <3>2
  <2> QED
    BY <2>2, <2>3, <2>4
<1> QED
  BY <1>1, <1>4 DEF Reserved

PiInv == FbInv /\ ~lent

(* The invariant at the start ...                                          *)
LEMMA PiBegins == Pi!Init => PiInv
<1>1. Pi!MailboxInit => MailboxInit
  BY DEF MailboxInit, Pi!MailboxInit, NoLine, Pi!NoLine
<1> QED
  BY <1>1, FbBegins DEF Pi!Init, PiInv

(* ... and at every step.                                                  *)
LEMMA PiKeeps ==
  ASSUME Attempted, NoneCountsMore, PiInv, [Pi!Next]_Pi!vars
  PROVE  PiInv'
BY FbOrNot, FbKeeps, FbStutters, AddMemoryKeeps DEF PiInv

(* mailbox.c 18-138, platform.c 191-277: whatever the cache writes back or *)
(* drops, and whatever else VideoCore answers, LK draws where VideoCore    *)
(* shows when init_framebuffer has succeeded and no variable next to       *)
(* fb_desc was written meanwhile; the allocator has neither the firmware's *)
(* loop nor memory that a node of the tree leaves to VideoCore, as long as *)
(* no later node counts more than an earlier one.                          *)
THEOREM MemoryAlwaysKeptApart ==
  ASSUME Attempted, NoneCountsMore
  PROVE  Pi!Spec => []MemoryKeptApart
<1>1. PiInv => MemoryKeptApart
  BY DEF PiInv, FbInv, MemoryKeptApart, DrawsOnScreen
<1>2. PiInv /\ [Pi!Next]_Pi!vars => PiInv'
  BY PiKeeps
<1> QED
  BY <1>1, <1>2, PiBegins, PTL DEF Pi!Spec
=============================================================================
