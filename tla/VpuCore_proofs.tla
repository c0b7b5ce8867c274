---------------------------- MODULE VpuCore_proofs ----------------------------
(***************************************************************************)
(* Proofs about VpuCore, for every number of threads and of additions: the *)
(* lock that nobody tests excludes, an addition is never lost, and no      *)
(* interrupt comes before what it needs.                                   *)
(*                                                                         *)
(* LockWorks is not inductive.  What a thread has put away must be right,  *)
(* too: a call remembers whether interrupts were on (Remembers), a stack   *)
(* keeps a place that can be interrupted (Frames), and a thread that is    *)
(* switched out is in the middle of such a call, or has not begun          *)
(* (Waiting).  For NoPanic, what is unmasked has a handler and the timer a *)
(* callback (Serving), which LK has set before it leaves its first thread. *)
(***************************************************************************)
EXTENDS VpuCore, SysTimer_proofs

Up == boot \notin {"start", "kernel"}

(* The steps of a call after it has turned interrupts off. *)
Calling == {"read", "write", "lock", "resched", "switched", "restore"}

ThreadPlaces == [pc : Pcs, use : {"none", "add", "yield"} \cup Sources, restore : BOOLEAN, old : Nat]

CoreTypeOK ==
  /\ ie \in BOOLEAN /\ cur \in Threads /\ th \in [Threads -> ThreadPlaces]
  /\ sr \in [Threads -> BOOLEAN] /\ DOMAIN frame = Threads
  /\ counter \in Nat /\ panicked \in BOOLEAN
  /\ boot \in {"start", "kernel", "hooks", "uart", "timer", "timer2", "up"}

(* A call gives interrupts back if it was not made in a handler. *)
Remembers(t) ==
  /\ frame[t] = <<>> /\ Up => th[t].restore
  /\ frame[t] # <<>> => ~th[t].restore

(* The thread that runs. *)
Current ==
  /\ th[cur].pc \in Pcs \ {"none", "new", "out"}
  /\ ie => th[cur].pc \in {"run", "save", "di"} /\ frame[cur] = <<>>
  /\ th[cur].pc \in {"run", "save"} /\ frame[cur] = <<>> /\ Up => ie
  /\ th[cur].pc = "di" => ie /\ th[cur].restore
  /\ th[cur].pc \in {"run", "start", "enable"} => frame[cur] = <<>>
  /\ th[cur].pc \in {"irq", "timer", "handled", "rti"} => frame[cur] # <<>>
  /\ th[cur].pc \in Calling => Remembers(cur)
  /\ lock = (IF th[cur].pc \in {"resched", "switched", "start"} THEN 1 ELSE 0)
  /\ th[cur].pc = "write" => th[cur].old = counter

(* A thread that does not run.  Interrupts are off where it goes on. *)
Waiting(t) ==
  /\ th[t].pc \in {"none", "new", "out"} /\ ~sr[t]
  /\ th[t].pc # "out" => frame[t] = <<>>
  /\ th[t].pc = "out" => Remembers(t)

(* What an interrupt has put on a stack. *)
Interrupted(f) ==
  /\ f \in [place : ThreadPlaces, ie : BOOLEAN]
  /\ f.ie /\ f.place.pc \in {"run", "save", "di"}
  /\ f.place.pc = "di" => f.place.restore

Frames == \A t \in Threads : frame[t] # <<>> => \E f : Interrupted(f) /\ frame[t] = <<f>>

(* The image begins with one thread, and LK with two. *)
Early ==
  /\ boot = "start" => cur = Boot /\ th[cur].pc = "run" /\ ~ie
  /\ ~Up => \A t \in Threads \ {Boot, Init2} : th[t].pc = "none"

LockInv ==
  /\ CoreTypeOK /\ Current /\ Frames /\ Early
  /\ \A t \in Threads \ {cur} : Waiting(t)
  /\ counter = adds

(* The interrupts that can come, and what they need. *)
Serving ==
  /\ handlers \subseteq {"timer", "uart"}
  /\ boot # "start" => unmasked \subseteq handlers
  /\ boot = "uart" => "uart" \in handlers
  /\ boot = "timer2" => "timer" \in handlers
  /\ cur # Boot \/ boot \in {"uart", "timer", "timer2", "up"} => callback["vpu"]
  /\ boot # "start" /\ "timer" \in unmasked => callback["vpu"]
  /\ th[cur].pc = "irq" => th[cur].use \in handlers
  /\ th[cur].pc = "irq" /\ th[cur].use = "timer" => callback["vpu"]
  /\ th[cur].pc = "timer" => callback["vpu"]
  /\ NoPanic

IInv == TimerInv /\ LockInv /\ Serving

-----------------------------------------------------------------------------
(* A step of the running thread leaves the others as they are.             *)
LEMMA OthersWait ==
  ASSUME LockInv, cur' = cur, Up' => Up,
         \A t \in Threads \ {cur} : th'[t] = th[t] /\ frame'[t] = frame[t] /\ sr'[t] = sr[t]
  PROVE  \A t \in Threads \ {cur'} : Waiting(t)'
BY DEF LockInv, Waiting, Remembers

(* So does one that changes nothing of the stacks.                         *)
LEMMA FramesStay ==
  ASSUME LockInv, frame' = frame
  PROVE  Frames'
BY DEF LockInv, Frames

(* What a step of the running thread has to show. *)
LEMMA OwnStep ==
  ASSUME LockInv, NEW p \in ThreadPlaces, th' = [th EXCEPT ![cur] = p],
         UNCHANGED <<cur, frame, sr, boot>>, boot # "start",
         ie' \in BOOLEAN, panicked' \in BOOLEAN, counter' \in Nat, counter' = adds', Current'
  PROVE  LockInv'
<1>1. \A t \in Threads \ {cur} : th'[t] = th[t]
  BY DEF LockInv, CoreTypeOK
<1>2. CoreTypeOK'
  BY DEF LockInv, CoreTypeOK
<1>3. \A t \in Threads \ {cur'} : Waiting(t)'
  BY <1>1, OthersWait DEF Up
<1>4. Early'
  <2>1. ~Up => cur \in {Boot, Init2}
    BY DEF LockInv, Early, Current, CoreTypeOK, Up
  <2> QED
    BY <1>1, <2>1 DEF LockInv, Early, Up
<1> QED
  BY <1>2, <1>3, <1>4, FramesStay DEF LockInv

-----------------------------------------------------------------------------
(* The calls of a thread. *)
LEMMA CallKeeps ==
  ASSUME LockInv, Call \/ TestInts \/ DisableInts \/ ReadCounter \/ WriteCounter \/ SpinLock
                  \/ SpinUnlock \/ Restore
  PROVE  LockInv'
<1> DEFINE c == th[cur]
<1>0. c \in ThreadPlaces /\ cur \in Threads
  BY DEF LockInv, CoreTypeOK
<1>1. boot # "start"
  BY DEF LockInv, Early, Current, Call, TestInts, DisableInts, ReadCounter, WriteCounter, SpinLock,
     SpinUnlock, Restore, At
<1> USE <1>0, <1>1 DEF LockInv, CoreTypeOK, Current, ThreadPlaces, At, Go, Up, Remembers, Calling, Pcs
<1>2. CASE Call
  <2>1. PICK use \in {"add", "yield"} : th' = [th EXCEPT ![cur].pc = "save", ![cur].use = use]
    BY <1>2 DEF Call
  <2> DEFINE p == [c EXCEPT !.pc = "save", !.use = use]
  <2>2. p \in ThreadPlaces /\ th' = [th EXCEPT ![cur] = p]
    BY <2>1
  <2>3. Current'
    BY <1>2, <2>2 DEF Call
  <2> QED
    BY <1>2, <2>2, <2>3, OwnStep DEF Call
<1>3. CASE TestInts
  <2> DEFINE p == [c EXCEPT !.pc = IF ie THEN "di" ELSE InsideCall(c.use), !.restore = ie]
  <2>2. p \in ThreadPlaces /\ th' = [th EXCEPT ![cur] = p]
    BY <1>3 DEF TestInts, InsideCall
  <2>3. Current'
    BY <1>3, <2>2 DEF TestInts, InsideCall
  <2> QED
    BY <1>3, <2>2, <2>3, OwnStep DEF TestInts
<1>4. CASE DisableInts
  <2> DEFINE p == [c EXCEPT !.pc = InsideCall(c.use)]
  <2>2. p \in ThreadPlaces /\ th' = [th EXCEPT ![cur] = p]
    BY <1>4 DEF DisableInts, InsideCall
  <2>3. Current'
    BY <1>4, <2>2 DEF DisableInts, InsideCall
  <2> QED
    BY <1>4, <2>2, <2>3, OwnStep DEF DisableInts
<1>5. CASE ReadCounter
  <2> DEFINE p == [c EXCEPT !.pc = "write", !.old = counter]
  <2>2. p \in ThreadPlaces /\ th' = [th EXCEPT ![cur] = p]
    BY <1>5 DEF ReadCounter
  <2>3. Current'
    BY <1>5, <2>2 DEF ReadCounter
  <2> QED
    BY <1>5, <2>2, <2>3, OwnStep DEF ReadCounter
<1>6. CASE WriteCounter
  <2> DEFINE p == [c EXCEPT !.pc = "restore", !.old = 0]
  <2>2. p \in ThreadPlaces /\ th' = [th EXCEPT ![cur] = p]
    BY <1>6 DEF WriteCounter
  <2>3. Current'
    BY <1>6, <2>2 DEF WriteCounter
  <2>4. counter' = adds' /\ counter' \in Nat
    BY <1>6 DEF WriteCounter
  <2> QED
    BY <1>6, <2>2, <2>3, <2>4, OwnStep DEF WriteCounter
<1>7. CASE SpinLock
  <2> DEFINE p == [c EXCEPT !.pc = "resched"]
  <2>2. p \in ThreadPlaces /\ th' = [th EXCEPT ![cur] = p]
    BY <1>7 DEF SpinLock
  <2>3. Current'
    BY <1>7, <2>2 DEF SpinLock
  <2> QED
    BY <1>7, <2>2, <2>3, OwnStep DEF SpinLock
<1>8. CASE SpinUnlock
  <2> DEFINE p == [c EXCEPT !.pc = "restore"]
  <2>2. p \in ThreadPlaces /\ th' = [th EXCEPT ![cur] = p]
    BY <1>8 DEF SpinUnlock
  <2>3. Current'
    BY <1>8, <2>2 DEF SpinUnlock
  <2> QED
    BY <1>8, <2>2, <2>3, OwnStep DEF SpinUnlock
<1>9. CASE Restore
  <2> DEFINE p == [c EXCEPT !.pc = Over, !.use = "none", !.restore = FALSE]
  <2>2. p \in ThreadPlaces /\ th' = [th EXCEPT ![cur] = p]
    BY <1>9 DEF Restore, Done, Over
  <2>3. Current'
    BY <1>9, <2>2 DEF Restore, Over
  <2> QED
    BY <1>9, <2>2, <2>3, OwnStep DEF Restore
<1> QED
  BY <1>2, <1>3, <1>4, <1>5, <1>6, <1>7, <1>8, <1>9

-----------------------------------------------------------------------------
(* The switch from thread to thread. *)

(* A new thread waits; so do all the others.                               *)
LEMMA CreateKeeps ==
  ASSUME LockInv, NEW n \in Threads, ThreadCreate(n)
  PROVE  LockInv'
<1> USE DEF LockInv, CoreTypeOK, At
<1>1. n # cur /\ Waiting(n) /\ frame[n] = <<>> /\ n \in Threads
  BY DEF ThreadCreate, Waiting
<1> DEFINE p == [Idling EXCEPT !.pc = "new"]
<1>2. /\ th' = [th EXCEPT ![n] = p] /\ sr' = [sr EXCEPT ![n] = FALSE]
      /\ UNCHANGED <<ie, cur, frame, lock, counter, adds, boot, panicked>>
  BY DEF ThreadCreate, NewSr
<1>3. p \in ThreadPlaces /\ p.pc = "new"
  BY DEF Idling, ThreadPlaces, Pcs
<1> HIDE DEF p
<1>4. CoreTypeOK'
  BY <1>2, <1>3
<1>5. Current'
  BY <1>1, <1>2 DEF Current, Remembers, Up
<1>6. ASSUME NEW t \in Threads \ {cur} PROVE Waiting(t)'
  <2>1. CASE t = n
    <3>1. th'[t].pc = "new" /\ ~sr'[t] /\ frame'[t] = <<>>
      BY <1>1, <1>2, <1>3, <2>1
    <3> QED
      BY <3>1 DEF Waiting
  <2>2. CASE t # n
    BY <1>2, <2>2 DEF Waiting, Remembers, Up
  <2> QED
    BY <2>1, <2>2
<1>7. Early'
  <2>1. boot # "start" /\ (~Up => n = Init2)
    BY DEF ThreadCreate, Up
  <2> QED
    BY <1>2, <2>1 DEF Early, Up
<1> QED
  BY <1>2, <1>4, <1>5, <1>6, <1>7, FramesStay

(* LK's other thread has not begun: nobody else is in a call.              *)
LEMMA IdleKeeps ==
  ASSUME LockInv, BecomeIdle
  PROVE  LockInv'
<1> USE DEF LockInv, CoreTypeOK, At
<1>1. /\ th[cur].pc = "run" /\ boot = "kernel" /\ th[Init2].pc = "new" /\ ie' /\ boot' = "hooks"
      /\ UNCHANGED <<cur, th, frame, sr, lock, counter, adds, panicked>>
  BY DEF BecomeIdle
<1>2. ASSUME NEW t \in Threads \ {cur} PROVE Waiting(t)'
  <2>1. th[t].pc # "out"
    <3>1. cur = Boot
      BY <1>1 DEF Early, Up
    <3> QED
      BY <1>1, <3>1 DEF Early, Up
  <2> QED
    BY <1>1, <2>1 DEF Waiting
<1>3. CoreTypeOK' /\ Early'
  BY <1>1 DEF Early, Up
<1>4. Current'
  BY <1>1 DEF Current, Calling
<1> QED
  BY <1>1, <1>2, <1>3, <1>4, FramesStay

(* The thread that is left is in a call; the one that goes on was, or is   *)
(* new; the lock is still held.                                            *)
LEMMA SwitchKeeps ==
  ASSUME LockInv, NEW n \in Threads, ContextSwitch(n)
  PROVE  LockInv'
<1> USE DEF LockInv, CoreTypeOK, At
<1>1. /\ th[cur].pc = "resched" /\ n # cur /\ th[n].pc \in {"new", "out"} /\ Waiting(n)
      /\ th' = [th EXCEPT ![cur].pc = "out", ![n].pc = IF @ = "new" THEN "start" ELSE "switched"]
      /\ sr' = [sr EXCEPT ![cur] = ie, ![n] = FALSE]
      /\ ie' = sr[n] /\ cur' = n
      /\ UNCHANGED <<frame, lock, counter, adds, boot, panicked>>
  BY DEF ContextSwitch
<1>2. ~ie /\ ~ie' /\ lock = 1 /\ Remembers(cur) /\ boot # "start"
  BY <1>1 DEF Current, Waiting, Calling, Early
<1> DEFINE p == [th[cur] EXCEPT !.pc = "out"]
           q == [th[n] EXCEPT !.pc = IF th[n].pc = "new" THEN "start" ELSE "switched"]
<1>3. /\ p \in ThreadPlaces /\ p.pc = "out" /\ p.restore = th[cur].restore
      /\ q \in ThreadPlaces /\ q.pc = (IF th[n].pc = "new" THEN "start" ELSE "switched")
      /\ q.restore = th[n].restore
  BY DEF ThreadPlaces, Pcs
<1>4. th' = [th EXCEPT ![cur] = p, ![n] = q]
  BY <1>1
<1> HIDE DEF p, q
<1>5. CoreTypeOK'
  BY <1>1, <1>3, <1>4
<1>6. Current'
  <2>1. th'[n].pc \in {"start", "switched"} /\ th'[n] = q
    BY <1>1, <1>3, <1>4
  <2>2. th'[n].pc = "start" => frame[n] = <<>>
    BY <1>1, <1>3, <2>1 DEF Waiting
  <2>3. th'[n].pc = "switched" => Remembers(n)'
    BY <1>1, <1>3, <2>1 DEF Waiting, Remembers, Up
  <2> QED
    BY <1>1, <1>2, <2>1, <2>2, <2>3 DEF Current, Pcs, Calling
<1>7. ASSUME NEW t \in Threads \ {n} PROVE Waiting(t)'
  <2>1. CASE t = cur
    <3>1. th'[t] = p /\ ~sr'[t]
      BY <1>1, <1>2, <1>4, <2>1
    <3> QED
      BY <1>1, <1>2, <1>3, <2>1, <3>1 DEF Waiting, Remembers, Up
  <2>2. CASE t # cur
    <3>1. th'[t] = th[t] /\ sr'[t] = sr[t]
      BY <1>1, <1>4, <2>2
    <3> QED
      BY <1>1, <2>2, <3>1 DEF Waiting, Remembers, Up
  <2> QED
    BY <2>1, <2>2
<1>8. Early'
  <2>1. ~Up => cur \in {Boot, Init2} /\ n \in {Boot, Init2}
    BY <1>1 DEF Early, Up
  <2> QED
    BY <1>1, <1>2, <1>4, <2>1 DEF Early, Up
<1> QED
  BY <1>1, <1>5, <1>6, <1>7, <1>8, FramesStay

(* The first steps of a new thread. *)
LEMMA FirstKeeps ==
  ASSUME LockInv, FirstUnlock \/ FirstEnable
  PROVE  LockInv'
<1> DEFINE c == th[cur]
<1>0. c \in ThreadPlaces /\ cur \in Threads
  BY DEF LockInv, CoreTypeOK
<1>1. boot # "start"
  BY DEF LockInv, Early, Current, FirstUnlock, FirstEnable, At
<1> USE <1>0, <1>1 DEF LockInv, CoreTypeOK, Current, ThreadPlaces, At, Go, Up, Remembers, Calling, Pcs
<1>2. CASE FirstUnlock
  <2> DEFINE p == [c EXCEPT !.pc = "enable"]
  <2>1. p \in ThreadPlaces /\ th' = [th EXCEPT ![cur] = p]
    BY <1>2 DEF FirstUnlock
  <2>2. Current'
    BY <1>2, <2>1 DEF FirstUnlock
  <2> QED
    BY <1>2, <2>1, <2>2, OwnStep DEF FirstUnlock
<1>3. CASE FirstEnable
  <2> DEFINE p == [c EXCEPT !.pc = "run"]
  <2>1. p \in ThreadPlaces /\ th' = [th EXCEPT ![cur] = p]
    BY <1>3 DEF FirstEnable
  <2>2. Current'
    BY <1>3, <2>1 DEF FirstEnable
  <2> QED
    BY <1>3, <2>1, <2>2, OwnStep DEF FirstEnable
<1> QED
  BY <1>2, <1>3

-----------------------------------------------------------------------------
(* Interrupts. *)

(* One comes only where interrupts are on, and finds the stack empty.      *)
LEMMA InterruptKeeps ==
  ASSUME LockInv, Serving, Interrupt
  PROVE  LockInv'
<1> USE DEF LockInv, CoreTypeOK
<1>1. PICK s \in Sources : th' = [th EXCEPT ![cur] = [Idling EXCEPT !.pc = "irq", !.use = s]]
  <2>1. unmasked \subseteq Sources
    BY DEF Interrupt, Early, Serving, Sources
  <2> QED
    BY <2>1 DEF Interrupt
<1> DEFINE p == [Idling EXCEPT !.pc = "irq", !.use = s]
           f == [place |-> th[cur], ie |-> ie]
<1>2. p \in ThreadPlaces /\ p.pc = "irq"
  BY DEF Idling, ThreadPlaces, Pcs
<1>3. th' = [th EXCEPT ![cur] = p]
  BY <1>1
<1> HIDE DEF p
<1>4. ie /\ ie' = FALSE /\ th[cur].pc \in {"run", "save", "di"} /\ frame[cur] = <<>> /\ lock = 0
      /\ boot # "start" /\ UNCHANGED <<cur, sr, lock, counter, adds, boot, panicked>>
  BY DEF Interrupt, Current, Early
<1>5. Interrupted(f)
  <2>1. f \in [place : ThreadPlaces, ie : BOOLEAN] /\ f.ie /\ f.place = th[cur]
    BY <1>4
  <2> HIDE DEF f
  <2> QED
    BY <1>4, <2>1 DEF Interrupted, Current
<1>6. frame' = [frame EXCEPT ![cur] = <<f>>]
  BY <1>4 DEF Interrupt
<1> HIDE DEF f
<1>7. CoreTypeOK'
  BY <1>2, <1>3, <1>4, <1>6
<1>8. Current'
  <2>1. th'[cur] = p /\ frame'[cur] = <<f>> /\ <<f>> # <<>>
    BY <1>3, <1>6
  <2> QED
    BY <1>2, <1>4, <2>1 DEF Current, Pcs, Calling
<1>9. Frames'
  BY <1>5, <1>6 DEF Frames
<1>10. \A t \in Threads \ {cur'} : Waiting(t)'
  BY <1>3, <1>4, <1>6, OthersWait DEF Up
<1>11. Early'
  <2>1. ~Up => cur \in {Boot, Init2}
    BY <1>4 DEF Early, Up
  <2> QED
    BY <1>3, <1>4, <2>1 DEF Early, Up
<1> QED
  BY <1>4, <1>7, <1>8, <1>9, <1>10, <1>11

(* The handler's steps, up to where it reschedules or returns.             *)
LEMMA HandlerStepsKeep ==
  ASSUME LockInv, Dispatch \/ TimerIrq \/ Handled
  PROVE  LockInv'
<1> DEFINE c == th[cur]
<1>0. c \in ThreadPlaces /\ cur \in Threads
  BY DEF LockInv, CoreTypeOK
<1>1. boot # "start"
  BY DEF LockInv, Early, Current, Dispatch, TimerIrq, Handled, At
<1> USE <1>0, <1>1 DEF LockInv, CoreTypeOK, Current, ThreadPlaces, At, Go, Up, Remembers, Calling, Pcs
<1>2. CASE Dispatch
  <2> DEFINE p == [c EXCEPT !.pc = IF c.use = "timer" THEN "timer" ELSE "handled"]
  <2>1. p \in ThreadPlaces /\ th' = [th EXCEPT ![cur] = p]
    BY <1>2 DEF Dispatch
  <2>2. Current' /\ panicked' \in BOOLEAN
    BY <1>2, <2>1 DEF Dispatch
  <2> QED
    BY <1>2, <2>1, <2>2, OwnStep DEF Dispatch
<1>3. CASE TimerIrq
  <2>1. panicked' \in BOOLEAN
    BY <1>3 DEF TimerIrq
  <2>2. CASE UNCHANGED th
    <3>1. th' = [th EXCEPT ![cur] = c]
      BY <2>2
    <3>2. Current'
      BY <1>3, <2>2 DEF TimerIrq
    <3> QED
      BY <1>3, <2>1, <3>1, <3>2, OwnStep DEF TimerIrq
  <2>3. CASE Go("handled")
    <3> DEFINE p == [c EXCEPT !.pc = "handled"]
    <3>1. p \in ThreadPlaces /\ th' = [th EXCEPT ![cur] = p]
      BY <2>3
    <3>2. Current'
      BY <1>3, <3>1 DEF TimerIrq
    <3> QED
      BY <1>3, <2>1, <3>1, <3>2, OwnStep DEF TimerIrq
  <2> QED
    BY <1>3, <2>2, <2>3 DEF TimerIrq
<1>4. CASE Handled
  <2>1. PICK p \in {[c EXCEPT !.pc = "save", !.use = "yield"], [c EXCEPT !.pc = "rti", !.use = "none"]} :
          th' = [th EXCEPT ![cur] = p]
    BY <1>4 DEF Handled
  <2>2. p \in ThreadPlaces /\ p.pc \in {"save", "rti"}
    OBVIOUS
  <2>3. Current'
    BY <1>4, <2>1, <2>2 DEF Handled
  <2> QED
    BY <1>4, <2>1, <2>2, <2>3, OwnStep DEF Handled
<1> QED
  BY <1>2, <1>3, <1>4

(* The thread is back where it was, with interrupts on.                    *)
LEMMA RtiKeeps ==
  ASSUME LockInv, Rti
  PROVE  LockInv'
<1> USE DEF LockInv, CoreTypeOK, At
<1>1. th[cur].pc = "rti" /\ frame[cur] # <<>> /\ lock = 0 /\ boot # "start"
  BY DEF Rti, Current, Early
<1>2. PICK f : Interrupted(f) /\ frame[cur] = <<f>>
  BY <1>1 DEF Frames
<1>3. Last(<<f>>) = f /\ Front(<<f>>) = <<>>
  BY DEF Last, Front
<1>4. /\ th' = [th EXCEPT ![cur] = f.place] /\ ie' = f.ie
      /\ frame' = [frame EXCEPT ![cur] = <<>>]
      /\ UNCHANGED <<cur, sr, lock, counter, adds, boot, panicked>>
  BY <1>2, <1>3 DEF Rti
<1>5. f.place \in ThreadPlaces /\ ie' = TRUE /\ f.place.pc \in {"run", "save", "di"}
  BY <1>2, <1>4 DEF Interrupted
<1>6. CoreTypeOK'
  BY <1>4, <1>5
<1>7. Current'
  <2>1. th'[cur] = f.place /\ frame'[cur] = <<>>
    BY <1>4
  <2> QED
    BY <1>1, <1>2, <1>4, <1>5, <2>1 DEF Current, Pcs, Calling, Interrupted
<1>8. Frames'
  BY <1>4 DEF Frames
<1>9. \A t \in Threads \ {cur'} : Waiting(t)'
  BY <1>4, OthersWait DEF Up
<1>10. Early'
  <2>1. ~Up => cur \in {Boot, Init2}
    BY <1>1 DEF Early, Up
  <2> QED
    BY <1>1, <1>4, <2>1 DEF Early, Up
<1> QED
  BY <1>4, <1>6, <1>7, <1>8, <1>9, <1>10

-----------------------------------------------------------------------------
(* The image. *)

(* Nobody is in a call any more when an image begins. *)
LEMMA ChainLoadKeeps ==
  ASSUME LockInv, ChainLoad
  PROVE  LockInv'
<1>0. Boot \in Threads /\ Init2 \in Threads
  BY VpuAssumption DEF VpuAssumption
<1>1. /\ ie' = FALSE /\ cur' = Boot /\ lock' = 0 /\ counter' = 0 /\ adds' = 0 /\ boot' = "start"
      /\ th' = Fresh /\ frame' = [t \in Threads |-> <<>>] /\ sr' = [t \in Threads |-> FALSE]
      /\ panicked' = panicked
  BY DEF ChainLoad
<1>2. /\ Idling \in ThreadPlaces /\ Idling.pc = "run"
      /\ [Idling EXCEPT !.pc = "none"] \in ThreadPlaces /\ [Idling EXCEPT !.pc = "none"].pc = "none"
  BY DEF Idling, ThreadPlaces, Pcs
<1>3. \A t \in Threads : th'[t] = (IF t = Boot THEN Idling ELSE [Idling EXCEPT !.pc = "none"])
  BY <1>1 DEF Fresh
<1>4. CoreTypeOK'
  BY <1>0, <1>1, <1>2 DEF LockInv, CoreTypeOK, Fresh
<1>5. Current'
  BY <1>0, <1>1, <1>2, <1>3 DEF Current, Up, Pcs, Calling
<1>6. Frames' /\ Early' /\ \A t \in Threads \ {cur'} : Waiting(t)'
  BY <1>0, <1>1, <1>2, <1>3 DEF Frames, Early, Waiting
<1> QED
  BY <1>1, <1>4, <1>5, <1>6 DEF LockInv

(* The rest has no part in the threads, and LK is up once it is.           *)
LEMMA BesideKeeps ==
  ASSUME LockInv, UNCHANGED <<ie, cur, th, frame, sr, lock, counter, adds, panicked>>,
         \/ boot' = boot
         \/ boot = "start" /\ boot' = "kernel"
         \/ Up /\ boot' \in {"uart", "timer", "timer2", "up"}
  PROVE  LockInv'
<1>1. Up' <=> Up
  BY DEF Up
<1>2. CoreTypeOK' /\ Current' /\ Early'
  BY <1>1 DEF LockInv, CoreTypeOK, Current, Remembers, Early, Calling, Up
<1> QED
  BY <1>1, <1>2, FramesStay, OthersWait DEF LockInv

LEMMA LockBegins == Init => LockInv
<1> SUFFICES ASSUME Init PROVE LockInv
  OBVIOUS
<1>0. Boot \in Threads /\ Init2 \in Threads
  BY VpuAssumption DEF VpuAssumption
<1>1. /\ ie = FALSE /\ cur = Boot /\ lock = 0 /\ counter = 0 /\ adds = 0 /\ boot = "start"
      /\ th = Fresh /\ frame = [t \in Threads |-> <<>>] /\ sr = [t \in Threads |-> FALSE]
      /\ panicked = FALSE
  BY DEF Init
<1>2. /\ Idling \in ThreadPlaces /\ Idling.pc = "run"
      /\ [Idling EXCEPT !.pc = "none"] \in ThreadPlaces /\ [Idling EXCEPT !.pc = "none"].pc = "none"
  BY DEF Idling, ThreadPlaces, Pcs
<1>3. \A t \in Threads : th[t] = (IF t = Boot THEN Idling ELSE [Idling EXCEPT !.pc = "none"])
  BY <1>1 DEF Fresh
<1>4. CoreTypeOK
  BY <1>0, <1>1, <1>2 DEF CoreTypeOK, Fresh
<1>5. Current
  BY <1>0, <1>1, <1>2, <1>3 DEF Current, Up, Pcs, Calling
<1>6. Frames /\ Early /\ \A t \in Threads \ {cur} : Waiting(t)
  BY <1>0, <1>1, <1>2, <1>3 DEF Frames, Early, Waiting
<1> QED
  BY <1>1, <1>4, <1>5, <1>6 DEF LockInv

(* Every step keeps the threads and their lock in order.                   *)
LEMMA LockPart ==
  ASSUME LockInv, Serving, [Next]_vars
  PROVE  LockInv'
<1>1. CASE Call \/ TestInts \/ DisableInts \/ ReadCounter \/ WriteCounter \/ SpinLock
           \/ SpinUnlock \/ Restore
  BY <1>1, CallKeeps
<1>2. CASE \E n \in Threads : ThreadCreate(n) \/ ContextSwitch(n)
  BY <1>2, CreateKeeps, SwitchKeeps
<1>3. CASE BecomeIdle \/ FirstUnlock \/ FirstEnable
  BY <1>3, IdleKeeps, FirstKeeps
<1>4. CASE Interrupt \/ Dispatch \/ TimerIrq \/ Handled \/ Rti
  BY <1>4, InterruptKeeps, HandlerStepsKeep, RtiKeeps
<1>5. CASE ChainLoad
  BY <1>5, ChainLoadKeeps
<1>6. CASE IntcInit \/ UartInit \/ UartUnmask \/ TimerRegister \/ TimerUnmask
  BY <1>6, BesideKeeps DEF IntcInit, UartInit, UartUnmask, TimerRegister, TimerUnmask, Up
<1>7. CASE UartAsks \/ VpuSetTimer \/ (Tick /\ UNCHANGED coreVars) \/ UNCHANGED vars
  BY <1>7, BesideKeeps DEF UartAsks, VpuSetTimer, coreVars, vars
<1> QED
  BY <1>1, <1>2, <1>3, <1>4, <1>5, <1>6, <1>7 DEF Next

-----------------------------------------------------------------------------
(* The timer. *)

(* Every step of VpuCore is one of the timer's, or none.                   *)
LEMMA TimerPart ==
  ASSUME TimerInv, [Next]_vars
  PROVE  TimerInv'
<1>1. "vpu" \in Procs
  BY VpuAssumption DEF VpuAssumption
<1>2. Tick \/ DriverStep("vpu") \/ TimerReset("vpu") \/ UNCHANGED timerVars
  <2>1. CASE Call \/ TestInts \/ DisableInts \/ ReadCounter \/ WriteCounter \/ SpinLock
             \/ SpinUnlock \/ Restore \/ BecomeIdle \/ FirstUnlock \/ FirstEnable
             \/ (\E n \in Threads : ThreadCreate(n) \/ ContextSwitch(n))
    BY <2>1 DEF Call, TestInts, DisableInts, ReadCounter, WriteCounter, SpinLock, SpinUnlock, Restore,
       BecomeIdle, FirstUnlock, FirstEnable, ThreadCreate, ContextSwitch
  <2>2. CASE Interrupt \/ Handled \/ Rti \/ IntcInit \/ UartInit \/ UartUnmask \/ TimerRegister
             \/ TimerUnmask \/ UartAsks \/ UNCHANGED vars
    BY <2>2 DEF Interrupt, Handled, Rti, IntcInit, UartInit, UartUnmask, TimerRegister, TimerUnmask,
       UartAsks, vars
  <2>3. CASE Dispatch \/ TimerIrq \/ VpuSetTimer
    BY <2>3 DEF Dispatch, TimerIrq, VpuSetTimer, DriverStep
  <2>4. CASE ChainLoad \/ (Tick /\ UNCHANGED coreVars)
    BY <2>4 DEF ChainLoad
  <2> QED
    BY <2>1, <2>2, <2>3, <2>4 DEF Next
<1>3. CASE UNCHANGED timerVars
  BY <1>3 DEF timerVars, TimerInv, TimerTypeOK, TimerKept, CompareAhead, Missed
<1> QED
  BY <1>1, <1>2, <1>3, TimerKeeps, ResetKeeps

(* Only a new image takes the callback away. *)
LEMMA CallbackStays ==
  ASSUME TimerInv, [Next]_vars, ~ChainLoad
  PROVE  callback["vpu"] => callback'["vpu"]
<1>1. "vpu" \in Procs
  BY VpuAssumption DEF VpuAssumption
<1>2. callback' = [callback EXCEPT !["vpu"] = TRUE] \/ callback' = callback
  <2>1. CASE Call \/ TestInts \/ DisableInts \/ ReadCounter \/ WriteCounter \/ SpinLock
             \/ SpinUnlock \/ Restore \/ BecomeIdle \/ FirstUnlock \/ FirstEnable
             \/ (\E n \in Threads : ThreadCreate(n) \/ ContextSwitch(n))
    BY <2>1 DEF Call, TestInts, DisableInts, ReadCounter, WriteCounter, SpinLock, SpinUnlock, Restore,
       BecomeIdle, FirstUnlock, FirstEnable, ThreadCreate, ContextSwitch, timerVars
  <2>2. CASE Interrupt \/ Handled \/ Rti \/ IntcInit \/ UartInit \/ UartUnmask \/ TimerRegister
             \/ TimerUnmask \/ UartAsks \/ UNCHANGED vars
    BY <2>2 DEF Interrupt, Handled, Rti, IntcInit, UartInit, UartUnmask, TimerRegister, TimerUnmask,
       UartAsks, vars, timerVars
  <2>3. CASE Dispatch \/ TimerIrq \/ VpuSetTimer
    BY <2>3 DEF Dispatch, TimerIrq, VpuSetTimer, SetOneshot, WriteCompare, TimerEnter, ReadStatus,
       AckStatus, CallBack, timerVars
  <2>4. CASE Tick /\ UNCHANGED coreVars
    BY <2>4 DEF Tick
  <2> QED
    BY <2>1, <2>2, <2>3, <2>4 DEF Next
<1> QED
  BY <1>1, <1>2 DEF TimerInv, TimerTypeOK

-----------------------------------------------------------------------------
(* What the interrupts need. *)
LEMMA ServingPart ==
  ASSUME IInv, [Next]_vars
  PROVE  Serving'
<1> USE DEF IInv, Serving, NoPanic
<1>0. ~ChainLoad => (callback["vpu"] => callback'["vpu"])
  BY CallbackStays
<1>1. cur \in Threads /\ th \in [Threads -> ThreadPlaces]
  BY DEF LockInv, CoreTypeOK
(* A step of the running thread that is none of the handler's. *)
<1>2. ASSUME UNCHANGED <<unmasked, handlers, cur, panicked>>, ~ChainLoad,
             boot' = boot \/ (boot = "kernel" /\ boot' = "hooks"),
             th'[cur].pc \notin {"irq", "timer"} \/ th'[cur] = th[cur]
      PROVE  Serving'
  BY <1>0, <1>2
<1>3. CASE Call \/ TestInts \/ DisableInts \/ ReadCounter \/ WriteCounter \/ SpinLock
           \/ SpinUnlock \/ Restore \/ FirstUnlock \/ FirstEnable
  <2>1. CASE Call \/ ReadCounter \/ WriteCounter \/ SpinLock \/ SpinUnlock \/ FirstUnlock \/ FirstEnable
    <3>1. \E pc \in {"save", "write", "restore", "resched", "enable", "run"} : th'[cur].pc = pc
      BY <1>1, <2>1 DEF Call, ReadCounter, WriteCounter, SpinLock, SpinUnlock, FirstUnlock, FirstEnable,
         Go, ThreadPlaces
    <3> QED
      BY <1>2, <2>1, <3>1 DEF Call, ReadCounter, WriteCounter, SpinLock, SpinUnlock, FirstUnlock,
         FirstEnable, ChainLoad, At
  <2>2. CASE TestInts \/ DisableInts
    <3>1. th'[cur].pc \in {"di", "lock", "read"}
      BY <1>1, <2>2 DEF TestInts, DisableInts, InsideCall, Go, ThreadPlaces
    <3> QED
      BY <1>2, <2>2, <3>1 DEF TestInts, DisableInts, ChainLoad, At
  <2>3. CASE Restore
    <3>1. th'[cur].pc \in {"run", "rti"}
      BY <1>1, <2>3 DEF Restore, Done, Over, ThreadPlaces
    <3> QED
      BY <1>2, <2>3, <3>1 DEF Restore, ChainLoad, At
  <2> QED
    BY <1>3, <2>1, <2>2, <2>3
<1>4. ASSUME NEW n \in Threads, ThreadCreate(n)
      PROVE  Serving'
  <2>1. th'[cur] = th[cur] /\ UNCHANGED <<unmasked, handlers, cur, panicked, boot>>
    BY <1>1, <1>4 DEF ThreadCreate, At
  <2> QED
    BY <1>2, <1>4, <2>1 DEF ThreadCreate, ChainLoad, timerVars
<1>5. CASE BecomeIdle
  BY <1>2, <1>5 DEF BecomeIdle, ChainLoad
<1>6. ASSUME NEW n \in Threads, ContextSwitch(n)
      PROVE  Serving'
  <2>1. th'[cur'].pc \in {"start", "switched"}
    BY <1>1, <1>6 DEF ContextSwitch, ThreadPlaces
  <2>2. callback["vpu"] /\ callback' = callback
    BY <1>6 DEF ContextSwitch, timerVars
  <2> QED
    BY <1>6, <2>1, <2>2 DEF ContextSwitch
<1>7. CASE Interrupt
  <2>1. boot # "start"
    BY <1>7 DEF Interrupt, LockInv, Early
  <2>2. PICK s \in Pending \cap unmasked :
          th' = [th EXCEPT ![cur] = [Idling EXCEPT !.pc = "irq", !.use = s]]
    BY <1>7 DEF Interrupt
  <2>3. th'[cur].pc = "irq" /\ th'[cur].use = s
    BY <1>1, <2>2 DEF Idling
  <2> QED
    BY <1>7, <2>1, <2>2, <2>3 DEF Interrupt, timerVars
<1>8. CASE Dispatch
  <2>1. th[cur].pc = "irq" /\ th[cur].use \in handlers /\ callback' = callback
    BY <1>8 DEF Dispatch, At, TimerEnter, timerVars
  <2>2. panicked' = FALSE
    BY <1>8, <2>1 DEF Dispatch
  <2>3. th'[cur].pc = (IF th[cur].use = "timer" THEN "timer" ELSE "handled")
    BY <1>1, <1>8 DEF Dispatch, Go, ThreadPlaces
  <2> QED
    BY <1>8, <2>1, <2>2, <2>3 DEF Dispatch
<1>9. CASE TimerIrq
  <2>1. callback["vpu"] /\ callback' = callback
    BY <1>9 DEF TimerIrq, At, ReadStatus, AckStatus, CallBack
  <2>2. ~panicked'
    BY <1>9, <2>1 DEF TimerIrq
  <2>3. UNCHANGED th \/ th'[cur].pc = "handled"
    BY <1>1, <1>9 DEF TimerIrq, Go, ThreadPlaces
  <2> QED
    BY <1>9, <2>1, <2>2, <2>3 DEF TimerIrq
<1>10. CASE Handled
  <2>1. th'[cur].pc \in {"save", "rti"}
    BY <1>1, <1>10 DEF Handled, ThreadPlaces
  <2> QED
    BY <1>2, <1>10, <2>1 DEF Handled, ChainLoad, At
<1>11. CASE Rti
  <2>1. th[cur].pc = "rti" /\ frame[cur] # <<>>
    BY <1>11 DEF Rti, At, LockInv, Current
  <2>2. PICK f : Interrupted(f) /\ frame[cur] = <<f>>
    BY <1>1, <2>1 DEF LockInv, Frames
  <2>3. Last(<<f>>) = f
    BY DEF Last
  <2>4. th'[cur].pc \in {"run", "save", "di"}
    BY <1>1, <1>11, <2>2, <2>3 DEF Rti, Interrupted
  <2> QED
    BY <1>2, <1>11, <2>1, <2>4 DEF Rti, ChainLoad, At
<1>12. CASE ChainLoad
  <2>1. th'[cur'].pc = "run"
    BY <1>12, VpuAssumption DEF ChainLoad, Fresh, Idling, VpuAssumption
  <2> QED
    BY <1>12, <2>1 DEF ChainLoad
<1>13. CASE IntcInit
  BY <1>13 DEF IntcInit, At, timerVars
<1>14. CASE UartInit \/ UartUnmask \/ TimerRegister \/ TimerUnmask
  <2>1. cur # Boot
    BY <1>14, VpuAssumption DEF UartInit, UartUnmask, TimerRegister, TimerUnmask, VpuAssumption
  <2>2. th[cur].pc = "run" /\ UNCHANGED <<th, cur, callback, panicked>> /\ boot # "start"
    BY <1>14 DEF UartInit, UartUnmask, TimerRegister, TimerUnmask, timerVars, At
  <2>3. CASE UartInit
    <3>1. \/ handlers' = handlers \cup {"uart"} /\ boot' = "uart"
          \/ handlers' = handlers /\ boot' = "timer"
      BY <2>3 DEF UartInit
    <3>2. unmasked' = unmasked /\ callback'["vpu"]
      BY <2>1, <2>2, <2>3 DEF UartInit
    <3> QED
      BY <2>2, <3>1, <3>2
  <2>4. CASE UartUnmask
    BY <2>1, <2>2, <2>4 DEF UartUnmask
  <2>5. CASE TimerRegister
    BY <2>1, <2>2, <2>5 DEF TimerRegister
  <2>6. CASE TimerUnmask
    BY <2>1, <2>2, <2>6 DEF TimerUnmask
  <2> QED
    BY <1>14, <2>3, <2>4, <2>5, <2>6
<1>15. CASE UartAsks
  BY <1>2, <1>15, <1>0 DEF UartAsks, timerVars
<1>16. CASE VpuSetTimer
  <2>1. ~ChainLoad
    BY <1>16 DEF VpuSetTimer, ChainLoad, coreVars, At, LockInv
  <2> QED
    BY <1>2, <1>16, <2>1 DEF VpuSetTimer, coreVars
<1>17. CASE (Tick /\ UNCHANGED coreVars) \/ UNCHANGED vars
  <2>1. callback' = callback
    BY <1>17 DEF Tick, vars, timerVars
  <2>2. UNCHANGED <<unmasked, handlers, cur, th, boot, panicked>>
    BY <1>17 DEF coreVars, vars
  <2> QED
    BY <2>1, <2>2
<1> QED
  BY <1>3, <1>4, <1>5, <1>6, <1>7, <1>8, <1>9, <1>10, <1>11, <1>12, <1>13, <1>14, <1>15, <1>16, <1>17
     DEF Next

-----------------------------------------------------------------------------
LEMMA Begins == Init => IInv
<1> SUFFICES ASSUME Init PROVE IInv
  OBVIOUS
<1>1. Serving
  <2>1. th[cur].pc = "run"
    BY VpuAssumption DEF Init, Fresh, Idling, VpuAssumption
  <2> QED
    BY <2>1 DEF Init, Serving, NoPanic
<1> QED
  BY <1>1, LockBegins, TimerBegins DEF Init, IInv

LEMMA Keeps == IInv /\ [Next]_vars => IInv'
BY TimerPart, LockPart, ServingPart DEF IInv

(* The inductive invariant holds, for the threads, their lock, the         *)
(* interrupts and the timer together, across a chain load.                 *)
THEOREM VpuInvariance == Spec => []IInv
BY Begins, Keeps, PTL DEF Spec

(* The lock excludes, interrupts come back when a call is over, and no     *)
(* addition is lost, for every number of threads, of preemptions and of    *)
(* additions.                                                              *)
THEOREM VpuLockWorks == Spec => []LockWorks
<1>1. IInv => LockWorks
  BY DEF IInv, LockInv, Current, CoreTypeOK, LockWorks, Up
<1> QED
  BY <1>1, VpuInvariance, PTL

(* No interrupt comes before its handler and its callback, whatever the    *)
(* image before has left unmasked, pending or matched.                     *)
THEOREM VpuNeverPanics == Spec => []NoPanic
<1>1. IInv => NoPanic
  BY DEF IInv, Serving
<1> QED
  BY <1>1, VpuInvariance, PTL

(* The VPU's one-shot timers: their interrupts come, also those that were  *)
(* set before a chain load, unless the other processor has cleared them.   *)
THEOREM VpuTimerKept == Spec => []TimerKept
<1>1. IInv => TimerKept
  BY DEF IInv, TimerInv
<1> QED
  BY <1>1, VpuInvariance, PTL
=============================================================================
