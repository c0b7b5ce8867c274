------------------------------ MODULE SysTimer -------------------------------
(***************************************************************************)
(* The system timer and its driver (dev/timer/vc4/timer.c), which is built *)
(* into the firmware of the VPU and, on a Raspberry Pi 1, into LK on the   *)
(* ARM that the firmware starts: one timer, one driver on each processor,  *)
(* each with a channel of its own, and one status register ST_CS.          *)
(*                                                                         *)
(* The timer counts up; a channel whose compare register is reached sets   *)
(* its bit of ST_CS, which stays until a one is written there, and is the  *)
(* processor's interrupt.  LK asks for one interrupt after another.        *)
(*                                                                         *)
(* The hardware is modelled from how the driver uses it.  Only the low     *)
(* word of the time is modelled: it is all that current_time returns.      *)
(***************************************************************************)
EXTENDS Naturals

CONSTANTS
  Procs,      (* the processors *)
  W,          (* the low word counts modulo it: 2^32 *)
  Milli,      (* ticks of a millisecond: 1000 *)
  Intervals,  (* bound: what LK asks for, in milliseconds *)
  Slack,      (* ticks that pass at most from reading the time to using it *)
  MaxAsked    (* bound: how often LK asks *)

(* Interrupts are off between the two, for much less than two milliseconds. *)
ASSUME TimerAssumption ==
  /\ W \in Nat \ {0} /\ Milli \in Nat \ {0} /\ Intervals \subseteq Nat
  /\ Slack \in Nat /\ Slack < 2 * Milli /\ MaxAsked \in Nat

VARIABLES
  clo,       (* ST_CLO *)
  compare,   (* ST_C0, ST_C1: the compare register of each processor's channel *)
  cs,        (* ST_CS: the processors whose channel has matched *)
  callback,  (* timer_cb: is there one? *)
  timerPc,   (* the driver on each processor: "idle", "set", "entry", "ack" or "call" *)
  compareTo, (* the compare value platform_set_oneshot_timer has computed *)
  seen,      (* timer0_irq's cs *)
  lag,       (* ticks since platform_set_oneshot_timer read the time *)
  asked,     (* how often LK has asked so far, for the bound *)
  armed,     (* history: LK waits for its callback *)
  left,      (* history: ticks until that is due *)
  stolen     (* history: has the other processor cleared the match? *)

timerVars == <<clo, compare, cs, callback, timerPc, compareTo, seen, lag, asked, armed, left, stolen>>

TimerIdle(p) == timerPc[p] = "idle"

-----------------------------------------------------------------------------
(* platform_set_oneshot_timer. *)

(* Mutant: a short interval is taken as it is.                             *)
IntervalAsGiven(ms) == ms

(* An interval is at least two milliseconds, so that the compare value is  *)
(* still to come when it is written.                                       *)
Interval(ms) == IF ms < 2 THEN 2 ELSE ms

(* The time is read ... *)
SetOneshot(p) ==
  /\ TimerIdle(p) /\ asked < MaxAsked
  /\ asked' = asked + 1
  /\ \E ms \in Intervals :
       /\ compareTo' = [compareTo EXCEPT ![p] = (clo + Interval(ms) * Milli) % W]
       /\ left' = [left EXCEPT ![p] = Interval(ms) * Milli]
  /\ lag' = [lag EXCEPT ![p] = 0]
  /\ callback' = [callback EXCEPT ![p] = TRUE]
  /\ armed' = [armed EXCEPT ![p] = FALSE]
  /\ timerPc' = [timerPc EXCEPT ![p] = "set"]
  /\ UNCHANGED <<clo, compare, cs, seen, stolen>>

(* ... and the compare register written. *)
WriteCompare(p) ==
  /\ timerPc[p] = "set"
  /\ compare' = [compare EXCEPT ![p] = compareTo[p]]
  /\ timerPc' = [timerPc EXCEPT ![p] = "idle"]
  /\ compareTo' = [compareTo EXCEPT ![p] = 0] /\ lag' = [lag EXCEPT ![p] = 0]
  /\ armed' = [armed EXCEPT ![p] = TRUE]
  /\ stolen' = [stolen EXCEPT ![p] = FALSE]
  /\ UNCHANGED <<clo, cs, callback, seen, asked, left>>

-----------------------------------------------------------------------------
(* timer0_irq, which the processor's interrupt dispatch calls.             *)

TimerEnter(p) ==
  /\ timerPc' = [timerPc EXCEPT ![p] = "entry"]
  /\ UNCHANGED <<clo, compare, cs, callback, compareTo, seen, lag, asked, armed, left, stolen>>

ReadStatus(p) ==
  /\ timerPc[p] = "entry"
  /\ seen' = [seen EXCEPT ![p] = cs]
  /\ timerPc' = [timerPc EXCEPT ![p] = "ack"]
  /\ UNCHANGED <<clo, compare, cs, callback, compareTo, lag, asked, armed, left, stolen>>

(* All that was read is written back, and cleared: the bits of both.       *)
AckStatus(p) ==
  /\ timerPc[p] = "ack"
  /\ cs' = cs \ seen[p]
  /\ stolen' = [q \in Procs |-> stolen[q] \/ (q # p /\ q \in cs \cap seen[p])]
  /\ timerPc' = [timerPc EXCEPT ![p] = "call"]
  /\ UNCHANGED <<clo, compare, callback, compareTo, seen, lag, asked, armed, left>>

(* The callback is called; the handler has asserted that there is one.     *)
CallBack(p) ==
  /\ timerPc[p] = "call"
  /\ timerPc' = [timerPc EXCEPT ![p] = "idle"]
  /\ seen' = [seen EXCEPT ![p] = {}]
  /\ armed' = [armed EXCEPT ![p] = FALSE]
  /\ UNCHANGED <<clo, compare, cs, callback, compareTo, lag, asked, left, stolen>>

(* An image begins: its variables are cleared; the timer goes on.          *)
TimerReset(p) ==
  /\ callback' = [callback EXCEPT ![p] = FALSE]
  /\ timerPc' = [timerPc EXCEPT ![p] = "idle"]
  /\ seen' = [seen EXCEPT ![p] = {}]
  /\ armed' = [armed EXCEPT ![p] = FALSE]
  /\ UNCHANGED <<clo, compare, cs, compareTo, lag, asked, left, stolen>>

-----------------------------------------------------------------------------
(* The hardware. *)

Tick ==
  /\ \A p \in Procs : timerPc[p] = "set" => lag[p] < Slack
  /\ clo' = (clo + 1) % W
  /\ cs' = cs \cup {p \in Procs : compare[p] = clo'}
  /\ lag' = [p \in Procs |-> IF timerPc[p] = "set" THEN lag[p] + 1 ELSE 0]
  /\ left' = [p \in Procs |-> IF left[p] = 0 THEN 0 ELSE left[p] - 1]
  /\ UNCHANGED <<compare, callback, timerPc, compareTo, seen, asked, armed, stolen>>

-----------------------------------------------------------------------------
(* A match may be left over from before.                                   *)
TimerInit ==
  /\ clo = 0 /\ compare = [p \in Procs |-> 0] /\ cs \in {{}, Procs}
  /\ callback = [p \in Procs |-> FALSE] /\ timerPc = [p \in Procs |-> "idle"]
  /\ compareTo = [p \in Procs |-> 0] /\ seen = [p \in Procs |-> {}]
  /\ lag = [p \in Procs |-> 0] /\ asked = 0
  /\ armed = [p \in Procs |-> FALSE] /\ left = [p \in Procs |-> 0]
  /\ stolen = [p \in Procs |-> FALSE]

TimerTypeOK ==
  /\ clo \in 0..(W - 1) /\ compare \in [Procs -> 0..(W - 1)] /\ cs \subseteq Procs
  /\ callback \in [Procs -> BOOLEAN]
  /\ timerPc \in [Procs -> {"idle", "set", "entry", "ack", "call"}]
  /\ compareTo \in [Procs -> 0..(W - 1)] /\ seen \in [Procs -> SUBSET Procs]
  /\ lag \in [Procs -> 0..Slack] /\ asked \in 0..MaxAsked
  /\ armed \in [Procs -> BOOLEAN] /\ left \in [Procs -> Nat] /\ stolen \in [Procs -> BOOLEAN]

(* Is the interrupt that p waits for due, and nothing under way to it?     *)
Missed(p) == armed[p] /\ left[p] = 0 /\ p \notin cs /\ timerPc[p] \in {"idle", "set"}

(* The interrupt for every one-shot timer comes, however short its time    *)
(* was, however the low word wraps, and whatever time passes between       *)
(* reading it and using it, if only the other processor does not clear it. *)
TimerKept == \A p \in Procs : Missed(p) => stolen[p]

(* The comment in timer0_irq: it acknowledges the event, the one that it   *)
(* was called for, so that no other is lost.                               *)
TimerArrives == \A p \in Procs : ~Missed(p)
=============================================================================
