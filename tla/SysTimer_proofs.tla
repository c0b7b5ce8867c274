--------------------------- MODULE SysTimer_proofs ---------------------------
(***************************************************************************)
(* Lemmas about SysTimer, for the modules that compose the timer with the  *)
(* processors: what every step of the driver and of the timer keeps.       *)
(*                                                                         *)
(* TimerKept is not inductive: that the compare register will match in     *)
(* time must be known before it does.  CompareAhead says so: the register, *)
(* and the value that is about to be written to it, is as many ticks ahead *)
(* of the time as LK still has to wait, modulo W.                          *)
(***************************************************************************)
EXTENDS SysTimer, Integers, TLAPS

(* What p's register will be, or is, is left[p] ticks ahead. *)
CompareAhead(p) ==
  /\ timerPc[p] = "set" => /\ ~armed[p]
                           /\ left[p] + lag[p] >= 2 * Milli
                           /\ compareTo[p] = (clo + left[p]) % W
  /\ armed[p] /\ left[p] > 0 => compare[p] = (clo + left[p]) % W

TimerInv ==
  /\ TimerTypeOK
  /\ \A p \in Procs : CompareAhead(p)
  /\ TimerKept

(* The steps of the driver on p. *)
DriverStep(p) ==
  SetOneshot(p) \/ WriteCompare(p) \/ TimerEnter(p) \/ ReadStatus(p) \/ AckStatus(p) \/ CallBack(p)

-----------------------------------------------------------------------------
(* Once round the modulus is where one was. *)
LEMMA ModRound ==
  ASSUME NEW m \in Nat \ {0}, NEW d \in Nat
  PROVE  (d + m) % m = d % m
<1>1. d = m * (d \div m) + (d % m)
  OBVIOUS
<1>2. d + m = m * ((d + m) \div m) + ((d + m) % m)
  OBVIOUS
<1>3. d % m \in 0..(m - 1) /\ (d + m) % m \in 0..(m - 1)
  OBVIOUS
<1>4. d \div m \in Int /\ (d + m) \div m \in Int
  OBVIOUS
<1> DEFINE k == (d \div m) + 1 - ((d + m) \div m)
<1>5. k \in Int /\ m * k = m * (d \div m) + m - m * ((d + m) \div m)
  BY <1>4
<1>6. ((d + m) % m) - (d % m) = m * k
  BY <1>1, <1>2, <1>3, <1>4, <1>5
<1> HIDE DEF k
<1>7. k = 0
  <2>1. CASE k >= 1
    <3>1. m * k >= m
      BY <2>1, <1>5
    <3> QED
      BY <3>1, <1>3, <1>6
  <2>2. CASE k <= -1
    <3>1. m * k <= -m
      BY <2>2, <1>5
    <3> QED
      BY <3>1, <1>3, <1>6
  <2> QED
    BY <2>1, <2>2, <1>5
<1> QED
  BY <1>3, <1>6, <1>7

(* A tick brings what is d + 1 ahead of c to d ahead. *)
LEMMA OneTick ==
  ASSUME NEW m \in Nat \ {0}, NEW c \in 0..(m - 1), NEW d \in Nat
  PROVE  (((c + 1) % m) + d) % m = (c + (d + 1)) % m
<1>1. CASE c + 1 < m
  <2>1. (c + 1) % m = c + 1
    BY <1>1
  <2> QED
    BY <2>1
<1>2. CASE c + 1 = m
  <2>1. (c + 1) % m = 0
    BY <1>2
  <2>2. c + (d + 1) = d + m
    BY <1>2
  <2>3. (d + m) % m = d % m
    BY ModRound
  <2> QED
    BY <2>1, <2>2, <2>3
<1> QED
  BY <1>1, <1>2

(* An interval is two milliseconds at least. *)
LEMMA IntervalBound ==
  ASSUME NEW ms \in Intervals
  PROVE  Interval(ms) * Milli \in Nat /\ Interval(ms) * Milli >= 2 * Milli
<1>1. Interval(ms) \in Nat /\ Interval(ms) >= 2
  BY TimerAssumption DEF TimerAssumption, Interval
<1>2. PICK k \in Nat : Interval(ms) = k + 2
  <2>1. Interval(ms) - 2 \in Nat /\ Interval(ms) = (Interval(ms) - 2) + 2
    BY <1>1
  <2> QED
    BY <2>1
<1>3. k * Milli \in Nat
  BY TimerAssumption DEF TimerAssumption
<1>4. (k + 2) * Milli = k * Milli + 2 * Milli
  BY TimerAssumption DEF TimerAssumption
<1> QED
  BY <1>2, <1>3, <1>4, TimerAssumption DEF TimerAssumption

-----------------------------------------------------------------------------
(* The timer begins with nobody waiting. *)
LEMMA TimerBegins == TimerInit => TimerInv
<1> SUFFICES ASSUME TimerInit PROVE TimerInv
  OBVIOUS
<1>1. TimerTypeOK
  BY TimerAssumption DEF TimerAssumption, TimerInit, TimerTypeOK
<1>2. ASSUME NEW p \in Procs PROVE CompareAhead(p) /\ ~Missed(p)
  BY DEF TimerInit, CompareAhead, Missed
<1> QED
  BY <1>1, <1>2 DEF TimerInv, TimerKept

(* LK asks for an interrupt. *)
LEMMA SetOneshotKeeps ==
  ASSUME NEW p \in Procs, TimerInv, SetOneshot(p)
  PROVE  TimerInv'
<1>1. PICK ms \in Intervals :
        /\ compareTo' = [compareTo EXCEPT ![p] = (clo + Interval(ms) * Milli) % W]
        /\ left' = [left EXCEPT ![p] = Interval(ms) * Milli]
  BY DEF SetOneshot
<1> DEFINE n == Interval(ms) * Milli
<1>2. n \in Nat /\ n >= 2 * Milli
  BY IntervalBound
<1> HIDE DEF n
<1>3. /\ compareTo' = [compareTo EXCEPT ![p] = (clo + n) % W]
      /\ left' = [left EXCEPT ![p] = n]
  BY <1>1 DEF n
<1>4. TimerTypeOK'
  <2>1. (clo + n) % W \in 0..(W - 1)
    BY <1>2, TimerAssumption DEF TimerAssumption, TimerInv, TimerTypeOK
  <2>2. compareTo' \in [Procs -> 0..(W - 1)] /\ left' \in [Procs -> Nat]
    BY <1>2, <1>3, <2>1 DEF TimerInv, TimerTypeOK
  <2>3. asked' \in 0..MaxAsked /\ lag' \in [Procs -> 0..Slack]
    BY TimerAssumption DEF TimerAssumption, TimerInv, TimerTypeOK, SetOneshot
  <2> QED
    BY <2>2, <2>3 DEF TimerInv, TimerTypeOK, SetOneshot
<1>5. ASSUME NEW q \in Procs PROVE CompareAhead(q)' /\ (Missed(q)' => stolen'[q])
  <2>1. CASE q = p
    <3>1. /\ timerPc'[q] = "set" /\ ~armed'[q] /\ lag'[q] = 0 /\ left'[q] = n /\ clo' = clo
          /\ compareTo'[q] = (clo + n) % W
      BY <2>1, <1>3 DEF TimerInv, TimerTypeOK, SetOneshot
    <3> QED
      BY <3>1, <1>2 DEF CompareAhead, Missed
  <2>2. CASE q # p
    <3>1. /\ timerPc'[q] = timerPc[q] /\ armed'[q] = armed[q] /\ lag'[q] = lag[q]
          /\ left'[q] = left[q] /\ clo' = clo /\ compareTo'[q] = compareTo[q]
          /\ compare' = compare /\ cs' = cs /\ stolen' = stolen
      BY <2>2, <1>3 DEF TimerInv, TimerTypeOK, SetOneshot
    <3> QED
      BY <3>1 DEF CompareAhead, Missed, TimerInv, TimerKept
  <2> QED
    BY <2>1, <2>2
<1> QED
  BY <1>4, <1>5 DEF TimerInv, TimerKept

(* The compare register is written before the time is there. *)
LEMMA WriteCompareKeeps ==
  ASSUME NEW p \in Procs, TimerInv, WriteCompare(p)
  PROVE  TimerInv'
<1>1. TimerTypeOK'
  <2>1. 0 \in 0..(W - 1) /\ 0 \in 0..Slack
    BY TimerAssumption DEF TimerAssumption
  <2> QED
    BY <2>1 DEF TimerInv, TimerTypeOK, WriteCompare
<1>2. ASSUME NEW q \in Procs PROVE CompareAhead(q)' /\ (Missed(q)' => stolen'[q])
  <2>1. CASE q = p
    <3>1. /\ timerPc'[q] = "idle" /\ left'[q] = left[q] /\ clo' = clo
          /\ compare'[q] = compareTo[q] /\ compareTo[q] = (clo + left[q]) % W
          /\ left[q] + lag[q] >= 2 * Milli
      BY <2>1 DEF TimerInv, TimerTypeOK, WriteCompare, CompareAhead
    <3>2. left[q] > 0
      BY <3>1, TimerAssumption DEF TimerAssumption, TimerInv, TimerTypeOK
    <3> QED
      BY <3>1, <3>2 DEF CompareAhead, Missed, TimerInv, TimerTypeOK
  <2>2. CASE q # p
    <3>1. /\ timerPc'[q] = timerPc[q] /\ armed'[q] = armed[q] /\ lag'[q] = lag[q]
          /\ left'[q] = left[q] /\ clo' = clo /\ compareTo'[q] = compareTo[q]
          /\ compare'[q] = compare[q] /\ cs' = cs /\ stolen'[q] = stolen[q]
      BY <2>2 DEF TimerInv, TimerTypeOK, WriteCompare
    <3> QED
      BY <3>1 DEF CompareAhead, Missed, TimerInv, TimerKept
  <2> QED
    BY <2>1, <2>2
<1> QED
  BY <1>1, <1>2 DEF TimerInv, TimerKept

(* A match that goes away is the processor's own, which is in its handler, *)
(* or it is stolen.                                                        *)
LEMMA AckStatusKeeps ==
  ASSUME NEW p \in Procs, TimerInv, AckStatus(p)
  PROVE  TimerInv'
<1>1. TimerTypeOK'
  BY DEF TimerInv, TimerTypeOK, AckStatus
<1>2. ASSUME NEW q \in Procs PROVE CompareAhead(q)' /\ (Missed(q)' => stolen'[q])
  <2>0. /\ armed' = armed /\ left' = left /\ clo' = clo /\ compare' = compare /\ lag' = lag
        /\ compareTo' = compareTo /\ cs' = cs \ seen[p]
        /\ stolen'[q] = (stolen[q] \/ (q # p /\ q \in cs \cap seen[p]))
    BY DEF AckStatus
  <2>1. CASE q = p
    <3>1. timerPc'[q] = "call"
      BY <2>1 DEF TimerInv, TimerTypeOK, AckStatus
    <3> QED
      BY <2>0, <3>1 DEF CompareAhead, Missed, TimerInv
  <2>2. CASE q # p
    <3>1. timerPc'[q] = timerPc[q]
      BY <2>2 DEF TimerInv, TimerTypeOK, AckStatus
    <3>2. CompareAhead(q)'
      BY <2>0, <3>1 DEF CompareAhead, TimerInv
    <3>3. Missed(q)' => stolen'[q]
      BY <2>0, <2>2, <3>1 DEF Missed, TimerInv, TimerKept
    <3> QED
      BY <3>2, <3>3
  <2> QED
    BY <2>1, <2>2
<1> QED
  BY <1>1, <1>2 DEF TimerInv, TimerKept

(* The rest of the handler waits for nothing. *)
LEMMA HandlerKeeps ==
  ASSUME NEW p \in Procs, TimerInv, TimerEnter(p) \/ ReadStatus(p) \/ CallBack(p)
  PROVE  TimerInv'
<1>1. /\ clo' = clo /\ compare' = compare /\ cs' = cs /\ compareTo' = compareTo /\ lag' = lag
      /\ left' = left /\ stolen' = stolen
      /\ \/ timerPc' = [timerPc EXCEPT ![p] = "entry"] /\ armed' = armed
         \/ timerPc' = [timerPc EXCEPT ![p] = "ack"] /\ armed' = armed
         \/ timerPc' = [timerPc EXCEPT ![p] = "idle"] /\ armed' = [armed EXCEPT ![p] = FALSE]
  BY DEF TimerEnter, ReadStatus, CallBack
<1>2. TimerTypeOK'
  BY DEF TimerInv, TimerTypeOK, TimerEnter, ReadStatus, CallBack
<1>3. ASSUME NEW q \in Procs PROVE CompareAhead(q)' /\ (Missed(q)' => stolen'[q])
  <2>1. CASE q = p
    BY <1>1, <2>1 DEF CompareAhead, Missed, TimerInv, TimerTypeOK
  <2>2. CASE q # p
    <3>1. timerPc'[q] = timerPc[q] /\ armed'[q] = armed[q]
      BY <1>1, <2>2 DEF TimerInv, TimerTypeOK
    <3> QED
      BY <1>1, <3>1 DEF CompareAhead, Missed, TimerInv, TimerKept
  <2> QED
    BY <2>1, <2>2
<1> QED
  BY <1>2, <1>3 DEF TimerInv, TimerKept

(* A new image waits for nothing, and sets nothing.                        *)
LEMMA ResetKeeps ==
  ASSUME NEW p \in Procs, TimerInv, TimerReset(p)
  PROVE  TimerInv'
<1>1. /\ clo' = clo /\ compare' = compare /\ cs' = cs /\ compareTo' = compareTo /\ lag' = lag
      /\ left' = left /\ stolen' = stolen
      /\ timerPc' = [timerPc EXCEPT ![p] = "idle"] /\ armed' = [armed EXCEPT ![p] = FALSE]
  BY DEF TimerReset
<1>2. TimerTypeOK'
  BY DEF TimerInv, TimerTypeOK, TimerReset
<1>3. ASSUME NEW q \in Procs PROVE CompareAhead(q)' /\ (Missed(q)' => stolen'[q])
  BY <1>1 DEF CompareAhead, Missed, TimerInv, TimerTypeOK, TimerKept
<1> QED
  BY <1>2, <1>3 DEF TimerInv, TimerKept

(* As the last tick passes, the register matches. *)
LEMMA TickKeeps ==
  ASSUME TimerInv, Tick
  PROVE  TimerInv'
<1> USE TimerAssumption DEF TimerAssumption
<1>1. clo' \in 0..(W - 1) /\ clo' = (clo + 1) % W
  BY DEF TimerInv, TimerTypeOK, Tick
<1>2. TimerTypeOK'
  <2>1. lag' \in [Procs -> 0..Slack]
    BY DEF TimerInv, TimerTypeOK, Tick
  <2>2. left' \in [Procs -> Nat]
    BY DEF TimerInv, TimerTypeOK, Tick
  <2> QED
    BY <1>1, <2>1, <2>2 DEF TimerInv, TimerTypeOK, Tick
<1>3. ASSUME NEW q \in Procs PROVE CompareAhead(q)' /\ (Missed(q)' => stolen'[q])
  <2>1. /\ timerPc' = timerPc /\ armed' = armed /\ compare' = compare /\ compareTo' = compareTo
        /\ stolen' = stolen
        /\ left'[q] = (IF left[q] = 0 THEN 0 ELSE left[q] - 1)
        /\ lag'[q] = (IF timerPc[q] = "set" THEN lag[q] + 1 ELSE 0)
        /\ timerPc[q] = "set" => lag[q] < Slack
        /\ q \in cs' <=> q \in cs \/ compare[q] = clo'
    BY DEF Tick
  <2>2. left[q] \in Nat /\ lag[q] \in Nat /\ clo \in 0..(W - 1)
    BY DEF TimerInv, TimerTypeOK
  <2>3. CASE left[q] > 0
    <3>1. left'[q] \in Nat /\ left[q] = left'[q] + 1
      BY <2>1, <2>2, <2>3
    <3>2. (clo' + left'[q]) % W = (clo + left[q]) % W
      BY <1>1, <2>2, <3>1, OneTick
    <3>3. CompareAhead(q)'
      <4>1. CompareAhead(q)
        BY DEF TimerInv
      <4>2. ASSUME timerPc[q] = "set"
            PROVE  ~armed[q] /\ left'[q] + lag'[q] >= 2 * Milli /\ compareTo[q] = (clo' + left'[q]) % W
        <5>1. lag'[q] = lag[q] + 1
          BY <2>1, <4>2
        <5>2. left'[q] + lag'[q] = left[q] + lag[q]
          BY <2>2, <3>1, <5>1
        <5> QED
          BY <3>2, <4>1, <4>2, <5>2 DEF CompareAhead
      <4>3. armed[q] => compare[q] = (clo' + left'[q]) % W
        BY <2>3, <3>2, <4>1 DEF CompareAhead
      <4> QED
        BY <2>1, <4>2, <4>3 DEF CompareAhead
    <3>4. Missed(q)' => stolen'[q]
      <4>1. SUFFICES ASSUME armed[q], left'[q] = 0, q \notin cs' PROVE FALSE
        BY <2>1 DEF Missed
      <4>2. compare[q] = (clo' + left'[q]) % W
        BY <2>3, <3>2, <4>1 DEF CompareAhead, TimerInv
      <4>3. (clo' + left'[q]) % W = clo'
        BY <1>1, <4>1
      <4> QED
        BY <2>1, <4>1, <4>2, <4>3
    <3> QED
      BY <3>3, <3>4
  <2>4. CASE left[q] = 0
    <3>1. timerPc[q] # "set"
      BY <2>1, <2>2, <2>4 DEF CompareAhead, TimerInv
    <3> QED
      BY <2>1, <2>4, <3>1 DEF CompareAhead, Missed, TimerInv, TimerKept
  <2> QED
    BY <2>2, <2>3, <2>4
<1> QED
  BY <1>2, <1>3 DEF TimerInv, TimerKept

(* Every step of the driver and of the timer keeps what is true of it.     *)
LEMMA TimerKeeps ==
  ASSUME TimerInv, Tick \/ \E p \in Procs : DriverStep(p)
  PROVE  TimerInv'
BY SetOneshotKeeps, WriteCompareKeeps, AckStatusKeeps, HandlerKeeps, TickKeeps DEF DriverStep
=============================================================================
