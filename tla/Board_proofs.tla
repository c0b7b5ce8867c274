---------------------------- MODULE Board_proofs -----------------------------
(***************************************************************************)
(* Proofs about Board, for every memory of fuses, every size, frequency    *)
(* and pin there may be, every number of calls and every image: each part  *)
(* of the boot thread's work has its theorem.  A step of Board is one of   *)
(* that part or leaves its state alone (the lemmas ...OrNot), and so each  *)
(* argument is about one part, with an invariant of its own:               *)
(*                                                                         *)
(* OtpInv, the fuses: the controller runs what the driver gave, on the     *)
(* registers it set (Commanded), so that the answer the driver reads is    *)
(* one about the fuse it works on (Answered); with it the bits still to be *)
(* burned are all that are missing (Progress).  A command that was given   *)
(* up runs on, so it must be known what it may do until it ends (Asked),   *)
(* and that nothing is left that enables programming again (Closed).       *)
(*                                                                         *)
(* ClkInv, the VPU's clock: the VPU is on the crystal while PLLC is taken  *)
(* down and up (OnCrystal), and PLLC is up when the VPU goes back to it.   *)
(*                                                                         *)
(* SetInv, set_pll_freq: what it decided on when it was called still fits  *)
(* the PLL at each of its steps, for nobody else sets the PLL meanwhile    *)
(* (SetPlan), and what it has written so far (SetWritten).                 *)
(*                                                                         *)
(* ArmInv, the ARM's start: one domain at a time is gone through step by   *)
(* step (OneAtATime, StepByStep), and arm_init has at each of its places   *)
(* what it needs for the next (ArmHas).                                    *)
(*                                                                         *)
(* SdInv, the memory: at each place of sdram_init, what the clock manager, *)
(* the controller, the mode registers and the PHY have come to.            *)
(*                                                                         *)
(* I2cInv, a transfer: each byte is with the caller, in the FIFO or at the *)
(* device (Sending, Receiving), in order (InOrder), and the bits of the    *)
(* status that the driver waits for are this transfer's (DoneIsNew).       *)
(*                                                                         *)
(* FunctionInv and PullInv, the pins: what a CPU holds of a register is    *)
(* what the register has, unless somebody else has written it since        *)
(* (Holding); and a pad has its pull, or a batch still to come will give   *)
(* it that (Pulled), with the clock and the value that it takes (Clocking).*)
(***************************************************************************)
EXTENDS Board, Integers, SequenceTheorems, TLAPS

(* The word of the call that runs. *)
Word == Head(call.list)

(* The command of the driver's step. *)
CmdGiven == IF otpPc \in {"before", "after", "old"} THEN "read" ELSE otpPc

Writing == {"before", "enable", "enabled", "old", "burn", "verify", "disable", "told", "after"}
Burning == {"burn", "verify"}

InCall ==
  /\ otpPc # "idle" \/ call.op = "write" => call.list # <<>>
  /\ otpPc = "read" => call.op = "read"
  /\ otpPc \in Writing => call.op = "write"

Commanded ==
  /\ otpPc \in {"idle", "open", "enabled", "told"} => ~started
  /\ started /\ running # NoCmd =>
       running = [op |-> CmdGiven, addr |-> otpReg.addr, bit |-> otpReg.bitsel]

(* What is true when the command of the step has run. *)
Answered ==
  started /\ running = NoCmd =>
    /\ otpPc = "old" => otpReg.data \subseteq fuses[Word]
    /\ otpPc = "verify" /\ progOk => otpReg.bitsel \in fuses[Word]
    /\ otpPc = "disable" => ~progOn /\ unlocked = 0

(* The bit that is being burned, and those that are to be. *)
Progress ==
  /\ otpPc \in Burning \cup {"old"} => otpReg.addr = Word
  /\ otpPc \in Burning =>
       /\ todo \subseteq call.val
       /\ otpReg.bitsel = Min(todo) /\ otpReg.bitsel \in call.val
       /\ bitDone => otpReg.bitsel \in fuses[Word]
       /\ failed = 0 => call.val \ fuses[Word] \subseteq todo
  /\ otpPc = "disable" /\ failed = 0 => noOld \/ call.val \subseteq fuses[Word]

(* After a write that reported success. *)
Closed ==
  otpPc \in {"idle", "told", "after"} /\ call.op = "write" /\ otpResult = "ok" =>
    /\ ~progOn /\ unlocked = 0 /\ running.op \in {"none", "read"}
    /\ noOld \/ call.val \subseteq fuses[Word]

(* A pulse that runs, waited for or not. *)
Asked ==
  trusted /\ running.op = "burn" =>
    /\ otpPc \in Burning \cup {"disable"}
    /\ running.addr = Word /\ running.bit \in call.val
    /\ otpReg.addr = Word /\ otpReg.bitsel \in call.val

(* What the argument needs of the types. *)
CallTypes ==
  call \in [op : {"read", "write"}, list : Seq(OtpAddrs), val : SUBSET OtpBits,
            prints : BOOLEAN]

Regs == [addr : OtpAddrs, bitsel : 0..31, data : SUBSET (0..31)]

RegTypes == otpReg \in Regs

RunningTypes ==
  running \in [op : {"none", "read", "enable", "disable", "burn", "verify"}, addr : OtpAddrs,
  bit : 0..31]

FuseTypes == fuses \in [OtpAddrs -> SUBSET (0..31)]

ScalarTypes ==
  /\ otpPc \in {"idle", "open", "read"} \cup Writing
  /\ started \in BOOLEAN /\ bitDone \in BOOLEAN
  /\ progOn \in BOOLEAN /\ progOk \in BOOLEAN
  /\ noOld \in BOOLEAN /\ trusted \in BOOLEAN

NumTypes ==
  /\ todo \subseteq OtpBits /\ failed \in Nat /\ count \in Nat /\ unlocked \in 0..4

Types == CallTypes /\ RegTypes /\ RunningTypes /\ FuseTypes /\ ScalarTypes /\ NumTypes

OtpInv == Types /\ InCall /\ Commanded /\ Answered /\ Progress /\ Closed /\ Asked

-----------------------------------------------------------------------------
(* The least element of a set of bits, of which there is one: for as many  *)
(* numbers in a row as 1, 2, 4, 8, 16 and 32.                              *)
HasMin(S) == S # {} => \E x \in S : \A y \in S : x <= y
MinsBelow(n) == \A a \in Nat : \A S \in SUBSET (a..(a + n - 1)) : HasMin(S)

LEMMA TwiceAsFar ==
  ASSUME NEW n \in Nat, MinsBelow(n)
  PROVE  MinsBelow(2 * n)
<1> SUFFICES ASSUME NEW a \in Nat, NEW S \in SUBSET (a..(a + 2 * n - 1)), S # {}
             PROVE  \E x \in S : \A y \in S : x <= y
  BY DEF MinsBelow, HasMin
<1> DEFINE L == {x \in S : x < a + n}
<1>0. \A x \in S : x \in Int /\ a <= x /\ x < a + n + n
  OBVIOUS
<1>1. HasMin(L)
  <2>1. \A x \in L : x \in a..(a + n - 1)
    BY <1>0
  <2> QED BY <2>1 DEF MinsBelow
<1>2. HasMin(S \ L)
  <2>1. \A x \in S \ L : x \in (a + n)..((a + n) + n - 1)
    BY <1>0
  <2> QED BY <2>1, a + n \in Nat DEF MinsBelow
<1>3. CASE L # {}
  <2>1. PICK x \in L : \A y \in L : x <= y
    BY <1>1, <1>3 DEF HasMin
  <2>2. \A y \in S : x <= y
    BY <2>1, <1>0
  <2> QED BY <2>1, <2>2
<1>4. CASE L = {}
  <2>1. S \ L = S
    BY <1>4
  <2> HIDE DEF L
  <2> QED BY <1>2, <2>1 DEF HasMin
<1> QED BY <1>3, <1>4

LEMMA MinIsIn ==
  ASSUME NEW S \in SUBSET (0..31), S # {}
  PROVE  Min(S) \in S
<1>1. MinsBelow(1)
  <2> SUFFICES ASSUME NEW a \in Nat, NEW T \in SUBSET (a..(a + 1 - 1)), NEW x \in T
               PROVE  \A y \in T : x <= y
    BY DEF MinsBelow, HasMin
  <2>1. \A y \in T : y = a
    OBVIOUS
  <2> QED BY <2>1
<1>2. MinsBelow(2) /\ MinsBelow(4)
  <2>1. MinsBelow(2 * 1)
    BY <1>1, TwiceAsFar
  <2>2. MinsBelow(2 * 2)
    BY <2>1, TwiceAsFar
  <2> QED BY <2>1, <2>2
<1>3. MinsBelow(8) /\ MinsBelow(16)
  <2>1. MinsBelow(2 * 4)
    BY <1>2, TwiceAsFar
  <2>2. MinsBelow(2 * 8)
    BY <2>1, TwiceAsFar
  <2> QED BY <2>1, <2>2
<1>4. MinsBelow(2 * 16)
  BY <1>3, TwiceAsFar
<1>5. \E x \in S : \A y \in S : x <= y
  BY <1>4 DEF MinsBelow, HasMin
<1> QED
  BY <1>5 DEF Min

-----------------------------------------------------------------------------
LEMMA MoreThanHead ==
  ASSUME NEW S, NEW s \in Seq(S), s # <<>>, Len(s) # 1
  PROVE  Tail(s) # <<>>
<1>1. Len(s) \in Nat /\ Len(s) # 0
  BY EmptySeq
<1>2. Tail(s) \in Seq(S) /\ Len(Tail(s)) = Len(s) - 1
  BY HeadTailProperties
<1>3. Tail(s) = <<>> <=> Len(Tail(s)) = 0
  BY <1>2, EmptySeq
<1> QED
  BY <1>1, <1>2, <1>3

LEMMA WordIsOne ==
  OtpInv /\ (otpPc # "idle" \/ call.op = "write") => Word \in OtpAddrs
BY DEF OtpInv, Types, CallTypes, InCall, Word

LEMMA BeginKeeps ==
  ASSUME OtpInv,
         NEW c \in [op : {"read", "write"}, list : Seq(OtpAddrs) \ {<<>>},
                    val : SUBSET OtpBits, prints : BOOLEAN],
         Begin(c)
  PROVE  OtpInv'
<1> USE DEF Begin, otpHard, otpGhost
<1>1. CallTypes' /\ FuseTypes'
  BY DEF OtpInv, Types, CallTypes, FuseTypes
<1>2. RegTypes'
  BY DEF OtpInv, Types, RegTypes
<1>3. RunningTypes'
  BY DEF OtpInv, Types, RunningTypes
<1>4. ScalarTypes'
  BY DEF OtpInv, Types, ScalarTypes
<1>5. NumTypes'
  BY DEF OtpInv, Types, NumTypes
<1>6. InCall'
  BY DEF OtpInv, InCall, Writing
<1>7. Commanded'
  BY DEF OtpInv, Commanded, CmdGiven
<1>8. Answered'
  BY DEF OtpInv, Answered, Word
<1>9. Progress'
  BY DEF OtpInv, Progress, Burning, Word
<1>10. Closed'
  BY DEF OtpInv, Closed, Word
<1>11. Asked'
  BY DEF OtpInv, Asked, Burning, Word
<1> QED
  BY <1>1, <1>2, <1>3, <1>4, <1>5, <1>6, <1>7, <1>8, <1>9, <1>10, <1>11 DEF OtpInv, Types

LEMMA OpenKeeps ==
  ASSUME OtpInv,
         Open
  PROVE  OtpInv'
<1> USE DEF Open, ReadReg, EnableReg, EnableSeq, otpGhost
<1>1. CallTypes' /\ FuseTypes'
  BY DEF OtpInv, Types, CallTypes, FuseTypes
<1>2. RegTypes'
  <2>1. EnableReg \in Regs
    BY OtpAssumption DEF Regs, OtpAssumption
  <2>2. ReadReg \in Regs
    BY WordIsOne DEF OtpInv, Types, RegTypes, Regs, Word
  <2> QED BY <2>1, <2>2 DEF RegTypes
<1>3. RunningTypes'
  BY DEF OtpInv, Types, RunningTypes
<1>4. ScalarTypes'
  BY DEF OtpInv, Types, ScalarTypes, Writing
<1>5. NumTypes'
  BY DEF OtpInv, Types, NumTypes
<1>6. InCall'
  BY DEF OtpInv, Types, CallTypes, InCall, Writing
<1>7. Commanded'
  BY DEF OtpInv, Commanded, CmdGiven
<1>8. Answered'
  BY DEF OtpInv, Answered, Word
<1>9. Progress'
  BY DEF OtpInv, Progress, Burning, Word
<1>10. Closed'
  BY DEF OtpInv, Closed, Word
<1>11. Asked'
  BY DEF OtpInv, Asked, Burning, Word
<1> QED
  BY <1>1, <1>2, <1>3, <1>4, <1>5, <1>6, <1>7, <1>8, <1>9, <1>10, <1>11 DEF OtpInv, Types

LEMMA GiveKeeps ==
  ASSUME OtpInv,
         Give
  PROVE  OtpInv'
<1> USE DEF Give, StartCommand, otpGhost
<1>1. CallTypes' /\ FuseTypes'
  BY DEF OtpInv, Types, CallTypes, FuseTypes
<1>2. RegTypes'
  BY DEF OtpInv, Types, RegTypes
<1>3. RunningTypes'
  BY DEF OtpInv, Types, RegTypes, Regs, RunningTypes
<1>4. ScalarTypes'
  BY DEF OtpInv, Types, ScalarTypes
<1>5. NumTypes'
  BY DEF OtpInv, Types, NumTypes
<1>6. InCall'
  BY DEF OtpInv, InCall
<1>7. Commanded'
  BY DEF OtpInv, Commanded, CmdGiven
<1>8. Answered'
  BY DEF OtpInv, Commanded, CmdGiven, Answered, Progress, Word, Burning, NoCmd
<1>9. Progress'
  BY DEF OtpInv, Progress, Burning, Word
<1>10. Closed'
  BY DEF OtpInv, Closed, Word
<1>11. Asked'
  BY DEF OtpInv, InCall, Progress, Asked, Word, Burning, NoCmd
<1> QED
  BY <1>1, <1>2, <1>3, <1>4, <1>5, <1>6, <1>7, <1>8, <1>9, <1>10, <1>11 DEF OtpInv, Types

LEMMA ReadKeeps ==
  ASSUME OtpInv,
         ReadDone
  PROVE  OtpInv'
<1> USE DEF ReadDone, otpHard, otpGhost, Ran, CommandOver, CommandDone, CommandLate
<1>1. CallTypes' /\ FuseTypes'
  <2>1. Tail(call.list) \in Seq(OtpAddrs)
    BY DEF OtpInv, Types, CallTypes, InCall
  <2> QED BY <2>1 DEF OtpInv, Types, CallTypes, FuseTypes
<1>2. RegTypes'
  BY DEF OtpInv, Types, RegTypes
<1>3. RunningTypes'
  BY DEF OtpInv, Types, RunningTypes
<1>4. ScalarTypes'
  BY DEF OtpInv, Types, ScalarTypes
<1>5. NumTypes'
  BY DEF OtpInv, Types, NumTypes
<1>6. InCall'
  <2>1. Len(call.list) # 1 => Tail(call.list) # <<>>
    BY MoreThanHead DEF OtpInv, Types, CallTypes, InCall
  <2>2. call'.list = Tail(call.list) /\ call'.op = "read"
    BY DEF OtpInv, Types, CallTypes, InCall
  <2> QED BY <2>1, <2>2 DEF InCall, Writing
<1>7. Commanded'
  BY DEF OtpInv, Commanded, CmdGiven
<1>8. Answered'
  BY DEF OtpInv, Answered, Word
<1>9. Progress'
  BY DEF OtpInv, Progress, Burning, Word
<1>10. Closed'
  BY DEF OtpInv, InCall, Answered, Progress, Closed, Word, NoCmd
<1>11. Asked'
  BY DEF OtpInv, Asked, Burning, Word
<1> QED
  BY <1>1, <1>2, <1>3, <1>4, <1>5, <1>6, <1>7, <1>8, <1>9, <1>10, <1>11 DEF OtpInv, Types

LEMMA EnableKeeps ==
  ASSUME OtpInv,
         EnableDone
  PROVE  OtpInv'
<1> USE DEF EnableDone, EnableSeq, otpGhost, Ran, CommandDone
<1>1. CallTypes' /\ FuseTypes'
  BY DEF OtpInv, Types, CallTypes, FuseTypes
<1>2. RegTypes'
  <2>1. CASE count < Len(EnableSeq)
    <3>1. EnableSeq[count + 1] \in 0..31
      BY <2>1 DEF OtpInv, Types, NumTypes
    <3> HIDE DEF EnableSeq
    <3>2. otpReg' = [otpReg EXCEPT !.bitsel = EnableSeq[count + 1]]
      BY <2>1
    <3> QED BY <3>1, <3>2 DEF OtpInv, Types, RegTypes, Regs
  <2>2. CASE ~(count < Len(EnableSeq))
    BY <2>2 DEF OtpInv, Types, RegTypes
  <2> QED BY <2>1, <2>2
<1>3. RunningTypes'
  BY DEF OtpInv, Types, RunningTypes
<1>4. ScalarTypes'
  BY DEF OtpInv, Types, ScalarTypes, Writing
<1>5. NumTypes'
  BY DEF OtpInv, Types, NumTypes
<1>6. InCall'
  BY DEF OtpInv, InCall, Writing
<1>7. Commanded'
  BY DEF OtpInv, Commanded, CmdGiven
<1>8. Answered'
  BY DEF OtpInv, Answered, Word
<1>9. Progress'
  BY DEF OtpInv, Progress, Burning, Word
<1>10. Closed'
  BY DEF OtpInv, Closed, Word
<1>11. Asked'
  BY DEF OtpInv, Asked, Burning, Word
<1> QED
  BY <1>1, <1>2, <1>3, <1>4, <1>5, <1>6, <1>7, <1>8, <1>9, <1>10, <1>11 DEF OtpInv, Types

LEMMA EnableFailsKeeps ==
  ASSUME OtpInv,
         EnableFails
  PROVE  OtpInv'
<1> USE DEF EnableFails, Return, otpHard, CommandLate
<1>1. CallTypes' /\ FuseTypes'
  BY DEF OtpInv, Types, CallTypes, FuseTypes
<1>2. RegTypes'
  BY DEF OtpInv, Types, RegTypes
<1>3. RunningTypes'
  BY DEF OtpInv, Types, RunningTypes
<1>4. ScalarTypes'
  BY DEF OtpInv, Types, ScalarTypes, Writing
<1>5. NumTypes'
  BY DEF OtpInv, Types, NumTypes
<1>6. InCall'
  BY DEF OtpInv, InCall, Writing
<1>7. Commanded'
  BY DEF OtpInv, Commanded, CmdGiven
<1>8. Answered'
  BY DEF OtpInv, Answered, Word
<1>9. Progress'
  BY DEF OtpInv, Progress, Burning, Word
<1>10. Closed'
  BY DEF OtpInv, Closed, Word
<1>11. Asked'
  BY DEF OtpInv, Asked, Burning, Word
<1> QED
  BY <1>1, <1>2, <1>3, <1>4, <1>5, <1>6, <1>7, <1>8, <1>9, <1>10, <1>11 DEF OtpInv, Types

LEMMA EnabledKeeps ==
  ASSUME OtpInv,
         Enabled
  PROVE  OtpInv'
<1> USE DEF Enabled, otpGhost
<1>1. CallTypes' /\ FuseTypes'
  BY DEF OtpInv, Types, CallTypes, FuseTypes
<1>2. RegTypes'
  <2>1. PICK a \in OtpAddrs : otpReg' = [otpReg EXCEPT !.addr = a]
    BY WordIsOne DEF Word
  <2> QED BY <2>1 DEF OtpInv, Types, RegTypes, Regs
<1>3. RunningTypes'
  BY DEF OtpInv, Types, RunningTypes
<1>4. ScalarTypes'
  BY DEF OtpInv, Types, ScalarTypes, Writing
<1>5. NumTypes'
  BY DEF OtpInv, Types, NumTypes
<1>6. InCall'
  BY DEF OtpInv, InCall, Writing
<1>7. Commanded'
  BY DEF OtpInv, Commanded, CmdGiven
<1>8. Answered'
  BY DEF OtpInv, Commanded, CmdGiven, Answered, Progress, Word, Burning, NoCmd
<1>9. Progress'
  BY DEF OtpInv, Progress, Burning, Word
<1>10. Closed'
  BY DEF OtpInv, Closed, Word
<1>11. Asked'
  BY DEF OtpInv, Asked, Burning, Word
<1> QED
  BY <1>1, <1>2, <1>3, <1>4, <1>5, <1>6, <1>7, <1>8, <1>9, <1>10, <1>11 DEF OtpInv, Types

LEMMA NotEnabledKeeps ==
  ASSUME OtpInv,
         NotEnabled
  PROVE  OtpInv'
<1> USE DEF NotEnabled, Return, otpHard
<1>1. CallTypes' /\ FuseTypes'
  BY DEF OtpInv, Types, CallTypes, FuseTypes
<1>2. RegTypes'
  BY DEF OtpInv, Types, RegTypes
<1>3. RunningTypes'
  BY DEF OtpInv, Types, RunningTypes
<1>4. ScalarTypes'
  BY DEF OtpInv, Types, ScalarTypes, Writing
<1>5. NumTypes'
  BY DEF OtpInv, Types, NumTypes
<1>6. InCall'
  BY DEF OtpInv, InCall, Writing
<1>7. Commanded'
  BY DEF OtpInv, Commanded, CmdGiven
<1>8. Answered'
  BY DEF OtpInv, Answered, Word
<1>9. Progress'
  BY DEF OtpInv, Progress, Burning, Word
<1>10. Closed'
  BY DEF OtpInv, Closed, Word
<1>11. Asked'
  BY DEF OtpInv, Asked, Burning, Word
<1> QED
  BY <1>1, <1>2, <1>3, <1>4, <1>5, <1>6, <1>7, <1>8, <1>9, <1>10, <1>11 DEF OtpInv, Types

LEMMA OldValueKeeps ==
  ASSUME OtpInv,
         OldValue
  PROVE  OtpInv'
<1> USE DEF OldValue, Value, AllOnes, NextBit, Missing, Ran, CommandOver, CommandDone,
       CommandLate
<1>1. CallTypes' /\ FuseTypes'
  BY DEF OtpInv, Types, CallTypes, FuseTypes
<1>2. RegTypes'
  <2>1. \A bits \in SUBSET OtpBits : bits # {} => Min(bits) \in 0..31
    BY MinIsIn, OtpAssumption DEF OtpAssumption
  <2>2. Missing(got') \in SUBSET OtpBits
    BY DEF OtpInv, Types, CallTypes
  <2>3. PICK b \in 0..31 : otpReg' = otpReg \/ otpReg' = [otpReg EXCEPT !.bitsel = b]
    BY <2>1, <2>2
  <2> QED BY <2>3 DEF OtpInv, Types, RegTypes, Regs
<1>3. RunningTypes'
  BY DEF OtpInv, Types, RunningTypes
<1>4. ScalarTypes'
  BY DEF OtpInv, Types, ScalarTypes, Writing
<1>5. NumTypes'
  BY DEF OtpInv, Types, NumTypes, CallTypes
<1>6. InCall'
  BY DEF OtpInv, InCall, Writing
<1>7. Commanded'
  BY DEF OtpInv, Commanded, CmdGiven
<1>8. Answered'
  BY DEF OtpInv, Answered, Word
<1>9. Progress'
  <2>1. otpReg.addr = Word /\ call' = call /\ fuses' = fuses
    BY DEF OtpInv, Progress
  <2>2. CASE got' = AllOnes
    BY <2>2 DEF Progress, Burning
  <2>3. CASE got' # AllOnes
    <3>1. got' \subseteq fuses[Word]
      BY <2>3 DEF OtpInv, Answered
    <3>2. CASE Missing(got') = {}
      BY <2>1, <2>3, <3>1, <3>2 DEF Progress, Burning, Word
    <3>3. CASE Missing(got') # {}
      <4>1. /\ otpPc' = "burn" /\ todo' = Missing(got') /\ bitDone' = FALSE
            /\ otpReg' = [otpReg EXCEPT !.bitsel = Min(Missing(got'))]
        BY <2>3, <3>3
      <4>2. Min(Missing(got')) \in Missing(got')
        BY <3>3, MinIsIn, OtpAssumption DEF OtpInv, Types, CallTypes, OtpAssumption
      <4>3. otpReg'.addr = otpReg.addr /\ otpReg'.bitsel = Min(Missing(got'))
        BY <4>1 DEF OtpInv, Types, RegTypes, Regs
      <4>4. todo' \subseteq call.val /\ call.val \ fuses[Word] \subseteq todo'
        BY <3>1, <4>1
      <4> HIDE DEF Missing
      <4> QED BY <2>1, <4>1, <4>2, <4>3, <4>4 DEF Progress, Burning, Word
    <3> QED BY <3>2, <3>3
  <2> QED BY <2>2, <2>3
<1>10. Closed'
  BY DEF OtpInv, Closed, Word
<1>11. Asked'
  BY DEF OtpInv, Asked, Burning, Word
<1> QED
  BY <1>1, <1>2, <1>3, <1>4, <1>5, <1>6, <1>7, <1>8, <1>9, <1>10, <1>11 DEF OtpInv, Types

LEMMA BurnKeeps ==
  ASSUME OtpInv,
         BurnOver
  PROVE  OtpInv'
<1> USE DEF BurnOver, otpHard, otpGhost, Ran, CommandOver, CommandDone, CommandLate
<1>1. CallTypes' /\ FuseTypes'
  BY DEF OtpInv, Types, CallTypes, FuseTypes
<1>2. RegTypes'
  BY DEF OtpInv, Types, RegTypes
<1>3. RunningTypes'
  BY DEF OtpInv, Types, RunningTypes
<1>4. ScalarTypes'
  BY DEF OtpInv, Types, ScalarTypes, Writing
<1>5. NumTypes'
  BY DEF OtpInv, Types, NumTypes
<1>6. InCall'
  BY DEF OtpInv, InCall, Writing
<1>7. Commanded'
  BY DEF OtpInv, Commanded, CmdGiven
<1>8. Answered'
  BY DEF OtpInv, Answered, Word
<1>9. Progress'
  BY DEF OtpInv, Progress, Burning, Word
<1>10. Closed'
  BY DEF OtpInv, Closed, Word
<1>11. Asked'
  BY DEF OtpInv, Asked, Burning, Word
<1> QED
  BY <1>1, <1>2, <1>3, <1>4, <1>5, <1>6, <1>7, <1>8, <1>9, <1>10, <1>11 DEF OtpInv, Types

LEMMA VerifyKeeps ==
  ASSUME OtpInv,
         VerifyOver
  PROVE  OtpInv'
<1> USE DEF VerifyOver, AfterAttempt, AttemptOk, NextBit, otpGhost, Ran, CommandOver,
       CommandDone, CommandLate
<1>1. CallTypes' /\ FuseTypes'
  BY DEF OtpInv, Types, CallTypes, FuseTypes
<1>2. RegTypes'
  <2>1. \A bits \in SUBSET OtpBits : bits # {} => Min(bits) \in 0..31
    BY MinIsIn, OtpAssumption DEF OtpAssumption
  <2>2. todo \ {Min(todo)} \in SUBSET OtpBits
    BY DEF OtpInv, Types, NumTypes
  <2>3. PICK b \in 0..31 : otpReg' = otpReg \/ otpReg' = [otpReg EXCEPT !.bitsel = b]
    BY <2>1, <2>2
  <2> QED BY <2>3 DEF OtpInv, Types, RegTypes, Regs
<1>3. RunningTypes'
  BY DEF OtpInv, Types, RunningTypes
<1>4. ScalarTypes'
  BY DEF OtpInv, Types, ScalarTypes, Writing
<1>5. NumTypes'
  BY DEF OtpInv, Types, NumTypes
<1>6. InCall'
  BY DEF OtpInv, InCall, Writing
<1>7. Commanded'
  BY DEF OtpInv, Commanded, CmdGiven
<1>8. Answered'
  BY DEF OtpInv, Answered, Word
<1>9. Progress'
  <2>1. /\ otpReg.addr = Word /\ otpReg.bitsel = Min(todo) /\ otpReg.bitsel \in call.val
        /\ todo \subseteq call.val /\ (failed = 0 => call.val \ fuses[Word] \subseteq todo)
        /\ bitDone => otpReg.bitsel \in fuses[Word]
        /\ AttemptOk => otpReg.bitsel \in fuses[Word]
    BY DEF OtpInv, Progress, Answered, Burning
  <2>2. call' = call /\ fuses' = fuses /\ noOld' = noOld
    OBVIOUS
  <2> DEFINE rest == todo \ {Min(todo)}
  <2>3. CASE /\ otpPc' = "burn" /\ UNCHANGED <<todo, failed, otpReg>>
             /\ bitDone' = bitDone \/ bitDone' = AttemptOk
    <3> HIDE DEF AttemptOk
    <3> QED BY <2>1, <2>2, <2>3 DEF Progress, Burning, Word
  <2>4. CASE NextBit(rest) /\ failed' = IF AttemptOk \/ bitDone THEN failed ELSE failed + 1
    <3>1. failed' = 0 => call.val \ fuses[Word] \subseteq rest
      <4> HIDE DEF AttemptOk
      <4> QED BY <2>1, <2>4 DEF OtpInv, Types, NumTypes
    <3>2. CASE rest = {}
      BY <2>2, <2>4, <3>1, <3>2 DEF Progress, Burning, Word
    <3>3. CASE rest # {}
      <4>1. otpPc' = "burn" /\ todo' = rest /\ bitDone' = FALSE
        BY <2>4, <3>3
      <4>2. otpReg' = [otpReg EXCEPT !.bitsel = Min(rest)]
        BY <2>4, <3>3
      <4>3. Min(rest) \in rest
        BY <3>3, MinIsIn, OtpAssumption DEF OtpInv, Types, NumTypes, OtpAssumption
      <4>4. otpReg'.addr = otpReg.addr /\ otpReg'.bitsel = Min(rest)
        BY <4>2 DEF OtpInv, Types, RegTypes, Regs
      <4>5. rest \subseteq call.val
        BY <2>1
      <4> HIDE DEF rest
      <4> QED BY <2>1, <2>2, <3>1, <4>1, <4>3, <4>4, <4>5 DEF Progress, Burning, Word
    <3> QED BY <3>2, <3>3
  <2> QED
    <3> HIDE DEF AttemptOk, NextBit
    <3> QED BY <2>3, <2>4
<1>10. Closed'
  BY DEF OtpInv, Closed, Word
<1>11. Asked'
  <2>1. /\ call' = call /\ running' = running /\ trusted' = trusted
        /\ otpPc' = "burn" \/ (otpPc' = "disable" /\ otpReg' = otpReg)
    OBVIOUS
  <2> QED BY <1>9, <2>1 DEF OtpInv, Progress, Asked, Burning, Word
<1> QED
  BY <1>1, <1>2, <1>3, <1>4, <1>5, <1>6, <1>7, <1>8, <1>9, <1>10, <1>11 DEF OtpInv, Types

LEMMA DisableKeeps ==
  ASSUME OtpInv,
         DisableOver
  PROVE  OtpInv'
<1> USE DEF DisableOver, Return, WriteResult, otpHard, Ran, CommandOver, CommandDone,
       CommandLate
<1>1. CallTypes' /\ FuseTypes'
  BY DEF OtpInv, Types, CallTypes, FuseTypes
<1>2. RegTypes'
  BY DEF OtpInv, Types, RegTypes
<1>3. RunningTypes'
  BY DEF OtpInv, Types, RunningTypes
<1>4. ScalarTypes'
  BY DEF OtpInv, Types, ScalarTypes, Writing
<1>5. NumTypes'
  BY DEF OtpInv, Types, NumTypes
<1>6. InCall'
  BY DEF OtpInv, InCall, Writing
<1>7. Commanded'
  BY DEF OtpInv, Commanded, CmdGiven
<1>8. Answered'
  BY DEF OtpInv, Answered, Word
<1>9. Progress'
  BY DEF OtpInv, Progress, Burning, Word
<1>10. Closed'
  BY WordIsOne DEF OtpInv, Types, CallTypes, RegTypes, Regs, RunningTypes, FuseTypes, ScalarTypes,
     NumTypes, InCall, Answered, Progress, Closed, Word, NoCmd
<1>11. Asked'
  <2>1. trusted' => Ran
    OBVIOUS
  <2>2. running' = running
    OBVIOUS
  <2> QED BY <2>1, <2>2 DEF Asked, NoCmd
<1> QED
  BY <1>1, <1>2, <1>3, <1>4, <1>5, <1>6, <1>7, <1>8, <1>9, <1>10, <1>11 DEF OtpInv, Types

LEMMA OldPrintedKeeps ==
  ASSUME OtpInv,
         OldPrinted
  PROVE  OtpInv'
<1> USE DEF OldPrinted, EnableSeq, otpGhost, Ran, CommandOver, CommandDone,
       CommandLate
<1>1. CallTypes' /\ FuseTypes'
  BY DEF OtpInv, Types, CallTypes, FuseTypes
<1>2. RegTypes'
  <2>1. PICK n \in 0..31 : otpReg' = [otpReg EXCEPT !.bitsel = n]
    OBVIOUS
  <2> QED BY <2>1 DEF OtpInv, Types, RegTypes, Regs
<1>3. RunningTypes'
  BY DEF OtpInv, Types, RunningTypes
<1>4. ScalarTypes'
  BY DEF OtpInv, Types, ScalarTypes, Writing
<1>5. NumTypes'
  BY DEF OtpInv, Types, NumTypes
<1>6. InCall'
  BY DEF OtpInv, InCall, Writing
<1>7. Commanded'
  BY DEF OtpInv, Commanded, CmdGiven
<1>8. Answered'
  BY DEF OtpInv, Answered, Word
<1>9. Progress'
  BY DEF OtpInv, Progress, Burning, Word
<1>10. Closed'
  BY DEF OtpInv, Closed, Word
<1>11. Asked'
  BY DEF OtpInv, Asked, Burning, Word
<1> QED
  BY <1>1, <1>2, <1>3, <1>4, <1>5, <1>6, <1>7, <1>8, <1>9, <1>10, <1>11 DEF OtpInv, Types

LEMMA ResultPrintedKeeps ==
  ASSUME OtpInv,
         ResultPrinted
  PROVE  OtpInv'
<1> USE DEF ResultPrinted, otpGhost
<1>1. CallTypes' /\ FuseTypes'
  BY DEF OtpInv, Types, CallTypes, FuseTypes
<1>2. RegTypes'
  <2>1. PICK a \in OtpAddrs : otpReg' = [otpReg EXCEPT !.addr = a]
    BY WordIsOne DEF Word
  <2> QED BY <2>1 DEF OtpInv, Types, RegTypes, Regs
<1>3. RunningTypes'
  BY DEF OtpInv, Types, RunningTypes
<1>4. ScalarTypes'
  BY DEF OtpInv, Types, ScalarTypes, Writing
<1>5. NumTypes'
  BY DEF OtpInv, Types, NumTypes
<1>6. InCall'
  BY DEF OtpInv, InCall, Writing
<1>7. Commanded'
  BY DEF OtpInv, Commanded, CmdGiven
<1>8. Answered'
  BY DEF OtpInv, Answered, Word
<1>9. Progress'
  BY DEF OtpInv, Progress, Burning, Word
<1>10. Closed'
  BY DEF OtpInv, Closed, Word
<1>11. Asked'
  BY DEF OtpInv, Asked, Burning, Word
<1> QED
  BY <1>1, <1>2, <1>3, <1>4, <1>5, <1>6, <1>7, <1>8, <1>9, <1>10, <1>11 DEF OtpInv, Types

LEMMA NewPrintedKeeps ==
  ASSUME OtpInv,
         NewPrinted
  PROVE  OtpInv'
<1> USE DEF NewPrinted, otpHard, otpGhost, Ran, CommandOver, CommandDone, CommandLate
<1>1. CallTypes' /\ FuseTypes'
  BY DEF OtpInv, Types, CallTypes, FuseTypes
<1>2. RegTypes'
  BY DEF OtpInv, Types, RegTypes
<1>3. RunningTypes'
  BY DEF OtpInv, Types, RunningTypes
<1>4. ScalarTypes'
  BY DEF OtpInv, Types, ScalarTypes
<1>5. NumTypes'
  BY DEF OtpInv, Types, NumTypes
<1>6. InCall'
  BY DEF OtpInv, InCall, Writing
<1>7. Commanded'
  BY DEF OtpInv, Commanded, CmdGiven
<1>8. Answered'
  BY DEF OtpInv, Answered, Word
<1>9. Progress'
  BY DEF OtpInv, Progress, Burning, Word
<1>10. Closed'
  BY DEF OtpInv, Closed, Word
<1>11. Asked'
  BY DEF OtpInv, Asked, Burning, Word
<1> QED
  BY <1>1, <1>2, <1>3, <1>4, <1>5, <1>6, <1>7, <1>8, <1>9, <1>10, <1>11 DEF OtpInv, Types

LEMMA HwReadKeeps ==
  ASSUME OtpInv,
         HwCommand, HwRead
  PROVE  OtpInv'
<1> USE DEF HwCommand, HwRead, otpDriver, otpGhost
<1>1. CallTypes' /\ FuseTypes'
  BY DEF OtpInv, Types, CallTypes, FuseTypes
<1>2. RegTypes'
  <2>1. \A a \in {running.addr, otpReg.addr} : fuses[a] \in SUBSET (0..31)
    BY DEF OtpInv, Types, RegTypes, Regs, RunningTypes, FuseTypes
  <2>2. PICK d \in SUBSET (0..31) : otpReg' = [otpReg EXCEPT !.data = d]
    BY <2>1
  <2> QED BY <2>2 DEF OtpInv, Types, RegTypes, Regs
<1>3. RunningTypes'
  BY OtpAssumption DEF OtpInv, Types, RegTypes, Regs, RunningTypes, NoCmd, OtpAssumption
<1>4. ScalarTypes'
  BY DEF OtpInv, Types, ScalarTypes
<1>5. NumTypes'
  BY DEF OtpInv, Types, NumTypes
<1>6. InCall'
  BY DEF OtpInv, InCall
<1>7. Commanded'
  BY DEF OtpInv, Commanded, CmdGiven
<1>8. Answered'
  BY DEF OtpInv, Commanded, CmdGiven, Answered, Progress, Word, Burning, NoCmd
<1>9. Progress'
  BY DEF OtpInv, Progress, Burning, Word
<1>10. Closed'
  BY DEF OtpInv, InCall, Answered, Progress, Closed, Word, NoCmd
<1>11. Asked'
  BY DEF OtpInv, InCall, Progress, Asked, Word, Burning, NoCmd
<1> QED
  BY <1>1, <1>2, <1>3, <1>4, <1>5, <1>6, <1>7, <1>8, <1>9, <1>10, <1>11 DEF OtpInv, Types

LEMMA HwEnableKeeps ==
  ASSUME OtpInv,
         HwCommand, HwEnable
  PROVE  OtpInv'
<1> USE DEF HwCommand, HwEnable, EnableSeq, otpDriver, otpGhost
<1>1. CallTypes' /\ FuseTypes'
  BY DEF OtpInv, Types, CallTypes, FuseTypes
<1>2. RegTypes'
  BY DEF OtpInv, Types, RegTypes
<1>3. RunningTypes'
  BY OtpAssumption DEF OtpInv, Types, RegTypes, Regs, RunningTypes, NoCmd, OtpAssumption
<1>4. ScalarTypes'
  BY DEF OtpInv, Types, ScalarTypes
<1>5. NumTypes'
  BY DEF OtpInv, Types, NumTypes
<1>6. InCall'
  BY DEF OtpInv, InCall
<1>7. Commanded'
  BY DEF OtpInv, Commanded, CmdGiven
<1>8. Answered'
  BY DEF OtpInv, Commanded, CmdGiven, Answered, Progress, Word, Burning, NoCmd
<1>9. Progress'
  BY DEF OtpInv, Progress, Burning, Word
<1>10. Closed'
  BY DEF OtpInv, Closed, Word
<1>11. Asked'
  BY DEF OtpInv, InCall, Progress, Asked, Word, Burning, NoCmd
<1> QED
  BY <1>1, <1>2, <1>3, <1>4, <1>5, <1>6, <1>7, <1>8, <1>9, <1>10, <1>11 DEF OtpInv, Types

LEMMA HwDisableKeeps ==
  ASSUME OtpInv,
         HwCommand, HwDisable
  PROVE  OtpInv'
<1> USE DEF HwCommand, HwDisable, otpDriver, otpGhost
<1>1. CallTypes' /\ FuseTypes'
  BY DEF OtpInv, Types, CallTypes, FuseTypes
<1>2. RegTypes'
  BY DEF OtpInv, Types, RegTypes
<1>3. RunningTypes'
  BY OtpAssumption DEF OtpInv, Types, RegTypes, Regs, RunningTypes, NoCmd, OtpAssumption
<1>4. ScalarTypes'
  BY DEF OtpInv, Types, ScalarTypes
<1>5. NumTypes'
  BY DEF OtpInv, Types, NumTypes
<1>6. InCall'
  BY DEF OtpInv, InCall
<1>7. Commanded'
  BY DEF OtpInv, Commanded, CmdGiven
<1>8. Answered'
  BY DEF OtpInv, Commanded, CmdGiven, Answered, Progress, Word, Burning, NoCmd
<1>9. Progress'
  BY DEF OtpInv, Progress, Burning, Word
<1>10. Closed'
  BY DEF OtpInv, Closed, Word
<1>11. Asked'
  BY DEF OtpInv, InCall, Progress, Asked, Word, Burning, NoCmd
<1> QED
  BY <1>1, <1>2, <1>3, <1>4, <1>5, <1>6, <1>7, <1>8, <1>9, <1>10, <1>11 DEF OtpInv, Types

LEMMA HwBurnKeeps ==
  ASSUME OtpInv,
         HwCommand, HwBurn
  PROVE  OtpInv'
<1> USE DEF HwCommand, HwBurn, otpDriver, otpGhost
<1>1. CallTypes' /\ FuseTypes'
  <2>1. CASE UNCHANGED fuses
    BY <2>1 DEF OtpInv, Types, CallTypes, FuseTypes
  <2>2. CASE ~ UNCHANGED fuses
    <3>1. PICK a \in OtpAddrs, b \in 0..31 : fuses' = [fuses EXCEPT ![a] = @ \cup {b}]
      BY <2>2 DEF OtpInv, Types, RegTypes, Regs, RunningTypes
    <3> QED BY <3>1 DEF OtpInv, Types, CallTypes, FuseTypes
  <2> QED BY <2>1, <2>2
<1>2. RegTypes'
  BY DEF OtpInv, Types, RegTypes
<1>3. RunningTypes'
  BY OtpAssumption DEF OtpInv, Types, RegTypes, Regs, RunningTypes, NoCmd, OtpAssumption
<1>4. ScalarTypes'
  BY DEF OtpInv, Types, ScalarTypes
<1>5. NumTypes'
  BY DEF OtpInv, Types, NumTypes
<1>6. InCall'
  BY DEF OtpInv, InCall
<1>7. Commanded'
  BY DEF OtpInv, Commanded, CmdGiven
<1>8. Answered'
  BY DEF OtpInv, Commanded, CmdGiven, Answered, Progress, Word, Burning, NoCmd
<1>9. Progress'
  BY WordIsOne DEF OtpInv, Types, CallTypes, RegTypes, Regs, RunningTypes, FuseTypes, ScalarTypes,
     NumTypes, InCall, Answered, Progress, Word, Burning, NoCmd
<1>10. Closed'
  BY DEF OtpInv, Closed, Word
<1>11. Asked'
  BY DEF OtpInv, InCall, Progress, Asked, Word, Burning, NoCmd
<1> QED
  BY <1>1, <1>2, <1>3, <1>4, <1>5, <1>6, <1>7, <1>8, <1>9, <1>10, <1>11 DEF OtpInv, Types

LEMMA HwVerifyKeeps ==
  ASSUME OtpInv,
         HwCommand, HwVerify
  PROVE  OtpInv'
<1> USE DEF HwCommand, HwVerify, otpDriver, otpGhost
<1>1. CallTypes' /\ FuseTypes'
  BY DEF OtpInv, Types, CallTypes, FuseTypes
<1>2. RegTypes'
  BY DEF OtpInv, Types, RegTypes
<1>3. RunningTypes'
  BY OtpAssumption DEF OtpInv, Types, RegTypes, Regs, RunningTypes, NoCmd, OtpAssumption
<1>4. ScalarTypes'
  BY DEF OtpInv, Types, ScalarTypes
<1>5. NumTypes'
  BY DEF OtpInv, Types, NumTypes
<1>6. InCall'
  BY DEF OtpInv, InCall
<1>7. Commanded'
  BY DEF OtpInv, Commanded, CmdGiven
<1>8. Answered'
  BY WordIsOne DEF OtpInv, Types, CallTypes, RegTypes, Regs, RunningTypes, FuseTypes, ScalarTypes,
     NumTypes, InCall, Commanded, CmdGiven, Answered, Progress, Word, Burning, Writing, NoCmd
<1>9. Progress'
  BY DEF OtpInv, Progress, Burning, Word
<1>10. Closed'
  BY DEF OtpInv, Closed, Word
<1>11. Asked'
  BY DEF OtpInv, InCall, Progress, Asked, Word, Burning, NoCmd
<1> QED
  BY <1>1, <1>2, <1>3, <1>4, <1>5, <1>6, <1>7, <1>8, <1>9, <1>10, <1>11 DEF OtpInv, Types

LEMMA HwUnlockKeeps ==
  ASSUME OtpInv,
         HwUnlock
  PROVE  OtpInv'
<1> USE DEF HwUnlock, EnableSeq, otpDriver, otpGhost
<1>1. CallTypes' /\ FuseTypes'
  BY DEF OtpInv, Types, CallTypes, FuseTypes
<1>2. RegTypes'
  BY DEF OtpInv, Types, RegTypes
<1>3. RunningTypes'
  BY DEF OtpInv, Types, RunningTypes
<1>4. ScalarTypes'
  BY DEF OtpInv, Types, ScalarTypes
<1>5. NumTypes'
  BY DEF OtpInv, Types, NumTypes
<1>6. InCall'
  BY DEF OtpInv, InCall
<1>7. Commanded'
  BY DEF OtpInv, Commanded, CmdGiven
<1>8. Answered'
  BY DEF OtpInv, Answered, Word
<1>9. Progress'
  BY DEF OtpInv, Progress, Burning, Word
<1>10. Closed'
  BY DEF OtpInv, Closed, Word
<1>11. Asked'
  BY DEF OtpInv, Asked, Burning, Word
<1> QED
  BY <1>1, <1>2, <1>3, <1>4, <1>5, <1>6, <1>7, <1>8, <1>9, <1>10, <1>11 DEF OtpInv, Types

-----------------------------------------------------------------------------
LEMMA OtpKeeps ==
  OtpInv /\ [OtpNext]_otpVars => OtpInv'
<1> SUFFICES ASSUME OtpInv, [OtpNext]_otpVars
             PROVE  OtpInv'
  OBVIOUS
<1>1. CASE ReadCall \/ WriteCall \/ OtpWriteCommand
  <2>1. PICK c \in [op : {"read", "write"}, list : Seq(OtpAddrs) \ {<<>>},
                   val : SUBSET OtpBits, prints : BOOLEAN] :
          Begin(c)
    <3>1. CASE ReadCall
      <4>1. PICK l \in OtpLists : Begin([op |-> "read", list |-> l, val |-> {}, prints |-> TRUE])
        BY <3>1 DEF ReadCall
      <4> QED BY <4>1, OtpAssumption DEF OtpAssumption
    <3>2. CASE WriteCall
      <4>1. PICK a \in OtpAddrs, v \in OtpWrites :
              Begin([op |-> "write", list |-> <<a>>, val |-> v, prints |-> FALSE])
        BY <3>2 DEF WriteCall
      <4>2. <<a>> \in Seq(OtpAddrs) \ {<<>>} /\ v \in SUBSET OtpBits
        BY OtpAssumption DEF OtpAssumption
      <4> QED BY <4>1, <4>2
    <3>3. CASE OtpWriteCommand
      <4>1. PICK a \in OtpAddrs, v \in OtpWrites :
              Begin([op |-> "write", list |-> <<a>>, val |-> v, prints |-> TRUE])
        BY <3>3 DEF OtpWriteCommand
      <4>2. <<a>> \in Seq(OtpAddrs) \ {<<>>} /\ v \in SUBSET OtpBits
        BY OtpAssumption DEF OtpAssumption
      <4> QED BY <4>1, <4>2
    <3> QED BY <1>1, <3>1, <3>2, <3>3
  <2> QED BY <2>1, BeginKeeps
<1>2. CASE OtpDriver
  BY <1>2, OpenKeeps, GiveKeeps, ReadKeeps, EnableKeeps, EnableFailsKeeps, EnabledKeeps,
     NotEnabledKeeps, OldValueKeeps, BurnKeeps, VerifyKeeps, DisableKeeps, OldPrintedKeeps,
     ResultPrintedKeeps, NewPrintedKeeps DEF OtpDriver
<1>3. CASE HwCommand
  BY <1>3, HwReadKeeps, HwEnableKeeps, HwDisableKeeps, HwBurnKeeps, HwVerifyKeeps DEF HwCommand
<1>4. CASE HwUnlock
  BY <1>4, HwUnlockKeeps
<1>5. CASE UNCHANGED otpVars
  <2> USE <1>5 DEF otpVars, otpDriver, otpHard, otpGhost
  <2>1. Types'
    <3>1. CallTypes' /\ RegTypes' /\ RunningTypes' /\ FuseTypes'
      BY DEF OtpInv, Types, CallTypes, RegTypes, RunningTypes, FuseTypes
    <3>2. ScalarTypes' /\ NumTypes'
      BY DEF OtpInv, Types, ScalarTypes, NumTypes
    <3> QED BY <3>1, <3>2 DEF Types
  <2>2. InCall' /\ Commanded' /\ Answered'
    BY DEF OtpInv, InCall, Commanded, CmdGiven, Answered, Word
  <2>3. Progress' /\ Closed' /\ Asked'
    BY DEF OtpInv, Progress, Closed, Asked, Word
  <2> QED BY <2>1, <2>2, <2>3 DEF OtpInv
<1> QED
  BY <1>1, <1>2, <1>3, <1>4, <1>5 DEF OtpNext

LEMMA OtpBegins == OtpInit => OtpInv
<1> SUFFICES ASSUME OtpInit PROVE OtpInv
  OBVIOUS
<1> USE DEF OtpInit
<1>1. CallTypes /\ InCall
  BY DEF CallTypes, InCall, Writing
<1>2. RegTypes /\ RunningTypes
  BY OtpAssumption DEF RegTypes, Regs, RunningTypes, NoCmd, OtpAssumption
<1>3. FuseTypes
  <2>1. fuses \in [OtpAddrs -> SUBSET OtpBits] /\ OtpBits \subseteq 0..31
    BY OtpAssumption DEF OtpAssumption
  <2> QED BY <2>1 DEF FuseTypes
<1>4. ScalarTypes
  BY DEF ScalarTypes, Writing
<1>6. NumTypes
  BY DEF NumTypes
<1>5. Commanded /\ Answered /\ Progress /\ Closed /\ Asked
  BY DEF Commanded, Answered, Progress, Closed, Asked, Burning, NoCmd
<1> QED
  BY <1>1, <1>2, <1>3, <1>4, <1>5, <1>6 DEF OtpInv, Types

(* The parts of the board have no variable in common with Otp. *)
LEMMA OtpOrNot == [Next]_boardVars => [OtpNext]_otpVars
<1> SUFFICES ASSUME [Next]_boardVars, UNCHANGED otpVars => FALSE
             PROVE  OtpNext
  OBVIOUS
<1>1. BoardOtp \/ BoardOtpHardware
  BY DEF Next, boardVars, BoardClocks, BoardClockHardware, BoardSdram, BoardSdramHardware,
     BoardArm,
     BoardUsb, BoardDomains, BoardPins, BoardPinHardware, BoardPinsByArm, BoardI2c,
     BoardI2cHardware, Quiet
<1> QED
  BY <1>1 DEF BoardOtp, BoardOtpHardware, OtpNext

LEMMA BurnsAsked ==
  ASSUME OtpInv, [OtpNext]_otpVars, trusted,
         NEW a \in OtpAddrs, NEW b \in fuses'[a] \ fuses[a]
  PROVE  call.op = "write" /\ otpPc # "idle" /\ a = Word /\ b \in call.val
<1>1. CASE HwCommand /\ HwBurn
  BY <1>1 DEF HwBurn, OtpInv, Types, CallTypes, RegTypes, RunningTypes, FuseTypes, ScalarTypes,
     NumTypes, InCall, Asked, Writing, Burning
<1>2. CASE UNCHANGED fuses
  BY <1>2
<1>3. (HwCommand /\ HwBurn) \/ UNCHANGED fuses
  BY DEF OtpNext, otpVars, otpHard, ReadCall, WriteCall, OtpWriteCommand, Begin, OtpDriver,
     Open, Give,
     ReadDone, EnableDone, EnableFails, Enabled, NotEnabled, OldValue, BurnOver, VerifyOver,
     DisableOver,
     OldPrinted, ResultPrinted, NewPrinted, HwCommand, HwRead, HwEnable, HwDisable, HwVerify,
     HwUnlock
<1> QED
  BY <1>1, <1>2, <1>3

-----------------------------------------------------------------------------
(* The inductive invariant of the one-time programmable memory. *)
THEOREM OtpInvariance == Spec => []OtpInv
<1>1. Init => OtpInv
  BY OtpBegins DEF Init
<1>2. OtpInv /\ [Next]_boardVars => OtpInv'
  BY OtpKeeps, OtpOrNot
<1> QED
  BY <1>1, <1>2, PTL DEF Spec

(* When otp_write returns 0, programming is disabled and the fuses are     *)
(* burned, unless the old value could not be read.                         *)
THEOREM WriteAlwaysKeepsItsWord == Spec => []WriteKeepsItsWord
<1>1. OtpInv => WriteKeepsItsWord
  BY DEF OtpInv, Closed, Word, WriteKeepsItsWord
<1> QED
  BY <1>1, OtpInvariance, PTL

(* otp_write burns only the fuses it was asked for, as long as no write    *)
(* has reported an error.                                                  *)
THEOREM BurnsOnlyAsked == Spec => OnlyAsked
<1>1. OtpInv /\ [Next]_boardVars =>
        [trusted => \A a \in OtpAddrs : \A b \in fuses'[a] \ fuses[a] :
           call.op = "write" /\ otpPc # "idle" /\ a = Head(call.list) /\ b \in call.val]_otpVars
  BY OtpOrNot, BurnsAsked DEF Word
<1> QED
  BY <1>1, OtpInvariance, PTL DEF Spec, OnlyAsked

-----------------------------------------------------------------------------
(* The clock of the VPU.                                                   *)

(* The VPU is on the crystal while PLLC is set up. *)
OnCrystal ==
  /\ clkPc = "toOsc" => vpu.ctl = "osc"
  /\ clkPc \in {"reset", "multiply", "hold", "load", "release", "lock", "gate", "source"} =>
       vpu.ctl = "osc" /\ vpu.src = "osc"

(* What PLLC is when the VPU goes to it. *)
PllcIsUp ==
  /\ clkPc \in {"release", "lock", "gate", "source"} => "core0" \in pllC.loaded
  /\ clkPc \in {"lock", "gate", "source"} => "core0" \notin pllC.held
  /\ clkPc \in {"gate", "source"} => pllC.lock

(* The registers that the argument is about. *)
VpuTypes ==
  /\ clkPc \in {"idle", "toOsc", "reset", "multiply", "hold", "load", "release", "lock",
                "gate", "source", "enable", "measure", "counted"}
  /\ vpu \in VpuClock
  /\ pllC \in Pll

ClkInv == VpuTypes /\ OnCrystal /\ PllcIsUp /\ VpuOnLockedClock

(* What the rest of the board does to the clocks: it sets PLLB.            *)
LEMMA ClocksOrNot ==
  [Next]_boardVars => SwitchVpu \/ MeasureCommand \/ ClockHardware \/ UNCHANGED <<clkPc, pllC, vpu>>
  BY DEF Next, boardVars, clockVars, BoardClocks, BoardClockHardware, BoardSdram,
     BoardSdramHardware,
     BoardArm, BoardUsb, BoardDomains, BoardOtp, BoardOtpHardware, BoardPins, BoardPinHardware,
     BoardPinsByArm, BoardI2c, BoardI2cHardware, SetPll, Setting, SetOff, SetBegin, SetPrescaler,
     SetMultiplier, SetUnscaled, SetLocked, SetNotLocked, ArmInit, ArmBegin, ArmPower, ArmStep,
     CopyPayload, MapBusToArm, ArmControl, PllbStep, MultiplyPllb, ResetPllb, HoldPllb, StartPllb,
     LoadPllb, UnholdPllb, ArmClock, ReleaseArm, CycleBresp, StartBridge, UsbInit, UsbBegin,
     PowerUpImage, UsbStep, UsbPower, UsbClockOff, UsbClockOn, DomainAnswers

LEMMA PllcDivIsNat == PllcDiv \in Nat
<1> DEFINE half == PllcFreq \div 2
<1>1. half \in Nat
  BY ClocksAssumption
<1> HIDE DEF half
<1> DEFINE units == half * FracUnit
<1>2. units \in Nat
  BY <1>1, ClocksAssumption
<1> HIDE DEF units
<1>3. units \div Xtal \in Nat
  BY <1>2, ClocksAssumption
<1> QED
  BY <1>3 DEF PllcDiv, half, units

LEMMA ClocksKeep ==
  ASSUME ClkInv, SwitchVpu \/ MeasureCommand \/ ClockHardware \/ UNCHANGED <<clkPc, pllC, vpu>>
  PROVE  ClkInv'
<1> USE DEF ClkInv, VpuTypes, VpuClock, OnCrystal, PllcIsUp, VpuOnLockedClock
<1>1. CASE ToOsc
  BY <1>1 DEF ToOsc, Step, Select
<1>2. CASE OnOsc
  BY <1>2 DEF OnOsc, Step, Busy
<1>3. CASE ResetPllc
  BY <1>3 DEF ResetPllc, Step, Pll, PllcTaps, Taps
<1>4. CASE MultiplyPllc
  BY <1>4, PllcDivIsNat DEF MultiplyPllc, Step, Pll, PllcTaps, Taps
<1>5. CASE HoldPllc
  BY <1>5 DEF HoldPllc, Step, Pll, PllcTaps, Taps
<1>6. CASE LoadPllc
  BY <1>6 DEF LoadPllc, Step, Pll, PllcTaps, Taps
<1>7. CASE ReleasePllc
  BY <1>7 DEF ReleasePllc, Step, Pll, PllcTaps, Taps
<1>8. CASE Locked
  BY <1>8 DEF Locked, Step
<1>9. CASE GateVpu
  BY <1>9 DEF GateVpu, Step
<1>10. CASE SourceVpu
  BY <1>10 DEF SourceVpu, Step, Select
<1>11. CASE EnableVpu
  BY <1>11 DEF EnableVpu, Step
<1>12. CASE MeasureVpu
  BY <1>12 DEF MeasureVpu, Step
<1>13. CASE Measured
  BY <1>13 DEF Measured, Step
<1>14. CASE MeasureCommand
  BY <1>14 DEF MeasureCommand
<1>15. CASE LockC
  BY <1>15 DEF LockC, Pll, PllcTaps, Taps
<1>16. CASE FollowSource
  BY <1>16 DEF FollowSource
<1>17. CASE LockB \/ Counted \/ UNCHANGED <<clkPc, pllC, vpu>>
  BY <1>17 DEF LockB, Counted
<1> QED
  BY <1>1, <1>2, <1>3, <1>4, <1>5, <1>6, <1>7, <1>8, <1>9, <1>10, <1>11, <1>12, <1>13, <1>14,
     <1>15, <1>16, <1>17 DEF SwitchVpu, ClockHardware

(* Whatever number of images set PLLC up again, the VPU is never on it,    *)
(* nor told to go to it, when it is not locked or its tap not there.       *)
THEOREM VpuAlwaysOnLockedClock == Spec => []VpuOnLockedClock
<1>1. Init => ClkInv
  BY DEF Init, ClockInit, ClkInv, VpuTypes, VpuClock, OnCrystal, PllcIsUp, VpuOnLockedClock, Pll, PllOff,
     PllcTaps, Taps
<1>2. ClkInv /\ [Next]_boardVars => ClkInv'
  BY ClocksOrNot, ClocksKeep
<1>3. ClkInv => VpuOnLockedClock
  BY DEF ClkInv
<1> QED
  BY <1>1, <1>2, <1>3, PTL DEF Spec

-----------------------------------------------------------------------------
(* set_pll_freq.                                                           *)

(* The call and the PLL it sets. *)
SetTypes ==
  /\ setPc \in {"idle", "prescale", "multiply", "unscale", "lock"}
  /\ set \in [freq : Nat, off : BOOLEAN, was : BOOLEAN, is : BOOLEAN, div : Nat]
  /\ pllB \in Pll

(* What set_pll_freq has decided on; nobody else sets PLLB meanwhile.      *)
SetPlan ==
  setPc # "idle" =>
    /\ armPc = 0
    /\ set.is = (set.freq > Limit) /\ set.div = Multiplier(set.freq)
    /\ set.off = ~pllB.started

(* What it has written at each of its steps. *)
SetWritten ==
  /\ setPc = "prescale" => pllB.prescaled = set.was
  /\ setPc \in {"multiply", "unscale"} => pllB.prescaled = (set.was /\ ~set.is)
  /\ setPc \in {"unscale", "lock"} => pllB.power /\ pllB.div = set.div
  /\ setPc = "lock" => ~pllB.prescaled /\ ~pllB.reset

SetInv == SetTypes /\ SetPlan /\ SetWritten

LEMMA Quotient ==
  ASSUME NEW a \in Nat, NEW b \in Nat \ {0}
  PROVE  /\ a \div b \in Nat
         /\ b * (a \div b) \in Nat
         /\ b * (a \div b) <= a
         /\ a < b * (a \div b) + b
  OBVIOUS

LEMMA MultiplierIsNat ==
  ASSUME NEW f \in Nat
  PROVE  Multiplier(f) \in Nat
<1> DEFINE units == f * FracUnit
<1>1. units \in Nat
  BY ClocksAssumption
<1> HIDE DEF units
<1>2. units + Xtal \div 2 \in Nat
  BY <1>1, ClocksAssumption
<1> DEFINE more == units + Xtal \div 2
<1> HIDE DEF more
<1>3. more \div Xtal \in Nat
  BY <1>2, ClocksAssumption DEF more
<1> DEFINE div == more \div Xtal
<1> HIDE DEF div
<1>4. div \in Nat /\ (div + 1) \div 2 \in Nat
  BY <1>3 DEF div
<1> QED
  BY <1>4 DEF Multiplier, div, more, units

(* PLLB is set by set_pll_freq, or by arm_init when that is not at work.   *)
LEMMA PllbOrNot ==
  [Next]_boardVars =>
    \/ SetPll /\ UNCHANGED armVars /\ (setPc = "idle" => armPc = 0)
    \/ LockB /\ UNCHANGED armVars
    \/ ArmInit /\ UNCHANGED <<setPc, set>> /\ (setPc # "idle" => armPc > 0)
    \/ UNCHANGED <<setPc, set, pllB, armPc>>
  BY DEF Next, boardVars, clockVars, armVars, BoardClocks, BoardClockHardware, BoardSdram,
     BoardSdramHardware, BoardArm, BoardUsb, BoardDomains, BoardOtp, BoardOtpHardware, BoardPins,
     BoardPinHardware, BoardPinsByArm, BoardI2c, BoardI2cHardware, SwitchVpu, Step, ToOsc, OnOsc,
     ResetPllc, MultiplyPllc, HoldPllc, LoadPllc, ReleasePllc, Locked, GateVpu, SourceVpu,
     EnableVpu,
     MeasureVpu, Measured, MeasureCommand, SetPll, Setting, SetOff, SetBegin, SetPrescaler,
     SetMultiplier,
     SetUnscaled, SetLocked, SetNotLocked, ClockHardware, LockB, LockC, FollowSource, Counted,
     ArmInit, ArmBegin, ArmPower, ArmAt, ArmStep, CopyPayload, MapBusToArm, ArmControl, PllbStep,
     MultiplyPllb, ResetPllb, HoldPllb, StartPllb, LoadPllb, UnholdPllb, ArmClock, ReleaseArm,
     CycleBresp, StartBridge, UsbInit, UsbBegin, PowerUpImage, UsbForth, UsbStep, UsbPower,
     UsbClockOff,
     UsbClockOn, DomainAnswers

LEMMA SetPllKeeps ==
  ASSUME SetInv, SetPll, UNCHANGED armVars, setPc = "idle" => armPc = 0
  PROVE  SetInv'
<1> USE DEF SetInv, SetTypes, SetPlan, SetWritten, Setting, armVars
<1>1. CASE SetOff
  BY <1>1 DEF SetOff, Pll
<1>2. CASE SetBegin
  <2>1. PICK f \in Freqs \ {0} : set' = [freq |-> f, off |-> WasOff, was |-> pllB.prescaled,
                                       is |-> f > Limit, div |-> Multiplier(f)]
    BY <1>2 DEF SetBegin
  <2>2. f \in Nat /\ Multiplier(f) \in Nat
    BY MultiplierIsNat, ClocksAssumption
  <2> QED
    BY <1>2, <2>1, <2>2, ClocksAssumption DEF SetBegin, WasOff, Pll
<1>3. CASE SetPrescaler
  BY <1>3 DEF SetPrescaler, Pll
<1>4. CASE SetMultiplier
  BY <1>4 DEF SetMultiplier, Pll
<1>5. CASE SetUnscaled
  BY <1>5 DEF SetUnscaled, Pll
<1>6. CASE SetLocked
  BY <1>6 DEF SetLocked, Pll, PllcTaps, Taps
<1>7. CASE SetNotLocked
  BY <1>7 DEF SetNotLocked
<1> QED
  BY <1>1, <1>2, <1>3, <1>4, <1>5, <1>6, <1>7 DEF SetPll

LEMMA ArmLeavesSet ==
  ASSUME SetInv, ArmInit, UNCHANGED <<setPc, set>>, setPc # "idle" => armPc > 0
  PROVE  SetInv'
<1>1. setPc = "idle" /\ setPc' = "idle"
  BY DEF SetInv, SetPlan
<1>2. pllB' \in Pll
  <2>1. CASE MultiplyPllb
    BY <2>1, ClocksAssumption DEF MultiplyPllb, PllbStep, SetInv, SetTypes, Pll
  <2>2. CASE ResetPllb
    BY <2>2 DEF ResetPllb, PllbStep, SetInv, SetTypes, Pll, PllcTaps, Taps
  <2>3. CASE HoldPllb
    BY <2>3 DEF HoldPllb, PllbStep, SetInv, SetTypes, Pll
  <2>4. CASE StartPllb
    BY <2>4 DEF StartPllb, PllbStep, SetInv, SetTypes, Pll
  <2>5. CASE LoadPllb
    BY <2>5 DEF LoadPllb, PllbStep, SetInv, SetTypes, Pll, PllcTaps, Taps
  <2>6. CASE UnholdPllb
    BY <2>6 DEF UnholdPllb, PllbStep, SetInv, SetTypes, Pll, PllcTaps, Taps
  <2>7. CASE UNCHANGED pllB
    BY <2>7 DEF SetInv, SetTypes
  <2> QED
    BY <2>1, <2>2, <2>3, <2>4, <2>5, <2>6, <2>7 DEF ArmInit, clockVars, ArmBegin, ArmPower,
       ArmStep,
       CopyPayload, MapBusToArm, ArmControl, ArmClock, ReleaseArm, CycleBresp, StartBridge
<1> QED
  BY <1>1, <1>2 DEF SetInv, SetTypes, SetPlan, SetWritten

LEMMA SetKeeps == SetInv /\ [Next]_boardVars => SetInv'
<1> SUFFICES ASSUME SetInv, [Next]_boardVars PROVE SetInv'
  OBVIOUS
<1>1. CASE LockB /\ UNCHANGED armVars
  BY <1>1 DEF LockB, armVars, SetInv, SetTypes, SetPlan, SetWritten, Pll
<1>2. CASE UNCHANGED <<setPc, set, pllB, armPc>>
  BY <1>2 DEF SetInv, SetTypes, SetPlan, SetWritten
<1> QED
  BY <1>1, <1>2, PllbOrNot, SetPllKeeps, ArmLeavesSet

LEMMA SetBegins == Init => SetInv
<1> SUFFICES ASSUME Init PROVE SetInv
  OBVIOUS
<1>1. pllB \in Pll
  <2>1. PICK p \in BOOLEAN : pllB = [PllOff EXCEPT !.prescaled = p]
    BY DEF Init, ClockInit
  <2> QED
    BY <2>1 DEF Pll, PllOff
<1> QED
  BY <1>1 DEF Init, ClockInit, SetInv, SetTypes, SetPlan, SetWritten

-----------------------------------------------------------------------------
(* The rounding of the multiplier. *)
LEMMA LessByFactor ==
  ASSUME NEW a \in Int, NEW b \in Int, NEW k \in Nat \ {0}, a * k < b * k
  PROVE  a < b
<1> SUFFICES ASSUME a >= b PROVE a * k >= b * k
  OBVIOUS
<1>1. PICK d \in Nat : a = b + d
  <2>1. a - b \in Nat /\ a = b + (a - b)
    OBVIOUS
  <2> QED
    BY <2>1
<1>2. d * k \in Nat
  OBVIOUS
<1>3. a * k = b * k + d * k
  BY <1>1
<1> QED
  BY <1>2, <1>3

(* A frequency, from a multiplier that is off by less than three units.    *)
LEMMA NearEnough ==
  ASSUME NEW f \in Nat, NEW m \in Nat, NEW F \in Nat \ {0}, NEW X \in Nat \ {0},
         m * X <= f * F + 2 * X + F, f * F <= m * X + 2 * X
  PROVE  Near((m * X) \div F, f, (2 * X) \div F + 1)
<1> DEFINE Q == m * X
           P == f * F
           q == Q \div F
           e == (2 * X) \div F
<1>1. Q \in Nat /\ P \in Nat /\ Q <= P + 2 * X + F /\ P <= Q + 2 * X
  OBVIOUS
<1> HIDE DEF Q
<1>2. q \in Nat /\ F * q \in Nat /\ F * q <= Q /\ Q < F * q + F
  BY <1>1, Quotient
<1> HIDE DEF q
<1>3. e \in Nat /\ F * e \in Nat /\ F * e <= 2 * X /\ 2 * X < F * e + F
  BY Quotient
<1> HIDE DEF e
<1>4. (q - f) * F = F * q - P /\ (f - q) * F = P - F * q
  BY <1>2
<1>5. (e + 1) * F = F * e + F /\ (e + 2) * F = F * e + F + F
  BY <1>3
<1> HIDE DEF P
<1>6. q - f < e + 2
  <2>1. (q - f) * F < (e + 2) * F
    BY <1>1, <1>2, <1>3, <1>4, <1>5
  <2> QED
    BY <2>1, <1>2, <1>3, LessByFactor
<1>7. f - q < e + 2
  <2>1. (f - q) * F < (e + 2) * F
    BY <1>1, <1>2, <1>3, <1>4, <1>5
  <2> QED
    BY <2>1, <1>2, <1>3, LessByFactor
<1> QED
  BY <1>2, <1>3, <1>6, <1>7 DEF Near, Q, q, e

LEMMA MultiplierIsNear ==
  ASSUME NEW f \in Nat
  PROVE  /\ Reached(f) \in Nat
         /\ Multiplier(f) * Xtal <= Reached(f) * FracUnit + 2 * Xtal + FracUnit
         /\ Reached(f) * FracUnit <= Multiplier(f) * Xtal + 2 * Xtal
<1> DEFINE P == f * FracUnit
           more == P + Xtal \div 2
           div == more \div Xtal
           half == f \div 2
           m == (div + 1) \div 2
<1>0. Xtal \in Nat \ {0} /\ Xtal \div 2 \in Nat /\ Xtal \div 2 <= Xtal /\ FracUnit \in Nat
  BY ClocksAssumption
<1>1. P \in Nat
  BY ClocksAssumption
<1>2. half \in Nat /\ (f = half + half \/ f = half + half + 1)
  OBVIOUS
<1> HIDE DEF half
<1>3. half * FracUnit \in Nat
  BY <1>0, <1>2
<1>4. P = half * FracUnit + half * FracUnit \/ P = half * FracUnit + half * FracUnit + FracUnit
  BY <1>0, <1>2, <1>3
<1> HIDE DEF P
<1>5. more \in Nat /\ P <= more /\ more <= P + Xtal
  BY <1>0, <1>1
<1> HIDE DEF more
<1>6. div \in Nat /\ Xtal * div \in Nat /\ Xtal * div <= more /\ more < Xtal * div + Xtal
  BY <1>0, <1>5, Quotient
<1>7. div * Xtal = Xtal * div
  BY <1>0, <1>6
<1>8. Multiplier(f) = IF f > Limit THEN m ELSE div
  BY DEF Multiplier, div, more, P
<1> HIDE DEF div
<1>9. m \in Nat /\ (m + m = div \/ m + m = div + 1)
  BY <1>6
<1> HIDE DEF m
<1>10. m * Xtal \in Nat /\ (m * Xtal + m * Xtal = Xtal * div \/ m * Xtal + m * Xtal = Xtal * div + Xtal)
  <2>1. (m + m) * Xtal = m * Xtal + m * Xtal /\ (div + 1) * Xtal = Xtal * div + Xtal
    BY <1>0, <1>6, <1>9
  <2> QED
    BY <1>0, <1>7, <1>9, <2>1
<1>11. CASE f > Limit
  <2>1. Reached(f) = half /\ Multiplier(f) = m
    BY <1>8, <1>11 DEF Reached, half
  <2>2. m * Xtal <= half * FracUnit + 2 * Xtal + FracUnit /\ half * FracUnit <= m * Xtal + 2 * Xtal
    BY <1>0, <1>1, <1>3, <1>4, <1>5, <1>6, <1>10
  <2> QED
    BY <1>2, <2>1, <2>2
<1>12. CASE ~(f > Limit)
  <2>1. Reached(f) = f /\ Multiplier(f) = div
    BY <1>8, <1>12 DEF Reached
  <2>2. Xtal * div <= P + 2 * Xtal + FracUnit /\ P <= Xtal * div + 2 * Xtal
    BY <1>0, <1>1, <1>5, <1>6
  <2> QED
    BY <1>7, <2>1, <2>2 DEF P
<1> QED
  BY <1>11, <1>12

(* What set_pll_freq returns 0 for, it has done, but for the prescaler:    *)
(* also when earlier tries have failed half way, or arm_init sets the same *)
(* PLL later.  Above Limit the frequency is the half of the one asked for. *)
THEOREM SetAlwaysKeepsItsWord == Spec => SetKeepsItsWord
<1>1. SetInv /\ [Next]_boardVars =>
        [setPc = "lock" /\ setPc' = "idle" /\ setResult' = "ok" =>
           /\ pllB'.power /\ ~pllB'.reset /\ pllB'.started /\ pllB'.lock
           /\ Near(Frequency(pllB'), Reached(set.freq), (2 * Xtal) \div FracUnit + 1)]_clockVars
  <2> SUFFICES ASSUME SetInv, [Next]_boardVars, setPc = "lock", setPc' = "idle", setResult' = "ok"
               PROVE  /\ pllB'.power /\ ~pllB'.reset /\ pllB'.started /\ pllB'.lock
                      /\ Near(Frequency(pllB'), Reached(set.freq), (2 * Xtal) \div FracUnit + 1)
    OBVIOUS
  <2>1. SetLocked
    BY PllbOrNot DEF LockB, SetPll, Setting, SetOff, SetBegin, SetPrescaler, SetMultiplier,
       SetUnscaled, SetNotLocked
  <2>2. /\ pllB'.power /\ ~pllB'.reset /\ pllB'.started /\ pllB'.lock
        /\ ~pllB'.prescaled /\ pllB'.div = set.div
    BY <2>1 DEF SetLocked, SetInv, SetTypes, SetPlan, SetWritten, Pll
  <2>3. set.freq \in Nat /\ Multiplier(set.freq) \in Nat
    BY MultiplierIsNat DEF SetInv, SetTypes
  <2>4. pllB'.div = Multiplier(set.freq)
    BY <2>2 DEF SetInv, SetPlan
  <2> DEFINE m == Multiplier(set.freq)
             f == Reached(set.freq)
  <2>5. /\ f \in Nat /\ m \in Nat
        /\ m * Xtal <= f * FracUnit + 2 * Xtal + FracUnit /\ f * FracUnit <= m * Xtal + 2 * Xtal
    BY <2>3, MultiplierIsNear
  <2> HIDE DEF m, f
  <2>6. Near((m * Xtal) \div FracUnit, f, (2 * Xtal) \div FracUnit + 1)
    BY <2>5, NearEnough, ClocksAssumption
  <2> QED
    BY <2>2, <2>4, <2>6 DEF Frequency, m, f
<1> QED
  BY <1>1, SetBegins, SetKeeps, PTL DEF Spec, SetKeepsItsWord

-----------------------------------------------------------------------------
(* The power domains, and the start of the ARM.                            *)

(* The domain that is being powered up. *)
Current == IF armPc > 0 THEN "proc" ELSE "image"

(* The two programs, and what they bring up. *)
ArmTypes ==
  /\ armPc \in 0..17 /\ usbPc \in 0..4 /\ pwr \in {"idle", "power", "repair"}
  /\ arm \in Arm
  /\ domain \in [Domains -> Domain]

(* One domain at most is on its way, and who powers it waits for it. *)
OneAtATime ==
  /\ armPc > 0 => usbPc = 0
  /\ pwr # "idle" => armPc \in {1, 12} \/ usbPc = 1

(* A domain has been gone through step by step, or is still off. *)
StepByStep ==
  /\ \A d \in Domains : domain[d].isfunc => domain[d].ok /\ domain[d].ispow /\ domain[d].mrdone
  /\ \A d \in Domains : domain[d].up /\ (pwr = "idle" \/ d # Current) => domain[d].isfunc
  /\ pwr = "repair" => domain[Current].ok /\ domain[Current].ispow

(* What the ARM has at each place of arm_init. *)
ArmHas ==
  /\ armPc > 1 => domain["proc"].isfunc
  /\ armPc > 2 => arm.payload
  /\ armPc > 3 => arm.map = {0, 32}
  /\ armPc > 4 => arm.peri
  /\ armPc > 8 => pllB.started
  /\ armPc > 9 => "arm" \in pllB.loaded
  /\ armPc > 10 => ~pllB.reset /\ "arm" \notin pllB.held
  /\ armPc > 11 => arm.clock
  /\ arm.running => armPc > 13

ArmInv == ArmTypes /\ OneAtATime /\ StepByStep /\ ArmHas

(* The power domains change only here, and PLLB while the ARM is started   *)
(* only by arm_init and its lock.                                          *)
LEMMA ArmOrNot ==
  [Next]_boardVars =>
    \/ ArmInit \/ UsbInit \/ DomainAnswers
    \/ UNCHANGED armVars /\ (pllB' = pllB \/ LockB \/ setPc # "idle" \/ armPc = 0)
  BY DEF Next, boardVars, clockVars, BoardClocks, BoardClockHardware, BoardSdram,
     BoardSdramHardware, BoardArm, BoardUsb, BoardDomains, BoardOtp, BoardOtpHardware, BoardPins,
     BoardPinHardware, BoardPinsByArm, BoardI2c, BoardI2cHardware, SwitchVpu, Step, ToOsc, OnOsc,
     ResetPllc, MultiplyPllc, HoldPllc, LoadPllc, ReleasePllc, Locked, GateVpu, SourceVpu,
     EnableVpu,
     MeasureVpu, Measured, MeasureCommand, SetPll, Setting, SetOff, SetBegin, ClockHardware,
     LockC,
     FollowSource, Counted, SetPrescaler, SetMultiplier, SetUnscaled, SetLocked, SetNotLocked

(* Where each step of arm_init is in it. *)
LEMMA ArmPlaces ==
  ASSUME armPc \in 0..17
  PROVE  /\ Len(ArmProgram) = 16
         /\ ArmAt("power") => armPc \in {1, 12}
         /\ ArmAt("payload") => armPc = 2
         /\ ArmAt("map") => armPc = 3
         /\ ArmAt("control") => armPc = 4
         /\ ArmAt("multiply") => armPc = 5
         /\ ArmAt("reset") => armPc = 6
         /\ ArmAt("hold") => armPc = 7
         /\ ArmAt("start") => armPc = 8
         /\ ArmAt("load") => armPc = 9
         /\ ArmAt("unhold") => armPc = 10
         /\ ArmAt("clock") => armPc = 11
         /\ ArmAt("release") => armPc \in {13, 15}
         /\ ArmAt("bresp") => armPc = 14
         /\ ArmAt("bridge") => armPc = 16
  BY DEF ArmAt, ArmProgram

LEMMA UsbPlaces ==
  ASSUME usbPc \in 0..4
  PROVE  Len(UsbProgram) = 4 /\ (UsbAt("domain") <=> usbPc = 1)
  BY DEF UsbAt, UsbProgram

(* power_domain_on, called for either domain. *)
LEMMA DomainStepKeeps ==
  ASSUME ArmInv, NEW d \in Domains, d = Current, DomainStep(d), UNCHANGED armPc
  PROVE  /\ pwr' \in {"power", "repair"} /\ domain' \in [Domains -> Domain]
         /\ StepByStep' /\ \A c \in Domains : domain[c].isfunc => domain'[c].isfunc
<1>1. domain \in [Domains -> Domain]
  BY DEF ArmInv, ArmTypes
<1>2. \A r \in Domain : [r EXCEPT !.ispow = TRUE, !.memrep = TRUE] \in Domain
  BY DEF Domain
<1>3. Isolation(d) => domain' \in [Domains -> Domain]
  <2> SUFFICES ASSUME Isolation(d) PROVE domain' \in [Domains -> Domain]
    OBVIOUS
  <2>1. domain' = [domain EXCEPT ![d] = [domain[d] EXCEPT !.ispow = TRUE, !.memrep = TRUE]]
    BY <1>1 DEF Isolation, Domain
  <2>2. [domain[d] EXCEPT !.ispow = TRUE, !.memrep = TRUE] \in Domain
    BY <1>1, <1>2
  <2> QED
    BY <1>1, <2>1, <2>2
<1> USE DEF ArmInv, ArmTypes, StepByStep, Domain, Domains, Current
<1>4. CASE PowerUp(d)
  BY <1>4 DEF PowerUp
<1>5. CASE Isolation(d)
  <2>1. \A c \in Domains : domain'[c] = IF c = d THEN [domain[d] EXCEPT !.ispow = TRUE, !.memrep = TRUE] ELSE domain[c]
    BY <1>5 DEF Isolation
  <2> QED
    BY <1>3, <1>5, <2>1 DEF Isolation
<1> QED
  BY <1>4, <1>5 DEF DomainStep

LEMMA DomainReturnsKeeps ==
  ASSUME ArmInv, NEW d \in Domains, d = Current, DomainReturns(d), pwr = "idle" => UNCHANGED Current
  PROVE  /\ pwr' = "idle" /\ domain' \in [Domains -> Domain] /\ domain'[d].isfunc
         /\ StepByStep' /\ \A c \in Domains : domain[c].isfunc => domain'[c].isfunc
<1> USE DEF ArmInv, ArmTypes, StepByStep, Domain, Domains
<1>1. CASE AlreadyOn(d)
  BY <1>1 DEF AlreadyOn
<1>2. CASE Repaired(d)
  BY <1>2 DEF Repaired
<1> QED
  BY <1>1, <1>2 DEF DomainReturns

LEMMA ArmFields ==
  ASSUME arm \in Arm
  PROVE  /\ [arm EXCEPT !.payload = TRUE] \in Arm
         /\ [arm EXCEPT !.map = {0, 32}] \in Arm
         /\ [arm EXCEPT !.peri = TRUE] \in Arm
         /\ [arm EXCEPT !.clock = TRUE] \in Arm
         /\ [arm EXCEPT !.running = TRUE] \in Arm
         /\ [arm EXCEPT !.bridge = TRUE] \in Arm
<1>1. {0, 32} \in SUBSET (0..63)
  OBVIOUS
<1> QED
  BY <1>1 DEF Arm

LEMMA ArmInitKeeps ==
  ASSUME ArmInv, pllB \in Pll, ArmInit
  PROVE  ArmInv'
<1> USE ArmPlaces DEF ArmInv, ArmTypes, OneAtATime, StepByStep, ArmHas, clockVars, ArmForth
<1>1. CASE ArmBegin
  BY <1>1 DEF ArmBegin, Current, Domains
<1>2. CASE ArmPower /\ DomainStep("proc")
  <2>1. armPc > 0 /\ armPc' = armPc /\ UNCHANGED <<clockVars, arm, usbPc, usb, usbs>>
    BY <1>2 DEF ArmPower, ArmAt, DomainStep, DomainReturns, PowerUp, Isolation, AlreadyOn,
       Repaired
  <2> QED
    BY <1>2, <2>1, DomainStepKeeps DEF ArmPower, Current, Domains
<1>3. CASE ArmPower /\ DomainReturns("proc")
  <2>1. armPc > 0 /\ armPc' = armPc + 1 /\ UNCHANGED <<clockVars, arm, usbPc, usb, usbs>>
    BY <1>3 DEF ArmPower, ArmAt, DomainStep, DomainReturns, PowerUp, Isolation, AlreadyOn,
       Repaired
  <2> QED
    BY <1>3, <2>1, DomainReturnsKeeps DEF ArmPower, Current, Domains
<1>4. CASE CopyPayload
  <2>1. ArmTypes' /\ OneAtATime'
    BY <1>4, ArmFields DEF CopyPayload, ArmStep
  <2>2. StepByStep'
    BY <1>4 DEF CopyPayload, ArmStep, Current
  <2>3. ArmHas'
    BY <1>4 DEF CopyPayload, ArmStep, Arm
  <2> QED
    BY <2>1, <2>2, <2>3
<1>5. CASE MapBusToArm
  <2>1. ArmTypes' /\ OneAtATime'
    BY <1>5, ArmFields DEF MapBusToArm, ArmStep
  <2>2. StepByStep'
    BY <1>5 DEF MapBusToArm, ArmStep, Current
  <2>3. ArmHas'
    BY <1>5 DEF MapBusToArm, ArmStep, Arm
  <2> QED
    BY <2>1, <2>2, <2>3
<1>6. CASE ArmControl
  <2>1. ArmTypes' /\ OneAtATime'
    BY <1>6, ArmFields DEF ArmControl, ArmStep
  <2>2. StepByStep'
    BY <1>6 DEF ArmControl, ArmStep, Current
  <2>3. ArmHas'
    BY <1>6 DEF ArmControl, ArmStep, Arm
  <2> QED
    BY <2>1, <2>2, <2>3
<1>7. CASE MultiplyPllb
  BY <1>7 DEF MultiplyPllb, PllbStep, Pll, Current, Domains
<1>8. CASE ResetPllb
  BY <1>8 DEF ResetPllb, PllbStep, Pll, Current, Domains
<1>9. CASE HoldPllb
  BY <1>9 DEF HoldPllb, PllbStep, Pll, Current, Domains
<1>10. CASE StartPllb
  BY <1>10 DEF StartPllb, PllbStep, Pll, Current, Domains
<1>11. CASE LoadPllb
  BY <1>11 DEF LoadPllb, PllbStep, Pll, Current, Domains
<1>12. CASE UnholdPllb
  BY <1>12 DEF UnholdPllb, PllbStep, Pll, Current, Domains
<1>13. CASE ArmClock
  <2>1. ArmTypes' /\ OneAtATime'
    BY <1>13, ArmFields DEF ArmClock, ArmStep
  <2>2. StepByStep'
    BY <1>13 DEF ArmClock, ArmStep, Current
  <2>3. ArmHas'
    BY <1>13 DEF ArmClock, ArmStep, Arm
  <2> QED
    BY <2>1, <2>2, <2>3
<1>14. CASE ReleaseArm
  <2>1. ArmTypes' /\ OneAtATime'
    BY <1>14, ArmFields DEF ReleaseArm, ArmStep
  <2>2. StepByStep'
    BY <1>14 DEF ReleaseArm, ArmStep, Current
  <2>3. ArmHas'
    BY <1>14 DEF ReleaseArm, ArmStep, Arm
  <2> QED
    BY <2>1, <2>2, <2>3
<1>15. CASE CycleBresp
  <2>1. ArmTypes' /\ OneAtATime'
    BY <1>15, ArmFields DEF CycleBresp, ArmStep
  <2>2. StepByStep'
    BY <1>15 DEF CycleBresp, ArmStep, Current
  <2>3. ArmHas'
    BY <1>15 DEF CycleBresp, ArmStep, Arm
  <2> QED
    BY <2>1, <2>2, <2>3
<1>16. CASE StartBridge
  <2>1. ArmTypes' /\ OneAtATime'
    BY <1>16, ArmFields DEF StartBridge, ArmStep
  <2>2. StepByStep'
    BY <1>16 DEF StartBridge, ArmStep, Current
  <2>3. ArmHas'
    BY <1>16 DEF StartBridge, ArmStep, Arm
  <2> QED
    BY <2>1, <2>2, <2>3
<1> QED
  BY <1>1, <1>2, <1>3, <1>4, <1>5, <1>6, <1>7, <1>8, <1>9, <1>10, <1>11, <1>12, <1>13, <1>14,
     <1>15, <1>16
     DEF ArmInit, ArmPower

LEMMA UsbInitKeeps ==
  ASSUME ArmInv, UsbInit
  PROVE  ArmInv'
<1> USE UsbPlaces DEF ArmInv, ArmTypes, OneAtATime, StepByStep, ArmHas, clockVars, UsbForth
<1>1. CASE UsbBegin
  BY <1>1 DEF UsbBegin, Current, Domains
<1>2. CASE PowerUpImage /\ DomainStep("image")
  <2>1. usbPc = 1 /\ usbPc' = 1 /\ UNCHANGED <<clockVars, arm, armPc, usbs>>
    BY <1>2 DEF PowerUpImage, DomainStep, DomainReturns, PowerUp, Isolation, AlreadyOn, Repaired
  <2> QED
    BY <1>2, <2>1, DomainStepKeeps DEF Current, Domains
<1>3. CASE PowerUpImage /\ DomainReturns("image")
  <2>1. usbPc = 1 /\ usbPc' = 2 /\ UNCHANGED <<clockVars, arm, armPc, usbs>>
    BY <1>3 DEF PowerUpImage, DomainStep, DomainReturns, PowerUp, Isolation, AlreadyOn, Repaired
  <2> QED
    BY <1>3, <2>1, DomainReturnsKeeps DEF Current, Domains
<1>4. CASE UsbPower \/ UsbClockOff \/ UsbClockOn
  BY <1>4 DEF UsbPower, UsbClockOff, UsbClockOn, UsbStep, UsbAt, UsbProgram, Current, Domains
<1> QED
  BY <1>1, <1>2, <1>3, <1>4 DEF UsbInit, PowerUpImage

LEMMA DomainAnswersKeeps ==
  ASSUME ArmInv, DomainAnswers
  PROVE  ArmInv'
<1>1. PICK d \in Domains :
        \/ domain[d].up /\ ~domain[d].ok /\ domain' = [domain EXCEPT ![d].ok = TRUE]
        \/ domain[d].memrep /\ ~domain[d].mrdone /\ domain' = [domain EXCEPT ![d].mrdone = TRUE]
  BY DEF DomainAnswers
<1>2. UNCHANGED <<clockVars, armPc, arm, usbPc, usb, pwr, usbs>>
  BY DEF DomainAnswers
<1>3. domain' \in [Domains -> Domain] /\ StepByStep'
  <2>1. domain \in [Domains -> Domain]
    BY DEF ArmInv, ArmTypes
  <2>2. domain' \in [Domains -> Domain]
    BY <1>1, <2>1 DEF Domain
  <2>3. \A c \in Domains :
          /\ domain'[c].up = domain[c].up /\ domain'[c].ispow = domain[c].ispow
          /\ domain'[c].isfunc = domain[c].isfunc
          /\ domain[c].ok => domain'[c].ok
          /\ domain[c].mrdone => domain'[c].mrdone
    BY <1>1, <2>1 DEF Domain
  <2> QED
    BY <1>2, <2>2, <2>3 DEF ArmInv, StepByStep, Domains, Current
<1>4. domain'["proc"].isfunc = domain["proc"].isfunc
  BY <1>1 DEF ArmInv, ArmTypes, Domain, Domains
<1> QED
  BY <1>2, <1>3, <1>4 DEF ArmInv, ArmTypes, OneAtATime, ArmHas, clockVars

LEMMA ArmKeeps ==
  ASSUME ArmInv, SetInv, [Next]_boardVars
  PROVE  ArmInv'
<1>1. CASE UNCHANGED armVars /\ (pllB' = pllB \/ LockB \/ setPc # "idle" \/ armPc = 0)
  <2>1. armPc = 0 \/ UNCHANGED <<pllB.started, pllB.loaded, pllB.held, pllB.reset>>
    BY <1>1 DEF SetInv, SetTypes, SetPlan, LockB, Pll
  <2> QED
    BY <1>1, <2>1 DEF armVars, ArmInv, ArmTypes, OneAtATime, StepByStep, ArmHas, Current
<1> QED
  BY <1>1, ArmOrNot, ArmInitKeeps, UsbInitKeeps, DomainAnswersKeeps DEF SetInv, SetTypes

(* The ARM leaves its reset with all that it needs, whichever of the       *)
(* domains an image before has left on, and whatever set_pll_freq has left *)
(* in PLLB.                                                                *)
THEOREM ArmAlwaysStartsReady == Spec => []ArmStartsReady
<1>1. Init => ArmInv
  
  <2> SUFFICES ASSUME Init PROVE ArmInv
    OBVIOUS
  <2>1. \A d \in Domains : domain[d] \in {DomainOff, DomainOn}
    BY DEF Init, ArmStateInit
  <2>2. domain \in [Domains -> Domain]
    <3>1. DomainOff \in Domain /\ DomainOn \in Domain
      BY DEF DomainOff, DomainOn, Domain
    <3> QED
      BY <2>1, <3>1 DEF Init, ArmStateInit
  <2>3. StepByStep
    BY <2>1 DEF Init, ArmStateInit, DomainOff, DomainOn, StepByStep
  <2> QED
    BY <2>2, <2>3 DEF Init, ArmStateInit, ArmInv, ArmTypes, OneAtATime, ArmHas, Arm
<1>2. ArmInv /\ SetInv /\ [Next]_boardVars => ArmInv'
  BY ArmKeeps
<1>3. ArmInv => ArmStartsReady
  BY ArmPlaces DEF ArmInv, ArmTypes, StepByStep, ArmHas, ArmStartsReady
<1> QED
  BY <1>1, <1>2, <1>3, SetBegins, SetKeeps, PTL DEF Spec

-----------------------------------------------------------------------------
(* The memory.                                                             *)

(* Where sdram_init is, and the command for a mode register in it.         *)
SdPlace ==
  /\ sdPc \in 1..31 /\ mrPc \in 1..9 /\ mrt \in {"short", "long"}

(* What it knows, and what it gives away. *)
SdData ==
  /\ sdSize \in Nat /\ chip \in Nat
  /\ arena \in [from : Nat, upto : Nat]

(* The units of the hardware. *)
SdUnits == cm \in SdClock /\ sdc \in SdControl /\ phy \in SdPhy /\ ddr \in DdrPll /\ mr \in ModeRegister

(* The clock manager has agreed. *)
Agreed == sdPc \in {4, 16, 21} => cm.update /\ cm.accpt

(* The controller is down. *)
ControllerDown ==
  /\ sdPc \in 1..9 \cup 14..28 => ~sdc.run
  /\ sdPc \in 1..9 \cup 15..28 => ~sdc.up

(* The last mode register command is done where nothing may disturb it. *)
ModeDone ==
  /\ mr.at <= mrPc
  /\ sdPc < 11 => mrPc = 1 /\ mr.at = 0
  /\ sdPc > 11 => mrPc = 9
  /\ sdPc # 11 \/ (mrPc \in {3, 4, 5, 6, 8, 9} /\ mr.at # mrPc) => mr.done
  /\ mrPc = 4 => mr.at # mrPc
  /\ mrt = "long" => sdPc = 11 /\ mrPc = 5 /\ mr.at = 5

(* Who has the address lines. *)
Lines ==
  /\ sdPc \in 9..24 => phy.owner = "controller" \/ (sdPc = 11 /\ mrPc = 4 /\ phy.owner # "driver")
  /\ sdPc > 27 => phy.owner = "controller"
  /\ sdPc > 25 => phy.data
  /\ sdPc > 26 => phy.addr

(* The DDR PLL is up, and the memory is driven by it. *)
PllIsUp ==
  /\ sdPc > 18 => ~ddr.reset
  /\ sdPc > 19 => ddr.lock /\ ddr.divider
  /\ sdPc > 21 => cm.ctrl = 4

(* The memory has answered, and the timings are for its size.              *)
SizeIsKnown ==
  /\ sdPc > 12 => sdSize = chip /\ chip \in {128, 256, 512, 1024}
  /\ sdPc > 23 => timing = Geometry(chip)

(* Places within the memory. *)
Below(places, size) == places \in Seq(Nat) /\ \A i \in 1..Len(places) : places[i] < size

(* It is tested, and given away, at the end and no further than it goes.   *)
Tested ==
  /\ tested # <<>> => sdPc > 28
  /\ Below(tested, chip)
  /\ arena.upto = 0 \/ (arena.upto = 11 /\ sdPc > 30)

SdInv ==
  /\ SdPlace /\ SdData /\ SdUnits /\ Agreed /\ ControllerDown /\ ModeDone /\ Lines /\ PllIsUp
  /\ SizeIsKnown /\ Tested

LEMMA SdramOrNot == [Next]_boardVars => [SdNext]_sdVars
<1> SUFFICES ASSUME [Next]_boardVars, UNCHANGED sdVars => FALSE
             PROVE  SdNext
  OBVIOUS
<1>1. BoardSdram \/ BoardSdramHardware
  BY DEF Next, boardVars, BoardClocks, BoardClockHardware, BoardArm, BoardUsb, BoardDomains,
     BoardOtp, BoardOtpHardware, BoardPins, BoardPinHardware, BoardPinsByArm, BoardI2c,
     BoardI2cHardware, Quiet
<1> QED
  BY <1>1 DEF BoardSdram, BoardSdramHardware, SdNext

(* Where each step of sdram_init is in it. *)
LEMMA SdPlaces ==
  ASSUME sdPc \in 1..31
  PROVE  /\ Len(Program) = 30
         /\ SdStep("source") => sdPc = 1
         /\ SdStep("busy") => sdPc = 2
         /\ SdStep("begin") => sdPc \in {3, 15, 20}
         /\ SdStep("ctrl0") => sdPc = 4
         /\ SdStep("end") => sdPc \in {5, 17, 22}
         /\ SdStep("dllReset") => sdPc \in {6, 24}
         /\ SdStep("dllLock") => sdPc \in {7, 25}
         /\ SdStep("dllOwn") => sdPc \in {8, 27}
         /\ SdStep("start") => sdPc = 9
         /\ SdStep("up") => sdPc = 10
         /\ SdStep("modes") => sdPc = 11
         /\ SdStep("size") => sdPc = 12
         /\ SdStep("standby") => sdPc = 13
         /\ SdStep("down") => sdPc = 14
         /\ SdStep("disable") => sdPc = 16
         /\ SdStep("pllStart") => sdPc = 18
         /\ SdStep("pllLock") => sdPc = 19
         /\ SdStep("ctrl4") => sdPc = 21
         /\ SdStep("timing") => sdPc = 23
         /\ SdStep("addrLock") => sdPc = 26
         /\ SdStep("restart") => sdPc = 28
         /\ SdStep("test") => sdPc = 29
         /\ SdStep("arena") => sdPc = 30
         /\ \A s : SdStep(s) => chip' = chip
  BY DEF SdStep, Program

(* Which commands are waited for, and which are special. *)
LEMMA ModePlaces ==
  ASSUME mrPc \in 1..9
  PROVE  /\ mrPc <= Len(MrProgram) <=> mrPc <= 8
         /\ mrPc <= 8 => (Command.wait <=> mrPc \notin {1, 6})
         /\ mrPc <= 8 => (Command.what = "phy" <=> mrPc = 4)
         /\ mrPc <= 8 => (Command.what = "calibrate" <=> mrPc = 5)
<1>1. Len(MrProgram) = 8
  BY DEF MrProgram
<1>2. CASE mrPc = 1
  <2>1. Command = ModeCommand("feature2", FALSE, FALSE)
    BY <1>2 DEF Command, MrProgram
  <2> QED
    BY <1>1, <1>2, <2>1 DEF ModeCommand
<1>3. CASE mrPc = 2
  <2>1. Command = ModeCommand("unknown", TRUE, TRUE)
    BY <1>3 DEF Command, MrProgram
  <2> QED
    BY <1>1, <1>3, <2>1 DEF ModeCommand
<1>4. CASE mrPc = 3
  <2>1. Command = ModeCommand("feature2", TRUE, TRUE)
    BY <1>4 DEF Command, MrProgram
  <2> QED
    BY <1>1, <1>4, <2>1 DEF ModeCommand
<1>5. CASE mrPc = 4
  <2>1. Command = ModeCommand("phy", TRUE, FALSE)
    BY <1>5 DEF Command, MrProgram
  <2> QED
    BY <1>1, <1>5, <2>1 DEF ModeCommand
<1>6. CASE mrPc = 5
  <2>1. Command = ModeCommand("calibrate", TRUE, FALSE)
    BY <1>6 DEF Command, MrProgram
  <2> QED
    BY <1>1, <1>6, <2>1 DEF ModeCommand
<1>7. CASE mrPc = 6
  <2>1. Command = ModeCommand("config", FALSE, FALSE)
    BY <1>7 DEF Command, MrProgram
  <2> QED
    BY <1>1, <1>7, <2>1 DEF ModeCommand
<1>8. CASE mrPc = 7
  <2>1. Command = ModeCommand("vendor", TRUE, TRUE)
    BY <1>8 DEF Command, MrProgram
  <2> QED
    BY <1>1, <1>8, <2>1 DEF ModeCommand
<1>9. CASE mrPc = 8
  <2>1. Command = ModeCommand("metrics", TRUE, TRUE)
    BY <1>9 DEF Command, MrProgram
  <2> QED
    BY <1>1, <1>9, <2>1 DEF ModeCommand
<1>10. CASE mrPc = 9
  BY <1>1, <1>10
<1> QED
  BY <1>2, <1>3, <1>4, <1>5, <1>6, <1>7, <1>8, <1>9, <1>10

(* The places that the self test goes through are in the memory. *)
LEMMA BelowBoth ==
  ASSUME NEW n \in Nat, NEW s, NEW t, Below(s, n), Below(t, n)
  PROVE  Below(s \o t, n)
  BY DEF Below

LEMMA PlacesInMemory ==
  ASSUME NEW size \in {128, 256, 512, 1024}
  PROVE  Below(Places(size), size)
<1>1. Below(IF size = 1024 THEN <<1023, 767>> ELSE <<>>, size)
  BY DEF Below
<1>2. Below(IF size >= 512 THEN <<511>> ELSE <<>>, size)
  BY DEF Below
<1>3. Below(IF size >= 256 THEN <<255>> ELSE <<>>, size)
  BY DEF Below
<1>4. Below(<<0>>, size)
  BY DEF Below
<1> QED
  BY <1>1, <1>2, <1>3, <1>4, BelowBoth DEF Places

LEMMA MrLength == Len(MrProgram) = 8
  BY DEF MrProgram

LEMMA SdSourceKeeps ==
  ASSUME SdInv, SdSource
  PROVE  SdInv'
<1>1. sdPc = 1 /\ chip' = chip
  BY SdPlaces DEF SdInv, SdPlace, SdSource
<1>2. SdUnits'
  BY <1>1 DEF SdInv, SdPlace, SdUnits, SdClock, SdSource, Forth, sdDriver, sdHard
<1>3. SdPlace' /\ SdData' /\ Agreed' /\ ControllerDown' /\ ModeDone' /\ Lines' /\ PllIsUp' /\
      SizeIsKnown' /\ Tested'
  BY <1>1 DEF SdInv, SdPlace, SdSource, Forth, sdDriver, sdHard, SdData, Agreed, SdUnits,
     SdClock, ControllerDown, ModeDone, Lines, PllIsUp, SizeIsKnown, Tested
<1> QED
  BY <1>2, <1>3 DEF SdInv

LEMMA SdBusyKeeps ==
  ASSUME SdInv, SdBusy
  PROVE  SdInv'
<1>1. sdPc = 2 /\ chip' = chip
  BY SdPlaces DEF SdInv, SdPlace, SdBusy, Await
<1>2. SdUnits'
  BY <1>1 DEF SdInv, SdPlace, SdUnits, SdBusy, Await, Forth, sdDriver, sdHard
<1>3. SdPlace' /\ SdData' /\ Agreed' /\ ControllerDown' /\ ModeDone' /\ Lines' /\ PllIsUp' /\
      SizeIsKnown' /\ Tested'
  BY <1>1 DEF SdInv, SdPlace, SdBusy, Await, Forth, sdDriver, sdHard, SdData, Agreed,
     ControllerDown, ModeDone, Lines, PllIsUp, SizeIsKnown, Tested
<1> QED
  BY <1>2, <1>3 DEF SdInv

LEMMA UpdateBeginKeeps ==
  ASSUME SdInv, UpdateBegin
  PROVE  SdInv'
<1>1. sdPc \in {3, 15, 20} /\ chip' = chip
  BY SdPlaces DEF SdInv, SdPlace, UpdateBegin
<1>2. SdUnits'
  BY <1>1 DEF SdInv, SdPlace, SdUnits, SdClock, UpdateBegin, Forth, sdDriver, sdHard
<1>3. SdPlace' /\ SdData'
  BY <1>1 DEF SdInv, SdPlace, UpdateBegin, Forth, sdDriver, sdHard, SdData
<1>4. Agreed' /\ ControllerDown'
  BY <1>1 DEF SdInv, SdPlace, Agreed, SdUnits, SdClock, UpdateBegin, Forth, sdDriver, sdHard,
     ControllerDown
<1>5. ModeDone' /\ Lines'
  BY <1>1 DEF SdInv, SdPlace, ModeDone, UpdateBegin, Forth, sdDriver, sdHard, Lines
<1>6. PllIsUp' /\ SizeIsKnown' /\ Tested'
  BY <1>1 DEF SdInv, SdPlace, PllIsUp, SdUnits, SdClock, UpdateBegin, Forth, sdDriver, sdHard,
     SizeIsKnown, Tested
<1> QED
  BY <1>2, <1>3, <1>4, <1>5, <1>6 DEF SdInv

LEMMA UpdateEndKeeps ==
  ASSUME SdInv, UpdateEnd
  PROVE  SdInv'
<1>1. sdPc \in {5, 17, 22} /\ chip' = chip
  BY SdPlaces DEF SdInv, SdPlace, UpdateEnd
<1>2. SdUnits'
  BY <1>1 DEF SdInv, SdPlace, SdUnits, SdClock, UpdateEnd, Forth, sdDriver, sdHard
<1>3. SdPlace' /\ SdData'
  BY <1>1 DEF SdInv, SdPlace, UpdateEnd, Forth, sdDriver, sdHard, SdData
<1>4. Agreed' /\ ControllerDown'
  BY <1>1 DEF SdInv, SdPlace, Agreed, SdUnits, SdClock, UpdateEnd, Forth, sdDriver, sdHard,
     ControllerDown
<1>5. ModeDone' /\ Lines'
  BY <1>1 DEF SdInv, SdPlace, ModeDone, UpdateEnd, Forth, sdDriver, sdHard, Lines
<1>6. PllIsUp' /\ SizeIsKnown' /\ Tested'
  BY <1>1 DEF SdInv, SdPlace, PllIsUp, SdUnits, SdClock, UpdateEnd, Forth, sdDriver, sdHard,
     SizeIsKnown, Tested
<1> QED
  BY <1>2, <1>3, <1>4, <1>5, <1>6 DEF SdInv

LEMMA InitClkmanKeeps ==
  ASSUME SdInv, InitClkman
  PROVE  SdInv'
<1>1. sdPc = 4 /\ chip' = chip
  BY SdPlaces DEF SdInv, SdPlace, InitClkman, SdCtrl
<1>2. SdUnits'
  BY <1>1 DEF SdInv, SdPlace, SdUnits, SdClock, InitClkman, SdCtrl, Forth, sdDriver, sdHard
<1>3. SdPlace' /\ SdData' /\ Agreed' /\ ControllerDown' /\ ModeDone' /\ Lines' /\ PllIsUp' /\
      SizeIsKnown' /\ Tested'
  BY <1>1 DEF SdInv, SdPlace, InitClkman, SdCtrl, Forth, sdDriver, sdHard, SdData, Agreed,
     SdUnits, SdClock, ControllerDown, ModeDone, Lines, PllIsUp, SizeIsKnown, Tested
<1> QED
  BY <1>2, <1>3 DEF SdInv

LEMMA CtrlDdrKeeps ==
  ASSUME SdInv, CtrlDdr
  PROVE  SdInv'
<1>1. sdPc = 21 /\ chip' = chip
  BY SdPlaces DEF SdInv, SdPlace, CtrlDdr, SdCtrl
<1>2. SdUnits'
  BY <1>1 DEF SdInv, SdPlace, SdUnits, SdClock, CtrlDdr, SdCtrl, Forth, sdDriver, sdHard
<1>3. SdPlace' /\ SdData' /\ Agreed' /\ ControllerDown' /\ ModeDone' /\ Lines' /\ PllIsUp' /\
      SizeIsKnown' /\ Tested'
  BY <1>1 DEF SdInv, SdPlace, CtrlDdr, SdCtrl, Forth, sdDriver, sdHard, SdData, Agreed, SdUnits,
     SdClock, ControllerDown, ModeDone, Lines, PllIsUp, SizeIsKnown, Tested
<1> QED
  BY <1>2, <1>3 DEF SdInv

LEMMA SdDisableKeeps ==
  ASSUME SdInv, SdDisable
  PROVE  SdInv'
<1>1. sdPc = 16 /\ chip' = chip
  BY SdPlaces DEF SdInv, SdPlace, SdDisable
<1>2. SdUnits'
  BY <1>1 DEF SdInv, SdPlace, SdUnits, SdClock, SdDisable, Forth, sdDriver, sdHard
<1>3. SdPlace' /\ SdData' /\ Agreed' /\ ControllerDown' /\ ModeDone' /\ Lines' /\ PllIsUp' /\
      SizeIsKnown' /\ Tested'
  BY <1>1 DEF SdInv, SdPlace, SdDisable, Forth, sdDriver, sdHard, SdData, Agreed, SdUnits,
     SdClock, ControllerDown, ModeDone, Lines, PllIsUp, SizeIsKnown, Tested
<1> QED
  BY <1>2, <1>3 DEF SdInv

LEMMA DdrStartKeeps ==
  ASSUME SdInv, DdrStart
  PROVE  SdInv'
<1>1. sdPc = 18 /\ chip' = chip
  BY SdPlaces DEF SdInv, SdPlace, DdrStart
<1>2. SdUnits'
  BY <1>1 DEF SdInv, SdPlace, SdUnits, DdrPll, DdrStart, Forth, sdDriver, sdHard
<1>3. SdPlace' /\ SdData' /\ Agreed' /\ ControllerDown' /\ ModeDone' /\ Lines' /\ PllIsUp' /\
      SizeIsKnown' /\ Tested'
  BY <1>1 DEF SdInv, SdPlace, DdrStart, Forth, sdDriver, sdHard, SdData, Agreed, ControllerDown,
     ModeDone, Lines, PllIsUp, SdUnits, DdrPll, SizeIsKnown, Tested
<1> QED
  BY <1>2, <1>3 DEF SdInv

LEMMA DdrLockedKeeps ==
  ASSUME SdInv, DdrLocked
  PROVE  SdInv'
<1>1. sdPc = 19 /\ chip' = chip
  BY SdPlaces DEF SdInv, SdPlace, DdrLocked
<1>2. SdUnits'
  BY <1>1 DEF SdInv, SdPlace, SdUnits, DdrPll, DdrLocked, Forth, sdDriver, sdHard
<1>3. SdPlace' /\ SdData' /\ Agreed' /\ ControllerDown' /\ ModeDone' /\ Lines' /\ PllIsUp' /\
      SizeIsKnown' /\ Tested'
  BY <1>1 DEF SdInv, SdPlace, DdrLocked, Forth, sdDriver, sdHard, SdData, Agreed,
     ControllerDown, ModeDone, Lines, PllIsUp, SdUnits, DdrPll, SizeIsKnown, Tested
<1> QED
  BY <1>2, <1>3 DEF SdInv

LEMMA DllResetKeeps ==
  ASSUME SdInv, DllReset
  PROVE  SdInv'
<1>1. sdPc \in {6, 24} /\ chip' = chip
  BY SdPlaces DEF SdInv, SdPlace, DllReset
<1>2. SdUnits'
  BY <1>1 DEF SdInv, SdPlace, SdUnits, SdPhy, DllReset, Forth, sdDriver, sdHard
<1>3. SdPlace' /\ SdData' /\ Agreed' /\ ControllerDown' /\ ModeDone' /\ Lines' /\ PllIsUp' /\
      SizeIsKnown' /\ Tested'
  BY <1>1 DEF SdInv, SdPlace, DllReset, Forth, sdDriver, sdHard, SdData, Agreed, ControllerDown,
     ModeDone, Lines, SdUnits, SdPhy, PllIsUp, SizeIsKnown, Tested
<1> QED
  BY <1>2, <1>3 DEF SdInv

LEMMA DllLockedKeeps ==
  ASSUME SdInv, DllLocked
  PROVE  SdInv'
<1>1. sdPc \in {7, 25} /\ chip' = chip
  BY SdPlaces DEF SdInv, SdPlace, DllLocked, Await
<1>2. SdUnits'
  BY <1>1 DEF SdInv, SdPlace, SdUnits, DllLocked, Await, Forth, sdDriver, sdHard
<1>3. SdPlace' /\ SdData' /\ Agreed' /\ ControllerDown' /\ ModeDone' /\ Lines' /\ PllIsUp' /\
      SizeIsKnown' /\ Tested'
  BY <1>1 DEF SdInv, SdPlace, DllLocked, Await, Forth, sdDriver, sdHard, SdData, Agreed,
     ControllerDown, ModeDone, Lines, PllIsUp, SizeIsKnown, Tested
<1> QED
  BY <1>2, <1>3 DEF SdInv

LEMMA AddrLockedKeeps ==
  ASSUME SdInv, AddrLocked
  PROVE  SdInv'
<1>1. sdPc = 26 /\ chip' = chip
  BY SdPlaces DEF SdInv, SdPlace, AddrLocked, Await
<1>2. SdUnits'
  BY <1>1 DEF SdInv, SdPlace, SdUnits, AddrLocked, Await, Forth, sdDriver, sdHard
<1>3. SdPlace' /\ SdData' /\ Agreed' /\ ControllerDown' /\ ModeDone' /\ Lines' /\ PllIsUp' /\
      SizeIsKnown' /\ Tested'
  BY <1>1 DEF SdInv, SdPlace, AddrLocked, Await, Forth, sdDriver, sdHard, SdData, Agreed,
     ControllerDown, ModeDone, Lines, PllIsUp, SizeIsKnown, Tested
<1> QED
  BY <1>2, <1>3 DEF SdInv

LEMMA DllDoneKeeps ==
  ASSUME SdInv, DllDone
  PROVE  SdInv'
<1>1. sdPc \in {8, 27} /\ chip' = chip
  BY SdPlaces DEF SdInv, SdPlace, DllDone
<1>2. SdUnits'
  BY <1>1 DEF SdInv, SdPlace, SdUnits, SdPhy, DllDone, Forth, sdDriver, sdHard
<1>3. SdPlace' /\ SdData'
  BY <1>1 DEF SdInv, SdPlace, DllDone, Forth, sdDriver, sdHard, SdData
<1>4. Agreed' /\ ControllerDown'
  BY <1>1 DEF SdInv, SdPlace, Agreed, DllDone, Forth, sdDriver, sdHard, ControllerDown
<1>5. ModeDone' /\ Lines'
  BY <1>1 DEF SdInv, SdPlace, ModeDone, DllDone, Forth, sdDriver, sdHard, Lines, SdUnits, SdPhy
<1>6. PllIsUp' /\ SizeIsKnown' /\ Tested'
  BY <1>1 DEF SdInv, SdPlace, PllIsUp, DllDone, Forth, sdDriver, sdHard, SizeIsKnown, Tested
<1> QED
  BY <1>2, <1>3, <1>4, <1>5, <1>6 DEF SdInv

LEMMA SdStartKeeps ==
  ASSUME SdInv, SdStart
  PROVE  SdInv'
<1>1. sdPc = 9 /\ chip' = chip
  BY SdPlaces DEF SdInv, SdPlace, SdStart
<1>2. SdUnits'
  BY <1>1 DEF SdInv, SdPlace, SdUnits, SdControl, SdStart, Forth, sdDriver, sdHard
<1>3. SdPlace' /\ SdData' /\ Agreed' /\ ControllerDown' /\ ModeDone' /\ Lines' /\ PllIsUp' /\
      SizeIsKnown' /\ Tested'
  BY <1>1 DEF SdInv, SdPlace, SdStart, Forth, sdDriver, sdHard, SdData, Agreed, ControllerDown,
     SdUnits, SdControl, ModeDone, Lines, PllIsUp, SizeIsKnown, Tested
<1> QED
  BY <1>2, <1>3 DEF SdInv

LEMMA SdUpKeeps ==
  ASSUME SdInv, SdUp
  PROVE  SdInv'
<1>1. sdPc = 10 /\ chip' = chip
  BY SdPlaces DEF SdInv, SdPlace, SdUp, Await
<1>2. SdUnits'
  BY <1>1 DEF SdInv, SdPlace, SdUnits, SdUp, Await, Forth, sdDriver, sdHard
<1>3. SdPlace' /\ SdData' /\ Agreed' /\ ControllerDown' /\ ModeDone' /\ Lines' /\ PllIsUp' /\
      SizeIsKnown' /\ Tested'
  BY <1>1 DEF SdInv, SdPlace, SdUp, Await, Forth, sdDriver, sdHard, SdData, Agreed,
     ControllerDown, ModeDone, Lines, PllIsUp, SizeIsKnown, Tested
<1> QED
  BY <1>2, <1>3 DEF SdInv

LEMMA SdStandbyKeeps ==
  ASSUME SdInv, SdStandby
  PROVE  SdInv'
<1>1. sdPc = 13 /\ chip' = chip
  BY SdPlaces DEF SdInv, SdPlace, SdStandby
<1>2. SdUnits'
  BY <1>1 DEF SdInv, SdPlace, SdUnits, SdControl, SdStandby, Forth, sdDriver, sdHard
<1>3. SdPlace' /\ SdData' /\ Agreed' /\ ControllerDown' /\ ModeDone' /\ Lines' /\ PllIsUp' /\
      SizeIsKnown' /\ Tested'
  BY <1>1 DEF SdInv, SdPlace, SdStandby, Forth, sdDriver, sdHard, SdData, Agreed,
     ControllerDown, SdUnits, SdControl, ModeDone, Lines, PllIsUp, SizeIsKnown, Tested
<1> QED
  BY <1>2, <1>3 DEF SdInv

LEMMA SdDownKeeps ==
  ASSUME SdInv, SdDown
  PROVE  SdInv'
<1>1. sdPc = 14 /\ chip' = chip
  BY SdPlaces DEF SdInv, SdPlace, SdDown, Await
<1>2. SdUnits'
  BY <1>1 DEF SdInv, SdPlace, SdUnits, SdDown, Await, Forth, sdDriver, sdHard
<1>3. SdPlace' /\ SdData' /\ Agreed' /\ ControllerDown' /\ ModeDone' /\ Lines' /\ PllIsUp' /\
      SizeIsKnown' /\ Tested'
  BY <1>1 DEF SdInv, SdPlace, SdDown, Await, Forth, sdDriver, sdHard, SdData, Agreed,
     ControllerDown, ModeDone, Lines, PllIsUp, SizeIsKnown, Tested
<1> QED
  BY <1>2, <1>3 DEF SdInv

LEMMA SdTimingKeeps ==
  ASSUME SdInv, SdTiming
  PROVE  SdInv'
<1>1. sdPc = 23 /\ chip' = chip
  BY SdPlaces DEF SdInv, SdPlace, SdTiming
<1>2. SdUnits'
  BY <1>1 DEF SdInv, SdPlace, SdUnits, SdTiming, Forth, sdDriver, sdHard
<1>3. SdPlace' /\ SdData' /\ Agreed' /\ ControllerDown' /\ ModeDone' /\ Lines' /\ PllIsUp' /\
      SizeIsKnown' /\ Tested'
  BY <1>1 DEF SdInv, SdPlace, SdTiming, Forth, sdDriver, sdHard, SdData, Agreed, ControllerDown,
     ModeDone, Lines, PllIsUp, SizeIsKnown, Tested
<1> QED
  BY <1>2, <1>3 DEF SdInv

LEMMA SdRestartKeeps ==
  ASSUME SdInv, SdRestart
  PROVE  SdInv'
<1>1. sdPc = 28 /\ chip' = chip
  BY SdPlaces DEF SdInv, SdPlace, SdRestart
<1>2. SdUnits'
  BY <1>1 DEF SdInv, SdPlace, SdUnits, SdControl, SdRestart, Forth, sdDriver, sdHard
<1>3. SdPlace' /\ SdData' /\ Agreed' /\ ControllerDown' /\ ModeDone' /\ Lines' /\ PllIsUp' /\
      SizeIsKnown' /\ Tested'
  BY <1>1 DEF SdInv, SdPlace, SdRestart, Forth, sdDriver, sdHard, SdData, Agreed,
     ControllerDown, SdUnits, SdControl, ModeDone, Lines, PllIsUp, SizeIsKnown, Tested
<1> QED
  BY <1>2, <1>3 DEF SdInv

LEMMA MrGiveKeeps ==
  ASSUME SdInv, MrGive
  PROVE  SdInv'
<1>1. sdPc = 11 /\ chip' = chip
  BY SdPlaces DEF SdInv, SdPlace, MrGive
<1>2. mrPc \in 1..8 /\ mr.at # mrPc /\ mrPc # 4 /\ (mrPc = 5 \/ mr.done) /\ (mrt' # mrt => mrPc = 5 /\ mrt' = "long")
  BY <1>1, ModePlaces DEF SdInv, SdPlace, MrGive, Given, MrIdle
<1>3. SdUnits'
  BY <1>1, <1>2, MrLength DEF SdInv, SdPlace, SdUnits, ModeRegister, MrGive, Given, MrIdle,
     Forth, sdDriver, sdHard
<1>4. SdPlace' /\ SdData' /\ Agreed' /\ ControllerDown' /\ ModeDone' /\ Lines' /\ PllIsUp' /\
      SizeIsKnown' /\ Tested'
  BY <1>1, <1>2 DEF SdInv, SdPlace, MrGive, Given, MrIdle, Forth, sdDriver, sdHard, SdData,
     Agreed, ControllerDown, ModeDone, SdUnits, ModeRegister, Lines, PllIsUp, SizeIsKnown,
     Tested
<1> QED
  BY <1>3, <1>4 DEF SdInv

LEMMA MrNextKeeps ==
  ASSUME SdInv, MrNext
  PROVE  SdInv'
<1>1. sdPc = 11 /\ chip' = chip
  BY SdPlaces DEF SdInv, SdPlace, MrNext
<1>2. mrPc \in 1..8 /\ mr.at = mrPc /\ (mrPc \notin {1, 6} => mr.done) /\ mrt' = IF mrPc = 5 THEN "short" ELSE mrt
  BY <1>1, ModePlaces DEF SdInv, SdPlace, MrNext, Given
<1>3. SdUnits'
  BY <1>1, <1>2 DEF SdInv, SdPlace, SdUnits, MrNext, Given, Panic, Forth, sdDriver, sdHard
<1>4. SdPlace' /\ SdData'
  BY <1>1, <1>2 DEF SdInv, SdPlace, MrNext, Given, Panic, Forth, sdDriver, sdHard, SdData
<1>5. Agreed' /\ ControllerDown'
  BY <1>1, <1>2 DEF SdInv, SdPlace, Agreed, MrNext, Given, Panic, Forth, sdDriver, sdHard,
     ControllerDown
<1>6. ModeDone' /\ Lines'
  BY <1>1, <1>2, MrLength DEF SdInv, SdPlace, ModeDone, SdUnits, ModeRegister, MrNext, Given,
     Panic, Forth, sdDriver, sdHard, Lines
<1>7. PllIsUp' /\ SizeIsKnown' /\ Tested'
  BY <1>1, <1>2 DEF SdInv, SdPlace, PllIsUp, MrNext, Given, Panic, Forth, sdDriver, sdHard,
     SizeIsKnown, Tested
<1> QED
  BY <1>3, <1>4, <1>5, <1>6, <1>7 DEF SdInv

LEMMA PhyCalibrateKeeps ==
  ASSUME SdInv, PhyCalibrate
  PROVE  SdInv'
<1>1. sdPc = 11 /\ chip' = chip
  BY SdPlaces DEF SdInv, SdPlace, PhyCalibrate
<1>2. mrPc = 4
  BY <1>1, ModePlaces DEF SdInv, SdPlace, PhyCalibrate
<1>3. SdUnits'
  BY <1>1, <1>2 DEF SdInv, SdPlace, SdUnits, SdPhy, PhyCalibrate, Forth, sdDriver, sdHard
<1>4. SdPlace' /\ SdData'
  BY <1>1, <1>2 DEF SdInv, SdPlace, PhyCalibrate, Forth, sdDriver, sdHard, SdData
<1>5. Agreed' /\ ControllerDown'
  BY <1>1, <1>2 DEF SdInv, SdPlace, Agreed, PhyCalibrate, Forth, sdDriver, sdHard,
     ControllerDown
<1>6. ModeDone' /\ Lines'
  BY <1>1, <1>2, MrLength DEF SdInv, SdPlace, ModeDone, SdUnits, ModeRegister, PhyCalibrate,
     Forth, sdDriver, sdHard, Lines, SdPhy
<1>7. PllIsUp' /\ SizeIsKnown' /\ Tested'
  BY <1>1, <1>2 DEF SdInv, SdPlace, PllIsUp, PhyCalibrate, Forth, sdDriver, sdHard, SizeIsKnown,
     Tested
<1> QED
  BY <1>3, <1>4, <1>5, <1>6, <1>7 DEF SdInv

LEMMA MrEndKeeps ==
  ASSUME SdInv, MrEnd
  PROVE  SdInv'
<1>1. sdPc = 11 /\ chip' = chip
  BY SdPlaces DEF SdInv, SdPlace, MrEnd
<1>2. mrPc = 9
  BY <1>1, ModePlaces DEF SdInv, SdPlace, MrEnd
<1>3. SdUnits'
  BY <1>1, <1>2 DEF SdInv, SdPlace, SdUnits, MrEnd, Forth, sdDriver, sdHard
<1>4. SdPlace' /\ SdData' /\ Agreed' /\ ControllerDown' /\ ModeDone' /\ Lines' /\ PllIsUp' /\
      SizeIsKnown' /\ Tested'
  BY <1>1, <1>2, MrLength DEF SdInv, SdPlace, MrEnd, Forth, sdDriver, sdHard, SdData, Agreed,
     ControllerDown, ModeDone, SdUnits, ModeRegister, Lines, PllIsUp, SizeIsKnown, Tested
<1> QED
  BY <1>3, <1>4 DEF SdInv

LEMMA SdSizeKeeps ==
  ASSUME SdInv, SdSize
  PROVE  SdInv'
<1>1. sdPc = 12 /\ chip' = chip
  BY SdPlaces DEF SdInv, SdPlace, SdSize
<1>2. SdUnits'
  BY <1>1 DEF SdInv, SdPlace, SdUnits, SdSize, KnownSize, Forth, sdDriver, sdHard
<1>3. SdPlace' /\ SdData'
  BY <1>1 DEF SdInv, SdPlace, SdSize, Forth, sdDriver, sdHard, SdData, KnownSize
<1>4. Agreed' /\ ControllerDown'
  BY <1>1 DEF SdInv, SdPlace, Agreed, SdSize, KnownSize, Forth, sdDriver, sdHard, ControllerDown
<1>5. ModeDone' /\ Lines'
  BY <1>1 DEF SdInv, SdPlace, ModeDone, SdSize, KnownSize, Forth, sdDriver, sdHard, Lines
<1>6. PllIsUp' /\ SizeIsKnown' /\ Tested'
  BY <1>1 DEF SdInv, SdPlace, PllIsUp, SdSize, KnownSize, Forth, sdDriver, sdHard, SizeIsKnown,
     Tested
<1> QED
  BY <1>2, <1>3, <1>4, <1>5, <1>6 DEF SdInv

LEMMA TestOneKeeps ==
  ASSUME SdInv, TestOne
  PROVE  SdInv'
<1>1. sdPc = 29 /\ chip' = chip
  BY SdPlaces DEF SdInv, SdPlace, TestOne
<1>2. SdUnits'
  BY <1>1 DEF SdInv, SdPlace, SdUnits, TestOne, Forth, sdDriver, sdHard
<1>3. SdPlace' /\ SdData' /\ Agreed' /\ ControllerDown' /\ ModeDone' /\ Lines' /\ PllIsUp' /\
      SizeIsKnown'
  BY <1>1 DEF SdInv, SdPlace, TestOne, Forth, sdDriver, sdHard, SdData, Agreed, ControllerDown,
     ModeDone, Lines, PllIsUp, SizeIsKnown
<1>4. Tested'
  <2>1. sdSize = chip /\ sdSize \in {128, 256, 512, 1024}
    BY <1>1 DEF SdInv, SizeIsKnown
  <2>2. Below(Places(sdSize), chip)
    BY <2>1, PlacesInMemory
  <2>3. Below(tested, chip)
    BY DEF SdInv, Tested
  <2>4. Len(tested) + 1 \in 1..Len(Places(sdSize))
    BY <2>2, <2>3 DEF TestOne, Below
  <2> DEFINE next == Places(sdSize)[Len(tested) + 1]
  <2>5. next \in Nat /\ next < chip
    BY <2>2, <2>4 DEF Below
  <2> HIDE DEF next
  <2>6. tested' = Append(tested, next)
    BY DEF TestOne, next
  <2>7. Below(tested', chip)
    BY <2>3, <2>5, <2>6 DEF Below
  <2>8. sdPc' = 29 /\ UNCHANGED <<arena, chip>>
    BY <1>1 DEF TestOne
  <2> QED
    BY <1>1, <2>7, <2>8 DEF SdInv, Tested
<1> QED
  BY <1>2, <1>3, <1>4 DEF SdInv

LEMMA TestEndKeeps ==
  ASSUME SdInv, TestEnd
  PROVE  SdInv'
<1>1. sdPc = 29 /\ chip' = chip
  BY SdPlaces DEF SdInv, SdPlace, TestEnd, Await
<1>2. SdUnits'
  BY <1>1 DEF SdInv, SdPlace, SdUnits, TestEnd, Await, Forth, sdDriver, sdHard
<1>3. SdPlace' /\ SdData' /\ Agreed' /\ ControllerDown' /\ ModeDone' /\ Lines' /\ PllIsUp' /\
      SizeIsKnown' /\ Tested'
  BY <1>1 DEF SdInv, SdPlace, TestEnd, Await, Forth, sdDriver, sdHard, SdData, Agreed,
     ControllerDown, ModeDone, Lines, PllIsUp, SizeIsKnown, Tested
<1> QED
  BY <1>2, <1>3 DEF SdInv

LEMMA AddArenaKeeps ==
  ASSUME SdInv, AddArena
  PROVE  SdInv'
<1>1. sdPc = 30 /\ chip' = chip
  BY SdPlaces DEF SdInv, SdPlace, AddArena
<1>2. SdUnits'
  BY <1>1 DEF SdInv, SdPlace, SdUnits, AddArena, Forth, sdDriver, sdHard
<1>3. SdPlace' /\ SdData' /\ Agreed' /\ ControllerDown' /\ ModeDone' /\ Lines' /\ PllIsUp' /\
      SizeIsKnown' /\ Tested'
  BY <1>1 DEF SdInv, SdPlace, AddArena, Forth, sdDriver, sdHard, SdData, Agreed, ControllerDown,
     ModeDone, Lines, PllIsUp, SizeIsKnown, Tested
<1> QED
  BY <1>2, <1>3 DEF SdInv

LEMMA CmAnswersKeeps ==
  ASSUME SdInv, CmAnswers
  PROVE  SdInv'
<1>1. SdUnits'
  BY DEF SdInv, SdPlace, SdUnits, SdClock, CmAnswers, Answers, sdDriver
<1>2. SdPlace' /\ SdData'
  BY DEF SdInv, SdPlace, CmAnswers, Answers, sdDriver, SdData
<1>3. Agreed' /\ ControllerDown'
  BY DEF SdInv, SdPlace, Agreed, SdUnits, SdClock, CmAnswers, Answers, sdDriver, ControllerDown
<1>4. ModeDone' /\ Lines'
  BY DEF SdInv, SdPlace, ModeDone, CmAnswers, Answers, sdDriver, Lines
<1>5. PllIsUp' /\ SizeIsKnown' /\ Tested'
  BY DEF SdInv, SdPlace, PllIsUp, SdUnits, SdClock, CmAnswers, Answers, sdDriver, SizeIsKnown,
     Tested
<1> QED
  BY <1>1, <1>2, <1>3, <1>4, <1>5 DEF SdInv

LEMMA SdcAnswersKeeps ==
  ASSUME SdInv, SdcAnswers
  PROVE  SdInv'
<1>1. SdUnits'
  BY DEF SdInv, SdPlace, SdUnits, SdControl, SdcAnswers, Answers, sdDriver
<1>2. SdPlace' /\ SdData' /\ Agreed' /\ ControllerDown' /\ ModeDone' /\ Lines' /\ PllIsUp' /\
      SizeIsKnown' /\ Tested'
  BY DEF SdInv, SdPlace, SdcAnswers, Answers, sdDriver, SdData, Agreed, ControllerDown, SdUnits,
     SdControl, ModeDone, Lines, PllIsUp, SizeIsKnown, Tested
<1> QED
  BY <1>1, <1>2 DEF SdInv

LEMMA DllsLockKeeps ==
  ASSUME SdInv, DllsLock
  PROVE  SdInv'
<1>1. SdUnits'
  BY DEF SdInv, SdPlace, SdUnits, SdPhy, DllsLock, Answers, sdDriver
<1>2. SdPlace' /\ SdData'
  BY DEF SdInv, SdPlace, DllsLock, Answers, sdDriver, SdData
<1>3. Agreed' /\ ControllerDown'
  BY DEF SdInv, SdPlace, Agreed, DllsLock, Answers, sdDriver, ControllerDown
<1>4. ModeDone' /\ Lines'
  BY DEF SdInv, SdPlace, ModeDone, DllsLock, Answers, sdDriver, Lines, SdUnits, SdPhy
<1>5. PllIsUp' /\ SizeIsKnown' /\ Tested'
  BY DEF SdInv, SdPlace, PllIsUp, DllsLock, Answers, sdDriver, SizeIsKnown, Tested
<1> QED
  BY <1>1, <1>2, <1>3, <1>4, <1>5 DEF SdInv

LEMMA PhyCalibratedKeeps ==
  ASSUME SdInv, PhyCalibrated
  PROVE  SdInv'
<1>1. SdUnits'
  BY DEF SdInv, SdPlace, SdUnits, SdPhy, PhyCalibrated, Answers, sdDriver
<1>2. SdPlace' /\ SdData' /\ Agreed' /\ ControllerDown' /\ ModeDone' /\ Lines' /\ PllIsUp' /\
      SizeIsKnown' /\ Tested'
  BY DEF SdInv, SdPlace, PhyCalibrated, Answers, sdDriver, SdData, Agreed, ControllerDown,
     ModeDone, Lines, SdUnits, SdPhy, PllIsUp, SizeIsKnown, Tested
<1> QED
  BY <1>1, <1>2 DEF SdInv

LEMMA DdrLocksKeeps ==
  ASSUME SdInv, DdrLocks
  PROVE  SdInv'
<1>1. SdUnits'
  BY DEF SdInv, SdPlace, SdUnits, DdrPll, DdrLocks, Answers, sdDriver
<1>2. SdPlace' /\ SdData' /\ Agreed' /\ ControllerDown' /\ ModeDone' /\ Lines' /\ PllIsUp' /\
      SizeIsKnown' /\ Tested'
  BY DEF SdInv, SdPlace, DdrLocks, Answers, sdDriver, SdData, Agreed, ControllerDown, ModeDone,
     Lines, PllIsUp, SdUnits, DdrPll, SizeIsKnown, Tested
<1> QED
  BY <1>1, <1>2 DEF SdInv

LEMMA MrAnswersKeeps ==
  ASSUME SdInv, MrAnswers
  PROVE  SdInv'
<1>1. SdUnits'
  BY MrLength DEF SdInv, SdPlace, SdUnits, ModeRegister, MrAnswers, Answers, sdDriver
<1>2. SdPlace' /\ SdData'
  BY DEF SdInv, SdPlace, MrAnswers, Answers, sdDriver, SdData
<1>3. Agreed' /\ ControllerDown'
  BY DEF SdInv, SdPlace, Agreed, MrAnswers, Answers, sdDriver, ControllerDown
<1>4. ModeDone' /\ Lines'
  BY DEF SdInv, SdPlace, ModeDone, SdUnits, ModeRegister, MrAnswers, Answers, sdDriver, Lines
<1>5. PllIsUp' /\ SizeIsKnown' /\ Tested'
  BY DEF SdInv, SdPlace, PllIsUp, MrAnswers, Answers, sdDriver, SizeIsKnown, Tested
<1> QED
  BY <1>1, <1>2, <1>3, <1>4, <1>5 DEF SdInv

LEMMA SdKeeps == SdInv /\ [Next]_boardVars => SdInv'
<1> SUFFICES ASSUME SdInv, [SdNext]_sdVars PROVE SdInv'
  BY SdramOrNot
<1>1. CASE UNCHANGED sdVars
  BY <1>1 DEF sdVars, sdDriver, sdHard, SdInv, SdPlace, SdData, SdUnits, Agreed, ControllerDown,
     ModeDone, Lines,
     PllIsUp, SizeIsKnown, Tested
<1>2. CASE SdDriver
  BY <1>2, SdSourceKeeps, SdBusyKeeps, UpdateBeginKeeps, UpdateEndKeeps,
     InitClkmanKeeps, CtrlDdrKeeps, SdDisableKeeps, DdrStartKeeps,
     DdrLockedKeeps, DllResetKeeps, DllLockedKeeps, AddrLockedKeeps,
     DllDoneKeeps, SdStartKeeps, SdUpKeeps, SdStandbyKeeps, SdDownKeeps,
     SdTimingKeeps, SdRestartKeeps, MrGiveKeeps, MrNextKeeps,
     PhyCalibrateKeeps, MrEndKeeps, SdSizeKeeps, TestOneKeeps, TestEndKeeps,
     AddArenaKeeps
     DEF SdDriver
<1>3. CASE SdHardware
  BY <1>3, CmAnswersKeeps, SdcAnswersKeeps, DllsLockKeeps, PhyCalibratedKeeps,
     DdrLocksKeeps, MrAnswersKeeps
     DEF SdHardware
<1> QED
  BY <1>1, <1>2, <1>3 DEF SdNext

LEMMA SdBegins == Init => SdInv
<1> SUFFICES ASSUME Init PROVE SdInv
  OBVIOUS
<1>1. SdUnits
  <2>1. cm \in SdClock
    <3>1. PICK c \in {0, 4} : cm = [update |-> FALSE, accpt |-> FALSE, ctrl |-> c, src |-> "gnd",
                                   enab |-> FALSE, busy |-> FALSE]
      BY DEF Init, SdInit
    <3> QED
      BY <3>1 DEF SdClock
  <2>2. sdc \in SdControl /\ phy \in SdPhy /\ ddr \in DdrPll
    BY DEF Init, SdInit, SdControl, SdPhy, DdrPll
  <2>3. mr \in ModeRegister
    BY MrLength DEF Init, SdInit, ModeRegister
  <2> QED
    BY <2>1, <2>2, <2>3 DEF SdUnits
<1>2. SdPlace /\ SdData /\ Tested
  BY SdramAssumption DEF Init, SdInit, SdPlace, SdData, Tested, Below
<1> QED
  BY <1>1, <1>2 DEF Init, SdInit, SdInv, Agreed, ControllerDown, ModeDone, Lines, PllIsUp,
     SizeIsKnown

(* What the steps of the driver change in the clock manager. *)
LEMMA QuietClock ==
  ASSUME SdInv, [SdNext]_sdVars
  PROVE  /\ cm'.ctrl # cm.ctrl => cm.update /\ cm.accpt
         /\ <<cm'.ctrl, cm'.src, cm'.enab, ddr'.reset>> # <<cm.ctrl, cm.src, cm.enab, ddr.reset>>
              => ~sdc.up
<1> DEFINE Same == cm'.ctrl = cm.ctrl /\ cm'.src = cm.src /\ cm'.enab = cm.enab /\ ddr'.reset = ddr.reset
<1>1. CASE SdSource
  <2>1. sdPc = 1 /\ cm'.ctrl = cm.ctrl
    BY <1>1, SdPlaces DEF SdSource, SdInv, SdPlace, SdUnits, SdClock
  <2> QED
    BY <2>1 DEF SdInv, ControllerDown
<1>2. CASE InitClkman \/ CtrlDdr \/ SdDisable
  <2>1. sdPc \in {4, 16, 21}
    BY <1>2, SdPlaces DEF InitClkman, CtrlDdr, SdCtrl, SdDisable, SdInv, SdPlace
  <2> QED
    BY <2>1 DEF SdInv, ControllerDown, Agreed
<1>3. CASE DdrStart
  <2>1. sdPc = 18 /\ cm' = cm
    BY <1>3, SdPlaces DEF DdrStart, SdInv, SdPlace
  <2> QED
    BY <2>1 DEF SdInv, ControllerDown
<1>4. CASE UpdateBegin \/ UpdateEnd \/ CmAnswers
  <2>1. Same
    BY <1>4 DEF UpdateBegin, UpdateEnd, CmAnswers, Answers, SdInv, SdUnits, SdClock
  <2> QED
    BY <2>1
<1>5. CASE DdrLocked \/ DdrLocks
  <2>1. Same
    BY <1>5 DEF DdrLocked, DdrLocks, Answers, SdInv, SdUnits, DdrPll
  <2> QED
    BY <2>1
<1>6. CASE UNCHANGED <<cm, ddr>>
  BY <1>6
<1> QED
  BY <1>1, <1>2, <1>3, <1>4, <1>5, <1>6 DEF SdNext, SdDriver, SdHardware, sdVars, sdHard, Await,
     Answers,
     SdBusy, DllReset, DllLocked, AddrLocked, DllDone, SdStart, SdUp,
     SdStandby, SdDown, SdTiming, SdRestart, MrGive, MrNext, PhyCalibrate,
     MrEnd, SdSize, TestOne, TestEnd, AddArena, SdcAnswers, DllsLock,
     PhyCalibrated, MrAnswers

LEMMA QuietCommands ==
  ASSUME SdInv, [SdNext]_sdVars, mr'.at # mr.at \/ mrt' # mrt \/ phy'.owner # phy.owner
  PROVE  mr.done
<1>1. CASE MrGive
  BY <1>1, SdPlaces, ModePlaces DEF MrGive, MrIdle, Given, SdInv, SdPlace, ModeDone
<1>2. CASE MrNext
  BY <1>2, SdPlaces, ModePlaces DEF MrNext, Given, SdInv, SdPlace
<1>3. CASE PhyCalibrate
  BY <1>3, SdPlaces, ModePlaces DEF PhyCalibrate, SdInv, SdPlace, ModeDone
<1>4. CASE DllReset \/ DllDone \/ SdStart \/ SdTiming
  BY <1>4, SdPlaces DEF DllReset, DllDone, SdStart, SdTiming, SdInv, SdPlace, ModeDone
<1>5. CASE PhyCalibrated
  BY <1>5 DEF PhyCalibrated, Answers, SdInv, SdPlace, ModeDone, Lines
<1>6. \/ mr'.at = mr.at /\ mrt' = mrt /\ phy'.owner = phy.owner
      \/ MrGive \/ MrNext \/ PhyCalibrate \/ DllReset \/ DllDone \/ SdStart \/ SdTiming \/ PhyCalibrated
  BY DEF SdNext, SdDriver, SdHardware, sdVars, sdHard, MrAnswers, DllsLock, SdInv, SdUnits,
     ModeRegister, SdPhy, Await, SdCtrl, Answers,
     SdSource, SdBusy, UpdateBegin, UpdateEnd, InitClkman, CtrlDdr, SdDisable,
     DdrStart, DdrLocked, DllLocked, AddrLocked, SdUp, SdStandby, SdDown,
     SdRestart, MrEnd, SdSize, TestOne, TestEnd, AddArena, CmAnswers,
     SdcAnswers, DdrLocks
<1> QED
  BY <1>1, <1>2, <1>3, <1>4, <1>5, <1>6

(* Nothing is changed under a unit at work, by any step of the board.      *)
THEOREM AlwaysQuietChanges == Spec => QuietChanges
<1>1. SdInv /\ [Next]_boardVars =>
        [/\ cm'.ctrl # cm.ctrl => cm.update /\ cm.accpt
         /\ <<cm'.ctrl, cm'.src, cm'.enab, ddr'.reset>> # <<cm.ctrl, cm.src, cm.enab, ddr.reset>>
              => ~sdc.up
         /\ mr'.at # mr.at \/ mrt' # mrt \/ phy'.owner # phy.owner => mr.done]_sdVars
  BY SdramOrNot, QuietClock, QuietCommands
<1> QED
  BY <1>1, SdBegins, SdKeeps, PTL DEF Spec, QuietChanges

(* Whichever memory is there, it is accessed only when it is ready, within *)
(* its size, and no more of it is given away than there is.                *)
THEOREM RamAlwaysIsReady == Spec => []RamIsReady
<1>1. SdInv => RamIsReady
  <2> SUFFICES ASSUME SdInv, tested # <<>> PROVE RamIsReady
    BY DEF RamIsReady
  <2>1. sdPc > 28 /\ \A i \in 1..Len(tested) : tested[i] < chip
    BY DEF SdInv, Tested, Below
  <2>2. ddr.lock /\ ddr.divider /\ cm.ctrl = 4
    BY <2>1 DEF SdInv, SdPlace, PllIsUp
  <2>3. phy = [owner |-> "controller", data |-> TRUE, addr |-> TRUE]
    BY <2>1 DEF SdInv, SdPlace, SdUnits, SdPhy, Lines
  <2>4. timing = Geometry(chip) /\ arena.upto <= chip
    BY <2>1 DEF SdInv, SdPlace, SizeIsKnown, Tested
  <2> QED
    BY <2>1, <2>2, <2>3, <2>4 DEF RamIsReady
<1> QED
  BY <1>1, SdBegins, SdKeeps, PTL DEF Spec

-----------------------------------------------------------------------------
(* I2C.                                                                    *)

(* The driver waits for the controller to send, or to receive; or neither. *)
InSend    == {"sendStarted", "fill"}
InReceive == {"recvStarted", "take"}
AtEnd     == {"end", "idle"}

(* The driver, the controller and the device. *)
I2cTypes ==
  /\ i2cPc \in {"send", "recv"} \cup InSend \cup InReceive \cup AtEnd
  /\ xfer \in Call /\ bus \in Bus /\ device \in Bytes

(* The bytes after the first n, in order. *)
Run(bytes, n) == \A i \in 1..Len(bytes) : bytes[i] = n + i

(* What has arrived, and what is in the FIFO, are the next bytes in order. *)
InOrder ==
  /\ Run(device, 0) /\ Run(xfer.buf, 0)
  /\ i2cPc \in InSend => Run(bus.fifo, Len(device))
  /\ i2cPc \in InReceive => Run(bus.fifo, Len(xfer.buf))

(* When the controller may be at work. *)
BusRests ==
  /\ ~(bus.starting /\ bus.ta)
  /\ Failed => ~bus.starting /\ ~bus.ta
  /\ bus.starting => i2cPc \in {"sendStarted", "recvStarted", "take"}
  /\ bus.ta => i2cPc \in InSend \cup InReceive \cup AtEnd
  /\ bus.ta /\ i2cPc \in AtEnd => bus.left = 0 /\ xfer.asked[1] > 0 /\ xfer.asked[2] > 0
  /\ i2cPc = "send" \/ (i2cPc = "recv" /\ xfer.recv > 0) => ~Failed

(* DONE, unless a send before has left it, is that of this transfer.       *)
DoneIsNew ==
  /\ i2cPc = "send" \/ (i2cPc = "recv" /\ xfer.recv > 0 /\ xfer.asked[1] = 0) => ~bus.done
  /\ i2cPc \in InSend /\ bus.done => ~bus.starting /\ ~bus.ta /\ (Failed \/ bus.left = 0)
  /\ i2cPc \in InReceive /\ xfer.asked[1] = 0 /\ bus.done => ~bus.starting /\ ~bus.ta
  /\ i2cPc \in InReceive /\ bus.starting => bus.left > 0

(* A byte to be sent is with the caller, in the FIFO or at the device.     *)
Sending ==
  /\ i2cPc \in {"send"} \cup InSend =>
       xfer.ret = 0 /\ xfer.recv = xfer.asked[2] /\ xfer.buf = <<>> /\ xfer.asked[1] > 0
  /\ i2cPc = "send" =>
       xfer.send = xfer.asked[1] /\ device = <<>> /\ bus.fifo = <<>>
  /\ i2cPc \in InSend =>
       /\ ~bus.read
       /\ Len(device) + bus.left = xfer.asked[1]
       /\ Len(device) + Len(bus.fifo) + xfer.send = xfer.asked[1]

(* All is sent, or the call has failed and receives nothing. *)
SentAll ==
  i2cPc = "recv" =>
    IF xfer.ret = 0
    THEN /\ xfer.recv = xfer.asked[2] /\ Len(device) = xfer.asked[1]
         /\ bus.fifo = <<>> /\ xfer.buf = <<>>
    ELSE xfer.recv = 0

(* A byte to be received is with the device, in the FIFO or in recvbuf.    *)
Receiving ==
  i2cPc \in InReceive =>
    /\ xfer.ret = 0 /\ xfer.asked[2] > 0 /\ Len(device) = xfer.asked[1]
    /\ bus.read
    /\ Len(xfer.buf) + Len(bus.fifo) + bus.left = xfer.asked[2]
    /\ Len(xfer.buf) + xfer.recv = xfer.asked[2]

(* At the end of a call that returns 0 all has been moved. *)
Moved ==
  i2cPc \in AtEnd /\ xfer.ret = 0 => Len(device) = xfer.asked[1] /\ Len(xfer.buf) = xfer.asked[2]

I2cInv == I2cTypes /\ InOrder /\ BusRests /\ DoneIsNew /\ Sending /\ SentAll /\ Receiving /\ Moved

(* I2C: who sets the rate, or does anything else, leaves a transfer alone. *)
LEMMA I2cOrNot ==
  [Next]_boardVars => Xfer \/ I2cDriver \/ Controller \/ UNCHANGED <<i2cPc, xfer, bus, device>>
  BY DEF Next, boardVars, i2cVars, BoardClocks, BoardClockHardware, BoardSdram,
     BoardSdramHardware,
     BoardArm, BoardUsb, BoardDomains, BoardOtp, BoardOtpHardware, BoardPins, BoardPinHardware,
     BoardPinsByArm, BoardI2c, BoardI2cHardware, SetRate, Quiet

LEMMA EmptyRun ==
  ASSUME NEW n \in Nat
  PROVE  <<>> \in Bytes /\ Len(<<>>) = 0 /\ Run(<<>>, n)
  BY DEF Bytes, Run

LEMMA RunAppended ==
  ASSUME NEW n \in Nat, NEW bytes \in Bytes, Run(bytes, n), NEW byte, byte = n + Len(bytes) + 1
  PROVE  /\ Append(bytes, byte) \in Bytes /\ Run(Append(bytes, byte), n)
         /\ Len(Append(bytes, byte)) = Len(bytes) + 1
  BY DEF Bytes, Run

LEMMA RunTaken ==
  ASSUME NEW n \in Nat, NEW bytes \in Bytes, Run(bytes, n), bytes # <<>>
  PROVE  /\ Head(bytes) = n + 1 /\ Tail(bytes) \in Bytes /\ Run(Tail(bytes), n + 1)
         /\ Len(bytes) > 0 /\ Len(Tail(bytes)) = Len(bytes) - 1
  BY DEF Bytes, Run

LEMMA Lengths == \A bytes \in Bytes : Len(bytes) \in Nat
  BY DEF Bytes

LEMMA Amounts ==
  I2cInv =>
    /\ bus.fifo \in Bytes /\ device \in Bytes /\ xfer.buf \in Bytes
    /\ {bus.left, xfer.asked[1], xfer.asked[2], xfer.send, xfer.recv} \subseteq Nat
    /\ Len(bus.fifo) \in Nat /\ Len(device) \in Nat /\ Len(xfer.buf) \in Nat
<1> SUFFICES ASSUME I2cInv
             PROVE  /\ bus.fifo \in Bytes /\ device \in Bytes /\ xfer.buf \in Bytes
                    /\ {bus.left, xfer.asked[1], xfer.asked[2], xfer.send, xfer.recv} \subseteq Nat
  BY Lengths
<1> QED
  BY DEF I2cInv, I2cTypes, Bus, Call

LEMMA XferKeeps ==
  ASSUME I2cInv, Xfer
  PROVE  I2cInv'
<1>1. i2cPc = "idle" /\ i2cPc' = (IF xfer'.asked[1] > 0 THEN "send" ELSE "recv") /\ device' = <<>>
  BY DEF Xfer, Cleared, FifoCleared
<1>2. /\ xfer'.send = xfer'.asked[1] /\ xfer'.recv = xfer'.asked[2] /\ xfer'.ret = 0
      /\ xfer'.buf = <<>>
  BY DEF Xfer, Cleared, FifoCleared, I2cInv, I2cTypes, Call
<1>3. /\ bus'.starting = bus.starting /\ bus'.ta = bus.ta /\ bus'.read = bus.read
      /\ bus'.left = bus.left /\ bus'.fifo = <<>> /\ bus'.done = FALSE /\ bus'.err = FALSE
      /\ bus'.clkt = FALSE
  BY DEF Xfer, Cleared, FifoCleared, I2cInv, I2cTypes, Bus
<1>4. I2cTypes'
  <2>1. bus \in Bus /\ xfer \in Call /\ device \in Bytes
    BY DEF I2cInv, I2cTypes
  <2>2. bus' \in Bus
    BY <1>3, <2>1, EmptyRun DEF Xfer, Cleared, FifoCleared, Bus
  <2>3. xfer' \in Call
    BY <2>1, I2cAssumption DEF Xfer, Call, Bytes
  <2> QED
    BY <1>1, <2>1, <2>2, <2>3 DEF I2cInv, I2cTypes, InSend, InReceive, AtEnd, Bytes
<1>5. InOrder' /\ BusRests' /\ DoneIsNew' /\ Sending' /\ Receiving' /\ Moved'
  BY <1>1, <1>2, EmptyRun, <1>3 DEF InOrder, InSend, InReceive, I2cInv, I2cTypes, BusRests,
     AtEnd, Failed, Xfer, DoneIsNew, Sending, Receiving, Moved
<1>6. SentAll'
  <2>1. xfer'.asked[1] \in Nat
    BY <1>4 DEF I2cTypes, Call
  <2> QED
    BY <1>1, <1>2, <1>3, <2>1, EmptyRun DEF SentAll
<1> QED
  BY <1>4, <1>5, <1>6 DEF I2cInv

LEMMA SendStartKeeps ==
  ASSUME I2cInv, SendStart
  PROVE  I2cInv'
<1>1. i2cPc = "send" /\ i2cPc' = "sendStarted" /\ device' = device
  BY DEF SendStart, At, Start, I2cDrivers
<1>2. /\ xfer' = xfer
  BY DEF SendStart, At, Start, I2cInv, I2cTypes, Call
<1>3. /\ bus'.starting = TRUE /\ bus'.ta = bus.ta /\ bus'.read = FALSE /\ bus'.left = xfer.send
      /\ bus'.fifo = bus.fifo /\ bus'.done = bus.done /\ bus'.err = bus.err
      /\ bus'.clkt = bus.clkt
  BY DEF SendStart, At, Start, I2cInv, I2cTypes, Bus
<1>4. I2cTypes'
  <2>1. bus \in Bus /\ xfer \in Call /\ device \in Bytes
    BY DEF I2cInv, I2cTypes
  <2>2. bus'.left \in Nat
    BY <1>1, <1>2, <1>3, <2>1 DEF SendStart, Bus, Call, Bytes
  <2>3. bus' \in Bus
    BY <1>3, <2>1, <2>2 DEF SendStart, Start, Bus, Bytes
  <2>4. xfer' \in Call
    BY <1>2, <2>1
  <2> QED
    BY <1>1, <2>1, <2>2, <2>3, <2>4 DEF I2cInv, I2cTypes, InSend, InReceive, AtEnd, Bytes
<1>5. BusRests' /\ DoneIsNew' /\ SentAll' /\ Receiving' /\ Moved'
  BY <1>1, <1>2, <1>3 DEF I2cInv, I2cTypes, BusRests, InSend, InReceive, AtEnd, Failed,
     SendStart, DoneIsNew, SentAll, Receiving, Moved
<1>6. InOrder'
  <2>1. bus.fifo = <<>> /\ device = <<>>
    BY <1>1 DEF I2cInv, Sending
  <2> QED
    BY <1>1, <1>2, <1>3, <2>1, EmptyRun DEF I2cInv, InOrder, InSend, InReceive
<1>7. Sending'
  BY <1>1, <1>2, <1>3, Amounts, EmptyRun DEF I2cInv, Sending, InSend
<1> QED
  BY <1>4, <1>5, <1>6, <1>7 DEF I2cInv

LEMMA SendActiveKeeps ==
  ASSUME I2cInv, SendActive
  PROVE  I2cInv'
<1>1. i2cPc = "sendStarted" /\ i2cPc' = "fill" /\ device' = device
  BY DEF SendActive, At, I2cDrivers
<1>2. /\ xfer' = xfer
  BY DEF SendActive, At, I2cInv, I2cTypes, Call
<1>3. /\ bus' = bus
  BY DEF SendActive, At, I2cInv, I2cTypes, Bus
<1>4. I2cTypes'
  <2>1. bus \in Bus /\ xfer \in Call /\ device \in Bytes
    BY DEF I2cInv, I2cTypes
  <2>2. bus' \in Bus
    BY <1>3, <2>1
  <2>3. xfer' \in Call
    BY <1>2, <2>1
  <2> QED
    BY <1>1, <2>1, <2>2, <2>3 DEF I2cInv, I2cTypes, InSend, InReceive, AtEnd, Bytes
<1>5. InOrder' /\ BusRests' /\ DoneIsNew' /\ Sending' /\ SentAll' /\ Receiving' /\ Moved'
  BY <1>1, <1>2, <1>3 DEF I2cInv, I2cTypes, InOrder, InSend, InReceive, AtEnd, SendActive,
     BusRests, Failed, DoneIsNew, Sending, SentAll, Receiving, Moved
<1> QED
  BY <1>4, <1>5 DEF I2cInv

LEMMA FillKeeps ==
  ASSUME I2cInv, Fill
  PROVE  I2cInv'
<1>1. i2cPc = "fill" /\ i2cPc' = "fill" /\ device' = device
  BY DEF Fill, At, Txd, I2cDrivers
<1>2. /\ xfer'.send = xfer.send - 1 /\ xfer'.recv = xfer.recv /\ xfer'.asked = xfer.asked
      /\ xfer'.ret = xfer.ret /\ xfer'.buf = xfer.buf
  BY DEF Fill, At, Txd, I2cInv, I2cTypes, Call
<1>3. /\ bus'.starting = bus.starting /\ bus'.ta = bus.ta /\ bus'.read = bus.read
      /\ bus'.left = bus.left /\ bus'.fifo = Append(bus.fifo, xfer.asked[1] - xfer.send + 1)
      /\ bus'.done = bus.done /\ bus'.err = bus.err /\ bus'.clkt = bus.clkt
  BY DEF Fill, At, Txd, I2cInv, I2cTypes, Bus
<1>4. I2cTypes'
  <2>1. bus \in Bus /\ xfer \in Call /\ device \in Bytes
    BY DEF I2cInv, I2cTypes
  <2>2. bus'.fifo \in Bytes
    BY <1>1, <1>2, <1>3, <2>1 DEF Fill, Bus, Call, Bytes, I2cInv, Sending, Receiving, InSend,
       InReceive
  <2>3. xfer'.send \in Nat
    <3>1. xfer.send \in Nat /\ xfer.send > 0
      BY <2>1 DEF Fill, Call
    <3> QED
      BY <1>2, <3>1
  <2>4. bus' \in Bus
    BY <1>3, <2>1, <2>2, <2>3 DEF Fill, Bus, Bytes
  <2>5. xfer' \in Call
    BY <2>1, <2>2, <2>3 DEF Fill, Call, Bytes
  <2> QED
    BY <1>1, <2>1, <2>2, <2>3, <2>4, <2>5 DEF I2cInv, I2cTypes, InSend, InReceive, AtEnd, Bytes
<1>5. BusRests' /\ DoneIsNew' /\ SentAll' /\ Receiving' /\ Moved'
  BY <1>1, <1>2, <1>3 DEF I2cInv, I2cTypes, BusRests, InSend, InReceive, AtEnd, Failed, Fill,
     DoneIsNew, SentAll, Receiving, Moved
<1>6. InOrder'
  <2>1. xfer.asked[1] - xfer.send + 1 = Len(device) + Len(bus.fifo) + 1
    BY <1>1, Amounts DEF I2cInv, Sending, InSend
  <2>2. Run(bus.fifo, Len(device))
    BY <1>1 DEF I2cInv, InOrder, InSend
  <2>3. Run(bus'.fifo, Len(device)) /\ Len(bus'.fifo) = Len(bus.fifo) + 1
    <3> DEFINE byte == xfer.asked[1] - xfer.send + 1
    <3>1. bus'.fifo = Append(bus.fifo, byte) /\ byte = Len(device) + Len(bus.fifo) + 1
      BY <1>3, <2>1
    <3>2. Len(device) \in Nat /\ bus.fifo \in Bytes /\ Run(bus.fifo, Len(device))
      BY Amounts, <2>2
    <3> DEFINE before == Len(device)
    <3> HIDE DEF byte, before
    <3>3. /\ byte = before + Len(bus.fifo) + 1 /\ before \in Nat
          /\ Run(bus.fifo, before)
      BY <3>1, <3>2 DEF before
    <3>4. Run(Append(bus.fifo, byte), before) /\ Len(Append(bus.fifo, byte)) = Len(bus.fifo) + 1
      BY <3>2, <3>3, RunAppended
    <3> QED
      BY <3>1, <3>4 DEF before
  <2> QED
    BY <1>1, <1>2, <2>3 DEF I2cInv, InOrder, InReceive
<1>7. Sending'
  <2>1. Len(bus'.fifo) = Len(bus.fifo) + 1 /\ xfer.send > 0
    BY <1>3, Amounts DEF Bytes, Fill
  <2> QED
    BY <1>1, <1>2, <1>3, Amounts, <2>1 DEF I2cInv, Sending, InSend
<1> QED
  BY <1>4, <1>5, <1>6, <1>7 DEF I2cInv

LEMMA FillFailsKeeps ==
  ASSUME I2cInv, FillFails
  PROVE  I2cInv'
<1>1. i2cPc = "fill" /\ i2cPc' = "idle" /\ device' = device
  BY DEF FillFails, At, Cleared, I2cDrivers
<1>2. /\ xfer'.send = xfer.send /\ xfer'.recv = xfer.recv /\ xfer'.asked = xfer.asked
      /\ xfer'.ret = 1 /\ xfer'.buf = xfer.buf
  BY DEF FillFails, At, Cleared, I2cInv, I2cTypes, Call
<1>3. /\ bus'.starting = bus.starting /\ bus'.ta = bus.ta /\ bus'.read = bus.read
      /\ bus'.left = bus.left /\ bus'.fifo = bus.fifo /\ bus'.done = FALSE /\ bus'.err = FALSE
      /\ bus'.clkt = FALSE
  BY DEF FillFails, At, Cleared, I2cInv, I2cTypes, Bus
<1>4. I2cTypes'
  <2>1. bus \in Bus /\ xfer \in Call /\ device \in Bytes
    BY DEF I2cInv, I2cTypes
  <2>2. bus' \in Bus
    BY <1>3, <2>1 DEF FillFails, Cleared, Bus, Bytes
  <2>3. xfer' \in Call
    BY <2>1 DEF FillFails, Call, Bytes
  <2> QED
    BY <1>1, <2>1, <2>2, <2>3 DEF I2cInv, I2cTypes, InSend, InReceive, AtEnd, Bytes
<1>5. InOrder' /\ BusRests' /\ DoneIsNew' /\ Sending' /\ SentAll' /\ Receiving' /\ Moved'
  BY <1>1, <1>2, <1>3 DEF I2cInv, I2cTypes, InOrder, InSend, InReceive, AtEnd, FillFails,
     BusRests, Failed, DoneIsNew, Sending, SentAll, Receiving, Moved
<1> QED
  BY <1>4, <1>5 DEF I2cInv

LEMMA SentKeeps ==
  ASSUME I2cInv, Sent
  PROVE  I2cInv'
<1>1. i2cPc = "fill" /\ i2cPc' = "recv" /\ device' = device
  BY DEF Sent, At, I2cDrivers
<1>2. /\ xfer' = xfer
  BY DEF Sent, At, I2cInv, I2cTypes, Call
<1>3. /\ bus' = bus
  BY DEF Sent, At, I2cInv, I2cTypes, Bus
<1>4. I2cTypes'
  <2>1. bus \in Bus /\ xfer \in Call /\ device \in Bytes
    BY DEF I2cInv, I2cTypes
  <2>2. bus' \in Bus
    BY <1>3, <2>1
  <2>3. xfer' \in Call
    BY <1>2, <2>1
  <2> QED
    BY <1>1, <2>1, <2>2, <2>3 DEF I2cInv, I2cTypes, InSend, InReceive, AtEnd, Bytes
<1>5. InOrder' /\ BusRests' /\ DoneIsNew' /\ Sending' /\ Receiving' /\ Moved'
  BY <1>1, <1>2, <1>3 DEF I2cInv, I2cTypes, InOrder, InSend, InReceive, AtEnd, Sent, BusRests,
     DoneIsNew, Failed, Sending, Receiving, Moved
<1>6. SentAll'
  <2>1. bus.done /\ ~Failed /\ xfer.send = 0
    BY DEF Sent
  <2>2. bus.left = 0
    BY <1>1, <2>1 DEF I2cInv, DoneIsNew, InSend
  <2>3. Len(device) = xfer.asked[1] /\ Len(bus.fifo) = 0
    BY <1>1, Amounts, <2>1, <2>2 DEF I2cInv, Sending, InSend
  <2>4. bus.fifo = <<>>
    BY Amounts, <2>3 DEF Bytes
  <2> QED
    BY <1>1, <1>2, <1>3, <2>3, <2>4 DEF I2cInv, Sending, SentAll, InSend
<1> QED
  BY <1>4, <1>5, <1>6 DEF I2cInv

LEMMA SendFailsKeeps ==
  ASSUME I2cInv, SendFails
  PROVE  I2cInv'
<1>1. i2cPc = "fill" /\ i2cPc' = "recv" /\ device' = device
  BY DEF SendFails, At, I2cDrivers
<1>2. /\ xfer'.send = xfer.send /\ xfer'.recv = 0 /\ xfer'.asked = xfer.asked /\ xfer'.ret = 1
      /\ xfer'.buf = xfer.buf
  BY DEF SendFails, At, I2cInv, I2cTypes, Call
<1>3. /\ bus' = bus
  BY DEF SendFails, At, I2cInv, I2cTypes, Bus
<1>4. I2cTypes'
  <2>1. bus \in Bus /\ xfer \in Call /\ device \in Bytes
    BY DEF I2cInv, I2cTypes
  <2>2. bus' \in Bus
    BY <1>3, <2>1
  <2>3. xfer' \in Call
    BY <2>1 DEF SendFails, Call, Bytes
  <2> QED
    BY <1>1, <2>1, <2>2, <2>3 DEF I2cInv, I2cTypes, InSend, InReceive, AtEnd, Bytes
<1>5. InOrder' /\ BusRests' /\ DoneIsNew' /\ Sending' /\ SentAll' /\ Receiving' /\ Moved'
  BY <1>1, <1>2, <1>3 DEF I2cInv, I2cTypes, InOrder, InSend, InReceive, AtEnd, SendFails,
     BusRests, Failed, DoneIsNew, Sending, SentAll, Receiving, Moved
<1> QED
  BY <1>4, <1>5 DEF I2cInv

LEMMA NothingToReceiveKeeps ==
  ASSUME I2cInv, NothingToReceive
  PROVE  I2cInv'
<1>1. i2cPc = "recv" /\ i2cPc' = "end" /\ device' = device
  BY DEF NothingToReceive, At, I2cDrivers
<1>2. /\ xfer' = xfer
  BY DEF NothingToReceive, At, I2cInv, I2cTypes, Call
<1>3. /\ bus' = bus
  BY DEF NothingToReceive, At, I2cInv, I2cTypes, Bus
<1>4. I2cTypes'
  <2>1. bus \in Bus /\ xfer \in Call /\ device \in Bytes
    BY DEF I2cInv, I2cTypes
  <2>2. bus' \in Bus
    BY <1>3, <2>1
  <2>3. xfer' \in Call
    BY <1>2, <2>1
  <2> QED
    BY <1>1, <2>1, <2>2, <2>3 DEF I2cInv, I2cTypes, InSend, InReceive, AtEnd, Bytes
<1>5. InOrder' /\ BusRests' /\ DoneIsNew' /\ Sending' /\ SentAll' /\ Receiving' /\ Moved'
  BY <1>1, <1>2, <1>3 DEF I2cInv, I2cTypes, InOrder, InSend, InReceive, AtEnd, NothingToReceive,
     BusRests, Failed, DoneIsNew, Sending, SentAll, Receiving, Moved
<1> QED
  BY <1>4, <1>5 DEF I2cInv

LEMMA ReceiveStartKeeps ==
  ASSUME I2cInv, ReceiveStart
  PROVE  I2cInv'
<1>1. i2cPc = "recv" /\ i2cPc' = "recvStarted" /\ device' = device
  BY DEF ReceiveStart, At, Start, I2cDrivers
<1>2. /\ xfer' = xfer
  BY DEF ReceiveStart, At, Start, I2cInv, I2cTypes, Call
<1>3. /\ bus'.starting = TRUE /\ bus'.ta = bus.ta /\ bus'.read = TRUE /\ bus'.left = xfer.recv
      /\ bus'.fifo = bus.fifo /\ bus'.done = bus.done /\ bus'.err = bus.err
      /\ bus'.clkt = bus.clkt
  BY DEF ReceiveStart, At, Start, I2cInv, I2cTypes, Bus
<1>4. I2cTypes'
  <2>1. bus \in Bus /\ xfer \in Call /\ device \in Bytes
    BY DEF I2cInv, I2cTypes
  <2>2. bus'.left \in Nat
    BY <1>1, <1>2, <1>3, <2>1 DEF ReceiveStart, Bus, Call, Bytes
  <2>3. bus' \in Bus
    BY <1>3, <2>1, <2>2 DEF ReceiveStart, Start, Bus, Bytes
  <2>4. xfer' \in Call
    BY <1>2, <2>1
  <2> QED
    BY <1>1, <2>1, <2>2, <2>3, <2>4 DEF I2cInv, I2cTypes, InSend, InReceive, AtEnd, Bytes
<1>5. BusRests' /\ DoneIsNew' /\ Sending' /\ SentAll' /\ Moved'
  BY <1>1, <1>2, <1>3 DEF I2cInv, I2cTypes, BusRests, InSend, InReceive, AtEnd, Failed,
     ReceiveStart, DoneIsNew, Sending, SentAll, Moved
<1>6. InOrder'
  <2>1. bus.fifo = <<>> /\ xfer.buf = <<>>
    BY <1>1 DEF ReceiveStart, I2cInv, I2cTypes, Call, SentAll
  <2> QED
    BY <1>1, <1>2, <1>3, <2>1, EmptyRun DEF I2cInv, InOrder, InSend, InReceive
<1>7. Receiving'
  <2>1. xfer.recv > 0
    BY DEF ReceiveStart
  <2>2. xfer.ret = 0 /\ xfer.recv = xfer.asked[2] /\ Len(device) = xfer.asked[1] /\ bus.fifo = <<>> /\ xfer.buf = <<>>
    BY <1>1, Amounts, <2>1 DEF I2cInv, SentAll
  <2> QED
    BY <1>1, <1>2, <1>3, Amounts, <2>1, <2>2, EmptyRun DEF Receiving
<1> QED
  BY <1>4, <1>5, <1>6, <1>7 DEF I2cInv

LEMMA ReceiveActiveKeeps ==
  ASSUME I2cInv, ReceiveActive
  PROVE  I2cInv'
<1>1. i2cPc = "recvStarted" /\ i2cPc' = "take" /\ device' = device
  BY DEF ReceiveActive, At, I2cDrivers
<1>2. /\ xfer' = xfer
  BY DEF ReceiveActive, At, I2cInv, I2cTypes, Call
<1>3. /\ bus' = bus
  BY DEF ReceiveActive, At, I2cInv, I2cTypes, Bus
<1>4. I2cTypes'
  <2>1. bus \in Bus /\ xfer \in Call /\ device \in Bytes
    BY DEF I2cInv, I2cTypes
  <2>2. bus' \in Bus
    BY <1>3, <2>1
  <2>3. xfer' \in Call
    BY <1>2, <2>1
  <2> QED
    BY <1>1, <2>1, <2>2, <2>3 DEF I2cInv, I2cTypes, InSend, InReceive, AtEnd, Bytes
<1>5. InOrder' /\ BusRests' /\ DoneIsNew' /\ Sending' /\ SentAll' /\ Receiving' /\ Moved'
  BY <1>1, <1>2, <1>3 DEF I2cInv, I2cTypes, InOrder, InSend, InReceive, AtEnd, ReceiveActive,
     BusRests, Failed, DoneIsNew, Sending, SentAll, Receiving, Moved
<1> QED
  BY <1>4, <1>5 DEF I2cInv

LEMMA TakeKeeps ==
  ASSUME I2cInv, Take
  PROVE  I2cInv'
<1>1. i2cPc = "take" /\ i2cPc' = "take" /\ device' = device
  BY DEF Take, At, I2cDrivers
<1>2. /\ xfer'.send = xfer.send /\ xfer'.recv = xfer.recv - 1 /\ xfer'.asked = xfer.asked
      /\ xfer'.ret = xfer.ret /\ xfer'.buf = Append(xfer.buf, Head(bus.fifo))
  BY DEF Take, At, I2cInv, I2cTypes, Call
<1>3. /\ bus'.starting = bus.starting /\ bus'.ta = bus.ta /\ bus'.read = bus.read
      /\ bus'.left = bus.left /\ bus'.fifo = Tail(bus.fifo) /\ bus'.done = bus.done
      /\ bus'.err = bus.err /\ bus'.clkt = bus.clkt
  BY DEF Take, At, I2cInv, I2cTypes, Bus
<1>4. I2cTypes'
  <2>1. bus \in Bus /\ xfer \in Call /\ device \in Bytes
    BY DEF I2cInv, I2cTypes
  <2>2. bus'.fifo \in Bytes
    BY <1>1, <1>2, <1>3, <2>1 DEF Take, Bus, Call, Bytes
  <2>3. xfer'.buf \in Bytes
    BY <1>1, <1>2, <1>3, <2>1 DEF Take, Bus, Call, Bytes
  <2>4. xfer'.recv \in Nat
    BY <1>1, <1>2, <1>3, <2>1 DEF Take, Bus, Call, Bytes
  <2>5. bus' \in Bus
    BY <1>3, <2>1, <2>2, <2>3, <2>4 DEF Take, Bus, Bytes
  <2>6. xfer' \in Call
    BY <2>1, <2>2, <2>3, <2>4 DEF Take, Call, Bytes
  <2> QED
    BY <1>1, <2>1, <2>2, <2>3, <2>4, <2>5, <2>6 DEF I2cInv, I2cTypes, InSend, InReceive, AtEnd,
       Bytes
<1>5. BusRests' /\ DoneIsNew' /\ Sending' /\ SentAll' /\ Moved'
  BY <1>1, <1>2, <1>3 DEF I2cInv, I2cTypes, BusRests, InSend, InReceive, AtEnd, Failed, Take,
     DoneIsNew, Sending, SentAll, Moved
<1>6. InOrder'
  <2>1. bus.fifo # <<>> /\ Run(bus.fifo, Len(xfer.buf)) /\ Run(xfer.buf, 0)
    BY <1>1 DEF Take, I2cInv, InOrder, InReceive
  <2>2. Head(bus.fifo) = Len(xfer.buf) + 1 /\ Run(bus'.fifo, Len(xfer.buf) + 1)
    BY <1>3, Amounts, <2>1, RunTaken
  <2>3. Run(xfer'.buf, 0) /\ Len(xfer'.buf) = Len(xfer.buf) + 1
    BY <1>2, Amounts, <2>1, <2>2, RunAppended
  <2>4. Run(bus'.fifo, Len(xfer'.buf))
    BY <2>2, <2>3
  <2> QED
    BY <1>1, <2>3, <2>4 DEF I2cInv, InOrder, InSend
<1>7. Receiving'
  <2>1. bus.fifo # <<>> /\ xfer.recv > 0
    BY DEF Take
  <2>2. Len(bus'.fifo) = Len(bus.fifo) - 1 /\ Len(bus.fifo) > 0 /\ Len(xfer'.buf) = Len(xfer.buf) + 1
    BY <1>2, <1>3, Amounts, <2>1 DEF Bytes
  <2>3. /\ xfer.ret = 0 /\ xfer.asked[2] > 0 /\ Len(device) = xfer.asked[1] /\ bus.read
        /\ Len(xfer.buf) + xfer.recv = xfer.asked[2]
        /\ Len(xfer.buf) + Len(bus.fifo) + bus.left = xfer.asked[2]
    BY <1>1 DEF I2cInv, Receiving, InReceive
  <2>4. bus'.left = bus.left /\ xfer'.recv = xfer.recv - 1
    BY <1>2, <1>3
  <2>5. Len(xfer'.buf) + xfer'.recv = xfer.asked[2]
    BY Amounts, <2>2, <2>3, <2>4
  <2>6. Len(xfer'.buf) + Len(bus'.fifo) + bus'.left = xfer.asked[2]
    <3> DEFINE b == Len(xfer.buf)
                f == Len(bus.fifo)
                l == bus.left
                a == xfer.asked[2]
                bb == Len(xfer'.buf)
                ff == Len(bus'.fifo)
                ll == bus'.left
    <3>1. /\ b \in Nat /\ f \in Nat /\ l \in Nat /\ a \in Nat
          /\ b + f + l = a
          /\ ff = f - 1 /\ bb = b + 1 /\ ll = l
      BY Amounts, <2>2, <2>3, <2>4
    <3> HIDE DEF b, f, l, a, bb, ff, ll
    <3>2. bb + ff + ll = a
      BY <3>1
    <3> QED
      BY <3>2 DEF b, f, l, a, bb, ff, ll
  <2> QED
    BY <1>1, <1>2, <1>3, <2>3, <2>5, <2>6 DEF Receiving
<1> QED
  BY <1>4, <1>5, <1>6, <1>7 DEF I2cInv

LEMMA ReceivedKeeps ==
  ASSUME I2cInv, Received
  PROVE  I2cInv'
<1>1. i2cPc = "take" /\ i2cPc' = "end" /\ device' = device
  BY DEF Received, At, I2cDrivers
<1>2. /\ xfer' = xfer
  BY DEF Received, At, I2cInv, I2cTypes, Call
<1>3. /\ bus' = bus
  BY DEF Received, At, I2cInv, I2cTypes, Bus
<1>4. I2cTypes'
  <2>1. bus \in Bus /\ xfer \in Call /\ device \in Bytes
    BY DEF I2cInv, I2cTypes
  <2>2. bus' \in Bus
    BY <1>3, <2>1
  <2>3. xfer' \in Call
    BY <1>2, <2>1
  <2> QED
    BY <1>1, <2>1, <2>2, <2>3 DEF I2cInv, I2cTypes, InSend, InReceive, AtEnd, Bytes
<1>5. InOrder' /\ DoneIsNew' /\ Sending' /\ SentAll' /\ Receiving' /\ Moved'
  BY <1>1, <1>2, <1>3 DEF I2cInv, I2cTypes, InOrder, InSend, InReceive, AtEnd, Received,
     DoneIsNew, BusRests, Failed, Sending, SentAll, Receiving, Moved
<1>6. BusRests'
  <2>1. xfer.asked[2] > 0 /\ bus.left = 0 /\ bus.done
    BY <1>1 DEF Received, I2cInv, Receiving, InReceive
  <2>2. bus.starting => FALSE
    BY <1>1, <2>1 DEF I2cInv, DoneIsNew, InReceive
  <2>3. bus.ta => xfer.asked[1] > 0
    BY <1>1, <2>1 DEF I2cInv, I2cTypes, Call, DoneIsNew, InReceive
  <2> QED
    BY <1>1, <1>2, <1>3, <2>1, <2>2, <2>3 DEF I2cInv, BusRests, InSend, InReceive, AtEnd, Failed
<1> QED
  BY <1>4, <1>5, <1>6 DEF I2cInv

LEMMA ReceiveFailsKeeps ==
  ASSUME I2cInv, ReceiveFails
  PROVE  I2cInv'
<1>1. i2cPc = "take" /\ i2cPc' = "end" /\ device' = device
  BY DEF ReceiveFails, At, I2cDrivers
<1>2. /\ xfer'.send = xfer.send /\ xfer'.recv = xfer.recv /\ xfer'.asked = xfer.asked
      /\ xfer'.ret = 1 /\ xfer'.buf = xfer.buf
  BY DEF ReceiveFails, At, I2cInv, I2cTypes, Call
<1>3. /\ bus' = bus
  BY DEF ReceiveFails, At, I2cInv, I2cTypes, Bus
<1>4. I2cTypes'
  <2>1. bus \in Bus /\ xfer \in Call /\ device \in Bytes
    BY DEF I2cInv, I2cTypes
  <2>2. bus' \in Bus
    BY <1>3, <2>1
  <2>3. xfer' \in Call
    BY <2>1 DEF ReceiveFails, Call, Bytes
  <2> QED
    BY <1>1, <2>1, <2>2, <2>3 DEF I2cInv, I2cTypes, InSend, InReceive, AtEnd, Bytes
<1>5. InOrder' /\ BusRests' /\ DoneIsNew' /\ Sending' /\ SentAll' /\ Receiving' /\ Moved'
  BY <1>1, <1>2, <1>3 DEF I2cInv, I2cTypes, InOrder, InSend, InReceive, AtEnd, ReceiveFails,
     BusRests, Failed, DoneIsNew, Sending, SentAll, Receiving, Moved
<1> QED
  BY <1>4, <1>5 DEF I2cInv

LEMMA XferEndKeeps ==
  ASSUME I2cInv, XferEnd
  PROVE  I2cInv'
<1>1. i2cPc = "end" /\ i2cPc' = "idle" /\ device' = device
  BY DEF XferEnd, At, Cleared, FifoCleared, I2cDrivers
<1>2. /\ xfer' = xfer
  BY DEF XferEnd, At, Cleared, FifoCleared, I2cInv, I2cTypes, Call
<1>3. /\ bus'.starting = bus.starting /\ bus'.ta = bus.ta /\ bus'.read = bus.read
      /\ bus'.left = bus.left /\ bus'.fifo = <<>> /\ bus'.done = FALSE /\ bus'.err = FALSE
      /\ bus'.clkt = FALSE
  BY DEF XferEnd, At, Cleared, FifoCleared, I2cInv, I2cTypes, Bus
<1>4. I2cTypes'
  <2>1. bus \in Bus /\ xfer \in Call /\ device \in Bytes
    BY DEF I2cInv, I2cTypes
  <2>2. bus' \in Bus
    BY <1>3, <2>1, EmptyRun DEF XferEnd, Cleared, FifoCleared, Bus
  <2>3. xfer' \in Call
    BY <1>2, <2>1
  <2> QED
    BY <1>1, <2>1, <2>2, <2>3 DEF I2cInv, I2cTypes, InSend, InReceive, AtEnd, Bytes
<1>5. InOrder' /\ BusRests' /\ DoneIsNew' /\ Sending' /\ SentAll' /\ Receiving' /\ Moved'
  BY <1>1, <1>2, <1>3 DEF I2cInv, I2cTypes, InOrder, InSend, InReceive, AtEnd, XferEnd,
     BusRests, Failed, DoneIsNew, Sending, SentAll, Receiving, Moved
<1> QED
  BY <1>4, <1>5 DEF I2cInv

LEMMA BusStartsKeeps ==
  ASSUME I2cInv, BusStarts
  PROVE  I2cInv'
<1>1. i2cPc' = i2cPc /\ device' = device
  BY DEF BusStarts, ByHardware
<1>2. /\ xfer' = xfer
  BY DEF BusStarts, ByHardware, I2cInv, I2cTypes, Call
<1>3. /\ bus'.starting = FALSE /\ bus'.ta = TRUE /\ bus'.read = bus.read
      /\ bus'.left = bus.left /\ bus'.fifo = bus.fifo /\ bus'.done = bus.done
      /\ bus'.err = bus.err /\ bus'.clkt = bus.clkt
  BY DEF BusStarts, ByHardware, I2cInv, I2cTypes, Bus
<1>4. I2cTypes'
  <2>1. bus \in Bus /\ xfer \in Call /\ device \in Bytes
    BY DEF I2cInv, I2cTypes
  <2>2. bus' \in Bus
    BY <1>3, <2>1 DEF BusStarts, Bus, Bytes
  <2>3. xfer' \in Call
    BY <1>2, <2>1
  <2> QED
    BY <1>1, <2>1, <2>2, <2>3 DEF I2cInv, I2cTypes, InSend, InReceive, AtEnd, Bytes
<1>5. InOrder' /\ BusRests' /\ DoneIsNew' /\ Sending' /\ SentAll' /\ Receiving' /\ Moved'
  BY <1>1, <1>2, <1>3 DEF I2cInv, I2cTypes, InOrder, InSend, InReceive, AtEnd, BusStarts,
     BusRests, Failed, DoneIsNew, Sending, SentAll, Receiving, Moved
<1> QED
  BY <1>4, <1>5 DEF I2cInv

LEMMA BusSendsWhen ==
  I2cInv /\ BusSends => i2cPc \in InSend
<1> SUFFICES ASSUME I2cInv, BusSends PROVE i2cPc \in InSend
  OBVIOUS
<1>1. bus.ta /\ ~bus.read /\ bus.left > 0
  BY DEF BusSends
<1>2. i2cPc \in InReceive => bus.read
  BY DEF I2cInv, Receiving
<1>3. i2cPc \in InSend \cup InReceive \cup AtEnd /\ (i2cPc \in AtEnd => bus.left = 0)
  BY <1>1 DEF I2cInv, BusRests
<1> QED
  BY Amounts, <1>1, <1>2, <1>3

LEMMA BusSendsKeeps ==
  ASSUME I2cInv, BusSends
  PROVE  I2cInv'
<1>1. i2cPc' = i2cPc /\ device' = Append(device, Head(bus.fifo))
  BY DEF BusSends, ByHardware
<1>2. /\ xfer' = xfer
  BY DEF BusSends, ByHardware, I2cInv, I2cTypes, Call
<1>3. /\ bus'.starting = bus.starting /\ bus'.ta = bus.ta /\ bus'.read = bus.read
      /\ bus'.left = bus.left - 1 /\ bus'.fifo = Tail(bus.fifo) /\ bus'.done = bus.done
      /\ bus'.err = bus.err /\ bus'.clkt = bus.clkt
  BY DEF BusSends, ByHardware, I2cInv, I2cTypes, Bus
<1>4. I2cTypes'
  <2>1. bus \in Bus /\ xfer \in Call /\ device \in Bytes
    BY DEF I2cInv, I2cTypes
  <2>2. bus'.fifo \in Bytes
    BY <1>1, <1>2, <1>3, <2>1 DEF BusSends, Bus, Call, Bytes, I2cInv, Sending, Receiving,
       InSend, InReceive
  <2>3. bus'.left \in Nat
    BY <1>1, <1>2, <1>3, <2>1 DEF BusSends, Bus, Call, Bytes, I2cInv, Sending, Receiving,
       InSend, InReceive
  <2>4. device' \in Bytes
    BY <1>1, <1>2, <1>3, <2>1 DEF BusSends, Bus, Call, Bytes, I2cInv, Sending, Receiving,
       InSend, InReceive
  <2>5. bus' \in Bus
    BY <1>3, <2>1, <2>2, <2>3, <2>4 DEF BusSends, Bus, Bytes
  <2>6. xfer' \in Call
    BY <1>2, <2>1
  <2> QED
    BY <1>1, <2>1, <2>2, <2>3, <2>4, <2>5, <2>6 DEF I2cInv, I2cTypes, InSend, InReceive, AtEnd,
       Bytes
<1>5. BusRests'
  BY <1>1, <1>2, <1>3 DEF I2cInv, I2cTypes, BusRests, InSend, InReceive, AtEnd, Failed, BusSends
<1>6. DoneIsNew'
  BY <1>1, <1>2, <1>3 DEF I2cInv, I2cTypes, DoneIsNew, BusRests, InSend, InReceive, AtEnd,
     Failed, BusSends
<1>7. SentAll'
  BY <1>1, <1>2, <1>3 DEF I2cInv, I2cTypes, SentAll, InSend, InReceive, AtEnd, BusSends
<1>8. Receiving'
  BY <1>1, <1>2, <1>3 DEF I2cInv, I2cTypes, Receiving, InSend, InReceive, AtEnd, BusSends
<1>9. Moved'
  BY <1>1, <1>2, <1>3 DEF I2cInv, I2cTypes, Moved, BusRests, InSend, InReceive, AtEnd, BusSends
<1>10. InOrder'
  <2>1. i2cPc \in InSend
    BY BusSendsWhen
  <2>2. bus.fifo # <<>> /\ Run(bus.fifo, Len(device)) /\ Run(device, 0)
    BY <2>1 DEF BusSends, I2cInv, InOrder
  <2>3. Head(bus.fifo) = Len(device) + 1 /\ Run(bus'.fifo, Len(device) + 1)
    BY <1>3, Amounts, <2>2, RunTaken
  <2>4. Run(device', 0) /\ Len(device') = Len(device) + 1
    BY <1>1, Amounts, <2>2, <2>3, RunAppended
  <2>5. Run(bus'.fifo, Len(device'))
    BY <2>3, <2>4
  <2> QED
    BY <1>1, <1>2, <2>1, <2>4, <2>5 DEF I2cInv, InOrder, InSend, InReceive
<1>11. Sending'
  <2>1. i2cPc \in InSend
    BY BusSendsWhen
  <2>2. bus.fifo # <<>> /\ bus.left > 0
    BY DEF BusSends
  <2>3. Len(bus'.fifo) = Len(bus.fifo) - 1 /\ Len(bus.fifo) > 0 /\ Len(device') = Len(device) + 1
    BY <1>1, <1>3, Amounts, <2>2 DEF Bytes
  <2>4. /\ xfer.ret = 0 /\ xfer.recv = xfer.asked[2] /\ xfer.buf = <<>> /\ xfer.asked[1] > 0
        /\ ~bus.read
        /\ Len(device) + bus.left = xfer.asked[1]
        /\ Len(device) + Len(bus.fifo) + xfer.send = xfer.asked[1]
    BY <2>1 DEF I2cInv, Sending
  <2>5. bus'.left = bus.left - 1
    BY <1>3
  <2>6. Len(device') + bus'.left = xfer.asked[1] /\ Len(device') + Len(bus'.fifo) + xfer.send = xfer.asked[1]
    <3> DEFINE d == Len(device)
                f == Len(bus.fifo)
                l == bus.left
                s == xfer.send
                a == xfer.asked[1]
                dd == Len(device')
                ff == Len(bus'.fifo)
                ll == bus'.left
    <3>1. /\ d \in Nat /\ f \in Nat /\ l \in Nat /\ a \in Nat /\ s \in Nat
          /\ d + l = a /\ d + f + s = a /\ dd = d + 1 /\ ff = f - 1 /\ ll = l - 1
      BY Amounts, <2>3, <2>4, <2>5
    <3> HIDE DEF d, f, l, s, a, dd, ff, ll
    <3>2. dd + ll = a /\ dd + ff + s = a
      BY <3>1
    <3> QED
      BY <3>2 DEF d, f, l, s, a, dd, ff, ll
  <2> QED
    BY <1>1, <1>2, <1>3, <2>1, <2>4, <2>6 DEF Sending, InSend
<1> QED
  BY <1>4, <1>5, <1>6, <1>7, <1>8, <1>9, <1>10, <1>11 DEF I2cInv

LEMMA BusReceivesWhen ==
  I2cInv /\ BusReceives => i2cPc \in InReceive
<1> SUFFICES ASSUME I2cInv, BusReceives PROVE i2cPc \in InReceive
  OBVIOUS
<1>1. bus.ta /\ bus.read /\ bus.left > 0
  BY DEF BusReceives
<1>2. i2cPc \in InSend => ~bus.read
  BY DEF I2cInv, Sending
<1>3. i2cPc \in InSend \cup InReceive \cup AtEnd /\ (i2cPc \in AtEnd => bus.left = 0)
  BY <1>1 DEF I2cInv, BusRests
<1> QED
  BY Amounts, <1>1, <1>2, <1>3

LEMMA BusReceivesKeeps ==
  ASSUME I2cInv, BusReceives
  PROVE  I2cInv'
<1>1. i2cPc' = i2cPc /\ device' = device
  BY DEF BusReceives, ByHardware
<1>2. /\ xfer' = xfer
  BY DEF BusReceives, ByHardware, I2cInv, I2cTypes, Call
<1>3. /\ bus'.starting = bus.starting /\ bus'.ta = bus.ta /\ bus'.read = bus.read
      /\ bus'.left = bus.left - 1 /\ bus'.fifo = Append(bus.fifo, xfer.asked[2] - bus.left + 1)
      /\ bus'.done = bus.done /\ bus'.err = bus.err /\ bus'.clkt = bus.clkt
  BY DEF BusReceives, ByHardware, I2cInv, I2cTypes, Bus
<1>4. I2cTypes'
  <2>1. bus \in Bus /\ xfer \in Call /\ device \in Bytes
    BY DEF I2cInv, I2cTypes
  <2>2. bus'.fifo \in Bytes
    <3>1. i2cPc \in InReceive
      BY DEF BusReceives, I2cInv, BusRests, Sending, AtEnd
    <3>2. bus.fifo \in Bytes /\ xfer.asked[2] - bus.left + 1 \in Nat
      BY <2>1, <3>1, Lengths DEF Bus, Call, I2cInv, Receiving
    <3> QED
      BY <1>3, <3>2 DEF Bytes
  <2>3. bus'.left \in Nat
    BY <1>1, <1>2, <1>3, <2>1 DEF BusReceives, Bus, Call, Bytes, I2cInv, Sending, Receiving,
       InSend, InReceive
  <2>4. bus' \in Bus
    BY <1>3, <2>1, <2>2, <2>3 DEF BusReceives, Bus, Bytes
  <2>5. xfer' \in Call
    BY <1>2, <2>1
  <2> QED
    BY <1>1, <2>1, <2>2, <2>3, <2>4, <2>5 DEF I2cInv, I2cTypes, InSend, InReceive, AtEnd, Bytes
<1>5. BusRests' /\ DoneIsNew' /\ Moved'
  BY <1>1, <1>2, <1>3 DEF I2cInv, I2cTypes, BusRests, InSend, InReceive, AtEnd, Failed,
     BusReceives, DoneIsNew, Moved
<1>6. InOrder'
  <2>1. i2cPc \in InReceive
    BY BusReceivesWhen
  <2>2. xfer.asked[2] - bus.left + 1 = Len(xfer.buf) + Len(bus.fifo) + 1
    <3> DEFINE b == Len(xfer.buf)
                f == Len(bus.fifo)
                l == bus.left
                a == xfer.asked[2]
    <3>1. b \in Nat /\ f \in Nat /\ l \in Nat /\ a \in Nat /\ b + f + l = a
      BY Amounts, <2>1 DEF I2cInv, Receiving
    <3> HIDE DEF b, f, l, a
    <3>2. a - l + 1 = b + f + 1
      BY <3>1
    <3> QED
      BY <3>2 DEF b, f, l, a
  <2>3. Run(bus.fifo, Len(xfer.buf))
    BY <2>1 DEF I2cInv, InOrder
  <2>4. Run(bus'.fifo, Len(xfer.buf))
    <3> DEFINE byte == xfer.asked[2] - bus.left + 1
    <3>1. bus'.fifo = Append(bus.fifo, byte) /\ byte = Len(xfer.buf) + Len(bus.fifo) + 1
      BY <1>3, <2>2
    <3>2. Len(xfer.buf) \in Nat /\ bus.fifo \in Bytes /\ Run(bus.fifo, Len(xfer.buf))
      BY Amounts, <2>3
    <3> DEFINE before == Len(xfer.buf)
    <3> HIDE DEF byte, before
    <3>3. /\ byte = before + Len(bus.fifo) + 1 /\ before \in Nat
          /\ Run(bus.fifo, before)
      BY <3>1, <3>2 DEF before
    <3>4. Run(Append(bus.fifo, byte), before) /\ Len(Append(bus.fifo, byte)) = Len(bus.fifo) + 1
      BY <3>2, <3>3, RunAppended
    <3> QED
      BY <3>1, <3>4 DEF before
  <2> QED
    BY <1>1, <1>2, <2>1, <2>4 DEF I2cInv, InOrder, InSend, InReceive
<1>7. Sending'
  <2>1. i2cPc \in InReceive
    BY BusReceivesWhen
  <2> QED
    BY <1>1, <2>1 DEF Sending, InReceive, InSend
<1>8. SentAll'
  <2>1. i2cPc \in InReceive
    BY BusReceivesWhen
  <2> QED
    BY <1>1, <2>1 DEF SentAll, InReceive
<1>9. Receiving'
  <2>1. bus.left > 0 /\ Len(bus'.fifo) = Len(bus.fifo) + 1
    BY <1>3, Amounts DEF BusReceives, Bytes
  <2>2. i2cPc \in InReceive
    BY BusReceivesWhen
  <2>3. /\ xfer.ret = 0 /\ xfer.asked[2] > 0 /\ Len(device) = xfer.asked[1] /\ bus.read
        /\ Len(xfer.buf) + xfer.recv = xfer.asked[2]
        /\ Len(xfer.buf) + Len(bus.fifo) + bus.left = xfer.asked[2]
    BY <2>2 DEF I2cInv, Receiving
  <2>4. bus'.left = bus.left - 1
    BY <1>3
  <2>5. Len(xfer.buf) + Len(bus'.fifo) + bus'.left = xfer.asked[2]
    <3> DEFINE b == Len(xfer.buf)
                f == Len(bus.fifo)
                l == bus.left
                a == xfer.asked[2]
                ff == Len(bus'.fifo)
                ll == bus'.left
    <3>1. /\ b \in Nat /\ f \in Nat /\ l \in Nat /\ a \in Nat
          /\ b + f + l = a
          /\ ff = f + 1 /\ ll = l - 1
      BY Amounts, <2>1, <2>3, <2>4
    <3> HIDE DEF b, f, l, a, ff, ll
    <3>2. b + ff + ll = a
      BY <3>1
    <3> QED
      BY <3>2 DEF b, f, l, a, ff, ll
  <2> QED
    BY <1>1, <1>2, <1>3, <2>3, <2>5 DEF Receiving
<1> QED
  BY <1>4, <1>5, <1>6, <1>7, <1>8, <1>9 DEF I2cInv

LEMMA BusEndsKeeps ==
  ASSUME I2cInv, BusEnds
  PROVE  I2cInv'
<1>1. i2cPc' = i2cPc /\ device' = device
  BY DEF BusEnds, ByHardware
<1>2. /\ xfer' = xfer
  BY DEF BusEnds, ByHardware, I2cInv, I2cTypes, Call
<1>3. /\ bus'.starting = bus.starting /\ bus'.ta = FALSE /\ bus'.read = bus.read
      /\ bus'.left = bus.left /\ bus'.fifo = bus.fifo /\ bus'.done = TRUE /\ bus'.err = bus.err
      /\ bus'.clkt = bus.clkt
  BY DEF BusEnds, ByHardware, I2cInv, I2cTypes, Bus
<1>4. I2cTypes'
  <2>1. bus \in Bus /\ xfer \in Call /\ device \in Bytes
    BY DEF I2cInv, I2cTypes
  <2>2. bus' \in Bus
    BY <1>3, <2>1 DEF BusEnds, Bus, Bytes
  <2>3. xfer' \in Call
    BY <1>2, <2>1
  <2> QED
    BY <1>1, <2>1, <2>2, <2>3 DEF I2cInv, I2cTypes, InSend, InReceive, AtEnd, Bytes
<1>5. InOrder' /\ BusRests' /\ DoneIsNew' /\ Sending' /\ SentAll' /\ Receiving' /\ Moved'
  BY <1>1, <1>2, <1>3 DEF I2cInv, I2cTypes, InOrder, InSend, InReceive, AtEnd, BusEnds,
     BusRests, Failed, DoneIsNew, Sending, SentAll, Receiving, Moved
<1> QED
  BY <1>4, <1>5 DEF I2cInv

LEMMA BusFailsKeeps ==
  ASSUME I2cInv, BusFails
  PROVE  I2cInv'
<1>1. i2cPc' = i2cPc /\ device' = device
  BY DEF BusFails, ByHardware
<1>2. /\ xfer' = xfer
  BY DEF BusFails, ByHardware, I2cInv, I2cTypes, Call
<1>3. /\ bus'.starting = bus.starting /\ bus'.ta = FALSE /\ bus'.read = bus.read
      /\ bus'.left = bus.left /\ bus'.fifo = bus.fifo /\ bus.done => bus'.done
      /\ bus'.err \/ bus'.clkt
  BY DEF BusFails, ByHardware, I2cInv, I2cTypes, Bus
<1>4. I2cTypes'
  <2>1. bus \in Bus /\ xfer \in Call /\ device \in Bytes
    BY DEF I2cInv, I2cTypes
  <2>2. bus' \in Bus
    BY <1>3, <2>1 DEF BusFails, Bus, Bytes
  <2>3. xfer' \in Call
    BY <1>2, <2>1
  <2> QED
    BY <1>1, <2>1, <2>2, <2>3 DEF I2cInv, I2cTypes, InSend, InReceive, AtEnd, Bytes
<1>5. InOrder' /\ BusRests' /\ DoneIsNew' /\ Sending' /\ SentAll' /\ Moved'
  BY <1>1, <1>2, <1>3 DEF I2cInv, I2cTypes, InOrder, InSend, InReceive, AtEnd, BusFails,
     BusRests, Failed, DoneIsNew, Sending, SentAll, Moved
<1>6. Receiving'
  <2>1. bus'.fifo = bus.fifo /\ bus'.left = bus.left /\ bus'.read = bus.read
    BY DEF BusFails, ByHardware, I2cInv, I2cTypes, Bus
  <2>2. i2cPc \in InReceive =>
          /\ xfer.ret = 0 /\ xfer.asked[2] > 0 /\ Len(device) = xfer.asked[1] /\ bus.read
          /\ Len(xfer.buf) + xfer.recv = xfer.asked[2]
          /\ Len(xfer.buf) + Len(bus.fifo) + bus.left = xfer.asked[2]
    BY DEF I2cInv, Receiving
  <2> QED
    BY <1>1, <1>2, <2>1, <2>2 DEF Receiving
<1> QED
  BY <1>4, <1>5, <1>6 DEF I2cInv

LEMMA I2cRestKeeps ==
  ASSUME I2cInv, UNCHANGED <<i2cPc, xfer, bus, device>>
  PROVE  I2cInv'
<1>1. i2cPc' = i2cPc /\ xfer' = xfer /\ bus' = bus /\ device' = device
  OBVIOUS
<1> QED
  BY <1>1 DEF I2cInv, I2cTypes, InOrder, BusRests, DoneIsNew, Sending, SentAll, Receiving, Moved,
     Run, Failed

LEMMA I2cKeeps ==
  ASSUME I2cInv, [Next]_boardVars
  PROVE  I2cInv'
<1>1. CASE Xfer
  BY <1>1, XferKeeps
<1>2. CASE I2cDriver
  BY <1>2, SendStartKeeps, SendActiveKeeps, FillKeeps, FillFailsKeeps, SentKeeps, SendFailsKeeps,
     NothingToReceiveKeeps, ReceiveStartKeeps, ReceiveActiveKeeps, TakeKeeps, ReceivedKeeps,
     ReceiveFailsKeeps, XferEndKeeps DEF I2cDriver
<1>3. CASE Controller
  BY <1>3, BusStartsKeeps, BusSendsKeeps, BusReceivesKeeps, BusEndsKeeps, BusFailsKeeps
     DEF Controller
<1>4. CASE UNCHANGED <<i2cPc, xfer, bus, device>>
  BY <1>4, I2cRestKeeps
<1> QED
  BY <1>1, <1>2, <1>3, <1>4, I2cOrNot

LEMMA I2cBegins == Init => I2cInv
<1> SUFFICES ASSUME Init  PROVE  I2cInv
  OBVIOUS
<1>1. /\ i2cPc = "idle" /\ device = <<>>
      /\ xfer = [send |-> 0, recv |-> 0, asked |-> <<0, 0>>, ret |-> 0, buf |-> <<>>]
      /\ bus = [starting |-> FALSE, ta |-> FALSE, read |-> FALSE, left |-> 0,
                fifo |-> <<>>, done |-> FALSE, err |-> FALSE, clkt |-> FALSE]
  BY DEF Init, I2cInit
<1>2. I2cTypes
  <2>1. xfer \in Call
    BY <1>1, EmptyRun DEF Call
  <2>2. bus \in Bus
    BY <1>1, EmptyRun DEF Bus
  <2> QED
    BY <1>1, <2>1, <2>2, EmptyRun DEF I2cTypes, AtEnd
<1>3. InOrder
  BY <1>1, EmptyRun DEF InOrder, InSend, InReceive
<1>4. BusRests /\ DoneIsNew
  BY <1>1 DEF BusRests, DoneIsNew, InSend, InReceive, AtEnd
<1>5. Sending /\ SentAll /\ Receiving
  BY <1>1 DEF Sending, SentAll, Receiving, InSend, InReceive
<1>6. Moved
  BY <1>1, EmptyRun DEF Moved
<1> QED
  BY <1>2, <1>3, <1>4, <1>5, <1>6 DEF I2cInv

(* A run from the first byte on is the sequence the property names. *)
LEMMA WholeRun ==
  ASSUME NEW bytes \in Bytes, Run(bytes, 0)
  PROVE  bytes = [i \in 1..Len(bytes) |-> i]
<1>1. DOMAIN bytes = 1..Len(bytes) /\ bytes = [i \in DOMAIN bytes |-> bytes[i]]
  BY DEF Bytes
<1>2. \A i \in 1..Len(bytes) : bytes[i] = i
  BY DEF Run
<1> QED
  BY <1>1, <1>2

LEMMA MovedIsAll == I2cInv => XferMovesAll
<1> SUFFICES ASSUME I2cInv, i2cPc = "idle", xfer.ret = 0
             PROVE  /\ device = [i \in 1..xfer.asked[1] |-> i]
                    /\ xfer.buf = [i \in 1..xfer.asked[2] |-> i]
                    /\ bus.ta => xfer.asked[1] > 0 /\ xfer.asked[2] > 0
  BY DEF XferMovesAll
<1>1. Len(device) = xfer.asked[1] /\ Len(xfer.buf) = xfer.asked[2]
  BY DEF I2cInv, Moved, AtEnd
<1>2. device \in Bytes /\ xfer.buf \in Bytes /\ Run(device, 0) /\ Run(xfer.buf, 0)
  BY DEF I2cInv, I2cTypes, Call, InOrder
<1>3. bus.ta => xfer.asked[1] > 0 /\ xfer.asked[2] > 0
  BY DEF I2cInv, BusRests, AtEnd
<1> QED
  BY <1>1, <1>2, <1>3, WholeRun

(* An I2C transfer that returns 0 has brought every byte to where it       *)
(* belongs, in order, whatever a transfer before it that failed has left   *)
(* in the FIFO, the status bits or the controller (i2c_xfer, i2c.c:86-145).*)
(* Inductive: no byte is lost or doubled on its way between the caller,    *)
(* the FIFO and the device, and no DONE is older than what it is waited    *)
(* for, but that of the sending before a receiving.                        *)
THEOREM XferAlwaysMovesAll == Spec => []XferMovesAll
<1>1. Init => I2cInv
  BY I2cBegins
<1>2. I2cInv /\ [Next]_boardVars => I2cInv'
  BY I2cKeeps
<1>3. I2cInv => XferMovesAll
  BY MovedIsAll
<1> QED
  BY <1>1, <1>2, <1>3, PTL DEF Spec

-----------------------------------------------------------------------------
(* The pins.                                                               *)

(* The calls of gpio_config a caller makes. *)
CallLists == Seq(Pins \X Functions)

(* The registers for the functions, and who sets them. *)
FunctionTypes ==
  /\ fsel \in [Pins -> Functions] /\ asked \in [Pins -> Functions]
  /\ cfg \in [Cpus -> CallLists] /\ DOMAIN held = Cpus
  /\ stale \in [Cpus -> BOOLEAN]

(* The register that a CPU's call is about. *)
Register(c) == Sharers(cfg[c][1][1])

(* A CPU with a register in hand is in a call about that register; and     *)
(* what it holds is what the register has, unless that was written since.  *)
Holding ==
  \A c \in Cpus : held[c] # <<>> =>
    /\ cfg[c] # <<>> /\ held[c] \in [Register(c) -> Functions]
    /\ ~stale[c] => \A q \in Register(c) : held[c][q] = fsel[q]

(* The part of PinsAsAsked that is about functions. *)
AsAsked == \A p \in Pins \ spoiled : fsel[p] = asked[p]

(* The ARM sets no pin up before it has started. *)
ArmHasNoPins == armPc \in Nat /\ (armPc <= 16 => cfg["arm"] = <<>>)

FunctionInv == FunctionTypes /\ Holding /\ AsAsked /\ ArmHasNoPins

(* The pads, and the batch for them. *)
PullTypes ==
  /\ pull \in [Pins -> Pulls] /\ wanted \in [Pins -> Pulls] /\ pud \in Pulls
  /\ batch \in Batches /\ clk \in SUBSET Pins /\ latched \in BOOLEAN
  /\ mode \in 0..3 /\ phase \in {"pud", "clock", "unclock", "clear"}

(* What a batch pulls a pin to is what was asked for last; and a pin that  *)
(* no batch has still to pull has what was asked for.                      *)
Pulled ==
  /\ \A m \in Pulls : \A p \in batch[m] : wanted[p] = m
  /\ \A p \in Pins :
       \/ pull[p] = wanted[p]
       \/ \E m \in Pulls : m >= mode /\ p \in batch[m]

(* The pads that are clocked take the pull of the batch, and have it when  *)
(* they are no longer clocked.                                             *)
Clocking ==
  /\ phase # "pud" => mode < 3
  /\ phase \in {"clock", "unclock"} => pud = mode
  /\ IF phase = "unclock" THEN clk = batch[mode] ELSE clk = {}
  /\ phase = "clear" \/ (phase = "unclock" /\ latched) => \A p \in batch[mode] : pull[p] = mode

(* What gpio_test has still to do. *)
TestTypes == testing \in Seq(Pins \X {PullDown, PullUp})

(* The test asks for one pull at a time, and has read what it asked for.   *)
Testing ==
  /\ testing # <<>> => wanted[testing[1][1]] = testing[1][2]
  /\ told # <<>> => told[2] = (told[1] = PullUp)

PullInv == PullTypes /\ Pulled /\ Clocking /\ TestTypes /\ Testing

(* The pins: who changes a register, a pad or a CPU's calls. *)
GpioAction ==
  GpioReset \/ GpioInit \/ GpioCommands \/ GpioSetUp \/ GpioPulls \/ Latch \/ GpioByArm

LEMMA GpioOrNot ==
  [Next]_boardVars =>
    \/ GpioAction /\ armPc' = armPc
    \/ ArmInit /\ ArmStarted' /\ GpioArm
    \/ UNCHANGED gpioVars /\ (armPc' = armPc \/ (ArmInit /\ ~ArmStarted'))
<1> SUFFICES ASSUME [Next]_boardVars
             PROVE  \/ GpioAction /\ armPc' = armPc
                    \/ ArmInit /\ ArmStarted' /\ GpioArm
                    \/ UNCHANGED gpioVars /\ (armPc' = armPc \/ (ArmInit /\ ~ArmStarted'))
  OBVIOUS
<1>1. CASE BoardPins \/ BoardPinHardware \/ BoardPinsByArm
  BY <1>1 DEF BoardPins, BoardPinHardware, BoardPinsByArm, GpioAction, armVars
<1>2. CASE BoardArm
  BY <1>2 DEF BoardArm
<1>3. CASE BoardUsb
  BY <1>3 DEF BoardUsb, Quiet, UsbInit, UsbBegin, PowerUpImage, UsbStep, UsbForth, UsbPower,
     UsbClockOff, UsbClockOn
<1>4. CASE BoardDomains \/ BoardClocks \/ BoardClockHardware
  BY <1>4 DEF BoardDomains, DomainAnswers, BoardClocks, BoardClockHardware, Quiet, armVars
<1>5. CASE BoardSdram \/ BoardSdramHardware \/ BoardOtp \/ BoardOtpHardware \/ BoardI2c \/ BoardI2cHardware
  BY <1>5 DEF BoardSdram, BoardSdramHardware, BoardOtp, BoardOtpHardware, BoardI2c,
     BoardI2cHardware,
     armVars
<1>6. CASE UNCHANGED boardVars
  BY <1>6 DEF boardVars, armVars
<1> QED
  BY <1>1, <1>2, <1>3, <1>4, <1>5, <1>6 DEF Next

LEMMA ArmGoesOn ==
  ASSUME ArmInit, armPc \in Nat
  PROVE  /\ armPc <= 16 /\ armPc' \in Nat /\ (ArmStarted' <=> armPc' > 16)
         /\ armPc' > 16 => armPc <= 16
<1>1. Len(ArmProgram) = 16
  BY DEF ArmProgram
<1> QED
  BY <1>1 DEF ArmInit, ArmBegin, ArmPower, ArmAt, ArmForth, ArmStep, CopyPayload, MapBusToArm,
     ArmControl, PllbStep, MultiplyPllb, ResetPllb, HoldPllb, StartPllb, LoadPllb, UnholdPllb,
     ArmClock, ReleaseArm, CycleBresp, StartBridge, ArmStarted

LEMMA Fields ==
  ASSUME NEW p \in Pins
  PROVE  /\ p \in Sharers(p) /\ Sharers(p) \subseteq Pins
         /\ \A q \in Pins : q \notin Sharers(p) => \A r \in Sharers(p) : r \notin Sharers(q)
         /\ \A q \in Sharers(p) : Sharers(q) = Sharers(p)
         /\ \A f : [q \in Sharers(p) |-> f[q]] # <<>>
<1>1. p \in Sharers(p) /\ Sharers(p) \subseteq Pins
  BY DEF Sharers
<1>2. \A q \in Pins : q \notin Sharers(p) => \A r \in Sharers(p) : r \notin Sharers(q)
  BY DEF Sharers
<1>3. \A q \in Sharers(p) : Sharers(q) = Sharers(p)
  BY DEF Sharers
<1>4. \A f : [q \in Sharers(p) |-> f[q]] # <<>>
  <2> SUFFICES ASSUME NEW f, [q \in Sharers(p) |-> f[q]] = <<>>  PROVE FALSE
    OBVIOUS
  <2>1. DOMAIN [q \in Sharers(p) |-> f[q]] = Sharers(p) /\ DOMAIN <<>> = {}
    OBVIOUS
  <2> QED
    BY <1>1, <2>1
<1> QED
  BY <1>1, <1>2, <1>3, <1>4

LEMMA Called ==
  ASSUME NEW calls \in CallLists, calls # <<>>
  PROVE  calls[1][1] \in Pins /\ calls[1][2] \in Functions /\ Tail(calls) \in CallLists
<1>1. calls[1] \in Pins \X Functions /\ Tail(calls) \in CallLists
  BY DEF CallLists
<1> QED
  BY <1>1

LEMMA PinReadKeeps ==
  ASSUME FunctionInv, NEW c \in Cpus, ConfigRead(c), armPc' = armPc
  PROVE  FunctionInv'
<1>1. cfg[c] \in CallLists /\ cfg[c] # <<>>
  BY DEF FunctionInv, FunctionTypes, ConfigRead
<1>2. Register(c) \subseteq Pins
  BY <1>1, Called, Fields DEF Register
<1>3. /\ held' = [held EXCEPT ![c] = [q \in Register(c) |-> fsel[q]]]
      /\ stale' = [stale EXCEPT ![c] = FALSE]
      /\ fsel' = fsel /\ cfg' = cfg /\ asked' = asked /\ spoiled' = spoiled
  BY DEF ConfigRead, Register
<1>4. FunctionTypes'
  BY <1>3 DEF FunctionInv, FunctionTypes
<1>5. \A o \in Cpus : Register(o)' = Register(o)
  BY <1>3 DEF Register
<1>6. [q \in Register(c) |-> fsel[q]] \in [Register(c) -> Functions]
  BY <1>2 DEF FunctionInv, FunctionTypes
<1>7. Holding'
  <2> SUFFICES ASSUME NEW o \in Cpus, held'[o] # <<>>
               PROVE  /\ cfg[o] # <<>> /\ held'[o] \in [Register(o) -> Functions]
                      /\ ~stale'[o] => \A q \in Register(o) : held'[o][q] = fsel[q]
    BY <1>3, <1>5 DEF Holding
  <2>1. CASE o = c
    <3>1. held'[o] = [q \in Register(c) |-> fsel[q]]
      BY <1>3, <2>1 DEF FunctionInv, FunctionTypes
    <3> QED
      BY <1>1, <1>6, <2>1, <3>1
  <2>2. CASE o # c
    BY <1>3, <2>2 DEF FunctionInv, FunctionTypes, Holding
  <2> QED
    BY <2>1, <2>2
<1>8. AsAsked' /\ ArmHasNoPins'
  BY <1>3 DEF FunctionInv, AsAsked, ArmHasNoPins
<1> QED
  BY <1>4, <1>7, <1>8 DEF FunctionInv

LEMMA PinWriteKeeps ==
  ASSUME FunctionInv, NEW c \in Cpus, ConfigWrite(c), armPc' = armPc
  PROVE  FunctionInv'
<1> DEFINE p == cfg[c][1][1]
           f == cfg[c][1][2]
<1>1. held[c] # <<>> /\ cfg[c] # <<>> /\ held[c] \in [Register(c) -> Functions]
  BY DEF FunctionInv, Holding, ConfigWrite
<1>2. p \in Pins /\ f \in Functions /\ Tail(cfg[c]) \in CallLists /\ Register(c) = Sharers(p)
  BY <1>1, Called DEF FunctionInv, FunctionTypes, Register
<1>3. p \in Register(c) /\ Register(c) \subseteq Pins
  BY <1>2, Fields
<1> DEFINE new == [held[c] EXCEPT ![p] = f]
<1>4. /\ new \in [Register(c) -> Functions] /\ new[p] = f /\ DOMAIN new = Register(c)
      /\ \A q \in Register(c) \ {p} : new[q] = held[c][q]
  BY <1>1, <1>2, <1>3
<1>5. /\ fsel' = [q \in Pins |-> IF q \in Register(c) THEN new[q] ELSE fsel[q]]
      /\ asked' = [asked EXCEPT ![p] = f]
      /\ spoiled' = IF stale[c] THEN spoiled \cup Register(c) ELSE spoiled
      /\ MarkStale(c, p)
      /\ cfg' = [cfg EXCEPT ![c] = Tail(@)]
      /\ held' = [held EXCEPT ![c] = <<>>]
  BY <1>4 DEF ConfigWrite, Field
<1> HIDE DEF p, f, new
<1>6. FunctionTypes'
  <2>1. fsel' \in [Pins -> Functions]
    BY <1>4, <1>5 DEF FunctionInv, FunctionTypes
  <2>2. asked' \in [Pins -> Functions]
    BY <1>2, <1>5 DEF FunctionInv, FunctionTypes
  <2>3. cfg' \in [Cpus -> CallLists] /\ DOMAIN held' = Cpus
    BY <1>2, <1>5 DEF FunctionInv, FunctionTypes
  <2>4. stale' \in [Cpus -> BOOLEAN]
    BY <1>5 DEF MarkStale, FunctionInv, FunctionTypes
  <2> QED
    BY <2>1, <2>2, <2>3, <2>4 DEF FunctionTypes
<1>7. Holding'
  <2> SUFFICES ASSUME NEW o \in Cpus, held'[o] # <<>>
               PROVE  /\ cfg'[o] # <<>> /\ held'[o] \in [Register(o)' -> Functions]
                      /\ ~stale'[o] => \A q \in Register(o)' : held'[o][q] = fsel'[q]
    BY DEF Holding
  <2>1. o # c /\ held'[o] = held[o]
    BY <1>5 DEF FunctionInv, FunctionTypes
  <2>2. cfg'[o] = cfg[o] /\ Register(o)' = Register(o)
    BY <1>5, <2>1 DEF FunctionInv, FunctionTypes, Register
  <2>3. cfg[o] # <<>> /\ held[o] # <<>> /\ held[o] \in [Register(o) -> Functions]
    BY <2>1 DEF FunctionInv, Holding
  <2>4. stale'[o] = (stale[o] \/ p \in Register(o))
    BY <1>5, <2>1, <2>3 DEF MarkStale
  <2>5. ASSUME ~stale'[o], NEW q \in Register(o)
        PROVE  held[o][q] = fsel'[q]
    <3>1. ~stale[o] /\ p \notin Register(o)
      BY <2>4, <2>5
    <3>2. held[o][q] = fsel[q]
      BY <2>3, <3>1 DEF FunctionInv, Holding
    <3>3. cfg[o][1][1] \in Pins /\ Register(o) = Sharers(cfg[o][1][1])
      BY <2>3, Called DEF FunctionInv, FunctionTypes, Register
    <3>4. q \in Pins /\ q \notin Register(c)
      BY <1>2, <3>1, <3>3, Fields
    <3> QED
      BY <1>5, <3>2, <3>4
  <2> QED
    BY <2>1, <2>2, <2>3, <2>5
<1>8. AsAsked'
  <2> SUFFICES ASSUME NEW q \in Pins, q \notin spoiled'  PROVE fsel'[q] = asked'[q]
    BY DEF AsAsked
  <2>1. q \notin spoiled /\ (stale[c] => q \notin Register(c))
    BY <1>5
  <2>2. fsel[q] = asked[q]
    BY <2>1 DEF FunctionInv, AsAsked
  <2>3. CASE q \notin Register(c)
    BY <1>3, <1>5, <2>2, <2>3 DEF FunctionInv, FunctionTypes
  <2>4. CASE q \in Register(c) /\ q # p
    <3>1. ~stale[c] /\ held[c][q] = fsel[q]
      BY <1>1, <2>1, <2>4 DEF FunctionInv, Holding
    <3> QED
      BY <1>4, <1>5, <2>2, <2>4, <3>1 DEF FunctionInv, FunctionTypes
  <2>5. CASE q = p
    BY <1>3, <1>4, <1>5, <2>5 DEF FunctionInv, FunctionTypes
  <2> QED
    BY <2>3, <2>4, <2>5
<1>9. ArmHasNoPins'
  <2>1. cfg["arm"] = <<>> => c # "arm"
    BY <1>1
  <2> QED
    BY <1>5, <2>1 DEF FunctionInv, FunctionTypes, ArmHasNoPins, Cpus
<1> QED
  BY <1>6, <1>7, <1>8, <1>9 DEF FunctionInv

(* A CPU that is in no call is given some. *)
LEMMA ConfigureKeeps ==
  ASSUME FunctionInv, NEW c \in Cpus, cfg[c] = <<>>, NEW calls \in CallLists, Configure(c, calls),
         UNCHANGED <<fsel, held, asked, stale, spoiled>>,
         armPc' \in Nat, armPc' <= 16 => c = "vpu" /\ armPc <= 16
  PROVE  FunctionInv'
<1>1. FunctionTypes'
  BY DEF FunctionInv, FunctionTypes, Configure
<1>2. held[c] = <<>>
  BY DEF FunctionInv, Holding
<1>3. \A o \in Cpus : o # c => cfg'[o] = cfg[o] /\ Register(o)' = Register(o)
  BY DEF Configure, Register, FunctionInv, FunctionTypes
<1>4. Holding'
  BY <1>2, <1>3 DEF FunctionInv, Holding
<1>5. AsAsked'
  BY DEF FunctionInv, AsAsked
<1>6. ArmHasNoPins'
  BY <1>3 DEF FunctionInv, ArmHasNoPins, Cpus
<1> QED
  BY <1>1, <1>4, <1>5, <1>6 DEF FunctionInv

LEMMA CfgRestKeeps ==
  ASSUME FunctionInv, UNCHANGED cfgVars, armPc' \in Nat, armPc' <= 16 => armPc <= 16
  PROVE  FunctionInv'
  BY DEF FunctionInv, FunctionTypes, Holding, AsAsked, ArmHasNoPins, cfgVars, Register

LEMMA PinResetKeeps ==
  ASSUME FunctionInv, GpioReset, armPc' = armPc
  PROVE  FunctionInv'
<1> DEFINE all == Sharers(SerialTx)
           Reset(q) == IF q = SerialTx THEN Alt0 ELSE Input
<1>1. SerialTx \in Pins /\ all \subseteq Pins
  BY GpioAssumption, Fields
<1>2. cfg["vpu"] = <<>> /\ held["vpu"] = <<>>
  BY DEF GpioReset, GpioIdle, FunctionInv, Holding, Cpus
<1>3. /\ fsel' = [q \in Pins |-> IF q \in all THEN Reset(q) ELSE fsel[q]]
      /\ asked' = [q \in Pins |-> IF q \in all THEN Reset(q) ELSE asked[q]]
      /\ MarkStale("vpu", SerialTx)
      /\ spoiled' = spoiled \ all
      /\ cfg' = [cfg EXCEPT !["vpu"] = <<<<SerialTx, Alt0>>>>]
      /\ held' = held
  BY DEF GpioReset, Configure
<1>4. \A q : Reset(q) \in Functions
  BY DEF Alt0, Input, Functions
<1>5. <<<<SerialTx, Alt0>>>> \in CallLists
  BY <1>1 DEF CallLists, Alt0, Functions
<1> HIDE DEF all, Reset
<1>6. FunctionTypes'
  <2>1. fsel' \in [Pins -> Functions] /\ asked' \in [Pins -> Functions]
    BY <1>3, <1>4 DEF FunctionInv, FunctionTypes
  <2>2. stale' \in [Cpus -> BOOLEAN]
    BY <1>3 DEF MarkStale, FunctionInv, FunctionTypes
  <2> QED
    BY <1>3, <1>5, <2>1, <2>2 DEF FunctionInv, FunctionTypes
<1>7. Holding'
  <2> SUFFICES ASSUME NEW o \in Cpus, held'[o] # <<>>
               PROVE  /\ cfg'[o] # <<>> /\ held'[o] \in [Register(o)' -> Functions]
                      /\ ~stale'[o] => \A q \in Register(o)' : held'[o][q] = fsel'[q]
    BY DEF Holding
  <2>1. o # "vpu" /\ held[o] # <<>>
    BY <1>2, <1>3
  <2>2. cfg'[o] = cfg[o] /\ Register(o)' = Register(o)
    BY <1>3, <2>1 DEF FunctionInv, FunctionTypes, Register
  <2>3. cfg[o] # <<>> /\ held[o] \in [Register(o) -> Functions]
    BY <2>1 DEF FunctionInv, Holding
  <2>4. stale'[o] = (stale[o] \/ SerialTx \in Register(o))
    BY <1>3, <2>1, <2>3 DEF MarkStale
  <2>5. ASSUME ~stale'[o], NEW q \in Register(o)
        PROVE  held[o][q] = fsel'[q]
    <3>1. ~stale[o] /\ SerialTx \notin Register(o)
      BY <2>4, <2>5
    <3>2. held[o][q] = fsel[q]
      BY <2>1, <2>3, <3>1 DEF FunctionInv, Holding
    <3>3. cfg[o][1][1] \in Pins /\ Register(o) = Sharers(cfg[o][1][1])
      BY <2>3, Called DEF FunctionInv, FunctionTypes, Register
    <3>4. q \in Pins /\ q \notin all
      BY <1>1, <3>1, <3>3, Fields DEF all
    <3> QED
      BY <1>3, <3>2, <3>4
  <2> QED
    BY <1>3, <2>2, <2>3, <2>5
<1>8. AsAsked'
  BY <1>3 DEF FunctionInv, AsAsked
<1>9. ArmHasNoPins'
  BY <1>3 DEF FunctionInv, FunctionTypes, ArmHasNoPins, Cpus
<1> QED
  BY <1>6, <1>7, <1>8, <1>9 DEF FunctionInv

LEMMA GpioCommandsKeep ==
  ASSUME FunctionInv, GpioCommands, armPc' = armPc
  PROVE  FunctionInv'
<1>1. "vpu" \in Cpus /\ (armPc' <= 16 => armPc <= 16) /\ armPc' \in Nat
  BY DEF Cpus, FunctionInv, ArmHasNoPins
<1>2. cfg["vpu"] = <<>>
  BY DEF GpioCommands, Pinmux, PinModeCommand, WriteCommand, TestBegin, JitterCommand,
     PinCommand, GpioIdle
<1>3. CASE Pinmux
  <2>1. [i \in DOMAIN SdPins |-> <<SdPins[i], Alt0>>] \in CallLists
    <3>1. SdPins \in Seq(Pins) /\ Alt0 \in Functions
      BY GpioAssumption DEF Alt0, Functions
    <3>2. DOMAIN SdPins = 1..Len(SdPins) /\ Len(SdPins) \in Nat /\ \A i \in 1..Len(SdPins) : SdPins[i] \in Pins
      BY <3>1
    <3> QED
      BY <3>1, <3>2, IsASeq DEF CallLists
  <2> QED
    BY <1>1, <1>2, <1>3, <2>1, ConfigureKeeps DEF Pinmux
<1>4. CASE PinModeCommand
  <2>1. PICK pinFn \in ModeCalls : Configure("vpu", IF pinFn[1] < NumPins THEN <<pinFn>> ELSE <<>>)
    BY <1>4 DEF PinModeCommand
  <2>2. pinFn \in Nat \X Functions
    BY GpioAssumption
  <2>3. (IF pinFn[1] < NumPins THEN <<pinFn>> ELSE <<>>) \in CallLists
    <3>1. CASE pinFn[1] < NumPins
      <4>1. pinFn \in Pins \X Functions
        BY <2>2, <3>1, GpioAssumption DEF Pins
      <4> QED
        BY <3>1, <4>1 DEF CallLists
    <3>2. CASE ~(pinFn[1] < NumPins)
      BY <3>2 DEF CallLists
    <3> QED
      BY <3>1, <3>2
  <2> QED
    BY <1>1, <1>2, <1>4, <2>1, <2>3, ConfigureKeeps DEF PinModeCommand
<1>5. CASE WriteCommand \/ TestBegin
  BY <1>1, <1>5, CfgRestKeeps DEF WriteCommand, TestBegin
<1>6. CASE JitterCommand
  <2>1. <<<<JitterPin, Output>>>> \in CallLists
    BY GpioAssumption DEF CallLists, Output, Functions
  <2> QED
    BY <1>1, <1>2, <1>6, <2>1, ConfigureKeeps DEF JitterCommand
<1> QED
  BY <1>3, <1>4, <1>5, <1>6 DEF GpioCommands

LEMMA FunctionKeeps ==
  ASSUME FunctionInv, [Next]_boardVars
  PROVE  FunctionInv'
<1>1. "vpu" \in Cpus /\ "arm" \in Cpus /\ armPc \in Nat
  BY DEF Cpus, FunctionInv, ArmHasNoPins
<1>2. CASE GpioAction /\ armPc' = armPc
  <2>1. CASE GpioReset
    BY <1>2, <2>1, PinResetKeeps
  <2>2. CASE GpioInit
    <3>1. <<<<SerialTx, Alt0>>, <<SerialRx, Alt0>>>> \in CallLists /\ cfg["vpu"] = <<>>
      BY <2>2, GpioAssumption DEF CallLists, SerialRx, Alt0, Functions, GpioInit, GpioIdle
    <3> QED
      BY <1>1, <1>2, <2>2, <3>1, ConfigureKeeps DEF GpioInit
  <2>3. CASE GpioCommands
    BY <1>2, <2>3, GpioCommandsKeep
  <2>4. CASE GpioSetUp \/ GpioByArm
    BY <1>1, <1>2, <2>4, PinReadKeeps, PinWriteKeeps DEF GpioSetUp, GpioByArm
  <2>5. CASE GpioPulls \/ Latch
    BY <1>1, <1>2, <2>5, CfgRestKeeps DEF GpioPulls, Latch, SetPud, ClockPads, UnclockPads,
       ClearPud,
       TestNext, Toggle18
  <2> QED
    BY <1>2, <2>1, <2>2, <2>3, <2>4, <2>5 DEF GpioAction
<1>3. CASE ArmInit /\ ArmStarted' /\ GpioArm
  <2>1. <<<<LedPin, Output>>, <<SerialTx, Alt0>>, <<SerialRx, Alt0>>>> \in CallLists
    BY GpioAssumption DEF CallLists, SerialRx, Alt0, Output, Functions
  <2>2. cfg["arm"] = <<>> /\ armPc' \in Nat /\ ~(armPc' <= 16)
    BY <1>1, <1>3, ArmGoesOn DEF FunctionInv, ArmHasNoPins
  <2> QED
    BY <1>1, <1>3, <2>1, <2>2, ConfigureKeeps DEF GpioArm
<1>4. CASE UNCHANGED gpioVars /\ (armPc' = armPc \/ (ArmInit /\ ~ArmStarted'))
  <2>1. armPc' \in Nat /\ (armPc' <= 16 => armPc <= 16)
    BY <1>1, <1>4, ArmGoesOn
  <2> QED
    BY <1>4, <2>1, CfgRestKeeps DEF gpioVars
<1> QED
  BY <1>2, <1>3, <1>4, GpioOrNot

(* The pulls.  Between batches nothing is clocked. *)
LEMMA BatchDone ==
  ASSUME PullInv, NoBatch
  PROVE  phase = "pud" /\ clk = {} /\ pull = wanted
<1>1. mode = 3
  BY DEF NoBatch
<1>2. phase = "pud" /\ clk = {}
  BY <1>1 DEF PullInv, Clocking
<1>3. \A p \in Pins : pull[p] = wanted[p]
  BY <1>1 DEF PullInv, Pulled, Pulls
<1> QED
  BY <1>2, <1>3 DEF PullInv, PullTypes

LEMMA ApplyKeeps ==
  ASSUME PullInv, NoBatch, NEW pins \in SUBSET Pins, NEW way \in Pulls, Apply(pins, way),
         UNCHANGED <<pull, pud, clk, latched, phase>>, TestTypes', Testing'
  PROVE  PullInv'
<1>1. /\ batch' = [NoPulls EXCEPT ![way] = pins] /\ mode' = 0
      /\ wanted' = [p \in Pins |-> IF p \in pins THEN way ELSE wanted[p]]
  BY DEF Apply
<1>2. batch' \in Batches /\ batch'[way] = pins /\ \A m \in Pulls : m # way => batch'[m] = {}
  BY <1>1 DEF NoPulls, Batches
<1>3. PullTypes'
  BY <1>1, <1>2 DEF PullInv, PullTypes
<1>4. Pulled'
  BY <1>1, <1>2, BatchDone DEF Pulled, Pulls
<1>5. Clocking'
  BY BatchDone DEF Clocking
<1> QED
  BY <1>3, <1>4, <1>5 DEF PullInv

LEMMA SetPudKeeps ==
  ASSUME PullInv, SetPud
  PROVE  PullInv'
<1> USE DEF PullInv
<1>1. /\ mode \in Pulls /\ phase = "pud" /\ clk = {} /\ testing' = testing /\ told' = told
      /\ UNCHANGED <<pull, clk, latched, batch, wanted>>
  BY DEF SetPud, PullTypes, Clocking, Pulls
<1>2. TestTypes' /\ Testing'
  BY <1>1 DEF TestTypes, Testing
<1>3. CASE batch[mode] # {}
  <2>1. pud' = mode /\ phase' = "clock" /\ mode' = mode
    BY <1>3 DEF SetPud
  <2>2. PullTypes' /\ Pulled'
    BY <1>1, <2>1 DEF PullTypes, Pulled
  <2>3. Clocking'
    BY <1>1, <2>1 DEF Clocking, Pulls
  <2> QED
    BY <1>2, <2>2, <2>3
<1>4. CASE batch[mode] = {}
  <2>1. pud' = pud /\ phase' = "pud" /\ mode' = mode + 1
    BY <1>1, <1>4 DEF SetPud
  <2>2. PullTypes'
    BY <1>1, <2>1 DEF PullTypes, Pulls
  <2>3. Pulled'
    BY <1>1, <1>4, <2>1 DEF Pulled, Pulls
  <2>4. Clocking'
    BY <1>1, <2>1 DEF Clocking
  <2> QED
    BY <1>2, <2>2, <2>3, <2>4
<1> QED
  BY <1>3, <1>4

LEMMA ClockPadsKeeps ==
  ASSUME PullInv, ClockPads
  PROVE  PullInv'
<1>1. /\ phase = "clock" /\ mode \in Pulls /\ pud = mode
      /\ clk' = batch[mode] /\ latched' = FALSE /\ phase' = "unclock"
      /\ UNCHANGED <<pull, pud, batch, mode, testing, told, wanted>>
  BY DEF ClockPads, PullInv, PullTypes, Clocking, Pulls
<1>2. PullTypes'
  BY <1>1 DEF PullInv, PullTypes, Batches
<1>3. Pulled' /\ Clocking'
  BY <1>1 DEF PullInv, Pulled, Clocking, Pulls
<1>4. TestTypes' /\ Testing'
  BY <1>1 DEF PullInv, TestTypes, Testing
<1> QED
  BY <1>2, <1>3, <1>4 DEF PullInv

LEMMA LatchKeeps ==
  ASSUME PullInv, Latch
  PROVE  PullInv'
<1>1. phase = "unclock" /\ clk = batch[mode] /\ pud = mode /\ mode \in Pulls
  BY DEF Latch, PullInv, PullTypes, Clocking, Pulls
<1>2. /\ pull' = [p \in Pins |-> IF p \in clk THEN pud ELSE pull[p]] /\ latched' = TRUE
      /\ UNCHANGED <<pud, clk, batch, mode, phase, testing, told, wanted>>
  BY DEF Latch
<1>3. PullTypes'
  BY <1>2 DEF PullInv, PullTypes
<1>4. Pulled'
  BY <1>1, <1>2 DEF PullInv, Pulled
<1>5. Clocking'
  <2>1. \A p \in clk : p \in Pins
    BY DEF PullInv, PullTypes
  <2> QED
    BY <1>1, <1>2, <2>1 DEF PullInv, Clocking
<1>6. TestTypes' /\ Testing'
  BY <1>2 DEF PullInv, TestTypes, Testing
<1> QED
  BY <1>3, <1>4, <1>5, <1>6 DEF PullInv

LEMMA UnclockPadsKeeps ==
  ASSUME PullInv, UnclockPads
  PROVE  PullInv'
<1>1. /\ phase = "unclock" /\ latched /\ clk' = {} /\ phase' = "clear"
      /\ UNCHANGED <<pull, pud, latched, batch, mode, testing, told, wanted>>
  BY DEF UnclockPads, ClockedLong
<1>2. PullTypes'
  BY <1>1 DEF PullInv, PullTypes
<1>3. Pulled' /\ Clocking'
  BY <1>1 DEF PullInv, Pulled, Clocking
<1>4. TestTypes' /\ Testing'
  BY <1>1 DEF PullInv, TestTypes, Testing
<1> QED
  BY <1>2, <1>3, <1>4 DEF PullInv

LEMMA ClearPudKeeps ==
  ASSUME PullInv, ClearPud
  PROVE  PullInv'
<1>1. /\ phase = "clear" /\ mode \in Pulls /\ clk = {} /\ \A p \in batch[mode] : pull[p] = mode
      /\ pud' = PullOff /\ mode' = mode + 1 /\ phase' = "pud"
      /\ UNCHANGED <<pull, clk, latched, batch, testing, told, wanted>>
  BY DEF ClearPud, PullInv, PullTypes, Clocking, Pulls
<1>2. PullTypes'
  BY <1>1 DEF PullInv, PullTypes, Pulls, PullOff
<1>3. Pulled'
  <2> SUFFICES ASSUME NEW p \in Pins, pull[p] # wanted[p]
               PROVE  \E m \in Pulls : m >= mode + 1 /\ p \in batch[m]
    BY <1>1 DEF PullInv, Pulled
  <2>1. PICK m \in Pulls : m >= mode /\ p \in batch[m]
    BY DEF PullInv, Pulled
  <2>2. wanted[p] = m
    BY <2>1 DEF PullInv, Pulled
  <2>3. m # mode
    BY <1>1, <2>1, <2>2
  <2> QED
    BY <1>1, <2>1, <2>3 DEF Pulls
<1>4. Clocking'
  BY <1>1 DEF Clocking
<1>5. TestTypes' /\ Testing'
  BY <1>1 DEF PullInv, TestTypes, Testing
<1> QED
  BY <1>2, <1>3, <1>4, <1>5 DEF PullInv

LEMMA PinmuxKeeps ==
  ASSUME PullInv, Pinmux
  PROVE  PullInv'
<1>1. NoBatch /\ testing = <<>> /\ Apply(ToSet(SdPins), PullUp)
  BY DEF Pinmux, PinCommand, GpioIdle
<1>2. ToSet(SdPins) \in SUBSET Pins /\ PullUp \in Pulls
  BY GpioAssumption DEF ToSet, PullUp, Pulls
<1>3. UNCHANGED <<pull, pud, clk, latched, phase, testing, told>>
  BY DEF Pinmux
<1>4. TestTypes' /\ Testing'
  BY <1>1, <1>3 DEF PullInv, TestTypes, Testing
<1> QED
  BY <1>1, <1>2, <1>3, <1>4, ApplyKeeps

(* What a test asks for first, and next. *)
LEMMA TestBeginKeeps ==
  ASSUME PullInv, TestBegin
  PROVE  PullInv'
<1> DEFINE Way(i) == IF i % 2 = 1 THEN PullDown ELSE PullUp
           all == [i \in 1..(2 * Len(TestPins)) |-> <<TestPins[(i + 1) \div 2], Way(i)>>]
<1>1. NoBatch /\ Apply({TestPins[1]}, PullDown) /\ testing' = all /\ told' = <<>>
  BY DEF TestBegin, PinCommand, GpioIdle
<1>2. Len(TestPins) \in Nat /\ Len(TestPins) > 0 /\ \A i \in 1..Len(TestPins) : TestPins[i] \in Pins
  BY GpioAssumption
<1>3. PullDown \in Pulls /\ {TestPins[1]} \in SUBSET Pins
  BY <1>2 DEF PullDown, Pulls
<1>4. UNCHANGED <<pull, pud, clk, latched, phase>>
  BY DEF TestBegin
<1>5. all \in Seq(Pins \X {PullDown, PullUp})
  <2>1. \A i \in 1..(2 * Len(TestPins)) : (i + 1) \div 2 \in 1..Len(TestPins)
    BY <1>2
  <2>2. \A i \in 1..(2 * Len(TestPins)) : <<TestPins[(i + 1) \div 2], Way(i)>> \in Pins \X {PullDown, PullUp}
    BY <1>2, <2>1
  <2>3. 2 * Len(TestPins) \in Nat
    BY <1>2
  <2> HIDE DEF Way
  <2> QED
    BY <2>2, <2>3, IsASeq
<1>6. all[1] = <<TestPins[1], PullDown>>
  <2>1. 1 \in 1..(2 * Len(TestPins)) /\ (1 + 1) \div 2 = 1 /\ Way(1) = PullDown
    BY <1>2
  <2> HIDE DEF Way
  <2> QED
    BY <2>1
<1>7. wanted'[TestPins[1]] = PullDown
  BY <1>1, <1>2 DEF Apply
<1> HIDE DEF all
<1>8. TestTypes' /\ Testing'
  BY <1>1, <1>5, <1>6, <1>7 DEF TestTypes, Testing
<1> QED
  BY <1>1, <1>3, <1>4, <1>8, ApplyKeeps

LEMMA TestNextKeeps ==
  ASSUME PullInv, TestNext
  PROVE  PullInv'
<1> DEFINE pin == testing[1][1]
           way == testing[1][2]
<1>1. testing # <<>> /\ NoBatch /\ testing' = Tail(testing) /\ UNCHANGED <<pull, pud, clk, latched, phase>>
  BY DEF TestNext
<1>2. pin \in Pins /\ way \in {PullDown, PullUp} /\ wanted[pin] = way
  <2>1. testing \in Seq(Pins \X {PullDown, PullUp})
    BY DEF PullInv, TestTypes
  <2>2. testing[1] \in Pins \X {PullDown, PullUp}
    BY <1>1, <2>1
  <2> QED
    BY <1>1, <2>2 DEF PullInv, Testing
<1>3. pull[pin] = way
  BY <1>1, <1>2, BatchDone
<1>4. told' # <<>> => told'[2] = (told'[1] = PullUp)
  <2>1. PICK l \in Levels(pin) : told' = IF fsel[pin] = Output THEN <<>> ELSE <<way, l>>
    BY DEF TestNext
  <2>2. fsel[pin] # Output => l = (way = PullUp)
    BY <1>2, <1>3, <2>1 DEF Levels, PullOff, PullDown, PullUp
  <2> QED
    BY <2>1, <2>2
<1>5. TestTypes'
  BY <1>1 DEF PullInv, TestTypes
<1>6. CASE Len(testing) > 1
  <2>1. Apply({testing[2][1]}, testing[2][2])
    BY <1>6 DEF TestNext
  <2>2. testing[2] \in Pins \X {PullDown, PullUp} /\ testing'[1] = testing[2]
    BY <1>1, <1>6 DEF PullInv, TestTypes
  <2>3. {testing[2][1]} \in SUBSET Pins /\ testing[2][2] \in Pulls
    BY <2>2 DEF PullDown, PullUp, Pulls
  <2>4. wanted'[testing[2][1]] = testing[2][2]
    BY <2>1, <2>3 DEF Apply
  <2>5. Testing'
    BY <1>4, <2>2, <2>4 DEF Testing
  <2> QED
    BY <1>1, <1>5, <2>1, <2>3, <2>5, ApplyKeeps
<1>7. CASE ~(Len(testing) > 1)
  <2>1. UNCHANGED <<batch, wanted, mode>>
    BY <1>7 DEF TestNext
  <2>2. testing' = <<>>
    BY <1>1, <1>7 DEF PullInv, TestTypes
  <2>3. PullTypes' /\ Pulled' /\ Clocking'
    BY <1>1, <2>1 DEF PullInv, PullTypes, Pulled, Clocking
  <2>4. Testing'
    BY <1>4, <2>2 DEF Testing
  <2> QED
    BY <1>5, <2>3, <2>4 DEF PullInv
<1> QED
  BY <1>6, <1>7

LEMMA PadRestKeeps ==
  ASSUME PullInv, UNCHANGED padVars
  PROVE  PullInv'
  BY DEF PullInv, PullTypes, Pulled, Clocking, TestTypes, Testing, padVars

LEMMA PullKeeps ==
  ASSUME PullInv, [Next]_boardVars
  PROVE  PullInv'
<1>1. CASE GpioAction
  <2>1. CASE GpioReset \/ GpioInit \/ GpioSetUp \/ GpioByArm
    BY <2>1, PadRestKeeps DEF GpioReset, GpioInit, GpioSetUp, GpioByArm, ConfigRead, ConfigWrite
  <2>2. CASE GpioCommands
    BY <2>2, PinmuxKeeps, TestBeginKeeps, PadRestKeeps DEF GpioCommands, PinModeCommand,
       WriteCommand, JitterCommand
  <2>3. CASE GpioPulls \/ Latch
    BY <2>3, SetPudKeeps, ClockPadsKeeps, UnclockPadsKeeps, ClearPudKeeps, TestNextKeeps,
       LatchKeeps,
       PadRestKeeps DEF GpioPulls, Toggle18
  <2> QED
    BY <1>1, <2>1, <2>2, <2>3 DEF GpioAction
<1>2. CASE GpioArm \/ UNCHANGED gpioVars
  BY <1>2, PadRestKeeps DEF GpioArm, gpioVars
<1> QED
  BY <1>1, <1>2, GpioOrNot

LEMMA PinsBegin == Init => FunctionInv /\ PullInv
<1> SUFFICES ASSUME Init  PROVE FunctionInv /\ PullInv
  OBVIOUS
<1>1. GpioStart /\ armPc = 0
  BY DEF Init, ArmStateInit
<1>2. <<>> \in CallLists
  BY DEF CallLists
<1>3. FunctionTypes
  BY <1>1, <1>2 DEF FunctionTypes, GpioStart, Functions, Input
<1>4. Holding /\ AsAsked /\ ArmHasNoPins
  BY <1>1 DEF Holding, AsAsked, ArmHasNoPins, GpioStart, Cpus
<1>5. PullTypes
  <2>1. NoPulls \in Batches
    BY DEF NoPulls, Batches
  <2>2. pull \in [Pins -> Pulls] /\ wanted \in [Pins -> Pulls] /\ pud \in Pulls
    BY <1>1 DEF GpioStart, Pulls, PullOff
  <2>3. /\ batch \in Batches /\ clk \in SUBSET Pins /\ latched \in BOOLEAN
        /\ mode = 3 /\ phase = "pud"
    BY <1>1, <2>1 DEF GpioStart
  <2> QED
    BY <2>2, <2>3 DEF PullTypes
<1>6. Pulled /\ Clocking
  BY <1>1 DEF Pulled, Clocking, GpioStart, NoPulls
<1>7. TestTypes /\ Testing
  BY <1>1 DEF TestTypes, Testing, GpioStart
<1> QED
  BY <1>3, <1>4, <1>5, <1>6, <1>7 DEF FunctionInv, PullInv

(* Where no two CPUs were in gpio_config for one register at once, each    *)
(* pin has the function it was last asked for, whatever its neighbours     *)
(* were; between batches each pad has the pull it was last asked for, and  *)
(* gpio_test prints it (gpio.c:43, 74-86, 181-190).                        *)
(* Inductive: a CPU in gpio_config holds what the register has, or the     *)
(* register was written since and its pins will count as spoiled; and a    *)
(* pad has what was asked for, or its batch has still to come to it.       *)
THEOREM PinsAlwaysAsAsked == Spec => []PinsAsAsked
<1>1. Init => FunctionInv /\ PullInv
  BY PinsBegin
<1>2. FunctionInv /\ PullInv /\ [Next]_boardVars => (FunctionInv /\ PullInv)'
  BY FunctionKeeps, PullKeeps
<1>3. FunctionInv /\ PullInv => PinsAsAsked
  BY BatchDone DEF PinsAsAsked, FunctionInv, AsAsked, PullInv, Testing
<1> QED
  BY <1>1, <1>2, <1>3, PTL DEF Spec
=============================================================================
