--------------------------------- MODULE Otp ---------------------------------
(***************************************************************************)
(* The one-time programmable memory: otp_read and otp_write, and the       *)
(* console commands that read it (platform/bcm28xx/otp/otp.c, without the  *)
(* variant for the Raspberry Pi 4).                                        *)
(*                                                                         *)
(* The memory is driven by commands.  The driver writes a command's        *)
(* registers, waits until no command runs, starts it, and waits until it   *)
(* has run; both waits give up.  A command that is given up still runs to  *)
(* its end.  A fuse is burned by a programming sequence that is enabled    *)
(* first; each bit has two passes of a few attempts.                       *)
(*                                                                         *)
(* The memory and its controller are hardware, modelled from how the       *)
(* driver uses them: a command works on the address and the bit that the   *)
(* registers held when it started, or on those they hold when it ends.     *)
(***************************************************************************)
EXTENDS Naturals, Sequences, FiniteSetsExt

CONSTANTS
  OtpAddrs,   (* the words of the memory *)
  OtpBits,    (* the bits of a word: 0..31 *)
  OtpLists,   (* what a command reads: the rows of words it prints *)
  OtpFuses,   (* bound: what the memory may hold at first *)
  OtpWrites,  (* bound: the values somebody writes, as sets of bits *)
  Retries,    (* OTP_MAX_WRITE_RETRIES: 16 *)
  MaxOtp,     (* bound: calls *)
  MaxLate     (* bound: commands that outlast a wait *)

ASSUME OtpAssumption ==
  /\ OtpBits \subseteq 0..31 /\ OtpBits # {}
  /\ OtpAddrs # {} /\ 0 \in OtpAddrs
  /\ OtpLists \subseteq Seq(OtpAddrs) \ {<<>>}
  /\ OtpFuses \subseteq [OtpAddrs -> SUBSET OtpBits]
  /\ OtpWrites \subseteq SUBSET OtpBits
  /\ Retries \in Nat \ {0} /\ MaxOtp \in Nat /\ MaxLate \in Nat

VARIABLES
  otpPc,     (* what the driver is at: "idle", "open", or the command it gives *)
  started,   (* otp_set_command: has it started its command? *)
  call,      (* the call that runs: what it reads, or the word it writes, and
                whether it prints that word before and after *)
  count,     (* the loop counter of the sequence or of the attempts *)
  pass,      (* the pass of otp_program_bit *)
  bitDone,   (* has an attempt at the bit succeeded? *)
  todo,      (* the bits of the value still to be programmed *)
  failed,    (* bits that failed so far *)
  got,       (* what the last otp_read_open returned *)
  otpResult, (* what otp_write returned last *)
  otpReg,    (* the registers OTP_ADDR, OTP_BITSEL and OTP_DATA *)
  running,   (* the command the controller runs, or NoCmd *)
  unlocked,  (* words of the enabling sequence it has seen *)
  progOn,    (* OTP_STAT_PROG_ENABLE *)
  progOk,    (* OTP_STAT_PROG_OK *)
  fuses,     (* the burned bits of every word *)
  otpCalls,  (* calls so far, for the bound *)
  late,      (* commands so far that have outlasted a wait *)
  noOld,     (* history: did the write not get to know the old value? *)
  trusted    (* history: has every write reported success so far? *)

otpDriver == <<otpPc, started, call, count, pass, bitDone, todo, failed, got, otpResult>>
otpHard   == <<otpReg, running, unlocked, progOn, progOk, fuses>>
otpGhost  == <<noOld, trusted>>
otpVars   == <<otpDriver, otpHard, otpCalls, late, otpGhost>>

(* enum otp_command; the word's programming is told by what it is for.     *)
OtpCommand == {"read", "enable", "disable", "burn", "verify"}

NoCmd   == [op |-> "none", addr |-> 0, bit |-> 0]
AllOnes == OtpBits

(* OTP_PROG_EN_SEQ *)
EnableSeq == <<15, 4, 8, 13>>

-----------------------------------------------------------------------------
(* otp_set_command. *)

(* The registers are written; no command runs, so this one is started.     *)
StartCommand(op) ==
  /\ ~started /\ running = NoCmd
  /\ started' = TRUE
  /\ running' = [op |-> op, addr |-> otpReg.addr, bit |-> otpReg.bitsel]

Ran == started /\ running = NoCmd

CommandDone == Ran /\ started' = FALSE /\ UNCHANGED late

(* One of the two waits is over first. *)
CommandLate ==
  /\ running # NoCmd
  /\ late < MaxLate /\ late' = late + 1
  /\ started' = FALSE

CommandOver == CommandDone \/ CommandLate

-----------------------------------------------------------------------------
(* The calls, and otp_open. *)

Begin(c) ==
  /\ otpPc = "idle" /\ otpCalls < MaxOtp
  /\ otpCalls' = otpCalls + 1
  /\ call' = c
  /\ otpPc' = "open"
  /\ UNCHANGED <<started, count, pass, bitDone, todo, failed, got, otpResult,
                 otpHard, late, otpGhost>>

(* otp_dump_all and otp_pretty_print: otp_read for one word after another. *)
ReadCall == \E l \in OtpLists : Begin([op |-> "read", list |-> l, val |-> {}, prints |-> TRUE])

WriteCall ==
  \E a \in OtpAddrs, v \in OtpWrites :
    Begin([op |-> "write", list |-> <<a>>, val |-> v, prints |-> FALSE])

(* The command that is not in the table of commands yet. *)
OtpWriteCommand ==
  \E a \in OtpAddrs, v \in OtpWrites :
    Begin([op |-> "write", list |-> <<a>>, val |-> v, prints |-> TRUE])

(* otp_read_open writes the address; otp_enable_program begins with the    *)
(* first word of its sequence.                                             *)
ReadReg   == [addr |-> Head(call.list), bitsel |-> otpReg.bitsel, data |-> {}]
EnableReg == [addr |-> 0, bitsel |-> EnableSeq[1], data |-> {}]

(* otp_open, and what the call begins with. *)
Open ==
  /\ otpPc = "open"
  /\ otpPc' = (IF call.op = "read" THEN "read" ELSE IF call.prints THEN "before" ELSE "enable")
  /\ otpReg' = (IF otpPc' = "enable" THEN EnableReg ELSE ReadReg)
  /\ count' = 1
  /\ UNCHANGED <<started, call, pass, bitDone, todo, failed, got, otpResult,
                 running, unlocked, progOn, progOk, fuses, otpCalls, late, otpGhost>>

(* What each step of the driver starts. *)
Give ==
  /\ otpPc \in {"read", "before", "after", "enable", "old", "burn", "verify", "disable"}
  /\ StartCommand(IF otpPc \in {"before", "after", "old"} THEN "read" ELSE otpPc)
  /\ UNCHANGED <<otpPc, call, count, pass, bitDone, todo, failed, got, otpResult,
                 otpReg, unlocked, progOn, progOk, fuses, otpCalls, late, otpGhost>>

(* otp_read_open returns the data, or -1, which is all ones. *)
Value == IF Ran THEN otpReg.data ELSE AllOnes

(* otp_read returns; the next word of a list is opened. *)
ReadDone ==
  /\ otpPc = "read" /\ CommandOver
  /\ got' = Value
  /\ call' = [call EXCEPT !.list = Tail(@)]
  /\ otpPc' = IF Len(call.list) = 1 THEN "idle" ELSE "open"
  /\ UNCHANGED <<count, pass, bitDone, todo, failed, otpResult, otpHard, otpCalls, otpGhost>>

-----------------------------------------------------------------------------
(* otp_write. *)

Return(r) ==
  /\ otpPc' = (IF call.prints THEN "told" ELSE "idle") /\ otpResult' = r
  /\ trusted' = (trusted /\ r = "ok")

(* cmd_otp_write prints the word before the write and after it, however    *)
(* the write ends, and does not open the controller again in between.      *)
OldPrinted ==
  /\ otpPc = "before" /\ CommandOver
  /\ got' = Value
  /\ otpPc' = "enable" /\ otpReg' = [otpReg EXCEPT !.bitsel = EnableSeq[1]]
  /\ UNCHANGED <<call, count, pass, bitDone, todo, failed, otpResult,
                 running, unlocked, progOn, progOk, fuses, otpCalls, otpGhost>>

ResultPrinted ==
  /\ otpPc = "told"
  /\ otpPc' = "after" /\ otpReg' = [otpReg EXCEPT !.addr = Head(call.list)]
  /\ UNCHANGED <<started, call, count, pass, bitDone, todo, failed, got, otpResult,
                 running, unlocked, progOn, progOk, fuses, otpCalls, late, otpGhost>>

NewPrinted ==
  /\ otpPc = "after" /\ CommandOver
  /\ got' = Value
  /\ otpPc' = "idle"
  /\ UNCHANGED <<call, count, pass, bitDone, todo, failed, otpResult, otpHard, otpCalls, otpGhost>>

(* A word of the enabling sequence. *)
EnableDone ==
  /\ otpPc = "enable" /\ CommandDone
  /\ IF count < Len(EnableSeq)
     THEN /\ count' = count + 1
          /\ otpReg' = [otpReg EXCEPT !.bitsel = EnableSeq[count + 1]]
          /\ UNCHANGED otpPc
     ELSE otpPc' = "enabled" /\ UNCHANGED <<count, otpReg>>
  /\ UNCHANGED <<call, pass, bitDone, todo, failed, got, otpResult,
                 running, unlocked, progOn, progOk, fuses, otpCalls, otpGhost>>

EnableFails ==
  /\ otpPc = "enable" /\ CommandLate
  /\ Return("enable")
  /\ UNCHANGED <<call, count, pass, bitDone, todo, failed, got, otpHard, otpCalls, noOld>>

(* The controller says that programming is enabled, or does not in time.   *)
Enabled ==
  /\ otpPc = "enabled" /\ progOn
  /\ otpPc' = "old"
  /\ otpReg' = [otpReg EXCEPT !.addr = Head(call.list)]
  /\ UNCHANGED <<started, call, count, pass, bitDone, todo, failed, got, otpResult,
                 running, unlocked, progOn, progOk, fuses, otpCalls, late, otpGhost>>

NotEnabled ==
  /\ otpPc = "enabled" /\ ~progOn
  /\ late < MaxLate /\ late' = late + 1
  /\ Return("enable")
  /\ UNCHANGED <<started, call, count, pass, bitDone, todo, failed, got,
                 otpHard, otpCalls, noOld>>

(* Mutant: every bit of the value the word does not have is taken to be    *)
(* one that must be burned.                                                *)
AllMissing(old) == OtpBits \ old

(* The bits to be burned: none that are, and none that are not asked for.  *)
Missing(old) == call.val \ old

(* The next bit is begun, or programming disabled when there is none.      *)
NextBit(bits) ==
  /\ todo' = bits
  /\ bitDone' = FALSE /\ pass' = 1 /\ count' = 1
  /\ IF bits = {}
     THEN otpPc' = "disable" /\ UNCHANGED otpReg
     ELSE otpPc' = "burn" /\ otpReg' = [otpReg EXCEPT !.bitsel = Min(bits)]

(* The old value is known.  All ones stand for a failure to read it, with  *)
(* which the function returns 0.                                           *)
OldValue ==
  /\ otpPc = "old" /\ CommandOver
  /\ got' = Value
  /\ failed' = 0
  /\ noOld' = (got' = AllOnes)
  /\ NextBit(IF got' = AllOnes THEN {} ELSE Missing(got'))
  /\ UNCHANGED <<call, otpResult, running, unlocked, progOn, progOk, fuses, otpCalls, trusted>>

(* The first command of an attempt, whose result nobody looks at. *)
BurnOver ==
  /\ otpPc = "burn" /\ CommandOver
  /\ otpPc' = "verify"
  /\ UNCHANGED <<call, count, pass, bitDone, todo, failed, got, otpResult,
                 otpHard, otpCalls, otpGhost>>

(* Mutant: an attempt has succeeded when its command has run. *)
AttemptRan == Ran

AttemptOk == Ran /\ progOk

(* Another attempt, the second pass, or the next bit. *)
AfterAttempt(ok) ==
  CASE ~ok /\ count < Retries ->
         /\ otpPc' = "burn" /\ count' = count + 1
         /\ UNCHANGED <<pass, bitDone, todo, failed, otpReg>>
    [] (ok \/ count = Retries) /\ pass = 1 ->
         /\ otpPc' = "burn" /\ count' = 1 /\ pass' = 2
         /\ bitDone' = ok
         /\ UNCHANGED <<todo, failed, otpReg>>
    [] OTHER ->
         /\ NextBit(todo \ {Min(todo)})
         /\ failed' = IF ok \/ bitDone THEN failed ELSE failed + 1

VerifyOver ==
  /\ otpPc = "verify" /\ CommandOver
  /\ AfterAttempt(AttemptOk)
  /\ UNCHANGED <<call, got, otpResult, running, unlocked, progOn, progOk, fuses,
                 otpCalls, otpGhost>>

(* otp_write_open: a bit that failed comes before a failure to disable.    *)
WriteResult(off) == IF failed > 0 THEN "program" ELSE IF off THEN "ok" ELSE "disable"

DisableOver ==
  /\ otpPc = "disable" /\ CommandOver
  /\ Return(WriteResult(Ran))
  /\ UNCHANGED <<call, count, pass, bitDone, todo, failed, got, otpHard, otpCalls, noOld>>

-----------------------------------------------------------------------------
(* The controller. *)

HwRead ==
  /\ running.op = "read"
  /\ \E a \in {running.addr, otpReg.addr} : otpReg' = [otpReg EXCEPT !.data = fuses[a]]
  /\ UNCHANGED <<unlocked, progOn, progOk, fuses>>

(* It counts the words of the sequence it sees in their order. *)
HwEnable ==
  /\ running.op = "enable"
  /\ unlocked' = IF unlocked < Len(EnableSeq) /\ EnableSeq[unlocked + 1] = running.bit
                 THEN unlocked + 1
                 ELSE IF running.bit = EnableSeq[1] THEN 1 ELSE 0
  /\ UNCHANGED <<otpReg, progOn, progOk, fuses>>

HwDisable ==
  /\ running.op = "disable"
  /\ unlocked' = 0 /\ progOn' = FALSE
  /\ UNCHANGED <<otpReg, progOk, fuses>>

(* A pulse burns the fuse, or does not. *)
HwBurn ==
  /\ running.op = "burn"
  /\ \/ UNCHANGED fuses
     \/ /\ progOn
        /\ \E at \in {<<running.addr, running.bit>>, <<otpReg.addr, otpReg.bitsel>>} :
             fuses' = [fuses EXCEPT ![at[1]] = @ \cup {at[2]}]
  /\ UNCHANGED <<otpReg, unlocked, progOn, progOk>>

HwVerify ==
  /\ running.op = "verify"
  /\ progOk' = (running.bit \in fuses[running.addr])
  /\ UNCHANGED <<otpReg, unlocked, progOn, fuses>>

HwCommand ==
  /\ HwRead \/ HwEnable \/ HwDisable \/ HwBurn \/ HwVerify
  /\ running' = NoCmd
  /\ UNCHANGED <<otpDriver, otpCalls, late, otpGhost>>

(* With the whole sequence seen, programming is enabled some time later.   *)
HwUnlock ==
  /\ unlocked = Len(EnableSeq) /\ ~progOn
  /\ progOn' = TRUE
  /\ UNCHANGED <<otpDriver, otpReg, running, unlocked, progOk, fuses, otpCalls, late, otpGhost>>

-----------------------------------------------------------------------------
OtpInit ==
  /\ otpPc = "idle" /\ started = FALSE
  /\ call = [op |-> "read", list |-> <<>>, val |-> {}, prints |-> FALSE]
  /\ count = 1 /\ pass = 1 /\ bitDone = FALSE /\ todo = {} /\ failed = 0
  /\ got = {} /\ otpResult = "ok"
  /\ otpReg = [addr |-> 0, bitsel |-> 0, data |-> {}]
  /\ running = NoCmd /\ unlocked = 0 /\ progOn = FALSE /\ progOk = FALSE
  /\ fuses \in OtpFuses
  /\ otpCalls = 0 /\ late = 0 /\ noOld = FALSE /\ trusted = TRUE

OtpDriver ==
  \/ Open \/ Give \/ ReadDone \/ EnableDone \/ EnableFails \/ Enabled \/ NotEnabled
  \/ OldValue \/ BurnOver \/ VerifyOver \/ DisableOver \/ OldPrinted \/ ResultPrinted \/ NewPrinted

OtpNext == ReadCall \/ WriteCall \/ OtpWriteCommand \/ OtpDriver \/ HwCommand \/ HwUnlock

OtpSpec == OtpInit /\ [][OtpNext]_otpVars

-----------------------------------------------------------------------------
OtpTypeOK ==
  /\ otpPc \in {"idle", "open", "read", "before", "enable", "enabled", "old", "burn", "verify", "disable",
                "told", "after"}
  /\ started \in BOOLEAN
  /\ call \in [op : {"read", "write"}, list : Seq(OtpAddrs), val : SUBSET OtpBits, prints : BOOLEAN]
  /\ count \in Nat /\ pass \in {1, 2} /\ bitDone \in BOOLEAN
  /\ todo \subseteq OtpBits /\ failed \in Nat /\ got \subseteq 0..31
  /\ otpResult \in {"ok", "enable", "program", "disable"}
  /\ otpReg \in [addr : OtpAddrs, bitsel : 0..31, data : SUBSET (0..31)]
  /\ running \in [op : {"none"} \cup OtpCommand,
                  addr : OtpAddrs, bit : 0..31]
  /\ unlocked \in 0..4 /\ progOn \in BOOLEAN /\ progOk \in BOOLEAN
  /\ fuses \in [OtpAddrs -> SUBSET (0..31)]
  /\ otpCalls \in 0..MaxOtp /\ late \in 0..MaxLate
  /\ noOld \in BOOLEAN /\ trusted \in BOOLEAN

(* A fuse is burned only in the word that is being written, and only for a *)
(* bit of the value.  A pulse that outlasts every wait may come later, but *)
(* then the write has reported an error.                                   *)
OnlyAsked ==
  [][trusted => \A a \in OtpAddrs : \A b \in fuses'[a] \ fuses[a] :
       call.op = "write" /\ otpPc # "idle" /\ a = Head(call.list) /\ b \in call.val]_otpVars

(* When otp_write returns 0, programming is disabled, and the fuses are    *)
(* burned that it was asked for, unless the old value could not be read.   *)
WriteKeepsItsWord ==
  otpPc = "idle" /\ call.op = "write" /\ otpResult = "ok" =>
    /\ ~progOn
    /\ noOld \/ call.val \subseteq fuses[Head(call.list)]
=============================================================================
