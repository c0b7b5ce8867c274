------------------------------- MODULE SdHost -------------------------------
(***************************************************************************)
(* The SD card: BCM2708SDHost and its caller sdhost_read_block_wrap        *)
(* (platform/bcm28xx/sdhost/sdhost_impl.cpp), with the controller and the  *)
(* card they drive.                                                        *)
(*                                                                         *)
(* The driver resets the controller, asks the card to start and waits      *)
(* until it has, identifies and selects it, makes three reads that nobody  *)
(* wants, and then reads sectors.  stage1 does so, and stage2 again, on a  *)
(* card and a controller as stage1 left them.                              *)
(*                                                                         *)
(* A sector is read with the command for many blocks: once it runs, the    *)
(* card sends words, those of the sectors after it included, until a stop  *)
(* command reaches it.  The driver takes the words of one sector from the  *)
(* controller's FIFO, sends the stop command, and does not wait for it.    *)
(* Polling loops give up after a second.                                   *)
(*                                                                         *)
(* The controller and the card are hardware, modelled from how the driver  *)
(* uses them.  A word is named by its sector and its place in the sector.  *)
(***************************************************************************)
EXTENDS Naturals, Sequences

CONSTANTS
  Words,      (* words in a sector: 128 in the code                       *)
  BlockSize,  (* bytes in a sector: 512                                   *)
  FifoSize,   (* words the controller's FIFO holds                        *)
  Sectors,    (* sectors on the card                                      *)
  Kinds,      (* cards: "v1" does not know CMD8, "hc" has block addresses *)
  SizeShift,  (* a large card gives its size in units of 2^SizeShift ...  *)
  V2BlLen,    (* ... blocks of 2^V2BlLen bytes: 10 and 9                  *)
  Register,   (* the CSD of each kind of card, in its 16 bytes           *)
  Flushes,    (* reads that nobody wants: 3                               *)
  MaxImages,  (* bound: images that start the driver                      *)
  MaxReads,   (* bound: sectors read in one behaviour                     *)
  MaxFaults   (* bound: faults of the card and the controller             *)

ASSUME SdHostAssumption ==
  /\ Words \in Nat \ {0} /\ FifoSize \in Nat \ {0} /\ Sectors \in Nat \ {0}
  /\ BlockSize \in Nat \ {0} /\ Kinds \subseteq {"v1", "v2", "hc"}
  /\ SizeShift \in Nat /\ V2BlLen \in Nat /\ Register \in [Kinds -> [0..15 -> 0..255]]
  /\ Flushes \in Nat \ {0} /\ MaxImages \in Nat
  /\ MaxReads \in Nat /\ MaxFaults \in Nat

VARIABLES
  pc,       (* the step that comes next; "dead" after a panic *)
  sector,   (* the sector that is read, or was last *)
  buf,      (* the words taken for it *)
  broken,   (* has the loop over its words been left early? *)
  result,   (* what real_read_block returned last *)
  reads,    (* reads begun so far, for the bound *)
  r,        (* the answer in r[0..3] *)
  hcs,      (* does the driver tell the card that it knows large ones? *)
  highCapacity, (* is_high_capacity *)
  csd,      (* the version of the card's CSD *)
  blocks,   (* capacity_bytes / block_size *)
  flushes,  (* the reads that nobody wants, still to come *)
  images,   (* images so far, for the bound *)
  cmd,      (* the command in SH_CMD while its NEW flag is set, or NoCommand *)
  fail,     (* the FAIL flag of SH_CMD *)
  error,    (* is a bit of SDHSTS_ERROR_MASK set in SH_HSTS? *)
  rsp,      (* the answer in SH_RSP0..3 *)
  fifo,     (* the words in the controller's FIFO *)
  card,     (* the word the card sends next; Idle, or Silent after a failure *)
  state,    (* the state of the card in its identification *)
  app,      (* is the next command an application's? *)
  started,  (* has the card started: "no", "starting", "yes"? *)
  kind,     (* of the card *)
  faults,   (* faults so far *)
  hit,      (* history: a fault since this read began, or since the reset? *)
  unseen    (* history: has a command not run, or failed, and nobody looked? *)

readVars   == <<sector, buf, broken, result, reads>>
(* What BCM2708SDHost keeps of the card, and how often it is asked.        *)
askVars    == <<r, hcs, highCapacity, csd, blocks, flushes, images>>
(* The controller's registers SH_CMD, SH_HSTS, SH_RSP0..3, and its FIFO.   *)
hostVars   == <<cmd, fail, error, rsp, fifo>>
cardVars   == <<card, state, app, started, kind>>
ghostVars  == <<faults, hit, unseen>>
vars       == <<pc, readVars, askVars, hostVars, cardVars, ghostVars>>

NoCommand == [op |-> "none", arg |-> 0]
(* A command by its name, instead of its number. *)
Op(op)    == [op |-> op, arg |-> 0]
ReadAt(a) == [op |-> "read", arg |-> a]
Stop      == Op("stop")

Idle   == <<0, 0>>
Silent == <<0, 1>>

Sending(c) == c \notin {Idle, Silent}

(* The word after c on the card, which has nothing to send after its last. *)
After(c) ==
  CASE c[2] < Words                     -> <<c[1], c[2] + 1>>
    [] c[2] = Words /\ c[1] < Sectors -> <<c[1] + 1, 1>>
    [] OTHER                            -> Silent

Fault == faults < MaxFaults /\ faults' = faults + 1 /\ hit' = TRUE

-----------------------------------------------------------------------------
(* The commands. *)

(* wait(): the command before has run, or a second is over.                *)
Waited == cmd = NoCommand /\ UNCHANGED <<faults, hit>>
TimedOut == cmd # NoCommand /\ Fault

(* Most callers do not look at which.                                      *)
Wait ==
  \/ Waited /\ UNCHANGED unseen
  \/ TimedOut /\ unseen' = TRUE

(* Mutant: the error bits of the last command stay set. *)
SendKeepsErrors(c) ==
  /\ Wait
  /\ UNCHANGED error
  /\ cmd' = c /\ fail' = FALSE

(* send_raw clears what is left of the last command's errors, and writes   *)
(* the command.                                                            *)
SendRaw(c) ==
  /\ Wait
  /\ error' = FALSE
  /\ cmd' = c /\ fail' = FALSE

(* wait_and_get_response: true with the answer, false with it if the       *)
(* command failed, false without one if it has not run.                    *)
Answered == Waited /\ UNCHANGED unseen /\ ~fail /\ r' = rsp
Refused ==
  /\ UNCHANGED unseen
  /\ \/ Waited /\ fail /\ r' = rsp
     \/ TimedOut /\ UNCHANGED r

Goes(from, to) == pc = from /\ pc' = to

Send(from, c, to) ==
  /\ Goes(from, to) /\ SendRaw(c)
  /\ UNCHANGED <<readVars, askVars, rsp, fifo, cardVars>>

-----------------------------------------------------------------------------
(* restart_controller. *)

(* reset(), the power off and on again: no command is left, and no error.  *)
(* The card may lose its state or not, and the controller its FIFO.        *)
Reset ==
  /\ Goes("reset", "goIdle")
  /\ cmd' = NoCommand /\ fail' = FALSE /\ error' = FALSE /\ fifo' \in {fifo, <<>>}
  /\ \/ UNCHANGED <<card, state, started, app>>
     \/ card' = Idle /\ state' = "idle" /\ started' = "no" /\ app' = FALSE
  /\ UNCHANGED <<readVars, askVars, rsp, kind, ghostVars>>

GoIdle == Send("goIdle", Op("goIdle"), "ifCond")
IfCond == Send("ifCond", Op("ifCond"), "ifAnswer")

(* Mutant: the driver does not tell. *)
KnowsLargeNever(answer) == FALSE

KnowsLarge(answer) == answer = "check"

(* Whether the card has answered with the check pattern tells what it may  *)
(* be asked; the result of wait_and_get_response is not looked at.         *)
IfAnswer ==
  /\ Goes("ifAnswer", "app")
  /\ Answered \/ Refused
  /\ hcs' = KnowsLarge(r')
  /\ UNCHANGED <<readVars, highCapacity, csd, blocks, flushes, images, hostVars, cardVars>>

AppCmd == Send("app", Op("app"), "opCond")
OpCond == Send("opCond", [op |-> "opCond", arg |-> IF hcs THEN 1 ELSE 0], "opAnswer")

(* The loop is left when the card has started; what it says then of its    *)
(* size is how it will be addressed.                                       *)
OpAnswer ==
  /\ pc = "opAnswer"
  /\ \/ /\ Answered
        /\ pc' = IF r' \in {"ready", "readyHc"} THEN "allCid" ELSE "app"
        /\ highCapacity' = IF pc' = "app" THEN highCapacity ELSE r' = "readyHc"
     \/ Refused /\ pc' = "dead" /\ UNCHANGED highCapacity
  /\ UNCHANGED <<readVars, hcs, csd, blocks, flushes, images, hostVars, cardVars>>

(* identify_card: commands whose answer counts. *)
Ask(op, to) == Send(op, Op(op), to)

Answer(from, next) ==
  /\ pc = from
  /\ \/ Answered /\ pc' = next
     \/ Refused /\ pc' = "dead"
  /\ UNCHANGED <<readVars, hcs, highCapacity, csd, blocks, flushes, images, hostVars, cardVars>>

(* The first bit that __bitfield takes in its n-th step, ... *)
FirstOf(start, n) == IF n = 0 THEN start ELSE 8 * (start \div 8 + n)

(* Mutant: each step is taken to have given eight bits.                    *)
ShiftWhole(start, n) == 8 * n

(* ... and the place it has in the field, behind the bits of the steps     *)
(* before.                                                                 *)
Shift(start, n) == FirstOf(start, n) - start

(* What it takes in the step; no field that the driver reads is in more    *)
(* than four bytes.                                                        *)
Taken(bytes, start, len, n) ==
  LET first == FirstOf(start, n)
  IN  IF first < start + len
      THEN (bytes[first \div 8] \div 2^(first % 8)) * 2^Shift(start, n) ELSE 0

(* At the end it cuts off what the last byte has too much.                 *)
Field(bytes, start, len) ==
  (Taken(bytes, start, len, 0) + Taken(bytes, start, len, 1) + Taken(bytes, start, len, 2)
     + Taken(bytes, start, len, 3)) % 2^len

CsdVersion(bytes) ==
  CASE Field(bytes, 126, 2) = 1 -> "csd2" [] Field(bytes, 126, 2) = 0 -> "csd1" [] OTHER -> "csd"

CapacityV1(bytes) == (Field(bytes, 62, 12) + 1) * 2^(Field(bytes, 47, 3) + 2)

CapacityV2(bytes) == (Field(bytes, 48, 22) + 1) * 2^SizeShift

(* The capacity in bytes, from the card's CSD.  (A 32-bit product in the   *)
(* code, that of a card of 1 TB overflows; none is that large here.)       *)
Capacity(version, bytes) ==
  IF version = "csd2" THEN CapacityV2(bytes) * 2^V2BlLen
                      ELSE CapacityV1(bytes) * 2^Field(bytes, 80, 4)

(* An unknown version ends the identification.                             *)
CsdAnswer ==
  /\ pc = "sendCsdAnswer"
  /\ \/ Answered /\ pc' = IF r' \in {"csd1", "csd2"} THEN "select" ELSE "dead"
     \/ Refused /\ pc' = "dead"
  /\ csd' = r'
  /\ blocks' = IF pc' = "select" THEN Capacity(csd', Register[kind]) \div BlockSize ELSE 0
  /\ UNCHANGED <<readVars, hcs, highCapacity, flushes, images, hostVars, cardVars>>

IdentifyCard ==
  \/ Ask("allCid", "allCidAnswer") \/ Answer("allCidAnswer", "relAddr")
  \/ Ask("relAddr", "relAddrAnswer") \/ Answer("relAddrAnswer", "sendCid")
  \/ Ask("sendCid", "sendCidAnswer") \/ Answer("sendCidAnswer", "sendCsd")
  \/ Ask("sendCsd", "sendCsdAnswer") \/ CsdAnswer

(* select_card and the block length: only that the command has run counts, *)
(* not whether it has failed.                                              *)
Ran(from, to) ==
  /\ pc = from
  /\ \/ Waited /\ pc' = to /\ unseen' = (unseen \/ fail)
     \/ TimedOut /\ pc' = "dead" /\ UNCHANGED unseen
  /\ UNCHANGED <<readVars, askVars, hostVars, cardVars>>

SelectCard == Ask("select", "selectAnswer") \/ Ran("selectAnswer", IF csd = "csd1" THEN "blockLen" ELSE "ready")

SetBlocklen == Ask("blockLen", "blockLenAnswer") \/ Ran("blockLenAnswer", "ready")

(* The clock of the data mode; then the reads that nobody wants.           *)
CardReady ==
  /\ Goes("ready", "flush")
  /\ flushes' = Flushes
  /\ UNCHANGED <<readVars, r, hcs, highCapacity, csd, blocks, images, hostVars, cardVars, ghostVars>>

(* stage2's driver knows nothing of stage1's. *)
NextImage ==
  /\ Goes("idle", "reset")
  /\ images < MaxImages /\ images' = images + 1
  /\ r' = "none" /\ hcs' = FALSE /\ highCapacity' = FALSE /\ csd' = "none" /\ blocks' = 0 /\ flushes' = 0
  /\ buf' = <<>> /\ broken' = FALSE /\ result' = TRUE
  /\ hit' = FALSE /\ unseen' = FALSE
  /\ UNCHANGED <<sector, reads, hostVars, cardVars, faults>>

Restart ==
  \/ Reset \/ GoIdle \/ IfCond \/ IfAnswer \/ AppCmd \/ OpCond \/ OpAnswer
  \/ IdentifyCard \/ SelectCard \/ SetBlocklen \/ CardReady

-----------------------------------------------------------------------------
(* real_read_block. *)

(* sdhost_read_block_wrap asks for a sector: the next of a request, or the *)
(* first of another one.  A request is within the size that LK was told.   *)
Begin ==
  /\ Goes("idle", "begin")
  /\ reads < MaxReads /\ reads' = reads + 1
  /\ sector' \in 1..blocks /\ buf' = <<>> /\ broken' = FALSE
  /\ hit' = FALSE
  /\ UNCHANGED <<result, askVars, hostVars, cardVars, faults, unseen>>

(* A read of the first sector, whose words go nowhere.                     *)
Flush ==
  /\ Goes("flush", "begin")
  /\ flushes' = flushes - 1
  /\ sector' = 1 /\ buf' = <<>> /\ broken' = FALSE
  /\ hit' = FALSE
  /\ UNCHANGED <<result, reads, r, hcs, highCapacity, csd, blocks, images, hostVars, cardVars, faults, unseen>>

(* The wait of drain_fifo. *)
DrainWait ==
  /\ Goes("begin", "drain")
  /\ Wait
  /\ UNCHANGED <<readVars, askVars, hostVars, cardVars>>

DrainWord ==
  /\ pc = "drain" /\ fifo # <<>>
  /\ fifo' = Tail(fifo)
  /\ UNCHANGED <<pc, readVars, askVars, cmd, fail, error, rsp, cardVars, ghostVars>>

(* Mutant: the FIFO is not emptied. *)
DrainNothing ==
  /\ Goes("drain", "command")
  /\ UNCHANGED <<readVars, askVars, hostVars, cardVars, ghostVars>>

DrainEnds ==
  /\ Goes("drain", "command") /\ fifo = <<>>
  /\ UNCHANGED <<readVars, askVars, hostVars, cardVars, ghostVars>>

(* Large cards have block addresses, the others byte addresses.            *)
Address(s) == IF highCapacity THEN s ELSE s * BlockSize

SendRead == Send("command", ReadAt(Address(sector)), "words")

(* Mutant: the wait for a word never gives up. *)
WaitForEver == FALSE

(* wait_for_fifo_data saw a word, and SH_HSTS no error.                    *)
TakeWord ==
  /\ pc = "words" /\ fifo # <<>> /\ ~error
  /\ buf' = Append(buf, Head(fifo)) /\ fifo' = Tail(fifo)
  /\ pc' = IF Len(buf') = Words THEN "stop" ELSE pc
  /\ UNCHANGED <<sector, broken, result, reads, askVars, cmd, fail, error, rsp, cardVars, ghostVars>>

(* A word is there, but SH_HSTS has an error: the loop is left.            *)
TransferError ==
  /\ Goes("words", "stop") /\ fifo # <<>> /\ error
  /\ broken' = TRUE
  /\ UNCHANGED <<sector, buf, result, reads, askVars, hostVars, cardVars, ghostVars>>

(* No word for a second: the loop is left.  That is so when none will come,*)
(* and a fault when the controller or the card is that slow.               *)
NoFifoData ==
  /\ Goes("words", "stop") /\ fifo = <<>>
  /\ IF cmd = NoCommand /\ ~Sending(card) THEN UNCHANGED <<faults, hit>> ELSE Fault
  /\ broken' = TRUE
  /\ UNCHANGED <<sector, buf, result, reads, askVars, hostVars, cardVars, unseen>>

(* The function ends on its own hsts_err, which is 0 from its declaration  *)
(* on: the loop assigns to another variable of that name, its own.         *)
HstsErr == FALSE

(* A read that nobody wants is a panic if it fails.                        *)
AfterRead(ok) == CASE ~ok /\ flushes > 0 -> "dead" [] flushes > 0 -> "flush" [] OTHER -> "idle"

SendStop ==
  /\ pc = "stop" /\ pc' = AfterRead(~HstsErr)
  /\ SendRaw(Stop)
  /\ result' = ~HstsErr
  /\ UNCHANGED <<sector, buf, broken, reads, askVars, rsp, fifo, cardVars>>

-----------------------------------------------------------------------------
(* The controller and the card. *)

(* What the card does with a command that it takes. *)
Moves(to, answer) == state' = to /\ rsp' = answer

Stays == UNCHANGED <<card, started>>

CardSize == IF kind = "hc" THEN "readyHc" ELSE "ready"

(* The sector at an address, as the card understands it.                   *)
At(a) == IF kind = "hc" THEN a ELSE a \div BlockSize

Takes(c) ==
  CASE c.op = "ifCond"  -> kind # "v1" /\ state = "idle"
    [] c.op = "app"     -> state = "idle"
    [] c.op = "opCond"  -> state = "idle" /\ app
    [] c.op = "allCid"  -> state = "ready"
    [] c.op = "relAddr" -> state \in {"ident", "stby"}
    [] c.op \in {"sendCid", "sendCsd", "select"} -> state = "stby"
    [] c.op = "blockLen" -> state = "tran" /\ card = Idle
    [] c.op = "read"    -> state = "tran" /\ card = Idle /\ At(c.arg) \in 1..Sectors
    [] OTHER            -> TRUE

Does(c) ==
  CASE c.op = "goIdle"  -> card' = Idle /\ started' = "no" /\ Moves("idle", rsp)
    [] c.op = "ifCond"  -> Stays /\ Moves(state, "check")
    [] c.op = "app"     -> Stays /\ Moves(state, "r1")
    [] c.op = "opCond"  -> /\ started' = IF started = "no" /\ (kind = "hc" => c.arg = 1)
                                         THEN "starting" ELSE started
                           /\ IF started = "yes" THEN Moves("ready", CardSize)
                                                 ELSE Moves("idle", "busy")
                           /\ UNCHANGED card
    [] c.op = "allCid"  -> Stays /\ Moves("ident", "cid")
    [] c.op = "relAddr" -> Stays /\ Moves("stby", "rca")
    [] c.op = "sendCid" -> Stays /\ Moves(state, "cid")
    [] c.op = "sendCsd" -> Stays /\ Moves(state, CsdVersion(Register[kind]))
    [] c.op = "select"  -> Stays /\ Moves("tran", "r1")
    [] c.op = "blockLen" -> Stays /\ Moves(state, "r1")
    [] c.op = "read"    -> card' = <<At(c.arg), 1>> /\ UNCHANGED started /\ Moves(state, "r1")
    [] c.op = "stop"    -> card' = Idle /\ UNCHANGED started /\ Moves(state, "r1")

(* No answer is an error, but for commands that have none.                 *)
NoAnswer(c) ==
  /\ UNCHANGED rsp
  /\ IF c.op \in {"goIdle", "opCond"} THEN UNCHANGED <<fail, error>>
                                     ELSE fail' = TRUE /\ error' = TRUE

(* A command runs: the card does it and answers, or does not answer.       *)
RunCommand ==
  /\ cmd # NoCommand /\ cmd' = NoCommand
  /\ app' = (cmd.op = "app" /\ state = "idle")
  /\ IF Takes(cmd) THEN Does(cmd) /\ UNCHANGED <<fail, error>>
                   ELSE NoAnswer(cmd) /\ UNCHANGED <<card, state, started>>
  /\ UNCHANGED <<pc, readVars, askVars, fifo, kind, ghostVars>>

(* The card starts, once it has been asked in words that it understands.   *)
CardStarts ==
  /\ started = "starting" /\ started' = "yes"
  /\ UNCHANGED <<pc, readVars, askVars, hostVars, card, state, app, kind, ghostVars>>

SendWord ==
  /\ Sending(card) /\ Len(fifo) < FifoSize
  /\ fifo' = Append(fifo, card) /\ card' = After(card)
  /\ UNCHANGED <<pc, readVars, askVars, cmd, fail, error, rsp, state, app, started, kind, ghostVars>>

(* The command does not reach the card. *)
CommandLost ==
  /\ Fault
  /\ cmd \notin {NoCommand, Stop} /\ cmd' = NoCommand
  /\ NoAnswer(cmd)
  /\ UNCHANGED <<pc, readVars, askVars, fifo, cardVars, unseen>>

(* A wrong checksum: the words come, and the error bit is set.             *)
DataError ==
  /\ Fault
  /\ Sending(card) /\ ~error /\ error' = TRUE
  /\ UNCHANGED <<pc, readVars, askVars, cmd, fail, rsp, fifo, cardVars, unseen>>

(* The card stops sending; the next stop command brings it back.           *)
CardFails ==
  /\ Fault
  /\ Sending(card) /\ card' = Silent
  /\ error' \in {error, TRUE}
  /\ UNCHANGED <<pc, readVars, askVars, cmd, fail, rsp, fifo, state, app, started, kind, unseen>>

-----------------------------------------------------------------------------
(* What the boot ROM may have left: a card that it has read from, and that *)
(* is still sending.                                                       *)
Init ==
  /\ pc = "reset" /\ sector = 1 /\ buf = <<>> /\ broken = FALSE /\ result = TRUE
  /\ r = "none" /\ hcs = FALSE /\ highCapacity = FALSE /\ csd = "none" /\ blocks = 0 /\ flushes = 0 /\ images = 1
  /\ cmd \in {NoCommand, Stop} /\ fail = FALSE /\ error \in BOOLEAN /\ rsp = "r1"
  /\ fifo \in {<<>>, <<<<1, 1>>>>}
  /\ \/ card = Idle /\ state = "idle" /\ started = "no"
     \/ card \in {Idle, <<1, 1>>} /\ state = "tran" /\ started = "yes"
  /\ app = FALSE /\ kind \in Kinds
  /\ reads = 0 /\ faults = 0 /\ hit = FALSE /\ unseen = FALSE

Driver ==
  \/ Restart \/ NextImage \/ Begin \/ Flush \/ DrainWait \/ DrainWord \/ DrainEnds \/ SendRead
  \/ TakeWord \/ TransferError \/ NoFifoData \/ SendStop

Host == RunCommand \/ SendWord \/ CardStarts

Next == Driver \/ Host \/ CommandLost \/ DataError \/ CardFails

(* The polling loops go on, the controller runs the commands it is given,  *)
(* and the card starts and sends.                                          *)
Spec ==
  /\ Init /\ [][Next]_vars
  /\ WF_vars(Driver) /\ WF_vars(RunCommand) /\ WF_vars(SendWord) /\ WF_vars(CardStarts)

-----------------------------------------------------------------------------
(* Properties. *)

Word == (1..Sectors) \X (1..Words)

Answers == {"none", "check", "r1", "busy", "ready", "readyHc", "cid", "rca", "csd1", "csd2", "csd"}

TypeOK ==
  /\ pc \in STRING
  /\ sector \in 1..Sectors /\ reads \in 0..MaxReads /\ images \in 0..(MaxImages + 1)
  /\ buf \in Seq(Word) /\ Len(buf) <= Words
  /\ {broken, result, hcs, highCapacity, fail, error, app, hit, unseen} \subseteq BOOLEAN
  /\ {r, rsp, csd} \subseteq Answers /\ flushes \in 0..Flushes /\ blocks \in Nat
  /\ cmd.arg \in 0..(Sectors * BlockSize)
  /\ fifo \in Seq(Word) /\ Len(fifo) <= FifoSize
  /\ card \in Word \cup {Idle, Silent}
  /\ state \in {"idle", "ready", "ident", "stby", "tran"}
  /\ started \in {"no", "starting", "yes"} /\ kind \in Kinds
  /\ faults \in 0..MaxFaults

(* The driver works out the size that the card has, whichever way the card *)
(* gives it, and whatever else there is in its CSD.                        *)
KnowsSize == blocks \in {0, Sectors}

(* What is stored for a sector are the words of that sector, from the      *)
(* first on, in whichever unit the card is addressed: none that the card   *)
(* still sent for the sector before, or for an image before, or that were  *)
(* left in the FIFO, as long as no failed command has gone unnoticed.      *)
RightWords == ~unseen => \A i \in 1..Len(buf) : buf[i] = <<sector, i>>

(* A read breaks off, and the driver panics, only for a fault of its own   *)
(* time: an error, a failure of the card or a stop command that a read or  *)
(* an image before left behind does not disturb what comes after.          *)
BreaksOnlyOnFault == (broken \/ pc = "dead") /\ ~unseen => hit

(* Every read comes back, whatever the card does. *)
ReadsReturn == (pc = "begin") ~> (pc \in {"idle", "flush"})

(* A card that does not hear what it is asked to start with. *)
Deaf == state # "idle" \/ (kind = "hc" /\ ~hcs)

(* The driver comes up, or panics: the loop that waits for the card to     *)
(* start ends, though it has no bound (249), unless one of the first two   *)
(* commands was lost, whose failure is not looked at.                      *)
ComesUp == (pc = "reset") ~> (pc \in {"idle", "dead"} \/ (hit /\ Deaf))

(* real_read_block logs "ERROR: Transfer error" and returns false, and its *)
(* callers panic or pass on the failure, when the loop was left early.     *)
ReadReportsError == (pc = "idle" /\ broken) => ~result
=============================================================================
