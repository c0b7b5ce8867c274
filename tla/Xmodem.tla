------------------------------- MODULE Xmodem -------------------------------
(***************************************************************************)
(* The xmodem upload of stage1 (app/vc4-stage1/stage1.c), frame by frame.  *)
(*                                                                         *)
(* The receiver is xmodem_receive: its loop reads one packet at a time,    *)
(* checks it, and answers with ACK or NAK.  The host's sender is not part  *)
(* of the repository; it is the ordinary stop-and-wait sender that the     *)
(* receiver is written against: it starts at the first NAK, repeats the    *)
(* current block on a NAK or a timeout, and moves on at an ACK.            *)
(*                                                                         *)
(* Abstractions.  A payload is named by the position of its block in the   *)
(* file, and a checksum by the payload it was computed from, so that a     *)
(* checksum agrees exactly when the payload is the one it was computed     *)
(* from.  The line keeps frame boundaries: it can damage a field of a      *)
(* packet or lose a whole packet or reply.  How the code finds the packets *)
(* in a stream of bytes is the subject of module XmodemLine.               *)
(***************************************************************************)
EXTENDS Integers, Sequences

CONSTANTS
  N,          (* blocks in the file the host sends                         *)
  M,          (* block numbers are sent modulo M; 256 in the code          *)
  Capacities, (* blocks the receive buffer may hold; 2 MB / 128 in the code *)
  LineCap,    (* bound: frames, and replies, on their way at one time      *)
  MaxFaults   (* bound: faults of the line in one behaviour                *)

ASSUME XmodemAssumption ==
  /\ N \in Nat \ {0}
  /\ M \in Nat /\ M >= 2 * LineCap + 2
  /\ Capacities \subseteq Nat
  /\ LineCap \in Nat \ {0}
  /\ MaxFaults \in Nat

ACK == "ACK"
NAK == "NAK"

VARIABLES
  sending,   (* sender: 0 before the first NAK, the block on its way, N+1: EOT, N+2: done *)
  toBoard,   (* frames on their way to the receiver *)
  toHost,    (* replies on their way to the sender *)
  pc,        (* where stage1 is: "prompt", "receive", "eof", "returned", "chained";
                "overrun": memcpy has written behind the buffer *)
  blockNr,   (* the receiver's next block, from 1 *)
  capacity,  (* blocks that fit in the buffer, next to the file of N *)
  buffer,    (* what memcpy left in each 128-byte slot of the buffer; 0: never written *)
  imageLen,  (* blocks the ELF loader is told the image has; 0: not told yet *)
  faults,    (* faults of the line, and premature timeouts, so far *)
  hurried    (* history: has the sender timed out while something was on its way? *)

senderVars   == <<sending>>
receiverVars == <<pc, blockNr, capacity, buffer, imageLen>>
vars         ==
  <<sending, toBoard, toHost, pc, blockNr, capacity, buffer, imageLen, faults, hurried>>

Damaged == 0    (* a payload that is no block of the file *)

Packet(k) ==
  [kind |-> "packet", num |-> k % M, inv |-> (M - 1) - (k % M), data |-> k, sum |-> k]

EOT == [kind |-> "eot", num |-> 0, inv |-> 0, data |-> Damaged, sum |-> Damaged]

Frame ==
  [kind : {"packet", "eot"}, num : 0..(M-1), inv : 0..(M-1), data : 0..N, sum : 0..N]

(* The frame the sender puts on the line when it is at position k. *)
FrameAt(k) == IF k <= N THEN Packet(k) ELSE EOT

-----------------------------------------------------------------------------
(* The host's sender. *)

Transmit(k) == toBoard' = Append(toBoard, FrameAt(k))

SenderReply(r) ==
  /\ toHost # <<>> /\ Head(toHost) = r
  /\ toHost' = Tail(toHost)

(* A NAK starts the transfer, or asks for the current frame again. *)
SenderNak ==
  /\ SenderReply(NAK)
  /\ sending <= N + 1
  /\ Len(toBoard) < LineCap
  /\ sending' = IF sending = 0 THEN 1 ELSE sending
  /\ Transmit(sending')
  /\ UNCHANGED <<receiverVars, faults, hurried>>

(* An ACK moves the sender to the next block, or to the end of the file. *)
SenderAck ==
  /\ SenderReply(ACK)
  /\ sending \in 1..N
  /\ Len(toBoard) < LineCap
  /\ sending' = sending + 1
  /\ Transmit(sending')
  /\ UNCHANGED <<receiverVars, faults, hurried>>

(* An ACK of the EOT is the end for the sender, which then reads no more   *)
(* than what is left on the line.  The receiver never answers an EOT, so   *)
(* only a surplus ACK gets the sender here.                                *)
SenderDone ==
  /\ toHost # <<>>
  /\ \/ sending = N + 1 /\ Head(toHost) = ACK
     \/ sending = N + 2
  /\ toHost' = Tail(toHost)
  /\ sending' = N + 2
  /\ UNCHANGED <<toBoard, receiverVars, faults, hurried>>

(* A sender that waits longer than a frame and its reply need repeats a    *)
(* frame only once the line is quiet.                                      *)
Quiet == toBoard = <<>> /\ toHost = <<>>

SenderTimeout ==
  /\ sending \in 1..(N+1)
  /\ Quiet
  /\ Transmit(sending)
  /\ UNCHANGED <<senderVars, toHost, receiverVars, faults, hurried>>

(* A sender that is in a hurry, or a board that is slow (it prints a line  *)
(* for every packet it refuses), makes the timeout come too early.         *)
SenderHurry ==
  /\ faults < MaxFaults /\ faults' = faults + 1
  /\ sending \in 1..(N+1)
  /\ ~Quiet
  /\ Len(toBoard) < LineCap
  /\ Transmit(sending)
  /\ hurried' = (hurried \/ pc = "receive")
  /\ UNCHANGED <<senderVars, toHost, receiverVars>>

-----------------------------------------------------------------------------
(* The receiver. *)

Reply(r) == toHost' = Append(toHost, r)

(* Entry of xmodem_receive: the buffer is allocated and one NAK is sent.   *)
XmodemReceive ==
  /\ pc = "prompt"
  /\ pc' = "receive"
  /\ Reply(NAK)
  /\ UNCHANGED <<senderVars, toBoard, blockNr, capacity, buffer, imageLen, faults, hurried>>

ReceiveFrame ==
  /\ pc = "receive"
  /\ toBoard # <<>>
  /\ Len(toHost) < LineCap
  /\ toBoard' = Tail(toBoard)

(* A receiver that skips the checksum, the complement, or the number of a  *)
(* block it has had.                                                       *)
UncheckedSum(p)      == TRUE
UncheckedInvert(p)   == TRUE
UncheckedPrevious(p) == TRUE

ChecksumOk(p) == p.sum = p.data
InvertOk(p)   == p.inv = (M - 1) - p.num
IsNext(p)     == p.num = blockNr % M
IsPrevious(p) == p.num = (blockNr - 1) % M
Sound(p)      == ChecksumOk(p) /\ InvertOk(p)

(* A receiver that stores a repeated block as if it were the next one.     *)
StoreRepeated ==
  /\ ReceiveFrame
  /\ LET p == Head(toBoard)
     IN  /\ p.kind = "packet" /\ Sound(p) /\ (IsNext(p) \/ IsPrevious(p))
         /\ blockNr <= capacity
         /\ buffer' = [buffer EXCEPT ![blockNr] = p.data]
  /\ blockNr' = blockNr + 1
  /\ Reply(ACK)
  /\ UNCHANGED <<senderVars, pc, capacity, imageLen, faults, hurried>>

DueBlock ==
  LET p == Head(toBoard) IN p.kind = "packet" /\ Sound(p) /\ IsNext(p)

(* The packet is the block that is due: copy it, count it and ACK it.      *)
StoreBlock ==
  /\ ReceiveFrame
  /\ DueBlock /\ blockNr <= capacity
  /\ buffer' = [buffer EXCEPT ![blockNr] = Head(toBoard).data]
  /\ blockNr' = blockNr + 1
  /\ Reply(ACK)
  /\ UNCHANGED <<senderVars, pc, capacity, imageLen, faults, hurried>>

(* Nothing compares blockNr with the capacity: a block that the buffer has *)
(* no room for is copied behind it, over the heap.  What stage1 does from  *)
(* there on is undefined, and the model leaves it where it is.             *)
Overrun ==
  /\ ReceiveFrame
  /\ DueBlock /\ blockNr > capacity
  /\ pc' = "overrun"
  /\ UNCHANGED <<senderVars, toHost, blockNr, capacity, buffer, imageLen, faults, hurried>>

(* A receiver that refuses a repeated block instead.                       *)
RefuseRepeated ==
  /\ ReceiveFrame
  /\ LET p == Head(toBoard)
     IN  p.kind = "packet" /\ Sound(p) /\ ~IsNext(p) /\ IsPrevious(p)
  /\ Reply(NAK)
  /\ UNCHANGED <<senderVars, pc, blockNr, capacity, buffer, imageLen, faults, hurried>>

(* "ack was lost, just re-ack": the block before the one that is due.      *)
ReAck ==
  /\ ReceiveFrame
  /\ LET p == Head(toBoard)
     IN  p.kind = "packet" /\ Sound(p) /\ ~IsNext(p) /\ IsPrevious(p)
  /\ Reply(ACK)
  /\ UNCHANGED <<senderVars, pc, blockNr, capacity, buffer, imageLen, faults, hurried>>

(* A receiver that acknowledges what it drops.                             *)
AckRejected ==
  /\ ReceiveFrame
  /\ LET p == Head(toBoard)
     IN  p.kind = "packet" /\ ~(Sound(p) /\ (IsNext(p) \/ IsPrevious(p)))
  /\ Reply(ACK)
  /\ UNCHANGED <<senderVars, pc, blockNr, capacity, buffer, imageLen, faults, hurried>>

(* A wrong checksum, a wrong complement or any other block number.         *)
Reject ==
  /\ ReceiveFrame
  /\ LET p == Head(toBoard)
     IN  p.kind = "packet" /\ ~(Sound(p) /\ (IsNext(p) \/ IsPrevious(p)))
  /\ Reply(NAK)
  /\ UNCHANGED <<senderVars, pc, blockNr, capacity, buffer, imageLen, faults, hurried>>

(* Byte 4 where a packet should start ends the loop; it is not answered.   *)
ReceiveEot ==
  /\ ReceiveFrame
  /\ Head(toBoard).kind = "eot"
  /\ pc' = "eof"
  /\ UNCHANGED <<senderVars, toHost, blockNr, capacity, buffer, imageLen, faults, hurried>>

(* The ELF loader gets blockNr * 128 bytes.  If it cannot open the image,  *)
(* the function returns.  Otherwise stage1 jumps: to the image's entry, or *)
(* after a failed elf_load to whatever is in the register ("chained").     *)
BootImage ==
  /\ pc = "eof"
  /\ imageLen' = blockNr
  /\ pc' \in {"returned", "chained"}
  /\ UNCHANGED <<senderVars, toBoard, toHost, blockNr, capacity, buffer, faults, hurried>>

-----------------------------------------------------------------------------
(* The line. *)

Fault == faults < MaxFaults /\ faults' = faults + 1

(* Noise changes one field of a packet: the checksum covers the payload,   *)
(* and the complement the number, against one change and no more.          *)
DamageField ==
  /\ Fault
  /\ toBoard # <<>> /\ Head(toBoard).kind = "packet" /\ Sound(Head(toBoard))
  /\ \/ toBoard' = [toBoard EXCEPT ![1].data = Damaged]
     \/ \E n \in (0..(M-1)) \ {toBoard[1].num} : toBoard' = [toBoard EXCEPT ![1].num = n]
     \/ \E n \in (0..(M-1)) \ {toBoard[1].inv} : toBoard' = [toBoard EXCEPT ![1].inv = n]
  /\ UNCHANGED <<senderVars, toHost, receiverVars, hurried>>

LoseFrame ==
  /\ Fault
  /\ toBoard # <<>>
  /\ toBoard' = Tail(toBoard)
  /\ UNCHANGED <<senderVars, toHost, receiverVars, hurried>>

LoseReply ==
  /\ Fault
  /\ toHost # <<>>
  /\ toHost' = Tail(toHost)
  /\ UNCHANGED <<senderVars, toBoard, receiverVars, hurried>>

-----------------------------------------------------------------------------
Init ==
  /\ sending = 0
  /\ toBoard = <<>> /\ toHost = <<>>
  /\ pc = "prompt"
  /\ blockNr = 1
  /\ capacity \in Capacities
  /\ buffer = [b \in 1..capacity |-> 0]
  /\ imageLen = 0
  /\ faults = 0
  /\ hurried = FALSE

Sender   == SenderNak \/ SenderAck \/ SenderDone \/ SenderTimeout
Receiver == XmodemReceive \/ StoreBlock \/ Overrun \/ ReAck \/ Reject \/ ReceiveEot \/ BootImage
Faults   == SenderHurry \/ DamageField \/ LoseFrame \/ LoseReply

Next == Sender \/ Receiver \/ Faults

Spec == Init /\ [][Next]_vars

(* The receiver's loop and the sender run whenever they can.  Nothing is   *)
(* asked of the line beyond the bound on its faults.                       *)
FairSpec == Spec /\ WF_vars(Sender) /\ WF_vars(Receiver)

-----------------------------------------------------------------------------
(* Properties. *)

TypeOK ==
  /\ sending \in 0..(N+2)
  /\ toBoard \in Seq(Frame) /\ Len(toBoard) <= LineCap
  /\ toHost \in Seq({ACK, NAK}) /\ Len(toHost) <= LineCap
  /\ pc \in {"prompt", "receive", "eof", "returned", "chained", "overrun"}
  /\ blockNr \in 1..(N+1)
  /\ capacity \in Capacities
  /\ buffer \in [1..capacity -> 0..N]
  /\ imageLen \in 0..(N+1)
  /\ faults \in 0..MaxFaults
  /\ hurried \in BOOLEAN

(* xmodem_receive implements the transfer its host relies on: whatever the *)
(* line loses, damages or repeats, memcpy appends the file's next block    *)
(* and nothing else, and the loop ends only with the whole file.  The last *)
(* part asks for a sender that was never in a hurry: a re-ack that answers *)
(* a premature repetition is taken for the ACK of the next block.          *)
Transfer == INSTANCE BlockTransfer
  WITH image    <- [b \in 1..(blockNr - 1) |-> buffer[b]],
       finished <- pc \in {"eof", "returned", "chained"} /\ ~hurried

Refines == Transfer!Spec

(* The loader is given a buffer that holds nothing but blocks of the file, *)
(* each in its place (all N of them, unless the sender was in a hurry).    *)
(* The length it is given is one block more than was received: only with a *)
(* file that fills the buffer does it reach past the allocation.  And only *)
(* a file that is too long by itself makes memcpy leave the buffer: what   *)
(* is repeated or damaged on the way never counts as one block more.       *)
ImageInBuffer ==
  /\ imageLen # 0 =>
       /\ imageLen - 1 <= capacity
       /\ \A b \in 1..(imageLen - 1) : buffer[b] = b
       /\ hurried \/ imageLen > N
       /\ imageLen > capacity => N >= capacity
  /\ pc = "overrun" => N > capacity

(* The host moves past a block only when the board holds it, so it never   *)
(* drops a block that could still have to be sent again.                   *)
AckedIsStored ==
  [][(sending' > sending /\ sending # 0 /\ ~hurried) => buffer[sending] = sending]_vars

(* A transfer that has started ends, in spite of a bounded number of       *)
(* faults: the re-ack breaks the stalemate that a lost ACK leaves.  A      *)
(* hurried sender may instead repeat for ever a block that is not due, and *)
(* a file that is too long ends where it overwrites the heap.              *)
Completes ==
  (sending # 0) ~> (pc \in {"returned", "chained"} \/ hurried \/ (pc = "overrun" /\ N > capacity))

-----------------------------------------------------------------------------
(* The invariant behind these properties. *)

Past    == {"eof", "returned", "chained"}
Stopped == Past \cup {"overrun"}

SoundPacket(i) == toBoard[i].kind = "packet" /\ Sound(toBoard[i])

(* Only undamaged packets can be stored.  They carry blocks from the one   *)
(* before the one that is due up to the sender's position, in file order.  *)
InFlight ==
  /\ \A i \in 1..Len(toBoard) : SoundPacket(i) =>
       /\ toBoard[i].data \in 1..N
       /\ toBoard[i].num = toBoard[i].data % M
       /\ blockNr - 1 <= toBoard[i].data /\ toBoard[i].data <= sending
  /\ \A i, j \in 1..Len(toBoard) :
       i < j /\ SoundPacket(i) /\ SoundPacket(j) => toBoard[i].data <= toBoard[j].data
  /\ \A i \in 1..Len(toBoard) : toBoard[i].kind = "eot" => sending > N

(* How far the sender can run ahead: every step past the block that is due *)
(* takes an ACK that was on its way, or that a packet on its way causes.   *)
(* The two queues hold 2 * LineCap of them, so block numbers, which repeat *)
(* after M, tell apart all the blocks that can meet at the receiver.       *)
Window ==
  /\ sending - blockNr <= 2 * LineCap
  /\ \A j \in 1..Len(toHost) :
       toHost[j] = ACK => sending - blockNr + j <= 2 * LineCap
  /\ \A i \in 1..Len(toBoard) : SoundPacket(i) =>
       sending - toBoard[i].data + Len(toHost) + i <= 2 * LineCap

(* With a sender that is never in a hurry there is at most one message on  *)
(* the line, and an ACK is there only for the sender's own block.          *)
StopAndWait ==
  ~hurried =>
    /\ pc = "receive" =>
         /\ Len(toBoard) + Len(toHost) <= 1
         /\ sending <= blockNr
         /\ \A j \in 1..Len(toHost) : toHost[j] = ACK => blockNr = sending + 1
         /\ \A i \in 1..Len(toBoard) : SoundPacket(i) => toBoard[i].data = sending
    /\ pc \in Past => blockNr = N + 1
    /\ pc \in Stopped => toHost = <<>>

Stored == \A b \in 1..(blockNr - 1) : buffer[b] = b

Phases ==
  /\ blockNr <= sending + 1 /\ blockNr <= capacity + 1
  /\ pc = "prompt" => sending = 0 /\ blockNr = 1 /\ Quiet
  /\ imageLen # 0 => imageLen = blockNr /\ pc \in Past
  /\ pc \in {"receive", "overrun"} => imageLen = 0
  /\ pc = "overrun" => N > capacity

IInv == TypeOK /\ InFlight /\ Window /\ StopAndWait /\ Stored /\ Phases
=============================================================================
