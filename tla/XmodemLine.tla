----------------------------- MODULE XmodemLine -----------------------------
(***************************************************************************)
(* The xmodem upload of stage1 byte by byte: how xmodem_receive and        *)
(* read_repeat cut the bytes of the console into packets.  The line has no *)
(* frame boundaries.  The receiver reads one byte, takes a 4 for the end   *)
(* of the file, and otherwise waits, with no timeout, until it has as many *)
(* bytes as a packet has.                                                  *)
(*                                                                         *)
(* Abstractions.  A payload is one byte instead of 128, so that a checksum *)
(* equals its payload, and a byte is a number below M.  The sender is the  *)
(* stop-and-wait sender of module Xmodem, one that is never in a hurry.    *)
(***************************************************************************)
EXTENDS Integers, Sequences

CONSTANTS
  File,      (* the payloads the host sends: a sequence of bytes *)
  M,         (* a byte is a number below M; 256 in the code *)
  MaxFaults  (* bound: faults of the line in one behaviour *)

SOH == 1
EOT == 4
ACK == "ACK"
NAK == "NAK"

Bytes == 0..(M-1)
N     == Len(File)

ASSUME XmodemLineAssumption ==
  /\ M \in Nat /\ M > EOT
  /\ File \in Seq(Bytes) /\ File # <<>>
  /\ MaxFaults \in Nat

VARIABLES
  sending,   (* sender: 0 before the first NAK, the block on its way, N+1: EOT *)
  toBoard,   (* bytes on their way to the receiver *)
  toHost,    (* replies on their way to the sender *)
  pc,        (* xmodem_receive: "start", "receive", "eof" *)
  packet,    (* the bytes of struct xmodem_packet read so far *)
  image,     (* the payloads that memcpy has put into the buffer *)
  faults     (* faults of the line so far *)

receiverVars == <<pc, packet, image>>
vars         == <<sending, toBoard, toHost, pc, packet, image, faults>>

(* struct xmodem_packet: magic, block_num, block_num_invert, payload, checksum *)
Packet(k)  == <<SOH, k % M, (M - 1) - (k % M), File[k], File[k]>>
PacketSize == 5

-----------------------------------------------------------------------------
(* The host's sender. *)

Transmit(k) == toBoard' = toBoard \o (IF k <= N THEN Packet(k) ELSE <<EOT>>)

SenderReply(r) ==
  /\ toHost # <<>> /\ Head(toHost) = r
  /\ toHost' = Tail(toHost)

SenderNak ==
  /\ SenderReply(NAK)
  /\ sending' = IF sending = 0 THEN 1 ELSE sending
  /\ Transmit(sending')
  /\ UNCHANGED <<receiverVars, faults>>

SenderAck ==
  /\ SenderReply(ACK)
  /\ sending \in 1..N
  /\ sending' = sending + 1
  /\ Transmit(sending')
  /\ UNCHANGED <<receiverVars, faults>>

SenderTimeout ==
  /\ sending # 0
  /\ toBoard = <<>> /\ toHost = <<>>
  /\ Transmit(sending)
  /\ UNCHANGED <<sending, toHost, receiverVars, faults>>

-----------------------------------------------------------------------------
(* The receiver. *)

blockNr  == Len(image) + 1   (* it counts the memcpys, from 1 *)
Reply(r) == toHost' = Append(toHost, r)

XmodemReceive ==
  /\ pc = "start" /\ pc' = "receive"
  /\ Reply(NAK)
  /\ UNCHANGED <<sending, toBoard, packet, image, faults>>

(* packet->magic == 4 *)
AtEnd(b) == packet = <<>> /\ b = EOT

(* The magic and the bytes that read_repeat has read make a packet.        *)
Full(p) == Len(p) = PacketSize

ReadByte(b) ==
  /\ pc = "receive"
  /\ toBoard # <<>> /\ b = Head(toBoard)
  /\ toBoard' = Tail(toBoard)
  /\ UNCHANGED <<sending, faults>>

ReceiveEot ==
  /\ \E b \in Bytes : ReadByte(b) /\ AtEnd(b)
  /\ pc' = "eof"
  /\ UNCHANGED <<toHost, packet, image>>

ReceiveByte ==
  /\ \E b \in Bytes : /\ ReadByte(b) /\ ~AtEnd(b) /\ ~Full(Append(packet, b))
                      /\ packet' = Append(packet, b)
  /\ UNCHANGED <<toHost, pc, image>>

UncheckedSum(p) == p[3] = (M - 1) - p[2]

Sound(p)      == p[5] = p[4] /\ p[3] = (M - 1) - p[2]
IsNext(p)     == p[2] = blockNr % M
IsPrevious(p) == p[2] = (blockNr - 1) % M

(* A receiver that never re-acks, and one that stores a repeated block.    *)
NeverReAck(p) ==
  IF Sound(p) /\ IsNext(p) THEN image' = Append(image, p[4]) /\ Reply(ACK)
                           ELSE UNCHANGED image /\ Reply(NAK)

(* The answer to a packet p, whatever its magic is.                        *)
Answer(p) ==
  \/ Sound(p) /\ IsNext(p) /\ image' = Append(image, p[4]) /\ Reply(ACK)
  \/ Sound(p) /\ ~IsNext(p) /\ IsPrevious(p) /\ UNCHANGED image /\ Reply(ACK)
  \/ ~(Sound(p) /\ (IsNext(p) \/ IsPrevious(p))) /\ UNCHANGED image /\ Reply(NAK)

ReceivePacket ==
  /\ \E b \in Bytes : /\ ReadByte(b) /\ ~AtEnd(b) /\ Full(Append(packet, b))
                      /\ Answer(Append(packet, b))
  /\ packet' = <<>>
  /\ UNCHANGED pc

-----------------------------------------------------------------------------
(* The line. *)

Fault == faults < MaxFaults /\ faults' = faults + 1

LoseReply ==
  /\ Fault /\ toHost # <<>> /\ toHost' = Tail(toHost)
  /\ UNCHANGED <<sending, toBoard, receiverVars>>

(* Noise turns a byte of a packet into another one.  What the protocol     *)
(* cannot tell is left out: two wrong bytes in one packet, which may still *)
(* agree, and a magic that becomes an EOT.                                 *)
DamageByte ==
  /\ Fault
  /\ sending \in 1..N /\ packet \o toBoard = Packet(sending)
  /\ \E i \in 1..Len(toBoard), b \in Bytes :
       /\ b # toBoard[i] /\ ~(b = EOT /\ packet = <<>> /\ i = 1)
       /\ toBoard' = [toBoard EXCEPT ![i] = b]
  /\ UNCHANGED <<sending, toHost, receiverVars>>

-----------------------------------------------------------------------------
Init ==
  /\ sending = 0 /\ toBoard = <<>> /\ toHost = <<>>
  /\ pc = "start" /\ packet = <<>> /\ image = <<>>
  /\ faults = 0

Sender   == SenderNak \/ SenderAck \/ SenderTimeout
Receiver == XmodemReceive \/ ReceiveEot \/ ReceiveByte \/ ReceivePacket
Line     == LoseReply \/ DamageByte

Next == Sender \/ Receiver \/ Line

Spec == Init /\ [][Next]_vars /\ WF_vars(Sender) /\ WF_vars(Receiver)

-----------------------------------------------------------------------------
(* Properties. *)

TypeOK ==
  /\ sending \in 0..(N+1)
  /\ toBoard \in Seq(Bytes) /\ toHost \in Seq({ACK, NAK})
  /\ pc \in {"start", "receive", "eof"}
  /\ packet \in Seq(Bytes) /\ Len(packet) < PacketSize
  /\ image \in Seq(Bytes) /\ Len(image) <= N
  /\ faults \in 0..MaxFaults

(* The transfer that the frame-level model implements, byte by byte; a     *)
(* block in the buffer is a block of the file if its contents are that     *)
(* block's.                                                                *)
Transfer == INSTANCE BlockTransfer
  WITH image    <- [b \in 1..Len(image) |-> IF b <= N /\ image[b] = File[b] THEN b ELSE 0],
       finished <- pc = "eof"

Refines == Transfer!Spec

(* The upload, once the host has got the NAK that starts it, comes to its  *)
(* end when the line stops losing and damaging.                            *)
Completes == (sending # 0) ~> (pc = "eof")
=============================================================================
