--------------------------------- MODULE I2c ---------------------------------
(***************************************************************************)
(* i2c_xfer (platform/bcm28xx/i2c.c): bytes sent to a device and received  *)
(* from it through one controller's FIFO, waiting on its status bits; and  *)
(* i2c_set_rate, which sets its clock.                                     *)
(*                                                                         *)
(* The controller is hardware, modelled from how the code uses it.  It     *)
(* starts a transfer some time after it is told to, moves a byte at a      *)
(* time, and may give up: ERR when nobody answers, CLKT when the device    *)
(* holds the clock for too long.  DONE, ERR and CLKT stay set until they   *)
(* are written to.  A byte is its number in its direction.                 *)
(***************************************************************************)
EXTENDS Naturals, Sequences

CONSTANTS
  FifoDepth,  (* bytes the controller's FIFO holds: 16 *)
  Transfers,  (* <<sendsz, recvsz>>: what callers ask for *)
  Rates,      (* the rates somebody asks for; 0 is a division by zero *)
  DivLimit,   (* what a divisor must stay below: 2^16 *)
  MaxFaults,  (* bound: transfers the hardware gives up *)
  MaxI2c      (* bound: calls *)

ASSUME I2cAssumption ==
  /\ FifoDepth \in Nat \ {0} /\ Transfers \subseteq Nat \X Nat
  /\ Rates \subseteq Nat \ {0} /\ DivLimit \in Nat \ {0}
  /\ MaxFaults \in Nat /\ MaxI2c \in Nat

VARIABLES
  i2cPc,    (* where i2c_xfer is *)
  xfer,     (* sendsz and recvsz, what the caller asked for, ret, recvbuf *)
  bus,      (* the controller: starting, ta, read, left, fifo, done, err, clkt *)
  clock,    (* the controller's divisor, and its two delays *)
  device,   (* the bytes that have reached the device *)
  i2cs,     (* calls so far, and transfers given up, for the bounds *)
  i2cFaults

i2cVars == <<i2cPc, xfer, bus, clock, device, i2cs, i2cFaults>>

(* A transfer's bytes, the call of i2c_xfer, and what I2C_C, I2C_S and the  *)
(* FIFO of a controller hold.                                              *)
Bytes    == Seq(Nat)
Call     == [send : Nat, recv : Nat, asked : Nat \X Nat, ret : {0, 1}, buf : Bytes]
Bus      == [starting : BOOLEAN, ta : BOOLEAN, read : BOOLEAN, left : Nat, fifo : Bytes,
             done : BOOLEAN, err : BOOLEAN, clkt : BOOLEAN]

(* struct i2c_regs: of its registers that are not in Bus, div and del.     *)
Divisors == [div : 0..(DivLimit - 1), fall : Nat \ {0}, rise : Nat \ {0}]

Failed   == bus.clkt \/ bus.err
Cleared  == [bus EXCEPT !.done = FALSE, !.err = FALSE, !.clkt = FALSE]
I2cDrivers == UNCHANGED <<clock, device, i2cs, i2cFaults>>
At(from, to) == i2cPc = from /\ i2cPc' = to /\ I2cDrivers

(* DLEN and ST: the controller begins some time later.                     *)
Start(n, read) == [bus EXCEPT !.starting = TRUE, !.left = n, !.read = read]

(* Mutant: the FIFO keeps what a transfer has left in it. *)
FifoKept == bus.fifo

(* i2c_clear_fifo. *)
FifoCleared == <<>>

-----------------------------------------------------------------------------
(* The next transfer begins when the last one's stop bit is out.  That is  *)
(* left to the caller: i2c_xfer does not look at TA.                       *)
Xfer ==
  /\ i2cPc = "idle" /\ ~bus.ta /\ i2cs < MaxI2c
  /\ \E t \in Transfers :
       /\ xfer' = [send |-> t[1], recv |-> t[2], asked |-> t, ret |-> 0, buf |-> <<>>]
       /\ i2cPc' = IF t[1] > 0 THEN "send" ELSE "recv"
  /\ bus' = [Cleared EXCEPT !.fifo = FifoCleared]
  /\ device' = <<>>
  /\ i2cs' = i2cs + 1
  /\ UNCHANGED <<clock, i2cFaults>>

SendStart ==
  /\ At("send", "sendStarted")
  /\ bus' = Start(xfer.send, FALSE)
  /\ UNCHANGED xfer

SendActive ==
  /\ bus.err \/ bus.ta
  /\ At("sendStarted", "fill")
  /\ UNCHANGED <<xfer, bus>>

Txd == Len(bus.fifo) < FifoDepth

(* One byte, once there is room.                                           *)
Fill ==
  /\ ~Failed /\ Txd /\ xfer.send > 0
  /\ At("fill", "fill")
  /\ bus' = [bus EXCEPT !.fifo = IF Len(@) < FifoDepth
                                 THEN Append(@, xfer.asked[1] - xfer.send + 1) ELSE @]
  /\ xfer' = [xfer EXCEPT !.send = @ - 1]

(* A failure leaves the FIFO and the controller as they are.               *)
FillFails ==
  /\ Failed /\ xfer.send > 0
  /\ At("fill", "idle")
  /\ bus' = Cleared
  /\ xfer' = [xfer EXCEPT !.ret = 1]

Sent ==
  /\ xfer.send = 0 /\ bus.done /\ ~Failed
  /\ At("fill", "recv")
  /\ UNCHANGED <<xfer, bus>>

SendFails ==
  /\ xfer.send = 0 /\ Failed /\ ~bus.ta
  /\ At("fill", "recv")
  /\ xfer' = [xfer EXCEPT !.recv = 0, !.ret = 1]
  /\ UNCHANGED bus

NothingToReceive ==
  /\ xfer.recv = 0
  /\ At("recv", "end")
  /\ UNCHANGED <<xfer, bus>>

(* A send before has left DONE set.                                        *)
ReceiveStart ==
  /\ xfer.recv > 0
  /\ At("recv", "recvStarted")
  /\ bus' = Start(xfer.recv, TRUE)
  /\ UNCHANGED xfer

ReceiveActive ==
  /\ bus.err \/ bus.done \/ bus.ta
  /\ At("recvStarted", "take")
  /\ UNCHANGED <<xfer, bus>>

(* CLKT alone does not end this loop.                                      *)
Take ==
  /\ ~bus.err /\ bus.fifo # <<>> /\ xfer.recv > 0
  /\ At("take", "take")
  /\ xfer' = [xfer EXCEPT !.buf = Append(@, Head(bus.fifo)), !.recv = @ - 1]
  /\ bus' = [bus EXCEPT !.fifo = Tail(@)]

Received ==
  /\ xfer.recv = 0 /\ bus.left = 0 /\ bus.done
  /\ At("take", "end")
  /\ UNCHANGED <<xfer, bus>>

ReceiveFails ==
  /\ bus.err /\ xfer.recv > 0
  /\ At("take", "end")
  /\ xfer' = [xfer EXCEPT !.ret = 1]
  /\ UNCHANGED bus

XferEnd ==
  /\ Failed /\ bus.ta => bus.fifo # <<>>
  /\ At("end", "idle")
  /\ bus' = [Cleared EXCEPT !.fifo = FifoCleared]
  /\ UNCHANGED xfer

I2cDriver ==
  \/ SendStart \/ SendActive \/ Fill \/ FillFails \/ Sent \/ SendFails
  \/ NothingToReceive \/ ReceiveStart \/ ReceiveActive \/ Take \/ Received
  \/ ReceiveFails \/ XferEnd

AtLeastOne(n) == IF n = 0 THEN 1 ELSE n

(* i2c_set_rate, with the frequency that get_vpu_per_freq has returned.    *)
SetRate(base) ==
  /\ i2cPc = "idle" /\ i2cs < MaxI2c /\ i2cs' = i2cs + 1
  /\ \E rate \in Rates :
       LET quotient == base \div rate
           div == IF quotient >= DivLimit THEN DivLimit - 1 ELSE quotient
       IN  clock' = [div |-> div, fall |-> AtLeastOne(div \div 16), rise |-> AtLeastOne(div \div 4)]
  /\ UNCHANGED <<i2cPc, xfer, bus, device, i2cFaults>>

-----------------------------------------------------------------------------
(* The controller and the device. *)

ByHardware == UNCHANGED <<i2cPc, xfer, clock, i2cs>>

BusStarts ==
  /\ bus.starting
  /\ bus' = [bus EXCEPT !.starting = FALSE, !.ta = TRUE]
  /\ ByHardware /\ UNCHANGED <<device, i2cFaults>>

BusSends ==
  /\ bus.ta /\ ~bus.read /\ bus.left > 0 /\ bus.fifo # <<>>
  /\ device' = Append(device, Head(bus.fifo))
  /\ bus' = [bus EXCEPT !.fifo = Tail(@), !.left = @ - 1]
  /\ ByHardware /\ UNCHANGED i2cFaults

BusReceives ==
  /\ bus.ta /\ bus.read /\ bus.left > 0 /\ Len(bus.fifo) < FifoDepth
  /\ bus' = [bus EXCEPT !.fifo = Append(@, xfer.asked[2] - bus.left + 1), !.left = @ - 1]
  /\ ByHardware /\ UNCHANGED <<device, i2cFaults>>

BusEnds ==
  /\ bus.ta /\ bus.left = 0
  /\ bus' = [bus EXCEPT !.ta = FALSE, !.done = TRUE]
  /\ ByHardware /\ UNCHANGED <<device, i2cFaults>>

BusFails ==
  /\ bus.ta /\ bus.left > 0 /\ i2cFaults < MaxFaults
  /\ \E nobody, over \in BOOLEAN :
       bus' = [bus EXCEPT !.ta = FALSE, !.err = nobody, !.clkt = ~nobody,
                          !.done = @ \/ over]
  /\ i2cFaults' = i2cFaults + 1
  /\ ByHardware /\ UNCHANGED device

Controller == BusStarts \/ BusSends \/ BusReceives \/ BusEnds \/ BusFails

I2cInit ==
  /\ i2cPc = "idle"
  /\ xfer = [send |-> 0, recv |-> 0, asked |-> <<0, 0>>, ret |-> 0, buf |-> <<>>]
  /\ bus = [starting |-> FALSE, ta |-> FALSE, read |-> FALSE, left |-> 0,
            fifo |-> <<>>, done |-> FALSE, err |-> FALSE, clkt |-> FALSE]
  /\ clock = [div |-> DivLimit - 1, fall |-> 1, rise |-> 1]
  /\ device = <<>> /\ i2cs = 0 /\ i2cFaults = 0

I2cTypeOK ==
  /\ i2cPc \in {"idle", "send", "sendStarted", "fill", "recv", "recvStarted", "take", "end"}
  /\ xfer \in Call /\ bus \in Bus /\ clock \in Divisors /\ device \in Bytes
  /\ i2cs \in 0..MaxI2c /\ i2cFaults \in 0..MaxFaults

(* A transfer that returns 0 has brought every byte to where it belongs,   *)
(* in order, whatever calls before it left behind; and the bus is free     *)
(* again, unless it both sent and received: the DONE of its sending is     *)
(* then still set when it waits for the end (i2c.c:86-145).                *)
XferMovesAll ==
  i2cPc = "idle" /\ xfer.ret = 0 =>
    /\ device = [i \in 1..xfer.asked[1] |-> i]
    /\ xfer.buf = [i \in 1..xfer.asked[2] |-> i]
    /\ bus.ta => xfer.asked[1] > 0 /\ xfer.asked[2] > 0
=============================================================================
