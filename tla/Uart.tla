-------------------------------- MODULE Uart --------------------------------
(***************************************************************************)
(* The console's PL011 and its driver (platform/bcm28xx/uart.c): the       *)
(* handler uart_irq that empties the receive FIFO into the ring buffer     *)
(* platform_dgetc reads from, uart_putc that prints, from threads and from *)
(* the handler itself, the two functions that wait for what is printed to  *)
(* be sent, and the two that set the PL011 up.  The ring buffer is LK's    *)
(* cbuf, outside this repository; it keeps one slot free and drops what    *)
(* does not fit.                                                           *)
(*                                                                         *)
(* A received character is a key, or "bad": one that arrives with a break  *)
(* or with a framing error.  A printed character is named by its printer.  *)
(* The clock and the divisor are left out: both functions set the same.    *)
(***************************************************************************)
EXTENDS Naturals, Sequences

CONSTANTS
  Keys,      (* the characters a user can type                              *)
  FifoSize,  (* characters the PL011 holds: 16                              *)
  Trigger,   (* characters that raise the receive interrupt: 1/8 of 16      *)
  RxBufSize, (* RXBUF_SIZE, 16: the ring buffer holds one character less    *)
  TxSize,    (* characters that wait in the PL011 to be sent: 16            *)
  Threads    (* the threads that print                                      *)

ASSUME UartAssumption ==
  /\ "bad" \notin Keys
  /\ FifoSize \in Nat /\ Trigger \in 1..FifoSize
  /\ RxBufSize \in Nat /\ RxBufSize > 1
  /\ TxSize \in Nat \ {0}
  /\ "irq" \notin Threads /\ "none" \notin Threads

Printers == Threads \cup {"irq"}

VARIABLES
  fifo,    (* the PL011's receive FIFO *)
  over,    (* has it lost characters since it was last read? *)
  idle,    (* has the line been silent for so long that the PL011 notices? *)
  rxbuf,   (* the characters in the ring buffer, oldest first *)
  irqPc,   (* uart_irq: "none", or "loop" *)
  tx,      (* the transmit FIFO *)
  sending, (* the character on the line, or "none" *)
  control, (* UART_CR: which of "rx" and "tx" are on *)
  left,    (* of each printer: characters it has still to print *)
  putc,    (* of each: "idle", "room" once the FIFO had room, and "stale"
              when another has printed since *)
  lost     (* history: the last character lost in printing, if any: where,
              whose, and what putc said of its printer *)

rxVars   == <<fifo, over, idle, rxbuf, irqPc>>
txVars   == <<tx, sending, left, putc, lost>>
uartVars == <<rxVars, txVars, control>>

Lost(where, who, state) == [where |-> where, who |-> who, state |-> state]
NoneLost == Lost("nowhere", "none", "idle")

-----------------------------------------------------------------------------
(* Receiving. *)

(* A character arrives from the line.  The PL011 loses it if it is full.   *)
Arrive(c) ==
  /\ "rx" \in control
  /\ IF Len(fifo) < FifoSize THEN fifo' = Append(fifo, c) /\ UNCHANGED over
                             ELSE over' = TRUE /\ UNCHANGED fifo
  /\ idle' = FALSE
  /\ UNCHANGED <<rxbuf, irqPc, txVars, control>>

(* Silence after a character: the PL011's receive timeout.                 *)
Silence ==
  /\ fifo # <<>> /\ ~idle
  /\ idle' = TRUE
  /\ UNCHANGED <<fifo, over, rxbuf, irqPc, txVars, control>>

(* Mutant: only the trigger level is an interrupt. *)
OnlyRxInterrupt == Len(fifo) >= Trigger

(* uart_init enables both: rxim, at the trigger level, and rtim.           *)
Interrupt == Len(fifo) >= Trigger \/ idle

EnterIrq ==
  /\ irqPc = "none" /\ Interrupt
  /\ irqPc' = "loop"
  /\ UNCHANGED <<fifo, over, idle, rxbuf, txVars, control>>

(* No break and no framing error. *)
IsSound(c) == c # "bad"

(* One character.  An error, and characters lost before it, are printed;   *)
(* cbuf_write_char drops what the buffer has no room for.                  *)
ReadDr ==
  /\ irqPc = "loop" /\ fifo # <<>> /\ left["irq"] = 0
  /\ LET c == Head(fifo) IN
       /\ rxbuf' = IF IsSound(c) /\ Len(rxbuf) + 1 < RxBufSize THEN Append(rxbuf, c) ELSE rxbuf
       /\ left' = [left EXCEPT !["irq"] = IF c = "bad" \/ over THEN 1 ELSE 0]
  /\ fifo' = Tail(fifo) /\ over' = FALSE
  /\ idle' = (idle /\ fifo' # <<>>)
  /\ UNCHANGED <<irqPc, tx, sending, putc, lost, control>>

(* The FIFO is empty. *)
IrqDone ==
  /\ irqPc = "loop" /\ fifo = <<>> /\ left["irq"] = 0
  /\ irqPc' = "none"
  /\ UNCHANGED <<fifo, over, idle, rxbuf, txVars, control>>

(* platform_dgetc(&c, true) returns the oldest character, once there is    *)
(* one.                                                                    *)
Getc(c) ==
  /\ rxbuf # <<>> /\ c = Head(rxbuf)
  /\ rxbuf' = Tail(rxbuf)
  /\ UNCHANGED <<fifo, over, idle, irqPc>>

-----------------------------------------------------------------------------
(* Printing: platform_dputc, where a newline is two characters, and        *)
(* uart_putc.  No lock is held: other printers come in between.            *)

Printed(who) == left[who] = 0

Say(who, n) == left' = [left EXCEPT ![who] = n] /\ UNCHANGED <<tx, sending, putc, lost>>

(* The loop ends when the FIFO has room. *)
FindRoom(who) ==
  /\ left[who] > 0 /\ putc[who] = "idle"
  /\ Len(tx) < TxSize
  /\ putc' = [putc EXCEPT ![who] = "room"]
  /\ UNCHANGED <<tx, sending, left, lost>>

WriteDr(who) ==
  /\ putc[who] # "idle"
  /\ IF Len(tx) < TxSize THEN tx' = Append(tx, who) /\ UNCHANGED lost
                         ELSE lost' = Lost("full", who, putc[who]) /\ UNCHANGED tx
  /\ left' = [left EXCEPT ![who] = @ - 1]
  /\ putc' = [p \in Printers |-> IF p = who \/ putc[p] = "idle" THEN "idle" ELSE "stale"]
  /\ UNCHANGED sending

Putc(who) == FindRoom(who) \/ WriteDr(who)

(* The PL011 sends. *)
Transmit ==
  /\ \/ "tx" \in control /\ sending = "none" /\ tx # <<>> /\ sending' = Head(tx) /\ tx' = Tail(tx)
     \/ sending # "none" /\ sending' = "none" /\ UNCHANGED tx
  /\ UNCHANGED <<rxVars, left, putc, lost, control>>

(* uart_flush: room, no more.  uart_flush_tx: first the FIFO is empty,     *)
(* then the last character is sent (nothing is busy).                      *)
HasRoom == Len(tx) < TxSize
TxEmpty == tx = <<>>

(* Mutant: as for TxEmpty. *)
NotBusyYet == TxEmpty

NotBusy == TxEmpty /\ sending = "none"

-----------------------------------------------------------------------------
(* Setting up. *)

(* UART_CR = 0: what is on the line is still sent. *)
Shutdown == control' = {} /\ UNCHANGED <<rxVars, txVars>>

(* The line control and the divisor are written, which may spoil what is   *)
(* on the line, and what is wanted is turned on.                           *)
Configure(where, on) ==
  /\ control' = on
  /\ sending' = "none"
  /\ lost' \in {lost} \cup (IF sending = "none" THEN {} ELSE {Lost(where, sending, "room")})
  /\ UNCHANGED <<tx, left, putc>>

UartInit ==
  /\ fifo = <<>> /\ over = FALSE /\ idle = FALSE /\ rxbuf = <<>> /\ irqPc = "none"
  /\ tx = <<>> /\ sending = "none" /\ control = {}
  /\ left = [p \in Printers |-> 0] /\ putc = [p \in Printers |-> "idle"] /\ lost = NoneLost

UartTypeOK ==
  /\ fifo \in Seq(Keys \cup {"bad"}) /\ Len(fifo) <= FifoSize
  /\ rxbuf \in Seq(Keys) /\ Len(rxbuf) < RxBufSize
  /\ over \in BOOLEAN /\ idle \in BOOLEAN /\ irqPc \in {"none", "loop"}
  /\ tx \in Seq(Printers) /\ Len(tx) <= TxSize /\ sending \in Printers \cup {"none"}
  /\ control \subseteq {"rx", "tx"}
  /\ left \in [Printers -> Nat] /\ putc \in [Printers -> {"idle", "room", "stale"}]
=============================================================================
