--------------------------- MODULE Autoboot_proofs ---------------------------
(***************************************************************************)
(* Proofs about Autoboot, for every size of the FIFOs and of the ring      *)
(* buffer, every prompt and everything that can be typed: the first key    *)
(* decides, and of what the main thread prints nothing is lost but in the  *)
(* two ways that OutputKept names.                                         *)
(*                                                                         *)
(* FirstKeyDecides is not inductive: until the waker has read a key, the   *)
(* first one must be in front of all others on its way to it (InFront).    *)
(* Nor is OutputKept: where a chain load or a reboot can spoil characters, *)
(* none of the main thread's is left (MainIsOut).                          *)
(***************************************************************************)
EXTENDS Autoboot, TLAPS

(* Before the console is set up, and before uart_init is done.             *)
Entering == {"entered", "set up", "reset", "early off"}
Starting == Entering \cup {"early", "flush", "off"}

(* After uart_flush_tx, up to the next image's uart_init_early.            *)
Leaving == Entering \cup {"leave", "spin"}

-----------------------------------------------------------------------------
(* The key c is the next one that a reader gets, of what is in the ring    *)
(* buffer and behind it in the PL011.                                      *)
InFront(c) ==
  \/ rxbuf # <<>> /\ Head(rxbuf) = c
  \/ rxbuf = <<>> /\ \E i \in 1..Len(fifo) : fifo[i] = c /\ \A j \in 1..(i - 1) : fifo[j] = "bad"

NoKeys == rxbuf = <<>> /\ \A i \in 1..Len(fifo) : fifo[i] = "bad"

FirstIsNext == IF first = "none" THEN NoKeys ELSE InFront(first)

RxTypeOK ==
  /\ fifo \in Seq(Keys \cup {"bad"}) /\ rxbuf \in Seq(Keys)
  /\ key \in Keys \cup {"none"} /\ first \in Keys \cup {"none"}

(* The waker runs in stage1 only, and once. *)
WakerRunsOnce ==
  /\ image \in {"stage1", "next"}
  /\ image = "next" => waker = "none" /\ main \notin {"start", "prompted"}
  /\ main \in Starting \cup {"start", "prompted"} => waker = "none" /\ (image = "stage1" => key = "none")
  /\ waker = "getc" => key = "none"
  /\ main \in Starting => irqPc = "none" /\ ~unmasked /\ (image = "stage1" => rxbuf = <<>>)

KeyInv ==
  /\ RxTypeOK /\ WakerRunsOnce
  /\ image = "stage1" /\ key = "none" => FirstIsNext
  /\ key # "none" => key = first
  /\ result = "X" => first = "X"
  /\ main = "xmodem" => first = "X"

-----------------------------------------------------------------------------
(* What of the main thread's output must be out where the main thread is.  *)
MainIsOut ==
  /\ main \in Leaving \cup {"busy"} =>
       left["main"] = 0 /\ \A i \in 1..Len(tx) : tx[i] # "main"
  /\ main \in Leaving => sending # "main"

(* Nobody is about to print a character into a full FIFO without knowing   *)
(* that another has printed since.                                         *)
RoomIsThere ==
  \A p \in Printers : /\ putc[p] # "idle" => left[p] > 0
                      /\ putc[p] = "room" => Len(tx) < TxSize

TxTypeOK ==
  /\ tx \in Seq(Printers) /\ left \in [Printers -> Nat]
  /\ putc \in [Printers -> {"idle", "room", "stale"}]

OutInv ==
  /\ TxTypeOK /\ RoomIsThere /\ MainIsOut /\ OutputKept
  /\ main \in Entering => \A p \in Printers : left[p] = 0
  /\ waker \in {"none", "getc"} => left["waker"] = 0

IInv == KeyInv /\ OutInv

-----------------------------------------------------------------------------
(* Sequences. *)
LEMMA HeadIsFirst ==
  ASSUME NEW S, NEW s \in Seq(S), s # <<>>
  PROVE  /\ Len(s) \in Nat /\ Len(s) >= 1 /\ Head(s) = s[1] /\ Head(s) \in S
         /\ Tail(s) \in Seq(S) /\ Len(Tail(s)) = Len(s) - 1
         /\ \A i \in 1..(Len(s) - 1) : Tail(s)[i] = s[i + 1]
OBVIOUS

LEMMA AppendIsLast ==
  ASSUME NEW S, NEW s \in Seq(S), NEW e \in S
  PROVE  /\ Append(s, e) \in Seq(S) /\ Len(Append(s, e)) = Len(s) + 1 /\ Len(s) \in Nat
         /\ Append(s, e)[Len(s) + 1] = e /\ Append(s, e) # <<>>
         /\ \A i \in 1..Len(s) : Append(s, e)[i] = s[i]
         /\ s # <<>> => Head(Append(s, e)) = Head(s)
         /\ s = <<>> => Head(Append(s, e)) = e
<1>1. /\ Append(s, e) \in Seq(S) /\ Len(Append(s, e)) = Len(s) + 1 /\ Len(s) \in Nat
      /\ Append(s, e)[Len(s) + 1] = e
      /\ \A i \in 1..Len(s) : Append(s, e)[i] = s[i]
  OBVIOUS
<1>2. Append(s, e) # <<>> /\ Head(Append(s, e)) = Append(s, e)[1]
  BY <1>1
<1>3. s # <<>> => Len(s) >= 1 /\ Head(s) = s[1]
  OBVIOUS
<1>4. s = <<>> => Len(s) = 0
  OBVIOUS
<1> QED
  BY <1>1, <1>2, <1>3, <1>4

LEMMA KeyNames == "bad" \notin Keys /\ "none" \notin Keys /\ "timeout" \notin Keys /\ "X" \in Keys
BY AutobootAssumption, UartAssumption DEF AutobootAssumption, UartAssumption

LEMMA PrinterNames ==
  /\ {"start", "main", "waker", "core2", "irq"} \subseteq Printers
  /\ "none" \notin Printers
BY AutobootAssumption, UartAssumption DEF AutobootAssumption, UartAssumption, Printers

-----------------------------------------------------------------------------
(* The keys. *)

(* A character that arrives is behind all others. *)
LEMMA TypeKeepsKeys ==
  ASSUME KeyInv, Type
  PROVE  KeyInv'
<1>1. PICK c \in Keys \cup {"bad"} :
        /\ Arrive(c)
        /\ first' = IF first = "none" /\ c # "bad" /\ Len(fifo) < FifoSize THEN c ELSE first
  BY DEF Type
<1>2. UNCHANGED <<rxbuf, irqPc, image, main, unmasked, result, waker, key>>
  BY <1>1 DEF Type, Arrive, bootVars
<1>3. \/ Len(fifo) < FifoSize /\ fifo' = Append(fifo, c)
      \/ ~(Len(fifo) < FifoSize) /\ fifo' = fifo
  BY <1>1 DEF Arrive
<1>4. RxTypeOK'
  BY <1>1, <1>2, <1>3 DEF KeyInv, RxTypeOK
<1>5. WakerRunsOnce'
  BY <1>2 DEF KeyInv, WakerRunsOnce
<1>6. first # "none" => first' = first
  BY <1>1
<1>7. ASSUME image = "stage1", key = "none"
      PROVE  FirstIsNext'
  <2>0. FirstIsNext
    BY <1>7 DEF KeyInv
  <2>1. CASE first = "none" /\ first' = "none"
    <3>1. NoKeys /\ (fifo' = fifo \/ c = "bad")
      BY <1>1, <1>3, <2>0, <2>1, KeyNames DEF FirstIsNext
    <3>2. \A i \in 1..Len(fifo') : fifo'[i] = "bad"
      BY <1>3, <3>1, AppendIsLast DEF KeyInv, RxTypeOK, NoKeys
    <3> QED
      BY <1>2, <2>1, <3>1, <3>2 DEF NoKeys, FirstIsNext
  <2>2. CASE first = "none" /\ first' # "none"
    <3>1. NoKeys /\ first' = c /\ fifo' = Append(fifo, c)
      BY <1>1, <1>3, <2>0, <2>2 DEF FirstIsNext
    <3>2. /\ Len(fifo') = Len(fifo) + 1 /\ Len(fifo) \in Nat /\ fifo'[Len(fifo) + 1] = c
          /\ \A j \in 1..Len(fifo) : fifo'[j] = "bad"
      BY <3>1, AppendIsLast DEF KeyInv, RxTypeOK, NoKeys
    <3>3. \E i \in 1..Len(fifo') : fifo'[i] = c /\ \A j \in 1..(i - 1) : fifo'[j] = "bad"
      <4>1. Len(fifo) + 1 \in 1..Len(fifo') /\ (Len(fifo) + 1) - 1 = Len(fifo)
        BY <3>2
      <4> QED
        BY <3>2, <4>1
    <3> QED
      BY <1>2, <2>2, <3>1, <3>3 DEF InFront, NoKeys, FirstIsNext
  <2>3. CASE first # "none"
    <3>1. InFront(first) /\ first' = first
      BY <1>6, <2>0, <2>3 DEF FirstIsNext
    <3>2. CASE rxbuf # <<>>
      BY <1>2, <2>3, <3>1, <3>2 DEF InFront, FirstIsNext
    <3>3. CASE rxbuf = <<>>
      <4>1. PICK i \in 1..Len(fifo) : fifo[i] = first /\ \A j \in 1..(i - 1) : fifo[j] = "bad"
        BY <3>1, <3>3 DEF InFront
      <4>2. /\ Len(fifo) \in Nat /\ Len(fifo') \in Nat /\ Len(fifo') >= Len(fifo)
            /\ \A j \in 1..Len(fifo) : fifo'[j] = fifo[j]
        BY <1>3, AppendIsLast DEF KeyInv, RxTypeOK
      <4>3. i \in 1..Len(fifo') /\ fifo'[i] = first /\ \A j \in 1..(i - 1) : fifo'[j] = "bad"
        BY <4>1, <4>2
      <4> QED
        BY <1>2, <2>3, <3>1, <3>3, <4>3 DEF InFront, FirstIsNext
    <3> QED
      BY <3>2, <3>3
  <2> QED
    BY <2>1, <2>2, <2>3
<1>8. /\ key' # "none" => key' = first'
      /\ result' = "X" => first' = "X"
      /\ main' = "xmodem" => first' = "X"
  BY <1>2, <1>6 DEF KeyInv
<1> QED
  BY <1>2, <1>4, <1>5, <1>7, <1>8 DEF KeyInv

(* The handler moves them on in their order, and drops the bad ones; the   *)
(* ring buffer has room for one at least.                                  *)
LEMMA ReadDrKeepsKeys ==
  ASSUME KeyInv, ReadDr, UNCHANGED <<bootVars, keyVars>>
  PROVE  KeyInv'
<1>1. /\ fifo # <<>> /\ fifo' = Tail(fifo) /\ irqPc = "loop" /\ irqPc' = irqPc
      /\ rxbuf' = IF Head(fifo) # "bad" /\ Len(rxbuf) + 1 < RxBufSize
                    THEN Append(rxbuf, Head(fifo)) ELSE rxbuf
      /\ UNCHANGED <<image, main, unmasked, result, waker, key, first>>
  BY DEF ReadDr, IsSound, bootVars, keyVars
<1> DEFINE c == Head(fifo)
<1>2. /\ fifo \in Seq(Keys \cup {"bad"}) /\ rxbuf \in Seq(Keys) /\ Len(rxbuf) \in Nat
      /\ RxBufSize \in Nat /\ RxBufSize > 1
  BY UartAssumption DEF KeyInv, RxTypeOK, UartAssumption
<1>3. /\ Len(fifo) \in Nat /\ c = fifo[1] /\ c \in Keys \cup {"bad"}
      /\ fifo' \in Seq(Keys \cup {"bad"}) /\ Len(fifo') = Len(fifo) - 1 /\ Len(fifo) >= 1
      /\ \A i \in 1..(Len(fifo) - 1) : fifo'[i] = fifo[i + 1]
  BY <1>1, <1>2, HeadIsFirst
<1>4. c # "bad" => c \in Keys /\ Append(rxbuf, c) \in Seq(Keys) /\ Append(rxbuf, c) # <<>>
                   /\ Head(Append(rxbuf, c)) = (IF rxbuf = <<>> THEN c ELSE Head(rxbuf))
  BY <1>2, <1>3, AppendIsLast
<1>5. RxTypeOK'
  BY <1>1, <1>2, <1>3, <1>4 DEF KeyInv, RxTypeOK
<1>6. WakerRunsOnce'
  BY <1>1 DEF KeyInv, WakerRunsOnce
<1>7. ASSUME FirstIsNext
      PROVE  FirstIsNext'
  <2>1. CASE first = "none"
    <3>1. rxbuf = <<>> /\ \A i \in 1..Len(fifo) : fifo[i] = "bad"
      BY <1>7, <2>1 DEF FirstIsNext, NoKeys
    <3>2. c = "bad" /\ \A i \in 1..Len(fifo') : fifo'[i] = "bad"
      BY <1>3, <3>1
    <3> QED
      BY <1>1, <2>1, <3>1, <3>2 DEF FirstIsNext, NoKeys
  <2>2. CASE first # "none" /\ rxbuf # <<>>
    <3>1. Head(rxbuf) = first
      BY <1>7, <2>2 DEF FirstIsNext, InFront
    <3>2. rxbuf' # <<>> /\ Head(rxbuf') = first
      BY <1>1, <1>4, <2>2, <3>1
    <3> QED
      BY <1>1, <2>2, <3>2 DEF FirstIsNext, InFront
  <2>3. CASE first # "none" /\ rxbuf = <<>>
    <3>1. PICK i \in 1..Len(fifo) : fifo[i] = first /\ \A j \in 1..(i - 1) : fifo[j] = "bad"
      BY <1>7, <2>3 DEF FirstIsNext, InFront
    <3>2. CASE i = 1
      <4>1. first # "bad"
        BY <2>3, KeyNames DEF KeyInv, RxTypeOK
      <4>2. c = first /\ c # "bad" /\ Len(rxbuf) + 1 < RxBufSize
        BY <1>2, <1>3, <2>3, <3>1, <3>2, <4>1
      <4>3. rxbuf' # <<>> /\ Head(rxbuf') = first
        BY <1>1, <1>4, <2>3, <4>2
      <4> QED
        BY <1>1, <2>3, <4>3 DEF FirstIsNext, InFront
    <3>3. CASE i > 1
      <4>1. c = "bad" /\ rxbuf' = <<>>
        BY <1>1, <1>3, <2>3, <3>1, <3>3
      <4>2. i - 1 \in 1..Len(fifo') /\ fifo'[i - 1] = first
            /\ \A j \in 1..((i - 1) - 1) : fifo'[j] = "bad"
        BY <1>3, <3>1, <3>3
      <4> QED
        BY <1>1, <2>3, <4>1, <4>2 DEF FirstIsNext, InFront
    <3> QED
      BY <3>1, <3>2, <3>3
  <2> QED
    BY <2>1, <2>2, <2>3
<1> QED
  BY <1>1, <1>5, <1>6, <1>7 DEF KeyInv

(* The waker reads the one that is in front. *)
LEMMA WakerReadsFirst ==
  ASSUME KeyInv, WakerReads
  PROVE  KeyInv'
<1>1. PICK c \in Keys : Getc(c) /\ key' = c
  BY DEF WakerReads
<1>2. /\ rxbuf # <<>> /\ c = Head(rxbuf) /\ rxbuf' = Tail(rxbuf) /\ waker = "getc" /\ waker' = "got"
      /\ UNCHANGED <<fifo, irqPc, image, main, unmasked, result, first>>
  BY <1>1 DEF WakerReads, Getc, bootVars
<1>3. key = "none" /\ image = "stage1"
  BY <1>2 DEF KeyInv, WakerRunsOnce
<1>4. c = first
  BY <1>2, <1>3 DEF KeyInv, FirstIsNext, NoKeys, InFront
<1>5. rxbuf' \in Seq(Keys) /\ key' = c /\ key' # "none"
  BY <1>1, <1>2, KeyNames, HeadIsFirst DEF KeyInv, RxTypeOK
<1> QED
  BY <1>2, <1>3, <1>4, <1>5 DEF KeyInv, RxTypeOK, WakerRunsOnce

(* It wakes the application with it. *)
LEMMA WakerAnswersFirst ==
  ASSUME KeyInv, WakerAnswers
  PROVE  KeyInv'
<1>1. /\ waker = "got" /\ waker' = "done"
      /\ UNCHANGED <<fifo, rxbuf, irqPc, image, unmasked, key, first>>
      /\ \/ UNCHANGED <<main, result>>
         \/ key = "X" /\ main = "blocked" /\ main' = "woken" /\ result' = "X"
  BY DEF WakerAnswers, WakeAll, uartVars, rxVars
<1>2. key = "X" => first = "X"
  BY KeyNames DEF KeyInv
<1>3. RxTypeOK' /\ WakerRunsOnce'
  BY <1>1 DEF KeyInv, RxTypeOK, WakerRunsOnce, Starting, Entering
<1>4. FirstIsNext' <=> FirstIsNext
  BY <1>1 DEF FirstIsNext, NoKeys, InFront
<1> QED
  BY <1>1, <1>2, <1>3, <1>4 DEF KeyInv

(* Other steps leave the keys alone. *)
LEMMA KeysStay ==
  ASSUME KeyInv, UNCHANGED <<fifo, rxbuf, key, first, image, waker>>,
         result' = result \/ result' = "timeout",
         unmasked' = unmasked \/ ~unmasked',
         main' \in Starting => main \in Starting /\ irqPc' = irqPc /\ unmasked' = unmasked,
         main' \in {"start", "prompted"} =>
             main \in Starting \cup {"start", "prompted"} /\ image = "stage1",
         main' = "xmodem" => main = "xmodem" \/ result = "X"
  PROVE  KeyInv'
<1>1. FirstIsNext' <=> FirstIsNext
  BY DEF FirstIsNext, NoKeys, InFront
<1>2. WakerRunsOnce'
  BY DEF KeyInv, WakerRunsOnce
<1> QED
  BY <1>1, <1>2 DEF KeyInv, RxTypeOK

LEMMA KeysStayHere ==
  ASSUME KeyInv, UNCHANGED <<fifo, rxbuf, keyVars, bootVars>>, main \in Starting => irqPc' = irqPc
  PROVE  KeyInv'
<1>1. main \in {"start", "prompted"} => image = "stage1"
  BY DEF KeyInv, WakerRunsOnce
<1> QED
  BY <1>1, KeysStay DEF keyVars, bootVars

LEMMA MainKeepsKeys ==
  ASSUME KeyInv, Main \/ TimeUp \/ BootOtherCore \/ Reboot \/ WatchdogFires
  PROVE  KeyInv'
<1> USE DEF uartVars, rxVars, txVars, keyVars, Goes, Tells, Starting, Entering
<1>1. CASE ManualUartCfg \/ ManualU \/ EarlyShutdown \/ EarlyConfigure \/ Banner \/ UartFlush
  BY <1>1, KeysStay DEF ManualUartCfg, ManualU, EarlyShutdown, EarlyConfigure, Banner, UartFlush, Shutdown
<1>2. CASE UartOn
  <2>1. /\ main = "off" /\ main' = (IF image = "stage1" THEN "start" ELSE "shell")
        /\ rxbuf' = <<>> /\ UNCHANGED <<fifo, irqPc, image, result, waker, key, first>>
    BY <1>2 DEF UartOn
  <2>2. image = "stage1" => rxbuf' = rxbuf
    BY <2>1 DEF KeyInv, WakerRunsOnce
  <2>3. image = "stage1" => (FirstIsNext' <=> FirstIsNext)
    BY <2>1, <2>2 DEF FirstIsNext, NoKeys, InFront
  <2>4. WakerRunsOnce'
    BY <2>1 DEF KeyInv, WakerRunsOnce
  <2> QED
    BY <2>1, <2>3, <2>4 DEF KeyInv, RxTypeOK
<1>3. CASE StartWaker
  <2>1. /\ main = "prompted" /\ main' = "started" /\ waker' = "getc"
        /\ UNCHANGED <<fifo, rxbuf, irqPc, image, unmasked, result, key, first>>
    BY <1>3 DEF StartWaker
  <2>2. FirstIsNext' <=> FirstIsNext
    BY <2>1 DEF FirstIsNext, NoKeys, InFront
  <2> QED
    BY <2>1, <2>2 DEF KeyInv, RxTypeOK, WakerRunsOnce
<1>4. CASE PrintPrompt
  <2>1. image = "stage1"
    BY <1>4 DEF PrintPrompt, KeyInv, WakerRunsOnce
  <2> QED
    BY <1>4, <2>1, KeysStay DEF PrintPrompt
<1>5. CASE Block \/ PrintResult \/ Decide \/ Loaded \/ NotLoaded \/ Panic \/ Halt
  BY <1>5, KeysStay DEF Block, PrintResult, Decide, Loaded, NotLoaded, Panic, Halt
<1>6. CASE ChainLoad \/ UartFlushTx \/ StartWatchdog
  BY <1>6, KeysStay DEF ChainLoad, UartFlushTx, StartWatchdog
<1>10. CASE MainPrints
  BY <1>10, KeysStayHere DEF MainPrints, bootVars
<1>7. CASE Jump
  <2>1. /\ main = "leave" /\ irqPc = "none" /\ ~unmasked' /\ waker' = "none"
        /\ UNCHANGED <<fifo, rxbuf, irqPc, result, key, first>>
        /\ \/ main' = "entered" /\ image' = "next"
           \/ main' = "stray" /\ image' = image
    BY <1>7 DEF Jump, InThread
  <2>2. FirstIsNext' <=> FirstIsNext
    BY <2>1 DEF FirstIsNext, NoKeys, InFront
  <2> QED
    BY <2>1, <2>2 DEF KeyInv, RxTypeOK, WakerRunsOnce
<1>8. CASE TimeUp
  BY <1>8, KeysStay DEF TimeUp
<1>9. CASE BootOtherCore \/ Reboot \/ WatchdogFires
  BY <1>9, KeysStay DEF BootOtherCore, Reboot, WatchdogFires
<1> QED
  BY <1>1, <1>2, <1>3, <1>4, <1>5, <1>6, <1>7, <1>8, <1>9, <1>10 DEF Main

LEMMA KeyPart ==
  ASSUME KeyInv, [Next]_vars
  PROVE  KeyInv'
<1> USE DEF uartVars, rxVars, txVars, keyVars, bootVars
<1>1. CASE Main \/ TimeUp \/ BootOtherCore \/ Reboot \/ WatchdogFires
  BY <1>1, MainKeepsKeys
<1>2. CASE OtherCorePrints \/ WakerPrints \/ LineSends \/ LineIsQuiet
  BY <1>2, KeysStayHere DEF OtherCorePrints, WakerPrints, LineSends, LineIsQuiet, Transmit, Silence
<1>3. CASE Irq
  <2>1. CASE ReadDr
    BY <1>3, <2>1, ReadDrKeepsKeys DEF Irq
  <2>2. CASE unmasked /\ EnterIrq
    <3>1. main \notin Starting
      BY <2>2 DEF KeyInv, WakerRunsOnce
    <3> QED
      BY <1>3, <2>2, <3>1, KeysStayHere DEF Irq, EnterIrq
  <2>3. CASE IrqDone \/ (irqPc = "loop" /\ Putc("irq") /\ UNCHANGED <<rxVars, control>>)
    <3>1. irqPc = "loop"
      BY <2>3 DEF IrqDone
    <3>2. main \notin Starting
      BY <3>1 DEF KeyInv, WakerRunsOnce
    <3> QED
      BY <1>3, <2>3, <3>2, KeysStayHere DEF Irq, IrqDone
  <2> QED
    BY <1>3, <2>1, <2>2, <2>3 DEF Irq
<1>4. CASE WakerReads \/ WakerAnswers
  BY <1>4, WakerReadsFirst, WakerAnswersFirst
<1>5. CASE Type
  BY <1>5, TypeKeepsKeys
<1>6. CASE UNCHANGED vars
  BY <1>6, KeysStayHere DEF vars
<1> QED
  BY <1>1, <1>2, <1>3, <1>4, <1>5, <1>6 DEF Next, Waker

-----------------------------------------------------------------------------
(* What is printed. *)

(* A printer finds room, and then prints one character; the others know.   *)
LEMMA PutcKeepsOutput ==
  ASSUME OutInv, NEW who \in Printers, Putc(who), UNCHANGED <<main, waker>>
  PROVE  OutInv'
<1> USE DEF OutInv, TxTypeOK
<1>1. left[who] > 0
  BY DEF Putc, FindRoom, WriteDr, RoomIsThere
<1>2. main \notin Entering /\ (main \in Leaving \cup {"busy"} => who # "main")
  <2>1. main \notin Entering
    BY <1>1
  <2>2. main \in Leaving \cup {"busy"} => left["main"] = 0
    BY DEF MainIsOut
  <2> QED
    BY <1>1, <2>1, <2>2
<1>3. waker \in {"none", "getc"} => who # "waker"
  BY <1>1
<1>4. CASE FindRoom(who)
  <2>1. UNCHANGED <<tx, sending, left, lost>> /\ putc' = [putc EXCEPT ![who] = "room"] /\ Len(tx) < TxSize
    BY <1>4 DEF FindRoom
  <2>2. TxTypeOK' /\ RoomIsThere'
    BY <1>1, <2>1 DEF RoomIsThere
  <2>3. MainIsOut' /\ OutputKept'
    BY <2>1 DEF MainIsOut, OutputKept
  <2> QED
    BY <2>1, <2>2, <2>3
<1>5. CASE WriteDr(who)
  <2>1. /\ left' = [left EXCEPT ![who] = @ - 1]
        /\ putc' = [p \in Printers |-> IF p = who \/ putc[p] = "idle" THEN "idle" ELSE "stale"]
        /\ sending' = sending
        /\ \/ tx' = Append(tx, who) /\ lost' = lost
           \/ tx' = tx /\ lost' = Lost("full", who, putc[who]) /\ ~(Len(tx) < TxSize)
    BY <1>5 DEF WriteDr
  <2>2. /\ tx' \in Seq(Printers)
        /\ \A i \in 1..Len(tx') : tx'[i] = who \/ \E j \in 1..Len(tx) : tx'[i] = tx[j]
    <3>1. CASE tx' = tx
      BY <3>1
    <3>2. CASE tx' = Append(tx, who)
      <4>1. /\ tx' \in Seq(Printers) /\ Len(tx') = Len(tx) + 1 /\ Len(tx) \in Nat
            /\ tx'[Len(tx) + 1] = who /\ \A i \in 1..Len(tx) : tx'[i] = tx[i]
        BY <3>2, AppendIsLast
      <4>2. ASSUME NEW i \in 1..Len(tx'), tx'[i] # who
            PROVE  \E j \in 1..Len(tx) : tx'[i] = tx[j]
        <5>1. i \in 1..Len(tx)
          BY <4>1, <4>2
        <5> QED
          BY <4>1, <5>1
      <4> QED
        BY <4>1, <4>2
    <3> QED
      BY <2>1, <3>1, <3>2
  <2>3. left' \in [Printers -> Nat] /\ left'[who] = left[who] - 1
        /\ \A p \in Printers \ {who} : left'[p] = left[p]
    BY <1>1, <2>1
  <2>4. TxTypeOK' /\ RoomIsThere'
    BY <2>1, <2>2, <2>3 DEF RoomIsThere
  <2>5. MainIsOut'
    <3>1. ASSUME main \in Leaving \cup {"busy"}
          PROVE  left'["main"] = 0 /\ \A i \in 1..Len(tx') : tx'[i] # "main"
      <4>1. who # "main" /\ left["main"] = 0 /\ \A i \in 1..Len(tx) : tx[i] # "main"
        BY <1>2, <3>1 DEF MainIsOut
      <4>2. "main" \in Printers
        BY PrinterNames
      <4> QED
        BY <2>2, <2>3, <4>1, <4>2
    <3> QED
      BY <2>1, <3>1 DEF MainIsOut
  <2>6. OutputKept'
    <3>1. CASE lost' = lost
      BY <3>1 DEF OutputKept
    <3>2. CASE lost' = Lost("full", who, putc[who]) /\ ~(Len(tx) < TxSize)
      <4>1. putc[who] = "stale"
        BY <1>5, <3>2 DEF WriteDr, RoomIsThere
      <4> QED
        BY <3>2, <4>1 DEF OutputKept, Lost
    <3> QED
      BY <2>1, <3>1, <3>2
  <2>7. waker' \in {"none", "getc"} => left'["waker"] = 0
    BY <1>3, <2>3, PrinterNames
  <2> QED
    BY <1>2, <2>4, <2>5, <2>6, <2>7
<1> QED
  BY <1>4, <1>5 DEF Putc

(* The PL011 sends in order. *)
LEMMA SendingKeepsOutput ==
  ASSUME OutInv, Transmit, UNCHANGED <<main, waker>>
  PROVE  OutInv'
<1> USE DEF OutInv, TxTypeOK
<1>1. /\ UNCHANGED <<left, putc, lost>>
      /\ \/ tx # <<>> /\ sending' = Head(tx) /\ tx' = Tail(tx)
         \/ tx' = tx /\ sending' = "none"
  BY DEF Transmit
<1>2. tx # <<>> => /\ Len(tx) \in Nat /\ Len(tx) >= 1 /\ Head(tx) = tx[1] /\ Tail(tx) \in Seq(Printers)
                   /\ Len(Tail(tx)) = Len(tx) - 1
                   /\ \A i \in 1..(Len(tx) - 1) : Tail(tx)[i] = tx[i + 1]
  BY HeadIsFirst
<1>3. TxTypeOK' /\ RoomIsThere' /\ OutputKept'
  <2>1. tx' \in Seq(Printers) /\ (Len(tx) < TxSize => Len(tx') < TxSize)
    <3>1. CASE tx' = tx
      BY <3>1
    <3>2. CASE tx # <<>> /\ tx' = Tail(tx)
      <4>1. tx' \in Seq(Printers) /\ Len(tx') = Len(tx) - 1 /\ Len(tx) \in Nat /\ TxSize \in Nat
        BY <1>2, <3>2, UartAssumption DEF UartAssumption
      <4> QED
        BY <4>1
    <3> QED
      BY <1>1, <3>1, <3>2
  <2> QED
    BY <1>1, <2>1 DEF RoomIsThere, OutputKept
<1>4. MainIsOut'
  <2>1. CASE tx # <<>> /\ sending' = Head(tx) /\ tx' = Tail(tx)
    <3>1. main \in Leaving \cup {"busy"} =>
            left["main"] = 0 /\ sending' # "main" /\ \A i \in 1..Len(tx') : tx'[i] # "main"
      BY <1>2, <2>1 DEF MainIsOut
    <3> QED
      BY <1>1, <3>1 DEF MainIsOut
  <2>2. CASE tx' = tx /\ sending' = "none"
    BY <1>1, <2>2 DEF MainIsOut
  <2> QED
    BY <1>1, <2>1, <2>2
<1> QED
  BY <1>1, <1>3, <1>4

(* Steps that print nothing. *)
LEMMA OutputStays ==
  ASSUME OutInv, UNCHANGED txVars,
         main' \in Entering => main \in Entering,
         main' \in Leaving => main \in Leaving,
         main' \in Leaving \cup {"busy"} => main \in Leaving \cup {"busy"},
         waker' \in {"none", "getc"} => waker \in {"none", "getc"}
  PROVE  OutInv'
<1>1. UNCHANGED <<tx, sending, left, putc, lost>>
  BY DEF txVars
<1> QED
  BY <1>1 DEF OutInv, TxTypeOK, RoomIsThere, MainIsOut, OutputKept

(* A printer that has printed all has something more to print.             *)
LEMMA SayKeepsOutput ==
  ASSUME OutInv, NEW who \in Printers, NEW n \in Nat, Printed(who), Say(who, n),
         main' = main \/ main' \notin Leaving \cup {"busy"},
         main \notin Entering, who = "main" => main' # main,
         waker' \in {"none", "getc"} => waker \in {"none", "getc"} /\ who # "waker"
  PROVE  OutInv'
<1>1. UNCHANGED <<tx, sending, putc, lost>> /\ left' = [left EXCEPT ![who] = n] /\ left[who] = 0
  BY DEF Say, Printed
<1>2. main' \notin Entering
  BY DEF Leaving
<1>3. TxTypeOK' /\ RoomIsThere' /\ OutputKept'
  BY <1>1 DEF OutInv, TxTypeOK, RoomIsThere, OutputKept
<1>4. MainIsOut'
  BY <1>1, PrinterNames DEF OutInv, TxTypeOK, MainIsOut, Leaving
<1> QED
  BY <1>1, <1>2, <1>3, <1>4, PrinterNames DEF OutInv, TxTypeOK

(* The PL011 is set up anew: that spoils what is being sent, if it is not  *)
(* the main thread's.                                                      *)
LEMMA ConfigureKeepsOutput ==
  ASSUME OutInv, NEW where \in {"start", "early", "init"}, NEW on, Configure(where, on), waker' = waker,
         main \in Leaving \/ where = "init",
         main' \in Leaving \cup {"busy"} => main \in Entering
  PROVE  OutInv'
<1>1. UNCHANGED <<tx, left, putc>> /\ sending' = "none" /\ "none" # "main"
      /\ (lost' = lost \/ lost' = Lost(where, sending, "room"))
  BY DEF Configure
<1>2. TxTypeOK' /\ RoomIsThere' /\ MainIsOut'
  BY <1>1 DEF OutInv, TxTypeOK, RoomIsThere, MainIsOut, Leaving
<1>3. OutputKept'
  <2>1. where # "init" => sending # "main"
    BY DEF OutInv, MainIsOut
  <2> QED
    BY <1>1, <2>1 DEF OutInv, OutputKept, Lost
<1> QED
  BY <1>1, <1>2, <1>3 DEF OutInv, Leaving, Entering

(* The main thread's steps. *)
LEMMA MainKeepsOutput ==
  ASSUME OutInv, KeyInv, Main \/ BootOtherCore \/ Reboot \/ WatchdogFires
  PROVE  OutInv'
<1> USE DEF Goes, Entering, Leaving
<1>1. CASE ManualUartCfg \/ EarlyConfigure
  BY <1>1, ConfigureKeepsOutput DEF ManualUartCfg, EarlyConfigure, keyVars
<1>2. CASE UartOn
  BY <1>2, ConfigureKeepsOutput DEF UartOn, keyVars
<1>3. CASE ManualU
  <2>1. /\ main = "set up" /\ main' = "reset" /\ UNCHANGED <<sending, left, putc, waker>>
        /\ \/ tx' = Append(tx, "start") /\ lost' = lost
           \/ tx' = tx /\ lost' = Lost("full", "start", "stale")
    BY <1>3 DEF ManualU, keyVars
  <2>2. \A p \in Printers : left[p] = 0 /\ putc[p] = "idle"
    <3>1. \A p \in Printers : left[p] = 0
      BY <2>1 DEF OutInv
    <3>2. \A p \in Printers : putc[p] # "idle" => left[p] > 0
      BY DEF OutInv, RoomIsThere
    <3> QED
      BY <3>1, <3>2
  <2>3. tx' \in Seq(Printers) /\ \A i \in 1..Len(tx') : tx'[i] # "main"
    <3>1. tx \in Seq(Printers) /\ "start" \in Printers /\ \A i \in 1..Len(tx) : tx[i] # "main"
      BY <2>1, PrinterNames DEF OutInv, TxTypeOK, MainIsOut
    <3>2. CASE tx' = tx
      BY <3>1, <3>2
    <3>3. CASE tx' = Append(tx, "start")
      <4>1. /\ tx' \in Seq(Printers) /\ Len(tx') = Len(tx) + 1 /\ Len(tx) \in Nat
            /\ tx'[Len(tx) + 1] = "start" /\ \A i \in 1..Len(tx) : tx'[i] = tx[i]
        BY <3>1, <3>3, AppendIsLast
      <4>2. ASSUME NEW i \in 1..Len(tx') PROVE tx'[i] # "main"
        <5>1. i \in 1..Len(tx) \/ i = Len(tx) + 1
          BY <4>1
        <5> QED
          BY <3>1, <4>1, <5>1
      <4> QED
        BY <4>1, <4>2
    <3> QED
      BY <2>1, <3>2, <3>3
  <2>4. OutputKept'
    <3>1. CASE lost' = lost
      BY <3>1 DEF OutInv, OutputKept
    <3>2. CASE lost' = Lost("full", "start", "stale")
      BY <3>2 DEF OutputKept, Lost
    <3> QED
      BY <2>1, <3>1, <3>2
  <2> QED
    BY <2>1, <2>2, <2>3, <2>4, PrinterNames DEF OutInv, TxTypeOK, RoomIsThere, MainIsOut
<1>4. CASE EarlyShutdown \/ UartFlush
  BY <1>4, OutputStays DEF EarlyShutdown, UartFlush, Shutdown, keyVars
<1>5. CASE Banner \/ PrintResult \/ NotLoaded \/ Panic \/ ChainLoad
  <2>1. Printed("main") /\ Say("main", 1) /\ waker' = waker /\ main' # main
        /\ main \notin Entering /\ main' \notin Leaving \cup {"busy"}
    BY <1>5 DEF Banner, PrintResult, NotLoaded, Panic, ChainLoad, Tells, keyVars
  <2> QED
    BY <2>1, SayKeepsOutput, PrinterNames
<1>6. CASE PrintPrompt \/ Reboot
  <2>1. /\ Printed("main") /\ waker' = waker /\ main' # main
        /\ main \notin Entering /\ main' \notin Leaving \cup {"busy"}
        /\ \E n \in Nat : Say("main", n)
    BY <1>6, AutobootAssumption DEF PrintPrompt, Reboot, keyVars, AutobootAssumption
  <2> QED
    BY <2>1, SayKeepsOutput, PrinterNames
<1>7. CASE StartWaker \/ Block \/ Decide \/ Loaded \/ Halt
  <2>1. waker' \in {"none", "getc"} => waker \in {"none", "getc"}
    BY <1>7 DEF StartWaker, Block, Decide, Loaded, Halt, KeyInv, WakerRunsOnce, keyVars
  <2> QED
    BY <1>7, <2>1, OutputStays DEF StartWaker, Block, Decide, Loaded, Halt, uartVars
<1>8. CASE UartFlushTx
  <2>1. /\ UNCHANGED <<tx, sending, left, putc, lost, waker>> /\ left["main"] = 0 /\ tx = <<>>
        /\ main' = "busy" \/ (main' = "leave" /\ sending = "none")
    BY <1>8 DEF UartFlushTx, Printed, TxEmpty, NotBusy, uartVars, txVars, keyVars
  <2>2. tx' = <<>> /\ Len(<<>>) = 0
    BY <2>1
  <2>3. MainIsOut'
    <3>1. left'["main"] = 0 /\ \A i \in 1..Len(tx') : tx'[i] # "main"
      BY <2>1, <2>2
    <3>2. main' \in Leaving => sending' # "main"
      BY <2>1
    <3> QED
      BY <3>1, <3>2 DEF MainIsOut
  <2> QED
    BY <2>1, <2>3 DEF OutInv, TxTypeOK, RoomIsThere, OutputKept
<1>9. CASE Jump
  <2>1. /\ main = "leave" /\ main' \in {"entered", "stray"} /\ UNCHANGED <<tx, sending, lost>>
        /\ left' = [p \in Printers |-> 0] /\ putc' = [p \in Printers |-> "idle"]
    BY <1>9 DEF Jump
  <2>2. \A p \in Printers : left'[p] = 0 /\ putc'[p] = "idle"
    BY <2>1
  <2>3. sending' # "main" /\ \A i \in 1..Len(tx') : tx'[i] # "main"
    BY <2>1 DEF OutInv, MainIsOut
  <2>4. TxTypeOK' /\ RoomIsThere' /\ OutputKept'
    BY <2>1, <2>2 DEF OutInv, TxTypeOK, RoomIsThere, OutputKept
  <2>5. MainIsOut'
    BY <2>2, <2>3, PrinterNames DEF MainIsOut
  <2> QED
    BY <2>2, <2>4, <2>5, PrinterNames DEF OutInv
<1>10. CASE StartWatchdog
  BY <1>10, OutputStays DEF StartWatchdog, uartVars, keyVars
<1>11. CASE MainPrints
  BY <1>11, PutcKeepsOutput, PrinterNames DEF MainPrints, bootVars, keyVars
<1>12. CASE BootOtherCore
  <2>1. /\ main = "shell" /\ main' = "two cores" /\ waker' = waker
        /\ left' = [left EXCEPT !["main"] = 1, !["core2"] = 1]
        /\ UNCHANGED <<tx, sending, putc, lost>>
    BY <1>12 DEF BootOtherCore, keyVars
  <2> QED
    <3>1. TxTypeOK' /\ RoomIsThere' /\ OutputKept'
      <4>1. left' \in [Printers -> Nat] /\ \A p \in Printers : left'[p] = 1 \/ left'[p] = left[p]
        BY <2>1 DEF OutInv, TxTypeOK
      <4>2. TxTypeOK' /\ OutputKept'
        BY <2>1, <4>1 DEF OutInv, TxTypeOK, OutputKept
      <4>3. RoomIsThere'
        <5>1. ASSUME NEW p \in Printers
              PROVE  /\ putc[p] # "idle" => left'[p] > 0
                     /\ putc[p] = "room" => Len(tx) < TxSize
          <6>1. putc[p] # "idle" => left[p] > 0
            BY DEF OutInv, RoomIsThere
          <6>2. left'[p] = 1 \/ left'[p] = left[p]
            BY <4>1
          <6>3. putc[p] = "room" => Len(tx) < TxSize
            BY DEF OutInv, RoomIsThere
          <6> QED
            BY <6>1, <6>2, <6>3
        <5>2. putc' = putc /\ tx' = tx
          BY <2>1
        <5> QED
          BY <5>1, <5>2 DEF RoomIsThere
      <4> QED
        BY <4>2, <4>3
    <3>2. MainIsOut'
      BY <2>1 DEF MainIsOut
    <3>3. left'["waker"] = left["waker"]
      BY <2>1, PrinterNames DEF OutInv, TxTypeOK
    <3> QED
      BY <2>1, <3>1, <3>2, <3>3 DEF OutInv
<1>13. CASE WatchdogFires
  <2>1. /\ main = "spin" /\ main' = "down" /\ UNCHANGED <<tx, sending, left, putc, waker>>
        /\ lost' = lost \/ \E p \in Unsent : lost' = Lost("reset", p, "room")
    BY <1>13 DEF WatchdogFires, keyVars
  <2>2. "main" \notin Unsent
    BY <2>1 DEF OutInv, MainIsOut, Unsent
  <2>3. OutputKept'
    BY <2>1, <2>2 DEF OutInv, OutputKept, Lost
  <2> QED
    BY <2>1, <2>3 DEF OutInv, TxTypeOK, RoomIsThere, MainIsOut
<1> QED
  BY <1>1, <1>2, <1>3, <1>4, <1>5, <1>6, <1>7, <1>8, <1>9, <1>10, <1>11, <1>12, <1>13 DEF Main

LEMMA OutPart ==
  ASSUME OutInv, KeyInv, [Next]_vars
  PROVE  OutInv'
<1> USE DEF bootVars, keyVars
<1>1. CASE Main \/ BootOtherCore \/ Reboot \/ WatchdogFires
  BY <1>1, MainKeepsOutput
<1>2. CASE OtherCorePrints \/ WakerPrints
  BY <1>2, PutcKeepsOutput, PrinterNames DEF OtherCorePrints, WakerPrints
<1>3. CASE WakerReads
  <2>1. PICK c \in Keys : Say("waker", IF c = "X" THEN 1 ELSE 0)
    BY <1>3 DEF WakerReads
  <2>2. waker = "getc" /\ waker' = "got" /\ main' = main
    BY <1>3 DEF WakerReads
  <2>3. Printed("waker") /\ main \notin Entering
    BY <2>2 DEF OutInv, Printed, KeyInv, WakerRunsOnce, Starting
  <2>4. (IF c = "X" THEN 1 ELSE 0) \in Nat /\ "waker" # "main"
    OBVIOUS
  <2> QED
    BY <2>1, <2>2, <2>3, <2>4, SayKeepsOutput, PrinterNames
<1>4. CASE WakerAnswers \/ TimeUp
  BY <1>4, OutputStays DEF WakerAnswers, WakeAll, TimeUp, uartVars, Leaving, Entering
<1>5. CASE Irq
  <2>1. CASE ReadDr
    <3>1. /\ left["irq"] = 0 /\ irqPc = "loop" /\ UNCHANGED <<tx, sending, putc, lost, main, waker>>
          /\ \E n \in Nat : left' = [left EXCEPT !["irq"] = n]
      <4>1. left' = [left EXCEPT !["irq"] = IF Head(fifo) = "bad" \/ over THEN 1 ELSE 0]
        BY <2>1 DEF ReadDr
      <4>2. (IF Head(fifo) = "bad" \/ over THEN 1 ELSE 0) \in Nat
        OBVIOUS
      <4>3. left["irq"] = 0 /\ irqPc = "loop" /\ UNCHANGED <<tx, sending, putc, lost, main, waker>>
        BY <1>5, <2>1 DEF ReadDr, Irq
      <4> QED
        BY <4>1, <4>2, <4>3
    <3>2. main \notin Entering
      BY <3>1 DEF KeyInv, WakerRunsOnce, Starting
    <3> QED
      BY <3>1, <3>2, SayKeepsOutput, PrinterNames DEF Say, Printed
  <2>2. CASE EnterIrq \/ IrqDone
    BY <1>5, <2>2, OutputStays DEF EnterIrq, IrqDone, Irq
  <2>3. CASE Putc("irq")
    BY <1>5, <2>3, PutcKeepsOutput, PrinterNames DEF Irq
  <2> QED
    BY <1>5, <2>1, <2>2, <2>3 DEF Irq
<1>6. CASE Type \/ LineIsQuiet
  BY <1>6, OutputStays DEF Type, Arrive, LineIsQuiet, Silence
<1>7. CASE LineSends
  BY <1>7, SendingKeepsOutput DEF LineSends
<1>8. CASE UNCHANGED vars
  BY <1>8, OutputStays DEF vars, uartVars
<1> QED
  BY <1>1, <1>2, <1>3, <1>4, <1>5, <1>6, <1>7, <1>8 DEF Next, Waker

-----------------------------------------------------------------------------
LEMMA Begins == Init => IInv
<1> SUFFICES ASSUME Init PROVE IInv
  OBVIOUS
<1>1. /\ fifo = <<>> /\ rxbuf = <<>> /\ irqPc = "none" /\ tx = <<>> /\ sending = "none"
      /\ left = [p \in Printers |-> 0] /\ putc = [p \in Printers |-> "idle"] /\ lost = NoneLost
      /\ image = "stage1" /\ main = "entered" /\ ~unmasked /\ result = "none" /\ waker = "none"
      /\ key = "none" /\ first = "none"
  BY DEF Init, UartInit
<1>2. Len(<<>>) = 0 /\ <<>> \in Seq(Printers) /\ <<>> \in Seq(Keys) /\ <<>> \in Seq(Keys \cup {"bad"})
  OBVIOUS
<1>3. KeyInv
  BY <1>1, <1>2 DEF KeyInv, RxTypeOK, WakerRunsOnce, FirstIsNext, NoKeys
<1>4. OutInv
  BY <1>1, <1>2, PrinterNames DEF OutInv, TxTypeOK, RoomIsThere, MainIsOut, OutputKept
<1> QED
  BY <1>3, <1>4 DEF IInv

LEMMA Keeps == IInv /\ [Next]_vars => IInv'
BY KeyPart, OutPart DEF IInv

(* The inductive invariant holds: the keys on their way in, and the        *)
(* characters on their way out.                                            *)
THEOREM ConsoleInvariance == Spec => []IInv
BY Begins, Keeps, PTL DEF Spec

(* Only an X that is the first key can keep stage1 from booting from the   *)
(* card, whatever the sizes of the buffers and whatever is typed, lost and *)
(* damaged.                                                                *)
THEOREM FirstKeyAlwaysDecides == Spec => []FirstKeyDecides
<1>1. IInv => FirstKeyDecides
  BY DEF IInv, KeyInv, FirstKeyDecides
<1> QED
  BY <1>1, ConsoleInvariance, PTL

(* What the main thread prints reaches the line, also across a chain load  *)
(* and a reboot, but for the two ways that OutputKept names.               *)
THEOREM OutputAlwaysKept == Spec => []OutputKept
<1>1. IInv => OutputKept
  BY DEF IInv, OutInv
<1> QED
  BY <1>1, ConsoleInvariance, PTL
=============================================================================
