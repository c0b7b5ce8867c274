---------------------------- MODULE SdHost_proofs ----------------------------
(***************************************************************************)
(* Proofs about SdHost, for every size of the sectors, the FIFO and the    *)
(* card and every number of images, reads and faults: what is stored for a *)
(* sector are its words, and a read that breaks off has met a fault.       *)
(*                                                                         *)
(* The words in the FIFO follow on those that are stored (InOrder) because *)
(* the FIFO was empty and the card quiet when the read was sent (Drained). *)
(* The card is quiet then because between two reads a stop command is on   *)
(* its way, or has run (StopIsSent), and before the first one the card was *)
(* identified: it says that it has started (Said) only in a state in which *)
(* it does not send, whatever an image before or a lost command left.      *)
(*                                                                         *)
(* A read breaks off only on a fault, and the size is right, for a card    *)
(* whose register tells its size (RegistersTell).  Step by step the card   *)
(* is where the driver takes it to be (Starting, Identified), the CSD is   *)
(* its own (CsdIsTheCards), and the words of an undisturbed read come      *)
(* (Coming): FaultInv is inductive under the invariant before.             *)
(***************************************************************************)
EXTENDS SdHost, Integers, SequenceTheorems, TLAPS

Ready == {"ready", "readyHc"}

(* From the answer that the card is ready to the first read, and between   *)
(* two reads.                                                              *)
Between ==
  {"allCid", "allCidAnswer", "relAddr", "relAddrAnswer", "sendCid", "sendCidAnswer", "sendCsd",
   "sendCsdAnswer", "select", "selectAnswer", "blockLen", "blockLenAnswer", "ready", "flush",
   "begin", "idle"}

(* During a read. *)
Draining == {"drain", "command"}
Reading  == Draining \cup {"words", "stop"}

(* Where the answer that the card is ready may still be in rsp.            *)
Saying == {"opAnswer", "allCid", "allCidAnswer", "dead"}

Ops == {"none", "goIdle", "ifCond", "app", "opCond", "allCid", "relAddr", "sendCid", "sendCsd",
        "select", "blockLen", "read", "stop"}

Types ==
  /\ sector \in Int
  /\ buf \in Seq(Nat \X Nat) /\ fifo \in Seq(Nat \X Nat) /\ card \in Nat \X Nat
  /\ cmd.op \in Ops /\ (cmd.op = "none" => cmd = NoCommand)
  /\ unseen \in BOOLEAN /\ fail \in BOOLEAN /\ highCapacity \in BOOLEAN

(* A command is in SH_CMD only where the driver waits for it.              *)
CmdInPlace ==
  /\ cmd.op = "opCond" => pc \in {"opAnswer", "dead"}
  /\ cmd.op = "read" => pc \in {"words", "stop"}
  /\ pc = "allCidAnswer" => cmd \in {NoCommand, Op("allCid")}

OnlySelectedSends == card # Idle => state = "tran"

(* An answer that the card is ready is new and true. *)
Said ==
  /\ rsp \in Ready => pc \in Saying /\ card = Idle /\ (rsp = "readyHc" <=> kind = "hc")
  /\ pc = "allCidAnswer" /\ cmd = NoCommand /\ ~fail => rsp \notin Ready

RightUnit == pc \in Between \cup Reading => (highCapacity <=> kind = "hc")

StopIsSent == pc \in Between /\ ~unseen => cmd = Stop \/ card = Idle

Drained ==
  /\ pc \in Draining /\ ~unseen => cmd = NoCommand /\ card = Idle
  /\ pc = "command" /\ ~unseen => fifo = <<>>
  /\ pc \in Draining \cup {"begin"} => buf = <<>>

Pending == cmd = ReadAt(Address(sector)) /\ fifo = <<>> /\ card = Idle /\ buf = <<>>

(* What is in the FIFO, and what the card sends next, follows on buf.      *)
Follows ==
  /\ Len(buf) < Words
  /\ \A j \in 1..Len(fifo) : Len(buf) + j <= Words => fifo[j] = <<sector, Len(buf) + j>>
  /\ Sending(card) /\ Len(buf) + Len(fifo) < Words => card = <<sector, Len(buf) + Len(fifo) + 1>>

InOrder == pc = "words" /\ ~unseen => (cmd = NoCommand \/ Pending) /\ Follows

IInv ==
  /\ Types /\ CmdInPlace /\ OnlySelectedSends /\ Said /\ RightUnit /\ StopIsSent
  /\ Drained /\ InOrder /\ RightWords

-----------------------------------------------------------------------------
LEMMA InitHolds ==
  ASSUME Init
  PROVE  IInv
<1> USE DEF Init
<1>1. Types
  <2>1. <<>> \in Seq(Nat \X Nat) /\ <<0, 0>> \in Nat \X Nat
    OBVIOUS
  <2>2. <<<<1, 1>>>> \in Seq(Nat \X Nat) /\ <<1, 1>> \in Nat \X Nat
    OBVIOUS
  <2>3. sector \in Int /\ buf \in Seq(Nat \X Nat) /\ fifo \in Seq(Nat \X Nat)
    <3>1. sector = 1 /\ buf = <<>> /\ (fifo = <<>> \/ fifo = <<<<1, 1>>>>)
      OBVIOUS
    <3>2. CASE fifo = <<>>
      BY <2>1, <3>1, <3>2
    <3>3. CASE fifo = <<<<1, 1>>>>
      BY <2>1, <2>2, <3>1, <3>3
    <3> QED
      BY <3>1, <3>2, <3>3
  <2>4. card \in Nat \X Nat
    BY <2>1, <2>2 DEF Idle
  <2>5. cmd.op \in Ops /\ (cmd.op = "none" => cmd = NoCommand)
    BY DEF NoCommand, Op, Stop, Ops
  <2> QED
    BY <2>3, <2>4, <2>5 DEF Types
<1>2. CmdInPlace
  BY DEF CmdInPlace, NoCommand, Op, Stop
<1>3. OnlySelectedSends
  BY DEF OnlySelectedSends
<1>4. Said
  BY DEF Said, Ready
<1>5. RightUnit
  BY DEF RightUnit, Between, Reading, Draining
<1>6. StopIsSent
  BY DEF StopIsSent, Between
<1>7. Drained
  BY DEF Drained, Draining
<1>8. InOrder
  BY DEF InOrder
<1>9. RightWords
  BY DEF RightWords
<1> QED
  BY <1>1, <1>2, <1>3, <1>4, <1>5, <1>6, <1>7, <1>8, <1>9 DEF IInv

(* A command of the identification is written.                             *)
LEMMA AskKeeps ==
  ASSUME IInv,
         NEW from,
         NEW c,
         NEW to,
         Send(from, c, to),
         c.op \in Ops \ {"none", "read", "stop"},
         to \notin Reading \cup {"flush", "begin", "idle"},
         from \notin Reading \cup {"dead"},
         c.op = "opCond" => to = "opAnswer",
         to = "allCidAnswer" => c = Op("allCid"),
         to \in Between <=> from \in Between,
         from \in Saying => to \in Saying
  PROVE  IInv'
<1> USE DEF Send, SendRaw, Goes, Wait, Waited, TimedOut, Fault, readVars, askVars,
       cardVars
<1>1. Types'
  BY DEF IInv, Types
<1>2. CmdInPlace'
  BY DEF CmdInPlace
<1>3. OnlySelectedSends'
  BY DEF IInv, OnlySelectedSends
<1>4. Said'
  BY DEF IInv, Said, NoCommand
<1>5. RightUnit'
  BY DEF IInv, RightUnit
<1>6. StopIsSent'
  BY DEF IInv, StopIsSent, NoCommand, Op, Stop
<1>7. Drained'
  BY DEF Drained, Draining, Reading
<1>8. InOrder'
  BY DEF InOrder, Reading
<1>9. RightWords'
  BY DEF IInv, RightWords
<1> QED
  BY <1>1, <1>2, <1>3, <1>4, <1>5, <1>6, <1>7, <1>8, <1>9 DEF IInv

(* The driver goes on, and leaves all else alone.                          *)
LEMMA HearKeeps ==
  ASSUME IInv,
         NEW from,
         NEW to,
         Goes(from, to),
         UNCHANGED <<readVars, highCapacity, hostVars, cardVars>>,
         unseen' \in BOOLEAN,
         unseen => unseen',
         from \notin Reading,
         to \notin Reading \cup {"begin"},
         cmd.op = "opCond" => to \in {"opAnswer", "dead"},
         to # "allCidAnswer",
         to \in Between => from \in Between,
         rsp \in Ready => to \in Saying
  PROVE  IInv'
<1> USE DEF Goes, readVars, hostVars, cardVars
<1>1. Types'
  BY DEF IInv, Types
<1>2. CmdInPlace'
  BY DEF IInv, CmdInPlace, Reading
<1>3. OnlySelectedSends'
  BY DEF IInv, OnlySelectedSends
<1>4. Said'
  BY DEF IInv, Said
<1>5. RightUnit'
  BY DEF IInv, RightUnit
<1>6. StopIsSent'
  BY DEF IInv, StopIsSent
<1>7. Drained'
  BY DEF Drained, Draining, Reading
<1>8. InOrder'
  BY DEF InOrder, Reading
<1>9. RightWords'
  BY DEF IInv, RightWords
<1> QED
  BY <1>1, <1>2, <1>3, <1>4, <1>5, <1>6, <1>7, <1>8, <1>9 DEF IInv

LEMMA ResetKeeps ==
  ASSUME IInv,
         Reset
  PROVE  IInv'
<1> USE DEF Reset, Goes, readVars, askVars, ghostVars
<1>1. Types'
  <2>1. <<>> \in Seq(Nat \X Nat) /\ <<0, 0>> \in Nat \X Nat
    OBVIOUS
  <2> QED
    BY <2>1 DEF IInv, Types, Ops, NoCommand, Idle
<1>2. CmdInPlace'
  BY DEF CmdInPlace, NoCommand
<1>3. OnlySelectedSends'
  BY DEF IInv, OnlySelectedSends
<1>4. Said'
  BY DEF IInv, Said, Saying
<1>5. RightUnit'
  BY DEF RightUnit, Between, Reading, Draining
<1>6. StopIsSent'
  BY DEF StopIsSent, Between
<1>7. Drained'
  BY DEF Drained, Draining
<1>8. InOrder'
  BY DEF InOrder
<1>9. RightWords'
  BY DEF IInv, RightWords
<1> QED
  BY <1>1, <1>2, <1>3, <1>4, <1>5, <1>6, <1>7, <1>8, <1>9 DEF IInv

LEMMA OpAnswerKeeps ==
  ASSUME IInv,
         OpAnswer
  PROVE  IInv'
<1> USE DEF OpAnswer, Answered, Refused, Waited, TimedOut, Fault, readVars,
       hostVars, cardVars
<1>1. Types'
  BY DEF IInv, Types
<1>2. CmdInPlace'
  BY DEF IInv, CmdInPlace, NoCommand
<1>3. OnlySelectedSends'
  BY DEF IInv, OnlySelectedSends
<1>4. Said'
  BY DEF IInv, Said, Saying, Ready
<1>5. RightUnit'
  BY DEF IInv, Said, RightUnit, Between, Draining, Reading, Ready
<1>6. StopIsSent'
  BY DEF IInv, Said, StopIsSent, Between, Ready
<1>7. Drained'
  BY DEF Drained, Draining
<1>8. InOrder'
  BY DEF InOrder
<1>9. RightWords'
  BY DEF IInv, RightWords
<1> QED
  BY <1>1, <1>2, <1>3, <1>4, <1>5, <1>6, <1>7, <1>8, <1>9 DEF IInv

LEMMA NextImageKeeps ==
  ASSUME IInv,
         NextImage
  PROVE  IInv'
<1> USE DEF NextImage, Goes, hostVars, cardVars
<1>1. Types'
  <2>1. <<>> \in Seq(Nat \X Nat) /\ <<0, 0>> \in Nat \X Nat
    OBVIOUS
  <2> QED
    BY <2>1 DEF IInv, Types
<1>2. CmdInPlace'
  BY DEF IInv, CmdInPlace
<1>3. OnlySelectedSends'
  BY DEF IInv, OnlySelectedSends
<1>4. Said'
  BY DEF IInv, Said, Saying
<1>5. RightUnit'
  BY DEF RightUnit, Between, Reading, Draining
<1>6. StopIsSent'
  BY DEF StopIsSent, Between
<1>7. Drained'
  BY DEF Drained, Draining
<1>8. InOrder'
  BY DEF InOrder
<1>9. RightWords'
  BY DEF RightWords
<1> QED
  BY <1>1, <1>2, <1>3, <1>4, <1>5, <1>6, <1>7, <1>8, <1>9 DEF IInv

LEMMA BeginKeeps ==
  ASSUME IInv,
         Begin
  PROVE  IInv'
<1> USE DEF Begin, Goes, askVars, hostVars, cardVars
<1>1. Types'
  BY DEF IInv, Types
<1>2. CmdInPlace'
  BY DEF IInv, CmdInPlace
<1>3. OnlySelectedSends'
  BY DEF IInv, OnlySelectedSends
<1>4. Said'
  BY DEF IInv, Said, Saying
<1>5. RightUnit'
  BY DEF IInv, RightUnit, Between
<1>6. StopIsSent'
  BY DEF IInv, StopIsSent, Between
<1>7. Drained'
  BY DEF Drained, Draining
<1>8. InOrder'
  BY DEF InOrder
<1>9. RightWords'
  BY DEF RightWords
<1> QED
  BY <1>1, <1>2, <1>3, <1>4, <1>5, <1>6, <1>7, <1>8, <1>9 DEF IInv

LEMMA FlushKeeps ==
  ASSUME IInv,
         Flush
  PROVE  IInv'
<1> USE DEF Flush, Goes, hostVars, cardVars
<1>1. Types'
  BY DEF IInv, Types
<1>2. CmdInPlace'
  BY DEF IInv, CmdInPlace
<1>3. OnlySelectedSends'
  BY DEF IInv, OnlySelectedSends
<1>4. Said'
  BY DEF IInv, Said, Saying
<1>5. RightUnit'
  BY DEF IInv, RightUnit, Between
<1>6. StopIsSent'
  BY DEF IInv, StopIsSent, Between
<1>7. Drained'
  BY DEF Drained, Draining
<1>8. InOrder'
  BY DEF InOrder
<1>9. RightWords'
  BY DEF RightWords
<1> QED
  BY <1>1, <1>2, <1>3, <1>4, <1>5, <1>6, <1>7, <1>8, <1>9 DEF IInv

LEMMA DrainWaitKeeps ==
  ASSUME IInv,
         DrainWait
  PROVE  IInv'
<1> USE DEF DrainWait, Goes, Wait, Waited, TimedOut, Fault, readVars, askVars,
       hostVars, cardVars
<1>1. Types'
  BY DEF IInv, Types
<1>2. CmdInPlace'
  BY DEF IInv, CmdInPlace
<1>3. OnlySelectedSends'
  BY DEF IInv, OnlySelectedSends
<1>4. Said'
  BY DEF IInv, Said, Saying
<1>5. RightUnit'
  BY DEF IInv, RightUnit, Between
<1>6. StopIsSent'
  BY DEF StopIsSent, Between
<1>7. Drained'
  BY DEF IInv, StopIsSent, Drained, Between, NoCommand, Op, Stop
<1>8. InOrder'
  BY DEF InOrder
<1>9. RightWords'
  BY DEF IInv, RightWords
<1> QED
  BY <1>1, <1>2, <1>3, <1>4, <1>5, <1>6, <1>7, <1>8, <1>9 DEF IInv

LEMMA DrainWordKeeps ==
  ASSUME IInv,
         DrainWord
  PROVE  IInv'
<1> USE DEF DrainWord, readVars, askVars, cardVars, ghostVars
<1>1. Types'
  BY DEF IInv, Types
<1>2. CmdInPlace'
  BY DEF IInv, CmdInPlace
<1>3. OnlySelectedSends'
  BY DEF IInv, OnlySelectedSends
<1>4. Said'
  BY DEF IInv, Said
<1>5. RightUnit'
  BY DEF IInv, RightUnit
<1>6. StopIsSent'
  BY DEF IInv, StopIsSent
<1>7. Drained'
  BY DEF IInv, Drained
<1>8. InOrder'
  BY DEF InOrder
<1>9. RightWords'
  BY DEF IInv, RightWords
<1> QED
  BY <1>1, <1>2, <1>3, <1>4, <1>5, <1>6, <1>7, <1>8, <1>9 DEF IInv

LEMMA DrainEndsKeeps ==
  ASSUME IInv,
         DrainEnds
  PROVE  IInv'
<1> USE DEF DrainEnds, Goes, readVars, askVars, hostVars, cardVars, ghostVars
<1>1. Types'
  BY DEF IInv, Types
<1>2. CmdInPlace'
  BY DEF IInv, CmdInPlace
<1>3. OnlySelectedSends'
  BY DEF IInv, OnlySelectedSends
<1>4. Said'
  BY DEF IInv, Said, Saying
<1>5. RightUnit'
  BY DEF IInv, RightUnit, Reading, Draining
<1>6. StopIsSent'
  BY DEF StopIsSent, Between
<1>7. Drained'
  BY DEF IInv, Drained, Draining
<1>8. InOrder'
  BY DEF InOrder
<1>9. RightWords'
  BY DEF IInv, RightWords
<1> QED
  BY <1>1, <1>2, <1>3, <1>4, <1>5, <1>6, <1>7, <1>8, <1>9 DEF IInv

LEMMA SendReadKeeps ==
  ASSUME IInv,
         SendRead
  PROVE  IInv'
<1> USE DEF SendRead, Send, SendRaw, Goes, Wait, Waited, TimedOut, Fault, readVars,
       askVars, cardVars
<1>1. Types'
  BY DEF IInv, Types, Ops, ReadAt
<1>2. CmdInPlace'
  BY DEF CmdInPlace, ReadAt
<1>3. OnlySelectedSends'
  BY DEF IInv, OnlySelectedSends
<1>4. Said'
  BY DEF IInv, Said, Saying
<1>5. RightUnit'
  BY DEF IInv, RightUnit, Reading, Draining
<1>6. StopIsSent'
  BY DEF StopIsSent, Between
<1>7. Drained'
  BY DEF Drained, Draining
<1>8. InOrder'
  <2> SUFFICES ASSUME ~unseen'
               PROVE  Pending' /\ Follows'
    BY DEF InOrder
  <2>1. ~unseen /\ fifo = <<>> /\ buf = <<>> /\ card = Idle
    BY DEF IInv, Types, Drained, Draining
  <2>2. Pending'
    BY <2>1 DEF Pending, Address
  <2>3. Len(buf') = 0 /\ Len(fifo') = 0
    BY <2>1
  <2> QED
    BY <2>1, <2>2, <2>3, SdHostAssumption DEF Follows, Sending
<1>9. RightWords'
  BY DEF IInv, RightWords
<1> QED
  BY <1>1, <1>2, <1>3, <1>4, <1>5, <1>6, <1>7, <1>8, <1>9 DEF IInv

LEMMA TakeWordKeeps ==
  ASSUME IInv,
         TakeWord
  PROVE  IInv'
<1> USE DEF TakeWord, askVars, cardVars, ghostVars
<1>a. /\ Len(buf) \in Nat /\ Len(buf') = Len(buf) + 1
      /\ Len(fifo) \in Nat \ {0} /\ Len(fifo') = Len(fifo) - 1
  BY EmptySeq, HeadTailProperties, AppendProperties DEF IInv, Types
<1>b. /\ \A i \in 1..Len(buf) : buf'[i] = buf[i]
      /\ buf'[Len(buf) + 1] = fifo[1]
      /\ \A j \in 1..Len(fifo') : fifo'[j] = fifo[j + 1]
  <2>1. Head(fifo) = fifo[1] /\ Head(fifo) \in Nat \X Nat
    BY <1>a, HeadTailProperties DEF IInv, Types
  <2>2. \A j \in 1..Len(fifo') : fifo'[j] = fifo[j + 1]
    BY HeadTailProperties DEF IInv, Types
  <2>3. (\A i \in 1..Len(buf) : buf'[i] = buf[i]) /\ buf'[Len(buf) + 1] = Head(fifo)
    BY <2>1, AppendProperties DEF IInv, Types
  <2> QED
    BY <2>1, <2>2, <2>3
<1>c. ASSUME ~unseen
      PROVE  Follows /\ cmd = NoCommand
  BY <1>c DEF IInv, InOrder, Pending
<1>1. Types'
  BY DEF IInv, Types
<1>2. CmdInPlace'
  BY DEF IInv, CmdInPlace
<1>3. OnlySelectedSends'
  BY DEF IInv, OnlySelectedSends
<1>4. Said'
  BY DEF IInv, Said, Saying
<1>5. RightUnit'
  BY DEF IInv, RightUnit, Reading
<1>6. StopIsSent'
  BY DEF StopIsSent, Between
<1>7. Drained'
  BY DEF Drained, Draining
<1>8. InOrder'
  <2> SUFFICES ASSUME pc' = "words", ~unseen
               PROVE  Follows'
    BY <1>c DEF InOrder
  <2>1. Follows /\ Len(buf') # Words
    BY <1>c
  <2>2. ASSUME NEW j \in 1..Len(fifo'), Len(buf') + j <= Words
        PROVE  fifo'[j] = <<sector, Len(buf') + j>>
    <3>1. j + 1 \in 1..Len(fifo) /\ Len(buf) + (j + 1) = Len(buf') + j
      BY <1>a
    <3> QED
      BY <1>b, <2>1, <2>2, <3>1 DEF Follows
  <2> QED
    BY <1>a, <2>1, <2>2, SdHostAssumption DEF Follows
<1>9. RightWords'
  <2> SUFFICES ASSUME ~unseen, NEW i \in 1..Len(buf')
               PROVE  buf'[i] = <<sector, i>>
    BY DEF RightWords
  <2>1. CASE i = Len(buf) + 1
    <3>1. fifo[1] = <<sector, Len(buf) + 1>>
      BY <1>a, <1>c, SdHostAssumption DEF Follows
    <3> QED
      BY <1>b, <2>1, <3>1
  <2>2. CASE i \in 1..Len(buf)
    BY <1>b, <2>2 DEF IInv, RightWords
  <2> QED
    BY <1>a, <2>1, <2>2
<1> QED
  BY <1>1, <1>2, <1>3, <1>4, <1>5, <1>6, <1>7, <1>8, <1>9 DEF IInv

LEMMA LoopLeftKeeps ==
  ASSUME IInv,
         TransferError \/ NoFifoData
  PROVE  IInv'
<1> USE DEF TransferError, NoFifoData, Goes, Fault, askVars, hostVars, cardVars,
       ghostVars
<1>1. Types'
  BY DEF IInv, Types
<1>2. CmdInPlace'
  BY DEF IInv, CmdInPlace
<1>3. OnlySelectedSends'
  BY DEF IInv, OnlySelectedSends
<1>4. Said'
  BY DEF IInv, Said, Saying
<1>5. RightUnit'
  BY DEF IInv, RightUnit, Reading
<1>6. StopIsSent'
  BY DEF StopIsSent, Between
<1>7. Drained'
  BY DEF Drained, Draining
<1>8. InOrder'
  BY DEF InOrder
<1>9. RightWords'
  BY DEF IInv, RightWords
<1> QED
  BY <1>1, <1>2, <1>3, <1>4, <1>5, <1>6, <1>7, <1>8, <1>9 DEF IInv

LEMMA SendStopKeeps ==
  ASSUME IInv,
         SendStop
  PROVE  IInv'
<1> USE DEF SendStop, SendRaw, AfterRead, Wait, Waited, TimedOut, Fault, askVars,
       cardVars
<1>1. Types'
  BY DEF IInv, Types, Ops, Op, Stop
<1>2. CmdInPlace'
  BY DEF CmdInPlace, Op, Stop
<1>3. OnlySelectedSends'
  BY DEF IInv, OnlySelectedSends
<1>4. Said'
  BY DEF IInv, Said, Saying
<1>5. RightUnit'
  BY DEF IInv, RightUnit, Reading
<1>6. StopIsSent'
  BY DEF StopIsSent
<1>7. Drained'
  BY DEF Drained, Draining
<1>8. InOrder'
  BY DEF InOrder
<1>9. RightWords'
  BY DEF IInv, RightWords
<1> QED
  BY <1>1, <1>2, <1>3, <1>4, <1>5, <1>6, <1>7, <1>8, <1>9 DEF IInv

(* The driver and a card mean the same by an address. *)
LEMMA SameAddress ==
  ASSUME sector \in Int, highCapacity <=> kind = "hc"
  PROVE  At(Address(sector)) = sector
<1>1. ASSUME NEW s \in Int, NEW b \in Nat \ {0}
      PROVE  (s * b) \div b = s
  OBVIOUS
<1> QED
  BY <1>1, SdHostAssumption DEF At, Address

(* What a command that runs may do. *)
LEMMA WhatRuns ==
  ASSUME IInv, RunCommand
  PROVE  \/ /\ UNCHANGED <<card, state, rsp>>
            /\ cmd.op # "stop" /\ (fail' = TRUE \/ cmd.op \in {"goIdle", "opCond"})
         \/ cmd.op \in {"goIdle", "stop"} /\ card' = Idle /\ rsp' \in {rsp, "r1"}
         \/ /\ cmd.op = "opCond" /\ state = "idle" /\ UNCHANGED card
            /\ rsp' = "busy" \/ rsp' = CardSize
         \/ /\ cmd.op = "read" /\ card = Idle /\ state = "tran" /\ UNCHANGED state
            /\ At(cmd.arg) \in 1..Sectors /\ card' = <<At(cmd.arg), 1>> /\ rsp' = "r1"
         \/ /\ cmd.op \notin {"goIdle", "stop", "opCond", "read"}
            /\ UNCHANGED card /\ (state # "tran" \/ UNCHANGED state)
            /\ rsp' \notin Ready
<1> USE DEF RunCommand
<1>1. CASE ~Takes(cmd)
  BY <1>1 DEF NoAnswer, Takes
<1>2. CASE Takes(cmd)
  <2>1. Does(cmd)
    BY <1>2
  <2>2. CASE cmd.op = "read"
    BY <1>2, <2>1, <2>2 DEF Takes, Does, Moves
  <2>3. CASE cmd.op \in {"goIdle", "stop"}
    BY <2>1, <2>3 DEF Does, Moves
  <2>4. CASE cmd.op = "opCond"
    BY <1>2, <2>1, <2>4 DEF Takes, Does, Moves
  <2>5. CASE cmd.op \in {"ifCond", "app", "relAddr", "allCid"}
    BY <1>2, <2>1, <2>5 DEF Takes, Does, Moves, Stays, Ready
  <2>6. CASE cmd.op \in {"sendCid", "select", "blockLen"}
    BY <1>2, <2>1, <2>6 DEF Takes, Does, Moves, Stays, Ready
  <2>7. CASE cmd.op = "sendCsd"
    <3>1. CsdVersion(Register[kind]) \notin Ready
      BY DEF CsdVersion, Ready
    <3> QED
      BY <2>1, <2>7, <3>1 DEF Does, Moves, Stays
  <2> QED
    BY <2>2, <2>3, <2>4, <2>5, <2>6, <2>7 DEF IInv, Types, Ops
<1> QED
  BY <1>1, <1>2

LEMMA RunCommandKeeps ==
  ASSUME IInv,
         RunCommand
  PROVE  IInv'
<1>a. /\ cmd # NoCommand /\ cmd' = NoCommand
      /\ UNCHANGED <<pc, sector, buf, fifo, highCapacity, kind, unseen>>
  BY DEF RunCommand, readVars, askVars, ghostVars
<1>b. fail' \in BOOLEAN /\ (fail => fail')
  BY DEF RunCommand, NoAnswer, IInv, Types
<1>1. Types'
  <2>1. card' \in Nat \X Nat
    <3>1. <<0, 0>> \in Nat \X Nat
      OBVIOUS
    <3>2. ASSUME At(cmd.arg) \in 1..Sectors
          PROVE  <<At(cmd.arg), 1>> \in Nat \X Nat
      BY <3>2, SdHostAssumption
    <3> QED
      BY <3>1, <3>2, WhatRuns DEF IInv, Types, Idle
  <2> QED
    BY <1>a, <1>b, <2>1 DEF IInv, Types, Ops, NoCommand
<1>2. CmdInPlace'
  BY <1>a DEF CmdInPlace, NoCommand
<1>3. OnlySelectedSends'
  BY <1>a, WhatRuns DEF IInv, OnlySelectedSends
<1>4. Said'
  <2>1. rsp' \in Ready => pc \in Saying /\ card' = Idle /\ (rsp' = "readyHc" <=> kind = "hc")
    <3>1. CASE /\ cmd.op = "opCond" /\ state = "idle" /\ UNCHANGED card
               /\ rsp' = "busy" \/ rsp' = CardSize
      BY <3>1 DEF IInv, CmdInPlace, OnlySelectedSends, Said, CardSize, Ready, Saying
    <3> QED
      BY <1>a, <3>1, WhatRuns DEF IInv, Said, Ready
  <2>2. ASSUME pc = "allCidAnswer", ~fail'
        PROVE  rsp' \notin Ready
    <3>1. cmd = Op("allCid")
      BY <1>a, <2>2 DEF IInv, CmdInPlace
    <3>2. cmd.op = "allCid" /\ ~fail
      BY <1>b, <2>2, <3>1 DEF Op, IInv, Types
    <3> QED
      BY <2>2, <3>2, WhatRuns
  <2> QED
    BY <1>a, <2>1, <2>2 DEF Said
<1>5. RightUnit'
  BY <1>a DEF IInv, RightUnit
<1>6. StopIsSent'
  <2>1. ASSUME cmd = Stop
        PROVE  card' = Idle
    BY <2>1, WhatRuns DEF Stop, Op
  <2>2. ASSUME pc \in Between, card = Idle
        PROVE  card' = Idle
    <3>1. cmd.op # "read"
      BY <2>2 DEF IInv, CmdInPlace, Between
    <3> QED
      BY <2>2, <3>1, WhatRuns
  <2> QED
    BY <1>a, <2>1, <2>2 DEF IInv, StopIsSent
<1>7. Drained'
  BY <1>a, WhatRuns DEF IInv, Drained
<1>8. InOrder'
  <2> SUFFICES ASSUME pc = "words", ~unseen
               PROVE  Follows'
    BY <1>a DEF InOrder
  <2>1. Pending /\ Follows /\ Len(buf) = 0 /\ Len(fifo) = 0
    BY <1>a DEF IInv, InOrder, Pending
  <2>2. cmd.op = "read" /\ cmd.arg = Address(sector)
    BY <2>1 DEF Pending, ReadAt
  <2>3. At(cmd.arg) = sector
    BY <2>2, SameAddress DEF IInv, Types, RightUnit, Reading
  <2>4. card' = Idle \/ card' = <<sector, 1>>
    BY <2>1, <2>2, <2>3, WhatRuns DEF Pending
  <2> QED
    BY <1>a, <2>1, <2>4 DEF Follows, Sending
<1>9. RightWords'
  BY <1>a DEF IInv, RightWords
<1> QED
  BY <1>1, <1>2, <1>3, <1>4, <1>5, <1>6, <1>7, <1>8, <1>9 DEF IInv

LEMMA CardStartsKeeps ==
  ASSUME IInv,
         CardStarts
  PROVE  IInv'
<1> USE DEF CardStarts, readVars, askVars, hostVars, ghostVars
<1>1. Types'
  BY DEF IInv, Types
<1>2. CmdInPlace'
  BY DEF IInv, CmdInPlace
<1>3. OnlySelectedSends'
  BY DEF IInv, OnlySelectedSends
<1>4. Said'
  BY DEF IInv, Said
<1>5. RightUnit'
  BY DEF IInv, RightUnit
<1>6. StopIsSent'
  BY DEF IInv, StopIsSent
<1>7. Drained'
  BY DEF IInv, Drained
<1>8. InOrder'
  BY DEF IInv, InOrder, Pending, Follows, Address
<1>9. RightWords'
  BY DEF IInv, RightWords
<1> QED
  BY <1>1, <1>2, <1>3, <1>4, <1>5, <1>6, <1>7, <1>8, <1>9 DEF IInv

LEMMA SendWordKeeps ==
  ASSUME IInv,
         SendWord
  PROVE  IInv'
<1> USE DEF SendWord, readVars, askVars, ghostVars
<1>a. /\ Len(fifo) \in Nat /\ Len(buf) \in Nat /\ Len(fifo') = Len(fifo) + 1
      /\ fifo' \in Seq(Nat \X Nat)
      /\ \A j \in 1..Len(fifo) : fifo'[j] = fifo[j]
      /\ fifo'[Len(fifo) + 1] = card
  BY AppendProperties DEF IInv, Types
<1>1. Types'
  <2>1. After(card) \in Nat \X Nat
    <3>1. card[1] \in Nat /\ card[2] \in Nat
      BY DEF IInv, Types
    <3>2. /\ <<card[1], card[2] + 1>> \in Nat \X Nat /\ <<card[1] + 1, 1>> \in Nat \X Nat
          /\ <<0, 1>> \in Nat \X Nat
      BY <3>1
    <3> QED
      BY <3>2 DEF After, Silent
  <2> QED
    BY <1>a, <2>1 DEF IInv, Types
<1>2. CmdInPlace'
  BY DEF IInv, CmdInPlace
<1>3. OnlySelectedSends'
  BY DEF IInv, OnlySelectedSends, Sending
<1>4. Said'
  BY DEF IInv, Said, Sending
<1>5. RightUnit'
  BY DEF IInv, RightUnit
<1>6. StopIsSent'
  BY DEF IInv, StopIsSent, Sending
<1>7. Drained'
  BY DEF IInv, Drained, Draining, Sending
<1>8. InOrder'
  <2> SUFFICES ASSUME pc = "words", ~unseen
               PROVE  cmd = NoCommand /\ Follows'
    BY DEF InOrder
  <2>1. cmd = NoCommand /\ Follows
    BY DEF IInv, InOrder, Pending, Sending
  <2>2. ASSUME Len(buf) + Len(fifo) < Words
        PROVE  card = <<sector, Len(buf) + Len(fifo) + 1>>
    BY <2>1, <2>2 DEF Follows
  <2>3. ASSUME NEW j \in 1..Len(fifo'), Len(buf) + j <= Words
        PROVE  fifo'[j] = <<sector, Len(buf) + j>>
    <3>1. CASE j = Len(fifo) + 1
      BY <1>a, <2>2, <2>3, <3>1, SdHostAssumption
    <3>2. CASE j \in 1..Len(fifo)
      BY <1>a, <2>1, <2>3, <3>2 DEF Follows
    <3> QED
      BY <1>a, <3>1, <3>2
  <2>4. ASSUME Len(buf) + Len(fifo') < Words
        PROVE  card' = <<sector, Len(buf) + Len(fifo') + 1>>
    <3>1. card = <<sector, Len(buf) + Len(fifo')>>
      BY <1>a, <2>2, <2>4, SdHostAssumption
    <3>2. card[1] = sector /\ card[2] = Len(buf) + Len(fifo') /\ card[2] < Words
      BY <2>4, <3>1
    <3> QED
      BY <3>2 DEF After
  <2> QED
    BY <2>1, <2>3, <2>4 DEF Follows
<1>9. RightWords'
  BY DEF IInv, RightWords
<1> QED
  BY <1>1, <1>2, <1>3, <1>4, <1>5, <1>6, <1>7, <1>8, <1>9 DEF IInv

LEMMA CommandLostKeeps ==
  ASSUME IInv,
         CommandLost
  PROVE  IInv'
<1> USE DEF CommandLost, Fault, NoAnswer, readVars, askVars, cardVars
<1>1. Types'
  BY DEF IInv, Types, Ops, NoCommand
<1>2. CmdInPlace'
  BY DEF CmdInPlace, NoCommand
<1>3. OnlySelectedSends'
  BY DEF IInv, OnlySelectedSends
<1>4. Said'
  BY DEF IInv, Said, CmdInPlace, Op
<1>5. RightUnit'
  BY DEF IInv, RightUnit
<1>6. StopIsSent'
  BY DEF IInv, StopIsSent
<1>7. Drained'
  BY DEF IInv, Drained
<1>8. InOrder'
  BY DEF IInv, InOrder, Follows
<1>9. RightWords'
  BY DEF IInv, RightWords
<1> QED
  BY <1>1, <1>2, <1>3, <1>4, <1>5, <1>6, <1>7, <1>8, <1>9 DEF IInv

LEMMA DataErrorKeeps ==
  ASSUME IInv,
         DataError
  PROVE  IInv'
<1> USE DEF DataError, Fault, readVars, askVars, cardVars
<1>1. Types'
  BY DEF IInv, Types
<1>2. CmdInPlace'
  BY DEF IInv, CmdInPlace
<1>3. OnlySelectedSends'
  BY DEF IInv, OnlySelectedSends
<1>4. Said'
  BY DEF IInv, Said
<1>5. RightUnit'
  BY DEF IInv, RightUnit
<1>6. StopIsSent'
  BY DEF IInv, StopIsSent
<1>7. Drained'
  BY DEF IInv, Drained
<1>8. InOrder'
  BY DEF IInv, InOrder, Pending, Follows, Address
<1>9. RightWords'
  BY DEF IInv, RightWords
<1> QED
  BY <1>1, <1>2, <1>3, <1>4, <1>5, <1>6, <1>7, <1>8, <1>9 DEF IInv

LEMMA CardFailsKeeps ==
  ASSUME IInv,
         CardFails
  PROVE  IInv'
<1> USE DEF CardFails, Fault, readVars, askVars
<1>1. Types'
  BY DEF IInv, Types, Silent
<1>2. CmdInPlace'
  BY DEF IInv, CmdInPlace
<1>3. OnlySelectedSends'
  BY DEF IInv, OnlySelectedSends, Sending
<1>4. Said'
  BY DEF IInv, Said, Sending
<1>5. RightUnit'
  BY DEF IInv, RightUnit
<1>6. StopIsSent'
  BY DEF IInv, StopIsSent, Sending
<1>7. Drained'
  BY DEF IInv, Drained, Sending
<1>8. InOrder'
  BY DEF IInv, InOrder, Pending, Follows, Sending
<1>9. RightWords'
  BY DEF IInv, RightWords
<1> QED
  BY <1>1, <1>2, <1>3, <1>4, <1>5, <1>6, <1>7, <1>8, <1>9 DEF IInv

LEMMA StutterKeeps ==
  ASSUME IInv,
         UNCHANGED vars
  PROVE  IInv'
<1> USE DEF vars, readVars, askVars, hostVars, cardVars, ghostVars
<1>1. Types'
  BY DEF IInv, Types
<1>2. CmdInPlace'
  BY DEF IInv, CmdInPlace
<1>3. OnlySelectedSends'
  BY DEF IInv, OnlySelectedSends
<1>4. Said'
  BY DEF IInv, Said
<1>5. RightUnit'
  BY DEF IInv, RightUnit
<1>6. StopIsSent'
  BY DEF IInv, StopIsSent
<1>7. Drained'
  BY DEF IInv, Drained
<1>8. InOrder'
  BY DEF IInv, InOrder, Pending, Follows, Address
<1>9. RightWords'
  BY DEF IInv, RightWords
<1> QED
  BY <1>1, <1>2, <1>3, <1>4, <1>5, <1>6, <1>7, <1>8, <1>9 DEF IInv

-----------------------------------------------------------------------------
LEMMA IfAnswerKeeps ==
  ASSUME IInv, IfAnswer
  PROVE  IInv'
<1>1. /\ Goes("ifAnswer", "app") /\ UNCHANGED <<readVars, highCapacity, hostVars, cardVars, unseen>>
  BY DEF IfAnswer, Answered, Refused
<1> QED
  BY <1>1, HearKeeps DEF IInv, Types, CmdInPlace, Said, Saying, Between, Reading, Draining, Goes

LEMMA AnswerKeeps ==
  ASSUME IInv,
         NEW from \in {"allCidAnswer", "relAddrAnswer", "sendCidAnswer"},
         NEW next \in {"relAddr", "sendCid", "sendCsd"},
         Answer(from, next)
  PROVE  IInv'
<1>1. /\ (Goes(from, next) /\ cmd = NoCommand /\ ~fail) \/ Goes(from, "dead")
      /\ UNCHANGED <<readVars, highCapacity, hostVars, cardVars, unseen>>
  BY DEF Answer, Answered, Refused, Waited, Goes
<1>2. CASE Goes(from, "dead")
  BY <1>1, <1>2, HearKeeps
     DEF IInv, Types, CmdInPlace, Said, Saying, Between, Reading, Draining, Goes
<1>3. CASE Goes(from, next) /\ cmd = NoCommand /\ ~fail
  <2>1. rsp \notin Ready
    BY <1>3 DEF IInv, Said, Saying, Goes
  <2> QED
    BY <1>1, <1>3, <2>1, HearKeeps
       DEF IInv, Types, CmdInPlace, NoCommand, Between, Reading, Draining, Goes
<1> QED
  BY <1>1, <1>2, <1>3

LEMMA CsdAnswerKeeps ==
  ASSUME IInv, CsdAnswer
  PROVE  IInv'
<1>1. /\ Goes("sendCsdAnswer", "select") \/ Goes("sendCsdAnswer", "dead")
      /\ UNCHANGED <<readVars, highCapacity, hostVars, cardVars, unseen>>
  BY DEF CsdAnswer, Answered, Refused, Goes
<1> QED
  BY <1>1, HearKeeps DEF IInv, Types, CmdInPlace, Said, Saying, Between, Reading, Draining, Goes

LEMMA RanKeeps ==
  ASSUME IInv,
         NEW from \in {"selectAnswer", "blockLenAnswer"}, NEW to \in {"blockLen", "ready"},
         Ran(from, to)
  PROVE  IInv'
<1>1. /\ Goes(from, to) \/ Goes(from, "dead")
      /\ UNCHANGED <<readVars, highCapacity, hostVars, cardVars>>
      /\ unseen' \in BOOLEAN /\ (unseen => unseen')
  BY DEF IInv, Types, Ran, Goes, askVars
<1> QED
  BY <1>1, HearKeeps DEF IInv, Types, CmdInPlace, Said, Saying, Between, Reading, Draining, Goes

LEMMA CardReadyKeeps ==
  ASSUME IInv, CardReady
  PROVE  IInv'
<1>1. Goes("ready", "flush") /\ UNCHANGED <<readVars, highCapacity, hostVars, cardVars, unseen>>
  BY DEF CardReady, ghostVars
<1> QED
  BY <1>1, HearKeeps DEF IInv, Types, CmdInPlace, Said, Saying, Between, Reading, Draining, Goes

(* The commands of the identification, each at its place.                  *)
LEMMA AskingKeeps ==
  ASSUME IInv,
         \/ GoIdle \/ IfCond \/ AppCmd \/ OpCond
         \/ Ask("allCid", "allCidAnswer") \/ Ask("relAddr", "relAddrAnswer")
         \/ Ask("sendCid", "sendCidAnswer") \/ Ask("sendCsd", "sendCsdAnswer")
         \/ Ask("select", "selectAnswer") \/ Ask("blockLen", "blockLenAnswer")
  PROVE  IInv'
<1> USE DEF Op, Ops, Saying, Between, Reading, Draining
<1>1. CASE GoIdle
  BY <1>1, AskKeeps DEF GoIdle
<1>2. CASE IfCond
  BY <1>2, AskKeeps DEF IfCond
<1>3. CASE AppCmd
  BY <1>3, AskKeeps DEF AppCmd
<1>4. CASE OpCond
  BY <1>4, AskKeeps DEF OpCond
<1>5. CASE Ask("allCid", "allCidAnswer")
  BY <1>5, AskKeeps DEF Ask
<1>6. CASE Ask("relAddr", "relAddrAnswer")
  BY <1>6, AskKeeps DEF Ask
<1>7. CASE Ask("sendCid", "sendCidAnswer")
  BY <1>7, AskKeeps DEF Ask
<1>8. CASE Ask("sendCsd", "sendCsdAnswer")
  BY <1>8, AskKeeps DEF Ask
<1>9. CASE Ask("select", "selectAnswer")
  BY <1>9, AskKeeps DEF Ask
<1>10. CASE Ask("blockLen", "blockLenAnswer")
  BY <1>10, AskKeeps DEF Ask
<1> QED
  BY <1>1, <1>2, <1>3, <1>4, <1>5, <1>6, <1>7, <1>8, <1>9, <1>10

LEMMA RestartKeeps ==
  ASSUME IInv, Restart
  PROVE  IInv'
<1>1. CASE Reset \/ IfAnswer \/ OpAnswer \/ CardReady
  BY <1>1, ResetKeeps, IfAnswerKeeps, OpAnswerKeeps, CardReadyKeeps
<1>2. CASE GoIdle \/ IfCond \/ AppCmd \/ OpCond
  BY <1>2, AskingKeeps
<1>3. CASE IdentifyCard
  BY <1>3, AskingKeeps, AnswerKeeps, CsdAnswerKeeps DEF IdentifyCard
<1>4. CASE SelectCard \/ SetBlocklen
  BY <1>4, AskingKeeps, RanKeeps DEF SelectCard, SetBlocklen
<1> QED
  BY <1>1, <1>2, <1>3, <1>4 DEF Restart

LEMMA NextKeeps == IInv /\ [Next]_vars => IInv'
<1> SUFFICES ASSUME IInv, [Next]_vars
             PROVE  IInv'
  OBVIOUS
<1>1. CASE Driver
  BY <1>1, RestartKeeps, NextImageKeeps, BeginKeeps, FlushKeeps, DrainWaitKeeps, DrainWordKeeps,
     DrainEndsKeeps, SendReadKeeps, TakeWordKeeps, LoopLeftKeeps, SendStopKeeps
     DEF Driver
<1>2. CASE Host
  BY <1>2, RunCommandKeeps, SendWordKeeps, CardStartsKeeps DEF Host
<1>3. CASE CommandLost \/ DataError \/ CardFails
  BY <1>3, CommandLostKeeps, DataErrorKeeps, CardFailsKeeps
<1> QED
  BY <1>1, <1>2, <1>3, StutterKeeps DEF Next

(* The inductive invariant of the driver, the controller and the card      *)
(* (BCM2708SDHost): where a stop command may still be on its way, and how  *)
(* what is in the FIFO follows on what is stored.                          *)
THEOREM SdHostInvariance == Spec => []IInv
BY InitHolds, NextKeeps, PTL DEF Spec

(* What real_read_block stores for a sector are the sector's words from    *)
(* the first on, for every size of the FIFO and the card, however many     *)
(* sectors and images were read before, and whatever the card lost or      *)
(* failed to do, as long as no failed command went unnoticed.              *)
THEOREM AlwaysRightWords == Spec => []RightWords
<1>1. IInv => RightWords
  BY DEF IInv
<1> QED
  BY <1>1, SdHostInvariance, PTL

-----------------------------------------------------------------------------
(* A number is what its digits make.                                       *)
LEMMA Bytes ==
  ASSUME NEW q \in Nat
  PROVE  q = 256 * (q \div 256) + (q % 256) /\ q \div 256 \in Nat /\ q % 256 \in Nat
BY SMT

LEMMA DigitsV1 ==
  ASSUME NEW v \in Nat
  PROVE  v = (v % 4) + 4 * ((v \div 4) % 256) + 1024 * ((v \div 4) \div 256)
<1>1. v = 4 * (v \div 4) + (v % 4) /\ v \div 4 \in Nat /\ v % 4 \in Nat
  BY SMT
<1> QED
  BY <1>1, Bytes, SMT

LEMMA DigitsV2 ==
  ASSUME NEW v \in Nat
  PROVE  v = (v % 256) + 256 * ((v \div 256) % 256) + 65536 * ((v \div 256) \div 256)
<1>1. v = 256 * (v \div 256) + (v % 256) /\ v \div 256 \in Nat /\ v % 256 \in Nat
  BY Bytes, SMT
<1> QED
  BY <1>1, Bytes, SMT

(* What __bitfield makes of the bytes of the register (sd_proto.hpp 343-   *)
(* 370): of a field that begins and ends in one byte, ...                  *)
LEMMA VersionTaken ==
  ASSUME NEW b \in [0..15 -> 0..255]
  PROVE  Field(b, 126, 2) = (b[15] \div 64)
<1> DEFINE l == b[15] \div 64
<1>0. l \in 0..3
  BY SMT
<1>1. /\ FirstOf(126, 0) = 126 /\ FirstOf(126, 1) = 128
      /\ FirstOf(126, 2) = 136 /\ FirstOf(126, 3) = 144
  BY SMT DEF FirstOf
<1>2. Taken(b, 126, 2, 0) = l
  <2>1. 126 < 126 + 2 /\ 126 \div 8 = 15 /\ 126 % 8 = 6 /\ Shift(126, 0) = 0
    BY <1>1, SMT DEF Shift
  <2>2. Taken(b, 126, 2, 0) = (b[15] \div 2^6) * 2^0
    BY <1>1, <2>1, Zenon DEF Taken
  <2> QED
    BY <2>2, SMT
<1>3. Taken(b, 126, 2, 1) = 0
  BY <1>1, SMT DEF Taken
<1>4. Taken(b, 126, 2, 2) = 0
  BY <1>1, SMT DEF Taken
<1>5. Taken(b, 126, 2, 3) = 0
  BY <1>1, SMT DEF Taken
<1>6. Field(b, 126, 2) = (Taken(b, 126, 2, 0) + Taken(b, 126, 2, 1) + Taken(b, 126, 2, 2) + Taken(b, 126, 2, 3)) % 2^2
  BY Zenon DEF Field
<1> HIDE DEF l
<1>7. Taken(b, 126, 2, 0) + Taken(b, 126, 2, 1) + Taken(b, 126, 2, 2) + Taken(b, 126, 2, 3) = l
  BY <1>0, <1>2, <1>3, <1>4, <1>5, SMT
<1>8. Field(b, 126, 2) = l % 4
  BY <1>6, <1>7, SMT
<1>9. l % 4 = l
  BY <1>0, SMT
<1> QED
  BY <1>8, <1>9 DEF l

(* ... as this one does, ...                                               *)
LEMMA BlockLenTaken ==
  ASSUME NEW b \in [0..15 -> 0..255]
  PROVE  Field(b, 80, 4) = b[10] % 16
<1> DEFINE l == b[10]
<1>0. l \in 0..255
  BY SMT
<1>1. /\ FirstOf(80, 0) = 80 /\ FirstOf(80, 1) = 88
      /\ FirstOf(80, 2) = 96 /\ FirstOf(80, 3) = 104
  BY SMT DEF FirstOf
<1>2. Taken(b, 80, 4, 0) = l
  <2>1. 80 < 80 + 4 /\ 80 \div 8 = 10 /\ 80 % 8 = 0 /\ Shift(80, 0) = 0
    BY <1>1, SMT DEF Shift
  <2>2. Taken(b, 80, 4, 0) = (b[10] \div 2^0) * 2^0
    BY <1>1, <2>1, Zenon DEF Taken
  <2> QED
    BY <2>2, SMT
<1>3. Taken(b, 80, 4, 1) = 0
  BY <1>1, SMT DEF Taken
<1>4. Taken(b, 80, 4, 2) = 0
  BY <1>1, SMT DEF Taken
<1>5. Taken(b, 80, 4, 3) = 0
  BY <1>1, SMT DEF Taken
<1>6. Field(b, 80, 4) = (Taken(b, 80, 4, 0) + Taken(b, 80, 4, 1) + Taken(b, 80, 4, 2) + Taken(b, 80, 4, 3)) % 2^4
  BY Zenon DEF Field
<1> HIDE DEF l
<1>7. Taken(b, 80, 4, 0) + Taken(b, 80, 4, 1) + Taken(b, 80, 4, 2) + Taken(b, 80, 4, 3) = l
  BY <1>0, <1>2, <1>3, <1>4, <1>5, SMT
<1>8. Field(b, 80, 4) = l % 16
  BY <1>6, <1>7, SMT
<1>9. l % 16 = l % 16
  BY <1>0, SMT
<1> QED
  BY <1>8, <1>9 DEF l

(* ... of one in two bytes, ...                                            *)
LEMMA MultiplierTaken ==
  ASSUME NEW b \in [0..15 -> 0..255]
  PROVE  Field(b, 47, 3) = (b[5] \div 128) + 2 * (b[6] % 4)
<1> DEFINE l == b[5] \div 128
<1> DEFINE h == b[6]
<1>0. l \in 0..1 /\ h \in 0..255
  BY SMT
<1>1. /\ FirstOf(47, 0) = 47 /\ FirstOf(47, 1) = 48
      /\ FirstOf(47, 2) = 56 /\ FirstOf(47, 3) = 64
  BY SMT DEF FirstOf
<1>2. Taken(b, 47, 3, 0) = l
  <2>1. 47 < 47 + 3 /\ 47 \div 8 = 5 /\ 47 % 8 = 7 /\ Shift(47, 0) = 0
    BY <1>1, SMT DEF Shift
  <2>2. Taken(b, 47, 3, 0) = (b[5] \div 2^7) * 2^0
    BY <1>1, <2>1, Zenon DEF Taken
  <2> QED
    BY <2>2, SMT
<1>3. Taken(b, 47, 3, 1) = h * 2
  <2>1. 48 < 47 + 3 /\ 48 \div 8 = 6 /\ 48 % 8 = 0 /\ Shift(47, 1) = 1
    BY <1>1, SMT DEF Shift
  <2>2. Taken(b, 47, 3, 1) = (b[6] \div 2^0) * 2^1
    BY <1>1, <2>1, Zenon DEF Taken
  <2> QED
    BY <2>2, SMT
<1>4. Taken(b, 47, 3, 2) = 0
  BY <1>1, SMT DEF Taken
<1>5. Taken(b, 47, 3, 3) = 0
  BY <1>1, SMT DEF Taken
<1>6. Field(b, 47, 3) = (Taken(b, 47, 3, 0) + Taken(b, 47, 3, 1) + Taken(b, 47, 3, 2) + Taken(b, 47, 3, 3)) % 2^3
  BY Zenon DEF Field
<1> HIDE DEF l, h
<1>7. Taken(b, 47, 3, 0) + Taken(b, 47, 3, 1) + Taken(b, 47, 3, 2) + Taken(b, 47, 3, 3) = l + h * 2
  BY <1>0, <1>2, <1>3, <1>4, <1>5, SMT
<1>8. Field(b, 47, 3) = (l + h * 2) % 8
  BY <1>6, <1>7, SMT
<1>9. (l + h * 2) % 8 = l + 2 * (h % 4)
  BY <1>0, SMT
<1> QED
  BY <1>8, <1>9 DEF l, h

(* ... and of two that are in three.                                       *)
LEMMA SizeTakenV1 ==
  ASSUME NEW b \in [0..15 -> 0..255]
  PROVE  Field(b, 62, 12) = (b[7] \div 64) + 4 * b[8] + 1024 * (b[9] % 4)
<1> DEFINE l == b[7] \div 64
<1> DEFINE m == b[8]
<1> DEFINE h == b[9]
<1>0. l \in 0..3 /\ m \in 0..255 /\ h \in 0..255
  BY SMT
<1>1. /\ FirstOf(62, 0) = 62 /\ FirstOf(62, 1) = 64
      /\ FirstOf(62, 2) = 72 /\ FirstOf(62, 3) = 80
  BY SMT DEF FirstOf
<1>2. Taken(b, 62, 12, 0) = l
  <2>1. 62 < 62 + 12 /\ 62 \div 8 = 7 /\ 62 % 8 = 6 /\ Shift(62, 0) = 0
    BY <1>1, SMT DEF Shift
  <2>2. Taken(b, 62, 12, 0) = (b[7] \div 2^6) * 2^0
    BY <1>1, <2>1, Zenon DEF Taken
  <2> QED
    BY <2>2, SMT
<1>3. Taken(b, 62, 12, 1) = m * 4
  <2>1. 64 < 62 + 12 /\ 64 \div 8 = 8 /\ 64 % 8 = 0 /\ Shift(62, 1) = 2
    BY <1>1, SMT DEF Shift
  <2>2. Taken(b, 62, 12, 1) = (b[8] \div 2^0) * 2^2
    BY <1>1, <2>1, Zenon DEF Taken
  <2> QED
    BY <2>2, SMT
<1>4. Taken(b, 62, 12, 2) = h * 1024
  <2>1. 72 < 62 + 12 /\ 72 \div 8 = 9 /\ 72 % 8 = 0 /\ Shift(62, 2) = 10
    BY <1>1, SMT DEF Shift
  <2>2. Taken(b, 62, 12, 2) = (b[9] \div 2^0) * 2^10
    BY <1>1, <2>1, Zenon DEF Taken
  <2> QED
    BY <2>2, SMT
<1>5. Taken(b, 62, 12, 3) = 0
  BY <1>1, SMT DEF Taken
<1>6. Field(b, 62, 12) = (Taken(b, 62, 12, 0) + Taken(b, 62, 12, 1) + Taken(b, 62, 12, 2) + Taken(b, 62, 12, 3)) % 2^12
  BY Zenon DEF Field
<1> HIDE DEF l, m, h
<1>7. Taken(b, 62, 12, 0) + Taken(b, 62, 12, 1) + Taken(b, 62, 12, 2) + Taken(b, 62, 12, 3) = l + m * 4 + h * 1024
  BY <1>0, <1>2, <1>3, <1>4, <1>5, SMT
<1>8. Field(b, 62, 12) = (l + m * 4 + h * 1024) % 4096
  BY <1>6, <1>7, SMT
<1>9. (l + m * 4 + h * 1024) % 4096 = l + 4 * m + 1024 * (h % 4)
  BY <1>0, SMT
<1> QED
  BY <1>8, <1>9 DEF l, m, h

LEMMA SizeTakenV2 ==
  ASSUME NEW b \in [0..15 -> 0..255]
  PROVE  Field(b, 48, 22) = b[6] + 256 * b[7] + 65536 * (b[8] % 64)
<1> DEFINE l == b[6]
<1> DEFINE m == b[7]
<1> DEFINE h == b[8]
<1>0. l \in 0..255 /\ m \in 0..255 /\ h \in 0..255
  BY SMT
<1>1. /\ FirstOf(48, 0) = 48 /\ FirstOf(48, 1) = 56
      /\ FirstOf(48, 2) = 64 /\ FirstOf(48, 3) = 72
  BY SMT DEF FirstOf
<1>2. Taken(b, 48, 22, 0) = l
  <2>1. 48 < 48 + 22 /\ 48 \div 8 = 6 /\ 48 % 8 = 0 /\ Shift(48, 0) = 0
    BY <1>1, SMT DEF Shift
  <2>2. Taken(b, 48, 22, 0) = (b[6] \div 2^0) * 2^0
    BY <1>1, <2>1, Zenon DEF Taken
  <2> QED
    BY <2>2, SMT
<1>3. Taken(b, 48, 22, 1) = m * 256
  <2>1. 56 < 48 + 22 /\ 56 \div 8 = 7 /\ 56 % 8 = 0 /\ Shift(48, 1) = 8
    BY <1>1, SMT DEF Shift
  <2>2. Taken(b, 48, 22, 1) = (b[7] \div 2^0) * 2^8
    BY <1>1, <2>1, Zenon DEF Taken
  <2> QED
    BY <2>2, SMT
<1>4. Taken(b, 48, 22, 2) = h * 65536
  <2>1. 64 < 48 + 22 /\ 64 \div 8 = 8 /\ 64 % 8 = 0 /\ Shift(48, 2) = 16
    BY <1>1, SMT DEF Shift
  <2>2. Taken(b, 48, 22, 2) = (b[8] \div 2^0) * 2^16
    BY <1>1, <2>1, Zenon DEF Taken
  <2> QED
    BY <2>2, SMT
<1>5. Taken(b, 48, 22, 3) = 0
  BY <1>1, SMT DEF Taken
<1>6. Field(b, 48, 22) = (Taken(b, 48, 22, 0) + Taken(b, 48, 22, 1) + Taken(b, 48, 22, 2) + Taken(b, 48, 22, 3)) % 2^22
  BY Zenon DEF Field
<1> HIDE DEF l, m, h
<1>7. Taken(b, 48, 22, 0) + Taken(b, 48, 22, 1) + Taken(b, 48, 22, 2) + Taken(b, 48, 22, 3) = l + m * 256 + h * 65536
  BY <1>0, <1>2, <1>3, <1>4, <1>5, SMT
<1>8. Field(b, 48, 22) = (l + m * 256 + h * 65536) % 4194304
  BY <1>6, <1>7, SMT
<1>9. (l + m * 256 + h * 65536) % 4194304 = l + 256 * m + 65536 * (h % 64)
  BY <1>0, SMT
<1> QED
  BY <1>8, <1>9 DEF l, m, h

(* Where the bits of a number are, the number is read.                     *)
LEMMA MultiplierIsRead ==
  ASSUME NEW b \in [0..15 -> 0..255]
  PROVE  \A v \in Nat :
           b[5] \div 128 = v % 2 /\ b[6] % 4 = v \div 2 => Field(b, 47, 3) = v
<1>1. ASSUME NEW v \in Nat, b[5] \div 128 = v % 2 /\ b[6] % 4 = v \div 2
      PROVE  Field(b, 47, 3) = v
  <2>1. v = (v % 2) + 2 * (v \div 2)
    BY SMT
  <2> QED
    BY <1>1, <2>1, MultiplierTaken
<1> QED
  BY <1>1

LEMMA SizeIsReadV1 ==
  ASSUME NEW b \in [0..15 -> 0..255]
  PROVE  \A v \in Nat :
           b[7] \div 64 = v % 4 /\ b[8] = (v \div 4) % 256 /\ b[9] % 4 = (v \div 4) \div 256
             => Field(b, 62, 12) = v
<1>1. Field(b, 62, 12) = (b[7] \div 64) + 4 * b[8] + 1024 * (b[9] % 4)
  BY SizeTakenV1
<1>2. ASSUME NEW v \in Nat, b[7] \div 64 = v % 4 /\ b[8] = (v \div 4) % 256 /\ b[9] % 4 = (v \div 4) \div 256
      PROVE  Field(b, 62, 12) = v
  <2>1. v = (v % 4) + 4 * ((v \div 4) % 256) + 1024 * ((v \div 4) \div 256)
    BY DigitsV1, SMT
  <2>2. PICK x \in Nat, y \in Nat, z \in Nat :
          x = v % 4 /\ y = (v \div 4) % 256 /\ z = (v \div 4) \div 256
    BY SMT
  <2>3. b[7] \div 64 = x /\ b[8] = y /\ b[9] % 4 = z
    BY <1>2, <2>2
  <2>4. v = x + 4 * y + 1024 * z
    BY <2>1, <2>2
  <2>5. Field(b, 62, 12) = x + 4 * y + 1024 * z
    BY <1>1, <2>3
  <2> QED
    BY <2>4, <2>5
<1> QED
  BY <1>2

LEMMA SizeIsReadV2 ==
  ASSUME NEW b \in [0..15 -> 0..255]
  PROVE  \A v \in Nat :
           b[6] = v % 256 /\ b[7] = (v \div 256) % 256 /\ b[8] % 64 = (v \div 256) \div 256
             => Field(b, 48, 22) = v
<1>1. Field(b, 48, 22) = b[6] + 256 * b[7] + 65536 * (b[8] % 64)
  BY SizeTakenV2, SMT
<1>2. ASSUME NEW v \in Nat, b[6] = v % 256 /\ b[7] = (v \div 256) % 256 /\ b[8] % 64 = (v \div 256) \div 256
      PROVE  Field(b, 48, 22) = v
  <2>1. v = (v % 256) + 256 * ((v \div 256) % 256) + 65536 * ((v \div 256) \div 256)
    BY DigitsV2, SMT
  <2> QED
    BY <1>1, <1>2, <2>1, SMT
<1> QED
  BY <1>2

-----------------------------------------------------------------------------
(* No read breaks off without a fault. *)

(* The register of a card says in one of the two ways of the SD standard   *)
(* how large the card is: as a number of blocks, a multiplier and the      *)
(* length of a block, or as a number of large units, each of them in its   *)
(* bits of the register, whatever the other bits are.                      *)
TellsV1(b) ==
  \E size \in Nat, mult \in 0..7, len \in 0..15 :
    /\ b[15] \div 64 = 0
    /\ b[7] \div 64 = size % 4 /\ b[8] = (size \div 4) % 256 /\ b[9] % 4 = (size \div 4) \div 256
    /\ b[5] \div 128 = mult % 2 /\ b[6] % 4 = mult \div 2
    /\ b[10] % 16 = len
    /\ (size + 1) * 2^(mult + 2) * 2^len = Sectors * BlockSize

TellsV2(b) ==
  \E size \in Nat :
    /\ b[15] \div 64 = 1
    /\ b[6] = size % 256 /\ b[7] = (size \div 256) % 256 /\ b[8] % 64 = (size \div 256) \div 256
    /\ (size + 1) * 2^SizeShift * 2^V2BlLen = Sectors * BlockSize

RegistersTell == \A k \in Kinds : TellsV1(Register[k]) \/ TellsV2(Register[k])

(* What the driver makes of it (sd_proto.hpp 247-288, 343-370).            *)
LEMMA V1IsRead ==
  ASSUME NEW b \in [0..15 -> 0..255], TellsV1(b)
  PROVE  CsdVersion(b) = "csd1" /\ Capacity("csd1", b) = Sectors * BlockSize
<1>1. PICK size \in Nat, mult \in 0..7, len \in 0..15 :
        /\ b[15] \div 64 = 0
        /\ b[7] \div 64 = size % 4 /\ b[8] = (size \div 4) % 256 /\ b[9] % 4 = (size \div 4) \div 256
        /\ b[5] \div 128 = mult % 2 /\ b[6] % 4 = mult \div 2
        /\ b[10] % 16 = len
        /\ (size + 1) * 2^(mult + 2) * 2^len = Sectors * BlockSize
  BY DEF TellsV1
<1>2. Field(b, 126, 2) = 0
  BY <1>1, VersionTaken
<1>3. Field(b, 62, 12) = size
  BY <1>1, SizeIsReadV1
<1>4. Field(b, 47, 3) = mult
  <2>1. mult \in Nat
    OBVIOUS
  <2> QED
    BY <1>1, <2>1, MultiplierIsRead
<1>5. Field(b, 80, 4) = len
  BY <1>1, BlockLenTaken
<1>6. CsdVersion(b) = "csd1"
  BY <1>2 DEF CsdVersion
<1>7. Capacity("csd1", b) = (size + 1) * 2^(mult + 2) * 2^len
  BY <1>3, <1>4, <1>5, Zenon DEF Capacity, CapacityV1
<1> QED
  BY <1>1, <1>6, <1>7, Zenon

LEMMA V2IsRead ==
  ASSUME NEW b \in [0..15 -> 0..255], TellsV2(b)
  PROVE  CsdVersion(b) = "csd2" /\ Capacity("csd2", b) = Sectors * BlockSize
<1>1. PICK size \in Nat :
        /\ b[15] \div 64 = 1
        /\ b[6] = size % 256 /\ b[7] = (size \div 256) % 256 /\ b[8] % 64 = (size \div 256) \div 256
        /\ (size + 1) * 2^SizeShift * 2^V2BlLen = Sectors * BlockSize
  BY DEF TellsV2
<1>2. Field(b, 126, 2) = 1
  BY <1>1, VersionTaken
<1>3. Field(b, 48, 22) = size
  BY <1>1, SizeIsReadV2
<1>4. CsdVersion(b) = "csd2"
  BY <1>2 DEF CsdVersion
<1>5. Capacity("csd2", b) = (size + 1) * 2^SizeShift * 2^V2BlLen
  BY <1>3, Zenon DEF Capacity, CapacityV2
<1> QED
  BY <1>1, <1>4, <1>5, Zenon

LEMMA RegistersAreRead ==
  ASSUME RegistersTell, NEW k \in Kinds
  PROVE  /\ CsdVersion(Register[k]) \in {"csd1", "csd2"}
         /\ Capacity(CsdVersion(Register[k]), Register[k]) \div BlockSize = Sectors
<1>1. Register[k] \in [0..15 -> 0..255]
  BY SdHostAssumption DEF SdHostAssumption
<1>2. (Sectors * BlockSize) \div BlockSize = Sectors
  <2>1. Sectors \in Nat /\ BlockSize \in Nat \ {0}
    BY SdHostAssumption DEF SdHostAssumption
  <2> QED
    BY <2>1, Z3
<1>3. \/ CsdVersion(Register[k]) = "csd1" /\ Capacity("csd1", Register[k]) = Sectors * BlockSize
      \/ CsdVersion(Register[k]) = "csd2" /\ Capacity("csd2", Register[k]) = Sectors * BlockSize
  BY <1>1, V1IsRead, V2IsRead, Zenon DEF RegistersTell
<1> QED
  BY <1>2, <1>3, Zenon

(* A command that the card takes in one state, and is in another one after.*)
Asking(op, from, to) ==
  \/ cmd = Op(op) /\ ~fail /\ state = from
  \/ cmd = NoCommand /\ (IF fail THEN hit ELSE state = to)

At1(s) == cmd = NoCommand /\ state = s

(* From there on the card is selected. *)
Selected == {"blockLen", "blockLenAnswer", "ready", "flush", "begin", "idle"} \cup Reading

(* The card is where the driver takes it to be, and does what it is asked. *)
Starting ==
  /\ pc = "opAnswer" => cmd.op \in {"none", "opCond"} /\ ~fail
  /\ pc = "opAnswer" /\ rsp \in Ready => At1("ready")

Identified ==
  ~unseen =>
    /\ pc = "allCid" => At1("ready")
    /\ pc = "allCidAnswer" => Asking("allCid", "ready", "ident")
    /\ pc = "relAddr" => At1("ident")
    /\ pc = "relAddrAnswer" => Asking("relAddr", "ident", "stby")
    /\ pc \in {"sendCid", "sendCsd", "select"} => At1("stby")
    /\ pc = "sendCidAnswer" => Asking("sendCid", "stby", "stby")
    /\ pc = "sendCsdAnswer" => Asking("sendCsd", "stby", "stby")
    /\ pc = "sendCsdAnswer" /\ cmd = NoCommand /\ ~fail => rsp = CsdVersion(Register[kind])
    /\ pc = "selectAnswer" => Asking("select", "stby", "tran")
    /\ pc \in Selected => state = "tran" /\ cmd.op \in {"none", "blockLen", "read", "stop"}

InRange == sector \in 1..Sectors /\ kind \in Kinds /\ KnowsSize

(* A CSD that the controller holds is that of the card. *)
CsdIsTheCards ==
  rsp \in {"csd1", "csd2"} => rsp = CsdVersion(Register[kind])

(* While a read is undisturbed, its words come. *)
Coming ==
  pc = "words" /\ ~unseen /\ ~hit =>
    /\ ~error
    /\ cmd # NoCommand \/ Sending(card) \/ Len(buf) + Len(fifo) >= Words

FaultInv ==
  Starting /\ Identified /\ CsdIsTheCards /\ InRange /\ Coming /\ BreaksOnlyOnFault

-----------------------------------------------------------------------------
LEMMA ResetBreaks ==
  ASSUME IInv, FaultInv, RegistersTell, Reset
  PROVE  FaultInv'
<1> USE DEF Reset, Goes, readVars, askVars, hostVars, cardVars, ghostVars
<1>1. Starting'
  BY DEF FaultInv, IInv, Types, Starting, At1, Selected, Reading, Draining
<1>2. Identified'
  BY DEF FaultInv, IInv, Types, Identified, Asking, At1, Selected, Reading, Draining
<1>3. InRange'
  BY DEF FaultInv, IInv, Types, InRange, KnowsSize
<1>4. Coming'
  BY DEF FaultInv, IInv, Types, Coming
<1>5. BreaksOnlyOnFault'
  BY DEF FaultInv, IInv, Types, BreaksOnlyOnFault
<1>6. CsdIsTheCards'
  BY DEF FaultInv, IInv, Types, CsdIsTheCards
<1> QED
  BY <1>1, <1>2, <1>3, <1>4, <1>5, <1>6 DEF FaultInv

LEMMA IfAnswerBreaks ==
  ASSUME IInv, FaultInv, RegistersTell, IfAnswer
  PROVE  FaultInv'
<1> USE DEF IfAnswer, Goes, Answered, Refused, Waited, TimedOut, Fault, readVars, askVars,
   hostVars, cardVars, ghostVars
<1>1. Starting'
  BY DEF FaultInv, IInv, Types, Starting, At1, Selected, Reading, Draining
<1>2. Identified'
  BY DEF FaultInv, IInv, Types, Identified, Asking, At1, Selected, Reading, Draining
<1>3. InRange'
  BY DEF FaultInv, IInv, Types, InRange, KnowsSize
<1>4. Coming'
  BY DEF FaultInv, IInv, Types, Coming
<1>5. BreaksOnlyOnFault'
  BY DEF FaultInv, IInv, Types, BreaksOnlyOnFault
<1>6. CsdIsTheCards'
  BY DEF FaultInv, IInv, Types, CsdIsTheCards
<1> QED
  BY <1>1, <1>2, <1>3, <1>4, <1>5, <1>6 DEF FaultInv

LEMMA OpAnswerBreaks ==
  ASSUME IInv, FaultInv, RegistersTell, OpAnswer
  PROVE  FaultInv'
<1> USE DEF OpAnswer, Answered, Refused, Waited, TimedOut, Fault, readVars, askVars, hostVars,
   cardVars, ghostVars
<1>1. Starting'
  BY DEF FaultInv, IInv, Types, Starting, At1, Selected, Reading, Draining
<1>2. Identified'
  <2>1. CASE pc' = "allCid"
    BY <2>1 DEF FaultInv, Starting, Identified, At1, Selected, Reading, Draining, Ready
  <2>2. CASE pc' \in {"app", "dead"}
    BY <2>2 DEF Identified, Selected, Reading, Draining
  <2> QED
    BY <2>1, <2>2
<1>3. InRange'
  BY DEF FaultInv, IInv, Types, InRange, KnowsSize
<1>4. Coming'
  BY DEF FaultInv, IInv, Types, Coming
<1>5. BreaksOnlyOnFault'
  <2>1. ~fail /\ UNCHANGED <<broken, unseen>>
    BY DEF FaultInv, Starting
  <2>2. pc' = "dead" => hit'
    BY <2>1
  <2> QED
    BY <2>1, <2>2 DEF FaultInv, BreaksOnlyOnFault
<1>6. CsdIsTheCards'
  BY DEF FaultInv, IInv, Types, CsdIsTheCards
<1> QED
  BY <1>1, <1>2, <1>3, <1>4, <1>5, <1>6 DEF FaultInv

LEMMA CsdAnswerBreaks ==
  ASSUME IInv, FaultInv, RegistersTell, CsdAnswer
  PROVE  FaultInv'
<1> USE DEF CsdAnswer, Answered, Refused, Waited, TimedOut, Fault, readVars, askVars, hostVars,
   cardVars, ghostVars
<1>1. Starting'
  BY DEF FaultInv, IInv, Types, Starting, At1, Selected, Reading, Draining
<1>2. Identified'
  BY DEF FaultInv, IInv, Types, Identified, Asking, At1, Selected, Reading, Draining
<1>3. InRange'
  <2>1. CASE pc' = "select"
    <3>1. blocks' = Capacity(csd', Register[kind]) \div BlockSize /\ csd' = rsp
      BY <2>1
    <3>2. rsp \in {"csd1", "csd2"} /\ rsp = CsdVersion(Register[kind])
      BY <2>1, <3>1 DEF FaultInv, CsdIsTheCards
    <3> QED
      BY <3>1, <3>2, RegistersAreRead DEF FaultInv, InRange, KnowsSize
  <2>2. CASE pc' # "select"
    BY <2>2 DEF FaultInv, InRange, KnowsSize
  <2> QED
    BY <2>1, <2>2
<1>4. Coming'
  BY DEF FaultInv, IInv, Types, Coming
<1>5. BreaksOnlyOnFault'
  <2>1. CASE pc' = "dead" /\ ~unseen
    <3>1. CASE Answered
      BY <2>1, <3>1, RegistersAreRead DEF FaultInv, InRange, Identified, Asking
    <3>2. CASE Refused
      <4>1. pc = "sendCsdAnswer" /\ pc' = "dead" /\ ~unseen
        BY <2>1
      <4>2. CASE TimedOut
        BY <4>2 DEF BreaksOnlyOnFault
      <4>3. CASE Waited /\ fail
        <5>1. hit
          BY <4>1, <4>3 DEF FaultInv, Identified, Asking, Op, NoCommand
        <5>2. hit' = hit
          BY <4>3
        <5> QED
          BY <5>1, <5>2 DEF BreaksOnlyOnFault
      <4> QED
        BY <3>2, <4>2, <4>3
    <3> QED
      BY <2>1, <3>1, <3>2
  <2>2. CASE pc' = "select" \/ unseen
    BY <2>2 DEF FaultInv, BreaksOnlyOnFault
  <2> QED
    BY <2>1, <2>2
<1>6. CsdIsTheCards'
  BY DEF FaultInv, IInv, Types, CsdIsTheCards
<1> QED
  BY <1>1, <1>2, <1>3, <1>4, <1>5, <1>6 DEF FaultInv

LEMMA CardReadyBreaks ==
  ASSUME IInv, FaultInv, RegistersTell, CardReady
  PROVE  FaultInv'
<1> USE DEF CardReady, Goes, readVars, askVars, hostVars, cardVars, ghostVars
<1>1. Starting'
  BY DEF FaultInv, IInv, Types, Starting, At1, Selected, Reading, Draining
<1>2. Identified'
  BY DEF FaultInv, IInv, Types, Identified, Asking, At1, Selected, Reading, Draining
<1>3. InRange'
  BY DEF FaultInv, IInv, Types, InRange, KnowsSize
<1>4. Coming'
  BY DEF FaultInv, IInv, Types, Coming
<1>5. BreaksOnlyOnFault'
  BY DEF FaultInv, IInv, Types, BreaksOnlyOnFault
<1>6. CsdIsTheCards'
  BY DEF FaultInv, IInv, Types, CsdIsTheCards
<1> QED
  BY <1>1, <1>2, <1>3, <1>4, <1>5, <1>6 DEF FaultInv

LEMMA NextImageBreaks ==
  ASSUME IInv, FaultInv, RegistersTell, NextImage
  PROVE  FaultInv'
<1> USE DEF NextImage, Goes, readVars, askVars, hostVars, cardVars, ghostVars
<1>1. Starting'
  BY DEF FaultInv, IInv, Types, Starting, At1, Selected, Reading, Draining
<1>2. Identified'
  BY DEF FaultInv, IInv, Types, Identified, Asking, At1, Selected, Reading, Draining
<1>3. InRange'
  BY DEF FaultInv, IInv, Types, InRange, KnowsSize
<1>4. Coming'
  BY DEF FaultInv, IInv, Types, Coming
<1>5. BreaksOnlyOnFault'
  BY DEF FaultInv, IInv, Types, BreaksOnlyOnFault
<1>6. CsdIsTheCards'
  BY DEF FaultInv, IInv, Types, CsdIsTheCards
<1> QED
  BY <1>1, <1>2, <1>3, <1>4, <1>5, <1>6 DEF FaultInv

LEMMA BeginBreaks ==
  ASSUME IInv, FaultInv, RegistersTell, Begin
  PROVE  FaultInv'
<1> USE DEF Begin, Goes, readVars, askVars, hostVars, cardVars, ghostVars
<1>1. Starting'
  BY DEF FaultInv, IInv, Types, Starting, At1, Selected, Reading, Draining
<1>2. Identified'
  BY DEF FaultInv, IInv, Types, Identified, Asking, At1, Selected, Reading, Draining
<1>3. InRange'
  BY DEF FaultInv, IInv, Types, InRange, KnowsSize
<1>4. Coming'
  BY DEF FaultInv, IInv, Types, Coming
<1>5. BreaksOnlyOnFault'
  BY DEF FaultInv, IInv, Types, BreaksOnlyOnFault
<1>6. CsdIsTheCards'
  BY DEF FaultInv, IInv, Types, CsdIsTheCards
<1> QED
  BY <1>1, <1>2, <1>3, <1>4, <1>5, <1>6 DEF FaultInv

LEMMA FlushBreaks ==
  ASSUME IInv, FaultInv, RegistersTell, Flush
  PROVE  FaultInv'
<1> USE DEF Flush, Goes, readVars, askVars, hostVars, cardVars, ghostVars
<1>1. Starting'
  BY DEF FaultInv, IInv, Types, Starting, At1, Selected, Reading, Draining
<1>2. Identified'
  BY DEF FaultInv, IInv, Types, Identified, Asking, At1, Selected, Reading, Draining
<1>3. InRange'
  <2>1. 1 \in 1..Sectors
    BY SdHostAssumption
  <2> QED
    BY <2>1 DEF FaultInv, InRange, KnowsSize
<1>4. Coming'
  BY DEF FaultInv, IInv, Types, Coming
<1>5. BreaksOnlyOnFault'
  BY DEF FaultInv, IInv, Types, BreaksOnlyOnFault
<1>6. CsdIsTheCards'
  BY DEF FaultInv, IInv, Types, CsdIsTheCards
<1> QED
  BY <1>1, <1>2, <1>3, <1>4, <1>5, <1>6 DEF FaultInv

LEMMA DrainWaitBreaks ==
  ASSUME IInv, FaultInv, RegistersTell, DrainWait
  PROVE  FaultInv'
<1> USE DEF DrainWait, Goes, Wait, Waited, TimedOut, Fault, readVars, askVars, hostVars,
   cardVars, ghostVars
<1>1. Starting'
  BY DEF FaultInv, IInv, Types, Starting, At1, Selected, Reading, Draining
<1>2. Identified'
  BY DEF FaultInv, IInv, Types, Identified, Asking, At1, Selected, Reading, Draining
<1>3. InRange'
  BY DEF FaultInv, IInv, Types, InRange, KnowsSize
<1>4. Coming'
  BY DEF FaultInv, IInv, Types, Coming
<1>5. BreaksOnlyOnFault'
  BY DEF FaultInv, IInv, Types, BreaksOnlyOnFault
<1>6. CsdIsTheCards'
  BY DEF FaultInv, IInv, Types, CsdIsTheCards
<1> QED
  BY <1>1, <1>2, <1>3, <1>4, <1>5, <1>6 DEF FaultInv

LEMMA DrainWordBreaks ==
  ASSUME IInv, FaultInv, RegistersTell, DrainWord
  PROVE  FaultInv'
<1> USE DEF DrainWord, readVars, askVars, hostVars, cardVars, ghostVars
<1>1. Starting'
  BY DEF FaultInv, IInv, Types, Starting, At1, Selected, Reading, Draining
<1>2. Identified'
  BY DEF FaultInv, IInv, Types, Identified, Asking, At1, Selected, Reading, Draining
<1>3. InRange'
  BY DEF FaultInv, IInv, Types, InRange, KnowsSize
<1>4. Coming'
  BY DEF FaultInv, IInv, Types, Coming
<1>5. BreaksOnlyOnFault'
  BY DEF FaultInv, IInv, Types, BreaksOnlyOnFault
<1>6. CsdIsTheCards'
  BY DEF FaultInv, IInv, Types, CsdIsTheCards
<1> QED
  BY <1>1, <1>2, <1>3, <1>4, <1>5, <1>6 DEF FaultInv

LEMMA DrainEndsBreaks ==
  ASSUME IInv, FaultInv, RegistersTell, DrainEnds
  PROVE  FaultInv'
<1> USE DEF DrainEnds, Goes, readVars, askVars, hostVars, cardVars, ghostVars
<1>1. Starting'
  BY DEF FaultInv, IInv, Types, Starting, At1, Selected, Reading, Draining
<1>2. Identified'
  BY DEF FaultInv, IInv, Types, Identified, Asking, At1, Selected, Reading, Draining
<1>3. InRange'
  BY DEF FaultInv, IInv, Types, InRange, KnowsSize
<1>4. Coming'
  BY DEF FaultInv, IInv, Types, Coming
<1>5. BreaksOnlyOnFault'
  BY DEF FaultInv, IInv, Types, BreaksOnlyOnFault
<1>6. CsdIsTheCards'
  BY DEF FaultInv, IInv, Types, CsdIsTheCards
<1> QED
  BY <1>1, <1>2, <1>3, <1>4, <1>5, <1>6 DEF FaultInv

LEMMA SendReadBreaks ==
  ASSUME IInv, FaultInv, RegistersTell, SendRead
  PROVE  FaultInv'
<1> USE DEF SendRead, Send, SendRaw, Goes, Wait, ReadAt, Waited, TimedOut, Fault, readVars,
   askVars, hostVars, cardVars, ghostVars
<1>1. Starting'
  BY DEF FaultInv, IInv, Types, Starting, At1, Selected, Reading, Draining
<1>2. Identified'
  BY DEF FaultInv, IInv, Types, Identified, Asking, At1, Selected, Reading, Draining
<1>3. InRange'
  BY DEF FaultInv, IInv, Types, InRange, KnowsSize
<1>4. Coming'
  <2>1. cmd' # NoCommand /\ ~error'
    BY DEF NoCommand
  <2> QED
    BY <2>1 DEF Coming
<1>5. BreaksOnlyOnFault'
  BY DEF FaultInv, IInv, Types, BreaksOnlyOnFault
<1>6. CsdIsTheCards'
  BY DEF FaultInv, IInv, Types, CsdIsTheCards
<1> QED
  BY <1>1, <1>2, <1>3, <1>4, <1>5, <1>6 DEF FaultInv

LEMMA TakeWordBreaks ==
  ASSUME IInv, FaultInv, RegistersTell, TakeWord
  PROVE  FaultInv'
<1> USE DEF TakeWord, readVars, askVars, hostVars, cardVars, ghostVars
<1>1. Starting'
  BY DEF FaultInv, IInv, Types, Starting, At1, Selected, Reading, Draining
<1>2. Identified'
  BY DEF FaultInv, IInv, Types, Identified, Asking, At1, Selected, Reading, Draining
<1>3. InRange'
  BY DEF FaultInv, IInv, Types, InRange, KnowsSize
<1>4. Coming'
  BY DEF FaultInv, IInv, Types, Coming
<1>5. BreaksOnlyOnFault'
  BY DEF FaultInv, IInv, Types, BreaksOnlyOnFault
<1>6. CsdIsTheCards'
  BY DEF FaultInv, IInv, Types, CsdIsTheCards
<1> QED
  BY <1>1, <1>2, <1>3, <1>4, <1>5, <1>6 DEF FaultInv

LEMMA LoopLeftBreaks ==
  ASSUME IInv, FaultInv, RegistersTell, TransferError \/ NoFifoData
  PROVE  FaultInv'
<1> USE DEF TransferError, NoFifoData, Goes, Fault, readVars, askVars, hostVars, cardVars,
   ghostVars
<1>1. Starting'
  BY DEF FaultInv, IInv, Types, Starting, At1, Selected, Reading, Draining
<1>2. Identified'
  BY DEF FaultInv, IInv, Types, Identified, Asking, At1, Selected, Reading, Draining
<1>3. InRange'
  BY DEF FaultInv, IInv, Types, InRange, KnowsSize
<1>4. Coming'
  BY DEF FaultInv, IInv, Types, Coming
<1>5. BreaksOnlyOnFault'
  <2>1. CASE TransferError
    BY <2>1 DEF FaultInv, Coming, BreaksOnlyOnFault
  <2>2. CASE NoFifoData /\ cmd = NoCommand /\ ~Sending(card) /\ ~unseen
    <3>1. Len(buf) < Words /\ Len(fifo) = 0
      BY <2>2 DEF IInv, InOrder, Follows
    <3>2. Len(buf) \in Nat
      BY DEF IInv, Types
    <3> QED
      BY <2>2, <3>1, <3>2, SdHostAssumption DEF FaultInv, Coming, BreaksOnlyOnFault
  <2>3. CASE NoFifoData /\ ~(cmd = NoCommand /\ ~Sending(card))
    BY <2>3 DEF FaultInv, BreaksOnlyOnFault
  <2>4. CASE unseen /\ unseen' = unseen
    BY <2>4 DEF BreaksOnlyOnFault
  <2> QED
    BY <2>1, <2>2, <2>3, <2>4
<1>6. CsdIsTheCards'
  BY DEF FaultInv, IInv, Types, CsdIsTheCards
<1> QED
  BY <1>1, <1>2, <1>3, <1>4, <1>5, <1>6 DEF FaultInv

LEMMA SendStopBreaks ==
  ASSUME IInv, FaultInv, RegistersTell, SendStop
  PROVE  FaultInv'
<1> USE DEF SendStop, SendRaw, Wait, AfterRead, HstsErr, Stop, Op, Waited, TimedOut, Fault,
   readVars, askVars, hostVars, cardVars, ghostVars
<1>1. Starting'
  BY DEF FaultInv, IInv, Types, Starting, At1, Selected, Reading, Draining
<1>2. Identified'
  BY DEF FaultInv, IInv, Types, Identified, Asking, At1, Selected, Reading, Draining
<1>3. InRange'
  BY DEF FaultInv, IInv, Types, InRange, KnowsSize
<1>4. Coming'
  BY DEF FaultInv, IInv, Types, Coming
<1>5. BreaksOnlyOnFault'
  BY DEF FaultInv, IInv, Types, BreaksOnlyOnFault
<1>6. CsdIsTheCards'
  BY DEF FaultInv, IInv, Types, CsdIsTheCards
<1> QED
  BY <1>1, <1>2, <1>3, <1>4, <1>5, <1>6 DEF FaultInv

LEMMA CardStartsBreaks ==
  ASSUME IInv, FaultInv, RegistersTell, CardStarts
  PROVE  FaultInv'
<1> USE DEF CardStarts, readVars, askVars, hostVars, cardVars, ghostVars
<1>1. Starting'
  BY DEF FaultInv, IInv, Types, Starting, At1, Selected, Reading, Draining
<1>2. Identified'
  BY DEF FaultInv, IInv, Types, Identified, Asking, At1, Selected, Reading, Draining
<1>3. InRange'
  BY DEF FaultInv, IInv, Types, InRange, KnowsSize
<1>4. Coming'
  BY DEF FaultInv, IInv, Types, Coming
<1>5. BreaksOnlyOnFault'
  BY DEF FaultInv, IInv, Types, BreaksOnlyOnFault
<1>6. CsdIsTheCards'
  BY DEF FaultInv, IInv, Types, CsdIsTheCards
<1> QED
  BY <1>1, <1>2, <1>3, <1>4, <1>5, <1>6 DEF FaultInv

LEMMA SendWordBreaks ==
  ASSUME IInv, FaultInv, RegistersTell, SendWord
  PROVE  FaultInv'
<1> USE DEF SendWord, readVars, askVars, hostVars, cardVars, ghostVars
<1>1. Starting'
  BY DEF FaultInv, IInv, Types, Starting, At1, Selected, Reading, Draining
<1>2. Identified'
  BY DEF FaultInv, IInv, Types, Identified, Asking, At1, Selected, Reading, Draining
<1>3. InRange'
  BY DEF FaultInv, IInv, Types, InRange, KnowsSize
<1>4. Coming'
  <2> SUFFICES ASSUME pc = "words", ~unseen, ~hit, Len(buf) + Len(fifo') < Words
               PROVE  ~error /\ Sending(card')
    <3>1. Len(buf) \in Nat /\ Len(fifo') \in Nat
      BY AppendProperties DEF IInv, Types
    <3> QED
      BY <3>1, SdHostAssumption DEF FaultInv, Coming
  <2>1. Len(fifo) \in Nat /\ Len(buf) \in Nat /\ Len(fifo') = Len(fifo) + 1
    BY AppendProperties DEF IInv, Types
  <2>2. cmd = NoCommand /\ Follows
    BY DEF IInv, InOrder, Pending, Sending
  <2>3. card = <<sector, Len(buf) + Len(fifo) + 1>>
    BY <2>1, <2>2, SdHostAssumption DEF Follows
  <2>4. card' = <<sector, Len(buf) + Len(fifo) + 2>>
    <3>1. card[1] = sector /\ card[2] = Len(buf) + Len(fifo) + 1 /\ card[2] < Words
      BY <2>1, <2>3
    <3>2. card' = <<card[1], card[2] + 1>>
      BY <3>1 DEF After
    <3>3. card[2] + 1 = Len(buf) + Len(fifo) + 2
      BY <2>1, <3>1
    <3> QED
      BY <3>1, <3>2, <3>3
  <2>5. sector # 0
    BY DEF FaultInv, InRange
  <2> QED
    BY <2>4, <2>5 DEF FaultInv, Coming, Sending, Idle, Silent
<1>5. BreaksOnlyOnFault'
  BY DEF FaultInv, IInv, Types, BreaksOnlyOnFault
<1>6. CsdIsTheCards'
  BY DEF FaultInv, IInv, Types, CsdIsTheCards
<1> QED
  BY <1>1, <1>2, <1>3, <1>4, <1>5, <1>6 DEF FaultInv

LEMMA CommandLostBreaks ==
  ASSUME IInv, FaultInv, RegistersTell, CommandLost
  PROVE  FaultInv'
<1> USE DEF CommandLost, NoAnswer, NoCommand, Op, Fault, readVars, askVars, hostVars, cardVars,
   ghostVars
<1>1. Starting'
  BY DEF FaultInv, IInv, Types, Starting, At1, Selected, Reading, Draining
<1>2. Identified'
  BY DEF FaultInv, IInv, Types, Identified, Asking, At1, Selected, Reading, Draining
<1>3. InRange'
  BY DEF FaultInv, IInv, Types, InRange, KnowsSize
<1>4. Coming'
  BY DEF FaultInv, IInv, Types, Coming
<1>5. BreaksOnlyOnFault'
  BY DEF FaultInv, IInv, Types, BreaksOnlyOnFault
<1>6. CsdIsTheCards'
  BY DEF FaultInv, IInv, Types, CsdIsTheCards
<1> QED
  BY <1>1, <1>2, <1>3, <1>4, <1>5, <1>6 DEF FaultInv

LEMMA DataErrorBreaks ==
  ASSUME IInv, FaultInv, RegistersTell, DataError
  PROVE  FaultInv'
<1> USE DEF DataError, Fault, readVars, askVars, hostVars, cardVars, ghostVars
<1>1. Starting'
  BY DEF FaultInv, IInv, Types, Starting, At1, Selected, Reading, Draining
<1>2. Identified'
  BY DEF FaultInv, IInv, Types, Identified, Asking, At1, Selected, Reading, Draining
<1>3. InRange'
  BY DEF FaultInv, IInv, Types, InRange, KnowsSize
<1>4. Coming'
  BY DEF FaultInv, IInv, Types, Coming
<1>5. BreaksOnlyOnFault'
  BY DEF FaultInv, IInv, Types, BreaksOnlyOnFault
<1>6. CsdIsTheCards'
  BY DEF FaultInv, IInv, Types, CsdIsTheCards
<1> QED
  BY <1>1, <1>2, <1>3, <1>4, <1>5, <1>6 DEF FaultInv

LEMMA CardFailsBreaks ==
  ASSUME IInv, FaultInv, RegistersTell, CardFails
  PROVE  FaultInv'
<1> USE DEF CardFails, Fault, readVars, askVars, hostVars, cardVars, ghostVars
<1>1. Starting'
  BY DEF FaultInv, IInv, Types, Starting, At1, Selected, Reading, Draining
<1>2. Identified'
  BY DEF FaultInv, IInv, Types, Identified, Asking, At1, Selected, Reading, Draining
<1>3. InRange'
  BY DEF FaultInv, IInv, Types, InRange, KnowsSize
<1>4. Coming'
  BY DEF FaultInv, IInv, Types, Coming
<1>5. BreaksOnlyOnFault'
  BY DEF FaultInv, IInv, Types, BreaksOnlyOnFault
<1>6. CsdIsTheCards'
  BY DEF FaultInv, IInv, Types, CsdIsTheCards
<1> QED
  BY <1>1, <1>2, <1>3, <1>4, <1>5, <1>6 DEF FaultInv

LEMMA StutterBreaks ==
  ASSUME IInv, FaultInv, RegistersTell, UNCHANGED vars
  PROVE  FaultInv'
<1> USE DEF vars, readVars, askVars, hostVars, cardVars, ghostVars
<1>1. Starting'
  BY DEF FaultInv, IInv, Types, Starting, At1, Selected, Reading, Draining
<1>2. Identified'
  BY DEF FaultInv, IInv, Types, Identified, Asking, At1, Selected, Reading, Draining
<1>3. InRange'
  BY DEF FaultInv, IInv, Types, InRange, KnowsSize
<1>4. Coming'
  BY DEF FaultInv, IInv, Types, Coming
<1>5. BreaksOnlyOnFault'
  BY DEF FaultInv, IInv, Types, BreaksOnlyOnFault
<1>6. CsdIsTheCards'
  BY DEF FaultInv, IInv, Types, CsdIsTheCards
<1> QED
  BY <1>1, <1>2, <1>3, <1>4, <1>5, <1>6 DEF FaultInv

(* A command of the identification, as it is asked and answered. *)
LEMMA StartBreaks ==
  ASSUME IInv, FaultInv, GoIdle \/ IfCond \/ AppCmd \/ OpCond
  PROVE  FaultInv'
<1> USE DEF Send, SendRaw, Goes, Wait, Waited, TimedOut, Fault, readVars, askVars, cardVars
<1>1. Starting'
  <2>1. CASE OpCond
    BY <2>1 DEF OpCond, Starting, IInv, Said, Saying, NoCommand
  <2>2. CASE GoIdle \/ IfCond \/ AppCmd
    BY <2>2 DEF GoIdle, IfCond, AppCmd, Starting
  <2> QED
    BY <2>1, <2>2
<1>2. /\ pc' \in {"ifCond", "ifAnswer", "opCond", "opAnswer"}
      /\ UNCHANGED <<sector, kind, blocks, broken, rsp>>
      /\ (unseen => unseen') /\ (hit => hit')
  BY DEF GoIdle, IfCond, AppCmd, OpCond, IInv, Types
<1>3. Identified' /\ CsdIsTheCards' /\ InRange' /\ Coming' /\ BreaksOnlyOnFault'
  BY <1>2 DEF FaultInv, Identified, Selected, Reading, Draining, CsdIsTheCards, InRange,
     KnowsSize, Coming,
     BreaksOnlyOnFault, IInv, Types
<1> QED
  BY <1>1, <1>3 DEF FaultInv

LEMMA AskBreaks ==
  ASSUME IInv, FaultInv,
         \/ Ask("allCid", "allCidAnswer") \/ Ask("relAddr", "relAddrAnswer")
         \/ Ask("sendCid", "sendCidAnswer") \/ Ask("sendCsd", "sendCsdAnswer")
         \/ Ask("select", "selectAnswer") \/ Ask("blockLen", "blockLenAnswer")
  PROVE  FaultInv'
<1> USE DEF Ask, Send, SendRaw, Goes, Wait, Waited, TimedOut, Fault, readVars, askVars, cardVars
<1>1. /\ \/ pc = "allCid" /\ pc' = "allCidAnswer" /\ cmd' = Op("allCid")
         \/ pc = "relAddr" /\ pc' = "relAddrAnswer" /\ cmd' = Op("relAddr")
         \/ pc = "sendCid" /\ pc' = "sendCidAnswer" /\ cmd' = Op("sendCid")
         \/ pc = "sendCsd" /\ pc' = "sendCsdAnswer" /\ cmd' = Op("sendCsd")
         \/ pc = "select" /\ pc' = "selectAnswer" /\ cmd' = Op("select")
         \/ pc = "blockLen" /\ pc' = "blockLenAnswer" /\ cmd' = Op("blockLen")
      /\ fail' = FALSE /\ UNCHANGED <<sector, kind, blocks, broken, state>>
      /\ (unseen => unseen') /\ (hit => hit')
  BY DEF IInv, Types
<1>2. Starting' /\ CsdIsTheCards' /\ InRange' /\ Coming' /\ BreaksOnlyOnFault'
  BY <1>1 DEF FaultInv, Starting, CsdIsTheCards, InRange, KnowsSize, Coming, BreaksOnlyOnFault,
     IInv, Types
<1>3. Identified'
  BY <1>1 DEF FaultInv, Identified, At1, Asking, Selected, Reading, Draining, Op, NoCommand
<1> QED
  BY <1>2, <1>3 DEF FaultInv

LEMMA AnswerBreaks ==
  ASSUME IInv, FaultInv,
         \/ Answer("allCidAnswer", "relAddr") \/ Answer("relAddrAnswer", "sendCid")
         \/ Answer("sendCidAnswer", "sendCsd")
  PROVE  FaultInv'
<1> USE DEF Answer, Answered, Refused, Waited, TimedOut, Fault
<1>1. UNCHANGED <<sector, kind, blocks, broken, state, unseen, cmd, fail, rsp>>
  BY DEF readVars, hostVars, cardVars
<1>2. ~unseen /\ ~hit' => ~fail
  BY DEF FaultInv, Identified, Asking
<1>3. Starting' /\ CsdIsTheCards' /\ InRange' /\ Coming'
  BY <1>1 DEF FaultInv, Starting, CsdIsTheCards, InRange, KnowsSize, Coming
<1>4. BreaksOnlyOnFault'
  BY <1>1, <1>2 DEF FaultInv, BreaksOnlyOnFault
<1>5. Identified'
  BY <1>1 DEF FaultInv, Identified, At1, Asking, Selected, Reading, Draining, Op, NoCommand
<1> QED
  BY <1>3, <1>4, <1>5 DEF FaultInv

LEMMA RanBreaks ==
  ASSUME IInv, FaultInv,
         \/ Ran("selectAnswer", "blockLen") \/ Ran("selectAnswer", "ready")
         \/ Ran("blockLenAnswer", "ready")
  PROVE  FaultInv'
<1> USE DEF Ran, Waited, TimedOut, Fault
<1>1. UNCHANGED <<sector, kind, blocks, broken, state, cmd, fail, rsp>> /\ (unseen => unseen')
  BY DEF readVars, askVars, hostVars, cardVars, IInv, Types
<1>2. Starting' /\ CsdIsTheCards' /\ InRange' /\ Coming'
  BY <1>1 DEF FaultInv, Starting, CsdIsTheCards, InRange, KnowsSize, Coming
<1>3. BreaksOnlyOnFault'
  BY <1>1 DEF FaultInv, BreaksOnlyOnFault
<1>4. Identified'
  BY <1>1 DEF FaultInv, Identified, At1, Asking, Selected, Reading, Draining, Op, NoCommand,
     IInv, Types
<1> QED
  BY <1>2, <1>3, <1>4 DEF FaultInv

(* What the card takes it does. *)
LEMMA RunCommandBreaks ==
  ASSUME IInv, FaultInv, RunCommand
  PROVE  FaultInv'
<1>1. /\ cmd # NoCommand /\ cmd' = NoCommand
      /\ UNCHANGED <<pc, sector, buf, fifo, blocks, broken, kind, unseen, hit>>
  BY DEF RunCommand, readVars, askVars, ghostVars
<1>2. ASSUME Takes(cmd)
      PROVE  Does(cmd) /\ UNCHANGED <<fail, error>>
  BY <1>2 DEF RunCommand
<1>3. ASSUME ~Takes(cmd)
      PROVE  NoAnswer(cmd) /\ UNCHANGED <<card, state>>
  BY <1>3 DEF RunCommand
<1>4. Starting'
  <2> SUFFICES ASSUME pc = "opAnswer"
               PROVE  ~fail' /\ (rsp' \in Ready => state' = "ready")
    BY <1>1 DEF Starting, At1, NoCommand
  <2>1. cmd.op = "opCond" /\ ~fail /\ rsp \notin Ready
    BY <1>1 DEF FaultInv, Starting, At1, IInv, Types
  <2>2. CASE Takes(cmd)
    BY <1>2, <2>1, <2>2 DEF Does, Moves, Ready
  <2>3. CASE ~Takes(cmd)
    BY <1>3, <2>1, <2>3 DEF NoAnswer
  <2> QED
    BY <2>2, <2>3
<1>5. Identified'
  <2> SUFFICES ASSUME ~unseen  PROVE Identified'
    BY <1>1 DEF Identified
  <2>1. CASE pc = "allCidAnswer"
    <3>1. cmd = Op("allCid") /\ ~fail /\ state = "ready"
      BY <1>1, <2>1 DEF FaultInv, Identified, Asking
    <3>2. cmd.op = "allCid" /\ Takes(cmd)
      BY <3>1 DEF Op, Takes
    <3>3. state' = "ident" /\ fail' = fail
      BY <1>2, <3>2 DEF Does, Moves
    <3> QED
      BY <1>1, <2>1, <3>1, <3>3 DEF Identified, Asking, Selected, Reading, Draining
  <2>2. CASE pc = "relAddrAnswer"
    <3>1. cmd = Op("relAddr") /\ ~fail /\ state = "ident"
      BY <1>1, <2>2 DEF FaultInv, Identified, Asking
    <3>2. cmd.op = "relAddr" /\ Takes(cmd)
      BY <3>1 DEF Op, Takes
    <3>3. state' = "stby" /\ fail' = fail
      BY <1>2, <3>2 DEF Does, Moves
    <3> QED
      BY <1>1, <2>2, <3>1, <3>3 DEF Identified, Asking, Selected, Reading, Draining
  <2>3. CASE pc = "sendCidAnswer"
    <3>1. cmd = Op("sendCid") /\ ~fail /\ state = "stby"
      BY <1>1, <2>3 DEF FaultInv, Identified, Asking
    <3>2. cmd.op = "sendCid" /\ Takes(cmd)
      BY <3>1 DEF Op, Takes
    <3> QED
      BY <1>1, <1>2, <2>3, <3>1, <3>2 DEF Does, Moves, Identified, Asking, Selected, Reading,
         Draining
  <2>4. CASE pc = "sendCsdAnswer"
    <3>1. cmd = Op("sendCsd") /\ ~fail /\ state = "stby"
      BY <1>1, <2>4 DEF FaultInv, Identified, Asking
    <3>2. cmd.op = "sendCsd" /\ Takes(cmd)
      BY <3>1 DEF Op, Takes
    <3> QED
      BY <1>1, <1>2, <2>4, <3>1, <3>2 DEF Does, Moves, Identified, Asking, Selected, Reading,
         Draining
  <2>5. CASE pc = "selectAnswer"
    <3>1. cmd = Op("select") /\ ~fail /\ state = "stby"
      BY <1>1, <2>5 DEF FaultInv, Identified, Asking
    <3>2. cmd.op = "select" /\ Takes(cmd)
      BY <3>1 DEF Op, Takes
    <3>3. state' = "tran" /\ fail' = fail
      BY <1>2, <3>2 DEF Does, Moves
    <3> QED
      BY <1>1, <2>5, <3>1, <3>3 DEF Identified, Asking, Selected, Reading, Draining
  <2>6. CASE pc \in Selected
    <3>1. state = "tran" /\ cmd.op \in {"blockLen", "read", "stop"}
      BY <1>1, <2>6 DEF FaultInv, Identified, IInv, Types
    <3>2. state' = state
      <4>1. CASE Takes(cmd)
        BY <1>2, <3>1, <4>1 DEF Does, Moves
      <4>2. CASE ~Takes(cmd)
        BY <1>3, <4>2
      <4> QED
        BY <4>1, <4>2
    <3> QED
      BY <1>1, <2>6, <3>1, <3>2 DEF Identified, NoCommand, Selected, Reading, Draining
  <2>7. CASE pc \in {"allCid", "relAddr", "sendCid", "sendCsd", "select"}
    BY <1>1, <2>7 DEF FaultInv, Identified, At1
  <2> QED
    BY <1>1, <2>1, <2>2, <2>3, <2>4, <2>5, <2>6, <2>7 DEF Identified
<1>6. Coming'
  <2> SUFFICES ASSUME pc = "words", ~unseen, ~hit
               PROVE  ~error' /\ Sending(card')
    BY <1>1 DEF Coming
  <2>1. /\ cmd = ReadAt(Address(sector)) /\ card = Idle /\ ~error
      /\ state = "tran" /\ sector \in 1..Sectors
    BY <1>1 DEF IInv, InOrder, Pending, FaultInv, Coming, Identified, Selected, Reading, InRange
  <2>2. At(cmd.arg) = sector /\ cmd.op = "read"
    BY <2>1, SameAddress DEF IInv, Types, RightUnit, Reading, ReadAt
  <2>3. Takes(cmd)
    BY <2>1, <2>2 DEF Takes
  <2>4. card' = <<sector, 1>> /\ error' = error
    BY <1>2, <2>2, <2>3 DEF Does
  <2> QED
    BY <2>1, <2>4 DEF Sending, Idle, Silent
<1>7. CsdIsTheCards'
  <2>1. CASE cmd.op = "sendCsd" /\ Takes(cmd)
    BY <1>1, <1>2, <2>1 DEF Does, Moves, CsdIsTheCards
  <2>2. CASE cmd.op # "sendCsd" /\ Takes(cmd)
    <3>1. rsp' \in {rsp, "check", "r1", "ready", "readyHc", "busy", "cid", "rca"}
      BY <1>1, <1>2, <2>2 DEF Does, Moves, CardSize, IInv, Types, Ops
    <3> QED
      BY <1>1, <3>1 DEF FaultInv, CsdIsTheCards
  <2>3. CASE ~Takes(cmd)
    BY <1>1, <1>3, <2>3 DEF NoAnswer, FaultInv, CsdIsTheCards
  <2> QED
    BY <2>1, <2>2, <2>3
<1>8. InRange' /\ BreaksOnlyOnFault'
  BY <1>1 DEF FaultInv, InRange, KnowsSize, BreaksOnlyOnFault
<1> QED
  BY <1>4, <1>5, <1>6, <1>7, <1>8 DEF FaultInv

LEMMA InitBreaks ==
  ASSUME Init
  PROVE  FaultInv
<1>1. 1 \in 1..Sectors
  BY SdHostAssumption
<1> QED
  BY <1>1 DEF Init, FaultInv, Starting, Identified, Selected, Reading, Draining, CsdIsTheCards,
     InRange,
     KnowsSize, Coming, BreaksOnlyOnFault

LEMMA NextBreaks ==
  ASSUME IInv, FaultInv, RegistersTell, [Next]_vars
  PROVE  FaultInv'
<1>1. CASE Restart
  <2>1. CASE Reset \/ IfAnswer \/ OpAnswer \/ CardReady \/ GoIdle \/ IfCond \/ AppCmd \/ OpCond
    BY <2>1, ResetBreaks, IfAnswerBreaks, OpAnswerBreaks, CardReadyBreaks, StartBreaks
  <2>2. CASE IdentifyCard
    BY <2>2, AskBreaks, AnswerBreaks, CsdAnswerBreaks DEF IdentifyCard
  <2>3. CASE SelectCard \/ SetBlocklen
    BY <2>3, AskBreaks, RanBreaks DEF SelectCard, SetBlocklen
  <2> QED
    BY <1>1, <2>1, <2>2, <2>3 DEF Restart
<1>2. CASE NextImage \/ Begin \/ Flush \/ DrainWait \/ DrainWord \/ DrainEnds
  BY <1>2, NextImageBreaks, BeginBreaks, FlushBreaks, DrainWaitBreaks, DrainWordBreaks,
     DrainEndsBreaks
<1>3. CASE SendRead \/ TakeWord \/ TransferError \/ NoFifoData \/ SendStop
  BY <1>3, SendReadBreaks, TakeWordBreaks, LoopLeftBreaks, SendStopBreaks
<1>4. CASE Host
  BY <1>4, RunCommandBreaks, SendWordBreaks, CardStartsBreaks DEF Host
<1>5. CASE CommandLost \/ DataError \/ CardFails
  BY <1>5, CommandLostBreaks, DataErrorBreaks, CardFailsBreaks
<1> QED
  BY <1>1, <1>2, <1>3, <1>4, <1>5, StutterBreaks DEF Next, Driver

(* A read breaks off, and the driver panics, only for a fault of its own   *)
(* time (real_read_block and the identification, sdhost_impl.cpp), for     *)
(* every card whose register tells its size: an error, a card that still   *)
(* sends or a stop command that a read or an image before left behind does *)
(* not disturb what comes after.                                           *)
(* Inductive: at each step of the identification the card is in the state  *)
(* that the next command needs, and then stays selected; and in an         *)
(* undisturbed read what the FIFO lacks is still to be sent.               *)
THEOREM AlwaysBreaksOnlyOnFault ==
  ASSUME RegistersTell
  PROVE  Spec => []BreaksOnlyOnFault
<1>1. Init => FaultInv
  BY InitBreaks
<1>2. IInv /\ FaultInv /\ [Next]_vars => FaultInv'
  BY RegistersTell, NextBreaks
<1>3. FaultInv => BreaksOnlyOnFault
  BY DEF FaultInv
<1> QED
  BY <1>1, <1>2, <1>3, SdHostInvariance, PTL DEF Spec

(* The size that the driver works out is the card's (identify_card,        *)
(* sdhost_impl.cpp), for every card whose register tells it: the CSD that  *)
(* is taken is never an answer that an image before, or a command before,  *)
(* has left in SH_RSP0..3.                                                 *)
THEOREM AlwaysKnowsSize ==
  ASSUME RegistersTell
  PROVE  Spec => []KnowsSize
<1>1. Init => FaultInv
  BY InitBreaks
<1>2. IInv /\ FaultInv /\ [Next]_vars => FaultInv'
  BY RegistersTell, NextBreaks
<1>3. FaultInv => KnowsSize
  BY DEF FaultInv, InRange
<1> QED
  BY <1>1, <1>2, <1>3, SdHostInvariance, PTL DEF Spec
=============================================================================
