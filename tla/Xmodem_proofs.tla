--------------------------- MODULE Xmodem_proofs ---------------------------
(***************************************************************************)
(* Proofs about the xmodem upload, for every file, modulus, buffer and     *)
(* line that XmodemAssumption allows.                                      *)
(*                                                                         *)
(* The last part is about the same upload byte by byte: XmodemLine's       *)
(* receiver implements BlockTransfer as well, because it stays in step     *)
(* with the packets (InStep).                                              *)
(***************************************************************************)
EXTENDS Xmodem, SequenceTheorems, TLAPS

-----------------------------------------------------------------------------
(* Arithmetic of block numbers. *)

(* A block number on the wire is one of the M numbers.                     *)
LEMMA ModRange ==
  ASSUME NEW m \in Nat, m > 0, NEW k \in Int
  PROVE  k % m \in 0..(m-1)
  OBVIOUS

(* Numbers that agree modulo m and are less than m apart are equal.        *)
LEMMA ModUnique ==
  ASSUME NEW m \in Nat, m > 0, NEW a \in Int, NEW b \in Int,
         a % m = b % m, a - b < m, b - a < m
  PROVE  a = b
<1>1. a = m * (a \div m) + (a % m)
  OBVIOUS
<1>2. b = m * (b \div m) + (b % m)
  OBVIOUS
<1> DEFINE d == (a \div m) - (b \div m)
<1>3. a \div m \in Int /\ b \div m \in Int
  OBVIOUS
<1>4. a - b = m * d /\ d \in Int
  BY <1>1, <1>2, <1>3
<1> HIDE DEF d
<1>5. d = 0
  <2>1. CASE d >= 1
    <3>1. m * d >= m
      BY <2>1, <1>4
    <3> QED
      BY <3>1, <1>4
  <2>2. CASE d <= -1
    <3>1. m * d <= -m
      BY <2>2, <1>4
    <3> QED
      BY <3>1, <1>4
  <2> QED
    BY <2>1, <2>2, <1>4
<1> QED
  BY <1>4, <1>5

-----------------------------------------------------------------------------
(* The two queues. *)

(* What the sender puts on the line is a frame, and a packet is sound.     *)
LEMMA FrameAtProperties ==
  ASSUME NEW k \in 1..(N+1)
  PROVE  /\ FrameAt(k) \in Frame
         /\ k <= N => /\ FrameAt(k).kind = "packet"
                      /\ FrameAt(k).data = k
                      /\ FrameAt(k).num = k % M
                      /\ Sound(FrameAt(k))
         /\ k > N => FrameAt(k).kind = "eot"
<1>1. k % M \in 0..(M-1)
  BY ModRange, XmodemAssumption
<1> QED
  BY <1>1, XmodemAssumption
  DEF FrameAt, Packet, EOT, Frame, Sound, ChecksumOk, InvertOk, Damaged

(* Elements of a queue after a message has joined it.                      *)
LEMMA Joined ==
  ASSUME NEW S, NEW q \in Seq(S), NEW e \in S
  PROVE  /\ Append(q, e) \in Seq(S)
         /\ Len(Append(q, e)) = Len(q) + 1
         /\ \A i \in 1..Len(q) : Append(q, e)[i] = q[i]
         /\ Append(q, e)[Len(q) + 1] = e
  BY AppendProperties

(* Elements of a queue after its head has left it.                         *)
LEMMA Left ==
  ASSUME NEW S, NEW q \in Seq(S), q # <<>>
  PROVE  /\ Tail(q) \in Seq(S)
         /\ Len(Tail(q)) = Len(q) - 1
         /\ Len(q) >= 1
         /\ Head(q) = q[1] /\ q[1] \in S
         /\ \A i \in 1..Len(Tail(q)) : Tail(q)[i] = q[i + 1]
<1>1. Len(q) \in Nat /\ Len(q) # 0
  BY EmptySeq, LenProperties
<1> QED
  BY <1>1, HeadTailProperties, ElementOfSeq

(* Lengths and elements of the two queues. *)
LEMMA QueueFacts ==
  ASSUME NEW S, NEW q \in Seq(S)
  PROVE  /\ Len(q) \in Nat
         /\ q = <<>> <=> Len(q) = 0
         /\ \A i \in 1..Len(q) : q[i] \in S
  BY LenProperties, EmptySeq, ElementOfSeq

-----------------------------------------------------------------------------
(* The parts of the invariant as conditions on values, so that what a step *)
(* does to them can be stated and proved without primes: F and A are the   *)
(* frames and replies on their way, s the sender's position, r the block   *)
(* that is due, p the receiver's phase and h whether the sender hurried.   *)

SoundFrame(f) == f.kind = "packet" /\ Sound(f)

InFlightOf(F, s, r) ==
  /\ \A i \in 1..Len(F) : SoundFrame(F[i]) =>
       /\ F[i].data \in 1..N
       /\ F[i].num = F[i].data % M
       /\ r - 1 <= F[i].data /\ F[i].data <= s
  /\ \A i, j \in 1..Len(F) :
       i < j /\ SoundFrame(F[i]) /\ SoundFrame(F[j]) => F[i].data <= F[j].data
  /\ \A i \in 1..Len(F) : F[i].kind = "eot" => s > N

WindowOf(F, A, s, r) ==
  /\ s - r <= 2 * LineCap
  /\ \A j \in 1..Len(A) : A[j] = ACK => s - r + j <= 2 * LineCap
  /\ \A i \in 1..Len(F) : SoundFrame(F[i]) => s - F[i].data + Len(A) + i <= 2 * LineCap

StopAndWaitOf(F, A, s, r, p, h) ==
  ~h =>
    /\ p = "receive" =>
         /\ Len(F) + Len(A) <= 1
         /\ s <= r
         /\ \A j \in 1..Len(A) : A[j] = ACK => r = s + 1
         /\ \A i \in 1..Len(F) : SoundFrame(F[i]) => F[i].data = s
    /\ p \in Past => r = N + 1
    /\ p \in Stopped => A = <<>>

QueuesOf(F, A) ==
  /\ F \in Seq(Frame) /\ Len(F) <= LineCap
  /\ A \in Seq({ACK, NAK}) /\ Len(A) <= LineCap

(* What a behaviour needs of the line from one step to the next. *)
LineOf(F, A, s, r) == QueuesOf(F, A) /\ InFlightOf(F, s, r) /\ WindowOf(F, A, s, r)

LEMMA InvariantOf ==
  /\ IInv <=> /\ TypeOK /\ Stored /\ Phases
              /\ InFlightOf(toBoard, sending, blockNr)
              /\ WindowOf(toBoard, toHost, sending, blockNr)
              /\ StopAndWaitOf(toBoard, toHost, sending, blockNr, pc, hurried)
  /\ IInv' <=> /\ TypeOK' /\ Stored' /\ Phases'
               /\ InFlightOf(toBoard', sending', blockNr')
               /\ WindowOf(toBoard', toHost', sending', blockNr')
               /\ StopAndWaitOf(toBoard', toHost', sending', blockNr', pc', hurried')
  BY DEF IInv, InFlight, InFlightOf, Window, WindowOf, StopAndWait, StopAndWaitOf,
         SoundPacket, SoundFrame, Sound, ChecksumOk, InvertOk

-----------------------------------------------------------------------------
(* The line, step by step. *)

(* What the sender does with the replies: it leaves them, or takes the one *)
(* at the head, and then it moves on only for an ACK or to start.          *)
Reads(A, s, A1, s1) ==
  \/ A1 = A /\ s1 = s
  \/ /\ A # <<>> /\ A1 = Tail(A)
     /\ \/ s1 = s
        \/ s = 0 /\ s1 = 1
        \/ A[1] = ACK /\ s1 = s + 1

LEMMA ReadsKeepsLine ==
  ASSUME NEW F, NEW A, NEW s \in Int, NEW r \in Int, r >= 1, LineOf(F, A, s, r),
         NEW A1, NEW s1 \in Int, Reads(A, s, A1, s1)
  PROVE  /\ LineOf(F, A1, s1, r)
         /\ s <= s1 /\ s1 <= s + 1 /\ Len(A1) \in 0..LineCap
<1> DEFINE L == LineCap
<1>1. F \in Seq(Frame) /\ Len(F) \in Nat /\ A \in Seq({ACK, NAK}) /\ Len(A) \in 0..L
  BY QueueFacts, XmodemAssumption DEF LineOf, QueuesOf
<1>2. L \in Nat /\ L >= 1 /\ N \in Nat
  BY XmodemAssumption
<1>3. CASE A1 = A /\ s1 = s
  BY <1>1, <1>2, <1>3
<1>4. CASE /\ A # <<>> /\ A1 = Tail(A)
           /\ \/ s1 = s
              \/ s = 0 /\ s1 = 1
              \/ A[1] = ACK /\ s1 = s + 1
  <2>1. /\ A1 \in Seq({ACK, NAK}) /\ Len(A1) = Len(A) - 1 /\ Len(A) >= 1
        /\ \A i \in 1..Len(A1) : A1[i] = A[i + 1]
    BY <1>1, <1>4, Left
  <2>2. s <= s1 /\ s1 <= s + 1
    BY <1>4
  <2>3. InFlightOf(F, s1, r)
    BY <1>1, <1>2, <2>2 DEF LineOf, InFlightOf
  <2>4. s1 - r <= 2 * L
    BY <1>1, <1>2, <1>4, <2>1 DEF LineOf, WindowOf
  <2>5. ASSUME NEW j \in 1..Len(A1), A1[j] = ACK
        PROVE  s1 - r + j <= 2 * L
    <3>1. j + 1 \in 1..Len(A) /\ A[j + 1] = ACK
      BY <1>1, <2>1, <2>5
    <3>2. s - r + (j + 1) <= 2 * L
      BY <3>1 DEF LineOf, WindowOf
    <3> QED
      BY <1>1, <1>2, <2>1, <2>2, <3>2
  <2>6. ASSUME NEW i \in 1..Len(F), SoundFrame(F[i])
        PROVE  s1 - F[i].data + Len(A1) + i <= 2 * L
    <3>1. s - F[i].data + Len(A) + i <= 2 * L /\ F[i].data \in 1..N
      BY <2>6 DEF LineOf, WindowOf, InFlightOf
    <3>2. PICK d \in Int, a \in Int, a1 \in Int, k \in Int :
            F[i].data = d /\ Len(A) = a /\ Len(A1) = a1 /\ i = k /\ a1 = a - 1
      BY <1>1, <1>2, <2>1, <3>1
    <3>3. s1 - d + a1 + k <= 2 * L
      BY <1>2, <2>2, <3>1, <3>2
    <3> QED
      BY <3>2, <3>3
  <2>7. WindowOf(F, A1, s1, r)
    BY <2>4, <2>5, <2>6 DEF WindowOf
  <2> QED
    BY <1>1, <1>2, <2>1, <2>2, <2>3, <2>7 DEF LineOf, QueuesOf
<1> QED
  BY <1>3, <1>4 DEF Reads

(* The sender puts the frame for its position on the line.                 *)
Joins(F, s, F1) == F1 = Append(F, FrameAt(s))

(* Every sound packet in F1 is one of F in its place or carries block s.   *)
Adds(F, s, F1) ==
  \A i \in 1..Len(F1) :
    (i \in 1..Len(F) /\ F1[i] = F[i]) \/ (SoundFrame(F1[i]) => F1[i].data = s)

LEMMA JoinKeepsLine ==
  ASSUME NEW F, NEW A, NEW s \in Int, s \in 1..(N+1), NEW r \in Int, LineOf(F, A, s, r),
         r - 1 <= s, Len(F) < LineCap, NEW F1, Joins(F, s, F1)
  PROVE  /\ LineOf(F1, A, s, r)
         /\ Len(F1) = Len(F) + 1 /\ Adds(F, s, F1)
<1> DEFINE L == LineCap
<1> DEFINE n == Len(F) + 1
<1>1. F \in Seq(Frame) /\ Len(F) \in Nat /\ A \in Seq({ACK, NAK}) /\ Len(A) \in 0..L
  BY QueueFacts, XmodemAssumption DEF LineOf, QueuesOf
<1>2. L \in Nat /\ L >= 1 /\ N \in Nat /\ s \in Int
  BY XmodemAssumption
<1>3. /\ F1 \in Seq(Frame) /\ Len(F1) = n /\ F1[n] = FrameAt(s)
      /\ \A i \in 1..Len(F) : F1[i] = F[i]
  BY <1>1, Joined, FrameAtProperties DEF Joins
<1>4. /\ n \in Int /\ n <= L
      /\ \A i \in 1..Len(F1) : i \in 1..Len(F) \/ i = n
      /\ \A i \in 1..Len(F) : i < n
  BY <1>1, <1>2, <1>3
<1>5. SoundFrame(F1[n]) => /\ s <= N /\ F1[n].data = s /\ F1[n].num = s % M
  BY <1>2, <1>3, FrameAtProperties DEF SoundFrame
<1>6. F1[n].kind = "eot" => s > N
  BY <1>2, <1>3, FrameAtProperties
<1> HIDE DEF n
<1>7. InFlightOf(F1, s, r)
  <2>1. ASSUME NEW i \in 1..Len(F1), SoundFrame(F1[i])
        PROVE  /\ F1[i].data \in 1..N
               /\ F1[i].num = F1[i].data % M
               /\ r - 1 <= F1[i].data /\ F1[i].data <= s
    <3>1. CASE i \in 1..Len(F)
      BY <1>3, <2>1, <3>1 DEF LineOf, InFlightOf
    <3>2. CASE i = n
      BY <1>2, <1>5, <2>1, <3>2
    <3> QED
      BY <1>4, <3>1, <3>2
  <2>2. ASSUME NEW i \in 1..Len(F1), NEW j \in 1..Len(F1),
               i < j, SoundFrame(F1[i]), SoundFrame(F1[j])
        PROVE  F1[i].data <= F1[j].data
    <3>1. i \in 1..Len(F)
      BY <1>1, <1>3, <2>2 DEF n
    <3>2. CASE j \in 1..Len(F)
      BY <1>3, <2>2, <3>1, <3>2 DEF LineOf, InFlightOf
    <3>3. CASE j = n
      BY <1>5, <2>1, <2>2, <3>3
    <3> QED
      BY <1>4, <3>2, <3>3
  <2>3. ASSUME NEW i \in 1..Len(F1), F1[i].kind = "eot"
        PROVE  s > N
    BY <1>3, <1>4, <1>6, <2>3 DEF LineOf, InFlightOf
  <2> QED
    BY <2>1, <2>2, <2>3 DEF InFlightOf
<1>8. WindowOf(F1, A, s, r)
  <2>1. ASSUME NEW i \in 1..Len(F1), SoundFrame(F1[i])
        PROVE  s - F1[i].data + Len(A) + i <= 2 * L
    <3>1. CASE i \in 1..Len(F)
      BY <1>3, <2>1, <3>1 DEF LineOf, WindowOf
    <3>2. CASE i = n
      <4>1. PICK a \in Int, k \in Int : Len(A) = a /\ a <= L /\ i = k /\ k <= L
        BY <1>1, <1>4, <3>2
      <4>2. s - s + a + k <= 2 * L
        BY <1>2, <4>1
      <4> QED
        BY <1>5, <2>1, <3>2, <4>1, <4>2
    <3> QED
      BY <1>4, <3>1, <3>2
  <2> QED
    BY <2>1 DEF LineOf, WindowOf
<1> QED
  <2>1. QueuesOf(F1, A)
    BY <1>3, <1>4 DEF LineOf, QueuesOf
  <2>2. Adds(F, s, F1)
    BY <1>3, <1>4, <1>5 DEF Adds
  <2> QED
    BY <1>3, <1>7, <1>8, <2>1, <2>2 DEF LineOf, n

(* The head of the line leaves it: the receiver takes it without an        *)
(* answer, or it is lost.                                                  *)
LEMMA TakeKeepsLine ==
  ASSUME NEW F, NEW A, NEW s \in Int, NEW r \in Int, LineOf(F, A, s, r),
         F # <<>>, NEW F1, F1 = Tail(F)
  PROVE  LineOf(F1, A, s, r)
<1> DEFINE L == LineCap
<1>1. F \in Seq(Frame) /\ Len(F) \in Nat /\ A \in Seq({ACK, NAK}) /\ Len(A) \in 0..L
  BY QueueFacts, XmodemAssumption DEF LineOf, QueuesOf
<1>2. /\ F1 \in Seq(Frame) /\ Len(F1) = Len(F) - 1 /\ Len(F) >= 1
      /\ \A i \in 1..Len(F1) : F1[i] = F[i + 1]
  BY <1>1, Left
<1>3. \A i \in 1..Len(F1) : i + 1 \in 1..Len(F)
  BY <1>1, <1>2
<1>4. InFlightOf(F1, s, r)
  <2>1. ASSUME NEW i \in 1..Len(F1), NEW j \in 1..Len(F1),
               i < j, SoundFrame(F1[i]), SoundFrame(F1[j])
        PROVE  F1[i].data <= F1[j].data
    <3>1. i + 1 < j + 1
      BY <1>1, <1>2, <2>1
    <3> QED
      BY <1>2, <1>3, <2>1, <3>1 DEF LineOf, InFlightOf
  <2> QED
    BY <1>2, <1>3, <2>1 DEF LineOf, InFlightOf
<1>5. ASSUME NEW i \in 1..Len(F1), SoundFrame(F1[i])
      PROVE  s - F1[i].data + Len(A) + i <= 2 * L
  <2>1. /\ s - F[i + 1].data + Len(A) + (i + 1) <= 2 * L /\ F[i + 1].data \in 1..N
        /\ F1[i].data = F[i + 1].data
    BY <1>2, <1>3, <1>5 DEF LineOf, WindowOf, InFlightOf
  <2>2. PICK d \in Int, a \in Int, k \in Int :
          F[i + 1].data = d /\ Len(A) = a /\ i = k
    BY <1>1, <1>2, <2>1, XmodemAssumption
  <2>3. s - d + a + k <= 2 * L
    BY <2>1, <2>2, XmodemAssumption
  <2> QED
    BY <2>1, <2>2, <2>3
<1> QED
  BY <1>1, <1>2, <1>4, <1>5, XmodemAssumption DEF LineOf, QueuesOf, WindowOf

(* The window makes the number of the packet at the head tell whether its  *)
(* block is the one that is due, or the one before.                        *)
LEMMA HeadNumber ==
  ASSUME NEW F, NEW A, NEW s \in Int, NEW r \in Nat, LineOf(F, A, s, r),
         F # <<>>, SoundFrame(F[1])
  PROVE  /\ F[1].data \in 1..N /\ r - 1 <= F[1].data /\ F[1].data <= s
         /\ F[1].num = r % M => F[1].data = r
         /\ F[1].num = (r - 1) % M => F[1].data = r - 1
<1>1. 1 \in 1..Len(F)
  BY QueueFacts DEF LineOf, QueuesOf
<1>2. /\ F[1].data \in 1..N /\ F[1].num = F[1].data % M
      /\ r - 1 <= F[1].data /\ F[1].data <= s
  BY <1>1 DEF LineOf, InFlightOf
<1>3. s - r <= 2 * LineCap
  BY DEF LineOf, WindowOf
<1>4. PICK d \in Int : d = F[1].data
  BY <1>2, XmodemAssumption
<1>5. /\ M \in Nat /\ M > 0 /\ d - r < M /\ r - d < M
      /\ d - (r - 1) < M /\ (r - 1) - d < M
  BY <1>2, <1>3, <1>4, XmodemAssumption
<1>6. d % M = r % M => d = r
  <2>1. r \in Int
    OBVIOUS
  <2> QED
    BY <1>5, <2>1, ModUnique
<1>7. d % M = (r - 1) % M => d = r - 1
  <2>1. r - 1 \in Int
    OBVIOUS
  <2> QED
    BY <1>5, <2>1, ModUnique
<1> QED
  BY <1>2, <1>4, <1>6, <1>7

(* The receiver takes the frame at the head and answers it.                *)
Answers(F, A, x, F1, A1) == F1 = Tail(F) /\ A1 = Append(A, x)

(* The answer x to frame f, when r is due before it and r1 after it.       *)
AnswerTo(f, x, r, r1) ==
  \/ x = NAK /\ r1 = r
  \/ x = ACK /\ r1 = r /\ SoundFrame(f) /\ f.data = r - 1
  \/ x = ACK /\ r1 = r + 1 /\ SoundFrame(f) /\ f.data = r

LEMMA AnswerKeepsLine ==
  ASSUME NEW F, NEW A, NEW s \in Int, NEW r \in Nat, LineOf(F, A, s, r),
         F # <<>>, Len(A) < LineCap, NEW F1, NEW x, NEW A1, Answers(F, A, x, F1, A1),
         NEW r1 \in Nat, AnswerTo(F[1], x, r, r1)
  PROVE  LineOf(F1, A1, s, r1) /\ Len(A1) = Len(A) + 1 /\ A1[Len(A) + 1] = x
<1> DEFINE L == LineCap
<1>0. /\ F1 = Tail(F) /\ A1 = Append(A, x)
      /\ \/ x = NAK /\ r1 = r
         \/ x = ACK /\ r1 = r /\ SoundFrame(F[1]) /\ F[1].data = r - 1
         \/ x = ACK /\ r1 = r + 1 /\ SoundFrame(F[1]) /\ F[1].data = r
  BY DEF Answers, AnswerTo
<1>1. F \in Seq(Frame) /\ Len(F) \in Nat /\ A \in Seq({ACK, NAK}) /\ Len(A) \in Nat
  BY QueueFacts, XmodemAssumption DEF LineOf, QueuesOf
<1>2. /\ F1 \in Seq(Frame) /\ Len(F1) = Len(F) - 1 /\ Len(F) >= 1
      /\ \A i \in 1..Len(F1) : F1[i] = F[i + 1] /\ i + 1 \in 1..Len(F)
  BY <1>0, <1>1, Left
<1>3. /\ A1 \in Seq({ACK, NAK}) /\ Len(A1) = Len(A) + 1 /\ A1[Len(A) + 1] = x
      /\ \A j \in 1..Len(A) : A1[j] = A[j]
  BY <1>0, <1>1, Joined
<1>4. LineOf(F1, A, s, r)
  <2>1. r \in Int
    OBVIOUS
  <2> QED
    BY <1>0, <2>1, TakeKeepsLine
<1>5. L \in Nat /\ L >= 1 /\ N \in Nat /\ r <= r1 /\ r1 <= r + 1
  BY <1>0, XmodemAssumption
<1>6. InFlightOf(F1, s, r1)
  <2>1. CASE r1 = r
    BY <1>4, <2>1 DEF LineOf
  <2>2. CASE r1 = r + 1 /\ SoundFrame(F[1]) /\ F[1].data = r
    <3>1. ASSUME NEW i \in 1..Len(F1), SoundFrame(F1[i])
          PROVE  r <= F1[i].data
      <4>1. 1 < i + 1 /\ 1 \in 1..Len(F)
        BY <1>1, <1>2
      <4> QED
        BY <1>2, <2>2, <3>1, <4>1 DEF LineOf, InFlightOf
    <3>2. r1 - 1 = r
      BY <2>2
    <3> QED
      BY <1>4, <3>1, <3>2 DEF LineOf, InFlightOf
  <2> QED
    BY <1>0, <2>1, <2>2
<1>7. ASSUME NEW i \in 1..Len(F1), SoundFrame(F1[i])
      PROVE  s - F1[i].data + Len(A1) + i <= 2 * L
  <2>1. /\ s - F[i + 1].data + Len(A) + (i + 1) <= 2 * L /\ F[i + 1].data \in 1..N
        /\ F1[i].data = F[i + 1].data
    BY <1>2, <1>7 DEF LineOf, WindowOf, InFlightOf
  <2>2. PICK d \in Int, a \in Int, k \in Int :
          F[i + 1].data = d /\ Len(A) = a /\ i = k
    BY <1>1, <1>2, <2>1, XmodemAssumption
  <2>3. s - d + (a + 1) + k <= 2 * L
    BY <2>1, <2>2, <1>5
  <2> QED
    BY <1>3, <2>1, <2>2, <2>3
<1>8. ASSUME NEW j \in 1..Len(A1), A1[j] = ACK
      PROVE  s - r1 + j <= 2 * L
  <2>1. CASE j \in 1..Len(A)
    <3>1. s - r + j <= 2 * L
      BY <1>3, <1>8, <2>1 DEF LineOf, WindowOf
    <3> QED
      BY <1>1, <1>5, <2>1, <3>1
  <2>2. CASE j = Len(A) + 1
    <3>1. x = ACK /\ SoundFrame(F[1]) /\ F[1].data <= r1
      BY <1>0, <1>3, <1>8, <2>2 DEF ACK, NAK
    <3>2. s - F[1].data + Len(A) + 1 <= 2 * L /\ F[1].data \in 1..N
      BY <1>1, <1>2, <3>1 DEF LineOf, WindowOf, InFlightOf
    <3>3. PICK d \in Int, a \in Int : F[1].data = d /\ Len(A) = a
      BY <1>1, <1>5, <3>2
    <3>4. s - r1 + (a + 1) <= 2 * L
      BY <1>5, <3>1, <3>2, <3>3
    <3> QED
      BY <2>2, <3>3, <3>4
  <2> QED
    BY <1>1, <1>3, <2>1, <2>2
<1>9. s - r1 <= 2 * L
  BY <1>5 DEF LineOf, WindowOf
<1>10. QueuesOf(F1, A1)
  BY <1>1, <1>2, <1>3, <1>5 DEF LineOf, QueuesOf
<1> QED
  BY <1>3, <1>6, <1>7, <1>8, <1>9, <1>10 DEF LineOf, WindowOf

(* Noise leaves the frame at the head unsound, and the others as they were. *)
Damages(F, f, F1) == F1 = [F EXCEPT ![1] = f]

(* No sound packet in F1 that is not in F in the same place.               *)
Spoils(F, F1) == \A i \in 1..Len(F1) : F1[i] = F[i] \/ ~SoundFrame(F1[i])

LEMMA DamageKeepsLine ==
  ASSUME NEW F, NEW A, NEW s \in Int, NEW r \in Int, LineOf(F, A, s, r),
         NEW f \in Frame, f.kind = "packet", ~SoundFrame(f), F # <<>>,
         NEW F1, Damages(F, f, F1)
  PROVE  /\ LineOf(F1, A, s, r) /\ Len(F1) = Len(F) /\ F1[1] = f
         /\ Spoils(F, F1)
<1>1. F \in Seq(Frame) /\ Len(F) \in Nat /\ 1 \in 1..Len(F)
  BY QueueFacts DEF LineOf, QueuesOf
<1>2. /\ F1 \in Seq(Frame) /\ Len(F1) = Len(F) /\ F1[1] = f
      /\ \A i \in 1..Len(F) : i # 1 => F1[i] = F[i]
  BY <1>1, ExceptSeq, LenProperties DEF Damages
<1>3. \A i \in 1..Len(F1) :  /\ F1[i] = F[i] \/ ~SoundFrame(F1[i])
                             /\ SoundFrame(F1[i]) => F1[i] = F[i]
                             /\ F1[i].kind = "eot" => F1[i] = F[i]
  BY <1>2
<1>4. InFlightOf(F1, s, r)
  <2>1. ASSUME NEW i \in 1..Len(F1), SoundFrame(F1[i])
        PROVE  F1[i] = F[i] /\ i \in 1..Len(F)
    BY <1>2, <1>3, <2>1
  <2> QED
    BY <1>2, <1>3, <2>1 DEF LineOf, InFlightOf
<1>5. WindowOf(F1, A, s, r)
  BY <1>2, <1>3 DEF LineOf, WindowOf
<1> QED
  BY <1>2, <1>3, <1>4, <1>5 DEF LineOf, QueuesOf, Spoils

-----------------------------------------------------------------------------
(* The invariant: the initial state, then the actions one by one.          *)

LEMMA InitIInv == Init => IInv
<1> SUFFICES ASSUME Init PROVE IInv
  OBVIOUS
<1>1. /\ Len(toBoard) = 0 /\ Len(toHost) = 0
      /\ toBoard \in Seq(Frame) /\ toHost \in Seq({ACK, NAK})
  BY EmptySeq DEF Init
<1>2. TypeOK
  <2>1. sending \in 0..(N+2) /\ blockNr \in 1..(N+1) /\ imageLen \in 0..(N+1)
    BY XmodemAssumption DEF Init
  <2>2. capacity \in Capacities /\ buffer \in [1..capacity -> 0..N] /\ faults \in 0..MaxFaults
    BY XmodemAssumption DEF Init
  <2>3. pc = "prompt" /\ hurried \in BOOLEAN
    BY DEF Init
  <2>4. Len(toBoard) <= LineCap /\ Len(toHost) <= LineCap
    BY <1>1, XmodemAssumption
  <2> QED
    BY <1>1, <2>1, <2>2, <2>3, <2>4 DEF TypeOK
<1>3. InFlight /\ Window /\ StopAndWait /\ Stored /\ Phases
  BY <1>1, XmodemAssumption
  DEF Init, InFlight, Window, StopAndWait, Stored, Phases, Quiet, Past, Stopped
<1> QED
  BY <1>2, <1>3 DEF IInv

(* What the invariant gives to each of the lemmas about the line.          *)
LEMMA IInvFacts ==
  ASSUME IInv
  PROVE  /\ LineOf(toBoard, toHost, sending, blockNr)
         /\ StopAndWaitOf(toBoard, toHost, sending, blockNr, pc, hurried)
         /\ TypeOK /\ Stored /\ Phases
         /\ sending \in 0..(N+2) /\ sending \in Int
         /\ blockNr \in 1..(N+1) /\ blockNr \in Nat /\ blockNr >= 1 /\ blockNr <= sending + 1
         /\ N \in Nat /\ N >= 1 /\ LineCap \in Nat /\ LineCap >= 1
         /\ capacity \in Nat /\ blockNr <= capacity + 1
         /\ Len(toBoard) \in Nat /\ Len(toHost) \in Nat
         /\ toBoard = <<>> <=> Len(toBoard) = 0
         /\ toHost = <<>> <=> Len(toHost) = 0
<1>1. TypeOK /\ Stored /\ Phases
  BY DEF IInv
<1>2. QueuesOf(toBoard, toHost)
  BY <1>1 DEF TypeOK, QueuesOf
<1>3. LineOf(toBoard, toHost, sending, blockNr)
  BY <1>2, InvariantOf DEF LineOf
<1>4. StopAndWaitOf(toBoard, toHost, sending, blockNr, pc, hurried)
  BY InvariantOf
<1>5. /\ Len(toBoard) \in Nat /\ Len(toHost) \in Nat
      /\ toBoard = <<>> <=> Len(toBoard) = 0
      /\ toHost = <<>> <=> Len(toHost) = 0
  BY <1>2, QueueFacts DEF QueuesOf
<1>6. /\ sending \in 0..(N+2) /\ sending \in Int
      /\ blockNr \in 1..(N+1) /\ blockNr \in Nat /\ blockNr >= 1 /\ blockNr <= sending + 1
      /\ N \in Nat /\ N >= 1 /\ LineCap \in Nat /\ LineCap >= 1
      /\ capacity \in Nat /\ blockNr <= capacity + 1
  BY <1>1, XmodemAssumption DEF TypeOK, Phases
<1> QED
  BY <1>1, <1>3, <1>4, <1>5, <1>6

(* A step that leaves the receiver alone keeps the invariant when it keeps *)
(* the line and the agreement of a patient sender with the receiver.       *)
LEMMA OutsideKeepsIInv ==
  ASSUME IInv, UNCHANGED receiverVars, pc # "prompt",
         NEW s1 \in 0..(N+2), sending' = s1, sending <= s1,
         LineOf(toBoard', toHost', s1, blockNr),
         StopAndWaitOf(toBoard', toHost', s1, blockNr, pc, hurried'),
         faults' \in 0..MaxFaults, hurried' \in BOOLEAN
  PROVE  IInv'
<1>1. /\ pc' = pc /\ blockNr' = blockNr /\ buffer' = buffer /\ imageLen' = imageLen
      /\ capacity' = capacity
      /\ TypeOK /\ Stored /\ Phases
  BY DEF receiverVars, IInv
<1>2. TypeOK'
  BY <1>1 DEF TypeOK, LineOf, QueuesOf
<1>3. Stored'
  BY <1>1 DEF Stored
<1>4. blockNr <= s1 + 1 /\ blockNr <= capacity + 1
  BY <1>1, IInvFacts
<1>5. Phases'
  BY <1>1, <1>4 DEF Phases
<1> QED
  BY <1>1, <1>2, <1>3, <1>5, InvariantOf DEF LineOf

(* A step of the sender that transmits.                                    *)
LEMMA TransmitKeepsIInv ==
  ASSUME IInv, UNCHANGED receiverVars, pc # "prompt", Len(toBoard) < LineCap,
         NEW s1 \in 1..(N+1), sending' = s1, Reads(toHost, sending, toHost', s1),
         Transmit(s1),
         faults' \in 0..MaxFaults, hurried' \in BOOLEAN,
         ~hurried' => /\ ~hurried
                      /\ pc = "receive" => toBoard = <<>> /\ toHost' = <<>> /\ s1 <= blockNr
                      /\ pc \in Stopped => toHost' = toHost
  PROVE  IInv'
<1>1. s1 \in Int /\ s1 \in 0..(N+2) /\ blockNr \in Int
  BY IInvFacts
<1>2. LineOf(toBoard, toHost', s1, blockNr) /\ sending <= s1
  BY <1>1, IInvFacts, ReadsKeepsLine
<1>3. blockNr - 1 <= s1
  BY <1>1, <1>2, IInvFacts
<1>4. /\ LineOf(toBoard', toHost', s1, blockNr)
      /\ Len(toBoard') = Len(toBoard) + 1 /\ Adds(toBoard, s1, toBoard')
  <2>1. Joins(toBoard, s1, toBoard')
    BY DEF Transmit, Joins
  <2>2. s1 \in Int /\ blockNr \in Int
    BY <1>1
  <2> QED
    BY <1>2, <1>3, <2>1, <2>2, JoinKeepsLine
<1>5. StopAndWaitOf(toBoard', toHost', s1, blockNr, pc, hurried')
  <2>1. ASSUME ~hurried', pc = "receive"
        PROVE  /\ Len(toBoard') + Len(toHost') <= 1
               /\ s1 <= blockNr
               /\ \A j \in 1..Len(toHost') : toHost'[j] = ACK => blockNr = s1 + 1
               /\ \A i \in 1..Len(toBoard') : SoundFrame(toBoard'[i]) => toBoard'[i].data = s1
    <3>1. toBoard = <<>> /\ toHost' = <<>> /\ s1 <= blockNr
      BY <2>1
    <3>2. Len(toBoard) = 0 /\ Len(toHost') = 0 /\ Len(toBoard') = 1
      BY <1>4, <3>1, IInvFacts
    <3> QED
      BY <1>4, <3>1, <3>2 DEF Adds
  <2>2. ASSUME ~hurried', pc \in Stopped
        PROVE  (pc \in Past => blockNr = N + 1) /\ toHost' = <<>>
    BY <2>2, IInvFacts DEF StopAndWaitOf
  <2> QED
    BY <2>1, <2>2 DEF StopAndWaitOf, Stopped
<1> QED
  BY <1>1, <1>2, <1>4, <1>5, OutsideKeepsIInv

(* A reply on its way: where it finds stage1, and what else is on the line *)
(* of a patient sender.                                                    *)
LEMMA ReplyOnItsWay ==
  ASSUME IInv, toHost # <<>>
  PROVE  /\ pc # "prompt"
         /\ ~hurried => /\ pc \notin Stopped
                        /\ pc = "receive" => /\ toBoard = <<>> /\ Tail(toHost) = <<>>
                                             /\ sending <= blockNr
                                             /\ toHost[1] = ACK => blockNr = sending + 1
<1>1. pc # "prompt"
  BY IInvFacts DEF Phases, Quiet
<1>2. ASSUME ~hurried
      PROVE pc \notin Stopped
  BY <1>2, IInvFacts DEF StopAndWaitOf
<1>3. ASSUME ~hurried, pc = "receive"
      PROVE  /\ toBoard = <<>> /\ Tail(toHost) = <<>>
             /\ sending <= blockNr
             /\ toHost[1] = ACK => blockNr = sending + 1
  <2>1. /\ Len(toBoard) + Len(toHost) <= 1 /\ sending <= blockNr
        /\ \A j \in 1..Len(toHost) : toHost[j] = ACK => blockNr = sending + 1
    BY <1>3, IInvFacts DEF StopAndWaitOf
  <2>2. Len(toBoard) = 0 /\ Len(toHost) = 1
    <3>1. Len(toBoard) \in Nat /\ Len(toHost) \in Nat /\ Len(toHost) # 0
      BY IInvFacts
    <3>2. PICK a \in Nat, b \in Nat : Len(toBoard) = a /\ Len(toHost) = b
      BY <3>1
    <3>3. a + b <= 1 /\ b # 0
      BY <2>1, <3>1, <3>2
    <3> QED
      BY <3>2, <3>3
  <2>3. toHost \in Seq({ACK, NAK})
    BY IInvFacts DEF LineOf, QueuesOf
  <2>4. Len(Tail(toHost)) = 0 /\ Tail(toHost) \in Seq({ACK, NAK})
    BY <2>2, <2>3, Left
  <2>5. Tail(toHost) = <<>>
    BY <2>4, QueueFacts
  <2>6. 1 \in 1..Len(toHost)
    BY <2>2
  <2> QED
    BY <2>1, <2>2, <2>5, <2>6, IInvFacts
<1> QED
  BY <1>1, <1>2, <1>3

LEMMA HeadOfHost ==
  ASSUME IInv, toHost # <<>>
  PROVE  Head(toHost) = toHost[1]
<1>1. toHost \in Seq({ACK, NAK})
  BY IInvFacts DEF LineOf, QueuesOf
<1> QED
  BY <1>1, Left

LEMMA SenderNakKeepsIInv == ASSUME IInv, SenderNak PROVE IInv'
<1>1. /\ toHost # <<>> /\ toHost' = Tail(toHost)
      /\ UNCHANGED <<receiverVars, faults, hurried>>
      /\ Len(toBoard) < LineCap
  BY DEF SenderNak, SenderReply
<1>2. PICK s1 \in Int : s1 = IF sending = 0 THEN 1 ELSE sending
  BY IInvFacts
<1>3. s1 \in 1..(N+1) /\ (s1 = sending \/ (sending = 0 /\ s1 = 1))
  BY <1>2, IInvFacts DEF SenderNak
<1>4. sending' = s1 /\ Transmit(s1)
  BY <1>2 DEF SenderNak, Transmit
<1>5. Reads(toHost, sending, toHost', s1)
  BY <1>1, <1>3 DEF Reads
<1>6. faults' \in 0..MaxFaults /\ hurried' \in BOOLEAN
  BY <1>1, IInvFacts DEF TypeOK
<1>7. pc # "prompt"
  BY <1>1, ReplyOnItsWay
<1>8. ~hurried' => /\ ~hurried
                   /\ pc = "receive" => toBoard = <<>> /\ toHost' = <<>> /\ s1 <= blockNr
                   /\ pc \in Stopped => toHost' = toHost
  <2>1. sending <= blockNr => s1 <= blockNr
    BY <1>3, IInvFacts
  <2> QED
    BY <1>1, <2>1, ReplyOnItsWay
<1>9. UNCHANGED receiverVars
  BY <1>1 DEF receiverVars
<1> QED
  BY <1>1, <1>3, <1>4, <1>5, <1>6, <1>7, <1>8, <1>9, TransmitKeepsIInv

LEMMA SenderAckKeepsIInv == ASSUME IInv, SenderAck PROVE IInv'
<1>1. /\ toHost # <<>> /\ toHost' = Tail(toHost) /\ toHost[1] = ACK
      /\ UNCHANGED <<receiverVars, faults, hurried>>
      /\ Len(toBoard) < LineCap
  BY HeadOfHost DEF SenderAck, SenderReply
<1>2. PICK s1 \in Int : s1 = sending + 1
  BY IInvFacts
<1>3. s1 \in 1..(N+1)
  BY <1>2, IInvFacts DEF SenderAck
<1>4. sending' = s1 /\ Transmit(s1)
  BY <1>2 DEF SenderAck, Transmit
<1>5. Reads(toHost, sending, toHost', s1)
  BY <1>1, <1>2 DEF Reads
<1>6. faults' \in 0..MaxFaults /\ hurried' \in BOOLEAN
  BY <1>1, IInvFacts DEF TypeOK
<1>7. pc # "prompt"
  BY <1>1, ReplyOnItsWay
<1>8. ~hurried' => /\ ~hurried
                   /\ pc = "receive" => toBoard = <<>> /\ toHost' = <<>> /\ s1 <= blockNr
                   /\ pc \in Stopped => toHost' = toHost
  <2>1. blockNr = sending + 1 => s1 <= blockNr
    BY <1>2, IInvFacts
  <2> QED
    BY <1>1, <2>1, ReplyOnItsWay
<1>9. UNCHANGED receiverVars
  BY <1>1 DEF receiverVars
<1> QED
  BY <1>1, <1>3, <1>4, <1>5, <1>6, <1>7, <1>8, <1>9, TransmitKeepsIInv

LEMMA SenderTimeoutKeepsIInv == ASSUME IInv, SenderTimeout PROVE IInv'
<1>1. /\ toHost' = toHost /\ UNCHANGED <<receiverVars, faults, hurried>>
      /\ toBoard = <<>> /\ toHost = <<>> /\ sending' = sending
  BY DEF SenderTimeout, senderVars, Quiet
<1>2. PICK s1 \in Int : s1 = sending
  BY IInvFacts
<1>3. s1 \in 1..(N+1)
  BY <1>2 DEF SenderTimeout
<1>4. sending' = s1 /\ Transmit(s1)
  BY <1>1, <1>2 DEF SenderTimeout, Transmit
<1>5. Reads(toHost, sending, toHost', s1)
  BY <1>1, <1>2 DEF Reads
<1>6. faults' \in 0..MaxFaults /\ hurried' \in BOOLEAN
  BY <1>1, IInvFacts DEF TypeOK
<1>7. pc # "prompt"
  BY <1>2, <1>3, IInvFacts DEF Phases
<1>8. Len(toBoard) < LineCap
  BY <1>1, IInvFacts
<1>9. ~hurried' => /\ ~hurried
                   /\ pc = "receive" => toBoard = <<>> /\ toHost' = <<>> /\ s1 <= blockNr
                   /\ pc \in Stopped => toHost' = toHost
  BY <1>1, <1>2, IInvFacts DEF StopAndWaitOf
<1>10. UNCHANGED receiverVars
  BY <1>1 DEF receiverVars
<1> QED
  BY <1>3, <1>4, <1>5, <1>6, <1>7, <1>8, <1>9, <1>10, TransmitKeepsIInv

LEMMA SenderHurryKeepsIInv == ASSUME IInv, SenderHurry PROVE IInv'
<1>1. /\ toHost' = toHost /\ UNCHANGED receiverVars
      /\ sending' = sending /\ Len(toBoard) < LineCap
      /\ hurried' = (hurried \/ pc = "receive")
  BY DEF SenderHurry, senderVars
<1>2. PICK s1 \in Int : s1 = sending
  BY IInvFacts
<1>3. s1 \in 1..(N+1)
  BY <1>2 DEF SenderHurry
<1>4. sending' = s1 /\ Transmit(s1)
  BY <1>1, <1>2 DEF SenderHurry, Transmit
<1>5. Reads(toHost, sending, toHost', s1)
  BY <1>1, <1>2 DEF Reads
<1>6. hurried \in BOOLEAN /\ faults \in 0..MaxFaults
  BY IInvFacts DEF TypeOK
<1>7. hurried' \in BOOLEAN
  BY <1>1, <1>6
<1>8. faults' \in 0..MaxFaults
  BY <1>6, XmodemAssumption DEF SenderHurry
<1>9. pc # "prompt"
  BY <1>2, <1>3, IInvFacts DEF Phases
<1>10. ~hurried' => /\ ~hurried
                    /\ pc = "receive" => toBoard = <<>> /\ toHost' = <<>> /\ s1 <= blockNr
                    /\ pc \in Stopped => toHost' = toHost
  BY <1>1
<1> QED
  BY <1>1, <1>3, <1>4, <1>5, <1>7, <1>8, <1>9, <1>10, TransmitKeepsIInv

LEMMA SenderDoneKeepsIInv == ASSUME IInv, SenderDone PROVE IInv'
<1>1. /\ toHost # <<>> /\ toHost' = Tail(toHost) /\ toBoard' = toBoard
      /\ UNCHANGED <<receiverVars, faults, hurried>>
      /\ (sending = N + 1 /\ toHost[1] = ACK) \/ sending = N + 2
  BY HeadOfHost DEF SenderDone
<1>2. PICK s1 \in Int : s1 = N + 2
  BY IInvFacts
<1>3. sending' = s1 /\ s1 \in 0..(N+2) /\ sending <= s1
  BY <1>2, IInvFacts DEF SenderDone
<1>4. Reads(toHost, sending, toHost', s1)
  BY <1>1, <1>2, IInvFacts DEF Reads
<1>5. LineOf(toBoard, toHost', s1, blockNr)
  BY <1>2, <1>4, IInvFacts, ReadsKeepsLine
<1>6. pc # "prompt" /\ (~hurried => pc \notin Stopped)
  BY <1>1, ReplyOnItsWay
<1>7. ~hurried => pc # "receive"
  <2>1. SUFFICES ASSUME ~hurried, pc = "receive" PROVE FALSE
    OBVIOUS
  <2>2. sending <= blockNr /\ (toHost[1] = ACK => blockNr = sending + 1)
    BY <1>1, <2>1, ReplyOnItsWay
  <2>3. sending \in Int /\ blockNr \in 1..(N+1) /\ N \in Nat
    BY IInvFacts
  <2> QED
    BY <1>1, <2>2, <2>3
<1>8. StopAndWaitOf(toBoard, toHost', s1, blockNr, pc, hurried)
  BY <1>6, <1>7 DEF StopAndWaitOf, Stopped
<1>9. faults' \in 0..MaxFaults /\ hurried' \in BOOLEAN /\ hurried' = hurried
  BY <1>1, IInvFacts DEF TypeOK
<1>10. UNCHANGED receiverVars
  BY <1>1 DEF receiverVars
<1> QED
  BY <1>1, <1>3, <1>5, <1>6, <1>8, <1>9, <1>10, OutsideKeepsIInv

LEMMA FaultKeepsType == ASSUME TypeOK, Fault PROVE faults' \in 0..MaxFaults
  BY XmodemAssumption DEF TypeOK, Fault

LEMMA LoseReplyKeepsIInv == ASSUME IInv, LoseReply PROVE IInv'
<1>1. /\ toHost # <<>> /\ toHost' = Tail(toHost) /\ toBoard' = toBoard
      /\ UNCHANGED receiverVars /\ sending' = sending /\ hurried' = hurried
  BY DEF LoseReply, senderVars
<1>2. PICK s1 \in Int : s1 = sending
  BY IInvFacts
<1>3. sending' = s1 /\ s1 \in 0..(N+2) /\ sending <= s1
  BY <1>1, <1>2, IInvFacts
<1>4. Reads(toHost, sending, toHost', s1)
  BY <1>1, <1>2 DEF Reads
<1>5. LineOf(toBoard, toHost', s1, blockNr)
  BY <1>2, <1>4, IInvFacts, ReadsKeepsLine
<1>6. StopAndWaitOf(toBoard', toHost', s1, blockNr, pc, hurried)
  <2>1. ASSUME ~hurried, pc = "receive"
        PROVE  /\ toBoard' = <<>> /\ toHost' = <<>> /\ s1 <= blockNr
               /\ Len(toBoard') = 0 /\ Len(toHost') = 0
    BY <1>1, <1>2, <2>1, ReplyOnItsWay, EmptySeq
  <2>2. ~hurried => pc \notin Stopped
    BY <1>1, ReplyOnItsWay
  <2> QED
    BY <2>1, <2>2 DEF StopAndWaitOf, Stopped
<1>7. faults' \in 0..MaxFaults /\ hurried' \in BOOLEAN /\ pc # "prompt"
  BY <1>1, IInvFacts, FaultKeepsType, ReplyOnItsWay DEF TypeOK, LoseReply
<1> QED
  BY <1>1, <1>3, <1>5, <1>6, <1>7, OutsideKeepsIInv

(* A frame on its way: stage1 has entered xmodem_receive.                  *)
LEMMA FrameOnItsWay ==
  ASSUME IInv, toBoard # <<>>
  PROVE  /\ pc # "prompt"
         /\ toBoard \in Seq(Frame) /\ Head(toBoard) = toBoard[1]
         /\ toBoard[1] \in Frame /\ 1 \in 1..Len(toBoard)
<1>1. pc # "prompt"
  BY IInvFacts DEF Phases, Quiet
<1>2. toBoard \in Seq(Frame)
  BY IInvFacts DEF LineOf, QueuesOf
<1> QED
  BY <1>1, <1>2, Left, QueueFacts

(* Losing the frame at the head keeps a patient sender's agreement with    *)
(* the receiver, and so does the receiver that takes it at the EOT.        *)
LEMMA TakeKeepsStopAndWait ==
  ASSUME IInv, toBoard # <<>>, NEW F1, F1 = Tail(toBoard)
  PROVE  StopAndWaitOf(F1, toHost, sending, blockNr, pc, hurried)
<1>1. StopAndWaitOf(toBoard, toHost, sending, blockNr, pc, hurried)
  BY IInvFacts
<1>2. /\ Len(F1) = Len(toBoard) - 1
      /\ \A i \in 1..Len(F1) : F1[i] = toBoard[i + 1] /\ i + 1 \in 1..Len(toBoard)
      /\ Len(toBoard) \in Nat /\ Len(toHost) \in Nat
  BY FrameOnItsWay, Left, IInvFacts
<1>3. ASSUME ~hurried, pc = "receive"
      PROVE  /\ Len(F1) + Len(toHost) <= 1
             /\ \A i \in 1..Len(F1) : SoundFrame(F1[i]) => F1[i].data = sending
  <2>1. /\ Len(toBoard) + Len(toHost) <= 1
        /\ \A i \in 1..Len(toBoard) : SoundFrame(toBoard[i]) => toBoard[i].data = sending
    BY <1>1, <1>3 DEF StopAndWaitOf
  <2>2. Len(F1) + Len(toHost) <= 1
    BY <1>2, <2>1
  <2> QED
    BY <1>2, <2>1, <2>2
<1> QED
  BY <1>1, <1>3 DEF StopAndWaitOf

LEMMA LoseFrameKeepsIInv == ASSUME IInv, LoseFrame PROVE IInv'
<1>1. /\ toBoard # <<>> /\ toBoard' = Tail(toBoard) /\ toHost' = toHost
      /\ UNCHANGED receiverVars /\ sending' = sending /\ hurried' = hurried
  BY DEF LoseFrame, senderVars
<1>2. PICK s1 \in Int : s1 = sending
  BY IInvFacts
<1>3. sending' = s1 /\ s1 \in 0..(N+2) /\ sending <= s1
  BY <1>1, <1>2, IInvFacts
<1>4. blockNr \in Int
  BY IInvFacts
<1>5. LineOf(toBoard', toHost', s1, blockNr)
  BY <1>1, <1>2, <1>4, IInvFacts, TakeKeepsLine
<1>6. StopAndWaitOf(toBoard', toHost', s1, blockNr, pc, hurried')
  BY <1>1, <1>2, TakeKeepsStopAndWait
<1>7. faults' \in 0..MaxFaults /\ hurried' \in BOOLEAN /\ pc # "prompt"
  BY <1>1, IInvFacts, FaultKeepsType, FrameOnItsWay DEF TypeOK, LoseFrame
<1> QED
  BY <1>1, <1>3, <1>5, <1>6, <1>7, OutsideKeepsIInv

LEMMA DamageFieldKeepsIInv == ASSUME IInv, DamageField PROVE IInv'
<1> DEFINE p == toBoard[1]
<1>1. /\ toBoard # <<>> /\ toHost' = toHost /\ UNCHANGED receiverVars
      /\ sending' = sending /\ hurried' = hurried
  BY DEF DamageField, senderVars
<1>2. p \in Frame /\ p.kind = "packet" /\ Sound(p) /\ 1 \in 1..Len(toBoard)
  BY <1>1, FrameOnItsWay DEF DamageField
<1>3. p.data \in 1..N /\ M \in Nat /\ N \in Nat
  BY <1>2, IInvFacts, XmodemAssumption DEF LineOf, InFlightOf, SoundFrame
<1>4. PICK f \in Frame : /\ f.kind = "packet" /\ ~SoundFrame(f)
                         /\ Damages(toBoard, f, toBoard')
  <2>1. CASE toBoard' = [toBoard EXCEPT ![1].data = Damaged]
    <3>1. toBoard' = [toBoard EXCEPT ![1] = [p EXCEPT !.data = Damaged]]
      BY <2>1
    <3>2. [p EXCEPT !.data = Damaged] \in Frame
      BY <1>2, <1>3 DEF Frame, Damaged
    <3>3. ~SoundFrame([p EXCEPT !.data = Damaged])
      BY <1>2, <1>3 DEF Frame, SoundFrame, Sound, ChecksumOk, Damaged
    <3>4. [p EXCEPT !.data = Damaged].kind = "packet"
      BY <1>2 DEF Frame
    <3> QED
      BY <3>1, <3>2, <3>3, <3>4 DEF Damages
  <2>2. ASSUME NEW n \in (0..(M-1)) \ {p.num}, toBoard' = [toBoard EXCEPT ![1].num = n]
        PROVE  \E f \in Frame : /\ f.kind = "packet" /\ ~SoundFrame(f)
                                /\ Damages(toBoard, f, toBoard')
    <3>1. toBoard' = [toBoard EXCEPT ![1] = [p EXCEPT !.num = n]]
      BY <2>2
    <3>2. [p EXCEPT !.num = n] \in Frame
      BY <1>2, <1>3 DEF Frame
    <3>3. ~SoundFrame([p EXCEPT !.num = n])
      BY <1>2, <1>3 DEF Frame, SoundFrame, Sound, InvertOk
    <3>4. [p EXCEPT !.num = n].kind = "packet"
      BY <1>2 DEF Frame
    <3> QED
      BY <3>1, <3>2, <3>3, <3>4 DEF Damages
  <2>3. ASSUME NEW n \in (0..(M-1)) \ {p.inv}, toBoard' = [toBoard EXCEPT ![1].inv = n]
        PROVE  \E f \in Frame : /\ f.kind = "packet" /\ ~SoundFrame(f)
                                /\ Damages(toBoard, f, toBoard')
    <3>1. toBoard' = [toBoard EXCEPT ![1] = [p EXCEPT !.inv = n]]
      BY <2>3
    <3>2. [p EXCEPT !.inv = n] \in Frame
      BY <1>2, <1>3 DEF Frame
    <3>3. ~SoundFrame([p EXCEPT !.inv = n])
      BY <1>2, <1>3 DEF Frame, SoundFrame, Sound, InvertOk
    <3>4. [p EXCEPT !.inv = n].kind = "packet"
      BY <1>2 DEF Frame
    <3> QED
      BY <3>1, <3>2, <3>3, <3>4 DEF Damages
  <2> QED
    BY <2>1, <2>2, <2>3 DEF DamageField
<1>5. PICK s1 \in Int : s1 = sending
  BY IInvFacts
<1>6. sending' = s1 /\ s1 \in 0..(N+2) /\ sending <= s1 /\ blockNr \in Int
  BY <1>1, <1>5, IInvFacts
<1>7. /\ LineOf(toBoard', toHost', s1, blockNr) /\ Len(toBoard') = Len(toBoard)
      /\ Spoils(toBoard, toBoard')
  BY <1>1, <1>4, <1>5, <1>6, IInvFacts, DamageKeepsLine
<1>8. StopAndWaitOf(toBoard', toHost', s1, blockNr, pc, hurried')
  BY <1>1, <1>5, <1>7, IInvFacts DEF StopAndWaitOf, Spoils
<1>9. faults' \in 0..MaxFaults /\ hurried' \in BOOLEAN /\ pc # "prompt"
  BY <1>1, IInvFacts, FaultKeepsType, FrameOnItsWay DEF TypeOK, DamageField
<1> QED
  BY <1>1, <1>6, <1>7, <1>8, <1>9, OutsideKeepsIInv

-----------------------------------------------------------------------------
(* The receiver. *)

(* The receiver takes the frame at the head and answers x; r1 is the block *)
(* that is due then.                                                       *)
LEMMA AnswerKeepsIInv ==
  ASSUME IInv, ReceiveFrame, NEW x, Reply(x),
         NEW r1 \in Nat, blockNr' = r1, AnswerTo(toBoard[1], x, blockNr, r1),
         sending' = sending, pc' = pc, imageLen' = imageLen,
         faults' = faults, hurried' = hurried,
         capacity' = capacity, r1 <= capacity + 1,
         buffer' \in [1..capacity -> 0..N], \A b \in 1..(r1 - 1) : buffer'[b] = b
  PROVE  IInv'
<1>1. /\ pc = "receive" /\ toBoard # <<>> /\ toBoard' = Tail(toBoard)
      /\ Len(toHost) < LineCap /\ Answers(toBoard, toHost, x, toBoard', toHost')
  BY DEF ReceiveFrame, Reply, Answers
<1>2. toBoard[1] \in Frame /\ 1 \in 1..Len(toBoard)
  BY <1>1, FrameOnItsWay
<1>3. PICK r \in Nat, s \in Int : r = blockNr /\ s = sending
  BY IInvFacts
<1>4. r >= 1 /\ r <= N + 1 /\ r <= s + 1 /\ s \in 0..(N+2) /\ N \in Nat
  BY <1>3, IInvFacts
<1>5. /\ LineOf(toBoard', toHost', s, r1)
      /\ Len(toHost') = Len(toHost) + 1 /\ toHost'[Len(toHost) + 1] = x
  BY <1>1, <1>3, IInvFacts, AnswerKeepsLine
<1>6. SoundFrame(toBoard[1]) => toBoard[1].data \in 1..N /\ toBoard[1].data <= s
  BY <1>1, <1>3, IInvFacts, HeadNumber
<1>7. r1 \in 1..(N+1) /\ r1 <= s + 1 /\ r <= r1
  BY <1>3, <1>4, <1>6 DEF AnswerTo
<1>8. TypeOK'
  BY <1>3, <1>4, <1>5, <1>7, IInvFacts DEF TypeOK, LineOf, QueuesOf
<1>9. Stored'
  BY DEF Stored
<1>10. Phases'
  BY <1>1, <1>3, <1>7, IInvFacts DEF Phases, Past
<1>11. StopAndWaitOf(toBoard', toHost', s, r1, pc, hurried)
  <2>1. ASSUME ~hurried
        PROVE  /\ Len(toBoard') + Len(toHost') <= 1
               /\ s <= r1
               /\ \A j \in 1..Len(toHost') : toHost'[j] = ACK => r1 = s + 1
               /\ \A i \in 1..Len(toBoard') : SoundFrame(toBoard'[i]) => toBoard'[i].data = s
    <3>1. /\ Len(toBoard) + Len(toHost) <= 1 /\ s <= r
          /\ SoundFrame(toBoard[1]) => toBoard[1].data = s
      BY <1>1, <1>2, <1>3, <2>1, IInvFacts DEF StopAndWaitOf
    <3>2. /\ Len(toBoard) \in Nat /\ Len(toHost) \in Nat /\ Len(toBoard) # 0
          /\ Len(toBoard') = Len(toBoard) - 1
      BY <1>1, IInvFacts, Left, FrameOnItsWay DEF Answers
    <3>3. PICK a \in Nat, b \in Nat : Len(toBoard) = a /\ Len(toHost) = b
      BY <3>2
    <3>4. a = 1 /\ b = 0
      BY <3>1, <3>2, <3>3
    <3>5. Len(toBoard') = 0 /\ Len(toHost') = 1 /\ toHost'[1] = x
      BY <1>5, <3>2, <3>3, <3>4
    <3>6. x = ACK => r1 = s + 1
      BY <1>3, <3>1 DEF AnswerTo, ACK, NAK
    <3>7. s <= r1
      BY <1>7, <3>1
    <3> QED
      BY <3>5, <3>6, <3>7
  <2> QED
    BY <1>1, <2>1 DEF StopAndWaitOf, Past, Stopped
<1> QED
  BY <1>3, <1>5, <1>8, <1>9, <1>10, <1>11, InvariantOf DEF LineOf

(* The packet at the head of the line that counts as due is.               *)
LEMMA DueIsDue ==
  ASSUME IInv, toBoard # <<>>, DueBlock
  PROVE  /\ SoundFrame(toBoard[1]) /\ toBoard[1].data = blockNr
         /\ blockNr \in 1..N /\ blockNr <= sending
<1>1. Head(toBoard) = toBoard[1]
  BY FrameOnItsWay
<1>2. SoundFrame(toBoard[1]) /\ IsNext(toBoard[1])
  BY <1>1 DEF DueBlock, SoundFrame
<1> QED
  BY <1>1, <1>2, IInvFacts, HeadNumber DEF IsNext

(* ... and is the one that StoreBlock stores.                              *)
LEMMA StoresDueBlock ==
  ASSUME IInv, StoreBlock
  PROVE  /\ SoundFrame(toBoard[1]) /\ toBoard[1].data = blockNr
         /\ blockNr \in 1..N /\ blockNr <= sending /\ blockNr <= capacity
         /\ buffer' = [buffer EXCEPT ![blockNr] = blockNr]
<1>1. toBoard # <<>> /\ Head(toBoard) = toBoard[1]
  BY FrameOnItsWay DEF StoreBlock, ReceiveFrame
<1> QED
  BY <1>1, DueIsDue DEF StoreBlock

LEMMA StoreBlockKeepsIInv == ASSUME IInv, StoreBlock PROVE IInv'
<1>1. /\ ReceiveFrame /\ Reply(ACK) /\ blockNr' = blockNr + 1
      /\ sending' = sending /\ pc' = pc /\ imageLen' = imageLen
      /\ faults' = faults /\ hurried' = hurried /\ capacity' = capacity
  BY DEF StoreBlock, senderVars
<1>2. PICK r1 \in Nat : r1 = blockNr + 1
  BY IInvFacts
<1>3. buffer \in [1..capacity -> 0..N] /\ N \in Nat /\ capacity \in Nat /\ r1 <= capacity + 1
  <2>1. buffer \in [1..capacity -> 0..N]
    BY IInvFacts, Zenon DEF TypeOK
  <2>2. N \in Nat /\ capacity \in Nat /\ blockNr \in Nat
    BY IInvFacts
  <2>3. blockNr <= capacity
    BY StoresDueBlock
  <2> QED
    BY <1>2, <2>1, <2>2, <2>3
<1>4. buffer' \in [1..capacity -> 0..N]
  BY <1>3, StoresDueBlock
<1>5. \A b \in 1..(r1 - 1) : buffer'[b] = b
  <2>1. ASSUME NEW b \in 1..(r1 - 1)
        PROVE  b = blockNr \/ b \in 1..(blockNr - 1)
    BY <1>2, IInvFacts
  <2>2. \A b \in 1..(blockNr - 1) : buffer[b] = b
    BY IInvFacts DEF Stored
  <2>3. blockNr \in 1..capacity
    BY <1>3, IInvFacts, StoresDueBlock
  <2>4. \A b \in 1..(blockNr - 1) : b # blockNr /\ b \in 1..capacity
    BY <1>3, <2>3, IInvFacts
  <2> QED
    BY <1>3, <2>1, <2>2, <2>3, <2>4, StoresDueBlock
<1>6. blockNr' = r1 /\ AnswerTo(toBoard[1], ACK, blockNr, r1)
  BY <1>1, <1>2, StoresDueBlock DEF AnswerTo
<1> QED
  BY <1>1, <1>3, <1>4, <1>5, <1>6, AnswerKeepsIInv

(* ReAck and Reject leave the buffer and the block that is due alone.      *)
LEMMA ReAckKeepsIInv == ASSUME IInv, ReAck PROVE IInv'
<1>1. /\ ReceiveFrame /\ Reply(ACK) /\ blockNr' = blockNr /\ buffer' = buffer
      /\ sending' = sending /\ pc' = pc /\ imageLen' = imageLen
      /\ faults' = faults /\ hurried' = hurried /\ capacity' = capacity
  BY DEF ReAck, senderVars
<1>2. PICK r1 \in Nat : r1 = blockNr
  BY IInvFacts
<1>3. toBoard # <<>> /\ Head(toBoard) = toBoard[1]
  BY FrameOnItsWay DEF ReAck, ReceiveFrame
<1>4. SoundFrame(toBoard[1]) /\ toBoard[1].num = (blockNr - 1) % M
  BY <1>3 DEF ReAck, SoundFrame, IsPrevious
<1>5. toBoard[1].data = blockNr - 1
  BY <1>3, <1>4, IInvFacts, HeadNumber
<1>6. r1 <= capacity + 1 /\ buffer' \in [1..capacity -> 0..N] /\ \A b \in 1..(r1 - 1) : buffer'[b] = b
  BY <1>1, <1>2, IInvFacts DEF TypeOK, Stored
<1>7. blockNr' = r1 /\ AnswerTo(toBoard[1], ACK, blockNr, r1)
  BY <1>1, <1>2, <1>4, <1>5 DEF AnswerTo
<1> QED
  BY <1>1, <1>6, <1>7, AnswerKeepsIInv

LEMMA RejectKeepsIInv == ASSUME IInv, Reject PROVE IInv'
<1>1. /\ ReceiveFrame /\ Reply(NAK) /\ blockNr' = blockNr /\ buffer' = buffer
      /\ sending' = sending /\ pc' = pc /\ imageLen' = imageLen
      /\ faults' = faults /\ hurried' = hurried /\ capacity' = capacity
  BY DEF Reject, senderVars
<1>2. PICK r1 \in Nat : r1 = blockNr
  BY IInvFacts
<1>3. r1 <= capacity + 1 /\ buffer' \in [1..capacity -> 0..N] /\ \A b \in 1..(r1 - 1) : buffer'[b] = b
  BY <1>1, <1>2, IInvFacts DEF TypeOK, Stored
<1>4. blockNr' = r1 /\ AnswerTo(toBoard[1], NAK, blockNr, r1)
  BY <1>1, <1>2 DEF AnswerTo
<1> QED
  BY <1>1, <1>3, <1>4, AnswerKeepsIInv

(* The EOT is at the head of the line only when the sender is past the     *)
(* file, and a patient sender is there only when the receiver is too.      *)
LEMMA ReceiveEotKeepsIInv == ASSUME IInv, ReceiveEot PROVE IInv'
<1>1. /\ pc = "receive" /\ toBoard # <<>> /\ toBoard' = Tail(toBoard)
      /\ toBoard[1].kind = "eot" /\ pc' = "eof" /\ toHost' = toHost
      /\ sending' = sending /\ blockNr' = blockNr /\ buffer' = buffer
      /\ imageLen' = imageLen /\ faults' = faults /\ hurried' = hurried /\ capacity' = capacity
  BY FrameOnItsWay DEF ReceiveEot, ReceiveFrame, senderVars
<1>2. PICK s \in Int, r \in Int : s = sending /\ r = blockNr
  BY IInvFacts
<1>3. LineOf(toBoard', toHost', s, r)
  BY <1>1, <1>2, IInvFacts, TakeKeepsLine
<1>4. TypeOK'
  BY <1>1, <1>3, IInvFacts DEF TypeOK, LineOf, QueuesOf
<1>5. Stored' /\ Phases'
  BY <1>1, IInvFacts DEF Stored, Phases
<1>6. ASSUME ~hurried
      PROVE  r = N + 1 /\ toHost = <<>>
  <2>1. s > N
    BY <1>1, <1>2, FrameOnItsWay, IInvFacts DEF LineOf, InFlightOf
  <2>2. Len(toBoard) + Len(toHost) <= 1 /\ s <= r
    BY <1>1, <1>2, <1>6, IInvFacts DEF StopAndWaitOf
  <2>3. /\ Len(toBoard) \in Nat /\ Len(toHost) \in Nat /\ Len(toBoard) # 0
        /\ r <= N + 1 /\ N \in Nat
    BY <1>1, <1>2, IInvFacts
  <2>4. PICK a \in Nat, b \in Nat : Len(toBoard) = a /\ Len(toHost) = b
    BY <2>3
  <2>5. b = 0 /\ r = N + 1
    BY <2>1, <2>2, <2>3, <2>4
  <2> QED
    BY <2>4, <2>5, IInvFacts
<1>7. StopAndWaitOf(toBoard', toHost', s, r, "eof", hurried)
  BY <1>1, <1>6 DEF StopAndWaitOf, Past, Stopped
<1> QED
  BY <1>1, <1>2, <1>3, <1>4, <1>5, <1>7, InvariantOf DEF LineOf

(* A block is due that the buffer has no room for.  The line of a patient  *)
(* sender is empty then, as this block is the only message on it.          *)
LEMMA OverrunKeepsIInv == ASSUME IInv, Overrun PROVE IInv'
<1>1. /\ pc = "receive" /\ toBoard # <<>> /\ toBoard' = Tail(toBoard)
      /\ DueBlock /\ blockNr > capacity /\ pc' = "overrun" /\ toHost' = toHost
      /\ sending' = sending /\ blockNr' = blockNr /\ capacity' = capacity /\ buffer' = buffer
      /\ imageLen' = imageLen /\ faults' = faults /\ hurried' = hurried
  BY DEF Overrun, ReceiveFrame, senderVars
<1>2. PICK s \in Int, r \in Int : s = sending /\ r = blockNr
  BY IInvFacts
<1>3. LineOf(toBoard', toHost', s, r)
  BY <1>1, <1>2, IInvFacts, TakeKeepsLine
<1>4. TypeOK'
  BY <1>1, <1>3, IInvFacts DEF TypeOK, LineOf, QueuesOf
<1>5. N > capacity
  BY <1>1, DueIsDue, IInvFacts
<1>6. Stored' /\ Phases'
  BY <1>1, <1>5, IInvFacts DEF Stored, Phases, Past
<1>7. ASSUME ~hurried
      PROVE  toHost = <<>>
  <2>1. Len(toBoard) + Len(toHost) <= 1
    BY <1>1, <1>7, IInvFacts DEF StopAndWaitOf
  <2>2. PICK a \in Nat, b \in Nat : Len(toBoard) = a /\ Len(toHost) = b
    BY IInvFacts
  <2>3. a # 0 /\ a + b <= 1
    BY <1>1, <2>1, <2>2, IInvFacts
  <2> QED
    BY <2>2, <2>3, IInvFacts
<1>8. StopAndWaitOf(toBoard', toHost', s, r, "overrun", hurried)
  BY <1>1, <1>7 DEF StopAndWaitOf, Past
<1> QED
  BY <1>1, <1>2, <1>3, <1>4, <1>6, <1>8, InvariantOf DEF LineOf

LEMMA XmodemReceiveKeepsIInv == ASSUME IInv, XmodemReceive PROVE IInv'
<1>1. /\ pc = "prompt" /\ pc' = "receive" /\ toHost' = Append(toHost, NAK)
      /\ sending' = sending /\ toBoard' = toBoard /\ blockNr' = blockNr
      /\ buffer' = buffer /\ imageLen' = imageLen /\ faults' = faults /\ hurried' = hurried
      /\ capacity' = capacity
  BY DEF XmodemReceive, Reply, senderVars
<1>2. sending = 0 /\ blockNr = 1 /\ toBoard = <<>> /\ toHost = <<>> /\ imageLen = 0
  BY <1>1, IInvFacts DEF Phases, Quiet, Past
<1>3. /\ toHost' \in Seq({ACK, NAK}) /\ Len(toHost') = 1 /\ toHost'[1] = NAK
      /\ Len(toBoard) = 0
  <2>1. toHost \in Seq({ACK, NAK}) /\ Len(toHost) = 0 /\ Len(toBoard) = 0
    BY <1>2, IInvFacts DEF LineOf, QueuesOf
  <2> QED
    BY <1>1, <2>1, Joined
<1>4. TypeOK'
  BY <1>1, <1>3, IInvFacts DEF TypeOK
<1>5. Stored' /\ Phases'
  BY <1>1, <1>2, IInvFacts DEF Stored, Phases, Past
<1>6. InFlightOf(toBoard', sending', blockNr')
  BY <1>1, <1>3 DEF InFlightOf
<1>7. WindowOf(toBoard', toHost', sending', blockNr')
  BY <1>1, <1>2, <1>3, XmodemAssumption DEF WindowOf, ACK, NAK
<1>8. StopAndWaitOf(toBoard', toHost', sending', blockNr', pc', hurried')
  BY <1>1, <1>2, <1>3 DEF StopAndWaitOf, Past, Stopped, ACK, NAK
<1> QED
  BY <1>4, <1>5, <1>6, <1>7, <1>8, InvariantOf

LEMMA BootImageKeepsIInv == ASSUME IInv, BootImage PROVE IInv'
<1>1. /\ pc = "eof" /\ imageLen' = blockNr /\ pc' \in {"returned", "chained"}
      /\ sending' = sending /\ toBoard' = toBoard /\ toHost' = toHost
      /\ blockNr' = blockNr /\ buffer' = buffer /\ faults' = faults /\ hurried' = hurried
      /\ capacity' = capacity
  BY DEF BootImage, senderVars
<1>2. InFlight' /\ Window' /\ Stored'
  BY <1>1 DEF IInv, InFlight, Window, Stored, SoundPacket, Sound, ChecksumOk, InvertOk
<1>3. StopAndWait'
  BY <1>1 DEF IInv, StopAndWait, Past, Stopped
<1>4. TypeOK'
  BY <1>1, IInvFacts DEF TypeOK
<1>5. Phases'
  BY <1>1, IInvFacts DEF Phases, Past
<1> QED
  BY <1>2, <1>3, <1>4, <1>5 DEF IInv

LEMMA StutterKeepsIInv == ASSUME IInv, UNCHANGED vars PROVE IInv'
  BY DEF vars, IInv, TypeOK, InFlight, Window, StopAndWait, Stored, Phases, SoundPacket,
         Sound, ChecksumOk, InvertOk, Quiet

(* The invariant is inductive.                                             *)
LEMMA StepKeepsIInv == IInv /\ [Next]_vars => IInv'
<1> SUFFICES ASSUME IInv, [Next]_vars PROVE IInv'
  OBVIOUS
<1>1. CASE Sender
  BY <1>1, SenderNakKeepsIInv, SenderAckKeepsIInv, SenderDoneKeepsIInv,
     SenderTimeoutKeepsIInv DEF Sender
<1>2. CASE Receiver
  BY <1>2, XmodemReceiveKeepsIInv, StoreBlockKeepsIInv, ReAckKeepsIInv, RejectKeepsIInv,
     ReceiveEotKeepsIInv, OverrunKeepsIInv, BootImageKeepsIInv DEF Receiver
<1>3. CASE Faults
  BY <1>3, SenderHurryKeepsIInv, DamageFieldKeepsIInv, LoseFrameKeepsIInv,
     LoseReplyKeepsIInv DEF Faults
<1>4. CASE UNCHANGED vars
  BY <1>4, StutterKeepsIInv
<1> QED
  BY <1>1, <1>2, <1>3, <1>4 DEF Next

-----------------------------------------------------------------------------
(* The theorems.  They hold of Spec, and so of FairSpec, which implies it. *)

(* The inductive invariant holds in every state of xmodem_receive and its  *)
(* host.                                                                   *)
THEOREM Invariance == Spec => []IInv
<1> QED
  BY InitIInv, StepKeepsIInv, PTL DEF Spec

(* Every state is of its type: blockNr never passes the last block by more *)
(* than one, whatever the line does.                                       *)
THEOREM TypeCorrect == Spec => []TypeOK
<1>1. IInv => TypeOK
  BY DEF IInv
<1> QED
  BY <1>1, Invariance, PTL

(* The sender never gets so far ahead that a block number could be taken   *)
(* for the one M blocks away.                                              *)
THEOREM WindowBounded == Spec => []Window
<1>1. IInv => Window
  BY DEF IInv
<1> QED
  BY <1>1, Invariance, PTL

(* What the ELF loader of xmodem_receive is given, for every file and      *)
(* every buffer: blocks of the file in their places, from a patient sender *)
(* all.  The loader's length passes the allocation only for a file that    *)
(* fills the buffer, and memcpy only for one that is longer.               *)
THEOREM LoaderInput == Spec => []ImageInBuffer
<1>1. IInv => ImageInBuffer
  <2> SUFFICES ASSUME IInv PROVE ImageInBuffer
    OBVIOUS
  <2>1. pc = "overrun" => N > capacity
    BY IInvFacts DEF Phases
  <2>2. ASSUME imageLen # 0
        PROVE  /\ imageLen - 1 <= capacity
               /\ \A b \in 1..(imageLen - 1) : buffer[b] = b
               /\ hurried \/ imageLen > N
               /\ imageLen > capacity => N >= capacity
    <3>1. imageLen = blockNr /\ pc \in Past
      BY <2>2, IInvFacts DEF Phases
    <3>2. imageLen - 1 <= capacity /\ (imageLen > capacity => N >= capacity)
      BY <3>1, IInvFacts
    <3>3. \A b \in 1..(imageLen - 1) : buffer[b] = b
      BY <3>1, IInvFacts DEF Stored
    <3>4. hurried \/ imageLen > N
      BY <3>1, IInvFacts DEF StopAndWaitOf
    <3> QED
      BY <3>2, <3>3, <3>4
  <2> QED
    BY <2>1, <2>2 DEF ImageInBuffer
<1> QED
  BY <1>1, Invariance, PTL

(* A host that waits its turn never leaves a block behind that the board   *)
(* does not hold.                                                          *)
THEOREM AckMeansStored == Spec => AckedIsStored
<1>1. IInv /\ [Next]_vars =>
        [(sending' > sending /\ sending # 0 /\ ~hurried) => buffer[sending] = sending]_vars
  <2> SUFFICES ASSUME IInv, Next, sending' > sending, sending # 0, ~hurried
               PROVE  buffer[sending] = sending
    OBVIOUS
  <2>1. CASE SenderAck
    <3>1. toHost # <<>> /\ toHost[1] = ACK
      BY <2>1, HeadOfHost DEF SenderAck, SenderReply
    <3>2. pc = "receive" /\ blockNr = sending + 1
      BY <3>1, ReplyOnItsWay, IInvFacts DEF TypeOK, Past, Stopped
    <3>3. sending \in 1..(blockNr - 1)
      BY <3>2, IInvFacts
    <3> QED
      BY <3>3, IInvFacts DEF Stored
  <2>2. CASE SenderDone
    <3>1. toHost # <<>> /\ ((sending = N + 1 /\ toHost[1] = ACK) \/ sending = N + 2)
      BY <2>2, HeadOfHost DEF SenderDone
    <3>2. pc = "receive" /\ sending <= blockNr /\ (toHost[1] = ACK => blockNr = sending + 1)
      BY <3>1, ReplyOnItsWay, IInvFacts DEF TypeOK, Past, Stopped
    <3> QED
      BY <3>1, <3>2, IInvFacts
  <2>3. CASE sending' = sending \/ sending = 0
    BY <2>3, IInvFacts
  <2> QED
    BY <2>1, <2>2, <2>3
    DEF Next, Sender, Receiver, Faults, SenderNak, SenderTimeout, XmodemReceive, StoreBlock,
        Overrun, ReAck, Reject, ReceiveEot, BootImage, SenderHurry, DamageField, LoseFrame, LoseReply,
        senderVars
<1> QED
  BY <1>1, Invariance, PTL DEF Spec, AckedIsStored

-----------------------------------------------------------------------------
(* Refinement. *)

(* The blocks in front of the one that is due, as a sequence.              *)
ImageOf(B, r) == [b \in 1..(r - 1) |-> B[b]]

LEMMA ImageProperties ==
  ASSUME NEW B, NEW r \in Nat, r >= 1, \A b \in 1..(r - 1) : B[b] = b
  PROVE  /\ ImageOf(B, r) \in Seq(Nat) /\ Len(ImageOf(B, r)) = r - 1
         /\ DOMAIN ImageOf(B, r) = 1..(r - 1)
         /\ \A b \in 1..(r - 1) : ImageOf(B, r)[b] = b
<1>1. r - 1 \in Nat
  OBVIOUS
<1>2. ImageOf(B, r) \in [1..(r - 1) -> Nat]
  BY DEF ImageOf
<1>3. ImageOf(B, r) \in Seq(Nat)
  BY <1>1, <1>2, SeqDef
<1> QED
  BY <1>1, <1>2, <1>3, LenProperties DEF ImageOf

(* Storing the block that is due appends it to the image.                  *)
LEMMA ImageGrows ==
  ASSUME NEW B, NEW r \in Nat, r >= 1, \A b \in 1..(r - 1) : B[b] = b,
         NEW B1, \A b \in 1..((r + 1) - 1) : B1[b] = b
  PROVE  ImageOf(B1, r + 1) = Append(ImageOf(B, r), Len(ImageOf(B, r)) + 1)
<1> DEFINE I  == ImageOf(B, r)
           I1 == ImageOf(B1, r + 1)
<1>1. I \in Seq(Nat) /\ Len(I) = r - 1 /\ \A b \in 1..(r - 1) : I[b] = b
  BY ImageProperties
<1>2. I1 \in Seq(Nat) /\ Len(I1) = r /\ \A b \in 1..r : I1[b] = b
  <2>1. r + 1 \in Nat /\ r + 1 >= 1 /\ (r + 1) - 1 = r
    OBVIOUS
  <2> QED
    BY <2>1, ImageProperties
<1>3. /\ Append(I, r) \in Seq(Nat) /\ Len(Append(I, r)) = r
      /\ \A b \in 1..(r - 1) : Append(I, r)[b] = b
      /\ Append(I, r)[r] = r
  <2>1. r \in Nat /\ (r - 1) + 1 = r
    OBVIOUS
  <2> QED
    BY <1>1, <2>1, Joined
<1>4. \A b \in 1..r : Append(I, r)[b] = I1[b]
  <2>1. \A b \in 1..r : b \in 1..(r - 1) \/ b = r
    OBVIOUS
  <2> QED
    BY <1>2, <1>3, <2>1
<1>5. I1 = Append(I, r)
  BY <1>2, <1>3, <1>4, SeqEqual
<1> QED
  BY <1>1, <1>5

Finished == pc \in {"eof", "returned", "chained"} /\ ~hurried

(* Steps that leave the buffer up to the due block, and the phase as the   *)
(* host sees it, as they were.                                             *)
LEMMA Unseen ==
  ASSUME blockNr' = blockNr, buffer' = buffer, Finished' = Finished
  PROVE  UNCHANGED Transfer!vars
<1>1. ImageOf(buffer, blockNr)' = ImageOf(buffer, blockNr)
  BY DEF ImageOf
<1> QED
  BY <1>1 DEF Transfer!vars, ImageOf, Finished

(* The receiver's loop implements the transfer of BlockTransfer, whatever  *)
(* the line does to the frames and replies.                                *)
THEOREM Refinement == Spec => Refines
<1>1. Init => Transfer!Init
  <2> SUFFICES ASSUME Init PROVE Transfer!Init
    OBVIOUS
  <2>1. blockNr = 1 /\ Finished = FALSE
    BY DEF Init, Finished
  <2>2. ImageOf(buffer, 1) \in Seq(Nat) /\ Len(ImageOf(buffer, 1)) = 0
    BY ImageProperties
  <2>3. ImageOf(buffer, blockNr) = <<>>
    BY <2>1, <2>2, EmptySeq
  <2> QED
    BY <2>1, <2>3 DEF Transfer!Init, ImageOf, Finished
<1>2. IInv /\ IInv' /\ [Next]_vars => [Transfer!Next]_(Transfer!vars)
  <2> SUFFICES ASSUME IInv, IInv', [Next]_vars
               PROVE  Transfer!Next \/ UNCHANGED Transfer!vars
    OBVIOUS
  <2>1. CASE StoreBlock
    <3>1. /\ pc = "receive" /\ pc' = pc /\ blockNr' = blockNr + 1
      BY <2>1 DEF StoreBlock, ReceiveFrame
    <3>2. PICK r \in Nat : r = blockNr /\ r >= 1 /\ r <= N
      BY <2>1, IInvFacts, StoresDueBlock
    <3>3. \A b \in 1..(r - 1) : buffer[b] = b
      BY <3>2, IInvFacts DEF Stored
    <3>4. \A b \in 1..((r + 1) - 1) : buffer'[b] = b
      BY <3>1, <3>2 DEF IInv, Stored
    <3>5. /\ ImageOf(buffer', r + 1)
               = Append(ImageOf(buffer, r), Len(ImageOf(buffer, r)) + 1)
          /\ Len(ImageOf(buffer, r)) = r - 1
      BY <3>2, <3>3, <3>4, ImageGrows, ImageProperties
    <3>6. r - 1 < N
      BY <3>2, IInvFacts
    <3>7. blockNr' = r + 1 /\ ~Finished /\ Finished' = Finished
      BY <3>1, <3>2 DEF Finished
    <3> QED
      BY <3>2, <3>5, <3>6, <3>7 DEF Transfer!Next, Transfer!Deliver, ImageOf, Finished
  <2>2. CASE ReceiveEot
    <3>1. /\ pc = "receive" /\ pc' = "eof" /\ blockNr' = blockNr
          /\ buffer' = buffer /\ hurried' = hurried
      BY <2>2 DEF ReceiveEot, ReceiveFrame
    <3>2. CASE hurried
      BY <3>1, <3>2, Unseen DEF Finished
    <3>3. CASE ~hurried
      <4>1. blockNr' = N + 1
        BY <3>1, <3>3 DEF IInv, StopAndWait, Past
      <4>2. PICK r \in Nat : r = blockNr /\ r >= 1 /\ r - 1 = N
        BY <3>1, <4>1, IInvFacts
      <4>3. \A b \in 1..(r - 1) : buffer[b] = b
        BY <4>2, IInvFacts DEF Stored
      <4>4. Len(ImageOf(buffer, r)) = N
        BY <4>2, <4>3, ImageProperties
      <4>5. ImageOf(buffer', blockNr') = ImageOf(buffer, blockNr)
        BY <3>1
      <4>6. ~Finished /\ Finished'
        BY <3>1, <3>3 DEF Finished
      <4> QED
        BY <4>2, <4>4, <4>5, <4>6 DEF Transfer!Next, Transfer!Finish, ImageOf, Finished
    <3> QED
      BY <3>2, <3>3
  <2>3. CASE SenderHurry
    BY <2>3, Unseen DEF SenderHurry, receiverVars, Finished
  <2>4. CASE XmodemReceive \/ Overrun \/ BootImage
    BY <2>4, Unseen DEF XmodemReceive, Overrun, ReceiveFrame, BootImage, Finished
  <2>5. CASE UNCHANGED <<blockNr, buffer, pc, hurried>>
    BY <2>5, Unseen DEF Finished
  <2> QED
    BY <2>1, <2>2, <2>3, <2>4, <2>5
    DEF vars, Next, Sender, Receiver, Faults, SenderNak, SenderAck, SenderDone, SenderTimeout,
        ReAck, Reject, DamageField, LoseFrame, LoseReply, receiverVars
<1>3. IInv /\ [Next]_vars => [Transfer!Next]_(Transfer!vars)
  BY <1>2, StepKeepsIInv
<1> QED
  BY <1>1, <1>3, Invariance, PTL DEF Spec, Refines, Transfer!Spec

-----------------------------------------------------------------------------
(* The same upload byte by byte (XmodemLine), whose names are partly those *)
(* of Xmodem.                                                              *)

CONSTANTS File, Numbers, Noises

VARIABLES
  streamSending, streamToBoard, streamToHost, streamPc, packet, image, streamFaults

Stream == INSTANCE XmodemLine WITH
  M <- Numbers, MaxFaults <- Noises, sending <- streamSending, toBoard <- streamToBoard,
  toHost <- streamToHost, pc <- streamPc, faults <- streamFaults

(* A byte is one of a few numbers, and there is a file (XmodemLine's       *)
(* assumption).                                                            *)
StreamAssumed ==
  /\ Numbers \in Nat /\ Numbers > 4
  /\ File \in Seq(Stream!Bytes) /\ File # <<>>

(* What the invariant needs of the types. *)
StreamTypes ==
  /\ streamSending \in 0..(Stream!N + 1)
  /\ streamToBoard \in Seq(Stream!Bytes) /\ packet \in Seq(Stream!Bytes) /\ image \in Seq(Stream!Bytes)
  /\ streamToHost \in Seq({"ACK", "NAK"})
  /\ streamPc \in {"start", "receive", "eof"}

(* The two sides take turns. *)
Turns ==
  /\ streamToHost = <<>> \/ (Len(streamToHost) = 1 /\ streamToBoard = <<>>)
  /\ streamToBoard = <<>> => packet = <<>>

(* The ends of the transfer: nothing is sent before the first NAK, and     *)
(* nothing but the EOT after the last block.                               *)
Ends ==
  /\ streamSending = 0 => streamToBoard = <<>> /\ Len(image) = 0
  /\ streamPc = "start" => streamSending = 0 /\ streamToHost = <<>>
  /\ streamPc = "eof" => streamSending = Stream!N + 1
  /\ streamSending = Stream!N + 1 =>
       packet = <<>> /\ streamToHost = <<>> /\ (streamToBoard = <<>> \/ streamToBoard = <<4>>)

(* The image is what was acknowledged, and perhaps the block on its way.   *)
Collected ==
  /\ \A b \in 1..Len(image) : b <= Stream!N /\ image[b] = File[b]
  /\ streamSending \in 1..Stream!N => Len(image) = streamSending - 1 \/ Len(image) = streamSending
  /\ streamSending = Stream!N + 1 => Len(image) = Stream!N
  /\ streamToHost # <<>> /\ streamToHost[1] = "ACK" =>
       streamSending \in 1..Stream!N /\ Len(image) = streamSending

(* The i-th byte of the packet that is being read.                         *)
At(i) == IF i <= Len(packet) THEN packet[i] ELSE streamToBoard[i - Len(packet)]

OneOff ==
  \A i, j \in 1..5 :
    At(i) # Stream!Packet(streamSending)[i] /\ At(j) # Stream!Packet(streamSending)[j] => i = j

(* A packet that is on its way is the sender's but for one byte at most,   *)
(* and it is there from its first byte to its last: the receiver is in     *)
(* step with it.                                                           *)
InStep ==
  streamSending \in 1..Stream!N /\ streamToBoard # <<>> =>
    /\ Len(packet) + Len(streamToBoard) = 5
    /\ At(1) # 4
    /\ OneOff

StreamInv == StreamTypes /\ Turns /\ Ends /\ Collected /\ InStep

-----------------------------------------------------------------------------
(* The file's blocks and the bytes. *)
LEMMA FileHasBlocks ==
  ASSUME StreamAssumed
  PROVE  /\ Stream!N \in Nat /\ Stream!N >= 1
         /\ \A k \in 1..Stream!N : File[k] \in Stream!Bytes
         /\ Stream!Bytes = 0..(Numbers - 1) /\ Numbers \in Nat /\ Numbers > 4
BY LenProperties, EmptySeq, ElementOfSeq DEF StreamAssumed, Stream!N, Stream!Bytes

(* The bytes of a packet, one by one. *)
LEMMA PacketBytes ==
  ASSUME StreamAssumed, NEW k \in 1..Stream!N
  PROVE  /\ Stream!Packet(k) \in Seq(Stream!Bytes) /\ Len(Stream!Packet(k)) = 5
         /\ Stream!Packet(k) # <<>>
         /\ Stream!Packet(k)[1] = 1
         /\ Stream!Packet(k)[2] = k % Numbers
         /\ Stream!Packet(k)[3] = (Numbers - 1) - (k % Numbers)
         /\ Stream!Packet(k)[4] = File[k]
         /\ Stream!Packet(k)[5] = File[k]
<1>1. k % Numbers \in 0..(Numbers - 1) /\ k \in Int
  BY FileHasBlocks, ModRange
<1>2. (Numbers - 1) - (k % Numbers) \in 0..(Numbers - 1)
  BY <1>1, FileHasBlocks
<1>3. 1 \in Stream!Bytes /\ File[k] \in Stream!Bytes
  BY FileHasBlocks
<1>4. Stream!Packet(k) = <<1, k % Numbers, (Numbers - 1) - (k % Numbers), File[k], File[k]>>
  BY DEF Stream!Packet, Stream!SOH
<1> DEFINE a == k % Numbers
           c == (Numbers - 1) - (k % Numbers)
<1>5. a \in Stream!Bytes /\ c \in Stream!Bytes
  BY <1>1, <1>2, FileHasBlocks
<1>6. Stream!Packet(k) = <<1, a, c, File[k], File[k]>>
  BY <1>4
<1>7. Stream!Packet(k)[2] = k % Numbers /\ Stream!Packet(k)[3] = (Numbers - 1) - (k % Numbers)
  BY <1>4
<1> HIDE DEF a, c
<1> QED
  BY <1>3, <1>5, <1>6, <1>7

(* What a transmission puts on an empty line. *)
LEMMA Transmitted ==
  ASSUME StreamAssumed, NEW k \in 1..(Stream!N + 1), streamToBoard = <<>>, Stream!Transmit(k)
  PROVE  /\ streamToBoard' \in Seq(Stream!Bytes)
         /\ k <= Stream!N => streamToBoard' = Stream!Packet(k) /\ streamToBoard' # <<>>
         /\ k > Stream!N => streamToBoard' = <<4>>
<1>1. CASE k <= Stream!N
  <2>1. Stream!Packet(k) \in Seq(Stream!Bytes) /\ Stream!Packet(k) # <<>>
    BY <1>1, PacketBytes, FileHasBlocks
  <2>2. streamToBoard' = Stream!Packet(k)
    BY <1>1, <2>1, ConcatEmptySeq DEF Stream!Transmit
  <2> QED
    BY <1>1, <2>1, <2>2, FileHasBlocks
<1>2. CASE k > Stream!N
  <2>1. 4 \in Stream!Bytes
    BY FileHasBlocks
  <2>2. <<4>> \in Seq(Stream!Bytes)
    BY <2>1
  <2>3. streamToBoard' = <<4>>
    BY <1>2, <2>2, ConcatEmptySeq, FileHasBlocks DEF Stream!Transmit, Stream!EOT
  <2> QED
    BY <1>2, <2>2, <2>3, FileHasBlocks
<1> QED
  BY <1>1, <1>2, FileHasBlocks

(* A packet just sent is the sender's, byte by byte. *)
LEMMA JustSent ==
  ASSUME StreamAssumed, NEW k \in 1..Stream!N, streamSending' = k, streamToBoard' = Stream!Packet(k),
         packet' = <<>>
  PROVE  InStep'
<1>1. Len(packet') = 0 /\ Len(streamToBoard') = 5
  BY PacketBytes
<1>2. \A i \in 1..5 : At(i)' = Stream!Packet(k)[i]
  BY <1>1 DEF At
<1>3. At(1)' # 4
  BY <1>2, PacketBytes
<1>4. ASSUME NEW i \in 1..5
      PROVE  At(i)' = Stream!Packet(streamSending')[i]
  BY <1>2, <1>4
<1> QED
  <2>1. OneOff'
    BY <1>4 DEF OneOff
  <2>2. Len(packet') + Len(streamToBoard') = 5
    BY <1>1
  <2> QED
    BY <1>3, <2>1, <2>2 DEF InStep

(* The sender has nothing on the line when it sends the next. *)
LEMMA SenderKeeps ==
  ASSUME StreamAssumed, StreamInv, Stream!Sender
  PROVE  StreamInv' /\ UNCHANGED <<streamPc, image>>
<1>1. streamToBoard = <<>> /\ packet = <<>>
  BY DEF StreamInv, Turns, Stream!Sender, Stream!SenderNak, Stream!SenderAck, Stream!SenderTimeout, Stream!SenderReply
<1>2. /\ packet' = packet /\ image' = image /\ streamPc' = streamPc
      /\ streamSending' \in 1..(Stream!N + 1) /\ Stream!Transmit(streamSending')
      /\ streamToHost' = <<>> /\ streamToHost' \in Seq({"ACK", "NAK"})
      /\ streamPc # "start"
      /\ streamSending' # streamSending =>
           \/ streamSending = 0 /\ streamSending' = 1 
           \/ streamSending \in 1..Stream!N /\ streamSending' = streamSending + 1 /\ Len(image) = streamSending
  <2>1. streamToHost # <<>> => Tail(streamToHost) = <<>> /\ Head(streamToHost) = streamToHost[1]
    <3>1. streamToHost \in Seq({"ACK", "NAK"}) /\ (streamToHost # <<>> => Len(streamToHost) = 1)
      BY DEF StreamInv, Turns, StreamTypes
    <3>2. streamToHost # <<>> => Tail(streamToHost) \in Seq({"ACK", "NAK"}) /\ Len(Tail(streamToHost)) = 0
      BY <3>1, HeadTailProperties
    <3>3. streamToHost # <<>> => Tail(streamToHost) = <<>>
      BY <3>2, EmptySeq
    <3>4. streamToHost # <<>> => Head(streamToHost) = streamToHost[1]
      BY <3>1
    <3> QED
      BY <3>3, <3>4
  <2>2. streamSending \in 0..(Stream!N + 1) /\ Stream!N \in Nat /\ Stream!N >= 1
    BY FileHasBlocks DEF StreamInv, StreamTypes
  <2>3. CASE Stream!SenderNak
    BY <2>1, <2>2, <2>3 DEF StreamInv, StreamTypes, Ends, Stream!SenderNak, Stream!SenderReply, Stream!receiverVars
  <2>4. CASE Stream!SenderAck
    BY <2>1, <2>2, <2>4 DEF StreamInv, StreamTypes, Ends, Collected, Stream!SenderAck, Stream!SenderReply,
       Stream!receiverVars, Stream!ACK
  <2>5. CASE Stream!SenderTimeout
    BY <2>1, <2>2, <2>5 DEF StreamInv, StreamTypes, Ends, Stream!SenderTimeout, Stream!receiverVars
  <2> QED
    BY <2>3, <2>4, <2>5 DEF Stream!Sender
<1>3. PICK k \in 1..(Stream!N + 1) : k = streamSending'
  BY <1>2
<1>4. /\ streamToBoard' \in Seq(Stream!Bytes)
      /\ k <= Stream!N => streamToBoard' = Stream!Packet(k) /\ streamToBoard' # <<>>
      /\ k > Stream!N => streamToBoard' = <<4>>
  BY <1>1, <1>2, <1>3, Transmitted
<1>5. StreamTypes' /\ Turns'
  BY <1>1, <1>2, <1>4, FileHasBlocks DEF StreamInv, StreamTypes, Turns, Stream!N, Stream!Bytes
<1>6. InStep'
  <2>1. CASE k <= Stream!N
    BY <1>1, <1>2, <1>3, <1>4, <2>1, JustSent, FileHasBlocks
  <2>2. CASE k > Stream!N
    BY <1>3, <2>2, FileHasBlocks DEF InStep, Stream!N
  <2> QED
    BY <2>1, <2>2, FileHasBlocks
<1>7. Ends'
  BY <1>1, <1>2, <1>3, <1>4, FileHasBlocks DEF StreamInv, Ends, Stream!N
<1>8. Collected'
  <2>1. Len(image) \in Nat /\ Stream!N \in Nat /\ Stream!N >= 1 /\ streamSending \in 0..(Stream!N + 1)
    BY FileHasBlocks, LenProperties DEF StreamInv, StreamTypes
  <2>2. /\ streamSending' \in 1..Stream!N => Len(image) = streamSending' - 1 \/ Len(image) = streamSending'
        /\ streamSending' = Stream!N + 1 => Len(image) = Stream!N
    <3>1. CASE streamSending' = streamSending
      BY <3>1, <2>1 DEF StreamInv, Collected
    <3>2. CASE streamSending' # streamSending
      <4>1. CASE streamSending = 0 /\ streamSending' = 1
        BY <4>1, <2>1 DEF StreamInv, Ends
      <4>2. CASE streamSending' = streamSending + 1 /\ Len(image) = streamSending
        BY <4>2, <2>1
      <4> QED
        BY <4>1, <4>2, <3>2, <1>2
    <3> QED
      BY <3>1, <3>2
  <2>3. \A b \in 1..Len(image) : b <= Stream!N /\ image[b] = File[b]
    BY DEF StreamInv, Collected
  <2> QED
    BY <1>2, <2>2, <2>3 DEF Collected, Stream!N
<1> QED
  BY <1>2, <1>5, <1>6, <1>7, <1>8 DEF StreamInv

(* What is on the line when a byte can be read. *)
LEMMA Reading ==
  ASSUME StreamAssumed, StreamInv, streamToBoard # <<>>
  PROVE  /\ streamToHost = <<>>
         /\ streamSending \in 1..Stream!N \/ (streamSending = Stream!N + 1 /\ streamToBoard = <<4>> /\ packet = <<>>)
         /\ Stream!N \in Nat /\ Stream!N >= 1 /\ Len(image) \in Nat
<1>1. streamSending \in 0..(Stream!N + 1) /\ Stream!N \in Nat /\ Stream!N >= 1 /\ Len(image) \in Nat
  BY FileHasBlocks, LenProperties DEF StreamInv, StreamTypes
<1> QED
  BY <1>1 DEF StreamInv, Turns, Ends

(* The first NAK starts the sender. *)
LEMMA XmodemReceiveKeeps ==
  ASSUME StreamAssumed, StreamInv, Stream!XmodemReceive
  PROVE  StreamInv' /\ image' = image /\ streamPc' = "receive" /\ streamPc = "start"
<1>1. streamToHost' = <<"NAK">> /\ streamSending = 0 /\ streamToBoard = <<>> /\ Stream!N \in Nat /\ Stream!N >= 1
  BY FileHasBlocks DEF StreamInv, Ends, Stream!XmodemReceive, Stream!Reply, Stream!NAK
<1>2. streamToHost' \in Seq({"ACK", "NAK"}) /\ Len(streamToHost') = 1 /\ streamToHost'[1] = "NAK"
  BY <1>1
<1>3. /\ streamPc = "start" /\ streamPc' = "receive"
      /\ UNCHANGED <<streamSending, streamToBoard, packet, image>>
  BY DEF Stream!XmodemReceive
<1>4. Stream!N' = Stream!N
  BY DEF Stream!N
<1> QED
  BY <1>1, <1>2, <1>3, <1>4 DEF StreamInv, StreamTypes, Turns, Ends, Collected, InStep, Stream!Bytes

(* Only the sender's EOT is taken for one, and it comes after all blocks.  *)
LEMMA ReceiveEotKeeps ==
  ASSUME StreamAssumed, StreamInv, Stream!ReceiveEot
  PROVE  /\ StreamInv' /\ image' = image /\ streamPc' = "eof" /\ streamPc = "receive"
         /\ Len(image) = Stream!N
<1>1. /\ streamPc = "receive" /\ streamPc' = "eof" /\ streamToBoard # <<>> /\ Head(streamToBoard) = 4 /\ packet = <<>>
      /\ streamToBoard' = Tail(streamToBoard)
      /\ UNCHANGED <<streamSending, streamToHost, packet, image>>
  BY DEF Stream!ReceiveEot, Stream!ReadByte, Stream!AtEnd, Stream!EOT
<1>2. streamSending \notin 1..Stream!N
  <2>1. Len(packet) = 0 /\ Head(streamToBoard) = streamToBoard[1]
    BY <1>1
  <2>2. At(1) = 4
    BY <1>1, <2>1 DEF At
  <2> QED
    BY <1>1, <2>2 DEF StreamInv, InStep
<1>3. streamSending = Stream!N + 1 /\ streamToBoard = <<4>> /\ streamToHost = <<>> /\ Stream!N \in Nat /\ Stream!N >= 1
  BY <1>1, <1>2, Reading
<1>4. streamToBoard' = <<>> /\ streamToBoard' \in Seq(Stream!Bytes)
  BY <1>1, <1>3, EmptySeq
<1>5. Len(image) = Stream!N /\ Stream!N' = Stream!N
  BY <1>3 DEF StreamInv, Collected, Stream!N
<1> QED
  BY <1>1, <1>2, <1>3, <1>4, <1>5 DEF StreamInv, StreamTypes, Turns, Ends, Collected, InStep, Stream!Bytes

(* A byte goes from the line into the packet. *)
LEMMA BytePassed ==
  ASSUME StreamTypes, streamToBoard # <<>>, NEW b, b = Head(streamToBoard)
  PROVE  /\ b \in Stream!Bytes /\ Append(packet, b) \in Seq(Stream!Bytes)
         /\ Tail(streamToBoard) \in Seq(Stream!Bytes)
         /\ Len(Append(packet, b)) = Len(packet) + 1 /\ Len(packet) \in Nat
         /\ Len(Tail(streamToBoard)) = Len(streamToBoard) - 1 /\ Len(streamToBoard) \in Nat
         /\ \A i \in 1..(Len(packet) + 1) : Append(packet, b)[i] = At(i)
         /\ \A i \in 1..Len(Tail(streamToBoard)) : Tail(streamToBoard)[i] = streamToBoard[i + 1]
<1>1. packet \in Seq(Stream!Bytes) /\ streamToBoard \in Seq(Stream!Bytes)
  BY DEF StreamTypes
<1>2. /\ b \in Stream!Bytes /\ Tail(streamToBoard) \in Seq(Stream!Bytes)
      /\ Len(Tail(streamToBoard)) = Len(streamToBoard) - 1
      /\ \A i \in 1..Len(Tail(streamToBoard)) : Tail(streamToBoard)[i] = streamToBoard[i + 1]
  BY <1>1, HeadTailProperties
<1>3. Len(packet) \in Nat /\ Len(streamToBoard) \in Nat /\ b = streamToBoard[1]
  BY <1>1, LenProperties
<1>4. /\ Append(packet, b) \in Seq(Stream!Bytes) /\ Len(Append(packet, b)) = Len(packet) + 1
      /\ \A i \in 1..Len(packet) : Append(packet, b)[i] = packet[i]
      /\ Append(packet, b)[Len(packet) + 1] = b
  BY <1>1, <1>2, AppendProperties
<1>5. ASSUME NEW i \in 1..(Len(packet) + 1)
      PROVE  Append(packet, b)[i] = At(i)
  <2>1. CASE i <= Len(packet)
    BY <1>3, <1>4, <1>5, <2>1 DEF At
  <2>2. CASE i = Len(packet) + 1
    BY <1>3, <1>4, <2>2 DEF At
  <2> QED
    BY <1>3, <1>5, <2>1, <2>2
<1> QED
  BY <1>2, <1>3, <1>4, <1>5

(* A byte that does not end a packet keeps the receiver in step.           *)
LEMMA ReceiveByteKeeps ==
  ASSUME StreamAssumed, StreamInv, Stream!ReceiveByte
  PROVE  StreamInv' /\ UNCHANGED <<streamPc, image>>
<1>1. PICK b \in Stream!Bytes :
        /\ Stream!ReadByte(b) /\ ~Stream!AtEnd(b) /\ ~Stream!Full(Append(packet, b)) /\ packet' = Append(packet, b)
  BY DEF Stream!ReceiveByte
<1>2. /\ streamPc = "receive" /\ streamToBoard # <<>> /\ b = Head(streamToBoard)
      /\ streamToBoard' = Tail(streamToBoard)
      /\ UNCHANGED <<streamSending, streamToHost, streamPc, image>>
  BY <1>1 DEF Stream!ReceiveByte, Stream!ReadByte
<1>3. /\ packet' \in Seq(Stream!Bytes) /\ streamToBoard' \in Seq(Stream!Bytes)
      /\ Len(packet') = Len(packet) + 1 /\ Len(packet) \in Nat
      /\ Len(streamToBoard') = Len(streamToBoard) - 1 /\ Len(streamToBoard) \in Nat
      /\ \A i \in 1..(Len(packet) + 1) : packet'[i] = At(i)
      /\ \A i \in 1..(Len(streamToBoard) - 1) : streamToBoard'[i] = streamToBoard[i + 1]
  <2>1. StreamTypes
    BY DEF StreamInv
  <2> QED
    BY <1>1, <1>2, <2>1, BytePassed
<1>4. streamSending \in 1..Stream!N /\ streamToHost = <<>> /\ Stream!N \in Nat /\ Stream!N >= 1
  <2>1. streamToBoard = <<4>> => Head(streamToBoard) = 4
    OBVIOUS
  <2> QED
    BY <1>1, <1>2, <2>1, Reading DEF Stream!AtEnd, Stream!EOT
<1>5. Len(packet) + Len(streamToBoard) = 5 /\ At(1) # 4 /\ OneOff
  BY <1>2, <1>4 DEF StreamInv, InStep
<1>6. Len(streamToBoard') > 0
  BY <1>1, <1>3, <1>5 DEF Stream!Full, Stream!PacketSize
<1>7. streamToBoard' # <<>>
  BY <1>6
<1>8. ASSUME NEW i \in 1..5
      PROVE  At(i)' = At(i)
  <2>1. CASE i <= Len(packet) + 1
    BY <1>3, <2>1, <1>8 DEF At
  <2>2. CASE i > Len(packet) + 1
    <3>1. i - (Len(packet) + 1) \in 1..(Len(streamToBoard) - 1)
      BY <1>3, <1>5, <1>8, <2>2
    <3>2. streamToBoard'[i - (Len(packet) + 1)] = streamToBoard[(i - (Len(packet) + 1)) + 1]
      BY <1>3, <3>1
    <3>3. (i - (Len(packet) + 1)) + 1 = i - Len(packet)
      BY <1>3, <1>8
    <3> QED
      BY <1>3, <1>8, <2>2, <3>2, <3>3 DEF At
  <2> QED
    BY <1>3, <1>8, <2>1, <2>2
<1>9. InStep'
  <2>1. OneOff'
    BY <1>2, <1>5, <1>8 DEF OneOff
  <2>2. Len(packet') + Len(streamToBoard') = 5
    BY <1>3, <1>5
  <2>3. At(1)' # 4
    BY <1>5, <1>8
  <2> QED
    BY <2>1, <2>2, <2>3 DEF InStep
<1> QED
  BY <1>2, <1>3, <1>4, <1>7, <1>9 DEF StreamInv, StreamTypes, Turns, Ends, Collected, Stream!Bytes, Stream!N

(* A sound packet, one byte of which at most is wrong, is the sender's.    *)
LEMMA SoundIsSenders ==
  ASSUME StreamAssumed, NEW k \in 1..Stream!N, NEW p,
         \A i, j \in 1..5 : p[i] # Stream!Packet(k)[i] /\ p[j] # Stream!Packet(k)[j] => i = j,
         p[2] \in Stream!Bytes, Stream!Sound(p)
  PROVE  p[2] = k % Numbers /\ p[4] = File[k]
<1>1. k % Numbers \in 0..(Numbers - 1) /\ p[2] \in 0..(Numbers - 1) /\ Numbers \in Nat
  BY FileHasBlocks, ModRange
<1>2. p[5] = p[4] /\ p[3] = (Numbers - 1) - p[2]
  BY DEF Stream!Sound
<1>3. p[2] = k % Numbers
  <2>1. p[2] = Stream!Packet(k)[2] \/ p[3] = Stream!Packet(k)[3]
    OBVIOUS
  <2>2. CASE p[3] = Stream!Packet(k)[3]
    <3>1. (Numbers - 1) - p[2] = (Numbers - 1) - (k % Numbers)
      BY <2>2, <1>2, PacketBytes
    <3> DEFINE a == k % Numbers
               c == p[2]
    <3>2. a \in Int /\ c \in Int /\ Numbers \in Int /\ (Numbers - 1) - c = (Numbers - 1) - a
      BY <3>1, <1>1
    <3> HIDE DEF a, c
    <3>3. c = a
      BY <3>2
    <3> QED
      BY <3>3 DEF a, c
  <2> QED
    BY <2>1, <2>2, PacketBytes
<1>4. p[4] = File[k]
  <2>1. p[4] = Stream!Packet(k)[4] \/ p[5] = Stream!Packet(k)[5]
    OBVIOUS
  <2> QED
    BY <2>1, <1>2, PacketBytes
<1> QED
  BY <1>3, <1>4

(* Numbers one apart are different modulo Numbers. *)
LEMMA NeighboursDiffer ==
  ASSUME StreamAssumed, NEW k \in Nat
  PROVE  k % Numbers # (k + 1) % Numbers
<1> SUFFICES ASSUME k % Numbers = (k + 1) % Numbers
             PROVE  FALSE
  OBVIOUS
<1>1. Numbers \in Nat /\ Numbers > 0 /\ k \in Int /\ k + 1 \in Int /\ k - (k + 1) < Numbers /\ (k + 1) - k < Numbers
  BY FileHasBlocks
<1> DEFINE l == k + 1
<1>2. l \in Int /\ k % Numbers = l % Numbers /\ k - l < Numbers /\ l - k < Numbers
  BY <1>1
<1> HIDE DEF l
<1>3. k = l
  BY <1>1, <1>2, ModUnique
<1> QED
  BY <1>3 DEF l

(* What the receiver does with a packet: it stores the block that is due,  *)
(* and acknowledges nothing that it has not stored.                        *)
LEMMA PacketAnswered ==
  ASSUME StreamAssumed, StreamInv, Stream!ReceivePacket
  PROVE  /\ streamSending \in 1..Stream!N /\ packet' = <<>> /\ streamToBoard' = <<>>
         /\ streamToBoard' \in Seq(Stream!Bytes)
         /\ streamPc' = "receive" /\ streamPc = "receive" /\ streamSending' = streamSending
         /\ \/ /\ Len(image) = streamSending - 1 /\ image' = Append(image, File[streamSending])
               /\ streamToHost' = <<"ACK">>
            \/ image' = image /\ Len(image) = streamSending /\ streamToHost' = <<"ACK">>
            \/ image' = image /\ streamToHost' = <<"NAK">>
<1>1. PICK b \in Stream!Bytes :
        /\ Stream!ReadByte(b) /\ ~Stream!AtEnd(b) /\ Stream!Full(Append(packet, b))
        /\ Stream!Answer(Append(packet, b))
  BY DEF Stream!ReceivePacket
<1>2. /\ streamPc = "receive" /\ streamToBoard # <<>> /\ b = Head(streamToBoard)
      /\ streamToBoard' = Tail(streamToBoard) /\ packet' = <<>>
      /\ UNCHANGED <<streamSending, streamPc>>
  BY <1>1 DEF Stream!ReceivePacket, Stream!ReadByte
<1> DEFINE p == Append(packet, b)
           k == streamSending
<1>3. /\ p \in Seq(Stream!Bytes) /\ Len(p) = Len(packet) + 1 /\ Len(packet) \in Nat
      /\ streamToBoard' \in Seq(Stream!Bytes)
      /\ Len(streamToBoard') = Len(streamToBoard) - 1 /\ Len(streamToBoard) \in Nat
      /\ \A i \in 1..(Len(packet) + 1) : p[i] = At(i)
  <2>1. StreamTypes
    BY DEF StreamInv
  <2> QED
    BY <1>2, <2>1, BytePassed
<1>4. k \in 1..Stream!N /\ streamToHost = <<>> /\ Stream!N \in Nat /\ Stream!N >= 1 /\ Len(image) \in Nat
  <2>1. streamToBoard = <<4>> => Head(streamToBoard) = 4
    OBVIOUS
  <2> QED
    BY <1>1, <1>2, <2>1, Reading DEF Stream!AtEnd, Stream!EOT
<1>5. Len(packet) + Len(streamToBoard) = 5 /\ OneOff
  BY <1>2, <1>4 DEF StreamInv, InStep
<1>6. Len(p) = 5 /\ Len(packet) = 4
  <2>1. Len(p) = 5
    BY <1>1 DEF Stream!Full, Stream!PacketSize
  <2>2. PICK l \in Nat : l = Len(packet)
    BY <1>3
  <2>3. Len(p) = l + 1
    BY <1>3, <2>2
  <2>4. l + 1 = 5
    BY <2>1, <2>3
  <2>5. l = 4
    BY <2>4
  <2> QED
    BY <2>1, <2>2, <2>5
<1>7. streamToBoard' = <<>>
  BY <1>3, <1>5, <1>6, EmptySeq
<1>8. Len(image) = k - 1 \/ Len(image) = k
  BY <1>4 DEF StreamInv, Collected
<1>9. p[2] \in Stream!Bytes
  BY <1>3, <1>6, ElementOfSeq
<1>10. \A i, j \in 1..5 : p[i] # Stream!Packet(k)[i] /\ p[j] # Stream!Packet(k)[j] => i = j
  BY <1>3, <1>5, <1>6 DEF OneOff
<1> HIDE DEF p
<1>11. Stream!Sound(p) => p[2] = k % Numbers /\ p[4] = File[k]
  BY <1>4, <1>9, <1>10, SoundIsSenders
<1>12. k \in Nat /\ Stream!blockNr = Len(image) + 1
  BY <1>4 DEF Stream!blockNr
<1>13. k % Numbers # (k + 1) % Numbers
  BY <1>12, NeighboursDiffer
<1>14. Stream!Sound(p) /\ Stream!IsNext(p) => Len(image) = k - 1
  <2>1. Len(image) = k => Stream!blockNr = k + 1
    BY <1>12
  <2> QED
    BY <1>8, <1>11, <1>13, <2>1 DEF Stream!IsNext
<1>15. Stream!Sound(p) /\ ~Stream!IsNext(p) => Len(image) = k
  <2>1. Len(image) = k - 1 => Stream!blockNr = k
    BY <1>12
  <2> QED
    BY <1>8, <1>11, <2>1 DEF Stream!IsNext
<1>16. Append(streamToHost, "ACK") = <<"ACK">> /\ Append(streamToHost, "NAK") = <<"NAK">>
  BY <1>4
<1>17. \/ Len(image) = k - 1 /\ image' = Append(image, File[k]) /\ streamToHost' = <<"ACK">>
       \/ image' = image /\ Len(image) = k /\ streamToHost' = <<"ACK">>
       \/ image' = image /\ streamToHost' = <<"NAK">>
  <2>1. Stream!Answer(p)
    BY <1>1 DEF p
  <2>2. CASE Stream!Sound(p) /\ Stream!IsNext(p) /\ image' = Append(image, p[4]) /\ Stream!Reply(Stream!ACK)
    BY <2>2, <1>11, <1>14, <1>16 DEF Stream!Reply, Stream!ACK
  <2>3. CASE Stream!Sound(p) /\ ~Stream!IsNext(p) /\ image' = image /\ Stream!Reply(Stream!ACK)
    BY <2>3, <1>15, <1>16 DEF Stream!Reply, Stream!ACK
  <2>4. CASE image' = image /\ Stream!Reply(Stream!NAK)
    BY <2>4, <1>16 DEF Stream!Reply, Stream!NAK
  <2> QED
    BY <2>1, <2>2, <2>3, <2>4 DEF Stream!Answer
<1> QED
  BY <1>2, <1>3, <1>4, <1>7, <1>17

(* The image grows by the block that is due, and an ACK means that it has. *)
LEMMA ReceivePacketKeeps ==
  ASSUME StreamAssumed, StreamInv, Stream!ReceivePacket
  PROVE  StreamInv'
<1>1. /\ streamSending \in 1..Stream!N /\ packet' = <<>> /\ streamToBoard' = <<>>
      /\ streamToBoard' \in Seq(Stream!Bytes)
      /\ streamPc' = "receive" /\ streamPc = "receive" /\ streamSending' = streamSending
      /\ \/ /\ Len(image) = streamSending - 1 /\ image' = Append(image, File[streamSending])
            /\ streamToHost' = <<"ACK">>
         \/ image' = image /\ Len(image) = streamSending /\ streamToHost' = <<"ACK">>
         \/ image' = image /\ streamToHost' = <<"NAK">>
  BY PacketAnswered
<1>2. Stream!N \in Nat /\ Stream!N >= 1 /\ image \in Seq(Stream!Bytes) /\ Len(image) \in Nat
  BY FileHasBlocks, LenProperties DEF StreamInv, StreamTypes
<1>3. /\ streamToHost' \in Seq({"ACK", "NAK"}) /\ Len(streamToHost') = 1
      /\ streamToHost'[1] = "ACK" => streamToHost' = <<"ACK">>
  <2>1. streamToHost' = <<"ACK">> \/ streamToHost' = <<"NAK">>
    BY <1>1
  <2>2. <<"ACK">> \in Seq({"ACK", "NAK"}) /\ Len(<<"ACK">>) = 1
    OBVIOUS
  <2>3. <<"NAK">> \in Seq({"ACK", "NAK"}) /\ Len(<<"NAK">>) = 1 /\ <<"NAK">>[1] # "ACK"
    OBVIOUS
  <2> QED
    BY <2>1, <2>2, <2>3
<1>4. <<"NAK">> # <<"ACK">>
  <2>1. <<"NAK">>[1] # <<"ACK">>[1]
    OBVIOUS
  <2> QED
    BY <2>1
<1>5. /\ image' \in Seq(Stream!Bytes)
      /\ \A b \in 1..Len(image') : b <= Stream!N /\ image'[b] = File[b]
      /\ Len(image') = streamSending - 1 \/ Len(image') = streamSending
      /\ streamToHost'[1] = "ACK" => Len(image') = streamSending
  <2>1. CASE image' = image
    BY <2>1, <1>1, <1>2, <1>3, <1>4 DEF StreamInv, Collected
  <2>2. CASE Len(image) = streamSending - 1 /\ image' = Append(image, File[streamSending])
    <3>1. /\ image' \in Seq(Stream!Bytes) /\ Len(image') = Len(image) + 1
          /\ \A b \in 1..Len(image) : image'[b] = image[b]
          /\ image'[Len(image) + 1] = File[streamSending]
      BY <2>2, <1>1, <1>2, FileHasBlocks, AppendProperties
    <3>2. Len(image') = streamSending
      BY <3>1, <2>2, <1>1, <1>2
    <3>3. ASSUME NEW b \in 1..Len(image')
          PROVE  b <= Stream!N /\ image'[b] = File[b]
      <4>1. CASE b \in 1..Len(image)
        BY <3>1, <4>1 DEF StreamInv, Collected
      <4>2. CASE b = Len(image) + 1
        BY <3>1, <3>2, <4>2, <1>1, <1>2
      <4> QED
        BY <3>1, <3>3, <4>1, <4>2, <1>2
    <3> QED
      BY <3>1, <3>2, <3>3
  <2> QED
    BY <2>1, <2>2, <1>1
<1>6. StreamTypes' /\ Turns'
  BY <1>1, <1>3, <1>5 DEF StreamInv, StreamTypes, Turns, Stream!N, Stream!Bytes
<1>7. Ends' /\ InStep'
  BY <1>1, <1>2 DEF StreamInv, Ends, InStep, Stream!N
<1>8. Collected'
  BY <1>1, <1>2, <1>5 DEF Collected, Stream!N
<1> QED
  BY <1>6, <1>7, <1>8 DEF StreamInv

(* A reply that is lost is repeated after a timeout. *)
LEMMA LoseReplyKeeps ==
  ASSUME StreamAssumed, StreamInv, Stream!LoseReply
  PROVE  StreamInv' /\ UNCHANGED <<streamPc, image>>
<1>1. /\ streamToHost # <<>> /\ streamToHost' = Tail(streamToHost)
      /\ UNCHANGED <<streamSending, streamToBoard, streamPc, packet, image>>
  BY DEF Stream!LoseReply, Stream!receiverVars
<1>2. streamToHost \in Seq({"ACK", "NAK"}) /\ Len(streamToHost) = 1
  BY <1>1 DEF StreamInv, StreamTypes, Turns
<1>3. streamToHost' \in Seq({"ACK", "NAK"}) /\ Len(streamToHost') = 0
  BY <1>1, <1>2, HeadTailProperties
<1>4. streamToHost' = <<>>
  BY <1>3, EmptySeq
<1> QED
  BY <1>1, <1>3, <1>4 DEF StreamInv, StreamTypes, Turns, Ends, Collected, InStep, OneOff, At, Stream!N, Stream!Bytes

(* Noise makes one byte of the sender's packet another one. *)
LEMMA DamageByteKeeps ==
  ASSUME StreamAssumed, StreamInv, Stream!DamageByte
  PROVE  StreamInv' /\ UNCHANGED <<streamPc, image>>
<1>1. PICK n \in 1..Len(streamToBoard), b \in Stream!Bytes :
        /\ ~(b = 4 /\ packet = <<>> /\ n = 1)
        /\ streamToBoard' = [streamToBoard EXCEPT ![n] = b]
  BY DEF Stream!DamageByte, Stream!EOT
<1>2. /\ streamSending \in 1..Stream!N /\ packet \o streamToBoard = Stream!Packet(streamSending)
      /\ UNCHANGED <<streamSending, streamToHost, streamPc, packet, image>>
  BY DEF Stream!DamageByte, Stream!receiverVars
<1>3. /\ streamToBoard \in Seq(Stream!Bytes) /\ packet \in Seq(Stream!Bytes)
      /\ Len(streamToBoard) \in Nat /\ Len(packet) \in Nat
  BY LenProperties DEF StreamInv, StreamTypes
<1>4. /\ streamToBoard' \in Seq(Stream!Bytes) /\ Len(streamToBoard') = Len(streamToBoard)
      /\ \A j \in 1..Len(streamToBoard) : streamToBoard'[j] = IF j = n THEN b ELSE streamToBoard[j]
  BY <1>1, <1>3, ExceptSeq
<1>5. Len(packet) + Len(streamToBoard) = 5
  <2>1. Len(packet \o streamToBoard) = Len(packet) + Len(streamToBoard)
    BY <1>3, ConcatProperties
  <2>2. Len(Stream!Packet(streamSending)) = 5
    BY <1>2, PacketBytes
  <2> QED
    BY <1>2, <2>1, <2>2
<1>6. \A i \in 1..5 : At(i) = Stream!Packet(streamSending)[i]
  BY <1>2, <1>3, <1>5, ConcatProperties DEF At
<1>7. ASSUME NEW i \in 1..5, i # Len(packet) + n
      PROVE  At(i)' = Stream!Packet(streamSending)[i]
  <2>1. CASE i <= Len(packet)
    BY <1>2, <1>6, <1>7, <2>1 DEF At
  <2>2. CASE i > Len(packet)
    <3>1. i - Len(packet) \in 1..Len(streamToBoard) /\ i - Len(packet) # n
      BY <1>3, <1>5, <1>7, <2>2
    <3>2. streamToBoard'[i - Len(packet)] = streamToBoard[i - Len(packet)]
      BY <1>4, <3>1
    <3> QED
      BY <1>2, <1>3, <1>6, <1>7, <2>2, <3>2 DEF At
  <2> QED
    BY <1>3, <1>7, <2>1, <2>2
<1>8. OneOff'
  BY <1>2, <1>7 DEF OneOff
<1>9. At(1)' # 4
  <2>1. CASE 1 # Len(packet) + n
    BY <1>7, <1>2, <2>1, PacketBytes
  <2>2. CASE 1 = Len(packet) + n
    <3>1. Len(packet) = 0 /\ n = 1
      BY <2>2, <1>1, <1>3
    <3>2. packet = <<>>
      BY <3>1, <1>3, EmptySeq
    <3>3. At(1)' = b
      BY <1>2, <1>4, <3>1 DEF At
    <3> QED
      BY <1>1, <3>1, <3>2, <3>3
  <2> QED
    BY <2>1, <2>2
<1>10. streamToBoard # <<>> /\ streamToBoard' # <<>>
  <2>1. Len(streamToBoard) > 0 /\ Len(streamToBoard') > 0
    BY <1>1, <1>3, <1>4
  <2> QED
    BY <2>1
<1>11. InStep'
  <2>1. Len(packet') + Len(streamToBoard') = 5
    BY <1>2, <1>4, <1>5
  <2> QED
    BY <1>8, <1>9, <2>1 DEF InStep
<1>12. streamSending # 0 /\ streamSending # Stream!N + 1
  BY <1>2, FileHasBlocks
<1> QED
  BY <1>2, <1>4, <1>10, <1>11, <1>12
     DEF StreamInv, StreamTypes, Turns, Ends, Collected, Stream!Bytes, Stream!N

(* At the start there is nothing on the line. *)
LEMMA StreamBegins ==
  ASSUME StreamAssumed, Stream!Init
  PROVE  StreamInv
<1>1. /\ streamToBoard = <<>> /\ streamToHost = <<>> /\ packet = <<>> /\ image = <<>>
      /\ streamSending = 0 /\ streamPc = "start"
  BY DEF Stream!Init
<1>2. Len(image) = 0 /\ Stream!N \in Nat /\ Stream!N >= 1
  BY <1>1, FileHasBlocks
<1>3. StreamTypes
  BY <1>1, <1>2, EmptySeq DEF StreamTypes
<1> QED
  BY <1>1, <1>2, <1>3 DEF StreamInv, Turns, Ends, Collected, InStep

(* A step of nobody changes nothing. *)
LEMMA StreamStutters ==
  ASSUME StreamInv, UNCHANGED Stream!vars
  PROVE  StreamInv' /\ UNCHANGED <<streamPc, image>>
BY DEF Stream!vars, StreamInv, StreamTypes, Turns, Ends, Collected, InStep, OneOff, At, Stream!N, Stream!Bytes

(* All steps together. *)
LEMMA StreamKeeps ==
  ASSUME StreamAssumed, StreamInv, [Stream!Next]_Stream!vars
  PROVE  StreamInv'
BY SenderKeeps, XmodemReceiveKeeps, ReceiveEotKeeps, ReceiveByteKeeps, ReceivePacketKeeps, LoseReplyKeeps,
   DamageByteKeeps, StreamStutters DEF Stream!Next, Stream!Receiver, Stream!Line

(* The blocks that the collected payloads are. *)
Blocks(i) == [b \in 1..Len(i) |-> IF b <= Stream!N /\ i[b] = File[b] THEN b ELSE 0]

(* They are the first blocks of the file. *)
LEMMA BlocksNumbered ==
  ASSUME NEW i, Len(i) \in Nat, \A b \in 1..Len(i) : b <= Stream!N /\ i[b] = File[b]
  PROVE  Blocks(i) = [b \in 1..Len(i) |-> b] /\ Blocks(i) \in Seq(Nat) /\ Len(Blocks(i)) = Len(i)
<1>1. Blocks(i) = [b \in 1..Len(i) |-> b]
  BY DEF Blocks
<1>2. Blocks(i) \in [1..Len(i) -> Nat]
  BY <1>1
<1>3. Blocks(i) \in Seq(Nat)
  BY <1>2
<1>4. DOMAIN Blocks(i) = 1..Len(i) /\ DOMAIN Blocks(i) = 1..Len(Blocks(i)) /\ Len(Blocks(i)) \in Nat
  BY <1>2, <1>3, LenProperties
<1>5. Len(Blocks(i)) = Len(i)
  BY <1>4
<1> QED
  BY <1>1, <1>3, <1>5

(* One block more. *)
LEMMA NumbersGrow ==
  ASSUME NEW n \in Nat
  PROVE  [b \in 1..(n + 1) |-> b] = Append([b \in 1..n |-> b], n + 1)
<1> DEFINE s == [b \in 1..n |-> b]
           t == [b \in 1..(n + 1) |-> b]
<1>1. s \in Seq(Nat) /\ Len(s) = n /\ \A b \in 1..n : s[b] = b
  <2>1. s \in [1..n -> Nat]
    OBVIOUS
  <2>2. s \in Seq(Nat)
    BY <2>1
  <2>3. DOMAIN s = 1..n /\ DOMAIN s = 1..Len(s) /\ Len(s) \in Nat
    BY <2>1, <2>2, LenProperties
  <2> QED
    BY <2>2, <2>3
<1>2. t \in Seq(Nat) /\ Len(t) = n + 1 /\ \A b \in 1..(n + 1) : t[b] = b
  <2>1. t \in [1..(n + 1) -> Nat]
    OBVIOUS
  <2>2. t \in Seq(Nat)
    BY <2>1
  <2>3. DOMAIN t = 1..(n + 1) /\ DOMAIN t = 1..Len(t) /\ Len(t) \in Nat
    BY <2>1, <2>2, LenProperties
  <2> QED
    BY <2>2, <2>3
<1> HIDE DEF s, t
<1>3. /\ Append(s, n + 1) \in Seq(Nat) /\ Len(Append(s, n + 1)) = n + 1
      /\ \A b \in 1..n : Append(s, n + 1)[b] = s[b]
      /\ Append(s, n + 1)[n + 1] = n + 1
  BY <1>1, AppendProperties
<1>4. ASSUME NEW b \in 1..(n + 1)
      PROVE  t[b] = Append(s, n + 1)[b]
  BY <1>1, <1>2, <1>3, <1>4
<1>5. t = Append(s, n + 1)
  BY <1>2, <1>3, <1>4, SeqEqual
<1> QED
  BY <1>5 DEF s, t

(* Every step delivers a block, ends the transfer, or is none of it.       *)
LEMMA StreamImplements ==
  ASSUME StreamAssumed, StreamInv, StreamInv', [Stream!Next]_Stream!vars
  PROVE  [Stream!Transfer!Next]_(Stream!Transfer!vars)
<1> SUFFICES Stream!Transfer!Next \/ UNCHANGED Stream!Transfer!vars
  OBVIOUS
<1>1. CASE UNCHANGED <<streamPc, image>>
  BY <1>1 DEF Stream!Transfer!vars, Stream!N
<1>2. CASE image' = image /\ streamPc' = "receive" /\ streamPc = "start"
  BY <1>2 DEF Stream!Transfer!vars, Stream!N
<1>3. CASE Stream!ReceiveEot
  BY <1>3, ReceiveEotKeeps DEF Stream!Transfer!Next, Stream!Transfer!Finish, Stream!N
<1>4. CASE /\ streamSending \in 1..Stream!N /\ Len(image) = streamSending - 1
           /\ image' = Append(image, File[streamSending]) /\ streamPc' = "receive" /\ streamPc = "receive"
  <2>1. Stream!N \in Nat /\ image \in Seq(Stream!Bytes) /\ image' \in Seq(Stream!Bytes)
    BY FileHasBlocks DEF StreamInv, StreamTypes, Stream!Bytes
  <2>2. PICK n \in Nat : n = Len(image)
    BY <2>1, LenProperties
  <2>3. n < Stream!N
    BY <1>4, <2>1, <2>2
  <2>4. Len(image') = n + 1
    BY <1>4, <2>1, <2>2, FileHasBlocks, AppendProperties
  <2>5. Stream!N' = Stream!N
    BY DEF Stream!N
  <2>6. \A b \in 1..Len(image) : b <= Stream!N /\ image[b] = File[b]
    BY DEF StreamInv, Collected
  <2>7. \A b \in 1..Len(image') : b <= Stream!N /\ image'[b] = File[b]
    BY <2>5 DEF StreamInv, Collected
  <2>8. Blocks(image) = [b \in 1..n |-> b] /\ Len(Blocks(image)) = n
    BY <2>2, <2>6, BlocksNumbered
  <2>9. Blocks(image') = [b \in 1..(n + 1) |-> b]
    BY <2>4, <2>7, BlocksNumbered
  <2>10. Blocks(image') = Append(Blocks(image), Len(Blocks(image)) + 1)
    BY <2>8, <2>9, NumbersGrow
  <2>11. (streamPc = "eof") = FALSE /\ (streamPc' = "eof") = (streamPc = "eof")
    BY <1>4
  <2>12. Len(Blocks(image)) < Stream!N
    BY <2>3, <2>8
  <2>13. Stream!Transfer!Deliver
    BY <2>5, <2>10, <2>11, <2>12 DEF Stream!Transfer!Deliver, Blocks
  <2> QED
    BY <2>13 DEF Stream!Transfer!Next
<1>5. CASE Stream!ReceivePacket
  BY <1>1, <1>4, <1>5, PacketAnswered
<1> QED
  BY <1>1, <1>2, <1>3, <1>5, SenderKeeps, XmodemReceiveKeeps, ReceiveByteKeeps, LoseReplyKeeps, DamageByteKeeps,
     StreamStutters DEF Stream!Next, Stream!Receiver, Stream!Line

(* stage1.c 75-170, byte by byte: the receiver stays in step with the      *)
(* packets, takes nothing but the sender's EOT for the end, and collects   *)
(* the blocks of the file once each and in order, whatever bytes are       *)
(* damaged, as long as it is one of a packet at most and none is lost.     *)
THEOREM StreamRefinement ==
  ASSUME StreamAssumed
  PROVE  Stream!Spec => Stream!Refines
<1>1. Stream!Init => StreamInv
  BY StreamBegins
<1>2. StreamInv /\ [Stream!Next]_Stream!vars => StreamInv'
  BY StreamKeeps
<1>3. Stream!Init => Stream!Transfer!Init
  <2>1. ASSUME Stream!Init PROVE Stream!Transfer!Init
    <3>1. Len(image) = 0 /\ streamPc = "start"
      BY <2>1 DEF Stream!Init
    <3>2. Len(Blocks(image)) = 0 /\ Blocks(image) \in Seq(Nat)
      BY <3>1, BlocksNumbered
    <3>3. Blocks(image) = <<>>
      BY <3>2, EmptySeq
    <3> QED
      BY <3>1, <3>3 DEF Stream!Transfer!Init, Blocks
  <2> QED
    BY <2>1
<1>4. StreamInv /\ StreamInv' /\ [Stream!Next]_Stream!vars => [Stream!Transfer!Next]_(Stream!Transfer!vars)
  BY StreamImplements
<1> QED
  BY <1>1, <1>2, <1>3, <1>4, PTL DEF Stream!Spec, Stream!Refines, Stream!Transfer!Spec
=============================================================================
