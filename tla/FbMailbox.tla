----------------------------- MODULE FbMailbox ------------------------------
(***************************************************************************)
(* How LK on the ARM of a Raspberry Pi 3 asks VideoCore for a framebuffer  *)
(* (platform/bcm28xx/mailbox.c): it fills fb_desc in, posts its address,   *)
(* waits for an answer, and VideoCore has written its part of fb_desc by   *)
(* then.  VideoCore does not see the ARM's data cache, whose line holds,   *)
(* beside fb_desc, whatever variable the linker has put next to it.        *)
(*                                                                         *)
(* VideoCore and the cache are modelled from how the code uses them.  Time *)
(* is left out: a wait may end in a timeout whenever there is nothing yet. *)
(***************************************************************************)
EXTENDS Naturals, Sequences

CONSTANTS
  MaxAttempts,  (* MAILBOX_MAX_READ_ATTEMPTS, 20: of mailbox_read's loop *)
  ErrAttempts,  (* MAX_MAILBOX_READ_ATTEMPTS, 8: from there on it fails *)
  MaxOther,     (* bound: answers of VideoCore on other channels *)
  MaxNeighbour  (* bound: writes to the variable next to fb_desc *)

ASSUME MailboxAssumption ==
  /\ ErrAttempts \in Nat /\ MaxAttempts \in Nat /\ 0 < ErrAttempts /\ ErrAttempts <= MaxAttempts
  /\ MaxOther \in Nat /\ MaxNeighbour \in Nat

VARIABLES
  memory,   (* the cache line in memory: fb_desc and its neighbour *)
  line,     (* the line in the cache, or NoLine *)
  full,     (* is the mailbox to VideoCore full of what an earlier program wrote? *)
  posted,    (* is the request in that mailbox? *)
  answers,  (* the mailbox to the ARM: the channel of each message *)
  fbPc,     (* init_framebuffer: where it is *)
  attempts, (* mailbox_read's attempts *)
  fbStatus, (* what init_framebuffer returns *)
  screen,   (* what display_get_framebuffer returns: "none" as long as it is not called *)
  others,   (* answers on other channels so far, for the bound *)
  writes,   (* writes to the neighbour so far, for the bound *)
  spoilt    (* history: was the neighbour written while the request was out? *)

mailboxVars == <<memory, line, full, posted, answers, fbPc, attempts, fbStatus, screen,
                 others, writes, spoilt>>

(* What fb_desc has in it, and the mailbox's channels: ours and others.    *)
Descs    == {"zeros", "request", "answer"}
Channels == {"framebuffer", "other"}

NoLine == [desc |-> "none", neighbour |-> 0, dirty |-> FALSE]

(* What a load or a store of the ARM finds: the line, if need be fetched.  *)
Cached == IF line = NoLine THEN [desc |-> memory.desc, neighbour |-> memory.neighbour, dirty |-> FALSE]
                           ELSE line

WrittenBack == IF line.dirty THEN [desc |-> line.desc, neighbour |-> line.neighbour] ELSE memory

Fb(from, to) == fbPc = from /\ fbPc' = to

-----------------------------------------------------------------------------
(* init_framebuffer and mailbox_get_framebuffer. *)

FillIn ==
  /\ Fb("idle", "filled")
  /\ line' = [Cached EXCEPT !.desc = "request", !.dirty = TRUE]
  /\ UNCHANGED <<memory, full, posted, answers, attempts, fbStatus, screen, others, writes, spoilt>>

(* arch_clean_cache_range: what is dirty is written back, and stays.       *)
Clean ==
  /\ Fb("filled", "write")
  /\ memory' = WrittenBack /\ line' = [line EXCEPT !.dirty = FALSE]
  /\ UNCHANGED <<full, posted, answers, attempts, fbStatus, screen, others, writes, spoilt>>

(* mailbox_write: it waits for room, but not forever.                      *)
MailboxWrite ==
  /\ \/ ~full /\ Fb("write", "read") /\ posted' = TRUE /\ UNCHANGED fbStatus
     \/ full /\ Fb("write", "done") /\ fbStatus' = "timed out" /\ UNCHANGED posted
  /\ UNCHANGED <<memory, line, full, answers, attempts, screen, others, writes, spoilt>>

(* mailbox_read: the first answer on our channel, or the last attempt.  An *)
(* answer that comes late in the count is an error as well.                *)
MailboxRead ==
  /\ answers # <<>>
  /\ answers' = Tail(answers) /\ attempts' = attempts + 1
  /\ IF Head(answers) # "framebuffer" /\ attempts' < MaxAttempts
       THEN Fb("read", "read") /\ UNCHANGED fbStatus
       ELSE IF attempts' < ErrAttempts
              THEN Fb("read", "invalidate") /\ UNCHANGED fbStatus
              ELSE Fb("read", "done") /\ fbStatus' = "error"
  /\ UNCHANGED <<memory, line, full, posted, screen, others, writes, spoilt>>

MailboxReadTimesOut ==
  /\ answers = <<>>
  /\ Fb("read", "done") /\ fbStatus' = "timed out"
  /\ UNCHANGED <<memory, line, full, posted, answers, attempts, screen, others, writes, spoilt>>

(* Mutant: the cache keeps its line. *)
InvalidateNothing ==
  /\ Fb("invalidate", "done") /\ fbStatus' = "ok"
  /\ UNCHANGED <<memory, line, full, posted, answers, attempts, screen, others, writes, spoilt>>

(* arch_invalidate_cache_range: the line is dropped, with what is dirty.   *)
Invalidate ==
  /\ Fb("invalidate", "done") /\ fbStatus' = "ok"
  /\ line' = NoLine
  /\ UNCHANGED <<memory, full, posted, answers, attempts, screen, others, writes, spoilt>>

(* display_get_framebuffer.  It reports no error: fb_desc.fb_p, which is   *)
(* zero in a request, is taken for VideoCore's in any case.                *)
GetFramebuffer ==
  /\ fbPc = "done" /\ screen = "none"
  /\ line' = Cached
  /\ screen' = IF Cached.desc = "answer" THEN "VideoCore's" ELSE "address 0"
  /\ UNCHANGED <<memory, full, posted, answers, fbPc, attempts, fbStatus, others, writes, spoilt>>

-----------------------------------------------------------------------------
(* VideoCore, and the rest of the ARM. *)

MakeRoom ==
  /\ full /\ full' = FALSE
  /\ UNCHANGED <<memory, line, posted, answers, fbPc, attempts, fbStatus, screen, others, writes, spoilt>>

(* VideoCore answers what it finds: a request only if that has reached the *)
(* memory.                                                                 *)
Answer ==
  /\ posted /\ posted' = FALSE
  /\ memory' = [memory EXCEPT !.desc = IF @ = "request" THEN "answer" ELSE @]
  /\ answers' = Append(answers, "framebuffer")
  /\ UNCHANGED <<line, full, fbPc, attempts, fbStatus, screen, others, writes, spoilt>>

AnswerOther ==
  /\ others < MaxOther /\ others' = others + 1
  /\ answers' = Append(answers, "other")
  /\ UNCHANGED <<memory, line, full, posted, fbPc, attempts, fbStatus, screen, writes, spoilt>>

(* An interrupt handler or another processor writes the neighbour.         *)
WriteNeighbour ==
  /\ writes < MaxNeighbour /\ writes' = writes + 1
  /\ line' = [Cached EXCEPT !.neighbour = writes', !.dirty = TRUE]
  /\ spoilt' = (spoilt \/ fbPc \in {"write", "read", "invalidate"})
  /\ UNCHANGED <<memory, full, posted, answers, fbPc, attempts, fbStatus, screen, others>>

(* The cache makes room. *)
Evict ==
  /\ line # NoLine
  /\ memory' = WrittenBack /\ line' = NoLine
  /\ UNCHANGED <<full, posted, answers, fbPc, attempts, fbStatus, screen, others, writes, spoilt>>

MailboxInit ==
  /\ memory = [desc |-> "zeros", neighbour |-> 0] /\ line = NoLine
  /\ full \in BOOLEAN /\ posted = FALSE /\ answers = <<>>
  /\ fbPc = "idle" /\ attempts = 0 /\ fbStatus = "none" /\ screen = "none"
  /\ others = 0 /\ writes = 0 /\ spoilt = FALSE

MailboxTypeOK ==
  /\ memory \in [desc : Descs, neighbour : 0..MaxNeighbour]
  /\ line \in [desc : {"none"} \cup Descs, neighbour : 0..MaxNeighbour, dirty : BOOLEAN]
  /\ full \in BOOLEAN /\ posted \in BOOLEAN /\ spoilt \in BOOLEAN
  /\ answers \in Seq(Channels)
  /\ fbPc \in {"idle", "filled", "write", "read", "invalidate", "done"}
  /\ attempts \in 0..MaxAttempts /\ others \in 0..MaxOther /\ writes \in 0..MaxNeighbour
  /\ fbStatus \in {"none", "ok", "timed out", "error"}
  /\ screen \in {"none", "VideoCore's", "address 0"}

(* When init_framebuffer succeeds, LK draws where VideoCore shows: neither *)
(* side has read what the other's cache or memory had of fb_desc before,   *)
(* and no other answer was taken for this one.  Its neighbour in the cache *)
(* line must be left alone meanwhile: a write to it can bring the request  *)
(* back.                                                                   *)
DrawsOnScreen ==
  fbStatus = "ok" /\ ~spoilt /\ screen # "none" => screen = "VideoCore's"
=============================================================================
