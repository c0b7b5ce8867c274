----------------------------- MODULE ArmMemory ------------------------------
(***************************************************************************)
(* What LK on the ARM of a Raspberry Pi 3 takes for its own memory: the    *)
(* arena that platform_early_init gives its allocator, after it has looked *)
(* for the memory's size in the device tree (platform/bcm28xx/platform.c), *)
(* and the framebuffer it draws to (FbMailbox).                            *)
(***************************************************************************)
EXTENDS FbMailbox

CONSTANTS
  MemSize,  (* MEMSIZE, in pieces of 0x80000: 1 GB, the peripherals not left out *)
  Trees     (* the device trees there may be: for each node, is it called "memory",
               is its "reg" 16 bytes long, and what length is in there? *)

ASSUME ArmMemoryAssumption ==
  /\ MemSize \in Nat
  /\ \A tree \in Trees : tree \in Seq([memory : BOOLEAN, wide : BOOLEAN, len : Nat])

VARIABLE
  lent  (* history: has the allocator got what it should not have? *)

-----------------------------------------------------------------------------
(* The nodes called "memory" with a "reg" of the right length; the last of *)
(* them says what the arena's size is, MEMSIZE if there is none.  No tree  *)
(* is an empty one.                                                        *)
Counts(tree) == {i \in DOMAIN tree : tree[i].memory /\ tree[i].wide}

ArenaSize(tree) ==
  IF Counts(tree) = {} THEN MemSize
  ELSE tree[CHOOSE i \in Counts(tree) : \A j \in Counts(tree) : j <= i].len

(* pmm_alloc_range takes the first 0x80000 bytes back: the firmware's loop *)
(* and the spin table are there.                                           *)
Reserved == {0}

(* pmm_add_arena and pmm_alloc_range, whatever the tree is.  What a node    *)
(* that counts the memory does not count is VideoCore's.                   *)
AddArena ==
  \E tree \in Trees :
    LET given == (0..(ArenaSize(tree) - 1)) \ Reserved
    IN  lent' = (0 \in given \/ \E i \in Counts(tree) : tree[i].len \in given)

-----------------------------------------------------------------------------
(* Properties. *)

(* VideoCore's memory and what LK uses keep apart: LK draws where VideoCore *)
(* shows (DrawsOnScreen), its allocator has nothing that a tree which      *)
(* counts the memory does not count, and never the firmware's loop.        *)
MemoryKeptApart == DrawsOnScreen /\ ~lent
=============================================================================
