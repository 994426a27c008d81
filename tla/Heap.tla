-------------------------------- MODULE Heap --------------------------------
(***************************************************************************)
(* The kernel heap of HrafnOS (kernel/heap.cpp): one address-ordered list   *)
(* of blocks that tiles the arena, first fit, split, and a coalescing pass  *)
(* after every kfree.                                                       *)
(*                                                                          *)
(* Addresses are byte offsets into the arena (HEAP_BASE is 0 here, so a     *)
(* payload is never at 0 and 0 can stand for nullptr).  The client may be   *)
(* anyone; the scheduler, the only one the kernel has, asks for a task      *)
(* struct and then a kernel stack, and frees the stack before the struct    *)
(* (sched.cpp:167-168 and 227-228).                                         *)
(***************************************************************************)
EXTENDS Integers, Sequences, SequencesExt

CONSTANTS
  Arena,        \* HEAP_SIZE
  Header,       \* sizeof(block_header)
  Sizes,        \* the sizes asked for by a client that is not the scheduler
                \* (below 2^64 - 7, where size + 7 does not wrap)
  StructSize,   \* sizeof(task)
  StackSize     \* STACK_SIZE

ASSUME HeapAssumption ==
  /\ Header \in Nat \ {0} /\ Header % 8 = 0
  /\ Arena \in Nat /\ Arena >= Header
  /\ Sizes \subseteq Nat
  /\ StructSize \in Nat \ {0} /\ StackSize \in Nat \ {0}

Null  == 0
Align == 8
Slack == 16     \* a split must leave a header and this much

VARIABLES
  blocks,       \* the list from head on: [at: header address, size, free]
  live,         \* what clients hold: [ptr, size asked for]
  pairs,        \* the scheduler's tasks: [struct, stack] pointers
  schedOnly     \* history: so far only the scheduler has used the heap

vars == <<blocks, live, pairs, schedOnly>>

Block   == [at : 0 .. Arena, size : 0 .. Arena, free : BOOLEAN]
Payload(b) == b.at + Header

TypeOK ==
  /\ blocks \in Seq(Block) /\ blocks # << >>
  /\ live \subseteq [ptr : 1 .. Arena, size : 1 .. Arena]
  /\ pairs \subseteq [struct : 0 .. Arena, stack : 0 .. Arena]
  /\ schedOnly \in BOOLEAN

-----------------------------------------------------------------------------
(* kmalloc and kfree, as functions of the list.                             *)

\* Mutant: the request is rounded down.
AlignDown(n) == (n \div Align) * Align

\* (size + 7) & ~7
AlignUp(n) == ((n + Align - 1) \div Align) * Align

\* Mutant: whether the block is free is not asked.
FitsTaken(bs, n, i) == bs[i].size >= AlignUp(n)

\* Where a request of n bytes goes: the first free block that holds it.
Fits(bs, n, i) == bs[i].free /\ bs[i].size >= AlignUp(n)
FirstFit(bs, n, i) ==
  Fits(bs, n, i) /\ \A j \in 1 .. i - 1 : ~Fits(bs, n, j)

\* Block i becomes a taken block of size bytes and a free one of rest bytes.
Split(bs, i, size, rest) ==
  SubSeq(bs, 1, i - 1)
    \o <<[at |-> bs[i].at, size |-> size, free |-> FALSE],
         [at |-> bs[i].at + Header + size, size |-> rest, free |-> TRUE]>>
    \o SubSeq(bs, i + 1, Len(bs))

\* Mutants of Take: the header of the remainder is not subtracted; the split does
\* not ask for room for that header.
TakeKeepsHeader(bs, n, i) ==
  IF bs[i].size >= AlignUp(n) + Header + Slack
  THEN Split(bs, i, AlignUp(n), bs[i].size - AlignUp(n))
  ELSE [bs EXCEPT ![i].free = FALSE]

TakeAlwaysSplits(bs, n, i) ==
  Split(bs, i, AlignUp(n), bs[i].size - AlignUp(n) - Header)

\* Block i taken for n bytes; what is left becomes a block of its own if it can
\* hold a header and Slack bytes.
Take(bs, n, i) ==
  IF bs[i].size >= AlignUp(n) + Header + Slack
  THEN Split(bs, i, AlignUp(n), bs[i].size - AlignUp(n) - Header)
  ELSE [bs EXCEPT ![i].free = FALSE]

\* What kmalloc(n) answers, and the list it leaves.
Kmalloc(bs, n) ==
  IF n # 0 /\ \E i \in 1 .. Len(bs) : Fits(bs, n, i)
  THEN LET i == CHOOSE i \in 1 .. Len(bs) : FirstFit(bs, n, i)
       IN  [ptr |-> Payload(bs[i]), blocks |-> Take(bs, n, i)]
  ELSE [ptr |-> Null, blocks |-> bs]

\* Mutant: a block that has just swallowed its neighbour is not looked at again.
CoalesceOnce(bs) ==
  LET step(done, b) ==
        IF done.out # << >> /\ Last(done.out).free /\ b.free /\ ~done.merged
        THEN [out |-> [done.out EXCEPT ![Len(done.out)].size = @ + Header + b.size],
              merged |-> TRUE]
        ELSE [out |-> Append(done.out, b), merged |-> FALSE]
  IN  FoldLeft(step, [out |-> << >>, merged |-> FALSE], bs).out

\* A free block after a free one becomes part of it.
Merge(done, b) ==
  IF done # << >> /\ Last(done).free /\ b.free
  THEN [done EXCEPT ![Len(done)].size = @ + Header + b.size]
  ELSE Append(done, b)

\* One pass from head, after each number of blocks.
Passes(bs) ==
  LET pass[n \in 0 .. Len(bs)] == IF n = 0 THEN << >> ELSE Merge(pass[n - 1], bs[n])
  IN  pass

Coalesce(bs) == Passes(bs)[Len(bs)]

Kfree(bs, p) ==
  IF p = Null THEN bs
  ELSE Coalesce([i \in 1 .. Len(bs) |->
                   IF Payload(bs[i]) = p THEN [bs[i] EXCEPT !.free = TRUE]
                   ELSE bs[i]])

-----------------------------------------------------------------------------
(* The clients.                                                             *)

Held(p, n) == IF p = Null THEN {} ELSE {[ptr |-> p, size |-> n]}

\* kmalloc and kfree by anyone.
Malloc(n) ==
  LET got == Kmalloc(blocks, n)
  IN  /\ blocks' = got.blocks
      /\ live' = live \cup Held(got.ptr, n)
      /\ schedOnly' = FALSE
      /\ UNCHANGED pairs

Free(a) ==
  /\ \A t \in pairs : a.ptr \notin {t.struct, t.stack}
  /\ blocks' = Kfree(blocks, a.ptr)
  /\ live' = live \ {a}
  /\ schedOnly' = FALSE
  /\ UNCHANGED pairs

\* sched_init: the boot task's struct, the first block of all, never freed.
InitBoot ==
  LET got == Kmalloc(blocks, StructSize)
  IN  /\ live = {}
      /\ blocks' = got.blocks
      /\ live' = Held(got.ptr, StructSize)
      /\ UNCHANGED <<pairs, schedOnly>>

\* Mutant: the stack is asked for before the struct.
NewTaskStackFirst ==
  LET stack  == Kmalloc(blocks, StackSize)
      struct == Kmalloc(stack.blocks, StructSize)
  IN  /\ live # {}
      /\ struct.ptr # Null
      /\ blocks' = struct.blocks
      /\ live' = live \cup Held(struct.ptr, StructSize) \cup Held(stack.ptr, StackSize)
      /\ pairs' = pairs \cup {[struct |-> struct.ptr, stack |-> stack.ptr]}
      /\ UNCHANGED schedOnly

\* A task's creation: the struct, then the stack; neither answer is checked.
NewTask ==
  LET struct == Kmalloc(blocks, StructSize)
      stack  == Kmalloc(struct.blocks, StackSize)
  IN  /\ live # {}
      /\ struct.ptr # Null
      /\ blocks' = stack.blocks
      /\ live' = live \cup Held(struct.ptr, StructSize) \cup Held(stack.ptr, StackSize)
      /\ pairs' = pairs \cup {[struct |-> struct.ptr, stack |-> stack.ptr]}
      /\ UNCHANGED schedOnly

\* reap_dead: the stack, then the struct.
Reap(t) ==
  /\ blocks' = Kfree(Kfree(blocks, t.stack), t.struct)
  /\ live' = {a \in live : a.ptr \notin {t.struct, t.stack}}
  /\ pairs' = pairs \ {t}
  /\ UNCHANGED schedOnly

\* heap_init: one free block that spans the arena.
Init ==
  /\ blocks = <<[at |-> 0, size |-> Arena - Header, free |-> TRUE]>>
  /\ live = {}
  /\ pairs = {}
  /\ schedOnly = TRUE

Next ==
  \/ \E n \in Sizes : Malloc(n)
  \/ \E a \in live : Free(a)
  \/ InitBoot
  \/ NewTask
  \/ \E t \in pairs : Reap(t)

Spec == Init /\ [][Next]_vars

-----------------------------------------------------------------------------
(* Properties.                                                              *)

End(b) == b.at + Header + b.size

\* "List order == physical order" (heap.cpp:8-11): each block ends where the
\* next begins, the first starts the arena and the last ends it.
Tiling ==
  /\ blocks[1].at = 0
  /\ \A i \in 1 .. Len(blocks) - 1 : End(blocks[i]) = blocks[i + 1].at
  /\ End(Last(blocks)) = Arena

\* What clients hold is what the list has marked as taken, each allocation has
\* its block to itself and fits in it, on an 8-byte boundary.
LiveIsTaken ==
  /\ {Payload(b) : b \in {c \in Range(blocks) : ~c.free}} = {a.ptr : a \in live}
  /\ \A a \in live : \E b \in Range(blocks) :
       Payload(b) = a.ptr /\ b.size >= a.size /\ a.ptr % Align = 0
  /\ \A a, b \in live : a.ptr = b.ptr => a = b

\* The list and what the clients think they hold say the same of every byte.
ListSound == Tiling /\ LiveIsTaken

\* kmalloc answers nullptr only when no gap between the live blocks can hold the
\* request with its header: freed memory never stays in pieces (heap.cpp:57).
FailsOnlyWhenFull ==
  \A n \in Sizes \cup {StructSize, StackSize} :
    Kmalloc(blocks, n).ptr = Null /\ n # 0 =>
      ~\E at \in 0 .. Arena - Header - AlignUp(n) :
          \A b \in Range(blocks) :
            ~b.free => End(b) <= at \/ b.at >= at + Header + AlignUp(n)

\* The slots of a heap only the scheduler uses, after the boot task's struct.
PairBytes == 2 * Header + AlignUp(StructSize) + AlignUp(StackSize)
PairBase  == 2 * Header + AlignUp(StructSize)
PairCount == (Arena - Header - AlignUp(StructSize)) \div PairBytes
PairSlot(k) == [struct |-> PairBase + (k - 1) * PairBytes,
                stack  |-> PairBase + (k - 1) * PairBytes + AlignUp(StructSize) + Header]
PairSlots == {PairSlot(k) : k \in 1 .. PairCount}

\* The scheduler's tasks always land on the same slots, a struct with its stack
\* behind it, the lowest free slot first; only when all are taken does a struct
\* stand alone, above them, with no stack.  The module Sched rests on this.
PairsStable ==
  [][schedOnly /\ pairs # pairs' => \A t \in pairs' \ pairs :
       IF PairSlots \subseteq pairs
       THEN t.stack = Null /\ \A s \in PairSlots : t.struct > s.stack
       ELSE /\ t \in PairSlots
            /\ \A s \in PairSlots : s.struct < t.struct => s \in pairs]_vars

-----------------------------------------------------------------------------
(* What a heap promises: see Allocator.                                     *)

Abstract == INSTANCE Allocator WITH held <- live, Size <- Arena

ImplementsAllocator == Abstract!AllocSpec

=============================================================================
