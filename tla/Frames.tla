------------------------------- MODULE Frames -------------------------------
(***************************************************************************)
(* Physical memory of HrafnOS: the frame bitmap (kernel/pmm.cpp), the page  *)
(* tables (kernel/vmm.cpp), and the paths that build and drop address       *)
(* spaces: spawn, fork, exec and the reaper.                                *)
(*                                                                          *)
(* A frame holds Entries words, and a word is what the code reads it as.    *)
(* As a page-table entry an odd word is PRESENT and names frame w \div 2    *)
(* (one more than twice the frame); data a program stores is even.  The     *)
(* other flags are the same for all user pages and are left out, and so are *)
(* the huge pages of the identity map, which no walk of user tables meets.  *)
(* nullptr is physical address 0, so the answer of an empty pmm is frame 0, *)
(* and code that does not check it reads and writes that frame.             *)
(***************************************************************************)
EXTENDS Integers, FiniteSets, SequencesExt

CONSTANTS
  FrameSize,    \* bytes in a frame
  Entries,      \* words in a frame
  Maps,         \* the memory maps that may be found: sequences of [base, len], available RAM
  LowEnd,       \* the first 1 MiB: 0 .. LowEnd - 1
  KernelStart, KernelEnd,  \* the kernel's image
  HeapPages,    \* pages heap_init backs
  Programs,     \* ELF images: sequences of [va, val], in the order their pages load
  Stack,        \* the user stack's pages, a sequence of virtual pages
  Data,         \* what programs store
  MaxSpaces,    \* how many processes at once (the heap bounds them)
  MaxMade       \* bound: how many spaces are made in a run of the model

Idx   == 0 .. Entries - 1
Blank == [i \in Idx |-> 0]

Entry(f)   == 2 * f + 1
Present(w) == w % 2 = 1
FrameOf(w) == w \div 2

\* The pages a space may have of its own: a path of four indices, of which the
\* first does not lead to the kernel's half.
UserPaths == {va \in Idx \X Idx \X Idx \X Idx : va[1] # 0}

TotalFrames(map) == Max({r.base + r.len : r \in Range(map)}) \div FrameSize

\* The heap is mapped by one page table.  Programs and stack are linked to
\* lie under PML4[1] (user.ld, userspace.hpp), on pages that differ: the linker
\* makes no two segments that share one, and programs end below the stack.
ASSUME FramesAssumption ==
  /\ {FrameSize, LowEnd} \subseteq Nat \ {0} /\ Entries \in Nat \ {0, 1}
  /\ {KernelStart, KernelEnd, MaxSpaces, MaxMade} \subseteq Nat /\ HeapPages \in 0 .. Entries
  /\ KernelStart <= KernelEnd
  /\ Maps \subseteq Seq([base : Nat, len : Nat])
  /\ \A map \in Maps : TotalFrames(map) \in Nat \ {0}
  /\ \A d \in Data : d \in Nat /\ ~Present(d)
  /\ Programs \subseteq Seq([va : UserPaths, val : {n \in Nat : ~Present(n)}])
  /\ Stack \in Seq(UserPaths) \ {<< >>}
  /\ \A i, j \in DOMAIN Stack : Stack[i] = Stack[j] => i = j
  /\ \A prog \in Programs : \A i \in DOMAIN prog :
       /\ \A j \in DOMAIN prog : prog[i].va = prog[j].va => i = j
       /\ \A j \in DOMAIN Stack : prog[i].va # Stack[j]

VARIABLES
  avail,        \* the memory map found at boot
  ram,          \* [total, used: frames whose bit is set, count: used_frames, word], and
                \* short, a history field: pmm has had to answer nullptr
  kpml4,        \* kernel_pml4
  kept,         \* frames in use once the kernel is up, before any process
  spaces,       \* the address spaces tasks hold
  made,         \* how many have been made
  call          \* history: the last call and what it was given

vars == <<avail, ram, kpml4, kept, spaces, made, call>>

-----------------------------------------------------------------------------
(* The frame allocator (pmm.cpp).                                           *)

RoundUp(n) == (n + FrameSize - 1) \div FrameSize

\* Mutant: the frame the region starts in counts as free.
MarkFreeDown(m, r) ==
  LET F == {f \in r.base \div FrameSize .. (r.base + r.len) \div FrameSize - 1 :
              f < m.total /\ f \in m.used}
  IN  [m EXCEPT !.used = @ \ F, !.count = @ - Cardinality(F)]

\* The frames that lie inside the region altogether.
MarkFree(m, r) ==
  LET F == {f \in RoundUp(r.base) .. (r.base + r.len) \div FrameSize - 1 :
              f < m.total /\ f \in m.used}
  IN  [m EXCEPT !.used = @ \ F, !.count = @ - Cardinality(F)]

\* The frames the region touches.
Touched(m, base, len) ==
  {f \in base \div FrameSize .. RoundUp(base + len) - 1 : f < m.total}

\* Mutant: a frame already marked is counted again.
MarkUsedBlind(m, base, len) ==
  LET F == Touched(m, base, len)
  IN  [m EXCEPT !.used = @ \cup F, !.count = @ + Cardinality(F)]

MarkUsed(m, base, len) ==
  LET F == Touched(m, base, len) \ m.used
  IN  [m EXCEPT !.used = @ \cup F, !.count = @ + Cardinality(F)]

\* Pass 2 over the map, from m on.
FreeRegions(m, map) ==
  LET freed[i \in 0 .. Len(map)] == IF i = 0 THEN m ELSE MarkFree(freed[i - 1], map[i])
  IN  freed[Len(map)]

BitmapBase      == RoundUp(KernelEnd) * FrameSize
BitmapBytes(n)  == (n + 7) \div 8

\* pmm_init: all used, the available regions freed, the rest re-reserved.
PmmInit(map) ==
  LET n     == TotalFrames(map)
      full  == [total |-> n, used |-> 0 .. n - 1, count |-> n,
                word |-> [f \in 0 .. n - 1 |-> Blank], short |-> FALSE]
      free  == FreeRegions(full, map)
      low   == MarkUsed(free, 0, LowEnd)
      image == MarkUsed(low, KernelStart, KernelEnd - KernelStart)
  IN  MarkUsed(image, BitmapBase, BitmapBytes(n))

\* pmm_alloc_frame: the lowest free frame, or nullptr (frame 0).
FreeFrames(m) == (0 .. m.total - 1) \ m.used

Alloc(m) ==
  IF FreeFrames(m) = {} THEN [m |-> [m EXCEPT !.short = TRUE], f |-> 0]
  ELSE LET f == Min(FreeFrames(m))
       IN  [m |-> [m EXCEPT !.used = @ \cup {f}, !.count = @ + 1], f |-> f]

\* Mutant: used_frames is not taken down.
FreeUncounted(m, F) == [m EXCEPT !.used = @ \ F]

\* pmm_free_frame of each frame of F: a frame that is not in use is left alone.
FreeAll(m, F) ==
  [m EXCEPT !.used = @ \ F, !.count = @ - Cardinality(F \cap m.used)]

-----------------------------------------------------------------------------
(* Page tables (vmm.cpp).                                                   *)

SetWord(m, f, i, w) == [m EXCEPT !.word[f][i] = w]

\* Mutant: the table keeps what its frame held before.
AllocTableDirty(m) == Alloc(m)

AllocTable(m) ==
  LET got == Alloc(m)
  IN  [m |-> [got.m EXCEPT !.word[got.f] = Blank], f |-> got.f]

\* next_table: the table the entry names, made if it is not there.
NextTable(m, t, i) ==
  IF Present(m.word[t][i])
  THEN [m |-> m, f |-> FrameOf(m.word[t][i])]
  ELSE LET new == AllocTable(m)
       IN  [m |-> SetWord(new.m, t, i, Entry(new.f)), f |-> new.f]

\* map_in: virtual page va is the path of its four indices.
MapIn(m, root, va, frame) ==
  LET pdpt == NextTable(m, root, va[1])
      pd   == NextTable(pdpt.m, pdpt.f, va[2])
      pt   == NextTable(pd.m, pd.f, va[3])
  IN  SetWord(pt.m, pt.f, va[4], Entry(frame))

\* A frame of its own, holding page, for virtual page va.
PutPage(m, root, va, page) ==
  LET got == Alloc(m)
  IN  MapIn([got.m EXCEPT !.word[got.f] = page], root, va, got.f)

\* vmm_create_address_space: the kernel's subtree is shared.
CreateSpace(m) ==
  LET got == AllocTable(m)
  IN  [m |-> SetWord(got.m, got.f, 0, got.m.word[kpml4][0]), f |-> got.f]

\* The frames the tables T name from index lo on.
Kids(m, T, lo) ==
  UNION {{FrameOf(m.word[t][i]) : i \in {j \in lo .. Entries - 1 : Present(m.word[t][j])}} : t \in T}

\* A space's own frames: its root, and its tables and pages under PML4[1..].
Owned(m, root) ==
  LET pdpts == Kids(m, {root}, 1)
      pds   == Kids(m, pdpts, 0)
      pts   == Kids(m, pds, 0)
  IN  {root} \cup pdpts \cup pds \cup pts \cup Kids(m, pts, 0)

\* Mutant: the walk starts at PML4[0], the kernel's subtree.
DestroyKernelToo(m, root) ==
  FreeAll(m, Owned(m, root) \cup Kids(m, {root}, 0)
               \cup Kids(m, Kids(m, {root}, 0), 0))

DestroySpace(m, root) ==
  IF root \in {0, kpml4} THEN m ELSE FreeAll(m, Owned(m, root))

\* Where a walk from root along va gets, table by table.
Pdpt(m, root, va) == FrameOf(m.word[root][va[1]])
Pd(m, root, va)   == FrameOf(m.word[Pdpt(m, root, va)][va[2]])
Pt(m, root, va)   == FrameOf(m.word[Pd(m, root, va)][va[3]])
Page(m, root, va) == FrameOf(m.word[Pt(m, root, va)][va[4]])

IsMapped(m, root, va) ==
  /\ Present(m.word[root][va[1]])
  /\ Present(m.word[Pdpt(m, root, va)][va[2]])
  /\ Present(m.word[Pd(m, root, va)][va[3]])
  /\ Present(m.word[Pt(m, root, va)][va[4]])

Mapped(m, root) == {va \in UserPaths : IsMapped(m, root, va)}

\* The order in which four loops, one in the other, come to the pages.
Path(k) ==
  << ((k \div Entries) \div Entries) \div Entries,
     ((k \div Entries) \div Entries) % Entries, (k \div Entries) % Entries, k % Entries >>

Paths == Entries * Entries * Entries * Entries

\* What the frame pmm is about to hand out was left with.
Leftover(m) == m.word[Alloc(m).f]

\* Mutant: the child's frame is mapped, and nothing copied into it.
CopyMissed(m, src, dst, va) ==
  IF va \in Mapped(m, src) THEN PutPage(m, dst, va, Leftover(m)) ELSE m

\* A page of the parent is copied into a frame of the child's own.
CopyPage(m, src, dst, va) ==
  IF va \in Mapped(m, src) THEN PutPage(m, dst, va, m.word[Page(m, src, va)]) ELSE m

\* vmm_clone_address_space
CloneSpace(m, src) ==
  LET dst == CreateSpace(m)
      copied[k \in 0 .. Paths] ==
        IF k = 0 THEN dst.m ELSE CopyPage(copied[k - 1], src, dst.f, Path(k - 1))
  IN  [dst EXCEPT !.m = copied[Paths]]

-----------------------------------------------------------------------------
(* Loading a program.                                                       *)

\* What a program's own pages hold when it starts.
Image(prog) ==
  LET at(va) == CHOOSE i \in DOMAIN prog : prog[i].va = va
  IN  [va \in {prog[i].va : i \in DOMAIN prog} |-> [Blank EXCEPT ![0] = prog[at(va)].val]]

\* elf_load: a space, and a zeroed frame with the file's bytes for each page.
ElfLoad(m, prog) ==
  LET space == CreateSpace(m)
      loaded[k \in 0 .. Len(prog)] ==
        IF k = 0 THEN space.m
        ELSE PutPage(loaded[k - 1], space.f, prog[k].va, [Blank EXCEPT ![0] = prog[k].val])
  IN  [space EXCEPT !.m = loaded[Len(prog)]]

\* spawn and exec_current: the user stack, whose frames are not zeroed.
AddStack(m, root) ==
  LET stacked[k \in 0 .. Len(Stack)] ==
        IF k = 0 THEN m
        ELSE PutPage(stacked[k - 1], root, Stack[k], Leftover(stacked[k - 1]))
  IN  stacked[Len(Stack)]

\* A store by a program, or by exec_current once CR3 holds the new space.
Poke(m, root, va, d) == SetWord(m, Page(m, root, va), 0, d)

-----------------------------------------------------------------------------
(* Actions.                                                                 *)

\* vmm_init, after pmm_init.
KernelSpace(m) ==
  LET root == AllocTable(m)
      pdpt == AllocTable(root.m)
      pd   == AllocTable(pdpt.m)
  IN  [m |-> SetWord(SetWord(pd.m, root.f, 0, Entry(pdpt.f)), pdpt.f, 0, Entry(pd.f)),
       f |-> root.f]

\* heap_init backs the heap's pages, which lie beyond the identity map.
BackHeap(m, root) ==
  LET backed[k \in 0 .. HeapPages] ==
        IF k = 0 THEN m
        ELSE PutPage(backed[k - 1], root, <<0, 1, 0, k - 1>>, Leftover(backed[k - 1]))
  IN  backed[HeapPages]

Init ==
  \E map \in Maps :
    LET up == KernelSpace(PmmInit(map))
    IN  /\ avail = map
        /\ ram = BackHeap(up.m, up.f)
        /\ kpml4 = up.f
        /\ kept = ram.used
        /\ spaces = {}
        /\ made = 0
        /\ call = [op |-> "none"]

Made == made < MaxMade /\ made' = made + 1

\* spawn: nothing is run if elf_load answers nullptr.
Spawn(prog) ==
  LET got == ElfLoad(ram, prog)
  IN  /\ Cardinality(spaces) < MaxSpaces
      /\ Made
      /\ IF got.f = 0 THEN ram' = got.m /\ UNCHANGED spaces
         ELSE /\ ram' = AddStack(got.m, got.f)
              /\ spaces' = spaces \cup {got.f}
      /\ call' = [op |-> "spawn", image |-> Image(prog)]
      /\ UNCHANGED <<avail, kpml4, kept>>

\* fork_current: -1 if there is no root.
Fork(s) ==
  LET got == CloneSpace(ram, s)
  IN  /\ Cardinality(spaces) < MaxSpaces
      /\ Made
      /\ ram' = got.m
      /\ spaces' = IF got.f = 0 THEN spaces ELSE spaces \cup {got.f}
      /\ call' = [op |-> "fork", by |-> s]
      /\ UNCHANGED <<avail, kpml4, kept>>

\* exec_current: argv goes to the top stack page; the old space is dropped last.
Exec(s, prog, d) ==
  LET got  == ElfLoad(ram, prog)
      full == AddStack(got.m, got.f)
      argv == Poke(full, got.f, Last(Stack), d)
  IN  /\ Made
      /\ IF got.f = 0 THEN ram' = got.m /\ UNCHANGED spaces
         ELSE /\ ram' = DestroySpace(argv, s)
              /\ spaces' = (spaces \ {s}) \cup {got.f}
      /\ call' = [op |-> "exec", by |-> s, image |-> Image(prog), argv |-> d]
      /\ UNCHANGED <<avail, kpml4, kept>>

\* reap_dead.
Reap(s) ==
  /\ ram' = DestroySpace(ram, s)
  /\ spaces' = spaces \ {s}
  /\ call' = [op |-> "reap", of |-> s]
  /\ UNCHANGED <<avail, kpml4, kept, made>>

\* A user program stores to a page of its own.
Store(s, va, d) ==
  /\ ram' = Poke(ram, s, va, d)
  /\ call' = [op |-> "store", by |-> s, at |-> va, word |-> d]
  /\ UNCHANGED <<avail, kpml4, kept, spaces, made>>

Next ==
  \/ \E prog \in Programs : Spawn(prog)
  \/ \E s \in spaces :
       \/ Fork(s)
       \/ Reap(s)
       \/ \E prog \in Programs, d \in Data : Exec(s, prog, d)
       \/ \E va \in Mapped(ram, s), d \in Data : Store(s, va, d)

Spec == Init /\ [][Next]_vars

-----------------------------------------------------------------------------
(* Properties.                                                              *)

\* Types.
TypeOK ==
  /\ avail \in Maps
  /\ ram.used \subseteq 0 .. ram.total - 1
  /\ ram.count \in 0 .. ram.total
  /\ ram.word \in [0 .. ram.total - 1 -> [Idx -> Nat]] /\ ram.short \in BOOLEAN
  /\ kpml4 \in kept
  /\ spaces \subseteq 1 .. ram.total - 1
  /\ made \in 0 .. MaxMade
  /\ call.op \in {"none", "spawn", "fork", "exec", "reap", "store"}

\* used_frames is the number of bits set (kmain reports what it leaves at boot,
\* kernel.cpp:67): the two are written in different places and must not part.
CountInStep == ram.count = Cardinality(ram.used)

\* A frame that can be handed out lies in available RAM from its first byte to
\* its last, and holds nothing of the first 1 MiB, the image or the bitmap.
FreeIsUsable ==
  \A f \in FreeFrames(ram) :
    /\ \E r \in Range(avail) : r.base <= f * FrameSize /\ (f + 1) * FrameSize <= r.base + r.len
    /\ f * FrameSize >= LowEnd
    /\ f * FrameSize >= KernelEnd \/ (f + 1) * FrameSize <= KernelStart
    /\ \/ f * FrameSize >= BitmapBase + BitmapBytes(ram.total)
       \/ (f + 1) * FrameSize <= BitmapBase

\* The bitmap, its counter and the memory map agree.
BitmapSound == CountInStep /\ FreeIsUsable

\* How often the user tables of space s name frame f.
Names(s, f) ==
  LET pdpts == Kids(ram, {s}, 1)
      pds   == Kids(ram, pdpts, 0)
      pts   == Kids(ram, pds, 0)
      from(T, lo) == {e \in T \X (lo .. Entries - 1) : ram.word[e[1]][e[2]] = Entry(f)}
  IN  Cardinality(from({s}, 1) \cup from(pdpts \cup pds \cup pts, 0))

\* Every frame in use has one owner: the kernel from boot on, or one space, whose
\* tables name it once.  Nothing is leaked by exec, fork, exit or a reap, and
\* nothing a space still names has been freed.
FramesOwned ==
  /\ ram.used = kept \cup UNION {Owned(ram, s) : s \in spaces}
  /\ \A s \in spaces : Owned(ram, s) \cap kept = {}
  /\ \A s, t \in spaces : s # t => Owned(ram, s) \cap Owned(ram, t) = {}
  /\ \A s \in spaces : \A f \in Owned(ram, s) \ {s} : Names(s, f) = 1

\* "...and re-reserve what we must never hand out" (pmm.cpp:98): the first 1 MiB
\* stays marked for good.
LowMemoryKept == \A f \in 0 .. ram.total - 1 : f * FrameSize < LowEnd => f \in ram.used

-----------------------------------------------------------------------------
(* What the memory promises user programs: see UserMemory.                  *)

View(s) == [va \in Mapped(ram, s) |-> ram.word[Page(ram, s, va)]]

views == [s \in spaces |-> View(s)]

User == INSTANCE UserMemory WITH
          view <- views, StackPages <- Range(Stack), ArgvPage <- Last(Stack)

\* Every run, seen through the tables of the spaces, is one UserMemory allows: a
\* program starts with its image and stack, a child with all its parent holds,
\* and no call shows in a memory it is not about.

ImplementsUserMemory == User!MemorySpec

=============================================================================
