-------------------------------- MODULE Munin --------------------------------
(***************************************************************************)
(* Munin, the in-RAM filesystem of HrafnOS (kernel/munin.cpp), as functions *)
(* of its state: an inode table, a bitmap of used blocks and the blocks.    *)
(*                                                                          *)
(* A block holds cells (file data), dirents or block pointers, and says     *)
(* which.  All free blocks hold the same Junk: each is filled when it is    *)
(* allocated, and if it were not, the Junk would show.  A path is the       *)
(* sequence of its components (slashes are gone), a buffer is one value     *)
(* repeated.  Errors are -1, as in the code.                                *)
(***************************************************************************)
EXTENDS Integers, FiniteSets, Sequences, SequencesExt

CONSTANTS
  Inodes,       \* MUNIN_MAX_INODES
  Blocks,       \* MUNIN_NUM_BLOCKS
  BlockSize,    \* cells in a block of data
  Direct,       \* MUNIN_DIRECT
  Ptrs,         \* MUNIN_PTRS_PER_BLOCK
  Slots,        \* DIRENTS_PER_BLOCK
  Names         \* path components, shorter than MUNIN_MAX_NAME

ASSUME MuninAssumption ==
  /\ {Inodes, Blocks, BlockSize, Direct, Ptrs, Slots} \subseteq Nat \ {0}
  /\ Slots <= BlockSize     \* a dirent is no smaller than a cell

Root    == 0
NoBlock == -1
None    == -1

Ino     == 0 .. Inodes - 1
Blk     == 0 .. Blocks - 1
MaxBlks == Direct + Ptrs
Cap     == MaxBlks * BlockSize

Junk      == [kind |-> "data", cell |-> [c \in 0 .. BlockSize - 1 |-> -1]]
Zeros     == [kind |-> "data", cell |-> [c \in 0 .. BlockSize - 1 |-> 0]]
NoPtrs    == [kind |-> "ptrs", ptr |-> [i \in 0 .. Ptrs - 1 |-> NoBlock]]
EmptySlot == [inode |-> None, name |-> ""]
NoSlots   == [kind |-> "dirents", slot |-> [k \in 0 .. Slots - 1 |-> EmptySlot]]

FreshInode(type) ==
  [type |-> type, size |-> 0, direct |-> [b \in 0 .. Direct - 1 |-> NoBlock],
   indirect |-> NoBlock]

SetSize(s, n, size) == [s EXCEPT !.ino[n].size = size]

-----------------------------------------------------------------------------
(* Blocks and inodes.                                                       *)

\* alloc_block: the lowest free block, filled in by the caller.
AllocBlock(s, content) ==
  LET avail == Blk \ s.used
  IN  IF avail = {} THEN [fs |-> s, blk |-> NoBlock]
      ELSE LET new == Min(avail)
           IN  [fs  |-> [ino |-> s.ino, used |-> s.used \cup {new},
                         blk |-> [s.blk EXCEPT ![new] = content]],
                blk |-> new]

\* alloc_inode: the lowest free inode.
AllocInode(s, type) ==
  LET avail == {n \in Ino : s.ino[n].type = "free"}
  IN  IF avail = {} THEN [fs |-> s, ino |-> None]
      ELSE [fs |-> [s EXCEPT !.ino[Min(avail)] = FreshInode(type)], ino |-> Min(avail)]

\* block_for without alloc: the block that holds logical block b.
BlockAt(s, n, b) ==
  IF b < Direct THEN s.ino[n].direct[b]
  ELSE IF b >= MaxBlks \/ s.ino[n].indirect = NoBlock THEN NoBlock
  ELSE s.blk[s.ino[n].indirect].ptr[b - Direct]

\* The indirect block, made on demand: true if it is there.
WithIndirect(s, n) ==
  IF s.ino[n].indirect # NoBlock THEN s
  ELSE LET got == AllocBlock(s, NoPtrs)
       IN  [got.fs EXCEPT !.ino[n].indirect = got.blk]

\* block_for with alloc, where a new block of data starts as content; the file
\* system is left with what could be allocated.
BlockWith(s, n, b, content) ==
  IF b \notin 0 .. MaxBlks - 1 THEN [fs |-> s, blk |-> NoBlock]
  ELSE LET t    == IF b < Direct THEN s ELSE WithIndirect(s, n)
           ind  == t.ino[n].indirect
           held == BlockAt(t, n, b)
           got  == AllocBlock(t, content)
       IN  IF held # NoBlock \/ (b >= Direct /\ ind = NoBlock)
             THEN [fs |-> t, blk |-> held]
           ELSE IF got.blk = NoBlock THEN got
           ELSE [fs  |-> IF b < Direct THEN [got.fs EXCEPT !.ino[n].direct[b] = got.blk]
                         ELSE [got.fs EXCEPT !.blk[ind].ptr[b - Direct] = got.blk],
                 blk |-> got.blk]

\* Mutant: a new block of data is not zeroed.
BlockForDirty(s, n, b) == BlockWith(s, n, b, Junk)

BlockFor(s, n, b) == BlockWith(s, n, b, Zeros)

\* The blocks an inode uses.
BlocksOf(s, n) ==
  ({BlockAt(s, n, i) : i \in 0 .. MaxBlks - 1} \cup {s.ino[n].indirect}) \ {NoBlock}

\* free_block of each block of B; what they hold is no longer told apart.
FreeBlocks(s, B) ==
  [ino |-> s.ino, used |-> s.used \ B,
   blk |-> [b \in Blk |-> IF b \in B THEN Junk ELSE s.blk[b]]]

Cleared(s, n) == [s EXCEPT !.ino[n] = FreshInode(s.ino[n].type)]

\* Mutant: the blocks the indirect block names are kept.
FreeDirectOnly(s, n) ==
  Cleared(FreeBlocks(s, Range(s.ino[n].direct) \cup {s.ino[n].indirect}), n)

\* free_inode_blocks: every block back, size 0.
FreeInodeBlocks(s, n) == Cleared(FreeBlocks(s, BlocksOf(s, n)), n)

-----------------------------------------------------------------------------
(* Directories.                                                             *)

\* The dirents of directory d, numbered in the order the code walks them.
Places(s, d) == {p \in 0 .. Direct * Slots - 1 : s.ino[d].direct[p \div Slots] # NoBlock}

At(s, d, p) == s.blk[s.ino[d].direct[p \div Slots]].slot[p % Slots]

Taken(s, d) == {p \in Places(s, d) : At(s, d, p).inode # None}

\* dir_lookup.
Named(s, d, name) == {p \in Taken(s, d) : At(s, d, p).name = name}

DirLookup(s, d, name) ==
  LET found == Named(s, d, name)
  IN  IF found = {} THEN None ELSE At(s, d, Min(found)).inode

\* The directory with room for one more entry: a block of empty slots is added
\* when those it has are taken.
Grown(s, d) ==
  LET missing == {b \in 0 .. Direct - 1 : s.ino[d].direct[b] = NoBlock}
  IN  IF Taken(s, d) # Places(s, d) \/ missing = {} THEN s
      ELSE LET got == AllocBlock(s, NoSlots)
           IN  [got.fs EXCEPT !.ino[d].direct[Min(missing)] = got.blk]

SetSlot(s, d, p, entry) ==
  [s EXCEPT !.blk[s.ino[d].direct[p \div Slots]].slot[p % Slots] = entry]

\* add_dirent: the first empty slot; ok is false if there is none to be had.
AddDirent(s, d, name, child) ==
  LET t     == Grown(s, d)
      empty == Places(t, d) \ Taken(t, d)
  IN  IF empty = {} THEN [fs |-> t, ok |-> FALSE]
      ELSE [fs |-> SetSize(SetSlot(t, d, Min(empty), [inode |-> child, name |-> name]),
                           d, t.ino[d].size + 1),
            ok |-> TRUE]

\* Mutant: the inode stays taken when there is no room for its dirent.
CreateNoRollback(s, d, name, type) ==
  LET made  == AllocInode(s, type)
      added == AddDirent(made.fs, d, name, made.ino)
  IN  IF DirLookup(s, d, name) # None \/ made.ino = None
        THEN [fs |-> s, ino |-> None]
      ELSE IF added.ok THEN [fs |-> added.fs, ino |-> made.ino]
      ELSE [fs |-> added.fs, ino |-> None]

\* munin_create, for a directory d.
Create(s, d, name, type) ==
  LET made  == AllocInode(s, type)
      added == AddDirent(made.fs, d, name, made.ino)
  IN  IF DirLookup(s, d, name) # None \/ made.ino = None
        THEN [fs |-> s, ino |-> None]
      ELSE IF added.ok THEN [fs |-> added.fs, ino |-> made.ino]
      ELSE [fs |-> [added.fs EXCEPT !.ino[made.ino].type = "free"], ino |-> None]

\* munin_resolve: nothing is looked up in what is not a directory.
Resolve(s, path) ==
  LET cur[k \in 0 .. Len(path)] ==
        IF k = 0 THEN Root
        ELSE LET d == cur[k - 1]
             IN  IF d = None THEN None
                 ELSE IF s.ino[d].type # "dir" THEN None
                 ELSE DirLookup(s, d, path[k])
  IN  cur[Len(path)]

\* munin_create_path.
CreatePath(s, path, type) ==
  LET d == Resolve(s, Front(path))
  IN  IF path = << >> THEN [fs |-> s, ino |-> None]
      ELSE IF d = None THEN [fs |-> s, ino |-> None]
      ELSE IF s.ino[d].type # "dir" THEN [fs |-> s, ino |-> None]
      ELSE Create(s, d, Last(path), type)

\* The dirent at p is dropped, with what it names.
Drop(s, d, p) ==
  LET c == At(s, d, p).inode
      t == [FreeInodeBlocks(s, c) EXCEPT !.ino[c].type = "free"]
  IN  SetSize(SetSlot(t, d, p, EmptySlot), d, t.ino[d].size - 1)

\* munin_unlink: a file or an empty directory, never the root.
Unlink(s, path) ==
  LET d     == Resolve(s, Front(path))
      p     == Named(s, d, Last(path))
      child == s.ino[At(s, d, Min(p)).inode]
  IN  IF path = << >> THEN [fs |-> s, ret |-> -1]
      ELSE IF d = None THEN [fs |-> s, ret |-> -1]
      ELSE IF s.ino[d].type # "dir" \/ p = {} THEN [fs |-> s, ret |-> -1]
      ELSE IF child.type = "dir" /\ child.size # 0 THEN [fs |-> s, ret |-> -1]
      ELSE [fs |-> Drop(s, d, Min(p)), ret |-> 0]

-----------------------------------------------------------------------------
(* File data.                                                               *)

\* munin_truncate.
Truncate(s, n) == IF s.ino[n].type # "file" THEN s ELSE FreeInodeBlocks(s, n)

\* The part of cells from .. to - 1 that lies in logical block b is set to v.
Filled(s, blk, b, from, to, v) ==
  [s EXCEPT !.blk[blk].cell =
     [c \in DOMAIN @ |-> IF b * BlockSize + c \in from .. to - 1 THEN v ELSE @[c]]]

\* A turn of the loop over the blocks that cells from .. to - 1 lie in: once one
\* cannot be had, nothing more is written.
WriteBlock(acc, n, b, from, to, v) ==
  LET got == BlockFor(acc.fs, n, b)
  IN  IF acc.full THEN acc
      ELSE IF got.blk = NoBlock THEN [fs |-> got.fs, end |-> acc.end, full |-> TRUE]
      ELSE [fs   |-> Filled(got.fs, got.blk, b, from, to, v),
            end  |-> Min({to, (b + 1) * BlockSize}), full |-> FALSE]

Turns(from, to) ==
  IF from = to THEN 0 ELSE (to + BlockSize - 1) \div BlockSize - from \div BlockSize

\* What the loop has done after each number of turns.
Writes(s, n, from, to, v) ==
  LET did[k \in 0 .. Turns(from, to)] ==
        IF k = 0 THEN [fs |-> s, end |-> from, full |-> FALSE]
        ELSE WriteBlock(did[k - 1], n, from \div BlockSize + k - 1, from, to, v)
  IN  did

WriteBlocks(s, n, from, to, v) == Writes(s, n, from, to, v)[Turns(from, to)]

\* munin_write_inode: what was written may be short, even nothing.
WriteInode(s, n, v, len, offset) ==
  IF s.ino[n].type # "file" \/ offset >= Cap THEN [fs |-> s, ret |-> -1]
  ELSE LET did == WriteBlocks(s, n, offset, Min({offset + len, Cap}), v)
       IN  [fs  |-> SetSize(did.fs, n, Max({s.ino[n].size, did.end})),
            ret |-> did.end - offset]

\* munin_read_inode: how much is read; the walk ends with the direct blocks.
ReadInode(s, n, len, offset) ==
  IF s.ino[n].type # "file" THEN -1
  ELSE Max({0, Min({len, s.ino[n].size - offset, Direct * BlockSize - offset})})

\* munin_write: the whole file at path, or nothing.
WritePath(s, path, v, len) ==
  LET n   == Resolve(s, path)
      did == WriteBlocks(FreeInodeBlocks(s, n), n, 0, len, v)
  IN  IF n = None THEN [fs |-> s, ret |-> -1]
      ELSE IF s.ino[n].type # "file" \/ len > Cap THEN [fs |-> s, ret |-> -1]
      ELSE IF did.full THEN [fs |-> FreeInodeBlocks(did.fs, n), ret |-> -1]
      ELSE [fs |-> SetSize(did.fs, n, len), ret |-> len]

\* munin_init: all free but the root directory.
Formatted ==
  [ino  |-> [n \in Ino |-> FreshInode(IF n = Root THEN "dir" ELSE "free")],
   used |-> {},
   blk  |-> [b \in Blk |-> Junk]]

-----------------------------------------------------------------------------
(* What makes a filesystem well formed.                                     *)

Live(s) == {n \in Ino : s.ino[n].type # "free"}
Dirs(s) == {n \in Ino : s.ino[n].type = "dir"}

FsType(s) ==
  /\ s.used \subseteq Blk
  /\ \A n \in Ino :
       /\ s.ino[n].type \in {"free", "file", "dir"}
       /\ s.ino[n].size \in 0 .. Cap
       /\ Range(s.ino[n].direct) \cup {s.ino[n].indirect} \subseteq Blk \cup {NoBlock}

\* The block that inode n names in place i: its logical blocks, and then the one
\* with its pointers.
Use(s, n, i) ==
  IF s.ino[n].type = "free" THEN NoBlock
  ELSE IF i = MaxBlks THEN s.ino[n].indirect
  ELSE BlockAt(s, n, i)

Role(s, n, i) ==
  IF i = MaxBlks THEN "ptrs"
  ELSE IF i < Direct /\ s.ino[n].type = "dir" THEN "dirents"
  ELSE "data"

\* The blocks an inode in use names hold what it says they do.
Holds(s, n, i) == Use(s, n, i) # NoBlock => s.blk[Use(s, n, i)].kind = Role(s, n, i)

KindsAgree(s) ==
  \A n \in Live(s) : Holds(s, n, MaxBlks) /\ \A i \in 0 .. MaxBlks - 1 : Holds(s, n, i)

\* The bitmap and the inodes agree: each used block has one use, each free none.
BlocksAgree(s) ==
  \A b \in Blk :
    LET uses == {u \in Live(s) \X (0 .. MaxBlks) : Use(s, u[1], u[2]) = b}
    IN  IF b \in s.used THEN \E u \in uses : uses = {u} ELSE uses = {}

\* Each inode in use but the root has one dirent, other inodes have none, and
\* names in a directory are different.
DirentsOf(s, n) ==
  {e \in Dirs(s) \X (0 .. Direct * Slots - 1) :
     e[2] \in Taken(s, e[1]) /\ At(s, e[1], e[2]).inode = n}

IsTree(s) ==
  /\ s.ino[Root].type = "dir"
  /\ \A n \in Ino :
       IF n \in Live(s) \ {Root} THEN \E e \in DirentsOf(s, n) : DirentsOf(s, n) = {e}
       ELSE DirentsOf(s, n) = {}
  /\ \A d \in Dirs(s) :
       /\ s.ino[d].size = Cardinality(Taken(s, d))
       /\ \A p, q \in Taken(s, d) : At(s, d, p).name = At(s, d, q).name => p = q

WellFormed(s) == FsType(s) /\ KindsAgree(s) /\ BlocksAgree(s) /\ IsTree(s)

-----------------------------------------------------------------------------
(* What the files are, whatever blocks they lie in.                         *)

\* Cell i of file n: a hole is zero.
CellAt(s, n, i) ==
  LET b == BlockAt(s, n, i \div BlockSize)
  IN  IF b = NoBlock THEN 0 ELSE s.blk[b].cell[i % BlockSize]

Bytes(s, n) == [i \in 1 .. s.ino[n].size |-> CellAt(s, n, i - 1)]

AllPaths == UNION {[1 .. k -> Names] : k \in 0 .. Inodes - 1}

Node(s, n) ==
  IF s.ino[n].type = "dir" THEN [type |-> "dir", bytes |-> << >>]
  ELSE [type |-> s.ino[n].type, bytes |-> Bytes(s, n)]

Tree(s) ==
  LET ino == [path \in AllPaths |-> Resolve(s, path)]
  IN  [path \in {q \in AllPaths : ino[q] # None} |-> Node(s, ino[path])]

=============================================================================
