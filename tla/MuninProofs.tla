----------------------------- MODULE MuninProofs -----------------------------
(***************************************************************************)
(* What the operations of Munin keep, for every size of a filesystem: the   *)
(* lemmas behind the theorems about the calls of tasks (VfsProofs) and about *)
(* the disk (MuninDiskProofs).                                              *)
(*                                                                          *)
(* A filesystem is Good if it is well formed and free blocks hold Junk.     *)
(* Well formed is said of it here without sets of uses and of dirents: by   *)
(* what each inode names in each place (Use) and by the entry in each slot  *)
(* (Ent).  An operation is a few primitive changes to those: a block comes  *)
(* into use (Linked), blocks go out of use (Freed), what is in them changes *)
(* (Edited), an inode without blocks is replaced (Swapped), an inode gets   *)
(* its dirent (Joined) or loses it (Parted).  Between two of them the tree  *)
(* need not be whole, so Good has two parts, Blks and Rooted, and only the  *)
(* first is kept by each.                                                   *)
(***************************************************************************)
EXTENDS Munin, SequenceTheorems, Induction

-----------------------------------------------------------------------------
(* Types: inodes, blocks and filesystems, and the places in them.           *)

Types   == {"free", "file", "dir"}
Ptr     == Blk \cup {NoBlock}
Dir     == 0 .. Direct - 1
Ind     == 0 .. Ptrs - 1
Pl      == 0 .. Direct * Slots - 1
Uses    == 0 .. MaxBlks

Inode   == [type : Types, size : Int, direct : [Dir -> Ptr], indirect : Ptr]
Entry   == [inode : Ino \cup {None}, name : Names \cup {""}]
DataBlk == [kind : {"data"}, cell : [0 .. BlockSize - 1 -> Int]]
PtrBlk  == [kind : {"ptrs"}, ptr : [Ind -> Ptr]]
DirBlk  == [kind : {"dirents"}, slot : [0 .. Slots - 1 -> Entry]]
Block   == DataBlk \cup PtrBlk \cup DirBlk
Fs      == [ino : [Ino -> Inode], used : SUBSET Blk, blk : [Blk -> Block]]

\* A number from its quotient and remainder.
LEMMA DivMod ==
  ASSUME NEW a \in Nat, NEW k \in Nat \ {0}
  PROVE  /\ a \div k \in Nat /\ a % k \in 0 .. k - 1
         /\ a = (a \div k) * k + (a % k)
OBVIOUS

\* The block of its directory, and the slot in it, that a dirent's place stands for.
Bk(p) == p \div Slots
Sl(p) == p % Slots

\* A dirent lies in a direct block of its directory, in a slot of it.
LEMMA PlaceOf ==
  ASSUME NEW p \in Pl
  PROVE  Bk(p) \in Dir /\ Sl(p) \in 0 .. Slots - 1
<1>1. p \in Nat /\ Slots \in Nat \ {0} /\ Direct \in Nat \ {0} /\ p < Direct * Slots
  BY MuninAssumption DEF Pl
<1> DEFINE q == p \div Slots
           r == p % Slots
<1>2. q \in Nat /\ r \in 0 .. Slots - 1 /\ p = q * Slots + r
  BY <1>1, DivMod
<1> HIDE DEF q, r
<1>3. q < Direct
  <2>1. SUFFICES ASSUME q >= Direct PROVE FALSE
    BY <1>1, <1>2
  <2>2. q * Slots >= Direct * Slots
    BY <2>1, <1>1, <1>2
  <2> QED
    BY <2>2, <1>1, <1>2
<1> QED
  BY <1>1, <1>2, <1>3 DEF q, r, Dir, Bk, Sl

\* Dirents in the same slot of the same block are the same.
LEMMA SamePlace ==
  ASSUME NEW p \in Pl, NEW q \in Pl, Bk(p) = Bk(q), Sl(p) = Sl(q)
  PROVE  p = q
<1>1. p \in Nat /\ q \in Nat /\ Slots \in Nat \ {0}
  BY MuninAssumption DEF Pl
<1>2. p = Bk(p) * Slots + Sl(p) /\ q = Bk(q) * Slots + Sl(q)
  BY <1>1, DivMod DEF Bk, Sl
<1>3. Bk(p) \in Int /\ Sl(p) \in Int
  BY <1>1, DivMod DEF Bk, Sl
<1> QED
  BY <1>1, <1>2, <1>3

-----------------------------------------------------------------------------
(* Good filesystems.                                                        *)

\* The entry at place p of inode d: empty if it is no directory, or has no block there.
Ent(s, d, p) ==
  IF s.ino[d].type = "dir" /\ p \in Places(s, d) THEN At(s, d, p) ELSE EmptySlot

\* No block is named in two places.
Once(s) ==
  \A m, n \in Ino : \A i, j \in Uses :
    Use(s, m, i) = Use(s, n, j) /\ Use(s, m, i) # NoBlock => m = n /\ i = j

\* The blocks in use are those that an inode names, each named once.
Owned(s) ==
  /\ \A n \in Ino : \A i \in Uses : Use(s, n, i) \in s.used \cup {NoBlock}
  /\ Once(s)
  /\ \A b \in s.used : \E n \in Ino : \E i \in Uses : Use(s, n, i) = b

\* What an inode names a block for is what the block is.
Kinds(s) == \A n \in Ino : \A i \in Uses : Holds(s, n, i)

\* What free blocks hold is not told apart.
Clean(s) == \A b \in Blk \ s.used : s.blk[b] = Junk

\* The blocks are in order: the part of Good that every change keeps.
Blks(s) == s \in Fs /\ Owned(s) /\ Kinds(s) /\ Clean(s)

\* The same tree.
SameTree(s, t) ==
  /\ \A n \in Ino : t.ino[n].type = s.ino[n].type /\ t.ino[n].size = s.ino[n].size
  /\ \A d \in Ino : \A p \in Pl : Ent(t, d, p) = Ent(s, d, p)

\* The numbers of inodes, blocks and places, and which places are direct.
LEMMA Numbers ==
  /\ Direct \in Nat \ {0} /\ Ptrs \in Nat \ {0} /\ MaxBlks \in Nat /\ Direct < MaxBlks
  /\ MaxBlks \in Uses /\ Dir \subseteq Uses /\ MaxBlks \notin Dir
  /\ NoBlock \notin Blk /\ Root \in Ino /\ Slots \in Nat \ {0} /\ None \notin Ino
  /\ \A i \in Uses : i \in Nat /\ (i \in Dir <=> i < Direct)
  /\ \A i \in Uses : \/ i < Direct
                     \/ i = MaxBlks
                     \/ i >= Direct /\ i # MaxBlks /\ i - Direct \in Ind
BY MuninAssumption DEF MaxBlks, Uses, Dir, NoBlock, Blk, Ind, Root, Ino, None

\* The parts of a filesystem, and the fields of an inode.
LEMMA FsParts ==
  ASSUME NEW s \in Fs
  PROVE  /\ s.ino \in [Ino -> Inode] /\ s.used \subseteq Blk /\ s.blk \in [Blk -> Block]
         /\ s = [ino |-> s.ino, used |-> s.used, blk |-> s.blk]
         /\ \A n \in Ino : /\ s.ino[n] \in Inode
                           /\ s.ino[n].type \in Types /\ s.ino[n].size \in Int
                           /\ s.ino[n].direct \in [Dir -> Ptr] /\ s.ino[n].indirect \in Ptr
                           /\ \A i \in Dir : s.ino[n].direct[i] \in Ptr
         /\ \A b \in Blk : s.blk[b] \in Block
<1>1. /\ s.ino \in [Ino -> Inode] /\ s.used \subseteq Blk /\ s.blk \in [Blk -> Block]
      /\ s = [ino |-> s.ino, used |-> s.used, blk |-> s.blk]
  BY DEF Fs
<1> QED
  BY <1>1 DEF Inode

\* What a live inode names.
LEMMA UseIs ==
  ASSUME NEW s \in Fs, NEW n \in Ino, NEW i \in Uses
  PROVE  /\ s.ino[n].type = "free" => Use(s, n, i) = NoBlock
         /\ s.ino[n].type # "free" =>
              /\ i < Direct => Use(s, n, i) = s.ino[n].direct[i]
              /\ i = MaxBlks => Use(s, n, i) = s.ino[n].indirect
              /\ i >= Direct /\ i # MaxBlks =>
                   Use(s, n, i) = IF s.ino[n].indirect = NoBlock THEN NoBlock
                                  ELSE s.blk[s.ino[n].indirect].ptr[i - Direct]
<1>1. i \in Nat /\ i <= MaxBlks /\ Direct < MaxBlks /\ MaxBlks \in Nat /\ Direct \in Nat
  BY Numbers DEF Uses
<1> QED
  BY <1>1 DEF Use, BlockAt

\* An entry is the slot that its place is, in the block that its directory names.
LEMMA EntIs ==
  ASSUME NEW s \in Fs, NEW d \in Ino, NEW p \in Pl
  PROVE  Ent(s, d, p) =
           IF s.ino[d].type # "dir" \/ s.ino[d].direct[Bk(p)] = NoBlock THEN EmptySlot
           ELSE s.blk[s.ino[d].direct[Bk(p)]].slot[Sl(p)]
<1>1. p \in Places(s, d) <=> s.ino[d].direct[Bk(p)] # NoBlock
  BY DEF Places, Pl, Bk
<1>2. At(s, d, p) = s.blk[s.ino[d].direct[Bk(p)]].slot[Sl(p)]
  BY DEF At, Bk, Sl
<1> QED
  BY <1>1, <1>2 DEF Ent

\* That is: none where there is no block,
LEMMA EntNone ==
  ASSUME NEW s \in Fs, NEW d \in Ino, NEW p \in Pl,
         s.ino[d].type # "dir" \/ s.ino[d].direct[Bk(p)] = NoBlock
  PROVE  Ent(s, d, p) = EmptySlot
BY EntIs

\* and otherwise the slot.
LEMMA EntIn ==
  ASSUME NEW s \in Fs, NEW d \in Ino, NEW p \in Pl,
         s.ino[d].type = "dir", s.ino[d].direct[Bk(p)] # NoBlock
  PROVE  Ent(s, d, p) = s.blk[s.ino[d].direct[Bk(p)]].slot[Sl(p)]
BY EntIs

\* A block is of one of three kinds.
LEMMA BlockKinds ==
  ASSUME NEW c \in Block
  PROVE  /\ c.kind \in {"data", "ptrs", "dirents"}
         /\ c.kind = "data" => c \in DataBlk
         /\ c.kind = "ptrs" => c \in PtrBlk /\ c.ptr \in [Ind -> Ptr]
         /\ c.kind = "dirents" => c \in DirBlk /\ c.slot \in [0 .. Slots - 1 -> Entry]
BY DEF Block, DataBlk, PtrBlk, DirBlk

\* The blocks with pointers, and with dirents.
LEMMA Indirect ==
  ASSUME NEW s, Blks(s), NEW n \in Ino, s.ino[n].type # "free", s.ino[n].indirect # NoBlock
  PROVE  LET x == s.ino[n].indirect
         IN  /\ x \in s.used /\ x \in Blk /\ Use(s, n, MaxBlks) = x
             /\ s.blk[x].kind = "ptrs" /\ s.blk[x].ptr \in [Ind -> Ptr]
<1> DEFINE x == s.ino[n].indirect
<1>1. s \in Fs /\ MaxBlks \in Uses /\ Direct < MaxBlks
  BY Numbers DEF Blks
<1>2. Use(s, n, MaxBlks) = x
  BY <1>1, UseIs
<1>3. x \in s.used /\ x \in Blk
  BY <1>1, <1>2, FsParts DEF Blks, Owned
<1>4. s.blk[x].kind = "ptrs"
  BY <1>1, <1>2, <1>3 DEF Blks, Kinds, Holds, Role
<1> QED
  BY <1>1, <1>2, <1>3, <1>4, FsParts, BlockKinds

\* A block that a directory names directly has dirents, and is in use.
LEMMA Dirents ==
  ASSUME NEW s, Blks(s), NEW d \in Ino, s.ino[d].type = "dir",
         NEW i \in Dir, s.ino[d].direct[i] # NoBlock
  PROVE  LET x == s.ino[d].direct[i]
         IN  /\ x \in s.used /\ x \in Blk /\ Use(s, d, i) = x
             /\ s.blk[x].kind = "dirents" /\ s.blk[x].slot \in [0 .. Slots - 1 -> Entry]
<1> DEFINE x == s.ino[d].direct[i]
<1>1. s \in Fs /\ i \in Uses /\ i < Direct /\ i # MaxBlks
  BY Numbers DEF Blks
<1>2. Use(s, d, i) = x
  BY <1>1, UseIs
<1>3. x \in s.used /\ x \in Blk
  BY <1>1, <1>2, FsParts DEF Blks, Owned
<1>4. s.blk[x].kind = "dirents"
  BY <1>1, <1>2, <1>3 DEF Blks, Kinds, Holds, Role
<1> QED
  BY <1>1, <1>2, <1>3, <1>4, FsParts, BlockKinds

\* An entry is an inode, or none, with a name.
LEMMA EntTyped ==
  ASSUME NEW s, Blks(s), NEW d \in Ino, NEW p \in Pl
  PROVE  Ent(s, d, p) \in Entry
<1>1. EmptySlot \in Entry
  BY DEF EmptySlot, Entry
<1>2. s \in Fs /\ Bk(p) \in Dir /\ Sl(p) \in 0 .. Slots - 1
  BY PlaceOf DEF Blks
<1>3. CASE s.ino[d].type = "dir" /\ s.ino[d].direct[Bk(p)] # NoBlock
  <2>1. Ent(s, d, p) = s.blk[s.ino[d].direct[Bk(p)]].slot[Sl(p)]
    BY <1>2, <1>3, EntIs
  <2>2. s.blk[s.ino[d].direct[Bk(p)]].slot \in [0 .. Slots - 1 -> Entry]
    BY Zenon, <1>2, <1>3, Dirents
  <2> QED
    BY Zenon, <1>2, <2>1, <2>2
<1> QED
  BY <1>1, <1>2, <1>3, EntIs

\* A free block comes into use in an empty place.
LEMMA Linked ==
  ASSUME NEW s, Blks(s), NEW t \in Fs, NEW n \in Ino, NEW i \in Uses, NEW b \in Blk \ s.used,
         s.ino[n].type # "free", Use(s, n, i) = NoBlock,
         t.used = s.used \cup {b},
         \A m \in Ino : t.ino[m].type = s.ino[m].type,
         \A m \in Ino : \A j \in Uses :
           Use(t, m, j) = IF m = n /\ j = i THEN b ELSE Use(s, m, j),
         \A c \in Blk \ {b} : /\ t.blk[c].kind = s.blk[c].kind
                              /\ c \notin s.used => t.blk[c] = s.blk[c],
         t.blk[b].kind = Role(s, n, i)
  PROVE  Blks(t)
<1>1. /\ s \in Fs /\ Owned(s) /\ Kinds(s) /\ Clean(s)
      /\ s.used \subseteq Blk /\ NoBlock \notin Blk
  BY FsParts, Numbers DEF Blks
<1>2. \A m \in Ino : \A j \in Uses : Role(t, m, j) = Role(s, m, j)
  BY DEF Role
<1>3. ASSUME NEW m \in Ino, NEW j \in Uses
      PROVE  /\ Use(s, m, j) \in s.used \cup {NoBlock} /\ Use(s, m, j) # b
             /\ Use(t, m, j) \in t.used \cup {NoBlock}
  BY <1>1 DEF Owned
<1>4. Once(t)
  BY <1>1, <1>3 DEF Owned, Once
<1>5. ASSUME NEW c \in t.used
      PROVE  \E m \in Ino : \E j \in Uses : Use(t, m, j) = c
  <2>1. CASE c = b
    BY <2>1
  <2>2. CASE c # b
    <3>1. PICK m \in Ino, j \in Uses : Use(s, m, j) = c
      BY <1>1, <2>2 DEF Owned
    <3>2. c # NoBlock
      BY <1>1, <2>2
    <3> QED
      BY <3>1, <3>2
  <2> QED
    BY <2>1, <2>2
<1>6. ASSUME NEW m \in Ino, NEW j \in Uses
      PROVE  Holds(t, m, j)
  <2>1. CASE m = n /\ j = i
    BY <1>2, <2>1 DEF Holds
  <2>2. CASE ~(m = n /\ j = i) /\ Use(s, m, j) # NoBlock
    <3>1. Use(t, m, j) = Use(s, m, j) /\ Use(s, m, j) \in Blk \ {b}
      BY <1>1, <1>3, <2>2
    <3>2. s.blk[Use(s, m, j)].kind = Role(s, m, j)
      BY <1>1, <2>2 DEF Kinds, Holds
    <3> QED
      BY <1>2, <3>1, <3>2 DEF Holds
  <2>3. CASE ~(m = n /\ j = i) /\ Use(s, m, j) = NoBlock
    BY <2>3 DEF Holds
  <2> QED
    BY <2>1, <2>2, <2>3
<1>7. Clean(t)
  BY <1>1 DEF Clean
<1>8. Owned(t)
  BY <1>3, <1>4, <1>5 DEF Owned
<1> QED
  BY <1>6, <1>7, <1>8 DEF Blks, Kinds

\* The least of some numbers is one of them.
LEMMA Least ==
  ASSUME NEW S, S \subseteq Nat, S # {}
  PROVE  Min(S) \in S /\ \A x \in S : Min(S) <= x
<1>1. \E m \in S : \A x \in S : m <= x
  BY LeastOf
<1> QED
  BY <1>1 DEF Min

-----------------------------------------------------------------------------
(* Blocks come into use.                                                    *)

\* What new blocks hold are blocks.
LEMMA Contents ==
  /\ Junk \in DataBlk /\ Zeros \in DataBlk /\ NoPtrs \in PtrBlk /\ NoSlots \in DirBlk
  /\ EmptySlot \in Entry
<1>1. Junk \in DataBlk /\ Zeros \in DataBlk
  BY DEF Junk, Zeros, DataBlk
<1>2. NoPtrs \in PtrBlk
  <2>1. NoBlock \in Ptr
    BY DEF Ptr
  <2> QED
    BY <2>1 DEF NoPtrs, PtrBlk, Ind
<1>3. EmptySlot \in Entry
  BY DEF EmptySlot, Entry
<1>4. NoSlots \in DirBlk
  BY <1>3 DEF NoSlots, DirBlk
<1> QED
  BY <1>1, <1>2, <1>3, <1>4

\* alloc_block fails and changes nothing, or a free block is in use, with its content.
LEMMA Allocated ==
  ASSUME NEW s \in Fs, NEW content \in Block, NEW got, got = AllocBlock(s, content)
  PROVE  \/ got = [fs |-> s, blk |-> NoBlock]
         \/ /\ got.blk \in Blk \ s.used
            /\ got.fs = [ino |-> s.ino, used |-> s.used \cup {got.blk},
                         blk |-> [s.blk EXCEPT ![got.blk] = content]]
            /\ got.fs \in Fs
<1> DEFINE avail == Blk \ s.used
           new == Min(avail)
<1>1. CASE avail = {}
  BY <1>1 DEF AllocBlock
<1>2. CASE avail # {}
  <2>1. avail \subseteq Nat
    BY DEF Blk
  <2>2. new \in avail
    <3> HIDE DEF avail
    <3> QED
      BY <1>2, <2>1, Least
  <2>3. got = [fs  |-> [ino |-> s.ino, used |-> s.used \cup {new},
                        blk |-> [s.blk EXCEPT ![new] = content]],
               blk |-> new]
    BY <1>2 DEF AllocBlock
  <2> HIDE DEF new
  <2> QED
    BY <2>2, <2>3, FsParts DEF Fs
<1> QED
  BY <1>1, <1>2

\* Entries stay, with the blocks that hold them.
LEMMA SameEnts ==
  ASSUME NEW s \in Fs, NEW t \in Fs, NEW d \in Ino, NEW p \in Pl,
         t.ino[d].type = s.ino[d].type,
         t.ino[d].direct[Bk(p)] = s.ino[d].direct[Bk(p)],
         s.ino[d].type = "dir" /\ s.ino[d].direct[Bk(p)] # NoBlock =>
           t.blk[s.ino[d].direct[Bk(p)]] = s.blk[s.ino[d].direct[Bk(p)]]
  PROVE  Ent(t, d, p) = Ent(s, d, p)
<1>1. CASE s.ino[d].type # "dir" \/ s.ino[d].direct[Bk(p)] = NoBlock
  <2>1. t.ino[d].type # "dir" \/ t.ino[d].direct[Bk(p)] = NoBlock
    BY <1>1
  <2>2. Ent(s, d, p) = EmptySlot
    BY <1>1, EntNone
  <2>3. Ent(t, d, p) = EmptySlot
    BY <2>1, EntNone
  <2> QED
    BY <2>2, <2>3
<1>2. CASE s.ino[d].type = "dir" /\ s.ino[d].direct[Bk(p)] # NoBlock
  <2>1. t.blk[s.ino[d].direct[Bk(p)]] = s.blk[s.ino[d].direct[Bk(p)]]
    BY <1>2
  <2>2. t.ino[d].type = "dir" /\ t.ino[d].direct[Bk(p)] # NoBlock
    BY <1>2
  <2>3. Ent(s, d, p) = s.blk[s.ino[d].direct[Bk(p)]].slot[Sl(p)]
    BY Zenon, <1>2, EntIn
  <2>4. Ent(t, d, p) = t.blk[t.ino[d].direct[Bk(p)]].slot[Sl(p)]
    BY Zenon, <2>2, EntIn
  <2> QED
    BY Zenon, <2>1, <2>3, <2>4
<1> QED
  BY <1>1, <1>2

\* And so do the uses of an inode, with its indirect block.
LEMMA SameUses ==
  ASSUME NEW s \in Fs, NEW t \in Fs, NEW n \in Ino, NEW j \in Uses,
         t.ino[n].type = s.ino[n].type,
         j < Direct => t.ino[n].direct[j] = s.ino[n].direct[j],
         t.ino[n].indirect = s.ino[n].indirect,
         s.ino[n].type # "free" /\ s.ino[n].indirect # NoBlock =>
           t.blk[s.ino[n].indirect].ptr[j - Direct] = s.blk[s.ino[n].indirect].ptr[j - Direct]
  PROVE  Use(t, n, j) = Use(s, n, j)
<1>1. j < Direct \/ j = MaxBlks \/ (j >= Direct /\ j # MaxBlks /\ j - Direct \in Ind)
  BY Numbers
<1>2. CASE s.ino[n].type = "free"
  BY <1>2, UseIs
<1>3. CASE s.ino[n].type # "free" /\ j < Direct
  BY <1>3, UseIs
<1>4. CASE s.ino[n].type # "free" /\ j = MaxBlks
  BY <1>4, UseIs
<1>5. CASE s.ino[n].type # "free" /\ j >= Direct /\ j # MaxBlks /\ j - Direct \in Ind
  <2>1. Use(s, n, j) = IF s.ino[n].indirect = NoBlock THEN NoBlock
                       ELSE s.blk[s.ino[n].indirect].ptr[j - Direct]
    BY <1>5, UseIs
  <2>2. Use(t, n, j) = IF t.ino[n].indirect = NoBlock THEN NoBlock
                       ELSE t.blk[t.ino[n].indirect].ptr[j - Direct]
    BY Zenon, <1>5, UseIs
  <2> QED
    BY <1>5, <2>1, <2>2
<1> QED
  BY <1>1, <1>2, <1>3, <1>4, <1>5

\* A block for a direct place.
LEMMA LinkDirect ==
  ASSUME NEW s, Blks(s), NEW n \in Ino, s.ino[n].type # "free",
         NEW i \in Dir, s.ino[n].direct[i] = NoBlock, NEW b \in Blk \ s.used,
         NEW content, content.kind = Role(s, n, i),
         content.kind = "dirents" => content = NoSlots,
         NEW t \in Fs,
         \A m \in Ino : t.ino[m].type = s.ino[m].type /\ t.ino[m].size = s.ino[m].size
                        /\ t.ino[m].indirect = s.ino[m].indirect,
         \A m \in Ino : \A j \in Dir : t.ino[m].direct[j] =
           IF m = n /\ j = i THEN b ELSE s.ino[m].direct[j],
         t.used = s.used \cup {b},
         \A c \in Blk \ {b} : t.blk[c] = s.blk[c],
         t.blk[b] = content
  PROVE  Blks(t) /\ SameTree(s, t) /\ Use(t, n, i) = b
<1>1. s \in Fs /\ i \in Uses /\ i < Direct /\ i # MaxBlks /\ i \in Nat /\ s.used \subseteq Blk
  BY Numbers, FsParts DEF Blks
<1>2. Use(s, n, i) = NoBlock
  BY <1>1, UseIs
<1>3. ASSUME NEW m \in Ino, NEW j \in Uses
      PROVE  Use(t, m, j) = IF m = n /\ j = i THEN b ELSE Use(s, m, j)
  <2>1. CASE m = n /\ j = i
    BY <1>1, <2>1, UseIs
  <2>2. CASE ~(m = n /\ j = i)
    <3>1. j < Direct => t.ino[m].direct[j] = s.ino[m].direct[j]
      BY <2>2, Numbers
    <3>2. s.ino[m].type # "free" /\ s.ino[m].indirect # NoBlock =>
            s.ino[m].indirect \in Blk \ {b}
      BY Indirect
    <3>3. s.ino[m].type # "free" /\ s.ino[m].indirect # NoBlock =>
            t.blk[s.ino[m].indirect] = s.blk[s.ino[m].indirect]
      BY <3>2
    <3>4. Use(t, m, j) = Use(s, m, j)
      BY <1>1, <3>1, <3>3, SameUses
    <3> QED
      BY <2>2, <3>4
  <2> QED
    BY <2>1, <2>2
<1>4. Blks(t)
  <2>1. t.blk[b].kind = Role(s, n, i)
    OBVIOUS
  <2> QED
    BY <1>1, <1>2, <1>3, <2>1, Linked
<1>5. ASSUME NEW d \in Ino, NEW p \in Pl
      PROVE  Ent(t, d, p) = Ent(s, d, p)
  <2>1. Bk(p) \in Dir /\ Sl(p) \in 0 .. Slots - 1
    BY PlaceOf
  <2>2. CASE ~(d = n /\ Bk(p) = i)
    <3>1. t.ino[d].direct[Bk(p)] = s.ino[d].direct[Bk(p)]
      BY <2>1, <2>2
    <3>2. s.ino[d].type = "dir" /\ s.ino[d].direct[Bk(p)] # NoBlock =>
            s.ino[d].direct[Bk(p)] \in Blk \ {b}
      BY <2>1, Dirents
    <3>3. s.ino[d].type = "dir" /\ s.ino[d].direct[Bk(p)] # NoBlock =>
            t.blk[s.ino[d].direct[Bk(p)]] = s.blk[s.ino[d].direct[Bk(p)]]
      BY <3>2
    <3>4. s \in Fs /\ t \in Fs /\ t.ino[d].type = s.ino[d].type
      BY <1>1
    <3> QED
      BY <3>1, <3>3, <3>4, SameEnts
  <2>3. CASE d = n /\ Bk(p) = i
    <3>1. Ent(s, d, p) = EmptySlot
      BY <1>1, <2>3, EntIs
    <3>2. s.ino[n].type = "dir" => content = NoSlots
      BY <1>1 DEF Role
    <3>3. NoSlots.slot[Sl(p)] = EmptySlot
      BY <2>1 DEF NoSlots
    <3>4. t.ino[d].direct[Bk(p)] = b /\ t.ino[d].type = s.ino[d].type
      BY <2>3
    <3>5. Ent(t, d, p) = IF t.ino[d].type # "dir" \/ b = NoBlock THEN EmptySlot
                         ELSE content.slot[Sl(p)]
      BY <3>4, EntIs
    <3> QED
      BY <2>3, <3>1, <3>2, <3>3, <3>4, <3>5
  <2> QED
    BY <2>2, <2>3
<1> QED
  BY <1>1, <1>3, <1>4, <1>5 DEF SameTree

\* An indirect block, with no pointers yet.
LEMMA LinkIndirect ==
  ASSUME NEW s, Blks(s), NEW n \in Ino, s.ino[n].type # "free",
         s.ino[n].indirect = NoBlock, NEW b \in Blk \ s.used,
         NEW t \in Fs,
         \A m \in Ino : t.ino[m].type = s.ino[m].type /\ t.ino[m].size = s.ino[m].size
                        /\ t.ino[m].direct = s.ino[m].direct,
         \A m \in Ino : t.ino[m].indirect = IF m = n THEN b ELSE s.ino[m].indirect,
         t.used = s.used \cup {b},
         \A c \in Blk \ {b} : t.blk[c] = s.blk[c],
         t.blk[b] = NoPtrs
  PROVE  Blks(t) /\ SameTree(s, t)
<1>1. s \in Fs /\ MaxBlks \in Uses /\ Direct < MaxBlks /\ s.used \subseteq Blk /\ b # NoBlock
  BY Numbers, FsParts DEF Blks
<1>2. Use(s, n, MaxBlks) = NoBlock
  BY <1>1, UseIs
<1>3. ASSUME NEW m \in Ino, NEW j \in Uses
      PROVE  Use(t, m, j) = IF m = n /\ j = MaxBlks THEN b ELSE Use(s, m, j)
  <2>1. CASE m # n
    <3>1. s.ino[m].type # "free" /\ s.ino[m].indirect # NoBlock =>
            s.ino[m].indirect \in Blk \ {b}
      BY Indirect
    <3>2. s.ino[m].type # "free" /\ s.ino[m].indirect # NoBlock =>
            t.blk[s.ino[m].indirect] = s.blk[s.ino[m].indirect]
      BY <3>1
    <3>3. /\ t.ino[m].indirect = s.ino[m].indirect /\ t.ino[m].type = s.ino[m].type
          /\ t.ino[m].direct = s.ino[m].direct
      BY <2>1
    <3>4. Use(t, m, j) = Use(s, m, j)
      BY <1>1, <3>2, <3>3, SameUses
    <3> QED
      BY <2>1, <3>4
  <2>2. CASE m = n
    <3>1. /\ t.ino[n].indirect = b /\ t.ino[n].type = s.ino[n].type
          /\ t.ino[n].direct = s.ino[n].direct
      OBVIOUS
    <3>2. CASE j < Direct
      BY <1>1, <2>2, <3>1, <3>2, UseIs
    <3>3. CASE j = MaxBlks
      BY <1>1, <2>2, <3>1, <3>3, UseIs
    <3>4. CASE j >= Direct /\ j # MaxBlks /\ j - Direct \in Ind
      <4>1. NoPtrs.ptr[j - Direct] = NoBlock
        BY <3>4 DEF NoPtrs, Ind
      <4>2. Use(s, n, j) = NoBlock
        BY <1>1, <3>4, UseIs
      <4>3. Use(t, n, j) = t.blk[b].ptr[j - Direct]
        BY <1>1, <3>1, <3>4, UseIs
      <4> QED
        BY <2>2, <3>4, <4>1, <4>2, <4>3
    <3> QED
      BY <3>2, <3>3, <3>4, Numbers
  <2> QED
    BY <2>1, <2>2
<1>4. t.blk[b].kind = Role(s, n, MaxBlks)
  BY DEF NoPtrs, Role
<1>5. Blks(t)
  BY <1>1, <1>2, <1>3, <1>4, Linked
<1>6. ASSUME NEW d \in Ino, NEW p \in Pl
      PROVE  Ent(t, d, p) = Ent(s, d, p)
  <2>1. Bk(p) \in Dir
    BY PlaceOf
  <2>2. s.ino[d].type = "dir" /\ s.ino[d].direct[Bk(p)] # NoBlock =>
          s.ino[d].direct[Bk(p)] \in Blk \ {b}
    BY <2>1, Dirents
  <2>3. /\ t.ino[d].direct[Bk(p)] = s.ino[d].direct[Bk(p)]
        /\ t.ino[d].type = s.ino[d].type
    OBVIOUS
  <2>4. s.ino[d].type = "dir" /\ s.ino[d].direct[Bk(p)] # NoBlock =>
          t.blk[s.ino[d].direct[Bk(p)]] = s.blk[s.ino[d].direct[Bk(p)]]
    BY <2>2
  <2>5. s \in Fs /\ t \in Fs
    BY <1>1
  <2> QED
    BY <2>3, <2>4, <2>5, SameEnts
<1> QED
  BY <1>5, <1>6 DEF SameTree

\* A block for a place of the indirect block x.
LEMMA LinkPointer ==
  ASSUME NEW s, Blks(s), NEW n \in Ino, s.ino[n].type # "free",
         NEW x, x = s.ino[n].indirect, x # NoBlock,
         NEW i \in Uses, i >= Direct, i # MaxBlks, Use(s, n, i) = NoBlock,
         NEW b \in Blk \ s.used, NEW content, content.kind = "data",
         NEW t \in Fs, t.ino = s.ino, t.used = s.used \cup {b},
         \A c \in Blk \ {b, x} : t.blk[c] = s.blk[c],
         t.blk[b] = content, t.blk[x].kind = "ptrs",
         t.blk[x].ptr[i - Direct] = b,
         \A k \in Ind \ {i - Direct} : t.blk[x].ptr[k] = s.blk[x].ptr[k]
  PROVE  Blks(t) /\ SameTree(s, t) /\ Use(t, n, i) = b
<1>1. /\ s \in Fs /\ MaxBlks \in Uses /\ Direct < MaxBlks /\ s.used \subseteq Blk
      /\ b # NoBlock /\ i - Direct \in Ind /\ i \in Nat /\ Direct \in Nat
  BY Numbers, FsParts DEF Blks
<1>2. /\ x \in s.used /\ x \in Blk \ {b} /\ Use(s, n, MaxBlks) = x
      /\ s.blk[x].kind = "ptrs" /\ s.blk[x].ptr \in [Ind -> Ptr]
  BY Indirect
<1>3. ASSUME NEW m \in Ino, NEW j \in Uses
      PROVE  Use(t, m, j) = IF m = n /\ j = i THEN b ELSE Use(s, m, j)
  <2>1. CASE m = n /\ j = i
    BY <1>1, <2>1, UseIs
  <2>2. CASE ~(m = n /\ j = i)
    <3>1. ASSUME s.ino[m].type # "free", s.ino[m].indirect # NoBlock, j - Direct \in Ind
          PROVE  t.blk[s.ino[m].indirect].ptr[j - Direct] =
                   s.blk[s.ino[m].indirect].ptr[j - Direct]
      <4>1. s.ino[m].indirect \in Blk \ {b} /\ Use(s, m, MaxBlks) = s.ino[m].indirect
        BY <3>1, Indirect
      <4>2. CASE s.ino[m].indirect # x
        BY <4>1, <4>2
      <4>3. CASE s.ino[m].indirect = x
        <5>1. m = n
          BY <1>1, <1>2, <4>1, <4>3 DEF Blks, Owned, Once
        <5>2. j \in Nat /\ j # i
          BY <2>2, <5>1, Numbers
        <5>3. j - Direct # i - Direct
          BY <1>1, <5>2
        <5> QED
          BY <3>1, <4>3, <5>3
      <4> QED
        BY <4>2, <4>3
    <3>2. CASE j - Direct \in Ind
      <4>1. Use(t, m, j) = Use(s, m, j)
        BY <1>1, <3>1, <3>2, SameUses
      <4> QED
        BY <2>2, <4>1
    <3>3. CASE j - Direct \notin Ind
      <4>1. j < Direct \/ j = MaxBlks
        BY <3>3, Numbers
      <4>2. Use(t, m, j) = Use(s, m, j)
        BY <1>1, <4>1, UseIs
      <4> QED
        BY <2>2, <4>2
    <3> QED
      BY <3>2, <3>3
  <2> QED
    BY <2>1, <2>2
<1>4. t.blk[b].kind = Role(s, n, i)
  BY <1>1 DEF Role
<1>5. Blks(t)
  <2>1. \A c \in Blk \ {b} : /\ t.blk[c].kind = s.blk[c].kind
                             /\ c \notin s.used => t.blk[c] = s.blk[c]
    BY <1>2
  <2>2. \A m \in Ino : t.ino[m].type = s.ino[m].type
    OBVIOUS
  <2> QED
    BY <1>1, <1>3, <1>4, <2>1, <2>2, Linked
<1>6. ASSUME NEW d \in Ino, NEW p \in Pl
      PROVE  Ent(t, d, p) = Ent(s, d, p)
  <2>1. Bk(p) \in Dir
    BY PlaceOf
  <2>2. ASSUME s.ino[d].type = "dir", s.ino[d].direct[Bk(p)] # NoBlock
        PROVE  s.ino[d].direct[Bk(p)] \in Blk \ {b, x}
    <3>1. /\ s.ino[d].direct[Bk(p)] \in Blk \ {b}
          /\ s.blk[s.ino[d].direct[Bk(p)]].kind = "dirents"
      BY <2>1, <2>2, Dirents
    <3> QED
      BY <1>2, <3>1
  <2>3. ASSUME s.ino[d].type = "dir", s.ino[d].direct[Bk(p)] # NoBlock
        PROVE  t.blk[s.ino[d].direct[Bk(p)]] = s.blk[s.ino[d].direct[Bk(p)]]
    BY <2>2, <2>3
  <2> QED
    BY <1>1, <2>3, SameEnts
<1> QED
  BY <1>1, <1>3, <1>5, <1>6 DEF SameTree

\* A field of an inode, or a pointer, is set.
\* A field of an inode, or a pointer of a block, is set.
PutIndirect(s, n, x)  == [s EXCEPT !.ino[n].indirect = x]
PutDirect(s, n, i, x) == [s EXCEPT !.ino[n].direct[i] = x]
PutType(s, n, x)      == [s EXCEPT !.ino[n].type = x]
PutPointer(s, b, k, x) == [s EXCEPT !.blk[b].ptr[k] = x]

\* To set a field of an inode is to set the inode.
LEMMA Fields ==
  ASSUME NEW s \in Fs, NEW n \in Ino
  PROVE  /\ \A x : [s EXCEPT !.ino[n].indirect = x] =
                     [s EXCEPT !.ino[n] = [s.ino[n] EXCEPT !.indirect = x]]
         /\ \A x : [s EXCEPT !.ino[n].size = x] =
                     [s EXCEPT !.ino[n] = [s.ino[n] EXCEPT !.size = x]]
         /\ \A x : [s EXCEPT !.ino[n].type = x] =
                     [s EXCEPT !.ino[n] = [s.ino[n] EXCEPT !.type = x]]
         /\ \A i, x : [s EXCEPT !.ino[n].direct[i] = x] =
                     [s EXCEPT !.ino[n] = [s.ino[n] EXCEPT !.direct[i] = x]]
OBVIOUS

\* The indirect pointer is set, and nothing else.
LEMMA SetIndirect ==
  ASSUME NEW s \in Fs, NEW n \in Ino, NEW x \in Ptr,
         NEW t, t = PutIndirect(s, n, x)
  PROVE  /\ t \in Fs /\ t.used = s.used /\ t.blk = s.blk
         /\ \A m \in Ino : t.ino[m].type = s.ino[m].type /\ t.ino[m].size = s.ino[m].size
                           /\ t.ino[m].direct = s.ino[m].direct
         /\ \A m \in Ino : t.ino[m].indirect = IF m = n THEN x ELSE s.ino[m].indirect
<1> DEFINE v == [s.ino[n] EXCEPT !.indirect = x]
<1>1. /\ v \in Inode /\ v.type = s.ino[n].type /\ v.size = s.ino[n].size
      /\ v.direct = s.ino[n].direct /\ v.indirect = x
  BY FsParts DEF Inode
<1>2. t = [s EXCEPT !.ino[n] = v]
  BY Fields DEF PutIndirect
<1> HIDE DEF v
<1>3. /\ t \in Fs /\ t.used = s.used /\ t.blk = s.blk
      /\ t.ino[n] = v /\ \A m \in Ino \ {n} : t.ino[m] = s.ino[m]
  BY <1>1, <1>2 DEF Fs
<1> QED
  BY <1>1, <1>3

\* A direct pointer is set, and nothing else.
LEMMA SetDirect ==
  ASSUME NEW s \in Fs, NEW n \in Ino, NEW i \in Dir, NEW x \in Ptr,
         NEW t, t = PutDirect(s, n, i, x)
  PROVE  /\ t \in Fs /\ t.used = s.used /\ t.blk = s.blk
         /\ \A m \in Ino : t.ino[m].type = s.ino[m].type /\ t.ino[m].size = s.ino[m].size
                           /\ t.ino[m].indirect = s.ino[m].indirect
         /\ \A m \in Ino : \A j \in Dir : t.ino[m].direct[j] =
              IF m = n /\ j = i THEN x ELSE s.ino[m].direct[j]
<1> DEFINE v == [s.ino[n] EXCEPT !.direct[i] = x]
<1>1. s.ino[n] \in Inode /\ s.ino[n].direct \in [Dir -> Ptr]
  BY FsParts
<1>2. /\ v \in Inode /\ v.type = s.ino[n].type /\ v.size = s.ino[n].size
      /\ v.direct = [s.ino[n].direct EXCEPT ![i] = x] /\ v.indirect = s.ino[n].indirect
  BY <1>1 DEF Inode
<1>3. t = [s EXCEPT !.ino[n] = v]
  BY Fields DEF PutDirect
<1> HIDE DEF v
<1>4. /\ t \in Fs /\ t.used = s.used /\ t.blk = s.blk
      /\ t.ino[n] = v /\ \A m \in Ino \ {n} : t.ino[m] = s.ino[m]
  BY <1>2, <1>3 DEF Fs
<1> QED
  BY <1>1, <1>2, <1>4

\* The type is set, and nothing else.
LEMMA SetType ==
  ASSUME NEW s \in Fs, NEW n \in Ino, NEW x \in Types,
         NEW t, t = PutType(s, n, x)
  PROVE  /\ t \in Fs /\ t.used = s.used /\ t.blk = s.blk
         /\ \A m \in Ino : /\ t.ino[m].direct = s.ino[m].direct
                           /\ t.ino[m].size = s.ino[m].size
                           /\ t.ino[m].indirect = s.ino[m].indirect
         /\ \A m \in Ino : t.ino[m].type = IF m = n THEN x ELSE s.ino[m].type
<1> DEFINE v == [s.ino[n] EXCEPT !.type = x]
<1>1. /\ v \in Inode /\ v.type = x /\ v.size = s.ino[n].size
      /\ v.direct = s.ino[n].direct /\ v.indirect = s.ino[n].indirect
  BY FsParts DEF Inode
<1>2. t = [s EXCEPT !.ino[n] = v]
  BY Fields DEF PutType
<1> HIDE DEF v
<1>3. /\ t \in Fs /\ t.used = s.used /\ t.blk = s.blk
      /\ t.ino[n] = v /\ \A m \in Ino \ {n} : t.ino[m] = s.ino[m]
  BY <1>1, <1>2 DEF Fs
<1> QED
  BY <1>1, <1>3

\* The size is set, and nothing else.
LEMMA SetSizes ==
  ASSUME NEW s \in Fs, NEW n \in Ino, NEW x \in Int, NEW t, t = SetSize(s, n, x)
  PROVE  /\ t \in Fs /\ t.used = s.used /\ t.blk = s.blk
         /\ \A m \in Ino : t.ino[m].type = s.ino[m].type /\ t.ino[m].direct = s.ino[m].direct
                           /\ t.ino[m].indirect = s.ino[m].indirect
         /\ \A m \in Ino : t.ino[m].size = IF m = n THEN x ELSE s.ino[m].size
<1> DEFINE v == [s.ino[n] EXCEPT !.size = x]
<1>1. /\ v \in Inode /\ v.type = s.ino[n].type /\ v.size = x
      /\ v.direct = s.ino[n].direct /\ v.indirect = s.ino[n].indirect
  BY FsParts DEF Inode
<1>2. t = [s EXCEPT !.ino[n] = v]
  BY Fields DEF SetSize
<1> HIDE DEF v
<1>3. /\ t \in Fs /\ t.used = s.used /\ t.blk = s.blk
      /\ t.ino[n] = v /\ \A m \in Ino \ {n} : t.ino[m] = s.ino[m]
  BY <1>1, <1>2 DEF Fs
<1> QED
  BY <1>1, <1>3

\* The indirect block is made, or is not to be had: all stays in order.
LEMMA WithIndirectIs ==
  ASSUME NEW s, Blks(s), NEW n \in Ino, s.ino[n].type # "free",
         NEW t, t = WithIndirect(s, n)
  PROVE  Blks(t) /\ SameTree(s, t)
<1>1. s \in Fs /\ NoPtrs \in Block
  BY Contents DEF Blks, Block
<1>2. CASE s.ino[n].indirect # NoBlock
  BY <1>2 DEF WithIndirect, SameTree
<1>3. CASE s.ino[n].indirect = NoBlock
  <2> DEFINE got == AllocBlock(s, NoPtrs)
  <2>1. t = PutIndirect(got.fs, n, got.blk)
    BY <1>3 DEF WithIndirect, PutIndirect
  <2>2. \/ got = [fs |-> s, blk |-> NoBlock]
        \/ /\ got.blk \in Blk \ s.used
           /\ got.fs = [ino |-> s.ino, used |-> s.used \cup {got.blk},
                        blk |-> [s.blk EXCEPT ![got.blk] = NoPtrs]]
           /\ got.fs \in Fs
    BY <1>1, Allocated
  <2> HIDE DEF got
  <2>3. CASE got = [fs |-> s, blk |-> NoBlock]
    <3>1. t = PutIndirect(s, n, NoBlock)
      BY <2>1, <2>3
    <3>2. NoBlock \in Ptr
      BY DEF Ptr
    <3>3. /\ t \in Fs /\ t.used = s.used /\ t.blk = s.blk
          /\ \A m \in Ino : t.ino[m].type = s.ino[m].type /\ t.ino[m].size = s.ino[m].size
                            /\ t.ino[m].direct = s.ino[m].direct
          /\ \A m \in Ino : t.ino[m].indirect = IF m = n THEN NoBlock ELSE s.ino[m].indirect
      BY <1>1, <3>1, <3>2, SetIndirect
    <3>4. t = s
      <4>1. \A m \in Ino : t.ino[m] \in Inode /\ s.ino[m] \in Inode
        BY <1>1, <3>3, FsParts
      <4>2. \A m \in Ino : t.ino[m].indirect = s.ino[m].indirect
        BY <1>3, <3>3
      <4>3. \A m \in Ino : t.ino[m] = s.ino[m]
        BY <3>3, <4>1, <4>2 DEF Inode
      <4>4. t.ino = s.ino
        BY <1>1, <3>3, <4>3, FsParts
      <4> QED
        BY <1>1, <3>3, <4>4 DEF Fs
    <3> QED
      BY <3>4 DEF SameTree
  <2>4. CASE /\ got.blk \in Blk \ s.used
             /\ got.fs = [ino |-> s.ino, used |-> s.used \cup {got.blk},
                          blk |-> [s.blk EXCEPT ![got.blk] = NoPtrs]]
             /\ got.fs \in Fs
    <3>1. /\ got.fs.ino = s.ino /\ got.fs.used = s.used \cup {got.blk}
          /\ got.fs.blk = [s.blk EXCEPT ![got.blk] = NoPtrs] /\ got.blk \in Ptr
          /\ got.fs \in Fs /\ got.blk \in Blk \ s.used
      BY <2>4 DEF Ptr
    <3>2. /\ t \in Fs /\ t.used = got.fs.used /\ t.blk = got.fs.blk
          /\ \A m \in Ino : t.ino[m].type = got.fs.ino[m].type
                            /\ t.ino[m].size = got.fs.ino[m].size
                            /\ t.ino[m].direct = got.fs.ino[m].direct
          /\ \A m \in Ino : t.ino[m].indirect = IF m = n THEN got.blk ELSE got.fs.ino[m].indirect
      <4> DEFINE g == got.fs
                 b == got.blk
      <4>1. g \in Fs /\ b \in Ptr /\ t = PutIndirect(g, n, b)
        BY <2>1, <3>1
      <4> HIDE DEF g, b
      <4>2. /\ t \in Fs /\ t.used = g.used /\ t.blk = g.blk
            /\ \A m \in Ino : t.ino[m].type = g.ino[m].type /\ t.ino[m].size = g.ino[m].size
                              /\ t.ino[m].direct = g.ino[m].direct
            /\ \A m \in Ino : t.ino[m].indirect = IF m = n THEN b ELSE g.ino[m].indirect
        BY <4>1, SetIndirect
      <4> QED
        BY <4>2 DEF g, b
    <3>3. (\A c \in Blk \ {got.blk} : t.blk[c] = s.blk[c]) /\ t.blk[got.blk] = NoPtrs
      <4>1. s.blk \in [Blk -> Block]
        BY <1>1, FsParts
      <4>2. t.blk = [s.blk EXCEPT ![got.blk] = NoPtrs] /\ got.blk \in Blk
        BY <3>1, <3>2
      <4> QED
        BY <4>1, <4>2
    <3>4. /\ t.used = s.used \cup {got.blk}
          /\ \A m \in Ino : t.ino[m].type = s.ino[m].type /\ t.ino[m].size = s.ino[m].size
                            /\ t.ino[m].direct = s.ino[m].direct
          /\ \A m \in Ino : t.ino[m].indirect = IF m = n THEN got.blk ELSE s.ino[m].indirect
      BY <3>1, <3>2
    <3> DEFINE b == got.blk
    <3>5. b \in Blk \ s.used /\ t \in Fs
      BY <3>1, <3>2
    <3> HIDE DEF b
    <3> QED
      BY <1>3, <3>3, <3>4, <3>5, LinkIndirect DEF b
  <2> QED
    BY <2>2, <2>3, <2>4
<1> QED
  BY <1>2, <1>3

\* Changes that leave the tree alone, one after the other, leave it alone.
LEMMA SameTreeTrans ==
  ASSUME NEW s, NEW t, NEW u, SameTree(s, t), SameTree(t, u)
  PROVE  SameTree(s, u)
BY DEF SameTree

\* block_for keeps all in order, and answers with a block of the file's.
LEMMA BlockWithIs ==
  ASSUME NEW s, Blks(s), NEW n \in Ino, s.ino[n].type = "file", NEW b \in Int,
         NEW content \in DataBlk, NEW got, got = BlockWith(s, n, b, content)
  PROVE  /\ Blks(got.fs) /\ SameTree(s, got.fs)
         /\ got.blk # NoBlock => /\ b \in Uses /\ b # MaxBlks
                                 /\ got.blk = Use(got.fs, n, b)
<1>1. CASE b \notin 0 .. MaxBlks - 1
  BY <1>1 DEF BlockWith, SameTree
<1>2. CASE b \in 0 .. MaxBlks - 1
  <2> DEFINE t    == IF b < Direct THEN s ELSE WithIndirect(s, n)
             ind  == t.ino[n].indirect
             held == BlockAt(t, n, b)
             new  == AllocBlock(t, content)
  <2>1. /\ b \in Uses /\ b # MaxBlks /\ b < MaxBlks /\ b \in Nat /\ content \in Block
        /\ content.kind = "data" /\ Direct \in Nat
    BY <1>2, Numbers DEF Uses, Block, DataBlk
  <2>2. Blks(t) /\ SameTree(s, t)
    BY WithIndirectIs DEF SameTree
  <2>3. t \in Fs /\ t.ino[n].type = "file" /\ t.ino[n].type # "free"
    <3> HIDE DEF t
    <3> QED
      BY <2>2 DEF Blks, SameTree
  <2>4. got = IF held # NoBlock \/ (b >= Direct /\ ind = NoBlock)
                THEN [fs |-> t, blk |-> held]
              ELSE IF new.blk = NoBlock THEN new
              ELSE [fs  |-> IF b < Direct THEN [new.fs EXCEPT !.ino[n].direct[b] = new.blk]
                            ELSE [new.fs EXCEPT !.blk[ind].ptr[b - Direct] = new.blk],
                    blk |-> new.blk]
    BY Zenon, <1>2 DEF BlockWith
  <2>5. held = Use(t, n, b)
    BY <2>1, <2>3 DEF Use
  <2>6. \/ new = [fs |-> t, blk |-> NoBlock]
        \/ /\ new.blk \in Blk \ t.used
           /\ new.fs = [ino |-> t.ino, used |-> t.used \cup {new.blk},
                        blk |-> [t.blk EXCEPT ![new.blk] = content]]
           /\ new.fs \in Fs
    BY <2>1, <2>3, Allocated
  <2> HIDE DEF t, held, new
  <2>7. CASE held # NoBlock \/ (b >= Direct /\ ind = NoBlock)
    <3>1. got = [fs |-> t, blk |-> held]
      BY Zenon, <2>4, <2>7
    <3>2. got.fs = t /\ got.blk = held
      BY <3>1
    <3> QED
      BY <2>1, <2>2, <2>5, <3>2
  <2>8. CASE ~(held # NoBlock \/ (b >= Direct /\ ind = NoBlock)) /\ new.blk = NoBlock
    <3>1. got = new /\ new = [fs |-> t, blk |-> NoBlock]
      BY <2>4, <2>6, <2>8, Numbers
    <3> QED
      BY <2>2, <3>1
  <2>9. CASE /\ ~(held # NoBlock \/ (b >= Direct /\ ind = NoBlock))
             /\ new.blk # NoBlock
    <3> DEFINE c == new.blk
               u == new.fs
    <3>1. /\ c \in Blk \ t.used /\ c \in Ptr /\ u \in Fs /\ c # NoBlock
          /\ u = [ino |-> t.ino, used |-> t.used \cup {c},
                  blk |-> [t.blk EXCEPT ![c] = content]]
      <4>1. new # [fs |-> t, blk |-> NoBlock]
        BY <2>9
      <4>2. /\ new.blk \in Blk \ t.used
            /\ new.fs = [ino |-> t.ino, used |-> t.used \cup {new.blk},
                         blk |-> [t.blk EXCEPT ![new.blk] = content]]
            /\ new.fs \in Fs
        BY Zenon, <2>6, <4>1
      <4>3. c \in Blk \ t.used /\ c # NoBlock
        BY <2>9, <4>2
      <4> QED
        BY <4>2, <4>3 DEF Ptr
    <3>2. got = [fs  |-> IF b < Direct THEN PutDirect(u, n, b, c)
                         ELSE PutPointer(u, ind, b - Direct, c),
                 blk |-> c]
      BY Zenon, <2>4, <2>9 DEF PutDirect, PutPointer
    <3> HIDE DEF c, u
    <3>3. /\ u.ino = t.ino /\ u.used = t.used \cup {c} /\ u.blk[c] = content
          /\ \A x \in Blk \ {c} : u.blk[x] = t.blk[x]
      BY <2>3, <3>1, FsParts
    <3>4. CASE b < Direct
      <4> DEFINE w == got.fs
      <4>1. w = PutDirect(u, n, b, c) /\ got.blk = c /\ b \in Dir
        BY <2>1, <3>2, <3>4, Numbers
      <4> HIDE DEF w
      <4>2. /\ w \in Fs /\ w.used = u.used /\ w.blk = u.blk
            /\ \A m \in Ino : w.ino[m].type = u.ino[m].type /\ w.ino[m].size = u.ino[m].size
                              /\ w.ino[m].indirect = u.ino[m].indirect
            /\ \A m \in Ino : \A j \in Dir : w.ino[m].direct[j] =
                 IF m = n /\ j = b THEN c ELSE u.ino[m].direct[j]
        <5>1. u \in Fs /\ c \in Ptr /\ b \in Dir /\ w = PutDirect(u, n, b, c)
          BY <3>1, <4>1
        <5> QED
          BY <5>1, SetDirect
      <4>3. t.ino[n].direct[b] = NoBlock /\ Role(t, n, b) = "data"
        BY <2>1, <2>3, <2>5, <2>9, <3>4, UseIs DEF Role
      <4>10. /\ w.used = t.used \cup {c} /\ w.blk[c] = content
             /\ \A x \in Blk \ {c} : w.blk[x] = t.blk[x]
             /\ \A m \in Ino : w.ino[m].type = t.ino[m].type /\ w.ino[m].size = t.ino[m].size
                               /\ w.ino[m].indirect = t.ino[m].indirect
             /\ \A m \in Ino : \A j \in Dir : w.ino[m].direct[j] =
                  IF m = n /\ j = b THEN c ELSE t.ino[m].direct[j]
        BY <3>3, <4>2
      <4>4. Blks(w) /\ SameTree(t, w) /\ Use(w, n, b) = c
        <5>1. /\ Blks(t) /\ t.ino[n].type # "free" /\ b \in Dir /\ c \in Blk \ t.used
              /\ w \in Fs /\ content.kind = Role(t, n, b) /\ content.kind # "dirents"
          BY <2>1, <2>2, <2>3, <3>1, <4>1, <4>2, <4>3
        <5> QED
          BY <5>1, <4>3, <4>10, LinkDirect
      <4> QED
        BY <2>1, <2>2, <4>1, <4>4, SameTreeTrans DEF w
    <3>5. CASE b >= Direct
      <4> DEFINE w == got.fs
      <4>1. /\ w = PutPointer(u, ind, b - Direct, c) /\ got.blk = c
            /\ b - Direct \in Ind /\ ind # NoBlock
        BY <2>1, <2>9, <3>2, <3>5, Numbers
      <4>2. /\ ind \in t.used /\ ind \in Blk /\ t.blk[ind].kind = "ptrs"
            /\ t.blk[ind].ptr \in [Ind -> Ptr]
        BY <2>2, <2>3, <4>1, Indirect
      <4>3. u.blk[ind] \in PtrBlk /\ u.blk[ind] = t.blk[ind] /\ ind # c
        BY <3>1, <3>3, <4>2, FsParts, BlockKinds
      <4> HIDE DEF w, ind
      <4>4. [u.blk[ind] EXCEPT !.ptr[b - Direct] = c] \in PtrBlk
        BY <3>1, <4>1, <4>3 DEF PtrBlk
      <4>5. /\ w \in Fs /\ w.ino = u.ino /\ w.used = u.used
            /\ \A x \in Blk \ {ind} : w.blk[x] = u.blk[x]
            /\ w.blk[ind] = [u.blk[ind] EXCEPT !.ptr[b - Direct] = c]
        BY Zenon, <3>1, <4>1, <4>2, <4>4 DEF Fs, Block, PutPointer
      <4>6. /\ w.blk[ind].kind = "ptrs" /\ w.blk[ind].ptr[b - Direct] = c
            /\ \A k \in Ind \ {b - Direct} : w.blk[ind].ptr[k] = t.blk[ind].ptr[k]
        BY <4>1, <4>2, <4>3, <4>5 DEF PtrBlk
      <4>7. Use(t, n, b) = NoBlock /\ ind = t.ino[n].indirect
        BY <2>5, <2>9 DEF ind
      <4>8. /\ w.ino = t.ino /\ w.used = t.used \cup {c} /\ w.blk[c] = content
            /\ \A x \in Blk \ {c, ind} : w.blk[x] = t.blk[x]
        BY <3>1, <3>3, <4>3, <4>5
      <4>9. Blks(w) /\ SameTree(t, w) /\ Use(w, n, b) = c
        <5>1. /\ Blks(t) /\ t.ino[n].type # "free" /\ c \in Blk \ t.used /\ w \in Fs
              /\ b \in Uses /\ b >= Direct /\ b # MaxBlks /\ content.kind = "data"
              /\ ind # NoBlock
          BY <2>1, <2>2, <2>3, <3>1, <3>5, <4>1, <4>5
        <5> QED
          BY <5>1, <4>6, <4>7, <4>8, LinkPointer
      <4> QED
        BY <2>1, <2>2, <4>1, <4>9, SameTreeTrans DEF w
    <3> QED
      BY <2>1, <3>4, <3>5
  <2> QED
    BY <2>7, <2>8, <2>9
<1> QED
  BY <1>1, <1>2

\* What blocks in use hold changes, not what they are for.
LEMMA Edited ==
  ASSUME NEW s, Blks(s), NEW t \in Fs, t.used = s.used,
         \A m \in Ino : t.ino[m].type = s.ino[m].type,
         \A m \in Ino : \A j \in Uses : Use(t, m, j) = Use(s, m, j),
         \A c \in Blk : /\ t.blk[c].kind = s.blk[c].kind
                        /\ c \notin s.used => t.blk[c] = s.blk[c]
  PROVE  Blks(t)
<1>1. s \in Fs /\ Owned(s) /\ Kinds(s) /\ Clean(s) /\ s.used \subseteq Blk
  BY FsParts DEF Blks
<1>2. \A m \in Ino : \A j \in Uses : Role(t, m, j) = Role(s, m, j)
  BY DEF Role
<1>3. Owned(t)
  BY <1>1 DEF Owned, Once
<1>4. ASSUME NEW m \in Ino, NEW j \in Uses
      PROVE  Holds(t, m, j)
  <2>1. Holds(s, m, j) /\ Use(s, m, j) \in s.used \cup {NoBlock}
    BY <1>1 DEF Kinds, Owned
  <2> QED
    BY <1>1, <1>2, <2>1 DEF Holds
<1>5. Clean(t)
  BY <1>1 DEF Clean
<1> QED
  BY <1>3, <1>4, <1>5 DEF Blks, Kinds

\* A block of data is filled.
LEMMA FilledIs ==
  ASSUME NEW s, Blks(s), NEW x \in s.used, s.blk[x].kind = "data",
         NEW b, NEW from, NEW to, NEW v \in Int,
         NEW t, t = Filled(s, x, b, from, to, v)
  PROVE  Blks(t) /\ SameTree(s, t)
<1> DEFINE cell == [c \in DOMAIN s.blk[x].cell |->
                      IF b * BlockSize + c \in from .. to - 1 THEN v ELSE s.blk[x].cell[c]]
           new  == [s.blk[x] EXCEPT !.cell = cell]
<1>1. s \in Fs /\ x \in Blk /\ s.used \subseteq Blk /\ s.blk[x] \in DataBlk
  BY FsParts, BlockKinds DEF Blks
<1>2. cell \in [0 .. BlockSize - 1 -> Int]
  BY <1>1 DEF DataBlk
<1>3. t = [s EXCEPT !.blk[x].cell = cell]
  BY DEF Filled
<1> HIDE DEF cell
<1>4. new \in DataBlk /\ new.kind = "data"
  BY <1>1, <1>2 DEF DataBlk
<1>5. t = [s EXCEPT !.blk[x] = new]
  BY <1>3
<1> HIDE DEF new
<1>6. /\ t \in Fs /\ t.ino = s.ino /\ t.used = s.used /\ t.blk[x] = new
      /\ \A c \in Blk \ {x} : t.blk[c] = s.blk[c]
  BY <1>1, <1>4, <1>5 DEF Fs, Block
<1>7. ASSUME NEW m \in Ino, NEW j \in Uses
      PROVE  Use(t, m, j) = Use(s, m, j)
  <2>1. ASSUME s.ino[m].type # "free", s.ino[m].indirect # NoBlock
        PROVE  t.blk[s.ino[m].indirect] = s.blk[s.ino[m].indirect]
    <3>1. s.ino[m].indirect \in Blk /\ s.blk[s.ino[m].indirect].kind = "ptrs"
      BY <2>1, Indirect
    <3> QED
      BY <1>6, <3>1
  <2>2. t.ino[m] = s.ino[m]
    BY <1>6
  <2> QED
    BY Zenon, <1>1, <1>6, <2>1, <2>2, SameUses
<1>8. ASSUME NEW d \in Ino, NEW p \in Pl
      PROVE  Ent(t, d, p) = Ent(s, d, p)
  <2>1. Bk(p) \in Dir
    BY PlaceOf
  <2>2. ASSUME s.ino[d].type = "dir", s.ino[d].direct[Bk(p)] # NoBlock
        PROVE  t.blk[s.ino[d].direct[Bk(p)]] = s.blk[s.ino[d].direct[Bk(p)]]
    <3>1. /\ s.ino[d].direct[Bk(p)] \in Blk
          /\ s.blk[s.ino[d].direct[Bk(p)]].kind = "dirents"
      BY <2>1, <2>2, Dirents
    <3> QED
      BY <1>6, <3>1
  <2> QED
    BY <1>1, <1>6, <2>2, SameEnts
<1>9. Blks(t)
  <2>1. \A c \in Blk : /\ t.blk[c].kind = s.blk[c].kind
                       /\ c \notin s.used => t.blk[c] = s.blk[c]
    BY <1>4, <1>6
  <2>2. \A m \in Ino : t.ino[m].type = s.ino[m].type
    BY <1>6
  <2> QED
    BY <1>6, <1>7, <2>1, <2>2, Edited
<1> QED
  BY <1>6, <1>8, <1>9 DEF SameTree

\* What a loop over the blocks of file n has left, of filesystem s.
Progress(s, n, from, to) ==
  {acc \in [fs : Fs, end : Int, full : BOOLEAN] :
     Blks(acc.fs) /\ SameTree(s, acc.fs) /\ acc.end \in from .. to}

\* A turn of the loop over the blocks of a write gets no further than the write.
LEMMA TurnIs ==
  ASSUME NEW s, NEW n \in Ino, s.ino[n].type = "file", NEW from \in Nat, NEW to \in Nat,
         NEW v \in Int, NEW acc \in Progress(s, n, from, to),
         NEW b \in Nat, from <= (b + 1) * BlockSize, from <= to
  PROVE  WriteBlock(acc, n, b, from, to, v) \in Progress(s, n, from, to)
<1> DEFINE got == BlockFor(acc.fs, n, b)
           end == Min({to, (b + 1) * BlockSize})
<1>1. /\ acc \in [fs : Fs, end : Int, full : BOOLEAN]
      /\ Blks(acc.fs) /\ SameTree(s, acc.fs) /\ acc.end \in from .. to
      /\ acc.fs.ino[n].type = "file"
  BY DEF Progress, SameTree
<1>2. /\ Blks(got.fs) /\ SameTree(acc.fs, got.fs)
      /\ got.blk # NoBlock => b \in Uses /\ b # MaxBlks /\ got.blk = Use(got.fs, n, b)
  <2>1. b \in Int /\ Zeros \in DataBlk
    BY Contents
  <2>2. got = BlockWith(acc.fs, n, b, Zeros)
    BY DEF BlockFor
  <2> HIDE DEF got
  <2> QED
    BY <1>1, <2>1, <2>2, BlockWithIs
<1>3. WriteBlock(acc, n, b, from, to, v) =
        IF acc.full THEN acc
        ELSE IF got.blk = NoBlock THEN [fs |-> got.fs, end |-> acc.end, full |-> TRUE]
        ELSE [fs |-> Filled(got.fs, got.blk, b, from, to, v), end |-> end, full |-> FALSE]
  BY DEF WriteBlock
<1>4. end \in from .. to
  <2>1. BlockSize \in Nat \ {0}
    BY MuninAssumption
  <2>2. (b + 1) * BlockSize \in Nat
    BY <2>1
  <2> DEFINE x == (b + 1) * BlockSize
  <2> HIDE DEF x
  <2>3. Min({to, x}) \in {to, x} /\ Min({to, x}) <= to
    BY <2>2, Least DEF x
  <2> QED
    BY <2>2, <2>3 DEF x
<1> HIDE DEF got, end
<1>5. SameTree(s, got.fs) /\ got.fs \in Fs
  BY <1>1, <1>2, SameTreeTrans DEF Blks
<1>6. CASE acc.full
  BY <1>3, <1>6
<1>7. CASE ~acc.full /\ got.blk = NoBlock
  <2>1. WriteBlock(acc, n, b, from, to, v) = [fs |-> got.fs, end |-> acc.end, full |-> TRUE]
    BY <1>3, <1>7
  <2> QED
    BY <1>1, <1>2, <1>5, <2>1 DEF Progress
<1>8. CASE ~acc.full /\ got.blk # NoBlock
  <2> DEFINE x == got.blk
             t == Filled(got.fs, x, b, from, to, v)
  <2>1. WriteBlock(acc, n, b, from, to, v) = [fs |-> t, end |-> end, full |-> FALSE]
    BY <1>3, <1>8
  <2>2. got.fs.ino[n].type = "file"
    BY <1>1, <1>2 DEF SameTree
  <2>3. x = Use(got.fs, n, b) /\ b \in Uses /\ b # MaxBlks /\ x # NoBlock
    BY <1>2, <1>8
  <2>4. x \in got.fs.used /\ got.fs.blk[x].kind = "data"
    <3>1. Owned(got.fs) /\ Kinds(got.fs)
      BY <1>2 DEF Blks
    <3>2. got.fs.blk[x].kind = Role(got.fs, n, b)
      BY <2>3, <3>1 DEF Kinds, Holds
    <3> QED
      BY <2>2, <2>3, <3>1, <3>2 DEF Owned, Role
  <2>5. Blks(t) /\ SameTree(got.fs, t)
    <3> HIDE DEF x
    <3> QED
      BY <1>2, <2>4, FilledIs
  <2> HIDE DEF t
  <2>6. SameTree(s, t) /\ t \in Fs
    BY <1>5, <2>5, SameTreeTrans DEF Blks
  <2> QED
    BY <1>4, <2>1, <2>5, <2>6 DEF Progress
<1> QED
  BY <1>6, <1>7, <1>8

\* The blocks of a write, from that of its first cell on, cover it.
LEMMA TurnsIs ==
  ASSUME NEW from \in Nat, NEW to \in Nat, from <= to
  PROVE  /\ Turns(from, to) \in Nat /\ from \div BlockSize \in Nat
         /\ \A k \in Nat \ {0} : from <= (from \div BlockSize + k) * BlockSize
<1> DEFINE q == from \div BlockSize
           r == from % BlockSize
           p == (to + BlockSize - 1) \div BlockSize
           u == (to + BlockSize - 1) % BlockSize
<1>1. BlockSize \in Nat \ {0} /\ to + BlockSize - 1 \in Nat
  BY MuninAssumption
<1>2. q \in Nat /\ r \in 0 .. BlockSize - 1 /\ from = q * BlockSize + r
  BY <1>1, DivMod
<1>3. p \in Nat /\ u \in 0 .. BlockSize - 1 /\ to + BlockSize - 1 = p * BlockSize + u
  <2> DEFINE x == to + BlockSize - 1
  <2> HIDE DEF x
  <2>1. x \div BlockSize \in Nat /\ x % BlockSize \in 0 .. BlockSize - 1
        /\ x = (x \div BlockSize) * BlockSize + (x % BlockSize)
    BY <1>1, DivMod DEF x
  <2> QED
    BY <2>1 DEF x
<1>4. Turns(from, to) = IF from = to THEN 0 ELSE p - q
  BY DEF Turns
<1> HIDE DEF q, r, p, u
<1>5. ASSUME from # to, p < q
      PROVE  FALSE
  <2>1. p + 1 <= q
    BY <1>2, <1>3, <1>5
  <2>2. (p + 1) * BlockSize <= q * BlockSize
    BY <1>1, <1>2, <1>3, <2>1
  <2>3. (p + 1) * BlockSize = p * BlockSize + BlockSize
    BY <1>1, <1>3
  <2>4. p * BlockSize \in Nat /\ q * BlockSize \in Nat
    BY <1>1, <1>2, <1>3
  <2> QED
    BY <1>1, <1>2, <1>3, <1>5, <2>2, <2>3, <2>4
<1>6. ASSUME NEW k \in Nat \ {0}
      PROVE  from <= (q + k) * BlockSize
  <2>1. (q + k) * BlockSize = q * BlockSize + k * BlockSize
    BY <1>1, <1>2
  <2>2. k * BlockSize >= BlockSize
    BY <1>1
  <2>3. k * BlockSize \in Nat /\ q * BlockSize \in Nat
    BY <1>1, <1>2
  <2> QED
    BY <1>1, <1>2, <2>1, <2>2, <2>3
<1>7. Turns(from, to) \in Nat
  BY <1>2, <1>3, <1>4, <1>5
<1> QED
  BY <1>2, <1>6, <1>7 DEF q

\* The loop over the blocks of a write, wherever it stops, leaves all in order.
LEMMA WritesIs ==
  ASSUME NEW s, Blks(s), NEW n \in Ino, s.ino[n].type = "file",
         NEW from \in Nat, NEW to \in Nat, from <= to, NEW v \in Int
  PROVE  WriteBlocks(s, n, from, to, v) \in Progress(s, n, from, to)
<1> DEFINE S == Progress(s, n, from, to)
           N == Turns(from, to)
           none == [fs |-> s, end |-> from, full |-> FALSE]
           turn(acc, k) == WriteBlock(acc, n, from \div BlockSize + k - 1, from, to, v)
           step == [w \in S \X (1 .. N) |-> turn(w[1], w[2])]
           Runs(g) == g = [k \in 0 .. N |-> IF k = 0 THEN none ELSE turn(g[k - 1], k)]
<1>1. N \in Nat /\ from \div BlockSize \in Nat
  BY TurnsIs
<1>2. none \in S
  BY DEF Blks, Progress, SameTree
<1>3. ASSUME NEW acc \in S, NEW k \in 1 .. N
      PROVE  turn(acc, k) \in S
  <2> DEFINE b == from \div BlockSize + k - 1
  <2>1. b \in Nat /\ b + 1 = from \div BlockSize + k
    BY <1>1
  <2>2. from <= (b + 1) * BlockSize
    BY <1>1, <2>1, TurnsIs
  <2> HIDE DEF b
  <2>3. WriteBlock(acc, n, b, from, to, v) \in S
    BY <2>1, <2>2, TurnIs
  <2> QED
    BY <2>3 DEF b
<1> HIDE DEF turn, S, N, none
<1>4. step \in [S \X (1 .. N) -> S]
  BY <1>3
<1>5. PICK f \in [0 .. N -> S] : f[0] = none /\ \A i \in 1 .. N : f[i] = step[<<f[i - 1], i>>]
  <2> HIDE DEF step
  <2>1. \E f \in [0 .. N -> S] : Iterates(f, N, none, step)
    BY <1>1, <1>2, <1>4, Iteration
  <2> QED
    BY <2>1 DEF Iterates
<1>6. ASSUME NEW i \in 1 .. N
      PROVE  f[i] = turn(f[i - 1], i)
  <2>1. f[i - 1] \in S
    BY <1>1
  <2> DEFINE w == <<f[i - 1], i>>
  <2>2. w \in S \X (1 .. N) /\ w[1] = f[i - 1] /\ w[2] = i
    BY <2>1
  <2>3. f[i] = step[w]
    BY <1>5
  <2>4. step[w] = turn(w[1], w[2])
    <3> HIDE DEF w
    <3> QED
      BY <2>2
  <2> QED
    BY <2>2, <2>3, <2>4
<1>7. Runs(f)
  BY <1>5, <1>6
<1>8. Writes(s, n, from, to, v) = CHOOSE g : Runs(g)
  BY DEF Writes, N, none, turn
<1>9. Runs(Writes(s, n, from, to, v))
  <2> HIDE DEF Runs
  <2> QED
    BY <1>7, <1>8
<1> DEFINE did == Writes(s, n, from, to, v)
<1>10. WriteBlocks(s, n, from, to, v) = did[N]
  BY DEF WriteBlocks, N
<1>11. did[0] = none /\ \A k \in 1 .. N : did[k] = turn(did[k - 1], k)
  BY <1>1, <1>9 DEF Runs
<1> HIDE DEF did
<1> DEFINE P == {k \in Nat : did[k] \in S}
<1>12. 0 .. N \subseteq P
  <2>1. 0 \in P
    BY <1>2, <1>11
  <2>2. ASSUME NEW i \in 0 .. N - 1, i \in P
        PROVE  i + 1 \in P
    <3>1. i + 1 \in 1 .. N /\ (i + 1) - 1 = i /\ did[i] \in S
      BY <1>1, <2>2
    <3> DEFINE k == i + 1
    <3> HIDE DEF k
    <3>2. did[k] = turn(did[k - 1], k) /\ did[k - 1] \in S
      BY <1>11, <3>1 DEF k
    <3>3. did[k] \in S
      BY <1>3, <3>1, <3>2 DEF k
    <3> QED
      BY <3>1, <3>3 DEF k
  <2> HIDE DEF P
  <2> QED
    BY <1>1, <2>1, <2>2, UpTo
<1>13. did[N] \in S
  BY <1>1, <1>12
<1> QED
  BY <1>10, <1>13 DEF S

-----------------------------------------------------------------------------
(* Blocks go out of use.                                                    *)

\* The blocks of an inode are those it names.
LEMMA BlocksOfIs ==
  ASSUME NEW s, Blks(s), NEW n \in Ino, s.ino[n].type # "free", NEW x
  PROVE  x \in BlocksOf(s, n) <=> x # NoBlock /\ \E i \in Uses : Use(s, n, i) = x
<1>1. /\ MaxBlks \in Nat /\ MaxBlks \in Uses /\ s \in Fs /\ Direct < MaxBlks
      /\ \A i : i \in Uses <=> i = MaxBlks \/ i \in 0 .. MaxBlks - 1
  BY Numbers DEF Blks, Uses
<1>2. Use(s, n, MaxBlks) = s.ino[n].indirect
  BY DEF Use
<1>3. \A i \in 0 .. MaxBlks - 1 : Use(s, n, i) = BlockAt(s, n, i)
  BY <1>1 DEF Use
<1> QED
  BY <1>1, <1>2, <1>3 DEF BlocksOf

\* A fresh inode has no blocks and no size.
LEMMA Fresh ==
  ASSUME NEW type \in Types
  PROVE  /\ FreshInode(type) \in Inode
         /\ FreshInode(type).type = type /\ FreshInode(type).size = 0
         /\ FreshInode(type).indirect = NoBlock
         /\ \A i \in Dir : FreshInode(type).direct[i] = NoBlock
<1>1. NoBlock \in Ptr
  BY DEF Ptr
<1> QED
  BY <1>1 DEF FreshInode, Inode, Dir

\* free_inode_blocks: an inode gives its blocks back, and a directory its entries.
LEMMA Freed ==
  ASSUME NEW s, Blks(s), NEW n \in Ino, s.ino[n].type # "free",
         NEW t, t = FreeInodeBlocks(s, n)
  PROVE  /\ Blks(t)
         /\ \A m \in Ino : t.ino[m].type = s.ino[m].type
         /\ \A m \in Ino \ {n} : t.ino[m] = s.ino[m]
         /\ t.ino[n].size = 0
         /\ \A j \in Uses : Use(t, n, j) = NoBlock
         /\ \A d \in Ino : \A p \in Pl :
              Ent(t, d, p) = IF d = n THEN EmptySlot ELSE Ent(s, d, p)
<1> DEFINE B   == BlocksOf(s, n)
           new == FreshInode(s.ino[n].type)
           u   == FreeBlocks(s, B)
<1>1. /\ s \in Fs /\ Owned(s) /\ Kinds(s) /\ Clean(s) /\ s.used \subseteq Blk
      /\ s.ino \in [Ino -> Inode] /\ s.blk \in [Blk -> Block] /\ s.ino[n].type \in Types
      /\ NoBlock \notin Blk /\ MaxBlks \in Uses /\ Direct < MaxBlks
  BY FsParts, Numbers DEF Blks
<1>2. /\ new \in Inode /\ new.type = s.ino[n].type /\ new.size = 0
      /\ new.indirect = NoBlock /\ \A i \in Dir : new.direct[i] = NoBlock
  BY <1>1, Fresh
<1>3. \A x \in B : x # NoBlock /\ \E i \in Uses : Use(s, n, i) = x
  BY BlocksOfIs
<1>4. \A i \in Uses : Use(s, n, i) # NoBlock => Use(s, n, i) \in B
  BY BlocksOfIs
<1>5. u = [ino |-> s.ino, used |-> s.used \ B,
           blk |-> [b \in Blk |-> IF b \in B THEN Junk ELSE s.blk[b]]]
  BY DEF FreeBlocks
<1> HIDE DEF B
<1>6. u \in Fs /\ u.ino = s.ino /\ u.used = s.used \ B
      /\ \A b \in Blk : u.blk[b] = IF b \in B THEN Junk ELSE s.blk[b]
  <2>1. Junk \in Block
    BY Contents DEF Block
  <2>2. [b \in Blk |-> IF b \in B THEN Junk ELSE s.blk[b]] \in [Blk -> Block]
    BY <1>1, <2>1
  <2> QED
    BY <1>1, <1>5, <2>2 DEF Fs
<1>7. t = [u EXCEPT !.ino[n] = new]
  BY <1>6 DEF FreeInodeBlocks, Cleared, B
<1> HIDE DEF u, new
<1>8. /\ t \in Fs /\ t.used = s.used \ B /\ t.ino[n] = new
      /\ \A m \in Ino \ {n} : t.ino[m] = s.ino[m]
      /\ \A b \in Blk : t.blk[b] = IF b \in B THEN Junk ELSE s.blk[b]
  <2>1. t \in Fs /\ t.used = u.used /\ t.blk = u.blk /\ t.ino = [u.ino EXCEPT ![n] = new]
    BY <1>2, <1>6, <1>7 DEF Fs
  <2> QED
    BY <1>1, <1>6, <2>1
<1>9. \A m \in Ino : t.ino[m].type = s.ino[m].type
  BY <1>2, <1>8
<1>10. ASSUME NEW m \in Ino \ {n}, NEW j \in Uses, Use(s, m, j) # NoBlock
       PROVE  Use(s, m, j) \in s.used \ B
  BY <1>1, <1>3, <1>10 DEF Owned, Once
<1>11. ASSUME NEW m \in Ino \ {n}, NEW j \in Uses
       PROVE  Use(t, m, j) = Use(s, m, j)
  <2>1. ASSUME s.ino[m].type # "free", s.ino[m].indirect # NoBlock
        PROVE  t.blk[s.ino[m].indirect] = s.blk[s.ino[m].indirect]
    <3>1. Use(s, m, MaxBlks) = s.ino[m].indirect /\ s.ino[m].indirect \in Blk
      BY <2>1, Indirect
    <3>2. s.ino[m].indirect \notin B
      BY <1>1, <1>10, <2>1, <3>1
    <3> QED
      BY <1>8, <3>1, <3>2
  <2>2. t.ino[m] = s.ino[m]
    BY <1>8
  <2> QED
    BY <1>1, <1>8, <2>1, <2>2, SameUses
<1>12. ASSUME NEW j \in Uses
       PROVE  Use(t, n, j) = NoBlock
  <2>1. t.ino[n].indirect = NoBlock /\ \A i \in Dir : t.ino[n].direct[i] = NoBlock
    BY <1>2, <1>8
  <2>2. j < Direct \/ j = MaxBlks \/ (j >= Direct /\ j # MaxBlks)
    BY Numbers
  <2>3. j < Direct => j \in Dir
    BY Numbers
  <2> QED
    BY <1>8, <2>1, <2>2, <2>3, UseIs
<1>13. Blks(t)
  <2>1. \A m \in Ino : \A j \in Uses : Use(t, m, j) \in t.used \cup {NoBlock}
    BY <1>8, <1>10, <1>11, <1>12
  <2>2. Once(t)
    BY <1>1, <1>11, <1>12 DEF Owned, Once
  <2>3. ASSUME NEW b \in t.used
        PROVE  \E m \in Ino : \E j \in Uses : Use(t, m, j) = b
    <3>1. b \in s.used \ B
      BY <1>8
    <3>2. PICK m \in Ino, j \in Uses : Use(s, m, j) = b
      BY <1>1, <3>1 DEF Owned
    <3>3. m # n
      BY <1>1, <1>4, <3>1, <3>2
    <3> QED
      BY <1>11, <3>2, <3>3
  <2>4. ASSUME NEW m \in Ino, NEW j \in Uses
        PROVE  Holds(t, m, j)
    <3>1. CASE m = n
      BY <1>12, <3>1 DEF Holds
    <3>2. CASE m # n
      <4>1. Role(t, m, j) = Role(s, m, j)
        BY <1>9 DEF Role
      <4>2. ASSUME Use(s, m, j) # NoBlock
            PROVE  /\ s.blk[Use(s, m, j)].kind = Role(s, m, j)
                   /\ t.blk[Use(s, m, j)] = s.blk[Use(s, m, j)]
        <5>1. Use(s, m, j) \in s.used \ B
          BY <1>10, <3>2, <4>2
        <5> QED
          BY <1>1, <1>8, <4>2, <5>1 DEF Kinds, Holds
      <4> QED
        BY <1>11, <3>2, <4>1, <4>2 DEF Holds
    <3> QED
      BY <3>1, <3>2
  <2>5. Clean(t)
    BY <1>1, <1>8 DEF Clean
  <2> QED
    BY <1>8, <2>1, <2>2, <2>3, <2>4, <2>5 DEF Blks, Owned, Kinds
<1>14. ASSUME NEW d \in Ino, NEW p \in Pl
       PROVE  Ent(t, d, p) = IF d = n THEN EmptySlot ELSE Ent(s, d, p)
  <2>1. Bk(p) \in Dir
    BY PlaceOf
  <2>2. CASE d = n
    <3>1. t.ino[n].direct[Bk(p)] = NoBlock
      BY <1>2, <1>8, <2>1
    <3> QED
      BY <1>8, <2>2, <3>1, EntIs
  <2>3. CASE d # n
    <3>1. ASSUME s.ino[d].type = "dir", s.ino[d].direct[Bk(p)] # NoBlock
          PROVE  t.blk[s.ino[d].direct[Bk(p)]] = s.blk[s.ino[d].direct[Bk(p)]]
      <4>1. /\ s.ino[d].direct[Bk(p)] \in Blk
            /\ Use(s, d, Bk(p)) = s.ino[d].direct[Bk(p)]
        BY <2>1, <3>1, Dirents
      <4>2. Bk(p) \in Uses
        BY <2>1, Numbers
      <4>3. s.ino[d].direct[Bk(p)] \notin B
        BY <1>1, <1>10, <2>3, <4>1, <4>2
      <4> QED
        BY <1>8, <4>1, <4>3
    <3>2. t.ino[d] = s.ino[d]
      BY <1>8, <2>3
    <3> QED
      BY <1>1, <1>8, <2>3, <3>1, <3>2, SameEnts
  <2> QED
    BY <2>2, <2>3
<1> QED
  BY <1>2, <1>8, <1>9, <1>12, <1>13, <1>14

-----------------------------------------------------------------------------
(* The tree.                                                                *)

\* The places of d that have an entry.
Occupied(s, d) == {p \in Pl : Ent(s, d, p).inode # None}

\* The directories are a tree: IsTree, by its entries.
Rooted(s) ==
  /\ s.ino[Root].type = "dir"
  /\ \A d \in Ino : \A p \in Pl : Ent(s, d, p).inode \in (Live(s) \ {Root}) \cup {None}
  /\ \A n \in Live(s) \ {Root} : \E d \in Ino : \E p \in Pl : Ent(s, d, p).inode = n
  /\ \A c, d \in Ino : \A p, q \in Pl :
       Ent(s, c, p).inode = Ent(s, d, q).inode /\ Ent(s, c, p).inode # None => c = d /\ p = q
  /\ \A d \in Dirs(s) :
       /\ s.ino[d].size = Cardinality(Occupied(s, d))
       /\ \A p, q \in Occupied(s, d) : Ent(s, d, p).name = Ent(s, d, q).name => p = q

\* Sizes that a file can have.  (A directory's is the number of its entries.)
Sized(s) == \A n \in Ino : s.ino[n].type # "dir" => s.ino[n].size \in 0 .. Cap

\* What holds of a filesystem between two calls.
Good(s) == Blks(s) /\ Rooted(s) /\ Sized(s)

\* The same types, sizes of directories and entries are the same tree.
LEMMA RootedKept ==
  ASSUME NEW s, Rooted(s), NEW t,
         \A n \in Ino : t.ino[n].type = s.ino[n].type,
         \A n \in Ino : s.ino[n].type = "dir" => t.ino[n].size = s.ino[n].size,
         \A d \in Ino : \A p \in Pl : Ent(t, d, p) = Ent(s, d, p)
  PROVE  Rooted(t)
<1>1. Live(t) = Live(s) /\ Dirs(t) = Dirs(s)
  BY DEF Live, Dirs
<1>2. \A d \in Ino : Occupied(t, d) = Occupied(s, d)
  BY DEF Occupied
<1>3. t.ino[Root].type = "dir"
  BY Numbers DEF Rooted
<1>4. \A d \in Dirs(t) : d \in Ino /\ t.ino[d].size = s.ino[d].size
  BY <1>1 DEF Dirs
<1>5. \A d \in Dirs(t) :
        /\ t.ino[d].size = Cardinality(Occupied(t, d))
        /\ \A p, q \in Occupied(t, d) : Ent(t, d, p).name = Ent(t, d, q).name => p = q
  BY <1>1, <1>2, <1>4 DEF Rooted, Occupied
<1>6. \A d \in Ino : \A p \in Pl : Ent(t, d, p).inode \in (Live(t) \ {Root}) \cup {None}
  BY <1>1 DEF Rooted
<1>7. \A n \in Live(t) \ {Root} : \E d \in Ino : \E p \in Pl : Ent(t, d, p).inode = n
  BY <1>1 DEF Rooted
<1>8. \A c, d \in Ino : \A p, q \in Pl :
        Ent(t, c, p).inode = Ent(t, d, q).inode /\ Ent(t, c, p).inode # None => c = d /\ p = q
  BY DEF Rooted
<1> QED
  BY <1>3, <1>5, <1>6, <1>7, <1>8 DEF Rooted

\* The largest file; a directory cannot have more entries than that has cells.
LEMMA Caps == Cap \in Nat /\ 0 \in 0 .. Cap /\ Direct * Slots <= Cap
<1>1. /\ Direct \in Nat /\ Slots \in Nat /\ BlockSize \in Nat /\ Ptrs \in Nat
      /\ Slots <= BlockSize
  BY MuninAssumption
<1>2. Direct * Slots <= Direct * BlockSize
  BY <1>1
<1>3. (Direct + Ptrs) * BlockSize = Direct * BlockSize + Ptrs * BlockSize
  BY <1>1
<1>4. Ptrs * BlockSize \in Nat /\ Direct * BlockSize \in Nat /\ Direct * Slots \in Nat
  BY <1>1
<1> QED
  BY <1>2, <1>3, <1>4 DEF Cap, MaxBlks

\* A directory has finitely many entries, and no more than Cap.
LEMMA Counted ==
  ASSUME NEW s, NEW d
  PROVE  /\ IsFiniteSet(Occupied(s, d)) /\ Cardinality(Occupied(s, d)) \in 0 .. Cap
         /\ Occupied(s, d) \subseteq Pl
<1>1. 0 \in Int /\ Direct * Slots - 1 \in Int /\ Direct * Slots \in Nat
  BY MuninAssumption
<1>2. IsFiniteSet(Pl) /\ Cardinality(Pl) = Direct * Slots
  <2> DEFINE k == Direct * Slots
  <2>1. k \in Nat /\ k - 1 \in Int
    BY <1>1
  <2> HIDE DEF k
  <2>2. IsFiniteSet(0 .. k - 1) /\ Cardinality(0 .. k - 1) = k
    BY <2>1, FS_Interval
  <2> QED
    BY <2>2 DEF Pl, k
<1>3. Occupied(s, d) \subseteq Pl
  BY DEF Occupied
<1>4. /\ IsFiniteSet(Occupied(s, d)) /\ Cardinality(Occupied(s, d)) <= Direct * Slots
      /\ Cardinality(Occupied(s, d)) \in Nat
  BY <1>2, <1>3, FS_Subset, FS_CardinalityType
<1>5. Direct * Slots <= Cap /\ Cap \in Nat
  BY Caps
<1> QED
  BY <1>1, <1>3, <1>4, <1>5

\* An inode that names no block.
Bare(s, n) == \A j \in Uses : Use(s, n, j) = NoBlock

\* An inode that names no block has no entries.
LEMMA BareEnts ==
  ASSUME NEW s \in Fs, NEW n \in Ino, Bare(s, n), NEW p \in Pl
  PROVE  Ent(s, n, p) = EmptySlot
<1>1. Bk(p) \in Dir /\ Bk(p) \in Uses /\ Bk(p) < Direct
  BY PlaceOf, Numbers
<1>2. s.ino[n].type # "free" => s.ino[n].direct[Bk(p)] = NoBlock
  BY <1>1, UseIs DEF Bare
<1> QED
  BY <1>2, EntIs

\* Whatever else becomes of it.
LEMMA Swapped ==
  ASSUME NEW s, Blks(s), NEW t \in Fs, NEW n \in Ino, Bare(s, n), Bare(t, n),
         t.used = s.used, t.blk = s.blk, \A m \in Ino \ {n} : t.ino[m] = s.ino[m]
  PROVE  Blks(t) /\ \A d \in Ino : \A p \in Pl : Ent(t, d, p) = Ent(s, d, p)
<1>1. s \in Fs /\ Owned(s) /\ Kinds(s) /\ Clean(s)
  BY DEF Blks
<1>2. ASSUME NEW m \in Ino, NEW j \in Uses
      PROVE  Use(t, m, j) = Use(s, m, j)
  <2>1. CASE m = n
    BY <2>1 DEF Bare
  <2>2. CASE m # n
    BY <2>2, <1>1, SameUses
  <2> QED
    BY <2>1, <2>2
<1>3. Owned(t)
  BY <1>1, <1>2 DEF Owned, Once
<1>4. ASSUME NEW m \in Ino, NEW j \in Uses
      PROVE  Holds(t, m, j)
  <2>1. CASE m = n
    BY <2>1 DEF Bare, Holds
  <2>2. CASE m # n
    <3>1. Role(t, m, j) = Role(s, m, j)
      BY <2>2 DEF Role
    <3> QED
      BY <1>1, <1>2, <3>1 DEF Kinds, Holds
  <2> QED
    BY <2>1, <2>2
<1>5. Clean(t)
  BY <1>1 DEF Clean
<1>6. ASSUME NEW d \in Ino, NEW p \in Pl
      PROVE  Ent(t, d, p) = Ent(s, d, p)
  <2>1. CASE d = n
    BY <1>1, <2>1, BareEnts
  <2>2. CASE d # n
    BY <1>1, <2>2, SameEnts
  <2> QED
    BY <2>1, <2>2
<1> QED
  BY <1>3, <1>4, <1>5, <1>6 DEF Blks, Kinds

\* The size of an inode is nothing to its blocks.
LEMMA Resized ==
  ASSUME NEW s, Blks(s), NEW n \in Ino, NEW x \in Int, NEW t, t = SetSize(s, n, x)
  PROVE  /\ Blks(t) /\ \A d \in Ino : \A p \in Pl : Ent(t, d, p) = Ent(s, d, p)
         /\ \A m \in Ino : t.ino[m].type = s.ino[m].type
         /\ \A m \in Ino : t.ino[m].size = IF m = n THEN x ELSE s.ino[m].size
<1>1. s \in Fs
  BY DEF Blks
<1>2. /\ t \in Fs /\ t.used = s.used /\ t.blk = s.blk
      /\ \A m \in Ino : t.ino[m].type = s.ino[m].type /\ t.ino[m].direct = s.ino[m].direct
                        /\ t.ino[m].indirect = s.ino[m].indirect
      /\ \A m \in Ino : t.ino[m].size = IF m = n THEN x ELSE s.ino[m].size
  BY <1>1, SetSizes
<1>3. \A m \in Ino : \A j \in Uses : Use(t, m, j) = Use(s, m, j)
  BY Zenon, <1>1, <1>2, SameUses
<1>4. Blks(t)
  BY <1>2, <1>3, Edited
<1>5. \A d \in Ino : \A p \in Pl : Ent(t, d, p) = Ent(s, d, p)
  BY <1>1, <1>2, SameEnts
<1> QED
  BY <1>2, <1>4, <1>5

\* The dirents that the code walks are the entries.
LEMMA TakenIs ==
  ASSUME NEW s, NEW d, s.ino[d].type = "dir"
  PROVE  /\ Taken(s, d) = Occupied(s, d) /\ Places(s, d) \subseteq Pl
         /\ \A p \in Places(s, d) : At(s, d, p) = Ent(s, d, p)
         /\ \A p \in Pl \ Places(s, d) : Ent(s, d, p) = EmptySlot
<1>1. Places(s, d) \subseteq Pl
  BY DEF Places, Pl
<1>2. \A p \in Places(s, d) : At(s, d, p) = Ent(s, d, p)
  BY DEF Ent
<1>3. \A p \in Pl \ Places(s, d) : Ent(s, d, p) = EmptySlot /\ Ent(s, d, p).inode = None
  BY DEF Ent, EmptySlot
<1>4. Taken(s, d) = Occupied(s, d)
  BY <1>1, <1>2, <1>3 DEF Taken, Occupied
<1> QED
  BY <1>1, <1>2, <1>3, <1>4

\* A directory grows by empty slots.
LEMMA GrownIs ==
  ASSUME NEW s, Blks(s), NEW d \in Ino, s.ino[d].type = "dir", NEW t, t = Grown(s, d)
  PROVE  /\ Blks(t) /\ SameTree(s, t)
         /\ \A m \in Ino \ {d} : t.ino[m] = s.ino[m]
<1> DEFINE missing == {b \in 0 .. Direct - 1 : s.ino[d].direct[b] = NoBlock}
           got == AllocBlock(s, NoSlots)
           i   == Min(missing)
<1>1. s \in Fs /\ NoSlots \in Block /\ NoSlots.kind = "dirents"
  BY Contents DEF Blks, Block, NoSlots
<1>2. CASE Taken(s, d) # Places(s, d) \/ missing = {}
  BY <1>2 DEF Grown, SameTree
<1>3. CASE ~(Taken(s, d) # Places(s, d) \/ missing = {})
  <2>1. t = PutDirect(got.fs, d, i, got.blk)
    BY <1>3 DEF Grown, PutDirect
  <2>2. i \in Dir /\ s.ino[d].direct[i] = NoBlock
    <3>1. missing \subseteq Nat /\ missing # {}
      BY <1>3
    <3>2. i \in missing
      <4> HIDE DEF missing
      <4> QED
        BY <3>1, Least
    <3> QED
      BY <3>2 DEF Dir
  <2>3. \/ got = [fs |-> s, blk |-> NoBlock]
        \/ /\ got.blk \in Blk \ s.used
           /\ got.fs = [ino |-> s.ino, used |-> s.used \cup {got.blk},
                        blk |-> [s.blk EXCEPT ![got.blk] = NoSlots]]
           /\ got.fs \in Fs
    BY <1>1, Allocated
  <2> HIDE DEF got, i
  <2>4. CASE got = [fs |-> s, blk |-> NoBlock]
    <3>1. t = PutDirect(s, d, i, NoBlock) /\ NoBlock \in Ptr
      BY <2>1, <2>4 DEF Ptr
    <3>2. /\ t \in Fs /\ t.used = s.used /\ t.blk = s.blk
          /\ \A m \in Ino : t.ino[m].type = s.ino[m].type /\ t.ino[m].size = s.ino[m].size
                            /\ t.ino[m].indirect = s.ino[m].indirect
          /\ \A m \in Ino : \A j \in Dir : t.ino[m].direct[j] =
               IF m = d /\ j = i THEN NoBlock ELSE s.ino[m].direct[j]
      BY <1>1, <2>2, <3>1, SetDirect
    <3>3. \A m \in Ino : \A j \in Dir : t.ino[m].direct[j] = s.ino[m].direct[j]
      BY <2>2, <3>2
    <3>4. ASSUME NEW m \in Ino
          PROVE  t.ino[m] = s.ino[m]
      <4>1. /\ t.ino[m] \in Inode /\ s.ino[m] \in Inode
            /\ t.ino[m].direct \in [Dir -> Ptr] /\ s.ino[m].direct \in [Dir -> Ptr]
        BY <1>1, <3>2, FsParts
      <4>2. t.ino[m].direct = s.ino[m].direct
        BY <3>3, <4>1
      <4> QED
        BY <3>2, <4>1, <4>2 DEF Inode
    <3>5. t = s
      <4>1. t.ino = s.ino
        BY <1>1, <3>2, <3>4, FsParts
      <4> QED
        BY <1>1, <3>2, <4>1 DEF Fs
    <3> QED
      BY <3>5 DEF SameTree
  <2>5. CASE /\ got.blk \in Blk \ s.used
             /\ got.fs = [ino |-> s.ino, used |-> s.used \cup {got.blk},
                          blk |-> [s.blk EXCEPT ![got.blk] = NoSlots]]
             /\ got.fs \in Fs
    <3> DEFINE b == got.blk
               u == got.fs
    <3>1. b \in Blk \ s.used /\ b \in Ptr /\ u \in Fs /\ t = PutDirect(u, d, i, b)
      BY <2>1, <2>5 DEF Ptr
    <3>2. /\ u.ino = s.ino /\ u.used = s.used \cup {b}
          /\ u.blk = [s.blk EXCEPT ![b] = NoSlots]
      BY <2>5
    <3> HIDE DEF b, u
    <3>3. /\ t \in Fs /\ t.used = u.used /\ t.blk = u.blk
          /\ \A m \in Ino : t.ino[m].type = u.ino[m].type /\ t.ino[m].size = u.ino[m].size
                            /\ t.ino[m].indirect = u.ino[m].indirect
          /\ \A m \in Ino : \A j \in Dir : t.ino[m].direct[j] =
               IF m = d /\ j = i THEN b ELSE u.ino[m].direct[j]
      BY <2>2, <3>1, SetDirect
    <3>4. (\A c \in Blk \ {b} : t.blk[c] = s.blk[c]) /\ t.blk[b] = NoSlots
      BY <1>1, <3>1, <3>2, <3>3, FsParts
    <3>5. /\ t \in Fs /\ t.used = s.used \cup {b}
          /\ \A m \in Ino : t.ino[m].type = s.ino[m].type /\ t.ino[m].size = s.ino[m].size
                            /\ t.ino[m].indirect = s.ino[m].indirect
          /\ \A m \in Ino : \A j \in Dir : t.ino[m].direct[j] =
               IF m = d /\ j = i THEN b ELSE s.ino[m].direct[j]
      BY <3>2, <3>3
    <3>6. NoSlots.kind = Role(s, d, i) /\ s.ino[d].type # "free"
      BY <1>1, <2>2, Numbers DEF Role
    <3>7. Blks(t) /\ SameTree(s, t)
      BY <2>2, <3>1, <3>4, <3>5, <3>6, LinkDirect
    <3>8. \A m \in Ino \ {d} : t.ino[m] = s.ino[m]
      <4>1. t.ino = [u.ino EXCEPT ![d].direct[i] = b]
        BY <3>1 DEF PutDirect, Fs
      <4> QED
        BY <1>1, <3>2, <4>1, FsParts
    <3> QED
      BY <3>7, <3>8
  <2> QED
    BY <2>3, <2>4, <2>5
<1> QED
  BY <1>2, <1>3

\* A slot of a directory is written.
LEMMA SlotIs ==
  ASSUME NEW s, Blks(s), NEW d \in Ino, s.ino[d].type = "dir", NEW p \in Places(s, d),
         NEW entry \in Entry, NEW t, t = SetSlot(s, d, p, entry)
  PROVE  /\ Blks(t) /\ t.ino = s.ino
         /\ \A c \in Ino : \A q \in Pl :
              Ent(t, c, q) = IF c = d /\ q = p THEN entry ELSE Ent(s, c, q)
<1> DEFINE x   == s.ino[d].direct[Bk(p)]
           k   == Sl(p)
           new == [s.blk[x] EXCEPT !.slot[k] = entry]
<1>1. /\ s \in Fs /\ p \in Pl /\ x # NoBlock /\ Bk(p) \in Dir /\ Bk(p) \in Uses
      /\ k \in 0 .. Slots - 1
  <2>1. p \in Pl /\ x # NoBlock
    BY DEF Places, Pl, Bk
  <2>2. Bk(p) \in Dir /\ k \in 0 .. Slots - 1
    BY <2>1, PlaceOf
  <2> QED
    BY <2>1, <2>2, Numbers DEF Blks
<1>2. /\ x \in s.used /\ x \in Blk /\ Use(s, d, Bk(p)) = x
      /\ s.blk[x].kind = "dirents" /\ s.blk[x].slot \in [0 .. Slots - 1 -> Entry]
  BY Zenon, <1>1, Dirents
<1>3. s.blk[x] \in DirBlk
  BY <1>1, <1>2, FsParts, BlockKinds
<1>4. t = [s EXCEPT !.blk[x] = new]
  <2>1. t = [s EXCEPT !.blk[x].slot[k] = entry]
    BY Zenon DEF SetSlot, Bk, Sl
  <2> HIDE DEF x, k
  <2> QED
    BY <2>1
<1>5. new \in DirBlk /\ new.kind = "dirents" /\ new.slot = [s.blk[x].slot EXCEPT ![k] = entry]
  <2> HIDE DEF x, k
  <2> QED
    BY <1>1, <1>2, <1>3 DEF DirBlk
<1> HIDE DEF new, x, k
<1>6. /\ t \in Fs /\ t.ino = s.ino /\ t.used = s.used /\ t.blk[x] = new
      /\ \A c \in Blk \ {x} : t.blk[c] = s.blk[c]
  BY <1>1, <1>2, <1>4, <1>5 DEF Fs, Block
<1>7. ASSUME NEW m \in Ino, NEW j \in Uses
      PROVE  Use(t, m, j) = Use(s, m, j)
  <2>1. ASSUME s.ino[m].type # "free", s.ino[m].indirect # NoBlock
        PROVE  t.blk[s.ino[m].indirect] = s.blk[s.ino[m].indirect]
    <3>1. s.ino[m].indirect \in Blk /\ s.blk[s.ino[m].indirect].kind = "ptrs"
      BY <2>1, Indirect
    <3> QED
      BY <1>2, <1>6, <3>1
  <2>2. t.ino[m] = s.ino[m]
    BY <1>6
  <2> QED
    BY Zenon, <1>1, <1>6, <2>1, <2>2, SameUses
<1>8. Blks(t)
  <2>1. \A c \in Blk : /\ t.blk[c].kind = s.blk[c].kind
                       /\ c \notin s.used => t.blk[c] = s.blk[c]
    BY <1>2, <1>5, <1>6
  <2>2. \A m \in Ino : t.ino[m].type = s.ino[m].type
    BY <1>6
  <2> QED
    BY <1>6, <1>7, <2>1, <2>2, Edited
<1>9. ASSUME NEW c \in Ino, NEW q \in Pl
      PROVE  Ent(t, c, q) = IF c = d /\ q = p THEN entry ELSE Ent(s, c, q)
  <2> DEFINE Goal == Ent(t, c, q) = IF c = d /\ q = p THEN entry ELSE Ent(s, c, q)
  <2> SUFFICES Goal
    OBVIOUS
  <2> HIDE DEF Goal
  <2>1. Bk(q) \in Dir /\ Bk(q) \in Uses /\ Sl(q) \in 0 .. Slots - 1
    BY PlaceOf, Numbers
  <2> DEFINE ofs == IF s.ino[c].type # "dir" \/ s.ino[c].direct[Bk(q)] = NoBlock
                    THEN EmptySlot ELSE s.blk[s.ino[c].direct[Bk(q)]].slot[Sl(q)]
             oft == IF t.ino[c].type # "dir" \/ t.ino[c].direct[Bk(q)] = NoBlock
                    THEN EmptySlot ELSE t.blk[t.ino[c].direct[Bk(q)]].slot[Sl(q)]
  <2>2. Ent(s, c, q) = ofs
    BY Zenon, <1>1, EntIs
  <2>3. t \in Fs /\ t.ino[c] = s.ino[c]
    BY <1>6
  <2>4. Ent(t, c, q) = oft
    BY Zenon, <2>3, EntIs
  <2>5. CASE s.ino[c].type # "dir" \/ s.ino[c].direct[Bk(q)] = NoBlock
    <3>1. ~(c = d /\ q = p)
      BY <1>1, <2>5 DEF x
    <3>2. ofs = EmptySlot
      BY <2>5
    <3>3. oft = EmptySlot
      BY <2>5, <2>3
    <3> QED
      BY Zenon, <2>2, <2>4, <3>1, <3>2, <3>3 DEF Goal
  <2>6. CASE s.ino[c].type = "dir" /\ s.ino[c].direct[Bk(q)] # NoBlock
    <3> DEFINE y == s.ino[c].direct[Bk(q)]
    <3>1. /\ Ent(s, c, q) = s.blk[y].slot[Sl(q)] /\ Ent(t, c, q) = t.blk[y].slot[Sl(q)]
      <4>1. ofs = s.blk[y].slot[Sl(q)]
        BY <2>6
      <4>2. oft = t.blk[y].slot[Sl(q)]
        BY <2>6, <2>3
      <4> QED
        BY Zenon, <2>2, <2>4, <4>1, <4>2
    <3> HIDE DEF ofs, oft
    <3>2. y \in Blk /\ Use(s, c, Bk(q)) = y /\ y # NoBlock
      BY Zenon, <2>1, <2>6, Dirents
    <3> HIDE DEF y
    <3>3. CASE y # x
      <4>1. ~(c = d /\ q = p) /\ t.blk[y] = s.blk[y]
        BY <1>6, <3>2, <3>3 DEF x, y
      <4> QED
        BY <3>1, <4>1 DEF Goal
    <3>4. CASE y = x
      <4>1. c = d /\ Bk(q) = Bk(p)
        BY <1>1, <1>2, <2>1, <3>2, <3>4 DEF Blks, Owned, Once
      <4>2. q = p <=> Sl(q) = k
        BY <1>1, <4>1, SamePlace DEF k
      <4>3. t.blk[y].slot[Sl(q)] = IF Sl(q) = k THEN entry ELSE s.blk[x].slot[Sl(q)]
        <5>1. t.blk[y].slot = [s.blk[x].slot EXCEPT ![k] = entry]
          BY <1>5, <1>6, <3>4
        <5> QED
          BY <1>1, <1>2, <2>1, <5>1
      <4> QED
        BY <3>1, <3>4, <4>1, <4>2, <4>3 DEF Goal
    <3> QED
      BY <3>3, <3>4
  <2> QED
    BY <2>5, <2>6
<1> QED
  BY <1>6, <1>8, <1>9

\* add_dirent finds no slot, and leaves the tree alone, or fills an empty one.
LEMMA AddDirentIs ==
  ASSUME NEW s, Blks(s), NEW d \in Ino, s.ino[d].type = "dir", NEW name \in Names,
         NEW child \in Ino, NEW got, got = AddDirent(s, d, name, child)
  PROVE  /\ Blks(got.fs)
         /\ \A m \in Ino : got.fs.ino[m].type = s.ino[m].type
         /\ \A m \in Ino \ {d} : got.fs.ino[m] = s.ino[m]
         /\ \/ ~got.ok /\ SameTree(s, got.fs)
            \/ /\ got.ok /\ got.fs.ino[d].size = s.ino[d].size + 1
               /\ \E p \in Pl :
                    /\ Ent(s, d, p).inode = None
                    /\ \A c \in Ino : \A q \in Pl :
                         Ent(got.fs, c, q) = IF c = d /\ q = p
                                             THEN [inode |-> child, name |-> name]
                                             ELSE Ent(s, c, q)
<1> DEFINE t     == Grown(s, d)
           empty == Places(t, d) \ Taken(t, d)
           p     == Min(empty)
           entry == [inode |-> child, name |-> name]
           u     == SetSlot(t, d, p, entry)
           w     == SetSize(u, d, t.ino[d].size + 1)
<1>1. Blks(t) /\ SameTree(s, t) /\ \A m \in Ino \ {d} : t.ino[m] = s.ino[m]
  BY GrownIs
<1>2. /\ got = IF empty = {} THEN [fs |-> t, ok |-> FALSE] ELSE [fs |-> w, ok |-> TRUE]
  BY DEF AddDirent
<1>3. t.ino[d].type = "dir" /\ t.ino[d].size = s.ino[d].size /\ t.ino[d].size \in Int
  BY <1>1, FsParts DEF SameTree, Blks
<1> HIDE DEF t
<1>4. /\ empty \subseteq Nat /\ empty \subseteq Places(t, d) /\ empty \subseteq Pl
      /\ \A q \in empty : Ent(t, d, q).inode = None
  <2>1. /\ Taken(t, d) = Occupied(t, d) /\ Places(t, d) \subseteq Pl
        /\ \A q \in Places(t, d) : At(t, d, q) = Ent(t, d, q)
    BY <1>3, TakenIs
  <2> QED
    BY <2>1 DEF Occupied, Pl
<1>5. entry \in Entry
  BY DEF Entry
<1>6. CASE empty = {}
  <2>1. got = [fs |-> t, ok |-> FALSE]
    BY <1>2, <1>6
  <2> QED
    BY <1>1, <2>1 DEF SameTree
<1>7. CASE empty # {}
  <2>1. got = [fs |-> w, ok |-> TRUE]
    BY <1>2, <1>7
  <2>2. p \in empty
    <3> HIDE DEF empty
    <3> QED
      BY <1>4, <1>7, Least
  <2>3. p \in Places(t, d) /\ p \in Pl /\ Ent(t, d, p).inode = None
    BY <1>4, <2>2
  <2> HIDE DEF p, empty, entry
  <2>4. /\ Blks(u) /\ u.ino = t.ino
        /\ \A c \in Ino : \A q \in Pl :
             Ent(u, c, q) = IF c = d /\ q = p THEN entry ELSE Ent(t, c, q)
    BY <1>1, <1>3, <1>5, <2>3, SlotIs
  <2> HIDE DEF u
  <2>5. t.ino[d].size + 1 \in Int
    BY <1>3
  <2>6. /\ Blks(w) /\ \A c \in Ino : \A q \in Pl : Ent(w, c, q) = Ent(u, c, q)
        /\ \A m \in Ino : w.ino[m].type = u.ino[m].type
        /\ \A m \in Ino : w.ino[m].size = IF m = d THEN t.ino[d].size + 1 ELSE u.ino[m].size
    <3> DEFINE x == t.ino[d].size + 1
               v == SetSize(u, d, x)
    <3>1. Blks(u) /\ x \in Int
      BY <2>4, <2>5
    <3> HIDE DEF x
    <3>2. /\ Blks(v) /\ \A c \in Ino : \A q \in Pl : Ent(v, c, q) = Ent(u, c, q)
          /\ \A m \in Ino : v.ino[m].type = u.ino[m].type
          /\ \A m \in Ino : v.ino[m].size = IF m = d THEN x ELSE u.ino[m].size
      BY <3>1, Resized
    <3> QED
      BY <3>2 DEF x
  <2>7. \A m \in Ino \ {d} : w.ino[m] = u.ino[m]
    <3>1. u \in Fs
      BY <2>4 DEF Blks
    <3> QED
      BY <3>1, FsParts DEF SetSize
  <2> HIDE DEF w
  <2>8. Ent(s, d, p).inode = None
    BY <1>1, <2>3 DEF SameTree
  <2>9. \A c \in Ino : \A q \in Pl :
          Ent(w, c, q) = IF c = d /\ q = p THEN entry ELSE Ent(s, c, q)
    BY <1>1, <2>4, <2>6 DEF SameTree
  <2>10. \A m \in Ino : w.ino[m].type = s.ino[m].type
    BY <1>1, <2>4, <2>6 DEF SameTree
  <2>11. \A m \in Ino \ {d} : w.ino[m] = s.ino[m]
    BY <1>1, <2>4, <2>7
  <2>12. w.ino[d].size = s.ino[d].size + 1
    BY <1>3, <2>6
  <2> QED
    BY <2>1, <2>3, <2>6, <2>4, <2>8, <2>9, <2>10, <2>11, <2>12 DEF entry
<1> QED
  BY <1>6, <1>7

\* A new inode is an empty one.
LEMMA AllocInodeIs ==
  ASSUME NEW s, Blks(s), NEW type \in Types, NEW made, made = AllocInode(s, type)
  PROVE  \/ made = [fs |-> s, ino |-> None]
         \/ /\ made.ino \in Ino /\ s.ino[made.ino].type = "free"
            /\ Blks(made.fs)
            /\ \A d \in Ino : \A p \in Pl : Ent(made.fs, d, p) = Ent(s, d, p)
            /\ made.fs.ino[made.ino] = FreshInode(type)
            /\ \A m \in Ino \ {made.ino} : made.fs.ino[m] = s.ino[m]
<1> DEFINE avail == {n \in Ino : s.ino[n].type = "free"}
           n == Min(avail)
<1>1. CASE avail = {}
  BY <1>1 DEF AllocInode
<1>2. CASE avail # {}
  <2>1. avail \subseteq Nat
    BY DEF Ino
  <2>2. n \in avail
    <3> HIDE DEF avail
    <3> QED
      BY <1>2, <2>1, Least
  <2> DEFINE t == [s EXCEPT !.ino[n] = FreshInode(type)]
  <2>3. made = [fs |-> t, ino |-> n]
    BY <1>2 DEF AllocInode
  <2>4. n \in Ino /\ s.ino[n].type = "free" /\ s \in Fs
    BY <2>2 DEF Blks
  <2> HIDE DEF n
  <2>5. /\ t \in Fs /\ t.used = s.used /\ t.blk = s.blk /\ t.ino[n] = FreshInode(type)
        /\ \A m \in Ino \ {n} : t.ino[m] = s.ino[m]
    BY <2>4, Fresh DEF Fs
  <2> HIDE DEF t
  <2>6. Bare(s, n)
    BY <2>4, UseIs DEF Bare
  <2>7. Bare(t, n)
    <3>1. t.ino[n].indirect = NoBlock /\ \A i \in Dir : t.ino[n].direct[i] = NoBlock
      BY <2>5, Fresh
    <3>2. \A j \in Uses : j < Direct \/ j = MaxBlks \/ (j >= Direct /\ j # MaxBlks)
      BY Numbers
    <3>3. \A j \in Uses : j < Direct => j \in Dir
      BY Numbers
    <3> QED
      BY <2>4, <2>5, <3>1, <3>2, <3>3, UseIs DEF Bare
  <2>8. Blks(t) /\ \A d \in Ino : \A p \in Pl : Ent(t, d, p) = Ent(s, d, p)
    BY <2>4, <2>5, <2>6, <2>7, Swapped
  <2> QED
    BY <2>3, <2>4, <2>5, <2>8
<1> QED
  BY <1>1, <1>2

\* dir_lookup finds an inode in use that is not the root, or none of that name.
LEMMA LookupIs ==
  ASSUME NEW s, Blks(s), Rooted(s), NEW d \in Ino, s.ino[d].type = "dir", NEW name
  PROVE  /\ DirLookup(s, d, name) \in (Live(s) \ {Root}) \cup {None}
         /\ Named(s, d, name) = {p \in Occupied(s, d) : Ent(s, d, p).name = name}
         /\ Named(s, d, name) # {} =>
              /\ Min(Named(s, d, name)) \in Named(s, d, name)
              /\ DirLookup(s, d, name) # None
         /\ \A p \in Occupied(s, d) : /\ p \in Places(s, d) /\ At(s, d, p) = Ent(s, d, p)
                                      /\ Ent(s, d, p).inode \in Live(s) \ {Root}
<1> DEFINE found == Named(s, d, name)
<1>1. /\ Taken(s, d) = Occupied(s, d) /\ Places(s, d) \subseteq Pl
      /\ \A p \in Places(s, d) : At(s, d, p) = Ent(s, d, p)
  BY TakenIs
<1>2. Taken(s, d) \subseteq Places(s, d)
  BY DEF Taken
<1>3. /\ found = {p \in Occupied(s, d) : Ent(s, d, p).name = name} /\ found \subseteq Nat
      /\ \A p \in found : At(s, d, p) = Ent(s, d, p)
  BY <1>1, <1>2 DEF Named, Pl
<1>4. \A p \in Occupied(s, d) : Ent(s, d, p).inode \in Live(s) \ {Root}
  BY DEF Rooted, Occupied
<1>5. DirLookup(s, d, name) = IF found = {} THEN None ELSE At(s, d, Min(found)).inode
  BY DEF DirLookup
<1> HIDE DEF found
<1>6. found # {} => Min(found) \in found
  BY <1>3, Least
<1>7. found # {} => /\ At(s, d, Min(found)).inode \in Live(s) \ {Root}
                    /\ At(s, d, Min(found)).inode # None
  <2>1. Live(s) \subseteq Ino /\ None \notin Ino
    BY Numbers DEF Live
  <2> QED
    BY <1>3, <1>4, <1>6, <2>1
<1> QED
  BY <1>1, <1>2, <1>3, <1>4, <1>5, <1>6, <1>7 DEF found

\* An inode with one new dirent, its only one.
LEMMA Joined ==
  ASSUME NEW s, Rooted(s), NEW t, NEW d \in Ino, s.ino[d].type = "dir", NEW name,
         \A p \in Occupied(s, d) : Ent(s, d, p).name # name,
         NEW n \in Ino, s.ino[n].type = "free", t.ino[n].type # "free", t.ino[n].size = 0,
         \A p \in Pl : Ent(s, n, p) = EmptySlot,
         \A m \in Ino \ {n} : t.ino[m].type = s.ino[m].type,
         \A m \in Ino \ {n, d} : t.ino[m].size = s.ino[m].size,
         t.ino[d].size = s.ino[d].size + 1,
         NEW p \in Pl, Ent(s, d, p).inode = None,
         \A c \in Ino : \A q \in Pl :
           Ent(t, c, q) = IF c = d /\ q = p THEN [inode |-> n, name |-> name] ELSE Ent(s, c, q)
  PROVE  Rooted(t)
<1> DEFINE entry == [inode |-> n, name |-> name]
<1>1. /\ Root \in Ino /\ None \notin Ino /\ Live(s) \subseteq Ino /\ n # Root /\ n # d
      /\ entry.inode = n /\ entry.name = name /\ n # None /\ n \notin Live(s)
      /\ EmptySlot.inode = None
  BY Numbers DEF Live, Rooted, EmptySlot
<1>2. /\ Live(t) = Live(s) \cup {n}
      /\ \A c \in Dirs(t) : c \in Ino /\ (c = n \/ (c # n /\ c \in Dirs(s)))
  BY DEF Live, Dirs
<1> HIDE DEF entry
<1>3. /\ \A q \in Pl : Ent(t, d, q) = IF q = p THEN entry ELSE Ent(s, d, q)
      /\ \A c \in Ino \ {d} : \A q \in Pl : Ent(t, c, q) = Ent(s, c, q)
  BY DEF entry
<1>4. ASSUME NEW c \in Ino, NEW q \in Pl
      PROVE  /\ Ent(t, c, q).inode = IF c = d /\ q = p THEN n ELSE Ent(s, c, q).inode
             /\ Ent(s, c, q).inode \in (Live(s) \ {Root}) \cup {None}
             /\ Ent(s, c, q).inode # n
  <2>1. Ent(s, c, q).inode \in (Live(s) \ {Root}) \cup {None}
    BY DEF Rooted
  <2> QED
    BY <1>1, <1>3, <2>1
<1>5. t.ino[Root].type = "dir"
  BY <1>1 DEF Rooted
<1>6. \A c \in Ino : \A q \in Pl : Ent(t, c, q).inode \in (Live(t) \ {Root}) \cup {None}
  BY <1>1, <1>2, <1>4
<1>7. ASSUME NEW m \in Live(t) \ {Root}
      PROVE  \E c \in Ino : \E q \in Pl : Ent(t, c, q).inode = m
  <2>1. CASE m = n
    <3>1. Ent(t, d, p).inode = n
      BY <1>4
    <3> QED
      BY <2>1, <3>1
  <2>2. CASE m # n
    <3>1. m \in Live(s) \ {Root} /\ m # None
      BY <1>1, <1>2, <2>2
    <3>2. PICK c \in Ino, q \in Pl : Ent(s, c, q).inode = m
      BY <3>1 DEF Rooted
    <3>3. Ent(t, c, q).inode = m
      BY <1>4, <3>1, <3>2
    <3> QED
      BY <3>3
  <2> QED
    BY <2>1, <2>2
<1>8. ASSUME NEW b \in Ino, NEW c \in Ino, NEW q \in Pl, NEW r \in Pl,
             Ent(t, b, q).inode = Ent(t, c, r).inode, Ent(t, b, q).inode # None
      PROVE  b = c /\ q = r
  <2>1. CASE Ent(t, b, q).inode = n
    <3>1. b = d /\ q = p
      BY <1>4, <2>1
    <3>2. Ent(t, c, r).inode = n
      BY <1>8, <2>1
    <3>3. c = d /\ r = p
      BY <1>4, <3>2
    <3> QED
      BY <3>1, <3>3
  <2>2. CASE Ent(t, b, q).inode # n
    <3>1. Ent(s, b, q).inode = Ent(s, c, r).inode /\ Ent(s, b, q).inode # None
      BY <1>4, <1>8, <2>2
    <3> QED
      BY <3>1 DEF Rooted
  <2> QED
    BY <2>1, <2>2
<1>9. ASSUME NEW c \in Dirs(t)
      PROVE  /\ t.ino[c].size = Cardinality(Occupied(t, c))
             /\ \A q, r \in Occupied(t, c) : Ent(t, c, q).name = Ent(t, c, r).name => q = r
  <2>1. CASE c = n
    <3>1. Occupied(t, c) = {}
      BY <1>1, <1>3, <2>1 DEF Occupied
    <3>2. Cardinality(Occupied(t, c)) = 0
      BY <3>1, FS_EmptySet
    <3> QED
      BY <2>1, <3>1, <3>2
  <2>2. CASE c = d
    <3>1. d \in Dirs(s)
      BY DEF Dirs
    <3>2. Occupied(t, d) = Occupied(s, d) \cup {p} /\ p \notin Occupied(s, d)
      BY <1>1, <1>3 DEF Occupied
    <3>3. IsFiniteSet(Occupied(s, d)) /\ Cardinality(Occupied(s, d)) = s.ino[d].size
      BY <3>1, Counted DEF Rooted
    <3>4. Cardinality(Occupied(t, d)) = s.ino[d].size + 1
      BY Zenon, <3>2, <3>3, FS_AddElement
    <3>5. ASSUME NEW q \in Occupied(t, d), NEW r \in Occupied(t, d),
                 Ent(t, d, q).name = Ent(t, d, r).name
          PROVE  q = r
      <4>1. q \in Pl /\ r \in Pl
        BY DEF Occupied
      <4>2. CASE q # p /\ r # p
        <5>1. /\ q \in Occupied(s, d) /\ r \in Occupied(s, d)
              /\ Ent(s, d, q).name = Ent(s, d, r).name
          BY <1>3, <3>2, <3>5, <4>1, <4>2
        <5> QED
          BY <3>1, <5>1 DEF Rooted
      <4>3. CASE q = p /\ r # p
        BY <1>1, <1>3, <3>2, <3>5, <4>1, <4>3
      <4>4. CASE q # p /\ r = p
        BY <1>1, <1>3, <3>2, <3>5, <4>1, <4>4
      <4> QED
        BY <4>2, <4>3, <4>4
    <3> QED
      BY <2>2, <3>4, <3>5
  <2>3. CASE c # n /\ c # d
    <3>1. c \in Ino /\ c \in Dirs(s) /\ t.ino[c].size = s.ino[c].size
      BY <1>2, <2>3
    <3>2. \A q \in Pl : Ent(t, c, q) = Ent(s, c, q)
      BY <1>3, <2>3, <3>1
    <3>3. Occupied(t, c) = Occupied(s, c)
      BY <3>2 DEF Occupied
    <3>4. /\ s.ino[c].size = Cardinality(Occupied(s, c))
          /\ \A q, r \in Occupied(s, c) : Ent(s, c, q).name = Ent(s, c, r).name => q = r
      BY <3>1 DEF Rooted
    <3>5. \A q \in Occupied(s, c) : Ent(t, c, q) = Ent(s, c, q)
      BY <3>2 DEF Occupied
    <3>6. \A q, r \in Occupied(t, c) : Ent(t, c, q).name = Ent(t, c, r).name => q = r
      BY <3>3, <3>4, <3>5
    <3> QED
      BY <3>1, <3>3, <3>4, <3>6
  <2> QED
    BY <2>1, <2>2, <2>3
<1> QED
  BY <1>5, <1>6, <1>7, <1>8, <1>9 DEF Rooted

\* munin_create leaves a good filesystem, or does nothing to a good one.
LEMMA CreateIs ==
  ASSUME NEW s, Good(s), NEW d \in Ino, s.ino[d].type = "dir", NEW name \in Names,
         NEW type \in {"file", "dir"}, NEW got, got = Create(s, d, name, type)
  PROVE  Good(got.fs) /\ got.ino \in Ino \cup {None}
<1> DEFINE made  == AllocInode(s, type)
           added == AddDirent(made.fs, d, name, made.ino)
           n     == made.ino
           t     == made.fs
           u     == added.fs
<1>1. Blks(s) /\ Rooted(s) /\ Sized(s) /\ type \in Types /\ s \in Fs /\ 0 \in 0 .. Cap
  BY Caps DEF Good, Blks, Types
<1>2. \/ made = [fs |-> s, ino |-> None]
      \/ /\ n \in Ino /\ s.ino[n].type = "free"
         /\ Blks(t)
         /\ \A c \in Ino : \A p \in Pl : Ent(t, c, p) = Ent(s, c, p)
         /\ t.ino[n] = FreshInode(type)
         /\ \A m \in Ino \ {n} : t.ino[m] = s.ino[m]
  BY <1>1, AllocInodeIs
<1>3. got = IF DirLookup(s, d, name) # None \/ n = None THEN [fs |-> s, ino |-> None]
            ELSE IF added.ok THEN [fs |-> u, ino |-> n]
            ELSE [fs |-> PutType(u, n, "free"), ino |-> None]
  BY DEF Create, PutType
<1> HIDE DEF made
<1>4. CASE DirLookup(s, d, name) # None \/ n = None
  BY <1>3, <1>4
<1>5. CASE ~(DirLookup(s, d, name) # None \/ n = None)
  <2>1. /\ n \in Ino /\ s.ino[n].type = "free" /\ Blks(t)
        /\ \A c \in Ino : \A p \in Pl : Ent(t, c, p) = Ent(s, c, p)
        /\ t.ino[n] = FreshInode(type)
        /\ \A m \in Ino \ {n} : t.ino[m] = s.ino[m]
    BY <1>2, <1>5
  <2>2. n # d /\ t.ino[d] = s.ino[d] /\ t.ino[d].type = "dir"
    BY <2>1
  <2> HIDE DEF n, t
  <2>3. /\ Blks(u)
        /\ \A m \in Ino : u.ino[m].type = t.ino[m].type
        /\ \A m \in Ino \ {d} : u.ino[m] = t.ino[m]
        /\ \/ ~added.ok /\ SameTree(t, u)
           \/ /\ added.ok /\ u.ino[d].size = t.ino[d].size + 1
              /\ \E p \in Pl :
                   /\ Ent(t, d, p).inode = None
                   /\ \A c \in Ino : \A q \in Pl :
                        Ent(u, c, q) = IF c = d /\ q = p THEN [inode |-> n, name |-> name]
                                       ELSE Ent(t, c, q)
    <3>1. added = AddDirent(t, d, name, n)
      BY DEF t, n
    <3> HIDE DEF added
    <3> QED
      BY <2>1, <2>2, <3>1, AddDirentIs
  <2> HIDE DEF added, u
  <2>4. u.ino[n] = FreshInode(type)
    BY <2>1, <2>2, <2>3
  <2>5. /\ u.ino[n].type = type /\ u.ino[n].size = 0 /\ u.ino[n].indirect = NoBlock
        /\ \A i \in Dir : u.ino[n].direct[i] = NoBlock
    BY <1>1, <2>4, Fresh
  <2>6. /\ \A m \in Ino \ {n} : u.ino[m].type = s.ino[m].type
        /\ \A m \in Ino \ {n, d} : u.ino[m].size = s.ino[m].size
    BY <2>1, <2>3
  <2>7. CASE added.ok
    <3>1. got = [fs |-> u, ino |-> n]
      BY <1>3, <1>5, <2>7
    <3>2. PICK p \in Pl :
            /\ Ent(t, d, p).inode = None
            /\ \A c \in Ino : \A q \in Pl :
                 Ent(u, c, q) = IF c = d /\ q = p THEN [inode |-> n, name |-> name]
                                ELSE Ent(t, c, q)
      BY <2>3, <2>7
    <3>3. /\ Ent(s, d, p).inode = None
          /\ \A c \in Ino : \A q \in Pl :
               Ent(u, c, q) = IF c = d /\ q = p THEN [inode |-> n, name |-> name]
                              ELSE Ent(s, c, q)
      BY <2>1, <3>2
    <3>4. u.ino[d].size = s.ino[d].size + 1
      BY <2>2, <2>3, <2>7
    <3>5. \A q \in Occupied(s, d) : Ent(s, d, q).name # name
      BY <1>1, <1>5, LookupIs
    <3>6. \A q \in Pl : Ent(s, n, q) = EmptySlot
      BY <1>1, <2>1, EntIs
    <3>7. s.ino[n].type = "free" /\ u.ino[n].type # "free"
      BY <2>1, <2>5
    <3>8. Rooted(u)
      <4>1. Rooted(s) /\ n \in Ino /\ u.ino[n].size = 0
        BY <1>1, <2>1, <2>5
      <4> QED
        BY <2>6, <3>3, <3>4, <3>5, <3>6, <3>7, <4>1, Joined
    <3>9. Sized(u)
      BY <1>1, <2>2, <2>5, <2>6 DEF Sized
    <3> QED
      BY <2>1, <2>3, <3>1, <3>8, <3>9 DEF Good
  <2>8. CASE ~added.ok
    <3> DEFINE w == PutType(u, n, "free")
    <3>1. got = [fs |-> w, ino |-> None] /\ SameTree(t, u) /\ u \in Fs
      BY <1>3, <1>5, <2>3, <2>8 DEF Blks
    <3>2. "free" \in Types
      BY DEF Types
    <3>3. /\ w \in Fs /\ w.used = u.used /\ w.blk = u.blk
          /\ \A m \in Ino : /\ w.ino[m].direct = u.ino[m].direct
                            /\ w.ino[m].size = u.ino[m].size
                            /\ w.ino[m].indirect = u.ino[m].indirect
          /\ \A m \in Ino : w.ino[m].type = IF m = n THEN "free" ELSE u.ino[m].type
      BY <2>1, <3>1, <3>2, SetType
    <3> HIDE DEF w
    <3>4. \A m \in Ino \ {n} : w.ino[m] = u.ino[m]
      <4>1. \A m \in Ino : w.ino[m] \in Inode /\ u.ino[m] \in Inode
        BY <3>1, <3>3, FsParts
      <4> QED
        BY <3>3, <4>1 DEF Inode
    <3>5. Bare(u, n)
      <4>1. \A j \in Uses : j < Direct \/ j = MaxBlks \/ (j >= Direct /\ j # MaxBlks)
        BY Numbers
      <4>2. \A j \in Uses : j < Direct => j \in Dir
        BY Numbers
      <4> QED
        BY <2>1, <2>5, <3>1, <4>1, <4>2, UseIs DEF Bare
    <3>6. Bare(w, n)
      BY <2>1, <3>3, UseIs DEF Bare
    <3>7. Blks(w) /\ \A c \in Ino : \A p \in Pl : Ent(w, c, p) = Ent(u, c, p)
      BY <2>1, <2>3, <3>3, <3>4, <3>5, <3>6, Swapped
    <3>8. /\ \A m \in Ino : w.ino[m].type = s.ino[m].type
          /\ \A m \in Ino \ {n} : w.ino[m].size = s.ino[m].size
          /\ w.ino[n].size = 0
          /\ \A c \in Ino : \A p \in Pl : Ent(w, c, p) = Ent(s, c, p)
      BY <2>1, <2>2, <2>3, <2>5, <2>6, <3>1, <3>3, <3>7 DEF SameTree
    <3>9. Rooted(w)
      <4>1. \A m \in Ino : s.ino[m].type = "dir" => w.ino[m].size = s.ino[m].size
        BY <2>1, <3>8
      <4> QED
        BY <1>1, <3>8, <4>1, RootedKept
    <3>10. Sized(w)
      BY <1>1, <3>8 DEF Sized
    <3> QED
      BY <3>1, <3>7, <3>9, <3>10 DEF Good
  <2> QED
    BY <2>7, <2>8
<1> QED
  BY <1>4, <1>5

\* An inode without entries loses its dirent, and is free.
LEMMA Parted ==
  ASSUME NEW s, Rooted(s), NEW t, NEW d \in Ino, s.ino[d].type = "dir",
         NEW p \in Occupied(s, d), NEW n, n = Ent(s, d, p).inode, n # d,
         \A q \in Pl : Ent(s, n, q).inode = None, t.ino[n].type = "free",
         \A m \in Ino \ {n} : t.ino[m].type = s.ino[m].type,
         \A m \in Ino \ {n, d} : t.ino[m].size = s.ino[m].size,
         t.ino[d].size = s.ino[d].size - 1,
         \A c \in Ino : \A q \in Pl :
           Ent(t, c, q) = IF (c = d /\ q = p) \/ c = n THEN EmptySlot ELSE Ent(s, c, q)
  PROVE  Rooted(t)
<1>1. /\ Root \in Ino /\ None \notin Ino /\ Live(s) \subseteq Ino /\ p \in Pl
      /\ n \in Live(s) /\ n # Root /\ n # None /\ n \in Ino /\ EmptySlot.inode = None
  <2>1. p \in Pl /\ n # None
    BY DEF Occupied
  <2>2. n \in Live(s) \ {Root}
    BY <2>1 DEF Rooted
  <2>3. Live(s) \subseteq Ino /\ EmptySlot.inode = None
    BY DEF Live, EmptySlot
  <2> QED
    BY <2>1, <2>2, <2>3, Numbers
<1>2. /\ Live(t) = Live(s) \ {n}
      /\ \A c \in Dirs(t) : c \in Ino /\ c # n /\ c \in Dirs(s)
  BY <1>1 DEF Live, Dirs
<1>3. ASSUME NEW c \in Ino, NEW q \in Pl
      PROVE  /\ Ent(t, c, q).inode = IF c = d /\ q = p THEN None ELSE Ent(s, c, q).inode
             /\ Ent(s, c, q).inode \in (Live(s) \ {Root}) \cup {None}
             /\ Ent(s, c, q).inode = n => c = d /\ q = p
  <2>1. Ent(s, c, q).inode \in (Live(s) \ {Root}) \cup {None}
    BY DEF Rooted
  <2>2. Ent(s, c, q).inode = n => c = d /\ q = p
    BY <1>1 DEF Rooted
  <2> QED
    BY <1>1, <2>1, <2>2
<1>4. t.ino[Root].type = "dir"
  BY <1>1 DEF Rooted
<1>5. \A c \in Ino : \A q \in Pl : Ent(t, c, q).inode \in (Live(t) \ {Root}) \cup {None}
  BY <1>1, <1>2, <1>3
<1>6. ASSUME NEW m \in Live(t) \ {Root}
      PROVE  \E c \in Ino : \E q \in Pl : Ent(t, c, q).inode = m
  <2>1. m \in Live(s) \ {Root} /\ m # n /\ m # None
    BY <1>1, <1>2
  <2>2. PICK c \in Ino, q \in Pl : Ent(s, c, q).inode = m
    BY <2>1 DEF Rooted
  <2>3. Ent(t, c, q).inode = m
    BY <1>3, <2>1, <2>2
  <2> QED
    BY <2>3
<1>7. ASSUME NEW b \in Ino, NEW c \in Ino, NEW q \in Pl, NEW r \in Pl,
             Ent(t, b, q).inode = Ent(t, c, r).inode, Ent(t, b, q).inode # None
      PROVE  b = c /\ q = r
  <2>1. Ent(s, b, q).inode = Ent(s, c, r).inode /\ Ent(s, b, q).inode # None
    BY <1>3, <1>7
  <2> QED
    BY <2>1 DEF Rooted
<1>8. ASSUME NEW c \in Dirs(t)
      PROVE  /\ t.ino[c].size = Cardinality(Occupied(t, c))
             /\ \A q, r \in Occupied(t, c) : Ent(t, c, q).name = Ent(t, c, r).name => q = r
  <2>1. /\ c \in Ino /\ c # n /\ c \in Dirs(s)
        /\ s.ino[c].size = Cardinality(Occupied(s, c)) /\ IsFiniteSet(Occupied(s, c))
        /\ \A q, r \in Occupied(s, c) : Ent(s, c, q).name = Ent(s, c, r).name => q = r
    BY <1>2, Counted DEF Rooted
  <2>2. Occupied(t, c) \subseteq Occupied(s, c)
    BY <1>3, <2>1 DEF Occupied
  <2>3. \A q \in Occupied(t, c) : Ent(t, c, q) = Ent(s, c, q)
    <3>1. ASSUME NEW q \in Occupied(t, c)
          PROVE  Ent(t, c, q) = Ent(s, c, q)
      <4>1. q \in Pl /\ ~(c = d /\ q = p)
        BY <1>3, <2>1 DEF Occupied
      <4> QED
        BY <2>1, <4>1
    <3> QED
      BY <3>1
  <2>4. \A q, r \in Occupied(t, c) : Ent(t, c, q).name = Ent(t, c, r).name => q = r
    BY <2>1, <2>2, <2>3
  <2>5. CASE c = d
    <3>1. Occupied(t, c) = Occupied(s, c) \ {p}
      BY <1>3, <2>5 DEF Occupied
    <3>2. Cardinality(Occupied(t, c)) = Cardinality(Occupied(s, c)) - 1
      BY Zenon, <2>1, <2>5, <3>1, FS_RemoveElement
    <3> QED
      BY <2>1, <2>4, <2>5, <3>2
  <2>6. CASE c # d
    <3>1. Occupied(t, c) = Occupied(s, c)
      BY <1>3, <2>1, <2>6 DEF Occupied
    <3> QED
      BY <2>1, <2>4, <2>6, <3>1
  <2> QED
    BY <2>5, <2>6
<1> QED
  BY <1>4, <1>5, <1>6, <1>7, <1>8 DEF Rooted

\* What munin_unlink drops, with nothing in it.
LEMMA DropIs ==
  ASSUME NEW s, Good(s), NEW d \in Ino, s.ino[d].type = "dir", NEW p \in Occupied(s, d),
         NEW n, n = Ent(s, d, p).inode, s.ino[n].type = "dir" => s.ino[n].size = 0
  PROVE  Good(Drop(s, d, p))
<1> DEFINE a == FreeInodeBlocks(s, n)
           b == PutType(a, n, "free")
           u == SetSlot(b, d, p, EmptySlot)
           x == b.ino[d].size - 1
           w == SetSize(u, d, x)
<1>1. /\ Blks(s) /\ Rooted(s) /\ Sized(s) /\ s \in Fs /\ None \notin Ino /\ p \in Pl
      /\ EmptySlot \in Entry /\ EmptySlot.inode = None /\ d \in Dirs(s)
  BY Numbers, Contents DEF Good, Blks, Occupied, EmptySlot, Dirs
<1>2. p \in Places(s, d) /\ At(s, d, p) = Ent(s, d, p) /\ n \in Live(s) \ {Root}
  BY <1>1, LookupIs
<1>3. n \in Ino /\ s.ino[n].type # "free"
  BY <1>2 DEF Live
<1>4. \A q \in Pl : Ent(s, n, q).inode = None
  <2>1. CASE s.ino[n].type # "dir"
    BY <1>1, <1>3, <2>1, EntIs
  <2>2. CASE s.ino[n].type = "dir"
    <3>1. n \in Dirs(s) /\ Cardinality(Occupied(s, n)) = 0
      BY <1>1, <1>3, <2>2 DEF Dirs, Rooted
    <3>2. Occupied(s, n) = {}
      BY <3>1, Counted, FS_EmptySet
    <3> QED
      BY <3>2 DEF Occupied
  <2> QED
    BY <2>1, <2>2
<1>5. n # d
  BY <1>1, <1>4 DEF Occupied
<1>6. Drop(s, d, p) = w
  BY <1>2 DEF Drop, PutType
<1>7. /\ Blks(a)
      /\ \A m \in Ino : a.ino[m].type = s.ino[m].type
      /\ \A m \in Ino \ {n} : a.ino[m] = s.ino[m]
      /\ a.ino[n].size = 0
      /\ \A j \in Uses : Use(a, n, j) = NoBlock
      /\ \A c \in Ino : \A q \in Pl :
           Ent(a, c, q) = IF c = n THEN EmptySlot ELSE Ent(s, c, q)
  BY <1>1, <1>3, Freed
<1> HIDE DEF a
<1>8. a \in Fs /\ "free" \in Types
  BY <1>7 DEF Blks, Types
<1>9. /\ b \in Fs /\ b.used = a.used /\ b.blk = a.blk
      /\ \A m \in Ino : /\ b.ino[m].direct = a.ino[m].direct
                        /\ b.ino[m].size = a.ino[m].size
                        /\ b.ino[m].indirect = a.ino[m].indirect
      /\ \A m \in Ino : b.ino[m].type = IF m = n THEN "free" ELSE a.ino[m].type
  BY <1>3, <1>8, SetType
<1> HIDE DEF b
<1>10. \A m \in Ino \ {n} : b.ino[m] = a.ino[m]
  <2>1. \A m \in Ino : b.ino[m] \in Inode /\ a.ino[m] \in Inode
    BY <1>8, <1>9, FsParts
  <2> QED
    BY <1>9, <2>1 DEF Inode
<1>11. Bare(a, n) /\ Bare(b, n)
  BY <1>3, <1>7, <1>9, UseIs DEF Bare
<1>12. Blks(b) /\ \A c \in Ino : \A q \in Pl : Ent(b, c, q) = Ent(a, c, q)
  BY <1>3, <1>7, <1>9, <1>10, <1>11, Swapped
<1>13. b.ino[d] = s.ino[d]
  BY <1>5, <1>7, <1>10
<1>14. p \in Places(b, d)
  BY <1>2, <1>13 DEF Places
<1>15. /\ Blks(u) /\ u.ino = b.ino
       /\ \A c \in Ino : \A q \in Pl :
            Ent(u, c, q) = IF c = d /\ q = p THEN EmptySlot ELSE Ent(b, c, q)
  BY <1>1, <1>12, <1>13, <1>14, SlotIs
<1>16. x \in Int /\ x = s.ino[d].size - 1
  BY <1>1, <1>13, FsParts
<1> HIDE DEF u, x
<1>17. /\ Blks(w) /\ \A c \in Ino : \A q \in Pl : Ent(w, c, q) = Ent(u, c, q)
       /\ \A m \in Ino : w.ino[m].type = u.ino[m].type
       /\ \A m \in Ino : w.ino[m].size = IF m = d THEN x ELSE u.ino[m].size
  <2>1. Blks(u) /\ x \in Int
    BY <1>15, <1>16
  <2> QED
    BY <2>1, Resized
<1> HIDE DEF w
<1>18. /\ w.ino[n].type = "free" /\ w.ino[n].size = 0
       /\ \A m \in Ino \ {n} : w.ino[m].type = s.ino[m].type
       /\ \A m \in Ino \ {n, d} : w.ino[m].size = s.ino[m].size
       /\ w.ino[d].size = s.ino[d].size - 1
  BY <1>3, <1>5, <1>7, <1>9, <1>15, <1>16, <1>17
<1>19. \A c \in Ino : \A q \in Pl :
         Ent(w, c, q) = IF (c = d /\ q = p) \/ c = n THEN EmptySlot ELSE Ent(s, c, q)
  BY <1>7, <1>12, <1>15, <1>17
<1>20. Rooted(w)
  BY <1>1, <1>4, <1>5, <1>18, <1>19, Parted
<1>21. Sized(w)
  BY <1>1, <1>3, <1>18, Caps DEF Sized
<1> QED
  BY <1>6, <1>17, <1>20, <1>21 DEF Good

\* munin_resolve ends at an inode in use, if anywhere.
LEMMA ResolveIs ==
  ASSUME NEW s, Good(s), NEW path, Len(path) \in Nat
  PROVE  Resolve(s, path) \in Live(s) \cup {None}
<1> DEFINE S == Live(s) \cup {None}
           N == Len(path)
           go(d, k) == IF d = None THEN None
                       ELSE IF s.ino[d].type # "dir" THEN None
                       ELSE DirLookup(s, d, path[k])
           step == [w \in S \X (1 .. N) |-> go(w[1], w[2])]
           Runs(g) == g = [k \in 0 .. N |-> IF k = 0 THEN Root ELSE go(g[k - 1], k)]
<1>1. Blks(s) /\ Rooted(s) /\ None \in S /\ N \in Nat
  BY DEF Good
<1>2. Root \in S
  BY <1>1, Numbers DEF Rooted, Live
<1>3. ASSUME NEW d \in S, NEW k \in 1 .. N
      PROVE  go(d, k) \in S
  <2>1. ASSUME d # None, s.ino[d].type = "dir"
        PROVE  DirLookup(s, d, path[k]) \in S
    <3>1. d \in Ino
      BY <2>1 DEF Live
    <3>2. DirLookup(s, d, path[k]) \in (Live(s) \ {Root}) \cup {None}
      BY <1>1, <2>1, <3>1, LookupIs
    <3> QED
      BY <3>2
  <2> QED
    BY <1>1, <2>1
<1> HIDE DEF go, S, N
<1>4. step \in [S \X (1 .. N) -> S]
  BY <1>3
<1>5. PICK f \in [0 .. N -> S] : f[0] = Root /\ \A i \in 1 .. N : f[i] = step[<<f[i - 1], i>>]
  <2> HIDE DEF step
  <2>1. \E f \in [0 .. N -> S] : Iterates(f, N, Root, step)
    BY <1>1, <1>2, <1>4, Iteration
  <2> QED
    BY <2>1 DEF Iterates
<1>6. ASSUME NEW i \in 1 .. N
      PROVE  f[i] = go(f[i - 1], i)
  <2>1. f[i - 1] \in S
    BY <1>1
  <2> DEFINE w == <<f[i - 1], i>>
  <2>2. w \in S \X (1 .. N) /\ w[1] = f[i - 1] /\ w[2] = i
    BY <2>1
  <2>3. f[i] = step[w]
    BY <1>5
  <2>4. step[w] = go(w[1], w[2])
    <3> HIDE DEF w
    <3> QED
      BY <2>2
  <2> QED
    BY <2>2, <2>3, <2>4
<1>7. Runs(f)
  BY <1>5, <1>6
<1> DEFINE cur == CHOOSE g : Runs(g)
<1>8. Resolve(s, path) = cur[N]
  BY DEF Resolve, N, go
<1>9. Runs(cur)
  <2> HIDE DEF Runs
  <2> QED
    BY <1>7
<1> HIDE DEF cur
<1>10. cur[0] = Root /\ \A k \in 1 .. N : cur[k] = go(cur[k - 1], k)
  BY <1>1, <1>9 DEF Runs
<1> DEFINE P == {k \in Nat : cur[k] \in S}
<1>11. 0 .. N \subseteq P
  <2>1. 0 \in P
    BY <1>2, <1>10
  <2>2. ASSUME NEW i \in 0 .. N - 1, i \in P
        PROVE  i + 1 \in P
    <3>1. i + 1 \in 1 .. N /\ (i + 1) - 1 = i /\ cur[i] \in S
      BY <1>1, <2>2
    <3> DEFINE k == i + 1
    <3> HIDE DEF k
    <3>2. cur[k] = go(cur[k - 1], k) /\ cur[k - 1] \in S
      BY <1>10, <3>1 DEF k
    <3>3. cur[k] \in S
      BY <1>3, <3>1, <3>2 DEF k
    <3> QED
      BY <3>1, <3>3 DEF k
  <2> HIDE DEF P
  <2> QED
    BY <1>1, <2>1, <2>2, UpTo
<1>12. cur[N] \in S
  BY <1>1, <1>11
<1> QED
  BY <1>8, <1>12 DEF S

\* The lesser of two numbers.
LEMMA LeastOfTwo ==
  ASSUME NEW a \in Int, NEW b \in Int
  PROVE  Min({a, b}) = IF a <= b THEN a ELSE b
<1> DEFINE m == IF a <= b THEN a ELSE b
<1>1. m \in {a, b} /\ \A y \in {a, b} : m <= y
  OBVIOUS
<1>2. \A x \in {a, b} : (\A y \in {a, b} : x <= y) => x = m
  OBVIOUS
<1> HIDE DEF m
<1>3. Min({a, b}) = m
  BY <1>1, <1>2 DEF Min
<1> QED
  BY <1>3 DEF m

\* The greater of two numbers.
LEMMA GreatestOfTwo ==
  ASSUME NEW a \in Int, NEW b \in Int
  PROVE  Max({a, b}) = IF a >= b THEN a ELSE b
<1> DEFINE m == IF a >= b THEN a ELSE b
<1>1. m \in {a, b} /\ \A y \in {a, b} : m >= y
  OBVIOUS
<1>2. \A x \in {a, b} : (\A y \in {a, b} : x >= y) => x = m
  OBVIOUS
<1> HIDE DEF m
<1>3. Max({a, b}) = m
  BY <1>1, <1>2 DEF Max
<1> QED
  BY <1>3 DEF m

\* A path that is not empty has a last component, which is a name.
LEMMA PathParts ==
  ASSUME NEW path \in Seq(Names), path # << >>
  PROVE  Len(Front(path)) \in Nat /\ Last(path) \in Names
<1>1. Len(path) \in Nat \ {0} /\ path[Len(path)] \in Names
  OBVIOUS
<1>2. Len(Front(path)) = Len(path) - 1
  <2> DEFINE k == Len(path) - 1
  <2>1. 1 \in Int /\ k \in Int /\ \A i \in 1 .. k : path[i] \in Names
    BY <1>1
  <2>2. Front(path) = SubSeq(path, 1, k)
    BY DEF Front
  <2> HIDE DEF k
  <2>3. Len(Front(path)) = IF 1 <= k THEN k - 1 + 1 ELSE 0
    BY <2>1, <2>2, SubSeqProperties
  <2>4. k \in Nat
    BY <1>1 DEF k
  <2>5. Len(Front(path)) = k
    BY <2>3, <2>4
  <2> QED
    BY <2>5 DEF k
<1> QED
  BY <1>1, <1>2 DEF Last

\* munin_create_path.
LEMMA CreatePathIs ==
  ASSUME NEW s, Good(s), NEW path \in Seq(Names), NEW type \in {"file", "dir"},
         NEW got, got = CreatePath(s, path, type)
  PROVE  Good(got.fs) /\ got.ino \in Ino \cup {None}
<1> DEFINE d == Resolve(s, Front(path))
<1>1. got = IF path = << >> \/ d = None \/ s.ino[d].type # "dir" THEN [fs |-> s, ino |-> None]
            ELSE Create(s, d, Last(path), type)
  BY DEF CreatePath
<1> HIDE DEF d
<1>2. CASE path = << >> \/ d = None \/ s.ino[d].type # "dir"
  BY <1>1, <1>2
<1>3. CASE ~(path = << >> \/ d = None \/ s.ino[d].type # "dir")
  <2>1. Len(Front(path)) \in Nat /\ Last(path) \in Names
    BY <1>3, PathParts
  <2>2. d \in Live(s) \cup {None}
    BY <2>1, ResolveIs DEF d
  <2>3. d \in Ino /\ s.ino[d].type = "dir"
    BY <1>3, <2>2 DEF Live
  <2>4. got = Create(s, d, Last(path), type)
    BY <1>1, <1>3
  <2> QED
    BY <2>1, <2>3, <2>4, CreateIs
<1> QED
  BY <1>2, <1>3

\* munin_unlink, of a file or an empty directory or of what is neither.
LEMMA UnlinkIs ==
  ASSUME NEW s, Good(s), NEW path \in Seq(Names)
  PROVE  Good(Unlink(s, path).fs)
<1> DEFINE d     == Resolve(s, Front(path))
           name  == Last(path)
           found == Named(s, d, name)
           p     == Min(found)
           n     == At(s, d, p).inode
           bad   == \/ path = << >> \/ d = None \/ s.ino[d].type # "dir" \/ found = {}
                    \/ s.ino[n].type = "dir" /\ s.ino[n].size # 0
<1>1. Unlink(s, path) = IF bad THEN [fs |-> s, ret |-> -1]
                        ELSE [fs |-> Drop(s, d, p), ret |-> 0]
  BY DEF Unlink
<1>2. CASE bad
  BY <1>1, <1>2
<1>3. CASE ~bad
  <2>1. Len(Front(path)) \in Nat
    BY <1>3, PathParts
  <2>2. d \in Live(s) \cup {None}
    BY <2>1, ResolveIs
  <2> HIDE DEF d, name
  <2>3. d \in Ino /\ s.ino[d].type = "dir" /\ Blks(s) /\ Rooted(s)
    BY <1>3, <2>2 DEF Live, Good
  <2>4. /\ found = {q \in Occupied(s, d) : Ent(s, d, q).name = name}
        /\ p \in found
        /\ \A q \in Occupied(s, d) : At(s, d, q) = Ent(s, d, q)
    BY <1>3, <2>3, LookupIs
  <2> HIDE DEF p
  <2>5. p \in Occupied(s, d) /\ n = Ent(s, d, p).inode
    BY <2>4
  <2>6. s.ino[n].type = "dir" => s.ino[n].size = 0
    BY <1>3
  <2> HIDE DEF n
  <2>7. Good(Drop(s, d, p))
    BY <2>3, <2>5, <2>6, DropIs
  <2> QED
    BY <1>1, <1>3, <2>7
<1> QED
  BY <1>2, <1>3

\* A file with its blocks given back is empty.
LEMMA EmptiedIs ==
  ASSUME NEW s, Good(s), NEW n \in Ino, s.ino[n].type = "file",
         NEW t, t = FreeInodeBlocks(s, n)
  PROVE  /\ Good(t) /\ t.ino[n].size = 0
         /\ \A m \in Ino : t.ino[m].type = s.ino[m].type
<1>1. Blks(s) /\ Rooted(s) /\ Sized(s) /\ s \in Fs /\ s.ino[n].type # "free"
  BY DEF Good, Blks
<1>2. /\ Blks(t)
      /\ \A m \in Ino : t.ino[m].type = s.ino[m].type
      /\ \A m \in Ino \ {n} : t.ino[m] = s.ino[m]
      /\ t.ino[n].size = 0
      /\ \A d \in Ino : \A p \in Pl :
           Ent(t, d, p) = IF d = n THEN EmptySlot ELSE Ent(s, d, p)
  BY <1>1, Freed
<1>3. \A p \in Pl : Ent(s, n, p) = EmptySlot
  BY <1>1, EntIs
<1>4. \A d \in Ino : \A p \in Pl : Ent(t, d, p) = Ent(s, d, p)
  BY <1>2, <1>3
<1>5. \A m \in Ino : s.ino[m].type = "dir" => t.ino[m].size = s.ino[m].size
  BY <1>2
<1>6. Rooted(t)
  BY <1>1, <1>2, <1>4, <1>5, RootedKept
<1>7. Sized(t)
  BY <1>1, <1>2, Caps DEF Sized
<1> QED
  BY <1>2, <1>6, <1>7 DEF Good

\* munin_truncate, of a file or of what is none.
LEMMA TruncateIs ==
  ASSUME NEW s, Good(s), NEW n \in Ino
  PROVE  Good(Truncate(s, n))
BY EmptiedIs DEF Truncate

\* A file, part of it written, gets a size.
LEMMA ProgressGood ==
  ASSUME NEW s, Good(s), NEW n \in Ino, s.ino[n].type = "file", NEW from \in Nat, NEW to \in Nat,
         NEW acc \in Progress(s, n, from, to)
  PROVE  /\ Good(acc.fs) /\ \A m \in Ino : acc.fs.ino[m].type = s.ino[m].type
         /\ \A size \in 0 .. Cap : /\ Good(SetSize(acc.fs, n, size))
                                   /\ \A m \in Ino : SetSize(acc.fs, n, size).ino[m].type =
                                        s.ino[m].type
<1> DEFINE t == acc.fs
<1>1. Rooted(s) /\ Sized(s) /\ Blks(t) /\ SameTree(s, t)
  BY DEF Good, Progress
<1> HIDE DEF t
<1>2. Rooted(t) /\ Sized(t)
  <2>1. /\ \A m \in Ino : t.ino[m].type = s.ino[m].type /\ t.ino[m].size = s.ino[m].size
        /\ \A d \in Ino : \A p \in Pl : Ent(t, d, p) = Ent(s, d, p)
    BY <1>1 DEF SameTree
  <2>2. Rooted(t)
    BY <1>1, <2>1, RootedKept
  <2> QED
    BY <1>1, <2>1, <2>2 DEF Sized
<1>3. \A m \in Ino : t.ino[m].type = s.ino[m].type
  BY <1>1 DEF SameTree
<1>4. ASSUME NEW size \in 0 .. Cap
      PROVE  /\ Good(SetSize(t, n, size))
             /\ \A m \in Ino : SetSize(t, n, size).ino[m].type = s.ino[m].type
  <2> DEFINE u == SetSize(t, n, size)
  <2>1. size \in Int
    OBVIOUS
  <2>2. /\ Blks(u) /\ \A d \in Ino : \A p \in Pl : Ent(u, d, p) = Ent(t, d, p)
        /\ \A m \in Ino : u.ino[m].type = t.ino[m].type
        /\ \A m \in Ino : u.ino[m].size = IF m = n THEN size ELSE t.ino[m].size
    BY <1>1, <2>1, Resized
  <2> HIDE DEF u
  <2>3. \A m \in Ino : t.ino[m].type = "dir" => u.ino[m].size = t.ino[m].size
    BY <1>3, <2>2
  <2>4. Rooted(u)
    BY <1>2, <2>2, <2>3, RootedKept
  <2>5. Sized(u)
    BY <1>2, <2>2 DEF Sized
  <2>6. Good(u) /\ \A m \in Ino : u.ino[m].type = s.ino[m].type
    BY <1>3, <2>2, <2>4, <2>5 DEF Good
  <2> QED
    BY <2>6 DEF u
<1> QED
  BY <1>1, <1>2, <1>3, <1>4 DEF Good, t

\* munin_write_inode: a write that stops early leaves all in order.
LEMMA WriteInodeIs ==
  ASSUME NEW s, Good(s), NEW n \in Ino, NEW v \in Int, NEW len \in Nat, NEW offset \in Nat,
         NEW got, got = WriteInode(s, n, v, len, offset)
  PROVE  /\ Good(got.fs) /\ got.ret \in Int
         /\ got.ret # -1 => got.ret \in 0 .. Cap - offset
<1> DEFINE to  == Min({offset + len, Cap})
           did == WriteBlocks(s, n, offset, to, v)
           size == Max({s.ino[n].size, did.end})
<1>1. CASE s.ino[n].type # "file" \/ offset >= Cap
  BY <1>1 DEF WriteInode
<1>2. CASE ~(s.ino[n].type # "file" \/ offset >= Cap)
  <2>1. got = [fs |-> SetSize(did.fs, n, size), ret |-> did.end - offset]
    BY <1>2 DEF WriteInode
  <2>2. /\ Blks(s) /\ s.ino[n].type = "file" /\ Cap \in Nat /\ offset < Cap
        /\ s.ino[n].size \in 0 .. Cap
    BY <1>2, Caps DEF Good, Sized
  <2>3. to \in Nat /\ offset <= to /\ to <= Cap
    <3>1. to = IF offset + len <= Cap THEN offset + len ELSE Cap
      BY <2>2, LeastOfTwo
    <3> QED
      BY <2>2, <3>1
  <2> HIDE DEF to
  <2>4. did \in Progress(s, n, offset, to)
    BY <2>2, <2>3, WritesIs
  <2> HIDE DEF did
  <2>5. did.end \in offset .. to
    BY <2>4 DEF Progress
  <2>6. size \in 0 .. Cap
    <3>1. size = IF s.ino[n].size >= did.end THEN s.ino[n].size ELSE did.end
      BY <2>2, <2>3, <2>5, GreatestOfTwo
    <3> QED
      BY <2>2, <2>3, <2>5, <3>1
  <2> HIDE DEF size
  <2>7. Good(SetSize(did.fs, n, size))
    BY <2>2, <2>3, <2>4, <2>6, ProgressGood
  <2>8. did.end - offset \in 0 .. Cap - offset
    BY <2>2, <2>3, <2>5
  <2> QED
    BY <2>1, <2>7, <2>8
<1> QED
  BY <1>1, <1>2

\* munin_read_inode yields no more than the largest file has after the offset.
LEMMA ReadInodeIs ==
  ASSUME NEW s, Good(s), NEW n \in Ino, NEW len \in Nat, NEW offset \in 0 .. Cap
  PROVE  offset + Max({ReadInode(s, n, len, offset), 0}) \in 0 .. Cap
<1> DEFINE r == ReadInode(s, n, len, offset)
<1>1. Cap \in Nat /\ Direct * BlockSize \in Nat
  BY Caps, MuninAssumption
<1>2. CASE s.ino[n].type # "file"
  <2>1. r = -1
    BY <1>2 DEF ReadInode
  <2>2. Max({r, 0}) = 0
    BY <2>1, GreatestOfTwo
  <2> QED
    BY <1>1, <2>2
<1>3. CASE s.ino[n].type = "file"
  <2> DEFINE a == s.ino[n].size - offset
             b == Direct * BlockSize - offset
             S == {len, a, b}
             m == Min(S)
  <2>1. s.ino[n].size \in 0 .. Cap
    BY <1>3 DEF Good, Sized
  <2>2. a \in Int /\ b \in Int /\ a <= Cap - offset /\ len \in Int
    BY <1>1, <2>1
  <2>3. r = Max({0, m})
    BY <1>3 DEF ReadInode
  <2> HIDE DEF a, b
  <2>4. \E x \in S : \A y \in S : x <= y
    <3>1. CASE len <= a /\ len <= b
      BY <2>2, <3>1
    <3>2. CASE a <= len /\ a <= b
      BY <2>2, <3>2
    <3>3. CASE b <= len /\ b <= a
      BY <2>2, <3>3
    <3> QED
      BY <2>2, <3>1, <3>2, <3>3
  <2>5. m \in S /\ m <= a
    BY <2>4 DEF Min
  <2>6. m \in Int /\ m <= Cap - offset
    BY <1>1, <2>2, <2>5
  <2> HIDE DEF m, r
  <2>7. r = IF 0 >= m THEN 0 ELSE m
    BY <2>3, <2>6, GreatestOfTwo
  <2>8. Max({r, 0}) = r
    BY <2>6, <2>7, GreatestOfTwo
  <2> QED
    BY <1>1, <2>6, <2>7, <2>8 DEF r
<1> QED
  BY <1>2, <1>3

\* munin_write: the whole of a file, or an empty one.
LEMMA WritePathIs ==
  ASSUME NEW s, Good(s), NEW path, Len(path) \in Nat, NEW v \in Int, NEW len \in Nat
  PROVE  Good(WritePath(s, path, v, len).fs)
<1> DEFINE n   == Resolve(s, path)
           t   == FreeInodeBlocks(s, n)
           did == WriteBlocks(t, n, 0, len, v)
<1>1. WritePath(s, path, v, len) =
        IF n = None THEN [fs |-> s, ret |-> -1]
        ELSE IF s.ino[n].type # "file" \/ len > Cap THEN [fs |-> s, ret |-> -1]
        ELSE IF did.full THEN [fs |-> FreeInodeBlocks(did.fs, n), ret |-> -1]
        ELSE [fs |-> SetSize(did.fs, n, len), ret |-> len]
  BY DEF WritePath
<1>2. n \in Live(s) \cup {None}
  BY ResolveIs
<1> HIDE DEF n
<1>3. CASE n = None \/ s.ino[n].type # "file" \/ len > Cap
  BY <1>1, <1>3
<1>4. CASE ~(n = None \/ s.ino[n].type # "file" \/ len > Cap)
  <2>1. n \in Ino /\ s.ino[n].type = "file" /\ Cap \in Nat
    BY <1>2, <1>4, Caps DEF Live
  <2>2. Good(t) /\ t.ino[n].type = "file"
    BY <2>1, EmptiedIs
  <2> HIDE DEF t
  <2>3. 0 \in Nat /\ 0 <= len /\ Blks(t)
    BY <2>2 DEF Good
  <2>4. did \in Progress(t, n, 0, len)
    BY <2>1, <2>2, <2>3, WritesIs
  <2> HIDE DEF did
  <2>5. len \in 0 .. Cap
    BY <1>4, <2>1
  <2>6. Good(did.fs) /\ did.fs.ino[n].type = "file" /\ Good(SetSize(did.fs, n, len))
    BY <2>1, <2>2, <2>3, <2>4, <2>5, ProgressGood
  <2>7. Good(FreeInodeBlocks(did.fs, n))
    BY <2>1, <2>6, EmptiedIs
  <2> QED
    BY <1>1, <1>4, <2>6, <2>7
<1> QED
  BY <1>3, <1>4

\* munin_init.
LEMMA FormattedIs == Good(Formatted)
<1> DEFINE s == Formatted
           type(n) == IF n = Root THEN "dir" ELSE "free"
<1>1. /\ s.ino = [n \in Ino |-> FreshInode(type(n))] /\ s.used = {}
      /\ s.blk = [b \in Blk |-> Junk]
      /\ s = [ino |-> s.ino, used |-> s.used, blk |-> s.blk]
  BY DEF Formatted
<1>2. \A n \in Ino : type(n) \in Types
  BY DEF Types
<1>3. \A n \in Ino : /\ s.ino[n] \in Inode /\ s.ino[n].type = type(n) /\ s.ino[n].size = 0
                     /\ s.ino[n].indirect = NoBlock
                     /\ \A i \in Dir : s.ino[n].direct[i] = NoBlock
  <2> HIDE DEF type, s
  <2> QED
    BY <1>1, <1>2, Fresh
<1>4. s \in Fs
  <2>1. Junk \in Block
    BY Contents DEF Block
  <2>2. s.ino \in [Ino -> Inode] /\ s.blk \in [Blk -> Block] /\ s.used \in SUBSET Blk
    <3> HIDE DEF s
    <3> QED
      BY <1>1, <1>3, <2>1
  <2> HIDE DEF s
  <2> QED
    BY <1>1, <2>2 DEF Fs
<1> HIDE DEF s
<1>5. \A n \in Ino : Bare(s, n)
  <2>1. \A j \in Uses : j < Direct \/ j = MaxBlks \/ (j >= Direct /\ j # MaxBlks)
    BY Numbers
  <2>2. \A j \in Uses : j < Direct => j \in Dir
    BY Numbers
  <2> QED
    BY <1>3, <1>4, <2>1, <2>2, UseIs DEF Bare
<1>6. \A d \in Ino : \A p \in Pl : Ent(s, d, p) = EmptySlot
  BY <1>4, <1>5, BareEnts
<1>7. Blks(s)
  <2>1. Owned(s) /\ Kinds(s)
    BY <1>1, <1>5 DEF Owned, Once, Kinds, Holds, Bare
  <2>2. Clean(s)
    BY <1>1 DEF Clean
  <2> QED
    BY <1>4, <2>1, <2>2 DEF Blks
<1>8. Rooted(s)
  <2>1. Root \in Ino /\ \A n \in Ino : s.ino[n].type = IF n = Root THEN "dir" ELSE "free"
    BY <1>3, Numbers
  <2>2. Live(s) = {Root} /\ Dirs(s) = {Root}
    <3>1. \A n \in Ino : (s.ino[n].type # "free" <=> n = Root)
                         /\ (s.ino[n].type = "dir" <=> n = Root)
      BY <2>1
    <3>2. Live(s) = {Root}
      BY <2>1, <3>1 DEF Live
    <3>3. Dirs(s) = {Root}
      BY <2>1, <3>1 DEF Dirs
    <3> QED
      BY <3>2, <3>3
  <2>3. \A d \in Ino : \A p \in Pl : Ent(s, d, p).inode = None
    <3>1. EmptySlot.inode = None
      BY DEF EmptySlot
    <3> QED
      BY <1>6, <3>1
  <2>4. Occupied(s, Root) = {}
    BY <2>1, <2>3 DEF Occupied
  <2>5. s.ino[Root].size = Cardinality(Occupied(s, Root))
    BY <1>3, <2>1, <2>4, FS_EmptySet
  <2>6. \A d \in Dirs(s) : \A p, q \in Occupied(s, d) : p = q
    BY <2>2, <2>4
  <2>7. \A d \in Dirs(s) : s.ino[d].size = Cardinality(Occupied(s, d))
    BY <2>2, <2>5
  <2>8. s.ino[Root].type = "dir" /\ Live(s) \ {Root} = {}
    BY <2>1, <2>2
  <2> QED
    BY <2>3, <2>6, <2>7, <2>8 DEF Rooted
<1>9. Sized(s)
  BY <1>3, Caps DEF Sized
<1> QED
  BY <1>7, <1>8, <1>9 DEF Good, s

\* The dirents of an inode, by their entries.
LEMMA InDirents ==
  ASSUME NEW s, NEW n \in Ino, NEW e
  PROVE  e \in DirentsOf(s, n) <=> e \in Ino \X Pl /\ Ent(s, e[1], e[2]).inode = n
<1>1. None \notin Ino /\ Dirs(s) \subseteq Ino /\ EmptySlot.inode = None
  BY Numbers DEF Dirs, EmptySlot
<1>2. ASSUME e \in DirentsOf(s, n)
      PROVE  e \in Ino \X Pl /\ Ent(s, e[1], e[2]).inode = n
  <2>1. /\ e \in Dirs(s) \X Pl /\ e[2] \in Taken(s, e[1]) /\ At(s, e[1], e[2]).inode = n
    BY <1>2 DEF DirentsOf, Pl
  <2>2. s.ino[e[1]].type = "dir" /\ e[2] \in Places(s, e[1]) /\ e \in Ino \X Pl
    BY <1>1, <2>1 DEF Dirs, Taken
  <2> QED
    BY <2>1, <2>2 DEF Ent
<1>3. ASSUME e \in Ino \X Pl, Ent(s, e[1], e[2]).inode = n
      PROVE  e \in DirentsOf(s, n)
  <2>1. s.ino[e[1]].type = "dir" /\ e[2] \in Places(s, e[1])
    BY <1>1, <1>3 DEF Ent
  <2>2. At(s, e[1], e[2]).inode = n /\ n # None
    BY <1>1, <1>3, <2>1 DEF Ent
  <2>3. e[2] \in Taken(s, e[1]) /\ e \in Dirs(s) \X Pl
    BY <1>3, <2>1, <2>2 DEF Taken, Dirs
  <2> QED
    BY <2>2, <2>3 DEF DirentsOf, Pl
<1> QED
  BY <1>2, <1>3

\* A good filesystem is well formed.
LEMMA GoodIsWellFormed ==
  ASSUME NEW s, Good(s)
  PROVE  WellFormed(s)
<1>1. /\ Blks(s) /\ Rooted(s) /\ Sized(s) /\ s \in Fs /\ Owned(s) /\ Kinds(s)
      /\ None \notin Ino /\ Live(s) \subseteq Ino /\ Dirs(s) \subseteq Ino /\ NoBlock \notin Blk
  BY Numbers DEF Good, Blks, Live, Dirs
<1>2. FsType(s)
  <2>1. ASSUME NEW n \in Ino
        PROVE  s.ino[n].size \in 0 .. Cap
    <3>1. CASE s.ino[n].type = "dir"
      <4>1. s.ino[n].size = Cardinality(Occupied(s, n))
        BY <1>1, <3>1 DEF Dirs, Rooted
      <4> QED
        BY <4>1, Counted
    <3> QED
      BY <1>1, <3>1 DEF Sized
  <2>2. ASSUME NEW n \in Ino
        PROVE  /\ s.ino[n].type \in {"free", "file", "dir"}
               /\ Range(s.ino[n].direct) \cup {s.ino[n].indirect} \subseteq Blk \cup {NoBlock}
    <3>1. /\ s.ino[n].type \in Types /\ s.ino[n].direct \in [Dir -> Ptr]
          /\ s.ino[n].indirect \in Ptr
      BY <1>1, FsParts
    <3> QED
      BY <3>1 DEF Types, Ptr, Range
  <2> QED
    BY <1>1, <2>1, <2>2, FsParts DEF FsType
<1>3. KindsAgree(s)
  <2>1. MaxBlks \in Uses /\ \A i \in 0 .. MaxBlks - 1 : i \in Uses
    BY Numbers DEF Uses
  <2> QED
    BY <1>1, <2>1 DEF Kinds, KindsAgree
<1>4. ASSUME NEW b \in Blk
      PROVE  LET uses == {u \in Live(s) \X (0 .. MaxBlks) : Use(s, u[1], u[2]) = b}
             IN  IF b \in s.used THEN \E u \in uses : uses = {u} ELSE uses = {}
  <2> DEFINE uses == {u \in Live(s) \X (0 .. MaxBlks) : Use(s, u[1], u[2]) = b}
  <2>1. ASSUME NEW u \in uses
        PROVE  /\ u[1] \in Ino /\ u[2] \in Uses /\ Use(s, u[1], u[2]) = b /\ b \in s.used
               /\ u = <<u[1], u[2]>>
    BY <1>1 DEF Owned, Uses
  <2>2. CASE b \notin s.used
    BY <2>1, <2>2
  <2>3. CASE b \in s.used
    <3>1. PICK n \in Ino, i \in Uses : Use(s, n, i) = b
      BY <1>1, <2>3 DEF Owned
    <3>2. n \in Live(s) /\ i \in 0 .. MaxBlks
      BY <1>1, <3>1, UseIs DEF Live, Uses
    <3> DEFINE u == <<n, i>>
    <3>3. u \in uses /\ u[1] = n /\ u[2] = i
      BY <3>1, <3>2
    <3>4. ASSUME NEW w \in uses
          PROVE  w = u
      <4>1. w[1] = n /\ w[2] = i /\ w = <<w[1], w[2]>>
        <5>1. w[1] \in Ino /\ w[2] \in Uses /\ Use(s, w[1], w[2]) = b /\ w = <<w[1], w[2]>>
          BY <2>1
        <5> QED
          BY <1>1, <3>1, <5>1 DEF Owned, Once
      <4> QED
        BY <4>1
    <3> HIDE DEF u, uses
    <3>5. uses = {u}
      BY <3>3, <3>4
    <3> QED
      BY <2>3, <3>3, <3>5 DEF uses
  <2> QED
    BY <2>2, <2>3
<1>5. BlocksAgree(s)
  BY <1>4 DEF BlocksAgree
<1>6. ASSUME NEW n \in Ino
      PROVE  IF n \in Live(s) \ {Root} THEN \E e \in DirentsOf(s, n) : DirentsOf(s, n) = {e}
             ELSE DirentsOf(s, n) = {}
  <2>1. CASE n \in Live(s) \ {Root}
    <3>1. PICK d \in Ino, p \in Pl : Ent(s, d, p).inode = n
      BY <1>1, <2>1 DEF Rooted
    <3> DEFINE e == <<d, p>>
    <3>2. e \in Ino \X Pl /\ e[1] = d /\ e[2] = p
      OBVIOUS
    <3>3. e \in DirentsOf(s, n)
      <4> HIDE DEF e
      <4> QED
        BY <3>1, <3>2, InDirents
    <3>4. ASSUME NEW f \in DirentsOf(s, n)
          PROVE  f = e
      <4>1. f \in Ino \X Pl /\ Ent(s, f[1], f[2]).inode = n
        BY InDirents
      <4>2. f = <<f[1], f[2]>> /\ f[1] \in Ino /\ f[2] \in Pl
        BY <4>1
      <4>3. f[1] = d /\ f[2] = p
        BY <1>1, <3>1, <4>1, <4>2 DEF Rooted
      <4> QED
        BY <4>2, <4>3
    <3> HIDE DEF e
    <3>5. DirentsOf(s, n) = {e}
      BY <3>3, <3>4
    <3> QED
      BY <2>1, <3>3, <3>5
  <2>2. CASE n \notin Live(s) \ {Root}
    <3>1. ASSUME NEW e \in DirentsOf(s, n)
          PROVE  FALSE
      <4>1. e \in Ino \X Pl /\ Ent(s, e[1], e[2]).inode = n
        BY InDirents
      <4>2. e[1] \in Ino /\ e[2] \in Pl
        BY <4>1
      <4>3. n \in (Live(s) \ {Root}) \cup {None}
        BY <1>1, <4>1, <4>2 DEF Rooted
      <4> QED
        BY <1>1, <2>2, <4>3
    <3> QED
      BY <2>2, <3>1
  <2> QED
    BY <2>1, <2>2
<1>7. ASSUME NEW d \in Dirs(s)
      PROVE  /\ s.ino[d].size = Cardinality(Taken(s, d))
             /\ \A p, q \in Taken(s, d) : At(s, d, p).name = At(s, d, q).name => p = q
  <2>1. s.ino[d].type = "dir"
    BY DEF Dirs
  <2>2. Taken(s, d) = Occupied(s, d) /\ \A p \in Occupied(s, d) : At(s, d, p) = Ent(s, d, p)
    <3>1. Taken(s, d) \subseteq Places(s, d)
      BY DEF Taken
    <3> QED
      BY <2>1, <3>1, TakenIs
  <2> QED
    BY <1>1, <2>2 DEF Rooted
<1>8. IsTree(s)
  <2>1. s.ino[Root].type = "dir"
    BY <1>1 DEF Rooted
  <2> QED
    BY <1>6, <1>7, <2>1 DEF IsTree
<1> QED
  BY <1>2, <1>3, <1>5, <1>8 DEF WellFormed

\* And so is the other way around, if what its free blocks hold is not told apart.
LEMMA WellFormedIsGood ==
  ASSUME NEW s \in Fs, Clean(s), WellFormed(s)
  PROVE  Good(s)
<1>1. /\ FsType(s) /\ KindsAgree(s) /\ BlocksAgree(s) /\ IsTree(s)
      /\ None \notin Ino /\ Live(s) \subseteq Ino /\ Dirs(s) \subseteq Ino /\ NoBlock \notin Blk
      /\ s.used \subseteq Blk
  BY Numbers, FsParts DEF WellFormed, Live, Dirs
<1>2. Kinds(s)
  <2>1. ASSUME NEW n \in Ino, NEW i \in Uses
        PROVE  Holds(s, n, i)
    <3>1. CASE n \notin Live(s)
      BY <3>1, UseIs DEF Live, Holds
    <3>2. CASE n \in Live(s)
      <4>1. i = MaxBlks \/ i \in 0 .. MaxBlks - 1
        BY Numbers DEF Uses
      <4> QED
        BY <1>1, <3>2, <4>1 DEF KindsAgree
    <3> QED
      BY <3>1, <3>2
  <2> QED
    BY <2>1 DEF Kinds
<1>3. ASSUME NEW b \in Blk, NEW n \in Ino, NEW i \in Uses, Use(s, n, i) = b
      PROVE  /\ b \in s.used
             /\ \A m \in Ino : \A j \in Uses : Use(s, m, j) = b => m = n /\ j = i
  <2> DEFINE uses == {u \in Live(s) \X (0 .. MaxBlks) : Use(s, u[1], u[2]) = b}
  <2>1. IF b \in s.used THEN \E u \in uses : uses = {u} ELSE uses = {}
    BY <1>1 DEF BlocksAgree
  <2>2. ASSUME NEW m \in Ino, NEW j \in Uses, Use(s, m, j) = b
        PROVE  <<m, j>> \in uses
    <3>1. m \in Live(s) /\ j \in 0 .. MaxBlks
      BY <1>1, <2>2, UseIs DEF Live, Uses
    <3> QED
      BY <2>2, <3>1
  <2> HIDE DEF uses
  <2>3. <<n, i>> \in uses
    BY <1>3, <2>2
  <2>4. b \in s.used
    BY <2>1, <2>3
  <2>5. PICK u : uses = {u}
    BY <2>1, <2>4
  <2>6. ASSUME NEW m \in Ino, NEW j \in Uses, Use(s, m, j) = b
        PROVE  m = n /\ j = i
    <3>1. <<m, j>> = <<n, i>>
      BY <2>2, <2>3, <2>5, <2>6
    <3> QED
      BY <3>1
  <2> QED
    BY <2>4, <2>6
<1>4. ASSUME NEW n \in Ino, NEW i \in Uses
      PROVE  Use(s, n, i) \in Blk \cup {NoBlock}
  <2>1. s.ino[n].indirect \in Ptr /\ \A j \in Dir : s.ino[n].direct[j] \in Ptr
    BY FsParts
  <2>2. CASE s.ino[n].type = "free"
    BY <2>2, UseIs
  <2>3. CASE s.ino[n].type # "free" /\ (i < Direct \/ i = MaxBlks)
    BY <2>1, <2>3, UseIs, Numbers DEF Ptr
  <2>4. CASE s.ino[n].type # "free" /\ i >= Direct /\ i # MaxBlks /\ i - Direct \in Ind
    <3> DEFINE x == s.ino[n].indirect
    <3>1. Use(s, n, i) = IF x = NoBlock THEN NoBlock ELSE s.blk[x].ptr[i - Direct]
      BY <2>4, UseIs
    <3>2. ASSUME x # NoBlock
          PROVE  s.blk[x].ptr \in [Ind -> Ptr]
      <4>1. Use(s, n, MaxBlks) = x /\ MaxBlks \in Uses
        BY <2>4, UseIs, Numbers
      <4>2. x \in Blk /\ s.blk[x].kind = "ptrs"
        BY <1>2, <2>1, <3>2, <4>1 DEF Kinds, Holds, Role, Ptr
      <4> QED
        BY <4>2, FsParts, BlockKinds
    <3> QED
      BY <2>4, <3>1, <3>2 DEF Ptr
  <2> QED
    BY <2>2, <2>3, <2>4, Numbers
<1>5. Owned(s)
  <2>1. \A n \in Ino : \A i \in Uses : Use(s, n, i) \in s.used \cup {NoBlock}
    BY <1>3, <1>4
  <2>2. Once(s)
    <3>1. ASSUME NEW m \in Ino, NEW n \in Ino, NEW i \in Uses, NEW j \in Uses,
                 Use(s, m, i) = Use(s, n, j), Use(s, m, i) # NoBlock
          PROVE  m = n /\ i = j
      <4>1. Use(s, n, j) \in Blk
        BY <1>4, <3>1
      <4> QED
        BY <1>3, <3>1, <4>1
    <3> QED
      BY <3>1 DEF Once
  <2>3. ASSUME NEW b \in s.used
        PROVE  \E n \in Ino : \E i \in Uses : Use(s, n, i) = b
    <3> DEFINE uses == {u \in Live(s) \X (0 .. MaxBlks) : Use(s, u[1], u[2]) = b}
    <3>1. PICK u : u \in uses
      BY <1>1 DEF BlocksAgree
    <3>2. u[1] \in Ino /\ u[2] \in Uses /\ Use(s, u[1], u[2]) = b
      BY <1>1, <3>1 DEF Uses
    <3> QED
      BY <3>2
  <2> QED
    BY <2>1, <2>2, <2>3 DEF Owned
<1>6. Blks(s)
  BY <1>2, <1>5 DEF Blks
<1>7. ASSUME NEW d \in Ino, NEW p \in Pl, Ent(s, d, p).inode # None
      PROVE  LET n == Ent(s, d, p).inode
             IN  /\ n \in Live(s) \ {Root}
                 /\ \A c \in Ino : \A q \in Pl : Ent(s, c, q).inode = n => c = d /\ q = p
  <2> DEFINE n == Ent(s, d, p).inode
  <2>1. n \in Ino
    <3>1. Ent(s, d, p) \in Entry
      BY <1>6, EntTyped
    <3> QED
      BY <1>7, <3>1 DEF Entry
  <2> HIDE DEF n
  <2>2. ASSUME NEW c \in Ino, NEW q \in Pl, Ent(s, c, q).inode = n
        PROVE  <<c, q>> \in DirentsOf(s, n)
    <3> DEFINE e == <<c, q>>
    <3>1. e \in Ino \X Pl /\ e[1] = c /\ e[2] = q
      OBVIOUS
    <3> HIDE DEF e
    <3>2. e \in DirentsOf(s, n)
      BY <2>1, <2>2, <3>1, InDirents
    <3> QED
      BY <3>2 DEF e
  <2>3. <<d, p>> \in DirentsOf(s, n)
    BY <2>2 DEF n
  <2>4. IF n \in Live(s) \ {Root} THEN \E e \in DirentsOf(s, n) : DirentsOf(s, n) = {e}
        ELSE DirentsOf(s, n) = {}
    BY <1>1, <2>1 DEF IsTree
  <2>5. n \in Live(s) \ {Root}
    BY <2>3, <2>4
  <2>6. PICK e : DirentsOf(s, n) = {e}
    BY <2>4, <2>5
  <2>7. ASSUME NEW c \in Ino, NEW q \in Pl, Ent(s, c, q).inode = n
        PROVE  c = d /\ q = p
    <3>1. <<c, q>> = <<d, p>>
      BY <2>2, <2>3, <2>6, <2>7
    <3> QED
      BY <3>1
  <2> QED
    BY <2>5, <2>7 DEF n
<1>8. ASSUME NEW n \in Live(s) \ {Root}
      PROVE  \E d \in Ino : \E p \in Pl : Ent(s, d, p).inode = n
  <2>1. n \in Ino
    BY <1>1
  <2>2. PICK e : e \in DirentsOf(s, n)
    BY <1>1, <2>1 DEF IsTree
  <2>3. e \in Ino \X Pl /\ Ent(s, e[1], e[2]).inode = n
    BY <2>1, <2>2, InDirents
  <2>4. e[1] \in Ino /\ e[2] \in Pl
    BY <2>3
  <2> QED
    BY <2>3, <2>4
<1>9. ASSUME NEW d \in Dirs(s)
      PROVE  /\ s.ino[d].size = Cardinality(Occupied(s, d))
             /\ \A p, q \in Occupied(s, d) : Ent(s, d, p).name = Ent(s, d, q).name => p = q
  <2>1. s.ino[d].type = "dir"
    BY DEF Dirs
  <2>2. Taken(s, d) = Occupied(s, d) /\ \A p \in Occupied(s, d) : At(s, d, p) = Ent(s, d, p)
    <3>1. Taken(s, d) \subseteq Places(s, d)
      BY DEF Taken
    <3> QED
      BY <2>1, <3>1, TakenIs
  <2> QED
    BY <1>1, <2>2 DEF IsTree
<1>10. Rooted(s)
  <2>1. s.ino[Root].type = "dir"
    BY <1>1 DEF IsTree
  <2>2. \A c, d \in Ino : \A p, q \in Pl :
          Ent(s, c, p).inode = Ent(s, d, q).inode /\ Ent(s, c, p).inode # None => c = d /\ p = q
    BY <1>7
  <2>3. \A d \in Ino : \A p \in Pl : Ent(s, d, p).inode \in (Live(s) \ {Root}) \cup {None}
    BY <1>7
  <2> QED
    BY <1>8, <1>9, <2>1, <2>2, <2>3 DEF Rooted
<1>11. Sized(s)
  BY <1>1 DEF FsType, Sized
<1> QED
  BY <1>6, <1>10, <1>11 DEF Good
=============================================================================
