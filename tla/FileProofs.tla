------------------------------ MODULE FileProofs ------------------------------
(***************************************************************************)
(* The filesystem stays well formed under the calls of any number of tasks, *)
(* for every size of the filesystem and of the descriptor tables; and what  *)
(* is on the disk while it is flushed, lost in part, cut off and mounted,   *)
(* for every layout of the inode table and any number of accidents.         *)
(***************************************************************************)
EXTENDS Vfs, MuninDisk, MuninProofs

-----------------------------------------------------------------------------
(* The files of tasks (Vfs).                                                *)

Table  == [Fd -> [used : BOOLEAN, inode : Ino,
                  type : {"free", "file", "dir"}, offset : 0 .. Cap]]

\* The inductive invariant.  A descriptor's inode may have been removed, and its
\* number given to another file or a directory: what holds of the filesystem must
\* hold whatever inode a descriptor names.
IInv ==
  /\ Good(fs)
  /\ fds \in [Tasks -> Table]
  /\ flushed \in BOOLEAN

-----------------------------------------------------------------------------
(* The descriptor tables.                                                   *)

\* A descriptor that is not in use is a descriptor, and so names an inode.
LEMMA NoFdIs == NoFd \in [used : BOOLEAN, inode : Ino, type : {"free", "file", "dir"},
                          offset : 0 .. Cap]
<1>1. Root \in Ino /\ 0 \in 0 .. Cap
  BY Numbers, Caps
<1> QED
  BY <1>1 DEF NoFd

\* An inode of a good filesystem has a type, and a size that an offset can be.
LEMMA InodeIs ==
  ASSUME NEW s, Good(s), NEW n \in Ino
  PROVE  s.ino[n].type \in {"free", "file", "dir"} /\ s.ino[n].size \in 0 .. Cap
BY GoodIsWellFormed DEF WellFormed, FsType

\* The inode that vfs_open ends up with is there, in a good filesystem.
LEMMA OpenedIs ==
  ASSUME Good(fs), NEW path \in Seq(Names), NEW flags
  PROVE  Good(Opened(path, flags).fs) /\ Opened(path, flags).ino \in Ino \cup {None}
<1> DEFINE n == Resolve(fs, path)
<1>1. Len(path) \in Nat
  OBVIOUS
<1>2. n \in Ino \cup {None}
  BY <1>1, ResolveIs DEF Live
<1>3. "file" \in {"file", "dir"}
  OBVIOUS
<1>4. CASE n # None \/ "CREAT" \notin flags
  <2>1. Opened(path, flags) = [fs |-> fs, ino |-> n]
    BY <1>4 DEF Opened
  <2> HIDE DEF n
  <2> QED
    BY <1>2, <2>1
<1>5. CASE ~(n # None \/ "CREAT" \notin flags)
  <2>1. Opened(path, flags) = CreatePath(fs, path, "file")
    BY <1>5 DEF Opened
  <2> QED
    BY <1>3, <2>1, CreatePathIs
<1> QED
  BY <1>4, <1>5

\* The lowest free descriptor is one.
LEMMA FreeFdIs ==
  ASSUME NEW t, FreeFds(t) # {}
  PROVE  Min(FreeFds(t)) \in Fd
<1> DEFINE S == FreeFds(t)
<1>1. S \subseteq Fd /\ S \subseteq Nat
  BY VfsAssumption DEF FreeFds, Fd
<1> HIDE DEF S
<1>2. S # {}
  BY DEF S
<1>3. Min(S) \in S
  BY <1>1, <1>2, Least
<1> QED
  BY <1>1, <1>3 DEF S

-----------------------------------------------------------------------------
(* The calls.                                                               *)

\* vfs_open: the file is there, cut if asked for, whether or not a descriptor is
\* to be had for it.
LEMMA OpenKeeps ==
  ASSUME IInv, NEW t \in Tasks, NEW path \in Seq(Names), NEW flags, Open(t, path, flags)
  PROVE  IInv'
<1> DEFINE got  == Opened(path, flags)
           file == got.fs.ino[got.ino].type = "file"
           cut  == IF "TRUNC" \in flags /\ file THEN Truncate(got.fs, got.ino) ELSE got.fs
           off  == IF "APPEND" \in flags /\ file THEN cut.ino[got.ino].size ELSE 0
           desc == [used |-> TRUE, inode |-> got.ino, type |-> cut.ino[got.ino].type,
                    offset |-> off]
<1>1. Good(fs) /\ fds \in [Tasks -> Table] /\ flushed \in BOOLEAN
  BY DEF IInv
<1>2. Good(got.fs) /\ got.ino \in Ino \cup {None}
  BY <1>1, OpenedIs
<1>3. IF got.ino = None THEN fs' = got.fs /\ UNCHANGED fds /\ NoFlush
      ELSE /\ fs' = cut
           /\ IF FreeFds(t) = {} THEN UNCHANGED fds /\ NoFlush
              ELSE /\ fds' = [fds EXCEPT ![t][Min(FreeFds(t))] = desc]
                   /\ IF flags \cap {"CREAT", "TRUNC"} # {} THEN Flush ELSE NoFlush
  BY DEF Open
<1>4. (Flush \/ NoFlush) => flushed' \in BOOLEAN
  BY DEF Flush, NoFlush
<1>5. CASE got.ino = None
  <2> HIDE DEF got
  <2> QED
    BY <1>1, <1>2, <1>3, <1>4, <1>5 DEF IInv
<1>6. CASE got.ino # None
  <2> HIDE DEF got
  <2>1. got.ino \in Ino
    BY <1>2, <1>6
  <2>2. Good(cut)
    BY <1>2, <2>1, TruncateIs
  <2>3. fs' = cut
    BY <1>3, <1>6
  <2> HIDE DEF cut
  <2>4. cut.ino[got.ino].type \in {"free", "file", "dir"} /\ off \in 0 .. Cap
    BY <2>1, <2>2, InodeIs, Caps
  <2> HIDE DEF off
  <2>5. desc \in [used : BOOLEAN, inode : Ino, type : {"free", "file", "dir"},
                  offset : 0 .. Cap]
    BY <2>1, <2>4
  <2> HIDE DEF desc, file
  <2>6. CASE FreeFds(t) = {}
    BY <1>1, <1>3, <1>4, <1>6, <2>2, <2>3, <2>6 DEF IInv
  <2>7. CASE FreeFds(t) # {}
    <3> DEFINE fd == Min(FreeFds(t))
    <3>1. fd \in Fd
      BY <2>7, FreeFdIs
    <3>2. fds' = [fds EXCEPT ![t][fd] = desc] /\ (Flush \/ NoFlush)
      BY <1>3, <1>6, <2>7
    <3> HIDE DEF fd
    <3>3. fds' \in [Tasks -> Table]
      BY <1>1, <2>5, <3>1, <3>2 DEF Table
    <3> QED
      BY <1>4, <2>2, <2>3, <3>2, <3>3 DEF IInv
  <2> QED
    BY <2>6, <2>7
<1> QED
  BY <1>5, <1>6

\* A descriptor's offset moves within the largest file there can be.
LEMMA MoveKeeps ==
  ASSUME fds \in [Tasks -> Table], NEW t \in Tasks, NEW fd \in Fd, NEW n,
         fds[t][fd].offset + n \in 0 .. Cap,
         fds' = [fds EXCEPT ![t][fd].offset = @ + n]
  PROVE  fds' \in [Tasks -> Table]
<1> DEFINE off == fds[t][fd].offset + n
<1>1. fds' = [fds EXCEPT ![t] = [fds[t] EXCEPT ![fd] = [fds[t][fd] EXCEPT !.offset = off]]]
  OBVIOUS
<1>2. off \in 0 .. Cap /\ fds[t] \in Table
  OBVIOUS
<1> HIDE DEF off
<1>3. [fds[t][fd] EXCEPT !.offset = off] \in
        [used : BOOLEAN, inode : Ino, type : {"free", "file", "dir"}, offset : 0 .. Cap]
  BY <1>2 DEF Table
<1>4. [fds[t] EXCEPT ![fd] = [fds[t][fd] EXCEPT !.offset = off]] \in Table
  BY <1>2, <1>3 DEF Table
<1> QED
  BY <1>1, <1>4

\* vfs_close: the descriptor is free again, and names an inode for form's sake.
LEMMA CloseKeeps ==
  ASSUME IInv, NEW t \in Tasks, NEW fd \in Fd, Close(t, fd)
  PROVE  IInv'
<1>1. fds' = [fds EXCEPT ![t] = [fds[t] EXCEPT ![fd] = NoFd]] /\ fds[t] \in Table
  BY DEF Close, IInv
<1>2. [fds[t] EXCEPT ![fd] = NoFd] \in Table
  BY <1>1, NoFdIs DEF Table
<1>3. fds' \in [Tasks -> Table]
  BY <1>1, <1>2 DEF IInv
<1> QED
  BY <1>3 DEF IInv, Close

\* vfs_read moves the cursor by what was read, and changes nothing else.
LEMMA ReadKeeps ==
  ASSUME IInv, NEW t \in Tasks, NEW fd \in Fd, NEW len \in Lens, Read(t, fd, len)
  PROVE  IInv'
<1> DEFINE d == fds[t][fd]
           n == Max({ReadInode(fs, d.inode, len, d.offset), 0})
<1>1. len \in Nat /\ d.inode \in Ino /\ d.offset \in 0 .. Cap
  BY VfsAssumption DEF IInv, Table
<1>2. fds' = [fds EXCEPT ![t][fd].offset = @ + n] /\ UNCHANGED <<fs, flushed>>
  BY DEF Read
<1>3. d.offset + n \in 0 .. Cap
  BY <1>1, ReadInodeIs DEF IInv
<1> HIDE DEF n
<1>4. fds' \in [Tasks -> Table]
  BY <1>2, <1>3, MoveKeeps DEF IInv
<1> QED
  BY <1>2, <1>4 DEF IInv

\* vfs_write: whether the disk is full, and whatever the inode is by now.
LEMMA WriteKeeps ==
  ASSUME IInv, NEW t \in Tasks, NEW fd \in Fd, NEW v \in Values, NEW len \in Lens,
         Write(t, fd, v, len)
  PROVE  IInv'
<1> DEFINE d   == fds[t][fd]
           got == WriteInode(fs, d.inode, v, len, d.offset)
           n   == Max({got.ret, 0})
<1>1. /\ len \in Nat /\ v \in Int /\ d.inode \in Ino /\ d.offset \in 0 .. Cap
      /\ d.offset \in Nat /\ d.offset \in Int
  BY VfsAssumption, Caps DEF IInv, Table
<1>2. /\ fs' = got.fs /\ fds' = [fds EXCEPT ![t][fd].offset = @ + n]
      /\ Flush \/ NoFlush
  BY DEF Write
<1>3. /\ Good(got.fs) /\ got.ret \in Int
      /\ got.ret # -1 => got.ret \in 0 .. Cap - d.offset
  BY <1>1, WriteInodeIs DEF IInv
<1>4. d.offset + n \in 0 .. Cap
  <2>1. n = IF got.ret >= 0 THEN got.ret ELSE 0
    BY <1>3, GreatestOfTwo
  <2> HIDE DEF n, got
  <2> QED
    BY <1>1, <1>3, <2>1, Caps
<1> HIDE DEF n, got
<1>5. fds' \in [Tasks -> Table]
  BY <1>2, <1>4, MoveKeeps DEF IInv
<1>6. flushed' \in BOOLEAN
  BY <1>2 DEF IInv, Flush, NoFlush
<1> QED
  BY <1>2, <1>3, <1>5, <1>6 DEF IInv

-----------------------------------------------------------------------------
(* The theorems.                                                            *)

\* Calls leave a good filesystem and descriptors that name inodes, in any order and
\* by any tasks: no call needs more of the filesystem than the others leave.
THEOREM Invariant == Spec => []IInv
<1>1. Init => IInv
  <2>1. NoFds \in Table
    BY NoFdIs DEF NoFds, Table
  <2> QED
    BY <2>1, FormattedIs DEF Init, IInv
<1>2. IInv /\ [Next]_vars => IInv'
  <2> SUFFICES ASSUME IInv, [Next]_vars
               PROVE  IInv'
    OBVIOUS
  <2>1. FilePaths \subseteq Seq(Names) /\ DirPaths \subseteq Seq(Names)
    BY VfsAssumption
  <2>2. (Flush \/ NoFlush) => flushed' \in BOOLEAN
    BY DEF Flush, NoFlush, IInv
  <2>3. CASE \E t \in Tasks : TaskStep(t)
    <3> SUFFICES ASSUME NEW t \in Tasks, TaskStep(t)
                 PROVE  IInv'
      BY <2>3
    <3>1. CASE \E path \in FilePaths, flags \in FlagSets : Open(t, path, flags)
      BY <2>1, <3>1, OpenKeeps
    <3>2. CASE \E fd \in Fd : Close(t, fd)
      BY <3>2, CloseKeeps
    <3>3. CASE \E fd \in Fd, len \in Lens : Read(t, fd, len)
      BY <3>3, ReadKeeps
    <3>4. CASE \E fd \in Fd, v \in Values, len \in Lens : Write(t, fd, v, len)
      BY <3>4, WriteKeeps
    <3>5. CASE \E u \in Tasks : Fork(t, u)
      BY <3>5 DEF Fork, IInv
    <3>6. CASE Exit(t)
      <4>1. NoFds \in Table
        BY NoFdIs DEF NoFds, Table
      <4> QED
        BY <3>6, <4>1 DEF Exit, IInv
    <3> QED
      BY <3>1, <3>2, <3>3, <3>4, <3>5, <3>6 DEF TaskStep
  <2>4. CASE \E path \in DirPaths : Mkdir(path)
    <3>1. PICK path \in Seq(Names) : Mkdir(path)
      BY <2>1, <2>4
    <3> DEFINE got == CreatePath(fs, path, "dir")
    <3>2. "dir" \in {"file", "dir"}
      OBVIOUS
    <3>3. Good(got.fs)
      BY <3>2, CreatePathIs DEF IInv
    <3>4. fs' = got.fs /\ (Flush \/ NoFlush) /\ UNCHANGED fds
      BY <3>1 DEF Mkdir
    <3> QED
      BY <2>2, <3>3, <3>4 DEF IInv
  <2>5. CASE \E path \in FilePaths \cup DirPaths : Rm(path)
    <3>1. PICK path \in Seq(Names) : Rm(path)
      BY <2>1, <2>5
    <3> DEFINE got == Unlink(fs, path)
    <3>2. Good(got.fs)
      BY UnlinkIs DEF IInv
    <3>3. fs' = got.fs /\ (Flush \/ NoFlush) /\ UNCHANGED fds
      BY <3>1 DEF Rm
    <3> QED
      BY <2>2, <3>2, <3>3 DEF IInv
  <2>6. CASE Sync
    BY <2>2, <2>6 DEF Sync, IInv
  <2>7. CASE UNCHANGED vars
    BY <2>7 DEF vars, IInv
  <2> QED
    BY <2>3, <2>4, <2>5, <2>6, <2>7 DEF Next
<1> QED
  BY <1>1, <1>2, PTL DEF Spec

\* Types: the inodes' fields stay in their ranges, and a descriptor names an inode
\* and an offset that a file can have.
THEOREM TypeSafe == Spec => []TypeOK
<1>1. IInv => TypeOK
  BY GoodIsWellFormed DEF IInv, Table, TypeOK, WellFormed
<1> QED
  BY <1>1, Invariant, PTL

\* No call loses a block, gives one to two owners or breaks the tree: not when the
\* disk or the inode table is full, not on a file removed while it is open, not when
\* its inode is a directory by then.
THEOREM AlwaysWellFormed == Spec => []FilesSound
<1>1. IInv => FilesSound
  BY GoodIsWellFormed DEF IInv, FilesSound, BlocksOwned, TreeSound, WellFormed
<1> QED
  BY <1>1, Invariant, PTL

-----------------------------------------------------------------------------
(* The disk (MuninDisk).                                                    *)

\* An inode on disk or in RAM, whatever was torn: its fields are in their ranges.
SizedInode == [type : Types, size : 0 .. Cap, direct : [Dir -> Ptr], indirect : Ptr]

Disks == [sb : BOOLEAN, ino : [Ino -> SizedInode], used : SUBSET Blk, blk : [Blk -> Block]]

AllSectors ==
  {Sector("sb", 0)} \cup {Sector("ino", i) : i \in 1 .. InodeSectors}
    \cup {Sector("bitmap", 0)} \cup {Sector("data", b) : b \in Blk}

\* Word w of an inode.
Word(x, w) == CASE w = 0          -> x.type
                [] w = 1          -> x.size
                [] w = Direct + 2 -> x.indirect
                [] OTHER          -> x.direct[w - 2]

\* Disk d has what is in filesystem s, but for the sectors in L.
Kept(d, s, L) ==
  /\ Sector("sb", 0) \in L \/ d.sb
  /\ \A n \in Ino : \A w \in InodeWords :
       Sector("ino", WordSector(n, w)) \in L \/ Word(d.ino[n], w) = Word(s.ino[n], w)
  /\ Sector("bitmap", 0) \in L \/ d.used = s.used
  /\ \A b \in s.used : Sector("data", b) \in L \/ d.blk[b] = s.blk[b]

\* Each part of disk d that old had in use comes from old, or from one of those in
\* F: the words of an inode may be from different ones, and the bitmap is never
\* from one that was misread.
Mixed(d, old, F) ==
  /\ \A n \in Ino : \A w \in InodeWords :
       \E s \in F \cup {old} : Word(d.ino[n], w) = Word(s.ino[n], w)
  /\ d.used = old.used \/ \E s \in F : Good(s) /\ d.used = s.used
  /\ \A b \in old.used : \E s \in F \cup {old} : d.blk[b] = s.blk[b]

\* The inductive invariant: what runs is good, the disk is a mixture of the last
\* filesystem that was saved whole and those of the accidents since, and a flush
\* that has lost nothing has all it has been through on disk.
DiskIInv ==
  /\ disk \in Disks
  /\ todo \in Seq(AllSectors) /\ FsType(ram)
  /\ phase \in {"off", "flushing", "up", "corrupt"} /\ (phase = "flushing" <=> todo # << >>)
  /\ whole \in BOOLEAN /\ calls \in 0 .. MaxCalls /\ cuts \in 0 .. MaxCuts
  /\ phase \in {"up", "flushing"} => Good(ram)
  /\ phase = "corrupt" => tried # {}
  /\ Blks(saved) /\ (disk.sb /\ tried = {} => Good(saved))
  /\ Mixed(disk, saved, tried)
  /\ phase = "flushing" /\ whole => Kept(disk, ram, Range(todo))

-----------------------------------------------------------------------------
(* The sectors of a flush.                                                  *)

\* The numbers that sectors go by.
LEMMA Layout ==
  /\ InodeSectors \in Nat \ {0} /\ Blocks \in Nat \ {0}
  /\ \A n \in Ino : \A w \in InodeWords : WordSector(n, w) \in 1 .. InodeSectors
<1>1. InodeSectors \in Nat \ {0} /\ Blocks \in Nat \ {0} /\ Direct \in Nat
  BY DiskAssumption, MuninAssumption
<1>2. ASSUME NEW n \in Ino, NEW w \in InodeWords
      PROVE  WordSector(n, w) \in 1 .. InodeSectors
  <2>1. /\ FirstSector[n] \in 1 .. InodeSectors /\ InFirst[n] \in 1 .. Direct + 3
        /\ FirstSector[n] = InodeSectors => InFirst[n] = Direct + 3
    BY DiskAssumption
  <2> QED
    BY <1>1, <2>1 DEF WordSector, InodeWords
<1> QED
  BY <1>1, <1>2

\* Inodes with the same words are the same.
LEMMA SameWords ==
  ASSUME NEW x \in Inode, NEW y \in Inode, \A w \in InodeWords : Word(x, w) = Word(y, w)
  PROVE  x = y
<1>1. Direct \in Nat \ {0}
  BY Numbers
<1>2. /\ x.type = y.type /\ x.size = y.size /\ x.indirect = y.indirect
  BY <1>1 DEF InodeWords, Word
<1>3. ASSUME NEW i \in Dir
      PROVE  x.direct[i] = y.direct[i]
  <2>1. i + 2 \in InodeWords /\ i + 2 \notin {0, 1, Direct + 2} /\ (i + 2) - 2 = i
    BY <1>1 DEF InodeWords, Dir
  <2>2. Word(x, i + 2) = x.direct[i] /\ Word(y, i + 2) = y.direct[i]
    BY <2>1 DEF Word
  <2> QED
    BY <2>1, <2>2
<1>4. x.direct \in [Dir -> Ptr] /\ y.direct \in [Dir -> Ptr]
  BY DEF Inode
<1>5. x.direct = y.direct
  BY <1>3, <1>4
<1> QED
  BY <1>2, <1>5 DEF Inode

\* The data sectors of a flush are those of the blocks in use.
LEMMA LiveDataIs ==
  ASSUME NEW s, s.used \subseteq Blk
  PROVE  /\ LiveData(s, Blocks) \in Seq(AllSectors)
         /\ \A b \in s.used : Sector("data", b) \in Range(LiveData(s, Blocks))
<1> DEFINE S == Seq(AllSectors)
           N == Blocks
           go(u, b) == IF b - 1 \in s.used THEN Append(u, Sector("data", b - 1)) ELSE u
           step == [w \in S \X (1 .. N) |-> go(w[1], w[2])]
           Runs(g) == g = [b \in 0 .. N |-> IF b = 0 THEN << >> ELSE go(g[b - 1], b)]
<1>1. N \in Nat /\ << >> \in S
  BY Layout
<1>2. ASSUME NEW u \in S, NEW b \in 1 .. N
      PROVE  go(u, b) \in S
  <2>1. CASE b - 1 \in s.used
    <3>1. Sector("data", b - 1) \in AllSectors
      BY <2>1 DEF AllSectors
    <3> QED
      BY <2>1, <3>1
  <2>2. CASE b - 1 \notin s.used
    BY <2>2
  <2> QED
    BY <2>1, <2>2
<1>3. ASSUME NEW u \in S, NEW b \in 1 .. N
      PROVE  /\ Range(u) \subseteq Range(go(u, b))
             /\ b - 1 \in s.used => Sector("data", b - 1) \in Range(go(u, b))
  <2>1. CASE b - 1 \in s.used
    <3> DEFINE x == Sector("data", b - 1)
    <3>1. go(u, b) = Append(u, x) /\ x \in AllSectors
      BY <2>1 DEF AllSectors
    <3> HIDE DEF x, go
    <3>2. /\ Len(u) \in Nat /\ DOMAIN u = 1 .. Len(u)
          /\ DOMAIN Append(u, x) = 1 .. Len(u) + 1
          /\ Append(u, x)[Len(u) + 1] = x
          /\ \A i \in 1 .. Len(u) : Append(u, x)[i] = u[i]
      BY <3>1
    <3> QED
      BY <3>1, <3>2 DEF Range, x
  <2>2. CASE b - 1 \notin s.used
    BY <2>2
  <2> QED
    BY <2>1, <2>2
<1> HIDE DEF go, S, N
<1>4. step \in [S \X (1 .. N) -> S]
  BY <1>2
<1>5. PICK f \in [0 .. N -> S] : f[0] = << >> /\ \A i \in 1 .. N : f[i] = step[<<f[i - 1], i>>]
  <2> HIDE DEF step
  <2>1. \E f \in [0 .. N -> S] : Iterates(f, N, << >>, step)
    BY <1>1, <1>4, Iteration
  <2> QED
    BY <2>1 DEF Iterates
<1>6. ASSUME NEW i \in 1 .. N
      PROVE  f[i] = go(f[i - 1], i)
  <2>1. f[i - 1] \in S
    BY <1>1
  <2> DEFINE w == <<f[i - 1], i>>
  <2>2. w \in S \X (1 .. N) /\ w[1] = f[i - 1] /\ w[2] = i
    BY <2>1
  <2>3. f[i] = step[w]
    BY <1>5
  <2>4. step[w] = go(w[1], w[2])
    <3> HIDE DEF w
    <3> QED
      BY <2>2
  <2> QED
    BY <2>2, <2>3, <2>4
<1>7. Runs(f)
  BY <1>5, <1>6
<1> DEFINE upto == CHOOSE g : Runs(g)
<1>8. LiveData(s, Blocks) = upto[N]
  BY DEF LiveData, N, go
<1>9. Runs(upto)
  <2> HIDE DEF Runs
  <2> QED
    BY <1>7
<1> HIDE DEF upto
<1>10. upto[0] = << >> /\ \A k \in 1 .. N : upto[k] = go(upto[k - 1], k)
  BY <1>1, <1>9 DEF Runs
<1> DEFINE Has(k) == /\ upto[k] \in S
                     /\ \A b \in s.used : b < k => Sector("data", b) \in Range(upto[k])
           P == {k \in Nat : Has(k)}
<1>11. 0 .. N \subseteq P
  <2>1. 0 \in P
    BY <1>1, <1>10 DEF Blk
  <2>2. ASSUME NEW i \in 0 .. N - 1, i \in P
        PROVE  i + 1 \in P
    <3>1. i + 1 \in 1 .. N /\ (i + 1) - 1 = i /\ Has(i) /\ i + 1 \in Nat /\ i \in Int
      BY <1>1, <2>2
    <3> DEFINE k == i + 1
    <3>2. \A b \in s.used : b < k => b < i \/ b = i
      BY <3>1 DEF Blk
    <3> HIDE DEF k
    <3>3. upto[k] = go(upto[i], k) /\ upto[i] \in S /\ k \in 1 .. N /\ k - 1 = i
      BY <1>10, <3>1 DEF k
    <3>4. upto[k] \in S
      BY <1>2, <3>3
    <3>5. /\ Range(upto[i]) \subseteq Range(upto[k])
          /\ i \in s.used => Sector("data", i) \in Range(upto[k])
      BY <1>3, <3>3
    <3>6. Has(k)
      BY <3>1, <3>2, <3>4, <3>5
    <3> QED
      BY <3>1, <3>6 DEF k
  <2> HIDE DEF P
  <2> QED
    BY <1>1, <2>1, <2>2, UpTo
<1>12. Has(N)
  BY <1>1, <1>11
<1>13. \A b \in s.used : b < N
  BY Layout DEF Blk, N
<1> QED
  BY <1>8, <1>12, <1>13 DEF S

\* Two sequences, one after the other.
LEMMA Concatenated ==
  ASSUME NEW S, NEW a \in Seq(S), NEW b \in Seq(S)
  PROVE  a \o b \in Seq(S) /\ Range(a \o b) = Range(a) \cup Range(b)
<1>1. a \o b \in Seq(S)
  OBVIOUS
<1>2. Range(a \o b) = Range(a) \cup Range(b)
  BY RangeConcatenation
<1> QED
  BY <1>1, <1>2

\* A flush writes every sector that a filesystem lies in.
LEMMA SectorsIs ==
  ASSUME NEW s, s.used \subseteq Blk
  PROVE  /\ Sectors(s) \in Seq(AllSectors) /\ Sectors(s) # << >>
         /\ Sector("sb", 0) \in Range(Sectors(s)) /\ Sector("bitmap", 0) \in Range(Sectors(s))
         /\ \A i \in 1 .. InodeSectors : Sector("ino", i) \in Range(Sectors(s))
         /\ \A b \in s.used : Sector("data", b) \in Range(Sectors(s))
<1> DEFINE S == AllSectors
           a == <<Sector("sb", 0)>>
           b == [i \in 1 .. InodeSectors |-> Sector("ino", i)]
           c == <<Sector("bitmap", 0)>>
           d == LiveData(s, Blocks)
<1>1. /\ Sector("sb", 0) \in S /\ Sector("bitmap", 0) \in S
      /\ \A i \in 1 .. InodeSectors : Sector("ino", i) \in S
  BY DEF AllSectors
<1>2. a \in Seq(S) /\ c \in Seq(S) /\ d \in Seq(S)
  BY <1>1, LiveDataIs
<1>3. b \in Seq(S)
  BY <1>1, Layout
<1>4. /\ Range(a) = {Sector("sb", 0)} /\ Range(c) = {Sector("bitmap", 0)}
      /\ \A i \in 1 .. InodeSectors : Sector("ino", i) \in Range(b)
  BY DEF Range
<1>5. Sectors(s) = ((a \o b) \o c) \o d
  BY DEF Sectors
<1>6. \A n \in s.used : Sector("data", n) \in Range(d)
  BY LiveDataIs
<1> HIDE DEF a, b, c, d, S
<1> DEFINE ab == a \o b
           abc == ab \o c
<1>7. ab \in Seq(S) /\ Range(ab) = Range(a) \cup Range(b)
  BY <1>2, <1>3, Concatenated
<1> HIDE DEF ab
<1>8. abc \in Seq(S) /\ Range(abc) = Range(ab) \cup Range(c)
  BY <1>2, <1>7, Concatenated
<1>9. Sectors(s) = abc \o d
  BY <1>5 DEF ab
<1> HIDE DEF abc
<1>10. Sectors(s) \in Seq(S) /\ Range(Sectors(s)) = Range(abc) \cup Range(d)
  BY <1>2, <1>8, <1>9, Concatenated
<1>11. Sector("sb", 0) \in Range(Sectors(s))
  BY <1>4, <1>7, <1>8, <1>10
<1>12. Sectors(s) # << >>
  BY <1>11 DEF Range
<1> QED
  BY <1>4, <1>6, <1>7, <1>8, <1>10, <1>11, <1>12 DEF S

\* What is left to do once the next sector is done.
LEMMA TailIs ==
  ASSUME NEW S, NEW q \in Seq(S), q # << >>
  PROVE  /\ Head(q) \in S /\ Tail(q) \in Seq(S)
         /\ Range(q) \subseteq {Head(q)} \cup Range(Tail(q))
         /\ Tail(q) = << >> <=> Len(q) = 1
         /\ Len(q) = 1 => Range(Tail(q)) = {}
<1>1. /\ Head(q) \in S /\ Tail(q) \in Seq(S) /\ Len(Tail(q)) = Len(q) - 1
      /\ \A i \in 1 .. Len(Tail(q)) : Tail(q)[i] = q[i + 1]
  BY HeadTailProperties
<1>2. /\ Len(q) \in Nat \ {0} /\ DOMAIN q = 1 .. Len(q) /\ Head(q) = q[1]
      /\ DOMAIN Tail(q) = 1 .. Len(Tail(q))
  BY <1>1
<1>3. \A i \in 2 .. Len(q) : i - 1 \in 1 .. Len(Tail(q)) /\ q[i] = Tail(q)[i - 1]
  BY <1>1, <1>2
<1>4. ASSUME NEW i \in 1 .. Len(q)
      PROVE  q[i] \in {Head(q)} \cup Range(Tail(q))
  <2>1. CASE i = 1
    BY <1>2, <2>1
  <2>2. CASE i # 1
    <3>1. i \in 2 .. Len(q)
      BY <1>2, <2>2
    <3>2. i - 1 \in DOMAIN Tail(q) /\ q[i] = Tail(q)[i - 1]
      BY <1>2, <1>3, <3>1
    <3> QED
      BY <3>2 DEF Range
  <2> QED
    BY <2>1, <2>2
<1>5. Tail(q) = << >> <=> Len(q) = 1
  BY <1>1, <1>2
<1> QED
  BY <1>1, <1>2, <1>4, <1>5 DEF Range

-----------------------------------------------------------------------------
(* A disk, sector by sector.                                                *)

\* A good filesystem has inodes, a bitmap and blocks that a disk can hold.
LEMMA GoodParts ==
  ASSUME NEW s, Good(s)
  PROVE  /\ s.ino \in [Ino -> SizedInode] /\ s.used \subseteq Blk /\ s.blk \in [Blk -> Block]
         /\ s \in Fs /\ FsType(s) /\ Blks(s)
<1>1. s \in Fs /\ FsType(s) /\ Blks(s)
  BY GoodIsWellFormed DEF Good, Blks, WellFormed
<1>2. s.ino \in [Ino -> Inode] /\ s.used \subseteq Blk /\ s.blk \in [Blk -> Block]
  BY <1>1, FsParts
<1>3. \A n \in Ino : s.ino[n] \in SizedInode
  BY <1>1, <1>2 DEF FsType, Inode, SizedInode
<1> QED
  BY <1>1, <1>2, <1>3

\* What part of a disk a sector is.
LEMMA SectorIs ==
  ASSUME NEW x \in AllSectors
  PROVE  \/ x = Sector("sb", 0) /\ x.part = "sb"
         \/ \E i \in 1 .. InodeSectors : x = Sector("ino", i) /\ x.part = "ino" /\ x.i = i
         \/ x = Sector("bitmap", 0) /\ x.part = "bitmap"
         \/ \E b \in Blk : x = Sector("data", b) /\ x.part = "data" /\ x.i = b
BY DEF AllSectors, Sector

\* An inode with one of its sectors written has each word from before or after.
LEMMA InodeAfterIs ==
  ASSUME NEW old \in SizedInode, NEW new \in SizedInode, NEW n \in Ino, NEW i,
         NEW r, r = InodeAfter(old, new, n, i)
  PROVE  /\ r \in SizedInode
         /\ \A w \in InodeWords :
              Word(r, w) = Word(IF WordSector(n, w) = i THEN new ELSE old, w)
<1> DEFINE W == {w \in InodeWords : WordSector(n, w) = i}
<1>1. Direct \in Nat \ {0} /\ \A w \in InodeWords : w \in W <=> WordSector(n, w) = i
  BY Numbers
<1>2. r = Overlaid(old, new, W)
  BY DEF InodeAfter
<1> HIDE DEF W
<1> DEFINE dir == [j \in Dir |-> IF j + 2 \in W THEN new.direct[j] ELSE old.direct[j]]
<1>3. /\ old.direct \in [Dir -> Ptr] /\ new.direct \in [Dir -> Ptr]
      /\ old.type \in Types /\ new.type \in Types /\ old.size \in 0 .. Cap /\ new.size \in 0 .. Cap
      /\ old.indirect \in Ptr /\ new.indirect \in Ptr
  BY DEF SizedInode
<1>4. dir \in [Dir -> Ptr]
  BY <1>3
<1>5. r = [type     |-> IF 0 \in W THEN new.type ELSE old.type,
           size     |-> IF 1 \in W THEN new.size ELSE old.size,
           direct   |-> dir,
           indirect |-> IF Direct + 2 \in W THEN new.indirect ELSE old.indirect]
  BY <1>2 DEF Overlaid, Dir
<1>6. \A j \in Dir : dir[j] = IF j + 2 \in W THEN new.direct[j] ELSE old.direct[j]
  OBVIOUS
<1> HIDE DEF dir
<1>7. r \in SizedInode
  BY <1>3, <1>4, <1>5 DEF SizedInode
<1>8. ASSUME NEW w \in InodeWords
      PROVE  Word(r, w) = Word(IF w \in W THEN new ELSE old, w)
  <2>1. CASE w \in {0, 1, Direct + 2}
    BY <1>1, <1>5, <2>1 DEF Word
  <2>2. CASE w \notin {0, 1, Direct + 2}
    <3>1. w - 2 \in Dir /\ (w - 2) + 2 = w
      BY <1>1, <2>2 DEF InodeWords, Dir
    <3>2. Word(r, w) = dir[w - 2]
      BY <1>5, <2>2 DEF Word
    <3>3. Word(new, w) = new.direct[w - 2] /\ Word(old, w) = old.direct[w - 2]
      BY <2>2 DEF Word
    <3> QED
      BY <1>6, <3>1, <3>2, <3>3
  <2> QED
    BY <2>1, <2>2
<1> QED
  BY <1>1, <1>7, <1>8

\* A sector is written: what lies in it is the filesystem's, the rest is as before.
LEMMA WrittenIs ==
  ASSUME NEW d \in Disks, NEW s, Good(s), NEW x \in AllSectors, NEW e, e = Written(d, s, x)
  PROVE  /\ e \in Disks
         /\ e.sb <=> d.sb \/ x = Sector("sb", 0)
         /\ \A n \in Ino : \A w \in InodeWords :
              Word(e.ino[n], w) =
                Word(IF x = Sector("ino", WordSector(n, w)) THEN s.ino[n] ELSE d.ino[n], w)
         /\ e.used = IF x = Sector("bitmap", 0) THEN s.used ELSE d.used
         /\ \A b \in Blk : e.blk[b] = IF x = Sector("data", b) THEN s.blk[b] ELSE d.blk[b]
<1>1. s.ino \in [Ino -> SizedInode] /\ s.used \subseteq Blk /\ s.blk \in [Blk -> Block]
  BY GoodParts
<1>2. /\ d.sb \in BOOLEAN /\ d.ino \in [Ino -> SizedInode] /\ d.used \subseteq Blk
      /\ d.blk \in [Blk -> Block]
  BY DEF Disks
<1>4. CASE x = Sector("sb", 0) /\ x.part = "sb"
  <2>1. e = [d EXCEPT !.sb = TRUE]
    BY <1>4 DEF Written
  <2>2. e \in Disks /\ e.sb /\ e.ino = d.ino /\ e.used = d.used /\ e.blk = d.blk
    BY <2>1 DEF Disks
  <2> QED
    BY <1>4, <2>2 DEF Sector
<1>5. CASE \E i \in 1 .. InodeSectors : x = Sector("ino", i) /\ x.part = "ino" /\ x.i = i
  <2>1. PICK i \in 1 .. InodeSectors : x = Sector("ino", i) /\ x.part = "ino" /\ x.i = i
    BY <1>5
  <2> DEFINE after == [n \in Ino |-> InodeAfter(d.ino[n], s.ino[n], n, i)]
  <2>2. e = [d EXCEPT !.ino = after]
    BY <2>1 DEF Written
  <2>3. \A n \in Ino :
          /\ after[n] \in SizedInode
          /\ \A w \in InodeWords :
               Word(after[n], w) = Word(IF WordSector(n, w) = i THEN s.ino[n] ELSE d.ino[n], w)
    BY <1>1, <1>2, InodeAfterIs
  <2>4. after \in [Ino -> SizedInode]
    BY <2>3
  <2> HIDE DEF after
  <2>5. e \in Disks /\ e.sb = d.sb /\ e.ino = after /\ e.used = d.used /\ e.blk = d.blk
    BY <2>2, <2>4 DEF Disks
  <2>6. \A n \in Ino : \A w \in InodeWords :
          x = Sector("ino", WordSector(n, w)) <=> WordSector(n, w) = i
    BY <2>1 DEF Sector
  <2>7. x # Sector("sb", 0) /\ x # Sector("bitmap", 0) /\ \A b \in Blk : x # Sector("data", b)
    BY <2>1 DEF Sector
  <2> QED
    BY <2>3, <2>5, <2>6, <2>7
<1>6. CASE x = Sector("bitmap", 0) /\ x.part = "bitmap"
  <2>1. e = [d EXCEPT !.used = s.used]
    BY <1>6 DEF Written
  <2>2. e \in Disks /\ e.sb = d.sb /\ e.ino = d.ino /\ e.used = s.used /\ e.blk = d.blk
    BY <1>1, <2>1 DEF Disks
  <2> QED
    BY <1>6, <2>2 DEF Sector
<1>7. CASE \E b \in Blk : x = Sector("data", b) /\ x.part = "data" /\ x.i = b
  <2>1. PICK b \in Blk : x = Sector("data", b) /\ x.part = "data" /\ x.i = b
    BY <1>7
  <2>2. e = [d EXCEPT !.blk = [d.blk EXCEPT ![b] = s.blk[b]]]
    BY <2>1 DEF Written
  <2> DEFINE after == [d.blk EXCEPT ![b] = s.blk[b]]
  <2>3. /\ after \in [Blk -> Block]
        /\ \A c \in Blk : after[c] = IF c = b THEN s.blk[c] ELSE d.blk[c]
    BY <1>1, <1>2
  <2> HIDE DEF after
  <2>4. e \in Disks /\ e.sb = d.sb /\ e.ino = d.ino /\ e.used = d.used /\ e.blk = after
    BY <2>2, <2>3 DEF Disks, after
  <2>5. \A c \in Blk : x = Sector("data", c) <=> c = b
    BY <2>1 DEF Sector
  <2>6. /\ x # Sector("sb", 0) /\ x # Sector("bitmap", 0)
        /\ \A i \in 1 .. InodeSectors : x # Sector("ino", i)
    BY <2>1 DEF Sector
  <2> QED
    BY <2>3, <2>4, <2>5, <2>6, Layout
<1> QED
  BY <1>4, <1>5, <1>6, <1>7, SectorIs

\* What the flush has yet to write grows less, and what it has written stays.
LEMMA KeptAfter ==
  ASSUME NEW d \in Disks, NEW s, Good(s), NEW x \in AllSectors, NEW L, NEW M,
         Kept(d, s, L), L \subseteq {x} \cup M
  PROVE  Kept(Written(d, s, x), s, M)
<1> DEFINE e == Written(d, s, x)
<1>1. /\ e.sb <=> d.sb \/ x = Sector("sb", 0)
      /\ \A n \in Ino : \A w \in InodeWords :
           Word(e.ino[n], w) =
             Word(IF x = Sector("ino", WordSector(n, w)) THEN s.ino[n] ELSE d.ino[n], w)
      /\ e.used = IF x = Sector("bitmap", 0) THEN s.used ELSE d.used
      /\ \A b \in Blk : e.blk[b] = IF x = Sector("data", b) THEN s.blk[b] ELSE d.blk[b]
  BY WrittenIs
<1> HIDE DEF e
<1>2. ASSUME NEW n \in Ino, NEW w \in InodeWords
      PROVE  Sector("ino", WordSector(n, w)) \in M \/ Word(e.ino[n], w) = Word(s.ino[n], w)
  <2>1. Sector("ino", WordSector(n, w)) \in L \/ Word(d.ino[n], w) = Word(s.ino[n], w)
    BY DEF Kept
  <2> QED
    BY <1>1, <2>1
<1>3. ASSUME NEW b \in s.used
      PROVE  Sector("data", b) \in M \/ e.blk[b] = s.blk[b]
  <2>1. b \in Blk
    BY GoodParts
  <2> QED
    BY <1>1, <2>1 DEF Kept
<1>4. /\ Sector("sb", 0) \in M \/ e.sb
      /\ Sector("bitmap", 0) \in M \/ e.used = s.used
  BY <1>1 DEF Kept
<1>5. Kept(e, s, M)
  BY <1>2, <1>3, <1>4 DEF Kept
<1> QED
  BY <1>5 DEF e

\* A disk that has all of a filesystem has nothing else.
LEMMA KeptAll ==
  ASSUME NEW d, NEW s, Kept(d, s, {})
  PROVE  d.sb /\ Mixed(d, s, {})
BY DEF Kept, Mixed

\* A sector of another good filesystem is written: the disk is a mixture still.
LEMMA MixedAfter ==
  ASSUME NEW d \in Disks, NEW s, Good(s), NEW x \in AllSectors, NEW old, NEW F,
         old.used \subseteq Blk, Mixed(d, old, F)
  PROVE  Mixed(Written(d, s, x), old, F \cup {s})
<1> DEFINE e == Written(d, s, x)
           G == F \cup {s}
<1>1. /\ \A n \in Ino : \A w \in InodeWords :
           Word(e.ino[n], w) =
             Word(IF x = Sector("ino", WordSector(n, w)) THEN s.ino[n] ELSE d.ino[n], w)
      /\ e.used = IF x = Sector("bitmap", 0) THEN s.used ELSE d.used
      /\ \A b \in Blk : e.blk[b] = IF x = Sector("data", b) THEN s.blk[b] ELSE d.blk[b]
  BY WrittenIs
<1> HIDE DEF e
<1>2. ASSUME NEW n \in Ino, NEW w \in InodeWords
      PROVE  \E a \in G \cup {old} : Word(e.ino[n], w) = Word(a.ino[n], w)
  <2>1. PICK a \in F \cup {old} : Word(d.ino[n], w) = Word(a.ino[n], w)
    BY DEF Mixed
  <2>2. Word(e.ino[n], w) = Word(a.ino[n], w) \/ Word(e.ino[n], w) = Word(s.ino[n], w)
    BY <1>1, <2>1
  <2> QED
    BY <2>2
<1>3. ASSUME NEW b \in old.used
      PROVE  \E a \in G \cup {old} : e.blk[b] = a.blk[b]
  <2>1. PICK a \in F \cup {old} : d.blk[b] = a.blk[b]
    BY DEF Mixed
  <2> QED
    BY <1>1, <2>1
<1>4. e.used = old.used \/ \E a \in G : Good(a) /\ e.used = a.used
  <2>1. d.used = old.used \/ \E a \in F : Good(a) /\ d.used = a.used
    BY DEF Mixed
  <2> QED
    BY <1>1, <2>1
<1>5. Mixed(e, old, G)
  BY <1>2, <1>3, <1>4 DEF Mixed
<1> QED
  BY <1>5 DEF e

\* More filesystems, more that a disk may be a mixture of.
LEMMA MixedMore ==
  ASSUME NEW d, NEW old, NEW F, NEW G, F \subseteq G, Mixed(d, old, F)
  PROVE  Mixed(d, old, G)
<1>1. F \cup {old} \subseteq G \cup {old}
  OBVIOUS
<1> QED
  BY <1>1 DEF Mixed

-----------------------------------------------------------------------------
(* What is mounted.                                                         *)

\* What is mounted has the disk's inodes and bitmap, and Junk in free blocks.
LEMMA MountedIs ==
  ASSUME NEW d \in Disks
  PROVE  /\ Mounted(d) \in Fs /\ Clean(Mounted(d)) /\ FsType(Mounted(d))
         /\ Mounted(d).ino = d.ino /\ Mounted(d).used = d.used
         /\ \A b \in Blk : Mounted(d).blk[b] = IF b \in d.used THEN d.blk[b] ELSE Junk
<1> DEFINE blk == [b \in Blk |-> IF b \in d.used THEN d.blk[b] ELSE Junk]
           m == Mounted(d)
<1>1. /\ d.ino \in [Ino -> SizedInode] /\ d.used \subseteq Blk /\ d.blk \in [Blk -> Block]
      /\ Junk \in Block
  BY Contents DEF Disks, Block
<1>2. blk \in [Blk -> Block] /\ \A b \in Blk : blk[b] = IF b \in d.used THEN d.blk[b] ELSE Junk
  BY <1>1
<1>3. m = [ino |-> d.ino, used |-> d.used, blk |-> blk]
  BY DEF Mounted
<1> HIDE DEF blk, m
<1>4. m.ino = d.ino /\ m.used = d.used /\ m.blk = blk
  BY <1>3
<1>5. \A n \in Ino : d.ino[n] \in SizedInode
  BY <1>1
<1>6. SizedInode \subseteq Inode
  BY Caps DEF SizedInode, Inode
<1>7. d.ino \in [Ino -> Inode]
  BY <1>1, <1>6
<1>8. m \in Fs
  BY <1>1, <1>2, <1>3, <1>7 DEF Fs
<1>9. Clean(m)
  BY <1>2, <1>4 DEF Clean
<1>10. ASSUME NEW n \in Ino
       PROVE  /\ m.ino[n].type \in {"free", "file", "dir"} /\ m.ino[n].size \in 0 .. Cap
              /\ Range(m.ino[n].direct) \cup {m.ino[n].indirect} \subseteq Blk \cup {NoBlock}
  <2>1. m.ino[n] \in SizedInode
    BY <1>4, <1>5
  <2>2. /\ m.ino[n].type \in Types /\ m.ino[n].size \in 0 .. Cap
        /\ m.ino[n].direct \in [Dir -> Ptr] /\ m.ino[n].indirect \in Ptr
    BY <2>1 DEF SizedInode
  <2> QED
    BY <2>2 DEF Range, Types, Ptr
<1>11. FsType(m)
  BY <1>1, <1>4, <1>10 DEF FsType
<1> QED
  BY <1>2, <1>4, <1>8, <1>9, <1>11 DEF m

\* A filesystem that passes kmain's use of it is good: what a torn one lacks shows
\* in its inodes, its bitmap or its directories.
LEMMA MountedGood ==
  ASSUME NEW d \in Disks, WellFormed(Mounted(d))
  PROVE  Good(Mounted(d))
BY MountedIs, WellFormedIsGood

\* Without accidents since the last flush, a restart finds what it saved.
LEMMA MixedQuiet ==
  ASSUME NEW d \in Disks, NEW old, Blks(old), Mixed(d, old, {})
  PROVE  Mounted(d) = old
<1> DEFINE m == Mounted(d)
<1>1. /\ m \in Fs /\ Clean(m) /\ m.ino = d.ino /\ m.used = d.used
      /\ \A b \in Blk : m.blk[b] = IF b \in d.used THEN d.blk[b] ELSE Junk
  BY MountedIs
<1>2. old \in Fs /\ Clean(old)
  BY DEF Blks
<1> HIDE DEF m
<1>3. /\ m.ino \in [Ino -> Inode] /\ old.ino \in [Ino -> Inode]
      /\ m.blk \in [Blk -> Block] /\ old.blk \in [Blk -> Block]
      /\ m = [ino |-> m.ino, used |-> m.used, blk |-> m.blk]
      /\ old = [ino |-> old.ino, used |-> old.used, blk |-> old.blk]
      /\ old.used \subseteq Blk
  BY <1>1, <1>2, FsParts
<1>4. ASSUME NEW n \in Ino
      PROVE  m.ino[n] = old.ino[n]
  <2>1. m.ino[n] \in Inode /\ old.ino[n] \in Inode
    BY <1>3
  <2>2. \A w \in InodeWords : Word(m.ino[n], w) = Word(old.ino[n], w)
    BY <1>1 DEF Mixed
  <2> QED
    BY <2>1, <2>2, SameWords
<1>5. m.ino = old.ino
  BY <1>3, <1>4
<1>6. m.used = old.used
  BY <1>1 DEF Mixed
<1>7. ASSUME NEW b \in Blk
      PROVE  m.blk[b] = old.blk[b]
  <2>1. CASE b \in old.used
    BY <1>1, <1>6, <2>1 DEF Mixed
  <2>2. CASE b \notin old.used
    BY <1>1, <1>2, <1>6, <2>2 DEF Clean
  <2> QED
    BY <2>1, <2>2
<1>8. m.blk = old.blk
  BY <1>3, <1>7
<1> QED
  BY <1>3, <1>5, <1>6, <1>8 DEF m

\* The greatest of some numbers up to b is one of them: it is as far below b as any.
LEMMA Greatest ==
  ASSUME NEW b \in Nat, NEW S, S \subseteq 0 .. b, S # {}
  PROVE  Max(S) \in S
<1> DEFINE T == {b - x : x \in S}
<1>1. T \subseteq Nat /\ T # {}
  <2>1. \A x \in S : b - x \in Nat
    OBVIOUS
  <2>2. PICK x \in S : TRUE
    OBVIOUS
  <2>3. b - x \in T
    BY <2>2
  <2> QED
    BY <2>1, <2>3
<1>2. PICK m \in T : \A k \in T : m <= k
  <2> HIDE DEF T
  <2> QED
    BY <1>1, LeastOf
<1>3. PICK x \in S : m = b - x
  BY <1>2
<1>4. \A y \in S : x >= y
  BY <1>2, <1>3
<1> QED
  BY <1>4 DEF Max

\* A block that is misread has something that blocks have in it.
LEMMA MisreadIs ==
  ASSUME NEW d \in Disks, NEW b \in Blk
  PROVE  Misread(d, b) \in Block
<1> DEFINE before == {x \in d.used : x < b}
<1>1. d.used \subseteq Blk /\ d.blk \in [Blk -> Block] /\ Junk \in Block
  BY Contents DEF Disks, Block
<1>2. before # {} => Max(before) \in Blk
  <2>1. before \subseteq 0 .. b
    BY <1>1 DEF Blk
  <2>2. b \in Nat
    BY Layout DEF Blk
  <2> HIDE DEF before
  <2>3. before # {} => Max(before) \in before
    BY <2>1, <2>2, Greatest
  <2> QED
    BY <1>1, <2>3 DEF before
<1> HIDE DEF before
<1> DEFINE found == IF before = {} THEN Junk ELSE d.blk[Max(before)]
<1>3. found \in Block
  BY <1>1, <1>2
<1>4. Misread(d, b) = IF d.blk[b].kind = "data" /\ found.kind # "data" THEN Junk ELSE found
  BY DEF Misread, before
<1> QED
  BY <1>1, <1>3, <1>4

\* The filesystem with a block misread.
PutBlock(s, b, x) == [s EXCEPT !.blk[b] = x]

\* A misread block leaves the rest as it was mounted.
LEMMA MisreadMounted ==
  ASSUME NEW d \in Disks, NEW b \in d.used, NEW got,
         got = PutBlock(Mounted(d), b, Misread(d, b))
  PROVE  got \in Fs /\ Clean(got) /\ FsType(got)
<1> DEFINE m == Mounted(d)
           x == Misread(d, b)
<1>1. /\ m \in Fs /\ Clean(m) /\ FsType(m) /\ m.used = d.used
  BY MountedIs
<1>2. b \in Blk /\ x \in Block
  BY MisreadIs DEF Disks
<1>3. got = PutBlock(m, b, x)
  OBVIOUS
<1> HIDE DEF m, x
<1>4. m.blk \in [Blk -> Block] /\ m.ino \in [Ino -> Inode] /\ m.used \subseteq Blk
  BY <1>1, FsParts
<1> DEFINE blk == [m.blk EXCEPT ![b] = x]
<1>5. blk \in [Blk -> Block] /\ \A c \in Blk \ {b} : blk[c] = m.blk[c]
  BY <1>2, <1>4
<1>6. got = [m EXCEPT !.blk = blk]
  BY <1>3 DEF PutBlock
<1> HIDE DEF blk
<1>7. got.ino = m.ino /\ got.used = m.used /\ got.blk = blk /\ got \in Fs
  BY <1>1, <1>5, <1>6 DEF Fs
<1>8. Clean(got)
  BY <1>1, <1>5, <1>7 DEF Clean
<1>9. FsType(got)
  BY <1>1, <1>7 DEF FsType
<1> QED
  BY <1>7, <1>8, <1>9

-----------------------------------------------------------------------------
(* The steps.                                                               *)

\* kmain's new filesystem is good, even where it has no room for all of it.
LEMMA NewFsIs == Good(NewFs)
<1> DEFINE docs   == CreatePath(Formatted, <<"docs">>, "dir").fs
           bin    == CreatePath(docs, <<"bin">>, "dir").fs
           readme == CreatePath(bin, <<"docs", "readme">>, "file").fs
<1>1. /\ <<"docs">> \in Seq(Names) /\ <<"bin">> \in Seq(Names)
      /\ <<"docs", "readme">> \in Seq(Names)
  BY DiskAssumption
<1>2. "dir" \in {"file", "dir"} /\ "file" \in {"file", "dir"}
  OBVIOUS
<1>3. Good(docs)
  BY <1>1, <1>2, FormattedIs, CreatePathIs
<1> HIDE DEF docs
<1>4. Good(bin)
  BY <1>1, <1>2, <1>3, CreatePathIs
<1> HIDE DEF bin
<1>5. Good(readme)
  BY <1>1, <1>2, <1>4, CreatePathIs
<1>6. NewFs = WritePath(readme, <<"docs", "readme">>, 1, Greeting).fs
  BY DEF NewFs, docs, bin
<1> HIDE DEF readme
<1>7. Len(<<"docs", "readme">>) \in Nat /\ 1 \in Int /\ Greeting \in Nat
  BY DiskAssumption
<1> QED
  BY <1>5, <1>6, <1>7, WritePathIs

\* What a call makes of a good filesystem is good.
LEMMA ChangesGood ==
  ASSUME Good(ram), NEW s \in Changes
  PROVE  Good(s)
<1>1. Paths \subseteq Seq(Names) /\ Len1 \in Nat /\ 1 \in Int /\ 0 \in Nat
  BY DiskAssumption
<1>2. CASE \E path \in Paths, type \in {"file", "dir"} : s = CreatePath(ram, path, type).fs
  BY <1>1, <1>2, CreatePathIs
<1>3. CASE \E path \in Paths : s = Unlink(ram, path).fs
  BY <1>1, <1>3, UnlinkIs
<1> DEFINE there == {Resolve(ram, path) : path \in Paths} \ {None}
<1>4. there \subseteq Ino
  <2>1. SUFFICES ASSUME NEW path \in Paths, Resolve(ram, path) # None
                 PROVE  Resolve(ram, path) \in Ino
    OBVIOUS
  <2>2. Len(path) \in Nat
    BY <1>1
  <2> QED
    BY <2>1, <2>2, ResolveIs DEF Live
<1>5. CASE \E n \in there : s = Truncate(ram, n)
  BY <1>4, <1>5, TruncateIs
<1>6. CASE \E n \in there, at \in Nat : s = WriteInode(ram, n, 1, Len1, at).fs
  BY <1>1, <1>4, <1>6, WriteInodeIs
<1>7. \A n \in there : ram.ino[n].size \in Nat
  BY <1>4, InodeIs, Caps
<1>8. \/ s = ram
      \/ \E path \in Paths, type \in {"file", "dir"} : s = CreatePath(ram, path, type).fs
      \/ \E path \in Paths : s = Unlink(ram, path).fs
      \/ \E n \in there : s = Truncate(ram, n)
      \/ \E n \in there, at \in Nat : s = WriteInode(ram, n, 1, Len1, at).fs
  BY <1>1, <1>7 DEF Changes
<1> HIDE DEF there
<1> QED
  BY <1>2, <1>3, <1>5, <1>6, <1>8

\* A flush of a good filesystem starts with nothing lost and all to do.
LEMMA FlushStarts ==
  ASSUME DiskIInv, NEW s, Good(s), StartFlush(s), UNCHANGED <<disk, saved, tried>>,
         calls' \in 0 .. MaxCalls, cuts' \in 0 .. MaxCuts
  PROVE  DiskIInv'
<1>1. ram' = s /\ phase' = "flushing" /\ todo' = Sectors(s) /\ whole' = TRUE
  BY DEF StartFlush
<1>2. s.used \subseteq Blk /\ FsType(s)
  BY GoodParts
<1>3. /\ Sectors(s) \in Seq(AllSectors) /\ Sectors(s) # << >>
      /\ Sector("sb", 0) \in Range(Sectors(s)) /\ Sector("bitmap", 0) \in Range(Sectors(s))
      /\ \A i \in 1 .. InodeSectors : Sector("ino", i) \in Range(Sectors(s))
      /\ \A b \in s.used : Sector("data", b) \in Range(Sectors(s))
  BY <1>2, SectorsIs
<1>4. Kept(disk, s, Range(Sectors(s)))
  BY <1>3, Layout DEF Kept
<1>5. disk' = disk /\ saved' = saved /\ tried' = tried
  OBVIOUS
<1>6. todo' \in Seq(AllSectors) /\ todo' # << >> /\ Kept(disk', ram', Range(todo'))
  BY <1>1, <1>3, <1>4, <1>5
<1>7. disk' \in Disks /\ Blks(saved') /\ (disk'.sb /\ tried' = {} => Good(saved'))
      /\ Mixed(disk', saved', tried')
  BY <1>5 DEF DiskIInv
<1>8. FsType(ram') /\ Good(ram')
  BY <1>1, <1>2
<1> QED
  BY <1>1, <1>6, <1>7, <1>8 DEF DiskIInv

\* kmain mounts what is on the disk.
LEMMA BootKeeps ==
  ASSUME DiskIInv, Boot
  PROVE  DiskIInv'
<1>1. disk \in Disks /\ disk.sb \in BOOLEAN
  BY DEF DiskIInv, Disks
<1>2. CASE disk.sb
  <2> DEFINE m == Mounted(disk)
  <2>1. /\ ram' = m /\ phase' = IF WellFormed(m) THEN "up" ELSE "corrupt"
        /\ todo' = todo /\ whole' = whole /\ disk' = disk /\ saved' = saved /\ tried' = tried
        /\ calls' = calls /\ cuts' = cuts /\ phase = "off"
    BY <1>2 DEF Boot
  <2>2. FsType(m)
    BY <1>1, MountedIs
  <2>3. WellFormed(m) => Good(m)
    BY <1>1, MountedGood
  <2>4. tried = {} => WellFormed(m)
    <3>1. ASSUME tried = {}
          PROVE  WellFormed(m)
      <4>1. Good(saved) /\ Blks(saved) /\ Mixed(disk, saved, {})
        BY <1>2, <3>1 DEF DiskIInv
      <4>2. m = saved
        BY <1>1, <4>1, MixedQuiet
      <4> HIDE DEF m
      <4> QED
        BY <4>1, <4>2, GoodIsWellFormed
    <3> QED
      BY <3>1
  <2> HIDE DEF m
  <2>5. phase' \in {"up", "corrupt"} /\ (phase' = "up" => Good(ram')) /\ FsType(ram')
        /\ (phase' = "corrupt" => tried' # {})
    BY <2>1, <2>2, <2>3, <2>4
  <2>6. todo' = << >>
    BY <2>1 DEF DiskIInv
  <2> QED
    BY <2>1, <2>5, <2>6 DEF DiskIInv
<1>3. CASE ~disk.sb
  <2>1. StartFlush(NewFs) /\ UNCHANGED <<disk, saved, tried, calls, cuts>>
    BY <1>3 DEF Boot
  <2>2. calls' \in 0 .. MaxCalls /\ cuts' \in 0 .. MaxCuts
    BY <2>1 DEF DiskIInv
  <2> QED
    BY <2>1, <2>2, NewFsIs, FlushStarts
<1> QED
  BY <1>1, <1>2, <1>3

\* kmain formats a disk whose superblock it could not read.
LEMMA BootUnreadKeeps ==
  ASSUME DiskIInv, BootUnread
  PROVE  DiskIInv'
<1>1. StartFlush(NewFs) /\ UNCHANGED <<disk, saved, tried, calls>>
  BY DEF BootUnread
<1>2. calls' \in 0 .. MaxCalls /\ cuts' \in 0 .. MaxCuts
  BY DiskAssumption DEF BootUnread, DiskIInv
<1> QED
  BY <1>1, <1>2, NewFsIs, FlushStarts

\* kmain mounts what it could not all read: that is an accident, and may not be found.
LEMMA BootMisreadKeeps ==
  ASSUME DiskIInv, BootMisread
  PROVE  DiskIInv'
<1>1. disk \in Disks /\ Mixed(disk, saved, tried) /\ todo \in Seq(AllSectors) /\ Blks(saved)
      /\ whole \in BOOLEAN /\ calls \in 0 .. MaxCalls
  BY DEF DiskIInv
<1>2. /\ tried' = tried \cup {ram'} /\ disk' = disk /\ saved' = saved /\ todo' = todo
      /\ whole' = whole /\ calls' = calls /\ phase = "off"
  BY DEF BootMisread
<1>3. cuts' \in 0 .. MaxCuts
  BY DiskAssumption DEF BootMisread, DiskIInv
<1>4. todo' = << >>
  BY <1>2 DEF DiskIInv
<1>5. tried' # {} /\ Mixed(disk', saved', tried')
  BY <1>1, <1>2, MixedMore
<1>6. FsType(ram') /\ phase' \in {"up", "corrupt"} /\ (phase' = "up" => Good(ram'))
  <2>1. CASE \E b \in disk.used :
               LET got == [Mounted(disk) EXCEPT !.blk[b] = Misread(disk, b)]
               IN  /\ ram' = got
                   /\ phase' = IF WellFormed(got) THEN "up" ELSE "corrupt"
    <3>1. PICK b \in disk.used :
            LET got == [Mounted(disk) EXCEPT !.blk[b] = Misread(disk, b)]
            IN  /\ ram' = got
                /\ phase' = IF WellFormed(got) THEN "up" ELSE "corrupt"
      BY <2>1
    <3> DEFINE got == PutBlock(Mounted(disk), b, Misread(disk, b))
    <3>2. ram' = got /\ phase' = IF WellFormed(got) THEN "up" ELSE "corrupt"
      BY <3>1 DEF PutBlock
    <3>3. got \in Fs /\ Clean(got) /\ FsType(got)
      BY <1>1, MisreadMounted
    <3> HIDE DEF got
    <3>4. WellFormed(got) => Good(got)
      BY <3>3, WellFormedIsGood
    <3> QED
      BY <3>2, <3>3, <3>4
  <2>2. CASE ram' = Mounted(disk) /\ phase' = "corrupt"
    <3>1. FsType(Mounted(disk))
      BY <1>1, MountedIs
    <3> QED
      BY <2>2, <3>1
  <2> QED
    BY <2>1, <2>2 DEF BootMisread
<1> QED
  BY <1>1, <1>2, <1>3, <1>4, <1>5, <1>6 DEF DiskIInv

\* A call changes the filesystem, and starts its flush.
LEMMA CallKeeps ==
  ASSUME DiskIInv, Call
  PROVE  DiskIInv'
<1>1. PICK s \in Changes : StartFlush(s)
  BY DEF Call
<1>2. Good(s)
  BY ChangesGood DEF Call, DiskIInv
<1>3. calls' \in 0 .. MaxCalls /\ cuts' \in 0 .. MaxCuts
  BY DiskAssumption DEF Call, DiskIInv
<1>4. UNCHANGED <<disk, saved, tried>>
  BY DEF Call
<1> QED
  BY <1>1, <1>2, <1>3, <1>4, FlushStarts

\* The flush goes on: what it has written is on disk if it lost nothing, and the
\* call returns when it has gone through all.
LEMMA AdvanceKeeps ==
  ASSUME DiskIInv, NEW written \in BOOLEAN, Advance(written), cuts' \in 0 .. MaxCuts,
         disk' \in Disks, disk'.sb \in BOOLEAN,
         Mixed(disk', saved, tried \cup {ram}),
         whole' => Kept(disk', ram, Range(Tail(todo)))
  PROVE  DiskIInv'
<1>1. /\ phase = "flushing" /\ todo' = Tail(todo)
      /\ phase' = IF Len(todo) = 1 THEN "up" ELSE "flushing"
      /\ whole' = (whole /\ written) /\ ram' = ram /\ calls' = calls
      /\ IF Len(todo) = 1 /\ whole' THEN saved' = ram /\ tried' = {}
         ELSE saved' = saved /\ tried' = tried \cup {ram}
  BY DEF Advance
<1>2. /\ Good(ram) /\ FsType(ram) /\ Blks(saved) /\ todo \in Seq(AllSectors) /\ todo # << >>
      /\ whole \in BOOLEAN /\ calls \in 0 .. MaxCalls
  BY <1>1 DEF DiskIInv
<1>3. /\ Tail(todo) \in Seq(AllSectors)
      /\ Tail(todo) = << >> <=> Len(todo) = 1
      /\ Len(todo) = 1 => Range(Tail(todo)) = {}
  BY <1>2, TailIs
<1>4. /\ phase' \in {"off", "flushing", "up", "corrupt"} /\ (phase' = "flushing" <=> todo' # << >>)
      /\ todo' \in Seq(AllSectors) /\ whole' \in BOOLEAN /\ calls' \in 0 .. MaxCalls
      /\ phase' # "corrupt" /\ Good(ram') /\ FsType(ram')
  BY <1>1, <1>2, <1>3
<1>5. phase' = "flushing" /\ whole' => Kept(disk', ram', Range(todo'))
  BY <1>1
<1>6. /\ Blks(saved') /\ (disk'.sb /\ tried' = {} => Good(saved'))
      /\ Mixed(disk', saved', tried')
  <2>1. CASE Len(todo) = 1 /\ whole'
    <3>1. Kept(disk', ram, {})
      BY <1>3, <2>1
    <3>2. Mixed(disk', ram, {})
      BY <3>1, KeptAll
    <3>3. Blks(ram)
      BY <1>2 DEF Good
    <3> QED
      BY <1>1, <1>2, <2>1, <3>2, <3>3
  <2>2. CASE ~(Len(todo) = 1 /\ whole')
    BY <1>1, <1>2, <2>2
  <2> QED
    BY <2>1, <2>2
<1> QED
  BY <1>4, <1>5, <1>6 DEF DiskIInv

\* A sector is written.
LEMMA WriteSectorKeeps ==
  ASSUME DiskIInv, WriteSector
  PROVE  DiskIInv'
<1> DEFINE x == Head(todo)
           q == Tail(todo)
<1>1. Advance(TRUE) /\ disk' = Written(disk, ram, x) /\ cuts' = cuts
  BY DEF WriteSector
<1>2. /\ phase = "flushing" /\ disk \in Disks /\ Good(ram) /\ Blks(saved)
      /\ todo \in Seq(AllSectors) /\ todo # << >> /\ cuts \in 0 .. MaxCuts
      /\ Mixed(disk, saved, tried) /\ (whole => Kept(disk, ram, Range(todo)))
  BY <1>1 DEF Advance, DiskIInv
<1>3. x \in AllSectors /\ Range(todo) \subseteq {x} \cup Range(q)
  BY <1>2, TailIs
<1> HIDE DEF x
<1>4. saved.used \subseteq Blk
  BY <1>2, FsParts DEF Blks
<1>5. disk' \in Disks
  BY <1>1, <1>2, <1>3, WrittenIs
<1>6. Mixed(disk', saved, tried \cup {ram})
  BY <1>1, <1>2, <1>3, <1>4, MixedAfter
<1>7. whole' => Kept(disk', ram, Range(q))
  <2>1. whole' => whole
    BY <1>1 DEF Advance
  <2> HIDE DEF q
  <2> QED
    BY <1>1, <1>2, <1>3, <2>1, KeptAfter
<1>8. disk'.sb \in BOOLEAN
  BY <1>5 DEF Disks
<1> QED
  BY <1>1, <1>2, <1>5, <1>6, <1>7, <1>8, AdvanceKeeps

\* A sector is lost.
LEMMA LoseSectorKeeps ==
  ASSUME DiskIInv, LoseSector
  PROVE  DiskIInv'
<1>1. Advance(FALSE) /\ disk' = disk /\ ~whole'
  BY DEF LoseSector, Advance
<1>2. cuts' \in 0 .. MaxCuts
  BY DiskAssumption DEF LoseSector, DiskIInv
<1>3. disk' \in Disks /\ Mixed(disk', saved, tried)
  BY <1>1 DEF DiskIInv
<1>4. Mixed(disk', saved, tried \cup {ram})
  BY <1>3, MixedMore
<1>5. disk'.sb \in BOOLEAN
  BY <1>3 DEF Disks
<1> QED
  BY <1>1, <1>2, <1>3, <1>4, <1>5, AdvanceKeeps

\* An inode table of free inodes, as RAM and a blank disk have it.
LEMMA NothingIs ==
  /\ Blks(Nothing) /\ FsType(Nothing)
  /\ Nothing.ino \in [Ino -> SizedInode] /\ Nothing.used = {} /\ Nothing.blk \in [Blk -> Block]
<1> DEFINE s == Nothing
<1>1. FreshInode("free") \in Inode /\ FreshInode("free").type = "free"
  BY Fresh DEF Types
<1>2. FreshInode("free") \in SizedInode
  BY <1>1, Fresh, Caps DEF SizedInode, Inode, Types, FreshInode
<1>3. /\ s.ino = [n \in Ino |-> FreshInode("free")] /\ s.used = {}
      /\ s.blk = [b \in Blk |-> Junk]
      /\ s = [ino |-> s.ino, used |-> s.used, blk |-> s.blk]
  BY DEF Nothing
<1> HIDE DEF s
<1>4. /\ s.ino \in [Ino -> Inode] /\ s.ino \in [Ino -> SizedInode] /\ s.blk \in [Blk -> Block]
      /\ \A n \in Ino : s.ino[n] = FreshInode("free") /\ s.ino[n] \in SizedInode
  BY <1>1, <1>2, <1>3, Contents DEF Block
<1>5. s \in Fs
  BY <1>3, <1>4 DEF Fs
<1>6. \A n \in Ino : \A i \in Uses : Use(s, n, i) = NoBlock
  BY <1>1, <1>4 DEF Use
<1>7. Blks(s)
  BY <1>3, <1>5, <1>6 DEF Blks, Owned, Once, Kinds, Holds, Clean
<1>8. ASSUME NEW n \in Ino
      PROVE  /\ s.ino[n].type \in {"free", "file", "dir"} /\ s.ino[n].size \in 0 .. Cap
             /\ Range(s.ino[n].direct) \cup {s.ino[n].indirect} \subseteq Blk \cup {NoBlock}
  <2>1. /\ s.ino[n].type \in Types /\ s.ino[n].size \in 0 .. Cap
        /\ s.ino[n].direct \in [Dir -> Ptr] /\ s.ino[n].indirect \in Ptr
    BY <1>4 DEF SizedInode
  <2> QED
    BY <2>1 DEF Range, Types, Ptr
<1>9. FsType(s)
  BY <1>3, <1>8 DEF FsType
<1> QED
  BY <1>3, <1>4, <1>7, <1>9 DEF s

\* The power goes: what is on disk is what it was.
LEMMA PowerCutKeeps ==
  ASSUME DiskIInv, PowerCut
  PROVE  DiskIInv'
<1>1. /\ phase' = "off" /\ todo' = << >> /\ ram' = Nothing
      /\ UNCHANGED <<disk, whole, saved, tried, calls>>
  BY DEF PowerCut
<1>2. cuts' \in 0 .. MaxCuts
  BY DiskAssumption DEF PowerCut, DiskIInv
<1>3. FsType(ram')
  BY <1>1, NothingIs
<1> QED
  BY <1>1, <1>2, <1>3 DEF DiskIInv

-----------------------------------------------------------------------------
(* The theorems.                                                            *)

\* What runs is a good filesystem, and what is on disk is a mixture of what was
\* saved and of what accidents have hit since, wherever calls, power cuts and the
\* device's failures fall.
THEOREM DiskInvariant == DiskSpec => []DiskIInv
<1>1. DiskInit => DiskIInv
  <2> SUFFICES ASSUME DiskInit PROVE DiskIInv
    OBVIOUS
  <2>1. /\ disk = [sb |-> FALSE, ino |-> Nothing.ino, used |-> {}, blk |-> Nothing.blk]
        /\ ram = Nothing /\ saved = Nothing /\ phase = "off" /\ todo = << >> /\ whole = TRUE
        /\ tried = {} /\ calls = 0 /\ cuts = 0
    BY DEF DiskInit
  <2>2. 0 \in 0 .. MaxCalls /\ 0 \in 0 .. MaxCuts
    BY DiskAssumption
  <2>3. disk \in Disks /\ disk.sb = FALSE
    BY <2>1, NothingIs DEF Disks
  <2>4. Mixed(disk, saved, tried)
    BY <2>1, NothingIs DEF Mixed
  <2> QED
    BY <2>1, <2>2, <2>3, <2>4, NothingIs DEF DiskIInv
<1>2. DiskIInv /\ [DiskNext]_diskVars => DiskIInv'
  <2> SUFFICES ASSUME DiskIInv, [DiskNext]_diskVars
               PROVE  DiskIInv'
    OBVIOUS
  <2>1. CASE UNCHANGED diskVars
    BY <2>1 DEF diskVars, DiskIInv
  <2> QED
    BY <2>1, BootKeeps, BootUnreadKeeps, BootMisreadKeeps, CallKeeps, WriteSectorKeeps,
       LoseSectorKeeps, PowerCutKeeps DEF DiskNext
<1> QED
  BY <1>1, <1>2, PTL DEF DiskSpec

\* Types: an inode's fields are in their ranges on disk and in RAM, even where its
\* words are from different flushes.
THEOREM DiskTypeSafe == DiskSpec => []DiskTypeOK
<1>1. ASSUME DiskIInv
      PROVE  DiskTypeOK
  <2>1. disk \in Disks
    BY <1>1 DEF DiskIInv
  <2> DEFINE s == [ino |-> disk.ino, used |-> disk.used]
             m == Mounted(disk)
  <2>2. FsType(m) /\ m.ino = disk.ino /\ m.used = disk.used
    BY <2>1, MountedIs
  <2>3. s.ino = disk.ino /\ s.used = disk.used
    OBVIOUS
  <2> HIDE DEF s, m
  <2>4. FsType(s)
    BY <2>2, <2>3 DEF FsType
  <2> QED
    BY <1>1, <2>1, <2>4 DEF DiskIInv, DiskTypeOK, Disks, s
<1> QED
  BY <1>1, DiskInvariant, PTL

\* If no flush was hit since the last that finished, a restart finds just what that
\* one saved.
THEOREM RestartFindsSaved == DiskSpec => []RestartKeeps
<1>1. DiskIInv => RestartKeeps
  BY MixedQuiet DEF DiskIInv, RestartKeeps
<1> QED
  BY <1>1, DiskInvariant, PTL

\* What runs is well formed, and what was never hit comes up.
THEOREM RunsWellFormed == DiskSpec => []CorruptOnlyIfTorn
<1>1. DiskIInv => CorruptOnlyIfTorn
  BY GoodIsWellFormed DEF DiskIInv, CorruptOnlyIfTorn
<1> QED
  BY <1>1, DiskInvariant, PTL

\* The blocks of an inode that two filesystems agree on are the same ones, and are
\* in use in both.
LEMMA SameHoldings ==
  ASSUME NEW old, Blks(old), NEW s, Blks(s), NEW n \in Ino, s.ino[n] = old.ino[n],
         \A b \in Holdings(old, n) : s.blk[b] = old.blk[b]
  PROVE  Holdings(old, n) \subseteq s.used
<1>1. old \in Fs /\ s \in Fs /\ Uses = 0 .. MaxBlks
  BY DEF Blks, Uses
<1> SUFFICES ASSUME NEW i \in Uses, Use(old, n, i) # NoBlock
             PROVE  Use(old, n, i) \in s.used
  BY <1>1 DEF Holdings
<1>2. old.ino[n].type # "free" /\ old.ino[n].indirect # NoBlock =>
        s.blk[old.ino[n].indirect] = old.blk[old.ino[n].indirect]
  <2> SUFFICES ASSUME old.ino[n].type # "free", old.ino[n].indirect # NoBlock
               PROVE  s.blk[old.ino[n].indirect] = old.blk[old.ino[n].indirect]
    OBVIOUS
  <2>1. MaxBlks \in Uses /\ Use(old, n, MaxBlks) = old.ino[n].indirect
    BY Numbers, Indirect
  <2>2. old.ino[n].indirect \in Holdings(old, n)
    BY <1>1, <2>1 DEF Holdings
  <2> QED
    BY <2>2
<1>3. Use(s, n, i) = Use(old, n, i)
  BY <1>1, <1>2, SameUses
<1>4. Use(s, n, i) \in s.used \cup {NoBlock}
  BY DEF Blks, Owned
<1> QED
  BY <1>3, <1>4

\* An accident harms no inode that all of the flushes it hit left alone: whichever of
\* them a part of the disk is from, it has that inode, and its blocks, as saved.
THEOREM OthersSurvive == DiskSpec => []BystandersSurvive
<1>1. ASSUME DiskIInv
      PROVE  BystandersSurvive
  <2> SUFFICES ASSUME NEW n \in Ino, Untouched(n)
               PROVE  /\ Mounted(disk).ino[n] = saved.ino[n]
                      /\ \A b \in Holdings(saved, n) : Mounted(disk).blk[b] = saved.blk[b]
    BY DEF BystandersSurvive
  <2> DEFINE m == Mounted(disk)
  <2>1. disk \in Disks /\ Blks(saved) /\ Mixed(disk, saved, tried)
    BY <1>1 DEF DiskIInv
  <2>2. /\ m.ino = disk.ino /\ m.used = disk.used
        /\ \A b \in Blk : m.blk[b] = IF b \in disk.used THEN disk.blk[b] ELSE Junk
    BY <2>1, MountedIs
  <2> HIDE DEF m
  <2>3. \A s \in tried \cup {saved} : /\ s.ino[n] = saved.ino[n]
                                      /\ \A b \in Holdings(saved, n) : s.blk[b] = saved.blk[b]
    BY DEF Untouched
  <2>4. disk.ino[n] = saved.ino[n]
    <3>1. disk.ino[n] \in Inode /\ saved.ino[n] \in Inode
      <4>1. disk.ino[n] \in SizedInode /\ SizedInode \subseteq Inode
        BY <2>1, Caps DEF Disks, SizedInode, Inode
      <4> QED
        BY <2>1, <4>1, FsParts DEF Blks
    <3>2. \A w \in InodeWords : Word(disk.ino[n], w) = Word(saved.ino[n], w)
      BY <2>1, <2>3 DEF Mixed
    <3> QED
      BY <3>1, <3>2, SameWords
  <2>5. ASSUME NEW b \in Holdings(saved, n)
        PROVE  m.blk[b] = saved.blk[b]
    <3>1. Holdings(saved, n) \subseteq saved.used
      BY <2>1, SameHoldings
    <3>2. b \in saved.used /\ b \in Blk
      BY <2>1, <3>1, FsParts DEF Blks
    <3>3. b \in disk.used
      <4>1. CASE disk.used = saved.used
        BY <3>2, <4>1
      <4>2. CASE \E s \in tried : Good(s) /\ disk.used = s.used
        <5>1. PICK s \in tried : Good(s) /\ disk.used = s.used
          BY <4>2
        <5>2. Blks(s)
          BY <5>1 DEF Good
        <5>3. Holdings(saved, n) \subseteq s.used
          BY <2>1, <2>3, <5>2, SameHoldings
        <5> QED
          BY <5>1, <5>3
      <4> QED
        BY <2>1, <4>1, <4>2 DEF Mixed
    <3>4. disk.blk[b] = saved.blk[b]
      BY <2>1, <2>3, <3>2 DEF Mixed
    <3> QED
      BY <2>2, <3>2, <3>3, <3>4
  <2> QED
    BY <2>2, <2>4, <2>5 DEF m
<1> QED
  BY <1>1, DiskInvariant, PTL
=============================================================================
