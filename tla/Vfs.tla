--------------------------------- MODULE Vfs ---------------------------------
(***************************************************************************)
(* The file system calls of HrafnOS: descriptor tables (kernel/vfs.cpp)     *)
(* over Munin, as the dispatcher (kernel/idt.cpp) makes the calls and then  *)
(* flushes the filesystem to disk.  A call runs with interrupts off, so     *)
(* each is one step, and tasks interleave between calls.  Descriptors 0-2   *)
(* are the terminal's and are not here.                                     *)
(***************************************************************************)
EXTENDS Munin

CONSTANTS
  Tasks,        \* tasks that make calls
  NFd,          \* descriptors a task may hold: MAX_FDS - 3
  FilePaths,    \* the paths they open
  DirPaths,     \* the paths they make directories at
  Lens,         \* how much they read and write at a time
  Values,       \* what they write
  FlagSets      \* what they open with: sets of "CREAT", "TRUNC", "APPEND"

ASSUME VfsAssumption ==
  /\ NFd \in Nat \ {0} /\ Lens \subseteq Nat
  /\ FilePaths \cup DirPaths \subseteq Seq(Names) /\ Values \subseteq Nat
  /\ FlagSets \subseteq SUBSET {"CREAT", "TRUNC", "APPEND"}

VARIABLES
  fs,           \* the filesystem in RAM
  fds,          \* fds[t][fd]: [used, inode, type, offset]
  flushed       \* whether the disk holds what RAM holds (see MuninDisk)

vars == <<fs, fds, flushed>>

Fd     == 3 .. NFd + 2
NoFd   == [used |-> FALSE, inode |-> Root, type |-> "free", offset |-> 0]
NoFds  == [fd \in Fd |-> NoFd]

FreeFds(t) == {fd \in Fd : ~fds[t][fd].used}
IsFile(t, fd) == fds[t][fd].used /\ fds[t][fd].type = "file"

Flush    == flushed' = TRUE
NoFlush  == flushed' = (flushed /\ fs' = fs)

-----------------------------------------------------------------------------
(* Opening and closing.                                                     *)

\* The inode vfs_open ends up with, created if asked for.
Opened(path, flags) ==
  LET n == Resolve(fs, path)
  IN  IF n # None \/ "CREAT" \notin flags THEN [fs |-> fs, ino |-> n]
      ELSE CreatePath(fs, path, "file")

\* vfs_open after the path is resolved, and SYS_OPEN's flush: the truncation
\* comes before the search for a free descriptor, and a full table is no success.
Open(t, path, flags) ==
  LET got  == Opened(path, flags)
      file == got.fs.ino[got.ino].type = "file"
      cut  == IF "TRUNC" \in flags /\ file THEN Truncate(got.fs, got.ino) ELSE got.fs
      desc == [used |-> TRUE, inode |-> got.ino, type |-> cut.ino[got.ino].type,
               offset |-> IF "APPEND" \in flags /\ file THEN cut.ino[got.ino].size ELSE 0]
  IN  IF got.ino = None
      THEN fs' = got.fs /\ UNCHANGED fds /\ NoFlush
      ELSE /\ fs' = cut
           /\ IF FreeFds(t) = {} THEN UNCHANGED fds /\ NoFlush
              ELSE /\ fds' = [fds EXCEPT ![t][Min(FreeFds(t))] = desc]
                   /\ IF flags \cap {"CREAT", "TRUNC"} # {} THEN Flush ELSE NoFlush

\* vfs_close.
Close(t, fd) ==
  /\ fds[t][fd].used
  /\ fds' = [fds EXCEPT ![t][fd] = NoFd]
  /\ UNCHANGED <<fs, flushed>>

-----------------------------------------------------------------------------
(* Reading and writing: the cursor moves by what was done.                  *)

\* Mutant: the cursor moves by what was asked for.
ReadMovesByLen(t, fd, len) ==
  /\ IsFile(t, fd)
  /\ fds' = [fds EXCEPT ![t][fd].offset = @ + len]
  /\ UNCHANGED <<fs, flushed>>

Read(t, fd, len) ==
  LET d == fds[t][fd]
      n == ReadInode(fs, d.inode, len, d.offset)
  IN  /\ IsFile(t, fd)
      /\ fds' = [fds EXCEPT ![t][fd].offset = @ + Max({n, 0})]
      /\ UNCHANGED <<fs, flushed>>

\* Mutant: a short write is not flushed.
WriteFlushesIfWhole(t, fd, v, len) ==
  LET d   == fds[t][fd]
      got == WriteInode(fs, d.inode, v, len, d.offset)
  IN  /\ IsFile(t, fd)
      /\ fs' = got.fs
      /\ fds' = [fds EXCEPT ![t][fd].offset = @ + Max({got.ret, 0})]
      /\ IF got.ret = len THEN Flush ELSE NoFlush

\* SYS_WRITE flushes if anything was written.
Write(t, fd, v, len) ==
  LET d   == fds[t][fd]
      got == WriteInode(fs, d.inode, v, len, d.offset)
  IN  /\ IsFile(t, fd)
      /\ fs' = got.fs
      /\ fds' = [fds EXCEPT ![t][fd].offset = @ + Max({got.ret, 0})]
      /\ IF got.ret > 0 THEN Flush ELSE NoFlush

-----------------------------------------------------------------------------
(* Directories, sync, and what tasks do to the tables.                      *)

Mkdir(path) ==
  LET got == CreatePath(fs, path, "dir")
  IN  /\ fs' = got.fs
      /\ IF got.ino # None THEN Flush ELSE NoFlush
      /\ UNCHANGED fds

\* Descriptors that name the inode stay as they are.
Rm(path) ==
  LET got == Unlink(fs, path)
  IN  /\ fs' = got.fs
      /\ IF got.ret = 0 THEN Flush ELSE NoFlush
      /\ UNCHANGED fds

Sync == Flush /\ UNCHANGED <<fs, fds>>

\* fork_current copies the table, offsets and all; u is a task that is not there.
Fork(t, u) ==
  /\ u # t /\ fds[u] = NoFds
  /\ fds' = [fds EXCEPT ![u] = fds[t]]
  /\ UNCHANGED <<fs, flushed>>

\* A task ends with its table.
Exit(t) ==
  /\ fds' = [fds EXCEPT ![t] = NoFds]
  /\ UNCHANGED <<fs, flushed>>

\* An empty filesystem.  The /docs, /bin and /docs/readme that kmain adds to a new
\* one (kernel.cpp:80-85) are calls the tasks can make, and unmake.
Init ==
  /\ fs = Formatted
  /\ fds = [t \in Tasks |-> NoFds]
  /\ flushed = TRUE

TaskStep(t) ==
  \/ \E path \in FilePaths, flags \in FlagSets : Open(t, path, flags)
  \/ \E fd \in Fd : Close(t, fd)
  \/ \E fd \in Fd, len \in Lens : Read(t, fd, len)
  \/ \E fd \in Fd, v \in Values, len \in Lens : Write(t, fd, v, len)
  \/ \E u \in Tasks : Fork(t, u)
  \/ Exit(t)

Next ==
  \/ \E t \in Tasks : TaskStep(t)
  \/ \E path \in DirPaths : Mkdir(path)
  \/ \E path \in FilePaths \cup DirPaths : Rm(path)
  \/ Sync

Spec == Init /\ [][Next]_vars

-----------------------------------------------------------------------------
(* Properties.                                                              *)

\* Types: an inode's fields, and descriptors that name an inode.
TypeOK ==
  /\ FsType(fs)
  /\ fds \in [Tasks -> [Fd -> [used : BOOLEAN, inode : Ino,
                               type : {"free", "file", "dir"}, offset : 0 .. Cap]]]
  /\ flushed \in BOOLEAN

\* The block bitmap and the inode table agree: whatever is truncated, unlinked
\* while open or fails halfway, no block is lost and none has two owners.
BlocksOwned == KindsAgree(fs) /\ BlocksAgree(fs)

\* The directories form a tree that names each inode in use once.
TreeSound == IsTree(fs)

\* Bitmap, inodes and directories agree, even while removed files are open.
FilesSound == BlocksOwned /\ TreeSound

\* Only calls that fail leave the disk behind RAM, and what a power cut then loses
\* is small: an empty file, or a truncation, by an open that found the descriptor
\* table full, or zeros at the end of a file, by a write that found no block.
OnlyFailedCallsUnflushed ==
  [][flushed /\ ~flushed' =>
       \E old \in {Tree(fs)}, new \in {Tree(fs)'}, full \in {\E t \in Tasks : FreeFds(t) = {}} :
           /\ fds' = fds
           /\ DOMAIN old \subseteq DOMAIN new
           /\ \A path \in DOMAIN new :
                IF path \notin DOMAIN old THEN full /\ new[path].type = "file"
                ELSE \/ full /\ new[path].bytes = << >>
                     \/ /\ IsPrefix(old[path].bytes, new[path].bytes)
                        /\ \A i \in Len(old[path].bytes) + 1 .. Len(new[path].bytes) :
                             new[path].bytes[i] = 0]_vars

\* "Returns bytes read (0 at/after EOF)" (munin.cpp:354): short of the end of the
\* file a read yields what was asked for.
ReadsToTheEnd ==
  \A t \in Tasks, fd \in Fd :
    LET d == fds[t][fd]
    IN  IsFile(t, fd) /\ fs.ino[d.inode].type = "file" /\ d.offset < fs.ino[d.inode].size
          => ReadInode(fs, d.inode, 1, d.offset) = 1

\* Munin is a tree of files: see FileTree.  (The tree is a function of fs, so a
\* step that leaves fs alone is a stutter.)
FS == INSTANCE FileTree WITH tree <- Tree(fs), Values <- Values

ImplementsFileTree == FS!TreeInit /\ [][fs' # fs => FS!TreeNext]_fs

=============================================================================
