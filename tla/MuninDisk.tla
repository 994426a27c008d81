------------------------------ MODULE MuninDisk ------------------------------
(***************************************************************************)
(* Munin on disk: munin_flush, sector by sector, munin_mount and what kmain *)
(* does with it at boot, with power cuts between any two sectors, and writes *)
(* and reads failed by the device: what vblk_write and vblk_read answer is   *)
(* not looked at.                                                            *)
(*                                                                          *)
(* The disk has a superblock, the sectors of the inode table, the bitmap's  *)
(* one sector and a sector for each block.  sizeof(Inode) does not divide   *)
(* 512, so an inode may lie across two sectors: its last words then come    *)
(* with the second one.                                                     *)
(***************************************************************************)
EXTENDS Munin

CONSTANTS
  InodeSectors, \* sectors of the inode table
  FirstSector,  \* FirstSector[n]: the one in which inode n begins
  InFirst,      \* InFirst[n]: how many of its words lie there; the others are in the next
  Paths,        \* the paths programs name
  Len1,         \* how much they write
  Greeting,     \* the length of the text kmain puts into /docs/readme
  MaxCalls,     \* bound: how many calls change the filesystem
  MaxCuts       \* bound: how often the power fails, or a sector is lost

ASSUME DiskAssumption ==
  /\ InodeSectors \in Nat \ {0}
  /\ FirstSector \in [Ino -> 1 .. InodeSectors] /\ InFirst \in [Ino -> 1 .. Direct + 3]
  /\ \A n \in Ino : FirstSector[n] = InodeSectors => InFirst[n] = Direct + 3
  /\ Paths \subseteq Seq(Names) /\ {"docs", "bin", "readme"} \subseteq Names
  /\ Len1 \in Nat /\ Greeting \in Nat /\ MaxCalls \in Nat /\ MaxCuts \in Nat

VARIABLES
  disk,         \* [sb: a superblock is there, ino, used, blk]
  ram,          \* the filesystem in RAM
  phase,        \* "off", "flushing", "up", or "corrupt": see Boot
  todo,         \* the sectors the flush has yet to write
  whole,        \* history: the flush has lost no sector
  saved,        \* history: the filesystem of the last flush that lost none
  tried,        \* history: those flushed in part, with losses, or misread, since
  calls, cuts   \* counters for the bounds

diskVars == <<disk, ram, phase, todo, whole, saved, tried, calls, cuts>>

Nothing == [ino |-> [n \in Ino |-> FreshInode("free")], used |-> {},
            blk |-> [b \in Blk |-> Junk]]

-----------------------------------------------------------------------------
(* Flush and mount.                                                         *)

Sector(part, i) == [part |-> part, i |-> i]

\* The data sectors of the live blocks below n.
LiveData(s, n) ==
  LET upto[b \in 0 .. n] ==
        IF b = 0 THEN << >>
        ELSE IF b - 1 \in s.used THEN Append(upto[b - 1], Sector("data", b - 1))
        ELSE upto[b - 1]
  IN  upto[n]

\* Mutant: the data goes only where the disk's bitmap, not RAM's, has a block.
SectorsByOldBitmap(s) ==
  <<Sector("sb", 0)>> \o [i \in 1 .. InodeSectors |-> Sector("ino", i)]
    \o <<Sector("bitmap", 0)>> \o LiveData(disk, Blocks)

\* The sectors munin_flush writes, in its order.
Sectors(s) ==
  <<Sector("sb", 0)>> \o [i \in 1 .. InodeSectors |-> Sector("ino", i)]
    \o <<Sector("bitmap", 0)>> \o LiveData(s, Blocks)

\* The words of an inode: its type, its size, the direct pointers and the indirect one.
InodeWords == 0 .. Direct + 2

WordSector(n, w) == IF w < InFirst[n] THEN FirstSector[n] ELSE FirstSector[n] + 1

\* Inode old with the words in W from inode new.
Overlaid(old, new, W) ==
  [type     |-> IF 0 \in W THEN new.type ELSE old.type,
   size     |-> IF 1 \in W THEN new.size ELSE old.size,
   direct   |-> [i \in 0 .. Direct - 1 |-> IF i + 2 \in W THEN new.direct[i] ELSE old.direct[i]],
   indirect |-> IF Direct + 2 \in W THEN new.indirect ELSE old.indirect]

\* Mutant: an inode's second part is not written.
FirstPartOnly(old, new, n, i) ==
  Overlaid(old, new, {w \in InodeWords : w < InFirst[n] /\ FirstSector[n] = i})

\* disk_write_bytes of sector i of the inode table.
InodeAfter(old, new, n, i) == Overlaid(old, new, {w \in InodeWords : WordSector(n, w) = i})

\* Mutant: a flush empties the bitmap before it fills the inode table.
WipeFirst(d, s, x) ==
  CASE x.part = "sb"     -> [d EXCEPT !.sb = TRUE, !.used = {}]
    [] x.part = "ino"    -> [d EXCEPT !.ino = [n \in Ino |-> InodeAfter(d.ino[n], s.ino[n], n, x.i)]]
    [] x.part = "bitmap" -> [d EXCEPT !.used = s.used]
    [] x.part = "data"   -> [d EXCEPT !.blk[x.i] = s.blk[x.i]]

\* The disk once sector x of filesystem s is written.
Written(d, s, x) ==
  CASE x.part = "sb"     -> [d EXCEPT !.sb = TRUE]
    [] x.part = "ino"    -> [d EXCEPT !.ino = [n \in Ino |-> InodeAfter(d.ino[n], s.ino[n], n, x.i)]]
    [] x.part = "bitmap" -> [d EXCEPT !.used = s.used]
    [] x.part = "data"   -> [d EXCEPT !.blk[x.i] = s.blk[x.i]]

\* munin_mount of a disk with a superblock: live blocks only.
Mounted(d) ==
  [ino |-> d.ino, used |-> d.used,
   blk |-> [b \in Blk |-> IF b \in d.used THEN d.blk[b] ELSE Junk]]

\* kmain on a disk without one.
NewFs ==
  LET docs   == CreatePath(Formatted, <<"docs">>, "dir").fs
      bin    == CreatePath(docs, <<"bin">>, "dir").fs
      readme == CreatePath(bin, <<"docs", "readme">>, "file").fs
  IN  WritePath(readme, <<"docs", "readme">>, 1, Greeting).fs

-----------------------------------------------------------------------------
(* Actions.                                                                 *)

StartFlush(s) ==
  /\ ram' = s
  /\ phase' = "flushing"
  /\ todo' = Sectors(s)
  /\ whole' = TRUE

\* kmain: mount, or format and flush.  Nothing is checked but the superblock; what
\* calls do on a filesystem that is not well formed is not modelled.
Boot ==
  /\ phase = "off"
  /\ IF disk.sb
     THEN /\ ram' = Mounted(disk)
          /\ phase' = IF WellFormed(Mounted(disk)) THEN "up" ELSE "corrupt"
          /\ UNCHANGED <<todo, whole>>
     ELSE StartFlush(NewFs)
  /\ UNCHANGED <<disk, saved, tried, calls, cuts>>

\* The device fails the read of the superblock: the data buffer is still zero, and
\* the disk is taken for a blank one.
BootUnread ==
  /\ phase = "off" /\ cuts < MaxCuts
  /\ StartFlush(NewFs)
  /\ cuts' = cuts + 1
  /\ UNCHANGED <<disk, saved, tried, calls>>

\* What a failed read leaves in block b's place: the driver's bounce buffer, with
\* the live block before or, for the first, the bitmap.  A file's block can hold
\* any bytes; a directory or pointer block cannot.
Misread(d, b) ==
  LET before == {x \in d.used : x < b}
      found  == IF before = {} THEN Junk ELSE d.blk[Max(before)]
  IN  IF d.blk[b].kind = "data" /\ found.kind # "data" THEN Junk ELSE found

\* The read of a live block fails, or that of the inode table or the bitmap:
\* those then hold another sector's bytes, and are not followed.
BootMisread ==
  /\ phase = "off" /\ disk.sb /\ cuts < MaxCuts
  /\ \/ \E b \in disk.used :
          LET got == [Mounted(disk) EXCEPT !.blk[b] = Misread(disk, b)]
          IN  /\ ram' = got
              /\ phase' = IF WellFormed(got) THEN "up" ELSE "corrupt"
     \/ ram' = Mounted(disk) /\ phase' = "corrupt"
  /\ tried' = tried \cup {ram'}
  /\ cuts' = cuts + 1
  /\ UNCHANGED <<disk, saved, todo, whole, calls>>

\* What a call makes of the filesystem before vfs_sync: sync itself nothing, mkdir and open
\* create, open truncates, write starts where its descriptor stands.
Changes ==
  LET there == {Resolve(ram, path) : path \in Paths} \ {None}
  IN  {ram} \cup {CreatePath(ram, path, type).fs : path \in Paths, type \in {"file", "dir"}}
        \cup {Unlink(ram, path).fs : path \in Paths}
        \cup {Truncate(ram, n) : n \in there}
        \cup {WriteInode(ram, n, 1, Len1, 0).fs : n \in there}
        \cup {WriteInode(ram, n, 1, Len1, ram.ino[n].size).fs : n \in there}

\* A system call, and the flush that follows it.
Call ==
  /\ phase = "up" /\ calls < MaxCalls
  /\ \E s \in Changes : StartFlush(s)
  /\ calls' = calls + 1
  /\ UNCHANGED <<disk, saved, tried, cuts>>

\* Mutant: the loop over the sectors ends one early.
AdvanceEarly(written) ==
  /\ phase = "flushing"
  /\ todo' = Tail(todo)
  /\ phase' = IF Len(todo) = 2 THEN "up" ELSE "flushing"
  /\ whole' = (whole /\ written)
  /\ IF Len(todo) = 2 /\ whole'
     THEN saved' = ram /\ tried' = {}
     ELSE saved' = saved /\ tried' = tried \cup {ram}
  /\ UNCHANGED <<ram, calls>>

\* The flush's next sector, written or not; after the last, the call returns.
Advance(written) ==
  /\ phase = "flushing"
  /\ todo' = Tail(todo)
  /\ phase' = IF Len(todo) = 1 THEN "up" ELSE "flushing"
  /\ whole' = (whole /\ written)
  /\ IF Len(todo) = 1 /\ whole'
     THEN saved' = ram /\ tried' = {}
     ELSE saved' = saved /\ tried' = tried \cup {ram}
  /\ UNCHANGED <<ram, calls>>

WriteSector ==
  /\ Advance(TRUE)
  /\ disk' = Written(disk, ram, Head(todo))
  /\ UNCHANGED cuts

\* The device fails the request; nobody asks.
LoseSector ==
  /\ Advance(FALSE) /\ cuts < MaxCuts
  /\ cuts' = cuts + 1
  /\ UNCHANGED disk

\* The power goes: in a flush, between two sectors.
PowerCut ==
  /\ phase # "off" /\ cuts < MaxCuts
  /\ phase' = "off" /\ todo' = << >> /\ ram' = Nothing
  /\ cuts' = cuts + 1
  /\ UNCHANGED <<disk, whole, saved, tried, calls>>

\* A disk that is blank or has something else on it.
DiskInit ==
  /\ disk = [sb |-> FALSE, ino |-> Nothing.ino, used |-> {}, blk |-> Nothing.blk]
  /\ ram = Nothing
  /\ phase = "off" /\ todo = << >>
  /\ whole = TRUE /\ saved = Nothing /\ tried = {}
  /\ calls = 0 /\ cuts = 0

DiskNext == Boot \/ BootUnread \/ BootMisread \/ Call \/ WriteSector \/ LoseSector \/ PowerCut

DiskSpec == DiskInit /\ [][DiskNext]_diskVars

-----------------------------------------------------------------------------
(* Properties.                                                              *)

\* Types of what is on disk and in RAM, whatever was torn.
DiskTypeOK ==
  /\ disk.sb \in BOOLEAN
  /\ FsType([ino |-> disk.ino, used |-> disk.used])
  /\ FsType(ram)
  /\ phase \in {"off", "flushing", "up", "corrupt"}
  /\ phase = "flushing" <=> todo # << >>
  /\ whole \in BOOLEAN /\ calls \in 0 .. MaxCalls /\ cuts \in 0 .. MaxCuts

\* What a restart finds is what the last finished flush saved, unless one was cut
\* off or lost a sector since: the inode table, the bitmap and each live block come
\* back as they were, though free blocks are never written.  The next flush that
\* finishes repairs what the accident left.
RestartKeeps == tried = {} /\ disk.sb => Mounted(disk) = saved

\* Without such an accident no restart comes up on a filesystem that is not well
\* formed, and the one that runs is always well formed.
CorruptOnlyIfTorn ==
  /\ phase = "corrupt" => tried # {}
  /\ phase \in {"up", "flushing"} => WellFormed(ram)

\* What inode n has on a filesystem: a free inode has no blocks, though after a torn
\* flush it may still name one.
Holdings(s, n) == {Use(s, n, i) : i \in 0 .. MaxBlks} \ {NoBlock}

\* An accident harms only what the calls it hit were changing: an inode that all of
\* the flushes since the last finished one leave as it was, with its blocks, is
\* mounted as it was.
Untouched(n) ==
  \A s \in tried : /\ s.ino[n] = saved.ino[n]
                  /\ \A b \in Holdings(saved, n) : s.blk[b] = saved.blk[b]

BystandersSurvive ==
  disk.sb => \A n \in {i \in Ino : Untouched(i)} :
    /\ Mounted(disk).ino[n] = saved.ino[n]
    /\ \A b \in Holdings(saved, n) : Mounted(disk).blk[b] = saved.blk[b]

\* "load from disk; true if a valid fs was found" (munin.hpp:61): what is mounted
\* is a filesystem.
MountedIsValid == phase # "corrupt"

=============================================================================
