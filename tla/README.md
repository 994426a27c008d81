# HrafnOS in TLA+

HrafnOS is a small x86-64 kernel written in C++, with a shell and a few user
programs.  This directory holds TLA+ specifications of its core, the TLC
configurations that check them on small instances, and TLAPS proofs, for every size
of what they are about, of the safety of the scheduler, the heap, frames and page
tables, the filesystem in RAM and on disk, the disk driver, mouse and windows, and
the console.  Paths below are relative to `src/`, where `kernel/` holds the kernel
and `huginn.cpp` the shell.

One fact about the code shapes every model.  There is one processor, and all
handlers (the timer, the keyboard, the mouse, system calls) run behind
interrupt gates, with interrupts off from entry to `iretq`.  So a system call is
one step, however long it is, and what is concurrent is *which* handler comes
next, and everything that runs outside handlers: kernel threads, the boot
task's compositing loop, user programs, and the devices.

## 1. The system

| Part | State it keeps | Operations | What is hard | What makes it right |
|---|---|---|---|---|
| Scheduler (`kernel/sched.cpp`) | a circular list of `task`s, `current`, `g_ticks` | `schedule` with `reap_dead`, `sched_tick`, `task_create`, `task_create_user`, `fork_current`, `wait_current`, `exec_current`, `task_sleep`, `task_exit`, `task_yield` | a dead task still owns the stack and page tables in use; parents are raw pointers that outlive their task; `task_sleep` and `task_exit` run with interrupts on; a search loop that must find something | the ring and the heap agree; no wake-up is lost; nobody frees what runs; no task starves |
| Kernel heap (`kernel/heap.cpp`) | an address-ordered list of blocks | `kmalloc` (first fit, split), `kfree` (coalescing) | splitting and merging at boundary sizes; fragmentation | the blocks tile the arena; live allocations never overlap; a request fails only if no gap holds it |
| Frames and page tables (`kernel/pmm.cpp`, `kernel/vmm.cpp`) | a bitmap and a counter; four-level tables in frames | `pmm_init`, `pmm_alloc_frame`, `pmm_free_frame`; create, map, clone, destroy | ragged memory maps; running out in the middle; walks that must meet each frame once | every frame in use has one owner; programs see memories of their own |
| Program loading (`kernel/elf.cpp`, `spawn` in `kernel/kernel.cpp`, `exec_current`) | none of its own | build a space, copy the segments, map the stack | no result is checked | as for frames |
| Munin in RAM (`kernel/munin.cpp`) | inode table, block bitmap, blocks | create, unlink, truncate, read, write, path lookup | direct and indirect blocks; failures halfway | bitmap, inodes and directories agree; files hold what was written |
| Files of a task (`kernel/vfs.cpp`, `kernel/idt.cpp`) | a descriptor table per task | open, close, read, write, mkdir, unlink, sync | descriptors of removed files; cursors after short writes; which calls flush | what succeeded is on disk; Munin is a tree of files |
| Munin on disk (`munin_flush`, `munin_mount`) | superblock, inode sectors, bitmap sector, a sector per block | flush after each changing call, mount at boot | power cuts between sectors; device errors nobody looks at | a restart finds what the last finished flush saved |
| Keyboard and serial line (`kernel/kbd.cpp`, `kernel/serial.cpp`) | `g_shift`, a ring of characters, the UART's FIFO | IRQ 1, `SYS_READ` | full against empty; two sources for one reader | a bounded queue |
| Terminal window (`kernel/term.cpp`) | a grid, a cursor, an escape parser | `term_putc` | wrapping, scrolling, sequences split across writes | what is shown is what was written |
| Shell (`huginn.cpp`) | the line, its history, the working directory | `read_line`, `resolve_path`, commands by fork, exec and wait | arrow keys that arrive in pieces, or never finish; lines recalled over others | what the screen shows is what Enter runs |
| Interrupts and system calls (`kernel/idt.cpp`) | the IDT | `isr_handler` dispatches | what is done after the call: flush, `schedule` | each case does what its part promises |
| Disk driver (`kernel/vblk.cpp`, `kernel/pci.cpp`) | a virtqueue, one request's buffers | `vblk_init`, `vblk_read`, `vblk_write` | polling an index the device moves; no limit to the wait; a disk that is not there | each request gets its own answer, and gets it |
| Mouse and windows (`kernel/mouse.cpp`, `kernel/window.cpp`) | packet bytes, position and buttons; windows in z-order, the one being dragged | IRQ 12, the boot task's loop | bytes get lost; the loop reads one by one what IRQ 12 changes | packets are told apart again; a press finds what is shown; a drag keeps hold |
| Drawing (`kernel/gfx.cpp`, `fb.cpp`, `font.cpp`, `console.cpp`) | the back buffer, the screen | fill, outline, text, present | windows that hang off the screen | each pixel is its topmost window's |
| Processor tables (`kernel/gdt.cpp`, `pic.cpp`, `boot/`) | fixed tables | set up once | - | - |
| Locks (`kernel/spinlock.hpp`) | - | included by nothing | - | - |
| User programs (`one.cpp`, `two.cpp`, `echo.cpp`, `help.cpp`, `clear.cpp`) | none | print and exit; `two` calls `exec`, and prints for ever if that fails | - | - |

How the parts meet.  `isr_handler` calls the scheduler (timer, yield, exit,
fork, wait, exec), the descriptor layer (files) and the keyboard's ring
(`SYS_READ`).  The scheduler takes task structs and stacks from the heap and
address spaces from `vmm`, which takes frames from `pmm`.  The descriptor layer
calls Munin and then `munin_flush`, which calls the disk driver, one sector at a
time.  The shell sees all of it through system calls, and its echo ends in the
terminal window, which the boot task paints.  `PROJECT.json` lists every
component, and the hazards of the code each at its line.

## 2. The modules

| Module | What it models | Depends on |
|---|---|---|
| `Ring` | the circular task list as a sequence told from `current` on: unlink, turn, insert | |
| `Sched` | the scheduler, the timer and the process system calls | `Ring`, `TaskLife` |
| `TaskLife` | abstract: what a task may live through | |
| `SchedProofs` | the theorems about the ring and the scheduler | `Sched` |
| `Heap` | `kmalloc` and `kfree`, and the way the scheduler uses them | `Allocator` |
| `Allocator` | abstract: disjoint allocations that nobody else takes away | |
| `HeapProofs` | the theorems about the heap | `Heap`, `Induction` |
| `Frames` | frame bitmap, page tables, spawn, fork, exec, reap | `UserMemory` |
| `UserMemory` | abstract: a memory of its own per process, and what each call does to it | |
| `FramesProofs` | the theorems about frames and page tables | `Frames`, `Induction` |
| `Munin` | the filesystem in RAM, as operators on its value | |
| `Vfs` | descriptor tables and file system calls over `Munin` | `Munin`, `FileTree` |
| `FileTree` | abstract: a tree of paths, files of bytes | |
| `MuninDisk` | flush and mount, sector by sector, with accidents | `Munin` |
| `MuninProofs` | what the operations of `Munin` keep | `Munin`, `Induction` |
| `FileProofs` | the theorems about the calls of tasks, and about the disk | `Vfs`, `MuninDisk`, `MuninProofs` |
| `Vblk` | the disk driver and the device, access by access | `SectorDisk` |
| `SectorDisk` | abstract: a store of sectors, one request at a time | |
| `Term` | the terminal's grid, as operators on its value | |
| `Console` | the keyboard's ring, the UART, the shell's line editor, the terminal | `Term`, `KeyQueue` |
| `KeyQueue` | abstract: a bounded queue of characters | |
| `ConsoleProofs` | the theorems about keyboard, shell and terminal | `Console`, `Induction` |
| `Windows` | the window manager and the painting under it, as operators on values | |
| `Desktop` | the mouse, and the boot task's loop that reads it | `Windows` |
| `DeviceProofs` | the theorems about the two devices, mouse and disk | `Desktop`, `Vblk`, `Induction` |
| `Induction` | induction on numbers, in a form that the provers can use | |
| `MC*` | constants for TLC: programs, memory maps, paths, keys, symmetry sets | |

A definition whose comment says "Mutant" is not part of any specification.  It
is the definition after it with a plausible slip in it, kept to show that the
properties notice.

### Scheduler: `Sched`

`ring` is the circular list told from `current` on, so `ring[1]` is `current`
and `schedule` ends by turning it.  `state`, `parent`, `kstack`, `pml4` and
`wake` are the fields of `task`, kept for freed structs too, because the code
reads them through stale parent pointers.  `wake` counts down to 0 instead of
comparing `wake_tick` with `g_ticks`.  `spaces` and `cr3` are what `vmm` holds.
`kpc` says where a kernel thread stands in `task_sleep` or `task_exit`: each of
their stores is an action of its own, because a tick may fall between two.
`orphan` is a history variable: the struct's parent has been reaped.

Each handler is an action: `Tick`, `Yield`, `Exit`, `Fork`, `Wait`, `Exec`.  All
but `Fork` and `Exec` end in `Schedule`.  From a `current` that is a task this is a
`Pass`: `reap_dead`, the pass over the sleepers, and the search for a RUNNABLE task.
If the search would not end, there is no step, and the deadlock check reports it.

Addresses are abstract: structs and stacks are numbered, and `StructAt` and `StackAt`
give the lowest that is free, or 0, the null pointer, when none is.  That first fit
keeps structs and stacks in such slots is `PairsStable` of `Heap`, which is proved.
`kstack` and `stacks` are variables of their own: that a struct has the stack behind
it is not in the definitions, it is what the order of allocation and release gives.

Nobody looks at what `kmalloc` answers (`kernel/sched.cpp:166-168`), so with the
heap full a fork makes a task whose struct lies at address 0, which is memory like
any other under the identity map.  The model follows it.  As long as others have the
CPU it is a task of the ring.  When it gets the CPU, `current` is null and
`schedule` returns at once (`kernel/sched.cpp:238`), at every tick: `NoPass`.
Nothing is reaped, woken or switched any more, `sched_kill_current` does nothing
(`Killed`), and what goes on is that task alone.  A second fork at address 0
overwrites the struct and its link (`ForkOver`).  If another task forked, the ring
is cut: the loops of `schedule` that look for `current` do not end.  From there on
(`cut`) the model stops following.  Tasks made without a stack all push their frames
below 16 KiB; what they do to each other there is not followed, since registers are
not modelled.  `Stuck` names these two ends of scheduling, and the liveness
properties speak of what happens until then.

### Heap: `Heap`

`blocks` is the list with byte addresses and sizes; `Kmalloc` and `Kfree` are
functions of it.  The clients are the scheduler (a struct, then a stack; freed in
the other order) and one that asks for anything in `Sizes`.

### Frames: `Frames`

Memory is `ram.word[f]`, a row of words per frame, and a word is whatever the
code reads it as: an odd one is a present entry.  So a page that still holds old
data, used as a table without being cleared, would go wrong in the model as
it would in the machine; and the null frame that an exhausted `pmm` answers is
frame 0, read and written as the code does.  `PmmInit` translates `pmm_init`
from the memory map.  `Spawn`, `Fork`, `Exec` and `Reap` are the whole paths
through `vmm`, `elf` and `sched`; their loops are functions of the number of rounds.
`ram.short` is a history field: `pmm` has had to answer `nullptr`, and `call` is a
history variable: the last call and what it was given.

What `UserMemory` asks of a call depends on which call it was: a spawned program's
memory holds its image (`Image`) and the stack's pages and nothing else, that of one
started by `exec` also argv; a child's holds what its parent's holds, the same pages
with the same words; a store changes one word of one memory; and all other memories
stay as they were.

A virtual page is the path of its four indices, and the tables have their four
levels, each of `Entries` words.  Of the kernel's half there are the tables and the
heap's pages, all taken at boot (`kept`); every space shares it by the
entry for index 0, so a program's pages are those whose path starts elsewhere.

### Files: `Munin`, `Vfs`

A filesystem is `[ino, used, blk]`: the inode table, the bitmap and the blocks,
each block holding bytes or directory entries.  `CreatePath`, `Unlink`,
`Truncate`, `ReadInode` and `WriteInode` follow the functions of the same name,
failures halfway included.  In `Vfs` every system call is one action with its
flush; `flushed` says whether the disk has what RAM has.  `Fork` and `Exit` copy
and drop descriptor tables.

### Disk: `MuninDisk`

`Call` starts a flush: `todo` is the list of sectors in the order of `munin_flush`.
`WriteSector` writes the next one; `LoseSector` is a request the device failed,
whose status nobody reads; `PowerCut` may fall before any sector; `Boot` is
`kmain`'s mount, or format when there is no superblock, and `BootUnread` the same
when the read of the superblock fails.  `BootMisread` is a later read that fails:
the sector read before it is taken for the one asked for, and the next flush writes
it to the disk.  The inode size does not divide 512, so an inode may lie across two
sectors, split between any two of its words; the instance has one that is split
between its two direct pointers.

### Driver: `Vblk`

The processor's accesses to the queue are steps of their own, because the device
runs beside it: `Publish` (request, buffers, ring entry and index), `Sample`
(`before = *used_idx`, *after* publishing), `Notify`, `Poll`.  The device has
`Take`, `Serve`, which may fail with part of the work done, and `Complete`, which
moves the used index.  `eager` devices look at the ring whenever they like, the
others when they are notified; QEMU's do the latter unless its I/O thread polls.
`VblkInit` may find no device or a queue of a bad size.  `kmain` goes on all the
same, so the first request divides by zero (`DivideByZero`) or works on null
pointers, where the available and the used index are the same word.

### Mouse and windows: `Desktop`, `Windows`

`mouse` is the state of `mouse_irq`, which is applied to each byte of a packet
that is not lost; the bytes are numbers, since what tells a first byte from others
is a bit of them.  `ReadX`, `ReadY` and `Frame` are one pass of the boot task's
loop, and packets may come between any two.  `hand` is a history variable: where a
mouse understood from the start, or from the last resynchronisation, would be.
`Windows` has `window_handle` with hit-testing and raising, and
`window_compose` down to the words of the back buffer, whose rows follow each other:
a column beyond the right edge is the start of the next row.

### Console: `Console`, `Term`

`ring`, `head` and `tail` are `kbd_buf` and its indices; a step of the shell is
one byte, read and acted on.  Between two such steps interrupts only add to the
ring, so they may as well come after; nobody else writes to the terminal.  `pc`
says whether `read_line` is at a byte of the line, after ESC, or after ESC [.
`GiveUp` is `read_byte_bounded` running out of tries, whenever nothing has
arrived.  `start`, `over`, `spoilt` and `ran` are history variables.

A character is an element of `Glyphs`, or the name of a control character.
What commands print is any of `Outputs`, and may be anything: `cat` prints files
as they are, and programs what they like.  `Orderly` says what huginn's own
commands print: text that stays in no escape sequence and goes back over no row,
or `clear`'s two sequences.  Once something else has been printed (`spoilt`), the
cursor may stand among old characters, or the terminal may take the prompt for
the end of a sequence, and nothing more is claimed of the screen.

## 3. The runs

| Run | Configuration | What it asks, and what it shows |
|---|---|---|
| `sched_tasks` | `MCSched.cfg` | Every interleaving of ticks, system calls and kernel threads: `RingSound`, `WaiterHasChild`, `SpacesSound`, `OwnKernelStack`, `SleepHonoured`, `ReapSparesCurrent`, and the refinement of `TaskLife`, also with the heap full and the task at address 0 as `current`; with ticks that keep coming, `ReadyRuns`, `ExitsNoticed` and `SleepersWake`, until the task at address 0 ends scheduling. Hold. |
| `sched_orphan` | `MCSchedOrphan.cfg` | Does `wait` wait for the caller's own children? No: finding 1. |
| `heap_blocks` | `MCHeap.cfg` | `ListSound`, `FailsOnlyWhenFull`, `PairsStable`, and the refinement of `Allocator`. Hold. |
| `frames_owned` | `MCFrames.cfg` | On a ragged memory map, with frames to spare: `BitmapSound`, `FramesOwned`, and the refinement of `UserMemory`. Hold. |
| `frames_short` | `MCFramesShort.cfg` | Does the low memory stay reserved when frames run out? No: finding 2. |
| `vfs_calls` | `MCVfs.cfg` | Two tasks on the same few paths until inodes and blocks run out: `FilesSound`, `OnlyFailedCallsUnflushed`, and the refinement of `FileTree`. Hold. |
| `vfs_read` | `MCVfsRead.cfg` | Does a read reach the end of a large file? No: finding 3. |
| `munin_disk` | `MCMuninDisk.cfg` | Accidents between any two sectors: `RestartKeeps`, `CorruptOnlyIfTorn`, `BystandersSurvive`. Hold. |
| `munin_torn` | `MCMuninTorn.cfg` | Is what is mounted a filesystem? Not after a power cut in the first flush: finding 4. |
| `vblk_requests` | `MCVblk.cfg` | The driver against every device: `StopsOnlyIf` (when the machine can hang in it), `RequestReturns`, and the refinement of `SectorDisk`. Hold; an eager device can hang the machine, and `StopsOnlyIf` says exactly when. |
| `console_line` | `MCConsole.cfg` | Keys and serial bytes in any order: `ShownIsLine`, `HistoryIsRecent`, and the refinement of `KeyQueue`. Hold. |
| `desktop_drag` | `MCDesktop.cfg` | Packets whole or torn at any point of the loop: `FollowsHand`, `DragSound`, `PressesWhatIsShown`. Hold. |

Each passing run also checks its module's type invariant.

### Bounds, and why they are enough

* **Scheduler.** A heap of 2 pairs, at most 4 tasks, sleeps of up to 2 ticks, one
  spawned program and one kernel thread.  So the boot task and two others
  fill the heap, and the fourth task is one at address 0: forks meet the full heap, the
  task at address 0 gets the CPU and keeps it, a second one overwrites it, and before
  that, room is made again by exits and reaps.  A freed struct is given to another task
  while an orphan still names it.  Two ticks tell "not yet" from "now".  `Loose`
  is 0: structs that still fit where no stack does (one more of them
  takes TLC past the time this run should take) are left to the proofs.  TLC checks
  liveness without symmetry, which keeps this small; the proofs of section 5 have
  none of these bounds.  `sched_orphan` has 3 pairs and 4 tasks.
* **Heap.** An arena of 240 bytes with headers of 24, as `sizeof(block_header)`
  is; sizes 0 (refused), 9 (rounded up) and 30 (too small a remainder to
  split), with structs of 8 and stacks of 24.  Several blocks are live and
  several free at once, so blocks merge with both neighbours.
* **Frames.** Frames of 4 bytes with 2 entries, 2 spaces at once, 4 made in all:
  enough for every path to meet frames that others have used and freed.  The
  memory map has a hole and ends that are off the grid.  When 4 spaces have been made and
  all have exited nothing is left to do, so this run does not check deadlock.
* **Files.** 3 inodes (one is the root), 4 blocks of 3 bytes, 2 direct and 1
  indirect pointer, one entry to a directory block, one descriptor to a task,
  writes of 4 bytes: writes straddle blocks, reach the indirect one, and inodes,
  blocks and descriptors all run out.
* **Disk.** 5 inodes (the four that `kmain` makes and a free one) in 2 sectors, 6
  blocks, 4 calls and 2 accidents over any number of restarts: an accident while
  recovering from another, a failed read included.  At these bounds the system may
  stop, so deadlock is not checked.
* **Driver.** 2 sectors and one address beyond them, 2 values, a queue of 2
  (`QueueMax`), as well as none, one of size 0 and one of 3; indices of 3 values,
  which do not divide evenly by the queue's size and wrap often.  A request that
  stops the machine is an end, so deadlock is not checked.
* **Desktop.** A screen of 4 by 3, three windows of which one hangs off the right
  edge and two pairs overlap, title bars of one row; 6 packets out of 11 (a step in
  each direction with and without the button, a press and a release in place, one
  that has overflowed), one with any of its bytes lost, or an answer left over from
  `mouse_init`.  Six packets reach a press, a drag off the screen, a release and a
  press on another window.  -1 is sent as 255, a movement byte that can be taken for
  a first one.
* **Console.** A terminal of 5 columns and 2 rows, a ring of 3, a UART of 2,
  lines of 3, a history of 2; 4 keys typed and 3 serial bytes sent, which is one
  whole arrow key.  Lines wrap and scroll, the ring, the line and the history
  fill up.  Commands print text with a tab, a DEL and two rows; or `clear`'s
  sequences; or three letters and a return, after which the prompt overwrites
  two of them.

### Fairness

`sched_tasks` assumes weak fairness of `Tick` and of `Sti`, nothing else.  The
timer interrupts at 100 Hz whatever runs; handlers end; and all that runs outside handlers
(`kmain` after `sti`, kernel threads, user programs) runs with interrupts on, so
a tick is never put off for ever.  `kmain`'s way to `sti` does not wait for
anything of the scheduler.  No task is assumed to yield, to exit or to call
anything.

`vblk_requests` assumes weak fairness of the driver's steps (interrupts are off,
nothing else runs) and of the device's: one that has been notified
takes the request, and one that has taken it answers, if only with an error.  A
device that does neither hangs the machine, since the driver waits without a limit.

## 4. Findings

1. **`wait` may block for a stranger's child** (`kernel/sched.cpp:200`,
   `sched_orphan`).  Nothing clears a child's `parent` when the parent is
   reaped; the next fork reuses the struct, and the orphan then counts as a child
   of the new task.  `sched.hpp:47-49` says that `wait()` blocks "until one of
   its children exits" and returns immediately without live children.
2. **The null frame is used** (`kernel/vmm.cpp:109`, `frames_short`).  With memory
   out, frame 0 becomes a page or a table of a program, and is freed with it.
   `pmm.cpp:98` calls the first 1 MiB "what we must never hand out".
3. **Files end at 4 KiB for readers** (`kernel/munin.cpp:370`, `vfs_read`).
   `munin_write_inode` uses the indirect block, `munin_read_inode` stops at the
   direct ones.  `munin.hpp:54` gives 68 KiB.
4. **A torn first flush is mounted** (`kernel/munin.cpp:539`, `munin_torn`).  The
   superblock is written first and is all that `munin_mount` checks.
   `munin.hpp:61` says "true if a valid fs was found".

## 5. The proofs

Each theorem holds for every value of the constants that the assumptions of its
module allow: numbers are natural, and what must not be 0 is not.  Beyond that:

* `Heap`: a header's size is a multiple of 8, as `sizeof(block_header)` is, and a
  request is a natural number, so the sum in `align_up` does not overflow: that
  takes a request within 7 bytes of 2^64, which nobody makes.
* `Frames`: a table has at least two entries, and the memory map gives at least one
  frame (without one, frame 0 would lie beyond the bitmap).  The heap's pages are in
  one page table: the code's are the 512 of 2 MiB.  What programs store are words that are not
  entries, that is, even ones.  The pages of a program and its stack's lie outside
  the kernel's half, and differ: `user.ld` links programs from the start of PML4[1]
  and `userspace.hpp` puts the stack above them.  Two segments that shared a page
  would have `elf_load` map it twice and lose the first frame; the linker that the
  Makefile uses (`x86_64-elf`) keeps such sections in one segment.
* `Munin`: a dirent is no smaller than a cell (`Slots <= BlockSize`), so a directory's
  size counts no more dirents than a file has cells.
* `MuninDisk`: an inode lies in one sector or two that follow each other; the
  files `kmain` makes have names.
* `Vblk`: the index has at least two values.
* `Desktop`: the screen is no larger than the back buffer, since `gfx.cpp` clips to
  the one and writes to the other (`ScreenAssumption`).  A movement has nine bits.  The
  windows `kmain` creates are no more than `WIN_MAX`, have ids that differ and room for
  their title bars, and on the screen there is some of each bar
  (`DesktopAssumption`).  The last holds from 761 columns and 121 rows on, where
  `kmain`'s three windows start (`kernel/kernel.cpp:107`).
* `Console`: what keys and the serial line give are characters, the prompt is
  text, and no control character prints; a terminal's parameter has room for a
  digit, as `g_param`'s 32 bits have (`TermAssumption`).

### What is proved

| Module | Theorem | Statement |
|---|---|---|
| `SchedProofs` | `TypeCorrect`, `RingSafe`, `NoLostWakeup`, `SpacesSafe`, `SleepSafe` | the invariants `TypeOK`, `RingSound`, `WaiterHasChild`, `SpacesSound`, `SleepHonoured` of `sched_tasks` |
| | `StacksSafe` | `OwnKernelStack`, for any number of tasks: the stacks handed out are the tasks' own, one each; without one are only tasks outside the pairs, which are made when the heap is full (`kernel/sched.cpp:168`) |
| | `ReaperSafe` | the action property `ReapSparesCurrent` |
| | `Refinement` | `Spec => ImplementsTaskLife` |
| `HeapProofs` | `TypeSafe`, `ListAlwaysSound`, `NoMemoryInPieces` | `TypeOK`, `ListSound`, `FailsOnlyWhenFull` |
| | `SlotsStable` | `PairsStable`, assuming `StackSize > 8`; `STACK_SIZE` is 16384 (`kernel/sched.cpp:12`) |
| | `KeepsPromise` | `Spec => ImplementsAllocator` |
| `FramesProofs` | `TypesHold`, `CountIsKept` | `TypeOK` and `CountInStep` of `frames_owned`, whether memory runs out or not |
| | `BitmapIsSound`, `FramesAreOwned` | `Spec => [](~ram.short => ...)` of `BitmapSound`, `FramesOwned`: they hold until `pmm` has run out |
| | `SpacesAreApart` | `Spec /\ [](~ram.short) => ImplementsUserMemory`: each process has a memory of its own, with the contents the calls promise |
| `FileProofs` | `TypeSafe`, `AlwaysWellFormed` | `TypeOK`, `FilesSound` of `vfs_calls` |
| | `DiskTypeSafe`, `RestartFindsSaved`, `RunsWellFormed`, `OthersSurvive` | `DiskTypeOK`, `RestartKeeps`, `CorruptOnlyIfTorn`, `BystandersSurvive` of `munin_disk` |
| `DeviceProofs` | `DesktopTypes`, `MouseFollows`, `DragsHold` | `TypeOK`, `FollowsHand`, `DragSound` of `desktop_drag` |
| | `PressesShown` | the action property `PressesWhatIsShown` |
| | `DiskTypes`, `HangsOnlyIf` | `DriverTypeOK`, `StopsOnlyIf` of `vblk_requests` |
| | `ImplementsDisk` | `DriverSpec => ImplementsSectorDisk` |
| `ConsoleProofs` | `TypeSafe`, `LineIsShown`, `HistoryKept` | `TypeOK`, `ShownIsLine`, `HistoryIsRecent` |
| | `RingIsQueue` | `Spec => ImplementsKeyQueue` |

Each of these modules has a theorem `Spec => []IInv` (`Invariance` in
`SchedProofs`, `DesktopInvariant` and `DiskInvariant` in `DeviceProofs`, `Invariant`
and `DiskInvariant` in `FileProofs`, `Invariant` in the others), from which the rest
follow.  TLC has checked each `IInv` on the instances of section 3; that of
`FramesProofs` asks for levels, for which TLC was given the distances from the root.

"Until `pmm` has run out" in the theorems on frames cannot be left out, and is
finding 2: with the little memory of `frames_short`, TLC finds each of the three
violated once frame 0 has been used.

### Induction and recursion

The library's induction theorems take a predicate as a parameter, which the provers
cannot instantiate.  `Induction` has them with a set instead: a set of numbers that
has 0, and with each number the next, has them all (`AllOf`, and `UpTo` a bound).
`LeastOf` comes first: of the intervals from 0 to the elements of a set of numbers,
one has no other inside, since the subsets of a finite set are well founded under
inclusion.  Recursion in the models is a function (`Shown`, `Distinct`, the
passes of the heap, the loop over a file's blocks); that the function exists is
a lemma about it by the same induction (`ShownRuns`, `DistinctRuns`), and what it
computes is another.

### Scheduler

`IInv` is the conjunction of the invariants and four facts they do not imply.
`KernelTasks`: the boot task and kernel threads run in the kernel's space; without
it, freeing a dead task's space could free the kernel's.  `CurrentRuns`: the task
that runs is RUNNABLE, but between the store and the yield of `task_sleep` or
`task_exit`, or it lies at address 0 and `wait` did not stop it; without it `Wait`
could overwrite a state nobody foresaw.  `SleepSound`: a thread with ticks left is
asleep, unless it has written only `wake_tick`; `SleepHonoured` speaks of the
running thread alone and is not inductive.  `StacksOfPairs`: a struct of a pair has
that pair's stack and any other has none; `OwnKernelStack` alone would let the heap
hand out structs and stacks in different orders.

The argument has three layers.  First, what the sequence operators of `Ring` do for
sequences of every length: `SurvivorsSound` (unlinking the dead keeps the others
once each, in a ring that still starts with `current`), `RotateSound`,
`InsertNextSound`.  Then `ScheduleType`, `ScheduleRing`, `ScheduleWaiters`,
`ScheduleSpaces`, `ScheduleSleepers` and `ScheduleStacks` show what a pass of
`schedule` preserves, given what each caller owes it (`HandlerOwes`): that it has
changed no state but `current`'s, and that a task put to WAITING has a child in the
ring.  Last, one lemma per action (`TickIInv`, `ExitIInv`, ...) shows that its
handler meets those terms.  With the task at address 0 as `current` there is no
pass, and only that task's own state may have changed: `NoPassKeepsIInv`.  That a
new struct and its stack are of one pair, or the struct of none, is `StackGiven`:
both are taken from the lowest place, and each pair is free or held as a whole.  No
lost wake-up is the subtle one: a parent blocks only if it has a child alive in the
ring, the child leaves the ring only through `reap_dead`, and `reap_dead` wakes
whoever the child names before it is gone.

`Refinement` maps a task to the phase none, ready, blocked or exited.  Each pass
of `schedule` is a `Dispatch`, each creation a `Create`, the stores of
`task_sleep` and `task_exit` a `Mark`, and the rest stutters; so does a `schedule` that
returns at once (`NoPassStays`).

### Heap

Between two calls the list is `Good`: it tiles the arena (`Chain`), in steps of 8
bytes (`Aligned`), no two free blocks are neighbours (`Apart`), and its
taken blocks are just the clients' allocations (`Agree`).  `ListSound` says less, and
is not inductive: a free of a pointer needs its block to be there.  `Apart` is for
`FailsOnlyWhenFull`.  Take a gap between taken blocks that the request and its
header would fit.  The block at the gap's start is free, and too small, or
`kmalloc` would have taken it; so it ends inside the gap, and the block behind
it, which `Apart` says is taken, starts there.  `CoalesceSound` is what
`kfree`'s merging does to a list of any length.  `KeepsPromise` follows from `Chain`:
blocks at different places of the list do not overlap.

`SlotsStable` is about where blocks lie, and its invariant `OnSlots` says where all
of them do, as long as only the scheduler uses the heap (`Layout`): the boot task's struct
comes first; each slot is filled by its task's struct and stack, or no block reaches
into it; and a task without a slot is a struct behind them all.  Two lemmas speak of first
fit.  `LowestGap`: if every byte below x is taken and the gap at x holds the
request, `kmalloc` answers x, and the block has the size asked for if what is left can
be split off.  `TakenBehind`: a block is never handed out below x.  So a new task
gets the lowest free slot (`SlotTaken`): its struct's block is split, because the stack's
bytes follow, and its stack's block ends where the next slot starts, because that
slot is held or long enough to split.  When all are held, what is left of the
arena has no room for a struct and a stack (`NoSlotLeft`).  With a stack of 8 bytes or
fewer it is false: in a slot between two others the struct's block is not split,
so it swallows its stack's bytes.

### Frames

Tables, pages and free frames are rows of words in one memory, and programs write
to some of them.  So the first thing to show is that a word stays a word (`Mem`): one
that can be taken for an entry names a frame there is.  That needs no
more than types, so it holds even when frame 0 is used as everything at once;
`TypesHold` and `CountIsKept` rest on it alone.

The tables under a root are a `Tree`: its frames have levels, 0 for the root and 4 for
pages; an entry that counts as the space's own (`Slot`: not the root's entry 0, which is
the kernel's) names a frame of the next level; and each frame but the root is
named by one entry.  The levels are what keeps tables and pages apart, and the one
entry is what makes two walks end in different frames (`WalkOnce`).  `Forest`: the
frames in use are the kernel's and those of the spaces' trees, and no frame is of
two.

`PutPageIs` is the step everything is made of: a frame is taken and `map_in` hangs
it into the tree, with the up to three tables that were missing.  Each of
those comes from `alloc_table` cleared, so it names nothing (`DownIs`); had it
not been, what its frame was used for before would be entries of this space.
The loops of `elf_load`, the stack and the clone are rounds of `PutPage` (`Puts`), and
`PutsIs` says by induction what is mapped after each.  For the clone, `PathOnce`
and `PathOnto` show that the four nested loops come to every path once; so the child
has what the parent has, in frames that were free (`Cloned`).

`TreeIsOwned` says that the walk of `vmm_destroy_address_space`, level by level,
finds the frames of the tree and no others.  `ForestGrows`, `ForestCut` and
`ForestStored` then follow the set of spaces through a creation, a destruction and a
store; in `exec` the first comes before the second.  `TreeNames` is the count of
entries that `FramesOwned` has.

At boot, `PmmIs` is about the rounding: after the three passes a frame is free only
if all of it is in a region the map calls available, and none of it reserved
(`Usable`).  All frames handed out later were free then, and `kept` is never given
back.

For `SpacesAreApart`, a space that a step does not work on keeps its pages and what
is in them (`Kept`): its frames are in use, so nothing puts them into
another tree, and no other tree has them, so nothing written elsewhere is written here.
What the new memory of a step holds is asked for word by word.  After `elf_load` and
the stack it has the image, zeros behind it, and the stack's pages with whatever their
frames were left with (`ElfLoaded`, `StackAdded`); `exec` stores argv on the stack's last
page.  A clone has its source's pages with the same words (`Cloned`), and a store
(`ForestStored`) changes one word of one page of one memory.  A fork that copied nothing,
or part of a page, would not be a step of `UserMemory`.

### Filesystem

`WellFormed` counts uses and dirents, which is good to read and bad to reason
about.  `MuninProofs` says the same as `Good`: by what each inode names in each
place (`Use`) and what is in each slot (`Ent`).  Its part `Blks` is about blocks
(each one in use is named once, and is what it is named for), `Rooted`
about the tree (each inode in use but the root has one entry, in
a directory, which counts its entries), `Sized` about sizes.  `WellFormedIsGood`
shows that `Good` asks no more than that.

An operation is a few of six primitive changes: `Linked` (a block comes into use),
`Freed` (an inode gives its blocks back), `Edited` (what is in blocks changes),
`Swapped` (an inode without blocks becomes another), `Joined` and `Parted` (an inode
gets or loses its dirent).  Each is a lemma.  `Good` has two parts because between
two of them the tree is not whole: `munin_create` has an inode before it has a
dirent, and takes it back when the directory cannot grow; `munin_unlink`
empties the slot before the inode is freed.  `Blks` holds all the way.  The failures
halfway are what the lemmas are for: `WritesIs` holds wherever the loop over
the blocks stops.

In `Vfs` the invariant says nothing of which inode a descriptor names, because a
descriptor may outlive its file and name the one that got its inode number, or a
directory.  So `WriteKeeps` is for every inode that can be named.

### Disk

With `MuninDisk` the question is what a disk has on it that several flushes have
written parts of.  `Mixed(disk, saved, tried)` says: each part of the disk comes
from `saved`, the filesystem of the last flush that was not hit, or from one of
`tried`, those of the flushes and misreadings since.  The parts are the words of the
inodes, since an inode may be split between any two of its words; the bitmap; and
the blocks that `saved` has in use.  A flush that has lost nothing also has on disk
all it has been through (`Kept`), so when it ends it becomes `saved`.
`RestartKeeps` is the case of no `tried`; `BystandersSurvive` that of an inode that
all of `tried` agree on.  Blocks that are free in the filesystem flushed are not
written, and may hold anything; `Mounted` has Junk there.

The attempt to prove `BystandersSurvive` found that it said too much: after a torn
flush an inode may be free and still have pointers, to blocks that no longer are
as they were.  It now speaks of the blocks that an inode has (`Holdings`), and a
free inode has none, whatever it names.

### Driver

A request is unseen by the device, in its hands, or finished, and the indices
`avail`, `taken` and `used` say which (`LiveInv`).  `before` is one behind `avail`
unless the device was quicker than the driver's look at `used`: that is the
race `StopsOnlyIf` is about.  A device that waits for its notification has one when it is
due (`PatientInv`), so only an `eager` one can be so quick.  What lies in memory is the
answer to this request (`AnswerInv`), since it is written once, before `used` moves.
That the index after another is not the same one, for any number of them but 1, is
`NextIndex`.

`ImplementsDisk`: the device's `Serve` is the disk's step, the return of
`vblk_read` and `vblk_write` its answer, and the rest stutters.

### Mouse and windows

Three questions, an invariant that answers two of them, and a theorem about painting.

*Does the pointer follow the hand?*  `FollowsHand` is inductive with the types of the
packet's bytes (`Mice`).  `CompleteIs` says that the three bytes of a packet give the
movement back that `Encoded` put in, sign bits and two's complement.  `WholeIs` is a
packet that starts at a first byte.  `QuietIs` is the one that puts a mouse out of
step right again: whatever is left over, of its three bytes only the first can be
taken for a first one, so after the last the phase is 0 and the position is the
packet's, whether it came with one byte before it or two.

*Does a drag keep hold?*  `DragSound` speaks of the pixel at the pointer and of
every bar.  The invariant says it in coordinates (`Sound`, `Gripped`): the
dragged window is the top one, and holds the pointer, on its bar, at the
offset of the press.  So a dragged window's bar is always on the screen where
the pointer is, and `BarsReachable` follows, since the others do not move
(`HandleIs`).  The pointer's coordinates may be of two packets, but each is on the
screen, which is all that is needed.

*Is what is pressed what is shown?*  `window_compose` paints words, and hit-testing
compares coordinates.  `FillRectIs`, `PaintIs` and `ComposeIs` follow the words of any
pixel through the loops: on a screen no wider than the buffer's rows, different pixels are
different words (`WordIs`), so a pixel of the screen has the id of the last
window painted over it.  That is the window `TopmostAt` finds (`ShownIs`,
`TopmostIs`).  `RaiseKeeps` and `RaiseOrder` say that the list shuffled by
`window_raise` has the same windows, in the same order but for the one raised.

### Console

`IInv` has a part per thing.  `QueueInv`: `Held`, what the ring has between `tail`
and `head`, is a sequence of characters.  `HeldIs` tells it without
remainders; then `PushHeld` and `ReadHeld` say that a push is an `Append` and a read
a `Tail`, and `FullHeld` that a ring of n slots is full at n - 1.  That is
`RingIsQueue`.

`LineInv`, unless `spoilt`: the terminal is `Clean`, that is, expects no rest of an
escape sequence and has nothing from the cursor on, in its row or below.
`ShownIsLine` alone is not inductive: a line that has wrapped (`over`) is
followed by another that has not, and what was beyond the cursor then is beyond
the next prompt.  `Clean` is kept by every text (`TextIs`): a tab draws blanks, a
new line at the bottom scrolls a blank one in, `\b` blanks what it leaves, and the
one step that breaks it, CR, is followed by a new line.  `EchoIs` and
`RuboutsIs` then say where characters stand, as long as the row does not end.

`HistoryInv`: the history is `Recent(Distinct(ran))`.  `HistPushIs` shows that
`hist_push` commutes with both: dropping the oldest of a full history is the
same as keeping the last `HistMax` of one more, and comparing with the last
one kept is the same as comparing with the last one entered.

### Only model-checked

* Liveness (`ReadyRuns`, `ExitsNoticed`, `SleepersWake`, `RequestReturns`): the prover
  does not reason about fairness.
* That `frames_owned` has memory to spare, for its programs and its bounds; the
  theorems take it as a hypothesis.
* `Vfs`: `OnlyFailedCallsUnflushed` and the refinement of `FileTree`, which speak of the
  tree by paths; the proofs have it by inodes and dirents.

## 6. Assumptions between the models

* `Sched` rests on `PairsStable` of `Heap` for its slots, and on `Frames` for its
  opaque address spaces; its `Exec` is of a program that exists, with memory to
  spare.
* `Vfs` keeps a Boolean for the disk; `MuninDisk` shows what a flush is worth.
* A sector that `MuninDisk` writes or loses is a request of `Vblk` that succeeds or
  fails; one that fails leaves the sector as it was there, while `SectorDisk` allows the
  write to have landed.  A machine that hangs in the driver is a power cut.
* `MuninDisk` stops following a filesystem that was mounted torn (`"corrupt"`).
* A command of the shell prints any of `Outputs` and changes nothing else that
  `Console` has; what programs do to files and tasks is in `Vfs` and `Sched`.

## 7. What is not modelled

Of drawing, lines, glyphs, the cursor's shape and the framebuffer's set-up: they
have no control state.  The full-screen console is left out: its cursor and wrapping
are close to the terminal's.  The processor's tables and the PIC are fixed at boot.
The spinlock is included by nothing.  User programs are not modelled one by one: the
models let a task make any sequence of calls.  Within the modelled parts: registers
and their frames, the TLB, the kernel's own mappings, the bytes of programs, file
names of 32 characters or more (which are refused), the working directory, what is
in `argv` and in the static `argbuf` to which `exec` copies it, and serial output.
`two.cpp` shows what that leaves out: it calls `exec` with a name where
`exec_current` expects an argv, and does not set the count at all (`two.cpp:8`).
Depending on what the register holds, the call looks up whatever `argbuf` has from
an earlier one, or takes the name's bytes for pointers.  If `exec` returns, the
program prints for ever.  In the models an `exec` succeeds, or changes nothing.
Frames beyond the 1 GiB identity map would be written through unmapped addresses,
but the heap's 2 MiB bound the tasks long before the frames below are used up.  The
shell's `resolve_path` and `argv` are text all the way: at the level of path
components, which `Vfs` uses, they say nothing that could be wrong, and what could
be, the sizes of their buffers, would need them byte by byte.

Some details are coarser in the models than in the code:

* In `MuninDisk` a write starts at the file's beginning or at its end.  Writes at other
  offsets are in `Vfs`, where a flush is one step.
* `KeyQueue` leaves open which character a key puts in and does not name the one a
  read hands out.  The refinement is about the order and number of the characters.
* `hand`, which `FollowsHand` compares with, is set to what the mouse code has when
  a packet resynchronises it, since that packet's bytes may have gone to a garbled one.
  So its movement and button are not compared; those of the packets after it are.
* In `Vfs` a descriptor that outlives its file may write the next file with that inode:
  `FilesSound` says that the filesystem stays whole, not that the other file is spared.
* Neither counts nor errors returned by calls are compared with a specification:
  `FileTree` says what a call does to the tree.
* No code checks that the screen is as small as `ScreenAssumption` says.  The boot
  header asks for 1024 by 768 (`boot/boot.asm:24`) and a comment in `gfx.cpp:66` relies on
  it; a loader may give another mode.

## 8. Plan

The order was: the scheduler and its proofs first, since everything runs on it
and its interleavings are the hardest to test; then the heap it rests on; frames
and page tables; the filesystem, in RAM and on disk; the console; the disk driver;
the mouse and windows.  What is left:

1. *More proofs.*  `Vfs`: `OnlyFailedCallsUnflushed`, from what `MuninProofs` has on
   the operations, and the refinement of `FileTree`.
2. *More of the system.*  The text of the shell's paths, with the sizes of its
   buffers: a chain of `mkdir` and `cd` outgrows them.

## 9. Running

    tlasany Sched.tla
    tlc -workers 2 -config MCSched.cfg MCSched
    tlapm SchedProofs.tla

`tlapm` takes the other modules with `Proofs` in their names, and `Induction`, in
the same way.

Each configuration names its module in its file name: `MCSchedOrphan.cfg` is for
`MCSched`, `MCFramesShort.cfg` for `MCFrames`, `MCVfsRead.cfg` for `MCVfs`,
`MCMuninTorn.cfg` for `MCMuninDisk` and `MCVblk.cfg` for `Vblk` itself.
