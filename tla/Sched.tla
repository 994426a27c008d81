-------------------------------- MODULE Sched --------------------------------
(***************************************************************************)
(* The process scheduler of HrafnOS (kernel/sched.cpp with the timer and    *)
(* the system-call entries of kernel/idt.cpp).                              *)
(*                                                                          *)
(* One CPU.  Every handler runs behind an interrupt gate, with interrupts   *)
(* off, from entry to iretq, so one handler is one action.  Kernel threads  *)
(* run task_sleep and task_exit with interrupts ON, so each of their        *)
(* stores is a step of its own and a timer tick may fall between two.       *)
(*                                                                          *)
(* Addresses.  Only the scheduler calls kmalloc, and the first fit of the   *)
(* heap keeps to slots of a struct and a stack (module Heap).  0 is         *)
(* nullptr, 1 the boot task's struct (it has no stack of its own),          *)
(* 2..Pairs+1 are structs and, as addresses of stacks, the stacks behind    *)
(* them, and above lie the Loose structs that still fit in the tail of the  *)
(* arena when no stack does.                                                *)
(*                                                                          *)
(* Nobody looks at what kmalloc answers.  With the heap full a fork makes a *)
(* task whose struct lies at address 0, and every `if (!current)' of the    *)
(* code takes that task for none.  A second struct at address 0 overwrites  *)
(* the first and its next pointer; from there on (cut) the links are no     *)
(* ring, and the other variables stay as they were last.                    *)
(***************************************************************************)
EXTENDS Ring

CONSTANTS
  Pairs,        \* struct + kernel stack pairs the heap holds
  Loose,        \* structs that fit when no stack fits any more
  Spaces,       \* address spaces a user task can be given
  KSpace,       \* the kernel's own address space (vmm_kernel_space)
  MaxTasks,     \* bound: tasks in the ring at once
  MaxSleep,     \* bound: longest task_sleep, in ticks
  Spawned,      \* programs kmain spawns (kernel.cpp: 1, huginn)
  KThreads      \* kernel threads kmain creates (kernel.cpp: none)

ASSUME ConstantsAssumption ==
  /\ Pairs \in Nat
  /\ Loose \in Nat
  /\ MaxTasks \in Nat \ {0}
  /\ MaxSleep \in Nat
  /\ Spawned \in Nat
  /\ KThreads \in Nat
  /\ KSpace \notin Spaces

Null == 0
Boot == 1
Top  == Pairs + Loose + 1
Slot == 0 .. Top                        \* every address a task* may hold

VARIABLES
  ring,         \* the circular list from current on: ring[1] is current
  heap,         \* task structs kmalloc has handed out
  stacks,       \* kernel stacks kmalloc has handed out
  state,        \* task::state, also of freed structs (dangling reads see it)
  wake,         \* task::wake_tick - g_ticks, 0 once it has passed
  parent,       \* task::parent
  kstack,       \* task::kstack_base
  pml4,         \* task::pml4
  spaces,       \* user address spaces in existence
  cr3,          \* the active address space
  kpc,          \* where a kernel thread stands in task_sleep / task_exit
  started,      \* kmain has executed sti
  cut,          \* a second struct has been written to address 0
  orphan        \* history: the struct's real parent has been reaped

vars == <<ring, heap, stacks, state, wake, parent, kstack, pml4, spaces, cr3,
          kpc, started, cut, orphan>>

TaskStates == {"RUNNABLE", "SLEEPING", "WAITING", "DEAD"}
KPoints    == {"user", "run", "armed", "marked", "exiting"}

current    == ring[1]
IsUser(t)  == kpc[t] = "user"

\* Interrupts are on, and the links still make a ring.
Up == started /\ ~cut

TypeOK ==
  /\ ring \in Seq(Slot) /\ Len(ring) \in 1 .. MaxTasks
  /\ heap \subseteq Slot
  /\ stacks \subseteq Slot
  /\ state \in [Slot -> TaskStates]
  /\ wake \in [Slot -> 0 .. MaxSleep]
  /\ parent \in [Slot -> Slot]
  /\ kstack \in [Slot -> Slot]
  /\ pml4 \in [Slot -> Spaces \cup {KSpace}]
  /\ spaces \subseteq Spaces
  /\ cr3 \in Spaces \cup {KSpace}
  /\ kpc \in [Slot -> KPoints]
  /\ started \in BOOLEAN /\ cut \in BOOLEAN
  /\ orphan \in [Slot -> BOOLEAN]

-----------------------------------------------------------------------------
(* The heap, as the scheduler meets it.                                     *)

\* kmalloc(sizeof(task)): the lowest struct that is free, nullptr when none is.
StructAt(t) ==
  /\ t \in Slot
  /\ t \notin Members(ring)
  /\ IF t = Null THEN 1 .. Top \subseteq heap
     ELSE t \notin heap /\ \A u \in 1 .. t - 1 : u \in heap

\* kmalloc(STACK_SIZE): the lowest stack that is free, nullptr when none is.
StackAt(k) ==
  IF k = Null THEN 2 .. Pairs + 1 \subseteq stacks
  ELSE k \in 2 .. Pairs + 1 \ stacks /\ \A u \in 2 .. k - 1 : u \in stacks

-----------------------------------------------------------------------------
(* schedule(): reap_dead, wake the sleepers, take the next RUNNABLE task.   *)

\* Mutant: the reaper starts at current.
ReapedCurrentToo(st) == {t \in Members(ring) : st[t] = "DEAD"}

\* Mutant: a task is kept until its parent waits for it.
ReapedWhenWaited(st) ==
  {t \in {ring[i] : i \in 2 .. Len(ring)} :
     st[t] = "DEAD" /\ st[parent[t]] = "WAITING"}

\* The DEAD tasks reap_dead meets: it starts after current and stops at it.
Reaped(st) == {t \in {ring[i] : i \in 2 .. Len(ring)} : st[t] = "DEAD"}

\* Mutant: the reaper wakes nobody.
WokenNobody(st) == {}

\* Parents it finds blocked in wait().
Woken(st) ==
  {p \in Slot \ {Null} : st[p] = "WAITING" /\ \E d \in Reaped(st) : parent[d] = p}

\* Mutant: every sleeper is woken, its time up or not.
AfterReapEarly(st, wk) ==
  [t \in Slot |->
     IF t \in Woken(st) \/ (st[t] = "SLEEPING" /\ t \in Members(ring) \ Reaped(st))
     THEN "RUNNABLE" ELSE st[t]]

\* Task states after reap_dead and after the pass over the sleepers.
AfterReap(st, wk) ==
  [t \in Slot |->
     IF \/ t \in Woken(st)
        \/ /\ st[t] = "SLEEPING" /\ wk[t] = 0
           /\ t \in Members(ring) \ Reaped(st)
     THEN "RUNNABLE" ELSE st[t]]

\* Mutant: the search stops at any task that has not exited.
SelectedBlocked(r, st, k) ==
  /\ st[r[k]] # "DEAD"
  /\ \A j \in 2 .. Len(r) : st[r[j]] # "DEAD" => k # 1 /\ k <= j

\* Mutant: the search starts at current instead of current->next.
SelectedCurrentFirst(r, st, k) ==
  /\ st[r[k]] = "RUNNABLE"
  /\ \A j \in 1 .. Len(r) : st[r[j]] = "RUNNABLE" => k <= j

\* The k-th task of r is where `while (n->state != RUNNABLE)' stops: the first
\* after current, current itself last.  No such k: the loop never ends.
Selected(r, st, k) ==
  /\ st[r[k]] = "RUNNABLE"
  /\ \A j \in 2 .. Len(r) : st[r[j]] = "RUNNABLE" => k # 1 /\ k <= j

\* Mutant: reap_dead has gone on to the next task when it frees the stack.
FreedStacksOfNext(D) ==
  {kstack[ring[(i % Len(ring)) + 1]] : i \in {j \in 1 .. Len(ring) : ring[j] \in D}}

\* The stacks reap_dead gives back with the tasks of D.
FreedStacks(D) == {kstack[d] : d \in D}

\* schedule() from a current that is a task, with the states st and countdowns wk
\* its caller has left.
Pass(st, wk) ==
  LET left  == Survivors(ring, Reaped(st))
      after == AfterReap(st, wk)
  IN  /\ current # Null
      /\ \E k \in 1 .. Len(left) :
           /\ Selected(left, after, k)
           /\ ring' = Rotate(left, k)
           /\ cr3'  = pml4[left[k]]
      /\ state'  = after
      /\ wake'   = wk
      /\ heap'   = heap \ Reaped(st)
      /\ stacks' = stacks \ FreedStacks(Reaped(st))
      /\ spaces' = spaces \ {pml4[d] : d \in Reaped(st)}
      /\ orphan' = [t \in Slot |-> orphan[t] \/ parent[t] \in Reaped(st) \ {Null}]
      /\ UNCHANGED <<parent, kstack, pml4, started, cut>>

\* `if (!current) return rsp': for the task at address 0 schedule() does nothing.
NoPass(st, wk) ==
  /\ current = Null
  /\ state' = st
  /\ wake'  = wk
  /\ UNCHANGED <<ring, heap, stacks, parent, kstack, pml4, spaces, cr3, started,
                 cut, orphan>>

Schedule(st, wk) == Pass(st, wk) \/ NoPass(st, wk)

-----------------------------------------------------------------------------
(* Creation.                                                                *)

\* A new task at t, made by task_create, task_create_user or fork_current.
NewTask(t, space, par, point) ==
  /\ Len(ring) < MaxTasks
  /\ StructAt(t)
  /\ ring'   = InsertNext(ring, t)
  /\ heap'   = heap \cup ({t} \ {Null})
  /\ \E k \in Slot :
       /\ StackAt(k)
       /\ stacks' = stacks \cup ({k} \ {Null})
       /\ kstack' = [kstack EXCEPT ![t] = k]
  /\ state'  = [state EXCEPT ![t] = "RUNNABLE"]
  /\ wake'   = [wake EXCEPT ![t] = 0]
  /\ parent' = [parent EXCEPT ![t] = par]
  /\ pml4'   = [pml4 EXCEPT ![t] = space]
  /\ kpc'    = [kpc EXCEPT ![t] = point]
  /\ orphan' = [orphan EXCEPT ![t] = FALSE]
  /\ UNCHANGED <<cr3, started, cut>>

\* kmain's spawn(): the program is loaded into a fresh space and queued.
Spawn ==
  \E t \in Slot, s \in Spaces \ spaces :
    /\ ~started
    /\ Cardinality({u \in Members(ring) : IsUser(u)}) < Spawned
    /\ NewTask(t, s, Null, "user")
    /\ spaces' = spaces \cup {s}

\* task_create(): a kernel thread in the kernel's space, before sti, when the heap
\* still has a stack for it.
TaskCreate ==
  \E t \in 2 .. Pairs + 1 :
    /\ ~started
    /\ Cardinality({u \in Members(ring) \ {Boot} : ~IsUser(u)}) < KThreads
    /\ NewTask(t, KSpace, Null, "run")
    /\ UNCHANGED spaces

Sti ==
  /\ ~started
  /\ started' = TRUE
  /\ UNCHANGED <<ring, heap, stacks, state, wake, parent, kstack, pml4, spaces, cr3,
                 kpc, cut, orphan>>

\* Mutant: nobody looks whether the clone got a root.
ForkUnchecked ==
  \E t \in Slot, s \in (Spaces \ spaces) \cup {Null} :
    /\ Up /\ IsUser(current)
    /\ NewTask(t, s, current, "user")
    /\ spaces' = spaces \cup {s}

\* SYS_FORK: a clone of the address space, a new task, parent = current.  If there
\* is no memory for the clone it returns -1 and has changed nothing.
Fork ==
  \E t \in Slot, s \in Spaces \ spaces :
    /\ Up /\ IsUser(current)
    /\ NewTask(t, s, current, "user")
    /\ spaces' = spaces \cup {s}

\* SYS_FORK with the heap full and a struct at address 0: the new one overwrites it.
\* If current is another task the links from it no longer lead back to it, and
\* schedule()'s loops do not end; if current is that task, it is alone now.
ForkOver ==
  /\ Up /\ IsUser(current) /\ spaces # Spaces
  /\ Null \in Members(ring) /\ 1 .. Top \subseteq heap
  /\ cut' = TRUE
  /\ UNCHANGED <<ring, heap, stacks, state, wake, parent, kstack, pml4, spaces, cr3,
                 kpc, started, orphan>>

\* What comes after that is not followed.
Cut == cut /\ UNCHANGED vars

-----------------------------------------------------------------------------
(* The interrupt and the system calls.                                      *)

\* Mutant: the interrupt forgets sched_tick.
TickStill ==
  /\ Up
  /\ Schedule(state, wake)
  /\ UNCHANGED kpc

\* IRQ 0: sched_tick, then schedule.
Tick ==
  /\ Up
  /\ Schedule(state, [t \in Slot |-> IF wake[t] = 0 THEN 0 ELSE wake[t] - 1])
  /\ UNCHANGED kpc

\* SYS_YIELD.
Yield ==
  /\ Up /\ IsUser(current)
  /\ Schedule(state, wake)
  /\ UNCHANGED kpc

\* sched_kill_current: `if (current) current->state = DEAD'.
Killed == IF current = Null THEN state ELSE [state EXCEPT ![current] = "DEAD"]

\* SYS_EXIT: sched_kill_current, then schedule.
Exit ==
  /\ Up /\ IsUser(current)
  /\ Schedule(Killed, wake)
  /\ UNCHANGED kpc

\* wait_current's scan: some other task of the ring that names current as its
\* parent and has not exited.
LiveChild(c) ==
  \E i \in 2 .. Len(ring) : parent[ring[i]] = c /\ state[ring[i]] # "DEAD"

\* SYS_WAIT: park until the reaper wakes us; with no live child it returns at
\* once and changes nothing.
Wait ==
  /\ Up /\ IsUser(current)
  /\ LiveChild(current)
  /\ Schedule([state EXCEPT ![current] = "WAITING"], wake)
  /\ UNCHANGED kpc

\* Mutant: exec keeps the old space.
ExecLeaks ==
  \E s \in Spaces \ spaces :
    /\ Up /\ IsUser(current)
    /\ pml4'   = [pml4 EXCEPT ![current] = s]
    /\ cr3'    = s
    /\ spaces' = spaces \cup {s}
    /\ UNCHANGED <<ring, heap, stacks, state, wake, parent, kstack, kpc, started, cut,
                   orphan>>

\* SYS_EXEC of a program that exists: build the new space, switch to it, then
\* destroy the old one.
Exec ==
  \E s \in Spaces \ spaces :
    /\ Up /\ IsUser(current)
    /\ pml4'   = [pml4 EXCEPT ![current] = s]
    /\ cr3'    = s
    /\ spaces' = (spaces \cup {s}) \ {pml4[current]}
    /\ UNCHANGED <<ring, heap, stacks, state, wake, parent, kstack, kpc, started, cut,
                   orphan>>

-----------------------------------------------------------------------------
(* Kernel threads: task_sleep and task_exit, one store at a time.           *)

AtPoint(p) == Up /\ current # Boot /\ kpc[current] = p

\* current->wake_tick = g_ticks + ticks.
SleepArm ==
  \E n \in 0 .. MaxSleep :
    /\ AtPoint("run")
    /\ wake' = [wake EXCEPT ![current] = n]
    /\ kpc'  = [kpc EXCEPT ![current] = "armed"]
    /\ UNCHANGED <<ring, heap, stacks, state, parent, kstack, pml4, spaces, cr3,
                   started, cut, orphan>>

\* current->state = SLEEPING.
SleepMark ==
  /\ AtPoint("armed")
  /\ state' = [state EXCEPT ![current] = "SLEEPING"]
  /\ kpc'   = [kpc EXCEPT ![current] = "marked"]
  /\ UNCHANGED <<ring, heap, stacks, wake, parent, kstack, pml4, spaces, cr3,
                 started, cut, orphan>>

\* task_exit: current->state = DEAD.
ExitMark ==
  /\ AtPoint("run")
  /\ state' = [state EXCEPT ![current] = "DEAD"]
  /\ kpc'   = [kpc EXCEPT ![current] = "exiting"]
  /\ UNCHANGED <<ring, heap, stacks, wake, parent, kstack, pml4, spaces, cr3,
                 started, cut, orphan>>

\* task_yield(): int $0x30, then schedule; of its own or at the end of
\* task_sleep and task_exit.
TaskYield ==
  /\ Up /\ current # Boot
  /\ kpc[current] \in {"run", "marked", "exiting"}
  /\ Schedule(state, wake)
  /\ kpc' = [kpc EXCEPT ![current] = IF @ = "marked" THEN "run" ELSE @]

-----------------------------------------------------------------------------
\* sched_init: the boot task alone in the ring, in the kernel's space.
Init ==
  /\ ring = <<Boot>>
  /\ heap = {Boot}
  /\ stacks = {}
  /\ state = [t \in Slot |-> IF t = Boot THEN "RUNNABLE" ELSE "DEAD"]
  /\ wake = [t \in Slot |-> 0]
  /\ parent = [t \in Slot |-> Null]
  /\ kstack = [t \in Slot |-> Null]
  /\ pml4 = [t \in Slot |-> KSpace]
  /\ spaces = {}
  /\ cr3 = KSpace
  /\ kpc = [t \in Slot |-> "run"]
  /\ started = FALSE
  /\ cut = FALSE
  /\ orphan = [t \in Slot |-> FALSE]

Next ==
  \/ Spawn \/ TaskCreate \/ Sti
  \/ Tick \/ Yield \/ Exit \/ Fork \/ ForkOver \/ Cut \/ Wait \/ Exec
  \/ SleepArm \/ SleepMark \/ ExitMark \/ TaskYield

Spec == Init /\ [][Next]_vars

\* The PIT interrupts at 100 Hz whatever runs, and everything that runs outside
\* a handler runs with interrupts on: a tick is never put off for ever.  kmain's
\* way to sti has no loop that waits.
FairSpec == Spec /\ WF_vars(Tick) /\ WF_vars(Sti)

-----------------------------------------------------------------------------
(* Properties.                                                              *)

\* The ring and the heap agree: no task is twice in the ring, a struct is
\* allocated exactly as long as the ring holds it (reap_dead frees what it
\* unlinks and nothing else), and the boot task is there, RUNNABLE, so that
\* schedule()'s search ends.
RingSound ==
  /\ Injective(ring)
  /\ Members(ring) \ {Null} = heap
  /\ Boot \in Members(ring) /\ state[Boot] = "RUNNABLE"

\* No lost wake-up: a task blocked in wait() is the parent of some task the
\* ring still holds, whose reaping will wake it (sched.cpp:200-207 and 224).
\* A struct at address 0 cannot be woken: line 224 takes it for no parent.
WaiterHasChild ==
  \A t \in Members(ring) \ {Null} :
    state[t] = "WAITING" => \E c \in Members(ring) : parent[c] = t /\ c # t

\* Address spaces: each user task has one of its own, exactly those exist, and
\* CR3 holds the running task's.
SpacesSound ==
  /\ cr3 = pml4[current]
  /\ spaces = {pml4[t] : t \in {u \in Members(ring) : IsUser(u)}}
  /\ \A t, u \in Members(ring) : IsUser(t) /\ pml4[t] = pml4[u] => t = u

\* Kernel stacks: those the heap has handed out are the tasks' own, one each, and
\* are given back with the task and not before.  fork's new task has none of "its
\* own" (sched.cpp:166) only when all the stacks of the heap are taken: it is then
\* outside the pairs, and shares the one below 16 KiB with every other such task.
OwnKernelStack ==
  /\ stacks = {kstack[t] : t \in Members(ring)} \ {Null}
  /\ \A t, u \in Members(ring) : kstack[t] = kstack[u] /\ kstack[t] # Null => t = u
  /\ \A t \in Members(ring) : kstack[t] = Null => t \notin 2 .. Pairs + 1

\* A handler frees neither the stack it runs on nor the space CR3 holds: the
\* reaper leaves current alone, and exec destroys its old space only once it
\* has left it (vmm.hpp:24, sched.cpp:154 and 213-215).
ReapSparesCurrent ==
  [][ /\ current = Null \/ current \in heap'
      /\ cr3 \in spaces \ spaces' => cr3' # cr3 /\ current' = current
    ]_vars

\* task_sleep does not return before its time: a kernel thread that runs, and
\* is not inside task_sleep, has no wake_tick to come.
SleepHonoured ==
  started /\ kpc[current] = "run" => wake[current] = 0

\* The doc of wait() (sched.hpp:47-49): it blocks for one of the caller's
\* children, and with none alive it returns at once.
WaitOnlyForOwnChild ==
  \A t \in Members(ring) :
    state[t] = "WAITING" =>
      \E c \in Members(ring) : parent[c] = t /\ ~orphan[c]

\* The task that runs is RUNNABLE, but for a kernel thread between its store to
\* state and its yield, and for the task at address 0, which wait() does not stop.
CurrentRuns ==
  \/ state[current] = "RUNNABLE"
  \/ state[current] = "WAITING" /\ current = Null
  \/ state[current] = "SLEEPING" /\ kpc[current] = "marked"
  \/ state[current] = "DEAD" /\ kpc[current] = "exiting"

-----------------------------------------------------------------------------
(* The inductive invariant of the safety properties.                        *)

\* Who runs in the kernel's space: the boot task and the kernel threads, none of
\* which lies at address 0.
KernelTasks ==
  /\ kpc[Boot] = "run"
  /\ \A t \in Members(ring) : ~IsUser(t) => pml4[t] = KSpace /\ t # Null

\* A kernel thread with time left to sleep is SLEEPING, unless it has only
\* written wake_tick so far.
SleepSound ==
  \A t \in Members(ring) :
    kpc[t] \in {"run", "marked"} => wake[t] = 0 \/ state[t] = "SLEEPING"

\* A struct of a pair goes with that pair's stack, any other with none.
StacksOfPairs ==
  /\ stacks = Members(ring) \cap 2 .. Pairs + 1
  /\ \A t \in Members(ring) : kstack[t] = IF t \in 2 .. Pairs + 1 THEN t ELSE Null

IInv ==
  /\ TypeOK
  /\ RingSound
  /\ WaiterHasChild
  /\ SpacesSound
  /\ KernelTasks
  /\ CurrentRuns
  /\ SleepSound
  /\ StacksOfPairs

-----------------------------------------------------------------------------
(* The scheduler implements TaskLife.                                       *)

phaseOf(t) ==
  IF t \notin Members(ring) THEN "none"
  ELSE CASE state[t] = "RUNNABLE" -> "ready"
         [] state[t] = "DEAD"     -> "exited"
         [] OTHER                 -> "blocked"

Life == INSTANCE TaskLife WITH
          Task <- Slot, Idle <- Boot,
          phase <- [t \in Slot |-> phaseOf(t)], cpu <- current

\* Every run of the scheduler, seen through phaseOf, is one TaskLife allows.
ImplementsTaskLife == Life!LifeSpec

-----------------------------------------------------------------------------
(* Liveness, under FairSpec.                                                *)

InRing(t) == t \in Members(ring)

\* The end of scheduling, which a full heap may lead to: the task at address 0 has
\* the CPU and schedule() returns at once (sched.cpp:238), or there is no ring.
Stuck == current = Null \/ cut

\* Round robin: a task that is RUNNABLE gets the CPU, whatever the others fork,
\* exec or yield meanwhile, unless scheduling ends first.
ReadyRuns ==
  \A t \in Slot : (InRing(t) /\ state[t] = "RUNNABLE") ~> (current = t \/ Stuck)

\* What a task leaves behind when it exits is reclaimed.
DeadReaped ==
  \A t \in Slot \ {Null} :
    (t \in heap /\ state[t] = "DEAD") ~> (t \notin heap \/ Stuck)

\* A parent in wait() goes on once a child of its has exited.
WaitReturns ==
  \A t \in Slot \ {Null} :
    (/\ InRing(t) /\ state[t] = "WAITING"
     /\ \E c \in Members(ring) : state[c] = "DEAD" /\ parent[c] = t)
      ~> (state[t] # "WAITING" \/ Stuck)

\* An exit has its two effects, on the heap and on the parent, as long as there is
\* scheduling.
ExitsNoticed == DeadReaped /\ WaitReturns

\* task_sleep returns, as long as there is scheduling.
SleepersWake ==
  \A t \in Slot : (InRing(t) /\ state[t] = "SLEEPING") ~> (current = t \/ Stuck)

=============================================================================
