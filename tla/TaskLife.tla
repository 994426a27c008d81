------------------------------ MODULE TaskLife ------------------------------
(***************************************************************************)
(* What the scheduler promises its tasks, whatever ring, heap and states it *)
(* keeps: a task is created, runs while it is ready, may block and be       *)
(* woken, exits, and is reclaimed only after it has exited and left the     *)
(* CPU.  The CPU goes to ready tasks only, and the idle task is always one. *)
(***************************************************************************)
CONSTANTS Task, Idle

VARIABLES
  phase,        \* how far each task is
  cpu           \* the task that runs

lifeVars == <<phase, cpu>>

Phases == {"none", "ready", "blocked", "exited"}

\* What may become of the running task when it gives up the CPU: it goes on
\* later, it blocks, it exits, or it is woken before it has left.
Leaves == {"ready"} \X {"ready", "blocked", "exited"}
Stays  == {<<p, p>> : p \in Phases}
Wakes  == {<<"blocked", "ready">>}
Frees  == {<<"exited", "none">>}

Create(t) ==
  /\ phase[t] = "none"
  /\ phase' = [phase EXCEPT ![t] = "ready"]
  /\ UNCHANGED cpu

\* The running task marks itself blocked or exited and has not yet yielded.
Mark(p) ==
  /\ cpu # Idle
  /\ phase[cpu] = "ready"
  /\ phase' = [phase EXCEPT ![cpu] = p]
  /\ UNCHANGED cpu

\* A pass of the scheduler.
Dispatch ==
  /\ phase' \in [Task -> Phases]
  /\ cpu' \in Task
  /\ phase'[cpu'] = "ready"
  /\ phase'[Idle] = "ready"
  /\ <<phase[cpu], phase'[cpu]>> \in Leaves \cup Stays \cup Wakes
  /\ \A t \in Task \ {cpu} : <<phase[t], phase'[t]>> \in Stays \cup Wakes \cup Frees

LifeInit ==
  /\ phase = [t \in Task |-> IF t = Idle THEN "ready" ELSE "none"]
  /\ cpu = Idle

LifeNext ==
  \/ \E t \in Task : Create(t)
  \/ \E p \in {"blocked", "exited"} : Mark(p)
  \/ Dispatch

LifeSpec == LifeInit /\ [][LifeNext]_lifeVars
=============================================================================
