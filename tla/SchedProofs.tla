---------------------------- MODULE SchedProofs ----------------------------
(***************************************************************************)
(* Proofs of the safety properties of Sched, for any number of tasks, any   *)
(* heap and any address spaces.                                             *)
(***************************************************************************)
EXTENDS Sched, FunctionTheorems, FiniteSetTheorems, TLAPS

-----------------------------------------------------------------------------
(* What the ring operations keep, for rings of every length.                *)

(***************************************************************************)
(* The rank in a finite set of numbers counts its elements off: it is a     *)
(* bijection onto 1 .. Cardinality(S).                                      *)
(***************************************************************************)

\* A set of positions is finite, and no larger than the last position.
LEMMA PositionsFinite ==
  ASSUME NEW n \in Nat, NEW S, S \subseteq 1 .. n
  PROVE  IsFiniteSet(S) /\ Cardinality(S) \in Nat /\ Cardinality(S) <= n
<1>1. IsFiniteSet(1 .. n) /\ Cardinality(1 .. n) = n
  <2>1. 1 \in Int /\ n \in Int
    OBVIOUS
  <2> QED
    BY <2>1, FS_Interval
<1>2. IsFiniteSet(S) /\ Cardinality(S) <= n
  BY <1>1, FS_Subset
<1> QED
  BY <1>2, FS_CardinalityType

\* The smaller of two elements has the smaller rank.
LEMMA RankMonotone ==
  ASSUME NEW n \in Nat, NEW S, S \subseteq 1 .. n, NEW i \in S, NEW j \in S, i < j
  PROVE  Rank(S, i) < Rank(S, j)
<1> DEFINE I == {k \in S : k <= i}
           J == {k \in S : k <= j}
<1>1. IsFiniteSet(S)
  BY PositionsFinite
<1>2. IsFiniteSet(J) /\ Cardinality(J) \in Nat
  BY <1>1, FS_Subset, FS_CardinalityType
<1>3. I \subseteq J /\ j \in J /\ j \notin I
  <2>1. i \in Int /\ j \in Int /\ \A k \in S : k \in Int
    OBVIOUS
  <2>2. \A k \in S : k <= i => k <= j
    BY <2>1
  <2>3. ~(j <= i) /\ j <= j
    BY <2>1
  <2> QED
    BY <2>2, <2>3
<1>4. IsFiniteSet(I) /\ Cardinality(I) \in Nat /\ Cardinality(I) <= Cardinality(J)
  BY <1>2, <1>3, FS_Subset, FS_CardinalityType
<1>5. Cardinality(I) # Cardinality(J)
  BY <1>2, <1>3, FS_Subset
<1> QED
  BY <1>2, <1>4, <1>5 DEF Rank

\* Each rank lies between 1 and the number of elements.
LEMMA RankType ==
  ASSUME NEW n \in Nat, NEW S, S \subseteq 1 .. n, NEW i \in S
  PROVE  Rank(S, i) \in 1 .. Cardinality(S)
<1> DEFINE I == {k \in S : k <= i}
<1>1. IsFiniteSet(S) /\ Cardinality(S) \in Nat
  BY PositionsFinite
<1>2. I \in SUBSET S /\ i \in I
  OBVIOUS
<1>3. IsFiniteSet(I) /\ Cardinality(I) <= Cardinality(S)
  BY <1>1, <1>2, FS_Subset
<1>4. Cardinality(I) \in Nat /\ Cardinality(I) # 0
  BY <1>2, <1>3, FS_EmptySet, FS_CardinalityType
<1> QED
  BY <1>1, <1>3, <1>4 DEF Rank

\* Each number up to the cardinality is the rank of exactly one element.
LEMMA RankBijection ==
  ASSUME NEW n \in Nat, NEW S, S \subseteq 1 .. n
  PROVE  /\ Cardinality(S) \in Nat
         /\ \A i, j \in S : Rank(S, i) = Rank(S, j) => i = j
         /\ \A m \in 1 .. Cardinality(S) : \E i \in S : Rank(S, i) = m
<1>1. IsFiniteSet(S) /\ Cardinality(S) \in Nat
  BY PositionsFinite
<1>2. \A i \in S : Rank(S, i) \in 1 .. Cardinality(S)
  BY RankType
<1>3. \A i, j \in S : i < j => Rank(S, i) < Rank(S, j)
  BY RankMonotone
<1>4. \A i, j \in S : Rank(S, i) = Rank(S, j) => i = j
  <2>1. SUFFICES ASSUME NEW i \in S, NEW j \in S, i # j
                 PROVE  Rank(S, i) # Rank(S, j)
    OBVIOUS
  <2>2. i \in Int /\ j \in Int /\ Rank(S, i) \in Int /\ Rank(S, j) \in Int
    BY <1>1, <1>2
  <2>3. i < j \/ j < i
    BY <2>1, <2>2
  <2> QED
    BY <2>2, <2>3, <1>3
<1>5. \A m \in 1 .. Cardinality(S) : \E i \in S : Rank(S, i) = m
  <2> DEFINE T == 1 .. Cardinality(S)
             f == [i \in S |-> Rank(S, i)]
  <2>1. f \in Injection(S, T)
    BY <1>2, <1>4 DEF Injection, IsInjective
  <2>2. IsFiniteSet(T) /\ Cardinality(T) = Cardinality(S)
    BY <1>1, FS_Interval
  <2>3. f \in Surjection(S, T)
    BY <2>1, <2>2, FS_Injection
  <2> QED
    BY <2>3 DEF Surjection
<1> QED
  BY <1>1, <1>4, <1>5

(***************************************************************************)
(* reap_dead unlinks exactly the dead: the others stay, once each, and      *)
(* current stays first.                                                     *)
(***************************************************************************)
THEOREM SurvivorsSound ==
  ASSUME NEW S, NEW s \in Seq(S), NEW K
  PROVE  /\ Survivors(s, K) \in Seq(S)
         /\ Len(Survivors(s, K)) <= Len(s)
         /\ Members(Survivors(s, K)) = Members(s) \ K
         /\ Injective(s) => Injective(Survivors(s, K))
         /\ s # << >> /\ s[1] \notin K =>
              Len(Survivors(s, K)) >= 1 /\ Survivors(s, K)[1] = s[1]
<1> DEFINE kept == Kept(s, K)
           c    == Cardinality(kept)
           at(n) == CHOOSE i \in kept : Rank(kept, i) = n
           r    == Survivors(s, K)
<1>1. Len(s) \in Nat /\ kept \subseteq 1 .. Len(s)
  BY DEF Kept
<1>2. /\ c \in Nat
      /\ \A i, j \in kept : Rank(kept, i) = Rank(kept, j) => i = j
      /\ \A m \in 1 .. c : \E i \in kept : Rank(kept, i) = m
  BY <1>1, RankBijection
<1>3. \A n \in 1 .. c : at(n) \in kept /\ Rank(kept, at(n)) = n
  BY <1>2
<1>4. \A i \in kept : Rank(kept, i) \in 1 .. c /\ at(Rank(kept, i)) = i
  BY <1>1, <1>2, <1>3, RankType
<1>5. r = [n \in 1 .. c |-> s[at(n)]]
  BY DEF Survivors
<1>6. \A i \in kept : i \in 1 .. Len(s) /\ s[i] \in S /\ s[i] \notin K
  BY DEF Kept
<1> HIDE DEF kept, at, r
<1>7. r \in [1 .. c -> S]
  BY <1>3, <1>5, <1>6
<1>8. r \in Seq(S) /\ Len(r) = c
  BY <1>2, <1>7
<1>9. c <= Len(s)
  BY <1>1, PositionsFinite
<1>10. Members(r) = Members(s) \ K
  <2>1. ASSUME NEW x \in Members(r) PROVE x \in Members(s) \ K
    <3>1. PICK n \in 1 .. c : x = r[n]
      BY <1>8 DEF Members
    <3> QED
      BY <3>1, <1>3, <1>5, <1>6 DEF Members
  <2>2. ASSUME NEW x \in Members(s) \ K PROVE x \in Members(r)
    <3>1. PICK i \in 1 .. Len(s) : x = s[i]
      BY DEF Members
    <3>2. i \in kept
      BY <3>1 DEF kept, Kept
    <3> QED
      BY <3>1, <3>2, <1>4, <1>5, <1>8 DEF Members
  <2> QED
    BY <2>1, <2>2
<1>11. Injective(s) => Injective(r)
  <2>1. SUFFICES ASSUME Injective(s), NEW m \in 1 .. c, NEW n \in 1 .. c, r[m] = r[n]
                 PROVE  m = n
    BY <1>8 DEF Injective
  <2>2. s[at(m)] = s[at(n)]
    BY <2>1, <1>5
  <2>3. at(m) = at(n)
    BY <2>1, <2>2, <1>3, <1>6 DEF Injective
  <2> QED
    BY <2>3, <1>3
<1>12. ASSUME s # << >>, s[1] \notin K
       PROVE  Len(r) >= 1 /\ r[1] = s[1]
  <2>1. 1 \in kept
    BY <1>12, <1>1 DEF kept, Kept
  <2>2. {j \in kept : j <= 1} = {1}
    <3>1. \A j \in kept : j \in Int /\ j >= 1
      BY <1>1
    <3> QED
      BY <2>1, <3>1
  <2>3. Rank(kept, 1) = 1
    BY <2>2, FS_Singleton DEF Rank
  <2> QED
    BY <2>1, <2>3, <1>2, <1>4, <1>5, <1>8
<1> QED
  BY <1>8, <1>9, <1>10, <1>11, <1>12 DEF r

(***************************************************************************)
(* Turning the ring to its k-th task keeps its members, once each.          *)
(***************************************************************************)
THEOREM RotateSound ==
  ASSUME NEW S, NEW s \in Seq(S), NEW k \in 1 .. Len(s)
  PROVE  /\ Rotate(s, k) \in Seq(S)
         /\ Len(Rotate(s, k)) = Len(s)
         /\ Rotate(s, k)[1] = s[k]
         /\ Members(Rotate(s, k)) = Members(s)
         /\ Injective(s) => Injective(Rotate(s, k))
<1> DEFINE n == Len(s)
           from(i) == IF i + k - 1 <= n THEN i + k - 1 ELSE i + k - 1 - n
           r == Rotate(s, k)
<1>1. n \in Nat /\ k \in 1 .. n
  OBVIOUS
<1>2. r = [i \in 1 .. n |-> s[from(i)]]
  BY DEF Rotate
<1>3. \A i \in 1 .. n : from(i) \in 1 .. n
  BY <1>1
<1>4. \A i, j \in 1 .. n : from(i) = from(j) => i = j
  BY <1>1
<1>5. \A j \in 1 .. n : \E i \in 1 .. n : from(i) = j
  <2>1. TAKE j \in 1 .. n
  <2>2. CASE j >= k
    BY <1>1, <2>2, j - k + 1 \in 1 .. n, from(j - k + 1) = j
  <2>3. CASE j < k
    BY <1>1, <2>3, j - k + 1 + n \in 1 .. n, from(j - k + 1 + n) = j
  <2> QED
    BY <1>1, <2>2, <2>3
<1>6. from(1) = k
  BY <1>1
<1> HIDE DEF from, r, n
<1>7. \A i \in 1 .. n : s[i] \in S
  BY DEF n
<1>8. r \in Seq(S) /\ Len(r) = n
  BY <1>1, <1>2, <1>3, <1>7
<1>9. Members(r) = Members(s)
  BY <1>2, <1>3, <1>5, <1>8 DEF Members, n
<1>10. Injective(s) => Injective(r)
  BY SMTT(30), <1>2, <1>3, <1>4, <1>8 DEF Injective, n
<1>11. r[1] = s[k]
  BY <1>1, <1>2, <1>6
<1> QED
  BY <1>8, <1>9, <1>10, <1>11 DEF r, n

(***************************************************************************)
(* A new task goes in behind current and moves nobody else.                 *)
(***************************************************************************)
THEOREM InsertNextSound ==
  ASSUME NEW S, NEW s \in Seq(S), s # << >>, NEW t \in S
  PROVE  /\ InsertNext(s, t) \in Seq(S)
         /\ Len(InsertNext(s, t)) = Len(s) + 1
         /\ InsertNext(s, t)[1] = s[1]
         /\ Members(InsertNext(s, t)) = Members(s) \cup {t}
         /\ Injective(s) /\ t \notin Members(s) => Injective(InsertNext(s, t))
<1> DEFINE n == Len(s)
           r == InsertNext(s, t)
<1>1. n \in Nat \ {0}
  OBVIOUS
<1>2. r = [i \in 1 .. n + 1 |-> IF i = 1 THEN s[1] ELSE IF i = 2 THEN t ELSE s[i - 1]]
  BY DEF InsertNext
<1>3. \A i \in 1 .. n : s[i] \in S
  OBVIOUS
<1> HIDE DEF r
<1>4. r \in Seq(S) /\ Len(r) = n + 1
  BY <1>1, <1>2, <1>3
<1>5. \A i \in 1 .. n + 1 : r[i] \in Members(s) \cup {t}
  BY <1>1, <1>2 DEF Members
<1>6. \A i \in 1 .. n : \E j \in 1 .. n + 1 : r[j] = s[i]
  <2>1. TAKE i \in 1 .. n
  <2>2. CASE i = 1
    BY <1>1, <1>2, <2>2
  <2>3. CASE i # 1
    BY <1>1, <1>2, <2>3, i + 1 \in 1 .. n + 1, r[i + 1] = s[i]
  <2> QED
    BY <2>2, <2>3
<1>7. r[2] = t /\ 2 \in 1 .. n + 1
  BY <1>1, <1>2
<1>8. Members(r) = Members(s) \cup {t}
  BY <1>4, <1>5, <1>6, <1>7 DEF Members
<1>9. Injective(s) /\ t \notin Members(s) => Injective(r)
  BY <1>1, <1>2, <1>4 DEF Injective, Members
<1> QED
  BY <1>1, <1>2, <1>4, <1>8, <1>9 DEF r

-----------------------------------------------------------------------------
(* The scheduler.                                                           *)

USE DEF current

\* The boot task's address is a slot.
LEMMA SlotFacts ==
  /\ Top \in Nat
  /\ Slot \subseteq Nat
  /\ Boot \in Slot /\ Null \in Slot /\ Boot # Null
BY ConstantsAssumption DEF Top, Slot, Boot, Null

-----------------------------------------------------------------------------
(* schedule(), from a task and from none.                                   *)

\* What a handler may have done to the states when it calls schedule: it has
\* changed current's, and the boot task is still RUNNABLE.
HandlerStates(st) ==
  /\ st \in [Slot -> TaskStates]
  /\ st[Boot] = "RUNNABLE"
  /\ \A t \in Slot : t # current => st[t] = state[t]

\* The ring in TLA+ terms: not empty, and its members are slots.
LEMMA RingFacts ==
  ASSUME TypeOK
  PROVE  /\ ring \in Seq(Slot) /\ ring # << >> /\ Len(ring) \in Nat \ {0}
         /\ Members(ring) \subseteq Slot
         /\ current \in Members(ring)
BY DEF TypeOK, Members

\* The reaper takes DEAD tasks of the ring, never current, never the boot task.
LEMMA ReapedFacts ==
  ASSUME TypeOK, RingSound, NEW st, HandlerStates(st)
  PROVE  /\ Reaped(st) = {t \in Members(ring) \ {current} : st[t] = "DEAD"}
         /\ current \notin Reaped(st) /\ Boot \notin Reaped(st)
<1>1. Len(ring) \in Nat \ {0} /\ current \in Members(ring)
  BY RingFacts
<1>2. {ring[i] : i \in 2 .. Len(ring)} = Members(ring) \ {current}
  <2>1. ASSUME NEW i \in 2 .. Len(ring)
        PROVE  ring[i] \in Members(ring) \ {current}
    <3>1. i \in 1 .. Len(ring) /\ 1 \in 1 .. Len(ring) /\ i # 1
      BY <1>1
    <3> QED
      BY <3>1 DEF RingSound, Injective, Members
  <2>2. ASSUME NEW t \in Members(ring), t # current
        PROVE  \E i \in 2 .. Len(ring) : t = ring[i]
    <3>1. PICK i \in 1 .. Len(ring) : t = ring[i]
      BY DEF Members
    <3>2. i # 1
      BY <2>2, <3>1
    <3>3. i \in 2 .. Len(ring)
      BY <3>1, <3>2, <1>1
    <3> QED
      BY <3>1, <3>3
  <2> QED
    BY <2>1, <2>2
<1>3. st[Boot] # "DEAD"
  BY DEF HandlerStates
<1> QED
  BY <1>2, <1>3 DEF Reaped

\* A call of schedule: the ring loses the reaped and is turned to a RUNNABLE
\* task.
LEMMA ScheduleFacts ==
  ASSUME TypeOK, RingSound, NEW st, HandlerStates(st), NEW wk, Pass(st, wk)
  PROVE  /\ ring' \in Seq(Slot) /\ Len(ring') \in 1 .. MaxTasks
         /\ Injective(ring')
         /\ Members(ring') = Members(ring) \ Reaped(st)
         /\ ring'[1] \in Members(ring')
         /\ state' = AfterReap(st, wk)
         /\ state'[ring'[1]] = "RUNNABLE"
         /\ cr3' = pml4[ring'[1]]
         /\ heap' = heap \ Reaped(st)
         /\ stacks' = stacks \ FreedStacks(Reaped(st))
         /\ spaces' = spaces \ {pml4[d] : d \in Reaped(st)}
         /\ wake' = wk
         /\ orphan' \in [Slot -> BOOLEAN]
         /\ UNCHANGED <<parent, kstack, pml4, started, cut>>
<1> DEFINE left  == Survivors(ring, Reaped(st))
           after == AfterReap(st, wk)
<1>1. /\ left \in Seq(Slot) /\ Len(left) <= Len(ring)
      /\ Members(left) = Members(ring) \ Reaped(st)
      /\ Injective(left)
      /\ Len(left) >= 1 /\ left[1] = current
  BY RingFacts, ReapedFacts, SurvivorsSound DEF RingSound
<1>2. Len(left) \in Nat /\ Len(ring) \in 1 .. MaxTasks
  BY <1>1 DEF TypeOK
<1>3. PICK k \in 1 .. Len(left) :
        /\ Selected(left, after, k)
        /\ ring' = Rotate(left, k)
        /\ state' = after
        /\ wake' = wk
        /\ heap' = heap \ Reaped(st)
        /\ stacks' = stacks \ FreedStacks(Reaped(st))
        /\ spaces' = spaces \ {pml4[d] : d \in Reaped(st)}
        /\ cr3' = pml4[left[k]]
        /\ orphan' = [t \in Slot |-> orphan[t] \/ parent[t] \in Reaped(st) \ {Null}]
        /\ UNCHANGED <<parent, kstack, pml4, started, cut>>
  BY DEF Pass
<1> HIDE DEF left, after
<1>4. /\ ring' \in Seq(Slot) /\ Len(ring') = Len(left)
      /\ ring'[1] = left[k]
      /\ Members(ring') = Members(left)
      /\ Injective(ring')
  BY <1>1, <1>3, RotateSound
<1>5. after[left[k]] = "RUNNABLE"
  BY <1>3 DEF Selected
<1>6. Len(ring') \in 1 .. MaxTasks
  BY <1>1, <1>2, <1>4, ConstantsAssumption
<1>7. ring'[1] \in Members(ring')
  BY <1>6 DEF Members
<1>8. orphan' \in [Slot -> BOOLEAN]
  <2>1. \A t \in Slot : orphan[t] \in BOOLEAN
    BY DEF TypeOK
  <2> QED
    BY <2>1, <1>3
<1> QED
  BY <1>1, <1>3, <1>4, <1>5, <1>6, <1>7, <1>8 DEF after

\* What schedule does to the states: it only ever makes a task RUNNABLE, a
\* blocked parent one of whose children it reaps or a sleeper whose time is up.
LEMMA AfterReapFacts ==
  ASSUME TypeOK, RingSound, NEW st, HandlerStates(st), NEW wk,
         NEW t \in Slot
  PROVE  /\ AfterReap(st, wk) \in [Slot -> TaskStates]
         /\ AfterReap(st, wk)[t] # st[t] =>
              /\ AfterReap(st, wk)[t] = "RUNNABLE"
              /\ t \in Woken(st) \/ (st[t] = "SLEEPING" /\ wk[t] = 0)
         /\ t \in Woken(st) => st[t] = "WAITING" /\ AfterReap(st, wk)[t] = "RUNNABLE"
BY DEF AfterReap, HandlerStates, TaskStates, Woken

-----------------------------------------------------------------------------
(* The inductive invariant survives a call of schedule.                     *)

\* What the caller of schedule owes it: a task blocked in wait() has a live
\* child, the task at address 0 is never marked DEAD or SLEEPING, countdowns do not
\* restart, and a kernel thread past its first store has slept or is marked SLEEPING.
HandlerOwes(st, wk) ==
  /\ HandlerStates(st)
  /\ current = Null => st[current] \in {"RUNNABLE", "WAITING"}
  /\ st[current] = "WAITING" /\ current # Null =>
       \E c \in Members(ring) : parent[c] = current /\ c # current /\ st[c] # "DEAD"
  /\ wk \in [Slot -> 0 .. MaxSleep]
  /\ kpc' \in [Slot -> KPoints]
  /\ kpc'[Boot] = "run"
  /\ \A t \in Slot : kpc'[t] = "user" <=> kpc[t] = "user"
  /\ \A t \in Members(ring) :
       kpc'[t] \in {"run", "marked"} => wk[t] = 0 \/ st[t] = "SLEEPING"

LEMMA ScheduleType ==
  ASSUME IInv, NEW st, NEW wk, HandlerOwes(st, wk), Pass(st, wk)
  PROVE  TypeOK'
<1> USE DEF IInv, HandlerOwes
<1>1. ring' \in Seq(Slot) /\ Len(ring') \in 1 .. MaxTasks
  BY ScheduleFacts
<1>2. heap' \subseteq Slot /\ stacks' \subseteq Slot /\ spaces' \subseteq Spaces
  BY ScheduleFacts DEF TypeOK
<1>3. state' \in [Slot -> TaskStates]
  BY ScheduleFacts, AfterReapFacts, SlotFacts
<1>4. cr3' \in Spaces \cup {KSpace}
  <2>1. ring'[1] \in Slot
    BY ScheduleFacts, RingFacts
  <2> QED
    BY <2>1, ScheduleFacts DEF TypeOK
<1>5. /\ wake' = wk /\ orphan' \in [Slot -> BOOLEAN]
      /\ UNCHANGED <<parent, kstack, pml4, started, cut>>
  BY ScheduleFacts
<1> QED
  BY <1>1, <1>2, <1>3, <1>4, <1>5 DEF TypeOK

LEMMA ScheduleRing ==
  ASSUME IInv, NEW st, NEW wk, HandlerOwes(st, wk), Pass(st, wk)
  PROVE  RingSound'
<1> USE DEF IInv, HandlerOwes
<1>1. Injective(ring')
  BY ScheduleFacts
<1>2. Members(ring') = Members(ring) \ Reaped(st) /\ heap' = heap \ Reaped(st)
  BY ScheduleFacts
<1>3. Members(ring)' = Members(ring')
  BY DEF Members
<1>4. Boot \in Members(ring')
  BY <1>2, ReapedFacts DEF RingSound
<1>5. state'[Boot] = "RUNNABLE"
  BY ScheduleFacts, AfterReapFacts, SlotFacts DEF HandlerStates
<1>6. Members(ring') \ {Null} = heap'
  BY <1>2 DEF RingSound
<1> QED
  BY <1>1, <1>3, <1>4, <1>5, <1>6 DEF RingSound, Injective

\* No wake-up is lost: when the reaper takes a waiting task's last child, it
\* wakes the task.
LEMMA ScheduleWaiters ==
  ASSUME IInv, NEW st, NEW wk, HandlerOwes(st, wk), Pass(st, wk)
  PROVE  WaiterHasChild'
<1> USE DEF IInv, HandlerOwes
<1>1. /\ Members(ring') = Members(ring) \ Reaped(st)
      /\ state' = AfterReap(st, wk) /\ parent' = parent
  BY ScheduleFacts
<1>2. Members(ring) \subseteq Slot
  BY RingFacts
<1>3. SUFFICES ASSUME NEW t \in Members(ring') \ {Null}, state'[t] = "WAITING"
               PROVE  \E c \in Members(ring') : parent'[c] = t /\ c # t
  BY DEF WaiterHasChild, Members
<1>4. t \in Slot /\ t \in Members(ring)
  BY <1>1, <1>2
<1>5. st[t] = "WAITING" /\ t \notin Woken(st)
  BY <1>1, <1>3, <1>4, AfterReapFacts
<1>6. \E c \in Members(ring) : parent[c] = t /\ c # t
  <2>1. CASE t = current
    BY <2>1, <1>3, <1>5
  <2>2. CASE t # current
    BY <2>2, <1>3, <1>4, <1>5 DEF HandlerStates, WaiterHasChild
  <2> QED
    BY <2>1, <2>2
<1>7. PICK c \in Members(ring) : parent[c] = t /\ c # t
  BY <1>6
<1>8. c \notin Reaped(st)
  BY <1>3, <1>4, <1>5, <1>7 DEF Woken
<1> QED
  BY <1>1, <1>7, <1>8

\* The reaper destroys the spaces of those it unlinks and no other's.
LEMMA ScheduleSpaces ==
  ASSUME IInv, NEW st, NEW wk, HandlerOwes(st, wk), Pass(st, wk)
  PROVE  SpacesSound' /\ KernelTasks'
<1> USE DEF IInv, HandlerOwes
<1>1. /\ Members(ring') = Members(ring) \ Reaped(st)
      /\ pml4' = pml4
      /\ cr3' = pml4[ring'[1]]
      /\ spaces' = spaces \ {pml4[d] : d \in Reaped(st)}
  BY ScheduleFacts
<1>2. Members(ring) \subseteq Slot /\ Reaped(st) \subseteq Members(ring)
  BY RingFacts, ReapedFacts
<1>3. \A t \in Slot : IsUser(t)' <=> IsUser(t)
  BY DEF IsUser
<1>4. spaces' = {pml4[t] : t \in {u \in Members(ring') : IsUser(u)}}
  <2>1. spaces = {pml4[t] : t \in {u \in Members(ring) : IsUser(u)}}
    BY DEF SpacesSound
  <2>2. ASSUME NEW t \in Members(ring'), IsUser(t), NEW d \in Reaped(st)
        PROVE  pml4[t] # pml4[d]
    BY <2>2, <1>1, <1>2 DEF SpacesSound
  <2>3. ASSUME NEW t \in Members(ring), IsUser(t), t \notin Members(ring')
        PROVE  pml4[t] \in {pml4[d] : d \in Reaped(st)}
    BY <2>3, <1>1
  <2> QED
    BY <2>1, <2>2, <2>3, <1>1
<1>5. {u \in Members(ring') : IsUser(u)'} = {u \in Members(ring') : IsUser(u)}
  BY <1>1, <1>2, <1>3
<1>6. spaces' = {pml4'[t] : t \in {u \in Members(ring') : IsUser(u)'}}
  BY <1>1, <1>4, <1>5
<1>7. \A t, u \in Members(ring') : IsUser(t)' /\ pml4'[t] = pml4'[u] => t = u
  BY <1>1, <1>2, <1>3 DEF SpacesSound
<1>8. \A t \in Members(ring') : ~IsUser(t)' => pml4'[t] = KSpace /\ t # Null
  BY <1>1, <1>2, <1>3 DEF KernelTasks
<1> QED
  BY <1>1, <1>6, <1>7, <1>8 DEF SpacesSound, KernelTasks, Members, IsUser

LEMMA ScheduleSleepers ==
  ASSUME IInv, NEW st, NEW wk, HandlerOwes(st, wk), Pass(st, wk)
  PROVE  CurrentRuns' /\ SleepSound'
<1> USE DEF IInv, HandlerOwes
<1>1. /\ Members(ring') = Members(ring) \ Reaped(st)
      /\ state' = AfterReap(st, wk) /\ wake' = wk
      /\ state'[ring'[1]] = "RUNNABLE"
  BY ScheduleFacts
<1>2. ASSUME NEW t \in Members(ring'), kpc'[t] \in {"run", "marked"}, wake'[t] # 0
      PROVE  state'[t] = "SLEEPING"
  <2>1. t \in Members(ring) /\ t \in Slot
    BY <1>1, RingFacts
  <2>2. st[t] = "SLEEPING" /\ wk[t] # 0
    BY <1>1, <1>2, <2>1
  <2>3. t \notin Woken(st)
    BY <2>1, <2>2, AfterReapFacts
  <2> QED
    BY <1>1, <2>1, <2>2, <2>3, AfterReapFacts
<1>3. SleepSound'
  BY <1>2 DEF SleepSound, Members
<1> QED
  BY <1>1, <1>3 DEF CurrentRuns

\* The reaper gives back the stacks of those it unlinks and no other's.
LEMMA ScheduleStacks ==
  ASSUME IInv, NEW st, NEW wk, HandlerOwes(st, wk), Pass(st, wk)
  PROVE  StacksOfPairs'
<1> USE DEF IInv, HandlerOwes
<1> DEFINE P == 2 .. Pairs + 1
<1>1. /\ Members(ring') = Members(ring) \ Reaped(st) /\ kstack' = kstack
      /\ stacks' = stacks \ {kstack[d] : d \in Reaped(st)}
  BY ScheduleFacts DEF FreedStacks
<1>2. Reaped(st) \subseteq Members(ring)
  BY ReapedFacts
<1>3. /\ stacks = Members(ring) \cap P
      /\ \A t \in Members(ring) : kstack[t] = IF t \in P THEN t ELSE Null
  BY DEF StacksOfPairs
<1>4. Null \notin P
  BY ConstantsAssumption DEF Null
<1> HIDE DEF P
<1>5. \A t \in stacks : t \in {kstack[d] : d \in Reaped(st)} <=> t \in Reaped(st)
  BY <1>2, <1>3, <1>4
<1>6. stacks' = Members(ring') \cap P
  BY <1>1, <1>3, <1>5
<1>7. \A t \in Members(ring') : kstack'[t] = IF t \in P THEN t ELSE Null
  BY <1>1, <1>3
<1> QED
  BY <1>6, <1>7 DEF StacksOfPairs, Members, P

LEMMA PassKeepsIInv ==
  ASSUME IInv, NEW st, NEW wk, HandlerOwes(st, wk), Pass(st, wk)
  PROVE  IInv'
BY ScheduleType, ScheduleRing, ScheduleWaiters, ScheduleSpaces, ScheduleSleepers,
   ScheduleStacks
DEF IInv

\* With the task at address 0 as current only the caller's own stores happen.
LEMMA NoPassKeepsIInv ==
  ASSUME IInv, NEW st, NEW wk, HandlerOwes(st, wk), NoPass(st, wk)
  PROVE  IInv'
<1> USE DEF IInv, HandlerOwes
<1>1. /\ current = Null /\ state' = st /\ wake' = wk
      /\ UNCHANGED <<ring, heap, stacks, parent, kstack, pml4, spaces, cr3, started,
                     cut, orphan>>
  BY DEF NoPass
<1>2. Members(ring)' = Members(ring) /\ Members(ring) \subseteq Slot
  BY <1>1, RingFacts DEF Members
<1>3. \A t \in Slot : t # Null => st[t] = state[t]
  BY <1>1 DEF HandlerStates
<1>4. TypeOK'
  BY <1>1 DEF TypeOK, HandlerStates
<1>5. RingSound'
  BY <1>1, <1>2 DEF RingSound, Injective, HandlerStates
<1>6. WaiterHasChild'
  BY <1>1, <1>2, <1>3 DEF WaiterHasChild
<1>7. \A t \in Members(ring) : IsUser(t)' <=> IsUser(t)
  BY <1>2 DEF IsUser
<1>8. {t \in Members(ring) : IsUser(t)'} = {t \in Members(ring) : IsUser(t)}
  BY <1>7
<1>9. SpacesSound'
  BY <1>1, <1>2, <1>7, <1>8 DEF SpacesSound
<1>10. KernelTasks'
  BY <1>1, <1>2, <1>7 DEF KernelTasks
<1>11. CurrentRuns' /\ SleepSound'
  BY <1>1, <1>2 DEF CurrentRuns, SleepSound
<1>12. StacksOfPairs'
  BY <1>1, <1>2 DEF StacksOfPairs
<1> QED
  BY <1>4, <1>5, <1>6, <1>9, <1>10, <1>11, <1>12

LEMMA ScheduleKeepsIInv ==
  ASSUME IInv, NEW st, NEW wk, HandlerOwes(st, wk), Schedule(st, wk)
  PROVE  IInv'
BY PassKeepsIInv, NoPassKeepsIInv DEF Schedule

-----------------------------------------------------------------------------
(* Each action keeps the inductive invariant.                               *)

LEMMA InitIInv == Init => IInv
<1> SUFFICES ASSUME Init PROVE IInv
  OBVIOUS
<1> USE DEF Init
<1>1. Members(ring) = {Boot} /\ Len(ring) = 1 /\ ring[1] = Boot
  BY DEF Members
<1>2. TypeOK
  <2>1. ring \in Seq(Slot) /\ Len(ring) \in 1 .. MaxTasks
    BY SlotFacts, ConstantsAssumption
  <2>2. state \in [Slot -> TaskStates] /\ kpc \in [Slot -> KPoints]
    BY DEF TaskStates, KPoints
  <2>3. wake \in [Slot -> 0 .. MaxSleep]
    BY ConstantsAssumption
  <2> QED
    BY <2>1, <2>2, <2>3, SlotFacts DEF TypeOK
<1>3. RingSound
  BY <1>1, SlotFacts DEF RingSound, Injective
<1>4. WaiterHasChild
  BY <1>1, SlotFacts DEF WaiterHasChild
<1>5. SpacesSound /\ KernelTasks
  BY <1>1, SlotFacts DEF SpacesSound, KernelTasks, IsUser
<1>6. CurrentRuns /\ SleepSound
  BY <1>1, SlotFacts DEF CurrentRuns, SleepSound
<1>7. StacksOfPairs
  BY <1>1, SlotFacts DEF StacksOfPairs, Boot
<1> QED
  BY <1>2, <1>3, <1>4, <1>5, <1>6, <1>7 DEF IInv

\* The running task, and what the invariant says of it.
LEMMA CurrentFacts ==
  ASSUME IInv
  PROVE  /\ current \in Members(ring) /\ current \in Slot
         /\ Boot \in Slot /\ Boot \in Members(ring)
         /\ state[Boot] = "RUNNABLE" /\ kpc[Boot] = "run"
         /\ IsUser(current) => current # Boot
         /\ IsUser(current) /\ current # Null => state[current] = "RUNNABLE"
         /\ current = Null => IsUser(current) /\ state[current] \in {"RUNNABLE", "WAITING"}
<1>1. current \in Members(ring) /\ current \in Slot
  BY RingFacts DEF IInv
<1>2. /\ Boot \in Slot /\ Boot \in Members(ring)
      /\ state[Boot] = "RUNNABLE" /\ kpc[Boot] = "run"
  BY SlotFacts DEF IInv, RingSound, KernelTasks
<1>3. IsUser(current) => current # Boot
  BY <1>2 DEF IsUser
<1>4. current = Null => IsUser(current)
  BY <1>1 DEF IInv, KernelTasks
<1>5. /\ IsUser(current) /\ current # Null => state[current] = "RUNNABLE"
      /\ current = Null => state[current] \in {"RUNNABLE", "WAITING"}
  BY <1>4 DEF IInv, CurrentRuns, IsUser
<1> QED
  BY <1>1, <1>2, <1>3, <1>4, <1>5

\* The countdown of a tick stays in its range and stays 0 once 0.
LEMMA TickIInv == IInv /\ Tick => IInv'
<1> SUFFICES ASSUME IInv, Tick PROVE IInv'
  OBVIOUS
<1> DEFINE wk == [t \in Slot |-> IF wake[t] = 0 THEN 0 ELSE wake[t] - 1]
<1>1. Schedule(state, wk) /\ kpc' = kpc
  BY DEF Tick
<1>2. wk \in [Slot -> 0 .. MaxSleep] /\ \A t \in Slot : wake[t] = 0 => wk[t] = 0
  <2>1. \A t \in Slot : wake[t] \in 0 .. MaxSleep
    BY DEF IInv, TypeOK
  <2> QED
    BY <2>1, ConstantsAssumption
<1> HIDE DEF wk
<1>3. state[current] # "WAITING" \/ current = Null
  BY DEF IInv, CurrentRuns
<1>4. HandlerOwes(state, wk)
  BY <1>1, <1>2, <1>3, CurrentFacts, RingFacts
     DEF HandlerOwes, HandlerStates, IInv, TypeOK, KernelTasks, SleepSound
<1> QED
  BY <1>1, <1>4, ScheduleKeepsIInv

LEMMA YieldIInv == IInv /\ Yield => IInv'
<1> SUFFICES ASSUME IInv, Yield PROVE IInv'
  OBVIOUS
<1>1. Schedule(state, wake) /\ kpc' = kpc
  BY DEF Yield
<1>2. HandlerOwes(state, wake)
  BY <1>1, CurrentFacts, RingFacts
     DEF HandlerOwes, HandlerStates, IInv, TypeOK, KernelTasks, SleepSound, Yield
<1> QED
  BY <1>1, <1>2, ScheduleKeepsIInv

LEMMA ExitIInv == IInv /\ Exit => IInv'
<1> SUFFICES ASSUME IInv, Exit PROVE IInv'
  OBVIOUS
<1> DEFINE st == Killed
<1>1. Schedule(st, wake) /\ kpc' = kpc /\ IsUser(current)
  BY DEF Exit
<1>2. /\ HandlerStates(st)
      /\ IF current = Null THEN st[current] = state[current] ELSE st[current] = "DEAD"
  BY <1>1, CurrentFacts DEF HandlerStates, IInv, TypeOK, TaskStates, Killed
<1> HIDE DEF st
<1>3. \A t \in Members(ring) :
         kpc[t] \in {"run", "marked"} => wake[t] = 0 \/ st[t] = "SLEEPING"
  BY <1>1, <1>2, RingFacts DEF IInv, SleepSound, IsUser, HandlerStates
<1>4. HandlerOwes(st, wake)
  BY <1>1, <1>2, <1>3, CurrentFacts DEF HandlerOwes, IInv, TypeOK
<1> QED
  BY <1>1, <1>4, ScheduleKeepsIInv

\* wait_current parks the caller only when its scan has found a live child.
LEMMA WaitIInv == IInv /\ Wait => IInv'
<1> SUFFICES ASSUME IInv, Wait PROVE IInv'
  OBVIOUS
<1> DEFINE st == [state EXCEPT ![current] = "WAITING"]
<1>1. Schedule(st, wake) /\ kpc' = kpc /\ IsUser(current) /\ LiveChild(current)
  BY DEF Wait
<1>2. HandlerStates(st) /\ st[current] = "WAITING"
  BY <1>1, CurrentFacts DEF HandlerStates, IInv, TypeOK, TaskStates
<1> HIDE DEF st
<1>3. PICK i \in 2 .. Len(ring) : parent[ring[i]] = current /\ state[ring[i]] # "DEAD"
  BY <1>1 DEF LiveChild
<1>4. ring[i] \in Members(ring) /\ ring[i] # current
  <2>1. Len(ring) \in Nat \ {0} /\ i \in 1 .. Len(ring) /\ 1 \in 1 .. Len(ring) /\ i # 1
    BY RingFacts DEF IInv
  <2> QED
    BY <2>1 DEF IInv, RingSound, Injective, Members
<1>5. \E c \in Members(ring) : parent[c] = current /\ c # current /\ st[c] # "DEAD"
  BY <1>2, <1>3, <1>4, RingFacts DEF HandlerStates, IInv
<1>6. \A t \in Members(ring) :
         kpc[t] \in {"run", "marked"} => wake[t] = 0 \/ st[t] = "SLEEPING"
  BY <1>1, <1>2, RingFacts DEF IInv, SleepSound, IsUser, HandlerStates
<1>7. HandlerOwes(st, wake)
  BY <1>1, <1>2, <1>5, <1>6, CurrentFacts DEF HandlerOwes, IInv, TypeOK
<1> QED
  BY <1>1, <1>7, ScheduleKeepsIInv

\* A yield of a kernel thread; at the end of task_sleep the thread is SLEEPING.
LEMMA TaskYieldIInv == IInv /\ TaskYield => IInv'
<1> SUFFICES ASSUME IInv, TaskYield PROVE IInv'
  OBVIOUS
<1>1. /\ Schedule(state, wake) /\ current # Boot
      /\ kpc[current] \in {"run", "marked", "exiting"}
      /\ kpc' = [kpc EXCEPT ![current] = IF kpc[current] = "marked" THEN "run" ELSE kpc[current]]
  BY DEF TaskYield
<1>2. \A t \in Slot :
        /\ kpc'[t] = IF t = current /\ kpc[t] = "marked" THEN "run" ELSE kpc[t]
  BY <1>1 DEF IInv, TypeOK
<1>3. kpc' \in [Slot -> KPoints]
  BY <1>1 DEF IInv, TypeOK, KPoints
<1>4. HandlerStates(state) /\ current # Null /\ state[current] # "WAITING"
  BY <1>1, CurrentFacts DEF HandlerStates, IInv, TypeOK, CurrentRuns, IsUser
<1>5. \A t \in Members(ring) :
         kpc'[t] \in {"run", "marked"} => wake[t] = 0 \/ state[t] = "SLEEPING"
  BY <1>2, RingFacts DEF IInv, SleepSound
<1>6. HandlerOwes(state, wake)
  BY <1>1, <1>2, <1>3, <1>4, <1>5, CurrentFacts DEF HandlerOwes, IInv, TypeOK
<1> QED
  BY <1>1, <1>6, ScheduleKeepsIInv

-----------------------------------------------------------------------------
(* Creation.                                                                *)

\* First fit: a struct of a pair is handed out with its stack, any other with none.
LEMMA StackGiven ==
  ASSUME IInv, NEW t, StructAt(t), NEW k, StackAt(k)
  PROVE  /\ t \in 2 .. Pairs + 1 => k = t
         /\ t \notin 2 .. Pairs + 1 => k = Null
<1> DEFINE P == 2 .. Pairs + 1
<1>1. stacks = Members(ring) \cap P /\ Members(ring) \ {Null} = heap
  BY DEF IInv, StacksOfPairs, RingSound
<1>2. /\ t \in Slot /\ t \notin Members(ring) /\ t # Boot
      /\ t = Null => 1 .. Top \subseteq heap
      /\ t # Null => \A u \in 1 .. t - 1 : u \in heap
  BY CurrentFacts DEF StructAt
<1>3. Pairs \in Nat /\ P \subseteq 1 .. Top /\ Null \notin P /\ Null \notin 1 .. Top
  BY ConstantsAssumption DEF Top, Null
<1>4. \/ k = Null /\ P \subseteq stacks
      \/ k \in P \ stacks /\ \A u \in 2 .. k - 1 : u \in stacks
  BY DEF StackAt
<1>5. CASE t \in P
  <2>1. k # Null /\ k \in P \ stacks
    BY <1>1, <1>2, <1>3, <1>4, <1>5
  <2>2. ~(k < t)
    <3>1. k < t => k \in 1 .. t - 1
      BY <1>3, <1>5, <2>1
    <3> QED
      BY <3>1, <1>1, <1>2, <1>3, <1>5, <2>1
  <2>3. ~(t < k)
    <3>1. t < k => t \in 2 .. k - 1
      BY <1>3, <1>5, <2>1
    <3> QED
      BY <3>1, <1>1, <1>2, <1>3, <1>4, <1>5, <2>1
  <2> QED
    BY <1>3, <1>5, <2>1, <2>2, <2>3
<1>6. CASE t \notin P
  <2>1. P \subseteq heap
    <3>1. CASE t = Null
      BY <3>1, <1>2, <1>3
    <3>2. CASE t # Null
      <4>1. t \in Nat /\ t > Pairs + 1
        BY <3>2, <1>2, <1>3, <1>6, SlotFacts DEF Boot, Null
      <4>2. P \subseteq 1 .. t - 1
        BY <4>1, <1>3
      <4> QED
        BY <3>2, <4>2, <1>2
    <3> QED
      BY <3>1, <3>2
  <2>2. P \subseteq stacks
    BY <2>1, <1>1
  <2> QED
    BY <2>2, <1>4, <1>6
<1> QED
  BY <1>5, <1>6

\* A new task, whose space nobody else has, keeps all but the account of the
\* spaces, which the caller settles.
LEMMA NewTaskFacts ==
  ASSUME IInv, NEW t \in Slot, NEW space \in Spaces \cup {KSpace}, NEW par \in Slot,
         NEW point \in {"user", "run"}, NewTask(t, space, par, point)
  PROVE  /\ t \notin Members(ring) /\ t # Boot
         /\ Members(ring') = Members(ring) \cup {t}
         /\ ring'[1] = current
         /\ spaces' \subseteq Spaces => TypeOK'
         /\ RingSound' /\ WaiterHasChild' /\ CurrentRuns' /\ SleepSound' /\ StacksOfPairs'
<1> USE DEF IInv
<1>1. /\ t \notin Members(ring)
      /\ t # Null => t \notin heap
      /\ Len(ring) < MaxTasks
      /\ StructAt(t)
  BY DEF NewTask, StructAt
<1>2. t # Boot
  BY <1>1, CurrentFacts
<1>3. PICK k \in Slot :
      /\ StackAt(k)
      /\ stacks' = stacks \cup ({k} \ {Null})
      /\ kstack' = [kstack EXCEPT ![t] = k]
      /\ ring' = InsertNext(ring, t)
      /\ heap' = heap \cup ({t} \ {Null})
      /\ state' = [state EXCEPT ![t] = "RUNNABLE"]
      /\ wake' = [wake EXCEPT ![t] = 0]
      /\ parent' = [parent EXCEPT ![t] = par]
      /\ pml4' = [pml4 EXCEPT ![t] = space]
      /\ kpc' = [kpc EXCEPT ![t] = point]
      /\ orphan' = [orphan EXCEPT ![t] = FALSE]
      /\ UNCHANGED <<cr3, started, cut>>
  BY DEF NewTask
<1>4. /\ ring' \in Seq(Slot) /\ Len(ring') = Len(ring) + 1
      /\ ring'[1] = current
      /\ Members(ring') = Members(ring) \cup {t}
      /\ Injective(ring')
  BY Zenon, <1>1, <1>3, RingFacts, InsertNextSound DEF RingSound
<1>5. Members(ring) \subseteq Slot /\ current \in Members(ring)
  BY RingFacts
<1>6. ASSUME spaces' \subseteq Spaces PROVE TypeOK'
  <2>1. Len(ring') \in 1 .. MaxTasks
    BY <1>1, <1>4, RingFacts, ConstantsAssumption
  <2>2. heap' \subseteq Slot /\ stacks' \subseteq Slot
    BY <1>3 DEF TypeOK
  <2>3. state' \in [Slot -> TaskStates] /\ kpc' \in [Slot -> KPoints]
    BY <1>3 DEF TypeOK, TaskStates, KPoints
  <2>4. wake' \in [Slot -> 0 .. MaxSleep] /\ orphan' \in [Slot -> BOOLEAN]
    BY <1>3, ConstantsAssumption DEF TypeOK
  <2>5. /\ parent' \in [Slot -> Slot] /\ kstack' \in [Slot -> Slot]
        /\ pml4' \in [Slot -> Spaces \cup {KSpace}]
    BY <1>3 DEF TypeOK
  <2> QED
    BY <1>3, <1>4, <1>6, <2>1, <2>2, <2>3, <2>4, <2>5 DEF TypeOK
<1>7. RingSound'
  <2>1. Members(ring') \ {Null} = heap'
    BY <1>3, <1>4 DEF RingSound
  <2>2. Boot \in Members(ring') /\ state'[Boot] = "RUNNABLE"
    BY <1>2, <1>3, <1>4, CurrentFacts DEF TypeOK
  <2> QED
    BY <1>4, <2>1, <2>2 DEF RingSound, Injective, Members
<1>8. \A u \in Members(ring) :
        /\ u # t /\ state'[u] = state[u] /\ wake'[u] = wake[u] /\ parent'[u] = parent[u]
        /\ kpc'[u] = kpc[u]
  BY <1>1, <1>3, <1>5 DEF TypeOK
<1>9. state'[t] = "RUNNABLE" /\ wake'[t] = 0
  BY <1>3 DEF TypeOK
<1>10. WaiterHasChild'
  <2>1. SUFFICES ASSUME NEW u \in Members(ring') \ {Null}, state'[u] = "WAITING"
                 PROVE  \E c \in Members(ring') : parent'[c] = u /\ c # u
    BY DEF WaiterHasChild, Members
  <2>2. u \in Members(ring) \ {Null} /\ state[u] = "WAITING"
    BY <1>4, <1>8, <1>9, <2>1
  <2>3. PICK c \in Members(ring) : parent[c] = u /\ c # u
    BY <2>2 DEF WaiterHasChild
  <2> QED
    BY <1>4, <1>8, <2>3
<1>11. SleepSound'
  <2>1. SUFFICES ASSUME NEW u \in Members(ring'), kpc'[u] \in {"run", "marked"}
                 PROVE  wake'[u] = 0 \/ state'[u] = "SLEEPING"
    BY DEF SleepSound, Members
  <2> QED
    BY <1>4, <1>8, <1>9, <2>1 DEF SleepSound
<1>12. CurrentRuns'
  BY <1>4, <1>5, <1>8 DEF CurrentRuns
<1>13. StacksOfPairs'
  <2>1. /\ t \in 2 .. Pairs + 1 => k = t
        /\ t \notin 2 .. Pairs + 1 => k = Null
        /\ Null \notin 2 .. Pairs + 1
    BY <1>1, <1>3, StackGiven, ConstantsAssumption DEF Null
  <2>2. stacks' = Members(ring') \cap 2 .. Pairs + 1
    BY <1>3, <1>4, <2>1 DEF StacksOfPairs
  <2>3. \A u \in Members(ring') : kstack'[u] = IF u \in 2 .. Pairs + 1 THEN u ELSE Null
    BY <1>1, <1>3, <1>4, <1>5, <2>1 DEF StacksOfPairs, TypeOK
  <2> QED
    BY <2>2, <2>3 DEF StacksOfPairs, Members
<1> QED
  BY <1>1, <1>2, <1>4, <1>6, <1>7, <1>10, <1>11, <1>12, <1>13

\* The account of the spaces after a user task was made in a fresh one.
LEMMA NewUserSpaces ==
  ASSUME IInv, NEW t \in Slot, NEW space \in Spaces \ spaces, NEW par \in Slot,
         NewTask(t, space, par, "user"), spaces' = spaces \cup {space}
  PROVE  IInv'
<1> USE DEF IInv
<1>1. /\ t \notin Members(ring) /\ t # Boot
      /\ Members(ring') = Members(ring) \cup {t}
      /\ ring'[1] = current
      /\ spaces' \subseteq Spaces => TypeOK'
      /\ RingSound' /\ WaiterHasChild' /\ CurrentRuns' /\ SleepSound' /\ StacksOfPairs'
  BY NewTaskFacts, "user" \in {"user", "run"}
<1>2. spaces' \subseteq Spaces
  BY DEF TypeOK
<1>3. Members(ring) \subseteq Slot /\ current \in Members(ring)
  BY RingFacts
<1>4. pml4' = [pml4 EXCEPT ![t] = space] /\ kpc' = [kpc EXCEPT ![t] = "user"]
  BY DEF NewTask
<1>5. \A u \in Members(ring) : pml4'[u] = pml4[u] /\ (IsUser(u)' <=> IsUser(u)) /\ u # t
  BY <1>1, <1>3, <1>4 DEF TypeOK, IsUser
<1>6. pml4'[t] = space /\ IsUser(t)'
  BY <1>4 DEF TypeOK, IsUser
<1>7. spaces' = {pml4'[u] : u \in {v \in Members(ring') : IsUser(v)'}}
  <2>1. spaces = {pml4[u] : u \in {v \in Members(ring) : IsUser(v)}}
    BY DEF SpacesSound
  <2>2. {v \in Members(ring') : IsUser(v)'} = {v \in Members(ring) : IsUser(v)} \cup {t}
    BY <1>1, <1>5, <1>6
  <2> QED
    BY <2>1, <2>2, <1>5, <1>6
<1>8. \A u, v \in Members(ring') : IsUser(u)' /\ pml4'[u] = pml4'[v] => u = v
  <2>1. \A u \in Members(ring) : pml4[u] # space
    BY ConstantsAssumption DEF SpacesSound, KernelTasks
  <2> QED
    BY <2>1, <1>1, <1>5, <1>6 DEF SpacesSound
<1>9. cr3' = pml4'[ring'[1]]
  BY <1>1, <1>3, <1>5 DEF SpacesSound, NewTask
<1>10. SpacesSound'
  BY <1>7, <1>8, <1>9 DEF SpacesSound, Members, IsUser
<1>11. KernelTasks'
  <2>1. kpc'[Boot] = "run"
    BY <1>1, <1>4, CurrentFacts DEF KernelTasks, TypeOK
  <2>2. \A u \in Members(ring') : ~IsUser(u)' => pml4'[u] = KSpace /\ u # Null
    BY <1>1, <1>5, <1>6 DEF KernelTasks
  <2> QED
    BY <2>1, <2>2 DEF KernelTasks, Members, IsUser
<1> QED
  BY <1>1, <1>2, <1>10, <1>11

LEMMA SpawnIInv == IInv /\ Spawn => IInv'
BY NewUserSpaces, SlotFacts DEF Spawn

LEMMA ForkIInv == IInv /\ Fork => IInv'
BY NewUserSpaces, CurrentFacts DEF Fork

LEMMA PairsAreSlots == 2 .. Pairs + 1 \subseteq Slot \ {Null}
BY ConstantsAssumption DEF Slot, Top, Null

LEMMA TaskCreateIInv == IInv /\ TaskCreate => IInv'
<1> SUFFICES ASSUME IInv, TaskCreate PROVE IInv'
  OBVIOUS
<1> USE DEF IInv
<1>0. PICK t \in Slot \ {Null} : NewTask(t, KSpace, Null, "run") /\ spaces' = spaces
  BY PairsAreSlots DEF TaskCreate
<1>1. /\ t \notin Members(ring) /\ t # Boot
      /\ Members(ring') = Members(ring) \cup {t}
      /\ ring'[1] = current
      /\ spaces' \subseteq Spaces => TypeOK'
      /\ RingSound' /\ WaiterHasChild' /\ CurrentRuns' /\ SleepSound' /\ StacksOfPairs'
  BY <1>0, NewTaskFacts, SlotFacts, "run" \in {"user", "run"}
<1>2. spaces' \subseteq Spaces
  BY <1>0 DEF TypeOK
<1>3. Members(ring) \subseteq Slot /\ current \in Members(ring)
  BY RingFacts
<1>4. pml4' = [pml4 EXCEPT ![t] = KSpace] /\ kpc' = [kpc EXCEPT ![t] = "run"]
  BY <1>0 DEF NewTask
<1>5. \A u \in Members(ring) : pml4'[u] = pml4[u] /\ (IsUser(u)' <=> IsUser(u)) /\ u # t
  BY <1>1, <1>3, <1>4 DEF TypeOK, IsUser
<1>6. pml4'[t] = KSpace /\ ~IsUser(t)'
  BY <1>4 DEF TypeOK, IsUser
<1>7. spaces' = {pml4'[u] : u \in {v \in Members(ring') : IsUser(v)'}}
  <2>1. spaces = {pml4[u] : u \in {v \in Members(ring) : IsUser(v)}}
    BY DEF SpacesSound
  <2>2. {v \in Members(ring') : IsUser(v)'} = {v \in Members(ring) : IsUser(v)}
    BY <1>1, <1>5, <1>6
  <2> QED
    BY <1>0, <2>1, <2>2, <1>5
<1>8. \A u, v \in Members(ring') : IsUser(u)' /\ pml4'[u] = pml4'[v] => u = v
  <2>1. \A u \in Members(ring) : IsUser(u) => pml4[u] # KSpace
    BY ConstantsAssumption DEF SpacesSound, TypeOK
  <2> QED
    BY <2>1, <1>1, <1>5, <1>6 DEF SpacesSound
<1>9. cr3' = pml4'[ring'[1]]
  BY <1>0, <1>1, <1>3, <1>5 DEF SpacesSound, NewTask
<1>10. SpacesSound'
  BY <1>7, <1>8, <1>9 DEF SpacesSound, Members, IsUser
<1>11. KernelTasks'
  <2>1. kpc'[Boot] = "run"
    BY <1>1, <1>4, CurrentFacts DEF KernelTasks, TypeOK
  <2>2. \A u \in Members(ring') : ~IsUser(u)' => pml4'[u] = KSpace /\ u # Null
    BY <1>0, <1>1, <1>5, <1>6 DEF KernelTasks
  <2> QED
    BY <2>1, <2>2 DEF KernelTasks, Members, IsUser
<1> QED
  BY <1>1, <1>2, <1>10, <1>11

-----------------------------------------------------------------------------
(* Exec, and the stores of the kernel threads.                              *)

\* Exec gives current the new space and destroys exactly the old one.
LEMMA ExecIInv == IInv /\ Exec => IInv'
<1> SUFFICES ASSUME IInv, Exec PROVE IInv'
  OBVIOUS
<1> USE DEF IInv
<1>1. PICK s \in Spaces \ spaces :
        /\ IsUser(current)
        /\ pml4' = [pml4 EXCEPT ![current] = s]
        /\ cr3' = s
        /\ spaces' = (spaces \cup {s}) \ {pml4[current]}
        /\ UNCHANGED <<ring, heap, stacks, state, wake, parent, kstack, kpc, started,
                       cut, orphan>>
  BY DEF Exec
<1>2. current \in Slot /\ current \in Members(ring) /\ Members(ring) \subseteq Slot
  BY CurrentFacts, RingFacts
<1>3. \A u \in Members(ring) : pml4'[u] = IF u = current THEN s ELSE pml4[u]
  BY <1>1, <1>2 DEF TypeOK
<1>4. TypeOK'
  BY <1>1, <1>2 DEF TypeOK
<1>5. RingSound' /\ WaiterHasChild' /\ CurrentRuns' /\ SleepSound' /\ StacksOfPairs'
  BY <1>1 DEF RingSound, WaiterHasChild, CurrentRuns, SleepSound, StacksOfPairs,
              Members, Injective
<1>6. KernelTasks'
  BY <1>1, <1>3 DEF KernelTasks, IsUser, Members
<1>7. pml4[current] # s /\ \A u \in Members(ring) : pml4[u] # s
  BY ConstantsAssumption, <1>2 DEF SpacesSound, KernelTasks
<1>8. \A u \in Members(ring) : pml4[u] = pml4[current] => u = current
  BY <1>1, <1>2 DEF SpacesSound
<1>9. spaces' = {pml4'[u] : u \in {v \in Members(ring) : IsUser(v)}}
  <2>1. spaces = {pml4[u] : u \in {v \in Members(ring) : IsUser(v)}}
    BY DEF SpacesSound
  <2> QED
    BY <2>1, <1>1, <1>2, <1>3, <1>7, <1>8
<1>10. \A u, v \in Members(ring) : IsUser(u) /\ pml4'[u] = pml4'[v] => u = v
  BY <1>3, <1>7 DEF SpacesSound
<1>11. SpacesSound'
  BY <1>1, <1>2, <1>3, <1>9, <1>10 DEF SpacesSound, Members, IsUser
<1> QED
  BY <1>4, <1>5, <1>6, <1>11

\* A kernel thread's store to wake_tick or to state touches no ring and no space.
LEMMA ThreadStoreKeeps ==
  ASSUME IInv, started, current # Boot,
         UNCHANGED <<ring, heap, stacks, parent, kstack, pml4, spaces, cr3, started,
                     cut, orphan>>,
         kpc[current] # "user",
         NEW p \in KPoints \ {"user"}, kpc' = [kpc EXCEPT ![current] = p]
  PROVE  SpacesSound' /\ KernelTasks' /\ StacksOfPairs'
<1> USE DEF IInv
<1>1. current \in Slot /\ Members(ring) \subseteq Slot
  BY CurrentFacts, RingFacts
<1>2. \A u \in Members(ring) : IsUser(u)' <=> IsUser(u)
  BY <1>1 DEF TypeOK, IsUser
<1>3. {u \in Members(ring) : IsUser(u)'} = {u \in Members(ring) : IsUser(u)}
  BY <1>2
<1>4. kpc'[Boot] = "run"
  BY CurrentFacts DEF TypeOK
<1>5. /\ cr3' = pml4'[ring'[1]]
      /\ spaces' = {pml4'[t] : t \in {u \in Members(ring) : IsUser(u)'}}
      /\ \A t, u \in Members(ring) : IsUser(t)' /\ pml4'[t] = pml4'[u] => t = u
  BY <1>2, <1>3 DEF SpacesSound
<1>6. \A t \in Members(ring) : ~IsUser(t)' => pml4'[t] = KSpace /\ t # Null
  BY <1>2 DEF KernelTasks
<1>7. StacksOfPairs'
  BY DEF StacksOfPairs, Members
<1> QED
  BY <1>4, <1>5, <1>6, <1>7 DEF SpacesSound, KernelTasks, Members, IsUser

LEMMA SleepArmIInv == IInv /\ SleepArm => IInv'
<1> SUFFICES ASSUME IInv, SleepArm PROVE IInv'
  OBVIOUS
<1> USE DEF IInv
<1>1. PICK n \in 0 .. MaxSleep :
        /\ AtPoint("run")
        /\ wake' = [wake EXCEPT ![current] = n]
        /\ kpc' = [kpc EXCEPT ![current] = "armed"]
        /\ UNCHANGED <<ring, heap, stacks, state, parent, kstack, pml4, spaces, cr3,
                       started, cut, orphan>>
  BY DEF SleepArm
<1>2. SpacesSound' /\ KernelTasks' /\ StacksOfPairs'
  BY <1>1, ThreadStoreKeeps DEF AtPoint, Up, KPoints
<1>3. TypeOK'
  BY <1>1, CurrentFacts DEF TypeOK, KPoints
<1>4. RingSound' /\ WaiterHasChild'
  BY <1>1 DEF RingSound, WaiterHasChild, Members, Injective
<1>5. CurrentRuns' /\ SleepSound'
  <2>1. state[current] = "RUNNABLE"
    BY <1>1, CurrentFacts DEF CurrentRuns, AtPoint, IsUser
  <2>2. \A t \in Members(ring) :
          kpc'[t] \in {"run", "marked"} => wake'[t] = 0 \/ state[t] = "SLEEPING"
    BY <1>1, RingFacts DEF SleepSound, TypeOK
  <2> QED
    BY <1>1, <2>1, <2>2 DEF CurrentRuns, SleepSound, Members
<1> QED
  BY <1>2, <1>3, <1>4, <1>5

\* current, a kernel thread that is RUNNABLE, stores s to its state.
LEMMA MarkKeeps ==
  ASSUME IInv, NEW s \in {"SLEEPING", "DEAD"}, NEW p \in {"marked", "exiting"},
         s = "SLEEPING" <=> p = "marked",
         started, current # Boot, kpc[current] \in {"run", "armed"},
         state' = [state EXCEPT ![current] = s],
         kpc' = [kpc EXCEPT ![current] = p],
         UNCHANGED <<ring, heap, stacks, wake, parent, kstack, pml4, spaces, cr3,
                     started, cut, orphan>>
  PROVE  IInv'
<1> USE DEF IInv
<1>1. SpacesSound' /\ KernelTasks' /\ StacksOfPairs'
  BY ThreadStoreKeeps DEF KPoints
<1>2. TypeOK'
  BY CurrentFacts DEF TypeOK, KPoints, TaskStates
<1>3. current \in Slot /\ current \in Members(ring) /\ Members(ring) \subseteq Slot
  BY CurrentFacts, RingFacts
<1>4. \A u \in Slot : /\ state'[u] = IF u = current THEN s ELSE state[u]
                      /\ kpc'[u] = IF u = current THEN p ELSE kpc[u]
  BY DEF TypeOK
<1>5. RingSound'
  BY <1>4, CurrentFacts DEF RingSound, Members, Injective
<1>6. WaiterHasChild'
  BY <1>3, <1>4 DEF WaiterHasChild, Members
<1>7. CurrentRuns'
  BY <1>3, <1>4 DEF CurrentRuns
<1>8. SleepSound'
  BY <1>3, <1>4 DEF SleepSound, Members
<1> QED
  BY <1>1, <1>2, <1>5, <1>6, <1>7, <1>8

LEMMA SleepMarkIInv == IInv /\ SleepMark => IInv'
BY MarkKeeps DEF SleepMark, AtPoint, Up

LEMMA ExitMarkIInv == IInv /\ ExitMark => IInv'
BY MarkKeeps DEF ExitMark, AtPoint, Up

LEMMA StiIInv == IInv /\ Sti => IInv'
BY DEF Sti, IInv, TypeOK, RingSound, WaiterHasChild, SpacesSound, KernelTasks,
       CurrentRuns, SleepSound, StacksOfPairs, Members, Injective, IsUser

\* Of the links nothing is said once they are cut.
LEMMA ForkOverIInv == IInv /\ ForkOver => IInv'
BY DEF ForkOver, IInv, TypeOK, RingSound, WaiterHasChild, SpacesSound, KernelTasks,
       CurrentRuns, SleepSound, StacksOfPairs, Members, Injective, IsUser

-----------------------------------------------------------------------------
(* The theorems.                                                            *)

LEMMA StutterIInv == IInv /\ UNCHANGED vars => IInv'
BY DEF vars, IInv, TypeOK, RingSound, WaiterHasChild, SpacesSound, KernelTasks,
       CurrentRuns, SleepSound, StacksOfPairs, Members, Injective, IsUser

LEMMA NextIInv == IInv /\ [Next]_vars => IInv'
BY SpawnIInv, TaskCreateIInv, StiIInv, TickIInv, YieldIInv, ExitIInv, ForkIInv,
   ForkOverIInv, WaitIInv, ExecIInv, SleepArmIInv, SleepMarkIInv, ExitMarkIInv,
   TaskYieldIInv, StutterIInv
DEF Next, Cut

\* The inductive invariant holds in every state of every run.
THEOREM Invariance == Spec => []IInv
BY InitIInv, NextIInv, PTL DEF Spec

\* Every variable keeps its type: current is a task of the ring, no task is in
\* a state task_state does not name.
THEOREM TypeCorrect == Spec => []TypeOK
<1>1. IInv => TypeOK
  BY DEF IInv
<1> QED
  BY <1>1, Invariance, PTL

\* The ring holds each allocated struct once and nothing else, and the boot
\* task stays in it RUNNABLE: nothing leaks, nothing freed is reached by next,
\* and schedule()'s search for a RUNNABLE task ends.
THEOREM RingSafe == Spec => []RingSound
<1>1. IInv => RingSound
  BY DEF IInv
<1> QED
  BY <1>1, Invariance, PTL

\* No wake-up of wait() is lost, at whatever point ticks, exits and reaps fall.
THEOREM NoLostWakeup == Spec => []WaiterHasChild
<1>1. IInv => WaiterHasChild
  BY DEF IInv
<1> QED
  BY <1>1, Invariance, PTL

\* Each user task has an address space of its own, no space leaks, and CR3
\* holds the running task's.
THEOREM SpacesSafe == Spec => []SpacesSound
<1>1. IInv => SpacesSound
  BY DEF IInv
<1> QED
  BY <1>1, Invariance, PTL

\* task_sleep never returns early, wherever ticks fall between its stores.
THEOREM SleepSafe == Spec => []SleepHonoured
<1>1. IInv => SleepHonoured
  BY CurrentFacts DEF IInv, SleepHonoured, SleepSound, CurrentRuns
<1> QED
  BY <1>1, Invariance, PTL

\* Kernel stacks: no two tasks share one the heap has handed out, none leaks, and
\* none is given back under its task; only structs outside the pairs go without,
\* and that with the heap full as well as before.
THEOREM StacksSafe == Spec => []OwnKernelStack
<1>1. IInv => OwnKernelStack
  <2>1. Null \notin 2 .. Pairs + 1
    BY ConstantsAssumption DEF Null
  <2> QED
    BY <2>1 DEF IInv, StacksOfPairs, OwnKernelStack
<1> QED
  BY <1>1, Invariance, PTL

-----------------------------------------------------------------------------
(* What a handler must not free under itself.                               *)

\* The states each caller of schedule passes it.
LEMMA CallersStates ==
  ASSUME IInv
  PROVE  /\ HandlerStates(state)
         /\ IsUser(current) =>
              /\ HandlerStates(Killed)
              /\ HandlerStates([state EXCEPT ![current] = "WAITING"])
BY CurrentFacts DEF HandlerStates, IInv, TypeOK, TaskStates, Killed

LEMMA PassSpares ==
  ASSUME IInv, NEW st, NEW wk, HandlerStates(st), Pass(st, wk)
  PROVE  /\ current = Null \/ current \in heap'
         /\ cr3 \notin spaces \ spaces'
<1>1. /\ current \notin Reaped(st)
      /\ Reaped(st) \subseteq Members(ring)
      /\ current \in Members(ring)
  BY ReapedFacts, RingFacts DEF IInv
<1>2. heap' = heap \ Reaped(st) /\ spaces' = spaces \ {pml4[d] : d \in Reaped(st)}
  BY ScheduleFacts DEF IInv
<1>3. current = Null \/ current \in heap'
  BY <1>1, <1>2 DEF IInv, RingSound
<1>4. ASSUME cr3 \in spaces PROVE cr3 \notin {pml4[d] : d \in Reaped(st)}
  <2>1. PICK t \in Members(ring) : IsUser(t) /\ pml4[t] = cr3
    BY <1>4 DEF IInv, SpacesSound
  <2>2. t = current /\ \A d \in Members(ring) : pml4[d] = cr3 => d = current
    BY <2>1, <1>1 DEF IInv, SpacesSound
  <2> QED
    BY <2>2, <1>1
<1> QED
  BY <1>2, <1>3, <1>4

LEMMA ScheduleSpares ==
  ASSUME IInv, NEW st, NEW wk, HandlerStates(st), Schedule(st, wk)
  PROVE  /\ current = Null \/ current \in heap'
         /\ cr3 \notin spaces \ spaces'
BY PassSpares DEF Schedule, NoPass

LEMMA NextSpares ==
  ASSUME IInv, Next
  PROVE  /\ current = Null \/ current \in heap'
         /\ cr3 \in spaces \ spaces' => cr3' # cr3 /\ current' = current
<1>1. CASE Spawn \/ TaskCreate \/ Fork
  BY <1>1, CurrentFacts DEF Spawn, TaskCreate, Fork, NewTask, IInv, RingSound
<1>2. CASE Tick \/ Yield \/ TaskYield
  BY <1>2, ScheduleSpares, CallersStates DEF Tick, Yield, TaskYield
<1>3. CASE Exit
  BY <1>3, ScheduleSpares, CallersStates DEF Exit
<1>4. CASE Wait
  BY <1>4, ScheduleSpares, CallersStates DEF Wait
<1>5. CASE Exec
  BY <1>5, CurrentFacts DEF Exec, IInv, RingSound
<1>6. CASE Sti \/ ForkOver \/ Cut \/ SleepArm \/ SleepMark \/ ExitMark
  BY <1>6, CurrentFacts
     DEF Sti, ForkOver, Cut, vars, SleepArm, SleepMark, ExitMark, IInv, RingSound
<1> QED
  BY <1>1, <1>2, <1>3, <1>4, <1>5, <1>6 DEF Next

\* No handler frees the task it runs as, its stack, or the space CR3 holds.
THEOREM ReaperSafe == Spec => ReapSparesCurrent
<1>1. IInv /\ [Next]_vars =>
        [ /\ current = Null \/ current \in heap'
          /\ cr3 \in spaces \ spaces' => cr3' # cr3 /\ current' = current ]_vars
  BY NextSpares
<1> QED
  BY <1>1, Invariance, PTL DEF Spec, ReapSparesCurrent

-----------------------------------------------------------------------------
(* The scheduler implements TaskLife.                                       *)

phases == [t \in Slot |-> phaseOf(t)]

\* What each phase says of the ring and the state.
PhaseTable ==
  /\ phases \in [Slot -> Life!Phases]
  /\ \A t \in Slot :
       /\ phases[t] = "none"    <=> t \notin Members(ring)
       /\ phases[t] = "ready"   <=> t \in Members(ring) /\ state[t] = "RUNNABLE"
       /\ phases[t] = "exited"  <=> t \in Members(ring) /\ state[t] = "DEAD"
       /\ phases[t] = "blocked" <=>
            t \in Members(ring) /\ state[t] \in {"SLEEPING", "WAITING"}

LEMMA PhaseFacts == TypeOK => PhaseTable
BY DEF TypeOK, TaskStates, phases, phaseOf, Life!Phases, PhaseTable

LEMMA PhaseFactsNext == TypeOK' => PhaseTable'
BY DEF TypeOK, TaskStates, phases, phaseOf, Life!Phases, PhaseTable

\* A pass of schedule is a Dispatch: current leaves as its handler has marked
\* it, the reaped go, the woken are ready, the CPU goes to a ready task.
LEMMA PassDispatches ==
  ASSUME IInv, TypeOK', NEW st, NEW wk, HandlerStates(st), Pass(st, wk),
         st[current] = state[current] \/ state[current] = "RUNNABLE"
  PROVE  Life!LifeNext
<1> USE DEF IInv
<1>1. /\ Members(ring') = Members(ring) \ Reaped(st)
      /\ ring'[1] \in Members(ring')
      /\ state' = AfterReap(st, wk)
      /\ state'[ring'[1]] = "RUNNABLE"
  BY ScheduleFacts
<1>2. /\ Reaped(st) = {t \in Members(ring) \ {current} : st[t] = "DEAD"}
      /\ current \notin Reaped(st) /\ Boot \notin Reaped(st)
  BY ReapedFacts
<1>3. Members(ring) \subseteq Slot /\ current \in Members(ring) /\ Boot \in Members(ring)
  BY CurrentFacts, RingFacts
<1>4. Members(ring)' = Members(ring')
  BY DEF Members
<1>5. /\ phases' \in [Slot -> Life!Phases]
      /\ \A t \in Slot :
           /\ phases'[t] = "none"   <=> t \notin Members(ring')
           /\ phases'[t] = "ready"  <=> t \in Members(ring') /\ state'[t] = "RUNNABLE"
           /\ phases'[t] = "exited" <=> t \in Members(ring') /\ state'[t] = "DEAD"
           /\ phases'[t] = "blocked" <=>
                t \in Members(ring') /\ state'[t] \in {"SLEEPING", "WAITING"}
  BY <1>4, PhaseFactsNext DEF PhaseTable
<1>6. ring'[1] \in Slot /\ phases'[ring'[1]] = "ready"
  BY <1>1, <1>3, <1>5
<1>7. phases'[Boot] = "ready"
  <2>1. AfterReap(st, wk)[Boot] = "RUNNABLE"
    BY <1>3, AfterReapFacts DEF HandlerStates
  <2> QED
    BY <2>1, <1>1, <1>2, <1>3, <1>5
<1>8. \A t \in Slot : state'[t] = st[t] \/ (state'[t] = "RUNNABLE" /\ st[t] \in {"WAITING", "SLEEPING"})
  BY <1>1, AfterReapFacts
<1>9. ASSUME NEW t \in Slot \ {current}
      PROVE  <<phases[t], phases'[t]>> \in Life!Stays \cup Life!Wakes \cup Life!Frees
  <2>1. st[t] = state[t]
    BY <1>9 DEF HandlerStates
  <2>2. CASE t \notin Members(ring)
    BY <2>2, <1>1, <1>5, PhaseFacts DEF PhaseTable, Life!Stays, Life!Phases
  <2>3. CASE t \in Reaped(st)
    BY <2>1, <2>3, <1>1, <1>2, <1>5, PhaseFacts DEF PhaseTable, Life!Frees
  <2>4. CASE t \in Members(ring) \ Reaped(st) /\ state'[t] = st[t]
    <3>1. phases'[t] = phases[t] /\ phases[t] \in Life!Phases
      BY SMTT(30), <2>1, <2>4, <1>1, <1>5, PhaseFacts DEF PhaseTable, Life!Phases, TypeOK, TaskStates
    <3> QED
      BY <3>1 DEF Life!Stays
  <2>5. CASE t \in Members(ring) \ Reaped(st) /\ state'[t] # st[t]
    BY <2>1, <2>5, <1>1, <1>5, <1>8, PhaseFacts DEF PhaseTable, Life!Wakes
  <2> QED
    BY <2>2, <2>3, <2>4, <2>5
<1>10. <<phases[current], phases'[current]>> \in Life!Leaves \cup Life!Stays \cup Life!Wakes
  <2>1. current \in Slot /\ current \in Members(ring')
    BY <1>1, <1>2, <1>3
  <2>2. /\ phases[current] \in Life!Phases /\ phases'[current] \in Life!Phases
        /\ phases'[current] # "none"
    BY <2>1, <1>5, PhaseFacts DEF PhaseTable, Life!Phases
  <2>3. CASE state[current] = "RUNNABLE"
    BY <2>1, <2>2, <2>3, <1>3, PhaseFacts DEF PhaseTable, Life!Leaves, Life!Phases
  <2>4. CASE st[current] = state[current] /\ state'[current] = st[current]
    <3>1. phases'[current] = phases[current]
      BY <2>1, <2>2, <2>4, <1>3, <1>5, PhaseFacts DEF PhaseTable, Life!Phases, TypeOK, TaskStates
    <3> QED
      BY <2>2, <3>1 DEF Life!Stays
  <2>5. CASE st[current] = state[current] /\ state'[current] # st[current]
    BY <2>1, <2>5, <1>3, <1>5, <1>8, PhaseFacts DEF PhaseTable, Life!Wakes
  <2> QED
    BY <2>3, <2>4, <2>5
<1>11. Life!Dispatch
  BY <1>5, <1>6, <1>7, <1>9, <1>10 DEF Life!Dispatch, phases
<1> QED
  BY <1>11 DEF Life!LifeNext

LEMMA NewTaskCreates ==
  ASSUME IInv, NEW t \in Slot, NEW space, NEW par, NEW point,
         NewTask(t, space, par, point)
  PROVE  Life!Create(t)
<1> USE DEF IInv
<1>1. t \notin Members(ring) /\ state' = [state EXCEPT ![t] = "RUNNABLE"]
  BY DEF NewTask, StructAt
<1>2. Members(ring)' = Members(ring) \cup {t} /\ current' = current
  <2>1. Members(ring') = Members(ring) \cup {t} /\ ring'[1] = ring[1]
    BY RingFacts, InsertNextSound DEF NewTask
  <2> QED
    BY <2>1 DEF Members
<1>3. phases[t] = "none"
  BY <1>1, PhaseFacts DEF PhaseTable
<1>4. phases' = [phases EXCEPT ![t] = "ready"]
  BY <1>1, <1>2 DEF phases, phaseOf, TypeOK
<1> QED
  BY <1>2, <1>3, <1>4 DEF Life!Create, phases

\* With the task at address 0 as current a handler changes nothing of the phases.
LEMMA NoPassStays ==
  ASSUME NEW wk, NoPass(state, wk)
  PROVE  UNCHANGED Life!lifeVars
BY DEF NoPass, Life!lifeVars, phaseOf, Members

\* A handler that has marked nothing, or a RUNNABLE task, and calls schedule.
LEMMA ScheduleRefines ==
  ASSUME IInv, TypeOK', NEW wk, Schedule(state, wk)
  PROVE  [Life!LifeNext]_(Life!lifeVars)
BY PassDispatches, NoPassStays, CallersStates DEF Schedule

\* current, RUNNABLE and not the boot task, marks itself and keeps the CPU.
LEMMA MarkRefines ==
  ASSUME IInv, NEW s \in {"SLEEPING", "WAITING", "DEAD"}, current # Boot,
         state[current] = "RUNNABLE", state' = [state EXCEPT ![current] = s], ring' = ring
  PROVE  Life!LifeNext
<1> USE DEF IInv
<1> DEFINE p == IF s = "DEAD" THEN "exited" ELSE "blocked"
<1>1. current \in Slot /\ current \in Members(ring)
  BY CurrentFacts
<1>2. phases[current] = "ready"
  BY <1>1, PhaseFacts DEF PhaseTable
<1>3. phases' = [phases EXCEPT ![current] = p]
  <2>1. Members(ring)' = Members(ring)
    BY DEF Members
  <2>2. \A t \in Slot : state'[t] = IF t = current THEN s ELSE state[t]
    BY DEF TypeOK
  <2>3. \A t \in Slot \ {current} : phaseOf(t)' = phaseOf(t)
    BY <2>1, <2>2 DEF phaseOf
  <2>4. CASE s = "DEAD"
    BY <1>1, <2>1, <2>2, <2>3, <2>4 DEF phases, phaseOf
  <2>5. CASE s # "DEAD"
    BY <1>1, <2>1, <2>2, <2>3, <2>5 DEF phases, phaseOf
  <2> QED
    BY <2>4, <2>5
<1>4. current' = current /\ p \in {"blocked", "exited"}
  OBVIOUS
<1>5. Life!Mark(p)
  BY <1>2, <1>3, <1>4 DEF Life!Mark, phases
<1> QED
  BY <1>4, <1>5 DEF Life!LifeNext

\* wait() at address 0: the task is marked, if it was not before, and goes on.
LEMMA WaitsAtNull ==
  ASSUME IInv, IsUser(current), NEW wk,
         NoPass([state EXCEPT ![current] = "WAITING"], wk)
  PROVE  [Life!LifeNext]_(Life!lifeVars)
<1>1. /\ current = Null /\ current # Boot
      /\ state' = [state EXCEPT ![current] = "WAITING"] /\ ring' = ring
  BY CurrentFacts DEF NoPass
<1>2. CASE state[current] = "RUNNABLE"
  BY <1>1, <1>2, MarkRefines
<1>3. CASE state[current] = "WAITING"
  <2>1. NoPass(state, wk)
    BY <1>1, <1>3, CurrentFacts DEF NoPass, IInv, TypeOK
  <2> QED
    BY <2>1, NoPassStays
<1> QED
  BY <1>1, <1>2, <1>3, CurrentFacts

\* Each step of the scheduler is a step of TaskLife or changes nothing there.
LEMMA NextRefines ==
  ASSUME IInv, IInv', [Next]_vars
  PROVE  [Life!LifeNext]_(Life!lifeVars)
<1> USE DEF IInv
<1>1. CASE Spawn \/ TaskCreate \/ Fork
  <2>1. \E t \in Slot : Life!Create(t)
    BY <1>1, NewTaskCreates, PairsAreSlots DEF Spawn, TaskCreate, Fork
  <2> QED
    BY <2>1 DEF Life!LifeNext
<1>2. CASE Tick \/ Yield \/ TaskYield
  BY <1>2, ScheduleRefines DEF Tick, Yield, TaskYield
<1>3. CASE Exit
  <2>1. IsUser(current) /\ (Pass(Killed, wake) \/ NoPass(Killed, wake))
    BY <1>3 DEF Exit, Schedule
  <2>2. CASE Pass(Killed, wake)
    BY <2>1, <2>2, PassDispatches, CallersStates, CurrentFacts DEF Pass
  <2>3. CASE NoPass(Killed, wake)
    BY <2>3, NoPassStays DEF NoPass, Killed
  <2> QED
    BY <2>1, <2>2, <2>3
<1>4. CASE Wait
  <2> DEFINE st == [state EXCEPT ![current] = "WAITING"]
  <2>1. IsUser(current) /\ (Pass(st, wake) \/ NoPass(st, wake))
    BY <1>4 DEF Wait, Schedule
  <2>2. CASE Pass(st, wake)
    BY <2>1, <2>2, PassDispatches, CallersStates, CurrentFacts DEF Pass
  <2>3. CASE NoPass(st, wake)
    BY <2>1, <2>3, WaitsAtNull
  <2> QED
    BY <2>1, <2>2, <2>3
<1>5. CASE Sti \/ Exec \/ ForkOver \/ Cut \/ SleepArm \/ UNCHANGED vars
  <2>1. UNCHANGED <<ring, state>>
    BY <1>5 DEF Sti, Exec, ForkOver, Cut, SleepArm, vars
  <2>2. phases' = phases /\ current' = current
    BY <2>1 DEF phases, phaseOf, Members
  <2> QED
    BY <2>2 DEF Life!lifeVars, phases
<1>6. ASSUME NEW s \in {"SLEEPING", "DEAD"}, kpc[current] \in {"run", "armed"},
             current # Boot, state' = [state EXCEPT ![current] = s], ring' = ring
      PROVE  Life!LifeNext
  <2>1. state[current] = "RUNNABLE"
    BY <1>6, CurrentFacts DEF CurrentRuns, IsUser
  <2> QED
    BY <1>6, <2>1, MarkRefines
<1>7. CASE SleepMark
  BY <1>6, <1>7 DEF SleepMark, AtPoint
<1>8. CASE ExitMark
  BY <1>6, <1>8 DEF ExitMark, AtPoint
<1> QED
  BY <1>1, <1>2, <1>3, <1>4, <1>5, <1>7, <1>8 DEF Next

LEMMA InitRefines == Init => Life!LifeInit
<1> SUFFICES ASSUME Init PROVE Life!LifeInit
  OBVIOUS
<1>1. Members(ring) = {Boot} /\ current = Boot
  BY DEF Init, Members
<1> QED
  BY <1>1 DEF Init, Life!LifeInit, phaseOf

\* Every run of the scheduler is, seen through phaseOf, a run of TaskLife: what
\* the ring, the reaper and the state stores add up to.
THEOREM Refinement == Spec => ImplementsTaskLife
<1>1. Init => Life!LifeInit
  BY InitRefines
<1>2. IInv /\ IInv' /\ [Next]_vars => [Life!LifeNext]_(Life!lifeVars)
  BY NextRefines
<1> QED
  BY <1>1, <1>2, Invariance, PTL DEF Spec, ImplementsTaskLife, Life!LifeSpec

=============================================================================
