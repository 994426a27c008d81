-------------------------------- MODULE Ring --------------------------------
(***************************************************************************)
(* The circular task list of kernel/sched.cpp.  The code keeps next         *)
(* pointers and a static `current'; here the ring is the sequence of its    *)
(* members told from current on, so that s[1] is current and the last       *)
(* element's next is s[1] again.                                            *)
(***************************************************************************)
EXTENDS Integers, Sequences, FiniteSets

Members(s) == {s[i] : i \in 1 .. Len(s)}

\* No member twice: the next pointers form one cycle.
Injective(s) == \A i, j \in 1 .. Len(s) : s[i] = s[j] => i = j

\* The positions of s that a task outside K holds.
Kept(s, K) == {i \in 1 .. Len(s) : s[i] \notin K}

\* How many elements of S are at most i: the new position of the old position i.
Rank(S, i) == Cardinality({j \in S : j <= i})

\* Mutant: prev->next is not updated, the freed task stays linked.
SurvivorsLinked(s, K) == s

\* The ring without the tasks of K, the others in their order.
Survivors(s, K) ==
  [n \in 1 .. Cardinality(Kept(s, K)) |->
     s[CHOOSE i \in Kept(s, K) : Rank(Kept(s, K), i) = n]]

\* The same ring, told from its k-th task on.
Rotate(s, k) ==
  [i \in 1 .. Len(s) |->
     IF i + k - 1 <= Len(s) THEN s[i + k - 1] ELSE s[i + k - 1 - Len(s)]]

\* t->next = current->next; current->next = t.
InsertNext(s, t) ==
  [i \in 1 .. Len(s) + 1 |->
     IF i = 1 THEN s[1] ELSE IF i = 2 THEN t ELSE s[i - 1]]

=============================================================================
