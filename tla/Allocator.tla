------------------------------ MODULE Allocator ------------------------------
(***************************************************************************)
(* What a heap promises its clients: what they hold lies inside the arena,  *)
(* no two allocations overlap, and nothing but a client's own kfree takes   *)
(* one away or moves it.                                                    *)
(***************************************************************************)
EXTENDS Integers

CONSTANT Size           \* bytes in the arena

VARIABLE held           \* allocations: [ptr, size]

Bytes(a) == a.ptr .. a.ptr + a.size - 1

Disjoint(S) == \A a, b \in S : a # b => Bytes(a) \cap Bytes(b) = {}

\* One or two new allocations, none of which touches what is held already.
Grant ==
  /\ held \subseteq held'
  /\ \A a \in held' \ held : Bytes(a) \subseteq 0 .. Size - 1
  /\ Disjoint(held')

\* A client gives back what it holds.
Return == held' \subseteq held

AllocSpec == held = {} /\ [][Grant \/ Return]_held
=============================================================================
