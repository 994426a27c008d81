----------------------------- MODULE UserMemory -----------------------------
(***************************************************************************)
(* What the memory subsystem promises user programs, call by call.  Each    *)
(* address space is a memory of its own: a map from pages to what is in     *)
(* them.  call names the last call and what it was given.  Every call       *)
(* leaves the memories it is not about as they were.                        *)
(***************************************************************************)
EXTENDS Naturals

CONSTANTS
  StackPages,   \* the pages of the user stack
  ArgvPage      \* the one among them that exec leaves argv on

VARIABLES
  view,         \* view[s][va]: what memory s holds at page va
  call          \* the last call, a record with the name `op'

Same(S) == \A s \in S : view'[s] = view[s]

\* A program's memory as it starts: the pages of its image hold the image, and the
\* stack's pages are there, with anything in them.
Loaded(memory, image) ==
  /\ DOMAIN memory = DOMAIN image \cup StackPages
  /\ \A va \in DOMAIN image : memory[va] = image[va]

Spawn ==
  /\ call'.op = "spawn"
  /\ \E s \in DOMAIN view' \ DOMAIN view :
       /\ DOMAIN view' = DOMAIN view \cup {s}
       /\ Loaded(view'[s], call'.image)
       /\ Same(DOMAIN view)

\* The child starts with what its parent holds.
Fork ==
  /\ call'.op = "fork" /\ call'.by \in DOMAIN view
  /\ \E s \in DOMAIN view' \ DOMAIN view :
       /\ DOMAIN view' = DOMAIN view \cup {s}
       /\ view'[s] = view[call'.by]
       /\ Same(DOMAIN view)

\* The caller's memory gives way to the new program's, which finds argv.
Exec ==
  /\ call'.op = "exec" /\ call'.by \in DOMAIN view
  /\ \E s \in DOMAIN view' \ DOMAIN view :
       /\ DOMAIN view' = (DOMAIN view \ {call'.by}) \cup {s}
       /\ Loaded(view'[s], call'.image)
       /\ view'[s][ArgvPage][0] = call'.argv
       /\ Same(DOMAIN view \ {call'.by})

Reap ==
  /\ call'.op = "reap" /\ call'.of \in DOMAIN view
  /\ DOMAIN view' = DOMAIN view \ {call'.of}
  /\ Same(DOMAIN view')

Store ==
  /\ call'.op = "store" /\ call'.by \in DOMAIN view /\ call'.at \in DOMAIN view[call'.by]
  /\ view' = [view EXCEPT ![call'.by][call'.at][0] = call'.word]

Step == Spawn \/ Fork \/ Exec \/ Reap \/ Store

MemorySpec == DOMAIN view = {} /\ [][Step]_<<view, call>>
=============================================================================
