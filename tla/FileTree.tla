------------------------------ MODULE FileTree ------------------------------
(***************************************************************************)
(* What a filesystem promises: a tree of paths, each a directory or a file  *)
(* of bytes.  A call makes or removes one leaf, empties one file, or sets   *)
(* one run of bytes in one file, with zeros between the old end and the run *)
(* if there is a gap.  Everything else stays as it was.                     *)
(***************************************************************************)
EXTENDS Integers, Sequences

CONSTANT Values         \* what bytes can be

VARIABLE tree           \* tree[path] = [type, bytes]

Parent(p) == SubSeq(p, 1, Len(p) - 1)

EmptyNode(type) == [type |-> type, bytes |-> << >>]

\* A step from tree old to tree new, at path p.
Make(old, new, p) ==
  /\ p # << >> /\ Parent(p) \in DOMAIN old /\ old[Parent(p)].type = "dir"
  /\ \E type \in {"file", "dir"} :
       new = [q \in DOMAIN old \cup {p} |-> IF q = p THEN EmptyNode(type) ELSE old[q]]

Remove(old, new, p) ==
  /\ p # << >>
  /\ \A q \in DOMAIN old : q # << >> => Parent(q) # p
  /\ new = [q \in DOMAIN old \ {p} |-> old[q]]

\* bs with bytes at + 1 .. to set to v.
Spliced(bs, at, to, v) ==
  [i \in 1 .. IF to > Len(bs) THEN to ELSE Len(bs) |->
     IF i \in at + 1 .. to THEN v ELSE IF i <= Len(bs) THEN bs[i] ELSE 0]

\* The run ends the file if the file grew.
Change(old, new, p) ==
  /\ old[p].type = "file"
  /\ new = [old EXCEPT ![p].bytes = new[p].bytes]
  /\ LET bs == old[p].bytes  nbs == new[p].bytes
         ends == IF Len(nbs) > Len(bs) THEN {Len(nbs)} ELSE 0 .. Len(nbs)
     IN  \/ nbs = << >>
         \/ \E to \in ends, v \in Values : \E at \in 0 .. to : nbs = Spliced(bs, at, to, v)

Step(old, new) ==
  \/ \E p \in DOMAIN new \ DOMAIN old : Make(old, new, p)
  \/ \E p \in DOMAIN old \ DOMAIN new : Remove(old, new, p)
  \/ DOMAIN old = DOMAIN new /\ \E p \in DOMAIN old : Change(old, new, p)

TreeInit == tree = [p \in {<< >>} |-> EmptyNode("dir")]

TreeNext == \E old \in {tree}, new \in {tree'} : old = new \/ Step(old, new)

TreeSpec == TreeInit /\ [][TreeNext]_tree
=============================================================================
