------------------------------ MODULE KeyQueue ------------------------------
(***************************************************************************)
(* What the keyboard's buffer promises: the characters typed come out in    *)
(* the order they went in, and one is dropped only when Room are waiting.   *)
(***************************************************************************)
EXTENDS Naturals, Sequences

CONSTANTS Chars, Room

VARIABLES waiting,  \* the characters typed and not yet read
          typed     \* how many were typed

vars == <<waiting, typed>>

Init == waiting = << >> /\ typed = 0

Type(c) ==
  /\ typed' = typed + 1
  /\ waiting' = IF Len(waiting) < Room THEN Append(waiting, c) ELSE waiting

Take ==
  /\ waiting # << >>
  /\ waiting' = Tail(waiting)
  /\ UNCHANGED typed

Next == Take \/ \E c \in Chars : Type(c)

Spec == Init /\ [][Next]_vars

=============================================================================
