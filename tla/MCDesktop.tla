----------------------------- MODULE MCDesktop -----------------------------
(* One step right, left, up or down, with the button or without, and a       *)
(* packet that has overflowed.                                               *)
EXTENDS Desktop

Move(x, y, b, o) == [dx |-> x, dy |-> y, left |-> b, over |-> o]

MCPackets ==
  {Move(d[1], d[2], b, FALSE) : d \in {<<1, 0>>, <<-1, 0>>, <<0, 1>>, <<0, -1>>}, b \in BOOLEAN}
    \cup {Move(0, 0, b, FALSE) : b \in BOOLEAN} \cup {Move(0, 0, FALSE, TRUE)}

Win(i, a, b, c, d) == [id |-> i, x |-> a, y |-> b, w |-> c, h |-> d]

MCWindows == <<Win(1, 0, 0, 2, 2), Win(2, 2, 1, 3, 2), Win(3, 1, 1, 2, 2)>>
=============================================================================
