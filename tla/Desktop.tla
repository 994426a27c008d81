------------------------------- MODULE Desktop -------------------------------
(***************************************************************************)
(* The mouse (mouse.cpp) and the boot task's loop (kernel.cpp, kmain) that  *)
(* reads it, moves the windows and paints.  IRQ 12 may come anywhere in the *)
(* loop, also between the reads of x, y and the buttons.                    *)
(*                                                                          *)
(* The up to three interrupts of a packet are one step: of any three in a   *)
(* row at most one completes a packet, and the others touch only g_packet   *)
(* and g_phase, which the loop does not read.  From the read of the buttons *)
(* to gfx_present the loop touches nothing that an interrupt touches.       *)
(***************************************************************************)
EXTENDS Windows

CONSTANTS
  Packets,    \* what the mouse may report: [dx, dy, left, over]
  Windows0,   \* the windows kmain creates
  MaxPackets, \* bound: packets the mouse sends
  MaxSpoilt   \* bound: those of which bytes are lost

\* Where a window can be taken hold of.
Reachable(w) ==
  \E x \in 0 .. Width - 1, y \in 0 .. Height - 1 : Inside(w, x, y) /\ OnBar(w, y)

\* A movement has nine bits.  The windows have room for their title bars, some
\* of which the screen shows.
ASSUME DesktopAssumption ==
  /\ Packets \subseteq [dx : -256 .. 255, dy : -256 .. 255, left : BOOLEAN, over : BOOLEAN]
  /\ Windows0 \in Seq([id : Nat \ {Desktop}, x : Int, y : Int, w : Nat \ {0}, h : Nat])
  /\ Len(Windows0) <= WinMax
  /\ \A w \in Range(Windows0) : w.h >= BarHeight /\ Reachable(w)
  /\ \A i, j \in DOMAIN Windows0 : Windows0[i].id = Windows0[j].id => i = j
  /\ {MaxPackets, MaxSpoilt} \subseteq Nat

VARIABLES
  mouse,    \* [x, y, buttons, got]: g_x, g_y, g_buttons, and the g_phase bytes in g_packet
  pc,       \* what the loop does next: "x", "y" or "frame"
  mx, my,   \* the loop's copies; at "x", where the pointer was drawn last
  desk,     \* the windows
  hand,     \* history: what the mouse has been made to do, [x, y, left]
  inStep,   \* history: packets are whole, or have been recognised again
  sent,     \* counts for MaxPackets
  spoilt    \* and for MaxSpoilt

vars == <<mouse, pc, mx, my, desk, hand, inStep, sent, spoilt>>

-----------------------------------------------------------------------------
(* The mouse.                                                               *)

\* The bit of a byte that has the weight.
Bit(b, weight) == (b \div weight) % 2

\* The PS/2 packet for a movement, of 9 bits and a sign each.
Encoded(p) ==
  << 8 + (IF p.left THEN 1 ELSE 0) + (IF p.dx < 0 THEN 16 ELSE 0)
       + (IF p.dy < 0 THEN 32 ELSE 0) + (IF p.over THEN 64 ELSE 0),
     p.dx % 256, p.dy % 256 >>

\* Mutant: the first row or column beyond the screen is let through.
ClampWide(v, size) == IF v < 0 THEN 0 ELSE IF v > size THEN size - 1 ELSE v

Clamp(v, size) == IF v < 0 THEN 0 ELSE IF v >= size THEN size - 1 ELSE v

\* The third byte: the packet takes effect, unless its overflow bits are set.
Complete(m, f, b1, b2) ==
  LET dx == b1 - 256 * Bit(f, 16)
      dy == b2 - 256 * Bit(f, 32)
  IN IF Bit(f, 64) = 1 \/ Bit(f, 128) = 1
     THEN [m EXCEPT !.got = << >>]
     ELSE [x |-> Clamp(m.x + dx, Width), y |-> Clamp(m.y - dy, Height),
           buttons |-> f % 8, got |-> << >>]

\* Mutant: the first byte is not looked at.
MouseIrqTrusting(m, b) ==
  IF Len(m.got) < 2 THEN [m EXCEPT !.got = Append(m.got, b)]
  ELSE Complete(m, m.got[1], m.got[2], b)

\* mouse_irq
MouseIrq(m, b) ==
  CASE m.got = << >> /\ Bit(b, 8) = 0 -> m
    [] m.got = << >> /\ Bit(b, 8) = 1 -> [m EXCEPT !.got = <<b>>]
    [] Len(m.got) = 1                 -> [m EXCEPT !.got = Append(m.got, b)]
    [] Len(m.got) = 2                 -> Complete(m, m.got[1], m.got[2], b)

\* What the history makes of a packet that is whole and in step.
Obeyed(h, p) ==
  IF p.over THEN h
  ELSE [x |-> Clamp(h.x + p.dx, Width), y |-> Clamp(h.y - p.dy, Height), left |-> p.left]

Seen(m) == [x |-> m.x, y |-> m.y, left |-> Bit(m.buttons, 1) = 1]

\* A packet whose movement bytes cannot be taken for a first byte.
Quiet(p) == \A i \in {2, 3} : Bit(Encoded(p)[i], 8) = 0

\* IRQ 12, for a byte of a packet that is not lost.
Irq(m, p, i, lost) == IF i \in lost THEN m ELSE MouseIrq(m, Encoded(p)[i])

Packet(p, lost) ==
  /\ sent < MaxPackets /\ sent' = sent + 1
  /\ lost # {} => spoilt < MaxSpoilt
  /\ spoilt' = IF lost = {} THEN spoilt ELSE spoilt + 1
  /\ mouse' = Irq(Irq(Irq(mouse, p, 1, lost), p, 2, lost), p, 3, lost)
  /\ inStep' = (lost = {} /\ (inStep \/ Quiet(p)))
  /\ hand' = IF inStep /\ lost = {} THEN Obeyed(hand, p) ELSE Seen(mouse')
  /\ UNCHANGED <<pc, mx, my, desk>>

-----------------------------------------------------------------------------
(* The boot task.                                                           *)

ReadX ==
  /\ pc = "x" /\ pc' = "y"
  /\ mx' = mouse.x
  /\ UNCHANGED <<mouse, my, desk, hand, inStep, sent, spoilt>>

ReadY ==
  /\ pc = "y" /\ pc' = "frame"
  /\ my' = mouse.y
  /\ UNCHANGED <<mouse, mx, desk, hand, inStep, sent, spoilt>>

\* Reads the buttons, handles the windows, composes and presents.
Frame ==
  /\ pc = "frame" /\ pc' = "x"
  /\ desk' = Handle(desk, mx, my, Bit(mouse.buttons, 1) = 1)
  /\ UNCHANGED <<mouse, mx, my, hand, inStep, sent, spoilt>>

\* What the calls of window_create leave.
Created ==
  LET made[i \in 0 .. Len(Windows0)] ==
        IF i = 0 THEN << >> ELSE WindowCreate(made[i - 1], Windows0[i])
  IN  made[Len(Windows0)]

\* mouse_init leaves the pointer in the middle.  It reads one byte for each
\* command; when the controller held one before, the last answer (0xFA) is
\* still there and is the first that IRQ 12 finds.
Init ==
  /\ \E fresh \in {[x |-> Width \div 2, y |-> Height \div 2, buttons |-> 0, got |-> << >>]} :
       \/ mouse = fresh /\ inStep = TRUE
       \/ mouse = MouseIrq(fresh, 250) /\ inStep = FALSE
  /\ hand = Seen(mouse)
  /\ mx = mouse.x /\ my = mouse.y
  /\ desk = [wins |-> Created, drag |-> 0, offx |-> 0, offy |-> 0, last |-> FALSE]
  /\ pc = "x"
  /\ sent = 0 /\ spoilt = 0

Next ==
  \/ ReadX \/ ReadY \/ Frame
  \/ \E p \in Packets, lost \in SUBSET {1, 2, 3} : Packet(p, lost)

Spec == Init /\ [][Next]_vars

-----------------------------------------------------------------------------
(* Properties.                                                              *)

Top == desk.wins[Len(desk.wins)]

\* The pointer stays on the screen, and raising keeps each window once.
TypeOK ==
  /\ mouse.x \in 0 .. Width - 1 /\ mouse.y \in 0 .. Height - 1
  /\ mouse.buttons \in 0 .. 7 /\ Len(mouse.got) \in 0 .. 2
  /\ pc \in {"x", "y", "frame"}
  /\ mx \in 0 .. Width - 1 /\ my \in 0 .. Height - 1
  /\ {w.id : w \in Range(desk.wins)} = {w.id : w \in Range(Windows0)}
  /\ Len(desk.wins) = Len(Windows0)
  /\ desk.drag \in 0 .. Len(desk.wins)
  /\ hand.x \in 0 .. Width - 1 /\ hand.y \in 0 .. Height - 1
  /\ inStep \in BOOLEAN /\ sent \in 0 .. MaxPackets /\ spoilt \in 0 .. MaxSpoilt

\* Between packets mouse_irq waits for a first byte and has the position and
\* the button right.  Bytes lost or left over put it out of step, but only until
\* the next whole packet whose movement bytes have no bit 3.
FollowsHand == inStep => mouse.got = << >> /\ Seen(mouse) = hand

\* While a window is dragged the pointer stays where it took hold of its bar.
GripKept ==
  pc = "x" /\ desk.drag > 0 =>
    /\ desk.last /\ desk.drag = Len(desk.wins)
    /\ mx = Top.x + desk.offx /\ my = Top.y + desk.offy
    /\ Inside(Top, mx, my) /\ OnBar(Top, my)
    /\ ShownAt(desk.wins, mx, my) = Top.id

\* No window is ever moved to where it cannot be taken hold of again.
BarsReachable == \A w \in Range(desk.wins) : Reachable(w)

\* Dragging keeps hold, and loses no window, although x and y may be of
\* different packets and releases may come between two frames.
DragSound == GripKept /\ BarsReachable

PressEdge == Frame /\ Bit(mouse.buttons, 1) = 1 /\ ~desk.last

\* Which window is under which, of those with another id.
Order(wins, id) ==
  LET pairs == {u \in (DOMAIN wins) \X (DOMAIN wins) :
                  u[1] < u[2] /\ id \notin {wins[u[1]].id, wins[u[2]].id}}
  IN  {<<wins[u[1]], wins[u[2]]>> : u \in pairs}

\* A press brings the window to the front that the screen shows at the
\* pointer, the one hit-testing finds; it moves nothing and leaves the others
\* in their order.
PressesWhatIsShown ==
  [][PressEdge =>
       LET hit == ShownAt(desk.wins, mx, my)
       IN /\ Order(desk'.wins, hit) = Order(desk.wins, hit)
          /\ Range(desk'.wins) = Range(desk.wins)
          /\ hit # Desktop => desk'.wins[Len(desk'.wins)].id = hit]_vars
=============================================================================
