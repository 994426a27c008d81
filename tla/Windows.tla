------------------------------- MODULE Windows -------------------------------
(***************************************************************************)
(* The window manager (window.cpp) and the painting under it (gfx.cpp), as  *)
(* operators on values.  A surface is the back buffer: words of memory,     *)
(* rows Stride apart, of which the screen shows Width by Height.  A colour  *)
(* is whose pixel it is, a window's id or the desktop's; titles and the     *)
(* terminal's text are painted inside their window and not told apart.      *)
(***************************************************************************)
EXTENDS Integers, SequencesExt

CONSTANTS
  Width, Height,    \* fb_width(), fb_height()
  Stride, Rows,     \* GFX_BB_W, GFX_BB_H
  BarHeight,        \* TITLEBAR_H
  WinMax            \* WIN_MAX

\* gfx_backbuffer clips to the screen and not to its own geometry.
ASSUME ScreenAssumption ==
  /\ {Stride, Rows, BarHeight, WinMax} \subseteq Nat \ {0}
  /\ Width \in 1 .. Stride /\ Height \in 1 .. Rows

Desktop == 0

-----------------------------------------------------------------------------
(* Painting.                                                                *)

Word(x, y) == y * Stride + x

\* Mutant: the right and lower edges are not clipped.
ClippedLow(from, len, limit) == Max({from, 0}) .. from + len - 1

Clipped(from, len, limit) == Max({from, 0}) .. Min({from + len, limit}) - 1

FillRect(s, x, y, w, h, c) ==
  LET words == {Word(i, j) : i \in Clipped(x, w, Width), j \in Clipped(y, h, Height)}
  IN [a \in DOMAIN s |-> IF w > 0 /\ h > 0 /\ a \in words THEN c ELSE s[a]]

HLine(s, x, y, w, c) == FillRect(s, x, y, w, 1, c)
VLine(s, x, y, h, c) == FillRect(s, x, y, 1, h, c)

Outline(s, x, y, w, h, c) ==
  LET rows == HLine(HLine(s, x, y, w, c), x, y + h - 1, w, c)
  IN VLine(VLine(rows, x, y, h, c), x + w - 1, y, h, c)

\* Title bar, content, border.
Paint(s, w) ==
  LET bar  == FillRect(s, w.x, w.y, w.w, BarHeight, w.id)
      full == FillRect(bar, w.x, w.y + BarHeight, w.w, w.h - BarHeight, w.id)
  IN Outline(full, w.x, w.y, w.w, w.h, w.id)

\* The back buffer after window_compose: the desktop, then from the bottom up.
Compose(wins) ==
  LET painted[i \in 0 .. Len(wins)] ==
        IF i = 0 THEN [a \in 0 .. Stride * Rows - 1 |-> Desktop]
        ELSE Paint(painted[i - 1], wins[i])
  IN  painted[Len(wins)]

\* What gfx_present shows at a pixel.
ShownAt(wins, x, y) == Compose(wins)[Word(x, y)]

-----------------------------------------------------------------------------
(* Windows, bottom first.                                                   *)

WindowCreate(wins, w) == IF Len(wins) >= WinMax THEN wins ELSE Append(wins, w)

Inside(w, x, y) == x \in w.x .. w.x + w.w - 1 /\ y \in w.y .. w.y + w.h - 1

\* 0 for none.
TopmostAt(wins, x, y) ==
  LET hits == {i \in DOMAIN wins : Inside(wins[i], x, y)}
  IN IF hits = {} THEN 0 ELSE Max(hits)

\* Mutant: the window trades places with the top one.
RaiseBySwap(wins, i) ==
  IF i \in 1 .. Len(wins) - 1
  THEN [wins EXCEPT ![i] = wins[Len(wins)], ![Len(wins)] = wins[i]]
  ELSE wins

Raise(wins, i) ==
  IF i \in 1 .. Len(wins) - 1 THEN Append(RemoveAt(wins, i), wins[i]) ELSE wins

OnBar(w, y) == y \in w.y .. w.y + BarHeight - 1

\* The desk: [wins, drag, offx, offy, last], as the statics of window.cpp.
Pressed(d, x, y) ==
  LET hit == TopmostAt(d.wins, x, y)
      up  == Raise(d.wins, hit)
      top == up[Len(up)]
  IN IF hit = 0 THEN d
     ELSE IF OnBar(top, y)
          THEN [d EXCEPT !.wins = up, !.drag = Len(up), !.offx = x - top.x, !.offy = y - top.y]
          ELSE [d EXCEPT !.wins = up]

\* Mutant: releasing the button forgets to let go.
ReleasedNot(d) == d

Released(d) == [d EXCEPT !.drag = 0]

Dragged(d, x, y) ==
  [d EXCEPT !.wins[d.drag].x = x - d.offx, !.wins[d.drag].y = y - d.offy]

\* window_handle.
Handle(d, x, y, left) ==
  LET edge  == CASE left /\ ~d.last -> Pressed(d, x, y)
                 [] ~left /\ d.last -> Released(d)
                 [] OTHER           -> d
      moved == IF edge.drag > 0 /\ left THEN Dragged(edge, x, y) ELSE edge
  IN [moved EXCEPT !.last = left]
=============================================================================
