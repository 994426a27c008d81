---------------------------- MODULE DeviceProofs ----------------------------
(***************************************************************************)
(* The devices.  First the mouse and the desktop: that a drag keeps hold,   *)
(* that what a press raises is what the screen shows, that the stream of    *)
(* packets is recognised again, for every screen, any windows and any       *)
(* packets.  Then the disk driver and its device.                           *)
(***************************************************************************)
EXTENDS Desktop, Vblk, SequenceTheorems, Induction

-----------------------------------------------------------------------------
(* Painting.                                                                *)

Columns == 0 .. Width - 1
Lines   == 0 .. Height - 1

\* The windows there can be, and the colours of the screen.
Wins   == [id : Nat \ {Desktop}, x : Int, y : Int, w : Nat \ {0}, h : {n \in Nat : n >= BarHeight}]
Colour == Nat

\* The words of the back buffer.
Words    == 0 .. Stride * Rows - 1
Surfaces == [Words -> Colour]

\* What sizes are.
LEMMA ScreenSizes ==
  /\ Width \in Nat \ {0} /\ Height \in Nat \ {0} /\ Stride \in Nat /\ Rows \in Nat
  /\ Width <= Stride /\ Height <= Rows /\ BarHeight \in Nat \ {0} /\ WinMax \in Nat \ {0}
<1>1. {Stride, Rows, BarHeight, WinMax} \subseteq Nat \ {0}
  BY ScreenAssumption
<1> QED
  BY <1>1, ScreenAssumption

\* The lesser and the greater of two numbers.
LEMMA LesserOf ==
  ASSUME NEW a \in Int, NEW b \in Int
  PROVE  Min({a, b}) = IF a <= b THEN a ELSE b
<1> DEFINE m == IF a <= b THEN a ELSE b
<1>1. m \in {a, b} /\ \A y \in {a, b} : m <= y
  OBVIOUS
<1>2. \A x \in {a, b} : (\A y \in {a, b} : x <= y) => x = m
  OBVIOUS
<1> HIDE DEF m
<1>3. Min({a, b}) = m
  BY <1>1, <1>2 DEF Min
<1> QED
  BY <1>3 DEF m

LEMMA GreaterOf ==
  ASSUME NEW a \in Int, NEW b \in Int
  PROVE  Max({a, b}) = IF a >= b THEN a ELSE b
<1> DEFINE m == IF a >= b THEN a ELSE b
<1>1. m \in {a, b} /\ \A y \in {a, b} : m >= y
  OBVIOUS
<1>2. \A x \in {a, b} : (\A y \in {a, b} : x >= y) => x = m
  OBVIOUS
<1> HIDE DEF m
<1>3. Max({a, b}) = m
  BY <1>1, <1>2 DEF Max
<1> QED
  BY <1>3 DEF m

\* What is left of a span when it is clipped to a screen.
LEMMA ClippedIs ==
  ASSUME NEW from \in Int, NEW len \in Int, NEW limit \in Nat, NEW k \in 0 .. limit - 1
  PROVE  k \in Clipped(from, len, limit) <=> k \in from .. from + len - 1
<1>1. Max({from, 0}) = IF from >= 0 THEN from ELSE 0
  BY GreaterOf
<1>2. Min({from + len, limit}) = IF from + len <= limit THEN from + len ELSE limit
  <2>1. from + len \in Int /\ limit \in Int
    OBVIOUS
  <2> QED
    BY <2>1, LesserOf
<1> QED
  BY <1>1, <1>2 DEF Clipped

\* Clipping leaves what is on the screen.
LEMMA ClippedOn ==
  ASSUME NEW from \in Int, NEW len \in Int, NEW limit \in Nat
  PROVE  Clipped(from, len, limit) \subseteq 0 .. limit - 1
<1>1. Max({from, 0}) = IF from >= 0 THEN from ELSE 0
  BY GreaterOf
<1>2. Min({from + len, limit}) = IF from + len <= limit THEN from + len ELSE limit
  <2>1. from + len \in Int /\ limit \in Int
    OBVIOUS
  <2> QED
    BY <2>1, LesserOf
<1> QED
  BY <1>1, <1>2 DEF Clipped

\* A row further down is at least a stride further on.
LEMMA RowsApart ==
  ASSUME NEW m \in Nat, NEW y \in Nat, NEW j \in Nat, y < j
  PROVE  y * m + m <= j * m
<1>1. PICK d \in Nat : j = y + 1 + d
  <2>1. j - y - 1 \in Nat /\ j = y + 1 + (j - y - 1)
    OBVIOUS
  <2> QED
    BY <2>1
<1>2. j * m = y * m + m + d * m
  BY <1>1
<1>3. d * m \in Nat /\ y * m \in Nat
  OBVIOUS
<1> QED
  BY <1>2, <1>3

\* A pixel has a word of its own.
LEMMA WordIs ==
  ASSUME NEW x \in Columns, NEW y \in Lines
  PROVE  /\ Word(x, y) \in Words
         /\ \A i \in Columns, j \in Lines : Word(i, j) = Word(x, y) => i = x /\ j = y
<1>1. /\ x \in Nat /\ y \in Nat /\ x < Stride /\ y < Rows
      /\ Stride \in Nat /\ Rows \in Nat
  BY ScreenSizes DEF Columns, Lines
<1>2. y * Stride \in Nat /\ Rows * Stride \in Nat /\ y * Stride + Stride <= Rows * Stride
  <2>1. y * Stride + Stride <= Rows * Stride
    BY <1>1, RowsApart
  <2> QED
    BY <1>1, <2>1
<1>3. Word(x, y) \in Words
  <2>1. Word(x, y) = y * Stride + x /\ Words = 0 .. Rows * Stride - 1
    BY <1>1 DEF Word, Words
  <2> DEFINE a == y * Stride
             b == Rows * Stride
  <2>2. a \in Nat /\ b \in Nat /\ a + Stride <= b
    BY <1>2
  <2> HIDE DEF a, b
  <2>3. a + x \in 0 .. b - 1
    BY <1>1, <2>2
  <2> QED
    BY <2>1, <2>3 DEF a, b
<1>4. ASSUME NEW i \in Columns, NEW j \in Lines, Word(i, j) = Word(x, y)
      PROVE  i = x /\ j = y
  <2>1. i \in Nat /\ j \in Nat /\ i < Stride
    BY ScreenSizes DEF Columns, Lines
  <2> DEFINE a == y * Stride
             b == j * Stride
  <2>2. a \in Nat /\ b \in Nat /\ b + i = a + x
    BY <1>1, <1>4, <2>1 DEF Word
  <2>3. y < j => a + Stride <= b
    BY <1>1, <2>1, RowsApart
  <2>4. j < y => b + Stride <= a
    BY <1>1, <2>1, RowsApart
  <2>5. j = y => a = b
    OBVIOUS
  <2> HIDE DEF a, b
  <2>6. j = y
    BY <1>1, <2>1, <2>2, <2>3, <2>4
  <2> QED
    BY <1>1, <2>1, <2>2, <2>5, <2>6
<1> QED
  BY <1>3, <1>4

\* A pixel of the rectangle gets the colour, another on the screen keeps its own.
LEMMA FillRectIs ==
  ASSUME NEW s \in Surfaces, NEW c \in Colour,
         NEW x \in Int, NEW y \in Int, NEW w \in Int, NEW h \in Int
  PROVE  /\ FillRect(s, x, y, w, h, c) \in Surfaces
         /\ \A i \in Columns, j \in Lines :
              FillRect(s, x, y, w, h, c)[Word(i, j)] =
                IF i \in x .. x + w - 1 /\ j \in y .. y + h - 1 THEN c ELSE s[Word(i, j)]
<1> DEFINE words == {Word(i, j) : i \in Clipped(x, w, Width), j \in Clipped(y, h, Height)}
           t == FillRect(s, x, y, w, h, c)
<1>1. t = [a \in Words |-> IF w > 0 /\ h > 0 /\ a \in words THEN c ELSE s[a]]
  BY DEF FillRect, Surfaces
<1>2. t \in Surfaces
  <2> HIDE DEF words
  <2> QED
    BY <1>1 DEF Surfaces
<1>3. ASSUME NEW i \in Columns, NEW j \in Lines
      PROVE  t[Word(i, j)] =
               IF i \in x .. x + w - 1 /\ j \in y .. y + h - 1 THEN c ELSE s[Word(i, j)]
  <2>1. Word(i, j) \in words <=> i \in Clipped(x, w, Width) /\ j \in Clipped(y, h, Height)
    <3>1. ASSUME NEW k \in Clipped(x, w, Width), NEW l \in Clipped(y, h, Height),
                 Word(k, l) = Word(i, j)
          PROVE  k = i /\ l = j
      <4>1. k \in Columns /\ l \in Lines
        BY ClippedOn, ScreenSizes DEF Columns, Lines
      <4> QED
        BY <3>1, <4>1, WordIs
    <3> QED
      BY <3>1
  <2>2. i \in Clipped(x, w, Width) <=> i \in x .. x + w - 1
    BY ClippedIs, ScreenSizes DEF Columns
  <2>3. j \in Clipped(y, h, Height) <=> j \in y .. y + h - 1
    BY ClippedIs, ScreenSizes DEF Lines
  <2>4. (i \in x .. x + w - 1 => w > 0) /\ (j \in y .. y + h - 1 => h > 0)
    BY DEF Columns, Lines
  <2>5. Word(i, j) \in Words
    BY WordIs
  <2>6. t[Word(i, j)] = IF w > 0 /\ h > 0 /\ Word(i, j) \in words THEN c ELSE s[Word(i, j)]
    <3> HIDE DEF words, t
    <3> QED
      BY <1>1, <2>5
  <2> HIDE DEF words, t
  <2> QED
    BY <2>1, <2>2, <2>3, <2>4, <2>6
<1> QED
  BY <1>2, <1>3

\* A pixel of the window gets the window's colour, another keeps its own.
LEMMA PaintIs ==
  ASSUME NEW s \in Surfaces, NEW w \in Wins
  PROVE  /\ Paint(s, w) \in Surfaces
         /\ \A i \in Columns, j \in Lines :
              /\ Inside(w, i, j) => Paint(s, w)[Word(i, j)] = w.id
              /\ ~Inside(w, i, j) => Paint(s, w)[Word(i, j)] = s[Word(i, j)]
<1> DEFINE x == w.x
           y == w.y
           n == w.w
           h == w.h
           c == w.id
           t1 == FillRect(s, x, y, n, BarHeight, c)
           t2 == FillRect(t1, x, y + BarHeight, n, h - BarHeight, c)
           t3 == FillRect(t2, x, y, n, 1, c)
           t4 == FillRect(t3, x, y + h - 1, n, 1, c)
           t5 == FillRect(t4, x, y, 1, h, c)
           t6 == FillRect(t5, x + n - 1, y, 1, h, c)
           Painted(t, u, i, j, B) ==
             t[Word(i, j)] = IF B THEN c ELSE u[Word(i, j)]
<1>1. /\ x \in Int /\ y \in Int /\ n \in Nat \ {0} /\ h \in Nat /\ h >= BarHeight
      /\ c \in Colour /\ BarHeight \in Nat \ {0}
      /\ y + BarHeight \in Int /\ h - BarHeight \in Int /\ y + h - 1 \in Int /\ x + n - 1 \in Int
  BY ScreenSizes DEF Wins, Colour
<1>2. Paint(s, w) = t6
  BY DEF Paint, Outline, HLine, VLine
<1>3. \A i \in Columns, j \in Lines : Inside(w, i, j) <=> i \in x .. x + n - 1 /\ j \in y .. y + h - 1
  BY DEF Inside
<1> HIDE DEF x, y, n, h, c
<1>4. /\ t1 \in Surfaces
      /\ \A i \in Columns, j \in Lines :
           Painted(t1, s, i, j, i \in x .. x + n - 1 /\ j \in y .. y + BarHeight - 1)
  BY <1>1, FillRectIs
<1> HIDE DEF t1
<1>5. /\ t2 \in Surfaces
      /\ \A i \in Columns, j \in Lines :
           Painted(t2, t1, i, j,
                   i \in x .. x + n - 1 /\ j \in y + BarHeight .. y + BarHeight + (h - BarHeight) - 1)
  BY <1>1, <1>4, FillRectIs
<1> HIDE DEF t2
<1>6. /\ t3 \in Surfaces
      /\ \A i \in Columns, j \in Lines :
           Painted(t3, t2, i, j, i \in x .. x + n - 1 /\ j \in y .. y + 1 - 1)
  BY <1>1, <1>5, FillRectIs
<1> HIDE DEF t3
<1>7. /\ t4 \in Surfaces
      /\ \A i \in Columns, j \in Lines :
           Painted(t4, t3, i, j, i \in x .. x + n - 1 /\ j \in y + h - 1 .. y + h - 1 + 1 - 1)
  BY <1>1, <1>6, FillRectIs
<1> HIDE DEF t4
<1>8. /\ t5 \in Surfaces
      /\ \A i \in Columns, j \in Lines :
           Painted(t5, t4, i, j, i \in x .. x + 1 - 1 /\ j \in y .. y + h - 1)
  BY <1>1, <1>7, FillRectIs
<1> HIDE DEF t5
<1>9. /\ t6 \in Surfaces
      /\ \A i \in Columns, j \in Lines :
           Painted(t6, t5, i, j, i \in x + n - 1 .. x + n - 1 + 1 - 1 /\ j \in y .. y + h - 1)
  BY <1>1, <1>8, FillRectIs
<1> HIDE DEF t6
<1>10. ASSUME NEW i \in Columns, NEW j \in Lines
       PROVE  /\ Inside(w, i, j) => t6[Word(i, j)] = c
              /\ ~Inside(w, i, j) => t6[Word(i, j)] = s[Word(i, j)]
  <2>1. /\ i \in Int /\ j \in Int
    BY ScreenSizes DEF Columns, Lines
  <2> DEFINE B1 == i \in x .. x + n - 1 /\ j \in y .. y + BarHeight - 1
             B2 == i \in x .. x + n - 1 /\ j \in y + BarHeight .. y + BarHeight + (h - BarHeight) - 1
             B3 == i \in x .. x + n - 1 /\ j \in y .. y + 1 - 1
             B4 == i \in x .. x + n - 1 /\ j \in y + h - 1 .. y + h - 1 + 1 - 1
             B5 == i \in x .. x + 1 - 1 /\ j \in y .. y + h - 1
             B6 == i \in x + n - 1 .. x + n - 1 + 1 - 1 /\ j \in y .. y + h - 1
             a == Word(i, j)
  <2>2. /\ Painted(t1, s, i, j, B1) /\ Painted(t2, t1, i, j, B2) /\ Painted(t3, t2, i, j, B3)
        /\ Painted(t4, t3, i, j, B4) /\ Painted(t5, t4, i, j, B5) /\ Painted(t6, t5, i, j, B6)
    BY <1>4, <1>5, <1>6, <1>7, <1>8, <1>9
  <2>3. Inside(w, i, j) => B1 \/ B2
    BY <1>1, <1>3, <2>1
  <2>4. B1 \/ B2 \/ B3 \/ B4 \/ B5 \/ B6 => Inside(w, i, j)
    BY <1>1, <1>3, <2>1
  <2>5. t6[a] = c \/ (~B1 /\ ~B2 /\ ~B3 /\ ~B4 /\ ~B5 /\ ~B6 /\ t6[a] = s[a])
    <3> HIDE DEF B1, B2, B3, B4, B5, B6
    <3> QED
      BY <2>2
  <2>6. ~B1 /\ ~B2 /\ ~B3 /\ ~B4 /\ ~B5 /\ ~B6 => t6[a] = s[a]
    <3> HIDE DEF B1, B2, B3, B4, B5, B6
    <3> QED
      BY <2>2
  <2> HIDE DEF B1, B2, B3, B4, B5, B6
  <2> QED
    BY <2>3, <2>4, <2>5, <2>6
<1> QED
  BY <1>2, <1>9, <1>10 DEF c

\* The back buffer as it is painted, window by window.
LEMMA ComposeIs ==
  ASSUME NEW wins \in Seq(Wins)
  PROVE  \E f \in [0 .. Len(wins) -> Surfaces] :
           /\ f[0] = [a \in Words |-> Desktop]
           /\ \A k \in 1 .. Len(wins) : f[k] = Paint(f[k - 1], wins[k])
           /\ Compose(wins) = f[Len(wins)]
<1> DEFINE N == Len(wins)
           blank == [a \in Words |-> Desktop]
           step == [u \in Surfaces \X (1 .. N) |-> Paint(u[1], wins[u[2]])]
           next(g, k) == Paint(g[k - 1], wins[k])
           Runs(g) == g = [k \in 0 .. N |-> IF k = 0 THEN blank ELSE next(g, k)]
           f == CHOOSE g : Runs(g)
<1>1. N \in Nat /\ \A k \in 1 .. N : wins[k] \in Wins
  OBVIOUS
<1>2. blank \in Surfaces
  BY DEF Surfaces, Colour, Desktop
<1>3. Compose(wins) = f[N]
  BY DEF Compose, Words
<1> HIDE DEF N, blank
<1>4. step \in [Surfaces \X (1 .. N) -> Surfaces]
  BY <1>1, PaintIs
<1>5. PICK h \in [0 .. N -> Surfaces] : h[0] = blank /\ \A i \in 1 .. N : h[i] = step[<<h[i - 1], i>>]
  <2> HIDE DEF step
  <2>1. \E h \in [0 .. N -> Surfaces] : Iterates(h, N, blank, step)
    BY <1>1, <1>2, <1>4, Iteration
  <2> QED
    BY <2>1 DEF Iterates
<1>6. ASSUME NEW i \in 1 .. N
      PROVE  h[i] = next(h, i)
  <2>1. h[i - 1] \in Surfaces
    BY <1>1
  <2> DEFINE u == <<h[i - 1], i>>
  <2>2. u \in Surfaces \X (1 .. N) /\ u[1] = h[i - 1] /\ u[2] = i
    BY <2>1
  <2>3. h[i] = step[u]
    BY <1>5
  <2>4. step[u] = Paint(u[1], wins[u[2]])
    <3> HIDE DEF u
    <3> QED
      BY <2>2
  <2> QED
    BY <2>2, <2>3, <2>4
<1>7. Runs(h)
  <2> HIDE DEF next, step
  <2> QED
    BY <1>5, <1>6
<1>8. Runs(f)
  <2> HIDE DEF Runs
  <2> QED
    BY <1>7
<1> HIDE DEF f
<1>9. f[0] = blank /\ \A k \in 1 .. N : f[k] = next(f, k)
  <2> DEFINE e(k) == IF k = 0 THEN blank ELSE next(f, k)
  <2>1. e(0) = blank /\ \A k \in 1 .. N : e(k) = next(f, k)
    OBVIOUS
  <2>2. f = [k \in 0 .. N |-> e(k)]
    BY <1>8
  <2> HIDE DEF e
  <2>3. \A k \in 0 .. N : f[k] = e(k)
    BY <2>2
  <2> QED
    BY <1>1, <2>1, <2>3
<1>10. \A k \in 0 .. N : f[k] \in Surfaces
  <2> DEFINE P == {k \in Nat : f[k] \in Surfaces}
  <2>1. 0 \in P
    BY <1>2, <1>9
  <2>2. ASSUME NEW i \in 0 .. N - 1, i \in P
        PROVE  i + 1 \in P
    <3> DEFINE k == i + 1
    <3>1. k \in 1 .. N /\ k - 1 = i /\ k \in Nat /\ f[i] \in Surfaces
      BY <1>1, <2>2
    <3> HIDE DEF k
    <3>2. f[k] = Paint(f[i], wins[k]) /\ wins[k] \in Wins
      BY <1>1, <1>9, <3>1
    <3>3. f[k] \in Surfaces
      BY <3>1, <3>2, PaintIs
    <3> QED
      BY <3>1, <3>3 DEF k
  <2> HIDE DEF P
  <2>3. 0 .. N \subseteq P
    BY <1>1, <2>1, <2>2, UpTo
  <2> QED
    BY <2>3 DEF P
<1>11. f \in [0 .. N -> Surfaces]
  BY <1>8, <1>10
<1> QED
  BY <1>3, <1>9, <1>11 DEF N, blank

\* Of the first n windows the m-th is the topmost under a point.
TopmostOf(wins, n, m, x, y) ==
  /\ m \in 1 .. n /\ Inside(wins[m], x, y)
  /\ \A i \in m + 1 .. n : ~Inside(wins[i], x, y)

\* A pixel shows the topmost window there, and the desktop where there is none.
LEMMA ShownIs ==
  ASSUME NEW wins \in Seq(Wins), NEW x \in Columns, NEW y \in Lines
  PROVE  \/ /\ \A i \in 1 .. Len(wins) : ~Inside(wins[i], x, y)
            /\ ShownAt(wins, x, y) = Desktop
         \/ \E m \in 1 .. Len(wins) :
              TopmostOf(wins, Len(wins), m, x, y) /\ ShownAt(wins, x, y) = wins[m].id
<1> DEFINE N == Len(wins)
           a == Word(x, y)
           Bare(n) == \A i \in 1 .. n : ~Inside(wins[i], x, y)
           Shows(n, v) ==
             \/ Bare(n) /\ v = Desktop
             \/ \E m \in 1 .. n : TopmostOf(wins, n, m, x, y) /\ v = wins[m].id
<1>1. N \in Nat /\ \A k \in 1 .. N : wins[k] \in Wins
  OBVIOUS
<1>2. PICK f \in [0 .. N -> Surfaces] :
        /\ f[0] = [b \in Words |-> Desktop]
        /\ \A k \in 1 .. N : f[k] = Paint(f[k - 1], wins[k])
        /\ Compose(wins) = f[N]
  BY ComposeIs
<1> DEFINE P == {k \in Nat : Shows(k, f[k][a])}
<1>3. 0 \in P
  <2>1. f[0][a] = Desktop
    BY <1>2, WordIs
  <2>2. Bare(0)
    OBVIOUS
  <2> QED
    BY <2>1, <2>2
<1>4. ASSUME NEW i \in 0 .. N - 1, i \in P
      PROVE  i + 1 \in P
  <2> DEFINE k == i + 1
  <2>1. k \in 1 .. N /\ k - 1 = i /\ k \in Nat /\ i \in Nat /\ f[i] \in Surfaces /\ i \in 0 .. N
    BY <1>1
  <2>2. 1 .. k = (1 .. i) \cup {k} /\ k \in 1 .. k /\ k + 1 .. k = {}
        /\ \A m \in 1 .. i : m + 1 .. k = (m + 1 .. i) \cup {k}
    BY <2>1
  <2>3. Shows(i, f[i][a])
    BY <1>4
  <2> HIDE DEF k
  <2>4. f[k] = Paint(f[i], wins[k]) /\ wins[k] \in Wins
    BY <1>1, <1>2, <2>1
  <2> DEFINE v == f[k][a]
             u == f[i][a]
  <2>5. /\ Inside(wins[k], x, y) => v = wins[k].id
        /\ ~Inside(wins[k], x, y) => v = u
    BY <2>1, <2>4, PaintIs
  <2> HIDE DEF u, v
  <2>6. CASE Inside(wins[k], x, y)
    <3>1. TopmostOf(wins, k, k, x, y)
      BY <2>2, <2>6 DEF TopmostOf
    <3> QED
      BY <2>1, <2>2, <2>5, <2>6, <3>1 DEF k, v
  <2>7. CASE ~Inside(wins[k], x, y)
    <3>1. Bare(i) => Bare(k)
      BY <2>2, <2>7
    <3>2. ASSUME NEW m \in 1 .. i, TopmostOf(wins, i, m, x, y)
          PROVE  m \in 1 .. k /\ TopmostOf(wins, k, m, x, y)
      BY <2>2, <2>7, <3>2 DEF TopmostOf
    <3>3. Shows(i, u)
      BY <2>3 DEF u
    <3>4. v = u
      BY <2>5, <2>7
    <3>5. Shows(k, v)
      <4> HIDE DEF Bare
      <4> QED
        BY <3>1, <3>2, <3>3, <3>4
    <3> QED
      BY <2>1, <3>5 DEF k, v
  <2> QED
    BY <2>6, <2>7
<1>5. N \in P
  <2> HIDE DEF P
  <2>1. 0 .. N \subseteq P
    BY <1>1, <1>3, <1>4, UpTo
  <2> QED
    BY <1>1, <2>1
<1>6. ShownAt(wins, x, y) = f[N][a]
  BY <1>2 DEF ShownAt
<1> QED
  BY <1>5, <1>6

\* Hit-testing finds the topmost.
LEMMA TopmostIs ==
  ASSUME NEW wins \in Seq(Wins), NEW x, NEW y
  PROVE  /\ (\A i \in 1 .. Len(wins) : ~Inside(wins[i], x, y)) => TopmostAt(wins, x, y) = 0
         /\ \A m : TopmostOf(wins, Len(wins), m, x, y) => TopmostAt(wins, x, y) = m
<1> DEFINE hits == {i \in DOMAIN wins : Inside(wins[i], x, y)}
<1>1. TopmostAt(wins, x, y) = IF hits = {} THEN 0 ELSE Max(hits)
  BY DEF TopmostAt
<1>2. DOMAIN wins = 1 .. Len(wins) /\ Len(wins) \in Nat
  OBVIOUS
<1>3. ASSUME NEW m, TopmostOf(wins, Len(wins), m, x, y)
      PROVE  TopmostAt(wins, x, y) = m
  <2>1. m \in hits /\ hits \subseteq Int
    BY <1>2, <1>3 DEF TopmostOf
  <2>2. \A i \in hits : m >= i
    BY <1>2, <1>3 DEF TopmostOf
  <2> HIDE DEF hits
  <2>3. \A k \in hits : (\A i \in hits : k >= i) => k = m
    BY <2>1, <2>2
  <2>4. Max(hits) = m
    BY <2>1, <2>2, <2>3 DEF Max
  <2> QED
    BY <1>1, <2>1, <2>4
<1> QED
  BY <1>1, <1>2, <1>3

-----------------------------------------------------------------------------
(* Raising.                                                                 *)

\* Raising takes a window out and puts it on the others.
LEMMA RaiseIs ==
  ASSUME NEW wins \in Seq(Wins), NEW h \in 1 .. Len(wins)
  PROVE  /\ Raise(wins, h) \in Seq(Wins) /\ Len(Raise(wins, h)) = Len(wins)
         /\ \A k \in 1 .. h - 1 : Raise(wins, h)[k] = wins[k]
         /\ \A k \in h .. Len(wins) - 1 : Raise(wins, h)[k] = wins[k + 1]
         /\ Raise(wins, h)[Len(wins)] = wins[h]
<1> DEFINE n == Len(wins)
           lower == SubSeq(wins, 1, h - 1)
           upper == SubSeq(wins, h + 1, n)
           rest == lower \o upper
<1>1. n \in Nat /\ h \in 1 .. n /\ wins[h] \in Wins
  OBVIOUS
<1>2. CASE h = n
  <2>1. Raise(wins, h) = wins
    BY <1>1, <1>2 DEF Raise
  <2> QED
    BY <1>1, <1>2, <2>1
<1>3. CASE h # n
  <2>1. h \in 1 .. n - 1
    BY <1>1, <1>3
  <2>2. Raise(wins, h) = Append(rest, wins[h])
    BY <2>1 DEF Raise, RemoveAt
  <2>3. /\ lower \in Seq(Wins) /\ Len(lower) = h - 1
        /\ \A k \in 1 .. h - 1 : lower[k] = wins[k]
    BY <2>1
  <2>4. /\ upper \in Seq(Wins) /\ Len(upper) = n - h
        /\ \A k \in 1 .. n - h : upper[k] = wins[k + h]
    BY <2>1
  <2> HIDE DEF lower, upper
  <2>5. /\ rest \in Seq(Wins) /\ Len(rest) = n - 1
        /\ \A k \in 1 .. h - 1 : rest[k] = lower[k]
        /\ \A k \in h .. n - 1 : rest[k] = upper[k - (h - 1)]
    <3>1. /\ rest \in Seq(Wins) /\ Len(rest) = Len(lower) + Len(upper)
          /\ \A k \in 1 .. Len(lower) + Len(upper) :
               rest[k] = IF k <= Len(lower) THEN lower[k] ELSE upper[k - Len(lower)]
      BY <2>3, <2>4, ConcatProperties
    <3>2. Len(lower) + Len(upper) = n - 1 /\ Len(lower) = h - 1
      BY <1>1, <2>3, <2>4
    <3> HIDE DEF rest
    <3>3. \A k \in 1 .. n - 1 : rest[k] = IF k <= h - 1 THEN lower[k] ELSE upper[k - (h - 1)]
      BY <3>1, <3>2
    <3>4. ASSUME NEW k \in 1 .. h - 1
          PROVE  rest[k] = lower[k]
      <4>1. k \in 1 .. n - 1 /\ k <= h - 1
        BY <1>1, <2>1
      <4> QED
        BY <3>3, <4>1
    <3>5. ASSUME NEW k \in h .. n - 1
          PROVE  rest[k] = upper[k - (h - 1)]
      <4>1. k \in 1 .. n - 1 /\ ~(k <= h - 1)
        BY <1>1, <2>1
      <4> QED
        BY <3>3, <4>1
    <3> QED
      BY <3>1, <3>2, <3>4, <3>5
  <2> HIDE DEF rest
  <2>6. \A k \in h .. n - 1 : rest[k] = wins[k + 1]
    <3>1. ASSUME NEW k \in h .. n - 1
          PROVE  k - (h - 1) \in 1 .. n - h /\ (k - (h - 1)) + h = k + 1
      BY <1>1
    <3> QED
      BY <2>4, <2>5, <3>1
  <2>7. /\ Append(rest, wins[h]) \in Seq(Wins) /\ Len(Append(rest, wins[h])) = n
        /\ \A k \in 1 .. n - 1 : Append(rest, wins[h])[k] = rest[k]
        /\ Append(rest, wins[h])[n] = wins[h]
    BY <1>1, <2>5
  <2> QED
    BY <1>1, <2>1, <2>2, <2>3, <2>5, <2>6, <2>7
<1> QED
  BY <1>2, <1>3

\* Where a window is when the h-th of n has been raised, and where it was.
Up(h, n, k)   == IF k < h THEN k ELSE IF k = h THEN n ELSE k - 1
Down(h, n, k) == IF k < h THEN k ELSE IF k = n THEN h ELSE k + 1

\* These are the same windows; those that are not raised keep their order.
LEMMA RaiseKeeps ==
  ASSUME NEW wins \in Seq(Wins), NEW h \in 1 .. Len(wins)
  PROVE  /\ \A k \in 1 .. Len(wins) : /\ Up(h, Len(wins), k) \in 1 .. Len(wins)
                                      /\ Raise(wins, h)[Up(h, Len(wins), k)] = wins[k]
                                      /\ Down(h, Len(wins), Up(h, Len(wins), k)) = k
         /\ \A k \in 1 .. Len(wins) : /\ Down(h, Len(wins), k) \in 1 .. Len(wins)
                                      /\ Raise(wins, h)[k] = wins[Down(h, Len(wins), k)]
                                      /\ Up(h, Len(wins), Down(h, Len(wins), k)) = k
         /\ \A k, l \in 1 .. Len(wins) :
              k # h /\ l # h => (k < l <=> Up(h, Len(wins), k) < Up(h, Len(wins), l))
<1> DEFINE n == Len(wins)
           r == Raise(wins, h)
<1>1. n \in Nat /\ h \in 1 .. n
  OBVIOUS
<1>2. /\ \A k \in 1 .. h - 1 : r[k] = wins[k]
      /\ \A k \in h .. n - 1 : r[k] = wins[k + 1]
      /\ r[n] = wins[h]
  BY RaiseIs
<1> HIDE DEF n, r
<1>3. ASSUME NEW k \in 1 .. n
      PROVE  Up(h, n, k) \in 1 .. n /\ r[Up(h, n, k)] = wins[k] /\ Down(h, n, Up(h, n, k)) = k
  <2>1. CASE k < h
    BY <1>1, <1>2, <2>1 DEF Up, Down
  <2>2. CASE k = h
    BY <1>1, <1>2, <2>2 DEF Up, Down
  <2>3. CASE k > h
    <3>1. k - 1 \in h .. n - 1 /\ (k - 1) + 1 = k /\ Up(h, n, k) = k - 1
      BY <1>1, <2>3 DEF Up
    <3>2. Down(h, n, k - 1) = k
      BY <1>1, <3>1 DEF Down
    <3> QED
      BY <1>1, <1>2, <3>1, <3>2
  <2> QED
    BY <1>1, <2>1, <2>2, <2>3
<1>4. ASSUME NEW k \in 1 .. n
      PROVE  Down(h, n, k) \in 1 .. n /\ r[k] = wins[Down(h, n, k)] /\ Up(h, n, Down(h, n, k)) = k
  <2>1. CASE k < h
    BY <1>1, <1>2, <2>1 DEF Up, Down
  <2>2. CASE k >= h /\ k = n
    BY <1>1, <1>2, <2>2 DEF Up, Down
  <2>3. CASE k >= h /\ k # n
    <3>1. k \in h .. n - 1 /\ Down(h, n, k) = k + 1 /\ (k + 1) - 1 = k
      BY <1>1, <2>3 DEF Down
    <3>2. Up(h, n, k + 1) = k
      BY <1>1, <3>1 DEF Up
    <3> QED
      BY <1>1, <1>2, <3>1, <3>2
  <2> QED
    BY <1>1, <2>1, <2>2, <2>3
<1>5. \A k, l \in 1 .. n : k # h /\ l # h => (k < l <=> Up(h, n, k) < Up(h, n, l))
  BY <1>1 DEF Up
<1> QED
  BY <1>3, <1>4, <1>5 DEF n, r

\* No two windows have an id in common.
Distinct(wins) == \A i, j \in 1 .. Len(wins) : wins[i].id = wins[j].id => i = j

\* Raising leaves the windows, and the order of the others.
LEMMA RaiseOrder ==
  ASSUME NEW wins \in Seq(Wins), NEW h \in 1 .. Len(wins), Distinct(wins)
  PROVE  /\ Range(Raise(wins, h)) = Range(wins) /\ Distinct(Raise(wins, h))
         /\ Order(Raise(wins, h), wins[h].id) = Order(wins, wins[h].id)
<1> DEFINE n == Len(wins)
           r == Raise(wins, h)
           U(k) == Up(h, n, k)
           D(k) == Down(h, n, k)
<1>1. /\ n \in Nat /\ DOMAIN wins = 1 .. n /\ DOMAIN r = 1 .. n /\ Len(r) = n
  BY RaiseIs
<1>2. \A k \in 1 .. n : U(k) \in 1 .. n /\ r[U(k)] = wins[k] /\ D(U(k)) = k
  BY RaiseKeeps
<1>3. \A k \in 1 .. n : D(k) \in 1 .. n /\ r[k] = wins[D(k)] /\ U(D(k)) = k
  BY RaiseKeeps
<1>4. \A k, l \in 1 .. n : k # h /\ l # h => (k < l <=> U(k) < U(l))
  BY RaiseKeeps
<1> HIDE DEF n, r, U, D
<1>5. Range(r) = Range(wins)
  <2>1. /\ \A v : v \in Range(r) <=> \E k \in 1 .. n : v = r[k]
        /\ \A v : v \in Range(wins) <=> \E k \in 1 .. n : v = wins[k]
    BY <1>1 DEF Range
  <2>2. ASSUME NEW v \in Range(r)
        PROVE  v \in Range(wins)
    <3>1. PICK k \in 1 .. n : v = r[k]
      BY <2>1
    <3> QED
      BY <1>3, <2>1, <3>1
  <2>3. ASSUME NEW v \in Range(wins)
        PROVE  v \in Range(r)
    <3>1. PICK k \in 1 .. n : v = wins[k]
      BY <2>1
    <3> QED
      BY <1>2, <2>1, <3>1
  <2> QED
    BY <2>2, <2>3
<1>6. Distinct(r)
  <2> SUFFICES ASSUME NEW i \in 1 .. n, NEW j \in 1 .. n, r[i].id = r[j].id
               PROVE  i = j
    BY <1>1 DEF Distinct
  <2>1. D(i) \in 1 .. n /\ D(j) \in 1 .. n /\ wins[D(i)].id = wins[D(j)].id
    BY <1>3
  <2>2. D(i) = D(j)
    BY Zenon, <2>1 DEF Distinct, n
  <2> QED
    BY <1>3, <2>2
<1>7. Order(r, wins[h].id) = Order(wins, wins[h].id)
  <2> DEFINE c == wins[h].id
             In(s, u) == u[1] < u[2] /\ c \notin {s[u[1]].id, s[u[2]].id}
  <2>1. \A s : Order(s, c) =
          {<<s[u[1]], s[u[2]]>> : u \in {v \in (DOMAIN s) \X (DOMAIN s) : In(s, v)}}
    BY DEF Order
  <2>2. \A k \in 1 .. n : wins[k].id = c => k = h
    BY DEF Distinct, n
  <2> HIDE DEF c
  <2>3. ASSUME NEW i \in 1 .. n, NEW j \in 1 .. n, i < j, c \notin {wins[i].id, wins[j].id}
        PROVE  <<wins[i], wins[j]>> \in Order(r, c)
    <3>1. i # h /\ j # h
      BY <2>3 DEF c
    <3>2. U(i) \in 1 .. n /\ U(j) \in 1 .. n /\ U(i) < U(j)
          /\ r[U(i)] = wins[i] /\ r[U(j)] = wins[j]
      BY <1>2, <1>4, <2>3, <3>1
    <3> DEFINE u == <<U(i), U(j)>>
    <3>3. u \in (DOMAIN r) \X (DOMAIN r) /\ u[1] = U(i) /\ u[2] = U(j)
      BY <1>1, <3>2
    <3> HIDE DEF u
    <3>4. In(r, u)
      BY <2>3, <3>2, <3>3
    <3> QED
      BY <2>1, <3>2, <3>3, <3>4
  <2>4. ASSUME NEW i \in 1 .. n, NEW j \in 1 .. n, i < j, c \notin {r[i].id, r[j].id}
        PROVE  <<r[i], r[j]>> \in Order(wins, c)
    <3>1. D(i) \in 1 .. n /\ D(j) \in 1 .. n /\ r[i] = wins[D(i)] /\ r[j] = wins[D(j)]
          /\ U(D(i)) = i /\ U(D(j)) = j
      BY <1>3
    <3>2. D(i) # h /\ D(j) # h
      BY <2>4, <3>1 DEF c
    <3>3. D(i) < D(j)
      BY <1>4, <2>4, <3>1, <3>2
    <3> DEFINE u == <<D(i), D(j)>>
    <3>4. u \in (DOMAIN wins) \X (DOMAIN wins) /\ u[1] = D(i) /\ u[2] = D(j)
      BY <1>1, <3>1
    <3> HIDE DEF u
    <3>5. In(wins, u)
      BY <2>4, <3>1, <3>3, <3>4
    <3> QED
      BY <2>1, <3>1, <3>4, <3>5
  <2>5. ASSUME NEW o \in Order(wins, c)
        PROVE  o \in Order(r, c)
    <3>1. PICK u \in (DOMAIN wins) \X (DOMAIN wins) : In(wins, u) /\ o = <<wins[u[1]], wins[u[2]]>>
      BY <2>1
    <3>2. u[1] \in 1 .. n /\ u[2] \in 1 .. n
      BY <1>1
    <3> QED
      BY <2>3, <3>1, <3>2
  <2>6. ASSUME NEW o \in Order(r, c)
        PROVE  o \in Order(wins, c)
    <3>1. PICK u \in (DOMAIN r) \X (DOMAIN r) : In(r, u) /\ o = <<r[u[1]], r[u[2]]>>
      BY <2>1
    <3>2. u[1] \in 1 .. n /\ u[2] \in 1 .. n
      BY <1>1
    <3> QED
      BY <2>4, <3>1, <3>2
  <2>7. Order(r, c) = Order(wins, c)
    BY <2>5, <2>6
  <2> QED
    BY <2>7 DEF c
<1> QED
  BY <1>5, <1>6, <1>7 DEF r

\* There is room for the windows, and window_create takes them in their order.
LEMMA CreatedIs == Created = Windows0 /\ Windows0 \in Seq(Wins) /\ Distinct(Windows0)
<1> DEFINE N == Len(Windows0)
           W == [id : Nat \ {Desktop}, x : Int, y : Int, w : Nat \ {0}, h : Nat]
           part == [k \in 0 .. N |-> SubSeq(Windows0, 1, k)]
           next(g, k) == WindowCreate(g[k - 1], Windows0[k])
           Runs(g) == g = [k \in 0 .. N |-> IF k = 0 THEN << >> ELSE next(g, k)]
           made == CHOOSE g : Runs(g)
<1>1. /\ Windows0 \in Seq(W) /\ Len(Windows0) <= WinMax
      /\ \A w \in Range(Windows0) : w.h >= BarHeight
      /\ \A i, j \in DOMAIN Windows0 : Windows0[i].id = Windows0[j].id => i = j
  BY DesktopAssumption
<1> HIDE DEF W
<1>2. N \in Nat /\ DOMAIN Windows0 = 1 .. N /\ N <= WinMax /\ WinMax \in Nat
  BY <1>1, ScreenSizes
<1>3. Distinct(Windows0)
  BY <1>1, <1>2 DEF Distinct
<1>4. \A k \in 1 .. N : Windows0[k] \in Wins
  <2> SUFFICES ASSUME NEW k \in 1 .. N
               PROVE  Windows0[k] \in Wins
    OBVIOUS
  <2> DEFINE w == Windows0[k]
  <2>1. w \in W /\ w.h >= BarHeight
    BY <1>1, <1>2 DEF Range
  <2> HIDE DEF w
  <2> QED
    BY <2>1 DEF Wins, W, w
<1>5. Windows0 \in Seq(Wins)
  BY <1>1, <1>2, <1>4, SeqDef
<1> HIDE DEF N
<1>6. ASSUME NEW k \in 0 .. N
      PROVE  part[k] \in Seq(Wins) /\ Len(part[k]) = k
  BY <1>2, <1>5 DEF N
<1>7. part[0] = << >>
  BY <1>2, <1>5 DEF N
<1>8. ASSUME NEW k \in 1 .. N
      PROVE  part[k] = WindowCreate(part[k - 1], Windows0[k])
  <2>1. k - 1 \in 0 .. N /\ Len(part[k - 1]) = k - 1 /\ k - 1 < WinMax
    BY <1>2, <1>6
  <2>2. WindowCreate(part[k - 1], Windows0[k]) = Append(part[k - 1], Windows0[k])
    BY <1>2, <2>1 DEF WindowCreate
  <2>3. part[k] = SubSeq(Windows0, 1, k) /\ part[k - 1] = SubSeq(Windows0, 1, k - 1)
    BY <2>1
  <2>4. part[k] = part[k - 1] \o <<Windows0[k]>>
    <3>1. 1 \in 1 .. Len(Windows0) /\ k \in 1 .. Len(Windows0)
      BY <1>2 DEF N
    <3> QED
      BY <1>5, <2>3, <3>1, SubSeqRecursiveSecond
  <2>5. part[k - 1] \in Seq(Wins) /\ Windows0[k] \in Wins
    BY <1>4, <1>6, <2>1
  <2> HIDE DEF part
  <2>6. part[k - 1] \o <<Windows0[k]>> = Append(part[k - 1], Windows0[k])
    BY <2>5, AppendIsConcat
  <2> QED
    BY <2>2, <2>4, <2>6
<1>9. Runs(part)
  <2> DEFINE e(k) == IF k = 0 THEN << >> ELSE next(part, k)
  <2>1. part = [k \in 0 .. N |-> part[k]]
    OBVIOUS
  <2> HIDE DEF part
  <2>2. ASSUME NEW k \in 0 .. N
        PROVE  part[k] = e(k)
    <3>1. CASE k = 0
      BY <1>7, <3>1
    <3>2. CASE k # 0
      <4>1. k \in 1 .. N
        BY <1>2, <3>2
      <4> QED
        BY <1>8, <3>2, <4>1
    <3> QED
      BY <3>1, <3>2
  <2> HIDE DEF e
  <2>3. [k \in 0 .. N |-> part[k]] = [k \in 0 .. N |-> e(k)]
    BY <2>2
  <2>4. part = [k \in 0 .. N |-> e(k)]
    BY <2>1, <2>3
  <2> QED
    BY <2>4 DEF e
<1>10. Runs(made)
  <2> HIDE DEF Runs
  <2> QED
    BY <1>9
<1>11. Created = made[N]
  BY DEF Created, N
<1> HIDE DEF made
<1>12. made[0] = << >> /\ \A k \in 1 .. N : made[k] = next(made, k)
  <2> DEFINE e(k) == IF k = 0 THEN << >> ELSE next(made, k)
  <2>1. e(0) = << >> /\ \A k \in 1 .. N : e(k) = next(made, k)
    OBVIOUS
  <2>2. made = [k \in 0 .. N |-> e(k)]
    BY <1>10
  <2> HIDE DEF e
  <2>3. \A k \in 0 .. N : made[k] = e(k)
    BY <2>2
  <2> QED
    BY <1>2, <2>1, <2>3
<1> DEFINE P == {k \in Nat : made[k] = part[k]}
<1>13. N \in P
  <2>1. 0 \in P
    BY <1>7, <1>12
  <2>2. ASSUME NEW i \in 0 .. N - 1, i \in P
        PROVE  i + 1 \in P
    <3> DEFINE k == i + 1
    <3>1. k \in 1 .. N /\ k - 1 = i /\ k \in Nat /\ made[i] = part[i]
      BY <1>2, <2>2
    <3> HIDE DEF k, part
    <3>2. made[k] = part[k]
      BY <1>8, <1>12, <3>1
    <3> QED
      BY <3>1, <3>2 DEF k
  <2> HIDE DEF P
  <2>3. 0 .. N \subseteq P
    BY <1>2, <2>1, <2>2, UpTo
  <2> QED
    BY <1>2, <2>3
<1>14. part[N] = Windows0
  BY <1>2, <1>5 DEF N
<1> QED
  BY <1>3, <1>5, <1>11, <1>13, <1>14

-----------------------------------------------------------------------------
(* The mouse.                                                               *)

Bytes == 0 .. 255
Gots  == {s \in Seq(Bytes) : Len(s) <= 2}
Mice  == [x : Columns, y : Lines, buttons : 0 .. 7, got : Gots]
Hands == [x : Columns, y : Lines, left : BOOLEAN]

\* A clamped position is on the screen.
LEMMA ClampIs ==
  ASSUME NEW v \in Int, NEW size \in Nat \ {0}
  PROVE  Clamp(v, size) \in 0 .. size - 1
BY DEF Clamp

\* Nine bits as a byte and a sign.
LEMMA ByteIs ==
  ASSUME NEW v \in -256 .. 255
  PROVE  /\ v % 256 = v + 256 * (IF v < 0 THEN 1 ELSE 0)
         /\ v + 256 * (IF v < 0 THEN 1 ELSE 0) \in Bytes
<1>1. CASE v < 0
  BY <1>1 DEF Bytes
<1>2. CASE ~(v < 0)
  BY <1>2 DEF Bytes
<1> QED
  BY <1>1, <1>2

\* What a packet is made of.
LEMMA EncodedIs ==
  ASSUME NEW p \in Packets
  PROVE  /\ \A i \in {1, 2, 3} : Encoded(p)[i] \in Bytes
         /\ Bit(Encoded(p)[1], 8) = 1 /\ Bit(Encoded(p)[1], 128) = 0
         /\ Bit(Encoded(p)[1], 64) = IF p.over THEN 1 ELSE 0
         /\ Encoded(p)[1] % 8 = IF p.left THEN 1 ELSE 0
         /\ Encoded(p)[2] - 256 * Bit(Encoded(p)[1], 16) = p.dx
         /\ Encoded(p)[3] - 256 * Bit(Encoded(p)[1], 32) = p.dy
         /\ p.dx \in Int /\ p.dy \in Int /\ p.left \in BOOLEAN /\ p.over \in BOOLEAN
<1> DEFINE a == IF p.left THEN 1 ELSE 0
           b == IF p.dx < 0 THEN 1 ELSE 0
           c == IF p.dy < 0 THEN 1 ELSE 0
           d == IF p.over THEN 1 ELSE 0
           f == 8 + a + 16 * b + 32 * c + 64 * d
<1>1. /\ p.dx \in -256 .. 255 /\ p.dy \in -256 .. 255 /\ p.left \in BOOLEAN /\ p.over \in BOOLEAN
  <2> DEFINE R == [dx : -256 .. 255, dy : -256 .. 255, left : BOOLEAN, over : BOOLEAN]
  <2>1. p \in R
    BY DesktopAssumption
  <2> QED
    BY <2>1
<1>2. Encoded(p) = <<f, p.dx % 256, p.dy % 256>>
  <2>1. 16 * b = IF p.dx < 0 THEN 16 ELSE 0
    OBVIOUS
  <2>2. 32 * c = IF p.dy < 0 THEN 32 ELSE 0
    OBVIOUS
  <2>3. 64 * d = IF p.over THEN 64 ELSE 0
    OBVIOUS
  <2> HIDE DEF b, c, d
  <2> QED
    BY <2>1, <2>2, <2>3 DEF Encoded
<1>3. a \in {0, 1} /\ b \in {0, 1} /\ c \in {0, 1} /\ d \in {0, 1}
  OBVIOUS
<1>4. p.dx % 256 = p.dx + 256 * b /\ p.dy % 256 = p.dy + 256 * c
  BY <1>1, ByteIs
<1>5. p.dx + 256 * b \in Bytes /\ p.dy + 256 * c \in Bytes
  BY <1>1, ByteIs
<1> HIDE DEF a, b, c, d
<1>6. /\ f \in Bytes /\ f % 8 = a
      /\ (f \div 8) % 2 = 1 /\ (f \div 16) % 2 = b /\ (f \div 32) % 2 = c
      /\ (f \div 64) % 2 = d /\ (f \div 128) % 2 = 0
  BY <1>3 DEF Bytes
<1> HIDE DEF f
<1>7. /\ Bit(f, 8) = 1 /\ Bit(f, 16) = b /\ Bit(f, 32) = c /\ Bit(f, 64) = d /\ Bit(f, 128) = 0
  BY <1>6 DEF Bit
<1>8. /\ Encoded(p)[1] = f /\ Encoded(p)[2] = p.dx + 256 * b /\ Encoded(p)[3] = p.dy + 256 * c
  BY <1>2, <1>4
<1>9. /\ (p.dx + 256 * b) - 256 * b = p.dx /\ (p.dy + 256 * c) - 256 * c = p.dy
      /\ p.dx \in Int /\ p.dy \in Int
  <2>1. p.dx \in Int /\ p.dy \in Int
    BY <1>1
  <2>2. \A u \in Int, k \in {0, 1} : (u + 256 * k) - 256 * k = u
    OBVIOUS
  <2> QED
    BY <1>3, <2>1, <2>2
<1> QED
  BY <1>1, <1>5, <1>6, <1>7, <1>8, <1>9 DEF a, d

\* The first bytes of a packet.
LEMMA GotIs ==
  /\ << >> \in Gots
  /\ \A b \in Bytes : <<b>> \in Gots
  /\ \A s \in Gots : /\ Len(s) \in 0 .. 2 /\ (Len(s) = 0 <=> s = << >>)
                     /\ \A i \in 1 .. Len(s) : s[i] \in Bytes
  /\ \A s \in Gots, b \in Bytes :
       Len(s) = 1 => /\ Append(s, b) \in Gots /\ Len(Append(s, b)) = 2
                     /\ Append(s, b)[1] = s[1] /\ Append(s, b)[2] = b
<1>1. << >> \in Gots
  BY DEF Gots
<1>2. \A b \in Bytes : <<b>> \in Gots
  BY DEF Gots
<1>3. ASSUME NEW s \in Gots
      PROVE  /\ Len(s) \in 0 .. 2 /\ (Len(s) = 0 <=> s = << >>)
             /\ \A i \in 1 .. Len(s) : s[i] \in Bytes
  <2>1. s \in Seq(Bytes) /\ Len(s) <= 2
    BY DEF Gots
  <2>2. Len(s) \in Nat /\ (Len(s) = 0 <=> s = << >>)
    <3>1. s # << >> => Len(s) \in Nat \ {0}
      BY <2>1, EmptySeq
    <3>2. s = << >> => Len(s) = 0
      OBVIOUS
    <3> QED
      BY <3>1, <3>2
  <2>3. \A i \in 1 .. Len(s) : s[i] \in Bytes
    <3>1. s \in [1 .. Len(s) -> Bytes]
      BY <2>1, LenProperties
    <3> QED
      BY <3>1
  <2>4. Len(s) \in 0 .. 2
    <3> DEFINE n == Len(s)
    <3>1. n \in Nat /\ n <= 2
      BY <2>1, <2>2
    <3> HIDE DEF n
    <3>2. n \in 0 .. 2
      BY <3>1
    <3> QED
      BY <3>2 DEF n
  <2> QED
    BY <2>2, <2>3, <2>4
<1>4. ASSUME NEW s \in Gots, NEW b \in Bytes, Len(s) = 1
      PROVE  /\ Append(s, b) \in Gots /\ Len(Append(s, b)) = 2
             /\ Append(s, b)[1] = s[1] /\ Append(s, b)[2] = b
  <2>1. s \in Seq(Bytes)
    BY DEF Gots
  <2>2. /\ Append(s, b) \in Seq(Bytes) /\ Len(Append(s, b)) = 2
        /\ Append(s, b)[1] = s[1] /\ Append(s, b)[2] = b
    <3>1. /\ Append(s, b) \in Seq(Bytes) /\ Len(Append(s, b)) = Len(s) + 1
          /\ \A i \in 1 .. Len(s) : Append(s, b)[i] = s[i]
          /\ Append(s, b)[Len(s) + 1] = b
      BY <2>1, AppendProperties
    <3>2. 1 \in 1 .. Len(s) /\ Len(s) + 1 = 2
      BY <1>4
    <3> QED
      BY <3>1, <3>2
  <2> QED
    BY <2>2 DEF Gots
<1> QED
  BY <1>1, <1>2, <1>3, <1>4

\* A bit is 0 or 1, and the buttons are the low three.
LEMMA BitIs ==
  ASSUME NEW b \in Nat, NEW weight \in Nat \ {0}
  PROVE  Bit(b, weight) \in {0, 1} /\ b % 8 \in 0 .. 7
<1>1. b \div weight \in Int
  OBVIOUS
<1>2. \A k \in Int : k % 2 \in {0, 1} /\ k % 8 \in 0 .. 7
  OBVIOUS
<1> QED
  BY <1>1, <1>2 DEF Bit

\* The third byte ends a packet, whatever the bytes are.
LEMMA CompleteIs ==
  ASSUME NEW m \in Mice, NEW f \in Bytes, NEW b1 \in Bytes, NEW b2 \in Bytes
  PROVE  Complete(m, f, b1, b2) \in Mice /\ Complete(m, f, b1, b2).got = << >>
<1> DEFINE dx == b1 - 256 * Bit(f, 16)
           dy == b2 - 256 * Bit(f, 32)
           s == << >>
<1>1. /\ m.x \in Int /\ m.y \in Int /\ Width \in Nat \ {0} /\ Height \in Nat \ {0}
  BY ScreenSizes DEF Mice, Columns, Lines
<1>2. Bit(f, 16) \in {0, 1} /\ Bit(f, 32) \in {0, 1} /\ f % 8 \in 0 .. 7
  BY BitIs DEF Bytes
<1>3. dx \in Int /\ dy \in Int
  BY <1>2 DEF Bytes
<1> HIDE DEF dx, dy
<1>4. Clamp(m.x + dx, Width) \in Columns /\ Clamp(m.y - dy, Height) \in Lines
  BY <1>1, <1>3, ClampIs DEF Columns, Lines
<1>5. s \in Gots
  BY GotIs
<1> HIDE DEF s
<1>6. [m EXCEPT !.got = s] \in Mice /\ [m EXCEPT !.got = s].got = s
  BY <1>5 DEF Mice
<1> DEFINE n == [x |-> Clamp(m.x + dx, Width), y |-> Clamp(m.y - dy, Height), buttons |-> f % 8, got |-> s]
<1>7. n \in Mice /\ n.got = s
  BY <1>2, <1>4, <1>5 DEF Mice
<1>8. Complete(m, f, b1, b2) = [m EXCEPT !.got = s] \/ Complete(m, f, b1, b2) = n
  BY DEF Complete, dx, dy, s
<1> HIDE DEF n
<1> QED
  BY <1>6, <1>7, <1>8 DEF s

\* What a byte does to a mouse.
LEMMA MouseIrqIs ==
  ASSUME NEW m \in Mice, NEW b \in Bytes
  PROVE  /\ MouseIrq(m, b) \in Mice
         /\ m.got = << >> /\ Bit(b, 8) = 0 => MouseIrq(m, b).got = << >>
         /\ m.got = << >> /\ Bit(b, 8) = 1 => MouseIrq(m, b) = [m EXCEPT !.got = <<b>>]
         /\ Len(m.got) = 1 => MouseIrq(m, b) = [m EXCEPT !.got = Append(m.got, b)]
         /\ Len(m.got) = 2 => /\ MouseIrq(m, b) = Complete(m, m.got[1], m.got[2], b)
                              /\ MouseIrq(m, b).got = << >>
<1>1. /\ m.got \in Gots /\ Len(m.got) \in 0 .. 2 /\ (m.got = << >> <=> Len(m.got) = 0)
      /\ \A i \in 1 .. Len(m.got) : m.got[i] \in Bytes
  BY GotIs DEF Mice
<1>2. Bit(b, 8) \in {0, 1}
  BY BitIs DEF Bytes
<1>3. CASE m.got = << >>
  <2>1. ~(Len(m.got) = 1) /\ ~(Len(m.got) = 2)
    BY <1>3
  <2>2. CASE Bit(b, 8) = 0
    <3>1. MouseIrq(m, b) = m
      BY <1>3, <2>2 DEF MouseIrq
    <3> QED
      BY <1>3, <2>1, <2>2, <3>1
  <2>3. CASE Bit(b, 8) = 1
    <3>1. MouseIrq(m, b) = [m EXCEPT !.got = <<b>>]
      BY <1>3, <2>1, <2>3 DEF MouseIrq
    <3> DEFINE s == <<b>>
    <3>2. s \in Gots
      BY GotIs
    <3> HIDE DEF s
    <3>3. [m EXCEPT !.got = s] \in Mice
      BY <3>2 DEF Mice
    <3> QED
      BY <1>3, <2>1, <2>3, <3>1, <3>3 DEF s
  <2> QED
    BY <1>2, <2>2, <2>3
<1>4. CASE Len(m.got) = 1
  <2>1. ~(m.got = << >>) /\ ~(Len(m.got) = 2)
    BY <1>1, <1>4
  <2>2. MouseIrq(m, b) = [m EXCEPT !.got = Append(m.got, b)]
    BY <1>4, <2>1 DEF MouseIrq
  <2> DEFINE s == Append(m.got, b)
  <2>3. s \in Gots
    BY <1>1, <1>4, GotIs
  <2> HIDE DEF s
  <2>4. [m EXCEPT !.got = s] \in Mice
    BY <2>3 DEF Mice
  <2> QED
    BY <1>4, <2>1, <2>2, <2>4 DEF s
<1>5. CASE Len(m.got) = 2
  <2>1. ~(m.got = << >>) /\ ~(Len(m.got) = 1)
    BY <1>1, <1>5
  <2>2. MouseIrq(m, b) = Complete(m, m.got[1], m.got[2], b)
    BY <1>5, <2>1 DEF MouseIrq
  <2>3. m.got[1] \in Bytes /\ m.got[2] \in Bytes
    BY <1>1, <1>5
  <2>4. Complete(m, m.got[1], m.got[2], b) \in Mice /\ Complete(m, m.got[1], m.got[2], b).got = << >>
    BY <2>3, CompleteIs
  <2> QED
    BY <1>5, <2>1, <2>2, <2>4
<1> QED
  BY <1>1, <1>3, <1>4, <1>5

\* What interrupts make of the bytes of a packet, lost or not, is a mouse.
LEMMA IrqIs ==
  ASSUME NEW m \in Mice, NEW p \in Packets, NEW lost, NEW i \in {1, 2, 3}
  PROVE  Irq(m, p, i, lost) \in Mice
BY EncodedIs, MouseIrqIs DEF Irq

\* The three interrupts of a whole packet.
Whole(m, p) == MouseIrq(MouseIrq(MouseIrq(m, Encoded(p)[1]), Encoded(p)[2]), Encoded(p)[3])

\* A whole packet that comes in step has the effect it is sent for.
LEMMA WholeIs ==
  ASSUME NEW m \in Mice, NEW p \in Packets, m.got = << >>
  PROVE  Whole(m, p).got = << >> /\ Seen(Whole(m, p)) = Obeyed(Seen(m), p)
<1> DEFINE f == Encoded(p)[1]
           b1 == Encoded(p)[2]
           b2 == Encoded(p)[3]
           m1 == MouseIrq(m, f)
           m2 == MouseIrq(m1, b1)
           m3 == MouseIrq(m2, b2)
<1>1. f \in Bytes /\ b1 \in Bytes /\ b2 \in Bytes /\ Bit(f, 8) = 1
  BY EncodedIs
<1>2. /\ Bit(f, 128) = 0 /\ Bit(f, 64) = (IF p.over THEN 1 ELSE 0) /\ f % 8 = (IF p.left THEN 1 ELSE 0)
      /\ b1 - 256 * Bit(f, 16) = p.dx /\ b2 - 256 * Bit(f, 32) = p.dy
      /\ p.left \in BOOLEAN /\ p.over \in BOOLEAN
  BY EncodedIs
<1>3. Whole(m, p) = m3
  BY DEF Whole
<1> HIDE DEF f, b1, b2
<1>4. m1 = [m EXCEPT !.got = <<f>>] /\ m1 \in Mice
  BY <1>1, MouseIrqIs
<1> HIDE DEF m1
<1>5. m1.x = m.x /\ m1.y = m.y /\ m1.buttons = m.buttons /\ m1.got = <<f>>
  BY <1>4 DEF Mice
<1>6. m2 = [m1 EXCEPT !.got = Append(m1.got, b1)] /\ m2 \in Mice
  <2>1. Len(m1.got) = 1
    BY <1>5
  <2> QED
    BY <1>1, <1>4, <2>1, MouseIrqIs
<1> HIDE DEF m2
<1>7. /\ m2.x = m.x /\ m2.y = m.y /\ m2.buttons = m.buttons
      /\ Len(m2.got) = 2 /\ m2.got[1] = f /\ m2.got[2] = b1
  <2>1. m1.got \in Gots /\ Len(m1.got) = 1 /\ m1.got[1] = f
    BY <1>4, <1>5 DEF Mice
  <2> DEFINE s == Append(m1.got, b1)
  <2>2. Len(s) = 2 /\ s[1] = f /\ s[2] = b1
    BY <1>1, <2>1, GotIs
  <2> HIDE DEF s
  <2>3. m2 = [m1 EXCEPT !.got = s]
    BY <1>6 DEF s
  <2> QED
    BY <1>4, <1>5, <2>2, <2>3 DEF Mice
<1>8. m3 = Complete(m2, f, b1, b2) /\ m3.got = << >>
  BY <1>1, <1>6, <1>7, MouseIrqIs
<1> HIDE DEF m3
<1>9. CASE p.over
  <2>1. Bit(f, 64) = 1
    BY <1>2, <1>9
  <2>2. m3 = [m2 EXCEPT !.got = << >>]
    BY <1>8, <2>1 DEF Complete
  <2>3. m3.x = m.x /\ m3.y = m.y /\ m3.buttons = m.buttons
    BY <1>6, <1>7, <2>2 DEF Mice
  <2> QED
    BY <1>3, <1>8, <1>9, <2>3 DEF Seen, Obeyed
<1>10. CASE ~p.over
  <2>1. ~(Bit(f, 64) = 1 \/ Bit(f, 128) = 1)
    BY <1>2, <1>10
  <2>2. m3 = [x |-> Clamp(m.x + p.dx, Width), y |-> Clamp(m.y - p.dy, Height),
              buttons |-> f % 8, got |-> << >>]
    BY <1>2, <1>7, <1>8, <2>1 DEF Complete
  <2>3. (Bit(f % 8, 1) = 1) = p.left
    <3>1. CASE p.left
      <4>1. f % 8 = 1 /\ (1 \div 1) % 2 = 1
        BY <1>2, <3>1
      <4>2. Bit(1, 1) = 1
        BY <4>1 DEF Bit
      <4> QED
        BY <3>1, <4>1, <4>2
    <3>2. CASE ~p.left
      <4>1. f % 8 = 0 /\ (0 \div 1) % 2 = 0
        BY <1>2, <3>2
      <4>2. Bit(0, 1) = 0
        BY <4>1 DEF Bit
      <4> QED
        BY <1>2, <3>2, <4>1, <4>2
    <3> QED
      BY <3>1, <3>2
  <2> DEFINE h == [x |-> Clamp(m.x + p.dx, Width), y |-> Clamp(m.y - p.dy, Height), left |-> p.left]
  <2>4. Seen(m3) = h
    BY <2>2, <2>3 DEF Seen
  <2>5. Obeyed(Seen(m), p) = h
    BY <1>10 DEF Seen, Obeyed
  <2> QED
    BY <1>3, <1>8, <2>4, <2>5
<1> QED
  BY <1>9, <1>10

\* A whole packet without bit 3 in its movement bytes ends in step, whatever
\* bytes were there before it.
LEMMA QuietIs ==
  ASSUME NEW m \in Mice, NEW p \in Packets, Quiet(p)
  PROVE  Whole(m, p).got = << >>
<1> DEFINE f == Encoded(p)[1]
           b1 == Encoded(p)[2]
           b2 == Encoded(p)[3]
           m1 == MouseIrq(m, f)
           m2 == MouseIrq(m1, b1)
           m3 == MouseIrq(m2, b2)
<1>1. f \in Bytes /\ b1 \in Bytes /\ b2 \in Bytes
  BY EncodedIs
<1>2. Bit(b1, 8) = 0 /\ Bit(b2, 8) = 0
  BY DEF Quiet
<1>3. Whole(m, p) = m3
  BY DEF Whole
<1>4. CASE m.got = << >>
  BY <1>4, WholeIs
<1> HIDE DEF f, b1, b2
<1>5. m1 \in Mice
  BY <1>1, MouseIrqIs
<1>6. CASE Len(m.got) = 1
  <2> DEFINE s == Append(m.got, f)
  <2>1. m1 = [m EXCEPT !.got = s]
    BY <1>1, <1>6, MouseIrqIs
  <2>a. m.got \in Gots
    BY DEF Mice
  <2>b. Len(s) = 2
    BY <1>1, <1>6, <2>a, GotIs
  <2> HIDE DEF m1, s
  <2>2. Len(m1.got) = 2
    BY <2>1, <2>b DEF Mice
  <2>3. m2 \in Mice /\ m2.got = << >>
    BY <1>1, <1>5, <2>2, MouseIrqIs
  <2> HIDE DEF m2
  <2>4. m3.got = << >>
    BY <1>1, <1>2, <2>3, MouseIrqIs
  <2> QED
    BY <1>3, <2>4 DEF m1, m2
<1>7. CASE Len(m.got) = 2
  <2>1. m1.got = << >>
    BY <1>1, <1>7, MouseIrqIs
  <2> HIDE DEF m1
  <2>2. m2 \in Mice /\ m2.got = << >>
    BY <1>1, <1>2, <1>5, <2>1, MouseIrqIs
  <2> HIDE DEF m2
  <2>3. m3.got = << >>
    BY <1>1, <1>2, <2>2, MouseIrqIs
  <2> QED
    BY <1>3, <2>3 DEF m1, m2
<1>8. m.got = << >> \/ Len(m.got) = 1 \/ Len(m.got) = 2
  BY GotIs DEF Mice
<1> QED
  BY <1>4, <1>6, <1>7, <1>8

\* What is seen of a mouse.
LEMMA SeenIs ==
  ASSUME NEW m \in Mice
  PROVE  Seen(m) \in Hands
BY DEF Seen, Hands, Mice

-----------------------------------------------------------------------------
(* The windows.                                                             *)

Desks == [wins : Seq(Wins), drag : Nat, offx : Int, offy : Int, last : BOOLEAN]

Ids(wins) == {w.id : w \in Range(wins)}

\* The windows of a desk are those of kmain, wherever they have been moved.
Placed(wins) ==
  /\ Len(wins) = Len(Windows0) /\ Distinct(wins) /\ Ids(wins) = Ids(Windows0)
  /\ \A i \in 1 .. Len(wins) : Reachable(wins[i])

\* A window that is dragged is the top one, and is held at its bar.
Held(d) ==
  d.drag > 0 =>
    /\ d.drag = Len(d.wins)
    /\ d.offx \in 0 .. d.wins[d.drag].w - 1
    /\ d.offy \in 0 .. BarHeight - 1

\* The pointer is where it holds the window.
Gripped(d, x, y) ==
  d.drag > 0 => x = d.wins[d.drag].x + d.offx /\ y = d.wins[d.drag].y + d.offy

\* What is true of a desk between two frames.
Sound(d) == d \in Desks /\ Placed(d.wins) /\ Held(d) /\ (d.drag > 0 => d.last)

\* A window held at its bar has the pointer on it, and can be reached.
LEMMA HeldReachable ==
  ASSUME NEW w \in Wins, NEW x \in Columns, NEW y \in Lines,
         NEW a \in 0 .. w.w - 1, NEW b \in 0 .. BarHeight - 1, x = w.x + a, y = w.y + b
  PROVE  Inside(w, x, y) /\ OnBar(w, y) /\ Reachable(w)
<1>1. /\ w.x \in Int /\ w.y \in Int /\ w.w \in Nat /\ w.h \in Nat /\ w.h >= BarHeight
      /\ BarHeight \in Nat
  BY ScreenSizes DEF Wins
<1>2. Inside(w, x, y) /\ OnBar(w, y)
  BY <1>1 DEF Inside, OnBar
<1>3. x \in 0 .. Width - 1 /\ y \in 0 .. Height - 1
  BY DEF Columns, Lines
<1> QED
  BY <1>2, <1>3 DEF Reachable

\* A window of a sequence moves.
LEMMA MovedIs ==
  ASSUME NEW wins \in Seq(Wins), Placed(wins), NEW n, n = Len(wins), n > 0,
         NEW w \in Wins, w.id = wins[n].id, Reachable(w)
  PROVE  /\ [wins EXCEPT ![n] = w] \in Seq(Wins) /\ Placed([wins EXCEPT ![n] = w])
         /\ [wins EXCEPT ![n] = w][n] = w
<1> DEFINE s == [wins EXCEPT ![n] = w]
<1>1. /\ n \in 1 .. Len(wins) /\ DOMAIN wins = 1 .. n /\ Len(wins) = n
  OBVIOUS
<1>2. /\ s \in Seq(Wins) /\ Len(s) = n /\ DOMAIN s = 1 .. n /\ s[n] = w
      /\ \A i \in 1 .. n : i # n => s[i] = wins[i]
  BY <1>1
<1> HIDE DEF s
<1>3. ASSUME NEW i \in 1 .. n
      PROVE  s[i].id = wins[i].id
  <2>1. CASE i = n
    BY Zenon, <1>2, <2>1
  <2>2. CASE i # n
    BY Zenon, <1>2, <2>2
  <2> QED
    BY <2>1, <2>2
<1>4. Distinct(s)
  BY <1>1, <1>2, <1>3 DEF Distinct, Placed
<1>5. Ids(s) = Ids(wins)
  <2>1. Ids(s) = {s[i].id : i \in 1 .. n}
    BY <1>2 DEF Ids, Range
  <2>2. Ids(wins) = {wins[i].id : i \in 1 .. n}
    BY <1>1 DEF Ids, Range
  <2> QED
    BY <1>3, <2>1, <2>2
<1>6. \A i \in 1 .. n : Reachable(s[i])
  <2> SUFFICES ASSUME NEW i \in 1 .. n
               PROVE  Reachable(s[i])
    OBVIOUS
  <2>1. CASE i = n
    BY Zenon, <1>2, <2>1
  <2>2. CASE i # n
    BY Zenon, <1>1, <1>2, <2>2 DEF Placed
  <2> QED
    BY <2>1, <2>2
<1>7. Placed(s)
  BY <1>1, <1>2, <1>4, <1>5, <1>6 DEF Placed
<1> QED
  BY <1>2, <1>7 DEF s

\* The window that is held follows the pointer.
LEMMA DraggedIs ==
  ASSUME NEW d \in Desks, Placed(d.wins), Held(d), d.drag > 0,
         NEW x \in Columns, NEW y \in Lines
  PROVE  /\ Dragged(d, x, y) \in Desks /\ Placed(Dragged(d, x, y).wins) /\ Held(Dragged(d, x, y))
         /\ Gripped(Dragged(d, x, y), x, y)
         /\ Gripped(d, x, y) => Dragged(d, x, y).wins = d.wins
<1> DEFINE n == d.drag
           w == [d.wins[n] EXCEPT !.x = x - d.offx, !.y = y - d.offy]
           s == [d.wins EXCEPT ![n] = w]
           e == [d EXCEPT !.wins = s]
<1>1. /\ n = Len(d.wins) /\ n \in 1 .. Len(d.wins) /\ d.wins \in Seq(Wins) /\ d.wins[n] \in Wins
      /\ d.offx \in 0 .. d.wins[n].w - 1 /\ d.offy \in 0 .. BarHeight - 1
      /\ d.offx \in Int /\ d.offy \in Int /\ x \in Int /\ y \in Int
  BY DEF Held, Desks, Columns, Lines
<1>2. Dragged(d, x, y) = e
  BY <1>1 DEF Dragged, Desks
<1>3. /\ w \in Wins /\ w.id = d.wins[n].id /\ w.w = d.wins[n].w
      /\ w.x = x - d.offx /\ w.y = y - d.offy
      /\ w.x = d.wins[n].x /\ w.y = d.wins[n].y => w = d.wins[n]
  <2> DEFINE v == d.wins[n]
             a == x - d.offx
             b == y - d.offy
  <2>1. v \in Wins /\ a \in Int /\ b \in Int /\ w = [v EXCEPT !.x = a, !.y = b]
    BY <1>1
  <2> HIDE DEF v, a, b, w
  <2>2. w \in Wins /\ w.id = v.id /\ w.w = v.w /\ w.x = a /\ w.y = b
    BY <2>1 DEF Wins
  <2>3. a = v.x /\ b = v.y => w = v
    BY <2>1 DEF Wins
  <2> QED
    BY <2>2, <2>3 DEF v, a, b
<1> HIDE DEF w, n
<1>4. x = w.x + d.offx /\ y = w.y + d.offy
  BY <1>1, <1>3
<1>5. Reachable(w)
  BY <1>1, <1>3, <1>4, HeldReachable
<1>6. s \in Seq(Wins) /\ Placed(s) /\ s[n] = w
  BY <1>1, <1>3, <1>5, MovedIs
<1>7. Len(s) = n
  BY <1>1, <1>6 DEF Placed
<1>8. d.wins[n] = w => s = d.wins
  BY <1>1
<1> HIDE DEF s
<1>9. e \in Desks /\ e.wins = s /\ e.drag = n /\ e.offx = d.offx /\ e.offy = d.offy
  BY <1>6 DEF Desks, n
<1> HIDE DEF e
<1>10. Held(e) /\ Gripped(e, x, y)
  BY <1>1, <1>3, <1>4, <1>6, <1>7, <1>9 DEF Held, Gripped
<1>11. ASSUME Gripped(d, x, y)
       PROVE  e.wins = d.wins
  <2>1. x = d.wins[n].x + d.offx /\ y = d.wins[n].y + d.offy
    BY <1>1, <1>11 DEF Gripped, n
  <2>2. d.wins[n].x \in Int /\ d.wins[n].y \in Int
    BY <1>1 DEF Wins
  <2>3. w.x = d.wins[n].x /\ w.y = d.wins[n].y
    <3> DEFINE u == d.wins[n].x
               v == d.wins[n].y
    <3>1. u \in Int /\ v \in Int /\ x = u + d.offx /\ y = v + d.offy
      BY <2>1, <2>2
    <3>2. d.offx \in Int /\ d.offy \in Int /\ w.x = x - d.offx /\ w.y = y - d.offy
      BY <1>1, <1>3
    <3> HIDE DEF u, v
    <3>3. w.x = u /\ w.y = v
      BY <3>1, <3>2
    <3> QED
      BY <3>3 DEF u, v
  <2> QED
    BY <1>3, <1>8, <1>9, <2>3
<1> QED
  BY <1>2, <1>6, <1>9, <1>10, <1>11

\* The last window of a raised sequence, and the rest of what Placed says.
LEMMA RaisePlaced ==
  ASSUME NEW wins \in Seq(Wins), Placed(wins), NEW h \in 1 .. Len(wins)
  PROVE  Raise(wins, h) \in Seq(Wins) /\ Placed(Raise(wins, h))
<1> DEFINE r == Raise(wins, h)
<1>1. r \in Seq(Wins) /\ Len(r) = Len(wins)
  BY RaiseIs
<1>2. Range(r) = Range(wins) /\ Distinct(r)
  BY RaiseOrder DEF Placed
<1>3. \A i \in 1 .. Len(wins) :
        Down(h, Len(wins), i) \in 1 .. Len(wins) /\ r[i] = wins[Down(h, Len(wins), i)]
  BY RaiseKeeps
<1> HIDE DEF r
<1> QED
  BY <1>1, <1>2, <1>3 DEF Placed, Ids, r

\* A press raises what the screen shows at the pointer, if that is a window,
\* and takes hold of it where its bar is.
LEMMA PressedIs ==
  ASSUME NEW d, Sound(d), d.drag = 0, NEW x \in Columns, NEW y \in Lines
  PROVE  /\ Pressed(d, x, y) \in Desks /\ Placed(Pressed(d, x, y).wins)
         /\ Held(Pressed(d, x, y)) /\ Gripped(Pressed(d, x, y), x, y)
         /\ \/ ShownAt(d.wins, x, y) = Desktop /\ Pressed(d, x, y) = d
            \/ \E h \in 1 .. Len(d.wins) : /\ ShownAt(d.wins, x, y) = d.wins[h].id
                                           /\ Pressed(d, x, y).wins = Raise(d.wins, h)
<1> DEFINE wins == d.wins
           n == Len(wins)
           hit == TopmostAt(wins, x, y)
           up == Raise(wins, hit)
           top == up[Len(up)]
           e == Pressed(d, x, y)
<1>1. d \in Desks /\ wins \in Seq(Wins) /\ Placed(wins) /\ n \in Nat
  BY DEF Sound, Desks
<1>2. e = IF hit = 0 THEN d
          ELSE IF OnBar(top, y)
               THEN [d EXCEPT !.wins = up, !.drag = Len(up), !.offx = x - top.x, !.offy = y - top.y]
               ELSE [d EXCEPT !.wins = up]
  BY DEF Pressed
<1> HIDE DEF e, wins
<1>3. CASE (\A i \in 1 .. n : ~Inside(wins[i], x, y)) /\ ShownAt(wins, x, y) = Desktop
  <2>1. hit = 0
    BY <1>1, <1>3, TopmostIs
  <2>2. e = d
    BY <1>2, <2>1
  <2>3. Held(d) /\ Gripped(d, x, y)
    BY DEF Held, Gripped
  <2> QED
    BY <1>1, <1>3, <2>2, <2>3 DEF e, wins
<1>4. ASSUME NEW h \in 1 .. n, TopmostOf(wins, n, h, x, y), ShownAt(wins, x, y) = wins[h].id
      PROVE  /\ e \in Desks /\ Placed(e.wins) /\ Held(e) /\ Gripped(e, x, y)
             /\ e.wins = Raise(wins, h)
  <2>1. hit = h /\ hit # 0
    BY <1>1, <1>4, TopmostIs
  <2>2. up = Raise(wins, h)
    BY <2>1
  <2>3. up \in Seq(Wins) /\ Placed(up)
    BY <1>1, <2>2, RaisePlaced
  <2>4. Len(up) = n /\ top = wins[h]
    BY <1>1, <2>2, RaiseIs
  <2> HIDE DEF hit, up, n
  <2>5. top \in Wins /\ Inside(top, x, y)
    BY <1>1, <1>4, <2>4 DEF TopmostOf, n
  <2> HIDE DEF top
  <2>6. /\ top.x \in Int /\ top.y \in Int /\ x \in Int /\ y \in Int
        /\ top.w \in Nat /\ BarHeight \in Nat
    BY <2>5, ScreenSizes DEF Wins, Columns, Lines
  <2>7. x - top.x \in 0 .. top.w - 1
    BY <2>5, <2>6 DEF Inside
  <2>8. CASE OnBar(top, y)
    <3>1. y - top.y \in 0 .. BarHeight - 1
      BY <2>6, <2>8 DEF OnBar
    <3>2. e = [d EXCEPT !.wins = up, !.drag = n, !.offx = x - top.x, !.offy = y - top.y]
      BY Zenon, <1>2, <2>1, <2>4, <2>8
    <3>3. /\ e \in Desks /\ e.wins = up /\ e.drag = n /\ e.offx = x - top.x /\ e.offy = y - top.y
      <4> DEFINE a == x - top.x
                 b == y - top.y
      <4>1. a \in Int /\ b \in Int /\ n \in Nat
        BY <1>1, <2>6
      <4> HIDE DEF a, b
      <4>2. e = [d EXCEPT !.wins = up, !.drag = n, !.offx = a, !.offy = b]
        BY <3>2 DEF a, b
      <4>3. e \in Desks /\ e.wins = up /\ e.drag = n /\ e.offx = a /\ e.offy = b
        BY <1>1, <2>3, <4>1, <4>2 DEF Desks
      <4> QED
        BY <4>3 DEF a, b
    <3>4. up[n] = top
      BY <2>4 DEF top
    <3>5. Held(e)
      BY <2>4, <2>7, <3>1, <3>3, <3>4 DEF Held
    <3>6. Gripped(e, x, y)
      BY <2>6, <3>3, <3>4 DEF Gripped
    <3> QED
      BY <2>2, <2>3, <3>3, <3>5, <3>6
  <2>9. CASE ~OnBar(top, y)
    <3>1. e = [d EXCEPT !.wins = up]
      BY <1>2, <2>1, <2>9
    <3>2. e \in Desks /\ e.wins = up /\ e.drag = 0
      BY <1>1, <2>3, <3>1 DEF Desks
    <3>3. Held(e) /\ Gripped(e, x, y)
      BY <3>2 DEF Held, Gripped
    <3> QED
      BY <2>2, <2>3, <3>2, <3>3
  <2> QED
    BY <2>8, <2>9
<1>5. \/ (\A i \in 1 .. n : ~Inside(wins[i], x, y)) /\ ShownAt(wins, x, y) = Desktop
      \/ \E h \in 1 .. n : TopmostOf(wins, n, h, x, y) /\ ShownAt(wins, x, y) = wins[h].id
  BY <1>1, ShownIs
<1> QED
  BY <1>3, <1>4, <1>5 DEF e, wins

\* A frame leaves a sound desk, and what is held under the pointer.
LEMMA HandleIs ==
  ASSUME NEW d, Sound(d), NEW x \in Columns, NEW y \in Lines, NEW left \in BOOLEAN
  PROVE  /\ Sound(Handle(d, x, y, left)) /\ Gripped(Handle(d, x, y, left), x, y)
         /\ left /\ ~d.last => Handle(d, x, y, left).wins = Pressed(d, x, y).wins
<1> DEFINE edge == CASE left /\ ~d.last -> Pressed(d, x, y)
                     [] ~left /\ d.last -> Released(d)
                     [] OTHER           -> d
           moved == IF edge.drag > 0 /\ left THEN Dragged(edge, x, y) ELSE edge
           e == [moved EXCEPT !.last = left]
<1>1. Handle(d, x, y, left) = e
  BY DEF Handle
<1>2. d \in Desks /\ Placed(d.wins) /\ Held(d) /\ (d.drag > 0 => d.last) /\ d.last \in BOOLEAN
  BY DEF Sound, Desks
<1>3. /\ edge \in Desks /\ Placed(edge.wins) /\ Held(edge) /\ (edge.drag > 0 => left)
      /\ left /\ ~d.last => edge = Pressed(d, x, y) /\ Gripped(edge, x, y)
  <2>1. CASE left /\ ~d.last
    <3>1. edge = Pressed(d, x, y)
      BY <2>1
    <3>2. d.drag = 0
      BY <1>2, <2>1 DEF Desks
    <3> HIDE DEF edge
    <3>3. edge \in Desks /\ Placed(edge.wins) /\ Held(edge) /\ Gripped(edge, x, y)
      BY <3>1, <3>2, PressedIs
    <3> QED
      BY <2>1, <3>1, <3>3
  <2>2. CASE ~left /\ d.last
    <3>1. edge = [d EXCEPT !.drag = 0]
      BY <2>2 DEF Released
    <3> HIDE DEF edge
    <3>2. edge \in Desks /\ edge.wins = d.wins /\ edge.drag = 0
      BY <1>2, <3>1 DEF Desks
    <3> QED
      BY <1>2, <2>2, <3>2 DEF Held
  <2>3. CASE ~(left /\ ~d.last) /\ ~(~left /\ d.last)
    <3>1. edge = d
      BY <2>3
    <3> HIDE DEF edge
    <3> QED
      BY <1>2, <2>3, <3>1
  <2> QED
    BY <2>1, <2>2, <2>3
<1> HIDE DEF edge
<1>4. /\ moved \in Desks /\ Placed(moved.wins) /\ Held(moved) /\ (moved.drag > 0 => left)
      /\ Gripped(moved, x, y)
      /\ left /\ ~d.last => moved.wins = Pressed(d, x, y).wins
  <2>1. CASE edge.drag > 0 /\ left
    <3>1. moved = Dragged(edge, x, y)
      BY <2>1
    <3> HIDE DEF moved
    <3>2. /\ moved \in Desks /\ Placed(moved.wins) /\ Held(moved) /\ Gripped(moved, x, y)
          /\ Gripped(edge, x, y) => moved.wins = edge.wins
      BY <1>3, <2>1, <3>1, DraggedIs
    <3> QED
      BY <1>3, <2>1, <3>2
  <2>2. CASE ~(edge.drag > 0 /\ left)
    <3>1. moved = edge
      BY <2>2
    <3> HIDE DEF moved
    <3>2. ~(edge.drag > 0)
      BY <1>3, <2>2
    <3>3. Gripped(edge, x, y)
      BY <3>2 DEF Gripped
    <3> QED
      BY <1>3, <3>1, <3>2, <3>3
  <2> QED
    BY <2>1, <2>2
<1> HIDE DEF moved
<1>5. /\ e \in Desks /\ e.wins = moved.wins /\ e.drag = moved.drag /\ e.last = left
      /\ e.offx = moved.offx /\ e.offy = moved.offy
  BY <1>4 DEF Desks
<1> HIDE DEF e
<1>6. Held(e) /\ Gripped(e, x, y)
  BY <1>4, <1>5 DEF Held, Gripped
<1> QED
  BY <1>1, <1>4, <1>5, <1>6 DEF Sound

-----------------------------------------------------------------------------
(* The invariant.                                                           *)

\* The pointer is on the screen and the windows are in order; a window that is
\* dragged is held where the pointer was drawn; and in step nothing of a packet
\* is left over.
IInv ==
  /\ mouse \in Mice /\ pc \in {"x", "y", "frame"} /\ mx \in Columns /\ my \in Lines
  /\ Sound(desk) /\ (pc = "x" => Gripped(desk, mx, my))
  /\ hand \in Hands /\ inStep \in BOOLEAN
  /\ sent \in 0 .. MaxPackets /\ spoilt \in 0 .. MaxSpoilt
  /\ FollowsHand

LEMMA InitIInv == Init => IInv
<1> SUFFICES ASSUME Init PROVE IInv
  OBVIOUS
<1> DEFINE fresh == [x |-> Width \div 2, y |-> Height \div 2, buttons |-> 0, got |-> << >>]
<1>1. fresh \in Mice /\ fresh.got = << >>
  <2>1. Width \div 2 \in 0 .. Width - 1 /\ Height \div 2 \in 0 .. Height - 1
    BY ScreenSizes
  <2> QED
    BY <2>1, GotIs DEF Mice, Columns, Lines
<1>2. 250 \in Bytes
  BY DEF Bytes
<1>3. mouse \in Mice /\ inStep \in BOOLEAN /\ (inStep => mouse.got = << >>)
  <2>1. \/ mouse = fresh /\ inStep = TRUE
        \/ mouse = MouseIrq(fresh, 250) /\ inStep = FALSE
    BY DEF Init
  <2> HIDE DEF fresh
  <2>2. MouseIrq(fresh, 250) \in Mice
    BY <1>1, <1>2, MouseIrqIs
  <2> QED
    BY <1>1, <2>1, <2>2
<1>4. hand = Seen(mouse) /\ hand \in Hands
  BY <1>3, SeenIs DEF Init
<1>5. mx \in Columns /\ my \in Lines
  BY <1>3 DEF Init, Mice
<1>6. desk \in Desks /\ desk.wins = Windows0 /\ desk.drag = 0
  BY CreatedIs DEF Init, Desks
<1>7. Placed(Windows0)
  <2>1. \A w \in Range(Windows0) : Reachable(w)
    BY DesktopAssumption
  <2>2. \A i \in 1 .. Len(Windows0) : Windows0[i] \in Range(Windows0)
    BY CreatedIs DEF Range
  <2> QED
    BY <2>1, <2>2, CreatedIs DEF Placed
<1>8. Sound(desk) /\ Gripped(desk, mx, my)
  BY <1>6, <1>7 DEF Sound, Held, Gripped
<1>9. sent \in 0 .. MaxPackets /\ spoilt \in 0 .. MaxSpoilt /\ pc = "x"
  BY DesktopAssumption DEF Init
<1> QED
  BY <1>3, <1>4, <1>5, <1>8, <1>9 DEF IInv, FollowsHand

\* The interrupts of a packet.
LEMMA PacketIInv ==
  ASSUME IInv, NEW p \in Packets, NEW lost \in SUBSET {1, 2, 3}, Packet(p, lost)
  PROVE  IInv'
<1>1. mouse \in Mice /\ hand \in Hands /\ inStep \in BOOLEAN /\ FollowsHand
      /\ sent \in 0 .. MaxPackets /\ spoilt \in 0 .. MaxSpoilt
  BY DEF IInv
<1>2. UNCHANGED <<pc, mx, my, desk>>
  BY DEF Packet
<1>3. sent' \in 0 .. MaxPackets /\ spoilt' \in 0 .. MaxSpoilt
  <2>1. sent < MaxPackets /\ sent' = sent + 1
        /\ (lost # {} => spoilt < MaxSpoilt) /\ (spoilt' = IF lost = {} THEN spoilt ELSE spoilt + 1)
    BY DEF Packet
  <2> QED
    BY <1>1, <2>1, DesktopAssumption
<1> DEFINE m1 == Irq(mouse, p, 1, lost)
           m2 == Irq(m1, p, 2, lost)
           m3 == Irq(m2, p, 3, lost)
<1>4. mouse' = m3
  BY DEF Packet
<1>5. m3 \in Mice
  <2>1. m1 \in Mice
    BY <1>1, IrqIs
  <2> HIDE DEF m1
  <2>2. m2 \in Mice
    BY <2>1, IrqIs
  <2> HIDE DEF m2
  <2> QED
    BY <2>2, IrqIs
<1>6. lost = {} => m3 = Whole(mouse, p)
  BY DEF Irq, Whole
<1> HIDE DEF m3
<1>7. /\ inStep' = (lost = {} /\ (inStep \/ Quiet(p)))
      /\ hand' = IF inStep /\ lost = {} THEN Obeyed(hand, p) ELSE Seen(mouse')
  BY DEF Packet
<1>8. CASE inStep /\ lost = {}
  <2>1. mouse.got = << >> /\ Seen(mouse) = hand
    BY <1>1, <1>8 DEF FollowsHand
  <2>2. m3.got = << >> /\ Seen(m3) = Obeyed(hand, p)
    BY <1>1, <1>6, <1>8, <2>1, WholeIs
  <2>3. Seen(m3) \in Hands
    BY <1>5, SeenIs
  <2>4. inStep' = TRUE /\ hand' = Seen(m3)
    BY <1>7, <1>8, <2>2
  <2>5. FollowsHand'
    BY <1>4, <2>2, <2>4 DEF FollowsHand, Seen
  <2> QED
    BY <1>2, <1>3, <1>4, <1>5, <2>3, <2>4, <2>5 DEF IInv, Sound, Held, Gripped
<1>9. CASE ~(inStep /\ lost = {})
  <2>1. hand' = Seen(m3)
    BY <1>4, <1>7, <1>9
  <2>2. Seen(m3) \in Hands
    BY <1>5, SeenIs
  <2>3. inStep' \in BOOLEAN
    BY <1>7
  <2>4. inStep' => m3.got = << >>
    <3>1. inStep' => lost = {} /\ Quiet(p)
      BY <1>7, <1>9
    <3> QED
      BY <1>1, <1>6, <3>1, QuietIs
  <2>5. FollowsHand'
    BY <1>4, <2>1, <2>4 DEF FollowsHand, Seen
  <2> QED
    BY <1>2, <1>3, <1>4, <1>5, <2>1, <2>2, <2>3, <2>5 DEF IInv, Sound, Held, Gripped
<1> QED
  BY <1>8, <1>9

\* The loop.
LEMMA LoopIInv ==
  ASSUME IInv, ReadX \/ ReadY \/ Frame
  PROVE  IInv'
<1>1. CASE ReadX
  BY <1>1 DEF IInv, ReadX, Sound, Held, Gripped, FollowsHand, Seen, Mice
<1>2. CASE ReadY
  BY <1>2 DEF IInv, ReadY, Sound, Held, Gripped, FollowsHand, Seen, Mice
<1>3. CASE Frame
  <2> DEFINE left == Bit(mouse.buttons, 1) = 1
             e == Handle(desk, mx, my, left)
  <2>1. desk' = e /\ pc' = "x" /\ UNCHANGED <<mouse, mx, my, hand, inStep, sent, spoilt>>
    BY <1>3 DEF Frame
  <2>2. left \in BOOLEAN
    OBVIOUS
  <2> HIDE DEF left
  <2>3. Sound(e) /\ Gripped(e, mx, my)
    BY <2>2, HandleIs DEF IInv
  <2> HIDE DEF e
  <2>4. Sound(desk') /\ Gripped(desk', mx', my')
    BY <2>1, <2>3
  <2>5. FollowsHand'
    BY <2>1 DEF IInv, FollowsHand, Seen
  <2> QED
    BY <2>1, <2>4, <2>5 DEF IInv
<1> QED
  BY <1>1, <1>2, <1>3

LEMMA NextIInv == IInv /\ [Next]_vars => IInv'
<1> SUFFICES ASSUME IInv, [Next]_vars PROVE IInv'
  OBVIOUS
<1>1. CASE Next
  BY <1>1, PacketIInv, LoopIInv DEF Next
<1>2. CASE UNCHANGED vars
  BY <1>2 DEF vars, IInv, Sound, Held, Gripped, FollowsHand, Seen
<1> QED
  BY <1>1, <1>2

THEOREM DesktopInvariant == Spec => []IInv
BY InitIInv, NextIInv, PTL DEF Spec

\* The pointer, and what the loop has of it, stays on the screen, and the
\* windows are those that kmain made.
LEMMA TypeStep == IInv => TypeOK
<1> SUFFICES ASSUME IInv PROVE TypeOK
  OBVIOUS
<1>1. /\ mouse.x \in 0 .. Width - 1 /\ mouse.y \in 0 .. Height - 1 /\ mouse.buttons \in 0 .. 7
      /\ Len(mouse.got) \in 0 .. 2
  BY GotIs DEF IInv, Mice, Columns, Lines
<1>2. mx \in 0 .. Width - 1 /\ my \in 0 .. Height - 1
  BY DEF IInv, Columns, Lines
<1>3. hand.x \in 0 .. Width - 1 /\ hand.y \in 0 .. Height - 1
  BY DEF IInv, Hands, Columns, Lines
<1>4. /\ {w.id : w \in Range(desk.wins)} = {w.id : w \in Range(Windows0)}
      /\ Len(desk.wins) = Len(Windows0)
  BY DEF IInv, Sound, Placed, Ids
<1>5. desk.drag \in 0 .. Len(desk.wins)
  <2>1. /\ desk.drag \in Nat /\ desk.wins \in Seq(Wins)
        /\ desk.drag > 0 => desk.drag = Len(desk.wins)
    BY DEF IInv, Sound, Desks, Held
  <2> DEFINE n == Len(desk.wins)
  <2>2. n \in Nat
    BY <2>1
  <2> HIDE DEF n
  <2> QED
    BY <2>1, <2>2 DEF n
<1> QED
  BY <1>1, <1>2, <1>3, <1>4, <1>5 DEF IInv, TypeOK

\* The pointer is on the bar of the window it drags, and the screen shows that
\* window there; no window is out of reach.
LEMMA DragStep == IInv => DragSound
<1> SUFFICES ASSUME IInv PROVE DragSound
  OBVIOUS
<1> DEFINE wins == desk.wins
           n == Len(wins)
           w == wins[n]
<1>1. /\ wins \in Seq(Wins) /\ Placed(wins) /\ mx \in Columns /\ my \in Lines
      /\ n \in Nat /\ DOMAIN wins = 1 .. n
  BY DEF IInv, Sound, Desks
<1>2. BarsReachable
  <2>1. \A i \in 1 .. n : Reachable(wins[i])
    BY DEF IInv, Sound, Placed
  <2> QED
    BY <1>1, <2>1 DEF BarsReachable, Range
<1>3. ASSUME pc = "x", desk.drag > 0
      PROVE  /\ desk.last /\ desk.drag = n
             /\ mx = w.x + desk.offx /\ my = w.y + desk.offy
             /\ Inside(w, mx, my) /\ OnBar(w, my)
             /\ ShownAt(wins, mx, my) = w.id
  <2>1. /\ desk.last /\ desk.drag = n /\ desk.drag \in Nat
        /\ desk.offx \in 0 .. w.w - 1 /\ desk.offy \in 0 .. BarHeight - 1
        /\ mx = w.x + desk.offx /\ my = w.y + desk.offy
    BY <1>3 DEF IInv, Sound, Desks, Held, Gripped
  <2>2. n \in 1 .. n /\ w \in Wins
    BY <1>1, <1>3, <2>1
  <2> HIDE DEF n, w, wins
  <2>3. Inside(w, mx, my) /\ OnBar(w, my)
    BY <1>1, <2>1, <2>2, HeldReachable
  <2>4. \/ /\ \A i \in 1 .. n : ~Inside(wins[i], mx, my)
           /\ ShownAt(wins, mx, my) = Desktop
        \/ \E m \in 1 .. n :
             TopmostOf(wins, n, m, mx, my) /\ ShownAt(wins, mx, my) = wins[m].id
    BY <1>1, ShownIs DEF n
  <2>5. Inside(wins[n], mx, my)
    BY <2>3 DEF w
  <2>6. ASSUME NEW m \in 1 .. n, TopmostOf(wins, n, m, mx, my)
        PROVE  m = n
    <3>1. m < n => n \in m + 1 .. n
      BY <1>1
    <3> QED
      BY <1>1, <2>5, <2>6, <3>1 DEF TopmostOf
  <2>7. ShownAt(wins, mx, my) = wins[n].id
    BY <2>2, <2>4, <2>5, <2>6
  <2> QED
    BY <2>1, <2>3, <2>7 DEF w
<1>4. GripKept
  BY <1>3 DEF GripKept, Top
<1> QED
  BY <1>2, <1>4 DEF DragSound

\* A press raises the window that the screen shows, and nothing else.
LEMMA PressStep ==
  ASSUME IInv, PressEdge
  PROVE  LET hit == ShownAt(desk.wins, mx, my)
         IN /\ Order(desk'.wins, hit) = Order(desk.wins, hit)
            /\ Range(desk'.wins) = Range(desk.wins)
            /\ hit # Desktop => desk'.wins[Len(desk'.wins)].id = hit
<1> DEFINE wins == desk.wins
           hit == ShownAt(wins, mx, my)
           left == Bit(mouse.buttons, 1) = 1
           e == Handle(desk, mx, my, left)
           press == Pressed(desk, mx, my)
<1> SUFFICES /\ Order(desk'.wins, hit) = Order(wins, hit) /\ Range(desk'.wins) = Range(wins)
             /\ hit # Desktop => desk'.wins[Len(desk'.wins)].id = hit
  OBVIOUS
<1>1. /\ Sound(desk) /\ wins \in Seq(Wins) /\ Placed(wins) /\ Distinct(wins)
      /\ mx \in Columns /\ my \in Lines
  BY DEF IInv, Sound, Desks, Placed
<1>2. desk' = e /\ left /\ left \in BOOLEAN /\ ~desk.last
  BY DEF PressEdge, Frame
<1>3. desk.drag = 0
  BY <1>1, <1>2 DEF Sound, Desks
<1> HIDE DEF left
<1>4. e.wins = press.wins
  BY <1>1, <1>2, HandleIs
<1> HIDE DEF e
<1>5. \/ hit = Desktop /\ press = desk
      \/ \E h \in 1 .. Len(wins) : hit = wins[h].id /\ press.wins = Raise(wins, h)
  BY <1>1, <1>3, PressedIs
<1> HIDE DEF press, hit
<1>6. CASE hit = Desktop /\ press = desk
  <2>1. desk'.wins = wins
    BY <1>2, <1>4, <1>6
  <2> QED
    BY <1>6, <2>1
<1>7. ASSUME NEW h \in 1 .. Len(wins), hit = wins[h].id, press.wins = Raise(wins, h)
      PROVE  /\ Order(desk'.wins, hit) = Order(wins, hit) /\ Range(desk'.wins) = Range(wins)
             /\ desk'.wins[Len(desk'.wins)].id = hit
  <2> HIDE DEF wins
  <2>1. desk'.wins = Raise(wins, h)
    BY <1>2, <1>4, <1>7
  <2>2. /\ Range(Raise(wins, h)) = Range(wins)
        /\ Order(Raise(wins, h), wins[h].id) = Order(wins, wins[h].id)
    BY <1>1, RaiseOrder
  <2>3. Len(Raise(wins, h)) = Len(wins) /\ Raise(wins, h)[Len(wins)] = wins[h]
    BY <1>1, RaiseIs
  <2> QED
    BY <1>7, <2>1, <2>2, <2>3
<1> QED
  BY <1>5, <1>6, <1>7

\* Spec keeps the pointer on the screen and every window of kmain on the desk.
THEOREM DesktopTypes == Spec => []TypeOK
BY DesktopInvariant, TypeStep, PTL

\* In step, what the mouse was made to do is what mouse_irq has of it; and after
\* lost or left-over bytes the next whole quiet packet puts it in step again.
THEOREM MouseFollows == Spec => []FollowsHand
<1>1. IInv => FollowsHand
  BY DEF IInv
<1> QED
  BY <1>1, DesktopInvariant, PTL

\* A drag keeps hold of its window, whatever interrupts the loop, and moves none
\* to where it cannot be taken hold of.
THEOREM DragsHold == Spec => []DragSound
BY DesktopInvariant, DragStep, PTL

\* What a press raises is what the screen shows at the pointer.
THEOREM PressesShown == Spec => PressesWhatIsShown
<1> DEFINE hit == ShownAt(desk.wins, mx, my)
           Right == /\ Order(desk'.wins, hit) = Order(desk.wins, hit)
                    /\ Range(desk'.wins) = Range(desk.wins)
                    /\ hit # Desktop => desk'.wins[Len(desk'.wins)].id = hit
<1>1. IInv /\ PressEdge => Right
  BY PressStep
<1>2. IInv => [PressEdge => Right]_vars
  BY <1>1
<1>3. Spec => [][PressEdge => Right]_vars
  <2> HIDE DEF Right
  <2> QED
    BY <1>2, DesktopInvariant, PTL
<1> QED
  BY <1>3 DEF PressesWhatIsShown

-----------------------------------------------------------------------------
(* The disk driver and the device agree, for every size of queue and width  *)
(* of index: when a request can hang, and that the driver implements a      *)
(* disk.                                                                    *)
(*                                                                          *)
(* The argument is about where the three indices of the queue stand.  A     *)
(* request is unseen, in the device's hands, or finished, and avail, taken  *)
(* and used say which; before is one behind avail unless the device was     *)
(* quicker than the driver's look at used.  What the device has written is  *)
(* the driver's answer because it is written once, before used moves.       *)

Unseen   == stage = "idle" /\ Next16(taken) = avail /\ used = taken
InHand   == stage # "idle" /\ taken = avail /\ Next16(used) = avail
Finished == stage = "idle" /\ taken = avail /\ used = avail

\* What the driver's place says of a queue the device knows.
LiveInv ==
  /\ qsize # 0 /\ at \notin {"boot", "halted"}
  /\ at = "idle" => Finished
  /\ Unseen \/ InHand \/ Finished
  /\ at \in {"notify", "poll"} =>
       IF before = avail THEN eager /\ Finished ELSE Next16(before) = avail

\* A device that waits for its notification has one exactly when it is due.
PatientInv ==
  /\ kicked <=> at = "poll" /\ Unseen
  /\ at \in {"sample", "notify"} => Unseen

\* Without a queue of its own the device does nothing, and the null rings'
\* indices are one word.
DeadInv ==
  /\ stage = "idle" /\ used = avail /\ ~kicked
  /\ at = "boot" => Finished
  /\ at \in {"notify", "poll"} => before = avail

\* The answer in memory is that of the request being made.
AnswerInv ==
  Making =>
    /\ hdr.op = "write" => data = buf
    /\ status = "ok" =>
         /\ hdr.sector \in Sectors
         /\ store[hdr.sector] = IF hdr.op = "write" THEN buf ELSE data

DiskIInv ==
  /\ DriverTypeOK
  /\ IF live THEN LiveInv /\ (~eager => PatientInv) ELSE DeadInv
  /\ AnswerInv

-----------------------------------------------------------------------------
\* The index after another, without the remainder: it is an index again, it is
\* not the same one, and no two indices are followed by the same.
LEMMA NextIndex ==
  ASSUME NEW i \in 0 .. IndexMod - 1
  PROVE  /\ Next16(i) = IF i = IndexMod - 1 THEN 0 ELSE i + 1
         /\ Next16(i) \in 0 .. IndexMod - 1
         /\ Next16(i) # i
         /\ \A j \in 0 .. IndexMod - 1 : Next16(i) = Next16(j) => i = j
<1>1. ASSUME NEW k \in 0 .. IndexMod - 1
      PROVE  Next16(k) = IF k = IndexMod - 1 THEN 0 ELSE k + 1
  <2>1. IndexMod \in Nat \ {0, 1} /\ k \in Nat /\ k + 1 \in Nat /\ k + 1 <= IndexMod
    BY VblkAssumption
  <2>2. CASE k = IndexMod - 1
    BY <2>1, <2>2 DEF Next16
  <2>3. CASE k # IndexMod - 1
    BY <2>1, <2>3 DEF Next16
  <2> QED
    BY <2>2, <2>3
<1> QED
  BY <1>1, VblkAssumption

\* What the steps do to the types.
LEMMA DiskTypeStep ==
  ASSUME DriverTypeOK, [DriverNext]_vblkVars
  PROVE  DriverTypeOK'
<1> USE DEF DriverTypeOK
<1>1. CASE VblkInit
  <2>1. qsize' \in QueueSizes \cup {0} /\ live' \in BOOLEAN
    <3>1. CASE qsize' = 0 /\ live' = FALSE
      BY <3>1
    <3>2. ASSUME NEW n \in QueueSizes, qsize' = n, live' = (n \in 1 .. QueueMax)
          PROVE  qsize' \in QueueSizes \cup {0} /\ live' \in BOOLEAN
      BY <3>2
    <3> QED
      BY <1>1, <3>1, <3>2 DEF VblkInit
  <2> QED
    BY <1>1, <2>1 DEF VblkInit, device
<1>2. ASSUME NEW op \in {"read", "write"}, NEW s \in Addresses, NEW v \in Values,
             Publish(op, s, v) \/ DivideByZero(op, s, v)
      PROVE  DriverTypeOK'
  <2>1. avail' \in 0 .. IndexMod - 1 /\ used' \in 0 .. IndexMod - 1
    BY <1>2, NextIndex DEF Publish, DivideByZero
  <2>2. Prepare(op, s, v) /\ at' \in {"sample", "halted"}
    BY <1>2 DEF Publish, DivideByZero
  <2> QED
    BY <2>1, <2>2 DEF Prepare, device, queue
<1>3. CASE Driver
  <2>1. CASE Sample
    BY <2>1 DEF Sample, device, queue
  <2>2. CASE Notify
    BY <2>2 DEF Notify, device, queue
  <2>3. CASE Poll
    BY <2>3 DEF Poll, device, queue
  <2> QED
    BY <1>3, <2>1, <2>2, <2>3 DEF Driver
<1>4. CASE Take
  BY <1>4, NextIndex DEF Take, driver, queue
<1>5. CASE Finish
  BY <1>5, NextIndex DEF Finish, driver, queue
<1>6. ASSUME NEW ok \in BOOLEAN, Serve(ok)
      PROVE  DriverTypeOK'
  <2>1. data' \in Values /\ store' \in [Sectors -> Values]
    <3>1. CASE ServeRead(ok)
      BY <1>6, <3>1 DEF ServeRead, Serve
    <3>2. CASE ServeWrite(ok)
      BY <1>6, <3>2 DEF ServeWrite, Serve
    <3> QED
      BY <1>6, <3>1, <3>2 DEF Serve
  <2> QED
    BY <1>6, <2>1 DEF Serve, driver, queue
<1>7. CASE UNCHANGED vblkVars
  BY <1>7 DEF vblkVars, driver, device, queue
<1> QED
  BY <1>1, <1>2, <1>3, <1>4, <1>5, <1>6, <1>7 DEF DriverNext, Request, Device

\* The first state.
LEMMA DiskInitIInv == DriverInit => DiskIInv
<1> SUFFICES ASSUME DriverInit PROVE DiskIInv
  OBVIOUS
<1>1. (CHOOSE s \in Addresses : TRUE) \in Addresses /\ (CHOOSE v \in Values : TRUE) \in Values
  BY VblkAssumption
<1>2. /\ hdr \in [op : {"read", "write"}, sector : Addresses]
      /\ {data, buf} \subseteq Values /\ got \in [ok : BOOLEAN, value : Values]
  BY <1>1 DEF DriverInit
<1>3. 0 \in 0 .. IndexMod - 1
  BY VblkAssumption
<1>4. DriverTypeOK
  BY <1>2, <1>3 DEF DriverInit, DriverTypeOK
<1> QED
  BY <1>4 DEF DriverInit, DiskIInv, DeadInv, Finished, AnswerInv, Making

\* Where the indices stand, as the driver and the device move them.
LEMMA QueueStep ==
  ASSUME DiskIInv, [DriverNext]_vblkVars
  PROVE  IF live' THEN LiveInv' /\ (~eager' => PatientInv') ELSE DeadInv'
<1> USE DEF DiskIInv, LiveInv, PatientInv, DeadInv, Unseen, InHand, Finished
<1>1. /\ {avail, used, before, taken} \subseteq 0 .. IndexMod - 1
      /\ {live, kicked, eager} \subseteq BOOLEAN
      /\ stage \in {"idle", "serving", "served"}
      /\ at \in {"boot", "idle", "sample", "notify", "poll", "halted"}
  BY DEF DriverTypeOK
<1> HIDE DEF DiskIInv
<1>2. IF live THEN LiveInv /\ (~eager => PatientInv) ELSE DeadInv
  BY DEF DiskIInv
<1>3. CASE VblkInit
  BY <1>1, <1>2, <1>3, VblkAssumption DEF VblkInit, device
<1>4. ASSUME NEW op \in {"read", "write"}, NEW s \in Addresses, NEW v \in Values,
             Publish(op, s, v)
      PROVE  IF live' THEN LiveInv' /\ (~eager' => PatientInv') ELSE DeadInv'
  <2>1. avail' = Next16(avail) /\ avail' # avail
    BY <1>1, <1>4, NextIndex DEF Publish
  <2> QED
    BY <1>1, <1>2, <1>4, <2>1 DEF Publish, Prepare, device, queue
<1>5. ASSUME NEW op \in {"read", "write"}, NEW s \in Addresses, NEW v \in Values,
             DivideByZero(op, s, v)
      PROVE  IF live' THEN LiveInv' /\ (~eager' => PatientInv') ELSE DeadInv'
  BY <1>1, <1>2, <1>5 DEF DivideByZero, Prepare, device, queue
<1>6. CASE Sample
  <2>1. \A i \in {avail, used, taken} : Next16(i) # i
    BY <1>1, NextIndex
  <2> QED
    BY <1>1, <1>2, <1>6, <2>1 DEF Sample, device, queue
<1>7. CASE Notify
  BY <1>1, <1>2, <1>7 DEF Notify, device, queue
<1>8. CASE Poll
  <2>1. \A i, j \in {avail, used, before, taken} : Next16(i) = Next16(j) => i = j
    BY <1>1, NextIndex
  <2> QED
    BY <1>1, <1>2, <1>8, <2>1 DEF Poll, Answered, device, queue
<1>9. CASE Take
  BY <1>1, <1>2, <1>9 DEF Take, driver, queue
<1>10. ASSUME NEW ok \in BOOLEAN, Serve(ok)
       PROVE  IF live' THEN LiveInv' /\ (~eager' => PatientInv') ELSE DeadInv'
  BY <1>1, <1>2, <1>10 DEF Serve, driver, queue
<1>11. CASE Finish
  <2>1. Next16(avail) # avail
    BY <1>1, NextIndex
  <2> QED
    BY <1>1, <1>2, <1>11, <2>1 DEF Finish, driver, queue
<1>12. CASE UNCHANGED vblkVars
  BY <1>2, <1>12 DEF vblkVars, driver, device, queue
<1> QED
  BY <1>3, <1>4, <1>5, <1>6, <1>7, <1>8, <1>9, <1>10, <1>11, <1>12
     DEF DriverNext, Request, Driver, Device

\* What the device has written into the request stays the request's.
LEMMA AnswerStep ==
  ASSUME DiskIInv, [DriverNext]_vblkVars
  PROVE  AnswerInv'
<1> USE DEF AnswerInv, Making
<1>1. DriverTypeOK /\ AnswerInv
  BY DEF DiskIInv
<1>2. stage = "serving" => Making
  BY DEF DiskIInv, LiveInv, DeadInv, Finished, DriverTypeOK
<1>3. CASE VblkInit
  BY <1>3 DEF VblkInit
<1>4. ASSUME NEW op \in {"read", "write"}, NEW s \in Addresses, NEW v \in Values,
             Publish(op, s, v)
      PROVE  AnswerInv'
  BY <1>4 DEF Publish, Prepare
<1>5. ASSUME NEW op \in {"read", "write"}, NEW s \in Addresses, NEW v \in Values,
             DivideByZero(op, s, v)
      PROVE  AnswerInv'
  BY <1>5 DEF DivideByZero
<1>6. CASE Driver
  BY <1>1, <1>6 DEF Driver, Sample, Notify, Poll, device
<1>7. CASE Take \/ Finish
  BY <1>1, <1>7 DEF Take, Finish, driver
<1>8. ASSUME NEW ok \in BOOLEAN, Serve(ok)
      PROVE  AnswerInv'
  <2>1. CASE ServeRead(ok)
    BY <1>1, <1>8, <2>1 DEF Serve, ServeRead, driver, DriverTypeOK
  <2>2. CASE ServeWrite(ok)
    BY <1>1, <1>2, <1>8, <2>2 DEF Serve, ServeWrite, driver, DriverTypeOK
  <2> QED
    BY <1>8, <2>1, <2>2 DEF Serve
<1>9. CASE UNCHANGED vblkVars
  BY <1>1, <1>9 DEF vblkVars, driver, device
<1> QED
  BY <1>3, <1>4, <1>5, <1>6, <1>7, <1>8, <1>9 DEF DriverNext, Request, Device

THEOREM DiskInvariant == DriverSpec => []DiskIInv
<1>1. DiskIInv /\ [DriverNext]_vblkVars => DiskIInv'
  <2>1. DiskIInv /\ [DriverNext]_vblkVars => DriverTypeOK'
    BY DiskTypeStep DEF DiskIInv
  <2>2. DiskIInv /\ [DriverNext]_vblkVars => AnswerInv'
    BY AnswerStep
  <2>3. DiskIInv /\ [DriverNext]_vblkVars =>
          IF live' THEN LiveInv' /\ (~eager' => PatientInv') ELSE DeadInv'
    BY QueueStep
  <2> QED
    BY <2>1, <2>2, <2>3 DEF DiskIInv
<1> QED
  BY <1>1, DiskInitIInv, PTL DEF DriverSpec

-----------------------------------------------------------------------------
\* The driver's and the device's variables keep their types.
THEOREM DiskTypes == DriverSpec => []DriverTypeOK
<1>1. DiskIInv => DriverTypeOK
  BY DEF DiskIInv
<1> QED
  BY <1>1, DiskInvariant, PTL

\* A request hangs only without a queue the device knows of, or if the device
\* answered before the driver looked at used (vblk.cpp:172-174).
THEOREM HangsOnlyIf == DriverSpec => []StopsOnlyIf
<1>1. DiskIInv => StopsOnlyIf
  BY DEF DiskIInv, DriverTypeOK, LiveInv, PatientInv, Unseen, InHand, Finished,
         StopsOnlyIf, Stuck, AtRest, Answered
<1> QED
  BY <1>1, DiskInvariant, PTL

\* What is polled for has been written: when the driver sees used move, its
\* request is finished.
LEMMA AnsweredIsFinished ==
  ASSUME DiskIInv, at = "poll", Answered
  PROVE  live /\ Finished
<1>1. {avail, used, before, taken} \subseteq 0 .. IndexMod - 1 /\ live \in BOOLEAN
  BY DEF DiskIInv, DriverTypeOK
<1>2. \A i, j \in {avail, used, before, taken} : Next16(i) = Next16(j) => i = j
  BY <1>1, NextIndex
<1>3. live
  BY DEF DiskIInv, DeadInv, Answered
<1> QED
  BY <1>2, <1>3 DEF DiskIInv, LiveInv, Unseen, InHand, Finished, Answered

\* A step of the driver or of the device is a step of a disk, or none at all.
LEMMA DiskStep ==
  ASSUME DiskIInv, [DriverNext]_vblkVars
  PROVE  [SD!Step]_<<store, request, got>>
<1> USE DEF request, Making
<1>1. DriverTypeOK
  BY DEF DiskIInv
<1>2. request = SD!NoRequest <=> ~Making
  BY <1>1 DEF SD!NoRequest, DriverTypeOK
<1> USE DEF SD!NoRequest
<1>3. CASE VblkInit
  BY <1>3 DEF VblkInit, device
<1>4. ASSUME NEW op \in {"read", "write"}, NEW s \in Addresses, NEW v \in Values,
             Publish(op, s, v)
      PROVE  SD!Step
  <2> DEFINE w == IF op = "write" THEN v ELSE buf
  <2>1. w \in Values /\ request' = [op |-> op, sector |-> s, value |-> w]
    BY <1>1, <1>4 DEF Publish, Prepare, DriverTypeOK
  <2>2. SD!Ask(op, s, w)
    BY <1>4, <2>1 DEF Publish, Prepare, device, SD!Ask
  <2> QED
    BY <2>1, <2>2 DEF SD!Step
<1>5. ASSUME NEW op \in {"read", "write"}, NEW s \in Addresses, NEW v \in Values,
             DivideByZero(op, s, v)
      PROVE  UNCHANGED <<store, request, got>>
  BY <1>5 DEF DivideByZero, Prepare, device
<1>6. CASE Sample \/ Notify
  BY <1>6 DEF Sample, Notify, device
<1>7. CASE Poll
  <2>1. /\ request # SD!NoRequest /\ request' = SD!NoRequest /\ store' = store
        /\ buf' \in Values /\ buf' = IF hdr.op = "read" THEN data ELSE buf
        /\ got' = [ok |-> status = "ok", value |-> buf']
    BY <1>1, <1>2, <1>7 DEF Poll, device, DriverTypeOK
  <2>2. CASE status = "ok"
    <3>1. /\ hdr.sector \in Sectors /\ buf' = store[hdr.sector]
          /\ hdr.op = "write" => store[hdr.sector] = buf
      BY <1>1, <1>7, <2>1, <2>2 DEF Poll, DiskIInv, AnswerInv, DriverTypeOK
    <3>2. SD!Succeed
      BY <1>7, <2>1, <2>2, <3>1 DEF Poll, SD!Succeed
    <3> QED
      BY <3>2 DEF SD!Step
  <2>3. CASE status # "ok"
    <3>1. SD!Fail
      BY <2>1, <2>3 DEF SD!Fail
    <3> QED
      BY <3>1 DEF SD!Step
  <2> QED
    BY <2>2, <2>3
<1>8. CASE Take \/ Finish
  BY <1>8 DEF Take, Finish, driver
<1>9. ASSUME NEW ok \in BOOLEAN, Serve(ok)
      PROVE  [SD!Step]_<<store, request, got>>
  <2>1. request' = request /\ got' = got
    BY <1>9 DEF Serve, driver
  <2>2. CASE store' = store
    BY <2>1, <2>2
  <2>3. CASE store' # store
    <3>1. /\ hdr.op = "write" /\ hdr.sector \in Sectors
          /\ store' = [store EXCEPT ![hdr.sector] = data]
      BY <1>9, <2>3 DEF Serve, ServeRead, ServeWrite
    <3>2. Making /\ data = buf
      BY <1>1, <1>9, <3>1 DEF DiskIInv, LiveInv, DeadInv, Finished, AnswerInv, Serve, DriverTypeOK
    <3>3. SD!Land
      BY <2>1, <3>1, <3>2 DEF SD!Land
    <3> QED
      BY <3>3 DEF SD!Step
  <2> QED
    BY <2>2, <2>3
<1>10. CASE UNCHANGED vblkVars
  BY <1>10 DEF vblkVars, driver, device
<1> QED
  BY <1>3, <1>4, <1>5, <1>6, <1>7, <1>8, <1>9, <1>10 DEF DriverNext, Request, Driver, Device

\* Whichever device, however eager: reads and writes are those of a disk
\* (vblk_read and vblk_write).
THEOREM ImplementsDisk == DriverSpec => ImplementsSectorDisk
<1>1. DriverInit => request = SD!NoRequest
  BY DEF DriverInit, request, Making, SD!NoRequest
<1>2. DiskIInv /\ [DriverNext]_vblkVars => [SD!Step]_<<store, request, got>>
  BY DiskStep
<1> QED
  BY <1>1, <1>2, DiskInvariant, PTL DEF DriverSpec, ImplementsSectorDisk, SD!DiskSpec
=============================================================================
